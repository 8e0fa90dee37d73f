\* Every file of up to two lines, files in parts, and three that are typed with,
\* the cursor moved, the input changed and the setup applied in between.
SPECIFICATION KeyboardSpec
CONSTANTS
    Files <- MCFiles
    Typed <- MCTyped
    EndsInLine = {TRUE}
    BufferSize = 40
    Char = {107, 108, 109}
    Input = {0, 1}
    Stale <- MCBehind
    MaxText = 4
INVARIANTS
    TypeOK
    LoadedIsMeant
    TextIsGreedy
    PartsAreFound
PROPERTIES
    NotStuck
    Loaded
CHECK_DEADLOCK FALSE
