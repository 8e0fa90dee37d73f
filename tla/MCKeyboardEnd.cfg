\* A last line without a newline.
SPECIFICATION KeyboardSpec
CONSTANTS
    Files <- OnlyTelex
    Typed <- NoneTyped
    EndsInLine = {FALSE}
    BufferSize = 40
    Char = {107, 108, 109}
    Input = {0}
    Stale <- MCBehind
    MaxText = 4
PROPERTY Loaded
CHECK_DEADLOCK FALSE
