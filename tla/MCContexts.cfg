\* The ids wrap, records of dead clients keep theirs, and no context is held for a
\* whole round of them; clients of both byte orders, builds with either long.
CONSTANTS
    IdLimit = 2
    MaxCreate = 4
    Attr = {area, font}
    Value = {v1}
    Unset = unset
    Cleared = Cleared
    Garbled = Garbled
    Mask = Mask
    NameSize = 5
    WordSizes = {4, 8}
    Changed <- MCChanged
    Queries <- MCQueries
SPECIFICATION ContextsSpec
INVARIANTS
    AttributesAreAnswered
    ReadsBack
PROPERTIES
    ImplementsContexts
CHECK_DEADLOCK FALSE
