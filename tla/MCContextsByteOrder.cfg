\* The same, for what the documentation says of byte orders.
CONSTANTS
    IdLimit = 2
    MaxCreate = 4
    Attr = {area, font}
    Value = {v1}
    Unset = unset
    Cleared = Cleared
    Garbled = Garbled
    Mask = Mask
    NameSize = 5
    WordSizes = {4, 8}
    Changed <- MCChanged
    Queries <- MCQueries
SPECIFICATION ContextsSpec
INVARIANT ByteOrderIsEncapsulated
CHECK_DEADLOCK FALSE
