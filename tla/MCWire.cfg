\* Every message with strings or lists, written, read and read again; every
\* message of a library with up to three names, for each setting of the service.
CONSTANTS
    Garbage = 0
    Null = 0
    Templates <- Messages
    Unread <- NotRead
    Sizes = {0, 1, 2, 3}
    Counts = {0, 1, 2}
    LengthOf <- MCLengthOf
    QueryInputStyle = 21
    Extension <- MCExtension
    IMAttr <- MCIMAttr
    ICAttr <- MCICAttr
    EncodingLists <- MCEncodingLists
    StyleLists <- MCStyleLists
    KeyLists <- MCKeyLists
    Details <- OneDetail
    Asked = {21, 22, 23}
    MaxAsked = 3
SPECIFICATION WireSpec
INVARIANTS
    WritesTheMessage
    ReadsTheMessage
    ChosenIsCommon
    AnswersAreWhole
CHECK_DEADLOCK FALSE
