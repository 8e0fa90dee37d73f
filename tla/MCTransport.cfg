\* Three windows at a time, one record more than there are ids, and more long
\* messages than there are numbers.
SPECIFICATION TransportSpec
CONSTANTS
    Window = {w1, w2, w3}
    ByteOrder = {l, B}
    Unknown = unknown
    IdLimit = 2
    MaxRecord = 3
    Round = 1
    MaxSent = 4
SYMMETRY Symmetry
INVARIANTS
    WindowsHaveRecords
    RecordsAreKept
    AnswersSender
    ByteOrderIsPeers
    MailIsRead
    PropertiesAreApart
CHECK_DEADLOCK FALSE
