\* One client: a conversion key and the window it needs.
SPECIFICATION Spec
CONSTANTS
    Client = {c1}
    NoClient = none
    MaxKey = 2
    MaxAsk = 1
    MaxText = 1
INVARIANTS
    FlushHasBuffer
CHECK_DEADLOCK FALSE
