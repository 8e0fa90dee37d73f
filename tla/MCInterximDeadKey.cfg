\* Two clients, one of them with a dead key the other one's trigger cancels.
SPECIFICATION Spec
CONSTANTS
    Client = {c1, c2}
    NoClient = none
    MaxKey = 2
    MaxAsk = 1
    MaxText = 1
INVARIANTS
    PreeditHasReason
CHECK_DEADLOCK FALSE
