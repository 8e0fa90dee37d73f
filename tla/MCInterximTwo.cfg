\* Two clients share the window and the dead key.
SPECIFICATION Spec
CONSTANTS
    Client = {c1, c2}
    NoClient = none
    MaxKey = 1
    MaxAsk = 2
    MaxText = 1
SYMMETRY Symmetry
INVARIANTS
    DeadKeyIsConsumable
    WindowIsWanted
CHECK_DEADLOCK FALSE
