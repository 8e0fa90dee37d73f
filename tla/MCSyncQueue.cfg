\* One connection that may close and be opened again, under the fairness of
\* the event loop.
SPECIFICATION FairSpec
CONSTANTS
    Client = {c1}
    NoClient = none
    MaxKey = 4
    MaxCommit = 2
INVARIANTS
    TypeOK
    QueueWaitsForSync
    SyncIsOwed
    KeysInOrder
PROPERTIES
    ImplementsKeyStream
    KeyHandled
CHECK_DEADLOCK FALSE
