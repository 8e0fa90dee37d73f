\* One client: everything the handlers do under the fairness of the event
\* loop, and the refinement of SyncQueue.
SPECIFICATION FairSpec
CONSTANTS
    Client = {c1}
    NoClient = none
    MaxKey = 3
    MaxAsk = 2
    MaxText = 2
INVARIANTS
    TypeOK
    RequestIsAnswered
    PreeditHasReason
PROPERTIES
    ImplementsSyncQueue
    KeysComeBack
    RequestReleased
CHECK_DEADLOCK FALSE
