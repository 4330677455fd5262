\* One fault under a confirmed delivery, in batches of up to two packets, with a
\* fetch or, instead of it, a connector crash.
SPECIFICATION Spec
CONSTANTS
    u1 = u1
    u2 = u1
    User = {u1}
    NoUser = NoUser
    Connector = {c1}
    MaxSocketId = 1
    Payload = {x1}
    From <- MCFrom
    To <- MCTo
    Reliable = {x1}
    Confirmed = {x1}
    Master = NoUser
    MaxBatch = 2
    MaxFetches = 1
    MaxCloses = 0
    MaxCrashes = 1
    MaxSendFaults = 1
    MaxThrows = 1
    Worker = {w1}
    PageSize = 1
    MaxWorkerCrashes = 1
    MaxFaults = 1
    MaxTotal = 1
CONSTRAINTS
    FaultBudget
    BatchForCrash
    TimeoutsThatMatter
    OnlyUsersLeave
ACTION_CONSTRAINT
    FetchForStored
INVARIANTS
    ReliableMessageAccounted
    ConfirmedOnlyIfWritten
PROPERTIES
    ImplementsService
CHECK_DEADLOCK FALSE
