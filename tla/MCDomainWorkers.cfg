\* Two workers: deliveries, disconnects and two fetches at the same time, while
\* the master user is told of the connections, on a socket or in the database.
SPECIFICATION Spec
CONSTANTS
    u1 = u1
    u2 = u1
    User = {u1, um}
    NoUser = NoUser
    Connector = {c1}
    MaxSocketId = 1
    Payload = {x1}
    From <- MCFrom
    To <- MCTo
    Reliable = {x1}
    Confirmed = {}
    Master = um
    MaxBatch = 1
    MaxFetches = 2
    MaxCloses = 0
    MaxCrashes = 0
    MaxSendFaults = 0
    MaxThrows = 0
    Worker = {w1, w2}
    PageSize = 1
    MaxWorkerCrashes = 0
    MaxFaults = 0
    MaxTotal = 0
SYMMETRY WorkerSymmetry
INVARIANTS
    ProcessorTypeOK
    FetchesExclusive
    ReliableMessageAccounted
CHECK_DEADLOCK FALSE
