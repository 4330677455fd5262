\* A fetch while the addressee has no address; no fault at all.
SPECIFICATION Spec
CONSTANTS
    u1 = u1
    u2 = u1
    User = {u1}
    NoUser = NoUser
    Connector = {c1}
    MaxSocketId = 1
    Payload = {x1}
    From <- MCFrom
    To <- MCTo
    Reliable = {x1}
    Confirmed = {}
    Master = NoUser
    MaxBatch = 1
    MaxFetches = 1
    MaxCloses = 0
    MaxCrashes = 0
    MaxSendFaults = 0
    MaxThrows = 0
    Worker = {w1}
    PageSize = 1
    MaxWorkerCrashes = 0
    MaxFaults = 0
    MaxTotal = 0
INVARIANTS
    ReliableMessageNotLost
CHECK_DEADLOCK FALSE
