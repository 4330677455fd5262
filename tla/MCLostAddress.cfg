\* A user with two sockets that come and go, no message, but two workers.
SPECIFICATION Spec
CONSTANTS
    u1 = u1
    u2 = u1
    User = {u1}
    NoUser = NoUser
    Connector = {c1}
    MaxSocketId = 2
    Payload = {}
    From <- MCFrom
    To <- MCTo
    Reliable = {}
    Confirmed = {}
    Master = NoUser
    MaxBatch = 1
    MaxFetches = 0
    MaxCloses = 0
    MaxCrashes = 0
    MaxSendFaults = 0
    MaxThrows = 0
    Worker = {w1, w2}
    PageSize = 1
    MaxWorkerCrashes = 0
    MaxFaults = 0
    MaxTotal = 0
INVARIANTS
    LiveSocketRegistered
CHECK_DEADLOCK FALSE
