\* A message whose addressee, the master, comes, goes, fetches and closes, or
\* two sockets of that user without message.
SPECIFICATION FairSpec
CONSTANTS
    u1 = u1
    u2 = u1
    User = {u1}
    NoUser = NoUser
    Connector = {c1}
    MaxSocketId = 2
    Payload = {x1}
    From <- MCFrom
    To <- MCTo
    Reliable = {x1}
    Confirmed = {}
    Master = u1
    MaxBatch = 1
    MaxFetches = 1
    MaxCloses = 1
    MaxCrashes = 0
    MaxSendFaults = 0
    MaxThrows = 0
    Worker = {w1}
    PageSize = 1
    MaxWorkerCrashes = 0
    MaxFaults = 0
    MaxTotal = 0
CONSTRAINT SecondSocketAlone
INVARIANTS
    LiveSocketRegistered
PROPERTIES
    MessageSettles
CHECK_DEADLOCK FALSE
