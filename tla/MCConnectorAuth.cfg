\* One socket id that two clients use in turn, under the authentication
\* timeout: a reply may get lost, and a crash starts ids over while packets to
\* the old socket are still on their way.  One client also sends the other a
\* FAST message that it wants confirmed, and has a connection closed.
SPECIFICATION FairSpec
CONSTANTS
    u1 = u1
    u2 = u2
    User = {u1, u2}
    NoUser = NoUser
    Connector = {c1}
    MaxSocketId = 1
    Payload = {x1}
    From <- MCFrom
    To <- MCTo
    Reliable = {}
    Confirmed = {x1}
    Master = NoUser
    MaxBatch = 1
    MaxFetches = 0
    MaxCloses = 1
    MaxCrashes = 1
    MaxSendFaults = 0
    MaxThrows = 1
INVARIANTS
    ConnectorTypeOK
    RegistryAgreement
    GhostOnlyByRace
    NoMisdelivery
    TimeoutPending
PROPERTIES
    UnauthenticatedSocketEnds
CHECK_DEADLOCK FALSE
