\* A tunnel beside a second one, two messages that take a page each, one fault.
SPECIFICATION FairSpec
CONSTANTS
    d1 = d1
    d2 = d2
    Link = {d1, d2}
    Message = {m1, m2}
    Via <- MCVia
    PageSize = 1
    MaxAttempts = 3
    MaxFaults = 1
INVARIANTS
    TypeOK
    OneLifeline
    AuthenticatedIsGranted
    FetchedNotIgnored
PROPERTIES
    MissedMessagesFetched
CHECK_DEADLOCK FALSE
