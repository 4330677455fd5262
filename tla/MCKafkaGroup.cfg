\* A group of two consumers: batches cut short by a crash, a shutdown, a
\* rebalance or a failure of Redis, up to two of them in a behaviour.
SPECIFICATION FairSpec
CONSTANTS
    k1 = k1
    Key = {k1, k2}
    Consumer = {c1, c2}
    NoConsumer = NoConsumer
    MaxLog = 3
    MaxCrashes = 1
    MaxStops = 1
    MaxRevokes = 1
    MaxCacheFaults = 1
    MaxTotal = 2
CONSTRAINTS
    FewInterruptions
    FirstKeyFirst
INVARIANTS
    TypeOK
    RepeatedOnlyIfWasted
    NoRecordLost
PROPERTIES
    ImplementsTopic
    EveryRecordHandled
CHECK_DEADLOCK FALSE
