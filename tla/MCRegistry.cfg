SPECIFICATION Spec
CONSTANTS
    User = {u1, u2}
    NoUser = NoUser
    Handler = {h1, h2}
    Kafka = Kafka
    Null = Null
    MaxList = 3
    MaxRequests = 2
    MaxDamages = 1
SYMMETRY RegistrySymmetry
CONSTRAINT OneEntrySpoiled
INVARIANTS
    TypeOK
    GrantedUser
    StrandedOnlyByRace
    LeftBehindOnlyByRace
PROPERTIES
    ImplementsRegistry
CHECK_DEADLOCK FALSE
