\* A packet for two users, the second one the master, whose sockets are on one
\* connector or on two; one fault of any kind.
SPECIFICATION Spec
CONSTANTS
    u2 = u2
    c1 = c1
    c2 = c2
    a1 = a1
    a2 = a2
    a3 = a3
    a4 = a4
    Member = {u1, u2}
    NoUser = NoUser
    Master = u2
    Connector = {c1, c2}
    Address = {a1, a2, a3, a4}
    ConnectorOf <- MCConnectorOf
    NoAddress = NoAddress
    Worker = {w1}
    MaxFaults = 1
    MaxBatch = 2
SYMMETRY SocketSymmetry
CONSTRAINTS
    FewSockets
    BatchForCrash
INVARIANTS
    TypeOK
    MemberAccounted
    OncePerSocket
    NeverConfirmed
CHECK_DEADLOCK FALSE
