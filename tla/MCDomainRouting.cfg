\* A RELIABLE and a FAST message to a user and a RELIABLE part of a group message.
SPECIFICATION MCSpec
CONSTANTS
    d1 = d1
    d2 = d2
    d3 = d3
    d4 = d4
    diamond = diamond
    line23 = line23
    line32 = line32
    without4 = without4
    Domain = {d1, d2, d3, d4}
    NoDomain = NoDomain
    Graph = {diamond, line23, line32, without4}
    Links <- MCLinks
    Message = {m1, m2, m3}
    Source <- MCSource
    Target <- MCTarget
    Group = {m3}
    Reliable = {m1, m3}
    DefaultTtl = 4
    MaxSent = 1
    MaxHops = 4
    MaxChanges = 1
    MaxReloads = 1
    MaxBreaks = 1
INVARIANTS
    TypeOK
    ShortestRoutes
    GroupsExpire

    
CHECK_DEADLOCK FALSE
