------------------------ MODULE DomainRouting_proofs ------------------------
(***************************************************************************)
(* The theorems about messages between domains, for any number of domains  *)
(* and messages, any graphs and any choice among shortest paths.           *)
(***************************************************************************)
EXTENDS DomainRouting, FiniteSetTheorems, TLAPS

\* Each domain's paths are shortest paths of the graph it loaded, which is the
\* published one until that changes.
RoutingInv ==
    /\ graphNow \in Graph /\ graph \in [Domain -> Graph]
    /\ next \in [Domain -> [Goal -> Domain \cup {NoDomain}]]
    /\ \A d \in Domain : next[d] \in Tables[graph[d]][d]
    /\ changes = 0 => \A d \in Domain : graph[d] = graphNow

MessageTypes ==
    /\ state \in [Message -> State]
    /\ at \in [Message -> Domain]
    /\ peer \in [Message -> Domain \cup {NoDomain}]
    /\ ttl \in [Message -> 0..DefaultTtl] /\ hops \in [Message -> Nat]

Rest ==
    /\ online \subseteq Domain \X Domain /\ fetching \subseteq Domain \X Domain
    /\ starting \subseteq Domain
    /\ deaf \subseteq online /\ stranded \subseteq (Domain \X Domain) \ online
    /\ changes \in Nat /\ reloads \in Nat /\ breaks \in Nat

\* A stored message has somewhere to go; one that could not be delivered waits
\* for a domain that is a step closer to its target; what a group message has
\* spent of its time to live is the number of domains that processed it.
MessageOK(m) ==
    /\ state[m] \in {"arrived"} \cup Waiting => peer[m] \in Domain \ {at[m]}
    /\ state[m] \in {"unsent", "arrived"} \cup Waiting => ttl[m] > 0
    /\ state[m] \in Waiting => at[m] # Target[m]
    /\ state[m] = "undelivered" /\ changes = 0 =>
           Distance[graphNow][peer[m]][Target[m]] + 1 = Distance[graphNow][at[m]][Target[m]]
    /\ m \in Group =>
          /\ state[m] \in {"unsent", "arrived"} => hops[m] + ttl[m] = DefaultTtl
          /\ state[m] \in Waiting => hops[m] + ttl[m] + 1 = DefaultTtl
          /\ state[m] = "expired" => hops[m] + 1 = DefaultTtl
          /\ hops[m] < DefaultTtl

MessageInv == \A m \in Message : MessageOK(m)

Inv == RoutingInv /\ MessageTypes /\ Rest /\ MessageInv /\ ShortestRoutes

-----------------------------------------------------------------------------
LEMMA DistanceType ==
    ASSUME NEW g \in Graph, NEW d \in Domain, NEW t \in Domain
    PROVE  Distance[g][d][t] \in Nat
<1> DEFINE R == {n \in 0..Cardinality(Domain) - 1 : d \notin Within(g, t)[n]}
<1>1. Cardinality(Domain) \in Nat
    BY DomainAssumption, FS_CardinalityType
<1>2. IsFiniteSet(0..Cardinality(Domain) - 1)
    BY <1>1, FS_Interval
<1>3. IsFiniteSet(R)
    BY <1>2, FS_Subset
<1>4. Cardinality(R) \in Nat
    BY <1>3, FS_CardinalityType
<1>5. Distance[g][d][t] = Cardinality(R)
    BY DEF Distance
<1> QED
    BY <1>4, <1>5

\* The next domain of a table is another one, a step closer to the goal.
LEMMA NextIsCloser ==
    ASSUME NEW g \in Graph, NEW d \in Domain, NEW t \in Goal,
           NEW table \in Tables[g][d], d # t, table[t] # NoDomain
    PROVE  /\ table[t] \in Domain \ {d}
           /\ Distance[g][table[t]][t] + 1 = Distance[g][d][t]
<1>1. t \in Domain
    BY MessageAssumption DEF Goal
<1>2. table[t] \in NextHops(g, d, t)
    BY DEF Tables
<1>3. table[t] \in Domain /\ Distance[g][table[t]][t] + 1 = Distance[g][d][t]
    BY <1>2 DEF NextHops
<1>4. Distance[g][d][t] \in Nat
    BY <1>1, DistanceType
<1> QED
    BY <1>3, <1>4

-----------------------------------------------------------------------------
\* What process has taken from the ttl of m, and of nothing else.
Touched(m) ==
    /\ ttl' \in [Message -> 0..DefaultTtl] /\ ttl'[m] > 0
    /\ \A n \in Message \ {m} : ttl'[n] = ttl[n]
    /\ m \in Group => hops[m] + ttl'[m] + 1 = DefaultTtl

\* A domain to pass m on to: another one, and closer to the target.
Closer(m, e) ==
    /\ e \in Domain \ {at[m]}
    /\ changes = 0 =>
           Distance[graphNow][e][Target[m]] + 1 = Distance[graphNow][at[m]][Target[m]]

LEMMA NextIsOnTheWay ==
    ASSUME Inv, NEW m \in Message, at[m] # Target[m],
           next[at[m]][Target[m]] # NoDomain
    PROVE  Closer(m, next[at[m]][Target[m]])
<1> DEFINE d == at[m]
<1>1. d \in Domain /\ Target[m] \in Goal
    BY MessageAssumption DEF Inv, MessageTypes, Goal
<1>2. graph[d] \in Graph /\ next[d] \in Tables[graph[d]][d]
    BY <1>1 DEF Inv, RoutingInv
<1>3. /\ next[d][Target[m]] \in Domain \ {d}
      /\ Distance[graph[d]][next[d][Target[m]]][Target[m]] + 1
             = Distance[graph[d]][d][Target[m]]
    BY <1>1, <1>2, NextIsCloser
<1>4. changes = 0 => graph[d] = graphNow
    BY <1>1 DEF Inv, RoutingInv
<1> QED
    BY <1>3, <1>4 DEF Closer

\* What a step does not touch stays as it should be.
LEMMA Elsewhere ==
    ASSUME Inv, NEW n \in Message, UNCHANGED <<routing, changes>>,
           state'[n] = state[n], at'[n] = at[n], peer'[n] = peer[n],
           ttl'[n] = ttl[n], hops'[n] = hops[n]
    PROVE  MessageOK(n)'
BY DEF Inv, MessageInv, MessageOK, routing

LEMMA PassOnStep ==
    ASSUME Inv, NEW m \in Message, NEW e, Closer(m, e), PassOn(m, at[m], e), Touched(m),
           UNCHANGED <<routing, changes>>
    PROVE  MessageTypes' /\ MessageInv' /\ ShortestRoutes'
<1> DEFINE d == at[m]
<1>1. d \in Domain /\ Target[m] \in Domain /\ Source[m] \in Domain
    BY MessageAssumption DEF Inv, MessageTypes
<1>3. /\ e \in Domain \ {d}
      /\ changes = 0 => Distance[graphNow][e][Target[m]] + 1 = Distance[graphNow][d][Target[m]]
    BY DEF Closer
<1>4. /\ state' = [state EXCEPT ![m] = "arrived"] /\ at' = [at EXCEPT ![m] = e]
      /\ peer' = [peer EXCEPT ![m] = d] /\ hops' = [hops EXCEPT ![m] = hops[m] + 1]
    BY DEF PassOn
<1>5. MessageTypes'
    BY <1>1, <1>3, <1>4 DEF Inv, MessageTypes, Touched, State
<1>6. MessageInv'
    <2> SUFFICES ASSUME NEW n \in Message PROVE MessageOK(n)'
        BY DEF MessageInv
    <2>1. CASE n = m
        BY <2>1, <1>1, <1>3, <1>4, TtlAssumption
           DEF Inv, MessageTypes, MessageOK, Waiting, Touched
    <2>2. CASE n # m
        BY <2>2, <1>4, Elsewhere DEF Inv, MessageTypes, Touched
    <2> QED
        BY <2>1, <2>2
<1>7. ShortestRoutes'
    <2> SUFFICES ASSUME changes = 0, NEW n \in Message
                 PROVE  hops'[n] + Distance[graphNow][at'[n]][Target[n]]
                            = Distance[graphNow][Source[n]][Target[n]]
        BY DEF ShortestRoutes, routing
    <2>1. hops[n] + Distance[graphNow][at[n]][Target[n]]
              = Distance[graphNow][Source[n]][Target[n]]
        BY DEF Inv, ShortestRoutes
    <2>2. CASE n = m
        <3>1. graphNow \in Graph
            BY DEF Inv, RoutingInv
        <3>2. Distance[graphNow][d][Target[m]] \in Nat /\ Distance[graphNow][e][Target[m]] \in Nat
            BY <1>1, <1>3, <3>1, DistanceType
        <3>3. hops'[m] = hops[m] + 1 /\ at'[m] = e /\ hops[m] \in Nat
            BY <1>4 DEF Inv, MessageTypes
        <3> QED
            BY <2>1, <2>2, <3>2, <3>3, <1>3
    <2>3. CASE n # m
        BY <2>1, <2>3, <1>4 DEF Inv, MessageTypes
    <2> QED
        BY <2>2, <2>3
<1> QED
    BY <1>5, <1>6, <1>7

\* A message that stays where it is, in another state.
LEMMA StayStep ==
    ASSUME Inv, UNCHANGED <<routing, changes>>, MessageTypes',
           UNCHANGED <<at, hops>>, MessageInv'
    PROVE  ShortestRoutes'
BY DEF Inv, ShortestRoutes, routing

LEMMA SettleStep ==
    ASSUME Inv, NEW m \in Message,
           NEW s \in State \ ({"unsent", "arrived"} \cup Waiting),
           Settle(m, s), UNCHANGED <<routing, changes>>,
           ttl' \in [Message -> 0..DefaultTtl],
           \A n \in Message \ {m} : ttl'[n] = ttl[n],
           s = "expired" /\ m \in Group => hops[m] + 1 = DefaultTtl
    PROVE  MessageTypes' /\ MessageInv' /\ ShortestRoutes'
<1>1. state' = [state EXCEPT ![m] = s] /\ UNCHANGED <<at, peer, hops>>
    BY DEF Settle
<1>2. MessageTypes'
    BY <1>1 DEF Inv, MessageTypes
<1>3. MessageInv'
    <2> SUFFICES ASSUME NEW n \in Message PROVE MessageOK(n)'
        BY DEF MessageInv
    <2>1. CASE n = m
        BY <2>1, <1>1 DEF Inv, MessageTypes, MessageInv, MessageOK, Waiting
    <2>2. CASE n # m
        BY <2>2, <1>1, Elsewhere DEF Inv, MessageTypes
    <2> QED
        BY <2>1, <2>2
<1> QED
    BY <1>1, <1>2, <1>3, StayStep

\* A message that waits at its domain for a closer one.
LEMMA StoreStep ==
    ASSUME Inv, NEW m \in Message, at[m] # Target[m], NEW e, Closer(m, e),
           NEW s \in Waiting, Store(m, e, s), Touched(m), UNCHANGED <<routing, changes>>
    PROVE  MessageTypes' /\ MessageInv' /\ ShortestRoutes'
<1>1. /\ state' = [state EXCEPT ![m] = s]
      /\ peer' = [peer EXCEPT ![m] = e] /\ UNCHANGED <<at, hops>>
    BY DEF Store, StoredFor
<1>2. e \in Domain \ {at[m]}
      /\ (changes = 0 =>
             Distance[graphNow][e][Target[m]] + 1 = Distance[graphNow][at[m]][Target[m]])
    BY DEF Closer
<1>3. MessageTypes'
    BY <1>1, <1>2 DEF Inv, MessageTypes, Touched, State, Waiting
<1>4. MessageInv'
    <2> SUFFICES ASSUME NEW n \in Message PROVE MessageOK(n)'
        BY DEF MessageInv
    <2>1. CASE n = m
        <3>1. state'[m] = s /\ peer'[m] = e /\ at'[m] = at[m] /\ hops'[m] = hops[m]
            BY <1>1 DEF Inv, MessageTypes
        <3>2. m \in Group => hops[m] < DefaultTtl
            BY DEF Inv, MessageInv, MessageOK
        <3> QED
            BY <2>1, <1>2, <3>1, <3>2 DEF MessageOK, Waiting, Touched, routing
    <2>2. CASE n # m
        BY <2>2, <1>1, Elsewhere DEF Inv, MessageTypes, Touched
    <2> QED
        BY <2>1, <2>2
<1> QED
    BY <1>1, <1>3, <1>4, StayStep

LEMMA DeliverOutsideStep ==
    ASSUME Inv, NEW m \in Message, at[m] # Target[m], DeliverOutside(m, at[m]),
           Touched(m), UNCHANGED <<routing, changes>>
    PROVE  MessageTypes' /\ MessageInv' /\ ShortestRoutes'
<1> DEFINE d == at[m]
           e == next[d][Target[m]]
<1>1. ASSUME NEW s \in {"error", "lost"}, Settle(m, s)
      PROVE  MessageTypes' /\ MessageInv' /\ ShortestRoutes'
    <2>1. s \in State \ ({"unsent", "arrived"} \cup Waiting) /\ s # "expired"
        BY <1>1 DEF State, Waiting
    <2> QED
        BY <1>1, <2>1, SettleStep DEF Touched
<1>2. CASE e # NoDomain /\ PassOn(m, d, e)
    BY <1>2, NextIsOnTheWay, PassOnStep
<1>3. ASSUME NEW s \in Waiting, e # NoDomain, Store(m, e, s)
      PROVE  MessageTypes' /\ MessageInv' /\ ShortestRoutes'
    BY <1>3, NextIsOnTheWay, StoreStep
<1>4. "error" \in {"error", "lost"} /\ "lost" \in {"error", "lost"}
      /\ "stored" \in Waiting /\ "undelivered" \in Waiting
    BY DEF Waiting
<1> QED
    BY <1>1, <1>2, <1>3, <1>4 DEF DeliverOutside

LEMMA ProcessStep ==
    ASSUME Inv, NEW m \in Message, state[m] \in {"unsent", "arrived"},
           Process(m, at[m]), UNCHANGED <<routing, changes>>
    PROVE  MessageTypes' /\ MessageInv' /\ ShortestRoutes'
<1>1. /\ ttl' = [ttl EXCEPT ![m] = ttl[m] - 1]
      /\ ttl[m] \in 1..DefaultTtl /\ DefaultTtl \in Nat /\ hops[m] \in Nat
    BY TtlAssumption DEF Inv, MessageTypes, MessageInv, MessageOK, Process, Touch, Waiting
<1>2. /\ ttl' \in [Message -> 0..DefaultTtl] /\ ttl'[m] = ttl[m] - 1
      /\ \A n \in Message \ {m} : ttl'[n] = ttl[n]
    BY <1>1 DEF Inv, MessageTypes
<1>3. m \in Group => hops[m] + ttl'[m] + 1 = DefaultTtl
    BY <1>1, <1>2 DEF Inv, MessageInv, MessageOK
<1>4. CASE ~IsAlive(ttl'[m]) /\ Settle(m, "expired")
    <2>1. ttl'[m] = 0
        BY <1>1, <1>2, <1>4 DEF IsAlive
    <2> QED
        BY <1>1, <1>2, <1>3, <1>4, <2>1, SettleStep DEF State, Waiting
<1>5. CASE Settle(m, "handled")
    BY <1>2, <1>5, SettleStep DEF State, Waiting
<1>6. CASE IsAlive(ttl'[m]) /\ at[m] # Target[m] /\ DeliverOutside(m, at[m])
    BY <1>2, <1>3, <1>6, DeliverOutsideStep DEF IsAlive, Touched
<1> QED
    BY <1>4, <1>5, <1>6 DEF Process

\* A step that takes some messages away and moves none.
LEMMA LoseStep ==
    ASSUME Inv, NEW M \in SUBSET Message,
           state' = [n \in Message |-> IF n \in M THEN "lost" ELSE state[n]],
           UNCHANGED <<at, peer, ttl, hops, graphNow, changes>>
    PROVE  MessageTypes' /\ MessageInv'
BY DEF Inv, MessageTypes, MessageInv, MessageOK, State, Waiting

-----------------------------------------------------------------------------
LEMMA InitInv == Init => Inv
<1> SUFFICES ASSUME Init PROVE Inv
    OBVIOUS
<1> USE DEF Init
<1>1. /\ RoutingInv
    <2>1. next \in [Domain -> UNION {Tables[graphNow][d] : d \in Domain}]
          /\ \A d \in Domain : next[d] \in Tables[graphNow][d]
        OBVIOUS
    <2>2. \A d \in Domain : next[d] \in [Goal -> Domain \cup {NoDomain}]
        BY <2>1 DEF Tables
    <2>3. next \in [Domain -> [Goal -> Domain \cup {NoDomain}]]
        BY <2>1, <2>2
    <2> QED
        BY <2>1, <2>3 DEF RoutingInv
<1>2. MessageTypes
    BY MessageAssumption, TtlAssumption DEF MessageTypes, State
<1>3. Rest
    <2>1. Linked[graphNow] \subseteq Domain \X Domain
        BY <1>1 DEF Linked, RoutingInv
    <2> QED
        BY <2>1 DEF Rest
<1>4. MessageInv
    BY TtlAssumption DEF MessageInv, MessageOK, Waiting
<1>5. ShortestRoutes
    <2> SUFFICES ASSUME NEW m \in Message
                 PROVE  hops[m] + Distance[graphNow][at[m]][Target[m]]
                            = Distance[graphNow][Source[m]][Target[m]]
        BY DEF ShortestRoutes
    <2>1. Distance[graphNow][Source[m]][Target[m]] \in Nat
        BY MessageAssumption, DistanceType
    <2> QED
        BY <2>1
<1> QED
    BY <1>1, <1>2, <1>3, <1>4, <1>5 DEF Inv

LEMMA LostStep ==
    ASSUME Inv, NEW m \in Message, Settle(m, "lost"), UNCHANGED <<routing, ttl, changes>>
    PROVE  MessageTypes' /\ MessageInv' /\ ShortestRoutes'
<1>1. ttl' \in [Message -> 0..DefaultTtl] /\ \A n \in Message \ {m} : ttl'[n] = ttl[n]
    BY DEF Inv, MessageTypes
<1>2. "lost" \in State \ ({"unsent", "arrived"} \cup Waiting) /\ "lost" # "expired"
    BY DEF State, Waiting
<1> QED
    BY <1>1, <1>2, SettleStep

\* Steps that leave the graphs and the paths alone.
LEMMA SameRoutes ==
    ASSUME RoutingInv, UNCHANGED <<routing, changes>>
    PROVE  RoutingInv'
BY DEF RoutingInv, routing

LEMMA Unmoved ==
    ASSUME Inv, UNCHANGED <<routing, message, changes>>, Rest'
    PROVE  Inv'
BY SameRoutes DEF Inv, MessageTypes, MessageInv, MessageOK, ShortestRoutes, routing, message

LEMMA NextInv ==
    ASSUME Inv, [Next]_vars
    PROVE  Inv'
<1>1. ASSUME NEW m \in Message, SendMessage(m)
      PROVE  Inv'
    <2>1. state[m] = "unsent" /\ Process(m, at[m])
          /\ UNCHANGED <<routing, tunnels, changes, reloads, breaks>>
        BY <1>1 DEF SendMessage
    <2>2. MessageTypes' /\ MessageInv' /\ ShortestRoutes'
        BY <2>1, ProcessStep
    <2> QED
        BY <2>1, <2>2, SameRoutes DEF Inv, Rest, tunnels
<1>2. ASSUME NEW m \in Message, HandleInternalMessage(m)
      PROVE  Inv'
    <2>1. state[m] = "arrived" /\ UNCHANGED <<routing, tunnels, changes, reloads, breaks>>
        BY <1>2 DEF HandleInternalMessage
    <2>2. CASE Process(m, at[m])
        BY <2>1, <2>2, ProcessStep, SameRoutes DEF Inv, Rest, tunnels
    <2>3. CASE /\ m \notin Group /\ at[m] # Target[m]
               /\ DeliverOutside(m, at[m]) /\ UNCHANGED ttl
        <3>1. Touched(m)
            BY <2>1, <2>3 DEF Inv, MessageTypes, MessageInv, MessageOK, Touched
        <3>2. MessageTypes' /\ MessageInv' /\ ShortestRoutes'
            BY <2>1, <2>3, <3>1, DeliverOutsideStep
        <3> QED
            BY <2>1, <3>2, SameRoutes DEF Inv, Rest, tunnels
    <2> QED
        BY <1>2, <2>2, <2>3 DEF HandleInternalMessage
<1>3. ASSUME NEW d \in Domain, NEW e \in Domain, Authenticated(d, e)
      PROVE  Inv'
    <2>1. UNCHANGED <<routing, message, changes>>
        BY <1>3 DEF Authenticated
    <2>2. Rest'
        BY <1>3 DEF Authenticated, Inv, Rest
    <2> QED
        BY <2>1, <2>2, Unmoved
<1>10. ASSUME NEW e \in Domain, AddCallbacks(e)
       PROVE  Inv'
    <2>1. UNCHANGED <<routing, message, changes>>
        BY <1>10 DEF AddCallbacks
    <2>2. Rest'
        BY <1>10 DEF AddCallbacks, Inv, Rest
    <2> QED
        BY <2>1, <2>2, Unmoved
<1>11. ASSUME NEW d \in Domain, NEW e \in Domain, ConnectFails(d, e)
       PROVE  Inv'
    <2>1. UNCHANGED <<routing, message, changes>>
        BY <1>11 DEF ConnectFails
    <2>2. Rest'
        BY <1>11 DEF ConnectFails, EndsUnheard, Inv, Rest
    <2> QED
        BY <2>1, <2>2, Unmoved
<1>12. ASSUME NEW m \in Message, IgnoreMessage(m)
       PROVE  Inv'
    <2>1. Settle(m, "lost") /\ UNCHANGED <<routing, tunnels, ttl, changes, reloads, breaks>>
        BY <1>12 DEF IgnoreMessage
    <2>2. Rest' /\ RoutingInv'
        BY <2>1, SameRoutes DEF Inv, Rest, tunnels
    <2> QED
        BY <2>1, <2>2, LostStep DEF Inv
<1>4. ASSUME NEW d \in Domain, NEW e \in Domain, FetchComplete(d, e)
      PROVE  Inv'
    <2>1. UNCHANGED <<routing, message, changes>>
        BY <1>4 DEF FetchComplete
    <2>2. Rest'
        BY <1>4 DEF FetchComplete, Inv, Rest
    <2> QED
        BY <2>1, <2>2, Unmoved
<1>5. ASSUME NEW d \in Domain, NEW e \in Domain, NEW m \in Message, FetchMissing(d, e, m)
      PROVE  Inv'
    <2> DEFINE f == FetchedBy(m, d, e)
    <2>1. /\ state[m] \in Waiting /\ at[m] = d /\ peer[m] = e /\ at[m] # Target[m]
          /\ UNCHANGED <<routing, online, starting, deaf, stranded, ttl, changes, reloads,
                         breaks>>
        BY <1>5 DEF FetchMissing, Fetchable, Inv, MessageInv, MessageOK
    <2>2. Rest' /\ RoutingInv'
        BY <1>5, <2>1, SameRoutes DEF FetchMissing, Inv, Rest
    <2>3. CASE UNCHANGED <<state, at, peer, hops>>
        BY <2>1, <2>2, <2>3, Unmoved DEF message
    <2>4. CASE f # NoDomain /\ PassOn(m, d, f)
        <3>1. Touched(m)
            BY <2>1 DEF Inv, MessageTypes, MessageInv, MessageOK, Touched
        <3>2. Closer(m, f)
            <4>1. CASE state[m] = "undelivered"
                BY <2>1, <4>1 DEF FetchedBy, Closer, Inv, MessageInv, MessageOK
            <4>2. CASE state[m] # "undelivered"
                BY <2>1, <2>4, <4>2, NextIsOnTheWay DEF FetchedBy
            <4> QED
                BY <4>1, <4>2
        <3>3. MessageTypes' /\ MessageInv' /\ ShortestRoutes'
            BY <2>1, <2>4, <3>1, <3>2, PassOnStep
        <3> QED
            BY <2>2, <3>3 DEF Inv
    <2>5. CASE Settle(m, "lost")
        BY <2>1, <2>2, <2>5, LostStep DEF Inv
    <2> QED
        BY <1>5, <2>3, <2>4, <2>5 DEF FetchMissing
<1>6. ASSUME NEW d \in Domain, NEW e \in Domain, Break(d, e)
      PROVE  Inv'
    <2>1. PICK M \in SUBSET {m \in Message : state[m] = "arrived" /\ at[m] = e /\ peer[m] = d} :
              state' = [m \in Message |-> IF m \in M THEN "lost" ELSE state[m]]
        BY <1>6 DEF Break
    <2>2. UNCHANGED <<routing, fetching, starting, at, peer, ttl, hops, changes, reloads>>
        BY <1>6 DEF Break
    <2>3. MessageTypes' /\ MessageInv'
        BY <2>1, <2>2, LoseStep DEF routing
    <2>4. Rest'
        BY <1>6 DEF Break, EndsUnheard, Inv, Rest
    <2> QED
        BY <2>2, <2>3, <2>4, SameRoutes, StayStep DEF Inv
<1>7. CASE ChangeGraph
    <2>1. /\ changes' = changes + 1 /\ graphNow' \in Graph
          /\ UNCHANGED <<graph, next, tunnels, message, reloads, breaks>>
        BY <1>7 DEF ChangeGraph
    <2>2. Rest' /\ changes' # 0
        BY <2>1 DEF Inv, Rest, tunnels
    <2> QED
        BY <2>1, <2>2 DEF Inv, RoutingInv, MessageTypes, MessageInv, MessageOK,
           ShortestRoutes, message
<1>8. ASSUME NEW d \in Domain, Reload(d)
      PROVE  Inv'
    <2>1. /\ graph' = [graph EXCEPT ![d] = graphNow]
          /\ UNCHANGED <<graphNow, fetching, at, peer, ttl, hops, changes, breaks>>
        BY <1>8 DEF Reload
    <2>2. PICK table \in Tables[graphNow][d] : next' = [next EXCEPT ![d] = table]
        BY <1>8 DEF Reload
    <2>3. RoutingInv'
        <3>1. table \in [Goal -> Domain \cup {NoDomain}]
            BY <2>2 DEF Inv, RoutingInv, Tables
        <3>2. \A c \in Domain : next'[c] \in Tables[graph'[c]][c]
            BY <2>1, <2>2 DEF Inv, RoutingInv
        <3> QED
            BY <2>1, <2>2, <3>1, <3>2 DEF Inv, RoutingInv
    <2>4. PICK M \in SUBSET Message :
              state' = [m \in Message |-> IF m \in M THEN "lost" ELSE state[m]]
        <3> DEFINE M == {m \in Message : state[m] = "arrived" /\ at[m] = d}
        <3>1. M \in SUBSET Message
              /\ state' = [m \in Message |-> IF m \in M THEN "lost" ELSE state[m]]
            BY <1>8 DEF Reload
        <3> QED
            BY <3>1
    <2>5. MessageTypes' /\ MessageInv'
        BY <2>1, <2>4, LoseStep
    <2>6. ShortestRoutes'
        BY <2>1 DEF Inv, ShortestRoutes
    <2>7. Rest'
        BY <1>8 DEF Reload, Inv, Rest
    <2> QED
        BY <2>3, <2>5, <2>6, <2>7 DEF Inv
<1>9. CASE UNCHANGED vars
    <2>1. UNCHANGED <<routing, message, changes>> /\ Rest'
        BY <1>9 DEF Inv, Rest, vars, routing, message
    <2> QED
        BY <2>1, Unmoved
<1> QED
    BY <1>1, <1>2, <1>3, <1>4, <1>5, <1>6, <1>7, <1>8, <1>9, <1>10, <1>11,
       <1>12 DEF Next, Step

LEMMA Invariance == Spec => []Inv
<1>1. Inv /\ [Next]_vars => Inv'
    BY NextInv
<1> QED
    BY <1>1, InitInv, PTL DEF Spec

-----------------------------------------------------------------------------
\* Types, and that a message under way came from, or waits for, another domain:
\* no domain's shortest path starts with itself.
THEOREM TypesHold == Spec => []TypeOK
<1>1. Inv => TypeOK
    BY DEF Inv, RoutingInv, MessageTypes, Rest, MessageInv, MessageOK, TypeOK
<1> QED
    BY <1>1, Invariance, PTL

\* Whatever paths the domains choose and whatever breaks, messages are on
\* shortest paths while the graph does not change.
THEOREM RoutesAreShortest == Spec => []ShortestRoutes
<1>1. Inv => ShortestRoutes
    BY DEF Inv
<1> QED
    BY <1>1, Invariance, PTL

\* A group message goes through less than DefaultTtl tunnels in any graphs, and
\* while they agree it is only dropped on its way to a domain that far.
THEOREM GroupMessagesExpire == Spec => []GroupsExpire
<1>1. Inv => GroupsExpire
    <2> SUFFICES ASSUME Inv, NEW m \in Group
                 PROVE  /\ hops[m] < DefaultTtl
                        /\ changes = 0 /\ state[m] = "expired" =>
                               Distance[graphNow][Source[m]][Target[m]] >= DefaultTtl - 1
        BY DEF GroupsExpire
    <2>1. m \in Message /\ MessageOK(m)
        BY MessageAssumption DEF Inv, MessageInv
    <2>2. hops[m] \in Nat /\ DefaultTtl \in Nat
        BY <2>1, TtlAssumption DEF Inv, MessageTypes
    <2>3. Distance[graphNow][at[m]][Target[m]] \in Nat
        BY <2>1, MessageAssumption, DistanceType DEF Inv, RoutingInv, MessageTypes
    <2>4. changes = 0 => hops[m] + Distance[graphNow][at[m]][Target[m]]
                             = Distance[graphNow][Source[m]][Target[m]]
        BY <2>1 DEF Inv, ShortestRoutes
    <2> QED
        BY <2>1, <2>2, <2>3, <2>4 DEF MessageOK
<1> QED
    BY <1>1, Invariance, PTL
=============================================================================
