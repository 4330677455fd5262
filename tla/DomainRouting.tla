---------------------------- MODULE DomainRouting ----------------------------
(***************************************************************************)
(* Messages between domains.  Each domain loads the graph of domains when  *)
(* it starts, computes shortest paths from itself, and hands a message for *)
(* another domain to the first domain of its path there, through the       *)
(* tunnel that this domain keeps open to it; if there is none now, or the  *)
(* delivery fails, a RELIABLE message waits in the database for that       *)
(* tunnel's fetch.  A domain that starts sets the callbacks of its tunnels *)
(* after it has connected them (DomainTunnel has the details): one that is *)
(* authenticated too early does not fetch, and one that ends too early is  *)
(* not connected again.                                                    *)
(*                                                                         *)
(* A message to a user travels in an INTERNAL_MESSAGE that each domain     *)
(* makes anew; the part of a group message for a domain is addressed to    *)
(* the processors, so that each domain on the way unpacks and processes it *)
(* and takes one from its time to live.                                    *)
(***************************************************************************)
EXTENDS Naturals, FiniteSets

CONSTANTS
    Domain,
    NoDomain,        \* getNextDomainName's null
    Graph,           \* the graphs the meta server may publish
    Links,           \* the links of each graph
    Message,
    Source, Target,  \* the domain a message starts in, and the one it is for
    Group,           \* the messages that are parts of group messages
    Reliable,        \* the messages with feature RELIABLE
    DefaultTtl,      \* ttl of a fresh MessageMeta: 10
    MaxSent,         \* bound: messages that are ever sent
    MaxHops,         \* bound: tunnels a message is followed through
    MaxChanges,      \* bound: graphs published after the first one
    MaxReloads,      \* bound: restarts of processors
    MaxBreaks        \* bound: connections of tunnels that break or fail

ASSUME DomainAssumption == IsFiniteSet(Domain) /\ NoDomain \notin Domain
ASSUME GraphAssumption == \A g \in Graph : \A link \in Links[g] : link \subseteq Domain
ASSUME MessageAssumption ==
    /\ Source \in [Message -> Domain] /\ Target \in [Message -> Domain]
    /\ \A m \in Message : Source[m] # Target[m]
    /\ Group \subseteq Message /\ Reliable \subseteq Message
ASSUME TtlAssumption == DefaultTtl \in Nat \ {0}

VARIABLES
    graphNow,  \* the graph the meta server publishes
    graph,     \* the graph each domain loaded when it started
    next,      \* getNextDomainName of each domain: its choice of shortest paths
    online,    \* <<d, e>>: the tunnel of e to d is connected and authenticated
    fetching,  \* <<d, e>>: e asked d for missing messages
    starting,  \* domains whose tunnels do not have all their callbacks yet
    deaf,      \* <<d, e>>: the tunnel of e to d was authenticated and did not fetch
    stranded,  \* <<d, e>>: e's tunnel to d ended and will not be connected again
    state,     \* what has become of each message
    at,        \* the domain that has it
    peer,      \* where it came from, or in the database, whose fetch it waits for
    ttl,       \* ttl of the message inside, touched by process
    hops,      \* history: tunnels it went through
    changes, reloads, breaks  \* budgets spent

routing == <<graphNow, graph, next>>
tunnels == <<online, fetching, starting, deaf, stranded>>
message == <<state, at, peer, ttl, hops>>
vars == <<graphNow, graph, next, online, fetching, starting, deaf, stranded,
          state, at, peer, ttl, hops, changes, reloads, breaks>>

\* "stored" is in the database as ADDRESS_NOT_FOUND, "undelivered" as
\* NETWORK_ERROR and "error" as PROCESSOR_ERROR, in which no fetch finds it.
State == {"unsent", "arrived", "stored", "undelivered", "handled", "expired", "error",
          "lost"}
Waiting == {"stored", "undelivered"}

-----------------------------------------------------------------------------
\* The domains at most n links away from t.
Within(g, t) ==
    LET ball[n \in Nat] ==
            IF n = 0 THEN {t}
            ELSE LET nearer == ball[n - 1] IN
                 nearer \cup {d \in Domain : \E e \in nearer : {d, e} \in Links[g]}
    IN  ball

\* The number of links between d and t: the radii that do not reach from t to d.
Distance == [g \in Graph |-> [d \in Domain |-> [t \in Domain |->
    Cardinality({n \in 0..Cardinality(Domain) - 1 : d \notin Within(g, t)[n]})]]]

Connected(g, d, t) == Distance[g][d][t] < Cardinality(Domain)

\* Faulty: any neighbour with a path to t will do.
AnyWay(g, d, t) ==
    IF d = t THEN {d}
    ELSE IF ~Connected(g, d, t) THEN {NoDomain}
    ELSE {e \in Domain : {d, e} \in Links[g] /\ Connected(g, e, t)}

\* The second domain of some shortest path from d to t, or d itself, or null;
\* which path, among several, is up to DijkstraShortestPath.
NextHops(g, d, t) ==
    IF d = t THEN {d}
    ELSE IF ~Connected(g, d, t) THEN {NoDomain}
    ELSE {e \in Domain : {d, e} \in Links[g] /\ Distance[g][e][t] + 1 = Distance[g][d][t]}

\* The domains that messages are for, the only paths that matter.
Goal == {Target[m] : m \in Message}

\* loadGraph: any choice of paths.
Tables == [g \in Graph |-> [d \in Domain |->
    {table \in [Goal -> Domain \cup {NoDomain}] :
        \A t \in Goal : table[t] \in NextHops(g, d, t)}]]

Linked == [g \in Graph |-> {p \in Domain \X Domain : {p[1], p[2]} \in Links[g]}]

\* All domains run with the first graph.
Init ==
    /\ graphNow \in Graph
    /\ graph = [d \in Domain |-> graphNow]
    /\ next \in {f \in [Domain -> UNION {Tables[graphNow][d] : d \in Domain}] :
                    \A d \in Domain : f[d] \in Tables[graphNow][d]}
    /\ online = Linked[graphNow] /\ fetching = {}
    /\ starting = {} /\ deaf = {} /\ stranded = {}
    /\ state = [m \in Message |-> "unsent"]
    /\ at = Source
    /\ peer = [m \in Message |-> NoDomain]
    /\ ttl = [m \in Message |-> DefaultTtl]
    /\ hops = [m \in Message |-> 0]
    /\ changes = 0 /\ reloads = 0 /\ breaks = 0

-----------------------------------------------------------------------------
Settle(m, s) == state' = [state EXCEPT ![m] = s] /\ UNCHANGED <<at, peer, hops>>

\* sendToConnector, for a tunnel that is connected.
PassOn(m, d, e) ==
    /\ hops[m] < MaxHops
    /\ state' = [state EXCEPT ![m] = "arrived"]
    /\ at' = [at EXCEPT ![m] = e]
    /\ peer' = [peer EXCEPT ![m] = d]
    /\ hops' = [hops EXCEPT ![m] = @ + 1]

StoredForNobody(m, e) == NoDomain

\* The addressee under which a message that e should have got is stored: setTo
\* puts the user of e's tunnel there.
StoredFor(m, e) == e

\* persistMessage, for e's fetch.
Store(m, e, s) ==
    /\ m \in Reliable
    /\ state' = [state EXCEPT ![m] = s]
    /\ peer' = [peer EXCEPT ![m] = StoredFor(m, e)]
    /\ UNCHANGED <<at, hops>>

\* deliverMessageOutsideDomain at d: to the next domain, or to the database if
\* its tunnel is not connected or the delivery fails; a message for which there
\* is no next domain raises an exception, and what arrived is persisted as
\* PROCESSOR_ERROR.  What is not RELIABLE is not persisted.
DeliverOutside(m, d) ==
    LET e == next[d][Target[m]] IN
    \/ e = NoDomain /\ Settle(m, IF m \in Reliable THEN "error" ELSE "lost")
    \/ /\ e # NoDomain /\ <<d, e>> \in online
       /\ PassOn(m, d, e) \/ Store(m, e, "undelivered")
    \/ e # NoDomain /\ <<d, e>> \notin online /\ Store(m, e, "stored")
    \/ e # NoDomain /\ m \notin Reliable /\ Settle(m, "lost")

\* isMessageAlive.
IsAlive(n) == n > 0

\* Faulty: a message that is only passing keeps its time to live.
TouchAtEnds(m) ==
    ttl' = IF at[m] \in {Source[m], Target[m]} THEN [ttl EXCEPT ![m] = @ - 1] ELSE ttl

\* touchMessage.
Touch(m) == ttl' = [ttl EXCEPT ![m] = @ - 1]

\* MessageProcessorService.process at d: what is too old is dropped, what is for
\* this domain gets to its processor, and the rest goes out.
Process(m, d) ==
    /\ Touch(m)
    /\ \/ ~IsAlive(ttl'[m]) /\ Settle(m, "expired")
       \/ IsAlive(ttl'[m]) /\ d = Target[m] /\ Settle(m, "handled")
       \/ IsAlive(ttl'[m]) /\ d # Target[m] /\ DeliverOutside(m, d)

\* The message enters the system at its source.
SendMessage(m) ==
    /\ state[m] = "unsent" /\ Cardinality({n \in Message : state[n] # "unsent"}) < MaxSent
    /\ Process(m, at[m])
    /\ UNCHANGED <<routing, tunnels, changes, reloads, breaks>>

\* handleInternalMessage and InternalMessageProcessor: the domain of the user
\* unpacks and processes it, any other domain sends on the new wrapper.
HandleInternalMessage(m) ==
    /\ state[m] = "arrived"
    /\ IF m \in Group \/ at[m] = Target[m]
       THEN Process(m, at[m])
       ELSE DeliverOutside(m, at[m]) /\ UNCHANGED ttl
    /\ UNCHANGED <<routing, tunnels, changes, reloads, breaks>>

-----------------------------------------------------------------------------
\* The tunnel of e to a linked domain d is authenticated, and fetches, unless
\* DomainService.init has not set onAuthenticated yet.
Authenticated(d, e) ==
    /\ <<d, e>> \in Linked[graph[e]] \ (online \cup stranded)
    /\ online' = online \cup {<<d, e>>}
    /\ \/ fetching' = fetching \cup {<<d, e>>} /\ UNCHANGED deaf
       \/ e \in starting /\ deaf' = deaf \cup {<<d, e>>} /\ UNCHANGED fetching
    /\ UNCHANGED <<routing, starting, stranded, message, changes, reloads, breaks>>

\* The setup thread of e has set the last callback.
AddCallbacks(e) ==
    /\ e \in starting
    /\ starting' = starting \ {e}
    /\ UNCHANGED <<routing, online, fetching, deaf, stranded, message, changes, reloads,
                   breaks>>

\* A connection of e that ends before DomainTunnel.doConnect has set
\* onDisconnected is not replaced.
EndsUnheard(d, e) ==
    /\ e \in starting
    /\ stranded' = stranded \cup {<<d, e>>}

\* The first connection of a tunnel does not come about.
ConnectFails(d, e) ==
    /\ <<d, e>> \in Linked[graph[e]] \ (online \cup stranded) /\ breaks < MaxBreaks
    /\ breaks' = breaks + 1
    /\ EndsUnheard(d, e)
    /\ UNCHANGED <<routing, online, fetching, starting, deaf, message, changes, reloads>>

\* A connection breaks, maybe with messages on their way.
Break(d, e) ==
    /\ <<d, e>> \in online /\ breaks < MaxBreaks
    /\ breaks' = breaks + 1
    /\ online' = online \ {<<d, e>>}
    /\ deaf' = deaf \ {<<d, e>>}
    /\ EndsUnheard(d, e) \/ UNCHANGED stranded
    /\ \E M \in SUBSET {m \in Message : state[m] = "arrived" /\ at[m] = e /\ peer[m] = d} :
          state' = [m \in Message |-> IF m \in M THEN "lost" ELSE state[m]]
    /\ UNCHANGED <<routing, fetching, starting, at, peer, ttl, hops, changes, reloads>>

\* A message that comes before DomainService.init has set onMessage is ignored.
IgnoreMessage(m) ==
    /\ state[m] = "arrived" /\ at[m] \in starting
    /\ Settle(m, "lost")
    /\ UNCHANGED <<routing, tunnels, ttl, changes, reloads, breaks>>

\* findMessages for the user of e's tunnel.
Fetchable(m, d, e) == state[m] \in Waiting /\ at[m] = d /\ peer[m] = e

\* deliverMessage of a stored message, when e fetches it from d: along the path
\* of now, or, if its delivery failed, to the address of e's tunnel that
\* sendToAddresses left in it: that is in d itself.
FetchedBy(m, d, e) == IF state[m] = "undelivered" THEN e ELSE next[d][Target[m]]

\* The fetch delivers a stored message and removes it: one that is stored again
\* instead of sent is gone.  The exception that tells that there is no path ends
\* the fetch.
FetchMissing(d, e, m) ==
    LET f == FetchedBy(m, d, e) IN
    /\ <<d, e>> \in fetching /\ Fetchable(m, d, e)
    /\ \/ /\ f = NoDomain
          /\ fetching' = fetching \ {<<d, e>>}
          /\ UNCHANGED <<state, at, peer, hops>>
       \/ f # NoDomain /\ <<d, f>> \in online /\ PassOn(m, d, f) /\ UNCHANGED fetching
       \/ f # NoDomain /\ <<d, f>> \notin online /\ Settle(m, "lost") /\ UNCHANGED fetching
    /\ UNCHANGED <<routing, online, starting, deaf, stranded, ttl, changes, reloads, breaks>>

\* FETCH_MISSING_MESSAGES_COMPLETE with nothing left.
FetchComplete(d, e) ==
    /\ <<d, e>> \in fetching /\ \A m \in Message : ~Fetchable(m, d, e)
    /\ fetching' = fetching \ {<<d, e>>}
    /\ UNCHANGED <<routing, online, starting, deaf, stranded, message, changes, reloads,
                   breaks>>

-----------------------------------------------------------------------------
\* The meta server gets another configuration.
ChangeGraph ==
    /\ changes < MaxChanges
    /\ changes' = changes + 1
    /\ graphNow' \in Graph \ {graphNow}
    /\ UNCHANGED <<graph, next, tunnels, message, reloads, breaks>>

\* The processors of d start again: they load the graph of now and open their
\* tunnels anew, without callbacks at first; what a tunnel had brought and was
\* not handled is gone.
Reload(d) ==
    /\ reloads < MaxReloads
    /\ reloads' = reloads + 1
    /\ graph' = [graph EXCEPT ![d] = graphNow]
    /\ \E table \in Tables[graphNow][d] : next' = [next EXCEPT ![d] = table]
    /\ online' = {p \in online : p[2] # d}
    /\ starting' = starting \cup {d}
    /\ deaf' = {p \in deaf : p[2] # d}
    /\ stranded' = {p \in stranded : p[2] # d}
    /\ state' = [m \in Message |-> IF state[m] = "arrived" /\ at[m] = d
                                   THEN "lost" ELSE state[m]]
    /\ UNCHANGED <<graphNow, fetching, at, peer, ttl, hops, changes, breaks>>

-----------------------------------------------------------------------------
\* What the domains do on their own.
Step ==
    \/ \E m \in Message : HandleInternalMessage(m)
    \/ \E e \in Domain : AddCallbacks(e)
    \/ \E d, e \in Domain :
          \/ Authenticated(d, e) \/ FetchComplete(d, e)
          \/ \E m \in Message : FetchMissing(d, e, m)

Next ==
    \/ Step
    \/ \E m \in Message : SendMessage(m) \/ IgnoreMessage(m)
    \/ \E d, e \in Domain : Break(d, e) \/ ConnectFails(d, e)
    \/ ChangeGraph
    \/ \E d \in Domain : Reload(d)

Spec == Init /\ [][Next]_vars

\* Event loops, setup and consumer threads run, and tunnels that are not
\* stranded reconnect.  It is enough that some of them goes on while there is
\* something to do.
FairSpec == Spec /\ WF_vars(Step)

-----------------------------------------------------------------------------
\* Every variable stays in its range; a message that is under way is with a
\* domain that got it from, or keeps it for, another one.
TypeOK ==
    /\ graphNow \in Graph /\ graph \in [Domain -> Graph]
    /\ next \in [Domain -> [Goal -> Domain \cup {NoDomain}]]
    /\ online \subseteq Domain \X Domain /\ fetching \subseteq Domain \X Domain
    /\ starting \subseteq Domain
    /\ deaf \subseteq online /\ stranded \subseteq (Domain \X Domain) \ online
    /\ state \in [Message -> State]
    /\ at \in [Message -> Domain]
    /\ peer \in [Message -> Domain \cup {NoDomain}]
    /\ \A m \in Message :
          state[m] \in {"arrived"} \cup Waiting => peer[m] \in Domain \ {at[m]}
    /\ ttl \in [Message -> 0..DefaultTtl] /\ hops \in [Message -> Nat]
    /\ changes \in Nat /\ reloads \in Nat /\ breaks \in Nat

\* Domains that choose among shortest paths for themselves, and anew when they
\* start again, still agree: while the graph does not change, each message is
\* on a shortest path from its source to its target, wherever it is, whatever
\* tunnels broke on its way.  It cannot circle.
ShortestRoutes ==
    changes = 0 =>
        \A m \in Message :
            hops[m] + Distance[graphNow][at[m]][Target[m]]
                = Distance[graphNow][Source[m]][Target[m]]

\* However the graphs differ, a group message goes through less than DefaultTtl
\* tunnels; while they agree it is only dropped on its way to a domain that far.
GroupsExpire ==
    \A m \in Group :
        /\ hops[m] < DefaultTtl
        /\ changes = 0 /\ state[m] = "expired" =>
               Distance[graphNow][Source[m]][Target[m]] >= DefaultTtl - 1

Underway == {m \in Message : state[m] \in {"arrived"} \cup Waiting}

\* A stored message waits for a tunnel that is not connected again, or that did
\* not fetch when it was; one that could not be delivered, also for one that has
\* not been cut off since, and does not fetch before it is.
HeldUp(m) ==
    LET tunnel == <<at[m], peer[m]>> IN
    \/ state[m] = "stored" /\ tunnel \in deaf \cup stranded
    \/ state[m] = "undelivered" /\ tunnel \in (online \ fetching) \cup stranded

=============================================================================
