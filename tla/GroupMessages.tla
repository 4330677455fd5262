---------------------------- MODULE GroupMessages ----------------------------
(***************************************************************************)
(* One RELIABLE group message in one domain.  A processor looks up where    *)
(* each member is connected, stores a copy for the members that are not,   *)
(* and sends each connector concerned one packet with its members' sockets; *)
(* the connector makes the copies for those sockets.  A copy whose socket  *)
(* is not there goes the way of any message that was not found.            *)
(*                                                                         *)
(* Sockets come and go, and other workers keep the user channels, at any   *)
(* time; Domain.tla says how.  (The parts of a group message for other     *)
(* domains are in DomainRouting.tla.)                                      *)
(***************************************************************************)
EXTENDS Batches

CONSTANTS
    Member,       \* the users the message is for
    NoUser,
    Master,       \* masterUserId of the client app, or NoUser
    Connector,
    Address,      \* the sockets that can be opened, each once
    ConnectorOf,  \* the connector of each
    NoAddress,    \* origin of a copy that a processor made
    Worker,       \* processor threads that handle the packets below
    MaxFaults     \* bound: crashes, failed sends, failures of Redis and Mongo, exceptions

ASSUME GroupAssumption ==
    /\ NoUser \notin Member /\ NoAddress \notin Address
    /\ ConnectorOf \in [Address -> Connector]

VARIABLES
    owner,        \* who opened each socket
    open,         \* the sockets that the connectors still have
    news,         \* USER_CONNECTED and USER_DISCONNECTED on their way
    userChannel,  \* Redis: the addresses of each member
    store         \* Mongo: (copy, state)

VARIABLES
    incoming, outgoing,  \* the processors' and the connectors' topics
    stage,        \* where each worker stands
    job,          \* the packet it handles, as a set of at most one
    handled,      \* what it handled of a batch that is not committed
    left,         \* members it has not looked up yet
    connectorGroupedUsers,  \* (member, address) pairs it found
    copy, seen,   \* the copy it delivers, and the addresses it read for it
    buffer,       \* (worker, packet): sends the producer has not finished
    task,         \* the packet each connector's consumer thread handles
    consumed,     \* what it handled of a batch that is not committed
    pairs,        \* what is left of it: (copy, address)
    writes        \* (copy, address): netty writes not yet executed

VARIABLES
    receipts,     \* history: copies written to each socket, at most 2 of them counted
    missed,       \* history: members one of whose addresses was not found
    repeated,     \* history: members of packets handed out again after a crash
    lost,         \* history: members whose copy was given up with something
    faults        \* budget spent

environment == <<owner, open, news>>
workers == <<stage, job, handled, left, connectorGroupedUsers, copy, seen>>
consumers == <<task, consumed, pairs>>
history == <<receipts, missed, repeated, lost>>
vars == <<environment, userChannel, store, incoming, outgoing, workers, buffer, consumers,
          writes, history, faults>>

\* A member's copy: made by a connector for one socket or by a processor for the
\* member, with content.confirmationEnabled.
Copy(m, origin, enabled) == [to |-> m, origin |-> origin, enabled |-> enabled]
Copies == [to : Member, origin : Address \cup {NoAddress}, enabled : BOOLEAN]

\* meta.confirmEnabled: only CustomMessageProcessor sets it.
IsConfirmEnabled(x) == x.origin = NoAddress /\ x.enabled

\* Packets: for the processors, and for the connectors.
Group == [type |-> "GROUP_MESSAGE"]
StateChanged(x, a, state) ==
    [type |-> "MESSAGE_STATE_CHANGED", msg |-> x, addr |-> a, state |-> state]
GroupConnector(c, P) == [type |-> "GROUP_CONNECTOR_MESSAGE", to |-> c, pairs |-> P]
Delivery(x, a) == [type |-> "DELIVER", to |-> ConnectorOf[a], msg |-> x, addr |-> a]

\* Whose copies a packet is or becomes.
Receivers(p) ==
    IF p.type = "GROUP_MESSAGE" THEN Member
    ELSE IF p.type = "GROUP_CONNECTOR_MESSAGE" THEN {e[1] : e \in p.pairs}
    ELSE {p.msg.to}

ReceiversOf(P) == UNION {Receivers(p) : p \in P}

Init ==
    /\ owner = [a \in Address |-> NoUser]
    /\ open = {} /\ news = {} /\ store = {}
    /\ userChannel = [m \in Member |-> {}]
    /\ incoming = {Group} /\ outgoing = {} /\ buffer = {}
    /\ stage = [w \in Worker |-> "idle"]
    /\ job = [w \in Worker |-> {}]
    /\ handled = [w \in Worker |-> {}]
    /\ left = [w \in Worker |-> {}]
    /\ connectorGroupedUsers = [w \in Worker |-> {}]
    /\ copy = [w \in Worker |-> {}]
    /\ seen = [w \in Worker |-> {}]
    /\ task = [c \in Connector |-> {}]
    /\ consumed = [c \in Connector |-> {}]
    /\ pairs = [c \in Connector |-> {}]
    /\ writes = {}
    /\ receipts = [a \in Address |-> 0]
    /\ missed = {} /\ repeated = {} /\ lost = {} /\ faults = 0

-----------------------------------------------------------------------------
\* The sockets, and the news of them in any order.
Connects(a, m) ==
    /\ owner[a] = NoUser
    /\ owner' = [owner EXCEPT ![a] = m]
    /\ open' = open \cup {a}
    /\ news' = news \cup {<<"USER_CONNECTED", m, a>>}
    /\ UNCHANGED <<userChannel, store, incoming, outgoing, workers, buffer, consumers,
                   writes, history, faults>>

Disconnects(a) ==
    /\ a \in open
    /\ open' = open \ {a}
    /\ news' = news \cup {<<"USER_DISCONNECTED", owner[a], a>>}
    /\ UNCHANGED <<owner, userChannel, store, incoming, outgoing, workers, buffer, consumers,
                   writes, history, faults>>

ProcessNews(n) ==
    /\ n \in news
    /\ news' = news \ {n}
    /\ userChannel' = [userChannel EXCEPT ![n[2]] =
                         IF n[1] = "USER_CONNECTED" THEN @ \cup {n[3]} ELSE @ \ {n[3]}]
    /\ UNCHANGED <<owner, open, store, incoming, outgoing, workers, buffer, consumers,
                   writes, history, faults>>

-----------------------------------------------------------------------------
\* getRouteTargetAddresses: all addresses, but any one of the master user.
RouteTargets(m) ==
    IF m = Master /\ userChannel[m] # {} THEN {{a} : a \in userChannel[m]}
    ELSE {userChannel[m]}

Goto(w, s) == stage' = [stage EXCEPT ![w] = s]

\* CustomGroupMessageProcessor.
TakeGroup(w) ==
    /\ stage[w] = "idle" /\ Group \in incoming
    /\ incoming' = incoming \ {Group}
    /\ job' = [job EXCEPT ![w] = {Group}]
    /\ left' = [left EXCEPT ![w] = Member]
    /\ Goto(w, "members")
    /\ UNCHANGED <<environment, userChannel, store, outgoing, handled,
                   connectorGroupedUsers, copy, seen, buffer, consumers, writes, history,
                   faults>>

\* Faulty: the copy asks for a confirmation, like any message.
ConfirmableCopy(m) == Copy(m, NoAddress, TRUE)

\* processUserAddressNotFound: a message like one to this user, without
\* confirmation.
NotFoundCopy(m) == Copy(m, NoAddress, FALSE)

\* Faulty: the addresses found so far are forgotten.
GroupedLast(w, m, A) == {m} \X A

\* The next member's addresses join those of the members before.
Grouped(w, m, A) == connectorGroupedUsers[w] \cup ({m} \X A)

\* processCurrentDomain, per member: read the addresses.
LookUp(w) ==
    /\ stage[w] = "members"
    /\ \E m \in left[w] : \E A \in RouteTargets(m) :
          /\ left' = [left EXCEPT ![w] = @ \ {m}]
          /\ IF A = {}
             THEN /\ copy' = [copy EXCEPT ![w] = {NotFoundCopy(m)}]
                  /\ Goto(w, "route")
                  /\ UNCHANGED connectorGroupedUsers
             ELSE /\ connectorGroupedUsers' =
                         [connectorGroupedUsers EXCEPT ![w] = Grouped(w, m, A)]
                  /\ UNCHANGED <<stage, copy>>
    /\ UNCHANGED <<environment, userChannel, store, incoming, outgoing, job, handled,
                   seen, buffer, consumers, writes, history, faults>>

\* deliverMessage of a copy: read the addresses (again), then persist the copy or
\* send it there.
Route(w) ==
    /\ stage[w] = "route"
    /\ \E x \in copy[w] : \E A \in RouteTargets(x.to) : seen' = [seen EXCEPT ![w] = A]
    /\ Goto(w, "send")
    /\ UNCHANGED <<environment, userChannel, store, incoming, outgoing, job, handled,
                   left, connectorGroupedUsers, copy, buffer, consumers, writes, history,
                   faults>>

Send(w) ==
    /\ stage[w] = "send"
    /\ \E x \in copy[w] :
          IF seen[w] = {}
          THEN store' = store \cup {<<x, "ADDRESS_NOT_FOUND">>} /\ UNCHANGED buffer
          ELSE /\ buffer' = buffer \cup {<<w, Delivery(x, a)>> : a \in seen[w]}
               /\ UNCHANGED store
    /\ copy' = [copy EXCEPT ![w] = {}]
    /\ seen' = [seen EXCEPT ![w] = {}]
    /\ Goto(w, "members")
    /\ UNCHANGED <<environment, userChannel, incoming, outgoing, job, handled, left,
                   connectorGroupedUsers, consumers, writes, history, faults>>

\* Every member is looked up: one packet for the next connector concerned.
SendToConnector(w) ==
    /\ stage[w] = "members" /\ left[w] = {}
    /\ \E c \in Connector :
          LET P == {e \in connectorGroupedUsers[w] : ConnectorOf[e[2]] = c} IN
          /\ P # {}
          /\ buffer' = buffer \cup {<<w, GroupConnector(c, P)>>}
          /\ connectorGroupedUsers' = [connectorGroupedUsers EXCEPT ![w] = @ \ P]
    /\ UNCHANGED <<environment, userChannel, store, incoming, outgoing, stage, job,
                   handled, left, copy, seen, consumers, writes, history, faults>>

\* The handler is done, and maybe the batch.
Commit(w) ==
    /\ stage[w] = "members" /\ left[w] = {} /\ connectorGroupedUsers[w] = {}
    /\ Goto(w, "idle")
    /\ \E D \in BatchAfter(handled[w], job[w]) : handled' = [handled EXCEPT ![w] = D]
    /\ job' = [job EXCEPT ![w] = {}]
    /\ UNCHANGED <<environment, userChannel, store, incoming, outgoing, left,
                   connectorGroupedUsers, copy, seen, buffer, consumers, writes, history,
                   faults>>

\* MessageStateChangedMessageProcessor: a copy whose address was not found is
\* delivered anew without it; one whose write failed is persisted.
TakeStateChanged(w) ==
    \E p \in incoming :
        /\ stage[w] = "idle" /\ p.type = "MESSAGE_STATE_CHANGED"
        /\ incoming' = incoming \ {p}
        /\ job' = [job EXCEPT ![w] = {p}]
        /\ IF p.state = "ADDRESS_NOT_FOUND"
           THEN /\ userChannel' = [userChannel EXCEPT ![p.msg.to] = @ \ {p.addr}]
                /\ copy' = [copy EXCEPT ![w] = {p.msg}]
                /\ Goto(w, "route")
                /\ UNCHANGED store
           ELSE /\ store' = IF p.state = "PROCESSED" THEN store
                            ELSE store \cup {<<p.msg, p.state>>}
                /\ Goto(w, "members")
                /\ UNCHANGED <<userChannel, copy>>
        /\ UNCHANGED <<environment, outgoing, handled, left, connectorGroupedUsers, seen,
                       buffer, consumers, writes, history, faults>>

-----------------------------------------------------------------------------
\* Faulty: each copy goes to all addresses that came with its member.
CopiesToAll(p) ==
    {<<Copy(e[1][1], e[1][2], TRUE), e[2][2]>> :
        e \in {f \in p.pairs \X p.pairs : f[1][1] = f[2][1]}}

\* The connector: GroupConnectorMessageProcessor makes a copy for each address.
CopiesOf(p) == {<<Copy(e[1], e[2], TRUE), e[2]>> : e \in p.pairs}

TakePacket(c) ==
    \E p \in outgoing :
        /\ task[c] = {} /\ p.to = c
        /\ outgoing' = outgoing \ {p}
        /\ task' = [task EXCEPT ![c] = {p}]
        /\ pairs' = [pairs EXCEPT ![c] =
              IF p.type = "DELIVER" THEN {<<p.msg, p.addr>>} ELSE CopiesOf(p)]
        /\ UNCHANGED <<environment, userChannel, store, incoming, workers, buffer,
                       consumed, writes, history, faults>>

\* NetworkUserService.getUser.
IsConnected(x, a) == a \in open /\ owner[a] = x.to

\* The connector's deliverMessage; onMessageDeliveryFailed is a TODO.
DeliverStateChanged(packets) ==
    \/ /\ incoming' = incoming \cup packets
       /\ UNCHANGED <<lost, faults>>
    \/ /\ packets # {} /\ faults < MaxFaults
       /\ faults' = faults + 1
       /\ lost' = lost \cup {p.msg.to : p \in packets}
       /\ UNCHANGED incoming

\* DefaultOutgoingMessageProcessor, for the next copy: write it to its socket,
\* or report that the socket is not there.
ProcessPair(c) ==
    \E e \in pairs[c] :
        /\ pairs' = [pairs EXCEPT ![c] = @ \ {e}]
        /\ IF IsConnected(e[1], e[2])
           THEN writes' = writes \cup {e} /\ UNCHANGED <<incoming, missed, lost, faults>>
           ELSE /\ DeliverStateChanged({StateChanged(e[1], e[2], "ADDRESS_NOT_FOUND")})
                /\ missed' = missed \cup {e[1].to}
                /\ UNCHANGED writes
        /\ UNCHANGED <<environment, userChannel, store, outgoing, workers, buffer, task,
                       consumed, receipts, repeated>>

\* An exception: the rest of the packet is not looked at, and the packet is
\* persisted as CONNECTOR_ERROR, in which nobody fetches it.
ProcessPairThrows(c) ==
    /\ pairs[c] # {} /\ faults < MaxFaults
    /\ faults' = faults + 1
    /\ lost' = lost \cup {e[1].to : e \in pairs[c]}
    /\ pairs' = [pairs EXCEPT ![c] = {}]
    /\ UNCHANGED <<environment, userChannel, store, incoming, outgoing, workers, buffer,
                   task, consumed, writes, receipts, missed, repeated>>

CommitPacket(c) ==
    /\ task[c] # {} /\ pairs[c] = {}
    /\ \E D \in BatchAfter(consumed[c], task[c]) : consumed' = [consumed EXCEPT ![c] = D]
    /\ task' = [task EXCEPT ![c] = {}]
    /\ UNCHANGED <<environment, userChannel, store, incoming, outgoing, workers, buffer,
                   pairs, writes, history, faults>>

\* What the listener of a write reports.
StateReport(x, a, success) ==
    IF success /\ ~IsConfirmEnabled(x) THEN {}
    ELSE {StateChanged(x, a, IF success THEN "PROCESSED" ELSE "NETWORK_ERROR")}

WriteEnds(x, a) ==
    LET success == a \in open IN
    /\ <<x, a>> \in writes
    /\ writes' = writes \ {<<x, a>>}
    /\ DeliverStateChanged(StateReport(x, a, success))
    /\ receipts' = IF success /\ receipts[a] < 2 THEN [receipts EXCEPT ![a] = @ + 1]
                   ELSE receipts
    /\ UNCHANGED <<environment, userChannel, store, outgoing, workers, buffer, consumers,
                   missed, repeated>>

-----------------------------------------------------------------------------
\* The producer's callback: the broker has the packet.
Delivered(e) ==
    /\ e \in buffer
    /\ buffer' = buffer \ {e}
    /\ outgoing' = outgoing \cup {e[2]}
    /\ UNCHANGED <<environment, userChannel, store, incoming, workers, consumers, writes,
                   history, faults>>

\* onMessageDeliveryFailed persists as NETWORK_ERROR: a copy under its member, a
\* packet for a connector under the connector's name, where nobody fetches it.
DeliveryFailed(e) ==
    /\ e \in buffer /\ faults < MaxFaults
    /\ faults' = faults + 1
    /\ buffer' = buffer \ {e}
    /\ IF e[2].type = "DELIVER"
       THEN store' = store \cup {<<e[2].msg, "NETWORK_ERROR">>} /\ UNCHANGED lost
       ELSE lost' = lost \cup Receivers(e[2]) /\ UNCHANGED store
    /\ UNCHANGED <<environment, userChannel, incoming, outgoing, workers, consumers, writes,
                   receipts, missed, repeated>>

\* The members whose part of its packet worker w still has in its hands.
Unfinished(w) ==
    left[w] \cup {e[1] : e \in connectorGroupedUsers[w]} \cup {x.to : x \in copy[w]}

\* Faulty: what was found before stays in the worker's hands.
EmptyButFound(w) ==
    /\ left' = [left EXCEPT ![w] = {}]
    /\ copy' = [copy EXCEPT ![w] = {}]
    /\ seen' = [seen EXCEPT ![w] = {}]
    /\ UNCHANGED connectorGroupedUsers

\* The worker has nothing any more.
Empty(w) ==
    /\ left' = [left EXCEPT ![w] = {}]
    /\ connectorGroupedUsers' = [connectorGroupedUsers EXCEPT ![w] = {}]
    /\ copy' = [copy EXCEPT ![w] = {}]
    /\ seen' = [seen EXCEPT ![w] = {}]

\* Redis fails under a read, or Mongo under the save of a copy: the packet that
\* arrived is persisted as PROCESSOR_ERROR, in which nobody fetches it, or not
\* even that.
HandlerThrows(w) ==
    /\ \/ stage[w] = "members" /\ left[w] # {}
       \/ stage[w] = "route"
       \/ stage[w] = "send" /\ seen[w] = {}
    /\ faults < MaxFaults
    /\ faults' = faults + 1
    /\ lost' = lost \cup Unfinished(w)
    /\ Empty(w)
    /\ Goto(w, "members")
    /\ UNCHANGED <<environment, userChannel, store, incoming, outgoing, job, handled,
                   buffer, consumers, writes, receipts, missed, repeated>>

\* The process dies: what its producer had not sent is gone, and all of the
\* batch it had not committed comes again, what it had handled included.
WorkerCrash(w) ==
    LET unsent == {e \in buffer : e[1] = w}
        batch == job[w] \cup handled[w]
        again == ReceiversOf(batch) IN
    /\ batch # {} \/ unsent # {}
    /\ faults < MaxFaults
    /\ faults' = faults + 1
    /\ incoming' = incoming \cup batch
    /\ buffer' = buffer \ unsent
    /\ lost' = lost \cup (ReceiversOf({e[2] : e \in unsent}) \ again)
    /\ repeated' = repeated \cup again
    /\ job' = [job EXCEPT ![w] = {}]
    /\ handled' = [handled EXCEPT ![w] = {}]
    /\ Empty(w) /\ Goto(w, "idle")
    /\ UNCHANGED <<environment, userChannel, store, outgoing, consumers, writes, receipts,
                   missed>>

\* A connector's process dies with its sockets and their writes.
ConnectorCrash(c) ==
    LET gone == {a \in Address : ConnectorOf[a] = c}
        cut == {e \in writes : e[2] \in gone}
        batch == task[c] \cup consumed[c]
        again == ReceiversOf(batch) IN
    /\ faults < MaxFaults
    /\ faults' = faults + 1
    /\ open' = open \ gone
    /\ writes' = writes \ cut
    /\ outgoing' = outgoing \cup batch
    /\ task' = [task EXCEPT ![c] = {}]
    /\ consumed' = [consumed EXCEPT ![c] = {}]
    /\ pairs' = [pairs EXCEPT ![c] = {}]
    /\ lost' = lost \cup ({e[1].to : e \in cut} \ again)
    /\ repeated' = repeated \cup again
    /\ UNCHANGED <<owner, news, userChannel, store, incoming, workers, buffer, receipts,
                   missed>>

-----------------------------------------------------------------------------
Handler(w) ==
    \/ TakeGroup(w) \/ LookUp(w) \/ Route(w) \/ Send(w) \/ SendToConnector(w) \/ Commit(w)
    \/ TakeStateChanged(w)

Consumer(c) == TakePacket(c) \/ ProcessPair(c) \/ CommitPacket(c)

Next ==
    \/ \E a \in Address : Disconnects(a) \/ \E m \in Member : Connects(a, m)
    \/ \E n \in news : ProcessNews(n)
    \/ \E w \in Worker : Handler(w) \/ HandlerThrows(w) \/ WorkerCrash(w)
    \/ \E e \in buffer : Delivered(e) \/ DeliveryFailed(e)
    \/ \E c \in Connector : Consumer(c) \/ ProcessPairThrows(c) \/ ConnectorCrash(c)
    \/ \E e \in writes : WriteEnds(e[1], e[2])

Spec == Init /\ [][Next]_vars

-----------------------------------------------------------------------------
\* Every variable stays in its range, and what a worker or a connector has in
\* its hands belongs to the packet it handles.
TypeOK ==
    /\ owner \in [Address -> Member \cup {NoUser}]
    /\ \A a \in open : owner[a] # NoUser
    /\ userChannel \in [Member -> SUBSET Address]
    /\ \A w \in Worker :
          /\ job[w] = {} <=> stage[w] = "idle"
          /\ left[w] # {} \/ connectorGroupedUsers[w] # {} => job[w] = {Group}
          /\ copy[w] # {} <=> stage[w] \in {"route", "send"}
          /\ copy[w] \subseteq Copies
          /\ \A e \in connectorGroupedUsers[w] : owner[e[2]] = e[1]
    /\ \A c \in Connector : \A e \in pairs[c] :
          /\ ConnectorOf[e[2]] = c
          /\ \E p \in task[c] : e[1].to \in Receivers(p)

\* The member's copy is written to one of its sockets, stored, or given up.
Received(m) == \E a \in Address : owner[a] = m /\ receipts[a] > 0
AtRest(m) == Received(m) \/ (\E e \in store : e[1].to = m) \/ m \in lost

\* No member is left out: until its copy is at rest, somebody has it in his
\* hands, however sockets come and go between the looking up, the sending and
\* the writing, and whoever of the others fails.
MemberAccounted ==
    \A m \in Member :
        \/ AtRest(m)
        \/ \E p \in incoming \cup outgoing \cup {e[2] : e \in buffer} : m \in Receivers(p)
        \/ \E w \in Worker : m \in Unfinished(w)
        \/ \E c \in Connector : \E e \in pairs[c] : e[1].to = m
        \/ \E e \in writes : e[1].to = m

\* A socket gets the message once, unless a crash made somebody handle a packet
\* of its user again, or another address of its user was not found.
OncePerSocket ==
    \A a \in Address : receipts[a] > 1 => owner[a] \in missed \cup repeated

\* "the message confirmation is not available for GROUP_MESSAGE" (README.MD:196):
\* nothing that becomes of a copy makes a connector report it as processed.
NeverConfirmed ==
    \A p \in incoming : p.type = "MESSAGE_STATE_CHANGED" => p.state # "PROCESSED"
=============================================================================
