------------------------ MODULE GroupMessages_proofs ------------------------
(***************************************************************************)
(* The theorems about a group message, for any number of members, sockets, *)
(* connectors, workers and faults.                                         *)
(***************************************************************************)
EXTENDS GroupMessages, TLAPS

\* Copies that ask for no confirmation.
Plain == {x \in Copies : ~IsConfirmEnabled(x)}

\* What is in the topics.
IncomingPacket ==
    {Group} \cup [type : {"MESSAGE_STATE_CHANGED"}, msg : Plain, addr : Address,
                  state : {"ADDRESS_NOT_FOUND", "NETWORK_ERROR"}]

OutgoingPacket ==
    {p \in [type : {"GROUP_CONNECTOR_MESSAGE"}, to : Connector,
            pairs : SUBSET (Member \X Address)] :
        \A e \in p.pairs : ConnectorOf[e[2]] = p.to}
    \cup
    {p \in [type : {"DELIVER"}, to : Connector, msg : Plain, addr : Address] :
        ConnectorOf[p.addr] = p.to}

SocketTypes ==
    /\ owner \in [Address -> Member \cup {NoUser}]
    /\ open \subseteq Address
    /\ news \subseteq {"USER_CONNECTED", "USER_DISCONNECTED"} \X Member \X Address
    /\ userChannel \in [Member -> SUBSET Address]
    /\ writes \subseteq Plain \X Address
    /\ receipts \in [Address -> 0..2]

TopicTypes ==
    /\ incoming \subseteq IncomingPacket
    /\ outgoing \subseteq OutgoingPacket
    /\ buffer \subseteq Worker \X OutgoingPacket

WorkerTypes ==
    /\ stage \in [Worker -> {"idle", "members", "route", "send"}]
    /\ job \in [Worker -> SUBSET IncomingPacket]
    /\ handled \in [Worker -> SUBSET IncomingPacket]
    /\ left \in [Worker -> SUBSET Member]
    /\ connectorGroupedUsers \in [Worker -> SUBSET (Member \X Address)]
    /\ copy \in [Worker -> SUBSET Plain]
    /\ seen \in [Worker -> SUBSET Address]

ConnectorTypes ==
    /\ task \in [Connector -> SUBSET OutgoingPacket]
    /\ consumed \in [Connector -> SUBSET OutgoingPacket]
    /\ pairs \in [Connector -> SUBSET (Plain \X Address)]

\* Everybody's idea of whose a socket is agrees with the owner's.
OwnerInv ==
    /\ \A a \in open : owner[a] # NoUser
    /\ \A n \in news : owner[n[3]] = n[2]
    /\ \A m \in Member : \A a \in userChannel[m] : owner[a] = m
    /\ \A e \in writes : owner[e[2]] = e[1].to

\* What a worker has in its hands is of its packet, and the copy it delivers is
\* the only one.
WorkerOK(w) ==
    /\ job[w] = {} <=> stage[w] = "idle"
    /\ left[w] # {} \/ connectorGroupedUsers[w] # {} => job[w] = {Group}
    /\ copy[w] # {} <=> stage[w] \in {"route", "send"}
    /\ \A x, y \in copy[w] : x = y
    /\ \A x \in copy[w] : \E p \in job[w] : x.to \in Receivers(p)
    /\ \A e \in connectorGroupedUsers[w] : owner[e[2]] = e[1]

ConnectorOK(c) ==
    \A e \in pairs[c] :
        /\ ConnectorOf[e[2]] = c
        /\ \E p \in task[c] : e[1].to \in Receivers(p)

WorkerInv == \A w \in Worker : WorkerOK(w)
ConnectorInv == \A c \in Connector : ConnectorOK(c)

Types == SocketTypes /\ TopicTypes /\ WorkerTypes /\ ConnectorTypes

\* What a step keeps by itself, and with it MemberAccounted.
Shape == Types /\ OwnerInv /\ WorkerInv /\ ConnectorInv

\* MemberAccounted, part by part.
InTopics(m) == \E p \in incoming \cup outgoing : m \in Receivers(p)
InBuffer(m) == \E e \in buffer : m \in Receivers(e[2])
AtWorker(m) == \E w \in Worker : m \in Unfinished(w)
AtConnector(m) == \E c \in Connector : \E e \in pairs[c] : e[1].to = m
InWrites(m) == \E e \in writes : e[1].to = m

Accounted(m) ==
    AtRest(m) \/ InTopics(m) \/ InBuffer(m) \/ AtWorker(m) \/ AtConnector(m) \/ InWrites(m)

USE GroupAssumption

\* What is handled and not committed was handled before, or just now.
LEMMA BatchGrows ==
    ASSUME NEW done, NEW P, NEW D \in BatchAfter(done, P)
    PROVE  D \subseteq done \cup P
BY DEF BatchAfter

-----------------------------------------------------------------------------
LEMMA AccountedMeans == MemberAccounted <=> \A m \in Member : Accounted(m)
BY DEF MemberAccounted, Accounted, InTopics, InBuffer, AtWorker, AtConnector, InWrites

LEMMA UnfinishedMeans ==
    ASSUME NEW w, NEW m
    PROVE  m \in Unfinished(w) <=>
              \/ m \in left[w]
              \/ \E e \in connectorGroupedUsers[w] : e[1] = m
              \/ \E x \in copy[w] : x.to = m
BY DEF Unfinished

\* Copies that processors and connectors make are of their member and plain.
LEMMA PlainCopies ==
    ASSUME NEW m \in Member
    PROVE  /\ NotFoundCopy(m) \in Plain /\ NotFoundCopy(m).to = m
           /\ \A a \in Address : Copy(m, a, TRUE) \in Plain /\ Copy(m, a, TRUE).to = m
BY DEF Plain, Copies, Copy, NotFoundCopy, IsConfirmEnabled

LEMMA PlainTo == ASSUME NEW x \in Plain PROVE x.to \in Member /\ ~IsConfirmEnabled(x)
BY DEF Plain, Copies

\* Whose copies the packets are.
LEMMA Groups == Group \in IncomingPacket /\ Receivers(Group) = Member
BY DEF Group, IncomingPacket, Receivers

LEMMA ReceiversOfGroup == ReceiversOf({Group}) = Member
BY Groups DEF ReceiversOf

LEMMA Reports ==
    ASSUME NEW x \in Plain, NEW a \in Address,
           NEW s \in {"ADDRESS_NOT_FOUND", "NETWORK_ERROR"}
    PROVE  /\ StateChanged(x, a, s) \in IncomingPacket
           /\ Receivers(StateChanged(x, a, s)) = {x.to}
           /\ StateChanged(x, a, s).msg = x
BY DEF StateChanged, IncomingPacket, Receivers

LEMMA ReportFields ==
    ASSUME NEW p \in IncomingPacket, p.type = "MESSAGE_STATE_CHANGED"
    PROVE  /\ p.msg \in Plain /\ p.addr \in Address
           /\ p.state \in {"ADDRESS_NOT_FOUND", "NETWORK_ERROR"}
           /\ Receivers(p) = {p.msg.to}
BY DEF IncomingPacket, Receivers, Group

LEMMA Deliveries ==
    ASSUME NEW x \in Plain, NEW a \in Address
    PROVE  Delivery(x, a) \in OutgoingPacket /\ Receivers(Delivery(x, a)) = {x.to}
BY DEF Delivery, OutgoingPacket, Receivers

LEMMA GroupConnectors ==
    ASSUME NEW c \in Connector, NEW P \in SUBSET (Member \X Address),
           \A e \in P : ConnectorOf[e[2]] = c
    PROVE  /\ GroupConnector(c, P) \in OutgoingPacket
           /\ Receivers(GroupConnector(c, P)) = {e[1] : e \in P}
BY DEF GroupConnector, OutgoingPacket, Receivers

LEMMA OutgoingFields ==
    ASSUME NEW p \in OutgoingPacket
    PROVE  \/ /\ p.type = "GROUP_CONNECTOR_MESSAGE" /\ p.pairs \subseteq Member \X Address
              /\ \A e \in p.pairs : ConnectorOf[e[2]] = p.to
              /\ Receivers(p) = {e[1] : e \in p.pairs}
           \/ /\ p.type = "DELIVER" /\ p.msg \in Plain /\ p.addr \in Address
              /\ ConnectorOf[p.addr] = p.to
              /\ Receivers(p) = {p.msg.to}
BY DEF OutgoingPacket, Receivers

LEMMA ReceiversAreMembers ==
    ASSUME NEW p \in IncomingPacket \cup OutgoingPacket
    PROVE  Receivers(p) \subseteq Member
<1>1. CASE p = Group
    BY <1>1, Groups
<1>2. CASE p \in IncomingPacket \ {Group}
    BY <1>2, ReportFields, PlainTo DEF IncomingPacket
<1>3. CASE p \in OutgoingPacket
    BY <1>3, OutgoingFields, PlainTo
<1> QED
    BY <1>1, <1>2, <1>3

\* What leaves a part of the invariant alone.
LEMMA OwnerFrame ==
    ASSUME OwnerInv, UNCHANGED <<environment, userChannel, writes>>
    PROVE  OwnerInv'
BY DEF OwnerInv, environment

LEMMA WorkerFrame ==
    ASSUME WorkerInv, UNCHANGED <<owner, workers>>
    PROVE  WorkerInv'
BY DEF WorkerInv, WorkerOK, workers

LEMMA ConnectorFrame ==
    ASSUME ConnectorInv, UNCHANGED consumers
    PROVE  ConnectorInv'
BY DEF ConnectorInv, ConnectorOK, consumers

\* What is at rest stays there.
LEMMA RestStays ==
    ASSUME SocketTypes, NEW m \in Member, AtRest(m),
           store \subseteq store', lost \subseteq lost',
           \A a \in Address : owner[a] # NoUser => owner'[a] = owner[a],
           \A a \in Address : receipts[a] > 0 => receipts'[a] > 0
    PROVE  AtRest(m)'
BY DEF AtRest, Received, SocketTypes

-----------------------------------------------------------------------------
LEMMA InitShape == Init => Shape /\ MemberAccounted
<1> SUFFICES ASSUME Init PROVE Shape /\ MemberAccounted
    OBVIOUS
<1>1. Types
    BY Groups DEF Init, Types, SocketTypes, TopicTypes, WorkerTypes, ConnectorTypes
<1>2. OwnerInv /\ WorkerInv /\ ConnectorInv
    BY DEF Init, OwnerInv, WorkerInv, WorkerOK, ConnectorInv, ConnectorOK
<1>3. MemberAccounted
    BY Groups DEF Init, MemberAccounted
<1> QED
    BY <1>1, <1>2, <1>3 DEF Shape

-----------------------------------------------------------------------------
\* The sockets.  A socket that is opened has had no owner, so that nobody knew
\* of it.
LEMMA ConnectsShape ==
    ASSUME Shape, NEW a \in Address, NEW m \in Member, Connects(a, m)
    PROVE  Shape'
<1> USE DEF Connects
<1>1. owner'[a] = m /\ \A b \in Address : owner[b] # NoUser => owner'[b] = owner[b]
    BY DEF Shape, Types, SocketTypes
<1>2. Types'
    BY DEF Shape, Types, SocketTypes, TopicTypes, WorkerTypes, ConnectorTypes, workers, consumers,
           history
<1>3. OwnerInv'
  <2>1. \A b \in open' : owner'[b] # NoUser
    BY <1>1 DEF Shape, OwnerInv, Types, SocketTypes
  <2>2. \A n \in news' : owner'[n[3]] = n[2]
    BY <1>1 DEF Shape, OwnerInv, Types, SocketTypes
  <2>3. \A k \in Member : \A b \in userChannel'[k] : owner'[b] = k
    BY <1>1 DEF Shape, OwnerInv, Types, SocketTypes
  <2>4. \A e \in writes' : owner'[e[2]] = e[1].to
    BY <1>1, PlainTo DEF Shape, OwnerInv, Types, SocketTypes
  <2> QED
    BY <2>1, <2>2, <2>3, <2>4 DEF OwnerInv
<1>4. WorkerInv'
    BY <1>1 DEF Shape, WorkerInv, WorkerOK, workers, Types, WorkerTypes
<1>5. ConnectorInv'
    BY ConnectorFrame DEF Shape
<1> QED
    BY <1>2, <1>3, <1>4, <1>5 DEF Shape

LEMMA NewsShape ==
    ASSUME Shape,
           \/ \E a \in Address : Disconnects(a)
           \/ \E n \in news : ProcessNews(n)
    PROVE  Shape'
<1>1. CASE \E a \in Address : Disconnects(a)
  <2> PICK a \in Address : Disconnects(a)
    BY <1>1
  <2> USE DEF Disconnects
  <2>1. Types'
    BY DEF Shape, Types, SocketTypes, TopicTypes, WorkerTypes, ConnectorTypes, workers,
           consumers, history, OwnerInv
  <2>2. OwnerInv'
    BY DEF Shape, OwnerInv
  <2>3. WorkerInv' /\ ConnectorInv'
    BY WorkerFrame, ConnectorFrame DEF Shape
  <2> QED
    BY <2>1, <2>2, <2>3 DEF Shape
<1>2. CASE \E n \in news : ProcessNews(n)
  <2> PICK n \in news : ProcessNews(n)
    BY <1>2
  <2> USE DEF ProcessNews
  <2>1. Types'
    BY DEF Shape, Types, SocketTypes, TopicTypes, WorkerTypes, ConnectorTypes, workers,
           consumers, history
  <2>2. \A m \in Member : userChannel'[m] \subseteq
            userChannel[m] \cup (IF m = n[2] THEN {n[3]} ELSE {})
    BY DEF Shape, Types, SocketTypes
  <2>3. OwnerInv'
    BY <2>2 DEF Shape, OwnerInv, Types, SocketTypes
  <2>4. WorkerInv' /\ ConnectorInv'
    BY WorkerFrame, ConnectorFrame DEF Shape
  <2> QED
    BY <2>1, <2>3, <2>4 DEF Shape
<1> QED
    BY <1>1, <1>2

\* Nobody's copy is where the sockets are.
LEMMA SocketsAccount ==
    ASSUME Shape, NEW k \in Member, Accounted(k),
           \/ \E a \in Address : Disconnects(a) \/ \E m \in Member : Connects(a, m)
           \/ \E n \in news : ProcessNews(n)
    PROVE  Accounted(k)'
<1>1. /\ UNCHANGED <<store, incoming, outgoing, workers, buffer, consumers, writes, history>>
      /\ \A a \in Address : owner[a] # NoUser => owner'[a] = owner[a]
    BY DEF Disconnects, Connects, ProcessNews, Shape, Types, SocketTypes
<1>2. AtRest(k) => AtRest(k)'
    BY <1>1, RestStays DEF history, Shape, Types
<1>3. /\ InTopics(k)' <=> InTopics(k)
      /\ InBuffer(k)' <=> InBuffer(k)
      /\ InWrites(k)' <=> InWrites(k)
    BY <1>1 DEF InTopics, InBuffer, InWrites
<1>4. /\ AtWorker(k)' <=> AtWorker(k)
      /\ AtConnector(k)' <=> AtConnector(k)
    BY <1>1 DEF AtWorker, AtConnector, Unfinished, workers, consumers
<1> QED
    BY <1>2, <1>3, <1>4 DEF Accounted

-----------------------------------------------------------------------------
\* The workers.
LEMMA TakeGroupShape ==
    ASSUME Shape, NEW w \in Worker, TakeGroup(w)
    PROVE  Shape'
<1> USE DEF TakeGroup, Goto
<1>1. Types'
    BY Groups DEF Shape, Types, SocketTypes, TopicTypes, WorkerTypes, ConnectorTypes,
           environment, consumers, history
<1>2. OwnerInv' /\ ConnectorInv'
    BY OwnerFrame, ConnectorFrame DEF Shape
<1>3. WorkerInv'
    BY DEF Shape, Types, WorkerTypes, WorkerInv, WorkerOK, environment
<1> QED
    BY <1>1, <1>2, <1>3 DEF Shape

LEMMA LookUpShape ==
    ASSUME Shape, NEW w \in Worker, LookUp(w)
    PROVE  Shape'
<1> DEFINE Found(m, A) ==
          IF A = {}
          THEN /\ copy' = [copy EXCEPT ![w] = {NotFoundCopy(m)}]
               /\ stage' = [stage EXCEPT ![w] = "route"]
               /\ UNCHANGED connectorGroupedUsers
          ELSE /\ connectorGroupedUsers' =
                      [connectorGroupedUsers EXCEPT ![w] = Grouped(w, m, A)]
               /\ UNCHANGED <<stage, copy>>
<1>0. PICK m \in left[w] :
          /\ left' = [left EXCEPT ![w] = @ \ {m}]
          /\ \E A \in RouteTargets(m) : Found(m, A)
    BY DEF LookUp, Goto
<1>7. /\ stage[w] = "members"
      /\ UNCHANGED <<environment, userChannel, store, incoming, outgoing, job, handled,
                     seen, buffer, consumers, writes, history, faults>>
    BY DEF LookUp
<1>1. PICK A \in RouteTargets(m) : Found(m, A)
    BY <1>0
<1>2. m \in Member /\ A \subseteq userChannel[m] /\ A \subseteq Address
    BY DEF RouteTargets, Shape, Types, WorkerTypes, SocketTypes
<1>3. /\ Grouped(w, m, A) \subseteq Member \X Address
      /\ \A e \in Grouped(w, m, A) : owner[e[2]] = e[1]
  <2>1. connectorGroupedUsers[w] \subseteq Member \X Address
      BY DEF Shape, Types, WorkerTypes
  <2>2. \A e \in {m} \X A : e[1] = m /\ e[2] \in A
      OBVIOUS
  <2>3. \A e \in connectorGroupedUsers[w] : owner[e[2]] = e[1]
      BY DEF Shape, WorkerInv, WorkerOK
  <2>4. \A a \in A : owner[a] = m
      BY <1>2 DEF Shape, OwnerInv
  <2> QED
      BY <1>2, <2>1, <2>2, <2>3, <2>4 DEF Grouped
<1>4. Types'
  <2>1. connectorGroupedUsers' \in [Worker -> SUBSET (Member \X Address)]
    <3>1. connectorGroupedUsers \in [Worker -> SUBSET (Member \X Address)]
      BY DEF Shape, Types, WorkerTypes
    <3> QED
      BY <1>1, <1>3, <3>1
  <2>2. copy' \in [Worker -> SUBSET Plain]
    <3>1. copy \in [Worker -> SUBSET Plain] /\ NotFoundCopy(m) \in Plain
      BY <1>2, PlainCopies DEF Shape, Types, WorkerTypes
    <3> QED
      BY <1>1, <3>1
  <2>3. stage' \in [Worker -> {"idle", "members", "route", "send"}]
    BY <1>1 DEF Shape, Types, WorkerTypes
  <2> QED
    BY <1>0, <1>7, <2>1, <2>2, <2>3 DEF Shape, Types, SocketTypes, TopicTypes, WorkerTypes,
       ConnectorTypes, environment, consumers, history
<1>5. OwnerInv' /\ ConnectorInv'
    BY <1>7, OwnerFrame, ConnectorFrame DEF Shape
<1>6. WorkerInv'
  <2> SUFFICES ASSUME NEW v \in Worker PROVE WorkerOK(v)'
    BY DEF WorkerInv
  <2>1. WorkerOK(v) /\ WorkerOK(w)
    BY DEF Shape, WorkerInv
  <2>2. CASE v # w
    BY <1>0, <1>1, <1>7, <2>1, <2>2 DEF WorkerOK, Shape, Types, WorkerTypes, environment
  <2>3. job[w] = {Group} /\ copy[w] = {} /\ job' = job /\ owner' = owner
    BY <1>0, <1>7, <2>1 DEF WorkerOK, environment
  <2>4. CASE v = w /\ A = {}
    <3>1. /\ stage'[w] = "route" /\ copy'[w] = {NotFoundCopy(m)}
          /\ connectorGroupedUsers' = connectorGroupedUsers
      BY <1>1, <2>4 DEF Shape, Types, WorkerTypes
    <3>2. NotFoundCopy(m).to \in Receivers(Group)
      BY <1>2, PlainCopies, Groups
    <3> QED
      BY <2>1, <2>3, <2>4, <3>1, <3>2 DEF WorkerOK
  <2>5. CASE v = w /\ A # {}
    <3>1. /\ stage'[w] = "members" /\ copy'[w] = {}
          /\ connectorGroupedUsers'[w] = Grouped(w, m, A)
      BY <1>7, <1>1, <2>3, <2>5 DEF Shape, Types, WorkerTypes
    <3> QED
      BY <1>3, <2>3, <2>5, <3>1 DEF WorkerOK
  <2> QED
    BY <2>2, <2>4, <2>5
<1> QED
    BY <1>4, <1>5, <1>6 DEF Shape

LEMMA RouteShape ==
    ASSUME Shape, NEW w \in Worker, Route(w)
    PROVE  Shape'
<1> USE DEF Route, Goto
<1>1. \A m \in Member : \A A \in RouteTargets(m) : A \subseteq Address
    BY DEF RouteTargets, Shape, Types, SocketTypes
<1>2. Types'
    BY <1>1, PlainTo DEF Shape, Types, SocketTypes, TopicTypes, WorkerTypes,
           ConnectorTypes, environment, consumers, history
<1>3. OwnerInv' /\ ConnectorInv'
    BY OwnerFrame, ConnectorFrame DEF Shape
<1>4. WorkerInv'
    BY DEF Shape, Types, WorkerTypes, WorkerInv, WorkerOK, environment
<1> QED
    BY <1>2, <1>3, <1>4 DEF Shape

LEMMA SendShape ==
    ASSUME Shape, NEW w \in Worker, Send(w)
    PROVE  Shape'
<1> USE DEF Send, Goto
<1>1. \A x \in copy[w] : \A a \in seen[w] : Delivery(x, a) \in OutgoingPacket
    BY Deliveries DEF Shape, Types, WorkerTypes
<1>2. Types'
    BY <1>1 DEF Shape, Types, SocketTypes, TopicTypes, WorkerTypes, ConnectorTypes,
           environment, consumers, history
<1>3. OwnerInv' /\ ConnectorInv'
    BY OwnerFrame, ConnectorFrame DEF Shape
<1>4. WorkerInv'
    BY DEF Shape, Types, WorkerTypes, WorkerInv, WorkerOK, environment
<1> QED
    BY <1>2, <1>3, <1>4 DEF Shape

LEMMA SendToConnectorShape ==
    ASSUME Shape, NEW w \in Worker, SendToConnector(w)
    PROVE  Shape'
<1> USE DEF SendToConnector
<1>1. \A c \in Connector :
          GroupConnector(c, {e \in connectorGroupedUsers[w] : ConnectorOf[e[2]] = c})
              \in OutgoingPacket
    BY GroupConnectors DEF Shape, Types, WorkerTypes
<1>2. Types'
    BY <1>1 DEF Shape, Types, SocketTypes, TopicTypes, WorkerTypes, ConnectorTypes,
           environment, consumers, history
<1>3. OwnerInv' /\ ConnectorInv'
    BY OwnerFrame, ConnectorFrame DEF Shape
<1>4. WorkerInv'
    BY DEF Shape, Types, WorkerTypes, WorkerInv, WorkerOK, environment
<1> QED
    BY <1>2, <1>3, <1>4 DEF Shape

LEMMA CommitShape ==
    ASSUME Shape, NEW w \in Worker, Commit(w)
    PROVE  Shape'
<1> USE DEF Commit, Goto
<1>1. Types'
  <2>1. handled' \in [Worker -> SUBSET IncomingPacket]
    BY BatchGrows DEF Shape, Types, WorkerTypes
  <2>2. job' \in [Worker -> SUBSET IncomingPacket]
        /\ stage' \in [Worker -> {"idle", "members", "route", "send"}]
    BY DEF Shape, Types, WorkerTypes
  <2> QED
    BY <2>1, <2>2 DEF Shape, Types, SocketTypes, TopicTypes, WorkerTypes, ConnectorTypes,
           environment, consumers, history
<1>2. OwnerInv' /\ ConnectorInv'
    BY OwnerFrame, ConnectorFrame DEF Shape
<1>3. WorkerInv'
    BY DEF Shape, Types, WorkerTypes, WorkerInv, WorkerOK, environment
<1> QED
    BY <1>1, <1>2, <1>3 DEF Shape

LEMMA TakeStateChangedShape ==
    ASSUME Shape, NEW w \in Worker, TakeStateChanged(w)
    PROVE  Shape'
<1> USE DEF TakeStateChanged, Goto
<1>1. PICK p \in incoming :
        /\ stage[w] = "idle" /\ p.type = "MESSAGE_STATE_CHANGED"
        /\ incoming' = incoming \ {p}
        /\ job' = [job EXCEPT ![w] = {p}]
        /\ IF p.state = "ADDRESS_NOT_FOUND"
           THEN /\ userChannel' = [userChannel EXCEPT ![p.msg.to] = @ \ {p.addr}]
                /\ copy' = [copy EXCEPT ![w] = {p.msg}]
                /\ stage' = [stage EXCEPT ![w] = "route"]
           ELSE /\ stage' = [stage EXCEPT ![w] = "members"]
                /\ UNCHANGED <<userChannel, copy>>
        /\ UNCHANGED <<environment, outgoing, handled, left, connectorGroupedUsers, seen,
                       buffer, consumers, writes, history, faults>>
    OBVIOUS
<1>2. /\ p \in IncomingPacket /\ p.msg \in Plain /\ p.addr \in Address
      /\ p.msg.to \in Member /\ Receivers(p) = {p.msg.to}
    BY <1>1, ReportFields, PlainTo DEF Shape, Types, TopicTypes
<1>3. \A m \in Member : userChannel'[m] \subseteq userChannel[m]
    BY <1>1, <1>2 DEF Shape, Types, SocketTypes
<1>4. Types'
  <2>1. userChannel' \in [Member -> SUBSET Address] /\ incoming' \subseteq IncomingPacket
    BY <1>1, <1>2 DEF Shape, Types, SocketTypes, TopicTypes
  <2>2. /\ stage' \in [Worker -> {"idle", "members", "route", "send"}]
        /\ job' \in [Worker -> SUBSET IncomingPacket]
        /\ copy' \in [Worker -> SUBSET Plain]
    BY <1>1, <1>2 DEF Shape, Types, WorkerTypes
  <2> QED
    BY <1>1, <2>1, <2>2 DEF Shape, Types, SocketTypes, TopicTypes, WorkerTypes,
           ConnectorTypes, environment, consumers, history
<1>5. OwnerInv'
    BY <1>1, <1>3 DEF Shape, OwnerInv, environment
<1>6. ConnectorInv'
    BY <1>1, ConnectorFrame DEF Shape
<1>7. WorkerInv'
  <2> SUFFICES ASSUME NEW v \in Worker PROVE WorkerOK(v)'
    BY DEF WorkerInv
  <2>1. WorkerOK(v) /\ WorkerOK(w)
    BY DEF Shape, WorkerInv
  <2>2. CASE v # w
    <3>1. UNCHANGED <<stage[v], job[v], left[v], connectorGroupedUsers[v], copy[v], owner>>
      BY <1>1, <2>2 DEF Shape, Types, WorkerTypes, environment
    <3> QED
      BY <2>1, <3>1 DEF WorkerOK
  <2>3. CASE v = w
    <3>1. /\ job'[w] = {p} /\ left[w] = {} /\ connectorGroupedUsers[w] = {} /\ copy[w] = {}
          /\ UNCHANGED <<left, connectorGroupedUsers>>
      BY <1>1, <2>1 DEF WorkerOK, Shape, Types, WorkerTypes
    <3>2. CASE p.state = "ADDRESS_NOT_FOUND"
      <4>1. stage'[w] = "route" /\ copy'[w] = {p.msg}
        BY <1>1, <3>2 DEF Shape, Types, WorkerTypes
      <4> QED
        BY <1>2, <2>3, <3>1, <4>1 DEF WorkerOK
    <3>3. CASE p.state # "ADDRESS_NOT_FOUND"
      <4>1. stage'[w] = "members" /\ copy'[w] = {}
        BY <1>1, <3>1, <3>3 DEF Shape, Types, WorkerTypes
      <4> QED
        BY <2>3, <3>1, <4>1 DEF WorkerOK
    <3> QED
      BY <3>2, <3>3
  <2> QED
    BY <2>2, <2>3
<1> QED
    BY <1>4, <1>5, <1>6, <1>7 DEF Shape

\* What the parts of MemberAccounted that a worker's step has no hand in depend
\* on.
LEMMA WorkerLeaves ==
    ASSUME Shape, NEW k \in Member,
           UNCHANGED <<environment, consumers, writes, receipts>>
    PROVE  /\ store \subseteq store' /\ lost \subseteq lost' => (AtRest(k) => AtRest(k)')
           /\ AtConnector(k) => AtConnector(k)'
           /\ InWrites(k) => InWrites(k)'
<1>1. store \subseteq store' /\ lost \subseteq lost' => (AtRest(k) => AtRest(k)')
    BY RestStays DEF Shape, Types, environment
<1> QED
    BY <1>1 DEF AtConnector, InWrites, consumers

LEMMA TakeGroupAccounts ==
    ASSUME Shape, NEW k \in Member, Accounted(k), NEW w \in Worker, TakeGroup(w)
    PROVE  Accounted(k)'
<1> USE DEF TakeGroup
<1>1. k \in Unfinished(w)'
    BY DEF Unfinished, Shape, Types, WorkerTypes
<1> QED
    BY <1>1 DEF Accounted, AtWorker

LEMMA LookUpAccounts ==
    ASSUME Shape, NEW k \in Member, Accounted(k), NEW w \in Worker, LookUp(w)
    PROVE  Accounted(k)'
<1>1. UNCHANGED <<environment, store, incoming, outgoing, buffer, consumers, writes, receipts,
                  lost>>
    BY DEF LookUp, history
<1>2. PICK m \in left[w] :
          /\ left' = [left EXCEPT ![w] = @ \ {m}]
          /\ \E A \in RouteTargets(m) :
                IF A = {}
                THEN /\ copy' = [copy EXCEPT ![w] = {NotFoundCopy(m)}]
                     /\ UNCHANGED connectorGroupedUsers
                ELSE /\ connectorGroupedUsers' =
                            [connectorGroupedUsers EXCEPT ![w] = Grouped(w, m, A)]
                     /\ UNCHANGED copy
    BY DEF LookUp
<1>3. PICK A \in RouteTargets(m) :
          IF A = {}
          THEN /\ copy' = [copy EXCEPT ![w] = {NotFoundCopy(m)}]
               /\ UNCHANGED connectorGroupedUsers
          ELSE /\ connectorGroupedUsers' =
                      [connectorGroupedUsers EXCEPT ![w] = Grouped(w, m, A)]
               /\ UNCHANGED copy
    BY <1>2
<1>4. m \in Member /\ copy[w] = {}
    BY DEF LookUp, Shape, Types, WorkerTypes, WorkerInv, WorkerOK
<1>5. Unfinished(w) \subseteq Unfinished(w)'
  <2> SUFFICES ASSUME NEW u, u \in Unfinished(w) PROVE u \in Unfinished(w)'
    OBVIOUS
  <2>1. \/ u \in left[w] \/ \E e \in connectorGroupedUsers[w] : e[1] = u
    BY <1>4 DEF Unfinished
  <2>2. CASE u \in left[w] /\ u # m
    BY <1>2, <2>2 DEF Unfinished, Shape, Types, WorkerTypes
  <2>3. CASE u = m /\ A = {}
    <3>1. copy'[w] = {NotFoundCopy(m)} /\ NotFoundCopy(m).to = m
      BY <1>3, <1>4, <2>3, PlainCopies DEF Shape, Types, WorkerTypes
    <3> QED
      BY <2>3, <3>1 DEF Unfinished
  <2>4. CASE u = m /\ A # {}
    <3>1. PICK a \in A : TRUE
      BY <2>4
    <3>2. <<m, a>> \in connectorGroupedUsers'[w]
      BY <1>3, <2>4, <3>1 DEF Grouped, Shape, Types, WorkerTypes
    <3> QED
      BY <2>4, <3>2 DEF Unfinished
  <2>5. CASE \E e \in connectorGroupedUsers[w] : e[1] = u
    <3>1. connectorGroupedUsers[w] \subseteq connectorGroupedUsers'[w]
      BY <1>3 DEF Grouped, Shape, Types, WorkerTypes
    <3> QED
      BY <2>5, <3>1 DEF Unfinished
  <2> QED
    BY <2>1, <2>2, <2>3, <2>4, <2>5
<1>6. \A v \in Worker : v # w => Unfinished(v)' = Unfinished(v)
    BY <1>2, <1>3 DEF Unfinished, Shape, Types, WorkerTypes
<1>7. AtWorker(k) => AtWorker(k)'
    BY <1>5, <1>6 DEF AtWorker
<1>8. /\ InTopics(k) => InTopics(k)'
      /\ InBuffer(k) => InBuffer(k)'
    BY <1>1 DEF InTopics, InBuffer
<1> QED
    BY <1>1, <1>7, <1>8, WorkerLeaves DEF Accounted

LEMMA RouteAccounts ==
    ASSUME Shape, NEW k \in Member, Accounted(k), NEW w \in Worker, Route(w)
    PROVE  Accounted(k)'
<1> USE DEF Route
<1>1. /\ AtWorker(k) => AtWorker(k)'
      /\ InTopics(k) => InTopics(k)'
      /\ InBuffer(k) => InBuffer(k)'
    BY DEF AtWorker, Unfinished, InTopics, InBuffer
<1> QED
    BY <1>1, WorkerLeaves DEF Accounted, history

LEMMA SendAccounts ==
    ASSUME Shape, NEW k \in Member, Accounted(k), NEW w \in Worker, Send(w)
    PROVE  Accounted(k)'
<1>1. /\ UNCHANGED <<environment, incoming, outgoing, left, connectorGroupedUsers, consumers,
                     writes, receipts, lost>>
      /\ copy' = [copy EXCEPT ![w] = {}]
      /\ buffer \subseteq buffer' /\ store \subseteq store'
    BY DEF Send, history
<1>2. PICK x \in copy[w] :
          IF seen[w] = {} THEN store' = store \cup {<<x, "ADDRESS_NOT_FOUND">>}
          ELSE buffer' = buffer \cup {<<w, Delivery(x, a)>> : a \in seen[w]}
    BY DEF Send
<1>3. x \in Plain /\ \A y \in copy[w] : y = x
    BY DEF Shape, Types, WorkerTypes, WorkerInv, WorkerOK
<1>4. AtRest(x.to)' \/ InBuffer(x.to)'
  <2>1. CASE seen[w] = {}
    <3>1. <<x, "ADDRESS_NOT_FOUND">> \in store'
      BY <1>2, <2>1
    <3> QED
      BY <3>1 DEF AtRest
  <2>2. CASE seen[w] # {}
    <3>1. PICK a \in seen[w] : TRUE
      BY <2>2
    <3>2. <<w, Delivery(x, a)>> \in buffer' /\ a \in Address
      BY <1>2, <2>2 DEF Shape, Types, WorkerTypes
    <3>3. x.to \in Receivers(Delivery(x, a))
      BY <1>3, <3>2, Deliveries
    <3> QED
      BY <3>2, <3>3 DEF InBuffer
  <2> QED
    BY <2>1, <2>2
<1>5. ASSUME AtWorker(k) PROVE AtWorker(k)' \/ k = x.to
  <2>1. PICK v \in Worker : k \in Unfinished(v)
    BY <1>5 DEF AtWorker
  <2>2. \A y \in copy[v] : y.to # x.to => y \in copy'[v]
    BY <1>1, <1>3 DEF Shape, Types, WorkerTypes
  <2>3. k # x.to => k \in Unfinished(v)'
    BY <1>1, <2>1, <2>2 DEF Unfinished
  <2> QED
    BY <2>3 DEF AtWorker
<1>6. /\ InTopics(k) => InTopics(k)'
      /\ InBuffer(k) => InBuffer(k)'
    BY <1>1 DEF InTopics, InBuffer
<1> QED
    BY <1>1, <1>4, <1>5, <1>6, WorkerLeaves DEF Accounted

LEMMA SendToConnectorAccounts ==
    ASSUME Shape, NEW k \in Member, Accounted(k), NEW w \in Worker, SendToConnector(w)
    PROVE  Accounted(k)'
<1>1. UNCHANGED <<environment, store, incoming, outgoing, left, copy, consumers, writes,
                  receipts, lost>>
    BY DEF SendToConnector, history
<1>2. PICK c \in Connector :
          LET P == {e \in connectorGroupedUsers[w] : ConnectorOf[e[2]] = c} IN
          /\ buffer' = buffer \cup {<<w, GroupConnector(c, P)>>}
          /\ connectorGroupedUsers' = [connectorGroupedUsers EXCEPT ![w] = @ \ P]
    BY DEF SendToConnector
<1> DEFINE P == {e \in connectorGroupedUsers[w] : ConnectorOf[e[2]] = c}
<1>3. Receivers(GroupConnector(c, P)) = {e[1] : e \in P}
    BY GroupConnectors DEF Shape, Types, WorkerTypes
<1>4. /\ <<w, GroupConnector(c, P)>> \in buffer' /\ buffer \subseteq buffer'
      /\ connectorGroupedUsers' = [connectorGroupedUsers EXCEPT ![w] = @ \ P]
    BY <1>2
<1> HIDE DEF P
<1>5. ASSUME AtWorker(k) PROVE AtWorker(k)' \/ InBuffer(k)'
  <2>1. PICK v \in Worker : k \in Unfinished(v)
    BY <1>5 DEF AtWorker
  <2>2. CASE \E e \in P : e[1] = k
    BY <1>3, <1>4, <2>2 DEF InBuffer
  <2>3. CASE ~ \E e \in P : e[1] = k
    <3>1. \A e \in connectorGroupedUsers[v] : e[1] = k => e \in connectorGroupedUsers'[v]
      BY <1>4, <2>3 DEF Shape, Types, WorkerTypes
    <3>2. k \in Unfinished(v)'
      BY <1>1, <2>1, <3>1 DEF Unfinished
    <3> QED
      BY <3>2 DEF AtWorker
  <2> QED
    BY <2>2, <2>3
<1>6. /\ InTopics(k) => InTopics(k)'
      /\ InBuffer(k) => InBuffer(k)'
    BY <1>1, <1>4 DEF InTopics, InBuffer
<1> QED
    BY <1>1, <1>5, <1>6, WorkerLeaves DEF Accounted

\* A worker that commits has nothing in its hands.
LEMMA CommitAccounts ==
    ASSUME Shape, NEW k \in Member, Accounted(k), NEW w \in Worker, Commit(w)
    PROVE  Accounted(k)'
<1> USE DEF Commit
<1>1. /\ AtWorker(k) => AtWorker(k)'
      /\ InTopics(k) => InTopics(k)'
      /\ InBuffer(k) => InBuffer(k)'
    BY DEF AtWorker, Unfinished, InTopics, InBuffer
<1> QED
    BY <1>1, WorkerLeaves DEF Accounted, history

\* A report is of a copy that the worker delivers anew or persists.
LEMMA TakeStateChangedAccounts ==
    ASSUME Shape, NEW k \in Member, Accounted(k), NEW w \in Worker, TakeStateChanged(w)
    PROVE  Accounted(k)'
<1>1. /\ UNCHANGED <<environment, outgoing, left, connectorGroupedUsers, consumers, buffer,
                     writes, receipts, lost>>
      /\ store \subseteq store'
    BY DEF TakeStateChanged, history
<1>2. PICK p \in incoming :
          /\ p.type = "MESSAGE_STATE_CHANGED"
          /\ incoming' = incoming \ {p}
          /\ IF p.state = "ADDRESS_NOT_FOUND" THEN copy' = [copy EXCEPT ![w] = {p.msg}]
             ELSE /\ store' = IF p.state = "PROCESSED" THEN store
                              ELSE store \cup {<<p.msg, p.state>>}
                  /\ UNCHANGED copy
    BY DEF TakeStateChanged
<1>3. /\ p.msg \in Plain /\ p.state \in {"ADDRESS_NOT_FOUND", "NETWORK_ERROR"}
      /\ Receivers(p) = {p.msg.to}
    BY <1>2, ReportFields DEF Shape, Types, TopicTypes
<1>4. copy[w] = {}
    BY DEF TakeStateChanged, Shape, WorkerInv, WorkerOK
<1>5. AtWorker(p.msg.to)' \/ AtRest(p.msg.to)'
  <2>1. CASE p.state = "ADDRESS_NOT_FOUND"
    <3>1. p.msg \in copy'[w]
      BY <1>2, <2>1 DEF Shape, Types, WorkerTypes
    <3> QED
      BY <3>1 DEF AtWorker, Unfinished
  <2>2. CASE p.state = "NETWORK_ERROR"
    <3>1. <<p.msg, p.state>> \in store'
      BY <1>2, <2>2
    <3> QED
      BY <3>1 DEF AtRest
  <2> QED
    BY <1>3, <2>1, <2>2
<1>6. AtWorker(k) => AtWorker(k)'
  <2>1. \A v \in Worker : copy[v] \subseteq copy'[v]
    BY <1>2, <1>4 DEF Shape, Types, WorkerTypes
  <2> QED
    BY <1>1, <2>1 DEF AtWorker, Unfinished
<1>7. /\ InTopics(k) => InTopics(k)' \/ k = p.msg.to
      /\ InBuffer(k) => InBuffer(k)'
    BY <1>1, <1>2, <1>3 DEF InTopics, InBuffer
<1> QED
    BY <1>1, <1>5, <1>6, <1>7, WorkerLeaves DEF Accounted

-----------------------------------------------------------------------------
\* The workers' failures and their producer.
LEMMA HandlerThrowsShape ==
    ASSUME Shape, NEW w \in Worker, HandlerThrows(w)
    PROVE  Shape'
<1> USE DEF HandlerThrows, Empty, Goto
<1>1. Types'
    BY DEF Shape, Types, SocketTypes, TopicTypes, WorkerTypes, ConnectorTypes, environment,
           consumers
<1>2. OwnerInv' /\ ConnectorInv'
    BY OwnerFrame, ConnectorFrame DEF Shape
<1>3. WorkerInv'
    BY DEF Shape, Types, WorkerTypes, WorkerInv, WorkerOK, environment
<1> QED
    BY <1>1, <1>2, <1>3 DEF Shape

LEMMA WorkerCrashShape ==
    ASSUME Shape, NEW w \in Worker, WorkerCrash(w)
    PROVE  Shape'
<1> USE DEF WorkerCrash, Empty, Goto
<1>1. Types'
    BY DEF Shape, Types, SocketTypes, TopicTypes, WorkerTypes, ConnectorTypes, environment,
           consumers
<1>2. OwnerInv' /\ ConnectorInv'
    BY OwnerFrame, ConnectorFrame DEF Shape
<1>3. WorkerInv'
    BY DEF Shape, Types, WorkerTypes, WorkerInv, WorkerOK, environment
<1> QED
    BY <1>1, <1>2, <1>3 DEF Shape

LEMMA ProducerShape ==
    ASSUME Shape, NEW e \in buffer, Delivered(e) \/ DeliveryFailed(e)
    PROVE  Shape'
<1> USE DEF Delivered, DeliveryFailed
<1>1. Types'
    BY DEF Shape, Types, SocketTypes, TopicTypes, WorkerTypes, ConnectorTypes, environment,
           workers, consumers, history
<1>2. OwnerInv' /\ WorkerInv' /\ ConnectorInv'
    BY OwnerFrame, WorkerFrame, ConnectorFrame DEF Shape, environment
<1> QED
    BY <1>1, <1>2 DEF Shape

LEMMA HandlerThrowsAccounts ==
    ASSUME Shape, NEW k \in Member, Accounted(k), NEW w \in Worker, HandlerThrows(w)
    PROVE  Accounted(k)'
<1>1. UNCHANGED <<environment, store, incoming, outgoing, buffer, consumers, writes, receipts>>
    BY DEF HandlerThrows
<1>2. lost' = lost \cup Unfinished(w)
    BY DEF HandlerThrows
<1>3. \A v \in Worker : v # w => Unfinished(v)' = Unfinished(v)
    BY DEF HandlerThrows, Empty, Unfinished, Shape, Types, WorkerTypes
<1>4. AtWorker(k) => AtWorker(k)' \/ AtRest(k)'
    BY <1>2, <1>3 DEF AtWorker, AtRest
<1>5. /\ InTopics(k) => InTopics(k)'
      /\ InBuffer(k) => InBuffer(k)'
    BY <1>1 DEF InTopics, InBuffer
<1> QED
    BY <1>1, <1>2, <1>4, <1>5, WorkerLeaves DEF Accounted

\* Whatever a worker has in its hands is of the packet that comes again.
LEMMA WorkerCrashAccounts ==
    ASSUME Shape, NEW k \in Member, Accounted(k), NEW w \in Worker, WorkerCrash(w)
    PROVE  Accounted(k)'
<1> DEFINE unsent == {e \in buffer : e[1] = w}
           again == ReceiversOf(job[w] \cup handled[w])
<1>0. UNCHANGED <<environment, store, outgoing, consumers, writes, receipts>>
    BY DEF WorkerCrash
<1>1. /\ incoming' = incoming \cup job[w] \cup handled[w]
      /\ buffer' = buffer \ unsent
      /\ lost \subseteq lost'
    BY DEF WorkerCrash
<1>9. \A e \in unsent : k \in Receivers(e[2]) => k \in again \/ k \in lost'
  <2> DEFINE cut == ReceiversOf({e[2] : e \in unsent})
  <2>1. lost' = lost \cup (cut \ again)
    BY DEF WorkerCrash
  <2>2. \A e \in unsent : Receivers(e[2]) \subseteq cut
    BY DEF ReceiversOf
  <2> QED
    BY <2>1, <2>2
<1>2. Unfinished(w) \subseteq again
  <2>0. ReceiversOf(job[w]) \subseteq again
    BY DEF ReceiversOf
  <2>1. WorkerOK(w)
    BY DEF Shape, WorkerInv
  <2>2. \A u \in left[w] : u \in Member
    BY DEF Shape, Types, WorkerTypes
  <2>3. \A e \in connectorGroupedUsers[w] : e[1] \in Member
    BY DEF Shape, Types, WorkerTypes
  <2>4. left[w] # {} \/ connectorGroupedUsers[w] # {} => Member \subseteq again
    BY <2>0, <2>1, Groups, ReceiversOfGroup DEF WorkerOK
  <2>5. \A x \in copy[w] : x.to \in ReceiversOf(job[w])
    BY <2>1 DEF WorkerOK, ReceiversOf
  <2> HIDE DEF again
  <2> QED
    BY <2>0, <2>2, <2>3, <2>4, <2>5 DEF Unfinished
<1>3. k \in again => InTopics(k)'
    BY <1>1 DEF InTopics, ReceiversOf
<1>4. \A v \in Worker : v # w => Unfinished(v)' = Unfinished(v)
    BY DEF WorkerCrash, Empty, Unfinished, Shape, Types, WorkerTypes
<1>5. AtWorker(k) => AtWorker(k)' \/ InTopics(k)'
    BY <1>2, <1>3, <1>4 DEF AtWorker
<1>6. ASSUME InBuffer(k) PROVE InBuffer(k)' \/ InTopics(k)' \/ AtRest(k)'
  <2>1. PICK e \in buffer : k \in Receivers(e[2])
    BY <1>6 DEF InBuffer
  <2>2. CASE e \notin unsent
    BY <1>1, <2>1, <2>2 DEF InBuffer
  <2>3. CASE e \in unsent
    <3>1. k \in again \/ k \in lost'
      BY <1>9, <2>1, <2>3
    <3> QED
      BY <1>3, <3>1 DEF AtRest
  <2> QED
    BY <2>2, <2>3
<1>7. InTopics(k) => InTopics(k)'
    BY <1>0, <1>1 DEF InTopics
<1>8. store \subseteq store' /\ lost \subseteq lost'
    BY <1>0, <1>1
<1> QED
    BY <1>0, <1>5, <1>6, <1>7, <1>8, WorkerLeaves DEF Accounted

LEMMA ProducerAccounts ==
    ASSUME Shape, NEW k \in Member, Accounted(k),
           NEW e \in buffer, Delivered(e) \/ DeliveryFailed(e)
    PROVE  Accounted(k)'
<1>1. /\ UNCHANGED <<environment, incoming, workers, consumers, writes, receipts>>
      /\ buffer' = buffer \ {e}
      /\ store \subseteq store' /\ lost \subseteq lost' /\ outgoing \subseteq outgoing'
    BY DEF Delivered, DeliveryFailed, history
<1>2. k \in Receivers(e[2]) => InTopics(k)' \/ AtRest(k)'
  <2>1. CASE Delivered(e)
    BY <2>1 DEF Delivered, InTopics
  <2>2. CASE DeliveryFailed(e) /\ e[2].type = "DELIVER"
    <3>1. Receivers(e[2]) = {e[2].msg.to}
      BY <2>2, OutgoingFields DEF Shape, Types, TopicTypes
    <3>2. <<e[2].msg, "NETWORK_ERROR">> \in store'
      BY <2>2 DEF DeliveryFailed
    <3> QED
      BY <3>1, <3>2 DEF AtRest
  <2>3. CASE DeliveryFailed(e) /\ e[2].type # "DELIVER"
    BY <2>3 DEF DeliveryFailed, AtRest
  <2> QED
    BY <2>1, <2>2, <2>3
<1>3. /\ AtWorker(k) => AtWorker(k)'
      /\ InTopics(k) => InTopics(k)'
    BY <1>1 DEF AtWorker, Unfinished, workers, InTopics
<1>4. InBuffer(k) => InBuffer(k)' \/ InTopics(k)' \/ AtRest(k)'
    BY <1>1, <1>2 DEF InBuffer
<1> QED
    BY <1>1, <1>3, <1>4, WorkerLeaves DEF Accounted

-----------------------------------------------------------------------------
\* The connectors.
LEMMA CopiesOfPacket ==
    ASSUME NEW p \in OutgoingPacket
    PROVE  LET E == IF p.type = "DELIVER" THEN {<<p.msg, p.addr>>} ELSE CopiesOf(p) IN
           /\ E \subseteq Plain \X Address
           /\ \A e \in E : ConnectorOf[e[2]] = p.to /\ e[1].to \in Receivers(p)
           /\ \A m \in Receivers(p) : \E e \in E : e[1].to = m
<1>1. CASE p.type = "DELIVER"
    BY <1>1, OutgoingFields
<1>2. CASE p.type # "DELIVER"
  <2>1. /\ p.pairs \subseteq Member \X Address
        /\ \A e \in p.pairs : ConnectorOf[e[2]] = p.to
        /\ Receivers(p) = {e[1] : e \in p.pairs}
    BY <1>2, OutgoingFields
  <2>2. \A e \in p.pairs :
            Copy(e[1], e[2], TRUE) \in Plain /\ Copy(e[1], e[2], TRUE).to = e[1]
    BY <2>1, PlainCopies
  <2>3. \A e \in p.pairs : <<Copy(e[1], e[2], TRUE), e[2]>> \in CopiesOf(p)
    BY DEF CopiesOf
  <2>4. \A f \in CopiesOf(p) : \E e \in p.pairs : f = <<Copy(e[1], e[2], TRUE), e[2]>>
    BY DEF CopiesOf
  <2>5. ASSUME NEW f \in CopiesOf(p)
        PROVE  /\ f \in Plain \X Address
               /\ ConnectorOf[f[2]] = p.to /\ f[1].to \in Receivers(p)
    <3>1. PICK e \in p.pairs : f = <<Copy(e[1], e[2], TRUE), e[2]>>
      BY <2>4
    <3>2. e[1] \in Member /\ e[2] \in Address /\ e[1] \in Receivers(p)
      BY <2>1
    <3>3. f[1] = Copy(e[1], e[2], TRUE) /\ f[2] = e[2]
      BY <3>1
    <3>4. f[1] \in Plain /\ f[1].to = e[1]
      BY <2>2, <3>3
    <3> QED
      BY <2>1, <3>1, <3>2, <3>3, <3>4
  <2>7. \A m \in Receivers(p) : \E f \in CopiesOf(p) : f[1].to = m
    BY <2>1, <2>2, <2>3
  <2> QED
    BY <1>2, <2>5, <2>7
<1> QED
    BY <1>1, <1>2

LEMMA TakePacketShape ==
    ASSUME Shape, NEW c \in Connector, TakePacket(c)
    PROVE  Shape'
<1>1. PICK p \in outgoing :
        /\ task[c] = {} /\ p.to = c
        /\ outgoing' = outgoing \ {p}
        /\ task' = [task EXCEPT ![c] = {p}]
        /\ pairs' = [pairs EXCEPT ![c] =
              IF p.type = "DELIVER" THEN {<<p.msg, p.addr>>} ELSE CopiesOf(p)]
        /\ UNCHANGED <<environment, userChannel, store, incoming, workers, buffer,
                       consumed, writes, history, faults>>
    BY DEF TakePacket
<1> DEFINE E == IF p.type = "DELIVER" THEN {<<p.msg, p.addr>>} ELSE CopiesOf(p)
<1>2. /\ p \in OutgoingPacket
      /\ E \subseteq Plain \X Address
      /\ \A e \in E : ConnectorOf[e[2]] = p.to /\ e[1].to \in Receivers(p)
    BY CopiesOfPacket DEF Shape, Types, TopicTypes
<1>3. pairs' = [pairs EXCEPT ![c] = E]
    BY <1>1
<1> HIDE DEF E
<1>4. Types'
    BY <1>1, <1>2, <1>3 DEF Shape, Types, SocketTypes, TopicTypes, WorkerTypes, ConnectorTypes,
           environment, workers, history
<1>5. OwnerInv' /\ WorkerInv'
    BY <1>1, OwnerFrame, WorkerFrame DEF Shape, environment
<1>6. ConnectorInv'
    BY <1>1, <1>2, <1>3 DEF Shape, Types, ConnectorTypes, ConnectorInv, ConnectorOK
<1> QED
    BY <1>4, <1>5, <1>6 DEF Shape

\* What is reported of a plain copy is a packet for the processors, and it is
\* a failure.
LEMMA ReportsArePackets ==
    ASSUME NEW x \in Plain, NEW a \in Address, NEW success \in BOOLEAN
    PROVE  /\ StateReport(x, a, success) \subseteq IncomingPacket
           /\ success => StateReport(x, a, success) = {}
           /\ ~success => StateReport(x, a, success) = {StateChanged(x, a, "NETWORK_ERROR")}
BY Reports, PlainTo DEF StateReport

LEMMA ProcessPairShape ==
    ASSUME Shape, NEW c \in Connector, ProcessPair(c)
    PROVE  Shape'
<1>1. PICK e \in pairs[c] :
        /\ pairs' = [pairs EXCEPT ![c] = @ \ {e}]
        /\ IF IsConnected(e[1], e[2])
           THEN writes' = writes \cup {e} /\ UNCHANGED incoming
           ELSE /\ DeliverStateChanged({StateChanged(e[1], e[2], "ADDRESS_NOT_FOUND")})
                /\ UNCHANGED writes
        /\ UNCHANGED <<environment, userChannel, outgoing, workers, buffer, task, consumed,
                       receipts>>
    BY DEF ProcessPair
<1>2. e[1] \in Plain /\ e[2] \in Address /\ e = <<e[1], e[2]>>
    BY DEF Shape, Types, ConnectorTypes
<1>3. StateChanged(e[1], e[2], "ADDRESS_NOT_FOUND") \in IncomingPacket
    BY <1>2, Reports
<1>4. /\ incoming' \subseteq IncomingPacket
      /\ writes' \subseteq Plain \X Address
      /\ \A f \in writes' : owner[f[2]] = f[1].to
    BY <1>1, <1>2, <1>3 DEF DeliverStateChanged, IsConnected, Shape, Types, SocketTypes,
       TopicTypes, OwnerInv
<1>5. Types'
    BY <1>1, <1>4 DEF Shape, Types, SocketTypes, TopicTypes, WorkerTypes, ConnectorTypes,
           environment, workers
<1>6. OwnerInv' /\ WorkerInv'
    BY <1>1, <1>4, WorkerFrame DEF Shape, environment, OwnerInv
<1>7. ConnectorInv'
    BY <1>1 DEF Shape, Types, ConnectorTypes, ConnectorInv, ConnectorOK
<1> QED
    BY <1>5, <1>6, <1>7 DEF Shape

LEMMA ConnectorEndsShape ==
    ASSUME Shape, NEW c \in Connector,
           ProcessPairThrows(c) \/ CommitPacket(c) \/ ConnectorCrash(c)
    PROVE  Shape'
<1> USE DEF ProcessPairThrows, CommitPacket, ConnectorCrash
<1>1. /\ open' \subseteq open /\ writes' \subseteq writes /\ outgoing' \subseteq OutgoingPacket
      /\ UNCHANGED <<owner, news, userChannel, incoming, workers, buffer, receipts>>
    BY DEF environment, history, Shape, Types, TopicTypes, ConnectorTypes
<1>2. ConnectorTypes'
    BY BatchGrows DEF Shape, Types, ConnectorTypes
<1>3. Types'
    BY <1>1, <1>2 DEF Shape, Types, SocketTypes, TopicTypes, WorkerTypes, workers
<1>4. OwnerInv' /\ WorkerInv'
    BY <1>1, WorkerFrame DEF Shape, OwnerInv
<1>5. ConnectorInv'
    BY DEF Shape, Types, ConnectorTypes, ConnectorInv, ConnectorOK
<1> QED
    BY <1>3, <1>4, <1>5 DEF Shape

LEMMA WriteEndsShape ==
    ASSUME Shape, NEW e \in writes, WriteEnds(e[1], e[2])
    PROVE  Shape'
<1>1. /\ writes' \subseteq writes
      /\ DeliverStateChanged(StateReport(e[1], e[2], e[2] \in open))
      /\ UNCHANGED <<environment, userChannel, outgoing, workers, buffer, consumers>>
    BY DEF WriteEnds
<1>2. e[1] \in Plain /\ e[2] \in Address
    BY DEF Shape, Types, SocketTypes
<1>3. incoming' \subseteq IncomingPacket
  <2> DEFINE success == e[2] \in open
  <2>0. success \in BOOLEAN
    OBVIOUS
  <2>1. StateReport(e[1], e[2], success) \subseteq IncomingPacket
    BY <1>2, <2>0, ReportsArePackets
  <2>2. \/ incoming' = incoming \cup StateReport(e[1], e[2], e[2] \in open)
        \/ incoming' = incoming
    BY <1>1, Zenon DEF DeliverStateChanged
  <2> QED
    BY <2>1, <2>2 DEF Shape, Types, TopicTypes
<1>4. receipts' \in [Address -> 0..2]
    BY DEF WriteEnds, Shape, Types, SocketTypes
<1>5. Types'
    BY <1>1, <1>3, <1>4 DEF Shape, Types, SocketTypes, TopicTypes, WorkerTypes,
       ConnectorTypes, environment, workers, consumers
<1>6. OwnerInv' /\ WorkerInv' /\ ConnectorInv'
    BY <1>1, WorkerFrame, ConnectorFrame DEF Shape, environment, OwnerInv
<1> QED
    BY <1>5, <1>6 DEF Shape

\* What the parts of MemberAccounted that a connector's step has no hand in
\* depend on.
LEMMA ConnectorLeaves ==
    ASSUME Shape, NEW k \in Member,
           UNCHANGED <<owner, workers, buffer>>
    PROVE  /\ AtWorker(k) => AtWorker(k)'
           /\ InBuffer(k) => InBuffer(k)'
BY DEF AtWorker, InBuffer, Unfinished, workers

LEMMA RestRemains ==
    ASSUME Shape, NEW k \in Member, AtRest(k),
           UNCHANGED <<owner, store, receipts>>, lost \subseteq lost'
    PROVE  AtRest(k)'
BY RestStays DEF Shape, Types

LEMMA TakePacketAccounts ==
    ASSUME Shape, NEW k \in Member, Accounted(k), NEW c \in Connector, TakePacket(c)
    PROVE  Accounted(k)'
<1>1. PICK p \in outgoing :
        /\ task[c] = {}
        /\ outgoing' = outgoing \ {p}
        /\ pairs' = [pairs EXCEPT ![c] =
              IF p.type = "DELIVER" THEN {<<p.msg, p.addr>>} ELSE CopiesOf(p)]
        /\ UNCHANGED <<environment, store, incoming, workers, buffer, writes, history>>
    BY DEF TakePacket
<1>2. UNCHANGED <<owner, receipts, lost>>
    BY <1>1 DEF environment, history
<1> DEFINE E == IF p.type = "DELIVER" THEN {<<p.msg, p.addr>>} ELSE CopiesOf(p)
<1>3. \A m \in Receivers(p) : \E e \in E : e[1].to = m
    BY CopiesOfPacket DEF Shape, Types, TopicTypes
<1>4. pairs' = [pairs EXCEPT ![c] = E]
    BY <1>1
<1> HIDE DEF E
<1>5. pairs[c] = {}
    BY <1>1 DEF Shape, ConnectorInv, ConnectorOK
<1>6. k \in Receivers(p) => AtConnector(k)'
    BY <1>3, <1>4 DEF AtConnector, Shape, Types, ConnectorTypes
<1>7. AtConnector(k) => AtConnector(k)'
    BY <1>4, <1>5 DEF AtConnector, Shape, Types, ConnectorTypes
<1>8. InTopics(k) => InTopics(k)' \/ k \in Receivers(p)
    BY <1>1 DEF InTopics
<1>9. InWrites(k) => InWrites(k)'
    BY <1>1 DEF InWrites
<1> QED
    BY <1>1, <1>2, <1>6, <1>7, <1>8, <1>9, ConnectorLeaves, RestRemains DEF Accounted

LEMMA ProcessPairAccounts ==
    ASSUME Shape, NEW k \in Member, Accounted(k), NEW c \in Connector, ProcessPair(c)
    PROVE  Accounted(k)'
<1>1. PICK e \in pairs[c] :
        /\ pairs' = [pairs EXCEPT ![c] = @ \ {e}]
        /\ IF IsConnected(e[1], e[2])
           THEN writes' = writes \cup {e} /\ UNCHANGED <<incoming, lost>>
           ELSE /\ DeliverStateChanged({StateChanged(e[1], e[2], "ADDRESS_NOT_FOUND")})
                /\ UNCHANGED writes
        /\ UNCHANGED <<environment, store, outgoing, workers, buffer, receipts>>
    BY DEF ProcessPair
<1> DEFINE report == StateChanged(e[1], e[2], "ADDRESS_NOT_FOUND")
<1>2. UNCHANGED owner
    BY <1>1 DEF environment
<1>3. Receivers(report) = {e[1].to} /\ report.msg = e[1]
    BY Reports DEF Shape, Types, ConnectorTypes
<1>4. /\ incoming \subseteq incoming' /\ lost \subseteq lost' /\ writes \subseteq writes'
      /\ e \in writes' \/ report \in incoming' \/ e[1].to \in lost'
    BY <1>1, <1>3 DEF DeliverStateChanged
<1>5. InWrites(e[1].to)' \/ InTopics(e[1].to)' \/ AtRest(e[1].to)'
    BY <1>3, <1>4 DEF InWrites, InTopics, AtRest
<1>6. AtConnector(k) => AtConnector(k)' \/ k = e[1].to
    BY <1>1 DEF AtConnector, Shape, Types, ConnectorTypes
<1>7. /\ InTopics(k) => InTopics(k)'
      /\ InWrites(k) => InWrites(k)'
    BY <1>1, <1>4 DEF InTopics, InWrites
<1>8. AtRest(k) => AtRest(k)'
    BY <1>1, <1>2, <1>4, RestRemains
<1> QED
    BY <1>1, <1>2, <1>5, <1>6, <1>7, <1>8, ConnectorLeaves DEF Accounted

LEMMA ConnectorEndsAccounts ==
    ASSUME Shape, NEW k \in Member, Accounted(k), NEW c \in Connector,
           ProcessPairThrows(c) \/ CommitPacket(c)
    PROVE  Accounted(k)'
<1>1. /\ UNCHANGED <<owner, store, incoming, outgoing, workers, buffer, writes, receipts>>
      /\ lost \subseteq lost'
    BY DEF ProcessPairThrows, CommitPacket, environment, history
<1>2. AtConnector(k) => AtConnector(k)' \/ AtRest(k)'
  <2>1. CASE ProcessPairThrows(c)
    BY <2>1 DEF ProcessPairThrows, AtConnector, AtRest, Shape, Types, ConnectorTypes
  <2>2. CASE CommitPacket(c)
    BY <2>2 DEF CommitPacket, AtConnector
  <2> QED
    BY <2>1, <2>2
<1>3. /\ InTopics(k) => InTopics(k)'
      /\ InWrites(k) => InWrites(k)'
    BY <1>1 DEF InTopics, InWrites
<1> QED
    BY <1>1, <1>2, <1>3, ConnectorLeaves, RestRemains DEF Accounted

\* What a connector has in its hands is of the packet that comes again, and the
\* writes that its sockets take with them are counted.
LEMMA ConnectorCrashAccounts ==
    ASSUME Shape, NEW k \in Member, Accounted(k), NEW c \in Connector, ConnectorCrash(c)
    PROVE  Accounted(k)'
<1> DEFINE gone == {a \in Address : ConnectorOf[a] = c}
           cut == {e \in writes : e[2] \in gone}
           again == ReceiversOf(task[c] \cup consumed[c])
<1>1. /\ UNCHANGED <<owner, store, incoming, workers, buffer, receipts>>
      /\ writes' = writes \ cut
      /\ outgoing' = outgoing \cup task[c] \cup consumed[c]
      /\ pairs' = [pairs EXCEPT ![c] = {}]
      /\ lost' = lost \cup ({e[1].to : e \in cut} \ again)
    BY DEF ConnectorCrash
<1>2. k \in again => InTopics(k)'
    BY <1>1 DEF InTopics, ReceiversOf
<1>3. AtConnector(k) => AtConnector(k)' \/ k \in again
  <2>1. \A e \in pairs[c] : e[1].to \in again
    BY DEF Shape, ConnectorInv, ConnectorOK, ReceiversOf
  <2> HIDE DEF again, cut
  <2> QED
    BY <1>1, <2>1 DEF AtConnector, Shape, Types, ConnectorTypes
<1>4. InWrites(k) => InWrites(k)' \/ k \in again \/ AtRest(k)'
  <2> HIDE DEF again, cut
  <2> QED
    BY <1>1 DEF InWrites, AtRest
<1>5. InTopics(k) => InTopics(k)'
    BY <1>1 DEF InTopics
<1>6. AtRest(k) => AtRest(k)'
    BY <1>1, RestRemains
<1> QED
    BY <1>1, <1>2, <1>3, <1>4, <1>5, <1>6, ConnectorLeaves DEF Accounted

\* A write reaches its member's socket, or its failure is reported or given up.
LEMMA WriteEndsAccounts ==
    ASSUME Shape, NEW k \in Member, Accounted(k), NEW e \in writes, WriteEnds(e[1], e[2])
    PROVE  Accounted(k)'
<1>1. /\ UNCHANGED <<environment, store, outgoing, workers, buffer, consumers>>
      /\ writes' = writes \ {<<e[1], e[2]>>}
      /\ DeliverStateChanged(StateReport(e[1], e[2], e[2] \in open))
      /\ receipts' = IF e[2] \in open /\ receipts[e[2]] < 2
                     THEN [receipts EXCEPT ![e[2]] = @ + 1] ELSE receipts
    BY DEF WriteEnds
<1>2. /\ e[1] \in Plain /\ e[2] \in Address /\ owner[e[2]] = e[1].to
      /\ e = <<e[1], e[2]>>
      /\ receipts \in [Address -> 0..2]
    BY DEF Shape, Types, SocketTypes, OwnerInv
<1>3. UNCHANGED owner
    BY <1>1 DEF environment
<1>4. \A a \in Address : receipts[a] > 0 => receipts'[a] > 0
    BY <1>1, <1>2
<1>5. incoming \subseteq incoming' /\ lost \subseteq lost'
    BY <1>1 DEF DeliverStateChanged
<1>6. AtRest(k) => AtRest(k)'
    BY <1>1, <1>3, <1>4, <1>5, RestStays DEF Shape, Types
<1>7. InTopics(e[1].to)' \/ AtRest(e[1].to)'
  <2>1. CASE e[2] \in open
    <3>1. receipts'[e[2]] > 0
      BY <1>1, <1>2, <2>1
    <3> QED
      BY <1>2, <1>3, <3>1 DEF AtRest, Received
  <2>2. CASE e[2] \notin open
    <3> DEFINE report == StateChanged(e[1], e[2], "NETWORK_ERROR")
    <3>1. StateReport(e[1], e[2], e[2] \in open) = {report}
      BY <2>2 DEF StateReport
    <3>2. Receivers(report) = {e[1].to} /\ report.msg = e[1]
      BY <1>2, Reports
    <3>3. report \in incoming' \/ e[1].to \in lost'
      BY <1>1, <3>1, <3>2 DEF DeliverStateChanged
    <3> QED
      BY <3>2, <3>3 DEF InTopics, AtRest
  <2> QED
    BY <2>1, <2>2
<1>8. /\ AtWorker(k) => AtWorker(k)'
      /\ InBuffer(k) => InBuffer(k)'
      /\ AtConnector(k) => AtConnector(k)'
    BY <1>1, <1>3, ConnectorLeaves DEF AtConnector, consumers
<1>9. /\ InTopics(k) => InTopics(k)'
      /\ InWrites(k) => InWrites(k)' \/ k = e[1].to
    BY <1>1, <1>2, <1>5 DEF InTopics, InWrites
<1> QED
    BY <1>6, <1>7, <1>8, <1>9 DEF Accounted


-----------------------------------------------------------------------------
\* Where m's part of the group message is on its way to socket a.
Brings(p, m, a) ==
    IF p.type = "DELIVER" THEN p.msg.to = m /\ p.addr = a ELSE <<m, a>> \in p.pairs

Place(s, m, a) ==
    \/ Group \in incoming /\ s = <<"incoming", Group>>
    \/ \E w \in Worker : m \in left[w] /\ s = <<"left", w>>
    \/ \E w \in Worker : <<m, a>> \in connectorGroupedUsers[w] /\ s = <<"grouped", w>>
    \/ \E w \in Worker : (\E x \in copy[w] : x.to = m) /\ s = <<"copy", w>>
    \/ \E e \in buffer : Brings(e[2], m, a) /\ s = <<"buffer", e>>
    \/ \E p \in outgoing : Brings(p, m, a) /\ s = <<"outgoing", p>>
    \/ \E c \in Connector : \E e \in pairs[c] : e[1].to = m /\ e[2] = a /\ s = <<"pairs", e>>
    \/ \E e \in writes : e[1].to = m /\ e[2] = a /\ s = <<"writes", e>>
    \/ owner[a] = m /\ receipts[a] > 0 /\ s = <<"received", a>>

\* As long as nothing was repeated or not found, it is in one place only.
OnlyPlace(m, a) ==
    m \notin missed \cup repeated =>
        /\ \A s, t : Place(s, m, a) /\ Place(t, m, a) => s = t
        /\ owner[a] = m => receipts[a] < 2

NotFound(p) == p.type = "MESSAGE_STATE_CHANGED" /\ p.state = "ADDRESS_NOT_FOUND"

MissedInv ==
    /\ \A p \in incoming : NotFound(p) => p.msg.to \in missed
    /\ \A w \in Worker : \A p \in job[w] \cup handled[w] : NotFound(p) => p.msg.to \in missed

PlaceInv ==
    /\ MissedInv
    /\ \A a \in Address : owner[a] = NoUser => receipts[a] = 0
    /\ \A m \in Member, a \in Address : OnlyPlace(m, a)

LEMMA Moves ==
    ASSUME NEW m, NEW a, OnlyPlace(m, a), UNCHANGED <<owner, receipts>>,
           missed \subseteq missed', repeated \subseteq repeated',
           NEW s, NEW t,
           \A x : Place(x, m, a)' => Place(x, m, a) \/ x = t,
           Place(t, m, a)' => Place(t, m, a) \/ (Place(s, m, a) /\ ~Place(s, m, a)')
    PROVE  OnlyPlace(m, a)'
BY DEF OnlyPlace

LEMMA Vanishes ==
    ASSUME NEW m, NEW a, OnlyPlace(m, a), UNCHANGED <<owner, receipts>>,
           missed \subseteq missed', repeated \subseteq repeated',
           m \notin missed' \cup repeated' => \A x : Place(x, m, a)' => Place(x, m, a)
    PROVE  OnlyPlace(m, a)'
BY DEF OnlyPlace

LEMMA Brought ==
    ASSUME NEW p \in OutgoingPacket, NEW m, NEW a, Brings(p, m, a)
    PROVE  m \in Receivers(p)
BY OutgoingFields DEF Brings

\* A socket that is opened has received nothing.
LEMMA SocketsOnce ==
    ASSUME Shape, PlaceInv, NEW m \in Member, NEW a \in Address,
           \/ \E b \in Address : Disconnects(b) \/ \E u \in Member : Connects(b, u)
           \/ \E n \in news : ProcessNews(n)
    PROVE  OnlyPlace(m, a)' /\ (owner'[a] = NoUser => receipts'[a] = 0)
<1>1. UNCHANGED <<incoming, outgoing, workers, buffer, consumers, writes, history>>
    BY DEF Disconnects, Connects, ProcessNews
<1>2. UNCHANGED <<incoming, left, connectorGroupedUsers, copy, buffer, outgoing, pairs, writes,
                  receipts, missed, repeated>>
    BY <1>1 DEF workers, consumers, history
<1>3. owner'[a] = owner[a] \/ owner[a] = NoUser
    BY DEF Disconnects, Connects, ProcessNews, Shape, Types, SocketTypes
<1>4. OnlyPlace(m, a) /\ (owner[a] = NoUser => receipts[a] = 0)
    BY DEF PlaceInv
<1>5. \A x : Place(x, m, a)' => Place(x, m, a)
    BY <1>2, <1>3, <1>4 DEF Place
<1> QED
    BY <1>2, <1>3, <1>4, <1>5 DEF OnlyPlace

LEMMA TakeGroupOnce ==
    ASSUME Shape, NEW m \in Member, NEW a \in Address, OnlyPlace(m, a),
           NEW w \in Worker, TakeGroup(w)
    PROVE  OnlyPlace(m, a)'
<1> USE DEF TakeGroup
<1>1. \A x : Place(x, m, a)' => Place(x, m, a) \/ x = <<"left", w>>
    BY DEF Place, Shape, Types, WorkerTypes, environment, consumers, history
<1>2. Place(<<"incoming", Group>>, m, a) /\ ~Place(<<"incoming", Group>>, m, a)'
    BY DEF Place
<1> QED
    BY <1>1, <1>2, Moves DEF environment, history

\* The addresses of the next member, of which the worker has had none.
LEMMA LookUpOnce ==
    ASSUME Shape, NEW m \in Member, NEW a \in Address, OnlyPlace(m, a),
           NEW w \in Worker, LookUp(w)
    PROVE  OnlyPlace(m, a)'
<1>1. UNCHANGED <<owner, receipts, missed, repeated, incoming, outgoing, buffer, pairs, writes>>
    BY DEF LookUp, environment, history, consumers
<1>2. PICK u \in left[w] :
          /\ left' = [left EXCEPT ![w] = @ \ {u}]
          /\ \E A \in RouteTargets(u) :
                IF A = {}
                THEN /\ copy' = [copy EXCEPT ![w] = {NotFoundCopy(u)}]
                     /\ UNCHANGED connectorGroupedUsers
                ELSE /\ connectorGroupedUsers' =
                            [connectorGroupedUsers EXCEPT ![w] = Grouped(w, u, A)]
                     /\ UNCHANGED copy
    BY DEF LookUp
<1>3. PICK A \in RouteTargets(u) :
          IF A = {}
          THEN /\ copy' = [copy EXCEPT ![w] = {NotFoundCopy(u)}]
               /\ UNCHANGED connectorGroupedUsers
          ELSE /\ connectorGroupedUsers' =
                      [connectorGroupedUsers EXCEPT ![w] = Grouped(w, u, A)]
               /\ UNCHANGED copy
    BY <1>2
<1>4. u \in Member /\ NotFoundCopy(u).to = u
    BY PlainCopies DEF Shape, Types, WorkerTypes
<1>5. CASE A = {}
  <2>1. \A x : Place(x, m, a)' => Place(x, m, a) \/ (m = u /\ x = <<"copy", w>>)
    <3>1. /\ connectorGroupedUsers' = connectorGroupedUsers
          /\ \A v \in Worker : left'[v] \subseteq left[v]
      BY <1>2, <1>3, <1>5 DEF Shape, Types, WorkerTypes
    <3>2. \A v \in Worker :
              copy'[v] = copy[v] \/ (v = w /\ \A x \in copy'[v] : x.to = u)
      BY <1>3, <1>4, <1>5 DEF Shape, Types, WorkerTypes
    <3> QED
      BY <1>1, <3>1, <3>2 DEF Place
  <2>2. m = u => Place(<<"left", w>>, m, a) /\ ~Place(<<"left", w>>, m, a)'
    BY <1>2 DEF Place, Shape, Types, WorkerTypes
  <2>3. CASE m = u
    BY <1>1, <2>1, <2>2, <2>3, Moves
  <2>4. CASE m # u
    BY <1>1, <2>1, <2>4, Vanishes
  <2> QED
    BY <2>3, <2>4
<1>6. CASE A # {}
  <2>1. \A x : Place(x, m, a)' => Place(x, m, a) \/ (m = u /\ x = <<"grouped", w>>)
    <3>1. /\ copy' = copy
          /\ \A v \in Worker : left'[v] \subseteq left[v]
      BY <1>2, <1>3, <1>6 DEF Shape, Types, WorkerTypes
    <3>2. \A v \in Worker : <<m, a>> \in connectorGroupedUsers'[v] =>
              <<m, a>> \in connectorGroupedUsers[v] \/ (v = w /\ m = u)
      BY <1>3, <1>6 DEF Grouped, Shape, Types, WorkerTypes
    <3> QED
      BY <1>1, <3>1, <3>2 DEF Place
  <2>2. m = u => Place(<<"left", w>>, m, a) /\ ~Place(<<"left", w>>, m, a)'
    BY <1>2 DEF Place, Shape, Types, WorkerTypes
  <2>3. CASE m = u
    BY <1>1, <2>1, <2>2, <2>3, Moves
  <2>4. CASE m # u
    BY <1>1, <2>1, <2>4, Vanishes
  <2> QED
    BY <2>3, <2>4
<1> QED
    BY <1>5, <1>6

LEMMA SendOnce ==
    ASSUME Shape, NEW m \in Member, NEW a \in Address, OnlyPlace(m, a),
           NEW w \in Worker, Send(w)
    PROVE  OnlyPlace(m, a)'
<1>1. /\ UNCHANGED <<owner, receipts, missed, repeated, incoming, outgoing, left,
                     connectorGroupedUsers, pairs, writes>>
      /\ copy' = [copy EXCEPT ![w] = {}]
    BY DEF Send, environment, history, consumers
<1>2. PICK y \in copy[w] :
          buffer' = buffer \/ buffer' = buffer \cup {<<w, Delivery(y, b)>> : b \in seen[w]}
    BY DEF Send
<1>3. \A b : Brings(Delivery(y, b), m, a) <=> m = y.to /\ a = b
    BY DEF Brings, Delivery
<1> DEFINE t == <<"buffer", <<w, Delivery(y, a)>>>>
<1>4. \A x : Place(x, m, a)' => Place(x, m, a) \/ (m = y.to /\ x = t)
  <2>1. \A v \in Worker : copy'[v] \subseteq copy[v]
    BY <1>1 DEF Shape, Types, WorkerTypes
  <2>2. \A e \in buffer' : Brings(e[2], m, a) =>
            e \in buffer \/ (m = y.to /\ e = <<w, Delivery(y, a)>>)
    BY <1>2, <1>3
  <2> QED
    BY <1>1, <2>1, <2>2 DEF Place
<1>5. m = y.to => Place(<<"copy", w>>, m, a)
    BY DEF Place
<1>6. ~Place(<<"copy", w>>, m, a)'
    BY <1>1 DEF Place, Shape, Types, WorkerTypes
<1> HIDE DEF t
<1>7. CASE m = y.to
    BY <1>1, <1>4, <1>5, <1>6, <1>7, Moves
<1>8. CASE m # y.to
    BY <1>1, <1>4, <1>8, Vanishes
<1> QED
    BY <1>7, <1>8

LEMMA SendToConnectorOnce ==
    ASSUME Shape, NEW m \in Member, NEW a \in Address, OnlyPlace(m, a),
           NEW w \in Worker, SendToConnector(w)
    PROVE  OnlyPlace(m, a)'
<1>1. UNCHANGED <<owner, receipts, missed, repeated, incoming, outgoing, left, copy, pairs,
                  writes>>
    BY DEF SendToConnector, environment, history, consumers
<1>2. PICK c \in Connector :
          LET P == {e \in connectorGroupedUsers[w] : ConnectorOf[e[2]] = c} IN
          /\ buffer' = buffer \cup {<<w, GroupConnector(c, P)>>}
          /\ connectorGroupedUsers' = [connectorGroupedUsers EXCEPT ![w] = @ \ P]
    BY DEF SendToConnector
<1> DEFINE P == {e \in connectorGroupedUsers[w] : ConnectorOf[e[2]] = c}
           t == <<"buffer", <<w, GroupConnector(c, P)>>>>
<1>3. /\ buffer' = buffer \cup {<<w, GroupConnector(c, P)>>}
      /\ connectorGroupedUsers' = [connectorGroupedUsers EXCEPT ![w] = @ \ P]
      /\ P \subseteq connectorGroupedUsers[w]
    BY <1>2
<1> HIDE DEF P
<1>4. Brings(GroupConnector(c, P), m, a) <=> <<m, a>> \in P
    BY DEF Brings, GroupConnector
<1>5. \A x : Place(x, m, a)' => Place(x, m, a) \/ (<<m, a>> \in P /\ x = t)
  <2>1. \A v \in Worker : connectorGroupedUsers'[v] \subseteq connectorGroupedUsers[v]
    BY <1>3 DEF Shape, Types, WorkerTypes
  <2>2. \A e \in buffer' : Brings(e[2], m, a) =>
            e \in buffer \/ (<<m, a>> \in P /\ e = <<w, GroupConnector(c, P)>>)
    BY <1>3, <1>4
  <2> QED
    BY <1>1, <2>1, <2>2 DEF Place
<1>6. <<m, a>> \in P =>
          Place(<<"grouped", w>>, m, a) /\ ~Place(<<"grouped", w>>, m, a)'
    BY <1>3 DEF Place, Shape, Types, WorkerTypes
<1> HIDE DEF t
<1>7. CASE <<m, a>> \in P
    BY <1>1, <1>5, <1>6, <1>7, Moves
<1>8. CASE <<m, a>> \notin P
    BY <1>1, <1>5, <1>8, Vanishes
<1> QED
    BY <1>7, <1>8

\* The steps of a worker after which there is nothing at more places.  A copy
\* that is delivered anew is of a member one of whose addresses was not found,
\* and a packet that comes again after a crash is repeated.
LEMMA WorkerOnce ==
    ASSUME Shape, MissedInv, NEW m \in Member, NEW a \in Address, OnlyPlace(m, a),
           NEW w \in Worker,
           Route(w) \/ Commit(w) \/ TakeStateChanged(w) \/ HandlerThrows(w)
    PROVE  OnlyPlace(m, a)'
<1>1. CASE Route(w) \/ Commit(w)
    BY <1>1, Vanishes DEF Route, Commit, Place, environment, history, consumers
<1>2. CASE TakeStateChanged(w)
  <2>1. PICK p \in incoming :
          /\ p.type = "MESSAGE_STATE_CHANGED"
          /\ incoming' = incoming \ {p}
          /\ IF p.state = "ADDRESS_NOT_FOUND" THEN copy' = [copy EXCEPT ![w] = {p.msg}]
             ELSE UNCHANGED copy
    BY <1>2 DEF TakeStateChanged
  <2>2. UNCHANGED <<owner, receipts, missed, repeated, outgoing, left, connectorGroupedUsers,
                    buffer, pairs, writes>>
    BY <1>2 DEF TakeStateChanged, environment, history, consumers
  <2>3. CASE p.state = "ADDRESS_NOT_FOUND"
    <3>1. p.msg.to \in missed
      BY <2>1, <2>3 DEF MissedInv, NotFound
    <3>2. m # p.msg.to => \A v \in Worker : \A x \in copy'[v] : x.to = m => x \in copy[v]
      BY <2>1, <2>3 DEF Shape, Types, WorkerTypes
    <3>3. m # p.msg.to => \A x : Place(x, m, a)' => Place(x, m, a)
      BY <2>1, <2>2, <3>2 DEF Place
    <3> QED
      BY <2>2, <3>1, <3>3, Vanishes
  <2>4. CASE p.state # "ADDRESS_NOT_FOUND"
    <3>1. \A x : Place(x, m, a)' => Place(x, m, a)
      BY <2>1, <2>2, <2>4 DEF Place
    <3> QED
      BY <2>2, <3>1, Vanishes
  <2> QED
    BY <2>3, <2>4
<1>3. CASE HandlerThrows(w)
  <2>1. UNCHANGED <<owner, receipts, missed, repeated, incoming, outgoing, buffer, pairs, writes>>
    BY <1>3 DEF HandlerThrows, environment, consumers
  <2>2. \A v \in Worker : /\ left'[v] \subseteq left[v] /\ copy'[v] \subseteq copy[v]
                          /\ connectorGroupedUsers'[v] \subseteq connectorGroupedUsers[v]
    BY <1>3 DEF HandlerThrows, Empty, Shape, Types, WorkerTypes
  <2>3. \A x : Place(x, m, a)' => Place(x, m, a)
    BY <2>1, <2>2 DEF Place
  <2> QED
    BY <2>1, <2>3, Vanishes
<1> QED
    BY <1>1, <1>2, <1>3

LEMMA WorkerCrashOnce ==
    ASSUME Shape, NEW m \in Member, NEW a \in Address, OnlyPlace(m, a),
           NEW w \in Worker, WorkerCrash(w)
    PROVE  OnlyPlace(m, a)'
<1>1. UNCHANGED <<owner, receipts, missed, outgoing, pairs, writes>>
    BY DEF WorkerCrash, environment, consumers
<1>2. /\ incoming' = incoming \cup job[w] \cup handled[w]
      /\ repeated' = repeated \cup ReceiversOf(job[w] \cup handled[w])
      /\ buffer' \subseteq buffer
    BY DEF WorkerCrash
<1>3. \A v \in Worker : /\ left'[v] \subseteq left[v] /\ copy'[v] \subseteq copy[v]
                        /\ connectorGroupedUsers'[v] \subseteq connectorGroupedUsers[v]
    BY DEF WorkerCrash, Empty, Shape, Types, WorkerTypes
<1>4. Group \in job[w] \cup handled[w] => m \in repeated'
    BY <1>2, Groups DEF ReceiversOf
<1>5. m \notin repeated' => \A x : Place(x, m, a)' => Place(x, m, a)
    BY <1>1, <1>2, <1>3, <1>4 DEF Place
<1> QED
    BY <1>1, <1>2, <1>5, Vanishes

LEMMA ProducerOnce ==
    ASSUME Shape, NEW m \in Member, NEW a \in Address, OnlyPlace(m, a),
           NEW e \in buffer, Delivered(e) \/ DeliveryFailed(e)
    PROVE  OnlyPlace(m, a)'
<1>1. /\ UNCHANGED <<owner, receipts, missed, repeated, incoming, left, connectorGroupedUsers,
                     copy, pairs, writes>>
      /\ buffer' = buffer \ {e}
      /\ outgoing' = outgoing \cup {e[2]} \/ outgoing' = outgoing
    BY DEF Delivered, DeliveryFailed, environment, history, consumers, workers
<1> DEFINE t == <<"outgoing", e[2]>>
<1>2. \A x : Place(x, m, a)' => Place(x, m, a) \/ (Brings(e[2], m, a) /\ x = t)
    BY <1>1 DEF Place
<1>3. Brings(e[2], m, a) => Place(<<"buffer", e>>, m, a)
    BY DEF Place
<1>4. ~Place(<<"buffer", e>>, m, a)'
    BY <1>1 DEF Place
<1> HIDE DEF t
<1>5. CASE Brings(e[2], m, a)
    BY <1>1, <1>2, <1>3, <1>4, <1>5, Moves
<1>6. CASE ~Brings(e[2], m, a)
    BY <1>1, <1>2, <1>6, Vanishes
<1> QED
    BY <1>5, <1>6

\* A packet has at most one copy for the member and the socket.
LEMMA TakePacketOnce ==
    ASSUME Shape, NEW m \in Member, NEW a \in Address, OnlyPlace(m, a),
           NEW c \in Connector, TakePacket(c)
    PROVE  OnlyPlace(m, a)'
<1>1. PICK p \in outgoing :
        /\ outgoing' = outgoing \ {p}
        /\ pairs' = [pairs EXCEPT ![c] =
              IF p.type = "DELIVER" THEN {<<p.msg, p.addr>>} ELSE CopiesOf(p)]
    BY DEF TakePacket
<1>2. UNCHANGED <<owner, receipts, missed, repeated, incoming, left, connectorGroupedUsers, copy,
                  buffer, writes>>
    BY DEF TakePacket, environment, history, workers
<1> DEFINE E == IF p.type = "DELIVER" THEN {<<p.msg, p.addr>>} ELSE CopiesOf(p)
           d == IF p.type = "DELIVER" THEN <<p.msg, p.addr>> ELSE <<Copy(m, a, TRUE), a>>
           t == <<"pairs", d>>
<1>3. \A e \in E : e[1].to = m /\ e[2] = a => Brings(p, m, a) /\ e = d
  <2>1. CASE p.type = "DELIVER"
    BY <2>1 DEF Brings
  <2>2. CASE p.type # "DELIVER"
    <3> SUFFICES ASSUME NEW e \in CopiesOf(p), e[1].to = m, e[2] = a
                 PROVE  <<m, a>> \in p.pairs /\ e = <<Copy(m, a, TRUE), a>>
      BY <2>2 DEF Brings
    <3>1. PICK f \in p.pairs : e = <<Copy(f[1], f[2], TRUE), f[2]>>
      BY DEF CopiesOf
    <3>2. f[1] = m /\ f[2] = a
      BY <3>1 DEF Copy
    <3>3. f = <<f[1], f[2]>>
      BY <2>2, OutgoingFields DEF Shape, Types, TopicTypes
    <3> QED
      BY <3>1, <3>2, <3>3
  <2> QED
    BY <2>1, <2>2
<1>4. \A b \in Connector : \A e \in pairs'[b] : e \in pairs[b] \/ e \in E
    BY <1>1 DEF Shape, Types, ConnectorTypes
<1> HIDE DEF E, d
<1>5. \A x : Place(x, m, a)' => Place(x, m, a) \/ (Brings(p, m, a) /\ x = t)
    BY <1>1, <1>2, <1>3, <1>4 DEF Place
<1>6. Brings(p, m, a) => Place(<<"outgoing", p>>, m, a)
    BY DEF Place
<1>7. ~Place(<<"outgoing", p>>, m, a)'
    BY <1>1 DEF Place
<1> HIDE DEF t
<1>8. CASE Brings(p, m, a)
    BY <1>2, <1>5, <1>6, <1>7, <1>8, Moves
<1>9. CASE ~Brings(p, m, a)
    BY <1>2, <1>5, <1>9, Vanishes
<1> QED
    BY <1>8, <1>9

LEMMA ProcessPairOnce ==
    ASSUME Shape, NEW m \in Member, NEW a \in Address, OnlyPlace(m, a),
           NEW c \in Connector, ProcessPair(c)
    PROVE  OnlyPlace(m, a)'
<1>1. PICK e \in pairs[c] :
        /\ pairs' = [pairs EXCEPT ![c] = @ \ {e}]
        /\ \/ writes' = writes \cup {e} /\ UNCHANGED <<incoming, missed>>
           \/ /\ DeliverStateChanged({StateChanged(e[1], e[2], "ADDRESS_NOT_FOUND")})
              /\ missed' = missed \cup {e[1].to}
              /\ UNCHANGED writes
    BY DEF ProcessPair
<1>2. UNCHANGED <<owner, receipts, repeated, left, connectorGroupedUsers, copy, buffer, outgoing>>
    BY DEF ProcessPair, environment, workers
<1>3. Group \in incoming' => Group \in incoming
    BY <1>1 DEF DeliverStateChanged, StateChanged, Group
<1> DEFINE t == <<"writes", e>>
           here == e[1].to = m /\ e[2] = a
<1>4. \A b \in Connector : pairs'[b] \subseteq pairs[b]
    BY <1>1 DEF Shape, Types, ConnectorTypes
<1>5. \A x : Place(x, m, a)' => Place(x, m, a) \/ (here /\ x = t)
    BY <1>1, <1>2, <1>3, <1>4 DEF Place
<1>6. here => Place(<<"pairs", e>>, m, a)
    BY DEF Place
<1>7. ~Place(<<"pairs", e>>, m, a)'
  <2>1. \A b \in Connector : e \notin pairs'[b]
    BY <1>1 DEF Shape, Types, ConnectorTypes, ConnectorInv, ConnectorOK
  <2> QED
    BY <2>1 DEF Place
<1>8. missed \subseteq missed'
    BY <1>1
<1> HIDE DEF t, here
<1>9. CASE here
    BY <1>2, <1>5, <1>6, <1>7, <1>8, <1>9, Moves
<1>10. CASE ~here
    BY <1>2, <1>5, <1>8, <1>10, Vanishes
<1> QED
    BY <1>9, <1>10

LEMMA ConnectorEndsOnce ==
    ASSUME Shape, NEW m \in Member, NEW a \in Address, OnlyPlace(m, a),
           NEW c \in Connector, ProcessPairThrows(c) \/ CommitPacket(c)
    PROVE  OnlyPlace(m, a)'
<1>1. UNCHANGED <<owner, receipts, missed, repeated, incoming, outgoing, left,
                  connectorGroupedUsers, copy, buffer, writes>>
    BY DEF ProcessPairThrows, CommitPacket, environment, workers, history
<1>2. \A b \in Connector : pairs'[b] \subseteq pairs[b]
    BY DEF ProcessPairThrows, CommitPacket, Shape, Types, ConnectorTypes
<1>3. \A x : Place(x, m, a)' => Place(x, m, a)
    BY <1>1, <1>2 DEF Place
<1> QED
    BY <1>1, <1>3, Vanishes

LEMMA ConnectorCrashOnce ==
    ASSUME Shape, NEW m \in Member, NEW a \in Address, OnlyPlace(m, a),
           NEW c \in Connector, ConnectorCrash(c)
    PROVE  OnlyPlace(m, a)'
<1>1. UNCHANGED <<owner, receipts, missed, incoming, left, connectorGroupedUsers, copy, buffer>>
    BY DEF ConnectorCrash, workers
<1>2. /\ writes' \subseteq writes
      /\ outgoing' = outgoing \cup task[c] \cup consumed[c]
      /\ repeated' = repeated \cup ReceiversOf(task[c] \cup consumed[c])
    BY DEF ConnectorCrash
<1>3. \A b \in Connector : pairs'[b] \subseteq pairs[b]
    BY DEF ConnectorCrash, Shape, Types, ConnectorTypes
<1>4. \A p \in task[c] \cup consumed[c] : Brings(p, m, a) => m \in repeated'
  <2>1. \A p \in task[c] \cup consumed[c] : Brings(p, m, a) => m \in Receivers(p)
    BY Brought DEF Shape, Types, ConnectorTypes
  <2> QED
    BY <1>2, <2>1 DEF ReceiversOf
<1>5. m \notin repeated' => \A x : Place(x, m, a)' => Place(x, m, a)
    BY <1>1, <1>2, <1>3, <1>4 DEF Place
<1> QED
    BY <1>1, <1>2, <1>5, Vanishes

\* A write that reaches a socket is the only one, and nothing was received there.
LEMMA WriteEndsOnce ==
    ASSUME Shape, NEW m \in Member, NEW a \in Address, OnlyPlace(m, a),
           NEW e \in writes, WriteEnds(e[1], e[2])
    PROVE  OnlyPlace(m, a)'
<1>1. /\ UNCHANGED <<owner, missed, repeated, outgoing, left, connectorGroupedUsers, copy, buffer,
                     pairs>>
      /\ writes' = writes \ {<<e[1], e[2]>>}
      /\ DeliverStateChanged(StateReport(e[1], e[2], e[2] \in open))
      /\ receipts' = IF e[2] \in open /\ receipts[e[2]] < 2
                     THEN [receipts EXCEPT ![e[2]] = @ + 1] ELSE receipts
    BY DEF WriteEnds, environment, workers, consumers
<1>2. /\ e[1] \in Plain /\ e[2] \in Address /\ owner[e[2]] = e[1].to
      /\ e = <<e[1], e[2]>>
      /\ receipts \in [Address -> 0..2]
    BY DEF Shape, Types, SocketTypes, OwnerInv
<1>3. Group \in incoming' => Group \in incoming
    BY <1>1 DEF DeliverStateChanged, StateReport, StateChanged, Group
<1> DEFINE t == <<"received", a>>
<1>4. CASE owner[a] = m /\ e[2] = a
  <2>1. \A x : Place(x, m, a)' => Place(x, m, a) \/ x = t
    BY <1>1, <1>3 DEF Place
  <2>2. Place(<<"writes", e>>, m, a)
    BY <1>2, <1>4 DEF Place
  <2>3. ~Place(<<"writes", e>>, m, a)'
    BY <1>1, <1>2 DEF Place
  <2>4. m \notin missed \cup repeated => receipts[a] = 0
    <3>1. receipts[a] > 0 => Place(t, m, a)
      BY <1>4 DEF Place
    <3>2. t # <<"writes", e>>
      OBVIOUS
    <3>3. receipts[a] \in 0..2
      BY <1>2
    <3> HIDE DEF t
    <3>4. m \notin missed \cup repeated => ~Place(t, m, a)
      BY <2>2, <3>2 DEF OnlyPlace
    <3> QED
      BY <3>1, <3>3, <3>4
  <2>5. m \notin missed \cup repeated => receipts'[a] < 2
    BY <1>1, <1>2, <1>4, <2>4
  <2> HIDE DEF t
  <2>6. m \notin missed \cup repeated =>
            \A x, y : Place(x, m, a)' /\ Place(y, m, a)' => x = y
    BY <2>1, <2>2, <2>3 DEF OnlyPlace
  <2> QED
    BY <1>1, <2>5, <2>6 DEF OnlyPlace
<1>5. CASE ~(owner[a] = m /\ e[2] = a)
  <2>1. owner[a] = m => receipts'[a] = receipts[a]
    BY <1>1, <1>2, <1>5
  <2>2. \A x : Place(x, m, a)' => Place(x, m, a)
    BY <1>1, <1>3, <2>1 DEF Place
  <2> QED
    BY <1>1, <2>1, <2>2 DEF OnlyPlace
<1> QED
    BY <1>4, <1>5

-----------------------------------------------------------------------------
\* A report of an address that was not found is made with its member in missed.
LEMMA MissedStep == Shape /\ MissedInv /\ [Next]_vars => MissedInv'
<1> SUFFICES ASSUME Shape, MissedInv, [Next]_vars PROVE MissedInv'
    OBVIOUS
<1> DEFINE Kept == /\ missed \subseteq missed'
                   /\ \A p \in incoming' : p \in incoming \/ (NotFound(p) => p.msg.to \in missed')
                   /\ \A w \in Worker : job'[w] \cup handled'[w] \subseteq job[w] \cup handled[w]
<1>0. Kept => MissedInv'
    BY DEF MissedInv
<1>1. CASE \E a \in Address : Disconnects(a) \/ \E m \in Member : Connects(a, m)
    BY <1>0, <1>1 DEF Disconnects, Connects, workers, history
<1>2. CASE \E n \in news : ProcessNews(n)
    BY <1>0, <1>2 DEF ProcessNews, workers, history
<1>3. ASSUME NEW w \in Worker, TakeGroup(w) \/ TakeStateChanged(w) \/ WorkerCrash(w)
      PROVE  MissedInv'
  <2>1. /\ missed' = missed
        /\ incoming' \subseteq incoming \cup job[w] \cup handled[w]
        /\ \A v \in Worker : job'[v] \cup handled'[v] \subseteq job[v] \cup handled[v] \cup incoming
    BY <1>3 DEF TakeGroup, TakeStateChanged, WorkerCrash, history, Shape, Types, WorkerTypes
  <2> QED
    BY <2>1 DEF MissedInv
<1>4. ASSUME NEW w \in Worker,
             \/ LookUp(w) \/ Route(w) \/ Send(w) \/ SendToConnector(w) \/ Commit(w)
             \/ HandlerThrows(w)
      PROVE  MissedInv'
  <2>1. missed' = missed /\ incoming' = incoming
    BY <1>4 DEF LookUp, Route, Send, SendToConnector, Commit, HandlerThrows, history
  <2>2. CASE Commit(w)
    <3>1. PICK D \in BatchAfter(handled[w], job[w]) : handled' = [handled EXCEPT ![w] = D]
      BY <2>2 DEF Commit
    <3>2. D \subseteq handled[w] \cup job[w] /\ job' = [job EXCEPT ![w] = {}]
      BY <2>2, <3>1, BatchGrows DEF Commit
    <3>3. job \in [Worker -> SUBSET IncomingPacket] /\ handled \in [Worker -> SUBSET IncomingPacket]
      BY DEF Shape, Types, WorkerTypes
    <3>4. \A v \in Worker : job'[v] \cup handled'[v] \subseteq job[v] \cup handled[v]
      BY <3>1, <3>2, <3>3
    <3> QED
      BY <1>0, <2>1, <3>4
  <2>3. CASE ~Commit(w)
    <3>1. UNCHANGED <<job, handled>>
      BY <1>4, <2>3 DEF LookUp, Route, Send, SendToConnector, HandlerThrows
    <3> QED
      BY <1>0, <2>1, <3>1
  <2> QED
    BY <2>2, <2>3
<1>5. CASE \E e \in buffer : Delivered(e) \/ DeliveryFailed(e)
    BY <1>0, <1>5 DEF Delivered, DeliveryFailed, workers, history
<1>6. ASSUME NEW c \in Connector, ProcessPair(c)
      PROVE  MissedInv'
  <2>1. PICK e \in pairs[c] :
          \/ UNCHANGED <<incoming, missed>>
          \/ /\ DeliverStateChanged({StateChanged(e[1], e[2], "ADDRESS_NOT_FOUND")})
             /\ missed' = missed \cup {e[1].to}
    BY <1>6 DEF ProcessPair
  <2>2. UNCHANGED <<job, handled>>
    BY <1>6 DEF ProcessPair, workers
  <2>3. \A p \in incoming' :
            p \in incoming \/ p.msg.to \in missed'
    BY <2>1 DEF DeliverStateChanged, StateChanged
  <2> QED
    BY <1>0, <2>1, <2>2, <2>3
<1>7. ASSUME NEW c \in Connector,
             TakePacket(c) \/ CommitPacket(c) \/ ProcessPairThrows(c) \/ ConnectorCrash(c)
      PROVE  MissedInv'
    BY <1>0, <1>7 DEF TakePacket, CommitPacket, ProcessPairThrows, ConnectorCrash, workers, history
<1>8. ASSUME NEW e \in writes, WriteEnds(e[1], e[2])
      PROVE  MissedInv'
  <2>1. UNCHANGED <<job, handled, missed>>
    BY <1>8 DEF WriteEnds, workers
  <2>2. \A p \in StateReport(e[1], e[2], e[2] \in open) : ~NotFound(p)
    BY DEF StateReport, StateChanged, NotFound
  <2>3. \A p \in incoming' : p \in incoming \/ ~NotFound(p)
    BY <1>8, <2>2 DEF WriteEnds, DeliverStateChanged
  <2> QED
    BY <1>0, <2>1, <2>3
<1>9. CASE UNCHANGED vars
    BY <1>0, <1>9 DEF vars, workers, history
<1> QED
    BY <1>1, <1>2, <1>3, <1>4, <1>5, <1>6, <1>7, <1>8, <1>9 DEF Next, Handler, Consumer

LEMMA InitPlace == Init => PlaceInv
<1> SUFFICES ASSUME Init PROVE PlaceInv
    OBVIOUS
<1>1. MissedInv
    BY DEF Init, MissedInv, NotFound, Group
<1>2. \A m \in Member, a \in Address : \A x : Place(x, m, a) => x = <<"incoming", Group>>
    BY DEF Init, Place
<1>3. \A a \in Address : receipts[a] = 0
    BY DEF Init
<1> QED
    BY <1>1, <1>2, <1>3 DEF PlaceInv, OnlyPlace

\* Only sockets that have been opened receive.
LEMMA FreshStep ==
    ASSUME Shape, [Next]_vars, \A a \in Address : owner[a] = NoUser => receipts[a] = 0
    PROVE  \A a \in Address : owner'[a] = NoUser => receipts'[a] = 0
<1>1. CASE \E e \in writes : WriteEnds(e[1], e[2])
  <2> PICK e \in writes : WriteEnds(e[1], e[2])
    BY <1>1
  <2>1. e[1].to \in Member /\ owner[e[2]] = e[1].to /\ owner' = owner
    BY PlainTo DEF WriteEnds, environment, Shape, Types, SocketTypes, OwnerInv
  <2>2. \A a \in Address : a # e[2] => receipts'[a] = receipts[a]
    BY DEF WriteEnds, Shape, Types, SocketTypes
  <2> QED
    BY <2>1, <2>2
<1>2. CASE \E a \in Address, m \in Member : Connects(a, m)
    BY <1>2 DEF Connects, history, Shape, Types, SocketTypes
<1>3. CASE UNCHANGED <<owner, receipts>>
    BY <1>3
<1>4. ASSUME NEW w \in Worker, Handler(w) \/ HandlerThrows(w) \/ WorkerCrash(w)
      PROVE  UNCHANGED <<owner, receipts>>
    BY <1>4 DEF Handler, TakeGroup, LookUp, Route, Send, SendToConnector, Commit,
       TakeStateChanged, HandlerThrows, WorkerCrash, environment, history
<1>5. ASSUME NEW c \in Connector, Consumer(c) \/ ProcessPairThrows(c) \/ ConnectorCrash(c)
      PROVE  UNCHANGED <<owner, receipts>>
    BY <1>5 DEF Consumer, TakePacket, ProcessPair, CommitPacket, ProcessPairThrows,
       ConnectorCrash, environment, history
<1>6. ASSUME \/ \E a \in Address : Disconnects(a)
             \/ \E n \in news : ProcessNews(n)
             \/ \E e \in buffer : Delivered(e) \/ DeliveryFailed(e)
             \/ UNCHANGED vars
      PROVE  UNCHANGED <<owner, receipts>>
    BY <1>6 DEF Disconnects, ProcessNews, Delivered, DeliveryFailed, vars, environment, history
<1> QED
    BY <1>1, <1>2, <1>3, <1>4, <1>5, <1>6 DEF Next

LEMMA OnlyPlaceStep ==
    ASSUME Shape, PlaceInv, [Next]_vars, NEW m \in Member, NEW a \in Address
    PROVE  OnlyPlace(m, a)'
<1>0. OnlyPlace(m, a) /\ MissedInv
    BY DEF PlaceInv
<1>1. CASE \E b \in Address : Disconnects(b) \/ \E u \in Member : Connects(b, u)
    BY <1>1, SocketsOnce
<1>2. CASE \E n \in news : ProcessNews(n)
    BY <1>2, SocketsOnce
<1>3. ASSUME NEW w \in Worker, Handler(w) \/ HandlerThrows(w) \/ WorkerCrash(w)
      PROVE  OnlyPlace(m, a)'
    BY <1>0, <1>3, TakeGroupOnce, LookUpOnce, SendOnce, SendToConnectorOnce, WorkerOnce,
       WorkerCrashOnce DEF Handler
<1>4. CASE \E e \in buffer : Delivered(e) \/ DeliveryFailed(e)
    BY <1>0, <1>4, ProducerOnce
<1>5. ASSUME NEW c \in Connector, Consumer(c) \/ ProcessPairThrows(c) \/ ConnectorCrash(c)
      PROVE  OnlyPlace(m, a)'
    BY <1>0, <1>5, TakePacketOnce, ProcessPairOnce, ConnectorEndsOnce, ConnectorCrashOnce
       DEF Consumer
<1>6. CASE \E e \in writes : WriteEnds(e[1], e[2])
    BY <1>0, <1>6, WriteEndsOnce
<1>7. CASE UNCHANGED vars
    BY <1>0, <1>7 DEF vars, environment, workers, consumers, history, OnlyPlace, Place
<1> QED
    BY <1>1, <1>2, <1>3, <1>4, <1>5, <1>6, <1>7 DEF Next

LEMMA PlaceStep == Shape /\ PlaceInv /\ [Next]_vars => PlaceInv'
BY MissedStep, FreshStep, OnlyPlaceStep DEF PlaceInv

-----------------------------------------------------------------------------
LEMMA ShapeStep == Shape /\ [Next]_vars => Shape'
<1> SUFFICES ASSUME Shape, [Next]_vars PROVE Shape'
    OBVIOUS
<1>1. CASE \E a \in Address : Disconnects(a) \/ \E m \in Member : Connects(a, m)
    BY <1>1, ConnectsShape, NewsShape
<1>2. CASE \E n \in news : ProcessNews(n)
    BY <1>2, NewsShape
<1>3. ASSUME NEW w \in Worker, Handler(w) \/ HandlerThrows(w) \/ WorkerCrash(w)
      PROVE  Shape'
    BY <1>3, TakeGroupShape, LookUpShape, RouteShape, SendShape, SendToConnectorShape,
       CommitShape, TakeStateChangedShape, HandlerThrowsShape, WorkerCrashShape DEF Handler
<1>4. CASE \E e \in buffer : Delivered(e) \/ DeliveryFailed(e)
    BY <1>4, ProducerShape
<1>5. ASSUME NEW c \in Connector, Consumer(c) \/ ProcessPairThrows(c) \/ ConnectorCrash(c)
      PROVE  Shape'
    BY <1>5, TakePacketShape, ProcessPairShape, ConnectorEndsShape DEF Consumer
<1>6. CASE \E e \in writes : WriteEnds(e[1], e[2])
    BY <1>6, WriteEndsShape
<1>7. CASE UNCHANGED vars
  <2>1. Types' /\ OwnerInv'
    BY <1>7 DEF vars, environment, workers, consumers, history, Shape, Types, SocketTypes,
       TopicTypes, WorkerTypes, ConnectorTypes, OwnerInv
  <2>2. WorkerInv' /\ ConnectorInv'
    BY <1>7, WorkerFrame, ConnectorFrame DEF vars, environment, Shape
  <2> QED
    BY <2>1, <2>2 DEF Shape
<1> QED
    BY <1>1, <1>2, <1>3, <1>4, <1>5, <1>6, <1>7 DEF Next

LEMMA AccountStep == Shape /\ MemberAccounted /\ [Next]_vars => MemberAccounted'
<1> SUFFICES ASSUME Shape, MemberAccounted, [Next]_vars, NEW k \in Member
             PROVE  Accounted(k)'
  <2>1. (\A k \in Member : Accounted(k)') => MemberAccounted'
    BY DEF MemberAccounted, Accounted, InTopics, InBuffer, AtWorker, AtConnector, InWrites
  <2> QED
    BY <2>1
<1>0. Accounted(k)
    BY AccountedMeans
<1>1. CASE \E a \in Address : Disconnects(a) \/ \E m \in Member : Connects(a, m)
    BY <1>0, <1>1, SocketsAccount
<1>2. CASE \E n \in news : ProcessNews(n)
    BY <1>0, <1>2, SocketsAccount
<1>3. ASSUME NEW w \in Worker, Handler(w) \/ HandlerThrows(w) \/ WorkerCrash(w)
      PROVE  Accounted(k)'
    BY <1>0, <1>3, TakeGroupAccounts, LookUpAccounts, RouteAccounts, SendAccounts,
       SendToConnectorAccounts, CommitAccounts, TakeStateChangedAccounts,
       HandlerThrowsAccounts, WorkerCrashAccounts DEF Handler
<1>4. CASE \E e \in buffer : Delivered(e) \/ DeliveryFailed(e)
    BY <1>0, <1>4, ProducerAccounts
<1>5. ASSUME NEW c \in Connector, Consumer(c) \/ ProcessPairThrows(c) \/ ConnectorCrash(c)
      PROVE  Accounted(k)'
    BY <1>0, <1>5, TakePacketAccounts, ProcessPairAccounts, ConnectorEndsAccounts,
       ConnectorCrashAccounts DEF Consumer
<1>6. CASE \E e \in writes : WriteEnds(e[1], e[2])
    BY <1>0, <1>6, WriteEndsAccounts
<1>7. CASE UNCHANGED vars
    BY <1>0, <1>7 DEF vars, environment, workers, consumers, history, Accounted, AtRest,
       Received, InTopics, InBuffer, AtWorker, Unfinished, AtConnector, InWrites
<1> QED
    BY <1>1, <1>2, <1>3, <1>4, <1>5, <1>6, <1>7 DEF Next

\* The strengthening that the theorems below are parts of.
THEOREM GroupInvariant == Spec => [](Shape /\ MemberAccounted /\ PlaceInv)
<1>1. Init => Shape /\ MemberAccounted /\ PlaceInv
    BY InitShape, InitPlace
<1>2. Shape /\ MemberAccounted /\ PlaceInv /\ [Next]_vars
          => (Shape /\ MemberAccounted /\ PlaceInv)'
    BY ShapeStep, AccountStep, PlaceStep
<1> QED
    BY <1>1, <1>2, PTL DEF Spec

\* Every variable stays in its range, and what a worker or a connector has in
\* its hands belongs to the packet it handles.
THEOREM GroupTypes == Spec => []TypeOK
<1>1. Shape => TypeOK
    BY DEF Shape, Types, SocketTypes, WorkerTypes, OwnerInv, WorkerInv, WorkerOK,
       ConnectorInv, ConnectorOK, TypeOK, Plain
<1> QED
    BY <1>1, GroupInvariant, PTL

\* processCurrentDomain leaves out no member, whatever sockets do meanwhile and
\* whoever fails: its copy is received, stored, given up by a failure that
\* gives up copies, or in somebody's hands.
THEOREM MembersAreAccounted == Spec => []MemberAccounted
BY GroupInvariant, PTL

\* Where a packet for a member is on its way to a socket, there is no other for
\* the socket: it gets the message twice only after a crash or a report that an
\* address was not found.
THEOREM SocketsReceiveOnce == Spec => []OncePerSocket
<1>1. Shape /\ PlaceInv => OncePerSocket
  <2> SUFFICES ASSUME Shape, PlaceInv, NEW a \in Address, receipts[a] > 1
               PROVE  owner[a] \in missed \cup repeated
    BY DEF OncePerSocket
  <2>1. receipts[a] \in 0..2
    BY DEF Shape, Types, SocketTypes
  <2>2. owner[a] \in Member
    BY <2>1 DEF PlaceInv, Shape, Types, SocketTypes
  <2> QED
    BY <2>1, <2>2 DEF PlaceInv, OnlyPlace
<1> QED
    BY <1>1, GroupInvariant, PTL

\* No copy of a group message is reported as processed, as README.MD:196 says.
THEOREM CopiesAreNeverConfirmed == Spec => []NeverConfirmed
<1>1. Shape => NeverConfirmed
    BY ReportFields DEF Shape, Types, TopicTypes, NeverConfirmed
<1> QED
    BY <1>1, GroupInvariant, PTL
=============================================================================
