-------------------------- MODULE Connector_proofs --------------------------
(***************************************************************************)
(* What a step of a connector preserves, for any number of connectors,     *)
(* sockets, users and faults, and whatever well-formed packets the         *)
(* processors send.  The specifications that embed the connector take      *)
(* their theorems from these lemmas.                                       *)
(***************************************************************************)
EXTENDS Connector, TLAPS

Busy == {"admit", "authorize", "reject"}

\* The consumer thread has put the socket into users and is about to mark it.
Authorizing(u, a) ==
    /\ task[ConnectorOf(a)] = "authorize"
    /\ \E p \in packet[ConnectorOf(a)] : p.addr = a /\ p.user = u

\* A socket registered for u, or written to for u, belongs to u and is
\* authenticated or just being marked so.
BelongsTo(u, a) ==
    /\ userId[a] = u
    /\ \/ authStatus[a] = "AUTHENTICATED"
       \/ authStatus[a] = "AUTHENTICATING" /\ Authorizing(u, a)

PendingInv ==
    \A u \in User, a \in Address :
        <<u, a>> \in pending =>
            /\ userId[a] = u /\ authStatus[a] = "AUTHENTICATING"
            /\ channel[a] \in {"open", "closed"}
            /\ ~Replying(a)

UsersInv ==
    \A u \in User, a \in Address :
        <<u, a>> \in users =>
            BelongsTo(u, a) /\ (channel[a] = "removed" => a \in raced)

\* While a reply is processed its socket stays as the request left it, except
\* that it may be removed.
ReplyInv ==
    \A c \in Connector :
        /\ \A p, q \in packet[c] : p = q
        /\ task[c] \in Busy =>
              \A p \in packet[c] :
                  /\ p.type = "AUTH_CLIENT_REPLY" /\ ConnectorOf(p.addr) = c
                  /\ userId[p.addr] = p.user
                  /\ authStatus[p.addr] = "AUTHENTICATING"
                  /\ channel[p.addr] = "removed" => p.addr \in raced

WritesInv ==
    \A m \in Message, a \in Address : <<m, a>> \in writes => BelongsTo(m.to, a)

AuthInv ==
    \A a \in Address :
        authStatus[a] # "NOT_AUTHENTICATED" => userId[a] \in User

RegistryInv ==
    PendingInv /\ UsersInv /\ ReplyInv /\ WritesInv /\ AuthInv /\ NoMisdelivery

USE UserAssumption, PayloadAssumption, SocketAssumption

-----------------------------------------------------------------------------
LEMMA InitRegistry == ConnectorInit => RegistryInv
BY DEF ConnectorInit, RegistryInv, PendingInv, UsersInv, ReplyInv, WritesInv,
       AuthInv, NoMisdelivery, Busy

\* The packet a consumer holds is one of its topic.
LEMMA PacketAddress ==
    ASSUME ConnectorTypeOK, NEW c \in Connector, NEW p \in packet[c]
    PROVE  p \in OutgoingPacket /\ p.addr \in Address
<1>1. p \in OutgoingPacket
    BY DEF ConnectorTypeOK
<1> QED
    BY <1>1 DEF OutgoingPacket

\* A reply names a user and a verdict.
LEMMA ReplyFields ==
    ASSUME NEW p \in OutgoingPacket, p.type = "AUTH_CLIENT_REPLY"
    PROVE  p.user \in User /\ p.addr \in Address /\ p.ok \in BOOLEAN
BY DEF OutgoingPacket

\* A delivery names a message and an address.
LEMMA DeliveryFields ==
    ASSUME NEW p \in OutgoingPacket, p.type = "DELIVER"
    PROVE  p.msg \in Message /\ p.addr \in Address
BY DEF OutgoingPacket

\* Steps that leave the registries, the sockets' users and the replies in
\* progress alone, and at most open or close channels.
LEMMA RegistryFrame ==
    ASSUME ConnectorTypeOK, RegistryInv,
           UNCHANGED <<userId, authStatus, users, pending, raced>>,
           \A a \in Address : \/ channel'[a] = channel[a]
                              \/ channel'[a] \in {"open", "closed"},
           \A c \in Connector : \/ task'[c] = task[c] /\ packet'[c] = packet[c]
                                \/ task[c] \notin Busy /\ task'[c] \notin Busy,
           \A c \in Connector : \A p, q \in packet'[c] : p = q,
           \A m \in Message, a \in Address :
               <<m, a>> \in writes' => <<m, a>> \in writes \/ <<m.to, a>> \in users,
           \A m \in Message : m.to \in User,
           NoMisdelivery'
    PROVE  RegistryInv'
<1>0. \A a \in Address : ConnectorOf(a) \in Connector
    BY DEF Address, ConnectorOf
<1>1. \A a \in Address : Replying(a)' => Replying(a)
    BY <1>0 DEF Replying, Busy
<1>2. \A u, a : a \in Address /\ BelongsTo(u, a) => BelongsTo(u, a)'
    BY <1>0 DEF BelongsTo, Authorizing, Busy
<1>3. PendingInv'
    BY <1>1 DEF RegistryInv, PendingInv
<1>4. UsersInv'
    BY <1>2 DEF RegistryInv, UsersInv
<1>5. ReplyInv'
    <2> SUFFICES ASSUME NEW c \in Connector, task'[c] \in Busy, NEW p \in packet'[c]
        PROVE  /\ p.type = "AUTH_CLIENT_REPLY" /\ ConnectorOf(p.addr) = c
               /\ userId'[p.addr] = p.user
               /\ authStatus'[p.addr] = "AUTHENTICATING"
               /\ channel'[p.addr] = "removed" => p.addr \in raced'
        BY DEF ReplyInv
    <2>1. task[c] \in Busy /\ p \in packet[c]
        OBVIOUS
    <2>2. p.addr \in Address
        BY <2>1, PacketAddress
    <2> QED
        BY <2>1, <2>2 DEF RegistryInv, ReplyInv
<1>6. WritesInv'
    BY <1>2 DEF RegistryInv, WritesInv, UsersInv
<1>7. AuthInv'
    BY DEF RegistryInv, AuthInv
<1> QED
    BY <1>3, <1>4, <1>5, <1>6, <1>7 DEF RegistryInv

-----------------------------------------------------------------------------
\* The steps of one connector, action by action.
LEMMA MessageTo == ASSUME NEW m \in Message PROVE m.to \in User
BY DEF Message, AppMessages, AppMessage, Confirmation, Notice, FetchComplete,
       CloseConnection, Msg

\* The steps that RegistryFrame covers.
LEMMA PlainSteps ==
    ASSUME ConnectorTypeOK, RegistryInv,
           \/ \E c \in Connector :
                 \/ InitChannel(c) \/ TakeDelivery(c) \/ TakeCloseConnection(c)
                 \/ TakeThrows(c) \/ CommitPacket(c) \/ ProcessFast(c)
           \/ \E a \in Address :
                 \/ AuthTimeout(a) \/ CloseRejected(a) \/ ProcessDefault(a)
                 \/ PeerCloses(a)
           \/ \E e \in writes : WriteFails(e[1], e[2])
    PROVE  RegistryInv'
<1> USE DEF sockets, registry, consumer, requests, topics
<1>1. UNCHANGED <<userId, authStatus, users, pending, raced, written>>
    BY DEF InitChannel, TakeDelivery, TakeCloseConnection, TakeThrows, CommitPacket,
       ProcessFast, AuthTimeout, CloseRejected, ProcessDefault, PeerCloses, WriteFails
<1>2. \A a \in Address : channel'[a] = channel[a] \/ channel'[a] \in {"open", "closed"}
    <2>1. ASSUME NEW c \in Connector, InitChannel(c)
          PROVE  \E b : channel' = [channel EXCEPT ![b] = "open"]
        BY <2>1 DEF InitChannel
    <2>2. ASSUME NEW c \in Connector, TakeCloseConnection(c)
          PROVE  UNCHANGED channel \/ \E b : channel' = [channel EXCEPT ![b] = "closed"]
        BY <2>2 DEF TakeCloseConnection, ProcessClose
    <2>3. ASSUME NEW a \in Address, AuthTimeout(a) \/ CloseRejected(a) \/ PeerCloses(a)
          PROVE  UNCHANGED channel \/ channel' = [channel EXCEPT ![a] = "closed"]
        BY <2>3 DEF AuthTimeout, CloseRejected, PeerCloses
    <2>4. ASSUME \/ \E c \in Connector :
                       TakeDelivery(c) \/ TakeThrows(c) \/ CommitPacket(c) \/ ProcessFast(c)
                 \/ \E a \in Address : ProcessDefault(a)
                 \/ \E e \in writes : WriteFails(e[1], e[2])
          PROVE  UNCHANGED channel
        BY <2>4 DEF TakeDelivery, TakeThrows, CommitPacket, ProcessFast, ProcessDefault,
           WriteFails
    <2>5. \/ UNCHANGED channel
          \/ \E b : \E s \in {"open", "closed"} : channel' = [channel EXCEPT ![b] = s]
        BY <2>1, <2>2, <2>3, <2>4
    <2> QED
        BY <2>5 DEF ConnectorTypeOK
<1> DEFINE Tasks ==
        /\ \A c \in Connector : \/ task'[c] = task[c] /\ packet'[c] = packet[c]
                                \/ task[c] \notin Busy /\ task'[c] \notin Busy
        /\ \A c \in Connector : \A p, q \in packet'[c] : p = q
<1>3. Tasks
    <2>1. CASE UNCHANGED <<task, packet>>
        BY <2>1 DEF RegistryInv, ReplyInv
    <2>2. ASSUME NEW c \in Connector,
                 \/ TakeDelivery(c) \/ TakeCloseConnection(c) \/ TakeThrows(c)
          PROVE  Tasks
        <3>1. PICK p : Take(c, p) /\ task' = [task EXCEPT ![c] = "commit"]
            BY <2>2 DEF TakeDelivery, TakeCloseConnection, TakeThrows
        <3>2. /\ task[c] \notin Busy /\ "commit" \notin Busy
              /\ \A q, r \in {p} : q = r
              /\ packet' = [packet EXCEPT ![c] = {p}]
            BY <3>1 DEF Take, Busy
        <3> QED
            BY <3>1, <3>2 DEF ConnectorTypeOK, RegistryInv, ReplyInv
    <2>3. ASSUME NEW c \in Connector, CommitPacket(c)
          PROVE  Tasks
        <3>1. /\ task[c] \notin Busy /\ "idle" \notin Busy
              /\ \A q, r \in {} : q = r
              /\ packet' = [packet EXCEPT ![c] = {}]
              /\ task' = [task EXCEPT ![c] = "idle"]
            BY <2>3 DEF CommitPacket, Busy
        <3> QED
            BY <3>1 DEF ConnectorTypeOK, RegistryInv, ReplyInv
    <2>4. \/ UNCHANGED <<task, packet>>
          \/ \E c \in Connector :
                TakeDelivery(c) \/ TakeCloseConnection(c) \/ TakeThrows(c)
          \/ \E c \in Connector : CommitPacket(c)
        BY DEF InitChannel, ProcessFast, AuthTimeout, CloseRejected, ProcessDefault,
           PeerCloses, WriteFails
    <2> HIDE DEF Tasks
    <2> QED
        BY <2>1, <2>2, <2>3, <2>4
<1>4. ASSUME NEW m \in Message, NEW a \in Address, <<m, a>> \in writes'
      PROVE  <<m, a>> \in writes \/ <<m.to, a>> \in users
    <2>1. CASE \E n, b : ProcessDelivery(n, b)
        BY <1>4, <2>1 DEF ProcessDelivery, IsConnected
    <2>2. CASE writes' \subseteq writes
        BY <1>4, <2>2
    <2>3. ASSUME NEW c \in Connector, TakeDelivery(c) \/ ProcessFast(c)
          PROVE  \E n, b : ProcessDelivery(n, b)
        BY <2>3 DEF TakeDelivery, ProcessFast
    <2> QED
        BY <2>1, <2>2, <2>3 DEF InitChannel, TakeCloseConnection, TakeThrows,
           CommitPacket, AuthTimeout, CloseRejected, ProcessDefault, PeerCloses,
           WriteFails
<1>5. NoMisdelivery'
    BY <1>1 DEF RegistryInv, NoMisdelivery
<1> QED
    BY <1>1, <1>2, <1>3, <1>4, <1>5, MessageTo, RegistryFrame

\* A request for a socket nobody else knows yet.
LEMMA ProcessAuthClientStep ==
    ASSUME ConnectorTypeOK, RegistryInv, NEW a \in Address, NEW u \in User,
           ProcessAuthClient(a, u)
    PROVE  RegistryInv'
<1> USE DEF registry, consumer, requests
<1>0. \A b \in Address : ConnectorOf(b) \in Connector
    BY DEF Address, ConnectorOf
<1>1. /\ channel[a] = "open" /\ authStatus[a] = "NOT_AUTHENTICATED"
      /\ userId' = [userId EXCEPT ![a] = u]
      /\ authStatus' = [authStatus EXCEPT ![a] = "AUTHENTICATING"]
      /\ pending' = pending \cup {<<u, a>>}
      /\ UNCHANGED <<channel, users, task, packet, writes, written, raced>>
    BY DEF ProcessAuthClient, AcceptsRequest
<1>2. ~Replying(a)
    BY <1>0, <1>1 DEF Replying, RegistryInv, ReplyInv, Busy
<1>3. \A v, b : b \in Address /\ BelongsTo(v, b) => b # a /\ BelongsTo(v, b)'
    BY <1>0, <1>1 DEF BelongsTo, Authorizing, ConnectorTypeOK
<1>4. PendingInv'
    BY <1>0, <1>1, <1>2 DEF RegistryInv, PendingInv, ConnectorTypeOK, Replying
<1>5. UsersInv'
    BY <1>1, <1>3 DEF RegistryInv, UsersInv
<1>6. ReplyInv'
    <2> SUFFICES ASSUME NEW c \in Connector, task[c] \in Busy, NEW p \in packet[c]
        PROVE  /\ p.type = "AUTH_CLIENT_REPLY" /\ ConnectorOf(p.addr) = c
               /\ userId'[p.addr] = p.user
               /\ authStatus'[p.addr] = "AUTHENTICATING"
               /\ channel[p.addr] = "removed" => p.addr \in raced
        BY <1>1 DEF RegistryInv, ReplyInv
    <2>1. p.addr \in Address
        BY PacketAddress
    <2>2. p.addr # a
        BY <1>1 DEF RegistryInv, ReplyInv
    <2> QED
        BY <1>1, <2>1, <2>2 DEF RegistryInv, ReplyInv, ConnectorTypeOK
<1>7. WritesInv'
    BY <1>1, <1>3 DEF RegistryInv, WritesInv
<1>8. AuthInv' /\ NoMisdelivery'
    BY <1>1 DEF RegistryInv, AuthInv, NoMisdelivery, ConnectorTypeOK
<1> QED
    BY <1>4, <1>5, <1>6, <1>7, <1>8 DEF RegistryInv

\* The socket leaves both registries before anything else can happen to it.
LEMMA HandlerRemovedStep ==
    ASSUME ConnectorTypeOK, RegistryInv, NEW a \in Address, HandlerRemoved(a)
    PROVE  RegistryInv'
<1> USE DEF registry, consumer, requests
<1>0. \A b \in Address : ConnectorOf(b) \in Connector
    BY DEF Address, ConnectorOf
<1>1. /\ channel' = [channel EXCEPT ![a] = "removed"]
      /\ raced' = IF Replying(a) THEN raced \cup {a} ELSE raced
      /\ UNCHANGED <<userId, authStatus, task, packet, writes, written>>
      /\ users' \subseteq users /\ pending' \subseteq pending
    BY DEF HandlerRemoved, Deregister
<1>a. authStatus[a] # "NOT_AUTHENTICATED" => userId[a] \in User /\ userId[a] # NoUser
    BY DEF RegistryInv, AuthInv
<1>2. \A u \in User : <<u, a>> \notin users' /\ <<u, a>> \notin pending'
    <2>1. CASE authStatus[a] = "NOT_AUTHENTICATED"
        BY <1>1, <2>1 DEF RegistryInv, UsersInv, PendingInv, BelongsTo
    <2>2. CASE authStatus[a] # "NOT_AUTHENTICATED"
        <3>1. /\ users' = users \ {<<userId[a], a>>}
              /\ pending' = pending \ {<<userId[a], a>>}
            BY <1>a, <2>2 DEF HandlerRemoved, KnownSocket, Deregister
        <3> QED
            BY <3>1 DEF RegistryInv, UsersInv, PendingInv, BelongsTo
    <2> QED
        BY <2>1, <2>2
<1>3. \A v, b : BelongsTo(v, b) = BelongsTo(v, b)'
    BY <1>1 DEF BelongsTo, Authorizing
<1>4. \A b : Replying(b) = Replying(b)'
    BY <1>1 DEF Replying
<1>5. PendingInv'
    <2> SUFFICES ASSUME NEW v \in User, NEW b \in Address, <<v, b>> \in pending'
        PROVE  /\ userId[b] = v /\ authStatus[b] = "AUTHENTICATING"
               /\ channel'[b] \in {"open", "closed"} /\ ~Replying(b)
        BY <1>1, <1>4 DEF PendingInv
    <2>1. b # a /\ <<v, b>> \in pending
        BY <1>1, <1>2
    <2> QED
        BY <1>1, <2>1 DEF RegistryInv, PendingInv, ConnectorTypeOK
<1>6. UsersInv'
    <2> SUFFICES ASSUME NEW v \in User, NEW b \in Address, <<v, b>> \in users'
        PROVE  BelongsTo(v, b) /\ (channel'[b] = "removed" => b \in raced')
        BY <1>3 DEF UsersInv
    <2>1. b # a /\ <<v, b>> \in users
        BY <1>1, <1>2
    <2> QED
        BY <1>1, <2>1 DEF RegistryInv, UsersInv, ConnectorTypeOK
<1>7. ReplyInv'
    <2> SUFFICES ASSUME NEW c \in Connector, task[c] \in Busy, NEW p \in packet[c],
                        channel'[p.addr] = "removed"
        PROVE  p.addr \in raced'
        BY <1>1 DEF RegistryInv, ReplyInv
    <2>1. p.addr \in Address /\ ConnectorOf(p.addr) = c
        BY PacketAddress DEF RegistryInv, ReplyInv
    <2>2. CASE p.addr = a
        BY <1>1, <2>1, <2>2 DEF Replying, Busy
    <2>3. CASE p.addr # a
        BY <1>1, <2>1, <2>3 DEF RegistryInv, ReplyInv, ConnectorTypeOK
    <2> QED
        BY <2>2, <2>3
<1>8. WritesInv' /\ AuthInv' /\ NoMisdelivery'
    BY <1>1, <1>3 DEF RegistryInv, WritesInv, AuthInv, NoMisdelivery
<1> QED
    BY <1>5, <1>6, <1>7, <1>8 DEF RegistryInv

\* A written message went to a socket of its addressee.
LEMMA WriteSucceedsStep ==
    ASSUME ConnectorTypeOK, RegistryInv, NEW e \in writes, WriteSucceeds(e[1], e[2])
    PROVE  RegistryInv'
<1> USE DEF sockets, registry, consumer, requests
<1>1. /\ e[1] \in Message /\ e[2] \in Address /\ e = <<e[1], e[2]>>
    BY DEF ConnectorTypeOK
<1>2. /\ writes' \subseteq writes
      /\ written' = written \cup {<<e[1], userId[e[2]]>>}
      /\ UNCHANGED <<userId, authStatus, channel, users, pending, raced, task, packet>>
    BY DEF WriteSucceeds
<1>3. userId[e[2]] = e[1].to
    BY <1>1 DEF RegistryInv, WritesInv, BelongsTo
<1>4. NoMisdelivery'
    BY <1>2, <1>3 DEF RegistryInv, NoMisdelivery
<1>5. \A c \in Connector : \A p, q \in packet'[c] : p = q
    BY <1>2 DEF RegistryInv, ReplyInv
<1> QED
    BY <1>2, <1>4, <1>5, MessageTo, RegistryFrame

\* The reply is for a socket that waits for it, and takes it out of pending.
LEMMA TakeAuthClientReplyStep ==
    ASSUME ConnectorTypeOK, RegistryInv, NEW c \in Connector, TakeAuthClientReply(c)
    PROVE  RegistryInv'
<1> USE DEF sockets, registry, requests
<1>0. \A b \in Address : ConnectorOf(b) \in Connector
    BY DEF Address, ConnectorOf
<1>1. PICK p \in outgoing :
          /\ p.type = "AUTH_CLIENT_REPLY" /\ Take(c, p)
          /\ pending' = pending \ {<<p.user, p.addr>>}
          /\ task' = [task EXCEPT ![c] =
                        IF <<p.user, p.addr>> \notin pending THEN "commit"
                        ELSE IF p.ok THEN "admit" ELSE "reject"]
          /\ UNCHANGED <<userId, authStatus, channel, users, writes, written, raced>>
    BY DEF TakeAuthClientReply
<1>2. /\ p.user \in User /\ p.addr \in Address /\ ConnectorOf(p.addr) = c
      /\ task[c] = "idle" /\ packet' = [packet EXCEPT ![c] = {p}]
    BY <1>1, ReplyFields DEF Take, ConnectorTypeOK
<1>3. \A d \in Connector \ {c} : task'[d] = task[d] /\ packet'[d] = packet[d]
    BY <1>1, <1>2 DEF ConnectorTypeOK
<1>4. packet'[c] = {p} /\ task'[c] # "authorize"
    BY <1>1, <1>2 DEF ConnectorTypeOK
<1>5. \A v, b : b \in Address /\ BelongsTo(v, b) => BelongsTo(v, b)'
    BY <1>0, <1>1, <1>2, <1>3 DEF BelongsTo, Authorizing
<1>6. task'[c] \in Busy => <<p.user, p.addr>> \in pending
    BY <1>1 DEF Busy, ConnectorTypeOK
<1>7. PendingInv'
    <2> SUFFICES ASSUME NEW v \in User, NEW b \in Address, <<v, b>> \in pending'
        PROVE  /\ userId[b] = v /\ authStatus[b] = "AUTHENTICATING"
               /\ channel[b] \in {"open", "closed"} /\ ~Replying(b)'
        BY <1>1 DEF PendingInv
    <2>1. <<v, b>> \in pending /\ <<v, b>> # <<p.user, p.addr>>
        BY <1>1
    <2>2. ASSUME Replying(b)' PROVE FALSE
        <3>1. CASE ConnectorOf(b) = c
            <4>1. b = p.addr /\ <<p.user, p.addr>> \in pending
                BY <1>4, <1>6, <2>2, <3>1 DEF Replying, Busy
            <4> QED
                BY <1>2, <2>1, <4>1 DEF RegistryInv, PendingInv
        <3>2. CASE ConnectorOf(b) # c
            BY <1>0, <1>3, <2>1, <2>2, <3>2 DEF Replying, RegistryInv, PendingInv
        <3> QED
            BY <3>1, <3>2
    <2> QED
        BY <2>1, <2>2 DEF RegistryInv, PendingInv
<1>8. UsersInv'
    BY <1>1, <1>5 DEF RegistryInv, UsersInv
<1>9. ReplyInv'
    <2> SUFFICES ASSUME NEW d \in Connector
        PROVE  /\ \A q, r \in packet'[d] : q = r
               /\ task'[d] \in Busy =>
                     \A q \in packet'[d] :
                         /\ q.type = "AUTH_CLIENT_REPLY" /\ ConnectorOf(q.addr) = d
                         /\ userId[q.addr] = q.user
                         /\ authStatus[q.addr] = "AUTHENTICATING"
                         /\ channel[q.addr] = "removed" => q.addr \in raced
        BY <1>1 DEF ReplyInv
    <2>1. CASE d = c
        BY <1>1, <1>2, <1>4, <1>6, <2>1 DEF RegistryInv, PendingInv
    <2>2. CASE d # c
        BY <1>3, <2>2 DEF RegistryInv, ReplyInv
    <2> QED
        BY <2>1, <2>2
<1>10. WritesInv'
    BY <1>1, <1>5 DEF RegistryInv, WritesInv
<1>11. AuthInv' /\ NoMisdelivery'
    BY <1>1 DEF RegistryInv, AuthInv, NoMisdelivery
<1> QED
    BY <1>7, <1>8, <1>9, <1>10, <1>11 DEF RegistryInv

\* The socket becomes findable a step before it is marked authenticated.
LEMMA AdmitUserStep ==
    ASSUME ConnectorTypeOK, RegistryInv, NEW c \in Connector, AdmitUser(c)
    PROVE  RegistryInv'
<1> USE DEF sockets, requests
<1>0. \A b \in Address : ConnectorOf(b) \in Connector
    BY DEF Address, ConnectorOf
<1>1. /\ task[c] = "admit" /\ task' = [task EXCEPT ![c] = "authorize"]
      /\ users' = users \cup {<<p.user, p.addr>> : p \in packet[c]}
      /\ UNCHANGED <<userId, authStatus, channel, pending, packet, writes, written,
                     raced>>
    BY DEF AdmitUser
<1>2. task'[c] = "authorize" /\ \A d \in Connector \ {c} : task'[d] = task[d]
    BY <1>1 DEF ConnectorTypeOK
<1>3. \A v, b : b \in Address /\ BelongsTo(v, b) => BelongsTo(v, b)'
    BY <1>0, <1>1, <1>2 DEF BelongsTo, Authorizing
<1>4. \A b \in Address : Replying(b)' => Replying(b)
    BY <1>0, <1>1, <1>2 DEF Replying
<1>5. PendingInv'
    BY <1>1, <1>4 DEF RegistryInv, PendingInv
<1>6. UsersInv'
    <2> SUFFICES ASSUME NEW v \in User, NEW b \in Address, <<v, b>> \in users'
        PROVE  BelongsTo(v, b)' /\ (channel[b] = "removed" => b \in raced)
        BY <1>1 DEF UsersInv
    <2>1. CASE <<v, b>> \in users
        BY <1>3, <2>1 DEF RegistryInv, UsersInv
    <2>2. CASE <<v, b>> \notin users
        <3>1. PICK p \in packet[c] : v = p.user /\ b = p.addr
            BY <1>1, <2>2
        <3>2. /\ ConnectorOf(b) = c /\ userId[b] = v
              /\ authStatus[b] = "AUTHENTICATING"
              /\ channel[b] = "removed" => b \in raced
            BY <1>1, <3>1 DEF RegistryInv, ReplyInv, Busy
        <3> QED
            BY <1>1, <1>2, <3>1, <3>2 DEF BelongsTo, Authorizing
    <2> QED
        BY <2>1, <2>2
<1>7. ReplyInv'
    BY <1>1, <1>2 DEF RegistryInv, ReplyInv, Busy
<1>8. WritesInv'
    BY <1>1, <1>3 DEF RegistryInv, WritesInv
<1>9. AuthInv' /\ NoMisdelivery'
    BY <1>1 DEF RegistryInv, AuthInv, NoMisdelivery
<1> QED
    BY <1>5, <1>6, <1>7, <1>8, <1>9 DEF RegistryInv

\* The last step for the socket of a reply: it gets its final status.
LEMMA VerdictStep ==
    ASSUME ConnectorTypeOK, RegistryInv, NEW c \in Connector,
           AuthorizeUser(c) \/ RejectUser(c)
    PROVE  RegistryInv'
<1> USE DEF registry, requests, topics
<1>0. \A b \in Address : ConnectorOf(b) \in Connector
    BY DEF Address, ConnectorOf
<1>1. PICK p \in packet[c] :
          /\ \/ task[c] = "authorize"
                /\ authStatus' = [authStatus EXCEPT ![p.addr] = "AUTHENTICATED"]
             \/ task[c] = "reject"
                /\ authStatus' = [authStatus EXCEPT ![p.addr] = "NOT_AUTHENTICATED"]
          /\ task' = [task EXCEPT ![c] = "commit"]
          /\ UNCHANGED <<userId, channel, users, pending, packet, writes, written, raced>>
    BY DEF AuthorizeUser, RejectUser
<1>2. task'[c] = "commit" /\ \A d \in Connector \ {c} : task'[d] = task[d]
    BY <1>1 DEF ConnectorTypeOK
<1>3. /\ p.addr \in Address /\ ConnectorOf(p.addr) = c /\ userId[p.addr] = p.user
      /\ authStatus[p.addr] = "AUTHENTICATING" /\ Replying(p.addr)
    BY <1>1, PacketAddress DEF RegistryInv, ReplyInv, Busy, Replying
<1>4. /\ authStatus'[p.addr] \in {"AUTHENTICATED", "NOT_AUTHENTICATED"}
      /\ \A b \in Address \ {p.addr} : authStatus'[b] = authStatus[b]
    BY <1>1, <1>3 DEF ConnectorTypeOK
<1>5. \A q \in packet[c] : q = p
    BY DEF RegistryInv, ReplyInv
<1>6. ASSUME NEW v, NEW b \in Address, BelongsTo(v, b) PROVE BelongsTo(v, b)'
    <2>1. CASE b = p.addr
        <3>1. Authorizing(v, b) /\ task[c] = "authorize"
            BY <1>3, <1>6, <2>1 DEF BelongsTo, Authorizing
        <3>2. authStatus'[b] = "AUTHENTICATED"
            BY <1>1, <1>3, <2>1, <3>1 DEF ConnectorTypeOK
        <3> QED
            BY <1>1, <1>6, <3>2 DEF BelongsTo
    <2>2. CASE b # p.addr
        <3>1. Authorizing(v, b) => Authorizing(v, b)'
            BY <1>0, <1>1, <1>2, <1>5, <2>2 DEF Authorizing
        <3> QED
            BY <1>1, <1>4, <1>6, <2>2, <3>1 DEF BelongsTo
    <2> QED
        BY <2>1, <2>2
<1>7. \A b \in Address : Replying(b)' => Replying(b)
    BY <1>0, <1>1, <1>2 DEF Replying
<1>8. PendingInv'
    BY <1>1, <1>3, <1>4, <1>7 DEF RegistryInv, PendingInv
<1>9. UsersInv'
    BY <1>1, <1>6 DEF RegistryInv, UsersInv
<1>10. ReplyInv'
    <2> SUFFICES ASSUME NEW d \in Connector, task'[d] \in Busy, NEW q \in packet[d]
        PROVE  authStatus'[q.addr] = "AUTHENTICATING" /\ task[d] \in Busy
        BY <1>1 DEF RegistryInv, ReplyInv
    <2>1. d # c /\ task[d] \in Busy
        BY <1>2 DEF Busy
    <2>2. q.addr \in Address /\ q.addr # p.addr
        BY <1>3, <2>1, PacketAddress DEF RegistryInv, ReplyInv
    <2> QED
        BY <1>4, <2>1, <2>2 DEF RegistryInv, ReplyInv
<1>11. WritesInv'
    BY <1>1, <1>6 DEF RegistryInv, WritesInv
<1>12. AuthInv'
    BY <1>1, <1>3, <1>4 DEF RegistryInv, AuthInv
<1>13. NoMisdelivery'
    BY <1>1 DEF RegistryInv, NoMisdelivery
<1> QED
    BY <1>8, <1>9, <1>10, <1>11, <1>12, <1>13 DEF RegistryInv

\* A crash takes all of a connector's sockets with everything known of them.
LEMMA CrashRestartStep ==
    ASSUME ConnectorTypeOK, RegistryInv, NEW c \in Connector, CrashRestart(c)
    PROVE  RegistryInv'
<1>0. \A b \in Address : ConnectorOf(b) \in Connector
    BY DEF Address, ConnectorOf
<1>1. /\ \A b \in Address : ConnectorOf(b) # c =>
            /\ channel'[b] = channel[b] /\ userId'[b] = userId[b]
            /\ authStatus'[b] = authStatus[b] /\ (b \in raced => b \in raced')
      /\ \A b \in Address : ConnectorOf(b) = c => authStatus'[b] = "NOT_AUTHENTICATED"
      /\ \A v, b : <<v, b>> \in users' => <<v, b>> \in users /\ ConnectorOf(b) # c
      /\ \A v, b : <<v, b>> \in pending' => <<v, b>> \in pending /\ ConnectorOf(b) # c
      /\ \A m, b : <<m, b>> \in writes' => <<m, b>> \in writes /\ ConnectorOf(b) # c
      /\ \A d \in Connector \ {c} : task'[d] = task[d] /\ packet'[d] = packet[d]
      /\ task'[c] = "idle" /\ packet'[c] = {}
      /\ written' = written
    BY DEF CrashRestart, ConnectorTypeOK
<1>2. \A v, b : b \in Address /\ ConnectorOf(b) # c /\ BelongsTo(v, b) => BelongsTo(v, b)'
    BY <1>0, <1>1 DEF BelongsTo, Authorizing
<1>3. PendingInv'
    BY <1>0, <1>1 DEF RegistryInv, PendingInv, Replying
<1>4. UsersInv'
    BY <1>1, <1>2 DEF RegistryInv, UsersInv
<1>5. ReplyInv'
    <2> SUFFICES ASSUME NEW d \in Connector
        PROVE  /\ \A q, r \in packet'[d] : q = r
               /\ task'[d] \in Busy =>
                     \A q \in packet'[d] :
                         /\ q.type = "AUTH_CLIENT_REPLY" /\ ConnectorOf(q.addr) = d
                         /\ userId'[q.addr] = q.user
                         /\ authStatus'[q.addr] = "AUTHENTICATING"
                         /\ channel'[q.addr] = "removed" => q.addr \in raced'
        BY DEF ReplyInv
    <2>1. CASE d = c
        BY <1>1, <2>1 DEF Busy
    <2>2. CASE d # c
        <3>1. \A q \in packet[d] : q.addr \in Address
            BY PacketAddress
        <3> QED
            BY <1>1, <2>2, <3>1 DEF RegistryInv, ReplyInv
    <2> QED
        BY <2>1, <2>2
<1>6. WritesInv'
    BY <1>1, <1>2 DEF RegistryInv, WritesInv
<1>7. AuthInv'
    BY <1>1 DEF RegistryInv, AuthInv
<1>8. NoMisdelivery'
    BY <1>1 DEF RegistryInv, NoMisdelivery
<1> QED
    BY <1>3, <1>4, <1>5, <1>6, <1>7, <1>8 DEF RegistryInv

-----------------------------------------------------------------------------
\* No step of a connector, and no step of its environment, breaks the invariant.
LEMMA RegistryStep ==
    ASSUME ConnectorTypeOK, RegistryInv, ConnectorNext \/ UNCHANGED connectorVars
    PROVE  RegistryInv'
<1>1. CASE UNCHANGED connectorVars
    BY <1>1 DEF connectorVars, RegistryInv, PendingInv, UsersInv, ReplyInv, WritesInv,
       AuthInv, NoMisdelivery, BelongsTo, Authorizing, Replying
<1>2. CASE ConnectorNext
    BY <1>2, PlainSteps, ProcessAuthClientStep, HandlerRemovedStep, WriteSucceedsStep,
       TakeAuthClientReplyStep, AdmitUserStep, VerdictStep, CrashRestartStep
       DEF ConnectorNext, ConsumerThread, EventLoop, ExecuteWrite
<1> QED
    BY <1>1, <1>2

-----------------------------------------------------------------------------
\* Type correctness.  What the connectors send is well formed because a socket
\* that is authenticated, or asks to be, has a user id.
LEMMA InitTypes ==
    ASSUME ConnectorInit, incoming = {}, outgoing = {} PROVE ConnectorTypeOK
BY DEF ConnectorInit, ConnectorTypeOK, ChannelState, AuthStatus, TaskState

LEMMA IncomingPackets ==
    /\ \A u \in User, a \in Address :
          /\ AuthClient(u, a) \in IncomingPacket
          /\ UserConnected(u, a) \in IncomingPacket
          /\ UserDisconnected(u, a) \in IncomingPacket
    /\ \A x \in Payload : MessageRequest(AppMessage(x)) \in IncomingPacket
    /\ \A m \in Message, a \in Address :
       \A s \in {"ADDRESS_NOT_FOUND", "NETWORK_ERROR", "CONNECTOR_ERROR", "PROCESSED"} :
          MessageStateChanged(m, a, s) \in IncomingPacket
    /\ \A u \in User : FetchRequest(u) \in IncomingPacket
    /\ \A u, v \in User : CloseRequest(u, v) \in IncomingPacket
BY DEF AuthClient, UserConnected, UserDisconnected, MessageRequest, AppMessages,
       MessageStateChanged, FetchRequest, CloseRequest, IncomingPacket

LEMMA DeliverMessageTypes ==
    ASSUME NEW packets, DeliverMessage(packets), packets \subseteq IncomingPacket,
           incoming \subseteq IncomingPacket
    PROVE  incoming' \subseteq IncomingPacket
BY DEF DeliverMessage

\* What is handled and not committed was so before, or is handled now.
LEMMA BatchGrows ==
    ASSUME NEW done, NEW P, NEW D \in BatchAfter(done, P)
    PROVE  D \subseteq done \cup P
BY DEF BatchAfter

\* A packet that is taken leaves a well-formed topic and consumer.
LEMMA TakeTypes ==
    ASSUME ConnectorTypeOK, NEW c \in Connector, NEW p, Take(c, p)
    PROVE  /\ p \in OutgoingPacket
           /\ outgoing' \subseteq OutgoingPacket
           /\ packet' \in [Connector -> SUBSET OutgoingPacket]
           /\ consumed' = consumed
BY DEF Take, ConnectorTypeOK

LEMMA ProcessDeliveryTypes ==
    ASSUME ConnectorTypeOK, NEW m \in Message, NEW a \in Address, ProcessDelivery(m, a)
    PROVE  incoming' \subseteq IncomingPacket /\ writes' \subseteq Message \X Address
<1>1. MessageStateChanged(m, a, "ADDRESS_NOT_FOUND") \in IncomingPacket
    BY IncomingPackets
<1> QED
    BY <1>1, DeliverMessageTypes DEF ProcessDelivery, ConnectorTypeOK

\* The steps on the event loops and the writes they execute.
LEMMA SocketTypes ==
    ASSUME ConnectorTypeOK, AuthInv,
           \/ \E c \in Connector : InitChannel(c)
           \/ \E a \in Address :
                 \/ EventLoop(a) \/ ProcessDefault(a) \/ PeerCloses(a)
                 \/ \E u \in User : ProcessAuthClient(a, u)
           \/ ExecuteWrite
    PROVE  ConnectorTypeOK'
<1> USE DEF sockets, registry, consumer, requests, topics, ChannelState, AuthStatus
<1>1. ASSUME NEW c \in Connector, InitChannel(c) PROVE ConnectorTypeOK'
    <2>1. counter[c] + 1 \in 1..MaxSocketId /\ <<c, counter[c] + 1>> \in Address
        BY <1>1 DEF InitChannel, ConnectorTypeOK, Address
    <2> QED
        BY <1>1, <2>1 DEF InitChannel, ConnectorTypeOK
<1>2. ASSUME NEW a \in Address, EventLoop(a) PROVE ConnectorTypeOK'
    <2>1. CASE AuthTimeout(a) \/ CloseRejected(a)
        BY <2>1 DEF AuthTimeout, CloseRejected, ConnectorTypeOK
    <2>2. CASE HandlerRemoved(a)
        <3>1. incoming' \subseteq IncomingPacket
            <4>1. CASE authStatus[a] = "NOT_AUTHENTICATED"
                BY <2>2, <4>1 DEF HandlerRemoved, KnownSocket, ConnectorTypeOK
            <4>2. CASE authStatus[a] # "NOT_AUTHENTICATED"
                <5>1. userId[a] \in User /\ userId[a] # NoUser
                    BY <4>2 DEF AuthInv
                <5>2. UserDisconnected(userId[a], a) \in IncomingPacket
                    BY <5>1, IncomingPackets
                <5>3. DeliverMessage({UserDisconnected(userId[a], a)})
                    BY <2>2, <4>2, <5>1 DEF HandlerRemoved, KnownSocket, Deregister
                <5> QED
                    BY <5>2, <5>3, DeliverMessageTypes DEF ConnectorTypeOK
            <4> QED
                BY <4>1, <4>2
        <3> QED
            BY <2>2, <3>1 DEF HandlerRemoved, Deregister, ConnectorTypeOK
    <2> QED
        BY <1>2, <2>1, <2>2 DEF EventLoop
<1>3. ASSUME NEW a \in Address, ProcessDefault(a) PROVE ConnectorTypeOK'
    <2>1. userId[a] \in User
        BY <1>3 DEF ProcessDefault, AuthInv
    <2>2. \E p \in IncomingPacket : DeliverMessage({p})
        BY <1>3, <2>1, IncomingPackets DEF ProcessDefault
    <2>3. incoming' \subseteq IncomingPacket
        BY <2>2, DeliverMessageTypes DEF ConnectorTypeOK
    <2> QED
        BY <1>3, <2>3 DEF ProcessDefault, ConnectorTypeOK
<1>4. ASSUME NEW a \in Address, PeerCloses(a) PROVE ConnectorTypeOK'
    BY <1>4 DEF PeerCloses, ConnectorTypeOK
<1>5. ASSUME NEW a \in Address, NEW u \in User, ProcessAuthClient(a, u)
      PROVE  ConnectorTypeOK'
    <2>1. incoming' \subseteq IncomingPacket
        BY <1>5, IncomingPackets, DeliverMessageTypes DEF ProcessAuthClient, ConnectorTypeOK
    <2> QED
        BY <1>5, <2>1 DEF ProcessAuthClient, ConnectorTypeOK
<1>6. ASSUME NEW e \in writes, WriteSucceeds(e[1], e[2]) \/ WriteFails(e[1], e[2])
      PROVE  ConnectorTypeOK'
    <2>1. e[1] \in Message /\ e[2] \in Address /\ userId[e[2]] \in User \cup {NoUser}
        BY DEF ConnectorTypeOK
    <2>2. \A ok \in BOOLEAN : StateReport(e[1], e[2], ok) \subseteq IncomingPacket
        BY <2>1, IncomingPackets DEF StateReport
    <2>3. incoming' \subseteq IncomingPacket
        BY <1>6, <2>2, DeliverMessageTypes DEF WriteSucceeds, WriteFails, ConnectorTypeOK
    <2>4. writes' \subseteq writes /\ written' \subseteq written \cup {<<e[1], userId[e[2]]>>}
        BY <1>6 DEF WriteSucceeds, WriteFails
    <2>5. /\ writes' \subseteq Message \X Address
          /\ written' \subseteq Message \X (User \cup {NoUser})
        BY <2>1, <2>4 DEF ConnectorTypeOK
    <2>6. UNCHANGED <<outgoing, counter, channel, userId, authStatus, timer, closing,
                      users, pending, task, packet, consumed, accepted, dropped,
                      raced>>
        BY <1>6 DEF WriteSucceeds, WriteFails
    <2> QED
        BY <2>3, <2>5, <2>6 DEF ConnectorTypeOK
<1> QED
    BY <1>1, <1>2, <1>3, <1>4, <1>5, <1>6 DEF ExecuteWrite

\* The steps of the consumer threads, and a crash.
LEMMA ConsumerTypes ==
    ASSUME ConnectorTypeOK, RegistryInv, NEW c \in Connector,
           ConsumerThread(c) \/ ProcessFast(c) \/ TakeThrows(c) \/ CrashRestart(c)
    PROVE  ConnectorTypeOK'
<1> USE DEF sockets, registry, consumer, requests, topics, ChannelState, AuthStatus,
            TaskState
<1>1. CASE TakeAuthClientReply(c)
    <2>1. PICK p : Take(c, p)
        BY <1>1 DEF TakeAuthClientReply
    <2> QED
        BY <1>1, <2>1, TakeTypes DEF TakeAuthClientReply, ConnectorTypeOK
<1>2. CASE AdmitUser(c)
    <2>1. \A p \in packet[c] : p.user \in User /\ p.addr \in Address
        BY <1>2, PacketAddress, ReplyFields DEF AdmitUser, RegistryInv, ReplyInv, Busy
    <2> QED
        BY <1>2, <2>1 DEF AdmitUser, ConnectorTypeOK
<1>3. CASE AuthorizeUser(c)
    <2>1. PICK p \in packet[c] :
              /\ authStatus' = [authStatus EXCEPT ![p.addr] = "AUTHENTICATED"]
              /\ DeliverMessage({UserConnected(p.user, p.addr)})
        BY <1>3 DEF AuthorizeUser
    <2>2. p.user \in User /\ p.addr \in Address
        BY <1>3, PacketAddress, ReplyFields DEF AuthorizeUser, RegistryInv, ReplyInv, Busy
    <2>3. incoming' \subseteq IncomingPacket
        BY <2>1, <2>2, IncomingPackets, DeliverMessageTypes DEF ConnectorTypeOK
    <2> QED
        BY <1>3, <2>1, <2>2, <2>3 DEF AuthorizeUser, ConnectorTypeOK
<1>4. CASE RejectUser(c)
    <2>1. \A p \in packet[c] : p.addr \in Address
        BY PacketAddress
    <2> QED
        BY <1>4, <2>1 DEF RejectUser, ConnectorTypeOK
<1>5. CASE TakeDelivery(c)
    <2>1. PICK p \in outgoing :
              p.type = "DELIVER" /\ Take(c, p) /\ ProcessDelivery(p.msg, p.addr)
        BY <1>5 DEF TakeDelivery
    <2>2. p.msg \in Message /\ p.addr \in Address
        BY <2>1, TakeTypes, DeliveryFields
    <2> QED
        BY <1>5, <2>1, <2>2, TakeTypes, ProcessDeliveryTypes
           DEF TakeDelivery, ConnectorTypeOK
<1>6. CASE TakeCloseConnection(c)
    <2>1. PICK p \in outgoing :
              p.type = "DELIVER" /\ Take(c, p) /\ ProcessClose(p.msg, p.addr)
        BY <1>6 DEF TakeCloseConnection
    <2> QED
        BY <1>6, <2>1, TakeTypes DEF TakeCloseConnection, ProcessClose, ConnectorTypeOK
<1>7. CASE CommitPacket(c)
    <2>1. consumed' \in [Connector -> SUBSET OutgoingPacket]
        <3>1. PICK D \in BatchAfter(consumed[c], packet[c]) :
                  consumed' = [consumed EXCEPT ![c] = D]
            BY <1>7 DEF CommitPacket
        <3> QED
            BY <3>1, BatchGrows DEF ConnectorTypeOK
    <2> QED
        BY <1>7, <2>1 DEF CommitPacket, ConnectorTypeOK
<1>8. CASE ProcessFast(c)
    <2>1. PICK p \in outgoing :
              /\ IsFast(p) /\ ProcessDelivery(p.msg, p.addr)
              /\ outgoing' = outgoing \ {p}
        BY <1>8 DEF ProcessFast
    <2>2. p \in OutgoingPacket /\ p.type = "DELIVER"
        BY <2>1 DEF ConnectorTypeOK, IsFast, OutgoingPacket
    <2> QED
        BY <1>8, <2>1, <2>2, DeliveryFields, ProcessDeliveryTypes
           DEF ProcessFast, ConnectorTypeOK
<1>9. CASE TakeThrows(c)
    <2>1. PICK p \in outgoing :
              /\ p.type = "DELIVER" /\ Take(c, p)
              /\ DeliverMessage({MessageStateChanged(p.msg, p.addr, "CONNECTOR_ERROR")})
        BY <1>9 DEF TakeThrows
    <2>2. p.msg \in Message /\ p.addr \in Address
        BY <2>1, TakeTypes, DeliveryFields
    <2>3. incoming' \subseteq IncomingPacket
        BY <2>1, <2>2, IncomingPackets, DeliverMessageTypes DEF ConnectorTypeOK
    <2> QED
        BY <1>9, <2>1, <2>3, TakeTypes DEF TakeThrows, ConnectorTypeOK
<1>10. CASE CrashRestart(c)
    <2>1. counter' \in [Connector -> 0..MaxSocketId]
        BY <1>10 DEF CrashRestart, ConnectorTypeOK
    <2>2. /\ dropped' \subseteq Message
          /\ outgoing' \subseteq OutgoingPacket
          /\ packet' \in [Connector -> SUBSET OutgoingPacket]
          /\ consumed' \in [Connector -> SUBSET OutgoingPacket]
        BY <1>10 DEF CrashRestart, ConnectorTypeOK
    <2> QED
        BY <1>10, <2>1, <2>2 DEF CrashRestart, ConnectorTypeOK
<1> QED
    BY <1>1, <1>2, <1>3, <1>4, <1>5, <1>6, <1>7, <1>8, <1>9, <1>10 DEF ConsumerThread

\* No step of a connector takes a variable out of its range.
LEMMA TypeStep ==
    ASSUME ConnectorTypeOK, RegistryInv, ConnectorNext
    PROVE  ConnectorTypeOK'
BY SocketTypes, ConsumerTypes DEF ConnectorNext, RegistryInv

-----------------------------------------------------------------------------
\* What the sockets promise each other and the timeout: an id above the counter
\* was never given out, so that a new handler starts from nothing; and whoever
\* is marked as authenticated can be found, unless its handler was removed.
FreshSockets ==
    \A a \in Address :
        /\ channel[a] = "none" => authStatus[a] = "NOT_AUTHENTICATED"
        /\ a[2] > counter[a[1]] => channel[a] = "none"

FoundSockets ==
    \A a \in Address :
        authStatus[a] = "AUTHENTICATED" /\ channel[a] # "removed"
            => <<userId[a], a>> \in users

\* The consumer thread marks only a socket it has registered.
AdmittedSockets ==
    \A c \in Connector : \A p \in packet[c] :
        task[c] = "authorize" /\ channel[p.addr] # "removed"
            => <<p.user, p.addr>> \in users

SocketInv == FreshSockets /\ FoundSockets /\ AdmittedSockets /\ TimeoutPending

LEMMA InitSocket == ConnectorInit => SocketInv
BY DEF ConnectorInit, SocketInv, FreshSockets, FoundSockets, AdmittedSockets, TimeoutPending

\* Steps that close channels at most, and begin no AuthClientReply.
LEMMA SocketFrame ==
    ASSUME ConnectorTypeOK, SocketInv,
           UNCHANGED <<counter, userId, authStatus, timer, users>>,
           \A a \in Address : \/ channel'[a] = channel[a]
                              \/ channel[a] = "open" /\ channel'[a] = "closed",
           \A c \in Connector : task'[c] = "authorize" =>
                                    task[c] = "authorize" /\ packet'[c] = packet[c]
    PROVE  SocketInv'
<1>1. FreshSockets' /\ FoundSockets' /\ TimeoutPending'
    BY DEF SocketInv, FreshSockets, FoundSockets, TimeoutPending
<1>2. AdmittedSockets'
    BY PacketAddress DEF SocketInv, AdmittedSockets
<1> QED
    BY <1>1, <1>2 DEF SocketInv

\* The steps that SocketFrame covers.
LEMMA PlainSockets ==
    ASSUME ConnectorTypeOK, SocketInv,
           \/ \E c \in Connector :
                 \/ TakeAuthClientReply(c) \/ TakeDelivery(c) \/ TakeCloseConnection(c)
                 \/ TakeThrows(c) \/ CommitPacket(c) \/ ProcessFast(c)
           \/ \E a \in Address : CloseRejected(a) \/ ProcessDefault(a) \/ PeerCloses(a)
           \/ ExecuteWrite
    PROVE  SocketInv'
<1> USE DEF sockets, registry, consumer, requests, topics
<1>1. UNCHANGED <<counter, userId, authStatus, timer, users>>
    BY DEF TakeAuthClientReply, TakeDelivery, TakeCloseConnection, TakeThrows,
       CommitPacket, ProcessFast, CloseRejected, ProcessDefault, PeerCloses,
       ExecuteWrite, WriteSucceeds, WriteFails
<1>2. \A a \in Address : \/ channel'[a] = channel[a]
                         \/ channel[a] = "open" /\ channel'[a] = "closed"
    <2>1. \/ UNCHANGED channel
          \/ \E a : channel[a] = "open" /\ channel' = [channel EXCEPT ![a] = "closed"]
        BY DEF TakeAuthClientReply, TakeDelivery, TakeCloseConnection, TakeThrows,
           CommitPacket, ProcessFast, CloseRejected, ProcessDefault, PeerCloses,
           ExecuteWrite, WriteSucceeds, WriteFails, ProcessClose
    <2> QED
        BY <2>1 DEF ConnectorTypeOK
<1>3. \/ UNCHANGED <<task, packet>>
      \/ \E c \in Connector, s \in TaskState \ {"authorize"} :
            /\ task' = [task EXCEPT ![c] = s]
            /\ \E P : packet' = [packet EXCEPT ![c] = P]
    <2>1. ASSUME NEW c \in Connector,
                 \/ TakeAuthClientReply(c) \/ TakeDelivery(c) \/ TakeCloseConnection(c)
                 \/ TakeThrows(c) \/ CommitPacket(c)
          PROVE  \E s \in TaskState \ {"authorize"} :
                    /\ task' = [task EXCEPT ![c] = s]
                    /\ \E P : packet' = [packet EXCEPT ![c] = P]
        BY <2>1 DEF TakeAuthClientReply, TakeDelivery, TakeCloseConnection, TakeThrows,
           Take, CommitPacket, TaskState
    <2> QED
        BY <2>1 DEF ProcessFast, CloseRejected, ProcessDefault, PeerCloses, ExecuteWrite,
           WriteSucceeds, WriteFails
<1>4. \A c \in Connector : task'[c] = "authorize" =>
          task[c] = "authorize" /\ packet'[c] = packet[c]
    BY <1>3 DEF ConnectorTypeOK
<1> QED
    BY <1>1, <1>2, <1>4, SocketFrame

LEMMA InitChannelSocket ==
    ASSUME ConnectorTypeOK, RegistryInv, SocketInv, NEW c \in Connector, InitChannel(c)
    PROVE  SocketInv'
<1> DEFINE a == <<c, counter[c] + 1>>
<1>a. a \in Address /\ counter[c] \in Nat /\ a[1] = c /\ a[2] = counter[c] + 1
    BY DEF InitChannel, ConnectorTypeOK, Address
<1> HIDE DEF a
<1>1. /\ counter' = [counter EXCEPT ![c] = @ + 1]
      /\ channel' = [channel EXCEPT ![a] = "open"]
      /\ timer' = [timer EXCEPT ![a] = TRUE]
      /\ UNCHANGED <<userId, authStatus, users, task, packet>>
    BY DEF InitChannel, registry, consumer, a
<1>2. channel[a] = "none" /\ authStatus[a] = "NOT_AUTHENTICATED"
    BY <1>a DEF SocketInv, FreshSockets
<1>3. \A b \in Address : /\ b # a => channel'[b] = channel[b] /\ timer'[b] = timer[b]
                         /\ b = a => channel'[b] = "open" /\ timer'[b] = TRUE
    BY <1>a, <1>1 DEF ConnectorTypeOK
<1>4. FreshSockets'
    <2> SUFFICES ASSUME NEW b \in Address, b[2] > counter'[b[1]]
        PROVE  channel'[b] = "none"
        BY <1>1, <1>2, <1>3 DEF SocketInv, FreshSockets
    <2>1. b[1] \in Connector /\ b[2] \in Nat /\ counter[b[1]] \in Nat
          /\ b = <<b[1], b[2]>>
        BY DEF Address, ConnectorTypeOK
    <2>2. b # a /\ b[2] > counter[b[1]]
        BY <1>a, <1>1, <2>1 DEF ConnectorTypeOK
    <2> QED
        BY <1>3, <2>2 DEF SocketInv, FreshSockets
<1>5. FoundSockets' /\ TimeoutPending'
    BY <1>1, <1>2, <1>3 DEF SocketInv, FoundSockets, TimeoutPending
<1>6. AdmittedSockets'
    <2> SUFFICES ASSUME NEW d \in Connector, NEW p \in packet[d], task[d] = "authorize",
                        channel'[p.addr] # "removed"
        PROVE  <<p.user, p.addr>> \in users
        BY <1>1 DEF AdmittedSockets
    <2>1. p.addr \in Address /\ authStatus[p.addr] = "AUTHENTICATING"
        BY PacketAddress DEF RegistryInv, ReplyInv, Busy
    <2>2. p.addr # a
        BY <1>2, <2>1
    <2> QED
        BY <1>3, <2>1, <2>2 DEF SocketInv, AdmittedSockets
<1> QED
    BY <1>4, <1>5, <1>6 DEF SocketInv

\* The event loops' own steps.
LEMMA EventLoopSocket ==
    ASSUME ConnectorTypeOK, RegistryInv, SocketInv, NEW a \in Address,
           \/ AuthTimeout(a) \/ HandlerRemoved(a)
           \/ \E u \in User : ProcessAuthClient(a, u)
    PROVE  SocketInv'
<1> USE DEF registry, consumer
<1>1. CASE AuthTimeout(a)
    <2>1. /\ UNCHANGED <<counter, userId, authStatus, users, task, packet>>
          /\ timer' = [timer EXCEPT ![a] = FALSE]
          /\ channel' = IF authStatus[a] # "AUTHENTICATED" /\ channel[a] = "open"
                        THEN [channel EXCEPT ![a] = "closed"] ELSE channel
        BY <1>1 DEF AuthTimeout, NotAuthenticatedInTime
    <2>2. \A b \in Address : \/ channel'[b] = channel[b]
                             \/ channel[b] = "open" /\ channel'[b] = "closed"
        BY <2>1 DEF ConnectorTypeOK
    <2>3. FreshSockets' /\ FoundSockets'
        BY <2>1, <2>2 DEF SocketInv, FreshSockets, FoundSockets
    <2>4. AdmittedSockets'
        BY <2>1, <2>2, PacketAddress DEF SocketInv, AdmittedSockets
    <2>5. TimeoutPending'
        BY <2>1 DEF SocketInv, TimeoutPending, ConnectorTypeOK
    <2> QED
        BY <2>3, <2>4, <2>5 DEF SocketInv
<1>2. CASE HandlerRemoved(a)
    <2>1. /\ channel[a] = "closed" /\ channel' = [channel EXCEPT ![a] = "removed"]
          /\ UNCHANGED <<counter, userId, authStatus, timer, task, packet>>
          /\ users' = users \/ users' = users \ {<<userId[a], a>>}
        BY <1>2 DEF HandlerRemoved, Deregister
    <2>2. \A b \in Address : /\ b # a => channel'[b] = channel[b]
                             /\ b = a => channel'[b] = "removed"
        BY <2>1 DEF ConnectorTypeOK
    <2>3. \A u, b : b # a /\ <<u, b>> \in users => <<u, b>> \in users'
        BY <2>1
    <2>4. FreshSockets' /\ FoundSockets' /\ TimeoutPending'
        BY <2>1, <2>2, <2>3 DEF SocketInv, FreshSockets, FoundSockets, TimeoutPending
    <2>5. AdmittedSockets'
        BY <2>1, <2>2, <2>3, PacketAddress DEF SocketInv, AdmittedSockets
    <2> QED
        BY <2>4, <2>5 DEF SocketInv
<1>3. ASSUME NEW u \in User, ProcessAuthClient(a, u)
      PROVE  SocketInv'
    <2>1. /\ channel[a] = "open" /\ authStatus[a] = "NOT_AUTHENTICATED"
          /\ userId' = [userId EXCEPT ![a] = u]
          /\ authStatus' = [authStatus EXCEPT ![a] = "AUTHENTICATING"]
          /\ UNCHANGED <<counter, channel, timer, users, task, packet>>
        BY <1>3 DEF ProcessAuthClient, AcceptsRequest
    <2>2. \A b \in Address : /\ b # a => authStatus'[b] = authStatus[b] /\ userId'[b] = userId[b]
                             /\ b = a => authStatus'[b] = "AUTHENTICATING"
        BY <2>1 DEF ConnectorTypeOK
    <2>3. FreshSockets' /\ FoundSockets' /\ TimeoutPending'
        BY <2>1, <2>2 DEF SocketInv, FreshSockets, FoundSockets, TimeoutPending
    <2>4. AdmittedSockets'
        BY <2>1 DEF SocketInv, AdmittedSockets
    <2> QED
        BY <2>3, <2>4 DEF SocketInv
<1> QED
    BY <1>1, <1>2, <1>3

\* The steps of AuthClientReplyMessageProcessor.
LEMMA ReplySocket ==
    ASSUME ConnectorTypeOK, RegistryInv, SocketInv, NEW c \in Connector,
           AdmitUser(c) \/ AuthorizeUser(c) \/ RejectUser(c)
    PROVE  SocketInv'
<1> USE DEF sockets, registry, topics
<1>1. CASE AdmitUser(c)
    <2>1. /\ users' = users \cup {<<p.user, p.addr>> : p \in packet[c]}
          /\ task' = [task EXCEPT ![c] = "authorize"]
          /\ UNCHANGED <<counter, channel, userId, authStatus, timer, packet>>
        BY <1>1 DEF AdmitUser
    <2>2. FreshSockets' /\ FoundSockets' /\ TimeoutPending'
        BY <2>1 DEF SocketInv, FreshSockets, FoundSockets, TimeoutPending
    <2>3. AdmittedSockets'
        BY <2>1 DEF SocketInv, AdmittedSockets, ConnectorTypeOK
    <2> QED
        BY <2>2, <2>3 DEF SocketInv
<1>2. ASSUME task[c] \in {"authorize", "reject"},
             UNCHANGED <<counter, channel, userId, timer, users, packet>>,
             task' = [task EXCEPT ![c] = "commit"],
             NEW p \in packet[c], NEW s \in AuthStatus \ {"AUTHENTICATING"},
             authStatus' = [authStatus EXCEPT ![p.addr] = s],
             s = "AUTHENTICATED" => task[c] = "authorize"
      PROVE  SocketInv'
    <2>1. /\ p.addr \in Address /\ userId[p.addr] = p.user
          /\ authStatus[p.addr] = "AUTHENTICATING"
        BY <1>2, PacketAddress DEF RegistryInv, ReplyInv, Busy
    <2>2. \A b \in Address : /\ b # p.addr => authStatus'[b] = authStatus[b]
                             /\ b = p.addr => authStatus'[b] = s
        BY <1>2, <2>1 DEF ConnectorTypeOK
    <2>3. FreshSockets' /\ TimeoutPending'
        BY <1>2, <2>1, <2>2 DEF SocketInv, FreshSockets, TimeoutPending
    <2>4. FoundSockets'
        <3>1. s = "AUTHENTICATED" /\ channel[p.addr] # "removed"
                  => <<userId[p.addr], p.addr>> \in users
            BY <1>2, <2>1 DEF SocketInv, AdmittedSockets
        <3> QED
            BY <1>2, <2>2, <3>1 DEF SocketInv, FoundSockets
    <2>5. AdmittedSockets'
        BY <1>2 DEF SocketInv, AdmittedSockets, ConnectorTypeOK
    <2> QED
        BY <2>3, <2>4, <2>5 DEF SocketInv
<1>3. CASE AuthorizeUser(c)
    BY <1>2, <1>3 DEF AuthorizeUser, AuthStatus
<1>4. CASE RejectUser(c)
    BY <1>2, <1>4 DEF RejectUser, AuthStatus
<1> QED
    BY <1>1, <1>3, <1>4

\* A crash takes every socket of its connector back to nothing.
LEMMA CrashSocket ==
    ASSUME ConnectorTypeOK, RegistryInv, SocketInv, NEW c \in Connector, CrashRestart(c)
    PROVE  SocketInv'
<1> DEFINE Kept(a) == ConnectorOf(a) # c
<1>a. \A a \in Address : ConnectorOf(a) = a[1] /\ a[1] \in Connector /\ a[2] \in Nat
    BY DEF Address, ConnectorOf
<1>b. \A a \in Address :
          /\ Kept(a) => /\ channel'[a] = channel[a] /\ authStatus'[a] = authStatus[a]
                        /\ timer'[a] = timer[a] /\ userId'[a] = userId[a]
          /\ ~Kept(a) => channel'[a] = "none" /\ authStatus'[a] = "NOT_AUTHENTICATED"
    BY DEF CrashRestart
<1>c. \A a \in Address : Kept(a) => counter'[a[1]] = counter[a[1]]
    BY <1>a DEF CrashRestart, ConnectorTypeOK
<1> HIDE DEF Kept
<1>1. \A a \in Address :
          /\ Kept(a) => /\ channel'[a] = channel[a] /\ authStatus'[a] = authStatus[a]
                        /\ timer'[a] = timer[a] /\ userId'[a] = userId[a]
                        /\ counter'[a[1]] = counter[a[1]]
          /\ ~Kept(a) => channel'[a] = "none" /\ authStatus'[a] = "NOT_AUTHENTICATED"
    BY <1>b, <1>c
<1>2. \A u, a : Kept(a) /\ <<u, a>> \in users => <<u, a>> \in users'
    BY DEF CrashRestart, Kept
<1>3. FreshSockets' /\ FoundSockets' /\ TimeoutPending'
    BY <1>1, <1>2 DEF SocketInv, FreshSockets, FoundSockets, TimeoutPending
<1>4. AdmittedSockets'
    <2> SUFFICES ASSUME NEW d \in Connector, NEW p \in packet'[d], task'[d] = "authorize",
                        channel'[p.addr] # "removed"
        PROVE  <<p.user, p.addr>> \in users'
        BY DEF AdmittedSockets
    <2>1. d # c /\ p \in packet[d] /\ task[d] = "authorize"
        BY DEF CrashRestart, ConnectorTypeOK
    <2>2. p.addr \in Address /\ ConnectorOf(p.addr) = d
        BY <2>1, PacketAddress DEF RegistryInv, ReplyInv, Busy
    <2> QED
        BY <1>1, <1>2, <2>1, <2>2 DEF SocketInv, AdmittedSockets, Kept
<1> QED
    BY <1>3, <1>4 DEF SocketInv

\* What the sockets promise holds on, whatever the processors send.
LEMMA SocketStep ==
    ASSUME ConnectorTypeOK, RegistryInv, SocketInv,
           ConnectorNext \/ UNCHANGED connectorVars
    PROVE  SocketInv'
<1>1. CASE UNCHANGED connectorVars
    BY <1>1, SocketFrame DEF connectorVars
<1>2. CASE ConnectorNext
    BY <1>2, PlainSockets, InitChannelSocket, EventLoopSocket, ReplySocket, CrashSocket
       DEF ConnectorNext, ConsumerThread, EventLoop
<1> QED
    BY <1>1, <1>2

\* RegistryAgreement and GhostOnlyByRace are parts of the two invariants.
LEMMA RegistryConsequences ==
    ConnectorTypeOK /\ RegistryInv /\ SocketInv => RegistryAgreement /\ GhostOnlyByRace
<1> SUFFICES ASSUME ConnectorTypeOK, RegistryInv, SocketInv
    PROVE  RegistryAgreement /\ GhostOnlyByRace
    OBVIOUS
<1>1. ASSUME NEW u \in User, NEW a \in Address, <<u, a>> \in pending
      PROVE  <<u, a>> \notin users
    <2>1. authStatus[a] = "AUTHENTICATING" /\ ~Replying(a)
        BY <1>1 DEF RegistryInv, PendingInv
    <2>2. ~Authorizing(u, a)
        BY <2>1 DEF Authorizing, Replying
    <2> QED
        BY <2>1, <2>2 DEF RegistryInv, UsersInv, BelongsTo
<1>2. RegistryAgreement
    BY <1>1 DEF RegistryAgreement, RegistryInv, PendingInv, UsersInv, BelongsTo,
       Authorizing, SocketInv, FoundSockets
<1>3. GhostOnlyByRace
    BY DEF GhostOnlyByRace, RegistryInv, UsersInv
<1> QED
    BY <1>2, <1>3
=============================================================================
