----------------------------- MODULE Connector -----------------------------
(***************************************************************************)
(* The connector: client sockets, their authentication, the two user       *)
(* registries, and the delivery of messages to sockets.                    *)
(*                                                                         *)
(* Three kinds of threads meet here.  Each socket's netty event loop runs  *)
(* AppSocketHandler and the incoming message processors; the Kafka         *)
(* consumer thread runs the outgoing message processors, and its steps in  *)
(* AuthClientReplyMessageProcessor interleave with the event loops; the    *)
(* NATS dispatcher hands over FAST messages beside it.                     *)
(***************************************************************************)
EXTENDS Topics

CONSTANTS
    MaxFetches,     \* bound: fetch requests the clients send
    MaxCloses,      \* bound: CLOSE_CONNECTION requests the clients send
    MaxCrashes,     \* bound: crashes of connector processes
    MaxSendFaults,  \* bound: packets the connectors' producers fail to send
    MaxThrows       \* bound: exceptions out of outgoing message processors

VARIABLES
    counter,      \* SocketChannelInitializer.counter of each connector
    channel,      \* the socket's channel and its place in the pipeline
    userId,       \* AppSocketHandler.userId
    authStatus,   \* AppSocketHandler.authStatus
    timer,        \* the one authentication timeout scheduled by handlerAdded
    users,        \* NetworkUserService.users: (user, address) pairs
    pending,      \* NetworkUserService.pendingUsers
    closing,      \* sockets to close when their rejection was written
    task,         \* where the Kafka consumer thread stands
    packet,       \* the packet it holds, as a set of at most one
    consumed,     \* what it handled of a batch that is not committed
    writes        \* (message, address): netty writes not yet executed

VARIABLES
    accepted,     \* history: payloads handed to deliverMessage
    written,      \* history: (message, the socket's user) pairs written
    dropped,      \* history: messages lost with a crashed connector's writes
    unsent,       \* history: packets onMessageDeliveryFailed forgot (its TODO)
    raced,        \* history: sockets removed while their reply was processed
    fetches, closes, crashes, throws    \* budgets spent

sockets == <<counter, channel, userId, authStatus, timer, closing>>
registry == <<users, pending>>
consumer == <<task, packet, consumed>>
requests == <<accepted, fetches, closes>>
connectorVars ==
    <<counter, channel, userId, authStatus, timer, users, pending, closing,
      task, packet, consumed, writes, accepted, written, dropped, unsent, raced,
      fetches, closes, crashes, throws>>

ChannelState == {"none", "open", "closed", "removed"}
AuthStatus == {"NOT_AUTHENTICATED", "AUTHENTICATING", "AUTHENTICATED"}
TaskState == {"idle", "admit", "authorize", "reject", "commit"}

ConnectorInit ==
    /\ counter = [c \in Connector |-> 0]
    /\ channel = [a \in Address |-> "none"]
    /\ userId = [a \in Address |-> NoUser]
    /\ authStatus = [a \in Address |-> "NOT_AUTHENTICATED"]
    /\ timer = [a \in Address |-> FALSE]
    /\ users = {} /\ pending = {} /\ closing = {}
    /\ task = [c \in Connector |-> "idle"]
    /\ packet = [c \in Connector |-> {}]
    /\ consumed = [c \in Connector |-> {}]
    /\ writes = {}
    /\ accepted = {} /\ written = {} /\ dropped = {} /\ unsent = {} /\ raced = {}
    /\ fetches = 0 /\ closes = 0 /\ crashes = 0 /\ throws = 0

-----------------------------------------------------------------------------
\* PostOffice.deliverMessage: the producer sends asynchronously; on failure
\* onMessageDeliveryFailed logs a TODO and the packets are gone.
DeliverMessage(packets) ==
    \/ /\ incoming' = incoming \cup packets
       /\ UNCHANGED unsent
    \/ /\ packets # {} /\ Cardinality(unsent) < MaxSendFaults
       /\ unsent' = unsent \cup packets
       /\ UNCHANGED incoming

\* initChannel and handlerAdded: a new handler under the next socket id.
InitChannel(c) ==
    LET a == <<c, counter[c] + 1>> IN
    /\ counter[c] < MaxSocketId
    /\ counter' = [counter EXCEPT ![c] = @ + 1]
    /\ channel' = [channel EXCEPT ![a] = "open"]
    /\ timer' = [timer EXCEPT ![a] = TRUE]
    /\ UNCHANGED <<topics, userId, authStatus, closing, registry, consumer, writes,
                   requests, written, dropped, unsent, raced, crashes, throws>>

\* Faulty: a request is answered as long as the last one was not granted.
AcceptsNewRequest(a) == authStatus[a] # "AUTHENTICATED"

\* A request is answered once; in any other status it is ignored.
AcceptsRequest(a) == authStatus[a] = "NOT_AUTHENTICATED"

\* AuthClientMessageProcessor.
ProcessAuthClient(a, u) ==
    /\ channel[a] = "open" /\ AcceptsRequest(a)
    /\ userId' = [userId EXCEPT ![a] = u]
    /\ authStatus' = [authStatus EXCEPT ![a] = "AUTHENTICATING"]
    /\ pending' = pending \cup {<<u, a>>}
    /\ DeliverMessage({AuthClient(u, a)})
    /\ UNCHANGED <<outgoing, counter, channel, timer, closing, users, consumer,
                   writes, requests, written, dropped, raced, crashes, throws>>

\* DefaultIncomingMessageProcessor: a message of an authenticated user goes to
\* the processors (to all others the answer is AUTH_REQUIRED).
ProcessDefault(a) ==
    /\ channel[a] = "open" /\ authStatus[a] = "AUTHENTICATED"
    /\ \/ \E x \in Payload \ accepted :
             /\ From[x] = userId[a]
             /\ accepted' = accepted \cup {x}
             /\ DeliverMessage({MessageRequest(AppMessage(x))})
             /\ UNCHANGED <<fetches, closes>>
       \/ /\ fetches < MaxFetches
          /\ fetches' = fetches + 1
          /\ DeliverMessage({FetchRequest(userId[a])})
          /\ UNCHANGED <<accepted, closes>>
       \/ /\ closes < MaxCloses
          /\ closes' = closes + 1
          /\ \E u \in User : DeliverMessage({CloseRequest(userId[a], u)})
          /\ UNCHANGED <<accepted, fetches>>
    /\ UNCHANGED <<outgoing, sockets, registry, consumer, writes, written, dropped,
                   raced, crashes, throws>>

\* Faulty: only a socket that never asked is closed.
SilentTooLong(a) == authStatus[a] = "NOT_AUTHENTICATED"

NotAuthenticatedInTime(a) == authStatus[a] # "AUTHENTICATED"

\* The timeout scheduled by handlerAdded; it fires once.
AuthTimeout(a) ==
    /\ timer[a]
    /\ timer' = [timer EXCEPT ![a] = FALSE]
    /\ channel' = IF NotAuthenticatedInTime(a) /\ channel[a] = "open"
                  THEN [channel EXCEPT ![a] = "closed"] ELSE channel
    /\ UNCHANGED <<topics, counter, userId, authStatus, closing, registry, consumer,
                   writes, requests, written, dropped, unsent, raced, crashes, throws>>

\* The peer closes the connection or it breaks.
PeerCloses(a) ==
    /\ channel[a] = "open"
    /\ channel' = [channel EXCEPT ![a] = "closed"]
    /\ UNCHANGED <<topics, counter, userId, authStatus, timer, closing, registry,
                   consumer, writes, requests, written, dropped, unsent, raced,
                   crashes, throws>>

\* The listener of a written rejection closes the socket.
CloseRejected(a) ==
    /\ a \in closing
    /\ closing' = closing \ {a}
    /\ channel' = IF channel[a] = "open"
                  THEN [channel EXCEPT ![a] = "closed"] ELSE channel
    /\ UNCHANGED <<topics, counter, userId, authStatus, timer, registry, consumer,
                   writes, requests, written, dropped, unsent, raced, crashes, throws>>

\* The consumer thread is in the middle of AuthClientReply for this socket.
Replying(a) ==
    /\ task[ConnectorOf(a)] \in {"admit", "authorize", "reject"}
    /\ \E p \in packet[ConnectorOf(a)] : p.addr = a

\* Faulty: the socket leaves pendingUsers only.
DeregisterPending(a) ==
    /\ userId[a] # NoUser
    /\ pending' = pending \ {<<userId[a], a>>}
    /\ DeliverMessage({UserDisconnected(userId[a], a)})
    /\ UNCHANGED users

\* UserDisconnectedMessageProcessor: leave both registries, tell the processors.
Deregister(a) ==
    IF userId[a] = NoUser
    THEN UNCHANGED <<incoming, unsent, registry>>
    ELSE /\ users' = users \ {<<userId[a], a>>}
         /\ pending' = pending \ {<<userId[a], a>>}
         /\ DeliverMessage({UserDisconnected(userId[a], a)})

\* The socket asked to be authenticated, and was not rejected since.
KnownSocket(a) == authStatus[a] # "NOT_AUTHENTICATED"

\* handlerRemoved.
HandlerRemoved(a) ==
    /\ channel[a] = "closed"
    /\ channel' = [channel EXCEPT ![a] = "removed"]
    /\ raced' = IF Replying(a) THEN raced \cup {a} ELSE raced
    /\ IF KnownSocket(a) THEN Deregister(a) ELSE UNCHANGED <<incoming, unsent, registry>>
    /\ UNCHANGED <<outgoing, counter, userId, authStatus, timer, closing, consumer,
                   writes, requests, written, dropped, crashes, throws>>

-----------------------------------------------------------------------------
\* Faulty: the socket is looked up by its id.
IsConnectedSocket(u, a) == \E v \in User : <<v, a>> \in users

\* NetworkUserService.getUser.
IsConnected(u, a) == <<u, a>> \in users

\* Faulty: nothing is said of a socket that is not there.
ProcessDeliveryQuietly(m, a) ==
    /\ writes' = IF IsConnected(m.to, a) THEN writes \cup {<<m, a>>} ELSE writes
    /\ UNCHANGED <<incoming, unsent>>

\* DefaultOutgoingMessageProcessor: look the socket up by user and socket id,
\* then write; if it is not there and the message is RELIABLE, say so.
ProcessDelivery(m, a) ==
    IF IsConnected(m.to, a)
    THEN /\ writes' = writes \cup {<<m, a>>}
         /\ UNCHANGED <<incoming, unsent>>
    ELSE /\ IF IsReliable(m)
            THEN DeliverMessage({MessageStateChanged(m, a, "ADDRESS_NOT_FOUND")})
            ELSE UNCHANGED <<incoming, unsent>>
         /\ UNCHANGED writes

\* CloseConnectionMessageProcessor.
ProcessClose(m, a) ==
    channel' = IF IsConnected(m.to, a) /\ channel[a] = "open"
               THEN [channel EXCEPT ![a] = "closed"] ELSE channel

\* The consumer thread takes a packet of its connector's topic.
Take(c, p) ==
    /\ task[c] = "idle" /\ p \in outgoing /\ ConnectorOf(p.addr) = c /\ ~IsFast(p)
    /\ outgoing' = outgoing \ {p}
    /\ packet' = [packet EXCEPT ![c] = {p}]
    /\ UNCHANGED consumed

\* AuthClientReplyMessageProcessor up to removePendingUser.
TakeAuthClientReply(c) ==
    \E p \in outgoing :
        /\ p.type = "AUTH_CLIENT_REPLY" /\ Take(c, p)
        /\ pending' = pending \ {<<p.user, p.addr>>}
        /\ task' = [task EXCEPT ![c] =
                      IF <<p.user, p.addr>> \notin pending THEN "commit"
                      ELSE IF p.ok THEN "admit" ELSE "reject"]
        /\ UNCHANGED <<incoming, sockets, users, writes, requests, written, dropped,
                       unsent, raced, crashes, throws>>

\* networkUserService.addUser.
AdmitUser(c) ==
    /\ task[c] = "admit"
    /\ users' = users \cup {<<p.user, p.addr>> : p \in packet[c]}
    /\ task' = [task EXCEPT ![c] = "authorize"]
    /\ UNCHANGED <<topics, sockets, pending, packet, consumed, writes, requests,
                   written, dropped, unsent, raced, crashes, throws>>

\* setAuthStatus, the reply to the client, and USER_CONNECTED.
AuthorizeUser(c) ==
    /\ task[c] = "authorize"
    /\ \E p \in packet[c] :
          /\ authStatus' = [authStatus EXCEPT ![p.addr] = "AUTHENTICATED"]
          /\ DeliverMessage({UserConnected(p.user, p.addr)})
    /\ task' = [task EXCEPT ![c] = "commit"]
    /\ UNCHANGED <<outgoing, counter, channel, userId, timer, closing, registry,
                   packet, consumed, writes, requests, written, dropped, raced,
                   crashes, throws>>

RejectUser(c) ==
    /\ task[c] = "reject"
    /\ \E p \in packet[c] :
          /\ authStatus' = [authStatus EXCEPT ![p.addr] = "NOT_AUTHENTICATED"]
          /\ closing' = closing \cup {p.addr}
    /\ task' = [task EXCEPT ![c] = "commit"]
    /\ UNCHANGED <<topics, counter, channel, userId, timer, registry, packet,
                   consumed, writes, requests, written, dropped, unsent, raced,
                   crashes, throws>>

TakeDelivery(c) ==
    \E p \in outgoing :
        /\ p.type = "DELIVER" /\ p.msg.type # "CLOSE_CONNECTION" /\ Take(c, p)
        /\ ProcessDelivery(p.msg, p.addr)
        /\ task' = [task EXCEPT ![c] = "commit"]
        /\ UNCHANGED <<sockets, registry, requests, written, dropped, raced, crashes,
                       throws>>

TakeCloseConnection(c) ==
    \E p \in outgoing :
        /\ p.type = "DELIVER" /\ p.msg.type = "CLOSE_CONNECTION" /\ Take(c, p)
        /\ ProcessClose(p.msg, p.addr)
        /\ task' = [task EXCEPT ![c] = "commit"]
        /\ UNCHANGED <<incoming, counter, userId, authStatus, timer, closing, registry,
                       writes, requests, written, dropped, unsent, raced, crashes,
                       throws>>

\* A processor throws: PostOffice.onMessageArrived reports CONNECTOR_ERROR.
TakeThrows(c) ==
    \E p \in outgoing :
        /\ p.type = "DELIVER" /\ Take(c, p) /\ throws < MaxThrows
        /\ DeliverMessage({MessageStateChanged(p.msg, p.addr, "CONNECTOR_ERROR")})
        /\ throws' = throws + 1
        /\ task' = [task EXCEPT ![c] = "commit"]
        /\ UNCHANGED <<sockets, registry, writes, requests, written, dropped, raced,
                       crashes>>

\* The packet is handled; if it was the last of its batch, all of the batch is
\* committed.
CommitPacket(c) ==
    /\ task[c] = "commit"
    /\ \E D \in BatchAfter(consumed[c], packet[c]) :
          consumed' = [consumed EXCEPT ![c] = D]
    /\ task' = [task EXCEPT ![c] = "idle"]
    /\ packet' = [packet EXCEPT ![c] = {}]
    /\ UNCHANGED <<topics, sockets, registry, writes, requests, written, dropped,
                   unsent, raced, crashes, throws>>

\* A FAST message, on the NATS dispatcher thread.
ProcessFast(c) ==
    \E p \in outgoing :
        /\ ConnectorOf(p.addr) = c /\ IsFast(p)
        /\ outgoing' = outgoing \ {p}
        /\ ProcessDelivery(p.msg, p.addr)
        /\ UNCHANGED <<sockets, registry, consumer, requests, written, dropped, raced,
                       crashes, throws>>

-----------------------------------------------------------------------------
\* Faulty: the message's own state is reported instead of the new one.
StateReportStale(m, a, success) ==
    IF IsConfirmEnabled(m) \/ (~success /\ IsReliable(m))
    THEN {MessageStateChanged(m, a, "CREATED")} ELSE {}

\* Faulty: the future is complete, so the message is processed.
StateReportIfDone(m, a, success) ==
    IF IsConfirmEnabled(m) \/ IsReliable(m)
    THEN {MessageStateChanged(m, a, "PROCESSED")} ELSE {}

\* What the listener of a write reports to the processors.
StateReport(m, a, success) ==
    IF IsConfirmEnabled(m) \/ (~success /\ IsReliable(m))
    THEN {MessageStateChanged(m, a, IF success THEN "PROCESSED" ELSE "NETWORK_ERROR")}
    ELSE {}

\* The listener runs on the event loop when the write is done or has failed.
WriteSucceeds(m, a) ==
    /\ <<m, a>> \in writes /\ channel[a] = "open"
    /\ writes' = writes \ {<<m, a>>}
    /\ written' = written \cup {<<m, userId[a]>>}
    /\ DeliverMessage(StateReport(m, a, TRUE))
    /\ UNCHANGED <<outgoing, sockets, registry, consumer, requests, dropped, raced,
                   crashes, throws>>

WriteFails(m, a) ==
    /\ <<m, a>> \in writes /\ channel[a] # "open"
    /\ writes' = writes \ {<<m, a>>}
    /\ DeliverMessage(StateReport(m, a, FALSE))
    /\ UNCHANGED <<outgoing, sockets, registry, consumer, requests, written, dropped,
                   raced, crashes, throws>>

\* The process dies and is started again under the same name: every socket and
\* everything in memory is gone, socket ids start over, and all of the batch the
\* consumer had not committed comes again, what it had handled included.
CrashRestart(c) ==
    LET Lost(a) == ConnectorOf(a) = c IN
    /\ crashes < MaxCrashes
    /\ crashes' = crashes + 1
    /\ counter' = [counter EXCEPT ![c] = 0]
    /\ channel' = [a \in Address |-> IF Lost(a) THEN "none" ELSE channel[a]]
    /\ userId' = [a \in Address |-> IF Lost(a) THEN NoUser ELSE userId[a]]
    /\ authStatus' = [a \in Address |->
                        IF Lost(a) THEN "NOT_AUTHENTICATED" ELSE authStatus[a]]
    /\ timer' = [a \in Address |-> IF Lost(a) THEN FALSE ELSE timer[a]]
    /\ users' = {e \in users : ~Lost(e[2])}
    /\ pending' = {e \in pending : ~Lost(e[2])}
    /\ closing' = {a \in closing : ~Lost(a)}
    /\ writes' = {e \in writes : ~Lost(e[2])}
    /\ dropped' = dropped \cup {e[1] : e \in {f \in writes : Lost(f[2])}}
    /\ outgoing' = outgoing \cup packet[c] \cup consumed[c]
    /\ consumed' = [consumed EXCEPT ![c] = {}]
    /\ packet' = [packet EXCEPT ![c] = {}]
    /\ task' = [task EXCEPT ![c] = "idle"]
    /\ raced' = {a \in raced : ~Lost(a)}
    /\ UNCHANGED <<incoming, requests, written, unsent, throws>>

-----------------------------------------------------------------------------
\* What the Kafka consumer thread does on its own.
ConsumerThread(c) ==
    \/ TakeAuthClientReply(c) \/ AdmitUser(c) \/ AuthorizeUser(c) \/ RejectUser(c)
    \/ TakeDelivery(c) \/ TakeCloseConnection(c) \/ CommitPacket(c)

\* What a socket's event loop does on its own.
EventLoop(a) == AuthTimeout(a) \/ CloseRejected(a) \/ HandlerRemoved(a)

ExecuteWrite == \E e \in writes : WriteSucceeds(e[1], e[2]) \/ WriteFails(e[1], e[2])

ConnectorNext ==
    \/ \E c \in Connector :
          \/ InitChannel(c) \/ ConsumerThread(c) \/ ProcessFast(c) \/ TakeThrows(c)
          \/ CrashRestart(c)
    \/ \E a \in Address :
          \/ EventLoop(a) \/ ProcessDefault(a) \/ PeerCloses(a)
          \/ \E u \in User : ProcessAuthClient(a, u)
    \/ ExecuteWrite

\* The threads keep running: a scheduled timeout fires, a closed channel leaves
\* its pipeline, a queued write is executed, the consumer consumes.
ConnectorFairness ==
    /\ \A c \in Connector :
          WF_<<connectorVars, topics>>(ConsumerThread(c))
          /\ WF_<<connectorVars, topics>>(ProcessFast(c))
    /\ \A a \in Address : WF_<<connectorVars, topics>>(EventLoop(a))
    /\ WF_<<connectorVars, topics>>(ExecuteWrite)

-----------------------------------------------------------------------------
\* Every variable of the connector stays in its range.
ConnectorTypeOK ==
    /\ counter \in [Connector -> 0..MaxSocketId]
    /\ channel \in [Address -> ChannelState]
    /\ userId \in [Address -> User \cup {NoUser}]
    /\ authStatus \in [Address -> AuthStatus]
    /\ timer \in [Address -> BOOLEAN]
    /\ users \subseteq User \X Address
    /\ pending \subseteq User \X Address
    /\ closing \subseteq Address
    /\ task \in [Connector -> TaskState]
    /\ packet \in [Connector -> SUBSET OutgoingPacket]
    /\ consumed \in [Connector -> SUBSET OutgoingPacket]
    /\ writes \subseteq Message \X Address
    /\ accepted \subseteq Payload
    /\ written \subseteq Message \X (User \cup {NoUser})
    /\ dropped \subseteq Message
    /\ raced \subseteq Address
    /\ incoming \subseteq IncomingPacket
    /\ outgoing \subseteq OutgoingPacket

\* The two registries and the sockets agree.  A socket waits for its reply
\* exactly in pendingUsers; who is found in users is a socket of that very
\* user that is authenticated, or is just about to be on the consumer thread;
\* nobody is in both registries, and a socket is registered for one user only;
\* and no authenticated socket is lost to its user before it is removed.  Event
\* loops and the consumer thread write all of this without a lock.
RegistryAgreement ==
    /\ \A u \in User, a \in Address :
          <<u, a>> \in pending =>
              /\ userId[a] = u
              /\ authStatus[a] = "AUTHENTICATING"
              /\ channel[a] \in {"open", "closed"}
              /\ <<u, a>> \notin users
    /\ \A u \in User, a \in Address :
          <<u, a>> \in users =>
              /\ userId[a] = u
              /\ \/ authStatus[a] = "AUTHENTICATED"
                 \/ task[ConnectorOf(a)] = "authorize"
    /\ \A a \in Address :
          authStatus[a] = "AUTHENTICATED" /\ channel[a] # "removed" =>
              <<userId[a], a>> \in users

\* A socket that left its pipeline stays findable (and every message to it
\* ends in NETWORK_ERROR instead of ADDRESS_NOT_FOUND, so that the processors
\* never forget the address) only if handlerRemoved ran in the middle of its
\* AuthClientReply; no other order of events leaves one behind.
GhostOnlyByRace ==
    \A u \in User, a \in Address :
        <<u, a>> \in users /\ channel[a] = "removed" => a \in raced

\* A client that does not get itself authenticated cannot keep its connection:
\* as long as a socket is open and not authenticated, also while its request or
\* the reply is on its way or was lost, the one timeout that closes it is to come.
TimeoutPending ==
    \A a \in Address :
        channel[a] = "open" /\ authStatus[a] # "AUTHENTICATED" => timer[a]

\* A message is written to sockets of its addressee only, even though socket
\* ids start over after a crash while packets for the old ones are on the way.
NoMisdelivery ==
    \A w \in written : w[2] = w[1].to
=============================================================================
