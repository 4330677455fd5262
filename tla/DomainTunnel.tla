---------------------------- MODULE DomainTunnel ----------------------------
(***************************************************************************)
(* The tunnels of a domain: TCP clients of the linked domains' connectors, *)
(* through which the messages for this domain are pulled.                  *)
(*                                                                         *)
(* The setup thread (DomainService.init) starts the connections and adds   *)
(* the callbacks afterwards, one by one; netty's event loop may run before *)
(* a callback is there, and then nothing happens.  A scheduler connects    *)
(* again.  The peer (the connector and the processors of the linked        *)
(* domain, which serve the tunnel like any other client) is kept simple.   *)
(***************************************************************************)
EXTENDS Naturals, FiniteSets

CONSTANTS
    Link,          \* the linked domains, one tunnel to each
    Message,       \* the messages the linked domains have for this one
    Via,           \* the linked domain that has each message
    PageSize,      \* how many messages a tunnel fetches at a time
    MaxAttempts,   \* bound: connections of a tunnel
    MaxFaults      \* bound: failures and losses of connections, rejections

ASSUME TunnelAssumption ==
    /\ Via \in [Message -> Link]
    /\ PageSize \in Nat \ {0}
    /\ MaxAttempts \in Nat

VARIABLES
    callbacks,        \* the callbacks set so far, of the client and the tunnel
    attempts,         \* connections started; the last one's handler is the client's
    channel,          \* the state of each connection's channel
    scheduled,        \* reconnects waiting in the scheduler
    isAuthenticated,  \* DomainTunnel.isAuthenticated
    toPeer,           \* (connection, packet) on the way to the peer
    fromPeer,         \* (connection, packet) on the way from the peer
    granted,          \* peer: the connections it has authenticated
    unsent,           \* peer: messages not yet addressed to this domain
    stored,           \* peer: messages in its database
    received,         \* messages handed to PostOffice.onMessageArrived
    ignored,          \* history: messages that found no message callback
    fetched,          \* history: messages the peer handed out in a fetch
    stranded,         \* history: tunnels that lost a connection unheard
    deaf,             \* history: tunnels whose last grant came unheard
    faults            \* budget spent

wiring == <<callbacks, stranded, deaf>>
peer == <<granted, unsent, stored, fetched>>
outcome == <<received, ignored>>
vars == <<callbacks, attempts, channel, scheduled, isAuthenticated, toPeer, fromPeer,
          granted, unsent, stored, received, ignored, fetched, stranded, deaf, faults>>

Callback == {"connected", "disconnected", "message", "authenticated"}
Connection == Link \X (1..MaxAttempts)
ChannelState == {"none", "connecting", "open", "closed", "removed"}

AuthClientReply(ok) == [type |-> "AUTH_CLIENT_REPLY", ok |-> ok]
InternalMessage(m) == [type |-> "INTERNAL_MESSAGE", msg |-> m]
FetchComplete(left) == [type |-> "FETCH_MISSING_MESSAGES_COMPLETE", left |-> left]

\* TcpSocketClient.socketClientHandler belongs to the newest connection.
Current(d) == <<d, attempts[d]>>

Init ==
    /\ callbacks = [d \in Link |-> {}]
    /\ attempts = [d \in Link |-> 0]
    /\ channel = [e \in Connection |-> "none"]
    /\ scheduled = [d \in Link |-> 0]
    /\ isAuthenticated = [d \in Link |-> FALSE]
    /\ toPeer = {} /\ fromPeer = {}
    /\ granted = {} /\ unsent = Message /\ stored = {}
    /\ received = {} /\ ignored = {} /\ fetched = {}
    /\ stranded = {} /\ deaf = {} /\ faults = 0

-----------------------------------------------------------------------------
\* TcpSocketClient.doConnect: a new channel with a new handler.
DoConnect(d) ==
    /\ attempts[d] < MaxAttempts
    /\ attempts' = [attempts EXCEPT ![d] = @ + 1]
    /\ channel' = [channel EXCEPT ![<<d, attempts[d] + 1>>] = "connecting"]

Linked(d) == attempts[d] > 0 /\ {"connected", "disconnected"} \subseteq callbacks[d]

\* The setup thread is between createTunnel's statements, or between the two
\* that DomainService.init adds.
InHand(d) ==
    \/ attempts[d] > 0 /\ ~Linked(d)
    \/ "message" \in callbacks[d] /\ "authenticated" \notin callbacks[d]

\* DomainTunnelService.createTunnel, up to the connect.
CreateTunnel(d) ==
    /\ attempts[d] = 0 /\ \A e \in Link : ~InHand(e)
    /\ DoConnect(d)
    /\ UNCHANGED <<wiring, scheduled, isAuthenticated, toPeer, fromPeer, peer, outcome,
                   faults>>

\* Faulty: the callback that fetches comes before the one for messages.
FetchingFirst(d) ==
    IF attempts[d] = 0 THEN {}
    ELSE IF "connected" \notin callbacks[d] THEN {"connected"}
    ELSE IF "disconnected" \notin callbacks[d] THEN {"disconnected"}
    ELSE IF \E e \in Link : ~Linked(e) THEN {}
    ELSE IF "authenticated" \notin callbacks[d] THEN {"authenticated"}
    ELSE {"message"} \ callbacks[d]

\* The order in which the setup thread adds the callbacks: connected and
\* disconnected after the connect, the other two when all tunnels are created.
NextCallback(d) ==
    IF attempts[d] = 0 THEN {}
    ELSE IF "connected" \notin callbacks[d] THEN {"connected"}
    ELSE IF "disconnected" \notin callbacks[d] THEN {"disconnected"}
    ELSE IF \E e \in Link : ~Linked(e) THEN {}
    ELSE IF "message" \notin callbacks[d] THEN {"message"}
    ELSE {"authenticated"} \ callbacks[d]

AddCallback(d) ==
    /\ \A e \in Link \ {d} : ~InHand(e)
    /\ \E cb \in NextCallback(d) : callbacks' = [callbacks EXCEPT ![d] = @ \cup {cb}]
    /\ UNCHANGED <<attempts, channel, scheduled, isAuthenticated, toPeer, fromPeer,
                   peer, outcome, stranded, deaf, faults>>

-----------------------------------------------------------------------------
\* SocketClientHandler.sendMessage on the client's handler; what is written to
\* a channel that is not open is lost without notice.
SendMessage(d, type) ==
    toPeer' = IF channel'[Current(d)] = "open"
              THEN toPeer \cup {<<Current(d), type>>} ELSE toPeer

\* Faulty: the flag is left as the last connection set it.
StillAuthenticated(d) == isAuthenticated

\* DomainTunnel.authenticate starts with isAuthenticated = false.
NotAuthenticated(d) == [isAuthenticated EXCEPT ![d] = FALSE]

\* The connect listener: authenticate, if the connected callback is there.
ConnectSucceeds(e) ==
    LET d == e[1] IN
    /\ channel[e] = "connecting"
    /\ channel' = [channel EXCEPT ![e] = "open"]
    /\ IF "connected" \in callbacks[d]
       THEN /\ isAuthenticated' = NotAuthenticated(d)
            /\ SendMessage(d, "AUTH_CLIENT")
            /\ deaf' = deaf \ {d}
       ELSE UNCHANGED <<isAuthenticated, toPeer, deaf>>
    /\ UNCHANGED <<callbacks, attempts, scheduled, fromPeer, peer, outcome,
                   stranded, faults>>

\* A failed connect closes the channel; nothing else is done about it here.
ConnectFails(e) ==
    /\ channel[e] = "connecting" /\ faults < MaxFaults
    /\ faults' = faults + 1
    /\ channel' = [channel EXCEPT ![e] = "closed"]
    /\ UNCHANGED <<wiring, attempts, scheduled, isAuthenticated, toPeer, fromPeer, peer,
                   outcome>>

ConnectionBreaks(e) ==
    /\ channel[e] = "open" /\ faults < MaxFaults
    /\ faults' = faults + 1
    /\ channel' = [channel EXCEPT ![e] = "closed"]
    /\ UNCHANGED <<wiring, attempts, scheduled, isAuthenticated, toPeer, fromPeer, peer,
                   outcome>>

\* Faulty: a connection that was never authenticated is not replaced.
ScheduleIfAuthenticated(d) ==
    IF isAuthenticated[d] THEN [scheduled EXCEPT ![d] = @ + 1] ELSE scheduled

\* DomainTunnel.scheduleReconnection.
ScheduleReconnection(d) == [scheduled EXCEPT ![d] = @ + 1]

\* SocketClientHandler.handlerRemoved, on every closed channel: reconnect in
\* ten seconds, if the disconnected callback is there.  The peer stores again
\* some of the messages that were on the way (the others count as written).
HandlerRemoved(e) ==
    LET d == e[1]
        undelivered == {m \in Message : <<e, InternalMessage(m)>> \in fromPeer}
    IN
    /\ channel[e] = "closed"
    /\ channel' = [channel EXCEPT ![e] = "removed"]
    /\ IF "disconnected" \in callbacks[d]
       THEN scheduled' = ScheduleReconnection(d) /\ UNCHANGED stranded
       ELSE stranded' = stranded \cup {d} /\ UNCHANGED scheduled
    /\ toPeer' = {q \in toPeer : q[1] # e}
    /\ fromPeer' = {q \in fromPeer : q[1] # e}
    /\ \E again \in SUBSET undelivered : stored' = stored \cup again
    /\ UNCHANGED <<callbacks, attempts, isAuthenticated, granted, unsent, fetched,
                   outcome, deaf, faults>>

\* Faulty: a connection that was closed is replaced at once, too.
ClosedOrDue(d) == scheduled[d] > 0 \/ (attempts[d] > 0 /\ channel[Current(d)] = "closed")

ReconnectDue(d) == scheduled[d] > 0

\* The scheduler runs the reconnect.
Reconnect(d) ==
    /\ ReconnectDue(d)
    /\ scheduled' = [scheduled EXCEPT ![d] = @ - 1]
    /\ DoConnect(d)
    /\ UNCHANGED <<wiring, isAuthenticated, toPeer, fromPeer, peer, outcome,
                   faults>>

-----------------------------------------------------------------------------
\* A packet is read from connection e.
Read(e, p) ==
    /\ channel[e] = "open" /\ <<e, p>> \in fromPeer
    /\ fromPeer' = fromPeer \ {<<e, p>>}

\* DomainService.fetchMissingMessages; DomainTunnel.sendMessage throws while the
\* tunnel is not authenticated, and the exception is ignored.
FetchMissingMessages(d, authenticated) ==
    IF authenticated
    THEN SendMessage(d, "FETCH_MISSING_MESSAGES_REQUEST") ELSE UNCHANGED toPeer

\* handleAuthReplay and DomainService.onAuthenticated; a rejection disconnects.
HandleAuthReply(e) ==
    LET d == e[1] IN
    /\ \/ /\ Read(e, AuthClientReply(TRUE))
          /\ isAuthenticated' = [isAuthenticated EXCEPT ![d] = TRUE]
          /\ UNCHANGED channel
          /\ IF "authenticated" \in callbacks[d]
             THEN FetchMissingMessages(d, TRUE) /\ UNCHANGED deaf
             ELSE deaf' = deaf \cup {d} /\ UNCHANGED toPeer
       \/ /\ Read(e, AuthClientReply(FALSE))
          /\ channel' = [channel EXCEPT ![Current(d)] = "closed"]
          /\ UNCHANGED <<isAuthenticated, toPeer, deaf>>
    /\ UNCHANGED <<callbacks, attempts, scheduled, peer, outcome, stranded, faults>>

\* DomainService.handleInternalMessage hands the message to the post office;
\* without the message callback it is ignored.
HandleInternalMessage(e) ==
    /\ \E m \in Message :
          /\ Read(e, InternalMessage(m))
          /\ IF "message" \in callbacks[e[1]]
             THEN received' = received \cup {m} /\ UNCHANGED ignored
             ELSE ignored' = ignored \cup {m} /\ UNCHANGED received
    /\ UNCHANGED <<wiring, attempts, channel, scheduled, isAuthenticated, toPeer, peer,
                   faults>>

\* Faulty: one page is enough.
NoneMissing(left) == FALSE

MoreMissing(left) == left > 0

\* DomainService.handleFetchingMessagesComplete.
HandleFetchComplete(e) ==
    /\ UNCHANGED <<wiring, attempts, channel, scheduled, isAuthenticated, peer, outcome,
                   faults>>
    /\ \E left \in 0..Cardinality(Message) :
          /\ Read(e, FetchComplete(left))
          /\ IF "message" \in callbacks[e[1]] /\ MoreMissing(left)
             THEN FetchMissingMessages(e[1], isAuthenticated[e[1]])
             ELSE UNCHANGED toPeer

-----------------------------------------------------------------------------
\* The peer answers the authentication request; it may reject the tunnel's user.
PeerAuthenticates(e, ok) ==
    /\ channel[e] = "open" /\ <<e, "AUTH_CLIENT">> \in toPeer
    /\ ok \/ faults < MaxFaults
    /\ faults' = IF ok THEN faults ELSE faults + 1
    /\ granted' = IF ok THEN granted \cup {e} ELSE granted
    /\ toPeer' = toPeer \ {<<e, "AUTH_CLIENT">>}
    /\ fromPeer' = fromPeer \cup {<<e, AuthClientReply(ok)>>}
    /\ UNCHANGED <<wiring, attempts, channel, scheduled, isAuthenticated, unsent, stored,
                   fetched, outcome>>

\* Nothing was asked on this connection.
Silent(e) == (\A q \in toPeer : q[1] # e) /\ (\A q \in fromPeer : q[1] # e)

\* The peer's authentication timeout (a silent connection is no fault of the
\* budget: it happens to the first connection only).
PeerTimesOut(e) ==
    /\ channel[e] = "open" /\ e \notin granted
    /\ Silent(e) \/ faults < MaxFaults
    /\ faults' = IF Silent(e) THEN faults ELSE faults + 1
    /\ channel' = [channel EXCEPT ![e] = "closed"]
    /\ UNCHANGED <<wiring, attempts, scheduled, isAuthenticated, toPeer, fromPeer, peer,
                   outcome>>

\* The peer has a message for this domain: it sends it to the tunnel if it is
\* connected, or stores it (as it also does just before it registers the tunnel).
PeerSends(m) ==
    /\ m \in unsent
    /\ unsent' = unsent \ {m}
    /\ \/ /\ stored' = stored \cup {m}
          /\ UNCHANGED fromPeer
       \/ /\ \E e \in granted :
                /\ e[1] = Via[m] /\ channel[e] = "open"
                /\ fromPeer' = fromPeer \cup {<<e, InternalMessage(m)>>}
          /\ UNCHANGED stored
    /\ UNCHANGED <<wiring, attempts, channel, scheduled, isAuthenticated, toPeer, granted,
                   fetched, outcome, faults>>

\* The peer hands out a page of what it has stored, and says how much is left.
PeerFetches(e) ==
    LET missing == {m \in stored : Via[m] = e[1]} IN
    /\ channel[e] = "open" /\ <<e, "FETCH_MISSING_MESSAGES_REQUEST">> \in toPeer
    /\ toPeer' = toPeer \ {<<e, "FETCH_MISSING_MESSAGES_REQUEST">>}
    /\ \E page \in SUBSET missing :
          /\ \/ page = missing /\ Cardinality(missing) <= PageSize
             \/ Cardinality(page) = PageSize
          /\ stored' = stored \ page
          /\ fetched' = fetched \cup page
          /\ fromPeer' = fromPeer \cup {<<e, InternalMessage(m)>> : m \in page}
                            \cup {<<e, FetchComplete(Cardinality(missing \ page))>>}
    /\ UNCHANGED <<wiring, attempts, channel, scheduled, isAuthenticated, granted, unsent,
                   outcome, faults>>

-----------------------------------------------------------------------------
SetupThread(d) == CreateTunnel(d) \/ AddCallback(d)

EventLoop(e) ==
    \/ ConnectSucceeds(e) \/ HandlerRemoved(e) \/ HandleAuthReply(e)
    \/ HandleInternalMessage(e) \/ HandleFetchComplete(e)

Peer(e) ==
    \/ PeerAuthenticates(e, TRUE) \/ PeerFetches(e)
    \/ Silent(e) /\ PeerTimesOut(e)

Next ==
    \/ \E d \in Link : CreateTunnel(d) \/ AddCallback(d) \/ Reconnect(d)
    \/ \E e \in Connection :
          \/ ConnectSucceeds(e) \/ ConnectFails(e) \/ ConnectionBreaks(e)
          \/ HandlerRemoved(e) \/ HandleAuthReply(e) \/ HandleInternalMessage(e)
          \/ HandleFetchComplete(e) \/ PeerTimesOut(e) \/ PeerFetches(e)
          \/ \E ok \in BOOLEAN : PeerAuthenticates(e, ok)
    \/ \E m \in Message : PeerSends(m)

Spec == Init /\ [][Next]_vars

\* The threads keep running, the scheduler fires, and a peer that can be
\* reached answers; that it can be reached in the end is the fault budget.
FairSpec ==
    /\ Spec
    /\ \A d \in Link : WF_vars(SetupThread(d)) /\ WF_vars(Reconnect(d))
    /\ \A e \in Connection : WF_vars(EventLoop(e)) /\ WF_vars(Peer(e))

-----------------------------------------------------------------------------
\* Every variable stays in its range.
TypeOK ==
    /\ callbacks \in [Link -> SUBSET Callback]
    /\ attempts \in [Link -> 0..MaxAttempts]
    /\ channel \in [Connection -> ChannelState]
    /\ scheduled \in [Link -> Nat]
    /\ isAuthenticated \in [Link -> BOOLEAN]
    /\ granted \subseteq Connection
    /\ unsent \cup stored \cup received \cup ignored \cup fetched \subseteq Message
    /\ stranded \cup deaf \subseteq Link

Alive(e) == channel[e] \in {"connecting", "open", "closed"}

\* A tunnel has one lifeline: either its newest connection is alive or one
\* reconnect is scheduled, never both, never two, and never none unless the
\* first connection ended before createTunnel had set the disconnected callback.
OneLifeline ==
    \A d \in Link :
        /\ \A i \in 1..MaxAttempts : Alive(<<d, i>>) => i = attempts[d] /\ scheduled[d] = 0
        /\ scheduled[d] <= 1
        /\ attempts[d] > 0 /\ d \notin stranded => scheduled[d] = 1 \/ Alive(Current(d))

\* isAuthenticated outlives the connection it was set for, but on an open
\* connection it is never a leftover: the peer has granted that connection.
AuthenticatedIsGranted ==
    \A d \in Link :
        isAuthenticated[d] /\ attempts[d] > 0 /\ channel[Current(d)] = "open"
            => Current(d) \in granted

\* What a fetch takes out of the peer's database is not ignored, though what
\* the peer sends on its own may come before DomainService.init is done.
FetchedNotIgnored == fetched \cap ignored = {}

Down(d) == \A e \in granted : e[1] = d => channel[e] # "open"

\* What is stored while the tunnel is down is fetched when it is up again (page
\* by page), unless the tunnel is stranded, or was authenticated before
\* DomainService.init had set the callback that fetches.
MissedMessagesFetched ==
    \A m \in Message :
        m \in stored /\ Down(Via[m])
            ~> m \notin stored \/ Via[m] \in stranded \cup deaf
=============================================================================
