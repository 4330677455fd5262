--------------------------- MODULE Domain_proofs ---------------------------
(***************************************************************************)
(* The theorems about a domain, for any number of connectors, workers,     *)
(* users, messages, crashes and failures.  First, what a step of a         *)
(* processor preserves, whatever well-formed packets the connectors send.  *)
(***************************************************************************)
EXTENDS Domain, Connector_proofs

\* What the consumers put on their topics is well formed.
TopicTypes == incoming \subseteq IncomingPacket /\ outgoing \subseteq OutgoingPacket

ProcessorTypes ==
    /\ userChannel \in [User -> SUBSET Address]
    /\ locks \subseteq User \X Worker
    /\ store \in [Message -> ErrorState \cup {"absent"}]
    /\ stage \in [Worker -> Stage]
    /\ job \in [Worker -> SUBSET IncomingPacket]
    /\ handled \in [Worker -> SUBSET IncomingPacket]
    /\ seen \in [Worker -> SUBSET Address]
    /\ doc \in [Worker -> SUBSET Message]
    /\ todo \in [Worker -> SUBSET Message]
    /\ buffer \subseteq Worker \X OutgoingPacket

\* The packet of a worker's handler, and the message the handler delivers: it
\* is the one that arrived, or what a report says of a processed message.
JobOf(w) ==
    /\ (job[w] = {}) = (stage[w] = "idle")
    /\ \A p, q \in job[w] : p = q
    /\ stage[w] \in {"lock", "next", "remove"} =>
          \A p \in job[w] : p.type = "FETCH_MISSING_MESSAGES_REQUEST"
    /\ stage[w] \in {"route", "send", "remove"} => \E m \in Message : doc[w] = {m}
    /\ stage[w] \in {"route", "send"} =>
          \A p \in job[w] :
              (\/ p.type = "MESSAGE"
               \/ p.type = "MESSAGE_STATE_CHANGED" /\ p.state # "PROCESSED")
                  => doc[w] = {p.msg}

\* A page belongs to the user whose lock its worker holds, and what is removed
\* is of the page.
PageOf(w) ==
    /\ todo[w] # {} =>
          \E p \in job[w] :
              /\ p.type = "FETCH_MISSING_MESSAGES_REQUEST"
              /\ <<p.user, w>> \in locks
              /\ \A m \in todo[w] : m.to = p.user
    /\ stage[w] = "remove" => doc[w] \subseteq todo[w]

LockInv == \A k, l \in locks : k[1] = l[1] => k = l

HandlerInv ==
    ProcessorTypes /\ LockInv /\ \A w \in Worker : JobOf(w) /\ PageOf(w)

USE UserAssumption, PayloadAssumption, SocketAssumption, WorkerAssumption

-----------------------------------------------------------------------------
LEMMA InitHandler == ProcessorInit => HandlerInv
BY DEF ProcessorInit, HandlerInv, ProcessorTypes, JobOf, PageOf, LockInv, Stage, ErrorState

\* ProcessorTypeOK and FetchesExclusive are parts of the invariant.
LEMMA HandlerConsequences ==
    HandlerInv => ProcessorTypeOK /\ FetchesExclusive
<1> SUFFICES ASSUME HandlerInv PROVE ProcessorTypeOK /\ FetchesExclusive
    OBVIOUS
<1>1. ASSUME NEW w \in Worker, todo[w] # {}
      PROVE  \E l \in locks : l[2] = w
    <2>1. PICK p \in job[w] : <<p.user, w>> \in locks
        BY <1>1 DEF HandlerInv, PageOf
    <2> QED
        BY <2>1
<1>2. ProcessorTypeOK
    BY <1>1 DEF HandlerInv, ProcessorTypes, JobOf, ProcessorTypeOK
<1>3. ASSUME NEW v \in Worker, NEW w \in Worker, NEW m \in todo[v], m \in todo[w]
      PROVE  v = w
    <2>1. PICK p \in job[v] : <<p.user, v>> \in locks /\ m.to = p.user
        BY <1>3 DEF HandlerInv, PageOf
    <2>2. PICK q \in job[w] : <<q.user, w>> \in locks /\ m.to = q.user
        BY <1>3 DEF HandlerInv, PageOf
    <2>3. <<p.user, v>> = <<q.user, w>>
        BY <2>1, <2>2 DEF HandlerInv, LockInv
    <2> QED
        BY <2>3
<1>4. FetchesExclusive
    BY <1>3 DEF FetchesExclusive
<1> QED
    BY <1>2, <1>4
-----------------------------------------------------------------------------
\* What is in a packet.
LEMMA IncomingFields ==
    ASSUME NEW p \in IncomingPacket
    PROVE  /\ p.type \in {"AUTH_CLIENT", "USER_CONNECTED", "USER_DISCONNECTED"} =>
                 p.user \in User /\ p.addr \in Address
           /\ p.type = "MESSAGE" => p.msg \in Message /\ p.msg.type = "MESSAGE"
           /\ p.type = "MESSAGE_STATE_CHANGED" =>
                 p.msg \in Message /\ p.addr \in Address
                 /\ p.state \in ErrorState \cup {"PROCESSED"}
           /\ p.type \in {"FETCH_MISSING_MESSAGES_REQUEST", "CLOSE_CONNECTION"} =>
                 p.user \in User
BY DEF IncomingPacket, Message, AppMessages, AppMessage, Msg, ErrorState

\* The messages the handlers make up.
LEMMA Messages ==
    /\ \A u \in User : FetchComplete(u) \in Message /\ CloseConnection(u) \in Message
    /\ \A u \in User, a \in Address, t \in {"USER_CONNECTED", "USER_DISCONNECTED"} :
          Master # NoUser => Notice(t, u, a) \in Message
    /\ \A m \in Message : m.type = "MESSAGE" =>
          m.about \in Payload /\ m = AppMessage(m.about)
          /\ Confirmation(m.about) \in Message
    /\ \A m \in Message : m.to \in User
<1>1. \A u \in User : FetchComplete(u) \in Message /\ CloseConnection(u) \in Message
    BY DEF Message
<1>2. \A u \in User, a \in Address, t \in {"USER_CONNECTED", "USER_DISCONNECTED"} :
          Master # NoUser => Notice(t, u, a) \in Message
    BY DEF Message
<1>3. ASSUME NEW m \in Message, m.type = "MESSAGE"
      PROVE  m.about \in Payload /\ m = AppMessage(m.about)
             /\ Confirmation(m.about) \in Message
    <2>1. m \in AppMessages
        BY <1>3 DEF Message, Confirmation, Notice, FetchComplete, CloseConnection, Msg
    <2>2. PICK x \in Payload : m = AppMessage(x)
        BY <2>1 DEF AppMessages
    <2>3. m.about = x
        BY <2>2 DEF AppMessage, Msg
    <2> QED
        BY <2>2, <2>3 DEF Message
<1>4. ASSUME NEW m \in Message PROVE m.to \in User
    <2>1. CASE Master = NoUser
        BY <2>1 DEF Message, AppMessages, AppMessage, Confirmation, FetchComplete,
           CloseConnection, Msg
    <2>2. CASE Master # NoUser
        <3>1. Master \in User
            BY <2>2
        <3> QED
            BY <2>2, <3>1 DEF Message, AppMessages, AppMessage, Confirmation, Notice,
               FetchComplete, CloseConnection, Msg
    <2> QED
        BY <2>1, <2>2
<1> QED
    BY <1>1, <1>2, <1>3, <1>4

LEMMA Packets ==
    /\ \A m \in Message, a \in Address : Delivery(m, a) \in OutgoingPacket
    /\ \A u \in User, a \in Address, ok \in BOOLEAN :
          AuthClientReply(u, a, ok) \in OutgoingPacket
BY DEF Delivery, AuthClientReply, OutgoingPacket

\* A step of worker w disturbs no other worker.
Others(w) ==
    /\ \A v \in Worker \ {w} : /\ stage'[v] = stage[v] /\ job'[v] = job[v]
                             /\ doc'[v] = doc[v] /\ todo'[v] = todo[v]
    /\ \A u, v : v # w /\ <<u, v>> \in locks => <<u, v>> \in locks'

LEMMA HandlerFrame ==
    ASSUME HandlerInv, NEW w \in Worker, ProcessorTypes', LockInv', Others(w),
           JobOf(w)', PageOf(w)'
    PROVE  HandlerInv'
<1>1. ASSUME NEW v \in Worker \ {w} PROVE JobOf(v)' /\ PageOf(v)'
    <2>1. JobOf(v) /\ PageOf(v)
        BY DEF HandlerInv
    <2> QED
        BY <2>1 DEF JobOf, PageOf, Others
<1> QED
    BY <1>1 DEF HandlerInv

-----------------------------------------------------------------------------
\* A batch takes in the packet that its worker is done with, at most.
LEMMA HandledComes ==
    ASSUME ProcessorTypes, ProcessorNext
    PROVE  /\ handled' \in [Worker -> SUBSET IncomingPacket]
           /\ \A v \in Worker : handled'[v] \subseteq handled[v] \cup job[v]
<1>1. ASSUME NEW w \in Worker, NEW D, D \subseteq handled[w] \cup job[w],
             handled' = [handled EXCEPT ![w] = D]
      PROVE  /\ handled' \in [Worker -> SUBSET IncomingPacket]
             /\ \A v \in Worker : handled'[v] \subseteq handled[v] \cup job[v]
    BY <1>1 DEF ProcessorTypes
<1>2. ASSUME NEW w \in Worker, Commit(w) \/ WorkerCrash(w)
      PROVE  \E D : D \subseteq handled[w] \cup job[w] /\ handled' = [handled EXCEPT ![w] = D]
    <2>1. CASE Commit(w)
        <3>1. PICK D \in BatchAfter(handled[w], {p \in job[w] : ~IsFast(p)}) :
                  handled' = [handled EXCEPT ![w] = D]
            BY <2>1 DEF Commit
        <3>2. D \subseteq handled[w] \cup job[w]
            BY BatchGrows
        <3> QED
            BY <3>1, <3>2
    <2>2. CASE WorkerCrash(w)
        BY <2>2 DEF WorkerCrash
    <2> QED
        BY <1>2, <2>1, <2>2
<1>3. ASSUME NEW w \in Worker,
             WorkerThread(w) \/ HandlerFails(w) \/ PersistFails(w) \/ ChangeFails(w), ~Commit(w)
      PROVE  UNCHANGED handled
    BY <1>3 DEF WorkerThread, AnswerAuthClient, ReadUserChannel, WriteUserChannel,
       ChangeMessageState, RequestMessage, RequestClose, RequestFetch, FindMessages,
       RouteMissing, Remove, Route, Send, HandlerFails, PersistFails, ChangeFails
<1>4. ASSUME NEW e \in buffer, Delivered(e) \/ DeliveryFailed(e) PROVE UNCHANGED handled
    BY <1>4 DEF Delivered, DeliveryFailed
<1>5. UNCHANGED handled \/ \E w \in Worker : Commit(w) \/ WorkerCrash(w)
    BY <1>3, <1>4 DEF ProcessorNext, WorkerThread
<1>6. CASE UNCHANGED handled
    BY <1>6 DEF ProcessorTypes
<1> QED
    BY <1>1, <1>2, <1>5, <1>6

\* What persistMessage makes of the database.
LEMMA PersistTypes ==
    ASSUME ProcessorTypes, NEW m \in Message, NEW state \in ErrorState \cup {"PROCESSED"},
           PersistMessage(m, state)
    PROVE  store' \in [Message -> ErrorState \cup {"absent"}]
BY DEF ProcessorTypes, PersistMessage, ErrorState

\* A handler that starts has no page.
LEMMA StartSteps ==
    ASSUME HandlerInv, TopicTypes, NEW w \in Worker,
           \/ AnswerAuthClient(w) \/ ReadUserChannel(w) \/ ChangeMessageState(w)
           \/ RequestMessage(w) \/ RequestClose(w) \/ RequestFetch(w) \/ ChangeFails(w)
    PROVE  HandlerInv' /\ TopicTypes'
<1>1. PICK p \in incoming : Start(w, p) /\
          \/ /\ p.type = "AUTH_CLIENT"
             /\ \E ok \in BOOLEAN :
                   buffer' = buffer \cup {<<w, AuthClientReply(p.user, p.addr, ok)>>}
             /\ Goto(w, "commit") /\ UNCHANGED <<seen, doc, store>>
          \/ /\ \E u \in User : seen' = [seen EXCEPT ![w] = userChannel[u]]
             /\ Goto(w, "merge") /\ UNCHANGED <<buffer, doc, store>>
          \/ /\ p.type = "MESSAGE_STATE_CHANGED"
             /\ PersistMessage(p.msg, p.state)
             /\ UNCHANGED <<buffer, seen>>
             /\ \/ /\ p.state = "PROCESSED" /\ Goto(w, "route")
                   /\ \E m \in Message : doc' = [doc EXCEPT ![w] = {m}]
                \/ Goto(w, "commit") /\ UNCHANGED doc
          \/ /\ p.type = "MESSAGE" /\ Goto(w, "route")
             /\ doc' = [doc EXCEPT ![w] = {p.msg}]
             /\ UNCHANGED <<buffer, seen, store>>
          \/ /\ p.type = "CLOSE_CONNECTION"
             /\ UNCHANGED <<buffer, seen, store>>
             /\ \/ /\ \E m \in Message : doc' = [doc EXCEPT ![w] = {m}]
                   /\ Goto(w, "route")
                \/ Goto(w, "commit") /\ UNCHANGED doc
          \/ /\ p.type = "FETCH_MISSING_MESSAGES_REQUEST" /\ Goto(w, "lock")
             /\ UNCHANGED <<buffer, seen, doc, store>>
          \/ /\ p.type = "MESSAGE_STATE_CHANGED" /\ Goto(w, "commit")
             /\ UNCHANGED <<buffer, seen, doc, store>>
    <2>0. \A p \in incoming : p \in IncomingPacket
        BY DEF TopicTypes
    <2>1. CASE AnswerAuthClient(w)
        BY <2>1 DEF AnswerAuthClient
    <2>2. CASE ReadUserChannel(w)
        <3>1. PICK p \in incoming :
                  /\ \/ p.type \in {"USER_CONNECTED", "USER_DISCONNECTED"}
                     \/ p.type = "MESSAGE_STATE_CHANGED" /\ p.state = "ADDRESS_NOT_FOUND"
                  /\ Start(w, p) /\ Goto(w, "merge")
                  /\ seen' = [seen EXCEPT ![w] =
                        userChannel[IF p.type = "MESSAGE_STATE_CHANGED" THEN p.msg.to
                                    ELSE p.user]]
                  /\ UNCHANGED <<buffer, doc, store>>
            BY <2>2 DEF ReadUserChannel
        <3>2. (IF p.type = "MESSAGE_STATE_CHANGED" THEN p.msg.to ELSE p.user) \in User
            BY <2>0, <3>1, IncomingFields, Messages
        <3> QED
            BY <3>1, <3>2
    <2>3. CASE ChangeMessageState(w)
        <3>1. PICK p \in incoming :
                  /\ p.type = "MESSAGE_STATE_CHANGED" /\ Start(w, p)
                  /\ PersistMessage(p.msg, p.state)
                  /\ IF ToConfirm(p)
                     THEN /\ doc' = [doc EXCEPT ![w] = {Confirmation(p.msg.about)}]
                          /\ Goto(w, "route")
                     ELSE Goto(w, "commit") /\ UNCHANGED doc
                  /\ UNCHANGED <<buffer, seen>>
            BY <2>3 DEF ChangeMessageState
        <3>2. ToConfirm(p) =>
                  p.state = "PROCESSED" /\ Confirmation(p.msg.about) \in Message
            BY <2>0, <3>1, IncomingFields, Messages DEF ToConfirm
        <3> QED
            BY <3>1, <3>2
    <2>4. CASE RequestMessage(w)
        BY <2>4 DEF RequestMessage
    <2>5. CASE RequestClose(w)
        <3>1. PICK p \in incoming :
                  /\ p.type = "CLOSE_CONNECTION" /\ Start(w, p)
                  /\ \/ /\ doc' = [doc EXCEPT ![w] = {CloseConnection(p.user)}]
                        /\ Goto(w, "route")
                     \/ Goto(w, "commit") /\ UNCHANGED doc
                  /\ UNCHANGED <<buffer, seen, store>>
            BY <2>5 DEF RequestClose
        <3>2. CloseConnection(p.user) \in Message
            BY <2>0, <3>1, IncomingFields, Messages
        <3> QED
            BY <3>1, <3>2
    <2>6. CASE RequestFetch(w)
        BY <2>6 DEF RequestFetch
    <2>7. CASE ChangeFails(w)
        BY <2>7 DEF ChangeFails
    <2> QED
        BY <2>1, <2>2, <2>3, <2>4, <2>5, <2>6, <2>7
<1>2. UNCHANGED <<userChannel, locks, todo, outgoing>>
    BY DEF AnswerAuthClient, ReadUserChannel, ChangeMessageState, RequestMessage,
       RequestClose, RequestFetch, ChangeFails, redis
<1>3. /\ p \in IncomingPacket /\ stage[w] = "idle" /\ job' = [job EXCEPT ![w] = {p}]
      /\ incoming' \subseteq incoming
    BY <1>1 DEF TopicTypes, Start
<1>4. todo[w] = {} /\ job[w] = {}
    BY <1>3 DEF HandlerInv, JobOf, PageOf
<1>5. \E s \in Stage : stage' = [stage EXCEPT ![w] = s] /\ s \notin {"idle", "remove", "send", "next"}
    BY <1>1 DEF Goto, Stage
<1>t. ProcessorTypes
    BY DEF HandlerInv
<1>6. /\ job' \in [Worker -> SUBSET IncomingPacket] /\ stage' \in [Worker -> Stage]
      /\ job'[w] = {p} /\ stage'[w] \notin {"idle", "remove", "send", "next"}
    BY <1>3, <1>5, <1>t DEF ProcessorTypes
<1>7. doc' \in [Worker -> SUBSET Message] /\ \A v \in Worker \ {w} : doc'[v] = doc[v]
    <2>1. p.type = "MESSAGE" => p.msg \in Message
        BY <1>3, IncomingFields
    <2>2. \/ UNCHANGED doc \/ \E m \in Message : doc' = [doc EXCEPT ![w] = {m}]
        BY <1>1, <2>1
    <2> QED
        BY <2>2, <1>t DEF ProcessorTypes
<1>8. seen' \in [Worker -> SUBSET Address]
    BY <1>1, <1>t DEF ProcessorTypes, PersistMessage
<1>9. buffer' \subseteq Worker \X OutgoingPacket
    <2>1. CASE p.type = "AUTH_CLIENT" /\ \E ok \in BOOLEAN :
                   buffer' = buffer \cup {<<w, AuthClientReply(p.user, p.addr, ok)>>}
        <3>1. p.user \in User /\ p.addr \in Address
            BY <1>3, <2>1, IncomingFields
        <3>2. \A ok \in BOOLEAN : AuthClientReply(p.user, p.addr, ok) \in OutgoingPacket
            BY <3>1, Packets
        <3> QED
            BY <2>1, <3>2, <1>t DEF ProcessorTypes
    <2>2. CASE UNCHANGED buffer
        BY <2>2, <1>t DEF ProcessorTypes
    <2> QED
        BY <1>1, <2>1, <2>2
<1>10. store' \in [Message -> ErrorState \cup {"absent"}]
    <2>1. CASE p.type = "MESSAGE_STATE_CHANGED" /\ PersistMessage(p.msg, p.state)
        BY <1>3, <1>t, <2>1, IncomingFields, PersistTypes
    <2>2. CASE UNCHANGED store
        BY <2>2, <1>t DEF ProcessorTypes
    <2> QED
        BY <1>1, <2>1, <2>2
<1>b. handled' \in [Worker -> SUBSET IncomingPacket]
    BY <1>t, HandledComes DEF ProcessorNext, WorkerThread
<1>11. ProcessorTypes'
    BY <1>b, <1>2, <1>6, <1>7, <1>8, <1>9, <1>10, <1>t DEF ProcessorTypes
<1>12. Others(w) /\ LockInv'
    BY <1>2, <1>3, <1>5, <1>7, <1>t DEF Others, HandlerInv, LockInv, ProcessorTypes
<1>13. JobOf(w)'
    <2>1. stage'[w] = "lock" => p.type = "FETCH_MISSING_MESSAGES_REQUEST"
        BY <1>1, <1>t DEF Goto, ProcessorTypes
    <2>2. stage'[w] = "route" =>
              /\ \E m \in Message : doc'[w] = {m}
              /\ (\/ p.type = "MESSAGE"
                  \/ p.type = "MESSAGE_STATE_CHANGED" /\ p.state # "PROCESSED")
                    => doc'[w] = {p.msg}
        <3>1. p.type = "MESSAGE" => p.msg \in Message
            BY <1>3, IncomingFields
        <3> QED
            BY <1>1, <3>1, <1>t DEF Goto, ProcessorTypes
    <2> QED
        BY <1>6, <2>1, <2>2 DEF JobOf
<1>14. PageOf(w)'
    BY <1>2, <1>4, <1>6 DEF PageOf
<1>15. TopicTypes'
    BY <1>2, <1>3 DEF TopicTypes
<1> QED
    BY <1>11, <1>12, <1>13, <1>14, <1>15, HandlerFrame

-----------------------------------------------------------------------------
\* The steps of a handler that change none of its page, and leave its packet
\* and the locks alone.
LEMMA MessageSteps ==
    ASSUME HandlerInv, TopicTypes, NEW w \in Worker,
           WriteUserChannel(w) \/ Route(w) \/ Send(w) \/ RouteMissing(w)
    PROVE  HandlerInv' /\ TopicTypes'
<1>t. ProcessorTypes /\ JobOf(w) /\ PageOf(w)
    BY DEF HandlerInv
<1>1. UNCHANGED <<topics, locks, job, todo>>
    BY DEF WriteUserChannel, Route, Send, RouteMissing, redis
<1>2. PICK s \in Stage : Goto(w, s) /\ stage[w] # "idle" /\ s # "idle"
    <2>1. CASE WriteUserChannel(w)
        BY <2>1 DEF WriteUserChannel, NotifyMaster, Stage
    <2>2. CASE Route(w)
        BY <2>2 DEF Route, Stage
    <2>3. CASE Send(w)
        BY <2>3 DEF Send, Stage
    <2>4. CASE RouteMissing(w)
        BY <2>4 DEF RouteMissing, Stage
    <2> QED
        BY <2>1, <2>2, <2>3, <2>4
<1>3. stage' \in [Worker -> Stage] /\ stage'[w] = s
      /\ \A v \in Worker \ {w} : stage'[v] = stage[v]
    BY <1>2, <1>t DEF Goto, ProcessorTypes
<1>4. userChannel' \in [User -> SUBSET Address]
    <2>1. CASE WriteUserChannel(w)
        <3>1. PICK p \in job[w] :
                  \/ /\ p.type = "USER_CONNECTED"
                     /\ userChannel' = [userChannel EXCEPT ![p.user] = seen[w] \cup {p.addr}]
                  \/ /\ p.type = "USER_DISCONNECTED"
                     /\ userChannel' = Removed(p.user, seen[w], p.addr)
                  \/ /\ p.type = "MESSAGE_STATE_CHANGED"
                     /\ userChannel' = Removed(p.msg.to, seen[w], p.addr)
            BY <2>1 DEF WriteUserChannel
        <3>2. p \in IncomingPacket /\ seen[w] \subseteq Address
            BY <1>t DEF ProcessorTypes
        <3>3. p.type = "MESSAGE_STATE_CHANGED" => p.msg.to \in User
            BY <3>2, IncomingFields, Messages
        <3> QED
            BY <1>t, <3>1, <3>2, <3>3, IncomingFields DEF ProcessorTypes, Removed
    <2>2. CASE UNCHANGED userChannel
        BY <2>2, <1>t DEF ProcessorTypes
    <2> QED
        BY <2>1, <2>2 DEF Route, Send, RouteMissing, redis
<1>5. seen' \in [Worker -> SUBSET Address]
    <2>1. \A m \in Message : \A A \in RouteTargets(m) : A \subseteq Address
        BY <1>t, Messages DEF RouteTargets, ProcessorTypes
    <2>2. CASE Route(w)
        <3>1. \E m \in doc[w] : \E A \in RouteTargets(m) : seen' = [seen EXCEPT ![w] = A]
            BY <2>2 DEF Route
        <3>2. doc[w] \subseteq Message
            BY <1>t DEF ProcessorTypes
        <3> QED
            BY <3>1, <3>2, <2>1, <1>t DEF ProcessorTypes
    <2>3. CASE RouteMissing(w)
        <3>1. PICK p \in job[w] :
              \E m \in IF todo[w] = {} THEN {FetchComplete(p.user)} ELSE todo[w] :
              \E A \in RouteTargets(m) : seen' = [seen EXCEPT ![w] = A]
            BY <2>3 DEF RouteMissing
        <3>2. p.user \in User
            BY <1>t, <2>3, IncomingFields DEF RouteMissing, JobOf, ProcessorTypes
        <3>3. FetchComplete(p.user) \in Message /\ todo[w] \subseteq Message
            BY <1>t, <3>2, Messages DEF ProcessorTypes
        <3> QED
            BY <3>1, <3>3, <2>1, <1>t DEF ProcessorTypes
    <2>4. CASE UNCHANGED seen
        BY <2>4, <1>t DEF ProcessorTypes
    <2> QED
        BY <2>2, <2>3, <2>4 DEF WriteUserChannel, Send
<1>6. store' \in [Message -> ErrorState \cup {"absent"}]
      /\ buffer' \subseteq Worker \X OutgoingPacket
    <2>1. CASE Send(w)
        <3>1. PICK m \in doc[w] :
                  IF seen[w] = {}
                  THEN PersistMessage(m, "ADDRESS_NOT_FOUND") /\ UNCHANGED buffer
                  ELSE /\ buffer' = buffer \cup {<<w, Delivery(m, a)>> : a \in seen[w]}
                       /\ UNCHANGED store
            BY <2>1 DEF Send
        <3>2. m \in Message /\ seen[w] \subseteq Address
            BY <1>t DEF ProcessorTypes
        <3>3. CASE seen[w] = {}
            BY <3>1, <3>2, <3>3, <1>t, PersistTypes DEF ProcessorTypes, ErrorState
        <3>4. CASE seen[w] # {}
            BY <3>1, <3>2, <3>4, <1>t, Packets DEF ProcessorTypes
        <3> QED
            BY <3>3, <3>4
    <2>2. CASE UNCHANGED <<store, buffer>>
        BY <2>2, <1>t DEF ProcessorTypes
    <2> QED
        BY <2>1, <2>2 DEF WriteUserChannel, Route, RouteMissing
\* The message the worker goes on with.
<1>7. /\ doc' \in [Worker -> SUBSET Message] /\ \A v \in Worker \ {w} : doc'[v] = doc[v]
      /\ JobOf(w)' /\ PageOf(w)'
    <2>1. CASE WriteUserChannel(w)
        <3>1. PICK p \in job[w] :
                  \/ /\ p.type \in {"USER_CONNECTED", "USER_DISCONNECTED"}
                     /\ NotifyMaster(w, p.type, p.user, p.addr)
                  \/ /\ p.type = "MESSAGE_STATE_CHANGED"
                     /\ doc' = [doc EXCEPT ![w] = {p.msg}]
                     /\ Goto(w, "route")
            BY <2>1 DEF WriteUserChannel
        <3>2. p \in IncomingPacket /\ \A q \in job[w] : q = p
            BY <1>t DEF ProcessorTypes, JobOf
        <3>3. \/ UNCHANGED doc /\ Goto(w, "commit")
              \/ /\ Goto(w, "route")
                 /\ \E m \in Message :
                       /\ doc' = [doc EXCEPT ![w] = {m}]
                       /\ p.type = "MESSAGE_STATE_CHANGED" => m = p.msg
                       /\ p.type # "MESSAGE"
            <4>1. CASE p.type = "MESSAGE_STATE_CHANGED"
                BY <3>1, <3>2, <4>1, IncomingFields
            <4>2. CASE p.type \in {"USER_CONNECTED", "USER_DISCONNECTED"}
                BY <3>1, <3>2, <4>2, IncomingFields, Messages DEF NotifyMaster
            <4> QED
                BY <3>1, <4>1, <4>2
        <3>4. doc' \in [Worker -> SUBSET Message] /\ \A v \in Worker \ {w} : doc'[v] = doc[v]
            BY <3>3, <1>t DEF ProcessorTypes
        <3>5. JobOf(w)'
            BY <1>1, <1>2, <1>3, <1>t, <3>2, <3>3 DEF JobOf, ProcessorTypes, Goto
        <3>6. PageOf(w)'
            BY <1>1, <1>3, <1>t, <3>3 DEF PageOf, ProcessorTypes, Goto
        <3> QED
            BY <3>4, <3>5, <3>6
    <2>2. CASE Route(w)
        <3>1. UNCHANGED doc /\ stage[w] = "route" /\ stage'[w] = "send"
            BY <2>2, <1>t DEF Route, Goto, ProcessorTypes
        <3> QED
            BY <1>1, <1>t, <3>1 DEF JobOf, PageOf, ProcessorTypes
    <2>3. CASE Send(w)
        <3>1. PICK m \in doc[w] : Goto(w, IF m \in todo[w] THEN "remove" ELSE "commit")
            BY <2>3 DEF Send
        <3>2. UNCHANGED doc /\ doc[w] = {m} /\ stage[w] = "send"
            BY <2>3, <1>t DEF Send, JobOf
        <3>3. stage'[w] = IF m \in todo[w] THEN "remove" ELSE "commit"
            BY <3>1, <1>t DEF Goto, ProcessorTypes
        <3>4. m \in todo[w] =>
                  \A p \in job[w] : p.type = "FETCH_MISSING_MESSAGES_REQUEST"
            BY <1>t DEF PageOf, JobOf
        <3> QED
            BY <1>1, <1>t, <3>2, <3>3, <3>4 DEF JobOf, PageOf, ProcessorTypes
    <2>4. CASE RouteMissing(w)
        <3>1. PICK p \in job[w] :
              \E m \in IF todo[w] = {} THEN {FetchComplete(p.user)} ELSE todo[w] :
                  doc' = [doc EXCEPT ![w] = {m}]
            BY <2>4 DEF RouteMissing
        <3>2. /\ stage[w] = "next" /\ stage'[w] = "send"
              /\ \A q \in job[w] : q.type = "FETCH_MISSING_MESSAGES_REQUEST"
            BY <2>4, <1>t DEF RouteMissing, Goto, JobOf, ProcessorTypes
        <3>3. p.user \in User
            BY <1>t, <3>2, IncomingFields DEF ProcessorTypes
        <3>4. FetchComplete(p.user) \in Message /\ todo[w] \subseteq Message
            BY <1>t, <3>3, Messages DEF ProcessorTypes
        <3>5. \E m \in Message : doc' = [doc EXCEPT ![w] = {m}]
            BY <3>1, <3>4
        <3>6. /\ doc' \in [Worker -> SUBSET Message] /\ \A v \in Worker \ {w} : doc'[v] = doc[v]
              /\ \E m \in Message : doc'[w] = {m}
            BY <3>5, <1>t DEF ProcessorTypes
        <3> QED
            BY <1>1, <1>t, <3>2, <3>6 DEF JobOf, PageOf
    <2> QED
        BY <2>1, <2>2, <2>3, <2>4
<1>b. handled' \in [Worker -> SUBSET IncomingPacket]
    BY <1>t, HandledComes DEF ProcessorNext, WorkerThread
<1>8. ProcessorTypes'
    BY <1>b, <1>1, <1>3, <1>4, <1>5, <1>6, <1>7, <1>t DEF ProcessorTypes
<1>9. Others(w) /\ LockInv'
    BY <1>1, <1>3, <1>7 DEF Others, HandlerInv, LockInv
<1> QED
    BY <1>1, <1>7, <1>8, <1>9, HandlerFrame DEF TopicTypes, topics

-----------------------------------------------------------------------------
\* The steps of a fetch on the lock, the page and the database.
LEMMA FindMessagesStep ==
    ASSUME HandlerInv, TopicTypes, NEW w \in Worker, FindMessages(w)
    PROVE  HandlerInv' /\ TopicTypes'
<1>t. ProcessorTypes /\ JobOf(w) /\ PageOf(w) /\ LockInv
    BY DEF HandlerInv
<1>1. PICK p \in job[w], page \in SUBSET Message :
          /\ LockFree(p.user) /\ locks' = LockedBy(p.user, w)
          /\ \A m \in page : m.to = p.user
          /\ todo' = [todo EXCEPT ![w] = page]
    BY DEF FindMessages
<1>2. /\ stage[w] = "lock" /\ Goto(w, "next")
      /\ UNCHANGED <<topics, userChannel, store, job, seen, doc, buffer>>
    BY DEF FindMessages
<1>3. /\ p \in IncomingPacket /\ p.type = "FETCH_MISSING_MESSAGES_REQUEST" /\ p.user \in User
    BY <1>2, <1>t, IncomingFields DEF JobOf, ProcessorTypes
<1>4. /\ stage' \in [Worker -> Stage] /\ stage'[w] = "next"
      /\ \A v \in Worker \ {w} : stage'[v] = stage[v]
    BY <1>2, <1>t DEF Goto, ProcessorTypes, Stage
<1>5. /\ todo' \in [Worker -> SUBSET Message] /\ todo'[w] = page
      /\ \A v \in Worker \ {w} : todo'[v] = todo[v]
    BY <1>1, <1>t DEF ProcessorTypes
<1>6. locks' = locks \cup {<<p.user, w>>}
    BY <1>1 DEF LockedBy
<1>b. handled' \in [Worker -> SUBSET IncomingPacket]
    BY <1>t, HandledComes DEF ProcessorNext, WorkerThread
<1>7. ProcessorTypes'
    BY <1>b, <1>2, <1>3, <1>4, <1>5, <1>6, <1>t DEF ProcessorTypes
<1>8. LockInv'
    BY <1>1, <1>6, <1>t DEF LockInv, LockFree
<1>9. Others(w)
    BY <1>2, <1>4, <1>5, <1>6 DEF Others
<1>10. JobOf(w)' /\ PageOf(w)'
    BY <1>1, <1>2, <1>3, <1>4, <1>5, <1>6, <1>t DEF JobOf, PageOf
<1> QED
    BY <1>2, <1>7, <1>8, <1>9, <1>10, HandlerFrame DEF TopicTypes, topics

LEMMA RemoveStep ==
    ASSUME HandlerInv, TopicTypes, NEW w \in Worker, Remove(w)
    PROVE  HandlerInv' /\ TopicTypes'
<1>t. ProcessorTypes /\ JobOf(w) /\ PageOf(w) /\ LockInv
    BY DEF HandlerInv
<1>1. /\ stage[w] = "remove" /\ Goto(w, "next")
      /\ store' = [m \in Message |-> IF m \in doc[w] THEN "absent" ELSE store[m]]
      /\ todo' = [todo EXCEPT ![w] = @ \ doc[w]]
      /\ UNCHANGED <<topics, userChannel, locks, job, seen, doc, buffer>>
    BY DEF Remove, redis
<1>2. /\ stage' \in [Worker -> Stage] /\ stage'[w] = "next"
      /\ \A v \in Worker \ {w} : stage'[v] = stage[v]
    BY <1>1, <1>t DEF Goto, ProcessorTypes, Stage
<1>3. /\ todo' \in [Worker -> SUBSET Message] /\ todo'[w] \subseteq todo[w]
      /\ \A v \in Worker \ {w} : todo'[v] = todo[v]
    BY <1>1, <1>t DEF ProcessorTypes
<1>4. store' \in [Message -> ErrorState \cup {"absent"}]
    BY <1>1, <1>t DEF ProcessorTypes
<1>b. handled' \in [Worker -> SUBSET IncomingPacket]
    BY <1>t, HandledComes DEF ProcessorNext, WorkerThread
<1>5. ProcessorTypes' /\ LockInv' /\ Others(w)
    BY <1>b, <1>1, <1>2, <1>3, <1>4, <1>t DEF ProcessorTypes, LockInv, Others
<1>6. JobOf(w)' /\ PageOf(w)'
    BY <1>1, <1>2, <1>3, <1>t DEF JobOf, PageOf
<1> QED
    BY <1>1, <1>5, <1>6, HandlerFrame DEF TopicTypes, topics

\* The end of a handler, in order or by a crash.
LEMMA EndSteps ==
    ASSUME HandlerInv, TopicTypes, NEW w \in Worker, Commit(w) \/ WorkerCrash(w)
    PROVE  HandlerInv' /\ TopicTypes'
<1>t. ProcessorTypes /\ JobOf(w) /\ PageOf(w) /\ LockInv
    BY DEF HandlerInv
<1>1. /\ Goto(w, "idle") /\ job' = [job EXCEPT ![w] = {}]
      /\ seen' = [seen EXCEPT ![w] = {}] /\ doc' = [doc EXCEPT ![w] = {}]
      /\ todo' = [todo EXCEPT ![w] = {}]
      /\ locks' = {l \in locks : l[2] # w}
      /\ UNCHANGED <<outgoing, userChannel, store>>
      /\ buffer' \subseteq buffer /\ incoming' \subseteq incoming \cup job[w] \cup handled[w]
    BY DEF Commit, WorkerCrash, topics
<1>2. /\ stage' \in [Worker -> Stage] /\ stage'[w] = "idle"
      /\ \A v \in Worker \ {w} : stage'[v] = stage[v]
    BY <1>1, <1>t DEF Goto, ProcessorTypes, Stage
<1>3. /\ job' \in [Worker -> SUBSET IncomingPacket] /\ job'[w] = {}
      /\ \A v \in Worker \ {w} : job'[v] = job[v]
    BY <1>1, <1>t DEF ProcessorTypes
<1>4. /\ doc' \in [Worker -> SUBSET Message] /\ todo' \in [Worker -> SUBSET Message]
      /\ seen' \in [Worker -> SUBSET Address] /\ todo'[w] = {}
      /\ \A v \in Worker \ {w} : doc'[v] = doc[v] /\ todo'[v] = todo[v]
    BY <1>1, <1>t DEF ProcessorTypes
<1>b. handled' \in [Worker -> SUBSET IncomingPacket]
    BY <1>t, HandledComes DEF ProcessorNext, WorkerThread
<1>5. ProcessorTypes' /\ LockInv' /\ Others(w)
    BY <1>b, <1>1, <1>2, <1>3, <1>4, <1>t DEF ProcessorTypes, LockInv, Others
<1>6. JobOf(w)' /\ PageOf(w)'
    BY <1>2, <1>3, <1>4 DEF JobOf, PageOf
<1>7. TopicTypes'
    BY <1>1, <1>t DEF TopicTypes, ProcessorTypes
<1> QED
    BY <1>5, <1>6, <1>7, HandlerFrame

\* A failure sends the handler to its end.
LEMMA FailureSteps ==
    ASSUME HandlerInv, TopicTypes, NEW w \in Worker, HandlerFails(w) \/ PersistFails(w)
    PROVE  HandlerInv' /\ TopicTypes'
<1>t. ProcessorTypes /\ JobOf(w) /\ PageOf(w) /\ LockInv
    BY DEF HandlerInv
<1>1. /\ stage[w] # "idle" /\ Goto(w, "commit")
      /\ UNCHANGED <<topics, userChannel, locks, job, seen, doc, todo, buffer>>
    BY DEF HandlerFails, PersistFails, redis
<1>2. /\ stage' \in [Worker -> Stage] /\ stage'[w] = "commit"
      /\ \A v \in Worker \ {w} : stage'[v] = stage[v]
    BY <1>1, <1>t DEF Goto, ProcessorTypes, Stage
<1>3. store' \in [Message -> ErrorState \cup {"absent"}]
    <2>1. CASE HandlerFails(w)
        <3>1. PICK p \in job[w] :
                  \/ p.type = "MESSAGE" /\ PersistMessage(p.msg, "PROCESSOR_ERROR")
                  \/ UNCHANGED store
            BY <2>1 DEF HandlerFails
        <3>2. p.type = "MESSAGE" => p.msg \in Message
            BY <1>t, IncomingFields DEF ProcessorTypes
        <3> QED
            BY <1>t, <3>1, <3>2, PersistTypes DEF ProcessorTypes, ErrorState
    <2>2. CASE PersistFails(w)
        BY <2>2, <1>t DEF PersistFails, ProcessorTypes
    <2> QED
        BY <2>1, <2>2
<1>b. handled' \in [Worker -> SUBSET IncomingPacket]
    BY <1>t, HandledComes DEF ProcessorNext, WorkerThread
<1>4. ProcessorTypes' /\ LockInv' /\ Others(w)
    BY <1>b, <1>1, <1>2, <1>3, <1>t DEF ProcessorTypes, LockInv, Others
<1>5. JobOf(w)' /\ PageOf(w)'
    BY <1>1, <1>2, <1>t DEF JobOf, PageOf
<1> QED
    BY <1>1, <1>4, <1>5, HandlerFrame DEF TopicTypes, topics

\* The producer's callbacks.
LEMMA CallbackSteps ==
    ASSUME HandlerInv, TopicTypes, NEW e \in buffer, Delivered(e) \/ DeliveryFailed(e)
    PROVE  HandlerInv' /\ TopicTypes'
<1>t. ProcessorTypes /\ LockInv /\ \A w \in Worker : JobOf(w) /\ PageOf(w)
    BY DEF HandlerInv
<1>1. /\ UNCHANGED <<incoming, userChannel, locks, stage, job, seen, doc, todo>>
      /\ buffer' = buffer \ {e} /\ outgoing' \subseteq outgoing \cup {e[2]}
    BY DEF Delivered, DeliveryFailed, redis, thread, topics
<1>2. e[2] \in OutgoingPacket
    BY <1>t DEF ProcessorTypes
<1>3. store' \in [Message -> ErrorState \cup {"absent"}]
    <2>1. CASE e[2].type = "DELIVER" /\ PersistMessage(e[2].msg, "NETWORK_ERROR")
        <3>1. e[2].msg \in Message
            BY <1>2, <2>1 DEF OutgoingPacket
        <3> QED
            BY <1>t, <2>1, <3>1, PersistTypes DEF ErrorState
    <2>2. CASE UNCHANGED store
        BY <2>2, <1>t DEF ProcessorTypes
    <2> QED
        BY <2>1, <2>2 DEF Delivered, DeliveryFailed
<1>b. handled' \in [Worker -> SUBSET IncomingPacket]
    BY <1>t, HandledComes DEF ProcessorNext
<1>4. ProcessorTypes' /\ LockInv' /\ TopicTypes'
    BY <1>b, <1>1, <1>2, <1>3, <1>t DEF ProcessorTypes, LockInv, TopicTypes
<1>5. \A w \in Worker : JobOf(w)' /\ PageOf(w)'
    BY <1>1, <1>t DEF JobOf, PageOf
<1> QED
    BY <1>4, <1>5 DEF HandlerInv

\* Every step of the processors, and every step that leaves them alone and
\* sends well-formed packets.
LEMMA HandlerStep ==
    ASSUME HandlerInv, TopicTypes, ProcessorNext
    PROVE  HandlerInv' /\ TopicTypes'
<1>1. ASSUME NEW w \in Worker, WorkerThread(w)
      PROVE  HandlerInv' /\ TopicTypes'
    BY <1>1, StartSteps, MessageSteps, FindMessagesStep, RemoveStep, EndSteps
       DEF WorkerThread
<1> QED
    BY <1>1, StartSteps, FailureSteps, EndSteps, CallbackSteps DEF ProcessorNext

LEMMA HandlerStutter ==
    ASSUME HandlerInv, UNCHANGED processorVars
    PROVE  HandlerInv'
BY DEF HandlerInv, ProcessorTypes, LockInv, JobOf, PageOf, processorVars

-----------------------------------------------------------------------------
\* Where a message is when it is not in the database.
Elsewhere(m) ==
    \/ InTopics(m) \/ InBuffer(m) \/ InWrites(m) \/ AtWorker(m)
    \/ Written(m) \/ Forgotten(m)

\* The message was saved since the last fetch that found it.
Saved(m) == InStore(m) /\ m \in fresh

\* A message that is about to be removed is somewhere else by now, or the
\* removal is one of those that erase a newer copy.
RemovalInv ==
    \A w \in Worker, x \in Reliable :
        stage[w] = "remove" /\ AppMessage(x) \in doc[w] =>
            Elsewhere(AppMessage(x)) \/ AppMessage(x) \in fresh

AccountInv == ReliableMessageAccounted /\ RemovalInv

-----------------------------------------------------------------------------
\* What a RELIABLE application message looks like.
LEMMA Application ==
    ASSUME NEW x \in Reliable
    PROVE  LET m == AppMessage(x) IN
           /\ m \in Message /\ m.type = "MESSAGE" /\ m.about = x /\ IsReliable(m)
           /\ m \in AppMessages
<1>1. x \in Payload
    BY PayloadAssumption
<1>2. AppMessage(x) \in AppMessages
    BY <1>1 DEF AppMessages
<1>3. AppMessage(x) \in Message
    BY <1>2 DEF Message
<1>4. AppMessage(x).type = "MESSAGE" /\ AppMessage(x).about = x
    BY DEF AppMessage, Msg
<1> QED
    BY <1>2, <1>3, <1>4 DEF IsReliable

\* The places a step of the processors does not take a message from.
LEMMA ProcessorLeaves ==
    ASSUME NEW m, UNCHANGED connectorVars,
           vanished \subseteq vanished', erased \subseteq erased', parked \subseteq parked'
    PROVE  InWrites(m) \/ Written(m) \/ Forgotten(m) =>
               (InWrites(m) \/ Written(m) \/ Forgotten(m))'
BY DEF InWrites, Written, Forgotten, connectorVars

\* persistMessage saves a RELIABLE message and forgets none.
LEMMA PersistSaves ==
    ASSUME ProcessorTypes, NEW m \in Message, NEW n \in Message,
           NEW state \in ErrorState \cup {"PROCESSED"}, PersistMessage(n, state)
    PROVE  /\ n = m /\ IsReliable(m) /\ state # "PROCESSED" => Saved(m)'
           /\ InStore(m) => InStore(m)'
           /\ m \in fresh => m \in fresh'
BY DEF ProcessorTypes, PersistMessage, Saved, InStore, ErrorState

\* A worker other than w keeps what it has.
LEMMA OtherWorkers ==
    ASSUME NEW m, NEW w \in Worker, AtWorker(m), HandlerInv,
           \A v \in Worker \ {w} : stage'[v] = stage[v] /\ job'[v] = job[v]
    PROVE  \/ AtWorker(m)'
           \/ /\ stage[w] \in {"merge", "route", "send"}
              /\ \A p \in job[w] : Carries(p, m)
              /\ job[w] # {}
<1>1. PICK v \in Worker : /\ stage[v] \in {"merge", "route", "send"}
                          /\ \E p \in job[v] : Carries(p, m)
    BY DEF AtWorker
<1>2. CASE v = w
    BY <1>1, <1>2 DEF HandlerInv, JobOf
<1>3. CASE v # w
    BY <1>1, <1>3 DEF AtWorker
<1> QED
    BY <1>2, <1>3

\* A handler that starts takes over the message its packet carries.
LEMMA StartKeeps ==
    ASSUME HandlerInv, TopicTypes, NEW w \in Worker, UNCHANGED connectorVars,
           \/ AnswerAuthClient(w) \/ ReadUserChannel(w) \/ ChangeMessageState(w)
           \/ RequestMessage(w) \/ RequestClose(w) \/ RequestFetch(w) \/ ChangeFails(w),
           NEW x \in Reliable, Elsewhere(AppMessage(x))
    PROVE  Elsewhere(AppMessage(x))' \/ Saved(AppMessage(x))'
<1> DEFINE m == AppMessage(x)
<1>m. m \in Message /\ m.type = "MESSAGE" /\ IsReliable(m)
    BY Application
<1>t. ProcessorTypes
    BY DEF HandlerInv
<1>1. PICK p \in incoming :
          /\ Start(w, p)
          /\ \/ /\ p.type \in {"AUTH_CLIENT", "CLOSE_CONNECTION",
                               "FETCH_MISSING_MESSAGES_REQUEST"}
             \/ /\ p.type \in {"USER_CONNECTED", "USER_DISCONNECTED"}
             \/ /\ p.type = "MESSAGE_STATE_CHANGED" /\ p.state = "ADDRESS_NOT_FOUND"
                /\ Goto(w, "merge")
             \/ /\ p.type = "MESSAGE_STATE_CHANGED" /\ PersistMessage(p.msg, p.state)
             \/ /\ p.type = "MESSAGE_STATE_CHANGED" /\ p \in parked'
             \/ /\ p.type = "MESSAGE" /\ Goto(w, "route")
    BY DEF AnswerAuthClient, ReadUserChannel, ChangeMessageState, RequestMessage,
       RequestClose, RequestFetch, ChangeFails
<1>2. /\ buffer \subseteq buffer'
      /\ UNCHANGED <<outgoing, vanished, erased>> /\ parked \subseteq parked'
      /\ \E s \in Stage : Goto(w, s)
    BY DEF AnswerAuthClient, ReadUserChannel, ChangeMessageState, RequestMessage,
       RequestClose, RequestFetch, ChangeFails, losses, Stage
<1>3. /\ p \in IncomingPacket /\ stage[w] = "idle" /\ incoming' = incoming \ {p}
      /\ job' = [job EXCEPT ![w] = {p}]
    BY <1>1 DEF Start, TopicTypes
<1>4. job'[w] = {p} /\ \A v \in Worker \ {w} : stage'[v] = stage[v] /\ job'[v] = job[v]
    BY <1>2, <1>3, <1>t DEF Goto, ProcessorTypes
<1>5. Carries(p, m) => AtWorker(m)' \/ Saved(m)' \/ Forgotten(m)'
    <2> SUFFICES ASSUME Carries(p, m) PROVE AtWorker(m)' \/ Saved(m)' \/ Forgotten(m)'
        OBVIOUS
    <2>1. p.msg = m /\ p.type \in {"MESSAGE", "MESSAGE_STATE_CHANGED"}
          /\ (p.type = "MESSAGE_STATE_CHANGED" => p.state # "PROCESSED")
        BY <1>3 DEF Carries, IncomingPacket
    <2>2. CASE p.type = "MESSAGE_STATE_CHANGED" /\ PersistMessage(p.msg, p.state)
        BY <1>3, <1>m, <1>t, <2>1, <2>2, IncomingFields, PersistSaves
    <2>3. CASE Goto(w, "merge") \/ Goto(w, "route")
        <3>1. stage'[w] \in {"merge", "route"}
            BY <2>3, <1>t DEF Goto, ProcessorTypes
        <3> QED
            BY <1>4, <3>1 DEF AtWorker
    <2>4. CASE p \in parked'
        BY <2>1, <2>4 DEF Forgotten, Carries
    <2> QED
        BY <1>1, <2>1, <2>2, <2>3, <2>4
<1>6. InTopics(m) => InTopics(m)' \/ AtWorker(m)' \/ Saved(m)' \/ Forgotten(m)'
    BY <1>2, <1>3, <1>5 DEF InTopics
<1>7. InBuffer(m) => InBuffer(m)'
    BY <1>2 DEF InBuffer
<1>8. AtWorker(m) => AtWorker(m)'
    BY <1>3, <1>4, OtherWorkers
<1> QED
    BY <1>2, <1>6, <1>7, <1>8, ProcessorLeaves DEF Elsewhere

\* A handler in progress passes the message on or saves it.
LEMMA SendKeeps ==
    ASSUME HandlerInv, TopicTypes, NEW w \in Worker, UNCHANGED connectorVars,
           WriteUserChannel(w) \/ Route(w) \/ Send(w),
           NEW x \in Reliable, Elsewhere(AppMessage(x))
    PROVE  Elsewhere(AppMessage(x))' \/ Saved(AppMessage(x))'
<1> DEFINE m == AppMessage(x)
<1>m. m \in Message /\ m.type = "MESSAGE" /\ IsReliable(m)
    BY Application
<1>t. ProcessorTypes /\ JobOf(w) /\ PageOf(w)
    BY DEF HandlerInv
<1>1. /\ buffer \subseteq buffer'
      /\ UNCHANGED <<topics, job, vanished, erased, parked>>
      /\ \E s \in Stage : Goto(w, s)
    BY DEF WriteUserChannel, NotifyMaster, Route, Send, losses, Stage, redis
<1>2. \A v \in Worker \ {w} : stage'[v] = stage[v] /\ job'[v] = job[v]
    BY <1>1, <1>t DEF Goto, ProcessorTypes
<1>3. ASSUME NEW p \in job[w], Carries(p, m), stage[w] \in {"merge", "route", "send"}
      PROVE  AtWorker(m)' \/ InBuffer(m)' \/ Saved(m)'
    <2>0. p \in IncomingPacket
        BY <1>t DEF ProcessorTypes
    <2>1. p.msg = m /\ p.type \in {"MESSAGE", "MESSAGE_STATE_CHANGED"}
          /\ (p.type = "MESSAGE_STATE_CHANGED" => p.state # "PROCESSED")
        BY <1>3, <2>0 DEF Carries, IncomingPacket
    <2>2. CASE WriteUserChannel(w)
        <3>1. Goto(w, "route")
            BY <1>3, <1>t, <2>1, <2>2 DEF WriteUserChannel, JobOf
        <3>2. stage'[w] = "route"
            BY <3>1, <1>t DEF Goto, ProcessorTypes
        <3> QED
            BY <1>1, <1>3, <3>2 DEF AtWorker
    <2>3. CASE Route(w)
        <3>1. stage'[w] = "send"
            BY <2>3, <1>t DEF Route, Goto, ProcessorTypes
        <3> QED
            BY <1>1, <1>3, <3>1 DEF AtWorker
    <2>4. CASE Send(w)
        <3>1. doc[w] = {m}
            BY <1>t, <2>1, <2>4 DEF Send, JobOf
        <3>2. CASE seen[w] = {}
            <4>1. PersistMessage(m, "ADDRESS_NOT_FOUND")
                BY <2>4, <3>1, <3>2 DEF Send
            <4> QED
                BY <1>m, <1>t, <4>1, PersistSaves DEF ErrorState
        <3>3. CASE seen[w] # {}
            <4>1. buffer' = buffer \cup {<<w, Delivery(m, a)>> : a \in seen[w]}
                BY <2>4, <3>1, <3>3 DEF Send
            <4>2. PICK a \in seen[w] : <<w, Delivery(m, a)>> \in buffer'
                BY <3>3, <4>1
            <4>3. Carries(Delivery(m, a), m)
                BY DEF Carries, Delivery
            <4> QED
                BY <4>2, <4>3 DEF InBuffer
        <3> QED
            BY <3>2, <3>3
    <2> QED
        BY <2>2, <2>3, <2>4
<1>4. AtWorker(m) => AtWorker(m)' \/ InBuffer(m)' \/ Saved(m)'
    BY <1>2, <1>3, OtherWorkers
<1>5. InTopics(m) => InTopics(m)'
    BY <1>1 DEF InTopics, topics
<1>6. InBuffer(m) => InBuffer(m)'
    BY <1>1 DEF InBuffer
<1> QED
    BY <1>1, <1>4, <1>5, <1>6, ProcessorLeaves DEF Elsewhere

\* A fetch does not touch what is on its way, nor does the end of a handler.
LEMMA FetchKeeps ==
    ASSUME HandlerInv, TopicTypes, NEW w \in Worker, UNCHANGED connectorVars,
           FindMessages(w) \/ RouteMissing(w) \/ Remove(w) \/ Commit(w),
           NEW x \in Reliable, Elsewhere(AppMessage(x))
    PROVE  Elsewhere(AppMessage(x))'
<1> DEFINE m == AppMessage(x)
<1>t. ProcessorTypes
    BY DEF HandlerInv
<1>1. /\ UNCHANGED <<topics, buffer, vanished, parked>> /\ erased \subseteq erased'
      /\ stage[w] \in {"lock", "next", "remove", "commit"}
      /\ \E s \in Stage : Goto(w, s)
      /\ (job' = job \/ job' = [job EXCEPT ![w] = {}])
    BY DEF FindMessages, RouteMissing, Remove, Commit, losses, Stage
<1>2. \A v \in Worker \ {w} : stage'[v] = stage[v] /\ job'[v] = job[v]
    BY <1>1, <1>t DEF Goto, ProcessorTypes
<1>3. AtWorker(m) => AtWorker(m)'
    BY <1>1, <1>2, OtherWorkers
<1>4. (InTopics(m) => InTopics(m)') /\ (InBuffer(m) => InBuffer(m)')
    BY <1>1 DEF InTopics, InBuffer, topics
<1> QED
    BY <1>1, <1>3, <1>4, ProcessorLeaves DEF Elsewhere

\* A failure saves the message that arrived, or forgets it knowingly.
LEMMA FailureKeeps ==
    ASSUME HandlerInv, TopicTypes, NEW w \in Worker, UNCHANGED connectorVars,
           HandlerFails(w) \/ PersistFails(w),
           NEW x \in Reliable, Elsewhere(AppMessage(x))
    PROVE  Elsewhere(AppMessage(x))' \/ Saved(AppMessage(x))'
<1> DEFINE m == AppMessage(x)
<1>m. m \in Message /\ m.type = "MESSAGE" /\ IsReliable(m)
    BY Application
<1>t. ProcessorTypes /\ JobOf(w) /\ PageOf(w)
    BY DEF HandlerInv
<1>1. /\ UNCHANGED <<topics, job, buffer, erased>>
      /\ vanished \subseteq vanished' /\ parked \subseteq parked'
      /\ Goto(w, "commit")
    BY DEF HandlerFails, PersistFails
<1>2. \A v \in Worker \ {w} : stage'[v] = stage[v] /\ job'[v] = job[v]
    BY <1>1, <1>t DEF Goto, ProcessorTypes
<1>3. ASSUME NEW p \in job[w], Carries(p, m), stage[w] \in {"merge", "route", "send"}
      PROVE  Forgotten(m)' \/ Saved(m)'
    <2>0. p \in IncomingPacket
        BY <1>t DEF ProcessorTypes
    <2>1. p.msg = m /\ p.type \in {"MESSAGE", "MESSAGE_STATE_CHANGED"}
          /\ (p.type = "MESSAGE_STATE_CHANGED" => p.state # "PROCESSED")
        BY <1>3, <2>0 DEF Carries, IncomingPacket
    <2>2. CASE HandlerFails(w)
        <3>1. IF p.type = "MESSAGE" THEN PersistMessage(m, "PROCESSOR_ERROR")
              ELSE p \in parked'
            BY <1>t, <2>1, <2>2 DEF HandlerFails, JobOf
        <3> QED
            BY <1>3, <1>m, <1>t, <3>1, PersistSaves DEF Forgotten, ErrorState
    <2>3. CASE PersistFails(w)
        <3>1. doc[w] = {m}
            BY <1>t, <2>1, <2>3 DEF PersistFails, JobOf
        <3>2. todo[w] = {}
            BY <1>t, <2>1 DEF PageOf, JobOf
        <3>3. m \in vanished'
            BY <2>3, <3>1, <3>2 DEF PersistFails
        <3> QED
            BY <3>3 DEF Forgotten
    <2> QED
        BY <2>2, <2>3
<1>4. AtWorker(m) => AtWorker(m)' \/ Forgotten(m)' \/ Saved(m)'
    BY <1>2, <1>3, OtherWorkers
<1>5. (InTopics(m) => InTopics(m)') /\ (InBuffer(m) => InBuffer(m)')
    BY <1>1 DEF InTopics, InBuffer, topics
<1> QED
    BY <1>1, <1>4, <1>5, ProcessorLeaves DEF Elsewhere

\* A crash puts a RELIABLE packet back and counts what the producer had not
\* sent as vanished.
LEMMA WorkerCrashKeeps ==
    ASSUME HandlerInv, TopicTypes, NEW w \in Worker, UNCHANGED connectorVars,
           WorkerCrash(w), NEW x \in Reliable, Elsewhere(AppMessage(x))
    PROVE  Elsewhere(AppMessage(x))'
<1> DEFINE m == AppMessage(x)
           lost == {e \in buffer : e[1] = w}
<1>m. m \in Message /\ m.type = "MESSAGE" /\ IsReliable(m)
    BY Application
<1>t. ProcessorTypes
    BY DEF HandlerInv
<1>1. /\ incoming' = incoming \cup {p \in job[w] : ~IsFast(p)} \cup handled[w]
      /\ buffer' = buffer \ lost
      /\ vanished' = vanished \cup {e[2].msg : e \in {f \in lost : f[2].type = "DELIVER"}}
      /\ Goto(w, "idle") /\ job' = [job EXCEPT ![w] = {}]
      /\ UNCHANGED <<outgoing, parked, erased>>
    BY DEF WorkerCrash
<1>2. \A v \in Worker \ {w} : stage'[v] = stage[v] /\ job'[v] = job[v]
    BY <1>1, <1>t DEF Goto, ProcessorTypes
<1>3. ASSUME NEW p \in job[w], Carries(p, m)
      PROVE  InTopics(m)'
    <2>1. ~IsFast(p)
        BY <1>3, <1>m, <1>t DEF Carries, IsFast, ProcessorTypes, IncomingPacket
    <2> QED
        BY <1>1, <1>3, <2>1 DEF InTopics
<1>4. AtWorker(m) => AtWorker(m)' \/ InTopics(m)'
    BY <1>2, <1>3, OtherWorkers
<1>5. InTopics(m) => InTopics(m)'
    BY <1>1 DEF InTopics
<1>6. InBuffer(m) => InBuffer(m)' \/ Forgotten(m)'
    <2> SUFFICES ASSUME NEW e \in buffer, Carries(e[2], m)
        PROVE  InBuffer(m)' \/ Forgotten(m)'
        BY DEF InBuffer
    <2>1. CASE e \in lost
        <3>1. e[2].type = "DELIVER" /\ e[2].msg = m
            BY <1>t DEF Carries, ProcessorTypes, OutgoingPacket
        <3>2. m \in vanished'
            BY <1>1, <2>1, <3>1
        <3> QED
            BY <3>2 DEF Forgotten
    <2>2. CASE e \notin lost
        BY <1>1, <2>2 DEF InBuffer
    <2> QED
        BY <2>1, <2>2
<1> QED
    BY <1>1, <1>4, <1>5, <1>6, ProcessorLeaves DEF Elsewhere

\* The producer sends the packet, or its callback saves the message.
LEMMA CallbackKeeps ==
    ASSUME HandlerInv, TopicTypes, NEW e \in buffer, UNCHANGED connectorVars,
           Delivered(e) \/ DeliveryFailed(e),
           NEW x \in Reliable, Elsewhere(AppMessage(x))
    PROVE  Elsewhere(AppMessage(x))' \/ Saved(AppMessage(x))'
<1> DEFINE m == AppMessage(x)
<1>m. m \in Message /\ m.type = "MESSAGE" /\ IsReliable(m)
    BY Application
<1>t. ProcessorTypes
    BY DEF HandlerInv
<1>1. /\ buffer' = buffer \ {e} /\ UNCHANGED <<incoming, stage, job, erased>>
      /\ vanished \subseteq vanished' /\ outgoing \subseteq outgoing' /\ parked \subseteq parked'
    BY DEF Delivered, DeliveryFailed, thread, losses, topics
<1>2. Carries(e[2], m) => InTopics(m)' \/ Saved(m)' \/ Forgotten(m)'
    <2>1. CASE Delivered(e)
        BY <2>1 DEF Delivered, InTopics
    <2>2. CASE DeliveryFailed(e)
        <3>1. Carries(e[2], m) => e[2].type = "DELIVER" /\ e[2].msg = m
            BY <1>t DEF Carries, ProcessorTypes, OutgoingPacket
        <3>2. e[2].type = "DELIVER" =>
                  PersistMessage(e[2].msg, "NETWORK_ERROR") \/ e[2].msg \in vanished'
            BY <2>2 DEF DeliveryFailed
        <3>3. m \in vanished' => Forgotten(m)'
            BY DEF Forgotten
        <3> QED
            BY <1>m, <1>t, <3>1, <3>2, <3>3, PersistSaves DEF ErrorState
    <2> QED
        BY <2>1, <2>2
<1>3. InBuffer(m) => InBuffer(m)' \/ InTopics(m)' \/ Saved(m)' \/ Forgotten(m)'
    BY <1>1, <1>2 DEF InBuffer
<1>4. (InTopics(m) => InTopics(m)') /\ (AtWorker(m) => AtWorker(m)')
    BY <1>1 DEF InTopics, AtWorker
<1> QED
    BY <1>1, <1>3, <1>4, ProcessorLeaves DEF Elsewhere

LEMMA ProcessorKeeps ==
    ASSUME HandlerInv, TopicTypes, ProcessorNext, UNCHANGED connectorVars,
           NEW x \in Reliable, Elsewhere(AppMessage(x))
    PROVE  Elsewhere(AppMessage(x))' \/ Saved(AppMessage(x))'
<1>1. ASSUME NEW w \in Worker, WorkerThread(w)
      PROVE  Elsewhere(AppMessage(x))' \/ Saved(AppMessage(x))'
    BY <1>1, StartKeeps, SendKeeps, FetchKeeps DEF WorkerThread
<1> QED
    BY <1>1, StartKeeps, FailureKeeps, WorkerCrashKeeps, CallbackKeeps DEF ProcessorNext

-----------------------------------------------------------------------------
\* What a connector produces is on its way, or its callback forgot it.
LEMMA Produced ==
    ASSUME NEW m, NEW P, DeliverMessage(P)
    PROVE  /\ incoming \subseteq incoming' /\ unsent \subseteq unsent'
           /\ (\E p \in P : Carries(p, m)) => InTopics(m)' \/ Forgotten(m)'
BY DEF DeliverMessage, InTopics, Forgotten

\* The places a step of a connector does not take a message from.
LEMMA ConnectorLeaves ==
    ASSUME NEW m, UNCHANGED processorVars,
           written \subseteq written', unsent \subseteq unsent', dropped \subseteq dropped'
    PROVE  InBuffer(m) \/ AtWorker(m) \/ Written(m) \/ Forgotten(m) =>
               (InBuffer(m) \/ AtWorker(m) \/ Written(m) \/ Forgotten(m))'
<1>1. UNCHANGED <<buffer, stage, job, parked, vanished, erased>>
    BY DEF processorVars
<1> QED
    BY <1>1 DEF InBuffer, AtWorker, Written, Forgotten

\* Most steps take nothing from the topics or the write queues.
LEMMA QuietSteps ==
    ASSUME UNCHANGED processorVars,
           \/ \E c \in Connector : \/ InitChannel(c) \/ AdmitUser(c) \/ AuthorizeUser(c)
                                  \/ RejectUser(c) \/ CommitPacket(c)
           \/ \E a \in Address : EventLoop(a) \/ ProcessDefault(a) \/ PeerCloses(a)
           \/ \E a \in Address, u \in User : ProcessAuthClient(a, u),
           NEW x \in Reliable, Elsewhere(AppMessage(x))
    PROVE  Elsewhere(AppMessage(x))'
<1> DEFINE m == AppMessage(x)
<1>1. /\ incoming \subseteq incoming' /\ unsent \subseteq unsent'
      /\ UNCHANGED <<outgoing, writes, written, dropped>>
    <2>1. \A P : DeliverMessage(P) => incoming \subseteq incoming' /\ unsent \subseteq unsent'
        BY DEF DeliverMessage
    <2> QED
        BY <2>1 DEF InitChannel, AdmitUser, AuthorizeUser, RejectUser, CommitPacket,
           EventLoop, AuthTimeout, CloseRejected, HandlerRemoved, Deregister,
           ProcessDefault, PeerCloses, ProcessAuthClient, topics
<1>2. (InTopics(m) => InTopics(m)') /\ (InWrites(m) => InWrites(m)')
    BY <1>1 DEF InTopics, InWrites
<1> QED
    BY <1>1, <1>2, ConnectorLeaves DEF Elsewhere

\* The consumer thread writes the message, reports it, or holds a reply.
LEMMA TakeKeeps ==
    ASSUME ConnectorTypeOK, UNCHANGED processorVars, NEW c \in Connector,
           \/ TakeAuthClientReply(c) \/ TakeDelivery(c) \/ TakeCloseConnection(c)
           \/ TakeThrows(c) \/ ProcessFast(c),
           NEW x \in Reliable, Elsewhere(AppMessage(x))
    PROVE  Elsewhere(AppMessage(x))'
<1> DEFINE m == AppMessage(x)
<1>m. m \in Message /\ m.type = "MESSAGE" /\ IsReliable(m)
    BY Application
<1>1. PICK p \in outgoing :
          /\ outgoing' = outgoing \ {p}
          /\ \/ p.type = "AUTH_CLIENT_REPLY"
             \/ p.type = "DELIVER" /\ p.msg.type = "CLOSE_CONNECTION"
             \/ p.type = "DELIVER" /\ ProcessDelivery(p.msg, p.addr)
             \/ /\ p.type = "DELIVER"
                /\ DeliverMessage({MessageStateChanged(p.msg, p.addr, "CONNECTOR_ERROR")})
             \/ IsFast(p)
    BY DEF TakeAuthClientReply, TakeDelivery, TakeCloseConnection, TakeThrows,
       ProcessFast, Take
<1>2. /\ incoming \subseteq incoming' /\ unsent \subseteq unsent'
      /\ writes \subseteq writes' /\ UNCHANGED <<written, dropped>>
    BY DEF TakeAuthClientReply, TakeDelivery, TakeCloseConnection, TakeThrows,
       ProcessFast, ProcessDelivery, DeliverMessage
<1>3. ASSUME Carries(p, m) PROVE InTopics(m)' \/ InWrites(m)' \/ Forgotten(m)'
    <2>1. p.type = "DELIVER" /\ p.msg = m /\ ~IsFast(p)
        BY <1>3, <1>m DEF Carries, ConnectorTypeOK, OutgoingPacket, IsFast
    <2>2. \A s \in ErrorState : Carries(MessageStateChanged(m, p.addr, s), m)
        BY DEF Carries, MessageStateChanged, ErrorState
    <2>3. CASE IsConnected(m.to, p.addr) /\ ProcessDelivery(m, p.addr)
        <3>1. <<m, p.addr>> \in writes'
            BY <2>3 DEF ProcessDelivery
        <3> QED
            BY <3>1 DEF InWrites
    <2>4. CASE ~IsConnected(m.to, p.addr) /\ ProcessDelivery(m, p.addr)
        <3>1. DeliverMessage({MessageStateChanged(m, p.addr, "ADDRESS_NOT_FOUND")})
            BY <1>m, <2>4 DEF ProcessDelivery
        <3> QED
            BY <2>2, <3>1, Produced DEF ErrorState
    <2>5. CASE DeliverMessage({MessageStateChanged(m, p.addr, "CONNECTOR_ERROR")})
        BY <2>2, <2>5, Produced DEF ErrorState
    <2> QED
        BY <1>1, <1>m, <2>1, <2>3, <2>4, <2>5
<1>4. InTopics(m) => InTopics(m)' \/ InWrites(m)' \/ Forgotten(m)'
    BY <1>1, <1>2, <1>3 DEF InTopics
<1>5. InWrites(m) => InWrites(m)'
    BY <1>2 DEF InWrites
<1> QED
    BY <1>2, <1>4, <1>5, ConnectorLeaves DEF Elsewhere

\* A write that is done is recorded; one that failed is reported.
LEMMA WriteKeeps ==
    ASSUME UNCHANGED processorVars, ExecuteWrite,
           NEW x \in Reliable, Elsewhere(AppMessage(x))
    PROVE  Elsewhere(AppMessage(x))'
<1> DEFINE m == AppMessage(x)
<1>m. IsReliable(m)
    BY Application
<1>1. PICK e \in writes : WriteSucceeds(e[1], e[2]) \/ WriteFails(e[1], e[2])
    BY DEF ExecuteWrite
<1>2. /\ incoming \subseteq incoming' /\ unsent \subseteq unsent'
      /\ UNCHANGED <<outgoing, dropped>>
      /\ written \subseteq written' /\ writes' = writes \ {<<e[1], e[2]>>}
    BY <1>1 DEF WriteSucceeds, WriteFails, DeliverMessage
<1>3. ASSUME NEW f \in writes, f[1] = m, f \notin writes'
      PROVE  InTopics(m)' \/ Written(m)' \/ Forgotten(m)'
    <2>1. f = <<e[1], e[2]>> /\ e[1] = m
        BY <1>2, <1>3
    <2>2. CASE WriteSucceeds(e[1], e[2])
        <3>1. <<m, userId[e[2]]>> \in written'
            BY <2>1, <2>2 DEF WriteSucceeds
        <3> QED
            BY <3>1 DEF Written
    <2>3. CASE WriteFails(e[1], e[2])
        <3>1. DeliverMessage({MessageStateChanged(m, e[2], "NETWORK_ERROR")})
            BY <1>m, <2>1, <2>3 DEF WriteFails, StateReport
        <3>2. Carries(MessageStateChanged(m, e[2], "NETWORK_ERROR"), m)
            BY DEF Carries, MessageStateChanged
        <3> QED
            BY <3>1, <3>2, Produced
    <2> QED
        BY <1>1, <2>2, <2>3
<1>4. InWrites(m) => InWrites(m)' \/ InTopics(m)' \/ Written(m)' \/ Forgotten(m)'
    BY <1>3 DEF InWrites
<1>5. InTopics(m) => InTopics(m)'
    BY <1>2 DEF InTopics
<1> QED
    BY <1>2, <1>4, <1>5, ConnectorLeaves DEF Elsewhere

\* A crash drops the queued writes and hands the held packet out again.
LEMMA CrashKeeps ==
    ASSUME UNCHANGED processorVars, NEW c \in Connector, CrashRestart(c),
           NEW m, Elsewhere(m)
    PROVE  Elsewhere(m)'
<1>1. /\ UNCHANGED <<incoming, written, unsent>> /\ outgoing \subseteq outgoing'
      /\ writes' = {e \in writes : ConnectorOf(e[2]) # c}
      /\ dropped' = dropped \cup {e[1] : e \in {f \in writes : ConnectorOf(f[2]) = c}}
    BY DEF CrashRestart, requests
<1>2. InTopics(m) => InTopics(m)'
    BY <1>1 DEF InTopics
<1>3. InWrites(m) => InWrites(m)' \/ Forgotten(m)'
    BY <1>1 DEF InWrites, Forgotten
<1> QED
    BY <1>1, <1>2, <1>3, ConnectorLeaves DEF Elsewhere

LEMMA ConnectorKeeps ==
    ASSUME ConnectorTypeOK, ConnectorNext, UNCHANGED processorVars,
           NEW x \in Reliable, Elsewhere(AppMessage(x))
    PROVE  Elsewhere(AppMessage(x))'
BY QuietSteps, TakeKeeps, WriteKeeps, CrashKeeps DEF ConnectorNext, ConsumerThread

\* A message that a client hands over is on its way, or its callback forgot it.
LEMMA Accepts ==
    ASSUME ConnectorNext, NEW x \in accepted', x \notin accepted
    PROVE  Elsewhere(AppMessage(x))'
<1>1. PICK a \in Address : ProcessDefault(a)
    BY DEF ConnectorNext, ConsumerThread, InitChannel, TakeAuthClientReply, AdmitUser,
       AuthorizeUser, RejectUser, TakeDelivery, TakeCloseConnection, CommitPacket,
       ProcessFast, TakeThrows, CrashRestart, EventLoop, AuthTimeout, CloseRejected,
       HandlerRemoved, PeerCloses, ProcessAuthClient, ExecuteWrite, WriteSucceeds,
       WriteFails, requests
<1>2. DeliverMessage({MessageRequest(AppMessage(x))})
    BY <1>1 DEF ProcessDefault
<1>3. Carries(MessageRequest(AppMessage(x)), AppMessage(x))
    BY DEF Carries, MessageRequest
<1> QED
    BY <1>2, <1>3, Produced DEF Elsewhere

-----------------------------------------------------------------------------
\* What a step of the processors does to the database.
LEMMA StoreSteps ==
    ASSUME HandlerInv, TopicTypes, ProcessorNext
    PROVE  \/ UNCHANGED <<store, fresh>>
           \/ \E n \in Message, s \in ErrorState \cup {"PROCESSED"} : PersistMessage(n, s)
           \/ \E w \in Worker : Remove(w) \/ FindMessages(w)
<1> DEFINE Persists ==
        \E n \in Message, s \in ErrorState \cup {"PROCESSED"} : PersistMessage(n, s)
<1>t. ProcessorTypes /\ \A w \in Worker : JobOf(w)
    BY DEF HandlerInv
<1>1. ASSUME NEW w \in Worker, ChangeMessageState(w) PROVE Persists
    <2>1. PICK p \in incoming : p.type = "MESSAGE_STATE_CHANGED" /\ PersistMessage(p.msg, p.state)
        BY <1>1 DEF ChangeMessageState
    <2>2. p.msg \in Message /\ p.state \in ErrorState \cup {"PROCESSED"}
        BY <2>1, IncomingFields DEF TopicTypes
    <2> QED
        BY <2>1, <2>2
<1>2. ASSUME NEW w \in Worker, Send(w) PROVE Persists \/ UNCHANGED <<store, fresh>>
    <2>1. \/ UNCHANGED <<store, fresh>>
          \/ \E n \in doc[w] : PersistMessage(n, "ADDRESS_NOT_FOUND")
        BY <1>2 DEF Send
    <2> QED
        BY <1>t, <2>1 DEF ProcessorTypes, ErrorState
<1>3. ASSUME NEW w \in Worker, HandlerFails(w) PROVE Persists \/ UNCHANGED <<store, fresh>>
    <2>1. \/ UNCHANGED <<store, fresh>>
          \/ \E p \in job[w] : p.type = "MESSAGE" /\ PersistMessage(p.msg, "PROCESSOR_ERROR")
        BY <1>3 DEF HandlerFails
    <2>2. \A p \in job[w] : p.type = "MESSAGE" => p.msg \in Message
        BY <1>t, IncomingFields DEF ProcessorTypes
    <2> QED
        BY <2>1, <2>2 DEF ErrorState
<1>4. ASSUME NEW e \in buffer, DeliveryFailed(e) PROVE Persists \/ UNCHANGED <<store, fresh>>
    <2>1. \/ UNCHANGED <<store, fresh>>
          \/ e[2].type = "DELIVER" /\ PersistMessage(e[2].msg, "NETWORK_ERROR")
        BY <1>4 DEF DeliveryFailed
    <2>2. e[2].type = "DELIVER" => e[2].msg \in Message
        BY <1>t DEF ProcessorTypes, OutgoingPacket
    <2> QED
        BY <2>1, <2>2 DEF ErrorState
<1>5. ASSUME NEW w \in Worker,
             \/ AnswerAuthClient(w) \/ ReadUserChannel(w) \/ WriteUserChannel(w)
             \/ RequestMessage(w) \/ RequestClose(w) \/ RequestFetch(w)
             \/ RouteMissing(w) \/ Route(w) \/ Commit(w) \/ PersistFails(w) \/ ChangeFails(w)
             \/ WorkerCrash(w)
      PROVE  UNCHANGED <<store, fresh>>
    BY <1>5 DEF AnswerAuthClient, ReadUserChannel, WriteUserChannel, RequestMessage,
       RequestClose, RequestFetch, RouteMissing, Route, Commit, PersistFails, ChangeFails,
       WorkerCrash
<1>6. ASSUME NEW e \in buffer, Delivered(e) PROVE UNCHANGED <<store, fresh>>
    BY <1>6 DEF Delivered
<1> QED
    BY <1>1, <1>2, <1>3, <1>4, <1>5, <1>6 DEF ProcessorNext, WorkerThread

\* Only a fetch takes a message out of the database.
LEMMA StoreKeeps ==
    ASSUME HandlerInv, TopicTypes, ProcessorNext, NEW m \in Message, InStore(m)
    PROVE  InStore(m)' \/ \E w \in Worker : Remove(w) /\ m \in doc[w]
<1>t. ProcessorTypes
    BY DEF HandlerInv
<1>1. CASE \E n \in Message, s \in ErrorState \cup {"PROCESSED"} : PersistMessage(n, s)
    BY <1>1, <1>t, PersistSaves
<1>2. CASE \E w \in Worker : Remove(w)
    BY <1>2 DEF Remove, InStore
<1>3. CASE UNCHANGED store
    BY <1>3 DEF InStore
<1> QED
    BY <1>1, <1>2, <1>3, StoreSteps DEF FindMessages

\* A message about to be removed is not read again before it is.
LEMMA FreshKeeps ==
    ASSUME HandlerInv, TopicTypes, ProcessorNext, HandlerInv',
           NEW w \in Worker, stage[w] = "remove", NEW m \in doc[w], m \in fresh,
           doc'[w] = doc[w], stage'[w] = "remove"
    PROVE  m \in fresh'
<1>t. ProcessorTypes /\ m \in Message
    BY DEF HandlerInv, ProcessorTypes
<1>1. CASE \E n \in Message, s \in ErrorState \cup {"PROCESSED"} : PersistMessage(n, s)
    BY <1>1, <1>t, PersistSaves
<1>2. ASSUME NEW v \in Worker, FindMessages(v) PROVE m \in fresh'
    <2>1. LockInv' /\ PageOf(w)' /\ PageOf(v)'
        BY DEF HandlerInv
    <2>2. m \in todo'[w] /\ v # w
        BY <1>2, <2>1 DEF PageOf, FindMessages
    <2>3. m \notin todo'[v]
        BY <2>1, <2>2 DEF LockInv, PageOf
    <2>4. fresh' = fresh \ todo'[v]
        BY <1>2, <1>t DEF FindMessages, ProcessorTypes
    <2> QED
        BY <2>3, <2>4
<1>3. CASE UNCHANGED fresh
    BY <1>3
<1> QED
    BY <1>1, <1>2, <1>3, StoreSteps DEF Remove

\* Only Send sets out to remove a message.
LEMMA RemoveStage ==
    ASSUME HandlerInv, TopicTypes, ProcessorNext, NEW w \in Worker, stage'[w] = "remove"
    PROVE  \/ stage[w] = "remove" /\ doc'[w] = doc[w]
           \/ Send(w)
<1>t. ProcessorTypes
    BY DEF HandlerInv
<1>1. ASSUME NEW e \in buffer, Delivered(e) \/ DeliveryFailed(e)
      PROVE  stage[w] = "remove" /\ doc'[w] = doc[w]
    BY <1>1 DEF Delivered, DeliveryFailed, thread
<1>2. ASSUME NEW v \in Worker, NEW s \in Stage \ {"remove"}, Goto(v, s),
             \/ UNCHANGED doc \/ \E d : doc' = [doc EXCEPT ![v] = d]
      PROVE  stage[w] = "remove" /\ doc'[w] = doc[w]
    BY <1>2, <1>t DEF Goto, ProcessorTypes
<1>3. ASSUME NEW v \in Worker, Send(v), v # w
      PROVE  stage[w] = "remove" /\ doc'[w] = doc[w]
    BY <1>3, <1>t DEF Send, Goto, ProcessorTypes
<1>4. ASSUME NEW v \in Worker, WorkerThread(v) \/ HandlerFails(v) \/ PersistFails(v)
             \/ ChangeFails(v) \/ WorkerCrash(v), ~Send(v)
      PROVE  /\ \E s \in Stage \ {"remove"} : Goto(v, s)
             /\ \/ UNCHANGED doc \/ \E d : doc' = [doc EXCEPT ![v] = d]
    <2>1. CASE AnswerAuthClient(v) \/ ReadUserChannel(v) \/ ChangeMessageState(v)
               \/ RequestMessage(v) \/ RequestClose(v) \/ RequestFetch(v) \/ ChangeFails(v)
        BY <2>1 DEF AnswerAuthClient, ReadUserChannel, ChangeMessageState, RequestMessage,
           RequestClose, RequestFetch, ChangeFails, Stage
    <2>2. CASE WriteUserChannel(v) \/ Route(v) \/ RouteMissing(v) \/ Commit(v)
               \/ FindMessages(v) \/ Remove(v)
        BY <2>2 DEF WriteUserChannel, NotifyMaster, Route, RouteMissing, Commit,
           FindMessages, Remove, Stage
    <2>3. CASE HandlerFails(v) \/ PersistFails(v) \/ WorkerCrash(v)
        BY <2>3 DEF HandlerFails, PersistFails, WorkerCrash, Stage
    <2> QED
        BY <1>4, <2>1, <2>2, <2>3 DEF WorkerThread
<1> QED
    BY <1>1, <1>2, <1>3, <1>4 DEF ProcessorNext, WorkerThread

\* What is about to be removed was sent or saved by the same step.
LEMMA SendsFirst ==
    ASSUME HandlerInv, TopicTypes, NEW w \in Worker, Send(w),
           NEW x \in Reliable, AppMessage(x) \in doc'[w]
    PROVE  Elsewhere(AppMessage(x))' \/ AppMessage(x) \in fresh'
<1> DEFINE m == AppMessage(x)
<1>m. m \in Message /\ IsReliable(m)
    BY Application
<1>t. ProcessorTypes /\ JobOf(w)
    BY DEF HandlerInv
<1>1. doc[w] = {m}
    BY <1>t DEF Send, JobOf
<1>2. CASE seen[w] = {}
    <2>1. PersistMessage(m, "ADDRESS_NOT_FOUND")
        BY <1>1, <1>2 DEF Send
    <2> QED
        BY <1>m, <1>t, <2>1, PersistSaves DEF ErrorState, Saved
<1>3. CASE seen[w] # {}
    <2>1. PICK a \in seen[w] : <<w, Delivery(m, a)>> \in buffer'
        BY <1>1, <1>3 DEF Send
    <2>2. Carries(Delivery(m, a), m)
        BY DEF Carries, Delivery
    <2>3. InBuffer(m)'
        BY <2>1, <2>2 DEF InBuffer
    <2> QED
        BY <2>3 DEF Elsewhere
<1> QED
    BY <1>2, <1>3

-----------------------------------------------------------------------------
LEMMA AccountedMeans ==
    ReliableMessageAccounted <=>
        \A x \in accepted \cap Reliable : Elsewhere(AppMessage(x)) \/ InStore(AppMessage(x))
BY DEF ReliableMessageAccounted, Elsewhere

LEMMA ProcessorAccount ==
    ASSUME HandlerInv, TopicTypes, AccountInv, ProcessorNext, UNCHANGED connectorVars
    PROVE  AccountInv'
<1>h. HandlerInv'
    BY HandlerStep
<1>1. ASSUME NEW x \in Reliable,
             Elsewhere(AppMessage(x)) \/ InStore(AppMessage(x))
      PROVE  Elsewhere(AppMessage(x))' \/ InStore(AppMessage(x))'
    <2> DEFINE m == AppMessage(x)
    <2>m. m \in Message
        BY Application
    <2>1. CASE Elsewhere(m)
        BY <2>1, ProcessorKeeps DEF Saved
    <2>2. ASSUME NEW w \in Worker, Remove(w), m \in doc[w], ~Elsewhere(m)
          PROVE  Elsewhere(m)'
        <3>1. m \in fresh
            BY <2>2 DEF AccountInv, RemovalInv, Remove
        <3>2. m \in erased'
            BY <2>2, <3>1 DEF Remove
        <3> QED
            BY <3>2 DEF Elsewhere, Forgotten
    <2> QED
        BY <1>1, <2>m, <2>1, <2>2, StoreKeeps
<1>2. ReliableMessageAccounted'
    <2>1. UNCHANGED accepted
        BY DEF connectorVars
    <2>2. \A x \in accepted \cap Reliable :
              Elsewhere(AppMessage(x)) \/ InStore(AppMessage(x))
        BY AccountedMeans DEF AccountInv
    <2>3. \A x \in accepted' \cap Reliable :
              Elsewhere(AppMessage(x))' \/ InStore(AppMessage(x))'
        BY <1>1, <2>1, <2>2
    <2> QED
        BY <2>3 DEF ReliableMessageAccounted, Elsewhere
<1>3. ASSUME NEW w \in Worker, NEW x \in Reliable,
             stage'[w] = "remove", AppMessage(x) \in doc'[w]
      PROVE  Elsewhere(AppMessage(x))' \/ AppMessage(x) \in fresh'
    <2>1. CASE stage[w] = "remove" /\ doc'[w] = doc[w]
        <3>1. Elsewhere(AppMessage(x)) \/ AppMessage(x) \in fresh
            BY <1>3, <2>1 DEF AccountInv, RemovalInv
        <3> QED
            BY <1>3, <1>h, <2>1, <3>1, ProcessorKeeps, FreshKeeps DEF Saved
    <2>2. CASE Send(w)
        BY <1>3, <2>2, SendsFirst
    <2> QED
        BY <1>3, <2>1, <2>2, RemoveStage
<1>4. RemovalInv'
    BY <1>3 DEF RemovalInv
<1> QED
    BY <1>2, <1>4 DEF AccountInv

LEMMA ConnectorAccount ==
    ASSUME ConnectorTypeOK, AccountInv, ConnectorNext, UNCHANGED processorVars
    PROVE  AccountInv'
<1>1. /\ UNCHANGED <<stage, doc, fresh>>
      /\ \A m : InStore(m) => InStore(m)'
    BY DEF processorVars, InStore
<1>2. ReliableMessageAccounted'
    <2>1. \A x \in accepted \cap Reliable :
              Elsewhere(AppMessage(x)) \/ InStore(AppMessage(x))
        BY AccountedMeans DEF AccountInv
    <2>2. \A x \in accepted' \cap Reliable :
              Elsewhere(AppMessage(x))' \/ InStore(AppMessage(x))'
        BY <1>1, <2>1, ConnectorKeeps, Accepts
    <2> QED
        BY <2>2 DEF ReliableMessageAccounted, Elsewhere
<1>3. RemovalInv'
    BY <1>1, ConnectorKeeps DEF AccountInv, RemovalInv
<1> QED
    BY <1>2, <1>3 DEF AccountInv

-----------------------------------------------------------------------------
\* A batch takes in the packet that its connector is done with, at most.
LEMMA ConsumedComes ==
    ASSUME ConnectorTypeOK, ConnectorNext
    PROVE  \A c \in Connector : consumed'[c] \subseteq consumed[c] \cup packet[c]
<1>1. ASSUME NEW c \in Connector, CommitPacket(c) \/ CrashRestart(c)
      PROVE  \E D : D \subseteq consumed[c] \cup packet[c] /\ consumed' = [consumed EXCEPT ![c] = D]
    <2>1. CASE CommitPacket(c)
        <3>1. PICK D \in BatchAfter(consumed[c], packet[c]) :
                  consumed' = [consumed EXCEPT ![c] = D]
            BY <2>1 DEF CommitPacket
        <3> QED
            BY <3>1, BatchGrows
    <2>2. CASE CrashRestart(c)
        BY <2>2 DEF CrashRestart
    <2> QED
        BY <1>1, <2>1, <2>2
<1>2. ASSUME NEW c \in Connector, NEW D, D \subseteq consumed[c] \cup packet[c],
             consumed' = [consumed EXCEPT ![c] = D]
      PROVE  \A d \in Connector : consumed'[d] \subseteq consumed[d] \cup packet[d]
    BY <1>2 DEF ConnectorTypeOK
<1>3. ASSUME NEW c \in Connector, ConsumerThread(c), ~CommitPacket(c)
      PROVE  UNCHANGED consumed
    BY <1>3 DEF ConsumerThread, TakeAuthClientReply, AdmitUser, AuthorizeUser, RejectUser,
       TakeDelivery, TakeCloseConnection, Take
<1>4. ASSUME NEW c \in Connector, InitChannel(c) \/ ProcessFast(c) \/ TakeThrows(c)
      PROVE  UNCHANGED consumed
    BY <1>4 DEF InitChannel, ProcessFast, TakeThrows, Take, consumer
<1>5. ASSUME NEW a \in Address,
             \/ EventLoop(a) \/ ProcessDefault(a) \/ PeerCloses(a)
             \/ \E u \in User : ProcessAuthClient(a, u)
      PROVE  UNCHANGED consumed
    BY <1>5 DEF EventLoop, AuthTimeout, CloseRejected, HandlerRemoved, ProcessDefault,
       PeerCloses, ProcessAuthClient, consumer
<1>6. ASSUME ExecuteWrite PROVE UNCHANGED consumed
    BY <1>6 DEF ExecuteWrite, WriteSucceeds, WriteFails, consumer
<1>7. UNCHANGED consumed \/ \E c \in Connector : CommitPacket(c) \/ CrashRestart(c)
    BY <1>3, <1>4, <1>5, <1>6 DEF ConnectorNext
<1> QED
    BY <1>1, <1>2, <1>7

\* Connectors take packets out of their topics and put none in, but for the
\* packets a crash returns; and they hold what they took, one at a time.
LEMMA ConsumersConsume ==
    ASSUME ConnectorNext
    PROVE  /\ outgoing' \subseteq outgoing \/ \E c \in Connector : CrashRestart(c)
           /\ \/ UNCHANGED packet
              \/ \E c \in Connector : packet' = [packet EXCEPT ![c] = {}]
              \/ \E c \in Connector, p \in outgoing : packet' = [packet EXCEPT ![c] = {p}]
<1>1. ASSUME NEW c \in Connector, NEW p, Take(c, p)
      PROVE  /\ outgoing' \subseteq outgoing
             /\ p \in outgoing /\ packet' = [packet EXCEPT ![c] = {p}]
    BY <1>1 DEF Take
<1>2. ASSUME NEW c \in Connector,
             \/ TakeAuthClientReply(c) \/ TakeDelivery(c) \/ TakeCloseConnection(c)
      PROVE  \E p : Take(c, p)
    BY <1>2 DEF TakeAuthClientReply, TakeDelivery, TakeCloseConnection
<1>3. ASSUME NEW c \in Connector, CommitPacket(c) \/ CrashRestart(c)
      PROVE  /\ outgoing' \subseteq outgoing \/ CrashRestart(c)
             /\ packet' = [packet EXCEPT ![c] = {}]
    BY <1>3 DEF CommitPacket, CrashRestart, topics
<1>4. ASSUME NEW c \in Connector, AdmitUser(c) \/ AuthorizeUser(c) \/ RejectUser(c)
      PROVE  UNCHANGED <<outgoing, packet>> \/ (outgoing' = outgoing /\ packet' = [packet EXCEPT ![c] = {}])
    BY <1>4 DEF AdmitUser, AuthorizeUser, RejectUser, topics
<1>5. ASSUME NEW c \in Connector, InitChannel(c) \/ ProcessFast(c)
      PROVE  outgoing' \subseteq outgoing /\ UNCHANGED packet
    BY <1>5 DEF InitChannel, ProcessFast, consumer, topics
<1>6. ASSUME NEW c \in Connector, TakeThrows(c)
      PROVE  \/ \E p : Take(c, p)
             \/ outgoing' \subseteq outgoing /\ UNCHANGED packet
    BY <1>6 DEF TakeThrows, consumer
<1>7. ASSUME NEW a \in Address, EventLoop(a)
      PROVE  UNCHANGED <<outgoing, packet>>
    BY <1>7 DEF EventLoop, AuthTimeout, CloseRejected, HandlerRemoved, consumer, topics
<1>8. ASSUME NEW a \in Address,
             ProcessDefault(a) \/ PeerCloses(a) \/ \E u \in User : ProcessAuthClient(a, u)
      PROVE  UNCHANGED <<outgoing, packet>>
    BY <1>8 DEF ProcessDefault, PeerCloses, ProcessAuthClient, consumer, topics
<1>9. ASSUME ExecuteWrite
      PROVE  UNCHANGED <<outgoing, packet>>
    BY <1>9 DEF ExecuteWrite, WriteSucceeds, WriteFails, consumer, topics
<1>10. ASSUME NEW c \in Connector, ConsumerThread(c)
       PROVE  \/ \E p : Take(c, p)
              \/ outgoing' \subseteq outgoing /\ packet' = [packet EXCEPT ![c] = {}]
              \/ CrashRestart(c) /\ packet' = [packet EXCEPT ![c] = {}]
              \/ UNCHANGED <<outgoing, packet>>
    BY <1>2, <1>3, <1>4, <1>10 DEF ConsumerThread
<1> QED
    BY <1>1, <1>3, <1>5, <1>6, <1>7, <1>8, <1>9, <1>10 DEF ConnectorNext

-----------------------------------------------------------------------------
\* What a message or a packet says of a delivery is true: a confirmation, and
\* a report that a message was processed, come after the write, and only a sender
\* that asked for a confirmation gets one.
Good(m) ==
    \A x \in Payload : m = Confirmation(x) =>
        x \in Confirmed /\ <<AppMessage(x), To[x]>> \in written
Proper(p) ==
    /\ p.type \in {"MESSAGE_STATE_CHANGED", "DELIVER"} => Good(p.msg)
    /\ p.type = "MESSAGE_STATE_CHANGED" /\ p.state = "PROCESSED"
            /\ p.msg.type = "MESSAGE" => <<p.msg, p.msg.to>> \in written

\* Whatever a process, a topic or the database holds says the truth.
ConfirmInv ==
    /\ \A p \in incoming \cup outgoing : Proper(p)
    /\ \A w \in Worker : \A p \in job[w] \cup handled[w] : Proper(p)
    /\ \A w \in Worker : \A m \in doc[w] \cup todo[w] : Good(m)
    /\ \A e \in buffer : Proper(e[2])
    /\ \A c \in Connector : \A p \in packet[c] \cup consumed[c] : Proper(p)
    /\ \A e \in writes : Good(e[1])
    /\ \A m \in Message : store[m] # "absent" => Good(m)

\* Only confirmations claim anything.
LEMMA OthersAreGood ==
    ASSUME NEW m, m.type # "MESSAGE_CONFIRMATION"
    PROVE  Good(m)
BY DEF Good, Confirmation, Msg

\* What was true stays true: nothing is ever unwritten.
LEMMA TruthStays ==
    ASSUME written \subseteq written'
    PROVE  /\ \A m : Good(m) => Good(m)'
           /\ \A p : Proper(p) => Proper(p)'
BY DEF Good, Proper

\* A true report of a processed message yields a true confirmation.
LEMMA ConfirmsTruth ==
    ASSUME NEW p \in IncomingPacket, p.type = "MESSAGE_STATE_CHANGED", Proper(p), ToConfirm(p)
    PROVE  Good(Confirmation(p.msg.about))
<1>1. p.msg \in Message /\ p.msg.type = "MESSAGE" /\ <<p.msg, p.msg.to>> \in written
      /\ p.msg.about \in Confirmed
    BY DEF IncomingPacket, ToConfirm, Proper
<1>2. PICK x \in Payload : p.msg = AppMessage(x)
    BY <1>1 DEF Message, AppMessages, Confirmation, Notice, FetchComplete, CloseConnection, Msg
<1>3. p.msg.about = x /\ p.msg.to = To[x]
    BY <1>2 DEF AppMessage, Msg
<1>4. ASSUME NEW y \in Payload, Confirmation(x) = Confirmation(y)
      PROVE  x = y
    BY <1>4 DEF Confirmation, Msg
<1> QED
    BY <1>1, <1>2, <1>3, <1>4 DEF Good

\* A worker that takes a packet.
LEMMA StartConfirms ==
    ASSUME HandlerInv, TopicTypes, ConfirmInv, UNCHANGED connectorVars, NEW w \in Worker,
           \/ AnswerAuthClient(w) \/ ReadUserChannel(w) \/ ChangeMessageState(w)
           \/ RequestMessage(w) \/ RequestClose(w) \/ RequestFetch(w) \/ ChangeFails(w)
    PROVE  ConfirmInv'
<1>t. ProcessorTypes
    BY DEF HandlerInv
<1>1. /\ \A m : Good(m) => Good(m)'
      /\ \A p : Proper(p) => Proper(p)'
    BY TruthStays DEF connectorVars
<1>2. PICK p \in incoming :
          /\ Start(w, p) /\ UNCHANGED <<outgoing, todo>>
          /\ \/ UNCHANGED doc
             \/ \E m : doc' = [doc EXCEPT ![w] = {m}] /\ Good(m)
          /\ \/ UNCHANGED buffer
             \/ \E u \in User, a \in Address, ok \in BOOLEAN :
                    buffer' = buffer \cup {<<w, AuthClientReply(u, a, ok)>>}
          /\ \/ UNCHANGED store
             \/ p.type = "MESSAGE_STATE_CHANGED" /\ PersistMessage(p.msg, p.state)
    <2>1. CASE AnswerAuthClient(w)
        BY <2>1 DEF AnswerAuthClient, TopicTypes, IncomingPacket
    <2>2. CASE ReadUserChannel(w)
        BY <2>2 DEF ReadUserChannel
    <2>3. CASE ChangeMessageState(w)
        <3>1. PICK p \in incoming :
                  /\ p.type = "MESSAGE_STATE_CHANGED" /\ Start(w, p)
                  /\ PersistMessage(p.msg, p.state)
                  /\ \/ ToConfirm(p) /\ doc' = [doc EXCEPT ![w] = {Confirmation(p.msg.about)}]
                     \/ UNCHANGED doc
                  /\ UNCHANGED <<outgoing, todo, buffer>>
            BY <2>3 DEF ChangeMessageState
        <3>2. p \in IncomingPacket /\ Proper(p)
            BY DEF TopicTypes, ConfirmInv
        <3>3. ToConfirm(p) => Good(Confirmation(p.msg.about))
            BY <3>1, <3>2, ConfirmsTruth
        <3> QED
            BY <3>1, <3>3
    <2>4. CASE RequestMessage(w)
        <3>1. PICK p \in incoming :
                  /\ p.type = "MESSAGE" /\ Start(w, p)
                  /\ doc' = [doc EXCEPT ![w] = {p.msg}]
                  /\ UNCHANGED <<outgoing, todo, buffer, store>>
            BY <2>4 DEF RequestMessage
        <3>2. p.msg \in AppMessages
            BY <3>1 DEF TopicTypes, IncomingPacket
        <3>3. Good(p.msg)
            BY <3>2, OthersAreGood DEF AppMessages, AppMessage, Msg
        <3> QED
            BY <3>1, <3>3
    <2>5. CASE RequestClose(w)
        <3>1. \A u : Good(CloseConnection(u))
            BY OthersAreGood DEF CloseConnection, Msg
        <3> QED
            BY <2>5, <3>1 DEF RequestClose
    <2>6. CASE RequestFetch(w)
        BY <2>6 DEF RequestFetch
    <2>7. CASE ChangeFails(w)
        BY <2>7 DEF ChangeFails
    <2> QED
        BY <2>1, <2>2, <2>3, <2>4, <2>5, <2>6, <2>7
<1>3. Proper(p) /\ incoming' \subseteq incoming /\ outgoing' = outgoing
      /\ job' = [job EXCEPT ![w] = {p}]
    BY <1>2 DEF ConfirmInv, Start
<1>4. \A m \in Message : store'[m] # "absent" => Good(m)
    <2>1. CASE UNCHANGED store
        BY <2>1 DEF ConfirmInv
    <2>2. CASE p.type = "MESSAGE_STATE_CHANGED" /\ PersistMessage(p.msg, p.state)
        <3>1. Good(p.msg)
            BY <1>3, <2>2 DEF Proper
        <3> QED
            BY <1>t, <2>2, <3>1 DEF ConfirmInv, PersistMessage, ProcessorTypes
    <2> QED
        BY <1>2, <2>1, <2>2
<1>5. \A v \in Worker : \A m \in doc'[v] \cup todo'[v] : Good(m)
    BY <1>t, <1>2 DEF ConfirmInv, ProcessorTypes
<1>6. \A e \in buffer' : Proper(e[2])
    <2>1. \A u, a, ok : Proper(AuthClientReply(u, a, ok))
        BY DEF Proper, AuthClientReply
    <2> QED
        BY <1>2, <2>1 DEF ConfirmInv
<1>b. \A v \in Worker : handled'[v] \subseteq handled[v] \cup job[v]
    BY <1>t, HandledComes DEF ProcessorNext, WorkerThread
<1>7. \A v \in Worker : \A q \in job'[v] \cup handled'[v] : Proper(q)
    <2>1. \A v \in Worker : \A q \in job'[v] : Proper(q)
        BY <1>t, <1>3 DEF ConfirmInv, ProcessorTypes
    <2> QED
        BY <1>b, <2>1 DEF ConfirmInv
<1>8. UNCHANGED <<packet, consumed, writes>>
    BY DEF connectorVars
<1> QED
    BY <1>1, <1>3, <1>4, <1>5, <1>6, <1>7, <1>8 DEF ConfirmInv

\* A worker in the middle of a handler.
LEMMA WorkConfirms ==
    ASSUME HandlerInv, TopicTypes, ConfirmInv, UNCHANGED connectorVars, NEW w \in Worker,
           \/ WriteUserChannel(w) \/ Route(w) \/ Send(w) \/ Commit(w) \/ FindMessages(w)
           \/ RouteMissing(w) \/ Remove(w) \/ HandlerFails(w) \/ PersistFails(w) \/ WorkerCrash(w)
    PROVE  ConfirmInv'
<1>t. ProcessorTypes
    BY DEF HandlerInv
<1>1. /\ \A m : Good(m) => Good(m)'
      /\ \A p : Proper(p) => Proper(p)'
    BY TruthStays DEF connectorVars
<1>2. UNCHANGED <<packet, consumed, writes, outgoing>>
    BY DEF connectorVars, WriteUserChannel, Route, Send, Commit, FindMessages, RouteMissing,
       Remove, HandlerFails, PersistFails, WorkerCrash, topics
<1>3. \A p \in incoming' : Proper(p)
    BY DEF ConfirmInv, WriteUserChannel, Route, Send, Commit, FindMessages, RouteMissing,
       Remove, HandlerFails, PersistFails, WorkerCrash, topics
<1>b. \A v \in Worker : handled'[v] \subseteq handled[v] \cup job[v]
    BY <1>t, HandledComes DEF ProcessorNext, WorkerThread
<1>4. \A v \in Worker : \A p \in job'[v] \cup handled'[v] : Proper(p)
    <2>1. \A v \in Worker : \A p \in job'[v] : Proper(p)
        BY <1>t DEF ConfirmInv, WriteUserChannel, Route, Send, Commit, FindMessages,
           RouteMissing, Remove, HandlerFails, PersistFails, WorkerCrash, ProcessorTypes
    <2> QED
        BY <1>b, <2>1 DEF ConfirmInv
<1>5. \A v \in Worker : \A m \in doc'[v] : Good(m)
    <2>1. CASE WriteUserChannel(w)
        <3>1. \A type \in {"USER_CONNECTED", "USER_DISCONNECTED"} : \A u, a :
                  Good(Notice(type, u, a))
            BY OthersAreGood DEF Notice, Msg
        <3> QED
            <4>1. PICK m : /\ doc' = [doc EXCEPT ![w] = {m}] \/ doc' = doc
                           /\ Good(m)
                <5>1. PICK p \in job[w] :
                        \/ /\ p.type \in {"USER_CONNECTED", "USER_DISCONNECTED"}
                           /\ NotifyMaster(w, p.type, p.user, p.addr)
                        \/ /\ p.type = "MESSAGE_STATE_CHANGED"
                           /\ doc' = [doc EXCEPT ![w] = {p.msg}]
                    BY <2>1 DEF WriteUserChannel
                <5>2. CASE p.type = "MESSAGE_STATE_CHANGED"
                    <6>1. Proper(p) /\ doc' = [doc EXCEPT ![w] = {p.msg}]
                        BY <5>1, <5>2 DEF ConfirmInv
                    <6>2. Good(p.msg)
                        BY <5>2, <6>1 DEF Proper
                    <6> QED
                        BY <6>1, <6>2, Zenon
                <5>3. CASE /\ p.type \in {"USER_CONNECTED", "USER_DISCONNECTED"}
                           /\ NotifyMaster(w, p.type, p.user, p.addr)
                    BY <3>1, <5>3 DEF NotifyMaster
                <5> QED
                    BY <5>1, <5>2, <5>3
            <4> QED
                BY <1>t, <4>1 DEF ConfirmInv, ProcessorTypes
    <2>2. CASE RouteMissing(w)
        <3>1. \A u : Good(FetchComplete(u))
            BY OthersAreGood DEF FetchComplete, Msg
        <3> QED
            BY <1>t, <2>2, <3>1 DEF ConfirmInv, RouteMissing, ProcessorTypes
    <2> QED
        BY <1>t, <2>1, <2>2 DEF ConfirmInv, Route, Send, Commit, FindMessages, Remove,
           HandlerFails, PersistFails, WorkerCrash, ProcessorTypes
<1>6. \A v \in Worker : \A m \in todo'[v] : Good(m)
    <2>1. CASE FindMessages(w)
        <3>1. PICK page \in SUBSET Message :
                  /\ todo' = [todo EXCEPT ![w] = page]
                  /\ \A m \in page : store[m] \in FetchableState
            BY <2>1 DEF FindMessages
        <3>2. \A m \in page : Good(m)
            BY <3>1 DEF ConfirmInv, FetchableState
        <3> QED
            BY <1>t, <3>1, <3>2 DEF ConfirmInv, ProcessorTypes
    <2> QED
        BY <1>t, <2>1 DEF ConfirmInv, WriteUserChannel, Route, Send, Commit, RouteMissing,
           Remove, HandlerFails, PersistFails, WorkerCrash, ProcessorTypes
<1>7. \A e \in buffer' : Proper(e[2])
    <2>1. CASE Send(w)
        <3>1. PICK m \in doc[w] :
                  \/ UNCHANGED buffer
                  \/ buffer' = buffer \cup {<<w, Delivery(m, a)>> : a \in seen[w]}
            BY <2>1 DEF Send
        <3>2. \A a : Proper(Delivery(m, a))
            BY DEF ConfirmInv, Proper, Delivery
        <3> QED
            BY <3>1, <3>2 DEF ConfirmInv
    <2> QED
        BY <2>1 DEF ConfirmInv, WriteUserChannel, Route, Commit, FindMessages, RouteMissing,
           Remove, HandlerFails, PersistFails, WorkerCrash
<1>8. \A m \in Message : store'[m] # "absent" => Good(m)
    <2>1. ASSUME NEW m \in Message, NEW state, PersistMessage(m, state), Good(m)
          PROVE  \A n \in Message : store'[n] # "absent" => Good(n)
        BY <1>t, <2>1 DEF ConfirmInv, PersistMessage, ProcessorTypes
    <2>2. CASE Send(w)
        BY <1>t, <2>1, <2>2 DEF Send, ConfirmInv, ProcessorTypes
    <2>3. CASE HandlerFails(w)
        <3>1. \A p \in job[w] : p.type = "MESSAGE" => p.msg \in AppMessages
            <4>1. job[w] \subseteq IncomingPacket
                BY <1>t DEF ProcessorTypes
            <4>2. \A p \in IncomingPacket : p.type = "MESSAGE" => p.msg \in AppMessages
                BY Zenon DEF IncomingPacket
            <4> QED
                BY <4>1, <4>2
        <3>2. \A m \in AppMessages : m \in Message /\ Good(m)
            BY OthersAreGood DEF AppMessages, AppMessage, Msg, Message
        <3> QED
            BY <2>1, <2>3, <3>1, <3>2 DEF HandlerFails, ConfirmInv
    <2>4. CASE Remove(w)
        BY <1>t, <2>4 DEF Remove, ConfirmInv, ProcessorTypes
    <2> QED
        BY <2>2, <2>3, <2>4 DEF ConfirmInv, WriteUserChannel, Route, Commit, FindMessages,
           RouteMissing, PersistFails, WorkerCrash
<1> QED
    BY <1>1, <1>2, <1>3, <1>4, <1>5, <1>6, <1>7, <1>8 DEF ConfirmInv

\* The producer's callbacks.
LEMMA CallbackConfirms ==
    ASSUME HandlerInv, ConfirmInv, UNCHANGED connectorVars, NEW e \in buffer,
           Delivered(e) \/ DeliveryFailed(e)
    PROVE  ConfirmInv'
<1>t. ProcessorTypes
    BY DEF HandlerInv
<1>1. /\ \A m : Good(m) => Good(m)'
      /\ \A p : Proper(p) => Proper(p)'
    BY TruthStays DEF connectorVars
<1>2. /\ UNCHANGED <<packet, consumed, writes, incoming, job, handled, doc, todo>>
      /\ buffer' \subseteq buffer /\ outgoing' \subseteq outgoing \cup {e[2]}
    BY DEF connectorVars, Delivered, DeliveryFailed, thread, topics
<1>3. \A m \in Message : store'[m] # "absent" => Good(m)
    <2>1. e[2].type = "DELIVER" => e[2].msg \in Message /\ Good(e[2].msg)
        BY <1>t DEF ConfirmInv, Proper, ProcessorTypes, OutgoingPacket
    <2> QED
        BY <1>t, <2>1 DEF Delivered, DeliveryFailed, PersistMessage, ConfirmInv, ProcessorTypes
<1> QED
    BY <1>1, <1>2, <1>3 DEF ConfirmInv

\* The connectors report what they wrote.
LEMMA ConnectorConfirms ==
    ASSUME ConnectorTypeOK, NoMisdelivery', ConfirmInv, UNCHANGED processorVars, ConnectorNext
    PROVE  ConfirmInv'
<1>w. written \subseteq written' /\ UNCHANGED <<job, handled, doc, todo, buffer, store>>
    BY DEF processorVars, ConnectorNext, InitChannel, ConsumerThread, TakeAuthClientReply,
       AdmitUser, AuthorizeUser, RejectUser, TakeDelivery, TakeCloseConnection, CommitPacket,
       ProcessFast, TakeThrows, CrashRestart, EventLoop, AuthTimeout, CloseRejected,
       HandlerRemoved, ProcessDefault, PeerCloses, ProcessAuthClient, ExecuteWrite,
       WriteSucceeds, WriteFails
<1>1. /\ \A m : Good(m) => Good(m)'
      /\ \A p : Proper(p) => Proper(p)'
    BY <1>w, TruthStays
<1>s. ASSUME NEW P, DeliverMessage(P), \A p \in P : Proper(p)'
      PROVE  \A p \in incoming' : Proper(p)'
    BY <1>1, <1>s DEF DeliverMessage, ConfirmInv
<1>q. \A p : p.type \notin {"MESSAGE_STATE_CHANGED", "DELIVER"} => Proper(p)'
    BY DEF Proper
<1>r. ASSUME NEW m, NEW a, NEW state, Good(m), state # "PROCESSED"
      PROVE  Proper(MessageStateChanged(m, a, state))'
    BY <1>1, <1>r DEF Proper, MessageStateChanged
<1>2. \A p \in incoming' : Proper(p)'
    <2>1. CASE \/ \E c \in Connector : \/ InitChannel(c) \/ TakeAuthClientReply(c)
                                      \/ AdmitUser(c) \/ RejectUser(c)
                                      \/ TakeCloseConnection(c) \/ CommitPacket(c)
                                      \/ CrashRestart(c)
               \/ \E a \in Address : AuthTimeout(a) \/ CloseRejected(a) \/ PeerCloses(a)
        <3>1. UNCHANGED incoming
            BY <2>1 DEF InitChannel, TakeAuthClientReply, AdmitUser, RejectUser,
               TakeCloseConnection, CommitPacket, CrashRestart, AuthTimeout, CloseRejected,
               PeerCloses, topics
        <3> QED
            BY <1>1, <3>1 DEF ConfirmInv
    <2>2. ASSUME NEW c \in Connector, AuthorizeUser(c)
          PROVE  \A p \in incoming' : Proper(p)'
        <3>1. \A u, a : UserConnected(u, a).type \notin {"MESSAGE_STATE_CHANGED", "DELIVER"}
            BY DEF UserConnected
        <3> QED
            BY <1>s, <1>q, <2>2, <3>1 DEF AuthorizeUser
    <2>3. ASSUME NEW c \in Connector, TakeDelivery(c) \/ ProcessFast(c) \/ TakeThrows(c)
          PROVE  \A p \in incoming' : Proper(p)'
        <3>1. PICK p \in outgoing :
                  /\ p.type = "DELIVER" \/ IsFast(p)
                  /\ \/ ProcessDelivery(p.msg, p.addr)
                     \/ DeliverMessage({MessageStateChanged(p.msg, p.addr, "CONNECTOR_ERROR")})
            <4>1. CASE TakeDelivery(c)
                BY <4>1 DEF TakeDelivery, ProcessFast, TakeThrows, Take
            <4>2. CASE ProcessFast(c) /\ ~TakeDelivery(c) /\ ~TakeThrows(c)
                BY <4>2 DEF ProcessFast
            <4>3. CASE TakeThrows(c)
                BY <4>3 DEF TakeThrows, ProcessFast, Take
            <4> QED
                BY <2>3, <4>1, <4>2, <4>3
        <3>2. p.type = "DELIVER"
            BY <2>3, <3>1 DEF IsFast, ConnectorTypeOK, OutgoingPacket
        <3>3. Good(p.msg)
            BY <3>2 DEF ConfirmInv, Proper
        <3>4. CASE DeliverMessage({MessageStateChanged(p.msg, p.addr, "CONNECTOR_ERROR")})
            BY <1>s, <1>r, <3>3, <3>4
        <3>5. CASE DeliverMessage({MessageStateChanged(p.msg, p.addr, "ADDRESS_NOT_FOUND")})
            BY <1>s, <1>r, <3>3, <3>5
        <3>6. CASE UNCHANGED incoming
            BY <1>1, <3>6 DEF ConfirmInv
        <3> QED
            BY <3>1, <3>4, <3>5, <3>6 DEF ProcessDelivery
    <2>4. ASSUME NEW a \in Address, HandlerRemoved(a)
          PROVE  \A p \in incoming' : Proper(p)'
        <3>1. \A u : UserDisconnected(u, a).type \notin {"MESSAGE_STATE_CHANGED", "DELIVER"}
            BY DEF UserDisconnected
        <3>2. CASE UNCHANGED incoming
            BY <1>1, <3>2 DEF ConfirmInv
        <3>3. CASE DeliverMessage({UserDisconnected(userId[a], a)})
            BY <1>s, <1>q, <3>1, <3>3
        <3> QED
            BY <2>4, <3>2, <3>3 DEF HandlerRemoved, Deregister
    <2>5. ASSUME NEW a \in Address, ProcessDefault(a)
          PROVE  \A p \in incoming' : Proper(p)'
        <3>1. PICK p : DeliverMessage({p}) /\ p.type \notin {"MESSAGE_STATE_CHANGED", "DELIVER"}
            <4>1. /\ \A m : MessageRequest(m).type \notin {"MESSAGE_STATE_CHANGED", "DELIVER"}
                  /\ \A u : FetchRequest(u).type \notin {"MESSAGE_STATE_CHANGED", "DELIVER"}
                  /\ \A f, u : CloseRequest(f, u).type \notin {"MESSAGE_STATE_CHANGED", "DELIVER"}
                BY DEF MessageRequest, FetchRequest, CloseRequest
            <4> QED
                BY <2>5, <4>1 DEF ProcessDefault
        <3> QED
            BY <1>s, <1>q, <3>1
    <2>6. ASSUME NEW a \in Address, NEW u \in User, ProcessAuthClient(a, u)
          PROVE  \A p \in incoming' : Proper(p)'
        <3>1. AuthClient(u, a).type \notin {"MESSAGE_STATE_CHANGED", "DELIVER"}
            BY DEF AuthClient
        <3> QED
            BY <1>s, <1>q, <2>6, <3>1 DEF ProcessAuthClient
    <2>7. ASSUME NEW e \in writes, WriteFails(e[1], e[2])
          PROVE  \A p \in incoming' : Proper(p)'
        <3>1. \A p \in StateReport(e[1], e[2], FALSE) : Proper(p)'
            BY <1>r DEF StateReport, ConfirmInv
        <3> QED
            BY <1>s, <2>7, <3>1 DEF WriteFails
    <2>8. ASSUME NEW e \in writes, WriteSucceeds(e[1], e[2])
          PROVE  \A p \in incoming' : Proper(p)'
        <3>1. <<e[1], userId[e[2]]>> \in written'
            BY <2>8 DEF WriteSucceeds
        <3>2. userId[e[2]] = e[1].to
            BY <3>1 DEF NoMisdelivery
        <3>3. Good(e[1])
            BY DEF ConfirmInv
        <3>4. Proper(MessageStateChanged(e[1], e[2], "PROCESSED"))'
            BY <1>1, <3>1, <3>2, <3>3 DEF Proper, MessageStateChanged
        <3>5. \A p \in StateReport(e[1], e[2], TRUE) : Proper(p)'
            BY <3>4 DEF StateReport
        <3> QED
            BY <1>s, <2>8, <3>5 DEF WriteSucceeds
    <2> QED
        BY <2>1, <2>2, <2>3, <2>4, <2>5, <2>6, <2>7, <2>8
           DEF ConnectorNext, ConsumerThread, EventLoop, ExecuteWrite
<1>3. \A p \in outgoing' : Proper(p)
    <2>1. ASSUME NEW c \in Connector, CrashRestart(c)
          PROVE  outgoing' = outgoing \cup packet[c] \cup consumed[c]
        BY <2>1 DEF CrashRestart
    <2>2. outgoing' \subseteq outgoing \/ \E c \in Connector : CrashRestart(c)
        BY ConsumersConsume
    <2> QED
        BY <2>1, <2>2 DEF ConfirmInv
<1>4. \A c \in Connector : \A p \in packet'[c] \cup consumed'[c] : Proper(p)
    <2>1. \/ UNCHANGED packet
          \/ \E c \in Connector : packet' = [packet EXCEPT ![c] = {}]
          \/ \E c \in Connector, p \in outgoing : packet' = [packet EXCEPT ![c] = {p}]
        BY ConsumersConsume
    <2>2. \A c \in Connector : \A p \in packet'[c] : Proper(p)
        BY <2>1 DEF ConfirmInv, ConnectorTypeOK
    <2> QED
        BY <2>2, ConsumedComes DEF ConfirmInv
<1>5. \A e \in writes' : Good(e[1])
    <2>1. \/ writes' \subseteq writes
          \/ \E p \in outgoing : p.type = "DELIVER" /\ writes' = writes \cup {<<p.msg, p.addr>>}
        <3>1. ASSUME NEW c \in Connector, TakeDelivery(c) \/ ProcessFast(c)
              PROVE  \E p \in outgoing : p.type = "DELIVER" /\ ProcessDelivery(p.msg, p.addr)
            BY <3>1 DEF TakeDelivery, ProcessFast, IsFast, ConnectorTypeOK, OutgoingPacket
        <3>2. \A m, a : ProcessDelivery(m, a) =>
                  writes' = writes \cup {<<m, a>>} \/ writes' = writes
            BY DEF ProcessDelivery
        <3>3. (\E c \in Connector : TakeDelivery(c) \/ ProcessFast(c)) \/ writes' \subseteq writes
            BY DEF ConnectorNext, InitChannel, ConsumerThread, TakeAuthClientReply, AdmitUser,
               AuthorizeUser, RejectUser, TakeCloseConnection, CommitPacket, TakeThrows,
               EventLoop, AuthTimeout, CloseRejected, HandlerRemoved, ProcessDefault,
               PeerCloses, ProcessAuthClient, ExecuteWrite, WriteSucceeds, WriteFails,
               CrashRestart
        <3>4. ASSUME NEW c \in Connector, TakeDelivery(c) \/ ProcessFast(c)
              PROVE  \E p \in outgoing : p.type = "DELIVER"
                        /\ (writes' = writes \cup {<<p.msg, p.addr>>} \/ writes' = writes)
            <4>1. PICK p \in outgoing : p.type = "DELIVER" /\ ProcessDelivery(p.msg, p.addr)
                BY <3>1, <3>4
            <4> QED
                BY <3>2, <4>1
        <3> QED
            BY <3>3, <3>4
    <2>2. ASSUME NEW p \in outgoing, p.type = "DELIVER"
          PROVE  Good(p.msg)
        BY <2>2 DEF ConfirmInv, Proper
    <2>3. \A e \in writes : Good(e[1])
        BY DEF ConfirmInv
    <2>4. ASSUME NEW p \in outgoing, p.type = "DELIVER", writes' = writes \cup {<<p.msg, p.addr>>}
          PROVE  \A e \in writes' : Good(e[1])
        BY <2>2, <2>3, <2>4
    <2> QED
        BY <2>1, <2>3, <2>4
<1> QED
    BY <1>w, <1>1, <1>2, <1>3, <1>4, <1>5 DEF ConfirmInv

-----------------------------------------------------------------------------
\* The inductive invariant of a domain: the connectors' and the handlers' own,
\* and where the accepted messages are.
Inv == ConnectorTypeOK /\ RegistryInv /\ SocketInv /\ HandlerInv /\ AccountInv

LEMMA TopicsAreTyped == ConnectorTypeOK => TopicTypes
BY DEF ConnectorTypeOK, TopicTypes

\* A step of the processors leaves the connectors' part to the topics' types.
LEMMA ConnectorRests ==
    ASSUME ConnectorTypeOK, TopicTypes', UNCHANGED connectorVars
    PROVE  ConnectorTypeOK'
BY DEF ConnectorTypeOK, TopicTypes, connectorVars

THEOREM Invariance == Spec => []Inv
<1>1. Init => Inv
    <2> SUFFICES ASSUME Init PROVE Inv
        OBVIOUS
    <2>1. AccountInv
        BY DEF Init, ConnectorInit, ProcessorInit, AccountInv, ReliableMessageAccounted,
           RemovalInv
    <2> QED
        BY <2>1, InitTypes, InitRegistry, InitSocket, InitHandler DEF Init, Inv
<1>2. Inv /\ [Next]_vars => Inv'
    <2> SUFFICES ASSUME Inv, [Next]_vars PROVE Inv'
        OBVIOUS
    <2>t. TopicTypes
        BY TopicsAreTyped DEF Inv
    <2>1. CASE ConnectorNext /\ UNCHANGED processorVars
        BY <2>1, TypeStep, RegistryStep, SocketStep, HandlerStutter, ConnectorAccount
           DEF Inv
    <2>2. CASE ProcessorNext /\ UNCHANGED connectorVars
        BY <2>t, <2>2, ConnectorRests, RegistryStep, SocketStep, HandlerStep,
           ProcessorAccount DEF Inv
    <2>3. CASE UNCHANGED vars
        <3>1. UNCHANGED connectorVars /\ UNCHANGED processorVars /\ UNCHANGED topics
            BY <2>3 DEF vars
        <3>2. ConnectorTypeOK'
            BY <2>t, <3>1, ConnectorRests DEF Inv, TopicTypes, topics
        <3>3. AccountInv'
            BY <3>1 DEF Inv, AccountInv, ReliableMessageAccounted, RemovalInv, Elsewhere,
               InTopics, InBuffer, InWrites, InStore, AtWorker, Written, Forgotten,
               connectorVars, processorVars, topics
        <3> QED
            BY <3>1, <3>2, <3>3, RegistryStep, SocketStep, HandlerStutter DEF Inv
    <2> QED
        BY <2>1, <2>2, <2>3 DEF Next
<1> QED
    BY <1>1, <1>2, PTL DEF Spec

\* Every variable of the processors stays in its range; a worker holds a
\* packet, a message or a page only while its handler has a use for it.
THEOREM ProcessorTypesHold == Spec => []ProcessorTypeOK
<1>1. Inv => ProcessorTypeOK
    BY HandlerConsequences DEF Inv
<1> QED
    BY <1>1, Invariance, PTL

\* The lock of FetchMissingMessagesMessageProcessor keeps the pages of any two
\* workers apart, with any number of workers, crashes and failures.
THEOREM FetchesDoNotOverlap == Spec => []FetchesExclusive
<1>1. Inv => FetchesExclusive
    BY HandlerConsequences DEF Inv
<1> QED
    BY <1>1, Invariance, PTL

\* An accepted RELIABLE message is on its way, stored or written, or one of the
\* named leaks took it: the code has no other way to lose one.
THEOREM MessagesAreAccounted == Spec => []ReliableMessageAccounted
<1>1. Inv => ReliableMessageAccounted
    BY DEF Inv, AccountInv
<1> QED
    BY <1>1, Invariance, PTL

\* The registries and the sockets of the connectors agree in a whole domain, too,
\* and the timeout of a socket that is not authenticated is still to come.
THEOREM ConnectorsKeepTheirPromises ==
    Spec => [](ConnectorTypeOK /\ RegistryAgreement /\ GhostOnlyByRace /\ TimeoutPending)
<1>1. Inv => ConnectorTypeOK /\ RegistryAgreement /\ GhostOnlyByRace /\ TimeoutPending
    BY RegistryConsequences DEF Inv, SocketInv
<1> QED
    BY <1>1, Invariance, PTL

\* In a whole domain, too, a message is written to its addressee only.
THEOREM MessagesReachTheirAddressee == Spec => []NoMisdelivery
<1>1. Inv => NoMisdelivery
    BY DEF Inv, RegistryInv
<1> QED
    BY <1>1, Invariance, PTL

LEMMA ConfirmInvariance == Spec => []ConfirmInv
<1>1. Init => ConfirmInv
    BY DEF Init, ConnectorInit, ProcessorInit, ConfirmInv
<1>2. Inv /\ NoMisdelivery' /\ ConfirmInv /\ [Next]_vars => ConfirmInv'
    <2> SUFFICES ASSUME Inv, NoMisdelivery', ConfirmInv, [Next]_vars
                 PROVE  ConfirmInv'
        OBVIOUS
    <2>t. TopicTypes
        BY TopicsAreTyped DEF Inv
    <2>1. CASE ConnectorNext /\ UNCHANGED processorVars
        BY <2>1, ConnectorConfirms DEF Inv
    <2>2. CASE ProcessorNext /\ UNCHANGED connectorVars
        BY <2>t, <2>2, StartConfirms, WorkConfirms, CallbackConfirms
           DEF Inv, ProcessorNext, WorkerThread
    <2>3. CASE UNCHANGED vars
        <3>1. UNCHANGED connectorVars /\ UNCHANGED processorVars /\ UNCHANGED topics
            BY <2>3 DEF vars
        <3> QED
            BY <3>1, TruthStays DEF ConfirmInv, connectorVars, processorVars, topics
    <2> QED
        BY <2>1, <2>2, <2>3 DEF Next
<1>3. Inv => NoMisdelivery
    BY DEF Inv, RegistryInv
<1> QED
    BY <1>1, <1>2, <1>3, Invariance, PTL DEF Spec

\* The sender of a message is told of its delivery only after it was written to
\* a socket of its addressee, whatever is lost, repeated or reordered.
THEOREM ConfirmationsAreTrue == Spec => []ConfirmedOnlyIfWritten
<1>1. ConfirmInv => ConfirmedOnlyIfWritten
    <2>1. \A x \in Payload : Confirmation(x) \in Message
        BY DEF Message
    <2> QED
        BY <2>1 DEF ConfirmInv, ConfirmedOnlyIfWritten, Good, Proper
<1> QED
    BY <1>1, ConfirmInvariance, PTL

-----------------------------------------------------------------------------
\* The socket was authenticated for u, in this life of its connector.
Known(u, a) == authStatus[a] = "AUTHENTICATED" /\ userId[a] = u

\* What a packet says of an address is true and stays true: it was announced
\* after its socket was authenticated, and denied after the socket was removed.
Fits(p) ==
    /\ p.type = "USER_CONNECTED" => Known(p.user, p.addr)
    /\ p.type = "USER_DISCONNECTED" => channel[p.addr] = "removed"
    /\ p.type = "MESSAGE_STATE_CHANGED" /\ p.state = "ADDRESS_NOT_FOUND" =>
          channel[p.addr] = "removed"
    /\ p.type = "DELIVER" => Known(p.msg.to, p.addr)

\* A handler between its read and its write of a user's channel has read what
\* is still there.
ReadsCurrent ==
    \A w \in Worker : stage[w] = "merge" =>
        \A p \in job[w] :
            /\ p.type \in {"USER_CONNECTED", "USER_DISCONNECTED", "MESSAGE_STATE_CHANGED"}
            /\ p.type = "MESSAGE_STATE_CHANGED" => p.state = "ADDRESS_NOT_FOUND"
            /\ seen[w] = userChannel[ChangedUser(p)]

AddressesTrue ==
    /\ \A p \in incoming \cup outgoing : Fits(p)
    /\ \A w \in Worker : \A p \in job[w] \cup handled[w] : Fits(p)
    /\ \A e \in buffer : Fits(e[2])
    /\ \A u \in User : \A a \in userChannel[u] : Known(u, a)
    /\ \A w \in Worker : stage[w] = "send" =>
          \A m \in doc[w] : \A a \in seen[w] : Known(m.to, a)
    /\ ReadsCurrent

\* A crash of a connector starts its socket ids over, and what was said of them
\* is not true any more.
NewsInv == crashes \in Nat /\ (crashes = 0 => AddressesTrue)

\* Only a crash counts as one.
LEMMA CrashesCount ==
    ASSUME ConnectorNext
    PROVE  crashes' = crashes \/ \E c \in Connector : CrashRestart(c)
<1> USE DEF requests
<1>1. ASSUME NEW c \in Connector, InitChannel(c) \/ ProcessFast(c) \/ TakeThrows(c)
      PROVE  UNCHANGED crashes
    BY <1>1 DEF InitChannel, ProcessFast, TakeThrows
<1>2. ASSUME NEW c \in Connector, ConsumerThread(c)
      PROVE  UNCHANGED crashes
    BY <1>2 DEF ConsumerThread, TakeAuthClientReply, AdmitUser, AuthorizeUser,
       RejectUser, TakeDelivery, TakeCloseConnection, CommitPacket
<1>3. ASSUME NEW a \in Address, EventLoop(a) \/ ProcessDefault(a) \/ PeerCloses(a)
      PROVE  UNCHANGED crashes
    BY <1>3 DEF EventLoop, AuthTimeout, CloseRejected, HandlerRemoved, ProcessDefault,
       PeerCloses
<1>4. ASSUME NEW a \in Address, NEW u \in User, ProcessAuthClient(a, u)
      PROVE  UNCHANGED crashes
    BY <1>4 DEF ProcessAuthClient
<1>5. ASSUME ExecuteWrite PROVE UNCHANGED crashes
    BY <1>5 DEF ExecuteWrite, WriteSucceeds, WriteFails
<1> QED
    BY <1>1, <1>2, <1>3, <1>4, <1>5 DEF ConnectorNext

\* Nothing that is true of an address becomes false without such a crash.
LEMMA AddressesStay ==
    ASSUME ConnectorTypeOK, RegistryInv, SocketInv, crashes \in Nat, crashes' = 0,
           ConnectorNext
    PROVE  /\ crashes = 0 /\ ~ \E c \in Connector : CrashRestart(c)
           /\ \A u, a : a \in Address /\ Known(u, a) => Known(u, a)'
           /\ \A a \in Address : channel[a] = "removed" => channel'[a] = "removed"
<1> USE DEF sockets, registry, consumer, requests, topics
<1>1. ~ \E c \in Connector : CrashRestart(c)
    <2>1. ASSUME NEW c \in Connector, CrashRestart(c) PROVE crashes' = crashes + 1
        BY <2>1 DEF CrashRestart
    <2>2. crashes + 1 # 0
        OBVIOUS
    <2> QED
        BY <2>1, <2>2
<1>2. crashes = 0
    BY <1>1, CrashesCount
<1>3. \/ UNCHANGED <<userId, authStatus>>
      \/ \E b \in Address : \E u, s :
            /\ authStatus[b] # "AUTHENTICATED"
            /\ userId' = userId \/ userId' = [userId EXCEPT ![b] = u]
            /\ authStatus' = [authStatus EXCEPT ![b] = s]
    <2>1. ASSUME NEW c \in Connector, AuthorizeUser(c) \/ RejectUser(c)
          PROVE  \E b \in Address : \E s : /\ authStatus[b] # "AUTHENTICATED" /\ userId' = userId
                                           /\ authStatus' = [authStatus EXCEPT ![b] = s]
        <3>1. PICK p \in packet[c] :
                  \E s : authStatus' = [authStatus EXCEPT ![p.addr] = s]
            BY <2>1 DEF AuthorizeUser, RejectUser
        <3>2. p.addr \in Address /\ authStatus[p.addr] = "AUTHENTICATING"
            BY <2>1, PacketAddress DEF RegistryInv, ReplyInv, Busy, AuthorizeUser, RejectUser
        <3> QED
            BY <2>1, <3>1, <3>2 DEF AuthorizeUser, RejectUser
    <2>2. ASSUME NEW a \in Address, NEW u \in User, ProcessAuthClient(a, u)
          PROVE  \E b \in Address : \E v, s :
                     /\ authStatus[b] # "AUTHENTICATED"
                     /\ userId' = [userId EXCEPT ![b] = v]
                     /\ authStatus' = [authStatus EXCEPT ![b] = s]
        BY <2>2 DEF ProcessAuthClient, AcceptsRequest
    <2> QED
        <3>1. ASSUME NEW c \in Connector,
                     \/ InitChannel(c) \/ TakeAuthClientReply(c) \/ AdmitUser(c)
                     \/ TakeDelivery(c) \/ TakeCloseConnection(c) \/ CommitPacket(c)
                     \/ ProcessFast(c) \/ TakeThrows(c)
              PROVE  UNCHANGED <<userId, authStatus>>
            BY <3>1 DEF InitChannel, TakeAuthClientReply, AdmitUser, TakeDelivery,
               TakeCloseConnection, CommitPacket, ProcessFast, TakeThrows
        <3>2. ASSUME NEW a \in Address, EventLoop(a) \/ ProcessDefault(a) \/ PeerCloses(a)
              PROVE  UNCHANGED <<userId, authStatus>>
            BY <3>2 DEF EventLoop, AuthTimeout, CloseRejected, HandlerRemoved, ProcessDefault,
               PeerCloses
        <3>3. ASSUME ExecuteWrite PROVE UNCHANGED <<userId, authStatus>>
            BY <3>3 DEF ExecuteWrite, WriteSucceeds, WriteFails
        <3> QED
            BY <1>1, <2>1, <2>2, <3>1, <3>2, <3>3 DEF ConnectorNext, ConsumerThread
<1>4. \A u, a : a \in Address /\ Known(u, a) => Known(u, a)'
    BY <1>3 DEF Known, ConnectorTypeOK
<1>5. \/ UNCHANGED channel
      \/ \E b \in Address : \E s : /\ channel[b] # "removed" \/ s = "removed"
                                   /\ channel' = [channel EXCEPT ![b] = s]
    <2>1. ASSUME NEW c \in Connector, InitChannel(c)
          PROVE  \E b \in Address : \E s : /\ channel[b] # "removed"
                                           /\ channel' = [channel EXCEPT ![b] = s]
        <3> DEFINE b == <<c, counter[c] + 1>>
        <3>1. b \in Address /\ b[1] = c /\ b[2] = counter[c] + 1 /\ counter[c] \in Nat
            BY <2>1 DEF InitChannel, ConnectorTypeOK, Address
        <3>2. channel[b] = "none"
            BY <3>1 DEF SocketInv, FreshSockets
        <3> QED
            BY <2>1, <3>1, <3>2 DEF InitChannel
    <2>2. ASSUME NEW c \in Connector, TakeCloseConnection(c)
          PROVE  \/ UNCHANGED channel
                 \/ \E b \in Address : \E s : /\ channel[b] # "removed"
                                              /\ channel' = [channel EXCEPT ![b] = s]
        <3>1. PICK p \in outgoing : p.type = "DELIVER" /\ ProcessClose(p.msg, p.addr)
            BY <2>2 DEF TakeCloseConnection
        <3>2. p.addr \in Address
            BY <3>1, DeliveryFields DEF ConnectorTypeOK
        <3> QED
            BY <3>1, <3>2 DEF ProcessClose
    <2>3. ASSUME NEW a \in Address, EventLoop(a) \/ PeerCloses(a)
          PROVE  \/ UNCHANGED channel
                 \/ \E b \in Address : \E s : /\ channel[b] # "removed" \/ s = "removed"
                                              /\ channel' = [channel EXCEPT ![b] = s]
        BY <2>3 DEF EventLoop, AuthTimeout, CloseRejected, HandlerRemoved, PeerCloses
    <2> QED
        BY <1>1, <2>1, <2>2, <2>3 DEF ConnectorNext, ConsumerThread,
           TakeAuthClientReply, AdmitUser, AuthorizeUser, RejectUser, TakeDelivery,
           CommitPacket, ProcessFast, TakeThrows, ProcessDefault, ProcessAuthClient,
           ExecuteWrite, WriteSucceeds, WriteFails
<1>6. \A a \in Address : channel[a] = "removed" => channel'[a] = "removed"
    BY <1>5 DEF ConnectorTypeOK
<1> QED
    BY <1>1, <1>2, <1>4, <1>6

\* What was said of an address stays true.
LEMMA FitsStays ==
    ASSUME \A u, a : a \in Address /\ Known(u, a) => Known(u, a)',
           \A a \in Address : channel[a] = "removed" => channel'[a] = "removed",
           NEW p \in IncomingPacket \cup OutgoingPacket, Fits(p)
    PROVE  Fits(p)'
<1>1. p.type \in {"USER_CONNECTED", "USER_DISCONNECTED", "MESSAGE_STATE_CHANGED", "DELIVER"}
          => p.addr \in Address
    BY DEF IncomingPacket, OutgoingPacket
<1> QED
    BY <1>1 DEF Fits

\* A step of a connector: what it says of addresses is true.
LEMMA ConnectorNews ==
    ASSUME ConnectorTypeOK, RegistryInv, SocketInv, HandlerInv, crashes \in Nat, crashes' = 0,
           AddressesTrue, ConnectorNext, UNCHANGED processorVars
    PROVE  AddressesTrue'
<1>t. ProcessorTypes
    BY DEF HandlerInv
<1>1. /\ ~ \E c \in Connector : CrashRestart(c)
      /\ \A u, a : a \in Address /\ Known(u, a) => Known(u, a)'
      /\ \A a \in Address : channel[a] = "removed" => channel'[a] = "removed"
    BY AddressesStay
<1>2. \A p \in IncomingPacket \cup OutgoingPacket : Fits(p) => Fits(p)'
    BY <1>1, FitsStays
<1>f. \A p \in incoming : Fits(p)'
    BY <1>2 DEF AddressesTrue, ConnectorTypeOK
<1>s. ASSUME NEW P, DeliverMessage(P), \A p \in P : Fits(p)'
      PROVE  \A p \in incoming' : Fits(p)'
    BY <1>f, <1>s DEF DeliverMessage
<1>q. ASSUME NEW p, \/ p.type \notin {"USER_CONNECTED", "USER_DISCONNECTED",
                                      "MESSAGE_STATE_CHANGED", "DELIVER"}
                    \/ p.type = "MESSAGE_STATE_CHANGED" /\ p.state # "ADDRESS_NOT_FOUND"
      PROVE  Fits(p)'
    BY <1>q DEF Fits
<1>r. ASSUME NEW m, NEW a, NEW state, state # "ADDRESS_NOT_FOUND"
      PROVE  Fits(MessageStateChanged(m, a, state))'
    BY <1>q, <1>r DEF MessageStateChanged
<1>3. \A p \in incoming' : Fits(p)'
    <2>1. CASE UNCHANGED incoming
        BY <1>f, <2>1
    <2>2. ASSUME NEW c \in Connector, AuthorizeUser(c)
          PROVE  \A p \in incoming' : Fits(p)'
        <3>1. PICK p \in packet[c] :
                  /\ authStatus' = [authStatus EXCEPT ![p.addr] = "AUTHENTICATED"]
                  /\ DeliverMessage({UserConnected(p.user, p.addr)})
            BY <2>2 DEF AuthorizeUser
        <3>2. p.addr \in Address /\ userId[p.addr] = p.user
            BY <2>2, PacketAddress DEF AuthorizeUser, RegistryInv, ReplyInv, Busy
        <3>3. Known(p.user, p.addr)'
            BY <2>2, <3>1, <3>2 DEF AuthorizeUser, Known, ConnectorTypeOK
        <3>4. Fits(UserConnected(p.user, p.addr))'
            BY <3>3 DEF Fits, UserConnected
        <3> QED
            BY <1>s, <3>1, <3>4
    <2>3. ASSUME NEW p \in outgoing, p.type = "DELIVER",
                 UNCHANGED <<channel, users, authStatus, userId>>,
                 \/ ProcessDelivery(p.msg, p.addr)
                 \/ DeliverMessage({MessageStateChanged(p.msg, p.addr, "CONNECTOR_ERROR")})
          PROVE  \A q \in incoming' : Fits(q)'
        <3>1. CASE DeliverMessage({MessageStateChanged(p.msg, p.addr, "CONNECTOR_ERROR")})
            BY <1>s, <1>r, <3>1
        <3>2. CASE /\ <<p.msg.to, p.addr>> \notin users
                   /\ DeliverMessage({MessageStateChanged(p.msg, p.addr, "ADDRESS_NOT_FOUND")})
            <4>1. p.addr \in Address /\ Known(p.msg.to, p.addr)
                BY <2>3, DeliveryFields DEF ConnectorTypeOK, AddressesTrue, Fits
            <4>2. channel[p.addr] = "removed"
                BY <3>2, <4>1 DEF SocketInv, FoundSockets, Known
            <4>3. Fits(MessageStateChanged(p.msg, p.addr, "ADDRESS_NOT_FOUND"))'
                BY <2>3, <4>2 DEF Fits, MessageStateChanged
            <4> QED
                BY <1>s, <3>2, <4>3
        <3> QED
            BY <2>1, <2>3, <3>1, <3>2 DEF ProcessDelivery, IsConnected
    <2>4. ASSUME NEW c \in Connector, TakeDelivery(c) \/ ProcessFast(c) \/ TakeThrows(c)
          PROVE  \A p \in incoming' : Fits(p)'
        <3>1. UNCHANGED <<channel, users, authStatus, userId>>
            BY <2>4 DEF TakeDelivery, ProcessFast, TakeThrows, sockets, registry
        <3>2. CASE TakeDelivery(c)
            BY <2>3, <3>1, <3>2 DEF TakeDelivery
        <3>3. CASE TakeThrows(c)
            BY <2>3, <3>1, <3>3 DEF TakeThrows
        <3>4. CASE ProcessFast(c)
            <4>1. PICK p \in outgoing : IsFast(p) /\ ProcessDelivery(p.msg, p.addr)
                BY <3>4 DEF ProcessFast
            <4>2. p.type = "DELIVER"
                BY <4>1 DEF IsFast, ConnectorTypeOK, OutgoingPacket
            <4> QED
                BY <2>3, <3>1, <4>1, <4>2
        <3> QED
            BY <2>4, <3>2, <3>3, <3>4
    <2>5. ASSUME NEW a \in Address, HandlerRemoved(a)
          PROVE  \A p \in incoming' : Fits(p)'
        <3>1. channel'[a] = "removed"
            BY <2>5 DEF HandlerRemoved, ConnectorTypeOK
        <3>2. \A u : Fits(UserDisconnected(u, a))'
            BY <3>1 DEF Fits, UserDisconnected
        <3>3. CASE DeliverMessage({UserDisconnected(userId[a], a)})
            BY <1>s, <3>2, <3>3
        <3> QED
            BY <2>1, <2>5, <3>3 DEF HandlerRemoved, Deregister
    <2>6. ASSUME NEW a \in Address, ProcessDefault(a)
          PROVE  \A p \in incoming' : Fits(p)'
        <3>1. PICK p : /\ DeliverMessage({p})
                       /\ p.type \in {"MESSAGE", "FETCH_MISSING_MESSAGES_REQUEST",
                                      "CLOSE_CONNECTION"}
            <4>1. /\ \A m : MessageRequest(m).type = "MESSAGE"
                  /\ \A u : FetchRequest(u).type = "FETCH_MISSING_MESSAGES_REQUEST"
                  /\ \A f, u : CloseRequest(f, u).type = "CLOSE_CONNECTION"
                BY DEF MessageRequest, FetchRequest, CloseRequest
            <4> QED
                BY <2>6, <4>1 DEF ProcessDefault
        <3> QED
            BY <1>s, <1>q, <3>1
    <2>7. ASSUME NEW a \in Address, NEW u \in User, ProcessAuthClient(a, u)
          PROVE  \A p \in incoming' : Fits(p)'
        <3>1. AuthClient(u, a).type = "AUTH_CLIENT"
            BY DEF AuthClient
        <3> QED
            BY <1>s, <1>q, <2>7, <3>1 DEF ProcessAuthClient
    <2>8. ASSUME NEW e \in writes, WriteSucceeds(e[1], e[2]) \/ WriteFails(e[1], e[2])
          PROVE  \A p \in incoming' : Fits(p)'
        <3>1. \A ok \in BOOLEAN : \A p \in StateReport(e[1], e[2], ok) : Fits(p)'
            BY <1>r DEF StateReport
        <3> QED
            BY <1>s, <2>8, <3>1 DEF WriteSucceeds, WriteFails
    <2>9. ASSUME \/ \E c \in Connector : \/ InitChannel(c) \/ TakeAuthClientReply(c)
                                         \/ AdmitUser(c) \/ RejectUser(c)
                                         \/ TakeCloseConnection(c) \/ CommitPacket(c)
                 \/ \E a \in Address : AuthTimeout(a) \/ CloseRejected(a) \/ PeerCloses(a)
          PROVE  UNCHANGED incoming
        BY <2>9 DEF InitChannel, TakeAuthClientReply, AdmitUser, RejectUser,
           TakeCloseConnection, CommitPacket, AuthTimeout, CloseRejected, PeerCloses, topics
    <2> QED
        BY <1>1, <2>1, <2>2, <2>4, <2>5, <2>6, <2>7, <2>8, <2>9
           DEF ConnectorNext, ConsumerThread, EventLoop, ExecuteWrite
<1>4. \A p \in outgoing' : Fits(p)'
    <2>1. outgoing' \subseteq outgoing
        BY <1>1, ConsumersConsume
    <2> QED
        BY <1>2, <2>1 DEF AddressesTrue, ConnectorTypeOK
<1>5. /\ \A w \in Worker : \A p \in job'[w] \cup handled'[w] : Fits(p)'
      /\ \A e \in buffer' : Fits(e[2])'
    BY <1>2, <1>t DEF AddressesTrue, ProcessorTypes, processorVars
<1>6. /\ \A u \in User : \A a \in userChannel'[u] : Known(u, a)'
      /\ \A w \in Worker : stage'[w] = "send" =>
            \A m \in doc'[w] : \A a \in seen'[w] : Known(m.to, a)'
    BY <1>1, <1>t DEF AddressesTrue, ProcessorTypes, processorVars
<1>7. ReadsCurrent'
    BY DEF AddressesTrue, ReadsCurrent, processorVars
<1> QED
    BY <1>3, <1>4, <1>5, <1>6, <1>7 DEF AddressesTrue

\* What is true of an address does not depend on the processors.
LEMMA AddressesRest ==
    ASSUME UNCHANGED connectorVars
    PROVE  /\ \A u, a : Known(u, a)' = Known(u, a)
           /\ \A p : Fits(p)' = Fits(p)
BY DEF Known, Fits, connectorVars

\* A worker that takes a packet.
LEMMA StartNews ==
    ASSUME HandlerInv, TopicTypes, AddressesTrue, UNCHANGED connectorVars, NEW w \in Worker,
           \/ AnswerAuthClient(w) \/ ReadUserChannel(w) \/ ChangeMessageState(w)
           \/ RequestMessage(w) \/ RequestClose(w) \/ RequestFetch(w) \/ ChangeFails(w)
    PROVE  AddressesTrue'
<1>t. ProcessorTypes
    BY DEF HandlerInv
<1>1. PICK p \in incoming :
          /\ Start(w, p) /\ UNCHANGED <<outgoing, userChannel>>
          /\ \/ UNCHANGED buffer
             \/ \E u, a, ok : buffer' = buffer \cup {<<w, AuthClientReply(u, a, ok)>>}
          /\ \/ /\ \E s \in {"commit", "route", "lock"} : Goto(w, s)
                /\ UNCHANGED seen
                /\ \/ UNCHANGED doc
                   \/ \E d : doc' = [doc EXCEPT ![w] = d]
             \/ /\ \/ p.type \in {"USER_CONNECTED", "USER_DISCONNECTED"}
                   \/ p.type = "MESSAGE_STATE_CHANGED" /\ p.state = "ADDRESS_NOT_FOUND"
                /\ Goto(w, "merge") /\ UNCHANGED doc
                /\ seen' = [seen EXCEPT ![w] = userChannel[ChangedUser(p)]]
    <2>1. CASE AnswerAuthClient(w)
        BY <2>1 DEF AnswerAuthClient, redis
    <2>2. CASE ReadUserChannel(w)
        BY <2>2 DEF ReadUserChannel, redis, ChangedUser
    <2>3. CASE ChangeMessageState(w)
        <3>1. PICK p \in incoming :
                  /\ Start(w, p) /\ UNCHANGED <<outgoing, userChannel, buffer, seen>>
                  /\ \/ Goto(w, "route") /\ \E d : doc' = [doc EXCEPT ![w] = d]
                     \/ Goto(w, "commit") /\ UNCHANGED doc
            BY <2>3 DEF ChangeMessageState, redis
        <3> QED
            BY <3>1
    <2>4. CASE RequestMessage(w)
        BY <2>4 DEF RequestMessage, redis
    <2>5. CASE RequestClose(w)
        <3>1. PICK p \in incoming :
                  /\ Start(w, p) /\ UNCHANGED <<outgoing, userChannel, buffer, seen>>
                  /\ \/ Goto(w, "route") /\ \E d : doc' = [doc EXCEPT ![w] = d]
                     \/ Goto(w, "commit") /\ UNCHANGED doc
            BY <2>5 DEF RequestClose, redis
        <3> QED
            BY <3>1
    <2>6. CASE RequestFetch(w)
        BY <2>6 DEF RequestFetch, redis
    <2>7. CASE ChangeFails(w)
        BY <2>7 DEF ChangeFails, redis
    <2> QED
        BY <2>1, <2>2, <2>3, <2>4, <2>5, <2>6, <2>7
<1>2. /\ incoming' \subseteq incoming /\ Fits(p)
      /\ job' = [job EXCEPT ![w] = {p}]
    BY <1>1 DEF Start, AddressesTrue
<1>b. \A v \in Worker : handled'[v] \subseteq handled[v] \cup job[v]
    BY <1>t, HandledComes DEF ProcessorNext, WorkerThread
<1>3. \A v \in Worker : \A q \in job'[v] \cup handled'[v] : Fits(q)
    <2>1. \A v \in Worker : \A q \in job'[v] : Fits(q)
        BY <1>2, <1>t DEF AddressesTrue, ProcessorTypes
    <2> QED
        BY <1>b, <2>1 DEF AddressesTrue
<1>4. \A e \in buffer' : Fits(e[2])
    <2>1. \A u, a, ok : Fits(AuthClientReply(u, a, ok))
        BY DEF Fits, AuthClientReply
    <2> QED
        BY <1>1, <2>1 DEF AddressesTrue
<1>5. \A v \in Worker : stage'[v] = "send" =>
          \A m \in doc'[v] : \A a \in seen'[v] : Known(m.to, a)
    BY <1>1, <1>t DEF AddressesTrue, ProcessorTypes, Goto
<1>6. ReadsCurrent'
    <2> SUFFICES ASSUME NEW v \in Worker, stage'[v] = "merge", NEW q \in job'[v]
        PROVE  /\ q.type \in {"USER_CONNECTED", "USER_DISCONNECTED", "MESSAGE_STATE_CHANGED"}
               /\ q.type = "MESSAGE_STATE_CHANGED" => q.state = "ADDRESS_NOT_FOUND"
               /\ seen'[v] = userChannel'[ChangedUser(q)]
        BY DEF ReadsCurrent
    <2>1. CASE v = w
        BY <1>1, <1>2, <1>t, <2>1 DEF Goto, ProcessorTypes
    <2>2. CASE v # w
        <3>1. /\ stage[v] = "merge" /\ q \in job[v] /\ seen'[v] = seen[v]
              /\ userChannel' = userChannel
            BY <1>1, <1>2, <1>t, <2>2 DEF Goto, ProcessorTypes
        <3> QED
            BY <3>1 DEF AddressesTrue, ReadsCurrent
    <2> QED
        BY <2>1, <2>2
<1> QED
    BY <1>1, <1>2, <1>3, <1>4, <1>5, <1>6, AddressesRest DEF AddressesTrue

\* The write of a user's channel takes away what is dead, adds what is alive,
\* and spoils no other handler's read.
LEMMA WriteNews ==
    ASSUME HandlerInv, TopicTypes, AddressesTrue, ChannelsChangedInTurn,
           UNCHANGED connectorVars, NEW w \in Worker, WriteUserChannel(w)
    PROVE  AddressesTrue'
<1>t. ProcessorTypes
    BY DEF HandlerInv
<1>1. PICK p \in job[w] :
          \/ /\ p.type = "USER_CONNECTED"
             /\ userChannel' = [userChannel EXCEPT ![p.user] = seen[w] \cup {p.addr}]
          \/ /\ p.type = "USER_DISCONNECTED"
             /\ userChannel' = Removed(p.user, seen[w], p.addr)
          \/ /\ p.type = "MESSAGE_STATE_CHANGED"
             /\ userChannel' = Removed(p.msg.to, seen[w], p.addr)
    BY DEF WriteUserChannel
<1>2. /\ stage[w] = "merge" /\ seen[w] = userChannel[ChangedUser(p)] /\ Fits(p)
      /\ UNCHANGED <<incoming, outgoing, job, handled, seen, buffer>>
      /\ \E s \in Stage \ {"merge", "send"} : Goto(w, s)
      /\ UNCHANGED doc \/ \E d : doc' = [doc EXCEPT ![w] = d]
    BY DEF AddressesTrue, ReadsCurrent, WriteUserChannel, NotifyMaster, topics, Stage
<1>3. ChangedUser(p) \in User
    <2>1. p \in IncomingPacket
        BY <1>t DEF ProcessorTypes
    <2> QED
        BY <1>1, <2>1, IncomingFields, Messages DEF ChangedUser
<1>4. PICK A :
          /\ userChannel' = [userChannel EXCEPT ![ChangedUser(p)] = A]
          /\ A \subseteq userChannel[ChangedUser(p)]
                           \cup (IF p.type = "USER_CONNECTED" THEN {p.addr} ELSE {})
    <2>1. userChannel = [userChannel EXCEPT ![ChangedUser(p)] = userChannel[ChangedUser(p)]]
        BY <1>t DEF ProcessorTypes
    <2>2. CASE p.type = "USER_CONNECTED"
        BY <1>1, <1>2, <2>2 DEF ChangedUser
    <2>3. CASE p.type # "USER_CONNECTED"
        <3>1. userChannel' = Removed(ChangedUser(p), seen[w], p.addr)
            BY <1>1, <2>3 DEF ChangedUser
        <3>2. CASE seen[w] = {}
            BY <2>1, <3>1, <3>2 DEF Removed
        <3>3. CASE seen[w] # {}
            <4>1. userChannel' =
                      [userChannel EXCEPT ![ChangedUser(p)] = seen[w] \ {p.addr}]
                BY <3>1, <3>3 DEF Removed
            <4>2. seen[w] \ {p.addr} \subseteq userChannel[ChangedUser(p)]
                BY <1>2
            <4> QED
                BY <4>1, <4>2
        <3> QED
            BY <3>2, <3>3
    <2> QED
        BY <2>2, <2>3
<1>5. \A u \in User : \A a \in userChannel'[u] : Known(u, a)
    <2>1. p.type = "USER_CONNECTED" => Known(ChangedUser(p), p.addr)
        BY <1>2 DEF Fits, ChangedUser
    <2> QED
        BY <1>3, <1>4, <1>t, <2>1 DEF AddressesTrue, ProcessorTypes
<1>6. \A v \in Worker : stage'[v] = "send" =>
          \A m \in doc'[v] : \A a \in seen'[v] : Known(m.to, a)
    BY <1>2, <1>t DEF AddressesTrue, ProcessorTypes, Goto
<1>7. ReadsCurrent'
    <2> SUFFICES ASSUME NEW v \in Worker, stage'[v] = "merge", NEW q \in job'[v]
        PROVE  /\ q.type \in {"USER_CONNECTED", "USER_DISCONNECTED", "MESSAGE_STATE_CHANGED"}
               /\ q.type = "MESSAGE_STATE_CHANGED" => q.state = "ADDRESS_NOT_FOUND"
               /\ seen'[v] = userChannel'[ChangedUser(q)]
        BY DEF ReadsCurrent
    <2>1. v # w /\ stage[v] = "merge" /\ q \in job[v] /\ seen'[v] = seen[v]
        BY <1>2, <1>t DEF Goto, ProcessorTypes
    <2>2. ChangedUser(q) # ChangedUser(p)
        BY <1>2, <2>1 DEF ChannelsChangedInTurn
    <2>3. userChannel'[ChangedUser(q)] = userChannel[ChangedUser(q)]
        <3>1. q \in IncomingPacket
            BY <1>t, <2>1 DEF ProcessorTypes
        <3>2. ChangedUser(q) \in User
            BY <2>1, <3>1, IncomingFields, Messages
               DEF ChangedUser, AddressesTrue, ReadsCurrent
        <3> QED
            BY <1>4, <1>t, <2>2, <3>2 DEF ProcessorTypes
    <2> QED
        BY <2>1, <2>3 DEF AddressesTrue, ReadsCurrent
<1> QED
    BY <1>2, <1>5, <1>6, <1>7, AddressesRest DEF AddressesTrue

\* A worker in the middle of a handler that leaves the users' channels alone.
LEMMA WorkNews ==
    ASSUME HandlerInv, TopicTypes, AddressesTrue, UNCHANGED connectorVars, NEW w \in Worker,
           \/ Route(w) \/ Send(w) \/ Commit(w) \/ FindMessages(w) \/ RouteMissing(w)
           \/ Remove(w) \/ HandlerFails(w) \/ PersistFails(w) \/ WorkerCrash(w)
    PROVE  AddressesTrue'
<1>t. ProcessorTypes
    BY DEF HandlerInv
<1>1. UNCHANGED <<outgoing, userChannel>>
    BY DEF Route, Send, Commit, FindMessages, RouteMissing, Remove, HandlerFails, PersistFails,
       WorkerCrash, topics, redis
<1>2. \A v \in Worker \ {w} : /\ stage'[v] = stage[v] /\ job'[v] = job[v]
                              /\ seen'[v] = seen[v] /\ doc'[v] = doc[v]
    BY <1>t DEF Route, Send, Commit, FindMessages, RouteMissing, Remove, HandlerFails,
       PersistFails, WorkerCrash, Goto, ProcessorTypes
<1>3. incoming' \subseteq incoming \cup job[w] \cup handled[w] /\ job'[w] \subseteq job[w]
    BY <1>t DEF Route, Send, Commit, FindMessages, RouteMissing, Remove, HandlerFails,
       PersistFails, WorkerCrash, topics, ProcessorTypes
<1>b. \A v \in Worker : handled'[v] \subseteq handled[v] \cup job[v]
    BY <1>t, HandledComes DEF ProcessorNext, WorkerThread
<1>4. \A e \in buffer' : Fits(e[2])
    <2>1. CASE Send(w)
        <3>1. PICK m \in doc[w] :
                  \/ UNCHANGED buffer
                  \/ buffer' = buffer \cup {<<w, Delivery(m, a)>> : a \in seen[w]}
            BY <2>1 DEF Send
        <3>2. \A a \in seen[w] : Fits(Delivery(m, a))
            BY <2>1 DEF Send, AddressesTrue, Fits, Delivery
        <3> QED
            BY <3>1, <3>2 DEF AddressesTrue
    <2>2. CASE buffer' \subseteq buffer
        BY <2>2 DEF AddressesTrue
    <2> QED
        BY <2>1, <2>2 DEF Route, Commit, FindMessages, RouteMissing, Remove, HandlerFails,
           PersistFails, WorkerCrash
<1>5. \/ stage'[w] \in {"idle", "commit", "next", "remove"}
      \/ Route(w) \/ RouteMissing(w)
    BY <1>t DEF Send, Commit, FindMessages, Remove, HandlerFails, PersistFails, WorkerCrash,
       Goto, ProcessorTypes
<1>6. ASSUME Route(w) \/ RouteMissing(w)
      PROVE  /\ stage'[w] = "send"
             /\ \A m \in doc'[w] : \A a \in seen'[w] : Known(m.to, a)
    <2>1. \A m \in Message : \A A \in RouteTargets(m) : A \subseteq userChannel[m.to]
        BY DEF RouteTargets
    <2>2. PICK m \in Message :
              /\ doc'[w] = {m}
              /\ \E A \in RouteTargets(m) : seen' = [seen EXCEPT ![w] = A]
        <3>1. CASE Route(w)
            <4>1. PICK m \in doc[w] :
                      \E A \in RouteTargets(m) : seen' = [seen EXCEPT ![w] = A]
                BY <3>1 DEF Route
            <4>2. m \in Message /\ doc'[w] = {m}
                BY <3>1, <1>t DEF Route, HandlerInv, JobOf, ProcessorTypes
            <4> QED
                BY <4>1, <4>2
        <3>2. CASE RouteMissing(w)
            <4>1. PICK p \in job[w] :
              \E m \in IF todo[w] = {} THEN {FetchComplete(p.user)} ELSE todo[w] :
                  /\ doc' = [doc EXCEPT ![w] = {m}]
                  /\ \E A \in RouteTargets(m) : seen' = [seen EXCEPT ![w] = A]
                BY <3>2 DEF RouteMissing
            <4>2. p \in IncomingPacket /\ p.type = "FETCH_MISSING_MESSAGES_REQUEST"
                BY <3>2, <1>t DEF RouteMissing, HandlerInv, JobOf, ProcessorTypes
            <4>3. FetchComplete(p.user) \in Message /\ todo[w] \subseteq Message
                BY <1>t, <4>2, IncomingFields, Messages DEF ProcessorTypes
            <4> QED
                BY <1>t, <4>1, <4>3 DEF ProcessorTypes
        <3> QED
            BY <1>6, <3>1, <3>2
    <2>3. m.to \in User /\ seen'[w] \subseteq userChannel[m.to]
        BY <2>1, <2>2, <1>t, Messages DEF ProcessorTypes
    <2>4. stage'[w] = "send"
        BY <1>6, <1>t DEF Route, RouteMissing, Goto, ProcessorTypes
    <2> QED
        BY <2>2, <2>3, <2>4 DEF AddressesTrue
<1>7. \A v \in Worker : stage'[v] = "send" =>
          \A m \in doc'[v] : \A a \in seen'[v] : Known(m.to, a)
    BY <1>2, <1>5, <1>6 DEF AddressesTrue
<1>8. ReadsCurrent'
    <2> SUFFICES ASSUME NEW v \in Worker, stage'[v] = "merge"
        PROVE  v # w
        BY <1>1, <1>2 DEF AddressesTrue, ReadsCurrent
    <2> QED
        BY <1>5, <1>6
<1>9. \A v \in Worker : \A p \in job'[v] \cup handled'[v] : Fits(p)
    BY <1>b, <1>2, <1>3 DEF AddressesTrue
<1> QED
    BY <1>1, <1>3, <1>4, <1>7, <1>8, <1>9, AddressesRest DEF AddressesTrue

\* The producer's callbacks.
LEMMA CallbackNews ==
    ASSUME AddressesTrue, UNCHANGED connectorVars, NEW e \in buffer,
           Delivered(e) \/ DeliveryFailed(e)
    PROVE  AddressesTrue'
<1>1. /\ UNCHANGED <<incoming, userChannel, stage, job, handled, seen, doc>>
      /\ buffer' \subseteq buffer /\ outgoing' \subseteq outgoing \cup {e[2]}
    BY DEF Delivered, DeliveryFailed, thread, topics, redis
<1> QED
    BY <1>1, AddressesRest DEF AddressesTrue, ReadsCurrent

LEMMA ProcessorNews ==
    ASSUME HandlerInv, TopicTypes, AddressesTrue, ChannelsChangedInTurn,
           ProcessorNext, UNCHANGED connectorVars
    PROVE  AddressesTrue'
BY StartNews, WriteNews, WorkNews, CallbackNews DEF ProcessorNext, WorkerThread

-----------------------------------------------------------------------------
\* The socket can be reached, or is about to, or its announcement was forgotten.
Reached(a) ==
    \/ a \in userChannel[userId[a]]
    \/ Announced(userId[a], a) \/ Unannounced(userId[a], a)

LEMMA LiveMeans ==
    LiveSocketRegistered <=>
        (crashes = 0 => \A a \in Address :
            channel[a] = "open" /\ authStatus[a] = "AUTHENTICATED" => Reached(a))
BY DEF LiveSocketRegistered, Reached

\* A connector announces a socket in the step that marks it as authenticated.
LEMMA ConnectorLive ==
    ASSUME ConnectorTypeOK, RegistryInv, SocketInv, crashes \in Nat, LiveSocketRegistered,
           ConnectorNext, UNCHANGED processorVars
    PROVE  LiveSocketRegistered'
<1> USE DEF sockets, registry, consumer, requests, topics
<1> SUFFICES ASSUME crashes' = 0, NEW a \in Address,
                    channel'[a] = "open", authStatus'[a] = "AUTHENTICATED"
    PROVE  Reached(a)'
    BY DEF LiveSocketRegistered, Reached
<1>1. crashes = 0 /\ ~ \E c \in Connector : CrashRestart(c)
    BY AddressesStay
<1>2. \A u : /\ Announced(u, a) => Announced(u, a)'
             /\ Unannounced(u, a) => Unannounced(u, a)'
    <2>1. incoming \subseteq incoming' /\ unsent \subseteq unsent'
        <3>1. \A P : DeliverMessage(P) => incoming \subseteq incoming' /\ unsent \subseteq unsent'
            BY DEF DeliverMessage
        <3>2. ASSUME NEW c \in Connector,
                     InitChannel(c) \/ ConsumerThread(c) \/ ProcessFast(c) \/ TakeThrows(c)
              PROVE  incoming \subseteq incoming' /\ unsent \subseteq unsent'
            BY <3>1, <3>2 DEF InitChannel, ConsumerThread, TakeAuthClientReply, AdmitUser,
               AuthorizeUser, RejectUser, TakeDelivery, TakeCloseConnection, CommitPacket,
               ProcessFast, TakeThrows, ProcessDelivery
        <3>3. ASSUME NEW b \in Address,
                     \/ EventLoop(b) \/ ProcessDefault(b) \/ PeerCloses(b)
                     \/ \E u \in User : ProcessAuthClient(b, u)
              PROVE  incoming \subseteq incoming' /\ unsent \subseteq unsent'
            BY <3>1, <3>3 DEF EventLoop, AuthTimeout, CloseRejected, HandlerRemoved, Deregister,
               ProcessDefault, PeerCloses, ProcessAuthClient
        <3>4. ASSUME ExecuteWrite
              PROVE  incoming \subseteq incoming' /\ unsent \subseteq unsent'
            BY <3>1, <3>4 DEF ExecuteWrite, WriteSucceeds, WriteFails
        <3> QED
            BY <1>1, <3>2, <3>3, <3>4 DEF ConnectorNext
    <2> QED
        BY <2>1 DEF Announced, Unannounced, processorVars
<1>3. CASE \E c \in Connector : AuthorizeUser(c) /\ \E p \in packet[c] : p.addr = a
    <2>1. PICK c \in Connector : AuthorizeUser(c) /\ \E p \in packet[c] : p.addr = a
        BY <1>3
    <2>2. PICK p \in packet[c] : DeliverMessage({UserConnected(p.user, p.addr)})
        BY <2>1 DEF AuthorizeUser
    <2>3. p.addr = a
        BY <2>1 DEF RegistryInv, ReplyInv
    <2>4. userId'[a] = p.user
        BY <2>1, <2>3 DEF AuthorizeUser, RegistryInv, ReplyInv, Busy
    <2> QED
        BY <2>2, <2>3, <2>4 DEF DeliverMessage, Reached, Announced, Unannounced
<1>4. CASE channel[a] = "open" /\ authStatus[a] = "AUTHENTICATED" /\ userId'[a] = userId[a]
    BY <1>1, <1>2, <1>4, LiveMeans DEF Reached, processorVars
<1>5. ASSUME ~ \E c \in Connector : AuthorizeUser(c) /\ \E p \in packet[c] : p.addr = a
      PROVE  channel[a] = "open" /\ authStatus[a] = "AUTHENTICATED" /\ userId'[a] = userId[a]
    <2>1. authStatus[a] = "AUTHENTICATED"
        <3>1. \/ UNCHANGED authStatus
              \/ \E b, s : /\ authStatus' = [authStatus EXCEPT ![b] = s]
                           /\ s # "AUTHENTICATED" \/ b # a
            <4>1. ASSUME NEW c \in Connector, AuthorizeUser(c) \/ RejectUser(c)
                  PROVE  \E b, s : /\ authStatus' = [authStatus EXCEPT ![b] = s]
                                   /\ s # "AUTHENTICATED" \/ b # a
                BY <1>5, <4>1 DEF AuthorizeUser, RejectUser
            <4> QED
                BY <1>1, <4>1 DEF ConnectorNext, InitChannel, ConsumerThread,
                   TakeAuthClientReply, AdmitUser, TakeDelivery, TakeCloseConnection,
                   CommitPacket, ProcessFast, TakeThrows, EventLoop, AuthTimeout,
                   CloseRejected, HandlerRemoved, ProcessDefault, PeerCloses,
                   ProcessAuthClient, ExecuteWrite, WriteSucceeds, WriteFails
        <3> QED
            BY <3>1 DEF ConnectorTypeOK
    <2>2. userId'[a] = userId[a]
        BY <2>1, AddressesStay DEF Known
    <2>3. channel[a] = "open"
        <3>1. \/ UNCHANGED channel
              \/ \E b, s : channel' = [channel EXCEPT ![b] = s] /\ (s # "open" \/ b # a)
            <4>1. ASSUME NEW c \in Connector, InitChannel(c)
                  PROVE  \E b, s : /\ channel' = [channel EXCEPT ![b] = s]
                                   /\ s # "open" \/ b # a
                <5> DEFINE b == <<c, counter[c] + 1>>
                <5>1. b \in Address /\ b[1] = c /\ b[2] = counter[c] + 1 /\ counter[c] \in Nat
                    BY <4>1 DEF InitChannel, ConnectorTypeOK, Address
                <5>2. b # a
                    BY <2>1, <5>1 DEF SocketInv, FreshSockets
                <5> QED
                    BY <4>1, <5>2 DEF InitChannel
            <4>2. ASSUME NEW b \in Address, EventLoop(b) \/ PeerCloses(b)
                  PROVE  \/ UNCHANGED channel
                         \/ \E d, s : channel' = [channel EXCEPT ![d] = s] /\ s # "open"
                <5>1. \/ UNCHANGED channel
                      \/ channel' = [channel EXCEPT ![b] = "closed"]
                      \/ channel' = [channel EXCEPT ![b] = "removed"]
                    <6>1. AuthTimeout(b) \/ CloseRejected(b) \/ PeerCloses(b) =>
                              UNCHANGED channel \/ channel' = [channel EXCEPT ![b] = "closed"]
                        BY DEF AuthTimeout, CloseRejected, PeerCloses
                    <6>2. HandlerRemoved(b) => channel' = [channel EXCEPT ![b] = "removed"]
                        BY DEF HandlerRemoved
                    <6> QED
                        BY <4>2, <6>1, <6>2 DEF EventLoop
                <5> DEFINE Set(d, s) == channel' = [channel EXCEPT ![d] = s] /\ s # "open"
                <5>2. UNCHANGED channel \/ Set(b, "closed") \/ Set(b, "removed")
                    BY <5>1
                <5> HIDE DEF Set
                <5>3. UNCHANGED channel \/ \E d, s : Set(d, s)
                    BY <5>2
                <5> QED
                    BY <5>3 DEF Set
            <4>3. ASSUME NEW c \in Connector, TakeCloseConnection(c)
                  PROVE  \/ UNCHANGED channel
                         \/ \E b, s : channel' = [channel EXCEPT ![b] = s] /\ s # "open"
                <5>1. PICK p : ProcessClose(p.msg, p.addr)
                    BY <4>3 DEF TakeCloseConnection
                <5> DEFINE Set(b, s) == channel' = [channel EXCEPT ![b] = s] /\ s # "open"
                <5>2. UNCHANGED channel \/ Set(p.addr, "closed")
                    BY <5>1 DEF ProcessClose
                <5> HIDE DEF Set
                <5>3. UNCHANGED channel \/ \E b, s : Set(b, s)
                    BY <5>2
                <5> QED
                    BY <5>3 DEF Set
            <4>4. ASSUME NEW c \in Connector,
                         \/ TakeAuthClientReply(c) \/ AdmitUser(c) \/ AuthorizeUser(c)
                         \/ RejectUser(c) \/ TakeDelivery(c) \/ CommitPacket(c)
                         \/ ProcessFast(c) \/ TakeThrows(c)
                  PROVE  UNCHANGED channel
                BY <4>4 DEF TakeAuthClientReply, AdmitUser, AuthorizeUser, RejectUser,
                   TakeDelivery, CommitPacket, ProcessFast, TakeThrows
            <4>5. ASSUME \/ \E b \in Address : \/ ProcessDefault(b)
                                               \/ \E v \in User : ProcessAuthClient(b, v)
                         \/ ExecuteWrite
                  PROVE  UNCHANGED channel
                BY <4>5 DEF ProcessDefault, ProcessAuthClient, ExecuteWrite, WriteSucceeds,
                   WriteFails
            <4> QED
                BY <1>1, <4>1, <4>2, <4>3, <4>4, <4>5 DEF ConnectorNext, ConsumerThread
        <3> QED
            BY <3>1 DEF ConnectorTypeOK
    <2> QED
        BY <2>1, <2>2, <2>3
<1> QED
    BY <1>3, <1>4, <1>5

\* The write that follows an announcement registers the address, and every
\* other write leaves the addresses of open sockets alone.
LEMMA WriteLive ==
    ASSUME HandlerInv, AddressesTrue, NEW w \in Worker, WriteUserChannel(w),
           UNCHANGED connectorVars, NEW a \in Address, channel[a] = "open",
           authStatus[a] = "AUTHENTICATED", userId[a] \in User, Reached(a)
    PROVE  Reached(a)'
<1> DEFINE u == userId[a]
<1>t. ProcessorTypes
    BY DEF HandlerInv
<1>1. PICK p \in job[w] :
          \/ /\ p.type = "USER_CONNECTED"
             /\ userChannel' = [userChannel EXCEPT ![p.user] = seen[w] \cup {p.addr}]
          \/ /\ p.type = "USER_DISCONNECTED"
             /\ userChannel' = Removed(p.user, seen[w], p.addr)
          \/ /\ p.type = "MESSAGE_STATE_CHANGED"
             /\ userChannel' = Removed(p.msg.to, seen[w], p.addr)
    BY DEF WriteUserChannel
<1>2. /\ stage[w] = "merge" /\ seen[w] = userChannel[ChangedUser(p)] /\ Fits(p)
      /\ p.type = "MESSAGE_STATE_CHANGED" => p.state = "ADDRESS_NOT_FOUND"
      /\ \A q \in job[w] : q = p
      /\ UNCHANGED <<incoming, job, parked>> /\ \E s : Goto(w, s)
    BY DEF AddressesTrue, ReadsCurrent, WriteUserChannel, NotifyMaster, topics, losses,
       HandlerInv, JobOf
<1>3. u' = u /\ UNCHANGED unsent
    BY DEF connectorVars
<1>4. a \in userChannel[u] => a \in userChannel'[u]
    <2>1. CASE p.type = "USER_CONNECTED"
        BY <1>1, <1>2, <1>t, <2>1 DEF ChangedUser, ProcessorTypes
    <2>2. CASE p.type # "USER_CONNECTED"
        <3>1. p.addr # a
            BY <1>1, <1>2, <2>2 DEF Fits
        <3>2. userChannel' = Removed(ChangedUser(p), seen[w], p.addr)
            BY <1>1, <2>2 DEF ChangedUser
        <3> QED
            BY <1>2, <1>t, <3>1, <3>2 DEF Removed, ProcessorTypes
    <2> QED
        BY <2>1, <2>2
<1>5. ASSUME UserConnected(u, a) \in job[w] PROVE a \in userChannel'[u]
    <2>1. p = UserConnected(u, a)
        BY <1>2, <1>5
    <2>2. p.type = "USER_CONNECTED" /\ p.user = u /\ p.addr = a
        BY <2>1 DEF UserConnected
    <2> QED
        BY <1>1, <1>t, <2>2 DEF ProcessorTypes
<1>6. Announced(u, a) => a \in userChannel'[u] \/ Announced(u, a)'
    <2>1. \A v \in Worker \ {w} : stage'[v] = stage[v]
        BY <1>2, <1>t DEF Goto, ProcessorTypes
    <2> QED
        BY <1>2, <1>3, <1>5, <2>1 DEF Announced
<1> QED
    BY <1>2, <1>3, <1>4, <1>6 DEF Reached, Unannounced

\* No other step of the processors touches a channel; an announcement goes on to
\* a worker, comes again after a crash, or is forgotten with a failing Redis.
LEMMA ProcessorLive ==
    ASSUME HandlerInv, TopicTypes, AuthInv, crashes = 0 => AddressesTrue,
           LiveSocketRegistered, ProcessorNext, UNCHANGED connectorVars
    PROVE  LiveSocketRegistered'
<1>t. ProcessorTypes
    BY DEF HandlerInv
<1> SUFFICES ASSUME crashes = 0, AddressesTrue, NEW a \in Address,
                    channel[a] = "open", authStatus[a] = "AUTHENTICATED",
                    userId[a] \in User, Reached(a)
    PROVE  Reached(a)'
    BY LiveMeans DEF LiveSocketRegistered, Reached, AuthInv, connectorVars
<1> DEFINE u == userId[a]
           news == UserConnected(u, a)
<1>n. news.type = "USER_CONNECTED"
    BY DEF UserConnected
<1>u. u' = u /\ UNCHANGED unsent
    BY DEF connectorVars
<1>1. ASSUME NEW w \in Worker, UNCHANGED userChannel, parked \subseteq parked',
             news \in incoming => Announced(u, a)' \/ Unannounced(u, a)',
             \A v \in Worker \ {w} : stage'[v] = stage[v] /\ job'[v] = job[v],
             stage[w] = "merge" /\ news \in job[w] => Announced(u, a)' \/ Unannounced(u, a)'
      PROVE  Reached(a)'
    BY <1>u, <1>1 DEF Reached, Announced, Unannounced
<1>2. ASSUME NEW w \in Worker,
             \/ AnswerAuthClient(w) \/ ReadUserChannel(w) \/ ChangeMessageState(w)
             \/ RequestMessage(w) \/ RequestClose(w) \/ RequestFetch(w) \/ ChangeFails(w)
      PROVE  Reached(a)'
    <2>1. PICK p \in incoming :
              /\ Start(w, p) /\ UNCHANGED userChannel /\ parked \subseteq parked'
              /\ \E s : Goto(w, s) /\ (p.type = "USER_CONNECTED" => s = "merge")
        <3>1. CASE AnswerAuthClient(w) \/ ReadUserChannel(w)
            BY <3>1 DEF AnswerAuthClient, ReadUserChannel, redis, losses
        <3>2. CASE ChangeMessageState(w)
            BY <3>2 DEF ChangeMessageState, redis, losses
        <3>3. CASE RequestMessage(w) \/ RequestFetch(w)
            BY <3>3 DEF RequestMessage, RequestFetch, redis, losses
        <3>4. CASE RequestClose(w)
            BY <3>4 DEF RequestClose, redis, losses
        <3>5. CASE ChangeFails(w)
            BY <3>5 DEF ChangeFails, redis
        <3> QED
            BY <1>2, <3>1, <3>2, <3>3, <3>4, <3>5
    <2>2. /\ stage[w] = "idle" /\ incoming' = incoming \ {p}
          /\ job' = [job EXCEPT ![w] = {p}]
          /\ \A v \in Worker \ {w} : stage'[v] = stage[v] /\ job'[v] = job[v]
        BY <2>1, <1>t DEF Start, Goto, ProcessorTypes
    <2>3. news \in incoming => Announced(u, a)'
        <3>1. CASE news = p
            <4>1. stage'[w] = "merge" /\ job'[w] = {news}
                BY <1>n, <1>t, <2>1, <2>2, <3>1 DEF Goto, ProcessorTypes
            <4> QED
                BY <1>u, <4>1 DEF Announced
        <3>2. CASE news # p
            BY <1>u, <2>2, <3>2 DEF Announced
        <3> QED
            BY <3>1, <3>2
    <2> QED
        BY <1>1, <2>1, <2>2, <2>3
<1>3. ASSUME NEW w \in Worker,
             \/ Route(w) \/ Send(w) \/ Commit(w) \/ FindMessages(w) \/ RouteMissing(w)
             \/ Remove(w) \/ HandlerFails(w) \/ PersistFails(w) \/ WorkerCrash(w)
      PROVE  Reached(a)'
    <2>1. UNCHANGED userChannel /\ parked \subseteq parked' /\ incoming \subseteq incoming'
        BY <1>3 DEF Route, Send, Commit, FindMessages, RouteMissing, Remove, HandlerFails,
           PersistFails, WorkerCrash, redis, topics, losses
    <2>2. \A v \in Worker \ {w} : stage'[v] = stage[v] /\ job'[v] = job[v]
        BY <1>3, <1>t DEF Route, Send, Commit, FindMessages, RouteMissing, Remove, HandlerFails,
           PersistFails, WorkerCrash, Goto, ProcessorTypes
    <2>3. news \in incoming => Announced(u, a)'
        BY <1>u, <2>1 DEF Announced
    <2>4. ASSUME stage[w] = "merge", news \in job[w]
          PROVE  Announced(u, a)' \/ Unannounced(u, a)'
        <3>1. CASE HandlerFails(w)
            <4>1. PICK p \in job[w] : p.type # "MESSAGE" => p \in parked'
                BY <3>1 DEF HandlerFails
            <4>2. p = news
                BY <2>4 DEF HandlerInv, JobOf
            <4> QED
                BY <1>n, <1>u, <4>1, <4>2 DEF Unannounced
        <3>2. CASE WorkerCrash(w)
            <4>1. news \in incoming'
                BY <1>n, <2>4, <3>2 DEF WorkerCrash, IsFast
            <4> QED
                BY <1>u, <4>1 DEF Announced
        <3> QED
            BY <1>3, <2>4, <3>1, <3>2 DEF Route, Send, Commit, FindMessages, RouteMissing,
               Remove, PersistFails
    <2> QED
        BY <1>1, <2>1, <2>2, <2>3, <2>4
<1>4. ASSUME NEW e \in buffer, Delivered(e) \/ DeliveryFailed(e)
      PROVE  Reached(a)'
    <2>1. /\ UNCHANGED <<incoming, userChannel, stage, job>>
          /\ parked \subseteq parked'
        BY <1>4 DEF Delivered, DeliveryFailed, thread, topics, redis, losses
    <2> QED
        BY <1>u, <2>1 DEF Reached, Announced, Unannounced
<1> QED
    BY <1>2, <1>3, <1>4, WriteLive DEF ProcessorNext, WorkerThread

LEMMA NewsStep ==
    ASSUME Inv, NewsInv, LiveSocketRegistered, ChannelsChangedInTurn, [Next]_vars
    PROVE  NewsInv' /\ LiveSocketRegistered'
<1>t. TopicTypes /\ AuthInv
    BY TopicsAreTyped DEF Inv, RegistryInv
<1>1. CASE ConnectorNext /\ UNCHANGED processorVars
    <2>1. crashes' \in Nat
        <3>1. ASSUME NEW c \in Connector, CrashRestart(c) PROVE crashes' = crashes + 1
            BY <3>1 DEF CrashRestart
        <3> QED
            BY <1>1, <3>1, CrashesCount DEF NewsInv
    <2>2. crashes' = 0 => AddressesTrue'
        BY <1>1, AddressesStay, ConnectorNews DEF Inv, NewsInv
    <2>3. LiveSocketRegistered'
        BY <1>1, ConnectorLive DEF Inv, NewsInv
    <2> QED
        BY <2>1, <2>2, <2>3 DEF NewsInv
<1>2. CASE ProcessorNext /\ UNCHANGED connectorVars
    <2>1. crashes' = crashes
        BY <1>2 DEF connectorVars
    <2>2. crashes = 0 => AddressesTrue'
        BY <1>t, <1>2, ProcessorNews DEF Inv, NewsInv
    <2>3. LiveSocketRegistered'
        BY <1>t, <1>2, ProcessorLive DEF Inv, NewsInv
    <2> QED
        BY <2>1, <2>2, <2>3 DEF NewsInv
<1>3. CASE UNCHANGED vars
    <2>1. UNCHANGED connectorVars /\ UNCHANGED processorVars /\ UNCHANGED topics
        BY <1>3 DEF vars
    <2>2. /\ AddressesTrue => AddressesTrue'
          /\ crashes' = crashes
        BY <2>1, AddressesRest DEF AddressesTrue, ReadsCurrent, connectorVars, processorVars, topics
    <2>3. LiveSocketRegistered'
        BY <2>1 DEF LiveSocketRegistered, Announced, Unannounced, connectorVars, processorVars,
           topics
    <2> QED
        BY <2>2, <2>3 DEF NewsInv
<1> QED
    BY <1>1, <1>2, <1>3 DEF Next

\* Unless two workers change the channel of a user at the same time, or a
\* connector crashes, no late news of any address and no order of connects,
\* disconnects, failures and worker crashes unregisters an open socket.
THEOREM LiveSocketsStayRegistered ==
    Spec /\ []ChannelsChangedInTurn => []LiveSocketRegistered
<1>1. Init => NewsInv /\ LiveSocketRegistered
    BY DEF Init, ConnectorInit, ProcessorInit, NewsInv, AddressesTrue, ReadsCurrent,
       LiveSocketRegistered
<1>2. Inv /\ NewsInv /\ LiveSocketRegistered /\ ChannelsChangedInTurn /\ [Next]_vars
          => NewsInv' /\ LiveSocketRegistered'
    BY NewsStep
<1> QED
    BY <1>1, <1>2, Invariance, PTL DEF Spec

\* Where a single worker handles all packets, they do without any condition.
THEOREM OneWorkerKeepsSocketsRegistered ==
    ASSUME \A v, w \in Worker : v = w
    PROVE  Spec => []LiveSocketRegistered
<1>1. ChannelsChangedInTurn
    BY DEF ChannelsChangedInTurn
<1> QED
    BY <1>1, LiveSocketsStayRegistered, PTL
-----------------------------------------------------------------------------
\* What a worker is about to deliver came with its packet or is stored: a
\* handler never makes an application message up.
Handed(w) ==
    /\ stage[w] = "merge" =>
          \A p \in job[w] :
              p.type = "MESSAGE_STATE_CHANGED" => p.state = "ADDRESS_NOT_FOUND"
    /\ stage[w] \in {"route", "send"} =>
          \A m \in doc[w] :
              m.type = "MESSAGE" => m \in todo[w] \/ \E p \in job[w] : Carries(p, m)

\* A page is stored until it is removed, by the worker that found it.
PageStored(w) == \A m \in todo[w] : InStore(m)

HandedInv == \A w \in Worker : Handed(w) /\ PageStored(w)

\* A handler that starts.
LEMMA StartHands ==
    ASSUME HandlerInv, TopicTypes, NEW w \in Worker,
           \/ AnswerAuthClient(w) \/ ReadUserChannel(w) \/ ChangeMessageState(w)
           \/ RequestMessage(w) \/ RequestClose(w) \/ RequestFetch(w) \/ ChangeFails(w)
    PROVE  Handed(w)'
<1>t. ProcessorTypes
    BY DEF HandlerInv
<1>1. CASE AnswerAuthClient(w) \/ RequestFetch(w) \/ ChangeFails(w)
    <2>1. stage'[w] \in {"commit", "lock"}
        BY <1>1, <1>t DEF AnswerAuthClient, RequestFetch, ChangeFails, Goto, Start, ProcessorTypes
    <2> QED
        BY <2>1 DEF Handed
<1>2. CASE ReadUserChannel(w)
    <2>1. PICK p \in incoming :
              /\ p.type = "MESSAGE_STATE_CHANGED" => p.state = "ADDRESS_NOT_FOUND"
              /\ Start(w, p)
        BY <1>2 DEF ReadUserChannel
    <2>2. stage'[w] = "merge" /\ job'[w] = {p}
        BY <1>2, <1>t, <2>1 DEF ReadUserChannel, Goto, Start, ProcessorTypes
    <2> QED
        BY <2>1, <2>2 DEF Handed
<1>3. CASE RequestMessage(w)
    <2>1. PICK p \in incoming :
              p.type = "MESSAGE" /\ Start(w, p) /\ doc' = [doc EXCEPT ![w] = {p.msg}]
        BY <1>3 DEF RequestMessage
    <2>2. stage'[w] = "route" /\ job'[w] = {p} /\ doc'[w] = {p.msg}
        BY <1>3, <1>t, <2>1 DEF RequestMessage, Goto, Start, ProcessorTypes
    <2>3. Carries(p, p.msg)
        BY <2>1 DEF Carries
    <2> QED
        BY <2>2, <2>3 DEF Handed, Carries
<1>4. CASE ChangeMessageState(w) \/ RequestClose(w)
    <2>1. PICK n : n.type # "MESSAGE" /\
              \/ Goto(w, "commit")
              \/ Goto(w, "route") /\ doc' = [doc EXCEPT ![w] = {n}]
        <3>1. \A x : Confirmation(x).type # "MESSAGE" /\ CloseConnection(x).type # "MESSAGE"
            BY DEF Confirmation, CloseConnection, Msg
        <3>2. CASE ChangeMessageState(w)
            <4>1. PICK p \in incoming :
                      \/ Goto(w, "commit")
                      \/ /\ Goto(w, "route")
                         /\ doc' = [doc EXCEPT ![w] = {Confirmation(p.msg.about)}]
                BY <3>2 DEF ChangeMessageState
            <4> QED
                BY <3>1, <4>1
        <3>3. CASE RequestClose(w)
            <4>1. PICK p \in incoming :
                      \/ Goto(w, "commit")
                      \/ /\ Goto(w, "route")
                         /\ doc' = [doc EXCEPT ![w] = {CloseConnection(p.user)}]
                BY <3>3 DEF RequestClose
            <4> QED
                BY <3>1, <4>1
        <3> QED
            BY <1>4, <3>2, <3>3
    <2>2. \/ stage'[w] = "commit"
          \/ stage'[w] = "route" /\ doc'[w] = {n}
        BY <1>t, <2>1 DEF Goto, ProcessorTypes
    <2> QED
        BY <2>1, <2>2 DEF Handed
<1> QED
    BY <1>1, <1>2, <1>3, <1>4

\* A handler in progress, its end, and its failures.
LEMMA WorkHands ==
    ASSUME HandlerInv, HandedInv, NEW w \in Worker,
           \/ WriteUserChannel(w) \/ Route(w) \/ Send(w) \/ Commit(w) \/ FindMessages(w)
           \/ RouteMissing(w) \/ Remove(w) \/ HandlerFails(w) \/ PersistFails(w) \/ WorkerCrash(w)
    PROVE  Handed(w)'
<1>t. ProcessorTypes /\ JobOf(w) /\ Handed(w)
    BY DEF HandlerInv, HandedInv
<1>1. CASE Send(w) \/ Commit(w) \/ FindMessages(w) \/ Remove(w) \/ HandlerFails(w)
           \/ PersistFails(w) \/ WorkerCrash(w)
    <2>1. stage'[w] \in {"remove", "commit", "idle", "next"}
        BY <1>1, <1>t DEF Send, Commit, FindMessages, Remove, HandlerFails, PersistFails,
           WorkerCrash, Goto, ProcessorTypes
    <2> QED
        BY <2>1 DEF Handed
<1>2. CASE WriteUserChannel(w)
    <2>1. PICK p \in job[w] :
              \/ /\ p.type \in {"USER_CONNECTED", "USER_DISCONNECTED"}
                 /\ NotifyMaster(w, p.type, p.user, p.addr)
              \/ /\ p.type = "MESSAGE_STATE_CHANGED"
                 /\ doc' = [doc EXCEPT ![w] = {p.msg}] /\ Goto(w, "route")
        BY <1>2 DEF WriteUserChannel
    <2>2. stage[w] = "merge" /\ UNCHANGED job
        BY <1>2 DEF WriteUserChannel
    <2>3. CASE p.type \in {"USER_CONNECTED", "USER_DISCONNECTED"}
        <3>1. \A u, a : Notice(p.type, u, a).type # "MESSAGE"
            BY <2>3 DEF Notice, Msg
        <3>2. \/ Goto(w, "commit")
              \/ Goto(w, "route")
                 /\ doc' = [doc EXCEPT ![w] = {Notice(p.type, p.user, p.addr)}]
            BY <2>1, <2>3 DEF NotifyMaster
        <3>3. \/ stage'[w] = "commit"
              \/ stage'[w] = "route" /\ doc'[w] = {Notice(p.type, p.user, p.addr)}
            BY <1>t, <3>2 DEF Goto, ProcessorTypes
        <3> QED
            BY <3>1, <3>3 DEF Handed
    <2>4. CASE p.type = "MESSAGE_STATE_CHANGED"
        <3>1. stage'[w] = "route" /\ doc'[w] = {p.msg} /\ p \in job'[w]
            BY <1>t, <2>1, <2>2, <2>4 DEF Goto, ProcessorTypes
        <3>2. p.state = "ADDRESS_NOT_FOUND"
            BY <1>t, <2>2, <2>4 DEF Handed
        <3>3. Carries(p, p.msg)
            BY <2>4, <3>2 DEF Carries
        <3> QED
            BY <3>1, <3>3 DEF Handed, Carries
    <2> QED
        BY <2>1, <2>3, <2>4
<1>3. CASE Route(w)
    <2>1. stage[w] = "route" /\ stage'[w] = "send" /\ UNCHANGED <<job, doc, todo>>
        BY <1>3, <1>t DEF Route, Goto, ProcessorTypes
    <2> QED
        BY <1>t, <2>1 DEF Handed, Carries
<1>4. CASE RouteMissing(w)
    <2>1. PICK m : /\ m \in todo[w] \/ \E u : m = FetchComplete(u)
                   /\ doc' = [doc EXCEPT ![w] = {m}]
        BY <1>4 DEF RouteMissing
    <2>2. doc'[w] = {m} /\ stage'[w] = "send" /\ UNCHANGED todo
        BY <1>4, <1>t, <2>1 DEF RouteMissing, Goto, ProcessorTypes
    <2>3. \A u : FetchComplete(u).type # "MESSAGE"
        BY DEF FetchComplete, Msg
    <2> QED
        BY <2>1, <2>2, <2>3 DEF Handed
<1> QED
    BY <1>1, <1>2, <1>3, <1>4

\* A step of one worker is none of the others.
LEMMA StepsApart ==
    ASSUME HandlerInv, NEW w \in Worker, NEW v \in Worker \ {w},
           WorkerThread(w) \/ HandlerFails(w) \/ PersistFails(w)
           \/ ChangeFails(w) \/ WorkerCrash(w)
    PROVE  /\ stage'[v] = stage[v] /\ job'[v] = job[v]
           /\ doc'[v] = doc[v] /\ todo'[v] = todo[v]
<1>t. ProcessorTypes
    BY DEF HandlerInv
<1>1. stage'[v] = stage[v]
    <2>1. \E s : Goto(w, s)
        BY DEF WorkerThread, AnswerAuthClient, ReadUserChannel, WriteUserChannel, NotifyMaster,
           ChangeMessageState, RequestMessage, RequestClose, RequestFetch, FindMessages,
           RouteMissing, Remove, Route, Send, Commit, HandlerFails, PersistFails, ChangeFails,
           WorkerCrash
    <2> QED
        BY <1>t, <2>1 DEF Goto, ProcessorTypes
<1>2. job'[v] = job[v]
    <2>1. UNCHANGED job \/ \E s : job' = [job EXCEPT ![w] = s]
        BY DEF WorkerThread, AnswerAuthClient, ReadUserChannel, WriteUserChannel, Start,
           ChangeMessageState, RequestMessage, RequestClose, RequestFetch, FindMessages,
           RouteMissing, Remove, Route, Send, Commit, HandlerFails, PersistFails, ChangeFails,
           WorkerCrash
    <2> QED
        BY <1>t, <2>1 DEF ProcessorTypes
<1>3. doc'[v] = doc[v]
    <2>1. UNCHANGED doc \/ \E s : doc' = [doc EXCEPT ![w] = s]
        BY DEF WorkerThread, AnswerAuthClient, ReadUserChannel, WriteUserChannel, NotifyMaster,
           ChangeMessageState, RequestMessage, RequestClose, RequestFetch, FindMessages,
           RouteMissing, Remove, Route, Send, Commit, HandlerFails, PersistFails, ChangeFails,
           WorkerCrash
    <2> QED
        BY <1>t, <2>1 DEF ProcessorTypes
<1>4. todo'[v] = todo[v]
    <2>1. UNCHANGED todo \/ \E s : todo' = [todo EXCEPT ![w] = s]
        BY DEF WorkerThread, AnswerAuthClient, ReadUserChannel, WriteUserChannel,
           ChangeMessageState, RequestMessage, RequestClose, RequestFetch, FindMessages,
           RouteMissing, Remove, Route, Send, Commit, HandlerFails, PersistFails, ChangeFails,
           WorkerCrash
    <2> QED
        BY <1>t, <2>1 DEF ProcessorTypes
<1> QED
    BY <1>1, <1>2, <1>3, <1>4

\* Only a fetch puts messages on a page, and they are stored.
LEMMA PageSteps ==
    ASSUME HandlerInv, ProcessorNext, NEW w \in Worker, NEW m \in todo'[w]
    PROVE  /\ m \in todo[w] /\ ~(Remove(w) /\ m \in doc[w])
           \/ InStore(m)'
<1>t. ProcessorTypes
    BY DEF HandlerInv
<1>1. CASE FindMessages(w)
    <2>1. PICK page \in SUBSET Message :
              /\ todo' = [todo EXCEPT ![w] = page]
              /\ \A n \in page : store[n] \in FetchableState
        BY <1>1 DEF FindMessages
    <2>2. m \in page /\ UNCHANGED store
        BY <1>1, <1>t, <2>1 DEF FindMessages, ProcessorTypes
    <2> QED
        BY <2>1, <2>2 DEF InStore, FetchableState
<1>2. CASE Remove(w)
    BY <1>2, <1>t DEF Remove, ProcessorTypes
<1>3. ASSUME ~FindMessages(w), ~Remove(w) PROVE m \in todo[w]
    <2>1. ASSUME WorkerThread(w) \/ HandlerFails(w) \/ PersistFails(w) \/ ChangeFails(w)
                 \/ WorkerCrash(w)
          PROVE  UNCHANGED todo \/ todo' = [todo EXCEPT ![w] = {}]
        BY <1>3, <2>1 DEF WorkerThread, AnswerAuthClient, ReadUserChannel, WriteUserChannel,
           ChangeMessageState, RequestMessage, RequestClose, RequestFetch,
           RouteMissing, Route, Send, Commit, HandlerFails, PersistFails, ChangeFails,
           WorkerCrash
    <2>2. ASSUME NEW e \in buffer, Delivered(e) \/ DeliveryFailed(e)
          PROVE  UNCHANGED todo
        BY <2>2 DEF Delivered, DeliveryFailed, thread
    <2>3. ASSUME NEW v \in Worker \ {w},
                 WorkerThread(v) \/ HandlerFails(v) \/ PersistFails(v) \/ ChangeFails(v)
                 \/ WorkerCrash(v)
          PROVE  todo'[w] = todo[w]
        BY <2>3, StepsApart
    <2> QED
        BY <1>t, <2>1, <2>2, <2>3 DEF ProcessorNext, ProcessorTypes
<1> QED
    BY <1>1, <1>2, <1>3

LEMMA ProcessorHands ==
    ASSUME HandlerInv, TopicTypes, HandedInv, ProcessorNext
    PROVE  HandedInv'
<1>1. ASSUME NEW w \in Worker PROVE Handed(w)'
    <2>1. ASSUME NEW v \in Worker,
                 WorkerThread(v) \/ HandlerFails(v) \/ PersistFails(v) \/ ChangeFails(v)
                 \/ WorkerCrash(v)
          PROVE  Handed(w)'
        <3>1. CASE v = w
            BY <2>1, <3>1, StartHands, WorkHands DEF WorkerThread
        <3>2. CASE v # w
            <4>1. /\ stage'[w] = stage[w] /\ job'[w] = job[w]
                  /\ doc'[w] = doc[w] /\ todo'[w] = todo[w]
                BY <2>1, <3>2, StepsApart
            <4> QED
                BY <4>1 DEF HandedInv, Handed, Carries
        <3> QED
            BY <3>1, <3>2
    <2>2. ASSUME NEW e \in buffer, Delivered(e) \/ DeliveryFailed(e)
          PROVE  Handed(w)'
        <3>1. UNCHANGED <<stage, job, doc, todo>>
            BY <2>2 DEF Delivered, DeliveryFailed, thread
        <3> QED
            BY <3>1 DEF HandedInv, Handed, Carries
    <2> QED
        BY <2>1, <2>2 DEF ProcessorNext
<1>2. ASSUME NEW w \in Worker, NEW m \in todo'[w] PROVE InStore(m)'
    <2>1. CASE m \in todo[w] /\ ~(Remove(w) /\ m \in doc[w])
        <3>1. m \in Message /\ InStore(m)
            BY <2>1 DEF HandedInv, PageStored, HandlerInv, ProcessorTypes
        <3>2. ASSUME NEW v \in Worker, Remove(v), m \in doc[v] PROVE FALSE
            <4>1. m \in todo[v]
                BY <3>2 DEF HandlerInv, PageOf, Remove
            <4>2. v = w
                BY <2>1, <4>1, HandlerConsequences DEF FetchesExclusive
            <4> QED
                BY <2>1, <3>2, <4>2
        <3> QED
            BY <3>1, <3>2, StoreKeeps
    <2> QED
        BY <2>1, PageSteps
<1> QED
    BY <1>1, <1>2 DEF HandedInv, PageStored
-----------------------------------------------------------------------------
\* A step hands out no copy of a message that the domain did not hold, and
\* forgets none.
Conserved(m) ==
    /\ Held(m)' => Held(m)
    /\ Forgotten(m) => Forgotten(m)'
    /\ Forgotten(m)' => Forgotten(m) \/ Held(m)

\* What a step of the processors has to show for that.
LEMMA ProcessorConserved ==
    ASSUME NEW m, UNCHANGED connectorVars,
           \A p \in incoming' \cup outgoing' : Carries(p, m) => Held(m),
           \A e \in buffer' : Carries(e[2], m) => Held(m),
           InStore(m)' => Held(m),
           \A w \in Worker : \A p \in job'[w] \cup handled'[w] : Carries(p, m) => Held(m),
           vanished \subseteq vanished', erased \subseteq erased', parked \subseteq parked',
           m \in (vanished' \cup erased') \ (vanished \cup erased) => Held(m),
           \A p \in parked' \ parked : Carries(p, m) => Held(m)
    PROVE  Conserved(m)
<1>1. UNCHANGED <<packet, consumed, writes, unsent, dropped>>
    BY DEF connectorVars
<1>2. Held(m)' => Held(m)
    BY <1>1 DEF Held, InTopics, InBuffer, InWrites, InHands, Carries
<1>3. Forgotten(m) => Forgotten(m)'
    BY <1>1 DEF Forgotten, Carries
<1>4. Forgotten(m)' => Forgotten(m) \/ Held(m)
    BY <1>1 DEF Forgotten, Carries
<1> QED
    BY <1>2, <1>3, <1>4 DEF Conserved

\* What persistMessage saves was carried here.
LEMMA PersistConserves ==
    ASSUME NEW m \in Message, ProcessorTypes, NEW n, NEW state, PersistMessage(n, state),
           n = m /\ state # "PROCESSED" => Held(m)
    PROVE  InStore(m)' => Held(m)
BY DEF PersistMessage, InStore, Held, ProcessorTypes

LEMMA StartConserves ==
    ASSUME HandlerInv, TopicTypes, NEW w \in Worker, UNCHANGED connectorVars,
           \/ AnswerAuthClient(w) \/ ReadUserChannel(w) \/ ChangeMessageState(w)
           \/ RequestMessage(w) \/ RequestClose(w) \/ RequestFetch(w) \/ ChangeFails(w),
           NEW m \in Message
    PROVE  Conserved(m)
<1>t. ProcessorTypes
    BY DEF HandlerInv
<1>1. UNCHANGED <<outgoing, vanished, erased>>
    BY DEF AnswerAuthClient, ReadUserChannel, ChangeMessageState, RequestMessage,
       RequestClose, RequestFetch, ChangeFails, losses
<1>2. PICK p \in incoming :
          /\ Start(w, p)
          /\ \/ UNCHANGED buffer
             \/ \E u, a, ok : buffer' = buffer \cup {<<w, AuthClientReply(u, a, ok)>>}
          /\ \/ UNCHANGED store
             \/ p.type = "MESSAGE_STATE_CHANGED" /\ PersistMessage(p.msg, p.state)
          /\ \/ UNCHANGED parked
             \/ parked' = parked \cup {p}
    <2>1. CASE AnswerAuthClient(w)
        BY <2>1 DEF AnswerAuthClient, losses
    <2>2. CASE ReadUserChannel(w)
        BY <2>2 DEF ReadUserChannel, losses
    <2>3. CASE ChangeMessageState(w)
        BY <2>3 DEF ChangeMessageState, losses
    <2>4. CASE RequestMessage(w) \/ RequestClose(w) \/ RequestFetch(w)
        BY <2>4 DEF RequestMessage, RequestClose, RequestFetch, losses
    <2>5. CASE ChangeFails(w)
        BY <2>5 DEF ChangeFails
    <2> QED
        BY <2>1, <2>2, <2>3, <2>4, <2>5
<1>3. incoming' = incoming \ {p} /\ job' = [job EXCEPT ![w] = {p}]
    BY <1>2 DEF Start
<1>4. Carries(p, m) => Held(m)
    BY DEF Held, InTopics
<1>5. \A q \in incoming' \cup outgoing' : Carries(q, m) => Held(m)
    BY <1>1, <1>3 DEF Held, InTopics
<1>6. \A e \in buffer' : Carries(e[2], m) => Held(m)
    <2>1. \A u, a, ok : ~Carries(AuthClientReply(u, a, ok), m)
        BY DEF Carries, AuthClientReply
    <2> QED
        BY <1>2, <2>1 DEF Held, InBuffer
<1>7. InStore(m)' => Held(m)
    <2>1. CASE p.type = "MESSAGE_STATE_CHANGED" /\ PersistMessage(p.msg, p.state)
        <3>1. p.msg = m /\ p.state # "PROCESSED" => Carries(p, m)
            BY <2>1 DEF Carries
        <3> QED
            BY <1>t, <1>4, <2>1, <3>1, PersistConserves
    <2>2. CASE UNCHANGED store
        BY <2>2 DEF Held, InStore
    <2> QED
        BY <1>2, <2>1, <2>2
<1>b. \A v \in Worker : handled'[v] \subseteq handled[v] \cup job[v]
    BY <1>t, HandledComes DEF ProcessorNext, WorkerThread
<1>8. \A v \in Worker : \A q \in job'[v] \cup handled'[v] : Carries(q, m) => Held(m)
    <2>1. \A v \in Worker : job'[v] \subseteq job[v] \cup {p}
        BY <1>t, <1>3 DEF ProcessorTypes
    <2> QED
        BY <1>b, <1>4, <2>1 DEF Held, InHands
<1>9. parked \subseteq parked' /\ \A q \in parked' \ parked : Carries(q, m) => Held(m)
    BY <1>2, <1>4
<1> QED
    BY <1>1, <1>5, <1>6, <1>7, <1>8, <1>9, ProcessorConserved

\* What a handler sends, removes or fails to save it was handed, or is stored.
LEMMA HandedIsHeld ==
    ASSUME HandedInv, NEW w \in Worker, NEW m, m.type = "MESSAGE",
           \/ m \in todo[w]
           \/ m \in doc[w] /\ stage[w] \in {"route", "send"}
    PROVE  Held(m)
<1>1. m \in todo[w] \/ \E p \in job[w] : Carries(p, m)
    BY DEF HandedInv, Handed
<1> QED
    BY <1>1 DEF HandedInv, PageStored, Held, InHands

LEMMA WorkConserves ==
    ASSUME HandlerInv, TopicTypes, HandedInv, NEW w \in Worker, UNCHANGED connectorVars,
           \/ WriteUserChannel(w) \/ Route(w) \/ Send(w) \/ Commit(w) \/ FindMessages(w)
           \/ RouteMissing(w) \/ Remove(w) \/ HandlerFails(w) \/ PersistFails(w) \/ WorkerCrash(w),
           NEW m \in Message, m.type = "MESSAGE"
    PROVE  Conserved(m)
<1>t. ProcessorTypes /\ JobOf(w) /\ PageOf(w)
    BY DEF HandlerInv
<1>h. \A v \in Worker : \A p \in job[v] \cup handled[v] : Carries(p, m) => Held(m)
    BY DEF Held, InHands
<1>1. \A p \in incoming' \cup outgoing' : Carries(p, m) => Held(m)
    BY <1>h DEF WriteUserChannel, Route, Send, Commit, FindMessages, RouteMissing, Remove,
       HandlerFails, PersistFails, WorkerCrash, topics, Held, InTopics
<1>2. \A e \in buffer' : Carries(e[2], m) => Held(m)
    <2>1. CASE Send(w)
        <3>1. PICK n \in doc[w] :
                  \/ UNCHANGED buffer
                  \/ buffer' = buffer \cup {<<w, Delivery(n, a)>> : a \in seen[w]}
            BY <2>1 DEF Send
        <3>2. \A a : Carries(Delivery(n, a), m) => n = m
            BY DEF Carries, Delivery
        <3>3. n = m => Held(m)
            BY <2>1, HandedIsHeld DEF Send
        <3> QED
            BY <3>1, <3>2, <3>3 DEF Held, InBuffer
    <2> QED
        BY <2>1 DEF WriteUserChannel, Route, Commit, FindMessages, RouteMissing, Remove,
           HandlerFails, PersistFails, WorkerCrash, Held, InBuffer
<1>3. InStore(m)' => Held(m)
    <2>1. CASE Send(w)
        <3>1. PICK n \in doc[w] : PersistMessage(n, "ADDRESS_NOT_FOUND") \/ UNCHANGED store
            BY <2>1 DEF Send
        <3>2. n = m => Held(m)
            BY <2>1, HandedIsHeld DEF Send
        <3>3. CASE PersistMessage(n, "ADDRESS_NOT_FOUND")
            BY <1>t, <3>2, <3>3, PersistConserves
        <3>4. CASE UNCHANGED store
            BY <3>4 DEF Held, InStore
        <3> QED
            BY <3>1, <3>3, <3>4
    <2>2. CASE HandlerFails(w)
        <3>1. PICK p \in job[w] :
                  \/ p.type = "MESSAGE" /\ PersistMessage(p.msg, "PROCESSOR_ERROR")
                  \/ UNCHANGED store
            BY <2>2 DEF HandlerFails
        <3>2. CASE p.type = "MESSAGE" /\ PersistMessage(p.msg, "PROCESSOR_ERROR")
            <4>1. p.msg = m => Held(m)
                BY <1>h, <3>2 DEF Carries
            <4> QED
                BY <1>t, <3>2, <4>1, PersistConserves
        <3>3. CASE UNCHANGED store
            BY <3>3 DEF Held, InStore
        <3> QED
            BY <3>1, <3>2, <3>3
    <2>3. CASE Remove(w)
        BY <2>3 DEF Remove, Held, InStore
    <2> QED
        BY <2>1, <2>2, <2>3 DEF WriteUserChannel, Route, Commit, FindMessages, RouteMissing,
           PersistFails, WorkerCrash, Held, InStore
<1>b. \A v \in Worker : handled'[v] \subseteq handled[v] \cup job[v]
    BY <1>t, HandledComes DEF ProcessorNext, WorkerThread
<1>4. \A v \in Worker : \A p \in job'[v] \cup handled'[v] : Carries(p, m) => Held(m)
    <2>1. UNCHANGED job \/ job' = [job EXCEPT ![w] = {}]
        BY DEF WriteUserChannel, Route, Send, Commit, FindMessages, RouteMissing, Remove,
           HandlerFails, PersistFails, WorkerCrash
    <2>2. \A v \in Worker : job'[v] \subseteq job[v]
        BY <1>t, <2>1 DEF ProcessorTypes
    <2> QED
        BY <1>b, <1>h, <2>2
<1>5. /\ vanished \subseteq vanished' /\ erased \subseteq erased' /\ parked \subseteq parked'
      /\ m \in (vanished' \cup erased') \ (vanished \cup erased) => Held(m)
      /\ \A p \in parked' \ parked : Carries(p, m) => Held(m)
    <2>1. CASE Remove(w)
        <3>1. m \in doc[w] => Held(m)
            BY <1>t, <2>1, HandedIsHeld DEF PageOf, Remove
        <3> QED
            BY <2>1, <3>1 DEF Remove
    <2>2. CASE HandlerFails(w)
        BY <1>h, <2>2 DEF HandlerFails
    <2>3. CASE PersistFails(w)
        <3>1. m \in doc[w] => Held(m)
            BY <2>3, HandedIsHeld DEF PersistFails
        <3> QED
            BY <2>3, <3>1 DEF PersistFails
    <2>4. CASE WorkerCrash(w)
        <3>1. \A e \in buffer : e[2].type = "DELIVER" /\ e[2].msg = m => Held(m)
            BY DEF Held, InBuffer, Carries
        <3>2. /\ vanished' = vanished \cup
                    {e[2].msg : e \in {f \in {e \in buffer : e[1] = w} : f[2].type = "DELIVER"}}
              /\ UNCHANGED <<erased, parked>>
            BY <2>4 DEF WorkerCrash
        <3> QED
            BY <3>1, <3>2
    <2>5. CASE WriteUserChannel(w) \/ Route(w) \/ Send(w) \/ Commit(w) \/ FindMessages(w)
               \/ RouteMissing(w)
        BY <2>5 DEF WriteUserChannel, Route, Send, Commit, FindMessages, RouteMissing, losses
    <2> QED
        BY <2>1, <2>2, <2>3, <2>4, <2>5
<1> QED
    BY <1>1, <1>2, <1>3, <1>4, <1>5, ProcessorConserved

LEMMA CallbackConserves ==
    ASSUME HandlerInv, NEW e \in buffer, UNCHANGED connectorVars,
           Delivered(e) \/ DeliveryFailed(e), NEW m \in Message
    PROVE  Conserved(m)
<1>t. ProcessorTypes
    BY DEF HandlerInv
<1>1. /\ buffer' = buffer \ {e} /\ UNCHANGED <<incoming, job, handled, erased>>
      /\ outgoing' \subseteq outgoing \cup {e[2]}
      /\ parked' = parked \/ (parked' = parked \cup {e[2]})
      /\ \/ vanished' = vanished
         \/ e[2].type = "DELIVER" /\ vanished' = vanished \cup {e[2].msg}
    BY DEF Delivered, DeliveryFailed, thread, losses, topics
<1>2. Carries(e[2], m) => Held(m)
    BY DEF Held, InBuffer
<1>3. \A p \in incoming' \cup outgoing' : Carries(p, m) => Held(m)
    BY <1>1, <1>2 DEF Held, InTopics
<1>4. \A f \in buffer' : Carries(f[2], m) => Held(m)
    BY <1>1 DEF Held, InBuffer
<1>5. InStore(m)' => Held(m)
    <2>1. CASE e[2].type = "DELIVER" /\ PersistMessage(e[2].msg, "NETWORK_ERROR")
        <3>1. e[2].msg = m => Held(m)
            BY <1>2, <2>1 DEF Carries
        <3> QED
            BY <1>t, <2>1, <3>1, PersistConserves
    <2>2. CASE UNCHANGED store
        BY <2>2 DEF Held, InStore
    <2> QED
        BY <2>1, <2>2 DEF Delivered, DeliveryFailed
<1>6. \A w \in Worker : \A p \in job'[w] \cup handled'[w] : Carries(p, m) => Held(m)
    BY <1>1 DEF Held, InHands
<1>7. vanished \subseteq vanished' /\ (m \in vanished' \ vanished => Held(m))
    BY <1>1, <1>2 DEF Carries
<1> QED
    BY <1>1, <1>2, <1>3, <1>4, <1>5, <1>6, <1>7, ProcessorConserved

LEMMA ProcessorConserves ==
    ASSUME HandlerInv, TopicTypes, HandedInv, ProcessorNext, UNCHANGED connectorVars,
           NEW m \in Message, m.type = "MESSAGE"
    PROVE  Conserved(m)
<1>1. ASSUME NEW w \in Worker, WorkerThread(w) PROVE Conserved(m)
    BY <1>1, StartConserves, WorkConserves DEF WorkerThread
<1>2. ASSUME NEW w \in Worker, HandlerFails(w) \/ PersistFails(w) \/ WorkerCrash(w)
      PROVE  Conserved(m)
    BY <1>2, WorkConserves
<1> QED
    BY <1>1, <1>2, StartConserves, CallbackConserves DEF ProcessorNext
-----------------------------------------------------------------------------
\* What a step of the connectors has to show for that.
LEMMA ConnectorConserved ==
    ASSUME NEW m, UNCHANGED processorVars,
           \A p \in incoming' \cup outgoing' : Carries(p, m) => Held(m),
           \A c \in Connector : \A p \in packet'[c] \cup consumed'[c] : Carries(p, m) => Held(m),
           \A e \in writes' : e[1] = m => Held(m),
           unsent \subseteq unsent', dropped \subseteq dropped',
           \A p \in unsent' \ unsent : Carries(p, m) => Held(m),
           m \in dropped' \ dropped => Held(m)
    PROVE  Conserved(m)
<1>1. UNCHANGED <<job, handled, buffer, store, parked, vanished, erased>>
    BY DEF processorVars
<1>2. Held(m)' => Held(m)
    BY <1>1 DEF Held, InTopics, InBuffer, InWrites, InStore, InHands, Carries
<1>3. Forgotten(m) => Forgotten(m)'
    BY <1>1 DEF Forgotten, Carries
<1>4. Forgotten(m)' => Forgotten(m) \/ Held(m)
    BY <1>1 DEF Forgotten, Carries
<1> QED
    BY <1>2, <1>3, <1>4 DEF Conserved

\* A producer is given nothing, or something that carries m only if the domain
\* holds m.
Harmless(m) ==
    \/ UNCHANGED <<incoming, unsent>>
    \/ \E P : DeliverMessage(P) /\ \A p \in P : Carries(p, m) => Held(m)

LEMMA HarmlessConserves ==
    ASSUME NEW m, Harmless(m)
    PROVE  /\ \A p \in incoming' : Carries(p, m) => Held(m)
           /\ unsent \subseteq unsent'
           /\ \A p \in unsent' \ unsent : Carries(p, m) => Held(m)
BY DEF Harmless, DeliverMessage, Held, InTopics

\* The packets that carry no message.
LEMMA PlainPackets ==
    ASSUME NEW m, NEW u, NEW a
    PROVE  /\ ~Carries(AuthClient(u, a), m) /\ ~Carries(UserConnected(u, a), m)
           /\ ~Carries(UserDisconnected(u, a), m) /\ ~Carries(FetchRequest(u), m)
           /\ ~Carries(CloseRequest(a, u), m)
           /\ \A n : ~Carries(MessageStateChanged(n, a, "PROCESSED"), m)
BY DEF Carries, AuthClient, UserConnected, UserDisconnected, FetchRequest, CloseRequest,
   MessageStateChanged

\* A client's request that hands no new message over.
LEMMA RequestsAreHarmless ==
    ASSUME NEW a \in Address, ProcessDefault(a), UNCHANGED accepted, accepted \subseteq Payload,
           NEW m
    PROVE  Harmless(m)
<1>1. PICK u, v : DeliverMessage({FetchRequest(u)}) \/ DeliverMessage({CloseRequest(u, v)})
    BY DEF ProcessDefault
<1>2. ASSUME NEW p, DeliverMessage({p}), ~Carries(p, m) PROVE Harmless(m)
    <2>1. \A q \in {p} : Carries(q, m) => Held(m)
        BY <1>2
    <2> QED
        BY <1>2, <2>1 DEF Harmless
<1>3. ~Carries(FetchRequest(u), m) /\ ~Carries(CloseRequest(u, v), m)
    BY PlainPackets
<1> QED
    BY <1>1, <1>2, <1>3

\* The steps that neither take a packet nor write one out.
LEMMA SocketsConserve ==
    ASSUME UNCHANGED processorVars, UNCHANGED accepted, accepted \subseteq Payload,
           ConnectorTypeOK,
           \/ \E c \in Connector : \/ InitChannel(c) \/ AdmitUser(c) \/ AuthorizeUser(c)
                                  \/ RejectUser(c) \/ CommitPacket(c)
           \/ \E a \in Address : EventLoop(a) \/ ProcessDefault(a) \/ PeerCloses(a)
           \/ \E a \in Address, u \in User : ProcessAuthClient(a, u),
           NEW m
    PROVE  Conserved(m)
<1>1. Harmless(m)
    <2>1. ASSUME NEW c \in Connector, AuthorizeUser(c) PROVE Harmless(m)
        <3>1. PICK u, a : DeliverMessage({UserConnected(u, a)})
            BY <2>1 DEF AuthorizeUser
        <3> QED
            BY <3>1, PlainPackets DEF Harmless
    <2>2. ASSUME NEW a \in Address, HandlerRemoved(a) PROVE Harmless(m)
        <3>1. \/ UNCHANGED <<incoming, unsent>>
              \/ DeliverMessage({UserDisconnected(userId[a], a)})
            BY <2>2 DEF HandlerRemoved, Deregister
        <3> QED
            BY <3>1, PlainPackets DEF Harmless
    <2>3. ASSUME NEW a \in Address, NEW u \in User, ProcessAuthClient(a, u) PROVE Harmless(m)
        <3>1. DeliverMessage({AuthClient(u, a)})
            BY <2>3 DEF ProcessAuthClient
        <3> QED
            BY <3>1, PlainPackets DEF Harmless
    <2>4. ASSUME \/ \E c \in Connector : \/ InitChannel(c) \/ AdmitUser(c)
                                        \/ RejectUser(c) \/ CommitPacket(c)
                 \/ \E a \in Address : AuthTimeout(a) \/ CloseRejected(a) \/ PeerCloses(a)
          PROVE  UNCHANGED <<incoming, unsent>>
        BY <2>4 DEF InitChannel, AdmitUser, RejectUser, CommitPacket, AuthTimeout,
           CloseRejected, PeerCloses, topics
    <2> QED
        BY <2>1, <2>2, <2>3, <2>4, RequestsAreHarmless DEF EventLoop, Harmless
<1>2. /\ UNCHANGED <<outgoing, writes, dropped>>
      /\ packet' = packet \/ \E c \in Connector : packet' = [packet EXCEPT ![c] = {}]
    BY DEF InitChannel, AdmitUser, AuthorizeUser, RejectUser, CommitPacket, EventLoop,
       AuthTimeout, CloseRejected, HandlerRemoved, ProcessDefault, PeerCloses,
       ProcessAuthClient, consumer, topics
<1>3. \A c \in Connector : \A p \in packet'[c] \cup consumed'[c] : Carries(p, m) => Held(m)
    <2>1. \A c \in Connector : packet'[c] \subseteq packet[c]
        BY <1>2 DEF ConnectorTypeOK
    <2>2. \A c \in Connector : consumed'[c] \subseteq consumed[c] \cup packet[c]
        BY ConsumedComes DEF ConnectorNext, ConsumerThread
    <2> QED
        BY <2>1, <2>2 DEF Held, InHands
<1>4. /\ \A p \in incoming' \cup outgoing' : Carries(p, m) => Held(m)
      /\ \A e \in writes' : e[1] = m => Held(m)
    BY <1>1, <1>2, HarmlessConserves DEF Held, InTopics, InWrites
<1> QED
    BY <1>1, <1>2, <1>3, <1>4, HarmlessConserves, ConnectorConserved

\* A consumer writes or reports the message it took.
LEMMA TakeConserves ==
    ASSUME ConnectorTypeOK, UNCHANGED processorVars, NEW c \in Connector,
           \/ TakeAuthClientReply(c) \/ TakeDelivery(c) \/ TakeCloseConnection(c)
           \/ TakeThrows(c) \/ ProcessFast(c),
           NEW m
    PROVE  Conserved(m)
<1>1. PICK p \in outgoing :
          /\ outgoing' = outgoing \ {p}
          /\ packet' = packet \/ packet' = [packet EXCEPT ![c] = {p}]
          /\ UNCHANGED <<consumed, dropped>>
          /\ \/ UNCHANGED <<incoming, unsent, writes>>
             \/ /\ p.type = "DELIVER" \/ IsFast(p)
                /\ \/ ProcessDelivery(p.msg, p.addr)
                   \/ /\ DeliverMessage({MessageStateChanged(p.msg, p.addr, "CONNECTOR_ERROR")})
                      /\ UNCHANGED writes
    <2>1. CASE TakeAuthClientReply(c)
        BY <2>1 DEF TakeAuthClientReply, Take
    <2>2. CASE TakeDelivery(c)
        BY <2>2 DEF TakeDelivery, Take
    <2>3. CASE TakeCloseConnection(c)
        BY <2>3 DEF TakeCloseConnection, Take
    <2>4. CASE TakeThrows(c)
        BY <2>4 DEF TakeThrows, Take
    <2>5. CASE ProcessFast(c)
        BY <2>5 DEF ProcessFast, consumer
    <2> QED
        BY <2>1, <2>2, <2>3, <2>4, <2>5
<1>2. Carries(p, m) => Held(m)
    BY DEF Held, InTopics
<1>3. p.type = "DELIVER" \/ IsFast(p) => (p.msg = m => Held(m))
    <2>1. p.type = "DELIVER" \/ IsFast(p) => p.type = "DELIVER"
        BY DEF IsFast, ConnectorTypeOK, OutgoingPacket
    <2> QED
        BY <1>2, <2>1 DEF Carries
<1>4. /\ Harmless(m)
      /\ \/ UNCHANGED writes
         \/ writes' = writes \cup {<<p.msg, p.addr>>} /\ (p.msg = m => Held(m))
    <2>1. \A s : p.type = "DELIVER" \/ IsFast(p) =>
              (Carries(MessageStateChanged(p.msg, p.addr, s), m) => Held(m))
        BY <1>3 DEF Carries, MessageStateChanged
    <2>2. CASE UNCHANGED <<incoming, unsent, writes>>
        BY <2>2 DEF Harmless
    <2>3. CASE /\ p.type = "DELIVER" \/ IsFast(p)
               /\ DeliverMessage({MessageStateChanged(p.msg, p.addr, "CONNECTOR_ERROR")})
               /\ UNCHANGED writes
        BY <2>1, <2>3 DEF Harmless
    <2>4. CASE (p.type = "DELIVER" \/ IsFast(p)) /\ ProcessDelivery(p.msg, p.addr)
        <3>1. \/ UNCHANGED <<incoming, unsent>> /\ UNCHANGED writes
              \/ UNCHANGED <<incoming, unsent>> /\ writes' = writes \cup {<<p.msg, p.addr>>}
              \/ /\ DeliverMessage({MessageStateChanged(p.msg, p.addr, "ADDRESS_NOT_FOUND")})
                 /\ UNCHANGED writes
            BY <2>4 DEF ProcessDelivery
        <3> QED
            BY <1>3, <2>1, <2>4, <3>1 DEF Harmless
    <2> QED
        BY <1>1, <2>2, <2>3, <2>4
<1>5. \A d \in Connector : \A q \in packet'[d] \cup consumed'[d] : Carries(q, m) => Held(m)
    <2>1. \A d \in Connector : packet'[d] \subseteq packet[d] \cup {p}
        BY <1>1 DEF ConnectorTypeOK
    <2> QED
        BY <1>1, <1>2, <2>1 DEF Held, InHands
<1>6. /\ \A q \in incoming' \cup outgoing' : Carries(q, m) => Held(m)
      /\ \A e \in writes' : e[1] = m => Held(m)
    BY <1>1, <1>4, HarmlessConserves DEF Held, InTopics, InWrites
<1> QED
    BY <1>1, <1>4, <1>5, <1>6, HarmlessConserves, ConnectorConserved

\* The listener of a write.
LEMMA WriteConserves ==
    ASSUME UNCHANGED processorVars, NEW n, NEW a, WriteSucceeds(n, a) \/ WriteFails(n, a), NEW m
    PROVE  Conserved(m)
<1>1. /\ <<n, a>> \in writes /\ writes' = writes \ {<<n, a>>}
      /\ UNCHANGED <<outgoing, packet, consumed, dropped>>
      /\ \E success \in BOOLEAN : DeliverMessage(StateReport(n, a, success))
    BY DEF WriteSucceeds, WriteFails, consumer
<1>2. n = m => Held(m)
    BY <1>1 DEF Held, InWrites
<1>3. \A success \in BOOLEAN : \A p \in StateReport(n, a, success) : Carries(p, m) => Held(m)
    BY <1>2 DEF StateReport, Carries, MessageStateChanged
<1>4. Harmless(m)
    BY <1>1, <1>3 DEF Harmless
<1>5. /\ \A p \in incoming' \cup outgoing' : Carries(p, m) => Held(m)
      /\ \A c \in Connector : \A p \in packet'[c] \cup consumed'[c] : Carries(p, m) => Held(m)
      /\ \A e \in writes' : e[1] = m => Held(m)
    BY <1>1, <1>4, HarmlessConserves DEF Held, InTopics, InWrites, InHands
<1> QED
    BY <1>1, <1>4, <1>5, HarmlessConserves, ConnectorConserved

LEMMA CrashConserves ==
    ASSUME ConnectorTypeOK, UNCHANGED processorVars, NEW c \in Connector, CrashRestart(c), NEW m
    PROVE  Conserved(m)
<1>1. /\ UNCHANGED <<incoming, unsent>>
      /\ outgoing' = outgoing \cup packet[c] \cup consumed[c]
      /\ writes' \subseteq writes
      /\ dropped' = dropped \cup {e[1] : e \in {f \in writes : ConnectorOf(f[2]) = c}}
      /\ packet' = [packet EXCEPT ![c] = {}] /\ consumed' = [consumed EXCEPT ![c] = {}]
    BY DEF CrashRestart
<1>2. \A d \in Connector : \A p \in packet[d] \cup consumed[d] : Carries(p, m) => Held(m)
    BY DEF Held, InHands
<1>3. \A e \in writes : e[1] = m => Held(m)
    BY DEF Held, InWrites
<1>4. /\ \A p \in incoming' \cup outgoing' : Carries(p, m) => Held(m)
      /\ \A d \in Connector : \A p \in packet'[d] \cup consumed'[d] : Carries(p, m) => Held(m)
    BY <1>1, <1>2 DEF ConnectorTypeOK, Held, InTopics
<1>5. m \in dropped' \ dropped => Held(m)
    BY <1>1, <1>3
<1> QED
    BY <1>1, <1>3, <1>4, <1>5, ConnectorConserved
-----------------------------------------------------------------------------
\* What the domain holds was handed over.
HeldInv == \A x \in Payload : Held(AppMessage(x)) => x \in accepted

\* Different payloads make different messages, and none is a confirmation.
LEMMA MessagesDiffer ==
    /\ \A x \in Payload : AppMessage(x) \in Message /\ AppMessage(x).type = "MESSAGE"
                          /\ AppMessage(x).to = To[x] /\ Confirmation(x).to = From[x]
    /\ \A x, y : AppMessage(x) = AppMessage(y) => x = y
    /\ \A x, y : Confirmation(x) = Confirmation(y) => x = y
    /\ \A x, y : AppMessage(x) # Confirmation(y)
<1>1. \A x \in Payload : AppMessage(x) \in Message
    BY DEF Message, AppMessages
<1> QED
    BY <1>1 DEF AppMessage, Confirmation, Msg

\* A client hands the message of x over.
Accepting(x) ==
    /\ x \in Payload \ accepted /\ accepted' = accepted \cup {x}
    /\ DeliverMessage({MessageRequest(AppMessage(x))})
    /\ UNCHANGED <<outgoing, writes, packet, consumed, written, dropped>>

LEMMA AcceptedIsHeld ==
    ASSUME UNCHANGED processorVars, NEW x, Accepting(x)
    PROVE  \/ \A m : /\ Held(m)' <=> Held(m) \/ m = AppMessage(x)
                     /\ Forgotten(m)' <=> Forgotten(m)
           \/ \A m : /\ Held(m)' <=> Held(m)
                     /\ Forgotten(m)' <=> Forgotten(m) \/ m = AppMessage(x)
<1> DEFINE p == MessageRequest(AppMessage(x))
<1>1. \A m : Carries(p, m) <=> m = AppMessage(x)
    BY DEF Carries, MessageRequest
<1>2. UNCHANGED <<job, handled, buffer, store, parked, vanished, erased>>
    BY DEF processorVars
<1> HIDE DEF p
<1>3. CASE incoming' = incoming \cup {p} /\ UNCHANGED unsent
    <2>1. ASSUME NEW m PROVE /\ Held(m)' <=> Held(m) \/ m = AppMessage(x)
                             /\ Forgotten(m)' <=> Forgotten(m)
        <3>1. InTopics(m)' <=> InTopics(m) \/ m = AppMessage(x)
            BY <1>1, <1>3 DEF Accepting, InTopics, Carries
        <3>2. /\ InBuffer(m)' <=> InBuffer(m)
              /\ InWrites(m)' <=> InWrites(m)
              /\ InStore(m)' <=> InStore(m)
              /\ InHands(m)' <=> InHands(m)
            BY <1>2 DEF Accepting, InBuffer, InWrites, InStore, InHands, Carries
        <3>3. Forgotten(m)' <=> Forgotten(m)
            BY <1>2, <1>3 DEF Accepting, Forgotten, Carries
        <3> QED
            BY <3>1, <3>2, <3>3 DEF Held
    <2> QED
        BY <2>1
<1>4. CASE unsent' = unsent \cup {p} /\ UNCHANGED incoming
    <2>1. ASSUME NEW m PROVE /\ Held(m)' <=> Held(m)
                             /\ Forgotten(m)' <=> Forgotten(m) \/ m = AppMessage(x)
        <3>1. InTopics(m)' <=> InTopics(m)
            BY <1>4 DEF Accepting, InTopics, Carries
        <3>2. /\ InBuffer(m)' <=> InBuffer(m)
              /\ InWrites(m)' <=> InWrites(m)
              /\ InStore(m)' <=> InStore(m)
              /\ InHands(m)' <=> InHands(m)
            BY <1>2 DEF Accepting, InBuffer, InWrites, InStore, InHands, Carries
        <3>3. Forgotten(m)' <=> Forgotten(m) \/ m = AppMessage(x)
            BY <1>1, <1>2, <1>4 DEF Accepting, Forgotten, Carries
        <3> QED
            BY <3>1, <3>2, <3>3 DEF Held
    <2> QED
        BY <2>1
<1>5. \/ incoming' = incoming \cup {p} /\ UNCHANGED unsent
      \/ unsent' = unsent \cup {p} /\ UNCHANGED incoming
    BY DEF Accepting, DeliverMessage, p
<1> QED
    BY <1>3, <1>4, <1>5

\* A write that is done may take the last copy of its message, and no other;
\* its report brings none back.
LEMMA WrittenIsLetGo ==
    ASSUME UNCHANGED processorVars, NEW n, NEW a, WriteSucceeds(n, a)
    PROVE  /\ Held(n)
           /\ \A m : /\ Held(m)' => Held(m)
                     /\ m # n => (Held(m)' <=> Held(m))
                     /\ Forgotten(m)' <=> Forgotten(m)
<1>1. /\ <<n, a>> \in writes /\ writes' = writes \ {<<n, a>>}
      /\ DeliverMessage(StateReport(n, a, TRUE))
      /\ UNCHANGED <<outgoing, packet, consumed, dropped>>
    BY DEF WriteSucceeds, consumer
<1>2. UNCHANGED <<job, handled, buffer, store, parked, vanished, erased>>
    BY DEF processorVars
<1>3. \A p \in StateReport(n, a, TRUE) : \A m : ~Carries(p, m)
    <2>1. \A m : ~Carries(MessageStateChanged(n, a, "PROCESSED"), m)
        BY PlainPackets
    <2>2. \A p \in StateReport(n, a, TRUE) : p = MessageStateChanged(n, a, "PROCESSED")
        BY DEF StateReport
    <2> QED
        BY <2>1, <2>2
<1>4. ASSUME NEW m
      PROVE  /\ InTopics(m)' <=> InTopics(m)
             /\ Forgotten(m)' <=> Forgotten(m)
    <2>1. CASE incoming' = incoming \cup StateReport(n, a, TRUE) /\ UNCHANGED unsent
        BY <1>1, <1>2, <1>3, <2>1 DEF InTopics, Forgotten, Carries
    <2>2. CASE unsent' = unsent \cup StateReport(n, a, TRUE) /\ UNCHANGED incoming
        BY <1>1, <1>2, <1>3, <2>2 DEF InTopics, Forgotten, Carries
    <2> QED
        BY <1>1, <2>1, <2>2 DEF DeliverMessage
<1>5. ASSUME NEW m
      PROVE  /\ InBuffer(m)' <=> InBuffer(m)
             /\ InStore(m)' <=> InStore(m)
             /\ InHands(m)' <=> InHands(m)
             /\ InWrites(m)' => InWrites(m)
             /\ m # n => (InWrites(m)' <=> InWrites(m))
    BY <1>1, <1>2 DEF InBuffer, InStore, InHands, InWrites, Carries
<1>6. Held(n)
    BY <1>1 DEF Held, InWrites
<1> QED
    BY <1>4, <1>5, <1>6 DEF Held

\* All other steps of the connectors.
LEMMA ConnectorConserves ==
    ASSUME ConnectorTypeOK, ConnectorNext, UNCHANGED processorVars,
           ~\E x : Accepting(x), ~\E e \in writes : WriteSucceeds(e[1], e[2])
    PROVE  UNCHANGED <<accepted, written>> /\ \A m : Conserved(m)
<1>a. accepted \subseteq Payload
    BY DEF ConnectorTypeOK
<1>1. ASSUME NEW a \in Address, ProcessDefault(a)
      PROVE  UNCHANGED accepted
    <2>1. ASSUME NEW x \in Payload \ accepted, accepted' = accepted \cup {x},
                 DeliverMessage({MessageRequest(AppMessage(x))})
          PROVE  Accepting(x)
        BY <1>1, <2>1 DEF ProcessDefault, Accepting, consumer
    <2> QED
        BY <1>1, <2>1 DEF ProcessDefault
<1>2. UNCHANGED accepted
    BY <1>1 DEF ConnectorNext, ConsumerThread, InitChannel, TakeAuthClientReply, AdmitUser,
       AuthorizeUser, RejectUser, TakeDelivery, TakeCloseConnection, CommitPacket,
       ProcessFast, TakeThrows, CrashRestart, EventLoop, AuthTimeout, CloseRejected,
       HandlerRemoved, PeerCloses, ProcessAuthClient, ExecuteWrite, WriteSucceeds,
       WriteFails, requests
<1>3. UNCHANGED written
    BY DEF ConnectorNext, ConsumerThread, InitChannel, TakeAuthClientReply, AdmitUser,
       AuthorizeUser, RejectUser, TakeDelivery, TakeCloseConnection, CommitPacket,
       ProcessFast, TakeThrows, CrashRestart, EventLoop, AuthTimeout, CloseRejected,
       HandlerRemoved, PeerCloses, ProcessAuthClient, ProcessDefault, ExecuteWrite, WriteFails
<1>4. ASSUME NEW m PROVE Conserved(m)
    <2>1. ASSUME NEW c \in Connector,
                 \/ InitChannel(c) \/ ConsumerThread(c) \/ ProcessFast(c) \/ TakeThrows(c)
                 \/ CrashRestart(c)
          PROVE  Conserved(m)
        BY <1>a, <1>2, <2>1, SocketsConserve, TakeConserves, CrashConserves DEF ConsumerThread
    <2>2. ASSUME NEW a \in Address,
                 \/ EventLoop(a) \/ ProcessDefault(a) \/ PeerCloses(a)
                 \/ \E u \in User : ProcessAuthClient(a, u)
          PROVE  Conserved(m)
        BY <1>a, <1>2, <2>2, SocketsConserve
    <2>3. ASSUME ExecuteWrite PROVE Conserved(m)
        BY <2>3, WriteConserves DEF ExecuteWrite
    <2> QED
        BY <2>1, <2>2, <2>3 DEF ConnectorNext
<1> QED
    BY <1>2, <1>3, <1>4
-----------------------------------------------------------------------------
\* What was written to a user was written to its addressee.
LEMMA WrittenTo ==
    ASSUME ConnectorTypeOK, NoMisdelivery, NEW x \in Payload, Written(AppMessage(x))
    PROVE  <<AppMessage(x), To[x]>> \in written
<1>1. PICK e \in written : e[1] = AppMessage(x)
    BY DEF Written
<1>2. e = <<e[1], e[2]>>
    BY DEF ConnectorTypeOK
<1>3. e[2] = To[x]
    BY <1>1, MessagesDiffer DEF NoMisdelivery
<1> QED
    BY <1>1, <1>2, <1>3

\* What the domain lets go of is accounted for.
LEMMA LetGoStep ==
    ASSUME HeldInv, ConnectorTypeOK, NoMisdelivery, ReliableMessageAccounted',
           UNCHANGED <<accepted, written>>,
           \A x \in Payload : Conserved(AppMessage(x))
    PROVE  Service!MSLetGo
<1> DEFINE H == {x \in Payload : Held(AppMessage(x))}
           F == {x \in Payload : Forgotten(AppMessage(x))' /\ ~Forgotten(AppMessage(x))}
           L == {x \in Payload : Held(AppMessage(x)) /\ ~Held(AppMessage(x))'}
<1>1. F \subseteq H /\ L \subseteq H
    BY DEF Conserved
<1>2. {x \in Payload : Forgotten(AppMessage(x))}' = {x \in Payload : Forgotten(AppMessage(x))} \cup F
    BY DEF Conserved
<1>3. {x \in Payload : Held(AppMessage(x))}' = H \ L
    BY DEF Conserved
<1>4. ASSUME NEW x \in L \cap Reliable
      PROVE  <<AppMessage(x), To[x]>> \in written \/ Forgotten(AppMessage(x))'
    <2>1. x \in accepted' \cap Reliable
        BY DEF HeldInv
    <2>2. Written(AppMessage(x))' \/ Forgotten(AppMessage(x))'
        BY <2>1 DEF ReliableMessageAccounted, Held, AtWorker, InHands
    <2>3. Written(AppMessage(x)) => <<AppMessage(x), To[x]>> \in written
        BY WrittenTo
    <2> QED
        BY <2>2, <2>3 DEF Written
<1>5. L \cap Reliable \subseteq {x \in Payload : <<AppMessage(x), To[x]>> \in written}
                                \cup {x \in Payload : Forgotten(AppMessage(x))}'
    BY <1>4
<1> QED
    BY <1>1, <1>2, <1>3, <1>5 DEF Service!MSLetGo

\* A message handed over becomes held, or is forgotten at once.
LEMMA AcceptStep ==
    ASSUME UNCHANGED processorVars, NEW x, Accepting(x)
    PROVE  /\ x \in Payload /\ Service!MSAccept(x)
           /\ HeldInv => HeldInv'
<1> DEFINE H == {y \in Payload : Held(AppMessage(y))}
           G == {y \in Payload : Forgotten(AppMessage(y))}
<1>1. x \in Payload \ accepted /\ accepted' = accepted \cup {x} /\ UNCHANGED written
    BY DEF Accepting
<1>2. \A y : AppMessage(y) = AppMessage(x) <=> y = x
    BY MessagesDiffer
<1>3. \/ H' = H \cup {x} /\ G' = G
      \/ H' = H /\ G' = G \cup {x}
    <2>1. CASE \A m : /\ Held(m)' <=> Held(m) \/ m = AppMessage(x)
                      /\ Forgotten(m)' <=> Forgotten(m)
        BY <1>1, <1>2, <2>1
    <2>2. CASE \A m : /\ Held(m)' <=> Held(m)
                      /\ Forgotten(m)' <=> Forgotten(m) \/ m = AppMessage(x)
        BY <1>1, <1>2, <2>2
    <2> QED
        BY <2>1, <2>2, AcceptedIsHeld
<1>4. Service!MSAccept(x)
    BY <1>1, <1>3 DEF Service!MSAccept
<1>5. HeldInv => HeldInv'
    BY <1>1, <1>3 DEF HeldInv
<1> QED
    BY <1>1, <1>4, <1>5

\* A write delivers a message, tells a sender of a delivery, or is none of the
\* clients' messages.
LEMMA WriteStep ==
    ASSUME ConnectorTypeOK, NoMisdelivery', ConfirmInv, UNCHANGED processorVars,
           NEW e \in writes, WriteSucceeds(e[1], e[2])
    PROVE  /\ \/ \E x \in Payload : Service!MSDeliver(x) \/ Service!MSConfirm(x)
              \/ UNCHANGED Service!msVars
           /\ HeldInv => HeldInv'
<1> DEFINE n == e[1]
           H == {y \in Payload : Held(AppMessage(y))}
           G == {y \in Payload : Forgotten(AppMessage(y))}
           D == {y \in Payload : <<AppMessage(y), To[y]>> \in written}
           C == {y \in Payload : <<Confirmation(y), From[y]>> \in written}
<1>1. Held(n) /\ \A m : /\ Held(m)' => Held(m)
                        /\ m # n => (Held(m)' <=> Held(m))
                        /\ Forgotten(m)' <=> Forgotten(m)
    BY WrittenIsLetGo
<1>2. UNCHANGED accepted /\ written' = written \cup {<<n, n.to>>}
    <2>1. UNCHANGED accepted /\ written' = written \cup {<<n, userId[e[2]]>>}
        BY DEF WriteSucceeds, requests
    <2>2. userId[e[2]] = n.to
        <3>1. <<n, userId[e[2]]>> \in written'
            BY <2>1
        <3>2. \A w \in written' : w[2] = w[1].to
            BY DEF NoMisdelivery
        <3> QED
            BY <3>1, <3>2
    <2> QED
        BY <2>1, <2>2
<1> HIDE DEF n
<1>3. G' = G
    BY <1>1
<1>4. HeldInv => HeldInv'
    BY <1>1, <1>2 DEF HeldInv
<1>5. ASSUME NEW x \in Payload, n = AppMessage(x)
      PROVE  Service!MSDeliver(x)
    <2>1. x \in H
        BY <1>1, <1>5
    <2>2. H' = H \/ H' = H \ {x}
        <3>1. \A y \in Payload \ {x} : Held(AppMessage(y))' <=> Held(AppMessage(y))
            BY <1>1, <1>5, MessagesDiffer
        <3> QED
            BY <1>1, <3>1
    <2>3. D' = D \cup {x}
        BY <1>2, <1>5, MessagesDiffer
    <2>4. C' = C
        BY <1>2, <1>5, MessagesDiffer
    <2> QED
        BY <1>2, <1>3, <2>1, <2>2, <2>3, <2>4 DEF Service!MSDeliver
<1>6. ASSUME \A x \in Payload : n # AppMessage(x)
      PROVE  H' = H /\ D' = D
    <2>1. \A x \in Payload : Held(AppMessage(x))' <=> Held(AppMessage(x))
        BY <1>1, <1>6
    <2> QED
        BY <1>2, <1>6, <2>1
<1>7. ASSUME NEW x \in Payload, n = Confirmation(x)
      PROVE  Service!MSConfirm(x)
    <2>1. x \in Confirmed /\ x \in D
        BY <1>7 DEF ConfirmInv, Good, n
    <2>2. C' = C \cup {x}
        BY <1>2, <1>7, MessagesDiffer
    <2>3. H' = H /\ D' = D
        BY <1>6, <1>7, MessagesDiffer
    <2> QED
        BY <1>2, <1>3, <2>1, <2>2, <2>3 DEF Service!MSConfirm
<1>8. ASSUME \A x \in Payload : n # AppMessage(x) /\ n # Confirmation(x)
      PROVE  UNCHANGED Service!msVars
    <2>1. C' = C
        BY <1>2, <1>8
    <2>2. H' = H /\ D' = D
        BY <1>6, <1>8
    <2> QED
        BY <1>2, <1>3, <2>1, <2>2 DEF Service!msVars
<1> QED
    BY <1>4, <1>5, <1>7, <1>8

\* What a domain needs to know about itself to be a message service.
ServiceInv == Inv /\ NoMisdelivery /\ ReliableMessageAccounted /\ ConfirmInv

LEMMA ServiceStep ==
    ASSUME ServiceInv, ServiceInv', HandedInv, HeldInv, [Next]_vars
    PROVE  HandedInv' /\ HeldInv' /\ [Service!MSNext]_(Service!msVars)
<1>t. ConnectorTypeOK /\ TopicTypes /\ HandlerInv
    BY TopicsAreTyped DEF ServiceInv, Inv
<1>n. ReliableMessageAccounted' /\ NoMisdelivery /\ NoMisdelivery'
    BY DEF ServiceInv, Inv
<1>m. \A x \in Payload : AppMessage(x) \in Message /\ AppMessage(x).type = "MESSAGE"
    BY MessagesDiffer
<1>c. ASSUME UNCHANGED <<accepted, written>>, \A x \in Payload : Conserved(AppMessage(x))
      PROVE  HeldInv' /\ Service!MSNext
    <2>1. HeldInv'
        BY <1>c DEF HeldInv, Conserved
    <2>2. Service!MSLetGo
        BY <1>c, <1>t, <1>n, LetGoStep
    <2> QED
        BY <2>1, <2>2 DEF Service!MSNext
<1>1. CASE ConnectorNext /\ UNCHANGED processorVars
    <2>1. HandedInv'
        BY <1>1 DEF processorVars, HandedInv, Handed, PageStored, InStore, Carries
    <2>2. CASE \E x : Accepting(x)
        BY <1>1, <2>1, <2>2, AcceptStep DEF Service!MSNext
    <2>3. CASE \E e \in writes : WriteSucceeds(e[1], e[2])
        BY <1>1, <1>t, <1>n, <2>1, <2>3, WriteStep DEF Service!MSNext, ServiceInv
    <2>4. CASE ~(\E x : Accepting(x)) /\ ~(\E e \in writes : WriteSucceeds(e[1], e[2]))
        BY <1>1, <1>t, <1>c, <2>1, <2>4, ConnectorConserves
    <2> QED
        BY <2>2, <2>3, <2>4
<1>2. CASE ProcessorNext /\ UNCHANGED connectorVars
    <2>1. HandedInv'
        BY <1>2, <1>t, ProcessorHands
    <2>2. UNCHANGED <<accepted, written>>
        BY <1>2 DEF connectorVars
    <2> QED
        BY <1>2, <1>t, <1>m, <1>c, <2>1, <2>2, ProcessorConserves
<1>3. CASE UNCHANGED vars
    <2>1. UNCHANGED connectorVars /\ UNCHANGED processorVars /\ UNCHANGED topics
        BY <1>3 DEF vars
    <2>2. HandedInv'
        BY <2>1 DEF processorVars, HandedInv, Handed, PageStored, InStore, Carries
    <2>3. UNCHANGED <<accepted, written>> /\ \A m : Conserved(m)
        BY <2>1 DEF Conserved, Held, Forgotten, InTopics, InBuffer, InWrites, InStore,
           InHands, Carries, connectorVars, processorVars, topics
    <2> QED
        BY <1>c, <2>2, <2>3
<1> QED
    BY <1>1, <1>2, <1>3 DEF Next

LEMMA ServiceInit == Init => Service!MSInit /\ HandedInv /\ HeldInv
<1> SUFFICES ASSUME Init PROVE Service!MSInit /\ HandedInv /\ HeldInv
    OBVIOUS
<1>1. HandedInv
    BY DEF Init, ProcessorInit, HandedInv, Handed, PageStored
<1>2. ASSUME NEW x \in Payload PROVE ~Held(AppMessage(x)) /\ ~Forgotten(AppMessage(x))
    BY MessagesDiffer DEF Init, ConnectorInit, ProcessorInit, Held, Forgotten, InTopics,
       InBuffer, InWrites, InStore, InHands
<1>3. written = {} /\ accepted = {}
    BY DEF Init, ConnectorInit
<1> QED
    BY <1>1, <1>2, <1>3 DEF HeldInv, Service!MSInit

\* A domain of any size is a message service to its clients, whatever crashes,
\* fails, is repeated or reordered: it delivers and confirms what was handed
\* over, once let go no message comes back, and the only ways to let go of a
\* RELIABLE message undelivered are the leaks that Forgotten names.
THEOREM DomainIsMessageService == Spec => ImplementsService
<1>1. Spec => []ServiceInv
    <2>1. Inv => NoMisdelivery /\ ReliableMessageAccounted
        BY DEF Inv, RegistryInv, AccountInv
    <2> QED
        BY <2>1, Invariance, ConfirmInvariance, PTL DEF ServiceInv
<1>2. ServiceInv /\ ServiceInv' /\ HandedInv /\ HeldInv /\ [Next]_vars
          => HandedInv' /\ HeldInv' /\ [Service!MSNext]_(Service!msVars)
    BY ServiceStep
<1> QED
    BY <1>1, <1>2, ServiceInit, PTL DEF Spec, ImplementsService, Service!MSSpec
=============================================================================
