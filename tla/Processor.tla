----------------------------- MODULE Processor -----------------------------
(***************************************************************************)
(* The processors of a domain: they register where users are connected,    *)
(* route messages to those addresses, keep in the database what could not  *)
(* be delivered, and hand it out again when a user fetches it.             *)
(*                                                                         *)
(* A worker is one thread that runs MessageProcessorService.process: the   *)
(* Kafka consumer thread or the NATS dispatcher of some processor process. *)
(* Redis (user channels, the fetch lock) and Mongo (stored messages) are   *)
(* shared by all workers and see one operation at a time; what a handler   *)
(* read from Redis it uses later, after others may have written.           *)
(***************************************************************************)
EXTENDS Topics

CONSTANTS
    Worker,            \* the workers of all processor processes
    PageSize,          \* how many messages a client fetches at a time
    MaxWorkerCrashes,  \* bound: crashes of processor processes
    MaxFaults          \* bound: failures of Redis, Mongo and the producer

ASSUME WorkerAssumption == PageSize \in Nat \ {0}

VARIABLES
    userChannel,   \* Redis: the addresses of each user (no record = no address)
    locks,         \* Redis: (user, worker) pairs, the fetch locks held
    store,         \* Mongo: the state of each stored message
    stage,         \* where each worker stands in its handler
    job,           \* the packet it handles, as a set of at most one
    handled,       \* what it handled of a batch that is not committed
    seen,          \* the addresses it read from Redis
    doc,           \* the message it delivers, as a set of at most one
    todo,          \* what is left of the page a fetch found
    buffer         \* (worker, packet): sends the producer has not finished

VARIABLES
    fresh,         \* history: messages saved after the fetch at work read them
    erased,        \* history: messages whose later save a fetch removed
    vanished,      \* history: messages that went with a buffer or a failed save
    parked,        \* history: other packets saved when their handling failed
    workerCrashes, faults    \* budgets spent

redis == <<userChannel, locks>>
thread == <<stage, job, seen, doc, todo>>
losses == <<erased, vanished, parked>>
processorVars ==
    <<userChannel, locks, store, stage, job, handled, seen, doc, todo, buffer,
      fresh, erased, vanished, parked, workerCrashes, faults>>

ErrorState == {"ADDRESS_NOT_FOUND", "NETWORK_ERROR", "PROCESSOR_ERROR",
               "CONNECTOR_ERROR"}
Stage == {"idle", "merge", "route", "send", "lock", "next", "remove", "commit"}

\* What findMessages asks for.
FetchableState == {"ADDRESS_NOT_FOUND", "NETWORK_ERROR"}
Stored == {m \in Message : store[m] # "absent"}

ProcessorInit ==
    /\ userChannel = [u \in User |-> {}]
    /\ locks = {}
    /\ store = [m \in Message |-> "absent"]
    /\ stage = [w \in Worker |-> "idle"]
    /\ job = [w \in Worker |-> {}]
    /\ handled = [w \in Worker |-> {}]
    /\ seen = [w \in Worker |-> {}]
    /\ doc = [w \in Worker |-> {}]
    /\ todo = [w \in Worker |-> {}]
    /\ buffer = {}
    /\ fresh = {} /\ erased = {} /\ vanished = {} /\ parked = {}
    /\ workerCrashes = 0 /\ faults = 0

-----------------------------------------------------------------------------
\* The consumer of worker w hands packet p to its handler.
Start(w, p) ==
    /\ stage[w] = "idle" /\ p \in incoming
    /\ incoming' = incoming \ {p}
    /\ job' = [job EXCEPT ![w] = {p}]

Goto(w, s) == stage' = [stage EXCEPT ![w] = s]

\* Faulty: only undeliverable messages are saved.
PersistUndeliverable(m, state) ==
    IF IsReliable(m) /\ state = "ADDRESS_NOT_FOUND"
    THEN store' = [store EXCEPT ![m] = state] /\ fresh' = fresh \cup {m}
    ELSE UNCHANGED <<store, fresh>>

\* MessageProcessorService.persistMessage.
PersistMessage(m, state) ==
    IF IsReliable(m) /\ state # "PROCESSED"
    THEN /\ store' = [store EXCEPT ![m] = state]
         /\ fresh' = fresh \cup {m}
    ELSE UNCHANGED <<store, fresh>>

\* getRouteTargetAddresses: all addresses of a user, but any one of the master
\* user (adjustDeliveryType).
RouteTargets(m) ==
    IF m.to = Master /\ userChannel[m.to] # {}
    THEN {{a} : a \in userChannel[m.to]}
    ELSE {userChannel[m.to]}

\* AuthClientMessageProcessor: the application's answer is not modelled, and
\* the reply is sent when it arrives, maybe after this packet is committed.
AnswerAuthClient(w) ==
    \E p \in incoming :
        /\ p.type = "AUTH_CLIENT" /\ Start(w, p)
        /\ \E ok \in BOOLEAN :
              buffer' = buffer \cup {<<w, AuthClientReply(p.user, p.addr, ok)>>}
        /\ Goto(w, "commit")
        /\ UNCHANGED <<outgoing, redis, store, seen, doc, todo, fresh, losses, handled,
                       workerCrashes, faults>>

\* addAddress, removeAddress: the read of the user's channel.
ReadUserChannel(w) ==
    \E p \in incoming :
        /\ \/ p.type \in {"USER_CONNECTED", "USER_DISCONNECTED"}
           \/ p.type = "MESSAGE_STATE_CHANGED" /\ p.state = "ADDRESS_NOT_FOUND"
        /\ Start(w, p)
        /\ LET u == IF p.type = "MESSAGE_STATE_CHANGED" THEN p.msg.to ELSE p.user
           IN  seen' = [seen EXCEPT ![w] = userChannel[u]]
        /\ Goto(w, "merge")
        /\ UNCHANGED <<outgoing, redis, store, doc, todo, buffer, fresh, losses,
                       handled, workerCrashes, faults>>

\* sendMessageToMasterUser: the message goes on to the master user, if any.
NotifyMaster(w, type, u, a) ==
    IF Master # NoUser /\ u # Master
    THEN /\ doc' = [doc EXCEPT ![w] = {Notice(type, u, a)}]
         /\ Goto(w, "route")
    ELSE /\ Goto(w, "commit")
         /\ UNCHANGED doc

\* Faulty: the record goes with any of its addresses.
RemovedRecord(u, addresses, a) == [userChannel EXCEPT ![u] = {}]

\* Faulty: the address that was not found is kept.
RemovedNothing(u, addresses, a) == userChannel

\* removeAddress writes nothing when there was no record to read.
Removed(u, addresses, a) ==
    IF addresses = {} THEN userChannel
    ELSE [userChannel EXCEPT ![u] = addresses \ {a}]

\* addAddress, removeAddress: the write of what was read, changed.
WriteUserChannel(w) ==
    /\ stage[w] = "merge"
    /\ \E p \in job[w] :
          \/ /\ p.type = "USER_CONNECTED"
             /\ userChannel' = [userChannel EXCEPT ![p.user] = seen[w] \cup {p.addr}]
             /\ NotifyMaster(w, p.type, p.user, p.addr)
          \/ /\ p.type = "USER_DISCONNECTED"
             /\ userChannel' = Removed(p.user, seen[w], p.addr)
             /\ NotifyMaster(w, p.type, p.user, p.addr)
          \/ /\ p.type = "MESSAGE_STATE_CHANGED"
             /\ userChannel' = Removed(p.msg.to, seen[w], p.addr)
             /\ doc' = [doc EXCEPT ![w] = {p.msg}]
             /\ Goto(w, "route")
    /\ UNCHANGED <<topics, locks, store, job, seen, todo, buffer, fresh, losses,
                   handled, workerCrashes, faults>>

\* Faulty: every report is taken for a success.
Confirmable(p) == p.msg.type = "MESSAGE" /\ p.msg.about \in Confirmed

\* The sender gets a confirmation of a processed message if it asked for one.
ToConfirm(p) ==
    p.state = "PROCESSED" /\ p.msg.type = "MESSAGE" /\ p.msg.about \in Confirmed

\* MessageStateChangedMessageProcessor for the other states: persist, and
\* confirm to the sender what was processed.
ChangeMessageState(w) ==
    \E p \in incoming :
        /\ p.type = "MESSAGE_STATE_CHANGED" /\ p.state # "ADDRESS_NOT_FOUND"
        /\ Start(w, p)
        /\ PersistMessage(p.msg, p.state)
        /\ IF ToConfirm(p)
           THEN /\ doc' = [doc EXCEPT ![w] = {Confirmation(p.msg.about)}]
                /\ Goto(w, "route")
           ELSE /\ Goto(w, "commit")
                /\ UNCHANGED doc
        /\ UNCHANGED <<outgoing, redis, seen, todo, buffer, losses, handled,
                       workerCrashes, faults>>

\* CustomMessageProcessor.
RequestMessage(w) ==
    \E p \in incoming :
        /\ p.type = "MESSAGE" /\ Start(w, p)
        /\ doc' = [doc EXCEPT ![w] = {p.msg}]
        /\ Goto(w, "route")
        /\ UNCHANGED <<outgoing, redis, store, seen, todo, buffer, fresh, losses,
                       handled, workerCrashes, faults>>

\* CloseConnectionMessageProcessor: only the master user may close connections.
RequestClose(w) ==
    \E p \in incoming :
        /\ p.type = "CLOSE_CONNECTION" /\ Start(w, p)
        /\ IF p.from = Master
           THEN /\ doc' = [doc EXCEPT ![w] = {CloseConnection(p.user)}]
                /\ Goto(w, "route")
           ELSE /\ Goto(w, "commit")
                /\ UNCHANGED doc
        /\ UNCHANGED <<outgoing, redis, store, seen, todo, buffer, fresh, losses,
                       handled, workerCrashes, faults>>

-----------------------------------------------------------------------------
\* PostOffice.deliverMessage: read where the addressee is connected.
Route(w) ==
    /\ stage[w] = "route"
    /\ \E m \in doc[w] : \E A \in RouteTargets(m) : seen' = [seen EXCEPT ![w] = A]
    /\ Goto(w, "send")
    /\ UNCHANGED <<topics, redis, store, job, doc, todo, buffer, fresh, losses, handled,
                   workerCrashes, faults>>

\* sendToConnector: persist the message if there is no address, or send it to
\* the addresses read before.  A fetch goes on to remove what it sent.
Send(w) ==
    /\ stage[w] = "send"
    /\ \E m \in doc[w] :
          /\ IF seen[w] = {}
             THEN PersistMessage(m, "ADDRESS_NOT_FOUND") /\ UNCHANGED buffer
             ELSE /\ buffer' = buffer \cup {<<w, Delivery(m, a)>> : a \in seen[w]}
                  /\ UNCHANGED <<store, fresh>>
          /\ Goto(w, IF m \in todo[w] THEN "remove" ELSE "commit")
    /\ UNCHANGED <<topics, redis, job, seen, doc, todo, losses, handled, workerCrashes,
                   faults>>

\* The handler is done, the lock released; if the packet was the last of its
\* batch, all of the batch is committed.
Commit(w) ==
    /\ stage[w] = "commit"
    /\ \E D \in BatchAfter(handled[w], {p \in job[w] : ~IsFast(p)}) :
          handled' = [handled EXCEPT ![w] = D]
    /\ Goto(w, "idle")
    /\ job' = [job EXCEPT ![w] = {}]
    /\ seen' = [seen EXCEPT ![w] = {}]
    /\ doc' = [doc EXCEPT ![w] = {}]
    /\ todo' = [todo EXCEPT ![w] = {}]
    /\ locks' = {l \in locks : l[2] # w}
    /\ UNCHANGED <<topics, userChannel, store, buffer, fresh, losses, workerCrashes,
                   faults>>

-----------------------------------------------------------------------------
\* FetchMissingMessagesMessageProcessor.
RequestFetch(w) ==
    \E p \in incoming :
        /\ p.type = "FETCH_MISSING_MESSAGES_REQUEST" /\ Start(w, p)
        /\ Goto(w, "lock")
        /\ UNCHANGED <<outgoing, redis, store, seen, doc, todo, buffer, fresh, losses,
                       handled, workerCrashes, faults>>

\* Faulty: the lock does not keep others out.
LockShared(u) == TRUE

\* Faulty: the lock is not recorded.
LockedByNobody(u, w) == locks

\* The lock of the redisLockRegistry under the user's id.
LockFree(u) == \A l \in locks : l[1] # u
LockedBy(u, w) == locks \cup {<<u, w>>}

\* lock.lock() and findMessages: a page of what is stored for the user in a
\* fetchable state (the order in the page, by creation, is left open).
FindMessages(w) ==
    /\ stage[w] = "lock"
    /\ \E p \in job[w] :
          LET missing == {m \in Message : m.to = p.user /\ store[m] \in FetchableState}
          IN  /\ LockFree(p.user)
              /\ locks' = LockedBy(p.user, w)
              /\ \E page \in SUBSET missing :
                    /\ \/ page = missing /\ Cardinality(missing) <= PageSize
                       \/ Cardinality(page) = PageSize
                    /\ todo' = [todo EXCEPT ![w] = page]
                    /\ fresh' = fresh \ page
    /\ Goto(w, "next")
    /\ UNCHANGED <<topics, userChannel, store, job, seen, doc, buffer, losses, handled,
                   workerCrashes, faults>>

\* deliverMessage for the next message of the page, and for the reply that
\* completes the fetch when the page is through.
RouteMissing(w) ==
    /\ stage[w] = "next"
    /\ \E p \in job[w] :
       \E m \in IF todo[w] = {} THEN {FetchComplete(p.user)} ELSE todo[w] :
          /\ doc' = [doc EXCEPT ![w] = {m}]
          /\ \E A \in RouteTargets(m) : seen' = [seen EXCEPT ![w] = A]
    /\ Goto(w, "send")
    /\ UNCHANGED <<topics, redis, store, job, todo, buffer, fresh, losses, handled,
                   workerCrashes, faults>>

\* messageRepository.remove, by id, whatever became of the message since.
Remove(w) ==
    /\ stage[w] = "remove"
    /\ store' = [m \in Message |-> IF m \in doc[w] THEN "absent" ELSE store[m]]
    /\ erased' = erased \cup (doc[w] \cap fresh)
    /\ todo' = [todo EXCEPT ![w] = @ \ doc[w]]
    /\ Goto(w, "next")
    /\ UNCHANGED <<topics, redis, job, seen, doc, buffer, fresh, vanished, parked,
                   handled, workerCrashes, faults>>

-----------------------------------------------------------------------------
\* The producer's callback: the broker has the packet.
Delivered(e) ==
    /\ e \in buffer
    /\ buffer' = buffer \ {e}
    /\ outgoing' = outgoing \cup {e[2]}
    /\ UNCHANGED <<incoming, redis, store, thread, fresh, losses, handled,
                   workerCrashes, faults>>

\* onMessageDeliveryFailed: persist as NETWORK_ERROR, unless Mongo fails too.
DeliveryFailed(e) ==
    /\ e \in buffer /\ faults < MaxFaults
    /\ faults' = faults + 1
    /\ buffer' = buffer \ {e}
    /\ \/ /\ e[2].type = "DELIVER"
          /\ PersistMessage(e[2].msg, "NETWORK_ERROR")
          /\ UNCHANGED <<vanished, parked>>
       \/ /\ e[2].type = "DELIVER"
          /\ vanished' = vanished \cup {e[2].msg}
          /\ UNCHANGED <<store, fresh, parked>>
       \/ /\ e[2].type # "DELIVER"
          /\ parked' = parked \cup {e[2]}
          /\ UNCHANGED <<store, fresh, vanished>>
    /\ UNCHANGED <<topics, redis, thread, erased, handled, workerCrashes>>

\* Redis fails under a handler, or Mongo at the findMessages or the remove of a
\* fetch: onMessageArrived catches the exception and persists the message that
\* arrived as PROCESSOR_ERROR.
HandlerFails(w) ==
    /\ stage[w] \in {"merge", "route", "lock", "next", "remove"} /\ faults < MaxFaults
    /\ faults' = faults + 1
    /\ \E p \in job[w] :
          IF p.type = "MESSAGE"
          THEN PersistMessage(p.msg, "PROCESSOR_ERROR") /\ UNCHANGED parked
          ELSE parked' = parked \cup {p} /\ UNCHANGED <<store, fresh>>
    /\ Goto(w, "commit")
    /\ UNCHANGED <<topics, redis, job, seen, doc, todo, buffer, erased, vanished,
                   handled, workerCrashes>>

\* Mongo fails when a message without address is to be persisted; persisting it
\* as PROCESSOR_ERROR fails as well, and the exception ends in a log line.
PersistFails(w) ==
    /\ stage[w] = "send" /\ seen[w] = {} /\ faults < MaxFaults
    /\ faults' = faults + 1
    /\ vanished' = vanished \cup (doc[w] \ todo[w])
    /\ Goto(w, "commit")
    /\ UNCHANGED <<topics, redis, store, job, seen, doc, todo, buffer, fresh, erased,
                   parked, handled, workerCrashes>>

\* Mongo fails when a message is to be persisted in its new state; whether the
\* report is then saved as PROCESSOR_ERROR or not, the message in it is gone.
ChangeFails(w) ==
    \E p \in incoming :
        /\ p.type = "MESSAGE_STATE_CHANGED" /\ IsReliable(p.msg)
        /\ p.state \notin {"ADDRESS_NOT_FOUND", "PROCESSED"}
        /\ faults < MaxFaults /\ Start(w, p)
        /\ faults' = faults + 1
        /\ parked' = parked \cup {p}
        /\ Goto(w, "commit")
        /\ UNCHANGED <<outgoing, redis, store, seen, doc, todo, buffer, fresh, erased,
                       vanished, handled, workerCrashes>>

\* The process of worker w dies and is started again.  Kafka hands out all of
\* its batch again, what it had handled included; a FAST message, and what the
\* producer had not sent, is gone; the lock expires.
WorkerCrash(w) ==
    LET unsentBy == {e \in buffer : e[1] = w} IN
    /\ stage[w] # "idle" \/ unsentBy # {} \/ handled[w] # {}
    /\ workerCrashes < MaxWorkerCrashes
    /\ workerCrashes' = workerCrashes + 1
    /\ incoming' = incoming \cup {p \in job[w] : ~IsFast(p)} \cup handled[w]
    /\ handled' = [handled EXCEPT ![w] = {}]
    /\ vanished' = vanished \cup {e[2].msg : e \in {f \in unsentBy : f[2].type = "DELIVER"}}
    /\ buffer' = buffer \ unsentBy
    /\ locks' = {l \in locks : l[2] # w}
    /\ Goto(w, "idle")
    /\ job' = [job EXCEPT ![w] = {}]
    /\ seen' = [seen EXCEPT ![w] = {}]
    /\ doc' = [doc EXCEPT ![w] = {}]
    /\ todo' = [todo EXCEPT ![w] = {}]
    /\ UNCHANGED <<outgoing, userChannel, store, fresh, erased, parked, faults>>

-----------------------------------------------------------------------------
\* What a worker does on its own.
WorkerThread(w) ==
    \/ AnswerAuthClient(w) \/ ReadUserChannel(w) \/ WriteUserChannel(w)
    \/ ChangeMessageState(w) \/ RequestMessage(w) \/ RequestClose(w)
    \/ RequestFetch(w) \/ FindMessages(w) \/ RouteMissing(w) \/ Remove(w)
    \/ Route(w) \/ Send(w) \/ Commit(w)

ProcessorNext ==
    \/ \E w \in Worker :
          \/ WorkerThread(w) \/ HandlerFails(w) \/ PersistFails(w) \/ ChangeFails(w)
          \/ WorkerCrash(w)
    \/ \E e \in buffer : Delivered(e) \/ DeliveryFailed(e)

\* Workers and the producer's sender thread keep running.
ProcessorFairness ==
    /\ \A w \in Worker : WF_<<processorVars, topics>>(WorkerThread(w))
    /\ WF_<<processorVars, topics>>(\E e \in buffer : Delivered(e))

-----------------------------------------------------------------------------
\* Every variable of the processors stays in its range, and a worker holds a
\* packet, a message or a page only while its stage has a use for it.
ProcessorTypeOK ==
    /\ userChannel \in [User -> SUBSET Address]
    /\ locks \subseteq User \X Worker
    /\ store \in [Message -> ErrorState \cup {"absent"}]
    /\ stage \in [Worker -> Stage]
    /\ job \in [Worker -> SUBSET IncomingPacket]
    /\ handled \in [Worker -> SUBSET IncomingPacket]
    /\ seen \in [Worker -> SUBSET Address]
    /\ doc \in [Worker -> SUBSET Message]
    /\ todo \in [Worker -> SUBSET Message]
    /\ buffer \subseteq Worker \X OutgoingPacket
    /\ \A w \in Worker :
          /\ (job[w] = {}) = (stage[w] = "idle")
          /\ stage[w] \in {"route", "send", "remove"} => \E m \in Message : doc[w] = {m}
          /\ todo[w] # {} => \E l \in locks : l[2] = w

\* Fetches of the same user do not overlap: what one of them read is delivered
\* and removed before the next one reads, so that no stored message is in the
\* hands of two workers.
FetchesExclusive ==
    \A v, w \in Worker : v # w => todo[v] \cap todo[w] = {}
=============================================================================
