------------------------ MODULE KafkaExpressDelivery ------------------------
(***************************************************************************)
(* The Kafka consumer loop every connector and processor runs              *)
(* (KafkaExpressDelivery.java): poll a batch, ask Redis which of its keys  *)
(* were handled before, hand the other records to the listener one by one, *)
(* remember each key, commit the offset behind the batch, forget the keys. *)
(* The answer of Redis is always "none" (DuplicateItems), so that nothing  *)
(* but the offset keeps a record from being handled again.  One partition  *)
(* of one topic, read by a consumer group (several processors share one    *)
(* group; a connector is alone in its own).  The broker and the Redis sets *)
(* are external.  The group has committed an offset before: one that never *)
(* did starts at the end of the partition (auto.offset.reset has its       *)
(* default).                                                               *)
(***************************************************************************)
EXTENDS Naturals, Sequences, FiniteSets

CONSTANTS
    Key,          \* record keys (random UUIDs in the code)
    Consumer,     \* the processes of the consumer group
    NoConsumer,   \* not a consumer: the partition is unassigned
    MaxLog,       \* bound: records ever appended to the partition
    MaxCrashes,   \* bound: process crashes
    MaxStops,     \* bound: graceful shutdowns
    MaxRevokes,   \* bound: times the group takes the partition away
    MaxCacheFaults \* bound: failures of Redis under a consumer thread

ASSUME NoConsumerAssumption == NoConsumer \notin Consumer
ASSUME BoundsAssumption ==
    /\ MaxLog \in Nat /\ MaxCrashes \in Nat
    /\ MaxStops \in Nat /\ MaxRevokes \in Nat /\ MaxCacheFaults \in Nat

VARIABLES
    log,        \* the partition's records: a sequence of keys
    committed,  \* the group's committed offset (count of records behind it)
    owner,      \* the consumer the partition is assigned to
    cache,      \* KAFKA_CACHE
    pc,         \* where each consumer thread stands in runConsumer
    first,      \* first offset of the consumer's batch
    last,       \* last offset of the consumer's batch
    pos,        \* the record processRecords is at
    dups,       \* duplicateKeys, looked up once for the batch
    wakeup,     \* consumer.wakeup() was called
    times,      \* history: how often the listener was given each key
    wasted,     \* history: handlings of each key in a batch never committed
    crashes, stops, revokes, cacheFaults  \* budgets spent

broker == <<log, committed, owner>>
batch == <<first, last, pos, dups>>
history == <<times, wasted>>
budgets == <<crashes, stops, revokes, cacheFaults>>
vars == <<log, committed, owner, cache, pc, first, last, pos, dups, wakeup,
          times, wasted, crashes, stops, revokes, cacheFaults>>

\* "check".."delete" are the stages of runConsumer between two polls; "down"
\* is a process that is not running, "dead" a running one whose consumer
\* thread ended with an exception.
Stage == {"poll", "check", "handle", "add", "delete", "down", "dead"}
InBatch == {"check", "handle", "add"}

Init ==
    /\ log = << >> /\ committed = 0 /\ owner = NoConsumer
    /\ cache = {}
    /\ pc = [c \in Consumer |-> "poll"]
    /\ first = [c \in Consumer |-> 1]
    /\ last = [c \in Consumer |-> 0]
    /\ pos = [c \in Consumer |-> 1]
    /\ dups = [c \in Consumer |-> {}]
    /\ wakeup = [c \in Consumer |-> FALSE]
    /\ times = [k \in Key |-> 0]
    /\ wasted = [k \in Key |-> 0]
    /\ crashes = 0 /\ stops = 0 /\ revokes = 0 /\ cacheFaults = 0

\* The keys of the batch consumer c holds (originalKeys).
BatchKeys(c) == {log[i] : i \in first[c]..last[c]}

\* The records it has handled of a batch that is not committed.
HandledIn(c) ==
    {i \in first[c]..last[c] :
        /\ pc[c] \in InBatch
        /\ i < pos[c] \/ (i = pos[c] /\ pc[c] = "add")}

\* The batch of consumer c will not be committed any more.
Waste(c) ==
    wasted' = [k \in Key |-> IF \E i \in HandledIn(c) : log[i] = k
                             THEN wasted[k] + 1 ELSE wasted[k]]
WasteOfOwner(c) == IF owner = c THEN Waste(c) ELSE UNCHANGED wasted

-----------------------------------------------------------------------------
\* deliverMessage of some producer: a fresh random key for every message.
DeliverMessage ==
    /\ Len(log) < MaxLog
    /\ \E k \in Key :
          /\ \A i \in 1..Len(log) : log[i] # k
          /\ log' = Append(log, k)
    /\ UNCHANGED <<committed, owner, cache, pc, batch, wakeup, history, budgets>>

\* The producer lost the broker's answer and its client library sends the
\* record again under the same key (retries are on, idempotence is off).
ProducerRetry ==
    /\ Len(log) \in 1..MaxLog - 1
    /\ log' = Append(log, log[Len(log)])
    /\ UNCHANGED <<committed, owner, cache, pc, batch, wakeup, history, budgets>>

\* The group coordinator hands the free partition to a polling member.
Assign(c) ==
    /\ owner = NoConsumer /\ pc[c] = "poll"
    /\ owner' = c
    /\ UNCHANGED <<log, committed, cache, pc, batch, wakeup, history, budgets>>

\* The owner missed its deadlines; it does not learn of it before it polls
\* or commits.
Revoke ==
    /\ owner # NoConsumer /\ revokes < MaxRevokes
    /\ owner' = NoConsumer
    /\ Waste(owner)
    /\ revokes' = revokes + 1
    /\ UNCHANGED <<log, committed, cache, pc, batch, wakeup, times, crashes, stops,
                   cacheFaults>>

\* consumer.poll returns some records behind the committed offset.
Poll(c) ==
    /\ pc[c] = "poll" /\ owner = c /\ ~wakeup[c]
    /\ \E n \in committed + 1..Len(log) : last' = [last EXCEPT ![c] = n]
    /\ first' = [first EXCEPT ![c] = committed + 1]
    /\ pos' = [pos EXCEPT ![c] = committed + 1]
    /\ pc' = [pc EXCEPT ![c] = "check"]
    /\ UNCHANGED <<broker, cache, dups, wakeup, history, budgets>>

\* The Redis set whose name is a record's key: nobody ever writes one.
SetNamed(k) == {}

\* RedisKafkaCache.getDuplicateItems: the intersection of KAFKA_CACHE with the
\* sets that have the keys as their names, and not with the set of the keys.
DuplicateItems(c) == {k \in cache : \A name \in BatchKeys(c) : k \in SetNamed(name)}

\* processRecords begins: the duplicates, once for the whole batch.
CheckDuplicates(c) ==
    /\ pc[c] = "check"
    /\ dups' = [dups EXCEPT ![c] = DuplicateItems(c)]
    /\ pc' = [pc EXCEPT ![c] = "handle"]
    /\ UNCHANGED <<broker, cache, first, last, pos, wakeup, history, budgets>>

\* The next record: onMessageArrived, in which the listener runs to completion,
\* unless the key is a duplicate.  Who has lost the partition handles in vain.
HandleRecord(c) ==
    /\ pc[c] = "handle" /\ pos[c] <= last[c]
    /\ LET k == log[pos[c]] IN
       IF k \in dups[c]
       THEN /\ pos' = [pos EXCEPT ![c] = @ + 1]
            /\ UNCHANGED <<pc, history>>
       ELSE /\ times' = [times EXCEPT ![k] = @ + 1]
            /\ wasted' = IF owner = c THEN wasted ELSE [wasted EXCEPT ![k] = @ + 1]
            /\ pc' = [pc EXCEPT ![c] = "add"]
            /\ UNCHANGED pos
    /\ UNCHANGED <<broker, cache, first, last, dups, wakeup, budgets>>

AddItem(c) ==
    /\ pc[c] = "add"
    /\ cache' = cache \cup {log[pos[c]]}
    /\ pos' = [pos EXCEPT ![c] = @ + 1]
    /\ pc' = [pc EXCEPT ![c] = "handle"]
    /\ UNCHANGED <<broker, first, last, dups, wakeup, history, budgets>>

BatchDone(c) == pc[c] = "handle" /\ pos[c] > last[c]

\* Faulty: one too many; the last record's own offset; the end of the
\* partition; whoever owns it now.
OffsetBehindNext(c) == last[c] + 1
OffsetOfLast(c) == last[c] - 1
OffsetAtEnd(c) == Len(log)
Anyone(c) == TRUE

\* What runConsumer commits (lastOffset + 1, counted from 0), and whether the
\* coordinator still takes it from this consumer.
OffsetToCommit(c) == last[c]
Owns(c) == owner = c

CommitSync(c) ==
    /\ BatchDone(c) /\ ~wakeup[c] /\ Owns(c)
    /\ committed' = OffsetToCommit(c)
    /\ pc' = [pc EXCEPT ![c] = "delete"]
    /\ UNCHANGED <<log, owner, cache, batch, wakeup, history, budgets>>

\* The group has moved on: commitSync throws, only WakeupException is caught,
\* and the thread closes the consumer and ends while its process runs on.
CommitFails(c) ==
    /\ BatchDone(c) /\ ~wakeup[c] /\ ~Owns(c)
    /\ pc' = [pc EXCEPT ![c] = "dead"]
    /\ UNCHANGED <<broker, cache, batch, wakeup, history, budgets>>

DeleteItems(c) ==
    /\ pc[c] = "delete"
    /\ cache' = cache \ BatchKeys(c)
    /\ pc' = [pc EXCEPT ![c] = "poll"]
    /\ UNCHANGED <<broker, batch, wakeup, history, budgets>>

Release(c) == owner' = IF owner = c THEN NoConsumer ELSE owner

\* Redis throws out of getDuplicateItems, addItem or deleteItems: the thread
\* closes the consumer and ends, as above.
CacheFails(c) ==
    /\ pc[c] \in {"check", "add", "delete"} /\ cacheFaults < MaxCacheFaults
    /\ cacheFaults' = cacheFaults + 1
    /\ pc' = [pc EXCEPT ![c] = "dead"]
    /\ Release(c) /\ WasteOfOwner(c)
    /\ UNCHANGED <<log, committed, cache, batch, wakeup, times, crashes, stops, revokes>>

-----------------------------------------------------------------------------
\* stopConsumer, called by the shutdown hook.
StopConsumer(c) ==
    /\ pc[c] \notin {"down", "dead"} /\ ~wakeup[c] /\ stops < MaxStops
    /\ wakeup' = [wakeup EXCEPT ![c] = TRUE]
    /\ stops' = stops + 1
    /\ UNCHANGED <<broker, cache, pc, batch, history, crashes, revokes, cacheFaults>>

\* WakeupException out of poll or commitSync: leave the loop, close, exit.
Woken(c) ==
    /\ wakeup[c] /\ (pc[c] = "poll" \/ BatchDone(c))
    /\ pc' = [pc EXCEPT ![c] = "down"]
    /\ Release(c) /\ WasteOfOwner(c)
    /\ UNCHANGED <<log, committed, cache, batch, wakeup, times, budgets>>

\* The process is killed; what it had not committed is handed out again.
Crash(c) ==
    /\ pc[c] # "down" /\ crashes < MaxCrashes
    /\ pc' = [pc EXCEPT ![c] = "down"]
    /\ Release(c) /\ WasteOfOwner(c)
    /\ crashes' = crashes + 1
    /\ UNCHANGED <<log, committed, cache, batch, wakeup, times, stops, revokes, cacheFaults>>

\* Faulty: the new thread runs on the consumer that was woken up.
StartAgain(c) ==
    /\ pc[c] = "down"
    /\ pc' = [pc EXCEPT ![c] = "poll"]
    /\ UNCHANGED <<broker, cache, batch, wakeup, history, budgets>>

\* start: a new consumer, a new thread.
Start(c) ==
    /\ pc[c] = "down"
    /\ pc' = [pc EXCEPT ![c] = "poll"]
    /\ wakeup' = [wakeup EXCEPT ![c] = FALSE]
    /\ UNCHANGED <<broker, cache, batch, history, budgets>>

-----------------------------------------------------------------------------
\* The steps of runConsumer, and of the group that feeds it.
RunConsumer(c) ==
    \/ Poll(c) \/ CheckDuplicates(c) \/ HandleRecord(c) \/ AddItem(c)
    \/ CommitSync(c) \/ CommitFails(c) \/ DeleteItems(c)
    \/ Woken(c)

Next ==
    \/ DeliverMessage \/ ProducerRetry \/ Revoke
    \/ \E c \in Consumer :
          \/ RunConsumer(c) \/ Assign(c) \/ CacheFails(c) \/ StopConsumer(c)
          \/ Crash(c) \/ Start(c)

Spec == Init /\ [][Next]_vars

\* The thread keeps running, the coordinator hands a free partition out, and a
\* process that went down is started again by its deployment.
Fairness ==
    \A c \in Consumer :
        WF_vars(RunConsumer(c)) /\ WF_vars(Assign(c)) /\ WF_vars(Start(c))

FairSpec == Spec /\ Fairness

-----------------------------------------------------------------------------
Handled == {k \in Key : times[k] > 0}
Copies(k) == Cardinality({i \in 1..Len(log) : log[i] = k})

\* Every variable stays in its range; offsets stay inside the log.
TypeOK ==
    /\ log \in Seq(Key)
    /\ committed \in 0..Len(log)
    /\ owner \in Consumer \cup {NoConsumer}
    /\ cache \subseteq Key
    /\ pc \in [Consumer -> Stage]
    /\ first \in [Consumer -> Nat]
    /\ last \in [Consumer -> Nat]
    /\ pos \in [Consumer -> Nat]
    /\ \A c \in Consumer : first[c] >= 1 /\ pos[c] >= 1 /\ last[c] <= Len(log)
    /\ dups \in [Consumer -> SUBSET Key]
    /\ wakeup \in [Consumer -> BOOLEAN]
    /\ times \in [Key -> Nat] /\ wasted \in [Key -> Nat]
    /\ crashes \in Nat /\ stops \in Nat /\ revokes \in Nat /\ cacheFaults \in Nat

\* No record is acknowledged before the listener handled it, whatever crashes,
\* shutdowns, rebalances and cached keys intervene: runConsumer commits only
\* what processRecords went through, and skips nothing else.
NoRecordLost ==
    \A i \in 1..committed : log[i] \in Handled

\* A record that is in the log once reaches the listener again only because an
\* earlier handling was wasted: it was part of a batch whose offset the consumer
\* never committed, as it crashed, stopped, lost its thread or the partition.  No
\* other order of polls, commits and assignments repeats a record, and since the
\* duplicates are never found each interruption repeats all that was handled of
\* its batch.  (A record the producer duplicated is two records.)
RepeatedOnlyIfWasted ==
    \A k \in Key : Copies(k) <= 1 => times[k] <= 1 + wasted[k]

\* Every record is handled at last, although consumers stop, crash and lose
\* the partition while they work, unless an exception ended the threads of all
\* of them while their processes run on.
EveryRecordHandled ==
    \A k \in Key :
        (Copies(k) > 0) ~> (k \in Handled \/ \A c \in Consumer : pc[c] = "dead")

\* The loop implements the at-least-once topic its listeners build on.
Topic == INSTANCE AtLeastOnceTopic WITH handled <- Handled
ImplementsTopic == Topic!ATSpec
=============================================================================
