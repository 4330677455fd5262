-------------------- MODULE KafkaExpressDelivery_proofs --------------------
(***************************************************************************)
(* No record is acknowledged unhandled, for any log, group and number of   *)
(* faults; and the consumer loop implements the at-least-once topic.       *)
(***************************************************************************)
EXTENDS KafkaExpressDelivery, FiniteSetTheorems, TLAPS

\* The inductive strengthening.  A batch starts right behind the committed
\* offset for as long as its consumer owns the partition, the thread skips
\* nothing, and what it went through is handled.
BatchInv(c) ==
    pc[c] \in InBatch =>
        /\ first[c] <= last[c] /\ pos[c] \in first[c]..last[c] + 1
        /\ \A i \in first[c]..pos[c] - 1 : log[i] \in Handled
        /\ owner = c => first[c] = committed + 1
        /\ pc[c] = "add" => pos[c] <= last[c] /\ log[pos[c]] \in Handled
        /\ pc[c] \in {"handle", "add"} => dups[c] = {}

IInv ==
    /\ TypeOK
    /\ NoRecordLost
    /\ \A c \in Consumer : BatchInv(c)

USE NoConsumerAssumption, BoundsAssumption

LEMMA InitIInv == Init => IInv
BY DEF Init, IInv, TypeOK, NoRecordLost, BatchInv, Handled, InBatch, Stage

\* What a record appended to the log leaves as it was.
LEMMA AppendLog ==
    ASSUME NEW s \in Seq(Key), NEW k \in Key
    PROVE  /\ Append(s, k) \in Seq(Key)
           /\ Len(Append(s, k)) = Len(s) + 1
           /\ \A i \in 1..Len(s) : Append(s, k)[i] = s[i]
OBVIOUS

\* The record a thread is at lies in the log.
LEMMA RecordAt ==
    ASSUME TypeOK, NEW c \in Consumer, pos[c] <= last[c]
    PROVE  pos[c] \in 1..Len(log) /\ log[pos[c]] \in Key
<1>1. pos[c] \in Nat /\ last[c] \in Nat /\ Len(log) \in Nat
    BY DEF TypeOK
<1>2. pos[c] \in 1..Len(log)
    BY <1>1 DEF TypeOK
<1> QED
    BY <1>2 DEF TypeOK

LEMMA WasteType ==
    ASSUME TypeOK, NEW c, Waste(c)
    PROVE  wasted' \in [Key -> Nat]
BY DEF TypeOK, Waste

\* No key is the name of a set in Redis.
LEMMA NoDuplicates ==
    ASSUME IInv, NEW c \in Consumer, pc[c] = "check"
    PROVE  DuplicateItems(c) = {}
<1>1. first[c] \in first[c]..last[c]
    BY DEF IInv, TypeOK, BatchInv, InBatch
<1> QED
    BY <1>1 DEF DuplicateItems, SetNamed, BatchKeys

\* A record that is handled is no duplicate.
LEMMA NothingSkipped ==
    ASSUME IInv, NEW c \in Consumer, HandleRecord(c)
    PROVE  /\ pos[c] \in 1..Len(log) /\ log[pos[c]] \in Key
           /\ times' = [times EXCEPT ![log[pos[c]]] = @ + 1]
           /\ wasted' = IF owner = c THEN wasted
                        ELSE [wasted EXCEPT ![log[pos[c]]] = @ + 1]
           /\ pc' = [pc EXCEPT ![c] = "add"]
           /\ pos' = pos
<1>1. log[pos[c]] \notin dups[c]
    BY DEF HandleRecord, IInv, BatchInv, InBatch
<1> QED
    BY <1>1, RecordAt DEF HandleRecord, IInv

LEMMA TypeStep == IInv /\ [Next]_vars => TypeOK'
<1> SUFFICES ASSUME IInv, [Next]_vars PROVE TypeOK'
    OBVIOUS
<1>t. TypeOK
    BY DEF IInv
<1> USE DEF TypeOK, Stage, broker, batch, history, budgets
<1>1. CASE DeliverMessage
    <2>1. PICK k \in Key : log' = Append(log, k)
        BY <1>1 DEF DeliverMessage
    <2>2. log' \in Seq(Key) /\ Len(log') = Len(log) + 1
        BY <1>t, <2>1, AppendLog
    <2> QED
        BY <1>t, <1>1, <2>2 DEF DeliverMessage
<1>2. CASE ProducerRetry
    <2>1. log[Len(log)] \in Key /\ log' = Append(log, log[Len(log)])
        BY <1>t, <1>2 DEF ProducerRetry
    <2>2. log' \in Seq(Key) /\ Len(log') = Len(log) + 1
        BY <1>t, <2>1, AppendLog
    <2>3. Len(log) \in Nat /\ committed' = committed /\ last' = last
        BY <1>t, <1>2 DEF ProducerRetry
    <2>4. committed' \in 0..Len(log') /\ \A c \in Consumer : last'[c] <= Len(log')
        BY <1>t, <2>2, <2>3
    <2> QED
        BY <1>t, <1>2, <2>2, <2>4 DEF ProducerRetry
<1>3. CASE Revoke
    <2>1. wasted' \in [Key -> Nat]
        BY <1>t, <1>3, WasteType DEF Revoke
    <2> QED
        BY <1>t, <1>3, <2>1 DEF Revoke
<1>4. ASSUME NEW c \in Consumer, RunConsumer(c)
      PROVE  TypeOK'
    <2>1. CASE Poll(c)
        <3>1. PICK n \in committed + 1..Len(log) :
                  last' = [last EXCEPT ![c] = n]
            BY <2>1 DEF Poll
        <3>2. /\ first' \in [Consumer -> Nat] /\ pos' \in [Consumer -> Nat]
              /\ last' \in [Consumer -> Nat]
              /\ \A d \in Consumer :
                    first'[d] >= 1 /\ pos'[d] >= 1 /\ last'[d] <= Len(log)
            BY <1>t, <2>1, <3>1 DEF Poll
        <3>3. pc' \in [Consumer -> Stage]
            BY <1>t, <2>1 DEF Poll
        <3> QED
            BY <1>t, <2>1, <3>2, <3>3 DEF Poll
    <2>2. CASE CheckDuplicates(c)
        <3>1. dups' = [dups EXCEPT ![c] = {}]
            BY <2>2, NoDuplicates DEF CheckDuplicates
        <3>2. dups' \in [Consumer -> SUBSET Key] /\ pc' \in [Consumer -> Stage]
            BY <1>t, <2>2, <3>1 DEF CheckDuplicates
        <3> QED
            BY <1>t, <2>2, <3>2 DEF CheckDuplicates
    <2>4. CASE HandleRecord(c)
        <3>1. log[pos[c]] \in Key /\ log[pos[c]] \notin dups[c]
            BY <1>t, <2>4, RecordAt DEF HandleRecord, IInv, BatchInv, InBatch
        <3>2. times' \in [Key -> Nat] /\ wasted' \in [Key -> Nat]
            <4>1. times' = [times EXCEPT ![log[pos[c]]] = @ + 1]
                BY <2>4, <3>1 DEF HandleRecord
            <4>2. wasted' = wasted \/ wasted' = [wasted EXCEPT ![log[pos[c]]] = @ + 1]
                BY <2>4, <3>1 DEF HandleRecord
            <4>3. times \in [Key -> Nat] /\ wasted \in [Key -> Nat]
                BY <1>t
            <4> QED
                BY <3>1, <4>1, <4>2, <4>3
        <3>3. pc' \in [Consumer -> Stage] /\ pos' = pos
            BY <1>t, <2>4, <3>1 DEF HandleRecord
        <3> QED
            BY <1>t, <2>4, <3>2, <3>3 DEF HandleRecord
    <2>5. CASE AddItem(c)
        <3>1. pos[c] <= last[c]
            BY <2>5 DEF AddItem, IInv, BatchInv, InBatch
        <3>2. cache' \subseteq Key
            BY <1>t, <2>5, <3>1, RecordAt DEF AddItem
        <3>3. pos' \in [Consumer -> Nat] /\ \A d \in Consumer : pos'[d] >= 1
            BY <1>t, <2>5 DEF AddItem
        <3>4. pc' \in [Consumer -> Stage]
            BY <1>t, <2>5 DEF AddItem
        <3> QED
            BY <1>t, <2>5, <3>2, <3>3, <3>4 DEF AddItem
    <2>6. CASE CommitSync(c)
        BY <1>t, <2>6 DEF CommitSync, OffsetToCommit, Owns, BatchDone
    <2>7. CASE CommitFails(c)
        BY <1>t, <2>7 DEF CommitFails
    <2>8. CASE DeleteItems(c)
        BY <1>t, <2>8 DEF DeleteItems
    <2>9. CASE Woken(c)
        <3>1. wasted' \in [Key -> Nat]
            BY <1>t, <2>9, WasteType DEF Woken, WasteOfOwner
        <3> QED
            BY <1>t, <2>9, <3>1 DEF Woken, Release
    <2> QED
        BY <1>4, <2>1, <2>2, <2>4, <2>5, <2>6, <2>7, <2>8, <2>9
        DEF RunConsumer
<1>5. ASSUME NEW c \in Consumer, Assign(c)
      PROVE  TypeOK'
    BY <1>t, <1>5 DEF Assign
<1>6. ASSUME NEW c \in Consumer, StopConsumer(c)
      PROVE  TypeOK'
    BY <1>t, <1>6 DEF StopConsumer
<1>7. ASSUME NEW c \in Consumer, Crash(c)
      PROVE  TypeOK'
    <2>1. wasted' \in [Key -> Nat]
        BY <1>t, <1>7, WasteType DEF Crash, WasteOfOwner
    <2>2. pc' \in [Consumer -> Stage] /\ owner' \in Consumer \cup {NoConsumer}
        BY <1>t, <1>7 DEF Crash, Release
    <2>3. crashes' \in Nat
        BY <1>t, <1>7 DEF Crash
    <2> QED
        BY <1>t, <1>7, <2>1, <2>2, <2>3 DEF Crash
<1>8. ASSUME NEW c \in Consumer, Start(c)
      PROVE  TypeOK'
    BY <1>t, <1>8 DEF Start
<1>9. ASSUME NEW c \in Consumer, CacheFails(c)
      PROVE  TypeOK'
    <2>1. wasted' \in [Key -> Nat]
        BY <1>t, <1>9, WasteType DEF CacheFails, WasteOfOwner
    <2>2. pc' \in [Consumer -> Stage] /\ owner' \in Consumer \cup {NoConsumer}
        BY <1>t, <1>9 DEF CacheFails, Release
    <2>3. cacheFaults' \in Nat
        BY <1>t, <1>9 DEF CacheFails
    <2> QED
        BY <1>t, <1>9, <2>1, <2>2, <2>3 DEF CacheFails
<1>10. CASE UNCHANGED vars
    BY <1>t, <1>10 DEF vars
<1> QED
    BY <1>1, <1>2, <1>3, <1>4, <1>5, <1>6, <1>7, <1>8, <1>9, <1>10 DEF Next

\* Handled keys stay handled and the log only grows at its end.
LEMMA Growth ==
    IInv /\ [Next]_vars =>
        /\ Handled \subseteq Handled'
        /\ \A i \in 1..Len(log) : log'[i] = log[i]
<1> SUFFICES ASSUME IInv, [Next]_vars
    PROVE  /\ Handled \subseteq Handled'
           /\ \A i \in 1..Len(log) : log'[i] = log[i]
    OBVIOUS
<1>t. TypeOK
    BY DEF IInv
<1>1. \A i \in 1..Len(log) : log'[i] = log[i]
    <2>1. ASSUME NEW k \in Key, log' = Append(log, k)
          PROVE  \A i \in 1..Len(log) : log'[i] = log[i]
        BY <1>t, <2>1, AppendLog DEF TypeOK
    <2>2. CASE DeliverMessage
        BY <2>1, <2>2 DEF DeliverMessage
    <2>3. CASE ProducerRetry
        BY <1>t, <2>1, <2>3 DEF ProducerRetry, TypeOK
    <2>4. CASE ~DeliverMessage /\ ~ProducerRetry
        <3>1. log' = log
            BY <2>4 DEF Next, vars, Revoke, RunConsumer, Poll, CheckDuplicates,
               HandleRecord, AddItem, CommitSync, OffsetToCommit, Owns, CommitFails,
               DeleteItems, Woken, Assign, StopConsumer, CacheFails, Crash, Start, broker
        <3> QED
            BY <3>1
    <2> QED
        BY <2>2, <2>3, <2>4
<1>2. Handled \subseteq Handled'
    <2>1. ASSUME NEW c \in Consumer, HandleRecord(c)
          PROVE  Handled \subseteq Handled'
        <3>1. times' = [times EXCEPT ![log[pos[c]]] = @ + 1] /\ log[pos[c]] \in Key
            BY <2>1, NothingSkipped
        <3>2. times \in [Key -> Nat]
            BY <1>t DEF TypeOK
        <3>3. \A k \in Key : times[k] > 0 => times'[k] > 0
            BY <3>1, <3>2
        <3> QED
            BY <3>3 DEF Handled
    <2>2. CASE \A c \in Consumer : ~HandleRecord(c)
        <3>1. times' = times
            BY <2>2 DEF Next, vars, DeliverMessage, ProducerRetry, Revoke,
               RunConsumer, Poll, CheckDuplicates, AddItem,
               CommitSync, OffsetToCommit, Owns, CommitFails, DeleteItems, Woken, Assign,
               StopConsumer, CacheFails, Crash, Start, history
        <3> QED
            BY <3>1 DEF Handled
    <2> QED
        BY <2>1, <2>2
<1> QED
    BY <1>1, <1>2

\* A step that leaves a consumer's batch alone leaves its invariant alone, if
\* the consumer did not just become the owner and the owner's offset stays.
LEMMA BatchFrame ==
    ASSUME IInv, [Next]_vars, NEW d \in Consumer,
           pc'[d] \in InBatch => pc'[d] = pc[d],
           first'[d] = first[d], last'[d] = last[d],
           pos'[d] = pos[d], dups'[d] = dups[d],
           owner' = d /\ pc[d] \in InBatch => owner = d /\ committed' = committed
    PROVE  BatchInv(d)'
<1> SUFFICES ASSUME pc'[d] \in InBatch
    PROVE  BatchInv(d)'
    BY DEF BatchInv
<1>1. pc'[d] = pc[d] /\ BatchInv(d)
    BY DEF IInv
<1>2. first[d] \in Nat /\ pos[d] \in Nat /\ last[d] \in Nat /\ Len(log) \in Nat
      /\ first[d] >= 1 /\ last[d] <= Len(log)
    BY DEF IInv, TypeOK
<1>3. \A i \in first[d]..pos[d] - 1 : i \in 1..Len(log)
    BY <1>1, <1>2 DEF BatchInv
<1>4. \A i \in first[d]..pos[d] - 1 : log'[i] \in Handled'
    BY <1>1, <1>3, Growth DEF BatchInv
<1>5. pc[d] = "add" => log'[pos[d]] \in Handled'
    <2>1. pc[d] = "add" => pos[d] \in 1..Len(log)
        BY <1>1, <1>2 DEF BatchInv
    <2> QED
        BY <1>1, <2>1, Growth DEF BatchInv
<1>6. pc[d] \in {"handle", "add"} => dups[d] = {}
    BY <1>1 DEF BatchInv
<1> QED
    BY <1>1, <1>4, <1>5, <1>6 DEF BatchInv

\* While the offset stays, what was acknowledged stays handled.
LEMMA LostFrame ==
    ASSUME IInv, [Next]_vars, committed' = committed
    PROVE  NoRecordLost'
<1>1. \A i \in 1..committed : i \in 1..Len(log) /\ log[i] \in Handled
    BY DEF IInv, NoRecordLost, TypeOK
<1> QED
    BY <1>1, Growth DEF NoRecordLost

\* No step of the consumer thread disturbs the invariant.
LEMMA ConsumerStep ==
    ASSUME IInv, [Next]_vars, NEW c \in Consumer, RunConsumer(c)
    PROVE  /\ NoRecordLost'
           /\ \A d \in Consumer : BatchInv(d)'
<1>t. TypeOK /\ BatchInv(c) /\ Handled \subseteq Handled'
    BY Growth DEF IInv
<1>n. /\ first[c] \in Nat /\ last[c] \in Nat /\ pos[c] \in Nat
      /\ committed \in Nat /\ Len(log) \in Nat /\ committed <= Len(log)
      /\ first[c] >= 1 /\ pos[c] >= 1 /\ last[c] <= Len(log)
    BY <1>t DEF TypeOK
<1> USE DEF broker, batch, history, budgets
<1>1. CASE Poll(c)
    <2>1. committed' = committed /\ cache' = cache /\ owner' = c
        BY <1>1 DEF Poll
    <2>2. PICK n \in committed + 1..Len(log) : last' = [last EXCEPT ![c] = n]
        BY <1>1 DEF Poll
    <2>3. ASSUME NEW d \in Consumer, d # c
          PROVE  BatchInv(d)'
        BY <1>1, <2>1, <2>3, BatchFrame, <1>t DEF Poll, TypeOK
    <2>4. BatchInv(c)'
        <3>1. /\ pc'[c] = "check" /\ first'[c] = committed + 1
              /\ pos'[c] = committed + 1 /\ last'[c] = n
            BY <1>1, <1>t, <2>2 DEF Poll, TypeOK
        <3>2. pos'[c] \in first'[c]..last'[c] + 1
            BY <1>n, <3>1
        <3>3. \A i \in first'[c]..pos'[c] - 1 : FALSE
            BY <1>n, <3>1
        <3> QED
            BY <2>1, <3>1, <3>2, <3>3 DEF BatchInv
    <2> QED
        BY <1>t, <2>1, <2>3, <2>4, LostFrame
<1>2. CASE CheckDuplicates(c)
    <2>1. committed' = committed /\ cache' = cache /\ owner' = owner
        BY <1>2 DEF CheckDuplicates
    <2>3. ASSUME NEW d \in Consumer, d # c
          PROVE  BatchInv(d)'
        BY <1>2, <2>1, <2>3, BatchFrame, <1>t DEF CheckDuplicates, TypeOK
    <2>4. BatchInv(c)'
        <3>1. /\ pc[c] = "check" /\ pc'[c] = "handle"
              /\ dups'[c] = {}
              /\ first' = first /\ pos' = pos /\ last' = last /\ log' = log
            BY <1>2, <1>t, NoDuplicates DEF CheckDuplicates, TypeOK
        <3> QED
            BY <1>t, <2>1, <3>1 DEF BatchInv, InBatch
    <2> QED
        BY <1>t, <2>1, <2>3, <2>4, LostFrame
<1>4. CASE HandleRecord(c)
    <2>1. committed' = committed /\ cache' = cache /\ owner' = owner
        BY <1>4 DEF HandleRecord
    <2>2. /\ pc[c] = "handle" /\ pc' = [pc EXCEPT ![c] = "add"] /\ pos[c] <= last[c]
          /\ times' = [times EXCEPT ![log[pos[c]]] = @ + 1] /\ log[pos[c]] \in Key
          /\ UNCHANGED <<first, last, pos, dups, log>>
        BY <1>4, NothingSkipped DEF HandleRecord
    <2>3. ASSUME NEW d \in Consumer, d # c
          PROVE  BatchInv(d)'
        BY <2>1, <2>2, <2>3, BatchFrame, <1>t DEF TypeOK
    <2>4. BatchInv(c)'
        <3>1. log[pos[c]] \in Handled'
            BY <1>t, <2>2 DEF Handled, TypeOK
        <3>2. pc'[c] = "add"
            BY <1>t, <2>2 DEF TypeOK
        <3> QED
            BY <1>t, <2>1, <2>2, <3>1, <3>2 DEF BatchInv, InBatch
    <2> QED
        BY <1>t, <2>1, <2>3, <2>4, LostFrame
<1>5. CASE AddItem(c)
    <2>1. committed' = committed /\ owner' = owner
        BY <1>5 DEF AddItem
    <2>2. /\ pc[c] = "add" /\ pc'[c] = "handle" /\ pos'[c] = pos[c] + 1
          /\ cache' = cache \cup {log[pos[c]]}
          /\ first' = first /\ dups' = dups /\ last' = last /\ log' = log
        BY <1>5, <1>t DEF AddItem, TypeOK
    <2>3. ASSUME NEW d \in Consumer, d # c
          PROVE  BatchInv(d)'
        BY <1>5, <2>1, <2>3, BatchFrame, <1>t DEF AddItem, TypeOK
    <2>4. log[pos[c]] \in Handled /\ pos[c] <= last[c]
        BY <1>t, <2>2 DEF BatchInv, InBatch
    <2>5. times' = times
        BY <1>5 DEF AddItem
    <2>7. BatchInv(c)'
        <3>1. \A i \in first'[c]..pos'[c] - 1 :
                 i = pos[c] \/ i \in first[c]..pos[c] - 1
            BY <1>n, <2>2
        <3>2. pos'[c] \in first'[c]..last'[c] + 1
            BY <1>t, <1>n, <2>2, <2>4 DEF BatchInv, InBatch
        <3> QED
            BY <1>t, <2>1, <2>2, <2>4, <2>5, <3>1, <3>2 DEF BatchInv, InBatch
    <2> QED
        BY <2>1, <2>3, <2>7, LostFrame
<1>6. CASE CommitSync(c)
    <2>1. /\ committed' = last[c] /\ owner' = owner /\ owner = c /\ log' = log
          /\ pos[c] > last[c] /\ pc[c] = "handle" /\ cache' = cache
          /\ pc' = [pc EXCEPT ![c] = "delete"]
        BY <1>6 DEF CommitSync, OffsetToCommit, Owns, BatchDone
    <2>2. \A d \in Consumer : BatchInv(d)'
        <3>1. ASSUME NEW d \in Consumer, d # c
              PROVE  BatchInv(d)'
            BY <1>6, <2>1, <3>1, BatchFrame, <1>t DEF CommitSync, OffsetToCommit, Owns, TypeOK
        <3>2. BatchInv(c)'
            BY <1>t, <2>1 DEF BatchInv, InBatch, TypeOK
        <3> QED
            BY <3>1, <3>2
    <2>3. NoRecordLost'
        <3>1. first[c] = committed + 1 /\ pos[c] = last[c] + 1
            BY <1>t, <1>n, <2>1 DEF BatchInv, InBatch
        <3>2. \A i \in 1..last[c] : i \in 1..committed \/ i \in first[c]..pos[c] - 1
            BY <1>n, <3>1
        <3>3. \A i \in 1..last[c] : log[i] \in Handled
            BY <1>t, <2>1, <3>2 DEF IInv, NoRecordLost, BatchInv, InBatch
        <3> QED
            BY <1>t, <2>1, <3>3 DEF NoRecordLost
    <2> QED
        BY <1>t, <2>1, <2>2, <2>3
<1>7. CASE CommitFails(c) \/ DeleteItems(c) \/ Woken(c)
    <2>1. /\ committed' = committed /\ cache' \subseteq cache
          /\ owner' = owner \/ owner' = NoConsumer
          /\ UNCHANGED <<first, last, pos, dups>>
        BY <1>7 DEF CommitFails, DeleteItems, Woken, Release
    <2>2. \E stage \in {"dead", "poll", "down"} : pc' = [pc EXCEPT ![c] = stage]
        BY <1>7 DEF CommitFails, DeleteItems, Woken
    <2>3. \A d \in Consumer : pc'[d] \in InBatch => pc'[d] = pc[d]
        BY <2>2, <1>t DEF TypeOK, InBatch
    <2>4. \A d \in Consumer : BatchInv(d)'
        BY <2>1, <2>3, BatchFrame
    <2> QED
        BY <1>t, <2>1, <2>4, LostFrame
<1> QED
    BY <1>1, <1>2, <1>4, <1>5, <1>6, <1>7 DEF RunConsumer

LEMMA IInvStep == IInv /\ [Next]_vars => IInv'
<1> SUFFICES ASSUME IInv, [Next]_vars PROVE IInv'
    OBVIOUS
<1>t. TypeOK /\ Handled \subseteq Handled'
    BY Growth DEF IInv
<1>1. ASSUME NEW c \in Consumer, RunConsumer(c)
      PROVE  IInv'
    BY <1>1, ConsumerStep, TypeStep DEF IInv
<1>2. CASE \A c \in Consumer : ~RunConsumer(c)
    <2> USE DEF broker, batch, history, budgets
    <2>1. committed' = committed /\ UNCHANGED <<first, last, pos, dups>>
        BY <1>2 DEF Next, vars, DeliverMessage, ProducerRetry, Revoke, Assign,
           StopConsumer, CacheFails, Crash, Start
    <2>2. ASSUME NEW d \in Consumer
          PROVE  /\ pc'[d] \in InBatch => pc'[d] = pc[d]
                 /\ owner' = d /\ pc[d] \in InBatch => owner = d
        BY <1>2, <1>t DEF Next, vars, DeliverMessage, ProducerRetry, Revoke,
           Assign, StopConsumer, CacheFails, Crash, Release, Start, InBatch, TypeOK
    <2>3. \A d \in Consumer : BatchInv(d)'
        BY <2>1, <2>2, BatchFrame
    <2> QED
        BY <1>t, <2>1, <2>3, LostFrame, TypeStep DEF IInv
<1> QED
    BY <1>1, <1>2

LEMMA Invariance == Spec => []IInv
BY InitIInv, IInvStep, PTL DEF Spec

-----------------------------------------------------------------------------
\* The consumer's variables keep their types: offsets stay inside the log.
THEOREM TypeCorrect == Spec => []TypeOK
BY Invariance, PTL DEF IInv

\* A record is never acknowledged before the listener handled it, for any
\* number of consumers, records, crashes, shutdowns and rebalances.
THEOREM NoRecordIsLost == Spec => []NoRecordLost
BY Invariance, PTL DEF IInv

-----------------------------------------------------------------------------
\* What repeats records.  A record that is in the log once and was handled once
\* more than in vain is acknowledged, or handled in the batch of the partition's
\* owner, which starts behind all acknowledged records.
Single(i) == \A j \in 1..Len(log) : log[j] = log[i] => j = i

OnceAt(i) ==
    Single(i) =>
        /\ times[log[i]] <= wasted[log[i]] + 1
        /\ times[log[i]] > wasted[log[i]] =>
              i <= committed \/ \E c \in Consumer : owner = c /\ i \in HandledIn(c)

OnceInv ==
    /\ \A k \in Key : times[k] > 0 => \E i \in 1..Len(log) : log[i] = k
    /\ \A i \in 1..Len(log) : OnceAt(i)

LEMMA InitOnce == Init => OnceInv
BY DEF Init, OnceInv, OnceAt

\* A step that appends nothing keeps which records are single.
LEMMA SingleFrame ==
    ASSUME UNCHANGED log, NEW i
    PROVE  Single(i)' = Single(i)
BY DEF Single

\* The numbers and keys of record i and of the batch of consumer c.
LEMMA RecordFacts ==
    ASSUME IInv
    PROVE  /\ Len(log) \in Nat /\ committed \in Nat /\ committed <= Len(log)
           /\ \A i \in 1..Len(log) :
                 log[i] \in Key /\ times[log[i]] \in Nat /\ wasted[log[i]] \in Nat
           /\ \A c \in Consumer :
                 /\ first[c] \in Nat /\ last[c] \in Nat /\ pos[c] \in Nat
                 /\ first[c] >= 1 /\ last[c] <= Len(log) /\ pos[c] >= 1
BY DEF IInv, TypeOK

LEMMA AppendOnce ==
    ASSUME IInv, OnceInv, DeliverMessage \/ ProducerRetry
    PROVE  OnceInv'
<1> USE DEF broker, batch, history, budgets
<1>0. UNCHANGED <<committed, owner, pc, first, last, pos, times, wasted>>
    BY DEF DeliverMessage, ProducerRetry
<1>1. PICK k \in Key :
          /\ log' = Append(log, k)
          /\ \/ \A i \in 1..Len(log) : log[i] # k
             \/ Len(log) >= 1 /\ k = log[Len(log)]
    BY RecordFacts DEF DeliverMessage, ProducerRetry
<1>2. /\ log \in Seq(Key) /\ Len(log) \in Nat /\ Len(log') = Len(log) + 1
      /\ log'[Len(log) + 1] = k /\ \A i \in 1..Len(log) : log'[i] = log[i]
    BY <1>1, AppendLog DEF IInv, TypeOK
<1>3. \A x \in Key : times'[x] > 0 => \E i \in 1..Len(log') : log'[i] = x
    <2> SUFFICES ASSUME NEW x \in Key, times[x] > 0
        PROVE  \E i \in 1..Len(log') : log'[i] = x
        BY <1>0
    <2>1. PICK i \in 1..Len(log) : log[i] = x
        BY DEF OnceInv
    <2>2. i \in 1..Len(log') /\ log'[i] = x
        BY <1>2, <2>1
    <2> QED
        BY <2>2
<1>4. ASSUME NEW i \in 1..Len(log')
      PROVE  OnceAt(i)'
    <2>1. CASE i \in 1..Len(log)
        <3>1. Single(i)' => Single(i)
            BY <1>2, <2>1 DEF Single
        <3>2. OnceAt(i) /\ log'[i] = log[i]
            BY <1>2, <2>1 DEF OnceInv
        <3> QED
            BY <1>0, <3>1, <3>2 DEF OnceAt, HandledIn
    <2>2. CASE i \notin 1..Len(log)
        <3>1. i = Len(log) + 1 /\ log'[i] = k
            BY <1>2, <2>2
        <3>2. CASE \A j \in 1..Len(log) : log[j] # k
            <4>1. ~(times[k] > 0)
                BY <3>2 DEF OnceInv
            <4>2. times[k] \in Nat /\ wasted[k] \in Nat
                BY <1>1 DEF IInv, TypeOK
            <4> QED
                BY <1>0, <3>1, <4>1, <4>2 DEF OnceAt
        <3>3. CASE Len(log) >= 1 /\ k = log[Len(log)]
            <4>1. Len(log) \in 1..Len(log') /\ log'[Len(log)] = log'[i] /\ Len(log) # i
                BY <1>2, <3>1, <3>3
            <4>2. ~Single(i)'
                BY <4>1 DEF Single
            <4> QED
                BY <4>2 DEF OnceAt
        <3> QED
            BY <1>1, <3>2, <3>3
    <2> QED
        BY <2>1, <2>2
<1> QED
    BY <1>0, <1>3, <1>4 DEF OnceInv

\* A step that handles nothing and after which what the owner had handled is
\* still its own or acknowledged.
LEMMA OnceFrame ==
    ASSUME IInv, OnceInv, UNCHANGED <<log, times, wasted>>,
           committed' \in Nat, committed <= committed',
           \A c \in Consumer : owner = c => \A i \in HandledIn(c) :
              i <= committed' \/ (owner' = c /\ i \in HandledIn(c)')
    PROVE  OnceInv'
<1>1. ASSUME NEW i \in 1..Len(log)
      PROVE  OnceAt(i)'
    <2>1. OnceAt(i) /\ Single(i)' = Single(i)
        BY SingleFrame DEF OnceInv
    <2>2. i <= committed => i <= committed'
        BY RecordFacts
    <2> QED
        BY <2>1, <2>2 DEF OnceAt
<1> QED
    BY <1>1 DEF OnceInv

\* The owner of the partition gives its batch up, or loses it: what it handled
\* of it was in vain.
LEMMA WasteOnce ==
    ASSUME IInv, OnceInv, NEW c \in Consumer, owner = c, Waste(c),
           UNCHANGED <<log, times, committed>>
    PROVE  OnceInv'
<1>1. HandledIn(c) \subseteq 1..Len(log)
    BY RecordFacts DEF HandledIn
<1>2. ASSUME NEW i \in 1..Len(log)
      PROVE  OnceAt(i)'
    <2>1. OnceAt(i) /\ Single(i)' = Single(i)
        BY SingleFrame DEF OnceInv
    <2>2. log[i] \in Key /\ times[log[i]] \in Nat /\ wasted[log[i]] \in Nat
        BY RecordFacts
    <2>3. CASE i \in HandledIn(c)
        <3>1. wasted'[log[i]] = wasted[log[i]] + 1
            BY <2>2, <2>3 DEF Waste
        <3> QED
            BY <2>1, <2>2, <3>1 DEF OnceAt
    <2>4. CASE i \notin HandledIn(c) /\ Single(i)
        <3>1. \A j \in HandledIn(c) : log[j] # log[i]
            BY <1>1, <2>4 DEF Single
        <3>2. wasted'[log[i]] = wasted[log[i]]
            BY <2>2, <3>1 DEF Waste
        <3>3. times[log[i]] > wasted[log[i]] => i <= committed
            BY <2>1, <2>4 DEF OnceAt
        <3> QED
            BY <2>1, <3>2, <3>3 DEF OnceAt
    <2> QED
        BY <2>1, <2>3, <2>4 DEF OnceAt
<1> QED
    BY <1>2 DEF OnceInv

LEMMA HandleOnce ==
    ASSUME IInv, OnceInv, NEW c \in Consumer, HandleRecord(c)
    PROVE  OnceInv'
<1> USE DEF broker, batch, history, budgets
<1> DEFINE k == log[pos[c]]
<1>1. /\ pc[c] = "handle" /\ pos[c] <= last[c] /\ k \in Key /\ pos[c] \in 1..Len(log)
      /\ times' = [times EXCEPT ![k] = @ + 1] /\ pc' = [pc EXCEPT ![c] = "add"]
      /\ wasted' = IF owner = c THEN wasted ELSE [wasted EXCEPT ![k] = @ + 1]
      /\ UNCHANGED <<log, committed, owner, first, last, pos>>
    BY NothingSkipped DEF HandleRecord
<1>2. pc \in [Consumer -> Stage] /\ times \in [Key -> Nat] /\ wasted \in [Key -> Nat]
    BY DEF IInv, TypeOK
<1>3. \A d \in Consumer : HandledIn(d) \subseteq HandledIn(d)'
    <2> SUFFICES ASSUME NEW d \in Consumer
        PROVE  HandledIn(d) \subseteq HandledIn(d)'
        OBVIOUS
    <2>1. pc[d] \in InBatch => pc'[d] \in InBatch /\ (pc[d] = "add" => pc'[d] = "add")
        BY <1>1, <1>2 DEF InBatch
    <2> QED
        BY <1>1, <2>1 DEF HandledIn
<1>4. ASSUME NEW i \in 1..Len(log), Single(i), i # pos[c]
      PROVE  OnceAt(i)'
    <2>1. OnceAt(i) /\ Single(i)' = Single(i) /\ log[i] # k /\ log[i] \in Key
        BY <1>1, <1>4, SingleFrame, RecordFacts DEF OnceInv, Single
    <2>2. times'[log[i]] = times[log[i]] /\ wasted'[log[i]] = wasted[log[i]]
        BY <1>1, <1>2, <2>1
    <2> QED
        BY <1>1, <1>3, <1>4, <2>1, <2>2 DEF OnceAt
<1>5. ASSUME Single(pos[c])
      PROVE  OnceAt(pos[c])'
    <2>1. OnceAt(pos[c]) /\ times[k] \in Nat /\ wasted[k] \in Nat
        BY <1>1, <1>2 DEF OnceInv
    <2>2. times'[k] = times[k] + 1
        BY <1>1, <1>2
    <2>3. CASE owner = c
        <3>1. first[c] = committed + 1 /\ first[c] <= pos[c]
            BY <1>1, <2>3 DEF IInv, BatchInv, InBatch
        <3>2. ~(pos[c] <= committed)
            BY <3>1, RecordFacts
        <3>3. \A d \in Consumer : owner = d => pos[c] \notin HandledIn(d)
            BY <1>1, <2>3, RecordFacts DEF HandledIn
        <3>4. times[k] <= wasted[k]
            BY <1>5, <2>1, <3>2, <3>3 DEF OnceAt
        <3>5. pos[c] \in HandledIn(c)'
            <4>1. pc'[c] = "add" /\ pos[c] \in first[c]..last[c]
                BY <1>1, <1>2, <3>1, RecordFacts
            <4> QED
                BY <1>1, <4>1 DEF HandledIn, InBatch
        <3> QED
            BY <1>1, <2>1, <2>2, <2>3, <3>4, <3>5 DEF OnceAt
    <2>4. CASE owner # c
        <3>1. wasted'[k] = wasted[k] + 1
            BY <1>1, <1>2, <2>4
        <3>2. /\ times'[k] <= wasted'[k] + 1
              /\ times'[k] > wasted'[k] => times[k] > wasted[k]
            BY <1>5, <2>1, <2>2, <3>1 DEF OnceAt
        <3> QED
            BY <1>1, <1>3, <1>5, <2>1, <3>2 DEF OnceAt
    <2> QED
        BY <2>3, <2>4
<1>6. \A i \in 1..Len(log) : OnceAt(i)'
    BY <1>1, <1>4, <1>5, SingleFrame DEF OnceAt
<1>7. \A x \in Key : times'[x] > 0 => \E i \in 1..Len(log) : log[i] = x
    BY <1>1, <1>2 DEF OnceInv
<1> QED
    BY <1>1, <1>6, <1>7 DEF OnceInv

\* The thread moves on, or the group gives the partition to somebody.
LEMMA QuietOnce ==
    ASSUME IInv, OnceInv, NEW c \in Consumer,
           \/ Poll(c) \/ CheckDuplicates(c) \/ AddItem(c) \/ CommitFails(c)
           \/ DeleteItems(c) \/ Assign(c) \/ StopConsumer(c) \/ Start(c)
    PROVE  OnceInv'
<1> USE DEF broker, batch, history, budgets
<1>1. UNCHANGED <<log, times, wasted, committed>>
    BY DEF Poll, CheckDuplicates, AddItem, CommitFails, DeleteItems, Assign, StopConsumer,
       Start
<1>2. pc \in [Consumer -> Stage] /\ pos \in [Consumer -> Nat]
      /\ first \in [Consumer -> Nat] /\ last \in [Consumer -> Nat]
    BY DEF IInv, TypeOK
<1>3. ASSUME NEW d \in Consumer, owner = d
      PROVE  owner' = d /\ HandledIn(d) \subseteq HandledIn(d)'
    <2>1. owner' = d
        BY <1>3, NoConsumerAssumption DEF Poll, CheckDuplicates, AddItem, CommitFails,
           DeleteItems, Assign, StopConsumer, Start
    <2>2. CASE Poll(c) \/ DeleteItems(c) \/ Start(c)
        <3>1. pc[c] \notin InBatch
            BY <2>2 DEF Poll, DeleteItems, Start, InBatch
        <3>2. HandledIn(c) = {}
            BY <3>1 DEF HandledIn
        <3>3. d # c => UNCHANGED <<pc[d], pos[d], first[d], last[d]>>
            BY <1>2, <2>2 DEF Poll, DeleteItems, Start
        <3> QED
            BY <2>1, <3>2, <3>3 DEF HandledIn
    <2>3. CASE CheckDuplicates(c)
        <3>1. UNCHANGED <<pos, first, last>> /\ pc[c] = "check"
              /\ pc' = [pc EXCEPT ![c] = "handle"]
            BY <2>3 DEF CheckDuplicates
        <3>2. pc[d] \in InBatch => pc'[d] \in InBatch /\ (pc[d] = "add" => pc'[d] = "add")
            BY <1>2, <3>1 DEF InBatch
        <3> QED
            BY <2>1, <3>1, <3>2 DEF HandledIn
    <2>4. CASE AddItem(c)
        <3>1. UNCHANGED <<first, last>> /\ pc[c] = "add" /\ pc' = [pc EXCEPT ![c] = "handle"]
              /\ pos' = [pos EXCEPT ![c] = @ + 1]
            BY <2>4 DEF AddItem
        <3>2. d # c => UNCHANGED <<pc[d], pos[d]>>
            BY <1>2, <3>1
        <3>3. pc'[c] = "handle" /\ pos'[c] = pos[c] + 1 /\ pos[c] \in Nat
            BY <1>2, <3>1
        <3>4. \A i \in HandledIn(c) : i \in Nat /\ i < pos'[c]
            BY <1>2, <3>3 DEF HandledIn
        <3> QED
            BY <2>1, <3>1, <3>2, <3>3, <3>4 DEF HandledIn, InBatch
    <2>5. CASE CommitFails(c)
        <3>1. UNCHANGED <<pos, first, last>> /\ d # c /\ pc' = [pc EXCEPT ![c] = "dead"]
            BY <1>3, <2>5 DEF CommitFails, Owns
        <3> QED
            BY <1>2, <2>1, <3>1 DEF HandledIn
    <2>6. CASE Assign(c) \/ StopConsumer(c)
        BY <2>1, <2>6 DEF Assign, StopConsumer, HandledIn
    <2> QED
        BY <2>2, <2>3, <2>4, <2>5, <2>6
<1> QED
    BY <1>1, <1>3, OnceFrame, RecordFacts

\* The owner's commit acknowledges all that it handled of its batch.
LEMMA CommitOnce ==
    ASSUME IInv, OnceInv, NEW c \in Consumer, CommitSync(c)
    PROVE  OnceInv'
<1>1. /\ committed' = last[c] /\ owner = c /\ UNCHANGED <<log, times, wasted>>
      /\ pc[c] = "handle"
    BY DEF CommitSync, OffsetToCommit, Owns, BatchDone, history
<1>2. first[c] = committed + 1 /\ first[c] <= last[c]
    BY <1>1 DEF IInv, BatchInv, InBatch
<1>3. \A i \in HandledIn(c) : i <= committed'
    BY <1>1 DEF HandledIn
<1>4. committed' \in Nat /\ committed <= committed'
    BY <1>1, <1>2, RecordFacts
<1> QED
    BY <1>1, <1>3, <1>4, OnceFrame

\* The thread or its process ends.
LEMMA EndOnce ==
    ASSUME IInv, OnceInv, NEW c \in Consumer, Woken(c) \/ Crash(c) \/ CacheFails(c)
    PROVE  OnceInv'
<1>1. /\ UNCHANGED <<log, times, committed, first, last, pos>>
      /\ Release(c) /\ WasteOfOwner(c)
      /\ \E s \in {"down", "dead"} : pc' = [pc EXCEPT ![c] = s]
    BY DEF Woken, Crash, CacheFails, batch
<1>2. CASE owner = c
    BY <1>1, <1>2, WasteOnce DEF WasteOfOwner
<1>3. CASE owner # c
    <2>1. UNCHANGED <<wasted, owner>>
        BY <1>1, <1>3 DEF WasteOfOwner, Release
    <2>2. \A d \in Consumer : owner = d => HandledIn(d)' = HandledIn(d)
        BY <1>1, <1>3 DEF HandledIn, IInv, TypeOK
    <2> QED
        BY <1>1, <2>1, <2>2, OnceFrame, RecordFacts
<1> QED
    BY <1>2, <1>3

LEMMA OnceStep ==
    ASSUME IInv, OnceInv, [Next]_vars
    PROVE  OnceInv'
<1>1. ASSUME NEW c \in Consumer, RunConsumer(c)
      PROVE  OnceInv'
    BY <1>1, HandleOnce, QuietOnce, CommitOnce, EndOnce DEF RunConsumer
<1>2. ASSUME NEW c \in Consumer,
             Assign(c) \/ StopConsumer(c) \/ Crash(c) \/ CacheFails(c) \/ Start(c)
      PROVE  OnceInv'
    BY <1>2, QuietOnce, EndOnce
<1>3. CASE Revoke
    <2>1. owner \in Consumer
        BY <1>3 DEF Revoke, IInv, TypeOK
    <2> QED
        BY <1>3, <2>1, WasteOnce DEF Revoke
<1>4. CASE UNCHANGED vars
    BY <1>4 DEF vars, OnceInv, OnceAt, Single, HandledIn
<1> QED
    BY <1>1, <1>2, <1>3, <1>4, AppendOnce DEF Next

\* Copies(k) counts the records with key k.
LEMMA CopiesSingle ==
    ASSUME IInv, NEW i \in 1..Len(log), Copies(log[i]) <= 1
    PROVE  Single(i)
<1> DEFINE S == {j \in 1..Len(log) : log[j] = log[i]}
<1>1. Len(log) \in Nat /\ IsFiniteSet(1..Len(log)) /\ IsFiniteSet(S)
    <2>1. Len(log) \in Nat
        BY DEF IInv, TypeOK
    <2>2. IsFiniteSet(1..Len(log))
        BY <2>1, FS_Interval
    <2>3. S \subseteq 1..Len(log)
        OBVIOUS
    <2> QED
        BY <2>1, <2>2, <2>3, FS_Subset
<1>2. Cardinality(S) \in Nat /\ Cardinality(S) <= 1
    BY <1>1, FS_CardinalityType DEF Copies
<1>3. ASSUME NEW j \in 1..Len(log), log[j] = log[i], j # i
      PROVE  FALSE
    <2>1. {i, j} \subseteq S
        BY <1>3
    <2>2. Cardinality({i, j}) <= Cardinality(S) /\ IsFiniteSet({i, j})
        BY <1>1, <2>1, FS_Subset
    <2>3. Cardinality({i, j}) = 2
        <3>1. IsFiniteSet({i}) /\ Cardinality({i}) = 1
            BY FS_Singleton
        <3>2. j \notin {i}
            BY <1>3
        <3>3. Cardinality({i} \cup {j}) = 1 + 1
            BY <3>1, <3>2, FS_AddElement
        <3>4. {i} \cup {j} = {i, j}
            OBVIOUS
        <3>5. Cardinality({i, j}) = 1 + 1
            BY <3>3, <3>4, Zenon
        <3> QED
            BY <3>5
    <2> QED
        BY <1>2, <2>2, <2>3
<1> QED
    BY <1>3 DEF Single

\* A record that is in the log once reaches the listener again only when an
\* earlier handling was wasted, in a batch that no commit closed; for any number
\* of consumers, records, crashes, shutdowns, rebalances and failures of Redis.
THEOREM RepeatsAreWasted == Spec => []RepeatedOnlyIfWasted
<1>1. IInv /\ OnceInv => RepeatedOnlyIfWasted
    <2> SUFFICES ASSUME IInv, OnceInv, NEW k \in Key, Copies(k) <= 1
        PROVE  times[k] <= 1 + wasted[k]
        BY DEF RepeatedOnlyIfWasted
    <2>1. times[k] \in Nat /\ wasted[k] \in Nat
        BY DEF IInv, TypeOK
    <2>2. CASE times[k] > 0
        <3>1. PICK i \in 1..Len(log) : log[i] = k
            BY <2>2 DEF OnceInv
        <3> QED
            BY <2>1, <3>1, CopiesSingle DEF OnceInv, OnceAt
    <2> QED
        BY <2>1, <2>2
<1> QED
    BY <1>1, InitOnce, OnceStep, Invariance, PTL DEF Spec

-----------------------------------------------------------------------------
LEMMA TopicInit == Init => Topic!ATInit
BY DEF Init, Topic!ATInit, Handled

\* Every step appends a record, handles one, acknowledges a handled stretch,
\* or is invisible to a listener.
LEMMA TopicStep == IInv /\ IInv' /\ [Next]_vars => [Topic!ATNext]_(Topic!atVars)
<1> SUFFICES ASSUME IInv, IInv', [Next]_vars
    PROVE  Topic!ATNext \/ UNCHANGED <<log, committed, Handled>>
    BY DEF Topic!atVars
<1>t. TypeOK
    BY DEF IInv
<1> USE DEF broker, batch, history, budgets
<1>1. CASE DeliverMessage \/ ProducerRetry
    <2>1. \E k \in Key : log' = Append(log, k)
        BY <1>1, <1>t DEF DeliverMessage, ProducerRetry, TypeOK
    <2>2. UNCHANGED <<committed, Handled>>
        BY <1>1 DEF DeliverMessage, ProducerRetry, Handled
    <2> QED
        BY <2>1, <2>2 DEF Topic!ATNext, Topic!ATAppend
<1>2. ASSUME NEW c \in Consumer, HandleRecord(c)
      PROVE  Topic!ATNext
    <2>1. pos[c] \in 1..Len(log) /\ log[pos[c]] \in Key
        BY <1>2, NothingSkipped
    <2>2. times' = [times EXCEPT ![log[pos[c]]] = @ + 1] /\ times \in [Key -> Nat]
        BY <1>2, <1>t, NothingSkipped DEF TypeOK
    <2>3. Handled' = Handled \cup {log[pos[c]]}
        BY <2>1, <2>2 DEF Handled
    <2>4. UNCHANGED <<log, committed>>
        BY <1>2 DEF HandleRecord
    <2> QED
        BY <2>1, <2>3, <2>4 DEF Topic!ATNext, Topic!ATHandle
<1>3. ASSUME NEW c \in Consumer, CommitSync(c)
      PROVE  Topic!ATNext
    <2>1. /\ committed' = last[c] /\ UNCHANGED <<log, times>> /\ owner = c
          /\ pc[c] = "handle" /\ pos[c] > last[c]
        BY <1>3 DEF CommitSync, OffsetToCommit, Owns, BatchDone
    <2>2. committed' \in committed..Len(log)
        BY <1>t, <2>1 DEF IInv, BatchInv, InBatch, TypeOK
    <2>3. \A i \in 1..committed' : log[i] \in Handled
        BY <2>1 DEF IInv, NoRecordLost, Handled
    <2>4. UNCHANGED Handled
        BY <2>1 DEF Handled
    <2> QED
        BY <2>1, <2>2, <2>3, <2>4 DEF Topic!ATNext, Topic!ATAcknowledge
<1>4. CASE /\ ~DeliverMessage /\ ~ProducerRetry
           /\ \A c \in Consumer : ~HandleRecord(c) /\ ~CommitSync(c)
    <2>1. UNCHANGED <<log, committed, times>>
        BY <1>4 DEF Next, vars, Revoke, RunConsumer, Poll, CheckDuplicates,
           AddItem, CommitFails, DeleteItems, Woken, Assign,
           StopConsumer, CacheFails, Crash, Start
    <2> QED
        BY <2>1 DEF Handled
<1> QED
    BY <1>1, <1>2, <1>3, <1>4

\* runConsumer, behind any broker schedule, is an at-least-once topic: records
\* are handled after they are sent and acknowledged only once handled.
THEOREM ImplementsAtLeastOnce == Spec => ImplementsTopic
BY TopicInit, TopicStep, Invariance, PTL DEF Spec, ImplementsTopic, Topic!ATSpec
=============================================================================
