--------------------- MODULE NetworkUserService_proofs ---------------------
(***************************************************************************)
(* The theorems about the registries, for any number of sockets and users. *)
(***************************************************************************)
EXTENDS NetworkUserService, TLAPS

Waiting == {"asking", "leaving", "forgetting", "releasing", "admitting"}
Place == Waiting \cup {"off", "counting", "run", "left", "gone", "released", "granting"}
Instruction == {"none", "containsKey", "put", "get", "change", "drop", "done", "failed"}

\* The service's variables stay in their ranges.
ServiceTypes ==
    /\ map \in [Cell -> ListId \cup {0}]
    /\ lists \in [Cell -> [ListId -> SUBSET Slot]]
    /\ call \in [Thread -> Call \cup {NoCall}]
    /\ step \in [Thread -> Instruction]
    /\ list \in [Thread -> ListId \cup {0}]
    /\ saw \in [Thread -> SUBSET Slot]
    /\ dirty \subseteq Thread

\* A thread is at an instruction of the operation it is in.
OperationInv ==
    \A t \in Thread :
        /\ call[t] = NoCall <=> step[t] = "none"
        /\ step[t] \in {"containsKey", "put"} => call[t].do = "add"
        /\ step[t] = "drop" => call[t].do = "remove"
        /\ step[t] = "change" => list[t] \in ListId
        /\ step[t] = "drop" => list[t] \in ListId

\* Two operations on one entry know of each other.
AloneInv ==
    /\ \A s, t \in Thread :
          s # t /\ call[s].do # "none" /\ call[t].do # "none" /\ call[s].cell = call[t].cell
              => ~call[s].alone
    /\ \A t \in dirty : step[t] = "change" /\ ~call[t].alone

\* What an operation that is alone found out about its entry still holds.
Own(t) ==
    LET c == call[t].cell IN
    call[t].do # "none" /\ call[t].alone =>
        /\ step[t] = "put" => map[c] = 0
        /\ step[t] = "get" /\ call[t].do = "add" => map[c] # 0
        /\ step[t] = "change" => list[t] = map[c]
        /\ step[t] = "drop" => map[c] = 0 \/ lists[c][map[c]] = {}
        /\ step[t] # "failed"

OwnInv == \A t \in Thread : Own(t)

ServiceInv == ServiceTypes /\ OperationInv /\ AloneInv /\ OwnInv

\* The callers' variables stay in their ranges.
CallerTypes ==
    /\ counter \in Nat /\ socketId \in [Handler -> Nat]
    /\ userId \in [Handler -> User \cup {NoUser}]
    /\ authStatus \in [Handler -> {"NOT_AUTHENTICATED", "AUTHENTICATING", "AUTHENTICATED"}]
    /\ requests \subseteq User \X Nat \X Handler
    /\ reply \subseteq [user : User, handler : Handler]
    /\ at \in [Thread -> Place]

\* A thread is in an operation where its caller waits for one, and the consumer
\* thread has a reply exactly while it works on one.
WaitInv ==
    /\ \A t \in Thread : step[t] # "none" <=> at[t] \in Waiting
    /\ reply = {} <=> at[Kafka] = "run"

\* Whoever is in a list, or on the way into one, has asked for some user.
AskedMemory ==
    /\ \A c \in Cell, k \in ListId, h \in Handler : h \in lists[c][k] => userId[h] \in User
    /\ \A t \in Thread, h \in Handler : h \in saw[t] => userId[h] \in User
AskedCalls ==
    \A t \in Thread : call[t].do = "add" => userId[call[t].handler] \in User
AskedHandlers ==
    /\ \A r \in reply : userId[r.handler] \in User
    /\ \A h \in Handler :
          authStatus[h] # "NOT_AUTHENTICATED" \/ at[h] \in {"asking", "leaving", "left", "forgetting"}
              => userId[h] \in User
AskedInv == AskedMemory /\ AskedCalls /\ AskedHandlers

IInv == ServiceInv /\ CallerTypes /\ WaitInv /\ AskedInv

USE ThreadAssumption, ListAssumption

-----------------------------------------------------------------------------
LEMMA InitInv == Init => IInv
<1> SUFFICES ASSUME Init PROVE IInv
    OBVIOUS
<1>1. ServiceTypes /\ CallerTypes
    BY DEF Init, ServiceTypes, CallerTypes, Place, Waiting, Instruction, Thread, ListId, Slot
<1>2. OperationInv /\ WaitInv
    BY DEF Init, OperationInv, WaitInv, NoCall, Waiting, Thread
<1>3. AskedInv
    BY DEF Init, AskedInv, AskedMemory, AskedCalls, AskedHandlers, NoCall, Thread
<1>4. AloneInv /\ OwnInv
    BY DEF Init, AloneInv, OwnInv, Own, NoCall
<1> QED
    BY <1>1, <1>2, <1>3, <1>4 DEF IInv, ServiceInv

\* A call is a record with these fields.
LEMMA CallFields ==
    ASSUME ServiceTypes, NEW t \in Thread, call[t].do # "none"
    PROVE  /\ call[t] \in Call /\ call[t].do \in {"add", "remove"}
           /\ call[t].cell \in Cell /\ call[t].handler \in Handler
           /\ call[t].alone \in BOOLEAN
BY DEF ServiceTypes, Call, NoCall

LEMMA CallOrNone ==
    ASSUME ServiceTypes, OperationInv, NEW t \in Thread
    PROVE  call[t].do # "none" <=> step[t] # "none"
BY DEF ServiceTypes, OperationInv, Call, NoCall

\* What Begin does to the calls.
LEMMA BeginCalls ==
    ASSUME ServiceTypes, OperationInv, NEW t \in Thread, step[t] = "none",
           NEW do \in {"add", "remove"}, NEW registry \in Registry, NEW u \in User,
           NEW h \in Handler, Begin(t, do, registry, u, h)
    PROVE  /\ call' \in [Thread -> Call \cup {NoCall}]
           /\ call'[t].do = do /\ call'[t].cell = <<registry, u>> /\ call'[t].handler = h
           /\ call'[t] # NoCall
           /\ call'[t].alone => \A s \in Thread : ~InCall(s, <<registry, u>>)
           /\ \A s \in Thread : s # t =>
                 /\ \/ call'[s] = call[s]
                    \/ /\ InCall(s, <<registry, u>>) /\ ~call'[s].alone
                       /\ call'[s] # NoCall
                       /\ call'[s].do = call[s].do /\ call'[s].cell = call[s].cell
                       /\ call'[s].handler = call[s].handler
                 /\ InCall(s, <<registry, u>>) => ~call'[s].alone
           /\ step' = [step EXCEPT ![t] = IF do = "add" THEN "containsKey" ELSE "get"]
<1> DEFINE c == <<registry, u>>
           others == {s \in Thread : InCall(s, c)}
           new == [do |-> do, cell |-> c, handler |-> h, alone |-> others = {}]
<1>1. c \in Cell
    BY DEF Cell
<1>2. new \in Call
    BY <1>1 DEF Call
<1>3. /\ call' = [s \in Thread |->
                   IF s = t THEN new
                   ELSE IF s \in others THEN [call[s] EXCEPT !.alone = FALSE] ELSE call[s]]
      /\ step' = [step EXCEPT ![t] = IF do = "add" THEN "containsKey" ELSE "get"]
    BY DEF Begin
<1>4. ASSUME NEW s \in others
      PROVE  LET new2 == [call[s] EXCEPT !.alone = FALSE] IN
             /\ new2 \in Call /\ ~new2.alone /\ new2.do = call[s].do
             /\ new2.cell = call[s].cell /\ new2.handler = call[s].handler
    <2>1. call[s] \in Call
        BY CallFields DEF InCall
    <2> QED
        BY <2>1 DEF Call
<1>5. call[t].do = "none" /\ t \notin others
    BY CallOrNone DEF InCall
<1>6. \A k \in Call : k # NoCall
    BY DEF Call, NoCall
<1>7. call' \in [Thread -> Call \cup {NoCall}]
    BY <1>2, <1>3, <1>4 DEF ServiceTypes
<1>8. /\ call'[t].do = do /\ call'[t].cell = c /\ call'[t].handler = h
      /\ call'[t] # NoCall /\ (call'[t].alone => others = {})
    <2>1. call'[t] = new
        BY <1>3
    <2> HIDE DEF others
    <2>2. new.do = do /\ new.cell = c /\ new.handler = h /\ (new.alone => others = {})
        OBVIOUS
    <2> QED
        BY <1>2, <1>6, <2>1, <2>2
<1>9. call'[t].alone => \A s \in Thread : ~InCall(s, c)
    BY <1>8
<1>10. ASSUME NEW s \in Thread, s # t
       PROVE  /\ \/ call'[s] = call[s]
                 \/ /\ InCall(s, c) /\ ~call'[s].alone /\ call'[s] # NoCall
                    /\ call'[s].do = call[s].do /\ call'[s].cell = call[s].cell
                    /\ call'[s].handler = call[s].handler
              /\ InCall(s, c) => ~call'[s].alone
    <2>1. CASE s \in others
        <3>1. call'[s] = [call[s] EXCEPT !.alone = FALSE]
            BY <1>3, <1>10, <2>1
        <3> QED
            BY <1>4, <1>6, <2>1, <3>1
    <2>2. CASE s \notin others
        BY <1>3, <1>10, <2>2
    <2> QED
        BY <2>1, <2>2
<1> HIDE DEF others, new
<1> QED
    BY <1>3, <1>7, <1>8, <1>9, <1>10

\* An operation that is alone has its entry for itself.
LEMMA Apart ==
    ASSUME ServiceInv, NEW s \in Thread, NEW t \in Thread, s # t,
           call[s].do # "none", call[t].do # "none", call[s].alone
    PROVE  call[s].cell # call[t].cell
BY DEF ServiceInv, AloneInv

-----------------------------------------------------------------------------
\* The service's own steps.

LEMMA ContainsKeyStep ==
    ASSUME ServiceInv, NEW t \in Thread, ContainsKey(t)
    PROVE  ServiceInv'
<1> USE DEF ServiceInv
<1>1. call[t].do # "none" /\ call[t].cell \in Cell
    BY CallOrNone, CallFields DEF ContainsKey
<1>2. ServiceTypes'
    BY DEF ContainsKey, Goto, memory, ServiceTypes, Instruction
<1>3. OperationInv'
    BY DEF ContainsKey, Goto, memory, ServiceTypes, OperationInv
<1>4. AloneInv'
    BY DEF ContainsKey, Goto, memory, ServiceTypes, AloneInv
<1>5. OwnInv'
    BY DEF ContainsKey, Goto, memory, ServiceTypes, OwnInv, Own
<1> QED
    BY <1>2, <1>3, <1>4, <1>5

LEMMA PutStep ==
    ASSUME ServiceInv, NEW t \in Thread, Put(t)
    PROVE  ServiceInv'
<1> USE DEF ServiceInv
<1> DEFINE c == call[t].cell
<1>1. call[t].do = "add" /\ c \in Cell
    BY CallFields DEF Put, OperationInv
<1>2. PICK k \in ListId :
         /\ map' = [map EXCEPT ![c] = k]
         /\ lists' = [lists EXCEPT ![c] =
               [j \in ListId |-> IF \E s \in Thread : Holds(s, c, j) THEN @[j] ELSE {}]]
    BY DEF Put
<1>3. step' = [step EXCEPT ![t] = "get"] /\ UNCHANGED <<call, list, saw, dirty>>
    BY DEF Put, Goto
<1>4. ServiceTypes'
    <2>1. lists' \in [Cell -> [ListId -> SUBSET Slot]]
        BY <1>1, <1>2 DEF ServiceTypes
    <2> QED
        BY <1>1, <1>2, <1>3, <2>1 DEF ServiceTypes, Instruction
<1>5. OperationInv'
    BY <1>1, <1>3 DEF ServiceTypes, OperationInv, NoCall, Put
<1>6. AloneInv'
    BY <1>3 DEF ServiceTypes, AloneInv, Put
<1>7. ASSUME NEW s \in Thread, s # t, call[s].do # "none", call[s].alone
      PROVE  map'[call[s].cell] = map[call[s].cell] /\ lists'[call[s].cell] = lists[call[s].cell]
    <2>1. call[s].cell # c /\ call[s].cell \in Cell
        BY <1>1, <1>7, Apart, CallFields
    <2> QED
        BY <1>2, <2>1 DEF ServiceTypes
<1>8. map'[c] # 0
    BY <1>1, <1>2 DEF ServiceTypes, ListId
<1>9. OwnInv'
    BY <1>3, <1>7, <1>8 DEF ServiceTypes, OwnInv, Own
<1> QED
    BY <1>4, <1>5, <1>6, <1>9

LEMMA GetStep ==
    ASSUME ServiceInv, NEW t \in Thread, Get(t)
    PROVE  ServiceInv'
<1> USE DEF ServiceInv
<1> DEFINE c == call[t].cell
           rivals == {s \in Thread : InCall(s, c) /\ step[s] = "change" /\ list[s] = map[c]}
<1>1. call[t].do # "none" /\ c \in Cell /\ step[t] = "get"
    BY CallOrNone, CallFields DEF Get
<1>2. UNCHANGED <<map, lists, call>>
    BY DEF Get, memory
<1>3. CASE map[c] = 0
    <2>1. /\ step' = [step EXCEPT ![t] = IF call[t].do = "add" THEN "failed" ELSE "done"]
          /\ UNCHANGED <<list, saw, dirty>>
        BY <1>3 DEF Get, Goto
    <2>2. ServiceTypes' /\ OperationInv'
        BY <1>1, <1>2, <2>1 DEF ServiceTypes, OperationInv, Instruction
    <2>3. AloneInv'
        BY <1>1, <1>2, <2>1 DEF ServiceTypes, AloneInv
    <2>4. OwnInv'
        BY <1>1, <1>2, <1>3, <2>1 DEF ServiceTypes, OwnInv, Own
    <2> QED
        BY <2>2, <2>3, <2>4
<1>4. CASE map[c] # 0
    <2>1. /\ step' = [step EXCEPT ![t] = "change"]
          /\ list' = [list EXCEPT ![t] = map[c]]
          /\ saw' = [saw EXCEPT ![t] = lists[c][map[c]]]
          /\ dirty' = IF rivals = {} THEN dirty ELSE dirty \cup rivals \cup {t}
        BY <1>4 DEF Get, Goto
    <2>2. map[c] \in ListId
        BY <1>1, <1>4 DEF ServiceTypes
    <2>3. ServiceTypes' /\ OperationInv'
        <3>1. lists[c][map[c]] \in SUBSET Slot
            BY <1>1, <2>2 DEF ServiceTypes
        <3> HIDE DEF c
        <3>2. ServiceTypes'
            BY <1>1, <1>2, <2>1, <2>2, <3>1 DEF ServiceTypes, Instruction
        <3> QED
            BY <1>1, <1>2, <2>1, <2>2, <3>2 DEF ServiceTypes, OperationInv
    <2>4. ASSUME NEW s \in rivals
          PROVE  s # t /\ ~call[s].alone /\ ~call[t].alone /\ step[s] = "change"
        BY <1>1 DEF AloneInv, InCall
    <2>5. AloneInv'
        BY <1>1, <1>2, <2>1, <2>4 DEF ServiceTypes, AloneInv
    <2>6. OwnInv'
        BY <1>1, <1>2, <2>1 DEF ServiceTypes, OwnInv, Own
    <2> QED
        BY <2>3, <2>5, <2>6
<1> QED
    BY <1>3, <1>4

\* What every outcome of a list operation has in common, and what an operation
\* that nothing overlaps does.
LEMMA ChangeEffect ==
    ASSUME ServiceInv, NEW t \in Thread, Change(t)
    PROVE  /\ call[t].do # "none" /\ call[t].cell \in Cell /\ list[t] \in ListId
           /\ step[t] = "change"
           /\ \E L \in SUBSET Slot :
                 /\ \/ L \subseteq lists[call[t].cell][list[t]] \cup saw[t] \cup {Null}
                    \/ /\ call[t].do = "add"
                       /\ L \subseteq lists[call[t].cell][list[t]] \cup saw[t]
                                         \cup {Null, call[t].handler}
                 /\ lists' = [lists EXCEPT ![call[t].cell][list[t]] = L]
                 /\ \E i \in {"drop", "done", "failed"} :
                       /\ step' = [step EXCEPT ![t] = i]
                       /\ i = "drop" => L = {} /\ call[t].do = "remove"
                       /\ i = "failed" => t \in dirty
                 /\ t \notin dirty =>
                       /\ L = Changed(t, lists[call[t].cell][list[t]])
                       /\ step' = [step EXCEPT ![t] = After(t, L)]
           /\ dirty' = dirty \ {t} /\ saw' = [saw EXCEPT ![t] = {}]
           /\ UNCHANGED <<map, call, list>>
<1> USE DEF ServiceInv
<1> DEFINE c == call[t].cell
           old == lists[c][list[t]]
<1>1. /\ call[t].do \in {"add", "remove"} /\ c \in Cell /\ list[t] \in ListId
      /\ step[t] = "change" /\ call[t].handler \in Handler
    <2>1. step[t] = "change" /\ list[t] \in ListId
        BY DEF Change, OperationInv
    <2> QED
        BY <2>1, CallOrNone, CallFields
<1>2. old \in SUBSET Slot /\ saw[t] \in SUBSET Slot
    BY <1>1 DEF ServiceTypes
<1>3. dirty' = dirty \ {t} /\ saw' = [saw EXCEPT ![t] = {}] /\ UNCHANGED <<map, call, list>>
    BY DEF Change
<1>4. ASSUME NEW B \in SUBSET Slot
      PROVE  /\ Changed(t, B) \in SUBSET Slot
             /\ \/ Changed(t, B) \subseteq B
                \/ call[t].do = "add" /\ Changed(t, B) \subseteq B \cup {call[t].handler}
    BY <1>1 DEF Changed, Slot
<1>5. ASSUME NEW L
      PROVE  /\ After(t, L) \in {"drop", "done"}
             /\ After(t, L) = "drop" => L = {} /\ call[t].do = "remove"
    BY DEF After
<1>6. CASE /\ lists' = [lists EXCEPT ![c][list[t]] = Changed(t, old)]
           /\ step' = [step EXCEPT ![t] = After(t, Changed(t, old))]
    <2> HIDE DEF c, old
    <2>1. Changed(t, old) \in SUBSET Slot
        BY <1>2, <1>4
    <2>2. \/ Changed(t, old) \subseteq old \cup saw[t] \cup {Null}
          \/ /\ call[t].do = "add"
             /\ Changed(t, old) \subseteq old \cup saw[t] \cup {Null, call[t].handler}
        BY <1>2, <1>4
    <2>3. \E i \in {"drop", "done", "failed"} :
             /\ step' = [step EXCEPT ![t] = i]
             /\ i = "drop" => Changed(t, old) = {} /\ call[t].do = "remove"
             /\ i = "failed" => t \in dirty
        BY <1>5, <1>6
    <2>4. \E L \in SUBSET Slot :
             /\ \/ L \subseteq old \cup saw[t] \cup {Null}
                \/ call[t].do = "add" /\ L \subseteq old \cup saw[t] \cup {Null, call[t].handler}
             /\ lists' = [lists EXCEPT ![c][list[t]] = L]
             /\ \E i \in {"drop", "done", "failed"} :
                   /\ step' = [step EXCEPT ![t] = i]
                   /\ i = "drop" => L = {} /\ call[t].do = "remove"
                   /\ i = "failed" => t \in dirty
             /\ t \notin dirty => L = Changed(t, old) /\ step' = [step EXCEPT ![t] = After(t, L)]
        <3> WITNESS Changed(t, old) \in SUBSET Slot
        <3> QED
            BY <1>6, <2>2, <2>3
    <2> QED
        BY <1>1, <1>3, <2>4 DEF c, old
<1>7. CASE /\ t \in dirty
           /\ \E L \in {old, old \cup {Null}, Changed(t, saw[t])} :
                 /\ lists' = [lists EXCEPT ![c][list[t]] = L]
                 /\ \/ step' = [step EXCEPT ![t] = After(t, L)]
                    \/ step' = [step EXCEPT ![t] = "failed"]
    <2>1. PICK L \in {old, old \cup {Null}, Changed(t, saw[t])} :
             /\ lists' = [lists EXCEPT ![c][list[t]] = L]
             /\ \/ step' = [step EXCEPT ![t] = After(t, L)]
                \/ step' = [step EXCEPT ![t] = "failed"]
        BY <1>7
    <2> HIDE DEF c, old
    <2>2. L \in SUBSET Slot
        BY <1>2, <1>4 DEF Slot
    <2>3. \/ L \subseteq old \cup saw[t] \cup {Null}
          \/ call[t].do = "add" /\ L \subseteq old \cup saw[t] \cup {Null, call[t].handler}
        BY <1>2, <1>4
    <2>4. \E i \in {"drop", "done", "failed"} :
             /\ step' = [step EXCEPT ![t] = i]
             /\ i = "drop" => L = {} /\ call[t].do = "remove"
             /\ i = "failed" => t \in dirty
        BY <1>5, <1>7, <2>1
    <2> QED
        BY <1>1, <1>3, <1>7, <2>1, <2>2, <2>3, <2>4 DEF c, old
<1> QED
    BY <1>6, <1>7 DEF Change, Goto

LEMMA ChangeStep ==
    ASSUME ServiceInv, NEW t \in Thread, Change(t)
    PROVE  ServiceInv'
<1> USE DEF ServiceInv
<1> DEFINE c == call[t].cell
<1>1. /\ call[t].do # "none" /\ c \in Cell /\ list[t] \in ListId /\ step[t] = "change"
      /\ dirty' = dirty \ {t} /\ saw' = [saw EXCEPT ![t] = {}]
      /\ UNCHANGED <<map, call, list>>
    BY ChangeEffect
<1>2. PICK L \in SUBSET Slot : lists' = [lists EXCEPT ![c][list[t]] = L] /\
         \E i \in {"drop", "done", "failed"} :
            /\ step' = [step EXCEPT ![t] = i]
            /\ i = "drop" => L = {} /\ call[t].do = "remove"
            /\ i = "failed" => t \in dirty
    BY ChangeEffect
<1>3. PICK i \in {"drop", "done", "failed"} :
         /\ step' = [step EXCEPT ![t] = i]
         /\ i = "drop" => L = {} /\ call[t].do = "remove"
         /\ i = "failed" => t \in dirty
    BY <1>2
<1> HIDE DEF c
<1>4. lists' \in [Cell -> [ListId -> SUBSET Slot]] /\ lists'[c][list[t]] = L
    BY <1>1, <1>2 DEF ServiceTypes
<1>5. ServiceTypes'
    BY <1>1, <1>3, <1>4 DEF ServiceTypes, Instruction
<1>6. OperationInv'
    BY <1>1, <1>3 DEF ServiceTypes, OperationInv
<1>7. AloneInv'
    BY <1>1, <1>3 DEF ServiceTypes, AloneInv
<1>8. ASSUME NEW s \in Thread, s # t, call[s].do # "none", call[s].alone
      PROVE  lists'[call[s].cell] = lists[call[s].cell]
    <2>1. call[s].cell # c /\ call[s].cell \in Cell
        BY <1>1, <1>8, Apart, CallFields DEF c
    <2> QED
        BY <1>2, <2>1 DEF ServiceTypes
<1>9. ASSUME call[t].alone
      PROVE  i # "failed" /\ (i = "drop" => lists'[c][map'[c]] = {})
    <2>1. list[t] = map[c] /\ t \notin dirty
        BY <1>1, <1>9 DEF OwnInv, Own, AloneInv, c
    <2>2. i = "drop" => lists'[c][map'[c]] = {}
        BY <1>1, <1>3, <1>4, <2>1
    <2> QED
        BY <1>3, <2>1, <2>2
<1>10. OwnInv'
    <2> SUFFICES ASSUME NEW s \in Thread
                 PROVE  Own(s)'
        BY DEF OwnInv
    <2>1. CASE s = t
        BY <1>1, <1>3, <1>9, <2>1 DEF ServiceTypes, Own, c
    <2>2. CASE s # t
        BY <1>1, <1>3, <1>8, <2>2 DEF ServiceTypes, OwnInv, Own
    <2> QED
        BY <2>1, <2>2
<1> QED
    BY <1>5, <1>6, <1>7, <1>10

LEMMA DropStep ==
    ASSUME ServiceInv, NEW t \in Thread, Drop(t)
    PROVE  ServiceInv'
<1> USE DEF ServiceInv
<1> DEFINE c == call[t].cell
<1>1. call[t].do # "none" /\ c \in Cell /\ step[t] = "drop"
    BY CallOrNone, CallFields DEF Drop
<1>2. /\ map' = [map EXCEPT ![c] = 0] /\ step' = [step EXCEPT ![t] = "done"]
      /\ UNCHANGED <<lists, call, list, saw, dirty>>
    BY DEF Drop, Goto
<1>3. ServiceTypes' /\ OperationInv'
    BY <1>1, <1>2 DEF ServiceTypes, OperationInv, Instruction
<1>4. AloneInv'
    BY <1>1, <1>2 DEF ServiceTypes, AloneInv
<1>5. ASSUME NEW s \in Thread, s # t, call[s].do # "none", call[s].alone
      PROVE  map'[call[s].cell] = map[call[s].cell]
    <2>1. call[s].cell # c /\ call[s].cell \in Cell
        BY <1>1, <1>5, Apart, CallFields
    <2> QED
        BY <1>2, <2>1 DEF ServiceTypes
<1> HIDE DEF c
<1>6. OwnInv'
    <2> SUFFICES ASSUME NEW s \in Thread
                 PROVE  Own(s)'
        BY DEF OwnInv
    <2>1. CASE s = t
        BY <1>1, <1>2, <2>1 DEF ServiceTypes, Own
    <2>2. CASE s # t
        <3>1. step'[s] = step[s]
            BY <1>2, <2>2 DEF ServiceTypes
        <3>2. call' = call /\ lists' = lists /\ list' = list
            BY <1>2
        <3> QED
            BY <1>5, <2>2, <3>1, <3>2 DEF OwnInv, Own
    <2> QED
        BY <2>1, <2>2
<1> QED
    BY <1>3, <1>4, <1>6

LEMMA ServiceStep ==
    ASSUME ServiceInv, NEW t \in Thread, Service(t)
    PROVE  ServiceInv'
BY ContainsKeyStep, PutStep, GetStep, ChangeStep, DropStep DEF Service

LEMMA BeginStep ==
    ASSUME ServiceInv, NEW t \in Thread, step[t] = "none",
           NEW do \in {"add", "remove"}, NEW registry \in Registry, NEW u \in User,
           NEW h \in Handler, Begin(t, do, registry, u, h), UNCHANGED memory
    PROVE  ServiceInv'
<1> USE DEF ServiceInv
<1> DEFINE c == <<registry, u>>
<1>1. UNCHANGED <<map, lists, list, saw, dirty>>
    BY DEF Begin, memory
<1>2. /\ call' \in [Thread -> Call \cup {NoCall}]
      /\ call'[t].do = do /\ call'[t].cell = c /\ call'[t].handler = h
      /\ call'[t] # NoCall
      /\ call'[t].alone => \A s \in Thread : ~InCall(s, c)
      /\ step' = [step EXCEPT ![t] = IF do = "add" THEN "containsKey" ELSE "get"]
    BY BeginCalls
<1>3. ASSUME NEW s \in Thread, s # t
      PROVE  /\ \/ call'[s] = call[s]
                \/ /\ InCall(s, c) /\ ~call'[s].alone /\ call'[s] # NoCall
                   /\ call'[s].do = call[s].do /\ call'[s].cell = call[s].cell
                   /\ call'[s].handler = call[s].handler
             /\ InCall(s, c) => ~call'[s].alone
    BY <1>3, BeginCalls
<1>4. call[t].do = "none"
    BY CallOrNone
<1> HIDE DEF c
<1>5. ServiceTypes'
    BY <1>1, <1>2 DEF ServiceTypes, Instruction
<1>6. OperationInv'
    <2> SUFFICES ASSUME NEW s \in Thread
                 PROVE  /\ call'[s] = NoCall <=> step'[s] = "none"
                        /\ step'[s] \in {"containsKey", "put"} => call'[s].do = "add"
                        /\ step'[s] = "drop" => call'[s].do = "remove"
                        /\ step'[s] = "change" => list'[s] \in ListId
                        /\ step'[s] = "drop" => list'[s] \in ListId
        BY DEF OperationInv
    <2>1. CASE s = t
        BY <1>2, <2>1 DEF ServiceTypes
    <2>2. CASE s # t
        <3>1. step'[s] = step[s] /\ list'[s] = list[s]
            BY <1>1, <1>2, <2>2 DEF ServiceTypes
        <3>2. InCall(s, c) => call[s] # NoCall
            BY DEF InCall, NoCall
        <3> QED
            BY <1>3, <2>2, <3>1, <3>2 DEF OperationInv
    <2> QED
        BY <2>1, <2>2
<1>7. ASSUME NEW s \in Thread, call'[s].do # "none", call'[s].alone, s # t
      PROVE  call'[s] = call[s] /\ call[s].cell # c /\ step'[s] = step[s]
    <2>1. call'[s] = call[s] /\ ~InCall(s, c)
        BY <1>3, <1>7
    <2> QED
        BY <1>2, <1>7, <2>1 DEF InCall, ServiceTypes
<1>8. AloneInv'
    <2>1. ASSUME NEW s \in Thread, NEW v \in Thread, s # v, call'[s].do # "none",
                 call'[v].do # "none", call'[s].cell = call'[v].cell
          PROVE  ~call'[s].alone
        <3> SUFFICES ASSUME call'[s].alone PROVE FALSE
            OBVIOUS
        <3>1. CASE s = t
            <4>1. call[v].do = call'[v].do /\ call[v].cell = call'[v].cell
                BY <1>3, <2>1, <3>1
            <4> QED
                BY <1>2, <2>1, <3>1, <4>1 DEF InCall
        <3>2. CASE s # t /\ v = t
            BY <1>2, <1>7, <2>1, <3>2
        <3>3. CASE s # t /\ v # t
            <4>1. call[v].do = call'[v].do /\ call[v].cell = call'[v].cell
                BY <1>3, <3>3
            <4>2. call'[s] = call[s]
                BY <1>7, <2>1, <3>3
            <4> QED
                BY <2>1, <4>1, <4>2 DEF AloneInv
        <3> QED
            BY <3>1, <3>2, <3>3
    <2>2. ASSUME NEW s \in dirty
          PROVE  step'[s] = "change" /\ ~call'[s].alone
        <3>1. step[s] = "change" /\ ~call[s].alone /\ s \in Thread
            BY DEF AloneInv, ServiceTypes
        <3>2. s # t
            BY <3>1
        <3>3. call'[s] = call[s] \/ ~call'[s].alone
            BY <1>3, <3>1, <3>2
        <3> QED
            BY <1>2, <3>1, <3>2, <3>3 DEF ServiceTypes
    <2> QED
        BY <1>1, <2>1, <2>2 DEF AloneInv
<1>9. OwnInv'
    <2> SUFFICES ASSUME NEW s \in Thread
                 PROVE  Own(s)'
        BY DEF OwnInv
    <2>1. CASE s = t
        BY <1>2, <2>1 DEF ServiceTypes, Own
    <2>2. CASE s # t
        BY <1>1, <1>7, <2>2 DEF OwnInv, Own
    <2> QED
        BY <2>1, <2>2
<1> QED
    BY <1>5, <1>6, <1>8, <1>9

LEMMA ReturnStep ==
    ASSUME ServiceInv, NEW t \in Thread, Return(t)
    PROVE  ServiceInv' /\ \A c \in Cell, k \in ListId : lists'[c][k] \subseteq lists[c][k]
<1> USE DEF ServiceInv
<1> DEFINE c == call[t].cell
           kept == {map[c]} \cup {list[s] : s \in {v \in Thread \ {t} : InCall(v, c)}}
<1>1. call[t].do # "none" /\ c \in Cell /\ step[t] \in {"done", "failed"}
    BY CallOrNone, CallFields DEF Return
<1>2. /\ call' = [call EXCEPT ![t] = NoCall] /\ step' = [step EXCEPT ![t] = "none"]
      /\ list' = [list EXCEPT ![t] = 0]
      /\ lists' = [lists EXCEPT ![c] = [k \in ListId |-> IF k \in kept THEN @[k] ELSE {}]]
      /\ UNCHANGED <<map, saw, dirty>>
    BY DEF Return
<1> HIDE DEF c, kept
<1>3. /\ lists' \in [Cell -> [ListId -> SUBSET Slot]]
      /\ \A d \in Cell, k \in ListId : lists'[d][k] \subseteq lists[d][k]
    BY <1>1, <1>2 DEF ServiceTypes
<1>4. ServiceTypes'
    BY <1>2, <1>3 DEF ServiceTypes, Instruction
<1>5. OperationInv'
    BY <1>2 DEF ServiceTypes, OperationInv
<1>6. AloneInv'
    BY <1>1, <1>2 DEF ServiceTypes, AloneInv, NoCall
<1>7. ASSUME NEW s \in Thread, s # t, call[s].do # "none", call[s].alone
      PROVE  lists'[call[s].cell] = lists[call[s].cell]
    <2>1. call[s].cell # c /\ call[s].cell \in Cell
        BY <1>1, <1>7, Apart, CallFields DEF c
    <2> QED
        BY <1>2, <2>1 DEF ServiceTypes
<1>8. OwnInv'
    BY <1>2, <1>7 DEF ServiceTypes, OwnInv, Own, NoCall
<1> QED
    BY <1>3, <1>4, <1>5, <1>6, <1>8

\* An operation in progress stays in progress, and no other thread moves.
LEMMA ServiceMoves ==
    ASSUME ServiceInv, NEW t \in Thread, Service(t)
    PROVE  /\ step[t] # "none" /\ step'[t] # "none"
           /\ \A s \in Thread : s # t => step'[s] = step[s]
           /\ UNCHANGED <<handlers, callers, call, spoiled, granted, raced, asks>>
<1> USE DEF ServiceInv
<1>1. CASE ContainsKey(t)
    BY <1>1 DEF ContainsKey, Goto, ServiceTypes, history
<1>2. CASE Put(t)
    BY <1>2 DEF Put, Goto, ServiceTypes, history
<1>3. CASE Get(t)
    BY <1>3 DEF Get, Goto, ServiceTypes, history
<1>4. CASE Change(t)
    <2>1. step[t] = "change"
        BY <1>4, ChangeEffect
    <2>2. PICK i \in {"drop", "done", "failed"} : step' = [step EXCEPT ![t] = i]
        BY <1>4, ChangeEffect
    <2> QED
        BY <1>4, <2>1, <2>2 DEF Change, ServiceTypes
<1>5. CASE Drop(t)
    BY <1>5 DEF Drop, Goto, ServiceTypes, history
<1> QED
    BY <1>1, <1>2, <1>3, <1>4, <1>5 DEF Service

LEMMA ServiceAsked ==
    ASSUME ServiceInv, AskedMemory, AskedCalls, NEW t \in Thread, Service(t)
    PROVE  AskedMemory'
<1> USE DEF ServiceInv
<1>1. call[t].cell \in Cell /\ call[t].handler \in Handler /\ userId' = userId
    BY ServiceMoves, CallOrNone, CallFields DEF handlers
<1>2. CASE ContainsKey(t) \/ Drop(t)
    BY <1>1, <1>2 DEF ContainsKey, Drop, memory, AskedMemory
<1>3. CASE Put(t)
    <2>1. saw' = saw
        BY <1>3 DEF Put
    <2>2. \A c \in Cell, k \in ListId : lists'[c][k] \subseteq lists[c][k]
        BY <1>1, <1>3 DEF Put, ServiceTypes
    <2> QED
        BY <1>1, <2>1, <2>2 DEF AskedMemory
<1>4. CASE Get(t)
    <2>1. lists' = lists
        BY <1>4 DEF Get, memory
    <2>2. saw' = saw \/ (map[call[t].cell] \in ListId
                         /\ saw' = [saw EXCEPT ![t] = lists[call[t].cell][map[call[t].cell]]])
        BY <1>1, <1>4 DEF Get, ServiceTypes
    <2> QED
        BY <1>1, <2>1, <2>2 DEF AskedMemory, ServiceTypes
<1>5. CASE Change(t)
    <2> DEFINE c == call[t].cell
               k == list[t]
    <2>1. k \in ListId /\ saw' = [saw EXCEPT ![t] = {}]
        BY <1>5, ChangeEffect
    <2>2. PICK L \in SUBSET Slot :
             /\ \/ L \subseteq lists[c][k] \cup saw[t] \cup {Null}
                \/ /\ call[t].do = "add"
                   /\ L \subseteq lists[c][k] \cup saw[t] \cup {Null, call[t].handler}
             /\ lists' = [lists EXCEPT ![c][k] = L]
        BY <1>5, ChangeEffect
    <2>3. ASSUME NEW h \in Handler, h \in L
          PROVE  userId[h] \in User
        <3>1. h # Null
            OBVIOUS
        <3> QED
            BY <1>1, <2>1, <2>2, <2>3, <3>1 DEF AskedMemory, AskedCalls
    <2> HIDE DEF c, k
    <2>4. ASSUME NEW d \in Cell, NEW j \in ListId
          PROVE  lists'[d][j] \subseteq lists[d][j] \/ lists'[d][j] = L
        BY <2>2 DEF ServiceTypes
    <2>5. ASSUME NEW s \in Thread
          PROVE  saw'[s] \subseteq saw[s]
        BY <2>1 DEF ServiceTypes
    <2> QED
        BY <1>1, <2>3, <2>4, <2>5 DEF AskedMemory
<1> QED
    BY <1>2, <1>3, <1>4, <1>5 DEF Service

\* Who has asked for a user keeps one.
StillAsked == \A g \in Handler : userId[g] \in User => userId'[g] \in User

LEMMA BeginAsked ==
    ASSUME ServiceInv, AskedCalls, NEW t \in Thread, step[t] = "none",
           NEW do \in {"add", "remove"}, NEW registry \in Registry, NEW u \in User,
           NEW h \in Handler, Begin(t, do, registry, u, h),
           StillAsked, userId'[h] \in User
    PROVE  AskedCalls' /\ \A s \in Thread : s # t => step'[s] = step[s]
<1> USE DEF ServiceInv
<1> DEFINE c == <<registry, u>>
<1>1. /\ call' \in [Thread -> Call \cup {NoCall}]
      /\ call'[t].do = do /\ call'[t].cell = c /\ call'[t].handler = h
      /\ call'[t] # NoCall
      /\ call'[t].alone => \A s \in Thread : ~InCall(s, c)
      /\ step' = [step EXCEPT ![t] = IF do = "add" THEN "containsKey" ELSE "get"]
    BY BeginCalls
<1>2. ASSUME NEW s \in Thread, s # t
      PROVE  /\ \/ call'[s] = call[s]
                \/ /\ InCall(s, c) /\ ~call'[s].alone /\ call'[s] # NoCall
                   /\ call'[s].do = call[s].do /\ call'[s].cell = call[s].cell
                   /\ call'[s].handler = call[s].handler
             /\ InCall(s, c) => ~call'[s].alone
    BY <1>2, BeginCalls
<1> HIDE DEF c
<1>3. ASSUME NEW s \in Thread, call'[s].do = "add"
      PROVE  userId'[call'[s].handler] \in User
    <2>1. CASE s = t
        BY <1>1, <2>1
    <2>2. CASE s # t
        <3>1. call[s].do = "add" /\ call'[s].handler = call[s].handler
            BY <1>2, <1>3, <2>2
        <3>2. userId[call[s].handler] \in User /\ call[s].handler \in Handler
            BY <3>1, CallFields DEF AskedCalls
        <3> QED
            BY <3>1, <3>2 DEF StillAsked
    <2> QED
        BY <2>1, <2>2
<1> QED
    BY <1>1, <1>3 DEF AskedCalls, ServiceTypes

LEMMA ReturnAsked ==
    ASSUME ServiceInv, AskedMemory, AskedCalls, NEW t \in Thread, Return(t), userId' = userId
    PROVE  /\ AskedMemory' /\ AskedCalls'
           /\ step'[t] = "none" /\ \A s \in Thread : s # t => step'[s] = step[s]
<1> USE DEF ServiceInv
<1>1. /\ call' = [call EXCEPT ![t] = NoCall] /\ step' = [step EXCEPT ![t] = "none"]
      /\ saw' = saw
    BY DEF Return
<1>2. \A c \in Cell, k \in ListId : lists'[c][k] \subseteq lists[c][k]
    BY ReturnStep
<1>3. AskedMemory'
    BY <1>1, <1>2 DEF AskedMemory
<1>4. AskedCalls'
    BY <1>1 DEF AskedCalls, ServiceTypes, NoCall
<1> QED
    BY <1>1, <1>3, <1>4 DEF ServiceTypes

-----------------------------------------------------------------------------
\* The callers' steps.

\* A caller begins an operation: what remains to be shown is about the caller.
LEMMA BeginFrom ==
    ASSUME IInv, NEW t \in Thread, at[t] \notin Waiting,
           NEW do \in {"add", "remove"}, NEW registry \in Registry, NEW u \in User,
           NEW h \in Handler, Begin(t, do, registry, u, h), UNCHANGED memory,
           StillAsked, userId'[h] \in User,
           CallerTypes', NEW p \in Waiting, at' = [at EXCEPT ![t] = p],
           reply' = {} <=> at'[Kafka] = "run",
           AskedHandlers'
    PROVE  IInv'
<1>1. step[t] = "none" /\ ServiceInv /\ AskedMemory /\ AskedCalls
    BY DEF IInv, WaitInv, AskedInv
<1>2. ServiceInv'
    BY <1>1, BeginStep
<1>3. AskedCalls' /\ \A s \in Thread : s # t => step'[s] = step[s]
    BY <1>1, BeginAsked
<1>4. UNCHANGED <<lists, saw>>
    BY DEF Begin, memory
<1>5. AskedMemory'
    BY <1>1, <1>4 DEF AskedMemory, StillAsked
<1>6. step'[t] # "none"
    BY <1>1 DEF Begin, ServiceInv, ServiceTypes
<1>7. WaitInv'
    BY <1>3, <1>6 DEF IInv, CallerTypes, WaitInv
<1> QED
    BY <1>2, <1>3, <1>5, <1>7 DEF IInv, AskedInv

\* A caller returns from an operation.
LEMMA ReturnFrom ==
    ASSUME IInv, NEW t \in Thread, Return(t), userId' = userId,
           CallerTypes', NEW p \in Place \ Waiting, at' = [at EXCEPT ![t] = p],
           reply' = {} <=> at'[Kafka] = "run",
           AskedHandlers'
    PROVE  IInv'
<1>1. ServiceInv /\ AskedMemory /\ AskedCalls
    BY DEF IInv, AskedInv
<1>2. ServiceInv'
    BY <1>1, ReturnStep
<1>3. /\ AskedMemory' /\ AskedCalls'
      /\ step'[t] = "none" /\ \A s \in Thread : s # t => step'[s] = step[s]
    BY <1>1, ReturnAsked
<1>4. WaitInv'
    BY <1>3 DEF IInv, CallerTypes, WaitInv
<1> QED
    BY <1>2, <1>3, <1>4 DEF IInv, AskedInv

\* A caller does something of its own.
LEMMA CallerOnly ==
    ASSUME IInv, NEW t \in Thread, at[t] \notin Waiting, UNCHANGED <<memory, calls, userId>>,
           CallerTypes', NEW p \in Place \ Waiting, at' = [at EXCEPT ![t] = p],
           reply' = {} <=> at'[Kafka] = "run",
           AskedHandlers'
    PROVE  IInv'
<1>1. UNCHANGED <<map, lists, call, step, list, saw, dirty>>
    BY DEF memory, calls
<1>2. ServiceInv'
    <2>1. ServiceTypes' /\ OperationInv'
        BY <1>1 DEF IInv, ServiceInv, ServiceTypes, OperationInv
    <2>2. AloneInv' /\ OwnInv'
        BY <1>1 DEF IInv, ServiceInv, AloneInv, OwnInv, Own
    <2> QED
        BY <2>1, <2>2 DEF ServiceInv
<1>3. AskedMemory' /\ AskedCalls'
    BY <1>1 DEF IInv, AskedInv, AskedMemory, AskedCalls
<1>4. WaitInv'
    BY <1>1 DEF IInv, CallerTypes, WaitInv
<1> QED
    BY <1>2, <1>3, <1>4 DEF IInv, AskedInv

LEMMA EventLoopStep ==
    ASSUME IInv, NEW h \in Handler, EventLoop(h)
    PROVE  IInv'
<1> h \in Thread /\ h # Kafka
    BY DEF Thread
<1> USE DEF IInv
<1>1. CASE ReadCounter(h)
    <2>1. /\ CallerTypes' /\ AskedHandlers' /\ at' = [at EXCEPT ![h] = "counting"]
          /\ reply' = {} <=> at'[Kafka] = "run"
        BY <1>1 DEF ReadCounter, CallerTypes, AskedInv, AskedHandlers, WaitInv, Place
    <2> QED
        BY <1>1, <2>1, CallerOnly DEF ReadCounter, Place, Waiting
<1>2. CASE WriteCounter(h)
    <2>1. /\ CallerTypes' /\ AskedHandlers' /\ at' = [at EXCEPT ![h] = "run"]
          /\ reply' = {} <=> at'[Kafka] = "run"
        BY <1>2 DEF WriteCounter, CallerTypes, AskedInv, AskedHandlers, WaitInv, Place
    <2> QED
        BY <1>2, <2>1, CallerOnly DEF WriteCounter, Place, Waiting
<1>3. CASE \E u \in User : AuthClient(h, u)
    <2>1. PICK u \in User : AuthClient(h, u)
        BY <1>3
    <2>2. /\ at[h] = "run" /\ userId' = [userId EXCEPT ![h] = u]
          /\ authStatus' = [authStatus EXCEPT ![h] = "AUTHENTICATING"]
          /\ at' = [at EXCEPT ![h] = "asking"]
          /\ Begin(h, "add", "pendingUsers", u, h)
          /\ UNCHANGED <<counter, socketId, requests, reply, memory>>
        BY <2>1 DEF AuthClient
    <2>3. StillAsked /\ userId'[h] \in User
        BY <2>2 DEF StillAsked, CallerTypes
    <2>4. CallerTypes' /\ (reply' = {} <=> at'[Kafka] = "run")
        BY <2>2 DEF CallerTypes, WaitInv, Place, Waiting
    <2>5. AskedHandlers'
        <3>1. \A r \in reply' : userId'[r.handler] \in User
            BY <2>2, <2>3 DEF AskedInv, AskedHandlers, CallerTypes, StillAsked
        <3>2. ASSUME NEW g \in Handler,
                     authStatus'[g] # "NOT_AUTHENTICATED"
                     \/ at'[g] \in {"asking", "leaving", "left", "forgetting"}
              PROVE  userId'[g] \in User
            BY <2>2, <2>3, <3>2 DEF AskedInv, AskedHandlers, CallerTypes, Thread
        <3> QED
            BY <3>1, <3>2 DEF AskedHandlers
    <2> QED
        BY <2>2, <2>3, <2>4, <2>5, BeginFrom DEF Waiting, Registry
<1>4. CASE Asked(h)
    <2>1. at[h] = "asking" /\ Return(h) /\ at' = [at EXCEPT ![h] = "run"]
        BY <1>4 DEF Asked
    <2>2. userId' = userId /\ UNCHANGED <<handlers, reply>>
        BY <1>4 DEF Asked, handlers
    <2>3. userId[h] \in User
        BY <2>1 DEF AskedInv, AskedHandlers
    <2>4. CallerTypes'
        <3>1. requests' \subseteq User \X Nat \X Handler
            BY <1>4, <2>3 DEF Asked, CallerTypes
        <3> QED
            BY <2>1, <2>2, <3>1 DEF CallerTypes, handlers, Place
    <2>5. AskedHandlers' /\ (reply' = {} <=> at'[Kafka] = "run")
        BY <2>1, <2>2 DEF handlers, AskedInv, AskedHandlers, CallerTypes, WaitInv
    <2> QED
        BY <2>1, <2>2, <2>4, <2>5, ReturnFrom DEF Place, Waiting
<1>5. CASE HandlerRemoved(h)
    <2>1. at[h] = "run" /\ UNCHANGED <<handlers, requests, reply, memory>> /\ userId' = userId
        BY <1>5 DEF HandlerRemoved, handlers
    <2>2. CASE at' = [at EXCEPT ![h] = "gone"] /\ UNCHANGED calls
        <3>1. CallerTypes' /\ AskedHandlers' /\ (reply' = {} <=> at'[Kafka] = "run")
            BY <2>1, <2>2 DEF handlers, CallerTypes, AskedInv, AskedHandlers, WaitInv, Place
        <3> QED
            BY <2>1, <2>2, <3>1, CallerOnly DEF Place, Waiting
    <2>3. CASE /\ KnownSocket(h) /\ at' = [at EXCEPT ![h] = "leaving"]
               /\ Begin(h, "remove", "users", userId[h], h)
        <3>1. userId[h] \in User
            BY <2>3 DEF KnownSocket, AskedInv, AskedHandlers
        <3>2. CallerTypes' /\ AskedHandlers' /\ (reply' = {} <=> at'[Kafka] = "run")
            BY <2>1, <2>3, <3>1
            DEF handlers, CallerTypes, AskedInv, AskedHandlers, WaitInv, Place, Waiting
        <3>3. StillAsked /\ userId'[h] \in User
            BY <2>1, <3>1 DEF StillAsked
        <3> QED
            BY <2>1, <2>3, <3>1, <3>2, <3>3, BeginFrom DEF Waiting, Registry
    <2> QED
        BY <1>5, <2>2, <2>3 DEF HandlerRemoved
<1>6. CASE LeftUsers(h)
    <2>1. /\ at[h] = "leaving" /\ Return(h) /\ userId' = userId
          /\ UNCHANGED <<handlers, requests, reply>>
        BY <1>6 DEF LeftUsers, handlers
    <2>2. PICK p \in {"left", "gone"} : at' = [at EXCEPT ![h] = p]
        BY <1>6 DEF LeftUsers
    <2>3. CallerTypes' /\ AskedHandlers' /\ (reply' = {} <=> at'[Kafka] = "run")
        BY <2>1, <2>2 DEF handlers, CallerTypes, AskedInv, AskedHandlers, WaitInv, Place
    <2> QED
        BY <2>1, <2>2, <2>3, ReturnFrom DEF Place, Waiting
<1>7. CASE LeavePending(h)
    <2>1. /\ at[h] = "left" /\ at' = [at EXCEPT ![h] = "forgetting"] /\ userId' = userId
          /\ Begin(h, "remove", "pendingUsers", userId[h], h)
          /\ UNCHANGED <<handlers, requests, reply, memory>>
        BY <1>7 DEF LeavePending, handlers
    <2>2. userId[h] \in User
        BY <2>1 DEF AskedInv, AskedHandlers
    <2>3. CallerTypes' /\ AskedHandlers' /\ (reply' = {} <=> at'[Kafka] = "run")
        BY <2>1, <2>2
        DEF handlers, CallerTypes, AskedInv, AskedHandlers, WaitInv, Place, Waiting
    <2>4. StillAsked /\ userId'[h] \in User
        BY <2>1, <2>2 DEF StillAsked
    <2> QED
        BY <2>1, <2>2, <2>3, <2>4, BeginFrom DEF Waiting, Registry
<1>8. CASE LeftPending(h)
    <2>1. /\ at[h] = "forgetting" /\ Return(h) /\ userId' = userId
          /\ at' = [at EXCEPT ![h] = "gone"]
          /\ UNCHANGED <<handlers, requests, reply>>
        BY <1>8 DEF LeftPending, handlers
    <2>2. CallerTypes' /\ AskedHandlers' /\ (reply' = {} <=> at'[Kafka] = "run")
        BY <2>1 DEF handlers, CallerTypes, AskedInv, AskedHandlers, WaitInv, Place
    <2> QED
        BY <2>1, <2>2, ReturnFrom DEF Place, Waiting
<1> QED
    BY <1>1, <1>2, <1>3, <1>4, <1>5, <1>6, <1>7, <1>8 DEF EventLoop

LEMMA ConsumerStep ==
    ASSUME IInv, ConsumerThread
    PROVE  IInv'
<1> Kafka \in Thread /\ Kafka \notin Handler
    BY DEF Thread
<1> USE DEF IInv
<1>1. CASE \E q \in requests : TakeReply(q)
    <2>1. PICK q \in requests : TakeReply(q)
        BY <1>1
    <2>2. PICK h \in Found(q[1], q[2]) :
             /\ reply' = {[user |-> q[1], handler |-> h]}
             /\ Begin(Kafka, "remove", "pendingUsers", q[1], h)
        BY <2>1 DEF TakeReply
    <2>3. /\ at[Kafka] = "run" /\ at' = [at EXCEPT ![Kafka] = "releasing"]
          /\ requests' = requests \ {q} /\ userId' = userId
          /\ UNCHANGED <<handlers, memory>>
        BY <2>1 DEF TakeReply, handlers
    <2>4. q[1] \in User /\ h \in Handler
        BY DEF CallerTypes, Found
    <2>5. userId[h] \in User
        <3>1. h \in Contents(<<"pendingUsers", q[1]>>)
            BY DEF Found
        <3>2. <<"pendingUsers", q[1]>> \in Cell
            BY <2>4 DEF Cell, Registry
        <3>3. \E k \in ListId : h \in lists[<<"pendingUsers", q[1]>>][k]
            BY <3>1, <3>2 DEF Contents, ServiceInv, ServiceTypes
        <3> QED
            BY <2>4, <3>2, <3>3 DEF AskedInv, AskedMemory
    <2>6. CallerTypes'
        <3>1. [user |-> q[1], handler |-> h] \in [user : User, handler : Handler]
            BY <2>4
        <3> QED
            BY <2>2, <2>3, <3>1 DEF CallerTypes, handlers, Place, Waiting
    <2>7. AskedHandlers'
        <3>1. \A r \in reply' : r.handler = h
            BY <2>2
        <3> QED
            BY <2>3, <2>5, <3>1 DEF AskedInv, AskedHandlers, handlers, CallerTypes
    <2>8. (reply' = {} <=> at'[Kafka] = "run") /\ StillAsked /\ userId'[h] \in User
        BY <2>2, <2>3, <2>5 DEF CallerTypes, StillAsked
    <2> QED
        BY <2>2, <2>3, <2>4, <2>6, <2>7, <2>8, BeginFrom DEF Waiting, Registry
<1>2. CASE Released \/ Admitted
    <2>1. /\ Return(Kafka) /\ userId' = userId
          /\ UNCHANGED <<handlers, requests>>
          /\ at[Kafka] \in {"releasing", "admitting"}
        BY <1>2 DEF Released, Admitted, handlers
    <2>2. \/ /\ reply' = reply
             /\ at' = [at EXCEPT ![Kafka] = "released"] \/ at' = [at EXCEPT ![Kafka] = "granting"]
          \/ reply' = {} /\ at' = [at EXCEPT ![Kafka] = "run"]
        BY <1>2 DEF Released, Admitted, EndReply
    <2>3. PICK p \in {"released", "granting", "run"} : at' = [at EXCEPT ![Kafka] = p]
        BY <2>2
    <2>4. reply' = {} <=> at'[Kafka] = "run"
        BY <2>1, <2>2 DEF WaitInv, CallerTypes
    <2>5. reply' \subseteq reply
        BY <2>2
    <2>6. CallerTypes' /\ AskedHandlers'
        BY <2>1, <2>3, <2>5 DEF handlers, CallerTypes, AskedInv, AskedHandlers, Place
    <2> QED
        BY <2>1, <2>3, <2>4, <2>6, ReturnFrom DEF Place, Waiting
<1>3. CASE Admit
    <2>1. PICK r \in reply : Begin(Kafka, "add", "users", r.user, r.handler)
        BY <1>3 DEF Admit
    <2>2. /\ at[Kafka] = "released" /\ at' = [at EXCEPT ![Kafka] = "admitting"]
          /\ UNCHANGED <<handlers, requests, reply, memory>> /\ userId' = userId
        BY <1>3 DEF Admit, handlers
    <2>3. r.user \in User /\ r.handler \in Handler /\ userId[r.handler] \in User
        BY DEF CallerTypes, AskedInv, AskedHandlers
    <2>4. CallerTypes' /\ AskedHandlers' /\ (reply' = {} <=> at'[Kafka] = "run")
        BY <2>2 DEF handlers, CallerTypes, AskedInv, AskedHandlers, WaitInv, Place, Waiting
    <2>5. StillAsked /\ userId'[r.handler] \in User
        BY <2>2, <2>3 DEF StillAsked
    <2> QED
        BY <2>1, <2>2, <2>3, <2>4, <2>5, BeginFrom DEF Waiting, Registry
<1>4. CASE Reject \/ Grant
    <2>1. /\ at[Kafka] \in {"released", "granting"}
          /\ reply' = {} /\ at' = [at EXCEPT ![Kafka] = "run"]
          /\ UNCHANGED <<counter, socketId, userId, requests, memory, calls>>
        BY <1>4 DEF Reject, Grant, EndReply
    <2>2. PICK r \in reply, a \in {"NOT_AUTHENTICATED", "AUTHENTICATED"} :
             authStatus' = [authStatus EXCEPT ![r.handler] = a]
        BY <1>4 DEF Reject, Grant
    <2>3. r.handler \in Handler /\ userId[r.handler] \in User
        BY DEF CallerTypes, AskedInv, AskedHandlers
    <2>4. CallerTypes'
        BY <2>1, <2>2, <2>3 DEF CallerTypes, Place
    <2>5. AskedHandlers'
        BY <2>1, <2>2, <2>3 DEF CallerTypes, AskedInv, AskedHandlers
    <2>6. reply' = {} <=> at'[Kafka] = "run"
        BY <2>1 DEF CallerTypes
    <2> QED
        BY <2>1, <2>4, <2>5, <2>6, CallerOnly DEF Place, Waiting
<1> QED
    BY <1>1, <1>2, <1>3, <1>4 DEF ConsumerThread

LEMMA StepInv == IInv /\ [Next]_vars => IInv'
<1> SUFFICES ASSUME IInv, [Next]_vars PROVE IInv'
    OBVIOUS
<1>1. CASE \E t \in Thread : Service(t)
    <2>1. PICK t \in Thread : Service(t)
        BY <1>1
    <2>2. /\ step[t] # "none" /\ step'[t] # "none"
          /\ \A s \in Thread : s # t => step'[s] = step[s]
          /\ UNCHANGED <<handlers, callers, call>>
        BY <2>1, ServiceMoves DEF IInv
    <2>3. ServiceInv' /\ AskedMemory'
        BY <2>1, ServiceStep, ServiceAsked DEF IInv, AskedInv
    <2>4. CallerTypes' /\ AskedCalls' /\ AskedHandlers'
        BY <2>2 DEF handlers, callers, IInv, CallerTypes, AskedInv, AskedCalls, AskedHandlers
    <2>5. WaitInv'
        BY <2>2 DEF callers, IInv, WaitInv
    <2> QED
        BY <2>3, <2>4, <2>5 DEF IInv, AskedInv
<1>2. CASE \E h \in Handler : EventLoop(h)
    BY <1>2, EventLoopStep
<1>3. CASE ConsumerThread
    BY <1>3, ConsumerStep
<1>4. CASE UNCHANGED vars
    <2>1. UNCHANGED <<counter, socketId, userId, authStatus, at, requests, reply,
                      map, lists, call, step, list, saw, dirty>>
        BY <1>4 DEF vars, handlers, callers, memory, calls
    <2>2. ServiceTypes' /\ OperationInv' /\ CallerTypes' /\ WaitInv'
        BY <2>1 DEF IInv, ServiceInv, ServiceTypes, OperationInv, CallerTypes, WaitInv
    <2>3. AloneInv' /\ OwnInv'
        BY <2>1 DEF IInv, ServiceInv, AloneInv, OwnInv, Own
    <2>4. AskedInv'
        BY <2>1 DEF IInv, AskedInv, AskedMemory, AskedCalls, AskedHandlers
    <2> QED
        BY <2>2, <2>3, <2>4 DEF IInv, ServiceInv
<1> QED
    BY <1>1, <1>2, <1>3, <1>4 DEF Next

THEOREM RegistriesInvariant == Spec => []IInv
BY InitInv, StepInv, PTL DEF Spec

\* The variables keep their ranges, and a thread is in an operation exactly
\* where its caller waits for one.
THEOREM RegistryTypes == Spec => []TypeOK
<1>1. IInv => TypeOK
    <2> SUFFICES ASSUME IInv PROVE TypeOK
        OBVIOUS
    <2> USE DEF IInv, ServiceInv
    <2>1. \A t \in Thread :
             /\ call[t] = NoCall <=> step[t] = "none"
             /\ step[t] # "none" <=>
                    at[t] \in {"asking", "leaving", "forgetting", "releasing", "admitting"}
             /\ reply = {} <=> at[Kafka] = "run"
             /\ step[t] \in {"change", "drop"} => list[t] \in ListId
        BY DEF OperationInv, WaitInv, Waiting
    <2> QED
        BY <2>1 DEF TypeOK, ServiceTypes, CallerTypes
<1> QED
    BY <1>1, RegistriesInvariant, PTL

-----------------------------------------------------------------------------
\* The registries are sets that operations change at one moment.

\* An overlapped operation may do what it likes to its entry.
LEMMA Interferes ==
    ASSUME ServiceInv, NEW t \in Thread, call[t].do # "none", ~call[t].alone,
           ServiceTypes', call' = call,
           \A d \in Cell : d # call[t].cell => map'[d] = map[d] /\ lists'[d] = lists[d],
           Applied' = Applied \/ Applied' = Applied \cup {t}
    PROVE  Atomic!URInterfere(t)
<1>1. call[t].cell \in Cell
    BY CallFields DEF ServiceInv
<1>2. Members' = [Members EXCEPT ![call[t].cell] = Contents(call[t].cell)' \ {Null}]
    <2> DEFINE c == call[t].cell
    <2>1. c' = c /\ map' \in [Cell -> ListId \cup {0}]
        BY DEF ServiceTypes
    <2> QED
        BY <1>1, <2>1 DEF Members, Contents
<1>3. Contents(call[t].cell)' \ {Null} \in SUBSET Handler
    BY <1>1 DEF ServiceTypes, Contents, Slot
<1> QED
    BY <1>2, <1>3 DEF Atomic!URInterfere

LEMMA ServiceRefines ==
    ASSUME IInv, NEW t \in Thread, Service(t)
    PROVE  Atomic!URApply(t) \/ Atomic!URInterfere(t) \/ UNCHANGED <<Members, call, Applied>>
<1> DEFINE c == call[t].cell
<1> USE DEF IInv, ServiceInv
<1>1. /\ call[t].do \in {"add", "remove"} /\ c \in Cell /\ call[t].handler \in Handler
      /\ call' = call /\ UNCHANGED handlers
    BY ServiceMoves, CallOrNone, CallFields
<1>2. ServiceTypes'
    BY ServiceStep
<1>3. \A s \in Thread : s # t => step'[s] = step[s]
    BY ServiceMoves
<1>4. CASE ContainsKey(t)
    <2>1. step[t] = "containsKey" /\ step'[t] \in {"put", "get"} /\ UNCHANGED <<map, lists>>
        BY <1>4 DEF ContainsKey, Goto, memory, ServiceTypes
    <2>2. Applied' = Applied
        BY <1>3, <2>1 DEF Applied
    <2>3. Members' = Members
        BY <2>1 DEF Members, Contents
    <2> QED
        BY <1>1, <2>2, <2>3
<1>5. CASE Put(t)
    <2>1. step[t] = "put" /\ step'[t] = "get"
        BY <1>5 DEF Put, Goto, ServiceTypes
    <2>2. Applied' = Applied
        BY <1>3, <2>1 DEF Applied
    <2>3. PICK k \in ListId :
             /\ Free(c, k)
             /\ map' = [map EXCEPT ![c] = k]
             /\ lists' = [lists EXCEPT ![c] =
                   [j \in ListId |-> IF \E s \in Thread : Holds(s, c, j) THEN @[j] ELSE {}]]
        BY <1>5 DEF Put
    <2>4. \A d \in Cell : d # c => map'[d] = map[d] /\ lists'[d] = lists[d]
        BY <1>1, <2>3 DEF ServiceTypes
    <2>5. CASE ~call[t].alone
        BY <1>1, <1>2, <2>2, <2>4, <2>5, Interferes
    <2>6. CASE call[t].alone
        <3>1. map[c] = 0
            BY <1>1, <2>1, <2>6 DEF OwnInv, Own
        <3>2. lists'[c][map'[c]] = {}
            BY <1>1, <2>3 DEF ServiceTypes, Free
        <3>3. \A d \in Cell : Members'[d] = Members[d]
            <4> HIDE DEF c
            <4> QED
                BY <2>4, <3>1, <3>2 DEF Members, Contents
        <3>4. Members' = Members
            BY <3>3 DEF Members
        <3> QED
            BY <1>1, <2>2, <3>4
    <2> QED
        BY <2>5, <2>6
<1>6. CASE Get(t)
    <2>1. step[t] = "get" /\ UNCHANGED <<map, lists>>
        BY <1>6 DEF Get, memory
    <2>2. Members' = Members
        BY <2>1 DEF Members, Contents
    <2>3. CASE map[c] # 0 \/ call[t].do = "add"
        <3>1. step'[t] \in {"change", "failed"}
            BY <1>1, <1>6, <2>3 DEF Get, Goto, ServiceTypes
        <3>2. Applied' = Applied
            BY <1>3, <2>1, <3>1 DEF Applied
        <3> QED
            BY <1>1, <2>2, <3>2
    <2>4. CASE map[c] = 0 /\ call[t].do = "remove"
        <3>1. step'[t] = "done"
            BY <1>1, <1>6, <2>4 DEF Get, Goto, ServiceTypes
        <3>2. Applied' = Applied \cup {t} /\ t \notin Applied
            BY <1>3, <2>1, <3>1 DEF Applied
        <3>3. Members[c] = {}
            BY <1>1, <2>4 DEF Members, Contents
        <3>4. Members' = [Members EXCEPT ![c] =
                             {g \in @ : socketId[g] # socketId[call[t].handler]}]
            BY <1>1, <2>2, <3>3 DEF Members
        <3> QED
            BY <1>1, <2>4, <3>2, <3>4 DEF Atomic!URApply
    <2> QED
        BY <1>1, <2>3, <2>4
<1>7. CASE Change(t)
    <2>1. step[t] = "change" /\ list[t] \in ListId /\ map' = map
        BY <1>7, ChangeEffect
    <2>2. PICK L \in SUBSET Slot :
             /\ \/ L \subseteq lists[c][list[t]] \cup saw[t] \cup {Null}
                \/ /\ call[t].do = "add"
                   /\ L \subseteq lists[c][list[t]] \cup saw[t] \cup {Null, call[t].handler}
             /\ lists' = [lists EXCEPT ![c][list[t]] = L]
             /\ \E i \in {"drop", "done", "failed"} :
                   /\ step' = [step EXCEPT ![t] = i]
                   /\ i = "drop" => L = {} /\ call[t].do = "remove"
                   /\ i = "failed" => t \in dirty
             /\ t \notin dirty =>
                   /\ L = Changed(t, lists[c][list[t]])
                   /\ step' = [step EXCEPT ![t] = After(t, L)]
        BY <1>7, ChangeEffect
    <2>3. \A d \in Cell : d # c => map'[d] = map[d] /\ lists'[d] = lists[d]
        BY <1>1, <2>1, <2>2 DEF ServiceTypes
    <2>4. step'[t] \in {"drop", "done", "failed"}
        BY <2>2 DEF ServiceTypes
    <2>5. CASE ~call[t].alone
        <3>1. Applied' = Applied \/ Applied' = Applied \cup {t}
            BY <1>3, <2>1, <2>4 DEF Applied
        <3> QED
            BY <1>1, <1>2, <2>3, <2>5, <3>1, Interferes
    <2>6. CASE call[t].alone
        <3>1. t \notin dirty /\ list[t] = map[c]
            BY <1>1, <2>1, <2>6 DEF AloneInv, OwnInv, Own
        <3>2. step'[t] \in {"drop", "done"}
            BY <2>2, <3>1 DEF After, ServiceTypes
        <3>3. Applied' = Applied \cup {t} /\ t \notin Applied
            BY <1>3, <2>1, <3>2 DEF Applied
        <3>4. lists'[c][list[t]] = Changed(t, lists[c][list[t]]) /\ map[c] # 0
            <4>1. lists'[c][list[t]] = L
                BY <1>1, <2>1, <2>2 DEF ServiceTypes
            <4>2. list[t] # 0
                BY <2>1 DEF ListId
            <4> QED
                BY <2>2, <3>1, <4>1, <4>2
        <3>5. Members'[c] = Changed(t, lists[c][map[c]]) \ {Null}
              /\ Members[c] = lists[c][map[c]] \ {Null}
            <4> HIDE DEF c
            <4> QED
                BY <1>1, <2>1, <3>1, <3>4 DEF Members, Contents
        <3>6. Members'[c] = IF call[t].do = "add" THEN Members[c] \cup {call[t].handler}
                            ELSE {g \in Members[c] : socketId[g] # socketId[call[t].handler]}
            <4>1. lists[c][map[c]] \subseteq Handler \cup {Null}
                BY <1>1, <2>1, <3>1 DEF ServiceTypes, Slot
            <4>2. call[t].handler # Null
                BY <1>1
            <4> HIDE DEF c
            <4>3. CASE call[t].do = "add"
                BY <3>5, <4>2, <4>3 DEF Changed
            <4>4. CASE call[t].do # "add"
                BY <3>5, <4>1, <4>4 DEF Changed, SameId
            <4> QED
                BY <4>3, <4>4
        <3>7. Members' = [Members EXCEPT ![c] = Members'[c]]
            <4> HIDE DEF c
            <4> QED
                BY <1>1, <2>3 DEF Members, Contents
        <3> QED
            BY <1>1, <3>3, <3>6, <3>7 DEF Atomic!URApply
    <2> QED
        BY <2>5, <2>6
<1>8. CASE Drop(t)
    <2>1. step[t] = "drop" /\ step'[t] = "done" /\ map' = [map EXCEPT ![c] = 0] /\ lists' = lists
        BY <1>8 DEF Drop, Goto, ServiceTypes
    <2>2. Applied' = Applied
        BY <1>3, <2>1 DEF Applied
    <2>3. \A d \in Cell : d # c => map'[d] = map[d] /\ lists'[d] = lists[d]
        BY <1>1, <2>1 DEF ServiceTypes
    <2>4. CASE ~call[t].alone
        BY <1>1, <1>2, <2>2, <2>3, <2>4, Interferes
    <2>5. CASE call[t].alone
        <3>1. map[c] = 0 \/ lists[c][map[c]] = {}
            BY <1>1, <2>1, <2>5 DEF OwnInv, Own
        <3>2. map'[c] = 0
            BY <1>1, <2>1 DEF ServiceTypes
        <3>3. \A d \in Cell : Members'[d] = Members[d]
            <4> HIDE DEF c
            <4> QED
                BY <2>3, <3>1, <3>2 DEF Members, Contents
        <3>4. Members' = Members
            BY <3>3 DEF Members
        <3> QED
            BY <1>1, <2>2, <3>4
    <2> QED
        BY <2>4, <2>5
<1> QED
    BY <1>4, <1>5, <1>6, <1>7, <1>8 DEF Service

LEMMA BeginRefines ==
    ASSUME IInv, NEW t \in Thread, at[t] \notin Waiting,
           NEW do \in {"add", "remove"}, NEW registry \in Registry, NEW u \in User,
           NEW h \in Handler, Begin(t, do, registry, u, h), UNCHANGED memory
    PROVE  Atomic!URBegin(t)
<1> USE DEF IInv, ServiceInv
<1>1. step[t] = "none" /\ call[t].do = "none"
    BY CallOrNone DEF WaitInv
<1>2. <<registry, u>> \in Cell
    BY DEF Cell
<1>3. t \notin Applied /\ Applied' = Applied
    BY <1>1 DEF Begin, Applied, ServiceTypes
<1>4. Members' = Members
    BY DEF memory, Members, Contents
<1> QED
    BY <1>1, <1>2, <1>3, <1>4 DEF Begin, Atomic!URBegin, InCall, Atomic!InCall

LEMMA ReturnRefines ==
    ASSUME IInv, NEW t \in Thread, Return(t)
    PROVE  Atomic!URReturn(t)
<1> DEFINE c == call[t].cell
           kept == {map[c]} \cup {list[s] : s \in {v \in Thread \ {t} : InCall(v, c)}}
<1> USE DEF IInv, ServiceInv
<1>1. call[t].do # "none" /\ c \in Cell /\ step[t] \in {"done", "failed"}
    BY CallOrNone, CallFields DEF Return
<1>2. /\ call' = [call EXCEPT ![t] = NoCall] /\ step' = [step EXCEPT ![t] = "none"]
      /\ lists' = [lists EXCEPT ![c] = [k \in ListId |-> IF k \in kept THEN @[k] ELSE {}]]
      /\ map' = map
    BY DEF Return
<1>3. call[t].alone => t \in Applied
    BY <1>1 DEF OwnInv, Own, Applied
<1>4. Applied' = Applied \ {t}
    BY <1>1, <1>2 DEF Applied, ServiceTypes
<1>5. Members' = Members
    <2>1. map[c] \in kept
        OBVIOUS
    <2> HIDE DEF c, kept
    <2>2. \A d \in Cell : map[d] # 0 => lists'[d][map[d]] = lists[d][map[d]]
        BY <1>1, <1>2, <2>1 DEF ServiceTypes
    <2> QED
        BY <1>2, <2>2 DEF Members, Contents
<1> QED
    BY <1>1, <1>2, <1>3, <1>4, <1>5 DEF Atomic!URReturn, NoCall, Atomic!NoCall

\* The service's maps behave like sets of handlers that every call changes at one
\* moment between its begin and its return, unless calls on the entry overlap.
THEOREM RegistriesAreSets == Spec => ImplementsRegistry
<1>1. Init => Atomic!URInit
    BY DEF Init, Atomic!URInit, Members, Contents, Applied, NoCall, Atomic!NoCall, Cell
<1>2. IInv /\ [Next]_vars => [Atomic!URNext]_Atomic!urVars
    <2> SUFFICES ASSUME IInv, [Next]_vars
                 PROVE  Atomic!URNext \/ UNCHANGED <<Members, call, Applied>>
        BY DEF Atomic!urVars
    <2>1. CASE \E t \in Thread : Service(t)
        BY <2>1, ServiceRefines DEF Atomic!URNext
    <2>2. ASSUME NEW t \in Thread, Atomic!URBegin(t) \/ Atomic!URReturn(t)
          PROVE  Atomic!URNext
        BY <2>2 DEF Atomic!URNext
    <2>3. UNCHANGED <<memory, calls>> => UNCHANGED <<Members, call, Applied>>
        BY DEF memory, calls, Members, Contents, Applied
    <2>4. ASSUME NEW h \in Handler, EventLoop(h)
          PROVE  Atomic!URNext \/ UNCHANGED <<Members, call, Applied>>
        <3>1. h \in Thread
            BY DEF Thread
        <3>2. ASSUME NEW u \in User, AuthClient(h, u)
              PROVE  Atomic!URBegin(h)
            BY <3>1, <3>2, BeginRefines DEF AuthClient, Waiting, Registry
        <3>3. CASE HandlerRemoved(h) /\ KnownSocket(h)
            <4>1. userId[h] \in User /\ at[h] = "run" /\ UNCHANGED memory
                BY <3>3 DEF HandlerRemoved, KnownSocket, IInv, AskedInv, AskedHandlers
            <4>2. Begin(h, "remove", "users", userId[h], h)
                BY <3>3 DEF HandlerRemoved
            <4> QED
                BY <2>2, <3>1, <4>1, <4>2, BeginRefines DEF Waiting, Registry
        <3>4. CASE LeavePending(h)
            <4>1. userId[h] \in User /\ at[h] = "left" /\ UNCHANGED memory
                BY <3>4 DEF LeavePending, IInv, AskedInv, AskedHandlers
            <4>2. Begin(h, "remove", "pendingUsers", userId[h], h)
                BY <3>4 DEF LeavePending
            <4> QED
                BY <2>2, <3>1, <4>1, <4>2, BeginRefines DEF Waiting, Registry
        <3>5. CASE Asked(h) \/ LeftUsers(h) \/ LeftPending(h)
            BY <2>2, <3>1, <3>5, ReturnRefines DEF Asked, LeftUsers, LeftPending
        <3>6. CASE ReadCounter(h) \/ WriteCounter(h) \/ (HandlerRemoved(h) /\ ~KnownSocket(h))
            BY <2>3, <3>6 DEF ReadCounter, WriteCounter, HandlerRemoved
        <3> QED
            BY <2>2, <2>4, <3>1, <3>2, <3>3, <3>4, <3>5, <3>6 DEF EventLoop
    <2>5. CASE ConsumerThread
        <3>1. Kafka \in Thread
            BY DEF Thread
        <3>2. ASSUME NEW q \in requests, TakeReply(q)
              PROVE  Atomic!URBegin(Kafka)
            <4>1. PICK h \in Found(q[1], q[2]) : Begin(Kafka, "remove", "pendingUsers", q[1], h)
                BY <3>2 DEF TakeReply
            <4>2. q[1] \in User /\ h \in Handler /\ at[Kafka] = "run" /\ UNCHANGED memory
                BY <3>2 DEF TakeReply, Found, IInv, CallerTypes
            <4> QED
                BY <3>1, <4>1, <4>2, BeginRefines DEF Waiting, Registry
        <3>3. CASE Admit
            <4>1. PICK r \in reply : Begin(Kafka, "add", "users", r.user, r.handler)
                BY <3>3 DEF Admit
            <4>2. /\ r.user \in User /\ r.handler \in Handler /\ at[Kafka] = "released"
                  /\ UNCHANGED memory
                BY <3>3 DEF Admit, IInv, CallerTypes
            <4> QED
                BY <2>2, <3>1, <4>1, <4>2, BeginRefines DEF Waiting, Registry
        <3>4. CASE Released \/ Admitted
            BY <2>2, <3>1, <3>4, ReturnRefines DEF Released, Admitted
        <3>5. CASE Reject \/ Grant
            BY <2>3, <3>5 DEF Reject, Grant
        <3> QED
            BY <2>2, <2>5, <3>1, <3>2, <3>3, <3>4, <3>5 DEF ConsumerThread
    <2>6. CASE UNCHANGED vars
        BY <2>3, <2>6 DEF vars
    <2> QED
        BY <2>1, <2>4, <2>5, <2>6 DEF Next
<1> QED
    BY <1>1, <1>2, RegistriesInvariant, PTL DEF Spec, ImplementsRegistry, Atomic!URSpec

-----------------------------------------------------------------------------
\* What the races cost.  First, whose calls they are.

IsCall(t, do, registry, u, h) ==
    call[t].do = do /\ call[t].cell = <<registry, u>> /\ call[t].handler = h

\* A call that is not alone has spoiled its entry; one that is alone and has
\* taken effect has left its handler in the entry, or taken it out.
EffectInv ==
    \A t \in Thread :
        call[t].do # "none" =>
            /\ ~call[t].alone => call[t].cell \in spoiled
            /\ call[t].alone /\ t \in Applied =>
                  (call[t].handler \in Members[call[t].cell] <=> call[t].do = "add")

\* Where the threads can be, and the call each is in there.
RoleInv ==
    /\ at[Kafka] \in {"run", "releasing", "released", "admitting", "granting"}
    /\ \A h \in Handler :
          at[h] \in {"off", "counting", "run", "asking"} \cup Leaving
    /\ \A r, s \in reply : r = s

FitInv ==
    /\ \A h \in Handler :
          /\ at[h] = "asking" => IsCall(h, "add", "pendingUsers", userId[h], h)
          /\ at[h] = "leaving" => IsCall(h, "remove", "users", userId[h], h)
          /\ at[h] = "forgetting" => IsCall(h, "remove", "pendingUsers", userId[h], h)
    /\ \A r \in reply :
          /\ at[Kafka] = "releasing" => IsCall(Kafka, "remove", "pendingUsers", r.user, r.handler)
          /\ at[Kafka] = "admitting" => IsCall(Kafka, "add", "users", r.user, r.handler)

CallInv == EffectInv /\ RoleInv /\ FitInv

LEMMA InitCalls == Init => CallInv
<1> SUFFICES ASSUME Init PROVE CallInv
    OBVIOUS
<1>1. EffectInv
    BY DEF Init, EffectInv, NoCall
<1>2. RoleInv /\ FitInv
    BY DEF Init, RoleInv, FitInv, Thread
<1> QED
    BY <1>1, <1>2 DEF CallInv

\* A call's own entry is all that a step of the service changes, and a call that
\* is alone changes it once, when it takes effect.
LEMMA ServiceOnEntry ==
    ASSUME IInv, NEW t \in Thread, Service(t)
    PROVE  /\ \A c \in Cell : c # call[t].cell => Members'[c] = Members[c]
           /\ call[t].alone =>
                 \/ Members' = Members /\ Applied' = Applied
                 \/ /\ t \notin Applied
                    /\ Members'[call[t].cell] =
                          IF call[t].do = "add" THEN Members[call[t].cell] \cup {call[t].handler}
                          ELSE {g \in Members[call[t].cell] :
                                   socketId[g] # socketId[call[t].handler]}
<1>1. call[t].do # "none" /\ call[t].cell \in Cell
    BY ServiceMoves, CallOrNone, CallFields DEF IInv, ServiceInv
<1>2. CASE UNCHANGED <<Members, call, Applied>>
    BY <1>2
<1>3. CASE Atomic!URApply(t)
    <2>1. /\ t \notin Applied
          /\ Members' = [Members EXCEPT ![call[t].cell] =
                IF call[t].do = "add" THEN @ \cup {call[t].handler}
                ELSE {g \in @ : socketId[g] # socketId[call[t].handler]}]
        BY <1>3 DEF Atomic!URApply
    <2> QED
        BY <1>1, <2>1 DEF Members
<1>4. CASE Atomic!URInterfere(t)
    <2>1. PICK H \in SUBSET Handler : Members' = [Members EXCEPT ![call[t].cell] = H]
        BY <1>4 DEF Atomic!URInterfere
    <2>2. ~call[t].alone
        BY <1>4 DEF Atomic!URInterfere
    <2>3. \A c \in Cell : c # call[t].cell => Members'[c] = Members[c]
        BY <2>1 DEF Members
    <2> QED
        BY <2>2, <2>3
<1> QED
    BY <1>2, <1>3, <1>4, ServiceRefines

LEMMA ServiceCalls ==
    ASSUME IInv, CallInv, NEW t \in Thread, Service(t)
    PROVE  CallInv'
<1>1. /\ step[t] # "none" /\ call[t].do # "none" /\ call[t].cell \in Cell
      /\ call[t].handler \in Handler
    BY ServiceMoves, CallOrNone, CallFields DEF IInv, ServiceInv
<1>2. UNCHANGED <<handlers, callers, call, spoiled>>
      /\ \A s \in Thread : s # t => step'[s] = step[s]
    BY ServiceMoves DEF IInv
<1>3. EffectInv'
    <2> SUFFICES ASSUME NEW s \in Thread, call[s].do # "none", call[s].alone, s \in Applied'
                 PROVE  call[s].handler \in Members'[call[s].cell] <=> call[s].do = "add"
        BY <1>2 DEF CallInv, EffectInv
    <2>1. /\ call[s].cell \in Cell /\ call[s].handler \in Handler
          /\ call[s].do \in {"add", "remove"}
        BY CallFields DEF IInv, ServiceInv
    <2>2. CASE s # t
        <3>1. s \in Applied
            BY <1>2, <2>2 DEF Applied
        <3>2. call[s].cell # call[t].cell
            BY <1>1, <2>2, Apart DEF IInv
        <3>3. Members'[call[s].cell] = Members[call[s].cell]
            BY <2>1, <3>2, ServiceOnEntry
        <3> QED
            BY <3>1, <3>3 DEF CallInv, EffectInv
    <2>3. CASE s = t /\ Members' = Members /\ Applied' = Applied
        BY <2>3 DEF CallInv, EffectInv
    <2>4. CASE /\ s = t
               /\ Members'[call[t].cell] =
                     IF call[t].do = "add" THEN Members[call[t].cell] \cup {call[t].handler}
                     ELSE {g \in Members[call[t].cell] : socketId[g] # socketId[call[t].handler]}
        BY <2>1, <2>4
    <2> QED
        BY <2>2, <2>3, <2>4, ServiceOnEntry
<1>4. RoleInv' /\ FitInv'
    BY <1>2 DEF CallInv, RoleInv, FitInv, IsCall, handlers, callers
<1> QED
    BY <1>3, <1>4 DEF CallInv

\* A call that begins spoils its entry if another is there, and changes nothing.
LEMMA BeginSpoils ==
    ASSUME IInv, NEW t \in Thread, at[t] \notin Waiting,
           NEW do \in {"add", "remove"}, NEW registry \in Registry, NEW u \in User,
           NEW h \in Handler, Begin(t, do, registry, u, h), UNCHANGED memory
    PROVE  /\ IsCall(t, do, registry, u, h)'
           /\ ~call'[t].alone => <<registry, u>> \in spoiled'
           /\ \A s \in Thread : s # t =>
                 /\ InCall(s, <<registry, u>>) => <<registry, u>> \in spoiled'
                 /\ \/ call'[s] = call[s]
                    \/ /\ InCall(s, <<registry, u>>)
                       /\ call'[s].do = call[s].do /\ call'[s].cell = call[s].cell
                       /\ call'[s].handler = call[s].handler /\ ~call'[s].alone
           /\ spoiled \subseteq spoiled'
           /\ Members' = Members /\ Applied' = Applied /\ t \notin Applied
<1> DEFINE c == <<registry, u>>
           others == {s \in Thread : InCall(s, c)}
<1>1. step[t] = "none" /\ ServiceTypes /\ OperationInv
    BY DEF IInv, WaitInv, ServiceInv
<1>2. /\ call' \in [Thread -> Call \cup {NoCall}]
      /\ call'[t].do = do /\ call'[t].cell = c /\ call'[t].handler = h
      /\ call'[t] # NoCall
      /\ call'[t].alone => \A s \in Thread : ~InCall(s, c)
      /\ step' = [step EXCEPT ![t] = IF do = "add" THEN "containsKey" ELSE "get"]
    BY <1>1, BeginCalls
<1>3. ASSUME NEW s \in Thread, s # t
      PROVE  \/ call'[s] = call[s]
             \/ /\ InCall(s, c)
                /\ call'[s].do = call[s].do /\ call'[s].cell = call[s].cell
                /\ call'[s].handler = call[s].handler /\ ~call'[s].alone
    BY <1>1, <1>3, BeginCalls
<1>4. spoiled' = IF others = {} THEN spoiled ELSE spoiled \cup {c}
    BY DEF Begin
<1>5. ~call'[t].alone => others # {}
    <2> DEFINE new == [do |-> do, cell |-> c, handler |-> h, alone |-> others = {}]
    <2>1. call'[t] = new
        BY DEF Begin
    <2> HIDE DEF others, c
    <2>2. others = {} => new.alone
        OBVIOUS
    <2> HIDE DEF new
    <2> QED
        BY <2>1, <2>2
<1>6. Members' = Members
    BY DEF memory, Members, Contents
<1>7. Applied' = Applied /\ t \notin Applied
    BY <1>1, <1>2 DEF Applied, IInv, ServiceInv, ServiceTypes
<1> QED
    BY <1>2, <1>3, <1>4, <1>5, <1>6, <1>7 DEF IsCall

\* Whoever else is in a call stays in it.
LEMMA BeginOthers ==
    ASSUME IInv, NEW t \in Thread, at[t] \notin Waiting,
           NEW do \in {"add", "remove"}, NEW registry \in Registry, NEW u \in User,
           NEW h \in Handler, Begin(t, do, registry, u, h),
           NEW s \in Thread, s # t
    PROVE  /\ call'[s].do = call[s].do /\ call'[s].cell = call[s].cell
           /\ call'[s].handler = call[s].handler
<1>1. step[t] = "none" /\ ServiceTypes /\ OperationInv
    BY DEF IInv, WaitInv, ServiceInv
<1> DEFINE c == <<registry, u>>
<1>2. /\ \/ call'[s] = call[s]
         \/ /\ InCall(s, c) /\ ~call'[s].alone /\ call'[s] # NoCall
            /\ call'[s].do = call[s].do /\ call'[s].cell = call[s].cell
            /\ call'[s].handler = call[s].handler
      /\ InCall(s, c) => ~call'[s].alone
    BY <1>1, BeginCalls
<1> QED
    BY <1>2

LEMMA BeginEffect ==
    ASSUME IInv, EffectInv, NEW t \in Thread, at[t] \notin Waiting,
           NEW do \in {"add", "remove"}, NEW registry \in Registry, NEW u \in User,
           NEW h \in Handler, Begin(t, do, registry, u, h), UNCHANGED memory
    PROVE  EffectInv'
<1> DEFINE c == <<registry, u>>
<1>1. /\ IsCall(t, do, registry, u, h)'
      /\ ~call'[t].alone => c \in spoiled'
      /\ spoiled \subseteq spoiled'
      /\ Members' = Members /\ Applied' = Applied /\ t \notin Applied
    BY BeginSpoils
<1> SUFFICES ASSUME NEW s \in Thread, call'[s].do # "none"
             PROVE  /\ ~call'[s].alone => call'[s].cell \in spoiled'
                    /\ call'[s].alone /\ s \in Applied' =>
                          (call'[s].handler \in Members'[call'[s].cell] <=> call'[s].do = "add")
    BY DEF EffectInv
<1>2. CASE s = t
    BY <1>1, <1>2 DEF IsCall
<1>3. CASE s # t
    <2>1. CASE call'[s] = call[s]
        BY <1>1, <2>1 DEF EffectInv
    <2>2. CASE call'[s] # call[s]
        <3>1. InCall(s, c) /\ call'[s].cell = call[s].cell /\ ~call'[s].alone /\ c \in spoiled'
            BY <1>3, <2>2, BeginSpoils
        <3> QED
            BY <3>1 DEF InCall
    <2> QED
        BY <2>1, <2>2
<1> QED
    BY <1>2, <1>3

\* A call that returns leaves the entries as they are.
LEMMA ReturnEffect ==
    ASSUME IInv, EffectInv, NEW t \in Thread, Return(t)
    PROVE  /\ EffectInv'
           /\ \A s \in Thread : s # t => call'[s] = call[s]
           /\ Members' = Members /\ spoiled' = spoiled
<1>1. /\ call' = [call EXCEPT ![t] = NoCall] /\ spoiled' = spoiled
      /\ Members' = Members /\ Applied' = Applied \ {t}
    <2>1. Atomic!URReturn(t)
        BY ReturnRefines
    <2> QED
        BY <2>1 DEF Return, Atomic!URReturn
<1>2. /\ \A s \in Thread : s # t => call'[s] = call[s]
      /\ call'[t].do = "none"
    BY <1>1 DEF IInv, ServiceInv, ServiceTypes, NoCall
<1>3. EffectInv'
    BY <1>1, <1>2 DEF EffectInv
<1> QED
    BY <1>1, <1>2, <1>3

LEMMA EventLoopCalls ==
    ASSUME IInv, CallInv, NEW h \in Handler, EventLoop(h)
    PROVE  CallInv'
<1> h \in Thread /\ h # Kafka
    BY DEF Thread
<1> USE DEF CallInv
<1>1. at \in [Thread -> Place] /\ userId \in [Handler -> User \cup {NoUser}] /\ Handler \subseteq Thread
    BY DEF IInv, CallerTypes, Thread
<1>2. CASE ReadCounter(h) \/ WriteCounter(h) \/ (HandlerRemoved(h) /\ ~KnownSocket(h))
    <2>1. /\ UNCHANGED <<memory, calls, userId, reply>> /\ at[h] \in {"off", "counting", "run"}
          /\ \E p \in {"counting", "run", "gone"} : at' = [at EXCEPT ![h] = p]
        BY <1>2 DEF ReadCounter, WriteCounter, HandlerRemoved, handlers
    <2>2. UNCHANGED <<call, spoiled, Members, Applied>>
        BY <2>1 DEF calls, memory, Members, Contents, Applied
    <2>3. RoleInv' /\ FitInv'
        BY <1>1, <2>1, <2>2 DEF RoleInv, FitInv, IsCall, Leaving
    <2> QED
        BY <2>2, <2>3 DEF EffectInv
<1>3. ASSUME NEW do \in {"add", "remove"}, NEW registry \in Registry, NEW u \in User,
             NEW p \in {"asking", "leaving", "forgetting"},
             at[h] \in {"run", "left"}, Begin(h, do, registry, u, h), UNCHANGED <<memory, reply>>,
             at' = [at EXCEPT ![h] = p], \A g \in Handler : g # h => userId'[g] = userId[g],
             p = "asking" => do = "add" /\ registry = "pendingUsers" /\ userId'[h] = u,
             p = "leaving" => do = "remove" /\ registry = "users" /\ userId'[h] = u,
             p = "forgetting" => do = "remove" /\ registry = "pendingUsers" /\ userId'[h] = u
      PROVE  CallInv'
    <2>1. at[h] \notin Waiting
        BY <1>3 DEF Waiting
    <2>2. EffectInv'
        BY <1>3, <2>1, BeginEffect
    <2>3. IsCall(h, do, registry, u, h)'
        BY <1>3, <2>1, BeginSpoils
    <2>4. ASSUME NEW s \in Thread, s # h
          PROVE  call'[s].do = call[s].do /\ call'[s].cell = call[s].cell
                 /\ call'[s].handler = call[s].handler
        BY <1>3, <2>1, <2>4, BeginOthers
    <2>5. RoleInv'
        BY <1>1, <1>3 DEF RoleInv, Leaving
    <2>6. ASSUME NEW g \in Handler
          PROVE  /\ at'[g] = "asking" => IsCall(g, "add", "pendingUsers", userId[g], g)'
                 /\ at'[g] = "leaving" => IsCall(g, "remove", "users", userId[g], g)'
                 /\ at'[g] = "forgetting" => IsCall(g, "remove", "pendingUsers", userId[g], g)'
        <3>1. CASE g = h
            BY <1>1, <1>3, <2>3, <3>1 DEF IsCall
        <3>2. CASE g # h
            BY <1>1, <1>3, <2>4, <3>2 DEF IsCall, FitInv
        <3> QED
            BY <3>1, <3>2
    <2>7. \A r \in reply' :
             /\ at'[Kafka] = "releasing" =>
                   IsCall(Kafka, "remove", "pendingUsers", r.user, r.handler)'
             /\ at'[Kafka] = "admitting" => IsCall(Kafka, "add", "users", r.user, r.handler)'
        <3>1. Kafka \in Thread
            BY DEF Thread
        <3> QED
            BY <1>1, <1>3, <2>4, <3>1 DEF IsCall, FitInv
    <2> QED
        BY <2>2, <2>5, <2>6, <2>7 DEF FitInv
<1>4. CASE \E u \in User : AuthClient(h, u)
    <2>1. PICK u \in User : AuthClient(h, u)
        BY <1>4
    <2> QED
        BY <1>1, <1>3, <2>1 DEF AuthClient, Registry
<1>5. CASE HandlerRemoved(h) /\ KnownSocket(h)
    <2>1. userId[h] \in User
        BY <1>5 DEF KnownSocket, IInv, AskedInv, AskedHandlers
    <2> QED
        BY <1>1, <1>3, <1>5, <2>1 DEF HandlerRemoved, Registry, handlers
<1>6. CASE LeavePending(h)
    <2>1. userId[h] \in User
        BY <1>6 DEF LeavePending, IInv, AskedInv, AskedHandlers
    <2> QED
        BY <1>1, <1>3, <1>6, <2>1 DEF LeavePending, Registry, handlers
<1>7. CASE Asked(h) \/ LeftUsers(h) \/ LeftPending(h)
    <2>1. /\ Return(h) /\ UNCHANGED <<userId, reply>>
          /\ \E p \in {"run", "left", "gone"} : at' = [at EXCEPT ![h] = p]
        BY <1>7 DEF Asked, LeftUsers, LeftPending, handlers
    <2>2. EffectInv' /\ \A s \in Thread : s # h => call'[s] = call[s]
        BY <2>1, ReturnEffect
    <2>3. Kafka \in Thread
        BY DEF Thread
    <2>4. RoleInv' /\ FitInv'
        BY <1>1, <2>1, <2>2, <2>3 DEF RoleInv, FitInv, IsCall, Leaving
    <2> QED
        BY <2>2, <2>4
<1> QED
    BY <1>2, <1>4, <1>5, <1>6, <1>7 DEF EventLoop

LEMMA ConsumerCalls ==
    ASSUME IInv, CallInv, ConsumerThread
    PROVE  CallInv'
<1> USE DEF CallInv
<1>1. at \in [Thread -> Place] /\ Handler \subseteq Thread /\ Kafka \in Thread
    BY DEF IInv, CallerTypes, Thread
<1>2. ASSUME NEW do \in {"add", "remove"}, NEW registry \in Registry, NEW u \in User,
             NEW h \in Handler, NEW p \in {"releasing", "admitting"},
             at[Kafka] \in {"run", "released"}, Begin(Kafka, do, registry, u, h),
             UNCHANGED <<memory, userId>>, at' = [at EXCEPT ![Kafka] = p],
             \A r \in reply' : r.user = u /\ r.handler = h,
             \A r, s \in reply' : r = s,
             p = "releasing" => do = "remove" /\ registry = "pendingUsers",
             p = "admitting" => do = "add" /\ registry = "users"
      PROVE  CallInv'
    <2>1. at[Kafka] \notin Waiting
        BY <1>2 DEF Waiting
    <2>2. EffectInv'
        BY <1>1, <1>2, <2>1, BeginEffect
    <2>3. IsCall(Kafka, do, registry, u, h)'
        BY <1>1, <1>2, <2>1, BeginSpoils
    <2>4. ASSUME NEW s \in Handler
          PROVE  call'[s].do = call[s].do /\ call'[s].cell = call[s].cell
                 /\ call'[s].handler = call[s].handler
        <3>1. s \in Thread /\ s # Kafka
            BY <1>1
        <3> QED
            BY <1>1, <1>2, <2>1, <3>1, BeginOthers
    <2>5. RoleInv'
        BY <1>1, <1>2 DEF RoleInv, Leaving
    <2>6. FitInv'
        BY <1>1, <1>2, <2>3, <2>4 DEF FitInv, IsCall
    <2> QED
        BY <2>2, <2>5, <2>6
<1>3. CASE \E q \in requests : TakeReply(q)
    <2>1. PICK q \in requests : TakeReply(q)
        BY <1>3
    <2>2. PICK h \in Found(q[1], q[2]) :
             /\ reply' = {[user |-> q[1], handler |-> h]}
             /\ Begin(Kafka, "remove", "pendingUsers", q[1], h)
        BY <2>1 DEF TakeReply
    <2>3. q[1] \in User /\ h \in Handler
        BY DEF Found, IInv, CallerTypes
    <2>4. /\ at[Kafka] = "run" /\ at' = [at EXCEPT ![Kafka] = "releasing"]
          /\ UNCHANGED <<memory, userId>>
        BY <2>1 DEF TakeReply, handlers
    <2> QED
        BY <1>2, <2>2, <2>3, <2>4 DEF Registry
<1>4. CASE Admit
    <2>1. PICK r \in reply : Begin(Kafka, "add", "users", r.user, r.handler)
        BY <1>4 DEF Admit
    <2>2. /\ at[Kafka] = "released" /\ at' = [at EXCEPT ![Kafka] = "admitting"]
          /\ UNCHANGED <<memory, userId, reply>>
        BY <1>4 DEF Admit, handlers
    <2>3. r.user \in User /\ r.handler \in Handler
        BY DEF IInv, CallerTypes
    <2>4. /\ \A v \in reply' : v.user = r.user /\ v.handler = r.handler
          /\ \A v, s \in reply' : v = s
        BY <2>2 DEF RoleInv
    <2> QED
        BY <1>2, <2>1, <2>2, <2>3, <2>4 DEF Registry
<1>5. CASE Released \/ Admitted
    <2>1. /\ Return(Kafka) /\ userId' = userId /\ (reply' = reply \/ reply' = {})
          /\ \E p \in {"run", "released", "granting"} : at' = [at EXCEPT ![Kafka] = p]
        BY <1>5 DEF Released, Admitted, EndReply, handlers
    <2>2. EffectInv' /\ \A s \in Thread : s # Kafka => call'[s] = call[s]
        BY <1>1, <2>1, ReturnEffect
    <2>3. RoleInv' /\ FitInv'
        BY <1>1, <2>1, <2>2 DEF RoleInv, FitInv, IsCall, Leaving
    <2> QED
        BY <2>2, <2>3
<1>6. CASE Reject \/ Grant
    <2>1. /\ UNCHANGED <<userId, memory, calls>> /\ reply' = {}
          /\ at' = [at EXCEPT ![Kafka] = "run"]
        BY <1>6 DEF Reject, Grant, EndReply
    <2>2. UNCHANGED <<call, spoiled, Members, Applied>>
        BY <2>1 DEF calls, memory, Members, Contents, Applied
    <2>3. RoleInv' /\ FitInv'
        BY <1>1, <2>1, <2>2 DEF RoleInv, FitInv, IsCall, Leaving
    <2> QED
        BY <2>2, <2>3 DEF EffectInv
<1> QED
    BY <1>3, <1>4, <1>5, <1>6 DEF ConsumerThread

LEMMA CallsStep == IInv /\ CallInv /\ [Next]_vars => CallInv'
<1> SUFFICES ASSUME IInv, CallInv, [Next]_vars PROVE CallInv'
    OBVIOUS
<1>1. CASE UNCHANGED vars
    <2>1. UNCHANGED <<at, userId, reply, call, spoiled, Members, Applied>>
        BY <1>1 DEF vars, handlers, callers, memory, calls, Members, Contents, Applied
    <2> QED
        BY <2>1 DEF CallInv, EffectInv, RoleInv, FitInv, IsCall
<1> QED
    BY <1>1, ServiceCalls, EventLoopCalls, ConsumerCalls DEF Next

-----------------------------------------------------------------------------
\* Who is in the registries, as long as no pending entry is spoiled.

InPending(h, u) == h \in Members[<<"pendingUsers", u>>]
InUsers(h, u) == h \in Members[<<"users", u>>]

\* In some list of the user's entry, or on the way into one.
MayBeUser(h, u) ==
    \/ \E k \in ListId : h \in lists[<<"users", u>>][k]
    \/ \E t \in Thread : step[t] = "change" /\ call[t].cell = <<"users", u>> /\ h \in saw[t]

\* A twin that goes takes the socket out of the users.
DepartedTwin(h) ==
    \E g \in Handler :
        g # h /\ socketId[g] = socketId[h] /\ userId[g] = userId[h] /\ at[g] \in Leaving

Reached(h) ==
    at[h] = "run" =>
        \A u \in User :
            userId[h] = u => InUsers(h, u) \/ <<"users", u>> \in spoiled \/ DepartedTwin(h)

StatusInv ==
    \A h \in Handler :
        /\ at[h] \in {"off", "counting"} => authStatus[h] = "NOT_AUTHENTICATED"
        /\ at[h] = "asking" => authStatus[h] = "AUTHENTICATING"

PendingInv ==
    \A h \in Handler, u \in User :
        InPending(h, u) => userId[h] = u /\ authStatus[h] = "AUTHENTICATING"

UsersInv ==
    \A h \in Handler, u \in User :
        MayBeUser(h, u) =>
            /\ userId[h] = u /\ authStatus[h] # "NOT_AUTHENTICATED"
            /\ ~InPending(h, u) /\ at[h] # "asking"

\* While a reply is at work its socket waits for it.
ReplyInv ==
    \A r \in reply :
        /\ userId[r.handler] = r.user /\ authStatus[r.handler] = "AUTHENTICATING"
        /\ at[r.handler] # "asking"
        /\ at[r.handler] \in Leaving => r.handler \in raced
        /\ at[Kafka] \in {"releasing", "released"} =>
              \A u \in User : ~MayBeUser(r.handler, u)
        /\ at[Kafka] \in {"released", "admitting", "granting"} => ~InPending(r.handler, r.user)
        /\ at[Kafka] \in {"admitting", "granting"} => r.user \in granted
        /\ at[Kafka] = "granting" => Reached(r.handler)

AuthInv ==
    \A h \in Handler :
        authStatus[h] = "AUTHENTICATED" => userId[h] \in granted /\ Reached(h)

GoneInv ==
    \A h \in Handler, u \in User :
        h \notin raced /\ userId[h] = u /\ <<"users", u>> \notin spoiled =>
            /\ at[h] \in {"left", "forgetting", "gone"} => ~InUsers(h, u)
            /\ at[h] = "gone" => ~InPending(h, u)

PeopleInv == StatusInv /\ PendingInv /\ UsersInv /\ ReplyInv /\ AuthInv /\ GoneInv

\* What all steps but those of the service leave alone.
Frame ==
    /\ spoiled \subseteq spoiled' /\ raced \subseteq raced' /\ granted \subseteq granted'
    /\ \A h \in Handler, u \in User :
          /\ InPending(h, u)' <=> InPending(h, u)
          /\ InUsers(h, u)' <=> InUsers(h, u)
          /\ MayBeUser(h, u)' => MayBeUser(h, u)

LEMMA InitPeople == Init => PeopleInv
<1> SUFFICES ASSUME Init PROVE PeopleInv
    OBVIOUS
<1>1. ASSUME NEW h \in Handler, NEW u \in User
      PROVE  ~InPending(h, u) /\ ~InUsers(h, u) /\ ~MayBeUser(h, u)
    <2> DEFINE p == <<"pendingUsers", u>>
               d == <<"users", u>>
    <2>1. p \in Cell /\ d \in Cell
        BY DEF Cell, Registry
    <2> HIDE DEF p, d
    <2>2. /\ Members[p] = {} /\ Members[d] = {}
          /\ \A k \in ListId : lists[d][k] = {}
          /\ \A t \in Thread : step[t] # "change"
        BY <2>1 DEF Init, Members, Contents
    <2> QED
        BY <2>2 DEF InPending, InUsers, MayBeUser, p, d
<1>2. StatusInv /\ PendingInv /\ UsersInv /\ AuthInv
    <2>1. /\ \A h \in Handler : authStatus[h] = "NOT_AUTHENTICATED"
          /\ \A h \in Handler : at[h] = "off"
        BY DEF Init, Thread
    <2> QED
        BY <1>1, <2>1 DEF StatusInv, PendingInv, UsersInv, AuthInv
<1>3. ReplyInv /\ GoneInv
    BY <1>1 DEF Init, ReplyInv, GoneInv, Thread
<1> QED
    BY <1>2, <1>3 DEF PeopleInv

LEMMA MembersMayBe ==
    ASSUME IInv, NEW h \in Handler, NEW u \in User, InUsers(h, u)
    PROVE  MayBeUser(h, u)
<1> DEFINE c == <<"users", u>>
<1>1. c \in Cell /\ map[c] \in ListId \cup {0}
    BY DEF Cell, Registry, IInv, ServiceInv, ServiceTypes
<1>2. h \in Contents(c)
    BY <1>1 DEF InUsers, Members
<1>3. map[c] # 0 /\ h \in lists[c][map[c]]
    BY <1>2 DEF Contents
<1> QED
    BY <1>1, <1>3 DEF MayBeUser

\* Whose a call in progress is.
LEMMA WhoseCall ==
    ASSUME IInv, CallInv, NEW t \in Thread, step[t] # "none"
    PROVE  \/ /\ t \in Handler /\ at[t] = "asking"
              /\ IsCall(t, "add", "pendingUsers", userId[t], t)
           \/ /\ t \in Handler /\ at[t] = "leaving"
              /\ IsCall(t, "remove", "users", userId[t], t)
           \/ /\ t \in Handler /\ at[t] = "forgetting"
              /\ IsCall(t, "remove", "pendingUsers", userId[t], t)
           \/ /\ t = Kafka /\ at[t] = "releasing"
              /\ \E r \in reply : IsCall(t, "remove", "pendingUsers", r.user, r.handler)
           \/ /\ t = Kafka /\ at[t] = "admitting"
              /\ \E r \in reply : IsCall(t, "add", "users", r.user, r.handler)
<1>1. at[t] \in Waiting
    BY DEF IInv, WaitInv
<1>2. CASE t = Kafka
    <2>1. at[t] \in {"releasing", "admitting"} /\ reply # {}
        BY <1>1, <1>2 DEF CallInv, RoleInv, Waiting, IInv, WaitInv
    <2>2. PICK r \in reply : TRUE
        BY <2>1
    <2> QED
        BY <1>2, <2>1, <2>2 DEF CallInv, FitInv
<1>3. CASE t \in Handler
    <2>1. at[t] \in {"asking", "leaving", "forgetting"}
        BY <1>1, <1>3 DEF CallInv, RoleInv, Waiting, Leaving
    <2> QED
        BY <1>3, <2>1 DEF CallInv, FitInv
<1> QED
    BY <1>2, <1>3 DEF Thread

LEMMA ServiceMayBe ==
    ASSUME IInv, NEW t \in Thread, Service(t), NEW h \in Handler, NEW u \in User, MayBeUser(h, u)'
    PROVE  MayBeUser(h, u) \/ IsCall(t, "add", "users", u, h)
<1> DEFINE d == <<"users", u>>
           c == call[t].cell
<1> USE DEF IInv, ServiceInv
<1>1. /\ call[t].do \in {"add", "remove"} /\ c \in Cell /\ d \in Cell
      /\ call[t].handler \in Handler /\ call' = call /\ h # Null
    BY ServiceMoves, CallOrNone, CallFields DEF Cell, Registry
<1>2. \A s \in Thread : s # t => step'[s] = step[s]
    BY ServiceMoves
<1>3. \/ \E k \in ListId : h \in lists'[d][k]
      \/ \E s \in Thread : step'[s] = "change" /\ call[s].cell = d /\ h \in saw'[s]
    <2>1. call' = call
        BY <1>1
    <2> QED
        BY <2>1 DEF MayBeUser
<1> HIDE DEF c, d
<1>4. CASE ContainsKey(t) \/ Drop(t)
    <2>1. lists' = lists /\ saw' = saw /\ step'[t] # "change"
        BY <1>4 DEF ContainsKey, Drop, Goto, memory, ServiceTypes
    <2> QED
        BY <1>2, <1>3, <2>1 DEF MayBeUser, d
<1>5. CASE Put(t)
    <2>1. saw' = saw /\ step'[t] # "change"
        BY <1>5 DEF Put, Goto, ServiceTypes
    <2>2. \A k \in ListId : lists'[d][k] \subseteq lists[d][k]
        BY <1>1, <1>5 DEF Put, ServiceTypes, c
    <2> QED
        BY <1>2, <1>3, <2>1, <2>2 DEF MayBeUser, d
<1>6. CASE Get(t)
    <2>1. lists' = lists
        BY <1>6 DEF Get, memory
    <2>2. \A s \in Thread : s # t => saw'[s] = saw[s]
        BY <1>6 DEF Get, ServiceTypes
    <2>3. step'[t] = "change" => saw'[t] = lists[c][map[c]] /\ map[c] \in ListId
        BY <1>1, <1>6 DEF Get, Goto, ServiceTypes, c
    <2>4. CASE \E k \in ListId : h \in lists'[d][k]
        BY <2>1, <2>4 DEF MayBeUser, d
    <2>5. CASE \E s \in Thread : step'[s] = "change" /\ call[s].cell = d /\ h \in saw'[s]
        <3>1. PICK s \in Thread : step'[s] = "change" /\ call[s].cell = d /\ h \in saw'[s]
            BY <2>5
        <3>2. CASE s = t
            <4>1. c = d /\ h \in lists[d][map[c]] /\ map[c] \in ListId
                BY <2>3, <3>1, <3>2 DEF c
            <4> QED
                BY <4>1 DEF MayBeUser, d
        <3>3. CASE s # t
            BY <1>2, <2>2, <3>1, <3>3 DEF MayBeUser, d
        <3> QED
            BY <3>2, <3>3
    <2> QED
        BY <1>3, <2>4, <2>5
<1>7. CASE Change(t)
    <2> DEFINE k == list[t]
    <2>1. k \in ListId /\ saw' = [saw EXCEPT ![t] = {}] /\ step[t] = "change"
        BY <1>7, ChangeEffect
    <2>2. PICK L \in SUBSET Slot :
             /\ \/ L \subseteq lists[c][k] \cup saw[t] \cup {Null}
                \/ /\ call[t].do = "add"
                   /\ L \subseteq lists[c][k] \cup saw[t] \cup {Null, call[t].handler}
             /\ lists' = [lists EXCEPT ![c][k] = L]
        BY <1>7, ChangeEffect DEF c
    <2> HIDE DEF k
    <2>3. CASE \E j \in ListId : h \in lists'[d][j]
        <3>1. PICK j \in ListId : h \in lists'[d][j]
            BY <2>3
        <3>2. CASE h \in lists[d][j]
            BY <3>1, <3>2 DEF MayBeUser, d
        <3>3. CASE h \notin lists[d][j]
            <4>1. c = d /\ h \in L
                BY <1>1, <2>1, <2>2, <3>1, <3>3 DEF ServiceTypes
            <4>2. \/ h \in lists[d][k] \/ h \in saw[t]
                  \/ call[t].do = "add" /\ h = call[t].handler
                BY <1>1, <2>2, <4>1
            <4> QED
                BY <2>1, <4>1, <4>2 DEF MayBeUser, IsCall, c, d
        <3> QED
            BY <3>2, <3>3
    <2>4. CASE \E s \in Thread : step'[s] = "change" /\ call[s].cell = d /\ h \in saw'[s]
        <3>1. PICK s \in Thread : step'[s] = "change" /\ call[s].cell = d /\ h \in saw'[s]
            BY <2>4
        <3>2. s # t /\ saw'[s] = saw[s]
            BY <2>1, <3>1 DEF ServiceTypes
        <3> QED
            BY <1>2, <3>1, <3>2 DEF MayBeUser, d
    <2> QED
        BY <1>3, <2>3, <2>4
<1> QED
    BY <1>4, <1>5, <1>6, <1>7 DEF Service

\* What a step of the service does to whom.
LEMMA ServiceMembers ==
    ASSUME IInv, CallInv, ~PendingSpoiled, NEW t \in Thread, Service(t),
           NEW h \in Handler, NEW u \in User
    PROVE  /\ InPending(h, u)' => InPending(h, u) \/ IsCall(t, "add", "pendingUsers", u, h)
           /\ MayBeUser(h, u)' => MayBeUser(h, u) \/ IsCall(t, "add", "users", u, h)
           /\ <<"users", u>> \notin spoiled =>
                 /\ InUsers(h, u)' => InUsers(h, u) \/ IsCall(t, "add", "users", u, h)
                 /\ InUsers(h, u) =>
                       \/ InUsers(h, u)'
                       \/ /\ IsCall(t, "remove", "users", u, call[t].handler)
                          /\ socketId[h] = socketId[call[t].handler]
<1>1. /\ call[t].do \in {"add", "remove"} /\ call[t].cell \in Cell
      /\ call[t].handler \in Handler /\ call' = call
    BY ServiceMoves, CallOrNone, CallFields DEF IInv, ServiceInv
<1>2. ~call[t].alone => call[t].cell \in spoiled
    BY <1>1 DEF CallInv, EffectInv
<1>3. ASSUME NEW c \in Cell, c \notin spoiled
      PROVE  /\ h \in Members'[c] => \/ h \in Members[c]
                                     \/ call[t].do = "add" /\ call[t].cell = c /\ call[t].handler = h
             /\ h \in Members[c] => \/ h \in Members'[c]
                                    \/ /\ call[t].do = "remove" /\ call[t].cell = c
                                       /\ socketId[h] = socketId[call[t].handler]
    <2>1. CASE c # call[t].cell
        <3>1. Members'[c] = Members[c]
            BY <2>1, ServiceOnEntry
        <3> QED
            BY <3>1
    <2>2. CASE c = call[t].cell
        <3>1. \/ Members'[c] = Members[c]
              \/ Members'[c] = IF call[t].do = "add" THEN Members[c] \cup {call[t].handler}
                               ELSE {g \in Members[c] : socketId[g] # socketId[call[t].handler]}
            BY <1>2, <1>3, <2>2, ServiceOnEntry
        <3> QED
            BY <1>1, <2>2, <3>1
    <2> QED
        BY <2>1, <2>2
<1>4. InPending(h, u)' => InPending(h, u) \/ IsCall(t, "add", "pendingUsers", u, h)
    <2>1. <<"pendingUsers", u>> \in Cell /\ <<"pendingUsers", u>> \notin spoiled
        BY DEF Cell, Registry, PendingSpoiled
    <2> QED
        BY <1>3, <2>1 DEF InPending, IsCall
<1>5. <<"users", u>> \notin spoiled =>
          /\ InUsers(h, u)' => InUsers(h, u) \/ IsCall(t, "add", "users", u, h)
          /\ InUsers(h, u) =>
                \/ InUsers(h, u)'
                \/ /\ IsCall(t, "remove", "users", u, call[t].handler)
                   /\ socketId[h] = socketId[call[t].handler]
    <2>1. <<"users", u>> \in Cell
        BY DEF Cell, Registry
    <2> QED
        BY <1>3, <2>1 DEF InUsers, IsCall
<1>6. MayBeUser(h, u)' => MayBeUser(h, u) \/ IsCall(t, "add", "users", u, h)
    BY <1>1, ServiceMayBe
<1> QED
    BY <1>4, <1>5, <1>6

LEMMA ServicePeople ==
    ASSUME IInv, CallInv, PeopleInv, ~PendingSpoiled, NEW t \in Thread, Service(t)
    PROVE  PeopleInv'
<1>1. /\ step[t] # "none"
      /\ UNCHANGED <<socketId, userId, authStatus, at, reply, call, spoiled, granted, raced>>
    BY ServiceMoves DEF IInv, handlers, callers
<1>2. reply \subseteq [user : User, handler : Handler]
    BY DEF IInv, CallerTypes
<1>3. ASSUME NEW h \in Handler, NEW u \in User
      PROVE  /\ IsCall(t, "add", "pendingUsers", u, h) => at[h] = "asking" /\ userId[h] = u
             /\ IsCall(t, "add", "users", u, h) =>
                   at[Kafka] = "admitting" /\ \E r \in reply : r.user = u /\ r.handler = h
             /\ IsCall(t, "remove", "users", u, call[t].handler) =>
                   /\ call[t].handler \in Handler /\ at[call[t].handler] = "leaving"
                   /\ userId[call[t].handler] = u
    BY <1>1, WhoseCall DEF IsCall
<1>4. ASSUME NEW h \in Handler, NEW u \in User
      PROVE  /\ InPending(h, u)' => InPending(h, u) \/ (at[h] = "asking" /\ userId[h] = u)
             /\ <<"users", u>> \notin spoiled =>
                   /\ InUsers(h, u)' =>
                         \/ InUsers(h, u)
                         \/ at[Kafka] = "admitting" /\ \E r \in reply : r.user = u /\ r.handler = h
                   /\ InUsers(h, u) =>
                         \/ InUsers(h, u)'
                         \/ \E g \in Handler :
                               at[g] = "leaving" /\ userId[g] = u /\ socketId[h] = socketId[g]
    BY <1>3, ServiceMembers
<1>12. ASSUME NEW h \in Handler, NEW u \in User, MayBeUser(h, u)'
       PROVE  \/ MayBeUser(h, u)
              \/ at[Kafka] = "admitting" /\ \E r \in reply : r.user = u /\ r.handler = h
    <2>1. MayBeUser(h, u) \/ IsCall(t, "add", "users", u, h)
        BY <1>12, ServiceMembers
    <2> QED
        BY <1>3, <2>1
<1>5. ASSUME NEW h \in Handler, Reached(h)
      PROVE  Reached(h)'
    <2> SUFFICES ASSUME at[h] = "run", NEW u \in User, userId[h] = u
                 PROVE  InUsers(h, u)' \/ <<"users", u>> \in spoiled \/ DepartedTwin(h)'
        BY <1>1 DEF Reached
    <2>1. CASE <<"users", u>> \in spoiled
        BY <2>1
    <2>2. CASE DepartedTwin(h)
        BY <1>1, <2>2 DEF DepartedTwin
    <2>3. CASE InUsers(h, u) /\ <<"users", u>> \notin spoiled
        <3>1. CASE InUsers(h, u)'
            BY <3>1
        <3>2. CASE ~InUsers(h, u)'
            <4>1. PICK g \in Handler : at[g] = "leaving" /\ userId[g] = u /\ socketId[h] = socketId[g]
                BY <1>4, <2>3, <3>2
            <4> QED
                BY <1>1, <4>1 DEF DepartedTwin, Leaving
        <3> QED
            BY <3>1, <3>2
    <2> QED
        BY <1>5, <2>1, <2>2, <2>3 DEF Reached
<1> USE DEF PeopleInv
<1>6. StatusInv'
    BY <1>1 DEF StatusInv
<1>7. PendingInv'
    <2> SUFFICES ASSUME NEW h \in Handler, NEW u \in User, InPending(h, u)'
                 PROVE  userId[h] = u /\ authStatus[h] = "AUTHENTICATING"
        BY <1>1 DEF PendingInv
    <2>1. InPending(h, u) \/ (at[h] = "asking" /\ userId[h] = u)
        BY <1>4
    <2> QED
        BY <2>1 DEF PendingInv, StatusInv
<1>8. UsersInv'
    <2> SUFFICES ASSUME NEW h \in Handler, NEW u \in User, MayBeUser(h, u)'
                 PROVE  /\ userId[h] = u /\ authStatus[h] # "NOT_AUTHENTICATED"
                        /\ ~InPending(h, u)' /\ at[h] # "asking"
        BY <1>1 DEF UsersInv
    <2>3. InPending(h, u)' => InPending(h, u) \/ (at[h] = "asking" /\ userId[h] = u)
        BY <1>4
    <2>4. \/ MayBeUser(h, u)
          \/ at[Kafka] = "admitting" /\ \E r \in reply : r.user = u /\ r.handler = h
        BY <1>12
    <2>1. CASE MayBeUser(h, u)
        BY <2>1, <2>3 DEF UsersInv
    <2>2. CASE at[Kafka] = "admitting" /\ \E r \in reply : r.user = u /\ r.handler = h
        BY <2>2, <2>3 DEF ReplyInv
    <2> QED
        BY <2>1, <2>2, <2>4
<1>9. ReplyInv'
    <2> SUFFICES ASSUME NEW r \in reply
                 PROVE  /\ at[Kafka] \in {"releasing", "released"} =>
                              \A u \in User : ~MayBeUser(r.handler, u)'
                        /\ at[Kafka] \in {"released", "admitting", "granting"} =>
                              ~InPending(r.handler, r.user)'
                        /\ at[Kafka] = "granting" => Reached(r.handler)'
        BY <1>1 DEF ReplyInv
    <2>1. r.handler \in Handler /\ r.user \in User
        BY <1>2
    <2> QED
        BY <1>4, <1>5, <1>12, <2>1 DEF ReplyInv
<1>10. AuthInv'
    BY <1>1, <1>5 DEF AuthInv
<1>11. GoneInv'
    <2> SUFFICES ASSUME NEW h \in Handler, NEW u \in User,
                        h \notin raced, userId[h] = u, <<"users", u>> \notin spoiled
                 PROVE  /\ at[h] \in {"left", "forgetting", "gone"} => ~InUsers(h, u)'
                        /\ at[h] = "gone" => ~InPending(h, u)'
        BY <1>1 DEF GoneInv
    <2>1. at[h] \in Leaving => ~\E r \in reply : r.handler = h
        BY DEF ReplyInv
    <2> QED
        BY <1>4, <2>1 DEF GoneInv, Leaving
<1> QED
    BY <1>6, <1>7, <1>8, <1>9, <1>10, <1>11

\* What the callers' steps do to whom: nothing.
LEMMA BeginFrame ==
    ASSUME IInv, NEW t \in Thread, at[t] \notin Waiting,
           NEW do \in {"add", "remove"}, NEW registry \in Registry, NEW u \in User,
           NEW h \in Handler, Begin(t, do, registry, u, h), UNCHANGED memory,
           raced \subseteq raced', granted \subseteq granted'
    PROVE  Frame
<1>1. spoiled \subseteq spoiled' /\ Members' = Members
    BY BeginSpoils
<1>2. lists' = lists /\ saw' = saw
    BY DEF Begin, memory
<1>3. step'[t] # "change" /\ \A s \in Thread : s # t => step'[s] = step[s]
    BY DEF Begin, IInv, ServiceInv, ServiceTypes
<1>4. \A s \in Thread : s # t => call'[s].cell = call[s].cell
    BY BeginOthers
<1>5. ASSUME NEW g \in Handler, NEW v \in User, MayBeUser(g, v)'
      PROVE  MayBeUser(g, v)
    BY <1>2, <1>3, <1>4, <1>5 DEF MayBeUser
<1> QED
    BY <1>1, <1>5 DEF Frame, InPending, InUsers

LEMMA ReturnFrame ==
    ASSUME IInv, EffectInv, NEW t \in Thread, Return(t),
           raced \subseteq raced', granted \subseteq granted'
    PROVE  Frame
<1>1. spoiled' = spoiled /\ Members' = Members /\ \A s \in Thread : s # t => call'[s] = call[s]
    BY ReturnEffect
<1>2. saw' = saw /\ step'[t] # "change" /\ \A s \in Thread : s # t => step'[s] = step[s]
    BY DEF Return, IInv, ServiceInv, ServiceTypes
<1>3. \A c \in Cell, k \in ListId : lists'[c][k] \subseteq lists[c][k]
    BY ReturnStep DEF IInv
<1>4. ASSUME NEW g \in Handler, NEW v \in User, MayBeUser(g, v)'
      PROVE  MayBeUser(g, v)
    <2>1. <<"users", v>> \in Cell
        BY DEF Cell, Registry
    <2> QED
        BY <1>1, <1>2, <1>3, <1>4, <2>1 DEF MayBeUser
<1> QED
    BY <1>1, <1>4 DEF Frame, InPending, InUsers

LEMMA QuietFrame ==
    ASSUME UNCHANGED <<memory, calls>>, raced \subseteq raced', granted \subseteq granted'
    PROVE  Frame
<1>1. UNCHANGED <<spoiled, lists, saw, step, call, map>>
    BY DEF memory, calls
<1>2. Members' = Members
    BY <1>1 DEF Members, Contents
<1>3. ASSUME NEW g \in Handler, NEW v \in User, MayBeUser(g, v)'
      PROVE  MayBeUser(g, v)
    BY <1>1, <1>3 DEF MayBeUser
<1> QED
    BY <1>1, <1>2, <1>3 DEF Frame, InPending, InUsers

\* A socket stays reached while nobody changes what it and its twins are.
LEMMA StaysReached ==
    ASSUME Frame, NEW h \in Handler, Reached(h),
           userId'[h] = userId[h], socketId'[h] = socketId[h],
           at'[h] = "run" => at[h] = "run",
           \A g \in Handler : at[g] \in Leaving =>
               at'[g] \in Leaving /\ userId'[g] = userId[g] /\ socketId'[g] = socketId[g]
    PROVE  Reached(h)'
<1> SUFFICES ASSUME at'[h] = "run", NEW u \in User, userId'[h] = u
             PROVE  InUsers(h, u)' \/ <<"users", u>> \in spoiled' \/ DepartedTwin(h)'
    BY DEF Reached
<1>1. InUsers(h, u) \/ <<"users", u>> \in spoiled \/ DepartedTwin(h)
    BY DEF Reached
<1>2. DepartedTwin(h) => DepartedTwin(h)'
    BY DEF DepartedTwin
<1> QED
    BY <1>1, <1>2 DEF Frame

\* An event loop that goes on to its next place.
LEMMA MoveOn ==
    ASSUME IInv, PeopleInv, Frame, NEW h \in Handler, NEW p \in Place \ {"asking"},
           UNCHANGED <<userId, authStatus, reply>>, at' = [at EXCEPT ![h] = p],
           \A g \in Handler : g # h \/ at[g] # "off" => socketId'[g] = socketId[g],
           p = "run" => at[h] \in {"counting", "asking"},
           p \in {"off", "counting"} => at[h] = "off",
           at[h] \in Leaving => p \in Leaving,
           p \in Leaving => \A r \in reply : r.handler = h => h \in raced',
           \A u \in User :
               h \notin raced' /\ userId[h] = u /\ <<"users", u>> \notin spoiled' =>
                   /\ p \in {"left", "forgetting", "gone"} => ~InUsers(h, u)
                   /\ p = "gone" => ~InPending(h, u)
    PROVE  PeopleInv'
<1> USE DEF PeopleInv
<1>1. at \in [Thread -> Place] /\ h \in Thread /\ h # Kafka /\ Handler \subseteq Thread
    BY DEF IInv, CallerTypes, Thread
<1>2. at'[h] = p /\ at'[Kafka] = at[Kafka] /\ \A g \in Handler : g # h => at'[g] = at[g]
    BY <1>1 DEF Thread
<1>3. reply \subseteq [user : User, handler : Handler]
    BY DEF IInv, CallerTypes
<1>4. ASSUME NEW g \in Handler, Reached(g), authStatus[g] # "NOT_AUTHENTICATED",
             at[g] # "asking"
      PROVE  Reached(g)'
    <2>1. at[g] \notin {"off", "counting"}
        BY <1>4 DEF StatusInv
    <2>2. at'[g] = "run" => at[g] = "run"
        BY <1>2, <1>4, <2>1
    <2>3. ASSUME NEW k \in Handler, at[k] \in Leaving
          PROVE  at'[k] \in Leaving /\ userId'[k] = userId[k] /\ socketId'[k] = socketId[k]
        BY <1>2, <2>3 DEF Leaving
    <2> QED
        BY <1>4, <2>1, <2>2, <2>3, StaysReached
<1>5. StatusInv'
    BY <1>2 DEF StatusInv
<1>6. PendingInv'
    BY DEF PendingInv, Frame
<1>7. UsersInv'
    BY <1>2 DEF UsersInv, Frame
<1>8. ReplyInv'
    <2> SUFFICES ASSUME NEW r \in reply
                 PROVE  /\ at'[r.handler] # "asking"
                        /\ at'[r.handler] \in Leaving => r.handler \in raced'
                        /\ at[Kafka] \in {"releasing", "released"} =>
                              \A u \in User : ~MayBeUser(r.handler, u)'
                        /\ at[Kafka] \in {"released", "admitting", "granting"} =>
                              ~InPending(r.handler, r.user)'
                        /\ at[Kafka] \in {"admitting", "granting"} => r.user \in granted'
                        /\ at[Kafka] = "granting" => Reached(r.handler)'
        BY <1>2 DEF ReplyInv
    <2>1. r.handler \in Handler /\ r.user \in User
        BY <1>3
    <2>2. at'[r.handler] # "asking" /\ (at'[r.handler] \in Leaving => r.handler \in raced')
        BY <1>2, <2>1 DEF ReplyInv, Frame
    <2>3. at[Kafka] = "granting" => Reached(r.handler)'
        BY <1>4, <2>1 DEF ReplyInv
    <2> QED
        BY <2>1, <2>2, <2>3 DEF ReplyInv, Frame
<1>9. AuthInv'
    <2> SUFFICES ASSUME NEW g \in Handler, authStatus[g] = "AUTHENTICATED"
                 PROVE  userId[g] \in granted' /\ Reached(g)'
        BY DEF AuthInv
    <2>1. at[g] # "asking"
        BY DEF StatusInv
    <2> QED
        BY <1>4, <2>1 DEF AuthInv, Frame
<1>10. GoneInv'
    <2> SUFFICES ASSUME NEW g \in Handler, NEW u \in User, g \notin raced', userId[g] = u,
                        <<"users", u>> \notin spoiled'
                 PROVE  /\ at'[g] \in {"left", "forgetting", "gone"} => ~InUsers(g, u)'
                        /\ at'[g] = "gone" => ~InPending(g, u)'
        BY DEF GoneInv
    <2>1. CASE g = h
        BY <1>2, <2>1 DEF Frame
    <2>2. CASE g # h
        BY <1>2, <2>2 DEF GoneInv, Frame
    <2> QED
        BY <2>1, <2>2
<1> QED
    BY <1>5, <1>6, <1>7, <1>8, <1>9, <1>10

LEMMA AuthClientPeople ==
    ASSUME IInv, CallInv, PeopleInv, NEW h \in Handler, NEW u \in User, AuthClient(h, u)
    PROVE  PeopleInv'
<1> USE DEF PeopleInv
<1>1. /\ at[h] = "run" /\ authStatus[h] = "NOT_AUTHENTICATED"
      /\ userId' = [userId EXCEPT ![h] = u]
      /\ authStatus' = [authStatus EXCEPT ![h] = "AUTHENTICATING"]
      /\ at' = [at EXCEPT ![h] = "asking"]
      /\ Begin(h, "add", "pendingUsers", u, h)
      /\ UNCHANGED <<socketId, reply, memory, granted, raced>>
    BY DEF AuthClient
<1>2. /\ at \in [Thread -> Place] /\ h \in Thread /\ h # Kafka /\ Handler \subseteq Thread
      /\ userId \in [Handler -> User \cup {NoUser}]
      /\ authStatus \in [Handler -> {"NOT_AUTHENTICATED", "AUTHENTICATING", "AUTHENTICATED"}]
      /\ reply \subseteq [user : User, handler : Handler]
    BY DEF IInv, CallerTypes, Thread
<1>3. /\ at'[h] = "asking" /\ userId'[h] = u /\ authStatus'[h] = "AUTHENTICATING"
      /\ at'[Kafka] = at[Kafka]
      /\ \A g \in Handler : g # h =>
            at'[g] = at[g] /\ userId'[g] = userId[g] /\ authStatus'[g] = authStatus[g]
    BY <1>1, <1>2, ThreadAssumption DEF Thread
<1>4. Frame
    BY <1>1, <1>2, BeginFrame DEF Waiting, Registry
<1>5. ASSUME NEW v \in User
      PROVE  ~InPending(h, v) /\ ~MayBeUser(h, v)
    BY <1>1 DEF PendingInv, UsersInv
<1>6. ASSUME NEW r \in reply
      PROVE  r.handler \in Handler /\ r.user \in User /\ r.handler # h
    BY <1>1, <1>2 DEF ReplyInv
<1>7. ASSUME NEW g \in Handler, g # h, Reached(g)
      PROVE  Reached(g)'
    <2>1. ASSUME NEW k \in Handler, at[k] \in Leaving
          PROVE  at'[k] \in Leaving /\ userId'[k] = userId[k] /\ socketId'[k] = socketId[k]
        BY <1>1, <1>3, <2>1 DEF Leaving
    <2> QED
        BY <1>1, <1>3, <1>4, <1>7, <2>1, StaysReached
<1>8. StatusInv'
    BY <1>3 DEF StatusInv
<1>9. PendingInv'
    <2> SUFFICES ASSUME NEW g \in Handler, NEW v \in User, InPending(g, v)'
                 PROVE  userId'[g] = v /\ authStatus'[g] = "AUTHENTICATING"
        BY DEF PendingInv
    <2>1. InPending(g, v)
        BY <1>4 DEF Frame
    <2> QED
        BY <1>3, <1>5, <2>1 DEF PendingInv
<1>10. UsersInv'
    <2> SUFFICES ASSUME NEW g \in Handler, NEW v \in User, MayBeUser(g, v)'
                 PROVE  /\ userId'[g] = v /\ authStatus'[g] # "NOT_AUTHENTICATED"
                        /\ ~InPending(g, v)' /\ at'[g] # "asking"
        BY DEF UsersInv
    <2>1. MayBeUser(g, v) /\ (InPending(g, v)' <=> InPending(g, v))
        BY <1>4 DEF Frame
    <2> QED
        BY <1>3, <1>5, <2>1 DEF UsersInv
<1>11. ReplyInv'
    <2> SUFFICES ASSUME NEW r \in reply
                 PROVE  /\ userId'[r.handler] = r.user
                        /\ authStatus'[r.handler] = "AUTHENTICATING"
                        /\ at'[r.handler] # "asking"
                        /\ at'[r.handler] \in Leaving => r.handler \in raced'
                        /\ at'[Kafka] \in {"releasing", "released"} =>
                              \A v \in User : ~MayBeUser(r.handler, v)'
                        /\ at'[Kafka] \in {"released", "admitting", "granting"} =>
                              ~InPending(r.handler, r.user)'
                        /\ at'[Kafka] \in {"admitting", "granting"} => r.user \in granted'
                        /\ at'[Kafka] = "granting" => Reached(r.handler)'
        BY <1>1 DEF ReplyInv
    <2>1. at'[Kafka] = "granting" => Reached(r.handler)'
        BY <1>3, <1>6, <1>7 DEF ReplyInv
    <2>2. /\ userId'[r.handler] = userId[r.handler]
          /\ authStatus'[r.handler] = authStatus[r.handler]
          /\ at'[r.handler] = at[r.handler] /\ at'[Kafka] = at[Kafka]
        BY <1>3, <1>6
    <2> QED
        BY <1>4, <1>6, <2>1, <2>2 DEF ReplyInv, Frame
<1>12. AuthInv'
    <2> SUFFICES ASSUME NEW g \in Handler, authStatus'[g] = "AUTHENTICATED"
                 PROVE  userId'[g] \in granted' /\ Reached(g)'
        BY DEF AuthInv
    <2>1. g # h
        BY <1>3
    <2> QED
        BY <1>1, <1>3, <1>7, <2>1 DEF AuthInv
<1>13. GoneInv'
    <2> SUFFICES ASSUME NEW g \in Handler, NEW v \in User, g \notin raced', userId'[g] = v,
                        <<"users", v>> \notin spoiled',
                        at'[g] \in {"left", "forgetting", "gone"}
                 PROVE  ~InUsers(g, v)' /\ (at'[g] = "gone" => ~InPending(g, v)')
        BY DEF GoneInv
    <2>1. g # h
        BY <1>3
    <2> QED
        BY <1>3, <1>4, <2>1 DEF GoneInv, Frame
<1> QED
    BY <1>8, <1>9, <1>10, <1>11, <1>12, <1>13

\* A call that is over has done its work if its entry is not spoiled.
LEMMA CallDone ==
    ASSUME IInv, CallInv, NEW t \in Thread, step[t] \in {"done", "failed"},
           NEW do \in {"add", "remove"}, NEW registry \in Registry, NEW u \in User,
           NEW h \in Handler, IsCall(t, do, registry, u, h), <<registry, u>> \notin spoiled
    PROVE  step[t] = "done" /\ (h \in Members[<<registry, u>>] <=> do = "add")
<1>1. call[t].do # "none" /\ call[t].alone
    BY DEF CallInv, EffectInv, IsCall
<1>2. step[t] = "done"
    BY <1>1 DEF IInv, ServiceInv, OwnInv, Own
<1>3. t \in Applied
    BY <1>2 DEF Applied
<1> QED
    BY <1>1, <1>2, <1>3 DEF CallInv, EffectInv, IsCall

LEMMA EventLoopPeople ==
    ASSUME IInv, CallInv, PeopleInv, ~PendingSpoiled, NEW h \in Handler, EventLoop(h)
    PROVE  PeopleInv'
<1>1. h \in Thread /\ h # Kafka
    BY DEF Thread
<1>2. at[h] \in Leaving => \A r \in reply : r.handler = h => h \in raced
    BY DEF PeopleInv, ReplyInv
<1>3. ASSUME NEW u \in User
      PROVE  <<"pendingUsers", u>> \notin spoiled
    BY DEF PendingSpoiled
<1>4. CASE ReadCounter(h) \/ WriteCounter(h)
    <2>1. PICK p \in {"counting", "run"} :
             /\ at' = [at EXCEPT ![h] = p]
             /\ UNCHANGED <<userId, authStatus, reply, memory, calls, history>>
             /\ \A g \in Handler : g # h \/ at[g] # "off" => socketId'[g] = socketId[g]
             /\ p = "run" => at[h] = "counting"
             /\ p = "counting" => at[h] = "off"
             /\ at[h] \notin Leaving
        <3>1. socketId \in [Handler -> Nat]
            BY DEF IInv, CallerTypes
        <3> QED
            BY <1>4, <3>1 DEF ReadCounter, WriteCounter, Leaving
    <2>2. Frame
        BY <2>1, QuietFrame DEF history
    <2> QED
        BY <2>1, <2>2, MoveOn DEF Place, Leaving, history
<1>5. CASE \E u \in User : AuthClient(h, u)
    BY <1>5, AuthClientPeople
<1>6. CASE Asked(h)
    <2>1. /\ at[h] = "asking" /\ Return(h) /\ at' = [at EXCEPT ![h] = "run"]
          /\ UNCHANGED <<socketId, userId, authStatus, reply, granted, raced>>
        BY <1>6 DEF Asked, handlers, history
    <2>2. Frame
        BY <1>1, <2>1, ReturnFrame DEF CallInv
    <2>3. /\ "run" \in Place \ {"asking"} /\ "run" \notin Leaving
          /\ at[h] \notin Leaving
        BY <2>1 DEF Place, Leaving
    <2> QED
        BY <2>1, <2>2, <2>3, MoveOn
<1>7. CASE HandlerRemoved(h)
    <2>1. /\ at[h] = "run" /\ UNCHANGED <<socketId, userId, authStatus, reply, granted, memory>>
          /\ raced \subseteq raced' /\ \A r \in reply : r.handler = h => h \in raced'
        BY <1>7 DEF HandlerRemoved, handlers
    <2>2. CASE /\ ~KnownSocket(h) /\ at' = [at EXCEPT ![h] = "gone"] /\ UNCHANGED calls
        <3>1. Frame
            BY <2>1, <2>2, QuietFrame
        <3>2. ASSUME NEW u \in User
              PROVE  ~InUsers(h, u) /\ ~InPending(h, u)
            BY <2>2, MembersMayBe DEF KnownSocket, PeopleInv, PendingInv, UsersInv
        <3> QED
            BY <2>1, <2>2, <3>1, <3>2, MoveOn DEF Place, Leaving
    <2>3. CASE /\ KnownSocket(h) /\ at' = [at EXCEPT ![h] = "leaving"]
               /\ Begin(h, "remove", "users", userId[h], h)
        <3>1. userId[h] \in User
            BY <2>3 DEF KnownSocket, IInv, AskedInv, AskedHandlers
        <3>2. Frame
            BY <1>1, <2>1, <2>3, <3>1, BeginFrame DEF Waiting, Registry
        <3>3. /\ "leaving" \in Place \ {"asking"} /\ "leaving" \in Leaving
              /\ at[h] \notin Leaving
            BY <2>1 DEF Place, Waiting, Leaving
        <3>4. /\ at' = [at EXCEPT ![h] = "leaving"] /\ UNCHANGED <<userId, authStatus, reply>>
              /\ socketId' = socketId /\ \A r \in reply : r.handler = h => h \in raced'
            BY <2>1, <2>3
        <3> QED
            BY <3>2, <3>3, <3>4, MoveOn
    <2> QED
        BY <1>7, <2>2, <2>3 DEF HandlerRemoved
<1>8. CASE LeftUsers(h)
    <2>1. /\ at[h] = "leaving" /\ Return(h)
          /\ at' = [at EXCEPT ![h] = IF step[h] = "done" THEN "left" ELSE "gone"]
          /\ UNCHANGED <<socketId, userId, authStatus, reply, granted, raced>>
        BY <1>8 DEF LeftUsers, handlers, history
    <2>2. Frame
        BY <1>1, <2>1, ReturnFrame DEF CallInv
    <2>3. IsCall(h, "remove", "users", userId[h], h) /\ step[h] \in {"done", "failed"}
        BY <2>1 DEF CallInv, FitInv, Return
    <2>4. ASSUME NEW u \in User, userId[h] = u, <<"users", u>> \notin spoiled
          PROVE  step[h] = "done" /\ ~InUsers(h, u)
        BY <1>1, <2>3, <2>4, CallDone DEF InUsers, Registry
    <2>5. spoiled' = spoiled
        BY <2>1 DEF Return
    <2>6. PICK p \in {"left", "gone"} :
             at' = [at EXCEPT ![h] = p] /\ (p = "gone" => step[h] # "done")
        BY <2>1
    <2> QED
        BY <1>2, <2>1, <2>2, <2>4, <2>5, <2>6, MoveOn DEF Place, Leaving
<1>9. CASE LeavePending(h)
    <2>1. /\ at[h] = "left" /\ Begin(h, "remove", "pendingUsers", userId[h], h)
          /\ at' = [at EXCEPT ![h] = "forgetting"]
          /\ UNCHANGED <<socketId, userId, authStatus, reply, granted, raced, memory>>
        BY <1>9 DEF LeavePending, handlers, history
    <2>2. userId[h] \in User
        BY <2>1 DEF IInv, AskedInv, AskedHandlers
    <2>3. Frame
        BY <1>1, <2>1, <2>2, BeginFrame DEF Waiting, Registry
    <2>4. ASSUME NEW u \in User, h \notin raced, userId[h] = u, <<"users", u>> \notin spoiled'
          PROVE  ~InUsers(h, u)
        BY <2>1, <2>3, <2>4 DEF Frame, PeopleInv, GoneInv
    <2>5. /\ "forgetting" \in Place \ {"asking"} /\ {"forgetting", "left"} \subseteq Leaving
        BY DEF Place, Waiting, Leaving
    <2>6. \A u \in User :
             h \notin raced' /\ userId[h] = u /\ <<"users", u>> \notin spoiled' => ~InUsers(h, u)
        BY <2>1, <2>4
    <2> QED
        BY <1>2, <2>1, <2>3, <2>5, <2>6, MoveOn
<1>10. CASE LeftPending(h)
    <2>1. /\ at[h] = "forgetting" /\ Return(h) /\ at' = [at EXCEPT ![h] = "gone"]
          /\ UNCHANGED <<socketId, userId, authStatus, reply, granted, raced>>
        BY <1>10 DEF LeftPending, handlers, history
    <2>2. Frame
        BY <1>1, <2>1, ReturnFrame DEF CallInv
    <2>3. IsCall(h, "remove", "pendingUsers", userId[h], h) /\ step[h] \in {"done", "failed"}
        BY <2>1 DEF CallInv, FitInv, Return
    <2>4. ASSUME NEW u \in User, h \notin raced, userId[h] = u, <<"users", u>> \notin spoiled'
          PROVE  ~InUsers(h, u) /\ ~InPending(h, u)
        <3>1. ~InUsers(h, u)
            BY <2>1, <2>2, <2>4 DEF Frame, PeopleInv, GoneInv
        <3>2. ~InPending(h, u)
            BY <1>1, <1>3, <2>3, <2>4, CallDone DEF InPending, Registry
        <3> QED
            BY <3>1, <3>2
    <2> QED
        BY <1>2, <2>1, <2>2, <2>4, MoveOn DEF Place, Leaving
<1> QED
    BY <1>4, <1>5, <1>6, <1>7, <1>8, <1>9, <1>10 DEF EventLoop

\* A step of the consumer thread that leaves all sockets what they are.
LEMMA ConsumerKeeps ==
    ASSUME IInv, PeopleInv, Frame, UNCHANGED <<socketId, userId, authStatus>>,
           NEW p \in Place, at' = [at EXCEPT ![Kafka] = p]
    PROVE  /\ StatusInv' /\ PendingInv' /\ UsersInv' /\ AuthInv' /\ GoneInv'
           /\ \A h \in Handler : at'[h] = at[h] /\ (Reached(h) => Reached(h)')
<1> USE DEF PeopleInv
<1>1. \A h \in Handler : at'[h] = at[h]
    BY DEF IInv, CallerTypes, Thread
<1>2. ASSUME NEW h \in Handler, Reached(h)
      PROVE  Reached(h)'
    BY <1>1, <1>2, StaysReached
<1>3. StatusInv' /\ PendingInv'
    BY <1>1 DEF StatusInv, PendingInv, Frame
<1>4. UsersInv'
    BY <1>1 DEF UsersInv, Frame
<1>5. AuthInv'
    BY <1>2 DEF AuthInv, Frame
<1>6. GoneInv'
    BY <1>1 DEF GoneInv, Frame
<1> QED
    BY <1>1, <1>2, <1>3, <1>4, <1>5, <1>6

LEMMA TakeReplyPeople ==
    ASSUME IInv, CallInv, PeopleInv, ~PendingSpoiled', NEW q \in requests, TakeReply(q)
    PROVE  PeopleInv'
<1>1. PICK h \in Found(q[1], q[2]) :
         /\ reply' = {[user |-> q[1], handler |-> h]}
         /\ Begin(Kafka, "remove", "pendingUsers", q[1], h)
         /\ raced' = IF at[h] \in Leaving THEN raced \cup {h} ELSE raced
    BY DEF TakeReply
<1> DEFINE u == q[1]
           c == <<"pendingUsers", u>>
<1>2. u \in User /\ h \in Handler /\ h \in Contents(c) /\ c \in Cell /\ Kafka \in Thread
      /\ h \in Thread /\ h # Kafka
    BY DEF Found, IInv, CallerTypes, Thread, Cell, Registry
<1>3. /\ at[Kafka] = "run" /\ at' = [at EXCEPT ![Kafka] = "releasing"]
      /\ UNCHANGED <<socketId, userId, authStatus, memory, granted>>
    BY DEF TakeReply, handlers
<1>4. Frame
    BY <1>1, <1>2, <1>3, BeginFrame DEF Waiting, Registry
<1>5. InPending(h, u)
    BY <1>2 DEF InPending, Members
<1> HIDE DEF u, c
<1>6. userId[h] = u /\ authStatus[h] = "AUTHENTICATING"
    BY <1>2, <1>5 DEF PeopleInv, PendingInv
<1>7. at[h] # "asking"
    <2> SUFFICES ASSUME at[h] = "asking" PROVE FALSE
        OBVIOUS
    <2>1. IsCall(h, "add", "pendingUsers", u, h)
        BY <1>2, <1>6 DEF CallInv, FitInv
    <2>2. InCall(h, c)
        BY <2>1 DEF IsCall, InCall, c
    <2>3. at[Kafka] \notin Waiting
        BY <1>3 DEF Waiting
    <2>4. c \in spoiled'
        BY <1>1, <1>2, <1>3, <2>2, <2>3, BeginSpoils DEF Registry, c, u
    <2> QED
        BY <1>2, <2>4 DEF PendingSpoiled, c
<1>8. \A v \in User : ~MayBeUser(h, v)
    BY <1>2, <1>5, <1>6 DEF PeopleInv, UsersInv
<1>9. /\ StatusInv' /\ PendingInv' /\ UsersInv' /\ AuthInv' /\ GoneInv'
      /\ at'[h] = at[h]
    BY <1>2, <1>3, <1>4, ConsumerKeeps DEF Place, Waiting
<1>10. at'[Kafka] = "releasing"
    BY <1>2, <1>3 DEF IInv, CallerTypes
<1>11. ReplyInv'
    <2> SUFFICES ASSUME NEW r \in reply'
                 PROVE  /\ userId'[r.handler] = r.user
                        /\ authStatus'[r.handler] = "AUTHENTICATING"
                        /\ at'[r.handler] # "asking"
                        /\ at'[r.handler] \in Leaving => r.handler \in raced'
                        /\ \A v \in User : ~MayBeUser(r.handler, v)'
        BY <1>10 DEF ReplyInv
    <2>1. r.user = u /\ r.handler = h
        BY <1>1 DEF u
    <2> QED
        BY <1>1, <1>2, <1>3, <1>4, <1>6, <1>7, <1>8, <1>9, <2>1 DEF Frame
<1> QED
    BY <1>9, <1>11 DEF PeopleInv

LEMMA ConsumerPeople ==
    ASSUME IInv, CallInv, PeopleInv, ~PendingSpoiled, ~PendingSpoiled', ConsumerThread
    PROVE  PeopleInv'
<1> USE DEF PeopleInv
<1>1. /\ reply \subseteq [user : User, handler : Handler] /\ at \in [Thread -> Place]
      /\ Kafka \in Thread
      /\ authStatus \in [Handler -> {"NOT_AUTHENTICATED", "AUTHENTICATING", "AUTHENTICATED"}]
    BY DEF IInv, CallerTypes, Thread
<1>2. ASSUME NEW u \in User
      PROVE  <<"pendingUsers", u>> \notin spoiled
    BY DEF PendingSpoiled
<1>3. CASE \E q \in requests : TakeReply(q)
    BY <1>3, TakeReplyPeople
<1>4. CASE Released
    <2>1. /\ at[Kafka] = "releasing" /\ Return(Kafka)
          /\ UNCHANGED <<socketId, userId, authStatus, granted, raced>>
          /\ \/ at' = [at EXCEPT ![Kafka] = "released"] /\ reply' = reply
             \/ at' = [at EXCEPT ![Kafka] = "run"] /\ reply' = {}
        BY <1>4 DEF Released, EndReply, handlers, history
    <2>2. Frame
        BY <1>1, <2>1, ReturnFrame DEF CallInv
    <2>3. /\ StatusInv' /\ PendingInv' /\ UsersInv' /\ AuthInv' /\ GoneInv'
          /\ \A h \in Handler : at'[h] = at[h]
        BY <2>1, <2>2, ConsumerKeeps DEF Place
    <2>4. ASSUME NEW r \in reply
          PROVE  ~InPending(r.handler, r.user)
        <3>1. IsCall(Kafka, "remove", "pendingUsers", r.user, r.handler)
              /\ step[Kafka] \in {"done", "failed"}
            BY <2>1 DEF CallInv, FitInv, Return
        <3>2. r.user \in User /\ r.handler \in Handler
            BY <1>1
        <3> QED
            BY <1>1, <1>2, <3>1, <3>2, CallDone DEF InPending, Registry
    <2>5. ReplyInv'
        <3>1. CASE reply' = {}
            BY <3>1 DEF ReplyInv
        <3>2. CASE at' = [at EXCEPT ![Kafka] = "released"] /\ reply' = reply
            <4>1. at'[Kafka] = "released"
                BY <1>1, <3>2
            <4> SUFFICES ASSUME NEW r \in reply
                         PROVE  /\ userId'[r.handler] = r.user
                                /\ authStatus'[r.handler] = "AUTHENTICATING"
                                /\ at'[r.handler] # "asking"
                                /\ at'[r.handler] \in Leaving => r.handler \in raced'
                                /\ \A v \in User : ~MayBeUser(r.handler, v)'
                                /\ ~InPending(r.handler, r.user)'
                BY <3>2, <4>1 DEF ReplyInv
            <4>2. r.user \in User /\ r.handler \in Handler
                BY <1>1
            <4> QED
                BY <2>1, <2>2, <2>3, <2>4, <4>2 DEF ReplyInv, Frame
        <3> QED
            BY <2>1, <3>1, <3>2
    <2> QED
        BY <2>3, <2>5
<1>5. CASE Admit
    <2>1. PICK s \in reply : /\ granted' = granted \cup {s.user}
                             /\ Begin(Kafka, "add", "users", s.user, s.handler)
        BY <1>5 DEF Admit
    <2>2. /\ at[Kafka] = "released" /\ at' = [at EXCEPT ![Kafka] = "admitting"]
          /\ UNCHANGED <<socketId, userId, authStatus, reply, memory, raced>>
        BY <1>5 DEF Admit, handlers
    <2>3. s.user \in User /\ s.handler \in Handler
        BY <1>1
    <2>4. Frame
        BY <1>1, <2>1, <2>2, <2>3, BeginFrame DEF Waiting, Registry
    <2>5. /\ StatusInv' /\ PendingInv' /\ UsersInv' /\ AuthInv' /\ GoneInv'
          /\ \A h \in Handler : at'[h] = at[h]
        BY <2>2, <2>4, ConsumerKeeps DEF Place, Waiting
    <2>6. at'[Kafka] = "admitting"
        BY <1>1, <2>2
    <2>7. ReplyInv'
        <3> SUFFICES ASSUME NEW r \in reply
                     PROVE  /\ userId'[r.handler] = r.user
                            /\ authStatus'[r.handler] = "AUTHENTICATING"
                            /\ at'[r.handler] # "asking"
                            /\ at'[r.handler] \in Leaving => r.handler \in raced'
                            /\ ~InPending(r.handler, r.user)'
                            /\ r.user \in granted'
            BY <2>2, <2>6 DEF ReplyInv
        <3>1. r.user \in User /\ r.handler \in Handler
            BY <1>1
        <3>2. r.user \in granted'
            BY <2>1 DEF CallInv, RoleInv
        <3> QED
            BY <2>2, <2>4, <2>5, <3>1, <3>2 DEF ReplyInv, Frame
    <2> QED
        BY <2>5, <2>7
<1>6. CASE Admitted
    <2>1. /\ at[Kafka] = "admitting" /\ Return(Kafka)
          /\ UNCHANGED <<socketId, userId, authStatus, granted, raced>>
          /\ \/ at' = [at EXCEPT ![Kafka] = "granting"] /\ reply' = reply
             \/ at' = [at EXCEPT ![Kafka] = "run"] /\ reply' = {}
        BY <1>6 DEF Admitted, EndReply, handlers, history
    <2>2. Frame
        BY <1>1, <2>1, ReturnFrame DEF CallInv
    <2>3. /\ StatusInv' /\ PendingInv' /\ UsersInv' /\ AuthInv' /\ GoneInv'
          /\ \A h \in Handler : at'[h] = at[h] /\ (Reached(h) => Reached(h)')
        BY <2>1, <2>2, ConsumerKeeps DEF Place
    <2>4. ASSUME NEW r \in reply
          PROVE  Reached(r.handler)
        <3>1. IsCall(Kafka, "add", "users", r.user, r.handler)
              /\ step[Kafka] \in {"done", "failed"}
            BY <2>1 DEF CallInv, FitInv, Return
        <3>2. r.user \in User /\ r.handler \in Handler /\ userId[r.handler] = r.user
            BY <1>1 DEF ReplyInv
        <3>3. <<"users", r.user>> \notin spoiled => InUsers(r.handler, r.user)
            BY <1>1, <3>1, <3>2, CallDone DEF InUsers, Registry
        <3> QED
            BY <3>2, <3>3 DEF Reached
    <2>5. ReplyInv'
        <3>1. CASE reply' = {}
            BY <3>1 DEF ReplyInv
        <3>2. CASE at' = [at EXCEPT ![Kafka] = "granting"] /\ reply' = reply
            <4>1. at'[Kafka] = "granting"
                BY <1>1, <3>2
            <4> SUFFICES ASSUME NEW r \in reply
                         PROVE  /\ userId'[r.handler] = r.user
                                /\ authStatus'[r.handler] = "AUTHENTICATING"
                                /\ at'[r.handler] # "asking"
                                /\ at'[r.handler] \in Leaving => r.handler \in raced'
                                /\ ~InPending(r.handler, r.user)'
                                /\ r.user \in granted'
                                /\ Reached(r.handler)'
                BY <3>2, <4>1 DEF ReplyInv
            <4>2. r.user \in User /\ r.handler \in Handler
                BY <1>1
            <4>3. Reached(r.handler)'
                BY <2>3, <2>4, <4>2
            <4> QED
                BY <2>1, <2>2, <2>3, <4>2, <4>3 DEF ReplyInv, Frame
        <3> QED
            BY <2>1, <3>1, <3>2
    <2> QED
        BY <2>3, <2>5
<1>7. CASE Reject \/ Grant
    <2>1. PICK r \in reply, status \in {"NOT_AUTHENTICATED", "AUTHENTICATED"} :
             /\ authStatus' = [authStatus EXCEPT ![r.handler] = status]
             /\ status = "NOT_AUTHENTICATED" => at[Kafka] = "released"
             /\ status = "AUTHENTICATED" => at[Kafka] = "granting"
        BY <1>7 DEF Reject, Grant
    <2>2. /\ at' = [at EXCEPT ![Kafka] = "run"] /\ reply' = {}
          /\ UNCHANGED <<socketId, userId, memory, calls, granted, raced>>
        BY <1>7 DEF Reject, Grant, EndReply, history
    <2> DEFINE g == r.handler
    <2>3. g \in Handler /\ r.user \in User /\ userId[g] = r.user
        BY <1>1 DEF ReplyInv
    <2> HIDE DEF g
    <2>4. /\ authStatus[g] = "AUTHENTICATING" /\ at[g] # "asking" /\ ~InPending(g, r.user)
          /\ status = "NOT_AUTHENTICATED" => \A u \in User : ~MayBeUser(g, u)
          /\ status = "AUTHENTICATED" => userId[g] \in granted /\ Reached(g)
        BY <2>1, <2>3 DEF ReplyInv, g
    <2>5. authStatus'[g] = status /\ \A h \in Handler : h # g => authStatus'[h] = authStatus[h]
        BY <1>1, <2>1, <2>3 DEF g
    <2>6. Frame
        BY <2>2, QuietFrame
    <2>7. \A h \in Handler : at'[h] = at[h]
        BY <1>1, <2>2 DEF Thread
    <2>8. ASSUME NEW h \in Handler, Reached(h)
          PROVE  Reached(h)'
        BY <2>2, <2>6, <2>7, <2>8, StaysReached
    <2>9. StatusInv'
        <3>1. at[g] \notin {"off", "counting", "asking"}
            BY <2>3, <2>4 DEF StatusInv
        <3> QED
            BY <2>5, <2>7, <3>1 DEF StatusInv
    <2>10. PendingInv'
        <3> SUFFICES ASSUME NEW h \in Handler, NEW u \in User, InPending(h, u)'
                     PROVE  userId[h] = u /\ authStatus'[h] = "AUTHENTICATING"
            BY <2>2 DEF PendingInv
        <3>1. InPending(h, u)
            BY <2>6 DEF Frame
        <3>2. h # g
            BY <2>3, <2>4, <3>1 DEF PendingInv
        <3> QED
            BY <2>5, <3>1, <3>2 DEF PendingInv
    <2>11. UsersInv'
        <3> SUFFICES ASSUME NEW h \in Handler, NEW u \in User, MayBeUser(h, u)'
                     PROVE  /\ userId[h] = u /\ authStatus'[h] # "NOT_AUTHENTICATED"
                            /\ ~InPending(h, u)' /\ at'[h] # "asking"
            BY <2>2 DEF UsersInv
        <3>1. MayBeUser(h, u) /\ (InPending(h, u)' <=> InPending(h, u))
            BY <2>6 DEF Frame
        <3>2. authStatus'[h] # "NOT_AUTHENTICATED"
            <4>1. CASE h = g
                BY <2>1, <2>4, <2>5, <3>1, <4>1
            <4>2. CASE h # g
                BY <2>5, <3>1, <4>2 DEF UsersInv
            <4> QED
                BY <4>1, <4>2
        <3> QED
            BY <2>7, <3>1, <3>2 DEF UsersInv
    <2>12. AuthInv'
        <3> SUFFICES ASSUME NEW h \in Handler, authStatus'[h] = "AUTHENTICATED"
                     PROVE  userId[h] \in granted /\ Reached(h)'
            BY <2>2 DEF AuthInv
        <3>1. CASE h = g
            BY <2>3, <2>4, <2>5, <2>8, <3>1
        <3>2. CASE h # g
            BY <2>5, <2>8, <3>2 DEF AuthInv
        <3> QED
            BY <3>1, <3>2
    <2>13. GoneInv' /\ ReplyInv'
        BY <2>2, <2>6, <2>7 DEF GoneInv, ReplyInv, Frame
    <2> QED
        BY <2>9, <2>10, <2>11, <2>12, <2>13
<1> QED
    BY <1>3, <1>4, <1>5, <1>6, <1>7 DEF ConsumerThread

LEMMA SpoiledStays == IInv /\ EffectInv /\ [Next]_vars => spoiled \subseteq spoiled'
<1> SUFFICES ASSUME IInv, EffectInv, [Next]_vars PROVE spoiled \subseteq spoiled'
    OBVIOUS
<1>1. ASSUME NEW t, NEW do, NEW registry, NEW u, NEW h, Begin(t, do, registry, u, h)
      PROVE  spoiled \subseteq spoiled'
    BY <1>1 DEF Begin
<1>2. ASSUME NEW t, Return(t)
      PROVE  spoiled \subseteq spoiled'
    BY <1>2 DEF Return
<1>3. ASSUME NEW t \in Thread, Service(t)
      PROVE  spoiled \subseteq spoiled'
    BY <1>3, ServiceMoves DEF IInv
<1>4. ASSUME NEW h \in Handler, EventLoop(h)
      PROVE  spoiled \subseteq spoiled'
    <2>1. CASE ReadCounter(h) \/ WriteCounter(h)
        BY <2>1 DEF ReadCounter, WriteCounter, calls
    <2>2. CASE \E u \in User : AuthClient(h, u)
        BY <1>1, <2>2 DEF AuthClient
    <2>3. CASE Asked(h) \/ LeftUsers(h) \/ LeftPending(h)
        BY <1>2, <2>3 DEF Asked, LeftUsers, LeftPending
    <2>4. CASE HandlerRemoved(h)
        BY <1>1, <2>4 DEF HandlerRemoved, calls
    <2>5. CASE LeavePending(h)
        BY <1>1, <2>5 DEF LeavePending
    <2> QED
        BY <1>4, <2>1, <2>2, <2>3, <2>4, <2>5 DEF EventLoop
<1>5. CASE ConsumerThread
    <2>1. CASE \E q \in requests : TakeReply(q)
        BY <1>1, <2>1 DEF TakeReply
    <2>2. CASE Released \/ Admitted
        BY <1>2, <2>2 DEF Released, Admitted
    <2>3. CASE Admit
        BY <1>1, <2>3 DEF Admit
    <2>4. CASE Reject \/ Grant
        BY <2>4 DEF Reject, Grant, calls
    <2> QED
        BY <1>5, <2>1, <2>2, <2>3, <2>4 DEF ConsumerThread
<1>6. CASE UNCHANGED vars
    BY <1>6 DEF vars, calls
<1> QED
    BY <1>3, <1>4, <1>5, <1>6 DEF Next

\* All of it, unless a pending entry is spoiled.
RaceInv == CallInv /\ (PendingSpoiled \/ PeopleInv)

LEMMA RaceStep == IInv /\ RaceInv /\ [Next]_vars => RaceInv'
<1> SUFFICES ASSUME IInv, RaceInv, [Next]_vars PROVE RaceInv'
    OBVIOUS
<1>1. CallInv'
    BY CallsStep DEF RaceInv
<1>2. spoiled \subseteq spoiled'
    BY SpoiledStays DEF RaceInv, CallInv
<1>3. CASE PendingSpoiled'
    BY <1>1, <1>3 DEF RaceInv
<1>4. CASE ~PendingSpoiled'
    <2>1. ~PendingSpoiled /\ PeopleInv /\ CallInv
        BY <1>2, <1>4 DEF PendingSpoiled, RaceInv
    <2>2. PeopleInv'
        <3>1. CASE \E t \in Thread : Service(t)
            BY <2>1, <3>1, ServicePeople
        <3>2. CASE \E h \in Handler : EventLoop(h)
            BY <2>1, <3>2, EventLoopPeople
        <3>3. CASE ConsumerThread
            BY <1>4, <2>1, <3>3, ConsumerPeople
        <3>4. CASE UNCHANGED vars
            <4>1. /\ UNCHANGED <<socketId, userId, authStatus, at, reply, granted, raced, spoiled>>
                  /\ UNCHANGED <<memory, calls>>
                BY <3>4 DEF vars, handlers, callers, history, calls
            <4>2. Frame
                BY <4>1, QuietFrame
            <4>3. \A h \in Handler : Reached(h) => Reached(h)'
                BY <4>1, <4>2, StaysReached
            <4>4. StatusInv' /\ PendingInv' /\ UsersInv' /\ GoneInv'
                BY <2>1, <4>1, <4>2 DEF PeopleInv, StatusInv, PendingInv, UsersInv, GoneInv, Frame
            <4>5. AuthInv'
                BY <2>1, <4>1, <4>3 DEF PeopleInv, AuthInv
            <4>6. ReplyInv'
                <5>1. \A r \in reply : r.handler \in Handler /\ r.user \in User
                    BY DEF IInv, CallerTypes
                <5> QED
                    BY <2>1, <4>1, <4>2, <4>3, <5>1 DEF PeopleInv, ReplyInv, Frame
            <4> QED
                BY <4>4, <4>5, <4>6 DEF PeopleInv
        <3> QED
            BY <3>1, <3>2, <3>3, <3>4 DEF Next
    <2> QED
        BY <1>1, <2>2 DEF RaceInv
<1> QED
    BY <1>3, <1>4

LEMMA RaceInvariant == Spec => [](IInv /\ RaceInv)
<1>1. Init => IInv /\ RaceInv
    BY InitInv, InitCalls, InitPeople DEF RaceInv
<1>2. IInv /\ RaceInv /\ [Next]_vars => IInv' /\ RaceInv'
    BY StepInv, RaceStep
<1> QED
    BY <1>1, <1>2, PTL DEF Spec

\* A socket is authenticated only for a user that a reply accepted, unless
\* operations on a pending entry overlapped.
THEOREM UsersAreGranted == Spec => []GrantedUser
<1>1. IInv /\ RaceInv => GrantedUser
    BY DEF RaceInv, PeopleInv, AuthInv, GrantedUser
<1> QED
    BY <1>1, RaceInvariant, PTL

\* An authenticated socket that is connected is found among the users, unless
\* operations on its entry or a pending one overlapped, or its id was given twice.
THEOREM StrandedByRaceOnly == Spec => []StrandedOnlyByRace
<1>1. IInv /\ RaceInv => StrandedOnlyByRace
    <2> SUFFICES ASSUME IInv, RaceInv, NEW h \in Handler, at[h] = "run",
                        authStatus[h] = "AUTHENTICATED", ~PendingSpoiled, ~Twin(h),
                        <<"users", userId[h]>> \notin spoiled
                 PROVE  h \in Contents(<<"users", userId[h]>>)
        BY DEF StrandedOnlyByRace
    <2>1. userId[h] \in User /\ <<"users", userId[h]>> \in Cell
        BY DEF IInv, AskedInv, AskedHandlers, Cell, Registry
    <2>2. Reached(h)
        BY DEF RaceInv, PeopleInv, AuthInv
    <2>3. ~DepartedTwin(h)
        BY DEF DepartedTwin, Twin, SameId
    <2>4. InUsers(h, userId[h])
        BY <2>1, <2>2, <2>3 DEF Reached
    <2> QED
        BY <2>1, <2>4 DEF InUsers, Members
<1> QED
    BY <1>1, RaceInvariant, PTL

\* A socket that is gone is in no entry, unless operations on an entry of its user
\* or a pending one overlapped, or it went while its reply was processed.
THEOREM LeftBehindByRaceOnly == Spec => []LeftBehindOnlyByRace
<1>1. IInv /\ RaceInv => LeftBehindOnlyByRace
    <2> SUFFICES ASSUME IInv, RaceInv, NEW h \in Handler, at[h] = "gone", ~PendingSpoiled,
                        h \notin raced, <<"users", userId[h]>> \notin spoiled,
                        NEW c \in Cell, h \in Contents(c)
                 PROVE  FALSE
        BY DEF LeftBehindOnlyByRace
    <2>1. h \in Members[c] /\ PeopleInv
        BY DEF Members, RaceInv
    <2>2. PICK registry \in Registry, u \in User : c = <<registry, u>>
        BY DEF Cell
    <2>3. CASE registry = "users"
        <3>1. InUsers(h, u) /\ userId[h] = u
            BY <2>1, <2>2, <2>3, MembersMayBe DEF InUsers, PeopleInv, UsersInv
        <3> QED
            BY <2>1, <3>1 DEF PeopleInv, GoneInv
    <2>4. CASE registry = "pendingUsers"
        <3>1. InPending(h, u)
            BY <2>1, <2>2, <2>4 DEF InPending
        <3>2. userId[h] = u
            BY <2>1, <3>1 DEF PeopleInv, PendingInv
        <3> QED
            BY <2>1, <3>1, <3>2 DEF PeopleInv, GoneInv
    <2> QED
        BY <2>2, <2>3, <2>4 DEF Registry
<1> QED
    BY <1>1, RaceInvariant, PTL
=============================================================================
