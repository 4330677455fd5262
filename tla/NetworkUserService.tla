------------------------- MODULE NetworkUserService -------------------------
(***************************************************************************)
(* The two registries of a connector, instruction by instruction: maps from *)
(* a user to an ArrayList of socket handlers, which event loops and the    *)
(* Kafka consumer thread change without a lock, and the threads' use of    *)
(* them.  Connector.tla takes each operation for one step; this module says *)
(* when that is right.                                                     *)
(***************************************************************************)
EXTENDS Naturals

CONSTANTS
    User,        \* user ids
    NoUser,      \* AppSocketHandler.userId before a request
    Handler,     \* AppSocketHandlers, each with an event loop of its own
    Kafka,       \* the consumer thread
    Null,        \* an array slot that was never written
    MaxList,     \* bound: ArrayLists of one user at a time
    MaxRequests, \* bound: AUTH_CLIENT messages the clients send
    MaxDamages   \* bound: list operations that a race damages

ASSUME ThreadAssumption ==
    Kafka \notin Handler /\ Null \notin Handler /\ NoUser \notin User
ASSUME ListAssumption == MaxList \in Nat \ {0}

VARIABLES
    counter,     \* SocketChannelInitializer.counter
    socketId,    \* AppSocketHandler.socketId
    userId,      \* AppSocketHandler.userId
    authStatus,  \* AppSocketHandler.authStatus
    at,          \* where each thread stands outside the service
    requests,    \* AUTH_CLIENT messages without a reply: (user, socket id, sender)
    reply        \* the reply at work, at most one: its user and the handler found

VARIABLES
    map,         \* the list of each entry, 0 if it has none
    lists,       \* what is in the ArrayLists of each entry
    call,        \* the operation each thread is in
    step,        \* its next instruction
    list, saw,   \* the list it got from the map, and what was in it
    dirty        \* threads whose list operation met another on the same list

VARIABLES
    spoiled,     \* history: entries on which two operations overlapped
    granted,     \* history: users some reply accepted
    raced,       \* history: handlers removed while their reply was processed
    asks, damages    \* budgets spent

handlers == <<counter, socketId, userId, authStatus>>
callers == <<at, requests, reply>>
memory == <<map, lists>>
calls == <<call, step, list, saw, dirty, spoiled>>
history == <<granted, raced, asks, damages>>
vars == <<handlers, callers, memory, calls, history>>

Thread == Handler \cup {Kafka}
Registry == {"users", "pendingUsers"}
Cell == Registry \X User
ListId == 1..MaxList
Slot == Handler \cup {Null}
NoCall == [do |-> "none"]
Call == [do : {"add", "remove"}, cell : Cell, handler : Handler, alone : BOOLEAN]
InCall(t, c) == call[t].do # "none" /\ call[t].cell = c

Contents(c) == IF map[c] = 0 THEN {} ELSE lists[c][map[c]]
SameId(h) == {g \in Handler : socketId[g] = socketId[h]}

Init ==
    /\ counter = 0
    /\ socketId = [h \in Handler |-> 0]
    /\ userId = [h \in Handler |-> NoUser]
    /\ authStatus = [h \in Handler |-> "NOT_AUTHENTICATED"]
    /\ at = [t \in Thread |-> IF t = Kafka THEN "run" ELSE "off"]
    /\ requests = {} /\ reply = {}
    /\ map = [c \in Cell |-> 0]
    /\ lists = [c \in Cell |-> [k \in ListId |-> {}]]
    /\ call = [t \in Thread |-> NoCall]
    /\ step = [t \in Thread |-> "none"]
    /\ list = [t \in Thread |-> 0]
    /\ saw = [t \in Thread |-> {}]
    /\ dirty = {} /\ spoiled = {} /\ granted = {} /\ raced = {} /\ asks = 0 /\ damages = 0

-----------------------------------------------------------------------------
\* A list that neither the map nor a thread has is garbage.
Holds(t, c, k) == InCall(t, c) /\ list[t] = k
Free(c, k) == k # map[c] /\ \A t \in Thread : ~Holds(t, c, k)

\* Thread t calls addUser or removeUser for the handler's user and socket id.
Begin(t, do, registry, u, h) ==
    LET c == <<registry, u>>
        others == {s \in Thread : InCall(s, c)} IN
    /\ call' = [s \in Thread |->
                  IF s = t THEN [do |-> do, cell |-> c, handler |-> h, alone |-> others = {}]
                  ELSE IF s \in others THEN [call[s] EXCEPT !.alone = FALSE]
                  ELSE call[s]]
    /\ step' = [step EXCEPT ![t] = IF do = "add" THEN "containsKey" ELSE "get"]
    /\ spoiled' = IF others = {} THEN spoiled ELSE spoiled \cup {c}
    /\ UNCHANGED <<list, saw, dirty>>

\* The call is over; a list that was only in its hands is garbage.
Return(t) ==
    /\ step[t] \in {"done", "failed"}
    /\ call' = [call EXCEPT ![t] = NoCall]
    /\ step' = [step EXCEPT ![t] = "none"]
    /\ list' = [list EXCEPT ![t] = 0]
    /\ LET c == call[t].cell
           kept == {map[c]} \cup {list[s] : s \in {v \in Thread \ {t} : InCall(v, c)}}
       IN  lists' = [lists EXCEPT ![c] = [k \in ListId |-> IF k \in kept THEN @[k] ELSE {}]]
    /\ UNCHANGED <<map, saw, dirty, spoiled>>

Goto(t, s) == step' = [step EXCEPT ![t] = s]

ContainsKey(t) ==
    /\ step[t] = "containsKey"
    /\ Goto(t, IF map[call[t].cell] = 0 THEN "put" ELSE "get")
    /\ UNCHANGED <<handlers, callers, memory, call, list, saw, dirty, spoiled, history>>

\* map.put(userId, new ArrayList<>()): nobody has this list yet.
Put(t) ==
    /\ step[t] = "put"
    /\ LET c == call[t].cell IN
       \E k \in ListId :
          /\ Free(c, k) /\ \A j \in ListId : Free(c, j) => k <= j
          /\ map' = [map EXCEPT ![c] = k]
          /\ lists' = [lists EXCEPT ![c] =
                [j \in ListId |-> IF \E s \in Thread : Holds(s, c, j) THEN @[j] ELSE {}]]
    /\ Goto(t, "get")
    /\ UNCHANGED <<handlers, callers, call, list, saw, dirty, spoiled, history>>

\* map.get(userId): add has a NullPointerException if the entry is gone by now.
\* Otherwise the list's own add or removeIf begins.
Get(t) ==
    /\ step[t] = "get"
    /\ LET c == call[t].cell
           rivals == {s \in Thread : InCall(s, c) /\ step[s] = "change" /\ list[s] = map[c]}
       IN
       IF map[c] = 0
       THEN /\ Goto(t, IF call[t].do = "add" THEN "failed" ELSE "done")
            /\ UNCHANGED <<list, saw, dirty>>
       ELSE /\ Goto(t, "change")
            /\ list' = [list EXCEPT ![t] = map[c]]
            /\ saw' = [saw EXCEPT ![t] = lists[c][map[c]]]
            /\ dirty' = IF rivals = {} THEN dirty ELSE dirty \cup rivals \cup {t}
    /\ UNCHANGED <<handlers, callers, memory, call, spoiled, history>>

\* Faulty: everything of the user goes, not only what has the socket id.
WithoutUser(t, L) == IF call[t].do = "add" THEN L \cup {call[t].handler} ELSE {}

\* add appends the handler; removeIf takes out what has its socket id, and nulls.
Changed(t, L) ==
    IF call[t].do = "add" THEN L \cup {call[t].handler}
    ELSE L \ (SameId(call[t].handler) \cup {Null})

\* Faulty: the entry goes with the list, whatever is left in it.
AlwaysDrops(t, L) == IF call[t].do = "add" THEN "done" ELSE "drop"

\* isEmpty, right after removeIf.
After(t, L) == IF call[t].do = "remove" /\ L = {} THEN "drop" ELSE "done"

\* The list's operation ends.  If it met another one on this list, either's
\* change of the shared array and size may be lost, a slot that nobody wrote
\* may appear, and removeIf may have a ConcurrentModificationException.
Change(t) ==
    /\ step[t] = "change"
    /\ LET c == call[t].cell
           old == lists[c][list[t]]
           Becomes(L) == lists' = [lists EXCEPT ![c][list[t]] = L]
       IN
       \/ /\ Becomes(Changed(t, old)) /\ Goto(t, After(t, Changed(t, old)))
          /\ UNCHANGED damages
       \/ /\ t \in dirty /\ damages < MaxDamages
          /\ damages' = damages + 1
          /\ \E L \in {old, old \cup {Null}, Changed(t, saw[t])} :
                /\ Becomes(L)
                /\ \/ Goto(t, After(t, L))
                   \/ call[t].do = "remove" /\ Goto(t, "failed")
    /\ saw' = [saw EXCEPT ![t] = {}]
    /\ dirty' = dirty \ {t}
    /\ UNCHANGED <<handlers, callers, map, call, list, spoiled, granted, raced, asks>>

\* map.remove(userId), whatever list is there by now.
Drop(t) ==
    /\ step[t] = "drop"
    /\ map' = [map EXCEPT ![call[t].cell] = 0]
    /\ Goto(t, "done")
    /\ UNCHANGED <<handlers, callers, lists, call, list, saw, dirty, spoiled, history>>

Service(t) ==
    ContainsKey(t) \/ Put(t) \/ Get(t) \/ Change(t) \/ Drop(t)

-----------------------------------------------------------------------------
\* ++counter on an event loop: read, and later write what was read plus one.
ReadCounter(h) ==
    /\ at[h] = "off"
    /\ socketId' = [socketId EXCEPT ![h] = counter + 1]
    /\ at' = [at EXCEPT ![h] = "counting"]
    /\ UNCHANGED <<counter, userId, authStatus, requests, reply, memory, calls, history>>

WriteCounter(h) ==
    /\ at[h] = "counting"
    /\ counter' = socketId[h]
    /\ at' = [at EXCEPT ![h] = "run"]
    /\ UNCHANGED <<socketId, userId, authStatus, requests, reply, memory, calls, history>>

\* AuthClientMessageProcessor: addPendingUser, then AUTH_CLIENT goes out.
AuthClient(h, u) ==
    /\ at[h] = "run" /\ authStatus[h] = "NOT_AUTHENTICATED"
    /\ asks < MaxRequests
    /\ asks' = asks + 1
    /\ userId' = [userId EXCEPT ![h] = u]
    /\ authStatus' = [authStatus EXCEPT ![h] = "AUTHENTICATING"]
    /\ at' = [at EXCEPT ![h] = "asking"]
    /\ Begin(h, "add", "pendingUsers", u, h)
    /\ UNCHANGED <<counter, socketId, requests, reply, memory, granted, raced, damages>>

\* An exception is answered with DELIVER_FAILED, and nothing goes out.
Asked(h) ==
    /\ at[h] = "asking"
    /\ requests' = IF step[h] = "done" THEN requests \cup {<<userId[h], socketId[h], h>>}
                   ELSE requests
    /\ at' = [at EXCEPT ![h] = "run"]
    /\ Return(h)
    /\ UNCHANGED <<handlers, reply, history>>

\* Faulty: only authenticated sockets are deregistered.
AuthenticatedSocket(h) == authStatus[h] = "AUTHENTICATED"

KnownSocket(h) == authStatus[h] # "NOT_AUTHENTICATED"

\* handlerRemoved: nothing to do for a socket that did not ask or was rejected.
HandlerRemoved(h) ==
    /\ at[h] = "run"
    /\ raced' = IF \E r \in reply : r.handler = h THEN raced \cup {h} ELSE raced
    /\ \/ /\ ~KnownSocket(h)
          /\ at' = [at EXCEPT ![h] = "gone"]
          /\ UNCHANGED calls
       \/ /\ KnownSocket(h)
          /\ at' = [at EXCEPT ![h] = "leaving"]
          /\ Begin(h, "remove", "users", userId[h], h)
    /\ UNCHANGED <<handlers, requests, reply, memory, granted, asks, damages>>

\* UserDisconnectedMessageProcessor goes on to pendingUsers; an exception ends it.
LeftUsers(h) ==
    /\ at[h] = "leaving"
    /\ at' = [at EXCEPT ![h] = IF step[h] = "done" THEN "left" ELSE "gone"]
    /\ Return(h)
    /\ UNCHANGED <<handlers, requests, reply, history>>

LeavePending(h) ==
    /\ at[h] = "left"
    /\ at' = [at EXCEPT ![h] = "forgetting"]
    /\ Begin(h, "remove", "pendingUsers", userId[h], h)
    /\ UNCHANGED <<handlers, requests, reply, memory, history>>

LeftPending(h) ==
    /\ at[h] = "forgetting"
    /\ at' = [at EXCEPT ![h] = "gone"]
    /\ Return(h)
    /\ UNCHANGED <<handlers, requests, reply, history>>

-----------------------------------------------------------------------------
\* Faulty: whoever has the socket id.
FoundById(u, i) ==
    {h \in Handler : socketId[h] = i /\ \E v \in User : h \in Contents(<<"pendingUsers", v>>)}

\* handlerRemoved has begun.
Leaving == {"leaving", "left", "forgetting", "gone"}

\* getPendingUser: a handler of the user's list with the socket id.
Found(u, i) == {h \in Handler : socketId[h] = i /\ h \in Contents(<<"pendingUsers", u>>)}

\* AuthClientReplyMessageProcessor: look the handler up, removePendingUser.  (A
\* reply that finds none, or stumbles over a null, has no effect.)
TakeReply(q) ==
    /\ at[Kafka] = "run" /\ q \in requests
    /\ requests' = requests \ {q}
    /\ \E h \in Found(q[1], q[2]) :
          /\ reply' = {[user |-> q[1], handler |-> h]}
          /\ Begin(Kafka, "remove", "pendingUsers", q[1], h)
          /\ raced' = IF at[h] \in Leaving THEN raced \cup {h} ELSE raced
    /\ at' = [at EXCEPT ![Kafka] = "releasing"]
    /\ UNCHANGED <<handlers, memory, granted, asks, damages>>

\* Faulty: the reply stays at work.
AbandonReply == at' = [at EXCEPT ![Kafka] = "run"] /\ UNCHANGED reply

\* The consumer thread is done with the reply.
EndReply == at' = [at EXCEPT ![Kafka] = "run"] /\ reply' = {}

\* An exception ends the handling of the reply.
Released ==
    /\ at[Kafka] = "releasing"
    /\ Return(Kafka)
    /\ IF step[Kafka] = "done"
       THEN at' = [at EXCEPT ![Kafka] = "released"] /\ UNCHANGED reply
       ELSE EndReply
    /\ UNCHANGED <<handlers, requests, history>>

\* The user is accepted: addUser.
Admit ==
    /\ at[Kafka] = "released"
    /\ \E r \in reply :
          /\ granted' = granted \cup {r.user}
          /\ Begin(Kafka, "add", "users", r.user, r.handler)
    /\ at' = [at EXCEPT ![Kafka] = "admitting"]
    /\ UNCHANGED <<handlers, requests, reply, memory, raced, asks, damages>>

\* Rejected: the socket is closed (it may go any time anyway).
Reject ==
    /\ at[Kafka] = "released"
    /\ \E r \in reply :
          authStatus' = [authStatus EXCEPT ![r.handler] = "NOT_AUTHENTICATED"]
    /\ EndReply
    /\ UNCHANGED <<counter, socketId, userId, requests, memory, calls, history>>

Admitted ==
    /\ at[Kafka] = "admitting"
    /\ Return(Kafka)
    /\ IF step[Kafka] = "done"
       THEN at' = [at EXCEPT ![Kafka] = "granting"] /\ UNCHANGED reply
       ELSE EndReply
    /\ UNCHANGED <<handlers, requests, history>>

\* setAuthStatus, the answer to the client and USER_CONNECTED.
Grant ==
    /\ at[Kafka] = "granting"
    /\ \E r \in reply :
          authStatus' = [authStatus EXCEPT ![r.handler] = "AUTHENTICATED"]
    /\ EndReply
    /\ UNCHANGED <<counter, socketId, userId, requests, memory, calls, history>>

-----------------------------------------------------------------------------
EventLoop(h) ==
    \/ ReadCounter(h) \/ WriteCounter(h) \/ (\E u \in User : AuthClient(h, u)) \/ Asked(h)
    \/ HandlerRemoved(h) \/ LeftUsers(h) \/ LeavePending(h) \/ LeftPending(h)

ConsumerThread ==
    \/ \E q \in requests : TakeReply(q)
    \/ Released \/ Admit \/ Reject \/ Admitted \/ Grant

Next ==
    \/ \E t \in Thread : Service(t)
    \/ \E h \in Handler : EventLoop(h)
    \/ ConsumerThread

Spec == Init /\ [][Next]_vars

-----------------------------------------------------------------------------
\* Every variable stays in its range, and a thread is in an operation exactly
\* where its caller waits for one.
TypeOK ==
    /\ counter \in Nat
    /\ socketId \in [Handler -> Nat]
    /\ userId \in [Handler -> User \cup {NoUser}]
    /\ authStatus \in [Handler -> {"NOT_AUTHENTICATED", "AUTHENTICATING", "AUTHENTICATED"}]
    /\ requests \subseteq User \X Nat \X Handler
    /\ map \in [Cell -> ListId \cup {0}]
    /\ lists \in [Cell -> [ListId -> SUBSET Slot]]
    /\ call \in [Thread -> Call \cup {NoCall}]
    /\ \A t \in Thread :
          /\ call[t] = NoCall <=> step[t] = "none"
          /\ step[t] # "none" <=>
                 at[t] \in {"asking", "leaving", "forgetting", "releasing", "admitting"}
          /\ reply = {} <=> at[Kafka] = "run"
          /\ step[t] \in {"change", "drop"} => list[t] \in ListId

\* The registries as sets: what is not null in the list of the entry.
Members == [c \in Cell |-> Contents(c) \ {Null}]

\* An operation has taken effect when the list has changed.
Applied == {t \in Thread : step[t] \in {"drop", "done"}}

Atomic == INSTANCE UserRegistry WITH members <- Members, applied <- Applied

\* containsKey, put and get, removeIf, isEmpty and remove are together one step
\* of a set, as long as no other operation on the same user and map overlaps;
\* a race on one entry leaves all other entries alone.
ImplementsRegistry == Atomic!URSpec

\* Operations on the pending entries of some user overlapped.
PendingSpoiled == \E u \in User : <<"pendingUsers", u>> \in spoiled

\* A socket is authenticated only for a user that some reply accepted, even if
\* its id was given twice, unless operations on pending entries overlapped.
GrantedUser ==
    \A h \in Handler :
        authStatus[h] = "AUTHENTICATED" => userId[h] \in granted \/ PendingSpoiled

\* The socket's id was given to another socket of the same user as well.
Twin(h) == \E g \in SameId(h) : g # h /\ userId[g] = userId[h]

\* A connected, authenticated socket is found among the users, unless two
\* operations on its entry or on a pending one overlapped or its id was given
\* twice.
StrandedOnlyByRace ==
    \A h \in Handler :
        LET c == <<"users", userId[h]>> IN
        at[h] = "run" /\ authStatus[h] = "AUTHENTICATED" =>
            h \in Contents(c) \/ c \in spoiled \/ PendingSpoiled \/ Twin(h)

\* A socket that is gone is in no entry, unless operations on an entry of its
\* user or on a pending one overlapped or it went while its reply was processed.
LeftBehindOnlyByRace ==
    \A h \in Handler :
        at[h] = "gone" =>
            \/ \A c \in Cell : h \notin Contents(c)
            \/ <<"users", userId[h]>> \in spoiled
            \/ PendingSpoiled
            \/ h \in raced
=============================================================================
