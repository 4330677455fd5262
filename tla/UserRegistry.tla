---------------------------- MODULE UserRegistry ----------------------------
(***************************************************************************)
(* What the callers of NetworkUserService rely on: each of its maps is, for *)
(* every user, a set of socket handlers that add and remove change at one  *)
(* moment between call and return.  That much is promised to a call only   *)
(* while no other call on the same user and map is in progress; calls that *)
(* overlap may leave any set behind, fail, or have no effect.              *)
(***************************************************************************)
CONSTANTS
    Cell,       \* a map and a user: the entry that calls work on
    Handler,    \* the socket handlers that can be in an entry
    Thread      \* who calls, one call at a time

VARIABLES
    socketId,   \* what remove goes by; it is given by the environment
    members,    \* the handlers in each entry
    call,       \* the call each thread is in
    applied     \* the threads whose call has taken effect

urVars == <<members, call, applied>>

NoCall == [do |-> "none"]
InCall(t, c) == call[t].do # "none" /\ call[t].cell = c

URInit ==
    /\ members = [c \in Cell |-> {}]
    /\ call = [t \in Thread |-> NoCall]
    /\ applied = {}

\* A call begins: from now on it and every other call on its entry overlap.
URBegin(t) ==
    /\ call[t].do = "none" /\ t \notin applied
    /\ \E do \in {"add", "remove"}, c \in Cell, h \in Handler :
          LET others == {s \in Thread : InCall(s, c)} IN
          call' = [s \in Thread |->
                     IF s = t
                     THEN [do |-> do, cell |-> c, handler |-> h, alone |-> others = {}]
                     ELSE IF s \in others THEN [call[s] EXCEPT !.alone = FALSE]
                     ELSE call[s]]
    /\ UNCHANGED <<members, applied>>

\* It takes effect, once.
URApply(t) ==
    /\ call[t].do # "none" /\ t \notin applied
    /\ applied' = applied \cup {t}
    /\ LET h == call[t].handler IN
       members' = [members EXCEPT ![call[t].cell] =
                     IF call[t].do = "add" THEN @ \cup {h}
                     ELSE {g \in @ : socketId[g] # socketId[h]}]
    /\ UNCHANGED call

\* Overlapping calls can do anything to their entry, and to no other.
URInterfere(t) ==
    /\ call[t].do # "none" /\ ~call[t].alone
    /\ \E H \in SUBSET Handler : members' = [members EXCEPT ![call[t].cell] = H]
    /\ applied' \in {applied, applied \cup {t}}
    /\ UNCHANGED call

URReturn(t) ==
    /\ call[t].do # "none"
    /\ call[t].alone => t \in applied
    /\ call' = [call EXCEPT ![t] = NoCall]
    /\ applied' = applied \ {t}
    /\ UNCHANGED members

URNext ==
    \E t \in Thread : URBegin(t) \/ URApply(t) \/ URInterfere(t) \/ URReturn(t)

URSpec == URInit /\ [][URNext]_urVars
=============================================================================
