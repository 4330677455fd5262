-------------------------- MODULE AtLeastOnceTopic --------------------------
(***************************************************************************)
(* What an ExpressDelivery consumer promises to the listener behind it:    *)
(* a record may be handled more than once, but the topic never             *)
(* acknowledges a record that nobody handled.                              *)
(***************************************************************************)
EXTENDS Naturals, Sequences

CONSTANT Key    \* what deliverMessage draws its random record keys from

VARIABLES
    log,        \* the records of one partition, a sequence of keys
    committed,  \* records up to this offset are never handed out again
    handled     \* the keys the listener has handled

atVars == <<log, committed, handled>>

ATInit ==
    /\ log = << >>
    /\ committed = 0
    /\ handled = {}

ATAppend ==
    /\ \E key \in Key : log' = Append(log, key)
    /\ UNCHANGED <<committed, handled>>

\* A record is handled any time after it entered the log, even again.
ATHandle ==
    /\ \E i \in 1..Len(log) : handled' = handled \cup {log[i]}
    /\ UNCHANGED <<log, committed>>

\* Only a handled stretch of the log is acknowledged, and never taken back.
ATAcknowledge ==
    /\ \E n \in committed..Len(log) :
          /\ \A i \in 1..n : log[i] \in handled
          /\ committed' = n
    /\ UNCHANGED <<log, handled>>

ATNext == ATAppend \/ ATHandle \/ ATAcknowledge

ATSpec == ATInit /\ [][ATNext]_atVars
=============================================================================
