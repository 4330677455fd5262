-------------------------- MODULE MCGroupMessages --------------------------
(* Two users, the second one the master user, and two connectors with two  *)
(* sockets each.                                                           *)
EXTENDS GroupMessages, TLC

CONSTANTS u2, c1, c2, a1, a2, a3, a4

MCConnectorOf == [a \in Address |-> IF a \in {a1, a2} THEN c1 ELSE c2]

\* The sockets of a connector do the same things, and so do the connectors.
SocketSymmetry ==
    {f @@ g : <<f, g>> \in
        {p \in Permutations(Address) \X Permutations(Connector) :
            \A a \in Address : ConnectorOf[p[1][a]] = p[2][ConnectorOf[a]]}}

\* Two of the four sockets are opened, on one connector or on both, and with a
\* fault at most one of them is closed.
FewSockets ==
    LET opened == {a \in Address : owner[a] # NoUser} IN
    /\ Cardinality(opened) <= 2
    /\ faults = 0 \/ Cardinality(opened \ open) <= 1

\* Only a crash looks at what was handled of a batch: none goes on once the
\* faults are spent.
BatchForCrash ==
    faults = MaxFaults =>
        /\ \A w \in Worker : handled[w] = {}
        /\ \A c \in Connector : consumed[c] = {}
=============================================================================
