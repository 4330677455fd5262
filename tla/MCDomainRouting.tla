--------------------------- MODULE MCDomainRouting ---------------------------
(* Four domains whose graph changes between a diamond, two lines that run   *)
(* through d2 and d3 in different orders, and one without the last domain.  *)
EXTENDS DomainRouting

CONSTANTS d1, d2, d3, d4, diamond, line23, line32, without4

MCLinks == [g \in Graph |->
    CASE g = diamond -> {{d1, d2}, {d1, d3}, {d2, d4}, {d3, d4}}
      [] g = line23 -> {{d1, d2}, {d2, d3}, {d3, d4}}
      [] g = line32 -> {{d1, d3}, {d3, d2}, {d2, d4}}
      [] g = without4 -> {{d1, d2}, {d2, d3}}]
MCSource == [m \in Message |-> d1]
MCTarget == [m \in Message |-> d4]

(* To start with a path through d3 is to start with one through d2, and to  *)
(* call d2 d3.                                                              *)
MCInit == Init /\ next[d1][d4] # d3
MCSpec == MCInit /\ [][Next]_vars /\ WF_vars(Step)
=============================================================================
