--------------------------- MODULE MCDomainTunnel ---------------------------
(* One or two linked domains with a few messages each.                     *)
EXTENDS DomainTunnel

CONSTANTS d1, d2

MCVia == [m \in Message |-> d1]
=============================================================================
