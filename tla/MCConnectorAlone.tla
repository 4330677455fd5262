-------------------------- MODULE MCConnectorAlone --------------------------
(* Two users on one connector; the first writes to the second.              *)
EXTENDS ConnectorAlone

CONSTANTS u1, u2

MCFrom == [x \in Payload |-> u1]
MCTo == [x \in Payload |-> u2]
=============================================================================
