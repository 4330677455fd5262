------------------------------ MODULE Batches ------------------------------
(***************************************************************************)
(* What a consumer of KafkaExpressDelivery.java has handled and not        *)
(* committed: commitSync acknowledges a polled batch as a whole, and if    *)
(* the process dies before, all of the batch is handed out again, because  *)
(* the duplicate check finds nothing (KafkaExpressDelivery.tla).           *)
(***************************************************************************)
EXTENDS Naturals, FiniteSets

CONSTANT MaxBatch   \* bound: packets a consumer polls at a time

ASSUME BatchAssumption == MaxBatch \in Nat \ {0}

\* What is handled and not committed once the packets P are handled too: the
\* batch goes on, or it is committed.  The part of a batch that is still to come
\* stays in the topic, where others may take it as well.
BatchAfter(done, P) ==
    IF P = {} THEN {done}
    ELSE {{}} \cup {D \in {done \cup P} : Cardinality(D) < MaxBatch}
=============================================================================
