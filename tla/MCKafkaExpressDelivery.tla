----------------------- MODULE MCKafkaExpressDelivery -----------------------
(* Instances of the Kafka consumer loop for TLC: the two replicas of the    *)
(* processor group; a connector, alone on its topic, is the same group when *)
(* the other replica never gets the partition.                              *)
EXTENDS KafkaExpressDelivery

CONSTANTS
    k1,        \* the key of the first record
    MaxTotal   \* bound: interruptions of all kinds together

\* None of them is under fairness, so the bound cuts no fair behaviour.
FewInterruptions == crashes + stops + revokes + cacheFaults <= MaxTotal

\* Which key comes first makes no difference.
FirstKeyFirst == log # << >> => log[1] = k1
=============================================================================
