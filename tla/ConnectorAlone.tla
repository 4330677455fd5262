--------------------------- MODULE ConnectorAlone ---------------------------
(***************************************************************************)
(* The connectors with processors that only react: they accept or reject   *)
(* each authentication request, and because of any other packet they send  *)
(* some of the messages their handlers may send for it, to any addresses,  *)
(* dead ones included.  The properties the connector has whatever the      *)
(* processors know about addresses, and whatever they deliver or do not.   *)
(***************************************************************************)
EXTENDS Connector

vars == <<connectorVars, topics>>

\* The messages that processors deliver because of a packet.
Answers(p) ==
    CASE p.type = "MESSAGE" -> {p.msg}
      [] p.type = "MESSAGE_STATE_CHANGED" /\ p.state = "ADDRESS_NOT_FOUND" -> {p.msg}
      [] p.type = "MESSAGE_STATE_CHANGED" /\ p.msg \in AppMessages ->
            {Confirmation(p.msg.about)}
      [] p.type = "CLOSE_CONNECTION" -> {CloseConnection(p.user)}
      [] p.type = "FETCH_MISSING_MESSAGES_REQUEST" -> {m \in Message : m.to = p.user}
      [] p.type \in {"USER_CONNECTED", "USER_DISCONNECTED"} /\ Master # NoUser ->
            {Notice(p.type, p.user, p.addr)}
      [] OTHER -> {}

\* Some processor takes a packet and sends what it makes of it.
AnyProcessor ==
    \E p \in incoming :
        /\ incoming' = incoming \ {p}
        /\ \/ /\ p.type = "AUTH_CLIENT"
              /\ \E ok \in BOOLEAN :
                    outgoing' = outgoing \cup {AuthClientReply(p.user, p.addr, ok)}
           \/ /\ p.type # "AUTH_CLIENT"
              /\ \E M \in SUBSET Answers(p), S \in SUBSET Address :
                    outgoing' = outgoing \cup {Delivery(m, a) : m \in M, a \in S}
        /\ UNCHANGED connectorVars

Init == ConnectorInit /\ incoming = {} /\ outgoing = {}
Next == ConnectorNext \/ AnyProcessor
Spec == Init /\ [][Next]_vars
FairSpec == Spec /\ ConnectorFairness

-----------------------------------------------------------------------------
\* A client that does not get authenticated, because it does not ask, because
\* its request or the reply is lost or because it is rejected, loses its
\* connection; the one timeout set when it connected is enough.
UnauthenticatedSocketEnds ==
    \A a \in Address :
        channel[a] = "open" ~> channel[a] # "open" \/ authStatus[a] = "AUTHENTICATED"
=============================================================================
