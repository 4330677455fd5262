------------------------------- MODULE Topics -------------------------------
(***************************************************************************)
(* The messages of one domain and the topics its processes exchange them   *)
(* through: "incoming", which all processors read, and "outgoing", the     *)
(* union of the topics named after the connectors (an outgoing packet's    *)
(* address names its connector).                                           *)
(*                                                                         *)
(* deliverMessage gives every record a random key, so records spread over  *)
(* partitions and their order means nothing: a topic is a set of packets.  *)
(* A consumer takes the packets of a batch one by one and puts all of them *)
(* back if its process dies before the batch is committed (Batches).       *)
(***************************************************************************)
EXTENDS Batches

CONSTANTS
    User,         \* user ids of the domain
    NoUser,       \* no user id: userId of a fresh socket, no master user
    Connector,    \* connector processes, with the names that stay over restarts
    MaxSocketId,  \* bound: sockets a connector opens between two restarts
    Payload,      \* application messages
    From, To,     \* the sender and the addressee of each payload
    Reliable,     \* payloads sent with feature RELIABLE; the others are FAST
    Confirmed,    \* payloads whose sender asked for a confirmation
    Master        \* masterUserId of the client app, or NoUser

ASSUME UserAssumption == NoUser \notin User /\ Master \in User \cup {NoUser}
ASSUME PayloadAssumption ==
    /\ From \in [Payload -> User] /\ To \in [Payload -> User]
    /\ Reliable \subseteq Payload /\ Confirmed \subseteq Payload
ASSUME SocketAssumption == MaxSocketId \in Nat

VARIABLES
    incoming,     \* packets of the processors' topic
    outgoing      \* packets of the connectors' topics

topics == <<incoming, outgoing>>

\* (connectorName, socketId); the domain name is the same for all.
Address == Connector \X (1..MaxSocketId)
ConnectorOf(a) == a[1]

-----------------------------------------------------------------------------
\* Messages are identified by what they say: the fields are the type, the
\* addressee, and what the message is about.
Msg(type, to, about) == [type |-> type, to |-> to, about |-> about]

AppMessage(x) == Msg("MESSAGE", To[x], x)
Confirmation(x) == Msg("MESSAGE_CONFIRMATION", From[x], x)
Notice(type, u, a) == Msg(type, Master, <<u, a>>)
FetchComplete(u) == Msg("FETCH_MISSING_MESSAGES_COMPLETE", u, u)
CloseConnection(u) == Msg("CLOSE_CONNECTION", u, u)

AppMessages == {AppMessage(x) : x \in Payload}
Message ==
    AppMessages
    \cup {Confirmation(x) : x \in Payload}
    \cup (IF Master = NoUser THEN {}
          ELSE {Notice(t, u, a) : t \in {"USER_CONNECTED", "USER_DISCONNECTED"},
                                  u \in User, a \in Address})
    \cup {FetchComplete(u) : u \in User}
    \cup {CloseConnection(u) : u \in User}

\* Everything but an application message sent FAST is RELIABLE.
IsReliable(m) == m.type = "MESSAGE" => m.about \in Reliable

\* meta.confirmEnabled, set by updateMessageConfirmationFlag.
IsConfirmEnabled(m) == m.type = "MESSAGE" /\ m.about \in Confirmed

-----------------------------------------------------------------------------
\* Packets for the processors.
AuthClient(u, a) == [type |-> "AUTH_CLIENT", user |-> u, addr |-> a]
UserConnected(u, a) == [type |-> "USER_CONNECTED", user |-> u, addr |-> a]
UserDisconnected(u, a) == [type |-> "USER_DISCONNECTED", user |-> u, addr |-> a]
MessageRequest(m) == [type |-> "MESSAGE", msg |-> m]
MessageStateChanged(m, a, state) ==
    [type |-> "MESSAGE_STATE_CHANGED", msg |-> m, addr |-> a, state |-> state]
FetchRequest(u) == [type |-> "FETCH_MISSING_MESSAGES_REQUEST", user |-> u]
CloseRequest(from, u) == [type |-> "CLOSE_CONNECTION", from |-> from, user |-> u]

\* Packets for the connectors.
AuthClientReply(u, a, ok) ==
    [type |-> "AUTH_CLIENT_REPLY", user |-> u, addr |-> a, ok |-> ok]
Delivery(m, a) == [type |-> "DELIVER", msg |-> m, addr |-> a]

\* What can be in the two topics.
IncomingPacket ==
    [type : {"AUTH_CLIENT", "USER_CONNECTED", "USER_DISCONNECTED"},
     user : User, addr : Address]
    \cup [type : {"MESSAGE"}, msg : AppMessages]
    \cup [type : {"MESSAGE_STATE_CHANGED"}, msg : Message, addr : Address,
          state : {"ADDRESS_NOT_FOUND", "NETWORK_ERROR", "CONNECTOR_ERROR", "PROCESSED"}]
    \cup [type : {"FETCH_MISSING_MESSAGES_REQUEST"}, user : User]
    \cup [type : {"CLOSE_CONNECTION"}, from : User, user : User]
OutgoingPacket ==
    [type : {"AUTH_CLIENT_REPLY"}, user : User, addr : Address, ok : BOOLEAN]
    \cup [type : {"DELIVER"}, msg : Message, addr : Address]

\* FAST messages travel through NATS and are gone when a process that holds
\* them dies; all others come through Kafka.
IsFast(p) == p.type \in {"MESSAGE", "DELIVER"} /\ ~IsReliable(p.msg)
=============================================================================
