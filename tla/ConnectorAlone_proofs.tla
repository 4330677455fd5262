------------------------ MODULE ConnectorAlone_proofs ------------------------
(***************************************************************************)
(* The theorems about the connectors, for any number of connectors,        *)
(* sockets, users, payloads, crashes and failures, and processors that     *)
(* send any of what their handlers may send, wherever they like.           *)
(***************************************************************************)
EXTENDS ConnectorAlone, Connector_proofs

Inv == ConnectorTypeOK /\ RegistryInv /\ SocketInv

\* The messages that processors deliver because of a packet are messages of the
\* model: one case per type of packet.
LEMMA AnswersAreMessages ==
    ASSUME NEW p \in IncomingPacket, p.type # "AUTH_CLIENT"
    PROVE  Answers(p) \subseteq Message
<1>1. CASE p.type = "MESSAGE"
    <2>1. p.msg \in AppMessages
        BY <1>1 DEF IncomingPacket
    <2> QED
        BY <1>1, <2>1 DEF Answers, Message
<1>2. CASE p.type = "MESSAGE_STATE_CHANGED"
    <2>1. p.msg \in Message
        BY <1>2 DEF IncomingPacket
    <2>2. ASSUME p.msg \in AppMessages PROVE Confirmation(p.msg.about) \in Message
        <3>1. PICK x \in Payload : p.msg = AppMessage(x)
            BY <2>2 DEF AppMessages
        <3>2. p.msg.about = x
            BY <3>1 DEF AppMessage, Msg
        <3> QED
            BY <3>2 DEF Message
    <2>3. \/ Answers(p) = {p.msg}
          \/ p.msg \in AppMessages /\ Answers(p) = {Confirmation(p.msg.about)}
          \/ Answers(p) = {}
        BY <1>2 DEF Answers
    <2> QED
        BY <2>1, <2>2, <2>3
<1>3. CASE p.type = "CLOSE_CONNECTION"
    <2>1. p.user \in User
        BY <1>3 DEF IncomingPacket
    <2>2. Answers(p) = {CloseConnection(p.user)}
        BY <1>3 DEF Answers
    <2> QED
        BY <2>1, <2>2 DEF Message
<1>4. CASE p.type = "FETCH_MISSING_MESSAGES_REQUEST"
    BY <1>4 DEF Answers
<1>5. CASE p.type \in {"USER_CONNECTED", "USER_DISCONNECTED"}
    <2>1. p.user \in User /\ p.addr \in Address
        BY <1>5 DEF IncomingPacket
    <2>2. \/ Answers(p) = {}
          \/ Master # NoUser /\ Answers(p) = {Notice(p.type, p.user, p.addr)}
        BY <1>5 DEF Answers
    <2> QED
        BY <1>5, <2>1, <2>2 DEF Message
<1> QED
    BY <1>1, <1>2, <1>3, <1>4, <1>5 DEF IncomingPacket

\* What a processor makes of a packet is well formed.
LEMMA AnyProcessorTypes ==
    ASSUME ConnectorTypeOK, AnyProcessor
    PROVE  ConnectorTypeOK'
<1>1. PICK p \in incoming :
          /\ incoming' = incoming \ {p}
          /\ \/ /\ p.type = "AUTH_CLIENT"
                /\ \E ok \in BOOLEAN :
                      outgoing' = outgoing \cup {AuthClientReply(p.user, p.addr, ok)}
             \/ /\ p.type # "AUTH_CLIENT"
                /\ \E M \in SUBSET Answers(p), S \in SUBSET Address :
                      outgoing' = outgoing \cup {Delivery(m, a) : m \in M, a \in S}
    BY DEF AnyProcessor
<1>2. UNCHANGED connectorVars /\ p \in IncomingPacket
    BY DEF AnyProcessor, ConnectorTypeOK
<1>3. outgoing' \subseteq OutgoingPacket
    <2>1. CASE p.type = "AUTH_CLIENT"
        <3>1. p.user \in User /\ p.addr \in Address
            BY <1>2, <2>1 DEF IncomingPacket
        <3>2. \A ok \in BOOLEAN : AuthClientReply(p.user, p.addr, ok) \in OutgoingPacket
            BY <3>1 DEF AuthClientReply, OutgoingPacket
        <3> QED
            BY <1>1, <2>1, <3>2 DEF ConnectorTypeOK
    <2>2. CASE p.type # "AUTH_CLIENT"
        <3>1. PICK M \in SUBSET Answers(p), S \in SUBSET Address :
                  outgoing' = outgoing \cup {Delivery(m, a) : m \in M, a \in S}
            BY <1>1, <2>2
        <3>2. M \subseteq Message
            BY <1>2, <2>2, AnswersAreMessages
        <3>3. \A m \in Message, a \in Address : Delivery(m, a) \in OutgoingPacket
            BY DEF Delivery, OutgoingPacket
        <3> QED
            BY <3>1, <3>2, <3>3 DEF ConnectorTypeOK
    <2> QED
        BY <2>1, <2>2
<1> QED
    BY <1>1, <1>2, <1>3 DEF ConnectorTypeOK, connectorVars

\* The inductive invariant, with the type invariant it is relative to.
THEOREM Invariance == Spec => []Inv
<1>1. Init => Inv
    BY InitTypes, InitRegistry, InitSocket DEF Init, Inv
<1>2. Inv /\ [Next]_vars => Inv'
    <2> SUFFICES ASSUME Inv, [Next]_vars PROVE Inv'
        OBVIOUS
    <2>1. CASE ConnectorNext
        BY <2>1, TypeStep, RegistryStep, SocketStep DEF Inv
    <2>2. CASE AnyProcessor
        BY <2>2, AnyProcessorTypes, RegistryStep, SocketStep DEF Inv, AnyProcessor
    <2>3. CASE UNCHANGED vars
        <3>1. UNCHANGED connectorVars /\ UNCHANGED topics
            BY <2>3 DEF vars
        <3>2. ConnectorTypeOK'
            BY <3>1 DEF Inv, ConnectorTypeOK, connectorVars, topics
        <3> QED
            BY <3>1, <3>2, RegistryStep, SocketStep DEF Inv
    <2> QED
        BY <2>1, <2>2, <2>3 DEF Next
<1> QED
    BY <1>1, <1>2, PTL DEF Spec

\* Every variable of the connectors and both topics stay in their ranges:
\* whatever the threads interleave, no packet without a user id is sent.
THEOREM ConnectorTypes == Spec => []ConnectorTypeOK
<1>1. Inv => ConnectorTypeOK
    BY DEF Inv
<1> QED
    BY <1>1, Invariance, PTL

\* The two registries of NetworkUserService and the sockets' own status agree
\* at every step of the consumer thread and of the event loops.
THEOREM RegistriesAgree == Spec => []RegistryAgreement
<1>1. Inv => RegistryAgreement
    BY RegistryConsequences DEF Inv
<1> QED
    BY <1>1, Invariance, PTL

\* A removed socket stays registered only if handlerRemoved overlapped with
\* the processing of its AuthClientReply.
THEOREM GhostsComeFromTheRace == Spec => []GhostOnlyByRace
<1>1. Inv => GhostOnlyByRace
    BY RegistryConsequences DEF Inv
<1> QED
    BY <1>1, Invariance, PTL

\* DefaultOutgoingMessageProcessor writes a message to sockets of its addressee
\* only, whatever address it was sent to and however often ids start over.
THEOREM MessagesReachTheirAddressee == Spec => []NoMisdelivery
<1>1. Inv => NoMisdelivery
    BY DEF Inv, RegistryInv
<1> QED
    BY <1>1, Invariance, PTL

\* AppSocketHandler schedules one timeout and nothing renews it: no order of
\* requests, replies and crashes leaves an open socket unauthenticated with the
\* timeout spent.
THEOREM SilentSocketsMeetTheirTimeout == Spec => []TimeoutPending
<1>1. Inv => TimeoutPending
    BY DEF Inv, SocketInv
<1> QED
    BY <1>1, Invariance, PTL
=============================================================================
