------------------------------- MODULE Domain -------------------------------
(***************************************************************************)
(* One domain: connectors and processors around their topics.              *)
(***************************************************************************)
EXTENDS Connector, Processor

vars == <<connectorVars, processorVars, topics>>

Init ==
    /\ ConnectorInit /\ ProcessorInit
    /\ incoming = {} /\ outgoing = {}

Next ==
    \/ ConnectorNext /\ UNCHANGED processorVars
    \/ ProcessorNext /\ UNCHANGED connectorVars

Spec == Init /\ [][Next]_vars

FairSpec == Spec /\ ConnectorFairness /\ ProcessorFairness

-----------------------------------------------------------------------------
\* Where an application message can be on its way.
Carries(p, m) ==
    \/ p.type = "MESSAGE" /\ p.msg = m
    \/ p.type = "DELIVER" /\ p.msg = m
    \/ p.type = "MESSAGE_STATE_CHANGED" /\ p.msg = m /\ p.state # "PROCESSED"

InTopics(m) == \E p \in incoming \cup outgoing : Carries(p, m)
InBuffer(m) == \E e \in buffer : Carries(e[2], m)
InWrites(m) == \E e \in writes : e[1] = m
InStore(m) == store[m] # "absent"
Written(m) == \E e \in written : e[1] = m

\* A worker that has yet to send or persist the message.
AtWorker(m) ==
    \E w \in Worker :
        /\ stage[w] \in {"merge", "route", "send"}
        /\ \E p \in job[w] : Carries(p, m)

\* The message was forgotten: by a callback that is still a TODO, with the
\* memory of a crashed process, by a failing database, as part of a packet
\* saved under an address nobody fetches, or by a fetch that removed a copy
\* saved after the fetch had read it.
Forgotten(m) ==
    \/ \E p \in unsent \cup parked : Carries(p, m)
    \/ m \in dropped \cup vanished \cup erased

\* A worker or a connector's consumer thread handles the message, or handled it
\* in a batch that is not committed: if their process dies, it comes again.
InHands(m) ==
    \/ \E w \in Worker : \E p \in job[w] \cup handled[w] : Carries(p, m)
    \/ \E c \in Connector : \E p \in packet[c] \cup consumed[c] : Carries(p, m)

\* The domain may still deliver the message.
Held(m) ==
    InTopics(m) \/ InBuffer(m) \/ InWrites(m) \/ InStore(m) \/ InHands(m)

Service == INSTANCE MessageService WITH
    held <- {x \in Payload : Held(AppMessage(x))},
    delivered <- {x \in Payload : <<AppMessage(x), To[x]>> \in written},
    forgotten <- {x \in Payload : Forgotten(AppMessage(x))},
    confirmed <- {x \in Payload : <<Confirmation(x), From[x]>> \in written}

\* Seen from its clients a domain is a message service: it invents nothing,
\* what it does not hold any more it never delivers again (no late report, no
\* retry, no crash brings a message back that is nowhere), and it lets go of a
\* RELIABLE message only after it was written or one of the known leaks took it.
ImplementsService == Service!MSSpec

\* A RELIABLE message that a client handed over is on its way, stored, or
\* written to a socket of its addressee, unless one of the known leaks took it:
\* there is no other way for it to disappear, whatever the order of fetches,
\* connections, failures and crashes.
ReliableMessageAccounted ==
    \A x \in accepted \cap Reliable :
        LET m == AppMessage(x) IN
        \/ InTopics(m) \/ InBuffer(m) \/ InWrites(m) \/ InStore(m) \/ AtWorker(m)
        \/ Written(m) \/ Forgotten(m)

\* What README.MD:149 says of RELIABLE messages, "will not get lost", without
\* the leaks: an accepted RELIABLE message is on its way, stored or written.
\* The code loses it in each of the ways Forgotten lists.
ReliableMessageNotLost ==
    \A x \in accepted \cap Reliable :
        LET m == AppMessage(x) IN
        \/ InTopics(m) \/ InBuffer(m) \/ InWrites(m) \/ InStore(m) \/ AtWorker(m)
        \/ Written(m)

\* What README.MD:15-16 says of stored messages, "User can pull missed messages
\* when they connect next time": a stored application message is in a state
\* that a fetch of its addressee finds.
StoredMessageFetchable ==
    \A x \in Payload : InStore(AppMessage(x)) => store[AppMessage(x)] \in FetchableState

\* A sender is told that its message was delivered only after the message was
\* written to a socket of the addressee.
ConfirmedOnlyIfWritten ==
    \A x \in Payload :
        LET confirmation == Confirmation(x) IN
        (\/ \E p \in outgoing : p.type = "DELIVER" /\ p.msg = confirmation
         \/ \E w \in Worker : confirmation \in doc[w]
         \/ \E e \in buffer : e[2].type = "DELIVER" /\ e[2].msg = confirmation
         \/ store[confirmation] # "absent")
            => <<AppMessage(x), To[x]>> \in written

\* The announcement of a connection that a worker has not finished yet.
Announced(u, a) ==
    \/ UserConnected(u, a) \in incoming
    \/ \E w \in Worker : stage[w] = "merge" /\ UserConnected(u, a) \in job[w]

\* The announcement was forgotten where everything else is, too.
Unannounced(u, a) == UserConnected(u, a) \in unsent \cup parked

\* An authenticated socket that is open can be reached: its address is
\* registered for its user or is about to be, if the announcement was not
\* forgotten and no connector started its socket ids over.  Late news of another
\* address (a disconnect, an ADDRESS_NOT_FOUND) never takes it away, unless two
\* workers read, modify and write the channel of its user at the same time.
LiveSocketRegistered ==
    crashes = 0 =>
        \A a \in Address :
            channel[a] = "open" /\ authStatus[a] = "AUTHENTICATED" =>
                \/ a \in userChannel[userId[a]]
                \/ Announced(userId[a], a) \/ Unannounced(userId[a], a)

\* Whose channel a packet makes its handler change.
ChangedUser(p) == IF p.type = "MESSAGE_STATE_CHANGED" THEN p.msg.to ELSE p.user

\* No two workers are between the read and the write of one user's channel,
\* which nothing in the code sees to.
ChannelsChangedInTurn ==
    \A v, w \in Worker :
        v # w /\ stage[v] = "merge" /\ stage[w] = "merge" =>
            \A p \in job[v], q \in job[w] : ChangedUser(p) # ChangedUser(q)

\* An accepted RELIABLE message comes to rest: it reaches a socket or it is
\* stored (or forgotten); no chain of retries carries it around for ever.
MessageSettles ==
    \A x \in Payload \cap Reliable :
        LET m == AppMessage(x) IN
        x \in accepted ~> Written(m) \/ InStore(m) \/ Forgotten(m)
=============================================================================
