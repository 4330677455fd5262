--------------------------- MODULE MessageService ---------------------------
(***************************************************************************)
(* What a domain promises to the clients about their messages, whatever    *)
(* its processes, topics and databases do about it: nobody receives what   *)
(* nobody sent, a message that the domain let go never comes back, a       *)
(* RELIABLE one is let go only when it was delivered or forgotten in one   *)
(* of the ways the domain owns up to, and a sender who is told of a        *)
(* delivery asked for it and is told the truth.                            *)
(***************************************************************************)
CONSTANTS
    Payload,     \* the messages clients may send
    Reliable,    \* those sent with feature RELIABLE
    Confirmed    \* those whose sender asked for a confirmation

VARIABLES
    accepted,    \* handed over by their senders
    held,        \* on their way or stored: the domain may still deliver them
    delivered,   \* written to a socket of their addressee, once or more often
    forgotten,   \* of which some copy was lost
    confirmed    \* whose sender was told of the delivery

msVars == <<accepted, held, delivered, forgotten, confirmed>>

MSInit ==
    /\ accepted = {} /\ held = {} /\ delivered = {}
    /\ forgotten = {} /\ confirmed = {}

\* A client hands a message over; it may be lost at once.
MSAccept(x) ==
    /\ x \notin accepted
    /\ accepted' = accepted \cup {x}
    /\ \/ held' = held \cup {x} /\ UNCHANGED forgotten
       \/ forgotten' = forgotten \cup {x} /\ UNCHANGED held
    /\ UNCHANGED <<delivered, confirmed>>

\* The addressee receives a message that the domain holds, maybe again; it may
\* have been the last copy.
MSDeliver(x) ==
    /\ x \in held
    /\ delivered' = delivered \cup {x}
    /\ \/ UNCHANGED held
       \/ held' = held \ {x}
    /\ UNCHANGED <<accepted, forgotten, confirmed>>

\* Copies of messages the domain holds are lost, or done with; it lets go of
\* the messages L.
MSLetGo ==
    /\ UNCHANGED <<accepted, delivered, confirmed>>
    /\ \E F, L \in SUBSET held :
          /\ forgotten' = forgotten \cup F
          /\ held' = held \ L
          /\ L \cap Reliable \subseteq delivered \cup forgotten'

MSConfirm(x) ==
    /\ x \in delivered \cap Confirmed
    /\ confirmed' = confirmed \cup {x}
    /\ UNCHANGED <<accepted, held, delivered, forgotten>>

MSNext ==
    \/ MSLetGo
    \/ \E x \in Payload : MSAccept(x) \/ MSDeliver(x) \/ MSConfirm(x)

MSSpec == MSInit /\ [][MSNext]_msVars
=============================================================================
