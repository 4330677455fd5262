------------------------------ MODULE MCDomain ------------------------------
(* Small domains: one connector, one or two users who write to the second.  *)
EXTENDS Domain, TLC

CONSTANTS
    u1, u2,       \* the users; the same one where a user writes to itself
    MaxTotal      \* bound: faults of all kinds together

MCFrom == [x \in Payload |-> u1]
MCTo == [x \in Payload |-> u2]

Faults == crashes + Cardinality(unsent) + throws + workerCrashes + faults

\* Few faults, and either a crash of the connector or a fetch (together they make
\* five million states).
FaultBudget ==
    /\ Faults <= MaxTotal
    /\ crashes = 0 \/ fetches = 0

\* A step that requests a fetch: there is something to be found.
FetchForStored == fetches' # fetches => Stored # {}

\* Only a crash looks at what was handled of a batch: the batches that go on
\* are of packets about the message, one at a time, while the socket is open and
\* without a fetch before the crash; none is left once the faults are spent.
BatchForCrash ==
    LET batches == UNION {handled[w] : w \in Worker} \cup UNION {consumed[c] : c \in Connector}
    IN  \/ batches = {}
        \/ /\ Cardinality(batches) = 1 /\ fetches = 0 /\ Faults < MaxTotal
           /\ \A p \in batches : \E x \in Payload : Carries(p, AppMessage(x))
           /\ \A a \in Address : channel[a] \in {"none", "open"}

\* The timeout of an authenticated socket does nothing: it need not fire.
TimeoutsThatMatter ==
    \A a \in Address : authStatus[a] = "AUTHENTICATED" => timer[a]

\* Sockets end that are authenticated: the others have nothing to do with messages.
OnlyUsersLeave ==
    \A a \in Address : channel[a] \in {"none", "open"} \/ authStatus[a] = "AUTHENTICATED"

\* A second socket is opened only without message and close, and then no
\* socket ends that is not authenticated.
SecondSocketAlone ==
    \/ \A c \in Connector : counter[c] <= 1
    \/ accepted = {} /\ closes = 0 /\ OnlyUsersLeave

\* Workers do the same things.
WorkerSymmetry == Permutations(Worker)
=============================================================================
