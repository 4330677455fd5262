------------------------ MODULE DomainTunnel_proofs ------------------------
(***************************************************************************)
(* The theorems about the tunnels, for any number of linked domains,       *)
(* messages, connections and failures.                                     *)
(***************************************************************************)
EXTENDS DomainTunnel, TLAPS

\* Packets in both directions belong to connections whose tunnel could ask.
PacketTypes ==
    /\ \A q \in toPeer : q[1] \in Connection
    /\ \A q \in fromPeer : q[1] \in Connection

\* Connections are used one after the other.
LifeInv ==
    \A d \in Link :
        /\ \A i \in 1..MaxAttempts :
              /\ i < attempts[d] => channel[<<d, i>>] = "removed"
              /\ i > attempts[d] => channel[<<d, i>>] = "none"
        /\ attempts[d] = 0 => scheduled[d] = 0 /\ d \notin stranded
        /\ attempts[d] > 0 =>
              \/ d \in stranded /\ scheduled[d] = 0 /\ channel[Current(d)] = "removed"
              \/ d \notin stranded /\ scheduled[d] = 1 /\ channel[Current(d)] = "removed"
              \/ d \notin stranded /\ scheduled[d] = 0 /\ Alive(Current(d))

\* Nothing is granted to a connection that could not ask, and a grant on its
\* way is one that the peer remembers.
GrantInv ==
    /\ \A q \in toPeer : "connected" \in callbacks[q[1][1]]
    /\ \A q \in fromPeer : "connected" \in callbacks[q[1][1]]
    /\ \A e \in granted : "connected" \in callbacks[e[1]]
    /\ \A d \in Link : isAuthenticated[d] => "connected" \in callbacks[d]
    /\ \A e \in Connection : <<e, AuthClientReply(TRUE)>> \in fromPeer => e \in granted

\* A message is in one place.
PlaceInv ==
    /\ unsent \cap stored = {} /\ (unsent \cup stored) \cap ignored = {}
    /\ \A e \in Connection, m \in Message :
          <<e, InternalMessage(m)>> \in fromPeer =>
              /\ Via[m] = e[1]
              /\ m \notin unsent \cup stored \cup ignored
              /\ \A f \in Connection : <<f, InternalMessage(m)>> \in fromPeer => f = e

\* Who fetches listens for messages.
ListenInv ==
    /\ \A d \in Link : "authenticated" \in callbacks[d] => "message" \in callbacks[d]
    /\ \A e \in Connection :
          <<e, "FETCH_MISSING_MESSAGES_REQUEST">> \in toPeer => "message" \in callbacks[e[1]]
    /\ \A m \in fetched : "message" \in callbacks[Via[m]]

Inv ==
    /\ TypeOK /\ PacketTypes /\ LifeInv /\ GrantInv /\ PlaceInv /\ ListenInv
    /\ AuthenticatedIsGranted /\ FetchedNotIgnored

USE TunnelAssumption

-----------------------------------------------------------------------------
LEMMA ConnectionParts ==
    /\ \A e \in Connection : e[1] \in Link /\ e[2] \in 1..MaxAttempts /\ e = <<e[1], e[2]>>
    /\ \A d \in Link, i \in 1..MaxAttempts : <<d, i>> \in Connection
BY DEF Connection

LEMMA InitInv == Init => Inv
BY ConnectionParts DEF Init, Inv, TypeOK, PacketTypes, LifeInv, GrantInv, PlaceInv,
   ListenInv, AuthenticatedIsGranted, FetchedNotIgnored, ChannelState, Callback

LEMMA LifeConsequences == Inv => OneLifeline
<1> SUFFICES ASSUME Inv, NEW d \in Link
    PROVE  /\ \A i \in 1..MaxAttempts : Alive(<<d, i>>) => i = attempts[d] /\ scheduled[d] = 0
           /\ scheduled[d] <= 1
           /\ attempts[d] > 0 /\ d \notin stranded => scheduled[d] = 1 \/ Alive(Current(d))
    BY DEF OneLifeline
<1> QED
    BY DEF Inv, TypeOK, LifeInv, Alive, Current

\* The packets of the three kinds are different from each other.
LEMMA Kinds ==
    /\ \A m, n : InternalMessage(m) = InternalMessage(n) => m = n
    /\ \A m, ok : InternalMessage(m) # AuthClientReply(ok)
    /\ \A m, n : InternalMessage(m) # FetchComplete(n)
    /\ \A ok, n : AuthClientReply(ok) # FetchComplete(n)
    /\ AuthClientReply(TRUE) # AuthClientReply(FALSE)
BY DEF InternalMessage, AuthClientReply, FetchComplete

-----------------------------------------------------------------------------
\* What a step of the setup thread does.
LEMMA SetupSteps ==
    ASSUME Inv, NEW d \in Link, CreateTunnel(d) \/ AddCallback(d)
    PROVE  Inv'
<1>0. TypeOK /\ PacketTypes /\ LifeInv /\ GrantInv /\ PlaceInv /\ ListenInv
      /\ AuthenticatedIsGranted /\ FetchedNotIgnored
    BY DEF Inv
<1>1. CASE CreateTunnel(d)
    <2>1. /\ attempts[d] = 0 /\ attempts[d] < MaxAttempts
          /\ attempts' = [attempts EXCEPT ![d] = 1]
          /\ channel' = [channel EXCEPT ![<<d, 1>>] = "connecting"]
          /\ UNCHANGED <<wiring, scheduled, isAuthenticated, toPeer, fromPeer, peer, outcome>>
        BY <1>0, <1>1 DEF CreateTunnel, DoConnect, TypeOK
    <2>2. 1 \in 1..MaxAttempts /\ <<d, 1>> \in Connection
        BY <2>1, ConnectionParts
    <2>3. TypeOK'
        BY <1>0, <2>1, <2>2 DEF TypeOK, ChannelState, wiring, peer, outcome
    <2>4. LifeInv'
        BY <1>0, <2>1, <2>2, ConnectionParts
           DEF LifeInv, Alive, Current, TypeOK, wiring
    <2>5. PacketTypes' /\ GrantInv' /\ PlaceInv' /\ ListenInv' /\ FetchedNotIgnored'
        BY <1>0, <2>1 DEF PacketTypes, GrantInv, PlaceInv, ListenInv, FetchedNotIgnored,
           wiring, peer, outcome
    <2>6. AuthenticatedIsGranted'
        BY <1>0, <2>1, <2>2, ConnectionParts
           DEF AuthenticatedIsGranted, Current, TypeOK, peer
    <2> QED
        BY <2>3, <2>4, <2>5, <2>6 DEF Inv
<1>2. CASE AddCallback(d)
    <2>1. PICK cb \in NextCallback(d) : callbacks' = [callbacks EXCEPT ![d] = @ \cup {cb}]
        BY <1>2 DEF AddCallback
    <2>2. UNCHANGED <<attempts, channel, scheduled, isAuthenticated, toPeer, fromPeer,
                      peer, outcome, stranded, deaf>>
        BY <1>2 DEF AddCallback
    <2>3. cb \in Callback /\ (cb = "authenticated" => "message" \in callbacks[d])
        BY DEF NextCallback, Callback
    <2>4. /\ callbacks' \in [Link -> SUBSET Callback]
          /\ \A e \in Link : callbacks[e] \subseteq callbacks'[e]
          /\ \A e \in Link : "authenticated" \in callbacks'[e] => "message" \in callbacks'[e]
        BY <1>0, <2>1, <2>3 DEF TypeOK, ListenInv
    <2>5. TypeOK' /\ PacketTypes' /\ LifeInv' /\ PlaceInv' /\ FetchedNotIgnored'
          /\ AuthenticatedIsGranted'
        BY <1>0, <2>2, <2>4 DEF TypeOK, PacketTypes, LifeInv, PlaceInv, FetchedNotIgnored,
           AuthenticatedIsGranted, Alive, Current, peer, outcome
    <2>6. GrantInv' /\ ListenInv'
        BY <1>0, <2>2, <2>4, ConnectionParts DEF GrantInv, ListenInv, TypeOK, PacketTypes,
           peer, outcome
    <2> QED
        BY <2>5, <2>6 DEF Inv
<1> QED
    BY <1>1, <1>2

-----------------------------------------------------------------------------
\* A connection that is alive is its tunnel's newest.
LEMMA AliveIsCurrent ==
    ASSUME Inv, NEW e \in Connection, Alive(e)
    PROVE  /\ e = Current(e[1]) /\ attempts[e[1]] > 0
           /\ scheduled[e[1]] = 0 /\ e[1] \notin stranded
<1> DEFINE d == e[1]
           i == e[2]
<1>1. d \in Link /\ i \in 1..MaxAttempts /\ e = <<d, i>>
    BY ConnectionParts
<1>2. attempts[d] \in 0..MaxAttempts
    BY <1>1 DEF Inv, TypeOK
<1>3. i = attempts[d]
    <2>1. channel[<<d, i>>] \notin {"none", "removed"}
        BY <1>1 DEF Alive
    <2> QED
        BY <1>1, <1>2, <2>1 DEF Inv, LifeInv
<1>4. attempts[d] > 0 /\ channel[Current(d)] # "removed"
    BY <1>1, <1>2, <1>3 DEF Alive, Current
<1> QED
    BY <1>1, <1>3, <1>4 DEF Inv, LifeInv, Current

\* A channel that stays alive changes its state.
LEMMA LifeFrame ==
    ASSUME Inv, NEW e \in Connection, Alive(e), NEW s \in {"connecting", "open", "closed"},
           channel' = [channel EXCEPT ![e] = s],
           UNCHANGED <<attempts, scheduled, stranded>>
    PROVE  /\ LifeInv' /\ channel' \in [Connection -> ChannelState]
           /\ channel'[e] = s /\ \A f \in Connection : f # e => channel'[f] = channel[f]
<1>1. e = Current(e[1]) /\ e[1] \in Link /\ attempts[e[1]] > 0
    BY AliveIsCurrent, ConnectionParts
<1>2. /\ channel' \in [Connection -> ChannelState] /\ channel'[e] = s
      /\ \A f \in Connection : f # e => channel'[f] = channel[f]
    BY DEF Inv, TypeOK, ChannelState
<1>3. ASSUME NEW d \in Link, NEW i \in 1..MaxAttempts, <<d, i>> # e
      PROVE  channel'[<<d, i>>] = channel[<<d, i>>]
    BY <1>2, <1>3, ConnectionParts
<1>4. ASSUME NEW d \in Link
      PROVE  /\ \A i \in 1..MaxAttempts :
                   /\ i < attempts'[d] => channel'[<<d, i>>] = "removed"
                   /\ i > attempts'[d] => channel'[<<d, i>>] = "none"
             /\ attempts'[d] = 0 => scheduled'[d] = 0 /\ d \notin stranded'
             /\ attempts'[d] > 0 =>
                   \/ d \in stranded' /\ scheduled'[d] = 0 /\ channel'[Current(d)'] = "removed"
                   \/ d \notin stranded' /\ scheduled'[d] = 1 /\ channel'[Current(d)'] = "removed"
                   \/ d \notin stranded' /\ scheduled'[d] = 0 /\ Alive(Current(d))'
    <2>0. attempts[d] \in 0..MaxAttempts
        BY DEF Inv, TypeOK
    <2>1. \A i \in 1..MaxAttempts : i # attempts[d] => <<d, i>> # e
        BY <1>1 DEF Current
    <2>2. CASE d = e[1]
        <3>1. Alive(Current(d))' /\ scheduled[d] = 0 /\ d \notin stranded
            BY <1>1, <1>2, <2>2, AliveIsCurrent DEF Alive, Current
        <3> QED
            BY <1>3, <2>0, <2>1, <3>1, <2>2, <1>1 DEF Inv, LifeInv
    <2>3. CASE d # e[1]
        <3>1. attempts[d] > 0 => attempts[d] \in 1..MaxAttempts
            BY <2>0
        <3>2. attempts[d] > 0 => channel'[Current(d)] = channel[Current(d)]
            BY <1>1, <1>3, <2>3, <3>1 DEF Current
        <3> QED
            BY <1>3, <2>0, <2>1, <3>2 DEF Inv, LifeInv, Alive, Current
    <2> QED
        BY <2>2, <2>3
<1>5. LifeInv'
    BY <1>4 DEF LifeInv
<1> QED
    BY <1>2, <1>5

\* A connection ends: the flag and the packets stay as they are.
LEMMA CloseSteps ==
    ASSUME Inv, NEW e \in Connection,
           ConnectFails(e) \/ ConnectionBreaks(e) \/ PeerTimesOut(e)
    PROVE  Inv'
<1>1. /\ Alive(e) /\ channel' = [channel EXCEPT ![e] = "closed"]
      /\ UNCHANGED <<wiring, attempts, scheduled, isAuthenticated, toPeer, fromPeer, peer,
                     outcome>>
    BY DEF ConnectFails, ConnectionBreaks, PeerTimesOut, Alive
<1>2. /\ LifeInv' /\ channel' \in [Connection -> ChannelState]
      /\ \A f \in Connection : channel'[f] = "open" => channel[f] = "open"
    BY <1>1, LifeFrame DEF wiring
<1>3. TypeOK' /\ PacketTypes' /\ GrantInv' /\ PlaceInv' /\ ListenInv' /\ FetchedNotIgnored'
    BY <1>1, <1>2 DEF Inv, TypeOK, PacketTypes, GrantInv, PlaceInv, ListenInv,
       FetchedNotIgnored, wiring, peer, outcome
<1>4. AuthenticatedIsGranted'
    <2>1. \A d \in Link : attempts[d] > 0 => Current(d) \in Connection
        BY ConnectionParts DEF Inv, TypeOK, Current
    <2> QED
        BY <1>1, <1>2, <2>1 DEF Inv, AuthenticatedIsGranted, Current, peer
<1> QED
    BY <1>2, <1>3, <1>4 DEF Inv

\* A connection opens with the flag reset, or nothing was ever authenticated.
LEMMA OpenStep ==
    ASSUME Inv, NEW e \in Connection, ConnectSucceeds(e)
    PROVE  Inv'
<1> DEFINE d == e[1]
<1>0. d \in Link
    BY ConnectionParts
<1>1. /\ Alive(e) /\ channel' = [channel EXCEPT ![e] = "open"]
      /\ UNCHANGED <<callbacks, attempts, scheduled, fromPeer, peer, outcome, stranded>>
      /\ deaf' \subseteq deaf
      /\ \/ "connected" \in callbacks[d] /\ isAuthenticated' = [isAuthenticated EXCEPT ![d] = FALSE]
         \/ "connected" \notin callbacks[d] /\ UNCHANGED <<isAuthenticated, toPeer>>
      /\ toPeer' = toPeer \/ (/\ "connected" \in callbacks[d]
                              /\ toPeer' = toPeer \cup {<<Current(d), "AUTH_CLIENT">>})
    BY DEF ConnectSucceeds, NotAuthenticated, SendMessage, Alive
<1>2. /\ LifeInv' /\ channel' \in [Connection -> ChannelState] /\ channel'[e] = "open"
      /\ \A f \in Connection : f # e => channel'[f] = channel[f]
    BY <1>1, LifeFrame
<1>3. e = Current(d)
    BY <1>1, AliveIsCurrent
<1>4. /\ isAuthenticated' \in [Link -> BOOLEAN] /\ ~isAuthenticated'[d]
      /\ \A c \in Link : c # d => isAuthenticated'[c] = isAuthenticated[c]
      /\ \A c \in Link : isAuthenticated'[c] => isAuthenticated[c]
    BY <1>0, <1>1 DEF Inv, TypeOK, GrantInv
<1>5. TypeOK' /\ PlaceInv' /\ FetchedNotIgnored'
    BY <1>1, <1>2, <1>4 DEF Inv, TypeOK, PlaceInv, FetchedNotIgnored, peer, outcome
<1>6. PacketTypes' /\ GrantInv' /\ ListenInv'
    <2>1. \A q \in toPeer' : q \in toPeer \/ (/\ q = <<e, "AUTH_CLIENT">>
                                             /\ "connected" \in callbacks[d])
        BY <1>1, <1>3
    <2>2. \A q \in toPeer' : q[1] \in Connection /\ "connected" \in callbacks[q[1][1]]
        BY <2>1 DEF Inv, PacketTypes, GrantInv
    <2>3. \A c \in Connection : <<c, "FETCH_MISSING_MESSAGES_REQUEST">> \in toPeer' =>
              <<c, "FETCH_MISSING_MESSAGES_REQUEST">> \in toPeer
        BY <2>1
    <2> QED
        BY <1>1, <1>4, <2>2, <2>3 DEF Inv, PacketTypes, GrantInv, ListenInv, peer
<1>7. AuthenticatedIsGranted'
    <2>1. \A c \in Link : attempts[c] > 0 => Current(c) \in Connection
        BY ConnectionParts DEF Inv, TypeOK, Current
    <2>2. \A c \in Link : c # d => Current(c) # e
        BY DEF Current
    <2> QED
        BY <1>1, <1>2, <1>4, <2>1, <2>2 DEF Inv, AuthenticatedIsGranted, Current, peer
<1> QED
    BY <1>2, <1>5, <1>6, <1>7 DEF Inv

\* The handler leaves a closed channel: a reconnect is due, or nobody listens.
LEMMA RemovedStep ==
    ASSUME Inv, NEW e \in Connection, HandlerRemoved(e)
    PROVE  Inv'
<1> DEFINE d == e[1]
<1>0. d \in Link /\ e[2] \in 1..MaxAttempts /\ e = <<d, e[2]>>
    BY ConnectionParts
<1>1. /\ Alive(e) /\ channel' = [channel EXCEPT ![e] = "removed"]
      /\ \/ scheduled' = [scheduled EXCEPT ![d] = @ + 1] /\ UNCHANGED stranded
         \/ stranded' = stranded \cup {d} /\ UNCHANGED scheduled
      /\ toPeer' = {q \in toPeer : q[1] # e}
      /\ fromPeer' = {q \in fromPeer : q[1] # e}
      /\ UNCHANGED <<callbacks, attempts, isAuthenticated, granted, unsent, fetched, outcome,
                     deaf>>
    BY DEF HandlerRemoved, ScheduleReconnection, Alive
<1>2. PICK again \in SUBSET {m \in Message : <<e, InternalMessage(m)>> \in fromPeer} :
          stored' = stored \cup again
    BY DEF HandlerRemoved
<1>3. /\ e = Current(d) /\ scheduled[d] = 0 /\ d \notin stranded /\ attempts[d] > 0
      /\ attempts[d] \in 1..MaxAttempts
    BY <1>0, <1>1, AliveIsCurrent DEF Inv, TypeOK
<1>4. /\ channel' \in [Connection -> ChannelState] /\ channel'[e] = "removed"
      /\ \A f \in Connection : f # e => channel'[f] = channel[f]
    BY <1>1 DEF Inv, TypeOK, ChannelState
<1>5. /\ scheduled' \in [Link -> Nat] /\ stranded' \subseteq Link
      /\ \A c \in Link : c # d => scheduled'[c] = scheduled[c] /\ (c \in stranded' <=> c \in stranded)
      /\ \/ scheduled'[d] = 1 /\ d \notin stranded'
         \/ scheduled'[d] = 0 /\ d \in stranded'
    BY <1>0, <1>1, <1>3 DEF Inv, TypeOK
<1>6. LifeInv'
    <2>1. ASSUME NEW c \in Link, NEW i \in 1..MaxAttempts, <<c, i>> # e
          PROVE  channel'[<<c, i>>] = channel[<<c, i>>]
        BY <1>4, <2>1, ConnectionParts
    <2>2. \A c \in Link : attempts[c] \in 0..MaxAttempts
        BY DEF Inv, TypeOK
    <2>3. ASSUME NEW c \in Link, NEW i \in 1..MaxAttempts
          PROVE  /\ i < attempts[c] => channel'[<<c, i>>] = "removed"
                 /\ i > attempts[c] => channel'[<<c, i>>] = "none"
        <3>1. <<c, i>> = e => i = attempts[c]
            BY <1>3 DEF Current
        <3>2. i < attempts[c] \/ i > attempts[c] => channel'[<<c, i>>] = channel[<<c, i>>]
            BY <2>1, <2>2, <3>1
        <3> QED
            BY <3>2 DEF Inv, LifeInv
    <2>4. ASSUME NEW c \in Link, c # d, attempts[c] > 0
          PROVE  channel'[Current(c)] = channel[Current(c)]
        <3>1. attempts[c] \in 1..MaxAttempts
            BY <2>2, <2>4
        <3> QED
            BY <1>0, <2>1, <2>4, <3>1 DEF Current
    <2> QED
        BY <1>1, <1>3, <1>4, <1>5, <2>3, <2>4 DEF Inv, LifeInv, Alive, Current
<1>7. TypeOK' /\ PacketTypes' /\ ListenInv' /\ FetchedNotIgnored'
    BY <1>1, <1>2, <1>4, <1>5 DEF Inv, TypeOK, PacketTypes, ListenInv, FetchedNotIgnored,
       outcome
<1>8. GrantInv'
    BY <1>1 DEF Inv, GrantInv
<1>9. PlaceInv'
    BY <1>1, <1>2 DEF Inv, PlaceInv, outcome
<1>10. AuthenticatedIsGranted'
    <2>1. \A c \in Link : attempts[c] > 0 => Current(c) \in Connection
        BY ConnectionParts DEF Inv, TypeOK, Current
    <2> QED
        BY <1>1, <1>4, <2>1 DEF Inv, AuthenticatedIsGranted, Current
<1> QED
    BY <1>6, <1>7, <1>8, <1>9, <1>10 DEF Inv

\* The reconnect starts the next connection.
LEMMA ReconnectStep ==
    ASSUME Inv, NEW d \in Link, Reconnect(d)
    PROVE  Inv'
<1> DEFINE n == attempts[d] + 1
           e == <<d, n>>
<1>1. /\ scheduled[d] > 0 /\ attempts[d] < MaxAttempts
      /\ scheduled' = [scheduled EXCEPT ![d] = @ - 1]
      /\ attempts' = [attempts EXCEPT ![d] = n]
      /\ channel' = [channel EXCEPT ![e] = "connecting"]
      /\ UNCHANGED <<wiring, isAuthenticated, toPeer, fromPeer, peer, outcome>>
    BY DEF Reconnect, ReconnectDue, DoConnect
<1>2. /\ scheduled[d] = 1 /\ d \notin stranded /\ attempts[d] > 0
      /\ channel[Current(d)] = "removed" /\ attempts[d] \in 1..MaxAttempts
    BY <1>1 DEF Inv, LifeInv, TypeOK
<1>3. n \in 1..MaxAttempts /\ e \in Connection
    BY <1>1, <1>2, ConnectionParts
<1>4. /\ channel' \in [Connection -> ChannelState] /\ channel'[e] = "connecting"
      /\ \A f \in Connection : f # e => channel'[f] = channel[f]
      /\ attempts' \in [Link -> 0..MaxAttempts] /\ attempts'[d] = n
      /\ \A c \in Link : c # d => attempts'[c] = attempts[c] /\ scheduled'[c] = scheduled[c]
      /\ scheduled' \in [Link -> Nat] /\ scheduled'[d] = 0
    BY <1>1, <1>2, <1>3 DEF Inv, TypeOK, ChannelState
<1>5. ASSUME NEW c \in Link, NEW i \in 1..MaxAttempts, <<c, i>> # e
      PROVE  channel'[<<c, i>>] = channel[<<c, i>>]
    BY <1>4, <1>5, ConnectionParts
<1>6. ASSUME NEW c \in Link, c # d, attempts[c] > 0
      PROVE  Current(c)' = Current(c) /\ channel'[Current(c)] = channel[Current(c)]
    <2>1. attempts[c] \in 1..MaxAttempts
        BY <1>6 DEF Inv, TypeOK
    <2> QED
        BY <1>4, <1>5, <1>6, <2>1 DEF Current
<1>7. LifeInv'
    <2>1. ASSUME NEW c \in Link, NEW i \in 1..MaxAttempts
          PROVE  /\ i < attempts'[c] => channel'[<<c, i>>] = "removed"
                 /\ i > attempts'[c] => channel'[<<c, i>>] = "none"
        <3>1. CASE c = d /\ i = attempts[d]
            BY <1>2, <1>4, <1>5, <3>1 DEF Current
        <3>2. CASE c = d /\ i # attempts[d]
            <4>1. i < n => i < attempts[d]
                BY <1>2, <3>2
            <4>2. i > n => i > attempts[d] /\ i # n
                BY <1>2
            <4>3. i # n => channel'[<<c, i>>] = channel[<<c, i>>]
                BY <1>5
            <4> QED
                BY <1>4, <1>2, <3>2, <4>1, <4>2, <4>3 DEF Inv, LifeInv
        <3>3. CASE c # d
            BY <1>4, <1>5, <3>3 DEF Inv, LifeInv
        <3> QED
            BY <3>1, <3>2, <3>3
    <2>2. Alive(Current(d))' /\ attempts'[d] > 0
        BY <1>2, <1>4 DEF Alive, Current
    <2>3. \A c \in Link : c # d /\ attempts[c] > 0 /\ Alive(Current(c)) => Alive(Current(c))'
        BY <1>6 DEF Alive
    <2> QED
        BY <1>1, <1>2, <1>4, <1>6, <2>1, <2>2, <2>3 DEF Inv, LifeInv, wiring
<1>8. TypeOK' /\ PacketTypes' /\ GrantInv' /\ PlaceInv' /\ ListenInv' /\ FetchedNotIgnored'
    BY <1>1, <1>4 DEF Inv, TypeOK, PacketTypes, GrantInv, PlaceInv, ListenInv,
       FetchedNotIgnored, wiring, peer, outcome
<1>9. AuthenticatedIsGranted'
    BY <1>1, <1>4, <1>6 DEF Inv, AuthenticatedIsGranted, Current, peer
<1> QED
    BY <1>7, <1>8, <1>9 DEF Inv

-----------------------------------------------------------------------------
\* A request to fetch goes out on the connection that was read from.
LEMMA FetchRequest ==
    ASSUME Inv, NEW e \in Connection, channel[e] = "open", UNCHANGED <<attempts, channel>>,
           \/ UNCHANGED toPeer
           \/ /\ "message" \in callbacks[e[1]]
              /\ SendMessage(e[1], "FETCH_MISSING_MESSAGES_REQUEST")
    PROVE  \A q \in toPeer' :
               \/ q \in toPeer
               \/ /\ q = <<e, "FETCH_MISSING_MESSAGES_REQUEST">>
                  /\ "message" \in callbacks[e[1]]
<1>1. e = Current(e[1])
    BY AliveIsCurrent DEF Alive
<1> QED
    BY <1>1 DEF SendMessage

\* What the invariant says of the packets and the grants as they are.
LEMMA PacketFacts ==
    ASSUME Inv
    PROVE  /\ isAuthenticated \in [Link -> BOOLEAN]
           /\ deaf \subseteq Link /\ granted \subseteq Connection /\ fetched \subseteq Message
           /\ unsent \cup stored \cup received \cup ignored \subseteq Message
           /\ \A e \in granted : "connected" \in callbacks[e[1]]
           /\ \A q \in fromPeer : q[1] \in Connection /\ "connected" \in callbacks[q[1][1]]
           /\ \A q \in toPeer : q[1] \in Connection /\ "connected" \in callbacks[q[1][1]]
           /\ \A e \in Connection :
                 <<e, AuthClientReply(TRUE)>> \in fromPeer => e \in granted
           /\ \A m \in fetched : "message" \in callbacks[Via[m]]
BY DEF Inv, TypeOK, PacketTypes, GrantInv, ListenInv

\* What a packet step may do with everything but the messages' places: packets
\* are read, an answer to a grant raises the flag, a listener asks to fetch.
PacketStep ==
    /\ UNCHANGED <<callbacks, attempts, channel, scheduled, stranded>>
    /\ deaf' \subseteq Link
    /\ \A q \in toPeer' :
          \/ q \in toPeer
          \/ /\ q[1] \in Connection /\ "connected" \in callbacks[q[1][1]]
             /\ "message" \in callbacks[q[1][1]]
    /\ \A q \in fromPeer' :
          q \in fromPeer \/ (q[1] \in Connection /\ "connected" \in callbacks[q[1][1]])
    /\ granted \subseteq granted' /\ granted' \subseteq Connection
    /\ \A e \in granted' : "connected" \in callbacks[e[1]]
    /\ \A e \in Connection : <<e, AuthClientReply(TRUE)>> \in fromPeer' => e \in granted'
    /\ isAuthenticated' \in [Link -> BOOLEAN]
    /\ \A d \in Link : isAuthenticated'[d] =>
          \/ isAuthenticated[d]
          \/ "connected" \in callbacks[d] /\ Current(d) \in granted
    /\ fetched' \subseteq Message /\ \A m \in fetched' : "message" \in callbacks[Via[m]]
    /\ unsent' \cup stored' \cup received' \cup ignored' \subseteq Message

LEMMA PacketFrame ==
    ASSUME Inv, PacketStep, PlaceInv', FetchedNotIgnored'
    PROVE  Inv'
<1>1. LifeInv'
    BY DEF PacketStep, Inv, LifeInv, Alive, Current
<1>2. TypeOK'
    BY DEF PacketStep, Inv, TypeOK
<1>3. PacketTypes'
    BY DEF PacketStep, Inv, PacketTypes
<1>4. GrantInv'
    BY DEF PacketStep, Inv, TypeOK, GrantInv
<1>5. ListenInv'
    <2>1. ASSUME NEW e \in Connection, <<e, "FETCH_MISSING_MESSAGES_REQUEST">> \in toPeer'
          PROVE  "message" \in callbacks[e[1]]
        BY <2>1 DEF PacketStep, Inv, ListenInv
    <2> QED
        BY <2>1 DEF PacketStep, Inv, ListenInv
<1>6. AuthenticatedIsGranted'
    BY DEF PacketStep, Inv, TypeOK, AuthenticatedIsGranted, Current
<1> QED
    BY <1>1, <1>2, <1>3, <1>4, <1>5, <1>6 DEF Inv

\* The peer's answer arrives.
LEMMA ReplyStep ==
    ASSUME Inv, NEW e \in Connection, HandleAuthReply(e)
    PROVE  Inv'
<1> DEFINE d == e[1]
<1>1. CASE Read(e, AuthClientReply(TRUE)) /\ UNCHANGED channel
           /\ isAuthenticated' = [isAuthenticated EXCEPT ![d] = TRUE]
           /\ \/ /\ "authenticated" \in callbacks[d] /\ UNCHANGED deaf
                 /\ FetchMissingMessages(d, TRUE)
              \/ deaf' = deaf \cup {d} /\ UNCHANGED toPeer
    <2>1. /\ channel[e] = "open" /\ <<e, AuthClientReply(TRUE)>> \in fromPeer
          /\ fromPeer' \subseteq fromPeer
          /\ UNCHANGED <<callbacks, attempts, scheduled, peer, outcome, stranded>>
        BY <1>1 DEF HandleAuthReply, Read
    <2>2. e \in granted /\ "connected" \in callbacks[d] /\ d \in Link /\ e = Current(d)
        BY <2>1, AliveIsCurrent, ConnectionParts DEF Inv, GrantInv, Alive
    <2>3. "authenticated" \in callbacks[d] => "message" \in callbacks[d]
        BY <2>2 DEF Inv, ListenInv
    <2>4. \A q \in toPeer' : \/ q \in toPeer
                             \/ /\ q = <<e, "FETCH_MISSING_MESSAGES_REQUEST">>
                                /\ "message" \in callbacks[d]
        BY <1>1, <2>1, <2>3, FetchRequest DEF FetchMissingMessages
    <2>5. PlaceInv' /\ FetchedNotIgnored'
        BY <2>1 DEF Inv, PlaceInv, FetchedNotIgnored, peer, outcome
    <2>6. deaf' \subseteq Link
        BY <1>1, <2>2 DEF Inv, TypeOK
    <2>7. \A q \in toPeer' :
             \/ q \in toPeer
             \/ /\ q[1] \in Connection /\ "connected" \in callbacks[q[1][1]]
                /\ "message" \in callbacks[q[1][1]]
        BY <2>2, <2>4
    <2>8. PacketStep
        BY <1>1, <2>1, <2>2, <2>6, <2>7, PacketFacts DEF PacketStep, wiring, peer, outcome
    <2> QED
        BY <2>1, <2>5, <2>8, PacketFrame
<1>2. CASE Read(e, AuthClientReply(FALSE))
           /\ channel' = [channel EXCEPT ![Current(d)] = "closed"]
           /\ UNCHANGED <<isAuthenticated, toPeer, deaf>>
    <2>1. /\ channel[e] = "open" /\ fromPeer' \subseteq fromPeer
          /\ UNCHANGED <<callbacks, attempts, scheduled, peer, outcome, stranded>>
        BY <1>2 DEF HandleAuthReply, Read
    <2>2. Alive(e) /\ channel' = [channel EXCEPT ![e] = "closed"]
        BY <1>2, <2>1, AliveIsCurrent DEF Alive
    <2>3. /\ LifeInv' /\ channel' \in [Connection -> ChannelState]
          /\ \A f \in Connection : channel'[f] = "open" => channel[f] = "open"
        BY <2>1, <2>2, LifeFrame
    <2>4. TypeOK' /\ PacketTypes' /\ GrantInv' /\ PlaceInv' /\ ListenInv' /\ FetchedNotIgnored'
        BY <1>2, <2>1, <2>3 DEF Inv, TypeOK, PacketTypes, GrantInv, PlaceInv, ListenInv,
           FetchedNotIgnored, peer, outcome
    <2>5. \A c \in Link : attempts[c] > 0 => Current(c) \in Connection
        BY ConnectionParts DEF Inv, TypeOK, Current
    <2>6. AuthenticatedIsGranted'
        BY <1>2, <2>1, <2>3, <2>5 DEF Inv, AuthenticatedIsGranted, Current, peer
    <2> QED
        BY <2>3, <2>4, <2>6 DEF Inv
<1> QED
    BY <1>1, <1>2 DEF HandleAuthReply

\* A message leaves the connection for the post office, or is ignored.
LEMMA MessageStep ==
    ASSUME Inv, NEW e \in Connection, HandleInternalMessage(e)
    PROVE  Inv'
<1>1. PICK m \in Message :
          /\ Read(e, InternalMessage(m))
          /\ \/ received' = received \cup {m} /\ UNCHANGED ignored
             \/ /\ "message" \notin callbacks[e[1]]
                /\ ignored' = ignored \cup {m} /\ UNCHANGED received
    BY DEF HandleInternalMessage
<1>2. /\ fromPeer' = fromPeer \ {<<e, InternalMessage(m)>>}
      /\ <<e, InternalMessage(m)>> \in fromPeer
      /\ UNCHANGED <<wiring, attempts, channel, scheduled, isAuthenticated, toPeer, peer>>
    BY <1>1 DEF HandleInternalMessage, Read
<1>3. /\ Via[m] = e[1] /\ m \notin unsent \cup stored
      /\ \A f \in Connection : <<f, InternalMessage(m)>> \in fromPeer => f = e
    BY <1>2 DEF Inv, PlaceInv
<1>4. PlaceInv'
    <2>1. \A f \in Connection : <<f, InternalMessage(m)>> \notin fromPeer'
        BY <1>2, <1>3
    <2> QED
        BY <1>1, <1>2, <1>3, <2>1 DEF Inv, PlaceInv, peer
<1>5. FetchedNotIgnored'
    BY <1>1, <1>2, <1>3 DEF Inv, FetchedNotIgnored, ListenInv, peer
<1>6. unsent' \cup stored' \cup received' \cup ignored' \subseteq Message
    BY <1>1, <1>2 DEF Inv, TypeOK, peer
<1>7. PacketStep
    BY <1>2, <1>6, PacketFacts DEF PacketStep, wiring, peer, outcome
<1> QED
    BY <1>4, <1>5, <1>7, PacketFrame

\* A fetch is complete; the next one is asked for by who listens.
LEMMA CompleteStep ==
    ASSUME Inv, NEW e \in Connection, HandleFetchComplete(e)
    PROVE  Inv'
<1>1. PICK left \in 0..Cardinality(Message) :
          /\ Read(e, FetchComplete(left))
          /\ \/ /\ "message" \in callbacks[e[1]]
                /\ FetchMissingMessages(e[1], isAuthenticated[e[1]])
             \/ UNCHANGED toPeer
    BY DEF HandleFetchComplete
<1>2. /\ channel[e] = "open" /\ fromPeer' \subseteq fromPeer
      /\ <<e, FetchComplete(left)>> \in fromPeer
      /\ UNCHANGED <<wiring, attempts, channel, scheduled, isAuthenticated, peer, outcome>>
    BY <1>1 DEF HandleFetchComplete, Read
<1>3. \A q \in toPeer' : \/ q \in toPeer
                         \/ /\ q = <<e, "FETCH_MISSING_MESSAGES_REQUEST">>
                            /\ "message" \in callbacks[e[1]]
    BY <1>1, <1>2, FetchRequest DEF FetchMissingMessages
<1>4. "connected" \in callbacks[e[1]]
    BY <1>2 DEF Inv, GrantInv
<1>5. PlaceInv' /\ FetchedNotIgnored'
    BY <1>2 DEF Inv, PlaceInv, FetchedNotIgnored, peer, outcome
<1>6. \A q \in toPeer' :
         \/ q \in toPeer
         \/ /\ q[1] \in Connection /\ "connected" \in callbacks[q[1][1]]
            /\ "message" \in callbacks[q[1][1]]
    BY <1>3, <1>4
<1>7. PacketStep
    BY <1>2, <1>6, PacketFacts DEF PacketStep, wiring, peer, outcome
<1> QED
    BY <1>5, <1>7, PacketFrame

\* The peer's answers; a grant is remembered.
LEMMA AuthenticateStep ==
    ASSUME Inv, NEW e \in Connection, NEW ok \in BOOLEAN, PeerAuthenticates(e, ok)
    PROVE  Inv'
<1>1. /\ <<e, "AUTH_CLIENT">> \in toPeer /\ toPeer' \subseteq toPeer
      /\ granted' = IF ok THEN granted \cup {e} ELSE granted
      /\ fromPeer' = fromPeer \cup {<<e, AuthClientReply(ok)>>}
      /\ UNCHANGED <<wiring, attempts, channel, scheduled, isAuthenticated, unsent, stored,
                     fetched, outcome>>
    BY DEF PeerAuthenticates
<1>2. "connected" \in callbacks[e[1]]
    BY <1>1 DEF Inv, GrantInv
<1>3. \A f \in Connection : <<f, AuthClientReply(TRUE)>> \in fromPeer' => f \in granted'
    BY <1>1, Kinds DEF Inv, GrantInv
<1>4. \A f \in Connection, m \in Message :
          <<f, InternalMessage(m)>> \in fromPeer' => <<f, InternalMessage(m)>> \in fromPeer
    BY <1>1, Kinds
<1>5. PlaceInv' /\ FetchedNotIgnored'
    BY <1>1, <1>4 DEF Inv, PlaceInv, FetchedNotIgnored, outcome
<1>6. \A q \in fromPeer' :
         q \in fromPeer \/ (q[1] \in Connection /\ "connected" \in callbacks[q[1][1]])
    BY <1>1, <1>2
<1>7. PacketStep
    BY <1>1, <1>2, <1>3, <1>6, PacketFacts DEF PacketStep, wiring, peer, outcome
<1> QED
    BY <1>5, <1>7, PacketFrame

\* A new message goes to one place.
LEMMA SendStep ==
    ASSUME Inv, NEW m \in Message, PeerSends(m)
    PROVE  Inv'
<1>1. /\ m \in unsent /\ unsent' = unsent \ {m}
      /\ \/ stored' = stored \cup {m} /\ UNCHANGED fromPeer
         \/ /\ UNCHANGED stored
            /\ \E e \in granted : /\ e[1] = Via[m]
                                  /\ fromPeer' = fromPeer \cup {<<e, InternalMessage(m)>>}
      /\ UNCHANGED <<wiring, attempts, channel, scheduled, isAuthenticated, toPeer, granted,
                     fetched, outcome>>
    BY DEF PeerSends
<1>2. \A f \in Connection : <<f, InternalMessage(m)>> \notin fromPeer
    BY <1>1 DEF Inv, PlaceInv
<1>3. CASE stored' = stored \cup {m} /\ UNCHANGED fromPeer
    <2>1. PlaceInv' /\ FetchedNotIgnored'
        BY <1>1, <1>2, <1>3 DEF Inv, PlaceInv, FetchedNotIgnored, outcome
    <2>2. PacketStep
        BY <1>1, <1>3, PacketFacts DEF PacketStep, wiring, peer, outcome
    <2> QED
        BY <2>1, <2>2, PacketFrame
<1>4. ASSUME NEW e \in granted, e[1] = Via[m], UNCHANGED stored,
             fromPeer' = fromPeer \cup {<<e, InternalMessage(m)>>}
      PROVE  Inv'
    <2>1. e \in Connection /\ "connected" \in callbacks[e[1]]
        BY DEF Inv, TypeOK, GrantInv
    <2>2. \A f \in Connection, n \in Message :
              <<f, InternalMessage(n)>> \in fromPeer' =>
                  <<f, InternalMessage(n)>> \in fromPeer \/ (f = e /\ n = m)
        BY <1>4, Kinds
    <2>3. \A f \in Connection : <<f, AuthClientReply(TRUE)>> \in fromPeer' => f \in granted
        BY <1>4, Kinds DEF Inv, GrantInv
    <2>4. PlaceInv'
        BY <1>1, <1>2, <1>4, <2>2 DEF Inv, PlaceInv, outcome
    <2>5. FetchedNotIgnored'
        BY <1>1 DEF Inv, FetchedNotIgnored, outcome
    <2>6. \A q \in fromPeer' :
             q \in fromPeer \/ (q[1] \in Connection /\ "connected" \in callbacks[q[1][1]])
        BY <1>4, <2>1
    <2>7. PacketStep
        BY <1>1, <1>4, <2>3, <2>6, PacketFacts DEF PacketStep, wiring, peer, outcome
    <2> QED
        BY <2>4, <2>5, <2>7, PacketFrame
<1> QED
    BY <1>1, <1>3, <1>4

\* A page goes out to a tunnel that listens.
LEMMA FetchStep ==
    ASSUME Inv, NEW e \in Connection, PeerFetches(e)
    PROVE  Inv'
<1> DEFINE missing == {m \in stored : Via[m] = e[1]}
<1>1. PICK page \in SUBSET missing :
          /\ stored' = stored \ page /\ fetched' = fetched \cup page
          /\ fromPeer' = fromPeer \cup {<<e, InternalMessage(m)>> : m \in page}
                            \cup {<<e, FetchComplete(Cardinality(missing \ page))>>}
    BY DEF PeerFetches
<1>2. /\ <<e, "FETCH_MISSING_MESSAGES_REQUEST">> \in toPeer /\ toPeer' \subseteq toPeer
      /\ UNCHANGED <<wiring, attempts, channel, scheduled, isAuthenticated, granted, unsent,
                     outcome>>
    BY DEF PeerFetches
<1>3. "message" \in callbacks[e[1]] /\ "connected" \in callbacks[e[1]]
    BY <1>2 DEF Inv, GrantInv, ListenInv
<1>4. page \subseteq Message /\ \A m \in page : m \in stored /\ Via[m] = e[1]
    BY DEF Inv, TypeOK
<1>5. \A f \in Connection, n \in Message :
          <<f, InternalMessage(n)>> \in fromPeer' =>
              <<f, InternalMessage(n)>> \in fromPeer \/ (f = e /\ n \in page)
    BY <1>1, Kinds
<1>6. \A q \in fromPeer' : q \in fromPeer \/ q[1] = e
    BY <1>1
<1>7. \A f \in Connection : <<f, AuthClientReply(TRUE)>> \in fromPeer' => f \in granted
    BY <1>1, Kinds DEF Inv, GrantInv
<1>8. PlaceInv'
    <2>1. ASSUME NEW f \in Connection, NEW n \in Message, <<f, InternalMessage(n)>> \in fromPeer'
          PROVE  /\ Via[n] = f[1] /\ n \notin unsent' \cup stored' \cup ignored'
                 /\ \/ <<f, InternalMessage(n)>> \in fromPeer
                    \/ f = e /\ n \in page
        <3>1. <<f, InternalMessage(n)>> \in fromPeer \/ (f = e /\ n \in page)
            BY <1>5, <2>1
        <3>2. /\ n \in page => n \notin stored' /\ n \notin unsent /\ n \notin ignored
              /\ stored' \subseteq stored /\ unsent' = unsent /\ ignored' = ignored
            BY <1>1, <1>2, <1>4 DEF Inv, PlaceInv, outcome
        <3> QED
            BY <1>4, <3>1, <3>2 DEF Inv, PlaceInv
    <2>2. ASSUME NEW f \in Connection, NEW n \in page
          PROVE  <<f, InternalMessage(n)>> \notin fromPeer
        BY <1>4 DEF Inv, PlaceInv
    <2>3. ASSUME NEW f \in Connection, NEW g \in Connection, NEW n \in Message,
                 <<f, InternalMessage(n)>> \in fromPeer', <<g, InternalMessage(n)>> \in fromPeer'
          PROVE  f = g
        BY <2>1, <2>2, <2>3 DEF Inv, PlaceInv
    <2>4. unsent' \cap stored' = {} /\ (unsent' \cup stored') \cap ignored' = {}
        BY <1>1, <1>2 DEF Inv, PlaceInv, outcome
    <2> QED
        BY <2>1, <2>3, <2>4 DEF PlaceInv
<1>9. FetchedNotIgnored'
    BY <1>1, <1>2, <1>4 DEF Inv, FetchedNotIgnored, PlaceInv, outcome
<1>10. fetched' \subseteq Message /\ \A m \in fetched' : "message" \in callbacks[Via[m]]
    BY <1>1, <1>3, <1>4 DEF Inv, TypeOK, ListenInv
<1>11. unsent' \cup stored' \cup received' \cup ignored' \subseteq Message
    BY <1>1, <1>2 DEF Inv, TypeOK, outcome
<1>12. PacketStep
    BY <1>2, <1>3, <1>6, <1>7, <1>10, <1>11, PacketFacts DEF PacketStep, wiring, peer, outcome
<1> QED
    BY <1>8, <1>9, <1>12, PacketFrame

-----------------------------------------------------------------------------
\* The inductive invariant.
THEOREM Invariance == Spec => []Inv
<1>1. Inv /\ [Next]_vars => Inv'
    <2> SUFFICES ASSUME Inv, [Next]_vars PROVE Inv'
        OBVIOUS
    <2>1. CASE Next
        <3>1. ASSUME NEW d \in Link, CreateTunnel(d) \/ AddCallback(d) \/ Reconnect(d)
              PROVE  Inv'
            BY <3>1, SetupSteps, ReconnectStep
        <3>2. ASSUME NEW e \in Connection,
                     ConnectFails(e) \/ ConnectionBreaks(e) \/ PeerTimesOut(e)
              PROVE  Inv'
            BY <3>2, CloseSteps
        <3>3. ASSUME NEW e \in Connection, ConnectSucceeds(e) \/ HandlerRemoved(e)
              PROVE  Inv'
            BY <3>3, OpenStep, RemovedStep
        <3>4. ASSUME NEW e \in Connection,
                     HandleAuthReply(e) \/ HandleInternalMessage(e) \/ HandleFetchComplete(e)
              PROVE  Inv'
            BY <3>4, ReplyStep, MessageStep, CompleteStep
        <3>5. ASSUME NEW e \in Connection,
                     PeerFetches(e) \/ \E ok \in BOOLEAN : PeerAuthenticates(e, ok)
              PROVE  Inv'
            BY <3>5, FetchStep, AuthenticateStep
        <3> QED
            BY <2>1, <3>1, <3>2, <3>3, <3>4, <3>5, SendStep DEF Next
    <2>2. CASE UNCHANGED vars
        <3>1. TypeOK' /\ PacketTypes' /\ LifeInv'
            BY <2>2 DEF vars, Inv, TypeOK, PacketTypes, LifeInv, Alive, Current
        <3>2. GrantInv' /\ ListenInv'
            BY <2>2 DEF vars, Inv, GrantInv, ListenInv
        <3>3. PlaceInv' /\ FetchedNotIgnored'
            BY <2>2 DEF vars, Inv, PlaceInv, FetchedNotIgnored
        <3>4. AuthenticatedIsGranted'
            BY <2>2 DEF vars, Inv, AuthenticatedIsGranted, Current
        <3> QED
            BY <3>1, <3>2, <3>3, <3>4 DEF Inv
    <2> QED
        BY <2>1, <2>2
<1> QED
    BY <1>1, InitInv, PTL DEF Spec

\* A tunnel never has two connections, nor a connection and a reconnect that
\* would make a second one; and it never rests without either, unless its first
\* connection ended before createTunnel had set the disconnected callback.
THEOREM TunnelHasOneLifeline == Spec => []OneLifeline
BY Invariance, LifeConsequences, PTL

\* On an open connection DomainTunnel.isAuthenticated is never a leftover.
THEOREM NoStaleAuthentication == Spec => []AuthenticatedIsGranted
<1>1. Inv => AuthenticatedIsGranted
    BY DEF Inv
<1> QED
    BY <1>1, Invariance, PTL

\* The order in which DomainService.init sets its callbacks keeps what a fetch
\* has taken out of the peer's database from being ignored.
THEOREM FetchedMessagesAreHandled == Spec => []FetchedNotIgnored
<1>1. Inv => FetchedNotIgnored
    BY DEF Inv
<1> QED
    BY <1>1, Invariance, PTL

\* Every variable of a tunnel's two ends stays in its range, and a listener or
\* a timer belongs to a connection that exists.
THEOREM TypesHold == Spec => []TypeOK
<1>1. Inv => TypeOK
    BY DEF Inv
<1> QED
    BY <1>1, Invariance, PTL
============================================================================
