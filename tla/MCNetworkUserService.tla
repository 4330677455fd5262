------------------------ MODULE MCNetworkUserService ------------------------
(* Two sockets of two users on one connector.                               *)
EXTENDS NetworkUserService, TLC

\* Sockets do the same things, and so do users.
RegistrySymmetry == Permutations(Handler) \cup Permutations(User)

\* Operations overlap on one entry; entries do not touch each other.
OneEntrySpoiled == \A c, d \in spoiled : c = d
=============================================================================
