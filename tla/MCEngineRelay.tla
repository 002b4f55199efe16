---------------------------- MODULE MCEngineRelay ----------------------------
(* Instances of EngineRelay for TLC. *)
EXTENDS EngineRelay, TLC

CONSTANTS b1, b2, u1, u2, c1, a1, a2, s1, s2, s3, noUrl, noSocket, noBot

\* Sockets, bots and addresses are interchangeable, in runs that check no
\* temporal property.
Symmetry ==
    Permutations(SocketIds) \cup Permutations(Bots) \cup Permutations(Urls)

=============================================================================
