-------------------------- MODULE MCImageAggregator --------------------------
(***************************************************************************)
(* Instances of ImageAggregator for TLC: one or two clients, two or four   *)
(* image generators, one or two consumers of replies.                      *)
(***************************************************************************)
EXTENDS ImageAggregator, TLC

CONSTANTS u1, u2, g1, g2, g3, g4, q1, r1, r2

NoClients == {}
NoGenerators == {}
OneClient == {u1}
TwoClients == {u1, u2}
TwoGenerators == {g1, g2}
FourGenerators == {g1, g2, g3, g4}
OneQuThread == {q1}
OneIgThread == {r1}
TwoIgThreads == {r1, r2}

\* The last argument of the program.
OneImage == 1
TwoImages == 2

\* The bytes of pool_mutex as new leaves them: zero, or anything.
ZeroMemory == {NULL}
AnyMemory == {NULL, GarbageHolder}

\* Peers of one kind are alike, and so are the threads of one pool.
Alike == Permutations(TwoClients) \cup Permutations(FourGenerators)
RepliesAlike == Permutations(TwoGenerators) \cup Permutations(TwoIgThreads)

=============================================================================
