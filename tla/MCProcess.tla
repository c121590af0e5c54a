------------------------------ MODULE MCProcess ------------------------------
(***************************************************************************)
(* The instances of Process for TLC: a table that is just large enough,    *)
(* and one that is not.                                                    *)
(***************************************************************************)
EXTENDS Process, TLC

CONSTANTS u1, u2, g1, g2, g3, g4, q1, r1

OneClient == {u1}
TwoClients == {u1, u2}
TwoGenerators == {g1, g2}
FourGenerators == {g1, g2, g3, g4}
OneQuThread == <<q1>>
OneIgThread == <<r1>>
Typed == {<<>>, <<"p", "q">>}
Untyped == {<<>>}
TightAndEnough == {3, Enough}
SmallAndEnough == {5, Enough}

AnyCaller == Permutations(TwoClients) \cup Permutations(FourGenerators)

=============================================================================
