---------------------------- MODULE MCRequestQueue ----------------------------
(***************************************************************************)
(* Instances of RequestQueue for TLC: the two ways the program uses the    *)
(* class.  An incoming queue has one producer that adds new requests       *)
(* (requestID -1).  The pending queue of the query pool gets requests that *)
(* already have an ID from several threads, and one consumer, the reply    *)
(* thread, puts requests back.                                             *)
(***************************************************************************)
EXTENDS RequestQueue, TLC

CONSTANTS p1, p2, c1, c2, main, n1, n2, n3

OneProducer == {p1}
TwoProducers == {p1, p2}
OneConsumer == {c1}
TwoConsumers == {c1, c2}
Nobody == {}
OneInspector == {main}
TwoNodes == {n1, n2}
ThreeNodes == {n1, n2, n3}

\* Addresses are alike, and so are the threads that add.
Alike == Permutations(ThreeNodes) \cup Permutations(TwoProducers)

\* The producer of a pool sets request->requestID = -1.
NewIDs == {Unassigned}

\* A query that moves to the pending queue was numbered by the incoming one.
AssignedIDs == {7}

=============================================================================
