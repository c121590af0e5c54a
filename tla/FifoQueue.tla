------------------------------ MODULE FifoQueue ------------------------------
(***************************************************************************)
(* What class IARequestQueue promises to the threads that share it: "a     *)
(* true queue", elements "added to the queue at the tail, and removes at   *)
(* the head", accessed atomically (IARequestQueue.h).  A request is always *)
(* in one place: in the hand of one thread, in the queue, or not allocated *)
(* at all.  Each operation is one atomic step.                             *)
(*                                                                         *)
(* RequestQueue implements this module with a circular linked list, a      *)
(* mutex and a condition variable; ImageAggregator relies on it.           *)
(***************************************************************************)
EXTENDS Sequences, SequencesExt

CONSTANTS
  Threads,   \* the threads that share the queue
  Requests,  \* the IA_Request objects
  NoRequest  \* the value of an empty hand

VARIABLES
  queue,  \* the queued requests, the head first
  hand    \* hand[t]: the request thread t owns, NoRequest if none

fifoVars == <<queue, hand>>

FifoTypeOK ==
  /\ queue \in Seq(Requests)
  /\ hand \in [Threads -> Requests \cup {NoRequest}]

\* The requests some thread owns.
Held == {hand[t] : t \in Threads} \ {NoRequest}

FifoInit ==
  /\ queue = <<>>
  /\ hand = [t \in Threads |-> NoRequest]

\* Thread t allocates a request, or receives one from elsewhere.
Acquire(t, r) ==
  /\ hand[t] = NoRequest
  /\ r \notin Held \cup ToSet(queue)
  /\ hand' = [hand EXCEPT ![t] = r]
  /\ UNCHANGED queue

\* qAdd: the request goes from the hand of t to the tail.
Enqueue(t) ==
  /\ hand[t] # NoRequest
  /\ queue' = Append(queue, hand[t])
  /\ hand' = [hand EXCEPT ![t] = NoRequest]

\* qRemove(-1): the head goes to the hand of t; blocks while there is none.
Dequeue(t) ==
  /\ hand[t] = NoRequest
  /\ queue # <<>>
  /\ hand' = [hand EXCEPT ![t] = Head(queue)]
  /\ queue' = Tail(queue)

\* Thread t deletes its request, or passes it on elsewhere.
Discard(t) ==
  /\ hand[t] # NoRequest
  /\ hand' = [hand EXCEPT ![t] = NoRequest]
  /\ UNCHANGED queue

FifoNext ==
  \E t \in Threads :
    \/ \E r \in Requests : Acquire(t, r)
    \/ Enqueue(t)
    \/ Dequeue(t)
    \/ Discard(t)

FifoSpec == FifoInit /\ [][FifoNext]_fifoVars

=============================================================================
