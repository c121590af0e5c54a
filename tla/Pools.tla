-------------------------------- MODULE Pools --------------------------------
(***************************************************************************)
(* What the two thread pools of the ImageAggregator share, and the peers   *)
(* at the other end of their sockets.                                      *)
(*                                                                         *)
(* A request is named by the connection it came from: a client that sends  *)
(* one query, or an image generator that sends one reply.  An              *)
(* IARequestQueue is a sequence whose operations are atomic steps, which   *)
(* is what module RequestQueue shows of the class; a step of qAdd or       *)
(* qRemove needs the mutex of its queue to be free.                        *)
(***************************************************************************)
EXTENDS Integers, Sequences, FiniteSets, SequencesExt

CONSTANTS
  Clients,          \* connections of the query port
  Generators,       \* connections of the reply port
  MayLeave,         \* the clients that may hang up or break
  Oversized,        \* the clients whose query does not fit in the receive buffer
  QuThreads,        \* consumer threads of the query pool
  IgThreads,        \* consumer threads of the reply pool
  NULL,             \* no request, no thread, no image
  GarbageHolder,    \* the value of a mutex whose uninitialised bytes read "locked"
  PoolMutexStates,  \* what the bytes of pool_mutex, never initialised, can be
  DosLimit,         \* the 20 of "size() > 20"
  Images,           \* images_to_wait_for, the last argument of the program
  UIntSize          \* bound: the number of values of an unsigned int

Peers == Clients \cup Generators

\* size() is unsigned: a negative argument becomes a large threshold.
ImagesToWaitFor == Images % UIntSize

ASSUME PoolsAssumption ==
  /\ Clients \cap Generators = {}
  /\ MayLeave \subseteq Clients /\ Oversized \subseteq Clients
  /\ QuThreads \cap IgThreads = {}
  /\ NULL \notin Peers \cup QuThreads \cup IgThreads
  /\ GarbageHolder \notin IgThreads \cup {NULL}
  /\ PoolMutexStates \subseteq {NULL, GarbageHolder}
  /\ IsFiniteSet(Peers) /\ IsFiniteSet(QuThreads) /\ IsFiniteSet(IgThreads)
  /\ DosLimit \in Nat
  /\ Images \in Int /\ UIntSize \in Nat \ {0}

VARIABLES
  peer,        \* peer[x]: the far end of connection x
  asked,       \* the clients whose whole query, with its </UserQuery>, has arrived,
               \* or as much of it as the buffer holds
  sock,        \* sock[x]: the descriptor the program has for connection x
  quIn,        \* _query_pool->incoming_queue
  quPend,      \* _query_pool->pending_queue
  quPendLock,  \* who holds the mutex of quPend across several steps
  crashed      \* the process died on an invalid pointer

peerVars == <<peer, asked>>
quQueues == <<quIn, quPend, quPendLock>>
sharedVars == <<peerVars, sock, quQueues, crashed>>

SharedTypeOK ==
  /\ peer \in [Peers -> {"away", "up", "gone", "reset"}]
  /\ asked \in SUBSET Clients
  /\ sock \in [Peers -> {"none", "open", "closed"}]
  /\ quIn \in Seq(Clients)
  /\ quPend \in Seq(Clients)
  /\ quPendLock \in IgThreads \cup {NULL}
  /\ crashed \in BOOLEAN

SharedInit ==
  /\ peer = [x \in Peers |-> "away"]
  /\ asked = {}
  /\ sock = [x \in Peers |-> "none"]
  /\ quIn = <<>>
  /\ quPend = <<>>
  /\ quPendLock = NULL
  /\ crashed = FALSE


\* Mutant of Close: the descriptor stays open.
CloseNothing(x) == UNCHANGED sock

\* close(request->socket)
Close(x) == sock' = [sock EXCEPT ![x] = "closed"]

-----------------------------------------------------------------------------
(* The peers.  "gone" is an orderly close: what was sent can still be read *)
(* and the first sends still succeed.  "reset" is a broken connection:     *)
(* every send fails.                                                       *)

peerRest == <<sock, quQueues, crashed>>

\* A peer connects; the kernel completes the handshake before accept().
Call(x) ==
  /\ peer[x] = "away"
  /\ peer' = [peer EXCEPT ![x] = "up"]
  /\ UNCHANGED <<asked, peerRest>>

\* The last byte of a client's query arrives.
Ask(c) ==
  /\ peer[c] = "up"
  /\ c \notin asked
  /\ asked' = asked \cup {c}
  /\ UNCHANGED <<peer, peerRest>>

\* A client leaves; a generator closes the connection at the end of its image.
HangUp(x) ==
  /\ x \in MayLeave \cup Generators
  /\ peer[x] = "up"
  /\ peer' = [peer EXCEPT ![x] = "gone"]
  /\ UNCHANGED <<asked, peerRest>>

\* The connection breaks, or the peer answers data sent after its close.
Break(x) ==
  /\ x \in MayLeave \cup Generators
  /\ peer[x] \in {"up", "gone"}
  /\ peer' = [peer EXCEPT ![x] = "reset"]
  /\ UNCHANGED <<asked, peerRest>>

PeerStep ==
  \/ \E x \in Peers : Call(x) \/ HangUp(x) \/ Break(x)
  \/ \E c \in Clients : Ask(c)

=============================================================================
