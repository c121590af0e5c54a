---------------------------- MODULE QueryExchange ----------------------------
(***************************************************************************)
(* That the handler of module Exchanges does on its connections what       *)
(* module QueryPool says: the query pool with one client and one thread,   *)
(* which has taken the request of that client already.                     *)
(***************************************************************************)
EXTENDS Exchanges

poolPeer == [c \in {"client"} |-> end[c]]
poolAsked == IF Asked THEN {"client"} ELSE {}
poolSock == [c \in {"client"} |-> "open"]
poolPend == IF quPc = "done" THEN <<"client">> ELSE <<>>
poolCur == [t \in {"thread"} |-> IF quPc = "done" THEN NULL ELSE "client"]
poolActuator == [c \in {"client"} |-> actuator]

\* A death of ig_pool_handle is none of the query pool's steps.
poolCrashed == crashed /\ quPc = "recv"

\* The two sends belong to the step that waits for the answer.
poolPc ==
  [t \in {"thread"} |->
     CASE quPc \in {"send", "send_zero"} -> "await"
       [] quPc = "done" -> "take"
       [] OTHER -> quPc]

\* The pool of a client whose query fits in the buffer, and of one whose does not.
Fitting == INSTANCE QueryPool WITH
  Clients <- {"client"}, Generators <- {}, MayLeave <- {"client"}, Oversized <- {},
  QuThreads <- {"thread"}, IgThreads <- {}, GarbageHolder <- "garbage", PoolMutexStates <- {},
  DosLimit <- 0, Images <- 0, UIntSize <- 1,
  peer <- poolPeer, asked <- poolAsked, sock <- poolSock,
  quIn <- <<>>, quPend <- poolPend, quPendLock <- NULL,
  quPc <- poolPc, quCur <- poolCur, actuator <- poolActuator,
  crashed <- poolCrashed
Overflowing == INSTANCE QueryPool WITH
  Clients <- {"client"}, Generators <- {}, MayLeave <- {"client"}, Oversized <- {"client"},
  QuThreads <- {"thread"}, IgThreads <- {}, GarbageHolder <- "garbage", PoolMutexStates <- {},
  DosLimit <- 0, Images <- 0, UIntSize <- 1,
  peer <- poolPeer, asked <- poolAsked, sock <- poolSock,
  quIn <- <<>>, quPend <- poolPend, quPendLock <- NULL,
  quPc <- poolPc, quCur <- poolCur, actuator <- poolActuator,
  crashed <- poolCrashed

FittingStep ==
  \/ Fitting!QueryPoolStep
  \/ Fitting!PeerStep /\ UNCHANGED Fitting!queryVars
  \/ UNCHANGED <<Fitting!sharedVars, Fitting!queryVars>>

OverflowingStep ==
  \/ Overflowing!QueryPoolStep
  \/ Overflowing!PeerStep /\ UNCHANGED Overflowing!queryVars
  \/ UNCHANGED <<Overflowing!sharedVars, Overflowing!queryVars>>

\* However the query is cut into pieces, the handler does what one of the steps
\* of QueryPool does: a query that fits is received once all of it has arrived,
\* and the process dies only for a client that leaves before that or a query
\* that does not fit.
ImplementsQueryPool == [][IF Readable THEN FittingStep ELSE OverflowingStep]_vars

=============================================================================
