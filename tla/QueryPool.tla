------------------------------ MODULE QueryPool ------------------------------
(***************************************************************************)
(* The query pool: its producer accepts clients, its consumers receive the *)
(* query, forward it to the actuator and leave it on the pending queue     *)
(* (IAThreadPool::producer, consumer and qu_pool_handle).                  *)
(***************************************************************************)
EXTENDS Pools

VARIABLES
  quPc,     \* quPc[t]: where consumer t is
  quCur,    \* quCur[t]: its current_query, NULL if none
  actuator  \* actuator[c]: the descriptor to the actuator opened for query c

queryVars == <<quPc, quCur, actuator>>

QueryTypeOK ==
  /\ quPc \in [QuThreads -> {"take", "recv", "connect", "await", "pend"}]
  /\ quCur \in [QuThreads -> Clients \cup {NULL}]
  /\ actuator \in [Clients -> {"none", "open", "closed"}]

QueryInit ==
  /\ quPc = [t \in QuThreads |-> "take"]
  /\ quCur = [t \in QuThreads |-> NULL]
  /\ actuator = [c \in Clients |-> "none"]

QuGoto(t, from, to) ==
  /\ quPc[t] = from
  /\ quPc' = [quPc EXCEPT ![t] = to]

\* The producer accepts a connection and adds a QUERY request.
QuAccept(c) ==
  /\ peer[c] # "away"
  /\ sock[c] = "none"
  /\ sock' = [sock EXCEPT ![c] = "open"]
  /\ quIn' = Append(quIn, c)
  /\ UNCHANGED <<peerVars, quPend, quPendLock, crashed, queryVars>>

\* incoming_queue->qRemove(-1)
QuTake(t) ==
  /\ QuGoto(t, "take", "recv")
  /\ quIn # <<>>
  /\ quCur' = [quCur EXCEPT ![t] = Head(quIn)]
  /\ quIn' = Tail(quIn)
  /\ UNCHANGED <<peerVars, sock, quPend, quPendLock, crashed, actuator>>

\* xml_recv_query finds the end of the query in what it received; of a query
\* that ends where the buffer does this depends on how it arrives.
QuReceive(t) ==
  /\ QuGoto(t, "recv", "connect")
  /\ quCur[t] \in asked
  /\ UNCHANGED <<sharedVars, quCur, actuator>>

\* The connection ends before the whole query was read, or the buffer is full:
\* xml_recv_query does not find its delimiter and writes through the null
\* pointer strstr returned, so the "Broken Connection" branch is never reached.
QuReceiveBroken(t) ==
  /\ quPc[t] = "recv"
  /\ \/ peer[quCur[t]] = "gone" /\ quCur[t] \notin asked
     \/ peer[quCur[t]] = "reset"
     \/ quCur[t] \in asked \cap Oversized
  /\ crashed' = TRUE
  /\ UNCHANGED <<peerVars, sock, quQueues, queryVars>>

\* ClientConnect reaches the actuator, and the query is sent to it.
QuForward(t) ==
  /\ QuGoto(t, "connect", "await")
  /\ actuator' = [actuator EXCEPT ![quCur[t]] = "open"]
  /\ UNCHANGED <<sharedVars, quCur>>

\* ClientConnect fails: without a socket, or with one it does not close.
QuForwardFails(t) ==
  /\ QuGoto(t, "connect", "pend")
  /\ \E s \in {"none", "open"} :
       actuator' = [actuator EXCEPT ![quCur[t]] = s]
  /\ UNCHANGED <<sharedVars, quCur>>

\* The actuator answers and its socket is closed, or the connection ends
\* without an answer and the socket stays open.
QuAnswered(t) ==
  /\ QuGoto(t, "await", "pend")
  /\ \E s \in {"closed", "open"} :
       actuator' = [actuator EXCEPT ![quCur[t]] = s]
  /\ UNCHANGED <<sharedVars, quCur>>

\* pending_queue->qAdd(current_query), and back to the loop of consumer().
QuPending(t) ==
  /\ QuGoto(t, "pend", "take")
  /\ quPendLock = NULL
  /\ quPend' = Append(quPend, quCur[t])
  /\ quCur' = [quCur EXCEPT ![t] = NULL]
  /\ UNCHANGED <<peerVars, sock, quIn, quPendLock, crashed, actuator>>

QuConsumer(t) ==
  \/ QuTake(t) \/ QuReceive(t) \/ QuReceiveBroken(t) \/ QuForward(t)
  \/ QuForwardFails(t) \/ QuAnswered(t) \/ QuPending(t)

QuProducer == \E c \in Clients : QuAccept(c)

QueryPoolStep == QuProducer \/ \E t \in QuThreads : QuConsumer(t)

=============================================================================
