------------------------------- MODULE Process -------------------------------
(***************************************************************************)
(* The process: main() and ImageAggregator::init() start the threads, a    *)
(* producer listens on each port, and the console ends it all.  What the   *)
(* threads share here is the process itself: the pointers init() hooks the *)
(* pools up with, the signal mask they inherit, and the descriptor table.  *)
(* The handlers are those of QueryPool and ReplyPool, as far as they open  *)
(* and close descriptors and may end the process.                          *)
(***************************************************************************)
EXTENDS Integers, Sequences, SequencesExt, FiniteSets

CONSTANTS
  Clients, Generators,
  QuThreads, IgThreads,  \* the consumer threads of the pools, in their arrays
  Limits,                \* the sizes the descriptor table may have
  MaxPending,            \* MAXPENDING
  DosLimit,              \* 20
  Images,                \* images_to_wait_for, the argument of the program
  MaxFailures,           \* bound: exchanges with the actuator that fail
  Inputs,                \* what may be typed at the console
  NULL

\* main() starts eight consumers for queries and one for replies; a thread has
\* one place in the order, and no other step of it has its name.
ASSUME ProcessAssumption ==
  /\ Clients \cap Generators = {} /\ NULL \notin Clients \cup Generators
  /\ IsFiniteSet(Clients) /\ IsFiniteSet(Generators)
  /\ QuThreads \in Seq(Range(QuThreads)) /\ IgThreads \in Seq(Range(IgThreads))
  /\ IsInjective(QuThreads) /\ Len(IgThreads) = 1
  /\ Range(QuThreads) \cap Range(IgThreads) = {}
  /\ (Range(QuThreads) \cup Range(IgThreads))
       \cap {"arguments", "mask", "hook", "query producer", "reply producer"} = {}
  /\ Limits \subseteq Nat /\ DosLimit \in Nat /\ Images \in Nat /\ MaxFailures \in Nat
  /\ MaxPending \in Nat \ {0}

VARIABLES
  process,    \* "up", or how it ended: "exited", "died", "killed" or "crashed"
  stage,      \* how far main() and init() are in StartOrder
  masked,     \* SIGPIPE is blocked in the main thread
  hooked,     \* the pools point to each other
  thread,     \* thread[t]: "none", "running", or "failed" to be created
  shielded,   \* the threads in which SIGPIPE is blocked
  listening,  \* the pools with a listening socket
  call,       \* call[c]: what has become of the call of c
  hand,       \* hand[t]: the caller the consumer thread t serves
  handler,    \* handler[t]: the function that does so
  exchange,   \* the query threads with a connection to the actuator
  file,       \* the image file is open
  leaked,     \* descriptors no variable holds any more
  limit,      \* RLIMIT_NOFILE
  input,      \* what is still to be read at the console
  c           \* the variable of the console loop

mainVars == <<stage, masked, hooked, thread, shielded, input, c>>
poolVars == <<listening, call, hand, handler, exchange, file, leaked>>
vars == <<process, mainVars, poolVars, limit>>

Callers == Clients \cup Generators
Pools == {"query", "reply"}
ProducerOf(p) == IF p = "query" THEN "query producer" ELSE "reply producer"
PoolOf(who) == IF who \in Clients THEN "query" ELSE "reply"
ConsumersOf(p) == Range(IF p = "query" THEN QuThreads ELSE IgThreads)
Consumers == Range(QuThreads) \cup Range(IgThreads)
Threads == Consumers \cup {ProducerOf(p) : p \in Pools}

Starting(order) ==
  order \o <<"query producer">> \o QuThreads \o <<"reply producer">> \o IgThreads

\* Mutant of StartOrder: the pools are hooked up once their threads run.
HookLast == Append(Starting(<<"arguments", "mask">>), "hook")

\* Mutant of StartOrder: the signal is masked once the threads run.
MaskLast == Append(Starting(<<"arguments", "hook">>), "mask")

\* What main() and ImageAggregator::init() do before the console loop.
StartOrder == Starting(<<"arguments", "mask", "hook">>)

Init ==
  /\ process = "up" /\ stage = 1
  /\ masked = FALSE /\ hooked = FALSE
  /\ thread = [t \in Threads |-> "none"] /\ shielded = {}
  /\ listening = {} /\ call = [who \in Callers |-> "away"]
  /\ hand = [t \in Consumers |-> NULL] /\ handler = [t \in Consumers |-> NULL]
  /\ exchange = {} /\ file = FALSE /\ leaked = 0
  /\ limit \in Limits
  /\ input \in Inputs
  /\ c \in {"q", "other"}  \* c is not initialised

-----------------------------------------------------------------------------
(* The descriptor table                                                    *)

\* Calls that hold a descriptor: with the producer, with the consumers, and
\* after them.
AtProducer == {"accepted", "admitted"}
Connected == AtProducer \cup {"queued", "served", "answering", "waiting", "pending", "left"}
Calls(state) == {who \in Callers : call[who] = state}

Used ==
  Cardinality(listening) + Cardinality({who \in Callers : call[who] \in Connected})
  + Cardinality(exchange) + (IF file THEN 1 ELSE 0) + leaked
Full == Used >= limit

-----------------------------------------------------------------------------
(* main() and ImageAggregator::init()                                      *)

Start(what) ==
  /\ process = "up" /\ stage \in DOMAIN StartOrder /\ StartOrder[stage] = what
  /\ stage' = stage + 1
  /\ UNCHANGED <<poolVars, limit, input, c>>

ReadArguments ==
  /\ Start("arguments")
  /\ process' \in {"up", "exited"}
  /\ UNCHANGED <<masked, hooked, thread, shielded>>

\* signal_mask_hand()
MaskPipe ==
  /\ Start("mask")
  /\ \/ masked' = TRUE /\ UNCHANGED process
     \/ process' = "exited" /\ UNCHANGED masked
  /\ UNCHANGED <<hooked, thread, shielded>>

HookPools ==
  /\ Start("hook")
  /\ hooked' = TRUE
  /\ UNCHANGED <<process, masked, thread, shielded>>

\* pthread_create() in init_threads(): a failure is only printed.
CreateThread(t) ==
  /\ Start(t)
  /\ \/ /\ thread' = [thread EXCEPT ![t] = "running"]
        /\ shielded' = IF masked THEN shielded \cup {t} ELSE shielded
     \/ thread' = [thread EXCEPT ![t] = "failed"] /\ UNCHANGED shielded
  /\ UNCHANGED <<process, masked, hooked>>

\* Mutant of Quits: a break that leaves only a switch, as in control_console().
QuitsSwitch == FALSE

Quits == c = "q"

\* while(c != 'q').  At the end of the input the loop spins.
Console ==
  /\ process = "up" /\ stage = Len(StartOrder) + 1 /\ c # "p"
  /\ \/ Quits /\ process' = "exited" /\ UNCHANGED <<input, c>>
     \/ /\ ~Quits /\ input # <<>>
        /\ c' = Head(input) /\ input' = Tail(input)
        /\ UNCHANGED process
  /\ UNCHANGED <<stage, masked, hooked, thread, shielded, poolVars, limit>>

\* print_object() returns.  It need not: RequestQueue shows how it can walk for
\* ever.
Printed ==
  /\ process = "up" /\ c = "p" /\ c' = "other"
  /\ UNCHANGED <<process, stage, masked, hooked, thread, shielded, input>>
  /\ UNCHANGED <<poolVars, limit>>

MainStep ==
  \/ ReadArguments \/ MaskPipe \/ HookPools \/ Console
  \/ \E t \in Threads : CreateThread(t)

-----------------------------------------------------------------------------
(* The producers                                                           *)

\* Mutant of Died: the producer goes on with the socket it has.
DiedNot == "up"

\* DieWithError()
Died == "died"

\* ContructTCPSocket()
Listen(p) ==
  /\ process = "up" /\ thread[ProducerOf(p)] = "running" /\ p \notin listening
  /\ \/ ~Full /\ listening' = listening \cup {p} /\ UNCHANGED process
     \/ process' = Died /\ UNCHANGED listening
  /\ UNCHANGED <<mainVars, call, hand, handler, exchange, file, leaked, limit>>

\* "NULL == query_pool" in the producer and in the consumer: the pointer of the
\* query pool stays null.
HandlerOf(p) == IF p = "reply" /\ hooked THEN "ig_pool_handle" ELSE "qu_pool_handle"

\* Mutant of TooMany: only the pending replies are counted.
TooManyPending == Cardinality(Calls("answering") \cup Calls("waiting")) > DosLimit

\* The replies on the incoming or on the pending queue are over the limit.
TooMany ==
  \/ Cardinality(Calls("queued") \cap Generators) > DosLimit
  \/ Cardinality(Calls("answering") \cup Calls("waiting")) > DosLimit

Accepting(p) ==
  /\ process = "up" /\ p \in listening
  /\ \A who \in Callers : PoolOf(who) = p => call[who] \notin AtProducer

\* AcceptConnection(): the connection has its descriptor before anything is
\* tested.
Accept(who) ==
  /\ Accepting(PoolOf(who)) /\ call[who] = "calling" /\ ~Full
  /\ call' = [call EXCEPT ![who] = "accepted"]
  /\ UNCHANGED <<process, mainVars, listening, hand, handler, exchange, file, leaked, limit>>

\* A query is never refused; a reply is, and its connection closed, when there
\* are too many.
Admit(who) ==
  LET refused == HandlerOf(PoolOf(who)) = "ig_pool_handle" /\ TooMany IN
  /\ process = "up" /\ call[who] = "accepted"
  /\ call' = [call EXCEPT ![who] = IF refused THEN "away" ELSE "admitted"]
  /\ UNCHANGED <<process, mainVars, listening, hand, handler, exchange, file, leaked, limit>>

\* incoming_queue->qAdd(request)
Enqueue(who) ==
  /\ process = "up" /\ call[who] = "admitted"
  /\ call' = [call EXCEPT ![who] = "queued"]
  /\ UNCHANGED <<process, mainVars, listening, hand, handler, exchange, file, leaked, limit>>

\* Mutant of AcceptFailed: DieWithError("accept() failed")
AcceptFailedDies == "died"

\* AcceptConnection() returns -1, and the producer ignores that.
AcceptFailed == "up"

\* The caller hangs up before it is accepted.  When accept() fails because the
\* table is full, the call stays and the producer tries again.
AcceptFails(who) ==
  /\ Accepting(PoolOf(who)) /\ call[who] = "calling"
  /\ call' = [call EXCEPT ![who] = "away"]
  /\ process' = AcceptFailed
  /\ UNCHANGED <<mainVars, listening, hand, handler, exchange, file, leaked, limit>>

-----------------------------------------------------------------------------
(* The consumers                                                           *)

Serves(t, how) == process = "up" /\ hand[t] # NULL /\ handler[t] = how

\* Mutant of Removed: the request stays on the queue.
NotRemoved == "queued"

\* qRemove(): the request is off the queue.
Removed == "served"

\* The request is dispatched; ig_pool_handle creates the image file, which fails
\* unnoticed when the table is full.
Take(t, who) ==
  /\ process = "up" /\ thread[t] = "running" /\ hand[t] = NULL
  /\ t \in ConsumersOf(PoolOf(who)) /\ call[who] = "queued"
  /\ call' = [call EXCEPT ![who] = Removed]
  /\ hand' = [hand EXCEPT ![t] = who]
  /\ handler' = [handler EXCEPT ![t] = HandlerOf(PoolOf(who))]
  /\ file' = IF HandlerOf(PoolOf(who)) = "ig_pool_handle" THEN ~Full ELSE file
  /\ UNCHANGED <<process, mainVars, listening, exchange, leaked, limit>>

\* xml_recv_query(): a query that is cut short, or that does not fit, has no
\* delimiter, and what strstr() returned is written to.
QuCutShort(t) ==
  /\ Serves(t, "qu_pool_handle") /\ t \notin exchange
  /\ process' = "crashed"
  /\ UNCHANGED <<mainVars, poolVars, limit>>

\* ClientConnect() has a descriptor, or socket() fails and the query is left on
\* the pending queue.
QuConnect(t) ==
  /\ Serves(t, "qu_pool_handle") /\ t \notin exchange
  /\ IF Full
     THEN /\ call' = [call EXCEPT ![hand[t]] = "pending"]
          /\ hand' = [hand EXCEPT ![t] = NULL]
          /\ UNCHANGED exchange
     ELSE exchange' = exchange \cup {t} /\ UNCHANGED <<call, hand>>
  /\ UNCHANGED <<process, mainVars, listening, handler, file, leaked, limit>>

\* Mutant of Answered: the connection is not closed.
AnsweredOnly == leaked + 1

\* The actuator's answer came: its connection is closed.
Answered == leaked

\* The exchange is over.  When it fails, because connect() does or because
\* nothing came back, the descriptor stays open; when the actuator hangs up
\* while the query is sent, there is a SIGPIPE too.
QuExchanged(t) ==
  /\ Serves(t, "qu_pool_handle") /\ t \in exchange
  /\ exchange' = exchange \ {t}
  /\ call' = [call EXCEPT ![hand[t]] = "pending"]
  /\ hand' = [hand EXCEPT ![t] = NULL]
  /\ \/ leaked' = Answered /\ UNCHANGED process
     \/ leaked < MaxFailures /\ leaked' = leaked + 1 /\ UNCHANGED process
     \/ /\ leaked < MaxFailures /\ leaked' = leaked + 1
        /\ process' = IF t \in shielded THEN "up" ELSE "killed"
  /\ UNCHANGED <<mainVars, listening, handler, file, limit>>

\* A round starts once there are as many pending replies.
RoundDue(replies) == replies >= Images

\* The generator has closed: its reply is put on the pending queue, where it
\* waits for the next round unless it starts one.
IgReceived(t) ==
  /\ Serves(t, "ig_pool_handle") /\ call[hand[t]] = "served"
  /\ IF RoundDue(Cardinality(Calls("waiting")) + 1)
     THEN call' = [call EXCEPT ![hand[t]] = "answering"] /\ UNCHANGED hand
     ELSE /\ call' = [call EXCEPT ![hand[t]] = "waiting"]
          /\ hand' = [hand EXCEPT ![t] = NULL]
  /\ file' = FALSE
  /\ UNCHANGED <<process, mainVars, listening, handler, exchange, leaked, limit>>

\* The queries a round answers.
Pending == Calls("pending") \cup Calls("left")
Answering(t) == Serves(t, "ig_pool_handle") /\ call[hand[t]] = "answering" /\ Pending # {}

\* The tags of one of the pending replies hold a closing tag alone.
IgTagsClosed(t) ==
  /\ Answering(t)
  /\ process' = "crashed"
  /\ UNCHANGED <<mainVars, poolVars, limit>>

\* One response, with the image read back through the descriptor its file has
\* left.  A client that has gone is a SIGPIPE, and is dropped.  Without more
\* pending queries the round is over and all the pending replies are cleaned out.
IgRespond(t, client) ==
  LET dropped == [call EXCEPT ![client] = IF @ = "left" THEN "away" ELSE @] IN
  /\ Answering(t) /\ client \in Pending
  /\ process' = IF call[client] = "left" /\ t \notin shielded THEN "killed" ELSE "up"
  /\ IF Pending = {client}
     THEN /\ call' = [who \in Callers |->
                        IF call[who] = "waiting" \/ who = hand[t] THEN "away" ELSE dropped[who]]
          /\ hand' = [hand EXCEPT ![t] = NULL]
     ELSE call' = dropped /\ UNCHANGED hand
  /\ UNCHANGED <<mainVars, listening, handler, exchange, file, leaked, limit>>

-----------------------------------------------------------------------------
(* The callers                                                             *)

Call(who) ==
  /\ process = "up" /\ PoolOf(who) \in listening /\ call[who] = "away"
  /\ Cardinality({other \in Calls("calling") : PoolOf(other) = PoolOf(who)}) < MaxPending
  /\ call' = [call EXCEPT ![who] = "calling"]
  /\ UNCHANGED <<process, mainVars, listening, hand, handler, exchange, file, leaked, limit>>

Leave(client) ==
  /\ process = "up" /\ call[client] = "pending"
  /\ call' = [call EXCEPT ![client] = "left"]
  /\ UNCHANGED <<process, mainVars, listening, hand, handler, exchange, file, leaked, limit>>

-----------------------------------------------------------------------------

Next ==
  \/ MainStep \/ Printed
  \/ \E p \in Pools : Listen(p)
  \/ \E who \in Callers :
       Accept(who) \/ Admit(who) \/ Enqueue(who) \/ AcceptFails(who) \/ Call(who)
  \/ \E t \in Consumers :
       \/ \E who \in Callers : Take(t, who)
       \/ QuCutShort(t) \/ QuConnect(t) \/ QuExchanged(t)
       \/ IgReceived(t) \/ IgTagsClosed(t)
       \/ \E client \in Clients : IgRespond(t, client)
  \/ \E client \in Clients : Leave(client)

\* The main thread and the producers run, and the kernel hands over calls in the
\* order they came.  A producer waits in qAdd() for as long as an inspection holds
\* the queue.  Nothing is assumed of the consumers, of the peers and of the
\* inspections.
Fairness ==
  /\ WF_vars(MainStep)
  /\ \A p \in Pools : WF_vars(Listen(p))
  /\ \A who \in Callers :
       SF_vars(Accept(who)) /\ WF_vars(Admit(who)) /\ WF_vars(c # "p" /\ Enqueue(who))

Spec == Init /\ [][Next]_vars
FairSpec == Spec /\ Fairness

-----------------------------------------------------------------------------
(* Properties                                                              *)

\* Every variable but those of the console has its type, the table is not
\* overrun, and what a consumer thread has in hand is off its queue and in no
\* other hand.
TypeOK ==
  /\ process \in {"up", "exited", "died", "killed", "crashed"}
  /\ stage \in 1..(Len(StartOrder) + 1)
  /\ masked \in BOOLEAN /\ hooked \in BOOLEAN
  /\ thread \in [Threads -> {"none", "running", "failed"}]
  /\ shielded \subseteq Threads /\ listening \subseteq Pools
  /\ call \in [Callers -> Connected \cup {"away", "calling"}]
  /\ hand \in [Consumers -> Callers \cup {NULL}]
  /\ handler \in [Consumers -> {NULL, "qu_pool_handle", "ig_pool_handle"}]
  /\ \A t \in Consumers : hand[t] # NULL => call[hand[t]] \in {"served", "answering"}
  /\ \A t, u \in Consumers : t # u /\ hand[t] # NULL => hand[t] # hand[u]
  /\ exchange \subseteq {t \in Consumers : hand[t] # NULL}
  /\ file \in BOOLEAN /\ leaked \in Nat /\ limit \in Limits /\ Used <= limit

\* Whatever a thread finds when it starts before the others, a client's call is
\* served by qu_pool_handle and a generator's by ig_pool_handle.
RightHandler ==
  \A t \in Consumers : hand[t] # NULL =>
    handler[t] = IF hand[t] \in Clients THEN "qu_pool_handle" ELSE "ig_pool_handle"

\* No call that fails ends the process once both ports are listened on: a send to
\* a peer that is gone leaves the signal blocked, since each thread was created by
\* one that had masked it, and an accept(), socket() or connect() that fails is
\* not answered by dying.  What a peer sends, or does not send, ends it all the
\* same: QuCutShort and IgTagsClosed.
SurvivesFailedCalls == process # "killed" /\ (process = "died" => listening # Pools)

\* A port whose producer was created is listened on, or the process ends: it is
\* never up and deaf.
PortsServed ==
  \A p \in Pools : (thread[ProducerOf(p)] = "running") ~> (p \in listening \/ process # "up")

\* The most descriptors the program holds at a time: its ports; its clients and
\* their exchanges, with the failed ones; the replies, as many as the limit on
\* each of the two queues, one more that was admitted, the one being served and
\* one that is accepted only to be refused; an image; and one to spare.
Enough ==
  Cardinality(Pools) + Cardinality(Clients) + Len(QuThreads) + MaxFailures
  + (2 * DosLimit + 3) + 1 + 1

\* A table of that size is never full, however many replies a round waits for: no
\* accept(), socket() or open() of the program fails for want of a descriptor,
\* whoever calls and leaves, as long as no more than MaxFailures exchanges leave
\* theirs behind.
TableHasRoom == limit >= Enough => ~Full

\* With as many descriptors as that every call is accepted, even if no handler
\* ever ends: generators that keep calling cannot keep clients out.  Only an
\* inspection, which holds a queue, can.
EveryCallAccepted ==
  \A who \in Callers :
    (call[who] = "calling" /\ limit >= Enough)
      ~> (call[who] # "calling" \/ process # "up" \/ c = "p")

\* With as many, no image is lost because its file could not be created: who
\* serves a generator has the file open.
NoImageLost ==
  limit >= Enough /\ (\E t \in Range(IgThreads) : hand[t] # NULL /\ call[hand[t]] = "served") => file

\* A q that comes next at the console ends the process; while print_object() has
\* not returned it does not come next.
QuitEnds ==
  LET next == c = "q" \/ (c # "p" /\ input # <<>> /\ Head(input) = "q") IN
  (stage = Len(StartOrder) + 1 /\ next) ~> (process # "up")

-----------------------------------------------------------------------------
(* The inductive invariant: what the safety properties rest on.            *)

\* No thread runs before the signal is masked and the pools are hooked up, so
\* each has what it needs from the start.
StartedInOrder ==
  /\ process = "up" /\ stage > 2 => masked
  /\ stage > 3 => hooked
  /\ \A t \in Threads : thread[t] = "running" => hooked /\ t \in shielded
  /\ \A k \in DOMAIN StartOrder : k >= stage /\ StartOrder[k] \in Threads =>
       thread[StartOrder[k]] = "none"
  /\ \A p \in listening : thread[ProducerOf(p)] = "running"

\* Who is served is in the hand of a thread of the right pool that runs.
ServedByPool ==
  /\ \A t \in Consumers : hand[t] # NULL =>
       thread[t] = "running" /\ t \in ConsumersOf(PoolOf(hand[t]))
  /\ \A who \in Callers : call[who] \in {"served", "answering"} =>
       \E t \in Consumers : hand[t] = who
  /\ \A g \in Generators : call[g] \notin {"pending", "left"}

\* A producer, which runs, has one call at a time.
OneAtProducer ==
  /\ \A who \in Callers : call[who] \in AtProducer => thread[ProducerOf(PoolOf(who))] = "running"
  /\ \A who, other \in Callers :
       call[who] \in AtProducer /\ call[other] \in AtProducer /\ PoolOf(who) = PoolOf(other)
         => who = other

\* Replies the producer has tested, until their connections are closed.
Tested == {g \in Generators : call[g] \in Connected \ {"accepted"}}

\* What holds descriptors for long is bounded.  Each queue is within the limit
\* when a reply is admitted, but what it meets there may move on from one queue to
\* the other, so that only the sum is bounded.
FewHeld ==
  /\ exchange \subseteq Range(QuThreads)
  /\ Cardinality(Tested) <= 2 * DosLimit + 2
  /\ leaked <= MaxFailures

IndInv ==
  /\ TypeOK /\ StartedInOrder /\ ServedByPool /\ OneAtProducer /\ FewHeld
  /\ RightHandler /\ SurvivesFailedCalls /\ NoImageLost

=============================================================================
