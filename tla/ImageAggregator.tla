--------------------------- MODULE ImageAggregator ---------------------------
(***************************************************************************)
(* The running program: the query pool and the reply pool, which share the *)
(* pending queries, and the peers at the other ends of the connections     *)
(* (ImageAggregator::init starts the pools).                               *)
(***************************************************************************)
EXTENDS QueryPool, ReplyPool

vars == <<sharedVars, queryVars, replyVars>>

Init == SharedInit /\ QueryInit /\ ReplyInit

\* Each thread of the process runs until the process dies.
Running == ~crashed

Peer(A) == Running /\ A /\ UNCHANGED <<queryVars, replyVars>>
Query(A) == Running /\ A /\ UNCHANGED replyVars
Reply(A) == Running /\ A /\ UNCHANGED queryVars

Next == Peer(PeerStep) \/ Query(QueryPoolStep) \/ Reply(ReplyPoolStep)

Spec == Init /\ [][Next]_vars

-----------------------------------------------------------------------------
(* Fairness.  A thread that can step does, in the end.  The peers that     *)
(* matter to the liveness properties connect, finish what they send, and   *)
(* generators close: without them nothing has to happen.                   *)

ThreadFairness ==
  /\ WF_vars(Query(QuProducer))
  /\ WF_vars(Reply(IgProducer))
  /\ \A t \in QuThreads : WF_vars(Query(QuConsumer(t)))
  /\ \A i \in IgThreads : WF_vars(Reply(IgConsumer(i)))

PeerFairness ==
  /\ \A x \in Peers : WF_vars(Peer(Call(x)))
  /\ \A c \in Clients : WF_vars(Peer(Ask(c)))
  /\ \A g \in Generators : WF_vars(Peer(HangUp(g)))

FairSpec == Spec /\ ThreadFairness /\ PeerFairness

-----------------------------------------------------------------------------
(* Safety                                                                  *)

\* Every variable has its type.
TypeOK == SharedTypeOK /\ QueryTypeOK /\ ReplyTypeOK

\* How many places hold request x: a count of its occurrences in the queues
\* and in the local variables of the threads that own what they name.
Occurrences(x, s) == Cardinality({k \in DOMAIN s : s[k] = x})
QueryOwners(c) ==
  Occurrences(c, quIn) + Occurrences(c, quPend)
    + Cardinality({t \in QuThreads : quCur[t] = c})
    + Cardinality({i \in IgThreads : ig[i].query = c})
ReplyOwners(g) ==
  Occurrences(g, igIn) + Occurrences(g, igPend) + (IF accepted = g THEN 1 ELSE 0)
    + Cardinality({i \in IgThreads : ig[i].cur = g /\ ig[i].pc \in {"lock", "receive", "pend"}})

\* A connection that is open belongs to one thread or one queue, so that it is
\* closed and its request deleted once; a closed one belongs to none, so that
\* nothing uses a deleted request or a descriptor given to another connection.
EveryConnectionOwned ==
  /\ \A c \in Clients : QueryOwners(c) = (IF sock[c] = "open" THEN 1 ELSE 0)
  /\ \A g \in Generators : ReplyOwners(g) = (IF sock[g] = "open" THEN 1 ELSE 0)

\* getHead() is read without the lock and used until the end of the walk: the
\* reply it names stays the head of the pending queue, so the walk ends and
\* never follows a deleted request.
HeadStaysQueued ==
  \A i \in IgThreads :
    ig[i].pc \in {"query", "lock_qu", "lock_ig", "walk"} =>
      igPend # <<>> /\ ig[i].head = Head(igPend)

\* Once a round has found its first query, no qRemove of it blocks with the pool
\* mutex held: the do-while goes round again because it counted pending queries,
\* which are still there, and the clean-out removes no more replies than there
\* are.  The first qRemove of a round may block, until a client comes.
LoopNeverWaits ==
  \A i \in IgThreads :
    /\ ig[i].pc = "query" /\ ig[i].count > 0 => quPend # <<>>
    /\ ig[i].pc = "clean" /\ ig[i].removeTimes > 0 => igPend # <<>>

\* Thread t stands at a mutex that thread u holds.
WaitsFor(t, u) ==
  \/ /\ t \in QuThreads /\ quPc[t] = "pend"
     /\ quPendLock = u
  \/ /\ t \in IgThreads
     /\ \/ ig[t].pc = "lock" /\ poolMutex = u
        \/ /\ \/ ig[t].pc \in {"query", "lock_qu"}
              \/ ig[t].pc = "dispose" /\ ig[t].connected
           /\ quPendLock = u
        \/ /\ \/ ig[t].pc \in {"pend", "lock_ig"}
              \/ ig[t].pc = "clean" /\ ig[t].removeTimes > 0
           /\ igPendLock = u

\* The three mutexes are taken one inside the other, two of them through
\* get_mutex() and again by the queues' own operations: no thread locks one it
\* holds, and one that somebody waits for can go on, so no threads wait for
\* each other in a circle.
NoCircularWait ==
  \A t, u \in QuThreads \cup IgThreads :
    WaitsFor(t, u) => \A v \in QuThreads \cup IgThreads : ~WaitsFor(u, v)

\* Every image file on disk belongs to a reply that waits in the pending queue
\* or is being handled: none is left behind when its reply is deleted.
NoOrphanFiles ==
  files \subseteq ToSet(igPend) \cup {ig[i].cur : i \in IgThreads}

\* The producer tests two sizes without their locks, and replies move on from
\* the incoming queue to the pending one, so more than DosLimit can be open, but
\* never more than twice that, one per consumer, one admitted and one accepted
\* that is still to be tested, and refused.
OpenReplies == {g \in Generators : sock[g] = "open"}
BoundedReplies == Cardinality(OpenReplies) <= 2 * DosLimit + 2 + Cardinality(IgThreads)

\* A client's connection is closed only when it is broken: a response that
\* fails for one client costs no other client its query.
LiveClientsKept ==
  [][\A c \in Clients : sock[c] = "open" /\ sock'[c] = "closed" => peer[c] = "reset"]_vars

-----------------------------------------------------------------------------
(* The inductive invariant: what the properties above rest on.             *)

\* What a consumer has in hand goes with where it is.
Answering == {"lock_qu", "lock_ig", "walk", "header", "body", "dispose"}
LocalsMatch ==
  /\ \A t \in QuThreads : quCur[t] = NULL <=> quPc[t] = "take"
  /\ \A i \in IgThreads :
       /\ ig[i].cur = NULL <=> ig[i].pc = "take"
       /\ ig[i].query = NULL <=> ig[i].pc \notin Answering

\* A consumer of the reply pool that is past the lock holds the pool mutex: no
\* two handle replies at a time.
PoolMutexHeld ==
  \A i \in IgThreads : ig[i].pc \notin {"take", "lock"} => poolMutex = i

\* A consumer holds the pool mutex nowhere else, and those of the two queues
\* exactly in the region between its calls to lock and unlock.
LocksHeld ==
  \A i \in IgThreads :
    /\ poolMutex = i => ig[i].pc \notin {"take", "lock"}
    /\ quPendLock = i <=> ig[i].pc \in {"lock_ig", "walk"}
    /\ igPendLock = i <=> ig[i].pc = "walk"

\* From IgPending to IgAgain the pending replies are there, and those counted
\* for the clean-out are there until it is over.
InRound == Answering \cup {"decide", "head", "query", "again"}
RepliesStay ==
  \A i \in IgThreads :
    /\ ig[i].pc \in InRound => igPend # <<>>
    /\ ig[i].pc \in {"query", "lock_qu", "lock_ig", "walk"} => ig[i].head = Head(igPend)
    /\ ig[i].pc = "clean" => ig[i].removeTimes = Len(igPend)

\* Queries that were counted stay pending while a response is sent and put back,
\* and until the next one is taken.
QueriesStay ==
  \A i \in IgThreads :
    ig[i].pc \in {"header", "body", "dispose", "again", "head", "query"} /\ ig[i].count > 0
      => quPend # <<>>

\* A handled reply whose file is still there is pending.
FileIsPending ==
  \A i \in IgThreads :
    ig[i].pc \in InRound \cup {"clean", "unlock"} /\ ig[i].cur \in files
      => ig[i].cur \in ToSet(igPend)

\* A response that failed was meant for a client whose connection is broken.
FailureIsReset ==
  \A i \in IgThreads :
    ig[i].pc \in {"body", "dispose"} /\ ~ig[i].connected => peer[ig[i].query] = "reset"

\* The last place of BoundedReplies is only taken by a connection not yet tested.
DoorBounded ==
  /\ admitted => accepted # NULL
  /\ Cardinality(OpenReplies) + (IF accepted # NULL /\ ~admitted THEN 0 ELSE 1)
       <= 2 * DosLimit + 2 + Cardinality(IgThreads)

IndInv ==
  /\ TypeOK /\ LocalsMatch
  /\ PoolMutexHeld /\ LocksHeld /\ RepliesStay /\ QueriesStay
  /\ FileIsPending /\ NoOrphanFiles
  /\ FailureIsReset
  /\ EveryConnectionOwned /\ DoorBounded

-----------------------------------------------------------------------------
(* The queue of pending queries                                            *)

\* The requests that are in hand as far as the queue of pending queries goes.
queryHand ==
  [t \in QuThreads \cup IgThreads |->
     IF t \in IgThreads THEN ig[t].query
     ELSE IF quPc[t] = "pend" THEN quCur[t] ELSE NULL]

Fifo == INSTANCE FifoQueue WITH
  Threads <- QuThreads \cup IgThreads, Requests <- Clients, NoRequest <- NULL,
  queue <- quPend, hand <- queryHand

\* The two pools use the queue of pending queries as the class promises it: in
\* first-in first-out order, adding only what they own, keeping nothing they
\* added.
QueriesInOrder == Fifo!FifoSpec

\* A client that got a response got the image: no response is empty.
NoEmptyResponse == \A c \in Clients : NULL \notin got[c]

\* A client or a generator that goes away does not take the process with it.
Survives == ~crashed

-----------------------------------------------------------------------------
(* Liveness                                                                *)

\* A round of responses, once it starts, ends, and the pending replies are
\* cleaned out.
RoundEnds == \A i \in IgThreads : (ig[i].pc = "head") ~> (ig[i].pc = "clean")

\* Every connection that was accepted is retired in the end: refused, or its
\* request cleaned out with its round, and closed.
EveryReplyRetired ==
  \A g \in Generators : (sock[g] = "open") ~> (sock[g] = "closed")

\* The image of every reply that was not refused reaches the client that waits.
EveryImageDelivered ==
  \A g \in Generators, c \in Clients : (accepted = g /\ admitted) ~> (g \in got[c])

\* The producer does not refuse generators for ever.
RefusalEnds == TooMany ~> ~TooMany

=============================================================================
