----------------------------- MODULE RequestQueue -----------------------------
(***************************************************************************)
(* Class IARequestQueue: a circular doubly linked list of IA_Request nodes *)
(* guarded by a mutex, with a condition variable on which qRemove waits.   *)
(*                                                                         *)
(* Producers allocate requests and call qAdd (IAThreadPool::producer, the  *)
(* qu_pool_handle threads).  Consumers loop on qRemove(-1) and then either *)
(* delete the request or put it back with qAdd (IAThreadPool::consumer,    *)
(* ig_pool_handle).  Inspectors call print_object (the thread of main()).  *)
(*                                                                         *)
(* A step is the code between two points where another thread can see the  *)
(* difference: what precedes the lock, each group of pointer writes under  *)
(* it, the unlock, the signal.                                             *)
(***************************************************************************)
EXTENDS Integers, Sequences, SequencesExt

CONSTANTS
  Producers,   \* threads that allocate a request and qAdd it
  Consumers,   \* threads that qRemove(-1) in a loop
  Requeuers,   \* the consumers that may put back what they removed
  Inspectors,  \* threads that print_object
  Nodes,       \* the addresses an IA_Request can have
  NULL,        \* the null pointer; also "nobody" for the mutex
  InitialIDs,  \* the requestIDs a request reaches the queue with
  UIntSize,    \* bound: the number of values of an unsigned int
  MaxAdds      \* bound: no qAdd starts while count has reached it

Unassigned == -1
Workers == Producers \cup Consumers
Threads == Workers \cup Inspectors

ASSUME QueueAssumption ==
  /\ NULL \notin Nodes \cup Threads
  /\ Producers \cap Consumers = {}
  /\ Consumers # {} /\ Requeuers \subseteq Consumers
  /\ Workers \cap Inspectors = {}
  /\ InitialIDs \subseteq Int
  /\ MaxAdds \in Nat /\ UIntSize \in Nat \ {0}

VARIABLES
  next, prev,    \* the links of each node
  requestID,     \* IA_Request.requestID of each node
  live,          \* the nodes allocated and not deleted
  qHead, qTail,  \* IARequestQueue.qHead, qTail
  length, count, \* IARequestQueue.length, count
  mutex,         \* the thread holding IARequestQueue.mutex, or NULL
  pc,            \* where each thread is
  node,          \* its new_request, temp or current pointer
  order          \* history: the requests added and not yet removed

list == <<next, prev, qHead, qTail>>
vars == <<next, prev, requestID, live, qHead, qTail, length, count, mutex, pc, node, order>>

AddStages == {"prep", "add_lock", "add_link", "add_tail", "add_len", "add_unlock", "add_signal"}
RemoveStages == {"rem_lock", "rem_test", "asleep", "rem_head", "rem_fix", "rem_len", "rem_unlock", "own"}
PrintStages == {"pr_lock", "pr_test", "pr_walk", "pr_unlock", "pr_signal", "segv"}
Stages == {"idle"} \cup AddStages \cup RemoveStages \cup PrintStages

\* The stages in which a thread is inside a locked region; a thread that dies
\* while printing dies with the mutex.
Locked == {"add_link", "add_tail", "add_len", "add_unlock",
           "rem_test", "rem_head", "rem_fix", "rem_len", "rem_unlock",
           "pr_test", "pr_walk", "pr_unlock", "segv"}

\* Between the stages: consumers go straight back to qRemove.
Home(t) == IF t \in Consumers THEN "rem_lock" ELSE "idle"

\* Once a thread has dereferenced a null pointer the process is gone.
Running == \A i \in Inspectors : pc[i] # "segv"

At(t, stage) == Running /\ pc[t] = stage

Goto(t, from, to) ==
  /\ At(t, from)
  /\ pc' = [pc EXCEPT ![t] = to]

Init ==
  /\ next = [n \in Nodes |-> NULL]
  /\ prev = [n \in Nodes |-> NULL]
  /\ requestID = [n \in Nodes |-> Unassigned]
  /\ live = {}
  /\ qHead = NULL /\ qTail = NULL
  /\ length = 0 /\ count = 0
  /\ mutex = NULL
  /\ pc = [t \in Threads |-> Home(t)]
  /\ node = [t \in Threads |-> NULL]
  /\ order = <<>>

-----------------------------------------------------------------------------
(* The mutex and the condition variable isReady.                           *)

Lock(t, from, to) ==
  /\ mutex = NULL
  /\ mutex' = t
  /\ Goto(t, from, to)
  /\ UNCHANGED <<list, requestID, live, length, count, node, order>>

Unlock(t, from, to) ==
  /\ mutex' = NULL
  /\ Goto(t, from, to)
  /\ UNCHANGED <<list, requestID, live, length, count, node, order>>

Waiting == {t \in Consumers : pc[t] = "asleep"}

\* pthread_cond_signal wakes one waiter, if any, which must lock again; the
\* call returns and the local pointer of t goes out of scope.
Signal(t, from, to) ==
  /\ At(t, from)
  /\ \/ /\ Waiting = {}
        /\ pc' = [pc EXCEPT ![t] = to]
     \/ \E w \in Waiting : pc' = [pc EXCEPT ![t] = to, ![w] = "rem_lock"]
  /\ node' = [node EXCEPT ![t] = NULL]
  /\ UNCHANGED <<list, requestID, live, length, count, mutex, order>>

\* pthread_cond_wait may return without a signal.
SpuriousWake(c) ==
  /\ Goto(c, "asleep", "rem_lock")
  /\ UNCHANGED <<list, requestID, live, length, count, mutex, node, order>>

-----------------------------------------------------------------------------
(* The callers: where requests come from and go to.                        *)

\* new IA_Request() zeroes the node; its requestID is set by the caller.
Allocate(p) ==
  /\ count < MaxAdds
  /\ Goto(p, "idle", "prep")
  /\ \E n \in Nodes \ live, id \in InitialIDs :
       /\ live' = live \cup {n}
       /\ node' = [node EXCEPT ![p] = n]
       /\ requestID' = [requestID EXCEPT ![n] = id]
       /\ next' = [next EXCEPT ![n] = NULL]
       /\ prev' = [prev EXCEPT ![n] = NULL]
  /\ UNCHANGED <<qHead, qTail, length, count, mutex, order>>

\* The consumer is done with the request it removed.  The memory keeps its
\* content until it is allocated again.
Delete(c) ==
  /\ Goto(c, "own", "rem_lock")
  /\ live' = live \ {node[c]}
  /\ node' = [node EXCEPT ![c] = NULL]
  /\ UNCHANGED <<list, requestID, length, count, mutex, order>>

\* The consumer adds the request it removed again.
Requeue(c) ==
  /\ c \in Requeuers
  /\ count < MaxAdds
  /\ Goto(c, "own", "prep")
  /\ UNCHANGED <<list, requestID, live, length, count, mutex, node, order>>

-----------------------------------------------------------------------------
(* qAdd(new_request)                                                       *)

\* The conversion of an unsigned int to the int that requestID is.
AsInt(n) == IF 2 * n < UIntSize THEN n ELSE n - UIntSize

\* Mutant of IDFor: the ID is taken from length.
IDFromLength(id) == IF id = Unassigned THEN AsInt(length) ELSE id

\* The ID of a request that comes with the ID id.
IDFor(id) == IF id = Unassigned THEN AsInt(count) ELSE id

\* The self links and the requestID, which reads count, before the lock.
Prepare(t) ==
  LET n == node[t] IN
  /\ Goto(t, "prep", "add_lock")
  /\ next' = [next EXCEPT ![n] = n]
  /\ prev' = [prev EXCEPT ![n] = n]
  /\ requestID' = [requestID EXCEPT ![n] = IDFor(@)]
  /\ UNCHANGED <<live, qHead, qTail, length, count, mutex, node, order>>

AddLock(t) == Lock(t, "add_lock", "add_link")

\* The ring is opened: the old tail and the head point to the new node.
LinkNeighbours(t) ==
  LET n == node[t] IN
  /\ Goto(t, "add_link", "add_tail")
  /\ \/ /\ qHead = NULL
        /\ qTail' = n
        /\ UNCHANGED <<next, prev>>
     \/ /\ qHead # NULL
        /\ next' = [next EXCEPT ![qTail] = n]
        /\ prev' = [prev EXCEPT ![qHead] = n]
        /\ UNCHANGED qTail
  /\ UNCHANGED <<requestID, live, qHead, length, count, mutex, node, order>>

\* The ring is closed again through the new node.
LinkNew(t) ==
  LET n == node[t] IN
  /\ Goto(t, "add_tail", "add_len")
  /\ \/ /\ qHead = NULL
        /\ qHead' = n
        /\ UNCHANGED <<next, prev, qTail>>
     \/ /\ qHead # NULL
        /\ prev' = [prev EXCEPT ![n] = qTail]
        /\ next' = [next EXCEPT ![n] = qHead]
        /\ qTail' = next[qTail]
        /\ UNCHANGED qHead
  /\ UNCHANGED <<requestID, live, length, count, mutex, node, order>>

\* Mutant of OneMore: the first request is not counted.
OneMoreButFirst == IF qHead = qTail THEN length ELSE length + 1

OneMore == length + 1

AddLength(t) ==
  /\ Goto(t, "add_len", "add_unlock")
  /\ length' = OneMore
  /\ count' = (count + 1) % UIntSize
  /\ order' = Append(order, node[t])
  /\ UNCHANGED <<list, requestID, live, mutex, node>>

\* Mutant of AddUnlock: qAdd returns without a signal.
AddUnlockSilently(t) == Unlock(t, "add_unlock", Home(t))

AddUnlock(t) == Unlock(t, "add_unlock", "add_signal")
AddSignal(t) == Signal(t, "add_signal", Home(t))

QAdd(t) ==
  \/ Prepare(t) \/ AddLock(t) \/ LinkNeighbours(t) \/ LinkNew(t)
  \/ AddLength(t) \/ AddUnlock(t) \/ AddSignal(t)

-----------------------------------------------------------------------------
(* qRemove(-1)                                                             *)

RemoveLock(c) == Lock(c, "rem_lock", "rem_test")

\* while (!qHead) pthread_cond_wait(...): the wait gives the mutex up.
WaitReady(c) ==
  /\ qHead = NULL
  /\ Goto(c, "rem_test", "asleep")
  /\ mutex' = NULL
  /\ UNCHANGED <<list, requestID, live, length, count, node, order>>

\* Mutant of Oldest: the tail is returned.
Newest == qTail

Oldest == qHead

TakeHead(c) ==
  /\ qHead # NULL
  /\ Goto(c, "rem_test", "rem_head")
  /\ node' = [node EXCEPT ![c] = Oldest]
  /\ UNCHANGED <<list, requestID, live, length, count, mutex, order>>

\* Mutant of LastOne: off by one.
LastTwo == length <= 2

LastOne == length <= 1

\* The last request leaves an empty list.
UnlinkLast(c) ==
  /\ LastOne
  /\ Goto(c, "rem_head", "rem_len")
  /\ qHead' = NULL /\ qTail' = NULL
  /\ UNCHANGED <<next, prev, requestID, live, length, count, mutex, node, order>>

AdvanceHead(c) ==
  /\ length > 1
  /\ Goto(c, "rem_head", "rem_fix")
  /\ qHead' = next[qHead]
  /\ UNCHANGED <<next, prev, qTail, requestID, live, length, count, mutex, node, order>>

\* Mutant of PrevOfHead: the link keeps its value.
PrevKept(tail) == UNCHANGED prev

\* qHead->prev = qTail
PrevOfHead(tail) == prev' = [prev EXCEPT ![qHead] = tail]

\* The ring is closed around the new head.
CloseRing(c) ==
  LET tail == IF length = 2 THEN qHead ELSE qTail IN
  /\ Goto(c, "rem_fix", "rem_len")
  /\ qTail' = tail
  /\ PrevOfHead(tail)
  /\ next' = [next EXCEPT ![tail] = qHead]
  /\ UNCHANGED <<qHead, requestID, live, length, count, mutex, node, order>>

RemoveLength(c) ==
  /\ Goto(c, "rem_len", "rem_unlock")
  /\ length' = length - 1
  /\ order' = Tail(order)
  /\ UNCHANGED <<list, requestID, live, count, mutex, node>>

RemoveUnlock(c) == Unlock(c, "rem_unlock", "own")

QRemove(c) ==
  \/ RemoveLock(c) \/ WaitReady(c) \/ TakeHead(c) \/ UnlinkLast(c)
  \/ AdvanceHead(c) \/ CloseRing(c) \/ RemoveLength(c) \/ RemoveUnlock(c)

-----------------------------------------------------------------------------
(* print_object()                                                          *)

\* IA_Request* current = getHead(), before the lock.
ReadHead(i) ==
  /\ Goto(i, "idle", "pr_lock")
  /\ node' = [node EXCEPT ![i] = qHead]
  /\ UNCHANGED <<list, requestID, live, length, count, mutex, order>>

\* Mutant of PrintLock: the list is printed without the lock.
PrintUnlocked(i) ==
  /\ Goto(i, "pr_lock", "pr_test")
  /\ UNCHANGED <<list, requestID, live, length, count, mutex, node, order>>

PrintLock(i) == Lock(i, "pr_lock", "pr_test")

PrintTest(i) ==
  /\ Goto(i, "pr_test", IF qHead # NULL THEN "pr_walk" ELSE "pr_unlock")
  /\ UNCHANGED <<list, requestID, live, length, count, mutex, node, order>>

\* One turn of the do-while: current is dereferenced, and the process dies
\* if it is null; a deleted node still holds its old next.
PrintNode(i) ==
  /\ node[i] # NULL
  /\ Goto(i, "pr_walk", IF next[node[i]] = qHead THEN "pr_unlock" ELSE "pr_walk")
  /\ node' = [node EXCEPT ![i] = next[node[i]]]
  /\ UNCHANGED <<list, requestID, live, length, count, mutex, order>>

PrintNull(i) ==
  /\ node[i] = NULL
  /\ Goto(i, "pr_walk", "segv")
  /\ UNCHANGED <<list, requestID, live, length, count, mutex, node, order>>

PrintUnlock(i) == Unlock(i, "pr_unlock", "pr_signal")
PrintSignal(i) == Signal(i, "pr_signal", "idle")

PrintObject(i) ==
  \/ ReadHead(i) \/ PrintLock(i) \/ PrintTest(i) \/ PrintNode(i)
  \/ PrintNull(i) \/ PrintUnlock(i) \/ PrintSignal(i)

-----------------------------------------------------------------------------

Producer(p) == Allocate(p) \/ QAdd(p)
Consumer(c) == QRemove(c) \/ Delete(c) \/ Requeue(c) \/ QAdd(c)

Next ==
  \/ \E p \in Producers : Producer(p)
  \/ \E c \in Consumers : Consumer(c) \/ SpuriousWake(c)
  \/ \E i \in Inspectors : PrintObject(i)

Spec == Init /\ [][Next]_vars

\* The scheduler runs every thread that can take a step.  Nothing forces a
\* connection to arrive, a waiter to wake unsignalled, or a print.
Fairness ==
  /\ \A p \in Producers : WF_vars(QAdd(p))
  /\ \A c \in Consumers : WF_vars(Consumer(c))

FairSpec == Spec /\ Fairness

-----------------------------------------------------------------------------
(* Properties                                                              *)

\* Every variable has its type.
TypeOK ==
  /\ next \in [Nodes -> Nodes \cup {NULL}]
  /\ prev \in [Nodes -> Nodes \cup {NULL}]
  /\ requestID \in [Nodes -> Int]
  /\ live \in SUBSET Nodes
  /\ qHead \in Nodes \cup {NULL} /\ qTail \in Nodes \cup {NULL}
  /\ length \in Nat /\ count \in Nat
  /\ mutex \in Threads \cup {NULL}
  /\ pc \in [Threads -> Stages]
  /\ node \in [Threads -> Nodes \cup {NULL}]
  /\ order \in Seq(Nodes)

\* The mutex of the queue: the thread inside a locked region of qAdd, qRemove
\* or print_object is the one that holds it, so there is at most one.
MutualExclusion == \A t \in Threads : (pc[t] \in Locked) <=> (mutex = t)

\* The links nx and pv join each request of s to the next one.
Chain(s, nx, pv) ==
  \A i \in 1..(Len(s) - 1) : nx[s[i]] = s[i + 1] /\ pv[s[i + 1]] = s[i]

\* They form one ring through s, in order, with hd and tl at its ends.
Ring(s, nx, pv, hd, tl) ==
  IF s = <<>>
  THEN hd = NULL /\ tl = NULL
  ELSE /\ hd = s[1] /\ tl = s[Len(s)]
       /\ Chain(s, nx, pv)
       /\ nx[s[Len(s)]] = s[1] /\ pv[s[1]] = s[Len(s)]

RingOf(s) == Ring(s, next, prev, qHead, qTail)

Surgery == {"add_tail", "add_len", "rem_fix", "rem_len"}

\* Whenever no thread is in the middle of an update, the linked list is a
\* well-formed ring holding exactly the requests added and not yet removed,
\* in the order they were added, and length counts them.
ListIsQueue ==
  (\A t \in Workers : pc[t] \notin Surgery) =>
     /\ RingOf(order)
     /\ length = Len(order)

\* The stages in which a worker owns the request its local pointer names.
Owning == {"prep", "add_lock", "add_link", "add_tail", "add_len", "rem_unlock", "own"}

hand == [t \in Workers |-> IF pc[t] \in Owning THEN node[t] ELSE NULL]

Fifo == INSTANCE FifoQueue WITH
  Threads <- Workers, Requests <- Nodes, NoRequest <- NULL,
  queue <- order, hand <- hand

\* The linked list, its lock and its waits implement the FIFO queue: qAdd and
\* qRemove take effect atomically, and no request is lost or handed out twice.
ImplementsFifo == Fifo!FifoSpec

\* A request being queued or owned is allocated, has one owner, and is queued
\* at most once: nobody deletes a node that another can still reach.
OneOwner ==
  /\ \A t \in Workers : hand[t] # NULL => hand[t] \in live \ ToSet(order)
  /\ \A t, u \in Workers : t # u /\ hand[t] # NULL => hand[t] # hand[u]
  /\ \A i, j \in DOMAIN order : order[i] = order[j] => i = j
  /\ ToSet(order) \subseteq live

\* What the links look like in the middle of qAdd, between its two groups of
\* writes, and in the middle of qRemove, when the head has moved on.
OpenFor(s, n, nx, pv, hd, tl) ==
  IF s = <<>>
  THEN hd = NULL /\ tl = n
  ELSE /\ hd = s[1] /\ tl = s[Len(s)]
       /\ Chain(s, nx, pv)
       /\ nx[s[Len(s)]] = n /\ pv[s[1]] = n

HeadMoved(s, nx, pv, hd, tl) ==
  /\ Len(s) > 1
  /\ hd = s[2] /\ tl = s[Len(s)]
  /\ Chain(s, nx, pv)

\* What the step worker t is at says of its request and of the list: a request
\* on its way in is linked to itself, one on its way out is the head.
ShapeAt(t) ==
  /\ pc[t] \in Owning => node[t] # NULL
  /\ pc[t] \in {"add_lock", "add_link", "add_tail"} =>
       next[node[t]] = node[t] /\ prev[node[t]] = node[t]
  /\ pc[t] = "add_tail" => OpenFor(order, node[t], next, prev, qHead, qTail)
  /\ pc[t] = "add_len" => RingOf(Append(order, node[t]))
  /\ pc[t] \in {"rem_head", "rem_fix", "rem_len"} =>
       order # <<>> /\ node[t] = Head(order)
  /\ pc[t] = "rem_fix" => HeadMoved(order, next, prev, qHead, qTail)
  /\ pc[t] = "rem_len" => RingOf(Tail(order))

\* The shape of the list at every step of an update.
ListShape ==
  /\ ListIsQueue
  /\ length = Len(order)
  /\ \A t \in Workers : ShapeAt(t)

\* The invariant that holds by induction: none of its parts does alone.
IndInv == TypeOK /\ MutualExclusion /\ OneOwner /\ ListShape

\* No lost wake-up: when a request is queued and every consumer is asleep on
\* isReady, a signal is still owed by a thread that has added one.
NoLostWakeup ==
  (order # <<>> /\ Waiting = Consumers) =>
     \E t \in Workers : pc[t] \in {"add_unlock", "add_signal"}

\* A queued request has a requestID, and those qAdd gives out are unique among
\* the requests alive, although count is read before the lock and is converted to
\* an int: one thread adds new requests to such a queue, and count does not wrap.
UniqueIDs ==
  /\ \A n \in ToSet(order) : requestID[n] # Unassigned
  /\ \A m, n \in live :
       m # n /\ requestID[m] # Unassigned => requestID[m] # requestID[n]

\* Every queued request is eventually taken out.
EveryRequestTaken ==
  \A n \in Nodes : (n \in ToSet(order)) ~> (n \notin ToSet(order))

\* "The threads ... shall access these lists atomically": a request that
\* print_object visits is in the list.  That it visits a request at all, and not
\* the null it read from an empty list, is not asked here.
InspectorStaysInList ==
  \A i \in Inspectors : pc[i] = "pr_walk" /\ node[i] # NULL => node[i] \in ToSet(order)

=============================================================================
