-------------------------- MODULE QueryQueue_proofs --------------------------
(***************************************************************************)
(* The two pools use the queue of pending queries as module FifoQueue      *)
(* promises it: every step of ImageAggregator is one operation of the      *)
(* queue by the thread that takes it, or leaves the queue and the hands    *)
(* alone.                                                                  *)
(***************************************************************************)
EXTENDS ImageAggregator_proofs

LEMMA Hands ==
  /\ DOMAIN queryHand = QuThreads \cup IgThreads
  /\ \A i \in IgThreads : queryHand[i] = ig[i].query
  /\ \A t \in QuThreads : queryHand[t] = IF quPc[t] = "pend" THEN quCur[t] ELSE NULL
BY PoolsAssumption DEF queryHand

LEMMA HandsNext ==
  /\ \A i \in IgThreads : queryHand'[i] = ig'[i].query
  /\ \A t \in QuThreads : queryHand'[t] = IF quPc'[t] = "pend" THEN quCur'[t] ELSE NULL
BY PoolsAssumption DEF queryHand

\* A step that changes one hand.
LEMMA OneHand ==
  ASSUME NEW t \in QuThreads \cup IgThreads, NEW v, queryHand'[t] = v,
         \A u \in (QuThreads \cup IgThreads) \ {t} : queryHand'[u] = queryHand[u]
  PROVE  queryHand' = [queryHand EXCEPT ![t] = v]
BY DEF queryHand

\* A step that changes no hand.
LEMMA NoHand ==
  ASSUME \A u \in QuThreads \cup IgThreads : queryHand'[u] = queryHand[u]
  PROVE  UNCHANGED queryHand
BY DEF queryHand

\* The query a thread has yet to add is in no other hand, and not in the queue.
LEMMA NotYetPending ==
  ASSUME IndInv, NEW t \in QuThreads, quCur[t] # NULL, quPc[t] # "pend"
  PROVE  quCur[t] \notin Fifo!Held \cup ToSet(quPend)
<1> DEFINE c == quCur[t]
<1>1. Typed /\ c \in Clients /\ quPend \in Seq(Clients)
  BY DEF IndInv, Typed, TypeOK, SharedTypeOK, QueryTypeOK
<1> HIDE DEF c
<1>2. QueryOwners(c) <= 1
  BY <1>1 DEF IndInv, EveryConnectionOwned
<1>3. /\ Occurrences(c, quIn) \in Nat /\ Occurrences(c, quPend) \in Nat
      /\ Cardinality(InQuHand(quCur, c)) \in Nat /\ Cardinality(InIgHand(ig, c)) \in Nat
      /\ Occurrences(c, quIn) + Occurrences(c, quPend)
           + Cardinality(InQuHand(quCur, c)) + Cardinality(InIgHand(ig, c)) <= 1
  BY <1>1, <1>2, QueryCounts
<1>4. t \in InQuHand(quCur, c)
  BY DEF InQuHand, c
<1>5. IsFiniteSet(QuThreads) /\ IsFiniteSet(IgThreads)
      /\ InQuHand(quCur, c) \in SUBSET QuThreads /\ InIgHand(ig, c) \in SUBSET IgThreads
  BY PoolsAssumption DEF InQuHand, InIgHand
<1>6. Cardinality(InQuHand(quCur, c)) # 0
  BY <1>4, <1>5, CountSome
<1>7. Cardinality(InQuHand(quCur, c)) < 2 /\ Cardinality(InIgHand(ig, c)) = 0 /\ Occurrences(c, quPend) = 0
  BY <1>3, <1>6
<1>8. c \notin ToSet(quPend)
  BY <1>1, <1>7, Occurs
<1>9. InIgHand(ig, c) = {}
  BY <1>5, <1>7, CountSome
<1>10. ASSUME NEW u \in QuThreads, u # t PROVE quCur[u] # c
  <2>1. u \notin InQuHand(quCur, c)
    <3>1. \A x, y \in InQuHand(quCur, c) : x # y => Cardinality(InQuHand(quCur, c)) >= 2
      BY <1>5, CountSome
    <3>2. QED
      BY <1>3, <1>4, <1>7, <1>10, <3>1
  <2>2. QED
    BY <2>1 DEF InQuHand
<1>11. \A u \in QuThreads \cup IgThreads : queryHand[u] # c
  <2>1. \A i \in IgThreads : queryHand[i] # c
    BY <1>9, Hands DEF InIgHand
  <2>2. NULL # c
    BY DEF c
  <2>3. \A u \in QuThreads : queryHand[u] # c
    BY <1>10, <2>2, Hands
  <2>4. QED
    BY <2>1, <2>3
<1>12. QED
  BY <1>8, <1>11 DEF Fifo!Held, c

LEMMA FifoInitially == Init => Fifo!FifoInit
<1> SUFFICES ASSUME Init PROVE Fifo!FifoInit
  OBVIOUS
<1>1. \A i \in IgThreads : ig[i].query = NULL
  BY DEF Init, ReplyInit, Idle
<1>2. queryHand = [t \in QuThreads \cup IgThreads |-> NULL]
  BY <1>1 DEF Init, QueryInit, queryHand
<1>3. QED
  BY <1>2 DEF Init, SharedInit, Fifo!FifoInit

-----------------------------------------------------------------------------
(* Every step is one operation of the queue, or a stutter.                 *)

LEMMA QueryStepMaps ==
  ASSUME IndInv, NEW t \in QuThreads, Query(QuConsumer(t))
  PROVE  Fifo!FifoNext \/ UNCHANGED <<quPend, queryHand>>
<1>0. /\ t \in QuThreads \cup IgThreads /\ NULL \notin Clients /\ UNCHANGED ig
      /\ quPc \in [QuThreads -> {"take", "recv", "connect", "await", "pend"}]
      /\ quCur \in [QuThreads -> Clients \cup {NULL}] /\ (quCur[t] = NULL <=> quPc[t] = "take")
  BY PoolsAssumption DEF IndInv, TypeOK, QueryTypeOK, LocalsMatch, Query, replyVars, Peers
<1>1. CASE QuForwardFails(t) \/ QuAnswered(t)
  <2>1. /\ UNCHANGED <<quPend, quCur>> /\ quPc[t] \in {"connect", "await"}
        /\ quPc' = [quPc EXCEPT ![t] = "pend"]
    BY <1>1 DEF QuForwardFails, QuAnswered, QuGoto, sharedVars, quQueues
  <2>2. queryHand[t] = NULL /\ queryHand'[t] = quCur[t] /\ quCur[t] \in Clients
    BY <1>0, <2>1, Hands, HandsNext
  <2>3. \A u \in (QuThreads \cup IgThreads) \ {t} : queryHand'[u] = queryHand[u]
    BY <1>0, <2>1, Hands, HandsNext
  <2>4. queryHand' = [queryHand EXCEPT ![t] = quCur[t]]
    BY <1>0, <2>2, <2>3, OneHand
  <2>5. quCur[t] \notin Fifo!Held \cup ToSet(quPend)
    BY <1>0, <2>1, NotYetPending
  <2>6. Fifo!Acquire(t, quCur[t])
    BY <2>1, <2>2, <2>4, <2>5 DEF Fifo!Acquire, Fifo!ToSet, ToSet
  <2>7. QED
    BY <1>0, <2>2, <2>6 DEF Fifo!FifoNext
<1>2. CASE QuPending(t)
  <2>1. /\ quPend' = Append(quPend, quCur[t]) /\ quPc[t] = "pend"
        /\ quPc' = [quPc EXCEPT ![t] = "take"] /\ quCur' = [quCur EXCEPT ![t] = NULL]
    BY <1>2 DEF QuPending, QuGoto
  <2>2. queryHand[t] = quCur[t] /\ queryHand'[t] = NULL /\ quCur[t] # NULL
    BY <1>0, <2>1, Hands, HandsNext
  <2>3. \A u \in (QuThreads \cup IgThreads) \ {t} : queryHand'[u] = queryHand[u]
    BY <1>0, <2>1, Hands, HandsNext
  <2>4. queryHand' = [queryHand EXCEPT ![t] = NULL]
    BY <1>0, <2>2, <2>3, OneHand
  <2>5. Fifo!Enqueue(t)
    BY <2>1, <2>2, <2>4 DEF Fifo!Enqueue
  <2>6. QED
    BY <1>0, <2>5 DEF Fifo!FifoNext
<1>3. CASE QuTake(t)
  <2>1. /\ UNCHANGED quPend /\ quPc' = [quPc EXCEPT ![t] = "recv"] /\ quPc[t] = "take"
        /\ quCur' = [quCur EXCEPT ![t] = Head(quIn)]
    BY <1>3 DEF QuTake, QuGoto
  <2>2. \A u \in QuThreads \cup IgThreads : queryHand'[u] = queryHand[u]
    BY <1>0, <2>1, Hands, HandsNext
  <2>3. QED
    BY <2>1, <2>2, NoHand
<1>4. CASE QuReceive(t) \/ QuReceiveBroken(t) \/ QuForward(t)
  <2>1. /\ UNCHANGED <<quPend, quCur>>
        /\ \/ UNCHANGED quPc
           \/ quPc[t] \in {"recv", "connect"} /\ \E to \in {"connect", "await"} : quPc' = [quPc EXCEPT ![t] = to]
    BY <1>4 DEF QuReceive, QuReceiveBroken, QuForward, QuGoto, sharedVars, quQueues, queryVars
  <2>2. \A u \in QuThreads \cup IgThreads : queryHand'[u] = queryHand[u]
    BY <1>0, <2>1, Hands, HandsNext
  <2>3. QED
    BY <2>1, <2>2, NoHand
<1>5. QED
  BY <1>1, <1>2, <1>3, <1>4 DEF Query, QuConsumer

LEMMA ReplyStepMaps ==
  ASSUME IndInv, NEW i \in IgThreads, Reply(IgConsumer(i))
  PROVE  Fifo!FifoNext \/ UNCHANGED <<quPend, queryHand>>
<1>0. /\ i \in QuThreads \cup IgThreads /\ NULL \notin Clients /\ UNCHANGED <<quPc, quCur>>
      /\ ig \in [IgThreads -> IgLocals] /\ ig[i] \in IgLocals /\ quPend \in Seq(Clients)
      /\ (ig[i].query = NULL <=> ig[i].pc \notin Answering)
  BY PoolsAssumption DEF IndInv, TypeOK, SharedTypeOK, ReplyTypeOK, LocalsMatch, Reply, queryVars, Peers
<1>1. \A j \in IgThreads \ {i} : ig'[j] = ig[j]
  BY OthersKeep DEF IndInv, Reply
<1>2. \A u \in (QuThreads \cup IgThreads) \ {i} : queryHand'[u] = queryHand[u]
  BY <1>0, <1>1, Hands, HandsNext
<1>3. queryHand[i] = ig[i].query /\ queryHand'[i] = ig'[i].query
  BY Hands, HandsNext
<1>4. CASE IgTakeQuery(i)
  <2>1. /\ quPend # <<>> /\ quPend' = Tail(quPend) /\ ig[i].query = NULL /\ ig'[i].query = Head(quPend)
    BY <1>0, <1>4 DEF IgTakeQuery, WithoutHead, IgGoto, IgLocals, Answering
  <2>2. queryHand' = [queryHand EXCEPT ![i] = Head(quPend)]
    BY <1>0, <1>2, <1>3, <2>1, OneHand
  <2>3. Fifo!Dequeue(i)
    BY <1>3, <2>1, <2>2 DEF Fifo!Dequeue
  <2>4. QED
    BY <1>0, <2>3 DEF Fifo!FifoNext
<1>5. CASE IgDropQuery(i)
  <2>1. UNCHANGED quPend /\ ig[i].query # NULL /\ ig'[i].query = NULL
    BY <1>0, <1>5 DEF IgDropQuery, IgGoto, IgLocals, Answering, quQueues
  <2>2. queryHand' = [queryHand EXCEPT ![i] = NULL]
    BY <1>0, <1>2, <1>3, <2>1, OneHand
  <2>3. Fifo!Discard(i)
    BY <1>3, <2>1, <2>2 DEF Fifo!Discard
  <2>4. QED
    BY <1>0, <2>3 DEF Fifo!FifoNext
<1>6. CASE IgKeepQuery(i)
  <2>1. quPend' = Append(quPend, ig[i].query) /\ ig[i].query # NULL /\ ig'[i].query = NULL
    BY <1>0, <1>6 DEF IgKeepQuery, IgGoto, IgLocals, Answering
  <2>2. queryHand' = [queryHand EXCEPT ![i] = NULL]
    BY <1>0, <1>2, <1>3, <2>1, OneHand
  <2>3. Fifo!Enqueue(i)
    BY <1>3, <2>1, <2>2 DEF Fifo!Enqueue
  <2>4. QED
    BY <1>0, <2>3 DEF Fifo!FifoNext
<1>7. ASSUME ~(IgTakeQuery(i) \/ IgDropQuery(i) \/ IgKeepQuery(i))
      PROVE  UNCHANGED <<quPend, queryHand>>
  <2>1. UNCHANGED quPend
    BY <1>7
       DEF Reply, IgConsumer, IgTake, IgLock, IgReceive, IgPending, IgDecide, IgReadHead, IgLockQueries,
           IgLockReplies, IgWalk, IgScanCrashes, IgSendTags, IgSendImage, IgAgain, IgRemoveReply,
           IgCleaned, IgUnlock, sharedVars, quQueues
  <2>2. ig'[i].query = ig[i].query
    <3> USE <1>0 DEF IgGoto, IgLocals
    <3>1. CASE IgTake(i)
      BY <3>1 DEF IgTake
    <3>2. CASE IgLock(i)
      BY <3>2 DEF IgLock
    <3>3. CASE IgReceive(i)
      BY <3>3 DEF IgReceive
    <3>4. CASE IgPending(i)
      BY <3>4 DEF IgPending
    <3>5. CASE IgDecide(i)
      BY <3>5 DEF IgDecide
    <3>6. CASE IgReadHead(i)
      BY <3>6 DEF IgReadHead
    <3>7. CASE IgLockQueries(i)
      BY <3>7 DEF IgLockQueries
    <3>8. CASE IgLockReplies(i)
      BY <3>8 DEF IgLockReplies
    <3>9. CASE IgWalk(i)
      BY <3>9 DEF IgWalk
    <3>10. CASE IgSendTags(i)
      BY <3>10 DEF IgSendTags
    <3>11. CASE IgSendImage(i)
      BY <3>11 DEF IgSendImage
    <3>12. CASE IgAgain(i)
      BY <3>12 DEF IgAgain
    <3>13. CASE IgRemoveReply(i)
      BY <3>13 DEF IgRemoveReply
    <3>14. CASE IgCleaned(i)
      BY <3>14 DEF IgCleaned
    <3>15. CASE IgUnlock(i)
      BY <3>15 DEF IgUnlock, Idle, Answering
    <3>16. CASE IgScanCrashes(i)
      BY <3>16 DEF IgScanCrashes, replyVars
    <3>17. QED
      BY <1>7, <3>1, <3>2, <3>3, <3>4, <3>5, <3>6, <3>7, <3>8, <3>9, <3>10, <3>11, <3>12, <3>13, <3>14, <3>15, <3>16 DEF Reply, IgConsumer
  <2>3. \A u \in QuThreads \cup IgThreads : queryHand'[u] = queryHand[u]
    BY <1>2, <1>3, <2>2
  <2>4. QED
    BY <2>1, <2>3, NoHand
<1>8. QED
  BY <1>4, <1>5, <1>6, <1>7

LEMMA StepMaps ==
  ASSUME IndInv, [Next]_vars
  PROVE  [Fifo!FifoNext]_<<quPend, queryHand>>
<1>1. CASE UNCHANGED <<quPend, quPc, quCur, ig>>
  BY <1>1 DEF queryHand
<1>2. CASE Query(QuProducer)
  BY <1>1, <1>2 DEF Query, QuProducer, QuAccept, queryVars, replyVars
<1>3. QED
  BY <1>1, <1>2, QueryStepMaps, ReplyStepMaps, PeerFrame, ProducerFrame
     DEF Next, Query, QueryPoolStep, Reply, ReplyPoolStep, vars, sharedVars, quQueues, queryVars, replyVars

\* The queue of pending queries and the hands of the threads that use it behave
\* as a first-in first-out queue whose threads add only what they own.
THEOREM PendingQueriesCorrect == Spec => QueriesInOrder
<1>1. Init => Fifo!FifoInit
  BY FifoInitially
<1>2. IndInv /\ [Next]_vars => [Fifo!FifoNext]_Fifo!fifoVars
  BY StepMaps DEF Fifo!fifoVars
<1>3. QED
  BY <1>1, <1>2, Invariance, PTL DEF Spec, QueriesInOrder, Fifo!FifoSpec

=============================================================================
