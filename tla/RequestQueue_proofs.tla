------------------------- MODULE RequestQueue_proofs -------------------------
(***************************************************************************)
(* Theorems about RequestQueue, for any numbers of threads, requests and   *)
(* operations: the types, the lock, the shape of the list, its owners.     *)
(*                                                                         *)
(* The first lemmas are about the ring alone: what each group of writes of *)
(* qAdd and qRemove makes of the links.  Then every action is shown to     *)
(* keep IndInv, and the theorems follow from it.                           *)
(***************************************************************************)
EXTENDS RequestQueue, SequenceTheorems, TLAPS

\* A queue of requests none of which is in it twice.
Distinct(s) == \A i, j \in 1..Len(s) : s[i] = s[j] => i = j
Misses(s, n) == \A i \in 1..Len(s) : s[i] # n

-----------------------------------------------------------------------------
(* The ring under the writes of qAdd and qRemove.                          *)

\* Writing the links of a node outside the ring leaves the ring as it is
\* (the self links of qAdd, the constructor of IA_Request).
LEMMA RingFrame ==
  ASSUME NEW s \in Seq(Nodes), NEW n \in Nodes, Misses(s, n),
         NEW nx \in [Nodes -> Nodes \cup {NULL}], NEW pv \in [Nodes -> Nodes \cup {NULL}],
         NEW hd, NEW tl, NEW v, NEW w, NEW m
  PROVE  /\ Ring(s, [nx EXCEPT ![n] = v], [pv EXCEPT ![n] = w], hd, tl)
              <=> Ring(s, nx, pv, hd, tl)
         /\ OpenFor(s, m, [nx EXCEPT ![n] = v], [pv EXCEPT ![n] = w], hd, tl)
              <=> OpenFor(s, m, nx, pv, hd, tl)
         /\ HeadMoved(s, [nx EXCEPT ![n] = v], [pv EXCEPT ![n] = w], hd, tl)
              <=> HeadMoved(s, nx, pv, hd, tl)
<1>1. \A i \in 1..Len(s) : s[i] \in Nodes /\ s[i] # n
  BY DEF Misses
<1>2. \A i \in 1..Len(s) :
        /\ [nx EXCEPT ![n] = v][s[i]] = nx[s[i]]
        /\ [pv EXCEPT ![n] = w][s[i]] = pv[s[i]]
  BY <1>1
<1>3. Chain(s, [nx EXCEPT ![n] = v], [pv EXCEPT ![n] = w]) <=> Chain(s, nx, pv)
  BY <1>2 DEF Chain
<1>4. s # <<>> => 1 \in 1..Len(s) /\ Len(s) \in 1..Len(s)
  OBVIOUS
<1>5. QED
  BY <1>2, <1>3, <1>4 DEF Ring, OpenFor, HeadMoved

\* LinkNeighbours: the old tail and the head point to the new node.
LEMMA OpenRing ==
  ASSUME NEW s \in Seq(Nodes), s # <<>>, Distinct(s), NEW n \in Nodes, Misses(s, n),
         NEW nx \in [Nodes -> Nodes \cup {NULL}], NEW pv \in [Nodes -> Nodes \cup {NULL}],
         NEW hd, NEW tl, Ring(s, nx, pv, hd, tl)
  PROVE  /\ OpenFor(s, n, [nx EXCEPT ![tl] = n], [pv EXCEPT ![hd] = n], hd, tl)
         /\ [nx EXCEPT ![tl] = n][n] = nx[n]
         /\ [pv EXCEPT ![hd] = n][n] = pv[n]
<1> DEFINE nx2 == [nx EXCEPT ![tl] = n]
           pv2 == [pv EXCEPT ![hd] = n]
<1>1. /\ Len(s) \in Nat \ {0}
      /\ \A i \in 1..Len(s) : s[i] \in Nodes /\ s[i] # n
  BY DEF Misses
<1>2. hd = s[1] /\ tl = s[Len(s)] /\ Chain(s, nx, pv)
  BY DEF Ring
<1>3. \A i \in 1..(Len(s) - 1) : nx2[s[i]] = nx[s[i]] /\ pv2[s[i + 1]] = pv[s[i + 1]]
  BY <1>1, <1>2 DEF Distinct
<1>4. Chain(s, nx2, pv2)
  BY <1>2, <1>3 DEF Chain
<1>5. nx2[s[Len(s)]] = n /\ pv2[s[1]] = n
  BY <1>1, <1>2
<1>6. nx2[n] = nx[n] /\ pv2[n] = pv[n]
  BY <1>1, <1>2
<1> HIDE DEF nx2, pv2
<1>7. OpenFor(s, n, nx2, pv2, hd, tl)
  BY <1>2, <1>4, <1>5 DEF OpenFor
<1>8. QED
  BY <1>6, <1>7 DEF nx2, pv2

\* LinkNew: the ring is closed through the new node.
LEMMA CloseOpened ==
  ASSUME NEW s \in Seq(Nodes), s # <<>>, NEW n \in Nodes, Misses(s, n),
         NEW nx \in [Nodes -> Nodes \cup {NULL}], NEW pv \in [Nodes -> Nodes \cup {NULL}],
         NEW hd, NEW tl, OpenFor(s, n, nx, pv, hd, tl)
  PROVE  Ring(Append(s, n), [nx EXCEPT ![n] = hd], [pv EXCEPT ![n] = tl], hd, nx[tl])
<1> DEFINE a == Append(s, n)
           nx2 == [nx EXCEPT ![n] = hd]
           pv2 == [pv EXCEPT ![n] = tl]
<1>1. /\ Len(s) \in Nat \ {0}
      /\ \A i \in 1..Len(s) : s[i] \in Nodes /\ s[i] # n
  BY DEF Misses
<1>2. /\ hd = s[1] /\ tl = s[Len(s)] /\ Chain(s, nx, pv)
      /\ nx[s[Len(s)]] = n /\ pv[s[1]] = n
  BY DEF OpenFor
<1>3. /\ Len(a) = Len(s) + 1 /\ a # <<>>
      /\ \A i \in 1..Len(s) : a[i] = s[i]
      /\ a[Len(s) + 1] = n
  OBVIOUS
<1>4. \A i \in 1..Len(s) : nx2[s[i]] = nx[s[i]] /\ pv2[s[i]] = pv[s[i]]
  BY <1>1
<1>5. nx2[n] = hd /\ pv2[n] = tl
  OBVIOUS
<1> HIDE DEF a, nx2, pv2
<1>6. Chain(a, nx2, pv2)
  <2> SUFFICES ASSUME NEW i \in 1..Len(s)
               PROVE  nx2[a[i]] = a[i + 1] /\ pv2[a[i + 1]] = a[i]
    BY <1>1, <1>3 DEF Chain
  <2>1. CASE i = Len(s)
    BY <2>1, <1>1, <1>2, <1>3, <1>4, <1>5
  <2>2. CASE i # Len(s)
    <3>1. i \in 1..(Len(s) - 1) /\ i + 1 \in 1..Len(s)
      BY <2>2, <1>1
    <3>2. nx[s[i]] = s[i + 1] /\ pv[s[i + 1]] = s[i]
      BY <3>1, <1>2 DEF Chain
    <3>3. QED
      BY <3>1, <3>2, <1>3, <1>4
  <2>3. QED
    BY <2>1, <2>2
<1>7. nx2[a[Len(a)]] = a[1] /\ pv2[a[1]] = a[Len(a)]
  BY <1>1, <1>2, <1>3, <1>4, <1>5
<1>8. Ring(a, nx2, pv2, hd, nx[tl])
  BY <1>1, <1>2, <1>3, <1>6, <1>7 DEF Ring
<1>9. QED
  BY <1>8 DEF a, nx2, pv2

\* LinkNew on an empty list: the self links of qAdd make the ring.
LEMMA RingOfOne ==
  ASSUME NEW n \in Nodes,
         NEW nx \in [Nodes -> Nodes \cup {NULL}], NEW pv \in [Nodes -> Nodes \cup {NULL}],
         nx[n] = n, pv[n] = n
  PROVE  Ring(Append(<<>>, n), nx, pv, n, n)
<1>1. Append(<<>>, n) = <<n>>
  OBVIOUS
<1>2. <<n>> # <<>> /\ Len(<<n>>) = 1 /\ <<n>>[1] = n
  OBVIOUS
<1>3. QED
  BY <1>1, <1>2 DEF Ring, Chain

\* AdvanceHead: the head moves to the second request.
LEMMA MoveHead ==
  ASSUME NEW s \in Seq(Nodes), Len(s) > 1, NEW nx, NEW pv, NEW hd, NEW tl,
         Ring(s, nx, pv, hd, tl)
  PROVE  HeadMoved(s, nx, pv, nx[hd], tl)
<1>1. s # <<>> /\ Len(s) \in Nat /\ 1 \in 1..(Len(s) - 1)
  OBVIOUS
<1>2. hd = s[1] /\ tl = s[Len(s)] /\ Chain(s, nx, pv)
  BY <1>1 DEF Ring
<1>3. nx[s[1]] = s[2]
  BY <1>1, <1>2 DEF Chain
<1>4. QED
  BY <1>2, <1>3 DEF HeadMoved

\* CloseRing: the ring is closed around the rest.
LEMMA CloseMoved ==
  ASSUME NEW s \in Seq(Nodes), Distinct(s),
         NEW nx \in [Nodes -> Nodes \cup {NULL}], NEW pv \in [Nodes -> Nodes \cup {NULL}],
         NEW hd, NEW tl, HeadMoved(s, nx, pv, hd, tl),
         NEW last, last = IF Len(s) = 2 THEN hd ELSE tl
  PROVE  Ring(Tail(s), [nx EXCEPT ![last] = hd], [pv EXCEPT ![hd] = last], hd, last)
<1> DEFINE r == Tail(s)
           nx2 == [nx EXCEPT ![last] = hd]
           pv2 == [pv EXCEPT ![hd] = last]
<1>1. /\ Len(s) \in Nat /\ Len(s) > 1
      /\ \A i \in 1..Len(s) : s[i] \in Nodes
  BY DEF HeadMoved
<1>2. hd = s[2] /\ last = s[Len(s)] /\ Chain(s, nx, pv)
  BY <1>1 DEF HeadMoved
<1>3. /\ Len(r) = Len(s) - 1 /\ r # <<>>
      /\ \A i \in 1..Len(r) : r[i] = s[i + 1]
  <2>1. s # <<>>
    BY <1>1
  <2>2. /\ r \in Seq(Nodes) /\ Len(r) = Len(s) - 1
        /\ \A i \in 1..Len(r) : r[i] = s[i + 1]
    BY <2>1, HeadTailProperties
  <2> HIDE DEF r
  <2>3. QED
    BY <2>2, <1>1
<1>4. nx2[s[Len(s)]] = hd /\ pv2[s[2]] = last
  BY <1>1, <1>2
<1>5. \A i \in 2..(Len(s) - 1) : nx2[s[i]] = nx[s[i]] /\ pv2[s[i + 1]] = pv[s[i + 1]]
  BY <1>1, <1>2 DEF Distinct
<1> HIDE DEF r, nx2, pv2
<1>6. Chain(r, nx2, pv2)
  <2> SUFFICES ASSUME NEW i \in 1..(Len(r) - 1)
               PROVE  nx2[r[i]] = r[i + 1] /\ pv2[r[i + 1]] = r[i]
    BY DEF Chain
  <2>1. i + 1 \in 2..(Len(s) - 1) /\ i + 1 \in 1..(Len(s) - 1)
    BY <1>1, <1>3
  <2>2. nx[s[i + 1]] = s[i + 1 + 1] /\ pv[s[i + 1 + 1]] = s[i + 1]
    BY <2>1, <1>2 DEF Chain
  <2>3. r[i] = s[i + 1] /\ r[i + 1] = s[i + 1 + 1]
    BY <1>1, <1>3
  <2>4. QED
    BY <2>1, <2>2, <2>3, <1>5
<1>7. r[1] = s[2] /\ r[Len(r)] = s[Len(s)]
  BY <1>1, <1>3
<1>8. Ring(r, nx2, pv2, hd, last)
  BY <1>2, <1>3, <1>4, <1>6, <1>7 DEF Ring
<1>9. QED
  BY <1>8 DEF r, nx2, pv2

-----------------------------------------------------------------------------
(* The steps that leave the list alone.                                    *)

\* Such a step keeps the shape of the list and the owners of the requests when
\* every worker keeps the request it has, and what its new stage says of the
\* list is so.
LEMMA QuietStep ==
  ASSUME IndInv,
         UNCHANGED <<list, live, length, order>>,
         \A u \in Workers :
           /\ hand'[u] = hand[u]
           /\ ShapeAt(u)'
           /\ pc[u] \in Surgery => pc'[u] \in Surgery
  PROVE  OneOwner' /\ ListShape' /\ UNCHANGED <<order, hand>>
<1>1. OneOwner'
  BY DEF IndInv, OneOwner, list, ToSet
<1>2. ListIsQueue'
  BY DEF IndInv, ListShape, ListIsQueue, RingOf, list
<1>3. hand' = hand
  BY DEF hand
<1>4. QED
  BY <1>1, <1>2, <1>3 DEF IndInv, ListShape

\* Locking: qAdd, qRemove and print_object.
LEMMA LockKeeps ==
  ASSUME IndInv, NEW t \in Threads, NEW from, NEW to, Lock(t, from, to),
         <<from, to>> \in {<<"add_lock", "add_link">>, <<"rem_lock", "rem_test">>,
                           <<"pr_lock", "pr_test">>}
  PROVE  IndInv' /\ UNCHANGED <<order, hand>>
<1> USE DEF Lock, Goto, At
<1>1. TypeOK'
  BY DEF IndInv, TypeOK, list, Stages, AddStages, RemoveStages, PrintStages
<1>2. MutualExclusion'
  BY QueueAssumption DEF IndInv, TypeOK, MutualExclusion, Locked
<1>3. ASSUME NEW u \in Workers
      PROVE  /\ hand'[u] = hand[u]
             /\ ShapeAt(u)'
             /\ pc[u] \in Surgery => pc'[u] \in Surgery
  BY <1>3 DEF IndInv, TypeOK, ListShape, ShapeAt, hand, Owning, Surgery, Threads, RingOf, list
<1>4. QED
  BY <1>1, <1>2, <1>3, QuietStep DEF IndInv

\* Unlocking.
LEMMA UnlockKeeps ==
  ASSUME IndInv, NEW t \in Threads, NEW from, NEW to, Unlock(t, from, to),
         <<from, to>> \in {<<"add_unlock", "add_signal">>, <<"rem_unlock", "own">>,
                           <<"pr_unlock", "pr_signal">>}
  PROVE  IndInv' /\ UNCHANGED <<order, hand>>
<1> USE DEF Unlock, Goto, At
<1>1. TypeOK'
  BY QueueAssumption DEF IndInv, TypeOK, list, Stages, AddStages, RemoveStages, PrintStages, Threads, Workers, Waiting
<1>2. MutualExclusion'
  BY QueueAssumption DEF IndInv, TypeOK, MutualExclusion, Locked, Threads, Workers, Waiting
<1>3. ASSUME NEW u \in Workers
      PROVE  /\ hand'[u] = hand[u]
             /\ ShapeAt(u)'
             /\ pc[u] \in Surgery => pc'[u] \in Surgery
  BY <1>3, QueueAssumption
     DEF IndInv, TypeOK, ListShape, ShapeAt, hand, Owning, Surgery, Threads, Workers, Waiting, RingOf, list
<1>4. QED
  BY <1>1, <1>2, <1>3, QuietStep DEF IndInv, list

\* Signalling.
LEMMA SignalKeeps ==
  ASSUME IndInv, NEW t \in Threads, NEW from, NEW to, Signal(t, from, to),
         <<from, to>> \in {<<"add_signal", Home(t)>>, <<"pr_signal", "idle">>}
  PROVE  IndInv' /\ UNCHANGED <<order, hand>>
<1>1. /\ from \in {"add_signal", "pr_signal"} /\ to \in {"idle", "rem_lock"}
      /\ pc[t] = from
      /\ pc \in [Threads -> Stages]
      /\ node' = [node EXCEPT ![t] = NULL]
      /\ UNCHANGED <<list, requestID, live, length, count, mutex, order>>
  BY DEF IndInv, TypeOK, Signal, At, Home
<1>2. /\ pc' \in [Threads -> Stages]
      /\ \A u \in Threads :
           \/ u = t /\ pc'[u] = to
           \/ u # t /\ pc'[u] = pc[u]
           \/ u # t /\ pc[u] = "asleep" /\ pc'[u] = "rem_lock"
  <2>1. CASE pc' = [pc EXCEPT ![t] = to]
    BY <1>1, <2>1 DEF Stages, RemoveStages
  <2>2. CASE \E w \in Waiting : pc' = [pc EXCEPT ![t] = to, ![w] = "rem_lock"]
    <3>1. PICK w \in Waiting : pc' = [pc EXCEPT ![t] = to, ![w] = "rem_lock"]
      BY <2>2
    <3>2. w \in Threads /\ pc[w] = "asleep" /\ w # t
      BY <1>1 DEF Waiting, Threads, Workers
    <3>3. QED
      BY <1>1, <3>1, <3>2 DEF Stages, RemoveStages
  <2>3. QED
    BY <2>1, <2>2 DEF Signal
<1>3. TypeOK'
  BY <1>1, <1>2 DEF IndInv, TypeOK, list
<1>4. MutualExclusion'
  BY <1>1, <1>2 DEF IndInv, TypeOK, MutualExclusion, Locked
<1>5. ASSUME NEW u \in Workers
      PROVE  /\ hand'[u] = hand[u]
             /\ ShapeAt(u)'
             /\ pc[u] \in Surgery => pc'[u] \in Surgery
  BY <1>1, <1>2, <1>5
     DEF IndInv, TypeOK, ListShape, ShapeAt, hand, Owning, Surgery, Threads, RingOf, list
<1>6. QED
  BY <1>1, <1>3, <1>4, <1>5, QuietStep DEF IndInv, list

\* A wake-up nobody signalled.
LEMMA SpuriousWakeKeeps ==
  ASSUME IndInv, NEW t \in Consumers, SpuriousWake(t)
  PROVE  IndInv' /\ UNCHANGED <<order, hand>>
<1> USE DEF SpuriousWake, Goto, At
<1>1. TypeOK'
  BY QueueAssumption DEF IndInv, TypeOK, list, Stages, AddStages, RemoveStages, PrintStages, Threads, Workers, Waiting
<1>2. MutualExclusion'
  BY QueueAssumption DEF IndInv, TypeOK, MutualExclusion, Locked, Threads, Workers, Waiting
<1>3. ASSUME NEW u \in Workers
      PROVE  /\ hand'[u] = hand[u]
             /\ ShapeAt(u)'
             /\ pc[u] \in Surgery => pc'[u] \in Surgery
  BY <1>3, QueueAssumption
     DEF IndInv, TypeOK, ListShape, ShapeAt, hand, Owning, Surgery, Threads, Workers, Waiting, RingOf, list
<1>4. QED
  BY <1>1, <1>2, <1>3, QuietStep DEF IndInv, list

\* The consumer is about to add its request again.
LEMMA RequeueKeeps ==
  ASSUME IndInv, NEW t \in Consumers, Requeue(t)
  PROVE  IndInv' /\ UNCHANGED <<order, hand>>
<1> USE DEF Requeue, Goto, At
<1>1. TypeOK'
  BY QueueAssumption DEF IndInv, TypeOK, list, Stages, AddStages, RemoveStages, PrintStages, Threads, Workers, Waiting
<1>2. MutualExclusion'
  BY QueueAssumption DEF IndInv, TypeOK, MutualExclusion, Locked, Threads, Workers, Waiting
<1>3. ASSUME NEW u \in Workers
      PROVE  /\ hand'[u] = hand[u]
             /\ ShapeAt(u)'
             /\ pc[u] \in Surgery => pc'[u] \in Surgery
  BY <1>3, QueueAssumption
     DEF IndInv, TypeOK, ListShape, ShapeAt, hand, Owning, Surgery, Threads, Workers, Waiting, RingOf, list
<1>4. QED
  BY <1>1, <1>2, <1>3, QuietStep DEF IndInv, list

\* qRemove finds the list empty and waits.
LEMMA WaitReadyKeeps ==
  ASSUME IndInv, NEW t \in Consumers, WaitReady(t)
  PROVE  IndInv' /\ UNCHANGED <<order, hand>>
<1> USE DEF WaitReady, Goto, At
<1>1. TypeOK'
  BY QueueAssumption DEF IndInv, TypeOK, list, Stages, AddStages, RemoveStages, PrintStages, Threads, Workers, Waiting
<1>2. MutualExclusion'
  BY QueueAssumption DEF IndInv, TypeOK, MutualExclusion, Locked, Threads, Workers, Waiting
<1>3. ASSUME NEW u \in Workers
      PROVE  /\ hand'[u] = hand[u]
             /\ ShapeAt(u)'
             /\ pc[u] \in Surgery => pc'[u] \in Surgery
  BY <1>3, QueueAssumption
     DEF IndInv, TypeOK, ListShape, ShapeAt, hand, Owning, Surgery, Threads, Workers, Waiting, RingOf, list
<1>4. QED
  BY <1>1, <1>2, <1>3, QuietStep DEF IndInv, list

\* A worker that holds the mutex and is not in the middle of an update finds a
\* ring through all the requests.
LEMMA HolderSeesRing ==
  ASSUME IndInv, NEW t \in Workers, pc[t] \in Locked, pc[t] \notin Surgery
  PROVE  /\ RingOf(order)
         /\ qHead = NULL <=> order = <<>>
         /\ order # <<>> => qHead = Head(order)
<1>1. \A u \in Workers : pc[u] \notin Surgery
  BY DEF IndInv, MutualExclusion, Locked, Surgery, Threads
<1>2. RingOf(order)
  BY <1>1 DEF IndInv, ListShape, ListIsQueue
<1>3. order # <<>> => order[1] \in Nodes /\ Head(order) = order[1]
  BY DEF IndInv, TypeOK
<1>4. QED
  BY <1>2, <1>3, QueueAssumption DEF RingOf, Ring

\* qRemove finds a request and reads the head.
LEMMA TakeHeadKeeps ==
  ASSUME IndInv, NEW t \in Consumers, TakeHead(t)
  PROVE  IndInv' /\ UNCHANGED <<order, hand>>
<1> USE QueueAssumption DEF TakeHead, Goto, At, Oldest
<1>a. order # <<>> /\ qHead = Head(order)
  BY HolderSeesRing DEF Workers, Locked, Surgery
<1>1. TypeOK'
  BY DEF IndInv, TypeOK, list, Stages, AddStages, RemoveStages, PrintStages, Threads, Workers
<1>2. MutualExclusion'
  BY DEF IndInv, TypeOK, MutualExclusion, Locked, Threads, Workers
<1>3. ASSUME NEW u \in Workers
      PROVE  /\ hand'[u] = hand[u]
             /\ ShapeAt(u)'
             /\ pc[u] \in Surgery => pc'[u] \in Surgery
  BY <1>a, <1>3
     DEF IndInv, TypeOK, ListShape, ShapeAt, hand, Owning, Surgery, Threads, Workers, RingOf, list
<1>4. QED
  BY <1>1, <1>2, <1>3, QuietStep DEF IndInv, list

\* getHead() before the lock.
LEMMA ReadHeadKeeps ==
  ASSUME IndInv, NEW t \in Inspectors, ReadHead(t)
  PROVE  IndInv' /\ UNCHANGED <<order, hand>>
<1> USE QueueAssumption DEF ReadHead, Goto, At
<1>1. TypeOK'
  BY DEF IndInv, TypeOK, list, Stages, AddStages, RemoveStages, PrintStages, Threads, Workers
<1>2. MutualExclusion'
  BY DEF IndInv, TypeOK, MutualExclusion, Locked, Threads, Workers
<1>3. ASSUME NEW u \in Workers
      PROVE  /\ hand'[u] = hand[u]
             /\ ShapeAt(u)'
             /\ pc[u] \in Surgery => pc'[u] \in Surgery
  BY <1>3
     DEF IndInv, TypeOK, ListShape, ShapeAt, hand, Owning, Surgery, Threads, Workers, RingOf, list
<1>4. QED
  BY <1>1, <1>2, <1>3, QuietStep DEF IndInv, list

\* print_object tests for an empty list.
LEMMA PrintTestKeeps ==
  ASSUME IndInv, NEW t \in Inspectors, PrintTest(t)
  PROVE  IndInv' /\ UNCHANGED <<order, hand>>
<1> USE QueueAssumption DEF PrintTest, Goto, At
<1>1. TypeOK'
  BY DEF IndInv, TypeOK, list, Stages, AddStages, RemoveStages, PrintStages, Threads, Workers
<1>2. MutualExclusion'
  BY DEF IndInv, TypeOK, MutualExclusion, Locked, Threads, Workers
<1>3. ASSUME NEW u \in Workers
      PROVE  /\ hand'[u] = hand[u]
             /\ ShapeAt(u)'
             /\ pc[u] \in Surgery => pc'[u] \in Surgery
  BY <1>3
     DEF IndInv, TypeOK, ListShape, ShapeAt, hand, Owning, Surgery, Threads, Workers, RingOf, list
<1>4. QED
  BY <1>1, <1>2, <1>3, QuietStep DEF IndInv, list

\* One turn of print_object.
LEMMA PrintNodeKeeps ==
  ASSUME IndInv, NEW t \in Inspectors, PrintNode(t)
  PROVE  IndInv' /\ UNCHANGED <<order, hand>>
<1> USE QueueAssumption DEF PrintNode, Goto, At
<1>1. TypeOK'
  BY DEF IndInv, TypeOK, list, Stages, AddStages, RemoveStages, PrintStages, Threads, Workers
<1>2. MutualExclusion'
  BY DEF IndInv, TypeOK, MutualExclusion, Locked, Threads, Workers
<1>3. ASSUME NEW u \in Workers
      PROVE  /\ hand'[u] = hand[u]
             /\ ShapeAt(u)'
             /\ pc[u] \in Surgery => pc'[u] \in Surgery
  BY <1>3
     DEF IndInv, TypeOK, ListShape, ShapeAt, hand, Owning, Surgery, Threads, Workers, RingOf, list
<1>4. QED
  BY <1>1, <1>2, <1>3, QuietStep DEF IndInv, list

\* print_object follows a null pointer.
LEMMA PrintNullKeeps ==
  ASSUME IndInv, NEW t \in Inspectors, PrintNull(t)
  PROVE  IndInv' /\ UNCHANGED <<order, hand>>
<1> USE QueueAssumption DEF PrintNull, Goto, At
<1>1. TypeOK'
  BY DEF IndInv, TypeOK, list, Stages, AddStages, RemoveStages, PrintStages, Threads, Workers
<1>2. MutualExclusion'
  BY DEF IndInv, TypeOK, MutualExclusion, Locked, Threads, Workers
<1>3. ASSUME NEW u \in Workers
      PROVE  /\ hand'[u] = hand[u]
             /\ ShapeAt(u)'
             /\ pc[u] \in Surgery => pc'[u] \in Surgery
  BY <1>3
     DEF IndInv, TypeOK, ListShape, ShapeAt, hand, Owning, Surgery, Threads, Workers, RingOf, list
<1>4. QED
  BY <1>1, <1>2, <1>3, QuietStep DEF IndInv, list

-----------------------------------------------------------------------------
(* The steps that write the links of a request outside the list.           *)

\* The shape is kept for every worker that has another request in hand.
LEMMA FreshNode ==
  ASSUME IndInv, NEW n \in Nodes, n \notin ToSet(order), NEW v, NEW w,
         next' = [next EXCEPT ![n] = v], prev' = [prev EXCEPT ![n] = w],
         UNCHANGED <<qHead, qTail, order>>
  PROVE  /\ RingOf(order)' <=> RingOf(order)
         /\ \A u \in Workers :
              hand[u] # n /\ pc'[u] = pc[u] /\ node'[u] = node[u] => ShapeAt(u)'
<1> USE DEF IndInv, TypeOK
<1>1. \A i \in 1..Len(order) : order[i] # n
  BY DEF ToSet
<1>2. RingOf(order)' <=> RingOf(order)
  BY <1>1, RingFrame DEF RingOf, Misses
<1>3. ASSUME NEW u \in Workers, hand[u] # n, pc'[u] = pc[u], node'[u] = node[u]
      PROVE  ShapeAt(u)'
  <2>1. ShapeAt(u)
    BY DEF ListShape
  <2>2. pc[u] \in Owning => node[u] # n /\ node[u] \in Nodes
    BY <1>3, <2>1 DEF hand, ShapeAt, Threads
  <2>3. OpenFor(order, node[u], next, prev, qHead, qTail)
          => OpenFor(order, node[u], next', prev', qHead, qTail)
    BY <1>1, RingFrame DEF Misses
  <2>4. HeadMoved(order, next, prev, qHead, qTail)
          => HeadMoved(order, next', prev', qHead, qTail)
    BY <1>1, RingFrame DEF Misses
  <2>5. ASSUME pc[u] = "add_len"
        PROVE  RingOf(Append(order, node[u]))'
    <3> DEFINE a == Append(order, node[u])
    <3>1. node[u] # n /\ node[u] \in Nodes
      BY <2>2, <2>5 DEF Owning
    <3>2. a \in Seq(Nodes) /\ Misses(a, n)
      BY <1>1, <3>1, AppendProperties DEF Misses
    <3>3. Ring(a, next, prev, qHead, qTail)
      BY <2>1, <2>5 DEF ShapeAt, RingOf
    <3> HIDE DEF a
    <3>4. Ring(a, next', prev', qHead, qTail)
      BY <3>2, <3>3, RingFrame
    <3>5. QED
      BY <3>4, <1>3 DEF a, RingOf
  <2>6. ASSUME pc[u] = "rem_len"
        PROVE  RingOf(Tail(order))'
    <3> DEFINE r == Tail(order)
    <3>1. order # <<>> /\ Ring(r, next, prev, qHead, qTail)
      BY <2>1, <2>6 DEF ShapeAt, RingOf
    <3>2. r \in Seq(Nodes) /\ Misses(r, n)
      <4>1. /\ r \in Seq(Nodes) /\ Len(r) = Len(order) - 1
            /\ \A i \in 1..Len(r) : r[i] = order[i + 1]
        BY <3>1, HeadTailProperties
      <4> HIDE DEF r
      <4>2. QED
        BY <4>1, <1>1 DEF Misses
    <3> HIDE DEF r
    <3>3. Ring(r, next', prev', qHead, qTail)
      BY <3>1, <3>2, RingFrame
    <3>4. QED
      BY <3>3 DEF r, RingOf
  <2>7. pc[u] \in {"add_lock", "add_link", "add_tail"}
          => next'[node[u]] = node[u] /\ prev'[node[u]] = node[u]
    BY <2>1, <2>2 DEF ShapeAt, Owning
  <2>8. QED
    BY <1>3, <2>1, <2>3, <2>4, <2>5, <2>6, <2>7 DEF ShapeAt
<1>4. QED
  BY <1>2, <1>3

\* A request is allocated.
LEMMA AllocateKeeps ==
  ASSUME IndInv, NEW t \in Producers, Allocate(t)
  PROVE  IndInv' /\ \E n \in Nodes : Fifo!Acquire(t, n)
<1> USE QueueAssumption DEF IndInv
<1>1. PICK n \in Nodes \ live, id \in InitialIDs :
        /\ live' = live \cup {n}
        /\ node' = [node EXCEPT ![t] = n]
        /\ requestID' = [requestID EXCEPT ![n] = id]
        /\ next' = [next EXCEPT ![n] = NULL]
        /\ prev' = [prev EXCEPT ![n] = NULL]
  BY DEF Allocate
<1>2. /\ t \in Workers /\ t \in Threads /\ pc[t] = "idle"
      /\ pc' = [pc EXCEPT ![t] = "prep"]
      /\ UNCHANGED <<qHead, qTail, length, count, mutex, order>>
  BY DEF Allocate, Goto, At, Workers, Threads
<1>3. TypeOK'
  BY <1>1, <1>2 DEF TypeOK, Stages, AddStages
<1>4. MutualExclusion'
  BY <1>2 DEF TypeOK, MutualExclusion, Locked
<1>5. /\ n \in Nodes /\ n \notin ToSet(order) /\ n # NULL
      /\ \A u \in Workers : hand[u] # n
      /\ hand[t] = NULL
      /\ \A u \in Workers : hand'[u] = IF u = t THEN n ELSE hand[u]
  BY <1>1, <1>2 DEF OneOwner, TypeOK, hand, Owning, Threads
<1>6. OneOwner'
  BY <1>1, <1>2, <1>5 DEF OneOwner
<1>7. \A u \in Workers : ShapeAt(u)'
  <2>1. ShapeAt(t)'
    BY <1>1, <1>2, <1>5 DEF ShapeAt, TypeOK, Owning
  <2>2. ASSUME NEW u \in Workers, u # t
        PROVE  ShapeAt(u)'
    BY <1>1, <1>2, <1>5, <2>2, FreshNode DEF TypeOK, Threads
  <2>3. QED
    BY <2>1, <2>2
<1>8. ListIsQueue'
  BY <1>1, <1>2, <1>5, FreshNode DEF ListIsQueue, ListShape, Surgery, TypeOK, Threads
<1>9. Fifo!Acquire(t, n)
  <2>1. hand' = [hand EXCEPT ![t] = n]
    BY <1>2, <1>5 DEF hand
  <2>2. n \notin Fifo!Held \cup Fifo!ToSet(order)
    BY <1>5 DEF Fifo!Held, Fifo!ToSet, ToSet
  <2>3. QED
    BY <1>2, <1>5, <2>1, <2>2 DEF Fifo!Acquire
<1>10. QED
  BY <1>9, <1>2, <1>3, <1>4, <1>6, <1>7, <1>8 DEF ListShape

\* A request is deleted.
LEMMA DeleteKeeps ==
  ASSUME IndInv, NEW t \in Consumers, Delete(t)
  PROVE  IndInv' /\ Fifo!Discard(t)
<1> USE QueueAssumption DEF IndInv
<1>1. /\ t \in Workers /\ t \in Threads /\ pc[t] = "own"
      /\ pc' = [pc EXCEPT ![t] = "rem_lock"]
      /\ node' = [node EXCEPT ![t] = NULL]
      /\ live' = live \ {node[t]}
      /\ UNCHANGED <<list, requestID, length, count, mutex, order>>
  BY DEF Delete, Goto, At, Workers, Threads
<1>2. TypeOK'
  BY <1>1 DEF TypeOK, Stages, RemoveStages, list
<1>3. MutualExclusion'
  BY <1>1 DEF TypeOK, MutualExclusion, Locked
<1>4. /\ hand[t] = node[t] /\ hand[t] # NULL
      /\ \A u \in Workers : hand'[u] = IF u = t THEN NULL ELSE hand[u]
  BY <1>1 DEF hand, Owning, ListShape, ShapeAt, TypeOK, Threads
<1>5. OneOwner'
  BY <1>1, <1>4 DEF OneOwner
<1>6. \A u \in Workers : ShapeAt(u)'
  BY <1>1 DEF ListShape, ShapeAt, TypeOK, Threads, Owning, RingOf, list
<1>7. ListIsQueue'
  BY <1>1 DEF ListIsQueue, ListShape, Surgery, TypeOK, Threads, RingOf, list
<1>8. Fifo!Discard(t)
  BY <1>1, <1>4 DEF Fifo!Discard, hand
<1>9. QED
  BY <1>8, <1>1, <1>2, <1>3, <1>5, <1>6, <1>7 DEF ListShape

\* qAdd links the request to itself and gives it an ID.
LEMMA PrepareKeeps ==
  ASSUME IndInv, NEW t \in Workers, Prepare(t)
  PROVE  IndInv' /\ UNCHANGED <<order, hand>>
<1> USE QueueAssumption DEF IndInv
<1> DEFINE n == node[t]
<1>1. /\ t \in Threads /\ pc[t] = "prep"
      /\ pc' = [pc EXCEPT ![t] = "add_lock"]
      /\ next' = [next EXCEPT ![n] = n]
      /\ prev' = [prev EXCEPT ![n] = n]
      /\ requestID' = [requestID EXCEPT ![n] = IF @ = Unassigned THEN AsInt(count) ELSE @]
      /\ UNCHANGED <<live, qHead, qTail, length, count, mutex, node, order>>
  BY DEF Prepare, Goto, At, Threads, IDFor
<1>2. n \in Nodes /\ n # NULL /\ hand[t] = n
  BY <1>1 DEF ListShape, ShapeAt, Owning, TypeOK, hand
<1>3. TypeOK'
  <2>1. AsInt(count) \in Int
    BY DEF AsInt, TypeOK
  <2>2. QED
    BY <1>1, <1>2, <2>1 DEF TypeOK, Stages, AddStages
<1>4. MutualExclusion'
  BY <1>1 DEF TypeOK, MutualExclusion, Locked
<1>5. /\ n \notin ToSet(order)
      /\ \A u \in Workers : u # t => hand[u] # n
      /\ \A u \in Workers : hand'[u] = hand[u]
  BY <1>1, <1>2 DEF OneOwner, hand, Owning, TypeOK, Threads
<1> HIDE DEF n
<1>6. OneOwner'
  BY <1>1, <1>5 DEF OneOwner
<1>7. \A u \in Workers : ShapeAt(u)'
  <2>1. ShapeAt(t)'
    BY <1>1, <1>2 DEF ShapeAt, TypeOK, n
  <2>2. ASSUME NEW u \in Workers, u # t
        PROVE  ShapeAt(u)'
    BY <1>1, <1>2, <1>5, <2>2, FreshNode DEF TypeOK, Threads
  <2>3. QED
    BY <2>1, <2>2
<1>8. ListIsQueue'
  BY <1>1, <1>2, <1>5, FreshNode DEF ListIsQueue, ListShape, Surgery, TypeOK, Threads
<1>9. UNCHANGED <<order, hand>>
  BY <1>1 DEF hand, Owning, TypeOK, Threads
<1>10. QED
  BY <1>9, <1>1, <1>3, <1>4, <1>6, <1>7, <1>8 DEF ListShape

-----------------------------------------------------------------------------
(* The steps of qAdd and qRemove that write the list.  Only the holder of  *)
(* the mutex takes one, so no other worker is at a stage that says         *)
(* anything of the list.                                                   *)

\* When t writes the list, and only links of queued requests and of its own,
\* the other workers keep their shape.
LEMMA OthersAway ==
  ASSUME IndInv, NEW t \in Workers, pc[t] \in Locked,
         \A u \in Workers : u # t => pc'[u] = pc[u] /\ node'[u] = node[u],
         \A m \in Nodes : m \notin ToSet(order) \cup {hand[t]} =>
                            next'[m] = next[m] /\ prev'[m] = prev[m]
  PROVE  \A u \in Workers : u # t => pc[u] \notin Locked /\ ShapeAt(u)'
<1> USE DEF IndInv
<1>1. SUFFICES ASSUME NEW u \in Workers, u # t
               PROVE  pc[u] \notin Locked /\ ShapeAt(u)'
  OBVIOUS
<1>2. pc[u] \notin Locked
  BY <1>1 DEF MutualExclusion, Threads
<1>3. ShapeAt(u)
  BY DEF ListShape
<1>4. CASE pc[u] = "add_lock"
  <2>1. hand[u] = node[u] /\ node[u] # NULL
    BY <1>3, <1>4 DEF ShapeAt, hand, Owning
  <2>2. node[u] \in Nodes /\ node[u] \notin ToSet(order) \cup {hand[t]}
    BY <1>1, <2>1 DEF OneOwner, TypeOK, Threads
  <2>3. next'[node[u]] = node[u] /\ prev'[node[u]] = node[u]
    BY <1>3, <1>4, <2>2 DEF ShapeAt
  <2>4. QED
    BY <1>1, <1>2, <1>3, <1>4, <2>3 DEF ShapeAt, Owning
<1>5. CASE pc[u] # "add_lock"
  BY <1>1, <1>2, <1>3, <1>5 DEF ShapeAt, Locked
<1>6. QED
  BY <1>2, <1>4, <1>5

\* The queued requests, by their places.
LEMMA QueuedOnce ==
  ASSUME IndInv
  PROVE  /\ order \in Seq(Nodes) /\ Len(order) \in Nat
         /\ Distinct(order)
         /\ \A n \in Nodes : n \notin ToSet(order) <=> Misses(order, n)
         /\ \A i \in 1..Len(order) : order[i] \in ToSet(order) /\ order[i] # NULL
BY QueueAssumption DEF IndInv, TypeOK, OneOwner, Distinct, Misses, ToSet

\* qAdd opens the ring.
LEMMA LinkNeighboursKeeps ==
  ASSUME IndInv, NEW t \in Workers, LinkNeighbours(t)
  PROVE  IndInv' /\ UNCHANGED <<order, hand>>
<1> USE QueueAssumption DEF IndInv
<1> DEFINE n == node[t]
<1>1. /\ t \in Threads /\ pc[t] = "add_link"
      /\ pc' = [pc EXCEPT ![t] = "add_tail"]
      /\ UNCHANGED <<requestID, live, qHead, length, count, mutex, node, order>>
      /\ \/ qHead = NULL /\ qTail' = n /\ UNCHANGED <<next, prev>>
         \/ /\ qHead # NULL
            /\ next' = [next EXCEPT ![qTail] = n]
            /\ prev' = [prev EXCEPT ![qHead] = n]
            /\ UNCHANGED qTail
  BY DEF LinkNeighbours, Goto, At, Threads
<1>2. /\ n \in Nodes /\ n # NULL /\ hand[t] = n
      /\ next[n] = n /\ prev[n] = n
  BY <1>1 DEF ListShape, ShapeAt, Owning, TypeOK, hand
<1>3. /\ n \notin ToSet(order)
      /\ \A u \in Workers : hand'[u] = hand[u]
  BY <1>1, <1>2 DEF OneOwner, hand, Owning, TypeOK, Threads
<1> HIDE DEF n
<1>4. /\ Ring(order, next, prev, qHead, qTail)
      /\ qHead = NULL <=> order = <<>>
  BY <1>1, HolderSeesRing DEF RingOf, Locked, Surgery
<1>5. order # <<>> => qHead \in ToSet(order) /\ qTail \in ToSet(order)
  BY <1>4, QueuedOnce DEF Ring
<1>6. TypeOK'
  BY <1>1, <1>2 DEF TypeOK, Stages, AddStages
<1>7. MutualExclusion'
  BY <1>1 DEF TypeOK, MutualExclusion, Locked
<1>8. OneOwner'
  BY <1>1, <1>3 DEF OneOwner
<1>9. /\ OpenFor(order, n, next', prev', qHead, qTail')
      /\ next'[n] = n /\ prev'[n] = n
  <2>1. CASE qHead = NULL
    BY <1>1, <1>2, <1>4, <2>1 DEF OpenFor
  <2>2. CASE qHead # NULL
    <3>1. order # <<>> /\ Misses(order, n) /\ Distinct(order) /\ order \in Seq(Nodes)
      BY <1>2, <1>3, <1>4, <2>2, QueuedOnce
    <3>2. /\ next \in [Nodes -> Nodes \cup {NULL}]
          /\ prev \in [Nodes -> Nodes \cup {NULL}]
      BY DEF TypeOK
    <3>3. /\ OpenFor(order, n, [next EXCEPT ![qTail] = n], [prev EXCEPT ![qHead] = n], qHead, qTail)
          /\ [next EXCEPT ![qTail] = n][n] = next[n]
          /\ [prev EXCEPT ![qHead] = n][n] = prev[n]
      BY <1>2, <1>4, <3>1, <3>2, OpenRing
    <3>4. QED
      BY <1>1, <1>2, <2>2, <3>3
  <2>3. QED
    BY <2>1, <2>2
<1>10. \A u \in Workers : ShapeAt(u)'
  <2>1. ShapeAt(t)'
    BY <1>1, <1>2, <1>9 DEF ShapeAt, TypeOK, n
  <2>2. \A m \in Nodes : m \notin ToSet(order) \cup {hand[t]} =>
                           next'[m] = next[m] /\ prev'[m] = prev[m]
    BY <1>1, <1>4, <1>5 DEF TypeOK
  <2>3. QED
    BY <1>1, <2>1, <2>2, OthersAway DEF TypeOK, Locked, Threads
<1>11. ListIsQueue'
  BY <1>1 DEF ListIsQueue, Surgery, TypeOK, Threads
<1>12. UNCHANGED <<order, hand>>
  BY <1>1 DEF hand, Owning, TypeOK, Threads
<1>13. QED
  BY <1>12, <1>1, <1>6, <1>7, <1>8, <1>10, <1>11 DEF ListShape

\* qAdd closes the ring.
LEMMA LinkNewKeeps ==
  ASSUME IndInv, NEW t \in Workers, LinkNew(t)
  PROVE  IndInv' /\ UNCHANGED <<order, hand>>
<1> USE QueueAssumption DEF IndInv
<1> DEFINE n == node[t]
<1>1. /\ t \in Threads /\ pc[t] = "add_tail"
      /\ pc' = [pc EXCEPT ![t] = "add_len"]
      /\ UNCHANGED <<requestID, live, length, count, mutex, node, order>>
      /\ \/ qHead = NULL /\ qHead' = n /\ UNCHANGED <<next, prev, qTail>>
         \/ /\ qHead # NULL
            /\ prev' = [prev EXCEPT ![n] = qTail]
            /\ next' = [next EXCEPT ![n] = qHead]
            /\ qTail' = next[qTail]
            /\ UNCHANGED qHead
  BY DEF LinkNew, Goto, At, Threads
<1>2. /\ n \in Nodes /\ n # NULL /\ hand[t] = n
      /\ next[n] = n /\ prev[n] = n
      /\ OpenFor(order, n, next, prev, qHead, qTail)
  BY <1>1 DEF ListShape, ShapeAt, Owning, TypeOK, hand
<1>3. /\ n \notin ToSet(order)
      /\ \A u \in Workers : hand'[u] = hand[u]
  BY <1>1, <1>2 DEF OneOwner, hand, Owning, TypeOK, Threads
<1> HIDE DEF n
<1>4. qHead = NULL <=> order = <<>>
  BY <1>2, QueuedOnce DEF OpenFor
<1>5. qHead # NULL => next[qTail] = n
  BY <1>2, <1>4 DEF OpenFor
<1>6. TypeOK'
  <2>1. /\ next' \in [Nodes -> Nodes \cup {NULL}]
        /\ prev' \in [Nodes -> Nodes \cup {NULL}]
        /\ qHead' \in Nodes \cup {NULL} /\ qTail' \in Nodes \cup {NULL}
    <3>1. CASE qHead = NULL
      BY <1>1, <1>2, <3>1 DEF TypeOK
    <3>2. CASE qHead # NULL
      <4>1. /\ qHead' = qHead /\ qTail' = n
            /\ next' = [next EXCEPT ![n] = qHead]
            /\ prev' = [prev EXCEPT ![n] = qTail]
        BY <1>1, <1>5, <3>2
      <4>2. QED
        BY <1>2, <4>1 DEF TypeOK
    <3>3. QED
      BY <3>1, <3>2
  <2>2. pc' \in [Threads -> Stages]
    BY <1>1 DEF TypeOK, Stages, AddStages
  <2>3. QED
    BY <1>1, <2>1, <2>2 DEF TypeOK
<1>7. MutualExclusion'
  BY <1>1 DEF TypeOK, MutualExclusion, Locked
<1>8. OneOwner'
  BY <1>1, <1>3 DEF OneOwner
<1>9. Ring(Append(order, n), next', prev', qHead', qTail')
  <2>1. /\ next \in [Nodes -> Nodes \cup {NULL}]
        /\ prev \in [Nodes -> Nodes \cup {NULL}]
    BY DEF TypeOK
  <2>2. CASE qHead = NULL
    <3>1. qTail = n /\ order = <<>>
      BY <1>2, <1>4, <2>2 DEF OpenFor
    <3>2. Ring(Append(<<>>, n), next, prev, n, n)
      BY <1>2, <2>1, RingOfOne
    <3>3. QED
      BY <1>1, <2>2, <3>1, <3>2
  <2>3. CASE qHead # NULL
    <3>1. order # <<>> /\ Misses(order, n) /\ order \in Seq(Nodes)
      BY <1>2, <1>3, <1>4, <2>3, QueuedOnce
    <3>2. Ring(Append(order, n), [next EXCEPT ![n] = qHead], [prev EXCEPT ![n] = qTail],
               qHead, next[qTail])
      BY <1>2, <2>1, <3>1, CloseOpened
    <3>3. QED
      BY <1>1, <2>3, <3>2
  <2>4. QED
    BY <2>2, <2>3
<1>10. \A u \in Workers : ShapeAt(u)'
  <2>1. ShapeAt(t)'
    <3>1. pc'[t] = "add_len" /\ node'[t] = n
      BY <1>1 DEF TypeOK, n
    <3>2. RingOf(Append(order, node[t]))'
      BY <1>1, <1>9 DEF RingOf, n
    <3>3. QED
      BY <1>2, <3>1, <3>2 DEF ShapeAt
  <2>2. \A m \in Nodes : m \notin ToSet(order) \cup {hand[t]} =>
                           next'[m] = next[m] /\ prev'[m] = prev[m]
    BY <1>1, <1>2 DEF TypeOK
  <2>3. QED
    BY <1>1, <2>1, <2>2, OthersAway DEF TypeOK, Locked, Threads
<1>11. ListIsQueue'
  BY <1>1 DEF ListIsQueue, Surgery, TypeOK, Threads
<1>12. UNCHANGED <<order, hand>>
  BY <1>1 DEF hand, Owning, TypeOK, Threads
<1>13. QED
  BY <1>12, <1>1, <1>6, <1>7, <1>8, <1>10, <1>11 DEF ListShape

\* qAdd counts the request, which is now in the queue.
LEMMA AddLengthKeeps ==
  ASSUME IndInv, NEW t \in Workers, AddLength(t)
  PROVE  IndInv' /\ Fifo!Enqueue(t)
<1> USE QueueAssumption DEF IndInv
<1> DEFINE n == node[t]
<1>1. /\ t \in Threads /\ pc[t] = "add_len"
      /\ pc' = [pc EXCEPT ![t] = "add_unlock"]
      /\ length' = length + 1 /\ count' = (count + 1) % UIntSize
      /\ order' = Append(order, n)
      /\ UNCHANGED <<next, prev, qHead, qTail, requestID, live, mutex, node>>
  BY DEF AddLength, Goto, At, Threads, list, OneMore
<1>2. /\ n \in Nodes /\ n # NULL /\ hand[t] = n
      /\ Ring(order', next, prev, qHead, qTail)
  BY <1>1 DEF ListShape, ShapeAt, Owning, TypeOK, hand, RingOf
<1>3. /\ n \notin ToSet(order) /\ n \in live
      /\ \A u \in Workers : u # t => hand[u] # n
      /\ \A u \in Workers : hand'[u] = IF u = t THEN NULL ELSE hand[u]
  BY <1>1, <1>2 DEF OneOwner, hand, Owning, TypeOK, Threads
<1> HIDE DEF n
<1>4. /\ order' \in Seq(Nodes) /\ Len(order') = Len(order) + 1
      /\ \A i \in 1..Len(order) : order'[i] = order[i]
      /\ order'[Len(order) + 1] = n
  BY <1>1, <1>2, AppendProperties DEF TypeOK
<1>5. ToSet(order)' = ToSet(order) \cup {n}
  <2>1. DOMAIN order' = 1..(Len(order) + 1) /\ DOMAIN order = 1..Len(order)
    BY <1>4 DEF TypeOK
  <2>2. Len(order) \in Nat
    BY DEF TypeOK
  <2>3. \A x : x \in ToSet(order)' <=> \E i \in 1..(Len(order) + 1) : order'[i] = x
    BY <2>1 DEF ToSet
  <2>4. \A x : x \in ToSet(order) <=> \E i \in 1..Len(order) : order[i] = x
    BY <2>1 DEF ToSet
  <2>5. \A x : x \in ToSet(order)' <=> x \in ToSet(order) \cup {n}
    BY <1>4, <2>2, <2>3, <2>4
  <2>6. QED
    BY <2>5
<1>6. TypeOK'
  BY <1>1, <1>4 DEF TypeOK, Stages, AddStages
<1>7. MutualExclusion'
  BY <1>1 DEF TypeOK, MutualExclusion, Locked
<1>8. OneOwner'
  <2>1. \A i, j \in DOMAIN order' : order'[i] = order'[j] => i = j
    <3>1. \A i \in 1..Len(order) : order[i] # n
      BY <1>3 DEF ToSet, TypeOK
    <3>2. Distinct(order) /\ Len(order) \in Nat /\ DOMAIN order' = 1..(Len(order) + 1)
      BY <1>4, QueuedOnce
    <3>3. QED
      BY <1>4, <3>1, <3>2 DEF Distinct
  <2>2. QED
    BY <1>1, <1>3, <1>5, <2>1 DEF OneOwner
<1>9. \A u \in Workers : ShapeAt(u)'
  <2>1. ShapeAt(t)'
    BY <1>1 DEF ShapeAt, TypeOK, Owning
  <2>2. QED
    BY <1>1, <2>1, OthersAway DEF TypeOK, Locked, Threads
<1>10. ListIsQueue' /\ length' = Len(order')
  BY <1>1, <1>2, <1>4 DEF ListIsQueue, ListShape, RingOf
<1>11. Fifo!Enqueue(t)
  BY <1>1, <1>2, <1>3 DEF Fifo!Enqueue, hand
<1>12. QED
  BY <1>11, <1>6, <1>7, <1>8, <1>9, <1>10 DEF ListShape

\* qRemove unlinks the last request.
LEMMA UnlinkLastKeeps ==
  ASSUME IndInv, NEW t \in Consumers, UnlinkLast(t)
  PROVE  IndInv' /\ UNCHANGED <<order, hand>>
<1> USE QueueAssumption DEF IndInv
<1>1. /\ t \in Workers /\ t \in Threads /\ pc[t] = "rem_head"
      /\ length <= 1
      /\ pc' = [pc EXCEPT ![t] = "rem_len"]
      /\ qHead' = NULL /\ qTail' = NULL
      /\ UNCHANGED <<next, prev, requestID, live, length, count, mutex, node, order>>
  BY DEF UnlinkLast, Goto, At, Workers, Threads, LastOne
<1>2. order # <<>> /\ node[t] = Head(order) /\ length = Len(order)
  BY <1>1 DEF ListShape, ShapeAt
<1>3. Tail(order) = <<>>
  <2>1. Len(order) = 1
    BY <1>1, <1>2, QueuedOnce
  <2>2. Tail(order) \in Seq(Nodes) /\ Len(Tail(order)) = 0
    BY <1>2, <2>1, HeadTailProperties DEF TypeOK
  <2>3. QED
    BY <2>2, EmptySeq
<1>4. TypeOK'
  BY <1>1 DEF TypeOK, Stages, RemoveStages
<1>5. MutualExclusion'
  BY <1>1 DEF TypeOK, MutualExclusion, Locked
<1>6. OneOwner'
  BY <1>1 DEF OneOwner, hand, Owning, TypeOK, Threads
<1>7. \A u \in Workers : ShapeAt(u)'
  <2>1. Ring(Tail(order), next, prev, NULL, NULL)
    BY <1>3 DEF Ring
  <2>2. ShapeAt(t)'
    BY <1>1, <1>2, <2>1 DEF ShapeAt, TypeOK, RingOf, Owning
  <2>3. QED
    BY <1>1, <2>2, OthersAway DEF TypeOK, Locked, Threads
<1>8. ListIsQueue'
  BY <1>1 DEF ListIsQueue, Surgery, TypeOK, Threads
<1>9. UNCHANGED <<order, hand>>
  BY <1>1 DEF hand, Owning, TypeOK, Threads
<1>10. QED
  BY <1>9, <1>1, <1>4, <1>5, <1>6, <1>7, <1>8 DEF ListShape

\* qRemove moves the head on.
LEMMA AdvanceHeadKeeps ==
  ASSUME IndInv, NEW t \in Consumers, AdvanceHead(t)
  PROVE  IndInv' /\ UNCHANGED <<order, hand>>
<1> USE QueueAssumption DEF IndInv
<1>1. /\ t \in Workers /\ t \in Threads /\ pc[t] = "rem_head"
      /\ length > 1
      /\ pc' = [pc EXCEPT ![t] = "rem_fix"]
      /\ qHead' = next[qHead]
      /\ UNCHANGED <<next, prev, qTail, requestID, live, length, count, mutex, node, order>>
  BY DEF AdvanceHead, Goto, At, Workers, Threads
<1>2. /\ order # <<>> /\ node[t] = Head(order) /\ Len(order) > 1
      /\ order \in Seq(Nodes)
  BY <1>1 DEF ListShape, ShapeAt, TypeOK
<1>3. Ring(order, next, prev, qHead, qTail)
  BY <1>1, HolderSeesRing DEF RingOf, Locked, Surgery
<1>4. HeadMoved(order, next, prev, qHead', qTail)
  BY <1>1, <1>2, <1>3, MoveHead
<1>5. qHead' \in Nodes
  BY <1>2, <1>4 DEF HeadMoved
<1>6. TypeOK'
  BY <1>1, <1>5 DEF TypeOK, Stages, RemoveStages
<1>7. MutualExclusion'
  BY <1>1 DEF TypeOK, MutualExclusion, Locked
<1>8. OneOwner'
  BY <1>1 DEF OneOwner, hand, Owning, TypeOK, Threads
<1>9. \A u \in Workers : ShapeAt(u)'
  <2>1. ShapeAt(t)'
    BY <1>1, <1>2, <1>4 DEF ShapeAt, TypeOK, Owning
  <2>2. QED
    BY <1>1, <2>1, OthersAway DEF TypeOK, Locked, Threads
<1>10. ListIsQueue'
  BY <1>1 DEF ListIsQueue, Surgery, TypeOK, Threads
<1>11. UNCHANGED <<order, hand>>
  BY <1>1 DEF hand, Owning, TypeOK, Threads
<1>12. QED
  BY <1>11, <1>1, <1>6, <1>7, <1>8, <1>9, <1>10 DEF ListShape

\* qRemove closes the ring.
LEMMA CloseRingKeeps ==
  ASSUME IndInv, NEW t \in Consumers, CloseRing(t)
  PROVE  IndInv' /\ UNCHANGED <<order, hand>>
<1> USE QueueAssumption DEF IndInv
<1> DEFINE last == IF Len(order) = 2 THEN qHead ELSE qTail
<1>1. length = Len(order)
  BY DEF ListShape
<1>2. /\ t \in Workers /\ t \in Threads /\ pc[t] = "rem_fix"
      /\ pc' = [pc EXCEPT ![t] = "rem_len"]
      /\ qTail' = last
      /\ prev' = [prev EXCEPT ![qHead] = last]
      /\ next' = [next EXCEPT ![last] = qHead]
      /\ UNCHANGED <<qHead, requestID, live, length, count, mutex, node, order>>
  BY <1>1 DEF CloseRing, Goto, At, Workers, Threads, PrevOfHead
<1>3. /\ order # <<>> /\ node[t] = Head(order)
      /\ HeadMoved(order, next, prev, qHead, qTail)
  BY <1>2 DEF ListShape, ShapeAt
<1>4. qHead \in ToSet(order) /\ last \in ToSet(order)
  BY <1>3, QueuedOnce DEF HeadMoved
<1>5. qHead \in Nodes /\ last \in Nodes
  BY <1>4, QueuedOnce DEF ToSet
<1>6. Ring(Tail(order), next', prev', qHead', qTail')
  <2>1. /\ next \in [Nodes -> Nodes \cup {NULL}]
        /\ prev \in [Nodes -> Nodes \cup {NULL}]
        /\ order \in Seq(Nodes) /\ Distinct(order)
    BY QueuedOnce DEF TypeOK
  <2>2. Ring(Tail(order), [next EXCEPT ![last] = qHead], [prev EXCEPT ![qHead] = last],
             qHead, last)
    BY <1>3, <2>1, CloseMoved
  <2>3. QED
    BY <1>2, <2>2
<1> HIDE DEF last
<1>7. TypeOK'
  BY <1>2, <1>5 DEF TypeOK, Stages, RemoveStages
<1>8. MutualExclusion'
  BY <1>2 DEF TypeOK, MutualExclusion, Locked
<1>9. OneOwner'
  BY <1>2 DEF OneOwner, hand, Owning, TypeOK, Threads
<1>10. \A u \in Workers : ShapeAt(u)'
  <2>1. ShapeAt(t)'
    BY <1>2, <1>3, <1>6 DEF ShapeAt, TypeOK, RingOf, Owning
  <2>2. \A m \in Nodes : m \notin ToSet(order) \cup {hand[t]} =>
                           next'[m] = next[m] /\ prev'[m] = prev[m]
    BY <1>2, <1>4 DEF TypeOK
  <2>3. QED
    BY <1>2, <2>1, <2>2, OthersAway DEF TypeOK, Locked, Threads
<1>11. ListIsQueue'
  BY <1>2 DEF ListIsQueue, Surgery, TypeOK, Threads
<1>12. UNCHANGED <<order, hand>>
  BY <1>2 DEF hand, Owning, TypeOK, Threads
<1>13. QED
  BY <1>12, <1>1, <1>2, <1>7, <1>8, <1>9, <1>10, <1>11 DEF ListShape

\* qRemove counts the request off, which is now its caller's.
LEMMA RemoveLengthKeeps ==
  ASSUME IndInv, NEW t \in Consumers, RemoveLength(t)
  PROVE  IndInv' /\ Fifo!Dequeue(t)
<1> USE QueueAssumption DEF IndInv
<1> DEFINE n == node[t]
<1>1. /\ t \in Workers /\ t \in Threads /\ pc[t] = "rem_len"
      /\ pc' = [pc EXCEPT ![t] = "rem_unlock"]
      /\ length' = length - 1
      /\ order' = Tail(order)
      /\ UNCHANGED <<next, prev, qHead, qTail, requestID, live, count, mutex, node>>
  BY DEF RemoveLength, Goto, At, Workers, Threads, list
<1>2. /\ order # <<>> /\ n = order[1] /\ length = Len(order)
      /\ Ring(order', next, prev, qHead, qTail)
      /\ hand[t] = NULL
  BY <1>1 DEF ListShape, ShapeAt, Owning, hand, RingOf
<1> HIDE DEF n
<1>3. /\ order' \in Seq(Nodes) /\ Len(order') = Len(order) - 1
      /\ \A i \in 1..Len(order') : order'[i] = order[i + 1]
      /\ Len(order) \in Nat \ {0}
  BY <1>1, <1>2, HeadTailProperties, EmptySeq DEF TypeOK
<1>4. /\ n \in ToSet(order) /\ n # NULL
      /\ ToSet(order)' \subseteq ToSet(order)
      /\ n \notin ToSet(order)'
  <2>1. n \in ToSet(order) /\ n # NULL
    BY <1>2, <1>3, QueuedOnce
  <2>2. DOMAIN order' = 1..Len(order')
    BY <1>3
  <2>3. \A x : x \in ToSet(order)' => \E i \in 1..(Len(order) - 1) : order[i + 1] = x
    BY <1>3, <2>2 DEF ToSet
  <2>4. \A i \in 1..(Len(order) - 1) : order[i + 1] \in ToSet(order) /\ order[i + 1] # n
    BY <1>2, <1>3, QueuedOnce DEF Distinct
  <2>5. QED
    BY <2>1, <2>3, <2>4
<1>5. \A u \in Workers : hand'[u] = IF u = t THEN n ELSE hand[u]
  BY <1>1 DEF hand, Owning, TypeOK, Threads, n
<1>6. TypeOK'
  BY <1>1, <1>2, <1>3 DEF TypeOK, Stages, RemoveStages
<1>7. MutualExclusion'
  BY <1>1 DEF TypeOK, MutualExclusion, Locked
<1>8. OneOwner'
  <2>1. ASSUME NEW i \in DOMAIN order', NEW j \in DOMAIN order', order'[i] = order'[j] PROVE i = j
    <3>1. i \in Nat /\ j \in Nat /\ i + 1 \in 1..Len(order) /\ j + 1 \in 1..Len(order)
      BY <1>3
    <3>2. order[i + 1] = order[j + 1]
      BY <1>3, <2>1
    <3>3. i + 1 = j + 1
      BY <3>1, <3>2, QueuedOnce DEF Distinct
    <3>4. QED
      BY <3>1, <3>3
  <2>2. QED
    BY <1>1, <1>4, <1>5, <2>1 DEF OneOwner
<1>9. \A u \in Workers : ShapeAt(u)'
  <2>1. ShapeAt(t)'
    BY <1>1, <1>4 DEF ShapeAt, TypeOK, Owning, n
  <2>2. QED
    BY <1>1, <2>1, OthersAway DEF TypeOK, Locked, Threads
<1>10. ListIsQueue' /\ length' = Len(order')
  BY <1>1, <1>2, <1>3 DEF ListIsQueue, ListShape, RingOf
<1>11. Fifo!Dequeue(t)
  <2>1. hand' = [hand EXCEPT ![t] = n]
    BY <1>1, <1>5 DEF hand
  <2>2. n = Head(order)
    BY <1>2
  <2>3. QED
    BY <1>1, <1>2, <2>1, <2>2 DEF Fifo!Dequeue
<1>12. QED
  BY <1>11, <1>6, <1>7, <1>8, <1>9, <1>10 DEF ListShape

-----------------------------------------------------------------------------
(* The theorems.                                                           *)

LEMMA InitHolds == Init => IndInv
<1> SUFFICES ASSUME Init PROVE IndInv
  OBVIOUS
<1> USE QueueAssumption DEF Init
<1>1. pc = [t \in Threads |-> Home(t)] /\ \A t \in Threads : pc[t] \in {"idle", "rem_lock"}
  BY DEF Home
<1>2. TypeOK
  BY <1>1 DEF TypeOK, Stages, RemoveStages, Unassigned
<1>3. MutualExclusion
  BY <1>1 DEF MutualExclusion, Locked
<1>4. OneOwner
  BY <1>1 DEF OneOwner, hand, Owning, ToSet, Threads
<1>5. ListShape
  BY <1>1 DEF ListShape, ListIsQueue, RingOf, Ring, ShapeAt, Owning, Threads
<1>6. QED
  BY <1>2, <1>3, <1>4, <1>5 DEF IndInv

\* Every step keeps the invariant, and is a step of the FIFO queue or leaves it
\* as it is.
LEMMA StepKeeps ==
  IndInv /\ [Next]_vars => IndInv' /\ [Fifo!FifoNext]_<<order, hand>>
<1> SUFFICES ASSUME IndInv, [Next]_vars
               PROVE  IndInv' /\ [Fifo!FifoNext]_<<order, hand>>
  OBVIOUS
<1>1. ASSUME NEW t \in Workers, QAdd(t)
      PROVE  IndInv' /\ [Fifo!FifoNext]_<<order, hand>>
  <2>1. CASE Prepare(t)
    BY <2>1, PrepareKeeps
  <2>2. CASE AddLock(t)
    BY <2>2, LockKeeps DEF AddLock, Threads
  <2>3. CASE LinkNeighbours(t)
    BY <2>3, LinkNeighboursKeeps
  <2>4. CASE LinkNew(t)
    BY <2>4, LinkNewKeeps
  <2>5. CASE AddLength(t)
    BY <2>5, AddLengthKeeps DEF Fifo!FifoNext
  <2>6. CASE AddUnlock(t)
    BY <2>6, UnlockKeeps DEF AddUnlock, Threads
  <2>7. CASE AddSignal(t)
    BY <2>7, SignalKeeps DEF AddSignal, Threads
  <2>8. QED
    BY <1>1, <2>1, <2>2, <2>3, <2>4, <2>5, <2>6, <2>7 DEF QAdd
<1>2. ASSUME NEW t \in Consumers, QRemove(t)
      PROVE  IndInv' /\ [Fifo!FifoNext]_<<order, hand>>
  <2>1. CASE RemoveLock(t)
    BY <2>1, LockKeeps DEF RemoveLock, Threads, Workers
  <2>2. CASE WaitReady(t)
    BY <2>2, WaitReadyKeeps
  <2>3. CASE TakeHead(t)
    BY <2>3, TakeHeadKeeps
  <2>4. CASE UnlinkLast(t)
    BY <2>4, UnlinkLastKeeps
  <2>5. CASE AdvanceHead(t)
    BY <2>5, AdvanceHeadKeeps
  <2>6. CASE CloseRing(t)
    BY <2>6, CloseRingKeeps
  <2>7. CASE RemoveLength(t)
    BY <2>7, RemoveLengthKeeps DEF Fifo!FifoNext, Workers
  <2>8. CASE RemoveUnlock(t)
    BY <2>8, UnlockKeeps DEF RemoveUnlock, Threads, Workers
  <2>9. QED
    BY <1>2, <2>1, <2>2, <2>3, <2>4, <2>5, <2>6, <2>7, <2>8 DEF QRemove
<1>3. ASSUME NEW t \in Inspectors, PrintObject(t)
      PROVE  IndInv' /\ [Fifo!FifoNext]_<<order, hand>>
  <2>1. CASE ReadHead(t)
    BY <2>1, ReadHeadKeeps
  <2>2. CASE PrintLock(t)
    BY <2>2, LockKeeps DEF PrintLock, Threads
  <2>3. CASE PrintTest(t)
    BY <2>3, PrintTestKeeps
  <2>4. CASE PrintNode(t)
    BY <2>4, PrintNodeKeeps
  <2>5. CASE PrintNull(t)
    BY <2>5, PrintNullKeeps
  <2>6. CASE PrintUnlock(t)
    BY <2>6, UnlockKeeps DEF PrintUnlock, Threads
  <2>7. CASE PrintSignal(t)
    BY <2>7, SignalKeeps DEF PrintSignal, Threads
  <2>8. QED
    BY <1>3, <2>1, <2>2, <2>3, <2>4, <2>5, <2>6, <2>7 DEF PrintObject
<1>4. CASE \E p \in Producers : Producer(p)
  BY <1>1, <1>4, AllocateKeeps DEF Producer, Workers, Fifo!FifoNext
<1>5. CASE \E c \in Consumers : Consumer(c) \/ SpuriousWake(c)
  BY <1>1, <1>2, <1>5, DeleteKeeps, RequeueKeeps, SpuriousWakeKeeps DEF Consumer, Workers, Fifo!FifoNext
<1>6. CASE UNCHANGED vars
  BY <1>6 DEF vars, IndInv, TypeOK, MutualExclusion, OneOwner, hand, ListShape, ListIsQueue,
              RingOf, ShapeAt
<1>7. QED
  BY <1>3, <1>4, <1>5, <1>6 DEF Next

\* The invariant of the queue, for every number of threads, requests and adds.
THEOREM Invariance == Spec => []IndInv
BY InitHolds, StepKeeps, PTL DEF Spec

\* Every variable of IARequestQueue and of its callers keeps its type: length
\* never goes below zero, and the head and the tail are requests or null.
THEOREM TypeCorrect == Spec => []TypeOK
<1>1. IndInv => TypeOK
  BY DEF IndInv
<1>2. QED
  BY <1>1, Invariance, PTL

\* The mutex of the queue excludes: at most one thread is inside a locked
\* region of qAdd, qRemove or print_object.
THEOREM Exclusion == Spec => []MutualExclusion
<1>1. IndInv => MutualExclusion
  BY DEF IndInv
<1>2. QED
  BY <1>1, Invariance, PTL

\* No request is lost, handed to two threads, queued twice, or deleted while
\* another thread can reach it.
THEOREM Ownership == Spec => []OneOwner
<1>1. IndInv => OneOwner
  BY DEF IndInv
<1>2. QED
  BY <1>1, Invariance, PTL

\* Between updates the circular linked list is the queue: the pointer writes
\* of qAdd and qRemove, one by one and in their order, keep the ring.
THEOREM RingCorrect == Spec => []ListIsQueue
<1>1. IndInv => ListIsQueue
  BY DEF IndInv, ListShape
<1>2. QED
  BY <1>1, Invariance, PTL

\* The class is the FIFO queue its header promises: seen from outside, each
\* qAdd and each qRemove is one atomic step.
THEOREM Refinement == Spec => ImplementsFifo
<1>1. Init => Fifo!FifoInit
  BY DEF Init, Fifo!FifoInit, hand, Owning, Home, Threads
<1>2. QED
  BY <1>1, InitHolds, StepKeeps, PTL
     DEF Spec, ImplementsFifo, Fifo!FifoSpec, Fifo!fifoVars

-----------------------------------------------------------------------------
(* Wake-ups.                                                               *)

\* After a signal some consumer is awake.
LEMMA SignalWakes ==
  ASSUME IndInv, NEW t \in Threads, NEW from, NEW to, Signal(t, from, to),
         to \in {"idle", "rem_lock"}
  PROVE  Waiting' # Consumers
<1> USE QueueAssumption DEF IndInv, TypeOK, Threads, Workers
<1>1. CASE Waiting = {} /\ pc' = [pc EXCEPT ![t] = to]
  BY <1>1 DEF Waiting
<1>2. CASE \E w \in Waiting : pc' = [pc EXCEPT ![t] = to, ![w] = "rem_lock"]
  <2>1. PICK w \in Waiting : pc' = [pc EXCEPT ![t] = to, ![w] = "rem_lock"]
    BY <1>2
  <2>2. w \in Consumers /\ pc'[w] # "asleep"
    BY <2>1 DEF Waiting
  <2>3. QED
    BY <2>2 DEF Waiting
<1>3. QED
  BY <1>1, <1>2 DEF Signal

\* A step of one thread that adds nothing and owes no signal before it leaves
\* the debts of the others as they are.
LEMMA DebtKept ==
  ASSUME NoLostWakeup, NEW t \in Threads, t \notin Consumers,
         UNCHANGED order, pc \in [Threads -> Stages], NEW to, to # "asleep",
         pc' = [pc EXCEPT ![t] = to],
         pc[t] \notin {"add_unlock", "add_signal"}
  PROVE  NoLostWakeup'
<1>1. Waiting' = Waiting
  BY DEF Waiting, Threads, Workers
<1>2. \A u \in Workers : pc[u] \in {"add_unlock", "add_signal"} => pc'[u] = pc[u]
  BY DEF Threads
<1>3. QED
  BY <1>1, <1>2 DEF NoLostWakeup

\* A consumer goes to sleep only on an empty queue; awake, it leaves nothing
\* to show.
LEMMA ConsumerKeepsDebt ==
  ASSUME IndInv, NEW c \in Consumers, Consumer(c) \/ SpuriousWake(c)
  PROVE  NoLostWakeup'
<1> USE DEF IndInv, TypeOK
<1>1. c \in Workers /\ c \in Threads
  BY DEF Workers, Threads
<1>2. CASE WaitReady(c)
  <2>1. qHead = NULL /\ pc[c] = "rem_test" /\ UNCHANGED order
    BY <1>2 DEF WaitReady, Goto, At
  <2>2. order = <<>>
    BY <1>1, <2>1, HolderSeesRing DEF Locked, Surgery
  <2>3. QED
    BY <2>1, <2>2 DEF NoLostWakeup
<1>3. CASE AddSignal(c)
  BY <1>1, <1>3, SignalWakes DEF AddSignal, Home, NoLostWakeup
<1>4. ASSUME NEW to, to # "asleep", pc' = [pc EXCEPT ![c] = to]
      PROVE  NoLostWakeup'
  BY <1>1, <1>4 DEF NoLostWakeup, Waiting
<1>5. CASE Prepare(c) \/ AddLock(c) \/ LinkNeighbours(c) \/ LinkNew(c) \/ AddLength(c)
  BY <1>4, <1>5 DEF Prepare, AddLock, Lock, LinkNeighbours, LinkNew, AddLength, Goto, IDFor, OneMore
<1>6. CASE AddUnlock(c) \/ RemoveUnlock(c) \/ RemoveLock(c) \/ SpuriousWake(c) \/ TakeHead(c)
  BY <1>4, <1>6 DEF AddUnlock, RemoveUnlock, Unlock, RemoveLock, Lock, SpuriousWake, TakeHead, Goto, Oldest
<1>7. CASE UnlinkLast(c) \/ AdvanceHead(c) \/ CloseRing(c) \/ RemoveLength(c)
  BY <1>4, <1>7 DEF UnlinkLast, AdvanceHead, CloseRing, RemoveLength, Goto, LastOne, PrevOfHead
<1>8. CASE Delete(c) \/ Requeue(c)
  BY <1>4, <1>8 DEF Delete, Requeue, Goto
<1>9. QED
  BY <1>2, <1>3, <1>5, <1>6, <1>7, <1>8 DEF Consumer, QRemove, QAdd

LEMMA WakeupKept == IndInv /\ NoLostWakeup /\ [Next]_vars => NoLostWakeup'
<1> SUFFICES ASSUME IndInv, NoLostWakeup, [Next]_vars PROVE NoLostWakeup'
  OBVIOUS
<1> USE DEF IndInv, TypeOK
<1>1. ASSUME NEW p \in Producers, Producer(p)
      PROVE  NoLostWakeup'
  <2>1. p \in Workers /\ p \in Threads /\ p \notin Consumers
    BY QueueAssumption DEF Workers, Threads
  <2>2. CASE Allocate(p) \/ Prepare(p) \/ AddLock(p) \/ LinkNeighbours(p) \/ LinkNew(p)
    BY <2>1, <2>2, DebtKept
       DEF Allocate, Prepare, AddLock, Lock, LinkNeighbours, LinkNew, Goto, At, IDFor
  <2>3. CASE AddLength(p)
    BY <2>1, <2>3 DEF AddLength, Goto, At, NoLostWakeup, OneMore
  <2>4. CASE AddUnlock(p)
    BY <2>1, <2>4 DEF AddUnlock, Unlock, Goto, At, NoLostWakeup
  <2>5. CASE AddSignal(p)
    BY <2>1, <2>5, SignalWakes DEF AddSignal, Home, NoLostWakeup
  <2>6. QED
    BY <1>1, <2>2, <2>3, <2>4, <2>5 DEF Producer, QAdd
<1>2. ASSUME NEW i \in Inspectors, PrintObject(i)
      PROVE  NoLostWakeup'
  <2>1. i \in Threads /\ i \notin Consumers
    BY QueueAssumption DEF Workers, Threads
  <2>2. CASE ReadHead(i) \/ PrintLock(i) \/ PrintUnlock(i) \/ PrintNull(i)
    BY <2>1, <2>2, DebtKept
       DEF ReadHead, PrintLock, Lock, PrintUnlock, Unlock, PrintNull, Goto, At
  <2>3. CASE PrintTest(i) \/ PrintNode(i)
    BY <2>1, <2>3, DebtKept DEF PrintTest, PrintNode, Goto, At
  <2>4. CASE PrintSignal(i)
    BY <2>1, <2>4, SignalWakes DEF PrintSignal, NoLostWakeup
  <2>5. QED
    BY <1>2, <2>2, <2>3, <2>4 DEF PrintObject
<1>3. CASE UNCHANGED vars
  BY <1>3 DEF vars, NoLostWakeup, Waiting
<1>4. QED
  BY <1>1, <1>2, <1>3, ConsumerKeepsDebt DEF Next

\* A queued request and a queue of sleeping consumers never meet without a
\* signal on its way: the signal qAdd sends after the unlock, and the test of
\* qHead under the lock before each wait, are enough.
THEOREM NoWakeupLost == Spec => []NoLostWakeup
<1>1. Init => NoLostWakeup
  BY DEF Init, NoLostWakeup
<1>2. QED
  BY <1>1, Invariance, WakeupKept, PTL DEF Spec

-----------------------------------------------------------------------------
(* Request IDs.                                                            *)

\* The stages of qAdd in which its request has read count and count has not
\* yet moved on.
Numbered == {"add_lock", "add_link", "add_tail", "add_len"}

\* The IDs given out so far.
Given == {AsInt(k) : k \in 0..(count - 1)}

IDsDiffer ==
  \A m, n \in live : m # n /\ requestID[m] # Unassigned => requestID[m] # requestID[n]

\* With one producer p, and consumers that put nothing back, the request in its
\* hand has the ID count, and all others have been given theirs before.
IDInv(p) ==
  /\ count <= MaxAdds
  /\ pc[p] \in {"prep"} \cup Numbered => count < MaxAdds
  /\ \A c \in Consumers : pc[c] \notin AddStages
  /\ \A n \in live :
       /\ n = node[p] /\ pc[p] = "prep" => requestID[n] = Unassigned
       /\ n = node[p] /\ pc[p] \in Numbered => requestID[n] = AsInt(count)
       /\ n # node[p] \/ pc[p] \notin {"prep"} \cup Numbered => requestID[n] \in Given
  /\ IDsDiffer

\* As long as count does not wrap, the int it is converted to is new, and is not
\* the one that means unassigned.
LEMMA NewNumber ==
  ASSUME count \in Nat, count <= MaxAdds, MaxAdds < UIntSize
  PROVE  /\ Unassigned \notin Given
         /\ count < MaxAdds => /\ AsInt(count) \in Int \ {Unassigned} /\ AsInt(count) \notin Given
                               /\ (count + 1) % UIntSize = count + 1
         /\ count' = count + 1 => Given' = Given \cup {AsInt(count)}
<1>1. UIntSize \in Nat /\ MaxAdds \in Nat /\ UIntSize > 0
  BY QueueAssumption
<1>2. ASSUME NEW j \in Nat, j < MaxAdds PROVE AsInt(j) \in Int \ {Unassigned}
  BY <1>1, <1>2 DEF AsInt, Unassigned
<1>3. ASSUME NEW j \in Nat, NEW k \in Nat, j < k, k < MaxAdds PROVE AsInt(j) # AsInt(k)
  BY <1>1, <1>3 DEF AsInt
<1>4. \A k \in 0..(count - 1) : k \in Nat /\ k < count /\ k < MaxAdds
  BY <1>1
<1>5. Unassigned \notin Given
  BY <1>2, <1>4 DEF Given
<1>6. ASSUME count < MaxAdds
      PROVE  /\ AsInt(count) \in Int \ {Unassigned} /\ AsInt(count) \notin Given
             /\ (count + 1) % UIntSize = count + 1
  <2>1. AsInt(count) \in Int \ {Unassigned}
    BY <1>2, <1>6
  <2>2. AsInt(count) \notin Given
    BY <1>3, <1>4, <1>6 DEF Given
  <2>3. (count + 1) % UIntSize = count + 1
    <3>1. count + 1 \in 0..(UIntSize - 1)
      BY <1>1, <1>6
    <3>2. QED
      BY <1>1, <3>1
  <2>4. QED
    BY <2>1, <2>2, <2>3
<1>7. ASSUME count' = count + 1 PROVE Given' = Given \cup {AsInt(count)}
  <2>1. 0..(count' - 1) = 0..(count - 1) \cup {count}
    BY <1>7
  <2>2. Given' = {AsInt(k) : k \in 0..(count' - 1)}
    BY DEF Given, AsInt
  <2>3. QED
    BY <2>1, <2>2 DEF Given
<1>8. QED
  BY <1>5, <1>6, <1>7

LEMMA IDInvKept ==
  ASSUME NEW p, Producers = {p}, Requeuers = {}, InitialIDs = {Unassigned}, MaxAdds < UIntSize,
         IndInv, IDInv(p), [Next]_vars
  PROVE  IDInv(p)'
<1> USE QueueAssumption DEF IndInv, TypeOK
<1>0. /\ Unassigned \notin Given
      /\ count < MaxAdds => /\ AsInt(count) \in Int \ {Unassigned} /\ AsInt(count) \notin Given
                            /\ (count + 1) % UIntSize = count + 1
      /\ count' = count + 1 => Given' = Given \cup {AsInt(count)}
      /\ count' = count => Given' = Given /\ AsInt(count)' = AsInt(count)
  <2>1. count \in Nat /\ count <= MaxAdds
    BY DEF IDInv
  <2>2. count' = count => Given' = Given /\ AsInt(count)' = AsInt(count)
    BY DEF Given, AsInt
  <2>3. QED
    BY <2>1, <2>2, NewNumber
<1>1. /\ p \in Workers /\ p \in Threads /\ p \notin Consumers
      /\ \A c \in Consumers : c \in Threads /\ c # p
  BY DEF Workers, Threads
<1>2. CASE Allocate(p)
  <2>1. PICK n \in Nodes \ live :
          /\ live' = live \cup {n}
          /\ node' = [node EXCEPT ![p] = n]
          /\ requestID' = [requestID EXCEPT ![n] = Unassigned]
    BY <1>2 DEF Allocate
  <2>2. /\ pc[p] = "idle" /\ pc' = [pc EXCEPT ![p] = "prep"] /\ count' = count /\ count < MaxAdds
    BY <1>2 DEF Allocate, Goto, At
  <2>3. \A m \in live : m # n /\ m \in Nodes /\ requestID[m] \in Given
    BY <2>1, <2>2 DEF IDInv, Numbered
  <2>4. /\ requestID'[n] = Unassigned /\ node'[p] = n /\ pc'[p] = "prep"
        /\ \A m \in live : requestID'[m] = requestID[m]
        /\ \A c \in Consumers : pc'[c] = pc[c]
    BY <1>1, <2>1, <2>2, <2>3
  <2>5. IDsDiffer'
    BY <1>0, <2>1, <2>3, <2>4 DEF IDInv, IDsDiffer
  <2>6. QED
    BY <1>0, <2>1, <2>2, <2>3, <2>4, <2>5 DEF IDInv, Numbered
<1>3. CASE Prepare(p)
  <2> DEFINE n == node[p]
  <2>1. /\ pc[p] = "prep" /\ pc' = [pc EXCEPT ![p] = "add_lock"]
        /\ requestID' = [requestID EXCEPT ![n] = IF @ = Unassigned THEN AsInt(count) ELSE @]
        /\ UNCHANGED <<live, count, node>>
    BY <1>3 DEF Prepare, Goto, At, IDFor
  <2>2. n \in live
    BY <1>1, <2>1 DEF OneOwner, hand, Owning, ListShape, ShapeAt
  <2>3. /\ requestID[n] = Unassigned
        /\ \A m \in live : m # n => requestID[m] \in Given
        /\ AsInt(count) \notin Given /\ AsInt(count) # Unassigned /\ AsInt(count) \in Int
    BY <1>0, <2>1, <2>2 DEF IDInv
  <2>4. /\ requestID'[n] = AsInt(count)
        /\ \A m \in live : m # n => requestID'[m] = requestID[m]
    BY <2>1, <2>2, <2>3
  <2>5. IDsDiffer'
    BY <2>1, <2>3, <2>4 DEF IDInv, IDsDiffer
  <2>6. QED
    BY <1>0, <1>1, <2>1, <2>3, <2>4, <2>5 DEF IDInv, Numbered
<1>4. CASE AddLength(p)
  <2>1. /\ pc[p] = "add_len" /\ pc' = [pc EXCEPT ![p] = "add_unlock"]
        /\ count' = (count + 1) % UIntSize
        /\ UNCHANGED <<live, requestID, node>>
    BY <1>4 DEF AddLength, Goto, At, OneMore
  <2>2. count < MaxAdds /\ count' = count + 1 /\ Given' = Given \cup {AsInt(count)}
    <3>1. count < MaxAdds
      BY <2>1 DEF IDInv, Numbered
    <3>2. QED
      BY <1>0, <2>1, <3>1
  <2>3. \A m \in live : requestID'[m] \in Given'
    BY <2>1, <2>2 DEF IDInv, Numbered
  <2>4. count' <= MaxAdds
    BY <2>2
  <2>5. IDsDiffer'
    BY <2>1 DEF IDInv, IDsDiffer
  <2>6. QED
    BY <1>1, <2>1, <2>3, <2>4, <2>5 DEF IDInv, Numbered
<1>5. CASE AddLock(p) \/ LinkNeighbours(p) \/ LinkNew(p) \/ AddUnlock(p)
  <2>1. /\ UNCHANGED <<live, requestID, node, count>>
        /\ \/ pc[p] \in Numbered /\ \E to \in Numbered : pc' = [pc EXCEPT ![p] = to]
           \/ pc[p] = "add_unlock" /\ pc' = [pc EXCEPT ![p] = "add_signal"]
    BY <1>5 DEF AddLock, Lock, LinkNeighbours, LinkNew, AddUnlock, Unlock, Goto, At, Numbered
  <2>2. QED
    BY <1>0, <1>1, <2>1 DEF IDInv, IDsDiffer, Numbered
<1>6. CASE AddSignal(p) \/ \E i \in Inspectors : PrintSignal(i)
  <2>1. /\ UNCHANGED <<live, requestID, count>>
        /\ \/ pc[p] = "add_signal" /\ pc'[p] = "idle"
           \/ pc'[p] = pc[p] /\ node'[p] = node[p]
        /\ \A c \in Consumers : pc'[c] \in {pc[c], "rem_lock"}
    <3>1. CASE AddSignal(p)
      <4>1. /\ pc[p] = "add_signal" /\ Home(p) = "idle"
            /\ UNCHANGED <<live, requestID, count>>
        BY <1>1, <3>1 DEF AddSignal, Signal, At, Home
      <4>2. CASE pc' = [pc EXCEPT ![p] = Home(p)]
        BY <1>1, <4>1, <4>2
      <4>3. CASE \E w \in Waiting : pc' = [pc EXCEPT ![p] = Home(p), ![w] = "rem_lock"]
        BY <1>1, <4>1, <4>3 DEF Waiting
      <4>4. QED
        BY <3>1, <4>2, <4>3 DEF AddSignal, Signal
    <3>2. ASSUME NEW i \in Inspectors, PrintSignal(i)
          PROVE  /\ UNCHANGED <<live, requestID, count>>
                 /\ pc'[p] = pc[p] /\ node'[p] = node[p]
                 /\ \A c \in Consumers : pc'[c] \in {pc[c], "rem_lock"}
      <4>1. i # p /\ i \notin Consumers /\ i \in Threads
        BY <1>1 DEF Workers, Threads
      <4>2. QED
        BY <1>1, <3>2, <4>1 DEF PrintSignal, Signal, Waiting
    <3>3. QED
      BY <1>6, <3>1, <3>2
  <2>2. QED
    BY <1>0, <2>1 DEF IDInv, IDsDiffer, Numbered, AddStages
<1>7. ASSUME NEW c \in Consumers, Consumer(c) \/ SpuriousWake(c)
      PROVE  IDInv(p)'
  <2>1. ~QAdd(c) /\ ~Requeue(c)
    BY <1>1 DEF IDInv, AddStages, QAdd, Prepare, AddLock, Lock, LinkNeighbours, LinkNew,
                AddLength, AddUnlock, Unlock, AddSignal, Signal, Requeue, Goto, At, IDFor, OneMore
  <2>2. /\ UNCHANGED <<requestID, count>> /\ live' \subseteq live
        /\ pc'[p] = pc[p] /\ node'[p] = node[p]
        /\ \E to \in RemoveStages : pc' = [pc EXCEPT ![c] = to]
    <3>1. CASE Delete(c) \/ SpuriousWake(c) \/ RemoveLock(c) \/ RemoveUnlock(c)
      BY <1>1, <3>1 DEF Delete, SpuriousWake, RemoveLock, Lock, RemoveUnlock, Unlock, Goto,
                        RemoveStages
    <3>2. CASE WaitReady(c) \/ TakeHead(c) \/ UnlinkLast(c) \/ AdvanceHead(c)
      BY <1>1, <3>2 DEF WaitReady, TakeHead, UnlinkLast, AdvanceHead, Goto, RemoveStages, Oldest, LastOne
    <3>3. CASE CloseRing(c) \/ RemoveLength(c)
      BY <1>1, <3>3 DEF CloseRing, RemoveLength, Goto, RemoveStages, PrevOfHead
    <3>4. QED
      BY <1>7, <2>1, <3>1, <3>2, <3>3 DEF Consumer, QRemove
  <2>3. QED
    BY <1>0, <1>1, <2>2 DEF IDInv, IDsDiffer, RemoveStages, AddStages
<1>8. ASSUME NEW i \in Inspectors, PrintObject(i), ~PrintSignal(i)
      PROVE  IDInv(p)'
  <2>1. i # p /\ i \notin Consumers /\ i \in Threads
    BY <1>1 DEF Workers, Threads
  <2>2. /\ UNCHANGED <<requestID, count, live>>
        /\ node'[p] = node[p]
        /\ \A u \in Threads : u # i => pc'[u] = pc[u]
    <3>1. CASE ReadHead(i) \/ PrintTest(i) \/ PrintNode(i)
      BY <1>1, <2>1, <3>1 DEF ReadHead, PrintTest, PrintNode, Goto
    <3>2. CASE PrintLock(i) \/ PrintNull(i) \/ PrintUnlock(i)
      BY <1>1, <2>1, <3>2 DEF PrintLock, Lock, PrintNull, PrintUnlock, Unlock, Goto
    <3>3. QED
      BY <1>8, <3>1, <3>2 DEF PrintObject
  <2>3. QED
    BY <1>0, <1>1, <2>1, <2>2 DEF IDInv, IDsDiffer
<1>9. CASE UNCHANGED vars
  BY <1>0, <1>9 DEF vars, IDInv, IDsDiffer
<1>10. QED
  BY <1>2, <1>3, <1>4, <1>5, <1>6, <1>7, <1>8, <1>9 DEF Next, Producer, QAdd

\* On an incoming queue, with its one producer, until count wraps: every request
\* queued has an ID, and the IDs that qAdd gives out are unique among the requests
\* alive, although count is read before the lock.
THEOREM IDsUnique ==
  ASSUME NEW p, Producers = {p}, Requeuers = {}, InitialIDs = {Unassigned}, MaxAdds < UIntSize
  PROVE  Spec => []UniqueIDs
<1>1. Init => IDInv(p)
  <2>1. ASSUME Init
        PROVE  /\ live = {} /\ count = 0 /\ pc[p] = "idle"
               /\ \A c \in Consumers : pc[c] = "rem_lock"
    BY <2>1, QueueAssumption DEF Init, Home, Threads, Workers
  <2>2. QED
    BY <2>1, QueueAssumption DEF IDInv, IDsDiffer, AddStages, Numbered
<1>2. IndInv /\ IDInv(p) /\ [Next]_vars => IDInv(p)'
  BY IDInvKept
<1>3. ASSUME IndInv, IDInv(p) PROVE UniqueIDs
  <2>1. count \in Nat /\ Unassigned \notin Given /\ (count < MaxAdds => AsInt(count) # Unassigned)
    BY <1>3, NewNumber DEF IndInv, TypeOK, IDInv
  <2>2. ASSUME NEW n \in ToSet(order) PROVE requestID[n] # Unassigned
    <3>1. n \in live
      BY <1>3 DEF IndInv, OneOwner
    <3>2. ~ (n = node[p] /\ pc[p] = "prep")
      <4>1. SUFFICES ASSUME n = node[p], pc[p] = "prep" PROVE FALSE
        OBVIOUS
      <4>2. p \in Workers
        BY DEF Workers
      <4>3. hand[p] = n /\ n # NULL
        BY <1>3, <4>1, <4>2 DEF hand, Owning, IndInv, ListShape, ShapeAt
      <4>4. QED
        BY <1>3, <4>2, <4>3 DEF IndInv, OneOwner
    <3>3. CASE n = node[p] /\ pc[p] \in Numbered
      BY <1>3, <2>1, <3>1, <3>3 DEF IDInv
    <3>4. CASE ~ (n = node[p] /\ pc[p] \in Numbered)
      BY <1>3, <2>1, <3>1, <3>2, <3>4 DEF IDInv
    <3>5. QED
      BY <3>3, <3>4
  <2>3. QED
    BY <1>3, <2>2 DEF IDInv, IDsDiffer, UniqueIDs
<1>4. QED
  BY <1>1, <1>2, <1>3, Invariance, PTL DEF Spec

=============================================================================
