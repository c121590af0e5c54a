----------------------- MODULE ImageAggregator_proofs -----------------------
(***************************************************************************)
(* Theorems about ImageAggregator, for any numbers of clients, generators  *)
(* and threads, any limit and any threshold.                               *)
(*                                                                         *)
(* The inductive invariant IndInv is proved in layers, each from the ones  *)
(* before it: the types, the pool mutex, the replies and the queries of a  *)
(* round, the files, the owners of each connection.                        *)
(***************************************************************************)
EXTENDS ImageAggregator, Counting, FiniteSetTheorems, SequenceTheorems, TLAPS

-----------------------------------------------------------------------------
(* What each kind of step leaves alone.                                    *)

LEMMA PeerFrame ==
  ASSUME Peer(PeerStep)
  PROVE  UNCHANGED <<sock, quQueues, crashed, queryVars, replyVars>>
BY DEF Peer, PeerStep, Call, Ask, HangUp, Break, peerRest

LEMMA QueryFrame ==
  ASSUME Query(QueryPoolStep)
  PROVE  UNCHANGED <<peerVars, quPendLock, replyVars>>
BY DEF Query, QueryPoolStep, QuProducer, QuAccept, QuConsumer, QuTake, QuReceive, QuReceiveBroken,
       QuForward, QuForwardFails, QuAnswered, QuPending, sharedVars, peerVars, quQueues, queryVars

LEMMA ProducerFrame ==
  ASSUME Reply(IgProducer)
  PROVE  UNCHANGED <<peerVars, quQueues, crashed, queryVars, igPend, igPendLock, poolMutex, files,
                     unpaired, ig, got>>
BY DEF Reply, IgProducer, IgAccept, IgAdmit, IgRefuse, IgEnqueue, sharedVars, producerRest

\* A step of a consumer of the reply pool changes the locals of no other.
LEMMA OthersKeep ==
  ASSUME TypeOK, NEW i \in IgThreads, IgConsumer(i)
  PROVE  \A j \in IgThreads \ {i} : ig'[j] = ig[j]
BY DEF TypeOK, ReplyTypeOK, IgConsumer, IgGoto, IgTake, IgLock, IgReceive, IgPending, IgDecide,
       IgReadHead, IgTakeQuery, IgLockQueries, IgLockReplies, IgWalk, IgScanCrashes, replyVars,
       IgSendTags, IgSendImage, IgDropQuery, IgKeepQuery, IgAgain, IgRemoveReply, IgCleaned, IgUnlock

-----------------------------------------------------------------------------
(* The types.                                                              *)

Typed == TypeOK /\ LocalsMatch

LEMMA TypedInit == Init => Typed
<1> SUFFICES ASSUME Init PROVE Typed
  OBVIOUS
<1> USE PoolsAssumption DEF Init
<1>1. SharedTypeOK
  <2>1. <<>> \in Seq(Clients)
    OBVIOUS
  <2>2. QED
    BY <2>1 DEF SharedInit, SharedTypeOK
<1>2. QueryTypeOK
  BY DEF QueryInit, QueryTypeOK
<1>3. Idle \in IgLocals /\ \A i \in IgThreads : ig[i] = Idle
  BY DEF ReplyInit, Idle, IgLocals, IgStages
<1>4. ReplyTypeOK
  <2>1. <<>> \in Seq(Generators)
    OBVIOUS
  <2>2. ig \in [IgThreads -> IgLocals]
    BY <1>3 DEF ReplyInit
  <2>3. QED
    BY <2>1, <2>2 DEF ReplyInit, ReplyTypeOK
<1>5. LocalsMatch
  BY <1>3 DEF QueryInit, LocalsMatch, Idle, Answering
<1>6. QED
  BY <1>1, <1>2, <1>4, <1>5 DEF Typed, TypeOK

LEMMA TypedPeer == ASSUME Typed, Peer(PeerStep) PROVE Typed'
<1>1. UNCHANGED <<sock, quQueues, crashed, queryVars, replyVars>>
  BY PeerFrame
<1>2. /\ peer' \in [Peers -> {"away", "up", "gone", "reset"}]
      /\ asked' \in SUBSET Clients
  BY DEF Typed, TypeOK, SharedTypeOK, Peer, PeerStep, Call, Ask, HangUp, Break, Peers
<1>3. QED
  BY <1>1, <1>2 DEF Typed, TypeOK, SharedTypeOK, QueryTypeOK, ReplyTypeOK, LocalsMatch,
       quQueues, queryVars, replyVars, igQueues

LEMMA TypedQuery == ASSUME Typed, Query(QueryPoolStep) PROVE Typed'
<1> USE PoolsAssumption DEF Typed, TypeOK, SharedTypeOK, QueryTypeOK, LocalsMatch, peerVars,
                            quQueues, sharedVars, queryVars, QuGoto, Peers
<1>1. ReplyTypeOK' /\ UNCHANGED <<peerVars, quPendLock, replyVars>>
  BY QueryFrame DEF ReplyTypeOK, replyVars, igQueues
<1>2. ASSUME NEW c \in Clients, QuAccept(c) PROVE Typed'
  BY <1>1, <1>2 DEF QuAccept, replyVars
<1>3. ASSUME NEW t \in QuThreads, QuConsumer(t) PROVE Typed'
  <2>1. CASE QuTake(t)
    BY <1>1, <2>1 DEF QuTake, replyVars
  <2>2. CASE QuReceive(t)
    BY <1>1, <2>2 DEF QuReceive, replyVars
  <2>3. CASE QuReceiveBroken(t)
    BY <1>1, <2>3 DEF QuReceiveBroken, replyVars
  <2>4. CASE QuForward(t)
    BY <1>1, <2>4 DEF QuForward, replyVars
  <2>5. CASE QuForwardFails(t)
    BY <1>1, <2>5 DEF QuForwardFails, replyVars
  <2>6. CASE QuAnswered(t)
    BY <1>1, <2>6 DEF QuAnswered, replyVars
  <2>7. CASE QuPending(t)
    BY <1>1, <2>7 DEF QuPending, replyVars
  <2>8. QED
    BY <1>3, <2>1, <2>2, <2>3, <2>4, <2>5, <2>6, <2>7 DEF QuConsumer
<1>4. QED
  BY <1>2, <1>3 DEF Query, QueryPoolStep, QuProducer

LEMMA TypedProducer == ASSUME Typed, Reply(IgProducer) PROVE Typed'
<1> USE PoolsAssumption DEF Typed, TypeOK, SharedTypeOK, QueryTypeOK, ReplyTypeOK, LocalsMatch,
                            peerVars, quQueues, queryVars
<1>1. UNCHANGED <<peerVars, quQueues, crashed, queryVars, igPend, igPendLock, poolMutex, files,
                  unpaired, ig, got>>
  BY ProducerFrame
<1>2. ASSUME NEW g \in Generators, IgAccept(g) PROVE Typed'
  <2>1. sock' \in [Peers -> {"none", "open", "closed"}]
    BY <1>2 DEF IgAccept
  <2>2. accepted' \in Generators \cup {NULL} /\ UNCHANGED <<igIn, admitted>>
    BY <1>2 DEF IgAccept
  <2>3. QED
    BY <1>1, <2>1, <2>2
<1>3. CASE IgAdmit
  BY <1>1, <1>3 DEF IgAdmit, sharedVars
<1>4. CASE IgRefuse
  <2>1. sock' \in [Peers -> {"none", "open", "closed"}]
    BY <1>4 DEF IgRefuse, Close
  <2>2. accepted' = NULL /\ UNCHANGED <<igIn, admitted>>
    BY <1>4 DEF IgRefuse
  <2>3. QED
    BY <1>1, <2>1, <2>2
<1>5. CASE IgEnqueue
  <2>1. igIn' \in Seq(Generators) /\ accepted' = NULL /\ ~admitted' /\ UNCHANGED sock
    BY <1>5 DEF IgEnqueue, sharedVars
  <2>2. admitted' \in BOOLEAN
    BY <1>5 DEF IgEnqueue
  <2>3. QED
    BY <1>1, <2>1, <2>2
<1>6. QED
  BY <1>2, <1>3, <1>4, <1>5 DEF Reply, IgProducer

\* Locals that have their types and match their stage; a consumer that goes on
\* with such locals leaves ig so.
Fits(locals) ==
  /\ locals \in IgLocals
  /\ locals.cur = NULL <=> locals.pc = "take"
  /\ locals.query = NULL <=> locals.pc \notin Answering

LEMMA GotoTyped ==
  ASSUME Typed, UNCHANGED queryVars,
         NEW i \in IgThreads, NEW from, NEW locals, Fits(locals), IgGoto(i, from, locals)
  PROVE  ig' \in [IgThreads -> IgLocals] /\ LocalsMatch'
<1>1. ig' = [ig EXCEPT ![i] = locals] /\ ig \in [IgThreads -> IgLocals] /\ locals \in IgLocals
  BY DEF IgGoto, Fits, Typed, TypeOK, ReplyTypeOK
<1>2. ig' \in [IgThreads -> IgLocals] /\ ig'[i] = locals /\ \A j \in IgThreads \ {i} : ig'[j] = ig[j]
  BY <1>1
<1>3. QED
  BY <1>2 DEF Fits, Typed, LocalsMatch, queryVars

LEMMA TypedConsumer == ASSUME Typed, NEW i \in IgThreads, Reply(IgConsumer(i)) PROVE Typed'
<1>0. Fits(ig[i]) /\ UNCHANGED queryVars
  BY DEF Reply, Fits, Typed, TypeOK, ReplyTypeOK, LocalsMatch
<1> USE PoolsAssumption
<1> USE DEF Typed, TypeOK, SharedTypeOK, QueryTypeOK, ReplyTypeOK, IgGoto,
            sharedVars, peerVars, quQueues, queryVars, igQueues
<1>1. CASE IgTake(i)
  <2>1. Head(igIn) \in Generators \ {NULL} /\ Tail(igIn) \in Seq(Generators)
    BY <1>0, <1>1 DEF IgTake, Peers
  <2>2. Fits([ig[i] EXCEPT !.pc = "lock", !.cur = Head(igIn)])
    BY <1>0, <1>1, <2>1 DEF IgTake, Fits, IgLocals, IgStages, Answering
  <2>3. ig' \in [IgThreads -> IgLocals] /\ LocalsMatch'
    BY <1>0, <1>1, <2>2, GotoTyped DEF IgTake
  <2>4. QED
    BY <1>0, <1>1, <2>3, <2>1 DEF IgTake, Fits
<1>2. CASE IgLock(i)
  <2>1. ig[i].cur \in Generators
    BY <1>0, <1>2 DEF IgLock, Fits, IgLocals
  <2>2. Fits([ig[i] EXCEPT !.pc = "receive"])
    BY <1>0, <1>2, <2>1 DEF IgLock, Fits, IgLocals, IgStages, Answering
  <2>3. ig' \in [IgThreads -> IgLocals] /\ LocalsMatch'
    BY <1>0, <1>2, <2>2, GotoTyped DEF IgLock
  <2>4. QED
    BY <1>0, <1>2, <2>3, <2>1 DEF IgLock, Fits, LockPool
<1>3. CASE IgReceive(i)
  <2>1. Fits([ig[i] EXCEPT !.pc = "pend"])
    BY <1>0, <1>3 DEF IgReceive, Fits, IgLocals, IgStages, Answering
  <2>2. ig' \in [IgThreads -> IgLocals] /\ LocalsMatch'
    <3> HIDE DEF Typed, TypeOK, SharedTypeOK, QueryTypeOK, ReplyTypeOK, IgGoto
    <3>1. IgGoto(i, "receive", [ig[i] EXCEPT !.pc = "pend"])
      BY <1>3 DEF IgReceive
    <3>2. QED
      BY <1>0, <2>1, <3>1, GotoTyped
  <2>3. QED
    BY <1>0, <1>3, <2>2 DEF IgReceive, Fits
<1>4. CASE IgPending(i)
  <2>1. ig[i].cur \in Generators
    BY <1>0, <1>4 DEF IgPending, Fits, IgLocals
  <2>2. Fits([ig[i] EXCEPT !.pc = "decide"])
    BY <1>0, <1>4, <2>1 DEF IgPending, Fits, IgLocals, IgStages, Answering
  <2>3. ig' \in [IgThreads -> IgLocals] /\ LocalsMatch'
    BY <1>0, <1>4, <2>2, GotoTyped DEF IgPending
  <2>4. QED
    BY <1>0, <1>4, <2>3, <2>1 DEF IgPending, Fits
<1>5. CASE IgDecide(i)
  <2>1. Fits([ig[i] EXCEPT !.pc = IF EnoughImages THEN "head" ELSE "unlock", !.count = 0])
    BY <1>0, <1>5 DEF IgDecide, Fits, IgLocals, IgStages, Answering
  <2>2. ig' \in [IgThreads -> IgLocals] /\ LocalsMatch'
    BY <1>0, <1>5, <2>1, GotoTyped DEF IgDecide
  <2>3. QED
    BY <1>0, <1>5, <2>2 DEF IgDecide, Fits
<1>6. CASE IgReadHead(i)
  <2>1. igPend # <<>> => Head(igPend) \in Generators
    BY <1>0, <1>6
  <2>2. Fits([ig[i] EXCEPT !.pc = "query", !.head = IF igPend = <<>> THEN NULL ELSE Head(igPend)])
    BY <1>0, <1>6, <2>1 DEF IgReadHead, Fits, IgLocals, IgStages, Answering
  <2>3. ig' \in [IgThreads -> IgLocals] /\ LocalsMatch'
    BY <1>0, <1>6, <2>2, GotoTyped DEF IgReadHead
  <2>4. QED
    BY <1>0, <1>6, <2>3, <2>1 DEF IgReadHead, Fits
<1>7. CASE IgTakeQuery(i)
  <2>1. Head(quPend) \in Clients \ {NULL} /\ Tail(quPend) \in Seq(Clients)
    BY <1>0, <1>7 DEF IgTakeQuery, Peers
  <2>2. Fits([ig[i] EXCEPT !.pc = "lock_qu", !.query = Head(quPend)])
    BY <1>0, <1>7, <2>1 DEF IgTakeQuery, Fits, IgLocals, IgStages, Answering
  <2>3. ig' \in [IgThreads -> IgLocals] /\ LocalsMatch'
    BY <1>0, <1>7, <2>2, GotoTyped DEF IgTakeQuery
  <2>4. QED
    BY <1>0, <1>7, <2>3, <2>1 DEF IgTakeQuery, Fits, WithoutHead
<1>8. CASE IgLockQueries(i)
  <2>1. Fits([ig[i] EXCEPT !.pc = "lock_ig"])
    BY <1>0, <1>8 DEF IgLockQueries, Fits, IgLocals, IgStages, Answering
  <2>2. ig' \in [IgThreads -> IgLocals] /\ LocalsMatch'
    BY <1>0, <1>8, <2>1, GotoTyped DEF IgLockQueries
  <2>3. QED
    BY <1>0, <1>8, <2>2 DEF IgLockQueries, Fits
<1>9. CASE IgLockReplies(i)
  <2>1. Fits([ig[i] EXCEPT !.pc = "walk"])
    BY <1>0, <1>9 DEF IgLockReplies, Fits, IgLocals, IgStages, Answering
  <2>2. ig' \in [IgThreads -> IgLocals] /\ LocalsMatch'
    BY <1>0, <1>9, <2>1, GotoTyped DEF IgLockReplies
  <2>3. QED
    BY <1>0, <1>9, <2>2 DEF IgLockReplies, Fits
<1>10. CASE IgWalk(i)
  <2>1. QueryCount \in Nat
    BY <1>0, <1>10 DEF IgWalk, QueryCount
  <2>2. Fits([ig[i] EXCEPT !.pc = "header", !.count = QueryCount])
    BY <1>0, <1>10, <2>1 DEF IgWalk, Fits, IgLocals, IgStages, Answering
  <2>3. ig' \in [IgThreads -> IgLocals] /\ LocalsMatch'
    BY <1>0, <1>10, <2>2, GotoTyped DEF IgWalk
  <2>4. QED
    BY <1>0, <1>10, <2>3, <2>1 DEF IgWalk, UnlockReplies, Fits
<1>11. CASE IgSendTags(i)
  <2>1. Fits([ig[i] EXCEPT !.pc = "body",
                              !.image = IF ig[i].cur \in files THEN ig[i].cur ELSE NULL,
                              !.connected = ConnectedAtFirst(i) /\ peer[ig[i].query] # "reset"])
    BY <1>0, <1>11 DEF IgSendTags, ConnectedAtFirst, Fits, IgLocals, IgStages, Answering
  <2>2. ig' \in [IgThreads -> IgLocals] /\ LocalsMatch'
    <3> HIDE DEF Typed, TypeOK, SharedTypeOK, QueryTypeOK, ReplyTypeOK, IgGoto
    <3>1. IgGoto(i, "header",
                 [ig[i] EXCEPT !.pc = "body",
                               !.image = IF ig[i].cur \in files THEN ig[i].cur ELSE NULL,
                               !.connected = ConnectedAtFirst(i) /\ peer[ig[i].query] # "reset"])
      BY <1>11 DEF IgSendTags
    <3>2. QED
      BY <1>0, <2>1, <3>1, GotoTyped
  <2>3. QED
    BY <1>0, <1>11, <2>2 DEF IgSendTags, Fits
<1>12. CASE IgSendImage(i)
  <2>1. ig[i].query \in Clients /\ ig[i].image \in Generators \cup {NULL}
    BY <1>0, <1>12 DEF IgSendImage, Fits, IgLocals, Answering
  <2>2. Fits([ig[i] EXCEPT !.pc = "dispose", !.connected = @ /\ peer[ig[i].query] # "reset"])
    BY <1>0, <1>12, <2>1 DEF IgSendImage, Fits, IgLocals, IgStages, Answering
  <2>3. ig' \in [IgThreads -> IgLocals] /\ LocalsMatch'
    <3> HIDE DEF Typed, TypeOK, SharedTypeOK, QueryTypeOK, ReplyTypeOK, IgGoto
    <3>1. IgGoto(i, "body", [ig[i] EXCEPT !.pc = "dispose",
                                         !.connected = @ /\ peer[ig[i].query] # "reset"])
      BY <1>12 DEF IgSendImage
    <3>2. QED
      BY <1>0, <2>2, <3>1, GotoTyped
  <2>4. QED
    BY <1>0, <1>12, <2>3, <2>1 DEF IgSendImage, Fits, RemoveFile
<1>13. CASE IgDropQuery(i)
  <2>1. Fits([ig[i] EXCEPT !.pc = "again", !.query = NULL])
    BY <1>0, <1>13 DEF IgDropQuery, Fits, IgLocals, IgStages, Answering
  <2>2. ig' \in [IgThreads -> IgLocals] /\ LocalsMatch'
    BY <1>0, <1>13, <2>1, GotoTyped DEF IgDropQuery
  <2>3. QED
    BY <1>0, <1>13, <2>2 DEF IgDropQuery, Fits, Close
<1>14. CASE IgKeepQuery(i)
  <2>1. ig[i].query \in Clients
    BY <1>0, <1>14 DEF IgKeepQuery, Fits, IgLocals, Answering
  <2>2. Fits([ig[i] EXCEPT !.pc = "again", !.query = NULL])
    BY <1>0, <1>14, <2>1 DEF IgKeepQuery, Fits, IgLocals, IgStages, Answering
  <2>3. ig' \in [IgThreads -> IgLocals] /\ LocalsMatch'
    BY <1>0, <1>14, <2>2, GotoTyped DEF IgKeepQuery
  <2>4. QED
    BY <1>0, <1>14, <2>3, <2>1 DEF IgKeepQuery, Fits
<1>15. CASE IgAgain(i)
  <2>1. RemoveTimes \in Nat
    BY <1>0, <1>15 DEF IgAgain, RemoveTimes
  <2>2. Fits([ig[i] EXCEPT !.pc = IF ig[i].count > 0 THEN "head" ELSE "clean",
                              !.removeTimes = RemoveTimes])
    BY <1>0, <1>15, <2>1 DEF IgAgain, Fits, IgLocals, IgStages, Answering
  <2>3. ig' \in [IgThreads -> IgLocals] /\ LocalsMatch'
    BY <1>0, <1>15, <2>2, GotoTyped DEF IgAgain
  <2>4. QED
    BY <1>0, <1>15, <2>3, <2>1 DEF IgAgain, Fits
<1>16. CASE IgRemoveReply(i)
  <2>1. Tail(igPend) \in Seq(Generators) /\ ig[i].removeTimes - 1 \in Nat
    BY <1>0, <1>16, SMTT(30) DEF IgRemoveReply, Fits, IgLocals
  <2>2. Fits([ig[i] EXCEPT !.removeTimes = @ - 1])
    BY <1>0, <1>16, <2>1 DEF IgRemoveReply, Fits, IgLocals, IgStages, Answering
  <2>3. ig' \in [IgThreads -> IgLocals] /\ LocalsMatch'
    BY <1>0, <1>16, <2>2, GotoTyped DEF IgRemoveReply
  <2>4. QED
    BY <1>0, <1>16, <2>3, <2>1 DEF IgRemoveReply, Fits, RemoveFile, Close
<1>17. CASE IgCleaned(i)
  <2>1. Fits([ig[i] EXCEPT !.pc = "unlock"])
    BY <1>0, <1>17 DEF IgCleaned, Fits, IgLocals, IgStages, Answering
  <2>2. ig' \in [IgThreads -> IgLocals] /\ LocalsMatch'
    BY <1>0, <1>17, <2>1, GotoTyped DEF IgCleaned
  <2>3. QED
    BY <1>0, <1>17, <2>2 DEF IgCleaned, Fits
<1>18. CASE IgUnlock(i)
  <2>1. Fits(Idle)
    BY <1>0, <1>18 DEF IgUnlock, Idle, Fits, IgLocals, IgStages, Answering
  <2>2. ig' \in [IgThreads -> IgLocals] /\ LocalsMatch'
    BY <1>0, <1>18, <2>1, GotoTyped DEF IgUnlock
  <2>3. QED
    BY <1>0, <1>18, <2>2 DEF IgUnlock, Fits
<1>19. CASE IgScanCrashes(i)
  BY <1>0, <1>19 DEF IgScanCrashes, replyVars, LocalsMatch
<1>20. QED
  BY <1>1, <1>2, <1>3, <1>4, <1>5, <1>6, <1>7, <1>8, <1>9, <1>10, <1>11, <1>12, <1>13, <1>14, <1>15, <1>16, <1>17, <1>18, <1>19
     DEF Reply, IgConsumer

\* Every variable of the two pools and of their threads keeps its type, and
\* what a consumer has in hand goes with where it is.
LEMMA TypedStep == ASSUME Typed, [Next]_vars PROVE Typed'
<1>1. CASE Next
  BY <1>1, TypedPeer, TypedQuery, TypedProducer, TypedConsumer DEF Next, Reply, ReplyPoolStep
<1>2. CASE UNCHANGED vars
  BY <1>2 DEF vars, Typed, TypeOK, SharedTypeOK, QueryTypeOK, ReplyTypeOK, LocalsMatch,
       sharedVars, peerVars, quQueues, queryVars, replyVars, igQueues
<1>3. QED
  BY <1>1, <1>2

-----------------------------------------------------------------------------
(* The pool mutex.                                                         *)

\* A consumer that goes on has the locals it goes on with, the others keep theirs.
LEMMA Goes ==
  ASSUME Typed, NEW i \in IgThreads, NEW from, NEW locals, IgGoto(i, from, locals)
  PROVE  /\ ig[i] \in IgLocals /\ ig[i].pc = from
         /\ ig'[i] = locals
         /\ \A j \in IgThreads \ {i} : ig'[j] = ig[j]
BY DEF Typed, TypeOK, ReplyTypeOK, IgGoto

Inside(i) == ig[i].pc \notin {"take", "lock"}

\* The steps of a consumer that has the pool mutex and keeps it.
InsideStep(i) ==
  \/ IgReceive(i) \/ IgPending(i) \/ IgDecide(i) \/ IgReadHead(i) \/ IgTakeQuery(i)
  \/ IgLockQueries(i) \/ IgLockReplies(i) \/ IgWalk(i) \/ IgScanCrashes(i) \/ IgSendTags(i)
  \/ IgSendImage(i) \/ IgDropQuery(i) \/ IgKeepQuery(i) \/ IgAgain(i) \/ IgRemoveReply(i)
  \/ IgCleaned(i)

LEMMA InsideFrame ==
  ASSUME Typed, NEW i \in IgThreads, InsideStep(i)
  PROVE  /\ Inside(i) /\ UNCHANGED <<poolMutex, igIn, accepted, admitted, peerVars, quIn>>
         /\ \A j \in IgThreads \ {i} : ig'[j] = ig[j]
         /\ ig'[i].cur = ig[i].cur
<1> USE DEF InsideStep, IgReceive, IgPending, IgDecide, IgReadHead, IgTakeQuery, IgLockQueries,
            IgLockReplies, IgWalk, IgScanCrashes, IgSendTags, IgSendImage, IgDropQuery,
            IgKeepQuery, IgAgain, IgRemoveReply, IgCleaned
<1>1. UNCHANGED <<poolMutex, igIn, accepted, admitted, peerVars, quIn>>
  BY DEF sharedVars, quQueues, igQueues, replyVars
<1>2. Inside(i)
  BY DEF Inside, IgGoto
<1>3. \A j \in IgThreads \ {i} : ig'[j] = ig[j]
  BY Goes DEF replyVars
<1>4. ig'[i].cur = ig[i].cur
  <2> USE DEF Typed, TypeOK, ReplyTypeOK, IgGoto, IgLocals
  <2>1. CASE IgReceive(i)
    BY <2>1
  <2>2. CASE IgPending(i)
    BY <2>2
  <2>3. CASE IgDecide(i)
    BY <2>3
  <2>4. CASE IgReadHead(i)
    BY <2>4
  <2>5. CASE IgTakeQuery(i)
    BY <2>5
  <2>6. CASE IgLockQueries(i)
    BY <2>6
  <2>7. CASE IgLockReplies(i)
    BY <2>7
  <2>8. CASE IgWalk(i)
    BY <2>8
  <2>9. CASE IgSendTags(i)
    BY <2>9
  <2>10. CASE IgSendImage(i)
    BY <2>10
  <2>11. CASE IgDropQuery(i)
    BY <2>11
  <2>12. CASE IgKeepQuery(i)
    BY <2>12
  <2>13. CASE IgAgain(i)
    BY <2>13
  <2>14. CASE IgRemoveReply(i)
    BY <2>14
  <2>15. CASE IgCleaned(i)
    BY <2>15
  <2>16. CASE IgScanCrashes(i)
    BY <2>16 DEF replyVars
  <2>17. QED
    BY <2>1, <2>2, <2>3, <2>4, <2>5, <2>6, <2>7, <2>8, <2>9, <2>10, <2>11, <2>12, <2>13, <2>14, <2>15, <2>16
<1>5. QED
  BY <1>1, <1>2, <1>3, <1>4

LEMMA MutexStep == ASSUME Typed, PoolMutexHeld, [Next]_vars PROVE PoolMutexHeld'
<1>1. CASE UNCHANGED replyVars
  BY <1>1 DEF replyVars, PoolMutexHeld
<1>2. CASE Reply(IgProducer)
  BY <1>2, ProducerFrame DEF PoolMutexHeld
<1>3. ASSUME NEW i \in IgThreads, Reply(IgConsumer(i)) PROVE PoolMutexHeld'
  <2>1. CASE IgTake(i)
    BY <2>1 DEF IgTake, IgGoto, IgLocals, Typed, TypeOK, ReplyTypeOK, PoolMutexHeld
  <2>2. CASE IgLock(i)
    BY <2>2, Goes, PoolsAssumption DEF IgLock, LockPool, PoolMutexHeld
  <2>3. CASE IgUnlock(i)
    BY <2>3, Goes, PoolsAssumption DEF IgUnlock, Idle, PoolMutexHeld
  <2>4. CASE InsideStep(i)
    BY <2>4, InsideFrame DEF Inside, PoolMutexHeld
  <2>5. QED
    BY <1>3, <2>1, <2>2, <2>3, <2>4 DEF Reply, IgConsumer, InsideStep
<1>4. QED
  BY <1>1, <1>2, <1>3, PeerFrame, QueryFrame DEF Next, Reply, ReplyPoolStep, vars

\* Where the mutexes of the queues are free or held changes at four steps only.
LEMMA LocksStep == ASSUME Typed, LocksHeld, [Next]_vars PROVE LocksHeld'
<1>1. CASE UNCHANGED <<quPendLock, replyVars>>
  BY <1>1 DEF replyVars, igQueues, LocksHeld
<1>2. CASE Reply(IgProducer)
  BY <1>2, ProducerFrame DEF LocksHeld, quQueues
<1>3. ASSUME NEW i \in IgThreads, Reply(IgConsumer(i)) PROVE LocksHeld'
  <2> USE PoolsAssumption DEF LocksHeld, Typed, TypeOK, ReplyTypeOK, IgGoto, IgLocals
  <2>1. CASE IgTake(i)
    BY <2>1 DEF IgTake, sharedVars, quQueues
  <2>2. CASE IgLock(i)
    BY <2>2 DEF IgLock, LockPool, sharedVars, quQueues, igQueues
  <2>3. CASE IgReceive(i)
    BY <2>3 DEF IgReceive, sharedVars, quQueues, igQueues
  <2>4. CASE IgPending(i)
    BY <2>4 DEF IgPending, sharedVars, quQueues
  <2>5. CASE IgDecide(i)
    BY <2>5 DEF IgDecide, sharedVars, quQueues, igQueues
  <2>6. CASE IgReadHead(i)
    BY <2>6 DEF IgReadHead, sharedVars, quQueues, igQueues
  <2>7. CASE IgTakeQuery(i)
    BY <2>7 DEF IgTakeQuery, igQueues
  <2>8. CASE IgLockQueries(i)
    BY <2>8 DEF IgLockQueries, igQueues
  <2>9. CASE IgLockReplies(i)
    BY <2>9 DEF IgLockReplies, sharedVars, quQueues
  <2>10. CASE IgWalk(i)
    BY <2>10 DEF IgWalk, UnlockReplies
  <2>11. CASE IgSendTags(i)
    BY <2>11 DEF IgSendTags, sharedVars, quQueues, igQueues
  <2>12. CASE IgSendImage(i)
    BY <2>12 DEF IgSendImage, sharedVars, quQueues, igQueues
  <2>13. CASE IgDropQuery(i)
    BY <2>13 DEF IgDropQuery, quQueues, igQueues
  <2>14. CASE IgKeepQuery(i)
    BY <2>14 DEF IgKeepQuery, igQueues
  <2>15. CASE IgAgain(i)
    BY <2>15 DEF IgAgain, sharedVars, quQueues, igQueues
  <2>16. CASE IgRemoveReply(i)
    BY <2>16 DEF IgRemoveReply, quQueues
  <2>17. CASE IgCleaned(i)
    BY <2>17 DEF IgCleaned, sharedVars, quQueues, igQueues
  <2>18. CASE IgUnlock(i)
    BY <2>18 DEF IgUnlock, Idle, sharedVars, quQueues, igQueues
  <2>19. CASE IgScanCrashes(i)
    BY <2>19 DEF IgScanCrashes, quQueues, igQueues, replyVars
  <2>20. QED
    BY <1>3, <2>1, <2>2, <2>3, <2>4, <2>5, <2>6, <2>7, <2>8, <2>9, <2>10, <2>11, <2>12, <2>13,
       <2>14, <2>15, <2>16, <2>17, <2>18, <2>19 DEF Reply, IgConsumer
<1>4. QED
  BY <1>1, <1>2, <1>3, PeerFrame, QueryFrame DEF Next, Reply, ReplyPoolStep, vars, sharedVars, quQueues

-----------------------------------------------------------------------------
(* A round of responses.                                                   *)

\* What adding to a queue and taking its head off does to its elements.
LEMMA QueueEnds ==
  ASSUME NEW S, NEW s \in Seq(S), NEW x \in S
  PROVE  /\ Append(s, x) # <<>> /\ ToSet(Append(s, x)) = ToSet(s) \cup {x}
         /\ s # <<>> => /\ ToSet(s) = ToSet(Tail(s)) \cup {Head(s)}
                        /\ Len(Tail(s)) = Len(s) - 1
<1>1. /\ Append(s, x) # <<>> /\ DOMAIN s = 1..Len(s) /\ DOMAIN Append(s, x) = 1..(Len(s) + 1)
      /\ Len(s) \in Nat
      /\ \A k \in 1..(Len(s) + 1) : Append(s, x)[k] = IF k = Len(s) + 1 THEN x ELSE s[k]
  OBVIOUS
<1>2. ToSet(Append(s, x)) = ToSet(s) \cup {x}
  <2>1. \A y : y \in ToSet(Append(s, x)) <=> \E k \in 1..(Len(s) + 1) : y = Append(s, x)[k]
    BY <1>1 DEF ToSet
  <2>2. \A y : y \in ToSet(s) <=> \E k \in 1..Len(s) : y = s[k]
    BY <1>1 DEF ToSet
  <2>3. \A k : k \in 1..(Len(s) + 1) <=> k \in 1..Len(s) \/ k = Len(s) + 1
    BY <1>1
  <2>4. \A k \in 1..Len(s) : k # Len(s) + 1
    BY <1>1
  <2>5. \A y : y \in ToSet(Append(s, x)) <=> y \in ToSet(s) \cup {x}
    BY <1>1, <2>1, <2>2, <2>3, <2>4, Zenon
  <2>6. QED
    BY <2>5
<1>3. ASSUME s # <<>>
      PROVE  ToSet(s) = ToSet(Tail(s)) \cup {Head(s)} /\ Len(Tail(s)) = Len(s) - 1
  <2>1. /\ Len(Tail(s)) = Len(s) - 1 /\ DOMAIN Tail(s) = 1..(Len(s) - 1)
        /\ Head(s) = s[1] /\ 1 \in 1..Len(s)
        /\ \A k \in 1..(Len(s) - 1) : Tail(s)[k] = s[k + 1] /\ k + 1 \in 1..Len(s)
    BY <1>3, <1>1
  <2>2. \A k \in 1..Len(s) : k = 1 \/ (k - 1 \in 1..(Len(s) - 1) /\ Tail(s)[k - 1] = s[k])
    BY <1>1, <2>1
  <2>3. ToSet(s) \subseteq ToSet(Tail(s)) \cup {Head(s)}
    <3>1. SUFFICES ASSUME NEW k \in 1..Len(s) PROVE s[k] \in ToSet(Tail(s)) \cup {Head(s)}
      BY <1>1 DEF ToSet
    <3>2. CASE k = 1
      BY <2>1, <3>2
    <3>3. CASE k - 1 \in 1..(Len(s) - 1) /\ Tail(s)[k - 1] = s[k]
      BY <2>1, <3>3 DEF ToSet
    <3>4. QED
      BY <2>2, <3>2, <3>3
  <2>4. ToSet(Tail(s)) \cup {Head(s)} \subseteq ToSet(s)
    BY <1>1, <2>1 DEF ToSet
  <2>5. QED
    BY <2>1, <2>3, <2>4
<1>4. QED
  BY <1>1, <1>2, <1>3

Round == RepliesStay /\ QueriesStay /\ FileIsPending

\* A step that leaves the consumers, the pending replies and the files alone,
\* and takes no pending query.
LEMMA RoundFrame ==
  ASSUME Round, UNCHANGED <<ig, igPend, files>>, quPend' = quPend \/ quPend' # <<>>
  PROVE  Round'
BY DEF Round, RepliesStay, QueriesStay, FileIsPending

LEMMA RoundInside ==
  ASSUME Typed, PoolMutexHeld, Round, NEW i \in IgThreads, InsideStep(i)
  PROVE  Round'
<1> DEFINE pc == ig'[i].pc
<1>1. \A j \in IgThreads \ {i} : ig'[j].pc \in {"take", "lock"}
  BY InsideFrame DEF Inside, PoolMutexHeld
<1>2. SUFFICES /\ pc \in InRound => igPend' # <<>>
               /\ pc \in {"query", "lock_qu", "lock_ig", "walk"} => ig'[i].head = Head(igPend')
               /\ pc = "clean" => ig'[i].removeTimes = Len(igPend')
               /\ pc \in {"header", "body", "dispose", "again", "head", "query"} /\ ig'[i].count > 0
                    => quPend' # <<>>
               /\ pc \in InRound \cup {"clean", "unlock"} /\ ig'[i].cur \in files'
                    => ig'[i].cur \in ToSet(igPend')
  <2>1. \A j \in IgThreads \ {i} : ig'[j].pc \notin InRound \cup {"clean", "unlock"}
    BY <1>1 DEF InRound, Answering
  <2>2. QED
    BY <2>1 DEF Round, RepliesStay, QueriesStay, FileIsPending, InRound, Answering
<1>3. /\ ig[i] \in IgLocals /\ igPend \in Seq(Generators) /\ quPend \in Seq(Clients)
      /\ ig[i].cur # NULL => ig[i].cur \in Generators
  BY DEF Typed, TypeOK, SharedTypeOK, ReplyTypeOK, IgLocals
<1>4. /\ ig[i].pc \in InRound => igPend # <<>>
      /\ ig[i].pc \in {"query", "lock_qu", "lock_ig", "walk"} => ig[i].head = Head(igPend)
      /\ ig[i].pc = "clean" => ig[i].removeTimes = Len(igPend)
      /\ ig[i].pc \in {"header", "body", "dispose", "again", "head", "query"} /\ ig[i].count > 0
           => quPend # <<>>
      /\ ig[i].pc \in InRound \cup {"clean", "unlock"} /\ ig[i].cur \in files
           => ig[i].cur \in ToSet(igPend)
  BY DEF Round, RepliesStay, QueriesStay, FileIsPending
<1>5. ig \in [IgThreads -> IgLocals]
  BY DEF Typed, TypeOK, ReplyTypeOK
<1> HIDE DEF pc
<1> USE DEF IgGoto, IgLocals, InRound, Answering, pc, sharedVars, quQueues, igQueues
<1>6. CASE IgReceive(i)
  BY <1>3, <1>4, <1>5, <1>6 DEF IgReceive
<1>7. CASE IgPending(i)
  <2>1. ig[i].cur \in Generators
    BY <1>3, <1>7 DEF IgPending, Typed, LocalsMatch
  <2>2. igPend' # <<>> /\ ig'[i].cur \in ToSet(igPend')
    BY <1>3, <1>5, <1>7, <2>1, QueueEnds DEF IgPending
  <2>3. QED
    BY <1>3, <1>4, <1>5, <1>7, <2>2 DEF IgPending
<1>8. CASE IgDecide(i)
  BY <1>3, <1>4, <1>5, <1>8 DEF IgDecide
<1>9. CASE IgReadHead(i)
  BY <1>3, <1>4, <1>5, <1>9 DEF IgReadHead
<1>10. CASE IgTakeQuery(i)
  BY <1>3, <1>4, <1>5, <1>10 DEF IgTakeQuery, WithHead
<1>11. CASE IgLockQueries(i)
  BY <1>3, <1>4, <1>5, <1>11 DEF IgLockQueries
<1>12. CASE IgLockReplies(i)
  BY <1>3, <1>4, <1>5, <1>12 DEF IgLockReplies
<1>13. CASE IgWalk(i)
  BY <1>3, <1>4, <1>5, <1>13 DEF IgWalk, QueryCount
<1>14. CASE IgSendTags(i)
  BY <1>3, <1>4, <1>5, <1>14 DEF IgSendTags
<1>15. CASE IgSendImage(i)
  BY <1>3, <1>4, <1>5, <1>15 DEF IgSendImage, RemoveFile
<1>16. CASE IgDropQuery(i)
  BY <1>3, <1>4, <1>5, <1>16 DEF IgDropQuery
<1>17. CASE IgKeepQuery(i)
  <2>1. ig[i].query \in Clients
    BY <1>3, <1>17 DEF IgKeepQuery, Typed, LocalsMatch
  <2>2. quPend' # <<>>
    BY <1>3, <1>17, <2>1, QueueEnds DEF IgKeepQuery
  <2>3. QED
    BY <1>3, <1>4, <1>5, <1>17, <2>2 DEF IgKeepQuery
<1>18. CASE IgAgain(i)
  BY <1>3, <1>4, <1>5, <1>18 DEF IgAgain, RemoveTimes
<1>19. CASE IgRemoveReply(i)
  <2>1. ToSet(igPend) = ToSet(igPend') \cup {Head(igPend)} /\ Len(igPend') = Len(igPend) - 1
    BY <1>3, <1>19, QueueEnds DEF IgRemoveReply
  <2>2. files' = files \ {Head(igPend)}
    BY <1>19 DEF IgRemoveReply, RemoveFile
  <2>3. QED
    BY <1>3, <1>4, <1>5, <1>19, <2>1, <2>2 DEF IgRemoveReply
<1>20. CASE IgCleaned(i)
  BY <1>3, <1>4, <1>5, <1>20 DEF IgCleaned
<1>21. CASE IgScanCrashes(i)
  BY <1>3, <1>4, <1>5, <1>21 DEF IgScanCrashes, replyVars
<1>22. QED
  BY <1>6, <1>7, <1>8, <1>9, <1>10, <1>11, <1>12, <1>13, <1>14, <1>15, <1>16, <1>17, <1>18, <1>19, <1>20, <1>21 DEF InsideStep

LEMMA RoundStep == ASSUME Typed, PoolMutexHeld, Round, [Next]_vars PROVE Round'
<1>1. CASE UNCHANGED vars
  BY <1>1, RoundFrame DEF vars, sharedVars, quQueues, replyVars, igQueues
<1>2. CASE Peer(PeerStep)
  BY <1>2, PeerFrame, RoundFrame DEF quQueues, replyVars, igQueues
<1>3. CASE Query(QueryPoolStep)
  <2>1. UNCHANGED <<ig, igPend, files>>
    BY <1>3, QueryFrame DEF replyVars, igQueues
  <2>2. CASE UNCHANGED quPend
    BY <2>1, <2>2, RoundFrame
  <2>3. ASSUME NEW t \in QuThreads, QuPending(t) PROVE Round'
    <3>1. quPend \in Seq(Clients) /\ quCur[t] \in Clients
      BY <2>3 DEF QuPending, QuGoto, Typed, TypeOK, SharedTypeOK, QueryTypeOK, LocalsMatch
    <3>2. quPend' # <<>>
      BY <2>3, <3>1, QueueEnds DEF QuPending
    <3>3. QED
      BY <2>1, <3>2, RoundFrame
  <2>4. QED
    BY <1>3, <2>2, <2>3
       DEF Query, QueryPoolStep, QuProducer, QuAccept, QuConsumer, QuTake, QuReceive,
           QuReceiveBroken, QuForward, QuForwardFails, QuAnswered, sharedVars, quQueues
<1>4. CASE Reply(IgProducer)
  BY <1>4, ProducerFrame, RoundFrame DEF quQueues
<1>5. ASSUME NEW i \in IgThreads, Reply(IgConsumer(i)) PROVE Round'
  <2> USE DEF IgGoto, IgLocals, Typed, TypeOK, ReplyTypeOK, Round, RepliesStay, QueriesStay,
              FileIsPending, InRound, Answering, sharedVars, quQueues, igQueues
  <2>1. CASE IgTake(i)
    BY <2>1 DEF IgTake
  <2>2. CASE IgLock(i)
    <3>1. \A j \in IgThreads : ig[j].pc \in {"take", "lock"}
      BY <2>2, PoolsAssumption DEF IgLock, LockPool, PoolMutexHeld
    <3>2. \A j \in IgThreads : ig'[j].pc \in {"take", "lock", "receive"}
      BY <2>2, <3>1 DEF IgLock
    <3>3. QED
      BY <3>2
  <2>3. CASE IgUnlock(i)
    BY <2>3 DEF IgUnlock, Idle
  <2>4. CASE InsideStep(i)
    BY <2>4, RoundInside
  <2>5. QED
    BY <1>5, <2>1, <2>2, <2>3, <2>4 DEF Reply, IgConsumer, InsideStep
<1>6. QED
  BY <1>1, <1>2, <1>3, <1>4, <1>5 DEF Next, ReplyPoolStep, Reply

-----------------------------------------------------------------------------
(* The files on disk.                                                      *)

LEMMA FilesStep ==
  ASSUME Typed, PoolMutexHeld, Round, NoOrphanFiles, [Next]_vars
  PROVE  NoOrphanFiles'
<1> DEFINE Curs == {ig[i].cur : i \in IgThreads}
<1>1. CASE UNCHANGED <<ig, igPend, files>>
  BY <1>1 DEF NoOrphanFiles
<1>2. ASSUME NEW i \in IgThreads, Reply(IgConsumer(i)) PROVE NoOrphanFiles'
  <2>1. /\ ig \in [IgThreads -> IgLocals] /\ ig[i] \in IgLocals
        /\ igPend \in Seq(Generators) /\ files \subseteq Generators /\ NULL \notin Generators
    BY PoolsAssumption DEF Typed, TypeOK, ReplyTypeOK, Peers
  <2>2. CASE IgTake(i)
    <3>1. /\ UNCHANGED <<igPend, files>> /\ ig[i].cur = NULL
          /\ \A j \in IgThreads \ {i} : ig'[j] = ig[j]
      BY <2>1, <2>2 DEF IgTake, IgGoto, Typed, LocalsMatch
    <3>2. QED
      BY <2>1, <3>1 DEF NoOrphanFiles
  <2>3. CASE IgLock(i)
    <3>1. /\ UNCHANGED igPend /\ files' = files \cup {ig[i].cur}
          /\ \A j \in IgThreads : ig'[j].cur = ig[j].cur
      BY <2>1, <2>3 DEF IgLock, IgGoto, IgLocals, igQueues
    <3>2. QED
      BY <3>1 DEF NoOrphanFiles
  <2>4. CASE IgUnlock(i)
    <3>1. /\ UNCHANGED <<igPend, files>>
          /\ ig[i].cur \in files => ig[i].cur \in ToSet(igPend)
          /\ \A j \in IgThreads \ {i} : ig'[j] = ig[j]
      BY <2>1, <2>4 DEF IgUnlock, IgGoto, igQueues, Round, FileIsPending
    <3>2. QED
      BY <3>1 DEF NoOrphanFiles
  <2>5. CASE InsideStep(i)
    <3>1. \A j \in IgThreads : ig'[j].cur = ig[j].cur
      BY <2>5, InsideFrame
    <3>2. files' \subseteq ToSet(igPend') \cup {ig[j].cur : j \in IgThreads}
      <4>1. CASE IgPending(i)
        <5>1. ig[i].cur \in Generators
          BY <2>1, <4>1 DEF IgPending, IgGoto, IgLocals, Typed, LocalsMatch
        <5>2. ToSet(igPend') = ToSet(igPend) \cup {ig[i].cur} /\ UNCHANGED files
          BY <2>1, <4>1, <5>1, QueueEnds DEF IgPending
        <5>3. QED
          BY <5>2 DEF NoOrphanFiles
      <4>2. CASE IgRemoveReply(i)
        <5>1. ToSet(igPend) = ToSet(igPend') \cup {Head(igPend)} /\ files' = files \ {Head(igPend)}
          BY <2>1, <4>2, QueueEnds DEF IgRemoveReply, RemoveFile
        <5>2. QED
          BY <5>1 DEF NoOrphanFiles
      <4>3. CASE UNCHANGED igPend /\ files' \subseteq files
        BY <4>3 DEF NoOrphanFiles
      <4>4. QED
        BY <2>5, <4>1, <4>2, <4>3
           DEF InsideStep, IgReceive, IgDecide, IgReadHead, IgTakeQuery, IgLockQueries,
               IgLockReplies, IgWalk, IgScanCrashes, IgSendTags, IgSendImage, IgDropQuery,
               IgKeepQuery, IgAgain, IgCleaned, RemoveFile, igQueues, replyVars
    <3>3. QED
      BY <3>1, <3>2 DEF NoOrphanFiles
  <2>6. QED
    BY <1>2, <2>2, <2>3, <2>4, <2>5 DEF Reply, IgConsumer, InsideStep
<1>3. QED
  BY <1>1, <1>2, PeerFrame, QueryFrame, ProducerFrame
     DEF Next, ReplyPoolStep, Reply, vars, replyVars, igQueues

-----------------------------------------------------------------------------
(* Responses that fail.                                                    *)

\* A connection that is broken stays so.
LEMMA ResetStays ==
  ASSUME Typed, [Next]_vars
  PROVE  \A x \in Peers : peer[x] = "reset" => peer'[x] = "reset"
<1>1. CASE Peer(PeerStep)
  BY <1>1 DEF Typed, TypeOK, SharedTypeOK, Peer, PeerStep, Call, Ask, HangUp, Break
<1>2. CASE UNCHANGED peer
  BY <1>2
<1>3. ASSUME NEW i \in IgThreads, Reply(IgConsumer(i)) PROVE UNCHANGED peer
  BY <1>3, InsideFrame
     DEF Reply, IgConsumer, InsideStep, IgTake, IgLock, IgUnlock, sharedVars, peerVars, Typed
<1>4. QED
  BY <1>1, <1>2, <1>3, QueryFrame, ProducerFrame
     DEF Next, ReplyPoolStep, Reply, vars, sharedVars, peerVars

LEMMA FailureStep ==
  ASSUME Typed, FailureIsReset, [Next]_vars
  PROVE  FailureIsReset'
<1>0. /\ \A x \in Peers : peer[x] = "reset" => peer'[x] = "reset"
      /\ \A i \in IgThreads : ig[i] \in IgLocals /\ (ig[i].pc \in Answering => ig[i].query \in Peers)
  BY ResetStays DEF Typed, TypeOK, ReplyTypeOK, LocalsMatch, IgLocals, Peers
<1>1. CASE UNCHANGED ig
  BY <1>0, <1>1 DEF FailureIsReset, Answering
<1>2. ASSUME NEW i \in IgThreads, Reply(IgConsumer(i)) PROVE FailureIsReset'
  <2>1. \A j \in IgThreads \ {i} : ig'[j] = ig[j]
    BY <1>2, OthersKeep DEF Reply, Typed
  <2>2. ASSUME ig'[i].pc \in {"body", "dispose"}, ~ig'[i].connected
        PROVE  peer'[ig'[i].query] = "reset"
    <3> USE DEF IgGoto, IgLocals, Typed, TypeOK, ReplyTypeOK
    <3>1. CASE IgSendTags(i)
      BY <2>2, <3>1, <1>0 DEF IgSendTags, ConnectedAtFirst, Answering
    <3>2. CASE IgSendImage(i)
      BY <2>2, <3>2, <1>0 DEF IgSendImage, FailureIsReset, Answering
    <3>3. ASSUME ~IgSendTags(i), ~IgSendImage(i) PROVE ig'[i].pc \notin {"body", "dispose"}
      <4>1. CASE IgTake(i)
        BY <4>1 DEF IgTake
      <4>2. CASE IgLock(i)
        BY <4>2 DEF IgLock
      <4>3. CASE IgReceive(i)
        BY <4>3 DEF IgReceive
      <4>4. CASE IgPending(i)
        BY <4>4 DEF IgPending
      <4>5. CASE IgDecide(i)
        BY <4>5 DEF IgDecide
      <4>6. CASE IgReadHead(i)
        BY <4>6 DEF IgReadHead
      <4>7. CASE IgTakeQuery(i)
        BY <4>7 DEF IgTakeQuery
      <4>8. CASE IgLockQueries(i)
        BY <4>8 DEF IgLockQueries
      <4>9. CASE IgLockReplies(i)
        BY <4>9 DEF IgLockReplies
      <4>10. CASE IgWalk(i)
        BY <4>10 DEF IgWalk
      <4>11. CASE IgDropQuery(i)
        BY <4>11 DEF IgDropQuery
      <4>12. CASE IgKeepQuery(i)
        BY <4>12 DEF IgKeepQuery
      <4>13. CASE IgAgain(i)
        BY <4>13 DEF IgAgain
      <4>14. CASE IgRemoveReply(i)
        BY <4>14 DEF IgRemoveReply
      <4>15. CASE IgCleaned(i)
        BY <4>15 DEF IgCleaned
      <4>16. CASE IgUnlock(i)
        BY <4>16 DEF IgUnlock, Idle
      <4>17. CASE IgScanCrashes(i)
        BY <4>17 DEF IgScanCrashes, replyVars
      <4>18. QED
        BY <1>2, <3>3, <4>1, <4>2, <4>3, <4>4, <4>5, <4>6, <4>7, <4>8, <4>9, <4>10, <4>11, <4>12, <4>13, <4>14, <4>15, <4>16, <4>17 DEF Reply, IgConsumer
    <3>4. QED
      BY <2>2, <3>1, <3>2, <3>3
  <2>3. QED
    BY <1>0, <2>1, <2>2 DEF FailureIsReset, Answering
<1>3. QED
  BY <1>1, <1>2, PeerFrame, QueryFrame, ProducerFrame
     DEF Next, ReplyPoolStep, Reply, vars, replyVars

-----------------------------------------------------------------------------
(* Counting.                                                               *)

\* How often x occurs in a queue, and what adding and removing make of that.
LEMMA Occurs ==
  ASSUME NEW S, NEW s \in Seq(S), NEW x
  PROVE  /\ Occurrences(x, s) \in Nat
         /\ Occurrences(x, s) = 0 <=> x \notin ToSet(s)
<1> DEFINE A == {k \in DOMAIN s : s[k] = x}
<1>1. IsFiniteSet(1..Len(s)) /\ A \in SUBSET (1..Len(s))
  BY FS_Interval
<1>2. A = {} <=> x \notin ToSet(s)
  BY DEF ToSet
<1>3. Occurrences(x, s) = Cardinality(A)
  BY DEF Occurrences
<1> HIDE DEF A
<1>4. QED
  BY <1>1, <1>2, <1>3, CountSome

LEMMA OccursAppend ==
  ASSUME NEW S, NEW s \in Seq(S), NEW y \in S, NEW x
  PROVE  Occurrences(x, Append(s, y)) = Occurrences(x, s) + (IF x = y THEN 1 ELSE 0)
<1> DEFINE n == Len(s) + 1
           T == 1..n
           A == {k \in DOMAIN s : s[k] = x}
           B == {k \in DOMAIN Append(s, y) : Append(s, y)[k] = x}
<1>1. /\ n \in Nat /\ IsFiniteSet(1..n) /\ n \in 1..n
      /\ DOMAIN s = 1..(n - 1) /\ DOMAIN Append(s, y) = 1..n /\ 1..(n - 1) \subseteq 1..n
      /\ n \notin 1..(n - 1) /\ (1..n) \ {n} = 1..(n - 1)
      /\ Append(s, y)[n] = y /\ \A k \in 1..(n - 1) : Append(s, y)[k] = s[k]
  <2>1. Len(s) \in Nat /\ n \in Nat /\ n - 1 = Len(s)
    OBVIOUS
  <2>2. /\ DOMAIN s = 1..(n - 1) /\ DOMAIN Append(s, y) = 1..n
        /\ Append(s, y)[n] = y /\ \A k \in 1..(n - 1) : Append(s, y)[k] = s[k]
    BY <2>1
  <2> HIDE DEF n
  <2>3. IsFiniteSet(1..n)
    BY <2>1, FS_Interval
  <2>4. n \in 1..n /\ n \notin 1..(n - 1) /\ 1..(n - 1) \subseteq 1..n /\ (1..n) \ {n} = 1..(n - 1)
    BY <2>1
  <2>5. QED
    BY <2>1, <2>2, <2>3, <2>4
<1> HIDE DEF n
<1>2. /\ IsFiniteSet(T) /\ n \in T /\ A \in SUBSET T /\ B \in SUBSET T
      /\ \A k \in T \ {n} : k \in A <=> k \in B
  BY <1>1
<1>3. n \notin A /\ (n \in B <=> x = y)
  BY <1>1
<1> HIDE DEF T, A, B
<1>4. /\ Cardinality(A) \in Nat
      /\ Cardinality(B) = Cardinality(A) + (IF n \in B THEN 1 ELSE 0) - (IF n \in A THEN 1 ELSE 0)
  BY <1>2, CountStep
<1>5. Cardinality(B) = Cardinality(A) + (IF x = y THEN 1 ELSE 0)
  BY <1>3, <1>4
<1>6. QED
  BY <1>5 DEF Occurrences, A, B

LEMMA OccursTail ==
  ASSUME NEW S, NEW s \in Seq(S), s # <<>>, NEW x
  PROVE  Occurrences(x, Tail(s)) = Occurrences(x, s) - (IF x = Head(s) THEN 1 ELSE 0)
<1> DEFINE n == Len(s)
           A == {k \in DOMAIN Tail(s) : Tail(s)[k] = x}
           T == 1..n
           B == {k \in 2..n : s[k] = x}
           C == {k \in DOMAIN s : s[k] = x}
           f == [k \in A |-> k + 1]
<1>1. /\ n \in Nat /\ IsFiniteSet(1..n) /\ 1 \in 1..n /\ DOMAIN s = 1..n /\ s[1] = Head(s)
      /\ DOMAIN Tail(s) = 1..(n - 1) 
      /\ \A k \in 1..(n - 1) : Tail(s)[k] = s[k + 1] /\ k + 1 \in 2..n
  BY FS_Interval
<1> HIDE DEF n
<1>2. IsFiniteSet(A)
  <2>1. IsFiniteSet(1..(n - 1)) /\ A \in SUBSET (1..(n - 1))
    BY <1>1, FS_Interval
  <2>2. QED
    BY <2>1, FS_Subset
<1>3. f \in Bijection(A, B)
  <2>1. f \in [A -> B]
    BY <1>1
  <2>2. \A j, k \in A : f[j] = f[k] => j = k
    BY <1>1
  <2>3. \A k \in B : k - 1 \in A /\ f[k - 1] = k
    BY <1>1
  <2> HIDE DEF A, B, f
  <2>4. f \in Injection(A, B)
    BY <2>1, <2>2 DEF Injection, IsInjective
  <2>5. f \in Surjection(A, B)
    BY <2>1, <2>3 DEF Surjection
  <2>6. QED
    BY <2>4, <2>5 DEF Bijection
<1>4. Cardinality(B) = Cardinality(A)
  <2> HIDE DEF A, B, f
  <2>1. ExistsBijection(A, B)
    BY <1>3 DEF ExistsBijection
  <2>2. QED
    BY <1>2, <2>1, FS_Bijection
<1>5. /\ IsFiniteSet(T) /\ 1 \in T /\ B \in SUBSET T /\ C \in SUBSET T
      /\ \A k \in T \ {1} : k \in B <=> k \in C
  <2>1. 2..n = T \ {1}
    BY <1>1
  <2>2. QED
    BY <1>1, <2>1
<1>6. 1 \notin B /\ (1 \in C <=> x = Head(s))
  BY <1>1
<1> HIDE DEF T, A, B, C, f
<1>7. /\ Cardinality(B) \in Nat
      /\ Cardinality(C) = Cardinality(B) + (IF 1 \in C THEN 1 ELSE 0) - (IF 1 \in B THEN 1 ELSE 0)
  BY <1>5, CountStep
<1>8. Cardinality(A) = Cardinality(C) - (IF x = Head(s) THEN 1 ELSE 0)
  BY <1>4, <1>6, <1>7
<1>9. QED
  BY <1>8 DEF Occurrences, A, C

-----------------------------------------------------------------------------
(* The owner of each query.                                                *)

InQuHand(cur, c) == {t \in QuThreads : cur[t] = c}
InIgHand(locals, c) == {i \in IgThreads : locals[i].query = c}

QueriesOwned == \A c \in Clients : QueryOwners(c) = (IF sock[c] = "open" THEN 1 ELSE 0)

\* What a thread of the query pool takes in hand in place of what it had.
LEMMA QuHandMoves ==
  ASSUME NEW t \in QuThreads, \A u \in QuThreads \ {t} : quCur'[u] = quCur[u], NEW c
  PROVE  Cardinality(InQuHand(quCur', c)) = Cardinality(InQuHand(quCur, c))
           + (IF quCur'[t] = c THEN 1 ELSE 0) - (IF quCur[t] = c THEN 1 ELSE 0)
<1>1. /\ IsFiniteSet(QuThreads) /\ InQuHand(quCur, c) \in SUBSET QuThreads /\ InQuHand(quCur', c) \in SUBSET QuThreads
      /\ \A u \in QuThreads \ {t} : u \in InQuHand(quCur, c) <=> u \in InQuHand(quCur', c)
      /\ t \in InQuHand(quCur, c) <=> quCur[t] = c
      /\ t \in InQuHand(quCur', c) <=> quCur'[t] = c
  BY PoolsAssumption DEF InQuHand
<1> HIDE DEF InQuHand
<1>2. QED
  BY <1>1, CountStep

LEMMA IgHandMoves ==
  ASSUME NEW i \in IgThreads, \A j \in IgThreads \ {i} : ig'[j].query = ig[j].query, NEW c
  PROVE  Cardinality(InIgHand(ig', c)) = Cardinality(InIgHand(ig, c)) + (IF ig'[i].query = c THEN 1 ELSE 0)
                                       - (IF ig[i].query = c THEN 1 ELSE 0)
<1>1. /\ IsFiniteSet(IgThreads) /\ InIgHand(ig, c) \in SUBSET IgThreads /\ InIgHand(ig', c) \in SUBSET IgThreads
      /\ \A j \in IgThreads \ {i} : j \in InIgHand(ig, c) <=> j \in InIgHand(ig', c)
      /\ i \in InIgHand(ig, c) <=> ig[i].query = c
      /\ i \in InIgHand(ig', c) <=> ig'[i].query = c
  BY PoolsAssumption DEF InIgHand
<1> HIDE DEF InIgHand
<1>2. QED
  BY <1>1, CountStep

\* The four counts that make up the owners of a query are natural numbers.
LEMMA QueryCounts ==
  ASSUME Typed, NEW c
  PROVE  /\ QueryOwners(c) = Occurrences(c, quIn) + Occurrences(c, quPend)
                               + Cardinality(InQuHand(quCur, c)) + Cardinality(InIgHand(ig, c))
         /\ Occurrences(c, quIn) \in Nat /\ Occurrences(c, quPend) \in Nat
         /\ Cardinality(InQuHand(quCur, c)) \in Nat /\ Cardinality(InIgHand(ig, c)) \in Nat
<1>1. quIn \in Seq(Clients) /\ quPend \in Seq(Clients)
  BY DEF Typed, TypeOK, SharedTypeOK
<1>2. InQuHand(quCur, c) \in SUBSET QuThreads /\ InIgHand(ig, c) \in SUBSET IgThreads
  BY DEF InQuHand, InIgHand
<1>3. QED
  BY <1>1, <1>2, Occurs, CountSome, PoolsAssumption DEF QueryOwners, InQuHand, InIgHand

\* A step that moves no query keeps every owner.
LEMMA QueriesFrame ==
  ASSUME QueriesOwned, UNCHANGED <<quIn, quPend, quCur>>,
         \A i \in IgThreads : ig'[i].query = ig[i].query,
         \A c \in Clients : sock'[c] = sock[c]
  PROVE  QueriesOwned'
<1>1. ASSUME NEW c \in Clients PROVE QueryOwners(c)' = QueryOwners(c)
  <2>1. InIgHand(ig', c) = InIgHand(ig, c)
    BY DEF InIgHand
  <2>2. QED
    BY <2>1 DEF QueryOwners, InIgHand
<1>2. QED
  BY <1>1 DEF QueriesOwned

\* A step that moves queries: for each of them the numbers of its owners in the
\* queues and in the hands change as its socket does.
LEMMA QueriesMove ==
  ASSUME Typed, Typed', QueriesOwned,
         \A c \in Clients :
           Occurrences(c, quIn') + Occurrences(c, quPend')
             + Cardinality(InQuHand(quCur', c)) + Cardinality(InIgHand(ig', c))
             = IF sock'[c] = "open" THEN 1 ELSE 0
  PROVE  QueriesOwned'
<1>1. \A c : QueryOwners(c)' = Occurrences(c, quIn') + Occurrences(c, quPend')
                                 + Cardinality(InQuHand(quCur', c)) + Cardinality(InIgHand(ig', c))
  BY DEF QueryOwners, InQuHand, InIgHand
<1>2. QED
  BY <1>1 DEF QueriesOwned

LEMMA QueriesStep ==
  ASSUME Typed, QueriesOwned, [Next]_vars
  PROVE  QueriesOwned'
<1> DEFINE OneOwner(d) ==
      Occurrences(d, quIn') + Occurrences(d, quPend')
        + Cardinality(InQuHand(quCur', d)) + Cardinality(InIgHand(ig', d))
        = IF sock'[d] = "open" THEN 1 ELSE 0
<1>0. /\ Typed' /\ Clients \cap Generators = {} /\ NULL \notin Clients
      /\ sock \in [Peers -> {"none", "open", "closed"}] /\ Clients \subseteq Peers
      /\ quIn \in Seq(Clients) /\ quPend \in Seq(Clients) /\ igPend \in Seq(Generators)
  BY TypedStep, PoolsAssumption DEF Typed, TypeOK, SharedTypeOK, ReplyTypeOK, Peers
<1>1. \A c : /\ QueryOwners(c) = Occurrences(c, quIn) + Occurrences(c, quPend)
                                   + Cardinality(InQuHand(quCur, c)) + Cardinality(InIgHand(ig, c))
             /\ Occurrences(c, quIn) \in Nat /\ Occurrences(c, quPend) \in Nat
             /\ Cardinality(InQuHand(quCur, c)) \in Nat /\ Cardinality(InIgHand(ig, c)) \in Nat
  BY QueryCounts
<1>2. \A c \in Clients : QueryOwners(c) = IF sock[c] = "open" THEN 1 ELSE 0
  BY DEF QueriesOwned
<1>3. CASE UNCHANGED <<sock, quIn, quPend, quCur, ig>>
  BY <1>3, QueriesFrame
<1>4. ASSUME NEW c \in Clients, QuAccept(c), UNCHANGED replyVars PROVE QueriesOwned'
  <2>1. /\ sock[c] = "none" /\ sock' = [sock EXCEPT ![c] = "open"] /\ quIn' = Append(quIn, c)
        /\ UNCHANGED <<quPend, quCur, ig>>
    BY <1>4 DEF QuAccept, queryVars, replyVars
  <2>2. ASSUME NEW d \in Clients PROVE OneOwner(d)
    <3>1. sock'[d] = IF d = c THEN "open" ELSE sock[d]
      BY <1>0, <2>1
    <3>2. Occurrences(d, quIn') = Occurrences(d, quIn) + (IF d = c THEN 1 ELSE 0)
      BY <1>0, <2>1, OccursAppend
    <3>3. Occurrences(d, quPend') = Occurrences(d, quPend) /\ InQuHand(quCur', d) = InQuHand(quCur, d) /\ InIgHand(ig', d) = InIgHand(ig, d)
      BY <2>1
    <3>4. QED
      BY <1>1, <1>2, <2>1, <3>1, <3>2, <3>3
  <2>3. QED
    BY <1>0, <2>2, QueriesMove
<1>5. ASSUME NEW t \in QuThreads, QuTake(t), UNCHANGED replyVars PROVE QueriesOwned'
  <2>1. /\ quIn # <<>> /\ quIn' = Tail(quIn)
        /\ quCur[t] = NULL /\ quCur'[t] = Head(quIn) /\ \A u \in QuThreads \ {t} : quCur'[u] = quCur[u]
        /\ UNCHANGED <<sock, quPend, ig>>
    BY <1>5 DEF QuTake, QuGoto, replyVars, Typed, LocalsMatch, TypeOK, QueryTypeOK
  <2>2. ASSUME NEW d \in Clients PROVE OneOwner(d)
    <3>1. sock'[d] = sock[d]
      BY <2>1
    <3>2. Occurrences(d, quIn') = Occurrences(d, quIn) - (IF d = Head(quIn) THEN 1 ELSE 0)
      BY <1>0, <2>1, OccursTail
    <3>3. Cardinality(InQuHand(quCur', d)) = Cardinality(InQuHand(quCur, d)) + (IF d = Head(quIn) THEN 1 ELSE 0)
      <4>1. Cardinality(InQuHand(quCur', d)) = Cardinality(InQuHand(quCur, d))
              + (IF quCur'[t] = d THEN 1 ELSE 0) - (IF quCur[t] = d THEN 1 ELSE 0)
        BY <2>1, QuHandMoves
      <4>2. QED
        BY <1>0, <1>1, <2>1, <4>1, SMTT(30)
    <3>4. Occurrences(d, quPend') = Occurrences(d, quPend) /\ InIgHand(ig', d) = InIgHand(ig, d)
      BY <2>1
    <3>5. QED
      BY <1>1, <1>2, <3>1, <3>2, <3>3, <3>4
  <2>3. QED
    BY <1>0, <2>2, QueriesMove
<1>6. ASSUME NEW t \in QuThreads, QuPending(t), UNCHANGED replyVars PROVE QueriesOwned'
  <2>1. /\ quPend' = Append(quPend, quCur[t]) /\ quCur'[t] = NULL
        /\ \A u \in QuThreads \ {t} : quCur'[u] = quCur[u]
        /\ quCur[t] \in Clients /\ UNCHANGED <<sock, quIn, ig>>
    BY <1>6 DEF QuPending, QuGoto, replyVars, Typed, TypeOK, QueryTypeOK, LocalsMatch
  <2>2. ASSUME NEW d \in Clients PROVE OneOwner(d)
    <3>1. sock'[d] = sock[d]
      BY <2>1
    <3>2. Occurrences(d, quPend') = Occurrences(d, quPend) + (IF d = quCur[t] THEN 1 ELSE 0)
      BY <1>0, <2>1, OccursAppend
    <3>3. Cardinality(InQuHand(quCur', d)) = Cardinality(InQuHand(quCur, d)) - (IF d = quCur[t] THEN 1 ELSE 0)
      <4>1. Cardinality(InQuHand(quCur', d)) = Cardinality(InQuHand(quCur, d))
              + (IF quCur'[t] = d THEN 1 ELSE 0) - (IF quCur[t] = d THEN 1 ELSE 0)
        BY <2>1, QuHandMoves
      <4>2. quCur'[t] # d
        BY <1>0, <2>1
      <4>3. QED
        BY <1>1, <4>1, <4>2
    <3>4. Occurrences(d, quIn') = Occurrences(d, quIn) /\ InIgHand(ig', d) = InIgHand(ig, d)
      BY <2>1
    <3>5. QED
      BY <1>1, <1>2, <3>1, <3>2, <3>3, <3>4
  <2>3. QED
    BY <1>0, <2>2, QueriesMove
<1>7. ASSUME NEW t \in QuThreads, Query(QuConsumer(t)) PROVE QueriesOwned'
  <2>1. CASE QuTake(t) \/ QuPending(t)
    BY <1>5, <1>6, <1>7, <2>1 DEF Query
  <2>2. CASE QuReceive(t) \/ QuReceiveBroken(t) \/ QuForward(t) \/ QuForwardFails(t) \/ QuAnswered(t)
    BY <1>3, <1>7, <2>2 DEF Query, QuReceive, QuReceiveBroken, QuForward, QuForwardFails, QuAnswered,
       sharedVars, quQueues, queryVars, replyVars
  <2>3. QED
    BY <1>7, <2>1, <2>2 DEF Query, QuConsumer
<1>8. CASE Reply(IgProducer)
  <2>1. \A c \in Clients : sock'[c] = sock[c]
    <3>1. accepted = NULL \/ accepted \in Generators
      BY DEF Typed, TypeOK, ReplyTypeOK
    <3>2. QED
      BY <1>0, <1>8, <3>1
         DEF Reply, IgProducer, IgAccept, IgAdmit, IgRefuse, IgEnqueue, Close, sharedVars
  <2>2. QED
    BY <1>8, <2>1, ProducerFrame, QueriesFrame DEF quQueues, queryVars
<1>9. ASSUME NEW i \in IgThreads, Reply(IgConsumer(i)) PROVE QueriesOwned'
  <2>0. /\ UNCHANGED quCur /\ ig[i] \in IgLocals /\ ig \in [IgThreads -> IgLocals]
        /\ \A j \in IgThreads \ {i} : ig'[j] = ig[j]
    BY <1>9, OthersKeep DEF Reply, queryVars, Typed, TypeOK, ReplyTypeOK
  <2>1. CASE IgTakeQuery(i)
    <3>1. /\ quPend # <<>> /\ quPend' = Tail(quPend) /\ ig[i].query = NULL /\ ig'[i].query = Head(quPend)
          /\ UNCHANGED <<sock, quIn, quCur>>
      BY <2>0, <2>1 DEF IgTakeQuery, WithoutHead, IgGoto, IgLocals, Typed, LocalsMatch, Answering
    <3>2. ASSUME NEW d \in Clients PROVE OneOwner(d)
      <4>1. sock'[d] = sock[d]
        BY <3>1
      <4>2. Occurrences(d, quPend') = Occurrences(d, quPend) - (IF d = Head(quPend) THEN 1 ELSE 0)
        BY <1>0, <3>1, OccursTail
      <4>3. Cardinality(InIgHand(ig', d)) = Cardinality(InIgHand(ig, d)) + (IF d = Head(quPend) THEN 1 ELSE 0)
        <5>1. Cardinality(InIgHand(ig', d)) = Cardinality(InIgHand(ig, d))
                + (IF ig'[i].query = d THEN 1 ELSE 0) - (IF ig[i].query = d THEN 1 ELSE 0)
          BY <2>0, IgHandMoves
        <5>2. QED
          BY <1>0, <1>1, <3>1, <5>1, SMTT(30)
      <4>4. Occurrences(d, quIn') = Occurrences(d, quIn) /\ InQuHand(quCur', d) = InQuHand(quCur, d)
        BY <2>0, <3>1
      <4>5. QED
        BY <1>1, <1>2, <4>1, <4>2, <4>3, <4>4
    <3>3. QED
      BY <1>0, <3>2, QueriesMove
  <2>2. CASE IgDropQuery(i)
    <3>1. /\ ig[i].query \in Clients /\ ig'[i].query = NULL /\ UNCHANGED <<quIn, quPend, quCur>>
          /\ sock' = [sock EXCEPT ![ig[i].query] = "closed"]
      BY <2>0, <2>2 DEF IgDropQuery, Close, IgGoto, IgLocals, Typed, LocalsMatch, Answering, quQueues
    <3>2. ASSUME NEW d \in Clients PROVE OneOwner(d)
      <4>1. sock'[d] = IF d = ig[i].query THEN "closed" ELSE sock[d]
        BY <1>0, <3>1
      <4>2. Cardinality(InIgHand(ig', d)) = Cardinality(InIgHand(ig, d)) - (IF d = ig[i].query THEN 1 ELSE 0)
        <5>1. Cardinality(InIgHand(ig', d)) = Cardinality(InIgHand(ig, d))
                + (IF ig'[i].query = d THEN 1 ELSE 0) - (IF ig[i].query = d THEN 1 ELSE 0)
          BY <2>0, IgHandMoves
        <5>2. QED
          BY <1>0, <1>1, <3>1, <5>1
      <4>3. Occurrences(d, quIn') = Occurrences(d, quIn) /\ Occurrences(d, quPend') = Occurrences(d, quPend) /\ InQuHand(quCur', d) = InQuHand(quCur, d)
        BY <2>0, <3>1
      <4>4. Cardinality(InIgHand(ig', d)) \in Nat
        BY CountSome, PoolsAssumption DEF InIgHand
      <4>5. QED
        BY <1>1, <1>2, <4>1, <4>2, <4>3, <4>4
    <3>3. QED
      BY <1>0, <3>2, QueriesMove
  <2>3. CASE IgKeepQuery(i)
    <3>1. /\ quPend' = Append(quPend, ig[i].query) /\ ig[i].query \in Clients /\ ig'[i].query = NULL
          /\ UNCHANGED <<sock, quIn, quCur>>
      BY <2>0, <2>3 DEF IgKeepQuery, IgGoto, IgLocals, Typed, LocalsMatch, Answering
    <3>2. ASSUME NEW d \in Clients PROVE OneOwner(d)
      <4>1. sock'[d] = sock[d]
        BY <3>1
      <4>2. Occurrences(d, quPend') = Occurrences(d, quPend) + (IF d = ig[i].query THEN 1 ELSE 0)
        BY <1>0, <3>1, OccursAppend
      <4>3. Cardinality(InIgHand(ig', d)) = Cardinality(InIgHand(ig, d)) - (IF d = ig[i].query THEN 1 ELSE 0)
        <5>1. Cardinality(InIgHand(ig', d)) = Cardinality(InIgHand(ig, d))
                + (IF ig'[i].query = d THEN 1 ELSE 0) - (IF ig[i].query = d THEN 1 ELSE 0)
          BY <2>0, IgHandMoves
        <5>2. QED
          BY <1>0, <1>1, <3>1, <5>1, SMTT(30)
      <4>4. Occurrences(d, quIn') = Occurrences(d, quIn) /\ InQuHand(quCur', d) = InQuHand(quCur, d)
        BY <2>0, <3>1
      <4>5. QED
        BY <1>1, <1>2, <4>1, <4>2, <4>3, <4>4
    <3>3. QED
      BY <1>0, <3>2, QueriesMove
  <2>4. CASE IgRemoveReply(i)
    <3>1. /\ Head(igPend) \in Generators /\ UNCHANGED <<quIn, quPend>>
          /\ sock' = [sock EXCEPT ![Head(igPend)] = "closed"] /\ ig'[i].query = ig[i].query
      BY <1>0, <2>0, <2>4 DEF IgRemoveReply, Close, IgGoto, IgLocals, quQueues
    <3>2. QED
      BY <1>0, <2>0, <3>1, QueriesFrame
  <2>5. ASSUME ~(IgTakeQuery(i) \/ IgDropQuery(i) \/ IgKeepQuery(i) \/ IgRemoveReply(i))
        PROVE  QueriesOwned'
    <3>1. UNCHANGED <<sock, quIn, quPend>>
      BY <1>9, <2>5
         DEF Reply, IgConsumer, IgTake, IgLock, IgReceive, IgPending, IgDecide, IgReadHead,
             IgLockQueries, IgLockReplies, IgWalk, IgScanCrashes, IgSendTags, IgSendImage, IgAgain,
             IgCleaned, IgUnlock, sharedVars, quQueues
    <3>2. ig'[i].query = ig[i].query
      <4> USE <2>0 DEF IgGoto, IgLocals
      <4>1. CASE IgTake(i)
        BY <4>1 DEF IgTake
      <4>2. CASE IgLock(i)
        BY <4>2 DEF IgLock
      <4>3. CASE IgReceive(i)
        BY <4>3 DEF IgReceive
      <4>4. CASE IgPending(i)
        BY <4>4 DEF IgPending
      <4>5. CASE IgDecide(i)
        BY <4>5 DEF IgDecide
      <4>6. CASE IgReadHead(i)
        BY <4>6 DEF IgReadHead
      <4>7. CASE IgLockQueries(i)
        BY <4>7 DEF IgLockQueries
      <4>8. CASE IgLockReplies(i)
        BY <4>8 DEF IgLockReplies
      <4>9. CASE IgWalk(i)
        BY <4>9 DEF IgWalk
      <4>10. CASE IgSendTags(i)
        BY <4>10 DEF IgSendTags
      <4>11. CASE IgSendImage(i)
        BY <4>11 DEF IgSendImage
      <4>12. CASE IgAgain(i)
        BY <4>12 DEF IgAgain
      <4>13. CASE IgCleaned(i)
        BY <4>13 DEF IgCleaned
      <4>14. CASE IgUnlock(i)
        BY <4>14 DEF IgUnlock, Idle, Typed, LocalsMatch, Answering
      <4>15. CASE IgScanCrashes(i)
        BY <4>15 DEF IgScanCrashes, replyVars
      <4>16. QED
        BY <1>9, <2>5, <4>1, <4>2, <4>3, <4>4, <4>5, <4>6, <4>7, <4>8, <4>9, <4>10, <4>11, <4>12, <4>13, <4>14, <4>15 DEF Reply, IgConsumer
    <3>3. QED
      BY <2>0, <3>1, <3>2, QueriesFrame
  <2>6. QED
    BY <2>1, <2>2, <2>3, <2>4, <2>5
<1>10. QED
  BY <1>3, <1>4, <1>7, <1>8, <1>9, PeerFrame
     DEF Next, Query, QueryPoolStep, QuProducer, Reply, ReplyPoolStep, vars, sharedVars, quQueues,
         queryVars, replyVars


-----------------------------------------------------------------------------
(* The owner of each reply.                                                *)

Handles(locals, i, g) == locals[i].cur = g /\ locals[i].pc \in {"lock", "receive", "pend"}
InHand(locals, g) == {i \in IgThreads : Handles(locals, i, g)}
AtDoor(g, a) == IF a = g THEN 1 ELSE 0

RepliesOwned == \A g \in Generators : ReplyOwners(g) = (IF sock[g] = "open" THEN 1 ELSE 0)

\* What a consumer of the reply pool takes in hand in place of what it had.
LEMMA InHandMoves ==
  ASSUME NEW i \in IgThreads, \A j \in IgThreads \ {i} : ig'[j] = ig[j], NEW g
  PROVE  Cardinality(InHand(ig', g)) = Cardinality(InHand(ig, g))
           + (IF Handles(ig', i, g) THEN 1 ELSE 0) - (IF Handles(ig, i, g) THEN 1 ELSE 0)
<1>1. /\ IsFiniteSet(IgThreads) /\ InHand(ig, g) \in SUBSET IgThreads /\ InHand(ig', g) \in SUBSET IgThreads
      /\ \A j \in IgThreads \ {i} : j \in InHand(ig, g) <=> j \in InHand(ig', g)
      /\ i \in InHand(ig, g) <=> Handles(ig, i, g)
      /\ i \in InHand(ig', g) <=> Handles(ig', i, g)
  BY PoolsAssumption DEF InHand, Handles
<1> HIDE DEF InHand
<1>2. QED
  BY <1>1, CountStep

LEMMA ReplyCounts ==
  ASSUME Typed, NEW g
  PROVE  /\ ReplyOwners(g) = Occurrences(g, igIn) + Occurrences(g, igPend)
                               + AtDoor(g, accepted) + Cardinality(InHand(ig, g))
         /\ Occurrences(g, igIn) \in Nat /\ Occurrences(g, igPend) \in Nat
         /\ AtDoor(g, accepted) \in Nat /\ Cardinality(InHand(ig, g)) \in Nat
<1>1. igIn \in Seq(Generators) /\ igPend \in Seq(Generators)
  BY DEF Typed, TypeOK, ReplyTypeOK
<1>2. InHand(ig, g) \in SUBSET IgThreads
  BY DEF InHand
<1>3. Cardinality(InHand(ig, g)) \in Nat
  BY <1>2, CountSome, PoolsAssumption
<1>4. QED
  BY <1>1, <1>3, Occurs DEF ReplyOwners, InHand, Handles, AtDoor

LEMMA RepliesFrame ==
  ASSUME RepliesOwned, UNCHANGED <<igIn, igPend, accepted>>,
         \A i \in IgThreads, g \in Generators : Handles(ig', i, g) <=> Handles(ig, i, g),
         \A g \in Generators : sock'[g] = "open" <=> sock[g] = "open"
  PROVE  RepliesOwned'
<1>1. ASSUME NEW g \in Generators PROVE ReplyOwners(g)' = ReplyOwners(g)
  <2>1. InHand(ig', g) = InHand(ig, g)
    BY DEF InHand
  <2>2. QED
    BY <2>1 DEF ReplyOwners, InHand, Handles
<1>2. QED
  BY <1>1 DEF RepliesOwned

LEMMA RepliesMove ==
  ASSUME \A g \in Generators :
           Occurrences(g, igIn') + Occurrences(g, igPend')
             + AtDoor(g, accepted') + Cardinality(InHand(ig', g))
             = IF sock'[g] = "open" THEN 1 ELSE 0
  PROVE  RepliesOwned'
<1>1. \A g : ReplyOwners(g)' = Occurrences(g, igIn') + Occurrences(g, igPend')
                                 + AtDoor(g, accepted') + Cardinality(InHand(ig', g))
  BY DEF ReplyOwners, InHand, Handles, AtDoor
<1>2. QED
  BY <1>1 DEF RepliesOwned

LEMMA RepliesStep ==
  ASSUME Typed, RepliesOwned, [Next]_vars
  PROVE  RepliesOwned'
<1> DEFINE OneOwner(g) ==
      Occurrences(g, igIn') + Occurrences(g, igPend')
        + AtDoor(g, accepted') + Cardinality(InHand(ig', g))
        = IF sock'[g] = "open" THEN 1 ELSE 0
<1>0. /\ Clients \cap Generators = {} /\ NULL \notin Generators
      /\ sock \in [Peers -> {"none", "open", "closed"}]
      /\ Clients \subseteq Peers /\ Generators \subseteq Peers
      /\ igIn \in Seq(Generators) /\ igPend \in Seq(Generators)
  BY PoolsAssumption DEF Typed, TypeOK, SharedTypeOK, ReplyTypeOK, Peers
<1>1. \A g : /\ ReplyOwners(g) = Occurrences(g, igIn) + Occurrences(g, igPend)
                                   + AtDoor(g, accepted) + Cardinality(InHand(ig, g))
             /\ Occurrences(g, igIn) \in Nat /\ Occurrences(g, igPend) \in Nat
             /\ AtDoor(g, accepted) \in Nat /\ Cardinality(InHand(ig, g)) \in Nat
  BY ReplyCounts
<1>2. \A g \in Generators : ReplyOwners(g) = IF sock[g] = "open" THEN 1 ELSE 0
  BY DEF RepliesOwned
<1>3. CASE UNCHANGED <<sock, igIn, igPend, accepted, ig>>
  BY <1>3, RepliesFrame
<1>4. ASSUME NEW g \in Generators, IgAccept(g) PROVE RepliesOwned'
  <2>1. /\ sock[g] = "none" /\ accepted = NULL /\ accepted' = g
        /\ sock' = [sock EXCEPT ![g] = "open"] /\ UNCHANGED <<igIn, igPend, ig>>
    BY <1>4 DEF IgAccept, producerRest
  <2>2. ASSUME NEW d \in Generators PROVE OneOwner(d)
    <3>1. sock'[d] = IF d = g THEN "open" ELSE sock[d]
      BY <1>0, <2>1
    <3>2. AtDoor(d, accepted) = 0 /\ AtDoor(d, accepted') = IF d = g THEN 1 ELSE 0
      BY <1>0, <2>1 DEF AtDoor
    <3>3. InHand(ig', d) = InHand(ig, d) /\ igIn' = igIn /\ igPend' = igPend
      BY <2>1
    <3>4. QED
      BY <1>1, <1>2, <2>1, <3>1, <3>2, <3>3
  <2>3. QED
    BY <2>2, RepliesMove
<1>5. ASSUME IgRefuse PROVE RepliesOwned'
  <2>1. /\ accepted \in Generators /\ accepted' = NULL
        /\ sock' = [sock EXCEPT ![accepted] = "closed"] /\ UNCHANGED <<igIn, igPend, ig>>
    BY <1>5 DEF IgRefuse, Close, producerRest, Typed, TypeOK, ReplyTypeOK
  <2>2. ASSUME NEW d \in Generators PROVE OneOwner(d)
    <3>1. sock'[d] = IF d = accepted THEN "closed" ELSE sock[d]
      BY <1>0, <2>1
    <3>2. AtDoor(d, accepted') = 0 /\ AtDoor(d, accepted) = IF d = accepted THEN 1 ELSE 0
      BY <1>0, <2>1 DEF AtDoor
    <3>3. InHand(ig', d) = InHand(ig, d) /\ igIn' = igIn /\ igPend' = igPend
      BY <2>1
    <3>4. QED
      BY <1>1, <1>2, <3>1, <3>2, <3>3
  <2>3. QED
    BY <2>2, RepliesMove
<1>6. ASSUME IgEnqueue PROVE RepliesOwned'
  <2>1. /\ accepted \in Generators /\ igIn' = Append(igIn, accepted) /\ accepted' = NULL
        /\ UNCHANGED <<sock, igPend, ig>>
    BY <1>6 DEF IgEnqueue, sharedVars, producerRest, Typed, TypeOK, ReplyTypeOK
  <2>2. ASSUME NEW d \in Generators PROVE OneOwner(d)
    <3>1. Occurrences(d, igIn') = Occurrences(d, igIn) + (IF d = accepted THEN 1 ELSE 0)
      BY <1>0, <2>1, OccursAppend
    <3>2. AtDoor(d, accepted') = 0 /\ AtDoor(d, accepted) = IF d = accepted THEN 1 ELSE 0
      BY <1>0, <2>1 DEF AtDoor
    <3>3. InHand(ig', d) = InHand(ig, d) /\ sock'[d] = sock[d] /\ igPend' = igPend
      BY <2>1
    <3>4. QED
      BY <1>1, <1>2, <3>1, <3>2, <3>3
  <2>3. QED
    BY <2>2, RepliesMove
<1>7. CASE Query(QueryPoolStep)
  <2>1. \A g \in Generators : sock'[g] = sock[g]
    BY <1>0, <1>7 DEF Query, QueryPoolStep, QuProducer, QuAccept, QuConsumer, QuTake, QuReceive,
       QuReceiveBroken, QuForward, QuForwardFails, QuAnswered, QuPending, sharedVars
  <2>2. QED
    BY <1>7, <2>1, QueryFrame, RepliesFrame DEF replyVars, igQueues
<1>8. ASSUME NEW i \in IgThreads, Reply(IgConsumer(i)) PROVE RepliesOwned'
  <2>0. /\ ig[i] \in IgLocals /\ ig \in [IgThreads -> IgLocals] /\ UNCHANGED accepted
        /\ \A j \in IgThreads \ {i} : ig'[j] = ig[j]
    <3>1. UNCHANGED accepted
      BY <1>8 DEF Reply, IgConsumer, IgTake, IgLock, IgReceive, IgPending, IgDecide, IgReadHead,
         IgTakeQuery, IgLockQueries, IgLockReplies, IgWalk, IgScanCrashes, IgSendTags, IgSendImage,
         IgDropQuery, IgKeepQuery, IgAgain, IgRemoveReply, IgCleaned, IgUnlock, igQueues, replyVars
    <3>2. QED
      BY <1>8, <3>1, OthersKeep DEF Reply, Typed, TypeOK, ReplyTypeOK
  <2>1. CASE IgTake(i)
    <3>1. /\ igIn # <<>> /\ igIn' = Tail(igIn) /\ ig[i].pc = "take" /\ ig'[i].pc = "lock"
          /\ ig'[i].cur = Head(igIn) /\ UNCHANGED <<sock, igPend>>
      BY <2>0, <2>1 DEF IgTake, IgGoto, IgLocals, sharedVars
    <3>2. ASSUME NEW d \in Generators PROVE OneOwner(d)
      <4>1. Occurrences(d, igIn') = Occurrences(d, igIn) - (IF d = Head(igIn) THEN 1 ELSE 0)
        BY <1>0, <3>1, OccursTail
      <4>2. Cardinality(InHand(ig', d)) = Cardinality(InHand(ig, d)) + (IF d = Head(igIn) THEN 1 ELSE 0)
        <5>1. Cardinality(InHand(ig', d)) = Cardinality(InHand(ig, d))
                + (IF Handles(ig', i, d) THEN 1 ELSE 0) - (IF Handles(ig, i, d) THEN 1 ELSE 0)
          BY <2>0, InHandMoves
        <5>2. ~Handles(ig, i, d) /\ (Handles(ig', i, d) <=> d = Head(igIn))
          BY <3>1 DEF Handles
        <5>3. QED
          BY <1>1, <5>1, <5>2
      <4>3. sock'[d] = sock[d] /\ igPend' = igPend /\ accepted' = accepted
        BY <2>0, <3>1
      <4>4. QED
        BY <1>1, <1>2, <4>1, <4>2, <4>3
    <3>3. QED
      BY <3>2, RepliesMove
  <2>2. CASE IgPending(i)
    <3>1. /\ igPend' = Append(igPend, ig[i].cur) /\ ig[i].pc = "pend" /\ ig'[i].pc = "decide"
          /\ ig[i].cur \in Generators /\ UNCHANGED <<sock, igIn>>
      BY <2>0, <2>2 DEF IgPending, IgGoto, IgLocals, sharedVars, Typed, LocalsMatch
    <3>2. ASSUME NEW d \in Generators PROVE OneOwner(d)
      <4>1. Occurrences(d, igPend') = Occurrences(d, igPend) + (IF d = ig[i].cur THEN 1 ELSE 0)
        BY <1>0, <3>1, OccursAppend
      <4>2. Cardinality(InHand(ig', d)) = Cardinality(InHand(ig, d)) - (IF d = ig[i].cur THEN 1 ELSE 0)
        <5>1. Cardinality(InHand(ig', d)) = Cardinality(InHand(ig, d))
                + (IF Handles(ig', i, d) THEN 1 ELSE 0) - (IF Handles(ig, i, d) THEN 1 ELSE 0)
          BY <2>0, InHandMoves
        <5>2. ~Handles(ig', i, d) /\ (Handles(ig, i, d) <=> d = ig[i].cur)
          BY <3>1 DEF Handles
        <5>3. QED
          BY <1>1, <5>1, <5>2
      <4>3. sock'[d] = sock[d] /\ igIn' = igIn /\ accepted' = accepted
        BY <2>0, <3>1
      <4>4. QED
        BY <1>1, <1>2, <4>1, <4>2, <4>3
    <3>3. QED
      BY <3>2, RepliesMove
  <2>3. CASE IgRemoveReply(i)
    <3>1. /\ igPend # <<>> /\ igPend' = Tail(igPend) /\ ig[i].pc = "clean" /\ ig'[i].pc = "clean"
          /\ Head(igPend) \in Generators /\ sock' = [sock EXCEPT ![Head(igPend)] = "closed"] /\ UNCHANGED igIn
      BY <1>0, <2>0, <2>3 DEF IgRemoveReply, Close, IgGoto, IgLocals
    <3>2. ASSUME NEW d \in Generators PROVE OneOwner(d)
      <4>1. Occurrences(d, igPend') = Occurrences(d, igPend) - (IF d = Head(igPend) THEN 1 ELSE 0)
        BY <1>0, <3>1, OccursTail
      <4>2. Occurrences(d, igPend') \in Nat
        <5>1. igPend' \in Seq(Generators)
          BY <1>0, <3>1
        <5>2. QED
          BY <5>1, Occurs
      <4>3. InHand(ig', d) = InHand(ig, d)
        BY <2>0, <3>1 DEF InHand, Handles
      <4>4. sock'[d] = (IF d = Head(igPend) THEN "closed" ELSE sock[d]) /\ igIn' = igIn /\ accepted' = accepted
        BY <1>0, <2>0, <3>1
      <4>5. QED
        BY <1>1, <1>2, <4>1, <4>2, <4>3, <4>4
    <3>3. QED
      BY <3>2, RepliesMove
  <2>4. ASSUME ~(IgTake(i) \/ IgPending(i) \/ IgRemoveReply(i)) PROVE RepliesOwned'
    <3>1. UNCHANGED <<igIn, igPend>>
      BY <1>8, <2>4
         DEF Reply, IgConsumer, IgLock, IgReceive, IgDecide, IgReadHead, IgTakeQuery, IgLockQueries,
             IgLockReplies, IgWalk, IgScanCrashes, IgSendTags, IgSendImage, IgDropQuery, IgKeepQuery,
             IgAgain, IgCleaned, IgUnlock, igQueues, replyVars
    <3>2. \A g \in Generators : sock'[g] = sock[g]
      <4>1. CASE IgDropQuery(i)
        <5>1. ig[i].query \in Clients
          BY <2>0, <4>1 DEF IgDropQuery, IgGoto, IgLocals, Typed, LocalsMatch, Answering
        <5>2. QED
          BY <1>0, <4>1, <5>1 DEF IgDropQuery, Close
      <4>2. ASSUME ~IgDropQuery(i) PROVE UNCHANGED sock
        BY <1>8, <2>4, <4>2
           DEF Reply, IgConsumer, IgLock, IgReceive, IgDecide, IgReadHead, IgTakeQuery, IgLockQueries,
               IgLockReplies, IgWalk, IgScanCrashes, IgSendTags, IgSendImage, IgKeepQuery, IgAgain,
               IgCleaned, IgUnlock, sharedVars
      <4>3. QED
        BY <4>1, <4>2
    <3>3. \A g \in Generators : Handles(ig', i, g) <=> Handles(ig, i, g)
      <4> USE <1>0, <2>0 DEF IgGoto, IgLocals, Handles
      <4>1. CASE IgLock(i)
        BY <4>1 DEF IgLock
      <4>2. CASE IgReceive(i)
        BY <4>2 DEF IgReceive
      <4>3. CASE IgDecide(i)
        BY <4>3 DEF IgDecide
      <4>4. CASE IgReadHead(i)
        BY <4>4 DEF IgReadHead
      <4>5. CASE IgTakeQuery(i)
        BY <4>5 DEF IgTakeQuery
      <4>6. CASE IgLockQueries(i)
        BY <4>6 DEF IgLockQueries
      <4>7. CASE IgLockReplies(i)
        BY <4>7 DEF IgLockReplies
      <4>8. CASE IgWalk(i)
        BY <4>8 DEF IgWalk
      <4>9. CASE IgSendTags(i)
        BY <4>9 DEF IgSendTags
      <4>10. CASE IgSendImage(i)
        BY <4>10 DEF IgSendImage
      <4>11. CASE IgDropQuery(i)
        BY <4>11 DEF IgDropQuery
      <4>12. CASE IgKeepQuery(i)
        BY <4>12 DEF IgKeepQuery
      <4>13. CASE IgAgain(i)
        BY <4>13 DEF IgAgain
      <4>14. CASE IgCleaned(i)
        BY <4>14 DEF IgCleaned
      <4>15. CASE IgUnlock(i)
        BY <4>15 DEF IgUnlock, Idle
      <4>16. CASE IgScanCrashes(i)
        BY <4>16 DEF IgScanCrashes, replyVars
      <4>17. QED
        BY <1>8, <2>4, <4>1, <4>2, <4>3, <4>4, <4>5, <4>6, <4>7, <4>8, <4>9, <4>10, <4>11, <4>12, <4>13, <4>14, <4>15, <4>16 DEF Reply, IgConsumer
    <3>4. \A j \in IgThreads, g \in Generators : Handles(ig', j, g) <=> Handles(ig, j, g)
      BY <2>0, <3>3 DEF Handles
    <3>5. QED
      BY <2>0, <3>1, <3>2, <3>4, RepliesFrame
  <2>5. QED
    BY <2>1, <2>2, <2>3, <2>4
<1>9. CASE IgAdmit
  BY <1>3, <1>9 DEF IgAdmit, sharedVars, producerRest
<1>10. QED
  BY <1>3, <1>4, <1>5, <1>6, <1>7, <1>8, <1>9, PeerFrame
     DEF Next, Reply, ReplyPoolStep, IgProducer, vars, sharedVars, replyVars, igQueues

-----------------------------------------------------------------------------
(* How many replies are open.                                              *)

LEMMA ToSetSize ==
  ASSUME NEW S, NEW s \in Seq(S)
  PROVE  /\ IsFiniteSet(ToSet(s))
         /\ Cardinality(ToSet(s)) \in Nat /\ Cardinality(ToSet(s)) <= Len(s)
<1>1. /\ Len(s) \in Nat /\ DOMAIN s = 1..Len(s)
      /\ IsFiniteSet(1..Len(s)) /\ Cardinality(1..Len(s)) = Len(s)
  <2> DEFINE n == Len(s)
  <2>1. n \in Nat /\ DOMAIN s = 1..n
    OBVIOUS
  <2> HIDE DEF n
  <2>2. IsFiniteSet(1..n) /\ Cardinality(1..n) = IF 1 > n THEN 0 ELSE n - 1 + 1
    BY <2>1, FS_Interval
  <2>3. IsFiniteSet(1..n) /\ Cardinality(1..n) = n
    BY <2>1, <2>2
  <2>4. QED
    BY <2>1, <2>3 DEF n
<1>2. [k \in 1..Len(s) |-> s[k]] \in Surjection(1..Len(s), ToSet(s))
  BY <1>1 DEF Surjection, ToSet
<1>3. IsFiniteSet(ToSet(s)) /\ Cardinality(ToSet(s)) <= Len(s)
  BY <1>1, <1>2, FS_Surjection
<1>4. QED
  BY <1>3, FS_CardinalityType

\* What the consumers of the reply pool have in hand, each one reply.
LEMMA CursSize ==
  /\ IsFiniteSet({ig[i].cur : i \in IgThreads})
  /\ Cardinality({ig[i].cur : i \in IgThreads}) \in Nat /\ Cardinality(IgThreads) \in Nat
  /\ Cardinality({ig[i].cur : i \in IgThreads}) <= Cardinality(IgThreads)
<1>1. [i \in IgThreads |-> ig[i].cur] \in Surjection(IgThreads, {ig[i].cur : i \in IgThreads})
  BY DEF Surjection
<1>2. QED
  BY <1>1, FS_Surjection, FS_CardinalityType, PoolsAssumption

\* Every open reply is at the door, in a queue or in hand.
LEMMA OpenPlaces ==
  ASSUME Typed, RepliesOwned
  PROVE  OpenReplies \subseteq
           ToSet(igIn) \cup ToSet(igPend) \cup {ig[i].cur : i \in IgThreads} \cup {accepted}
<1>1. SUFFICES ASSUME NEW g \in Generators, sock[g] = "open",
                      g \notin ToSet(igIn) \cup ToSet(igPend), g # accepted
               PROVE  \E i \in IgThreads : ig[i].cur = g
  BY DEF OpenReplies
<1>2. /\ igIn \in Seq(Generators) /\ igPend \in Seq(Generators)
  BY DEF Typed, TypeOK, ReplyTypeOK
<1>3. Occurrences(g, igIn) = 0 /\ Occurrences(g, igPend) = 0 /\ AtDoor(g, accepted) = 0
  BY <1>1, <1>2, Occurs DEF AtDoor
<1>4. ReplyOwners(g) = 1
  BY <1>1 DEF RepliesOwned
<1>5. Cardinality(InHand(ig, g)) = 1
  BY <1>3, <1>4, ReplyCounts
<1>6. InHand(ig, g) # {}
  BY <1>5, FS_EmptySet
<1>7. QED
  BY <1>6 DEF InHand, Handles

\* When the producer finds both sizes within the limit, so many are open with
\* the one at the door.
LEMMA OpenWhenAdmitted ==
  ASSUME Typed, RepliesOwned, ~TooMany
  PROVE  Cardinality(OpenReplies) <= 2 * DosLimit + 1 + Cardinality(IgThreads)
<1> DEFINE Curs == {ig[i].cur : i \in IgThreads}
           Queued == ToSet(igIn) \cup ToSet(igPend)
           n == Cardinality(OpenReplies)
           m == Cardinality(IgThreads)
<1>1. /\ Len(igIn) \in Nat /\ Len(igPend) \in Nat /\ DosLimit \in Nat
      /\ Len(igIn) <= DosLimit /\ Len(igPend) <= DosLimit
      /\ igIn \in Seq(Generators) /\ igPend \in Seq(Generators)
  BY PoolsAssumption DEF TooMany, Typed, TypeOK, ReplyTypeOK
<1>2. /\ IsFiniteSet(ToSet(igIn)) /\ Cardinality(ToSet(igIn)) \in Nat
      /\ Cardinality(ToSet(igIn)) <= DosLimit
      /\ IsFiniteSet(ToSet(igPend)) /\ Cardinality(ToSet(igPend)) \in Nat
      /\ Cardinality(ToSet(igPend)) <= DosLimit
  BY <1>1, ToSetSize
<1>3. IsFiniteSet(Curs) /\ Cardinality(Curs) \in Nat /\ m \in Nat /\ Cardinality(Curs) <= m
  BY CursSize
<1>4. OpenReplies \subseteq Queued \cup Curs \cup {accepted}
  BY OpenPlaces
<1> HIDE DEF Curs, n, m
<1>5. /\ IsFiniteSet(Queued) /\ Cardinality(Queued) \in Nat
      /\ Cardinality(Queued) <= 2 * DosLimit
  BY <1>1, <1>2, CountUnion
<1> HIDE DEF Queued
<1>6. /\ IsFiniteSet(Queued \cup Curs) /\ Cardinality(Queued \cup Curs) \in Nat
      /\ Cardinality(Queued \cup Curs) <= 2 * DosLimit + m
  BY <1>1, <1>3, <1>5, CountUnion
<1> DEFINE Held == Queued \cup Curs
           All == Held \cup {accepted}
<1>7. IsFiniteSet(Held) /\ Cardinality(Held) \in Nat /\ Cardinality(Held) <= 2 * DosLimit + m
  BY <1>6
<1>8. OpenReplies \in SUBSET All
  BY <1>4
<1> HIDE DEF Held
<1>9. IsFiniteSet(All) /\ Cardinality(All) = Cardinality(Held) + (IF accepted \in Held THEN 0 ELSE 1)
  BY <1>7, CountAdd
<1> HIDE DEF All
<1>10. Cardinality(All) \in Nat /\ Cardinality(All) <= 2 * DosLimit + m + 1
  BY <1>1, <1>3, <1>7, <1>9
<1>11. n \in Nat /\ n <= Cardinality(All)
  BY <1>8, <1>9, FS_Subset, FS_CardinalityType DEF n
<1>12. n <= 2 * DosLimit + 1 + m
  BY <1>1, <1>3, <1>10, <1>11
<1>13. QED
  BY <1>12 DEF n, m

LEMMA DoorStep ==
  ASSUME Typed, RepliesOwned, DoorBounded, [Next]_vars
  PROVE  DoorBounded'
<1> DEFINE n == Cardinality(OpenReplies)
           bound == 2 * DosLimit + 2 + Cardinality(IgThreads)
<1>0. /\ IsFiniteSet(Generators) /\ Clients \cap Generators = {} /\ NULL \notin Generators
      /\ sock \in [Peers -> {"none", "open", "closed"}]
      /\ Clients \subseteq Peers /\ Generators \subseteq Peers
      /\ accepted = NULL \/ accepted \in Generators
  BY PoolsAssumption, FS_Subset DEF Typed, TypeOK, SharedTypeOK, ReplyTypeOK, Peers
<1>1. IsFiniteSet(OpenReplies) /\ n \in Nat /\ bound \in Nat
  <2>1. IsFiniteSet(OpenReplies) /\ n \in Nat /\ Cardinality(IgThreads) \in Nat /\ DosLimit \in Nat
    BY <1>0, PoolsAssumption, FS_Subset, FS_CardinalityType DEF OpenReplies
  <2>2. QED
    BY <2>1
<1>2. /\ admitted => accepted # NULL
      /\ n + (IF accepted # NULL /\ ~admitted THEN 0 ELSE 1) <= bound
  BY DEF DoorBounded
<1>3. SUFFICES /\ admitted' => accepted' # NULL
               /\ n' + (IF accepted' # NULL /\ ~admitted' THEN 0 ELSE 1) <= bound
  BY DEF DoorBounded
<1>4. ASSUME NEW g \in Generators, IgAccept(g)
      PROVE  /\ admitted' => accepted' # NULL
             /\ n' + (IF accepted' # NULL /\ ~admitted' THEN 0 ELSE 1) <= bound
  <2>1. /\ accepted = NULL /\ ~admitted /\ accepted' = g /\ UNCHANGED admitted
        /\ OpenReplies' = OpenReplies \cup {g}
    BY <1>0, <1>2, <1>4 DEF IgAccept, OpenReplies
  <2>2. n' = n + (IF g \in OpenReplies THEN 0 ELSE 1)
    BY <1>1, <2>1, CountAdd
  <2>3. n + 1 <= bound
    BY <1>2, <2>1
  <2> HIDE DEF n, bound
  <2>4. n' <= bound /\ n' \in Nat
    BY <1>1, <2>2, <2>3
  <2>5. accepted' # NULL /\ ~admitted'
    BY <1>0, <2>1
  <2>6. n' + (IF accepted' # NULL /\ ~admitted' THEN 0 ELSE 1) <= bound
    BY <2>4, <2>5
  <2>7. QED
    BY <2>5, <2>6
<1>5. CASE IgAdmit
  <2>1. accepted # NULL /\ UNCHANGED <<accepted, sock>> /\ ~TooMany
    BY <1>5 DEF IgAdmit, sharedVars
  <2>2. OpenReplies' = OpenReplies
    BY <2>1 DEF OpenReplies
  <2>3. n' = n
    BY <2>2
  <2>4. n + 1 <= bound
    <3> DEFINE m == Cardinality(IgThreads)
    <3>1. n <= 2 * DosLimit + 1 + m /\ m \in Nat /\ DosLimit \in Nat
      BY <2>1, OpenWhenAdmitted, PoolsAssumption, FS_CardinalityType
    <3> HIDE DEF n, m
    <3>2. n + 1 <= 2 * DosLimit + 2 + m
      BY <1>1, <3>1
    <3>3. QED
      BY <3>2 DEF m
  <2> HIDE DEF n, bound
  <2>5. n' + (IF accepted' # NULL /\ ~admitted' THEN 0 ELSE 1) <= bound
    BY <1>1, <2>3, <2>4
  <2>6. QED
    BY <2>1, <2>5
<1>6. CASE IgRefuse
  <2>1. /\ accepted \in Generators /\ ~admitted /\ accepted' = NULL /\ UNCHANGED admitted
        /\ sock' = [sock EXCEPT ![accepted] = "closed"]
    BY <1>0, <1>6 DEF IgRefuse, Close
  <2>2. sock[accepted] = "open"
    <3>1. AtDoor(accepted, accepted) = 1
      BY DEF AtDoor
    <3>2. ReplyOwners(accepted) # 0
      <4>1. \A a, b, c \in Nat : a + b + 1 + c # 0
        OBVIOUS
      <4>2. QED
        BY <3>1, <4>1, ReplyCounts
    <3>3. QED
      BY <2>1, <3>2 DEF RepliesOwned
  <2>3. OpenReplies' = OpenReplies \ {accepted} /\ accepted \in OpenReplies
    BY <1>0, <2>1, <2>2 DEF OpenReplies
  <2>4. n' = n - 1
    BY <1>1, <2>3, CountAdd
  <2> HIDE DEF n, bound
  <2>5. n <= bound
    BY <1>0, <1>1, <1>2, <2>1
  <2>6. n' + 1 <= bound
    BY <1>1, <2>4, <2>5
  <2>7. QED
    BY <2>1, <2>6
<1>7. CASE IgEnqueue
  <2>1. admitted /\ accepted' = NULL /\ ~admitted' /\ UNCHANGED sock
    BY <1>7 DEF IgEnqueue, sharedVars
  <2>2. n' = n
    BY <2>1 DEF OpenReplies
  <2>3. QED
    BY <1>2, <2>1, <2>2
<1>8. ASSUME UNCHANGED <<accepted, admitted>>,
             \A g \in Generators : sock'[g] = "open" => sock[g] = "open"
      PROVE  /\ admitted' => accepted' # NULL
             /\ n' + (IF accepted' # NULL /\ ~admitted' THEN 0 ELSE 1) <= bound
  <2>1. OpenReplies' \in SUBSET OpenReplies
    BY <1>8 DEF OpenReplies
  <2>2. n' <= n /\ n' \in Nat
    BY <1>1, <2>1, FS_Subset, FS_CardinalityType
  <2> HIDE DEF n, bound
  <2>3. CASE accepted # NULL /\ ~admitted
    <3>1. n' <= bound
      BY <1>1, <1>2, <2>2, <2>3
    <3>2. accepted' # NULL /\ ~admitted'
      BY <1>8, <2>3
    <3>3. QED
      BY <2>2, <3>1, <3>2
  <2>4. CASE ~(accepted # NULL /\ ~admitted)
    <3>1. n + 1 <= bound
      BY <1>2, <2>4
    <3>2. \A a, b, c \in Nat : a <= b /\ b + 1 <= c => a + 1 <= c
      OBVIOUS
    <3>3. n' + 1 <= bound
      BY <1>1, <2>2, <3>1, <3>2, Zenon
    <3>4. ~(accepted' # NULL /\ ~admitted') /\ (admitted' => accepted' # NULL)
      BY <1>2, <1>8, <2>4
    <3>5. QED
      BY <2>2, <3>3, <3>4
  <2>5. QED
    BY <2>3, <2>4
<1>9. CASE ~Reply(IgProducer)
  <2>1. CASE Query(QueryPoolStep)
    <3>1. \A g \in Generators : sock'[g] = sock[g]
      BY <1>0, <2>1 DEF Query, QueryPoolStep, QuProducer, QuAccept, QuConsumer, QuTake, QuReceive,
         QuReceiveBroken, QuForward, QuForwardFails, QuAnswered, QuPending, sharedVars
    <3>2. UNCHANGED <<accepted, admitted>>
      BY <2>1, QueryFrame DEF replyVars, igQueues
    <3>3. QED
      BY <1>8, <3>1, <3>2
  <2>2. ASSUME NEW i \in IgThreads, Reply(IgConsumer(i))
        PROVE  /\ UNCHANGED <<accepted, admitted>>
               /\ \A g \in Generators : sock'[g] = "open" => sock[g] = "open"
    <3>1. CASE IgDropQuery(i) \/ IgRemoveReply(i)
      <4>1. PICK x : sock' = [sock EXCEPT ![x] = "closed"]
        BY <3>1 DEF IgDropQuery, IgRemoveReply, Close
      <4>2. UNCHANGED <<accepted, admitted>>
        BY <3>1 DEF IgDropQuery, IgRemoveReply, igQueues
      <4>3. QED
        BY <1>0, <4>1, <4>2
    <3>2. ASSUME ~(IgDropQuery(i) \/ IgRemoveReply(i)) PROVE UNCHANGED <<sock, accepted, admitted>>
      BY <2>2, <3>2
         DEF Reply, IgConsumer, IgTake, IgLock, IgReceive, IgPending, IgDecide, IgReadHead, IgTakeQuery,
             IgLockQueries, IgLockReplies, IgWalk, IgScanCrashes, IgSendTags, IgSendImage, IgKeepQuery,
             IgAgain, IgCleaned, IgUnlock, sharedVars, igQueues, replyVars
    <3>3. QED
      BY <3>1, <3>2
  <2>3. CASE UNCHANGED <<sock, accepted, admitted>>
    BY <1>8, <2>3
  <2>4. QED
    BY <1>8, <1>9, <2>1, <2>2, <2>3, PeerFrame
       DEF Next, Reply, ReplyPoolStep, vars, sharedVars, replyVars, igQueues
<1>10. QED
  BY <1>4, <1>5, <1>6, <1>7, <1>9 DEF Reply, IgProducer

-----------------------------------------------------------------------------
(* The inductive invariant.                                                *)

LEMMA Layers ==
  IndInv <=> /\ Typed /\ PoolMutexHeld /\ LocksHeld /\ Round /\ NoOrphanFiles /\ FailureIsReset
             /\ QueriesOwned /\ RepliesOwned /\ DoorBounded
BY DEF IndInv, Typed, Round, EveryConnectionOwned, QueriesOwned, RepliesOwned

LEMMA InitHolds == Init => IndInv
<1> SUFFICES ASSUME Init PROVE IndInv
  OBVIOUS
<1>1. Typed
  BY TypedInit
<1>2. /\ \A i \in IgThreads : ig[i] = Idle
      /\ \A t \in QuThreads : quCur[t] = NULL
      /\ \A x \in Peers : sock[x] = "none"
      /\ quIn = <<>> /\ quPend = <<>> /\ igIn = <<>> /\ igPend = <<>> /\ accepted = NULL
      /\ files = {}
  BY DEF Init, SharedInit, QueryInit, ReplyInit
<1>3. NULL \notin Peers /\ Clients \subseteq Peers /\ Generators \subseteq Peers /\ Cardinality(IgThreads) \in Nat /\ DosLimit \in Nat
  BY PoolsAssumption, FS_CardinalityType DEF Peers
<1>10. LocksHeld
  BY <1>2, PoolsAssumption DEF Init, SharedInit, ReplyInit, LocksHeld, Idle
<1>4. PoolMutexHeld /\ Round /\ NoOrphanFiles /\ FailureIsReset
  BY <1>2 DEF PoolMutexHeld, Round, RepliesStay, QueriesStay, FileIsPending, NoOrphanFiles,
     FailureIsReset, Idle, InRound, Answering
<1>5. \A x : Occurrences(x, <<>>) = 0
  <2>1. ASSUME NEW x PROVE Occurrences(x, <<>>) = 0
    <3>1. {k \in DOMAIN <<>> : <<>>[k] = x} = {}
      OBVIOUS
    <3>2. QED
      BY <3>1, FS_EmptySet DEF Occurrences
  <2>2. QED
    BY <2>1
<1>6. QueriesOwned
  <2>1. SUFFICES ASSUME NEW c \in Clients PROVE QueryOwners(c) = 0 /\ sock[c] # "open"
    BY DEF QueriesOwned
  <2>2. InQuHand(quCur, c) = {} /\ InIgHand(ig, c) = {}
    BY <1>2, <1>3 DEF InQuHand, InIgHand, Idle
  <2>3. QED
    <3>1. Cardinality(InQuHand(quCur, c)) = 0 /\ Cardinality(InIgHand(ig, c)) = 0
      BY <2>2, FS_EmptySet
    <3>2. Occurrences(c, quIn) = 0 /\ Occurrences(c, quPend) = 0
      BY <1>2, <1>5
    <3>3. sock[c] = "none"
      BY <1>2, <1>3
    <3>4. QED
      BY <1>1, <3>1, <3>2, <3>3, QueryCounts
<1>7. RepliesOwned
  <2>1. SUFFICES ASSUME NEW g \in Generators PROVE ReplyOwners(g) = 0 /\ sock[g] # "open"
    BY DEF RepliesOwned
  <2>2. InHand(ig, g) = {} /\ AtDoor(g, accepted) = 0
    BY <1>2, <1>3 DEF InHand, Handles, AtDoor, Idle
  <2>3. QED
    <3>1. Cardinality(InHand(ig, g)) = 0
      BY <2>2, FS_EmptySet
    <3>2. Occurrences(g, igIn) = 0 /\ Occurrences(g, igPend) = 0
      BY <1>2, <1>5
    <3>3. sock[g] = "none"
      BY <1>2, <1>3
    <3>4. ReplyOwners(g) = Occurrences(g, igIn) + Occurrences(g, igPend)
                             + AtDoor(g, accepted) + Cardinality(InHand(ig, g))
      BY <1>1, ReplyCounts
    <3>5. AtDoor(g, accepted) = 0
      BY <2>2
    <3>6. QED
      BY <3>1, <3>2, <3>3, <3>4, <3>5
<1>8. DoorBounded
  <2>1. OpenReplies = {}
    BY <1>2, <1>3 DEF OpenReplies
  <2>2. Cardinality(OpenReplies) = 0
    BY <2>1, FS_EmptySet
  <2> DEFINE n == Cardinality(OpenReplies)
             m == Cardinality(IgThreads)
  <2>3. n = 0 /\ m \in Nat /\ DosLimit \in Nat
    BY <1>3, <2>2
  <2>4. ~admitted
    BY DEF Init, ReplyInit
  <2> HIDE DEF n, m
  <2>5. n + (IF accepted # NULL /\ ~admitted THEN 0 ELSE 1) <= 2 * DosLimit + 2 + m
    BY <2>3
  <2>6. QED
    BY <2>4, <2>5 DEF DoorBounded, n, m
<1>9. QED
  BY <1>1, <1>4, <1>6, <1>7, <1>8, <1>10, Layers

LEMMA StepKeeps == ASSUME IndInv, [Next]_vars PROVE IndInv'
<1>1. /\ Typed /\ PoolMutexHeld /\ LocksHeld /\ Round /\ NoOrphanFiles /\ FailureIsReset
      /\ QueriesOwned /\ RepliesOwned /\ DoorBounded
  BY Layers
<1>2. Typed' /\ PoolMutexHeld' /\ LocksHeld' /\ Round'
  BY <1>1, TypedStep, MutexStep, LocksStep, RoundStep
<1>3. NoOrphanFiles' /\ FailureIsReset'
  BY <1>1, FilesStep, FailureStep
<1>4. QueriesOwned' /\ RepliesOwned' /\ DoorBounded'
  BY <1>1, QueriesStep, RepliesStep, DoorStep
<1>5. QED
  BY <1>2, <1>3, <1>4 DEF IndInv, Typed, Round, EveryConnectionOwned, QueriesOwned, RepliesOwned

\* The inductive invariant holds in every state the program reaches.
THEOREM Invariance == Spec => []IndInv
<1>1. Init => IndInv
  BY InitHolds
<1>2. IndInv /\ [Next]_vars => IndInv'
  BY StepKeeps
<1>3. QED
  BY <1>1, <1>2, PTL DEF Spec

-----------------------------------------------------------------------------
(* The properties.                                                         *)

\* Every variable of the two pools has its type in every state.
THEOREM TypeCorrect == Spec => []TypeOK
<1>1. IndInv => TypeOK
  BY DEF IndInv
<1>2. QED
  BY <1>1, Invariance, PTL

\* A connection that is open has one owner and a closed one has none, for the
\* queries and for the replies: what is deleted is not used, and deleted once.
THEOREM OwnersCorrect == Spec => []EveryConnectionOwned
<1>1. IndInv => EveryConnectionOwned
  BY DEF IndInv
<1>2. QED
  BY <1>1, Invariance, PTL

\* Of the consumers of the reply pool at most one is past pthread_mutex_lock of
\* the pool mutex, whatever the bytes of that mutex were at the start.
THEOREM PoolMutexExcludes ==
  Spec => [](\A i, j \in IgThreads :
               ig[i].pc \notin {"take", "lock"} /\ ig[j].pc \notin {"take", "lock"} => i = j)
<1>1. IndInv => \A i, j \in IgThreads :
        ig[i].pc \notin {"take", "lock"} /\ ig[j].pc \notin {"take", "lock"} => i = j
  BY DEF IndInv, PoolMutexHeld
<1>2. QED
  BY <1>1, Invariance, PTL

\* No thread waits for a mutex it holds, or for a thread that itself waits for
\* one: the pools cannot lock each other up, whatever the order of the locks.
THEOREM LocksNeverCircle == Spec => []NoCircularWait
<1>1. ASSUME IndInv, NEW t \in QuThreads \cup IgThreads, NEW u \in QuThreads \cup IgThreads,
             NEW v \in QuThreads \cup IgThreads, WaitsFor(t, u)
      PROVE  ~WaitsFor(u, v)
  <2>1. /\ quPendLock \in IgThreads \cup {NULL} /\ igPendLock \in IgThreads \cup {NULL}
        /\ poolMutex \in IgThreads \cup {NULL, GarbageHolder}
        /\ u # NULL /\ v # NULL /\ QuThreads \cap IgThreads = {} /\ GarbageHolder \notin IgThreads
    BY <1>1, PoolsAssumption DEF IndInv, TypeOK, SharedTypeOK, ReplyTypeOK
  <2>2. CASE quPendLock = u \/ igPendLock = u
    <3>1. u \in IgThreads /\ ig[u].pc \in {"lock_ig", "walk"} /\ quPendLock = u
      BY <1>1, <2>1, <2>2 DEF IndInv, LocksHeld
    <3>2. igPendLock = v => v \in IgThreads /\ ig[v].pc = "walk" /\ quPendLock = v
      BY <1>1, <2>1 DEF IndInv, LocksHeld
    <3>3. QED
      BY <1>1, <2>1, <3>1, <3>2 DEF WaitsFor
  <2>3. CASE t \in IgThreads /\ ig[t].pc = "lock" /\ poolMutex = u
    <3>1. u \in IgThreads => ig[u].pc \notin {"take", "lock"}
      BY <1>1, <2>3 DEF IndInv, LocksHeld
    <3>2. v \in {quPendLock, igPendLock} => v = u /\ v \in IgThreads
      BY <1>1, <2>1, <2>3 DEF IndInv, LocksHeld, PoolMutexHeld
    <3>3. QED
      BY <1>1, <2>1, <3>1, <3>2 DEF IndInv, LocksHeld, WaitsFor
  <2>4. QED
    BY <1>1, <2>2, <2>3 DEF WaitsFor
<1>2. IndInv => NoCircularWait
  BY <1>1 DEF NoCircularWait
<1>3. QED
  BY <1>2, Invariance, PTL

\* The reply getHead() named is the head of the pending queue until the walk
\* that starts from it is over.
THEOREM HeadCorrect == Spec => []HeadStaysQueued
<1>1. IndInv => HeadStaysQueued
  BY DEF IndInv, RepliesStay, HeadStaysQueued, InRound, Answering
<1>2. QED
  BY <1>1, Invariance, PTL

\* Neither qRemove of a round blocks while the pool mutex is held.
THEOREM RoundsDoNotWait == Spec => []LoopNeverWaits
<1>1. ASSUME IndInv PROVE LoopNeverWaits
  <2>1. igPend \in Seq(Generators)
    BY <1>1 DEF IndInv, TypeOK, ReplyTypeOK
  <2>2. ASSUME NEW i \in IgThreads, ig[i].pc = "clean", ig[i].removeTimes > 0 PROVE igPend # <<>>
    <3>1. Len(igPend) > 0
      BY <1>1, <2>2 DEF IndInv, RepliesStay
    <3>2. QED
      BY <2>1, <3>1
  <2>3. QED
    BY <1>1, <2>2 DEF IndInv, QueriesStay, LoopNeverWaits
<1>2. QED
  BY <1>1, Invariance, PTL

\* A reply that is deleted leaves no image file behind.
THEOREM FilesCorrect == Spec => []NoOrphanFiles
<1>1. IndInv => NoOrphanFiles
  BY DEF IndInv
<1>2. QED
  BY <1>1, Invariance, PTL

\* The producer's unlocked test of the two sizes keeps the open replies within
\* twice the limit, one for each consumer, one admitted and one that was accepted
\* and is about to be tested, which is open even if it is then refused.
THEOREM RepliesBounded == Spec => []BoundedReplies
<1> DEFINE n == Cardinality(OpenReplies)
           bound == 2 * DosLimit + 2 + Cardinality(IgThreads)
<1>1. ASSUME IndInv PROVE BoundedReplies
  <2>1. IsFiniteSet(OpenReplies)
    BY PoolsAssumption, FS_Subset DEF OpenReplies, Peers
  <2>2. n \in Nat /\ bound \in Nat
    BY <2>1, PoolsAssumption, FS_CardinalityType
  <2>3. n + (IF accepted # NULL /\ ~admitted THEN 0 ELSE 1) <= bound
    BY <1>1 DEF IndInv, DoorBounded
  <2> HIDE DEF n, bound
  <2>4. n <= bound
    BY <2>2, <2>3
  <2>5. QED
    BY <2>4 DEF BoundedReplies, n, bound
<1>2. QED
  BY <1>1, Invariance, PTL

\* No step closes the connection of a client that is not broken.
THEOREM LiveClientsCorrect == Spec => LiveClientsKept
<1>1. ASSUME IndInv, [Next]_vars, NEW c \in Clients, sock[c] = "open", sock'[c] = "closed"
      PROVE  peer[c] = "reset"
  <2>1. /\ sock \in [Peers -> {"none", "open", "closed"}] /\ c \in Peers /\ c \notin Generators
        /\ igPend \in Seq(Generators)
    BY <1>1, PoolsAssumption DEF IndInv, TypeOK, SharedTypeOK, ReplyTypeOK, Peers
  <2>2. PICK i \in IgThreads : Reply(IgConsumer(i))
    <3>1. CASE Reply(IgProducer)
      <4>1. accepted = NULL \/ accepted \in Generators
        BY <1>1 DEF IndInv, TypeOK, ReplyTypeOK
      <4>2. QED
        BY <1>1, <2>1, <3>1, <4>1
           DEF Reply, IgProducer, IgAccept, IgAdmit, IgRefuse, IgEnqueue, Close, sharedVars
    <3>2. CASE Query(QueryPoolStep)
      BY <1>1, <2>1, <3>2 DEF Query, QueryPoolStep, QuProducer, QuAccept, QuConsumer, QuTake, QuReceive,
         QuReceiveBroken, QuForward, QuForwardFails, QuAnswered, QuPending, sharedVars
    <3>3. QED
      BY <1>1, <3>1, <3>2, PeerFrame DEF Next, Reply, ReplyPoolStep, vars, sharedVars
  <2>3. CASE IgDropQuery(i)
    <3>1. ~ig[i].connected /\ ig[i].pc = "dispose" /\ sock' = [sock EXCEPT ![ig[i].query] = "closed"]
      BY <2>3 DEF IgDropQuery, IgGoto, Close
    <3>2. ig[i].query = c
      BY <1>1, <2>1, <3>1
    <3>3. QED
      BY <1>1, <3>1, <3>2 DEF IndInv, FailureIsReset
  <2>4. CASE IgRemoveReply(i)
    <3>1. Head(igPend) \in Generators /\ sock' = [sock EXCEPT ![Head(igPend)] = "closed"]
      BY <2>1, <2>4 DEF IgRemoveReply, Close
    <3>2. QED
      BY <1>1, <2>1, <3>1
  <2>5. CASE UNCHANGED sock
    BY <1>1, <2>5
  <2>6. QED
    BY <2>2, <2>3, <2>4, <2>5
       DEF Reply, IgConsumer, IgTake, IgLock, IgReceive, IgPending, IgDecide, IgReadHead, IgTakeQuery,
           IgLockQueries, IgLockReplies, IgWalk, IgScanCrashes, IgSendTags, IgSendImage, IgKeepQuery,
           IgAgain, IgCleaned, IgUnlock, sharedVars
<1>2. IndInv /\ [Next]_vars =>
        [\A c \in Clients : sock[c] = "open" /\ sock'[c] = "closed" => peer[c] = "reset"]_vars
  BY <1>1
<1>3. QED
  BY <1>2, Invariance, PTL DEF Spec, LiveClientsKept
=============================================================================
