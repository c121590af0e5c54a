------------------------------ MODULE ReplyPool ------------------------------
(***************************************************************************)
(* The reply pool: its producer accepts image generators unless too many   *)
(* replies are waiting; its consumer receives an image, and once enough    *)
(* have come runs a round that answers the pending queries                 *)
(* (IAThreadPool::producer, consumer and ig_pool_handle, built as the      *)
(* source sets it: enable_rules 0, enable_collage 0).                      *)
(***************************************************************************)
EXTENDS Pools

CONSTANT Malformed  \* the generators whose tags hold a closing tag alone

ASSUME ReplyPoolAssumption == Malformed \subseteq Generators

VARIABLES
  igIn,        \* _ig_pool->incoming_queue
  igPend,      \* _ig_pool->pending_queue
  igPendLock,  \* who holds the mutex of igPend across several steps
  accepted,    \* the connection the producer has in hand, NULL if none
  admitted,    \* its request is about to be added
  poolMutex,   \* _ig_pool->pool_mutex: its holder
  files,       \* the ig_image_id_<n>.jpg files on disk, by their reply
  unpaired,    \* the replies whose rules have a closing tag with no opening one before it
  ig,          \* ig[i]: where consumer i is, and its locals
  got          \* got[c]: history: the responses that reached client c

igQueues == <<igIn, igPend, igPendLock, accepted, admitted>>
replyVars == <<igQueues, poolMutex, files, unpaired, ig, got>>

IgStages == {"take", "lock", "receive", "pend", "decide", "head", "query", "lock_qu",
             "lock_ig", "walk", "header", "body", "dispose", "again", "clean", "unlock"}

IgLocals ==
  [pc : IgStages,
   cur : Generators \cup {NULL},    \* current_reply, whose file name it keeps
   head : Generators \cup {NULL},   \* head, as getHead() returned it
   query : Clients \cup {NULL},     \* current_pending_query
   count : Nat,                     \* query_count
   image : Generators \cup {NULL},  \* what the file held when read; NULL if gone
   connected : BOOLEAN,             \* no send of this response has failed
   removeTimes : Nat]               \* remove_times

Idle ==
  [pc |-> "take", cur |-> NULL, head |-> NULL, query |-> NULL, count |-> 0,
   image |-> NULL, connected |-> TRUE, removeTimes |-> 0]

ReplyTypeOK ==
  /\ igIn \in Seq(Generators) /\ igPend \in Seq(Generators)
  /\ igPendLock \in IgThreads \cup {NULL}
  /\ accepted \in Generators \cup {NULL}
  /\ admitted \in BOOLEAN
  /\ poolMutex \in IgThreads \cup {NULL, GarbageHolder}
  /\ files \in SUBSET Generators /\ unpaired \in SUBSET Malformed
  /\ ig \in [IgThreads -> IgLocals]
  /\ got \in [Clients -> SUBSET (Generators \cup {NULL})]

ReplyInit ==
  /\ igIn = <<>> /\ igPend = <<>>
  /\ igPendLock = NULL
  /\ accepted = NULL /\ admitted = FALSE
  /\ poolMutex \in PoolMutexStates
  /\ files = {} /\ unpaired = {}
  /\ ig = [i \in IgThreads |-> Idle]
  /\ got = [c \in Clients |-> {}]

\* Consumer i is at a stage, and leaves it with these locals.
IgGoto(i, from, locals) ==
  /\ ig[i].pc = from
  /\ ig' = [ig EXCEPT ![i] = locals]

-----------------------------------------------------------------------------
(* The producer                                                            *)

\* Mutant of TooMany: only the pending replies are counted.
TooManyPending == Len(igPend) > DosLimit

TooMany == Len(igIn) > DosLimit \/ Len(igPend) > DosLimit

producerRest == <<igPend, igPendLock, poolMutex, files, unpaired, ig, got>>

\* AcceptConnection(): the connection is open from here on.
IgAccept(g) ==
  /\ accepted = NULL /\ peer[g] # "away" /\ sock[g] = "none"
  /\ sock' = [sock EXCEPT ![g] = "open"]
  /\ accepted' = g
  /\ UNCHANGED <<peerVars, quQueues, crashed, igIn, admitted, producerRest>>

\* The test of both sizes without their locks.  It is one step because the
\* incoming queue, which is read first, only shrinks until the other is read.
IgAdmit ==
  /\ accepted # NULL /\ ~admitted /\ ~TooMany
  /\ admitted' = TRUE
  /\ UNCHANGED <<sharedVars, igIn, accepted, producerRest>>

\* "Detected dos... closing socket."
IgRefuse ==
  /\ accepted # NULL /\ ~admitted /\ TooMany
  /\ Close(accepted)
  /\ accepted' = NULL
  /\ UNCHANGED <<peerVars, quQueues, crashed, igIn, admitted, producerRest>>

\* incoming_queue->qAdd(request)
IgEnqueue ==
  /\ accepted # NULL /\ admitted
  /\ igIn' = Append(igIn, accepted)
  /\ accepted' = NULL /\ admitted' = FALSE
  /\ UNCHANGED <<sharedVars, producerRest>>

IgProducer == (\E g \in Generators : IgAccept(g)) \/ IgAdmit \/ IgRefuse \/ IgEnqueue

-----------------------------------------------------------------------------
(* The consumer: receiving one image                                       *)

\* incoming_queue->qRemove(-1)
IgTake(i) ==
  /\ igIn # <<>>
  /\ IgGoto(i, "take", [ig[i] EXCEPT !.pc = "lock", !.cur = Head(igIn)])
  /\ igIn' = Tail(igIn)
  /\ UNCHANGED <<sharedVars, igPend, igPendLock, accepted, admitted, poolMutex, files, unpaired, got>>

\* Mutant of LockPool: without the pool mutex.
LockNothing(i) == UNCHANGED poolMutex

LockPool(i) == poolMutex = NULL /\ poolMutex' = i

\* The pool mutex, then the file the image is written to.
IgLock(i) ==
  /\ IgGoto(i, "lock", [ig[i] EXCEPT !.pc = "receive"])
  /\ LockPool(i)
  /\ files' = files \cup {ig[i].cur}
  /\ UNCHANGED <<sharedVars, igQueues, unpaired, got>>

\* recv() byte by byte until the generator closes, or the connection breaks,
\* which may be before a lone closing tag of its text has come, or after.
IgReceive(i) ==
  /\ IgGoto(i, "receive", [ig[i] EXCEPT !.pc = "pend"])
  /\ peer[ig[i].cur] \in {"gone", "reset"}
  /\ unpaired' \in {unpaired, unpaired \cup ({ig[i].cur} \cap Malformed)}
  /\ UNCHANGED <<sharedVars, igQueues, poolMutex, files, got>>

\* pending_queue->qAdd(current_reply)
IgPending(i) ==
  /\ IgGoto(i, "pend", [ig[i] EXCEPT !.pc = "decide"])
  /\ igPendLock = NULL
  /\ igPend' = Append(igPend, ig[i].cur)
  /\ UNCHANGED <<sharedVars, igIn, igPendLock, accepted, admitted, poolMutex, files, unpaired, got>>

\* Mutant of EnoughImages: one image more than asked for.
MoreThanEnoughImages ==
  (Len(igPend) # 0 \/ Len(quPend) # 0) /\ Len(igPend) > ImagesToWaitFor

EnoughImages ==
  (Len(igPend) # 0 \/ Len(quPend) # 0) /\ Len(igPend) >= ImagesToWaitFor

IgDecide(i) ==
  /\ IgGoto(i, "decide",
            [ig[i] EXCEPT !.pc = IF EnoughImages THEN "head" ELSE "unlock", !.count = 0])
  /\ UNCHANGED <<sharedVars, igQueues, poolMutex, files, unpaired, got>>

-----------------------------------------------------------------------------
(* The consumer: one response of the do-while                              *)

\* head = pending_queue->getHead(), without the lock.
IgReadHead(i) ==
  /\ IgGoto(i, "head", [ig[i] EXCEPT !.pc = "query",
                                     !.head = IF igPend = <<>> THEN NULL ELSE Head(igPend)])
  /\ UNCHANGED <<sharedVars, igQueues, poolMutex, files, unpaired, got>>

\* Mutant of WithoutHead: the query stays in the queue, as after getHead().
WithHead == quPend

WithoutHead == Tail(quPend)

\* query_pool->pending_queue->qRemove(-1): blocks while no query is pending.
IgTakeQuery(i) ==
  /\ quPend # <<>> /\ quPendLock = NULL
  /\ IgGoto(i, "query", [ig[i] EXCEPT !.pc = "lock_qu", !.query = Head(quPend)])
  /\ quPend' = WithoutHead
  /\ UNCHANGED <<peerVars, sock, quIn, quPendLock, crashed, igQueues, poolMutex, files, unpaired, got>>

IgLockQueries(i) ==
  /\ IgGoto(i, "lock_qu", [ig[i] EXCEPT !.pc = "lock_ig"])
  /\ quPendLock = NULL
  /\ quPendLock' = i
  /\ UNCHANGED <<peerVars, sock, quIn, quPend, crashed, igQueues, poolMutex, files, unpaired, got>>

IgLockReplies(i) ==
  /\ IgGoto(i, "lock_ig", [ig[i] EXCEPT !.pc = "walk"])
  /\ igPendLock = NULL
  /\ igPendLock' = i
  /\ UNCHANGED <<sharedVars, igIn, igPend, accepted, admitted, poolMutex, files, unpaired, got>>

\* Mutant of QueryCount: the query in hand is taken off a count it is not in.
QueryCountLess == Len(quPend) - 1

\* Mutant of QueryCount: the count includes the query in hand.
QueryCountMore == Len(quPend) + 1

QueryCount == Len(quPend)

\* Mutant of UnlockReplies: the mutex stays locked.
KeepReplies == UNCHANGED igPendLock

UnlockReplies == igPendLock' = NULL

\* query_count is read and the tags of the replies are scanned from head; with
\* enable_rules 0 every reply matches and send_now is set.  Both mutexes are
\* released.
IgWalk(i) ==
  /\ ToSet(igPend) \cap unpaired = {}
  /\ IgGoto(i, "walk", [ig[i] EXCEPT !.pc = "header", !.count = QueryCount])
  /\ quPendLock' = NULL
  /\ UnlockReplies
  /\ UNCHANGED <<peerVars, sock, quIn, quPend, crashed, igIn, igPend, accepted, admitted, poolMutex, files, unpaired, got>>

\* The scanner computes from the null pointer strstr returns for the opening tag.
IgScanCrashes(i) ==
  /\ ig[i].pc = "walk" /\ ToSet(igPend) \cap unpaired # {}
  /\ crashed' = TRUE
  /\ UNCHANGED <<peerVars, sock, quQueues, replyVars>>

\* Mutant of ConnectedAtFirst: connected is not set again for each response.
ConnectedBefore(i) == ig[i].connected

\* bool connected = true
ConnectedAtFirst(i) == TRUE

\* The file of current_reply is read, and xml_send sends the tags with its
\* length, 0 if the file is gone.
IgSendTags(i) ==
  /\ IgGoto(i, "header",
            [ig[i] EXCEPT !.pc = "body",
                          !.image = IF ig[i].cur \in files THEN ig[i].cur ELSE NULL,
                          !.connected = ConnectedAtFirst(i) /\ peer[ig[i].query] # "reset"])
  /\ UNCHANGED <<sharedVars, igQueues, poolMutex, files, unpaired, got>>

\* Mutant of RemoveFile: the file stays on disk.
RemoveNothing(g) == UNCHANGED files

\* remove(filename)
RemoveFile(g) == files' = files \ {g}

\* uber_send sends the bytes of the image, and remove() deletes the file.
IgSendImage(i) ==
  LET c == ig[i].query IN
  /\ IgGoto(i, "body", [ig[i] EXCEPT !.pc = "dispose", !.connected = @ /\ peer[c] # "reset"])
  /\ got' = [got EXCEPT ![c] = IF peer[c] = "up" THEN @ \cup {ig[i].image} ELSE @]
  /\ RemoveFile(ig[i].cur)
  /\ UNCHANGED <<sharedVars, igQueues, poolMutex, unpaired>>

\* terminate_client: the socket is closed and the query deleted.
IgDropQuery(i) ==
  /\ ~ig[i].connected
  /\ IgGoto(i, "dispose", [ig[i] EXCEPT !.pc = "again", !.query = NULL])
  /\ Close(ig[i].query)
  /\ UNCHANGED <<peerVars, quQueues, crashed, igQueues, poolMutex, files, unpaired, got>>

\* query_pool->pending_queue->qAdd(current_pending_query)
IgKeepQuery(i) ==
  /\ ig[i].connected /\ quPendLock = NULL
  /\ IgGoto(i, "dispose", [ig[i] EXCEPT !.pc = "again", !.query = NULL])
  /\ quPend' = Append(quPend, ig[i].query)
  /\ UNCHANGED <<peerVars, sock, quIn, quPendLock, crashed, igQueues, poolMutex, files, unpaired, got>>

\* Mutant of RemoveTimes: one reply is left in the queue.
RemoveTimesButOne == Len(igPend) - 1

RemoveTimes == Len(igPend)

\* while (query_count > 0); then the size of the queue to clean out.
IgAgain(i) ==
  /\ IgGoto(i, "again", [ig[i] EXCEPT !.pc = IF ig[i].count > 0 THEN "head" ELSE "clean",
                                      !.removeTimes = RemoveTimes])
  /\ UNCHANGED <<sharedVars, igQueues, poolMutex, files, unpaired, got>>

-----------------------------------------------------------------------------
(* The consumer: cleaning out the pending replies                          *)

IgRemoveReply(i) ==
  /\ ig[i].removeTimes > 0 /\ igPend # <<>> /\ igPendLock = NULL
  /\ IgGoto(i, "clean", [ig[i] EXCEPT !.removeTimes = @ - 1])
  /\ igPend' = Tail(igPend)
  /\ RemoveFile(Head(igPend))
  /\ Close(Head(igPend))
  /\ UNCHANGED <<peerVars, quQueues, crashed, igIn, igPendLock, accepted, admitted, poolMutex, unpaired, got>>

IgCleaned(i) ==
  /\ ig[i].removeTimes = 0
  /\ IgGoto(i, "clean", [ig[i] EXCEPT !.pc = "unlock"])
  /\ UNCHANGED <<sharedVars, igQueues, poolMutex, files, unpaired, got>>

\* The pool mutex is released and consumer() goes on; its locals are gone.
IgUnlock(i) ==
  /\ IgGoto(i, "unlock", Idle)
  /\ poolMutex' = NULL
  /\ UNCHANGED <<sharedVars, igQueues, files, unpaired, got>>

IgConsumer(i) ==
  \/ IgTake(i) \/ IgLock(i) \/ IgReceive(i) \/ IgPending(i) \/ IgDecide(i)
  \/ IgReadHead(i) \/ IgTakeQuery(i) \/ IgLockQueries(i) \/ IgLockReplies(i)
  \/ IgWalk(i) \/ IgScanCrashes(i) \/ IgSendTags(i) \/ IgSendImage(i) \/ IgDropQuery(i)
  \/ IgKeepQuery(i) \/ IgAgain(i) \/ IgRemoveReply(i) \/ IgCleaned(i) \/ IgUnlock(i)

ReplyPoolStep == IgProducer \/ \E i \in IgThreads : IgConsumer(i)

=============================================================================
