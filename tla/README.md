# Verification of the ImageAggregator

The ImageAggregator (`src/src/`) is a C++ server. Clients send it queries; it
forwards each query to an actuator and keeps it. Image generators send it
images; when enough images have come it answers the pending queries. Everything
is done by two pools of POSIX threads around four shared linked lists. This
directory holds a TLA+ model of it, TLC runs that check the model on small
instances, and TLAPS proofs of its safety properties for any number of threads,
requests and connections, any messages and any sizes.

Line numbers below are those of the files in `src/src/`.

## 1. Inventory

| Component | State | Operations | Interacts with |
|---|---|---|---|
| `IARequestQueue` (IARequestQueue.cpp, .h, IARequest.h) | a circular doubly linked list (`qHead`, `qTail`, `next`, `prev`), `length`, `count`, a mutex, the condition `isReady` | `qAdd`, `qRemove(-1)`, `getHead`, `size`, `print_object` | called by all pool threads and by `main`'s thread |
| Query pool (IAThreadPool.cpp `producer`, `consumer`, `qu_pool_handle`) | listening socket, an incoming and a pending queue, 8 consumers | accept a client; receive its query; forward it to the actuator; put it on the pending queue | the pending queries are read and changed by the reply pool |
| Reply pool (`producer`, `consumer`, `ig_pool_handle`) | listening socket, an incoming and a pending queue, `pool_mutex`, image files on disk, 1 consumer | accept or refuse a generator; receive an image into a file; run a round of responses; clean out | takes and puts back pending queries, locks both pending queues |
| `ImageAggregator` (`init`, `print_object`) | the two pools | build and connect the pools, start their threads | - |
| `IANetworking` | none (sockets) | `ClientConnect`, `uber_recv`, `uber_send`, listening and accepting | the network |
| `IAxml` | none | `xml_recv_query`, `xml_recv_reply`, `xml_send`, tag scanners | `IANetworking` |
| `main` | `run_info`, the console character | start, print on `p`, leave on `q` | `print_object` |
| `IAimaging`, `collage.cpp`, `appendImages.cpp` | images | the collage, behind `enable_collage`, which the source sets to 0 | Magick++ |
| `ig.cpp` | - | a test image generator, a program of its own | the reply port |

What makes each component correct, and what is hard about it:

* **Queue.** The list is three pointers a node, written one at a time, by many
  threads. It must be one ring through exactly the requests added and not yet
  removed, FIFO, each request with one owner; nobody may sleep on a non-empty
  queue for want of a signal; IDs must be unique although `qAdd` reads `count`
  before it locks (line 75). `print_object` reads the head before it locks
  (line 45).
* **Query pool.** Each connection is owned by one thread or one queue from
  accept to close. It depends on what a client that leaves early does, and on
  an actuator that may be down.
* **Reply pool.** The hard one: it reads two sizes without locks (line 141), a
  head pointer without a lock (line 300), blocks in `qRemove` with a mutex held
  (line 302), takes the locks of two queues at once (lines 320-321), loops on a
  count of a queue it adds to (lines 468-475), and handles failing sends. It
  must end its rounds, deliver images, keep the clients that live, drop those
  that do not, close what it opened and remove its files.
* **Composition.** The pending queries are shared by both pools; the FIFO
  promise of the queue must be what both rely on.
* **IANetworking, IAxml.** Messages arrive in pieces of any size, into a buffer
  that is filled to its last byte by a loop that stops one byte before it (lines
  138-140), and end at a delimiter that is searched twice; a send may be partial,
  and the failure of one of its two sends is masked (line 207); a failed connect
  leaves its descriptor open (line 48); the tag scanner takes the opening tag for
  granted (IAxml.cpp:93). What the pools take as one step, "the query is
  received", must be what all this amounts to.
* **main and init.** The pools learn what they are from pointers set before
  their threads run (ImageAggregator.cpp:59-65); SIGPIPE is blocked by a mask the
  threads inherit; thread creation may fail unnoticed, a port that cannot be
  opened ends the process, and a full descriptor table makes `accept` fail. The
  console loop tests its variable before it is read.

`PROJECT.json` lists every hazard at its line with the properties that cover
it, and for each definition the lines it stands for.

## 2. Modules

| Module | What it is |
|---|---|
| `FifoQueue` | what the header of the class promises: a queue of requests whose operations are atomic, each request in one hand or queued |
| `RequestQueue` | the class as written: every group of pointer writes, the lock, the condition variable, the callers, the printing thread; implements `FifoQueue` |
| `RequestQueue_proofs` | the theorems about it |
| `MCRequestQueue` | its instances for TLC |
| `Pools` | what the two pools share, and the peers of their sockets |
| `QueryPool` | the query pool's producer and consumers |
| `ReplyPool` | the reply pool's producer and consumers |
| `ImageAggregator` | both pools and the peers together; the properties of the whole |
| `Counting` | lemmas about the cardinality of finite sets |
| `ImageAggregator_proofs` | the theorems about the pools |
| `QueryQueue_proofs` | the theorem that they use the pending queries as a FIFO queue |
| `MCImageAggregator` | its instances for TLC |
| `Messages` | messages as sequences of tokens: C strings, delimiters, tags, and the operators of `IAxml` on them |
| `Networking` | `IANetworking` on connections that deliver in pieces, close and break: `uber_recv`, `uber_send`, `ClientConnect` |
| `Exchanges` | what `qu_pool_handle` and `ig_pool_handle` do on their connections, token by token |
| `Exchanges_proofs` | the theorems about what it sends |
| `Scanner_proofs` | the theorem about the tag scanner |
| `QueryExchange` | that the exchange of a query implements `QueryPool` |
| `QueryExchange_proofs` | the theorem that it does |
| `MCExchanges` | its instance for TLC |
| `Process` | `main`, `ImageAggregator::init`, the creation of threads, the signal mask, listening and accepting, the descriptor table, the console |
| `Process_proofs` | the theorems about it |
| `MCProcess` | its instances for TLC |

`ImageAggregator` EXTENDS `QueryPool` and `ReplyPool`, which extend `Pools`.
There a queue is a sequence with atomic operations: that is justified by the
theorem `Refinement` (section 5), and the pools' use of it is itself proved to
be that of a `FifoQueue` (`PendingQueriesCorrect`). The one exception to atomicity, the
stretch in which the reply thread holds the mutexes of both pending queues from
outside the class, is modelled by `quPendLock` and `igPendLock`, which every
operation on those queues waits for.

`Exchanges` EXTENDS `Networking`, which extends `Messages`. `QueryExchange` adds
the link to `QueryPool`: it INSTANCEs that module twice, for a client whose query
fits in the buffer and for one whose does not, and `ImplementsQueryPool` says that
the steps of the pool are what the token-by-token handler does. `Process` stands beside both. It keeps of
the handlers only where they open and close descriptors and may raise a signal,
and adds what they share with the rest of the process.

### RequestQueue

A step is the code between two points at which another thread can see a
difference. For `qAdd(n)`:

| Action | Lines | Code |
|---|---|---|
| `Prepare` | 67-76 | self links, `requestID` from the unlocked `count` |
| `AddLock` | 80 | lock |
| `LinkNeighbours`, `LinkNew` | 82-97 | the writes to the neighbours; the writes to the node, head and tail |
| `AddLength` | 88-101 | `length++`, `count++` |
| `AddUnlock`, `AddSignal` | 102-104 | unlock, then signal |

and `qRemove(-1)` (lines 111-142) is `RemoveLock`, `WaitReady` (which gives the
mutex up and sleeps), `TakeHead`, `UnlinkLast` or `AdvanceHead` and `CloseRing`,
`RemoveLength`, `RemoveUnlock`. `print_object` (44-60) is `ReadHead`, before the
lock, and `PrintLock` to `PrintSignal`. A woken or spuriously woken waiter goes
back to acquiring the mutex and testing again. The producers allocate
(`Allocate`), the consumers delete or add again (`Delete`, `Requeue`): the class
by itself does neither, the pools do. `order` is a history variable, the
sequence of requests queued, updated where `length` is. Memory that was deleted
keeps its content until it is allocated again: one of the outcomes of undefined
behaviour, the one in which a walk over deleted nodes lasts longest; a null
pointer stops the process (`segv`).

`qAdd` and `qRemove` run on the paths the program uses: `qRemove` is always
called with -1, and the destructor of the class never runs.

### The pools

A connection and the request made for it share a name. `peer[x]` is the far end:
`away`, `up`, `gone` (an orderly close: what it sent can be read, the next sends
still succeed) or `reset` (every send fails). `sock[x]` is the descriptor. A
peer connects at most once. `asked` are the clients whose whole query has arrived,
or as much of it as the receive buffer holds: `Oversized` names the clients whose
query does not fit. The last argument of the program, `Images`, is compared with
an unsigned size, so the threshold is `Images % UIntSize`.

`QuReceive` to `QuPending` are `qu_pool_handle` (189-238). `QuReceiveBroken` is
a connection that ends before its delimiter, or a full buffer without one:
`IAxml.cpp:48-49` writes through the null pointer that `strstr` returns, and the
process dies (`crashed`). The actuator is the nondeterminism of `QuForward`, `QuForwardFails`, `QuAnswered`.

The producer of replies has a connection in hand (`accepted`) before it tests the
sizes: `IgAccept` (127-135), then `IgAdmit` or `IgRefuse` (140-149), then `IgEnqueue`
(150). `Malformed` names the generators whose tags hold a closing tag with no
opening one before it; such a reply is in `unpaired` once the tag has come, and
`IgScanCrashes` is what the scanner does with it (IAxml.cpp:93).

`ig_pool_handle` (246-491) is, in order: `IgLock` (pool mutex, file),
`IgReceive` (until the generator closes), `IgPending`, `IgDecide`; the do-while
`IgReadHead`, `IgTakeQuery`, `IgLockQueries`, `IgLockReplies`, `IgWalk`,
`IgSendTags`, `IgSendImage`, `IgDropQuery` or `IgKeepQuery`, `IgAgain`; then
`IgRemoveReply` once for each reply, `IgCleaned`, `IgUnlock`. The source sets
`enable_rules` and `enable_collage` to 0, so every reply matches and the image of
the reply just received is what is sent. `image` is `NULL` when the file was
gone at the time it was read. `got` is a history variable.

The locals of a reply thread are the record `ig[i]`. Its field `cur` is kept to
the end of the handler because its copy of the file name is, but the thread
*owns* the reply only until `IgPending`; `EveryConnectionOwned` counts it so.

### Messages on connections

A token is a byte or a whole tag. `script[s]` is what the peer of `s` would send,
`arrived[s]` and `read[s]` count how much of it has arrived and been received,
`taken[s]` is what the kernel took from the program. A turn of the loop of
`uber_recv` is `UberRecv`: it receives 1 to `Room(s)` tokens of those that have
arrived, or meets the end of the stream, or an error. `QuReceive` adds what
`xml_recv_query` does with the result. `QuSend` and `IgSendTags`, `IgSendZero`,
`IgSendImage` are the single calls of `send()`. A send is partial only when the
connection breaks meanwhile: the sockets block.

Undefined behaviour: a receive that fails frees the buffer, and
`xml_recv_query` searches the freed memory (IAxml.cpp:47-48); one that fills the
buffer without a delimiter leaves it without a terminating zero. Both are taken
to find nothing, which is a write through null, as they do unless another
thread's data happens to lie there. A delimiter that ends exactly at the end of
the buffer has its terminator written one byte behind it (IANetworking.cpp:157,
finding 6); what that byte overwrites is left out, and such a query counts as
one that may or may not be found.

### The process

`StartOrder` is the sequence of steps of `main` and `init`, which `stage` runs
through. A thread runs from the moment it is created, before the later
steps; it inherits the mask as it is then (`shielded`). `call[c]` is where the
connection of caller `c` is: in the backlog (`calling`), with the producer
(`accepted`, and `admitted` once it has been tested), `queued`, `served`, for a
generator `answering` or `waiting` for a round, for a client `pending` or `left`.
`Used` counts the descriptors; `leaked` are those of failed exchanges
(IANetworking.cpp:48 and IAThreadPool.cpp:219), which nothing closes any more. A
query that is cut short or does not fit (`QuCutShort`) and a closing tag alone
(`IgTagsClosed`) crash the process at any time; when, and why, is in `QueryPool`,
`ReplyPool` and `Exchanges`. `IgReceived` leaves a reply waiting below the threshold
`Images`, and its round closes what waits with what it answered (478-485). The image
file has a descriptor while it is written; the short read of it in a response is not
counted.

## 3. Runs

| Run | Instance | Properties |
|---|---|---|
| `incoming_queue` | 1 producer, 2 consumers, 3 nodes, 4 additions, `count` with 5 values, fair | `TypeOK`, `ListIsQueue`, `NoLostWakeup`, `UniqueIDs`, `EveryRequestTaken` |
| `pending_queue` | 2 producers, 1 consumer that puts back, 1 printing thread, 3 nodes, `count` with 4 values, which wraps, IDs already given; nodes and producers symmetric | `MutualExclusion`, `OneOwner`, `IndInv`, `ImplementsFifo` |
| `print_stale_head` | 1 of each thread, 2 nodes | `InspectorStaysInList`, **violated** |
| `rounds` | 2 clients, one of which may leave, 2 generators, 2 reply threads, threshold 1, uninitialised mutex bytes either way | `TypeOK`, `EveryConnectionOwned`, `LoopNeverWaits`, `LiveClientsKept`, `HeadStaysQueued`, `NoCircularWait`, `QueriesInOrder`, `IndInv` |
| `refusals` | 1 client that may leave and whose query does not fit, 4 generators, all of them `Malformed`, limit 0, threshold 2 | `NoOrphanFiles`, `BoundedReplies` |
| `delivery` | 1 client that stays, 2 generators, limit 0, threshold 1, fair | `RoundEnds`, `EveryReplyRetired`, `EveryImageDelivered`, `RefusalEnds` |
| `round_never_ends` | 2 clients that stay, 2 generators, fair | `RoundEnds`, **violated** |
| `empty_response` | 2 clients that stay | `NoEmptyResponse`, **violated** |
| `dead_client` | 1 client that may leave | `Survives`, **violated** |
| `exchanges` | 57 queries, 2 answers, 9 tag texts, the ill-formed ones included, a buffer of 4 tokens, fair | `TypeOK`, `QueryForwarded`, `ImageRelayed`, `ScansRight`, `IndInv`, `ImplementsQueryPool`, `EveryExchangeEnds` |
| `process` | 1 client, 2 generators, 1 thread of each kind, threshold 2, limit 0, 1 failing exchange, a table of 3 descriptors or of `Enough`, a console that is given nothing or p and q, fair | `RightHandler`, `SurvivesFailedCalls`, `PortsServed`, `EveryCallAccepted`, `QuitEnds` |
| `descriptors` | 2 clients, 4 generators, otherwise the same, a table of 5 descriptors or of `Enough` | `TypeOK`, `TableHasRoom`, `NoImageLost`, `IndInv` |

What they show:

* *The queue is correct for its workers* in every interleaving, with spurious
  wake-ups, with one signal per addition and several waiters. `UniqueIDs` holds
  because an incoming queue has one producer; the requests of a pending queue, which
  has more, come with an ID and keep it. It also holds only until `count` wraps: line 75 stores an unsigned number in an int, so the last number
  before the wrap is -1, "unassigned", and the next one an ID that may be alive.
  `incoming_queue` adds one request fewer than `count` has values, and TLC
  finds `UniqueIDs` violated with one addition more. The list itself does not depend
  on `count`, which wraps in `pending_queue`.
* *The response loop is careful about ownership*: every open connection is in
  one place, closed ones in none (`EveryConnectionOwned`); only broken clients
  are dropped; the loop never blocks on a second turn (`LoopNeverWaits`); the
  head read without a lock is still the head at the end of the walk
  (`HeadStaysQueued`), which `pool_mutex` alone ensures: the run has two reply
  threads (the program starts one, the class allows any number), and without the
  mutex the property fails.
* *The three mutexes are never waited for in a circle* (`NoCircularWait`): lines
  320-321 take two of them inside the third, and the queues' own operations take
  them again. Whom a thread waits for waits for nobody, and nobody locks what it
  holds.
* *The limit of 20 is soft*: `TooMany` reads two queues without their locks, and
  replies move from the first to the second. What is open is at most
  twice the limit, one per consumer, one that was admitted, and one that is accepted
  only to be tested (`BoundedReplies`): the limit is tested on an open connection.
* *A query is received whole or not at all* (`exchanges`), however it is cut
  into pieces: `ImplementsQueryPool` says that the process dies only for a client
  that leaves before its query is complete, or whose query does not fit. The
  actuator gets the text up to the first delimiter and nothing of what follows
  (`QueryForwarded`). A client that is kept was sent the whole response: the
  masked failure of the string's zero does no harm, because the send of the
  image follows and fails too, even with an image of no bytes (`ImageRelayed`).
  The tag scanner computes with a null pointer on a closing tag that comes before
  any opening one, and on nothing else; on a part of well-formed tags, cut anywhere,
  it returns the number of the first pair, or that there is none (`ScansRight`).
* *The start order is right* (`process`): no call is served by the wrong handler
  and no broken connection kills the process, because the pools are hooked up
  and the signal is masked before the first thread is created. Once both ports
  are listened on no call that fails ends the process (`SurvivesFailedCalls`). What a
  peer sends may end it all the same: findings 4 and 5.
* *The limit on generators is also what keeps clients from being shut out*
  (`descriptors`, `process`). As long as no more than `MaxFailures` exchanges leave
  their descriptors behind, a table of `Enough` is never full (`TableHasRoom`), and
  `EveryCallAccepted` holds with it, even if no handler ever ends: 2 ports, the
  clients, one exchange per query thread, one descriptor per failed exchange, twice
  the limit and three for the replies, one for an image, one to spare. The three are
  the reply that is served, the one that was admitted, and the one accepted to be
  refused. A threshold does not matter: replies that wait for it are on the pending
  queue, which the limit tests. The same sum keeps images from being lost for want of a
  descriptor for their file (`NoImageLost`). Failed exchanges are never given back, so
  that no table is large enough for ever: that is why `MaxFailures` is in the sum. An
  inspection at the console holds a queue's mutex, and one that does not return
  (finding 1) keeps the producer in its `qAdd`, and with it all callers out;
  `EveryCallAccepted` is claimed while none is under way.
* *With one client that stays everything is live* (`delivery`), and a full pool
  drains, if the threshold is within the limit.

### Bounds, and why they are enough

* Lists of up to three requests: the code tells lengths 0, 1, 2 and more apart
  (`!qHead`, `length > 1`, `2 == length`). The proofs cover all lengths. (The
  branch on 2 changes nothing: the tail of a list of two is the new head already.)
* In `exchanges` a buffer of four tokens holds one or two delimiters of two
  tokens, with room on either side of the limit: the queries are all sequences of
  up to four halves of a delimiter, up to three with zeros, and one that does not
  fit. The loop of `uber_recv` compares three quantities only: what has come,
  the buffer, and where the first delimiter ends. One connection at a time is
  enough, since the handlers of two share nothing but their queues.
* In `process` and `descriptors` there is a table that fits exactly and one in which
  everything fails sometimes; `MaxFailures` bounds the failed exchanges, `MaxPending`
  the backlog. With limit 0 four generators
  are enough for one to be served, one queued and one accepted to be refused at the
  same time, while another calls: a table of one less than `Enough`, the descriptor to
  spare, is full then. Callers may call again, and do so without bound. The
  liveness run has fewer callers; what they compete for is the same.
* `UIntSize` is the number of values of an unsigned int, `MaxAdds` stops the
  additions when `count` has reached it. In `incoming_queue` there are more additions
  than nodes, so that addresses are used again after a delete, and one fewer than
  `count` has values. In `pending_queue` `count` wraps before it reaches `MaxAdds`,
  so that additions never stop.
* `DosLimit` stands for the constant 20 in line 141 and `Images` for
  the fifth argument of the program. The relation between them is what matters,
  and the runs take it on both sides: threshold reached at the limit
  (`delivery`), and above it (`refusals`). With limit 0 one reply already
  trips the test, as the 21st does in the code.
* Two clients and two generators are the least with which the loop goes round
  again, a queue is reordered and one reply arrives while another is handled;
  three generators are needed for the clean-out to find a reply other than the
  one it just handled with another behind it. `refusals` has four: with limit 0 and
  one reply thread three connections may be open, so that it takes a fourth to exceed
  `BoundedReplies`.
* One query thread: the consumers of the query pool share only their two queues, to
  which the reply threads and the producer of queries add and from which they take as
  well. The program starts eight; the theorems hold for any number. Two reply threads
  in `rounds`, where they race for the pool mutex.
* In `rounds` one client may leave and the other stays: what a broken connection costs
  the other is what `LiveClientsKept` and `QueriesInOrder` are about.
* Symmetry is used for safety only, over threads or peers that are treated alike
  (threads of one pool run the same code; in `rounds` the clients differ, since one
  may leave, and are not in it).
* `CHECK_DEADLOCK FALSE` in every run: the model stops when the bounded additions
  are used up, when all peers have been served, or when the process has died. That
  threads do not wait for each other for ever is what `NoCircularWait` and the
  liveness properties say.

### Fairness

The queue: `WF` on each producer's `QAdd` and each consumer's step. The kernel
runs every thread that can run, and a thread inside `qAdd` or `qRemove` goes on.
No fairness for allocation, for spurious wake-ups, for printing.

The program: `WF` on each of its threads, and on the peers connecting, a client
finishing its query and a generator closing its connection. The last is needed
because the reply thread reads until the generator closes with `pool_mutex`
held: without it one silent generator stops the pool, and nothing in the code
prevents that. That the actuator answers or its connection ends is part of the
fairness of the query threads. No peer is obliged to break or to hang up early.
Weak fairness is enough for the mutexes: a thread that wants one finds it free
continuously, or finds its holder's steps finite in these instances.

Peers are assumed to read. A send is one step of its thread, so that weak fairness
of the thread says that it returns; in the code it blocks (IANetworking.cpp:204), and
a client that stays connected and does not read stops the reply thread with
`pool_mutex` held. Nothing in the code prevents that, and no liveness property is
claimed of it. Safety does not depend on it: a thread may stop anywhere.

`Exchanges`: `WF` on the handlers, on what a peer that is up has left to send,
and on the actuator and the generator closing; none on breaking, and a client
need not close. `Process`: `WF` on the main thread and on each producer opening its
port; `SF` on accepting each call, since the kernel hands calls over in the order
they came and the producer comes back to `accept` again and again; `WF` on testing
what was accepted, and on adding it to the queue while no inspection at the console
is under way. None on the consumers: the promise that calls are accepted does not
depend on them. None on `print_object` returning: finding 1 says why.

`pool_mutex` is never initialised (IAThreadPool.h:71). The liveness runs take its
bytes as zero, which on Linux is an unlocked mutex; the safety run `rounds`
takes both outcomes.

## 4. Findings

1. `print_stale_head`: `print_object` reads the head (line 45) before it locks (46).
   A consumer may remove that request, and delete it, in between; the walk then
   starts at a request that is in no list, and may never come back to it, with the
   mutex held. The class is documented as accessed atomically. The run asks for
   that alone; a head that was null, because the list was empty, and is
   dereferenced because a request has come since, is another consequence of the
   same line, which the property leaves aside.
2. `round_never_ends`: `query_count` is the size of the pending queue after one
   query was taken, and that query is put back. With two clients that stay the
   count is 1 at every turn and the loop has no end.
3. `empty_response`: `remove(filename)` is inside the loop over the queries; the
   second client of a round gets a response of length 0.
4. `dead_client`: the branch for a broken connection cannot be reached, since
   `xml_recv_query` has written through null before it returns.
Two more crashes have no run of their own:

5. IAxml.cpp:93 adds the length of the tag to what `strstr` returned before it tests
   the sum, so the test cannot fail: a reply with a closing tag that no opening one
   precedes ends the process in the walk of a round. That this, and only this, does
   so is the first half of `ScansRight`, checked in `exchanges` and proved; the step
   is `IgScanCrashes` in the pools, which `refusals` takes, and `IgTagsClosed` in `Process`.
6. A receive may fill the buffer to its last byte (IANetworking.cpp:140); when the
   delimiter ends there, line 157 writes the terminator one byte behind the buffer,
   although the comment at line 115 asks the caller for no more than the buffer's size.
   `exchanges` has such queries (`TypeOK` bounds what is received by the buffer, and
   reaches that bound).

The liveness properties of `delivery` hold with one client for the very reason
that findings 2 and 3 need two.

## 5. Proofs

Each theorem holds for every value of the constants that the assumptions allow,
and states a property that a run checks on a small instance (`PoolMutexExcludes`
alone has a statement of its own). Every invariant and every action property of
the passing runs has one, and so have the three refinements.

| Module | Theorem | Statement |
|---|---|---|
| `RequestQueue_proofs` | `Invariance`, `TypeCorrect`, `Exclusion`, `RingCorrect`, `Ownership`, `NoWakeupLost` | `Spec => []IndInv`, `[]TypeOK`, `[]MutualExclusion`, `[]ListIsQueue`, `[]OneOwner`, `[]NoLostWakeup` |
| | `Refinement` | `Spec => ImplementsFifo` |
| | `IDsUnique` | with one producer, no requeuer, new IDs and `MaxAdds < UIntSize`, `Spec => []UniqueIDs` |
| `ImageAggregator_proofs` | `Invariance`, `TypeCorrect`, `OwnersCorrect`, `HeadCorrect`, `RoundsDoNotWait`, `LocksNeverCircle`, `FilesCorrect`, `RepliesBounded` | `Spec => []IndInv`, `[]TypeOK`, `[]EveryConnectionOwned`, `[]HeadStaysQueued`, `[]LoopNeverWaits`, `[]NoCircularWait`, `[]NoOrphanFiles`, `[]BoundedReplies` |
| | `PoolMutexExcludes` | at most one reply thread is between lock and unlock of `pool_mutex` |
| | `LiveClientsCorrect` | `Spec => LiveClientsKept` |
| `QueryQueue_proofs` | `PendingQueriesCorrect` | `Spec => QueriesInOrder` |
| `Exchanges_proofs` | `Invariance`, `TypeCorrect`, `QueryCorrect`, `ResponseCorrect` | `Spec => []IndInv`, `[]TypeOK`, `[]QueryForwarded`, `[]ImageRelayed` |
| `Scanner_proofs` | `ScansCorrect` | `Spec => []ScansRight` |
| `QueryExchange_proofs` | `Implementation` | `Spec => ImplementsQueryPool` |
| `Process_proofs` | `Invariance`, `TypeCorrect`, `HandlersCorrect`, `FailedCallsSurvived`, `RoomAlways`, `ImagesKept` | `Spec => []IndInv`, `[]TypeOK`, `[]RightHandler`, `[]SurvivesFailedCalls`, `[]TableHasRoom`, `[]NoImageLost` |

### Assumptions

* `QueueAssumption`: null is no node and no thread, the kinds of thread are
  distinct but for requeuers, there is a consumer, an unsigned int has some values.
  `IDsUnique` names four more conditions: three are those of an incoming queue, the
  fourth is that fewer requests are added than an unsigned int has values, without
  which it is false.
* `PoolsAssumption`: clients, generators, threads and null are different things,
  there are finitely many of each, the limit is a natural number. Any number of
  threads in either pool, any threshold, mutex bytes of either value.
  `ReplyPoolAssumption`: who is `Malformed` is a generator; all of them may be.
* `NetworkingAssumption`, `ExchangesAssumption`: the buffer holds at least two
  tokens; the three connections have names; what is sent are sequences; the
  delimiter has something in it and no zero, as a C string has not.
* `TagsAssumption`, for `ScansCorrect` and `Implementation`: a tag is one token and no
  number, and opening and closing tags differ. Of the text a generator sends nothing
  is assumed, as nothing in the code validates it. What the scanner returns is stated
  for well-formed tags (`Paired`: an opening tag, a number, a closing tag, any number
  of times and among anything else), when it crashes for every text.
* `ProcessAssumption`: callers and threads are distinct and finitely many, and
  there is one reply thread, as `main` has it; the threshold is a natural number, as
  the comparison makes it.

### The queue

None of `TypeOK` (`length \in Nat`), `MutualExclusion`, `OneOwner`
and `ListIsQueue` is inductive: `ListIsQueue` speaks only of moments between
updates, and length is decremented safely only because the list was not empty.
`IndInv` adds `ListShape`: for each step of an update, what the links look like
there. In the middle of `qAdd` the ring is open for the new node (`OpenFor`);
before the length is updated it is a ring through the longer or shorter
sequence; in the middle of `qRemove` the head has moved on (`HeadMoved`). Six
lemmas about rings (`RingFrame`, `OpenRing`, `CloseOpened`, `RingOfOne`, `MoveHead`,
`CloseMoved`) say what each group of writes makes of one, for sequences of any
length. Mutual exclusion then lets each step assume that no other worker is in
surgery (`HolderSeesRing`), and one lemma per action shows that it keeps `IndInv`
and what it does to `order` and `hand`. The last part is the refinement: the
linearisation points are `AddLength` and `RemoveLength`. `NoLostWakeup` is
inductive once `IndInv` is known: a consumer falls asleep with the lock held and
only on an empty queue (`HolderSeesRing`), and after a signal some consumer is
awake (`SignalWakes`). `IDsUnique` needs an invariant of its own, `IDInv`: the
request the one producer is about to add has the number `count`, all others have
been given smaller ones, and numbers below `UIntSize` become different IDs, none of
them -1 if they are below `UIntSize - 1` (`IDsDiffer`, `NewNumber`).

### The pools

`IndInv` of `ImageAggregator` is what the holder of `pool_mutex` may rely on in
its round although it holds no queue lock: that it is alone (`PoolMutexHeld`),
that the replies it has counted stay pending until its clean-out, with the same
head (`RepliesStay`), and that a turn that counted more queries finds one
(`QueriesStay`). `LoopNeverWaits`
and `HeadStaysQueued` follow, and neither is inductive without them. `FileIsPending`
says of `NoOrphanFiles` when the file is there; `FailureIsReset` that a send fails
on broken connections only. `LocksHeld` says in which region of the code each mutex
is held and that it is held nowhere else; `LocksNeverCircle` follows, because who
holds a queue's mutex from outside also holds the pool mutex, and is in a region in
which it waits for no mutex that another thread has.

`EveryConnectionOwned` is inductive, but it counts: occurrences in two queues
plus hands. `OccursAppend`, `OccursTail`, `QuHandMoves`, `IgHandMoves`, `InHandMoves`
say what one step does to each of the four numbers, from the lemmas of `Counting`
about sets that differ in one element; each action then moves one owner from one
number to another. `BoundedReplies` needs that ownership, since what
is open is in a place that is counted (`OpenPlaces`), and it needs `DoorBounded`: the
last place is taken only by a connection that has not been tested, which is refused if
there is no other place for it (`OpenWhenAdmitted`). The proof is in layers,
`Typed` first, each of which uses those below it.

`PendingQueriesCorrect` maps the queries of both pools to the abstract queue and
its hands: `QuPending` and `IgKeepQuery` add, `IgTakeQuery` removes, a query
thread has a request in hand from the moment it is at the `qAdd`. A request that
is added is in no queue and no other hand, by `EveryConnectionOwned`.

### The exchanges

Two facts carry `Exchanges_proofs`. The first is about searching: `DelimiterFound`
says that `strstr` finds a delimiter in what has been received, and finds the same
one, exactly if the first delimiter of the whole text has been received, wherever
the pieces were cut. From it, `QueryMade`: the request that is forwarded is the
text up to the first delimiter with the line of its ID. The second is the
inductive invariant: `ReplyParsed` (the tags and the file are together what the
generator sent), `ResponseSent` and `QuerySent` (at each program counter the kernel
has taken exactly what the code has sent so far, or the connection is broken, and
a broken one stays so). The masked failure of `uber_send` is in `ResponseSent`:
`connected` is not claimed to be right after the zero, only after the image.

`Implementation` goes through the steps of `Exchanges`: a piece received, a zero
sent, an answer thrown away are steps the pool does not see; a connection that
breaks while a response is sent is a `Break` of the peer; a query found is
`QuReceive`, because then all of it has arrived; a write through null is
`QuReceiveBroken`, because then the connection ended before the first delimiter
or the buffer is full without it. It needs that the socket to the actuator is open while
the handler awaits the answer (`Prepared`), and that a crash in the reply handler is
not taken for one of the query handler's (`ScanResult`, with `OneSided`: one of the two
has nothing to do).

`Scanner_proofs` cannot use induction over the text, and does not need it, since the
scanner is called for the first pair each time. `CrashIs` says, for any text, that it
computes from null exactly if a closing tag comes before every opening one, and
`ScanKept` that this, and nothing else, ends the reply handler. The rest is about
well-formed text. `FirstPairIs` finds the
first pair of tags by its least place; `ScanOnce` says
what the scanner returns and leaves there; `RestIs` that what it leaves is well-formed
again and holds the same numbers but the first, so that `ScansText` can use
`ScanOnce` twice. On the side of the exchange, `TagIsCut` says that what was received is
a prefix of what the generator sent, and `PairedCut` that a prefix of a well-formed
text is well-formed: `Paired` demands nothing of a pair that the end of the text cuts.

### The process

None of `RightHandler`, `SurvivesFailedCalls`, `NoImageLost` is inductive.
`StartedInOrder` ties `stage` to what has been set up: no thread runs before the mask
and the hooks, each inherits the mask, a thread still to be created does not run, only
a running producer listens. `ServedByPool` says whom a thread may have in hand, and
that who is in service is in some hand; `OneAtProducer` that a producer that runs has
one call at a time. `FewHeld` bounds what holds descriptors for long: an exchange for
each query thread, `2 * DosLimit + 2` replies that were tested and not yet closed,
`MaxFailures` leaked. The middle one is the hard one (`BeforeAdmission`): when a reply
is admitted each queue holds at most `DosLimit`, the one thread serves one, and none
other is between the test and the queue; waiting for the threshold only moves replies
between what is counted. `RoomAlways` is then a sum (`Room`): who holds a descriptor is
a client, a tested reply, or the one reply still to be tested. `ImagesKept` follows the
file of the reply in service from its creation, which finds room, to the end of the
image. `RightHandler` also needs that `StartOrder` has the hooks before every thread
(`Order`), for any sequences of threads. `SurvivesFailedCalls` says nothing of what a
peer sends: the crashes of findings 4 and 5 are steps of `Process` too (`QuCutShort`,
`IgTagsClosed`), which lead to the end "crashed".

### What stays with TLC

Liveness (`EveryRequestTaken`, everything in `delivery`, `EveryExchangeEnds`,
`PortsServed`, `EveryCallAccepted`, `QuitEnds`): fairness and ENABLED are outside
what the prover handles. What the proofs of safety contribute to it: that no thread
is stuck at a mutex (`NoCircularWait`), at an empty queue (`NoLostWakeup`,
`LoopNeverWaits`) or for want of a descriptor (`TableHasRoom`). Findings 1 to 4 are
counterexamples, which TLC finds.

## 6. Not modelled

* `IAimaging` and the two drafts of it: image processing, switched off by
  `enable_collage`. Switched on (lines 378-427), a collage that fails
  would skip both the `close` and the `qAdd` of its query, and lose it.
* The loop over the request IDs of a reply (lines 328-341), switched off by
  `enable_rules`; the scanner it calls is modelled, called twice.
* `xml_recv_image`, which nothing calls, and `xml_getTagContent_C_string`, which
  only the collage calls.
* The default constructor of `ImageAggregator` and the `IAThreadPool` constructor
  with a default size, which `main` does not use.
* What is printed, and destructors, which never run.
* Memory as a resource that runs out, and with it the request that is allocated for
  every accepted reply (line 131) and not deleted when the reply is refused (140-145).
* A peer that stays connected and does not read, on which a send blocks for ever.
  Fairness (section 3) leaves it out, and only liveness depends on that.

## 7. Plan

Done, in this order: `FifoQueue`, `RequestQueue` and its proofs, `Pools`,
`QueryPool`, `ReplyPool`, `ImageAggregator`; `Messages`, `Networking`,
`Exchanges`; `Process`; the proofs about the pools, the pending queries, the
process, the exchanges, their refinement and the tag scanner.

What a change of the code would call for first:

1. with `enable_rules` set, the walk of `IgWalk` would answer a query only with
   replies that name its ID, so that `UniqueIDs` would matter to clients, and
   `Exchanges` would call the scanner in a loop;
2. with `enable_collage` set, `IgSendImage` would need the branch in which a query
   is neither closed nor put back, and `EveryConnectionOwned` would fail there;
3. a round that ends (finding 2) would let `delivery` have two clients.
