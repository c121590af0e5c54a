---------------------------- MODULE Process_proofs ----------------------------
(***************************************************************************)
(* Theorems about Process, for any numbers of callers and of query         *)
(* threads, any limits and any sizes of the descriptor table.              *)
(*                                                                         *)
(* The inductive invariant IndInv is proved in layers: the types, what the *)
(* order of the start gives each thread, whom each thread serves, and how  *)
(* many descriptors there are.                                             *)
(***************************************************************************)
EXTENDS Process, Counting, FiniteSetTheorems, SequenceTheorems, TLAPS

-----------------------------------------------------------------------------
(* The order of the start.                                                 *)

\* A sequence of names from E, each there once.
Names(s, E) ==
  /\ \A k \in DOMAIN s : s[k] \in E
  /\ \A j, k \in DOMAIN s : s[j] = s[k] => j = k

LEMMA OneName == ASSUME NEW e PROVE Len(<<e>>) = 1 /\ Names(<<e>>, {e})
<1>1. DOMAIN <<e>> = {1} /\ <<e>>[1] = e /\ Len(<<e>>) = 1
  OBVIOUS
<1>2. QED
  BY <1>1 DEF Names

LEMMA NamesTogether ==
  ASSUME NEW X, NEW s \in Seq(X), NEW u \in Seq(X), NEW E, NEW F, E \cap F = {},
         Names(s, E), Names(u, F)
  PROVE  /\ s \o u \in Seq(X) /\ Len(s \o u) = Len(s) + Len(u)
         /\ Names(s \o u, E \cup F)
         /\ \A k \in DOMAIN s : k \in DOMAIN (s \o u) /\ (s \o u)[k] = s[k]
<1> DEFINE m == Len(s)
           n == Len(u)
           w == s \o u
<1>1. /\ m \in Nat /\ n \in Nat /\ DOMAIN s = 1..m /\ DOMAIN u = 1..n
      /\ w \in Seq(X) /\ Len(w) = m + n /\ DOMAIN w = 1..(m + n)
      /\ \A k \in 1..(m + n) : w[k] = IF k <= m THEN s[k] ELSE u[k - m]
  OBVIOUS
<1> HIDE DEF m, n, w
<1>2. \A k \in 1..(m + n) : (k <= m => k \in 1..m) /\ (k > m => k - m \in 1..n)
  BY <1>1
<1>3. ASSUME NEW j \in 1..(m + n), NEW k \in 1..(m + n) PROVE w[j] \in E \cup F /\ (w[j] = w[k] => j = k)
  <2>1. CASE j <= m /\ k <= m
    BY <1>1, <1>2, <2>1 DEF Names
  <2>2. CASE j <= m /\ k > m
    <3>1. w[j] = s[j] /\ j \in 1..m /\ w[k] = u[k - m] /\ k - m \in 1..n
      BY <1>1, <1>2, <2>2
    <3>2. w[j] \in E /\ w[k] \in F
      BY <1>1, <3>1 DEF Names
    <3>3. QED
      BY <2>2, <3>2
  <2>3. CASE j > m /\ k <= m
    <3>1. w[k] = s[k] /\ k \in 1..m /\ w[j] = u[j - m] /\ j - m \in 1..n
      BY <1>1, <1>2, <2>3
    <3>2. w[j] \in F /\ w[k] \in E
      BY <1>1, <3>1 DEF Names
    <3>3. QED
      BY <2>3, <3>2
  <2>4. CASE j > m /\ k > m
    <3>1. w[j] = u[j - m] /\ w[k] = u[k - m] /\ j - m \in 1..n /\ k - m \in 1..n
      BY <1>1, <1>2, <2>4
    <3>2. w[j] \in F /\ (w[j] = w[k] => j - m = k - m)
      BY <1>1, <3>1 DEF Names
    <3>3. QED
      BY <1>1, <3>2
  <2>5. QED
    BY <1>1, <2>1, <2>2, <2>3, <2>4
<1>4. Names(w, E \cup F)
  BY <1>1, <1>3 DEF Names
<1>5. \A k \in DOMAIN s : k \in DOMAIN w /\ w[k] = s[k]
  BY <1>1
<1>6. QED
  BY <1>1, <1>4, <1>5 DEF m, n, w

Early(s) == {1, 2, 3} \subseteq DOMAIN s /\ s[1] = "arguments" /\ s[2] = "mask" /\ s[3] = "hook"

\* The three first steps come before any thread is created, and each thread is
\* created once.
LEMMA Order ==
  /\ Len(StartOrder) \in Nat /\ Len(StartOrder) > 3 /\ DOMAIN StartOrder = 1..Len(StartOrder)
  /\ Early(StartOrder)
  /\ \A j, k \in DOMAIN StartOrder : StartOrder[j] = StartOrder[k] => j = k
<1> DEFINE X == {"arguments", "mask", "hook", "query producer", "reply producer"}
                  \cup Range(QuThreads) \cup Range(IgThreads)
           E0 == {"arguments", "mask", "hook"}
           Eq == {"query producer"}
           Er == {"reply producer"}
           E2 == Range(QuThreads)
           E4 == Range(IgThreads)
           s0 == <<"arguments", "mask", "hook">>
           q == <<"query producer">>
           r == <<"reply producer">>
           s1 == s0 \o q
           s2 == s1 \o QuThreads
           s3 == s2 \o r
           s4 == s3 \o IgThreads
<1>1. QuThreads \in Seq(X) /\ IgThreads \in Seq(X)
  <2>1. \A S, T : S \subseteq T => Seq(S) \subseteq Seq(T)
    OBVIOUS
  <2>2. Range(QuThreads) \subseteq X /\ Range(IgThreads) \subseteq X
    OBVIOUS
  <2>3. QED
    BY <2>1, <2>2, ProcessAssumption
<1>2. StartOrder = s4
  BY DEF StartOrder, Starting
<1>3. s0 \in Seq(X) /\ Len(s0) = 3 /\ Early(s0) /\ Names(s0, E0)
  BY DEF Early, Names
<1>4. q \in Seq(X) /\ Len(q) = 1 /\ Names(q, Eq)
  <2>1. q \in Seq(X)
    OBVIOUS
  <2>2. QED
    BY <2>1, OneName
<1>5. r \in Seq(X) /\ Len(r) = 1 /\ Names(r, Er)
  <2>1. r \in Seq(X)
    OBVIOUS
  <2>2. QED
    BY <2>1, OneName
<1> HIDE DEF X
<1>6. Len(QuThreads) \in Nat /\ Names(QuThreads, E2)
  <2>1. Len(QuThreads) \in Nat
    BY <1>1
  <2>2. Names(QuThreads, E2)
    BY ProcessAssumption DEF Names, Range, IsInjective
  <2>3. QED
    BY <2>1, <2>2
<1>7. Len(IgThreads) = 1 /\ Names(IgThreads, E4)
  <2>1. DOMAIN IgThreads = {1}
    <3>1. Len(IgThreads) = 1
      BY ProcessAssumption
    <3>2. DOMAIN IgThreads = 1..1
      BY <1>1, <3>1
    <3>3. QED
      BY <3>2
  <2>2. Names(IgThreads, E4)
    BY <2>1 DEF Names, Range
  <2>3. QED
    BY <2>2, ProcessAssumption
<1>8. /\ E0 \cap Eq = {} /\ (E0 \cup Eq) \cap E2 = {}
      /\ (E0 \cup Eq \cup E2) \cap Er = {} /\ (E0 \cup Eq \cup E2 \cup Er) \cap E4 = {}
  BY ProcessAssumption
<1> HIDE DEF s0, q, r, E0, Eq, Er, E2, E4
<1>9. s1 \in Seq(X) /\ Len(s1) = 4 /\ Names(s1, E0 \cup Eq) /\ Early(s1)
  <2>1. /\ s1 \in Seq(X) /\ Len(s1) = Len(s0) + Len(q) /\ Names(s1, E0 \cup Eq)
        /\ \A k \in DOMAIN s0 : k \in DOMAIN s1 /\ s1[k] = s0[k]
    <3>1. s0 \in Seq(X) /\ q \in Seq(X) /\ E0 \cap Eq = {} /\ Names(s0, E0) /\ Names(q, Eq)
      BY <1>3, <1>4, <1>8
    <3>2. QED
      BY <3>1, NamesTogether
  <2>2. QED
    BY <1>3, <1>4, <2>1 DEF Early
<1> HIDE DEF s1
<1>10. /\ s2 \in Seq(X) /\ Len(s2) \in Nat /\ Len(s2) >= 4 /\ Early(s2)
       /\ Names(s2, E0 \cup Eq \cup E2)
  <2>1. /\ s2 \in Seq(X) /\ Len(s2) = Len(s1) + Len(QuThreads) /\ Names(s2, E0 \cup Eq \cup E2)
        /\ \A k \in DOMAIN s1 : k \in DOMAIN s2 /\ s2[k] = s1[k]
    <3>1. /\ s1 \in Seq(X) /\ QuThreads \in Seq(X) /\ (E0 \cup Eq) \cap E2 = {}
          /\ Names(s1, E0 \cup Eq) /\ Names(QuThreads, E2)
      BY <1>1, <1>6, <1>8, <1>9
    <3>2. QED
      BY <3>1, NamesTogether
  <2>2. QED
    BY <1>6, <1>9, <2>1 DEF Early
<1> HIDE DEF s2
<1>11. /\ s3 \in Seq(X) /\ Len(s3) \in Nat /\ Len(s3) >= 4 /\ Early(s3)
       /\ Names(s3, E0 \cup Eq \cup E2 \cup Er)
  <2>1. /\ s3 \in Seq(X) /\ Len(s3) = Len(s2) + Len(r) /\ Names(s3, E0 \cup Eq \cup E2 \cup Er)
        /\ \A k \in DOMAIN s2 : k \in DOMAIN s3 /\ s3[k] = s2[k]
    <3>1. /\ s2 \in Seq(X) /\ r \in Seq(X) /\ (E0 \cup Eq \cup E2) \cap Er = {}
          /\ Names(s2, E0 \cup Eq \cup E2) /\ Names(r, Er)
      BY <1>5, <1>8, <1>10
    <3>2. QED
      BY <3>1, NamesTogether
  <2>2. QED
    BY <1>5, <1>10, <2>1 DEF Early
<1> HIDE DEF s3
<1>12. /\ s4 \in Seq(X) /\ Len(s4) \in Nat /\ Len(s4) >= 4 /\ Early(s4)
       /\ Names(s4, E0 \cup Eq \cup E2 \cup Er \cup E4)
  <2>1. /\ s4 \in Seq(X) /\ Len(s4) = Len(s3) + Len(IgThreads) /\ Names(s4, E0 \cup Eq \cup E2 \cup Er \cup E4)
        /\ \A k \in DOMAIN s3 : k \in DOMAIN s4 /\ s4[k] = s3[k]
    <3>1. /\ s3 \in Seq(X) /\ IgThreads \in Seq(X) /\ (E0 \cup Eq \cup E2 \cup Er) \cap E4 = {}
          /\ Names(s3, E0 \cup Eq \cup E2 \cup Er) /\ Names(IgThreads, E4)
      BY <1>1, <1>7, <1>8, <1>11
    <3>2. QED
      BY <3>1, NamesTogether
  <2>2. QED
    BY <1>7, <1>11, <2>1 DEF Early
<1> HIDE DEF s4
<1>13. QED
  BY <1>2, <1>12 DEF Names

LEMMA ThreadNames ==
  ASSUME NEW t \in Threads
  PROVE  t \notin {"arguments", "mask", "hook"}
BY ProcessAssumption DEF Threads, Consumers, ProducerOf, Pools

LEMMA Producers == \A p \in Pools : ProducerOf(p) \in Threads /\ p \in {"query", "reply"}
BY DEF Threads, Pools

LEMMA PoolNames ==
  /\ Pools = {"query", "reply"}
  /\ \A who \in Clients : PoolOf(who) = "query"
  /\ \A who \in Generators : PoolOf(who) = "reply"
  /\ ConsumersOf("query") = Range(QuThreads) /\ ConsumersOf("reply") = Range(IgThreads)
  /\ HandlerOf("query") = "qu_pool_handle"
  /\ hooked => HandlerOf("reply") = "ig_pool_handle"
BY ProcessAssumption DEF Pools, PoolOf, ConsumersOf, HandlerOf

-----------------------------------------------------------------------------
(* Two kinds of steps: the main thread's, and those of the pools and their *)
(* callers.                                                                *)

\* What a peer sends, or does not send, ends the process.
Crash(t) == QuCutShort(t) \/ IgTagsClosed(t)

PoolStep ==
  \/ \E p \in Pools : Listen(p)
  \/ \E who \in Callers : Accept(who) \/ Admit(who) \/ Enqueue(who) \/ AcceptFails(who) \/ Call(who)
  \/ \E t \in Consumers, who \in Callers : Take(t, who)
  \/ \E t \in Consumers : QuConnect(t) \/ QuExchanged(t) \/ IgReceived(t)
  \/ \E t \in Consumers : Crash(t)
  \/ \E t \in Consumers, client \in Clients : IgRespond(t, client)
  \/ \E client \in Clients : Leave(client)

LEMMA Steps == Next <=> MainStep \/ Printed \/ PoolStep
BY DEF Next, PoolStep, Crash

LEMMA CrashFrame ==
  ASSUME NEW t \in Consumers, Crash(t)
  PROVE  process' = "crashed" /\ process = "up" /\ UNCHANGED <<mainVars, poolVars, limit>>
BY DEF Crash, QuCutShort, IgTagsClosed, Answering, Serves

LEMMA MainFrame ==
  ASSUME MainStep \/ Printed
  PROVE  process = "up" /\ UNCHANGED <<poolVars, limit>>
BY DEF MainStep, Printed, ReadArguments, MaskPipe, HookPools, CreateThread, Start, Console

LEMMA PoolFrame ==
  ASSUME PoolStep
  PROVE  process = "up" /\ UNCHANGED <<mainVars, limit>>
<1>1. CASE \E t \in Consumers : Crash(t)
  BY <1>1, CrashFrame
<1>2. QED
  BY <1>1 DEF PoolStep, Listen, Accepting, Accept, Admit, Enqueue, AcceptFails, Call, Take,
     QuConnect, QuExchanged, IgReceived, IgRespond, Answering, Leave, Serves, mainVars

-----------------------------------------------------------------------------
(* The main thread.                                                        *)

Started ==
  /\ process \in {"up", "exited", "died", "killed", "crashed"}
  /\ stage \in 1..(Len(StartOrder) + 1)
  /\ masked \in BOOLEAN /\ hooked \in BOOLEAN
  /\ thread \in [Threads -> {"none", "running", "failed"}]
  /\ shielded \subseteq Threads
  /\ process = "up" /\ stage > 2 => masked
  /\ stage > 3 => hooked
  /\ \A t \in Threads : thread[t] = "running" => hooked /\ t \in shielded
  /\ \A k \in DOMAIN StartOrder : k >= stage /\ StartOrder[k] \in Threads =>
       thread[StartOrder[k]] = "none"

\* A thread is created after the third step of the start.
LEMMA CreatedLate ==
  ASSUME Started, NEW t \in Threads, CreateThread(t)
  PROVE  /\ masked /\ hooked /\ stage' > 4 /\ stage' \in 1..(Len(StartOrder) + 1)
         /\ thread[t] = "none"
         /\ \A k \in DOMAIN StartOrder : k >= stage' => k >= stage /\ StartOrder[k] # t
<1>1. stage \in 1..Len(StartOrder) /\ StartOrder[stage] = t /\ process = "up" /\ stage' = stage + 1
  BY Order DEF CreateThread, Start
<1>2. stage # 1 /\ stage # 2 /\ stage # 3
  BY <1>1, Order, ThreadNames DEF Early
<1>3. stage \in Nat /\ stage > 3 /\ stage <= Len(StartOrder) /\ Len(StartOrder) \in Nat
  BY <1>1, <1>2, Order
<1>4. thread[t] = "none"
  BY <1>1, <1>3, Order DEF Started
<1>5. \A k \in DOMAIN StartOrder : k >= stage' => k >= stage /\ k # stage
  BY <1>1, <1>3, Order
<1>6. \A k \in DOMAIN StartOrder : k >= stage' => k >= stage /\ StartOrder[k] # t
  BY <1>1, <1>5, Order
<1>7. QED
  BY <1>1, <1>3, <1>4, <1>6 DEF Started

LEMMA StartedMain == ASSUME Started, MainStep PROVE Started'
<1> USE Order DEF Started, Early, Start
<1>1. CASE ReadArguments
  <2>1. stage # 2 /\ stage # 3
    BY <1>1 DEF ReadArguments
  <2>2. QED
    BY <1>1, <2>1 DEF ReadArguments
<1>2. CASE MaskPipe
  <2>1. stage # 3
    BY <1>2 DEF MaskPipe
  <2>2. stage' \in 1..(Len(StartOrder) + 1) /\ (stage' > 3 => stage > 3)
    BY <1>2, <2>1 DEF MaskPipe
  <2>3. process' \in {"up", "exited"} /\ masked' \in BOOLEAN /\ (process' = "up" => masked')
    BY <1>2 DEF MaskPipe
  <2>4. UNCHANGED <<hooked, thread, shielded>>
    BY <1>2 DEF MaskPipe
  <2>5. \A k \in DOMAIN StartOrder : k >= stage' => k >= stage
    BY <1>2 DEF MaskPipe
  <2>6. QED
    BY <2>2, <2>3, <2>4, <2>5
<1>3. CASE HookPools
  BY <1>3 DEF HookPools
<1>4. CASE Console
  BY <1>4 DEF Console
<1>5. ASSUME NEW t \in Threads, CreateThread(t) PROVE Started'
  <2>1. masked /\ hooked /\ stage' > 4 /\ stage' \in 1..(Len(StartOrder) + 1)
    BY <1>5, CreatedLate
  <2>2. QED
    BY <1>5, <2>1, SMTT(30) DEF CreateThread
<1>6. QED
  BY <1>1, <1>2, <1>3, <1>4, <1>5 DEF MainStep

LEMMA StartedStep == ASSUME Started, [Next]_vars PROVE Started'
<1>1. CASE UNCHANGED vars
  BY <1>1 DEF vars, mainVars, Started
<1>2. CASE Printed
  BY <1>2 DEF Printed, Started
<1>3. CASE PoolStep
  <2>1. process' \in {"up", "exited", "died", "killed", "crashed"}
    <3>1. CASE \E t \in Consumers : Crash(t)
      BY <3>1, CrashFrame
    <3>2. QED
      BY <1>3, <3>1 DEF Started, PoolStep, Listen, Died, Accept, Admit, Enqueue, AcceptFails,
         AcceptFailed, Call, Take, QuConnect, QuExchanged, IgReceived, IgRespond, Leave
  <2>2. QED
    BY <1>3, <2>1, PoolFrame DEF Started, mainVars
<1>4. QED
  BY <1>1, <1>2, <1>3, StartedMain, Steps

\* A thread that runs does so until the process ends.
LEMMA RunsOn ==
  ASSUME Started, [Next]_vars
  PROVE  \A t \in Threads : thread[t] = "running" => thread'[t] = "running"
<1>1. ASSUME NEW t \in Threads, CreateThread(t)
      PROVE  \A u \in Threads : thread[u] = "running" => thread'[u] = "running"
  BY <1>1, CreatedLate DEF CreateThread, Started
<1>2. CASE UNCHANGED thread
  BY <1>2
<1>3. CASE MainStep \/ Printed
  BY <1>1, <1>2, <1>3 DEF MainStep, ReadArguments, MaskPipe, HookPools, Console, Printed
<1>4. QED
  BY <1>2, <1>3, Steps, PoolFrame DEF vars, mainVars

-----------------------------------------------------------------------------
(* Whom each thread serves.                                                *)

InService == {"served", "answering"}
Name(who) == IF who \in Clients THEN "qu_pool_handle" ELSE "ig_pool_handle"

CallTypes ==
  /\ call \in [Callers -> Connected \cup {"away", "calling"}]
  /\ \A g \in Generators : call[g] \notin {"pending", "left"}

HandTypes ==
  /\ hand \in [Consumers -> Callers \cup {NULL}]
  /\ handler \in [Consumers -> {NULL, "qu_pool_handle", "ig_pool_handle"}]
  /\ exchange \subseteq {t \in Consumers : hand[t] # NULL}
  /\ exchange \subseteq Range(QuThreads)

Serving ==
  /\ \A t \in Consumers : hand[t] # NULL =>
       /\ call[hand[t]] \in InService /\ thread[t] = "running"
       /\ t \in ConsumersOf(PoolOf(hand[t])) /\ handler[t] = Name(hand[t])
  /\ \A t, u \in Consumers : t # u /\ hand[t] # NULL => hand[t] # hand[u]
  /\ \A who \in Callers : call[who] \in InService => \E t \in Consumers : hand[t] = who

LEMMA CallTyped ==
  ASSUME CallTypes, NEW who \in Callers, NEW to \in Connected \cup {"away", "calling"},
         to \in {"pending", "left"} => who \in Clients, call' = [call EXCEPT ![who] = to]
  PROVE  CallTypes'
<1>1. call' \in [Callers -> Connected \cup {"away", "calling"}]
  BY DEF CallTypes
<1>2. \A x \in Callers : call'[x] = IF x = who THEN to ELSE call[x]
  BY DEF CallTypes
<1>3. \A g \in Generators : g \in Callers /\ g \notin Clients
  BY ProcessAssumption DEF Callers
<1>4. \A g \in Generators : call'[g] \notin {"pending", "left"}
  <2>1. ASSUME NEW g \in Generators PROVE call'[g] \notin {"pending", "left"}
    <3>1. CASE g = who
      BY <1>2, <1>3, <3>1
    <3>2. CASE g # who
      BY <1>2, <1>3, <3>2 DEF CallTypes
    <3>3. QED
      BY <3>1, <3>2
  <2>2. QED
    BY <2>1
<1>5. QED
  BY <1>1, <1>4 DEF CallTypes

\* A step of a consumer that serves finds the caller its handler is for.
LEMMA WhoIsServed ==
  ASSUME HandTypes, Serving, NEW t \in Consumers, NEW how, Serves(t, how)
  PROVE  /\ hand[t] \in Callers /\ hand[t] # NULL /\ call[hand[t]] \in InService
         /\ how = "qu_pool_handle" => hand[t] \in Clients /\ t \in Range(QuThreads)
         /\ how = "ig_pool_handle" => hand[t] \in Generators /\ t \in Range(IgThreads)
<1>1. hand[t] \in Callers /\ hand[t] # NULL /\ handler[t] = how
  BY DEF HandTypes, Serves
<1>2. call[hand[t]] \in InService /\ t \in ConsumersOf(PoolOf(hand[t])) /\ handler[t] = Name(hand[t])
  BY <1>1 DEF Serving
<1>3. how = Name(hand[t]) /\ (hand[t] \in Clients \/ hand[t] \in Generators)
  BY <1>1, <1>2 DEF Callers
<1>4. QED
  BY <1>1, <1>2, <1>3, PoolNames DEF Name

\* A step that moves calls neither into service nor out of it.
LEMMA ServingFrame ==
  ASSUME Serving, HandTypes, UNCHANGED <<hand, handler, thread>>,
         \A who \in Callers : call'[who] \in InService <=> call[who] \in InService
  PROVE  Serving'
<1>1. \A t \in Consumers : hand[t] # NULL => hand[t] \in Callers
  BY DEF HandTypes
<1>2. QED
  BY <1>1 DEF Serving, Name, PoolOf, ConsumersOf

LEMMA ServingTake ==
  ASSUME Serving, HandTypes, CallTypes, Started, NEW t \in Consumers, NEW who \in Callers,
         Take(t, who)
  PROVE  Serving' /\ HandTypes' /\ CallTypes'
<1>1. /\ call[who] = "queued" /\ call' = [call EXCEPT ![who] = "served"]
      /\ hand[t] = NULL /\ hand' = [hand EXCEPT ![t] = who]
      /\ handler' = [handler EXCEPT ![t] = HandlerOf(PoolOf(who))]
      /\ thread[t] = "running" /\ t \in ConsumersOf(PoolOf(who))
      /\ UNCHANGED <<thread, exchange>>
  BY DEF Take, Removed, mainVars
<1>2. HandlerOf(PoolOf(who)) = Name(who) /\ who # NULL
  <2>1. hooked
    BY <1>1 DEF Started, Threads
  <2>2. QED
    BY <2>1, PoolNames, ProcessAssumption DEF Callers, Name
<1>3. CallTypes'
  BY <1>1 DEF CallTypes, Connected
<1>4. HandTypes'
  BY <1>1, <1>2 DEF HandTypes, Name
<1>5. \A u \in Consumers : hand[u] # who
  BY <1>1, <1>2 DEF Serving, InService
<1>6. /\ \A u \in Consumers : hand'[u] = IF u = t THEN who ELSE hand[u]
      /\ \A u \in Consumers : handler'[u] = IF u = t THEN Name(who) ELSE handler[u]
      /\ \A x \in Callers : call'[x] = IF x = who THEN "served" ELSE call[x]
      /\ \A u \in Consumers : hand[u] # NULL => hand[u] \in Callers
  BY <1>1, <1>2 DEF HandTypes, CallTypes
<1>7. ASSUME NEW u \in Consumers, hand'[u] # NULL
      PROVE  /\ call'[hand'[u]] \in InService /\ thread'[u] = "running"
             /\ u \in ConsumersOf(PoolOf(hand'[u])) /\ handler'[u] = Name(hand'[u])
  <2>1. CASE u = t
    BY <1>1, <1>6, <2>1 DEF InService
  <2>2. CASE u # t
    BY <1>1, <1>5, <1>6, <1>7, <2>2 DEF Serving
  <2>3. QED
    BY <2>1, <2>2
<1>8. \A u, v \in Consumers : u # v /\ hand'[u] # NULL => hand'[u] # hand'[v]
  BY <1>2, <1>5, <1>6 DEF Serving
<1>9. \A x \in Callers : call'[x] \in InService => \E u \in Consumers : hand'[u] = x
  <2>1. ASSUME NEW x \in Callers, call'[x] \in InService PROVE \E u \in Consumers : hand'[u] = x
    <3>1. CASE x = who
      BY <1>6, <3>1
    <3>2. CASE x # who
      <4>1. PICK u \in Consumers : hand[u] = x
        BY <1>6, <2>1, <3>2 DEF Serving
      <4>2. u # t
        BY <1>1, <4>1, ProcessAssumption DEF Callers
      <4>3. QED
        BY <1>6, <4>1, <4>2
    <3>3. QED
      BY <3>1, <3>2
  <2>2. QED
    BY <2>1
<1>10. Serving'
  BY <1>7, <1>8, <1>9 DEF Serving, InService, Name, PoolOf, ConsumersOf
<1>11. QED
  BY <1>3, <1>4, <1>10

\* A step that takes from a thread whom it serves.
LEMMA ServingRelease ==
  ASSUME Serving, HandTypes, CallTypes, CallTypes', NEW t \in Consumers, hand[t] # NULL,
         hand' = [hand EXCEPT ![t] = NULL], UNCHANGED <<handler, thread>>,
         call'[hand[t]] \notin InService,
         \A who \in Callers \ {hand[t]} : call'[who] \in InService <=> call[who] \in InService
  PROVE  Serving'
<1>1. /\ \A u \in Consumers : hand'[u] = IF u = t THEN NULL ELSE hand[u]
      /\ \A u \in Consumers : hand[u] # NULL => hand[u] \in Callers
  BY DEF HandTypes
<1>2. \A u \in Consumers : u # t /\ hand[u] # NULL => hand[u] # hand[t]
  BY DEF Serving
<1>3. ASSUME NEW u \in Consumers, hand'[u] # NULL
      PROVE  /\ call'[hand'[u]] \in InService /\ thread'[u] = "running"
             /\ u \in ConsumersOf(PoolOf(hand'[u])) /\ handler'[u] = Name(hand'[u])
  BY <1>1, <1>2, <1>3 DEF Serving
<1>4. \A u, v \in Consumers : u # v /\ hand'[u] # NULL => hand'[u] # hand'[v]
  BY <1>1 DEF Serving
<1>5. \A who \in Callers : call'[who] \in InService => \E u \in Consumers : hand'[u] = who
  <2>1. ASSUME NEW who \in Callers, call'[who] \in InService PROVE \E u \in Consumers : hand'[u] = who
    <3>1. who # hand[t] /\ call[who] \in InService
      BY <2>1
    <3>2. PICK u \in Consumers : hand[u] = who
      BY <3>1 DEF Serving
    <3>3. QED
      BY <1>1, <3>1, <3>2
  <2>2. QED
    BY <2>1
<1>6. QED
  BY <1>3, <1>4, <1>5 DEF Serving, InService, Name, PoolOf, ConsumersOf

\* Where the call of one caller goes, when it neither enters nor leaves service.
LEMMA CallMoves ==
  ASSUME Serving, HandTypes, CallTypes, NEW who \in Callers,
         NEW to \in {"away", "calling", "accepted", "admitted", "queued", "pending", "left"},
         call[who] \notin InService, call' = [call EXCEPT ![who] = to],
         to \in {"pending", "left"} => who \in Clients,
         UNCHANGED <<hand, handler, thread, exchange>>
  PROVE  Serving' /\ HandTypes' /\ CallTypes'
<1>1. CallTypes'
  <2>1. to \in Connected \cup {"away", "calling"}
    BY DEF Connected, AtProducer
  <2>2. QED
    BY <2>1, CallTyped
<1>2. HandTypes'
  BY DEF HandTypes
<1>3. \A x \in Callers : call'[x] \in InService <=> call[x] \in InService
  BY DEF CallTypes, InService
<1>4. QED
  BY <1>1, <1>2, <1>3, ServingFrame

LEMMA ServingConnect ==
  ASSUME Serving, HandTypes, CallTypes, NEW t \in Consumers, QuConnect(t)
  PROVE  Serving' /\ HandTypes' /\ CallTypes'
<1>1. /\ hand[t] \in Clients /\ hand[t] # NULL /\ t \in Range(QuThreads) /\ hand[t] \in Callers
      /\ call[hand[t]] \in InService
  BY WhoIsServed DEF QuConnect
<1>2. t \notin exchange /\ UNCHANGED <<handler, thread>>
  BY DEF QuConnect, mainVars
<1>3. CASE Full
  <2>1. /\ call' = [call EXCEPT ![hand[t]] = "pending"] /\ hand' = [hand EXCEPT ![t] = NULL]
        /\ UNCHANGED exchange
    BY <1>3 DEF QuConnect
  <2>2. CallTypes'
    <3>1. "pending" \in Connected \cup {"away", "calling"}
      BY DEF Connected
    <3>2. QED
      BY <1>1, <2>1, <3>1, CallTyped
  <2>3. HandTypes'
    BY <1>2, <2>1 DEF HandTypes
  <2>4. /\ call'[hand[t]] \notin InService
        /\ \A x \in Callers \ {hand[t]} : call'[x] \in InService <=> call[x] \in InService
    BY <1>1, <2>1 DEF CallTypes, InService
  <2>5. QED
    BY <1>1, <1>2, <2>1, <2>2, <2>3, <2>4, ServingRelease
<1>4. CASE ~Full
  <2>1. exchange' = exchange \cup {t} /\ UNCHANGED <<call, hand>>
    BY <1>4 DEF QuConnect
  <2>2. HandTypes' /\ CallTypes'
    BY <1>1, <1>2, <2>1 DEF HandTypes, CallTypes
  <2>3. QED
    BY <1>2, <2>1, <2>2, ServingFrame
<1>5. QED
  BY <1>3, <1>4

LEMMA ServingExchanged ==
  ASSUME Serving, HandTypes, CallTypes, NEW t \in Consumers, QuExchanged(t)
  PROVE  Serving' /\ HandTypes' /\ CallTypes'
<1>1. /\ hand[t] \in Clients /\ hand[t] # NULL /\ hand[t] \in Callers /\ call[hand[t]] \in InService
  BY WhoIsServed DEF QuExchanged
<1>2. /\ call' = [call EXCEPT ![hand[t]] = "pending"] /\ hand' = [hand EXCEPT ![t] = NULL]
      /\ exchange' = exchange \ {t} /\ UNCHANGED <<handler, thread>>
  BY DEF QuExchanged, mainVars
<1>3. CallTypes'
  <2>1. "pending" \in Connected \cup {"away", "calling"}
    BY DEF Connected
  <2>2. QED
    BY <1>1, <1>2, <2>1, CallTyped
<1>4. HandTypes'
  BY <1>2 DEF HandTypes
<1>5. /\ call'[hand[t]] \notin InService
      /\ \A x \in Callers \ {hand[t]} : call'[x] \in InService <=> call[x] \in InService
  BY <1>1, <1>2 DEF CallTypes, InService
<1>6. QED
  BY <1>1, <1>2, <1>3, <1>4, <1>5, ServingRelease

LEMMA ServingReceived ==
  ASSUME Serving, HandTypes, CallTypes, NEW t \in Consumers, IgReceived(t)
  PROVE  Serving' /\ HandTypes' /\ CallTypes'
<1>1. /\ call[hand[t]] = "served" /\ hand[t] \in Callers /\ hand[t] # NULL
      /\ t \in Range(IgThreads) /\ UNCHANGED <<handler, thread, exchange>>
  BY WhoIsServed DEF IgReceived, mainVars
<1>2. CASE RoundDue(Cardinality(Calls("waiting")) + 1)
  <2>1. call' = [call EXCEPT ![hand[t]] = "answering"] /\ UNCHANGED hand
    BY <1>2 DEF IgReceived
  <2>2. HandTypes'
    BY <1>1, <2>1 DEF HandTypes
  <2>3. CallTypes'
    <3>1. "answering" \in Connected \cup {"away", "calling"}
      BY DEF Connected
    <3>2. QED
      BY <1>1, <2>1, <3>1, CallTyped
  <2>4. \A x \in Callers : call'[x] \in InService <=> call[x] \in InService
    BY <1>1, <2>1 DEF CallTypes, InService
  <2>5. QED
    BY <1>1, <2>1, <2>2, <2>3, <2>4, ServingFrame
<1>3. CASE ~RoundDue(Cardinality(Calls("waiting")) + 1)
  <2>1. call' = [call EXCEPT ![hand[t]] = "waiting"] /\ hand' = [hand EXCEPT ![t] = NULL]
    BY <1>3 DEF IgReceived
  <2>2. HandTypes'
    <3>1. t \notin exchange
      BY <1>1, ProcessAssumption DEF HandTypes
    <3>2. QED
      BY <1>1, <2>1, <3>1 DEF HandTypes
  <2>3. CallTypes'
    <3>1. "waiting" \in Connected \cup {"away", "calling"}
      BY DEF Connected
    <3>2. QED
      BY <1>1, <2>1, <3>1, CallTyped
  <2>4. /\ call'[hand[t]] \notin InService
        /\ \A x \in Callers \ {hand[t]} : call'[x] \in InService <=> call[x] \in InService
    BY <1>1, <2>1 DEF CallTypes, InService
  <2>5. QED
    BY <1>1, <2>1, <2>2, <2>3, <2>4, ServingRelease
<1>4. QED
  BY <1>2, <1>3

\* Where the calls go that a response touches: nowhere but away.
LEMMA Responded ==
  ASSUME Serving, HandTypes, CallTypes, NEW t \in Consumers, NEW client \in Clients,
         IgRespond(t, client)
  PROVE  /\ hand[t] \in Generators /\ hand[t] # NULL /\ hand[t] \in Callers /\ t \in Range(IgThreads)
         /\ call' \in [Callers -> Connected \cup {"away", "calling"}]
         /\ \A x \in Callers : call'[x] = call[x] \/ call'[x] = "away"
         /\ \/ /\ UNCHANGED hand
               /\ \A x \in Callers : call'[x] = call[x] \/ x = client
            \/ /\ hand' = [hand EXCEPT ![t] = NULL] /\ call'[hand[t]] = "away"
               /\ \A x \in Callers :
                    call'[x] = call[x] \/ x \in {client, hand[t]} \/ call[x] = "waiting"
         /\ client \in Callers /\ call[client] \in {"pending", "left"}
<1> DEFINE dropped == [call EXCEPT ![client] = IF @ = "left" THEN "away" ELSE @]
           over == [who \in Callers |->
                      IF call[who] = "waiting" \/ who = hand[t] THEN "away" ELSE dropped[who]]
<1>1. /\ hand[t] \in Generators /\ hand[t] # NULL /\ t \in Range(IgThreads) /\ hand[t] \in Callers
      /\ call[client] \in {"pending", "left"} /\ client \in Callers
  BY WhoIsServed, ProcessAssumption DEF IgRespond, Answering, Pending, Calls, Callers
<1>2. /\ dropped \in [Callers -> Connected \cup {"away", "calling"}]
      /\ \A x \in Callers : dropped[x] = IF x = client /\ call[x] = "left" THEN "away" ELSE call[x]
  BY <1>1 DEF CallTypes
<1>3. \/ call' = dropped /\ UNCHANGED hand
      \/ call' = over /\ hand' = [hand EXCEPT ![t] = NULL]
  BY DEF IgRespond
<1> HIDE DEF dropped
<1>4. CASE call' = dropped /\ UNCHANGED hand
  BY <1>1, <1>2, <1>4
<1>5. CASE call' = over /\ hand' = [hand EXCEPT ![t] = NULL]
  <2>1. over \in [Callers -> Connected \cup {"away", "calling"}]
    BY <1>2
  <2>2. \A x \in Callers : over[x] = IF call[x] = "waiting" \/ x = hand[t] THEN "away" ELSE dropped[x]
    OBVIOUS
  <2> HIDE DEF over
  <2>3. QED
    BY <1>1, <1>2, <1>5, <2>1, <2>2
<1>6. QED
  BY <1>3, <1>4, <1>5

LEMMA ServingRespond ==
  ASSUME Serving, HandTypes, CallTypes, NEW t \in Consumers, NEW client \in Clients,
         IgRespond(t, client)
  PROVE  Serving' /\ HandTypes' /\ CallTypes'
<1>1. /\ hand[t] \in Generators /\ hand[t] # NULL /\ hand[t] \in Callers /\ t \in Range(IgThreads)
      /\ call' \in [Callers -> Connected \cup {"away", "calling"}]
      /\ \A x \in Callers : call'[x] = call[x] \/ call'[x] = "away"
      /\ client \in Callers /\ call[client] \in {"pending", "left"}
  BY Responded
<1>2. \/ /\ UNCHANGED hand
         /\ \A x \in Callers : call'[x] = call[x] \/ x = client
      \/ /\ hand' = [hand EXCEPT ![t] = NULL] /\ call'[hand[t]] = "away"
         /\ \A x \in Callers :
              call'[x] = call[x] \/ x \in {client, hand[t]} \/ call[x] = "waiting"
  BY Responded
<1>3. UNCHANGED <<handler, thread, exchange>> /\ t \notin exchange
  BY <1>1, ProcessAssumption DEF IgRespond, mainVars, HandTypes
<1>4. CallTypes'
  BY <1>1 DEF CallTypes, Callers
<1>5. CASE UNCHANGED hand /\ \A x \in Callers : call'[x] = call[x] \/ x = client
  <2>1. HandTypes'
    BY <1>3, <1>5 DEF HandTypes
  <2>2. \A x \in Callers : call'[x] \in InService <=> call[x] \in InService
    BY <1>1, <1>5 DEF InService
  <2>3. QED
    BY <1>3, <1>4, <1>5, <2>1, <2>2, ServingFrame
<1>6. CASE /\ hand' = [hand EXCEPT ![t] = NULL] /\ call'[hand[t]] = "away"
           /\ \A x \in Callers :
                call'[x] = call[x] \/ x \in {client, hand[t]} \/ call[x] = "waiting"
  <2>1. HandTypes'
    BY <1>1, <1>3, <1>6 DEF HandTypes
  <2>2. /\ call'[hand[t]] \notin InService
        /\ \A x \in Callers \ {hand[t]} : call'[x] \in InService <=> call[x] \in InService
    BY <1>1, <1>6 DEF InService
  <2>3. QED
    BY <1>1, <1>3, <1>4, <1>6, <2>1, <2>2, ServingRelease
<1>7. QED
  BY <1>2, <1>5, <1>6

LEMMA ServingStep ==
  ASSUME Serving, HandTypes, CallTypes, Started, [Next]_vars
  PROVE  Serving' /\ HandTypes' /\ CallTypes'
<1>1. CASE UNCHANGED <<call, hand, handler, exchange, thread>>
  <2>1. CallTypes' /\ HandTypes'
    BY <1>1 DEF CallTypes, HandTypes
  <2>2. QED
    BY <1>1, <2>1, ServingFrame
<1>2. ASSUME NEW t \in Threads, CreateThread(t) PROVE Serving' /\ HandTypes' /\ CallTypes'
  <2>1. UNCHANGED <<call, hand, handler, exchange>>
    BY <1>2 DEF CreateThread, Start, poolVars
  <2>2. \A u \in Threads : thread[u] = "running" => thread'[u] = "running"
    BY <1>2, CreatedLate DEF CreateThread, Started
  <2>3. CallTypes' /\ HandTypes'
    BY <2>1 DEF CallTypes, HandTypes
  <2>4. Serving'
    BY <2>1, <2>2 DEF Serving, Threads, Name, PoolOf, ConsumersOf
  <2>5. QED
    BY <2>3, <2>4
<1>3. CASE MainStep \/ Printed
  BY <1>1, <1>2, <1>3
     DEF MainStep, Printed, ReadArguments, MaskPipe, HookPools, Start, Console, poolVars
<1>4. ASSUME NEW who \in Callers,
             Accept(who) \/ Admit(who) \/ Enqueue(who) \/ AcceptFails(who) \/ Call(who)
      PROVE  Serving' /\ HandTypes' /\ CallTypes'
  <2>1. /\ call[who] \in {"calling", "away", "accepted", "admitted"}
        /\ UNCHANGED <<hand, handler, thread, exchange>>
    BY <1>4 DEF Accept, Admit, Enqueue, AcceptFails, Call, mainVars
  <2>2. PICK to \in {"away", "calling", "accepted", "admitted", "queued"} :
          call' = [call EXCEPT ![who] = to]
    BY <1>4 DEF Accept, Admit, Enqueue, AcceptFails, Call
  <2>3. call[who] \notin InService
    BY <2>1 DEF InService
  <2>4. QED
    BY <2>1, <2>2, <2>3, CallMoves
<1>5. ASSUME NEW client \in Clients, Leave(client) PROVE Serving' /\ HandTypes' /\ CallTypes'
  <2>1. /\ call[client] \notin InService /\ client \in Callers
        /\ call' = [call EXCEPT ![client] = "left"] /\ UNCHANGED <<hand, handler, thread, exchange>>
    BY <1>5 DEF Leave, mainVars, InService, Callers
  <2>2. QED
    BY <2>1, CallMoves
<1>6. ASSUME NEW p \in Pools, Listen(p) PROVE Serving' /\ HandTypes' /\ CallTypes'
  BY <1>1, <1>6 DEF Listen, mainVars
<1>9. ASSUME NEW t \in Consumers, Crash(t) PROVE Serving' /\ HandTypes' /\ CallTypes'
  BY <1>1, <1>9, CrashFrame DEF mainVars, poolVars
<1>7. CASE PoolStep
  BY <1>4, <1>5, <1>6, <1>7, <1>9, ServingTake, ServingConnect, ServingExchanged, ServingReceived,
     ServingRespond
     DEF PoolStep
<1>8. QED
  BY <1>1, <1>3, <1>7, Steps DEF vars, mainVars, poolVars

-----------------------------------------------------------------------------
(* One call at each producer.                                              *)

\* Only accept() hands a producer a call.
LEMMA ToProducer ==
  ASSUME Serving, HandTypes, CallTypes, [Next]_vars
  PROVE  \/ \E who \in Callers : Accept(who)
         \/ \A x \in Callers : call'[x] \in AtProducer => call[x] \in AtProducer
<1>1. CASE UNCHANGED call
  BY <1>1
<1>2. ASSUME NEW who \in Callers, NEW to, to \notin AtProducer, call' = [call EXCEPT ![who] = to]
      PROVE  \A x \in Callers : call'[x] \in AtProducer => call[x] \in AtProducer
  BY <1>2 DEF CallTypes
<1>3. ASSUME NEW who \in Callers, AcceptFails(who) \/ Call(who) \/ Enqueue(who)
      PROVE  \A x \in Callers : call'[x] \in AtProducer => call[x] \in AtProducer
  <2>1. PICK to \in {"away", "calling", "queued"} : call' = [call EXCEPT ![who] = to]
    BY <1>3 DEF AcceptFails, Call, Enqueue
  <2>2. to \notin AtProducer
    BY <2>1 DEF AtProducer
  <2>3. QED
    BY <1>2, <2>1, <2>2
<1>4. ASSUME NEW who \in Callers, Admit(who)
      PROVE  \A x \in Callers : call'[x] \in AtProducer => call[x] \in AtProducer
  BY <1>4 DEF Admit, AtProducer, CallTypes
<1>5. ASSUME NEW client \in Clients, Leave(client)
      PROVE  \A x \in Callers : call'[x] \in AtProducer => call[x] \in AtProducer
  BY <1>2, <1>5 DEF Leave, AtProducer, Callers
<1>6. ASSUME NEW t \in Consumers, NEW who \in Callers, Take(t, who)
      PROVE  \A x \in Callers : call'[x] \in AtProducer => call[x] \in AtProducer
  BY <1>2, <1>6 DEF Take, Removed, AtProducer
<1>7. ASSUME NEW t \in Consumers, QuConnect(t) \/ QuExchanged(t) \/ IgReceived(t)
      PROVE  \A x \in Callers : call'[x] \in AtProducer => call[x] \in AtProducer
  <2>1. hand[t] \in Callers
    BY <1>7, WhoIsServed DEF QuConnect, QuExchanged, IgReceived
  <2>2. \/ UNCHANGED call
        \/ \E to \in {"pending", "answering", "waiting"} : call' = [call EXCEPT ![hand[t]] = to]
    BY <1>7 DEF QuConnect, QuExchanged, IgReceived
  <2>3. \A to \in {"pending", "answering", "waiting"} : to \notin AtProducer
    BY DEF AtProducer
  <2>4. QED
    BY <1>1, <1>2, <2>1, <2>2, <2>3
<1>8. ASSUME NEW t \in Consumers, NEW client \in Clients, IgRespond(t, client)
      PROVE  \A x \in Callers : call'[x] \in AtProducer => call[x] \in AtProducer
  BY <1>8, Responded DEF AtProducer
<1>9. CASE PoolStep
  BY <1>1, <1>3, <1>4, <1>5, <1>6, <1>7, <1>8, <1>9, CrashFrame DEF PoolStep, Listen, poolVars
<1>10. QED
  BY <1>1, <1>9, MainFrame, Steps DEF vars, poolVars

LEMMA OneStep ==
  ASSUME OneAtProducer, Started, Serving, HandTypes, CallTypes, [Next]_vars,
         \A p \in listening : thread[ProducerOf(p)] = "running"
  PROVE  OneAtProducer'
<1>1. \A t \in Threads : thread[t] = "running" => thread'[t] = "running"
  BY RunsOn
<1>2. \A x \in Callers : ProducerOf(PoolOf(x)) \in Threads
  BY Producers DEF PoolOf, Pools
<1>3. CASE \A x \in Callers : call'[x] \in AtProducer => call[x] \in AtProducer
  BY <1>1, <1>2, <1>3 DEF OneAtProducer, PoolOf, ProducerOf
<1>4. ASSUME NEW who \in Callers, Accept(who) PROVE OneAtProducer'
  <2>1. /\ \A x \in Callers : PoolOf(x) = PoolOf(who) => call[x] \notin AtProducer
        /\ thread[ProducerOf(PoolOf(who))] = "running"
    BY <1>4 DEF Accept, Accepting
  <2>2. \A x \in Callers : call'[x] = IF x = who THEN "accepted" ELSE call[x]
    BY <1>4 DEF Accept, CallTypes
  <2>3. \A x \in Callers : call'[x] \in AtProducer => thread'[ProducerOf(PoolOf(x))] = "running"
    BY <1>1, <1>2, <2>1, <2>2 DEF OneAtProducer
  <2>4. \A x, y \in Callers :
          call'[x] \in AtProducer /\ call'[y] \in AtProducer /\ PoolOf(x) = PoolOf(y) => x = y
    BY <2>1, <2>2 DEF OneAtProducer
  <2>5. QED
    BY <2>3, <2>4 DEF OneAtProducer, PoolOf, ProducerOf
<1>5. QED
  BY <1>3, <1>4, ToProducer

-----------------------------------------------------------------------------
(* How many descriptors there are.                                         *)

Holders(f) == {who \in Callers : f[who] \in Connected}
AfterTest == Connected \ {"accepted"}
TestedIn(f) == {g \in Generators : f[g] \in AfterTest}

Descriptors ==
  /\ listening \subseteq Pools /\ file \in BOOLEAN /\ leaked \in Nat /\ limit \in Limits
  /\ Used <= limit
  /\ leaked <= MaxFailures
  /\ Cardinality(TestedIn(call)) <= 2 * DosLimit + 2
  /\ \A p \in listening : thread[ProducerOf(p)] = "running"

LEMMA Finite ==
  /\ IsFiniteSet(Callers) /\ IsFiniteSet(Pools) /\ Cardinality(Pools) = 2
  /\ IsFiniteSet(Range(QuThreads)) /\ Cardinality(Range(QuThreads)) = Len(QuThreads)
  /\ Len(QuThreads) \in Nat
<1>1. IsFiniteSet(Callers)
  BY ProcessAssumption, FS_Union DEF Callers
<1>2. IsFiniteSet(Pools) /\ Cardinality(Pools) = 2
  <2>1. Pools = ({} \cup {"query"}) \cup {"reply"}
    BY DEF Pools
  <2>2. IsFiniteSet({}) /\ Cardinality({}) = 0
    BY FS_EmptySet
  <2>3. IsFiniteSet({} \cup {"query"}) /\ Cardinality({} \cup {"query"}) = 1
    BY <2>2, CountAdd
  <2>4. IsFiniteSet(({} \cup {"query"}) \cup {"reply"}) /\ Cardinality(({} \cup {"query"}) \cup {"reply"}) = 2
    BY <2>3, CountAdd
  <2>5. QED
    BY <2>1, <2>4
<1>3. IsFiniteSet(Range(QuThreads)) /\ Cardinality(Range(QuThreads)) = Len(QuThreads) /\ Len(QuThreads) \in Nat
  <2> DEFINE n == Len(QuThreads)
             R == Range(QuThreads)
  <2>1. n \in Nat /\ DOMAIN QuThreads = 1..n /\ QuThreads \in [1..n -> R]
    <3>1. QuThreads \in Seq(R)
      BY ProcessAssumption
    <3> HIDE DEF R
    <3>2. QED
      BY <3>1
  <2>2. QuThreads \in Surjection(1..n, R) /\ QuThreads \in Injection(1..n, R)
    BY <2>1, ProcessAssumption DEF Surjection, Injection, IsInjective, Range
  <2> HIDE DEF n, R
  <2>3. IsFiniteSet(1..n) /\ Cardinality(1..n) = IF 1 > n THEN 0 ELSE n - 1 + 1
    BY <2>1, FS_Interval
  <2>4. Cardinality(1..n) = n
    BY <2>1, <2>3
  <2>5. IsFiniteSet(R) /\ Cardinality(R) = Cardinality(1..n)
    BY <2>2, <2>3, FS_Surjection
  <2>6. QED
    BY <2>1, <2>4, <2>5 DEF n, R
<1>4. QED
  BY <1>1, <1>2, <1>3

LEMMA OneIgThread ==
  IgThreads[1] \in Range(IgThreads) /\ \A t, u \in Range(IgThreads) : t = u
<1>1. DOMAIN IgThreads = 1..1
  <2> DEFINE R == Range(IgThreads)
  <2>1. IgThreads \in Seq(R) /\ Len(IgThreads) = 1
    BY ProcessAssumption
  <2> HIDE DEF R
  <2>2. QED
    BY <2>1
<1>2. QED
  BY <1>1 DEF Range

\* What Used adds up.
LEMMA Parts ==
  ASSUME CallTypes, HandTypes, Descriptors
  PROVE  /\ Used = Cardinality(listening) + Cardinality(Holders(call)) + Cardinality(exchange)
                     + (IF file THEN 1 ELSE 0) + leaked
         /\ IsFiniteSet(listening) /\ Cardinality(listening) \in Nat
         /\ IsFiniteSet(Holders(call)) /\ Cardinality(Holders(call)) \in Nat
         /\ IsFiniteSet(exchange) /\ Cardinality(exchange) \in Nat
         /\ IsFiniteSet(TestedIn(call)) /\ Cardinality(TestedIn(call)) \in Nat
         /\ leaked \in Nat /\ limit \in Nat /\ Used <= limit /\ (Full <=> Used >= limit)
<1>1. IsFiniteSet(listening)
  BY Finite, FS_Subset DEF Descriptors
<1>2. IsFiniteSet(Holders(call))
  BY Finite, FS_Subset DEF Holders
<1>3. IsFiniteSet(exchange)
  BY Finite, FS_Subset DEF HandTypes
<1>4. IsFiniteSet(TestedIn(call))
  BY ProcessAssumption, FS_Subset DEF TestedIn
<1>5. Used = Cardinality(listening) + Cardinality(Holders(call)) + Cardinality(exchange)
               + (IF file THEN 1 ELSE 0) + leaked
  BY DEF Used, Holders
<1>6. QED
  BY <1>1, <1>2, <1>3, <1>4, <1>5, FS_CardinalityType, ProcessAssumption DEF Descriptors, Full

\* How one call that moves changes the numbers.
LEMMA HoldersMove ==
  ASSUME CallTypes, NEW who \in Callers, NEW to, call' = [call EXCEPT ![who] = to]
  PROVE  /\ Cardinality(Holders(call)) \in Nat /\ Cardinality(Holders(call')) \in Nat
         /\ Cardinality(Holders(call')) = Cardinality(Holders(call))
              + (IF to \in Connected THEN 1 ELSE 0) - (IF call[who] \in Connected THEN 1 ELSE 0)
<1>1. \A x \in Callers : call'[x] = IF x = who THEN to ELSE call[x]
  BY DEF CallTypes
<1>2. /\ IsFiniteSet(Callers) /\ Holders(call) \in SUBSET Callers /\ Holders(call') \in SUBSET Callers
      /\ \A x \in Callers \ {who} : x \in Holders(call) <=> x \in Holders(call')
      /\ who \in Holders(call) <=> call[who] \in Connected
      /\ who \in Holders(call') <=> to \in Connected
  BY <1>1, Finite DEF Holders
<1>3. /\ Cardinality(Holders(call)) \in Nat /\ Cardinality(Holders(call')) \in Nat
      /\ Cardinality(Holders(call')) = Cardinality(Holders(call))
           + (IF who \in Holders(call') THEN 1 ELSE 0) - (IF who \in Holders(call) THEN 1 ELSE 0)
  <2> DEFINE A == Holders(call)
             B == Holders(call')
  <2>1. /\ IsFiniteSet(Callers) /\ A \in SUBSET Callers /\ B \in SUBSET Callers
        /\ \A x \in Callers \ {who} : x \in A <=> x \in B
    BY <1>2
  <2> HIDE DEF A, B
  <2>2. /\ Cardinality(A) \in Nat /\ Cardinality(B) \in Nat
        /\ Cardinality(B) = Cardinality(A) + (IF who \in B THEN 1 ELSE 0) - (IF who \in A THEN 1 ELSE 0)
    BY <2>1, CountStep
  <2>3. QED
    BY <2>2 DEF A, B
<1>4. QED
  BY <1>2, <1>3

LEMMA TestedMove ==
  ASSUME CallTypes, NEW who \in Callers, NEW to, call' = [call EXCEPT ![who] = to]
  PROVE  /\ Cardinality(TestedIn(call)) \in Nat /\ Cardinality(TestedIn(call')) \in Nat
         /\ Cardinality(TestedIn(call')) <= Cardinality(TestedIn(call)) + 1
         /\ (to \in AfterTest /\ who \in Generators => call[who] \in AfterTest)
              => Cardinality(TestedIn(call')) <= Cardinality(TestedIn(call))
<1>1. \A x \in Callers : call'[x] = IF x = who THEN to ELSE call[x]
  BY DEF CallTypes
<1>2. Generators \subseteq Callers /\ IsFiniteSet(Generators)
  BY ProcessAssumption DEF Callers
<1>3. IsFiniteSet(TestedIn(call)) /\ IsFiniteSet(TestedIn(call'))
  BY <1>2, FS_Subset DEF TestedIn
<1>4. Cardinality(TestedIn(call)) \in Nat /\ Cardinality(TestedIn(call')) \in Nat
  BY <1>3, FS_CardinalityType
<1>5. TestedIn(call') \in SUBSET (TestedIn(call) \cup {who})
  BY <1>1, <1>2 DEF TestedIn
<1>6. /\ IsFiniteSet(TestedIn(call) \cup {who})
      /\ Cardinality(TestedIn(call) \cup {who})
           = Cardinality(TestedIn(call)) + (IF who \in TestedIn(call) THEN 0 ELSE 1)
  BY <1>3, CountAdd
<1>7. Cardinality(TestedIn(call')) <= Cardinality(TestedIn(call) \cup {who})
  BY <1>5, <1>6, FS_Subset
<1>8. ASSUME to \in AfterTest /\ who \in Generators => call[who] \in AfterTest
      PROVE  Cardinality(TestedIn(call')) <= Cardinality(TestedIn(call))
  <2>1. TestedIn(call') \in SUBSET TestedIn(call)
    BY <1>1, <1>2, <1>8 DEF TestedIn
  <2>2. QED
    BY <1>3, <2>1, FS_Subset
<1>9. QED
  BY <1>4, <1>6, <1>7, <1>8

\* A reply that passes the test meets no more than the limit on each queue, and
\* one that is served.
LEMMA BeforeAdmission ==
  ASSUME Serving, HandTypes, CallTypes, OneAtProducer,
         NEW who \in Generators, call[who] = "accepted", ~TooMany
  PROVE  Cardinality(TestedIn(call)) <= 2 * DosLimit + 1
<1> DEFINE queued == Calls("queued") \cap Generators
           done == Calls("answering") \cup Calls("waiting")
           served == hand[IgThreads[1]]
<1>1. IsFiniteSet(queued) /\ IsFiniteSet(done) /\ DosLimit \in Nat
  BY Finite, ProcessAssumption, FS_Subset, FS_Union DEF Calls
<1>2. Cardinality(queued) \in Nat /\ Cardinality(done) \in Nat
  BY <1>1, FS_CardinalityType
<1>3. ~(Cardinality(queued) > DosLimit) /\ ~(Cardinality(done) > DosLimit)
  BY DEF TooMany
<1>4. TestedIn(call) \in SUBSET ((queued \cup done) \cup {served})
  <2>1. ASSUME NEW g \in Generators, call[g] \in AfterTest PROVE g \in (queued \cup done) \cup {served}
    <3>1. g \in Callers /\ g # NULL /\ who \in Callers /\ PoolOf(g) = "reply" /\ PoolOf(who) = "reply"
      BY PoolNames, ProcessAssumption DEF Callers
    <3>2. call[g] \notin {"pending", "left"}
      BY DEF CallTypes
    <3>3. call[g] # "admitted"
      BY <3>1 DEF OneAtProducer, AtProducer
    <3>4. CASE call[g] = "served"
      <4>1. PICK t \in Consumers : hand[t] = g
        BY <3>1, <3>4 DEF Serving, InService
      <4>2. t \in Range(IgThreads)
        BY <3>1, <4>1, PoolNames DEF Serving
      <4>3. QED
        BY <4>1, <4>2, OneIgThread
    <3>5. CASE call[g] \in {"queued", "answering", "waiting"}
      BY <3>1, <3>5 DEF Calls
    <3>6. QED
      BY <2>1, <3>2, <3>3, <3>4, <3>5 DEF AfterTest, Connected, AtProducer
  <2>2. QED
    BY <2>1 DEF TestedIn
<1> HIDE DEF queued, done, served
<1>5. /\ IsFiniteSet(queued \cup done) /\ Cardinality(queued \cup done) \in Nat
      /\ Cardinality(queued \cup done) <= Cardinality(queued) + Cardinality(done)
  BY <1>1, CountUnion
<1>6. /\ IsFiniteSet((queued \cup done) \cup {served})
      /\ Cardinality((queued \cup done) \cup {served}) \in Nat
      /\ Cardinality((queued \cup done) \cup {served}) <= Cardinality(queued \cup done) + 1
  <2>1. IsFiniteSet({served}) /\ Cardinality({served}) = 1
    BY FS_Singleton
  <2>2. QED
    BY <1>5, <2>1, CountUnion
<1>7. /\ Cardinality(TestedIn(call)) \in Nat
      /\ Cardinality(TestedIn(call)) <= Cardinality((queued \cup done) \cup {served})
  BY <1>4, <1>6, FS_Subset, FS_CardinalityType
<1>8. QED
  BY <1>1, <1>2, <1>3, <1>5, <1>6, <1>7

\* The whole of a step: what holds descriptors, and what is bounded by itself.
LEMMA UsedNext ==
  Used' = Cardinality(listening') + Cardinality(Holders(call')) + Cardinality(exchange')
            + (IF file' THEN 1 ELSE 0) + leaked'
BY DEF Used, Holders

Fits ==
  /\ Cardinality(listening') + Cardinality(Holders(call')) + Cardinality(exchange')
       + (IF file' THEN 1 ELSE 0) + leaked' <= limit
  /\ Cardinality(TestedIn(call')) <= 2 * DosLimit + 2

LEMMA DescriptorsMove ==
  ASSUME Descriptors, Fits, UNCHANGED <<limit, thread>>,
         listening' \subseteq Pools, file' \in BOOLEAN, leaked' \in Nat, leaked' <= MaxFailures,
         \A p \in listening' : thread[ProducerOf(p)] = "running"
  PROVE  Descriptors'
BY UsedNext DEF Descriptors, Fits, ProducerOf, TestedIn

LEMMA DescriptorsStep ==
  ASSUME Serving, HandTypes, CallTypes, Started, OneAtProducer, Descriptors, [Next]_vars
  PROVE  Descriptors'
<1>1. /\ Used = Cardinality(listening) + Cardinality(Holders(call)) + Cardinality(exchange)
                  + (IF file THEN 1 ELSE 0) + leaked
      /\ IsFiniteSet(listening) /\ Cardinality(listening) \in Nat
      /\ IsFiniteSet(Holders(call)) /\ Cardinality(Holders(call)) \in Nat
      /\ IsFiniteSet(exchange) /\ Cardinality(exchange) \in Nat
      /\ IsFiniteSet(TestedIn(call)) /\ Cardinality(TestedIn(call)) \in Nat
      /\ leaked \in Nat /\ limit \in Nat /\ Used <= limit /\ (Full <=> Used >= limit)
  BY Parts
<1>2. /\ Cardinality(TestedIn(call)) <= 2 * DosLimit + 2 /\ DosLimit \in Nat /\ MaxFailures \in Nat
      /\ listening \subseteq Pools /\ file \in BOOLEAN /\ leaked <= MaxFailures
      /\ \A p \in listening : thread[ProducerOf(p)] = "running"
  BY ProcessAssumption DEF Descriptors
<1>3. CASE UNCHANGED <<poolVars, limit>> /\ \A t \in Threads : thread[t] = "running" => thread'[t] = "running"
  <2>1. Used' = Used /\ TestedIn(call') = TestedIn(call)
    BY <1>3 DEF poolVars, Used
  <2>2. QED
    BY <1>3, <2>1, Producers DEF Descriptors, poolVars, ProducerOf, TestedIn
<1>4. CASE MainStep \/ Printed
  <2>1. \A t \in Threads : thread[t] = "running" => thread'[t] = "running"
    BY RunsOn
  <2>2. QED
    BY <1>3, <1>4, <2>1, MainFrame
<1>5. CASE UNCHANGED vars
  BY <1>3, <1>5 DEF vars, mainVars
<1>6. ASSUME NEW p \in Pools, Listen(p) PROVE Descriptors'
  <2>1. /\ UNCHANGED <<limit, thread, call, exchange, file, leaked>>
        /\ \/ UNCHANGED listening
           \/ ~Full /\ p \notin listening /\ listening' = listening \cup {p} /\ thread[ProducerOf(p)] = "running"
    BY <1>6 DEF Listen, mainVars
  <2>2. CASE UNCHANGED listening
    BY <1>1, <1>2, <2>1, <2>2, DescriptorsMove DEF Fits
  <2>3. CASE ~Full /\ p \notin listening /\ listening' = listening \cup {p} /\ thread[ProducerOf(p)] = "running"
    <3>1. Cardinality(listening') = Cardinality(listening) + 1
      BY <1>1, <2>3, CountAdd
    <3>2. Fits
      BY <1>1, <1>2, <2>1, <2>3, <3>1 DEF Fits
    <3>3. QED
      BY <1>1, <1>2, <2>1, <2>3, <3>2, DescriptorsMove
  <2>4. QED
    BY <2>1, <2>2, <2>3
<1>7. ASSUME NEW who \in Callers, Accept(who) PROVE Descriptors'
  <2>1. /\ UNCHANGED <<limit, thread, listening, exchange, file, leaked>> /\ ~Full
        /\ call[who] = "calling" /\ call' = [call EXCEPT ![who] = "accepted"]
    BY <1>7 DEF Accept, mainVars
  <2>2. Cardinality(Holders(call')) = Cardinality(Holders(call)) + 1
    <3>1. call[who] \notin Connected /\ "accepted" \in Connected
      BY <2>1 DEF Connected, AtProducer
    <3>2. /\ Cardinality(Holders(call')) \in Nat
          /\ Cardinality(Holders(call')) = Cardinality(Holders(call))
               + (IF "accepted" \in Connected THEN 1 ELSE 0) - (IF call[who] \in Connected THEN 1 ELSE 0)
      BY <2>1, HoldersMove
    <3>3. QED
      BY <1>1, <3>1, <3>2
  <2>3. Cardinality(TestedIn(call')) <= 2 * DosLimit + 2
    <3>1. "accepted" \notin AfterTest
      BY DEF AfterTest
    <3>2. Cardinality(TestedIn(call')) \in Nat /\ Cardinality(TestedIn(call')) <= Cardinality(TestedIn(call))
      BY <2>1, <3>1, TestedMove
    <3>3. QED
      BY <1>1, <1>2, <3>2
  <2>4. Fits
    BY <1>1, <2>1, <2>2, <2>3 DEF Fits
  <2>5. QED
    BY <1>1, <1>2, <2>1, <2>4, DescriptorsMove
<1>8. ASSUME NEW who \in Callers, NEW to, call' = [call EXCEPT ![who] = to],
             to \in Connected => call[who] \in Connected,
             Cardinality(TestedIn(call')) <= 2 * DosLimit + 2,
             UNCHANGED <<limit, thread, listening, exchange, leaked>>, file' \in BOOLEAN,
             file' => ~Full \/ file
      PROVE  Descriptors'
  <2>1. Cardinality(Holders(call')) <= Cardinality(Holders(call)) /\ Cardinality(Holders(call')) \in Nat
    <3>1. /\ Cardinality(Holders(call')) \in Nat
          /\ Cardinality(Holders(call')) = Cardinality(Holders(call))
               + (IF to \in Connected THEN 1 ELSE 0) - (IF call[who] \in Connected THEN 1 ELSE 0)
      BY <1>8, HoldersMove
    <3>2. QED
      BY <1>1, <1>8, <3>1
  <2>2. (IF file' THEN 1 ELSE 0) <= (IF file THEN 1 ELSE 0) + (IF Full THEN 0 ELSE 1)
    BY <1>2, <1>8
  <2>3. Fits
    BY <1>1, <1>8, <2>1, <2>2 DEF Fits
  <2>4. QED
    BY <1>1, <1>2, <1>8, <2>3, DescriptorsMove
<1>17. ASSUME NEW who \in Callers, NEW to, call' = [call EXCEPT ![who] = to],
              to \in AfterTest /\ who \in Generators => call[who] \in AfterTest
       PROVE  Cardinality(TestedIn(call')) <= 2 * DosLimit + 2
  <2>1. Cardinality(TestedIn(call')) \in Nat /\ Cardinality(TestedIn(call')) <= Cardinality(TestedIn(call))
    BY <1>17, TestedMove
  <2>2. QED
    BY <1>1, <1>2, <2>1
<1>18. ASSUME NEW who \in Callers, Admit(who) PROVE Descriptors'
  <2> DEFINE refused == HandlerOf(PoolOf(who)) = "ig_pool_handle" /\ TooMany
             to == IF refused THEN "away" ELSE "admitted"
  <2>1. /\ UNCHANGED <<limit, thread, listening, exchange, file, leaked>>
        /\ call[who] = "accepted" /\ call[who] \in Connected /\ call' = [call EXCEPT ![who] = to]
    BY <1>18 DEF Admit, mainVars, Connected, AtProducer
  <2>2. Cardinality(TestedIn(call')) <= 2 * DosLimit + 2
    <3>1. CASE who \in Generators /\ ~refused
      <4>1. hooked
        <5>1. thread[ProducerOf(PoolOf(who))] = "running"
          BY <2>1 DEF OneAtProducer, AtProducer
        <5>2. ProducerOf(PoolOf(who)) \in Threads
          BY Producers DEF PoolOf, Pools
        <5>3. QED
          BY <5>1, <5>2 DEF Started
      <4>2. ~TooMany
        BY <3>1, <4>1, PoolNames
      <4>3. Cardinality(TestedIn(call)) <= 2 * DosLimit + 1
        BY <2>1, <3>1, <4>2, BeforeAdmission
      <4> HIDE DEF to
      <4>4. Cardinality(TestedIn(call')) \in Nat /\ Cardinality(TestedIn(call')) <= Cardinality(TestedIn(call)) + 1
        BY <2>1, TestedMove
      <4>5. QED
        BY <1>1, <1>2, <4>3, <4>4
    <3>2. CASE ~(who \in Generators /\ ~refused)
      <4>1. to \in AfterTest /\ who \in Generators => call[who] \in AfterTest
        BY <3>2 DEF AfterTest, Connected, AtProducer
      <4> HIDE DEF to
      <4>2. QED
        BY <1>17, <2>1, <4>1
    <3>3. QED
      BY <3>1, <3>2
  <2> HIDE DEF to
  <2>3. QED
    BY <1>2, <1>8, <2>1, <2>2
<1>19. ASSUME NEW who \in Callers, Enqueue(who) PROVE Descriptors'
  <2>1. /\ call[who] = "admitted" /\ call' = [call EXCEPT ![who] = "queued"]
        /\ UNCHANGED <<limit, thread, listening, exchange, leaked, file>>
    BY <1>19 DEF Enqueue, mainVars
  <2>2. call[who] \in Connected /\ call[who] \in AfterTest
    BY <2>1 DEF AfterTest, Connected, AtProducer
  <2>3. Cardinality(TestedIn(call')) <= 2 * DosLimit + 2
    BY <1>17, <2>1, <2>2
  <2>4. QED
    BY <1>2, <1>8, <2>1, <2>2, <2>3
<1>9. ASSUME NEW who \in Callers, AcceptFails(who) \/ Call(who) PROVE Descriptors'
  <2>1. PICK to \in {"away", "calling"} :
          call' = [call EXCEPT ![who] = to] /\ UNCHANGED <<limit, thread, listening, exchange, leaked, file>>
    BY <1>9 DEF AcceptFails, Call, mainVars
  <2>2. to \notin Connected /\ to \notin AfterTest
    BY <2>1 DEF AfterTest, Connected, AtProducer
  <2>3. Cardinality(TestedIn(call')) <= 2 * DosLimit + 2
    BY <1>17, <2>1, <2>2
  <2>4. QED
    BY <1>2, <1>8, <2>1, <2>2, <2>3
<1>10. ASSUME NEW client \in Clients, Leave(client) PROVE Descriptors'
  <2>1. /\ call[client] \in Connected /\ client \in Callers
        /\ call' = [call EXCEPT ![client] = "left"]
        /\ UNCHANGED <<limit, thread, listening, exchange, leaked, file>>
    BY <1>10 DEF Leave, mainVars, Connected, Callers
  <2>2. client \notin Generators
    BY ProcessAssumption
  <2>3. Cardinality(TestedIn(call')) <= 2 * DosLimit + 2
    BY <1>17, <2>1, <2>2
  <2>4. QED
    BY <1>2, <1>8, <2>1, <2>3
<1>11. ASSUME NEW t \in Consumers, NEW who \in Callers, Take(t, who) PROVE Descriptors'
  <2>1. /\ call[who] \in Connected /\ call[who] \in AfterTest /\ call' = [call EXCEPT ![who] = "served"]
        /\ UNCHANGED <<limit, thread, listening, exchange, leaked>>
        /\ (file' = ~Full \/ file' = file)
    BY <1>11 DEF Take, Removed, mainVars, AfterTest, Connected
  <2>2. file' \in BOOLEAN /\ (file' => ~Full \/ file)
    <3>1. CASE file' = ~Full
      BY <3>1 DEF Full
    <3>2. CASE file' = file
      BY <1>2, <3>2
    <3>3. QED
      BY <2>1, <3>1, <3>2
  <2>3. Cardinality(TestedIn(call')) <= 2 * DosLimit + 2
    BY <1>17, <2>1
  <2>4. QED
    BY <1>8, <2>1, <2>2, <2>3
<1>12. ASSUME NEW t \in Consumers, IgReceived(t) PROVE Descriptors'
  <2>1. hand[t] \in Callers
    BY <1>12, WhoIsServed DEF IgReceived
  <2>2. PICK to \in {"answering", "waiting"} :
          /\ call[hand[t]] \in Connected /\ call[hand[t]] \in AfterTest
          /\ call' = [call EXCEPT ![hand[t]] = to]
          /\ UNCHANGED <<limit, thread, listening, exchange, leaked>> /\ file' = FALSE
    BY <1>12 DEF IgReceived, mainVars, AfterTest, Connected
  <2>3. Cardinality(TestedIn(call')) <= 2 * DosLimit + 2
    BY <1>17, <2>1, <2>2
  <2>4. QED
    BY <1>8, <2>1, <2>2, <2>3
<1>13. ASSUME NEW t \in Consumers, QuConnect(t) PROVE Descriptors'
  <2>1. hand[t] \in Callers /\ call[hand[t]] \in Connected /\ hand[t] \notin Generators
    BY <1>13, WhoIsServed, ProcessAssumption DEF QuConnect, InService, Connected
  <2>2. CASE Full
    <3>1. /\ call' = [call EXCEPT ![hand[t]] = "pending"]
          /\ UNCHANGED <<limit, thread, listening, exchange, leaked, file>>
      BY <1>13, <2>2 DEF QuConnect, mainVars
    <3>2. Cardinality(TestedIn(call')) <= 2 * DosLimit + 2
      BY <1>17, <2>1, <3>1
    <3>3. QED
      BY <1>2, <1>8, <2>1, <3>1, <3>2
  <2>3. CASE ~Full
    <3>1. /\ t \notin exchange /\ exchange' = exchange \cup {t}
          /\ UNCHANGED <<limit, thread, listening, call, leaked, file>>
      BY <1>13, <2>3 DEF QuConnect, mainVars
    <3>2. Cardinality(exchange') = Cardinality(exchange) + 1
      BY <1>1, <3>1, CountAdd
    <3>3. Fits
      BY <1>1, <1>2, <2>3, <3>1, <3>2 DEF Fits
    <3>4. QED
      BY <1>1, <1>2, <3>1, <3>3, DescriptorsMove
  <2>4. QED
    BY <2>2, <2>3
<1>14. ASSUME NEW t \in Consumers, QuExchanged(t) PROVE Descriptors'
  <2>1. hand[t] \in Callers /\ call[hand[t]] \in Connected /\ hand[t] \notin Generators
    BY <1>14, WhoIsServed, ProcessAssumption DEF QuExchanged, InService, Connected
  <2>2. /\ t \in exchange /\ exchange' = exchange \ {t}
        /\ call' = [call EXCEPT ![hand[t]] = "pending"]
        /\ leaked' \in {leaked, leaked + 1} /\ (leaked' = leaked \/ leaked < MaxFailures)
        /\ UNCHANGED <<limit, thread, listening, file>>
    BY <1>14 DEF QuExchanged, mainVars, Answered
  <2>3. Cardinality(exchange') = Cardinality(exchange) - 1
    BY <1>1, <2>2, CountAdd
  <2>4. Cardinality(Holders(call')) = Cardinality(Holders(call))
    <3>1. "pending" \in Connected
      BY DEF Connected
    <3>2. /\ Cardinality(Holders(call')) \in Nat
          /\ Cardinality(Holders(call')) = Cardinality(Holders(call))
               + (IF "pending" \in Connected THEN 1 ELSE 0) - (IF call[hand[t]] \in Connected THEN 1 ELSE 0)
      BY <2>1, <2>2, HoldersMove
    <3>3. QED
      BY <1>1, <2>1, <3>1, <3>2
  <2>5. Cardinality(TestedIn(call')) <= 2 * DosLimit + 2
    BY <1>17, <2>1, <2>2
  <2>6. leaked' \in Nat /\ leaked' <= MaxFailures /\ leaked' <= leaked + 1
    BY <1>1, <1>2, <2>2
  <2>7. Fits
    BY <1>1, <2>2, <2>3, <2>4, <2>5, <2>6 DEF Fits
  <2>8. QED
    BY <1>2, <2>2, <2>6, <2>7, DescriptorsMove
<1>15. ASSUME NEW t \in Consumers, NEW client \in Clients, IgRespond(t, client) PROVE Descriptors'
  <2>1. UNCHANGED <<limit, thread, listening, exchange, leaked, file>>
    BY <1>15 DEF IgRespond, mainVars
  <2>2. \A x \in Callers : call'[x] = call[x] \/ call'[x] = "away"
    BY <1>15, Responded
  <2>3. Holders(call') \in SUBSET Holders(call) /\ TestedIn(call') \in SUBSET TestedIn(call)
    BY <2>2 DEF Holders, TestedIn, AfterTest, Connected, AtProducer, Callers
  <2>4. /\ Cardinality(Holders(call')) <= Cardinality(Holders(call)) /\ Cardinality(Holders(call')) \in Nat
        /\ Cardinality(TestedIn(call')) <= Cardinality(TestedIn(call)) /\ Cardinality(TestedIn(call')) \in Nat
    BY <1>1, <2>3, FS_Subset, FS_CardinalityType
  <2>5. Fits
    BY <1>1, <1>2, <2>1, <2>4 DEF Fits
  <2>6. QED
    BY <1>1, <1>2, <2>1, <2>5, DescriptorsMove
<1>16. CASE PoolStep
  <2>1. ASSUME NEW t \in Consumers, Crash(t) PROVE Descriptors'
    BY <1>3, <2>1, CrashFrame DEF mainVars
  <2>2. QED
    BY <1>6, <1>7, <1>9, <1>10, <1>11, <1>12, <1>13, <1>14, <1>15, <1>16, <1>18, <1>19, <2>1 DEF PoolStep
<1>20. QED
  BY <1>4, <1>5, <1>16, Steps

-----------------------------------------------------------------------------
(* No call that fails ends the process.                                    *)

LEMMA SurvivesStep ==
  ASSUME Started, Serving, HandTypes, CallTypes, Descriptors, SurvivesFailedCalls, [Next]_vars
  PROVE  SurvivesFailedCalls'
<1>1. CASE process' \in {"up", "exited"}
  BY <1>1 DEF SurvivesFailedCalls
<1>2. CASE UNCHANGED <<process, listening>>
  BY <1>2 DEF SurvivesFailedCalls
<1>3. CASE MainStep \/ Printed
  BY <1>1, <1>2, <1>3, MainFrame
     DEF MainStep, Printed, ReadArguments, MaskPipe, HookPools, CreateThread, Start, Console, poolVars
<1>4. ASSUME NEW p \in Pools, Listen(p) PROVE SurvivesFailedCalls'
  <2>1. p \notin listening /\ process = "up" /\ process' \in {"up", "died"}
        /\ (process' = "died" => UNCHANGED listening)
    BY <1>4 DEF Listen, Died
  <2>2. QED
    BY <2>1 DEF SurvivesFailedCalls
<1>5. ASSUME NEW t \in Consumers, hand[t] # NULL PROVE t \in shielded
  BY <1>5 DEF Serving, Started, Threads
<1>6. ASSUME NEW t \in Consumers, QuExchanged(t) \/ (\E client \in Clients : IgRespond(t, client))
      PROVE  SurvivesFailedCalls'
  <2>1. t \in shielded /\ process = "up"
    BY <1>5, <1>6 DEF QuExchanged, IgRespond, Answering, Serves
  <2>2. process' = "up"
    BY <1>6, <2>1 DEF QuExchanged, IgRespond
  <2>3. QED
    BY <1>1, <2>2
<1>7. CASE PoolStep
  <2>1. ASSUME NEW who \in Callers, AcceptFails(who) PROVE SurvivesFailedCalls'
    BY <1>1, <2>1 DEF AcceptFails, AcceptFailed
  <2>2. ASSUME NEW t \in Consumers, Crash(t) PROVE SurvivesFailedCalls'
    BY <2>2, CrashFrame DEF SurvivesFailedCalls
  <2>3. QED
    BY <1>2, <1>4, <1>6, <1>7, <2>1, <2>2
       DEF PoolStep, Accept, Admit, Enqueue, Call, Take, QuConnect, IgReceived, Leave
<1>8. QED
  BY <1>2, <1>3, <1>7, Steps DEF vars, poolVars

-----------------------------------------------------------------------------
(* Descriptors that are enough.                                            *)

\* With enough descriptors the table has room: who holds one is a client, a reply
\* that passed the test, or the one that is still to be tested.
LEMMA Room ==
  ASSUME HandTypes, CallTypes, OneAtProducer, Descriptors, limit >= Enough
  PROVE  ~Full
<1> DEFINE one == CHOOSE g \in Generators : call[g] = "accepted"
           tested == TestedIn(call)
<1>1. /\ Used = Cardinality(listening) + Cardinality(Holders(call)) + Cardinality(exchange)
                  + (IF file THEN 1 ELSE 0) + leaked
      /\ Cardinality(listening) \in Nat /\ Cardinality(Holders(call)) \in Nat
      /\ Cardinality(exchange) \in Nat
      /\ IsFiniteSet(tested) /\ Cardinality(tested) \in Nat
      /\ leaked \in Nat /\ limit \in Nat /\ (Full <=> Used >= limit)
  BY Parts
<1>2. Holders(call) \in SUBSET ((Clients \cup tested) \cup {one})
  <2>1. ASSUME NEW g \in Generators, call[g] = "accepted" PROVE g = one
    <3>1. one \in Generators /\ call[one] = "accepted"
      BY <2>1
    <3> HIDE DEF one
    <3>2. QED
      BY <2>1, <3>1, PoolNames DEF OneAtProducer, AtProducer, Callers
  <2> HIDE DEF one
  <2>2. QED
    BY <2>1 DEF Holders, TestedIn, AfterTest, Callers
<1>3. /\ IsFiniteSet(Clients) /\ Cardinality(Clients) \in Nat
      /\ DosLimit \in Nat /\ MaxFailures \in Nat
      /\ Cardinality(tested) <= 2 * DosLimit + 2 /\ leaked <= MaxFailures
  BY ProcessAssumption, FS_CardinalityType DEF Descriptors
<1> HIDE DEF one, tested
<1>4. Cardinality(Holders(call)) <= Cardinality(Clients) + (2 * DosLimit + 2) + 1
  <2>1. /\ IsFiniteSet(Clients \cup tested) /\ Cardinality(Clients \cup tested) \in Nat
        /\ Cardinality(Clients \cup tested) <= Cardinality(Clients) + Cardinality(tested)
    BY <1>1, <1>3, CountUnion
  <2>2. /\ IsFiniteSet({one}) /\ Cardinality({one}) = 1
    BY FS_Singleton
  <2>3. /\ IsFiniteSet((Clients \cup tested) \cup {one})
        /\ Cardinality((Clients \cup tested) \cup {one}) \in Nat
        /\ Cardinality((Clients \cup tested) \cup {one})
             <= Cardinality(Clients \cup tested) + 1
    BY <2>1, <2>2, CountUnion
  <2>4. Cardinality(Holders(call)) <= Cardinality((Clients \cup tested) \cup {one})
    BY <1>2, <2>3, FS_Subset
  <2>5. QED
    BY <1>1, <1>3, <2>1, <2>3, <2>4
<1>5. Cardinality(listening) <= 2 /\ Cardinality(exchange) <= Len(QuThreads) /\ Len(QuThreads) \in Nat
  <2>1. listening \in SUBSET Pools /\ exchange \in SUBSET Range(QuThreads)
    BY DEF Descriptors, HandTypes
  <2>2. QED
    BY <2>1, Finite, FS_Subset
<1>6. Enough = 2 + Cardinality(Clients) + Len(QuThreads) + MaxFailures + (2 * DosLimit + 3) + 1 + 1
  BY Finite DEF Enough
<1>7. (IF file THEN 1 ELSE 0) <= 1 /\ (IF file THEN 1 ELSE 0) \in Nat
  OBVIOUS
<1>8. Used < limit
  <2> DEFINE f == IF file THEN 1 ELSE 0
             listeners == Cardinality(listening)
             holders == Cardinality(Holders(call))
             exchanges == Cardinality(exchange)
             clients == Cardinality(Clients)
             consumers == Len(QuThreads)
  <2>1. /\ Used = listeners + holders + exchanges + f + leaked
        /\ limit >= 2 + clients + consumers + MaxFailures + (2 * DosLimit + 3) + 1 + 1
        /\ f \in Nat /\ listeners \in Nat /\ holders \in Nat /\ exchanges \in Nat
        /\ clients \in Nat /\ consumers \in Nat /\ limit \in Nat /\ leaked \in Nat
    <3>1. limit >= Enough
      OBVIOUS
    <3>2. QED
      BY <1>1, <1>3, <1>5, <1>6, <1>7, <3>1
  <2>2. /\ f <= 1 /\ listeners <= 2 /\ holders <= clients + (2 * DosLimit + 2) + 1
        /\ exchanges <= consumers /\ leaked <= MaxFailures
        /\ DosLimit \in Nat /\ MaxFailures \in Nat
    BY <1>3, <1>4, <1>5, <1>7
  <2> HIDE DEF f, listeners, holders, exchanges, clients, consumers
  <2>3. QED
    BY <2>1, <2>2
<1>9. QED
  BY <1>1, <1>8 DEF Full

\* A step that keeps the file and serves nobody new.
LEMMA ImageFrame ==
  ASSUME NoImageLost, HandTypes, UNCHANGED <<file, limit>>,
         \A t \in Consumers : hand'[t] # NULL => hand'[t] = hand[t],
         \A who \in Callers : call'[who] = "served" => call[who] = "served"
  PROVE  NoImageLost'
<1>1. Enough' = Enough
  BY DEF Enough
<1>2. \A t \in Range(IgThreads) : t \in Consumers
  BY DEF Consumers
<1>3. \A t \in Consumers : hand[t] # NULL => hand[t] \in Callers
  BY DEF HandTypes
<1>4. QED
  BY <1>1, <1>2, <1>3 DEF NoImageLost

LEMMA ImageStep ==
  ASSUME Started, Serving, HandTypes, CallTypes, OneAtProducer, Descriptors, NoImageLost, [Next]_vars
  PROVE  NoImageLost'
<1>0. Enough' = Enough /\ (\A t \in Range(IgThreads) : t \in Consumers)
      /\ (\A t \in Consumers : hand[t] # NULL => hand[t] \in Callers)
  BY DEF Enough, Consumers, HandTypes
<1>1. CASE UNCHANGED <<poolVars, limit>>
  BY <1>1, ImageFrame DEF poolVars
<1>2. ASSUME NEW who \in Callers,
             NEW to \in {"away", "calling", "accepted", "admitted", "queued", "pending", "left"},
             call' = [call EXCEPT ![who] = to], UNCHANGED <<file, limit>>,
             \A t \in Consumers : hand'[t] # NULL => hand'[t] = hand[t]
      PROVE  NoImageLost'
  BY <1>2, ImageFrame DEF CallTypes
<1>3. ASSUME NEW who \in Callers,
             Accept(who) \/ Admit(who) \/ Enqueue(who) \/ AcceptFails(who) \/ Call(who)
      PROVE  NoImageLost'
  <2>1. PICK to \in {"away", "calling", "accepted", "admitted", "queued"} :
          call' = [call EXCEPT ![who] = to] /\ UNCHANGED <<file, limit, hand>>
    BY <1>3 DEF Accept, Admit, Enqueue, AcceptFails, Call
  <2>2. QED
    BY <1>2, <2>1
<1>4. ASSUME NEW client \in Clients, Leave(client) PROVE NoImageLost'
  <2>1. client \in Callers /\ call' = [call EXCEPT ![client] = "left"] /\ UNCHANGED <<file, limit, hand>>
    BY <1>4 DEF Leave, Callers
  <2>2. QED
    BY <1>2, <2>1
<1>5. ASSUME NEW t \in Consumers, NEW who \in Callers, Take(t, who) PROVE NoImageLost'
  <2>1. /\ call[who] = "queued" /\ call' = [call EXCEPT ![who] = "served"]
        /\ hand[t] = NULL /\ hand' = [hand EXCEPT ![t] = who] /\ UNCHANGED limit
        /\ thread[t] = "running" /\ t \in ConsumersOf(PoolOf(who))
        /\ file' = IF HandlerOf(PoolOf(who)) = "ig_pool_handle" THEN ~Full ELSE file
    BY <1>5 DEF Take, Removed
  <2>2. CASE who \in Clients
    <3>1. UNCHANGED file /\ t \notin Range(IgThreads)
      BY <2>1, <2>2, PoolNames, ProcessAssumption
    <3>2. ASSUME NEW u \in Range(IgThreads), hand'[u] # NULL, call'[hand'[u]] = "served"
          PROVE  hand[u] # NULL /\ call[hand[u]] = "served"
      <4>1. hand'[u] = hand[u]
        BY <1>0, <2>1, <3>1, <3>2 DEF HandTypes
      <4>2. hand[u] # who /\ hand[u] \in Callers
        BY <1>0, <2>1, <3>2, <4>1 DEF Serving, InService
      <4>3. QED
        BY <2>1, <3>2, <4>1, <4>2 DEF CallTypes
    <3>3. QED
      BY <1>0, <2>1, <3>1, <3>2 DEF NoImageLost
  <2>3. CASE who \in Generators
    <3>1. hooked
      BY <2>1 DEF Started, Threads
    <3>2. HandlerOf(PoolOf(who)) = "ig_pool_handle" /\ t \in Range(IgThreads)
      BY <2>1, <2>3, <3>1, PoolNames
    <3>3. file' = ~Full
      BY <2>1, <3>2
    <3>4. limit >= Enough => ~Full
      BY Room
    <3>5. QED
      BY <1>0, <2>1, <3>3, <3>4 DEF NoImageLost
  <2>4. QED
    BY <2>2, <2>3 DEF Callers
<1>6. ASSUME NEW t \in Consumers, QuConnect(t) \/ QuExchanged(t) PROVE NoImageLost'
  <2>1. /\ hand[t] \in Callers /\ UNCHANGED <<file, limit>>
        /\ \/ UNCHANGED <<call, hand>>
           \/ call' = [call EXCEPT ![hand[t]] = "pending"] /\ hand' = [hand EXCEPT ![t] = NULL]
    BY <1>6, WhoIsServed DEF QuConnect, QuExchanged
  <2>2. \A u \in Consumers : hand'[u] # NULL => hand'[u] = hand[u]
    BY <2>1 DEF HandTypes
  <2>3. CASE UNCHANGED <<call, hand>>
    BY <2>1, <2>3, ImageFrame
  <2>4. CASE call' = [call EXCEPT ![hand[t]] = "pending"]
    BY <1>2, <2>1, <2>2, <2>4
  <2>5. QED
    BY <2>1, <2>3, <2>4
<1>7. ASSUME NEW t \in Consumers, IgReceived(t) PROVE NoImageLost'
  <2>1. /\ hand[t] \in Callers /\ t \in Range(IgThreads)
        /\ \/ call' = [call EXCEPT ![hand[t]] = "answering"] /\ UNCHANGED hand
           \/ hand' = [hand EXCEPT ![t] = NULL]
    BY <1>7, WhoIsServed DEF IgReceived
  <2>2. \A u \in Range(IgThreads) : hand'[u] = NULL \/ call'[hand'[u]] = "answering"
    BY <1>0, <2>1, OneIgThread DEF CallTypes, HandTypes
  <2>3. QED
    BY <2>2 DEF NoImageLost
<1>8. ASSUME NEW t \in Consumers, NEW client \in Clients, IgRespond(t, client) PROVE NoImageLost'
  <2>1. UNCHANGED <<limit, file>> /\ (UNCHANGED hand \/ hand' = [hand EXCEPT ![t] = NULL])
    BY <1>8 DEF IgRespond
  <2>2. \A x \in Callers : call'[x] = call[x] \/ call'[x] = "away"
    BY <1>8, Responded
  <2>3. \A u \in Consumers : hand'[u] # NULL => hand'[u] = hand[u]
    BY <2>1 DEF HandTypes
  <2>4. \A x \in Callers : call'[x] = "served" => call[x] = "served"
    BY <2>2
  <2>5. QED
    BY <2>1, <2>3, <2>4, ImageFrame
<1>9. ASSUME NEW p \in Pools, Listen(p) PROVE NoImageLost'
  <2>1. UNCHANGED <<call, hand, file, limit>>
    BY <1>9 DEF Listen
  <2>2. QED
    BY <2>1, ImageFrame
<1>10. CASE PoolStep
  <2>1. ASSUME NEW t \in Consumers, Crash(t) PROVE NoImageLost'
    BY <1>1, <2>1, CrashFrame
  <2>2. QED
    BY <1>3, <1>4, <1>5, <1>6, <1>7, <1>8, <1>9, <1>10, <2>1 DEF PoolStep
<1>11. QED
  BY <1>1, <1>10, MainFrame, Steps DEF vars

-----------------------------------------------------------------------------
(* The inductive invariant.                                                *)

Joined ==
  /\ Started /\ Serving /\ HandTypes /\ CallTypes /\ OneAtProducer /\ Descriptors
  /\ SurvivesFailedCalls /\ NoImageLost

LEMMA Layers == IndInv <=> Joined
<1>1. Tested = TestedIn(call)
  BY DEF Tested, TestedIn, AfterTest
<1>2. ASSUME IndInv PROVE Joined
  <2>1. Started /\ CallTypes
    BY <1>2 DEF IndInv, TypeOK, StartedInOrder, ServedByPool, Started, CallTypes
  <2>2. HandTypes
    BY <1>2 DEF IndInv, TypeOK, FewHeld, HandTypes
  <2>3. Serving
    BY <1>2 DEF IndInv, TypeOK, ServedByPool, RightHandler, Serving, InService, Name
  <2>4. Descriptors
    BY <1>1, <1>2 DEF IndInv, TypeOK, FewHeld, StartedInOrder, Descriptors
  <2>5. QED
    BY <1>2, <2>1, <2>2, <2>3, <2>4 DEF IndInv, Joined
<1>3. ASSUME Joined PROVE IndInv
  <2>1. TypeOK
    BY <1>3 DEF Joined, Started, Serving, InService, HandTypes, CallTypes, Descriptors, TypeOK
  <2>2. StartedInOrder
    BY <1>3 DEF Joined, Started, Descriptors, StartedInOrder
  <2>3. ServedByPool /\ RightHandler
    BY <1>3 DEF Joined, Serving, InService, Name, CallTypes, ServedByPool, RightHandler
  <2>4. FewHeld
    BY <1>1, <1>3 DEF Joined, HandTypes, Descriptors, FewHeld
  <2>5. QED
    BY <1>3, <2>1, <2>2, <2>3, <2>4 DEF Joined, IndInv
<1>4. QED
  BY <1>2, <1>3

LEMMA InitHolds == ASSUME Init PROVE Joined
<1>1. \A t \in Consumers : hand[t] = NULL
  BY DEF Init
<1>2. \A who \in Callers : call[who] = "away"
  BY DEF Init
<1>3. Started
  <2>1. Len(StartOrder) \in Nat /\ 1 \in 1..(Len(StartOrder) + 1)
    BY Order
  <2>2. /\ stage = 1 /\ process = "up" /\ masked = FALSE /\ hooked = FALSE /\ shielded = {}
        /\ thread = [t \in Threads |-> "none"]
    BY DEF Init
  <2>3. \A t \in Threads : thread[t] = "none"
    BY <2>2
  <2>4. ~(stage > 2) /\ ~(stage > 3) /\ stage \in 1..(Len(StartOrder) + 1)
    BY <2>1, <2>2
  <2>5. /\ process \in {"up", "exited", "died", "killed", "crashed"} /\ masked \in BOOLEAN /\ hooked \in BOOLEAN
        /\ thread \in [Threads -> {"none", "running", "failed"}] /\ shielded \subseteq Threads
    BY <2>2
  <2>6. /\ \A t \in Threads : thread[t] = "running" => hooked /\ t \in shielded
        /\ \A k \in DOMAIN StartOrder : k >= stage /\ StartOrder[k] \in Threads =>
             thread[StartOrder[k]] = "none"
    BY <2>3
  <2>7. QED
    BY <2>4, <2>5, <2>6 DEF Started
<1>4. Serving
  BY <1>1, <1>2 DEF Serving, InService
<1>5. HandTypes /\ CallTypes
  BY DEF Init, HandTypes, CallTypes, Connected, Callers
<1>6. Descriptors
  <2>1. Holders(call) = {} /\ TestedIn(call) = {}
    BY <1>2 DEF Holders, TestedIn, AfterTest, Connected, AtProducer, Callers
  <2>2. /\ Cardinality(listening) = 0 /\ Cardinality(Holders(call)) = 0
        /\ Cardinality(exchange) = 0 /\ Cardinality(TestedIn(call)) = 0
    BY <2>1, FS_EmptySet DEF Init
  <2>3. limit \in Nat /\ DosLimit \in Nat /\ MaxFailures \in Nat
    BY ProcessAssumption DEF Init
  <2>4. Used = Cardinality(listening) + Cardinality(Holders(call)) + Cardinality(exchange)
                 + (IF file THEN 1 ELSE 0) + leaked
    BY DEF Used, Holders
  <2>5. listening = {} /\ file = FALSE /\ leaked = 0 /\ limit \in Limits
    BY DEF Init
  <2>6. Used = 0 /\ 0 <= limit
    BY <2>2, <2>3, <2>4, <2>5
  <2>7. Used <= limit /\ leaked <= MaxFailures /\ Cardinality(TestedIn(call)) <= 2 * DosLimit + 2
    BY <2>2, <2>3, <2>5, <2>6
  <2>8. QED
    BY <2>5, <2>7 DEF Descriptors
<1>7. SurvivesFailedCalls /\ NoImageLost
  BY <1>1 DEF Init, SurvivesFailedCalls, NoImageLost, Consumers
<1>9. OneAtProducer
  BY <1>2 DEF OneAtProducer, AtProducer
<1>8. QED
  BY <1>3, <1>4, <1>5, <1>6, <1>7, <1>9 DEF Joined

LEMMA StepKeeps == ASSUME Joined, [Next]_vars PROVE Joined'
<1>1. Started' /\ Serving' /\ HandTypes' /\ CallTypes' /\ OneAtProducer'
  BY StartedStep, ServingStep, OneStep DEF Joined, Descriptors
<1>2. Descriptors' /\ SurvivesFailedCalls' /\ NoImageLost'
  BY DescriptorsStep, SurvivesStep, ImageStep DEF Joined
<1>3. QED
  BY <1>1, <1>2 DEF Joined

\* The inductive invariant holds in every state the program reaches.
THEOREM Invariance == Spec => []IndInv
<1>1. Init => Joined
  BY InitHolds
<1>2. Joined /\ [Next]_vars => Joined'
  BY StepKeeps
<1>3. Joined => IndInv
  BY Layers
<1>4. QED
  BY <1>1, <1>2, <1>3, PTL DEF Spec

-----------------------------------------------------------------------------
(* The properties.                                                         *)

\* Every variable has its type, the descriptor table is never overrun, and no
\* caller is in the hands of two threads.
THEOREM TypeCorrect == Spec => []TypeOK
<1>1. IndInv => TypeOK
  BY DEF IndInv
<1>2. QED
  BY <1>1, Invariance, PTL

\* However early a thread runs after pthread_create, the pools are hooked up and
\* it serves its callers with the handler of its own pool.
THEOREM HandlersCorrect == Spec => []RightHandler
<1>1. IndInv => RightHandler
  BY DEF IndInv
<1>2. QED
  BY <1>1, Invariance, PTL

\* No call that fails ends the process: SIGPIPE is masked in every thread that
\* sends, and DieWithError() is left behind once both ports are listened on.  A
\* query that is cut short and a closing tag alone do end it, as a crash.
THEOREM FailedCallsSurvived == Spec => []SurvivesFailedCalls
<1>1. IndInv => SurvivesFailedCalls
  BY DEF IndInv
<1>2. QED
  BY <1>1, Invariance, PTL

\* No accept(), socket() or open() ever finds a descriptor table of the size
\* Enough full, for every threshold: a generator that is refused holds one only
\* until it has been tested, and those that wait for a round are within the limit.
THEOREM RoomAlways == Spec => []TableHasRoom
<1>1. IndInv => TableHasRoom
  BY Layers, Room DEF Joined, TableHasRoom
<1>2. QED
  BY <1>1, Invariance, PTL

\* A descriptor table of the size Enough has room for every image file, however
\* many generators call and wait for a round.
THEOREM ImagesKept == Spec => []NoImageLost
<1>1. IndInv => NoImageLost
  BY DEF IndInv
<1>2. QED
  BY <1>1, Invariance, PTL

=============================================================================
