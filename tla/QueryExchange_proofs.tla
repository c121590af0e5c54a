------------------------- MODULE QueryExchange_proofs -------------------------
(***************************************************************************)
(* The handler of module Exchanges implements the steps of module          *)
(* QueryPool: every step of the one is a step of the other or none at all. *)
(***************************************************************************)
EXTENDS QueryExchange, Scanner_proofs

-----------------------------------------------------------------------------
(* What the mapping needs besides the invariants of Exchanges.             *)

Prepared == quPc \in {"send", "send_zero", "await"} => actuator = "open"

Reachable == Joined /\ OneSided /\ ScanResult /\ Prepared

LEMMA PreparedStep == ASSUME Reachable, [Next]_vars PROVE Prepared'
<1>1. Joined /\ Prepared
  BY DEF Reachable
<1>2. CASE QuStep
  <2>1. ASSUME NEW n, QuReceive(n) PROVE quPc' \in {"recv", "connect"}
    BY <2>1 DEF QuReceive, QuGoto
  <2>2. CASE QuConnect
    BY <2>2 DEF QuConnect, QuGoto, ConnectOutcomes, Prepared
  <2>3. ASSUME NEW n, QuSend(n) PROVE actuator = "open" /\ UNCHANGED actuator
    BY <1>1, <2>3 DEF QuSend, QuGoto, Prepared
  <2>4. ASSUME NEW n, QuAwait(n), quPc' = "await" PROVE actuator' = "open"
    <3>1. n = GoesOn /\ quPc = "await"
      BY <2>4 DEF QuAwait, QuGoto
    <3>2. ~ (n > 0)
      BY <3>1 DEF GoesOn
    <3>3. QED
      BY <1>1, <2>4, <3>1, <3>2 DEF QuAwait, Prepared
  <2>5. ASSUME NEW n, QuAwait(n) PROVE quPc' \in {"await", "pend"}
    BY <2>5 DEF QuAwait, QuGoto
  <2>6. ASSUME QuPending PROVE quPc' = "done"
    BY <2>6 DEF QuPending, QuGoto
  <2>7. QED
    BY <1>2, <2>1, <2>2, <2>3, <2>4, <2>5, <2>6 DEF QuStep, Prepared
<1>3. CASE UNCHANGED quVars
  BY <1>1, <1>3 DEF Prepared, quVars
<1>4. IgStep => UNCHANGED quVars
  BY <1>1, ReplyStep DEF Joined
<1>5. ASSUME NEW s \in Sockets, PeerStep(s) PROVE UNCHANGED quVars
  BY <1>5 DEF PeerStep
<1>6. QED
  BY <1>2, <1>3, <1>4, <1>5 DEF Next, Prepared, vars

LEMMA AlwaysReachable == Spec => []Reachable
<1>1. Init => Joined /\ OneSided /\ ScanResult /\ Prepared
  <2>1. Init => quPc \in {"recv", "done"}
    BY DEF Init
  <2>2. QED
    BY <2>1, ScanFirst, InitHolds DEF Prepared
<1>2. Reachable /\ [Next]_vars => Reachable'
  <2>1. Joined /\ OneSided /\ ScanResult /\ [Next]_vars => Joined' /\ OneSided' /\ ScanResult'
    BY StepKeeps, ScanKept
  <2>2. QED
    BY <2>1, PreparedStep DEF Reachable
<1>3. QED
  BY <1>1, <1>2, PTL DEF Spec, Reachable

-----------------------------------------------------------------------------
(* The steps of the pool.                                                  *)

\* What a step of the pool sees of the state, and what it may leave alone.
Peer == end["client"]
View == <<poolPeer, poolAsked, poolPc, poolPend, poolCur, poolActuator, poolCrashed>>
Steps == FittingStep /\ OverflowingStep

LEMMA AskedKept ==
  ASSUME UNCHANGED script, arrived'["client"] = arrived["client"]
  PROVE  Asked' = Asked
BY DEF Asked, AskedFor, Readable, QueryEnd, QueryEnds, Query

\* A step the pool does not see.
LEMMA Stutters == ASSUME UNCHANGED View PROVE Steps
BY DEF View, Steps, FittingStep, OverflowingStep, poolSock,
       Fitting!sharedVars, Fitting!queryVars, Fitting!peerVars, Fitting!quQueues,
       Overflowing!sharedVars, Overflowing!queryVars, Overflowing!peerVars, Overflowing!quQueues

LEMMA Unseen ==
  ASSUME UNCHANGED <<script, actuator, crashed>>, Peer' = Peer,
         arrived'["client"] = arrived["client"],
         quPc' = quPc \/ (quPc \in {"send", "send_zero"} /\ quPc' \in {"send_zero", "await"})
  PROVE  Steps
<1>1. UNCHANGED <<poolPeer, poolAsked, poolActuator, poolCrashed>>
  BY AskedKept DEF poolPeer, poolAsked, poolActuator, poolCrashed, Peer
<1>2. UNCHANGED <<poolPc, poolPend, poolCur>>
  <2>1. CASE quPc' = quPc
    BY <2>1 DEF poolPc, poolPend, poolCur
  <2>2. CASE quPc \in {"send", "send_zero"} /\ quPc' \in {"send_zero", "await"}
    BY <2>2 DEF poolPc, poolPend, poolCur
  <2>3. QED
    BY <2>1, <2>2
<1>3. QED
  BY <1>1, <1>2, Stutters DEF View

\* The client sends the end of its query, closes, or its connection breaks.
LEMMA ClientMoves ==
  ASSUME UNCHANGED <<script, quVars, poolCrashed>>,
         \/ Peer = "up" /\ Peer' = "up"
         \/ Peer = "up" /\ Peer' = "gone" /\ Asked' = Asked
         \/ Peer \in {"up", "gone"} /\ Peer' = "reset" /\ Asked' = Asked,
         Asked => Asked'
  PROVE  Steps
<1>1. UNCHANGED <<poolPc, poolPend, poolCur, poolActuator, poolSock, poolCrashed>>
  BY DEF quVars, poolPc, poolPend, poolCur, poolActuator, poolSock
<1>2. /\ poolPeer["client"] = Peer
      /\ poolPeer' = [poolPeer EXCEPT !["client"] = Peer']
      /\ Peer' = Peer => poolPeer' = poolPeer
  BY DEF poolPeer, Peer
<1>3. /\ Asked' = Asked => poolAsked' = poolAsked
      /\ ~Asked /\ Asked' => "client" \notin poolAsked /\ poolAsked' = poolAsked \cup {"client"}
  BY DEF poolAsked
<1>4. CASE Peer = "up" /\ Peer' = "up" /\ Asked' = Asked
  BY <1>1, <1>2, <1>3, <1>4, Stutters DEF View
<1>5. CASE Peer = "up" /\ Peer' = "up" /\ ~Asked /\ Asked'
  <2>1. Fitting!Ask("client") /\ Overflowing!Ask("client")
    BY <1>1, <1>2, <1>3, <1>5
    DEF Fitting!Ask, Fitting!peerRest, Fitting!quQueues,
        Overflowing!Ask, Overflowing!peerRest, Overflowing!quQueues
  <2>2. QED
    BY <1>1, <2>1
    DEF Steps, FittingStep, OverflowingStep, Fitting!PeerStep, Overflowing!PeerStep,
        Fitting!queryVars, Overflowing!queryVars
<1>6. CASE Peer = "up" /\ Peer' = "gone" /\ Asked' = Asked
  <2>1. Fitting!HangUp("client") /\ Overflowing!HangUp("client")
    BY <1>1, <1>2, <1>3, <1>6
    DEF Fitting!HangUp, Fitting!peerRest, Fitting!quQueues,
        Overflowing!HangUp, Overflowing!peerRest, Overflowing!quQueues
  <2>2. QED
    BY <1>1, <2>1
    DEF Steps, FittingStep, OverflowingStep, Fitting!PeerStep, Overflowing!PeerStep,
        Fitting!Peers, Overflowing!Peers, Fitting!queryVars, Overflowing!queryVars
<1>7. CASE Peer \in {"up", "gone"} /\ Peer' = "reset" /\ Asked' = Asked
  <2>1. Fitting!Break("client") /\ Overflowing!Break("client")
    BY <1>1, <1>2, <1>3, <1>7
    DEF Fitting!Break, Fitting!peerRest, Fitting!quQueues,
        Overflowing!Break, Overflowing!peerRest, Overflowing!quQueues
  <2>2. QED
    BY <1>1, <2>1
    DEF Steps, FittingStep, OverflowingStep, Fitting!PeerStep, Overflowing!PeerStep,
        Fitting!Peers, Overflowing!Peers, Fitting!queryVars, Overflowing!queryVars
<1>8. Asked \in BOOLEAN /\ Asked' \in BOOLEAN
  BY DEF Asked
<1>9. QED
  BY <1>4, <1>5, <1>6, <1>7, <1>8

\* The consumer moves on, and nothing that its peer sees changes.
LEMMA ConsumerMoves ==
  ASSUME UNCHANGED <<script, crashed>>, ~crashed, Peer' = Peer,
         arrived'["client"] = arrived["client"],
         \/ quPc = "recv" /\ quPc' = "connect" /\ Asked /\ actuator' = actuator
         \/ quPc = "connect" /\ quPc' = "send" /\ actuator' = "open"
         \/ quPc = "connect" /\ quPc' = "pend" /\ actuator' \in {"none", "open"}
         \/ quPc = "await" /\ quPc' = "pend" /\ actuator' \in {"closed", "open"}
         \/ quPc = "pend" /\ quPc' = "done" /\ actuator' = actuator
  PROVE  Steps
<1>1. UNCHANGED <<poolPeer, poolAsked, poolSock, poolCrashed>>
  BY AskedKept DEF poolPeer, poolAsked, poolSock, poolCrashed, Peer
<1>2. /\ poolActuator' = [poolActuator EXCEPT !["client"] = actuator']
      /\ actuator' = actuator => poolActuator' = poolActuator
  BY DEF poolActuator
<1> DEFINE Stands(pc) == poolPc["thread"] = pc
           Goes(pc) == poolPc' = [poolPc EXCEPT !["thread"] = pc]
<1>3. CASE quPc = "recv" /\ quPc' = "connect" /\ Asked /\ actuator' = actuator
  <2>1. Stands("recv") /\ Goes("connect") /\ poolCur["thread"] = "client" /\ "client" \in poolAsked
    BY <1>3 DEF poolPc, poolCur, poolAsked
  <2>2. UNCHANGED <<poolPend, poolCur, poolActuator>>
    BY <1>2, <1>3 DEF poolPend, poolCur
  <2>3. Fitting!QuReceive("thread") /\ Overflowing!QuReceive("thread")
    BY <1>1, <2>1, <2>2
    DEF Fitting!QuReceive, Fitting!QuGoto, Fitting!sharedVars, Fitting!peerVars, Fitting!quQueues,
        Overflowing!QuReceive, Overflowing!QuGoto, Overflowing!sharedVars,
        Overflowing!peerVars, Overflowing!quQueues
  <2>4. QED
    BY <2>3
    DEF Steps, FittingStep, OverflowingStep, Fitting!QueryPoolStep, Fitting!QuConsumer,
        Overflowing!QueryPoolStep, Overflowing!QuConsumer
<1>4. CASE quPc = "connect" /\ quPc' = "send" /\ actuator' = "open"
  <2>1. Stands("connect") /\ Goes("await") /\ poolCur["thread"] = "client"
    BY <1>4 DEF poolPc, poolCur
  <2>2. /\ UNCHANGED <<poolPend, poolCur>>
        /\ poolActuator' = [poolActuator EXCEPT !["client"] = "open"]
    BY <1>2, <1>4 DEF poolPend, poolCur
  <2>3. Fitting!QuForward("thread") /\ Overflowing!QuForward("thread")
    BY <1>1, <2>1, <2>2
    DEF Fitting!QuForward, Fitting!QuGoto, Fitting!sharedVars, Fitting!peerVars, Fitting!quQueues,
        Overflowing!QuForward, Overflowing!QuGoto, Overflowing!sharedVars,
        Overflowing!peerVars, Overflowing!quQueues
  <2>4. QED
    BY <2>3
    DEF Steps, FittingStep, OverflowingStep, Fitting!QueryPoolStep, Fitting!QuConsumer,
        Overflowing!QueryPoolStep, Overflowing!QuConsumer
<1>5. CASE quPc = "connect" /\ quPc' = "pend" /\ actuator' \in {"none", "open"}
  <2>1. Stands("connect") /\ Goes("pend") /\ poolCur["thread"] = "client"
    BY <1>5 DEF poolPc, poolCur
  <2>2. /\ UNCHANGED <<poolPend, poolCur>>
        /\ \E s \in {"none", "open"} : poolActuator' = [poolActuator EXCEPT !["client"] = s]
    BY <1>2, <1>5 DEF poolPend, poolCur
  <2>3. Fitting!QuForwardFails("thread") /\ Overflowing!QuForwardFails("thread")
    BY <1>1, <2>1, <2>2
    DEF Fitting!QuForwardFails, Fitting!QuGoto, Fitting!sharedVars, Fitting!peerVars,
        Fitting!quQueues, Overflowing!QuForwardFails, Overflowing!QuGoto, Overflowing!sharedVars,
        Overflowing!peerVars, Overflowing!quQueues
  <2>4. QED
    BY <2>3
    DEF Steps, FittingStep, OverflowingStep, Fitting!QueryPoolStep, Fitting!QuConsumer,
        Overflowing!QueryPoolStep, Overflowing!QuConsumer
<1>6. CASE quPc = "await" /\ quPc' = "pend" /\ actuator' \in {"closed", "open"}
  <2>1. Stands("await") /\ Goes("pend") /\ poolCur["thread"] = "client"
    BY <1>6 DEF poolPc, poolCur
  <2>2. /\ UNCHANGED <<poolPend, poolCur>>
        /\ \E s \in {"closed", "open"} : poolActuator' = [poolActuator EXCEPT !["client"] = s]
    BY <1>2, <1>6 DEF poolPend, poolCur
  <2>3. Fitting!QuAnswered("thread") /\ Overflowing!QuAnswered("thread")
    BY <1>1, <2>1, <2>2
    DEF Fitting!QuAnswered, Fitting!QuGoto, Fitting!sharedVars, Fitting!peerVars,
        Fitting!quQueues, Overflowing!QuAnswered, Overflowing!QuGoto, Overflowing!sharedVars,
        Overflowing!peerVars, Overflowing!quQueues
  <2>4. QED
    BY <2>3
    DEF Steps, FittingStep, OverflowingStep, Fitting!QueryPoolStep, Fitting!QuConsumer,
        Overflowing!QueryPoolStep, Overflowing!QuConsumer
<1>7. CASE quPc = "pend" /\ quPc' = "done" /\ actuator' = actuator
  <2>1. Stands("pend") /\ Goes("take") /\ poolCur["thread"] = "client"
    BY <1>7 DEF poolPc, poolCur
  <2>2. /\ poolPend' = Append(poolPend, "client")
        /\ poolCur' = [poolCur EXCEPT !["thread"] = NULL]
        /\ UNCHANGED poolActuator
    BY <1>2, <1>7 DEF poolPend, poolCur
  <2>3. Fitting!QuPending("thread") /\ Overflowing!QuPending("thread")
    BY <1>1, <2>1, <2>2
    DEF Fitting!QuPending, Fitting!QuGoto, Fitting!peerVars,
        Overflowing!QuPending, Overflowing!QuGoto, Overflowing!peerVars
  <2>4. QED
    BY <2>3
    DEF Steps, FittingStep, OverflowingStep, Fitting!QueryPoolStep, Fitting!QuConsumer,
        Overflowing!QueryPoolStep, Overflowing!QuConsumer
<1>8. QED
  BY <1>3, <1>4, <1>5, <1>6, <1>7

\* The process dies in xml_recv_query: only for a client that has left too
\* early or is broken, or whose query does not fit.
LEMMA ProcessDies ==
  ASSUME UNCHANGED <<script, quVars>>, Peer' = Peer, arrived'["client"] = arrived["client"],
         quPc = "recv", crashed' = TRUE, ~crashed
  PROVE  /\ Peer = "reset" \/ (Peer = "gone" /\ ~Asked) => Steps
         /\ Asked => OverflowingStep
<1>1. UNCHANGED <<poolPeer, poolAsked, poolSock, poolPend, poolPc, poolCur, poolActuator>>
  BY AskedKept DEF poolPeer, poolAsked, poolSock, Peer, quVars, poolPend, poolPc, poolCur, poolActuator
<1>2. /\ poolPc["thread"] = "recv" /\ poolCur["thread"] = "client" /\ poolPeer["client"] = Peer
      /\ "client" \in poolAsked <=> Asked
      /\ ~poolCrashed /\ poolCrashed' = TRUE
  BY DEF poolPc, poolCur, poolPeer, poolAsked, poolCrashed, quVars, Peer
<1>3. ASSUME Peer = "reset" \/ (Peer = "gone" /\ ~Asked) PROVE Steps
  <2>1. Fitting!QuReceiveBroken("thread") /\ Overflowing!QuReceiveBroken("thread")
    BY <1>1, <1>2, <1>3
    DEF Fitting!QuReceiveBroken, Fitting!peerVars, Fitting!quQueues, Fitting!queryVars,
        Overflowing!QuReceiveBroken, Overflowing!peerVars, Overflowing!quQueues, Overflowing!queryVars
  <2>2. QED
    BY <2>1
    DEF Steps, FittingStep, OverflowingStep, Fitting!QueryPoolStep, Fitting!QuConsumer,
        Overflowing!QueryPoolStep, Overflowing!QuConsumer
<1>4. ASSUME Asked PROVE OverflowingStep
  <2>1. Overflowing!QuReceiveBroken("thread")
    BY <1>1, <1>2, <1>4
    DEF Overflowing!QuReceiveBroken, Overflowing!peerVars, Overflowing!quQueues, Overflowing!queryVars
  <2>2. QED
    BY <2>1 DEF OverflowingStep, Overflowing!QueryPoolStep, Overflowing!QuConsumer
<1>5. QED
  BY <1>3, <1>4

Refines == IF Readable THEN FittingStep ELSE OverflowingStep

\* The query is found once all of it has arrived, and a process that dies has a
\* reason to.
LEMMA ReceiveRefines == ASSUME Reachable, NEW n, QuReceive(n) PROVE Refines
<1> DEFINE m == read'["client"]
           a == arrived["client"]
<1>1. /\ UberRecv("client", Delimiter, n) /\ NetTyped /\ NetTyped'
      /\ UNCHANGED <<script, arrived, end, taken>>
  <2>1. UberRecv("client", Delimiter, n) /\ NetTyped
    BY DEF QuReceive, Reachable, Joined, Typed
  <2>2. QED
    BY <2>1, OneReceive
<1>2. /\ "client" \in Sockets /\ Query \in Seq(Tokens)
      /\ m \in Nat /\ a \in Nat /\ m <= a /\ a <= Len(Query) /\ m <= BufferSize
  BY <1>1, ExchangesAssumption DEF NetTyped, Query
<1>3. Peer' = Peer /\ arrived'["client"] = arrived["client"] /\ Asked' = Asked
  BY <1>1, AskedKept DEF Peer
<1>4. Received("client")' = SubSeq(Query, 1, m)
  BY <1>1 DEF Received, Query
<1> HIDE DEF m, a
<1>5. m \in 0..Len(Query) /\ BufferSize \in Nat \ {0, 1}
  BY <1>2, NetworkingAssumption
<1> DEFINE found == Found(Received("client")', Delimiter)
<1>6. /\ found <=> QueryEnds # {} /\ QueryEnd <= m
      /\ found => QueryEnd \in Nat
  BY <1>2, <1>4, <1>5, DelimiterFound
<1>7. Readable => QueryEnds # {} /\ QueryEnd < BufferSize
  <2>1. QueryEnds = {} => QueryEnd = BufferSize
    BY DEF QueryEnd
  <2>2. QED
    BY <1>5, <2>1 DEF Readable
<1>8. Readable => QueryEnd \in Nat
  <2>1. QueryEnds \in SUBSET Nat
    BY <1>2 DEF QueryEnds
  <2>2. QED
    BY <1>7, <2>1, LeastOf DEF QueryEnd
<1>9. Asked <=> a >= (IF Readable THEN QueryEnd ELSE BufferSize - 1)
  BY DEF Asked, AskedFor, a
<1> HIDE DEF found
<1>10. found => Asked
  <2>1. ASSUME found PROVE Asked
    <3>1. QueryEnd \in Nat /\ QueryEnd <= m
      BY <1>6, <2>1
    <3>2. Readable <=> QueryEnd < BufferSize
      BY DEF Readable
    <3>3. QED
      BY <1>2, <1>5, <1>9, <3>1, <3>2
  <2>2. QED
    BY <2>1
<1>11. CASE n = GoesOn /\ QuGoto("recv", "recv") /\ UNCHANGED <<rules, crashed>>
  <2>1. quPc' = quPc /\ UNCHANGED actuator
    BY <1>11 DEF QuGoto, QuReceive
  <2>2. Steps
    BY <1>1, <1>3, <1>11, <2>1, Unseen
  <2>3. QED
    BY <2>2 DEF Steps, Refines
<1>12. CASE found /\ QuGoto("recv", "connect") /\ UNCHANGED crashed
  <2>1. quPc = "recv" /\ quPc' = "connect" /\ actuator' = actuator /\ ~crashed
    BY <1>12 DEF QuGoto, QuReceive
  <2>2. Steps
    BY <1>1, <1>3, <1>10, <1>12, <2>1, ConsumerMoves
  <2>3. QED
    BY <2>2 DEF Steps, Refines
<1>13. CASE /\ n = Failure \/ (n # GoesOn /\ ~found)
            /\ QuGoto("recv", "recv") /\ crashed' = TRUE /\ UNCHANGED rules
  <2>1. /\ Peer = "reset" \/ (Peer = "gone" /\ ~Asked) => Steps
        /\ Asked => OverflowingStep
    <3>1. quPc = "recv" /\ UNCHANGED quVars /\ crashed' = TRUE /\ ~crashed
      BY <1>13 DEF QuGoto, QuReceive, quVars
    <3>2. QED
      BY <1>1, <1>3, <3>1, ProcessDies
  <2>2. CASE /\ \E k \in 1..Room("client") : RecvSome("client", k)
             /\ n = IF found \/ NearlyFull(m) THEN m ELSE GoesOn
    <3>1. n # Failure /\ m # Failure
      BY <1>2, <2>2 DEF GoesOn, Failure
    <3>2. ~found /\ NearlyFull(m)
      BY <1>13, <2>2, <3>1
    <3>3. m >= BufferSize - 1
      BY <3>2 DEF NearlyFull
    <3>4. ~Readable
      <4>1. ASSUME Readable PROVE FALSE
        <5>1. QueryEnds # {} /\ QueryEnd < BufferSize /\ ~(QueryEnd <= m)
          BY <1>6, <1>7, <3>2, <4>1
        <5>2. QueryEnd \in Nat
          BY <1>8, <4>1
        <5>3. QED
          BY <1>2, <1>5, <3>3, <5>1, <5>2
      <4>2. QED
        BY <4>1
    <3>5. Asked
      BY <1>2, <1>5, <1>9, <3>3, <3>4
    <3>6. QED
      BY <2>1, <3>4, <3>5 DEF Refines
  <2>3. CASE EndOfStream("client") /\ n = read["client"] /\ UNCHANGED netVars
    <3>1. Peer = "gone" /\ m = a /\ n = m
      BY <2>3 DEF EndOfStream, netVars, Peer, m, a
    <3>2. ~found
      BY <1>2, <1>13, <3>1 DEF Failure
    <3>3. Readable => ~Asked
      BY <1>2, <1>6, <1>7, <1>8, <1>9, <3>1, <3>2
    <3>4. CASE Asked
      BY <2>1, <3>3, <3>4 DEF Refines
    <3>5. CASE ~Asked
      BY <2>1, <3>1, <3>5 DEF Steps, Refines
    <3>6. QED
      BY <3>4, <3>5
  <2>4. CASE Broken("client") /\ n = Failure /\ UNCHANGED netVars
    BY <2>1, <2>4 DEF Broken, Peer, Steps, Refines
  <2>5. QED
    BY <1>1, <2>2, <2>3, <2>4 DEF UberRecv, found, m
<1>14. QED
  BY <1>11, <1>12, <1>13 DEF QuReceive, found

LEMMA QueryRefines == ASSUME Reachable, QuStep PROVE Refines
<1>1. NetTyped /\ "client" \in Sockets /\ "actuator" \in Sockets
      /\ rules \in Seq(Tokens) /\ <<Zero>> \in Seq(Tokens)
  BY TokenTypes, ExchangesAssumption DEF Reachable, Joined, Typed, QuTyped
<1>2. CASE QuConnect
  <2>1. /\ UNCHANGED <<script, crashed, end, arrived>> /\ ~crashed /\ quPc = "connect"
        /\ \/ quPc' = "send" /\ actuator' = "open"
           \/ quPc' = "pend" /\ actuator' \in {"none", "open"}
    BY <1>2 DEF QuConnect, QuGoto, ConnectOutcomes, netVars
  <2>2. QED
    BY <2>1, ConsumerMoves DEF Peer, Steps, Refines
<1>3. ASSUME NEW n, QuAwait(n) PROVE Refines
  <2>1. UberRecv("actuator", CloseMark, n) /\ quPc = "await" /\ ~crashed /\ UNCHANGED crashed
    BY <1>3 DEF QuAwait, QuGoto
  <2>2. UNCHANGED <<script, arrived, end>>
    BY <1>1, <2>1, OneReceive
  <2>3. actuator = "open"
    BY <2>1 DEF Reachable, Prepared
  <2>4. CASE n = GoesOn
    <3>1. quPc' = quPc /\ actuator' = actuator
      BY <1>3, <2>1, <2>4 DEF QuAwait, QuGoto, GoesOn
    <3>2. QED
      BY <2>1, <2>2, <3>1, Unseen DEF Peer, Steps, Refines
  <2>5. CASE n # GoesOn
    <3>1. quPc' = "pend" /\ actuator' \in {"closed", "open"}
      BY <1>3, <2>3, <2>5 DEF QuAwait, QuGoto
    <3>2. QED
      BY <2>1, <2>2, <3>1, ConsumerMoves DEF Peer, Steps, Refines
  <2>6. QED
    BY <2>4, <2>5
<1>4. CASE QuPending
  <2>1. /\ UNCHANGED <<script, crashed, end, arrived>> /\ ~crashed
        /\ quPc = "pend" /\ quPc' = "done" /\ actuator' = actuator
    BY <1>4 DEF QuPending, QuGoto, netVars
  <2>2. QED
    BY <2>1, ConsumerMoves DEF Peer, Steps, Refines
<1>5. ASSUME NEW n, QuSend(n) PROVE Refines
  <2>1. PICK data \in {rules, <<Zero>>} : Send("actuator", data, n)
    BY <1>5 DEF QuSend
  <2>2. data \in Seq(Tokens)
    BY <1>1, <2>1
  <2>3. UNCHANGED <<script, arrived>> /\ end'["client"] = end["client"]
    <3>1. UNCHANGED script /\ \A x \in Sockets : x # "actuator" => end'[x] = end[x]
      BY <1>1, <2>1, <2>2, Sends
    <3>2. UNCHANGED arrived
      BY <2>1 DEF Send, netVars
    <3>3. QED
      BY <1>1, <3>1, <3>2
  <2>4. quPc \in {"send", "send_zero"} /\ quPc' \in {"send_zero", "await"}
        /\ UNCHANGED <<actuator, crashed>>
    BY <1>5 DEF QuSend, QuGoto
  <2>5. QED
    BY <2>3, <2>4, Unseen DEF Peer, Steps, Refines
<1>6. QED
  BY <1>2, <1>3, <1>4, <1>5, ReceiveRefines DEF QuStep

\* The reply is no concern of the query pool, but that the connection to its
\* client may turn out to be broken.
LEMMA ReplyRefines == ASSUME Reachable, IgStep PROVE Refines
<1>1. NetTyped /\ "client" \in Sockets /\ "generator" \in Sockets
      /\ file \in Seq(Tokens) /\ <<Zero>> \in Seq(Tokens) /\ Len(file) \in Nat
  BY TokenTypes, ExchangesAssumption DEF Reachable, Joined, Typed, IgTyped
<1>2. UNCHANGED <<quVars, script, arrived>>
  <2>1. UNCHANGED <<quVars, script>>
    BY ReplyStep DEF Reachable, Joined
  <2>2. UNCHANGED arrived
    BY DEF IgStep, IgReceive, IgReceived, IgScan, IgSendTags, IgSendZero, IgSendImage,
           RecvSome, Send, netVars
  <2>3. QED
    BY <2>1, <2>2
<1>3. Asked' = Asked
  BY <1>2, AskedKept
<1>4. UNCHANGED poolCrashed
  <2>1. igPc # "done"
    BY DEF IgStep, IgReceive, IgReceived, IgScan, IgSendTags, IgSendZero, IgSendImage, IgGoto
  <2>2. quPc = "done" /\ quPc' = "done"
    BY <1>2, <2>1 DEF Reachable, OneSided, quVars
  <2>3. QED
    BY <2>2 DEF poolCrashed
<1>5. Peer' = Peer \/ (Peer \in {"up", "gone"} /\ Peer' = "reset")
  <2>1. end \in [Sockets -> {"up", "gone", "reset"}]
    BY <1>1 DEF NetTyped
  <2>2. CASE IgReceive \/ IgReceived \/ IgScan
    BY <2>2 DEF IgReceive, IgReceived, IgScan, RecvSome, netVars, Peer
  <2>3. ASSUME NEW n \in Int, IgSendTags(n) \/ IgSendZero(n) \/ IgSendImage(n)
        PROVE  Peer' = Peer \/ (Peer \in {"up", "gone"} /\ Peer' = "reset")
    BY <1>1, <2>1, <2>3 DEF IgSendTags, IgSendZero, IgSendImage, Send, Broken, netVars, Peer
  <2>4. \A n \in Failure..Len(ResponseTags(Len(file)) \o file) : n \in Int
    OBVIOUS
  <2>5. QED
    BY <2>2, <2>3, <2>4 DEF IgStep
<1>6. CASE Peer' = Peer
  <2>1. UNCHANGED View
    BY <1>2, <1>3, <1>4, <1>6
    DEF View, poolPeer, poolAsked, poolPc, poolPend, poolCur, poolActuator, quVars, Peer
  <2>2. Steps
    BY <2>1, Stutters
  <2>3. QED
    BY <2>2 DEF Steps, Refines
<1>7. CASE Peer \in {"up", "gone"} /\ Peer' = "reset"
  <2>1. Steps
    BY <1>2, <1>3, <1>4, <1>7, ClientMoves
  <2>2. QED
    BY <2>1 DEF Steps, Refines
<1>8. QED
  BY <1>5, <1>6, <1>7

LEMMA PeerRefines == ASSUME Reachable, NEW s \in Sockets, PeerStep(s) PROVE Refines
<1>1. NetTyped /\ "client" \in Sockets
  BY ExchangesAssumption DEF Reachable, Joined, Typed
<1>2. UNCHANGED <<script, quVars, crashed, poolCrashed>>
  <2>1. UNCHANGED <<script, quVars, crashed>>
    BY <1>1, Peers
  <2>2. QED
    BY <2>1 DEF poolCrashed, quVars
<1>3. /\ arrived \in [Sockets -> Nat] /\ end \in [Sockets -> {"up", "gone", "reset"}]
      /\ script \in [Sockets -> Seq(Tokens)]
  BY <1>1 DEF NetTyped
<1>4. CASE s = "client" /\ PeerSends(s)
  <2>1. /\ Peer = "up" /\ Peer' = "up"
        /\ arrived'["client"] = arrived["client"] + 1 /\ arrived["client"] \in Nat
    BY <1>1, <1>3, <1>4 DEF PeerSends, Peer
  <2>2. AskedFor' = AskedFor /\ AskedFor \in Int
    <3>1. AskedFor' = AskedFor
      BY <1>2 DEF AskedFor, Readable, QueryEnd, QueryEnds, Query
    <3>2. QueryEnd \in Int
      <4>1. QueryEnds \in SUBSET Nat /\ BufferSize \in Nat
        <5>1. Query \in Seq(Tokens)
          BY <1>1, <1>3 DEF Query
        <5>2. QED
          BY <5>1, NetworkingAssumption DEF QueryEnds
      <4>2. QueryEnds # {} => Min(QueryEnds) \in Nat
        BY <4>1, LeastOf
      <4>3. QED
        BY <4>1, <4>2 DEF QueryEnd
    <3>3. QED
      BY <3>1, <3>2, NetworkingAssumption DEF AskedFor
  <2>3. Asked => Asked'
    BY <2>1, <2>2 DEF Asked
  <2>4. QED
    BY <1>2, <2>1, <2>3, ClientMoves DEF Steps, Refines
<1>5. CASE s = "client" /\ (PeerCloses(s) \/ PeerBreaks(s))
  <2>1. UNCHANGED arrived
    BY <1>5 DEF PeerCloses, PeerBreaks
  <2>2. \/ Peer = "up" /\ Peer' = "gone"
        \/ Peer \in {"up", "gone"} /\ Peer' = "reset"
    BY <1>1, <1>3, <1>5 DEF PeerCloses, PeerBreaks, Peer
  <2>3. Asked' = Asked
    BY <1>2, <2>1, AskedKept
  <2>4. QED
    BY <1>2, <2>2, <2>3, ClientMoves DEF Steps, Refines
<1>6. CASE s # "client"
  <2>1. arrived'["client"] = arrived["client"] /\ Peer' = Peer
    BY <1>1, <1>3, <1>6 DEF PeerStep, PeerSends, PeerCloses, PeerBreaks, Peer
  <2>2. QED
    BY <1>2, <2>1, Unseen DEF quVars, Steps, Refines
<1>7. QED
  BY <1>4, <1>5, <1>6 DEF PeerStep

\* However the query is cut into pieces, the handler does what one of the steps
\* of QueryPool does, or nothing the pool sees.
THEOREM Implementation == Spec => ImplementsQueryPool
<1>1. Reachable /\ [Next]_vars => [IF Readable THEN FittingStep ELSE OverflowingStep]_vars
  BY QueryRefines, ReplyRefines, PeerRefines DEF Next, Refines
<1>2. QED
  BY <1>1, AlwaysReachable, PTL DEF Spec, ImplementsQueryPool

=============================================================================
