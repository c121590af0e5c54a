------------------------------ MODULE Networking ------------------------------
(***************************************************************************)
(* Class IANetworking over TCP connections.  A connection is two streams   *)
(* of tokens: what its peer sends arrives bit by bit and is received in    *)
(* pieces of any size; what the program sends is taken by the kernel, in   *)
(* part only if the connection breaks.                                     *)
(***************************************************************************)
EXTENDS Messages

CONSTANTS
  Sockets,    \* the connections
  BufferSize  \* DEFAULT_RECV_BYTE_SIZE

ASSUME NetworkingAssumption == BufferSize \in Nat \ {0, 1}

VARIABLES
  script,   \* script[s]: all that the peer of s would send
  arrived,  \* arrived[s]: how much of it has arrived
  read,     \* read[s]: how much of it the program has received
  end,      \* end[s]: "up"; "gone" once the peer has closed; "reset" if broken
  taken     \* taken[s]: what the kernel has taken from the program to send

netVars == <<script, arrived, read, end, taken>>

-----------------------------------------------------------------------------
(* The peers                                                               *)

PeerSends(s) ==
  /\ end[s] = "up" /\ arrived[s] < Len(script[s])
  /\ arrived' = [arrived EXCEPT ![s] = @ + 1]
  /\ UNCHANGED <<script, read, end, taken>>

PeerCloses(s) ==
  /\ end[s] = "up"
  /\ end' = [end EXCEPT ![s] = "gone"]
  /\ UNCHANGED <<script, arrived, read, taken>>

PeerBreaks(s) ==
  /\ end[s] # "reset"
  /\ end' = [end EXCEPT ![s] = "reset"]
  /\ UNCHANGED <<script, arrived, read, taken>>

-----------------------------------------------------------------------------
(* Receiving                                                               *)

\* What the program has received from s, which is what its buffer holds: it
\* makes one call of uber_recv for each connection.
Received(s) == SubSeq(script[s], 1, read[s])

\* recv() returns k > 0, returns 0, or fails.
RecvSome(s, k) ==
  /\ k \in 1..(arrived[s] - read[s])
  /\ read' = [read EXCEPT ![s] = @ + k]
  /\ UNCHANGED <<script, arrived, end, taken>>

\* Mutant of EndOfStream: the end of the stream does not end the loop.
EndIgnored(s) == FALSE

EndOfStream(s) == end[s] = "gone" /\ read[s] = arrived[s]
Broken(s) == end[s] = "reset"

GoesOn == -2
Failure == -1

\* Mutant of Room: the buffer is taken to be empty each time.
WholeBuffer(s) == BufferSize

\* max_to_receive - totalBytesRecv
Room(s) == BufferSize - read[s]

\* Mutant of NearlyFull: one byte less.
AlmostNearlyFull(n) == n >= BufferSize - 2

NearlyFull(n) == n >= BufferSize - 1

\* One turn of the loop of uber_recv(): n is what the call returns if it is
\* the last.  The whole buffer is searched again after each piece.
UberRecv(s, delimit, n) ==
  \/ /\ \E k \in 1..Room(s) : RecvSome(s, k)
     /\ n = IF Found(Received(s)', delimit) \/ NearlyFull(read'[s]) THEN read'[s] ELSE GoesOn
  \/ EndOfStream(s) /\ n = read[s] /\ UNCHANGED netVars
  \/ Broken(s) /\ n = Failure /\ UNCHANGED netVars

-----------------------------------------------------------------------------
(* Sending                                                                 *)

\* send(): n tokens of data are taken.  The call blocks until they are; that a
\* peer which neither reads nor goes away blocks it for ever is not modelled.
Send(s, data, n) ==
  \/ /\ ~Broken(s) /\ n = Len(data)
     /\ taken' = [taken EXCEPT ![s] = @ \o data]
     /\ UNCHANGED <<script, arrived, read, end>>
  \/ /\ ~Broken(s) /\ n \in 1..(Len(data) - 1)
     /\ taken' = [taken EXCEPT ![s] = @ \o SubSeq(data, 1, n)]
     /\ end' = [end EXCEPT ![s] = "reset"]
     /\ UNCHANGED <<script, arrived, read>>
  \/ Broken(s) /\ n = Failure /\ UNCHANGED netVars

\* uber_send() of a string tests the running total after each of its sends,
\* the string and its zero: the failure of the second goes unnoticed.
StringSent(total) == total > 0

\* Mutant of AllSent: any progress will do.
SomeSent(size, n) == n > 0

\* uber_send() with a size tests that all was sent.
AllSent(size, n) == n = size

\* ClientConnect(): what it returns and what becomes of its descriptor, which
\* stays open when connect() fails.
ConnectOutcomes ==
  {[ok |-> TRUE, fd |-> "open"], [ok |-> FALSE, fd |-> "none"], [ok |-> FALSE, fd |-> "open"]}

=============================================================================
