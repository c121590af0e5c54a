------------------------------ MODULE Exchanges ------------------------------
(***************************************************************************)
(* What the handlers of the two pools do on their connections, token by    *)
(* token: qu_pool_handle receives one query and takes it to the actuator,  *)
(* ig_pool_handle receives one reply and answers one client with it.  The  *)
(* modules QueryPool and ReplyPool have a step for each of these calls;    *)
(* here is what makes the outcomes of those steps the ones they are.       *)
(***************************************************************************)
EXTENDS Networking, SequencesExt

CONSTANTS
  Queries,       \* what a client may send
  Answers,       \* what the actuator may send
  Tags, Images,  \* what a generator finds in its two files
  NULL

\* Whatever is sent or looked for.
Texts ==
  Queries \cup Answers \cup Tags \cup Images
    \cup {Delimiter, OpenLength, CloseLength, OpenID, CloseID}

\* Messages are sequences of tokens, and the delimiter is a C string with
\* something in it.
ASSUME ExchangesAssumption ==
  /\ Sockets = {"client", "actuator", "generator"}
  /\ \A m \in Texts : m \in Seq(Range(m))
  /\ Delimiter # <<>> /\ Zero \notin Range(Delimiter)

\* A tag is one token and no number.  What a generator finds in its file may be
\* anything: nothing looks at it before the scanner does.
ASSUME TagsAssumption ==
  /\ \A p \in {OpenLength, CloseLength, OpenID, CloseID} : Len(p) = 1 /\ p[1] \notin Nat
  /\ OpenLength # CloseLength /\ OpenID # CloseID

VARIABLES
  quPc,       \* where qu_pool_handle is
  rules,      \* current_query->rules
  actuator,   \* the descriptor of the connection to the actuator
  igPc,       \* where ig_pool_handle is
  nullTerm,   \* null_term: the zero after the tags has come
  tag, file,  \* tag, and the bytes written to the image file
  total,      \* totalBytesSent of the running uber_send
  connected,  \* connected
  crashed     \* an invalid pointer was used

quVars == <<quPc, rules, actuator>>
igVars == <<igPc, nullTerm, tag, file, total, connected>>
vars == <<netVars, quVars, igVars, crashed>>

\* What the generator of ig.cpp sends; a file it cannot open is empty to it.
GeneratorSends(tags, image) == tags \o <<Zero>> \o image

\* Either a client has connected and its request was taken, or a generator.
Init ==
  /\ \/ /\ script \in [client : Queries, actuator : Answers, generator : {<<>>}]
        /\ quPc = "recv" /\ igPc = "done"
     \/ /\ script \in [client : {<<>>}, actuator : {<<>>}, generator : {GeneratorSends(t, i) : t \in Tags, i \in Images}]
        /\ quPc = "done" /\ igPc = "recv"
  /\ arrived = [s \in Sockets |-> 0]
  /\ read = [s \in Sockets |-> 0]
  /\ end = [s \in Sockets |-> "up"]
  /\ taken = [s \in Sockets |-> <<>>]
  /\ rules = <<>> /\ actuator = "none"
  /\ nullTerm = FALSE /\ tag = <<>> /\ file = <<>>
  /\ total = 0 /\ connected = TRUE
  /\ crashed = FALSE

Ended == crashed \/ (quPc = "done" /\ igPc = "done")

\* When a peer may send, close or break; what the others do then no handler
\* sees.
Active(s) ==
  /\ ~Ended
  /\ s = "client" => quPc \in {"recv", "done"}
  /\ s = "actuator" => actuator = "open" /\ quPc # "pend"
  /\ s = "generator" => igPc # "done"

PeerStep(s) ==
  /\ Active(s)
  /\ PeerSends(s) \/ PeerCloses(s) \/ PeerBreaks(s)
  /\ UNCHANGED <<quVars, igVars, crashed>>

-----------------------------------------------------------------------------
(* qu_pool_handle                                                          *)

QuGoto(from, to) == ~crashed /\ quPc = from /\ quPc' = to

\* xml_recv_query(): the delimiter is searched once more in what uber_recv
\* left in the buffer, and written to.
QuReceive(n) ==
  /\ UberRecv("client", Delimiter, n)
  /\ \/ /\ n = GoesOn /\ QuGoto("recv", "recv")
        /\ UNCHANGED <<rules, crashed>>
     \/ /\ n \notin {GoesOn, Failure} /\ Found(Received("client")', Delimiter)
        /\ QuGoto("recv", "connect")
        /\ rules' = WithID(Received("client")')
        /\ UNCHANGED crashed
     \/ /\ n = Failure \/ (n # GoesOn /\ ~Found(Received("client")', Delimiter))
        /\ QuGoto("recv", "recv")
        /\ crashed' = TRUE
        /\ UNCHANGED rules
  /\ UNCHANGED <<actuator, igVars>>

QuConnect ==
  /\ \E outcome \in ConnectOutcomes :
       /\ QuGoto("connect", IF outcome.ok THEN "send" ELSE "pend")
       /\ actuator' = outcome.fd
  /\ UNCHANGED <<netVars, rules, igVars, crashed>>

\* xml_send(): the query, then its zero.  The outcome is not looked at.
QuSend(n) ==
  /\ \/ QuGoto("send", "send_zero") /\ Send("actuator", rules, n)
     \/ QuGoto("send_zero", "await") /\ Send("actuator", <<Zero>>, n)
  /\ UNCHANGED <<rules, actuator, igVars, crashed>>

\* xml_recv_reply(): whatever comes is thrown away, and the descriptor closed
\* if anything came.
QuAwait(n) ==
  /\ UberRecv("actuator", CloseMark, n)
  /\ QuGoto("await", IF n = GoesOn THEN "await" ELSE "pend")
  /\ actuator' = IF n > 0 THEN "closed" ELSE actuator
  /\ UNCHANGED <<rules, igVars, crashed>>

\* pending_queue->qAdd(current_query)
QuPending ==
  /\ QuGoto("pend", "done")
  /\ UNCHANGED <<netVars, rules, actuator, igVars, crashed>>

QuStep ==
  \/ \E n \in GoesOn..Len(script["client"]) : QuReceive(n)
  \/ \E n \in GoesOn..Len(script["actuator"]) : QuAwait(n)
  \/ \E n \in Failure..(Len(rules) + 1) : QuSend(n)
  \/ QuConnect \/ QuPending

-----------------------------------------------------------------------------
(* ig_pool_handle                                                          *)

IgGoto(from, to) == ~crashed /\ igPc = from /\ igPc' = to

\* One byte: part of the tags, the zero after them, or part of the image.
IgReceive ==
  LET byte == script["generator"][read["generator"] + 1] IN
  /\ RecvSome("generator", 1)
  /\ IgGoto("recv", "recv")
  /\ \/ /\ ~nullTerm /\ byte # Zero
        /\ tag' = Append(tag, byte)
        /\ UNCHANGED <<nullTerm, file>>
     \/ /\ ~nullTerm /\ byte = Zero
        /\ nullTerm' = TRUE
        /\ UNCHANGED <<tag, file>>
     \/ /\ nullTerm
        /\ file' = Append(file, byte)
        /\ UNCHANGED <<nullTerm, tag>>
  /\ UNCHANGED <<quVars, total, connected, crashed>>

IgReceived ==
  /\ EndOfStream("generator") \/ Broken("generator")
  /\ IgGoto("recv", "scan")
  /\ UNCHANGED <<netVars, quVars, nullTerm, tag, file, total, connected, crashed>>

\* The length in the tags is read for the log; the scanner computes from null if
\* it is only closed.
IgScan ==
  /\ IgGoto("scan", "send_tags")
  /\ crashed' = TagContentInt(tag, OpenLength, CloseLength).crashed
  /\ UNCHANGED <<netVars, quVars, nullTerm, tag, file, total, connected>>

\* xml_send() of the tags, which give the size of the file, and uber_send()
\* of what is in it.
IgSendTags(n) ==
  /\ IgGoto("send_tags", "send_zero")
  /\ Send("client", ResponseTags(Len(file)), n)
  /\ total' = n
  /\ connected' = StringSent(total')
  /\ UNCHANGED <<quVars, nullTerm, tag, file, crashed>>

IgSendZero(n) ==
  /\ IgGoto("send_zero", "send_image")
  /\ Send("client", <<Zero>>, n)
  /\ total' = total + n
  /\ connected' = (connected /\ StringSent(total'))
  /\ UNCHANGED <<quVars, nullTerm, tag, file, crashed>>

IgSendImage(n) ==
  /\ IgGoto("send_image", "done")
  /\ Send("client", file, n)
  /\ total' = n
  /\ connected' = (connected /\ AllSent(Len(file), n))
  /\ UNCHANGED <<quVars, nullTerm, tag, file, crashed>>

IgStep ==
  \/ IgReceive \/ IgReceived \/ IgScan
  \/ \E n \in Failure..Len(ResponseTags(Len(file)) \o file) :
       IgSendTags(n) \/ IgSendZero(n) \/ IgSendImage(n)

-----------------------------------------------------------------------------

Next == QuStep \/ IgStep \/ \E s \in Sockets : PeerStep(s)

\* The threads run, and a peer that is up sends what it has to send; the
\* actuator and the generator close in the end, a client need not.  That a send
\* is one step says that the peers read: one that does not, and stays connected,
\* would hold a blocking send() for as long as it likes.
Fairness ==
  /\ WF_vars(QuStep) /\ WF_vars(IgStep)
  /\ \A s \in Sockets : WF_vars(PeerSends(s) /\ PeerStep(s))
  /\ \A s \in {"actuator", "generator"} : WF_vars(PeerCloses(s) /\ PeerStep(s))

Spec == Init /\ [][Next]_vars
FairSpec == Spec /\ Fairness

-----------------------------------------------------------------------------
(* Properties                                                              *)

\* Every variable has its type, and uber_recv never receives more than its
\* buffer holds.
TypeOK ==
  /\ arrived \in [Sockets -> Nat]
  /\ read \in [Sockets -> Nat]
  /\ \A s \in Sockets : read[s] <= arrived[s] /\ arrived[s] <= Len(script[s])
  /\ \A s \in {"client", "actuator"} : read[s] <= BufferSize
  /\ end \in [Sockets -> {"up", "gone", "reset"}]
  /\ quPc \in {"recv", "connect", "send", "send_zero", "await", "pend", "done"}
  /\ igPc \in {"recv", "scan", "send_tags", "send_zero", "send_image", "done"}
  /\ actuator \in {"none", "open", "closed"}
  /\ nullTerm \in BOOLEAN /\ connected \in BOOLEAN /\ crashed \in BOOLEAN
  /\ total \in Int

\* The end of the client's query, if there is one, and what has to arrive for
\* uber_recv to return: the whole query, or all that the buffer holds.
Query == script["client"]
QueryEnds ==
  {n \in DOMAIN Query : IsSuffix(Delimiter, SubSeq(Query, 1, n)) /\ \A i \in 1..n : Query[i] # Zero}
QueryEnd == IF QueryEnds = {} THEN BufferSize ELSE Min(QueryEnds)
Readable == QueryEnd < BufferSize
AskedFor == IF Readable THEN QueryEnd ELSE BufferSize - 1
Asked == arrived["client"] >= AskedFor

\* The first query of the client, with the line of its ID put in.
FirstQuery == Append(SubSeq(Query, 1, QueryEnd - Len(Delimiter)), IDLine) \o Delimiter

\* The actuator gets the first query of the client and nothing else, then a
\* zero; all of it unless its connection breaks.
QueryForwarded ==
  LET forwarded == FirstQuery \o <<Zero>> IN
  /\ taken["actuator"] # <<>> => IsPrefix(taken["actuator"], forwarded)
  /\ quPc = "await" /\ ~Broken("actuator") => taken["actuator"] = forwarded

\* A client that is kept after a response was sent all of it: tags with the
\* right length, the zero, and the image as far as the generator sent it.  One
\* that is dropped has a broken connection.  The masked failure of the string's
\* zero is always noticed by the send that follows.
ImageRelayed ==
  LET sent == Received("generator")
      image == SubSeq(sent, Len(CString(sent)) + 2, Len(sent)) IN
  igPc = "done" /\ script["generator"] # <<>> =>
     IF connected
     THEN taken["client"] = ResponseTags(Len(image)) \o <<Zero>> \o image
     ELSE Broken("client")

\* Where the text b has a number between an opening and a closing tag, and the
\* first of the numbers at some places.
NumberPlaces(b, open, close) ==
  {i \in 2..(Len(b) - 1) : b[i - 1] = open[1] /\ b[i + 1] = close[1]}
FirstNumber(b, places) == IF places = {} THEN -1 ELSE b[Min(places)]

\* In the text b an opening tag is followed by a number and the closing tag,
\* unless b ends there, and there is no other closing tag.
Paired(b, open, close) ==
  \A i \in DOMAIN b :
    /\ b[i] = open[1] => /\ i + 1 \in DOMAIN b => b[i + 1] \in Nat
                         /\ i + 2 \in DOMAIN b => b[i + 2] = close[1]
    /\ b[i] = close[1] => i > 2 /\ b[i - 2] = open[1]

\* The first closing tag of the text b has no opening tag before it.
ClosedFirst(b, open, close) ==
  \E i \in DOMAIN b : b[i] = close[1] /\ \A j \in 1..i : b[j] # open[1]

\* What a generator sends as its tags.
SentTags == CString(script["generator"])

\* The tags of a generator, cut anywhere: the scanner computes from null exactly
\* when a closing tag comes before every opening one, which is what ends the
\* process in ig_pool_handle.  It never does so on a part of well-formed tags, and
\* one call after the other returns their numbers in order, then -1.
ScansRight ==
  LET length == TagContentInt(tag, OpenLength, CloseLength)
      id1 == TagContentInt(tag, OpenID, CloseID)
      id2 == TagContentInt(id1.rest, OpenID, CloseID)
      ids == NumberPlaces(tag, OpenID, CloseID) IN
  /\ length.crashed <=> ClosedFirst(tag, OpenLength, CloseLength)
  /\ id1.crashed <=> ClosedFirst(tag, OpenID, CloseID)
  /\ script["generator"] # <<>> =>
       (crashed <=> igPc \notin {"recv", "scan"} /\ ClosedFirst(tag, OpenLength, CloseLength))
  /\ Paired(SentTags, OpenLength, CloseLength) =>
       ~length.crashed /\ length.value = FirstNumber(tag, NumberPlaces(tag, OpenLength, CloseLength))
  /\ Paired(SentTags, OpenID, CloseID) =>
       /\ ~(id1.crashed \/ id2.crashed)
       /\ id1.value = FirstNumber(tag, ids)
       /\ id2.value = FirstNumber(tag, {i \in ids : \E j \in ids : j < i})

\* The handlers end: a query that has arrived is left on the pending queue, as
\* soon as the actuator answers or goes, and a reply is answered with once its
\* generator closes, unless its tags end the process.
EveryExchangeEnds ==
  /\ (Asked /\ quPc = "recv") ~> (quPc = "done" \/ crashed)
  /\ (igPc = "recv") ~> (igPc = "done" \/ crashed)

-----------------------------------------------------------------------------
(* The inductive invariant: what QueryForwarded and ImageRelayed rest on.  *)

Tokens == (UNION {Range(m) : m \in Texts}) \cup {Zero, IDLine} \cup Nat

MessagesTyped ==
  /\ script \in [Sockets -> Seq(Tokens)] /\ taken \in [Sockets -> Seq(Tokens)]
  /\ rules \in Seq(Tokens) /\ tag \in Seq(Tokens) /\ file \in Seq(Tokens)

\* The tags are what the generator sent up to its zero, the file what came after.
ReplyParsed ==
  /\ \A k \in DOMAIN tag : tag[k] # Zero
  /\ Received("generator") = IF nullTerm THEN tag \o <<Zero>> \o file ELSE tag
  /\ ~nullTerm => file = <<>>

\* How much of the response has been sent, unless the connection is broken.
ResponseSent ==
  LET tags == ResponseTags(Len(file)) IN
  /\ igPc \in {"recv", "scan", "send_tags"} => taken["client"] = <<>>
  /\ igPc = "send_zero" =>
       Broken("client") \/ (connected /\ total = Len(tags) /\ taken["client"] = tags)
  /\ igPc = "send_image" => Broken("client") \/ (connected /\ taken["client"] = tags \o <<Zero>>)
  /\ igPc = "done" /\ script["generator"] # <<>> =>
       IF connected THEN taken["client"] = tags \o <<Zero>> \o file ELSE Broken("client")

\* How much of the query has been.
QuerySent ==
  LET sent == taken["actuator"] IN
  /\ quPc \in {"connect", "send", "send_zero", "await"} \/ sent # <<>> => rules = FirstQuery
  /\ quPc \in {"recv", "connect", "send"} => sent = <<>>
  /\ quPc = "send_zero" => sent = rules \/ (Broken("actuator") /\ IsPrefix(sent, rules))
  /\ quPc = "await" => sent = rules \o <<Zero>> \/ (Broken("actuator") /\ IsPrefix(sent, rules))
  /\ quPc \in {"pend", "done"} =>
       sent = <<>> \/ sent = rules \o <<Zero>> \/ IsPrefix(sent, rules)

IndInv == TypeOK /\ MessagesTyped /\ ReplyParsed /\ ResponseSent /\ QuerySent

=============================================================================
