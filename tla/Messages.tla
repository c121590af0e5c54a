------------------------------- MODULE Messages -------------------------------
(***************************************************************************)
(* The messages of the program as sequences of tokens: C strings as        *)
(* strstr() sees them, and what class IAxml makes of them.  A token is a   *)
(* byte or a tag; a number between two tags is one token.                  *)
(***************************************************************************)
EXTENDS Integers, Sequences, FiniteSetsExt

CONSTANTS
  Zero,                    \* the byte that ends a C string
  Delimiter,               \* XML_DELIMIT_QUERY, "</UserQuery>"
  CloseMark,               \* "\CLOSE", the end of the actuator's answer
  IDLine,                  \* the line with the ClientID of a query
  OpenID, CloseID,         \* XML_OPEN_REQUESTID, XML_CLOSE_REQUESTID
  OpenLength, CloseLength  \* XML_OPEN_LENGTH, XML_CLOSE_LENGTH

\* The string a pointer to the bytes b points to.
CString(b) ==
  LET zeros == {i \in DOMAIN b : b[i] = Zero} IN
  IF zeros = {} THEN b ELSE SubSeq(b, 1, Min(zeros) - 1)

\* strstr(b, pat): the places where pat occurs in the string b, of which it
\* returns the first.
Places(b, pat) ==
  {i \in 1..(Len(CString(b)) + 1 - Len(pat)) : SubSeq(b, i, i + Len(pat) - 1) = pat}
Found(b, pat) == Places(b, pat) # {}

\* What comes before and after the first one.
Before(b, pat) == SubSeq(b, 1, Min(Places(b, pat)) - 1)
After(b, pat) == SubSeq(b, Min(Places(b, pat)) + Len(pat), Len(b))

\* Mutant of QueryText: what comes before the last delimiter.
QueryTextToLast(b) == SubSeq(b, 1, Max(Places(b, Delimiter)) - 1)

\* The query in the buffer b, without its delimiter.
QueryText(b) == Before(b, Delimiter)

\* processed_request: the query with the line of its ClientID put in.
WithID(b) == Append(QueryText(b), IDLine) \o Delimiter

\* atoi(): a number, or 0 for anything else.
Atoi(b) == IF b # <<>> /\ b[1] \in Nat THEN b[1] ELSE 0

\* Mutant of TagContentInt: the opening tag is looked for before the closing one.
TagContentIntOpenFirst(b, open, close) ==
  [crashed |-> Found(b, open) /\ ~Found(b, close),
   value |-> IF Found(b, open) THEN Atoi(After(b, open)) ELSE -1,
   rest |-> IF Found(b, open) /\ Found(b, close) THEN After(b, close) ELSE b]

\* xml_getTagContentInt(): the number between the first closing tag and the
\* first opening tag before it, and the position it leaves behind; -1 without
\* a closing tag.  A closing tag with no opening one before it makes strstr
\* return null, which is offset and dereferenced.
TagContentInt(b, open, close) ==
  LET head == Before(b, close)
      paired == Found(b, close) /\ Found(head, open) IN
  [crashed |-> Found(b, close) /\ ~paired,
   value |-> IF paired THEN Atoi(After(head, open)) ELSE -1,
   rest |-> IF paired THEN After(b, close) ELSE b]

\* The tags of a response, for an image of n bytes.
ResponseTags(n) == OpenLength \o <<n>> \o CloseLength

=============================================================================
