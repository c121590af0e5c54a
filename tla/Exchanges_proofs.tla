--------------------------- MODULE Exchanges_proofs ---------------------------
(***************************************************************************)
(* Theorems about Exchanges, for any queries, answers, tags and images,    *)
(* any delimiter and any size of the buffer.                               *)
(***************************************************************************)
EXTENDS Exchanges, SequenceTheorems, WellFoundedInduction, TLAPS

-----------------------------------------------------------------------------
(* Least elements, and the operators of Messages.                          *)

LEMMA LeastOf ==
  ASSUME NEW S \in SUBSET Nat, S # {}
  PROVE  Min(S) \in S /\ \A x \in S : Min(S) <= x
<1> DEFINE R == OpToRel(<, Nat)
<1>1. \A x, y \in Nat : x < y => <<x, y>> \in R
  BY DEF OpToRel
<1>2. \E x \in S : \A y \in S : ~ (<<y, x>> \in R)
  BY NatLessThanWellFounded, WFMin
<1> HIDE DEF R
<1>3. PICK x \in S : \A y \in S : ~ (<<y, x>> \in R)
  BY <1>2
<1>4. ASSUME NEW y \in S PROVE x <= y
  <2>1. ~ (y < x) /\ y \in Nat /\ x \in Nat
    BY <1>1, <1>3
  <2>2. QED
    BY <2>1
<1>5. QED
  BY <1>4 DEF Min

LEMMA TokenTypes ==
  /\ \A m \in Texts : m \in Seq(Tokens)
  /\ Delimiter \in Seq(Tokens) /\ Len(Delimiter) \in Nat \ {0}
  /\ OpenLength \in Seq(Tokens) /\ CloseLength \in Seq(Tokens)
  /\ \A k \in 1..Len(Delimiter) : Delimiter[k] # Zero
  /\ Zero \in Tokens /\ IDLine \in Tokens /\ Nat \subseteq Tokens
<1>1. ASSUME NEW m \in Texts PROVE m \in Seq(Tokens)
  <2>1. m \in Seq(Range(m)) /\ Range(m) \subseteq Tokens
    BY ExchangesAssumption DEF Tokens
  <2>2. QED
    BY <2>1, SeqMonotonic
<1>2. Delimiter \in Texts /\ OpenLength \in Texts /\ CloseLength \in Texts
  BY DEF Texts
<1>3. Delimiter \in Seq(Tokens)
  BY <1>1, <1>2
<1>4. Len(Delimiter) \in Nat \ {0} /\ \A k \in 1..Len(Delimiter) : Delimiter[k] # Zero
  <2>1. DOMAIN Delimiter = 1..Len(Delimiter) /\ Len(Delimiter) \in Nat
    BY <1>3, LenProperties
  <2>2. \A k \in 1..Len(Delimiter) : Delimiter[k] \in Range(Delimiter)
    BY <2>1 DEF Range
  <2>3. Len(Delimiter) # 0
    BY <1>3, EmptySeq, ExchangesAssumption
  <2>4. QED
    BY <2>1, <2>2, <2>3, ExchangesAssumption
<1>5. Zero \in Tokens /\ IDLine \in Tokens /\ Nat \subseteq Tokens
  <2> DEFINE sent == UNION {Range(m) : m \in Texts}
  <2>1. Tokens = sent \cup {Zero, IDLine} \cup Nat
    BY DEF Tokens
  <2> HIDE DEF sent
  <2>2. QED
    BY <2>1
<1>6. QED
  BY <1>1, <1>2, <1>4, <1>5

\* A C string ends before the first zero of the bytes, or with them.
LEMMA StringOf ==
  ASSUME NEW b \in Seq(Tokens)
  PROVE  /\ CString(b) \in Seq(Tokens)
         /\ Len(CString(b)) \in 0..Len(b)
         /\ \A k \in 1..Len(CString(b)) : CString(b)[k] = b[k] /\ b[k] # Zero
         /\ Len(CString(b)) < Len(b) => b[Len(CString(b)) + 1] = Zero
<1> DEFINE zeros == {i \in DOMAIN b : b[i] = Zero}
           z == Min(zeros)
           m == Len(b)
<1>1. m \in Nat /\ DOMAIN b = 1..m
  BY LenProperties
<1>2. CASE zeros = {}
  <2>1. CString(b) = b
    BY <1>2 DEF CString
  <2>2. \A k \in 1..m : b[k] # Zero
    BY <1>1, <1>2
  <2>3. QED
    BY <1>1, <2>1, <2>2
<1>3. CASE zeros # {}
  <2>1. zeros \in SUBSET Nat
    BY <1>1
  <2>2. z \in zeros /\ \A x \in zeros : z <= x
    BY <1>3, <2>1, LeastOf
  <2>3. z \in 1..m /\ b[z] = Zero /\ \A k \in 1..m : k < z => b[k] # Zero
    <3>1. z \in 1..m /\ b[z] = Zero
      BY <1>1, <2>2
    <3>2. ASSUME NEW k \in 1..m, k < z PROVE b[k] # Zero
      <4>1. k \notin zeros
        BY <2>2, <3>1, <3>2
      <4>2. QED
        BY <1>1, <4>1
    <3>3. QED
      BY <3>1, <3>2
  <2>4. CString(b) = SubSeq(b, 1, z - 1)
    BY <1>3 DEF CString
  <2> HIDE DEF z, zeros
  <2>5. /\ SubSeq(b, 1, z - 1) \in Seq(Tokens) /\ Len(SubSeq(b, 1, z - 1)) = z - 1
        /\ \A k \in 1..(z - 1) : SubSeq(b, 1, z - 1)[k] = b[k]
    BY <1>1, <2>3
  <2>6. QED
    BY <1>1, <2>3, <2>4, <2>5
<1>4. QED
  BY <1>2, <1>3

\* Where the bytes b have the pattern.
At(b, pat, i) == \A j \in 1..Len(pat) : b[i + j - 1] = pat[j]

LEMMA PlacesAre ==
  ASSUME NEW b \in Seq(Tokens), NEW pat \in Seq(Tokens),
         NEW i \in 1..(Len(CString(b)) + 1 - Len(pat))
  PROVE  i \in Places(b, pat) <=> At(b, pat, i)
<1> DEFINE d == Len(pat)
           cut == SubSeq(b, i, i + d - 1)
<1>1. d \in Nat /\ Len(CString(b)) \in 0..Len(b) /\ Len(b) \in Nat
  BY StringOf
<1>2. \A k \in i..(i + d - 1) : b[k] \in Tokens
  <2>1. \A k \in i..(i + d - 1) : k \in 1..Len(b)
    BY <1>1
  <2>2. QED
    BY <2>1
<1>3. cut \in Seq(Tokens) /\ Len(cut) = d /\ \A k \in 1..d : cut[k] = b[i + k - 1]
  BY <1>1, <1>2, SubSeqProperties
<1>4. i \in Places(b, pat) <=> cut = pat
  BY DEF Places
<1> HIDE DEF cut
<1>5. cut = pat <=> \A k \in 1..d : cut[k] = pat[k]
  BY <1>3, SeqEqual
<1>6. QED
  BY <1>3, <1>4, <1>5 DEF At

\* That t ends in s.
LEMMA SuffixIs ==
  ASSUME NEW s \in Seq(Tokens), NEW t \in Seq(Tokens)
  PROVE  IsSuffix(s, t) <=> Len(s) <= Len(t) /\ At(t, s, Len(t) - Len(s) + 1)
<1> DEFINE m == Len(s)
           n == Len(t)
           rs == Reverse(s)
           rt == Reverse(t)
<1>1. m \in Nat /\ n \in Nat
  OBVIOUS
<1>2. /\ rs \in Seq(Tokens) /\ Len(rs) = m /\ \A k \in 1..m : rs[k] = s[(m - k) + 1]
      /\ rt \in Seq(Tokens) /\ Len(rt) = n /\ \A k \in 1..n : rt[k] = t[(n - k) + 1]
  <2>1. \A k \in 1..m : (m - k) + 1 \in 1..m
    BY <1>1
  <2>2. \A k \in 1..n : (n - k) + 1 \in 1..n
    BY <1>1
  <2>3. QED
    BY <1>1, <2>1, <2>2 DEF Reverse
<1>3. IsSuffix(s, t) <=> m <= n /\ SubSeq(rs, 1, m) = SubSeq(rt, 1, m)
  BY <1>2 DEF IsSuffix, IsPrefix
<1> HIDE DEF rs, rt
<1>4. CASE m <= n
  <2>1. /\ SubSeq(rs, 1, m) \in Seq(Tokens) /\ Len(SubSeq(rs, 1, m)) = m
        /\ SubSeq(rt, 1, m) \in Seq(Tokens) /\ Len(SubSeq(rt, 1, m)) = m
        /\ \A k \in 1..m : SubSeq(rs, 1, m)[k] = rs[k] /\ SubSeq(rt, 1, m)[k] = rt[k]
    BY <1>1, <1>2, <1>4
  <2>2. SubSeq(rs, 1, m) = SubSeq(rt, 1, m) <=> \A k \in 1..m : rs[k] = rt[k]
    BY <2>1, SeqEqual
  <2>3. (\A k \in 1..m : rs[k] = rt[k]) <=> (\A k \in 1..m : s[(m - k) + 1] = t[(n - k) + 1])
    <3>1. \A k \in 1..m : rs[k] = s[(m - k) + 1] /\ rt[k] = t[(n - k) + 1]
      BY <1>1, <1>2, <1>4
    <3>2. QED
      BY <3>1
  <2>4. \A k \in 1..m : (m - k) + 1 \in 1..m /\ (n - k) + 1 = (n - m + 1) + ((m - k) + 1) - 1
    BY <1>1
  <2>5. \A j \in 1..m : (m - j) + 1 \in 1..m /\ (m - ((m - j) + 1)) + 1 = j
                          /\ (n - ((m - j) + 1)) + 1 = (n - m + 1) + j - 1
    BY <1>1
  <2>6. (\A k \in 1..m : s[(m - k) + 1] = t[(n - k) + 1]) <=> At(t, s, n - m + 1)
    BY <2>4, <2>5 DEF At
  <2>7. QED
    BY <1>3, <1>4, <2>2, <2>3, <2>6
<1>5. QED
  BY <1>3, <1>4

-----------------------------------------------------------------------------
(* Where the first query of the client ends.                               *)

\* In the first m tokens of the query the delimiter ends where the query does.
LEMMA PlacesAreEnds ==
  ASSUME Query \in Seq(Tokens), NEW m \in 0..Len(Query)
  PROVE  /\ \A i \in Places(SubSeq(Query, 1, m), Delimiter) :
              i \in Nat /\ i + Len(Delimiter) - 1 \in QueryEnds /\ i + Len(Delimiter) - 1 <= m
         /\ \A n \in QueryEnds :
              n \in Nat /\ (n <= m => n - Len(Delimiter) + 1 \in Places(SubSeq(Query, 1, m), Delimiter))
<1> DEFINE d == Len(Delimiter)
           b == SubSeq(Query, 1, m)
           l == Len(CString(b))
<1>1. /\ Delimiter \in Seq(Tokens) /\ d \in Nat \ {0} /\ m \in Nat /\ Len(Query) \in Nat
      /\ DOMAIN Query = 1..Len(Query) /\ m <= Len(Query)
      /\ \A k \in 1..d : Delimiter[k] # Zero
  BY TokenTypes
<1>2. b \in Seq(Tokens) /\ Len(b) = m /\ \A k \in 1..m : b[k] = Query[k]
  BY <1>1
<1> HIDE DEF b
<1>3. /\ l \in Nat /\ l <= m /\ \A k \in 1..l : b[k] # Zero
      /\ l < m => b[l + 1] = Zero
  BY <1>1, <1>2, StringOf
<1> HIDE DEF l
<1>4. ASSUME NEW n \in 1..Len(Query)
      PROVE  n \in QueryEnds <=> /\ d <= n /\ At(Query, Delimiter, n - d + 1)
                                 /\ \A i \in 1..n : Query[i] # Zero
  <2> DEFINE t == SubSeq(Query, 1, n)
  <2>1. t \in Seq(Tokens) /\ Len(t) = n /\ \A k \in 1..n : t[k] = Query[k]
    BY <1>1
  <2>2. n \in QueryEnds <=> IsSuffix(Delimiter, t) /\ \A i \in 1..n : Query[i] # Zero
    BY <1>1 DEF QueryEnds
  <2> HIDE DEF t
  <2>3. IsSuffix(Delimiter, t) <=> d <= n /\ At(t, Delimiter, n - d + 1)
    BY <1>1, <2>1, SuffixIs
  <2>4. d <= n => \A j \in 1..d : (n - d + 1) + j - 1 \in 1..n
    BY <1>1
  <2>5. d <= n => (At(t, Delimiter, n - d + 1) <=> At(Query, Delimiter, n - d + 1))
    BY <2>1, <2>4 DEF At
  <2>6. QED
    BY <2>2, <2>3, <2>5
<1>5. ASSUME NEW i \in 1..(l + 1 - d)
      PROVE  i \in Places(b, Delimiter) <=> At(Query, Delimiter, i)
  <2>1. i \in Places(b, Delimiter) <=> At(b, Delimiter, i)
    BY <1>1, <1>2, PlacesAre DEF l
  <2>2. \A j \in 1..d : i + j - 1 \in 1..m
    BY <1>1, <1>3
  <2>3. At(b, Delimiter, i) <=> At(Query, Delimiter, i)
    BY <1>2, <2>2 DEF At
  <2>4. QED
    BY <2>1, <2>3
<1>6. ASSUME NEW i \in Places(b, Delimiter)
      PROVE  i \in Nat /\ i + d - 1 \in QueryEnds /\ i + d - 1 <= m
  <2>1. i \in 1..(l + 1 - d)
    BY DEF Places, l
  <2> DEFINE n == i + d - 1
  <2>2. i \in Nat /\ n \in 1..Len(Query) /\ n <= l /\ n <= m /\ d <= n /\ n - d + 1 = i
    BY <1>1, <1>3, <2>1
  <2>3. At(Query, Delimiter, n - d + 1)
    BY <1>5, <2>1, <2>2
  <2>4. \A k \in 1..n : Query[k] # Zero
    <3>1. \A k \in 1..n : k \in 1..l /\ k \in 1..m
      BY <1>3, <2>2
    <3>2. QED
      BY <1>2, <1>3, <3>1
  <2>5. QED
    BY <1>4, <2>2, <2>3, <2>4
<1>7. ASSUME NEW n \in QueryEnds
      PROVE  n \in Nat /\ (n <= m => n - d + 1 \in Places(b, Delimiter))
  <2>1. n \in 1..Len(Query)
    BY <1>1 DEF QueryEnds
  <2>2. d <= n /\ At(Query, Delimiter, n - d + 1) /\ \A i \in 1..n : Query[i] # Zero
    BY <1>4, <2>1
  <2>3. ASSUME n <= m PROVE n - d + 1 \in Places(b, Delimiter)
    <3>1. n <= l
      <4>1. SUFFICES ASSUME l < n PROVE FALSE
        BY <1>3, <2>1
      <4>2. l < m /\ l + 1 \in 1..n /\ l + 1 \in 1..m
        BY <1>1, <1>3, <2>1, <2>3, <4>1
      <4>3. QED
        BY <1>2, <1>3, <2>2, <4>2
    <3>2. n - d + 1 \in 1..(l + 1 - d)
      BY <1>1, <1>3, <2>1, <2>2, <3>1
    <3>3. QED
      BY <1>5, <2>2, <3>2
  <2>4. QED
    BY <2>1, <2>3
<1>8. QED
  BY <1>6, <1>7 DEF b

\* The delimiter is found once the whole query has come, and not before; the
\* first one found is the one the query ends with.
LEMMA DelimiterFound ==
  ASSUME Query \in Seq(Tokens), NEW m \in 0..Len(Query)
  PROVE  LET b == SubSeq(Query, 1, m) IN
         /\ Found(b, Delimiter) <=> QueryEnds # {} /\ QueryEnd <= m
         /\ Found(b, Delimiter) => /\ QueryEnd \in Nat /\ Len(Delimiter) <= QueryEnd
                                   /\ Min(Places(b, Delimiter)) = QueryEnd - Len(Delimiter) + 1
<1> DEFINE d == Len(Delimiter)
           b == SubSeq(Query, 1, m)
           P == Places(b, Delimiter)
           e == Min(QueryEnds)
           p == Min(P)
<1>1. d \in Nat /\ m \in Nat
  BY TokenTypes
<1>2. /\ \A i \in P : i \in Nat /\ i + d - 1 \in QueryEnds /\ i + d - 1 <= m
      /\ \A n \in QueryEnds : n \in Nat /\ (n <= m => n - d + 1 \in P)
  BY PlacesAreEnds
<1>3. \A i \in P : i >= 1
  BY DEF Places
<1> HIDE DEF P, d
<1>4. QueryEnds # {} => e \in QueryEnds /\ e \in Nat /\ \A n \in QueryEnds : e <= n
  <2>1. QueryEnds \in SUBSET Nat
    BY <1>2
  <2>2. QED
    BY <1>2, <2>1, LeastOf
<1>5. P # {} => p \in P /\ \A i \in P : p <= i
  <2>1. P \in SUBSET Nat
    BY <1>2
  <2>2. QED
    BY <2>1, LeastOf
<1>6. QueryEnds # {} => QueryEnd = e
  BY DEF QueryEnd
<1> HIDE DEF e, p
<1>7. ASSUME P # {} PROVE QueryEnds # {} /\ e <= m /\ d <= e /\ p = e - d + 1
  <2>1. p \in P /\ p \in Nat /\ p >= 1 /\ p + d - 1 \in QueryEnds /\ p + d - 1 <= m
    BY <1>2, <1>3, <1>5, <1>7
  <2>2. e \in QueryEnds /\ e \in Nat /\ e <= p + d - 1
    BY <1>4, <2>1
  <2>3. e <= m
    BY <1>1, <2>1, <2>2
  <2>4. e - d + 1 \in P
    BY <1>2, <2>2, <2>3
  <2>5. p <= e - d + 1 /\ e - d + 1 >= 1
    BY <1>3, <1>5, <1>7, <2>4
  <2>6. QED
    BY <1>1, <2>1, <2>2, <2>3, <2>5
<1>8. ASSUME QueryEnds # {}, e <= m PROVE P # {}
  BY <1>2, <1>4, <1>8
<1>9. Found(b, Delimiter) <=> P # {}
  BY DEF Found, P
<1>10. QED
  BY <1>4, <1>6, <1>7, <1>8, <1>9 DEF P, p, d

\* What the handler makes of it is the first query, however much more has come.
LEMMA QueryMade ==
  ASSUME Query \in Seq(Tokens), NEW m \in 0..Len(Query), Found(SubSeq(Query, 1, m), Delimiter)
  PROVE  WithID(SubSeq(Query, 1, m)) = FirstQuery /\ FirstQuery \in Seq(Tokens)
<1> DEFINE b == SubSeq(Query, 1, m)
           k == QueryEnd - Len(Delimiter)
<1>1. Min(Places(b, Delimiter)) = k + 1 /\ QueryEnd <= m /\ QueryEnd \in Nat /\ k \in Nat
  BY DelimiterFound, TokenTypes
<1>2. k <= m /\ m <= Len(Query) /\ m \in Nat /\ Len(Query) \in Nat
  BY <1>1, TokenTypes
<1>3. QueryText(b) = SubSeq(b, 1, k)
  BY <1>1 DEF QueryText, Before
<1> HIDE DEF k
<1>4. SubSeq(b, 1, k) = SubSeq(Query, 1, k)
  <2>1. b \in Seq(Tokens) /\ Len(b) = m /\ \A j \in 1..m : b[j] = Query[j]
    BY <1>2
  <2> HIDE DEF b
  <2>2. /\ SubSeq(b, 1, k) \in Seq(Tokens) /\ Len(SubSeq(b, 1, k)) = k
        /\ SubSeq(Query, 1, k) \in Seq(Tokens) /\ Len(SubSeq(Query, 1, k)) = k
        /\ \A j \in 1..k : SubSeq(b, 1, k)[j] = b[j] /\ SubSeq(Query, 1, k)[j] = Query[j]
    BY <1>1, <1>2, <2>1
  <2>3. \A j \in 1..k : j \in 1..m
    BY <1>1, <1>2
  <2>4. QED
    BY <2>1, <2>2, <2>3, SeqEqual
<1>5. SubSeq(Query, 1, k) \in Seq(Tokens)
  BY <1>1, <1>2
<1>6. Append(SubSeq(Query, 1, k), IDLine) \o Delimiter \in Seq(Tokens)
  BY <1>5, TokenTypes
<1>7. QED
  BY <1>3, <1>4, <1>6 DEF WithID, FirstQuery, k

-----------------------------------------------------------------------------
(* Types, and what the calls of IANetworking do with the connections.      *)

NetTyped ==
  /\ arrived \in [Sockets -> Nat] /\ read \in [Sockets -> Nat]
  /\ \A s \in Sockets : read[s] <= arrived[s] /\ arrived[s] <= Len(script[s])
  /\ \A s \in {"client", "actuator"} : read[s] <= BufferSize
  /\ end \in [Sockets -> {"up", "gone", "reset"}]
  /\ script \in [Sockets -> Seq(Tokens)] /\ taken \in [Sockets -> Seq(Tokens)]

QuTyped ==
  /\ quPc \in {"recv", "connect", "send", "send_zero", "await", "pend", "done"}
  /\ actuator \in {"none", "open", "closed"} /\ rules \in Seq(Tokens)

IgTyped ==
  /\ igPc \in {"recv", "scan", "send_tags", "send_zero", "send_image", "done"}
  /\ nullTerm \in BOOLEAN /\ connected \in BOOLEAN /\ total \in Int
  /\ tag \in Seq(Tokens) /\ file \in Seq(Tokens)

Typed == NetTyped /\ QuTyped /\ IgTyped /\ crashed \in BOOLEAN

\* recv() of k tokens.
LEMMA Receives ==
  ASSUME NetTyped, NEW s \in Sockets, NEW k \in Nat, RecvSome(s, k),
         s \in {"client", "actuator"} => read[s] + k <= BufferSize
  PROVE  /\ NetTyped' /\ UNCHANGED <<script, arrived, end, taken>>
         /\ read'[s] = read[s] + k /\ \A x \in Sockets : x # s => read'[x] = read[x]
<1>1. /\ k \in 1..(arrived[s] - read[s]) /\ UNCHANGED <<script, arrived, end, taken>>
      /\ read' = [read EXCEPT ![s] = @ + k]
  BY DEF RecvSome
<1>2. /\ arrived \in [Sockets -> Nat] /\ read \in [Sockets -> Nat]
      /\ \A x \in Sockets : read[x] <= arrived[x] /\ arrived[x] <= Len(script[x])
      /\ \A x \in {"client", "actuator"} : read[x] <= BufferSize
      /\ {"client", "actuator"} \subseteq Sockets
  BY ExchangesAssumption DEF NetTyped
<1>3. /\ read' \in [Sockets -> Nat] /\ read'[s] = read[s] + k
      /\ \A x \in Sockets : x # s => read'[x] = read[x]
  BY <1>1, <1>2
<1>4. read'[s] <= arrived[s]
  BY <1>1, <1>2, <1>3
<1>5. \A x \in Sockets : read'[x] <= arrived'[x] /\ arrived'[x] <= Len(script'[x])
  BY <1>1, <1>2, <1>3, <1>4
<1>6. \A x \in {"client", "actuator"} : read'[x] <= BufferSize
  BY <1>2, <1>3
<1>7. QED
  BY <1>1, <1>3, <1>5, <1>6 DEF NetTyped

\* A turn of uber_recv receives into the room that is left, and returns how much
\* has been received, or that it failed, or goes on.
LEMMA OneReceive ==
  ASSUME NetTyped, NEW s \in {"client", "actuator"}, NEW delimit, NEW n, UberRecv(s, delimit, n)
  PROVE  /\ NetTyped' /\ UNCHANGED <<script, arrived, end, taken>>
         /\ \A x \in Sockets : x # s => read'[x] = read[x]
<1>1. s \in Sockets /\ read[s] \in Nat /\ BufferSize \in Nat
  BY ExchangesAssumption, NetworkingAssumption DEF NetTyped
<1>2. ASSUME NEW k \in 1..Room(s), RecvSome(s, k)
      PROVE  /\ NetTyped' /\ UNCHANGED <<script, arrived, end, taken>>
             /\ \A x \in Sockets : x # s => read'[x] = read[x]
  <2>1. k \in Nat /\ read[s] + k <= BufferSize
    BY <1>1 DEF Room
  <2>2. QED
    BY <1>1, <1>2, <2>1, Receives
<1>3. CASE UNCHANGED netVars
  BY <1>3 DEF netVars, NetTyped
<1>4. QED
  BY <1>2, <1>3 DEF UberRecv

\* send() takes all, or a part and the connection breaks, or it was broken.
LEMMA Sends ==
  ASSUME NetTyped, NEW s \in Sockets, NEW data \in Seq(Tokens), NEW n, Send(s, data, n)
  PROVE  /\ NetTyped' /\ UNCHANGED <<script, arrived, read>>
         /\ \A x \in Sockets : x # s => taken'[x] = taken[x] /\ end'[x] = end[x]
         /\ \/ /\ end[s] # "reset" /\ n = Len(data)
               /\ taken'[s] = taken[s] \o data /\ end'[s] = end[s]
            \/ /\ end'[s] = "reset" /\ n \in 1..(Len(data) - 1)
               /\ taken'[s] = taken[s] \o SubSeq(data, 1, n)
            \/ end[s] = "reset" /\ n = Failure /\ UNCHANGED <<taken, end>>
<1>1. taken \in [Sockets -> Seq(Tokens)] /\ end \in [Sockets -> {"up", "gone", "reset"}]
  BY DEF NetTyped
<1>2. CASE ~Broken(s) /\ n = Len(data) /\ taken' = [taken EXCEPT ![s] = @ \o data]
           /\ UNCHANGED <<script, arrived, read, end>>
  <2>1. taken' \in [Sockets -> Seq(Tokens)] /\ taken'[s] = taken[s] \o data
        /\ \A x \in Sockets : x # s => taken'[x] = taken[x]
    BY <1>1, <1>2
  <2>2. QED
    BY <1>2, <2>1 DEF NetTyped, Broken
<1>3. CASE ~Broken(s) /\ n \in 1..(Len(data) - 1)
           /\ taken' = [taken EXCEPT ![s] = @ \o SubSeq(data, 1, n)]
           /\ end' = [end EXCEPT ![s] = "reset"] /\ UNCHANGED <<script, arrived, read>>
  <2>1. SubSeq(data, 1, n) \in Seq(Tokens)
    BY <1>3
  <2>2. taken' \in [Sockets -> Seq(Tokens)] /\ taken'[s] = taken[s] \o SubSeq(data, 1, n)
        /\ \A x \in Sockets : x # s => taken'[x] = taken[x]
    BY <1>1, <1>3, <2>1
  <2>3. end' \in [Sockets -> {"up", "gone", "reset"}] /\ end'[s] = "reset"
        /\ \A x \in Sockets : x # s => end'[x] = end[x]
    BY <1>1, <1>3
  <2>4. QED
    BY <1>3, <2>2, <2>3 DEF NetTyped
<1>4. CASE Broken(s) /\ n = Failure /\ UNCHANGED netVars
  BY <1>4 DEF NetTyped, netVars, Broken
<1>5. QED
  BY <1>2, <1>3, <1>4 DEF Send

LEMMA Peers ==
  ASSUME NetTyped, NEW s \in Sockets, PeerStep(s)
  PROVE  /\ NetTyped' /\ UNCHANGED <<script, read, taken, quVars, igVars, crashed>>
         /\ \A x \in Sockets : end[x] = "reset" => end'[x] = "reset"
<1>1. /\ arrived \in [Sockets -> Nat] /\ end \in [Sockets -> {"up", "gone", "reset"}]
      /\ script \in [Sockets -> Seq(Tokens)] /\ read \in [Sockets -> Nat]
      /\ \A x \in Sockets : read[x] <= arrived[x] /\ arrived[x] <= Len(script[x])
  BY DEF NetTyped
<1>2. UNCHANGED <<quVars, igVars, crashed>>
  BY DEF PeerStep
<1>3. CASE PeerSends(s)
  <2>1. /\ arrived[s] < Len(script[s]) /\ arrived' = [arrived EXCEPT ![s] = @ + 1]
        /\ UNCHANGED <<script, read, end, taken>>
    BY <1>3 DEF PeerSends
  <2>2. Len(script[s]) \in Nat
    BY <1>1
  <2>3. arrived' \in [Sockets -> Nat] /\ arrived'[s] = arrived[s] + 1
        /\ \A x \in Sockets : x # s => arrived'[x] = arrived[x]
    BY <1>1, <2>1
  <2>4. read[s] <= arrived'[s] /\ arrived'[s] <= Len(script[s])
    BY <1>1, <2>1, <2>2, <2>3
  <2>5. \A x \in Sockets : read[x] <= arrived'[x] /\ arrived'[x] <= Len(script[x])
    BY <1>1, <2>3, <2>4
  <2>6. QED
    BY <1>2, <2>1, <2>3, <2>5 DEF NetTyped
<1>4. CASE PeerCloses(s) \/ PeerBreaks(s)
  <2>1. PICK how \in {"gone", "reset"} :
          /\ end' = [end EXCEPT ![s] = how] /\ (how = "gone" => end[s] = "up")
          /\ UNCHANGED <<script, arrived, read, taken>>
    BY <1>4 DEF PeerCloses, PeerBreaks
  <2>2. end' \in [Sockets -> {"up", "gone", "reset"}]
        /\ \A x \in Sockets : end[x] = "reset" => end'[x] = "reset"
    BY <1>1, <2>1
  <2>3. QED
    BY <1>2, <2>1, <2>2 DEF NetTyped
<1>5. QED
  BY <1>3, <1>4 DEF PeerStep

-----------------------------------------------------------------------------
(* The query on its way to the actuator.                                   *)

LEMMA PrefixesOf ==
  ASSUME NEW s \in Seq(Tokens)
  PROVE  /\ IsPrefix(<<>>, s) /\ IsPrefix(s, s)
         /\ \A n \in 0..Len(s) : IsPrefix(SubSeq(s, 1, n), s)
         /\ \A t \in Seq(Tokens) : IsPrefix(s, s \o t)
         /\ \A u, t \in Seq(Tokens) : IsPrefix(u, s) => IsPrefix(u, s \o t)
<1>1. \A n \in 0..Len(s) : /\ SubSeq(s, 1, n) \in Seq(Tokens) /\ Len(SubSeq(s, 1, n)) = n
                           /\ \A k \in 1..n : SubSeq(s, 1, n)[k] = s[k]
  OBVIOUS
<1>2. ASSUME NEW n \in 0..Len(s) PROVE IsPrefix(SubSeq(s, 1, n), s)
  <2>1. SubSeq(SubSeq(s, 1, n), 1, n) = SubSeq(s, 1, n)
    BY <1>1, SubSeqFull
  <2>2. QED
    BY <1>1, <2>1 DEF IsPrefix
<1>3. SubSeq(s, 1, Len(s)) = s /\ SubSeq(s, 1, 0) = <<>> /\ Len(s) \in Nat
  BY SubSeqFull
<1>4. IsPrefix(<<>>, s) /\ IsPrefix(s, s)
  <2>1. 0 \in 0..Len(s) /\ Len(s) \in 0..Len(s)
    BY <1>3
  <2>2. QED
    BY <1>2, <1>3, <2>1
<1>5. ASSUME NEW u \in Seq(Tokens), NEW t \in Seq(Tokens), IsPrefix(u, s) PROVE IsPrefix(u, s \o t)
  <2>1. /\ Len(u) <= Len(s) /\ SubSeq(u, 1, Len(u)) = SubSeq(s, 1, Len(u))
        /\ Len(u) \in Nat /\ Len(s) \in Nat /\ Len(t) \in Nat
    BY <1>5 DEF IsPrefix
  <2>2. Len(s \o t) = Len(s) + Len(t) /\ Len(u) <= Len(s \o t)
    BY <2>1
  <2>3. SubSeq(s \o t, 1, Len(u)) = SubSeq(s, 1, Len(u))
    <3>1. CASE Len(u) = 0
      BY <2>1, <3>1, SubSeqEmpty
    <3>2. CASE Len(u) # 0
      <4>1. 1 \in 1..Len(s) /\ Len(u) \in 1..Len(s)
        BY <2>1, <3>2
      <4>2. QED
        BY <4>1, SubSeqOfConcat1
    <3>3. QED
      BY <3>1, <3>2
  <2>4. QED
    BY <2>1, <2>2, <2>3 DEF IsPrefix
<1>6. \A t \in Seq(Tokens) : IsPrefix(s, s \o t)
  BY <1>4, <1>5
<1>7. QED
  BY <1>2, <1>4, <1>5, <1>6

\* A step that leaves the query and what was sent of it alone.
LEMMA QueryKept ==
  ASSUME QuerySent, UNCHANGED <<quPc, rules, script>>,
         taken'["actuator"] = taken["actuator"],
         end["actuator"] = "reset" => end'["actuator"] = "reset"
  PROVE  QuerySent'
<1>1. FirstQuery' = FirstQuery
  BY DEF FirstQuery, Query, QueryEnd, QueryEnds
<1>2. QED
  BY <1>1 DEF QuerySent, Broken

LEMMA QueryReceived ==
  ASSUME Typed, QuerySent, NEW n, QuReceive(n)
  PROVE  NetTyped' /\ QuTyped' /\ crashed' \in BOOLEAN /\ QuerySent'
<1>1. /\ NetTyped' /\ UNCHANGED <<script, arrived, end, taken>>
      /\ quPc = "recv" /\ UNCHANGED actuator
  <2>1. UberRecv("client", Delimiter, n) /\ NetTyped
    BY DEF QuReceive, Typed
  <2>2. NetTyped' /\ UNCHANGED <<script, arrived, end, taken>>
    BY <2>1, OneReceive
  <2>3. QED
    BY <2>2 DEF QuReceive, QuGoto
<1>2. CASE quPc' = "recv" /\ UNCHANGED rules /\ crashed' \in BOOLEAN
  <2>1. QuerySent'
    BY <1>1, <1>2, QueryKept
  <2>2. QED
    BY <1>1, <1>2, <2>1 DEF Typed, QuTyped
<1>3. CASE /\ Found(Received("client")', Delimiter) /\ quPc' = "connect"
           /\ rules' = WithID(Received("client")') /\ UNCHANGED crashed
  <2> DEFINE m == read'["client"]
  <2>1. Query \in Seq(Tokens) /\ m \in 0..Len(Query)
    <3>1. /\ script \in [Sockets -> Seq(Tokens)] /\ "client" \in Sockets
          /\ read' \in [Sockets -> Nat] /\ arrived' \in [Sockets -> Nat]
          /\ read'["client"] <= arrived'["client"] /\ arrived'["client"] <= Len(script["client"])
      BY <1>1, ExchangesAssumption DEF NetTyped
    <3>2. QED
      BY <3>1 DEF Query
  <2>2. Received("client")' = SubSeq(Query, 1, m)
    BY <1>1 DEF Received, Query
  <2> HIDE DEF m
  <2>3. rules' = FirstQuery /\ FirstQuery \in Seq(Tokens)
    BY <1>3, <2>1, <2>2, QueryMade
  <2>4. FirstQuery' = FirstQuery
    BY <1>1 DEF FirstQuery, Query, QueryEnd, QueryEnds
  <2>5. QuerySent'
    BY <1>1, <1>3, <2>3, <2>4 DEF QuerySent
  <2>6. QED
    BY <1>1, <1>3, <2>3, <2>5 DEF Typed, QuTyped
<1>4. QED
  BY <1>1, <1>2, <1>3 DEF QuReceive, QuGoto, Typed

LEMMA QuerySending ==
  ASSUME Typed, QuerySent, NEW n, QuSend(n)
  PROVE  NetTyped' /\ QuTyped' /\ QuerySent'
<1>1. /\ "actuator" \in Sockets /\ taken \in [Sockets -> Seq(Tokens)] /\ rules \in Seq(Tokens)
      /\ Zero \in Tokens /\ <<Zero>> \in Seq(Tokens) /\ Len(<<Zero>>) = 1
      /\ UNCHANGED <<rules, actuator>>
  BY ExchangesAssumption, TokenTypes DEF Typed, NetTyped, QuTyped, QuSend
<1>2. FirstQuery' = FirstQuery /\ NetTyped'
  <2>1. UNCHANGED script /\ NetTyped'
    BY <1>1, Sends DEF QuSend, Typed
  <2>2. QED
    BY <2>1 DEF FirstQuery, Query, QueryEnd, QueryEnds
<1>3. CASE quPc = "send" /\ quPc' = "send_zero" /\ Send("actuator", rules, n)
  <2>1. taken["actuator"] = <<>> /\ rules = FirstQuery
    BY <1>3 DEF QuerySent
  <2>2. \/ taken'["actuator"] = <<>> \o rules
        \/ /\ end'["actuator"] = "reset" /\ n \in 1..(Len(rules) - 1)
           /\ taken'["actuator"] = <<>> \o SubSeq(rules, 1, n)
        \/ end'["actuator"] = "reset" /\ taken'["actuator"] = <<>>
    <3>1. \/ taken'["actuator"] = taken["actuator"] \o rules
          \/ /\ end'["actuator"] = "reset" /\ n \in 1..(Len(rules) - 1)
             /\ taken'["actuator"] = taken["actuator"] \o SubSeq(rules, 1, n)
          \/ end["actuator"] = "reset" /\ UNCHANGED <<taken, end>>
      <4>1. Send("actuator", rules, n) /\ NetTyped
        BY <1>3 DEF Typed
      <4>2. QED
        BY <1>1, <4>1, Sends
    <3>2. QED
      BY <2>1, <3>1
  <2>3. \/ taken'["actuator"] = rules
        \/ end'["actuator"] = "reset" /\ IsPrefix(taken'["actuator"], rules)
    <3>1. <<>> \o rules = rules
      BY <1>1
    <3>2. n \in 1..(Len(rules) - 1) =>
            <<>> \o SubSeq(rules, 1, n) = SubSeq(rules, 1, n) /\ n \in 0..Len(rules)
      BY <1>1
    <3>3. IsPrefix(<<>>, rules) /\ \A k \in 0..Len(rules) : IsPrefix(SubSeq(rules, 1, k), rules)
      BY <1>1, PrefixesOf
    <3>4. QED
      BY <2>2, <3>1, <3>2, <3>3
  <2>4. QuerySent'
    BY <1>1, <1>2, <1>3, <2>1, <2>3 DEF QuerySent, Broken
  <2>5. QED
    BY <1>1, <1>2, <1>3, <2>4 DEF Typed, QuTyped
<1>4. CASE quPc = "send_zero" /\ quPc' = "await" /\ Send("actuator", <<Zero>>, n)
  <2>1. /\ taken["actuator"] = rules \/ (end["actuator"] = "reset" /\ IsPrefix(taken["actuator"], rules))
        /\ rules = FirstQuery
    BY <1>4 DEF QuerySent, Broken
  <2>2. \/ end["actuator"] # "reset" /\ taken'["actuator"] = taken["actuator"] \o <<Zero>>
        \/ n \in 1..(Len(<<Zero>>) - 1)
        \/ end["actuator"] = "reset" /\ UNCHANGED <<taken, end>>
    <3>1. Send("actuator", <<Zero>>, n) /\ NetTyped
      BY <1>4 DEF Typed
    <3>2. QED
      BY <1>1, <3>1, Sends
  <2>3. n \notin 1..(Len(<<Zero>>) - 1)
    BY <1>1
  <2>4. \/ taken'["actuator"] = rules \o <<Zero>>
        \/ end'["actuator"] = "reset" /\ IsPrefix(taken'["actuator"], rules)
    <3>1. IsPrefix(rules, rules)
      BY <1>1, PrefixesOf
    <3>2. QED
      BY <2>1, <2>2, <2>3, <3>1
  <2>5. QuerySent'
    BY <1>1, <1>2, <1>4, <2>1, <2>4 DEF QuerySent, Broken
  <2>6. QED
    BY <1>1, <1>2, <1>4, <2>5 DEF Typed, QuTyped
<1>5. QED
  BY <1>3, <1>4 DEF QuSend, QuGoto

LEMMA QueryStep ==
  ASSUME Typed, QuerySent, QuStep
  PROVE  NetTyped' /\ QuTyped' /\ crashed' \in BOOLEAN /\ QuerySent'
<1>1. CASE QuConnect
  <2>1. /\ quPc = "connect" /\ quPc' \in {"send", "pend"} /\ actuator' \in {"none", "open"}
        /\ UNCHANGED <<netVars, rules, crashed>>
    BY <1>1 DEF QuConnect, QuGoto, ConnectOutcomes
  <2>2. UNCHANGED <<script, taken, end>> /\ FirstQuery' = FirstQuery
    BY <2>1 DEF netVars, FirstQuery, Query, QueryEnd, QueryEnds
  <2>3. QuerySent'
    BY <2>1, <2>2 DEF QuerySent
  <2>4. QED
    BY <2>1, <2>3 DEF Typed, NetTyped, QuTyped, netVars
<1>2. ASSUME NEW n, QuAwait(n)
      PROVE  NetTyped' /\ QuTyped' /\ crashed' \in BOOLEAN /\ QuerySent'
  <2>1. /\ UberRecv("actuator", CloseMark, n) /\ quPc = "await" /\ quPc' \in {"await", "pend"}
        /\ actuator' \in {"closed", actuator} /\ UNCHANGED <<rules, crashed>>
    BY <1>2 DEF QuAwait, QuGoto
  <2>2. NetTyped' /\ UNCHANGED <<script, end, taken>>
    BY <2>1, OneReceive DEF Typed
  <2>3. FirstQuery' = FirstQuery
    BY <2>2 DEF FirstQuery, Query, QueryEnd, QueryEnds
  <2>4. QuerySent'
    BY <2>1, <2>2, <2>3 DEF QuerySent, Broken
  <2>5. QED
    BY <2>1, <2>2, <2>4 DEF Typed, QuTyped
<1>3. CASE QuPending
  <2>1. quPc = "pend" /\ quPc' = "done" /\ UNCHANGED <<netVars, rules, actuator, crashed>>
    BY <1>3 DEF QuPending, QuGoto
  <2>2. UNCHANGED <<script, taken, end>> /\ FirstQuery' = FirstQuery
    BY <2>1 DEF netVars, FirstQuery, Query, QueryEnd, QueryEnds
  <2>3. QuerySent'
    BY <2>1, <2>2 DEF QuerySent
  <2>4. QED
    BY <2>1, <2>3 DEF Typed, NetTyped, QuTyped, netVars
<1>4. ASSUME NEW n, QuSend(n)
      PROVE  NetTyped' /\ QuTyped' /\ crashed' \in BOOLEAN /\ QuerySent'
  BY <1>4, QuerySending DEF QuSend, Typed
<1>5. QED
  BY <1>1, <1>2, <1>3, <1>4, QueryReceived DEF QuStep

-----------------------------------------------------------------------------
(* The reply on its way to the client.                                     *)

\* A step that leaves the reply and what was sent of it alone.
LEMMA ReplyKept ==
  ASSUME ReplyParsed, ResponseSent, UNCHANGED <<igVars, script>>,
         read'["generator"] = read["generator"], taken'["client"] = taken["client"],
         end["client"] = "reset" => end'["client"] = "reset"
  PROVE  ReplyParsed' /\ ResponseSent'
BY DEF igVars, ReplyParsed, ResponseSent, Received, Broken, ResponseTags

LEMMA OneMoreToken ==
  ASSUME NEW s \in Seq(Tokens), NEW m \in Nat, m < Len(s)
  PROVE  s[m + 1] \in Tokens /\ SubSeq(s, 1, m + 1) = SubSeq(s, 1, m) \o <<s[m + 1]>>
<1>1. m + 1 \in 1..Len(s) /\ 1 \in 1..Len(s) /\ m + 1 \in 1..Len(s) /\ (m + 1) - 1 = m
  OBVIOUS
<1>2. SubSeq(s, 1, m + 1) = SubSeq(s, 1, (m + 1) - 1) \o <<s[m + 1]>>
  BY <1>1, SubSeqRecursiveSecond
<1>3. QED
  BY <1>1, <1>2

LEMMA ReplyReceiving ==
  ASSUME Typed, ReplyParsed, ResponseSent, IgReceive
  PROVE  /\ NetTyped' /\ IgTyped' /\ UNCHANGED <<taken, end>>
         /\ ReplyParsed' /\ ResponseSent'
<1> DEFINE s == script["generator"]
           m == read["generator"]
           byte == s[m + 1]
           r == Received("generator")
<1>1. RecvSome("generator", 1) /\ "generator" \in Sockets /\ "generator" \notin {"client", "actuator"}
  BY ExchangesAssumption DEF IgReceive
<1>2. /\ NetTyped' /\ UNCHANGED <<script, arrived, end, taken>> /\ read'["generator"] = m + 1
      /\ m + 1 \in Nat
  <2>1. NetTyped /\ m \in Nat
    BY <1>1 DEF Typed, NetTyped
  <2>2. 1 \in Nat /\ m + 1 \in Nat
    BY <2>1
  <2>3. QED
    BY <1>1, <2>1, <2>2, Receives
<1>3. s \in Seq(Tokens) /\ m \in Nat /\ m < Len(s)
  <2>1. 1 \in 1..(arrived["generator"] - m)
    BY <1>1 DEF RecvSome
  <2>2. /\ m \in Nat /\ arrived["generator"] \in Nat /\ s \in Seq(Tokens) /\ Len(s) \in Nat
        /\ arrived["generator"] <= Len(s)
    BY <1>1 DEF Typed, NetTyped
  <2>3. QED
    BY <2>1, <2>2
<1>4. /\ byte \in Tokens /\ r' = r \o <<byte>> /\ r \in Seq(Tokens)
      /\ tag \in Seq(Tokens) /\ file \in Seq(Tokens) /\ <<Zero>> \in Seq(Tokens)
  <2>1. byte \in Tokens /\ SubSeq(s, 1, m + 1) = SubSeq(s, 1, m) \o <<byte>>
    BY <1>3, OneMoreToken
  <2>2. r' = SubSeq(s, 1, m + 1) /\ r = SubSeq(s, 1, m)
    BY <1>2 DEF Received
  <2>3. SubSeq(s, 1, m) \in Seq(Tokens)
    BY <1>3
  <2>4. tag \in Seq(Tokens) /\ file \in Seq(Tokens) /\ <<Zero>> \in Seq(Tokens)
    BY TokenTypes DEF Typed, IgTyped
  <2> HIDE DEF r, byte
  <2>5. QED
    BY <2>1, <2>2, <2>3, <2>4
<1> HIDE DEF r, byte
<1>5. igPc = "recv" /\ igPc' = "recv" /\ UNCHANGED <<total, connected>>
  BY DEF IgReceive, IgGoto
<1>6. ResponseSent'
  BY <1>2, <1>5 DEF ResponseSent
<1>7. CASE ~nullTerm /\ byte # Zero /\ tag' = Append(tag, byte) /\ UNCHANGED <<nullTerm, file>>
  <2>1. tag' = tag \o <<byte>> /\ tag' \in Seq(Tokens) /\ r = tag /\ file' = <<>>
    BY <1>4, <1>7 DEF ReplyParsed, r
  <2>2. \A k \in DOMAIN tag' : tag'[k] # Zero
    <3>1. DOMAIN tag' = 1..(Len(tag) + 1) /\ tag'[Len(tag) + 1] = byte
          /\ \A k \in 1..Len(tag) : tag'[k] = tag[k]
      BY <1>4, <1>7
    <3>2. \A k \in 1..Len(tag) : tag[k] # Zero
      BY <1>4 DEF ReplyParsed
    <3>3. QED
      BY <1>7, <3>1, <3>2
  <2>3. ReplyParsed'
    BY <1>4, <1>7, <2>1, <2>2 DEF ReplyParsed, r
  <2>4. QED
    BY <1>2, <1>5, <1>6, <1>7, <2>1, <2>3 DEF Typed, IgTyped
<1>8. CASE ~nullTerm /\ byte = Zero /\ nullTerm' = TRUE /\ UNCHANGED <<tag, file>>
  <2>1. r = tag /\ file = <<>> /\ (tag \o <<Zero>>) \o <<>> = tag \o <<Zero>>
    BY <1>4, <1>8 DEF ReplyParsed, r
  <2>2. ReplyParsed'
    BY <1>4, <1>8, <2>1 DEF ReplyParsed, r
  <2>3. QED
    BY <1>2, <1>5, <1>6, <1>8, <2>2 DEF Typed, IgTyped
<1>9. CASE nullTerm /\ file' = Append(file, byte) /\ UNCHANGED <<nullTerm, tag>>
  <2>1. r = (tag \o <<Zero>>) \o file /\ file' \in Seq(Tokens) /\ file' = file \o <<byte>>
    BY <1>4, <1>9 DEF ReplyParsed, r
  <2>2. ((tag \o <<Zero>>) \o file) \o <<byte>> = (tag \o <<Zero>>) \o (file \o <<byte>>)
    <3>1. tag \o <<Zero>> \in Seq(Tokens) /\ <<byte>> \in Seq(Tokens)
      BY <1>4
    <3>2. QED
      BY <1>4, <3>1, ConcatAssociative, SMTT(30)
  <2>3. ReplyParsed'
    BY <1>4, <1>9, <2>1, <2>2 DEF ReplyParsed, r
  <2>4. QED
    BY <1>2, <1>5, <1>6, <1>9, <2>1, <2>3 DEF Typed, IgTyped
<1>10. QED
  BY <1>7, <1>8, <1>9 DEF IgReceive, byte

LEMMA ResponseTyped ==
  ASSUME NEW n \in Nat
  PROVE  /\ ResponseTags(n) \in Seq(Tokens) /\ Len(ResponseTags(n)) \in Nat \ {0}
         /\ ResponseTags(n) \o <<Zero>> \in Seq(Tokens)
<1>1. /\ OpenLength \in Seq(Tokens) /\ CloseLength \in Seq(Tokens)
      /\ <<n>> \in Seq(Tokens) /\ <<Zero>> \in Seq(Tokens) /\ Len(<<n>>) = 1
  BY TokenTypes
<1>2. OpenLength \o <<n>> \in Seq(Tokens) /\ Len(OpenLength \o <<n>>) = Len(OpenLength) + 1
  BY <1>1
<1>3. /\ (OpenLength \o <<n>>) \o CloseLength \in Seq(Tokens)
      /\ Len((OpenLength \o <<n>>) \o CloseLength) = Len(OpenLength) + 1 + Len(CloseLength)
  BY <1>1, <1>2
<1>4. QED
  BY <1>1, <1>3 DEF ResponseTags

LEMMA ReplySending ==
  ASSUME Typed, ReplyParsed, ResponseSent,
         NEW n \in Int, IgSendTags(n) \/ IgSendZero(n) \/ IgSendImage(n)
  PROVE  /\ NetTyped' /\ IgTyped' /\ UNCHANGED script
         /\ taken'["actuator"] = taken["actuator"] /\ end'["actuator"] = end["actuator"]
         /\ ReplyParsed' /\ ResponseSent'
<1> DEFINE tags == ResponseTags(Len(file))
<1>1. /\ NetTyped /\ "client" \in Sockets /\ "actuator" \in Sockets
      /\ tags \in Seq(Tokens) /\ Len(tags) \in Nat \ {0} /\ tags \o <<Zero>> \in Seq(Tokens)
      /\ <<Zero>> \in Seq(Tokens) /\ Len(<<Zero>>) = 1
      /\ file \in Seq(Tokens) /\ Len(file) \in Nat /\ connected \in BOOLEAN /\ total \in Int
      /\ taken["client"] \in Seq(Tokens)
  <2>1. file \in Seq(Tokens) /\ Len(file) \in Nat
    BY DEF Typed, IgTyped
  <2>2. tags \in Seq(Tokens) /\ Len(tags) \in Nat \ {0} /\ tags \o <<Zero>> \in Seq(Tokens)
    BY <2>1, ResponseTyped
  <2>3. <<Zero>> \in Seq(Tokens) /\ Len(<<Zero>>) = 1
    BY TokenTypes
  <2>4. NetTyped /\ "client" \in Sockets /\ "actuator" \in Sockets /\ taken["client"] \in Seq(Tokens)
    BY ExchangesAssumption DEF Typed, NetTyped
  <2>5. QED
    BY <2>1, <2>2, <2>3, <2>4 DEF Typed, IgTyped
<1>2. UNCHANGED <<nullTerm, tag, file>>
  BY DEF IgSendTags, IgSendZero, IgSendImage
<1> HIDE DEF tags
<1>3. ASSUME NEW data \in Seq(Tokens), Send("client", data, n)
      PROVE  /\ NetTyped' /\ UNCHANGED <<script, read>>
             /\ taken'["actuator"] = taken["actuator"] /\ end'["actuator"] = end["actuator"]
             /\ \/ /\ end["client"] # "reset" /\ n = Len(data)
                   /\ taken'["client"] = taken["client"] \o data
                \/ end'["client"] = "reset" /\ n # Len(data)
  <2>1. /\ NetTyped' /\ UNCHANGED <<script, arrived, read>>
        /\ \A x \in Sockets : x # "client" => taken'[x] = taken[x] /\ end'[x] = end[x]
        /\ \/ /\ end["client"] # "reset" /\ n = Len(data)
              /\ taken'["client"] = taken["client"] \o data /\ end'["client"] = end["client"]
           \/ /\ end'["client"] = "reset" /\ n \in 1..(Len(data) - 1)
              /\ taken'["client"] = taken["client"] \o SubSeq(data, 1, n)
           \/ end["client"] = "reset" /\ n = Failure /\ UNCHANGED <<taken, end>>
    <3>1. NetTyped /\ "client" \in Sockets /\ Send("client", data, n)
      BY <1>1, <1>3
    <3>2. data \in Seq(Tokens)
      OBVIOUS
    <3>3. QED
      BY <3>1, <3>2, Sends, ZenonT(40)
  <2>2. Len(data) \in Nat /\ Failure = -1
    BY DEF Failure
  <2>3. n \in 1..(Len(data) - 1) \/ n = Failure => n # Len(data)
    BY <2>2
  <2>4. QED
    BY <1>1, <2>1, <2>3
<1>4. ASSUME UNCHANGED <<script, read>> PROVE ReplyParsed'
  BY <1>2, <1>4 DEF ReplyParsed, Received
<1>5. ResponseTags(Len(file'))= tags
  BY <1>2 DEF tags
<1>6. CASE IgSendTags(n)
  <2>1. /\ igPc = "send_tags" /\ igPc' = "send_zero" /\ Send("client", tags, n)
        /\ total' = n /\ connected' = (total' > 0)
    BY <1>6 DEF IgSendTags, IgGoto, StringSent, tags
  <2>2. taken["client"] = <<>> /\ <<>> \o tags = tags
    BY <1>1, <2>1 DEF ResponseSent
  <2>3. \/ /\ total' = Len(tags) /\ taken'["client"] = tags
        \/ end'["client"] = "reset"
    BY <1>1, <1>3, <2>1, <2>2
  <2>4. total' = Len(tags) => connected'
    <3>1. total' = Len(tags) => total' > 0
      BY <1>1
    <3>2. QED
      BY <2>1, <3>1
  <2>5. ResponseSent'
    BY <1>5, <2>1, <2>3, <2>4 DEF ResponseSent, Broken
  <2>6. IgTyped'
    BY <1>1, <1>2, <2>1 DEF Typed, IgTyped
  <2>7. QED
    BY <1>1, <1>3, <1>4, <2>1, <2>5, <2>6
<1>7. CASE IgSendZero(n)
  <2>1. /\ igPc = "send_zero" /\ igPc' = "send_image" /\ Send("client", <<Zero>>, n)
        /\ total' = total + n /\ connected' = (connected /\ total' > 0)
    BY <1>7 DEF IgSendZero, IgGoto, StringSent
  <2>2. \/ end["client"] = "reset"
        \/ connected /\ total = Len(tags) /\ taken["client"] = tags
    BY <2>1 DEF ResponseSent, Broken, tags
  <2>3. \/ /\ end["client"] # "reset" /\ n = 1 /\ taken'["client"] = taken["client"] \o <<Zero>>
        \/ end'["client"] = "reset"
    BY <1>1, <1>3, <2>1
  <2>4. \/ connected' /\ taken'["client"] = tags \o <<Zero>>
        \/ end'["client"] = "reset"
    BY <1>1, <2>1, <2>2, <2>3
  <2>5. ResponseSent'
    BY <1>5, <2>1, <2>4 DEF ResponseSent, Broken
  <2>6. IgTyped'
    BY <1>1, <1>2, <2>1 DEF Typed, IgTyped
  <2>7. QED
    BY <1>1, <1>3, <1>4, <2>1, <2>5, <2>6
<1>8. CASE IgSendImage(n)
  <2>1. /\ igPc = "send_image" /\ igPc' = "done" /\ Send("client", file, n)
        /\ total' = n /\ connected' = (connected /\ n = Len(file))
    BY <1>8 DEF IgSendImage, IgGoto, AllSent
  <2>2. \/ end["client"] = "reset"
        \/ connected /\ taken["client"] = tags \o <<Zero>>
    BY <2>1 DEF ResponseSent, Broken, tags
  <2>3. \/ /\ end["client"] # "reset" /\ n = Len(file) /\ taken'["client"] = taken["client"] \o file
        \/ end'["client"] = "reset" /\ n # Len(file)
    BY <1>1, <1>3, <2>1
  <2>4. IF connected' THEN taken'["client"] = (tags \o <<Zero>>) \o file ELSE end'["client"] = "reset"
    BY <1>1, <2>1, <2>2, <2>3
  <2>5. ResponseSent'
    BY <1>2, <1>5, <2>1, <2>4 DEF ResponseSent, Broken
  <2>6. IgTyped'
    BY <1>1, <1>2, <2>1 DEF Typed, IgTyped
  <2>7. QED
    BY <1>1, <1>3, <1>4, <2>1, <2>5, <2>6
<1>9. QED
  BY <1>6, <1>7, <1>8

LEMMA ReplyStep ==
  ASSUME Typed, ReplyParsed, ResponseSent, IgStep
  PROVE  /\ NetTyped' /\ IgTyped' /\ crashed' \in BOOLEAN
         /\ UNCHANGED <<quVars, script>>
         /\ taken'["actuator"] = taken["actuator"] /\ end'["actuator"] = end["actuator"]
         /\ ReplyParsed' /\ ResponseSent'
<1>1. CASE IgReceive
  <2>1. UNCHANGED <<quVars, crashed, script>>
    BY <1>1 DEF IgReceive, RecvSome
  <2>2. QED
    BY <1>1, <2>1, ReplyReceiving DEF Typed
<1>2. CASE IgReceived \/ IgScan
  <2>1. /\ igPc \in {"recv", "scan"} /\ igPc' \in {"scan", "send_tags"} /\ crashed' \in BOOLEAN
        /\ UNCHANGED <<netVars, quVars, nullTerm, tag, file, total, connected>>
    BY <1>2 DEF IgReceived, IgScan, IgGoto, Typed, TagContentInt
  <2>2. ReplyParsed' /\ ResponseSent'
    BY <2>1 DEF ReplyParsed, ResponseSent, Received, netVars
  <2>3. QED
    BY <2>1, <2>2 DEF Typed, NetTyped, IgTyped, netVars
<1>3. ASSUME NEW n \in Failure..Len(ResponseTags(Len(file)) \o file),
             IgSendTags(n) \/ IgSendZero(n) \/ IgSendImage(n)
      PROVE  /\ NetTyped' /\ IgTyped' /\ crashed' \in BOOLEAN
             /\ UNCHANGED <<quVars, script>>
             /\ taken'["actuator"] = taken["actuator"] /\ end'["actuator"] = end["actuator"]
             /\ ReplyParsed' /\ ResponseSent'
  <2>1. n \in Int
    OBVIOUS
  <2>2. UNCHANGED <<quVars, crashed>>
    BY <1>3 DEF IgSendTags, IgSendZero, IgSendImage
  <2>3. QED
    BY <1>3, <2>1, <2>2, ReplySending DEF Typed
<1>4. QED
  BY <1>1, <1>2, <1>3 DEF IgStep

-----------------------------------------------------------------------------
(* The inductive invariant.                                                *)

Joined == Typed /\ ReplyParsed /\ ResponseSent /\ QuerySent

LEMMA Layers == IndInv <=> Joined
<1>1. Typed <=> TypeOK /\ MessagesTyped
  BY DEF Typed, NetTyped, QuTyped, IgTyped, TypeOK, MessagesTyped
<1>2. QED
  BY <1>1 DEF IndInv, Joined

LEMMA InitHolds == ASSUME Init PROVE Joined
<1>1. script \in [Sockets -> Seq(Tokens)]
  <2>1. <<>> \in Seq(Tokens) /\ \A m \in Texts : m \in Seq(Tokens)
    BY TokenTypes
  <2>2. ASSUME NEW t \in Tags, NEW i \in Images PROVE GeneratorSends(t, i) \in Seq(Tokens)
    <3>1. t \in Seq(Tokens) /\ i \in Seq(Tokens) /\ <<Zero>> \in Seq(Tokens)
      BY <2>1, TokenTypes DEF Texts
    <3>2. QED
      BY <3>1 DEF GeneratorSends
  <2>3. Queries \subseteq Seq(Tokens) /\ Answers \subseteq Seq(Tokens)
        /\ {GeneratorSends(t, i) : t \in Tags, i \in Images} \subseteq Seq(Tokens)
    BY <2>1, <2>2 DEF Texts
  <2>4. \/ script \in [client : Queries, actuator : Answers, generator : {<<>>}]
        \/ script \in [client : {<<>>}, actuator : {<<>>},
                       generator : {GeneratorSends(t, i) : t \in Tags, i \in Images}]
    BY DEF Init
  <2>5. script \in [client : Seq(Tokens), actuator : Seq(Tokens), generator : Seq(Tokens)]
    <3>1. CASE script \in [client : Queries, actuator : Answers, generator : {<<>>}]
      <4> DEFINE S == Seq(Tokens)
      <4>1. Queries \subseteq S /\ Answers \subseteq S /\ <<>> \in S
        BY <2>1, <2>3
      <4> HIDE DEF S
      <4>2. script \in [client : S, actuator : S, generator : S]
        BY <3>1, <4>1
      <4>3. QED
        BY <4>2 DEF S
    <3>2. CASE script \in [client : {<<>>}, actuator : {<<>>},
                          generator : {GeneratorSends(t, i) : t \in Tags, i \in Images}]
      <4> DEFINE G == {GeneratorSends(t, i) : t \in Tags, i \in Images}
      <4>1. G \subseteq Seq(Tokens) /\ script \in [client : {<<>>}, actuator : {<<>>}, generator : G]
        BY <2>3, <3>2
      <4> HIDE DEF G
      <4>2. QED
        BY <2>1, <4>1
    <3>3. QED
      BY <2>4, <3>1, <3>2
  <2>6. QED
    BY <2>5, ExchangesAssumption
<1>2. NetTyped
  <2>1. \A s \in Sockets : Len(script[s]) \in Nat /\ read[s] = 0 /\ arrived[s] = 0
    BY <1>1 DEF Init
  <2>2. BufferSize \in Nat /\ {"client", "actuator"} \subseteq Sockets
    BY NetworkingAssumption, ExchangesAssumption
  <2>3. /\ \A s \in Sockets : read[s] <= arrived[s] /\ arrived[s] <= Len(script[s])
        /\ \A s \in {"client", "actuator"} : read[s] <= BufferSize
    BY <2>1, <2>2
  <2>4. /\ arrived \in [Sockets -> Nat] /\ read \in [Sockets -> Nat]
        /\ end \in [Sockets -> {"up", "gone", "reset"}] /\ taken \in [Sockets -> Seq(Tokens)]
    BY DEF Init
  <2>5. QED
    BY <1>1, <2>3, <2>4 DEF NetTyped
<1>3. QuTyped /\ IgTyped /\ crashed \in BOOLEAN
  <2>1. <<>> \in Seq(Tokens)
    BY EmptySeq
  <2>2. QuTyped
    BY <2>1 DEF Init, QuTyped
  <2>3. IgTyped
    <3>1. igPc \in {"recv", "done"} /\ tag = <<>> /\ file = <<>>
      BY DEF Init
    <3>2. total \in Int
      BY DEF Init
    <3>3. nullTerm = FALSE /\ connected = TRUE
      BY DEF Init
    <3>4. QED
      BY <2>1, <3>1, <3>2, <3>3 DEF IgTyped
  <2>4. QED
    BY <2>2, <2>3 DEF Init
<1>4. /\ quPc \in {"recv", "done"} /\ igPc \in {"recv", "done"}
      /\ igPc = "done" => script["generator"] = <<>>
  BY DEF Init
<1>5. \A s \in Sockets : taken[s] = <<>> /\ read[s] = 0
  BY DEF Init
<1>6. "client" \in Sockets /\ "actuator" \in Sockets /\ "generator" \in Sockets
  BY ExchangesAssumption
<1>7. ReplyParsed
  <2>1. Received("generator") = <<>>
    BY <1>5, <1>6, SubSeqEmpty DEF Received
  <2>2. tag = <<>> /\ file = <<>> /\ nullTerm = FALSE
    BY DEF Init
  <2>3. QED
    BY <2>1, <2>2 DEF ReplyParsed
<1>8. ResponseSent /\ QuerySent
  BY <1>4, <1>5, <1>6 DEF ResponseSent, QuerySent
<1>9. QED
  BY <1>2, <1>3, <1>7, <1>8 DEF Typed, Joined

LEMMA StepKeeps == ASSUME Joined, [Next]_vars PROVE Joined'
<1>1. Typed /\ ReplyParsed /\ ResponseSent /\ QuerySent
  BY DEF Joined
<1>2. CASE QuStep
  <2>1. NetTyped' /\ QuTyped' /\ crashed' \in BOOLEAN /\ QuerySent'
    BY <1>1, <1>2, QueryStep
  <2>2. /\ UNCHANGED <<igVars, script>> /\ read'["generator"] = read["generator"]
        /\ taken'["client"] = taken["client"]
        /\ end["client"] = "reset" => end'["client"] = "reset"
    <3>1. "client" \in Sockets /\ "actuator" \in Sockets /\ "generator" \in Sockets
          /\ <<Zero>> \in Seq(Tokens) /\ rules \in Seq(Tokens) /\ NetTyped
      BY <1>1, ExchangesAssumption, TokenTypes DEF Typed, QuTyped
    <3>2. CASE QuConnect \/ QuPending
      BY <3>2 DEF QuConnect, QuPending, netVars
    <3>3. ASSUME NEW n, QuReceive(n) \/ QuAwait(n)
          PROVE  /\ UNCHANGED <<igVars, script, taken, end>>
                 /\ read'["generator"] = read["generator"]
      <4>1. PICK s \in {"client", "actuator"}, delimit \in {Delimiter, CloseMark} : UberRecv(s, delimit, n)
        BY <3>3 DEF QuReceive, QuAwait
      <4>2. /\ UNCHANGED <<script, taken, end>>
            /\ \A x \in Sockets : x # s => read'[x] = read[x]
        BY <3>1, <4>1, OneReceive
      <4>3. UNCHANGED igVars
        BY <3>3 DEF QuReceive, QuAwait
      <4>4. QED
        BY <3>1, <4>2, <4>3
    <3>4. ASSUME NEW n, QuSend(n)
          PROVE  /\ UNCHANGED <<igVars, script, read>> /\ taken'["client"] = taken["client"]
                 /\ end'["client"] = end["client"]
      <4>1. PICK data \in {rules, <<Zero>>} : Send("actuator", data, n)
        BY <3>4 DEF QuSend
      <4>2. data \in Seq(Tokens)
        BY <3>1, <4>1
      <4>3. /\ UNCHANGED <<script, read>>
            /\ \A x \in Sockets : x # "actuator" => taken'[x] = taken[x] /\ end'[x] = end[x]
        BY <3>1, <4>1, <4>2, Sends
      <4>4. UNCHANGED igVars
        BY <3>4 DEF QuSend
      <4>5. QED
        BY <3>1, <4>3, <4>4
    <3>5. QED
      BY <1>2, <3>2, <3>3, <3>4 DEF QuStep
  <2>3. ReplyParsed' /\ ResponseSent'
    BY <1>1, <2>2, ReplyKept
  <2>4. IgTyped'
    BY <1>1, <2>2 DEF Typed, IgTyped, igVars
  <2>5. QED
    BY <2>1, <2>3, <2>4 DEF Typed, Joined
<1>3. CASE IgStep
  <2>1. /\ NetTyped' /\ IgTyped' /\ crashed' \in BOOLEAN /\ UNCHANGED <<quVars, script>>
        /\ taken'["actuator"] = taken["actuator"] /\ end'["actuator"] = end["actuator"]
        /\ ReplyParsed' /\ ResponseSent'
    BY <1>1, <1>3, ReplyStep
  <2>2. QuerySent' /\ QuTyped'
    BY <1>1, <2>1, QueryKept DEF Typed, QuTyped, quVars
  <2>3. QED
    BY <2>1, <2>2 DEF Typed, Joined
<1>4. ASSUME NEW s \in Sockets, PeerStep(s) PROVE Joined'
  <2>1. /\ NetTyped' /\ UNCHANGED <<script, read, taken, quVars, igVars, crashed>>
        /\ \A x \in Sockets : end[x] = "reset" => end'[x] = "reset"
    BY <1>1, <1>4, Peers DEF Typed
  <2>2. "client" \in Sockets /\ "actuator" \in Sockets
    BY ExchangesAssumption
  <2>3. ReplyParsed' /\ ResponseSent'
    BY <1>1, <2>1, <2>2, ReplyKept
  <2>4. QuerySent' /\ QuTyped' /\ IgTyped' /\ crashed' \in BOOLEAN
    BY <1>1, <2>1, <2>2, QueryKept DEF Typed, QuTyped, IgTyped, quVars, igVars
  <2>5. QED
    BY <2>1, <2>3, <2>4 DEF Typed, Joined
<1>5. CASE UNCHANGED vars
  <2>1. UNCHANGED <<netVars, quVars, igVars, crashed>>
    BY <1>5 DEF vars
  <2>2. ReplyParsed' /\ ResponseSent' /\ QuerySent'
    BY <1>1, <2>1, ReplyKept, QueryKept DEF netVars, quVars
  <2>3. Typed'
    BY <1>1, <2>1 DEF Typed, NetTyped, QuTyped, IgTyped, netVars, quVars, igVars
  <2>4. QED
    BY <2>2, <2>3 DEF Joined
<1>6. QED
  BY <1>2, <1>3, <1>4, <1>5 DEF Next

\* The inductive invariant holds in every state the handlers reach.
THEOREM Invariance == Spec => []IndInv
<1>1. Init => Joined
  BY InitHolds
<1>2. Joined /\ [Next]_vars => Joined'
  BY StepKeeps
<1>3. Joined => IndInv
  BY Layers
<1>4. QED
  BY <1>1, <1>2, <1>3, PTL DEF Spec

-----------------------------------------------------------------------------
(* The properties.                                                         *)

\* What comes after the first zero of what the generator sent is the file.
LEMMA ImageIs ==
  ASSUME IndInv
  PROVE  LET sent == Received("generator") IN
         SubSeq(sent, Len(CString(sent)) + 2, Len(sent)) = file
<1> DEFINE sent == Received("generator")
           l == Len(CString(sent))
           m == Len(tag)
           n == Len(file)
<1>1. /\ tag \in Seq(Tokens) /\ file \in Seq(Tokens) /\ <<Zero>> \in Seq(Tokens)
      /\ m \in Nat /\ n \in Nat
      /\ \A k \in 1..m : tag[k] # Zero
  BY TokenTypes DEF IndInv, MessagesTyped, ReplyParsed
<1>2. sent = IF nullTerm THEN tag \o <<Zero>> \o file ELSE tag
  BY DEF IndInv, ReplyParsed
<1>3. sent \in Seq(Tokens)
  <2>1. /\ script \in [Sockets -> Seq(Tokens)] /\ "generator" \in Sockets
        /\ read["generator"] \in Nat /\ read["generator"] <= Len(script["generator"])
    <3>1. /\ script \in [Sockets -> Seq(Tokens)] /\ "generator" \in Sockets
          /\ read \in [Sockets -> Nat] /\ arrived \in [Sockets -> Nat]
          /\ read["generator"] <= arrived["generator"]
          /\ arrived["generator"] <= Len(script["generator"])
      BY ExchangesAssumption DEF IndInv, TypeOK, MessagesTyped
    <3> DEFINE r == read["generator"]
               a == arrived["generator"]
               c == Len(script["generator"])
    <3>2. r \in Nat /\ a \in Nat /\ c \in Nat /\ r <= a /\ a <= c
      BY <3>1
    <3> HIDE DEF r, a, c
    <3>3. r \in Nat /\ r <= c
      BY <3>2
    <3>4. QED
      BY <3>1, <3>3 DEF r, c
  <2>2. SubSeq(script["generator"], 1, read["generator"]) \in Seq(Tokens)
    BY <2>1
  <2>3. QED
    BY <2>2 DEF Received
<1>4. /\ l \in 0..Len(sent) /\ \A k \in 1..l : sent[k] # Zero
      /\ l < Len(sent) => sent[l + 1] = Zero
  BY <1>3, StringOf
<1> HIDE DEF l
<1>5. CASE nullTerm
  <2>1. /\ Len(sent) = m + 1 + n /\ sent[m + 1] = Zero
        /\ \A k \in 1..m : sent[k] = tag[k]
        /\ \A k \in 1..n : sent[m + 1 + k] = file[k]
    <3>1. /\ tag \o <<Zero>> \in Seq(Tokens) /\ Len(tag \o <<Zero>>) = m + 1
          /\ (tag \o <<Zero>>)[m + 1] = Zero /\ \A k \in 1..m : (tag \o <<Zero>>)[k] = tag[k]
      BY <1>1
    <3> DEFINE head == tag \o <<Zero>>
    <3> HIDE DEF head, sent
    <3>2. head \in Seq(Tokens) /\ Len(head) = m + 1 /\ sent = head \o file
          /\ head[m + 1] = Zero /\ \A k \in 1..m : head[k] = tag[k]
      BY <1>2, <1>5, <3>1 DEF head
    <3>3. /\ Len(sent) = (m + 1) + n
          /\ \A k \in 1..(m + 1) : sent[k] = head[k]
          /\ \A k \in 1..n : sent[(m + 1) + k] = file[k]
      <4>1. /\ Len(head \o file) = Len(head) + Len(file)
            /\ \A k \in 1..(Len(head) + Len(file)) :
                 (head \o file)[k] = IF k <= Len(head) THEN head[k] ELSE file[k - Len(head)]
        BY <1>1, <3>2, ConcatProperties
      <4>2. /\ Len(sent) = (m + 1) + n
            /\ \A k \in 1..((m + 1) + n) :
                 sent[k] = IF k <= m + 1 THEN head[k] ELSE file[k - (m + 1)]
        BY <3>2, <4>1
      <4>3. \A k \in 1..n : /\ (m + 1) + k \in 1..((m + 1) + n) /\ ~ ((m + 1) + k <= m + 1)
                            /\ ((m + 1) + k) - (m + 1) = k
        BY <1>1
      <4>4. \A k \in 1..(m + 1) : k \in 1..((m + 1) + n) /\ k <= m + 1
        BY <1>1
      <4>5. QED
        BY <4>2, <4>3, <4>4
    <3>4. m + 1 \in 1..(m + 1) /\ \A k \in 1..m : k \in 1..(m + 1)
      BY <1>1
    <3>5. QED
      BY <1>1, <3>2, <3>3, <3>4
  <2> HIDE DEF sent
  <2>2. l = m
    <3>1. ~ (l > m)
      <4>1. l > m => m + 1 \in 1..l
        BY <1>1, <1>4
      <4>2. QED
        BY <1>4, <2>1, <4>1
    <3>2. ~ (l < m)
      <4>1. l < m => l + 1 \in 1..m /\ l < Len(sent)
        BY <1>1, <1>4, <2>1
      <4>2. QED
        BY <1>1, <1>4, <2>1, <4>1
    <3>3. QED
      BY <1>1, <1>4, <3>1, <3>2
  <2> DEFINE image == SubSeq(sent, m + 2, Len(sent))
  <2>3. image \in Seq(Tokens) /\ Len(image) = n
        /\ \A k \in 1..n : image[k] = sent[m + 1 + k]
    <3>1. \A k \in (m + 2)..Len(sent) : sent[k] \in Tokens
      BY <1>1, <1>3, <2>1
    <3>2. /\ image \in Seq(Tokens)
          /\ Len(image) = IF m + 2 <= Len(sent) THEN Len(sent) - (m + 2) + 1 ELSE 0
          /\ \A k \in 1..(Len(sent) - (m + 2) + 1) : image[k] = sent[(m + 2) + k - 1]
      <4>1. m + 2 \in Int /\ Len(sent) \in Int
        BY <1>1, <2>1
      <4>2. QED
        BY <3>1, <4>1, SubSeqProperties
    <3> HIDE DEF image
    <3>3. Len(sent) - (m + 2) + 1 = n /\ (IF m + 2 <= Len(sent) THEN n ELSE 0) = n
      BY <1>1, <2>1
    <3>4. \A k \in 1..n : (m + 2) + k - 1 = m + 1 + k
      BY <1>1
    <3>5. QED
      BY <3>2, <3>3, <3>4
  <2> HIDE DEF image
  <2>4. image = file
    BY <1>1, <2>1, <2>3, SeqEqual
  <2>5. QED
    BY <2>2, <2>4 DEF image, l, sent
<1>6. CASE ~nullTerm
  <2>1. sent = tag /\ file = <<>>
    BY <1>2, <1>6 DEF IndInv, ReplyParsed
  <2> HIDE DEF sent
  <2>2. l = m
    <3>1. ~ (l < m)
      <4>1. l < m => l + 1 \in 1..m
        BY <1>1, <1>4, <2>1
      <4>2. QED
        BY <1>1, <1>4, <2>1, <4>1
    <3>2. QED
      BY <1>1, <1>4, <2>1, <3>1
  <2>3. SubSeq(sent, m + 2, m) = <<>>
    BY <1>1, SubSeqEmpty
  <2>4. QED
    BY <2>1, <2>2, <2>3 DEF l, sent
<1>7. QED
  BY <1>5, <1>6

\* Every variable has its type, and uber_recv never receives more than its
\* buffer holds.
THEOREM TypeCorrect == Spec => []TypeOK
<1>1. IndInv => TypeOK
  BY DEF IndInv
<1>2. QED
  BY <1>1, Invariance, PTL

\* However the query is cut into pieces and whatever follows it, the actuator is
\* sent the text up to its first delimiter and nothing else.
THEOREM QueryCorrect == Spec => []QueryForwarded
<1>1. ASSUME IndInv PROVE QueryForwarded
  <2> DEFINE sent == taken["actuator"]
             forwarded == FirstQuery \o <<Zero>>
  <2>1. /\ quPc \in {"recv", "connect", "send", "send_zero", "await", "pend", "done"}
        /\ <<Zero>> \in Seq(Tokens) /\ rules \in Seq(Tokens) /\ sent \in Seq(Tokens)
    BY <1>1, TokenTypes, ExchangesAssumption DEF IndInv, TypeOK, MessagesTyped
  <2>2. ASSUME sent # <<>> PROVE IsPrefix(sent, forwarded)
    <3>1. rules = FirstQuery
      BY <1>1, <2>2 DEF IndInv, QuerySent
    <3>2. sent = rules \/ sent = rules \o <<Zero>> \/ IsPrefix(sent, rules)
      BY <1>1, <2>1, <2>2 DEF IndInv, QuerySent
    <3>3. IsPrefix(rules, rules \o <<Zero>>) /\ (IsPrefix(sent, rules) => IsPrefix(sent, rules \o <<Zero>>))
      BY <2>1, PrefixesOf
    <3>4. IsPrefix(rules \o <<Zero>>, rules \o <<Zero>>)
      <4>1. rules \o <<Zero>> \in Seq(Tokens)
        BY <2>1
      <4>2. QED
        BY <4>1, PrefixesOf
    <3>5. QED
      BY <3>1, <3>2, <3>3, <3>4
  <2>3. quPc = "await" /\ ~Broken("actuator") => sent = forwarded
    BY <1>1 DEF IndInv, QuerySent
  <2>4. QED
    BY <2>2, <2>3 DEF QueryForwarded
<1>2. QED
  BY <1>1, Invariance, PTL

\* A client that is kept after a response was sent all of it, one that is
\* dropped has a broken connection: the masked failure of a send is noticed.
THEOREM ResponseCorrect == Spec => []ImageRelayed
<1>1. ASSUME IndInv PROVE ImageRelayed
  BY <1>1, ImageIs DEF IndInv, ResponseSent, ImageRelayed
<1>2. QED
  BY <1>1, Invariance, PTL

=============================================================================
