---------------------------- MODULE Scanner_proofs ----------------------------
(***************************************************************************)
(* The tag scanner of module Messages on the tags of module Exchanges, for *)
(* texts of any length, cut anywhere.                                      *)
(***************************************************************************)
EXTENDS Exchanges_proofs

-----------------------------------------------------------------------------
(* One call of the scanner, on a text b without zeros.                     *)

Clean(b) == b \in Seq(Tokens) /\ \A k \in 1..Len(b) : b[k] # Zero

\* Two tags that can be told apart, each one token.
TagPair(open, close) ==
  /\ open \in Seq(Tokens) /\ Len(open) = 1 /\ open[1] \notin Nat
  /\ close \in Seq(Tokens) /\ Len(close) = 1
  /\ open[1] # close[1]

\* p is the first place with a closing tag; its opening tag and a number precede.
FirstPair(b, open, close, p) ==
  /\ p \in 3..Len(b)
  /\ b[p] = close[1] /\ b[p - 2] = open[1] /\ b[p - 1] \in Nat
  /\ \A k \in 1..Len(b) : k < p => b[k] # close[1]

LEMMA LeastIs ==
  ASSUME NEW S \in SUBSET Nat, NEW x \in S, \A y \in S : x <= y
  PROVE  Min(S) = x
<1>1. Min(S) \in S /\ Min(S) <= x
  BY LeastOf
<1>2. x <= Min(S) /\ Min(S) \in Nat /\ x \in Nat
  BY <1>1
<1> DEFINE m == Min(S)
<1> HIDE DEF m
<1>3. m <= x /\ x <= m /\ m \in Nat /\ x \in Nat
  BY <1>1, <1>2 DEF m
<1>4. m = x
  BY <1>3
<1>5. QED
  BY <1>4 DEF m

\* strstr finds a tag where its token is.
LEMMA TagPlaces ==
  ASSUME NEW b, Clean(b), NEW pat \in Seq(Tokens), Len(pat) = 1
  PROVE  Places(b, pat) = {i \in 1..Len(b) : b[i] = pat[1]}
<1>1. b \in Seq(Tokens) /\ Len(b) \in Nat
  BY DEF Clean
<1>2. Len(CString(b)) = Len(b)
  <2> DEFINE l == Len(CString(b))
             n == Len(b)
  <2>1. l \in 0..n /\ n \in Nat /\ (l < n => b[l + 1] = Zero)
    BY <1>1, StringOf
  <2> HIDE DEF l
  <2>2. l < n => l + 1 \in 1..n
    BY <2>1
  <2>3. ~ (l < n)
    BY <2>1, <2>2 DEF Clean
  <2>4. l = n
    BY <2>1, <2>3
  <2>5. QED
    BY <2>4 DEF l
<1> DEFINE n == Len(b)
<1>3. Len(CString(b)) + 1 - Len(pat) = n
  BY <1>1, <1>2
<1>4. Places(b, pat) \subseteq 1..n
  BY <1>3 DEF Places
<1>5. ASSUME NEW i \in 1..n PROVE i \in Places(b, pat) <=> b[i] = pat[1]
  <2>1. i \in Places(b, pat) <=> At(b, pat, i)
    BY <1>1, <1>3, PlacesAre
  <2>2. i \in Int /\ i + 1 - 1 = i /\ \A j \in 1..Len(pat) : j = 1
    BY <1>5
  <2>3. 1 \in 1..Len(pat)
    OBVIOUS
  <2>4. At(b, pat, i) <=> b[i] = pat[1]
    BY <2>2, <2>3 DEF At
  <2>5. QED
    BY <2>1, <2>4
<1>6. QED
  BY <1>4, <1>5

\* The scanner computes from null when a closing tag comes before every opening
\* one, and only then.
LEMMA CrashIs ==
  ASSUME NEW b, Clean(b), NEW open, NEW close, TagPair(open, close)
  PROVE  TagContentInt(b, open, close).crashed <=> ClosedFirst(b, open, close)
<1> DEFINE n == Len(b)
           o == open[1]
           c == close[1]
           places == Places(b, close)
           p == Min(places)
           head == Before(b, close)
<1>1. n \in Nat /\ DOMAIN b = 1..n /\ o # c /\ b \in Seq(Tokens)
  BY DEF Clean, TagPair
<1>2. places = {i \in 1..n : b[i] = c}
  BY TagPlaces DEF TagPair
<1>3. ClosedFirst(b, open, close) <=> \E i \in 1..n : b[i] = c /\ \A j \in 1..i : b[j] # o
  BY <1>1 DEF ClosedFirst
<1>4. CASE places = {}
  <2>1. ~TagContentInt(b, open, close).crashed
    BY <1>4 DEF TagContentInt, Found
  <2>2. ~ClosedFirst(b, open, close)
    BY <1>2, <1>3, <1>4
  <2>3. QED
    BY <2>1, <2>2
<1>5. CASE places # {}
  <2>1. TagContentInt(b, open, close).crashed <=> Places(head, open) = {}
    BY <1>5 DEF TagContentInt, Found
  <2> HIDE DEF places
  <2>2. places \in SUBSET Nat
    BY <1>1, <1>2
  <2>3. p \in places /\ \A x \in places : p <= x
    BY <1>5, <2>2, LeastOf
  <2>4. head = SubSeq(b, 1, p - 1)
    BY DEF Before, places
  <2> HIDE DEF p
  <2>5. p \in 1..n /\ b[p] = c
    BY <1>2, <2>3
  <2>6. /\ head \in Seq(Tokens) /\ Len(head) = p - 1
        /\ \A k \in 1..(p - 1) : head[k] = b[k] /\ k \in 1..n
    BY <1>1, <2>4, <2>5
  <2> HIDE DEF head
  <2>7. Clean(head)
    BY <2>6 DEF Clean
  <2>8. Places(head, open) = {i \in 1..(p - 1) : b[i] = o}
    <3>1. Places(head, open) = {i \in 1..Len(head) : head[i] = open[1]}
      BY <2>7, TagPlaces DEF TagPair
    <3>2. QED
      BY <2>6, <3>1
  <2>9. ASSUME Places(head, open) = {} PROVE \E i \in 1..n : b[i] = c /\ \A j \in 1..i : b[j] # o
    <3>1. \A j \in 1..p : j = p \/ j \in 1..(p - 1)
      BY <2>5
    <3>2. \A j \in 1..p : b[j] # o
      BY <1>1, <2>5, <2>8, <2>9, <3>1
    <3>3. QED
      BY <2>5, <3>2
  <2>10. ASSUME NEW i \in 1..n, b[i] = c, \A j \in 1..i : b[j] # o PROVE Places(head, open) = {}
    <3>1. p <= i
      BY <1>2, <2>3, <2>10
    <3>2. \A j \in 1..(p - 1) : j \in 1..i
      BY <2>5, <3>1
    <3>3. QED
      BY <2>8, <2>10, <3>2
  <2>11. QED
    BY <1>3, <2>1, <2>9, <2>10
<1>6. QED
  BY <1>4, <1>5

\* The places where the scanner should find numbers, in terms of the first pair.
LEMMA FirstPairIs ==
  ASSUME NEW b, Clean(b), NEW open, NEW close, TagPair(open, close), Paired(b, open, close)
  PROVE  /\ Found(b, close) <=> NumberPlaces(b, open, close) # {}
         /\ Found(b, close) =>
              /\ FirstPair(b, open, close, Min(Places(b, close)))
              /\ Min(NumberPlaces(b, open, close)) = Min(Places(b, close)) - 1
<1> DEFINE n == Len(b)
           o == open[1]
           c == close[1]
           numbers == NumberPlaces(b, open, close)
           places == Places(b, close)
           p == Min(places)
<1>1. n \in Nat /\ DOMAIN b = 1..n /\ o # c
  BY DEF Clean, TagPair
<1>2. places = {i \in 1..n : b[i] = c}
  BY TagPlaces DEF TagPair
<1>3. numbers = {i \in 2..(n - 1) : b[i - 1] = o /\ b[i + 1] = c}
  BY DEF NumberPlaces
<1>4. \A i \in 1..n : /\ b[i] = o => /\ i + 1 \in 1..n => b[i + 1] \in Nat
                                     /\ i + 2 \in 1..n => b[i + 2] = c
                      /\ b[i] = c => i > 2 /\ b[i - 2] = o
  BY <1>1 DEF Paired
<1> HIDE DEF n, o, c, numbers, places
<1>5. ASSUME NEW i \in places PROVE i \in 3..n /\ b[i] = c /\ b[i - 2] = o /\ i - 1 \in numbers
  <2>1. i \in 1..n /\ i > 2 /\ b[i - 2] = o /\ b[i] = c
    BY <1>2, <1>4
  <2>2. i \in 3..n /\ i - 1 \in 2..(n - 1) /\ (i - 1) - 1 = i - 2 /\ (i - 1) + 1 = i
    BY <1>1, <2>1
  <2>3. QED
    BY <1>3, <2>1, <2>2
<1>6. ASSUME NEW i \in numbers PROVE i \in Nat /\ i + 1 \in places
  <2>1. i \in 2..(n - 1) /\ b[i + 1] = c
    BY <1>3
  <2>2. i \in Nat /\ i + 1 \in 1..n
    BY <1>1, <2>1
  <2>3. QED
    BY <1>2, <2>1, <2>2
<1>7. places # {} <=> numbers # {}
  BY <1>5, <1>6
<1>8. ASSUME places # {}
      PROVE  FirstPair(b, open, close, p) /\ Min(numbers) = p - 1
  <2>1. places \in SUBSET Nat
    BY <1>1, <1>2
  <2>2. p \in places /\ \A x \in places : p <= x
    BY <1>8, <2>1, LeastOf
  <2> HIDE DEF p
  <2>3. p \in 3..n /\ b[p] = c /\ b[p - 2] = o /\ p - 1 \in numbers
    BY <1>5, <2>2
  <2>4. b[p - 1] \in Nat
    <3>1. p - 2 \in 1..n /\ (p - 2) + 1 = p - 1 /\ p - 1 \in 1..n
      BY <1>1, <2>3
    <3>2. QED
      BY <1>4, <2>3, <3>1
  <2>5. ASSUME NEW k \in 1..n, k < p PROVE b[k] # c
    <3>1. b[k] = c => p <= k
      BY <1>2, <2>2
    <3>2. k \in Int /\ p \in Int
      BY <2>3
    <3>3. QED
      BY <2>5, <3>1, <3>2
  <2>6. FirstPair(b, open, close, p)
    BY <2>3, <2>4, <2>5 DEF FirstPair, n, o, c
  <2>7. numbers \in SUBSET Nat
    BY <1>6
  <2>8. ASSUME NEW i \in numbers PROVE p - 1 <= i
    <3>1. i \in Nat /\ p <= i + 1
      BY <1>6, <2>2
    <3>2. QED
      BY <2>3, <3>1
  <2>9. Min(numbers) = p - 1
    BY <2>3, <2>7, <2>8, LeastIs
  <2>10. QED
    BY <2>6, <2>9
<1>9. QED
  BY <1>7, <1>8 DEF Found, numbers, places, p

\* The scanner returns the number of the first pair and what comes after it, and
\* leaves a text without a closing tag alone.
LEMMA ScanOnce ==
  ASSUME NEW b, Clean(b), NEW open, NEW close, TagPair(open, close), Paired(b, open, close)
  PROVE  LET p == Min(Places(b, close))
             scan == TagContentInt(b, open, close) IN
         /\ ~scan.crashed
         /\ Found(b, close) => scan.value = b[p - 1] /\ scan.rest = SubSeq(b, p + 1, Len(b))
         /\ ~Found(b, close) => scan.value = -1 /\ scan.rest = b
<1> DEFINE n == Len(b)
           p == Min(Places(b, close))
           scan == TagContentInt(b, open, close)
           head == Before(b, close)
<1>1. CASE ~Found(b, close)
  BY <1>1 DEF TagContentInt
<1>2. CASE Found(b, close)
  <2>1. FirstPair(b, open, close, p)
    BY <1>2, FirstPairIs
  <2>2. head = SubSeq(b, 1, p - 1) /\ After(b, close) = SubSeq(b, p + 1, n)
    BY DEF Before, After, TagPair
  <2> HIDE DEF p
  <2>3. /\ b \in Seq(Tokens) /\ n \in Nat /\ \A k \in 1..n : b[k] # Zero
        /\ p \in 3..n /\ b[p] = close[1] /\ b[p - 2] = open[1] /\ b[p - 1] \in Nat
    BY <2>1 DEF FirstPair, Clean
  <2>4. /\ head \in Seq(Tokens) /\ Len(head) = p - 1
        /\ \A k \in 1..(p - 1) : head[k] = b[k] /\ k \in 1..n
    BY <2>2, <2>3
  <2> HIDE DEF head
  <2>5. Clean(head)
    BY <2>3, <2>4 DEF Clean
  <2>6. Places(head, open) = {i \in 1..(p - 1) : b[i] = open[1]}
    <3>1. Places(head, open) = {i \in 1..Len(head) : head[i] = open[1]}
      BY <2>5, TagPlaces DEF TagPair
    <3>2. QED
      BY <2>4, <3>1
  <2>7. ASSUME NEW j \in 1..(p - 1), b[j] = open[1] PROVE p - 2 <= j
    <3>1. SUFFICES ASSUME j < p - 2 PROVE FALSE
      BY <2>3
    <3>2. j \in 1..n /\ j + 2 \in 1..n /\ j + 2 < p
      BY <2>3, <3>1
    <3>3. DOMAIN b = 1..n
      BY <2>3
    <3>4. b[j + 2] = close[1]
      BY <2>7, <3>2, <3>3 DEF Paired
    <3>5. QED
      BY <2>1, <3>2, <3>4 DEF FirstPair
  <2>8. p - 2 \in Places(head, open) /\ Min(Places(head, open)) = p - 2
    <3> DEFINE s == Places(head, open)
    <3>1. p - 2 \in s /\ s \in SUBSET Nat /\ \A j \in s : p - 2 <= j
      BY <2>3, <2>6, <2>7
    <3> HIDE DEF s
    <3>2. Min(s) = p - 2
      BY <3>1, LeastIs
    <3>3. QED
      BY <3>1, <3>2 DEF s
  <2>9. After(head, open) = SubSeq(head, p - 1, p - 1)
    <3>1. (p - 2) + 1 = p - 1
      BY <2>3
    <3>2. QED
      BY <2>4, <2>8, <3>1 DEF After, TagPair
  <2>10. Atoi(After(head, open)) = b[p - 1]
    <3> DEFINE u == SubSeq(head, p - 1, p - 1)
    <3>1. p - 1 \in 1..(p - 1)
      BY <2>3
    <3> DEFINE k == p - 1
    <3>2. k \in Int /\ k \in 1..Len(head) /\ head[k] = b[k]
      BY <2>3, <2>4, <3>1
    <3> HIDE DEF k
    <3>3. \A j \in k..k : j = k /\ head[j] \in Tokens
      BY <2>4, <3>2
    <3>4. Len(SubSeq(head, k, k)) = 1 /\ SubSeq(head, k, k)[1] = head[k]
      <4>1. /\ Len(SubSeq(head, k, k)) = IF k <= k THEN k - k + 1 ELSE 0
            /\ \A j \in 1..(k - k + 1) : SubSeq(head, k, k)[j] = head[k + j - 1]
        BY <3>2, <3>3, SubSeqProperties
      <4>2. k <= k /\ k - k + 1 = 1 /\ k + 1 - 1 = k /\ 1 \in 1..1
        BY <3>2
      <4>3. QED
        BY <4>1, <4>2
    <3>5. u # <<>> /\ u[1] = b[p - 1]
      BY <3>2, <3>4 DEF k
    <3> HIDE DEF u
    <3>6. Atoi(u) = b[p - 1]
      BY <2>3, <3>5 DEF Atoi
    <3>7. QED
      BY <2>9, <3>6 DEF u
  <2>11. Found(head, open)
    BY <2>8 DEF Found
  <2>12. ~scan.crashed /\ scan.value = b[p - 1] /\ scan.rest = SubSeq(b, p + 1, n)
    BY <1>2, <2>2, <2>10, <2>11 DEF TagContentInt, head
  <2>13. QED
    BY <1>2, <2>12 DEF p
<1>3. QED
  BY <1>1, <1>2

\* What comes after the first pair is well-formed again, and has the other
\* numbers.
LEMMA RestIs ==
  ASSUME NEW b, Clean(b), NEW open, NEW close, TagPair(open, close), Paired(b, open, close),
         NEW p, FirstPair(b, open, close, p)
  PROVE  LET rest == SubSeq(b, p + 1, Len(b)) IN
         /\ Clean(rest) /\ Paired(rest, open, close)
         /\ Len(rest) = Len(b) - p /\ \A k \in 1..Len(rest) : rest[k] = b[p + k]
         /\ \A i \in Nat : i \in NumberPlaces(rest, open, close) <=>
                             i + p \in NumberPlaces(b, open, close) /\ i + p > p - 1
<1> DEFINE n == Len(b)
           rest == SubSeq(b, p + 1, n)
           m == n - p
           o == open[1]
           c == close[1]
<1>1. /\ b \in Seq(Tokens) /\ n \in Nat /\ DOMAIN b = 1..n /\ p \in 3..n
      /\ b[p] = c /\ b[p - 1] \in Nat /\ \A k \in 1..n : b[k] # Zero
  BY DEF Clean, FirstPair
<1>2. o # c /\ o \notin Nat
  BY DEF TagPair
<1>3. \A i \in 1..n : /\ b[i] = o => /\ i + 1 \in 1..n => b[i + 1] \in Nat
                                     /\ i + 2 \in 1..n => b[i + 2] = c
                      /\ b[i] = c => i > 2 /\ b[i - 2] = o
  BY <1>1 DEF Paired
<1>4. m \in Nat /\ \A k \in 1..m : p + k \in 1..n
  BY <1>1
<1>5. /\ rest \in Seq(Tokens) /\ Len(rest) = m
      /\ \A k \in 1..m : rest[k] = b[p + k]
  <2>1. \A k \in (p + 1)..n : k \in 1..n /\ b[k] \in Tokens
    BY <1>1
  <2>2. \A k \in 1..m : (p + 1) + k - 1 = p + k
    BY <1>1
  <2>3. /\ rest \in Seq(Tokens)
        /\ Len(rest) = IF p + 1 <= n THEN n - (p + 1) + 1 ELSE 0
        /\ \A k \in 1..(n - (p + 1) + 1) : rest[k] = b[(p + 1) + k - 1]
    BY <1>1, <2>1, SubSeqProperties
  <2>4. n - (p + 1) + 1 = m /\ (~ (p + 1 <= n) => m = 0)
    <3>1. n \in Nat /\ p \in 3..n /\ m = n - p
      BY <1>1
    <3> HIDE DEF n, m
    <3>2. QED
      BY <3>1
  <2> HIDE DEF rest, m
  <2>5. QED
    BY <2>2, <2>3, <2>4
<1> HIDE DEF rest, n, m, o, c
<1>6. DOMAIN rest = 1..m
  BY <1>5
<1>7. Clean(rest)
  BY <1>1, <1>4, <1>5 DEF Clean
<1>8. ASSUME NEW i \in 1..m PROVE rest[i] = c => i > 2 /\ rest[i - 2] = o
  <2>1. SUFFICES ASSUME rest[i] = c PROVE i > 2 /\ rest[i - 2] = o
    OBVIOUS
  <2>2. p + i \in 1..n /\ b[p + i] = c
    BY <1>4, <1>5, <2>1
  <2>3. b[(p + i) - 2] = o
    BY <1>3, <2>2
  <2>4. i # 1
    <3>1. i = 1 => (p + i) - 2 = p - 1
      BY <1>1
    <3>2. QED
      BY <1>1, <1>2, <2>3, <3>1
  <2>5. i # 2
    <3>1. i = 2 => (p + i) - 2 = p
      BY <1>1
    <3>2. QED
      BY <1>1, <1>2, <2>3, <3>1
  <2>6. i > 2 /\ i - 2 \in 1..m /\ p + (i - 2) = (p + i) - 2
    BY <1>1, <1>4, <2>4, <2>5
  <2>7. QED
    BY <1>5, <2>3, <2>6
<1>9. ASSUME NEW i \in 1..m, rest[i] = o
      PROVE  /\ i + 1 \in 1..m => rest[i + 1] \in Nat
             /\ i + 2 \in 1..m => rest[i + 2] = c
  <2>1. p + i \in 1..n /\ b[p + i] = o
    BY <1>4, <1>5, <1>9
  <2>2. p + (i + 1) = (p + i) + 1 /\ p + (i + 2) = (p + i) + 2
    BY <1>1
  <2>3. i + 1 \in 1..m => (p + i) + 1 \in 1..n /\ rest[i + 1] = b[(p + i) + 1]
    BY <1>4, <1>5, <2>2
  <2>4. i + 2 \in 1..m => (p + i) + 2 \in 1..n /\ rest[i + 2] = b[(p + i) + 2]
    BY <1>4, <1>5, <2>2
  <2>5. QED
    BY <1>3, <2>1, <2>3, <2>4
<1>10. Paired(rest, open, close)
  BY <1>6, <1>8, <1>9 DEF Paired, o, c
<1>11. ASSUME NEW i \in Nat
       PROVE  i \in NumberPlaces(rest, open, close) <=>
                i + p \in NumberPlaces(b, open, close) /\ i + p > p - 1
  <2>1. i \in NumberPlaces(rest, open, close) <=>
          i \in 2..(m - 1) /\ rest[i - 1] = o /\ rest[i + 1] = c
    BY <1>5 DEF NumberPlaces, o, c
  <2>2. i + p \in NumberPlaces(b, open, close) <=>
          i + p \in 2..(n - 1) /\ b[(i + p) - 1] = o /\ b[(i + p) + 1] = c
    BY DEF NumberPlaces, o, c, n
  <2>3. m = n - p
    BY DEF m
  <2>4. i \in 2..(m - 1) =>
          /\ i + p \in 2..(n - 1) /\ i - 1 \in 1..m /\ i + 1 \in 1..m
          /\ p + (i - 1) = (i + p) - 1 /\ p + (i + 1) = (i + p) + 1
    BY <1>1, <2>3
  <2>5. i \in 2..(m - 1) => /\ rest[i - 1] = b[(i + p) - 1] /\ rest[i + 1] = b[(i + p) + 1]
                            /\ i + p \in 2..(n - 1)
    BY <1>5, <2>4
  <2>6. i \notin 2..(m - 1) /\ i + p \in 2..(n - 1) => i = 0 \/ i = 1
    BY <1>1, <2>3
  <2>7. b[(i + p) - 1] = o => i # 0 /\ i # 1
    <3>1. (i = 0 => (i + p) - 1 = p - 1) /\ (i = 1 => (i + p) - 1 = p)
      BY <1>1
    <3>2. QED
      BY <1>1, <1>2, <3>1
  <2>8. i + p > p - 1
    BY <1>1
  <2>9. QED
    BY <2>1, <2>2, <2>5, <2>6, <2>7, <2>8
<1>12. QED
  BY <1>5, <1>7, <1>10, <1>11 DEF rest, n, m

\* Two calls of the scanner on a well-formed text return its first two numbers.
LEMMA ScansText ==
  ASSUME NEW b, Clean(b), NEW open, NEW close, TagPair(open, close), Paired(b, open, close)
  PROVE  LET one == TagContentInt(b, open, close)
             two == TagContentInt(one.rest, open, close)
             numbers == NumberPlaces(b, open, close) IN
         /\ ~one.crashed /\ ~two.crashed
         /\ one.value = FirstNumber(b, numbers)
         /\ two.value = FirstNumber(b, {i \in numbers : \E j \in numbers : j < i})
<1> DEFINE one == TagContentInt(b, open, close)
           numbers == NumberPlaces(b, open, close)
           later == {i \in numbers : \E j \in numbers : j < i}
           p == Min(Places(b, close))
           rest == SubSeq(b, p + 1, Len(b))
           others == NumberPlaces(rest, open, close)
           q == Min(Places(rest, close))
<1>1. /\ ~one.crashed
      /\ Found(b, close) => one.value = b[p - 1] /\ one.rest = rest
      /\ ~Found(b, close) => one.value = -1 /\ one.rest = b
  BY ScanOnce
<1>2. CASE ~Found(b, close)
  <2>1. numbers = {} /\ later = {}
    BY <1>2, FirstPairIs
  <2>2. one.rest = b /\ one.value = -1
    BY <1>1, <1>2
  <2> HIDE DEF one, numbers, later
  <2>3. one.value = FirstNumber(b, numbers) /\ one.value = FirstNumber(b, later)
    BY <2>1, <2>2 DEF FirstNumber
  <2>4. TagContentInt(one.rest, open, close) = one
    BY <2>2 DEF one
  <2>5. QED
    BY <1>1, <2>3, <2>4 DEF one, numbers, later
<1>3. CASE Found(b, close)
  <2>1. FirstPair(b, open, close, p) /\ Min(numbers) = p - 1 /\ numbers # {}
    BY <1>3, FirstPairIs
  <2>2. p \in Nat /\ numbers \in SUBSET Nat
    BY <2>1 DEF FirstPair, NumberPlaces
  <2>3. /\ Clean(rest) /\ Paired(rest, open, close)
        /\ Len(rest) = Len(b) - p /\ \A k \in 1..Len(rest) : rest[k] = b[p + k]
        /\ \A i \in Nat : i \in others <=> i + p \in numbers /\ i + p > p - 1
    BY <2>1, RestIs
  <2>4. /\ ~TagContentInt(rest, open, close).crashed
        /\ Found(rest, close) => TagContentInt(rest, open, close).value = rest[q - 1]
        /\ ~Found(rest, close) => TagContentInt(rest, open, close).value = -1
    <3>1. Clean(rest) /\ Paired(rest, open, close)
      BY <2>3
    <3> HIDE DEF rest
    <3>2. QED
      BY <3>1, ScanOnce
  <2>5. /\ Found(rest, close) <=> others # {}
        /\ Found(rest, close) => Min(others) = q - 1 /\ q - 1 \in 1..Len(rest)
    <3>1. /\ Found(rest, close) <=> others # {}
          /\ Found(rest, close) => Min(others) = q - 1 /\ FirstPair(rest, open, close, q)
      BY <2>3, FirstPairIs
    <3>2. Len(rest) \in Nat
      BY <2>3 DEF Clean
    <3>3. FirstPair(rest, open, close, q) => q \in 3..Len(rest)
      BY DEF FirstPair
    <3> HIDE DEF q, rest
    <3>4. q \in 3..Len(rest) => q - 1 \in 1..Len(rest)
      BY <3>2
    <3>5. QED
      BY <3>1, <3>3, <3>4
  <2>6. others \in SUBSET Nat
    BY DEF NumberPlaces
  <2>7. one.value = FirstNumber(b, numbers)
    BY <1>1, <1>3, <2>1 DEF FirstNumber
  <2>8. p - 1 \in numbers /\ \A i \in numbers : p - 1 <= i
    BY <2>1, <2>2, LeastOf
  <2>9. one.rest = rest
    BY <1>1, <1>3
  <2> HIDE DEF p, q, rest, others, numbers, one
  <2>10. ASSUME NEW i \in Nat PROVE i \in later <=> i \in numbers /\ i > p - 1
    <3>1. \A j \in numbers : j \in Nat /\ p - 1 <= j
      BY <2>2, <2>8
    <3>2. i \in numbers /\ i > p - 1 => i \in later
      BY <2>2, <2>8
    <3>3. ASSUME i \in later PROVE i \in numbers /\ i > p - 1
      <4>1. PICK j \in numbers : j < i
        BY <3>3
      <4>2. j \in Nat /\ p - 1 <= j /\ j < i
        BY <3>1, <4>1
      <4>3. QED
        BY <2>2, <3>3, <4>2
    <3>4. QED
      BY <3>2, <3>3
  <2>11. \A i \in others : i + p \in later
    BY <2>2, <2>3, <2>6, <2>10
  <2>12. ASSUME NEW i \in later PROVE i - p \in others
    <3>1. i \in Nat /\ i \in numbers /\ i > p - 1
      BY <2>2, <2>10
    <3>2. i - p \in Nat /\ (i - p) + p = i
      BY <2>2, <3>1
    <3>3. QED
      BY <2>3, <3>1, <3>2
  <2>13. TagContentInt(rest, open, close).value = FirstNumber(b, later)
    <3>1. CASE others = {}
      <4>1. later = {}
        BY <2>12, <3>1
      <4>2. QED
        BY <2>4, <2>5, <3>1, <4>1 DEF FirstNumber
    <3>2. CASE others # {}
      <4>1. /\ Min(others) = q - 1 /\ q - 1 \in 1..Len(rest) /\ Found(rest, close)
            /\ Min(others) \in others /\ \A x \in others : Min(others) <= x
        BY <2>5, <2>6, <3>2, LeastOf
      <4> DEFINE a == q - 1
      <4>2. a \in others /\ a \in Nat /\ \A x \in others : a <= x
        BY <2>6, <4>1
      <4>3. rest[a] = b[p + a] /\ TagContentInt(rest, open, close).value = rest[a]
        BY <2>3, <2>4, <4>1
      <4> HIDE DEF a, later
      <4>4. a + p \in later
        BY <2>11, <4>2
      <4>5. ASSUME NEW i \in later PROVE a + p <= i
        <5>1. a <= i - p /\ i \in Nat
          BY <2>2, <2>12, <4>2 DEF later
        <5>2. QED
          BY <2>2, <4>2, <5>1
      <4>6. later \in SUBSET Nat
        BY <2>2 DEF later
      <4>7. Min(later) = a + p
        BY <4>4, <4>5, <4>6, LeastIs
      <4>8. a + p = p + a
        BY <2>2, <4>2
      <4>9. QED
        BY <4>3, <4>4, <4>7, <4>8 DEF FirstNumber
    <3>3. QED
      BY <3>1, <3>2
  <2>14. QED
    BY <1>1, <2>4, <2>7, <2>9, <2>13 DEF one, numbers
<1>4. QED
  BY <1>2, <1>3

-----------------------------------------------------------------------------
(* What the scanner gets.                                                  *)

LEMMA ScriptKept == ASSUME Joined, [Next]_vars PROVE UNCHANGED script
<1>1. Typed /\ NetTyped /\ ReplyParsed /\ ResponseSent /\ rules \in Seq(Tokens)
  BY DEF Joined, Typed, QuTyped
<1>2. CASE QuStep
  <2>1. <<Zero>> \in Seq(Tokens) /\ "actuator" \in Sockets
    BY TokenTypes, ExchangesAssumption
  <2>2. ASSUME NEW n, QuReceive(n) \/ QuAwait(n) PROVE UNCHANGED script
    <3>1. PICK s \in {"client", "actuator"}, delimit \in {Delimiter, CloseMark} : UberRecv(s, delimit, n)
      BY <2>2 DEF QuReceive, QuAwait
    <3>2. QED
      BY <1>1, <3>1, OneReceive
  <2>3. ASSUME NEW n, QuSend(n) PROVE UNCHANGED script
    <3>1. PICK data \in {rules, <<Zero>>} : Send("actuator", data, n)
      BY <2>3 DEF QuSend
    <3>2. data \in Seq(Tokens)
      BY <1>1, <2>1, <3>1
    <3>3. QED
      BY <1>1, <2>1, <3>1, <3>2, Sends
  <2>4. ASSUME QuConnect \/ QuPending PROVE UNCHANGED script
    BY <2>4 DEF QuConnect, QuPending, netVars
  <2>5. QED
    BY <1>2, <2>2, <2>3, <2>4 DEF QuStep
<1>3. CASE IgStep
  BY <1>1, <1>3, ReplyStep
<1>4. ASSUME NEW s \in Sockets, PeerStep(s) PROVE UNCHANGED script
  BY <1>1, <1>4, Peers
<1>5. CASE UNCHANGED vars
  BY <1>5 DEF vars, netVars
<1>6. QED
  BY <1>2, <1>3, <1>4, <1>5 DEF Next

\* What was received before the zero is the beginning of the tags that were sent.
LEMMA TagIsCut ==
  ASSUME Joined
  PROVE  SentTags \in Seq(Tokens) /\ Len(tag) \in 0..Len(SentTags) /\ tag = SubSeq(SentTags, 1, Len(tag))
<1> DEFINE g == script["generator"]
           t == SentTags
           r == read["generator"]
           b == SubSeq(g, 1, r)
           m == Len(tag)
<1>1. g \in Seq(Tokens)
  BY ExchangesAssumption DEF Joined, Typed, NetTyped
<1>2. /\ t \in Seq(Tokens) /\ Len(t) \in 0..Len(g) /\ Len(g) \in Nat
      /\ \A k \in 1..Len(t) : t[k] = g[k]
      /\ Len(t) < Len(g) => g[Len(t) + 1] = Zero
      /\ <<Zero>> \in Seq(Tokens) /\ Len(<<Zero>>) = 1
  BY <1>1, StringOf, TokenTypes DEF SentTags
<1> HIDE DEF t
<1>3. /\ tag \in Seq(Tokens) /\ file \in Seq(Tokens) /\ m \in Nat /\ Len(t) \in Nat
      /\ \A k \in 1..m : tag[k] # Zero
      /\ b = IF nullTerm THEN tag \o <<Zero>> \o file ELSE tag
  <2>1. tag \in Seq(Tokens) /\ file \in Seq(Tokens)
    BY DEF Joined, Typed, IgTyped
  <2>2. Len(tag) \in Nat /\ DOMAIN tag = 1..Len(tag) /\ Len(t) \in Nat
    BY <1>2, <2>1
  <2>3. /\ \A k \in DOMAIN tag : tag[k] # Zero
        /\ Received("generator") = IF nullTerm THEN tag \o <<Zero>> \o file ELSE tag
    BY DEF Joined, ReplyParsed
  <2>4. Received("generator") = b
    BY DEF Received
  <2>5. QED
    BY <2>1, <2>2, <2>3, <2>4
<1>4. /\ g \in Seq(Tokens) /\ r \in 0..Len(g)
  <2>1. /\ script \in [Sockets -> Seq(Tokens)] /\ "generator" \in Sockets
        /\ read \in [Sockets -> Nat] /\ arrived \in [Sockets -> Nat]
        /\ read["generator"] <= arrived["generator"]
        /\ arrived["generator"] <= Len(script["generator"])
    BY ExchangesAssumption DEF Joined, Typed, NetTyped
  <2>2. g \in Seq(Tokens) /\ Len(g) \in Nat
    BY <2>1
  <2> DEFINE a == arrived["generator"]
             c == Len(script["generator"])
  <2>3. r \in Nat /\ a \in Nat /\ c \in Nat /\ r <= a /\ a <= c
    BY <2>1, <2>2
  <2> HIDE DEF r, a, c
  <2>4. r \in 0..c
    BY <2>3
  <2>5. QED
    BY <2>2, <2>4 DEF c
<1> HIDE DEF g, r
<1>5. Len(b) = r /\ \A k \in 1..r : b[k] = g[k]
  BY <1>4
<1>6. m <= Len(b) /\ \A k \in 1..m : b[k] = tag[k]
  <2>1. CASE nullTerm
    <3>1. tag \o <<Zero>> \in Seq(Tokens) /\ Len(tag \o <<Zero>>) = m + 1
          /\ \A k \in 1..m : (tag \o <<Zero>>)[k] = tag[k]
      BY <1>2, <1>3
    <3> DEFINE head == tag \o <<Zero>>
    <3> HIDE DEF head
    <3>2. head \in Seq(Tokens) /\ Len(head) = m + 1 /\ b = head \o file
          /\ \A k \in 1..m : head[k] = tag[k]
      BY <1>3, <2>1, <3>1 DEF head
    <3>3. /\ Len(head \o file) = Len(head) + Len(file) /\ Len(file) \in Nat
          /\ \A k \in 1..(Len(head) + Len(file)) :
               (head \o file)[k] = IF k <= Len(head) THEN head[k] ELSE file[k - Len(head)]
      <4>1. head \in Seq(Tokens) /\ file \in Seq(Tokens)
        BY <1>3, <3>2
      <4> HIDE DEF b
      <4>2. QED
        BY <4>1, ConcatProperties
    <3> DEFINE f == Len(file)
    <3>4. f \in Nat /\ Len(head) = m + 1 /\ Len(b) = Len(head) + f
          /\ \A k \in 1..(Len(head) + f) : k <= Len(head) => b[k] = head[k]
      BY <3>2, <3>3
    <3> HIDE DEF f, b
    <3>5. m <= Len(b) /\ \A k \in 1..m : k \in 1..(Len(head) + f) /\ k <= Len(head)
      BY <1>3, <3>4
    <3>6. QED
      BY <3>2, <3>4, <3>5
  <2>2. CASE ~nullTerm
    <3>1. b = tag
      BY <1>3, <2>2
    <3> HIDE DEF b
    <3>2. QED
      BY <1>3, <3>1
  <2>3. QED
    BY <2>1, <2>2
<1> HIDE DEF b
<1>7. /\ \A k \in 1..Len(t) : g[k] = t[k]
      /\ Len(t) < Len(g) => g[Len(t) + 1] = Zero
  BY <1>2
<1>8. m <= r /\ \A k \in 1..m : g[k] = tag[k]
  <2>1. r \in Nat /\ m <= r
    BY <1>4, <1>5, <1>6
  <2>2. \A k \in 1..m : k \in 1..r
    BY <1>3, <2>1
  <2>3. QED
    BY <1>5, <1>6, <2>1, <2>2
<1>9. m <= Len(t)
  <2>1. m > Len(t) => Len(t) + 1 \in 1..m /\ Len(t) < Len(g)
    BY <1>2, <1>3, <1>4, <1>8
  <2>2. QED
    BY <1>3, <1>7, <1>8, <2>1
<1>10. tag = SubSeq(t, 1, m)
  <2>1. SubSeq(t, 1, m) \in Seq(Tokens) /\ Len(SubSeq(t, 1, m)) = m
        /\ \A k \in 1..m : SubSeq(t, 1, m)[k] = t[k]
    BY <1>2, <1>3, <1>9
  <2>2. \A k \in 1..m : k \in 1..Len(t)
    BY <1>3, <1>9
  <2>3. \A k \in 1..m : SubSeq(t, 1, m)[k] = tag[k]
    BY <1>7, <1>8, <2>1, <2>2
  <2> DEFINE u == SubSeq(t, 1, m)
  <2>4. u \in Seq(Tokens) /\ tag \in Seq(Tokens) /\ Len(u) = Len(tag)
        /\ \A k \in 1..Len(u) : u[k] = tag[k]
    BY <1>3, <2>1, <2>3
  <2> HIDE DEF u
  <2>5. u = tag
    BY <2>4, SeqEqual
  <2>6. QED
    BY <2>5 DEF u
<1>11. m \in 0..Len(t)
  BY <1>3, <1>9
<1>12. QED
  BY <1>2, <1>10, <1>11 DEF t

LEMMA PairedCut ==
  ASSUME NEW t \in Seq(Tokens), NEW m \in 0..Len(t), NEW open, NEW close, Paired(t, open, close)
  PROVE  Paired(SubSeq(t, 1, m), open, close)
<1> DEFINE cut == SubSeq(t, 1, m)
           n == Len(t)
<1>1. /\ cut \in Seq(Tokens) /\ Len(cut) = m /\ n \in Nat /\ DOMAIN t = 1..n
      /\ \A k \in 1..m : cut[k] = t[k]
  OBVIOUS
<1>2. DOMAIN cut = 1..m
  BY <1>1
<1> HIDE DEF cut, n
<1>3. m \in 0..n /\ \A k \in 1..m : k \in 1..n
  BY <1>1 DEF n
<1>4. ASSUME NEW i \in 1..m, cut[i] = open[1]
      PROVE  /\ i + 1 \in 1..m => cut[i + 1] \in Nat
             /\ i + 2 \in 1..m => cut[i + 2] = close[1]
  <2>1. i \in DOMAIN t /\ t[i] = open[1]
    BY <1>1, <1>3, <1>4
  <2>2. /\ i + 1 \in DOMAIN t => t[i + 1] \in Nat
        /\ i + 2 \in DOMAIN t => t[i + 2] = close[1]
    BY <2>1 DEF Paired
  <2>3. QED
    BY <1>1, <1>3, <2>2
<1>5. ASSUME NEW i \in 1..m, cut[i] = close[1] PROVE i > 2 /\ cut[i - 2] = open[1]
  <2>1. i \in DOMAIN t /\ t[i] = close[1]
    BY <1>1, <1>3, <1>5
  <2>2. i > 2 /\ t[i - 2] = open[1]
    BY <2>1 DEF Paired
  <2>3. i - 2 \in 1..m
    BY <1>3, <2>2
  <2>4. QED
    BY <1>1, <2>2, <2>3
<1>6. QED
  BY <1>2, <1>4, <1>5 DEF Paired, cut

\* What the scanner is given is well-formed if what was sent is, wherever the
\* connection ended.
LEMMA TagReceived ==
  ASSUME Joined
  PROVE  /\ Clean(tag)
         /\ Paired(SentTags, OpenLength, CloseLength) => Paired(tag, OpenLength, CloseLength)
         /\ Paired(SentTags, OpenID, CloseID) => Paired(tag, OpenID, CloseID)
<1> DEFINE m == Len(tag)
<1>1. tag \in Seq(Tokens) /\ DOMAIN tag = 1..Len(tag)
  BY DEF Joined, Typed, IgTyped
<1>2. Clean(tag)
  <2>1. \A k \in DOMAIN tag : tag[k] # Zero
    BY DEF Joined, ReplyParsed
  <2>2. QED
    BY <1>1, <2>1 DEF Clean
<1>3. SentTags \in Seq(Tokens) /\ m \in 0..Len(SentTags) /\ tag = SubSeq(SentTags, 1, m)
  BY TagIsCut
<1> HIDE DEF m
<1>4. ASSUME NEW open, NEW close, Paired(SentTags, open, close) PROVE Paired(tag, open, close)
  <2>1. Paired(SubSeq(SentTags, 1, m), open, close)
    BY <1>3, <1>4, PairedCut
  <2>2. QED
    BY <1>3, <2>1
<1>5. QED
  BY <1>2, <1>4

LEMMA TagPairs == TagPair(OpenLength, CloseLength) /\ TagPair(OpenID, CloseID)
<1>1. \A p \in {OpenLength, CloseLength, OpenID, CloseID} : p \in Seq(Tokens) /\ Len(p) = 1 /\ p[1] \notin Nat
  BY TokenTypes, TagsAssumption DEF Texts
<1>2. ASSUME NEW p \in Seq(Tokens), NEW q \in Seq(Tokens), Len(p) = 1, Len(q) = 1, p # q
      PROVE  p[1] # q[1]
  <2>1. SUFFICES ASSUME p[1] = q[1] PROVE FALSE
    OBVIOUS
  <2>2. \A k \in 1..Len(p) : k = 1
    BY <1>2
  <2>3. p = q
    BY <1>2, <2>1, <2>2, SeqEqual
  <2>4. QED
    BY <1>2, <2>3
<1>3. OpenLength[1] # CloseLength[1] /\ OpenID[1] # CloseID[1]
  BY <1>1, <1>2, TagsAssumption
<1>4. QED
  BY <1>1, <1>3 DEF TagPair

-----------------------------------------------------------------------------
(* What the scan leads to.                                                 *)

\* One of the two handlers has nothing to do.
OneSided == IF script["generator"] = <<>> THEN igPc = "done" ELSE quPc = "done"

\* Only the scan ends ig_pool_handle, and only on a closing tag that comes first.
ScanResult ==
  script["generator"] # <<>> =>
    (crashed <=> igPc \notin {"recv", "scan"} /\ ClosedFirst(tag, OpenLength, CloseLength))

LEMMA ScanFirst == ASSUME Init PROVE OneSided /\ ScanResult
<1>1. CASE /\ script \in [client : Queries, actuator : Answers, generator : {<<>>}]
           /\ quPc = "recv" /\ igPc = "done"
  BY <1>1 DEF OneSided, ScanResult
<1>2. CASE quPc = "done" /\ igPc = "recv" /\ script["generator"] # <<>>
  BY <1>2 DEF Init, OneSided, ScanResult
<1>3. ASSUME NEW t \in Tags, NEW i \in Images PROVE GeneratorSends(t, i) # <<>>
  <2>1. t \in Seq(Tokens) /\ i \in Seq(Tokens) /\ <<Zero>> \in Seq(Tokens) /\ Len(<<Zero>>) = 1
    BY TokenTypes DEF Texts
  <2>2. Len(t) \in Nat /\ Len(i) \in Nat
    BY <2>1
  <2>3. t \o <<Zero>> \in Seq(Tokens) /\ Len(t \o <<Zero>>) = Len(t) + 1
    BY <2>1
  <2> DEFINE head == t \o <<Zero>>
  <2> HIDE DEF head
  <2>4. Len(head \o i) = (Len(t) + 1) + Len(i)
    BY <2>1, <2>3 DEF head
  <2>5. Len(GeneratorSends(t, i)) # 0
    BY <2>2, <2>4 DEF GeneratorSends, head
  <2>6. QED
    BY <2>5
<1>4. CASE /\ script \in [client : {<<>>}, actuator : {<<>>}, generator : {GeneratorSends(t, i) : t \in Tags, i \in Images}]
           /\ quPc = "done" /\ igPc = "recv"
  <2>1. script["generator"] \in {GeneratorSends(t, i) : t \in Tags, i \in Images}
    BY <1>4
  <2>2. script["generator"] # <<>>
    BY <1>3, <2>1
  <2>3. QED
    BY <1>2, <1>4, <2>2
<1>5. QED
  BY <1>1, <1>4 DEF Init

LEMMA ScanKept == ASSUME Joined, OneSided, ScanResult, [Next]_vars PROVE OneSided' /\ ScanResult'
<1>1. UNCHANGED script
  BY ScriptKept
<1>2. CASE QuStep
  <2>1. quPc # "done" /\ UNCHANGED igVars
    BY <1>2 DEF QuStep, QuReceive, QuConnect, QuSend, QuAwait, QuPending, QuGoto
  <2>2. script["generator"] = <<>>
    BY <2>1 DEF OneSided
  <2>3. QED
    BY <1>1, <2>1, <2>2 DEF OneSided, ScanResult, igVars
<1>3. CASE IgStep
  <2>1. ~crashed /\ igPc # "done" /\ UNCHANGED quVars
    BY <1>3 DEF IgStep, IgReceive, IgReceived, IgScan, IgSendTags, IgSendZero, IgSendImage, IgGoto
  <2>2. script["generator"] # <<>> /\ OneSided'
    BY <1>1, <2>1 DEF OneSided, quVars
  <2>3. CASE IgReceive \/ IgReceived
    BY <1>1, <2>1, <2>2, <2>3 DEF IgReceive, IgReceived, IgGoto, ScanResult
  <2>4. CASE IgScan
    <3>1. Clean(tag) /\ TagPair(OpenLength, CloseLength)
      BY TagReceived, TagPairs
    <3>2. TagContentInt(tag, OpenLength, CloseLength).crashed <=> ClosedFirst(tag, OpenLength, CloseLength)
      BY <3>1, CrashIs
    <3>3. /\ igPc' = "send_tags" /\ tag' = tag
          /\ crashed' <=> TagContentInt(tag, OpenLength, CloseLength).crashed
      BY <2>4 DEF IgScan, IgGoto
    <3>4. ClosedFirst(tag, OpenLength, CloseLength)' <=> ClosedFirst(tag, OpenLength, CloseLength)
      BY <3>3 DEF ClosedFirst
    <3>5. QED
      BY <2>2, <3>2, <3>3, <3>4 DEF ScanResult
  <2>5. ASSUME NEW n, IgSendTags(n) \/ IgSendZero(n) \/ IgSendImage(n) PROVE ScanResult'
    <3>1. /\ igPc \notin {"recv", "scan"} /\ igPc' \notin {"recv", "scan"}
          /\ tag' = tag /\ crashed' = crashed
      BY <2>5 DEF IgSendTags, IgSendZero, IgSendImage, IgGoto
    <3>2. ClosedFirst(tag, OpenLength, CloseLength)' <=> ClosedFirst(tag, OpenLength, CloseLength)
      BY <3>1 DEF ClosedFirst
    <3>3. QED
      BY <1>1, <3>1, <3>2 DEF ScanResult
  <2>6. QED
    BY <1>3, <2>2, <2>3, <2>4, <2>5 DEF IgStep
<1>4. ASSUME UNCHANGED <<quVars, igVars, crashed>> PROVE OneSided' /\ ScanResult'
  <2>1. UNCHANGED <<script, quPc, igPc, tag, crashed>>
    BY <1>1, <1>4 DEF quVars, igVars
  <2>2. QED
    BY <2>1 DEF OneSided, ScanResult, ClosedFirst
<1>5. CASE \E s \in Sockets : PeerStep(s)
  BY <1>4, <1>5 DEF PeerStep
<1>6. CASE UNCHANGED vars
  BY <1>4, <1>6 DEF vars
<1>7. QED
  BY <1>2, <1>3, <1>5, <1>6 DEF Next

LEMMA Scanned == ASSUME Joined, ScanResult PROVE ScansRight
<1> DEFINE length == TagContentInt(tag, OpenLength, CloseLength)
           id1 == TagContentInt(tag, OpenID, CloseID)
           id2 == TagContentInt(id1.rest, OpenID, CloseID)
           ids == NumberPlaces(tag, OpenID, CloseID)
<1>1. /\ Clean(tag)
      /\ Paired(SentTags, OpenLength, CloseLength) => Paired(tag, OpenLength, CloseLength)
      /\ Paired(SentTags, OpenID, CloseID) => Paired(tag, OpenID, CloseID)
  BY TagReceived
<1>2. length.crashed <=> ClosedFirst(tag, OpenLength, CloseLength)
  BY <1>1, TagPairs, CrashIs
<1>3. id1.crashed <=> ClosedFirst(tag, OpenID, CloseID)
  BY <1>1, TagPairs, CrashIs
<1>4. ASSUME Paired(SentTags, OpenLength, CloseLength)
      PROVE  ~length.crashed /\ length.value = FirstNumber(tag, NumberPlaces(tag, OpenLength, CloseLength))
  BY <1>1, <1>4, TagPairs, ScansText
<1>5. ASSUME Paired(SentTags, OpenID, CloseID)
      PROVE  /\ ~(id1.crashed \/ id2.crashed)
             /\ id1.value = FirstNumber(tag, ids)
             /\ id2.value = FirstNumber(tag, {i \in ids : \E j \in ids : j < i})
  BY <1>1, <1>5, TagPairs, ScansText
<1>6. QED
  BY <1>2, <1>3, <1>4, <1>5 DEF ScansRight, ScanResult

-----------------------------------------------------------------------------

\* However much of the tags has come, and whatever they are: the scanner computes
\* from null exactly when a closing tag comes before every opening one, and finds
\* the numbers of well-formed tags in order.
THEOREM ScansCorrect == Spec => []ScansRight
<1>1. Init => Joined /\ OneSided /\ ScanResult
  BY InitHolds, ScanFirst
<1>2. Joined /\ OneSided /\ ScanResult /\ [Next]_vars => (Joined /\ OneSided /\ ScanResult)'
  BY StepKeeps, ScanKept
<1>3. Joined /\ ScanResult => ScansRight
  BY Scanned
<1>4. QED
  BY <1>1, <1>2, <1>3, PTL DEF Spec

=============================================================================
