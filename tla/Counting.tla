------------------------------- MODULE Counting -------------------------------
(***************************************************************************)
(* Lemmas about the sizes of finite sets, for the proofs that count owners *)
(* and descriptors.                                                        *)
(***************************************************************************)
EXTENDS Integers, FiniteSets, FiniteSetTheorems, TLAPS

\* Two sets that differ at most in i.
LEMMA CountStep ==
  ASSUME NEW T, IsFiniteSet(T), NEW A \in SUBSET T, NEW B \in SUBSET T, NEW i \in T,
         \A j \in T \ {i} : j \in A <=> j \in B
  PROVE  /\ Cardinality(A) \in Nat /\ Cardinality(B) \in Nat
         /\ Cardinality(B) = Cardinality(A) + (IF i \in B THEN 1 ELSE 0)
                                            - (IF i \in A THEN 1 ELSE 0)
<1>1. IsFiniteSet(A) /\ IsFiniteSet(B)
  BY FS_Subset
<1>2. Cardinality(A) \in Nat /\ Cardinality(B) \in Nat
  BY <1>1, FS_CardinalityType
<1> DEFINE a == Cardinality(A)
           b == Cardinality(B)
           rest == Cardinality(A \ {i})
<1>3. A \ {i} = B \ {i}
  OBVIOUS
<1>4. rest = IF i \in A THEN a - 1 ELSE a
  BY <1>1, FS_RemoveElement
<1>5. rest = IF i \in B THEN b - 1 ELSE b
  BY <1>1, <1>3, FS_RemoveElement
<1>6. a \in Nat /\ b \in Nat
  BY <1>2
<1> HIDE DEF a, b, rest
<1>7. b = a + (IF i \in B THEN 1 ELSE 0) - (IF i \in A THEN 1 ELSE 0)
  BY <1>4, <1>5, <1>6
<1>8. QED
  BY <1>2, <1>7 DEF a, b

\* A finite set counts one element more than nothing if it has a member.
LEMMA CountSome ==
  ASSUME NEW T, IsFiniteSet(T), NEW A \in SUBSET T
  PROVE  /\ Cardinality(A) \in Nat
         /\ Cardinality(A) = 0 <=> A = {}
         /\ \A x, y \in A : x # y => Cardinality(A) >= 2
<1>1. IsFiniteSet(A) /\ Cardinality(A) \in Nat /\ (Cardinality(A) = 0 <=> A = {})
  BY FS_Subset, FS_CardinalityType, FS_EmptySet
<1>2. ASSUME NEW x \in A, NEW y \in A, x # y PROVE Cardinality(A) >= 2
  <2>1. Cardinality(A \ {x}) = Cardinality(A) - 1 /\ IsFiniteSet(A \ {x})
    BY <1>1, <1>2, FS_RemoveElement
  <2>2. Cardinality(A \ {x}) # 0
    BY <1>2, <2>1, FS_EmptySet
  <2>3. QED
    BY <1>1, <2>1, <2>2
<1>3. QED
  BY <1>1, <1>2

\* Taking some elements out of a finite set and adding others.
LEMMA CountAdd ==
  ASSUME NEW A, IsFiniteSet(A), NEW x
  PROVE  /\ IsFiniteSet(A \cup {x}) /\ IsFiniteSet(A \ {x})
         /\ Cardinality(A) \in Nat
         /\ Cardinality(A \cup {x}) = Cardinality(A) + (IF x \in A THEN 0 ELSE 1)
         /\ Cardinality(A \ {x}) = Cardinality(A) - (IF x \in A THEN 1 ELSE 0)
<1> DEFINE a == Cardinality(A)
<1>1. a \in Nat
  BY FS_CardinalityType
<1>2. IsFiniteSet(A \cup {x}) /\ Cardinality(A \cup {x}) = IF x \in A THEN a ELSE a + 1
  BY FS_AddElement
<1>3. IsFiniteSet(A \ {x}) /\ Cardinality(A \ {x}) = IF x \in A THEN a - 1 ELSE a
  BY FS_RemoveElement
<1>4. QED
  BY <1>1, <1>2, <1>3

\* A union is no larger than its parts together.
LEMMA CountUnion ==
  ASSUME NEW A, NEW B, IsFiniteSet(A), IsFiniteSet(B)
  PROVE  /\ IsFiniteSet(A \cup B) /\ Cardinality(A \cup B) \in Nat
         /\ Cardinality(A \cup B) <= Cardinality(A) + Cardinality(B)
<1>1. /\ IsFiniteSet(A \cup B)
      /\ Cardinality(A \cup B) = Cardinality(A) + Cardinality(B) - Cardinality(A \cap B)
  BY FS_Union
<1>2. IsFiniteSet(A \cap B)
  BY FS_Subset
<1>3. /\ Cardinality(A \cup B) \in Nat /\ Cardinality(A \cap B) \in Nat
      /\ Cardinality(A) \in Nat /\ Cardinality(B) \in Nat
  BY <1>1, <1>2, FS_CardinalityType
<1>4. QED
  BY <1>1, <1>3

=============================================================================
