----------------------------- MODULE CountTheorems -----------------------------
(***************************************************************************)
(* Counting the places of a sequence that hold an element of a set, and    *)
(* induction over the natural numbers for what is written as a set: the    *)
(* lemmas on data that the proofs of this project share.                   *)
(***************************************************************************)
EXTENDS Integers, Sequences, FiniteSets, SequenceTheorems, FunctionTheorems,
        FiniteSetTheorems, TLAPS

\* The places of s that hold an element of S, and how many there are.
Places(s, S) == {i \in DOMAIN s : s[i] \in S}
Occurrences(s, S) == Cardinality(Places(s, S))

------------------------------------------------------------------------------
(***************************************************************************)
(* Induction                                                               *)
(***************************************************************************)
\* Every non-empty set of natural numbers has a least element. The intervals
\* 1 .. n are finite sets, and inclusion is well-founded on those.
LEMMA LeastNat ==
    ASSUME NEW T \in SUBSET Nat, T # {}
    PROVE  \E n \in T : \A m \in T : n <= m
<1> DEFINE R == StrictSubsetOrdering(Nat)
           F == FiniteSubsetsOf(Nat)
           I == {1 .. n : n \in T}
<1>1. I \subseteq F
  <2>1. \A n \in T : 1 .. n \subseteq Nat /\ IsFiniteSet(1 .. n)
    BY FS_Interval
  <2>2. QED
    BY <2>1 DEF FiniteSubsetsOf
<1>2. \E x \in I : \A y \in I : ~ (<<y, x>> \in R)
  <2>1. IsWellFoundedOn(R, F)
    BY FS_StrictSubsetOrderingWellFounded
  <2>2. I # {}
    OBVIOUS
  <2> HIDE DEF R, F, I
  <2>3. QED
    BY <1>1, <2>1, <2>2, WFMin
<1>3. PICK n \in T : \A m \in T : ~ (<<1 .. m, 1 .. n>> \in R)
  BY <1>2
<1>4. ASSUME NEW m \in T, m < n
      PROVE  FALSE
  <2>1. 1 .. m \subseteq 1 .. n /\ n \in 1 .. n /\ n \notin 1 .. m
    BY <1>4
  <2>2. 1 .. m \in SUBSET Nat /\ 1 .. n \in SUBSET Nat /\ 1 .. m # 1 .. n
    BY <2>1
  <2>3. <<1 .. m, 1 .. n>> \in R
    BY <2>1, <2>2 DEF StrictSubsetOrdering
  <2>4. QED
    BY <1>3, <2>3
<1>5. QED
  BY <1>4

\* Induction: a set that holds 0, and n + 1 with every n, holds every number.
LEMMA SetInduction ==
    ASSUME NEW S, 0 \in S, \A n \in Nat : n \in S => n + 1 \in S
    PROVE  Nat \subseteq S
<1> SUFFICES ASSUME Nat \ S # {} PROVE FALSE
  OBVIOUS
<1>1. PICK n \in Nat \ S : \A m \in Nat \ S : n <= m
  BY LeastNat
<1>2. n # 0 /\ n - 1 \in Nat /\ n - 1 \in S
  BY <1>1
<1>3. QED
  BY <1>1, <1>2

------------------------------------------------------------------------------
(***************************************************************************)
(* Counting                                                                *)
(***************************************************************************)
LEMMA PlacesFinite ==
    ASSUME NEW X, NEW s \in Seq(X), NEW S
    PROVE  /\ IsFiniteSet(Places(s, S))
           /\ Places(s, S) \in SUBSET (1 .. Len(s))
           /\ Occurrences(s, S) \in 0 .. Len(s)
<1>1. DOMAIN s = 1 .. Len(s) /\ Len(s) \in Nat
  BY LenProperties
<1>2. IsFiniteSet(1 .. Len(s)) /\ Cardinality(1 .. Len(s)) = Len(s)
  BY <1>1, FS_Interval
<1>3. Places(s, S) \in SUBSET (1 .. Len(s))
  BY <1>1 DEF Places
<1>4. IsFiniteSet(Places(s, S)) /\ Cardinality(Places(s, S)) <= Len(s)
  BY <1>2, <1>3, FS_Subset
<1>5. Cardinality(Places(s, S)) \in Nat
  BY <1>4, FS_CardinalityType
<1>6. QED
  BY <1>1, <1>3, <1>4, <1>5 DEF Occurrences

LEMMA NoneInEmpty ==
    ASSUME NEW S
    PROVE  Occurrences(<<>>, S) = 0
<1>1. Places(<<>>, S) = {}
  BY DEF Places
<1>2. QED
  BY <1>1, FS_EmptySet DEF Occurrences

LEMMA OccurrencesAppend ==
    ASSUME NEW X, NEW s \in Seq(X), NEW e \in X, NEW S
    PROVE  Occurrences(Append(s, e), S)
             = Occurrences(s, S) + (IF e \in S THEN 1 ELSE 0)
<1> DEFINE n == Len(s) + 1
           P == Places(s, S)
<1>1. /\ Append(s, e) \in Seq(X) /\ Len(Append(s, e)) = n /\ Len(s) \in Nat
      /\ \A i \in 1 .. Len(s) : Append(s, e)[i] = s[i]
      /\ Append(s, e)[n] = e
      /\ DOMAIN s = 1 .. Len(s) /\ DOMAIN Append(s, e) = 1 .. n
  BY AppendProperties, LenProperties
<1>2. IsFiniteSet(P) /\ P \subseteq 1 .. Len(s) /\ Cardinality(P) \in Nat
  BY PlacesFinite DEF Occurrences
<1>3. n \notin P
  BY <1>1, <1>2
<1>4. CASE e \in S
  <2>1. Places(Append(s, e), S) = P \cup {n}
    BY <1>1, <1>4 DEF Places
  <2>2. Cardinality(P \cup {n}) = Cardinality(P) + 1
    BY <1>2, <1>3, FS_AddElement
  <2>3. QED
    BY <1>4, <2>1, <2>2 DEF Occurrences
<1>5. CASE e \notin S
  <2>1. Places(Append(s, e), S) = P
    BY <1>1, <1>5 DEF Places
  <2>2. QED
    BY <1>2, <1>5, <2>1 DEF Occurrences
<1>6. QED
  BY <1>4, <1>5

\* The places behind the first one are those of the tail.
LEMMA OccurrencesBehindFirst ==
    ASSUME NEW X, NEW s \in Seq(X), s # <<>>, NEW S
    PROVE  Cardinality({i \in DOMAIN s : s[i] \in S /\ i # 1})
             = Occurrences(Tail(s), S)
<1> DEFINE P == Places(Tail(s), S)
           Q == {i \in DOMAIN s : s[i] \in S /\ i # 1}
           f == [i \in P |-> i + 1]
<1>1. /\ Tail(s) \in Seq(X) /\ Len(Tail(s)) = Len(s) - 1
      /\ \A i \in 1 .. Len(Tail(s)) : Tail(s)[i] = s[i + 1]
      /\ Len(s) \in Nat \ {0}
  BY HeadTailProperties, EmptySeq
<1>2. DOMAIN s = 1 .. Len(s) /\ DOMAIN Tail(s) = 1 .. Len(Tail(s))
  BY <1>1, LenProperties
<1>3. f \in [P -> Q]
  BY <1>1, <1>2 DEF Places
<1>4. \A j \in Q : j - 1 \in P /\ f[j - 1] = j
  BY <1>1, <1>2 DEF Places
<1>5. \A i, j \in P : f[i] = f[j] => i = j
  BY <1>1, <1>2 DEF Places
<1>6. f \in Bijection(P, Q)
  <2> HIDE DEF f, P, Q
  <2>1. \A j \in Q : \E i \in P : f[i] = j
    BY <1>4
  <2>2. QED
    BY <1>3, <1>5, <2>1, Fun_IsBij
<1>7. Cardinality(P) = Cardinality(Q)
  <2>1. IsFiniteSet(P)
    BY <1>1, PlacesFinite
  <2> HIDE DEF f, P, Q
  <2>2. QED
    BY <1>6, <2>1, FS_Bijection DEF ExistsBijection
<1>8. QED
  BY <1>7 DEF Occurrences

LEMMA OccurrencesTail ==
    ASSUME NEW X, NEW s \in Seq(X), s # <<>>, NEW S
    PROVE  Occurrences(s, S)
             = Occurrences(Tail(s), S) + (IF Head(s) \in S THEN 1 ELSE 0)
<1> DEFINE Q == {i \in DOMAIN s : s[i] \in S /\ i # 1}
<1>1. Len(s) \in Nat \ {0} /\ DOMAIN s = 1 .. Len(s) /\ Head(s) = s[1]
  BY EmptySeq, LenProperties
<1>2. IsFiniteSet(Places(s, S)) /\ Q \subseteq Places(s, S) /\ 1 \notin Q
  BY PlacesFinite DEF Places
<1>3. IsFiniteSet(Q) /\ Cardinality(Q) = Occurrences(Tail(s), S)
  BY <1>2, FS_Subset, OccurrencesBehindFirst
<1>4. CASE Head(s) \in S
  <2>1. Places(s, S) = Q \cup {1}
    BY <1>1, <1>4 DEF Places
  <2>2. Cardinality(Q \cup {1}) = Cardinality(Q) + 1
    BY <1>2, <1>3, FS_AddElement
  <2>3. QED
    BY <1>3, <1>4, <2>1, <2>2 DEF Occurrences
<1>5. CASE Head(s) \notin S
  <2>1. Places(s, S) = Q
    BY <1>1, <1>5 DEF Places
  <2>2. Cardinality(Q) \in Nat
    BY <1>3, FS_CardinalityType
  <2>3. QED
    BY <1>3, <1>5, <2>1, <2>2 DEF Occurrences
<1>6. QED
  BY <1>4, <1>5

LEMMA OccurrencesConcat ==
    ASSUME NEW X, NEW s \in Seq(X), NEW t \in Seq(X), NEW S
    PROVE  Occurrences(s \o t, S) = Occurrences(s, S) + Occurrences(t, S)
<1> DEFINE P == Places(s, S)
           T == Places(t, S)
           n == Len(s)
           Q == {i \in Places(s \o t, S) : i > n}
           f == [i \in T |-> i + n]
<1>1. /\ s \o t \in Seq(X) /\ Len(s \o t) = n + Len(t)
      /\ \A i \in 1 .. n + Len(t) : (s \o t)[i] = IF i <= n THEN s[i] ELSE t[i - n]
      /\ n \in Nat /\ Len(t) \in Nat
  BY ConcatProperties, LenProperties
<1>2. DOMAIN s = 1 .. n /\ DOMAIN t = 1 .. Len(t) /\ DOMAIN (s \o t) = 1 .. n + Len(t)
  BY <1>1, LenProperties
<1>3. IsFiniteSet(P) /\ IsFiniteSet(T) /\ IsFiniteSet(Places(s \o t, S))
  BY <1>1, PlacesFinite
<1>4. IsFiniteSet(Q)
  BY <1>3, FS_Subset
<1>5. f \in Bijection(T, Q)
  <2>1. \A i \in T : i \in Nat /\ i + n \in Q
    BY <1>1, <1>2 DEF Places
  <2>2. \A j \in Q : j - n \in T /\ j \in Nat
    BY <1>1, <1>2 DEF Places
  <2> HIDE DEF T, Q
  <2>3. f \in [T -> Q]
    BY <2>1
  <2>4. \A i, j \in T : f[i] = f[j] => i = j
    BY <1>1, <2>1
  <2>5. \A j \in Q : \E i \in T : f[i] = j
    <3>1. \A j \in Q : f[j - n] = j
      BY <1>1, <2>2
    <3>2. QED
      BY <2>2, <3>1
  <2> HIDE DEF f
  <2>6. QED
    BY <2>3, <2>4, <2>5, Fun_IsBij
<1>6. Cardinality(Q) = Cardinality(T)
  <2> HIDE DEF f, T, Q
  <2>1. QED
    BY <1>3, <1>5, FS_Bijection DEF ExistsBijection
<1>7. Places(s \o t, S) = P \cup Q /\ P \cap Q = {}
  BY <1>1, <1>2 DEF Places
<1>8. Cardinality(P \cup Q) = Cardinality(P) + Cardinality(Q) - Cardinality(P \cap Q)
  <2> HIDE DEF P, Q
  <2>1. QED
    BY <1>3, <1>4, FS_Union
<1>9. Cardinality(P) \in Nat /\ Cardinality(T) \in Nat /\ Cardinality({}) = 0
  BY <1>3, FS_CardinalityType, FS_EmptySet
<1>10. /\ Occurrences(s \o t, S) = Cardinality(P \cup Q)
       /\ Occurrences(s, S) = Cardinality(P) /\ Occurrences(t, S) = Cardinality(T)
  BY <1>7 DEF Occurrences
<1>11. Cardinality(P \cap Q) = 0
  BY <1>7, <1>9
<1>12. QED
  <2> HIDE DEF P, Q, T
  <2>1. QED
    BY <1>6, <1>8, <1>9, <1>10, <1>11

\* Something is counted if and only if it is there.
LEMMA OccurrencesPositive ==
    ASSUME NEW X, NEW s \in Seq(X), NEW S
    PROVE  Occurrences(s, S) = 0 <=> \A i \in DOMAIN s : s[i] \notin S
<1>1. IsFiniteSet(Places(s, S))
  BY PlacesFinite
<1>2. Occurrences(s, S) = 0 <=> Places(s, S) = {}
  BY <1>1, FS_EmptySet DEF Occurrences
<1>3. QED
  BY <1>2 DEF Places

LEMMA OccurrencesDisjoint ==
    ASSUME NEW X, NEW s \in Seq(X), NEW S, NEW T, S \cap T = {}
    PROVE  Occurrences(s, S \cup T) = Occurrences(s, S) + Occurrences(s, T)
<1> DEFINE P == Places(s, S)
           Q == Places(s, T)
<1>1. IsFiniteSet(P) /\ IsFiniteSet(Q)
  BY PlacesFinite
<1>2. Places(s, S \cup T) = P \cup Q /\ P \cap Q = {}
  BY DEF Places
<1>3. Cardinality(P \cup Q) = Cardinality(P) + Cardinality(Q) - Cardinality(P \cap Q)
  <2> HIDE DEF P, Q
  <2>1. QED
    BY <1>1, FS_Union
<1>4. Cardinality(P) \in Nat /\ Cardinality(Q) \in Nat /\ Cardinality({}) = 0
  BY <1>1, FS_CardinalityType, FS_EmptySet
<1>5. /\ Occurrences(s, S \cup T) = Cardinality(P \cup Q)
      /\ Occurrences(s, S) = Cardinality(P) /\ Occurrences(s, T) = Cardinality(Q)
      /\ Cardinality(P \cap Q) = 0
  BY <1>2, <1>4 DEF Occurrences
<1>6. QED
  <2> HIDE DEF P, Q
  <2>1. QED
    BY <1>3, <1>4, <1>5

\* One element at two places is counted twice.
LEMMA OccurrencesOnce ==
    ASSUME NEW X, NEW s \in Seq(X), NEW S, Occurrences(s, S) <= 1,
           NEW i \in DOMAIN s, NEW j \in DOMAIN s, s[i] \in S, s[j] \in S
    PROVE  i = j
<1>1. IsFiniteSet(Places(s, S)) /\ Cardinality(Places(s, S)) \in Nat
  BY PlacesFinite, FS_CardinalityType
<1>2. i \in Places(s, S) /\ j \in Places(s, S)
  BY DEF Places
<1>3. Cardinality(Places(s, S)) # 0
  BY <1>1, <1>2, FS_EmptySet
<1>4. Cardinality(Places(s, S)) = 1
  BY <1>1, <1>3 DEF Occurrences
<1>5. \E x : Places(s, S) = {x}
  BY <1>1, <1>4, FS_Singleton
<1>6. QED
  BY <1>2, <1>5

\* What is found at the places of S is at least as many as are counted.
LEMMA OccurrencesCover ==
    ASSUME NEW X, NEW s \in Seq(X), NEW S, NEW B, NEW f \in [X -> B],
           \A b \in B : \E i \in DOMAIN s : s[i] \in S /\ f[s[i]] = b
    PROVE  IsFiniteSet(B) /\ Cardinality(B) <= Occurrences(s, S)
<1> DEFINE P == Places(s, S)
           g == [i \in P |-> f[s[i]]]
<1>1. IsFiniteSet(P)
  BY PlacesFinite
<1>2. g \in Surjection(P, B)
  <2>1. \A i \in P : s[i] \in X
    BY LenProperties, ElementOfSeq DEF Places
  <2>2. g \in [P -> B]
    BY <2>1
  <2>3. \A b \in B : \E i \in P : g[i] = b
    BY DEF Places
  <2> HIDE DEF g, P
  <2>4. QED
    BY <2>2, <2>3, Fun_IsSurj
<1>3. QED
  <2> HIDE DEF g, P
  <2>1. IsFiniteSet(B) /\ Cardinality(B) <= Cardinality(P)
    BY <1>1, <1>2, FS_Surjection
  <2>2. QED
    BY <2>1 DEF Occurrences, P

\* The tail of a concatenation.
LEMMA TailOfConcat ==
    ASSUME NEW X, NEW s \in Seq(X), NEW t \in Seq(X), s # <<>>
    PROVE  /\ Tail(s \o t) = Tail(s) \o t
           /\ Head(s \o t) = Head(s)
           /\ s \o t # <<>>
<1>1. /\ s \o t \in Seq(X) /\ Len(s \o t) = Len(s) + Len(t)
      /\ \A i \in 1 .. Len(s) + Len(t) :
            (s \o t)[i] = IF i <= Len(s) THEN s[i] ELSE t[i - Len(s)]
      /\ Len(s) \in Nat \ {0} /\ Len(t) \in Nat
  BY ConcatProperties, LenProperties, EmptySeq
<1>2. s \o t # <<>>
  BY <1>1, EmptySeq
<1>3. /\ Tail(s) \in Seq(X) /\ Len(Tail(s)) = Len(s) - 1
      /\ \A i \in 1 .. Len(Tail(s)) : Tail(s)[i] = s[i + 1]
  BY HeadTailProperties
<1>4. /\ Tail(s \o t) \in Seq(X) /\ Len(Tail(s \o t)) = Len(s) + Len(t) - 1
      /\ \A i \in 1 .. Len(Tail(s \o t)) : Tail(s \o t)[i] = (s \o t)[i + 1]
  BY <1>1, <1>2, HeadTailProperties
<1>5. /\ Tail(s) \o t \in Seq(X) /\ Len(Tail(s) \o t) = Len(s) - 1 + Len(t)
      /\ \A i \in 1 .. Len(s) - 1 + Len(t) :
            (Tail(s) \o t)[i] = IF i <= Len(s) - 1 THEN Tail(s)[i] ELSE t[i - (Len(s) - 1)]
  BY <1>1, <1>3, ConcatProperties
<1>6. ASSUME NEW i \in 1 .. Len(s) + Len(t) - 1
      PROVE  Tail(s \o t)[i] = (Tail(s) \o t)[i]
  <2>1. Tail(s \o t)[i] = (s \o t)[i + 1] /\ i + 1 \in 1 .. Len(s) + Len(t)
    BY <1>1, <1>4
  <2>2. CASE i <= Len(s) - 1
    BY <1>1, <1>3, <1>5, <2>1, <2>2
  <2>3. CASE i > Len(s) - 1
    BY <1>1, <1>5, <2>1, <2>3
  <2>4. QED
    BY <1>1, <2>2, <2>3
<1>7. Tail(s \o t) = Tail(s) \o t
  BY <1>1, <1>4, <1>5, <1>6, SeqEqual
<1>8. Head(s \o t) = Head(s)
  BY <1>1
<1>9. QED
  BY <1>2, <1>7, <1>8

\* Appending to the second part.
LEMMA AppendToConcat ==
    ASSUME NEW X, NEW s \in Seq(X), NEW t \in Seq(X), NEW e \in X
    PROVE  s \o Append(t, e) = Append(s \o t, e)
<1>1. <<e>> \in Seq(X) /\ s \o t \in Seq(X)
  BY ConcatProperties
<1>2. Append(t, e) = t \o <<e>> /\ Append(s \o t, e) = (s \o t) \o <<e>>
  BY <1>1, AppendIsConcat
<1>3. QED
  BY <1>1, <1>2, ConcatAssociative
=============================================================================
