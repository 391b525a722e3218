---------------------------- MODULE HashtableProofs ----------------------------
(***************************************************************************)
(* The table of hashtable.c keeps every item where a search looks for it,  *)
(* its deletion leaves other keys alone, and it implements the multimap    *)
(* its header describes: for any keys, sizes, chains and callers.          *)
(***************************************************************************)
EXTENDS Hashtable, CountTheorems

------------------------------------------------------------------------------
(***************************************************************************)
(* The two recursive functions of Hashtable are defined                    *)
(***************************************************************************)
\* f lists what g makes of a in up to N turns.
Turns(D, g, a, N, f) ==
    f \in [0 .. N -> D] /\ f[0] = a /\ \A n \in 1 .. N : f[n] = g[f[n - 1]]

LEMMA Repeats ==
    ASSUME NEW D, NEW g \in [D -> D], NEW a \in D, NEW N \in Nat
    PROVE  \E f : Turns(D, g, a, N, f)
<1> DEFINE Good(f, n) == f[0] = a /\ \A i \in 1 .. n : f[i] = g[f[i - 1]]
           S == {n \in Nat : \E f \in [0 .. n -> D] : Good(f, n)}
<1>1. 0 \in S
  <2> DEFINE f == [i \in 0 .. 0 |-> a]
  <2>1. f \in [0 .. 0 -> D] /\ f[0] = a
    OBVIOUS
  <2>2. Good(f, 0)
    BY <2>1
  <2> HIDE DEF f, Good
  <2>3. QED
    BY <2>1, <2>2
<1>2. ASSUME NEW n \in Nat, n \in S
      PROVE  n + 1 \in S
  <2>1. PICK f \in [0 .. n -> D] : Good(f, n)
    BY <1>2
  <2> DEFINE h == [i \in 0 .. n + 1 |-> IF i = n + 1 THEN g[f[n]] ELSE f[i]]
  <2>2. f[n] \in D /\ g[f[n]] \in D
    OBVIOUS
  <2>3. h \in [0 .. n + 1 -> D]
    BY <2>2
  <2>4. h[n + 1] = g[f[n]] /\ \A i \in 0 .. n : h[i] = f[i]
    OBVIOUS
  <2> HIDE DEF h
  <2>5. h[0] = a
    BY <2>1, <2>4
  <2>6. ASSUME NEW i \in 1 .. n + 1
        PROVE  h[i] = g[h[i - 1]]
    <3>1. CASE i = n + 1
      BY <2>4, <3>1
    <3>2. CASE i # n + 1
      <4>1. i \in 1 .. n /\ i \in 0 .. n /\ i - 1 \in 0 .. n
        BY <3>2
      <4>2. f[i] = g[f[i - 1]]
        BY <2>1, <4>1
      <4>3. QED
        BY <2>4, <4>1, <4>2
    <3>3. QED
      BY <3>1, <3>2
  <2>7. Good(h, n + 1)
    BY <2>5, <2>6
  <2> HIDE DEF Good
  <2>8. QED
    BY <2>3, <2>7
<1> HIDE DEF S
<1>3. Nat \subseteq S
  BY <1>1, <1>2, SetInduction
<1>4. N \in S
  BY <1>3
<1>5. QED
  BY <1>4 DEF S, Turns

\* calc_hash for a table of n slots.
Hash(n, key) ==
    LET pow == CHOOSE pow : pow = [i \in 0 .. 64 |->
                    IF i = 0 THEN 1 % n ELSE (2 * pow[i - 1]) % n]
    IN IF key >= 0 THEN key % n ELSE (pow[64] + key) % n

LEMMA HashIs == \A key : calc_hash(key) = Hash(size, key)
BY DEF calc_hash, Hash

\* A slot of the table, also for a negative key (hashtable.c:8-10).
LEMMA HashInRange ==
    ASSUME NEW n \in Nat \ {0}, NEW key \in Int
    PROVE  Hash(n, key) \in 0 .. n - 1
<1> DEFINE D == 0 .. n - 1
           g == [x \in D |-> (2 * x) % n]
           doubles(f) == [i \in 0 .. 64 |-> IF i = 0 THEN 1 % n ELSE (2 * f[i - 1]) % n]
<1>1. g \in [D -> D] /\ 1 % n \in D /\ \A x \in D : g[x] = (2 * x) % n
  OBVIOUS
<1>2. \E f : f = doubles(f)
  <2>1. \E f : Turns(D, g, 1 % n, 64, f)
    <3> HIDE DEF D, g
    <3>1. 1 % n \in D /\ g \in [D -> D] /\ 64 \in Nat
      BY <1>1
    <3>2. QED
      BY <3>1, Repeats
  <2> HIDE DEF g
  <2>2. PICK f \in [0 .. 64 -> D] : f[0] = 1 % n /\ \A i \in 1 .. 64 : f[i] = g[f[i - 1]]
    BY <2>1 DEF Turns
  <2> HIDE DEF D
  <2>3. ASSUME NEW i \in 0 .. 64
        PROVE  f[i] = doubles(f)[i]
    <3>1. CASE i = 0
      BY <2>2, <3>1
    <3>2. CASE i # 0
      <4>1. i \in 1 .. 64 /\ i - 1 \in 0 .. 64
        BY <3>2
      <4>2. f[i] = g[f[i - 1]] /\ f[i - 1] \in D
        BY <2>2, <4>1
      <4>3. f[i] = (2 * f[i - 1]) % n
        BY <1>1, <4>2
      <4>4. QED
        BY <3>2, <4>3
    <3>3. QED
      BY <3>1, <3>2
  <2>4. f = doubles(f)
    BY <2>3
  <2>5. QED
    BY <2>4
<1> DEFINE pow == CHOOSE f : f = doubles(f)
<1>3. pow = doubles(pow)
  BY <1>2
<1> HIDE DEF pow
<1>4. pow[0] = 1 % n /\ \A i \in 1 .. 64 : pow[i] = (2 * pow[i - 1]) % n
  BY <1>3
<1> DEFINE S == {i \in Nat : i <= 64 => pow[i] \in D}
<1>5. 0 \in S
  BY <1>1, <1>4
<1>6. ASSUME NEW i \in Nat, i \in S
      PROVE  i + 1 \in S
  <2>1. CASE i + 1 <= 64
    <3>1. i + 1 \in 1 .. 64 /\ (i + 1) - 1 = i /\ pow[i] \in D
      BY <1>6, <2>1
    <3>2. pow[i + 1] = (2 * pow[i]) % n
      BY <1>4, <3>1
    <3>3. 2 * pow[i] \in Int
      BY <3>1
    <3>4. pow[i + 1] \in D
      BY <3>2, <3>3
    <3>5. QED
      BY <3>4
  <2>2. CASE ~(i + 1 <= 64)
    BY <2>2
  <2>3. QED
    BY <2>1, <2>2
<1>7. pow[64] \in Int
  <2> HIDE DEF S
  <2>1. Nat \subseteq S
    BY <1>5, <1>6, SetInduction
  <2>2. 64 \in S
    BY <2>1
  <2>3. QED
    BY <2>2 DEF S
<1>8. Hash(n, key) = IF key >= 0 THEN key % n ELSE (pow[64] + key) % n
  BY DEF Hash, pow
<1>9. QED
  BY <1>7, <1>8

------------------------------------------------------------------------------
(***************************************************************************)
(* Leaving items out of a chain                                            *)
(***************************************************************************)
\* s is what is left of t when only the places g are kept, in their order.
Embeds(s, t, g) ==
    /\ g \in [1 .. Len(s) -> 1 .. Len(t)]
    /\ \A i, j \in 1 .. Len(s) : i < j => g[i] < g[j]
    /\ \A i \in 1 .. Len(s) : s[i] = t[g[i]]

\* The places left out.
Dropped(s, t, g) == {j \in 1 .. Len(t) : \A i \in 1 .. Len(s) : g[i] # j}

LEMMA EmbedsOnce ==
    ASSUME NEW X, NEW s \in Seq(X), NEW t, NEW g, Embeds(s, t, g),
           NEW i \in 1 .. Len(s), NEW j \in 1 .. Len(s)
    PROVE  /\ g[i] = g[j] <=> i = j
           /\ g[i] < g[j] <=> i < j
           /\ g[i] \in Int /\ g[j] \in Int
<1>1. Len(s) \in Nat
  BY LenProperties
<1>2. i \in Int /\ j \in Int
  BY <1>1
<1>3. g[i] \in 1 .. Len(t) /\ g[j] \in 1 .. Len(t)
  BY DEF Embeds
<1>4. g[i] \in Int /\ g[j] \in Int
  BY <1>3
<1>5. (i < j => g[i] < g[j]) /\ (j < i => g[j] < g[i])
  BY DEF Embeds
<1>6. QED
  BY <1>2, <1>4, <1>5

\* What is left out is missing from the count, and nothing else is.
LEMMA CountEmbedded ==
    ASSUME NEW X, NEW s \in Seq(X), NEW t \in Seq(X), NEW g, Embeds(s, t, g), NEW S
    PROVE  LET lost == {j \in Dropped(s, t, g) : t[j] \in S}
           IN /\ IsFiniteSet(lost) /\ Cardinality(lost) \in Nat
              /\ Occurrences(t, S) = Occurrences(s, S) + Cardinality(lost)
<1> DEFINE lost == {j \in Dropped(s, t, g) : t[j] \in S}
           P == Places(s, S)
           Q == Places(t, S)
           kept == {g[i] : i \in P}
           f == [i \in P |-> g[i]]
<1>1. Len(s) \in Nat /\ DOMAIN s = 1 .. Len(s) /\ Len(t) \in Nat /\ DOMAIN t = 1 .. Len(t)
  BY LenProperties
<1>2. IsFiniteSet(P) /\ P \subseteq 1 .. Len(s) /\ IsFiniteSet(Q)
  BY PlacesFinite
<1>3. g \in [1 .. Len(s) -> 1 .. Len(t)] /\ \A i \in 1 .. Len(s) : s[i] = t[g[i]]
  BY DEF Embeds
<1>4. Q = kept \cup lost
  <2>1. ASSUME NEW j \in Q, j \notin lost
        PROVE  j \in kept
    <3>1. j \in 1 .. Len(t) /\ t[j] \in S
      BY <1>1 DEF Places
    <3>2. PICK i \in 1 .. Len(s) : g[i] = j
      BY <2>1, <3>1 DEF Dropped
    <3>3. i \in P
      BY <1>1, <1>3, <3>1, <3>2 DEF Places
    <3>4. QED
      BY <3>2, <3>3
  <2>2. kept \subseteq Q
    <3>1. ASSUME NEW i \in P
          PROVE  g[i] \in Q
      <4>1. i \in 1 .. Len(s) /\ s[i] \in S
        BY <1>2 DEF Places
      <4>2. g[i] \in 1 .. Len(t) /\ t[g[i]] \in S
        BY <1>3, <4>1
      <4>3. QED
        BY <1>1, <4>2 DEF Places
    <3>2. QED
      BY <3>1
  <2>3. lost \subseteq Q
    BY <1>1 DEF Dropped, Places
  <2>4. QED
    BY <2>1, <2>2, <2>3
<1>5. kept \cap lost = {}
  BY <1>2 DEF Dropped
<1>6. f \in Bijection(P, kept)
  <2>1. f \in [P -> kept]
    OBVIOUS
  <2>2. \A i, j \in P : f[i] = f[j] => i = j
    <3>1. \A i, j \in P : g[i] = g[j] => i = j
      BY <1>2, EmbedsOnce
    <3>2. QED
      BY <3>1
  <2>3. \A j \in kept : \E i \in P : f[i] = j
    OBVIOUS
  <2> HIDE DEF f, P, kept
  <2>4. QED
    BY <2>1, <2>2, <2>3, Fun_IsBij
<1>7. IsFiniteSet(kept) /\ Cardinality(kept) = Cardinality(P)
  <2> HIDE DEF f, P, kept
  <2>1. QED
    BY <1>2, <1>6, FS_Bijection DEF ExistsBijection
<1>8. IsFiniteSet(lost)
  <2>1. lost \subseteq Q
    BY <1>4
  <2> HIDE DEF lost, Q
  <2>2. QED
    BY <1>2, <2>1, FS_Subset
<1>9. Cardinality(Q) = Cardinality(kept) + Cardinality(lost) - 0
  <2>1. Cardinality({}) = 0
    BY FS_EmptySet
  <2> HIDE DEF lost, kept, Q
  <2>2. QED
    BY <1>4, <1>5, <1>7, <1>8, <2>1, FS_Union
<1>10. Cardinality(lost) \in Nat /\ Cardinality(kept) \in Nat
  <2> HIDE DEF lost, kept
  <2>1. QED
    BY <1>7, <1>8, FS_CardinalityType
<1>11. Occurrences(t, S) = Occurrences(s, S) + Cardinality(lost)
  <2> HIDE DEF lost, kept, P, Q
  <2>1. Cardinality(Q) = Cardinality(P) + Cardinality(lost)
    BY <1>7, <1>9, <1>10
  <2>2. QED
    BY <2>1 DEF Occurrences, P, Q
<1>12. QED
  BY <1>8, <1>10, <1>11

\* What the walk leaves of chain from place i on: only items with key k are missing,
\* and one is if there was one.
Thinned(chain, k, i, w, g) ==
    /\ g \in [1 .. Len(w) -> i .. Len(chain)]
    /\ \A m, n \in 1 .. Len(w) : m < n => g[m] < g[n]
    /\ \A m \in 1 .. Len(w) : w[m] = chain[g[m]]
    /\ \A j \in i .. Len(chain) : (\A m \in 1 .. Len(w) : g[m] # j) => chain[j].key = k
    /\ (\E j \in i .. Len(chain) : chain[j].key = k) =>
        \E j \in i .. Len(chain) : \A m \in 1 .. Len(w) : g[m] # j

\* Keeping the item at place i, which is the first with key k or follows one.
LEMMA ThinnedKeeps ==
    ASSUME NEW X, NEW chain \in Seq(X), NEW k, NEW i \in 1 .. Len(chain),
           NEW h \in {i, i - 1}, h >= 1,
           h = i => chain[i].key # k, h # i => chain[h].key = k,
           NEW w \in Seq(X), NEW g, Thinned(chain, k, i + 1, w, g)
    PROVE  /\ <<chain[i]>> \o w \in Seq(X)
           /\ \E e : Thinned(chain, k, h, <<chain[i]>> \o w, e)
<1> DEFINE v == <<chain[i]>> \o w
           L == Len(chain)
           e == [m \in 1 .. Len(v) |-> IF m = 1 THEN i ELSE g[m - 1]]
<1>1. L \in Nat /\ Len(w) \in Nat /\ chain[i] \in X
  BY LenProperties, ElementOfSeq
<1>2. v \in Seq(X) /\ Len(v) = Len(w) + 1 /\ v[1] = chain[i]
      /\ \A m \in 2 .. Len(v) : v[m] = w[m - 1]
  <2>1. <<chain[i]>> \in Seq(X) /\ Len(<<chain[i]>>) = 1 /\ <<chain[i]>>[1] = chain[i]
    BY <1>1
  <2>2. v \in Seq(X) /\ Len(v) = 1 + Len(w)
        /\ \A m \in 1 .. 1 + Len(w) : v[m] = IF m <= 1 THEN <<chain[i]>>[m] ELSE w[m - 1]
    BY <2>1, ConcatProperties
  <2>3. QED
    BY <1>1, <2>1, <2>2
<1>3. g \in [1 .. Len(w) -> i + 1 .. L]
      /\ (\A m, n \in 1 .. Len(w) : m < n => g[m] < g[n])
      /\ \A m \in 1 .. Len(w) : w[m] = chain[g[m]]
  BY DEF Thinned
<1>4. h \in 1 .. i /\ i \in 1 .. L
  OBVIOUS
<1> HIDE DEF v, L
<1>5. e[1] = i /\ \A m \in 2 .. Len(v) : e[m] = g[m - 1] /\ m - 1 \in 1 .. Len(w)
  BY <1>1, <1>2
<1>6. e \in [1 .. Len(v) -> h .. L]
  <2>1. ASSUME NEW m \in 1 .. Len(v)
        PROVE  e[m] \in h .. L
    <3>1. CASE m = 1
      BY <1>1, <1>4, <1>5, <3>1
    <3>2. CASE m # 1
      <4>1. m \in 2 .. Len(v)
        BY <1>1, <1>2, <3>2
      <4>2. e[m] \in i + 1 .. L
        BY <1>3, <1>5, <4>1
      <4>3. QED
        BY <1>4, <4>2
    <3>3. QED
      BY <3>1, <3>2
  <2>2. QED
    BY <2>1
<1> HIDE DEF e
<1>7. ASSUME NEW m \in 1 .. Len(v), NEW n \in 1 .. Len(v), m < n
      PROVE  e[m] < e[n]
  <2>1. n \in 2 .. Len(v) /\ n - 1 \in 1 .. Len(w) /\ e[n] = g[n - 1]
    BY <1>1, <1>2, <1>5, <1>7
  <2>2. CASE m = 1
    <3>1. g[n - 1] \in i + 1 .. L
      BY <1>3, <2>1
    <3>2. QED
      BY <1>4, <1>5, <2>1, <2>2, <3>1
  <2>3. CASE m # 1
    <3>1. m \in 2 .. Len(v) /\ m - 1 \in 1 .. Len(w) /\ e[m] = g[m - 1] /\ m - 1 < n - 1
      BY <1>1, <1>2, <1>5, <1>7, <2>3
    <3>2. QED
      BY <1>3, <2>1, <3>1
  <2>4. QED
    BY <2>2, <2>3
<1>8. ASSUME NEW m \in 1 .. Len(v)
      PROVE  v[m] = chain[e[m]]
  <2>1. CASE m = 1
    BY <1>2, <1>5, <2>1
  <2>2. CASE m # 1
    <3>1. m \in 2 .. Len(v)
      BY <1>1, <1>2, <2>2
    <3>2. QED
      BY <1>2, <1>3, <1>5, <3>1
  <2>3. QED
    BY <2>1, <2>2
<1>9. ASSUME NEW j \in i + 1 .. L, \A m \in 1 .. Len(v) : e[m] # j
      PROVE  \A m \in 1 .. Len(w) : g[m] # j
  <2>1. ASSUME NEW m \in 1 .. Len(w)
        PROVE  g[m] # j
    <3>1. m + 1 \in 2 .. Len(v) /\ m + 1 \in 1 .. Len(v) /\ (m + 1) - 1 = m
      BY <1>1, <1>2
    <3>2. e[m + 1] = g[m]
      BY <1>5, <3>1
    <3>3. QED
      BY <1>9, <3>1, <3>2
  <2>2. QED
    BY <2>1
<1>10. 1 \in 1 .. Len(v)
  BY <1>1, <1>2
<1>11. ASSUME NEW j \in h .. L, \A m \in 1 .. Len(v) : e[m] # j
       PROVE  chain[j].key = k
  <2>1. j # i
    BY <1>5, <1>10, <1>11
  <2>2. CASE j = h
    BY <2>1, <2>2
  <2>3. CASE j # h
    <3>1. j \in i + 1 .. L
      BY <1>1, <1>4, <2>1, <2>3
    <3>2. QED
      BY <1>9, <1>11, <3>1 DEF Thinned, L
  <2>4. QED
    BY <2>2, <2>3
<1>12. ASSUME NEW j \in h .. L, \A m \in 1 .. Len(w) : g[m] # j, j # i
       PROVE  \A m \in 1 .. Len(v) : e[m] # j
  <2>1. ASSUME NEW m \in 1 .. Len(v)
        PROVE  e[m] # j
    <3>1. CASE m = 1
      BY <1>5, <1>12, <3>1
    <3>2. CASE m # 1
      <4>1. m \in 2 .. Len(v)
        BY <1>1, <1>2, <3>2
      <4>2. QED
        BY <1>5, <1>12, <4>1
    <3>3. QED
      BY <3>1, <3>2
  <2>2. QED
    BY <2>1
<1>13. ASSUME NEW j0 \in h .. L, chain[j0].key = k
       PROVE  \E j \in h .. L : \A m \in 1 .. Len(v) : e[m] # j
  <2>1. CASE h # i
    <3>1. h \in h .. L /\ h < i
      BY <1>1, <1>4, <2>1
    <3>2. \A m \in 1 .. Len(w) : g[m] # h
      <4>1. \A m \in 1 .. Len(w) : g[m] \in i + 1 .. L
        BY <1>3
      <4>2. QED
        BY <1>4, <3>1, <4>1
    <3>3. QED
      BY <1>12, <2>1, <3>1, <3>2
  <2>2. CASE h = i
    <3>1. j0 \in i + 1 .. L
      BY <1>1, <1>4, <1>13, <2>2
    <3>2. PICK j \in i + 1 .. L : \A m \in 1 .. Len(w) : g[m] # j
      BY <1>13, <3>1 DEF Thinned, L
    <3>3. j \in h .. L /\ j # i
      BY <1>4, <3>2
    <3>4. QED
      BY <1>12, <3>2, <3>3
  <2>3. QED
    BY <2>1, <2>2
<1>14. Thinned(chain, k, h, v, e)
  BY <1>6, <1>7, <1>8, <1>11, <1>13 DEF Thinned, L
<1>15. QED
  BY <1>2, <1>14 DEF v

\* Keeping nothing: there is nothing, or only an item with key k.
LEMMA ThinnedEnds ==
    ASSUME NEW X, NEW chain \in Seq(X), NEW k, NEW i \in 1 .. Len(chain) + 2,
           i <= Len(chain) => i = Len(chain) /\ chain[i].key = k
    PROVE  \E e : Thinned(chain, k, i, <<>>, e)
<1> DEFINE e == [m \in 1 .. 0 |-> m]
<1>1. Len(chain) \in Nat /\ Len(<<>>) = 0
  BY LenProperties
<1>2. e \in [1 .. Len(<<>>) -> i .. Len(chain)]
  BY <1>1
<1>3. \A j \in i .. Len(chain) : chain[j].key = k
  <2>1. ASSUME NEW j \in i .. Len(chain)
        PROVE  j = i /\ i = Len(chain)
    BY <1>1
  <2>2. QED
    BY <2>1
<1> HIDE DEF e
<1>4. 1 .. Len(<<>>) = {}
  BY <1>1
<1>5. Thinned(chain, k, i, <<>>, e)
  BY <1>2, <1>3, <1>4 DEF Thinned
<1>6. QED
  BY <1>5

\* The recursion of Walk.
LEMMA WalkDefined ==
    ASSUME NEW X, NEW chain \in Seq(X), NEW k
    PROVE  \E left :
             /\ Walk(chain, k) = left[1]
             /\ \A i \in 1 .. Len(chain) + 2 :
                  left[i] = IF i > Len(chain) THEN <<>>
                            ELSE IF chain[i].key # k THEN <<chain[i]>> \o left[i + 1]
                            ELSE IF i = Len(chain) THEN <<>>
                            ELSE <<chain[i + 1]>> \o left[i + 2]
<1> DEFINE L == Len(chain)
           step(f, i) == IF i > L THEN <<>>
                         ELSE IF chain[i].key # k THEN <<chain[i]>> \o f[i + 1]
                         ELSE IF i = L THEN <<>>
                         ELSE <<chain[i + 1]>> \o f[i + 2]
           from(n) == (L + 2 - n) .. L + 2
           solves(f, n) == f = [i \in from(n) |-> step(f, i)]
           S == {n \in Nat : n <= L + 1 => \E f : solves(f, n)}
<1>1. L \in Nat
  BY LenProperties
<1>2. 0 \in S
  <2> DEFINE f == [i \in from(0) |-> <<>>]
  <2>1. \A i \in from(0) : i > L
    BY <1>1
  <2>2. solves(f, 0)
    BY <2>1
  <2> HIDE DEF f, solves
  <2>3. QED
    BY <2>2
<1>3. ASSUME NEW n \in Nat, n \in S
      PROVE  n + 1 \in S
  <2> HIDE DEF solves
  <2> SUFFICES ASSUME n + 1 <= L + 1
               PROVE  \E f : solves(f, n + 1)
    OBVIOUS
  <2> USE DEF solves
  <2>1. PICK f : solves(f, n)
    <3> HIDE DEF solves
    <3>1. QED
      BY <1>1, <1>3
  <2> DEFINE new == L + 2 - (n + 1)
             h == [i \in from(n + 1) |-> IF i = new THEN step(f, i) ELSE f[i]]
  <2>2. new \in Int /\ from(n + 1) = from(n) \cup {new} /\ new \notin from(n)
    BY <1>1
  <2>3. \A i \in from(n) : h[i] = f[i]
    BY <2>2
  <2>4. \A i \in from(n + 1) : i <= L => i + 1 \in from(n) /\ i + 2 \in from(n)
    BY <1>1
  <2>5. h[new] = step(f, new)
    BY <2>2
  <2> HIDE DEF h
  <2>6. \A i \in from(n + 1) : step(h, i) = step(f, i)
    <3> SUFFICES ASSUME NEW i \in from(n + 1)
                 PROVE  step(h, i) = step(f, i)
      OBVIOUS
    <3>1. CASE i > L
      BY <3>1
    <3>2. CASE ~(i > L)
      <4>1. i <= L
        BY <1>1, <3>2
      <4>2. h[i + 1] = f[i + 1] /\ h[i + 2] = f[i + 2]
        BY <2>3, <2>4, <4>1
      <4>3. QED
        BY <4>2
    <3>3. QED
      BY <3>1, <3>2
  <2>7. \A i \in from(n) : f[i] = step(f, i)
    <3> HIDE DEF from, step
    <3>1. QED
      BY <2>1
  <2>8. \A i \in from(n + 1) : h[i] = step(h, i)
    <3> HIDE DEF from, step, new
    <3>1. QED
      BY <2>2, <2>3, <2>5, <2>6, <2>7
  <2>9. solves(h, n + 1)
    <3>1. h = [i \in from(n + 1) |-> h[i]]
      BY DEF h
    <3> HIDE DEF from, step
    <3>2. QED
      BY <2>8, <3>1
  <2> HIDE DEF solves
  <2>10. QED
    BY <2>9
<1>4. L + 1 \in S
  <2> HIDE DEF S, L
  <2>1. Nat \subseteq S
    BY <1>2, <1>3, SetInduction
  <2>2. QED
    BY <1>1, <2>1
<1>5. \E f : f = [i \in 1 .. L + 2 |-> step(f, i)]
  <2>1. from(L + 1) = 1 .. L + 2 /\ L + 1 \in Nat
    BY <1>1
  <2>2. PICK f : solves(f, L + 1)
    <3> HIDE DEF solves
    <3>1. QED
      BY <1>1, <1>4
  <2> HIDE DEF step, from
  <2>3. f = [i \in 1 .. L + 2 |-> step(f, i)]
    BY <2>1, <2>2
  <2>4. QED
    BY <2>3
<1> DEFINE left == CHOOSE f : f = [i \in 1 .. L + 2 |-> step(f, i)]
<1>6. left = [i \in 1 .. L + 2 |-> step(left, i)]
  BY <1>5
<1>7. Walk(chain, k) = left[1]
  BY DEF Walk
<1> HIDE DEF left
<1>8. \A i \in 1 .. L + 2 : left[i] = step(left, i)
  <2> HIDE DEF step
  <2>1. QED
    BY <1>6
<1>9. QED
  BY <1>7, <1>8

\* What the walk of hashtable_delete leaves (hashtable.c:122-131).
LEMMA WalkThins ==
    ASSUME NEW X, NEW chain \in Seq(X), NEW k
    PROVE  /\ Walk(chain, k) \in Seq(X)
           /\ \E g : Thinned(chain, k, 1, Walk(chain, k), g)
<1> DEFINE L == Len(chain)
           fits(i, w) == w \in Seq(X) /\ \E g : Thinned(chain, k, i, w, g)
<1>1. L \in Nat
  BY LenProperties
<1>2. PICK left :
        /\ Walk(chain, k) = left[1]
        /\ \A i \in 1 .. L + 2 :
             left[i] = IF i > L THEN <<>>
                       ELSE IF chain[i].key # k THEN <<chain[i]>> \o left[i + 1]
                       ELSE IF i = L THEN <<>>
                       ELSE <<chain[i + 1]>> \o left[i + 2]
  BY WalkDefined
<1>3. \A i \in 1 .. L + 2 : i > L => left[i] = <<>> /\ fits(i, left[i])
  <2>1. ASSUME NEW i \in 1 .. L + 2, i > L
        PROVE  left[i] = <<>> /\ fits(i, left[i])
    <3>1. left[i] = <<>>
      BY <1>2, <2>1
    <3>2. \E g : Thinned(chain, k, i, <<>>, g)
      <4>1. i \in 1 .. Len(chain) + 2 /\ ~(i <= Len(chain))
        BY <1>1, <2>1
      <4>2. QED
        BY <4>1, ThinnedEnds
    <3>3. QED
      BY <3>1, <3>2
  <2>2. QED
    BY <2>1
<1>4. ASSUME NEW i \in 1 .. L, fits(i + 1, left[i + 1]), fits(i + 2, left[i + 2])
      PROVE  fits(i, left[i])
  <2>0. i \in 1 .. L + 2 /\ i <= L /\ ~(i > L) /\ i \in 1 .. Len(chain)
    BY <1>1
  <2>1. CASE chain[i].key # k
    <3>1. left[i] = <<chain[i]>> \o left[i + 1]
      BY <1>2, <2>0, <2>1
    <3>2. PICK g : Thinned(chain, k, i + 1, left[i + 1], g)
      BY <1>4
    <3>3. i >= 1
      OBVIOUS
    <3> DEFINE w == left[i + 1]
    <3>4. w \in Seq(X) /\ Thinned(chain, k, i + 1, w, g)
      BY <1>4, <3>2
    <3> HIDE DEF w
    <3>5. <<chain[i]>> \o w \in Seq(X) /\ \E e : Thinned(chain, k, i, <<chain[i]>> \o w, e)
      BY <2>0, <2>1, <3>3, <3>4, ThinnedKeeps
    <3>6. QED
      BY <3>1, <3>5 DEF w
  <2>2. CASE chain[i].key = k /\ i = L
    <3>4. left[i] = <<>>
      BY <1>2, <2>0, <2>2
    <3>5. \E g : Thinned(chain, k, i, <<>>, g)
      BY <2>0, <2>2, ThinnedEnds
    <3>6. QED
      BY <3>4, <3>5
  <2>3. CASE chain[i].key = k /\ i # L
    <3>0. i + 1 \in 1 .. Len(chain) /\ i \in {i + 1, (i + 1) - 1} /\ i >= 1 /\ i # i + 1
          /\ (i + 1) + 1 = i + 2
      BY <1>1, <2>0, <2>3
    <3>1. left[i] = <<chain[i + 1]>> \o left[i + 2]
      BY <1>2, <2>0, <2>3
    <3>3. PICK g : Thinned(chain, k, i + 2, left[i + 2], g)
      BY <1>4
    <3> DEFINE w == left[i + 2]
               n == i + 1
    <3>4. w \in Seq(X) /\ Thinned(chain, k, n + 1, w, g)
      BY <1>4, <3>0, <3>3
    <3>a. n \in 1 .. Len(chain) /\ i \in {n, n - 1} /\ i >= 1 /\ i # n
      BY <3>0
    <3> HIDE DEF w, n
    <3>5. <<chain[n]>> \o w \in Seq(X) /\ \E e : Thinned(chain, k, i, <<chain[n]>> \o w, e)
      BY <2>3, <3>4, <3>a, ThinnedKeeps
    <3>6. QED
      BY <3>1, <3>5 DEF w, n
  <2>4. QED
    BY <2>1, <2>2, <2>3
<1> DEFINE S == {n \in Nat : \A i \in 1 .. L + 2 : L + 2 - i <= n => fits(i, left[i])}
<1>5. 0 \in S
  <2> HIDE DEF fits
  <2>1. ASSUME NEW i \in 1 .. L + 2, L + 2 - i <= 0
        PROVE  i > L
    BY <1>1, <2>1
  <2>2. QED
    BY <1>3, <2>1
<1>6. ASSUME NEW n \in Nat, n \in S
      PROVE  n + 1 \in S
  <2> HIDE DEF fits
  <2> SUFFICES ASSUME NEW i \in 1 .. L + 2, L + 2 - i <= n + 1
               PROVE  fits(i, left[i])
    OBVIOUS
  <2>1. CASE i > L
    BY <1>3, <2>1
  <2>2. CASE ~(i > L)
    <3>1. i \in 1 .. L /\ i + 1 \in 1 .. L + 2 /\ i + 2 \in 1 .. L + 2
          /\ L + 2 - (i + 1) <= n /\ L + 2 - (i + 2) <= n
      BY <1>1, <2>2
    <3>2. fits(i + 1, left[i + 1]) /\ fits(i + 2, left[i + 2])
      BY <1>6, <3>1
    <3>3. QED
      BY <1>4, <3>1, <3>2
  <2>3. QED
    BY <2>1, <2>2
<1>7. L + 1 \in S
  <2> HIDE DEF S, L
  <2>1. Nat \subseteq S
    BY <1>5, <1>6, SetInduction
  <2>2. QED
    BY <1>1, <2>1
<1>8. fits(1, left[1])
  <2> HIDE DEF fits
  <2>1. 1 \in 1 .. L + 2 /\ L + 2 - 1 <= L + 1
    BY <1>1
  <2>2. QED
    BY <1>7, <2>1
<1>9. QED
  BY <1>2, <1>8

------------------------------------------------------------------------------
(***************************************************************************)
(* Slots                                                                   *)
(***************************************************************************)
Item == [key : Keys, p : Pointers]
Slot == {EmptySlot} \cup [key : Keys, p : Pointers, next : Seq(Item)]
Own(slot) == [key |-> slot.key, p |-> slot.p]
WithKeyOf(k) == {x \in Item : x.key = k}

\* The items of a slot: all of its chain, none if it is empty.
Line(slot) == IF slot.p = NULL THEN <<>> ELSE Chain(slot)

LEMMA SlotIs ==
    ASSUME NEW slot \in Slot
    PROVE  \/ slot = EmptySlot /\ slot.p = NULL
           \/ /\ slot.p # NULL /\ slot.key \in Keys /\ slot.p \in Pointers
              /\ slot.next \in Seq(Item) /\ Own(slot) \in Item
              /\ slot = [key |-> slot.key, p |-> slot.p, next |-> slot.next]
<1>1. CASE slot = EmptySlot
  BY <1>1 DEF EmptySlot
<1>2. CASE slot \in [key : Keys, p : Pointers, next : Seq(Item)]
  BY <1>2, HashtableAssumption DEF Item, Own
<1>3. QED
  BY <1>1, <1>2 DEF Slot

LEMMA LineIs ==
    ASSUME NEW slot \in Slot
    PROVE  /\ Line(slot) \in Seq(Item)
           /\ slot.p = NULL => Line(slot) = <<>>
           /\ slot.p # NULL => Line(slot) = <<Own(slot)>> \o slot.next
           /\ DOMAIN Line(slot) = {n \in DOMAIN Chain(slot) : Chain(slot)[n].p # NULL}
           /\ \A n \in DOMAIN Line(slot) : Line(slot)[n] = Chain(slot)[n]
<1>1. CASE slot.p = NULL
  <2>1. slot = EmptySlot /\ Line(slot) = <<>>
    BY <1>1, SlotIs DEF Line
  <2>2. Chain(slot) = <<[key |-> 0, p |-> NULL]>> \o <<>>
    BY <2>1 DEF Chain, EmptySlot
  <2>3. Chain(slot) = <<[key |-> 0, p |-> NULL]>>
    <3>1. <<[key |-> 0, p |-> NULL]>> \in Seq({[key |-> 0, p |-> NULL]})
      OBVIOUS
    <3>2. QED
      BY <2>2, <3>1, ConcatEmptySeq
  <2>4. DOMAIN Chain(slot) = {1} /\ Chain(slot)[1].p = NULL
    BY <2>3
  <2>5. DOMAIN Line(slot) = {} /\ <<>> \in Seq(Item)
    BY <2>1
  <2>6. QED
    BY <1>1, <2>1, <2>4, <2>5
<1>2. CASE slot.p # NULL
  <2>1. Line(slot) = Chain(slot) /\ Chain(slot) = <<Own(slot)>> \o slot.next
    BY <1>2 DEF Line, Chain, Own
  <2>2. Line(slot) \in Seq(Item)
    <3>1. <<Own(slot)>> \in Seq(Item) /\ slot.next \in Seq(Item)
      BY <1>2, SlotIs
    <3>2. QED
      BY <2>1, <3>1, ConcatProperties
  <2>3. \A n \in DOMAIN Line(slot) : Line(slot)[n] \in Item
    BY <2>2, LenProperties, ElementOfSeq
  <2>4. \A x \in Item : x.p # NULL
    BY HashtableAssumption DEF Item
  <2>5. QED
    BY <1>2, <2>1, <2>2, <2>3, <2>4
<1>3. QED
  BY <1>1, <1>2

LEMMA OccursIn ==
    ASSUME NEW x \in Item, NEW S
    PROVE  /\ <<x>> \in Seq(Item)
           /\ Occurrences(<<x>>, S) = IF x \in S THEN 1 ELSE 0
<1>1. <<>> \in Seq(Item) /\ Append(<<>>, x) = <<x>>
  OBVIOUS
<1>2. Occurrences(<<>>, S) = 0
  BY NoneInEmpty
<1>3. Occurrences(Append(<<>>, x), S) = 0 + (IF x \in S THEN 1 ELSE 0)
  BY <1>1, <1>2, OccurrencesAppend
<1>4. QED
  BY <1>1, <1>3

\* hashtable_insert's slot (hashtable.c:68-86).
Inserted(slot, key, p) ==
    IF slot.p = NULL THEN [slot EXCEPT !.key = key, !.p = p]
    ELSE [slot EXCEPT !.next = <<[key |-> key, p |-> p]>> \o @]

LEMMA InsertedCounts ==
    ASSUME NEW slot \in Slot, NEW key \in Keys, NEW p \in Pointers
    PROVE  /\ Inserted(slot, key, p) \in Slot
           /\ \A S : Occurrences(Line(Inserted(slot, key, p)), S)
                       = Occurrences(Line(slot), S)
                         + (IF [key |-> key, p |-> p] \in S THEN 1 ELSE 0)
<1> DEFINE x == [key |-> key, p |-> p]
           new == Inserted(slot, key, p)
<1>1. x \in Item /\ <<x>> \in Seq(Item) /\ p # NULL /\ <<>> \in Seq(Item)
  BY HashtableAssumption DEF Item
<1>2. CASE slot.p = NULL
  <2>1. slot = EmptySlot /\ Line(slot) = <<>>
    BY <1>2, SlotIs, LineIs
  <2>2. new = [key |-> key, p |-> p, next |-> <<>>]
    <3>1. new = [slot EXCEPT !.key = key, !.p = p]
      BY <1>2 DEF Inserted
    <3>2. slot = [key |-> 0, p |-> NULL, next |-> <<>>]
      BY <2>1 DEF EmptySlot
    <3> HIDE DEF new
    <3>3. QED
      BY <3>1, <3>2
  <2>3. new \in Slot /\ new.p # NULL /\ new.next = <<>> /\ Own(new) = x
    BY <1>1, <2>2 DEF Slot, Own
  <2> HIDE DEF new, x
  <2>4. Line(new) = <<x>> \o <<>>
    BY <2>3, LineIs
  <2>5. Line(new) = <<x>>
    BY <1>1, <2>4, ConcatEmptySeq
  <2>6. ASSUME NEW S
        PROVE  Occurrences(Line(new), S) = Occurrences(Line(slot), S) + (IF x \in S THEN 1 ELSE 0)
    <3>1. Occurrences(Line(slot), S) = 0
      BY <2>1, NoneInEmpty
    <3>2. QED
      BY <1>1, <2>5, <3>1, OccursIn
  <2>7. QED
    BY <2>3, <2>6 DEF new, x
<1>3. CASE slot.p # NULL
  <2>0. /\ slot.key \in Keys /\ slot.p \in Pointers /\ slot.next \in Seq(Item)
        /\ Own(slot) \in Item
        /\ slot = [key |-> slot.key, p |-> slot.p, next |-> slot.next]
    BY <1>3, SlotIs
  <2>1. new = [key |-> slot.key, p |-> slot.p, next |-> <<x>> \o slot.next]
    BY <1>3, <2>0 DEF Inserted
  <2>2. <<x>> \o slot.next \in Seq(Item)
    BY <1>1, <2>0, ConcatProperties
  <2>3. new \in Slot /\ new.p # NULL /\ new.next = <<x>> \o slot.next /\ Own(new) = Own(slot)
    BY <1>3, <2>0, <2>1, <2>2 DEF Slot, Own
  <2> HIDE DEF new, x
  <2>4. Line(new) = <<Own(slot)>> \o (<<x>> \o slot.next)
        /\ Line(slot) = <<Own(slot)>> \o slot.next
    BY <1>3, <2>3, LineIs
  <2>5. ASSUME NEW S
        PROVE  Occurrences(Line(new), S) = Occurrences(Line(slot), S) + (IF x \in S THEN 1 ELSE 0)
    <3> DEFINE own == <<Own(slot)>>
               rest == slot.next
               longer == <<x>> \o rest
    <3>1. own \in Seq(Item) /\ rest \in Seq(Item) /\ longer \in Seq(Item)
          /\ Line(new) = own \o longer /\ Line(slot) = own \o rest
      BY <2>0, <2>2, <2>4
    <3>3. Occurrences(longer, S) = Occurrences(<<x>>, S) + Occurrences(rest, S)
      BY <1>1, <2>0, OccurrencesConcat
    <3> HIDE DEF own, rest, longer
    <3>2. Occurrences(Line(new), S) = Occurrences(own, S) + Occurrences(longer, S)
      BY <3>1, OccurrencesConcat
    <3>4. Occurrences(Line(slot), S) = Occurrences(own, S) + Occurrences(rest, S)
      BY <3>1, OccurrencesConcat
    <3>5. Occurrences(<<x>>, S) = IF x \in S THEN 1 ELSE 0
      BY <1>1, OccursIn
    <3>6. Occurrences(own, S) \in Int /\ Occurrences(rest, S) \in Int
      BY <3>1, PlacesFinite
    <3>7. QED
      BY <3>2, <3>3, <3>4, <3>5, <3>6
  <2>6. QED
    BY <2>3, <2>5 DEF new, x
<1>4. QED
  BY <1>2, <1>3

\* s is t without some items with key k, at least one if there was one.
Thins(s, t, k, g) ==
    /\ Embeds(s, t, g)
    /\ \A j \in Dropped(s, t, g) : t[j].key = k
    /\ (\E j \in 1 .. Len(t) : t[j].key = k) => Dropped(s, t, g) # {}

LEMMA ThinsTail ==
    ASSUME NEW x \in Item, NEW s \in Seq(Item), NEW k, x.key = k
    PROVE  \E g : Thins(s, <<x>> \o s, k, g)
<1> DEFINE t == <<x>> \o s
           g == [i \in 1 .. Len(s) |-> i + 1]
<1>1. Len(s) \in Nat /\ <<x>> \in Seq(Item) /\ Len(<<x>>) = 1 /\ <<x>>[1] = x
  BY LenProperties
<1>2. /\ Len(t) = Len(s) + 1
      /\ \A i \in 1 .. Len(s) + 1 : t[i] = IF i <= 1 THEN <<x>>[i] ELSE s[i - 1]
  BY <1>1, ConcatProperties
<1> HIDE DEF t
<1>3. t[1] = x /\ \A i \in 1 .. Len(s) : t[i + 1] = s[i]
  <2>1. t[1] = x
    BY <1>1, <1>2
  <2>2. ASSUME NEW i \in 1 .. Len(s)
        PROVE  t[i + 1] = s[i]
    <3>1. i + 1 \in 1 .. Len(s) + 1 /\ ~(i + 1 <= 1) /\ (i + 1) - 1 = i
      BY <1>1
    <3>2. QED
      BY <1>2, <3>1
  <2>3. QED
    BY <2>1, <2>2
<1>4. Embeds(s, t, g)
  <2>1. g \in [1 .. Len(s) -> 1 .. Len(t)]
    BY <1>1, <1>2
  <2>2. \A i \in 1 .. Len(s) : g[i] = i + 1
    OBVIOUS
  <2> HIDE DEF g
  <2>3. \A i, j \in 1 .. Len(s) : i < j => g[i] < g[j]
    BY <1>1, <2>2
  <2>4. QED
    BY <1>3, <2>1, <2>2, <2>3 DEF Embeds
<1>5. Dropped(s, t, g) = {1}
  <2>1. 1 \in Dropped(s, t, g)
    BY <1>1, <1>2 DEF Dropped
  <2>2. ASSUME NEW j \in Dropped(s, t, g), j # 1
        PROVE  FALSE
    <3>1. j \in 1 .. Len(t)
      BY DEF Dropped
    <3>2. j - 1 \in 1 .. Len(s) /\ (j - 1) + 1 = j
      BY <1>1, <1>2, <2>2, <3>1
    <3>3. g[j - 1] = j
      BY <3>2
    <3>4. QED
      BY <3>2, <3>3 DEF Dropped
  <2>3. QED
    BY <2>1, <2>2
<1> HIDE DEF g
<1>6. Thins(s, t, k, g)
  BY <1>3, <1>4, <1>5 DEF Thins
<1>7. QED
  BY <1>6 DEF t

LEMMA ThinsBehind ==
    ASSUME NEW x \in Item, NEW s \in Seq(Item), NEW w \in Seq(Item), NEW k, x.key # k,
           NEW h, Thinned(s, k, 1, w, h)
    PROVE  \E g : Thins(<<x>> \o w, <<x>> \o s, k, g)
<1> DEFINE t == <<x>> \o s
           v == <<x>> \o w
           g == [i \in 1 .. Len(w) + 1 |-> IF i = 1 THEN 1 ELSE h[i - 1] + 1]
<1>1. Len(s) \in Nat /\ Len(w) \in Nat /\ <<x>> \in Seq(Item) /\ Len(<<x>>) = 1
      /\ <<x>>[1] = x
  BY LenProperties
<1>2. /\ Len(t) = Len(s) + 1
      /\ \A i \in 1 .. Len(s) + 1 : t[i] = IF i <= 1 THEN <<x>>[i] ELSE s[i - 1]
  BY <1>1, ConcatProperties
<1>3. /\ Len(v) = Len(w) + 1
      /\ \A i \in 1 .. Len(w) + 1 : v[i] = IF i <= 1 THEN <<x>>[i] ELSE w[i - 1]
  BY <1>1, ConcatProperties
<1> HIDE DEF t, v
<1>4. t[1] = x /\ v[1] = x
      /\ (\A i \in 1 .. Len(s) : i + 1 \in 1 .. Len(t) /\ t[i + 1] = s[i])
      /\ (\A i \in 2 .. Len(v) : i - 1 \in 1 .. Len(w) /\ v[i] = w[i - 1])
  <2>1. t[1] = x /\ v[1] = x
    BY <1>1, <1>2, <1>3
  <2>2. ASSUME NEW i \in 1 .. Len(s)
        PROVE  i + 1 \in 1 .. Len(t) /\ t[i + 1] = s[i]
    <3>1. i + 1 \in 1 .. Len(s) + 1 /\ ~(i + 1 <= 1) /\ (i + 1) - 1 = i
      BY <1>1
    <3>2. QED
      BY <1>2, <3>1
  <2>3. ASSUME NEW i \in 2 .. Len(v)
        PROVE  i - 1 \in 1 .. Len(w) /\ v[i] = w[i - 1]
    <3>1. i \in 1 .. Len(w) + 1 /\ ~(i <= 1) /\ i - 1 \in 1 .. Len(w)
      BY <1>1, <1>3
    <3>2. QED
      BY <1>3, <3>1
  <2>4. QED
    BY <2>1, <2>2, <2>3
<1>5. /\ h \in [1 .. Len(w) -> 1 .. Len(s)]
      /\ \A m, n \in 1 .. Len(w) : m < n => h[m] < h[n]
      /\ \A m \in 1 .. Len(w) : w[m] = s[h[m]]
      /\ \A j \in 1 .. Len(s) : (\A m \in 1 .. Len(w) : h[m] # j) => s[j].key = k
      /\ (\E j \in 1 .. Len(s) : s[j].key = k) =>
            \E j \in 1 .. Len(s) : \A m \in 1 .. Len(w) : h[m] # j
  BY DEF Thinned
<1>6. g[1] = 1 /\ \A i \in 2 .. Len(v) : g[i] = h[i - 1] + 1
  BY <1>1, <1>3
<1>7. g \in [1 .. Len(v) -> 1 .. Len(t)]
  <2>1. ASSUME NEW i \in 1 .. Len(w) + 1
        PROVE  (IF i = 1 THEN 1 ELSE h[i - 1] + 1) \in 1 .. Len(t)
    <3>1. CASE i = 1
      BY <1>1, <1>2, <3>1
    <3>2. CASE i # 1
      <4>1. i - 1 \in 1 .. Len(w)
        BY <1>1, <3>2
      <4>2. h[i - 1] \in 1 .. Len(s)
        BY <1>5, <4>1
      <4>3. h[i - 1] + 1 \in 1 .. Len(t)
        BY <1>1, <1>2, <4>2
      <4>4. QED
        BY <3>2, <4>3
    <3>3. QED
      BY <3>1, <3>2
  <2>2. QED
    BY <1>3, <2>1
<1> HIDE DEF g
<1>8. \A i \in 1 .. Len(v) : i = 1 \/ i \in 2 .. Len(v)
  BY <1>1, <1>3
<1>9. ASSUME NEW m \in 1 .. Len(v), NEW n \in 1 .. Len(v), m < n
      PROVE  g[m] < g[n]
  <2>1. n \in 2 .. Len(v) /\ n - 1 \in 1 .. Len(w) /\ g[n] = h[n - 1] + 1
    BY <1>1, <1>3, <1>6, <1>9
  <2>2. CASE m = 1
    <3>1. h[n - 1] \in 1 .. Len(s)
      BY <1>5, <2>1
    <3>2. QED
      BY <1>6, <2>1, <2>2, <3>1
  <2>3. CASE m # 1
    <3>1. m \in 2 .. Len(v) /\ m - 1 \in 1 .. Len(w) /\ g[m] = h[m - 1] + 1 /\ m - 1 < n - 1
      BY <1>1, <1>3, <1>6, <1>9, <2>3
    <3>2. h[m - 1] < h[n - 1]
      BY <1>5, <2>1, <3>1
    <3>3. h[m - 1] \in 1 .. Len(s) /\ h[n - 1] \in 1 .. Len(s)
      BY <1>5, <2>1, <3>1
    <3>4. QED
      BY <2>1, <3>1, <3>2, <3>3
  <2>4. QED
    BY <2>2, <2>3
<1>10. ASSUME NEW m \in 1 .. Len(v)
       PROVE  v[m] = t[g[m]]
  <2>1. CASE m = 1
    BY <1>4, <1>6, <2>1
  <2>2. CASE m # 1
    <3>1. m \in 2 .. Len(v)
      BY <1>8, <2>2
    <3>2. m - 1 \in 1 .. Len(w) /\ v[m] = w[m - 1] /\ g[m] = h[m - 1] + 1
      BY <1>4, <1>6, <3>1
    <3>3. w[m - 1] = s[h[m - 1]] /\ h[m - 1] \in 1 .. Len(s)
      BY <1>5, <3>2
    <3>4. QED
      BY <1>4, <3>2, <3>3
  <2>3. QED
    BY <2>1, <2>2
<1>11. ASSUME NEW j \in 1 .. Len(s)
       PROVE  (\A m \in 1 .. Len(w) : h[m] # j) <=> j + 1 \in Dropped(v, t, g)
  <2>1. ASSUME \A m \in 1 .. Len(w) : h[m] # j, NEW i \in 1 .. Len(v)
        PROVE  g[i] # j + 1
    <3>1. CASE i = 1
      BY <1>1, <1>6, <3>1
    <3>2. CASE i # 1
      <4>1. i \in 2 .. Len(v) /\ i - 1 \in 1 .. Len(w) /\ g[i] = h[i - 1] + 1
        BY <1>4, <1>6, <1>8, <3>2
      <4>2. h[i - 1] # j /\ h[i - 1] \in 1 .. Len(s)
        BY <1>5, <2>1, <4>1
      <4>3. QED
        BY <4>1, <4>2
    <3>3. QED
      BY <3>1, <3>2
  <2>2. ASSUME j + 1 \in Dropped(v, t, g), NEW m \in 1 .. Len(w)
        PROVE  h[m] # j
    <3>1. m + 1 \in 2 .. Len(v) /\ m + 1 \in 1 .. Len(v) /\ (m + 1) - 1 = m
      BY <1>1, <1>3
    <3>2. g[m + 1] = h[m] + 1
      BY <1>6, <3>1
    <3>3. g[m + 1] # j + 1
      BY <2>2, <3>1 DEF Dropped
    <3>4. QED
      BY <3>2, <3>3
  <2>3. j + 1 \in 1 .. Len(t)
    BY <1>4
  <2>4. QED
    BY <2>1, <2>2, <2>3 DEF Dropped
<1>12. ASSUME NEW j \in Dropped(v, t, g)
       PROVE  j - 1 \in 1 .. Len(s) /\ (j - 1) + 1 = j
  <2>1. j \in 1 .. Len(t)
    BY DEF Dropped
  <2>2. 1 \in 1 .. Len(v)
    BY <1>1, <1>3
  <2>3. j # 1
    BY <1>6, <2>2 DEF Dropped
  <2>4. QED
    BY <1>1, <1>2, <2>1, <2>3
<1>13. \A j \in Dropped(v, t, g) : t[j].key = k
  <2>1. ASSUME NEW j \in Dropped(v, t, g)
        PROVE  t[j].key = k
    <3>1. s[j - 1].key = k
      BY <1>5, <1>11, <1>12
    <3>2. QED
      BY <1>4, <1>12, <3>1
  <2>2. QED
    BY <2>1
<1>14. ASSUME NEW j \in 1 .. Len(t), t[j].key = k
       PROVE  Dropped(v, t, g) # {}
  <2>1. j # 1
    BY <1>4, <1>14
  <2>2. j - 1 \in 1 .. Len(s) /\ (j - 1) + 1 = j
    BY <1>1, <1>2, <2>1
  <2>3. s[j - 1].key = k
    BY <1>4, <1>14, <2>2
  <2>4. PICK i \in 1 .. Len(s) : \A m \in 1 .. Len(w) : h[m] # i
    BY <1>5, <2>2, <2>3
  <2>5. QED
    BY <1>11, <2>4
<1>15. Embeds(v, t, g)
  BY <1>7, <1>9, <1>10 DEF Embeds
<1>16. Thins(v, t, k, g)
  BY <1>13, <1>14, <1>15 DEF Thins
<1>17. QED
  BY <1>16 DEF t, v

\* The slot hashtable_delete leaves when it returns (hashtable.c:107-133).
Deleted(slot, key) ==
    IF slot.p = NULL THEN slot
    ELSE IF slot.key # key THEN [slot EXCEPT !.next = Walk(@, key)]
    ELSE IF slot.next = <<>> THEN EmptySlot
    ELSE [key |-> Head(slot.next).key, p |-> Head(slot.next).p, next |-> Tail(slot.next)]

LEMMA DeletedThins ==
    ASSUME NEW slot \in Slot, NEW k \in Keys
    PROVE  /\ Deleted(slot, k) \in Slot
           /\ \E g : Thins(Line(Deleted(slot, k)), Line(slot), k, g)
<1> DEFINE new == Deleted(slot, k)
<1>1. CASE slot.p = NULL
  <2>1. new = slot /\ Line(slot) = <<>>
    BY <1>1, LineIs DEF Deleted
  <2> DEFINE g == [i \in 1 .. 0 |-> i]
  <2>2. Len(<<>>) = 0 /\ 1 .. 0 = {}
    OBVIOUS
  <2>3. g \in [1 .. 0 -> 1 .. 0]
    OBVIOUS
  <2> HIDE DEF g
  <2>4. Thins(<<>>, <<>>, k, g)
    BY <2>2, <2>3 DEF Thins, Embeds, Dropped
  <2>5. QED
    BY <2>1, <2>4
<1>2. CASE slot.p # NULL /\ slot.key # k
  <2>1. /\ slot.key \in Keys /\ slot.p \in Pointers /\ slot.next \in Seq(Item)
        /\ Own(slot) \in Item
        /\ slot = [key |-> slot.key, p |-> slot.p, next |-> slot.next]
    BY <1>2, SlotIs
  <2> DEFINE w == Walk(slot.next, k)
  <2>2. new = [key |-> slot.key, p |-> slot.p, next |-> w]
    BY <1>2, <2>1 DEF Deleted
  <2>3. w \in Seq(Item) /\ \E h : Thinned(slot.next, k, 1, w, h)
    BY <2>1, WalkThins
  <2> HIDE DEF w
  <2>4. new \in Slot /\ new.p # NULL /\ new.next = w /\ Own(new) = Own(slot)
    BY <1>2, <2>1, <2>2, <2>3 DEF Slot, Own
  <2> HIDE DEF new
  <2>5. Line(new) = <<Own(slot)>> \o w /\ Line(slot) = <<Own(slot)>> \o slot.next
    BY <1>2, <2>4, LineIs
  <2>6. Own(slot).key # k
    BY <1>2 DEF Own
  <2>7. \E g : Thins(<<Own(slot)>> \o w, <<Own(slot)>> \o slot.next, k, g)
    BY <2>1, <2>3, <2>6, ThinsBehind
  <2>8. QED
    BY <2>4, <2>5, <2>7 DEF new
<1>3. CASE slot.p # NULL /\ slot.key = k
  <2>1. slot.next \in Seq(Item) /\ Own(slot) \in Item /\ Own(slot).key = k
    BY <1>3, SlotIs DEF Own
  <2>2. Line(slot) = <<Own(slot)>> \o slot.next
    BY <1>3, LineIs
  <2>3. new \in Slot /\ Line(new) = slot.next
    <3>1. CASE slot.next = <<>>
      <4>1. new = EmptySlot
        BY <1>3, <3>1 DEF Deleted
      <4>2. EmptySlot \in Slot /\ EmptySlot.p = NULL
        BY DEF Slot, EmptySlot
      <4>3. QED
        BY <3>1, <4>1, <4>2, LineIs
    <3>2. CASE slot.next # <<>>
      <4> DEFINE first == Head(slot.next)
                 rest == Tail(slot.next)
      <4>1. new = [key |-> first.key, p |-> first.p, next |-> rest]
        BY <1>3, <3>2 DEF Deleted
      <4>2. first \in Item /\ rest \in Seq(Item) /\ Len(rest) = Len(slot.next) - 1
            /\ \A i \in 1 .. Len(rest) : rest[i] = slot.next[i + 1]
        BY <2>1, <3>2, HeadTailProperties
      <4>3. first = slot.next[1] /\ Len(slot.next) \in Nat \ {0}
        BY <2>1, <3>2, EmptySeq
      <4> HIDE DEF first, rest
      <4>4. new \in Slot /\ new.p # NULL /\ new.next = rest
            /\ Own(new) = [key |-> first.key, p |-> first.p]
        BY <4>1, <4>2, HashtableAssumption DEF Slot, Item, Own
      <4>5. Own(new) = first
        BY <4>2, <4>4 DEF Item
      <4> HIDE DEF new
      <4>6. Line(new) = <<first>> \o rest
        BY <4>4, <4>5, LineIs
      <4>7. <<first>> \in Seq(Item) /\ Len(<<first>>) = 1 /\ <<first>>[1] = first
        BY <4>2
      <4>8. /\ <<first>> \o rest \in Seq(Item) /\ Len(<<first>> \o rest) = 1 + Len(rest)
            /\ \A i \in 1 .. 1 + Len(rest) :
                 (<<first>> \o rest)[i] = IF i <= 1 THEN <<first>>[i] ELSE rest[i - 1]
        BY <4>2, <4>7, ConcatProperties
      <4>9. ASSUME NEW i \in 1 .. Len(slot.next)
            PROVE  (<<first>> \o rest)[i] = slot.next[i]
        <5>0. i \in 1 .. 1 + Len(rest)
          BY <4>2, <4>3
        <5>1. CASE i = 1
          BY <4>3, <4>7, <4>8, <5>0, <5>1
        <5>2. CASE i # 1
          <6>1. ~(i <= 1) /\ i - 1 \in 1 .. Len(rest) /\ (i - 1) + 1 = i
            BY <4>2, <4>3, <5>2
          <6>2. QED
            BY <4>2, <4>8, <5>0, <6>1
        <5>3. QED
          BY <5>1, <5>2
      <4>10. <<first>> \o rest = slot.next
        <5> DEFINE a == <<first>> \o rest
                   b == slot.next
        <5>1. a \in Seq(Item) /\ b \in Seq(Item) /\ Len(a) = Len(b)
              /\ \A i \in 1 .. Len(b) : a[i] = b[i]
          BY <2>1, <4>2, <4>3, <4>8, <4>9
        <5> HIDE DEF a, b
        <5>2. a = b
          BY <5>1, SeqEqual
        <5>3. QED
          BY <5>2 DEF a, b
      <4>11. QED
        BY <4>4, <4>6, <4>10 DEF new
    <3>3. QED
      BY <3>1, <3>2
  <2> HIDE DEF new
  <2>4. \E g : Thins(slot.next, <<Own(slot)>> \o slot.next, k, g)
    BY <2>1, ThinsTail
  <2>5. QED
    BY <2>2, <2>3, <2>4 DEF new
<1>4. QED
  BY <1>1, <1>2, <1>3

LEMMA ThinsCounts ==
    ASSUME NEW s \in Seq(Item), NEW t \in Seq(Item), NEW k, NEW g, Thins(s, t, k, g)
    PROVE  /\ \A S : Occurrences(s, S) <= Occurrences(t, S)
           /\ \A S : (\A x \in S : x.key # k) => Occurrences(s, S) = Occurrences(t, S)
           /\ \A j \in DOMAIN t : t[j].key = k =>
                \E x \in Item : x.key = k /\ Occurrences(s, {x}) < Occurrences(t, {x})
           /\ \A j \in DOMAIN t : t[j].key = k =>
                Occurrences(s, WithKeyOf(k)) < Occurrences(t, WithKeyOf(k))
<1> DEFINE lost(S) == {j \in Dropped(s, t, g) : t[j] \in S}
<1>1. \A S : /\ IsFiniteSet(lost(S)) /\ Cardinality(lost(S)) \in Nat
             /\ Occurrences(t, S) = Occurrences(s, S) + Cardinality(lost(S))
             /\ Occurrences(s, S) \in Int
  <2>1. ASSUME NEW S
        PROVE  /\ IsFiniteSet(lost(S)) /\ Cardinality(lost(S)) \in Nat
               /\ Occurrences(t, S) = Occurrences(s, S) + Cardinality(lost(S))
               /\ Occurrences(s, S) \in Int
    <3>1. Embeds(s, t, g)
      BY DEF Thins
    <3>2. Occurrences(s, S) \in Int
      BY PlacesFinite
    <3>3. QED
      BY <3>1, <3>2, CountEmbedded
  <2>2. QED
    BY <2>1
<1>2. \A S : lost(S) = {} <=> Cardinality(lost(S)) = 0
  <2> HIDE DEF lost
  <2>1. QED
    BY <1>1, FS_EmptySet
<1>3. \A S : Occurrences(s, S) <= Occurrences(t, S)
  <2> HIDE DEF lost
  <2>1. QED
    BY <1>1
<1>4. ASSUME NEW S, lost(S) = {}
      PROVE  Occurrences(s, S) = Occurrences(t, S)
  <2> HIDE DEF lost
  <2>1. QED
    BY <1>1, <1>2, <1>4
<1>5. ASSUME NEW S, lost(S) # {}
      PROVE  Occurrences(s, S) < Occurrences(t, S)
  <2> HIDE DEF lost
  <2>1. QED
    BY <1>1, <1>2, <1>5
<1>6. ASSUME NEW S, \A x \in S : x.key # k
      PROVE  lost(S) = {}
  BY <1>6 DEF Thins
<1>7. ASSUME NEW j \in DOMAIN t, t[j].key = k
      PROVE  \E d \in Dropped(s, t, g) : t[d] \in Item /\ t[d].key = k
  <2>1. j \in 1 .. Len(t)
    BY LenProperties
  <2>2. PICK d \in Dropped(s, t, g) : TRUE
    BY <1>7, <2>1 DEF Thins
  <2>3. t[d].key = k /\ d \in 1 .. Len(t)
    BY DEF Thins, Dropped
  <2>4. QED
    BY <2>3, ElementOfSeq
<1>8. ASSUME NEW j \in DOMAIN t, t[j].key = k
      PROVE  /\ \E x \in Item : x.key = k /\ lost({x}) # {}
             /\ lost(WithKeyOf(k)) # {}
  BY <1>7, <1>8 DEF WithKeyOf
<1> HIDE DEF lost
<1>9. QED
  BY <1>3, <1>4, <1>5, <1>6, <1>8

\* The items of a line with key k, each with its rank.
Ranked(line, k) ==
    LET met == {n \in DOMAIN line : line[n].key = k}
    IN {<<Cardinality({m \in met : m <= n}), line[n]>> : n \in met}

LEMMA ThinsRanks ==
    ASSUME NEW s \in Seq(Item), NEW t \in Seq(Item), NEW k, NEW g, Thins(s, t, k, g),
           NEW other, other # k
    PROVE  Ranked(s, other) = Ranked(t, other)
<1> DEFINE P == {n \in DOMAIN s : s[n].key = other}
           Q == {n \in DOMAIN t : t[n].key = other}
           upto(M, n) == {m \in M : m <= n}
<1>1. DOMAIN s = 1 .. Len(s) /\ DOMAIN t = 1 .. Len(t) /\ Len(s) \in Nat /\ Len(t) \in Nat
  BY LenProperties
<1>2. Embeds(s, t, g) /\ \A j \in Dropped(s, t, g) : t[j].key = k
  BY DEF Thins
<1>3. \A n \in P : g[n] \in Q /\ s[n] = t[g[n]]
  BY <1>1, <1>2 DEF Embeds
<1>4. \A q \in Q : \E n \in P : g[n] = q
  <2>1. ASSUME NEW q \in Q
        PROVE  \E n \in P : g[n] = q
    <3>1. q \notin Dropped(s, t, g) /\ q \in 1 .. Len(t)
      BY <1>1, <1>2
    <3>2. PICK n \in 1 .. Len(s) : g[n] = q
      BY <3>1 DEF Dropped
    <3>3. s[n] = t[q]
      BY <1>2, <3>2 DEF Embeds
    <3>4. QED
      BY <1>1, <3>2, <3>3
  <2>2. QED
    BY <2>1
<1>5. \A m, n \in P : (g[m] = g[n] <=> m = n) /\ (g[m] < g[n] <=> m < n)
                      /\ g[m] \in Int /\ g[n] \in Int
  BY <1>1, <1>2, EmbedsOnce
<1>6. P \subseteq Int /\ Q \subseteq Int
  BY <1>1
<1>7. ASSUME NEW n \in P
      PROVE  Cardinality(upto(P, n)) = Cardinality(upto(Q, g[n]))
  <2> DEFINE A == upto(P, n)
             B == upto(Q, g[n])
             f == [m \in A |-> g[m]]
  <2>1. \A m \in A : m \in P /\ m <= n
    OBVIOUS
  <2>2. \A m \in A : g[m] \in B
    <3>1. ASSUME NEW m \in A
          PROVE  g[m] \in Q /\ g[m] <= g[n]
      <4>1. m \in Int /\ n \in Int /\ (m < n \/ m = n)
        BY <1>6, <2>1
      <4>2. (g[m] < g[n] \/ g[m] = g[n]) /\ g[m] \in Int /\ g[n] \in Int
        BY <1>5, <2>1, <4>1
      <4>3. QED
        BY <1>3, <2>1, <4>2
    <3>2. QED
      BY <3>1
  <2>3. \A q \in B : \E m \in A : g[m] = q
    <3>1. ASSUME NEW q \in B
          PROVE  \E m \in A : g[m] = q
      <4>1. PICK m \in P : g[m] = q
        BY <1>4
      <4>2. g[m] <= g[n] /\ g[m] \in Int /\ g[n] \in Int
        BY <1>5, <4>1
      <4>3. g[m] < g[n] \/ g[m] = g[n]
        BY <4>2
      <4>4. m < n \/ m = n
        BY <1>5, <4>3
      <4>5. m <= n
        BY <1>6, <4>4
      <4>6. QED
        BY <4>1, <4>5
    <3>2. QED
      BY <3>1
  <2>4. \A m, o \in A : g[m] = g[o] => m = o
    BY <1>5, <2>1
  <2>5. IsFiniteSet(A)
    <3>1. A \subseteq 1 .. Len(s) /\ IsFiniteSet(1 .. Len(s))
      BY <1>1, FS_Interval
    <3> HIDE DEF A
    <3>2. QED
      BY <3>1, FS_Subset
  <2> HIDE DEF A, B
  <2>6. f \in [A -> B] /\ (\A m \in A : f[m] = g[m])
    BY <2>2
  <2> HIDE DEF f
  <2>7. f \in Bijection(A, B)
    BY <2>3, <2>4, <2>6, Fun_IsBij
  <2>8. Cardinality(B) = Cardinality(A)
    BY <2>5, <2>7, FS_Bijection DEF ExistsBijection
  <2>9. QED
    BY <2>8 DEF A, B
<1>8. Ranked(s, other) = {<<Cardinality(upto(P, n)), s[n]>> : n \in P}
      /\ Ranked(t, other) = {<<Cardinality(upto(Q, n)), t[n]>> : n \in Q}
  BY DEF Ranked
<1> HIDE DEF P, Q, upto
<1>9. {<<Cardinality(upto(P, n)), s[n]>> : n \in P} = {<<Cardinality(upto(Q, n)), t[n]>> : n \in Q}
  <2>1. ASSUME NEW n \in P
        PROVE  \E q \in Q : <<Cardinality(upto(P, n)), s[n]>> = <<Cardinality(upto(Q, q)), t[q]>>
    BY <1>3, <1>7
  <2>2. ASSUME NEW q \in Q
        PROVE  \E n \in P : <<Cardinality(upto(P, n)), s[n]>> = <<Cardinality(upto(Q, q)), t[q]>>
    <3>1. PICK n \in P : g[n] = q
      BY <1>4
    <3>2. QED
      BY <1>3, <1>7, <3>1
  <2>3. QED
    BY <2>1, <2>2
<1>10. QED
  BY <1>8, <1>9

------------------------------------------------------------------------------
(***************************************************************************)
(* Tables                                                                  *)
(***************************************************************************)
\* Items a search for their key would not look for in slot h.
Strays(n, h) == {x \in Item : Hash(n, x.key) # h}

Good(table, n) ==
    /\ n \in Nat \ {0}
    /\ table \in [0 .. n - 1 -> Slot]
    /\ \A h \in 0 .. n - 1 : Occurrences(Line(table[h]), Strays(n, h)) = 0

LEMMA AtHome ==
    ASSUME NEW table, NEW n, Good(table, n), NEW h \in 0 .. n - 1,
           NEW j \in DOMAIN Line(table[h])
    PROVE  Line(table[h])[j] \in Item /\ Hash(n, Line(table[h])[j].key) = h
<1>1. Line(table[h]) \in Seq(Item) /\ Occurrences(Line(table[h]), Strays(n, h)) = 0
  BY LineIs DEF Good
<1> DEFINE line == Line(table[h])
<1> HIDE DEF line
<1>2. j \in DOMAIN line /\ line \in Seq(Item) /\ Occurrences(line, Strays(n, h)) = 0
  BY <1>1 DEF line
<1>3. line[j] \in Item
  BY <1>2, LenProperties, ElementOfSeq
<1>4. line[j] \notin Strays(n, h)
  BY <1>2, OccurrencesPositive
<1>5. QED
  BY <1>3, <1>4 DEF Strays, line

LEMMA GoodAfter ==
    ASSUME NEW table, NEW n, Good(table, n), NEW h \in 0 .. n - 1, NEW slot \in Slot,
           Occurrences(Line(slot), Strays(n, h)) = 0
    PROVE  Good([table EXCEPT ![h] = slot], n)
<1> DEFINE after == [table EXCEPT ![h] = slot]
<1>1. after \in [0 .. n - 1 -> Slot]
  BY DEF Good
<1>2. \A i \in 0 .. n - 1 : after[i] = IF i = h THEN slot ELSE table[i]
  BY DEF Good
<1> HIDE DEF after
<1>3. Good(after, n)
  BY <1>1, <1>2 DEF Good
<1>4. QED
  BY <1>3 DEF after

At(table, s) == Chain(table[s[1]])[s[2]]

\* Stored of a table.
StoredIn(table) ==
    UNION {{<<i, j>> : j \in {n \in DOMAIN Chain(table[i]) : Chain(table[i])[n].p # NULL}}
           : i \in DOMAIN table}

LEMMA StoredInLines ==
    ASSUME NEW table, NEW n, Good(table, n)
    PROVE  /\ \A s \in StoredIn(table) :
                \E h \in 0 .. n - 1 : \E j \in DOMAIN Line(table[h]) :
                    s = <<h, j>> /\ At(table, s) = Line(table[h])[j]
           /\ \A h \in 0 .. n - 1 : \A j \in DOMAIN Line(table[h]) :
                <<h, j>> \in StoredIn(table) /\ At(table, <<h, j>>) = Line(table[h])[j]
<1> DEFINE places(i) == {m \in DOMAIN Chain(table[i]) : Chain(table[i])[m].p # NULL}
<1>1. DOMAIN table = 0 .. n - 1 /\ \A h \in 0 .. n - 1 : table[h] \in Slot
  BY DEF Good
<1>2. \A h \in 0 .. n - 1 : /\ DOMAIN Line(table[h]) = places(h)
                            /\ \A j \in places(h) : Line(table[h])[j] = Chain(table[h])[j]
  BY <1>1, LineIs
<1>3. StoredIn(table) = UNION {{<<i, j>> : j \in places(i)} : i \in DOMAIN table}
  BY DEF StoredIn
<1> HIDE DEF places
<1>4. \A i, j : At(table, <<i, j>>) = Chain(table[i])[j]
  BY DEF At
<1>5. QED
  BY <1>1, <1>2, <1>3, <1>4

LEMMA StoredHere ==
    ASSUME NEW table, NEW n, Good(table, n), NEW h \in 0 .. n - 1, NEW S,
           \A x \in S : x \in Item /\ Hash(n, x.key) = h
    PROVE  LET there == {s \in StoredIn(table) : At(table, s) \in S}
           IN /\ IsFiniteSet(there)
              /\ Cardinality(there) = Occurrences(Line(table[h]), S)
<1> DEFINE there == {s \in StoredIn(table) : At(table, s) \in S}
           line == Line(table[h])
           P == Places(line, S)
           f == [j \in P |-> <<h, j>>]
<1>1. line \in Seq(Item)
  BY LineIs DEF Good
<1>2. IsFiniteSet(P)
  <2> HIDE DEF line
  <2>1. QED
    BY <1>1, PlacesFinite
<1>3. \A j \in P : j \in DOMAIN line /\ line[j] \in S
  BY DEF Places
<1>4. \A j \in P : <<h, j>> \in there
  <2>1. ASSUME NEW j \in P
        PROVE  <<h, j>> \in StoredIn(table) /\ At(table, <<h, j>>) = line[j]
    <3>1. j \in DOMAIN Line(table[h])
      BY <1>3
    <3>2. QED
      BY <3>1, StoredInLines
  <2> HIDE DEF line, P
  <2>2. QED
    BY <1>3, <2>1
<1>5. \A s \in there : \E j \in P : s = <<h, j>>
  <2>1. ASSUME NEW s \in there
        PROVE  \E j \in P : s = <<h, j>>
    <3>1. s \in StoredIn(table) /\ At(table, s) \in S
      OBVIOUS
    <3>0. PICK i \in 0 .. n - 1 : \E j \in DOMAIN Line(table[i]) :
                s = <<i, j>> /\ At(table, s) = Line(table[i])[j]
      BY <3>1, StoredInLines
    <3>2. PICK j \in DOMAIN Line(table[i]) :
                s = <<i, j>> /\ At(table, s) = Line(table[i])[j]
      BY <3>0
    <3>3. Hash(n, Line(table[i])[j].key) = i
      BY AtHome
    <3>4. i = h
      BY <3>1, <3>2, <3>3
    <3>5. j \in P
      BY <3>1, <3>2, <3>4 DEF Places
    <3>6. QED
      BY <3>2, <3>4, <3>5
  <2>2. QED
    BY <2>1
<1> HIDE DEF there, P, line
<1>6. f \in Bijection(P, there)
  <2>1. f \in [P -> there]
    BY <1>4
  <2>2. \A i, j \in P : f[i] = f[j] => i = j
    OBVIOUS
  <2>3. \A s \in there : \E j \in P : f[j] = s
    BY <1>5
  <2> HIDE DEF f
  <2>4. QED
    BY <2>1, <2>2, <2>3, Fun_IsBij
<1>7. IsFiniteSet(there) /\ Cardinality(there) = Cardinality(P)
  <2> HIDE DEF f
  <2>1. QED
    BY <1>2, <1>6, FS_Bijection DEF ExistsBijection
<1>8. QED
  BY <1>7 DEF there, P, line, Occurrences

------------------------------------------------------------------------------
(***************************************************************************)
(* The bag of a table                                                      *)
(***************************************************************************)
\* ItemBag of a table.
BagOf(table) == [item \in {At(table, s) : s \in StoredIn(table)} |->
                    Cardinality({s \in StoredIn(table) : At(table, s) = item})]

\* How often an item is in the only slot it can be in.
Times(table, n, x) == Occurrences(Line(table[Hash(n, x.key)]), {x})

LEMMA BagIs ==
    ASSUME NEW table, NEW n, Good(table, n)
    PROVE  /\ BagOf(table) = [x \in {y \in Item : Times(table, n, y) # 0} |-> Times(table, n, x)]
           /\ \A x \in Item : Times(table, n, x) \in Nat /\ Hash(n, x.key) \in 0 .. n - 1
<1> DEFINE D == {At(table, s) : s \in StoredIn(table)}
           E == {y \in Item : Times(table, n, y) # 0}
<1>1. ASSUME NEW x \in Item
      PROVE  /\ Hash(n, x.key) \in 0 .. n - 1
             /\ Times(table, n, x) \in Nat
             /\ Times(table, n, x) = Cardinality({s \in StoredIn(table) : At(table, s) = x})
             /\ Times(table, n, x) # 0 <=> \E s \in StoredIn(table) : At(table, s) = x
  <2> DEFINE h == Hash(n, x.key)
             there == {s \in StoredIn(table) : At(table, s) \in {x}}
  <2>1. h \in 0 .. n - 1
    BY HashInRange, HashtableAssumption DEF Good, Item
  <2> HIDE DEF h
  <2>2. \A y \in {x} : y \in Item /\ Hash(n, y.key) = h
    BY DEF h
  <2>3. IsFiniteSet(there) /\ Cardinality(there) = Occurrences(Line(table[h]), {x})
    BY <2>1, <2>2, StoredHere
  <2>4. there = {s \in StoredIn(table) : At(table, s) = x}
    OBVIOUS
  <2> HIDE DEF there
  <2>5. Cardinality(there) \in Nat /\ (Cardinality(there) = 0 <=> there = {})
    BY <2>3, FS_CardinalityType, FS_EmptySet
  <2>6. Times(table, n, x) = Cardinality(there)
    BY <2>3 DEF Times, h
  <2>7. QED
    BY <2>1, <2>4, <2>5, <2>6 DEF h
<1>2. \A s \in StoredIn(table) : At(table, s) \in Item
  <2>1. ASSUME NEW s \in StoredIn(table)
        PROVE  At(table, s) \in Item
    <3>1. PICK h \in 0 .. n - 1 : \E j \in DOMAIN Line(table[h]) :
                s = <<h, j>> /\ At(table, s) = Line(table[h])[j]
      BY StoredInLines
    <3>2. QED
      BY <3>1, AtHome
  <2>2. QED
    BY <2>1
<1>3. D = E
  BY <1>1, <1>2
<1>4. \A x \in D : Cardinality({s \in StoredIn(table) : At(table, s) = x}) = Times(table, n, x)
  BY <1>1, <1>3
<1>5. BagOf(table) = [x \in D |-> Cardinality({s \in StoredIn(table) : At(table, s) = x})]
  BY DEF BagOf
<1> HIDE DEF D, E
<1>6. BagOf(table) = [x \in E |-> Times(table, n, x)]
  BY <1>3, <1>4, <1>5
<1>7. QED
  BY <1>1, <1>6 DEF E

LEMMA TimesAfter ==
    ASSUME NEW table, NEW n, Good(table, n), NEW h \in 0 .. n - 1, NEW slot, NEW x \in Item
    PROVE  Times([table EXCEPT ![h] = slot], n, x)
             = IF Hash(n, x.key) = h THEN Occurrences(Line(slot), {x}) ELSE Times(table, n, x)
<1>1. Hash(n, x.key) \in 0 .. n - 1
  BY BagIs
<1>2. DOMAIN table = 0 .. n - 1
  BY DEF Good
<1>3. QED
  BY <1>1, <1>2 DEF Times

\* The bag with one more x.
LEMMA BagAfterInsert ==
    ASSUME NEW table, NEW n, Good(table, n), NEW key \in Keys, NEW p \in Pointers
    PROVE  LET h == Hash(n, key)
               after == [table EXCEPT ![h] = Inserted(table[h], key, p)]
               x == [key |-> key, p |-> p]
           IN /\ Good(after, n)
              /\ \A y \in Item : Times(after, n, y) = Times(table, n, y) + (IF y = x THEN 1 ELSE 0)
<1> DEFINE h == Hash(n, key)
           slot == Inserted(table[h], key, p)
           after == [table EXCEPT ![h] = slot]
           x == [key |-> key, p |-> p]
<1>1. h \in 0 .. n - 1 /\ table[h] \in Slot /\ x \in Item
  BY HashInRange, HashtableAssumption DEF Good, Item
<1>2. /\ slot \in Slot
      /\ \A S : Occurrences(Line(slot), S)
                  = Occurrences(Line(table[h]), S) + (IF x \in S THEN 1 ELSE 0)
  BY <1>1, InsertedCounts
<1>3. x \notin Strays(n, h)
  BY DEF Strays
<1> HIDE DEF x, slot
<1>4. Occurrences(Line(slot), Strays(n, h)) = 0
  BY <1>1, <1>2, <1>3 DEF Good
<1>5. Good(after, n)
  BY <1>1, <1>2, <1>4, GoodAfter
<1>6. ASSUME NEW y \in Item
      PROVE  Times(after, n, y) = Times(table, n, y) + (IF y = x THEN 1 ELSE 0)
  <2>1. Times(after, n, y)
          = IF Hash(n, y.key) = h THEN Occurrences(Line(slot), {y}) ELSE Times(table, n, y)
    <3> HIDE DEF h
    <3>1. QED
      BY <1>1, TimesAfter
  <2>2. Times(table, n, y) \in Nat
    BY BagIs
  <2>3. y = x => Hash(n, y.key) = h
    BY DEF x, h
  <2>4. Occurrences(Line(slot), {y})
          = Occurrences(Line(table[h]), {y}) + (IF x \in {y} THEN 1 ELSE 0)
    BY <1>2
  <2>5. CASE Hash(n, y.key) = h
    <3>1. Times(table, n, y) = Occurrences(Line(table[h]), {y})
      BY <2>5 DEF Times
    <3> HIDE DEF h, after
    <3>2. QED
      BY <2>1, <2>4, <2>5, <3>1
  <2>6. CASE Hash(n, y.key) # h
    <3> HIDE DEF h, after
    <3>1. QED
      BY <2>1, <2>2, <2>3, <2>6
  <2>7. QED
    BY <2>5, <2>6
<1>7. QED
  BY <1>5, <1>6 DEF x, slot

\* The bag without some items with key k.
LEMMA BagAfterDelete ==
    ASSUME NEW table, NEW n, Good(table, n), NEW k \in Keys
    PROVE  LET h == Hash(n, k)
               after == [table EXCEPT ![h] = Deleted(table[h], k)]
           IN /\ Good(after, n)
              /\ \A y \in Item : /\ Times(after, n, y) <= Times(table, n, y)
                                 /\ y.key # k => Times(after, n, y) = Times(table, n, y)
              /\ (\E y \in Item : y.key = k /\ Times(table, n, y) # 0) =>
                   \E x \in Item : Times(after, n, x) < Times(table, n, x)
<1> DEFINE h == Hash(n, k)
           slot == Deleted(table[h], k)
           after == [table EXCEPT ![h] = slot]
<1>1. h \in 0 .. n - 1 /\ table[h] \in Slot
  BY HashInRange, HashtableAssumption DEF Good
<1>2. slot \in Slot /\ \E g : Thins(Line(slot), Line(table[h]), k, g)
  BY <1>1, DeletedThins
<1> HIDE DEF slot
<1>3. Line(slot) \in Seq(Item) /\ Line(table[h]) \in Seq(Item)
  BY <1>1, <1>2, LineIs
<1>4. /\ \A S : Occurrences(Line(slot), S) <= Occurrences(Line(table[h]), S)
      /\ \A S : (\A x \in S : x.key # k) =>
                    Occurrences(Line(slot), S) = Occurrences(Line(table[h]), S)
      /\ \A j \in DOMAIN Line(table[h]) : Line(table[h])[j].key = k =>
            \E x \in Item : x.key = k
                            /\ Occurrences(Line(slot), {x}) < Occurrences(Line(table[h]), {x})
  <2> DEFINE s == Line(slot)
             t == Line(table[h])
  <2>1. PICK g : Thins(s, t, k, g)
    BY <1>2
  <2>2. s \in Seq(Item) /\ t \in Seq(Item)
    BY <1>3
  <2> HIDE DEF s, t
  <2>3. \A S : Occurrences(s, S) <= Occurrences(t, S)
    BY <2>1, <2>2, ThinsCounts
  <2>4. \A S : (\A x \in S : x.key # k) => Occurrences(s, S) = Occurrences(t, S)
    BY <2>1, <2>2, ThinsCounts
  <2>5. \A j \in DOMAIN t : t[j].key = k =>
             \E x \in Item : x.key = k /\ Occurrences(s, {x}) < Occurrences(t, {x})
    BY <2>1, <2>2, ThinsCounts
  <2>6. QED
    BY <2>3, <2>4, <2>5 DEF s, t
<1>5. Good(after, n)
  <2>1. Occurrences(Line(slot), Strays(n, h)) <= Occurrences(Line(table[h]), Strays(n, h))
    BY <1>4
  <2>2. Occurrences(Line(slot), Strays(n, h)) \in Nat
    BY <1>3, PlacesFinite
  <2>3. Occurrences(Line(table[h]), Strays(n, h)) = 0
    BY <1>1 DEF Good
  <2>4. Occurrences(Line(slot), Strays(n, h)) = 0
    BY <2>1, <2>2, <2>3
  <2>5. QED
    BY <1>1, <1>2, <2>4, GoodAfter
<1>6. \A y \in Item : /\ Times(after, n, y)
                           = IF Hash(n, y.key) = h THEN Occurrences(Line(slot), {y})
                             ELSE Times(table, n, y)
                      /\ Times(table, n, y) \in Nat
                      /\ Hash(n, y.key) = h =>
                            Times(table, n, y) = Occurrences(Line(table[h]), {y})
  <2>1. ASSUME NEW y \in Item
        PROVE  Times(after, n, y) = IF Hash(n, y.key) = h THEN Occurrences(Line(slot), {y})
                                    ELSE Times(table, n, y)
    <3> HIDE DEF h
    <3>1. QED
      BY <1>1, TimesAfter
  <2>2. \A y \in Item : Times(table, n, y) \in Nat
    BY BagIs
  <2>3. \A y : Hash(n, y.key) = h => Times(table, n, y) = Occurrences(Line(table[h]), {y})
    BY DEF Times
  <2> HIDE DEF after, h
  <2>4. QED
    BY <2>1, <2>2, <2>3
<1> HIDE DEF after
<1>7. ASSUME NEW y \in Item
      PROVE  /\ Times(after, n, y) <= Times(table, n, y)
             /\ y.key # k => Times(after, n, y) = Times(table, n, y)
  <2>1. CASE Hash(n, y.key) = h
    <3>1. Times(after, n, y) = Occurrences(Line(slot), {y})
          /\ Times(table, n, y) = Occurrences(Line(table[h]), {y})
      BY <1>6, <2>1
    <3>2. QED
      BY <1>4, <3>1
  <2>2. CASE Hash(n, y.key) # h
    <3>1. Times(after, n, y) = Times(table, n, y) /\ Times(table, n, y) \in Nat
      BY <1>6, <2>2
    <3>2. QED
      BY <3>1
  <2>3. QED
    BY <2>1, <2>2
<1>8. ASSUME NEW y \in Item, y.key = k, Times(table, n, y) # 0
      PROVE  \E x \in Item : Times(after, n, x) < Times(table, n, x)
  <2>1. Occurrences(Line(table[h]), {y}) # 0
    BY <1>6, <1>8
  <2>2. PICK j \in DOMAIN Line(table[h]) : Line(table[h])[j] \in {y}
    BY <1>3, <2>1, OccurrencesPositive
  <2>3. PICK x \in Item : /\ x.key = k
                          /\ Occurrences(Line(slot), {x}) < Occurrences(Line(table[h]), {x})
    BY <1>4, <1>8, <2>2
  <2>4. Hash(n, x.key) = h
    BY <2>3
  <2>5. QED
    BY <1>6, <2>3, <2>4
<1>9. QED
  BY <1>5, <1>7, <1>8 DEF after, slot

------------------------------------------------------------------------------
(***************************************************************************)
(* The steps                                                               *)
(***************************************************************************)
TableInv ==
    /\ state = "live" => Good(T, size)
    /\ state # "live" => T = <<>>

LEMMA CreateStep ==
    ASSUME NEW request \in Requests, hashtable_create(request)
    PROVE  Good(T', size') /\ StoredIn(T') = {} /\ state = "none" /\ state' = "live"
           /\ Returned("create", 0, NULL)
<1>1. /\ size' = BookedSize(request) /\ BookedSize(request) # 0
      /\ T' = [i \in 0 .. size' - 1 |-> EmptySlot]
      /\ state = "none" /\ state' = "live" /\ Returned("create", 0, NULL)
  BY DEF hashtable_create
<1>2. size' \in Nat \ {0}
  <2> DEFINE wanted == (request * 3) \div 2
             fit == {i \in DOMAIN Primes : wanted <= Primes[i]}
  <2>1. Primes \in Seq(Nat \ {0}) /\ Primes # <<>>
    BY HashtableAssumption
  <2>2. DOMAIN Primes = 1 .. Len(Primes) /\ Len(Primes) \in Nat \ {0}
        /\ \A i \in DOMAIN Primes : Primes[i] \in Nat \ {0}
    BY <2>1, LenProperties, EmptySeq, ElementOfSeq
  <2>3. wanted \in Nat
    BY HashtableAssumption
  <2> HIDE DEF wanted
  <2>4. /\ ~(wanted > Primes[Len(Primes)])
        /\ size' = Primes[Min(fit)]
    BY <1>1 DEF BookedSize, Last, wanted
  <2>5. Len(Primes) \in fit
    BY <2>2, <2>3, <2>4
  <2>6. fit \in SUBSET Nat /\ fit # {}
    BY <2>2, <2>5
  <2>7. \E m \in fit : \A j \in fit : m <= j
    <3> HIDE DEF fit
    <3>1. QED
      BY <2>6, LeastNat
  <2>8. Min(fit) \in fit
    BY <2>7 DEF Min
  <2>9. QED
    BY <2>2, <2>4, <2>8
<1>3. EmptySlot \in Slot /\ EmptySlot.p = NULL
  BY DEF Slot, EmptySlot
<1> DEFINE table == T'
           n == size'
<1>4. table \in [0 .. n - 1 -> Slot] /\ \A h \in 0 .. n - 1 : table[h] = EmptySlot
  BY <1>1, <1>3
<1> HIDE DEF table, n
<1>5. \A h \in 0 .. n - 1 : Line(table[h]) = <<>>
  BY <1>3, <1>4, LineIs
<1>6. Good(table, n)
  BY <1>2, <1>4, <1>5, NoneInEmpty DEF Good, n
<1>7. StoredIn(table) = {}
  <2>1. ASSUME NEW s \in StoredIn(table)
        PROVE  FALSE
    <3>1. PICK h \in 0 .. n - 1 : \E j \in DOMAIN Line(table[h]) :
                s = <<h, j>> /\ At(table, s) = Line(table[h])[j]
      BY <1>6, StoredInLines
    <3>2. QED
      BY <1>5, <3>1
  <2>2. QED
    BY <2>1
<1>8. QED
  BY <1>1, <1>6, <1>7 DEF table, n

LEMMA SlotOfKey ==
    ASSUME NEW table, NEW n, Good(table, n), NEW key \in Keys
    PROVE  /\ Hash(n, key) \in 0 .. n - 1 /\ Hash(n, key) \in DOMAIN table
           /\ table[Hash(n, key)] \in Slot
BY HashInRange, HashtableAssumption DEF Good

LEMMA InsertStep ==
    ASSUME TableInv, NEW key \in Keys, NEW p \in Pointers, hashtable_insert(key, p)
    PROVE  /\ state = "live" /\ Good(T, size) /\ UNCHANGED <<state, size>>
           /\ \/ /\ T' = [T EXCEPT ![Hash(size, key)] = Inserted(T[Hash(size, key)], key, p)]
                 /\ Returned("insert", key, p)
              \/ T' = T /\ Returned("insert", key, NULL)
<1> DEFINE h == Hash(size, key)
<1>1. state = "live" /\ Good(T, size) /\ UNCHANGED <<state, size>>
  BY DEF hashtable_insert, TableInv
<1>2. h \in DOMAIN T /\ T[h] \in Slot
  BY <1>1, SlotOfKey
<1>3. calc_hash(key) = h
  BY HashIs
<1> HIDE DEF h
<1>4. CASE /\ T[h].p = NULL
           /\ T' = [T EXCEPT ![h].key = key, ![h].p = p]
           /\ Returned("insert", key, p)
  <2>1. T' = [T EXCEPT ![h] = [T[h] EXCEPT !.key = key, !.p = p]]
    BY <1>2, <1>4
  <2>2. Inserted(T[h], key, p) = [T[h] EXCEPT !.key = key, !.p = p]
    BY <1>4 DEF Inserted
  <2>3. QED
    BY <1>1, <1>4, <2>1, <2>2 DEF h
<1>5. CASE /\ T[h].p # NULL
           /\ T' = [T EXCEPT ![h].next = <<[key |-> key, p |-> p]>> \o @]
           /\ Returned("insert", key, p)
  <2>1. Inserted(T[h], key, p)
          = [T[h] EXCEPT !.next = <<[key |-> key, p |-> p]>> \o T[h].next]
    BY <1>5 DEF Inserted
  <2>2. T' = [T EXCEPT ![h] = [T[h] EXCEPT !.next = <<[key |-> key, p |-> p]>> \o T[h].next]]
    BY <1>5
  <2>3. QED
    BY <1>1, <1>5, <2>1, <2>2 DEF h
<1>6. CASE T' = T /\ Returned("insert", key, NULL)
  BY <1>1, <1>6 DEF h
<1>7. QED
  <2>1. \/ /\ T[h].p = NULL
           /\ T' = [T EXCEPT ![h].key = key, ![h].p = p]
           /\ Returned("insert", key, p)
        \/ /\ T[h].p # NULL
           /\ T' = [T EXCEPT ![h].next = <<[key |-> key, p |-> p]>> \o @]
           /\ Returned("insert", key, p)
        \/ T' = T /\ Returned("insert", key, NULL)
    BY <1>3 DEF hashtable_insert
  <2>2. QED
    BY <1>4, <1>5, <1>6, <2>1

LEMMA DeleteStep ==
    ASSUME TableInv, NEW key \in Keys, hashtable_delete(key)
    PROVE  /\ state = "live" /\ Good(T, size) /\ size' = size
           /\ \/ state' = "crashed" /\ T' = <<>> /\ Returned("end", 0, NULL)
              \/ /\ state' = "live"
                 /\ T' = [T EXCEPT ![Hash(size, key)] = Deleted(T[Hash(size, key)], key)]
                 /\ Returned("delete", key, NULL)
<1> DEFINE h == Hash(size, key)
           emptied == IF T[h].next = <<>> THEN EmptySlot
                      ELSE [key |-> Head(T[h].next).key, p |-> Head(T[h].next).p,
                            next |-> Tail(T[h].next)]
<1>1. state = "live" /\ Good(T, size) /\ size' = size
  BY DEF hashtable_delete, TableInv
<1>2. h \in DOMAIN T /\ T[h] \in Slot /\ T \in [0 .. size - 1 -> Slot]
  BY <1>1, SlotOfKey DEF Good
<1>3. calc_hash(key) = h
  BY HashIs
<1> HIDE DEF h
<1>4. IF state' = "crashed" THEN Returned("end", 0, NULL) ELSE Returned("delete", key, NULL)
  BY DEF hashtable_delete
<1>5. \/ T[h].p = NULL /\ UNCHANGED <<state, T>>
      \/ /\ T[h].p # NULL /\ T[h].key = key
         /\ T' = [T EXCEPT ![h] = emptied] /\ UNCHANGED state
      \/ /\ T[h].p # NULL /\ T[h].key # key
         /\ \/ state' = "crashed" /\ T' = <<>>
            \/ T' = [T EXCEPT ![h].next = Walk(@, key)] /\ UNCHANGED state
  BY <1>3 DEF hashtable_delete
<1>6. CASE T[h].p = NULL /\ UNCHANGED <<state, T>>
  <2>1. Deleted(T[h], key) = T[h]
    BY <1>6 DEF Deleted
  <2>2. T' = [T EXCEPT ![h] = Deleted(T[h], key)]
    BY <1>2, <1>6, <2>1
  <2>3. QED
    BY <1>1, <1>4, <1>6, <2>2 DEF h
<1>7. CASE /\ T[h].p # NULL /\ T[h].key = key
           /\ T' = [T EXCEPT ![h] = emptied] /\ UNCHANGED state
  <2>1. Deleted(T[h], key) = emptied
    BY <1>7 DEF Deleted
  <2>2. QED
    BY <1>1, <1>4, <1>7, <2>1 DEF h
<1>8. CASE T[h].p # NULL /\ T[h].key # key /\ state' = "crashed" /\ T' = <<>>
  BY <1>1, <1>4, <1>8
<1>9. CASE /\ T[h].p # NULL /\ T[h].key # key
           /\ T' = [T EXCEPT ![h].next = Walk(@, key)] /\ UNCHANGED state
  <2>1. Deleted(T[h], key) = [T[h] EXCEPT !.next = Walk(T[h].next, key)]
    BY <1>9 DEF Deleted
  <2>2. T' = [T EXCEPT ![h] = [T[h] EXCEPT !.next = Walk(T[h].next, key)]]
    BY <1>9
  <2>3. QED
    BY <1>1, <1>4, <1>9, <2>1, <2>2 DEF h
<1>10. QED
  BY <1>5, <1>6, <1>7, <1>8, <1>9

LEMMA TableStep ==
    ASSUME TableInv, [Next]_vars
    PROVE  TableInv'
<1>1. CASE UNCHANGED vars
  BY <1>1 DEF vars, TableInv, Good
<1>2. ASSUME NEW request \in Requests, hashtable_create(request)
      PROVE  TableInv'
  BY <1>2, CreateStep DEF TableInv
<1>3. CASE hashtable_free
  BY <1>3 DEF hashtable_free, TableInv
<1>4. ASSUME NEW key \in Keys, NEW p \in Pointers, hashtable_insert(key, p)
      PROVE  TableInv'
  <2>1. Good(T, size) /\ size' = size /\ state' = "live"
    BY <1>4, InsertStep
  <2>2. Good(T', size)
    BY <1>4, <2>1, InsertStep, BagAfterInsert
  <2>3. QED
    BY <2>1, <2>2 DEF TableInv
<1>5. ASSUME NEW key \in Keys, hashtable_search(key)
      PROVE  TableInv'
  BY <1>5 DEF hashtable_search, TableInv
<1>6. ASSUME NEW key \in Keys, hashtable_delete(key)
      PROVE  TableInv'
  <2>1. Good(T, size) /\ size' = size
    BY <1>6, DeleteStep
  <2>2. CASE state' = "crashed" /\ T' = <<>>
    BY <2>2 DEF TableInv
  <2>3. CASE /\ state' = "live"
             /\ T' = [T EXCEPT ![Hash(size, key)] = Deleted(T[Hash(size, key)], key)]
    <3>1. Good(T', size)
      BY <2>1, <2>3, BagAfterDelete
    <3>2. QED
      BY <2>1, <2>3, <3>1 DEF TableInv
  <2>4. QED
    BY <1>6, <2>2, <2>3, DeleteStep
<1>7. QED
  BY <1>1, <1>2, <1>3, <1>4, <1>5, <1>6 DEF Next

LEMMA TableInvariant == Spec => []TableInv
<1>1. Init => TableInv
  BY DEF Init, TableInv
<1>2. QED
  BY <1>1, TableStep, PTL DEF Spec

LEMMA ReachableInTable == TableInv => ItemsReachable
<1> SUFFICES ASSUME TableInv, NEW i \in DOMAIN T
             PROVE  /\ \A n \in DOMAIN Chain(T[i]) :
                         Chain(T[i])[n].p # NULL => calc_hash(Chain(T[i])[n].key) = i
                    /\ T[i].p = NULL => T[i].next = <<>>
  BY DEF ItemsReachable
<1>1. Good(T, size)
  BY DEF TableInv
<1>2. i \in 0 .. size - 1 /\ T[i] \in Slot
  BY <1>1 DEF Good
<1>3. ASSUME NEW n \in DOMAIN Chain(T[i]), Chain(T[i])[n].p # NULL
      PROVE  calc_hash(Chain(T[i])[n].key) = i
  <2>1. n \in DOMAIN Line(T[i]) /\ Line(T[i])[n] = Chain(T[i])[n]
    BY <1>2, <1>3, LineIs
  <2>2. Hash(size, Line(T[i])[n].key) = i
    BY <1>1, <1>2, <2>1, AtHome
  <2>3. QED
    BY <2>1, <2>2, HashIs
<1>4. T[i].p = NULL => T[i].next = <<>>
  BY <1>2, SlotIs DEF EmptySlot
<1>5. QED
  BY <1>3, <1>4

\* Every item is where a search for its key looks, whatever was inserted and deleted,
\* and an empty slot has nothing behind it (hashtable.c:69-85, 107-133).
THEOREM Reachable == Spec => []ItemsReachable
BY TableInvariant, ReachableInTable, PTL

------------------------------------------------------------------------------
(***************************************************************************)
(* The multimap                                                            *)
(***************************************************************************)
\* The bag with F[x] of every item x.
Counted(F) == [x \in {y \in Item : F[y] # 0} |-> F[x]]
TimesIn(table, n) == [y \in Item |-> Times(table, n, y)]

LEMMA BagCounted ==
    ASSUME NEW table, NEW n, Good(table, n)
    PROVE  BagOf(table) = Counted(TimesIn(table, n)) /\ TimesIn(table, n) \in [Item -> Nat]
<1>1. \A y \in Item : TimesIn(table, n)[y] = Times(table, n, y) /\ Times(table, n, y) \in Nat
  BY BagIs DEF TimesIn
<1>2. TimesIn(table, n) \in [Item -> Nat]
  BY <1>1 DEF TimesIn
<1>3. BagOf(table) = [x \in {y \in Item : Times(table, n, y) # 0} |-> Times(table, n, x)]
  BY BagIs
<1>4. {y \in Item : Times(table, n, y) # 0} = {y \in Item : TimesIn(table, n)[y] # 0}
  BY <1>1
<1>5. \A x \in {y \in Item : TimesIn(table, n)[y] # 0} :
          Times(table, n, x) = TimesIn(table, n)[x]
  BY <1>1
<1>6. BagOf(table) = Counted(TimesIn(table, n))
  BY <1>3, <1>4, <1>5 DEF Counted
<1>7. QED
  BY <1>2, <1>6

LEMMA BagOfNothing ==
    ASSUME NEW table, StoredIn(table) = {}
    PROVE  BagOf(table) = [e \in {} |-> 1]
<1>1. {At(table, s) : s \in StoredIn(table)} = {}
  OBVIOUS
<1>2. QED
  BY <1>1 DEF BagOf

LEMMA NothingStored == StoredIn(<<>>) = {}
<1>1. DOMAIN <<>> = {}
  OBVIOUS
<1>2. QED
  BY <1>1 DEF StoredIn

LEMMA RefinesCreate ==
    ASSUME NEW request \in Requests, hashtable_create(request)
    PROVE  MM!Next
<1>1. StoredIn(T') = {} /\ state = "none" /\ state' = "live" /\ Returned("create", 0, NULL)
  BY CreateStep
<1>2. ItemBag' = BagOf(T')
  BY DEF ItemBag, BagOf, ItemAt, At, Stored, StoredIn
<1>3. ItemBag' = MM!EmptyBag
  BY <1>1, <1>2, BagOfNothing DEF MM!EmptyBag, MM!SetToBag
<1>4. MM!Create
  BY <1>1, <1>3 DEF MM!Create, MM!Returned, Returned
<1>5. QED
  BY <1>4 DEF MM!Next

LEMMA RefinesEnd ==
    ASSUME state' # "live", T' = <<>>, Returned("end", 0, NULL)
    PROVE  MM!Next
<1>1. ItemBag' = BagOf(T')
  BY DEF ItemBag, BagOf, ItemAt, At, Stored, StoredIn
<1>2. ItemBag' = MM!EmptyBag
  BY <1>1, NothingStored, BagOfNothing DEF MM!EmptyBag, MM!SetToBag
<1>3. MM!End
  BY <1>2 DEF MM!End, MM!Returned, Returned
<1>4. QED
  BY <1>3 DEF MM!Next

LEMMA RefinesInsert ==
    ASSUME TableInv, NEW key \in Keys, NEW p \in Pointers, hashtable_insert(key, p)
    PROVE  MM!Next
<1> DEFINE x == [key |-> key, p |-> p]
           h == Hash(size, key)
           after == [T EXCEPT ![h] = Inserted(T[h], key, p)]
           F == TimesIn(T, size)
           G == TimesIn(after, size)
<1>1. state = "live" /\ Good(T, size) /\ UNCHANGED <<state, size>>
      /\ (\/ T' = after /\ Returned("insert", key, p)
          \/ T' = T /\ Returned("insert", key, NULL))
  BY InsertStep
<1>2. ItemBag = BagOf(T) /\ ItemBag' = BagOf(T')
  BY DEF ItemBag, BagOf, ItemAt, At, Stored, StoredIn
<1>3. CASE T' = T /\ Returned("insert", key, NULL)
  <2>1. MM!InsertFails(key)
    BY <1>1, <1>2, <1>3 DEF MM!InsertFails, MM!Returned, Returned
  <2>2. QED
    BY <2>1 DEF MM!Next
<1>4. CASE T' = after /\ Returned("insert", key, p)
  <2>1. Good(after, size)
        /\ \A y \in Item : Times(after, size, y) = Times(T, size, y) + (IF y = x THEN 1 ELSE 0)
    BY <1>1, BagAfterInsert
  <2>2. ItemBag = Counted(F) /\ F \in [Item -> Nat]
    BY <1>1, <1>2, BagCounted
  <2>3. ItemBag' = Counted(G) /\ G \in [Item -> Nat]
    <3> HIDE DEF after
    <3>1. QED
      BY <1>2, <1>4, <2>1, BagCounted
  <2>4. \A y \in Item : G[y] = F[y] + (IF y = x THEN 1 ELSE 0)
    BY <2>1 DEF TimesIn
  <2>5. x \in Item
    BY DEF Item
  <2> HIDE DEF F, G, x, after
  <2>6. DOMAIN ItemBag = {y \in Item : F[y] # 0} /\ DOMAIN ItemBag' = {y \in Item : G[y] # 0}
        /\ (\A y \in DOMAIN ItemBag : ItemBag[y] = F[y])
        /\ ItemBag' = [y \in {z \in Item : G[z] # 0} |-> G[y]]
    BY <2>2, <2>3 DEF Counted
  <2>7. {z \in Item : G[z] # 0} = DOMAIN ItemBag \cup {x}
    BY <2>2, <2>4, <2>5, <2>6
  <2>8. ASSUME NEW y \in {z \in Item : G[z] # 0}
        PROVE  G[y] = (IF y \in DOMAIN ItemBag THEN ItemBag[y] ELSE 0)
                      + (IF y \in {x} THEN 1 ELSE 0)
    BY <2>2, <2>4, <2>6
  <2>9. ItemBag' = [y \in DOMAIN ItemBag \cup {x} |->
                        (IF y \in DOMAIN ItemBag THEN ItemBag[y] ELSE 0)
                        + (IF y \in {x} THEN 1 ELSE 0)]
    BY <2>6, <2>7, <2>8
  <2> DEFINE one == [y \in {x} |-> 1]
  <2>10. DOMAIN one = {x} /\ \A y : y \in {x} => one[y] = 1
    OBVIOUS
  <2>a. one = MM!SetToBag({[key |-> key, p |-> p]})
    BY DEF MM!SetToBag, x
  <2> HIDE DEF one
  <2>11. ItemBag' = [y \in DOMAIN ItemBag \cup DOMAIN one |->
                        (IF y \in DOMAIN ItemBag THEN ItemBag[y] ELSE 0)
                        + (IF y \in DOMAIN one THEN one[y] ELSE 0)]
    BY <2>9, <2>10
  <2>12. ItemBag' = MM!(+)(ItemBag, one)
    BY <2>11 DEF MM!(+)
  <2>13. MM!Insert(key, p)
    BY <1>1, <1>4, <2>12, <2>a DEF MM!Insert, MM!Returned, Returned
  <2>14. QED
    BY <2>13 DEF MM!Next
<1>5. QED
  BY <1>1, <1>3, <1>4

LEMMA RefinesSearch ==
    ASSUME TableInv, NEW key \in Keys, hashtable_search(key)
    PROVE  MM!Next
<1> DEFINE h == Hash(size, key)
           line == Line(T[h])
           chain == Chain(T[h])
           found == {i \in DOMAIN chain : chain[i].key = key}
<1>1. state = "live" /\ Good(T, size) /\ UNCHANGED <<state, size, T>>
      /\ Returned("search", key, IF found = {} THEN NULL ELSE chain[Min(found)].p)
  BY HashIs DEF hashtable_search, TableInv
<1>2. ItemBag = BagOf(T) /\ ItemBag' = ItemBag
  <2>1. ItemBag = BagOf(T) /\ ItemBag' = BagOf(T')
    BY DEF ItemBag, BagOf, ItemAt, At, Stored, StoredIn
  <2>2. QED
    BY <1>1, <2>1
<1>3. h \in 0 .. size - 1 /\ T[h] \in Slot
  BY <1>1, SlotOfKey
<1>4. MM!WithKey(key) = {y \in Item : Times(T, size, y) # 0 /\ y.key = key}
  <2>1. ItemBag = [x \in {y \in Item : Times(T, size, y) # 0} |-> Times(T, size, x)]
    BY <1>1, <1>2, BagIs
  <2>2. DOMAIN ItemBag = {y \in Item : Times(T, size, y) # 0}
    BY <2>1
  <2>3. MM!WithKey(key) = {y \in DOMAIN ItemBag : y.key = key}
    BY DEF MM!WithKey, MM!BagToSet
  <2>4. QED
    BY <2>2, <2>3
<1>5. \A y \in Item : y.key = key => Times(T, size, y) = Occurrences(line, {y})
  BY DEF Times
<1>6. line \in Seq(Item)
  BY <1>3, LineIs
<1>7. DOMAIN line = {n \in DOMAIN chain : chain[n].p # NULL}
      /\ \A n \in DOMAIN line : line[n] = chain[n]
  BY <1>3, LineIs
<1> HIDE DEF line, chain, h
<1>8. CASE found # {} /\ chain[Min(found)].p # NULL
  <2>1. DOMAIN chain \subseteq Nat
    <3>1. chain = <<Own(T[h])>> \o T[h].next /\ T[h].next \in Seq(Item) \cup {<<>>}
      <4>1. chain = <<Own(T[h])>> \o T[h].next
        BY DEF chain, Chain, Own
      <4>2. T[h].next \in Seq(Item) \cup {<<>>}
        BY <1>3 DEF Slot, EmptySlot
      <4>3. QED
        BY <4>1, <4>2
    <3>2. <<Own(T[h])>> \in Seq({Own(T[h])} \cup Item) /\ T[h].next \in Seq({Own(T[h])} \cup Item)
      <4>1. CASE T[h].next = <<>>
        BY <4>1
      <4>2. CASE T[h].next \in Seq(Item)
        BY <4>2, SeqMonotonic
      <4>3. QED
        BY <3>1, <4>1, <4>2
    <3>3. chain \in Seq({Own(T[h])} \cup Item)
      BY <3>1, <3>2, ConcatProperties
    <3>4. QED
      BY <3>3, LenProperties
  <2>2. \E m \in found : \A j \in found : m <= j
    <3>1. found \in SUBSET Nat /\ found # {}
      BY <1>8, <2>1
    <3> HIDE DEF found
    <3>2. QED
      BY <3>1, LeastNat
  <2>3. Min(found) \in found
    BY <2>2 DEF Min
  <2> DEFINE m == Min(found)
  <2>4. m \in DOMAIN chain /\ chain[m].key = key
    BY <2>3
  <2> HIDE DEF m, found
  <2>5. m \in DOMAIN line /\ line[m] = chain[m]
    BY <1>7, <1>8, <2>4 DEF m
  <2>6. line[m] \in Item
    BY <1>6, <2>5, LenProperties, ElementOfSeq
  <2>7. Occurrences(line, {line[m]}) # 0
    BY <1>6, <2>5, OccurrencesPositive
  <2>8. line[m] \in MM!WithKey(key)
    BY <1>4, <1>5, <2>4, <2>5, <2>6, <2>7
  <2>9. Returned("search", key, line[m].p)
    BY <1>1, <1>8, <2>5 DEF m
  <2>10. MM!Search(key)
    BY <1>1, <1>2, <2>8, <2>9 DEF MM!Search, MM!Returned, Returned
  <2>11. QED
    BY <2>10 DEF MM!Next
<1>9. CASE found = {}
  <2>1. \A y \in Item : y.key = key => Occurrences(line, {y}) = 0
    <3>1. \A n \in DOMAIN line : line[n].key # key
      BY <1>7, <1>9
    <3>2. QED
      BY <1>6, <3>1, OccurrencesPositive
  <2>2. MM!WithKey(key) = {}
    BY <1>4, <1>5, <2>1
  <2>3. MM!Search(key)
    BY <1>1, <1>2, <1>9, <2>2 DEF MM!Search, MM!Returned, Returned
  <2>4. QED
    BY <2>3 DEF MM!Next
<1>10. CASE found # {} /\ chain[Min(found)].p = NULL
  <2>1. T[h].p = NULL
    <3> SUFFICES ASSUME T[h].p # NULL
                 PROVE  FALSE
      OBVIOUS
    <3>1. line = chain
      BY DEF line, chain, Line
    <3>2. \A n \in DOMAIN chain : chain[n].p # NULL
      BY <1>7, <3>1
    <3>3. found \in SUBSET Nat
      BY <1>6, <3>1, LenProperties
    <3>4. \E m \in found : \A j \in found : m <= j
      <4> HIDE DEF found
      <4>1. QED
        BY <1>10, <3>3, LeastNat
    <3>5. Min(found) \in found
      BY <3>4 DEF Min
    <3>6. QED
      BY <1>10, <3>2, <3>5
  <2>2. line = <<>>
    BY <1>3, <2>1, LineIs DEF line
  <2>3. MM!WithKey(key) = {}
    BY <1>4, <1>5, <2>2, NoneInEmpty
  <2>4. MM!Search(key)
    BY <1>1, <1>2, <1>10, <2>3 DEF MM!Search, MM!Returned, Returned
  <2>5. QED
    BY <2>4 DEF MM!Next
<1>11. QED
  BY <1>8, <1>9, <1>10

LEMMA RefinesDelete ==
    ASSUME TableInv, NEW key \in Keys, hashtable_delete(key)
    PROVE  MM!Next
<1> DEFINE after == [T EXCEPT ![Hash(size, key)] = Deleted(T[Hash(size, key)], key)]
           F == TimesIn(T, size)
           G == TimesIn(after, size)
<1>1. /\ state = "live" /\ Good(T, size) /\ size' = size
      /\ \/ state' = "crashed" /\ T' = <<>> /\ Returned("end", 0, NULL)
         \/ state' = "live" /\ T' = after /\ Returned("delete", key, NULL)
  BY DeleteStep
<1>2. CASE state' = "crashed" /\ T' = <<>> /\ Returned("end", 0, NULL)
  BY <1>2, RefinesEnd
<1>3. CASE state' = "live" /\ T' = after /\ Returned("delete", key, NULL)
  <2>1. ItemBag = BagOf(T) /\ ItemBag' = BagOf(T')
    BY DEF ItemBag, BagOf, ItemAt, At, Stored, StoredIn
  <2>2. /\ Good(after, size)
        /\ \A y \in Item : /\ Times(after, size, y) <= Times(T, size, y)
                           /\ y.key # key => Times(after, size, y) = Times(T, size, y)
        /\ (\E y \in Item : y.key = key /\ Times(T, size, y) # 0) =>
              \E x \in Item : Times(after, size, x) < Times(T, size, x)
    BY <1>1, BagAfterDelete
  <2>3. ItemBag = Counted(F) /\ F \in [Item -> Nat]
    BY <1>1, <2>1, BagCounted
  <2>4. ItemBag' = Counted(G) /\ G \in [Item -> Nat]
    <3> HIDE DEF after
    <3>1. QED
      BY <1>3, <2>1, <2>2, BagCounted
  <2>5. /\ \A y \in Item : G[y] <= F[y] /\ (y.key # key => G[y] = F[y])
        /\ (\E y \in Item : y.key = key /\ F[y] # 0) => \E x \in Item : G[x] < F[x]
    BY <2>2 DEF TimesIn
  <2> HIDE DEF F, G, after
  <2>6. /\ DOMAIN ItemBag = {y \in Item : F[y] # 0} /\ DOMAIN ItemBag' = {y \in Item : G[y] # 0}
        /\ (\A y \in DOMAIN ItemBag : ItemBag[y] = F[y])
        /\ (\A y \in DOMAIN ItemBag' : ItemBag'[y] = G[y])
        /\ ItemBag' = [y \in {z \in Item : G[z] # 0} |-> G[y]]
    BY <2>3, <2>4 DEF Counted
  <2>7. MM!IsABag(ItemBag')
    <3>1. \A y \in {z \in Item : G[z] # 0} : G[y] \in {n \in Nat : n > 0}
      BY <2>4
    <3>2. ItemBag' \in [DOMAIN ItemBag' -> {n \in Nat : n > 0}]
      BY <2>6, <3>1
    <3>3. QED
      BY <3>2 DEF MM!IsABag
  <2>8. MM!\sqsubseteq(ItemBag', ItemBag)
    <3>1. DOMAIN ItemBag' \subseteq DOMAIN ItemBag
      BY <2>3, <2>4, <2>5, <2>6
    <3>2. \A y \in DOMAIN ItemBag' : ItemBag'[y] <= ItemBag[y]
      BY <2>5, <2>6, <3>1
    <3>3. QED
      BY <3>1, <3>2 DEF MM!\sqsubseteq
  <2>9. \A y \in DOMAIN ItemBag : y.key # key => y \in DOMAIN ItemBag' /\ ItemBag'[y] = ItemBag[y]
    BY <2>5, <2>6
  <2>10. MM!WithKey(key) = {y \in DOMAIN ItemBag : y.key = key}
    BY DEF MM!WithKey, MM!BagToSet
  <2>11. ASSUME MM!WithKey(key) # {}
         PROVE  ItemBag' # ItemBag
    <3>1. \E y \in Item : y.key = key /\ F[y] # 0
      BY <2>6, <2>10, <2>11
    <3>2. PICK x \in Item : G[x] < F[x]
      BY <2>5, <3>1
    <3>3. x \in DOMAIN ItemBag /\ ItemBag[x] = F[x]
      BY <2>3, <2>4, <2>6, <3>2
    <3>4. CASE x \in DOMAIN ItemBag'
      <4>1. ItemBag'[x] = G[x] /\ G[x] \in Nat /\ F[x] \in Nat
        BY <2>3, <2>4, <2>6, <3>4
      <4>2. QED
        BY <3>2, <3>3, <4>1
    <3>5. CASE x \notin DOMAIN ItemBag'
      BY <3>3, <3>5
    <3>6. QED
      BY <3>4, <3>5
  <2>12. MM!Delete(key)
    <3>1. \A y \in MM!BagToSet(ItemBag) :
             y.key # key => y \in MM!BagToSet(ItemBag') /\ ItemBag'[y] = ItemBag[y]
      BY <2>9 DEF MM!BagToSet
    <3>2. (state = "live") /\ (state' = "live")
      BY <1>1, <1>3
    <3>3. QED
      BY <1>3, <2>7, <2>8, <2>11, <3>1, <3>2 DEF MM!Delete, MM!Returned, Returned
  <2>13. QED
    BY <2>12 DEF MM!Next
<1>4. QED
  BY <1>1, <1>2, <1>3

LEMMA RefinesStep ==
    ASSUME TableInv, [Next]_vars
    PROVE  [MM!Next]_MM!vars
<1>1. CASE UNCHANGED vars
  <2>1. ItemBag = BagOf(T) /\ ItemBag' = BagOf(T')
    BY DEF ItemBag, BagOf, ItemAt, At, Stored, StoredIn
  <2>2. UNCHANGED MM!vars
    BY <1>1, <2>1 DEF vars, MM!vars
  <2>3. QED
    BY <2>2
<1>2. ASSUME NEW request \in Requests, hashtable_create(request)
      PROVE  MM!Next
  BY <1>2, RefinesCreate
<1>3. CASE hashtable_free
  <2>1. state' # "live" /\ T' = <<>> /\ Returned("end", 0, NULL)
    BY <1>3 DEF hashtable_free
  <2>2. QED
    BY <2>1, RefinesEnd
<1>4. ASSUME NEW key \in Keys, NEW p \in Pointers, hashtable_insert(key, p)
      PROVE  MM!Next
  BY <1>4, RefinesInsert
<1>5. ASSUME NEW key \in Keys, hashtable_search(key)
      PROVE  MM!Next
  BY <1>5, RefinesSearch
<1>6. ASSUME NEW key \in Keys, hashtable_delete(key)
      PROVE  MM!Next
  BY <1>6, RefinesDelete
<1>7. QED
  BY <1>1, <1>2, <1>3, <1>4, <1>5, <1>6 DEF Next

\* Whatever is created, inserted, searched and deleted, the answers are those of a
\* collection that allows duplicate keys, until the table is freed or a delete does
\* not return (hashtable.h:49-78).
THEOREM TableIsMultiMap == Spec => ImplementsMultiMap
<1>1. Init => MM!Init
  <2> SUFFICES ASSUME Init PROVE MM!Init
    OBVIOUS
  <2>1. ItemBag = BagOf(T) /\ T = <<>>
    BY DEF ItemBag, BagOf, ItemAt, At, Stored, StoredIn, Init
  <2>2. ItemBag = MM!EmptyBag
    BY <2>1, NothingStored, BagOfNothing DEF MM!EmptyBag, MM!SetToBag
  <2>3. QED
    BY <2>2 DEF Init, MM!Init
<1>2. TableInv /\ [Next]_vars => [MM!Next]_MM!vars
  BY RefinesStep
<1>3. QED
  BY <1>1, <1>2, TableInvariant, PTL DEF Spec, ImplementsMultiMap, MM!Spec

------------------------------------------------------------------------------
(***************************************************************************)
(* What a deletion leaves                                                  *)
(***************************************************************************)
LEMMA MeetsRanked ==
    ASSUME NEW table, NEW n, Good(table, n), NEW k
    PROVE  Meets(table, k) = [i \in 0 .. n - 1 |-> Ranked(Line(table[i]), k)]
<1> DEFINE met(i) == {m \in DOMAIN Chain(table[i]) : Chain(table[i])[m].p # NULL
                                                      /\ Chain(table[i])[m].key = k}
           ranks(i) == {<<Cardinality({m \in met(i) : m <= o}), Chain(table[i])[o]>> : o \in met(i)}
<1>1. DOMAIN table = 0 .. n - 1 /\ \A i \in 0 .. n - 1 : table[i] \in Slot
  BY DEF Good
<1>2. Meets(table, k) = [i \in DOMAIN table |-> ranks(i)]
  BY DEF Meets
<1>3. ASSUME NEW i \in 0 .. n - 1
      PROVE  ranks(i) = Ranked(Line(table[i]), k)
  <2> DEFINE line == Line(table[i])
             here == {m \in DOMAIN line : line[m].key = k}
  <2>1. /\ DOMAIN line = {m \in DOMAIN Chain(table[i]) : Chain(table[i])[m].p # NULL}
        /\ \A m \in DOMAIN line : line[m] = Chain(table[i])[m]
    BY <1>1, LineIs
  <2>2. Ranked(line, k) = {<<Cardinality({m \in here : m <= o}), line[o]>> : o \in here}
    BY DEF Ranked
  <2> HIDE DEF line
  <2>3. here = met(i)
    BY <2>1
  <2>4. \A o \in met(i) : line[o] = Chain(table[i])[o]
    BY <2>1
  <2> HIDE DEF here, met
  <2>5. QED
    BY <2>2, <2>3, <2>4 DEF line
<1> HIDE DEF ranks
<1>4. QED
  BY <1>1, <1>2, <1>3

LEMMA StoredWithCounts ==
    ASSUME NEW table, NEW n, Good(table, n), NEW k \in Keys
    PROVE  /\ IsFiniteSet({s \in StoredIn(table) : Chain(table[s[1]])[s[2]].key = k})
           /\ Cardinality({s \in StoredIn(table) : Chain(table[s[1]])[s[2]].key = k})
                = Occurrences(Line(table[Hash(n, k)]), WithKeyOf(k))
<1> DEFINE h == Hash(n, k)
           there == {s \in StoredIn(table) : At(table, s) \in WithKeyOf(k)}
<1>1. h \in 0 .. n - 1
  BY SlotOfKey
<1>2. \A x \in WithKeyOf(k) : x \in Item /\ Hash(n, x.key) = h
  BY DEF WithKeyOf
<1> HIDE DEF h
<1>3. IsFiniteSet(there) /\ Cardinality(there) = Occurrences(Line(table[h]), WithKeyOf(k))
  BY <1>1, <1>2, StoredHere
<1>4. \A s \in StoredIn(table) : At(table, s) \in Item
  <2>1. ASSUME NEW s \in StoredIn(table)
        PROVE  At(table, s) \in Item
    <3>1. PICK i \in 0 .. n - 1 : \E j \in DOMAIN Line(table[i]) :
                s = <<i, j>> /\ At(table, s) = Line(table[i])[j]
      BY StoredInLines
    <3>2. QED
      BY <3>1, AtHome
  <2>2. QED
    BY <2>1
<1>5. there = {s \in StoredIn(table) : Chain(table[s[1]])[s[2]].key = k}
  BY <1>4 DEF WithKeyOf, At
<1> HIDE DEF there
<1>6. QED
  BY <1>3, <1>5 DEF h

LEMMA DeletedOnlyItsKey ==
    ASSUME TableInv, NEW k \in Keys, hashtable_delete(k), state' = "live"
    PROVE  /\ \A other \in Keys \ {k} : Meets(T', other) = Meets(T, other)
           /\ StoredWith(k) # {} => Cardinality(StoredWith(k)') < Cardinality(StoredWith(k))
<1> DEFINE h == Hash(size, k)
           slot == Deleted(T[h], k)
           after == [T EXCEPT ![h] = slot]
<1>1. Good(T, size) /\ size' = size /\ T' = after
  BY DeleteStep
<1>2. Good(after, size)
  BY <1>1, BagAfterDelete
<1>3. h \in 0 .. size - 1 /\ T[h] \in Slot /\ DOMAIN T = 0 .. size - 1
  BY <1>1, SlotOfKey DEF Good
<1>4. slot \in Slot /\ \E g : Thins(Line(slot), Line(T[h]), k, g)
  BY <1>3, DeletedThins
<1> HIDE DEF slot, h
<1>5. \A i \in 0 .. size - 1 : after[i] = IF i = h THEN slot ELSE T[i]
  BY <1>3
<1>6. Line(slot) \in Seq(Item) /\ Line(T[h]) \in Seq(Item)
  BY <1>3, <1>4, LineIs
<1> HIDE DEF after
<1> DEFINE s == Line(slot)
           t == Line(T[h])
<1>7. PICK g : Thins(s, t, k, g)
  BY <1>4
<1>8. s \in Seq(Item) /\ t \in Seq(Item)
  BY <1>6
<1>9. ASSUME NEW other \in Keys \ {k}
      PROVE  Meets(T', other) = Meets(T, other)
  <2>1. Ranked(s, other) = Ranked(t, other)
    <3> HIDE DEF s, t
    <3>1. QED
      BY <1>7, <1>8, ThinsRanks
  <2>2. \A i \in 0 .. size - 1 : Ranked(Line(after[i]), other) = Ranked(Line(T[i]), other)
    BY <1>5, <2>1
  <2>3. Meets(after, other) = [i \in 0 .. size - 1 |-> Ranked(Line(after[i]), other)]
    BY <1>2, MeetsRanked
  <2>4. Meets(T, other) = [i \in 0 .. size - 1 |-> Ranked(Line(T[i]), other)]
    BY <1>1, MeetsRanked
  <2>5. Meets(after, other) = Meets(T, other)
    BY <2>2, <2>3, <2>4
  <2>6. QED
    BY <1>1, <2>5
<1>10. ASSUME StoredWith(k) # {}
       PROVE  Cardinality(StoredWith(k)') < Cardinality(StoredWith(k))
  <2>1. /\ StoredWith(k) = {x \in StoredIn(T) : Chain(T[x[1]])[x[2]].key = k}
        /\ StoredWith(k)' = {x \in StoredIn(T') : Chain(T'[x[1]])[x[2]].key = k}
    BY DEF StoredWith, Stored, StoredIn
  <2>2. /\ IsFiniteSet(StoredWith(k))
        /\ Cardinality(StoredWith(k)) = Occurrences(t, WithKeyOf(k))
    <3>1. /\ IsFiniteSet({x \in StoredIn(T) : Chain(T[x[1]])[x[2]].key = k})
          /\ Cardinality({x \in StoredIn(T) : Chain(T[x[1]])[x[2]].key = k})
               = Occurrences(Line(T[h]), WithKeyOf(k))
      BY <1>1, StoredWithCounts DEF h
    <3>2. QED
      BY <2>1, <3>1
  <2>3. Cardinality(StoredWith(k)') = Occurrences(s, WithKeyOf(k))
    <3>1. Cardinality({x \in StoredIn(after) : Chain(after[x[1]])[x[2]].key = k})
            = Occurrences(Line(after[h]), WithKeyOf(k))
      BY <1>2, StoredWithCounts DEF h
    <3>2. after[h] = slot
      BY <1>3, <1>5
    <3>3. QED
      BY <1>1, <2>1, <3>1, <3>2
  <2>4. Occurrences(t, WithKeyOf(k)) # 0
    BY <1>10, <2>2, FS_EmptySet
  <2> HIDE DEF s, t
  <2>5. PICK j \in DOMAIN t : t[j] \in WithKeyOf(k)
    BY <1>8, <2>4, OccurrencesPositive
  <2>6. t[j].key = k
    BY <2>5 DEF WithKeyOf
  <2>7. \A i \in DOMAIN t : t[i].key = k =>
            Occurrences(s, WithKeyOf(k)) < Occurrences(t, WithKeyOf(k))
    BY <1>7, <1>8, ThinsCounts
  <2>8. QED
    BY <2>2, <2>3, <2>5, <2>6, <2>7
<1>11. QED
  BY <1>9, <1>10

\* A delete that returns leaves the items of every other key as they were, in the
\* order in which a search meets them, and fewer of its own (hashtable.c:109-133).
THEOREM DeletesItsKey == Spec => DeleteOnlyItsKey
<1>1. TableInv /\ [Next]_vars =>
        [\A k \in Keys : hashtable_delete(k) /\ state' = "live" =>
            /\ \A other \in Keys \ {k} : Meets(T', other) = Meets(T, other)
            /\ StoredWith(k) # {} => Cardinality(StoredWith(k)') < Cardinality(StoredWith(k))]_vars
  BY DeletedOnlyItsKey
<1>2. QED
  BY <1>1, TableInvariant, PTL DEF Spec, DeleteOnlyItsKey
==============================================================================
