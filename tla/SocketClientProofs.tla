-------------------------- MODULE SocketClientProofs --------------------------
(***************************************************************************)
(* What the socket clients may conclude from a reply, for what a client    *)
(* and its server can wait for each other, and how long a client goes on   *)
(* after a reset: for every test, paths of any length and any number of    *)
(* failures.                                                               *)
(***************************************************************************)
EXTENDS SocketClient, CountTheorems

\* The positions of SocketClient for a sequence of requests s.
Requests == Seq([len : Nat \ {0}, reply : Nat, max : Nat \ {0}]) \ {<<>>}
Sent(s, i) == Cardinality(UNION {{j} \X (1 .. s[j].len) : j \in 1 .. i})
Answered(s, i) == Cardinality(UNION {{j} \X (1 .. s[j].reply) : j \in 1 .. i})
Got(s, n) == Cardinality({i \in 1 .. Len(s) : Sent(s, i) <= n})

\* TypeOK in these terms.
Types ==
    /\ test \in Tests
    /\ at \in 1 .. Len(test.items) + 1
    /\ pc \in Pcs
    /\ link \in Links /\ (pc \in {"send", "receive"} => link # "none")
    /\ taken \in Nat /\ written \in Nat /\ received \in Nat /\ replied \in Nat
    /\ taken <= written /\ written <= Sent(test.items, Len(test.items))
    /\ received <= replied /\ replied <= Answered(test.items, Got(test.items, taken))
    /\ split \in BOOLEAN
    /\ resetAt \in 0 .. Len(test.items)
    /\ faults \in 0 .. MaxFaults

\* How far the client is in what it sends.
PlaceInv ==
    /\ pc = "start" => link = "none" /\ at = 1 /\ written = 0
    /\ pc \in {"start", "send", "receive"} => at <= Len(test.items)
    /\ at <= Len(test.items) => written <= Sent(test.items, at)
    /\ link = "up" /\ pc \in {"send", "done"} => Sent(test.items, at - 1) <= written
    /\ link = "up" /\ pc = "send" => written < Sent(test.items, at)
    /\ link = "up" /\ pc = "receive" => written = Sent(test.items, at)

\* What it has read while every recv returned the end of its reply.
ReadInv == link = "up" /\ ~split => Answered(test.items, at - 1) <= received

\* How far it can be after a reset. Whatever is left of the request it was in is
\* cut short once; the next send of a new request reports, the one after that kills.
ResetInv ==
    /\ resetAt > 0 <=> link \in {"reset", "down"}
    /\ resetAt > 0 =>
        /\ at <= resetAt + (IF link = "reset" \/ test.raises THEN 1 ELSE 2)
        /\ at > resetAt /\ pc = "send" => written <= Sent(test.items, at - 1)
        /\ pc = "receive" =>
            at <= resetAt + (IF link = "reset" \/ test.raises THEN 0 ELSE 1)

IInv == Types /\ PlaceInv /\ ReadInv /\ ResetInv
------------------------------------------------------------------------------
(***************************************************************************)
(* Positions in the two streams                                            *)
(***************************************************************************)
LEMMA PartSize ==
    ASSUME NEW j, NEW n \in Nat
    PROVE  IsFiniteSet({j} \X (1 .. n)) /\ Cardinality({j} \X (1 .. n)) = n
<1>1. IsFiniteSet({j}) /\ Cardinality({j}) = 1
  BY FS_Singleton
<1>2. IsFiniteSet(1 .. n) /\ Cardinality(1 .. n) = n
  BY FS_Interval
<1> DEFINE S == {j}
           T == 1 .. n
<1> HIDE DEF S, T
<1>3. IsFiniteSet(S \X T) /\ Cardinality(S \X T) = Cardinality(S) * Cardinality(T)
  <2>1. IsFiniteSet(S) /\ IsFiniteSet(T)
    BY <1>1, <1>2 DEF S, T
  <2>2. QED
    BY <2>1, FS_Product
<1>4. Cardinality(S \X T) = n
  BY <1>1, <1>2, <1>3 DEF S, T
<1>5. QED
  BY <1>3, <1>4 DEF S, T

\* What parts of these lengths add up to.
LEMMA PartsAddUp ==
    ASSUME NEW N \in Nat, NEW n \in [1 .. N -> Nat]
    PROVE  LET total(i) == Cardinality(UNION {{j} \X (1 .. n[j]) : j \in 1 .. i})
           IN /\ total(0) = 0
              /\ \A i \in 0 .. N : total(i) \in Nat
              /\ \A i \in 1 .. N : total(i) = total(i - 1) + n[i]
              /\ \A i, k \in 0 .. N : i <= k => total(i) <= total(k)
<1> DEFINE parts(i) == UNION {{j} \X (1 .. n[j]) : j \in 1 .. i}
<1>1. parts(0) = {}
  OBVIOUS
<1>2. ASSUME NEW i \in 0 .. N
      PROVE  IsFiniteSet(parts(i)) /\ Cardinality(parts(i)) \in Nat
  <2> DEFINE f == [j \in 1 .. i |-> {j} \X (1 .. n[j])]
             P == {{j} \X (1 .. n[j]) : j \in 1 .. i}
  <2>1. IsFiniteSet(1 .. i)
    BY FS_Interval
  <2>2. f \in Surjection(1 .. i, P)
    BY DEF Surjection
  <2>3. IsFiniteSet(P)
    <3> HIDE DEF f, P
    <3>1. QED
      BY <2>1, <2>2, FS_Surjection DEF ExistsSurjection
  <2>4. \A T \in P : IsFiniteSet(T)
    <3>1. \A j \in 1 .. i : n[j] \in Nat
      OBVIOUS
    <3>2. \A j \in 1 .. i : IsFiniteSet({j} \X (1 .. n[j]))
      BY <3>1, PartSize
    <3>3. QED
      BY <3>2
  <2>5. IsFiniteSet(UNION P)
    <3> HIDE DEF P
    <3>1. QED
      BY <2>3, <2>4, FS_UNION
  <2>6. QED
    BY <2>5, FS_CardinalityType
<1>3. ASSUME NEW i \in 1 .. N
      PROVE  Cardinality(parts(i)) = Cardinality(parts(i - 1)) + n[i]
  <2> DEFINE new == {i} \X (1 .. n[i])
  <2>1. parts(i) = parts(i - 1) \cup new
    <3>1. 1 .. i = (1 .. i - 1) \cup {i}
      OBVIOUS
    <3>2. QED
      BY <3>1
  <2>2. parts(i - 1) \cap new = {}
    OBVIOUS
  <2>3. IsFiniteSet(parts(i - 1)) /\ Cardinality(parts(i - 1)) \in Nat
    <3> HIDE DEF parts
    <3>1. i - 1 \in 0 .. N
      OBVIOUS
    <3>2. QED
      BY <3>1, <1>2
  <2>4. IsFiniteSet(new) /\ Cardinality(new) = n[i] /\ n[i] \in Nat
    BY PartSize
  <2>5. Cardinality({}) = 0
    BY FS_EmptySet
  <2> HIDE DEF parts, new
  <2>6. Cardinality(parts(i - 1) \cup new) = Cardinality(parts(i - 1)) + Cardinality(new) - 0
    BY <2>2, <2>3, <2>4, <2>5, FS_Union
  <2>7. QED
    BY <2>1, <2>3, <2>4, <2>6
<1>4. ASSUME NEW i \in 0 .. N, NEW k \in 0 .. N, i <= k
      PROVE  Cardinality(parts(i)) <= Cardinality(parts(k))
  <2>1. parts(i) \subseteq parts(k)
    <3>1. 1 .. i \subseteq 1 .. k
      BY <1>4
    <3>2. QED
      BY <3>1
  <2>2. IsFiniteSet(parts(k))
    BY <1>2
  <2> HIDE DEF parts
  <2>3. QED
    BY <2>1, <2>2, FS_Subset
<1>5. Cardinality(parts(0)) = 0
  BY <1>1, FS_EmptySet
<1> HIDE DEF parts
<1>6. /\ Cardinality(parts(0)) = 0
      /\ \A i \in 0 .. N : Cardinality(parts(i)) \in Nat
      /\ \A i \in 1 .. N : Cardinality(parts(i)) = Cardinality(parts(i - 1)) + n[i]
      /\ \A i, k \in 0 .. N : i <= k => Cardinality(parts(i)) <= Cardinality(parts(k))
  BY <1>2, <1>3, <1>4, <1>5
<1>7. QED
  BY <1>6 DEF parts

LEMMA Positions ==
    ASSUME NEW s \in Requests
    PROVE  /\ Len(s) \in Nat \ {0}
           /\ \A i \in 1 .. Len(s) : s[i].len \in Nat \ {0} /\ s[i].reply \in Nat
                                     /\ s[i].max \in Nat \ {0}
           /\ Sent(s, 0) = 0 /\ Answered(s, 0) = 0
           /\ \A i \in 0 .. Len(s) : Sent(s, i) \in Nat /\ Answered(s, i) \in Nat
           /\ \A i \in 1 .. Len(s) : Sent(s, i) = Sent(s, i - 1) + s[i].len
           /\ \A i \in 1 .. Len(s) : Answered(s, i) = Answered(s, i - 1) + s[i].reply
           /\ \A i, k \in 0 .. Len(s) : i <= k => Sent(s, i) <= Sent(s, k)
                                                  /\ Answered(s, i) <= Answered(s, k)
<1> DEFINE N == Len(s)
           lens == [i \in 1 .. N |-> s[i].len]
           replies == [i \in 1 .. N |-> s[i].reply]
<1>1. N \in Nat \ {0}
  BY EmptySeq, LenProperties DEF Requests
<1>2. \A i \in 1 .. N : s[i] \in [len : Nat \ {0}, reply : Nat, max : Nat \ {0}]
  <2> DEFINE R == [len : Nat \ {0}, reply : Nat, max : Nat \ {0}]
  <2>1. s \in Seq(R)
    BY DEF Requests
  <2> HIDE DEF R
  <2>2. \A i \in 1 .. Len(s) : s[i] \in R
    BY <2>1, ElementOfSeq
  <2>3. QED
    BY <2>2 DEF R
<1>3. lens \in [1 .. N -> Nat] /\ replies \in [1 .. N -> Nat]
  BY <1>2
<1>4. \A i \in 0 .. N : Sent(s, i) = Cardinality(UNION {{j} \X (1 .. lens[j]) : j \in 1 .. i})
  <2>1. ASSUME NEW i \in 0 .. N
        PROVE  {{j} \X (1 .. lens[j]) : j \in 1 .. i} = {{j} \X (1 .. s[j].len) : j \in 1 .. i}
    <3>1. \A j \in 1 .. i : lens[j] = s[j].len
      BY <1>1
    <3> HIDE DEF lens
    <3>2. QED
      BY <3>1
  <2>2. QED
    BY <2>1 DEF Sent
<1>5. \A i \in 0 .. N :
        Answered(s, i) = Cardinality(UNION {{j} \X (1 .. replies[j]) : j \in 1 .. i})
  <2>1. ASSUME NEW i \in 0 .. N
        PROVE  {{j} \X (1 .. replies[j]) : j \in 1 .. i}
                 = {{j} \X (1 .. s[j].reply) : j \in 1 .. i}
    <3>1. \A j \in 1 .. i : replies[j] = s[j].reply
      BY <1>1
    <3> HIDE DEF replies
    <3>2. QED
      BY <3>1
  <2>2. QED
    BY <2>1 DEF Answered
<1>6. \A i \in 1 .. N : lens[i] = s[i].len /\ replies[i] = s[i].reply
  OBVIOUS
<1>7. N \in Nat
  BY <1>1
<1> HIDE DEF lens, replies, N
<1>8. /\ Sent(s, 0) = 0
      /\ \A i \in 0 .. N : Sent(s, i) \in Nat
      /\ \A i \in 1 .. N : Sent(s, i) = Sent(s, i - 1) + lens[i]
      /\ \A i, k \in 0 .. N : i <= k => Sent(s, i) <= Sent(s, k)
  <2> DEFINE total(i) == Cardinality(UNION {{j} \X (1 .. lens[j]) : j \in 1 .. i})
  <2>1. /\ total(0) = 0
        /\ \A i \in 0 .. N : total(i) \in Nat
        /\ \A i \in 1 .. N : total(i) = total(i - 1) + lens[i]
        /\ \A i, k \in 0 .. N : i <= k => total(i) <= total(k)
    BY <1>3, <1>7, PartsAddUp
  <2>2. \A i \in 0 .. N : Sent(s, i) = total(i)
    BY <1>4
  <2> HIDE DEF total
  <2>3. 0 \in 0 .. N /\ \A i \in 1 .. N : i \in 0 .. N /\ i - 1 \in 0 .. N
    BY <1>7
  <2>4. QED
    BY <2>1, <2>2, <2>3
<1>9. /\ Answered(s, 0) = 0
      /\ \A i \in 0 .. N : Answered(s, i) \in Nat
      /\ \A i \in 1 .. N : Answered(s, i) = Answered(s, i - 1) + replies[i]
      /\ \A i, k \in 0 .. N : i <= k => Answered(s, i) <= Answered(s, k)
  <2> DEFINE total(i) == Cardinality(UNION {{j} \X (1 .. replies[j]) : j \in 1 .. i})
  <2>1. /\ total(0) = 0
        /\ \A i \in 0 .. N : total(i) \in Nat
        /\ \A i \in 1 .. N : total(i) = total(i - 1) + replies[i]
        /\ \A i, k \in 0 .. N : i <= k => total(i) <= total(k)
    BY <1>3, <1>7, PartsAddUp
  <2>2. \A i \in 0 .. N : Answered(s, i) = total(i)
    BY <1>5
  <2> HIDE DEF total
  <2>3. 0 \in 0 .. N /\ \A i \in 1 .. N : i \in 0 .. N /\ i - 1 \in 0 .. N
    BY <1>7
  <2>4. QED
    BY <2>1, <2>2, <2>3
<1>10. \A i \in 1 .. N : s[i].len \in Nat \ {0} /\ s[i].reply \in Nat
                         /\ s[i].max \in Nat \ {0}
  BY <1>2
<1>11. QED
  BY <1>1, <1>6, <1>8, <1>9, <1>10 DEF N

\* The requests the server has got all of are the first ones.
LEMMA ServedAreFirst ==
    ASSUME NEW s \in Requests, NEW n \in Nat
    PROVE  /\ Got(s, n) \in 0 .. Len(s)
           /\ \A i \in 1 .. Len(s) : Sent(s, i) <= n <=> i <= Got(s, n)
<1> DEFINE N == Len(s)
           Open == {i \in 0 .. N : i = N \/ n < Sent(s, i + 1)}
<1>1. /\ N \in Nat
      /\ \A i \in 0 .. N : Sent(s, i) \in Nat
      /\ \A i, k \in 0 .. N : i <= k => Sent(s, i) <= Sent(s, k)
  BY Positions
<1>2. Open \in SUBSET Nat /\ Open # {}
  BY <1>1
<1>3. PICK g \in Open : \A i \in Open : g <= i
  BY <1>2, LeastNat
<1> HIDE DEF N
<1>4. g \in 0 .. N /\ (g = N \/ n < Sent(s, g + 1))
  OBVIOUS
<1>5. ASSUME NEW i \in 1 .. N, i <= g
      PROVE  Sent(s, i) <= n
  <2>1. i - 1 \in 0 .. N /\ i - 1 \notin Open /\ i - 1 # N
    BY <1>1, <1>3, <1>4, <1>5
  <2>2. (i - 1) + 1 = i /\ i \in 0 .. N
    BY <1>1
  <2>3. QED
    BY <1>1, <2>1, <2>2
<1>6. ASSUME NEW i \in 1 .. N, g < i
      PROVE  n < Sent(s, i)
  <2>1. g # N /\ g + 1 \in 0 .. N /\ i \in 0 .. N /\ g + 1 <= i
    BY <1>1, <1>4, <1>6
  <2>2. Sent(s, g + 1) <= Sent(s, i) /\ Sent(s, i) \in Nat /\ Sent(s, g + 1) \in Nat
    BY <1>1, <2>1
  <2>3. QED
    BY <1>4, <2>1, <2>2
<1>7. \A i \in 1 .. N : Sent(s, i) <= n <=> i <= g
  <2>1. \A i \in 1 .. N : i \in 0 .. N /\ Sent(s, i) \in Nat
    BY <1>1
  <2>2. QED
    BY <1>1, <1>4, <1>5, <1>6, <2>1
<1>8. {i \in 1 .. N : Sent(s, i) <= n} = 1 .. g
  BY <1>1, <1>4, <1>7
<1>9. Got(s, n) = g
  <2>1. Cardinality(1 .. g) = g
    BY <1>1, <1>4, FS_Interval
  <2>2. QED
    BY <1>8, <2>1 DEF Got, N
<1>10. QED
  BY <1>4, <1>7, <1>9 DEF N

LEMMA ServedGrow ==
    ASSUME NEW s \in Requests, NEW m \in Nat, NEW n \in Nat, m <= n
    PROVE  Got(s, m) <= Got(s, n)
<1>1. Got(s, m) \in 0 .. Len(s) /\ Got(s, n) \in 0 .. Len(s) /\ Len(s) \in Nat
  BY ServedAreFirst, Positions
<1>2. CASE Got(s, m) = 0
  BY <1>1, <1>2
<1>3. CASE Got(s, m) > 0
  <2>1. Got(s, m) \in 1 .. Len(s) /\ Got(s, m) \in 0 .. Len(s)
    BY <1>1, <1>3
  <2>2. Sent(s, Got(s, m)) <= m /\ Sent(s, Got(s, m)) \in Nat
    BY <2>1, ServedAreFirst, Positions, <1>1
  <2>3. Sent(s, Got(s, m)) <= n
    BY <2>2
  <2>4. QED
    BY <2>1, <2>3, ServedAreFirst
<1>4. QED
  BY <1>1, <1>2, <1>3

\* What the steps of the proof use of the requests of this client.
LEMMA Here ==
    ASSUME Types
    PROVE  /\ test.items \in Requests /\ test.raises \in BOOLEAN
           /\ Items = test.items /\ LastItem = Len(test.items) /\ LastItem \in Nat \ {0}
           /\ Served = Got(test.items, taken) /\ Served \in 0 .. LastItem
           /\ \A i : RequestEnd(i) = Sent(test.items, i) /\ ReplyEnd(i) = Answered(test.items, i)
           /\ at \in Nat /\ (at + 1) - 1 = at
           /\ Sent(test.items, 0) = 0 /\ Answered(test.items, 0) = 0
           /\ Sent(test.items, at - 1) \in Nat /\ Answered(test.items, at - 1) \in Nat
           /\ at <= LastItem =>
                /\ Sent(test.items, at) \in Nat
                /\ Sent(test.items, at - 1) < Sent(test.items, at)
                /\ Sent(test.items, at) <= Sent(test.items, LastItem)
                /\ Sent(test.items, LastItem) \in Nat
                /\ Items[at].reply \in Nat
                /\ Answered(test.items, at) = Answered(test.items, at - 1) + Items[at].reply
           /\ at < LastItem => /\ Sent(test.items, at + 1) \in Nat
                               /\ Sent(test.items, at) < Sent(test.items, at + 1)
<1> DEFINE s == test.items
           N == Len(s)
<1>1. s \in Requests /\ test.raises \in BOOLEAN
  BY SocketAssumption DEF Types, TestOK, Requests
<1>2. Items = s /\ LastItem = N
  BY DEF Items, LastItem
<1>3. \A i : RequestEnd(i) = Sent(s, i) /\ ReplyEnd(i) = Answered(s, i)
  BY DEF RequestEnd, ReplyEnd, Sent, Answered, Request, Reply, Items
<1>4. Served = Got(s, taken)
  BY <1>3 DEF Served, Got, LastItem, Items
<1>5. at \in 1 .. N + 1 /\ taken \in Nat
  BY DEF Types
<1> HIDE DEF s
<1>6. N \in Nat \ {0} /\ Got(s, taken) \in 0 .. N
  BY <1>1, <1>5, Positions, ServedAreFirst
<1>7. /\ Sent(s, 0) = 0 /\ Answered(s, 0) = 0
      /\ \A i \in 1 .. N : s[i].len \in Nat \ {0} /\ s[i].reply \in Nat
      /\ \A i \in 0 .. N : Sent(s, i) \in Nat /\ Answered(s, i) \in Nat
      /\ \A i \in 1 .. N : Sent(s, i) = Sent(s, i - 1) + s[i].len
      /\ \A i \in 1 .. N : Answered(s, i) = Answered(s, i - 1) + s[i].reply
      /\ \A i, k \in 0 .. N : i <= k => Sent(s, i) <= Sent(s, k)
  BY <1>1, Positions
<1> HIDE DEF N
<1>8. /\ at \in Nat /\ (at + 1) - 1 = at
      /\ Sent(s, at - 1) \in Nat /\ Answered(s, at - 1) \in Nat
  BY <1>5, <1>6, <1>7
<1>9. ASSUME at <= N
      PROVE  /\ Sent(s, at) \in Nat
             /\ Sent(s, at - 1) < Sent(s, at)
             /\ Sent(s, at) <= Sent(s, N) /\ Sent(s, N) \in Nat
             /\ s[at].reply \in Nat
             /\ Answered(s, at) = Answered(s, at - 1) + s[at].reply
  <2>1. at \in 1 .. N /\ at \in 0 .. N /\ N \in 0 .. N
    BY <1>5, <1>6, <1>9
  <2>2. QED
    BY <1>7, <1>8, <2>1
<1>10. ASSUME at < N
       PROVE  Sent(s, at + 1) \in Nat /\ Sent(s, at) < Sent(s, at + 1)
  <2>1. at + 1 \in 1 .. N /\ at + 1 \in 0 .. N /\ at \in 0 .. N /\ (at + 1) - 1 = at
    BY <1>5, <1>6, <1>10
  <2>2. Sent(s, at + 1) = Sent(s, at) + s[at + 1].len /\ s[at + 1].len \in Nat \ {0}
        /\ Sent(s, at) \in Nat
    BY <1>7, <2>1
  <2>3. QED
    BY <2>2
<1>11. s = test.items /\ N = Len(test.items)
  BY DEF s, N
<1>12. Served \in 0 .. N
  BY <1>4, <1>6
<1>13. QED
  BY <1>1, <1>2, <1>3, <1>4, <1>6, <1>7, <1>8, <1>9, <1>10, <1>11, <1>12

\* The least of two numbers.
LEMMA LessOfTwo ==
    ASSUME NEW a \in Int, NEW b \in Int
    PROVE  /\ Min({a, b}) \in Int /\ Min({a, b}) <= a /\ Min({a, b}) <= b
           /\ Min({a, b}) \in {a, b}
<1>1. \E x \in {a, b} : \A y \in {a, b} : x <= y
  OBVIOUS
<1>2. Min({a, b}) \in {a, b} /\ \A y \in {a, b} : Min({a, b}) <= y
  BY <1>1 DEF Min
<1>3. QED
  BY <1>2
------------------------------------------------------------------------------
LEMMA StartsRight == Init => IInv
<1> SUFFICES ASSUME Init PROVE IInv
  OBVIOUS
<1> DEFINE s == test.items
<1>1. s \in Requests /\ test \in Tests
  BY SocketAssumption DEF Init, TestOK, Requests
<1> HIDE DEF s
<1>2. /\ Len(s) \in Nat \ {0} /\ Sent(s, 0) = 0 /\ Answered(s, 0) = 0
      /\ Got(s, 0) \in 0 .. Len(s)
      /\ \A i \in 0 .. Len(s) : Sent(s, i) \in Nat /\ Answered(s, i) \in Nat
  BY <1>1, Positions, ServedAreFirst
<1>3. /\ Sent(s, 1) \in Nat /\ Sent(s, Len(s)) \in Nat /\ Answered(s, Got(s, 0)) \in Nat
  <2>1. 1 \in 0 .. Len(s) /\ Len(s) \in 0 .. Len(s)
    BY <1>2
  <2>2. QED
    BY <1>2, <2>1
<1>4. Types
  <2>1. at \in 1 .. Len(s) + 1 /\ resetAt \in 0 .. Len(s) /\ faults \in 0 .. MaxFaults
    BY <1>2, SocketAssumption DEF Init
  <2>2. written <= Sent(s, Len(s)) /\ replied <= Answered(s, Got(s, taken))
    BY <1>3 DEF Init
  <2>3. /\ pc \in Pcs /\ link \in Links /\ (pc \in {"send", "receive"} => link # "none")
        /\ taken \in Nat /\ written \in Nat /\ received \in Nat /\ replied \in Nat
        /\ taken <= written /\ received <= replied
    BY DEF Init, Pcs, Links
  <2>4. split \in BOOLEAN
    BY DEF Init
  <2>5. s = test.items
    BY DEF s
  <2>6. QED
    BY <1>1, <2>1, <2>2, <2>3, <2>4, <2>5, Zenon DEF Types
<1>5. PlaceInv /\ ReadInv /\ ResetInv
  BY <1>2, <1>3 DEF Init, PlaceInv, ReadInv, ResetInv, s
<1>6. QED
  BY <1>4, <1>5 DEF IInv

\* socket and connect (client-socket.c:216-241).
LEMMA ConnectKeeps ==
    ASSUME IInv, Connect \/ ConnectFails
    PROVE  IInv'
<1>1. Types /\ PlaceInv /\ ReadInv /\ ResetInv
  BY DEF IInv
<1>2. /\ pc = "start" /\ link' \in {link, "up"}
      /\ pc' \in {"send", "failed", "killed"} /\ (pc' = "send" => link' = "up")
      /\ UNCHANGED <<test, at, written, taken, replied, received, split, resetAt>>
  BY DEF Connect, ConnectFails, serverVars
<1>3. faults' \in 0 .. MaxFaults
  BY <1>1, SocketAssumption DEF Connect, ConnectFails, Fault, Types
<1>4. Types'
  BY <1>1, <1>2, <1>3 DEF Types, Pcs, Links
<1>5. PlaceInv'
  <2>1. PlaceInv /\ Sent(test.items, 0) = 0 /\ 1 - 1 = 0
    BY <1>1, Here
  <2>2. at = 1 /\ written = 0 /\ at <= Len(test.items)
    BY <1>1, <1>2 DEF PlaceInv
  <2>3. 0 < Sent(test.items, 1) /\ Sent(test.items, 1) \in Nat
    BY <1>1, <2>1, <2>2, Here
  <2>4. QED
    BY <1>2, <2>1, <2>2, <2>3 DEF PlaceInv
<1>6. ReadInv'
  BY <1>1, <1>2, Here DEF ReadInv, PlaceInv, Types
<1>7. ResetInv'
  BY <1>1, <1>2 DEF ResetInv, Types, PlaceInv
<1>8. QED
  BY <1>4, <1>5, <1>6, <1>7 DEF IInv

\* What follows a send and a wait.
LEMMA WhatFollows ==
    ASSUME Types, at <= LastItem
    PROVE  /\ NextItem =>
                /\ at' = at + 1
                /\ \/ pc' = "done" /\ at = LastItem
                   \/ pc' = "send" /\ at < LastItem
           /\ AfterSend =>
                \/ pc' = "receive" /\ at' = at /\ Items[at].reply > 0
                \/ NextItem /\ Items[at].reply = 0
<1>1. NextItem =>
        /\ at' = at + 1
        /\ \/ pc' = "done" /\ at = LastItem
           \/ pc' = "send" /\ at < LastItem
  BY Here DEF NextItem
<1>2. Items[at].reply \in Nat
  BY Here
<1>3. AfterSend =>
        \/ pc' = "receive" /\ at' = at /\ Items[at].reply > 0
        \/ NextItem /\ Items[at].reply = 0
  BY <1>2 DEF AfterSend
<1>4. QED
  BY <1>1, <1>3

\* A step of the client, whatever becomes of the connection: with what it sends and
\* reads in bounds, the types are kept.
LEMMA ClientTypes ==
    ASSUME Types, at <= LastItem,
           UNCHANGED <<test, taken, replied, resetAt, faults>>,
           at' \in {at, at + 1}, pc' \in Pcs, link' \in Links, link' # "none",
           written' \in Nat, written <= written',
           written' <= Sent(test.items, Len(test.items)),
           received' \in Nat, received' <= replied, split' \in BOOLEAN
    PROVE  Types'
<1>1. at' \in 1 .. Len(test'.items) + 1
  <2>1. LastItem = Len(test.items) /\ LastItem \in Nat /\ at \in Nat
    BY Here
  <2>2. at >= 1
    BY <2>1 DEF Types
  <2>3. QED
    BY <2>1, <2>2
<1>2. /\ taken' \in Nat /\ replied' \in Nat /\ taken' <= written'
      /\ resetAt' \in 0 .. Len(test'.items) /\ faults' \in 0 .. MaxFaults
      /\ test' \in Tests
  BY DEF Types
<1>3. replied' <= Answered(test'.items, Got(test'.items, taken'))
  BY DEF Types
<1>4. written' <= Sent(test'.items, Len(test'.items))
  OBVIOUS
<1>5. received' <= replied'
  OBVIOUS
<1>6. QED
  BY <1>1, <1>2, <1>3, <1>4, <1>5, Zenon DEF Types

\* send has handed over some of the request (client-socket.c:80).
LEMMA SendKeeps ==
    ASSUME IInv, Send
    PROVE  IInv'
<1>1. Types /\ PlaceInv /\ ReadInv /\ ResetInv
  BY DEF IInv
<1>2. /\ pc = "send" /\ link = "up" /\ at <= LastItem
      /\ UNCHANGED <<test, received, split, taken, replied, link, resetAt, faults>>
  BY <1>1, Here DEF Send, serverVars, PlaceInv
<1> DEFINE s == test.items
<1>3. written' \in Nat /\ written < written' /\ written' <= Sent(s, at)
  <2> DEFINE a == RequestEnd(at) - written
             b == RequestPath - (written - taken)
  <2>1. RequestEnd(at) = Sent(s, at) /\ Sent(s, at) \in Nat
    BY <1>1, <1>2, Here
  <2> /\ written \in Nat /\ taken \in Nat /\ RequestPath \in Nat
    BY <1>1, SocketAssumption DEF Types
  <2> a \in Int /\ b \in Int
    BY <2>1
  <2>2. PICK n \in 1 .. Min({a, b}) : written' = written + n
    BY DEF Send
  <2>3. Min({a, b}) \in Int /\ Min({a, b}) <= a
    BY <2>1, LessOfTwo
  <2> HIDE DEF b
  <2>4. QED
    BY <2>1, <2>2, <2>3
<1>4. \/ written' = Sent(s, at) /\ AfterSend
      \/ written' # Sent(s, at) /\ UNCHANGED <<at, pc>>
  BY <1>1, <1>2, Here DEF Send
<1>5. \/ pc' = "receive" /\ at' = at /\ written' = Sent(s, at)
      \/ /\ pc' \in {"done", "send"} /\ at' = at + 1 /\ written' = Sent(s, at)
         /\ Answered(s, at) = Answered(s, at - 1)
         /\ pc' = "send" => at < LastItem
      \/ pc' = "send" /\ at' = at /\ written' < Sent(s, at)
  <2>1. Sent(s, at) \in Nat /\ Answered(s, at) = Answered(s, at - 1) + Items[at].reply
        /\ Answered(s, at - 1) \in Nat
    BY <1>1, <1>2, Here
  <2>2. QED
    BY <1>1, <1>2, <1>3, <1>4, <2>1, WhatFollows
<1>6. Types'
  <2>1. at' \in {at, at + 1} /\ pc' \in Pcs /\ link' \in Links /\ link' # "none"
        /\ received' \in Nat /\ received' <= replied /\ split' \in BOOLEAN
    BY <1>1, <1>2, <1>5 DEF Types, Pcs, Links
  <2>2. written <= written' /\ written' <= Sent(s, Len(s))
    <3>1. Sent(s, at) <= Sent(s, Len(s)) /\ Sent(s, at) \in Nat /\ Sent(s, Len(s)) \in Nat
      BY <1>1, <1>2, Here
    <3>2. written \in Nat
      BY <1>1 DEF Types
    <3>3. QED
      BY <1>3, <3>1, <3>2
  <2>3. QED
    BY <1>1, <1>2, <1>3, <2>1, <2>2, ClientTypes
<1>7. PlaceInv'
  <2>1. LastItem = Len(s) /\ at \in Nat /\ (at + 1) - 1 = at /\ Sent(s, at) \in Nat
        /\ (at < LastItem => Sent(s, at + 1) \in Nat /\ Sent(s, at) < Sent(s, at + 1))
    BY <1>1, <1>2, Here
  <2>2. written \in Nat /\ Sent(s, at - 1) \in Nat /\ Sent(s, at - 1) <= written
    <3>1. written \in Nat
      BY <1>1 DEF Types
    <3>2. Sent(s, at - 1) \in Nat
      BY <1>1, Here
    <3>3. QED
      BY <1>1, <1>2, <3>1, <3>2 DEF PlaceInv
  <2>3. QED
    BY <1>2, <1>3, <1>5, <2>1, <2>2 DEF PlaceInv
<1>8. ReadInv'
  BY <1>1, <1>2, <1>5, Here DEF ReadInv
<1>9. ResetInv'
  BY <1>1, <1>2 DEF ResetInv, Types
<1>10. QED
  BY <1>6, <1>7, <1>8, <1>9 DEF IInv

\* send to an end that is closed, send cut short by a reset, send that reports one
\* and send that is killed (client-socket.c:80, tcp-client.py:41).
LEMMA LateSendKeeps ==
    ASSUME IInv, SendToClosed \/ SendCutShort \/ SendReports \/ SendDown
    PROVE  IInv'
<1>1. Types /\ PlaceInv /\ ReadInv /\ ResetInv
  BY DEF IInv
<1> DEFINE s == test.items
<1>2. /\ pc = "send" /\ link \in {"closed", "reset", "down"} /\ at <= LastItem
      /\ UNCHANGED <<test, received, split, taken, replied, resetAt, faults>>
      /\ link' = "closed" <=> link = "closed"
      /\ link' \in {link, "down"}
  BY <1>1, Here DEF SendToClosed, SendCutShort, SendReports, SendDown, serverVars, PlaceInv
<1>3. LastItem = Len(s) /\ at \in Nat /\ (at + 1) - 1 = at
      /\ Sent(s, at) \in Nat /\ Sent(s, at - 1) \in Nat
      /\ Sent(s, at) <= Sent(s, LastItem) /\ Sent(s, LastItem) \in Nat
      /\ Sent(s, at - 1) < Sent(s, at)
      /\ (at < LastItem => Sent(s, at + 1) \in Nat /\ Sent(s, at) < Sent(s, at + 1))
  BY <1>1, <1>2, Here
<1>4. written \in Nat /\ written <= Sent(s, at)
  <2>1. written \in Nat
    BY <1>1 DEF Types
  <2>2. QED
    BY <1>1, <1>2, <1>3, <2>1 DEF PlaceInv
<1>5. written' \in {written, Sent(s, at)} /\ written' \in Nat
      /\ written <= written' /\ written' <= Sent(s, at) /\ written' <= Sent(s, Len(s))
  <2>1. written' = written \/ written' = RequestEnd(at)
    BY DEF SendToClosed, SendCutShort, SendReports, SendDown
  <2>2. RequestEnd(at) = Sent(s, at)
    BY <1>1, Here
  <2>3. QED
    BY <1>3, <1>4, <2>1, <2>2
<1>6. \/ AfterSend
      \/ pc' = "killed" /\ at' = at
  BY DEF SendToClosed, SendCutShort, SendReports, SendDown
<1>7. \/ pc' = "receive" /\ at' = at
      \/ /\ pc' \in {"done", "send"} /\ at' = at + 1
         /\ pc' = "send" => at < LastItem
      \/ pc' = "killed" /\ at' = at
  BY <1>1, <1>2, <1>6, WhatFollows
<1>8. Types'
  <2>1. at' \in {at, at + 1} /\ pc' \in Pcs /\ link' \in Links /\ link' # "none"
        /\ received' \in Nat /\ received' <= replied /\ split' \in BOOLEAN
    BY <1>1, <1>2, <1>7 DEF Types, Pcs, Links
  <2>2. QED
    BY <1>1, <1>2, <1>5, <2>1, ClientTypes
<1>9. PlaceInv'
  BY <1>2, <1>3, <1>5, <1>7 DEF PlaceInv
<1>10. ReadInv'
  BY <1>2 DEF ReadInv
<1>11. ResetInv'
  <2>1. resetAt \in Nat /\ test.raises \in BOOLEAN
    <3>1. Len(s) \in Nat /\ test.raises \in BOOLEAN
      BY <1>1, Here
    <3>2. QED
      BY <1>1, <3>1 DEF Types
  <2>2. \A i : RequestEnd(i) = Sent(s, i)
    BY <1>1, Here
  <2>3. CASE SendToClosed
    <3>1. resetAt = 0
      BY <1>1, <2>1, <2>3 DEF SendToClosed, ResetInv
    <3>2. QED
      BY <1>1, <1>2, <2>3, <3>1 DEF SendToClosed, ResetInv
  <2>4. CASE SendCutShort
    <3>1. written > Sent(s, at - 1) /\ written' = written /\ link' = link
          /\ link \in {"reset", "down"}
      BY <2>2, <2>4 DEF SendCutShort
    <3>2. resetAt > 0 /\ at <= resetAt
      BY <1>1, <1>2, <1>3, <1>4, <2>1, <3>1 DEF ResetInv
    <3>3. QED
      BY <1>2, <1>3, <1>4, <1>7, <2>1, <3>1, <3>2 DEF ResetInv
  <2>5. CASE SendReports
    <3>1. link = "reset" /\ link' = "down" /\ written' = written
          /\ written <= Sent(s, at - 1)
          /\ (test.raises => pc' = "killed" /\ at' = at)
      BY <2>2, <2>5 DEF SendReports
    <3>2. resetAt > 0 /\ at <= resetAt + 1
      BY <1>1, <2>1, <3>1 DEF ResetInv
    <3>3. QED
      BY <1>2, <1>3, <1>4, <1>7, <2>1, <3>1, <3>2 DEF ResetInv
  <2>6. CASE SendDown
    <3>1. link' = link /\ pc' = "killed" /\ at' = at /\ written' = written
      BY <2>6 DEF SendDown
    <3>2. QED
      BY <1>1, <1>2, <3>1 DEF ResetInv
  <2>7. QED
    BY <2>3, <2>4, <2>5, <2>6
<1>12. QED
  BY <1>8, <1>9, <1>10, <1>11 DEF IInv

\* The three ways a recv ends (client-socket.c:82, tcp-client.py:43).
LEMMA RecvKeeps ==
    ASSUME IInv, Recv \/ RecvEnd \/ RecvReports
    PROVE  IInv'
<1>1. Types /\ PlaceInv /\ ReadInv /\ ResetInv
  BY DEF IInv
<1> DEFINE s == test.items
<1>2. /\ pc = "receive" /\ at <= LastItem /\ link # "none"
      /\ UNCHANGED <<test, written, taken, replied, resetAt, faults>>
      /\ link' \in {link, "down"} /\ (link' = "up" => link = "up")
      /\ link' \in {"reset", "down"} <=> link \in {"reset", "down"}
      /\ link' = "reset" => link = "reset"
  BY <1>1, Here DEF Recv, RecvEnd, RecvReports, serverVars, PlaceInv, Types
<1>3. LastItem = Len(s) /\ at \in Nat /\ (at + 1) - 1 = at
      /\ Sent(s, at) \in Nat
      /\ Sent(s, at) <= Sent(s, LastItem) /\ Sent(s, LastItem) \in Nat
      /\ (at < LastItem => Sent(s, at + 1) \in Nat /\ Sent(s, at) < Sent(s, at + 1))
      /\ Answered(s, at) \in Nat
      /\ \A i : ReplyEnd(i) = Answered(s, i)
  <2>1. Items[at].reply \in Nat /\ Answered(s, at - 1) \in Nat
        /\ Answered(s, at) = Answered(s, at - 1) + Items[at].reply
    BY <1>1, <1>2, Here
  <2>2. Answered(s, at) \in Nat
    BY <2>1
  <2>3. QED
    BY <1>1, <1>2, <2>2, Here
<1>4. written \in Nat /\ written <= Sent(s, at) /\ (link = "up" => written = Sent(s, at))
  <2>1. written \in Nat
    BY <1>1 DEF Types
  <2>2. QED
    BY <1>1, <1>2, <1>3, <2>1 DEF PlaceInv
<1>5. \/ /\ at' = at + 1 /\ pc' \in {"done", "send"} /\ (pc' = "send" => at < LastItem)
      \/ /\ at' = at /\ pc' = "killed" /\ link' # "up"
  <2>1. \/ NextItem
        \/ pc' = "killed" /\ at' = at /\ link' = "down"
    BY DEF Recv, RecvEnd, RecvReports
  <2>2. QED
    BY <1>1, <1>2, <2>1, WhatFollows
<1>6. /\ received' \in Nat /\ received' <= replied /\ split' \in BOOLEAN
      /\ link' = "up" /\ ~split' => Answered(s, at) <= received'
  <2>1. received \in Nat /\ replied \in Nat /\ received <= replied /\ split \in BOOLEAN
    BY <1>1 DEF Types
  <2>2. CASE Recv
    <3> DEFINE a == Unread
               b == Items[at].max
    <3>1. a = replied - received /\ a \in Int /\ b \in Int
      <4>1. b \in Nat \ {0}
        <5>1. Items \in Requests /\ Items = s /\ at \in 1 .. Len(s)
          BY <1>1, <1>2, <1>3, Here DEF Types
        <5>2. QED
          BY <5>1, Positions
      <4>2. QED
        BY <2>1, <4>1 DEF Unread
    <3>2. PICK n \in 1 .. Min({a, b}) : received' = received + n
      BY <2>2 DEF Recv
    <3>3. Min({a, b}) \in Int /\ Min({a, b}) <= a
      BY <3>1, LessOfTwo
    <3>4. split' = (split \/ received' < Answered(s, at))
      BY <1>3, <2>2 DEF Recv
    <3> HIDE DEF a, b
    <3>5. received' \in Nat /\ received' <= replied
      BY <2>1, <3>1, <3>2, <3>3
    <3>6. split' \in BOOLEAN
      BY <3>4
    <3>7. ~split' => Answered(s, at) <= received'
      <4>1. ~split' => ~(received' < Answered(s, at))
        BY <3>4, Zenon
      <4>2. QED
        BY <1>3, <3>5, <4>1
    <3>8. QED
      BY <3>5, <3>6, <3>7
  <2>3. CASE RecvEnd \/ RecvReports
    <3>1. received' = received /\ split' = split /\ link' # "up"
      BY <2>3 DEF RecvEnd, RecvReports
    <3>2. QED
      BY <2>1, <3>1
  <2>4. QED
    BY <2>2, <2>3
<1>7. Types'
  <2>1. at' \in {at, at + 1} /\ pc' \in Pcs /\ link' \in Links /\ link' # "none"
    BY <1>1, <1>2, <1>5 DEF Types, Pcs, Links
  <2>2. written' \in Nat /\ written <= written' /\ written' <= Sent(s, Len(s))
    BY <1>2, <1>3, <1>4
  <2>3. QED
    BY <1>1, <1>2, <1>6, <2>1, <2>2, ClientTypes
<1>8. PlaceInv'
  BY <1>2, <1>3, <1>4, <1>5 DEF PlaceInv
<1>9. ReadInv'
  BY <1>2, <1>3, <1>5, <1>6 DEF ReadInv
<1>10. ResetInv'
  <2>1. resetAt \in Nat /\ test.raises \in BOOLEAN
    <3>1. Len(s) \in Nat /\ test.raises \in BOOLEAN
      BY <1>1, Here
    <3>2. QED
      BY <1>1, <3>1 DEF Types
  <2>2. resetAt > 0 => at <= resetAt + (IF link = "reset" \/ test.raises THEN 0 ELSE 1)
    BY <1>1, <1>2 DEF ResetInv
  <2>3. resetAt > 0 <=> link' \in {"reset", "down"}
    BY <1>1, <1>2 DEF ResetInv
  <2>4. QED
    BY <1>2, <1>3, <1>4, <1>5, <2>1, <2>2, <2>3 DEF ResetInv
<1>11. QED
  BY <1>7, <1>8, <1>9, <1>10 DEF IInv

\* memcached reads some of a request or writes some of a reply.
LEMMA ServerKeeps ==
    ASSUME IInv, ServerNext
    PROVE  IInv'
<1>1. Types /\ PlaceInv /\ ReadInv /\ ResetInv
  BY DEF IInv
<1> DEFINE s == test.items
<1>2. /\ UNCHANGED <<test, at, pc, link, written, received, split, resetAt, faults>>
  BY DEF ServerNext, ServerReads, ServerReplies, clientVars
<1>3. /\ taken \in Nat /\ written \in Nat /\ received \in Nat /\ replied \in Nat
      /\ taken <= written /\ received <= replied
      /\ replied <= Answered(s, Got(s, taken))
  BY <1>1 DEF Types
<1>4. s \in Requests /\ LastItem = Len(s) /\ LastItem \in Nat /\ Served = Got(s, taken)
      /\ Served \in 0 .. LastItem
      /\ \A i : RequestEnd(i) = Sent(s, i) /\ ReplyEnd(i) = Answered(s, i)
  BY <1>1, Here
<1> HIDE DEF s
<1>5. Answered(s, Served) \in Nat
  BY <1>4, Positions
<1>6. /\ taken' \in Nat /\ taken <= taken' /\ taken' <= written
      /\ replied' \in Nat /\ received <= replied' /\ replied' <= Answered(s, Got(s, taken'))
  <2>1. CASE ServerReads
    <3>1. Served < LastItem /\ replied' = replied
      BY <2>1 DEF ServerReads
    <3>2. Sent(s, Served + 1) \in Nat
      <4>1. Served + 1 \in 0 .. Len(s)
        BY <1>4, <3>1
      <4>2. QED
        BY <1>4, <4>1, Positions
    <3> DEFINE b == RequestEnd(Served + 1)
    <3>3. PICK n \in 1 .. Min({written, b}) - taken : taken' = taken + n
      BY <2>1 DEF ServerReads
    <3>4. b \in Int
      BY <1>4, <3>2
    <3> HIDE DEF b
    <3>5. Min({written, b}) \in Int /\ Min({written, b}) <= written
      <4>1. written \in Int
        BY <1>3
      <4>2. QED
        BY <3>4, <4>1, LessOfTwo
    <3>6. taken' \in Nat /\ taken <= taken' /\ taken' <= written
      BY <1>3, <3>3, <3>5
    <3>7. Got(s, taken) <= Got(s, taken') /\ Got(s, taken') \in 0 .. Len(s)
      BY <1>3, <1>4, <3>6, ServedGrow, ServedAreFirst
    <3>8. Answered(s, Got(s, taken)) <= Answered(s, Got(s, taken'))
          /\ Answered(s, Got(s, taken')) \in Nat
      <4>1. Got(s, taken) \in 0 .. Len(s)
        BY <1>4
      <4>2. QED
        BY <1>4, <3>7, <4>1, Positions
    <3>9. QED
      BY <1>3, <1>4, <1>5, <3>1, <3>6, <3>8
  <2>2. CASE ServerReplies
    <3> DEFINE a == ReplyEnd(Served) - replied
               b == ReplyPath - Unread
    <3>1. taken' = taken
      BY <2>2 DEF ServerReplies
    <3>2. a = Answered(s, Served) - replied /\ a \in Int /\ b \in Int
      BY <1>3, <1>4, <1>5, SocketAssumption DEF Unread
    <3>3. PICK n \in 1 .. Min({a, b}) : replied' = replied + n
      BY <2>2 DEF ServerReplies
    <3>4. Min({a, b}) \in Int /\ Min({a, b}) <= a
      BY <3>2, LessOfTwo
    <3> HIDE DEF a, b
    <3>5. replied' \in Nat /\ received <= replied' /\ replied' <= Answered(s, Served)
      BY <1>3, <1>5, <3>2, <3>3, <3>4
    <3>6. QED
      BY <1>3, <1>4, <3>1, <3>5
  <2>3. QED
    BY <2>1, <2>2 DEF ServerNext
<1>7. Types'
  <2>1. /\ test' \in Tests /\ pc' \in Pcs /\ split' \in BOOLEAN
        /\ at' \in 1 .. Len(test'.items) + 1
        /\ link' \in Links /\ (pc' \in {"send", "receive"} => link' # "none")
        /\ resetAt' \in 0 .. Len(test'.items)
        /\ faults' \in 0 .. MaxFaults
        /\ written' <= Sent(test'.items, Len(test'.items))
    BY <1>1, <1>2, Zenon DEF Types
  <2>2. /\ taken' \in Nat /\ written' \in Nat /\ received' \in Nat /\ replied' \in Nat
        /\ taken' <= written' /\ received' <= replied'
    BY <1>2, <1>3, <1>6
  <2>3. replied' <= Answered(test'.items, Got(test'.items, taken'))
    BY <1>2, <1>6 DEF s
  <2>4. QED
    BY <2>1, <2>2, <2>3, Zenon DEF Types
<1>8. PlaceInv' /\ ReadInv' /\ ResetInv'
  BY <1>1, <1>2 DEF PlaceInv, ReadInv, ResetInv
<1>9. QED
  BY <1>7, <1>8 DEF IInv

\* The server closes its end, the connection breaks, or a reset answers what was sent
\* to a closed end.
LEMMA LinkKeeps ==
    ASSUME IInv, ServerCloses \/ ServerResets \/ ResetArrives
    PROVE  IInv'
<1>1. Types /\ PlaceInv /\ ReadInv /\ ResetInv
  BY DEF IInv
<1> DEFINE s == test.items
<1>2. /\ UNCHANGED <<test, at, pc, written, received, split, taken>>
      /\ ~Ended /\ link \in {"up", "closed"} /\ link' \in {"closed", "reset", "down"}
      /\ \/ link' = "closed" /\ resetAt' = resetAt
         \/ link' \in {"reset", "down"} /\ resetAt' = at
  BY DEF ServerCloses, ServerResets, ResetArrives, clientVars, serverVars
<1>3. /\ taken \in Nat /\ written \in Nat /\ received \in Nat /\ replied \in Nat
      /\ taken <= written /\ received <= replied
      /\ replied <= Answered(s, Got(s, taken))
      /\ at \in 1 .. Len(s) + 1 /\ pc \in Pcs
  BY <1>1 DEF Types
<1>4. s \in Requests /\ LastItem = Len(s) /\ LastItem \in Nat /\ Served = Got(s, taken)
      /\ Served \in 0 .. LastItem /\ at \in Nat /\ test.raises \in BOOLEAN
  BY <1>1, Here
<1>5. Answered(s, Served) \in Nat
  <2> HIDE DEF s
  <2>1. QED
    BY <1>4, Positions
<1>6. replied' \in Nat /\ received <= replied' /\ replied' <= replied
  BY <1>3 DEF ServerCloses, ServerResets, ResetArrives, serverVars
<1>7. at <= Len(s)
  BY <1>1, <1>2, <1>3 DEF PlaceInv, Ended, Pcs
<1>8. Types'
  <2>1. /\ test' \in Tests /\ pc' \in Pcs /\ split' \in BOOLEAN
        /\ at' \in 1 .. Len(test'.items) + 1
        /\ written' <= Sent(test'.items, Len(test'.items))
    BY <1>1, <1>2, Zenon DEF Types
  <2>2. link' \in Links /\ (pc' \in {"send", "receive"} => link' # "none")
    BY <1>2 DEF Links
  <2>3. resetAt' \in 0 .. Len(test'.items)
    <3>1. resetAt \in 0 .. Len(s)
      BY <1>1 DEF Types
    <3>2. QED
      BY <1>2, <1>3, <1>4, <1>7, <3>1
  <2>4. faults' \in 0 .. MaxFaults
    <3>1. faults \in 0 .. MaxFaults
      BY <1>1 DEF Types
    <3>2. QED
      BY <3>1, SocketAssumption DEF ServerCloses, ServerResets, ResetArrives, Fault
  <2>5. /\ taken' \in Nat /\ written' \in Nat /\ received' \in Nat /\ replied' \in Nat
        /\ taken' <= written' /\ received' <= replied'
    BY <1>2, <1>3, <1>6
  <2>6. replied' <= Answered(test'.items, Got(test'.items, taken'))
    <3>1. replied' <= Answered(s, Got(s, taken))
      BY <1>3, <1>4, <1>5, <1>6
    <3>2. QED
      BY <1>2, <3>1
  <2>7. QED
    BY <2>1, <2>2, <2>3, <2>4, <2>5, <2>6, Zenon DEF Types
<1>9. PlaceInv' /\ ReadInv'
  BY <1>1, <1>2 DEF PlaceInv, ReadInv
<1>10. ResetInv'
  <2>1. resetAt = 0
    <3>1. resetAt \in 0 .. Len(s)
      BY <1>1 DEF Types
    <3>2. ~(resetAt > 0)
      BY <1>1, <1>2 DEF ResetInv
    <3>3. QED
      BY <1>4, <3>1, <3>2
  <2>2. QED
    BY <1>2, <1>3, <1>4, <2>1 DEF ResetInv
<1>11. QED
  BY <1>8, <1>9, <1>10 DEF IInv

LEMMA StepKeeps ==
    ASSUME IInv, [Next]_vars
    PROVE  IInv'
<1>1. CASE ClientNext
  BY <1>1, ConnectKeeps, SendKeeps, LateSendKeeps, RecvKeeps DEF ClientNext
<1>2. CASE ServerNext
  BY <1>2, ServerKeeps
<1>3. CASE ServerCloses \/ ServerResets \/ ResetArrives
  BY <1>3, LinkKeeps
<1>4. CASE UNCHANGED vars
  BY <1>4 DEF vars, clientVars, serverVars, IInv, Types, PlaceInv, ReadInv, ResetInv
<1>5. QED
  BY <1>1, <1>2, <1>3, <1>4 DEF Next

LEMMA Invariant == Spec => []IInv
<1>1. Init => IInv
  BY StartsRight
<1>2. IInv /\ [Next]_vars => IInv'
  BY StepKeeps
<1>3. QED
  BY <1>1, <1>2, PTL DEF Spec
------------------------------------------------------------------------------
(***************************************************************************)
(* The theorems                                                            *)
(***************************************************************************)
\* Types: in particular the client never sends or receives behind its last request
\* or without a socket, and the server answers no more than what it got
\* (client-socket.c:69-146, 216-241, tcp-client.c:45-90, tcp-client.py:31-60).
THEOREM TypeCorrect == Spec => []TypeOK
<1>1. IInv => TypeOK
  <2> SUFFICES ASSUME IInv PROVE TypeOK
    OBVIOUS
  <2> DEFINE s == test.items
  <2>1. Types
    BY DEF IInv
  <2>2. /\ s \in Requests /\ LastItem = Len(s) /\ LastItem \in Nat \ {0}
        /\ Served = Got(s, taken) /\ Served \in 0 .. LastItem
        /\ \A i : RequestEnd(i) = Sent(s, i) /\ ReplyEnd(i) = Answered(s, i)
    BY <2>1, Here
  <2>3. /\ test \in Tests /\ pc \in Pcs /\ link \in Links
        /\ pc \in {"send", "receive"} => link # "none"
        /\ split \in BOOLEAN /\ faults \in 0 .. MaxFaults
    BY <2>1 DEF Types
  <2>4. at \in 1 .. LastItem + 1 /\ resetAt \in 0 .. LastItem
    BY <2>1, <2>2 DEF Types
  <2>5. /\ taken \in Nat /\ written \in Nat /\ received \in Nat /\ replied \in Nat
        /\ taken <= written /\ written <= Sent(s, LastItem)
        /\ received <= replied /\ replied <= Answered(s, Served)
    BY <2>1, <2>2 DEF Types
  <2>6. Sent(s, LastItem) \in Nat /\ Answered(s, Served) \in Nat
    <3> HIDE DEF s
    <3>1. LastItem \in 0 .. Len(s) /\ Served \in 0 .. Len(s)
      BY <2>2
    <3>2. QED
      BY <2>2, <3>1, Positions
  <2>7. /\ taken \in 0 .. written /\ written \in 0 .. RequestEnd(LastItem)
        /\ received \in 0 .. replied /\ replied \in 0 .. ReplyEnd(Served)
    BY <2>2, <2>5, <2>6
  <2>8. QED
    BY <2>3, <2>4, <2>7, Zenon DEF TypeOK
<1>2. QED
  BY <1>1, Invariant, PTL

\* The server has got what a test waited for, as long as no recv stopped inside a
\* reply. A client that took the ends of all replies up to its request has as many
\* segments as they are long; the server cannot have sent those without the requests
\* (client-socket.c:80-82, 104-129, tcp-client.c:63-76).
THEOREM RepliesOfTheServed == Spec => []RepliesMeanServed
<1>1. IInv => RepliesMeanServed
  <2> SUFFICES ASSUME IInv, link = "up", ~split,
                      NEW i \in 1 .. at - 1, Items[i].reply > 0
               PROVE  i <= Served
    BY DEF RepliesMeanServed
  <2> DEFINE s == test.items
  <2>1. Types /\ ReadInv
    BY DEF IInv
  <2>2. /\ s \in Requests /\ Items = s /\ LastItem = Len(s) /\ LastItem \in Nat \ {0}
        /\ Served = Got(s, taken) /\ Served \in 0 .. LastItem /\ at \in Nat
    BY <2>1, Here
  <2>3. received \in Nat /\ replied \in Nat /\ received <= replied
        /\ replied <= Answered(s, Served) /\ at <= Len(s) + 1
    BY <2>1, <2>2 DEF Types
  <2>4. Answered(s, at - 1) <= received
    BY <2>1 DEF ReadInv
  <2> HIDE DEF s
  <2>5. i \in 1 .. Len(s) /\ i \in 0 .. Len(s) /\ i - 1 \in 0 .. Len(s)
        /\ at - 1 \in 0 .. Len(s) /\ Served \in 0 .. Len(s) /\ i <= at - 1
    BY <2>2, <2>3
  <2>6. /\ Answered(s, i) = Answered(s, i - 1) + s[i].reply
        /\ s[i].reply \in Nat /\ s[i].reply > 0
        /\ Answered(s, i) <= Answered(s, at - 1)
        /\ Answered(s, i) \in Nat /\ Answered(s, i - 1) \in Nat
        /\ Answered(s, at - 1) \in Nat /\ Answered(s, Served) \in Nat
    BY <2>2, <2>5, Positions
  <2>7. Answered(s, i - 1) < Answered(s, Served)
    BY <2>3, <2>4, <2>6
  <2>8. ASSUME Served < i
        PROVE  FALSE
    <3>1. Served <= i - 1
      BY <2>5, <2>8
    <3>2. Answered(s, Served) <= Answered(s, i - 1)
      BY <2>2, <2>5, <3>1, Positions
    <3>3. QED
      BY <2>6, <2>7, <3>2
  <2>9. QED
    BY <2>5, <2>8
<1>2. QED
  BY <1>1, Invariant, PTL

\* Client and server wait for each other only after a recv that stopped inside a
\* reply: a client that is sending has read all that the server owes it, so the
\* server's way is free (tcp-client.c:64-71, tcp-client.py:43-54).
THEOREM BlocksOnlyBySplit == Spec => []BlockedOnlyBySplitReply
<1>1. IInv => BlockedOnlyBySplitReply
  <2> SUFFICES ASSUME IInv, BlockEachOther, ~split
               PROVE  FALSE
    BY DEF BlockedOnlyBySplitReply
  <2> DEFINE s == test.items
  <2>1. Types /\ PlaceInv /\ ReadInv
    BY DEF IInv
  <2>2. link = "up" /\ pc = "send" /\ replied - received = ReplyPath
    BY DEF BlockEachOther, Unread
  <2>3. /\ s \in Requests /\ LastItem = Len(s) /\ LastItem \in Nat \ {0}
        /\ Served = Got(s, taken) /\ Served \in 0 .. LastItem /\ at \in Nat
    BY <2>1, Here
  <2>4. /\ received \in Nat /\ replied \in Nat
        /\ taken \in Nat /\ written \in Nat /\ taken <= written
        /\ replied <= Answered(s, Served) /\ at >= 1
    BY <2>1, <2>3 DEF Types
  <2>5. at <= Len(s) /\ written < Sent(s, at) /\ Answered(s, at - 1) <= received
    BY <2>1, <2>2 DEF PlaceInv, ReadInv
  <2> HIDE DEF s
  <2>6. at \in 1 .. Len(s) /\ at \in 0 .. Len(s) /\ at - 1 \in 0 .. Len(s)
        /\ Served \in 0 .. Len(s)
    BY <2>3, <2>4, <2>5
  <2>7. Sent(s, at) \in Nat /\ Answered(s, at - 1) \in Nat /\ Answered(s, Served) \in Nat
    BY <2>3, <2>6, Positions
  <2>8. ~(Sent(s, at) <= taken)
    BY <2>4, <2>5, <2>7
  <2>9. ~(at <= Served)
    BY <2>3, <2>4, <2>6, <2>8, ServedAreFirst
  <2>10. Served <= at - 1
    BY <2>6, <2>9
  <2>11. Answered(s, Served) <= Answered(s, at - 1)
    BY <2>3, <2>6, <2>10, Positions
  <2>12. ReplyPath \in Nat \ {0}
    BY SocketAssumption
  <2>13. QED
    BY <2>2, <2>4, <2>5, <2>7, <2>11, <2>12
<1>2. QED
  BY <1>1, Invariant, PTL

\* A client without a server comes to its end within two requests of the reset, one
\* that raises exceptions within one (client-socket.c:69-146, tcp-client.py:41-55).
THEOREM GoesOnShortly == Spec => []EndsSoonAfterReset
<1>1. IInv => EndsSoonAfterReset
  <2> SUFFICES ASSUME IInv, resetAt > 0
               PROVE  at <= resetAt + (IF test.raises THEN 1 ELSE 2)
    BY DEF EndsSoonAfterReset
  <2>1. Types /\ ResetInv
    BY DEF IInv
  <2>2. test.raises \in BOOLEAN /\ LastItem \in Nat /\ LastItem = Len(test.items)
        /\ at \in Nat
    BY <2>1, Here
  <2>3. resetAt \in Nat
    BY <2>1, <2>2 DEF Types
  <2>4. at <= resetAt + (IF link = "reset" \/ test.raises THEN 1 ELSE 2)
    BY <2>1 DEF ResetInv
  <2>5. QED
    BY <2>2, <2>3, <2>4
<1>2. QED
  BY <1>1, Invariant, PTL
==============================================================================
