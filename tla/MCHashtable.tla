----------------------------- MODULE MCHashtable -----------------------------
(***************************************************************************)
(* Instances of Hashtable for TLC. Two or three slots make long chains.    *)
(***************************************************************************)
EXTENDS Hashtable

\* 0 is also what an empty slot holds; -1 is hashed as 2^64 - 1.
SomeKeys == {-1, 0, 2, 4}
EvenKeys == {0, 2, 4, 6}
SmallPrimes == <<2, 3>>
=============================================================================
