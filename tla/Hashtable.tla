------------------------------ MODULE Hashtable ------------------------------
(***************************************************************************)
(* hashtable.c: an array of slots, each an item with a chain behind it.    *)
(* async-client.c keeps one per thread, from queue pair numbers to         *)
(* connections; it inserts and searches and never deletes.                 *)
(***************************************************************************)
EXTENDS Integers, Sequences, SequencesExt

CONSTANTS
    Keys,     \* the int32_t keys callers use
    Pointers, \* the void pointers callers insert
    NULL,
    Requests, \* sizes asked of hashtable_create
    Primes,   \* kPrime, ascending
    MaxItems, \* bound on the items in the table
    Copies,   \* bound on the items with one key
    Deletes   \* whether the caller calls hashtable_delete

ASSUME HashtableAssumption ==
    /\ Keys \subseteq Int
    /\ NULL \notin Pointers  \* async-client.c:310 inserts connections
    /\ Requests \subseteq Nat
    /\ Primes \in Seq(Nat \ {0}) /\ Primes # <<>>
    /\ \A i \in 1 .. Len(Primes) - 1 : Primes[i] < Primes[i + 1]

VARIABLES
    state,  \* "none", "live", "freed" or "crashed"
    size,   \* h->size
    T,      \* T[i]: the item in slot i, and the items chained behind it
    call    \* the last call, its key and its result

vars == <<state, size, T, call>>

\* An insertion answers with its pointer or, failing, NULL; a search with what it
\* found.
Returned(op, k, p) == call' = [op |-> op, key |-> k, p |-> p]

Items == [key : Keys \cup {0}, p : Pointers \cup {NULL}]
EmptySlot == [key |-> 0, p |-> NULL, next |-> <<>>]

\* All the items of a slot, its own first.
Chain(slot) == <<[key |-> slot.key, p |-> slot.p]>> \o slot.next

Stored == UNION {{<<i, j>> : j \in {n \in DOMAIN Chain(T[i]) : Chain(T[i])[n].p # NULL}}
                 : i \in DOMAIN T}
StoredWith(k) == {s \in Stored : Chain(T[s[1]])[s[2]].key = k}

\* key % h->size, with the int32_t key converted to a 64-bit size_t first.
calc_hash(key) ==
    LET pow[n \in 0 .. 64] == IF n = 0 THEN 1 % size ELSE (2 * pow[n - 1]) % size
    IN IF key >= 0 THEN key % size ELSE (pow[64] + key) % size

\* The number of slots for a request, 0 when hashtable_create refuses it.
BookedSize(request) ==
    LET wanted == (request * 3) \div 2
    IN IF wanted > Last(Primes) THEN 0
       ELSE Primes[Min({i \in DOMAIN Primes : wanted <= Primes[i]})]

\* Mutant of Walk: what hangs behind an unlinked item goes with it.
WalkCuts(chain, k) ==
    LET found == {i \in DOMAIN chain : chain[i].key = k}
    IN IF found = {} THEN chain ELSE SubSeq(chain, 1, Min(found) - 1)

\* The while loop of hashtable_delete over the chain behind the slot's item: what
\* is left of it from position i on, where chain[i] is iter->next. After an item
\* is unlinked iter moves on to the one behind it without looking at its key.
Walk(chain, k) ==
    LET left[i \in 1 .. Len(chain) + 2] ==
            IF i > Len(chain) THEN <<>>
            ELSE IF chain[i].key # k THEN <<chain[i]>> \o left[i + 1]
            ELSE IF i = Len(chain) THEN <<>>
            ELSE <<chain[i + 1]>> \o left[i + 2]
    IN left[1]

\* The walk that unlinks the last item steps on to NULL and reads its next.
WalkCrashes(chain, k) ==
    LET crash[i \in 1 .. Len(chain) + 2] ==
            /\ i <= Len(chain)
            /\ IF chain[i].key = k THEN i = Len(chain) \/ crash[i + 2]
               ELSE crash[i + 1]
    IN crash[1]
------------------------------------------------------------------------------
Init ==
    /\ state = "none" /\ size = 0 /\ T = <<>>
    /\ call = [op |-> "none", key |-> 0, p |-> NULL]

hashtable_create(request) ==
    /\ state = "none"
    /\ BookedSize(request) # 0
    /\ state' = "live"
    /\ size' = BookedSize(request)
    /\ T' = [i \in 0 .. size' - 1 |-> EmptySlot]
    /\ Returned("create", 0, NULL)

hashtable_free ==
    /\ state = "live"
    /\ state' = "freed"
    /\ T' = <<>>
    /\ Returned("end", 0, NULL)
    /\ UNCHANGED size

\* The slot's own item if that is free, otherwise right behind it. Without memory
\* for a chained item nothing changes and -1 is returned.
hashtable_insert(key, p) ==
    /\ state = "live"
    /\ Cardinality(Stored) < MaxItems /\ Cardinality(StoredWith(key)) < Copies
    /\ LET hashv == calc_hash(key)
       IN \/ /\ T[hashv].p = NULL
             /\ T' = [T EXCEPT ![hashv].key = key, ![hashv].p = p]
             /\ Returned("insert", key, p)
          \/ /\ T[hashv].p # NULL
             /\ T' = [T EXCEPT ![hashv].next = <<[key |-> key, p |-> p]>> \o @]
             /\ Returned("insert", key, p)
          \/ /\ T[hashv].p # NULL
             /\ UNCHANGED T
             /\ Returned("insert", key, NULL)
    /\ UNCHANGED <<state, size>>

\* The first item of the chain with the key; an empty slot has key 0, p NULL.
hashtable_search(key) ==
    /\ state = "live"
    /\ LET chain == Chain(T[calc_hash(key)])
           found == {i \in DOMAIN chain : chain[i].key = key}
       IN Returned("search", key, IF found = {} THEN NULL ELSE chain[Min(found)].p)
    /\ UNCHANGED <<state, size, T>>

\* Mutant of hashtable_delete: the slot's item is cleared whatever hangs behind it.
hashtable_deleteClears(key) ==
    /\ Deletes /\ state = "live"
    /\ LET hashv == calc_hash(key)
           item == T[hashv]
       IN \/ item.p = NULL /\ UNCHANGED <<state, T>>
          \/ /\ item.p # NULL /\ item.key = key
             /\ T' = [T EXCEPT ![hashv].key = 0, ![hashv].p = NULL]
             /\ UNCHANGED state
          \/ /\ item.p # NULL /\ item.key # key
             /\ IF WalkCrashes(item.next, key)
                THEN state' = "crashed" /\ T' = <<>>
                ELSE T' = [T EXCEPT ![hashv].next = Walk(@, key)] /\ UNCHANGED state
    /\ IF state' = "crashed" THEN Returned("end", 0, NULL)
       ELSE Returned("delete", key, NULL)
    /\ UNCHANGED size

\* The slot's own item is replaced by the one behind it; one further on is
\* unlinked by the walk.
hashtable_delete(key) ==
    /\ Deletes /\ state = "live"
    /\ LET hashv == calc_hash(key)
           item == T[hashv]
       IN \/ item.p = NULL /\ UNCHANGED <<state, T>>
          \/ /\ item.p # NULL /\ item.key = key
             /\ T' = [T EXCEPT ![hashv] =
                        IF item.next = <<>> THEN EmptySlot
                        ELSE [key |-> Head(item.next).key, p |-> Head(item.next).p,
                              next |-> Tail(item.next)]]
             /\ UNCHANGED state
          \/ /\ item.p # NULL /\ item.key # key
             /\ IF WalkCrashes(item.next, key)
                THEN state' = "crashed" /\ T' = <<>>
                ELSE T' = [T EXCEPT ![hashv].next = Walk(@, key)] /\ UNCHANGED state
    /\ IF state' = "crashed" THEN Returned("end", 0, NULL)
       ELSE Returned("delete", key, NULL)
    /\ UNCHANGED size

Next ==
    \/ \E request \in Requests : hashtable_create(request)
    \/ hashtable_free
    \/ \E key \in Keys :
        \/ \E p \in Pointers : hashtable_insert(key, p)
        \/ hashtable_search(key)
        \/ hashtable_delete(key)

Spec == Init /\ [][Next]_vars
------------------------------------------------------------------------------
\* Every item is where a search for its key looks, and no chain hangs behind an
\* empty slot, which hashtable_delete would take for an empty chain
\* (hashtable.c:69-85, 107-120).
ItemsReachable ==
    \A i \in DOMAIN T :
        /\ \A n \in DOMAIN Chain(T[i]) :
             Chain(T[i])[n].p # NULL => calc_hash(Chain(T[i])[n].key) = i
        /\ T[i].p = NULL => T[i].next = <<>>

\* The items with key k of every chain, each with its rank: in which order a search
\* meets them.
Meets(table, k) ==
    [i \in DOMAIN table |->
        LET chain == Chain(table[i])
            met == {n \in DOMAIN chain : chain[n].p # NULL /\ chain[n].key = k}
        IN {<<Cardinality({m \in met : m <= n}), chain[n]>> : n \in met}]

\* hashtable_delete(k) that returns neither touches nor reorders an item with
\* another key, and when there was one with key k there are fewer now
\* (hashtable.c:109-131).
DeleteOnlyItsKey ==
    [][\A k \in Keys : hashtable_delete(k) /\ state' = "live" =>
        /\ \A other \in Keys \ {k} : Meets(T', other) = Meets(T, other)
        /\ StoredWith(k) # {} => Cardinality(StoredWith(k)') < Cardinality(StoredWith(k))]_vars

\* "Delete a item in hashtable": hashtable_delete returns (hashtable.h:72).
DeleteReturns == state # "crashed"

\* The multimap the table stands for.
ItemAt(s) == Chain(T[s[1]])[s[2]]
ItemBag == [item \in {ItemAt(s) : s \in Stored} |->
                Cardinality({s \in Stored : ItemAt(s) = item})]

MM == INSTANCE MultiMap WITH
        items <- ItemBag, alive <- (state = "live")

\* The table is the multimap its header describes, with duplicate keys as well:
\* what was inserted is found until it is deleted, a search never returns another
\* key's pointer, and a delete that returns took an item if there was one, and
\* only items with its key (hashtable.h:49-78).
ImplementsMultiMap == MM!Spec
=============================================================================
