------------------------------- MODULE MultiMap -------------------------------
(***************************************************************************)
(* What hashtable.h promises: a collection of (key, pointer) items that    *)
(* allows duplicate keys; search returns the pointer of some item with the *)
(* key, or NULL when there is none; delete takes away an item with the key *)
(* if there is one. When there are several it may take more than one:      *)
(* which, is left to the implementation.                                   *)
(***************************************************************************)
EXTENDS Bags

CONSTANTS Keys, Pointers, NULL

VARIABLES
    items,  \* bag of [key, p] records
    call,   \* the last call and its result
    alive   \* FALSE once a call did not return

vars == <<items, call, alive>>

Returned(op, k, p) == call' = [op |-> op, key |-> k, p |-> p]

WithKey(k) == {i \in BagToSet(items) : i.key = k}

Init ==
    /\ items = EmptyBag
    /\ call = [op |-> "none", key |-> 0, p |-> NULL]
    /\ alive = FALSE

Create == ~alive /\ items' = EmptyBag /\ Returned("create", 0, NULL) /\ alive' = TRUE

Insert(k, p) ==
    /\ alive
    /\ items' = items (+) SetToBag({[key |-> k, p |-> p]})
    /\ Returned("insert", k, p)
    /\ UNCHANGED alive

\* An insertion that failed, as its return value says.
InsertFails(k) ==
    /\ alive
    /\ Returned("insert", k, NULL)
    /\ UNCHANGED <<items, alive>>

Search(k) ==
    /\ alive
    /\ IF WithKey(k) = {} THEN Returned("search", k, NULL)
       ELSE \E i \in WithKey(k) : Returned("search", k, i.p)
    /\ UNCHANGED <<items, alive>>

Delete(k) ==
    /\ alive
    /\ Returned("delete", k, NULL)
    /\ IsABag(items') /\ items' \sqsubseteq items
    /\ \A i \in BagToSet(items) :
        i.key # k => i \in BagToSet(items') /\ items'[i] = items[i]
    /\ WithKey(k) # {} => items' # items
    /\ UNCHANGED alive

\* The table is freed, or a call crashed.
End == alive' = FALSE /\ items' = EmptyBag /\ Returned("end", 0, NULL)

Next ==
    \/ Create
    \/ End
    \/ \E k \in Keys :
        InsertFails(k) \/ Search(k) \/ Delete(k) \/ \E p \in Pointers : Insert(k, p)

Spec == Init /\ [][Next]_vars
=============================================================================
