---------------------------- MODULE NotifiedQueue ----------------------------
(***************************************************************************)
(* What an event driven consumer of a completion queue promises, whatever  *)
(* notification protocol it uses: it never goes to sleep while there is    *)
(* something left to consume, and an arrival wakes it.                     *)
(*                                                                         *)
(* LibeventServer implements this module with one-shot notifications       *)
(* (ibv_req_notify_cq), an event channel and a poll loop.                  *)
(***************************************************************************)
EXTENDS Naturals

VARIABLES
    pending,  \* number of entries waiting in the queue
    awake,    \* TRUE when the consumer is bound to look at the queue again
    dead      \* TRUE once the consumer's process is gone

vars == <<pending, awake, dead>>

TypeOK ==
    /\ pending \in Nat
    /\ awake \in BOOLEAN
    /\ dead \in BOOLEAN

Init ==
    /\ pending = 0
    /\ awake = FALSE
    /\ dead = FALSE

\* An entry arrives. Whoever was asleep is woken by it.
Add ==
    /\ ~dead
    /\ pending' = pending + 1
    /\ awake' = TRUE
    /\ UNCHANGED dead

\* The consumer takes some of the entries; it may stop looking only when it
\* left none behind.
Take ==
    /\ awake /\ ~dead
    /\ pending' \in 0 .. (pending - 1)
    /\ awake' \in BOOLEAN
    /\ pending' > 0 => awake'
    /\ UNCHANGED dead

\* The consumer looked, found nothing, and goes to sleep.
Sleep ==
    /\ awake /\ ~dead
    /\ pending = 0
    /\ awake' = FALSE
    /\ UNCHANGED <<pending, dead>>

\* The consumer's process ends; it will not look again.
Die ==
    /\ dead' = TRUE
    /\ awake' = FALSE
    /\ UNCHANGED pending

Next == Add \/ Take \/ Sleep \/ Die

\* Weak fairness of Take: a consumer that is awake and alive does get to the
\* entries. CanTake is where Take is enabled, written out so that an
\* implementation can be mapped to it.
CanTake == awake /\ ~dead /\ pending > 0
Fairness == []<>~CanTake \/ []<><<Take>>_vars

SafeSpec == Init /\ [][Next]_vars
Spec == SafeSpec /\ Fairness

\* The promise: with an entry in the queue, a living consumer is not asleep.
NeverAsleepWithWork == pending > 0 => awake \/ dead
=============================================================================
