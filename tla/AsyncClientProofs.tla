--------------------------- MODULE AsyncClientProofs ---------------------------
(***************************************************************************)
(* A thread of async-client.c never sleeps on a completion and never has   *)
(* two requests outstanding: for any number of threads, buffers, messages  *)
(* and failures.                                                           *)
(***************************************************************************)
EXTENDS AsyncClient, SequenceTheorems, TLAPS

\* Whether events of queue k are in channel c, and whether it is one at most.
Named(c, k) == \E i \in DOMAIN c : c[i] = k
Once(c, k) == \A i, j \in DOMAIN c : c[i] = k /\ c[j] = k => i = j

Held(t, k) == polling[t] = k /\ pc[t] = "notify"

Starting == {"none", "init", "build", "test"}

\* Before its first request a thread has nothing on its way, and a handler has
\* completions exactly while it works on them.
StartInv(t) ==
    /\ pc[t] \in Starting =>
        /\ sq[t] = 0 /\ requests[t] = 0 /\ channel[t] = <<>>
        /\ \A k \in Cqs : cq[t][k] = <<>>
    /\ pc[t] \in {"none", "init"} => armed[t] = {}
    /\ pc[t] = "work" <=> batch[t] # <<>>

\* Replies fit into the buffers, and only one is waited for.
CountInv(t) == srq[t] + RepliesAtHand(t) <= Buffs /\ InFlight(t) <= 1

\* Where the notification of queue k is.
TokenInv(t, k) ==
    /\ Once(channel[t], k)
    /\ k \in armed[t] => ~Named(channel[t], k)
    /\ Held(t, k) => ~Named(channel[t], k) /\ k \notin armed[t]
    /\ faults = 0 /\ pc[t] \notin {"none", "init"} =>
        k \in armed[t] \/ Named(channel[t], k) \/ Held(t, k)

\* Completions of queue k are going to be polled.
WakeInv(t, k) ==
    faults = 0 /\ cq[t][k] # <<>> => Named(channel[t], k) \/ Busy(t, k)

ThreadInv(t) ==
    /\ StartInv(t) /\ CountInv(t)
    /\ \A k \in Cqs : TokenInv(t, k) /\ WakeInv(t, k)

\* A bad completion means the queue pair is broken, and that something failed.
StatusInv(t) ==
    /\ qp[t] # "err" =>
        batch[t] \in Seq({"ok"}) /\ \A k \in Cqs : cq[t][k] \in Seq({"ok"})
    /\ faults = 0 => qp[t] # "err"
    /\ pc[t] \in {"test", "loop", "notify", "poll", "work"} => qp[t] # "none"

\* The receive buffers of a thread and the turn of its messages.
RingInv(t) ==
    faults = 0 => srq[t] + RepliesAtHand(t) \in {0, Buffs}
                  /\ index[t] = totalRecv[t] % NumMrs

IInv ==
    TypeOK /\ \A t \in Threads : ThreadInv(t) /\ StatusInv(t) /\ RingInv(t)
------------------------------------------------------------------------------
\* An event enters the channel (async-client.c:335).
LEMMA NamedAppend ==
    ASSUME NEW c \in Seq(Cqs), NEW j \in Cqs, NEW k \in Cqs
    PROVE  /\ Append(c, j) \in Seq(Cqs)
           /\ Named(Append(c, k), k)
           /\ j # k => (Named(Append(c, j), k) <=> Named(c, k))
           /\ j # k /\ Once(c, k) => Once(Append(c, j), k)
           /\ ~Named(c, k) => Once(Append(c, k), k)
<1> DEFINE d == Append(c, j)
<1>1. d \in Seq(Cqs) /\ Len(d) = Len(c) + 1 /\ Len(c) \in Nat
  OBVIOUS
<1>2. DOMAIN c = 1 .. Len(c) /\ DOMAIN d = 1 .. Len(c) + 1
  BY <1>1
<1>3. d[Len(c) + 1] = j /\ \A i \in 1 .. Len(c) : d[i] = c[i]
  OBVIOUS
<1>4. j # k => (Named(d, k) <=> Named(c, k))
  BY <1>1, <1>2, <1>3 DEF Named
<1>5. j # k /\ Once(c, k) => Once(d, k)
  BY <1>1, <1>2, <1>3 DEF Once
<1>6. j = k => Named(d, k)
  BY <1>1, <1>2, <1>3 DEF Named
<1>7. j = k /\ ~Named(c, k) => Once(d, k)
  BY <1>1, <1>2, <1>3 DEF Once, Named
<1> DEFINE e == Append(c, k)
<1>8. Len(e) = Len(c) + 1 /\ DOMAIN e = 1 .. Len(c) + 1 /\ e[Len(c) + 1] = k
      /\ \A i \in 1 .. Len(c) : e[i] = c[i]
  OBVIOUS
<1>9. Named(e, k)
  BY <1>1, <1>8 DEF Named
<1>10. ~Named(c, k) => Once(e, k)
  BY <1>1, <1>2, <1>8 DEF Once, Named
<1>11. QED
  BY <1>1, <1>4, <1>5, <1>9, <1>10

\* The handler gets the oldest event (async-client.c:335).
LEMMA NamedTail ==
    ASSUME NEW c \in Seq(Cqs), c # <<>>, NEW k \in Cqs, Once(c, k)
    PROVE  /\ Head(c) \in Cqs /\ Tail(c) \in Seq(Cqs)
           /\ Named(c, Head(c))
           /\ Once(Tail(c), k)
           /\ k # Head(c) => (Named(Tail(c), k) <=> Named(c, k))
           /\ k = Head(c) => ~Named(Tail(c), k)
<1> DEFINE d == Tail(c)
<1>1. Len(c) \in Nat /\ Len(c) > 0 /\ DOMAIN c = 1 .. Len(c)
      /\ d \in Seq(Cqs) /\ Len(d) = Len(c) - 1
  OBVIOUS
<1>2. DOMAIN d = 1 .. Len(c) - 1 /\ \A i \in 1 .. Len(c) - 1 : d[i] = c[i + 1]
  OBVIOUS
<1>3. Head(c) = c[1] /\ Head(c) \in Cqs /\ 1 \in DOMAIN c
  OBVIOUS
<1>4. Once(d, k)
  <2>1. ASSUME NEW i \in 1 .. Len(c) - 1, NEW j \in 1 .. Len(c) - 1, d[i] = k, d[j] = k
        PROVE  i = j
    <3>1. i + 1 \in DOMAIN c /\ j + 1 \in DOMAIN c /\ c[i + 1] = k /\ c[j + 1] = k
      BY <1>1, <1>2, <2>1
    <3>2. i + 1 = j + 1
      BY <3>1 DEF Once
    <3>3. QED
      BY <3>2, <1>1
  <2>2. QED
    BY <2>1, <1>2 DEF Once
<1>5. k # Head(c) => (Named(d, k) <=> Named(c, k))
  <2>1. ASSUME NEW i \in DOMAIN d, d[i] = k PROVE Named(c, k)
    <3>1. i + 1 \in DOMAIN c /\ c[i + 1] = k
      BY <1>1, <1>2, <2>1
    <3>2. QED
      BY <3>1 DEF Named
  <2>2. ASSUME NEW i \in DOMAIN c, c[i] = k, k # Head(c) PROVE Named(d, k)
    <3>1. i - 1 \in DOMAIN d /\ d[i - 1] = k
      BY <1>1, <1>2, <1>3, <2>2
    <3>2. QED
      BY <3>1 DEF Named
  <2>3. QED
    BY <2>1, <2>2 DEF Named
<1>6. k = Head(c) => ~Named(d, k)
  <2>1. ASSUME NEW i \in DOMAIN d, d[i] = k, k = c[1] PROVE FALSE
    <3>1. i + 1 \in DOMAIN c /\ c[i + 1] = k
      BY <1>1, <1>2, <2>1
    <3>2. i + 1 = 1
      BY <3>1, <2>1, <1>3 DEF Once
    <3>3. QED
      BY <3>2, <1>1, <1>2
  <2>2. QED
    BY <2>1, <1>3 DEF Named
<1>7. QED
  BY <1>1, <1>3, <1>4, <1>5, <1>6 DEF Named

\* What is behind a batch, by its length (async-client.c:349).
LEMMA LengthOfRest ==
    ASSUME NEW S, NEW q \in Seq(S), NEW a \in Nat \ {0}, a <= Len(q)
    PROVE  Len(SubSeq(q, a, Len(q))) = Len(q) - a + 1
OBVIOUS

\* ibv_poll_cq takes the oldest completions and leaves the rest (async-client.c:349).
LEMMA BatchOf ==
    ASSUME NEW S, NEW q \in Seq(S), NEW n \in 0 .. Len(q)
    PROVE  /\ SubSeq(q, 1, n) \in Seq(S) /\ Len(SubSeq(q, 1, n)) = n
           /\ SubSeq(q, n + 1, Len(q)) \in Seq(S)
           /\ Len(SubSeq(q, n + 1, Len(q))) = Len(q) - n
<1>1. n \in Nat /\ Len(q) \in Nat /\ n <= Len(q)
  OBVIOUS
<1>2. SubSeq(q, 1, n) \in Seq(S) /\ Len(SubSeq(q, 1, n)) = n
  BY <1>1
<1>3. SubSeq(q, n + 1, Len(q)) \in Seq(S)
  <2>1. \A i \in n + 1 .. Len(q) : q[i] \in S
    BY <1>1
  <2>2. n + 1 \in Int /\ Len(q) \in Int
    BY <1>1
  <2>3. QED
    BY <2>1, <2>2, SubSeqProperties, Zenon
<1>4. Len(SubSeq(q, n + 1, Len(q))) = Len(q) - n
  <2>1. CASE n = Len(q)
    <3>1. Len(q) < n + 1 /\ n + 1 \in Int /\ Len(q) \in Int /\ Len(q) - n = 0
      BY <1>1, <2>1
    <3>2. SubSeq(q, n + 1, Len(q)) = <<>>
      BY <3>1, SubSeqEmpty, Zenon
    <3>3. QED
      BY <3>1, <3>2, EmptySeq, Zenon
  <2>2. CASE n < Len(q)
    <3>1. n + 1 \in Nat \ {0} /\ n + 1 <= Len(q) /\ Len(q) - (n + 1) + 1 = Len(q) - n
      BY <1>1, <2>2
    <3>2. Len(SubSeq(q, n + 1, Len(q))) = Len(q) - (n + 1) + 1
      BY <3>1, LengthOfRest, Zenon
    <3>3. QED
      BY <3>1, <3>2, Zenon
  <2>3. n = Len(q) \/ n < Len(q)
    BY <1>1
  <2>4. QED
    BY <2>1, <2>2, <2>3, Zenon
<1>5. QED
  BY <1>1, <1>2, <1>3, <1>4, Zenon

\* A completion enters a queue (async-client.c:349).
LEMMA AppendStatus ==
    ASSUME NEW q \in Seq({"ok", "error"}), NEW s \in {"ok", "error"}
    PROVE  /\ Append(q, s) \in Seq({"ok", "error"}) /\ Len(Append(q, s)) = Len(q) + 1
           /\ Append(q, s) # <<>> /\ Len(q) \in Nat
OBVIOUS

\* A completion of the batch is done with (async-client.c:351-356).
LEMMA TailStatus ==
    ASSUME NEW q \in Seq({"ok", "error"}), q # <<>>
    PROVE  /\ Tail(q) \in Seq({"ok", "error"}) /\ Len(Tail(q)) = Len(q) - 1
           /\ Len(q) \in Nat \ {0}
OBVIOUS

\* A step of thread t or of its adapter.
Step(t) == HcaNext(t) \/ ThreadNext(t)

\* Thread u and its adapter did nothing.
Same(u) ==
    /\ pc'[u] = pc[u] /\ polling'[u] = polling[u] /\ batch'[u] = batch[u]
    /\ full'[u] = full[u] /\ ackEvents'[u] = ackEvents[u]
    /\ srq'[u] = srq[u] /\ sq'[u] = sq[u] /\ requests'[u] = requests[u]
    /\ cq'[u] = cq[u] /\ armed'[u] = armed[u] /\ channel'[u] = channel[u]
    /\ qp'[u] = qp[u]
    /\ index'[u] = index[u] /\ totalRecv'[u] = totalRecv[u]

\* Threads share nothing but the process and the number of failures.
LEMMA OthersSame ==
    ASSUME TypeOK, NEW t \in Threads, NEW u \in Threads, u # t, Step(t)
    PROVE  Same(u)
<1> USE DEF TypeOK, ThreadTypeOK, CountTypeOK, QueueTypeOK, CqTypeOK, Same, threadVars,
            countVars, queueVars, cqVars, Goto
<1>1. CASE HcaSend(t)
  BY <1>1 DEF HcaSend, Complete
<1>2. CASE HcaSendFails(t)
  BY <1>2 DEF HcaSendFails, Complete
<1>3. CASE ServerReplies(t)
  BY <1>3 DEF ServerReplies, Complete
<1>4. CASE ServerDrops(t)
  BY <1>4 DEF ServerDrops
<1>5. CASE Spawn(t)
  BY <1>5 DEF Spawn
<1>6. CASE InitResources(t)
  BY <1>6 DEF InitResources
<1>7. CASE BuildConnection(t)
  BY <1>7 DEF BuildConnection
<1>8. CASE ThreadGivesUp(t)
  BY <1>8 DEF ThreadGivesUp
<1>9. CASE InitCrash(t)
  BY <1>9 DEF InitCrash
<1>10. CASE StartTest(t)
  BY <1>10 DEF StartTest, send_mr
<1>11. CASE StartTestPartly(t)
  <2>1. PICK i \in 0 .. NumMrs - 1 :
          IF i = 0
          THEN process' = "crashed" /\ UNCHANGED <<badMrs, pc, sq, requests>>
          ELSE /\ badMrs' = [badMrs EXCEPT ![t] = {i}]
               /\ Goto(t, "loop")
               /\ sq' = [sq EXCEPT ![t] = 1]
               /\ requests' = [requests EXCEPT ![t] = 1]
               /\ UNCHANGED process
    BY <1>11 DEF StartTestPartly
  <2>2. pc'[u] = pc[u] /\ sq'[u] = sq[u] /\ requests'[u] = requests[u]
    <3>1. CASE i = 0
      BY <2>1, <3>1
    <3>2. CASE i # 0
      BY <2>1, <3>2
    <3>3. QED
      BY <3>1, <3>2
  <2>3. QED
    BY <1>11, <2>2 DEF StartTestPartly
<1>12. CASE EventAddFails(t)
  BY <1>12 DEF EventAddFails
<1>13. CASE GetCqEvent(t)
  BY <1>13 DEF GetCqEvent
<1>14. CASE ReqNotify(t)
  BY <1>14 DEF ReqNotify
<1>15. CASE PollCq(t)
  BY <1>15 DEF PollCq
<1>16. CASE PollEventFails(t)
  BY <1>16 DEF PollEventFails
<1>17. CASE HandleBadCompletion(t)
  BY <1>17 DEF HandleBadCompletion, NextCompletion
<1>18. CASE handle_send_regmem(t)
  BY <1>18 DEF handle_send_regmem, NextCompletion
<1>19. CASE ExitAtLastReply(t)
  BY <1>19 DEF ExitAtLastReply
<1>20. CASE handle_recv_regmem(t)
  BY <1>20 DEF handle_recv_regmem, NextCompletion, send_mr
<1>21. CASE PostRecvFails(t)
  BY <1>21 DEF PostRecvFails, NextCompletion
<1>22. CASE SendNullMr(t)
  BY <1>22 DEF SendNullMr
<1>23. QED
  BY <1>1, <1>2, <1>3, <1>4, <1>5, <1>6, <1>7, <1>8, <1>9, <1>10, <1>11, <1>12,
     <1>13, <1>14, <1>15, <1>16, <1>17, <1>18, <1>19, <1>20, <1>21, <1>22 DEF
     Step, HcaNext, ThreadNext, StartNext, PollNext, WorkNext

\* What thread t finds, by type.
LEMMA Here ==
    ASSUME TypeOK, NEW t \in Threads
    PROVE  /\ pc[t] \in Pcs /\ polling[t] \in Cqs /\ full[t] \in BOOLEAN
           /\ batch[t] \in Seq({"ok", "error"}) /\ Len(batch[t]) \in Nat
           /\ ackEvents[t] \in 0 .. AckEvents - 1 /\ totalRecv[t] \in 0 .. Requests
           /\ index[t] \in 0 .. NumMrs - 1
           /\ qp[t] \in {"none", "rts", "err"}
           /\ srq[t] \in 0 .. Buffs /\ sq[t] \in 0 .. MaxSendWr /\ requests[t] \in Nat
           /\ \A k \in Cqs : cq[t][k] \in Seq({"ok", "error"}) /\ Len(cq[t][k]) \in Nat
           /\ cq[t]["send"] \in Seq({"ok", "error"}) /\ Len(cq[t]["send"]) \in Nat
           /\ cq[t]["recv"] \in Seq({"ok", "error"}) /\ Len(cq[t]["recv"]) \in Nat
           /\ armed[t] \subseteq Cqs /\ channel[t] \in Seq(Cqs)
           /\ faults \in Nat
<1>1. pc[t] \in Pcs /\ polling[t] \in Cqs /\ full[t] \in BOOLEAN /\ faults \in Nat
      /\ batch[t] \in Seq({"ok", "error"})
  BY ClientAssumption DEF TypeOK, ThreadTypeOK
<1>2. /\ ackEvents[t] \in 0 .. AckEvents - 1 /\ totalRecv[t] \in 0 .. Requests
      /\ index[t] \in 0 .. NumMrs - 1
  BY DEF TypeOK, CountTypeOK
<1>3. /\ qp[t] \in {"none", "rts", "err"}
      /\ srq[t] \in 0 .. Buffs /\ sq[t] \in 0 .. MaxSendWr /\ requests[t] \in Nat
  BY DEF TypeOK, QueueTypeOK
<1>4. \A k \in Cqs : cq[t][k] \in Seq({"ok", "error"})
  BY DEF TypeOK, CqTypeOK
<1>5. armed[t] \subseteq Cqs /\ channel[t] \in Seq(Cqs)
  BY DEF TypeOK, CqTypeOK
<1>6. \A q \in Seq({"ok", "error"}) : Len(q) \in Nat
  OBVIOUS
<1>7. cq[t]["send"] \in Seq({"ok", "error"}) /\ cq[t]["recv"] \in Seq({"ok", "error"})
  BY <1>4 DEF Cqs
<1>8. QED
  BY <1>1, <1>2, <1>3, <1>4, <1>5, <1>6, <1>7

\* The rest of a batch is a batch.
LEMMA NextTypes ==
    ASSUME TypeOK, NEW t \in Threads, ThreadInv(t), pc[t] = "work", NextCompletion(t)
    PROVE  /\ batch' \in [Threads -> Seq({"ok", "error"})] /\ pc' \in [Threads -> Pcs]
           /\ full' \in [Threads -> BOOLEAN]
<1>1. Tail(batch[t]) \in Seq({"ok", "error"})
  BY Here, TailStatus DEF ThreadInv, StartInv
<1>2. batch' \in [Threads -> Seq({"ok", "error"})]
  BY <1>1 DEF NextCompletion, TypeOK, ThreadTypeOK
<1>3. pc' \in [Threads -> Pcs] /\ full' \in [Threads -> BOOLEAN]
  BY DEF NextCompletion, Goto, Pcs, TypeOK, ThreadTypeOK
<1>4. QED
  BY <1>2, <1>3

\* Where the threads are.
LEMMA ThreadTypeStep ==
    ASSUME TypeOK, NEW t \in Threads, ThreadInv(t), Step(t)
    PROVE  ThreadTypeOK'
<1>a. faults' \in 0 .. MaxFaults
  <2>1. Fault => faults' \in 0 .. MaxFaults
    BY ClientAssumption DEF Fault, TypeOK, ThreadTypeOK
  <2>2. faults' = faults => faults' \in 0 .. MaxFaults
    BY DEF TypeOK, ThreadTypeOK
  <2>3. Fault \/ faults' = faults
    BY DEF Step, HcaNext, ThreadNext, StartNext, PollNext, WorkNext, HcaSend,
           HcaSendFails, ServerReplies, ServerDrops, Spawn, InitResources,
           BuildConnection, ThreadGivesUp, InitCrash, StartTest, StartTestPartly,
           EventAddFails, GetCqEvent, ReqNotify, PollCq, PollEventFails,
           HandleBadCompletion, handle_send_regmem, ExitAtLastReply,
           handle_recv_regmem, PostRecvFails, SendNullMr, send_mr
  <2>4. QED
    BY <2>1, <2>2, <2>3
<1> USE <1>a DEF TypeOK, ThreadTypeOK, Pcs, Goto, threadVars
<1>1. CASE \/ HcaNext(t) \/ InitCrash(t) \/ ExitAtLastReply(t) \/ SendNullMr(t)
  BY <1>1 DEF HcaNext, HcaSend, HcaSendFails, ServerReplies, ServerDrops, InitCrash,
              ExitAtLastReply, SendNullMr
<1>2. CASE \/ Spawn(t) \/ InitResources(t) \/ BuildConnection(t) \/ ThreadGivesUp(t)
           \/ StartTest(t) \/ EventAddFails(t) \/ ReqNotify(t) \/ PollEventFails(t)
  BY <1>2 DEF Spawn, InitResources, BuildConnection, ThreadGivesUp, StartTest,
              EventAddFails, ReqNotify, PollEventFails
<1>3. CASE StartTestPartly(t)
  <2>1. process' \in {"running", "exited", "crashed"} /\ pc' \in [Threads -> Pcs]
    BY <1>3 DEF StartTestPartly
  <2>2. QED
    BY <1>3, <2>1 DEF StartTestPartly
<1>4. CASE GetCqEvent(t)
  <2>1. Head(channel[t]) \in Cqs
    BY <1>4, Here, NamedTail DEF GetCqEvent, Once
  <2>2. QED
    BY <1>4, <2>1 DEF GetCqEvent
<1>5. CASE PollCq(t)
  <2> DEFINE q == cq[t][polling[t]]
             n == IF Len(q) < PollWcSize THEN Len(q) ELSE PollWcSize
  <2>1. SubSeq(q, 1, n) \in Seq({"ok", "error"})
    <3>1. q \in Seq({"ok", "error"}) /\ n \in 0 .. Len(q)
      BY Here, ClientAssumption
    <3>2. QED
      BY <3>1, BatchOf, Zenon
  <2> HIDE DEF n
  <2>2. batch' \in [Threads -> Seq({"ok", "error"})]
    BY <1>5, <2>1 DEF PollCq, n
  <2>3. full' \in [Threads -> BOOLEAN] /\ pc' \in [Threads -> Pcs]
    BY <1>5 DEF PollCq
  <2>4. QED
    BY <1>5, <2>2, <2>3 DEF PollCq
<1>6. CASE \/ HandleBadCompletion(t) \/ handle_send_regmem(t) \/ handle_recv_regmem(t)
           \/ PostRecvFails(t)
  <2>1. /\ batch' \in [Threads -> Seq({"ok", "error"})] /\ pc' \in [Threads -> Pcs]
        /\ full' \in [Threads -> BOOLEAN]
    BY <1>6, NextTypes DEF HandleBadCompletion, handle_send_regmem, handle_recv_regmem,
                           PostRecvFails, GotReply
  <2>2. QED
    BY <1>6, <2>1 DEF HandleBadCompletion, handle_send_regmem, handle_recv_regmem,
                      PostRecvFails
<1>7. QED
  BY <1>1, <1>2, <1>3, <1>4, <1>5, <1>6 DEF Step, ThreadNext, StartNext, PollNext, WorkNext

\* What they count.
LEMMA CountTypeStep ==
    ASSUME TypeOK, NEW t \in Threads, ThreadInv(t), Step(t)
    PROVE  CountTypeOK'
<1> USE DEF TypeOK, CountTypeOK, countVars
<1>a. next_index(t) \in 0 .. NumMrs - 1
  BY Here, ClientAssumption, SMTT(30) DEF next_index
<1>1. CASE \/ HcaNext(t) \/ Spawn(t) \/ InitResources(t) \/ BuildConnection(t)
           \/ ThreadGivesUp(t) \/ InitCrash(t) \/ StartTest(t) \/ EventAddFails(t)
           \/ ReqNotify(t) \/ PollCq(t) \/ PollEventFails(t) \/ HandleBadCompletion(t)
           \/ handle_send_regmem(t) \/ ExitAtLastReply(t) \/ SendNullMr(t)
  BY <1>1 DEF HcaNext, HcaSend, HcaSendFails, ServerReplies, ServerDrops, Spawn,
              InitResources, BuildConnection, ThreadGivesUp, InitCrash, StartTest,
              EventAddFails, ReqNotify, PollCq, PollEventFails, HandleBadCompletion,
              handle_send_regmem, ExitAtLastReply, SendNullMr
<1>2. CASE StartTestPartly(t)
  <2>1. PICK i \in 0 .. NumMrs - 1 :
          badMrs' = badMrs \/ badMrs' = [badMrs EXCEPT ![t] = {i}]
    BY <1>2 DEF StartTestPartly
  <2>2. badMrs' \in [Threads -> SUBSET (0 .. NumMrs - 1)]
    BY <2>1
  <2>3. QED
    BY <1>2, <2>2 DEF StartTestPartly
<1>3. CASE GetCqEvent(t)
  <2>1. ackEvents' \in [Threads -> 0 .. AckEvents - 1]
    <3> DEFINE n == ackEvents[t] + 1
    <3>1. (IF n = AckEvents THEN 0 ELSE n) \in 0 .. AckEvents - 1
      BY Here, ClientAssumption
    <3>2. QED
      BY <1>3, <3>1 DEF GetCqEvent
  <2>2. QED
    BY <1>3, <2>1 DEF GetCqEvent
<1>4. CASE handle_recv_regmem(t)
  <2>1. totalRecv[t] + 1 \in 0 .. Requests
    BY <1>4, Here, ClientAssumption, SMTT(30) DEF handle_recv_regmem
  <2>2. totalRecv' \in [Threads -> 0 .. Requests]
    BY <1>4, <2>1 DEF handle_recv_regmem
  <2>3. index' \in [Threads -> 0 .. NumMrs - 1]
    BY <1>4, <1>a DEF handle_recv_regmem
  <2>4. QED
    BY <1>4, <2>2, <2>3 DEF handle_recv_regmem
<1>5. CASE PostRecvFails(t)
  <2>1. index' \in [Threads -> 0 .. NumMrs - 1]
    BY <1>5, <1>a DEF PostRecvFails
  <2>2. QED
    BY <1>5, <2>1 DEF PostRecvFails
<1>6. QED
  BY <1>1, <1>2, <1>3, <1>4, <1>5 DEF Step, ThreadNext, StartNext, PollNext, WorkNext

\* What send_mr does (async-client.c:226-250).
LEMMA SendHere ==
    ASSUME TypeOK, NEW t \in Threads, send_mr(t)
    PROVE  /\ sq' \in [Threads -> 0 .. MaxSendWr] /\ requests' \in [Threads -> Nat]
           /\ \/ sq'[t] = sq[t] + 1 /\ requests'[t] \in {requests[t], requests[t] + 1}
              \/ sq' = sq /\ requests' = requests
<1>1. CASE SlotsUsed(t) < MaxSendWr /\ sq' = [sq EXCEPT ![t] = @ + 1]
           /\ requests' = [requests EXCEPT ![t] = IF qp[t] = "rts" THEN @ + 1 ELSE @]
  <2>1. sq[t] + 1 \in 0 .. MaxSendWr
    BY <1>1, Here, ClientAssumption DEF SlotsUsed
  <2>2. sq' \in [Threads -> 0 .. MaxSendWr] /\ sq'[t] = sq[t] + 1
    BY <1>1, <2>1 DEF TypeOK, QueueTypeOK
  <2>3. requests' \in [Threads -> Nat] /\ requests'[t] \in {requests[t], requests[t] + 1}
    BY <1>1 DEF TypeOK, QueueTypeOK
  <2>4. QED
    BY <2>2, <2>3
<1>2. CASE sq' = sq /\ requests' = requests
  BY <1>2 DEF TypeOK, QueueTypeOK
<1>3. QED
  BY <1>1, <1>2 DEF send_mr

\* What is posted.
LEMMA QueueTypeStep ==
    ASSUME TypeOK, NEW t \in Threads, ThreadInv(t), Step(t)
    PROVE  QueueTypeOK'
<1> USE ClientAssumption DEF TypeOK, QueueTypeOK, queueVars
<1>1. CASE \/ Spawn(t) \/ ThreadGivesUp(t) \/ InitCrash(t) \/ GetCqEvent(t) \/ ReqNotify(t)
           \/ PollCq(t) \/ PollEventFails(t) \/ handle_send_regmem(t)
           \/ ExitAtLastReply(t) \/ PostRecvFails(t) \/ SendNullMr(t)
  BY <1>1 DEF Spawn, ThreadGivesUp, InitCrash, GetCqEvent, ReqNotify, PollCq,
              PollEventFails, handle_send_regmem, ExitAtLastReply, PostRecvFails, SendNullMr
<1>2. CASE HcaSend(t)
  BY <1>2, Here DEF HcaSend
<1>3. CASE HcaSendFails(t)
  <2>1. sq[t] - 1 \in 0 .. MaxSendWr
    BY <1>3, Here, SMTT(30) DEF HcaSendFails
  <2>2. QED
    BY <1>3, <2>1 DEF HcaSendFails
<1>4. CASE ServerReplies(t)
  <2>1. srq[t] - 1 \in 0 .. Buffs /\ requests[t] - 1 \in Nat
    BY <1>4, Here, SMTT(30) DEF ServerReplies
  <2>2. srq' \in [Threads -> 0 .. Buffs] /\ requests' \in [Threads -> Nat]
    BY <1>4, <2>1 DEF ServerReplies
  <2>3. QED
    BY <1>4, <2>2 DEF ServerReplies
<1>5. CASE ServerDrops(t)
  BY <1>5, Here DEF ServerDrops
<1>6. CASE InitResources(t) \/ BuildConnection(t)
  BY <1>6 DEF InitResources, BuildConnection
<1>7. CASE StartTest(t)
  BY <1>7, SendHere DEF StartTest
<1>8. CASE StartTestPartly(t)
  <2>1. sq' \in [Threads -> 0 .. MaxSendWr] /\ requests' \in [Threads -> Nat]
    <3>1. \/ sq' = sq /\ requests' = requests
          \/ sq' = [sq EXCEPT ![t] = 1] /\ requests' = [requests EXCEPT ![t] = 1]
      BY <1>8 DEF StartTestPartly
    <3>2. QED
      BY <3>1
  <2>2. QED
    BY <1>8, <2>1 DEF StartTestPartly
<1>9. CASE EventAddFails(t)
  <2>1. sq[t] + 1 \in 0 .. MaxSendWr
    BY <1>9, Here, SMTT(30) DEF EventAddFails, SlotsUsed
  <2>2. QED
    BY <1>9, <2>1 DEF EventAddFails
<1>10. CASE HandleBadCompletion(t)
  BY <1>10 DEF HandleBadCompletion
<1>11. CASE handle_recv_regmem(t)
  <2>1. Len(batch[t]) \in Nat \ {0} /\ Len(cq[t]["recv"]) \in Nat
    BY <1>11, Here, TailStatus DEF handle_recv_regmem, GotReply, ThreadInv, StartInv
  <2>2. srq[t] + 1 \in 0 .. Buffs
    <3>1. srq[t] + (Len(cq[t]["recv"]) + Len(batch[t])) <= Buffs /\ srq[t] \in Nat
      <4>1. RepliesAtHand(t) = Len(cq[t]["recv"]) + Len(batch[t])
        BY <1>11 DEF handle_recv_regmem, GotReply, RepliesAtHand
      <4>2. srq[t] + RepliesAtHand(t) <= Buffs /\ srq[t] \in Nat
        BY Here DEF ThreadInv, CountInv
      <4>3. QED
        BY <4>1, <4>2
    <3>2. \A a, b \in Nat, c \in Nat \ {0}, m \in Nat : a + (b + c) <= m => a + 1 \in 0 .. m
      OBVIOUS
    <3>3. Buffs \in Nat
      OBVIOUS
    <3>4. QED
      BY <2>1, <3>1, <3>2, <3>3, Zenon
  <2>3. srq' \in [Threads -> 0 .. Buffs]
    BY <1>11, <2>2 DEF handle_recv_regmem
  <2>4. QED
    BY <1>11, <2>3, SendHere DEF handle_recv_regmem
<1>12. QED
  BY <1>1, <1>2, <1>3, <1>4, <1>5, <1>6, <1>7, <1>8, <1>9, <1>10, <1>11 DEF
     Step, HcaNext, ThreadNext, StartNext, PollNext, WorkNext

\* A completion enters queue k of thread t.
LEMMA CompleteHere ==
    ASSUME TypeOK, NEW t \in Threads, NEW k \in Cqs, NEW s \in {"ok", "error"},
           Complete(t, k, s)
    PROVE  /\ CqTypeOK'
           /\ cq'[t][k] = Append(cq[t][k], s)
           /\ \A j \in Cqs \ {k} : cq'[t][j] = cq[t][j]
           /\ armed'[t] = armed[t] \ {k}
           /\ channel'[t] = IF k \in armed[t] THEN Append(channel[t], k) ELSE channel[t]
<1>1. Append(cq[t][k], s) \in Seq({"ok", "error"})
  BY Here, AppendStatus
<1>2. Append(channel[t], k) \in Seq(Cqs)
  BY Here, NamedAppend
<1>3. /\ cq' \in [Threads -> [Cqs -> Seq({"ok", "error"})]]
      /\ cq'[t][k] = Append(cq[t][k], s)
      /\ \A j \in Cqs \ {k} : cq'[t][j] = cq[t][j]
  BY <1>1 DEF Complete, TypeOK, CqTypeOK
<1>4. /\ armed' \in [Threads -> SUBSET Cqs] /\ channel' \in [Threads -> Seq(Cqs)]
      /\ armed'[t] = armed[t] \ {k}
      /\ channel'[t] = IF k \in armed[t] THEN Append(channel[t], k) ELSE channel[t]
  BY <1>2 DEF Complete, TypeOK, CqTypeOK
<1>5. QED
  BY <1>3, <1>4 DEF TypeOK, CqTypeOK

\* The handler takes the oldest event.
LEMMA GetHere ==
    ASSUME TypeOK, NEW t \in Threads, ThreadInv(t), GetCqEvent(t)
    PROVE  /\ CqTypeOK'
           /\ channel[t] # <<>> /\ Head(channel[t]) \in Cqs
           /\ channel'[t] = Tail(channel[t])
           /\ polling'[t] = Head(channel[t]) /\ pc'[t] = "notify"
<1> DEFINE k == Head(channel[t])
<1>1. channel[t] # <<>> /\ k \in Cqs /\ Tail(channel[t]) \in Seq(Cqs)
  BY Here, NamedTail DEF GetCqEvent, Once
<1>2. /\ channel' \in [Threads -> Seq(Cqs)] /\ channel'[t] = Tail(channel[t])
      /\ polling'[t] = k /\ pc'[t] = "notify" /\ armed' = armed /\ cq' = cq
  BY <1>1 DEF GetCqEvent, Goto, TypeOK, CqTypeOK, ThreadTypeOK
<1>3. QED
  BY <1>1, <1>2 DEF TypeOK, CqTypeOK

\* The handler takes a batch.
LEMMA PollHere ==
    ASSUME TypeOK, NEW t \in Threads, PollCq(t)
    PROVE  /\ CqTypeOK'
           /\ \A j \in Cqs \ {polling[t]} : cq'[t][j] = cq[t][j]
           /\ Len(cq'[t][polling[t]]) + Len(batch'[t]) = Len(cq[t][polling[t]])
           /\ IF batch'[t] = <<>> THEN pc'[t] = "loop" ELSE pc'[t] = "work"
           /\ cq'[t][polling[t]] # <<>> => pc'[t] = "work" /\ full'[t]
<1> DEFINE k == polling[t]
           q == cq[t][k]
           n == IF Len(q) < PollWcSize THEN Len(q) ELSE PollWcSize
           b == SubSeq(q, 1, n)
           r == SubSeq(q, n + 1, Len(q))
<1>1. k \in Cqs /\ q \in Seq({"ok", "error"})
  BY Here
<1> HIDE DEF n
<1>2. /\ b \in Seq({"ok", "error"}) /\ Len(b) = n
      /\ r \in Seq({"ok", "error"})
      /\ Len(r) = Len(q) - n
      /\ n = Len(q) => r = <<>>
      /\ n = 0 <=> b = <<>>
  <2>1. n \in 0 .. Len(q)
    BY <1>1, ClientAssumption DEF n
  <2>2. q \in Seq({"ok", "error"})
    BY <1>1
  <2> HIDE DEF q
  <2>3. b \in Seq({"ok", "error"}) /\ Len(b) = n
    BY <2>1, <2>2, BatchOf, ZenonT(30)
  <2>4. r \in Seq({"ok", "error"}) /\ Len(r) = Len(q) - n
    BY <2>1, <2>2, BatchOf, ZenonT(30)
  <2> HIDE DEF b, r
  <2>5. n = Len(q) => r = <<>>
    BY <2>1, <2>4
  <2>6. n = 0 <=> b = <<>>
    BY <2>1, <2>3
  <2>7. QED
    BY <2>3, <2>4, <2>5, <2>6, Zenon
<1>3. n = PollWcSize \/ n = Len(q)
  BY DEF n
<1>a. n \in Nat /\ Len(q) \in Nat
  BY <1>1, ClientAssumption DEF n
<1>4. /\ batch'[t] = b /\ full'[t] = (n = PollWcSize)
      /\ pc'[t] = IF n = 0 THEN "loop" ELSE "work"
  BY DEF PollCq, Goto, TypeOK, ThreadTypeOK, n
<1>5. /\ cq' \in [Threads -> [Cqs -> Seq({"ok", "error"})]]
      /\ cq'[t][k] = r /\ \A j \in Cqs \ {k} : cq'[t][j] = cq[t][j]
  <2>1. cq' = [cq EXCEPT ![t][k] = r]
    BY DEF PollCq, n
  <2>2. QED
    BY <1>1, <1>2, <2>1 DEF TypeOK, CqTypeOK
<1>6. CqTypeOK'
  BY <1>5 DEF PollCq, TypeOK, CqTypeOK
<1> HIDE DEF b, r, q
<1>7. Len(r) + Len(b) = Len(q)
  BY <1>2, <1>a
<1>8. r # <<>> => n = PollWcSize /\ n # 0
  BY <1>2, <1>3, ClientAssumption
<1>9. QED
  BY <1>2, <1>4, <1>5, <1>6, <1>7, <1>8 DEF q

\* The queues.
LEMMA CqTypeStep ==
    ASSUME TypeOK, NEW t \in Threads, ThreadInv(t), Step(t)
    PROVE  CqTypeOK'
<1>1. CASE HcaSend(t) \/ HcaSendFails(t) \/ ServerReplies(t)
  <2>1. PICK k \in Cqs, s \in {"ok", "error"} : Complete(t, k, s)
    BY <1>1 DEF HcaSend, HcaSendFails, ServerReplies, Cqs
  <2>2. QED
    BY <2>1, CompleteHere
<1>2. CASE GetCqEvent(t)
  BY <1>2, GetHere
<1>3. CASE PollCq(t)
  BY <1>3, PollHere
<1>4. CASE InitResources(t)
  BY <1>4 DEF InitResources, TypeOK, CqTypeOK
<1>5. CASE ReqNotify(t)
  BY <1>5, Here DEF ReqNotify, TypeOK, CqTypeOK
<1>6. CASE \/ ServerDrops(t) \/ Spawn(t) \/ BuildConnection(t)
           \/ ThreadGivesUp(t) \/ InitCrash(t) \/ StartTest(t) \/ StartTestPartly(t)
           \/ EventAddFails(t) \/ PollEventFails(t) \/ HandleBadCompletion(t)
           \/ handle_send_regmem(t) \/ ExitAtLastReply(t) \/ handle_recv_regmem(t)
           \/ PostRecvFails(t) \/ SendNullMr(t)
  <2>1. UNCHANGED cqVars
    BY <1>6 DEF ServerDrops, Spawn,
              BuildConnection, ThreadGivesUp, InitCrash, StartTest, StartTestPartly,
              EventAddFails, PollEventFails, HandleBadCompletion,
              handle_send_regmem, ExitAtLastReply, handle_recv_regmem, PostRecvFails,
              SendNullMr
  <2>2. QED
    BY <2>1 DEF TypeOK, CqTypeOK, cqVars
<1>7. QED
  BY <1>1, <1>2, <1>3, <1>4, <1>5, <1>6 DEF
     Step, HcaNext, ThreadNext, StartNext, PollNext, WorkNext

\* Every step of a thread or its adapter keeps the types.
LEMMA TypeStep ==
    ASSUME TypeOK, NEW t \in Threads, ThreadInv(t), Step(t)
    PROVE  TypeOK'
BY ThreadTypeStep, CountTypeStep, QueueTypeStep, CqTypeStep DEF TypeOK
------------------------------------------------------------------------------
\* A completion of t's queue k, whatever else is going on: the wakeup is not lost.
LEMMA CompleteTokens ==
    ASSUME TypeOK, NEW t \in Threads, ThreadInv(t), NEW k \in Cqs,
           NEW s \in {"ok", "error"}, Complete(t, k, s), pc[t] \notin Starting,
           UNCHANGED <<pc, polling, full>>, faults' = 0 => faults = 0
    PROVE  \A j \in Cqs : TokenInv(t, j)' /\ WakeInv(t, j)'
<1> TAKE j \in Cqs
<1>1. /\ cq'[t][k] = Append(cq[t][k], s)
      /\ \A i \in Cqs \ {k} : cq'[t][i] = cq[t][i]
      /\ armed'[t] = armed[t] \ {k}
      /\ channel'[t] = IF k \in armed[t] THEN Append(channel[t], k) ELSE channel[t]
  BY CompleteHere
<1>2. TokenInv(t, j) /\ WakeInv(t, j) /\ channel[t] \in Seq(Cqs)
  BY Here DEF ThreadInv
<1>3. Held(t, j)' = Held(t, j) /\ Busy(t, j)' = Busy(t, j)
  BY DEF Held, Busy
<1>4. CASE j = k /\ k \in armed[t]
  <2>1. channel'[t] = Append(channel[t], k) /\ Named(channel'[t], j) /\ Once(channel'[t], j)
    BY <1>1, <1>2, <1>4, NamedAppend DEF TokenInv
  <2>2. j \notin armed'[t] /\ ~Held(t, j)'
    BY <1>1, <1>2, <1>3, <1>4 DEF TokenInv
  <2>3. QED
    BY <2>1, <2>2 DEF TokenInv, WakeInv
<1>5. CASE j = k /\ k \notin armed[t]
  <2>1. channel'[t] = channel[t] /\ j \notin armed'[t]
    BY <1>1, <1>5
  <2>2. faults' = 0 => Named(channel[t], j) \/ Held(t, j)
    BY <1>2, <1>5 DEF TokenInv, Starting
  <2>3. Held(t, j) => Busy(t, j)
    BY DEF Held, Busy
  <2>4. QED
    BY <1>2, <1>3, <2>1, <2>2, <2>3 DEF TokenInv, WakeInv
<1>6. CASE j # k
  <2>1. cq'[t][j] = cq[t][j] /\ (j \in armed'[t] <=> j \in armed[t])
    BY <1>1, <1>6
  <2>2. (Named(channel'[t], j) <=> Named(channel[t], j))
        /\ Once(channel'[t], j)
    BY <1>1, <1>2, <1>6, NamedAppend DEF TokenInv
  <2>3. QED
    BY <1>2, <1>3, <2>1, <2>2 DEF TokenInv, WakeInv, Starting
<1>7. QED
  BY <1>4, <1>5, <1>6

\* What steps of the adapter and the server leave of the invariant.
\* Replies at hand are counted by the queue they are in and the batch.
LEMMA Replies ==
    ASSUME TypeOK, NEW t \in Threads
    PROVE  /\ RepliesAtHand(t) \in Nat
           /\ \A a \in Nat : UNCHANGED <<polling, batch>>
                /\ Len(cq'[t]["recv"]) = Len(cq[t]["recv"]) + a
                => RepliesAtHand(t)' = RepliesAtHand(t) + a
<1> DEFINE h == IF polling[t] = "recv" THEN Len(batch[t]) ELSE 0
<1>1. h \in Nat /\ Len(cq[t]["recv"]) \in Nat
  BY Here
<1>2. RepliesAtHand(t) = Len(cq[t]["recv"]) + h
  BY DEF RepliesAtHand
<1>3. UNCHANGED <<polling, batch>> => RepliesAtHand(t)' = Len(cq'[t]["recv"]) + h
  BY DEF RepliesAtHand
<1> HIDE DEF h
<1>4. RepliesAtHand(t) \in Nat
  BY <1>1, <1>2
<1>5. ASSUME NEW a \in Nat, UNCHANGED <<polling, batch>>,
             Len(cq'[t]["recv"]) = Len(cq[t]["recv"]) + a
      PROVE  RepliesAtHand(t)' = RepliesAtHand(t) + a
  BY <1>1, <1>2, <1>3, <1>5
<1>6. QED
  BY <1>4, <1>5

LEMMA HcaStep ==
    ASSUME TypeOK, NEW t \in Threads, ThreadInv(t), HcaNext(t)
    PROVE  ThreadInv(t)'
<1>1. UNCHANGED <<pc, polling, batch, full, ackEvents>>
  BY DEF HcaNext, HcaSend, HcaSendFails, ServerReplies, ServerDrops, threadVars, countVars
<1>2. faults' = 0 => faults = 0
  BY Here DEF HcaNext, HcaSend, HcaSendFails, ServerReplies, ServerDrops, Fault
<1>3. pc[t] \notin Starting
  BY Here DEF HcaNext, HcaSend, HcaSendFails, ServerReplies, ServerDrops, ThreadInv, StartInv
<1>4. StartInv(t)'
  BY <1>1, <1>3 DEF ThreadInv, StartInv, Starting
<1>5. CASE HcaSend(t) \/ HcaSendFails(t)
  <2>1. PICK s \in {"ok", "error"} : Complete(t, "send", s)
    BY <1>5 DEF HcaSend, HcaSendFails
  <2>2. /\ srq' = srq /\ requests'[t] \in {requests[t], 0}
    BY <1>5 DEF HcaSend, HcaSendFails, TypeOK, QueueTypeOK
  <2>3. cq'[t]["recv"] = cq[t]["recv"]
    BY <2>1, CompleteHere DEF Cqs
  <2>4. CountInv(t)'
    <3>1. RepliesAtHand(t)' = RepliesAtHand(t) /\ RepliesAtHand(t) \in Nat
      <4>1. Len(cq'[t]["recv"]) = Len(cq[t]["recv"]) + 0
        BY <2>3, Here
      <4>2. QED
        BY <1>1, <4>1, Replies
    <3>2. CountInv(t) /\ requests[t] \in Nat
      BY Here DEF ThreadInv
    <3>3. QED
      BY <2>2, <3>1, <3>2 DEF CountInv, InFlight
  <2>5. \A j \in Cqs : TokenInv(t, j)' /\ WakeInv(t, j)'
    BY <1>1, <1>2, <1>3, <2>1, CompleteTokens DEF Cqs
  <2>6. QED
    BY <1>4, <2>4, <2>5 DEF ThreadInv
<1>6. CASE ServerReplies(t)
  <2>1. Complete(t, "recv", "ok") /\ "recv" \in Cqs
    BY <1>6 DEF ServerReplies, Cqs
  <2>2. /\ srq'[t] = srq[t] - 1 /\ srq[t] > 0
        /\ requests'[t] = requests[t] - 1 /\ requests[t] > 0
    BY <1>6 DEF ServerReplies, TypeOK, QueueTypeOK
  <2>3. Len(cq'[t]["recv"]) = Len(cq[t]["recv"]) + 1
    BY <2>1, CompleteHere, Here, AppendStatus
  <2>4. CountInv(t)'
    <3>1. RepliesAtHand(t)' = RepliesAtHand(t) + 1 /\ RepliesAtHand(t) \in Nat
      BY <1>1, <2>3, Replies
    <3>2. CountInv(t) /\ requests[t] \in Nat /\ srq[t] \in Nat
      BY Here DEF ThreadInv
    <3>3. QED
      BY <2>2, <3>1, <3>2, ClientAssumption DEF CountInv, InFlight
  <2>5. \A j \in Cqs : TokenInv(t, j)' /\ WakeInv(t, j)'
    BY <1>1, <1>2, <1>3, <2>1, CompleteTokens
  <2>6. QED
    BY <1>4, <2>4, <2>5 DEF ThreadInv
<1>7. CASE ServerDrops(t)
  <2>1. UNCHANGED <<srq, cq, armed, channel>>
    BY <1>7 DEF ServerDrops, queueVars, cqVars
  <2>2. requests'[t] = requests[t] - 1 /\ requests[t] > 0
    BY <1>7 DEF ServerDrops, TypeOK, QueueTypeOK
  <2>3. CountInv(t)'
    <3>1. RepliesAtHand(t)' = RepliesAtHand(t) /\ RepliesAtHand(t) \in Nat
      BY <1>1, <2>1, Here, Replies
    <3>2. CountInv(t) /\ requests[t] \in Nat /\ srq[t] \in Nat
      BY Here DEF ThreadInv
    <3>3. QED
      BY <2>1, <2>2, <3>1, <3>2 DEF CountInv, InFlight
  <2>4. \A j \in Cqs : TokenInv(t, j)' /\ WakeInv(t, j)'
    BY <1>1, <1>2, <2>1 DEF ThreadInv, TokenInv, WakeInv, Held, Busy
  <2>5. QED
    BY <1>4, <2>3, <2>4 DEF ThreadInv
<1>8. QED
  BY <1>5, <1>6, <1>7 DEF HcaNext

\* Starting a thread: both queues are armed once, and one request is sent.
LEMMA StartStep ==
    ASSUME TypeOK, NEW t \in Threads, ThreadInv(t), StartNext(t)
    PROVE  ThreadInv(t)'
<1>1. UNCHANGED <<polling, batch, full, ackEvents, cq, channel>>
  BY DEF StartNext, Spawn, InitResources, BuildConnection, ThreadGivesUp, InitCrash,
         StartTest, StartTestPartly, EventAddFails, countVars, cqVars, threadVars
<1>2. pc[t] \in Starting /\ pc[t] # "work"
  BY DEF StartNext, Spawn, InitResources, BuildConnection, ThreadGivesUp, InitCrash,
         StartTest, StartTestPartly, EventAddFails, Starting
<1>3. /\ batch[t] = <<>> /\ channel[t] = <<>> /\ \A k \in Cqs : cq[t][k] = <<>>
      /\ requests[t] = 0 /\ sq[t] = 0
  BY <1>2 DEF ThreadInv, StartInv
<1>4. RepliesAtHand(t)' = 0 /\ RepliesAtHand(t) = 0
  <2>1. cq[t]["recv"] = <<>>
    BY <1>3 DEF Cqs
  <2>2. QED
    BY <1>1, <1>3, <2>1 DEF RepliesAtHand
<1>5. \A k \in Cqs : ~Named(channel'[t], k) /\ Once(channel'[t], k) /\ WakeInv(t, k)'
  BY <1>1, <1>3 DEF Named, Once, WakeInv
<1>6. ~(\E k \in Cqs : Held(t, k)) /\ (pc'[t] # "notify" => \A k \in Cqs : ~Held(t, k)')
  BY <1>2 DEF Held, Starting
<1>7. CASE Spawn(t) \/ InitCrash(t) \/ BuildConnection(t) \/ ThreadGivesUp(t)
  <2>1. UNCHANGED <<srq, sq, requests, armed>>
    BY <1>7 DEF Spawn, InitCrash, BuildConnection, ThreadGivesUp, queueVars, cqVars
  <2>2. \/ pc[t] = "none" /\ pc'[t] = "init"
        \/ pc[t] = "init" /\ pc'[t] = "init"
        \/ pc[t] = "build" /\ pc'[t] = "test" /\ faults' = faults
        \/ pc'[t] = "returned" /\ faults' # 0
    BY <1>7, Here DEF Spawn, InitCrash, BuildConnection, ThreadGivesUp, Goto, Fault,
                      threadVars, TypeOK, ThreadTypeOK
  <2>3. StartInv(t)'
    BY <1>1, <1>3, <2>1, <2>2 DEF ThreadInv, StartInv, Starting
  <2>4. CountInv(t)'
    BY <1>3, <1>4, <2>1 DEF ThreadInv, CountInv, InFlight
  <2>5. \A k \in Cqs : TokenInv(t, k)'
    BY <1>1, <1>5, <1>6, <2>1, <2>2, Here DEF ThreadInv, TokenInv, Fault
  <2>6. QED
    BY <1>5, <2>3, <2>4, <2>5 DEF ThreadInv
<1>8. CASE InitResources(t)
  <2>1. /\ pc[t] = "init" /\ pc'[t] = "build" /\ armed'[t] = Cqs /\ srq'[t] = Buffs
        /\ UNCHANGED <<sq, requests>>
    BY <1>8 DEF InitResources, Goto, TypeOK, ThreadTypeOK, QueueTypeOK, CqTypeOK
  <2>2. StartInv(t)'
    BY <1>1, <1>3, <2>1 DEF StartInv, Starting
  <2>3. CountInv(t)'
    BY <1>3, <1>4, <2>1, ClientAssumption DEF CountInv, InFlight
  <2>4. \A k \in Cqs : TokenInv(t, k)'
    BY <1>5, <1>6, <2>1 DEF TokenInv
  <2>5. QED
    BY <1>5, <2>2, <2>3, <2>4 DEF ThreadInv
<1>9. CASE StartTest(t) \/ StartTestPartly(t) \/ EventAddFails(t)
  <2>1. UNCHANGED <<srq, armed>> /\ pc[t] = "test"
    BY <1>9 DEF StartTest, StartTestPartly, EventAddFails, cqVars
  <2>2. /\ \/ pc'[t] = "loop" /\ requests'[t] \in {0, 1}
           \/ pc'[t] = "returned" /\ requests'[t] = 1
           \/ pc'[t] = "test" /\ requests' = requests /\ sq' = sq
        /\ faults' = 0 => faults = 0
    <3>1. CASE StartTest(t)
      <4>1. pc'[t] = "loop" /\ send_mr(t)
        BY <3>1 DEF StartTest, Goto, TypeOK, ThreadTypeOK
      <4>2. requests'[t] \in {0, 1}
        BY <1>3, <4>1, SendHere
      <4>3. faults' = 0 => faults = 0
        BY <4>1, Here DEF send_mr, Fault
      <4>4. QED
        BY <4>1, <4>2, <4>3
    <3>2. CASE StartTestPartly(t)
      <4>1. \/ pc' = pc /\ requests' = requests /\ sq' = sq
            \/ Goto(t, "loop") /\ requests' = [requests EXCEPT ![t] = 1]
        BY <3>2 DEF StartTestPartly
      <4>2. faults' = 0 => faults = 0
        BY <3>2, Here DEF StartTestPartly, Fault
      <4>3. QED
        BY <2>1, <4>1, <4>2 DEF Goto, TypeOK, ThreadTypeOK, QueueTypeOK
    <3>3. CASE EventAddFails(t)
      BY <1>3, <3>3, Here
         DEF EventAddFails, Goto, Fault, TypeOK, ThreadTypeOK, QueueTypeOK
    <3>4. QED
      BY <1>9, <3>1, <3>2, <3>3
  <2>3. StartInv(t)'
    BY <1>1, <1>3, <2>1, <2>2 DEF StartInv, Starting
  <2>4. CountInv(t)'
    <3>1. requests'[t] \in {0, 1}
      BY <1>3, <2>2
    <3>2. QED
      BY <1>4, <2>1, <3>1, Here DEF ThreadInv, CountInv, InFlight
  <2>5. \A k \in Cqs : TokenInv(t, k)'
    BY <1>1, <1>5, <1>6, <2>1, <2>2 DEF ThreadInv, TokenInv
  <2>6. QED
    BY <1>5, <2>3, <2>4, <2>5 DEF ThreadInv
<1>10. QED
  BY <1>7, <1>8, <1>9 DEF StartNext

\* Replies move from the queue to the handler, none is lost or doubled.
LEMMA RepliesKept ==
    ASSUME TypeOK, NEW t \in Threads, ThreadInv(t), GetCqEvent(t) \/ PollCq(t)
    PROVE  RepliesAtHand(t)' = RepliesAtHand(t)
<1>1. Len(batch[t]) = 0
  BY EmptySeq DEF GetCqEvent, PollCq, ThreadInv, StartInv
<1>2. CASE GetCqEvent(t)
  BY <1>1, <1>2 DEF GetCqEvent, RepliesAtHand
<1>3. CASE PollCq(t) /\ polling[t] = "recv"
  <2>1. RepliesAtHand(t)' = Len(cq'[t]["recv"]) + Len(batch'[t])
    BY <1>3 DEF RepliesAtHand, PollCq
  <2>2. RepliesAtHand(t) = Len(cq[t]["recv"])
    BY <1>1, <1>3, Here DEF RepliesAtHand
  <2>3. QED
    BY <1>3, <2>1, <2>2, PollHere
<1>4. CASE PollCq(t) /\ polling[t] # "recv"
  <2>1. cq'[t]["recv"] = cq[t]["recv"] /\ polling' = polling
    BY <1>4, PollHere DEF PollCq, Cqs
  <2>2. QED
    BY <1>4, <2>1 DEF RepliesAtHand
<1>5. QED
  BY <1>2, <1>3, <1>4

\* The handler of the channel's events passes on the notification it got.
LEMMA PollStep ==
    ASSUME TypeOK, NEW t \in Threads, ThreadInv(t), PollNext(t)
    PROVE  ThreadInv(t)'
<1>1. CASE GetCqEvent(t)
  <2> DEFINE k == Head(channel[t])
  <2>1. /\ channel[t] \in Seq(Cqs) /\ channel[t] # <<>> /\ k \in Cqs
        /\ channel'[t] = Tail(channel[t])
        /\ polling'[t] = k /\ pc'[t] = "notify"
    BY <1>1, GetHere, Here
  <2>2. /\ pc[t] = "loop" /\ UNCHANGED <<batch, full, srq, sq, requests, cq, armed, faults>>
    BY <1>1 DEF GetCqEvent, queueVars
  <2>3. batch[t] = <<>> /\ Len(batch[t]) = 0
    BY <2>2, EmptySeq DEF ThreadInv, StartInv
  <2>4. StartInv(t)'
    BY <2>1, <2>2, <2>3 DEF StartInv, Starting
  <2>5. CountInv(t)'
    <3>1. RepliesAtHand(t)' = RepliesAtHand(t)
      BY <1>1, RepliesKept
    <3>2. QED
      BY <2>2, <3>1 DEF ThreadInv, CountInv, InFlight
  <2>6. ASSUME NEW j \in Cqs PROVE TokenInv(t, j)' /\ WakeInv(t, j)'
    <3>1. TokenInv(t, j) /\ WakeInv(t, j) /\ ~Held(t, j) /\ ~Busy(t, j)
      BY <2>2 DEF ThreadInv, Held, Busy
    <3>2. /\ Once(channel'[t], j) /\ Named(channel[t], k)
          /\ j # k => (Named(channel'[t], j) <=> Named(channel[t], j))
          /\ j = k => ~Named(channel'[t], j)
      BY <2>1, <3>1, NamedTail DEF TokenInv
    <3>3. CASE j = k
      <4>1. Held(t, j)' /\ Busy(t, j)'
        BY <2>1, <3>3 DEF Held, Busy
      <4>2. j \notin armed'[t]
        BY <2>2, <3>1, <3>2, <3>3 DEF TokenInv
      <4>3. QED
        BY <3>2, <3>3, <4>1, <4>2 DEF TokenInv, WakeInv
    <3>4. CASE j # k
      <4>1. ~Held(t, j)'
        BY <2>1, <3>4 DEF Held
      <4>2. QED
        BY <2>1, <2>2, <3>1, <3>2, <3>4, <4>1 DEF TokenInv, WakeInv
    <3>5. QED
      BY <3>3, <3>4
  <2>7. QED
    BY <2>1, <2>4, <2>5, <2>6 DEF ThreadInv
<1>2. CASE ReqNotify(t)
  <2>1. /\ pc[t] = "notify" /\ pc'[t] = "poll"
        /\ armed'[t] = armed[t] \cup {polling[t]}
        /\ UNCHANGED <<polling, batch, full, ackEvents, srq, sq, requests, cq, channel, faults>>
    BY <1>2 DEF ReqNotify, Goto, countVars, queueVars, TypeOK, ThreadTypeOK, CqTypeOK
  <2>2. StartInv(t)'
    BY <2>1 DEF ThreadInv, StartInv, Starting
  <2>3. CountInv(t)'
    BY <2>1 DEF ThreadInv, CountInv, InFlight, RepliesAtHand
  <2>4. ASSUME NEW j \in Cqs PROVE TokenInv(t, j)' /\ WakeInv(t, j)'
    <3>1. TokenInv(t, j) /\ WakeInv(t, j)
      BY DEF ThreadInv
    <3>2. /\ ~Held(t, j)' /\ Busy(t, j)' = Busy(t, j)
          /\ Held(t, j) <=> j = polling[t]
      BY <2>1 DEF Held, Busy
    <3>3. j \in armed'[t] <=> j \in armed[t] \/ Held(t, j)
      BY <2>1, <3>2
    <3>4. QED
      BY <2>1, <3>1, <3>2, <3>3 DEF TokenInv, WakeInv
  <2>5. QED
    BY <2>2, <2>3, <2>4 DEF ThreadInv
<1>3. CASE PollCq(t)
  <2> DEFINE k == polling[t]
  <2>1. /\ \A j \in Cqs \ {k} : cq'[t][j] = cq[t][j]
        /\ Len(cq'[t][k]) + Len(batch'[t]) = Len(cq[t][k])
        /\ IF batch'[t] = <<>> THEN pc'[t] = "loop" ELSE pc'[t] = "work"
        /\ cq'[t][k] # <<>> => pc'[t] = "work" /\ full'[t]
    BY <1>3, PollHere
  <2>2. /\ pc[t] = "poll"
        /\ UNCHANGED <<polling, ackEvents, srq, sq, requests, channel, armed, faults>>
    BY <1>3 DEF PollCq, countVars, queueVars
  <2>3. batch[t] = <<>> /\ Len(batch[t]) = 0
    BY <2>2, EmptySeq DEF ThreadInv, StartInv
  <2>4. StartInv(t)'
    BY <2>1, <2>2 DEF ThreadInv, StartInv, Starting
  <2>5. CountInv(t)'
    <3>1. RepliesAtHand(t)' = RepliesAtHand(t)
      BY <1>3, RepliesKept
    <3>2. QED
      BY <2>2, <3>1 DEF ThreadInv, CountInv, InFlight
  <2>6. ASSUME NEW j \in Cqs PROVE TokenInv(t, j)' /\ WakeInv(t, j)'
    <3>1. TokenInv(t, j) /\ WakeInv(t, j)
      BY DEF ThreadInv
    <3>2. pc'[t] \in {"loop", "work"} /\ ~Held(t, j) /\ ~Held(t, j)'
      BY <2>1, <2>2 DEF Held
    <3>3. TokenInv(t, j)'
      BY <2>2, <3>1, <3>2 DEF TokenInv
    <3>4. WakeInv(t, j)'
      <4>1. CASE j = k
        BY <2>1, <2>2, <4>1 DEF WakeInv, Busy
      <4>2. CASE j # k
        <5>1. ~Busy(t, j) /\ cq'[t][j] = cq[t][j]
          BY <2>1, <4>2 DEF Busy
        <5>2. QED
          BY <2>2, <3>1, <5>1 DEF WakeInv
      <4>3. QED
        BY <4>1, <4>2
    <3>5. QED
      BY <3>3, <3>4
  <2>7. QED
    BY <2>4, <2>5, <2>6 DEF ThreadInv
<1>4. CASE PollEventFails(t)
  <2>1. /\ pc[t] \in {"notify", "poll"} /\ pc'[t] = "loop" /\ faults' # 0
        /\ UNCHANGED <<polling, batch, full, ackEvents, srq, sq, requests, cq, channel, armed>>
    BY <1>4, Here
       DEF PollEventFails, Fault, Goto, countVars, queueVars, cqVars, TypeOK, ThreadTypeOK
  <2>2. StartInv(t)'
    BY <2>1 DEF ThreadInv, StartInv, Starting
  <2>3. CountInv(t)'
    BY <2>1 DEF ThreadInv, CountInv, InFlight, RepliesAtHand
  <2>4. \A j \in Cqs : TokenInv(t, j)' /\ WakeInv(t, j)'
    BY <2>1 DEF ThreadInv, TokenInv, WakeInv, Held
  <2>5. QED
    BY <2>2, <2>3, <2>4 DEF ThreadInv
<1>5. QED
  BY <1>1, <1>2, <1>3, <1>4 DEF PollNext

\* The next completion of the batch, or the end of it.
LEMMA NextHere ==
    ASSUME TypeOK, NEW t \in Threads, ThreadInv(t), pc[t] = "work", NextCompletion(t)
    PROVE  /\ Len(batch'[t]) = Len(batch[t]) - 1 /\ Len(batch[t]) \in Nat \ {0}
           /\ pc'[t] = "work" <=> batch'[t] # <<>>
           /\ pc'[t] \in {"work", "poll", "loop"}
           /\ full[t] => pc'[t] = "poll" \/ (pc'[t] = "work" /\ full'[t])
<1>1. batch[t] # <<>>
  BY DEF ThreadInv, StartInv
<1>2. batch'[t] = Tail(batch[t]) /\ full'[t] = (full[t] /\ Tail(batch[t]) # <<>>)
      /\ pc'[t] = IF Tail(batch[t]) # <<>> THEN "work"
                  ELSE IF full[t] THEN "poll" ELSE "loop"
  BY DEF NextCompletion, Goto, TypeOK, ThreadTypeOK
<1>3. QED
  BY <1>1, <1>2, Here, TailStatus

\* A step that works on a completion sends at most one request, for a reply.
LEMMA WorkStep ==
    ASSUME TypeOK, NEW t \in Threads, ThreadInv(t), WorkNext(t)
    PROVE  ThreadInv(t)'
<1>1. UNCHANGED <<polling, ackEvents, cq, channel, armed>> /\ pc[t] = "work"
  BY DEF WorkNext, HandleBadCompletion, handle_send_regmem, ExitAtLastReply,
         handle_recv_regmem, PostRecvFails, SendNullMr, GotReply, threadVars, countVars,
         cqVars
<1>2. faults' = 0 => faults = 0
  BY Here DEF WorkNext, HandleBadCompletion, handle_send_regmem, ExitAtLastReply,
         handle_recv_regmem, PostRecvFails, SendNullMr, send_mr, Fault
<1>3. CASE ExitAtLastReply(t) \/ SendNullMr(t)
  <2>1. UNCHANGED <<pc, batch, full, srq, sq, requests, faults>>
    BY <1>3 DEF ExitAtLastReply, SendNullMr, threadVars, queueVars
  <2>2. StartInv(t)' /\ CountInv(t)'
    BY <1>1, <2>1 DEF ThreadInv, StartInv, CountInv, InFlight, RepliesAtHand
  <2>3. \A j \in Cqs : TokenInv(t, j)' /\ WakeInv(t, j)'
    BY <1>1, <2>1 DEF ThreadInv, TokenInv, WakeInv, Held, Busy
  <2>4. QED
    BY <2>2, <2>3 DEF ThreadInv
<1>4. CASE \/ HandleBadCompletion(t) \/ handle_send_regmem(t) \/ handle_recv_regmem(t)
           \/ PostRecvFails(t)
  <2>1. NextCompletion(t)
    BY <1>4 DEF HandleBadCompletion, handle_send_regmem, handle_recv_regmem, PostRecvFails
  <2>2. /\ Len(batch'[t]) = Len(batch[t]) - 1 /\ Len(batch[t]) \in Nat \ {0}
        /\ pc'[t] = "work" <=> batch'[t] # <<>>
        /\ pc'[t] \in {"work", "poll", "loop"}
        /\ full[t] => pc'[t] = "poll" \/ (pc'[t] = "work" /\ full'[t])
    BY <1>1, <2>1, NextHere
  <2>3. StartInv(t)'
    BY <1>1, <2>2 DEF ThreadInv, StartInv, Starting
  <2>4. ASSUME NEW j \in Cqs PROVE TokenInv(t, j)' /\ WakeInv(t, j)'
    <3>1. TokenInv(t, j) /\ WakeInv(t, j)
      BY DEF ThreadInv
    <3>2. ~Held(t, j) /\ ~Held(t, j)' /\ (Busy(t, j) => Busy(t, j)')
      BY <1>1, <2>2 DEF Held, Busy
    <3>3. QED
      BY <1>1, <1>2, <2>2, <3>1, <3>2 DEF TokenInv, WakeInv
  <2>5. CountInv(t)'
    <3> DEFINE h == IF polling[t] = "recv" THEN Len(batch[t]) ELSE 0
               g == IF polling[t] = "recv" THEN Len(batch[t]) - 1 ELSE 0
    <3>1. /\ RepliesAtHand(t) = Len(cq[t]["recv"]) + h
          /\ RepliesAtHand(t)' = Len(cq[t]["recv"]) + g
      BY <1>1, <2>2 DEF RepliesAtHand
    <3>2. /\ srq[t] + (Len(cq[t]["recv"]) + h) <= Buffs
          /\ requests[t] + (Len(cq[t]["recv"]) + h) <= 1
      BY <3>1 DEF ThreadInv, CountInv, InFlight
    <3>3. /\ h \in Nat /\ g \in Nat /\ g <= h
          /\ Len(cq[t]["recv"]) \in Nat /\ srq[t] \in Nat /\ requests[t] \in Nat
      BY <2>2, Here
    <3>4. CASE HandleBadCompletion(t) \/ handle_send_regmem(t) \/ PostRecvFails(t)
      <4>1. srq' = srq /\ requests'[t] \in {0, requests[t]}
        BY <3>4 DEF HandleBadCompletion, handle_send_regmem, PostRecvFails, queueVars,
                    TypeOK, QueueTypeOK
      <4> HIDE DEF h, g
      <4>2. srq'[t] + (Len(cq[t]["recv"]) + g) <= Buffs
        <5>1. \A a, b, c, d, m \in Nat : a + (b + c) <= m /\ d <= c => a + (b + d) <= m
          OBVIOUS
        <5>2. Buffs \in Nat
          BY ClientAssumption
        <5>3. srq[t] + (Len(cq[t]["recv"]) + g) <= Buffs
          BY <3>2, <3>3, <5>1, <5>2, Zenon
        <5>4. QED
          BY <4>1, <5>3
      <4>3. requests'[t] + (Len(cq[t]["recv"]) + g) <= 1
        BY <3>2, <3>3, <4>1
      <4>4. QED
        BY <3>1, <4>2, <4>3 DEF CountInv, InFlight
    <3>5. CASE handle_recv_regmem(t)
      <4>1. h = g + 1
        BY <2>2, <3>5 DEF handle_recv_regmem, GotReply
      <4>2. srq'[t] = srq[t] + 1
        BY <3>5 DEF handle_recv_regmem, TypeOK, QueueTypeOK
      <4>3. requests'[t] \in {requests[t], requests[t] + 1}
        BY <3>5, SendHere DEF handle_recv_regmem
      <4> HIDE DEF h, g
      <4>4. srq'[t] + (Len(cq[t]["recv"]) + g) <= Buffs
        <5>1. srq[t] + (Len(cq[t]["recv"]) + (g + 1)) <= Buffs
          BY <3>2, <4>1
        <5>2. \A a, b, c, m \in Nat : a + (b + (c + 1)) <= m => a + 1 + (b + c) <= m
          OBVIOUS
        <5>3. Buffs \in Nat
          BY ClientAssumption
        <5>4. srq[t] + 1 + (Len(cq[t]["recv"]) + g) <= Buffs
          BY <3>3, <5>1, <5>2, <5>3, Zenon
        <5>5. QED
          BY <4>2, <5>4
      <4>5. requests'[t] + (Len(cq[t]["recv"]) + g) <= 1
        <5>1. requests[t] + (Len(cq[t]["recv"]) + (g + 1)) <= 1
          BY <3>2, <4>1
        <5>2. \A a, b, c, d \in Nat : a + (b + (c + 1)) <= 1 /\ d \in {a, a + 1}
                => d + (b + c) <= 1
          OBVIOUS
        <5>3. requests'[t] \in Nat
          BY <3>3, <4>3
        <5>4. QED
          BY <3>3, <4>3, <5>1, <5>2, <5>3, Zenon
      <4>6. QED
        BY <3>1, <4>4, <4>5 DEF CountInv, InFlight
    <3>6. QED
      BY <1>4, <3>4, <3>5
  <2>6. QED
    BY <2>3, <2>4, <2>5 DEF ThreadInv
<1>5. QED
  BY <1>3, <1>4 DEF WorkNext
------------------------------------------------------------------------------

\* A batch of good completions leaves good ones.
LEMMA PollStatus ==
    ASSUME TypeOK, NEW t \in Threads, PollCq(t), \A k \in Cqs : cq[t][k] \in Seq({"ok"})
    PROVE  batch'[t] \in Seq({"ok"}) /\ \A k \in Cqs : cq'[t][k] \in Seq({"ok"})
<1> DEFINE k == polling[t]
           q == cq[t][k]
           n == IF Len(q) < PollWcSize THEN Len(q) ELSE PollWcSize
           b == SubSeq(q, 1, n)
           r == SubSeq(q, n + 1, Len(q))
<1>1. k \in Cqs /\ q \in Seq({"ok"})
  BY Here
<1>2. n \in 0 .. Len(q)
  BY <1>1, ClientAssumption
<1> HIDE DEF n
<1>3. b \in Seq({"ok"}) /\ r \in Seq({"ok"})
  <2> HIDE DEF q
  <2>1. QED
    BY <1>1, <1>2, BatchOf, Zenon
<1>4. batch'[t] = b
  BY DEF PollCq, TypeOK, ThreadTypeOK, n
<1>5. cq'[t][k] = r /\ \A j \in Cqs \ {k} : cq'[t][j] = cq[t][j]
  <2>1. cq' = [cq EXCEPT ![t][k] = r]
    BY DEF PollCq, n
  <2>2. QED
    BY <1>1, <2>1 DEF TypeOK, CqTypeOK
<1>6. QED
  BY <1>3, <1>4, <1>5

\* Bad completions come from a broken connection only (async-client.c:369-376).
LEMMA StatusStep ==
    ASSUME TypeOK, NEW t \in Threads, ThreadInv(t), StatusInv(t), Step(t),
           faults' = 0 => faults = 0
    PROVE  StatusInv(t)'
<1>a. \A q \in Seq({"ok"}) :
        /\ Append(q, "ok") \in Seq({"ok"})
        /\ q # <<>> => Head(q) = "ok" /\ Tail(q) \in Seq({"ok"})
  OBVIOUS
<1>b. <<>> \in Seq({"ok"})
  OBVIOUS
<1>1. CASE HcaSend(t) \/ ServerReplies(t)
  <2>1. /\ qp' = qp /\ UNCHANGED <<pc, batch, faults>> /\ qp[t] # "err"
    BY <1>1 DEF HcaSend, ServerReplies, threadVars
  <2>2. PICK k \in Cqs : Complete(t, k, "ok")
    BY <1>1 DEF HcaSend, ServerReplies, Cqs
  <2>3. \A j \in Cqs : cq'[t][j] \in Seq({"ok"})
    <3>1. cq'[t][k] = Append(cq[t][k], "ok") /\ \A j \in Cqs \ {k} : cq'[t][j] = cq[t][j]
      BY <2>2, CompleteHere
    <3>2. \A j \in Cqs : cq[t][j] \in Seq({"ok"})
      BY <2>1 DEF StatusInv
    <3>3. QED
      BY <1>a, <3>1, <3>2
  <2>4. QED
    BY <2>1, <2>3 DEF StatusInv
<1>2. CASE HcaSendFails(t)
  <2>1. qp'[t] = "err" /\ pc' = pc /\ (faults' # 0 \/ (qp[t] = "err" /\ faults' = faults))
    BY <1>2, Here DEF HcaSendFails, Fault, threadVars, TypeOK, QueueTypeOK
  <2>2. QED
    BY <2>1 DEF StatusInv
<1>3. CASE \/ ServerDrops(t) \/ Spawn(t) \/ InitResources(t) \/ ThreadGivesUp(t)
           \/ InitCrash(t) \/ StartTest(t) \/ StartTestPartly(t) \/ EventAddFails(t)
           \/ GetCqEvent(t) \/ ReqNotify(t) \/ PollEventFails(t) \/ ExitAtLastReply(t)
           \/ SendNullMr(t)
  <2>1. UNCHANGED <<qp, batch, cq>>
    BY <1>3 DEF ServerDrops, Spawn, InitResources, ThreadGivesUp, InitCrash, StartTest,
                StartTestPartly, EventAddFails, GetCqEvent, ReqNotify, PollEventFails,
                ExitAtLastReply, SendNullMr, threadVars, queueVars, cqVars
  <2>2. pc'[t] \in {"test", "loop", "notify", "poll", "work"}
          => pc[t] \in {"test", "loop", "notify", "poll", "work"}
    <3>1. CASE StartTestPartly(t)
      <4>1. pc[t] = "test"
        BY <3>1 DEF StartTestPartly
      <4>2. QED
        BY <4>1
    <3>2. CASE \/ ServerDrops(t) \/ Spawn(t) \/ InitResources(t) \/ ThreadGivesUp(t)
               \/ InitCrash(t) \/ StartTest(t) \/ EventAddFails(t) \/ GetCqEvent(t)
               \/ ReqNotify(t) \/ PollEventFails(t) \/ ExitAtLastReply(t)
               \/ SendNullMr(t)
      BY <3>2 DEF ServerDrops, Spawn, InitResources, ThreadGivesUp, InitCrash, StartTest,
                EventAddFails, GetCqEvent, ReqNotify, PollEventFails,
                ExitAtLastReply, SendNullMr, threadVars, Goto, TypeOK, ThreadTypeOK
    <3>3. QED
      BY <1>3, <3>1, <3>2
  <2>3. QED
    BY <2>1, <2>2 DEF StatusInv
<1>4. CASE BuildConnection(t)
  <2>1. qp'[t] = "rts" /\ batch' = batch /\ cq' = cq /\ pc[t] = "build"
    BY <1>4 DEF BuildConnection, cqVars, TypeOK, QueueTypeOK
  <2>2. batch[t] = <<>> /\ \A k \in Cqs : cq[t][k] = <<>>
    BY <2>1 DEF ThreadInv, StartInv, Starting
  <2>3. QED
    BY <1>b, <2>1, <2>2 DEF StatusInv
<1>5. CASE PollCq(t)
  <2>1. qp' = qp /\ pc[t] = "poll"
    BY <1>5 DEF PollCq, queueVars
  <2>2. qp[t] # "err" =>
          batch'[t] \in Seq({"ok"}) /\ \A k \in Cqs : cq'[t][k] \in Seq({"ok"})
    BY <1>5, PollStatus DEF StatusInv
  <2>3. QED
    BY <2>1, <2>2 DEF StatusInv
<1>6. CASE HandleBadCompletion(t)
  <2>1. batch[t] # <<>> /\ Head(batch[t]) # "ok" /\ pc[t] = "work"
    BY <1>6 DEF HandleBadCompletion, ThreadInv, StartInv
  <2>2. qp[t] = "err"
    BY <1>a, <2>1 DEF StatusInv
  <2>3. qp'[t] = "err"
    BY <1>6 DEF HandleBadCompletion, TypeOK, QueueTypeOK
  <2>4. QED
    BY <2>2, <2>3 DEF StatusInv
<1>7. CASE handle_send_regmem(t) \/ handle_recv_regmem(t) \/ PostRecvFails(t)
  <2>1. qp' = qp /\ cq' = cq /\ pc[t] = "work" /\ NextCompletion(t)
    BY <1>7 DEF handle_send_regmem, handle_recv_regmem, PostRecvFails, GotReply,
                queueVars, cqVars
  <2>2. batch[t] # <<>> /\ batch'[t] = Tail(batch[t])
    BY <2>1 DEF NextCompletion, ThreadInv, StartInv, TypeOK, ThreadTypeOK
  <2>3. QED
    BY <1>a, <2>1, <2>2 DEF StatusInv
<1>8. QED
  BY <1>1, <1>2, <1>3, <1>4, <1>5, <1>6, <1>7 DEF
     Step, HcaNext, ThreadNext, StartNext, PollNext, WorkNext

\* A remainder is the only one.
LEMMA Remainder ==
    ASSUME NEW m \in Nat \ {0}, NEW p \in Int, NEW q \in Int,
           NEW r \in 0 .. m - 1, NEW s \in 0 .. m - 1, (p * m) + r = (q * m) + s
    PROVE  r = s
<1>1. (p - q) * m = s - r
  OBVIOUS
<1>2. CASE p - q >= 1
  <2>1. (p - q) * m >= m
    BY <1>2
  <2>2. QED
    BY <1>1, <2>1
<1>3. CASE p - q <= -1
  <2>1. (p - q) * m <= -m
    BY <1>3
  <2>2. QED
    BY <1>1, <2>1
<1>4. CASE p = q
  BY <1>4
<1>5. QED
  BY <1>2, <1>3, <1>4

\* The index goes round as the count goes on (async-client.c:422-424).
LEMMA GoesRound ==
    ASSUME NEW m \in Nat \ {0}, NEW a \in Nat
    PROVE  (a + 1) % m = IF (a % m) + 1 = m THEN 0 ELSE (a % m) + 1
<1> DEFINE d == a \div m
           e == (a + 1) \div m
<1>1. a = (d * m) + (a % m) /\ a % m \in 0 .. m - 1 /\ d \in Int
  OBVIOUS
<1>2. a + 1 = (e * m) + ((a + 1) % m) /\ (a + 1) % m \in 0 .. m - 1 /\ e \in Int
  OBVIOUS
<1> HIDE DEF d, e
<1>3. CASE (a % m) + 1 = m
  <2>1. a + 1 = ((d + 1) * m) + 0 /\ d + 1 \in Int /\ 0 \in 0 .. m - 1
    BY <1>1, <1>3
  <2>2. QED
    BY <1>2, <1>3, <2>1, Remainder
<1>4. CASE (a % m) + 1 # m
  <2>1. a + 1 = (d * m) + ((a % m) + 1) /\ (a % m) + 1 \in 0 .. m - 1
    BY <1>1, <1>4
  <2>2. QED
    BY <1>1, <1>2, <1>4, <2>1, Remainder
<1>5. QED
  BY <1>3, <1>4

\* While nothing failed every buffer is posted or with the handler.
LEMMA RingStep ==
    ASSUME TypeOK, NEW t \in Threads, ThreadInv(t), StatusInv(t), RingInv(t), Step(t),
           faults' = 0 => faults = 0
    PROVE  RingInv(t)'
<1> SUFFICES ASSUME faults' = 0, faults = 0
             PROVE  /\ srq'[t] + RepliesAtHand(t)' \in {0, Buffs}
                    /\ index'[t] = totalRecv'[t] % NumMrs
  BY DEF RingInv
<1>a. ~Fault
  BY DEF Fault
<1>b. srq[t] + RepliesAtHand(t) \in {0, Buffs} /\ index[t] = totalRecv[t] % NumMrs
      /\ srq[t] \in Nat /\ RepliesAtHand(t) \in Nat
  BY Here, Replies DEF RingInv
<1>c. qp[t] # "err"
  BY DEF StatusInv
<1>1. CASE ServerReplies(t)
  <2>1. srq'[t] = srq[t] - 1 /\ UNCHANGED <<index, totalRecv, polling, batch>>
    BY <1>1 DEF ServerReplies, countVars, threadVars, TypeOK, QueueTypeOK
  <2>2. Len(cq'[t]["recv"]) = Len(cq[t]["recv"]) + 1
    <3>1. Complete(t, "recv", "ok") /\ "recv" \in Cqs
      BY <1>1 DEF ServerReplies, Cqs
    <3>2. QED
      BY <3>1, CompleteHere, Here, AppendStatus
  <2>3. RepliesAtHand(t)' = RepliesAtHand(t) + 1
    BY <2>1, <2>2, Replies
  <2>4. QED
    BY <1>b, <2>1, <2>3
<1>2. CASE HcaSend(t)
  <2>1. UNCHANGED <<srq, index, totalRecv, polling, batch>> /\ Complete(t, "send", "ok")
    BY <1>2 DEF HcaSend, countVars, threadVars
  <2>2. cq'[t]["recv"] = cq[t]["recv"]
    BY <2>1, CompleteHere DEF Cqs
  <2>3. QED
    BY <1>b, <2>1, <2>2 DEF RepliesAtHand
<1>3. CASE \/ Spawn(t) \/ BuildConnection(t) \/ StartTest(t) \/ ReqNotify(t)
           \/ ExitAtLastReply(t) \/ SendNullMr(t)
  <2>1. UNCHANGED <<srq, index, totalRecv, polling, batch, cq>>
    BY <1>3 DEF Spawn, BuildConnection, StartTest, ReqNotify, ExitAtLastReply,
                SendNullMr, countVars, threadVars, queueVars, cqVars
  <2>2. QED
    BY <1>b, <2>1 DEF RepliesAtHand
<1>4. CASE InitResources(t)
  <2>1. /\ UNCHANGED <<index, totalRecv, polling, batch, cq>>
        /\ srq'[t] = Buffs /\ pc[t] = "init"
    BY <1>4 DEF InitResources, countVars, TypeOK, QueueTypeOK
  <2>2. batch[t] = <<>> /\ cq[t]["recv"] = <<>>
    BY <2>1 DEF ThreadInv, StartInv, Starting, Cqs
  <2>3. RepliesAtHand(t)' = 0
    BY <2>1, <2>2 DEF RepliesAtHand
  <2>4. QED
    BY <1>b, <2>1, <2>3, ClientAssumption
<1>5. CASE GetCqEvent(t) \/ PollCq(t)
  <2>1. UNCHANGED <<srq, index, totalRecv>>
    BY <1>5 DEF GetCqEvent, PollCq, countVars, queueVars
  <2>2. QED
    BY <1>5, <1>b, <2>1, RepliesKept
<1>6. CASE handle_send_regmem(t)
  <2>1. UNCHANGED <<srq, index, totalRecv, polling, cq>> /\ polling[t] = "send"
    BY <1>6 DEF handle_send_regmem, countVars, queueVars, cqVars
  <2>2. QED
    BY <1>b, <2>1 DEF RepliesAtHand
<1>7. CASE handle_recv_regmem(t)
  <2>1. /\ polling' = polling /\ polling[t] = "recv" /\ cq' = cq /\ pc[t] = "work"
        /\ srq'[t] = srq[t] + 1 /\ totalRecv'[t] = totalRecv[t] + 1
        /\ index'[t] = next_index(t)
    BY <1>7 DEF handle_recv_regmem, GotReply, cqVars, TypeOK, QueueTypeOK, CountTypeOK
  <2>2. Len(batch'[t]) = Len(batch[t]) - 1 /\ Len(batch[t]) \in Nat \ {0}
    BY <1>7, <2>1, NextHere DEF handle_recv_regmem
  <2>3. RepliesAtHand(t)' = RepliesAtHand(t) - 1
    <3>1. RepliesAtHand(t)' = Len(cq[t]["recv"]) + Len(batch'[t])
          /\ RepliesAtHand(t) = Len(cq[t]["recv"]) + Len(batch[t])
      BY <2>1 DEF RepliesAtHand
    <3>2. QED
      BY <2>2, <3>1, Here
  <2>4. index'[t] = totalRecv'[t] % NumMrs
    <3>1. totalRecv[t] \in Nat /\ NumMrs \in Nat \ {0}
      BY Here, ClientAssumption
    <3>2. (totalRecv[t] + 1) % NumMrs
            = IF (totalRecv[t] % NumMrs) + 1 = NumMrs THEN 0 ELSE (totalRecv[t] % NumMrs) + 1
      BY <3>1, GoesRound
    <3>3. next_index(t) = (totalRecv[t] + 1) % NumMrs
      BY <1>b, <3>2 DEF next_index
    <3>4. QED
      BY <2>1, <3>3
  <2>5. QED
    BY <1>b, <2>1, <2>3, <2>4
<1>8. CASE \/ HcaSendFails(t) \/ ServerDrops(t) \/ ThreadGivesUp(t) \/ InitCrash(t)
           \/ StartTestPartly(t) \/ EventAddFails(t) \/ PollEventFails(t)
           \/ PostRecvFails(t)
  BY <1>8, <1>a, <1>c DEF HcaSendFails, ServerDrops, ThreadGivesUp, InitCrash,
     StartTestPartly, EventAddFails, PollEventFails, PostRecvFails
<1>9. CASE HandleBadCompletion(t)
  <2>1. batch[t] # <<>> /\ Head(batch[t]) # "ok"
    BY <1>9 DEF HandleBadCompletion, ThreadInv, StartInv
  <2>2. batch[t] \in Seq({"ok"})
    BY <1>c DEF StatusInv
  <2>3. QED
    BY <2>1, <2>2
<1>10. QED
  BY <1>1, <1>2, <1>3, <1>4, <1>5, <1>6, <1>7, <1>8, <1>9 DEF
     Step, HcaNext, ThreadNext, StartNext, PollNext, WorkNext
\* No thread is created yet.
LEMMA InitInv == Init => IInv
<1> SUFFICES ASSUME Init PROVE IInv
  OBVIOUS
<1> USE ClientAssumption DEF Init
<1>1. ThreadTypeOK
  BY DEF ThreadTypeOK, Pcs, Cqs
<1>2. CountTypeOK
  BY DEF CountTypeOK
<1>3. QueueTypeOK
  BY DEF QueueTypeOK
<1>4. CqTypeOK
  BY DEF CqTypeOK, Cqs
<1>5. ASSUME NEW t \in Threads PROVE ThreadInv(t) /\ StatusInv(t) /\ RingInv(t)
  <2>1. StartInv(t)
    BY DEF StartInv, Starting
  <2>2. CountInv(t)
    BY EmptySeq DEF CountInv, InFlight, RepliesAtHand, Cqs
  <2>3. \A k \in Cqs : TokenInv(t, k) /\ WakeInv(t, k)
    BY DEF TokenInv, WakeInv, Named, Once, Held
  <2>4. StatusInv(t)
    BY DEF StatusInv
  <2>5. RingInv(t)
    <3>1. RepliesAtHand(t) = 0
      BY EmptySeq DEF RepliesAtHand, Cqs
    <3>2. 0 = 0 % NumMrs
      OBVIOUS
    <3>3. QED
      BY <3>1, <3>2 DEF RingInv
  <2>6. QED
    BY <2>1, <2>2, <2>3, <2>4, <2>5 DEF ThreadInv
<1>6. QED
  BY <1>1, <1>2, <1>3, <1>4, <1>5 DEF IInv, TypeOK

\* What threads share only makes the invariant weaker.
LEMMA SameInv ==
    ASSUME NEW u \in Threads, ThreadInv(u), StatusInv(u), RingInv(u), Same(u),
           faults' = 0 => faults = 0
    PROVE  ThreadInv(u)' /\ StatusInv(u)' /\ RingInv(u)'
<1>1. StartInv(u)' /\ CountInv(u)'
  BY DEF Same, ThreadInv, StartInv, CountInv, InFlight, RepliesAtHand
<1>2. \A j \in Cqs : TokenInv(u, j)' /\ WakeInv(u, j)'
  BY DEF Same, ThreadInv, TokenInv, WakeInv, Held, Busy
<1>3. StatusInv(u)' /\ RingInv(u)'
  BY DEF Same, StatusInv, RingInv, RepliesAtHand
<1>4. QED
  BY <1>1, <1>2, <1>3 DEF ThreadInv

\* Failures are counted.
LEMMA FaultsGrow == ASSUME [Next]_vars PROVE faults' = faults \/ faults' = faults + 1
<1>1. ASSUME NEW t \in Threads, HcaNext(t) PROVE Fault \/ faults' = faults
  BY <1>1 DEF HcaNext, HcaSend, HcaSendFails, ServerReplies, ServerDrops
<1>2. ASSUME NEW t \in Threads, StartNext(t) PROVE Fault \/ faults' = faults
  BY <1>2 DEF StartNext, Spawn, InitResources, BuildConnection, ThreadGivesUp, InitCrash,
              StartTest, StartTestPartly, EventAddFails, send_mr
<1>3. ASSUME NEW t \in Threads, PollNext(t) PROVE Fault \/ faults' = faults
  BY <1>3 DEF PollNext, GetCqEvent, ReqNotify, PollCq, PollEventFails
<1>4. ASSUME NEW t \in Threads, WorkNext(t) PROVE Fault \/ faults' = faults
  BY <1>4 DEF WorkNext, HandleBadCompletion, handle_send_regmem, ExitAtLastReply,
              handle_recv_regmem, PostRecvFails, SendNullMr, send_mr
<1>5. CASE SpawnFails \/ MainReturns \/ UNCHANGED vars
  BY <1>5 DEF SpawnFails, MainReturns, vars, Fault
<1>6. QED
  BY <1>1, <1>2, <1>3, <1>4, <1>5 DEF Next, ThreadNext, Fault

\* What did not fail so far had not failed before.
LEMMA FaultsStay == ASSUME TypeOK, [Next]_vars PROVE faults' = 0 => faults = 0
BY FaultsGrow, ClientAssumption DEF TypeOK, ThreadTypeOK

\* Every step keeps the invariant: the thread that takes it, and all others.
LEMMA InvStep == IInv /\ [Next]_vars => IInv'
<1> SUFFICES ASSUME IInv, [Next]_vars PROVE IInv'
  OBVIOUS
<1>0. TypeOK /\ \A t \in Threads : ThreadInv(t) /\ StatusInv(t) /\ RingInv(t)
  BY DEF IInv
<1>1. ASSUME NEW t \in Threads, Step(t) PROVE IInv'
  <2>1. TypeOK'
    BY <1>0, <1>1, TypeStep
  <2>2. ThreadInv(t)'
    BY <1>0, <1>1, HcaStep, StartStep, PollStep, WorkStep DEF Step, ThreadNext
  <2>a. StatusInv(t)' /\ RingInv(t)'
    BY <1>0, <1>1, FaultsStay, StatusStep, RingStep
  <2>3. ASSUME NEW u \in Threads, u # t
        PROVE  ThreadInv(u)' /\ StatusInv(u)' /\ RingInv(u)'
    BY <1>0, <1>1, <2>3, OthersSame, SameInv, FaultsStay
  <2>4. QED
    BY <2>1, <2>2, <2>a, <2>3 DEF IInv
<1>2. CASE SpawnFails \/ MainReturns \/ UNCHANGED vars
  <2>1. UNCHANGED <<threadVars, countVars, queueVars, cqVars, requests>>
    BY <1>2 DEF SpawnFails, MainReturns, vars
  <2>2. TypeOK'
    <3>1. process' \in {"running", "exited", "crashed"} /\ faults' \in 0 .. MaxFaults
      BY <1>0, <1>2, ClientAssumption
         DEF SpawnFails, MainReturns, vars, Fault, TypeOK, ThreadTypeOK
    <3>2. QED
      BY <1>0, <2>1, <3>1 DEF TypeOK, ThreadTypeOK, CountTypeOK, QueueTypeOK, CqTypeOK,
                              threadVars, countVars, queueVars, cqVars
  <2>3. ASSUME NEW u \in Threads PROVE ThreadInv(u)' /\ StatusInv(u)' /\ RingInv(u)'
    <3>1. Same(u)
      BY <2>1 DEF Same, threadVars, countVars, queueVars, cqVars
    <3>2. QED
      BY <1>0, <3>1, SameInv, FaultsStay
  <2>4. QED
    BY <2>2, <2>3 DEF IInv
<1>3. QED
  BY <1>1, <1>2 DEF Next, Step

\* The strengthening of the properties below.
LEMMA Invariant == SafeSpec => []IInv
BY InitInv, InvStep, PTL DEF SafeSpec
------------------------------------------------------------------------------
\* Every variable keeps its type; in particular no queue holds more than fits.
THEOREM TypeCorrect == SafeSpec => []TypeOK
<1>1. IInv => TypeOK
  BY DEF IInv
<1>2. QED
  BY Invariant, <1>1, PTL

\* Each queue of each thread has one notification (async-client.c:171-182, 335-347).
THEOREM OneNotification == SafeSpec => []OneNotificationPerQueue
<1>1. ASSUME IInv, NEW t \in Threads, NEW k \in Cqs
      PROVE  LET held == polling[t] = k /\ pc[t] = "notify"
                 places == InChannel(t, k) \cup (IF k \in armed[t] THEN {-1} ELSE {})
                             \cup (IF held THEN {0} ELSE {})
             IN /\ \A p, q \in places : p = q
                /\ faults = 0 /\ pc[t] \notin {"none", "init"} => places # {}
  <2> DEFINE places == InChannel(t, k) \cup (IF k \in armed[t] THEN {-1} ELSE {})
                             \cup (IF Held(t, k) THEN {0} ELSE {})
  <2>1. TokenInv(t, k)
    BY <1>1 DEF IInv, ThreadInv
  <2>2. Named(channel[t], k) <=> InChannel(t, k) # {}
    BY DEF Named, InChannel
  <2>3. \A p, q \in InChannel(t, k) : p = q
    BY <2>1 DEF TokenInv, Once, InChannel
  <2>4. \A p, q \in places : p = q
    BY <2>1, <2>2, <2>3 DEF TokenInv
  <2>5. faults = 0 /\ pc[t] \notin {"none", "init"} => places # {}
    BY <2>1, <2>2 DEF TokenInv
  <2>6. QED
    BY <2>4, <2>5 DEF Held
<1>2. IInv => OneNotificationPerQueue
  BY <1>1 DEF OneNotificationPerQueue
<1>3. QED
  BY Invariant, <1>2, PTL

\* A completion in either queue is polled without another having to arrive, for any
\* batch size (async-client.c:344-362).
THEOREM NoWakeupLost == SafeSpec => []NoLostWakeup
<1>1. ASSUME IInv, NEW t \in Threads, NEW k \in Cqs, faults = 0, cq[t][k] # <<>>
      PROVE  InChannel(t, k) # {} \/ Busy(t, k)
  BY <1>1 DEF IInv, ThreadInv, WakeInv, Named, InChannel
<1>2. IInv => NoLostWakeup
  BY <1>1 DEF NoLostWakeup
<1>3. QED
  BY Invariant, <1>2, PTL

\* No connection has two requests outstanding (async-client.c:430, 471).
THEOREM OneRequest == SafeSpec => []OneRequestInFlight
<1>1. IInv => OneRequestInFlight
  BY DEF IInv, ThreadInv, CountInv, OneRequestInFlight
<1>2. QED
  BY Invariant, <1>1, PTL

\* Without a failure no buffer is lost and messages take turns (async-client.c:421-432).
THEOREM BuffersKept == SafeSpec => []BuffersAndIndexAgree
<1>1. IInv => BuffersAndIndexAgree
  BY DEF IInv, RingInv, BuffersAndIndexAgree
<1>2. QED
  BY Invariant, <1>1, PTL

\* An exchange stops only for a full send queue, a broken connection or a failure
\* (async-client.c:430).
THEOREM RequestLost == SafeSpec => RequestLostOnlyIfQueueFull
<1>1. ASSUME IInv, [Next]_vars, NEW t \in Threads, InFlight(t) = 1, InFlight(t)' = 0,
             SlotsUsed(t) < MaxSendWr, qp[t] # "err", faults' = faults
      PROVE  FALSE
  <2>1. TypeOK /\ ThreadInv(t) /\ StatusInv(t)
    BY <1>1 DEF IInv
  <2>2. requests[t] \in Nat /\ RepliesAtHand(t) \in Nat
        /\ requests[t] + RepliesAtHand(t) = 1
    BY <1>1, <2>1, Here, Replies DEF InFlight
  <2>3. ~Fault
    BY <1>1, <2>1, Here DEF Fault
  <2>4. InFlight(t)' = requests'[t] + RepliesAtHand(t)'
    BY DEF InFlight
  <2>5. ASSUME UNCHANGED <<polling, batch, cq>> PROVE RepliesAtHand(t)' = RepliesAtHand(t)
    BY <2>5 DEF RepliesAtHand
  <2>6. CASE Same(t)
    <3>1. InFlight(t)' = InFlight(t)
      BY <2>6 DEF Same, InFlight, RepliesAtHand
    <3>2. QED
      BY <1>1, <3>1
  <2>7. CASE HcaSend(t)
    <3>1. UNCHANGED <<requests, polling, batch>> /\ Complete(t, "send", "ok")
      BY <2>7 DEF HcaSend, threadVars
    <3>2. cq'[t]["recv"] = cq[t]["recv"]
      BY <2>1, <3>1, CompleteHere DEF Cqs
    <3>3. InFlight(t)' = InFlight(t)
      BY <3>1, <3>2 DEF InFlight, RepliesAtHand
    <3>4. QED
      BY <1>1, <3>3
  <2>8. CASE ServerReplies(t)
    <3>1. /\ requests'[t] = requests[t] - 1 /\ UNCHANGED <<polling, batch>>
          /\ Complete(t, "recv", "ok") /\ "recv" \in Cqs
      BY <2>1, <2>8 DEF ServerReplies, threadVars, TypeOK, QueueTypeOK, Cqs
    <3>2. Len(cq'[t]["recv"]) = Len(cq[t]["recv"]) + 1
      BY <2>1, <3>1, CompleteHere, Here, AppendStatus
    <3>3. RepliesAtHand(t)' = RepliesAtHand(t) + 1
      BY <2>1, <3>1, <3>2, Replies
    <3>4. QED
      BY <1>1, <2>2, <2>4, <3>1, <3>3
  <2>9. CASE \/ Spawn(t) \/ InitResources(t) \/ BuildConnection(t) \/ ReqNotify(t)
             \/ ExitAtLastReply(t) \/ SendNullMr(t)
    <3>1. UNCHANGED <<requests, polling, batch, cq>>
      BY <2>9 DEF Spawn, InitResources, BuildConnection, ReqNotify, ExitAtLastReply,
                  SendNullMr, threadVars, cqVars
    <3>2. QED
      BY <1>1, <2>2, <2>4, <2>5, <3>1
  <2>10. CASE StartTest(t)
    <3>1. pc[t] = "test" /\ UNCHANGED <<polling, batch, cq>>
      BY <2>10 DEF StartTest, cqVars
    <3>2. requests[t] = 0 /\ cq[t]["recv"] = <<>> /\ batch[t] = <<>>
      BY <2>1, <3>1 DEF ThreadInv, StartInv, Starting, Cqs
    <3>3. InFlight(t) = 0
      BY <3>2, EmptySeq DEF InFlight, RepliesAtHand
    <3>4. QED
      BY <1>1, <3>3
  <2>11. CASE GetCqEvent(t) \/ PollCq(t)
    <3>1. requests' = requests /\ RepliesAtHand(t)' = RepliesAtHand(t)
      BY <2>1, <2>11, RepliesKept DEF GetCqEvent, PollCq
    <3>2. QED
      BY <1>1, <2>2, <2>4, <3>1
  <2>12. CASE HandleBadCompletion(t)
    <3>1. batch[t] # <<>> /\ Head(batch[t]) # "ok" /\ batch[t] \in Seq({"ok"})
      BY <1>1, <2>1, <2>12 DEF HandleBadCompletion, ThreadInv, StartInv, StatusInv
    <3>2. QED
      BY <3>1
  <2>13. CASE handle_send_regmem(t)
    <3>1. UNCHANGED <<requests, polling, cq>> /\ polling[t] = "send"
      BY <2>13 DEF handle_send_regmem, cqVars
    <3>2. InFlight(t)' = InFlight(t)
      BY <3>1 DEF InFlight, RepliesAtHand
    <3>3. QED
      BY <1>1, <3>2
  <2>14. CASE handle_recv_regmem(t)
    <3>1. polling' = polling /\ polling[t] = "recv" /\ cq' = cq /\ pc[t] = "work"
      BY <2>14 DEF handle_recv_regmem, GotReply, cqVars
    <3>2. qp[t] = "rts"
      BY <1>1, <2>1, <3>1, Here DEF StatusInv
    <3>3. requests'[t] = requests[t] + 1
      <4>1. send_mr(t) /\ ~(SlotsUsed(t) >= MaxSendWr)
        <5>1. SlotsUsed(t) \in Nat /\ MaxSendWr \in Nat
          BY <2>1, Here, ClientAssumption DEF SlotsUsed
        <5>2. QED
          BY <1>1, <2>14, <5>1 DEF handle_recv_regmem
      <4>2. requests' = [requests EXCEPT ![t] = IF qp[t] = "rts" THEN @ + 1 ELSE @]
        BY <2>3, <4>1 DEF send_mr
      <4>3. QED
        BY <2>1, <3>2, <4>2 DEF TypeOK, QueueTypeOK
    <3>4. RepliesAtHand(t)' \in Nat
      <4>1. Len(batch'[t]) = Len(batch[t]) - 1 /\ Len(batch[t]) \in Nat \ {0}
        BY <2>1, <2>14, <3>1, NextHere DEF handle_recv_regmem
      <4>2. RepliesAtHand(t)' = Len(cq[t]["recv"]) + Len(batch'[t])
        BY <3>1 DEF RepliesAtHand
      <4>3. Len(batch'[t]) \in Nat
        BY <4>1
      <4>4. Len(cq[t]["recv"]) \in Nat
        BY <2>1, Here
      <4>5. \A a, b \in Nat : a + b \in Nat
        OBVIOUS
      <4>6. QED
        BY <4>2, <4>3, <4>4, <4>5, Zenon
    <3>5. QED
      BY <1>1, <2>2, <2>4, <3>3, <3>4
  <2>15. CASE \/ HcaSendFails(t) \/ ServerDrops(t) \/ ThreadGivesUp(t) \/ InitCrash(t)
              \/ StartTestPartly(t) \/ EventAddFails(t) \/ PollEventFails(t)
              \/ PostRecvFails(t)
    BY <1>1, <2>3, <2>15 DEF HcaSendFails, ServerDrops, ThreadGivesUp, InitCrash,
       StartTestPartly, EventAddFails, PollEventFails, PostRecvFails
  <2>16. CASE Step(t)
    BY <2>7, <2>8, <2>9, <2>10, <2>11, <2>12, <2>13, <2>14, <2>15, <2>16 DEF
       Step, HcaNext, ThreadNext, StartNext, PollNext, WorkNext
  <2>17. Step(t) \/ Same(t)
    <3>1. CASE \E u \in Threads : Step(u)
      BY <2>1, <3>1, OthersSame
    <3>2. CASE SpawnFails \/ MainReturns \/ UNCHANGED vars
      BY <3>2 DEF SpawnFails, MainReturns, vars, Same, threadVars, countVars, queueVars,
                  cqVars
    <3>3. QED
      BY <1>1, <3>1, <3>2 DEF Next, Step
  <2>18. QED
    BY <2>6, <2>16, <2>17
<1>2. ASSUME IInv, IInv', [Next]_vars, NEW t \in Threads, InFlight(t) = 1,
             InFlight(t)' = 0
      PROVE  SlotsUsed(t) >= MaxSendWr \/ qp[t] = "err" \/ faults' > faults
  <2>1. SlotsUsed(t) \in Nat /\ MaxSendWr \in Nat
    BY <1>2, Here, ClientAssumption DEF IInv, SlotsUsed
  <2>2. faults' \in Nat /\ faults \in Nat
    BY <1>2, ClientAssumption DEF IInv, TypeOK, ThreadTypeOK
  <2>3. faults' = faults \/ faults' = faults + 1
    BY <1>2, FaultsGrow
  <2>4. QED
    BY <1>1, <1>2, <2>1, <2>2, <2>3
<1>3. IInv /\ IInv' /\ [Next]_vars =>
        [\A t \in Threads :
            InFlight(t) = 1 /\ InFlight(t)' = 0 =>
                \/ SlotsUsed(t) >= MaxSendWr
                \/ qp[t] = "err"
                \/ faults' > faults]_vars
  BY <1>2
<1>4. QED
  BY Invariant, <1>3, PTL DEF SafeSpec, RequestLostOnlyIfQueueFull
==============================================================================
