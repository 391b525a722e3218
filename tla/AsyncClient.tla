------------------------------ MODULE AsyncClient ------------------------------
(***************************************************************************)
(* async-client.c: each thread has a connection of its own and a libevent  *)
(* loop over one completion channel that two completion queues share. On   *)
(* every reply it posts the receive buffer again and sends the next        *)
(* request. exit(0) in one thread ends them all.                           *)
(*                                                                         *)
(* The server, the adapter and the verbs calls are the environment. What   *)
(* can go wrong there, and calls that fail, happen at most MaxFaults times.*)
(***************************************************************************)
EXTENDS Integers, Sequences

CONSTANTS
    Threads,     \* thread_number threads
    Buffs,       \* buff_per_thread, buffers in a shared receive queue
    PollWcSize,  \* poll_wc_size
    MaxSendWr,   \* max_send_wr of a queue pair
    Requests,    \* request_number
    NumMrs,      \* messages in test_regmem_context
    AckEvents,   \* ack_events, the global one
    MaxFaults    \* bound on what fails

ASSUME ClientAssumption ==
    /\ Buffs \in Nat \ {0}
    /\ PollWcSize \in Nat \ {0}
    /\ MaxSendWr \in Nat \ {0}
    /\ Requests \in Nat \ {0}
    /\ NumMrs \in Nat \ {0}
    /\ AckEvents \in Nat \ {0}
    /\ MaxFaults \in Nat

VARIABLES
    process,   \* "running", "exited" or "crashed"
    pc,        \* pc[t]: where thread t is, see Pcs
    polling,   \* polling[t]: the queue its handler got an event for
    batch,     \* batch[t]: poll_wc[i] .. poll_wc[cqe-1], by status
    full,      \* full[t]: cqe == poll_wc_size
    ackEvents, \* ctx->ack_events
    totalRecv, \* c->total_recv
    index,     \* regmem_ctx->index
    badMrs,    \* entries of regmem_ctx->mr that are NULL
    \* Queues of thread t's adapter side.
    qp,        \* qp[t]: "none", "rts" or "err"
    srq,       \* srq[t]: receive buffers posted
    sq,        \* sq[t]: sends posted and not completed
    cq,        \* cq[t]["send"], cq[t]["recv"]: completions not polled
    armed,     \* armed[t]: queues that will raise an event
    channel,   \* channel[t]: the queues whose events are unread, oldest first
    requests,  \* requests[t]: requests on their way to an answer
    faults

threadVars == <<pc, polling, batch, full>>
countVars == <<ackEvents, totalRecv, index, badMrs>>
queueVars == <<qp, srq, sq>>
cqVars == <<cq, armed, channel>>
vars == <<process, threadVars, countVars, queueVars, cqVars, requests, faults>>

Cqs == {"send", "recv"}
Pcs == {"none",     \* not created yet
        "init",     \* in init_rdma_thread_resources
        "build",    \* in build_connection
        "test",     \* about to register the messages and send the first
        "loop",     \* in event_base_dispatch
        "notify",   \* about to ibv_req_notify_cq
        "poll",     \* about to ibv_poll_cq
        "work",     \* at the top of handle_work_complete
        "returned"} \* thread_run returned

Running == process = "running"
Fault == faults < MaxFaults /\ faults' = faults + 1
Goto(t, label) == pc' = [pc EXCEPT ![t] = label]

\* A send queue entry is free again once its completion was polled.
SlotsUsed(t) == sq[t] + Len(cq[t]["send"])
------------------------------------------------------------------------------
(***************************************************************************)
(* The adapter and the server                                              *)
(***************************************************************************)
Complete(t, k, status) ==
    /\ cq' = [cq EXCEPT ![t][k] = Append(@, status)]
    /\ armed' = [armed EXCEPT ![t] = @ \ {k}]
    /\ channel' = [channel EXCEPT ![t] = IF k \in armed[t] THEN Append(@, k) ELSE @]

HcaSend(t) ==
    /\ Running /\ qp[t] = "rts" /\ sq[t] > 0
    /\ Complete(t, "send", "ok")
    /\ sq' = [sq EXCEPT ![t] = @ - 1]
    /\ UNCHANGED <<process, threadVars, countVars, qp, srq, requests, faults>>

\* The server is gone; what is posted later fails as well.
HcaSendFails(t) ==
    /\ Running /\ sq[t] > 0
    /\ \/ qp[t] = "rts" /\ Fault
       \/ qp[t] = "err" /\ UNCHANGED faults
    /\ Complete(t, "send", "error")
    /\ sq' = [sq EXCEPT ![t] = @ - 1]
    /\ qp' = [qp EXCEPT ![t] = "err"]
    /\ requests' = [requests EXCEPT ![t] = 0]
    /\ UNCHANGED <<process, threadVars, countVars, srq>>

\* The reply to a request may be here before the completion of its send.
ServerReplies(t) ==
    /\ Running /\ qp[t] = "rts" /\ requests[t] > 0 /\ srq[t] > 0
    /\ Complete(t, "recv", "ok")
    /\ requests' = [requests EXCEPT ![t] = @ - 1]
    /\ srq' = [srq EXCEPT ![t] = @ - 1]
    /\ UNCHANGED <<process, threadVars, countVars, qp, sq, faults>>

\* libevent-server.c:345 loses a reply for which its send queue has no room.
ServerDrops(t) ==
    /\ Running /\ requests[t] > 0
    /\ Fault
    /\ requests' = [requests EXCEPT ![t] = @ - 1]
    /\ UNCHANGED <<process, threadVars, countVars, queueVars, cqVars>>
------------------------------------------------------------------------------
(***************************************************************************)
(* main and thread_run                                                     *)
(***************************************************************************)
Spawn(t) ==
    /\ Running /\ pc[t] = "none"
    /\ Goto(t, "init")
    /\ UNCHANGED <<process, polling, batch, full, countVars, queueVars, cqVars,
                   requests, faults>>

\* pthread_create fails: main returns, whatever the threads are doing.
SpawnFails ==
    /\ Running /\ \E t \in Threads : pc[t] = "none"
    /\ Fault
    /\ process' = "exited"
    /\ UNCHANGED <<threadVars, countVars, queueVars, cqVars, requests>>

\* Every thread was joined.
MainReturns ==
    /\ Running /\ \A t \in Threads : pc[t] = "returned"
    /\ process' = "exited"
    /\ UNCHANGED <<threadVars, countVars, queueVars, cqVars, requests, faults>>

\* Both queues are armed and the buffers are posted.
InitResources(t) ==
    /\ Running /\ pc[t] = "init"
    /\ armed' = [armed EXCEPT ![t] = Cqs]
    /\ srq' = [srq EXCEPT ![t] = Buffs]
    /\ Goto(t, "build")
    /\ UNCHANGED <<process, polling, batch, full, countVars, qp, sq, cq, channel,
                   requests, faults>>

BuildConnection(t) ==
    /\ Running /\ pc[t] = "build"
    /\ qp' = [qp EXCEPT ![t] = "rts"]
    /\ Goto(t, "test")
    /\ UNCHANGED <<process, polling, batch, full, countVars, srq, sq, cqVars,
                   requests, faults>>

\* A call of init_rdma_thread_resources or build_connection fails.
ThreadGivesUp(t) ==
    /\ Running /\ pc[t] \in {"init", "build"}
    /\ Fault
    /\ Goto(t, "returned")
    /\ UNCHANGED <<process, polling, batch, full, countVars, queueVars, cqVars,
                   requests>>

\* ibv_reg_mr fails on a receive buffer; its lkey is read all the same.
InitCrash(t) ==
    /\ Running /\ pc[t] = "init"
    /\ Fault
    /\ process' = "crashed"
    /\ UNCHANGED <<threadVars, countVars, queueVars, cqVars, requests>>

\* Mutant of send_mr: the last entry of the send queue is never used.
send_mr_short(t) ==
    \/ /\ SlotsUsed(t) + 1 < MaxSendWr
       /\ sq' = [sq EXCEPT ![t] = @ + 1]
       /\ requests' = [requests EXCEPT ![t] = IF qp[t] = "rts" THEN @ + 1 ELSE @]
       /\ UNCHANGED faults
    \/ SlotsUsed(t) + 1 >= MaxSendWr /\ UNCHANGED <<sq, requests, faults>>
    \/ Fault /\ UNCHANGED <<sq, requests>>

\* The message is on its way, unless the send queue is full or the call fails:
\* nobody looks at what send_mr returns.
send_mr(t) ==
    \/ /\ SlotsUsed(t) < MaxSendWr
       /\ sq' = [sq EXCEPT ![t] = @ + 1]
       /\ requests' = [requests EXCEPT ![t] = IF qp[t] = "rts" THEN @ + 1 ELSE @]
       /\ UNCHANGED faults
    \/ SlotsUsed(t) >= MaxSendWr /\ UNCHANGED <<sq, requests, faults>>
    \/ Fault /\ UNCHANGED <<sq, requests>>

\* The messages are registered and the first one is sent.
StartTest(t) ==
    /\ Running /\ pc[t] = "test"
    /\ Goto(t, "loop")
    /\ send_mr(t)
    /\ UNCHANGED <<process, polling, batch, full, countVars, qp, srq, cqVars>>

\* One message cannot be registered. That shows when it is its turn.
StartTestPartly(t) ==
    /\ Running /\ pc[t] = "test"
    /\ Fault
    /\ \E i \in 0 .. NumMrs - 1 :
        IF i = 0
        THEN process' = "crashed" /\ UNCHANGED <<badMrs, pc, sq, requests>>
        ELSE /\ badMrs' = [badMrs EXCEPT ![t] = {i}]
             /\ Goto(t, "loop")
             /\ sq' = [sq EXCEPT ![t] = 1]
             /\ requests' = [requests EXCEPT ![t] = 1]
             /\ UNCHANGED process
    /\ UNCHANGED <<polling, batch, full, ackEvents, totalRecv, index, qp, srq, cqVars>>

\* event_add fails: the thread returns with its first request on the way.
EventAddFails(t) ==
    /\ Running /\ pc[t] = "test"
    /\ SlotsUsed(t) < MaxSendWr
    /\ Fault
    /\ Goto(t, "returned")
    /\ sq' = [sq EXCEPT ![t] = @ + 1]
    /\ requests' = [requests EXCEPT ![t] = @ + 1]
    /\ UNCHANGED <<process, polling, batch, full, countVars, qp, srq, cqVars>>
------------------------------------------------------------------------------
(***************************************************************************)
(* cc_poll_event_handler                                                   *)
(***************************************************************************)
\* The channel is readable: the handler gets the oldest event. Every AckEvents
\* events it acknowledges that many, all to the queue this one came from. That would
\* show in ibv_destroy_cq only, which nothing calls.
GetCqEvent(t) ==
    /\ Running /\ pc[t] = "loop" /\ channel[t] # <<>>
    /\ polling' = [polling EXCEPT ![t] = Head(channel[t])]
    /\ LET n == ackEvents[t] + 1
       IN ackEvents' = [ackEvents EXCEPT ![t] = IF n = AckEvents THEN 0 ELSE n]
    /\ channel' = [channel EXCEPT ![t] = Tail(@)]
    /\ Goto(t, "notify")
    /\ UNCHANGED <<process, batch, full, totalRecv, index, badMrs, queueVars, cq,
                   armed, requests, faults>>

\* Mutant of ReqNotify: the receive queue is armed whichever the event was for.
ReqNotifyRecv(t) ==
    /\ Running /\ pc[t] = "notify"
    /\ armed' = [armed EXCEPT ![t] = @ \cup {"recv"}]
    /\ Goto(t, "poll")
    /\ UNCHANGED <<process, polling, batch, full, countVars, queueVars, cq, channel,
                   requests, faults>>

ReqNotify(t) ==
    /\ Running /\ pc[t] = "notify"
    /\ armed' = [armed EXCEPT ![t] = @ \cup {polling[t]}]
    /\ Goto(t, "poll")
    /\ UNCHANGED <<process, polling, batch, full, countVars, queueVars, cq, channel,
                   requests, faults>>

PollCq(t) ==
    /\ Running /\ pc[t] = "poll"
    /\ LET q == cq[t][polling[t]]
           n == IF Len(q) < PollWcSize THEN Len(q) ELSE PollWcSize
       IN /\ batch' = [batch EXCEPT ![t] = SubSeq(q, 1, n)]
          /\ cq' = [cq EXCEPT ![t][polling[t]] = SubSeq(q, n + 1, Len(q))]
          /\ full' = [full EXCEPT ![t] = (n = PollWcSize)]
          /\ Goto(t, IF n = 0 THEN "loop" ELSE "work")
    /\ UNCHANGED <<process, polling, countVars, queueVars, armed, channel,
                   requests, faults>>

\* ibv_req_notify_cq or ibv_poll_cq fails: the handler returns.
PollEventFails(t) ==
    /\ Running /\ pc[t] \in {"notify", "poll"}
    /\ Fault
    /\ Goto(t, "loop")
    /\ UNCHANGED <<process, polling, batch, full, countVars, queueVars, cqVars,
                   requests>>
------------------------------------------------------------------------------
(***************************************************************************)
(* handle_work_complete                                                    *)
(***************************************************************************)
NextCompletion(t) ==
    /\ batch' = [batch EXCEPT ![t] = Tail(@)]
    /\ full' = [full EXCEPT ![t] = @ /\ Tail(batch[t]) # <<>>]
    /\ Goto(t, IF Tail(batch[t]) # <<>> THEN "work"
               ELSE IF full[t] THEN "poll" ELSE "loop")

\* rdma_disconnect, for every completion that is bad.
HandleBadCompletion(t) ==
    /\ Running /\ pc[t] = "work" /\ Head(batch[t]) # "ok"
    /\ qp' = [qp EXCEPT ![t] = "err"]
    /\ requests' = [requests EXCEPT ![t] = 0]
    /\ NextCompletion(t)
    /\ UNCHANGED <<process, polling, countVars, srq, sq, cqVars, faults>>

\* Mutant of handle_send_regmem: the next request does not wait for the reply.
handle_send_and_send(t) ==
    /\ Running /\ pc[t] = "work" /\ Head(batch[t]) = "ok" /\ polling[t] = "send"
    /\ NextCompletion(t)
    /\ send_mr(t)
    /\ UNCHANGED <<process, polling, countVars, qp, srq, cqVars>>

handle_send_regmem(t) ==
    /\ Running /\ pc[t] = "work" /\ Head(batch[t]) = "ok" /\ polling[t] = "send"
    /\ NextCompletion(t)
    /\ UNCHANGED <<process, polling, countVars, queueVars, cqVars, requests, faults>>

GotReply(t) ==
    Running /\ pc[t] = "work" /\ Head(batch[t]) = "ok" /\ polling[t] = "recv"

\* The reply after request_number others ends the process.
ExitAtLastReply(t) ==
    /\ GotReply(t) /\ totalRecv[t] = Requests
    /\ process' = "exited"
    /\ UNCHANGED <<threadVars, countVars, queueVars, cqVars, requests, faults>>

\* Mutant of next_index: it goes one too far.
next_index_late(t) == IF index[t] = NumMrs THEN 0 ELSE index[t] + 1

next_index(t) == IF index[t] + 1 = NumMrs THEN 0 ELSE index[t] + 1

\* Mutant of handle_recv_regmem: the buffer is not posted again.
handle_recv_keeps(t) ==
    /\ GotReply(t) /\ totalRecv[t] # Requests
    /\ next_index(t) \notin badMrs[t]
    /\ index' = [index EXCEPT ![t] = next_index(t)]
    /\ send_mr(t)
    /\ totalRecv' = [totalRecv EXCEPT ![t] = @ + 1]
    /\ NextCompletion(t)
    /\ UNCHANGED <<process, polling, ackEvents, badMrs, qp, srq, cqVars>>

\* The index moves on, the buffer is posted again, the next message is sent and
\* only then the reply is counted.
handle_recv_regmem(t) ==
    /\ GotReply(t) /\ totalRecv[t] # Requests
    /\ next_index(t) \notin badMrs[t]
    /\ index' = [index EXCEPT ![t] = next_index(t)]
    /\ srq' = [srq EXCEPT ![t] = @ + 1]
    /\ send_mr(t)
    /\ totalRecv' = [totalRecv EXCEPT ![t] = @ + 1]
    /\ NextCompletion(t)
    /\ UNCHANGED <<process, polling, ackEvents, badMrs, qp, cqVars>>

\* rdma_post_recv fails: no request is sent, the reply is not counted.
PostRecvFails(t) ==
    /\ GotReply(t) /\ totalRecv[t] # Requests
    /\ Fault
    /\ index' = [index EXCEPT ![t] = next_index(t)]
    /\ NextCompletion(t)
    /\ UNCHANGED <<process, polling, ackEvents, totalRecv, badMrs, queueVars, cqVars,
                   requests>>

\* The turn of a message that was never registered: send_mr reads through NULL.
SendNullMr(t) ==
    /\ GotReply(t) /\ totalRecv[t] # Requests
    /\ next_index(t) \in badMrs[t]
    /\ process' = "crashed"
    /\ UNCHANGED <<threadVars, countVars, queueVars, cqVars, requests, faults>>
------------------------------------------------------------------------------
Init ==
    /\ process = "running"
    /\ pc = [t \in Threads |-> "none"]
    /\ polling = [t \in Threads |-> "send"]
    /\ batch = [t \in Threads |-> <<>>]
    /\ full = [t \in Threads |-> FALSE]
    /\ ackEvents = [t \in Threads |-> 0]
    /\ totalRecv = [t \in Threads |-> 0]
    /\ index = [t \in Threads |-> 0]
    /\ badMrs = [t \in Threads |-> {}]
    /\ qp = [t \in Threads |-> "none"]
    /\ srq = [t \in Threads |-> 0]
    /\ sq = [t \in Threads |-> 0]
    /\ cq = [t \in Threads |-> [k \in Cqs |-> <<>>]]
    /\ armed = [t \in Threads |-> {}]
    /\ channel = [t \in Threads |-> <<>>]
    /\ requests = [t \in Threads |-> 0]
    /\ faults = 0

HcaNext(t) == HcaSend(t) \/ HcaSendFails(t) \/ ServerReplies(t) \/ ServerDrops(t)

StartNext(t) ==
    \/ Spawn(t) \/ InitResources(t) \/ BuildConnection(t) \/ ThreadGivesUp(t)
    \/ InitCrash(t) \/ StartTest(t) \/ StartTestPartly(t) \/ EventAddFails(t)

PollNext(t) == GetCqEvent(t) \/ ReqNotify(t) \/ PollCq(t) \/ PollEventFails(t)

WorkNext(t) ==
    \/ HandleBadCompletion(t) \/ handle_send_regmem(t) \/ ExitAtLastReply(t)
    \/ handle_recv_regmem(t) \/ PostRecvFails(t) \/ SendNullMr(t)

ThreadNext(t) == StartNext(t) \/ PollNext(t) \/ WorkNext(t)

Next ==
    \/ \E t \in Threads : HcaNext(t) \/ ThreadNext(t)
    \/ SpawnFails
    \/ MainReturns

SafeSpec == Init /\ [][Next]_vars

\* Every thread is scheduled, the adapter completes what was posted and the
\* server answers.
Fairness ==
    /\ WF_vars(MainReturns)
    /\ \A t \in Threads :
        WF_vars(ThreadNext(t)) /\ WF_vars(HcaSend(t)) /\ WF_vars(ServerReplies(t))

Spec == SafeSpec /\ Fairness
------------------------------------------------------------------------------
ThreadTypeOK ==
    /\ process \in {"running", "exited", "crashed"}
    /\ pc \in [Threads -> Pcs]
    /\ polling \in [Threads -> Cqs]
    /\ batch \in [Threads -> Seq({"ok", "error"})]
    /\ full \in [Threads -> BOOLEAN]
    /\ faults \in 0 .. MaxFaults

CountTypeOK ==
    /\ ackEvents \in [Threads -> 0 .. AckEvents - 1]
    /\ totalRecv \in [Threads -> 0 .. Requests]
    /\ index \in [Threads -> 0 .. NumMrs - 1]
    /\ badMrs \in [Threads -> SUBSET (0 .. NumMrs - 1)]

QueueTypeOK ==
    /\ qp \in [Threads -> {"none", "rts", "err"}]
    /\ srq \in [Threads -> 0 .. Buffs]
    /\ sq \in [Threads -> 0 .. MaxSendWr]
    /\ requests \in [Threads -> Nat]

CqTypeOK ==
    /\ cq \in [Threads -> [Cqs -> Seq({"ok", "error"})]]
    /\ armed \in [Threads -> SUBSET Cqs]
    /\ channel \in [Threads -> Seq(Cqs)]

TypeOK == ThreadTypeOK /\ CountTypeOK /\ QueueTypeOK /\ CqTypeOK

\* cc_poll_event_handler is certain to poll queue k again before it returns.
Busy(t, k) ==
    /\ polling[t] = k
    /\ pc[t] \in {"notify", "poll"} \/ (pc[t] = "work" /\ full[t])

InChannel(t, k) == {i \in DOMAIN channel[t] : channel[t][i] = k}

\* Each queue of a thread has one notification, which is armed, or in the channel,
\* or with the handler. The channel names the queue, so the handler never drains
\* one queue on the event of the other (async-client.c:171-182, 335-347).
OneNotificationPerQueue ==
    \A t \in Threads, k \in Cqs :
        LET held == polling[t] = k /\ pc[t] = "notify"
            places == InChannel(t, k) \cup (IF k \in armed[t] THEN {-1} ELSE {})
                        \cup (IF held THEN {0} ELSE {})
        IN /\ \A p, q \in places : p = q
           /\ faults = 0 /\ pc[t] \notin {"none", "init"} => places # {}

\* A completion in either queue is going to be polled without another having to
\* arrive (async-client.c:344-362).
NoLostWakeup ==
    faults = 0 /\ Running =>
        \A t \in Threads, k \in Cqs :
            cq[t][k] # <<>> => InChannel(t, k) # {} \/ Busy(t, k)

\* Replies received and not handled yet.
RepliesAtHand(t) ==
    Len(cq[t]["recv"]) + (IF polling[t] = "recv" THEN Len(batch[t]) ELSE 0)

InFlight(t) == requests[t] + RepliesAtHand(t)

\* A connection never has two requests outstanding, with any number of failures:
\* the next is sent only from the handler of the last reply
\* (async-client.c:430, 471).
OneRequestInFlight == \A t \in Threads : InFlight(t) <= 1

\* The exchange stops short of request_number only if a send completion was not
\* polled in time and the send queue is full, or something failed; nothing then
\* starts it again (async-client.c:430).
RequestLostOnlyIfQueueFull ==
    [][\A t \in Threads :
        InFlight(t) = 1 /\ InFlight(t)' = 0 =>
            \/ SlotsUsed(t) >= MaxSendWr
            \/ qp[t] = "err"
            \/ faults' > faults]_vars

\* While nothing failed a receive buffer is posted or holds a reply that is being
\* handled, and the message to send next follows from the replies counted
\* (async-client.c:421-432).
BuffersAndIndexAgree ==
    faults = 0 =>
        \A t \in Threads :
            /\ srq[t] + RepliesAtHand(t) \in {0, Buffs}
            /\ index[t] = totalRecv[t] % NumMrs

\* The process ends, unless something fails or a request is lost to a full send
\* queue.
Finishes ==
    <>(\/ ~Running
       \/ faults > 0
       \/ \E t \in Threads : pc[t] = "loop" /\ InFlight(t) = 0)

=============================================================================
