---------------------------- MODULE LibeventServer ----------------------------
(***************************************************************************)
(* libevent-server.c: one thread runs a libevent loop over two descriptors,*)
(* the CM event channel and the completion channel. All connections share  *)
(* one completion queue. The adapter (HCA) and the peers run concurrently  *)
(* with that thread and are the environment of this module: any peer may   *)
(* connect, send any message of Messages while a receive buffer is posted, *)
(* and leave at any time.                                                  *)
(*                                                                         *)
(* A verbs call that can fail does so at most MaxFaults times in all.      *)
(* Memory that was freed and is used again, and memory behind the end of a *)
(* buffer, are undefined behaviour: either the process dies (CrashOnFreed, *)
(* ReadPastBuffer) or it finds some contents there and the handlers go on. *)
(***************************************************************************)
EXTENDS Integers, Sequences, FiniteSets

CONSTANTS
    Conns,      \* connections a peer may open, each used once
    NumBufs,    \* REG_PER_CONN, receive buffers of a connection
    PollWcSize, \* POLL_WC_SIZE, entries one ibv_poll_cq can return
    MaxSendWr,  \* max_send_wr, work requests a send queue holds
    BufCells,   \* BUFF_SIZE, in cells of a message
    PrintEvery, \* every how many messages the latest one is printed
    Messages,   \* what peers send: non-empty sequences of WireCells
    MaxMsgs,    \* bound on the messages received per connection
    MaxFaults   \* bound on the verbs calls that fail

\* A cell of a message: filler, the word "noreply", the terminating NUL, the
\* '\x88' that heads a read request. The request says itself how much is to be
\* read; that of "huge" is more than can be registered. A buffer cell may also be
\* "any", what malloc left there.
WireCells == {"text", "noreply", "head", "huge", "nul"}
Cells == WireCells \cup {"any"}

ASSUME ServerAssumption ==
    /\ NumBufs \in Nat \ {0}
    /\ PollWcSize \in Nat \ {0}
    /\ MaxSendWr \in Nat \ {0}
    /\ BufCells \in Nat \ {0}
    /\ PrintEvery \in Nat \ {0}
    /\ Messages \subseteq Seq(WireCells) \ {<<>>}
    /\ MaxMsgs \in Nat
    /\ MaxFaults \in Nat

VARIABLES
    \* The peers.
    peer,       \* peer[c]: "idle", "connecting", "connected" or "gone"
    delivered,  \* delivered[c]: messages the adapter placed in c's buffers
    careless,   \* peers that sent what a careful peer does not (history)
    \* struct rdma_conn and the libevent registrations.
    cm,         \* unread events of rdma_ctx.cm_channel
    conn,       \* conn[c]: how far handle_connect_request got, see ConnStates
    registered, \* connections whose poll_event was added to the loop
    totalRecv,  \* c->total_recv
    \* Queue pairs and registered memory.
    qp,         \* qp[c]: "none", "rts" or "err"
    rq,         \* rq[c]: posted receive buffers, oldest first
    sq,         \* sq[c]: posted sends and reads the adapter has not completed
    mem,        \* mem[c][b]: contents of receive buffer b
    \* The completion queue and its channel.
    cq,         \* completions not polled yet, oldest first
    armed,      \* ibv_req_notify_cq was called since the last event
    events,     \* unread events of rdma_ctx.comp_channel
    \* The server thread.
    pc,         \* where it is, see Pcs
    cmReady,    \* libevent has an activation of listen_event to run
    pollReady,  \* connections whose poll_event libevent activated
    cmFirst,    \* the order epoll reported the two descriptors in
    batch,      \* wc[i] .. wc[cqe-1] of the current ibv_poll_cq
    full,       \* cqe == POLL_WC_SIZE
    faults      \* verbs calls that failed so far

peerVars == <<peer, delivered, careless>>
connVars == <<conn, registered, totalRecv>>
qpVars == <<qp, rq, sq, mem>>
cqVars == <<cq, armed, events>>
readyVars == <<cmReady, pollReady, cmFirst>>
loopVars == <<pc, readyVars, batch, full>>
vars == <<peerVars, cm, connVars, qpVars, cqVars, loopVars, faults>>

\* "refused": rdma_create_qp or rdma_accept failed. "partial": accepted, then
\* registering or posting stopped midway and rmr_list holds NULLs. "accepted":
\* accepted, a later call failed, but release_conn finds no NULL to step on.
ConnStates == {"none", "refused", "partial", "accepted", "open", "released"}

Pcs == {"start",      \* in main, before event_base_dispatch
        "loop",       \* in event_base_dispatch
        "disconnect", \* about to rdma_disconnect a connection it gave up
        "get",        \* in ibv_get_cq_event, which blocks
        "notify",     \* about to ibv_req_notify_cq
        "poll",       \* about to ibv_poll_cq
        "work",       \* at the top of handle_work_complete
        "head",       \* about to look for '\x88' in the buffer it reposted
        "reply",      \* about to look for "noreply" in that buffer
        "exited",     \* main returned -1
        "crashed"}

Bufs == 1 .. NumBufs
LargeBuf == 0  \* what post_larger_memory posts
Ops == {"recv", "send", "read"}
CmEvents == [type : {"request", "established", "disconnected", "error"},
             conn : Conns]
\* A work completion. msg is history: the message the buffer got, <<>> if none.
Completions == [conn : Conns, op : Ops, status : {"ok", "len", "flush"},
                buf : Bufs \cup {LargeBuf}, msg : Messages \cup {<<>>}]

Freed == {c \in Conns : conn[c] = "released"}
Dead == pc \in {"exited", "crashed"}
Running == ~Dead /\ pc # "start"
cur == Head(batch)

\* Failing calls share one budget.
Fault == faults < MaxFaults /\ faults' = faults + 1
------------------------------------------------------------------------------
(***************************************************************************)
(* Peers and connection management events                                  *)
(***************************************************************************)
CmEvent(type, c) == cm' = Append(cm, [type |-> type, conn |-> c])

PeerConnect(c) ==
    /\ Running /\ peer[c] = "idle"
    /\ peer' = [peer EXCEPT ![c] = "connecting"]
    /\ CmEvent("request", c)
    /\ UNCHANGED <<delivered, careless, connVars, qpVars, cqVars, loopVars, faults>>

\* The peer learns that its request was accepted and confirms.
PeerEstablished(c) ==
    /\ Running /\ peer[c] = "connecting"
    /\ conn[c] \in {"open", "accepted", "partial"}
    /\ peer' = [peer EXCEPT ![c] = "connected"]
    /\ CmEvent("established", c)
    /\ UNCHANGED <<delivered, careless, connVars, qpVars, cqVars, loopVars, faults>>

\* The peer leaves: it was connected and disconnects, or it gave up before it
\* confirmed, which the server hears of as an error.
PeerLeave(c) ==
    /\ Running
    /\ \/ peer[c] = "connected" /\ CmEvent("disconnected", c)
       \/ /\ peer[c] = "connecting"
          /\ conn[c] \in {"open", "accepted", "partial"}
          /\ CmEvent("error", c)
    /\ peer' = [peer EXCEPT ![c] = "gone"]
    /\ UNCHANGED <<delivered, careless, connVars, qpVars, cqVars, loopVars, faults>>
------------------------------------------------------------------------------
(***************************************************************************)
(* The adapter                                                             *)
(***************************************************************************)
\* A completion is queued; an armed queue raises one event and is disarmed.
Complete(c, op, status, buf, msg) ==
    /\ cq' = Append(cq, [conn |-> c, op |-> op, status |-> status,
                         buf |-> buf, msg |-> msg])
    /\ armed' = FALSE
    /\ events' = IF armed THEN events + 1 ELSE events

\* A message shorter than the buffer leaves the rest of it as it was.
Deposit(old, m) ==
    [i \in 1 .. BufCells |-> IF i <= Len(m) THEN m[i] ELSE old[i]]

Terminated(m) == \E i \in DOMAIN m : m[i] = "nul"

\* A message with its NUL in it, and no request to read what cannot be registered.
Careful(m) == Terminated(m) /\ m[1] # "huge"

HcaReceive(c, m) ==
    /\ Running /\ peer[c] = "connected" /\ qp[c] = "rts" /\ rq[c] # <<>>
    /\ Len(m) <= BufCells /\ delivered[c] < MaxMsgs
    /\ LET b == Head(rq[c])
       IN /\ Complete(c, "recv", "ok", b, m)
          /\ mem' = [mem EXCEPT ![c][b] = Deposit(@, m)]
    /\ rq' = [rq EXCEPT ![c] = Tail(@)]
    /\ delivered' = [delivered EXCEPT ![c] = @ + 1]
    /\ careless' = IF Careful(m) THEN careless ELSE careless \cup {c}
    /\ UNCHANGED <<peer, cm, connVars, qp, sq, loopVars, faults>>

\* A message longer than BUFF_SIZE: IBV_WC_LOC_LEN_ERR, the queue pair is lost.
HcaReceiveTooLong(c, m) ==
    /\ Running /\ peer[c] = "connected" /\ qp[c] = "rts" /\ rq[c] # <<>>
    /\ Len(m) > BufCells
    /\ Complete(c, "recv", "len", Head(rq[c]), <<>>)
    /\ rq' = [rq EXCEPT ![c] = Tail(@)]
    /\ qp' = [qp EXCEPT ![c] = "err"]
    /\ UNCHANGED <<peerVars, cm, connVars, sq, mem, loopVars, faults>>

\* The oldest send or read is done and, sq_sig_all being set, reported.
HcaSend(c) ==
    /\ Running /\ peer[c] = "connected" /\ qp[c] = "rts" /\ sq[c] # <<>>
    /\ Complete(c, Head(sq[c]), "ok", LargeBuf, <<>>)
    /\ sq' = [sq EXCEPT ![c] = Tail(@)]
    /\ UNCHANGED <<peerVars, cm, connVars, qp, rq, mem, loopVars, faults>>

\* The peer is not there any more, or refuses the address and key it was read
\* with: the request fails and takes the queue pair with it.
HcaSendFails(c) ==
    /\ Running /\ qp[c] = "rts" /\ sq[c] # <<>>
    /\ peer[c] = "gone" \/ Head(sq[c]) = "read"
    /\ Complete(c, Head(sq[c]), "flush", LargeBuf, <<>>)
    /\ sq' = [sq EXCEPT ![c] = Tail(@)]
    /\ qp' = [qp EXCEPT ![c] = "err"]
    /\ UNCHANGED <<peerVars, cm, connVars, rq, mem, loopVars, faults>>

\* In the error state every posted request comes back with IBV_WC_WR_FLUSH_ERR.
HcaFlush(c) ==
    /\ Running /\ qp[c] = "err"
    /\ \/ /\ rq[c] # <<>>
          /\ Complete(c, "recv", "flush", Head(rq[c]), <<>>)
          /\ rq' = [rq EXCEPT ![c] = Tail(@)]
          /\ UNCHANGED sq
       \/ /\ sq[c] # <<>>
          /\ Complete(c, Head(sq[c]), "flush", LargeBuf, <<>>)
          /\ sq' = [sq EXCEPT ![c] = Tail(@)]
          /\ UNCHANGED rq
    /\ UNCHANGED <<peerVars, cm, connVars, qp, mem, loopVars, faults>>
------------------------------------------------------------------------------
(***************************************************************************)
(* main, init_rdma_global_resources and init_rdma_listen                   *)
(***************************************************************************)
\* Every call succeeds: the completion queue is armed, the server listens.
Start ==
    /\ pc = "start"
    /\ armed' = TRUE
    /\ pc' = "loop"
    /\ UNCHANGED <<peerVars, cm, connVars, qpVars, cq, events, readyVars, batch,
                   full, faults>>

\* A call fails and main returns -1.
StartFails ==
    /\ pc = "start"
    /\ Fault
    /\ pc' = "exited"
    /\ UNCHANGED <<peerVars, cm, connVars, qpVars, cqVars, readyVars, batch, full>>

\* rdma_create_event_channel fails, init_rdma_listen returns 0 all the same, and
\* init_and_dispatch_event reads the descriptor of no channel.
StartWithoutChannel ==
    /\ pc = "start"
    /\ Fault
    /\ pc' = "crashed"
    /\ UNCHANGED <<peerVars, cm, connVars, qpVars, cqVars, readyVars, batch, full>>
------------------------------------------------------------------------------
(***************************************************************************)
(* The event loop and rdma_cm_event_handle                                 *)
(***************************************************************************)
\* epoll reports the descriptors that are readable. Every connection added a
\* poll_event of its own for the one completion channel, so one event there
\* activates them all.
Dispatch ==
    /\ pc = "loop" /\ ~cmReady /\ pollReady = {}
    /\ cm # <<>> \/ (events > 0 /\ registered # {})
    /\ cmReady' = (cm # <<>>)
    /\ pollReady' = IF events > 0 THEN registered ELSE {}
    /\ cmFirst' \in IF cmReady' /\ pollReady' # {} THEN BOOLEAN ELSE {TRUE}
    /\ UNCHANGED <<peerVars, cm, connVars, qpVars, cqVars, pc, batch, full,
                   faults>>

\* rdma_get_cm_event .. rdma_ack_cm_event. The event stays at the head of cm
\* until it is acknowledged.
CmHandler(type, c) ==
    /\ pc = "loop" /\ cmReady /\ (cmFirst \/ pollReady = {})
    /\ Head(cm) = [type |-> type, conn |-> c]
    /\ cmReady' = FALSE
    /\ UNCHANGED <<peerVars, cqVars, pollReady, cmFirst, batch, full>>

\* Mutant of Accept: the loop posts rmr_list[0] every time.
AcceptPostsOneBuffer(c) ==
    /\ CmHandler("request", c)
    /\ cm' = Tail(cm)
    /\ conn' = [conn EXCEPT ![c] = "open"]
    /\ registered' = registered \cup {c}
    /\ qp' = [qp EXCEPT ![c] = "rts"]
    /\ rq' = [rq EXCEPT ![c] = [i \in Bufs |-> 1]]
    /\ UNCHANGED <<totalRecv, sq, mem, pc, faults>>

\* All of handle_connect_request succeeds: the queue pair is up, the buffers
\* are posted in order, the poll_event is added.
Accept(c) ==
    /\ CmHandler("request", c)
    /\ cm' = Tail(cm)
    /\ conn' = [conn EXCEPT ![c] = "open"]
    /\ registered' = registered \cup {c}
    /\ qp' = [qp EXCEPT ![c] = "rts"]
    /\ rq' = [rq EXCEPT ![c] = [i \in Bufs |-> i]]
    /\ UNCHANGED <<totalRecv, sq, mem, pc, faults>>

\* rdma_create_qp or rdma_accept fails. The rdma_disconnect that follows finds
\* no connection to close.
RefuseConnect(c) ==
    /\ CmHandler("request", c)
    /\ Fault
    /\ cm' = Tail(cm)
    /\ conn' = [conn EXCEPT ![c] = "refused"]
    /\ UNCHANGED <<registered, totalRecv, qpVars, pc>>

\* The connection is accepted, then registering the send buffer (k = 0) or
\* posting buffer k fails: buffers k+1.. are never allocated, no poll_event is
\* added, and the caller disconnects.
AcceptPartly(c) ==
    /\ CmHandler("request", c)
    /\ Fault
    /\ \E k \in 0 .. NumBufs :
        /\ conn' = [conn EXCEPT ![c] =
                        IF k \in 1 .. NumBufs - 1 THEN "partial" ELSE "accepted"]
        /\ rq' = [rq EXCEPT ![c] = [i \in 1 .. k - 1 |-> i]]
    /\ qp' = [qp EXCEPT ![c] = "rts"]
    /\ pc' = "disconnect"
    /\ UNCHANGED <<cm, registered, totalRecv, sq, mem>>

\* rdma_reg_msgs fails on a receive buffer; the next line reads through NULL.
AcceptCrash(c) ==
    /\ CmHandler("request", c)
    /\ Fault
    /\ pc' = "crashed"
    /\ UNCHANGED <<cm, connVars, qpVars>>

\* rdma_disconnect of a connection handle_connect_request returned -1 for.
DisconnectFailed ==
    /\ pc = "disconnect"
    /\ qp' = [qp EXCEPT ![Head(cm).conn] = "err"]
    /\ cm' = Tail(cm)
    /\ pc' = "loop"
    /\ UNCHANGED <<peerVars, connVars, rq, sq, mem, cqVars, readyVars, batch,
                   full, faults>>

\* RDMA_CM_EVENT_ESTABLISHED and the error events change nothing.
CmIgnore(c) ==
    /\ CmHandler("established", c) \/ CmHandler("error", c)
    /\ cm' = Tail(cm)
    /\ UNCHANGED <<connVars, qpVars, pc, faults>>

\* RDMA_CM_EVENT_DISCONNECTED: total_recv is printed, then release_conn frees
\* the buffers and c itself. The queue pair, the poll_event inside c and the
\* completions that point to c stay. A NULL in rmr_list is dereferenced.
Release(c) ==
    /\ CmHandler("disconnected", c)
    /\ cm' = Tail(cm)
    /\ conn' = [conn EXCEPT ![c] = "released"]
    /\ mem' = [mem EXCEPT ![c] = [b \in Bufs |-> [i \in 1 .. BufCells |-> "any"]]]
    /\ pc' = IF conn[c] = "partial" THEN "crashed" ELSE pc
    /\ UNCHANGED <<registered, totalRecv, qp, rq, sq, faults>>
------------------------------------------------------------------------------
(***************************************************************************)
(* poll_event_handle                                                       *)
(***************************************************************************)
\* Mutant of RunPollEvent: the event stays active and the handler runs again.
RunPollEventAgain(c) ==
    /\ pc = "loop" /\ c \in pollReady /\ (~cmFirst \/ ~cmReady)
    /\ pc' = "get"
    /\ UNCHANGED <<peerVars, cm, connVars, qpVars, cqVars, readyVars, batch, full,
                   faults>>

RunPollEvent(c) ==
    /\ pc = "loop" /\ c \in pollReady /\ (~cmFirst \/ ~cmReady)
    /\ pollReady' = pollReady \ {c}
    /\ pc' = "get"
    /\ UNCHANGED <<peerVars, cm, connVars, qpVars, cqVars, cmReady, cmFirst,
                   batch, full, faults>>

\* Mutant of GetCqEvent: the channel is taken to hold an event.
GetCqEventUnasked ==
    /\ pc = "get"
    /\ events' = events - 1
    /\ pc' = "notify"
    /\ UNCHANGED <<peerVars, cm, connVars, qpVars, cq, armed, readyVars, batch,
                   full, faults>>

\* ibv_get_cq_event waits for an event and takes it; ibv_ack_cq_events.
GetCqEvent ==
    /\ pc = "get" /\ events > 0
    /\ events' = events - 1
    /\ pc' = "notify"
    /\ UNCHANGED <<peerVars, cm, connVars, qpVars, cq, armed, readyVars, batch,
                   full, faults>>

\* Mutant of ReqNotify: the call is forgotten.
ReqNotifyMissing ==
    /\ pc = "notify"
    /\ pc' = "poll"
    /\ UNCHANGED <<peerVars, cm, connVars, qpVars, cqVars, readyVars, batch, full,
                   faults>>

ReqNotify ==
    /\ pc = "notify"
    /\ armed' = TRUE
    /\ pc' = "poll"
    /\ UNCHANGED <<peerVars, cm, connVars, qpVars, cq, events, readyVars, batch,
                   full, faults>>

\* Mutant of PollCq: the loop over wc stops one entry early.
PollCqDropsLast ==
    /\ pc = "poll"
    /\ LET n == IF Len(cq) < PollWcSize THEN Len(cq) ELSE PollWcSize
       IN /\ batch' = SubSeq(cq, 1, n - 1)
          /\ cq' = SubSeq(cq, n + 1, Len(cq))
          /\ full' = (n = PollWcSize)
          /\ pc' = IF n <= 1 THEN "loop" ELSE "work"
    /\ UNCHANGED <<peerVars, cm, connVars, qpVars, armed, events, readyVars,
                   faults>>

\* Up to PollWcSize completions leave the queue.
PollCq ==
    /\ pc = "poll"
    /\ LET n == IF Len(cq) < PollWcSize THEN Len(cq) ELSE PollWcSize
       IN /\ batch' = SubSeq(cq, 1, n)
          /\ cq' = SubSeq(cq, n + 1, Len(cq))
          /\ full' = (n = PollWcSize)
          /\ pc' = IF n = 0 THEN "loop" ELSE "work"
    /\ UNCHANGED <<peerVars, cm, connVars, qpVars, armed, events, readyVars,
                   faults>>

\* ibv_get_cq_event, ibv_req_notify_cq or ibv_poll_cq fails: the handler returns.
PollEventFails ==
    /\ pc \in {"get", "notify", "poll"}
    /\ Fault
    /\ pc' = "loop"
    /\ UNCHANGED <<peerVars, cm, connVars, qpVars, cqVars, readyVars, batch, full>>
------------------------------------------------------------------------------
(***************************************************************************)
(* handle_work_complete, for cur == wc[i]                                  *)
(***************************************************************************)
\* Mutant of NextCompletion: one ibv_poll_cq per event.
NextCompletionOnce ==
    /\ batch' = Tail(batch)
    /\ full' = (full /\ Tail(batch) # <<>>)
    /\ pc' = IF Tail(batch) # <<>> THEN "work" ELSE "loop"

\* On to wc[i+1], then to the next ibv_poll_cq if the last one was full.
NextCompletion ==
    /\ batch' = Tail(batch)
    /\ full' = (full /\ Tail(batch) # <<>>)
    /\ pc' = IF Tail(batch) # <<>> THEN "work" ELSE IF full THEN "poll" ELSE "loop"

\* A send queue entry is free again once its completion was polled.
SlotsUsed(c) ==
    Len(sq[c]) + Cardinality({i \in DOMAIN cq : cq[i].conn = c /\ cq[i].op # "recv"})

\* rdma_post_send and rdma_post_read. A failure is printed and forgotten.
PostSend(c, op) ==
    \/ /\ SlotsUsed(c) < MaxSendWr
       /\ sq' = [sq EXCEPT ![c] = Append(@, op)]
       /\ UNCHANGED faults
    \/ SlotsUsed(c) >= MaxSendWr /\ UNCHANGED <<sq, faults>>
    \/ Fault /\ UNCHANGED sq

\* Mutant of HandleBadCompletion: the return is missing, the buffer is looked at.
HandleBadCompletionGoesOn ==
    /\ pc = "work" /\ cur.status # "ok"
    /\ IF cur.buf \in Bufs
       THEN pc' = "head" /\ UNCHANGED <<batch, full>>
       ELSE NextCompletion
    /\ UNCHANGED <<peerVars, cm, connVars, qpVars, cqVars, readyVars, faults>>

\* status is not IBV_WC_SUCCESS: the buffer is not posted again. After a length
\* error post_larger_memory posts another one, or fails to.
HandleBadCompletion ==
    /\ pc = "work" /\ cur.status # "ok"
    /\ \/ /\ cur.status = "len"
          /\ rq' = [rq EXCEPT ![cur.conn] = Append(@, LargeBuf)]
          /\ UNCHANGED faults
       \/ cur.status = "len" /\ Fault /\ UNCHANGED rq
       \/ cur.status = "flush" /\ UNCHANGED <<rq, faults>>
    /\ NextCompletion
    /\ UNCHANGED <<peerVars, cm, connVars, qp, sq, mem, cqVars, readyVars>>

\* Mutant of HandleRecv: the buffer is posted twice.
HandleRecvPostsTwice ==
    /\ pc = "work" /\ cur.status = "ok" /\ cur.op = "recv"
    /\ totalRecv' = [totalRecv EXCEPT ![cur.conn] = @ + 1]
    /\ rq' = [rq EXCEPT ![cur.conn] = @ \o <<cur.buf, cur.buf>>]
    /\ pc' = "head"
    /\ UNCHANGED <<peerVars, cm, conn, registered, qp, sq, mem, cqVars, readyVars,
                   batch, full, faults>>

\* Mutant of HandleRecv: c is taken from the last completion of the batch.
HandleRecvCountsLast ==
    /\ pc = "work" /\ cur.status = "ok" /\ cur.op = "recv"
    /\ totalRecv' = [totalRecv EXCEPT ![batch[Len(batch)].conn] = @ + 1]
    /\ rq' = [rq EXCEPT ![cur.conn] = Append(@, cur.buf)]
    /\ pc' = "head"
    /\ UNCHANGED <<peerVars, cm, conn, registered, qp, sq, mem, cqVars, readyVars,
                   batch, full, faults>>

\* A message is counted and its buffer posted again before it is looked at.
HandleRecv ==
    /\ pc = "work" /\ cur.status = "ok" /\ cur.op = "recv"
    /\ totalRecv' = [totalRecv EXCEPT ![cur.conn] = @ + 1]
    /\ rq' = [rq EXCEPT ![cur.conn] = Append(@, cur.buf)]
    /\ pc' = "head"
    /\ UNCHANGED <<peerVars, cm, conn, registered, qp, sq, mem, cqVars, readyVars,
                   batch, full, faults>>

\* rdma_post_recv fails: the message is counted, never looked at.
HandleRecvFails ==
    /\ pc = "work" /\ cur.status = "ok" /\ cur.op = "recv"
    /\ Fault
    /\ totalRecv' = [totalRecv EXCEPT ![cur.conn] = @ + 1]
    /\ NextCompletion
    /\ UNCHANGED <<peerVars, cm, conn, registered, qpVars, cqVars, readyVars>>

HandleSent ==
    /\ pc = "work" /\ cur.status = "ok" /\ cur.op = "send"
    /\ NextCompletion
    /\ UNCHANGED <<peerVars, cm, connVars, qpVars, cqVars, readyVars, faults>>

\* The large memory has been read: answer the read request.
HandleReadDone ==
    /\ pc = "work" /\ cur.status = "ok" /\ cur.op = "read"
    /\ PostSend(cur.conn, "send")
    /\ NextCompletion
    /\ UNCHANGED <<peerVars, cm, connVars, qp, rq, mem, cqVars, readyVars>>

\* What the buffer of cur holds now, which the adapter may be writing to.
Content == mem[cur.conn][cur.buf]

\* A search for one of these ends may go on behind the end of the buffer.
RunsOn(ends) == \A i \in 1 .. BufCells : Content[i] \notin ends

\* handle_rdma_read_request when the first byte is '\x88'.
LookForHead ==
    /\ pc = "head"
    /\ \/ Content[1] \in {"head", "any"} /\ PostSend(cur.conn, "read")
       \/ Content[1] \notin {"head", "huge"} /\ UNCHANGED <<sq, faults>>
    /\ pc' = "reply"
    /\ UNCHANGED <<peerVars, cm, connVars, qp, rq, mem, cqVars, readyVars, batch,
                   full>>

\* rdma_reg_msgs fails, in handle_rdma_read_request for the length the request
\* asks for or as any call may, or in post_larger_memory; the next line reads
\* through NULL.
RegisterCrash ==
    /\ \/ pc = "head" /\ Content[1] \in {"huge", "any"} /\ UNCHANGED faults
       \/ pc = "head" /\ Content[1] = "head" /\ Fault
       \/ pc = "work" /\ cur.status = "len" /\ Fault
    /\ pc' = "crashed"
    /\ UNCHANGED <<peerVars, cm, connVars, qpVars, cqVars, readyVars, batch, full>>

\* printf of every so many messages, printf and sscanf of a read request, and strstr
\* look for their ends. What the process had counted is gone with it.
ReadPastBuffer ==
    /\ \/ /\ pc = "work" /\ cur.status = "ok" /\ cur.op = "recv"
          /\ (totalRecv[cur.conn] + 1) % PrintEvery = 0
          /\ RunsOn({"nul"})
       \/ pc = "head" /\ Content[1] \in {"head", "huge", "any"} /\ RunsOn({"nul"})
       \/ pc = "reply" /\ RunsOn({"noreply", "nul"})
    /\ pc' = "crashed"
    /\ UNCHANGED <<peerVars, cm, connVars, qpVars, cqVars, readyVars, batch, full,
                   faults>>

\* strstr(s, "noreply") != NULL. The first NUL ends the search; a search that
\* meets bytes nobody wrote, or leaves the buffer, can end either way.
Stops(s) == {i \in 1 .. BufCells : s[i] \in {"noreply", "nul", "any"}}

\* Mutant of StrstrNoreply: the search does not stop at the NUL.
MemmemNoreply(s) ==
    IF \E i \in 1 .. BufCells : s[i] = "noreply" THEN {TRUE}
    ELSE IF \E i \in 1 .. BufCells : s[i] = "any" THEN BOOLEAN
    ELSE {FALSE}

StrstrNoreply(s) ==
    LET first == CHOOSE i \in Stops(s) : \A j \in Stops(s) : i <= j
    IN IF Stops(s) = {} THEN BOOLEAN
       ELSE CASE s[first] = "noreply" -> {TRUE}
              [] s[first] = "nul" -> {FALSE}
              [] OTHER -> BOOLEAN

Reply ==
    /\ pc = "reply"
    /\ \/ TRUE \in StrstrNoreply(Content) /\ UNCHANGED <<sq, faults>>
       \/ FALSE \in StrstrNoreply(Content) /\ PostSend(cur.conn, "send")
    /\ NextCompletion
    /\ UNCHANGED <<peerVars, cm, connVars, qp, rq, mem, cqVars, readyVars>>

\* A freed rdma_conn is used: by libevent, which still has its poll_event, or
\* through the wr_context of one of its completions.
CrashOnFreed ==
    /\ \/ pc = "loop" /\ registered \cap Freed # {} /\ events > 0
       \/ pc = "loop" /\ pollReady \cap Freed # {}
       \/ pc = "work" /\ cur.conn \in Freed
    /\ pc' = "crashed"
    /\ UNCHANGED <<peerVars, cm, connVars, qpVars, cqVars, readyVars, batch, full,
                   faults>>
------------------------------------------------------------------------------
Init ==
    /\ peer = [c \in Conns |-> "idle"]
    /\ delivered = [c \in Conns |-> 0]
    /\ careless = {}
    /\ cm = <<>>
    /\ conn = [c \in Conns |-> "none"]
    /\ registered = {}
    /\ totalRecv = [c \in Conns |-> 0]
    /\ qp = [c \in Conns |-> "none"]
    /\ rq = [c \in Conns |-> <<>>]
    /\ sq = [c \in Conns |-> <<>>]
    /\ mem = [c \in Conns |-> [b \in Bufs |-> [i \in 1 .. BufCells |-> "any"]]]
    /\ cq = <<>>
    /\ armed = FALSE
    /\ events = 0
    /\ pc = "start"
    /\ cmReady = FALSE
    /\ pollReady = {}
    /\ cmFirst = TRUE
    /\ batch = <<>>
    /\ full = FALSE
    /\ faults = 0

PeerNext(c) == PeerConnect(c) \/ PeerEstablished(c) \/ PeerLeave(c)

HcaNext(c) ==
    \/ \E m \in Messages : HcaReceive(c, m) \/ HcaReceiveTooLong(c, m)
    \/ HcaSend(c)
    \/ HcaSendFails(c)
    \/ HcaFlush(c)

CmNext(c) ==
    Accept(c) \/ RefuseConnect(c) \/ AcceptPartly(c) \/ AcceptCrash(c)
        \/ CmIgnore(c) \/ Release(c)

PollNext == GetCqEvent \/ ReqNotify \/ PollCq \/ PollEventFails

WorkNext ==
    HandleBadCompletion \/ HandleRecv \/ HandleRecvFails \/ HandleSent
        \/ HandleReadDone \/ LookForHead \/ RegisterCrash \/ ReadPastBuffer
        \/ Reply

ServerNext ==
    \/ Start \/ StartFails \/ StartWithoutChannel
    \/ Dispatch
    \/ \E c \in Conns : CmNext(c) \/ RunPollEvent(c)
    \/ DisconnectFailed
    \/ PollNext
    \/ WorkNext
    \/ CrashOnFreed

Next == (\E c \in Conns : PeerNext(c) \/ HcaNext(c)) \/ ServerNext

SafeSpec == Init /\ [][Next]_vars

\* The server thread runs whenever it can, and the adapter finishes what it was
\* given. Peers owe nothing.
Fairness ==
    /\ WF_vars(ServerNext)
    /\ \A c \in Conns : WF_vars(HcaSend(c) \/ HcaSendFails(c)) /\ WF_vars(HcaFlush(c))

Spec == SafeSpec /\ Fairness
------------------------------------------------------------------------------
(***************************************************************************)
(* Properties                                                              *)
(***************************************************************************)
PeerTypeOK ==
    /\ peer \in [Conns -> {"idle", "connecting", "connected", "gone"}]
    /\ delivered \in [Conns -> Nat]
    /\ careless \in SUBSET Conns

ConnTypeOK ==
    /\ cm \in Seq(CmEvents)
    /\ conn \in [Conns -> ConnStates]
    /\ registered \in SUBSET Conns
    /\ totalRecv \in [Conns -> Nat]

QpTypeOK ==
    /\ qp \in [Conns -> {"none", "rts", "err"}]
    /\ rq \in [Conns -> Seq(Bufs \cup {LargeBuf})]
    /\ sq \in [Conns -> Seq({"send", "read"})]
    /\ mem \in [Conns -> [Bufs -> [1 .. BufCells -> Cells]]]

CqTypeOK ==
    /\ cq \in Seq(Completions)
    /\ armed \in BOOLEAN
    /\ events \in Nat

LoopTypeOK ==
    /\ pc \in Pcs
    /\ cmReady \in BOOLEAN
    /\ pollReady \in SUBSET Conns
    /\ cmFirst \in BOOLEAN
    /\ batch \in Seq(Completions)
    /\ full \in BOOLEAN
    /\ faults \in 0 .. MaxFaults

\* Every variable holds what its declaration says.
TypeOK == PeerTypeOK /\ ConnTypeOK /\ QpTypeOK /\ CqTypeOK /\ LoopTypeOK

\* Every handler that runs has what it was called for: an activation of
\* listen_event means an unread event, a completion is at hand in
\* handle_work_complete, and nothing arrives before the completion queue is
\* armed (libevent-server.c:120, 447-449, 462).
HandlersHaveInput ==
    /\ cmReady => cm # <<>>
    /\ pc = "disconnect" => cm # <<>> /\ ~cmReady
    /\ pc \in {"work", "head", "reply"} => batch # <<>>
    /\ pc = "start" => cq = <<>> /\ events = 0

\* poll_event_handle is certain to call ibv_poll_cq again before it returns.
Busy ==
    \/ pc \in {"notify", "poll"}
    \/ pc \in {"work", "head", "reply"} /\ full

Awake == events > 0 \/ Busy

\* The right to raise the next event is in one place at a time: the queue is
\* armed, or its event waits in the channel, or the handler took that event and
\* has not armed the queue again. If no call failed it is never lost
\* (libevent-server.c:120, 430-439).
NotificationToken ==
    /\ events <= 1
    /\ events = 1 => ~armed
    /\ pc = "notify" => ~armed /\ events = 0
    /\ faults = 0 => pc = "start" \/ armed \/ events = 1 \/ pc = "notify"

\* A completion in the queue is going to be polled without any other having to
\* arrive: the channel holds an event, or the handler polls again. Arming the
\* queue before draining it, and draining it until a short batch, are what this
\* needs (libevent-server.c:436-450).
NoLostWakeup == faults = 0 /\ Running /\ cq # <<>> => Awake

\* The entries of s with property P are counted with Count.
Count(s, P(_)) == Cardinality({i \in DOMAIN s : P(i)})

\* cur was counted and posted again; the buffer is still to be looked at.
Inspecting == pc \in {"head", "reply"}
Holds(e, c, b) == e.conn = c /\ e.op = "recv" /\ e.buf = b

\* While no call failed, each of the REG_PER_CONN buffers of a connection in
\* service is in exactly one place: posted, in a completion that waits, or in
\* one being handled. None leaks, none is posted twice (libevent-server.c:285-295,
\* 333).
RecvBuffersConserved ==
    faults = 0 /\ Running =>
        \A c \in Conns : qp[c] = "rts" =>
            \A b \in Bufs :
                1 = Count(rq[c], LAMBDA i : rq[c][i] = b)
                    + Count(cq, LAMBDA i : Holds(cq[i], c, b))
                    + Count(batch, LAMBDA i : Holds(batch[i], c, b)
                                              /\ ~(i = 1 /\ Inspecting))

IsMessage(e, c) == e.conn = c /\ e.op = "recv" /\ e.status = "ok"

\* c->total_recv lags behind what arrived by the completions not handled yet,
\* and by nothing else (libevent-server.c:326).
EveryMessageCounted ==
    Running =>
        \A c \in Conns :
            delivered[c] = totalRecv[c]
                + Count(cq, LAMBDA i : IsMessage(cq[i], c))
                + Count(batch, LAMBDA i : IsMessage(batch[i], c)
                                          /\ ~(i = 1 /\ Inspecting))

\* The buffer starts with the message the completion is about.
Intact == SubSeq(Content, 1, Len(cur.msg)) = cur.msg

\* handle_work_complete looks at a buffer it has already given back (line 333
\* comes before 338 and 342). While no call failed it finds another message there
\* only if the whole ring of REG_PER_CONN buffers was filled behind the one it is
\* handling.
OverwriteOnlyWhenRingExhausted ==
    faults = 0 /\ Inspecting /\ conn[cur.conn] # "released" /\ ~Intact =>
        delivered[cur.conn] - totalRecv[cur.conn] >= NumBufs

\* The first NUL or "noreply" of a message decides whether it wants a reply. A
\* message that has neither leaves that to what is behind it in the buffer.
Wanted(m) == \E i \in DOMAIN m : m[i] = "nul" /\ \A j \in 1 .. i : m[j] # "noreply"
Declined(m) == \E i \in DOMAIN m : m[i] = "noreply" /\ \A j \in 1 .. i : m[j] # "nul"

\* As long as the buffer still starts with it, a message that ends its text before
\* any "noreply" is answered and one that says "noreply" first is not, whatever
\* longer message was in the buffer before; only a full send queue or a failed call
\* loses the answer (libevent-server.c:342-348).
ReplyMatchesRequest ==
    [][pc = "reply" /\ conn[cur.conn] # "released" /\ Intact =>
        /\ Wanted(cur.msg) =>
            \/ sq' = [sq EXCEPT ![cur.conn] = Append(@, "send")]
            \/ SlotsUsed(cur.conn) >= MaxSendWr \/ faults' > faults
            \/ pc' = "reply"
        /\ Declined(cur.msg) => Len(sq'[cur.conn]) <= Len(sq[cur.conn])]_vars

\* All that a connection can ever have in the completion queue at once is bounded
\* by its two queues. With REG_PER_CONN 128 and max_send_wr 8 the cq_size of 1024
\* is enough for 7 connections and not for 8 (libevent-server.c:25, 70, 236).
CompletionsBounded ==
    \A c \in Conns :
        Count(cq, LAMBDA i : cq[i].conn = c) + Len(rq[c]) + Len(sq[c])
            <= NumBufs + MaxSendWr

\* Peers that stay, send their NUL and ask for what can be registered do not take
\* the server down, also when a buffer is looked at while the next message is in it,
\* and when a message was too long for it: no handler looks into a buffer that was
\* never written, and what is written into one always ends in it
\* (libevent-server.c:317-328, 333-342, 398-402).
SurvivesCarefulPeers == Dead => careless # {} \/ Freed # {} \/ faults > 0

\* The handler waits in ibv_get_cq_event for an event that is not there, and with
\* it the whole loop, only if more than one poll_event is registered
\* (libevent-server.c:297-300, 430).
BlocksOnlyWithTwoPollEvents ==
    pc = "get" /\ events = 0 => Cardinality(registered) > 1

\* Every message that arrived is counted in the end, unless the server dies.
EveryMessageEventuallyCounted ==
    \A c \in Conns :
        delivered[c] > totalRecv[c] ~> delivered[c] = totalRecv[c] \/ Dead

\* "Create qp with id, then complete the connection": a peer that asks for a
\* connection gets it, or is refused (libevent-server.c:225).
ConnectRequestServed ==
    \A c \in Conns : peer[c] = "connecting" ~> conn[c] # "none" \/ Dead

\* The server's event handling is a NotifiedQueue.
NQ == INSTANCE NotifiedQueue WITH
        pending <- Len(cq),
        awake <- Running /\ Awake,
        dead <- Dead

\* Without failing calls the completion queue, its channel and the poll loop
\* implement a queue whose consumer never sleeps on work, fairness included.
ImplementsNotifiedQueue == NQ!Spec
=============================================================================
