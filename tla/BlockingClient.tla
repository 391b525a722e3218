---------------------------- MODULE BlockingClient ----------------------------
(***************************************************************************)
(* client-rdma.c and client-test.c: a thread with a connection and two     *)
(* completion queues of its own sends one message after the other. send_mr *)
(* spins until the message is acknowledged, recv_msg until some reply is   *)
(* there. Neither looks at what it got, and nobody at what they return.    *)
(*                                                                         *)
(* The server is handle_work_complete of libevent-server.c, seen from this *)
(* connection, with POLL_WC_SIZE 1: it gives a buffer back, then decides   *)
(* from what is in it whether to answer. LibeventServer has the details.   *)
(*                                                                         *)
(* The connection may be lost, and calls of the client may fail, MaxFaults *)
(* times in all.                                                           *)
(***************************************************************************)
EXTENDS BuildCmd, Sequences, FiniteSets, FiniteSetsExt

CONSTANTS
    Tests,      \* what one run of a client may do, see TestOK
    ClientBufs, \* receive buffers of the client's connection
    NumBufs,    \* REG_PER_CONN of the server
    BufSize,    \* BUFF_SIZE of the server
    MaxSendWr,  \* max_send_wr of the server
    MaxFaults   \* bound on what fails

\* A test is a sequence of messages, each waited for or not, an empty one for no
\* rounds. It says whether its program's send_mr sends again what came back with a
\* bad status.
TestOK(t) ==
    /\ t.retries \in BOOLEAN
    /\ Len(t.items) \in Nat /\ DOMAIN t.items = 1 .. Len(t.items)
    /\ \A i \in DOMAIN t.items :
        t.items[i].waits \in BOOLEAN /\ MessageOK(t.items[i].msg)

ASSUME BlockingAssumption ==
    /\ \A t \in Tests : TestOK(t)
    /\ ClientBufs \in Nat \ {0}
    /\ NumBufs \in Nat \ {0}
    /\ BufSize \in Nat \ {0}
    /\ MaxSendWr \in Nat \ {0}
    /\ MaxFaults \in Nat

VARIABLES
    test,     \* what this client does
    noRecvCq, \* whether its queue for replies could not be created
    at,       \* the item it is at
    pc,       \* where the client is, see Pcs
    out,      \* items of the client's sends on their way, oldest first
    landed,   \* sends that arrived and are not completed
    sendCq,   \* statuses of send completions not polled
    recvCq,   \* replies not polled: the item each is for, 0 for a flushed one
    posted,   \* receive buffers the client has posted
    link,     \* "up" or "err", both queue pairs
    arrived,  \* messages placed in the server's buffers
    \* The server's end.
    rq,       \* posted receive buffers, oldest first
    mem,      \* mem[b]: what buffer b holds
    cq,       \* completions not polled: [op, buf, item]
    current,  \* the message it is about to look at, None if there is none
    tested,   \* whether it looked at the head of that one already
    sq,       \* posted sends and reads not carried out: [op, item]
    unacked,  \* sends carried out and not completed
    counted,  \* c->total_recv
    lost,     \* items whose message, or a reply to it, was never sent
    mistaken, \* whether the server looked at a buffer that was filled again
    early,    \* whether a failing poll ended the wait for a completion (history)
    faults

given == <<test, noRecvCq>>
clientVars == <<given, at, pc>>
sends == <<out, landed>>
clientCqVars == <<sends, sendCq, recvCq, posted>>
look == <<current, tested>>
serverVars == <<rq, mem, cq, look, sq, unacked, counted, mistaken>>
vars == <<clientVars, clientCqVars, link, arrived, serverVars, lost, early, faults>>

Pcs == {"start",   \* before build_connection
        "send",    \* about to rdma_post_send
        "sending", \* spinning on the send queue
        "resend",  \* spinning on it for the second time
        "receive", \* spinning in recv_msg
        "done", "crashed"}

None == [op |-> "none", buf |-> 0, item |-> 0]
items == test.items
Message(i) == items[i].msg
msg == Message(at)
Fault == faults < MaxFaults /\ faults' = faults + 1
------------------------------------------------------------------------------
(***************************************************************************)
(* The contents of a server's buffer                                       *)
(***************************************************************************)
EmptyBuffer == [words |-> {}, nuls |-> {}, written |-> 0, item |-> 0]

Larger(x, y) == IF x > y THEN x ELSE y

\* What is behind the end of a message stays what it was.
Deposit(buffer, m, i) ==
    [words |-> {w \in buffer.words : w >= m.len} \cup m.words,
     nuls |-> {<<Larger(r[1], m.len), r[2]>> : r \in {r \in buffer.nuls : r[2] >= m.len}}
                \cup m.nuls,
     written |-> Larger(buffer.written, m.len),
     item |-> i]

\* strstr(addr, "noreply") != NULL. A search that gets to bytes nobody wrote can
\* end either way.
SaysNoreply(buffer) ==
    LET word == Min(buffer.words \cup {buffer.written})
        nul == Min({r[1] : r \in buffer.nuls} \cup {buffer.written})
    IN IF word = nul THEN BOOLEAN ELSE {word < nul}
------------------------------------------------------------------------------
(***************************************************************************)
(* The client                                                              *)
(***************************************************************************)
\* rdma_post_send.
PostSend == out' = Append(out, at) /\ UNCHANGED landed

build_connection ==
    /\ pc = "start"
    /\ pc' = IF at > Len(items) THEN "done" ELSE "send"
    /\ posted' = ClientBufs
    /\ UNCHANGED <<given, at, sends, sendCq, recvCq, link, arrived, serverVars, lost,
                   early, faults>>

\* The client's protection domain or the first of its queues cannot be created.
\* client-test.c gives up. main of client-rdma.c does not look at the result: the
\* connection gets queues of its own, and the first ibv_poll_cq, after the first
\* send, reads through NULL.
InitFails ==
    /\ pc = "start" /\ ~noRecvCq
    /\ Fault
    /\ IF test.retries \/ at > Len(items)
       THEN pc' = "done" /\ UNCHANGED <<posted, sends>>
       ELSE pc' = "crashed" /\ posted' = ClientBufs /\ PostSend
    /\ UNCHANGED <<given, at, sendCq, recvCq, link, arrived, serverVars, lost, early>>

\* The second one, recv_cq, cannot be: client-rdma.c can send, and the connection
\* has a queue for its replies that nobody polls.
RecvCqFails ==
    /\ pc = "start" /\ ~noRecvCq /\ ~test.retries
    /\ Fault
    /\ noRecvCq' = TRUE
    /\ UNCHANGED <<test, at, pc, clientCqVars, link, arrived, serverVars, lost, early>>

\* The first recv_msg reads through NULL.
RecvCqCrash ==
    /\ pc = "receive" /\ noRecvCq
    /\ pc' = "crashed"
    /\ UNCHANGED <<given, at, clientCqVars, link, arrived, serverVars, lost, early,
                   faults>>

\* It returns NULL and so does the test.
ConnectFails ==
    /\ pc = "start"
    /\ Fault
    /\ pc' = "done"
    /\ UNCHANGED <<given, at, clientCqVars, link, arrived, serverVars, lost, early>>

\* rdma_reg_msgs of a receive buffer fails, or of a message, which shows when that
\* is sent for the first time: the result is read through.
RegisterCrash ==
    /\ \/ pc = "start"
       \/ pc = "send" /\ \A i \in 1 .. at - 1 : items[i].msg # msg
    /\ Fault
    /\ pc' = "crashed"
    /\ UNCHANGED <<given, at, clientCqVars, link, arrived, serverVars, lost, early>>

NextItem ==
    /\ at' = at + 1
    /\ pc' = IF at = Len(items) THEN "done" ELSE "send"
    /\ UNCHANGED given

\* send_mr returned, with whatever result.
AfterSend ==
    IF items[at].waits THEN pc' = "receive" /\ UNCHANGED <<given, at>> ELSE NextItem

send_mr ==
    /\ pc = "send"
    /\ pc' = "sending"
    /\ PostSend
    /\ UNCHANGED <<given, at, sendCq, recvCq, posted, link, arrived, serverVars, lost,
                   early, faults>>

\* rdma_post_send fails: the test goes on as if it had not.
SendFails ==
    /\ pc = "send"
    /\ Fault
    /\ AfterSend
    /\ lost' = lost \cup {at}
    /\ UNCHANGED <<clientCqVars, link, arrived, serverVars, early>>

\* Mutant of SendCompletes: a good status is taken for a bad one.
SendCompletesInverted ==
    /\ pc = "sending" /\ sendCq # <<>>
    /\ sendCq' = Tail(sendCq)
    /\ IF test.retries /\ Head(sendCq) = "ok"
       THEN pc' = "resend" /\ PostSend /\ UNCHANGED <<given, at>>
       ELSE AfterSend /\ UNCHANGED sends
    /\ UNCHANGED <<recvCq, posted, link, arrived, serverVars, lost, early, faults>>

\* client-rdma.c is content with any completion, client-test.c sends a message
\* with a bad one again.
SendCompletes ==
    /\ pc = "sending" /\ sendCq # <<>>
    /\ sendCq' = Tail(sendCq)
    /\ IF test.retries /\ Head(sendCq) # "ok"
       THEN pc' = "resend" /\ PostSend /\ UNCHANGED <<given, at>>
       ELSE AfterSend /\ UNCHANGED sends
    /\ UNCHANGED <<recvCq, posted, link, arrived, serverVars, lost, early, faults>>

\* The second rdma_post_send fails.
ResendFails ==
    /\ pc = "sending" /\ sendCq # <<>>
    /\ test.retries /\ Head(sendCq) # "ok"
    /\ Fault
    /\ sendCq' = Tail(sendCq)
    /\ AfterSend
    /\ lost' = lost \cup {at}
    /\ UNCHANGED <<sends, recvCq, posted, link, arrived, serverVars, early>>

\* The second completion is not looked at.
ResendCompletes ==
    /\ pc = "resend" /\ sendCq # <<>>
    /\ sendCq' = Tail(sendCq)
    /\ AfterSend
    /\ UNCHANGED <<sends, recvCq, posted, link, arrived, serverVars, lost, early,
                   faults>>

\* ibv_poll_cq fails while the client waits for a completion: it goes on, and the
\* completion is the next one it finds. For recv_msg that means it got no reply.
PollFails ==
    /\ pc \in {"sending", "resend", "receive"} /\ ~(pc = "receive" /\ noRecvCq)
    /\ Fault
    /\ IF pc = "receive" THEN NextItem ELSE AfterSend
    /\ early' = TRUE
    /\ UNCHANGED <<clientCqVars, link, arrived, serverVars, lost>>

\* Mutant of recv_msg: the buffer is not posted again.
recv_msgKeeps ==
    /\ pc = "receive" /\ ~noRecvCq /\ recvCq # <<>>
    /\ recvCq' = Tail(recvCq)
    /\ NextItem
    /\ UNCHANGED <<sends, sendCq, posted, link, arrived, serverVars, lost, early,
                   faults>>

\* Mutant of recv_msg: a poll that found nothing is enough.
recv_msgOnce ==
    /\ pc = "receive" /\ ~noRecvCq
    /\ recvCq' = IF recvCq = <<>> THEN recvCq ELSE Tail(recvCq)
    /\ posted' = IF recvCq = <<>> THEN posted ELSE posted + 1
    /\ NextItem
    /\ UNCHANGED <<sends, sendCq, link, arrived, serverVars, lost, early, faults>>

\* Any completion of a receive will do, whatever its status. The buffer is posted
\* again.
recv_msg ==
    /\ pc = "receive" /\ ~noRecvCq /\ recvCq # <<>>
    /\ recvCq' = Tail(recvCq)
    /\ posted' = posted + 1
    /\ NextItem
    /\ UNCHANGED <<sends, sendCq, link, arrived, serverVars, lost, early, faults>>

\* rdma_post_recv fails, which nobody looks at: the buffer is gone.
RepostFails ==
    /\ pc = "receive" /\ ~noRecvCq /\ recvCq # <<>>
    /\ Fault
    /\ recvCq' = Tail(recvCq)
    /\ NextItem
    /\ UNCHANGED <<sends, sendCq, posted, link, arrived, serverVars, lost, early>>
------------------------------------------------------------------------------
(***************************************************************************)
(* The two adapters                                                        *)
(***************************************************************************)
Completed(op, buf, i) == cq' = Append(cq, [op |-> op, buf |-> buf, item |-> i])

\* A message waits until the server has a buffer posted.
Arrive ==
    /\ link = "up" /\ out # <<>> /\ rq # <<>> /\ Message(Head(out)).len <= BufSize
    /\ out' = Tail(out)
    /\ landed' = landed + 1
    /\ arrived' = arrived + 1
    /\ mem' = [mem EXCEPT ![Head(rq)] = Deposit(@, Message(Head(out)), Head(out))]
    /\ rq' = Tail(rq)
    /\ Completed("recv", Head(rq), Head(out))
    /\ UNCHANGED <<clientVars, sendCq, recvCq, posted, link, look, sq, unacked,
                   counted, lost, early, mistaken, faults>>

\* A message longer than the buffer fails the connection.
ArriveTooLong ==
    /\ link = "up" /\ out # <<>> /\ rq # <<>> /\ Message(Head(out)).len > BufSize
    /\ link' = "err"
    /\ UNCHANGED <<clientVars, clientCqVars, arrived, serverVars, lost, early, faults>>

\* The completion of the oldest send. Once the connection is lost it is a bad one.
SendDone ==
    /\ \/ /\ landed > 0
          /\ landed' = landed - 1
          /\ UNCHANGED out
       \/ /\ landed = 0 /\ out # <<>> /\ link = "err"
          /\ out' = Tail(out)
          /\ UNCHANGED landed
    /\ sendCq' = Append(sendCq, IF link = "up" THEN "ok" ELSE "bad")
    /\ UNCHANGED <<clientVars, recvCq, posted, link, arrived, serverVars, lost,
                   early, faults>>

\* A reply waits until the client has a buffer posted.
ReplyArrives ==
    /\ link = "up" /\ sq # <<>> /\ posted > 0
    /\ Head(sq).op = "send"
    /\ recvCq' = Append(recvCq, Head(sq).item)
    /\ posted' = posted - 1
    /\ sq' = Tail(sq)
    /\ unacked' = unacked + 1
    /\ UNCHANGED <<clientVars, sends, sendCq, link, arrived, rq, mem, cq, look,
                   counted, lost, early, mistaken, faults>>

ReplyAcked ==
    /\ unacked > 0
    /\ unacked' = unacked - 1
    /\ Completed("send", 0, 0)
    /\ UNCHANGED <<clientVars, clientCqVars, link, arrived, rq, mem, look, sq,
                   counted, lost, early, mistaken, faults>>

\* The server reads the client's memory, if that was registered for reading.
ReadDone ==
    /\ link = "up" /\ sq # <<>> /\ Head(sq).op = "read"
    /\ IF items[Head(sq).item].msg.readable
       THEN /\ sq' = Tail(sq)
            /\ Completed("read", 0, Head(sq).item)
            /\ UNCHANGED link
       ELSE link' = "err" /\ UNCHANGED <<sq, cq>>
    /\ UNCHANGED <<clientVars, clientCqVars, arrived, rq, mem, look, unacked,
                   counted, lost, early, mistaken, faults>>

LinkFails ==
    /\ link = "up" /\ pc \notin {"start", "done", "crashed"}
    /\ Fault
    /\ link' = "err"
    /\ UNCHANGED <<clientVars, clientCqVars, arrived, serverVars, lost, early>>

\* The client's posted buffers come back.
FlushReceive ==
    /\ link = "err" /\ posted > 0
    /\ posted' = posted - 1
    /\ recvCq' = Append(recvCq, 0)
    /\ UNCHANGED <<clientVars, sends, sendCq, link, arrived, serverVars, lost, early,
                   faults>>
------------------------------------------------------------------------------
(***************************************************************************)
(* The server                                                              *)
(***************************************************************************)
\* Entries of its send queue are free once their completions were polled; queue is
\* what is not.
SlotsUsed(queue) ==
    Len(sq) + unacked
        + Cardinality({k \in DOMAIN queue : queue[k].op \in {"send", "read"}})

\* What fits into the send queue is posted, the rest is dropped.
Post(queue, entries, i) ==
    LET room == MaxSendWr - SlotsUsed(queue)
        n == IF Len(entries) <= room THEN Len(entries) ELSE room
    IN /\ sq' = sq \o [k \in 1 .. n |-> [op |-> entries[k], item |-> i]]
       /\ lost' = IF n < Len(entries) THEN lost \cup {i} ELSE lost

\* A message is counted and its buffer posted again; a read that is done is
\* answered.
ServerTakes ==
    /\ current = None /\ cq # <<>>
    /\ cq' = Tail(cq)
    /\ IF Head(cq).op = "recv"
       THEN /\ counted' = counted + 1
            /\ rq' = Append(rq, Head(cq).buf)
            /\ current' = Head(cq)
       ELSE UNCHANGED <<counted, rq, current>>
    /\ IF Head(cq).op = "read" THEN Post(Tail(cq), <<"send">>, Head(cq).item)
       ELSE UNCHANGED <<sq, lost>>
    /\ UNCHANGED <<clientVars, clientCqVars, link, arrived, mem, tested, unacked,
                   mistaken, early, faults>>

\* What it does with the buffer is for the message that is in it by then.
LooksIntoBuffer == mistaken' = (mistaken \/ mem[current.buf].item # current.item)

\* '\x88' at the head of the buffer starts a read.
ServerTestsHead ==
    /\ current # None /\ ~tested
    /\ Post(cq, IF items[mem[current.buf].item].msg.head THEN <<"read">> ELSE <<>>,
            current.item)
    /\ LooksIntoBuffer
    /\ tested' = TRUE
    /\ UNCHANGED <<clientVars, clientCqVars, link, arrived, rq, mem, cq, current, unacked,
                   counted, early, faults>>

\* It is answered at once unless it says "noreply".
ServerAnswers ==
    /\ current # None /\ tested
    /\ \E noreply \in SaysNoreply(mem[current.buf]) :
        Post(cq, IF noreply THEN <<>> ELSE <<"send">>, current.item)
    /\ LooksIntoBuffer
    /\ current' = None /\ tested' = FALSE
    /\ UNCHANGED <<clientVars, clientCqVars, link, arrived, rq, mem, cq, unacked,
                   counted, early, faults>>
------------------------------------------------------------------------------
Init ==
    /\ test \in Tests /\ noRecvCq = FALSE
    /\ at = 1
    /\ pc = "start"
    /\ out = <<>> /\ landed = 0
    /\ sendCq = <<>> /\ recvCq = <<>>
    /\ posted = 0
    /\ link = "up"
    /\ arrived = 0
    /\ rq = [b \in 1 .. NumBufs |-> b]
    /\ mem = [b \in 1 .. NumBufs |-> EmptyBuffer]
    /\ cq = <<>>
    /\ current = None /\ tested = FALSE
    /\ sq = <<>>
    /\ unacked = 0
    /\ counted = 0
    /\ lost = {}
    /\ mistaken = FALSE
    /\ early = FALSE
    /\ faults = 0

\* What the client does when no call of it fails.
ClientSteps ==
    build_connection \/ send_mr \/ SendCompletes \/ ResendCompletes \/ recv_msg
        \/ RecvCqCrash

ClientNext ==
    \/ ClientSteps
    \/ InitFails \/ RecvCqFails \/ ConnectFails \/ RegisterCrash
    \/ SendFails \/ ResendFails \/ PollFails \/ RepostFails

HcaNext ==
    Arrive \/ ArriveTooLong \/ SendDone \/ ReplyArrives \/ ReplyAcked \/ ReadDone
        \/ FlushReceive

ServerNext == ServerTakes \/ ServerTestsHead \/ ServerAnswers

Next == ClientNext \/ HcaNext \/ LinkFails \/ ServerNext

SafeSpec == Init /\ [][Next]_vars

\* The client and the server are scheduled, the adapters do what they were given:
\* as long as one of them can go on, something happens. No call need ever fail.
Fairness == WF_vars(ClientSteps \/ ServerNext \/ HcaNext)

Spec == SafeSpec /\ Fairness
------------------------------------------------------------------------------
BufferOK(buffer) ==
    /\ \A w \in buffer.words : w \in 0 .. buffer.written - 1
    /\ \A r \in buffer.nuls : r[2] \in 0 .. buffer.written - 1 /\ r[1] \in 0 .. r[2]
    /\ buffer.written \in 0 .. BufSize
    /\ buffer.item \in 0 .. Len(items)

TypeOK ==
    /\ Len(items) \in Nat
    /\ at \in 1 .. Len(items) + 1
    /\ pc \in Pcs
    /\ out \in Seq(1 .. Len(items)) /\ landed \in 0 .. arrived
    /\ sendCq \in Seq({"ok", "bad"})
    /\ recvCq \in Seq(0 .. Len(items))
    /\ posted \in 0 .. ClientBufs
    /\ link \in {"up", "err"}
    /\ arrived \in 0 .. Len(items)
    /\ rq \in Seq(1 .. NumBufs)
    /\ DOMAIN mem = 1 .. NumBufs /\ \A b \in 1 .. NumBufs : BufferOK(mem[b])
    /\ \A k \in DOMAIN cq :
        cq[k].op \in {"recv", "send", "read"} /\ cq[k].item \in 0 .. Len(items)
    /\ current.op \in {"none", "recv"}
    /\ tested \in BOOLEAN /\ noRecvCq \in BOOLEAN
    /\ \A k \in DOMAIN sq :
        sq[k].op \in {"send", "read"} /\ sq[k].item \in 1 .. Len(items)
    /\ unacked \in 0 .. MaxSendWr
    /\ counted \in 0 .. Len(items)
    /\ lost \subseteq 1 .. Len(items)
    /\ mistaken \in BOOLEAN
    /\ early \in BOOLEAN
    /\ faults \in 0 .. MaxFaults

\* Tests whose messages say themselves whether they are answered.
AsksWhereItWaits(t) == \A i \in DOMAIN t.items : t.items[i].waits => Asks(t.items[i].msg)
DeclinesOtherwise(t) == \A i \in DOMAIN t.items : t.items[i].waits \/ Declines(t.items[i].msg)

\* Something is on its way from which a reply may come, or a reply is.
OnItsWay ==
    \/ recvCq # <<>>
    \/ out # <<>>
    \/ sq # <<>>
    \/ \E k \in DOMAIN cq : cq[k].op \in {"recv", "read"}
    \/ current # None

\* "send_mr(c->id, get_r_mr); recv_msg(c);": a test that waits for a reply gets
\* one. While the connection is up it spins in recv_msg in vain only if this very
\* message or its reply was dropped: an earlier loss does not, and neither does
\* what an older message left in the server's buffer (client-rdma.c:357-358,
\* libevent-server.c:342).
WaitsInVainOnlyIfLost ==
    pc = "receive" /\ link = "up" => OnItsWay \/ at \in lost

\* Requests that announce memory are answered twice.
Twice == \E i \in DOMAIN items : items[i].msg.head

\* The reply recv_msg takes is the one to the message just sent, as long as no
\* message is answered twice, the connection is up, the server did not look at a
\* buffer the next message was already in, and no poll failed (client-rdma.c:220-240,
\* libevent-server.c:333-342).
ReplyIsOwn ==
    [][pc = "receive" /\ at' # at /\ link = "up" /\ ~Twice /\ ~mistaken /\ ~early'
         => recvCq # <<>> /\ Head(recvCq) = at]_vars

\* Every message the client waited for, and all before it, were counted.
WaitedForAreCounted ==
    \A i \in 1 .. at - 1 : items[i].waits => counted >= i

\* Under these conditions a reply means that everything sent before it was received
\* (client-rdma.c:332-334).
ReplyMeansReceivedIfIntact ==
    link = "up" /\ faults = 0 /\ ~Twice /\ ~mistaken => WaitedForAreCounted

\* "make sure the server recv everything": without a failure a reply means that
\* everything sent before it was received (client-rdma.c:332-334).
ReplyMeansReceived == link = "up" /\ faults = 0 => WaitedForAreCounted

\* Sending again after a bad status never makes the server receive a message
\* twice: a bad status means the connection is lost (client-test.c:239-251).
ArrivesOnce == arrived <= at

\* The client spins in recv_msg on a connection that is up, and what it waits for was
\* dropped, or enough failed to lose every receive buffer it has.
SpinsForLost ==
    pc = "receive" /\ link = "up" /\ (at \in lost \/ faults >= ClientBufs)

\* A test comes to its end, whatever failed, a poll included, and also over a
\* connection that was lost: unless it spins for ever for the very message that was
\* dropped (client-rdma.c:193-240, client-test.c:224-286).
TestEnds == <>[](pc \in {"done", "crashed"} \/ SpinsForLost)
=============================================================================
