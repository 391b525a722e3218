------------------------- MODULE BlockingClientProofs -------------------------
(***************************************************************************)
(* What holds of the blocking clients for every test they may run, any     *)
(* number of buffers and slots of the two ends, and any failures.          *)
(*                                                                         *)
(*   SendInv     nothing is sent twice while the connection is up          *)
(*   ClientInv   the types of the client's end                             *)
(*   ServerInv   the types of the server's end: its send queue, its count  *)
(*               and what its buffers hold                                 *)
(*   OrderInv    the message the client waits for is the last one on its   *)
(*               way, so nothing is put over it                            *)
(*   OwnInv      it is somewhere on its way, or a reply to it              *)
(*   ReplyInv    no other reply is, and that only once                     *)
(*   IntactInv   messages are counted in the order they were sent          *)
(***************************************************************************)
EXTENDS MCBlockingClient, BuildCmdProofs, CountTheorems, TLAPS

USE DEF given, look

\* What the client sends and what became of it.
SendType ==
    /\ at \in Nat \ {0}
    /\ pc \in Pcs
    /\ out \in Seq(Nat)
    /\ landed \in Nat
    /\ sendCq \in Seq({"ok", "bad"})
    /\ link \in {"up", "err"}
    /\ arrived \in Nat

\* While the connection is up every status is good and nothing is sent again, so each
\* item up to the one the client is at was sent at most once. When it is lost nothing
\* arrives any more.
SendInv ==
    /\ pc = "start" => at = 1 /\ out = <<>> /\ arrived = 0
    /\ link = "up" =>
        /\ \A k \in DOMAIN sendCq : sendCq[k] = "ok"
        /\ pc # "resend"
        /\ arrived + Len(out)
             <= IF pc \in {"sending", "receive", "crashed"} THEN at ELSE at - 1
    /\ arrived <= at
------------------------------------------------------------------------------
\* Taking the head of a queue: what is polled or arrives (client-test.c:240).
LEMMA QueueHead ==
    ASSUME NEW S, NEW q \in Seq(S), q # <<>>
    PROVE  Head(q) \in S /\ Head(q) = q[1] /\ 1 \in DOMAIN q /\ Tail(q) \in Seq(S)
           /\ Len(Tail(q)) = Len(q) - 1 /\ Len(q) \in Nat
           /\ \A k \in DOMAIN Tail(q) : k + 1 \in DOMAIN q /\ Tail(q)[k] = q[k + 1]
OBVIOUS

\* Appending to a queue: what is posted or completed (client-test.c:232).
LEMMA QueueAppend ==
    ASSUME NEW S, NEW q \in Seq(S), NEW e \in S
    PROVE  Append(q, e) \in Seq(S) /\ Len(Append(q, e)) = Len(q) + 1 /\ Len(q) \in Nat
           /\ \A k \in DOMAIN Append(q, e) :
                Append(q, e)[k] = e \/ (k \in DOMAIN q /\ Append(q, e)[k] = q[k])
OBVIOUS

\* Every step keeps it; only InitFails, send_mr and SendCompletes post (client-test.c:228-258).
LEMMA SendStep ==
    ASSUME SendType, SendInv, [Next]_vars
    PROVE  SendType' /\ SendInv'
<1> USE DEF SendType, SendInv, Pcs
<1> DEFINE pop == Tail(sendCq)
<1>a. sendCq # <<>> =>
        /\ Head(sendCq) \in {"ok", "bad"} /\ pop \in Seq({"ok", "bad"})
        /\ link = "up" =>
            Head(sendCq) = "ok" /\ \A k \in DOMAIN pop : pop[k] = "ok"
  BY QueueHead
<1>b. \A s \in {"ok", "bad"} :
        /\ Append(sendCq, s) \in Seq({"ok", "bad"})
        /\ link = "up" /\ s = "ok" =>
            \A k \in DOMAIN Append(sendCq, s) : Append(sendCq, s)[k] = "ok"
  BY QueueAppend
<1>c. Append(out, at) \in Seq(Nat) /\ Len(Append(out, at)) = Len(out) + 1 /\ Len(out) \in Nat
  BY QueueAppend
<1>d. out # <<>> => Tail(out) \in Seq(Nat) /\ Len(Tail(out)) = Len(out) - 1
  BY QueueHead
<1>1. CASE InitFails
  <2>1. /\ pc = "start" /\ at' = at /\ sendCq' = sendCq /\ link' = link
        /\ arrived' = arrived
    BY <1>1 DEF InitFails
  <2>2. CASE test.retries \/ at > Len(items)
    <3>1. pc' = "done" /\ out' = out /\ landed' = landed
      BY <1>1, <2>2 DEF InitFails, sends
    <3>2. QED
      BY <2>1, <3>1
  <2>3. CASE ~(test.retries \/ at > Len(items))
    <3>1. pc' = "crashed" /\ out' = Append(out, at) /\ landed' = landed
      BY <1>1, <2>3 DEF InitFails, PostSend
    <3>2. Len(out) = 0
      BY <2>1
    <3>3. QED
      BY <1>c, <2>1, <3>1, <3>2
  <2>4. QED
    BY <2>2, <2>3
<1>2. CASE build_connection
  BY <1>2, <1>c DEF build_connection, sends
<1>3. CASE ConnectFails
  BY <1>3, <1>c DEF ConnectFails, Fault, clientCqVars, sends
<1>4. CASE RegisterCrash
  BY <1>4, <1>c DEF RegisterCrash, Fault, clientCqVars, sends
<1>5. CASE send_mr
  BY <1>5, <1>c DEF send_mr, PostSend
<1>6. CASE SendFails
  BY <1>6, <1>c DEF SendFails, Fault, AfterSend, NextItem, clientCqVars, sends
<1>7. CASE SendCompletes
  <2>1. pc = "sending" /\ sendCq # <<>> /\ sendCq' = pop /\ link' = link /\ arrived' = arrived
    BY <1>7 DEF SendCompletes
  <2>2. CASE test.retries /\ Head(sendCq) # "ok"
    <3>1. link = "err"
      BY <1>a, <2>1, <2>2
    <3>2. pc' = "resend" /\ out' = Append(out, at) /\ landed' = landed /\ at' = at
      BY <1>7, <2>2 DEF SendCompletes, PostSend
    <3>3. QED
      BY <1>a, <1>c, <2>1, <3>1, <3>2
  <2>3. CASE ~(test.retries /\ Head(sendCq) # "ok")
    <3>1. out' = out /\ landed' = landed
      BY <1>7, <2>3 DEF SendCompletes, sends
    <3>2. \/ pc' = "receive" /\ at' = at
          \/ pc' \in {"done", "send"} /\ at' = at + 1
      BY <1>7, <2>3 DEF SendCompletes, AfterSend, NextItem
    <3>3. QED
      BY <1>a, <1>c, <2>1, <3>1, <3>2
  <2>4. QED
    BY <2>2, <2>3
<1>8. CASE ResendFails
  BY <1>8, <1>c, <1>a DEF ResendFails, Fault, AfterSend, NextItem, sends
<1>9. CASE ResendCompletes
  BY <1>9, <1>c, <1>a DEF ResendCompletes, AfterSend, NextItem, sends
<1>10. CASE PollFails
  BY <1>10, <1>c DEF PollFails, Fault, AfterSend, NextItem, clientCqVars, sends
<1>11. CASE recv_msg
  BY <1>11, <1>c DEF recv_msg, NextItem, sends
<1>12. CASE RepostFails
  BY <1>12, <1>c DEF RepostFails, Fault, NextItem, sends
<1>13. CASE Arrive
  BY <1>13, <1>c, <1>d DEF Arrive, clientVars
<1>14. CASE ArriveTooLong
  BY <1>14, <1>c DEF ArriveTooLong, clientVars, clientCqVars, sends
<1>15. CASE SendDone
  <2>1. at' = at /\ pc' = pc /\ link' = link /\ arrived' = arrived
    BY <1>15 DEF SendDone, clientVars
  <2>2. \/ out' = out /\ landed' = landed - 1 /\ landed > 0
        \/ out # <<>> /\ out' = Tail(out) /\ landed' = landed /\ link = "err"
    BY <1>15 DEF SendDone
  <2>3. PICK s \in {"ok", "bad"} :
          sendCq' = Append(sendCq, s) /\ (link = "up" => s = "ok")
    BY <1>15 DEF SendDone
  <2>4. sendCq' \in Seq({"ok", "bad"})
        /\ (link = "up" => \A k \in DOMAIN sendCq' : sendCq'[k] = "ok")
    BY <1>b, <2>3
  <2>5. out' \in Seq(Nat) /\ landed' \in Nat /\ (pc = "start" => out' = <<>>)
    <3>1. CASE out' = out /\ landed' = landed - 1 /\ landed > 0
      BY <3>1
    <3>2. CASE out # <<>> /\ out' = Tail(out) /\ landed' = landed
      BY <1>d, <3>2
    <3>3. QED
      BY <2>2, <3>1, <3>2
  <2>6. link = "up" => out' = out
    BY <2>2
  <2>7. QED
    BY <1>c, <2>1, <2>4, <2>5, <2>6
<1>16. CASE ReplyArrives
  BY <1>16, <1>c DEF ReplyArrives, clientVars, sends
<1>17. CASE ReplyAcked
  BY <1>17, <1>c DEF ReplyAcked, clientVars, clientCqVars, sends
<1>18. CASE ReadDone
  BY <1>18, <1>c DEF ReadDone, clientVars, clientCqVars, sends
<1>19. CASE LinkFails
  BY <1>19, <1>c DEF LinkFails, Fault, clientVars, clientCqVars, sends
<1>20. CASE FlushReceive
  BY <1>20, <1>c DEF FlushReceive, clientVars, sends
<1>21. CASE ServerTakes
  BY <1>21, <1>c DEF ServerTakes, clientVars, clientCqVars, sends
<1>22. CASE ServerTestsHead
  BY <1>22, <1>c DEF ServerTestsHead, clientVars, clientCqVars, sends
<1>23. CASE ServerAnswers
  BY <1>23, <1>c DEF ServerAnswers, clientVars, clientCqVars, sends
<1>24. CASE RecvCqFails
  BY <1>24, <1>c DEF RecvCqFails, clientCqVars, sends
<1>25. CASE RecvCqCrash
  BY <1>25, <1>c DEF RecvCqCrash, clientCqVars, sends
<1>26. CASE UNCHANGED vars
  BY <1>26 DEF vars, clientVars, clientCqVars, sends
<1>27. QED
  BY <1>1, <1>2, <1>3, <1>4, <1>5, <1>6, <1>7, <1>8, <1>9, <1>10, <1>11, <1>12,
     <1>13, <1>14, <1>15, <1>16, <1>17, <1>18, <1>19, <1>20, <1>21, <1>22, <1>23, <1>24,
     <1>25, <1>26 DEF Next, ClientNext, ClientSteps, HcaNext, ServerNext

\* Sending again after a bad status never makes the server receive a message twice,
\* for every test and any number of failures (client-test.c:239-251).
THEOREM SentOnce == SafeSpec => []ArrivesOnce
<1>1. Init => SendType /\ SendInv
  BY DEF Init, SendType, SendInv, Pcs
<1>2. SendType /\ SendInv /\ [Next]_vars => (SendType /\ SendInv)'
  BY SendStep
<1>3. SendInv => ArrivesOnce
  BY DEF SendInv, ArrivesOnce
<1>4. QED
  BY <1>1, <1>2, <1>3, PTL DEF SafeSpec

------------------------------------------------------------------------------
(***************************************************************************)
(* The client's steps, by what they mean for the two ends                  *)
(***************************************************************************)
Waits(i) == items[i].waits

\* The program ends before it has a connection or a registered message.
Stops ==
    /\ pc \in {"start", "send"} /\ pc' \in {"done", "crashed"} /\ at' = at
    /\ out' = out \/ (at <= Len(items) /\ out' = Append(out, at))
    /\ posted' = posted \/ (pc = "start" /\ posted' = ClientBufs)
    /\ faults' = faults + 1
    /\ UNCHANGED <<landed, recvCq, lost, early>>

Connects ==
    /\ pc = "start" /\ at' = at
    /\ pc' = "done" \/ (pc' = "send" /\ at <= Len(items))
    /\ posted' = ClientBufs
    /\ UNCHANGED <<sends, recvCq, lost, early>>

Sends ==
    /\ pc = "send" /\ pc' = "sending" /\ at' = at
    /\ out' = Append(out, at)
    /\ UNCHANGED <<landed, recvCq, posted, lost, early>>

Resends ==
    /\ pc = "sending" /\ link = "err" /\ pc' = "resend" /\ at' = at
    /\ out' = Append(out, at)
    /\ UNCHANGED <<landed, recvCq, posted, lost, early>>

\* send_mr returns. Where nothing was posted the item is lost.
SendReturns ==
    /\ pc \in {"send", "sending", "resend"}
    /\ \/ Waits(at) /\ pc' = "receive" /\ at' = at
       \/ ~Waits(at) /\ pc' \in {"send", "done"} /\ NextItem
    /\ lost' = lost \/ lost' = lost \cup {at}
    /\ pc = "send" => lost' = lost \cup {at} /\ faults' = faults + 1
    /\ early' = early \/ (early' = TRUE /\ faults' = faults + 1)
    /\ UNCHANGED <<sends, recvCq, posted>>

Gets ==
    /\ pc = "receive" /\ recvCq # <<>>
    /\ recvCq' = Tail(recvCq)
    /\ posted' = posted \/ posted' = posted + 1
    /\ pc' \in {"send", "done"} /\ NextItem
    /\ UNCHANGED <<sends, lost, early>>

GivesUp ==
    /\ pc = "receive"
    /\ pc' \in {"send", "done"} /\ NextItem
    /\ early' = TRUE
    /\ faults' = faults + 1
    /\ UNCHANGED <<sends, recvCq, posted, lost>>

\* Its queue for replies was not created, which shows when it is polled.
Unanswerable ==
    /\ \/ pc' = pc
       \/ pc = "receive" /\ pc' = "crashed"
    /\ UNCHANGED <<at, sends, recvCq, posted, lost, early>>

ClientStep ==
    /\ UNCHANGED <<test, link, arrived, serverVars>>
    /\ faults' = faults \/ (faults' = faults + 1 /\ faults < MaxFaults)
    /\ noRecvCq' = noRecvCq \/ noRecvCq' = TRUE
    /\ \/ Stops \/ Connects \/ Sends \/ Resends \/ SendReturns \/ Gets \/ GivesUp
       \/ Unanswerable

\* Each function of the client's thread is one of these (client-rdma.c:193-240).
LEMMA ClientKinds ==
    ASSUME SendType, SendInv, ClientNext
    PROVE  ClientStep
<1>a. AfterSend => /\ \/ Waits(at) /\ pc' = "receive" /\ at' = at
                      \/ ~Waits(at) /\ pc' \in {"send", "done"} /\ NextItem
                   /\ test' = test /\ noRecvCq' = noRecvCq
  BY DEF AfterSend, NextItem, Waits
<1>b. NextItem => /\ pc' \in {"send", "done"} /\ test' = test
                  /\ noRecvCq' = noRecvCq
  BY DEF NextItem
<1>1. CASE InitFails
  <2>1. CASE test.retries \/ at > Len(items)
    BY <1>1, <2>1 DEF InitFails, ClientStep, Stops, Fault, sends
  <2>2. CASE ~(test.retries \/ at > Len(items))
    <3>1. at <= Len(items)
      BY <2>2 DEF SendType
    <3>2. QED
      BY <1>1, <2>2, <3>1 DEF InitFails, ClientStep, Stops, Fault, PostSend
  <2>3. QED
    BY <2>1, <2>2
<1>2. CASE build_connection
  BY <1>2 DEF build_connection, ClientStep, Connects, SendType
<1>3. CASE ConnectFails
  BY <1>3 DEF ConnectFails, ClientStep, Stops, Fault, clientCqVars, sends
<1>4. CASE RegisterCrash
  BY <1>4 DEF RegisterCrash, ClientStep, Stops, Fault, clientCqVars, sends
<1>5. CASE send_mr
  BY <1>5 DEF send_mr, ClientStep, Sends, PostSend
<1>6. CASE SendFails
  BY <1>6, <1>a DEF SendFails, ClientStep, SendReturns, Fault, clientCqVars
<1>7. CASE SendCompletes
  <2>1. CASE test.retries /\ Head(sendCq) # "ok"
    <3>1. sendCq # <<>> /\ pc = "sending"
      BY <1>7 DEF SendCompletes
    <3>2. link = "err"
      BY <2>1, <3>1, QueueHead DEF SendType, SendInv
    <3>3. QED
      BY <1>7, <2>1, <3>2 DEF SendCompletes, ClientStep, Resends, PostSend
  <2>2. CASE ~(test.retries /\ Head(sendCq) # "ok")
    BY <1>7, <1>a, <2>2 DEF SendCompletes, ClientStep, SendReturns
  <2>3. QED
    BY <2>1, <2>2
<1>8. CASE ResendCompletes
  BY <1>8, <1>a DEF ResendCompletes, ClientStep, SendReturns
<1>9. CASE ResendFails
  BY <1>9, <1>a DEF ResendFails, ClientStep, SendReturns, Fault
<1>10. CASE PollFails
  <2>1. CASE pc = "receive"
    BY <1>10, <1>b, <2>1 DEF PollFails, ClientStep, GivesUp, Fault, clientCqVars
  <2>2. CASE pc # "receive"
    BY <1>10, <1>a, <2>2 DEF PollFails, ClientStep, SendReturns, Fault, clientCqVars
  <2>3. QED
    BY <2>1, <2>2
<1>11. CASE recv_msg
  BY <1>11, <1>b DEF recv_msg, ClientStep, Gets
<1>12. CASE RepostFails
  BY <1>12, <1>b DEF RepostFails, ClientStep, Gets, Fault
<1>13. CASE RecvCqFails
  BY <1>13 DEF RecvCqFails, ClientStep, Unanswerable, Fault, clientCqVars
<1>14. CASE RecvCqCrash
  BY <1>14 DEF RecvCqCrash, ClientStep, Unanswerable, clientCqVars
<1>15. QED
  BY <1>1, <1>2, <1>3, <1>4, <1>5, <1>6, <1>7, <1>8, <1>9, <1>10, <1>11, <1>12, <1>13,
     <1>14 DEF ClientNext, ClientSteps

------------------------------------------------------------------------------
(***************************************************************************)
(* The types of the client's end                                           *)
(***************************************************************************)
\* A receive buffer of the client is posted or in a completion, or lost.
ClientInv ==
    /\ test \in Tests
    /\ at \in 1 .. Len(items) + 1
    /\ pc \in {"start", "done", "crashed"} \/ at <= Len(items)
    /\ pc = "crashed" => at <= Len(items) \/ out = <<>>
    /\ noRecvCq \in BOOLEAN
    /\ out \in Seq(1 .. Len(items)) /\ landed \in 0 .. arrived
    /\ arrived <= Len(items)
    /\ recvCq \in Seq(0 .. Len(items))
    /\ posted \in Nat /\ posted + Len(recvCq) <= ClientBufs
    /\ pc = "start" => posted = 0 /\ recvCq = <<>>
    /\ lost \in SUBSET (1 .. Len(items))
    /\ mistaken \in BOOLEAN /\ early \in BOOLEAN /\ faults \in 0 .. MaxFaults

\* Completions of the server's receives, of its sends and of its reads.
RecvEntries == [op : {"recv"}, buf : 1 .. NumBufs, item : 1 .. Len(items)]
SendEntries == [op : {"send"}, buf : {0}, item : {0}]
ReadEntries == [op : {"read"}, buf : {0}, item : 1 .. Len(items)]
Entries == RecvEntries \cup SendEntries \cup ReadEntries
PostedEntries == [op : {"send", "read"}, item : 1 .. Len(items)]

\* What arrived and was not looked at.
Received == {e \in RecvEntries : e = current \/ \E k \in DOMAIN cq : cq[k] = e}

\* A buffer starts with the message m.
StartsWith(buffer, m) ==
    /\ m.len <= buffer.written
    /\ m.words = {w \in buffer.words : w < m.len}
    /\ m.nuls = {r \in buffer.nuls : r[1] < m.len}

\* A slot of the send queue is posted, carried out or in a completion; a message that
\* arrived is counted or in a completion.
ServerInv ==
    /\ rq \in Seq(1 .. NumBufs)
    /\ DOMAIN mem = 1 .. NumBufs
    /\ \A b \in 1 .. NumBufs : BufferOK(mem[b])
    /\ \A b \in 1 .. NumBufs : mem[b].item # 0 => StartsWith(mem[b], Message(mem[b].item))
    /\ cq \in Seq(Entries)
    /\ current \in RecvEntries \cup {None} /\ tested \in BOOLEAN
    /\ sq \in Seq(PostedEntries)
    /\ unacked \in Nat
    /\ Len(sq) + unacked + Occurrences(cq, SendEntries \cup ReadEntries) <= MaxSendWr
    /\ counted \in Nat /\ counted + Occurrences(cq, RecvEntries) = arrived
    /\ \A e \in Received : mem[e.buf].item # 0

LEMMA ItemsOK ==
    ASSUME test \in Tests
    PROVE  /\ Len(items) \in Nat /\ DOMAIN items = 1 .. Len(items)
           /\ \A i \in 1 .. Len(items) : Waits(i) \in BOOLEAN /\ MessageOK(Message(i))
BY BlockingAssumption DEF TestOK, items, Message, Waits

LEMMA TestKept ==
    ASSUME SendType, SendInv, [Next]_vars
    PROVE  test' = test /\ items' = items
<1>1. test' = test
  <2>1. CASE ClientNext
    BY <2>1, ClientKinds DEF ClientStep
  <2>2. CASE ~ClientNext
    BY <2>2 DEF Next, HcaNext, ServerNext, Arrive, ArriveTooLong, SendDone, ReplyArrives,
       ReplyAcked, ReadDone, FlushReceive, LinkFails, ServerTakes, ServerTestsHead,
       ServerAnswers, vars, clientVars
  <2>3. QED
    BY <2>1, <2>2
<1>2. QED
  BY <1>1 DEF items

LEMMA ClientInvStep ==
    ASSUME SendType, SendInv, ClientInv, ServerInv, [Next]_vars
    PROVE  ClientInv'
<1> DEFINE L == Len(items)
<1>a. L \in Nat /\ L' = L /\ test' = test
  BY TestKept, ItemsOK DEF ClientInv
<1>b. ClientBufs \in Nat \ {0} /\ MaxFaults \in Nat
  BY BlockingAssumption
<1>c. /\ at \in 1 .. L + 1
      /\ pc \in {"start", "done", "crashed"} \/ at <= L
      /\ pc = "crashed" => at <= L \/ out = <<>>
      /\ noRecvCq \in BOOLEAN
      /\ out \in Seq(1 .. L) /\ landed \in 0 .. arrived /\ arrived \in 0 .. L
      /\ recvCq \in Seq(0 .. L)
      /\ posted \in Nat /\ posted + Len(recvCq) <= ClientBufs
      /\ pc = "start" => posted = 0 /\ recvCq = <<>>
      /\ lost \in SUBSET (1 .. L)
      /\ mistaken \in BOOLEAN /\ early \in BOOLEAN /\ faults \in 0 .. MaxFaults
  BY DEF ClientInv, SendType
<1>d. test \in Tests /\ pc \in Pcs
  BY DEF ClientInv, SendType
<1>e. /\ recvCq # <<>> => Tail(recvCq) \in Seq(0 .. L) /\ Len(Tail(recvCq)) = Len(recvCq) - 1
      /\ \A i \in 0 .. L : /\ Append(recvCq, i) \in Seq(0 .. L)
                           /\ Len(Append(recvCq, i)) = Len(recvCq) + 1
      /\ Len(recvCq) \in Nat /\ Len(<<>>) = 0
  BY <1>c, QueueHead, QueueAppend
<1>f. /\ out # <<>> => Tail(out) \in Seq(1 .. L) /\ Len(out) \in Nat /\ Len(out) > 0
      /\ at <= L => Append(out, at) \in Seq(1 .. L)
  <2>1. at <= L => at \in 1 .. L
    BY <1>a, <1>c
  <2>2. QED
    BY <1>c, <2>1, QueueHead, QueueAppend
<1> SUFFICES /\ at' \in 1 .. L + 1
             /\ pc' \in {"start", "done", "crashed"} \/ at' <= L
             /\ pc' = "crashed" => at' <= L \/ out' = <<>>
             /\ noRecvCq' \in BOOLEAN
             /\ out' \in Seq(1 .. L) /\ landed' \in 0 .. arrived' /\ arrived' <= L
             /\ recvCq' \in Seq(0 .. L)
             /\ posted' \in Nat /\ posted' + Len(recvCq') <= ClientBufs
             /\ pc' = "start" => posted' = 0 /\ recvCq' = <<>>
             /\ lost' \in SUBSET (1 .. L)
             /\ mistaken' \in BOOLEAN /\ early' \in BOOLEAN /\ faults' \in 0 .. MaxFaults
  BY <1>a, <1>d DEF ClientInv
<1> HIDE DEF L
<1>g. NextItem => at' = at + 1 /\ pc' = IF at = L THEN "done" ELSE "send"
  BY DEF NextItem, L
<1>1. CASE ClientNext
  <2>1. ClientStep
    BY <1>1, ClientKinds
  <2>2. /\ arrived' = arrived /\ mistaken' = mistaken /\ faults' \in 0 .. MaxFaults
        /\ noRecvCq' \in BOOLEAN
    <3>1. arrived' = arrived /\ mistaken' = mistaken /\ noRecvCq' \in BOOLEAN
      BY <2>1, <1>c DEF ClientStep, serverVars
    <3>2. faults' \in 0 .. MaxFaults
      BY <2>1, <1>b, <1>c DEF ClientStep
    <3>3. QED
      BY <3>1, <3>2
  <2>3. CASE Stops
    <3>1. at \in 1 .. L + 1 /\ at' = at /\ pc' \in {"done", "crashed"}
          /\ (out' = <<>> \/ at <= L)
      <4>1. CASE pc = "start"
        BY <2>3, <4>1, <1>c DEF Stops, SendInv, L
      <4>2. CASE pc = "send"
        BY <2>3, <4>2, <1>c DEF Stops
      <4>3. QED
        BY <2>3, <4>1, <4>2 DEF Stops
    <3>2. out' \in Seq(1 .. L)
      <4>1. out' = out \/ (at <= L /\ out' = Append(out, at))
        BY <2>3 DEF Stops, L
      <4>2. QED
        BY <4>1, <1>c, <1>f
    <3>3. posted' \in Nat /\ posted' + Len(recvCq') <= ClientBufs
      BY <2>3, <1>b, <1>c, <1>e DEF Stops
    <3>4. QED
      BY <2>2, <2>3, <3>1, <3>2, <3>3, <1>a, <1>c DEF Stops
  <2>4. CASE Connects
    BY <2>2, <2>4, <1>a, <1>b, <1>c, <1>e, <1>f DEF Connects, sends, L
  <2>5. CASE Sends
    BY <2>2, <2>5, <1>a, <1>b, <1>c, <1>e, <1>f DEF Sends
  <2>6. CASE Resends
    BY <2>2, <2>6, <1>a, <1>b, <1>c, <1>e, <1>f DEF Resends
  <2>7. CASE SendReturns
    <3>1. at \in 1 .. L /\ at \in Nat
      BY <2>7, <1>a, <1>c DEF SendReturns
    <3>2. lost' \in SUBSET (1 .. L) /\ early' \in BOOLEAN
      BY <2>7, <3>1, <1>c DEF SendReturns
    <3>3. /\ pc' \notin {"start", "crashed"} /\ at' \in 1 .. L + 1
          /\ pc' = "done" \/ at' <= L
      BY <2>7, <3>1, <1>a, <1>g DEF SendReturns
    <3>4. QED
      BY <2>2, <2>7, <3>2, <3>3, <1>a, <1>c DEF SendReturns, sends
  <2>8. CASE Gets
    BY <2>2, <2>8, <1>a, <1>b, <1>c, <1>e, <1>g DEF Gets, sends
  <2>9. CASE GivesUp
    BY <2>2, <2>9, <1>a, <1>b, <1>c, <1>e, <1>g DEF GivesUp, sends
  <2>10. CASE Unanswerable
    BY <2>2, <2>10, <1>a, <1>b, <1>c, <1>e, <1>g DEF Unanswerable, sends
  <2>11. QED
    BY <2>1, <2>3, <2>4, <2>5, <2>6, <2>7, <2>8, <2>9, <2>10 DEF ClientStep
<1>2. CASE Arrive
  <2>1. /\ link = "up" /\ out # <<>> /\ out' = Tail(out) /\ landed' = landed + 1
        /\ arrived' = arrived + 1
        /\ at' = at /\ pc' = pc /\ recvCq' = recvCq /\ posted' = posted /\ lost' = lost
        /\ mistaken' = mistaken /\ early' = early /\ faults' = faults
        /\ noRecvCq' = noRecvCq
    BY <1>2 DEF Arrive, clientVars
  <2>2. arrived + Len(out) <= L
    BY <2>1, <1>a, <1>c DEF SendInv
  <2>3. QED
    BY <2>1, <2>2, <1>a, <1>c, <1>f
<1>3. CASE ArriveTooLong
  BY <1>3, <1>a, <1>c DEF ArriveTooLong, clientVars, clientCqVars, sends, serverVars
<1>4. CASE SendDone
  <2>1. \/ out' = out /\ landed' = landed - 1 /\ landed > 0
        \/ out # <<>> /\ out' = Tail(out) /\ landed' = landed
    BY <1>4 DEF SendDone
  <2>2. out' \in Seq(1 .. L) /\ landed' \in 0 .. arrived
    <3>1. CASE out' = out /\ landed' = landed - 1 /\ landed > 0
      BY <3>1, <1>c
    <3>2. CASE out # <<>> /\ out' = Tail(out) /\ landed' = landed
      BY <3>2, <1>c, <1>f
    <3>3. QED
      BY <2>1, <3>1, <3>2
  <2>3. QED
    BY <1>4, <2>2, <1>a, <1>c DEF SendDone, clientVars, serverVars
<1>5. CASE ReplyArrives
  <2>1. Head(sq) \in PostedEntries
    BY <1>5, QueueHead DEF ReplyArrives, ServerInv
  <2>2. Head(sq).item \in 0 .. L
    BY <2>1, <1>a DEF PostedEntries, L
  <2>3. QED
    BY <1>5, <2>2, <1>a, <1>c, <1>e DEF ReplyArrives, clientVars, sends
<1>6. CASE ReplyAcked
  BY <1>6, <1>a, <1>c DEF ReplyAcked, clientVars, clientCqVars, sends
<1>7. CASE ReadDone
  BY <1>7, <1>a, <1>c DEF ReadDone, clientVars, clientCqVars, sends
<1>8. CASE FlushReceive
  BY <1>8, <1>a, <1>c, <1>e DEF FlushReceive, clientVars, sends, serverVars
<1>9. CASE LinkFails
  BY <1>9, <1>a, <1>b, <1>c DEF LinkFails, Fault, clientVars, clientCqVars, sends, serverVars
<1>10. CASE ServerTakes
  <2>1. Head(cq) \in Entries
    BY <1>10, QueueHead DEF ServerTakes, ServerInv
  <2>2. lost' = lost \/ (Head(cq).op = "read" /\ lost' = lost \cup {Head(cq).item})
    BY <1>10 DEF ServerTakes, Post
  <2>3. Head(cq).op = "read" => Head(cq).item \in 1 .. L
    BY <2>1 DEF Entries, RecvEntries, SendEntries, ReadEntries, L
  <2>4. lost' \in SUBSET (1 .. L)
    <3>1. CASE lost' = lost
      BY <3>1, <1>c
    <3>2. CASE Head(cq).op = "read" /\ lost' = lost \cup {Head(cq).item}
      <4>1. Head(cq).item \in 1 .. L
        BY <2>3, <3>2
      <4>2. QED
        BY <3>2, <4>1, <1>c
    <3>3. QED
      BY <2>2, <3>1, <3>2
  <2>5. QED
    BY <1>10, <2>4, <1>a, <1>c DEF ServerTakes, clientVars, clientCqVars, sends
<1>11. CASE ServerTestsHead \/ ServerAnswers
  <2>1. lost' = lost \/ lost' = lost \cup {current.item}
    BY <1>11 DEF ServerTestsHead, ServerAnswers, Post
  <2>2. current.item \in 1 .. L
    BY <1>11 DEF ServerTestsHead, ServerAnswers, ServerInv, RecvEntries, L
  <2>3. lost' \in SUBSET (1 .. L)
    BY <2>1, <2>2, <1>c
  <2>4. mistaken' \in BOOLEAN
    <3>1. mistaken' = (mistaken \/ mem[current.buf].item # current.item)
      BY <1>11 DEF ServerTestsHead, ServerAnswers, LooksIntoBuffer
    <3>2. (mistaken \/ mem[current.buf].item # current.item) \in BOOLEAN
      OBVIOUS
    <3>3. QED
      BY <3>1, <3>2
  <2>5. UNCHANGED <<at, pc, noRecvCq, out, landed, arrived, recvCq, posted, early, faults>>
    <3>1. CASE ServerTestsHead
      BY <3>1 DEF ServerTestsHead, clientVars, clientCqVars, sends
    <3>2. CASE ServerAnswers
      BY <3>2 DEF ServerAnswers, clientVars, clientCqVars, sends
    <3>3. QED
      BY <1>11, <3>1, <3>2
  <2>6. QED
    BY <2>3, <2>4, <2>5, <1>a, <1>c
<1>12. CASE UNCHANGED vars
  BY <1>12, <1>a, <1>c DEF vars, clientVars, clientCqVars, sends, serverVars
<1>13. QED
  BY <1>1, <1>2, <1>3, <1>4, <1>5, <1>6, <1>7, <1>8, <1>9, <1>10, <1>11, <1>12 DEF
     Next, HcaNext, ServerNext

------------------------------------------------------------------------------
(***************************************************************************)
(* The types of the server's end                                           *)
(***************************************************************************)
\* A message covers the start of its buffer, and what was behind it stays
\* (libevent-server.c:286-288).
LEMMA DepositStartsBuffer ==
    ASSUME NEW buffer, BufferOK(buffer), NEW m, MessageOK(m), m.len <= BufSize,
           NEW i \in 0 .. Len(items)
    PROVE  BufferOK(Deposit(buffer, m, i)) /\ StartsWith(Deposit(buffer, m, i), m)
           /\ Deposit(buffer, m, i).item = i
<1> DEFINE new == Deposit(buffer, m, i)
           behind == {<<Larger(r[1], m.len), r[2]>> : r \in {r \in buffer.nuls : r[2] >= m.len}}
<1>1. /\ m.len \in Nat \ {0}
      /\ m.words \in SUBSET (0 .. m.len - 1)
      /\ \A r \in m.nuls : r[2] \in 0 .. m.len - 1 /\ r[1] \in 0 .. r[2]
  BY DEF MessageOK
<1>2. /\ \A w \in buffer.words : w \in 0 .. buffer.written - 1
      /\ \A r \in buffer.nuls : r[2] \in 0 .. buffer.written - 1 /\ r[1] \in 0 .. r[2]
      /\ buffer.written \in 0 .. BufSize
  BY DEF BufferOK
<1>3. BufSize \in Nat \ {0}
  BY BlockingAssumption
<1>4. /\ new.words = {w \in buffer.words : w >= m.len} \cup m.words
      /\ new.nuls = behind \cup m.nuls
      /\ new.written = Larger(buffer.written, m.len)
      /\ new.item = i
  BY DEF Deposit
<1>5. \A r \in behind : r[1] \in Nat /\ r[1] >= m.len /\ r[1] \in 0 .. r[2]
                        /\ r[2] \in Nat /\ r[2] < buffer.written
  <2> SUFFICES ASSUME NEW r \in buffer.nuls, r[2] >= m.len
               PROVE  /\ Larger(r[1], m.len) \in Nat /\ Larger(r[1], m.len) >= m.len
                      /\ Larger(r[1], m.len) <= r[2] /\ r[2] \in Nat
                      /\ r[2] < buffer.written
    OBVIOUS
  <2>1. r[2] \in Int /\ r[1] \in 0 .. r[2] /\ r[2] < buffer.written
    BY <1>1, <1>2
  <2>2. QED
    BY <1>1, <2>1 DEF Larger
<1>6. /\ new.written \in 0 .. BufSize /\ new.written >= m.len
      /\ new.written >= buffer.written
  BY <1>1, <1>2, <1>3, <1>4 DEF Larger
<1> HIDE DEF new, behind
<1>7. \A w \in new.words : w \in 0 .. new.written - 1
  BY <1>1, <1>2, <1>4, <1>6
<1>8. \A r \in new.nuls : r[2] \in 0 .. new.written - 1 /\ r[1] \in 0 .. r[2]
  BY <1>1, <1>2, <1>4, <1>5, <1>6
<1>9. m.words = {w \in new.words : w < m.len}
  BY <1>1, <1>2, <1>4
<1>10. m.nuls = {r \in new.nuls : r[1] < m.len}
  <2>1. \A r \in m.nuls : r[1] < m.len
    BY <1>1
  <2>2. \A r \in behind : ~(r[1] < m.len)
    BY <1>1, <1>5
  <2>3. QED
    BY <1>4, <2>1, <2>2
<1>11. BufferOK(new) /\ StartsWith(new, m) /\ new.item = i
  BY <1>4, <1>6, <1>7, <1>8, <1>9, <1>10 DEF BufferOK, StartsWith
<1>12. QED
  BY <1>11 DEF new

LEMMA UsedSlots ==
    ASSUME NEW q \in Seq(Entries)
    PROVE  SlotsUsed(q) = Len(sq) + unacked + Occurrences(q, SendEntries \cup ReadEntries)
<1>1. \A k \in DOMAIN q : q[k] \in Entries
  BY ElementOfSeq
<1>2. {k \in DOMAIN q : q[k].op \in {"send", "read"}} = Places(q, SendEntries \cup ReadEntries)
  BY <1>1 DEF Places, Entries, RecvEntries, SendEntries, ReadEntries
<1>3. QED
  BY <1>2 DEF SlotsUsed, Occurrences

\* What rdma_post_send takes is a part of what it is given, and the rest is lost
\* (libevent-server.c:342-350).
LEMMA PostResult ==
    ASSUME NEW q \in Seq(Entries), NEW es \in Seq({"send", "read"}),
           NEW i \in 1 .. Len(items), Post(q, es, i),
           sq \in Seq(PostedEntries), SlotsUsed(q) \in Nat, SlotsUsed(q) <= MaxSendWr
    PROVE  \E t \in Seq(PostedEntries) :
             /\ sq' = sq \o t
             /\ Len(t) \in 0 .. Len(es) /\ SlotsUsed(q) + Len(t) <= MaxSendWr
             /\ \A k \in 1 .. Len(t) : t[k] = [op |-> es[k], item |-> i]
             /\ lost' = IF Len(t) < Len(es) THEN lost \cup {i} ELSE lost
<1> DEFINE room == MaxSendWr - SlotsUsed(q)
           n == IF Len(es) <= room THEN Len(es) ELSE room
           t == [k \in 1 .. n |-> [op |-> es[k], item |-> i]]
<1>1. Len(es) \in Nat /\ MaxSendWr \in Nat /\ \A k \in 1 .. Len(es) : es[k] \in {"send", "read"}
  BY BlockingAssumption, LenProperties, ElementOfSeq
<1>2. n \in 0 .. Len(es) /\ SlotsUsed(q) + n <= MaxSendWr
  BY <1>1
<1>3. sq' = sq \o t /\ lost' = IF n < Len(es) THEN lost \cup {i} ELSE lost
  BY DEF Post
<1> HIDE DEF n
<1>4. \A k \in 1 .. n : [op |-> es[k], item |-> i] \in PostedEntries
  BY <1>1, <1>2 DEF PostedEntries
<1>5. t \in Seq(PostedEntries) /\ Len(t) = n /\ \A k \in 1 .. n : t[k] = [op |-> es[k], item |-> i]
  BY <1>2, <1>4
<1> HIDE DEF t
<1>6. QED
  BY <1>2, <1>3, <1>5

LEMMA EntryKinds ==
    /\ Entries = RecvEntries \cup (SendEntries \cup ReadEntries)
    /\ \A e \in RecvEntries : e \notin SendEntries \cup ReadEntries
    /\ \A e \in SendEntries \cup ReadEntries : e \notin RecvEntries
    /\ \A e \in RecvEntries :
        e.op = "recv" /\ e.buf \in 1 .. NumBufs /\ e.item \in 1 .. Len(items)
    /\ \A e \in SendEntries : e.op = "send"
    /\ \A e \in ReadEntries : e.op = "read" /\ e.item \in 1 .. Len(items)
    /\ None \notin Entries
BY DEF Entries, RecvEntries, SendEntries, ReadEntries, None

LEMMA ServerInvStep ==
    ASSUME SendType, SendInv, ClientInv, ServerInv, [Next]_vars
    PROVE  ServerInv'
<1> DEFINE L == Len(items)
           R == RecvEntries
           W == SendEntries \cup ReadEntries
           used == Len(sq) + unacked + Occurrences(cq, W)
<1>a. L \in Nat /\ items' = items /\ MaxSendWr \in Nat /\ NumBufs \in Nat
  BY TestKept, ItemsOK, BlockingAssumption DEF ClientInv
<1>b. /\ Entries' = Entries /\ R' = R /\ W' = W /\ PostedEntries' = PostedEntries
  BY <1>a DEF Entries, RecvEntries, SendEntries, ReadEntries, PostedEntries
<1>d. /\ rq \in Seq(1 .. NumBufs)
      /\ DOMAIN mem = 1 .. NumBufs
      /\ \A b \in 1 .. NumBufs : BufferOK(mem[b])
      /\ \A b \in 1 .. NumBufs : mem[b].item # 0 => StartsWith(mem[b], Message(mem[b].item))
      /\ cq \in Seq(Entries)
      /\ current \in R \cup {None} /\ tested \in BOOLEAN
      /\ sq \in Seq(PostedEntries)
      /\ unacked \in Nat
      /\ used <= MaxSendWr
      /\ counted \in Nat /\ counted + Occurrences(cq, R) = arrived
      /\ \A e \in Received : mem[e.buf].item # 0
  BY DEF ServerInv
<1>e. /\ Occurrences(cq, R) \in Nat /\ Occurrences(cq, W) \in Nat
      /\ Len(sq) \in Nat /\ Len(cq) \in Nat
  BY <1>d, PlacesFinite, LenProperties
<1>f. SlotsUsed(cq) = used /\ used \in Nat
  <2>1. cq \in Seq(Entries)
    BY <1>d
  <2>2. SlotsUsed(cq) = used
    BY <2>1, UsedSlots
  <2>3. QED
    BY <1>d, <1>e, <2>2
<1>g. (mem' = mem) => /\ \A b \in 1 .. NumBufs : BufferOK(mem[b])'
                      /\ \A b \in 1 .. NumBufs : mem'[b].item # 0 =>
                            StartsWith(mem[b], Message(mem[b].item))'
  BY <1>a, <1>d DEF BufferOK, StartsWith, Message
<1>h. mem' = mem /\ Received' \subseteq Received => \A e \in Received' : mem'[e.buf].item # 0
  BY <1>d
<1> HIDE DEF L, R, W, used
<1>i. SUFFICES /\ rq' \in Seq(1 .. NumBufs)
               /\ DOMAIN mem' = 1 .. NumBufs
               /\ \A b \in 1 .. NumBufs : BufferOK(mem[b])'
               /\ \A b \in 1 .. NumBufs : mem'[b].item # 0 =>
                    StartsWith(mem[b], Message(mem[b].item))'
               /\ cq' \in Seq(Entries)
               /\ current' \in R \cup {None} /\ tested' \in BOOLEAN
               /\ sq' \in Seq(PostedEntries)
               /\ unacked' \in Nat
               /\ Len(sq') + unacked' + Occurrences(cq', W) <= MaxSendWr
               /\ counted' \in Nat /\ counted' + Occurrences(cq', R) = arrived'
               /\ \A e \in Received' : mem'[e.buf].item # 0
  BY <1>b DEF ServerInv, R, W, Occurrences, Places, None
<1>0. CASE UNCHANGED <<rq, mem, cq, current, tested, sq, unacked, counted, arrived>>
  <2>1. Received' = Received
    BY <1>0, <1>b DEF Received, R
  <2>2. QED
    BY <1>0, <1>d, <1>g, <1>h, <2>1 DEF used
<1>1. CASE ClientNext
  BY <1>0, <1>1, ClientKinds DEF ClientStep, serverVars
<1>2. CASE ArriveTooLong \/ SendDone \/ FlushReceive \/ LinkFails \/ UNCHANGED vars
  BY <1>0, <1>2 DEF ArriveTooLong, SendDone, FlushReceive, LinkFails, vars, serverVars
<1>3. CASE Arrive
  <2> DEFINE b0 == Head(rq)
             i0 == Head(out)
             e0 == [op |-> "recv", buf |-> b0, item |-> i0]
  <2>1. /\ rq # <<>> /\ out # <<>> /\ Message(i0).len <= BufSize
        /\ arrived' = arrived + 1
        /\ mem' = [mem EXCEPT ![b0] = Deposit(mem[b0], Message(i0), i0)]
        /\ rq' = Tail(rq)
        /\ cq' = Append(cq, e0)
        /\ current' = current /\ sq' = sq /\ unacked' = unacked /\ counted' = counted
        /\ tested' = tested
    BY <1>3 DEF Arrive, Completed
  <2>2. b0 \in 1 .. NumBufs /\ rq' \in Seq(1 .. NumBufs)
    BY <1>d, <2>1, QueueHead
  <2>3. i0 \in 1 .. L
    BY <2>1, QueueHead DEF ClientInv, L
  <2>4. e0 \in R /\ e0 \in Entries /\ e0 \notin W /\ e0.buf = b0
    BY <2>2, <2>3, EntryKinds DEF RecvEntries, R, W, L
  <2>5. /\ Occurrences(cq', R) = Occurrences(cq, R) + 1
        /\ Occurrences(cq', W) = Occurrences(cq, W)
        /\ cq' \in Seq(Entries)
    BY <1>d, <1>e, <2>1, <2>4, OccurrencesAppend, QueueAppend
  <2> DEFINE new == Deposit(mem[b0], Message(i0), i0)
  <2>6. BufferOK(new) /\ StartsWith(new, Message(i0)) /\ new.item = i0
    <3>1. BufferOK(mem[b0])
      BY <1>d, <2>2
    <3>2. MessageOK(Message(i0)) /\ i0 \in 0 .. Len(items)
      BY <2>3, ItemsOK DEF ClientInv, L
    <3>3. QED
      BY <2>1, <3>1, <3>2, DepositStartsBuffer
  <2> HIDE DEF new, b0, i0, e0
  <2>7. /\ DOMAIN mem' = 1 .. NumBufs
        /\ \A b \in 1 .. NumBufs : mem'[b] = IF b = b0 THEN new ELSE mem[b]
    BY <1>d, <2>1, <2>2 DEF new
  <2>8. \A b \in 1 .. NumBufs : BufferOK(mem'[b])
    BY <1>d, <2>6, <2>7
  <2>9. \A b \in 1 .. NumBufs : mem'[b].item # 0 => StartsWith(mem'[b], Message(mem'[b].item))
    BY <1>d, <2>6, <2>7
  <2>10. \A b \in 1 .. NumBufs : BufferOK(mem[b])'
    BY <1>a, <2>8 DEF BufferOK
  <2>11. \A b \in 1 .. NumBufs : mem'[b].item # 0 => StartsWith(mem[b], Message(mem[b].item))'
    BY <1>a, <2>9 DEF StartsWith, Message
  <2>12. \A e \in Received' : mem'[e.buf].item # 0
    <3> SUFFICES ASSUME NEW e \in Received' PROVE mem'[e.buf].item # 0
      OBVIOUS
    <3>1. e \in R /\ e.buf \in 1 .. NumBufs
      BY <1>b, EntryKinds DEF Received, R
    <3>2. e = e0 \/ e \in Received
      BY <1>b, <2>1, <1>d, QueueAppend DEF Received, R
    <3>3. CASE e = e0
      <4>1. mem'[b0].item = i0 /\ i0 # 0
        BY <1>a, <2>2, <2>3, <2>6, <2>7
      <4>2. QED
        BY <2>4, <3>3, <4>1
    <3>4. CASE e \in Received
      <4>1. mem[e.buf].item # 0 /\ i0 # 0
        BY <1>a, <1>d, <2>3, <3>4
      <4>2. QED
        BY <2>6, <2>7, <3>1, <4>1
    <3>5. QED
      BY <3>2, <3>3, <3>4
  <2>13. QED
    BY <1>d, <1>e, <2>1, <2>2, <2>5, <2>7, <2>10, <2>11, <2>12 DEF used
<1>4. CASE ReplyArrives
  <2>1. /\ sq # <<>> /\ sq' = Tail(sq) /\ unacked' = unacked + 1
        /\ UNCHANGED <<rq, mem, cq, current, tested, counted, arrived>>
    BY <1>4 DEF ReplyArrives
  <2>2. sq' \in Seq(PostedEntries) /\ Len(sq') = Len(sq) - 1
    BY <1>d, <2>1, QueueHead
  <2>3. Received' = Received
    BY <2>1, <1>b DEF Received, R
  <2>4. QED
    BY <1>d, <1>e, <1>g, <1>h, <2>1, <2>2, <2>3 DEF used
<1>5. CASE ReplyAcked
  <2> DEFINE e0 == [op |-> "send", buf |-> 0, item |-> 0]
  <2>1. /\ unacked > 0 /\ unacked' = unacked - 1 /\ cq' = Append(cq, e0)
        /\ UNCHANGED <<rq, mem, current, tested, sq, counted, arrived>>
    BY <1>5 DEF ReplyAcked, Completed
  <2>2. e0 \in W /\ e0 \in Entries /\ e0 \notin R
    BY EntryKinds DEF SendEntries, R, W
  <2> HIDE DEF e0
  <2>3. /\ Occurrences(cq', R) = Occurrences(cq, R)
        /\ Occurrences(cq', W) = Occurrences(cq, W) + 1
        /\ cq' \in Seq(Entries)
    BY <1>d, <1>e, <2>1, <2>2, OccurrencesAppend, QueueAppend
  <2>4. Received' \subseteq Received
    BY <1>b, <1>d, <2>1, <2>2, QueueAppend DEF Received, R
  <2>5. unacked' \in Nat /\ Len(sq') + unacked' + Occurrences(cq', W) <= MaxSendWr
    <3>1. sq' = sq /\ unacked' \in Nat /\ unacked = unacked' + 1
      BY <1>d, <2>1
    <3>2. QED
      BY <1>d, <1>e, <2>3, <3>1 DEF used
  <2>6. QED
    BY <1>d, <1>g, <1>h, <2>1, <2>3, <2>4, <2>5
<1>6. CASE ReadDone
  <2> DEFINE e0 == [op |-> "read", buf |-> 0, item |-> Head(sq).item]
  <2>1. \/ sq' = sq /\ cq' = cq
        \/ sq' = Tail(sq) /\ cq' = Append(cq, e0)
    BY <1>6 DEF ReadDone, Completed
  <2>2. sq # <<>> /\ UNCHANGED <<rq, mem, current, tested, unacked, counted, arrived>>
    BY <1>6 DEF ReadDone
  <2>3. CASE sq' = sq /\ cq' = cq
    BY <1>0, <2>2, <2>3
  <2>4. CASE sq' = Tail(sq) /\ cq' = Append(cq, e0)
    <3>1. Head(sq) \in PostedEntries /\ sq' \in Seq(PostedEntries) /\ Len(sq') = Len(sq) - 1
      BY <1>d, <2>2, <2>4, QueueHead
    <3>2. e0 \in W /\ e0 \in Entries /\ e0 \notin R
      BY <3>1, EntryKinds DEF PostedEntries, ReadEntries, R, W
    <3> HIDE DEF e0
    <3>3. /\ Occurrences(cq', R) = Occurrences(cq, R)
          /\ Occurrences(cq', W) = Occurrences(cq, W) + 1
          /\ cq' \in Seq(Entries)
      BY <1>d, <1>e, <2>4, <3>2, OccurrencesAppend, QueueAppend
    <3>4. Received' \subseteq Received
      BY <1>b, <1>d, <2>2, <2>4, <3>2, QueueAppend DEF Received, R
    <3>5. Len(sq') + unacked + Occurrences(cq', W) <= MaxSendWr
      BY <1>d, <1>e, <3>1, <3>3 DEF used
    <3>6. QED
      BY <1>d, <1>g, <1>h, <2>2, <3>1, <3>3, <3>4, <3>5
  <2>5. QED
    BY <2>1, <2>3, <2>4
<1>7. CASE ServerTakes
  <2> DEFINE h == Head(cq)
  <2>1. /\ cq # <<>> /\ cq' = Tail(cq)
        /\ UNCHANGED <<mem, tested, unacked, arrived>>
        /\ current = None
    BY <1>7 DEF ServerTakes
  <2>2. /\ h \in Entries /\ cq' \in Seq(Entries) /\ h = cq[1] /\ 1 \in DOMAIN cq
        /\ \A k \in DOMAIN cq' : k + 1 \in DOMAIN cq /\ cq'[k] = cq[k + 1]
    BY <1>d, <2>1, QueueHead
  <2>3. /\ Occurrences(cq, R) = Occurrences(cq', R) + (IF h \in R THEN 1 ELSE 0)
        /\ Occurrences(cq, W) = Occurrences(cq', W) + (IF h \in W THEN 1 ELSE 0)
        /\ Occurrences(cq', R) \in Nat /\ Occurrences(cq', W) \in Nat
    <3>1. /\ Occurrences(cq, R) = Occurrences(Tail(cq), R) + (IF Head(cq) \in R THEN 1 ELSE 0)
          /\ Occurrences(cq, W) = Occurrences(Tail(cq), W) + (IF Head(cq) \in W THEN 1 ELSE 0)
      BY <1>d, <2>1, OccurrencesTail
    <3>2. Occurrences(cq', R) \in 0 .. Len(cq') /\ Occurrences(cq', W) \in 0 .. Len(cq')
          /\ Len(cq') \in Nat
      BY <2>2, PlacesFinite, LenProperties
    <3>3. QED
      BY <2>1, <3>1, <3>2
  <2>4. h \in R \/ h \in W
    BY <2>2, EntryKinds DEF R, W
  <2>5. current' = h \/ current' = current
    BY <1>7 DEF ServerTakes
  <2>6. Received' \subseteq Received
    BY <1>b, <2>2, <2>5 DEF Received, R
  <2>7. CASE h \in R
    <3>1. h.op = "recv" /\ h.buf \in 1 .. NumBufs /\ h \notin W
      BY <2>7, EntryKinds DEF R, W
    <3>2. /\ counted' = counted + 1 /\ rq' = Append(rq, h.buf) /\ current' = h /\ sq' = sq
      BY <1>7, <3>1 DEF ServerTakes
    <3>3. rq' \in Seq(1 .. NumBufs)
      BY <1>d, <3>1, <3>2, QueueAppend
    <3>4. QED
      BY <1>d, <1>e, <1>g, <1>h, <2>1, <2>2, <2>3, <2>6, <2>7, <3>1, <3>2, <3>3 DEF used
  <2>8. CASE h \in W
    <3>1. h.op \in {"send", "read"} /\ h \notin R
      BY <2>8, EntryKinds DEF R, W
    <3>2. counted' = counted /\ rq' = rq /\ current' = current
      BY <1>7, <3>1 DEF ServerTakes
    <3>a. Len(sq) + unacked + Occurrences(cq', W) \in 0 .. MaxSendWr
      <4> DEFINE n == Len(sq)
                 o == Occurrences(cq, W)
                 left == Occurrences(cq', W)
      <4>1. n \in Nat /\ o \in Nat /\ left \in Nat /\ unacked \in Nat /\ o = left + 1
        BY <1>d, <1>e, <2>3, <2>8
      <4>2. n + unacked + o <= MaxSendWr
        BY <1>d DEF used
      <4>3. MaxSendWr \in Nat
        BY <1>a
      <4> HIDE DEF n, o, left
      <4>4. n + unacked + left \in 0 .. MaxSendWr
        BY <4>1, <4>2, <4>3
      <4>5. QED
        BY <4>4 DEF n, left
    <3>3. sq' \in Seq(PostedEntries) /\ Len(sq') + unacked + Occurrences(cq', W) <= MaxSendWr
      <4>1. CASE h.op = "read"
        <5>1. Post(cq', <<"send">>, h.item)
          BY <1>7, <2>1, <4>1 DEF ServerTakes
        <5>2. h.item \in 1 .. Len(items)
          BY <2>8, <4>1, EntryKinds DEF W
        <5>3. SlotsUsed(cq') = Len(sq) + unacked + Occurrences(cq', W)
          BY <2>2, UsedSlots DEF W
        <5>4. SlotsUsed(cq') \in Nat /\ SlotsUsed(cq') <= MaxSendWr
          BY <1>a, <3>a, <5>3
        <5>5. PICK t \in Seq(PostedEntries) :
                sq' = sq \o t /\ SlotsUsed(cq') + Len(t) <= MaxSendWr
          <6>1. <<"send">> \in Seq({"send", "read"})
            OBVIOUS
          <6>2. QED
            BY <1>d, <2>2, <5>1, <5>2, <5>4, <6>1, PostResult
        <5>6. sq' \in Seq(PostedEntries) /\ Len(sq') = Len(sq) + Len(t) /\ Len(t) \in Nat
          BY <1>d, <5>5
        <5>7. QED
          BY <1>d, <1>e, <2>3, <5>3, <5>5, <5>6
      <4>2. CASE h.op # "read"
        <5>1. sq' = sq
          BY <1>7, <4>2 DEF ServerTakes
        <5>2. QED
          BY <1>a, <1>d, <3>a, <5>1
      <4>3. QED
        BY <4>1, <4>2
    <3>4. QED
      BY <1>d, <1>e, <1>g, <1>h, <2>1, <2>2, <2>3, <2>6, <2>8, <3>1, <3>2, <3>3
  <2>9. QED
    BY <2>4, <2>7, <2>8
<1>8. CASE ServerTestsHead \/ ServerAnswers
  <2>1. /\ current # None /\ current' \in {current, None} /\ tested' \in BOOLEAN
        /\ UNCHANGED <<rq, mem, cq, unacked, counted, arrived>>
    BY <1>8 DEF ServerTestsHead, ServerAnswers
  <2>2. /\ <<>> \in Seq({"send", "read"}) /\ <<"send">> \in Seq({"send", "read"})
        /\ <<"read">> \in Seq({"send", "read"})
    OBVIOUS
  <2>3. \E es \in {<<>>, <<"read">>, <<"send">>} : Post(cq, es, current.item)
    BY <1>8 DEF ServerTestsHead, ServerAnswers
  <2>4. PICK es \in Seq({"send", "read"}) : Post(cq, es, current.item)
    BY <2>2, <2>3
  <2>5. current.item \in 1 .. Len(items)
    BY <1>d, <2>1, EntryKinds DEF R
  <2>6. PICK t \in Seq(PostedEntries) : sq' = sq \o t /\ SlotsUsed(cq) + Len(t) <= MaxSendWr
    BY <1>d, <1>f, <2>4, <2>5, PostResult
  <2>7. sq' \in Seq(PostedEntries) /\ Len(sq') = Len(sq) + Len(t) /\ Len(t) \in Nat
    BY <1>d, <2>6
  <2>8. Received' \subseteq Received
    BY <1>b, <2>1, EntryKinds DEF Received, R, Entries
  <2>9. current' \in R \cup {None}
    BY <1>d, <2>1
  <2>10. QED
    BY <1>d, <1>e, <1>f, <1>g, <1>h, <2>1, <2>6, <2>7, <2>8, <2>9 DEF used
<1>9. QED
  BY <1>1, <1>2, <1>3, <1>4, <1>5, <1>6, <1>7, <1>8 DEF Next, HcaNext, ServerNext

TypeInv == SendType /\ SendInv /\ ClientInv /\ ServerInv

LEMMA TypeInvInit == Init => TypeInv
<1> SUFFICES ASSUME Init PROVE TypeInv
  OBVIOUS
<1>1. SendType /\ SendInv
  BY DEF Init, SendType, SendInv, Pcs
<1>2. test \in Tests
  BY DEF Init
<1>3. Len(items) \in Nat
  BY <1>2, ItemsOK
<1>4. ClientInv
  <2>1. /\ at = 1 /\ pc = "start" /\ out = <<>> /\ landed = 0 /\ recvCq = <<>> /\ posted = 0
        /\ arrived = 0 /\ lost = {} /\ mistaken = FALSE /\ early = FALSE /\ faults = 0
        /\ noRecvCq = FALSE
    BY DEF Init
  <2>2. ClientBufs \in Nat /\ MaxFaults \in Nat
    BY BlockingAssumption
  <2>3. out \in Seq(1 .. Len(items)) /\ recvCq \in Seq(0 .. Len(items)) /\ Len(recvCq) = 0
    BY <2>1
  <2>4. /\ at \in 1 .. Len(items) + 1 /\ arrived <= Len(items)
        /\ landed \in 0 .. arrived /\ faults \in 0 .. MaxFaults
    BY <1>3, <2>1, <2>2
  <2>5. posted \in Nat /\ posted + Len(recvCq) <= ClientBufs
    BY <2>1, <2>2, <2>3
  <2>6. lost \in SUBSET (1 .. Len(items)) /\ mistaken \in BOOLEAN /\ early \in BOOLEAN
    BY <2>1
  <2>7. QED
    BY <1>2, <2>1, <2>3, <2>4, <2>5, <2>6 DEF ClientInv
<1>5. /\ \A b \in 1 .. NumBufs : mem[b] = EmptyBuffer
      /\ DOMAIN mem = 1 .. NumBufs
      /\ rq = [b \in 1 .. NumBufs |-> b]
      /\ cq = <<>> /\ sq = <<>> /\ current = None /\ tested = FALSE /\ unacked = 0 /\ counted = 0 /\ arrived = 0
  BY DEF Init
<1>6. BufferOK(EmptyBuffer) /\ EmptyBuffer.item = 0
  BY <1>3, BlockingAssumption DEF BufferOK, EmptyBuffer
<1>7. rq \in Seq(1 .. NumBufs)
  BY <1>5, BlockingAssumption
<1>8. Received = {}
  BY <1>5, EntryKinds DEF Received, Entries
<1>9. \A S : Occurrences(cq, S) = 0
  BY <1>5, NoneInEmpty
<1>10. ServerInv
  <2>1. /\ cq \in Seq(Entries) /\ sq \in Seq(PostedEntries) /\ Len(sq) = 0
        /\ tested \in BOOLEAN
    <3>1. /\ <<>> \in Seq(Entries) /\ <<>> \in Seq(PostedEntries) /\ Len(<<>>) = 0
      OBVIOUS
    <3>2. cq = <<>> /\ sq = <<>> /\ tested = FALSE
      BY <1>5
    <3>3. QED
      BY <3>1, <3>2
  <2>2. QED
    BY <1>5, <1>6, <1>7, <1>8, <1>9, <2>1, BlockingAssumption DEF ServerInv
<1>11. QED
  BY <1>1, <1>4, <1>10 DEF TypeInv

LEMMA TypeInvStep ==
    ASSUME TypeInv, [Next]_vars
    PROVE  TypeInv'
BY SendStep, ClientInvStep, ServerInvStep DEF TypeInv

LEMMA TypeInvImpliesTypeOK == TypeInv => TypeOK
<1> SUFFICES ASSUME TypeInv PROVE TypeOK
  OBVIOUS
<1> DEFINE L == Len(items)
<1>1. L \in Nat
  BY BlockingAssumption, ItemsOK DEF TypeInv, ClientInv
<1>2. /\ at \in 1 .. L + 1 /\ pc \in Pcs
      /\ out \in Seq(1 .. L) /\ landed \in 0 .. arrived
      /\ sendCq \in Seq({"ok", "bad"})
      /\ recvCq \in Seq(0 .. L)
      /\ link \in {"up", "err"}
      /\ arrived \in 0 .. L
      /\ lost \subseteq 1 .. L
      /\ mistaken \in BOOLEAN /\ early \in BOOLEAN /\ faults \in 0 .. MaxFaults
      /\ tested \in BOOLEAN /\ noRecvCq \in BOOLEAN
  BY DEF TypeInv, SendType, ClientInv, ServerInv
<1>3. posted \in 0 .. ClientBufs
  <2>1. Len(recvCq) \in Nat
    BY <1>2, LenProperties
  <2>2. QED
    BY <2>1, BlockingAssumption DEF TypeInv, ClientInv
<1>4. /\ rq \in Seq(1 .. NumBufs)
      /\ DOMAIN mem = 1 .. NumBufs /\ \A b \in 1 .. NumBufs : BufferOK(mem[b])
  BY DEF TypeInv, ServerInv
<1>5. \A k \in DOMAIN cq : cq[k].op \in {"recv", "send", "read"} /\ cq[k].item \in 0 .. L
  <2>1. \A k \in DOMAIN cq : cq[k] \in Entries
    BY ElementOfSeq DEF TypeInv, ServerInv
  <2>2. QED
    BY <1>1, <2>1 DEF Entries, RecvEntries, SendEntries, ReadEntries
<1>6. current.op \in {"none", "recv"}
  BY DEF TypeInv, ServerInv, RecvEntries, None
<1>7. \A k \in DOMAIN sq : sq[k].op \in {"send", "read"} /\ sq[k].item \in 1 .. L
  <2>1. \A k \in DOMAIN sq : sq[k] \in PostedEntries
    BY ElementOfSeq DEF TypeInv, ServerInv
  <2>2. QED
    BY <2>1 DEF PostedEntries
<1>8. unacked \in 0 .. MaxSendWr /\ counted \in 0 .. L
  <2>1. /\ Len(sq) \in Nat
        /\ Occurrences(cq, SendEntries \cup ReadEntries) \in 0 .. Len(cq)
        /\ Occurrences(cq, RecvEntries) \in 0 .. Len(cq) /\ Len(cq) \in Nat
    BY PlacesFinite, LenProperties DEF TypeInv, ServerInv
  <2>2. /\ unacked \in Nat /\ counted \in Nat
        /\ Len(sq) + unacked + Occurrences(cq, SendEntries \cup ReadEntries) <= MaxSendWr
        /\ counted + Occurrences(cq, RecvEntries) = arrived
    BY DEF TypeInv, ServerInv
  <2>3. QED
    BY <1>1, <1>2, <2>1, <2>2, BlockingAssumption
<1> HIDE DEF L
<1>9. QED
  BY <1>1, <1>2, <1>3, <1>4, <1>5, <1>6, <1>7, <1>8 DEF TypeOK, L

LEMMA TypeInvHolds == SafeSpec => []TypeInv
BY TypeInvInit, TypeInvStep, PTL DEF SafeSpec

\* The types of both ends: neither end's queues grow beyond what they were created
\* with, no buffer is written behind its end, and no message is counted that did not
\* arrive, for every test, any number of buffers and slots and any number of failures
\* (client-rdma.c:193-240, libevent-server.c:323-351).
THEOREM TypeCorrect == SafeSpec => []TypeOK
BY TypeInvHolds, TypeInvImpliesTypeOK, PTL

------------------------------------------------------------------------------
(***************************************************************************)
(* Whether a message is answered                                           *)
(***************************************************************************)
LEMMA MinOfNat ==
    ASSUME NEW S \in SUBSET Nat, S # {}
    PROVE  Min(S) \in S /\ \A y \in S : Min(S) <= y
<1>1. \E x \in S : \A y \in S : x <= y
  BY LeastNat
<1>2. QED
  BY <1>1 DEF Min

\* strstr stops at the first NUL, or where it finds "noreply" (libevent-server.c:342).
LEMMA SearchResult ==
    ASSUME NEW buffer, BufferOK(buffer)
    PROVE  \E word, nul \in Nat :
             /\ word \in buffer.words \cup {buffer.written}
             /\ \A w \in buffer.words : word <= w
             /\ nul \in {r[1] : r \in buffer.nuls} \cup {buffer.written}
             /\ \A r \in buffer.nuls : nul <= r[1]
             /\ word <= buffer.written /\ nul <= buffer.written
             /\ SaysNoreply(buffer) = IF word = nul THEN BOOLEAN ELSE {word < nul}
<1> DEFINE W == buffer.words \cup {buffer.written}
           N == {r[1] : r \in buffer.nuls} \cup {buffer.written}
<1>1. /\ \A w \in buffer.words : w \in 0 .. buffer.written - 1
      /\ \A r \in buffer.nuls : r[2] \in 0 .. buffer.written - 1 /\ r[1] \in 0 .. r[2]
      /\ buffer.written \in Nat
  BY BlockingAssumption DEF BufferOK
<1>2. W \in SUBSET Nat /\ N \in SUBSET Nat /\ W # {} /\ N # {}
  BY <1>1
<1>3. Min(W) \in W /\ \A y \in W : Min(W) <= y
  BY <1>2, MinOfNat
<1>4. Min(N) \in N /\ \A y \in N : Min(N) <= y
  BY <1>2, MinOfNat
<1>5. SaysNoreply(buffer) = IF Min(W) = Min(N) THEN BOOLEAN ELSE {Min(W) < Min(N)}
  BY DEF SaysNoreply
<1>6. Min(W) \in Nat /\ Min(N) \in Nat
  BY <1>2, <1>3, <1>4
<1>7. \A r \in buffer.nuls : r[1] \in N
  OBVIOUS
<1>8. QED
  BY <1>3, <1>4, <1>5, <1>6, <1>7

LEMMA SearchIsBoolean ==
    ASSUME NEW buffer, BufferOK(buffer), NEW noreply \in SaysNoreply(buffer)
    PROVE  noreply \in BOOLEAN
<1>1. PICK word, nul \in Nat :
        SaysNoreply(buffer) = IF word = nul THEN BOOLEAN ELSE {word < nul}
  BY SearchResult
<1>2. (word < nul) = TRUE \/ (word < nul) = FALSE
  OBVIOUS
<1>3. CASE word = nul
  BY <1>1, <1>3
<1>4. CASE word # nul
  <2>1. noreply = (word < nul)
    BY <1>1, <1>4
  <2>2. QED
    BY <1>2, <2>1
<1>5. QED
  BY <1>3, <1>4

\* A message that asks is answered, whatever is behind it in the buffer.
LEMMA AskedIsAnswered ==
    ASSUME NEW buffer, BufferOK(buffer), NEW m, MessageOK(m), StartsWith(buffer, m), Asks(m)
    PROVE  SaysNoreply(buffer) = {FALSE}
<1>1. PICK word, nul \in Nat :
        /\ word \in buffer.words \cup {buffer.written}
        /\ \A r \in buffer.nuls : nul <= r[1]
        /\ SaysNoreply(buffer) = IF word = nul THEN BOOLEAN ELSE {word < nul}
  BY SearchResult
<1>2. PICK r \in m.nuls : \A w \in m.words : r[1] < w
  BY DEF Asks
<1>3. /\ m.len \in Nat /\ r[2] \in 0 .. m.len - 1 /\ r[1] \in 0 .. r[2]
      /\ buffer.written \in Nat /\ m.len <= buffer.written
      /\ m.words = {w \in buffer.words : w < m.len}
      /\ r \in buffer.nuls
  BY <1>2, BlockingAssumption DEF MessageOK, StartsWith, BufferOK
<1>4. nul <= r[1]
  BY <1>1, <1>3
<1>5. r[1] < word
  <2>1. CASE word \in m.words
    BY <1>2, <2>1
  <2>2. CASE word \notin m.words
    BY <1>1, <1>3, <2>2
  <2>3. QED
    BY <2>1, <2>2
<1>6. word # nul /\ (word < nul) = FALSE
  BY <1>1, <1>3, <1>4, <1>5
<1>7. QED
  BY <1>1, <1>6

\* A message that declines is not.
LEMMA DeclinedIsNot ==
    ASSUME NEW buffer, BufferOK(buffer), NEW m, MessageOK(m), StartsWith(buffer, m), Declines(m)
    PROVE  SaysNoreply(buffer) = {TRUE}
<1>1. PICK word, nul \in Nat :
        /\ \A w \in buffer.words : word <= w
        /\ nul \in {r[1] : r \in buffer.nuls} \cup {buffer.written}
        /\ SaysNoreply(buffer) = IF word = nul THEN BOOLEAN ELSE {word < nul}
  BY SearchResult
<1>2. PICK w \in m.words : \A r \in m.nuls : w < r[1]
  BY DEF Declines
<1>3. /\ m.len \in Nat /\ w \in 0 .. m.len - 1
      /\ buffer.written \in Nat /\ m.len <= buffer.written
      /\ m.nuls = {r \in buffer.nuls : r[1] < m.len}
      /\ w \in buffer.words
  BY <1>2, BlockingAssumption DEF MessageOK, StartsWith, BufferOK
<1>4. word <= w
  BY <1>1, <1>3
<1>5. w < nul
  <2>1. CASE nul = buffer.written
    BY <1>3, <2>1
  <2>2. CASE nul # buffer.written
    <3>1. PICK r \in buffer.nuls : nul = r[1]
      BY <1>1, <2>2
    <3>2. CASE r \in m.nuls
      BY <1>2, <3>1, <3>2
    <3>3. CASE r \notin m.nuls
      BY <1>1, <1>3, <3>1, <3>3
    <3>4. QED
      BY <3>2, <3>3
  <2>3. QED
    BY <2>1, <2>2
<1>6. word # nul /\ (word < nul) = TRUE
  BY <1>1, <1>3, <1>4, <1>5
<1>7. QED
  BY <1>1, <1>6
------------------------------------------------------------------------------
(***************************************************************************)
(* The steps of the adapters and the server while the connection is up, by *)
(* what they do to messages and replies                                    *)
(***************************************************************************)
notClient == <<clientVars, lost, early>>

\* A send completes, on one side or the other.
Still ==
    /\ UNCHANGED <<notClient, out, recvCq, mem, sq, current, arrived, counted, mistaken>>
    /\ \/ cq' = cq
       \/ \E e \in SendEntries : cq' = Append(cq, e)
       \/ cq # <<>> /\ Head(cq) \in SendEntries /\ cq' = Tail(cq)

MessageArrives ==
    /\ out # <<>> /\ out' = Tail(out)
    /\ arrived' = arrived + 1
    /\ \E b \in 1 .. NumBufs :
        /\ mem'[b].item = Head(out)
        /\ \A c \in 1 .. NumBufs : c # b => mem'[c] = mem[c]
        /\ cq' = Append(cq, [op |-> "recv", buf |-> b, item |-> Head(out)])
    /\ UNCHANGED <<notClient, recvCq, sq, current, counted, mistaken>>

Replies ==
    /\ sq # <<>> /\ Head(sq).op = "send" /\ sq' = Tail(sq)
    /\ recvCq' = Append(recvCq, Head(sq).item)
    /\ UNCHANGED <<notClient, out, mem, cq, current, arrived, counted, mistaken>>

Reads ==
    /\ sq # <<>> /\ Head(sq).op = "read" /\ sq' = Tail(sq)
    /\ cq' = Append(cq, [op |-> "read", buf |-> 0, item |-> Head(sq).item])
    /\ UNCHANGED <<notClient, out, recvCq, mem, current, arrived, counted, mistaken>>

TakesMessage ==
    /\ cq # <<>> /\ Head(cq) \in RecvEntries /\ cq' = Tail(cq)
    /\ current = None /\ current' = Head(cq)
    /\ counted' = counted + 1
    /\ UNCHANGED <<notClient, out, recvCq, mem, sq, arrived, mistaken>>

\* A part of ops is posted, all for the item i.
PostsPart(ops, i) ==
    /\ \E t \in Seq(PostedEntries) :
        /\ sq' = sq \o t
        /\ Len(t) <= Len(ops)
        /\ \A k \in 1 .. Len(t) : t[k] = [op |-> ops[k], item |-> i]
        /\ Len(t) = Len(ops) \/ i \in lost'
    /\ lost \subseteq lost'

TakesRead ==
    /\ cq # <<>> /\ Head(cq) \in ReadEntries /\ cq' = Tail(cq)
    /\ PostsPart(<<"send">>, Head(cq).item)
    /\ UNCHANGED <<clientVars, early, out, recvCq, mem, current, arrived, counted, mistaken>>

TestsHead ==
    /\ current \in RecvEntries /\ current' = current
    /\ \E ops \in Seq({"send", "read"}) :
        /\ ~Message(mem[current.buf].item).head => ops = <<>>
        /\ PostsPart(ops, current.item)
    /\ ~mistaken' => ~mistaken /\ mem[current.buf].item = current.item
    /\ UNCHANGED <<clientVars, early, out, recvCq, mem, cq, arrived, counted>>

Answers ==
    /\ current \in RecvEntries /\ current' = None
    /\ \E noreply \in SaysNoreply(mem[current.buf]) :
        PostsPart(IF noreply THEN <<>> ELSE <<"send">>, current.item)
    /\ ~mistaken' => ~mistaken /\ mem[current.buf].item = current.item
    /\ UNCHANGED <<clientVars, early, out, recvCq, mem, cq, arrived, counted>>

UpStep ==
    \/ ClientStep \/ Still \/ MessageArrives \/ Replies \/ Reads \/ TakesMessage
    \/ TakesRead \/ TestsHead \/ Answers

\* While the connection stays up, each step is one of these (libevent-server.c:323-351).
LEMMA UpKinds ==
    ASSUME TypeInv, [Next]_vars, link' = "up"
    PROVE  link = "up" /\ (faults' = faults \/ ClientStep) /\ UpStep
<1>a. /\ SendType /\ SendInv /\ test \in Tests /\ cq \in Seq(Entries)
      /\ sq \in Seq(PostedEntries) /\ rq \in Seq(1 .. NumBufs) /\ DOMAIN mem = 1 .. NumBufs
      /\ current \in RecvEntries \cup {None} /\ mistaken \in BOOLEAN
  BY DEF TypeInv, ClientInv, ServerInv
<1>0. SlotsUsed(cq) \in Nat /\ SlotsUsed(cq) <= MaxSendWr
  <2>1. SlotsUsed(cq) = Len(sq) + unacked + Occurrences(cq, SendEntries \cup ReadEntries)
    BY <1>a, UsedSlots
  <2>2. Occurrences(cq, SendEntries \cup ReadEntries) \in Nat /\ Len(sq) \in Nat
    BY <1>a, PlacesFinite, LenProperties
  <2>3. unacked \in Nat
        /\ Len(sq) + unacked + Occurrences(cq, SendEntries \cup ReadEntries) <= MaxSendWr
    BY DEF TypeInv, ServerInv
  <2>4. QED
    BY <2>1, <2>2, <2>3
<1>1. CASE ClientNext
  BY <1>1, <1>a, ClientKinds DEF ClientStep, UpStep
<1>2. CASE SendDone \/ UNCHANGED vars
  <2>1. CASE SendDone
    <3>1. out' = out
      BY <2>1 DEF SendDone
    <3>2. QED
      BY <2>1, <3>1 DEF SendDone, UpStep, Still, notClient, clientVars, serverVars
  <2>2. CASE UNCHANGED vars
    BY <2>2 DEF vars, UpStep, Still, notClient, clientCqVars, sends, serverVars
  <2>3. QED
    BY <1>2, <2>1, <2>2
<1>3. CASE ReplyAcked
  <2>1. [op |-> "send", buf |-> 0, item |-> 0] \in SendEntries
    BY DEF SendEntries
  <2>2. QED
    BY <1>3, <2>1 DEF ReplyAcked, Completed, UpStep, Still, notClient, clientVars, clientCqVars, sends
<1>4. CASE ArriveTooLong \/ LinkFails \/ FlushReceive
  BY <1>4 DEF ArriveTooLong, LinkFails, FlushReceive
<1>5. CASE Arrive
  <2>1. Head(rq) \in 1 .. NumBufs
    BY <1>5, <1>a, QueueHead DEF Arrive
  <2>2. mem' = [mem EXCEPT ![Head(rq)] = Deposit(mem[Head(rq)], Message(Head(out)), Head(out))]
    BY <1>5 DEF Arrive
  <2>3. /\ mem'[Head(rq)].item = Head(out)
        /\ \A c \in 1 .. NumBufs : c # Head(rq) => mem'[c] = mem[c]
    BY <1>a, <2>1, <2>2 DEF Deposit
  <2>4. QED
    BY <1>5, <2>1, <2>3 DEF Arrive, Completed, UpStep, MessageArrives, notClient, clientVars
<1>6. CASE ReplyArrives
  BY <1>6 DEF ReplyArrives, UpStep, Replies, notClient, clientVars, sends
<1>7. CASE ReadDone
  BY <1>7 DEF ReadDone, Completed, UpStep, Reads, notClient, clientVars, clientCqVars, sends
<1>8. CASE ServerTakes
  <2>1. /\ cq # <<>> /\ cq' = Tail(cq) /\ Head(cq) \in Entries /\ Tail(cq) \in Seq(Entries)
        /\ link' = link /\ faults' = faults /\ current = None
    BY <1>8, <1>a, QueueHead DEF ServerTakes
  <2>2. CASE Head(cq) \in RecvEntries
    BY <1>8, <2>1, <2>2, EntryKinds DEF ServerTakes, UpStep, TakesMessage, notClient,
       clientVars, clientCqVars, sends
  <2>3. CASE Head(cq) \in SendEntries
    BY <1>8, <2>1, <2>3, EntryKinds DEF ServerTakes, UpStep, Still, notClient,
       clientVars, clientCqVars, sends
  <2>4. CASE Head(cq) \in ReadEntries
    <3>1. Head(cq).op = "read" /\ Head(cq).item \in 1 .. Len(items)
      BY <2>4, EntryKinds
    <3>2. Post(Tail(cq), <<"send">>, Head(cq).item)
      BY <1>8, <3>1 DEF ServerTakes
    <3>3. SlotsUsed(Tail(cq)) \in Nat /\ SlotsUsed(Tail(cq)) <= MaxSendWr
      <4> DEFINE W == SendEntries \cup ReadEntries
      <4>1. SlotsUsed(Tail(cq)) = Len(sq) + unacked + Occurrences(Tail(cq), W)
            /\ SlotsUsed(cq) = Len(sq) + unacked + Occurrences(cq, W)
        BY <1>a, <2>1, UsedSlots
      <4>2. Occurrences(cq, W) = Occurrences(Tail(cq), W) + 1
        BY <1>a, <2>1, <2>4, OccurrencesTail
      <4>3. Occurrences(Tail(cq), W) \in Nat
        <5>1. Tail(cq) \in Seq(Entries)
          BY <2>1
        <5>2. Occurrences(Tail(cq), W) \in 0 .. Len(Tail(cq))
          BY <5>1, PlacesFinite
        <5>3. QED
          BY <5>1, <5>2
      <4>4. Len(sq) \in Nat /\ unacked \in Nat
        BY <1>a, LenProperties DEF TypeInv, ServerInv
      <4> HIDE DEF W
      <4>5. QED
        BY <1>0, <4>1, <4>2, <4>3, <4>4, BlockingAssumption
    <3>4. PostsPart(<<"send">>, Head(cq).item)
      <4>1. <<"send">> \in Seq({"send", "read"})
        OBVIOUS
      <4>2. PICK t \in Seq(PostedEntries) :
              /\ sq' = sq \o t
              /\ Len(t) \in 0 .. Len(<<"send">>)
              /\ \A k \in 1 .. Len(t) : t[k] = [op |-> <<"send">>[k], item |-> Head(cq).item]
              /\ lost' = IF Len(t) < Len(<<"send">>) THEN lost \cup {Head(cq).item} ELSE lost
        BY <1>a, <2>1, <3>1, <3>2, <3>3, <4>1, PostResult
      <4>3. QED
        BY <4>2 DEF PostsPart
    <3>5. QED
      BY <1>8, <2>1, <2>4, <3>1, <3>4 DEF ServerTakes, UpStep, TakesRead, clientVars,
         clientCqVars, sends
  <2>5. QED
    BY <2>1, <2>2, <2>3, <2>4 DEF Entries
<1>9. CASE ServerTestsHead \/ ServerAnswers
  <2> DEFINE found == mem[current.buf].item
  <2>1. /\ current \in RecvEntries /\ current.buf \in 1 .. NumBufs
        /\ current.item \in 1 .. Len(items)
    BY <1>9, <1>a, EntryKinds DEF ServerTestsHead, ServerAnswers
  <2>2. ~mistaken' => ~mistaken /\ found = current.item
    BY <1>9, <1>a DEF ServerTestsHead, ServerAnswers, LooksIntoBuffer, found
  <2>3. UNCHANGED <<clientVars, early, out, recvCq, mem, cq, arrived, counted, link, faults>>
    BY <1>9 DEF ServerTestsHead, ServerAnswers, clientCqVars, sends
  <2>4. \A ops \in Seq({"send", "read"}) :
            Post(cq, ops, current.item) => PostsPart(ops, current.item)
    <3> SUFFICES ASSUME NEW ops \in Seq({"send", "read"}), Post(cq, ops, current.item)
                 PROVE  PostsPart(ops, current.item)
      OBVIOUS
    <3>1. PICK t \in Seq(PostedEntries) :
            /\ sq' = sq \o t
            /\ Len(t) \in 0 .. Len(ops)
            /\ \A k \in 1 .. Len(t) : t[k] = [op |-> ops[k], item |-> current.item]
            /\ lost' = IF Len(t) < Len(ops) THEN lost \cup {current.item} ELSE lost
      BY <1>0, <1>a, <2>1, PostResult
    <3>2. Len(ops) \in Nat
      BY LenProperties
    <3>3. QED
      BY <3>1, <3>2 DEF PostsPart
  <2>5. /\ <<>> \in Seq({"send", "read"}) /\ <<"send">> \in Seq({"send", "read"})
        /\ <<"read">> \in Seq({"send", "read"})
    OBVIOUS
  <2>6. CASE ServerTestsHead
    <3>1. Post(cq, IF items[found].msg.head THEN <<"read">> ELSE <<>>, current.item)
          /\ current' = current
      BY <2>6 DEF ServerTestsHead, found
    <3>2. TestsHead
      <4>1. CASE items[found].msg.head
        BY <2>1, <2>2, <2>3, <2>4, <2>5, <3>1, <4>1 DEF TestsHead, Message, found
      <4>2. CASE ~items[found].msg.head
        BY <2>1, <2>2, <2>3, <2>4, <2>5, <3>1, <4>2 DEF TestsHead, Message, found
      <4>3. QED
        BY <4>1, <4>2
    <3>3. QED
      BY <2>3, <3>2 DEF UpStep
  <2>7. CASE ServerAnswers
    <3>1. PICK noreply \in SaysNoreply(mem[current.buf]) :
            Post(cq, IF noreply THEN <<>> ELSE <<"send">>, current.item)
      BY <2>7 DEF ServerAnswers
    <3>2. (IF noreply THEN <<>> ELSE <<"send">>) \in Seq({"send", "read"})
      BY <2>5
    <3>3. current' = None
      BY <2>7 DEF ServerAnswers
    <3>4. Answers
      BY <2>1, <2>2, <2>3, <2>4, <3>1, <3>2, <3>3 DEF Answers, found
    <3>5. QED
      BY <2>3, <3>4 DEF UpStep
  <2>8. QED
    BY <1>9, <2>6, <2>7
<1>10. QED
  BY <1>1, <1>2, <1>3, <1>4, <1>5, <1>6, <1>7, <1>8, <1>9 DEF Next, HcaNext, ServerNext

------------------------------------------------------------------------------
(***************************************************************************)
(* The message waited for, or a reply to it, is somewhere                  *)
(***************************************************************************)
\* What is in a queue.
Held(q) == {q[k] : k \in DOMAIN q}

LEMMA HeldAppend ==
    ASSUME NEW X, NEW q \in Seq(X), NEW e \in X
    PROVE  Held(Append(q, e)) = Held(q) \cup {e}
<1>1. /\ DOMAIN Append(q, e) = 1 .. Len(q) + 1 /\ DOMAIN q = 1 .. Len(q) /\ Len(q) \in Nat
      /\ \A k \in 1 .. Len(q) : Append(q, e)[k] = q[k]
      /\ Append(q, e)[Len(q) + 1] = e
  OBVIOUS
<1>2. QED
  BY <1>1 DEF Held

LEMMA HeldTail ==
    ASSUME NEW X, NEW q \in Seq(X), q # <<>>
    PROVE  Held(q) = Held(Tail(q)) \cup {Head(q)}
<1>1. /\ DOMAIN q = 1 .. Len(q) /\ Len(q) \in Nat \ {0} /\ Head(q) = q[1]
      /\ DOMAIN Tail(q) = 1 .. Len(q) - 1
      /\ \A k \in 1 .. Len(q) - 1 : Tail(q)[k] = q[k + 1]
  OBVIOUS
<1>2. \A k \in 2 .. Len(q) : q[k] = Tail(q)[k - 1] /\ k - 1 \in 1 .. Len(q) - 1
  BY <1>1
<1>3. Held(q) = {q[k] : k \in 1 .. Len(q)}
      /\ Held(Tail(q)) = {Tail(q)[k] : k \in 1 .. Len(q) - 1}
  BY <1>1 DEF Held
<1>4. \A k \in 1 .. Len(q) : k = 1 \/ k \in 2 .. Len(q)
  BY <1>1
<1>5. \A k \in 1 .. Len(q) - 1 : k + 1 \in 1 .. Len(q)
  BY <1>1
<1>6. \A x \in Held(q) : x \in Held(Tail(q)) \cup {Head(q)}
  BY <1>1, <1>2, <1>3, <1>4
<1>7. \A x \in Held(Tail(q)) \cup {Head(q)} : x \in Held(q)
  BY <1>1, <1>3, <1>5
<1>8. QED
  BY <1>6, <1>7

LEMMA HeldConcat ==
    ASSUME NEW X, NEW s \in Seq(X), NEW t \in Seq(X)
    PROVE  Held(s \o t) = Held(s) \cup Held(t)
<1>1. /\ DOMAIN s = 1 .. Len(s) /\ DOMAIN t = 1 .. Len(t) /\ Len(s) \in Nat /\ Len(t) \in Nat
      /\ DOMAIN (s \o t) = 1 .. Len(s) + Len(t)
      /\ \A k \in 1 .. Len(s) + Len(t) :
            (s \o t)[k] = IF k <= Len(s) THEN s[k] ELSE t[k - Len(s)]
  OBVIOUS
<1>2. \A k \in 1 .. Len(t) : (s \o t)[k + Len(s)] = t[k] /\ k + Len(s) \in 1 .. Len(s) + Len(t)
  BY <1>1
<1>3. \A k \in 1 .. Len(s) : (s \o t)[k] = s[k] /\ k \in 1 .. Len(s) + Len(t)
  BY <1>1
<1>4. \A k \in 1 .. Len(s) + Len(t) :
        (k \in 1 .. Len(s) /\ (s \o t)[k] = s[k])
        \/ (k - Len(s) \in 1 .. Len(t) /\ (s \o t)[k] = t[k - Len(s)])
  BY <1>1
<1>5. QED
  BY <1>1, <1>2, <1>3, <1>4 DEF Held

LEMMA ReceivedHeld == Received = {e \in RecvEntries : e = current \/ e \in Held(cq)}
BY DEF Received, Held

\* Only an arriving message is received, and only looking at one ends that.
LEMMA ReceivedKept ==
    ASSUME TypeInv, [Next]_vars,
           \/ ClientStep \/ Still \/ Replies \/ Reads \/ TakesMessage \/ TakesRead
           \/ TestsHead
    PROVE  Received' = Received
<1>a. RecvEntries' = RecvEntries
  BY TestKept DEF TypeInv, RecvEntries
<1>b. cq \in Seq(Entries) /\ sq \in Seq(PostedEntries)
  BY DEF TypeInv, ServerInv
<1>c. Received' = {e \in RecvEntries : e = current' \/ e \in Held(cq')}
  BY <1>a DEF Received, Held
<1>1. CASE ClientStep \/ Replies
  BY <1>1, <1>c, ReceivedHeld DEF ClientStep, Replies, serverVars
<1>2. CASE Still
  <2>1. \A e \in SendEntries : e \in Entries /\ e \notin RecvEntries
    BY EntryKinds
  <2>2. cq # <<>> => Held(cq) = Held(Tail(cq)) \cup {Head(cq)}
    BY <1>b, HeldTail
  <2>3. \A e \in SendEntries : Held(Append(cq, e)) = Held(cq) \cup {e}
    BY <1>b, <2>1, HeldAppend
  <2>4. \E e \in SendEntries : Held(cq') \cup {e} = Held(cq) \cup {e}
    <3>1. CASE cq' = cq
      <4>1. [op |-> "send", buf |-> 0, item |-> 0] \in SendEntries
        BY DEF SendEntries
      <4>2. QED
        BY <3>1, <4>1
    <3>2. CASE \E e \in SendEntries : cq' = Append(cq, e)
      BY <2>3, <3>2
    <3>3. CASE cq # <<>> /\ Head(cq) \in SendEntries /\ cq' = Tail(cq)
      BY <2>2, <3>3
    <3>4. QED
      BY <1>2, <3>1, <3>2, <3>3 DEF Still
  <2>5. current' = current
    BY <1>2 DEF Still
  <2>6. QED
    BY <1>c, <2>1, <2>4, <2>5, ReceivedHeld
<1>3. CASE Reads
  <2> DEFINE e == [op |-> "read", buf |-> 0, item |-> Head(sq).item]
  <2>1. Head(sq) \in PostedEntries
    BY <1>3, <1>b, QueueHead DEF Reads
  <2>2. e \in Entries /\ e \notin RecvEntries
    BY <2>1 DEF Entries, RecvEntries, ReadEntries, PostedEntries
  <2>3. cq' = Append(cq, e) /\ current' = current
    BY <1>3 DEF Reads
  <2> HIDE DEF e
  <2>4. Held(cq') = Held(cq) \cup {e}
    BY <1>b, <2>2, <2>3, HeldAppend
  <2>5. QED
    BY <1>3, <1>c, <2>2, <2>3, <2>4, ReceivedHeld
<1>4. CASE TakesMessage \/ TakesRead
  <2>1. cq # <<>> /\ cq' = Tail(cq)
    BY <1>4 DEF TakesMessage, TakesRead
  <2>2. Held(cq) = Held(cq') \cup {Head(cq)}
    BY <1>b, <2>1, HeldTail
  <2>3. \A e \in ReadEntries : e \notin RecvEntries
    BY EntryKinds
  <2>4. \/ Head(cq) \in RecvEntries /\ current = None /\ current' = Head(cq)
        \/ Head(cq) \in ReadEntries /\ current' = current
    BY <1>4 DEF TakesMessage, TakesRead
  <2>5. None \notin RecvEntries
    BY EntryKinds
  <2>6. QED
    BY <1>4, <1>c, <2>2, <2>3, <2>4, <2>5, ReceivedHeld
<1>5. CASE TestsHead
  BY <1>5, <1>c, ReceivedHeld DEF TestsHead
<1>6. QED
  BY <1>1, <1>2, <1>3, <1>4, <1>5

LEMMA ReceivedArrives ==
    ASSUME TypeInv, [Next]_vars, MessageArrives, NEW b \in 1 .. NumBufs,
           cq' = Append(cq, [op |-> "recv", buf |-> b, item |-> Head(out)])
    PROVE  /\ [op |-> "recv", buf |-> b, item |-> Head(out)] \in RecvEntries
           /\ Received' = Received \cup {[op |-> "recv", buf |-> b, item |-> Head(out)]}
<1> DEFINE e == [op |-> "recv", buf |-> b, item |-> Head(out)]
<1>1. Head(out) \in 1 .. Len(items)
  BY QueueHead DEF MessageArrives, TypeInv, ClientInv
<1>2. e \in RecvEntries /\ e \in Entries
  BY <1>1 DEF RecvEntries, Entries
<1>3. cq' = Append(cq, e) /\ current' = current /\ cq \in Seq(Entries)
      /\ RecvEntries' = RecvEntries
  BY TestKept DEF MessageArrives, TypeInv, ServerInv, RecvEntries
<1> HIDE DEF e
<1>4. Held(cq') = Held(cq) \cup {e}
  BY <1>2, <1>3, HeldAppend
<1>5. Received' = {x \in RecvEntries : x = current \/ x \in Held(cq')}
  BY <1>3 DEF Received, Held
<1>6. Received' = Received \cup {e}
  BY <1>2, <1>4, <1>5, ReceivedHeld
<1>7. QED
  BY <1>2, <1>6 DEF e

LEMMA ReceivedAnswered ==
    ASSUME TypeInv, [Next]_vars, Answers
    PROVE  current \in Received /\ Received' \cup {current} = Received
<1>1. current \in RecvEntries /\ current' = None /\ cq' = cq /\ None \notin RecvEntries
  BY EntryKinds DEF Answers, Entries
<1>2. Received' = {x \in RecvEntries : x = current' \/ x \in Held(cq')}
  BY TestKept DEF TypeInv, Received, RecvEntries, Held
<1>3. QED
  BY <1>1, <1>2, ReceivedHeld

\* A message was sent before the client went on to the next one.
WasSent(i) == i <= at /\ (pc \in {"start", "send"} => i < at)

\* The message the client is at is the last one it sent: while it is on its way
\* everything else is in front of it, and no other is put into its buffer.
OrderInv ==
    link = "up" =>
        /\ \A i \in Held(out) : WasSent(i)
        /\ \A e \in Received : WasSent(e.item)
        /\ pc \in {"sending", "receive"} =>
            /\ \A k \in DOMAIN out : out[k] = at => k = Len(out)
            /\ \A e \in Received : e.item = at => out = <<>> /\ mem[e.buf].item = at

\* The message i is on its way, received or asked to be read, or a reply to it is
\* posted, or one of these was dropped.
Remains(i) ==
    \/ i \in lost
    \/ i \in Held(out)
    \/ \E e \in Received : e.item = i
    \/ \E e \in Held(cq) : e.op = "read" /\ e.item = i
    \/ \E e \in Held(sq) : e.item = i

OwnInv ==
    link = "up" =>
        /\ pc = "receive" => Waits(at)
        /\ pc \in {"sending", "receive"} /\ Waits(at) => recvCq # <<>> \/ Remains(at)

LEMMA OrderStep ==
    ASSUME TypeInv, OrderInv, [Next]_vars
    PROVE  OrderInv'
<1> SUFFICES ASSUME link' = "up" PROVE OrderInv'
  BY DEF OrderInv
<1>a. link = "up" /\ UpStep
  BY UpKinds
<1>b. /\ at \in Nat /\ pc \in Pcs /\ out \in Seq(1 .. Len(items)) /\ Len(items) \in Nat
      /\ \A i \in Held(out) : i \in Nat /\ WasSent(i)
      /\ \A e \in Received : e.item \in Nat /\ WasSent(e.item)
      /\ pc # "resend"
  <2>1. \A k \in DOMAIN out : out[k] \in 1 .. Len(items)
    BY ElementOfSeq DEF TypeInv, ClientInv
  <2>2. Len(items) \in Nat
    BY ItemsOK DEF TypeInv, ClientInv
  <2>3. \A e \in Received : e.item \in 1 .. Len(items)
    BY DEF Received, RecvEntries
  <2>4. \A i \in Held(out) : i \in 1 .. Len(items)
    BY <2>1 DEF Held
  <2>5. /\ \A i \in Held(out) : WasSent(i)
        /\ \A e \in Received : WasSent(e.item)
    BY <1>a DEF OrderInv
  <2>6. /\ at \in Nat /\ pc \in Pcs /\ out \in Seq(1 .. Len(items))
        /\ pc # "resend"
    BY <1>a DEF TypeInv, SendType, SendInv, ClientInv
  <2>7. QED
    BY <2>2, <2>3, <2>4, <2>5, <2>6
<1>c. pc \in {"sending", "receive"} =>
        /\ \A k \in DOMAIN out : out[k] = at => k = Len(out)
        /\ \A e \in Received : e.item = at => out = <<>> /\ mem[e.buf].item = at
  BY <1>a DEF OrderInv
<1>1. CASE ClientStep
  <2>1. Received' = Received /\ mem' = mem
    BY <1>1, ReceivedKept DEF ClientStep, serverVars
  <2>2. /\ Held(Append(out, at)) = Held(out) \cup {at}
        /\ Len(Append(out, at)) = Len(out) + 1 /\ Len(out) \in Nat
        /\ \A k \in 1 .. Len(out) : Append(out, at)[k] = out[k] /\ k \in DOMAIN out
        /\ DOMAIN Append(out, at) = 1 .. Len(out) + 1
    <3>1. out \in Seq(Nat)
      BY <1>b
    <3>2. QED
      BY <1>b, <3>1, HeldAppend
  <2>g. ASSUME pc' \in {"send", "done"}, NextItem, out' = out
        PROVE  OrderInv'
    <3>1. at' = at + 1
      BY <2>g DEF NextItem
    <3>2. \A i \in Nat : WasSent(i) => WasSent(i)'
      BY <1>b, <3>1 DEF WasSent
    <3>3. QED
      BY <1>b, <2>1, <2>g, <3>2 DEF OrderInv, Held
  <2>3. CASE Stops
    <3>1. at' = at /\ pc' \in {"done", "crashed"} /\ Held(out') \subseteq Held(out) \cup {at}
      BY <2>2, <2>3 DEF Stops
    <3>2. \A i \in Nat : WasSent(i) \/ i = at => WasSent(i)'
      BY <1>b, <3>1 DEF WasSent
    <3>3. QED
      BY <1>b, <2>1, <3>1, <3>2 DEF OrderInv, Held
  <2>4. CASE Connects
    BY <1>b, <2>1, <2>4 DEF Connects, OrderInv, WasSent, Held, sends
  <2>5. CASE Sends
    <3>1. \A i \in Held(out) \cup {at} : WasSent(i)'
      BY <1>b, <2>5 DEF Sends, WasSent
    <3>2. \A e \in Received : WasSent(e.item)' /\ e.item # at
      BY <1>b, <2>5 DEF Sends, WasSent
    <3>3. \A k \in DOMAIN out' : out'[k] = at => k = Len(out')
      <4>1. \A k \in DOMAIN out : out[k] # at
        BY <1>b, <2>5 DEF Sends, WasSent, Held
      <4>2. \A k \in 1 .. Len(out) + 1 : k \in 1 .. Len(out) \/ k = Len(out) + 1
        BY <2>2
      <4>3. out' = Append(out, at)
        BY <2>5 DEF Sends
      <4>4. QED
        BY <2>2, <4>1, <4>2, <4>3
    <3>4. QED
      BY <2>1, <2>2, <2>5, <3>1, <3>2, <3>3 DEF Sends, OrderInv, WasSent, Held
  <2>6. CASE Resends
    BY <1>a, <2>6 DEF Resends
  <2>7. CASE SendReturns
    <3>1. out' = out /\ pc \in {"send", "sending"}
      BY <1>b, <2>7 DEF SendReturns, sends
    <3>2. CASE at' = at /\ pc' = "receive"
      <4>1. \A i \in Nat : WasSent(i) => WasSent(i)'
        BY <1>b, <3>2 DEF WasSent
      <4>2. pc = "send" => /\ \A i \in Held(out) : i # at
                           /\ \A e \in Received : e.item # at
        BY <1>b DEF WasSent
      <4>3. QED
        BY <1>b, <1>c, <2>1, <3>1, <3>2, <4>1, <4>2 DEF OrderInv, WasSent, Held
    <3>3. CASE pc' \in {"send", "done"} /\ NextItem
      BY <2>g, <3>1, <3>3
    <3>4. QED
      BY <2>7, <3>2, <3>3 DEF SendReturns
  <2>8. CASE Gets
    BY <2>g, <2>8 DEF Gets, sends
  <2>9. CASE GivesUp
    BY <2>g, <2>9 DEF GivesUp, sends
  <2>10. CASE Unanswerable
    <3>1. at' = at /\ out' = out /\ (pc' = pc \/ pc' = "crashed")
      BY <2>10 DEF Unanswerable, sends
    <3>2. \A i \in Nat : WasSent(i) => WasSent(i)'
      BY <1>b, <3>1 DEF WasSent
    <3>3. QED
      BY <1>b, <1>c, <2>1, <3>1, <3>2 DEF OrderInv, Held
  <2>11. QED
    BY <1>1, <2>3, <2>4, <2>5, <2>6, <2>7, <2>8, <2>9, <2>10 DEF ClientStep
<1>2. CASE Still \/ Replies \/ Reads \/ TakesMessage \/ TakesRead
  <2>1. Received' = Received
    BY <1>2, ReceivedKept
  <2>2. UNCHANGED <<at, pc, out, mem>>
    BY <1>2 DEF Still, Replies, Reads, TakesMessage, TakesRead, notClient, clientVars
  <2>3. QED
    BY <1>b, <1>c, <2>1, <2>2 DEF OrderInv, WasSent, Held
<1>3. CASE MessageArrives
  <2>1. /\ out # <<>> /\ out' = Tail(out) /\ at' = at /\ pc' = pc
    BY <1>3 DEF MessageArrives, notClient, clientVars
  <2>2. PICK b \in 1 .. NumBufs :
          /\ mem'[b].item = Head(out)
          /\ cq' = Append(cq, [op |-> "recv", buf |-> b, item |-> Head(out)])
    BY <1>3 DEF MessageArrives
  <2> DEFINE e == [op |-> "recv", buf |-> b, item |-> Head(out)]
  <2>3. Received' = Received \cup {e} /\ e.item = Head(out) /\ e.buf = b
    BY <1>3, <2>2, ReceivedArrives
  <2> HIDE DEF e
  <2>4. /\ Held(out) = Held(out') \cup {Head(out)}
        /\ Head(out) = out[1] /\ 1 \in DOMAIN out /\ Len(out') = Len(out) - 1 /\ Len(out) \in Nat
        /\ \A k \in DOMAIN out' : k + 1 \in DOMAIN out /\ out'[k] = out[k + 1] /\ k \in Nat
        /\ out' \in Seq(1 .. Len(items))
    <3>1. Held(out) = Held(out') \cup {Head(out)}
      BY <1>b, <2>1, HeldTail
    <3>2. /\ Head(out) = out[1] /\ 1 \in DOMAIN out /\ Len(out') = Len(out) - 1 /\ Len(out) \in Nat
          /\ \A k \in DOMAIN out' : k + 1 \in DOMAIN out /\ out'[k] = out[k + 1]
          /\ out' \in Seq(1 .. Len(items))
      BY <1>b, <2>1, QueueHead
    <3>3. \A k \in DOMAIN out' : k \in Nat
      BY <3>2, LenProperties
    <3>4. QED
      BY <3>1, <3>2, <3>3
  <2>5. /\ \A i \in Held(out') : WasSent(i)'
        /\ \A x \in Received' : WasSent(x.item)'
    BY <1>b, <2>1, <2>3, <2>4 DEF WasSent
  <2>6. ASSUME pc \in {"sending", "receive"}
        PROVE  /\ \A k \in DOMAIN out' : out'[k] = at => k = Len(out')
               /\ \A x \in Received' : x.item = at => out' = <<>> /\ mem'[x.buf].item = at
    <3>1. \A k \in DOMAIN out' : out'[k] = at => k = Len(out')
      BY <1>c, <2>4, <2>6
    <3>2. \A x \in Received : x.item # at
      BY <1>c, <2>1, <2>6
    <3>3. Head(out) = at => out' = <<>>
      <4>1. Head(out) = at => Len(out') = 0
        BY <1>c, <2>4, <2>6
      <4>2. QED
        BY <2>4, <4>1, EmptySeq
    <3>4. QED
      BY <2>2, <2>3, <3>1, <3>2, <3>3
  <2>7. QED
    BY <2>1, <2>5, <2>6 DEF OrderInv, Held
<1>4. CASE TestsHead \/ Answers
  <2>1. Received' \subseteq Received
    BY <1>4, ReceivedAnswered, ReceivedKept
  <2>2. UNCHANGED <<at, pc, out, mem>>
    BY <1>4 DEF TestsHead, Answers, clientVars
  <2>3. QED
    BY <1>b, <1>c, <2>1, <2>2 DEF OrderInv, WasSent, Held
<1>5. QED
  BY <1>a, <1>1, <1>2, <1>3, <1>4 DEF UpStep

LEMMA OwnStep ==
    ASSUME \A t \in Tests : AsksWhereItWaits(t),
           TypeInv, OrderInv, OwnInv, [Next]_vars
    PROVE  OwnInv'
<1> SUFFICES ASSUME link' = "up" PROVE OwnInv'
  BY DEF OwnInv
<1>a. link = "up" /\ UpStep
  BY UpKinds
<1>f. pc' = "receive" => Waits(at)'
  <2>1. Waits(at)' <=> Waits(at')
    BY TestKept DEF TypeInv, Waits
  <2>2. CASE ClientStep
    BY <2>1, <2>2 DEF ClientStep, Stops, Connects, Sends, Resends, SendReturns, Gets, GivesUp,
       Unanswerable, OwnInv
  <2>3. CASE ~ClientStep
    BY <1>a, <2>1, <2>3 DEF OwnInv, UpStep, Still, MessageArrives, Replies, Reads,
       TakesMessage, TakesRead, TestsHead, Answers, notClient, clientVars
  <2>4. QED
    BY <2>2, <2>3
<1> SUFFICES ASSUME pc' \in {"sending", "receive"}, Waits(at'), recvCq' = <<>>
             PROVE  Remains(at)' /\ at' = at
  BY <1>f, TestKept DEF OwnInv, Waits, TypeInv
<1>b. /\ cq \in Seq(Entries) /\ sq \in Seq(PostedEntries) /\ out \in Seq(1 .. Len(items))
      /\ recvCq \in Seq(0 .. Len(items))
      /\ ReadEntries' = ReadEntries
  BY TestKept DEF TypeInv, ClientInv, ServerInv, ReadEntries
<1>c. /\ pc \in {"sending", "receive"} /\ Waits(at) /\ recvCq = <<>> => Remains(at)
      /\ pc # "resend"
  BY <1>a DEF OwnInv, TypeInv, SendInv
<1>1. CASE ClientStep
  <2>1. Received' = Received /\ UNCHANGED <<cq, sq>>
    BY <1>1, ReceivedKept DEF ClientStep, serverVars
  <2>2. CASE Sends
    <3>1. out' = Append(out, at) /\ at' = at /\ at \in 1 .. Len(items)
      BY <2>2 DEF Sends, TypeInv, SendType, ClientInv
    <3>2. at \in Held(out')
      <4> DEFINE S == 1 .. Len(items)
      <4>0. out \in Seq(S) /\ at \in S
        BY <1>b, <3>1
      <4> HIDE DEF S
      <4>1. Held(Append(out, at)) = Held(out) \cup {at}
        BY <4>0, HeldAppend
      <4>2. Held(out') = Held(Append(out, at))
        BY <3>1
      <4>3. QED
        BY <4>1, <4>2
    <3>3. QED
      BY <3>1, <3>2 DEF Remains, Held
  <2>3. CASE SendReturns
    <3>1. at' = at /\ out' = out /\ recvCq' = recvCq /\ pc \in {"send", "sending"}
      BY <1>c, <2>3 DEF SendReturns, sends
    <3>2. lost \subseteq lost' /\ (pc = "send" => at \in lost')
      BY <2>3 DEF SendReturns
    <3>3. QED
      BY <1>c, <2>1, <3>1, <3>2 DEF Remains, Held
  <2>4. CASE Unanswerable
    <3>1. at' = at /\ pc' = pc /\ UNCHANGED <<out, recvCq, lost>>
      BY <2>4 DEF Unanswerable, sends
    <3>2. Remains(at)
      BY <1>c, <3>1
    <3>3. QED
      BY <2>1, <3>1, <3>2 DEF Remains, Held
  <2>5. QED
    BY <1>1, <1>a, <2>2, <2>3, <2>4 DEF ClientStep, Stops, Connects, Resends, Gets,
       GivesUp
<1>d. ASSUME ~ClientStep
      PROVE  at' = at /\ pc' = pc /\ lost \subseteq lost'
  BY <1>a, <1>d DEF UpStep, Still, MessageArrives, Replies, Reads, TakesMessage, TakesRead,
     TestsHead, Answers, notClient, clientVars, PostsPart
<1>e. ASSUME ~ClientStep, recvCq = <<>>
      PROVE  Remains(at) /\ at \in 1 .. Len(items)
  BY <1>c, <1>d, <1>e DEF TypeInv, SendType, ClientInv
<1>2. CASE ~ClientStep /\ (Still \/ TakesMessage)
  <2>1. Received' = Received /\ UNCHANGED <<out, sq, recvCq>>
    BY <1>2, ReceivedKept DEF Still, TakesMessage, notClient, clientVars
  <2>2. Remains(at)
    BY <1>2, <1>e, <2>1
  <2>3. \A e \in Held(cq) : e.op = "read" => e \in Held(cq')
    <3>1. \A e \in RecvEntries \cup SendEntries : e.op # "read"
      BY EntryKinds
    <3>2. \A e \in SendEntries : e \in Entries
      BY EntryKinds
    <3>3. CASE cq' = cq
      BY <3>3
    <3>4. CASE \E e \in SendEntries : cq' = Append(cq, e)
      BY <1>b, <3>2, <3>4, HeldAppend
    <3>5. CASE cq # <<>> /\ Head(cq) \in RecvEntries \cup SendEntries /\ cq' = Tail(cq)
      BY <1>b, <3>1, <3>5, HeldTail
    <3>6. QED
      BY <1>2, <3>3, <3>4, <3>5 DEF Still, TakesMessage
  <2>4. QED
    BY <1>2, <1>d, <2>1, <2>2, <2>3 DEF Remains, Held
<1>3. CASE ~ClientStep /\ MessageArrives
  <2>1. out # <<>> /\ out' = Tail(out) /\ UNCHANGED <<sq, recvCq>>
    BY <1>3 DEF MessageArrives
  <2>2. PICK b \in 1 .. NumBufs :
          cq' = Append(cq, [op |-> "recv", buf |-> b, item |-> Head(out)])
    BY <1>3 DEF MessageArrives
  <2> DEFINE e == [op |-> "recv", buf |-> b, item |-> Head(out)]
  <2>3. Received' = Received \cup {e} /\ e.item = Head(out) /\ e \in Entries
    BY <1>3, <2>2, ReceivedArrives, EntryKinds
  <2> HIDE DEF e
  <2>4. Held(out) = Held(out') \cup {Head(out)} /\ Held(cq') = Held(cq) \cup {e}
    <3>1. Held(out) = Held(out') \cup {Head(out)}
      BY <1>b, <2>1, HeldTail
    <3>2. cq' = Append(cq, e)
      BY <2>2 DEF e
    <3>3. QED
      BY <1>b, <2>3, <3>1, <3>2, HeldAppend
  <2>5. Remains(at)
    BY <1>3, <1>e, <2>1
  <2>6. QED
    BY <1>3, <1>d, <2>1, <2>3, <2>4, <2>5 DEF Remains, Held
<1>4. CASE ~ClientStep /\ Replies
  <2>1. recvCq' = Append(recvCq, Head(sq).item) /\ Head(sq) \in PostedEntries
    BY <1>4, <1>b, QueueHead DEF Replies
  <2>2. Head(sq).item \in 0 .. Len(items)
    BY <2>1, ItemsOK DEF PostedEntries, TypeInv, ClientInv
  <2>3. Len(recvCq') = Len(recvCq) + 1 /\ Len(recvCq) \in Nat
    <3> DEFINE S == 0 .. Len(items)
    <3>1. recvCq \in Seq(S) /\ Head(sq).item \in S
      BY <1>b, <2>2
    <3> HIDE DEF S
    <3>2. Len(Append(recvCq, Head(sq).item)) = Len(recvCq) + 1 /\ Len(recvCq) \in Nat
      BY <3>1, QueueAppend
    <3>3. QED
      BY <2>1, <3>2
  <2>4. QED
    BY <2>3
<1>5. CASE ~ClientStep /\ Reads
  <2> DEFINE e == [op |-> "read", buf |-> 0, item |-> Head(sq).item]
  <2>1. sq # <<>> /\ sq' = Tail(sq) /\ cq' = Append(cq, e) /\ UNCHANGED <<out, recvCq>>
    BY <1>5 DEF Reads
  <2>2. Head(sq) \in PostedEntries /\ Held(sq) = Held(sq') \cup {Head(sq)}
    BY <1>b, <2>1, QueueHead, HeldTail
  <2>3. e \in Entries /\ e.op = "read" /\ e.item = Head(sq).item
    BY <2>2 DEF Entries, ReadEntries, PostedEntries
  <2> HIDE DEF e
  <2>4. Held(cq') = Held(cq) \cup {e}
    BY <1>b, <2>1, <2>3, HeldAppend
  <2>5. Received' = Received
    BY <1>5, ReceivedKept
  <2>6. Remains(at)
    BY <1>5, <1>e, <2>1
  <2>7. QED
    BY <1>5, <1>d, <2>1, <2>2, <2>3, <2>4, <2>5, <2>6 DEF Remains, Held
<1>p. ASSUME NEW ops \in Seq({"send", "read"}), NEW i, PostsPart(ops, i), ops # <<>>
      PROVE  i \in lost' \/ \E e \in Held(sq') : e.item = i
  <2>1. PICK t \in Seq(PostedEntries) :
          /\ sq' = sq \o t
          /\ \A k \in 1 .. Len(t) : t[k] = [op |-> ops[k], item |-> i]
          /\ Len(t) = Len(ops) \/ i \in lost'
    BY <1>p DEF PostsPart
  <2>2. CASE i \notin lost'
    <3>1. Len(t) \in Nat /\ Len(t) > 0
      BY <1>p, <2>1, <2>2, EmptySeq, LenProperties
    <3>2. t[1].item = i /\ t[1] \in Held(t)
      <4>1. 1 \in 1 .. Len(t) /\ DOMAIN t = 1 .. Len(t)
        BY <3>1, LenProperties
      <4>2. t[1] = [op |-> ops[1], item |-> i]
        BY <2>1, <4>1
      <4>3. QED
        BY <4>1, <4>2 DEF Held
    <3>3. Held(sq') = Held(sq) \cup Held(t)
      BY <1>b, <2>1, HeldConcat
    <3>4. QED
      BY <3>2, <3>3
  <2>3. QED
    BY <2>2
<1>q. ASSUME NEW ops, NEW i, PostsPart(ops, i)
      PROVE  Held(sq) \subseteq Held(sq')
  BY <1>b, <1>q, HeldConcat DEF PostsPart
<1>6. CASE ~ClientStep /\ TakesRead
  <2>1. /\ cq # <<>> /\ cq' = Tail(cq) /\ UNCHANGED <<out, recvCq>>
        /\ PostsPart(<<"send">>, Head(cq).item)
    BY <1>6 DEF TakesRead
  <2>2. Held(cq) = Held(cq') \cup {Head(cq)}
    BY <1>b, <2>1, HeldTail
  <2>3. <<"send">> \in Seq({"send", "read"}) /\ <<"send">> # <<>>
    OBVIOUS
  <2>4. Head(cq).item \in lost' \/ \E e \in Held(sq') : e.item = Head(cq).item
    BY <1>p, <2>1, <2>3
  <2>5. Held(sq) \subseteq Held(sq')
    BY <1>q, <2>1
  <2>6. Received' = Received
    BY <1>6, ReceivedKept
  <2>7. Remains(at)
    BY <1>6, <1>e, <2>1
  <2>8. QED
    BY <1>6, <1>d, <2>1, <2>2, <2>4, <2>5, <2>6, <2>7 DEF Remains, Held
<1>7. CASE ~ClientStep /\ Answers
  <2>1. PICK noreply \in SaysNoreply(mem[current.buf]) :
          PostsPart(IF noreply THEN <<>> ELSE <<"send">>, current.item)
    BY <1>7 DEF Answers
  <2>2. UNCHANGED <<out, recvCq, cq>>
    BY <1>7 DEF Answers
  <2>3. current \in Received /\ Received' \cup {current} = Received
    BY <1>7, ReceivedAnswered
  <2>4. Held(sq) \subseteq Held(sq')
    BY <1>q, <2>1
  <2>5. Remains(at) /\ at \in 1 .. Len(items)
    BY <1>7, <1>e, <2>2
  <2>6. CASE current.item = at
    <3>1. current.buf \in 1 .. NumBufs /\ mem[current.buf].item = at
      <4>1. current \in RecvEntries
        BY <2>3 DEF Received
      <4>2. QED
        BY <1>7, <1>a, <1>d, <2>3, <2>6, <4>1, EntryKinds DEF OrderInv
    <3>2. BufferOK(mem[current.buf]) /\ StartsWith(mem[current.buf], Message(at))
      <4>1. at # 0
        BY <2>5
      <4>2. QED
        BY <3>1, <4>1 DEF TypeInv, ServerInv
    <3>3. MessageOK(Message(at)) /\ Asks(Message(at))
      <4>1. Waits(at) /\ test \in Tests /\ at \in DOMAIN items
        BY <1>7, <1>d, <2>5, ItemsOK, TestKept DEF TypeInv, ClientInv, Waits
      <4>2. QED
        BY <2>5, <4>1, ItemsOK DEF AsksWhereItWaits, Waits, Message, items
    <3>4. SaysNoreply(mem[current.buf]) = {FALSE}
      BY <3>2, <3>3, AskedIsAnswered
    <3>5. PostsPart(<<"send">>, at)
      BY <2>1, <2>6, <3>4
    <3>6. at \in lost' \/ \E e \in Held(sq') : e.item = at
      <4>1. <<"send">> \in Seq({"send", "read"}) /\ <<"send">> # <<>>
        OBVIOUS
      <4>2. QED
        BY <1>p, <3>5, <4>1
    <3>7. QED
      BY <1>7, <1>d, <3>6 DEF Remains, Held
  <2>7. CASE current.item # at
    BY <1>7, <1>d, <2>2, <2>3, <2>4, <2>5, <2>7 DEF Remains, Held
  <2>8. QED
    BY <2>6, <2>7
<1>8. CASE ~ClientStep /\ TestsHead
  <2>1. UNCHANGED <<out, recvCq, cq>> /\ Held(sq) \subseteq Held(sq')
    BY <1>8, <1>q DEF TestsHead
  <2>2. Received' = Received
    BY <1>8, ReceivedKept
  <2>3. Remains(at)
    BY <1>8, <1>e, <2>1
  <2>4. QED
    BY <1>8, <1>d, <2>1, <2>2, <2>3 DEF Remains, Held
<1>9. QED
  BY <1>a, <1>1, <1>2, <1>3, <1>4, <1>5, <1>6, <1>7, <1>8 DEF UpStep

\* "send_mr(c->id, get_r_mr); recv_msg(c);": while the connection is up a client spins
\* in recv_msg in vain only if this very message or its reply was dropped, whatever an
\* older message left in the server's buffer: for every test whose messages ask for
\* the replies it waits for, as all do but the ASCII ones of client-rdma.c and test_three's
\* with five bytes or fewer (client-rdma.c:357-358, client-test.c:399-402,
\* libevent-server.c:342).
THEOREM AnsweredIfAsked ==
    ASSUME \A t \in Tests : AsksWhereItWaits(t)
    PROVE  SafeSpec => []WaitsInVainOnlyIfLost
<1> DEFINE Inv == TypeInv /\ OrderInv /\ OwnInv
<1>1. Init => Inv
  <2> SUFFICES ASSUME Init PROVE OrderInv /\ OwnInv
    BY TypeInvInit
  <2>1. Held(out) = {} /\ Received = {} /\ pc = "start"
    BY EntryKinds DEF Init, Held, Received, Entries
  <2>2. QED
    BY <2>1 DEF OrderInv, OwnInv
<1>2. Inv /\ [Next]_vars => Inv'
  BY TypeInvStep, OrderStep, OwnStep
<1>3. Inv => WaitsInVainOnlyIfLost
  <2> SUFFICES ASSUME Inv, pc = "receive", link = "up", at \notin lost
               PROVE  OnItsWay
    BY DEF WaitsInVainOnlyIfLost
  <2>1. Waits(at)
    BY DEF OwnInv
  <2>2. recvCq # <<>> \/ Remains(at)
    BY <2>1 DEF OwnInv
  <2>3. Held(<<>>) = {}
    BY DEF Held
  <2>4. \A e \in Received : current # None \/ \E k \in DOMAIN cq : cq[k].op = "recv"
    BY EntryKinds DEF Received
  <2>5. QED
    BY <2>2, <2>3, <2>4 DEF Remains, OnItsWay, Held
<1>4. QED
  BY <1>1, <1>2, <1>3, PTL DEF SafeSpec

------------------------------------------------------------------------------
(***************************************************************************)
(* No other reply is on its way                                            *)
(***************************************************************************)
ReceivedOf(i) == {e \in RecvEntries : e.item = i}

\* How often the message the client is at is on its way, or a reply.
Copies ==
    Len(recvCq) + Len(sq) + Occurrences(cq, ReceivedOf(at)) + Occurrences(out, {at})
        + (IF current.item = at THEN 1 ELSE 0)

\* All replies are for the message the client is at, and so are the messages from which
\* one may come.
ReplyInv ==
    link = "up" /\ ~Twice /\ ~mistaken /\ ~early =>
        /\ \A i \in Held(recvCq) : i = at
        /\ \A e \in Held(sq) : e.op = "send" /\ e.item = at
        /\ recvCq # <<>> \/ sq # <<>> => Waits(at)
        /\ \A i \in Held(out) : Waits(i) => i = at
        /\ \A e \in Received : Waits(e.item) => e.item = at
        /\ \A e \in Held(cq) : e.op # "read"
        /\ Copies <= IF pc \in {"start", "send"} THEN 0 ELSE 1

LEMMA OccurrencesNatural ==
    ASSUME NEW X, NEW s \in Seq(X), NEW S
    PROVE  Occurrences(s, S) \in Nat
BY PlacesFinite, LenProperties

LEMMA ReplyStep ==
    ASSUME \A t \in Tests : DeclinesOtherwise(t),
           TypeInv, OrderInv, ReplyInv, [Next]_vars
    PROVE  ReplyInv'
<1> DEFINE L == Len(items)
           C == Occurrences(cq, ReceivedOf(at))
           O == Occurrences(out, {at})
           N == IF current.item = at THEN 1 ELSE 0
           max == IF pc \in {"start", "send"} THEN 0 ELSE 1
<1> SUFFICES ASSUME link' = "up", ~Twice', ~mistaken', ~early'
             PROVE  /\ \A i \in Held(recvCq') : i = at'
                    /\ \A e \in Held(sq') : e.op = "send" /\ e.item = at'
                    /\ recvCq' # <<>> \/ sq' # <<>> => Waits(at')
                    /\ \A i \in Held(out') : Waits(i) => i = at'
                    /\ \A e \in Received' : Waits(e.item) => e.item = at'
                    /\ \A e \in Held(cq') : e.op # "read"
                    /\ Len(recvCq') + Len(sq') + Occurrences(cq', ReceivedOf(at'))
                         + Occurrences(out', {at'}) + (IF current'.item = at' THEN 1 ELSE 0)
                         <= IF pc' \in {"start", "send"} THEN 0 ELSE 1
  <2>1. items' = items
    BY TestKept DEF TypeInv
  <2>2. Copies' = Len(recvCq') + Len(sq') + Occurrences(cq', ReceivedOf(at'))
                    + Occurrences(out', {at'}) + (IF current'.item = at' THEN 1 ELSE 0)
    BY <2>1 DEF Copies, Occurrences, Places, ReceivedOf, RecvEntries
  <2>3. QED
    BY <2>1, <2>2 DEF ReplyInv, Held, Waits
<1> HIDE DEF max
<1>a. link = "up" /\ UpStep
  BY UpKinds
<1>b. /\ cq \in Seq(Entries) /\ sq \in Seq(PostedEntries) /\ out \in Seq(1 .. L)
      /\ recvCq \in Seq(0 .. L) /\ at \in 1 .. L + 1 /\ L \in Nat
      /\ current \in RecvEntries \cup {None}
      /\ \A i \in 1 .. L : Waits(i) \in BOOLEAN
  BY ItemsOK DEF TypeInv, ClientInv, ServerInv
<1>c. /\ ~Twice /\ ~mistaken /\ ~early
  <2>1. ~Twice
    BY TestKept DEF TypeInv, Twice
  <2>2. ~mistaken /\ ~early
    BY <1>a DEF UpStep, ClientStep, Stops, Connects, Sends, Resends, SendReturns, Gets,
       GivesUp, Unanswerable, Still, MessageArrives, Replies, Reads, TakesMessage, TakesRead, TestsHead, Answers,
       notClient, serverVars
  <2>3. QED
    BY <2>1, <2>2
<1>d. /\ \A i \in Held(recvCq) : i = at
      /\ \A e \in Held(sq) : e.op = "send" /\ e.item = at
      /\ recvCq # <<>> \/ sq # <<>> => Waits(at)
      /\ \A i \in Held(out) : Waits(i) => i = at
      /\ \A e \in Received : Waits(e.item) => e.item = at
      /\ \A e \in Held(cq) : e.op # "read"
  BY <1>a, <1>c DEF ReplyInv
<1>e. /\ C \in Nat /\ O \in Nat /\ N \in {0, 1} /\ Len(recvCq) \in Nat /\ Len(sq) \in Nat
      /\ max \in {0, 1}
      /\ Len(recvCq) + Len(sq) + C + O + N <= max
  <2>1. C \in Nat /\ O \in Nat /\ Len(recvCq) \in Nat /\ Len(sq) \in Nat
    <3>1. C \in 0 .. Len(cq) /\ Len(cq) \in Nat
      BY <1>b, PlacesFinite
    <3>2. O \in 0 .. Len(out) /\ Len(out) \in Nat
      <4>1. out \in Seq(Nat)
        BY <1>b
      <4>2. QED
        BY <4>1, PlacesFinite
    <3>3. QED
      BY <1>b, <3>1, <3>2, LenProperties
  <2>2. Copies <= max
    BY <1>a, <1>c DEF ReplyInv, max
  <2>3. QED
    BY <2>1, <2>2 DEF Copies, max
<1>f. /\ \A i \in Held(out) : i \in 1 .. L /\ i <= at
      /\ \A e \in Received : e.item \in 1 .. L /\ e.item <= at
      /\ current \in RecvEntries => current \in Received
  <2>1. \A i \in Held(out) : i \in 1 .. L
    BY <1>b, ElementOfSeq DEF Held
  <2>2. \A e \in Received : e.item \in 1 .. L
    BY EntryKinds DEF Received
  <2>3. QED
    BY <1>a, <2>1, <2>2, ReceivedHeld DEF OrderInv, WasSent
<1>g. \A e \in SendEntries \cup ReadEntries : e \in Entries /\ e \notin ReceivedOf(at)
  BY EntryKinds DEF ReceivedOf
<1> HIDE DEF L, C, O, N
<1>n. ASSUME at' = at + 1, pc' \in {"send", "done"}, UNCHANGED <<out, sq, cq, current>>,
             Received' = Received, recvCq' = <<>>, sq = <<>>,
             \A i \in Held(out) : ~Waits(i), \A e \in Received : ~Waits(e.item)
      PROVE  /\ \A i \in Held(recvCq') : i = at'
             /\ \A e \in Held(sq') : e.op = "send" /\ e.item = at'
             /\ recvCq' # <<>> \/ sq' # <<>> => Waits(at')
             /\ \A i \in Held(out') : Waits(i) => i = at'
             /\ \A e \in Received' : Waits(e.item) => e.item = at'
             /\ \A e \in Held(cq') : e.op # "read"
             /\ Len(recvCq') + Len(sq') + Occurrences(cq', ReceivedOf(at'))
                  + Occurrences(out', {at'}) + (IF current'.item = at' THEN 1 ELSE 0) = 0
  <2>1. Held(<<>>) = {} /\ Len(<<>>) = 0
    BY DEF Held
  <2>2. Occurrences(cq, ReceivedOf(at + 1)) = 0
    <3>1. \A k \in DOMAIN cq : cq[k] \notin ReceivedOf(at + 1)
      <4>1. \A k \in DOMAIN cq : cq[k] \in RecvEntries => cq[k] \in Received
        BY DEF Received
      <4>2. \A e \in Received : e.item # at + 1
        BY <1>b, <1>f
      <4>3. QED
        BY <4>1, <4>2 DEF ReceivedOf
    <3>2. QED
      BY <1>b, <3>1, OccurrencesPositive
  <2>3. Occurrences(out, {at + 1}) = 0
    <3>1. \A k \in DOMAIN out : out[k] \notin {at + 1}
      <4>1. \A i \in Held(out) : i # at + 1
        BY <1>b, <1>f
      <4>2. QED
        BY <4>1 DEF Held
    <3>2. out \in Seq(Nat)
      BY <1>b
    <3>3. QED
      BY <3>1, <3>2, OccurrencesPositive
  <2>4. current.item # at + 1
    BY <1>b, <1>f DEF None
  <2>5. QED
    BY <1>b, <1>d, <1>n, <2>1, <2>2, <2>3, <2>4
<1>s. /\ \A i \in Held(recvCq) : i = at
      /\ \A e \in Held(sq) : e \in PostedEntries
      /\ Len(recvCq) = 0 <=> recvCq = <<>>
      /\ Len(sq) = 0 <=> sq = <<>>
  <2>1. \A e \in Held(sq) : e \in PostedEntries
    BY <1>b, ElementOfSeq DEF Held
  <2>2. Len(recvCq) = 0 <=> recvCq = <<>>
    BY <1>b, EmptySeq
  <2>3. Len(sq) = 0 <=> sq = <<>>
    BY <1>b, EmptySeq
  <2>4. QED
    BY <1>d, <2>1, <2>2, <2>3
<1>1. CASE ClientStep
  <2>1. Received' = Received /\ UNCHANGED <<cq, sq, current>>
    BY <1>1, ReceivedKept DEF ClientStep, serverVars
  <2>2. CASE Stops \/ Connects \/ Sends
    <3>1. /\ pc \in {"start", "send"} /\ at' = at /\ recvCq' = recvCq
          /\ out' = out \/ (out' = Append(out, at) /\ pc' \notin {"start", "send"})
      BY <2>2 DEF Stops, Connects, Sends, sends
    <3>2. max = 0 /\ Len(recvCq) + Len(sq) + C + O + N = 0
      BY <1>e, <3>1 DEF max
    <3>3. /\ Held(Append(out, at)) = Held(out) \cup {at}
          /\ Occurrences(Append(out, at), {at}) = O + 1
      <4>1. out \in Seq(Nat) /\ at \in Nat
        BY <1>b
      <4>2. QED
        BY <4>1, HeldAppend, OccurrencesAppend DEF O
    <3>4. /\ \A i \in Held(out') : Waits(i) => i = at'
          /\ Occurrences(out', {at'}) <= IF pc' \in {"start", "send"} THEN 0 ELSE 1
      <4>1. CASE out' = out
        BY <1>d, <1>e, <3>1, <3>2, <4>1 DEF O
      <4>2. CASE out' = Append(out, at) /\ pc' \notin {"start", "send"}
        <5>1. O = 0
          BY <1>e, <3>2
        <5>2. QED
          BY <1>d, <3>1, <3>3, <4>2, <5>1
      <4>3. QED
        BY <3>1, <4>1, <4>2
    <3>5. Occurrences(out', {at'}) \in Nat
      <4>1. CASE out' = out
        BY <1>e, <3>1, <4>1 DEF O
      <4>2. CASE out' = Append(out, at)
        BY <1>e, <3>1, <3>3, <4>2
      <4>3. QED
        BY <3>1, <4>1, <4>2
    <3>6. Len(recvCq') = 0 /\ Len(sq') = 0 /\ Occurrences(cq', ReceivedOf(at')) = 0
          /\ current'.item # at'
      BY <1>e, <2>1, <3>1, <3>2 DEF C, N
    <3>7. Len(recvCq') + Len(sq') + Occurrences(cq', ReceivedOf(at'))
            + Occurrences(out', {at'}) + (IF current'.item = at' THEN 1 ELSE 0)
            <= IF pc' \in {"start", "send"} THEN 0 ELSE 1
      BY <3>4, <3>5, <3>6
    <3>8. QED
      BY <1>d, <2>1, <3>1, <3>4, <3>7
  <2>3. CASE Resends
    BY <1>a, <2>3 DEF Resends
  <2>4. CASE SendReturns
    <3>1. UNCHANGED <<out, recvCq>>
      BY <2>4 DEF SendReturns, sends
    <3>2. CASE at' = at /\ pc' = "receive"
      <4>1. Len(recvCq) + Len(sq) + C + O + N <= 1
        BY <1>e
      <4>2. QED
        BY <1>d, <2>1, <3>1, <3>2, <4>1 DEF C, O, N
    <3>3. CASE ~Waits(at) /\ pc' \in {"send", "done"} /\ NextItem
      <4>1. at' = at + 1 /\ recvCq' = <<>> /\ sq = <<>>
        BY <1>d, <3>1, <3>3 DEF NextItem
      <4>2. (\A i \in Held(out) : ~Waits(i)) /\ (\A e \in Received : ~Waits(e.item))
        BY <1>d, <3>3
      <4>3. QED
        BY <1>n, <2>1, <3>1, <3>3, <4>1, <4>2
    <3>4. QED
      BY <2>4, <3>2, <3>3 DEF SendReturns
  <2>5. CASE Gets
    <3>1. /\ at' = at + 1 /\ pc' \in {"send", "done"} /\ recvCq # <<>>
          /\ recvCq' = Tail(recvCq) /\ out' = out
      BY <2>5 DEF Gets, NextItem, sends
    <3>2. Len(recvCq) = 1 /\ Len(sq) = 0 /\ C = 0 /\ O = 0 /\ N = 0
      <4>1. Len(recvCq) # 0
        BY <1>s, <3>1
      <4>2. QED
        BY <1>e, <4>1
    <3>3. recvCq' = <<>>
      <4>1. Tail(recvCq) \in Seq(0 .. L) /\ Len(Tail(recvCq)) = 0
        BY <1>b, <3>1, <3>2, QueueHead
      <4>2. QED
        BY <3>1, <4>1, EmptySeq
    <3>4. \A i \in Held(out) : ~Waits(i)
      <4>1. out \in Seq(Nat)
        BY <1>b
      <4>2. \A k \in DOMAIN out : out[k] \notin {at}
        BY <3>2, <4>1, OccurrencesPositive DEF O
      <4>3. QED
        BY <1>d, <4>2 DEF Held
    <3>5. \A e \in Received : ~Waits(e.item)
      <4>1. \A k \in DOMAIN cq : cq[k] \notin ReceivedOf(at)
        BY <1>b, <3>2, OccurrencesPositive DEF C
      <4>2. \A e \in Held(cq) : e \in RecvEntries => e.item # at
        BY <4>1 DEF Held, ReceivedOf
      <4>3. current.item # at
        BY <3>2 DEF N
      <4>4. QED
        BY <1>d, <4>2, <4>3, ReceivedHeld
    <3>6. QED
      BY <1>n, <1>s, <2>1, <3>1, <3>2, <3>3, <3>4, <3>5
  <2>6. CASE GivesUp
    BY <2>6 DEF GivesUp
  <2>7. CASE Unanswerable
    <3>1. /\ at' = at /\ UNCHANGED <<out, recvCq>>
          /\ max <= IF pc' \in {"start", "send"} THEN 0 ELSE 1
      BY <2>7 DEF Unanswerable, sends, max
    <3>2. Len(recvCq') + Len(sq') + Occurrences(cq', ReceivedOf(at'))
            + Occurrences(out', {at'}) + (IF current'.item = at' THEN 1 ELSE 0) <= max
      BY <1>e, <2>1, <3>1 DEF C, O, N
    <3>3. Len(recvCq') + Len(sq') + Occurrences(cq', ReceivedOf(at'))
            + Occurrences(out', {at'}) + (IF current'.item = at' THEN 1 ELSE 0)
            <= IF pc' \in {"start", "send"} THEN 0 ELSE 1
      <4>1. Len(recvCq) + Len(sq) + C + O + N <= IF pc' \in {"start", "send"} THEN 0 ELSE 1
        <5>1. CASE pc' \in {"start", "send"}
          BY <1>e, <3>1, <5>1
        <5>2. CASE ~(pc' \in {"start", "send"})
          BY <1>e, <3>1, <5>2
        <5>3. QED
          BY <5>1, <5>2
      <4>2. QED
        BY <2>1, <3>1, <4>1 DEF C, O, N
    <3>4. QED
      BY <1>d, <2>1, <3>1, <3>3
  <2>8. QED
    BY <1>1, <2>2, <2>3, <2>4, <2>5, <2>6, <2>7 DEF ClientStep
<1>k. ASSUME ~ClientStep
      PROVE  at' = at /\ pc' = pc
  BY <1>a, <1>k DEF UpStep, Still, MessageArrives, Replies, Reads, TakesMessage, TakesRead,
     TestsHead, Answers, notClient, clientVars
<1>2. SUFFICES ASSUME ~ClientStep
               PROVE  /\ \A i \in Held(recvCq') : i = at
                      /\ \A e \in Held(sq') : e.op = "send" /\ e.item = at
                      /\ recvCq' # <<>> \/ sq' # <<>> => Waits(at)
                      /\ \A i \in Held(out') : Waits(i) => i = at
                      /\ \A e \in Received' : Waits(e.item) => e.item = at
                      /\ \A e \in Held(cq') : e.op # "read"
                      /\ Len(recvCq') + Len(sq') + Occurrences(cq', ReceivedOf(at))
                           + Occurrences(out', {at}) + (IF current'.item = at THEN 1 ELSE 0)
                           <= max
  BY <1>1, <1>k DEF max
<1>3. CASE Still
  <2>1. Received' = Received /\ UNCHANGED <<out, recvCq, sq, current>>
    BY <1>2, <1>3, ReceivedKept DEF Still, notClient
  <2>2. \A e \in SendEntries : e \in Entries /\ e \notin ReceivedOf(at) /\ e.op # "read"
    BY <1>g, EntryKinds
  <2>3. (\A e \in Held(cq') : e.op # "read") /\ Occurrences(cq', ReceivedOf(at)) = C
    <3>1. CASE cq' = cq
      BY <1>d, <3>1 DEF C
    <3>2. CASE \E e \in SendEntries : cq' = Append(cq, e)
      <4>1. PICK e \in SendEntries : cq' = Append(cq, e)
        BY <3>2
      <4>2. Held(cq') = Held(cq) \cup {e}
        BY <1>b, <2>2, <4>1, HeldAppend
      <4>3. Occurrences(cq', ReceivedOf(at)) = C + 0
        BY <1>b, <2>2, <4>1, OccurrencesAppend DEF C
      <4>4. QED
        BY <1>d, <1>e, <2>2, <4>2, <4>3
    <3>3. CASE cq # <<>> /\ Head(cq) \in SendEntries /\ cq' = Tail(cq)
      <4>1. Held(cq) = Held(cq') \cup {Head(cq)}
        BY <1>b, <3>3, HeldTail
      <4>2. C = Occurrences(cq', ReceivedOf(at)) + 0
        BY <1>b, <2>2, <3>3, OccurrencesTail DEF C
      <4>3. Tail(cq) \in Seq(Entries)
        BY <1>b, <3>3, QueueHead
      <4>4. Occurrences(cq', ReceivedOf(at)) \in Nat
        BY <3>3, <4>3, OccurrencesNatural
      <4>5. QED
        BY <1>d, <4>1, <4>2, <4>4
    <3>4. QED
      BY <1>3, <3>1, <3>2, <3>3 DEF Still
  <2>4. QED
    BY <1>d, <1>e, <2>1, <2>3 DEF O, N
<1>4. CASE MessageArrives
  <2>1. /\ out # <<>> /\ out' = Tail(out) /\ UNCHANGED <<recvCq, sq, current>>
    BY <1>4 DEF MessageArrives
  <2>2. PICK b \in 1 .. NumBufs :
          cq' = Append(cq, [op |-> "recv", buf |-> b, item |-> Head(out)])
    BY <1>4 DEF MessageArrives
  <2> DEFINE e == [op |-> "recv", buf |-> b, item |-> Head(out)]
  <2>3. Received' = Received \cup {e} /\ e.item = Head(out) /\ e \in Entries /\ e.op = "recv"
        /\ e \in RecvEntries
    BY <1>4, <2>2, ReceivedArrives, EntryKinds
  <2>4. cq' = Append(cq, e)
    BY <2>2
  <2> HIDE DEF e
  <2>5. Held(cq') = Held(cq) \cup {e}
    BY <1>b, <2>3, <2>4, HeldAppend
  <2>6. Held(out) = Held(out') \cup {Head(out)}
    BY <1>b, <2>1, HeldTail
  <2>7. Occurrences(cq', ReceivedOf(at)) = C + IF Head(out) = at THEN 1 ELSE 0
    <3>1. e \in ReceivedOf(at) <=> Head(out) = at
      BY <2>3 DEF ReceivedOf
    <3>2. QED
      BY <1>b, <2>3, <2>4, <3>1, OccurrencesAppend DEF C
  <2>8. O = Occurrences(out', {at}) + (IF Head(out) = at THEN 1 ELSE 0)
        /\ Occurrences(out', {at}) \in Nat
    <3>1. out \in Seq(Nat) /\ Tail(out) \in Seq(Nat)
      <4>1. out \in Seq(Nat)
        BY <1>b
      <4>2. QED
        BY <2>1, <4>1, QueueHead
    <3>2. O = Occurrences(out', {at}) + IF Head(out) = at THEN 1 ELSE 0
      BY <2>1, <3>1, OccurrencesTail DEF O
    <3>3. Occurrences(out', {at}) \in Nat
      BY <2>1, <3>1, OccurrencesNatural
    <3>4. QED
      BY <3>2, <3>3
  <2>9. Len(recvCq') + Len(sq') + Occurrences(cq', ReceivedOf(at))
          + Occurrences(out', {at}) + (IF current'.item = at THEN 1 ELSE 0) <= max
    BY <1>e, <2>1, <2>7, <2>8 DEF N
  <2>10. QED
    BY <1>d, <2>1, <2>3, <2>5, <2>6, <2>9
<1>5. CASE Replies
  <2>1. /\ sq # <<>> /\ sq' = Tail(sq) /\ recvCq' = Append(recvCq, Head(sq).item)
        /\ UNCHANGED <<out, cq, current>>
    BY <1>5 DEF Replies
  <2>2. Received' = Received
    BY <1>2, <1>5, ReceivedKept
  <2>3. Held(sq) = Held(sq') \cup {Head(sq)} /\ Len(sq') = Len(sq) - 1
    BY <1>b, <2>1, HeldTail, QueueHead
  <2>4. Head(sq).item = at /\ Waits(at)
    BY <1>d, <2>1, <2>3
  <2>5. Held(recvCq') = Held(recvCq) \cup {at} /\ Len(recvCq') = Len(recvCq) + 1
    <3>1. recvCq \in Seq(Nat) /\ at \in Nat
      BY <1>b
    <3>2. QED
      BY <2>1, <2>4, <3>1, HeldAppend, QueueAppend
  <2>6. QED
    BY <1>d, <1>e, <2>1, <2>2, <2>3, <2>4, <2>5 DEF C, O, N
<1>6. CASE Reads
  <2>1. sq # <<>> /\ Head(sq).op = "read"
    BY <1>6 DEF Reads
  <2>2. QED
    BY <1>b, <1>d, <2>1, HeldTail
<1>7. CASE TakesMessage
  <2>1. /\ cq # <<>> /\ Head(cq) \in RecvEntries /\ cq' = Tail(cq)
        /\ current = None /\ current' = Head(cq) /\ UNCHANGED <<out, recvCq, sq>>
    BY <1>7 DEF TakesMessage
  <2>2. Received' = Received
    BY <1>2, <1>7, ReceivedKept
  <2>3. Held(cq) = Held(cq') \cup {Head(cq)}
    BY <1>b, <2>1, HeldTail
  <2>4. C = Occurrences(cq', ReceivedOf(at)) + IF Head(cq).item = at THEN 1 ELSE 0
    <3>1. Head(cq) \in ReceivedOf(at) <=> Head(cq).item = at
      BY <2>1 DEF ReceivedOf
    <3>2. QED
      BY <1>b, <2>1, <3>1, OccurrencesTail DEF C
  <2>5. Occurrences(cq', ReceivedOf(at)) \in Nat
    <3>1. Tail(cq) \in Seq(Entries)
      BY <1>b, <2>1, QueueHead
    <3>2. QED
      BY <2>1, <3>1, OccurrencesNatural
  <2>6. Len(recvCq') + Len(sq') + Occurrences(cq', ReceivedOf(at))
          + Occurrences(out', {at}) + (IF current'.item = at THEN 1 ELSE 0) <= max
    <3>1. N = 0
      BY <1>b, <2>1 DEF N, None
    <3>2. Occurrences(out', {at}) = O
      BY <2>1 DEF O
    <3>3. CASE Head(cq).item = at
      BY <1>e, <2>1, <2>4, <2>5, <3>1, <3>2, <3>3
    <3>4. CASE Head(cq).item # at
      BY <1>e, <2>1, <2>4, <2>5, <3>1, <3>2, <3>4
    <3>5. QED
      BY <3>3, <3>4
  <2>7. QED
    BY <1>d, <2>1, <2>2, <2>3, <2>6
<1>8. CASE TakesRead
  <2>1. cq # <<>> /\ Head(cq) \in ReadEntries
    BY <1>8 DEF TakesRead
  <2>2. Head(cq) \in Held(cq) /\ Head(cq).op = "read"
    BY <1>b, <2>1, HeldTail, EntryKinds
  <2>3. QED
    BY <1>d, <2>2
<1>9. CASE Answers
  <2> DEFINE i == current.item
  <2>1. /\ current \in RecvEntries /\ current' = None
        /\ mem[current.buf].item = i /\ UNCHANGED <<out, recvCq, cq>>
    BY <1>9, <1>c DEF Answers
  <2>2. current \in Received /\ Received' \cup {current} = Received
    BY <1>9, ReceivedAnswered
  <2>3. i \in 1 .. L /\ current.buf \in 1 .. NumBufs
    BY <2>1, EntryKinds DEF L
  <2> HIDE DEF i
  <2>5. PICK noreply \in SaysNoreply(mem[current.buf]), ops \in {<<>>, <<"send">>} :
          ops = (IF noreply THEN <<>> ELSE <<"send">>) /\ PostsPart(ops, i)
    BY <1>9, <2>1 DEF Answers, i
  <2>6. PICK t \in Seq(PostedEntries) :
          /\ sq' = sq \o t
          /\ Len(t) <= Len(ops)
          /\ \A k \in 1 .. Len(t) : t[k] = [op |-> ops[k], item |-> i]
    BY <2>5 DEF PostsPart
  <2>7. /\ Held(sq') = Held(sq) \cup Held(t)
        /\ Len(sq') = Len(sq) + Len(t) /\ Len(t) \in Nat
    <3>1. Held(sq') = Held(sq) \cup Held(t)
      BY <1>b, <2>6, HeldConcat
    <3>2. QED
      BY <1>b, <2>6, <3>1, ConcatProperties, LenProperties
  <2>8. ~Waits(i) => ops = <<>>
    <3> SUFFICES ASSUME ~Waits(i) PROVE ops = <<>>
      OBVIOUS
    <3>1. i # 0 /\ BufferOK(mem[current.buf]) /\ StartsWith(mem[current.buf], Message(i))
      <4>1. i # 0
        BY <1>b, <2>3
      <4>2. QED
        BY <2>1, <2>3, <4>1 DEF TypeInv, ServerInv
    <3>2. MessageOK(Message(i)) /\ Declines(Message(i))
      <4>1. test \in Tests /\ i \in DOMAIN items
        BY <2>3, ItemsOK DEF TypeInv, ClientInv, L
      <4>2. QED
        BY <2>3, <4>1, ItemsOK DEF DeclinesOtherwise, Waits, Message, items, L
    <3>3. SaysNoreply(mem[current.buf]) = {TRUE}
      BY <3>1, <3>2, DeclinedIsNot
    <3>4. QED
      BY <2>5, <3>3
  <2>9. \A k \in 1 .. Len(ops) : ops[k] = "send"
    OBVIOUS
  <2>10. \A e \in Held(t) : e.op = "send" /\ e.item = i
    <3>1. Len(ops) \in Nat /\ DOMAIN t = 1 .. Len(t)
      BY <2>5, <2>6, LenProperties
    <3>2. \A k \in 1 .. Len(t) : k \in 1 .. Len(ops)
      BY <2>6, <2>7, <3>1
    <3>3. \A k \in 1 .. Len(t) : t[k].op = "send" /\ t[k].item = i
      <4> SUFFICES ASSUME NEW k \in 1 .. Len(t) PROVE t[k].op = "send" /\ t[k].item = i
        OBVIOUS
      <4>1. t[k] = [op |-> ops[k], item |-> i]
        BY <2>6
      <4>2. ops[k] = "send"
        BY <2>9, <3>2
      <4>3. QED
        BY <4>1, <4>2
    <3>4. QED
      BY <3>1, <3>3 DEF Held
  <2>11. Len(ops) \in {0, 1} /\ (ops = <<>> => Len(ops) = 0)
    OBVIOUS
  <2>12. CASE Waits(i)
    <3>1. i = at
      BY <1>d, <2>2, <2>12 DEF i
    <3>2. N = 1 /\ current'.item # at /\ Len(t) <= 1
      <4>1. N = 1
        BY <3>1 DEF N, i
      <4>2. current'.item # at
        BY <1>b, <2>1 DEF None
      <4>3. Len(t) <= 1
        BY <2>6, <2>7, <2>11
      <4>4. QED
        BY <4>1, <4>2, <4>3
    <3>3. Len(recvCq') + Len(sq') + Occurrences(cq', ReceivedOf(at))
            + Occurrences(out', {at}) + (IF current'.item = at THEN 1 ELSE 0) <= max
      BY <1>e, <2>1, <2>7, <3>2 DEF C, O
    <3>4. QED
      BY <1>d, <2>1, <2>2, <2>7, <2>10, <2>12, <3>1, <3>3
  <2>13. CASE ~Waits(i)
    <3>1. Len(t) = 0
      BY <2>6, <2>7, <2>8, <2>11, <2>13
    <3>2. sq' = sq
      <4>1. t = <<>>
        BY <2>6, <3>1, EmptySeq
      <4>2. QED
        BY <1>b, <2>6, <4>1, ConcatEmptySeq
    <3>3. current'.item # at
      BY <1>b, <2>1 DEF None
    <3>4. Len(recvCq') + Len(sq') + Occurrences(cq', ReceivedOf(at))
            + Occurrences(out', {at}) + (IF current'.item = at THEN 1 ELSE 0) <= max
      BY <1>e, <2>1, <3>2, <3>3 DEF C, O
    <3>5. QED
      BY <1>d, <2>1, <2>2, <3>2, <3>4
  <2>14. QED
    BY <2>12, <2>13
<1>10. CASE TestsHead
  <2>1. /\ current \in RecvEntries /\ current' = current
        /\ mem[current.buf].item = current.item /\ UNCHANGED <<out, recvCq, cq>>
    BY <1>10, <1>c DEF TestsHead
  <2>2. current.item \in 1 .. L
    BY <2>1, EntryKinds DEF L
  <2>3. ~Message(current.item).head
    <3>1. current.item \in DOMAIN items
      BY <2>2, ItemsOK DEF TypeInv, ClientInv, L
    <3>2. QED
      BY <1>c, <3>1 DEF Twice, Message
  <2>4. PICK t \in Seq(PostedEntries) : sq' = sq \o t /\ Len(t) <= Len(<<>>)
    BY <1>10, <2>1, <2>3 DEF TestsHead, PostsPart
  <2>5. t = <<>>
    <3>1. Len(t) = 0
      BY <2>4, LenProperties
    <3>2. QED
      BY <3>1, EmptySeq
  <2>6. sq' = sq
    BY <1>b, <2>4, <2>5, ConcatEmptySeq
  <2>7. Received' = Received
    BY <1>10, ReceivedKept
  <2>8. QED
    BY <1>d, <1>e, <2>1, <2>6, <2>7 DEF C, O, N
<1>11. QED
  BY <1>a, <1>2, <1>3, <1>4, <1>5, <1>6, <1>7, <1>8, <1>9, <1>10 DEF UpStep

LEMMA OrderReplyInit ==
    ASSUME Init
    PROVE  OrderInv /\ ReplyInv
<1>1. Held(<<>>) = {} /\ Received = {}
  BY EntryKinds DEF Init, Held, Received, Entries
<1>2. OrderInv
  BY <1>1 DEF Init, OrderInv
<1>3. ReplyInv
  <2>1. current.item # at
    BY DEF Init, None
  <2>2. \A S : Occurrences(<<>>, S) = 0
    BY NoneInEmpty
  <2>3. Copies = 0
    BY <2>1, <2>2 DEF Init, Copies
  <2>4. QED
    BY <1>1, <2>3 DEF Init, ReplyInv
<1>4. QED
  BY <1>2, <1>3

\* The reply recv_msg takes is the one to the message just sent, as long as no message
\* is answered twice, the connection is up, the server did not look at a buffer the next
\* message was already in, and no poll failed: for every test that waits for a reply to
\* each message that does not decline one (client-rdma.c:220-240,
\* libevent-server.c:333-342).
THEOREM ReplyIsToThis ==
    ASSUME \A t \in Tests : DeclinesOtherwise(t)
    PROVE  SafeSpec => ReplyIsOwn
<1> DEFINE Inv == TypeInv /\ OrderInv /\ ReplyInv
           Own == pc = "receive" /\ at' # at /\ link = "up" /\ ~Twice /\ ~mistaken /\ ~early'
                    => recvCq # <<>> /\ Head(recvCq) = at
<1>1. Init => Inv
  BY TypeInvInit, OrderReplyInit
<1>2. Inv /\ [Next]_vars => Inv'
  BY TypeInvStep, OrderStep, ReplyStep
<1>3. Inv /\ [Next]_vars => [Own]_vars
  <2> SUFFICES ASSUME Inv, [Next]_vars, pc = "receive", at' # at, link = "up", ~Twice,
                      ~mistaken, ~early'
               PROVE  recvCq # <<>> /\ Head(recvCq) = at
    OBVIOUS
  <2>1. ClientNext
    BY DEF Next, HcaNext, ServerNext, Arrive, ArriveTooLong, SendDone, ReplyArrives,
       ReplyAcked, ReadDone, FlushReceive, LinkFails, ServerTakes, ServerTestsHead,
       ServerAnswers, vars, clientVars
  <2>2. Gets
    BY <2>1, ClientKinds DEF TypeInv, ClientStep, Stops, Connects, Sends, Resends,
       SendReturns, GivesUp, Unanswerable
  <2>3. recvCq # <<>> /\ ~early /\ recvCq \in Seq(0 .. Len(items))
    BY <2>2 DEF Gets, TypeInv, ClientInv
  <2>4. Head(recvCq) \in Held(recvCq)
    BY <2>3, HeldTail
  <2>5. QED
    BY <2>3, <2>4 DEF ReplyInv
<1>4. QED
  BY <1>1, <1>2, <1>3, PTL DEF SafeSpec, ReplyIsOwn

------------------------------------------------------------------------------
(***************************************************************************)
(* Messages are counted in the order they were sent                        *)
(***************************************************************************)
\* What arrived and is not counted is in the completion queue, in order.
InTurn ==
    /\ \A k \in DOMAIN cq : cq[k] \in RecvEntries => cq[k].item \in counted + 1 .. arrived
    /\ \A j, k \in DOMAIN cq :
        j < k /\ cq[j] \in RecvEntries /\ cq[k] \in RecvEntries => cq[j].item < cq[k].item
    /\ \A i \in counted + 1 .. arrived : \E e \in Held(cq) : e \in RecvEntries /\ e.item = i

\* What may become a reply was counted, and so was what is one.
RepliesCounted ==
    /\ \A e \in Held(cq) : e.op = "read" => e.item <= counted
    /\ current.item <= counted
    /\ \A e \in Held(sq) : e.item <= counted
    /\ \A i \in Held(recvCq) : i <= counted

\* Without a failure nothing is lost on the way.
IntactInv ==
    link = "up" /\ faults = 0 =>
        /\ ~early
        /\ arrived + Len(out) = IF pc \in {"sending", "receive", "crashed"} THEN at ELSE at - 1
        /\ \A k \in DOMAIN out : out[k] = arrived + k
        /\ InTurn
        /\ RepliesCounted

LEMMA IntactStep ==
    ASSUME TypeInv, IntactInv, [Next]_vars
    PROVE  IntactInv'
<1> SUFFICES ASSUME link' = "up", faults' = 0 PROVE IntactInv'
  BY DEF IntactInv
<1>a. link = "up" /\ UpStep /\ faults = 0
  <2>1. faults \in Nat
    BY BlockingAssumption DEF TypeInv, ClientInv
  <2>2. faults' = faults \/ faults' = faults + 1
    BY UpKinds DEF ClientStep
  <2>3. QED
    BY <2>1, <2>2, UpKinds
<1>b. /\ cq \in Seq(Entries) /\ sq \in Seq(PostedEntries) /\ out \in Seq(Nat)
      /\ recvCq \in Seq(Nat) /\ at \in Nat /\ arrived \in Nat /\ counted \in Nat
      /\ current \in RecvEntries \cup {None} /\ pc # "resend" /\ pc \in Pcs
  <2>1. recvCq \in Seq(0 .. Len(items)) /\ Len(items) \in Nat
    BY ItemsOK DEF TypeInv, ClientInv
  <2>2. recvCq \in Seq(Nat)
    BY <2>1
  <2>3. cq \in Seq(Entries) /\ sq \in Seq(PostedEntries) /\ counted \in Nat
        /\ current \in RecvEntries \cup {None}
    BY DEF TypeInv, ServerInv
  <2>4. out \in Seq(Nat) /\ at \in Nat /\ arrived \in Nat /\ pc # "resend" /\ pc \in Pcs
    BY <1>a DEF TypeInv, SendType, SendInv
  <2>5. QED
    BY <2>2, <2>3, <2>4
<1>c. /\ ~early
      /\ arrived + Len(out) = IF pc \in {"sending", "receive", "crashed"} THEN at ELSE at - 1
      /\ \A k \in DOMAIN out : out[k] = arrived + k
      /\ InTurn
      /\ RepliesCounted
  BY <1>a DEF IntactInv
<1>d. SUFFICES /\ ~early'
               /\ arrived' + Len(out') = IF pc' \in {"sending", "receive", "crashed"} THEN at' ELSE at' - 1
               /\ \A k \in DOMAIN out' : out'[k] = arrived' + k
               /\ \A k \in DOMAIN cq' :
                    cq'[k] \in RecvEntries => cq'[k].item \in counted' + 1 .. arrived'
               /\ \A j, k \in DOMAIN cq' :
                    j < k /\ cq'[j] \in RecvEntries /\ cq'[k] \in RecvEntries
                      => cq'[j].item < cq'[k].item
               /\ \A i \in counted' + 1 .. arrived' :
                    \E e \in Held(cq') : e \in RecvEntries /\ e.item = i
               /\ \A e \in Held(cq') : e.op = "read" => e.item <= counted'
               /\ current'.item <= counted'
               /\ \A e \in Held(sq') : e.item <= counted'
               /\ \A i \in Held(recvCq') : i <= counted'
  <2>1. RecvEntries' = RecvEntries
    BY TestKept DEF TypeInv, RecvEntries
  <2>2. QED
    BY <1>d, <2>1 DEF IntactInv, InTurn, RepliesCounted, Held
<1>e. \A e \in Held(cq) : e.op = "read" => e.item <= counted
  BY <1>c DEF RepliesCounted
<1>1. CASE ClientStep
  <2>1. UNCHANGED <<cq, sq, current, counted, arrived>>
    BY <1>1 DEF ClientStep, serverVars
  <2>2. CASE Stops
    BY <1>a, <2>2 DEF Stops
  <2>3. CASE Connects
    BY <1>c, <2>1, <2>3 DEF Connects, sends, InTurn, RepliesCounted
  <2>4. CASE Sends
    <3>1. /\ Len(Append(out, at)) = Len(out) + 1 /\ Len(out) \in Nat
          /\ \A k \in DOMAIN Append(out, at) : Append(out, at)[k] = arrived + k
      <4>1. DOMAIN Append(out, at) = 1 .. Len(out) + 1 /\ DOMAIN out = 1 .. Len(out)
            /\ Len(Append(out, at)) = Len(out) + 1 /\ Len(out) \in Nat
            /\ \A k \in 1 .. Len(out) : Append(out, at)[k] = out[k]
            /\ Append(out, at)[Len(out) + 1] = at
        BY <1>b
      <4>2. at = arrived + (Len(out) + 1)
        BY <1>b, <1>c, <2>4, <4>1 DEF Sends
      <4>3. QED
        BY <1>c, <4>1, <4>2
    <3>2. /\ out' = Append(out, at) /\ at' = at /\ pc' = "sending" /\ pc = "send"
          /\ UNCHANGED <<recvCq, early>>
      BY <2>4 DEF Sends
    <3>3. arrived + Len(out') = at
      BY <1>b, <1>c, <3>1, <3>2
    <3>4. QED
      BY <1>c, <2>1, <3>1, <3>2, <3>3 DEF InTurn, RepliesCounted
  <2>5. CASE Resends
    BY <1>a, <2>5 DEF Resends
  <2>6. CASE SendReturns
    <3>1. /\ pc = "sending" /\ UNCHANGED <<out, recvCq, early>>
          /\ \/ pc' = "receive" /\ at' = at
             \/ pc' \in {"send", "done"} /\ at' = at + 1
      BY <1>a, <1>b, <2>6 DEF SendReturns, NextItem, sends
    <3>2. arrived + Len(out) = IF pc' \in {"sending", "receive", "crashed"} THEN at' ELSE at' - 1
      BY <1>b, <1>c, <3>1
    <3>3. QED
      BY <1>c, <2>1, <3>1, <3>2 DEF InTurn, RepliesCounted
  <2>7. CASE Gets
    <3>1. /\ pc = "receive" /\ recvCq # <<>> /\ recvCq' = Tail(recvCq)
          /\ pc' \in {"send", "done"} /\ at' = at + 1 /\ UNCHANGED <<out, early>>
      BY <2>7 DEF Gets, NextItem, sends
    <3>2. arrived + Len(out) = IF pc' \in {"sending", "receive", "crashed"} THEN at' ELSE at' - 1
      BY <1>b, <1>c, <3>1
    <3>3. Held(recvCq) = Held(recvCq') \cup {Head(recvCq)}
      BY <1>b, <3>1, HeldTail
    <3>4. QED
      BY <1>c, <2>1, <3>1, <3>2, <3>3 DEF InTurn, RepliesCounted
  <2>8. CASE GivesUp
    BY <1>a, <2>8 DEF GivesUp
  <2>9. CASE Unanswerable
    <3>1. /\ at' = at /\ UNCHANGED <<out, recvCq, early>>
          /\ pc' = pc \/ (pc = "receive" /\ pc' = "crashed")
      BY <2>9 DEF Unanswerable, sends
    <3>2. arrived + Len(out)
            = IF pc' \in {"sending", "receive", "crashed"} THEN at' ELSE at' - 1
      BY <1>b, <1>c, <3>1
    <3>3. QED
      BY <1>c, <2>1, <3>1, <3>2 DEF InTurn, RepliesCounted
  <2>10. QED
    BY <1>1, <2>2, <2>3, <2>4, <2>5, <2>6, <2>7, <2>8, <2>9 DEF ClientStep
<1>2. SUFFICES ASSUME ~ClientStep
               PROVE  /\ arrived' + Len(out') = arrived + Len(out)
                      /\ \A k \in DOMAIN out' : out'[k] = arrived' + k
                      /\ \A k \in DOMAIN cq' :
                           cq'[k] \in RecvEntries => cq'[k].item \in counted' + 1 .. arrived'
                      /\ \A j, k \in DOMAIN cq' :
                           j < k /\ cq'[j] \in RecvEntries /\ cq'[k] \in RecvEntries
                             => cq'[j].item < cq'[k].item
                      /\ \A i \in counted' + 1 .. arrived' :
                           \E e \in Held(cq') : e \in RecvEntries /\ e.item = i
                      /\ \A e \in Held(cq') : e.op = "read" => e.item <= counted'
                      /\ current'.item <= counted'
                      /\ \A e \in Held(sq') : e.item <= counted'
                      /\ \A i \in Held(recvCq') : i <= counted'
  <2>1. ASSUME ~ClientStep
        PROVE  UNCHANGED <<at, pc, early>>
    BY <1>a, <2>1 DEF UpStep, Still, MessageArrives, Replies, Reads, TakesMessage, TakesRead,
       TestsHead, Answers, notClient, clientVars
  <2>2. QED
    BY <1>1, <1>2, <1>c, <2>1
<1>i. /\ \A k \in DOMAIN cq : cq[k] \in RecvEntries => cq[k].item \in counted + 1 .. arrived
      /\ \A j, k \in DOMAIN cq :
           j < k /\ cq[j] \in RecvEntries /\ cq[k] \in RecvEntries => cq[j].item < cq[k].item
      /\ \A i \in counted + 1 .. arrived : \E e \in Held(cq) : e \in RecvEntries /\ e.item = i
  BY <1>c DEF InTurn
<1>r. /\ \A e \in Held(cq) : e.op = "read" => e.item <= counted
      /\ current.item <= counted
      /\ \A e \in Held(sq) : e.item <= counted
      /\ \A i \in Held(recvCq) : i <= counted
  BY <1>c DEF RepliesCounted
<1>k. DOMAIN cq = 1 .. Len(cq) /\ Len(cq) \in Nat
  BY <1>b
\* A queue whose messages are the old ones in the old order.
<1>s. ASSUME UNCHANGED <<counted, arrived>>,
             NEW d \in Nat,
             \A k \in DOMAIN cq' : cq'[k] \in RecvEntries =>
                k + d \in DOMAIN cq /\ cq'[k] = cq[k + d] /\ k \in Nat,
             \A e \in Held(cq) : e \in RecvEntries => e \in Held(cq')
      PROVE  /\ \A k \in DOMAIN cq' :
                  cq'[k] \in RecvEntries => cq'[k].item \in counted' + 1 .. arrived'
             /\ \A j, k \in DOMAIN cq' :
                  j < k /\ cq'[j] \in RecvEntries /\ cq'[k] \in RecvEntries
                    => cq'[j].item < cq'[k].item
             /\ \A i \in counted' + 1 .. arrived' :
                  \E e \in Held(cq') : e \in RecvEntries /\ e.item = i
  <2>1. \A k \in DOMAIN cq' :
          cq'[k] \in RecvEntries => cq'[k].item \in counted' + 1 .. arrived'
    BY <1>i, <1>s
  <2>2. ASSUME NEW j \in DOMAIN cq', NEW k \in DOMAIN cq', j < k,
               cq'[j] \in RecvEntries, cq'[k] \in RecvEntries
        PROVE  cq'[j].item < cq'[k].item
    <3>1. j + d \in DOMAIN cq /\ k + d \in DOMAIN cq /\ j + d < k + d
      BY <1>s, <2>2
    <3>2. cq'[j] = cq[j + d] /\ cq'[k] = cq[k + d]
      BY <1>s, <2>2
    <3>3. QED
      BY <1>i, <2>2, <3>1, <3>2
  <2>3. QED
    BY <1>i, <1>s, <2>1, <2>2
<1>3. CASE Still
  <2>1. UNCHANGED <<out, recvCq, sq, current, arrived, counted>>
    BY <1>3 DEF Still
  <2>2. \A e \in SendEntries : e \in Entries /\ e \notin RecvEntries /\ e.op # "read"
    BY EntryKinds
  <2>3. CASE cq' = cq
    BY <1>c, <1>i, <1>r, <2>1, <2>3
  <2>4. CASE \E e \in SendEntries : cq' = Append(cq, e)
    <3>1. PICK e \in SendEntries : cq' = Append(cq, e)
      BY <2>4
    <3>2. Held(cq') = Held(cq) \cup {e}
      BY <1>b, <2>2, <3>1, HeldAppend
    <3>3. \A k \in DOMAIN cq' : cq'[k] \in RecvEntries =>
            k + 0 \in DOMAIN cq /\ cq'[k] = cq[k + 0] /\ k \in Nat
      BY <1>b, <1>k, <2>2, <3>1, QueueAppend
    <3>4. QED
      BY <1>c, <1>r, <1>s, <2>1, <2>2, <3>2, <3>3
  <2>5. CASE cq # <<>> /\ Head(cq) \in SendEntries /\ cq' = Tail(cq)
    <3>1. Held(cq) = Held(cq') \cup {Head(cq)}
      BY <1>b, <2>5, HeldTail
    <3>2. \A k \in DOMAIN cq' : k + 1 \in DOMAIN cq /\ cq'[k] = cq[k + 1] /\ k \in Nat
      <4>1. Tail(cq) \in Seq(Entries)
            /\ \A k \in DOMAIN Tail(cq) : k + 1 \in DOMAIN cq /\ Tail(cq)[k] = cq[k + 1]
        BY <1>b, <2>5, QueueHead
      <4>2. DOMAIN Tail(cq) \subseteq Nat
        BY <4>1, LenProperties
      <4>3. QED
        BY <2>5, <4>1, <4>2
    <3>3. \A e \in Held(cq) : e \in RecvEntries => e \in Held(cq')
      BY <2>2, <2>5, <3>1
    <3>4. QED
      BY <1>c, <1>r, <1>s, <2>1, <3>1, <3>2, <3>3
  <2>6. QED
    BY <1>3, <2>3, <2>4, <2>5 DEF Still
<1>4. CASE MessageArrives
  <2>1. /\ out # <<>> /\ out' = Tail(out) /\ arrived' = arrived + 1
        /\ UNCHANGED <<recvCq, sq, current, counted>>
    BY <1>4 DEF MessageArrives
  <2>2. PICK b \in 1 .. NumBufs :
          cq' = Append(cq, [op |-> "recv", buf |-> b, item |-> Head(out)])
    BY <1>4 DEF MessageArrives
  <2> DEFINE e == [op |-> "recv", buf |-> b, item |-> Head(out)]
  <2>3. e.item = Head(out) /\ e \in Entries /\ e.op = "recv" /\ e \in RecvEntries
    BY <1>4, <2>2, ReceivedArrives, EntryKinds
  <2>4. cq' = Append(cq, e)
    BY <2>2
  <2> HIDE DEF e
  <2>5. Held(cq') = Held(cq) \cup {e}
    BY <1>b, <2>3, <2>4, HeldAppend
  <2>6. Head(out) = arrived + 1 /\ Len(out') = Len(out) - 1 /\ Len(out) \in Nat
        /\ \A k \in DOMAIN out' : out'[k] = arrived + 1 + k
    <3>1. /\ Head(out) = out[1] /\ 1 \in DOMAIN out /\ Len(out') = Len(out) - 1
          /\ Len(out) \in Nat /\ out' \in Seq(Nat)
          /\ \A k \in DOMAIN out' : k + 1 \in DOMAIN out /\ out'[k] = out[k + 1]
      BY <1>b, <2>1, QueueHead
    <3>2. \A k \in DOMAIN out' : k \in Nat
      BY <3>1, LenProperties
    <3>3. Head(out) = arrived + 1
      <4>1. out[1] = arrived + 1
        BY <1>c, <3>1
      <4>2. QED
        BY <3>1, <4>1
    <3>4. \A k \in DOMAIN out' : out'[k] = arrived + 1 + k
      <4> SUFFICES ASSUME NEW k \in DOMAIN out' PROVE out'[k] = arrived + 1 + k
        OBVIOUS
      <4>1. out'[k] = out[k + 1] /\ k + 1 \in DOMAIN out /\ k \in Nat
        BY <3>1, <3>2
      <4>2. out[k + 1] = arrived + (k + 1)
        BY <1>c, <4>1
      <4>3. QED
        BY <1>b, <4>1, <4>2
    <3>5. QED
      BY <3>1, <3>3, <3>4
  <2>7. /\ DOMAIN cq' = 1 .. Len(cq) + 1
        /\ \A k \in 1 .. Len(cq) : cq'[k] = cq[k]
        /\ cq'[Len(cq) + 1] = e
    BY <1>b, <2>3, <2>4, AppendProperties
  <2>8. \A k \in DOMAIN cq' :
          cq'[k] \in RecvEntries => cq'[k].item \in counted + 1 .. arrived + 1
    <3>1. \A k \in 1 .. Len(cq) :
            cq[k] \in RecvEntries => cq[k].item \in counted + 1 .. arrived + 1
      BY <1>b, <1>i, <1>k
    <3>2. e.item \in counted + 1 .. arrived + 1
      <4>1. counted <= arrived
        <5>1. counted + Occurrences(cq, RecvEntries) = arrived
          BY DEF TypeInv, ServerInv
        <5>2. QED
          BY <1>b, <5>1, OccurrencesNatural
      <4>2. QED
        BY <1>b, <2>3, <2>6, <4>1
    <3>3. QED
      BY <1>k, <2>7, <3>1, <3>2
  <2>9. ASSUME NEW j \in DOMAIN cq', NEW k \in DOMAIN cq', j < k,
               cq'[j] \in RecvEntries, cq'[k] \in RecvEntries
        PROVE  cq'[j].item < cq'[k].item
    <3>1. j \in 1 .. Len(cq) /\ cq'[j] = cq[j] /\ cq[j].item \in counted + 1 .. arrived
      BY <1>i, <1>k, <2>7, <2>9
    <3>2. CASE k \in 1 .. Len(cq)
      BY <1>i, <1>k, <2>7, <2>9, <3>1, <3>2
    <3>3. CASE k = Len(cq) + 1
      BY <1>b, <2>3, <2>6, <2>7, <3>1, <3>3
    <3>4. QED
      BY <1>k, <2>7, <3>2, <3>3
  <2>10. \A i \in counted + 1 .. arrived + 1 : \E x \in Held(cq') : x \in RecvEntries /\ x.item = i
    <3>1. \A i \in counted + 1 .. arrived + 1 : i \in counted + 1 .. arrived \/ i = arrived + 1
      BY <1>b
    <3>2. QED
      BY <1>i, <2>3, <2>5, <2>6, <3>1
  <2>11. arrived' + Len(out') = arrived + Len(out)
    BY <1>b, <2>1, <2>6
  <2>12. \A x \in Held(cq') : x.op = "read" => x.item <= counted
    BY <1>r, <2>3, <2>5
  <2>13. QED
    BY <1>r, <2>1, <2>6, <2>8, <2>9, <2>10, <2>11, <2>12
<1>5. CASE Replies
  <2>1. /\ sq # <<>> /\ sq' = Tail(sq) /\ recvCq' = Append(recvCq, Head(sq).item)
        /\ UNCHANGED <<out, cq, current, arrived, counted>>
    BY <1>5 DEF Replies
  <2>2. Held(sq) = Held(sq') \cup {Head(sq)} /\ Head(sq) \in PostedEntries
    BY <1>b, <2>1, HeldTail, QueueHead
  <2>3. Held(recvCq') = Held(recvCq) \cup {Head(sq).item}
    <3>1. Head(sq).item \in Nat
      BY <2>2 DEF PostedEntries
    <3>2. recvCq \in Seq(Nat)
      BY <1>b
    <3>3. Held(Append(recvCq, Head(sq).item)) = Held(recvCq) \cup {Head(sq).item}
      BY <3>1, <3>2, HeldAppend
    <3>4. QED
      BY <2>1, <3>3
  <2>4. QED
    BY <1>c, <1>i, <1>r, <2>1, <2>2, <2>3
<1>6. CASE Reads
  <2> DEFINE e == [op |-> "read", buf |-> 0, item |-> Head(sq).item]
  <2>1. /\ sq # <<>> /\ sq' = Tail(sq) /\ cq' = Append(cq, e)
        /\ UNCHANGED <<out, recvCq, current, arrived, counted>>
    BY <1>6 DEF Reads
  <2>2. Held(sq) = Held(sq') \cup {Head(sq)} /\ Head(sq) \in PostedEntries
    BY <1>b, <2>1, HeldTail, QueueHead
  <2>3. e \in Entries /\ e \notin RecvEntries /\ e.item = Head(sq).item
    BY <2>2 DEF Entries, ReadEntries, RecvEntries, PostedEntries
  <2> HIDE DEF e
  <2>4. Held(cq') = Held(cq) \cup {e}
    BY <1>b, <2>1, <2>3, HeldAppend
  <2>5. \A k \in DOMAIN cq' : cq'[k] \in RecvEntries =>
          k + 0 \in DOMAIN cq /\ cq'[k] = cq[k + 0] /\ k \in Nat
    BY <1>b, <1>k, <2>1, <2>3, QueueAppend
  <2>6. QED
    BY <1>c, <1>r, <1>s, <2>1, <2>2, <2>3, <2>4, <2>5
<1>7. ASSUME cq # <<>>, cq' = Tail(cq)
      PROVE  /\ Held(cq) = Held(cq') \cup {Head(cq)} /\ Head(cq) = cq[1] /\ 1 \in DOMAIN cq
             /\ \A k \in DOMAIN cq' : k + 1 \in DOMAIN cq /\ cq'[k] = cq[k + 1] /\ k \in Nat \ {0}
  <2>1. /\ Tail(cq) \in Seq(Entries) /\ Head(cq) = cq[1] /\ 1 \in DOMAIN cq
        /\ \A k \in DOMAIN Tail(cq) : k + 1 \in DOMAIN cq /\ Tail(cq)[k] = cq[k + 1]
    BY <1>b, <1>7, QueueHead
  <2>2. DOMAIN Tail(cq) \subseteq Nat \ {0}
    BY <2>1, LenProperties
  <2>3. QED
    BY <1>b, <1>7, <2>1, <2>2, HeldTail
<1>8. CASE TakesMessage
  <2>1. /\ cq # <<>> /\ Head(cq) \in RecvEntries /\ cq' = Tail(cq)
        /\ current' = Head(cq) /\ counted' = counted + 1
        /\ UNCHANGED <<out, recvCq, sq, arrived>>
    BY <1>8 DEF TakesMessage
  <2>2. /\ Held(cq) = Held(cq') \cup {Head(cq)} /\ Head(cq) = cq[1] /\ 1 \in DOMAIN cq
        /\ \A k \in DOMAIN cq' : k + 1 \in DOMAIN cq /\ cq'[k] = cq[k + 1] /\ k \in Nat \ {0}
    BY <1>7, <2>1
  <2>3. Head(cq).item \in counted + 1 .. arrived
    BY <1>i, <2>1, <2>2
  <2>4. ASSUME NEW k \in DOMAIN cq', cq'[k] \in RecvEntries
        PROVE  cq'[k].item \in counted + 1 .. arrived /\ Head(cq).item < cq'[k].item
    <3>1. k + 1 \in DOMAIN cq /\ cq'[k] = cq[k + 1] /\ 1 < k + 1
      BY <2>2
    <3>2. QED
      BY <1>i, <2>1, <2>2, <2>4, <3>1
  \* It is the next one.
  <2>5. Head(cq).item = counted + 1
    <3>1. counted + 1 \in counted + 1 .. arrived
      BY <1>b, <2>3
    <3>2. PICK e \in Held(cq) : e \in RecvEntries /\ e.item = counted + 1
      BY <1>i, <3>1
    <3>3. \A x \in Held(cq') : x \in RecvEntries => Head(cq).item < x.item
      BY <2>4 DEF Held
    <3>4. CASE e = Head(cq)
      BY <3>2, <3>4
    <3>5. CASE e \in Held(cq')
      BY <1>b, <2>3, <3>2, <3>3, <3>5
    <3>6. QED
      BY <2>2, <3>2, <3>4, <3>5
  <2>6. \A k \in DOMAIN cq' :
          cq'[k] \in RecvEntries => cq'[k].item \in counted' + 1 .. arrived'
    BY <1>b, <2>1, <2>4, <2>5
  <2>7. ASSUME NEW j \in DOMAIN cq', NEW k \in DOMAIN cq', j < k,
               cq'[j] \in RecvEntries, cq'[k] \in RecvEntries
        PROVE  cq'[j].item < cq'[k].item
    <3>1. j + 1 \in DOMAIN cq /\ k + 1 \in DOMAIN cq /\ j + 1 < k + 1
      BY <2>2, <2>7
    <3>2. cq'[j] = cq[j + 1] /\ cq'[k] = cq[k + 1]
      BY <2>2
    <3>3. QED
      BY <1>i, <2>7, <3>1, <3>2
  <2>8. \A i \in counted' + 1 .. arrived' : \E e \in Held(cq') : e \in RecvEntries /\ e.item = i
    <3> SUFFICES ASSUME NEW i \in counted + 2 .. arrived
                 PROVE  \E e \in Held(cq') : e \in RecvEntries /\ e.item = i
      <4>1. counted' + 1 = counted + 2 /\ arrived' = arrived
        BY <1>b, <2>1
      <4>2. QED
        BY <4>1
    <3>1. PICK e \in Held(cq) : e \in RecvEntries /\ e.item = i
      BY <1>b, <1>i
    <3>2. e # Head(cq)
      BY <1>b, <2>5, <3>1
    <3>3. QED
      BY <2>2, <3>1, <3>2
  <2>9. counted \in Nat /\ counted' = counted + 1
    BY <1>b, <2>1
  <2>10. /\ \A e \in Held(cq') : e.op = "read" => e.item <= counted'
         /\ current'.item <= counted'
         /\ \A e \in Held(sq') : e.item <= counted'
         /\ \A i \in Held(recvCq') : i <= counted'
    <3>1. \A e \in Held(cq) : e.op = "read" => e.item \in Nat
      BY <1>b, ElementOfSeq, EntryKinds DEF Held, Entries, RecvEntries, SendEntries, ReadEntries
    <3>2. \A e \in Held(sq) : e.item \in Nat
      <4>1. \A e \in Held(sq) : e \in PostedEntries
        BY <1>b, ElementOfSeq DEF Held
      <4>2. QED
        BY <4>1 DEF PostedEntries
    <3>3. \A i \in Held(recvCq) : i \in Nat
      BY <1>b, ElementOfSeq DEF Held
    <3>4. \A e \in Held(cq') : e.op = "read" => e.item <= counted'
      BY <1>r, <2>2, <2>9, <3>1
    <3>5. \A e \in Held(sq') : e.item <= counted'
      BY <1>r, <2>1, <2>9, <3>2
    <3>6. \A i \in Held(recvCq') : i <= counted'
      BY <1>r, <2>1, <2>9, <3>3
    <3>7. current'.item <= counted'
      BY <2>1, <2>5, <2>9
    <3>8. QED
      BY <3>4, <3>5, <3>6, <3>7
  <2>11. QED
    BY <1>c, <2>1, <2>6, <2>7, <2>8, <2>10
<1>p. ASSUME NEW ops, NEW i, PostsPart(ops, i), i <= counted
      PROVE  \A e \in Held(sq') : e.item <= counted
  <2>1. PICK t \in Seq(PostedEntries) :
          sq' = sq \o t /\ \A k \in 1 .. Len(t) : t[k] = [op |-> ops[k], item |-> i]
    BY <1>p DEF PostsPart
  <2>2. DOMAIN t = 1 .. Len(t) /\ Held(sq') = Held(sq) \cup Held(t)
    BY <1>b, <2>1, HeldConcat, LenProperties
  <2>3. ASSUME NEW k \in 1 .. Len(t)
        PROVE  t[k].item = i
    <3>1. t[k] = [op |-> ops[k], item |-> i]
      BY <2>1
    <3>2. QED
      BY <3>1
  <2>4. \A e \in Held(t) : e.item = i
    BY <2>2, <2>3 DEF Held
  <2>5. QED
    BY <1>p, <1>r, <2>2, <2>4
<1>9. CASE TakesRead
  <2>1. /\ cq # <<>> /\ Head(cq) \in ReadEntries /\ cq' = Tail(cq)
        /\ PostsPart(<<"send">>, Head(cq).item)
        /\ UNCHANGED <<out, recvCq, current, arrived, counted>>
    BY <1>9 DEF TakesRead
  <2>2. /\ Held(cq) = Held(cq') \cup {Head(cq)}
        /\ \A k \in DOMAIN cq' : k + 1 \in DOMAIN cq /\ cq'[k] = cq[k + 1] /\ k \in Nat
    BY <1>7, <2>1
  <2>3. Head(cq).item <= counted
    BY <1>r, <2>1, <2>2, EntryKinds
  <2>4. \A e \in Held(sq') : e.item <= counted
    BY <1>p, <2>1, <2>3
  <2>5. \A e \in Held(cq) : e \in RecvEntries => e \in Held(cq')
    BY <2>1, <2>2, EntryKinds
  <2>6. QED
    BY <1>c, <1>r, <1>s, <2>1, <2>2, <2>4, <2>5
<1>10. CASE TestsHead \/ Answers
  <2>1. /\ current' \in {current, None}
        /\ \E ops : PostsPart(ops, current.item)
        /\ UNCHANGED <<out, recvCq, cq, arrived, counted>>
    BY <1>10 DEF TestsHead, Answers
  <2>2. \A e \in Held(sq') : e.item <= counted
    BY <1>p, <1>r, <2>1
  <2>3. current'.item <= counted
    BY <1>b, <1>r, <2>1 DEF None
  <2>4. QED
    BY <1>c, <1>i, <1>r, <2>1, <2>2, <2>3
<1>11. QED
  BY <1>a, <1>2, <1>3, <1>4, <1>5, <1>6, <1>8, <1>9, <1>10 DEF UpStep

\* A client that waits goes on when a reply is there, and that is the reply to the
\* message it waits for, which was counted; so were all in front of it.
LEMMA CountedStep ==
    ASSUME TypeInv, ReplyInv, IntactInv, ReplyMeansReceivedIfIntact, [Next]_vars,
           ReplyInv', IntactInv'
    PROVE  ReplyMeansReceivedIfIntact'
<1> SUFFICES ASSUME link' = "up", faults' = 0, ~Twice', ~mistaken',
                    NEW i \in 1 .. at' - 1, Waits(i)
             PROVE  counted' >= i
  BY TestKept DEF ReplyMeansReceivedIfIntact, WaitedForAreCounted, TypeInv, Waits
<1>a. link = "up" /\ UpStep /\ faults = 0
  <2>1. faults \in Nat
    BY BlockingAssumption DEF TypeInv, ClientInv
  <2>2. faults' = faults \/ faults' = faults + 1
    BY UpKinds DEF ClientStep
  <2>3. QED
    BY <2>1, <2>2, UpKinds
<1>b. ~Twice /\ ~mistaken /\ ~early
  <2>1. ~Twice
    BY TestKept DEF TypeInv, Twice
  <2>2. ~mistaken
    BY <1>a DEF UpStep, ClientStep, Still, MessageArrives, Replies, Reads, TakesMessage,
       TakesRead, TestsHead, Answers, notClient, serverVars
  <2>3. QED
    BY <1>a, <2>1, <2>2 DEF IntactInv
<1>c. at \in Nat /\ counted \in Nat /\ counted' \in Nat /\ counted <= counted'
  <2>1. at \in Nat /\ counted \in Nat
    BY DEF TypeInv, SendType, ServerInv
  <2>2. counted' = counted \/ counted' = counted + 1
    BY <1>a DEF UpStep, ClientStep, Still, MessageArrives, Replies, Reads, TakesMessage,
       TakesRead, TestsHead, Answers, notClient, serverVars
  <2>3. QED
    BY <2>1, <2>2
<1>d. \A j \in 1 .. at - 1 : Waits(j) => counted >= j
  BY <1>a, <1>b DEF ReplyMeansReceivedIfIntact, WaitedForAreCounted, Waits
<1>1. CASE i < at
  BY <1>1, <1>c, <1>d
<1>2. CASE ~(i < at)
  <2>1. ClientStep /\ at' = at + 1 /\ i = at
    <3>1. at' = at \/ (ClientStep /\ at' = at + 1)
      <4>1. CASE ClientStep
        BY <4>1 DEF ClientStep, Stops, Connects, Sends, Resends, SendReturns, Gets, GivesUp,
           Unanswerable, NextItem
      <4>2. CASE ~ClientStep
        BY <1>a, <4>2 DEF UpStep, Still, MessageArrives, Replies, Reads, TakesMessage,
           TakesRead, TestsHead, Answers, notClient, clientVars
      <4>3. QED
        BY <4>1, <4>2
    <3>2. QED
      BY <1>2, <1>c, <3>1
  <2>2. Gets
    BY <1>a, <1>c, <2>1 DEF ClientStep, Stops, Connects, Sends, Resends, SendReturns, GivesUp,
       Unanswerable
  <2>3. recvCq # <<>> /\ recvCq \in Seq(0 .. Len(items))
    BY <2>2 DEF Gets, TypeInv, ClientInv
  <2>4. Head(recvCq) \in Held(recvCq)
    BY <2>3, HeldTail
  <2>5. Head(recvCq) = at /\ Head(recvCq) <= counted
    BY <1>a, <1>b, <2>4 DEF ReplyInv, IntactInv, RepliesCounted
  <2>6. QED
    BY <1>c, <2>1, <2>5
<1>3. QED
  BY <1>1, <1>2

\* Under these conditions a reply means that everything sent before it was received
\* (client-rdma.c:332-334).
THEOREM ReplyTellsOfReceipt ==
    ASSUME \A t \in Tests : DeclinesOtherwise(t)
    PROVE  SafeSpec => []ReplyMeansReceivedIfIntact
<1> DEFINE Inv == /\ TypeInv /\ OrderInv /\ ReplyInv /\ IntactInv
                  /\ ReplyMeansReceivedIfIntact
<1>1. Init => Inv
  <2> SUFFICES ASSUME Init PROVE IntactInv /\ ReplyMeansReceivedIfIntact
    BY TypeInvInit, OrderReplyInit
  <2>1. Held(<<>>) = {} /\ Len(<<>>) = 0 /\ DOMAIN <<>> = {}
    BY DEF Held
  <2>2. arrived + Len(out) = at - 1
    BY <2>1 DEF Init
  <2>3. InTurn
    BY <2>1 DEF Init, InTurn
  <2>4. RepliesCounted
    BY <2>1 DEF Init, RepliesCounted, None
  <2>5. IntactInv
    BY <2>1, <2>2, <2>3, <2>4 DEF Init, IntactInv
  <2>6. QED
    BY <2>5 DEF Init, ReplyMeansReceivedIfIntact, WaitedForAreCounted
<1>2. Inv /\ [Next]_vars => Inv'
  BY TypeInvStep, OrderStep, ReplyStep, IntactStep, CountedStep
<1>3. QED
  BY <1>1, <1>2, PTL DEF SafeSpec

------------------------------------------------------------------------------
(***************************************************************************)
(* What the tests of the two programs send                                 *)
(***************************************************************************)
\* An item is waited for and asks for a reply, or says that it wants none.
PlainlyMeant(e) ==
    /\ e.waits \in BOOLEAN /\ MessageOK(e.msg)
    /\ IF e.waits THEN Asks(e.msg) ELSE Declines(e.msg)

\* As far as nobody knows whether it asks.
AtLeastDeclines(e) ==
    /\ e.waits \in BOOLEAN /\ MessageOK(e.msg)
    /\ e.waits \/ Declines(e.msg)

LEMMA TestOfItems ==
    ASSUME NEW X, NEW s \in Seq(X), NEW program,
           \A e \in X : AtLeastDeclines(e)
    PROVE  /\ TestOK(Of(program, s)) /\ DeclinesOtherwise(Of(program, s))
           /\ (\A e \in X : PlainlyMeant(e)) => AsksWhereItWaits(Of(program, s))
<1> DEFINE t == Of(program, s)
<1>1. t.items = s /\ t.retries \in BOOLEAN
  <2>1. (program = "client-test") \in BOOLEAN
    OBVIOUS
  <2>2. QED
    BY <2>1 DEF Of
<1>2. Len(s) \in Nat /\ DOMAIN s = 1 .. Len(s) /\ \A i \in DOMAIN s : s[i] \in X
  BY LenProperties, ElementOfSeq
<1> HIDE DEF t
<1>3. TestOK(t)
  BY <1>1, <1>2 DEF TestOK, AtLeastDeclines
<1>4. DeclinesOtherwise(t)
  BY <1>1, <1>2 DEF DeclinesOtherwise, AtLeastDeclines
<1>5. (\A e \in X : PlainlyMeant(e)) => AsksWhereItWaits(t)
  BY <1>1, <1>2 DEF AsksWhereItWaits, PlainlyMeant
<1>6. QED
  BY <1>3, <1>4, <1>5 DEF t

\* A loop sends what a round sends, nothing if there is no round.
LEMMA TimesSends ==
    ASSUME NEW X, NEW round \in Seq(X), round # <<>>, NEW n \in Nat
    PROVE  Times(n, round) \in Seq(X)
<1> DEFINE l == Len(round)
           m == n * l
<1>1. l \in Nat \ {0} /\ \A k \in 1 .. l : round[k] \in X
  BY EmptySeq, LenProperties, ElementOfSeq
<1>2. m \in Nat
  BY <1>1
<1>3. \A i \in Nat \ {0} : ((i - 1) % l) + 1 \in 1 .. l
  BY <1>1
<1>4. Times(n, round) = [i \in 1 .. m |-> round[((i - 1) % l) + 1]]
  BY DEF Times
<1> HIDE DEF l, m
<1>5. \A i \in 1 .. m : round[((i - 1) % l) + 1] \in X
  BY <1>1, <1>3
<1>6. [i \in 1 .. m |-> round[((i - 1) % l) + 1]] \in Seq(X)
  BY <1>2, <1>5
<1>7. QED
  BY <1>4, <1>6

LEMMA RoundSends ==
    ASSUME NEW X, NEW n \in Nat \ {0}, NEW f \in [1 .. n -> X]
    PROVE  f \in Seq(X) /\ f # <<>>
<1>1. f \in Seq(X) /\ Len(f) = n
  OBVIOUS
<1>2. QED
  BY <1>1, EmptySeq

LEMMA OneAfterTheOther ==
    ASSUME NEW X, NEW s \in Seq(X), NEW t \in Seq(X)
    PROVE  s \o t \in Seq(X) /\ (s # <<>> \/ t # <<>> => s \o t # <<>>)
<1>1. s \o t \in Seq(X) /\ Len(s \o t) = Len(s) + Len(t) /\ Len(s) \in Nat /\ Len(t) \in Nat
  BY ConcatProperties, LenProperties
<1>2. (s # <<>> => Len(s) # 0) /\ (t # <<>> => Len(t) # 0) /\ Len(<<>>) = 0
  BY EmptySeq
<1>3. QED
  BY <1>1, <1>2

LEMMA ChangesAreCommands ==
    \A i \in 1 .. 8 : Changes[i] \in Commands \ {"get"}
<1> SUFFICES ASSUME NEW i \in 1 .. 8 PROVE Changes[i] \in Commands \ {"get"}
  OBVIOUS
<1>1. i = 1 \/ i = 2 \/ i = 3 \/ i = 4 \/ i = 5 \/ i = 6 \/ i = 7 \/ i = 8
  OBVIOUS
<1>2. Changes[i] \in {"add", "set", "replace", "append", "prepend", "incr", "decr", "delete"}
  BY <1>1 DEF Changes
<1>3. QED
  BY <1>2 DEF Commands, Storage, Arithmetic

LEMMA TextGrows ==
    ASSUME NEW cmd \in Commands, NEW suffix \in {0, NoreplyLength}, NEW s \in AsciiSizes
    PROVE  /\ HeadLength(cmd, suffix, s) \in Nat
           /\ TextLength(cmd, suffix, s) \in Nat
           /\ HeadLength(cmd, suffix, s) + suffix + 2 <= TextLength(cmd, suffix, s)
<1>1. KeyLength(cmd, suffix, s) \in Int /\ BodyLength(cmd, s) \in Nat
  BY RoomIsShared DEF NoreplyLength
<1>2. CmdLength(cmd) \in Nat /\ Digits(BodyLength(cmd, s)) \in Nat /\ suffix \in Nat
  BY <1>1, CmdLengthBound, DigitsBound DEF NoreplyLength
<1>3. HeadLength(cmd, suffix, s) \in Nat
  BY <1>1, <1>2 DEF HeadLength
<1>4. QED
  BY <1>1, <1>2, <1>3 DEF TextLength

LEMMA FitMessage ==
    ASSUME NEW m, m.len \in Nat \ {0},
           \A w \in m.words : w \in 0 .. m.len - 1,
           \A r \in m.nuls : r[2] \in 0 .. m.len - 1 /\ r[1] \in 0 .. r[2],
           m.head \in BOOLEAN, m.readable \in BOOLEAN
    PROVE  MessageOK(m)
<1>1. m.words \in SUBSET (0 .. m.len - 1)
  OBVIOUS
<1>2. QED
  BY <1>1 DEF MessageOK

\* The ASCII requests of client-rdma.c: those that say noreply do so before any NUL.
LEMMA AsciiNoreplyDeclines ==
    ASSUME NEW cmd \in Commands, NEW s \in AsciiSizes
    PROVE  MessageOK(AsciiNoreply(cmd, s)) /\ Declines(AsciiNoreply(cmd, s))
<1> DEFINE head == HeadLength(cmd, NoreplyLength, s)
           text == TextLength(cmd, NoreplyLength, s)
           m == AsciiNoreply(cmd, s)
<1>1. head \in Nat /\ text \in Nat /\ head + 10 <= text
  BY TextGrows DEF NoreplyLength
<1>2. text <= s /\ s \in Nat \ {0}
  BY AsciiRequestsFit DEF AsciiFits, AsciiSizes
<1>3. /\ m.len = s /\ m.words = {head + 1}
      /\ m.nuls = IF text < s THEN {<<text, s - 1>>} ELSE {}
      /\ m.head \in BOOLEAN /\ m.readable \in BOOLEAN
  BY DEF AsciiNoreply, PlainMessage
<1> HIDE DEF head, text, m
<1>4. \A r \in m.nuls : r[1] = text /\ r[2] = s - 1 /\ text < s
  BY <1>3
<1>5. MessageOK(m)
  <2>1. m.len \in Nat \ {0} /\ \A w \in m.words : w \in 0 .. m.len - 1
    BY <1>1, <1>2, <1>3
  <2>2. \A r \in m.nuls : r[2] \in 0 .. m.len - 1 /\ r[1] \in 0 .. r[2]
    BY <1>1, <1>2, <1>3, <1>4
  <2>3. QED
    BY <1>3, <2>1, <2>2, FitMessage
<1>6. Declines(m)
  BY <1>1, <1>3, <1>4 DEF Declines
<1>7. QED
  BY <1>5, <1>6 DEF m

LEMMA AsciiReplyOK ==
    ASSUME NEW cmd \in Commands, NEW s \in AsciiSizes
    PROVE  MessageOK(Registered(cmd, s))
<1> DEFINE name == CASE cmd = "append" -> "prepend"
                     [] cmd = "prepend" -> "append"
                     [] OTHER -> cmd
           text == TextLength(name, 0, s)
           len == TextLength(cmd, 0, s)
           m == AsciiReply(name, len, s)
<1>1. name \in Commands
  BY DEF Commands, Storage
<1>2. Registered(cmd, s) = m
  BY DEF Registered
<1> HIDE DEF name
<1>3. text \in Nat /\ len \in Nat \ {0}
  BY <1>1, TextGrows
<1>4. /\ m.len = len /\ m.words = {}
      /\ m.nuls = IF text < len THEN {<<text, len - 1>>} ELSE {}
      /\ m.head \in BOOLEAN /\ m.readable \in BOOLEAN
  BY DEF AsciiReply, PlainMessage
<1> HIDE DEF text, len, m
<1>5. \A r \in m.nuls : r[1] = text /\ r[2] = len - 1 /\ text < len
  BY <1>4
<1>6. MessageOK(m)
  <2>1. m.len \in Nat \ {0} /\ \A w \in m.words : w \in 0 .. m.len - 1
    BY <1>3, <1>4
  <2>2. \A r \in m.nuls : r[2] \in 0 .. m.len - 1 /\ r[1] \in 0 .. r[2]
    BY <1>3, <1>4, <1>5
  <2>3. QED
    BY <1>4, <2>1, <2>2, FitMessage
<1>7. QED
  BY <1>2, <1>6

\* One NUL and no word: the binary requests, and those of client-test.c that ask.
LEMMA OneNulAsks ==
    ASSUME NEW len \in Nat \ {0}, NEW nul \in 0 .. len - 1
    PROVE  /\ MessageOK(PlainMessage(len, {}, {<<nul, nul>>}))
           /\ Asks(PlainMessage(len, {}, {<<nul, nul>>}))
<1> DEFINE m == PlainMessage(len, {}, {<<nul, nul>>})
<1>1. /\ m.len = len /\ m.words = {} /\ m.nuls = {<<nul, nul>>}
      /\ m.head \in BOOLEAN /\ m.readable \in BOOLEAN
  BY DEF PlainMessage
<1> HIDE DEF m
<1>2. \A r \in m.nuls : r[1] = nul /\ r[2] = nul
  BY <1>1
<1>3. MessageOK(m)
  BY <1>1, <1>2, FitMessage
<1>4. Asks(m)
  BY <1>1 DEF Asks
<1>5. QED
  BY <1>3, <1>4 DEF m

LEMMA BinaryAsks ==
    ASSUME NEW cmd, NEW s \in BinarySizes
    PROVE  MessageOK(Binary(cmd, s)) /\ Asks(Binary(cmd, s))
<1> DEFINE nul == IF cmd = "get" THEN 1 ELSE 2
<1>1. s \in Nat \ {0} /\ nul \in 0 .. s - 1
  BY DEF BinarySizes
<1>2. QED
  BY <1>1, OneNulAsks DEF Binary

LEMMA LiteralLengths ==
    ASSUME NEW cmd \in Commands
    PROVE  /\ Literal[cmd] \in Nat
           /\ cmd # "get" => WordIn[cmd] \in Nat /\ WordIn[cmd] < Literal[cmd]
<1>1. cmd \in {"add", "set", "replace", "append", "prepend", "incr", "decr", "delete", "get"}
  BY DEF Commands, Storage, Arithmetic
<1>2. QED
  BY <1>1 DEF Literal, WordIn

LEMMA QuietDeclines ==
    ASSUME NEW cmd \in Commands \ {"get"}
    PROVE  MessageOK(Quiet(cmd)) /\ Declines(Quiet(cmd))
<1> DEFINE end == Literal[cmd] + 8
           m == Quiet(cmd)
<1>1. WordIn[cmd] \in Nat /\ end \in Nat /\ WordIn[cmd] < end
  BY LiteralLengths
<1>2. /\ m.len = end + 1 /\ m.words = {WordIn[cmd]} /\ m.nuls = {<<end, end>>}
      /\ m.head \in BOOLEAN /\ m.readable \in BOOLEAN
  BY DEF Quiet, PlainMessage
<1> HIDE DEF m, end
<1>3. \A r \in m.nuls : r[1] = end /\ r[2] = end
  BY <1>2
<1>4. MessageOK(m)
  BY <1>1, <1>2, <1>3, FitMessage
<1>5. Declines(m)
  BY <1>1, <1>2, <1>3 DEF Declines
<1>6. QED
  BY <1>4, <1>5 DEF m

LEMMA AloudAsks ==
    ASSUME NEW cmd \in Commands
    PROVE  MessageOK(Aloud(cmd)) /\ Asks(Aloud(cmd))
<1>1. Literal[cmd] \in Nat
  BY LiteralLengths
<1>2. Literal[cmd] + 1 \in Nat \ {0} /\ Literal[cmd] \in 0 .. (Literal[cmd] + 1) - 1
  BY <1>1
<1>3. QED
  BY <1>2, OneNulAsks DEF Aloud

\* The add of test_three asks if its value is longer than five bytes. It has no NUL if
\* not, for then "\r\n" is put over or in front of the one snprintf left.
LEMMA AddValueAsks ==
    ASSUME NEW value \in Nat
    PROVE  MessageOK(AddValue(value)) /\ (Asks(AddValue(value)) <=> value > 5)
<1> DEFINE pos == 14 + Digits(value)
           m == AddValue(value)
<1>1. pos \in Nat /\ pos + value + 2 \in Nat \ {0}
  BY DigitsBound
<1>2. CASE value > 5
  <2>1. pos + 5 \in 0 .. (pos + value + 2) - 1
    BY <1>1, <1>2
  <2>2. QED
    BY <1>1, <1>2, <2>1, OneNulAsks DEF AddValue
<1>3. CASE ~(value > 5)
  <2>1. /\ m.len = pos + value + 2 /\ m.words = {} /\ m.nuls = {}
        /\ m.head \in BOOLEAN /\ m.readable \in BOOLEAN
    BY <1>3 DEF AddValue, PlainMessage
  <2> HIDE DEF m
  <2>2. MessageOK(m) /\ ~Asks(m)
    BY <1>1, <2>1, FitMessage DEF Asks
  <2>3. QED
    BY <1>3, <2>2 DEF m
<1>4. QED
  BY <1>2, <1>3

LEMMA HeadMessageAsks ==
    ASSUME NEW readable \in BOOLEAN
    PROVE  MessageOK(HeadMessage(readable)) /\ Asks(HeadMessage(readable))
<1> DEFINE m == HeadMessage(readable)
<1>1. /\ m.len = 128 /\ m.words = {} /\ m.nuls = {<<60, 60>>}
      /\ m.head \in BOOLEAN /\ m.readable \in BOOLEAN
  BY DEF HeadMessage
<1> HIDE DEF m
<1>2. \A r \in m.nuls : r[1] = 60 /\ r[2] = 60
  BY <1>1
<1>3. MessageOK(m)
  BY <1>1, <1>2, FitMessage
<1>4. Asks(m)
  BY <1>1 DEF Asks
<1>5. QED
  BY <1>3, <1>4 DEF m

LEMMA ItemsSent ==
    ASSUME NEW m
    PROVE  Once(m)[1] = [msg |-> m, waits |-> FALSE] /\ Asked(m)[1] = [msg |-> m, waits |-> TRUE]
BY DEF Once, Asked

LEMMA OneAsked ==
    ASSUME NEW X, NEW m, [msg |-> m, waits |-> TRUE] \in X
    PROVE  Asked(m) \in Seq(X) /\ Asked(m) # <<>> /\ Len(Asked(m)) = 1
<1> DEFINE q == Asked(m)
<1>1. q \in Seq(X) /\ Len(q) = 1
  BY DEF Asked
<1> HIDE DEF q
<1>2. q # <<>>
  <2>1. Len(<<>>) = 0
    OBVIOUS
  <2>2. QED
    BY <1>1, <2>1
<1>3. QED
  BY <1>1, <1>2 DEF q

LEMMA MeantItems ==
    ASSUME NEW m, MessageOK(m)
    PROVE  /\ Asks(m) => PlainlyMeant([msg |-> m, waits |-> TRUE])
           /\ AtLeastDeclines([msg |-> m, waits |-> TRUE])
           /\ Declines(m) => /\ PlainlyMeant([msg |-> m, waits |-> FALSE])
                             /\ AtLeastDeclines([msg |-> m, waits |-> FALSE])
<1>1. ASSUME NEW e, e.msg = m, e.waits = TRUE
      PROVE  AtLeastDeclines(e) /\ (Asks(m) => PlainlyMeant(e))
  BY <1>1 DEF PlainlyMeant, AtLeastDeclines
<1>2. ASSUME NEW e, e.msg = m, e.waits = FALSE, Declines(m)
      PROVE  AtLeastDeclines(e) /\ PlainlyMeant(e)
  BY <1>2 DEF PlainlyMeant, AtLeastDeclines
<1>3. /\ [msg |-> m, waits |-> TRUE].msg = m /\ [msg |-> m, waits |-> TRUE].waits = TRUE
      /\ [msg |-> m, waits |-> FALSE].msg = m /\ [msg |-> m, waits |-> FALSE].waits = FALSE
  OBVIOUS
<1>4. QED
  BY <1>1, <1>2, <1>3

\* For every request_size and any number of rounds: what client-rdma.c does not wait for
\* declines a reply, and its binary messages ask for theirs (client-rdma.c:247-383).
THEOREM TestsOfClientRdma ==
    ASSUME NEW if_binary \in BOOLEAN, NEW s, NEW n \in Nat,
           NEW t \in ClientRdma(if_binary, s, n)
    PROVE  TestOK(t) /\ DeclinesOtherwise(t) /\ (if_binary => AsksWhereItWaits(t))
<1> DEFINE one(m) == [msg |-> m, waits |-> TRUE]
<1>1. CASE if_binary
  <2> DEFINE X == {[msg |-> Binary(cmd, s), waits |-> TRUE] : cmd \in Commands}
             f == [i \in 1 .. 8 |-> Asked(Binary(Changes[i], s))[1]]
             round == Asked(Binary("get", s)) \o f
  <2>1. s \in BinarySizes /\ t = BinaryTest(s, n)
    BY <1>1 DEF ClientRdma
  <2>2. \A e \in X : PlainlyMeant(e) /\ AtLeastDeclines(e)
    BY <2>1, BinaryAsks, MeantItems
  <2>3. \A i \in 1 .. 8 : Asked(Binary(Changes[i], s))[1] \in X
    BY ItemsSent, ChangesAreCommands
  <2>4. [msg |-> Binary("get", s), waits |-> TRUE] \in X
    BY DEF Commands
  <2> HIDE DEF X
  <2>5. f \in Seq(X)
    <3>1. f \in [1 .. 8 -> X]
      BY <2>3
    <3>2. QED
      BY <3>1, RoundSends
  <2>6. round \in Seq(X) /\ round # <<>>
    BY <2>4, <2>5, OneAsked, OneAfterTheOther
  <2>7. Times(n, round) \in Seq(X)
    BY <2>6, TimesSends
  <2>8. t = Of("client-rdma", Times(n, round))
    BY <2>1 DEF BinaryTest
  <2> HIDE DEF round
  <2>9. QED
    BY <2>2, <2>7, <2>8, TestOfItems
<1>2. CASE ~if_binary
  <2> DEFINE Q == {[msg |-> AsciiNoreply(cmd, s), waits |-> FALSE] : cmd \in Commands}
             A == {[msg |-> Registered(cmd, s), waits |-> TRUE] : cmd \in Commands}
             X == Q \cup A
             f == [i \in 1 .. 8 |-> Once(AsciiNoreply(Changes[i], s))[1]]
             get == Asked(Registered("get", s))
             g == [i \in 1 .. 8 |-> Asked(Registered(Changes[i], s))[1]]
             all == Times(n, f) \o get \o Times(n, get \o g)
  <2>1. s \in AsciiSizes /\ t = AsciiTest(s, n)
    BY <1>2 DEF ClientRdma
  <2>2. \A e \in X : AtLeastDeclines(e)
    <3>1. \A e \in Q : AtLeastDeclines(e)
      BY <2>1, AsciiNoreplyDeclines, MeantItems
    <3>2. \A e \in A : AtLeastDeclines(e)
      BY <2>1, AsciiReplyOK, MeantItems
    <3>3. QED
      BY <3>1, <3>2
  <2>3. /\ \A i \in 1 .. 8 : Once(AsciiNoreply(Changes[i], s))[1] \in Q
        /\ \A i \in 1 .. 8 : Asked(Registered(Changes[i], s))[1] \in A
    BY ItemsSent, ChangesAreCommands
  <2>4. [msg |-> Registered("get", s), waits |-> TRUE] \in X
    BY DEF Commands
  <2>5. /\ \A i \in 1 .. 8 : Once(AsciiNoreply(Changes[i], s))[1] \in X
        /\ \A i \in 1 .. 8 : Asked(Registered(Changes[i], s))[1] \in X
    BY <2>3
  <2> HIDE DEF X
  <2>6. f \in Seq(X) /\ f # <<>> /\ g \in Seq(X)
    <3>1. f \in [1 .. 8 -> X] /\ g \in [1 .. 8 -> X]
      BY <2>5
    <3>2. QED
      BY <3>1, RoundSends
  <2>7. get \in Seq(X) /\ get # <<>>
    BY <2>4, OneAsked
  <2>8. t = Of("client-rdma", all)
    BY <2>1 DEF AsciiTest
  <2> HIDE DEF f, g, get
  <2>9. get \o g \in Seq(X) /\ get \o g # <<>>
    BY <2>6, <2>7, OneAfterTheOther
  <2>10. Times(n, f) \in Seq(X) /\ Times(n, get \o g) \in Seq(X)
    BY <2>6, <2>9, TimesSends
  <2>11. Times(n, f) \o get \in Seq(X)
    BY <2>7, <2>10, OneAfterTheOther
  <2>12. all \in Seq(X)
    BY <2>10, <2>11, OneAfterTheOther
  <2> HIDE DEF all
  <2>13. QED
    BY <1>2, <2>2, <2>8, <2>12, TestOfItems
<1>3. QED
  BY <1>1, <1>2

\* For every choice of options and any number of rounds: what client-test.c does not wait
\* for declines a reply, and what it waits for asks for one, except for the add of
\* test_three when its value has five bytes or fewer: the "\r\n" behind the value takes
\* the place of its NUL, and whether it is answered depends on what lies behind it in the
\* server's buffer (client-test.c:294-626, 399-402).
THEOREM TestsOfClientTest ==
    ASSUME NEW flags, NEW n \in Nat, NEW value \in Nat, NEW t \in ClientTest(flags, n, value)
    PROVE  /\ TestOK(t) /\ DeclinesOtherwise(t)
           /\ value > 5 \/ t # AddGetTest(n, value) => AsksWhereItWaits(t)
           /\ n # 0 /\ value <= 5 => ~AsksWhereItWaits(AddGetTest(n, value))
<1> DEFINE Q == {[msg |-> Quiet(cmd), waits |-> FALSE] : cmd \in Commands \ {"get"}}
           A == {[msg |-> Aloud(cmd), waits |-> TRUE] : cmd \in Commands}
           H == {[msg |-> HeadMessage(readable), waits |-> TRUE] : readable \in BOOLEAN}
           V == [msg |-> AddValue(value), waits |-> TRUE]
           X == (Q \cup A) \cup H
           Y == X \cup {V}
           round == Asked(AddValue(value)) \o Asked(Aloud("get")) \o Asked(Aloud("delete"))
<1>1. \A e \in X : PlainlyMeant(e) /\ AtLeastDeclines(e)
  <2>1. \A e \in Q : PlainlyMeant(e) /\ AtLeastDeclines(e)
    BY QuietDeclines, MeantItems
  <2>2. \A e \in A : PlainlyMeant(e) /\ AtLeastDeclines(e)
    BY AloudAsks, MeantItems
  <2>3. \A e \in H : PlainlyMeant(e) /\ AtLeastDeclines(e)
    BY HeadMessageAsks, MeantItems
  <2>4. QED
    BY <2>1, <2>2, <2>3
<1>2. /\ \A i \in 1 .. 8 : Once(Quiet(Changes[i]))[1] \in X
      /\ \A i \in 1 .. 8 : Asked(Aloud(Changes[i]))[1] \in X
  <2>1. /\ \A i \in 1 .. 8 : Once(Quiet(Changes[i]))[1] \in Q
        /\ \A i \in 1 .. 8 : Asked(Aloud(Changes[i]))[1] \in A
    BY ItemsSent, ChangesAreCommands
  <2>2. QED
    BY <2>1
<1>3. /\ [msg |-> Aloud("get"), waits |-> TRUE] \in X
      /\ [msg |-> Aloud("delete"), waits |-> TRUE] \in X
  BY DEF Commands
<1>4. /\ [msg |-> HeadMessage(TRUE), waits |-> TRUE] \in X
      /\ [msg |-> HeadMessage(FALSE), waits |-> TRUE] \in X
  OBVIOUS
<1>5. AtLeastDeclines(V) /\ (value > 5 => PlainlyMeant(V))
  BY AddValueAsks, MeantItems
<1> HIDE DEF X
<1>a. /\ Asked(Aloud("get")) \in Seq(X) /\ Asked(Aloud("get")) # <<>>
      /\ Asked(Aloud("delete")) \in Seq(X) /\ Asked(Aloud("delete")) # <<>>
  BY <1>3, OneAsked
<1>b. /\ Asked(HeadMessage(TRUE)) \in Seq(X) /\ Asked(HeadMessage(TRUE)) # <<>>
      /\ Asked(HeadMessage(FALSE)) \in Seq(X) /\ Asked(HeadMessage(FALSE)) # <<>>
  BY <1>4, OneAsked
<1>c. \A r \in Seq(X) : r # <<>> => Times(n, r) \in Seq(X)
  BY TimesSends
<1>d. \A r, q \in Seq(X) : r \o q \in Seq(X) /\ (r # <<>> \/ q # <<>> => r \o q # <<>>)
  BY OneAfterTheOther
<1>6. (\E q \in Seq(X) : t = Of("client-test", q)) =>
        TestOK(t) /\ DeclinesOtherwise(t) /\ AsksWhereItWaits(t)
  BY <1>1, TestOfItems
<1>7. ASSUME t = ReadTest(n)
      PROVE  \E q \in Seq(X) : t = Of("client-test", q)
  BY <1>7, <1>a, <1>b, <1>c, <1>d DEF ReadTest
<1>8. ASSUME t = WriteTest(n)
      PROVE  \E q \in Seq(X) : t = Of("client-test", q)
  BY <1>8, <1>b, <1>c DEF WriteTest
<1>9. ASSUME t = ReadWriteTest(n)
      PROVE  \E q \in Seq(X) : t = Of("client-test", q)
  BY <1>9, <1>a, <1>b, <1>c, <1>d DEF ReadWriteTest
<1>10. ASSUME NEW test_get \in BOOLEAN, t = RegmemTest(n, test_get)
       PROVE  \E q \in Seq(X) : t = Of("client-test", q)
  <2> DEFINE f == [i \in 1 .. 8 |-> Once(Quiet(Changes[i]))[1]]
             g == [i \in 1 .. 7 |-> Asked(Aloud(Changes[i]))[1]]
             h == IF test_get THEN Asked(Aloud("get")) ELSE <<>>
             d == Asked(Aloud("delete"))
  <2>1. f \in Seq(X) /\ f # <<>> /\ g \in Seq(X) /\ g # <<>>
    <3>1. f \in [1 .. 8 -> X] /\ g \in [1 .. 7 -> X]
      BY <1>2
    <3>2. QED
      BY <3>1, RoundSends
  <2>2. h \in Seq(X) /\ d \in Seq(X)
    BY <1>a, EmptySeq
  <2>3. t = Of("client-test", Times(n, f) \o Times(n, g \o h \o d))
    BY <1>10 DEF RegmemTest
  <2> HIDE DEF f, g, h, d
  <2>4. g \o h \in Seq(X) /\ g \o h # <<>>
    BY <1>d, <2>1, <2>2
  <2>5. g \o h \o d \in Seq(X) /\ g \o h \o d # <<>>
    BY <1>d, <2>2, <2>4
  <2>6. QED
    BY <1>c, <1>d, <2>1, <2>3, <2>5
<1>e. /\ AddGetTest(n, value) = Of("client-test", Times(n, round))
      /\ round \in Seq(Y) /\ round # <<>> /\ round[1] = V
  <2>1. \A m : [msg |-> m, waits |-> TRUE] \in Y => Asked(m) \in Seq(Y) /\ Asked(m) # <<>>
    BY OneAsked
  <2>2. /\ Asked(AddValue(value)) \in Seq(Y) /\ Asked(AddValue(value)) # <<>>
        /\ Asked(Aloud("get")) \in Seq(Y) /\ Asked(Aloud("delete")) \in Seq(Y)
    BY <1>3, <2>1
  <2>3. \A r, q \in Seq(Y) : r \o q \in Seq(Y) /\ (r # <<>> \/ q # <<>> => r \o q # <<>>)
    BY OneAfterTheOther
  <2>4. round[1] = V
    BY DEF Asked
  <2>5. QED
    BY <2>2, <2>3, <2>4 DEF AddGetTest
<1> HIDE DEF round, V
<1>11. ASSUME t = AddGetTest(n, value)
       PROVE  TestOK(t) /\ DeclinesOtherwise(t) /\ (value > 5 => AsksWhereItWaits(t))
  <2>1. Times(n, round) \in Seq(Y)
    BY <1>e, TimesSends
  <2>2. \A e \in Y : AtLeastDeclines(e) /\ (value > 5 => PlainlyMeant(e))
    BY <1>1, <1>5
  <2> HIDE DEF Y
  <2>3. QED
    BY <1>11, <1>e, <2>1, <2>2, TestOfItems
<1>12. ASSUME n # 0, value <= 5
       PROVE  ~AsksWhereItWaits(AddGetTest(n, value))
  <2> DEFINE sent == Times(n, round)
             l == Len(round)
             m == n * l
  <2>1. AddGetTest(n, value).items = sent
    <3>1. \A q : Of("client-test", q).items = q
      BY DEF Of
    <3>2. QED
      BY <1>e, <3>1
  <2>2. l \in Nat \ {0}
    BY <1>e, EmptySeq, LenProperties DEF l
  <2>3. m \in Nat \ {0}
    BY <1>12, <2>2
  <2>4. sent = [i \in 1 .. m |-> round[((i - 1) % l) + 1]]
    BY DEF Times
  <2> HIDE DEF sent, l, m
  <2>5. 1 \in DOMAIN sent /\ sent[1] = round[((1 - 1) % l) + 1]
    BY <2>3, <2>4
  <2>6. ((1 - 1) % l) + 1 = 1
    BY <2>2
  <2>7. sent[1] = V
    BY <1>e, <2>5, <2>6
  <2>8. V.waits /\ ~Asks(V.msg)
    BY <1>12, AddValueAsks DEF V
  <2>9. QED
    BY <2>1, <2>5, <2>7, <2>8 DEF AsksWhereItWaits
<1>13. \/ t = ReadTest(n) \/ t = WriteTest(n) \/ t = ReadWriteTest(n)
       \/ t = AddGetTest(n, value)
       \/ \E test_get \in BOOLEAN : t = RegmemTest(n, test_get)
  <2>1. ("test_get" \in flags) \in BOOLEAN
    OBVIOUS
  <2>2. \/ t = ReadTest(n) \/ t = WriteTest(n) \/ t = ReadWriteTest(n)
        \/ t = AddGetTest(n, value)
        \/ t = RegmemTest(n, "test_get" \in flags)
    BY DEF ClientTest
  <2>3. QED
    BY <2>1, <2>2
<1>14. /\ TestOK(t) /\ DeclinesOtherwise(t)
       /\ value > 5 \/ t # AddGetTest(n, value) => AsksWhereItWaits(t)
  BY <1>6, <1>7, <1>8, <1>9, <1>10, <1>11, <1>13
<1>15. QED
  BY <1>12, <1>14

------------------------------------------------------------------------------
\* What build_cmd.c builds before a client starts fits into the request_size bytes it
\* is built in, for each of these sizes (build_cmd.c:88-122, 125-129).
THEOREM RequestsFit == SafeSpec => []BuiltMessagesFit
<1>1. BuiltMessagesFit
  BY AsciiRequestsFit, BinaryRequestsFit DEF BuiltMessagesFit
<1>2. QED
  BY <1>1, PTL
==============================================================================
