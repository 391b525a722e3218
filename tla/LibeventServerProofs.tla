------------------------- MODULE LibeventServerProofs -------------------------
(***************************************************************************)
(* What holds of LibeventServer for any number of connections, buffers,    *)
(* messages and failing calls. The first half is about wakeups and about   *)
(* what the server waits for. The second is about messages, buffers and    *)
(* completions: nothing that arrives is lost or counted twice, no receive  *)
(* buffer leaks, the completion queue is bounded, a message is overwritten *)
(* by a full ring only and gets the reply it asks for, and peers that are  *)
(* careful do not take the server down. There every step is sorted into    *)
(* one of a few kinds (StepKinds) by what it does to the queues, and the   *)
(* invariants are proved kind by kind.                                     *)
(***************************************************************************)
EXTENDS LibeventServer, CountTheorems, SequenceTheorems, FiniteSetTheorems, TLAPS

\* UNCHANGED <<.., connVars, ..>> is always meant variable by variable.
USE DEF peerVars, connVars, qpVars, cqVars, readyVars, loopVars

LEMMA CompleteType ==
    ASSUME CqTypeOK, NEW c \in Conns, NEW op \in Ops,
           NEW status \in {"ok", "len", "flush"}, NEW buf \in Bufs \cup {LargeBuf},
           NEW msg \in Messages \cup {<<>>}, Complete(c, op, status, buf, msg)
    PROVE  CqTypeOK'
<1> DEFINE e == [conn |-> c, op |-> op, status |-> status, buf |-> buf, msg |-> msg]
<1>1. e \in Completions
  BY DEF Completions
<1>2. cq' \in Seq(Completions)
  BY <1>1, AppendProperties DEF Complete, CqTypeOK
<1>3. armed' \in BOOLEAN
  BY DEF Complete
<1>4. events' \in Nat
  <2>1. events' = events + 1 \/ events' = events
    BY Zenon DEF Complete
  <2>2. QED
    BY <2>1 DEF CqTypeOK
<1>5. QED
  BY <1>2, <1>3, <1>4 DEF CqTypeOK

LEMMA DepositType ==
    ASSUME NEW old \in [1 .. BufCells -> Cells], NEW m \in Messages
    PROVE  Deposit(old, m) \in [1 .. BufCells -> Cells]
<1>1. m \in Seq(WireCells)
  BY ServerAssumption
<1>2. ASSUME NEW i \in 1 .. BufCells, i <= Len(m)
      PROVE  m[i] \in Cells
  BY <1>1, <1>2, LenProperties, ElementOfSeq, ServerAssumption DEF Cells
<1>3. QED
  BY <1>2 DEF Deposit

LEMMA PeerType ==
    ASSUME TypeOK, NEW c \in Conns, PeerNext(c)
    PROVE  TypeOK'
<1>1. \A type \in {"request", "established", "disconnected", "error"} :
        CmEvent(type, c) => cm' \in Seq(CmEvents)
  <2> TAKE type \in {"request", "established", "disconnected", "error"}
  <2>1. [type |-> type, conn |-> c] \in CmEvents
    BY DEF CmEvents
  <2>2. QED
    BY <2>1, AppendProperties DEF CmEvent, TypeOK, ConnTypeOK
<1>2. CASE PeerConnect(c)
  BY <1>1, <1>2 DEF PeerConnect, TypeOK, PeerTypeOK, ConnTypeOK, QpTypeOK, CqTypeOK,
     LoopTypeOK
<1>3. CASE PeerEstablished(c)
  BY <1>1, <1>3 DEF PeerEstablished, TypeOK, PeerTypeOK, ConnTypeOK, QpTypeOK,
     CqTypeOK, LoopTypeOK
<1>4. CASE PeerLeave(c)
  BY <1>1, <1>4 DEF PeerLeave, TypeOK, PeerTypeOK, ConnTypeOK, QpTypeOK, CqTypeOK,
     LoopTypeOK
<1>5. QED
  BY <1>2, <1>3, <1>4 DEF PeerNext

\* Taking the head of one of a family of queues, and adding to one.
LEMMA QueueTail ==
    ASSUME NEW S, NEW q \in [Conns -> Seq(S)], NEW c \in Conns, q[c] # <<>>
    PROVE  /\ Head(q[c]) \in S
           /\ [q EXCEPT ![c] = Tail(@)] \in [Conns -> Seq(S)]
<1>1. q[c] \in Seq(S)
  OBVIOUS
<1>2. Head(q[c]) \in S /\ Tail(q[c]) \in Seq(S)
  BY <1>1, HeadTailProperties
<1>3. QED
  BY <1>2

LEMMA QueueAppend ==
    ASSUME NEW S, NEW q \in [Conns -> Seq(S)], NEW c \in Conns, NEW e \in S
    PROVE  [q EXCEPT ![c] = Append(@, e)] \in [Conns -> Seq(S)]
<1>1. Append(q[c], e) \in Seq(S)
  BY AppendProperties
<1>2. QED
  BY <1>1

LEMMA HcaType ==
    ASSUME TypeOK, NEW c \in Conns, HcaNext(c)
    PROVE  TypeOK'
<1> USE DEF TypeOK
<1>1. ASSUME rq[c] # <<>>
      PROVE  /\ Head(rq[c]) \in Bufs \cup {LargeBuf}
             /\ [rq EXCEPT ![c] = Tail(@)] \in [Conns -> Seq(Bufs \cup {LargeBuf})]
  BY <1>1, QueueTail DEF QpTypeOK
<1>2. ASSUME sq[c] # <<>>
      PROVE  /\ Head(sq[c]) \in Ops
             /\ [sq EXCEPT ![c] = Tail(@)] \in [Conns -> Seq({"send", "read"})]
  BY <1>2, QueueTail DEF QpTypeOK, Ops
<1>3. ASSUME NEW m \in Messages, HcaReceive(c, m)
      PROVE  TypeOK'
  <2> DEFINE b == Head(rq[c])
  <2>1. b \in Bufs \cup {LargeBuf} /\ rq' \in [Conns -> Seq(Bufs \cup {LargeBuf})]
    BY <1>1, <1>3 DEF HcaReceive
  <2>2. CqTypeOK'
    BY <1>3, <2>1, CompleteType DEF HcaReceive, Ops
  <2>3. mem' \in [Conns -> [Bufs -> [1 .. BufCells -> Cells]]]
    <3>1. mem' = [mem EXCEPT ![c][b] = Deposit(mem[c][b], m)]
      BY <1>3 DEF HcaReceive
    <3>2. CASE b \in Bufs
      <4>1. Deposit(mem[c][b], m) \in [1 .. BufCells -> Cells]
        BY <3>2, DepositType DEF QpTypeOK
      <4>2. QED
        BY <3>1, <3>2, <4>1 DEF QpTypeOK
    <3>3. CASE b \notin Bufs
      BY <3>1, <3>3 DEF QpTypeOK
    <3>4. QED
      BY <3>2, <3>3
  <2>4. PeerTypeOK'
    BY <1>3 DEF HcaReceive, PeerTypeOK
  <2>5. QED
    BY <1>3, <2>1, <2>2, <2>3, <2>4 DEF HcaReceive, ConnTypeOK, QpTypeOK, LoopTypeOK
<1>4. ASSUME NEW m \in Messages, HcaReceiveTooLong(c, m)
      PROVE  TypeOK'
  <2>1. CqTypeOK'
    BY <1>1, <1>4, CompleteType DEF HcaReceiveTooLong, Ops
  <2>2. QED
    BY <1>1, <1>4, <2>1 DEF HcaReceiveTooLong, PeerTypeOK, ConnTypeOK, QpTypeOK,
       LoopTypeOK
<1>5. CASE HcaSend(c)
  <2>1. CqTypeOK'
    BY <1>2, <1>5, CompleteType DEF HcaSend
  <2>2. QED
    BY <1>2, <1>5, <2>1 DEF HcaSend, PeerTypeOK, ConnTypeOK, QpTypeOK, LoopTypeOK
<1>6. CASE HcaSendFails(c)
  <2>1. CqTypeOK'
    BY <1>2, <1>6, CompleteType DEF HcaSendFails
  <2>2. QED
    BY <1>2, <1>6, <2>1 DEF HcaSendFails, PeerTypeOK, ConnTypeOK, QpTypeOK, LoopTypeOK
<1>7. CASE HcaFlush(c)
  <2>1. CqTypeOK'
    <3>1. CASE rq[c] # <<>> /\ Complete(c, "recv", "flush", Head(rq[c]), <<>>)
      BY <1>1, <3>1, CompleteType DEF Ops
    <3>2. CASE sq[c] # <<>> /\ Complete(c, Head(sq[c]), "flush", LargeBuf, <<>>)
      BY <1>2, <3>2, CompleteType
    <3>3. QED
      BY <1>7, <3>1, <3>2 DEF HcaFlush
  <2>2. QED
    BY <1>1, <1>2, <1>7, <2>1 DEF HcaFlush, PeerTypeOK, ConnTypeOK, QpTypeOK, LoopTypeOK
<1>8. QED
  BY <1>3, <1>4, <1>5, <1>6, <1>7 DEF HcaNext

LEMMA FaultType ==
    ASSUME LoopTypeOK, Fault
    PROVE  faults' \in 0 .. MaxFaults
BY ServerAssumption DEF Fault, LoopTypeOK

LEMMA CmType ==
    ASSUME TypeOK, HandlersHaveInput, NEW c \in Conns, CmNext(c)
    PROVE  TypeOK'
<1> USE DEF TypeOK
<1>1. ASSUME NEW type, CmHandler(type, c)
      PROVE  Tail(cm) \in Seq(CmEvents)
  BY <1>1, HeadTailProperties DEF CmHandler, HandlersHaveInput, ConnTypeOK
<1>2. CASE Accept(c)
  <2>1. [i \in Bufs |-> i] \in Seq(Bufs \cup {LargeBuf})
    BY ServerAssumption, SeqDef DEF Bufs
  <2>2. QED
    BY <1>1, <1>2, <2>1 DEF Accept, CmHandler, PeerTypeOK, ConnTypeOK, QpTypeOK,
       CqTypeOK, LoopTypeOK, ConnStates
<1>3. CASE RefuseConnect(c)
  BY <1>1, <1>3, FaultType DEF RefuseConnect, CmHandler, PeerTypeOK,
     ConnTypeOK, QpTypeOK, CqTypeOK, LoopTypeOK, ConnStates
<1>4. CASE AcceptPartly(c)
  <2>1. ASSUME NEW k \in 0 .. NumBufs
        PROVE  [i \in 1 .. k - 1 |-> i] \in Seq(Bufs \cup {LargeBuf})
    <3>1. CASE k = 0
      <4>1. 1 .. k - 1 = 1 .. 0
        BY <3>1
      <4>2. QED
        BY <4>1, SeqDef
    <3>2. CASE k # 0
      <4>1. k - 1 \in Nat /\ \A i \in 1 .. k - 1 : i \in Bufs
        BY <3>2, ServerAssumption DEF Bufs
      <4>2. QED
        BY <4>1, SeqDef
    <3>3. QED
      BY <3>1, <3>2
  <2>2. rq' \in [Conns -> Seq(Bufs \cup {LargeBuf})]
    BY <1>4, <2>1 DEF AcceptPartly, QpTypeOK
  <2>3. conn' \in [Conns -> ConnStates]
    BY <1>4 DEF AcceptPartly, ConnTypeOK, ConnStates
  <2>4. QED
    BY <1>4, <2>2, <2>3, FaultType DEF AcceptPartly, CmHandler,
       PeerTypeOK, ConnTypeOK, QpTypeOK, CqTypeOK, LoopTypeOK, Pcs
<1>5. CASE AcceptCrash(c)
  BY <1>5, FaultType DEF AcceptCrash, CmHandler, PeerTypeOK, ConnTypeOK,
     QpTypeOK, CqTypeOK, LoopTypeOK, Pcs
<1>6. CASE CmIgnore(c)
  BY <1>1, <1>6 DEF CmIgnore, CmHandler, PeerTypeOK, ConnTypeOK, QpTypeOK, CqTypeOK,
     LoopTypeOK
<1>7. CASE Release(c)
  BY <1>1, <1>7 DEF Release, CmHandler, PeerTypeOK, ConnTypeOK, QpTypeOK, CqTypeOK,
     LoopTypeOK, ConnStates, Pcs, Cells
<1>8. QED
  BY <1>2, <1>3, <1>4, <1>5, <1>6, <1>7 DEF CmNext

\* Starting, Dispatch, running a poll_event, giving up a connection, crashing.
LEMMA LoopType ==
    ASSUME TypeOK, HandlersHaveInput,
           \/ Start \/ StartFails \/ StartWithoutChannel
           \/ Dispatch
           \/ \E c \in Conns : RunPollEvent(c)
           \/ DisconnectFailed
           \/ CrashOnFreed
    PROVE  TypeOK'
<1> USE DEF TypeOK
<1>1. CASE Dispatch
  <2>1. pollReady' \in SUBSET Conns /\ cmReady' \in BOOLEAN
    BY <1>1 DEF Dispatch, ConnTypeOK
  <2>2. cmFirst' \in BOOLEAN
    BY <1>1 DEF Dispatch
  <2>3. QED
    BY <1>1, <2>1, <2>2 DEF Dispatch, PeerTypeOK, ConnTypeOK, QpTypeOK, CqTypeOK,
       LoopTypeOK
<1>2. ASSUME NEW c \in Conns, RunPollEvent(c)
      PROVE  TypeOK'
  BY <1>2 DEF RunPollEvent, PeerTypeOK, ConnTypeOK, QpTypeOK, CqTypeOK, LoopTypeOK, Pcs
<1>3. CASE DisconnectFailed
  <2>1. Tail(cm) \in Seq(CmEvents)
    BY <1>3, HeadTailProperties DEF DisconnectFailed, HandlersHaveInput, ConnTypeOK
  <2>2. QED
    BY <1>3, <2>1 DEF DisconnectFailed, PeerTypeOK, ConnTypeOK, QpTypeOK, CqTypeOK,
       LoopTypeOK, Pcs
<1>4. CASE CrashOnFreed
  BY <1>4 DEF CrashOnFreed, PeerTypeOK, ConnTypeOK, QpTypeOK, CqTypeOK, LoopTypeOK, Pcs
<1>5. CASE Start
  BY <1>5 DEF Start, PeerTypeOK, ConnTypeOK, QpTypeOK, CqTypeOK, LoopTypeOK, Pcs
<1>6. CASE StartFails \/ StartWithoutChannel
  BY <1>6, FaultType DEF StartFails, StartWithoutChannel, PeerTypeOK, ConnTypeOK,
     QpTypeOK, CqTypeOK, LoopTypeOK, Pcs
<1>7. QED
  BY <1>1, <1>2, <1>3, <1>4, <1>5, <1>6

LEMMA PollType ==
    ASSUME TypeOK, HandlersHaveInput, PollNext
    PROVE  TypeOK'
<1> USE DEF TypeOK
<1>1. CASE GetCqEvent
  BY <1>1 DEF GetCqEvent, PeerTypeOK, ConnTypeOK, QpTypeOK, CqTypeOK, LoopTypeOK, Pcs
<1>2. CASE ReqNotify
  BY <1>2 DEF ReqNotify, PeerTypeOK, ConnTypeOK, QpTypeOK, CqTypeOK, LoopTypeOK, Pcs
<1>3. CASE PollCq
  <2> DEFINE n == IF Len(cq) < PollWcSize THEN Len(cq) ELSE PollWcSize
  <2>1. cq \in Seq(Completions) /\ Len(cq) \in Nat /\ n \in 0 .. Len(cq)
    BY ServerAssumption, LenProperties DEF CqTypeOK
  <2>2. SubSeq(cq, 1, n) \in Seq(Completions)
    <3>1. \A i \in 1 .. n : cq[i] \in Completions
      BY <2>1, ElementOfSeq
    <3>2. QED
      BY <2>1, <3>1, SubSeqProperties
  <2>3. SubSeq(cq, n + 1, Len(cq)) \in Seq(Completions)
    <3>1. \A i \in n + 1 .. Len(cq) : cq[i] \in Completions
      BY <2>1, ElementOfSeq
    <3>2. QED
      BY <2>1, <3>1, SubSeqProperties
  <2>4. full' \in BOOLEAN /\ pc' \in Pcs
    BY <1>3 DEF PollCq, Pcs
  <2>5. QED
    BY <1>3, <2>2, <2>3, <2>4 DEF PollCq, PeerTypeOK, ConnTypeOK, QpTypeOK, CqTypeOK,
       LoopTypeOK
<1>4. CASE PollEventFails
  BY <1>4, FaultType DEF PollEventFails, PeerTypeOK, ConnTypeOK,
     QpTypeOK, CqTypeOK, LoopTypeOK, Pcs
<1>5. QED
  BY <1>1, <1>2, <1>3, <1>4 DEF PollNext

LEMMA PostSendType ==
    ASSUME TypeOK, NEW c \in Conns, NEW op \in {"send", "read"}, PostSend(c, op)
    PROVE  sq' \in [Conns -> Seq({"send", "read"})] /\ faults' \in 0 .. MaxFaults
<1>1. sq' = [sq EXCEPT ![c] = Append(@, op)] \/ sq' = sq
  BY DEF PostSend
<1>2. faults' = faults \/ Fault
  BY DEF PostSend
<1>3. sq' \in [Conns -> Seq({"send", "read"})]
  <2>1. sq \in [Conns -> Seq({"send", "read"})]
    BY DEF TypeOK, QpTypeOK
  <2>2. [sq EXCEPT ![c] = Append(@, op)] \in [Conns -> Seq({"send", "read"})]
    BY <2>1, QueueAppend
  <2>3. QED
    BY <1>1, <2>1, <2>2
<1>4. faults' \in 0 .. MaxFaults
  BY <1>2, FaultType DEF TypeOK, LoopTypeOK
<1>5. QED
  BY <1>3, <1>4

LEMMA NextCompletionType ==
    ASSUME TypeOK, batch # <<>>, NextCompletion
    PROVE  batch' \in Seq(Completions) /\ full' \in BOOLEAN /\ pc' \in Pcs
<1>1. batch' \in Seq(Completions)
  BY HeadTailProperties DEF NextCompletion, TypeOK, LoopTypeOK
<1>2. full' \in BOOLEAN
  BY Zenon DEF NextCompletion, TypeOK, LoopTypeOK
<1>3. pc' \in Pcs
  BY DEF NextCompletion, Pcs
<1>4. QED
  BY <1>1, <1>2, <1>3

LEMMA TotalRecvType ==
    ASSUME TypeOK, batch # <<>>, totalRecv' = [totalRecv EXCEPT ![cur.conn] = @ + 1]
    PROVE  totalRecv' \in [Conns -> Nat]
<1>1. totalRecv \in [Conns -> Nat]
  BY DEF TypeOK, ConnTypeOK
<1>2. \A c \in Conns : [totalRecv EXCEPT ![c] = @ + 1] \in [Conns -> Nat]
  BY <1>1
<1>3. cur.conn \in Conns
  <2>1. cur \in Completions
    BY HeadTailProperties DEF cur, TypeOK, LoopTypeOK
  <2>2. QED
    BY <2>1 DEF Completions
<1>4. QED
  BY <1>2, <1>3

LEMMA WorkType ==
    ASSUME TypeOK, HandlersHaveInput, WorkNext
    PROVE  TypeOK'
<1> USE DEF TypeOK
<1>1. batch # <<>> => cur \in Completions
  BY HeadTailProperties DEF cur, LoopTypeOK
<1>2. batch # <<>> => cur.conn \in Conns /\ cur.buf \in Bufs \cup {LargeBuf}
  BY <1>1 DEF Completions
<1>3. CASE HandleBadCompletion
  <2>1. rq' = rq \/ rq' = [rq EXCEPT ![cur.conn] = Append(@, LargeBuf)]
    BY <1>3 DEF HandleBadCompletion
  <2>2. rq' \in [Conns -> Seq(Bufs \cup {LargeBuf})]
    <3>1. rq \in [Conns -> Seq(Bufs \cup {LargeBuf})] /\ cur.conn \in Conns
      BY <1>2, <1>3 DEF HandleBadCompletion, HandlersHaveInput, QpTypeOK
    <3>2. [rq EXCEPT ![cur.conn] = Append(@, LargeBuf)]
            \in [Conns -> Seq(Bufs \cup {LargeBuf})]
      BY <3>1, QueueAppend
    <3>3. QED
      BY <2>1, <3>1, <3>2
  <2>3. faults' \in 0 .. MaxFaults
    BY <1>3, FaultType DEF HandleBadCompletion, LoopTypeOK
  <2>4. QED
    BY <1>3, <2>2, <2>3, NextCompletionType DEF HandleBadCompletion, HandlersHaveInput,
       PeerTypeOK, ConnTypeOK, QpTypeOK, CqTypeOK, LoopTypeOK
<1>4. CASE HandleRecv
  <2>1. rq' \in [Conns -> Seq(Bufs \cup {LargeBuf})]
    BY <1>2, <1>4, QueueAppend DEF HandleRecv, HandlersHaveInput, QpTypeOK
  <2>2. totalRecv' \in [Conns -> Nat]
    BY <1>4, TotalRecvType DEF HandleRecv, HandlersHaveInput
  <2>3. QED
    BY <1>4, <2>1, <2>2 DEF HandleRecv, PeerTypeOK, ConnTypeOK, QpTypeOK, CqTypeOK,
       LoopTypeOK, Pcs
<1>5. CASE HandleRecvFails
  <2>1. totalRecv' \in [Conns -> Nat]
    BY <1>5, TotalRecvType DEF HandleRecvFails, HandlersHaveInput
  <2>2. QED
    BY <1>5, <2>1, NextCompletionType, FaultType DEF HandleRecvFails,
       HandlersHaveInput, PeerTypeOK, ConnTypeOK, QpTypeOK, CqTypeOK, LoopTypeOK
<1>6. CASE HandleSent
  BY <1>6, NextCompletionType DEF HandleSent, HandlersHaveInput, PeerTypeOK,
     ConnTypeOK, QpTypeOK, CqTypeOK, LoopTypeOK
<1>7. CASE HandleReadDone
  BY <1>2, <1>7, NextCompletionType, PostSendType DEF HandleReadDone,
     HandlersHaveInput, PeerTypeOK, ConnTypeOK, QpTypeOK, CqTypeOK, LoopTypeOK
<1>8. CASE LookForHead
  <2>1. sq' \in [Conns -> Seq({"send", "read"})] /\ faults' \in 0 .. MaxFaults
    BY <1>2, <1>8, PostSendType DEF LookForHead, HandlersHaveInput, QpTypeOK, LoopTypeOK
  <2>2. QED
    BY <1>8, <2>1 DEF LookForHead, PeerTypeOK, ConnTypeOK, QpTypeOK, CqTypeOK,
       LoopTypeOK, Pcs
<1>9. CASE RegisterCrash \/ ReadPastBuffer
  BY <1>9, FaultType DEF RegisterCrash, ReadPastBuffer, PeerTypeOK, ConnTypeOK,
     QpTypeOK, CqTypeOK, LoopTypeOK, Pcs
<1>10. CASE Reply
  <2>1. sq' \in [Conns -> Seq({"send", "read"})] /\ faults' \in 0 .. MaxFaults
    BY <1>2, <1>10, PostSendType DEF Reply, HandlersHaveInput, QpTypeOK, LoopTypeOK
  <2>2. QED
    BY <1>10, <2>1, NextCompletionType DEF Reply, HandlersHaveInput, PeerTypeOK,
       ConnTypeOK, QpTypeOK, CqTypeOK, LoopTypeOK
<1>11. QED
  BY <1>3, <1>4, <1>5, <1>6, <1>7, <1>8, <1>9, <1>10 DEF WorkNext

LEMMA TypeStep ==
    ASSUME TypeOK, HandlersHaveInput, [Next]_vars
    PROVE  TypeOK'
<1>1. CASE \E c \in Conns : PeerNext(c) \/ HcaNext(c)
  BY <1>1, PeerType, HcaType
<1>2. CASE ServerNext
  BY <1>2, CmType, LoopType, PollType, WorkType DEF ServerNext
<1>3. CASE UNCHANGED vars
  BY <1>3 DEF vars, TypeOK, PeerTypeOK, ConnTypeOK, QpTypeOK, CqTypeOK, LoopTypeOK
<1>4. QED
  BY <1>1, <1>2, <1>3 DEF Next

\* What HandlersHaveInput is about changes in the server thread only; the
\* channel only grows meanwhile.
LEMMA InputStep ==
    ASSUME TypeOK, HandlersHaveInput, [Next]_vars
    PROVE  HandlersHaveInput'
<1> USE DEF HandlersHaveInput
<1>1. ASSUME NEW c \in Conns, PeerNext(c)
      PROVE  HandlersHaveInput'
  <2>1. cm' # <<>> \/ cm' = cm
    <3>1. \A type \in {"request", "established", "disconnected", "error"} :
            CmEvent(type, c) => cm' # <<>>
      <4> TAKE type \in {"request", "established", "disconnected", "error"}
      <4>1. [type |-> type, conn |-> c] \in CmEvents
        BY DEF CmEvents
      <4>2. QED
        BY <4>1, AppendProperties DEF CmEvent, TypeOK, ConnTypeOK
    <3>2. QED
      BY <1>1, <3>1 DEF PeerNext, PeerConnect, PeerEstablished, PeerLeave
  <2>2. UNCHANGED <<cqVars, loopVars>>
    BY <1>1 DEF PeerNext, PeerConnect, PeerEstablished, PeerLeave
  <2>3. QED
    BY <2>1, <2>2
<1>2. ASSUME NEW c \in Conns, HcaNext(c)
      PROVE  HandlersHaveInput'
  <2>1. UNCHANGED <<cm, loopVars>> /\ pc # "start"
    BY <1>2 DEF HcaNext, HcaReceive, HcaReceiveTooLong, HcaSend, HcaSendFails, HcaFlush,
       Running
  <2>2. QED
    BY <2>1
<1>3. ASSUME NEW c \in Conns, CmNext(c)
      PROVE  HandlersHaveInput'
  BY <1>3 DEF CmNext, Accept, RefuseConnect, AcceptPartly, AcceptCrash, CmIgnore,
     Release, CmHandler
<1>4. CASE Dispatch
  BY <1>4 DEF Dispatch
<1>5. ASSUME NEW c \in Conns, RunPollEvent(c)
      PROVE  HandlersHaveInput'
  BY <1>5 DEF RunPollEvent
<1>6. CASE DisconnectFailed
  BY <1>6 DEF DisconnectFailed
<1>7. CASE PollNext
  <2>1. CASE PollCq
    <3>1. cq \in Seq(Completions) /\ Len(cq) \in Nat
      BY LenProperties DEF TypeOK, CqTypeOK
    <3>2. pc' = "work" => batch' # <<>>
      <4> SUFFICES ASSUME pc' = "work" PROVE batch' # <<>>
        OBVIOUS
      <4> DEFINE n == IF Len(cq) < PollWcSize THEN Len(cq) ELSE PollWcSize
      <4>1. n \in 1 .. Len(cq) /\ batch' = SubSeq(cq, 1, n)
        BY <2>1, <3>1, ServerAssumption DEF PollCq
      <4>2. \A i \in 1 .. n : cq[i] \in Completions
        BY <3>1, <4>1, ElementOfSeq
      <4>3. Len(batch') = n
        BY <4>1, <4>2, SubSeqProperties
      <4>4. QED
        BY <4>1, <4>3, EmptySeq
    <3>3. QED
      BY <2>1, <3>2 DEF PollCq
  <2>2. CASE GetCqEvent \/ ReqNotify \/ PollEventFails
    BY <2>2 DEF GetCqEvent, ReqNotify, PollEventFails
  <2>3. QED
    BY <1>7, <2>1, <2>2 DEF PollNext
<1>8. CASE WorkNext
  <2>1. ASSUME NextCompletion
        PROVE  /\ pc' # "disconnect" /\ pc' # "start"
               /\ (pc' \in {"work", "head", "reply"} => batch' # <<>>)
    BY <2>1 DEF NextCompletion
  <2>2. UNCHANGED <<cm, cmReady>>
    BY <1>8 DEF WorkNext, HandleBadCompletion, HandleRecv, HandleRecvFails, HandleSent,
       HandleReadDone, LookForHead, RegisterCrash,
       ReadPastBuffer, Reply
  <2>3. CASE HandleRecv \/ LookForHead \/ RegisterCrash \/ ReadPastBuffer
    BY <2>2, <2>3 DEF HandleRecv, LookForHead, RegisterCrash, ReadPastBuffer
  <2>4. CASE HandleBadCompletion \/ HandleRecvFails \/ HandleSent \/ HandleReadDone \/ Reply
    <3>1. NextCompletion
      BY <2>4 DEF HandleBadCompletion, HandleRecvFails, HandleSent, HandleReadDone, Reply
    <3>2. QED
      BY <2>1, <2>2, <3>1
  <2>5. QED
    BY <1>8, <2>3, <2>4 DEF WorkNext
<1>9. CASE CrashOnFreed
  BY <1>9 DEF CrashOnFreed
<1>10. CASE Start \/ StartFails \/ StartWithoutChannel
  BY <1>10 DEF Start, StartFails, StartWithoutChannel
<1>11. CASE UNCHANGED vars
  BY <1>11 DEF vars
<1>12. QED
  BY <1>1, <1>2, <1>3, <1>4, <1>5, <1>6, <1>7, <1>8, <1>9, <1>10, <1>11
  DEF Next, ServerNext

LEMMA TypeCorrectInit == Init => TypeOK /\ HandlersHaveInput
<1> SUFFICES ASSUME Init PROVE TypeOK /\ HandlersHaveInput
  OBVIOUS
<1>1. PeerTypeOK /\ ConnTypeOK
  BY DEF Init, PeerTypeOK, ConnTypeOK, ConnStates
<1>2. QpTypeOK
  BY DEF Init, QpTypeOK, Cells
<1>3. CqTypeOK
  <2>1. armed \in BOOLEAN
    BY Zenon DEF Init
  <2>2. cq \in Seq(Completions) /\ events \in Nat
    BY DEF Init
  <2>3. QED
    BY <2>1, <2>2 DEF CqTypeOK
<1>6. LoopTypeOK
  <2>1. faults \in 0 .. MaxFaults
    BY ServerAssumption DEF Init
  <2>2. pc \in Pcs /\ batch \in Seq(Completions)
    BY DEF Init, Pcs
  <2>3. /\ cmReady \in BOOLEAN /\ cmFirst \in BOOLEAN /\ full \in BOOLEAN
        /\ pollReady \in SUBSET Conns
    BY Zenon DEF Init
  <2>4. QED
    BY <2>1, <2>2, <2>3 DEF LoopTypeOK
<1>4. HandlersHaveInput
  BY DEF Init, HandlersHaveInput
<1>5. QED
  BY <1>1, <1>2, <1>3, <1>4, <1>6 DEF TypeOK

\* The variables keep their types and no handler runs without input, however
\* many connections, buffers and failures there are.
THEOREM TypeCorrect == SafeSpec => [](TypeOK /\ HandlersHaveInput)
<1>1. TypeOK /\ HandlersHaveInput /\ [Next]_vars => (TypeOK /\ HandlersHaveInput)'
  BY TypeStep, InputStep
<1>2. QED
  BY <1>1, TypeCorrectInit, PTL DEF SafeSpec

------------------------------------------------------------------------------
(***************************************************************************)
(* The notification protocol. NoLostWakeup is inductive together with      *)
(* NotificationToken: when the adapter queues a completion, either the     *)
(* queue is armed and an event is raised, or the token is already on its   *)
(* way to the handler.                                                     *)
(***************************************************************************)
WakeupInv == TypeOK /\ HandlersHaveInput /\ NotificationToken /\ NoLostWakeup

\* Steps of the server before the completion queue is looked at.
LEMMA QuietStep ==
    ASSUME WakeupInv, UNCHANGED cqVars, faults' >= faults, pc' \in Pcs \ {"notify"},
           pc # "notify", Running, Running' => (Busy => Busy')
    PROVE  NotificationToken' /\ NoLostWakeup'
<1> USE DEF WakeupInv
<1>1. faults' = 0 => faults = 0
  BY ServerAssumption DEF TypeOK, LoopTypeOK
<1>2. cq' = cq /\ armed' = armed /\ events' = events
  OBVIOUS
<1>3. (armed' <=> armed) /\ pc # "notify" /\ pc' # "notify" /\ pc # "start"
  BY <1>2 DEF Running
<1>4. NotificationToken'
  BY <1>1, <1>2, <1>3, Zenon DEF NotificationToken
<1>5. NoLostWakeup'
  BY <1>1, <1>2 DEF NoLostWakeup, Awake, Running, Dead
<1>6. QED
  BY <1>4, <1>5

LEMMA FaultsGrow ==
    ASSUME TypeOK, Next
    PROVE  faults' >= faults
<1>1. faults \in Int
  BY ServerAssumption DEF TypeOK, LoopTypeOK
<1>2. faults' = faults \/ Fault
  BY DEF Next, ServerNext, PeerNext, PeerConnect, PeerEstablished, PeerLeave, HcaNext,
     HcaReceive, HcaReceiveTooLong, HcaSend, HcaSendFails, HcaFlush, CmNext, Accept,
     RefuseConnect, AcceptPartly, AcceptCrash, CmIgnore, Release, Start, StartFails,
     StartWithoutChannel, Dispatch,
     RunPollEvent, DisconnectFailed, CrashOnFreed, PollNext, GetCqEvent, ReqNotify,
     PollCq, PollEventFails, WorkNext, HandleBadCompletion, HandleRecv,
     HandleRecvFails, HandleSent, HandleReadDone, LookForHead, RegisterCrash,
     ReadPastBuffer, Reply, PostSend
<1>3. QED
  BY <1>1, <1>2 DEF Fault

\* The adapter queues completions and changes nothing of the server thread.
LEMMA HcaCompletes ==
    ASSUME NEW c \in Conns, HcaNext(c)
    PROVE  /\ Running
           /\ UNCHANGED <<loopVars, faults>>
           /\ \E op, status, buf, msg : Complete(c, op, status, buf, msg)
<1>1. ASSUME NEW m \in Messages, HcaReceive(c, m) \/ HcaReceiveTooLong(c, m)
      PROVE  /\ Running
             /\ UNCHANGED <<loopVars, faults>>
             /\ \E op, status, buf, msg : Complete(c, op, status, buf, msg)
  BY <1>1 DEF HcaReceive, HcaReceiveTooLong
<1>2. CASE HcaSend(c) \/ HcaSendFails(c)
  BY <1>2 DEF HcaSend, HcaSendFails
<1>3. CASE HcaFlush(c)
  BY <1>3 DEF HcaFlush
<1>4. QED
  BY <1>1, <1>2, <1>3 DEF HcaNext

LEMMA WakeupStep ==
    ASSUME WakeupInv, [Next]_vars
    PROVE  WakeupInv'
<1> USE DEF WakeupInv
<1>1. TypeOK' /\ HandlersHaveInput'
  BY TypeStep, InputStep
<1>2. faults \in Nat /\ events \in Nat
  BY ServerAssumption DEF TypeOK, LoopTypeOK, CqTypeOK
<1>3. ASSUME NEW c \in Conns, HcaNext(c)
      PROVE  NotificationToken' /\ NoLostWakeup'
  <2>1. UNCHANGED <<loopVars, faults>> /\ pc # "start"
    BY <1>3, HcaCompletes DEF Running
  <2>2. armed' = FALSE /\ (armed => events' = events + 1) /\ (~armed => events' = events)
    BY <1>3, HcaCompletes, Zenon DEF Complete
  <2>3. CASE armed
    BY <1>2, <2>1, <2>2, <2>3 DEF NotificationToken, NoLostWakeup, Awake
  <2>4. CASE ~armed
    BY <1>2, <2>1, <2>2, <2>4 DEF NotificationToken, NoLostWakeup, Awake, Busy
  <2>5. QED
    BY <2>3, <2>4
<1>4. ASSUME NEW c \in Conns, PeerNext(c)
      PROVE  NotificationToken' /\ NoLostWakeup'
  <2>1. UNCHANGED <<cqVars, loopVars, faults>>
    BY <1>4 DEF PeerNext, PeerConnect, PeerEstablished, PeerLeave
  <2>2. QED
    BY <2>1 DEF NotificationToken, NoLostWakeup, Awake, Busy, Running, Dead
<1>5. ASSUME \/ \E c \in Conns : CmNext(c) \/ RunPollEvent(c)
             \/ Dispatch \/ DisconnectFailed \/ CrashOnFreed
      PROVE  NotificationToken' /\ NoLostWakeup'
  <2>1. UNCHANGED cqVars /\ pc' # "notify"
    BY <1>5 DEF CmNext, Accept, RefuseConnect, AcceptPartly, AcceptCrash, CmIgnore,
       Release, CmHandler, RunPollEvent, Dispatch, DisconnectFailed, CrashOnFreed
  <2>2. pc # "notify" /\ Running /\ (~Busy \/ ~Running')
    BY <1>5 DEF CmNext, Accept, RefuseConnect, AcceptPartly, AcceptCrash, CmIgnore,
       Release, CmHandler, RunPollEvent, Dispatch, DisconnectFailed, CrashOnFreed, Busy,
       Running, Dead
  <2>3. faults' >= faults
    BY <1>5, FaultsGrow DEF Next, ServerNext
  <2>4. QED
    BY <1>1, <2>1, <2>2, <2>3, QuietStep DEF TypeOK, LoopTypeOK
<1>6. ASSUME WorkNext
      PROVE  NotificationToken' /\ NoLostWakeup'
  <2>1. UNCHANGED cqVars /\ pc \in {"work", "head", "reply"} /\ pc' # "notify"
    BY <1>6 DEF WorkNext, HandleBadCompletion, HandleRecv, HandleRecvFails, HandleSent,
       HandleReadDone, LookForHead, RegisterCrash, ReadPastBuffer, Reply, NextCompletion
  <2>2. \/ pc' \in {"work", "head", "reply", "crashed"} /\ (full => full')
        \/ pc' = "poll"
        \/ ~full
    <3>1. CASE HandleRecv \/ LookForHead \/ RegisterCrash \/ ReadPastBuffer
      BY <3>1 DEF HandleRecv, LookForHead, RegisterCrash, ReadPastBuffer
    <3>2. ASSUME NextCompletion
          PROVE  (pc' = "work" /\ (full => full')) \/ pc' = "poll" \/ ~full
      BY <3>2, Zenon DEF NextCompletion
    <3>3. QED
      BY <1>6, <3>1, <3>2 DEF WorkNext, HandleBadCompletion, HandleRecvFails,
         HandleSent, HandleReadDone, Reply
  <2>3. Running /\ (Running' => (Busy => Busy'))
    BY <2>1, <2>2 DEF Busy, Running, Dead
  <2>4. faults' >= faults
    BY <1>6, FaultsGrow DEF Next, ServerNext
  <2>5. QED
    BY <1>1, <2>1, <2>3, <2>4, QuietStep DEF TypeOK, LoopTypeOK
<1>7. ASSUME PollNext
      PROVE  NotificationToken' /\ NoLostWakeup'
  <2>1. CASE GetCqEvent
    <3>1. events' = 0 /\ events' <= 1 /\ pc' = "notify"
      BY <1>2, <2>1 DEF GetCqEvent, NotificationToken
    <3>2. ~armed'
      <4>1. events = 1 /\ armed' = armed
        BY <1>2, <2>1 DEF GetCqEvent, NotificationToken
      <4>2. QED
        BY <4>1, Zenon DEF NotificationToken
    <3>3. NotificationToken'
      BY <3>1, <3>2, Zenon DEF NotificationToken
    <3>4. NoLostWakeup'
      BY <3>1 DEF NoLostWakeup, Awake, Busy
    <3>5. QED
      BY <3>3, <3>4
  <2>2. CASE ReqNotify
    <3>1. /\ events' = 0 /\ events' # 1 /\ events' <= 1 /\ armed'
          /\ pc' = "poll" /\ pc' # "notify"
      BY <2>2 DEF ReqNotify, NotificationToken
    <3>2. NotificationToken'
      BY <3>1, Zenon DEF NotificationToken
    <3>3. NoLostWakeup'
      BY <3>1 DEF NoLostWakeup, Awake, Busy
    <3>4. QED
      BY <3>2, <3>3
  <2>3. CASE PollCq
    <3>1. NotificationToken'
      BY <2>3 DEF PollCq, NotificationToken
    <3>2. NoLostWakeup'
      <4>1. cq \in Seq(Completions) /\ Len(cq) \in Nat
        BY LenProperties DEF TypeOK, CqTypeOK
      <4>2. CASE Len(cq) < PollWcSize
        <5>1. cq' = SubSeq(cq, Len(cq) + 1, Len(cq))
          BY <2>3, <4>2 DEF PollCq
        <5>2. cq' = <<>>
          BY <4>1, <5>1, SubSeqEmpty
        <5>3. QED
          BY <5>2 DEF NoLostWakeup
      <4>3. CASE ~(Len(cq) < PollWcSize)
        <5>1. full' /\ pc' = "work"
          BY <2>3, <4>1, <4>3, ServerAssumption DEF PollCq
        <5>2. QED
          BY <5>1 DEF NoLostWakeup, Awake, Busy
      <4>4. QED
        BY <4>2, <4>3
    <3>3. QED
      BY <3>1, <3>2
  <2>4. CASE PollEventFails
    <3>1. faults' # 0
      BY <1>2, <2>4 DEF PollEventFails, Fault
    <3>2. UNCHANGED cqVars /\ pc' = "loop"
      BY <2>4 DEF PollEventFails
    <3>3. NotificationToken'
      BY <3>1, <3>2, Zenon DEF NotificationToken
    <3>4. NoLostWakeup'
      BY <3>1 DEF NoLostWakeup
    <3>5. QED
      BY <3>3, <3>4
  <2>5. QED
    BY <1>7, <2>1, <2>2, <2>3, <2>4 DEF PollNext
<1>8. ASSUME UNCHANGED vars
      PROVE  NotificationToken' /\ NoLostWakeup'
  <2>1. UNCHANGED <<cqVars, loopVars, faults>>
    BY <1>8 DEF vars
  <2>2. QED
    BY <2>1, Zenon DEF NotificationToken, NoLostWakeup, Awake, Busy, Running, Dead
<1>9. CASE Start
  <2>1. /\ cq' = <<>> /\ events' = 0 /\ events' # 1 /\ events' <= 1
        /\ armed' /\ pc' = "loop" /\ pc' # "notify"
    BY <1>9 DEF Start, HandlersHaveInput
  <2>2. NotificationToken'
    BY <2>1, Zenon DEF NotificationToken
  <2>3. NoLostWakeup'
    BY <2>1 DEF NoLostWakeup
  <2>4. QED
    BY <1>1, <2>2, <2>3
<1>10. CASE StartFails \/ StartWithoutChannel
  <2>1. /\ UNCHANGED cqVars /\ (armed' <=> armed)
        /\ pc' # "notify" /\ pc' # "start" /\ faults' # 0
    BY <1>2, <1>10 DEF StartFails, StartWithoutChannel, Fault
  <2>2. NotificationToken'
    BY <2>1, Zenon DEF NotificationToken
  <2>3. NoLostWakeup'
    BY <2>1 DEF NoLostWakeup
  <2>4. QED
    BY <1>1, <2>2, <2>3
<1>11. QED
  BY <1>1, <1>3, <1>4, <1>5, <1>6, <1>7, <1>8, <1>9, <1>10 DEF Next, ServerNext

LEMMA WakeupInit == Init => WakeupInv
BY TypeCorrectInit DEF Init, WakeupInv, NotificationToken, NoLostWakeup

LEMMA WakeupInvariant == SafeSpec => []WakeupInv
BY WakeupInit, WakeupStep, PTL DEF SafeSpec

\* The notification of the completion queue is never doubled, and never lost
\* unless a verbs call fails.
THEOREM TokenKept == SafeSpec => []NotificationToken
BY WakeupInvariant, PTL DEF WakeupInv

\* The server never stops polling with a completion in the queue, for any batch
\* size and any number of connections.
THEOREM NoWakeupLost == SafeSpec => []NoLostWakeup
BY WakeupInvariant, PTL DEF WakeupInv

------------------------------------------------------------------------------
(***************************************************************************)
(* The server is a NotifiedQueue. Every step of the adapter is an Add,     *)
(* ibv_poll_cq is a Take, a Sleep or a stutter, a crash is a Die, and      *)
(* nothing else shows.                                                     *)
(***************************************************************************)
\* A step that shows nothing of the queue.
LEMMA Stutter ==
    ASSUME cq' = cq, Dead' <=> Dead, Running' /\ Awake' <=> Running /\ Awake
    PROVE  UNCHANGED NQ!vars
<1>1. (Running /\ Awake)' = (Running /\ Awake)
  OBVIOUS
<1>2. Dead' = Dead
  OBVIOUS
<1>3. QED
  BY <1>1, <1>2 DEF NQ!vars

LEMMA Crash ==
    ASSUME cq' = cq, pc' = "crashed"
    PROVE  NQ!Die
<1>1. Dead' = TRUE /\ (Running /\ Awake)' = FALSE
  BY DEF Running, Dead
<1>2. QED
  BY <1>1 DEF NQ!Die

LEMMA RefinesStep ==
    ASSUME MaxFaults = 0, WakeupInv, WakeupInv', [Next]_vars
    PROVE  [NQ!Next]_(NQ!vars)
<1>1. faults = 0 /\ faults' = 0 /\ ~Fault
  BY DEF WakeupInv, TypeOK, LoopTypeOK, Fault
<1>2. NoLostWakeup /\ NoLostWakeup'
  BY DEF WakeupInv
<1>3. cq \in Seq(Completions) /\ Len(cq) \in Nat /\ cq' \in Seq(Completions) /\ Len(cq') \in Nat
  BY LenProperties DEF WakeupInv, TypeOK, CqTypeOK
<1>4. ASSUME NEW c \in Conns, HcaNext(c)
      PROVE  NQ!Add
  <2>1. Running /\ Running' /\ Dead = FALSE /\ Dead' = FALSE
    BY <1>4, HcaCompletes DEF HcaNext, HcaReceive, HcaReceiveTooLong, HcaSend,
       HcaSendFails, HcaFlush, Running, Dead
  <2>2. Len(cq') = Len(cq) + 1 /\ cq' # <<>>
    <3>1. PICK op, status, buf, msg : Complete(c, op, status, buf, msg)
      BY <1>4, HcaCompletes
    <3>2. cq' = Append(cq, [conn |-> c, op |-> op, status |-> status,
                            buf |-> buf, msg |-> msg])
      BY <3>1 DEF Complete
    <3>3. QED
      BY <1>3, <3>2, AppendProperties
  <2>3. Awake'
    BY <1>1, <1>2, <2>1, <2>2 DEF NoLostWakeup
  <2>4. (Running /\ Awake)' = TRUE /\ Dead' = Dead
    BY <2>1, <2>3
  <2>5. QED
    BY <2>1, <2>2, <2>4 DEF NQ!Add
<1>5. ASSUME NEW c \in Conns, PeerNext(c)
      PROVE  UNCHANGED NQ!vars
  <2>1. UNCHANGED <<cqVars, loopVars>>
    BY <1>5 DEF PeerNext, PeerConnect, PeerEstablished, PeerLeave
  <2>2. QED
    BY <2>1, Stutter DEF Running, Dead, Awake, Busy
<1>6. ASSUME \/ \E c \in Conns : CmNext(c) \/ RunPollEvent(c)
             \/ Dispatch \/ DisconnectFailed \/ CrashOnFreed
      PROVE  UNCHANGED NQ!vars \/ NQ!Die
  <2>1. UNCHANGED cqVars
    BY <1>6 DEF CmNext, Accept, RefuseConnect, AcceptPartly, AcceptCrash, CmIgnore,
       Release, CmHandler, RunPollEvent, Dispatch, DisconnectFailed, CrashOnFreed
  <2>2. \/ pc' = "crashed"
        \/ pc \in {"loop", "disconnect"} /\ pc' \in {"loop", "disconnect", "get"}
    BY <1>6 DEF CmNext, Accept, RefuseConnect, AcceptPartly, AcceptCrash, CmIgnore,
       Release, CmHandler, RunPollEvent, Dispatch, DisconnectFailed, CrashOnFreed
  <2>3. CASE pc' = "crashed"
    BY <2>1, <2>3, Crash
  <2>4. CASE pc \in {"loop", "disconnect"} /\ pc' \in {"loop", "disconnect", "get"}
    BY <2>1, <2>4, Stutter DEF Running, Dead, Awake, Busy
  <2>5. QED
    BY <2>2, <2>3, <2>4
<1>7. ASSUME WorkNext
      PROVE  UNCHANGED NQ!vars \/ NQ!Die
  <2>1. UNCHANGED cqVars /\ pc \in {"work", "head", "reply"} /\ pc' # "notify"
    BY <1>7 DEF WorkNext, HandleBadCompletion, HandleRecv, HandleRecvFails, HandleSent,
       HandleReadDone, LookForHead, RegisterCrash, ReadPastBuffer, Reply, NextCompletion
  <2>2. \/ pc' \in {"work", "head", "reply"} /\ full' = full
        \/ NextCompletion
        \/ pc' = "crashed"
    BY <1>1, <1>7 DEF WorkNext, HandleBadCompletion, HandleRecv, HandleRecvFails,
       HandleSent, HandleReadDone, LookForHead, RegisterCrash,
       ReadPastBuffer, Reply
  <2>3. CASE pc' \in {"work", "head", "reply"} /\ full' = full
    BY <2>1, <2>3, Stutter DEF Running, Dead, Awake, Busy
  <2>4. CASE NextCompletion
    <3>1. CASE Tail(batch) # <<>>
      <4>1. pc' = "work" /\ (full' <=> full)
        BY <2>4, <3>1 DEF NextCompletion
      <4>2. QED
        BY <2>1, <4>1, Stutter DEF Running, Dead, Awake, Busy
    <3>2. CASE Tail(batch) = <<>> /\ full
      <4>1. pc' = "poll"
        BY <2>4, <3>2 DEF NextCompletion
      <4>2. QED
        BY <2>1, <3>2, <4>1, Stutter DEF Running, Dead, Awake, Busy
    <3>3. CASE Tail(batch) = <<>> /\ ~full
      <4>1. pc' = "loop"
        BY <2>4, <3>3 DEF NextCompletion
      <4>2. QED
        BY <2>1, <3>3, <4>1, Stutter DEF Running, Dead, Awake, Busy
    <3>4. QED
      BY <3>1, <3>2, <3>3
  <2>5. CASE pc' = "crashed"
    BY <2>1, <2>5, Crash
  <2>6. QED
    BY <2>2, <2>3, <2>4, <2>5
<1>8. ASSUME GetCqEvent \/ ReqNotify
      PROVE  UNCHANGED NQ!vars
  <2>1. cq' = cq /\ Running /\ Running' /\ ~Dead /\ ~Dead' /\ Awake /\ Awake'
    BY <1>8 DEF GetCqEvent, ReqNotify, Running, Dead, Awake, Busy
  <2>2. QED
    BY <2>1, Stutter
<1>9. ASSUME PollCq
      PROVE  NQ!Take \/ NQ!Sleep \/ UNCHANGED NQ!vars
  <2> DEFINE n == IF Len(cq) < PollWcSize THEN Len(cq) ELSE PollWcSize
  <2>1. n \in 0 .. Len(cq) /\ (n = 0 => Len(cq) = 0)
    BY <1>3, ServerAssumption
  <2>2. Running /\ Running' /\ Awake /\ Dead = FALSE /\ Dead' = FALSE
    BY <1>9 DEF PollCq, Running, Dead, Awake, Busy
  <2>3. Len(cq') = Len(cq) - n
    <3>1. cq' = SubSeq(cq, n + 1, Len(cq))
      BY <1>9 DEF PollCq
    <3>2. \A i \in n + 1 .. Len(cq) : cq[i] \in Completions
      BY <1>3, <2>1, ElementOfSeq
    <3>3. QED
      BY <1>3, <2>1, <3>1, <3>2, SubSeqProperties
  <2>4. Len(cq') > 0 => Awake'
    BY <1>1, <1>2, <1>3, <2>2, EmptySeq DEF NoLostWakeup
  <2>5. CASE n = 0
    <3>1. Len(cq) = 0 /\ Len(cq') = Len(cq)
      BY <1>3, <2>1, <2>3, <2>5
    <3>2. CASE Awake'
      <4>1. (Running /\ Awake)' = (Running /\ Awake) /\ Dead' = Dead
        BY <2>2, <3>2
      <4>2. QED
        BY <3>1, <4>1 DEF NQ!vars
    <3>3. CASE ~Awake'
      <4>1. (Running /\ Awake)' = FALSE /\ Dead' = Dead
        BY <2>2, <3>3
      <4>2. QED
        BY <2>2, <3>1, <4>1 DEF NQ!Sleep
    <3>4. QED
      BY <3>2, <3>3
  <2>6. CASE n # 0
    <3>1. Len(cq') \in 0 .. (Len(cq) - 1)
      BY <1>3, <2>1, <2>3, <2>6
    <3>2. (Running /\ Awake)' \in BOOLEAN /\ Dead' = Dead
      BY <2>2
    <3>3. Len(cq') > 0 => (Running /\ Awake)'
      BY <2>2, <2>4
    <3>4. QED
      BY <2>2, <3>1, <3>2, <3>3 DEF NQ!Take
  <2>7. QED
    BY <2>5, <2>6
<1>10. ~PollEventFails
  BY <1>1 DEF PollEventFails
<1>11. CASE UNCHANGED vars
  <2>1. UNCHANGED <<cqVars, loopVars>>
    BY <1>11 DEF vars
  <2>2. QED
    BY <2>1, Stutter DEF Running, Dead, Awake, Busy
<1>12. ASSUME Start
       PROVE  UNCHANGED NQ!vars
  <2>1. cq' = cq /\ ~Dead /\ ~Dead' /\ ~Running /\ ~Awake'
    BY <1>12 DEF Start, WakeupInv, HandlersHaveInput, Running, Dead, Awake, Busy
  <2>2. QED
    BY <2>1, Stutter
<1>13. ~StartFails /\ ~StartWithoutChannel
  BY <1>1 DEF StartFails, StartWithoutChannel
<1>14. QED
  BY <1>4, <1>5, <1>6, <1>7, <1>8, <1>9, <1>10, <1>11, <1>12, <1>13
  DEF Next, ServerNext, PollNext, NQ!Next

\* When no verbs call fails, the server implements the safety part of
\* NotifiedQueue: its consumer never sleeps with entries in the queue.
THEOREM ServerRefinesNotifiedQueue ==
    ASSUME MaxFaults = 0
    PROVE  SafeSpec => NQ!SafeSpec
<1>1. Init => NQ!Init
  <2> SUFFICES ASSUME Init PROVE NQ!Init
    OBVIOUS
  <2>1. Len(cq) = 0 /\ Dead = FALSE
    BY DEF Init, Dead
  <2>2. (Running /\ Awake) = FALSE
    BY DEF Init, Running
  <2>3. QED
    BY <2>1, <2>2 DEF NQ!Init
<1>2. WakeupInv /\ WakeupInv' /\ [Next]_vars => [NQ!Next]_(NQ!vars)
  BY RefinesStep
<1>3. QED
  BY <1>1, <1>2, WakeupInvariant, PTL DEF SafeSpec, NQ!SafeSpec

------------------------------------------------------------------------------
(***************************************************************************)
(* Who waits in vain.                                                      *)
(***************************************************************************)
\* Which poll_events libevent still has to run. One event on the channel activates
\* all that are registered; the first of them takes it.
PollInv ==
    /\ IsFiniteSet(registered) /\ pollReady \subseteq registered
    /\ pc = "get" => pollReady # registered
    /\ pollReady # {} /\ events = 0 => pollReady # registered
    /\ pc = "get" /\ events = 0 => \E c, d \in registered : c # d

LEMMA PollStep ==
    ASSUME TypeOK, PollInv, [Next]_vars
    PROVE  PollInv'
<1> USE DEF PollInv
<1>1. events \in Nat
  BY DEF TypeOK, CqTypeOK
<1>2. ASSUME NEW c \in Conns, HcaNext(c)
      PROVE  PollInv'
  <2>1. UNCHANGED <<loopVars, registered>>
    BY <1>2 DEF HcaNext, HcaReceive, HcaReceiveTooLong, HcaSend, HcaSendFails, HcaFlush
  <2>2. events' = events \/ events' = events + 1
    BY <1>2, HcaCompletes, Zenon DEF Complete
  <2>3. QED
    BY <1>1, <2>1, <2>2
<1>3. ASSUME NEW c \in Conns, Accept(c)
      PROVE  PollInv'
  <2>1. registered' = registered \cup {c} /\ UNCHANGED <<pollReady, cqVars, pc>> /\ pc = "loop"
    BY <1>3 DEF Accept, CmHandler
  <2>2. IsFiniteSet(registered')
    BY <2>1, FS_AddElement
  <2>3. QED
    BY <2>1, <2>2
<1>4. ASSUME NEW c \in Conns, RunPollEvent(c)
      PROVE  PollInv'
  <2>1. /\ c \in pollReady /\ pollReady' = pollReady \ {c} /\ pc' = "get"
        /\ UNCHANGED <<registered, events>>
    BY <1>4 DEF RunPollEvent
  <2>2. events = 0 => \E d \in registered : d # c
    BY <2>1
  <2>3. QED
    BY <2>1, <2>2
<1>5. CASE GetCqEvent
  BY <1>1, <1>5 DEF GetCqEvent
<1>6. CASE Dispatch
  BY <1>6 DEF Dispatch
<1>7. CASE UNCHANGED <<registered, pollReady, events>> /\ pc' # "get"
  BY <1>7
<1>8. CASE UNCHANGED <<registered, pollReady, events, pc>>
  BY <1>8
<1>9. ASSUME NEW c \in Conns, PeerNext(c)
      PROVE  UNCHANGED <<registered, pollReady, events, pc>>
  BY <1>9 DEF PeerNext, PeerConnect, PeerEstablished, PeerLeave
<1>10. ASSUME NEW c \in Conns, CmNext(c), ~Accept(c)
       PROVE  UNCHANGED <<registered, pollReady, events>> /\ pc' # "get"
  BY <1>10 DEF CmNext, RefuseConnect, AcceptPartly, AcceptCrash, CmIgnore, Release,
     CmHandler
<1>11. ASSUME \/ Start \/ StartFails \/ StartWithoutChannel \/ DisconnectFailed
              \/ CrashOnFreed \/ ReqNotify \/ PollCq \/ PollEventFails
       PROVE  UNCHANGED <<registered, pollReady, events>> /\ pc' # "get"
  BY <1>11 DEF Start, StartFails, StartWithoutChannel, DisconnectFailed, CrashOnFreed,
     ReqNotify, PollCq, PollEventFails
<1>12. ASSUME WorkNext
       PROVE  UNCHANGED <<registered, pollReady, events>> /\ pc' # "get"
  BY <1>12 DEF WorkNext, HandleBadCompletion, HandleRecv, HandleRecvFails, HandleSent,
     HandleReadDone, LookForHead, RegisterCrash, ReadPastBuffer, Reply, NextCompletion
<1>13. CASE UNCHANGED vars
  BY <1>8, <1>13 DEF vars
<1>14. QED
  BY <1>2, <1>3, <1>4, <1>5, <1>6, <1>7, <1>8, <1>9, <1>10, <1>11, <1>12, <1>13
  DEF Next, ServerNext, PollNext

\* The server waits for an event that is not there only if another poll_event was
\* activated with the one that took it, for any number of connections.
THEOREM BlocksOnlyBehindAnother == SafeSpec => []BlocksOnlyWithTwoPollEvents
<1>1. Init => PollInv
  BY FS_EmptySet DEF Init, PollInv
<1>2. TypeOK /\ PollInv /\ [Next]_vars => PollInv'
  BY PollStep
<1>3. ASSUME PollInv PROVE BlocksOnlyWithTwoPollEvents
  <2> SUFFICES ASSUME pc = "get", events = 0
               PROVE  Cardinality(registered) > 1
    BY DEF BlocksOnlyWithTwoPollEvents
  <2>1. PICK c, d \in registered : c # d
    BY <1>3 DEF PollInv
  <2>2. IsFiniteSet(registered) /\ Cardinality(registered) \in Nat
    BY <1>3, FS_CardinalityType DEF PollInv
  <2>3. Cardinality(registered) # 0 /\ Cardinality(registered) # 1
    <3>1. registered # {} /\ ~(\E x : registered = {x})
      BY <2>1
    <3>2. QED
      BY <2>2, <3>1, FS_EmptySet, FS_Singleton
  <2>4. QED
    BY <2>2, <2>3
<1>4. QED
  BY <1>1, <1>2, <1>3, TypeCorrect, PTL DEF SafeSpec

------------------------------------------------------------------------------
(***************************************************************************)
(* Completions on their way: those handle_work_complete has still to count,*)
(* then those in the queue. ibv_poll_cq moves them from one to the other,  *)
(* so what a step does to Waiting is simpler than what it does to each.    *)
(***************************************************************************)
\* Completions that were polled and not counted yet, then those in the queue.
Unhandled ==
    IF pc = "work" THEN batch ELSE IF Inspecting THEN Tail(batch) ELSE <<>>
Waiting == Unhandled \o cq

\* What a completion that waits tells about its connection.
GoodEntry(e) ==
    /\ qp[e.conn] # "none"
    /\ e.status # "ok" => qp[e.conn] = "err"
    /\ e.status = "len" => e.op = "recv"
    /\ IsMessage(e, e.conn) =>
        e.buf \in Bufs /\ e.msg \in Messages /\ Len(e.msg) <= BufCells

GoodOnes == {e \in Completions : GoodEntry(e)}

EntryInv == Waiting \in Seq(GoodOnes)

CurInv == Inspecting => IsMessage(cur, cur.conn) /\ cur \in GoodOnes

\* Large memory is posted to queue pairs that are lost, so nothing arrives in it.
LargeInv == \A c \in Conns : qp[c] = "rts" => rq[c] \in Seq(Bufs)

BatchInv == ~Dead /\ pc \notin {"work", "head", "reply"} => batch = <<>>

\* A request that is not handled is the only one of its connection, which has no
\* queue pair yet.
RequestInv ==
    /\ \A i \in DOMAIN cm : cm[i].type = "request" =>
        /\ peer[cm[i].conn] # "idle"
        /\ qp[cm[i].conn] = "none" \/ (pc = "disconnect" /\ i = 1)
    /\ \A i, j \in DOMAIN cm :
        cm[i].type = "request" /\ cm[j].type = "request" /\ cm[i].conn = cm[j].conn
            => i = j
    /\ pc = "disconnect" => qp[Head(cm).conn] # "none"

FreshInv ==
    \A c \in Conns :
        /\ peer[c] = "idle" => qp[c] = "none"
        /\ qp[c] = "none" =>
            rq[c] = <<>> /\ sq[c] = <<>> /\ delivered[c] = 0 /\ totalRecv[c] = 0

LifeInv ==
    /\ TypeOK /\ HandlersHaveInput
    /\ BatchInv /\ RequestInv /\ FreshInv /\ EntryInv /\ CurInv /\ LargeInv

RecvsOf(c) == {e \in Completions : e.conn = c /\ e.op = "recv"}
SendsOf(c) == {e \in Completions : e.conn = c /\ e.op # "recv"}
MessagesOf(c) == {e \in Completions : IsMessage(e, c)}
HoldersOf(c, b) == {e \in Completions : Holds(e, c, b)}

CountedInv ==
    ~Dead => \A c \in Conns :
        delivered[c] = totalRecv[c] + Occurrences(Waiting, MessagesOf(c))

RecvBound == \A c \in Conns : Occurrences(Waiting, RecvsOf(c)) + Len(rq[c]) <= NumBufs
SendBound == \A c \in Conns : Len(sq[c]) + Occurrences(cq, SendsOf(c)) <= MaxSendWr

BufferInv ==
    faults = 0 /\ ~Dead => \A c \in Conns : qp[c] = "rts" => \A b \in Bufs :
        Occurrences(rq[c], {b}) + Occurrences(Waiting, HoldersOf(c, b)) = 1

\* The buffer of a message that waits starts with it, unless it was freed.
IntactOnes ==
    {e \in Completions :
        IsMessage(e, e.conn) /\ conn[e.conn] # "released"
            => SubSeq(mem[e.conn][e.buf], 1, Len(e.msg)) = e.msg}

IntactInv == faults = 0 /\ ~Dead => Waiting \in Seq(IntactOnes)

\* The buffer that is looked at was posted behind all others.
LastInv ==
    faults = 0 /\ Inspecting /\ qp[cur.conn] = "rts" =>
        \A i \in DOMAIN rq[cur.conn] :
            rq[cur.conn][i] = cur.buf => i = Len(rq[cur.conn])

LEMMA WaitingType ==
    ASSUME TypeOK, HandlersHaveInput
    PROVE  /\ Unhandled \in Seq(Completions)
           /\ Waiting \in Seq(Completions)
           /\ cq \in Seq(Completions)
           /\ batch \in Seq(Completions)
           /\ pc \in {"work", "head", "reply"} => batch # <<>> /\ cur \in Completions
<1>1. cq \in Seq(Completions) /\ batch \in Seq(Completions)
  BY DEF TypeOK, CqTypeOK, LoopTypeOK
<1>2. pc \in {"work", "head", "reply"} => batch # <<>>
  BY DEF HandlersHaveInput
<1>3. batch # <<>> => Tail(batch) \in Seq(Completions) /\ cur \in Completions
  BY <1>1, HeadTailProperties DEF cur
<1>4. Unhandled \in Seq(Completions)
  BY <1>1, <1>2, <1>3, EmptySeq DEF Unhandled, Inspecting
<1>5. Waiting \in Seq(Completions)
  BY <1>1, <1>4, ConcatProperties DEF Waiting
<1>6. QED
  BY <1>1, <1>2, <1>3, <1>4, <1>5

\* The adapter adds one at the end.
LEMMA WaitingAdd ==
    ASSUME TypeOK, HandlersHaveInput, UNCHANGED loopVars, NEW c \in Conns, NEW op \in Ops,
           NEW status \in {"ok", "len", "flush"}, NEW buf \in Bufs \cup {LargeBuf},
           NEW msg \in Messages \cup {<<>>}, Complete(c, op, status, buf, msg),
           NEW e, e = [conn |-> c, op |-> op, status |-> status, buf |-> buf, msg |-> msg]
    PROVE  /\ e \in Completions
           /\ Waiting' = Append(Waiting, e)
           /\ cq' = Append(cq, e)
<1>1. e \in Completions
  BY DEF Completions
<1>2. cq' = Append(cq, e)
  BY DEF Complete
<1>3. Unhandled' = Unhandled
  BY DEF Unhandled, Inspecting
<1>4. QED
  BY <1>1, <1>2, <1>3, WaitingType, AppendToConcat DEF Waiting

\* Handling a completion takes the first one.
LEMMA WaitingTake ==
    ASSUME TypeOK, HandlersHaveInput, pc = "work", cq' = cq,
           NextCompletion \/ (pc' = "head" /\ batch' = batch)
    PROVE  /\ Waiting # <<>> /\ Head(Waiting) = cur
           /\ Waiting' = Tail(Waiting)
<1>1. batch # <<>> /\ Unhandled = batch
  BY WaitingType DEF Unhandled
<1>2. Unhandled' = Tail(batch)
  BY DEF Unhandled, Inspecting, NextCompletion
<1>3. QED
  BY <1>1, <1>2, WaitingType, TailOfConcat DEF Waiting, cur

\* Going on after a buffer was looked at takes none.
LEMMA WaitingNext ==
    ASSUME TypeOK, HandlersHaveInput, Inspecting, cq' = cq,
           NextCompletion \/ (Inspecting' /\ batch' = batch)
    PROVE  Waiting' = Waiting
<1>1. Unhandled' = Tail(batch)
  BY DEF Unhandled, Inspecting, NextCompletion
<1>2. Unhandled = Tail(batch)
  BY DEF Unhandled, Inspecting
<1>3. QED
  BY <1>1, <1>2 DEF Waiting

\* Neither does ibv_poll_cq.
LEMMA WaitingPoll ==
    ASSUME TypeOK, HandlersHaveInput, PollCq
    PROVE  /\ Waiting' = Waiting
           /\ Waiting = cq
           /\ cq = Unhandled' \o cq'
           /\ Unhandled' \in Seq(Completions) /\ cq' \in Seq(Completions)
<1> DEFINE n == IF Len(cq) < PollWcSize THEN Len(cq) ELSE PollWcSize
<1>1. cq \in Seq(Completions) /\ Len(cq) \in Nat /\ n \in 0 .. Len(cq)
  BY ServerAssumption, LenProperties DEF TypeOK, CqTypeOK
<1>2. /\ pc = "poll" /\ batch' = SubSeq(cq, 1, n) /\ cq' = SubSeq(cq, n + 1, Len(cq))
      /\ pc' = IF n = 0 THEN "loop" ELSE "work"
  BY DEF PollCq
<1>3. Waiting = cq
  BY <1>1, <1>2, ConcatEmptySeq DEF Waiting, Unhandled, Inspecting
<1>4. Unhandled' = SubSeq(cq, 1, n)
  <2>1. CASE n = 0
    <3>1. SubSeq(cq, 1, n) = <<>>
      BY <2>1, SubSeqEmpty
    <3>2. QED
      BY <1>2, <2>1, <3>1 DEF Unhandled, Inspecting
  <2>2. CASE n # 0
    BY <1>2, <2>2 DEF Unhandled
  <2>3. QED
    BY <2>1, <2>2
<1>5. SubSeq(cq, 1, n) \o SubSeq(cq, n + 1, Len(cq)) = SubSeq(cq, 1, Len(cq))
  <2> HIDE DEF n
  <2>1. n \in 1 - 1 .. Len(cq) /\ Len(cq) \in n .. Len(cq) /\ 1 \in 1 .. Len(cq) + 1
    BY <1>1
  <2>2. QED
    BY <1>1, <2>1, ConcatAdjacentSubSeq
<1>6. SubSeq(cq, 1, Len(cq)) = cq
  BY <1>1, SubSeqFull
<1>7. cq = Unhandled' \o cq'
  BY <1>2, <1>4, <1>5, <1>6
<1>8. Unhandled' \in Seq(Completions) /\ cq' \in Seq(Completions)
  <2>1. \A i \in 1 .. Len(cq) : cq[i] \in Completions
    BY <1>1, ElementOfSeq
  <2>2. SubSeq(cq, 1, n) \in Seq(Completions)
    BY <1>1, <2>1, SubSeqProperties
  <2>3. SubSeq(cq, n + 1, Len(cq)) \in Seq(Completions)
    BY <1>1, <2>1, SubSeqProperties
  <2>4. QED
    BY <1>2, <1>4, <2>2, <2>3
<1>9. QED
  BY <1>3, <1>7, <1>8 DEF Waiting

\* Steps that leave the connections, the buffers and what waits as they are.
Still ==
    /\ UNCHANGED <<delivered, totalRecv, qp, rq, sq, mem>>
    /\ Waiting' = Waiting
    /\ cq' = cq \/ PollCq
    /\ Inspecting' => Inspecting /\ batch' = batch

\* Steps that end the server. What it had polled is forgotten.
Ends ==
    /\ UNCHANGED <<delivered, totalRecv, qp, rq, sq, cq>>
    /\ Dead' /\ Waiting' = cq

LEMMA StillSteps ==
    ASSUME TypeOK, HandlersHaveInput, BatchInv,
           \/ \E c \in Conns : PeerNext(c)
           \/ Start \/ Dispatch \/ PollNext
           \/ \E c \in Conns : RunPollEvent(c) \/ CmIgnore(c) \/ RefuseConnect(c)
           \/ UNCHANGED vars
    PROVE  Still
<1>1. CASE PollCq
  <2>1. ~Inspecting'
    BY <1>1 DEF PollCq, Inspecting
  <2>2. QED
    BY <1>1, <2>1, WaitingPoll DEF Still, PollCq
<1>2. CASE UNCHANGED <<delivered, totalRecv, qp, rq, sq, mem, cq, batch, pc>>
  BY <1>2 DEF Still, Waiting, Unhandled, Inspecting
<1>3. ASSUME UNCHANGED <<delivered, totalRecv, qp, rq, sq, mem, cq, batch>>,
             pc \notin {"work", "head", "reply"}, pc' \notin {"work", "head", "reply"}
      PROVE  Still
  BY <1>3 DEF Still, Waiting, Unhandled, Inspecting
<1>4. ASSUME NEW c \in Conns, PeerNext(c)
      PROVE  Still
  BY <1>2, <1>4 DEF PeerNext, PeerConnect, PeerEstablished, PeerLeave
<1>5. CASE Start \/ Dispatch
  BY <1>3, <1>5 DEF Start, Dispatch
<1>6. ASSUME NEW c \in Conns, RunPollEvent(c) \/ CmIgnore(c) \/ RefuseConnect(c)
      PROVE  Still
  BY <1>3, <1>6 DEF RunPollEvent, CmIgnore, RefuseConnect, CmHandler
<1>7. CASE GetCqEvent \/ ReqNotify \/ PollEventFails
  BY <1>3, <1>7 DEF GetCqEvent, ReqNotify, PollEventFails
<1>8. CASE UNCHANGED vars
  BY <1>2, <1>8 DEF vars
<1>9. QED
  BY <1>1, <1>4, <1>5, <1>6, <1>7, <1>8 DEF PollNext

LEMMA EndSteps ==
    ASSUME TypeOK, HandlersHaveInput,
           \/ StartFails \/ StartWithoutChannel
           \/ \E c \in Conns : AcceptCrash(c)
           \/ RegisterCrash \/ ReadPastBuffer \/ CrashOnFreed
    PROVE  Ends
<1>1. UNCHANGED <<delivered, totalRecv, qp, rq, sq, cq>> /\ pc' \in {"exited", "crashed"}
  BY DEF StartFails, StartWithoutChannel, AcceptCrash, CmHandler, RegisterCrash,
     ReadPastBuffer, CrashOnFreed
<1>2. Unhandled' = <<>>
  BY <1>1 DEF Unhandled, Inspecting
<1>3. QED
  BY <1>1, <1>2, WaitingType, ConcatEmptySeq DEF Ends, Dead, Waiting

\* What a step of the adapter does: a message arrives, a receive fails, or a send
\* or read is over. e is the completion it adds.
Adds(c, e) ==
    /\ e \in Completions /\ e.conn = c
    /\ Waiting' = Append(Waiting, e) /\ cq' = Append(cq, e)
    /\ UNCHANGED <<peer, cm, conn, totalRecv, loopVars, faults>>

Arrives(c, e) ==
    /\ e.op = "recv" /\ e.status = "ok" /\ e.msg \in Messages /\ Len(e.msg) <= BufCells
    /\ qp[c] = "rts" /\ qp' = qp
    /\ rq[c] # <<>> /\ e.buf = Head(rq[c])
    /\ rq' = [rq EXCEPT ![c] = Tail(@)]
    /\ delivered' = [delivered EXCEPT ![c] = @ + 1]
    /\ mem' = [mem EXCEPT ![c][e.buf] = Deposit(@, e.msg)]
    /\ careless' = IF Careful(e.msg) THEN careless ELSE careless \cup {c}
    /\ sq' = sq

ReceiveFails(c, e) ==
    /\ e.op = "recv" /\ e.status # "ok"
    /\ qp[c] # "none" /\ qp' = [qp EXCEPT ![c] = "err"]
    /\ rq[c] # <<>> /\ rq' = [rq EXCEPT ![c] = Tail(@)]
    /\ UNCHANGED <<delivered, mem, sq>>

IsSent(c, e) ==
    /\ e.op # "recv"
    /\ qp[c] # "none"
    /\ \/ e.status = "ok" /\ qp' = qp
       \/ e.status = "flush" /\ qp' = [qp EXCEPT ![c] = "err"]
    /\ sq[c] # <<>> /\ sq' = [sq EXCEPT ![c] = Tail(@)]
    /\ UNCHANGED <<delivered, mem, rq>>

LEMMA HcaSteps ==
    ASSUME TypeOK, HandlersHaveInput, NEW c \in Conns, HcaNext(c)
    PROVE  \E e : Adds(c, e) /\ (Arrives(c, e) \/ ReceiveFails(c, e) \/ IsSent(c, e))
<1>1. rq[c] # <<>> => Head(rq[c]) \in Bufs \cup {LargeBuf}
  BY QueueTail DEF TypeOK, QpTypeOK
<1>2. sq[c] # <<>> => Head(sq[c]) \in Ops \ {"recv"}
  <2>1. sq[c] # <<>> => Head(sq[c]) \in {"send", "read"}
    BY QueueTail DEF TypeOK, QpTypeOK
  <2>2. QED
    BY <2>1 DEF Ops
<1>3. qp \in [Conns -> {"none", "rts", "err"}]
  BY DEF TypeOK, QpTypeOK
<1> DEFINE entry(op, status, buf, msg) ==
      [conn |-> c, op |-> op, status |-> status, buf |-> buf, msg |-> msg]
<1>4. ASSUME NEW m \in Messages, HcaReceive(c, m)
      PROVE  \E e : Adds(c, e) /\ Arrives(c, e)
  <2> DEFINE e == entry("recv", "ok", Head(rq[c]), m)
  <2>1. /\ Complete(c, "recv", "ok", Head(rq[c]), m)
        /\ Head(rq[c]) \in Bufs \cup {LargeBuf}
        /\ UNCHANGED loopVars
    BY <1>1, <1>4 DEF HcaReceive
  <2>2. e \in Completions /\ Waiting' = Append(Waiting, e) /\ cq' = Append(cq, e)
    BY <2>1, WaitingAdd DEF Ops
  <2>3. Adds(c, e)
    BY <1>4, <2>2 DEF Adds, HcaReceive
  <2>4. Arrives(c, e)
    BY <1>4 DEF Arrives, HcaReceive
  <2>5. QED
    BY <2>3, <2>4
<1>5. ASSUME NEW m \in Messages, HcaReceiveTooLong(c, m)
      PROVE  \E e : Adds(c, e) /\ ReceiveFails(c, e)
  <2> DEFINE e == entry("recv", "len", Head(rq[c]), <<>>)
  <2>1. /\ Complete(c, "recv", "len", Head(rq[c]), <<>>)
        /\ Head(rq[c]) \in Bufs \cup {LargeBuf}
        /\ UNCHANGED loopVars
    BY <1>1, <1>5 DEF HcaReceiveTooLong
  <2>2. e \in Completions /\ Waiting' = Append(Waiting, e) /\ cq' = Append(cq, e)
    BY <2>1, WaitingAdd DEF Ops
  <2>3. Adds(c, e)
    BY <1>5, <2>2 DEF Adds, HcaReceiveTooLong
  <2>4. ReceiveFails(c, e)
    BY <1>5 DEF ReceiveFails, HcaReceiveTooLong
  <2>5. QED
    BY <2>3, <2>4
<1>6. ASSUME HcaSend(c)
      PROVE  \E e : Adds(c, e) /\ IsSent(c, e)
  <2> DEFINE e == entry(Head(sq[c]), "ok", LargeBuf, <<>>)
  <2>1. /\ Complete(c, Head(sq[c]), "ok", LargeBuf, <<>>)
        /\ Head(sq[c]) \in Ops \ {"recv"}
        /\ UNCHANGED loopVars
    BY <1>2, <1>6 DEF HcaSend
  <2>2. e \in Completions /\ Waiting' = Append(Waiting, e) /\ cq' = Append(cq, e)
    BY <2>1, WaitingAdd
  <2>3. Adds(c, e)
    BY <1>6, <2>2 DEF Adds, HcaSend
  <2>4. IsSent(c, e)
    BY <1>6, <2>1 DEF IsSent, HcaSend
  <2>5. QED
    BY <2>3, <2>4
<1>7. ASSUME NEW op \in Ops \ {"recv"}, Complete(c, op, "flush", LargeBuf, <<>>),
             UNCHANGED <<peer, cm, conn, totalRecv, loopVars, faults, delivered, mem, rq>>,
             qp[c] # "none", qp' = [qp EXCEPT ![c] = "err"],
             sq[c] # <<>>, sq' = [sq EXCEPT ![c] = Tail(@)]
      PROVE  \E e : Adds(c, e) /\ IsSent(c, e)
  <2> DEFINE e == entry(op, "flush", LargeBuf, <<>>)
  <2>1. e \in Completions /\ Waiting' = Append(Waiting, e) /\ cq' = Append(cq, e)
    BY <1>7, WaitingAdd
  <2>2. Adds(c, e)
    BY <1>7, <2>1 DEF Adds
  <2>3. IsSent(c, e)
    BY <1>7 DEF IsSent
  <2>4. QED
    BY <2>2, <2>3
<1>8. ASSUME HcaSendFails(c)
      PROVE  \E e : Adds(c, e) /\ IsSent(c, e)
  BY <1>2, <1>7, <1>8 DEF HcaSendFails
<1>9. ASSUME HcaFlush(c)
      PROVE  \E e : Adds(c, e) /\ (ReceiveFails(c, e) \/ IsSent(c, e))
  <2>1. qp[c] = "err" /\ qp' = [qp EXCEPT ![c] = "err"]
        /\ UNCHANGED <<peer, cm, conn, totalRecv, loopVars, faults, delivered, mem>>
    BY <1>3, <1>9 DEF HcaFlush
  <2>2. CASE /\ rq[c] # <<>> /\ Complete(c, "recv", "flush", Head(rq[c]), <<>>)
             /\ rq' = [rq EXCEPT ![c] = Tail(@)] /\ UNCHANGED sq
    <3> DEFINE e == entry("recv", "flush", Head(rq[c]), <<>>)
    <3>1. e \in Completions /\ Waiting' = Append(Waiting, e) /\ cq' = Append(cq, e)
      BY <1>1, <2>1, <2>2, WaitingAdd DEF Ops
    <3>2. Adds(c, e)
      BY <2>1, <3>1 DEF Adds
    <3>3. ReceiveFails(c, e)
      BY <2>1, <2>2 DEF ReceiveFails
    <3>4. QED
      BY <3>2, <3>3
  <2>3. CASE /\ sq[c] # <<>> /\ Complete(c, Head(sq[c]), "flush", LargeBuf, <<>>)
             /\ sq' = [sq EXCEPT ![c] = Tail(@)] /\ UNCHANGED rq
    BY <1>2, <1>7, <2>1, <2>3
  <2>4. QED
    BY <1>9, <2>2, <2>3 DEF HcaFlush
<1>10. QED
  BY <1>4, <1>5, <1>6, <1>8, <1>9 DEF HcaNext

\* What a step of handle_work_complete does, when it does not end the server.
Takes ==
    /\ pc = "work" /\ cq' = cq
    /\ Waiting # <<>> /\ Head(Waiting) = cur /\ Waiting' = Tail(Waiting)
    /\ UNCHANGED <<peer, cm, conn, delivered, qp, mem>>

\* The completion is bad, or it is that of a send or read.
Skips ==
    /\ ~IsMessage(cur, cur.conn)
    /\ ~Inspecting'
    /\ totalRecv' = totalRecv
    /\ \/ rq' = rq
       \/ cur.status = "len" /\ rq' = [rq EXCEPT ![cur.conn] = Append(@, LargeBuf)]

Counts ==
    /\ IsMessage(cur, cur.conn)
    /\ totalRecv' = [totalRecv EXCEPT ![cur.conn] = @ + 1]
    /\ sq' = sq
    /\ \/ /\ rq' = [rq EXCEPT ![cur.conn] = Append(@, cur.buf)]
          /\ Inspecting' /\ batch' = batch /\ faults' = faults
       \/ rq' = rq /\ ~Inspecting' /\ Fault

\* The buffer is looked at.
Inspects ==
    /\ Inspecting /\ cq' = cq /\ Waiting' = Waiting
    /\ Inspecting' => batch' = batch
    /\ UNCHANGED <<peer, cm, conn, delivered, totalRecv, qp, rq, mem>>

\* No more is posted than there is room for.
PostsAtMost(c) ==
    \/ sq' = sq
    \/ \E op \in {"send", "read"} :
        SlotsUsed(c) < MaxSendWr /\ sq' = [sq EXCEPT ![c] = Append(@, op)]

LEMMA WorkSteps ==
    ASSUME TypeOK, HandlersHaveInput, WorkNext, ~RegisterCrash, ~ReadPastBuffer
    PROVE  /\ (Takes /\ (Skips \/ Counts)) \/ Inspects
           /\ pc' # "crashed" /\ pc' # "exited" /\ pc' # "disconnect"
           /\ PostsAtMost(cur.conn)
<1>1. PostSend(cur.conn, "send") => PostsAtMost(cur.conn)
  BY DEF PostSend, PostsAtMost
<1>2. PostSend(cur.conn, "read") => PostsAtMost(cur.conn)
  BY DEF PostSend, PostsAtMost
<1>3. cur \in Completions
  BY WaitingType DEF WorkNext, HandleBadCompletion, HandleRecv, HandleRecvFails,
     HandleSent, HandleReadDone, LookForHead, RegisterCrash,
       ReadPastBuffer, Reply
<1>4. NextCompletion => pc' \in {"work", "poll", "loop"} /\ ~Inspecting'
  BY DEF NextCompletion, Inspecting
<1>5. ASSUME pc = "work", cq' = cq, NextCompletion \/ (pc' = "head" /\ batch' = batch),
             UNCHANGED <<peer, cm, conn, delivered, qp, mem>>
      PROVE  Takes
  BY <1>5, WaitingTake DEF Takes
<1>6. ASSUME Inspecting, cq' = cq, NextCompletion \/ (Inspecting' /\ batch' = batch),
             UNCHANGED <<peer, cm, conn, delivered, totalRecv, qp, rq, mem>>
      PROVE  Inspects
  BY <1>4, <1>6, WaitingNext DEF Inspects
<1>7. CASE HandleBadCompletion
  <2>1. Takes /\ Skips
    BY <1>4, <1>5, <1>7 DEF HandleBadCompletion, Skips, IsMessage
  <2>2. QED
    BY <1>4, <1>7, <2>1 DEF HandleBadCompletion, PostsAtMost
<1>8. CASE HandleRecv
  <2>1. Takes /\ Counts
    BY <1>5, <1>8 DEF HandleRecv, Counts, IsMessage, Inspecting
  <2>2. QED
    BY <1>8, <2>1 DEF HandleRecv, PostsAtMost
<1>9. CASE HandleRecvFails
  <2>1. Takes /\ Counts
    BY <1>4, <1>5, <1>9 DEF HandleRecvFails, Counts, IsMessage
  <2>2. QED
    BY <1>4, <1>9, <2>1 DEF HandleRecvFails, PostsAtMost
<1>10. CASE HandleSent
  <2>1. Takes /\ Skips
    BY <1>4, <1>5, <1>10 DEF HandleSent, Skips, IsMessage
  <2>2. QED
    BY <1>4, <1>10, <2>1 DEF HandleSent, PostsAtMost
<1>11. CASE HandleReadDone
  <2>1. Takes /\ Skips
    BY <1>4, <1>5, <1>11 DEF HandleReadDone, Skips, IsMessage
  <2>2. QED
    BY <1>1, <1>4, <1>11, <2>1 DEF HandleReadDone
<1>12. CASE LookForHead
  <2>1. Inspecting /\ Inspecting' /\ batch' = batch
    BY <1>12 DEF LookForHead, Inspecting
  <2>2. Inspects
    BY <1>6, <1>12, <2>1 DEF LookForHead
  <2>3. PostsAtMost(cur.conn)
    BY <1>2, <1>12 DEF LookForHead, PostsAtMost
  <2>4. QED
    BY <1>12, <2>2, <2>3 DEF LookForHead
<1>13. CASE Reply
  <2>1. Inspecting
    BY <1>13 DEF Reply, Inspecting
  <2>2. Inspects
    BY <1>6, <1>13, <2>1 DEF Reply
  <2>3. PostsAtMost(cur.conn)
    BY <1>1, <1>13 DEF Reply, PostsAtMost
  <2>4. QED
    BY <1>4, <1>13, <2>2, <2>3 DEF Reply
<1>14. QED
  BY <1>7, <1>8, <1>9, <1>10, <1>11, <1>12, <1>13 DEF WorkNext

------------------------------------------------------------------------------
(***************************************************************************)
(* The life of a connection: a request comes first, then the queue pair,   *)
(* then completions, and the state of a queue pair never goes back.        *)
(***************************************************************************)
LEMMA CmTail ==
    ASSUME TypeOK, cm # <<>>, cm' = Tail(cm)
    PROVE  /\ Head(cm) = cm[1] /\ 1 \in DOMAIN cm
           /\ \A i \in DOMAIN cm' : i \in Nat /\ i + 1 \in DOMAIN cm /\ i + 1 # 1
                                    /\ cm'[i] = cm[i + 1]
<1>1. cm \in Seq(CmEvents) /\ Len(cm) \in Nat \ {0} /\ DOMAIN cm = 1 .. Len(cm)
  BY EmptySeq, LenProperties DEF TypeOK, ConnTypeOK
<1>2. /\ cm' \in Seq(CmEvents) /\ Len(cm') = Len(cm) - 1
      /\ \A i \in 1 .. Len(cm') : cm'[i] = cm[i + 1]
  BY <1>1, HeadTailProperties
<1>3. DOMAIN cm' = 1 .. Len(cm')
  BY <1>2, LenProperties
<1>4. QED
  BY <1>1, <1>2, <1>3

LEMMA CmAppend ==
    ASSUME TypeOK, NEW c \in Conns,
           NEW type \in {"request", "established", "disconnected", "error"},
           CmEvent(type, c)
    PROVE  /\ DOMAIN cm' = DOMAIN cm \cup {Len(cm) + 1}
           /\ Len(cm) + 1 \notin DOMAIN cm
           /\ \A i \in DOMAIN cm : cm'[i] = cm[i]
           /\ cm'[Len(cm) + 1] = [type |-> type, conn |-> c]
           /\ cm # <<>> => Head(cm') = Head(cm) /\ Head(cm) = cm[1] /\ Len(cm) + 1 # 1
<1>1. cm \in Seq(CmEvents) /\ [type |-> type, conn |-> c] \in CmEvents
  BY DEF TypeOK, ConnTypeOK, CmEvents
<1>2. cm' = Append(cm, [type |-> type, conn |-> c])
  BY DEF CmEvent
<1>3. Len(cm) \in Nat /\ DOMAIN cm = 1 .. Len(cm)
  BY <1>1, LenProperties
<1>4. /\ cm' \in Seq(CmEvents) /\ Len(cm') = Len(cm) + 1
      /\ \A i \in 1 .. Len(cm) : cm'[i] = cm[i]
      /\ cm'[Len(cm) + 1] = [type |-> type, conn |-> c]
  BY <1>1, <1>2, AppendProperties
<1>5. DOMAIN cm' = 1 .. Len(cm) + 1
  BY <1>4, LenProperties
<1>6. cm # <<>> => Len(cm) # 0 /\ Head(cm') = cm'[1] /\ Head(cm) = cm[1]
  BY <1>1, <1>3, <1>4, EmptySeq
<1>7. QED
  BY <1>3, <1>4, <1>5, <1>6

LEMMA BatchStep ==
    ASSUME BatchInv, [Next]_vars
    PROVE  BatchInv'
<1> USE DEF BatchInv
<1>1. ASSUME NEW c \in Conns, PeerNext(c) \/ HcaNext(c)
      PROVE  UNCHANGED <<pc, batch>>
  BY <1>1 DEF PeerNext, PeerConnect, PeerEstablished, PeerLeave, HcaNext, HcaReceive,
     HcaReceiveTooLong, HcaSend, HcaSendFails, HcaFlush
<1>2. ASSUME \/ Start \/ StartFails \/ StartWithoutChannel \/ Dispatch
             \/ DisconnectFailed \/ GetCqEvent \/ ReqNotify \/ PollEventFails
             \/ \E c \in Conns : CmNext(c) \/ RunPollEvent(c)
      PROVE  UNCHANGED batch /\ ~Dead /\ pc \notin {"work", "head", "reply"}
  BY <1>2 DEF Start, StartFails, StartWithoutChannel, Dispatch, DisconnectFailed,
     GetCqEvent, ReqNotify, PollEventFails, CmNext, Accept, RefuseConnect, AcceptPartly,
     AcceptCrash, CmIgnore, Release, CmHandler, RunPollEvent, Dead
<1>3. CASE PollCq
  <2>1. pc' = "loop" => batch' = <<>>
    BY <1>3, SubSeqEmpty DEF PollCq
  <2>2. QED
    BY <1>3, <2>1 DEF PollCq
<1>4. CASE WorkNext
  <2>1. NextCompletion \/ pc' \in {"work", "head", "reply", "crashed"}
    BY <1>4 DEF WorkNext, HandleBadCompletion, HandleRecv, HandleRecvFails, HandleSent,
       HandleReadDone, LookForHead, RegisterCrash,
       ReadPastBuffer, Reply
  <2>2. NextCompletion => batch' = <<>> \/ pc' = "work"
    BY DEF NextCompletion
  <2>3. QED
    BY <2>1, <2>2 DEF Dead
<1>5. CASE CrashOnFreed
  BY <1>5 DEF CrashOnFreed, Dead
<1>6. CASE UNCHANGED vars
  BY <1>6 DEF vars, Dead
<1>7. QED
  BY <1>1, <1>2, <1>3, <1>4, <1>5, <1>6 DEF Next, ServerNext, PollNext, Dead

\* The connection a completion that is handled is about has a queue pair.
LEMMA CurGood ==
    ASSUME TypeOK, HandlersHaveInput, EntryInv, CurInv, pc \in {"work", "head", "reply"}
    PROVE  cur \in Completions /\ GoodEntry(cur)
<1>1. cur \in GoodOnes
  <2>1. CASE pc = "work"
    <3>1. batch # <<>> /\ Waiting = batch \o cq
      BY <2>1, WaitingType DEF Waiting, Unhandled
    <3>2. Waiting # <<>> /\ Head(Waiting) = cur
      BY <3>1, TailOfConcat, WaitingType DEF cur
    <3>3. QED
      BY <3>2, HeadTailProperties DEF EntryInv
  <2>2. CASE Inspecting
    BY <2>2 DEF CurInv
  <2>3. QED
    BY <2>1, <2>2 DEF Inspecting
<1>2. QED
  BY <1>1 DEF GoodOnes

\* A queue pair is made once, and never comes back from the error state.
QpGrows ==
    \A c \in Conns : /\ qp[c] # "none" => qp'[c] # "none"
                     /\ qp[c] = "err" => qp'[c] = "err"

LEMMA AcceptsNew ==
    ASSUME TypeOK, HandlersHaveInput, RequestInv, NEW c \in Conns, CmHandler("request", c)
    PROVE  /\ qp[c] = "none" /\ peer[c] # "idle"
           /\ cm # <<>> /\ Head(cm) = cm[1] /\ 1 \in DOMAIN cm
           /\ cm[1] = [type |-> "request", conn |-> c] /\ pc = "loop"
<1>1. cm # <<>> /\ pc = "loop"
  BY DEF CmHandler, HandlersHaveInput
<1>2. Head(cm) = cm[1] /\ 1 \in DOMAIN cm
  BY <1>1, EmptySeq, LenProperties DEF TypeOK, ConnTypeOK
<1>3. cm[1] = [type |-> "request", conn |-> c]
  BY <1>2 DEF CmHandler
<1>4. QED
  BY <1>1, <1>2, <1>3 DEF RequestInv

LEMMA QpStep ==
    ASSUME TypeOK, HandlersHaveInput, RequestInv, [Next]_vars
    PROVE  QpGrows
<1>1. qp \in [Conns -> {"none", "rts", "err"}]
  BY DEF TypeOK, QpTypeOK
<1>2. ASSUME NEW c \in Conns, Accept(c) \/ AcceptPartly(c)
      PROVE  QpGrows
  <2>1. qp[c] = "none" /\ qp' = [qp EXCEPT ![c] = "rts"]
    BY <1>2, AcceptsNew DEF Accept, AcceptPartly
  <2>2. QED
    BY <1>1, <2>1 DEF QpGrows
<1>3. ASSUME NEW c \in Conns, HcaNext(c)
      PROVE  QpGrows
  <2>1. qp' = qp \/ qp' = [qp EXCEPT ![c] = "err"]
    BY <1>3, HcaSteps DEF Arrives, ReceiveFails, IsSent
  <2>2. QED
    BY <1>1, <2>1 DEF QpGrows
<1>4. CASE DisconnectFailed
  BY <1>1, <1>4 DEF DisconnectFailed, QpGrows
<1>5. ASSUME qp' = qp PROVE QpGrows
  BY <1>1, <1>5 DEF QpGrows
<1>6. ASSUME NEW c \in Conns, PeerNext(c) PROVE qp' = qp
  BY <1>6 DEF PeerNext, PeerConnect, PeerEstablished, PeerLeave
<1>7. ASSUME NEW c \in Conns, CmNext(c), ~Accept(c), ~AcceptPartly(c) PROVE qp' = qp
  BY <1>7 DEF CmNext, RefuseConnect, AcceptCrash, CmIgnore, Release
<1>8. ASSUME \/ Start \/ StartFails \/ StartWithoutChannel \/ Dispatch \/ CrashOnFreed
             \/ PollNext \/ WorkNext \/ \E c \in Conns : RunPollEvent(c)
      PROVE  qp' = qp
  BY <1>8 DEF Start, StartFails, StartWithoutChannel, Dispatch, CrashOnFreed, PollNext,
     GetCqEvent, ReqNotify, PollCq, PollEventFails, WorkNext, HandleBadCompletion,
     HandleRecv, HandleRecvFails, HandleSent, HandleReadDone, LookForHead,
     RegisterCrash, ReadPastBuffer, Reply, RunPollEvent
<1>9. CASE UNCHANGED vars
  BY <1>5, <1>9 DEF vars
<1>10. QED
  BY <1>2, <1>3, <1>4, <1>5, <1>6, <1>7, <1>8, <1>9 DEF Next, ServerNext

LEMMA CmTyped ==
    ASSUME TypeOK
    PROVE  /\ \A i \in DOMAIN cm : cm[i] \in CmEvents /\ cm[i].conn \in Conns
           /\ cm # <<>> => Head(cm).conn \in Conns
<1>1. cm \in Seq(CmEvents) /\ DOMAIN cm = 1 .. Len(cm)
  BY LenProperties DEF TypeOK, ConnTypeOK
<1>2. \A e \in CmEvents : e.conn \in Conns
  BY DEF CmEvents
<1>3. \A i \in DOMAIN cm : cm[i] \in CmEvents
  BY <1>1, ElementOfSeq
<1>4. cm # <<>> => Head(cm) \in CmEvents
  BY <1>1, HeadTailProperties
<1>5. QED
  BY <1>2, <1>3, <1>4

\* The event at the head of the channel was handled.
LEMMA RequestTail ==
    ASSUME TypeOK, RequestInv, cm # <<>>, cm' = Tail(cm), peer' = peer,
           pc' # "disconnect",
           \A c \in Conns : qp[c] = "none" /\ Head(cm).conn # c => qp'[c] = "none",
           \/ pc # "disconnect" /\ qp'[Head(cm).conn] = qp[Head(cm).conn]
           \/ cm[1].type = "request" \/ pc = "disconnect"
    PROVE  RequestInv'
<1>1. /\ Head(cm) = cm[1] /\ 1 \in DOMAIN cm
      /\ \A i \in DOMAIN cm' : i \in Nat /\ i + 1 \in DOMAIN cm /\ i + 1 # 1
                               /\ cm'[i] = cm[i + 1]
  BY CmTail
<1>2. \A i \in DOMAIN cm : cm[i] \in CmEvents /\ cm[i].conn \in Conns
  BY CmTyped
<1>3. ASSUME NEW i \in DOMAIN cm', cm'[i].type = "request"
      PROVE  peer'[cm'[i].conn] # "idle" /\ qp'[cm'[i].conn] = "none"
  <2> DEFINE d == cm[i + 1].conn
  <2>1. i + 1 \in DOMAIN cm /\ i + 1 # 1 /\ cm[i + 1].type = "request" /\ cm'[i].conn = d
    BY <1>1, <1>3
  <2>2. d \in Conns /\ peer[d] # "idle" /\ qp[d] = "none"
    BY <1>2, <2>1 DEF RequestInv
  <2>3. cm[1].type = "request" => cm[1].conn # d
    BY <1>1, <2>1 DEF RequestInv
  <2>4. pc = "disconnect" => cm[1].conn # d
    BY <1>1, <2>2 DEF RequestInv
  <2>5. cm[1].conn = d => qp'[d] = qp[d]
    BY <1>1, <2>3, <2>4
  <2>6. QED
    BY <1>1, <2>1, <2>2, <2>5
<1>4. ASSUME NEW i \in DOMAIN cm', NEW j \in DOMAIN cm', cm'[i].type = "request",
             cm'[j].type = "request", cm'[i].conn = cm'[j].conn
      PROVE  i = j
  <2>1. i + 1 = j + 1
    BY <1>1, <1>4 DEF RequestInv
  <2>2. QED
    BY <1>1, <2>1
<1>5. QED
  BY <1>3, <1>4 DEF RequestInv

LEMMA RequestStep ==
    ASSUME TypeOK, HandlersHaveInput, RequestInv, FreshInv, [Next]_vars
    PROVE  RequestInv'
<1>1. qp \in [Conns -> {"none", "rts", "err"}]
      /\ peer \in [Conns -> {"idle", "connecting", "connected", "gone"}]
  BY DEF TypeOK, QpTypeOK, PeerTypeOK
<1>2. \A i \in DOMAIN cm : cm[i] \in CmEvents /\ cm[i].conn \in Conns
  BY CmTyped
<1>3. ASSUME NEW c \in Conns, PeerConnect(c)
      PROVE  RequestInv'
  <2> DEFINE n == Len(cm) + 1
  <2>1. /\ peer[c] = "idle" /\ peer' = [peer EXCEPT ![c] = "connecting"]
        /\ CmEvent("request", c) /\ UNCHANGED <<qp, pc>>
    BY <1>3 DEF PeerConnect
  <2>2. qp[c] = "none"
    BY <2>1 DEF FreshInv
  <2>3. \A i \in DOMAIN cm : cm[i].type = "request" => cm[i].conn # c
    BY <2>1 DEF RequestInv
  <2>4. /\ DOMAIN cm' = DOMAIN cm \cup {n} /\ n \notin DOMAIN cm
        /\ \A i \in DOMAIN cm : cm'[i] = cm[i]
        /\ cm'[n] = [type |-> "request", conn |-> c]
        /\ cm # <<>> => Head(cm') = Head(cm)
    BY <2>1, CmAppend
  <2> HIDE DEF n
  <2>5. ASSUME NEW i \in DOMAIN cm', cm'[i].type = "request"
        PROVE  /\ peer'[cm'[i].conn] # "idle"
               /\ qp'[cm'[i].conn] = "none" \/ (pc' = "disconnect" /\ i = 1)
    <3>1. CASE i \in DOMAIN cm
      <4>1. cm'[i] = cm[i] /\ cm[i].conn \in Conns /\ peer[cm[i].conn] # "idle"
            /\ (qp[cm[i].conn] = "none" \/ (pc = "disconnect" /\ i = 1))
        BY <1>2, <2>4, <2>5, <3>1 DEF RequestInv
      <4>2. QED
        BY <1>1, <2>1, <4>1
    <3>2. CASE i = n
      BY <1>1, <2>1, <2>2, <2>4, <3>2
    <3>3. QED
      BY <2>4, <3>1, <3>2
  <2>6. ASSUME NEW i \in DOMAIN cm', NEW j \in DOMAIN cm', cm'[i].type = "request",
               cm'[j].type = "request", cm'[i].conn = cm'[j].conn
        PROVE  i = j
    BY <2>3, <2>4, <2>6 DEF RequestInv
  <2>7. pc' = "disconnect" => qp'[Head(cm').conn] # "none"
    BY <2>1, <2>4 DEF RequestInv, HandlersHaveInput
  <2>8. QED
    BY <2>5, <2>6, <2>7 DEF RequestInv
<1>4. ASSUME NEW c \in Conns, PeerEstablished(c) \/ PeerLeave(c)
      PROVE  RequestInv'
  <2>1. PICK type \in {"established", "disconnected", "error"} : CmEvent(type, c)
    BY <1>4 DEF PeerEstablished, PeerLeave
  <2>2. /\ UNCHANGED <<qp, pc>>
        /\ \A d \in Conns : peer[d] # "idle" => peer'[d] # "idle"
    BY <1>1, <1>4 DEF PeerEstablished, PeerLeave
  <2> DEFINE n == Len(cm) + 1
  <2>3. /\ DOMAIN cm' = DOMAIN cm \cup {n} /\ n \notin DOMAIN cm
        /\ \A i \in DOMAIN cm : cm'[i] = cm[i]
        /\ cm'[n] = [type |-> type, conn |-> c]
        /\ cm # <<>> => Head(cm') = Head(cm)
    BY <2>1, CmAppend
  <2> HIDE DEF n
  <2>4. \A i \in DOMAIN cm' : cm'[i].type = "request" => i \in DOMAIN cm
    BY <2>3
  <2>5. QED
    BY <1>2, <2>2, <2>3, <2>4 DEF RequestInv, HandlersHaveInput
<1>5. ASSUME UNCHANGED <<cm, peer>>, pc' = pc,
             \A d \in Conns : qp[d] = "none" <=> qp'[d] = "none"
      PROVE  RequestInv'
  <2>1. pc = "disconnect" => Head(cm).conn \in Conns
    BY CmTyped DEF HandlersHaveInput
  <2>2. QED
    BY <1>2, <1>5, <2>1 DEF RequestInv
<1>6. ASSUME NEW c \in Conns, HcaNext(c)
      PROVE  RequestInv'
  <2>1. /\ UNCHANGED <<cm, peer, loopVars>>
        /\ qp[c] # "none"
        /\ qp' = qp \/ qp' = [qp EXCEPT ![c] = "err"]
    BY <1>6 DEF HcaNext, HcaReceive, HcaReceiveTooLong, HcaSend, HcaSendFails, HcaFlush
  <2>2. QED
    BY <1>1, <1>5, <2>1
<1>7. ASSUME NEW c \in Conns, Accept(c)
      PROVE  RequestInv'
  <2>1. /\ cm # <<>> /\ cm[1] = [type |-> "request", conn |-> c] /\ Head(cm) = cm[1]
        /\ pc = "loop"
    BY <1>7, AcceptsNew DEF Accept
  <2>2. cm' = Tail(cm) /\ qp' = [qp EXCEPT ![c] = "rts"] /\ peer' = peer /\ pc' = pc
    BY <1>7 DEF Accept, CmHandler
  <2>3. QED
    BY <1>1, <2>1, <2>2, RequestTail
<1>8. ASSUME NEW c \in Conns, RefuseConnect(c) \/ CmIgnore(c) \/ Release(c)
      PROVE  RequestInv'
  <2>1. /\ cm # <<>> /\ pc = "loop" /\ cm' = Tail(cm) /\ qp' = qp /\ peer' = peer
        /\ pc' # "disconnect"
    BY <1>8 DEF RefuseConnect, CmIgnore, Release, CmHandler, HandlersHaveInput
  <2>2. QED
    BY <2>1, RequestTail
<1>9. ASSUME NEW c \in Conns, AcceptPartly(c)
      PROVE  RequestInv'
  <2>1. /\ cm # <<>> /\ 1 \in DOMAIN cm /\ cm[1] = [type |-> "request", conn |-> c]
        /\ Head(cm) = cm[1] /\ pc = "loop"
    BY <1>9, AcceptsNew DEF AcceptPartly
  <2>2. /\ cm' = cm /\ qp' = [qp EXCEPT ![c] = "rts"] /\ peer' = peer
        /\ pc' = "disconnect"
    BY <1>9 DEF AcceptPartly, CmHandler
  <2>3. \A i \in DOMAIN cm : cm[i].type = "request" /\ cm[i].conn = c => i = 1
    BY <2>1 DEF RequestInv
  <2>4. QED
    BY <1>1, <1>2, <2>1, <2>2, <2>3 DEF RequestInv
<1>10. CASE DisconnectFailed
  <2>1. /\ cm # <<>> /\ pc = "disconnect" /\ pc' # "disconnect" /\ cm' = Tail(cm)
        /\ peer' = peer /\ qp' = [qp EXCEPT ![Head(cm).conn] = "err"]
    BY <1>10 DEF DisconnectFailed, HandlersHaveInput
  <2>2. QED
    BY <1>1, <2>1, RequestTail
<1>11. ASSUME UNCHANGED <<cm, peer, qp>>, pc # "disconnect", pc' # "disconnect"
       PROVE  RequestInv'
  BY <1>11 DEF RequestInv
<1>12. ASSUME \/ Start \/ StartFails \/ StartWithoutChannel \/ Dispatch \/ CrashOnFreed
              \/ PollNext \/ \E c \in Conns : RunPollEvent(c) \/ AcceptCrash(c)
       PROVE  RequestInv'
  <2>1. UNCHANGED <<cm, peer, qp>> /\ pc # "disconnect" /\ pc' # "disconnect"
    BY <1>12 DEF Start, StartFails, StartWithoutChannel, Dispatch, CrashOnFreed, PollNext,
       GetCqEvent, ReqNotify, PollCq, PollEventFails, RunPollEvent, AcceptCrash, CmHandler
  <2>2. QED
    BY <1>11, <2>1
<1>13. CASE WorkNext
  <2>1. UNCHANGED <<cm, peer, qp>> /\ pc # "disconnect" /\ pc' # "disconnect"
    BY <1>13 DEF WorkNext, HandleBadCompletion, HandleRecv, HandleRecvFails, HandleSent,
       HandleReadDone, LookForHead, RegisterCrash, ReadPastBuffer, Reply, NextCompletion
  <2>2. QED
    BY <1>11, <2>1
<1>14. CASE UNCHANGED vars
  BY <1>5, <1>14 DEF vars
<1>15. QED
  BY <1>3, <1>4, <1>6, <1>7, <1>8, <1>9, <1>10, <1>12, <1>13, <1>14
  DEF Next, ServerNext, PeerNext, CmNext

LEMMA FreshStep ==
    ASSUME TypeOK, HandlersHaveInput, RequestInv, EntryInv, CurInv, FreshInv, [Next]_vars
    PROVE  FreshInv'
<1>1. QpGrows
  BY QpStep
<1>2. /\ qp \in [Conns -> {"none", "rts", "err"}]
      /\ peer \in [Conns -> {"idle", "connecting", "connected", "gone"}]
      /\ \A q \in {rq, sq, delivered, totalRecv} : DOMAIN q = Conns
  BY DEF TypeOK, QpTypeOK, PeerTypeOK, ConnTypeOK
\* Only the connection d is changed, and it has a queue pair.
<1>3. ASSUME NEW d \in Conns, peer' = peer, qp'[d] # "none", peer[d] # "idle",
             \A c \in Conns \ {d} :
                UNCHANGED <<qp[c], rq[c], sq[c], delivered[c], totalRecv[c]>>
      PROVE  FreshInv'
  BY <1>3 DEF FreshInv
<1>4. ASSUME NEW c \in Conns, PeerNext(c)
      PROVE  FreshInv'
  <2>1. UNCHANGED <<qp, rq, sq, delivered, totalRecv>>
        /\ \A d \in Conns : peer'[d] = "idle" => peer[d] = "idle"
    BY <1>2, <1>4 DEF PeerNext, PeerConnect, PeerEstablished, PeerLeave
  <2>2. QED
    BY <2>1 DEF FreshInv
<1>5. ASSUME NEW c \in Conns, HcaNext(c)
      PROVE  FreshInv'
  <2>1. /\ qp[c] # "none" /\ UNCHANGED <<peer, totalRecv>>
        /\ \A d \in Conns \ {c} : UNCHANGED <<qp[d], rq[d], sq[d], delivered[d]>>
    BY <1>2, <1>5 DEF HcaNext, HcaReceive, HcaReceiveTooLong, HcaSend, HcaSendFails,
       HcaFlush
  <2>2. peer[c] # "idle"
    BY <2>1 DEF FreshInv
  <2>3. qp'[c] # "none"
    BY <1>1, <2>1 DEF QpGrows
  <2>4. QED
    BY <1>3, <2>1, <2>2, <2>3
<1>6. ASSUME NEW c \in Conns, Accept(c) \/ AcceptPartly(c)
      PROVE  FreshInv'
  <2>1. qp[c] = "none" /\ peer[c] # "idle"
    BY <1>6, AcceptsNew DEF Accept, AcceptPartly
  <2>2. /\ UNCHANGED <<peer, delivered, totalRecv, sq>>
        /\ qp' = [qp EXCEPT ![c] = "rts"]
        /\ \A d \in Conns \ {c} : rq'[d] = rq[d]
    BY <1>2, <1>6 DEF Accept, AcceptPartly, CmHandler
  <2>3. QED
    BY <1>2, <1>3, <2>1, <2>2
<1>7. CASE DisconnectFailed
  <2> DEFINE c == Head(cm).conn
  <2>1. c \in Conns
    BY <1>7, CmTyped DEF DisconnectFailed, HandlersHaveInput
  <2>2. qp[c] # "none" /\ qp' = [qp EXCEPT ![c] = "err"]
    BY <1>7 DEF DisconnectFailed, RequestInv
  <2>3. peer[c] # "idle"
    BY <2>1, <2>2 DEF FreshInv
  <2>4. UNCHANGED <<peer, delivered, totalRecv, sq, rq>>
    BY <1>7 DEF DisconnectFailed
  <2>5. QED
    BY <1>2, <1>3, <2>1, <2>2, <2>3, <2>4
<1>8. CASE WorkNext
  <2> DEFINE c == cur.conn
  <2>1. cur \in Completions /\ qp[c] # "none"
    BY <1>8, CurGood DEF GoodEntry, WorkNext, HandleBadCompletion, HandleRecv,
       HandleRecvFails, HandleSent, HandleReadDone, LookForHead, RegisterCrash,
       ReadPastBuffer, Reply
  <2>2. c \in Conns /\ peer[c] # "idle"
    BY <2>1 DEF FreshInv, Completions
  <2>3. UNCHANGED <<peer, qp, delivered>>
    BY <1>8 DEF WorkNext, HandleBadCompletion, HandleRecv,
       HandleRecvFails, HandleSent, HandleReadDone, LookForHead, RegisterCrash,
       ReadPastBuffer, Reply
  <2>4. \A d \in Conns \ {c} : UNCHANGED <<rq[d], sq[d], totalRecv[d]>>
    BY <1>2, <1>8, <2>2 DEF WorkNext, HandleBadCompletion, HandleRecv,
       HandleRecvFails, HandleSent, HandleReadDone, LookForHead, RegisterCrash,
       ReadPastBuffer, Reply,
       PostSend
  <2>5. QED
    BY <1>3, <2>1, <2>2, <2>3, <2>4
<1>9. ASSUME UNCHANGED <<peer, qp, rq, sq, delivered, totalRecv>> PROVE FreshInv'
  BY <1>9 DEF FreshInv
<1>10. ASSUME \/ Start \/ StartFails \/ StartWithoutChannel \/ Dispatch \/ CrashOnFreed
              \/ PollNext
              \/ \E c \in Conns : RunPollEvent(c) \/ AcceptCrash(c) \/ RefuseConnect(c)
                                  \/ CmIgnore(c) \/ Release(c)
       PROVE  UNCHANGED <<peer, qp, rq, sq, delivered, totalRecv>>
  BY <1>10 DEF Start, StartFails, StartWithoutChannel, Dispatch, CrashOnFreed, PollNext,
     GetCqEvent, ReqNotify, PollCq, PollEventFails, RunPollEvent, AcceptCrash,
     RefuseConnect, CmIgnore, Release, CmHandler
<1>11. CASE UNCHANGED vars
  BY <1>9, <1>11 DEF vars
<1>12. QED
  BY <1>4, <1>5, <1>6, <1>7, <1>8, <1>9, <1>10, <1>11 DEF Next, ServerNext, CmNext

\* What a step of rdma_cm_event_handle does to the queues: a connection is made
\* with its first k buffers posted, taken down, or released.
Apart ==
    /\ pc \in {"loop", "disconnect"} /\ pc' \in {"loop", "disconnect", "crashed"}
    /\ Waiting' = Waiting /\ Waiting = cq
    /\ UNCHANGED <<delivered, totalRecv, sq, cq, batch>>

Connects(c) ==
    /\ qp[c] = "none" /\ qp' = [qp EXCEPT ![c] = "rts"]
    /\ \E k \in 0 .. NumBufs :
        /\ rq' = [rq EXCEPT ![c] = [i \in 1 .. k |-> i]]
        /\ k = NumBufs \/ Fault
    /\ mem' = mem

TakesDown(c) ==
    /\ qp[c] # "none" /\ qp' = [qp EXCEPT ![c] = "err"]
    /\ UNCHANGED <<rq, mem>>

Frees(c) ==
    /\ UNCHANGED <<qp, rq>>
    /\ conn' = [conn EXCEPT ![c] = "released"]
    /\ \A d \in Conns \ {c} : mem'[d] = mem[d]

LEMMA ApartSteps ==
    ASSUME TypeOK, HandlersHaveInput, BatchInv, RequestInv,
           \/ DisconnectFailed
           \/ \E c \in Conns : Accept(c) \/ AcceptPartly(c) \/ Release(c)
    PROVE  \E c \in Conns : Apart /\ (Connects(c) \/ TakesDown(c) \/ Frees(c))
<1>1. ASSUME pc \in {"loop", "disconnect"}, pc' \in {"loop", "disconnect", "crashed"},
             UNCHANGED <<delivered, totalRecv, sq, cq, batch>>
      PROVE  Apart
  <2>1. Waiting = cq
    BY <1>1, WaitingType, ConcatEmptySeq DEF Waiting, Unhandled, Inspecting
  <2>2. Waiting' = Waiting
    BY <1>1 DEF Waiting, Unhandled, Inspecting
  <2>3. QED
    BY <1>1, <2>1, <2>2 DEF Apart
<1>2. CASE DisconnectFailed
  <2> DEFINE c == Head(cm).conn
  <2>1. c \in Conns
    BY <1>2, CmTyped DEF DisconnectFailed, HandlersHaveInput
  <2>2. TakesDown(c)
    BY <1>2 DEF DisconnectFailed, RequestInv, TakesDown
  <2>3. Apart
    BY <1>1, <1>2 DEF DisconnectFailed
  <2>4. QED
    BY <2>1, <2>2, <2>3
<1>3. ASSUME NEW c \in Conns, Accept(c)
      PROVE  Apart /\ Connects(c)
  <2>1. qp[c] = "none"
    BY <1>3, AcceptsNew DEF Accept
  <2>2. NumBufs \in 0 .. NumBufs /\ [i \in Bufs |-> i] = [i \in 1 .. NumBufs |-> i]
    BY ServerAssumption DEF Bufs
  <2>3. Connects(c)
    BY <1>3, <2>1, <2>2 DEF Accept, Connects
  <2>4. Apart
    BY <1>1, <1>3 DEF Accept, CmHandler
  <2>5. QED
    BY <2>3, <2>4
<1>4. ASSUME NEW c \in Conns, AcceptPartly(c)
      PROVE  Apart /\ Connects(c)
  <2>1. qp[c] = "none"
    BY <1>4, AcceptsNew DEF AcceptPartly
  <2>2. PICK k \in 0 .. NumBufs : rq' = [rq EXCEPT ![c] = [i \in 1 .. k - 1 |-> i]]
    BY <1>4 DEF AcceptPartly
  <2>3. \E n \in 0 .. NumBufs : 1 .. n = 1 .. k - 1
    <3>1. CASE k = 0
      <4>1. 0 \in 0 .. NumBufs /\ 1 .. 0 = 1 .. k - 1
        BY <3>1, ServerAssumption
      <4>2. QED
        BY <4>1
    <3>2. CASE k # 0
      <4>1. k - 1 \in 0 .. NumBufs
        BY <3>2, ServerAssumption
      <4>2. QED
        BY <4>1
    <3>3. QED
      BY <3>1, <3>2
  <2>4. PICK n \in 0 .. NumBufs : 1 .. n = 1 .. k - 1
    BY <2>3
  <2>5. rq' = [rq EXCEPT ![c] = [i \in 1 .. n |-> i]]
    BY <2>2, <2>4
  <2>6. Connects(c)
    BY <1>4, <2>1, <2>5 DEF AcceptPartly, Connects
  <2>7. Apart
    BY <1>1, <1>4 DEF AcceptPartly, CmHandler
  <2>8. QED
    BY <2>6, <2>7
<1>5. ASSUME NEW c \in Conns, Release(c)
      PROVE  Apart /\ Frees(c)
  <2>1. \A d \in Conns \ {c} : mem'[d] = mem[d]
    BY <1>5 DEF Release, TypeOK, QpTypeOK
  <2>2. Frees(c)
    BY <1>5, <2>1 DEF Release, Frees
  <2>3. Apart
    BY <1>1, <1>5 DEF Release, CmHandler
  <2>4. QED
    BY <2>2, <2>3
<1>6. QED
  BY <1>2, <1>3, <1>4, <1>5

\* Every step is of one of these kinds.
StepKinds ==
    \/ Still
    \/ Ends
    \/ \E c \in Conns : Apart /\ (Connects(c) \/ TakesDown(c) \/ Frees(c))
    \/ \E c \in Conns, e \in Completions :
        Adds(c, e) /\ (Arrives(c, e) \/ ReceiveFails(c, e) \/ IsSent(c, e))
    \/ Takes /\ (Skips \/ Counts) /\ PostsAtMost(cur.conn) /\ pc' \notin {"crashed", "exited"}
    \/ Inspects /\ PostsAtMost(cur.conn) /\ pc' \notin {"crashed", "exited"}

LEMMA EveryStep ==
    ASSUME TypeOK, HandlersHaveInput, BatchInv, RequestInv, [Next]_vars
    PROVE  StepKinds
<1>1. ASSUME \/ \E c \in Conns : PeerNext(c)
             \/ Start \/ Dispatch \/ PollNext
             \/ \E c \in Conns : RunPollEvent(c) \/ CmIgnore(c) \/ RefuseConnect(c)
             \/ UNCHANGED vars
      PROVE  StepKinds
  BY <1>1, StillSteps DEF StepKinds
<1>2. ASSUME \/ StartFails \/ StartWithoutChannel
             \/ \E c \in Conns : AcceptCrash(c)
             \/ RegisterCrash \/ ReadPastBuffer \/ CrashOnFreed
      PROVE  StepKinds
  BY <1>2, EndSteps DEF StepKinds
<1>3. ASSUME \/ DisconnectFailed
             \/ \E c \in Conns : Accept(c) \/ AcceptPartly(c) \/ Release(c)
      PROVE  StepKinds
  BY <1>3, ApartSteps DEF StepKinds
<1>4. ASSUME NEW c \in Conns, HcaNext(c)
      PROVE  StepKinds
  <2>1. PICK e : Adds(c, e) /\ (Arrives(c, e) \/ ReceiveFails(c, e) \/ IsSent(c, e))
    BY <1>4, HcaSteps
  <2>2. e \in Completions
    BY <2>1 DEF Adds
  <2>3. QED
    BY <2>1, <2>2 DEF StepKinds
<1>5. ASSUME WorkNext, ~RegisterCrash, ~ReadPastBuffer
      PROVE  StepKinds
  BY <1>5, WorkSteps DEF StepKinds
<1>6. QED
  BY <1>1, <1>2, <1>3, <1>4, <1>5 DEF Next, ServerNext, CmNext

LEMMA GoodStay ==
    ASSUME TypeOK, QpGrows
    PROVE  GoodOnes \subseteq GoodOnes'
<1> SUFFICES ASSUME NEW e \in Completions, GoodEntry(e)
             PROVE  GoodEntry(e)'
  BY DEF GoodOnes
<1>1. e.conn \in Conns
  BY DEF Completions
<1>2. QED
  BY <1>1 DEF QpGrows, GoodEntry, IsMessage

LEMMA SeqOfSuperset ==
    ASSUME NEW S, NEW T, S \subseteq T, NEW s \in Seq(S)
    PROVE  s \in Seq(T)
<1>1. Len(s) \in Nat /\ s = [i \in 1 .. Len(s) |-> s[i]] /\ \A i \in 1 .. Len(s) : s[i] \in S
  BY LenProperties, ElementOfSeq
<1>2. QED
  BY <1>1, SeqDef

LEMMA SuffixOfConcat ==
    ASSUME NEW X, NEW s \in Seq(X), NEW t \in Seq(X), NEW S, s \o t \in Seq(S)
    PROVE  t \in Seq(S)
<1>1. /\ Len(s) \in Nat /\ Len(t) \in Nat
      /\ t = [i \in 1 .. Len(t) |-> t[i]]
  BY LenProperties
<1>2. /\ Len(s \o t) = Len(s) + Len(t)
      /\ \A i \in 1 .. Len(s) + Len(t) :
            (s \o t)[i] = IF i <= Len(s) THEN s[i] ELSE t[i - Len(s)]
  BY ConcatProperties
<1>3. ASSUME NEW i \in 1 .. Len(t)
      PROVE  t[i] \in S
  <2>1. Len(s) + i \in 1 .. Len(s \o t) /\ (s \o t)[Len(s) + i] = t[i]
    BY <1>1, <1>2
  <2>2. QED
    BY <2>1, ElementOfSeq
<1>4. QED
  BY <1>1, <1>3, SeqDef

LEMMA EntryStep ==
    ASSUME TypeOK, HandlersHaveInput, BatchInv, RequestInv, EntryInv, CurInv, LargeInv,
           [Next]_vars
    PROVE  EntryInv' /\ CurInv'
<1>1. QpGrows /\ StepKinds /\ GoodOnes \subseteq GoodOnes'
  BY QpStep, EveryStep, GoodStay
<1>2. /\ Waiting \in Seq(GoodOnes) /\ Unhandled \in Seq(Completions)
      /\ cq \in Seq(Completions)
  BY WaitingType DEF EntryInv
<1>3. ASSUME NEW w \in Seq(GoodOnes), Waiting' = w
      PROVE  EntryInv'
  BY <1>1, <1>3, SeqOfSuperset DEF EntryInv
<1>4. ASSUME Inspecting' => /\ batch' = batch /\ cur \in GoodOnes
                            /\ IsMessage(cur, cur.conn)
      PROVE  CurInv'
  BY <1>1, <1>4 DEF CurInv, cur, IsMessage
<1>5. CASE Still
  <2>1. EntryInv'
    BY <1>2, <1>3, <1>5 DEF Still
  <2>2. CurInv'
    BY <1>4, <1>5 DEF Still, CurInv
  <2>3. QED
    BY <2>1, <2>2
<1>6. CASE Ends
  <2>1. cq \in Seq(GoodOnes)
    BY <1>2, SuffixOfConcat DEF Waiting
  <2>2. ~Inspecting'
    BY <1>6 DEF Ends, Dead, Inspecting
  <2>3. QED
    BY <1>3, <1>4, <1>6, <2>1, <2>2 DEF Ends
<1>7. CASE Apart
  <2>1. ~Inspecting'
    BY <1>7 DEF Apart, Inspecting
  <2>2. QED
    BY <1>2, <1>3, <1>4, <1>7, <2>1 DEF Apart
<1>8. ASSUME NEW c \in Conns, NEW e \in Completions,
             Adds(c, e), Arrives(c, e) \/ ReceiveFails(c, e) \/ IsSent(c, e)
      PROVE  EntryInv' /\ CurInv'
  <2>1. e.conn = c /\ Waiting' = Append(Waiting, e) /\ batch' = batch /\ pc' = pc
    BY <1>8 DEF Adds
  <2>2. e \in GoodOnes'
    <3>1. CASE Arrives(c, e)
      <4>1. e.buf \in Bufs
        BY <1>8, <3>1, HeadTailProperties DEF Arrives, LargeInv
      <4>2. QED
        BY <2>1, <3>1, <4>1 DEF Arrives, GoodOnes, GoodEntry
    <3>2. CASE ReceiveFails(c, e) \/ IsSent(c, e)
      <4>1. ~IsMessage(e, c)
        BY <3>2 DEF ReceiveFails, IsSent, IsMessage
      <4>2. qp'[c] # "none" /\ (e.status # "ok" => qp'[c] = "err")
        BY <3>2 DEF ReceiveFails, IsSent, TypeOK, QpTypeOK
      <4>3. e.status = "len" => e.op = "recv"
        BY <3>2 DEF ReceiveFails, IsSent
      <4>4. QED
        BY <2>1, <4>1, <4>2, <4>3 DEF GoodOnes, GoodEntry, IsMessage
    <3>3. QED
      BY <1>8, <3>1, <3>2
  <2>3. EntryInv'
    <3>1. Waiting \in Seq(GoodOnes')
      BY <1>1, <1>2, SeqOfSuperset
    <3>2. Append(Waiting, e) \in Seq(GoodOnes')
      BY <2>2, <3>1, AppendProperties
    <3>3. QED
      BY <2>1, <3>2 DEF EntryInv
  <2>4. CurInv'
    BY <1>4, <2>1 DEF CurInv, Inspecting
  <2>5. QED
    BY <2>3, <2>4
<1>9. CASE Takes /\ (Skips \/ Counts)
  <2>1. EntryInv'
    BY <1>2, <1>3, <1>9, HeadTailProperties DEF Takes
  <2>2. cur \in GoodOnes
    BY <1>9, CurGood DEF Takes, GoodOnes
  <2>3. CurInv'
    BY <1>4, <1>9, <2>2 DEF Skips, Counts
  <2>4. QED
    BY <2>1, <2>3
<1>10. CASE Inspects
  <2>1. EntryInv'
    BY <1>2, <1>3, <1>10 DEF Inspects
  <2>2. CurInv'
    BY <1>4, <1>10 DEF Inspects, CurInv
  <2>3. QED
    BY <2>1, <2>2
<1>11. QED
  BY <1>1, <1>5, <1>6, <1>7, <1>8, <1>9, <1>10 DEF StepKinds

LEMMA LargeStep ==
    ASSUME TypeOK, HandlersHaveInput, BatchInv, RequestInv, EntryInv, CurInv, LargeInv,
           FreshInv, [Next]_vars
    PROVE  LargeInv'
<1>1. StepKinds
  BY EveryStep
<1>2. /\ qp \in [Conns -> {"none", "rts", "err"}]
      /\ rq \in [Conns -> Seq(Bufs \cup {LargeBuf})]
  BY DEF TypeOK, QpTypeOK
<1>3. CASE UNCHANGED <<qp, rq>>
  BY <1>3 DEF LargeInv
<1>4. ASSUME NEW c \in Conns, Connects(c)
      PROVE  LargeInv'
  <2>1. PICK k \in 0 .. NumBufs : rq' = [rq EXCEPT ![c] = [i \in 1 .. k |-> i]]
    BY <1>4 DEF Connects
  <2>2. [i \in 1 .. k |-> i] \in Seq(Bufs)
    BY ServerAssumption, SeqDef DEF Bufs
  <2>3. \A d \in Conns : qp'[d] = "rts" => d = c \/ qp[d] = "rts"
    BY <1>2, <1>4 DEF Connects
  <2>4. QED
    BY <1>2, <2>1, <2>2, <2>3 DEF LargeInv
<1>5. ASSUME NEW c \in Conns, TakesDown(c)
      PROVE  LargeInv'
  BY <1>2, <1>5 DEF TakesDown, LargeInv
<1>6. ASSUME NEW c \in Conns, NEW e \in Completions,
             Arrives(c, e) \/ ReceiveFails(c, e) \/ IsSent(c, e)
      PROVE  LargeInv'
  <2>1. \A d \in Conns : qp'[d] = "rts" => qp[d] = "rts"
    BY <1>2, <1>6 DEF Arrives, ReceiveFails, IsSent
  <2>2. CASE rq' = rq
    BY <2>1, <2>2 DEF LargeInv
  <2>3. CASE rq[c] # <<>> /\ rq' = [rq EXCEPT ![c] = Tail(@)]
    <3>1. qp[c] = "rts" => Tail(rq[c]) \in Seq(Bufs)
      BY <2>3, HeadTailProperties DEF LargeInv
    <3>2. QED
      BY <1>2, <2>1, <2>3, <3>1 DEF LargeInv
  <2>4. QED
    BY <1>6, <2>2, <2>3 DEF Arrives, ReceiveFails, IsSent
<1>7. CASE Takes /\ (Skips \/ Counts)
  <2>1. cur \in Completions /\ GoodEntry(cur) /\ qp' = qp
    BY <1>7, CurGood DEF Takes
  <2>2. cur.conn \in Conns
    BY <2>1 DEF Completions
  <2>3. CASE cur.status = "len" /\ rq' = [rq EXCEPT ![cur.conn] = Append(@, LargeBuf)]
    BY <1>2, <2>1, <2>2, <2>3 DEF GoodEntry, LargeInv
  <2>4. CASE IsMessage(cur, cur.conn) /\ rq' = [rq EXCEPT ![cur.conn] = Append(@, cur.buf)]
    <3>1. cur.buf \in Bufs
      BY <2>1, <2>4 DEF GoodEntry
    <3>2. qp[cur.conn] = "rts" => Append(rq[cur.conn], cur.buf) \in Seq(Bufs)
      BY <2>2, <3>1, AppendProperties DEF LargeInv
    <3>3. QED
      BY <1>2, <2>1, <2>2, <2>4, <3>2 DEF LargeInv
  <2>5. QED
    BY <1>3, <1>7, <2>1, <2>3, <2>4 DEF Skips, Counts
<1>8. QED
  BY <1>1, <1>3, <1>4, <1>5, <1>6, <1>7 DEF StepKinds, Still, Ends, Frees, Inspects

LEMMA NothingWaitsInit == Init => Waiting = <<>> /\ ~Inspecting
<1> SUFFICES ASSUME Init PROVE Waiting = <<>> /\ ~Inspecting
  OBVIOUS
<1>1. Unhandled = <<>> /\ cq = <<>> /\ ~Inspecting
  BY DEF Init, Unhandled, Inspecting
<1>2. <<>> \o <<>> = <<>>
  BY ConcatEmptySeq, EmptySeq
<1>3. QED
  BY <1>1, <1>2 DEF Waiting

LEMMA LifeInit == Init => LifeInv
<1> SUFFICES ASSUME Init PROVE LifeInv
  OBVIOUS
<1>1. TypeOK /\ HandlersHaveInput
  BY TypeCorrectInit
<1>2. Waiting = <<>> /\ ~Inspecting
  BY NothingWaitsInit
<1>3. EntryInv
  BY <1>2, EmptySeq DEF EntryInv
<1>4. DOMAIN cm = {}
  BY DEF Init
<1>5. QED
  BY <1>1, <1>2, <1>3, <1>4 DEF Init, LifeInv, BatchInv, RequestInv, FreshInv, CurInv,
     LargeInv, Dead

LEMMA LifeInvariant == SafeSpec => []LifeInv
<1>1. LifeInv /\ [Next]_vars => LifeInv'
  BY TypeStep, InputStep, BatchStep, RequestStep, FreshStep, EntryStep, LargeStep
  DEF LifeInv
<1>2. QED
  BY <1>1, LifeInit, PTL DEF SafeSpec

LEMMA DeadStays ==
    ASSUME Dead, [Next]_vars
    PROVE  UNCHANGED vars
BY DEF Next, ServerNext, PeerNext, PeerConnect, PeerEstablished,
   PeerLeave, HcaNext, HcaReceive, HcaReceiveTooLong, HcaSend, HcaSendFails,
   HcaFlush, CmNext, Accept, RefuseConnect, AcceptPartly, AcceptCrash, CmIgnore,
   Release, CmHandler, Start, StartFails, StartWithoutChannel, Dispatch,
   RunPollEvent, DisconnectFailed, CrashOnFreed, PollNext, GetCqEvent, ReqNotify,
   PollCq, PollEventFails, WorkNext, HandleBadCompletion, HandleRecv,
   HandleRecvFails, HandleSent, HandleReadDone, LookForHead, RegisterCrash,
       ReadPastBuffer, Reply,
   Running, Dead

LEMMA SubsetOfDomain ==
    ASSUME NEW X, NEW s \in Seq(X), NEW T \in SUBSET DOMAIN s
    PROVE  Cardinality(T) \in Nat
<1>1. DOMAIN s = 1 .. Len(s) /\ Len(s) \in Nat
  BY LenProperties
<1>2. IsFiniteSet(DOMAIN s)
  BY <1>1, FS_Interval
<1>3. IsFiniteSet(T)
  BY <1>2, FS_Subset
<1>4. QED
  BY <1>3, FS_CardinalityType

\* What waits before and after a step, counted.
LEMMA WaitingCount ==
    ASSUME TypeOK, HandlersHaveInput, NEW S
    PROVE  /\ Occurrences(Waiting, S) \in Nat
           /\ \A e \in Completions : Waiting' = Append(Waiting, e) =>
                Occurrences(Waiting', S) =
                    Occurrences(Waiting, S) + (IF e \in S THEN 1 ELSE 0)
           /\ Takes =>
                Occurrences(Waiting, S) =
                    Occurrences(Waiting', S) + (IF cur \in S THEN 1 ELSE 0)
           /\ Takes => Occurrences(Waiting', S) \in Nat
<1>1. Waiting \in Seq(Completions)
  BY WaitingType
<1>2. \A s \in Seq(Completions) : Occurrences(s, S) \in Nat
  <2>1. \A s \in Seq(Completions) : Occurrences(s, S) \in 0 .. Len(s)
    BY PlacesFinite
  <2>2. QED
    BY <2>1, LenProperties
<1>3. ASSUME NEW e \in Completions, Waiting' = Append(Waiting, e)
      PROVE  Occurrences(Append(Waiting, e), S) =
                 Occurrences(Waiting, S) + (IF e \in S THEN 1 ELSE 0)
  BY <1>1, OccurrencesAppend
<1>4. ASSUME Takes
      PROVE  /\ Occurrences(Waiting, S) =
                    Occurrences(Tail(Waiting), S) + (IF cur \in S THEN 1 ELSE 0)
             /\ Waiting' = Tail(Waiting)
             /\ Occurrences(Tail(Waiting), S) \in Nat
  <2>1. Waiting # <<>> /\ Head(Waiting) = cur /\ Waiting' = Tail(Waiting)
    BY <1>4 DEF Takes
  <2>2. Tail(Waiting) \in Seq(Completions)
    BY <1>1, <2>1, HeadTailProperties
  <2>3. Occurrences(Tail(Waiting), S) \in Nat
    BY <1>2, <2>2
  <2>4. Occurrences(Waiting, S)
          = Occurrences(Tail(Waiting), S) + (IF Head(Waiting) \in S THEN 1 ELSE 0)
    BY <1>1, <2>1, OccurrencesTail
  <2>5. QED
    BY <2>1, <2>3, <2>4
<1>5. \A e \in Completions : Waiting' = Append(Waiting, e) =>
            Occurrences(Waiting', S) =
                Occurrences(Waiting, S) + (IF e \in S THEN 1 ELSE 0)
  BY <1>3
<1>6. Takes =>
        /\ Occurrences(Waiting, S) =
               Occurrences(Waiting', S) + (IF cur \in S THEN 1 ELSE 0)
        /\ Occurrences(Waiting', S) \in Nat
  BY <1>4
<1>7. QED
  BY <1>1, <1>2, <1>5, <1>6

------------------------------------------------------------------------------
(***************************************************************************)
(* Every message is counted.                                               *)
(***************************************************************************)
LEMMA CountedStep ==
    ASSUME LifeInv, CountedInv, [Next]_vars
    PROVE  CountedInv'
<1>1. StepKinds
  BY EveryStep DEF LifeInv
<1>2. CASE Dead'
  BY <1>2 DEF CountedInv
<1>3. CASE ~Dead'
  <2>1. ~Dead
    BY <1>3, DeadStays DEF vars, Dead
  <2>2. \A c \in Conns :
          /\ delivered[c] = totalRecv[c] + Occurrences(Waiting, MessagesOf(c))
          /\ delivered[c] \in Nat /\ totalRecv[c] \in Nat
    BY <2>1 DEF CountedInv, LifeInv, TypeOK, PeerTypeOK, ConnTypeOK
  <2>3. delivered \in [Conns -> Nat] /\ totalRecv \in [Conns -> Nat]
    BY DEF LifeInv, TypeOK, PeerTypeOK, ConnTypeOK
  <2> SUFFICES ASSUME NEW d \in Conns
               PROVE  delivered'[d] = totalRecv'[d] + Occurrences(Waiting', MessagesOf(d))
    BY DEF CountedInv, MessagesOf, IsMessage
  <2> DEFINE M == MessagesOf(d)
  <2>4. \A e \in Completions : e \in M <=> IsMessage(e, d)
    BY DEF MessagesOf
  <2>5. Occurrences(Waiting, M) \in Nat
    BY WaitingCount DEF LifeInv
  <2>6. CASE UNCHANGED <<delivered, totalRecv, Waiting>>
    BY <2>2, <2>6
  <2>7. ASSUME NEW c \in Conns, NEW e \in Completions, Adds(c, e), Arrives(c, e)
        PROVE  delivered'[d] = totalRecv'[d] + Occurrences(Waiting', M)
    <3>1. totalRecv' = totalRecv /\ delivered' = [delivered EXCEPT ![c] = @ + 1]
      BY <2>7 DEF Adds, Arrives
    <3>2. Occurrences(Waiting', M) = Occurrences(Waiting, M) + (IF e \in M THEN 1 ELSE 0)
      BY <2>7, WaitingCount DEF Adds, LifeInv
    <3>3. e \in M <=> c = d
      BY <2>4, <2>7 DEF Adds, Arrives, IsMessage
    <3>4. CASE c = d
      BY <2>2, <2>3, <2>5, <3>1, <3>2, <3>3, <3>4
    <3>5. CASE c # d
      BY <2>2, <2>3, <2>5, <3>1, <3>2, <3>3, <3>5
    <3>6. QED
      BY <3>4, <3>5
  <2>8. ASSUME NEW c \in Conns, NEW e \in Completions, Adds(c, e),
               ReceiveFails(c, e) \/ IsSent(c, e)
        PROVE  delivered'[d] = totalRecv'[d] + Occurrences(Waiting', M)
    <3>1. UNCHANGED <<totalRecv, delivered>>
      BY <2>8 DEF Adds, ReceiveFails, IsSent
    <3>2. Occurrences(Waiting', M) = Occurrences(Waiting, M) + (IF e \in M THEN 1 ELSE 0)
      BY <2>8, WaitingCount DEF Adds, LifeInv
    <3>3. e \notin M
      BY <2>4, <2>8 DEF ReceiveFails, IsSent, IsMessage
    <3>4. QED
      BY <2>2, <2>5, <3>1, <3>2, <3>3
  <2>9. CASE Takes /\ (Skips \/ Counts)
    <3>1. /\ Occurrences(Waiting, M) =
                Occurrences(Waiting', M) + (IF cur \in M THEN 1 ELSE 0)
          /\ Occurrences(Waiting', M) \in Nat
      BY <2>9, WaitingCount DEF LifeInv
    <3>2. cur \in Completions /\ delivered' = delivered
      BY <2>9, CurGood DEF Takes, LifeInv
    <3>3. CASE Skips
      <4>1. cur \notin M /\ totalRecv' = totalRecv
        BY <2>4, <3>2, <3>3 DEF Skips, IsMessage
      <4>2. QED
        BY <2>2, <3>1, <3>2, <4>1
    <3>4. CASE Counts
      <4>1. totalRecv' = [totalRecv EXCEPT ![cur.conn] = @ + 1]
            /\ (cur \in M <=> cur.conn = d)
        BY <2>4, <3>2, <3>4 DEF Counts, IsMessage
      <4>2. CASE cur.conn = d
        BY <2>2, <2>3, <3>1, <3>2, <4>1, <4>2
      <4>3. CASE cur.conn # d
        BY <2>2, <2>3, <3>1, <3>2, <4>1, <4>3
      <4>4. QED
        BY <4>2, <4>3
    <3>5. QED
      BY <2>9, <3>3, <3>4
  <2>10. QED
    BY <1>1, <1>3, <2>6, <2>7, <2>8, <2>9 DEF StepKinds, Still, Ends, Apart, Inspects
<1>4. QED
  BY <1>2, <1>3

\* The counts the properties take of the two sequences are counts of what waits.
LEMMA CountsOfWaiting ==
    ASSUME LifeInv, Running, NEW S
    PROVE  Occurrences(Waiting, S) =
             Cardinality({i \in DOMAIN cq : cq[i] \in S})
             + Cardinality({i \in DOMAIN batch : batch[i] \in S /\ ~(i = 1 /\ Inspecting)})
<1>1. /\ cq \in Seq(Completions) /\ batch \in Seq(Completions)
      /\ Unhandled \in Seq(Completions)
      /\ pc \in {"work", "head", "reply"} => batch # <<>>
  BY WaitingType DEF LifeInv
<1>2. Occurrences(Waiting, S) = Occurrences(Unhandled, S) + Occurrences(cq, S)
  BY <1>1, OccurrencesConcat DEF Waiting
<1>3. Occurrences(cq, S) = Cardinality({i \in DOMAIN cq : cq[i] \in S})
  BY DEF Occurrences, Places
<1>4. Occurrences(Unhandled, S)
        = Cardinality({i \in DOMAIN batch : batch[i] \in S /\ ~(i = 1 /\ Inspecting)})
  <2>1. CASE Inspecting
    <3>1. Unhandled = Tail(batch) /\ batch # <<>>
      BY <1>1, <2>1 DEF Unhandled, Inspecting
    <3>2. {i \in DOMAIN batch : batch[i] \in S /\ ~(i = 1 /\ Inspecting)}
            = {i \in DOMAIN batch : batch[i] \in S /\ i # 1}
      BY <2>1
    <3>3. QED
      BY <1>1, <3>1, <3>2, OccurrencesBehindFirst
  <2>2. CASE ~Inspecting
    <3>1. Unhandled = batch
      BY <2>2 DEF Unhandled, Inspecting, LifeInv, BatchInv, Running
    <3>2. {i \in DOMAIN batch : batch[i] \in S /\ ~(i = 1 /\ Inspecting)}
            = Places(batch, S)
      BY <2>2 DEF Places
    <3>3. QED
      BY <3>1, <3>2 DEF Occurrences
  <2>3. QED
    BY <2>1, <2>2
<1>5. Occurrences(Unhandled, S) \in Nat /\ Occurrences(cq, S) \in Nat
  BY <1>1, PlacesFinite, LenProperties
<1>6. QED
  BY <1>2, <1>3, <1>4, <1>5

LEMMA CountedInit == Init => CountedInv
<1> SUFFICES ASSUME Init, NEW c \in Conns
             PROVE  delivered[c] = totalRecv[c] + Occurrences(Waiting, MessagesOf(c))
  BY DEF CountedInv
<1>1. Waiting = <<>>
  BY NothingWaitsInit
<1>2. QED
  BY <1>1, NoneInEmpty DEF Init

\* Total_recv never loses or invents a message while the server runs: it lags by
\* the completions that wait, for any number of connections and batch size.
THEOREM MessagesCounted == SafeSpec => []EveryMessageCounted
<1>1. LifeInv /\ CountedInv /\ [Next]_vars => CountedInv'
  BY CountedStep
<1>2. ASSUME LifeInv, CountedInv PROVE EveryMessageCounted
  <2> SUFFICES ASSUME Running, NEW c \in Conns
               PROVE  delivered[c] = totalRecv[c]
                        + Count(cq, LAMBDA i : IsMessage(cq[i], c))
                        + Count(batch, LAMBDA i : IsMessage(batch[i], c)
                                                  /\ ~(i = 1 /\ Inspecting))
    BY DEF EveryMessageCounted
  <2>1. cq \in Seq(Completions) /\ batch \in Seq(Completions)
    BY <1>2, WaitingType DEF LifeInv
  <2>2. /\ \A i \in DOMAIN cq : cq[i] \in MessagesOf(c) <=> IsMessage(cq[i], c)
        /\ \A i \in DOMAIN batch : batch[i] \in MessagesOf(c) <=> IsMessage(batch[i], c)
    BY <2>1, ElementOfSeq, LenProperties DEF MessagesOf
  <2>3. Count(cq, LAMBDA i : IsMessage(cq[i], c))
          = Cardinality({i \in DOMAIN cq : cq[i] \in MessagesOf(c)})
    BY <2>2 DEF Count
  <2>4. Count(batch, LAMBDA i : IsMessage(batch[i], c) /\ ~(i = 1 /\ Inspecting))
          = Cardinality({i \in DOMAIN batch : batch[i] \in MessagesOf(c)
                                              /\ ~(i = 1 /\ Inspecting)})
    <3>1. {i \in DOMAIN batch : IsMessage(batch[i], c) /\ ~(i = 1 /\ Inspecting)}
            = {i \in DOMAIN batch : batch[i] \in MessagesOf(c) /\ ~(i = 1 /\ Inspecting)}
      BY <2>2
    <3>2. QED
      BY <3>1 DEF Count
  <2>5. delivered[c] = totalRecv[c] + Occurrences(Waiting, MessagesOf(c))
        /\ delivered[c] \in Nat /\ totalRecv[c] \in Nat
    BY <1>2 DEF CountedInv, Running, LifeInv, TypeOK, PeerTypeOK, ConnTypeOK
  <2>6. Occurrences(Waiting, MessagesOf(c))
          = Count(cq, LAMBDA i : IsMessage(cq[i], c))
            + Count(batch, LAMBDA i : IsMessage(batch[i], c) /\ ~(i = 1 /\ Inspecting))
    BY <1>2, <2>3, <2>4, CountsOfWaiting
  <2>7. Count(cq, LAMBDA i : IsMessage(cq[i], c)) \in Nat
        /\ Count(batch, LAMBDA i : IsMessage(batch[i], c) /\ ~(i = 1 /\ Inspecting)) \in Nat
    <3>1. ASSUME NEW s \in Seq(Completions), NEW T \in SUBSET DOMAIN s
          PROVE  Cardinality(T) \in Nat
      BY SubsetOfDomain
    <3>2. QED
      BY <2>1, <3>1 DEF Count
  <2>8. QED
    BY <2>5, <2>6, <2>7
<1>3. QED
  BY <1>1, <1>2, CountedInit, LifeInvariant, PTL DEF SafeSpec

------------------------------------------------------------------------------
(***************************************************************************)
(* The completion queue is bounded by the two queues of each connection.   *)
(***************************************************************************)
LEMMA NoneOfNew ==
    ASSUME LifeInv, NEW c \in Conns, qp[c] = "none", NEW S,
           \A e \in S : e.conn = c
    PROVE  Occurrences(Waiting, S) = 0
<1>1. Waiting \in Seq(GoodOnes)
  BY DEF LifeInv, EntryInv
<1>2. \A i \in DOMAIN Waiting : Waiting[i] \in GoodOnes
  BY <1>1, ElementOfSeq, LenProperties
<1>3. \A i \in DOMAIN Waiting : Waiting[i] \notin S
  BY <1>2 DEF GoodOnes, GoodEntry
<1>4. QED
  BY <1>1, <1>3, OccurrencesPositive

LEMMA QueuedCount ==
    ASSUME TypeOK, HandlersHaveInput, NEW S
    PROVE  Occurrences(cq, S) \in Nat /\ Occurrences(cq, S) <= Occurrences(Waiting, S)
<1>1. /\ Occurrences(Unhandled, S) \in 0 .. Len(Unhandled) /\ Len(Unhandled) \in Nat
      /\ Occurrences(cq, S) \in 0 .. Len(cq) /\ Len(cq) \in Nat
      /\ Occurrences(Waiting, S) = Occurrences(Unhandled, S) + Occurrences(cq, S)
  BY WaitingType, OccurrencesConcat, PlacesFinite, LenProperties DEF Waiting
<1>2. QED
  BY <1>1

LEMMA RecvBoundStep ==
    ASSUME LifeInv, RecvBound, [Next]_vars
    PROVE  RecvBound'
<1> USE DEF LifeInv
<1>1. StepKinds
  BY EveryStep
<1>2. /\ rq \in [Conns -> Seq(Bufs \cup {LargeBuf})]
      /\ \A c \in Conns : Len(rq[c]) \in Nat
  <2>1. rq \in [Conns -> Seq(Bufs \cup {LargeBuf})]
    BY DEF TypeOK, QpTypeOK
  <2>2. QED
    BY <2>1, LenProperties
<1> SUFFICES ASSUME NEW d \in Conns
             PROVE  Occurrences(Waiting', RecvsOf(d)) + Len(rq'[d]) <= NumBufs
  BY DEF RecvBound, RecvsOf
<1> DEFINE R == RecvsOf(d)
<1>3. /\ Occurrences(Waiting, R) \in Nat /\ NumBufs \in Nat
      /\ Occurrences(Waiting, R) + Len(rq[d]) <= NumBufs
  BY WaitingCount, ServerAssumption DEF RecvBound
<1>4. \A e \in Completions : e \in R <=> e.conn = d /\ e.op = "recv"
  BY DEF RecvsOf
<1>5. CASE UNCHANGED <<rq, Waiting>>
  BY <1>3, <1>5
<1>6. CASE Ends
  BY <1>2, <1>3, <1>6, QueuedCount DEF Ends
<1>7. ASSUME NEW c \in Conns, Apart, Connects(c)
      PROVE  Occurrences(Waiting', R) + Len(rq'[d]) <= NumBufs
  <2>1. PICK k \in 0 .. NumBufs : rq' = [rq EXCEPT ![c] = [i \in 1 .. k |-> i]]
    BY <1>7 DEF Connects
  <2>2. Waiting' = Waiting
    BY <1>7 DEF Apart
  <2>3. CASE c = d
    <3>1. Occurrences(Waiting, R) = 0
      BY <1>7, <2>3, NoneOfNew DEF RecvsOf, Connects
    <3>2. rq'[d] = [i \in 1 .. k |-> i]
      BY <1>2, <2>1, <2>3
    <3>3. [i \in 1 .. k |-> i] \in Seq(Nat) /\ Len([i \in 1 .. k |-> i]) = k
      BY ServerAssumption, SeqDef, LenProperties
    <3>4. QED
      BY <1>3, <2>2, <3>1, <3>2, <3>3
  <2>4. CASE c # d
    BY <1>2, <1>3, <2>1, <2>2, <2>4
  <2>5. QED
    BY <2>3, <2>4
<1>8. ASSUME NEW c \in Conns, NEW e \in Completions, Adds(c, e),
             Arrives(c, e) \/ ReceiveFails(c, e)
      PROVE  Occurrences(Waiting', R) + Len(rq'[d]) <= NumBufs
  <2>1. Occurrences(Waiting', R) = Occurrences(Waiting, R) + (IF e \in R THEN 1 ELSE 0)
    BY <1>8, WaitingCount DEF Adds
  <2>2. /\ rq[c] # <<>> /\ rq' = [rq EXCEPT ![c] = Tail(@)]
        /\ e \in R <=> c = d
    BY <1>4, <1>8 DEF Adds, Arrives, ReceiveFails
  <2>3. Len(Tail(rq[c])) = Len(rq[c]) - 1
    BY <1>2, <2>2, HeadTailProperties
  <2>4. CASE c = d
    BY <1>2, <1>3, <2>1, <2>2, <2>3, <2>4
  <2>5. CASE c # d
    BY <1>2, <1>3, <2>1, <2>2, <2>5
  <2>6. QED
    BY <2>4, <2>5
<1>9. ASSUME NEW c \in Conns, NEW e \in Completions, Adds(c, e), IsSent(c, e)
      PROVE  Occurrences(Waiting', R) + Len(rq'[d]) <= NumBufs
  <2>1. Occurrences(Waiting', R) = Occurrences(Waiting, R) + (IF e \in R THEN 1 ELSE 0)
    BY <1>9, WaitingCount DEF Adds
  <2>2. e \notin R /\ rq' = rq
    BY <1>4, <1>9 DEF IsSent
  <2>3. QED
    BY <1>3, <2>1, <2>2
<1>10. CASE Takes /\ (Skips \/ Counts)
  <2>1. /\ Occurrences(Waiting, R) =
               Occurrences(Waiting', R) + (IF cur \in R THEN 1 ELSE 0)
        /\ Occurrences(Waiting', R) \in Nat
    BY <1>10, WaitingCount
  <2>2. cur \in Completions /\ GoodEntry(cur)
    BY <1>10, CurGood DEF Takes
  <2>3. cur.conn \in Conns
    BY <2>2 DEF Completions
  <2>4. CASE rq' = rq
    BY <1>2, <1>3, <2>1, <2>4
  <2>5. ASSUME NEW b \in Bufs \cup {LargeBuf}, cur.op = "recv",
               rq' = [rq EXCEPT ![cur.conn] = Append(@, b)]
        PROVE  Occurrences(Waiting', R) + Len(rq'[d]) <= NumBufs
    <3>1. Len(Append(rq[cur.conn], b)) = Len(rq[cur.conn]) + 1
      BY <1>2, <2>3, AppendProperties
    <3>2. CASE cur.conn = d
      BY <1>2, <1>3, <1>4, <2>1, <2>2, <2>5, <3>1, <3>2
    <3>3. CASE cur.conn # d
      BY <1>2, <1>3, <1>4, <2>1, <2>2, <2>5, <3>3
    <3>4. QED
      BY <3>2, <3>3
  <2>6. cur.status = "len" => cur.op = "recv"
    BY <2>2 DEF GoodEntry
  <2>7. IsMessage(cur, cur.conn) => cur.op = "recv" /\ cur.buf \in Bufs
    BY <2>2 DEF GoodEntry, IsMessage
  <2>8. QED
    BY <1>10, <2>4, <2>5, <2>6, <2>7 DEF Skips, Counts
<1>11. QED
  BY <1>1, <1>5, <1>6, <1>7, <1>8, <1>9, <1>10
  DEF StepKinds, Still, Apart, TakesDown, Frees, Inspects

LEMMA SendBoundStep ==
    ASSUME LifeInv, SendBound, [Next]_vars
    PROVE  SendBound'
<1> USE DEF LifeInv
<1>1. StepKinds
  BY EveryStep
<1>2. /\ sq \in [Conns -> Seq({"send", "read"})]
      /\ \A c \in Conns : Len(sq[c]) \in Nat
  <2>1. sq \in [Conns -> Seq({"send", "read"})]
    BY DEF TypeOK, QpTypeOK
  <2>2. QED
    BY <2>1, LenProperties
<1> SUFFICES ASSUME NEW d \in Conns
             PROVE  Len(sq'[d]) + Occurrences(cq', SendsOf(d)) <= MaxSendWr
  BY DEF SendBound, SendsOf
<1> DEFINE S == SendsOf(d)
<1>3. /\ Occurrences(cq, S) \in Nat /\ MaxSendWr \in Nat
      /\ Len(sq[d]) + Occurrences(cq, S) <= MaxSendWr
  BY QueuedCount, ServerAssumption DEF SendBound
<1>4. \A e \in Completions : e \in S <=> e.conn = d /\ e.op # "recv"
  BY DEF SendsOf
<1>5. CASE UNCHANGED <<sq, cq>>
  BY <1>3, <1>5
<1>6. CASE sq' = sq /\ PollCq
  <2>1. /\ cq = Unhandled' \o cq'
        /\ Unhandled' \in Seq(Completions) /\ cq' \in Seq(Completions)
    BY <1>6, WaitingPoll
  <2>2. ASSUME NEW u \in Seq(Completions), NEW q \in Seq(Completions)
        PROVE  /\ Occurrences(u \o q, S) = Occurrences(u, S) + Occurrences(q, S)
               /\ Occurrences(u, S) \in Nat /\ Occurrences(q, S) \in Nat
    <3>1. Occurrences(u, S) \in 0 .. Len(u) /\ Occurrences(q, S) \in 0 .. Len(q)
      BY PlacesFinite
    <3>2. QED
      BY <3>1, OccurrencesConcat, LenProperties
  <2>3. /\ Occurrences(cq, S) = Occurrences(Unhandled', S) + Occurrences(cq', S)
        /\ Occurrences(Unhandled', S) \in Nat /\ Occurrences(cq', S) \in Nat
    BY <2>1, <2>2
  <2>4. QED
    BY <1>2, <1>3, <1>6, <2>3
<1>7. ASSUME NEW c \in Conns, NEW e \in Completions, Adds(c, e),
             Arrives(c, e) \/ ReceiveFails(c, e) \/ IsSent(c, e)
      PROVE  Len(sq'[d]) + Occurrences(cq', S) <= MaxSendWr
  <2>1. cq \in Seq(Completions) /\ cq' = Append(cq, e)
    BY <1>7, WaitingType DEF Adds
  <2>2. Occurrences(cq', S) = Occurrences(cq, S) + (IF e \in S THEN 1 ELSE 0)
    BY <2>1, OccurrencesAppend
  <2>3. CASE Arrives(c, e) \/ ReceiveFails(c, e)
    BY <1>2, <1>3, <1>4, <2>2, <2>3 DEF Arrives, ReceiveFails
  <2>4. CASE IsSent(c, e)
    <3>1. /\ sq[c] # <<>> /\ sq' = [sq EXCEPT ![c] = Tail(@)]
          /\ e \in S <=> c = d
      BY <1>4, <1>7, <2>4 DEF Adds, IsSent
    <3>2. Len(Tail(sq[c])) = Len(sq[c]) - 1
      BY <1>2, <3>1, HeadTailProperties
    <3>3. CASE c = d
      BY <1>2, <1>3, <2>2, <3>1, <3>2, <3>3
    <3>4. CASE c # d
      BY <1>2, <1>3, <2>2, <3>1, <3>4
    <3>5. QED
      BY <3>3, <3>4
  <2>5. QED
    BY <1>7, <2>3, <2>4
<1>8. CASE pc \in {"work", "head", "reply"} /\ cq' = cq /\ PostsAtMost(cur.conn)
  <2>1. cur \in Completions
    BY <1>8, CurGood
  <2>2. cur.conn \in Conns
    BY <2>1 DEF Completions
  <2>3. SlotsUsed(d) = Len(sq[d]) + Occurrences(cq, S)
    <3>1. \A i \in DOMAIN cq : cq[i] \in S <=> cq[i].conn = d /\ cq[i].op # "recv"
      BY <1>4, WaitingType, ElementOfSeq, LenProperties
    <3>2. {i \in DOMAIN cq : cq[i].conn = d /\ cq[i].op # "recv"} = Places(cq, S)
      BY <3>1 DEF Places
    <3>3. QED
      BY <3>2 DEF SlotsUsed, Occurrences
  <2>4. ASSUME NEW op \in {"send", "read"}, SlotsUsed(cur.conn) < MaxSendWr,
               sq' = [sq EXCEPT ![cur.conn] = Append(@, op)]
        PROVE  Len(sq'[d]) + Occurrences(cq', S) <= MaxSendWr
    <3>1. Len(Append(sq[cur.conn], op)) = Len(sq[cur.conn]) + 1
      BY <1>2, <2>2, AppendProperties
    <3>2. CASE cur.conn = d
      BY <1>2, <1>3, <1>8, <2>3, <2>4, <3>1, <3>2
    <3>3. CASE cur.conn # d
      BY <1>2, <1>3, <1>8, <2>2, <2>4, <3>3
    <3>4. QED
      BY <3>2, <3>3
  <2>5. QED
    BY <1>5, <1>8, <2>4 DEF PostsAtMost
<1>9. QED
  BY <1>1, <1>5, <1>6, <1>7, <1>8 DEF StepKinds, Still, Ends, Apart, Takes, Inspects, Inspecting

\* What a connection can ever have in the completion queue is bounded by its two
\* queues, for any number of connections and whatever fails.
THEOREM CompletionQueueBounded == SafeSpec => []CompletionsBounded
<1>1. Init => RecvBound /\ SendBound
  <2> SUFFICES ASSUME Init, NEW c \in Conns
               PROVE  /\ Occurrences(Waiting, RecvsOf(c)) + Len(rq[c]) <= NumBufs
                      /\ Len(sq[c]) + Occurrences(cq, SendsOf(c)) <= MaxSendWr
    BY DEF RecvBound, SendBound
  <2>1. Waiting = <<>> /\ cq = <<>> /\ rq[c] = <<>> /\ sq[c] = <<>>
    BY NothingWaitsInit DEF Init
  <2>2. Len(<<>>) = 0
    BY EmptySeq
  <2>3. QED
    BY <2>1, <2>2, NoneInEmpty, ServerAssumption
<1>2. LifeInv /\ RecvBound /\ SendBound /\ [Next]_vars => RecvBound' /\ SendBound'
  BY RecvBoundStep, SendBoundStep
<1>3. ASSUME LifeInv, RecvBound, SendBound PROVE CompletionsBounded
  <2> SUFFICES ASSUME NEW c \in Conns
               PROVE  Count(cq, LAMBDA i : cq[i].conn = c) + Len(rq[c]) + Len(sq[c])
                        <= NumBufs + MaxSendWr
    BY DEF CompletionsBounded
  <2> DEFINE R == RecvsOf(c)
             S == SendsOf(c)
  <2>1. cq \in Seq(Completions)
    BY <1>3, WaitingType DEF LifeInv
  <2>2. Count(cq, LAMBDA i : cq[i].conn = c) = Occurrences(cq, R \cup S)
    <3>1. \A i \in DOMAIN cq : cq[i] \in R \cup S <=> cq[i].conn = c
      BY <2>1, ElementOfSeq, LenProperties DEF RecvsOf, SendsOf
    <3>2. {i \in DOMAIN cq : cq[i].conn = c} = Places(cq, R \cup S)
      BY <3>1 DEF Places
    <3>3. QED
      BY <3>2 DEF Count, Occurrences
  <2>3. Occurrences(cq, R \cup S) = Occurrences(cq, R) + Occurrences(cq, S)
    BY <2>1, OccurrencesDisjoint DEF RecvsOf, SendsOf
  <2>4. /\ Occurrences(cq, R) \in Nat /\ Occurrences(cq, S) \in Nat
        /\ Occurrences(cq, R) <= Occurrences(Waiting, R)
        /\ Occurrences(Waiting, R) \in Nat
    BY <1>3, QueuedCount, WaitingCount DEF LifeInv
  <2>5. /\ Occurrences(Waiting, R) + Len(rq[c]) <= NumBufs
        /\ Len(sq[c]) + Occurrences(cq, S) <= MaxSendWr
    BY <1>3 DEF RecvBound, SendBound
  <2>6. Len(rq[c]) \in Nat /\ Len(sq[c]) \in Nat /\ NumBufs \in Nat /\ MaxSendWr \in Nat
    BY <1>3, LenProperties, ServerAssumption DEF LifeInv, TypeOK, QpTypeOK
  <2>7. QED
    BY <2>2, <2>3, <2>4, <2>5, <2>6
<1>4. QED
  BY <1>1, <1>2, <1>3, LifeInvariant, PTL DEF SafeSpec

------------------------------------------------------------------------------
(***************************************************************************)
(* The receive buffers are conserved.                                      *)
(***************************************************************************)
LEMMA NoFaultNoDeath ==
    ASSUME TypeOK, [Next]_vars, faults' = 0, ~Dead'
    PROVE  faults = 0 /\ ~Dead /\ ~Fault
<1>1. faults \in Nat
  BY ServerAssumption DEF TypeOK, LoopTypeOK
<1>2. faults = 0
  BY <1>1, FaultsGrow DEF vars
<1>3. ~Dead
  BY DeadStays DEF vars, Dead
<1>4. QED
  BY <1>1, <1>2, <1>3 DEF Fault

\* The list handle_connect_request posts holds every buffer once.
LEMMA PostedOnce ==
    ASSUME NEW b \in Bufs
    PROVE  Occurrences([i \in 1 .. NumBufs |-> i], {b}) = 1
<1>1. Places([i \in 1 .. NumBufs |-> i], {b}) = {b}
  BY DEF Places, Bufs
<1>2. QED
  BY <1>1, FS_Singleton DEF Occurrences

LEMMA BufferStep ==
    ASSUME LifeInv, BufferInv, [Next]_vars
    PROVE  BufferInv'
<1> USE DEF LifeInv
<1> SUFFICES ASSUME faults' = 0, ~Dead', NEW d \in Conns, qp'[d] = "rts", NEW b \in Bufs
             PROVE  Occurrences(rq'[d], {b}) + Occurrences(Waiting', HoldersOf(d, b)) = 1
  BY DEF BufferInv, HoldersOf, Holds
<1> DEFINE H == HoldersOf(d, b)
           Goal == Occurrences(rq'[d], {b}) + Occurrences(Waiting', H) = 1
<1>1. StepKinds /\ faults = 0 /\ ~Dead /\ ~Fault
  BY EveryStep, NoFaultNoDeath
<1>2. /\ rq \in [Conns -> Seq(Bufs \cup {LargeBuf})]
      /\ qp \in [Conns -> {"none", "rts", "err"}]
  BY DEF TypeOK, QpTypeOK
<1>3. qp[d] = "rts" =>
        Occurrences(rq[d], {b}) + Occurrences(Waiting, H) = 1
  BY <1>1 DEF BufferInv
<1>4. /\ Occurrences(Waiting, H) \in Nat
      /\ Occurrences(rq[d], {b}) \in Nat
  <2>1. Occurrences(rq[d], {b}) \in 0 .. Len(rq[d]) /\ Len(rq[d]) \in Nat
    BY <1>2, PlacesFinite, LenProperties
  <2>2. QED
    BY <2>1, WaitingCount
<1>5. \A e \in Completions : e \in H <=> e.conn = d /\ e.op = "recv" /\ e.buf = b
  BY DEF HoldersOf, Holds
<1>6. CASE UNCHANGED <<qp, rq, Waiting>>
  BY <1>3, <1>6
<1>7. CASE Ends
  BY <1>7 DEF Ends
<1>8. ASSUME NEW c \in Conns, Apart, Connects(c)
      PROVE  Goal
  <2>1. rq' = [rq EXCEPT ![c] = [i \in 1 .. NumBufs |-> i]] /\ Waiting' = Waiting
    BY <1>1, <1>8 DEF Connects, Apart
  <2>2. CASE c = d
    <3>1. Occurrences(Waiting, H) = 0
      BY <1>8, <2>2, NoneOfNew DEF HoldersOf, Holds, Connects
    <3>2. rq'[d] = [i \in 1 .. NumBufs |-> i]
      BY <1>2, <2>1, <2>2
    <3>3. QED
      BY <2>1, <3>1, <3>2, PostedOnce
  <2>3. CASE c # d
    <3>1. qp[d] = "rts" /\ rq'[d] = rq[d]
      BY <1>2, <1>8, <2>1, <2>3 DEF Connects
    <3>2. QED
      BY <1>3, <2>1, <3>1
  <2>4. QED
    BY <2>2, <2>3
<1>9. ASSUME NEW c \in Conns, Apart, TakesDown(c)
      PROVE  Goal
  <2>1. qp[d] = "rts" /\ rq' = rq /\ Waiting' = Waiting
    BY <1>2, <1>9 DEF TakesDown, Apart
  <2>2. QED
    BY <1>3, <2>1
<1>10. ASSUME NEW c \in Conns, NEW e \in Completions, Adds(c, e),
              Arrives(c, e) \/ ReceiveFails(c, e) \/ IsSent(c, e)
       PROVE  Goal
  <2>1. Occurrences(Waiting', H) = Occurrences(Waiting, H) + (IF e \in H THEN 1 ELSE 0)
    BY <1>10, WaitingCount DEF Adds
  <2>2. e.conn = c /\ qp[d] = "rts"
    BY <1>2, <1>10 DEF Adds, Arrives, ReceiveFails, IsSent
  <2>3. CASE c # d \/ IsSent(c, e)
    <3>1. rq'[d] = rq[d] /\ e \notin H
      BY <1>2, <1>5, <1>10, <2>2, <2>3 DEF Arrives, ReceiveFails, IsSent
    <3>2. QED
      BY <1>3, <1>4, <2>1, <2>2, <3>1
  <2>4. CASE c = d /\ Arrives(c, e)
    <3>1. /\ rq[d] # <<>> /\ rq'[d] = Tail(rq[d])
          /\ e \in H <=> Head(rq[d]) \in {b}
      BY <1>2, <1>5, <2>2, <2>4 DEF Arrives
    <3>2. Occurrences(rq[d], {b})
            = Occurrences(Tail(rq[d]), {b}) + (IF Head(rq[d]) \in {b} THEN 1 ELSE 0)
      BY <1>2, <3>1, OccurrencesTail
    <3>3. Occurrences(Tail(rq[d]), {b}) \in Nat
      <4>1. Tail(rq[d]) \in Seq(Bufs \cup {LargeBuf})
        BY <1>2, <3>1, HeadTailProperties
      <4> DEFINE t == Tail(rq[d])
      <4> HIDE DEF t
      <4>2. Occurrences(t, {b}) \in 0 .. Len(t) /\ Len(t) \in Nat
        BY <4>1, PlacesFinite, LenProperties DEF t
      <4>3. QED
        BY <4>2 DEF t
    <3>4. QED
      BY <1>3, <1>4, <2>1, <2>2, <3>1, <3>2, <3>3
  <2>5. CASE c = d /\ ReceiveFails(c, e)
    BY <1>2, <2>5 DEF ReceiveFails
  <2>6. QED
    BY <1>10, <2>3, <2>4, <2>5
<1>11. CASE Takes /\ (Skips \/ Counts)
  <2>1. /\ Occurrences(Waiting, H) =
               Occurrences(Waiting', H) + (IF cur \in H THEN 1 ELSE 0)
        /\ Occurrences(Waiting', H) \in Nat
    BY <1>11, WaitingCount
  <2>2. cur \in Completions /\ GoodEntry(cur) /\ qp' = qp
    BY <1>11, CurGood DEF Takes
  <2>3. cur.conn \in Conns
    BY <2>2 DEF Completions
  <2>4. CASE Skips
    <3>1. cur \notin H
      BY <1>5, <2>2, <2>4 DEF Skips, IsMessage, GoodEntry
    <3>2. rq'[d] = rq[d]
      BY <1>2, <2>2, <2>4 DEF Skips, GoodEntry
    <3>3. QED
      BY <1>3, <2>1, <2>2, <3>1, <3>2
  <2>5. CASE Counts
    <3>1. rq' = [rq EXCEPT ![cur.conn] = Append(@, cur.buf)]
          /\ (cur \in H <=> cur.conn = d /\ cur.buf = b) /\ cur.buf \in Bufs
      BY <1>1, <1>5, <2>2, <2>5 DEF Counts, IsMessage, GoodEntry
    <3>2. Occurrences(Append(rq[cur.conn], cur.buf), {b})
            = Occurrences(rq[cur.conn], {b}) + (IF cur.buf \in {b} THEN 1 ELSE 0)
      <4>1. rq[cur.conn] \in Seq(Bufs \cup {LargeBuf}) /\ cur.buf \in Bufs \cup {LargeBuf}
        BY <1>2, <2>3, <3>1
      <4>2. \A s \in Seq(Bufs \cup {LargeBuf}) : \A x \in Bufs \cup {LargeBuf} :
                Occurrences(Append(s, x), {b})
                    = Occurrences(s, {b}) + (IF x \in {b} THEN 1 ELSE 0)
        BY OccurrencesAppend
      <4>3. QED
        BY <4>1, <4>2
    <3>3. CASE cur.conn = d
      <4>1. rq'[d] = Append(rq[d], cur.buf)
        BY <1>2, <3>1, <3>3
      <4>2. QED
        BY <1>3, <1>4, <2>1, <2>2, <3>1, <3>2, <3>3, <4>1
    <3>4. CASE cur.conn # d
      BY <1>2, <1>3, <2>1, <2>2, <3>1, <3>4
    <3>5. QED
      BY <3>3, <3>4
  <2>6. QED
    BY <1>11, <2>4, <2>5
<1>12. QED
  BY <1>1, <1>6, <1>7, <1>8, <1>9, <1>10, <1>11
  DEF StepKinds, Still, Apart, Frees, Inspects

LEMMA BufferInit == Init => BufferInv
BY DEF Init, BufferInv

\* While no call fails, each receive buffer of a connection in service is posted,
\* or waits in a completion, or is handled, and is in one of those places only:
\* for any number of connections, buffers and messages.
THEOREM ReceiveBuffersConserved == SafeSpec => []RecvBuffersConserved
<1>1. LifeInv /\ BufferInv /\ [Next]_vars => BufferInv'
  BY BufferStep
<1>2. ASSUME LifeInv, BufferInv PROVE RecvBuffersConserved
  <2> SUFFICES ASSUME faults = 0, Running, NEW c \in Conns, qp[c] = "rts", NEW b \in Bufs
               PROVE  1 = Count(rq[c], LAMBDA i : rq[c][i] = b)
                          + Count(cq, LAMBDA i : Holds(cq[i], c, b))
                          + Count(batch, LAMBDA i : Holds(batch[i], c, b)
                                                    /\ ~(i = 1 /\ Inspecting))
    BY DEF RecvBuffersConserved
  <2> DEFINE H == HoldersOf(c, b)
             inCq == Count(cq, LAMBDA i : Holds(cq[i], c, b))
             inBatch == Count(batch, LAMBDA i : Holds(batch[i], c, b)
                                                /\ ~(i = 1 /\ Inspecting))
  <2>1. cq \in Seq(Completions) /\ batch \in Seq(Completions)
    BY <1>2, WaitingType DEF LifeInv
  <2>2. /\ \A i \in DOMAIN cq : cq[i] \in H <=> Holds(cq[i], c, b)
        /\ \A i \in DOMAIN batch : batch[i] \in H <=> Holds(batch[i], c, b)
    BY <2>1, ElementOfSeq, LenProperties DEF HoldersOf
  <2>3. /\ inCq = Cardinality({i \in DOMAIN cq : cq[i] \in H})
        /\ inBatch = Cardinality({i \in DOMAIN batch : batch[i] \in H
                                                       /\ ~(i = 1 /\ Inspecting)})
    <3>1. {i \in DOMAIN cq : Holds(cq[i], c, b)} = {i \in DOMAIN cq : cq[i] \in H}
      BY <2>2
    <3>2. {i \in DOMAIN batch : Holds(batch[i], c, b) /\ ~(i = 1 /\ Inspecting)}
            = {i \in DOMAIN batch : batch[i] \in H /\ ~(i = 1 /\ Inspecting)}
      BY <2>2
    <3>3. QED
      BY <3>1, <3>2 DEF Count
  <2>4. Occurrences(Waiting, H) = inCq + inBatch
    BY <1>2, <2>3, CountsOfWaiting
  <2>5. Count(rq[c], LAMBDA i : rq[c][i] = b) = Occurrences(rq[c], {b})
    <3>1. {i \in DOMAIN rq[c] : rq[c][i] = b} = Places(rq[c], {b})
      BY DEF Places
    <3>2. QED
      BY <3>1 DEF Count, Occurrences
  <2>6. Occurrences(rq[c], {b}) + Occurrences(Waiting, H) = 1
    BY <1>2 DEF BufferInv, Running
  <2>7. inCq \in Nat /\ inBatch \in Nat /\ Occurrences(rq[c], {b}) \in Nat
    <3>1. inCq \in Nat /\ inBatch \in Nat
      <4>1. ASSUME NEW s \in Seq(Completions), NEW T \in SUBSET DOMAIN s
            PROVE  Cardinality(T) \in Nat
        BY SubsetOfDomain
      <4>2. QED
        BY <2>1, <2>3, <4>1
    <3>2. rq[c] \in Seq(Bufs \cup {LargeBuf})
      BY <1>2 DEF LifeInv, TypeOK, QpTypeOK
    <3>3. Occurrences(rq[c], {b}) \in 0 .. Len(rq[c]) /\ Len(rq[c]) \in Nat
      BY <3>2, PlacesFinite, LenProperties
    <3>4. QED
      BY <3>1, <3>3
  <2>8. QED
    BY <2>4, <2>5, <2>6, <2>7
<1>3. QED
  BY <1>1, <1>2, BufferInit, LifeInvariant, PTL DEF SafeSpec

------------------------------------------------------------------------------
(***************************************************************************)
(* A message is overwritten under the handler only by a full ring.         *)
(***************************************************************************)
LEMMA ReleasedStays ==
    ASSUME TypeOK, HandlersHaveInput, RequestInv, [Next]_vars,
           NEW c \in Conns, qp[c] # "none", conn[c] = "released"
    PROVE  conn'[c] = "released"
<1>1. conn \in [Conns -> ConnStates]
  BY DEF TypeOK, ConnTypeOK
<1>2. ASSUME NEW d \in Conns, Accept(d) \/ AcceptPartly(d) \/ RefuseConnect(d)
      PROVE  conn'[c] = "released"
  <2>1. d # c
    BY <1>2, AcceptsNew DEF Accept, AcceptPartly, RefuseConnect
  <2>2. QED
    BY <1>1, <1>2, <2>1 DEF Accept, AcceptPartly, RefuseConnect
<1>3. ASSUME NEW d \in Conns, Release(d)
      PROVE  conn'[c] = "released"
  BY <1>1, <1>3 DEF Release
<1>4. ASSUME NEW d \in Conns, PeerNext(d) \/ HcaNext(d) \/ AcceptCrash(d) \/ CmIgnore(d)
                              \/ RunPollEvent(d)
      PROVE  conn' = conn
  BY <1>4 DEF PeerNext, PeerConnect, PeerEstablished, PeerLeave, HcaNext, HcaReceive,
     HcaReceiveTooLong, HcaSend, HcaSendFails, HcaFlush, AcceptCrash, CmIgnore,
     RunPollEvent
<1>5. ASSUME \/ Start \/ StartFails \/ StartWithoutChannel \/ Dispatch
             \/ DisconnectFailed \/ PollNext \/ WorkNext \/ CrashOnFreed
      PROVE  conn' = conn
  BY <1>5 DEF Start, StartFails, StartWithoutChannel, Dispatch, DisconnectFailed,
     PollNext, GetCqEvent, ReqNotify, PollCq, PollEventFails, WorkNext,
     HandleBadCompletion, HandleRecv, HandleRecvFails, HandleSent, HandleReadDone,
     LookForHead, RegisterCrash, ReadPastBuffer, Reply, CrashOnFreed
<1>6. CASE UNCHANGED vars
  BY <1>6 DEF vars
<1>7. QED
  BY <1>2, <1>3, <1>4, <1>5, <1>6 DEF Next, ServerNext, CmNext

\* A message is deposited at the start of its buffer.
LEMMA DepositStarts ==
    ASSUME NEW old \in [1 .. BufCells -> Cells], NEW m \in Messages, Len(m) <= BufCells
    PROVE  SubSeq(Deposit(old, m), 1, Len(m)) = m
<1> DEFINE s == Deposit(old, m)
<1>1. m \in Seq(WireCells) /\ Len(m) \in Nat /\ BufCells \in Nat
  BY ServerAssumption, LenProperties
<1>2. s \in [1 .. BufCells -> Cells] /\ \A i \in 1 .. Len(m) : s[i] = m[i]
  BY <1>1, DepositType DEF Deposit
<1> HIDE DEF s
<1>3. s \in Seq(Cells) /\ Len(s) = BufCells
  BY <1>1, <1>2, SeqDef, LenProperties
<1>4. /\ SubSeq(s, 1, Len(m)) \in Seq(Cells)
      /\ Len(SubSeq(s, 1, Len(m))) = Len(m)
      /\ \A i \in 1 .. Len(m) : SubSeq(s, 1, Len(m))[i] = s[i]
  <2>1. \A i \in 1 .. Len(m) : s[i] \in Cells
    BY <1>1, <1>2
  <2>2. QED
    BY <1>1, <1>3, <2>1, SubSeqProperties
<1>5. SubSeq(s, 1, Len(m)) = m
  BY <1>1, <1>2, <1>4, SeqEqual
<1>6. QED
  BY <1>5 DEF s

LEMMA IntactStep ==
    ASSUME LifeInv, BufferInv, IntactInv, [Next]_vars
    PROVE  IntactInv'
<1> USE DEF LifeInv
<1> SUFFICES ASSUME faults' = 0, ~Dead'
             PROVE  Waiting' \in Seq(IntactOnes')
  BY DEF IntactInv
<1>1. StepKinds /\ faults = 0 /\ ~Dead
  BY EveryStep, NoFaultNoDeath
<1>2. Waiting \in Seq(IntactOnes) /\ Waiting \in Seq(GoodOnes)
  BY <1>1 DEF IntactInv, EntryInv
<1>3. \A i \in DOMAIN Waiting : Waiting[i] \in IntactOnes /\ Waiting[i] \in GoodOnes
  BY <1>2, ElementOfSeq, LenProperties
<1>4. \A c \in Conns : qp[c] # "none" /\ conn'[c] # "released" => conn[c] # "released"
  BY ReleasedStays
\* What waits stays intact if its buffers are not written to.
<1>5. ASSUME \A e \in GoodOnes :
                IsMessage(e, e.conn) /\ conn'[e.conn] # "released"
                        /\ (\E i \in DOMAIN Waiting : Waiting[i] = e)
                    => mem'[e.conn][e.buf] = mem[e.conn][e.buf]
      PROVE  Waiting \in Seq(IntactOnes')
  <2>1. ASSUME NEW i \in DOMAIN Waiting, NEW e, e = Waiting[i]
        PROVE  e \in IntactOnes'
    <3>1. e \in IntactOnes /\ e \in GoodOnes /\ e.conn \in Conns /\ qp[e.conn] # "none"
      BY <1>3, <2>1 DEF GoodOnes, GoodEntry, Completions
    <3>2. QED
      BY <1>4, <1>5, <2>1, <3>1 DEF IntactOnes, IsMessage
  <2>2. \A i \in 1 .. Len(Waiting) : Waiting[i] \in IntactOnes'
    BY <1>2, <2>1, LenProperties
  <2>3. Waiting = [i \in 1 .. Len(Waiting) |-> Waiting[i]] /\ Len(Waiting) \in Nat
    BY <1>2, LenProperties
  <2>4. QED
    BY <2>2, <2>3, SeqDef
<1>6. mem' = mem => Waiting \in Seq(IntactOnes')
  BY <1>5
<1>7. CASE Still \/ Inspects \/ (Takes /\ (Skips \/ Counts))
  <2>1. Waiting \in Seq(IntactOnes')
    BY <1>6, <1>7 DEF Still, Inspects, Takes
  <2>2. Waiting' = Waiting \/ (Waiting # <<>> /\ Waiting' = Tail(Waiting))
    BY <1>7 DEF Still, Inspects, Takes
  <2>3. QED
    BY <2>1, <2>2, HeadTailProperties
<1>8. CASE Ends
  BY <1>8 DEF Ends
<1>9. ASSUME NEW c \in Conns, Apart, Connects(c) \/ TakesDown(c) \/ Frees(c)
      PROVE  Waiting' \in Seq(IntactOnes')
  <2>1. Waiting' = Waiting
    BY <1>9 DEF Apart
  <2>2. CASE Connects(c) \/ TakesDown(c)
    BY <1>6, <2>1, <2>2 DEF Connects, TakesDown
  <2>3. CASE Frees(c)
    <3>1. conn'[c] = "released" /\ \A d \in Conns \ {c} : mem'[d] = mem[d]
      BY <2>3 DEF Frees, TypeOK, ConnTypeOK
    <3>2. \A e \in GoodOnes : e.conn \in Conns
      BY DEF GoodOnes, Completions
    <3>3. QED
      BY <1>5, <2>1, <3>1, <3>2
  <2>4. QED
    BY <1>9, <2>2, <2>3
<1>10. ASSUME NEW c \in Conns, NEW e \in Completions, Adds(c, e),
              ReceiveFails(c, e) \/ IsSent(c, e)
       PROVE  Waiting' \in Seq(IntactOnes')
  <2>1. Waiting \in Seq(IntactOnes')
    BY <1>6, <1>10 DEF ReceiveFails, IsSent
  <2>2. e \in IntactOnes'
    BY <1>10 DEF IntactOnes, IsMessage, ReceiveFails, IsSent
  <2>3. QED
    BY <1>10, <2>1, <2>2, AppendProperties DEF Adds
<1>11. ASSUME NEW c \in Conns, NEW e \in Completions, Adds(c, e), Arrives(c, e)
       PROVE  Waiting' \in Seq(IntactOnes')
  <2> DEFINE b == e.buf
  <2>1. /\ e.conn = c /\ Waiting' = Append(Waiting, e) /\ qp[c] = "rts"
        /\ rq[c] # <<>> /\ b = Head(rq[c])
        /\ mem' = [mem EXCEPT ![c][b] = Deposit(@, e.msg)]
        /\ e.msg \in Messages /\ Len(e.msg) <= BufCells
    BY <1>11 DEF Adds, Arrives
  <2>2. rq[c] \in Seq(Bufs) /\ b \in Bufs
    BY <2>1, HeadTailProperties DEF LargeInv
  <2>3. mem \in [Conns -> [Bufs -> [1 .. BufCells -> Cells]]]
    BY DEF TypeOK, QpTypeOK
  <2>4. e \in IntactOnes'
    <3>1. mem'[c][b] = Deposit(mem[c][b], e.msg)
      BY <2>1, <2>2, <2>3
    <3>2. SubSeq(mem'[c][b], 1, Len(e.msg)) = e.msg
      BY <2>1, <2>2, <2>3, <3>1, DepositStarts
    <3>3. QED
      BY <2>1, <3>2 DEF IntactOnes
  \* The buffer was posted, so nothing that waits is about it.
  <2>5. \A i \in DOMAIN Waiting : Waiting[i] \notin HoldersOf(c, b)
    <3>1. Occurrences(rq[c], {b}) + Occurrences(Waiting, HoldersOf(c, b)) = 1
      BY <1>1, <2>1, <2>2 DEF BufferInv
    <3>2. Occurrences(rq[c], {b}) # 0
      <4>1. 1 \in DOMAIN rq[c] /\ rq[c][1] = b
        BY <2>1, <2>2, EmptySeq, LenProperties
      <4>2. QED
        BY <2>2, <4>1, OccurrencesPositive
    <3>3. Occurrences(rq[c], {b}) \in Nat /\ Occurrences(Waiting, HoldersOf(c, b)) \in Nat
      <4>1. Occurrences(rq[c], {b}) \in 0 .. Len(rq[c]) /\ Len(rq[c]) \in Nat
        BY <2>2, PlacesFinite, LenProperties
      <4>2. QED
        BY <4>1, WaitingCount
    <3>4. Occurrences(Waiting, HoldersOf(c, b)) = 0
      BY <3>1, <3>2, <3>3
    <3>5. QED
      BY <1>2, <3>4, OccurrencesPositive
  <2>6. ASSUME NEW i \in DOMAIN Waiting, NEW x \in GoodOnes, Waiting[i] = x,
               IsMessage(x, x.conn)
        PROVE  mem'[x.conn][x.buf] = mem[x.conn][x.buf]
    <3>1. x \in Completions /\ x.conn \in Conns /\ x.buf \in Bufs
      BY <2>6 DEF GoodOnes, GoodEntry, Completions
    <3>2. x.conn # c \/ x.buf # b
      BY <2>5, <2>6, <3>1 DEF HoldersOf, Holds, IsMessage
    <3>3. QED
      BY <2>1, <2>2, <2>3, <3>1, <3>2
  <2>7. Waiting \in Seq(IntactOnes')
    BY <1>5, <2>6
  <2>8. QED
    BY <2>1, <2>4, <2>7, AppendProperties
<1>12. QED
  BY <1>1, <1>7, <1>8, <1>9, <1>10, <1>11 DEF StepKinds

LEMMA LastStep ==
    ASSUME LifeInv, BufferInv', LastInv, [Next]_vars
    PROVE  LastInv'
<1> USE DEF LifeInv
<1> SUFFICES ASSUME faults' = 0, Inspecting', qp'[cur'.conn] = "rts",
                    NEW i \in DOMAIN rq'[cur'.conn], rq'[cur'.conn][i] = cur'.buf
             PROVE  i = Len(rq'[cur'.conn])
  BY DEF LastInv
<1>1. StepKinds /\ QpGrows /\ ~Dead' /\ faults = 0 /\ ~Dead
  BY EveryStep, QpStep, NoFaultNoDeath DEF Inspecting, Dead
<1>2. /\ rq \in [Conns -> Seq(Bufs \cup {LargeBuf})]
      /\ qp \in [Conns -> {"none", "rts", "err"}]
  BY DEF TypeOK, QpTypeOK
<1>3. ASSUME Inspecting, batch' = batch
      PROVE  /\ cur' = cur /\ cur \in Completions /\ cur.conn \in Conns
             /\ qp[cur.conn] = "rts"
             /\ \A j \in DOMAIN rq[cur.conn] :
                    rq[cur.conn][j] = cur.buf => j = Len(rq[cur.conn])
  <2>1. cur' = cur /\ cur \in Completions /\ cur.conn \in Conns /\ qp[cur.conn] # "none"
    BY <1>3, CurGood DEF cur, Inspecting, GoodEntry, Completions
  <2>2. qp[cur.conn] = "rts"
    BY <1>1, <1>2, <2>1 DEF QpGrows
  <2>3. QED
    BY <1>1, <1>3, <2>1, <2>2 DEF LastInv
<1>4. CASE Still \/ Inspects
  BY <1>3, <1>4 DEF Still, Inspects
<1>5. CASE Ends \/ Apart
  BY <1>5 DEF Ends, Dead, Apart, Inspecting
<1>6. ASSUME NEW c \in Conns, NEW e \in Completions, Adds(c, e),
             Arrives(c, e) \/ ReceiveFails(c, e) \/ IsSent(c, e)
      PROVE  i = Len(rq'[cur'.conn])
  <2>1. Inspecting /\ batch' = batch
    BY <1>6 DEF Adds, Inspecting
  <2>2. CASE rq'[cur.conn] = rq[cur.conn]
    BY <1>3, <2>1, <2>2
  <2>3. CASE rq[cur.conn] # <<>> /\ rq'[cur.conn] = Tail(rq[cur.conn])
    <3> DEFINE q == rq[cur.conn]
    <3>1. q \in Seq(Bufs \cup {LargeBuf}) /\ q # <<>>
      BY <1>2, <1>3, <2>1, <2>3
    <3>2. rq'[cur'.conn] = Tail(q) /\ cur' = cur
          /\ \A j \in DOMAIN q : q[j] = cur.buf => j = Len(q)
      BY <1>3, <2>1, <2>3
    <3> HIDE DEF q
    <3>3. /\ Tail(q) \in Seq(Bufs \cup {LargeBuf}) /\ Len(Tail(q)) = Len(q) - 1
          /\ \A j \in 1 .. Len(Tail(q)) : Tail(q)[j] = q[j + 1]
      BY <3>1, HeadTailProperties
    <3>4. DOMAIN q = 1 .. Len(q) /\ DOMAIN Tail(q) = 1 .. Len(Tail(q)) /\ Len(q) \in Nat
      BY <3>1, <3>3, LenProperties
    <3>5. i + 1 \in DOMAIN q /\ q[i + 1] = cur.buf
      BY <3>2, <3>3, <3>4
    <3>6. QED
      BY <3>2, <3>3, <3>4, <3>5
  <2>4. QED
    BY <1>2, <1>3, <1>6, <2>1, <2>2, <2>3 DEF Arrives, ReceiveFails, IsSent
<1>7. CASE Takes /\ (Skips \/ Counts)
  <2>1. cur \in Completions /\ GoodEntry(cur) /\ cur.conn \in Conns
    BY <1>7, CurGood DEF Takes, Completions
  <2>2. /\ batch' = batch /\ IsMessage(cur, cur.conn)
        /\ rq' = [rq EXCEPT ![cur.conn] = Append(@, cur.buf)]
    BY <1>7 DEF Skips, Counts
  <2>3. cur' = cur /\ cur.buf \in Bufs
    BY <2>1, <2>2 DEF cur, GoodEntry
  <2> DEFINE q == rq'[cur.conn]
             b == cur.buf
             H == HoldersOf(cur.conn, b)
  <2>4. q = Append(rq[cur.conn], b)
    BY <1>2, <2>1, <2>2
  <2>5. /\ q \in Seq(Bufs \cup {LargeBuf}) /\ Len(q) \in DOMAIN q /\ q[Len(q)] = b
    <3> DEFINE r == rq[cur.conn]
    <3>1. r \in Seq(Bufs \cup {LargeBuf}) /\ b \in Bufs \cup {LargeBuf}
      BY <1>2, <2>1, <2>3
    <3> HIDE DEF r, b
    <3>2. /\ Append(r, b) \in Seq(Bufs \cup {LargeBuf}) /\ Len(Append(r, b)) = Len(r) + 1
          /\ Append(r, b)[Len(r) + 1] = b /\ Len(r) \in Nat
      BY <3>1, AppendProperties, LenProperties
    <3>3. DOMAIN Append(r, b) = 1 .. Len(r) + 1
      BY <3>2, LenProperties
    <3>4. QED
      BY <2>4, <3>2, <3>3 DEF r, b
  <2>6. Occurrences(q, {b}) <= 1
    <3>1. Occurrences(q, {b}) + Occurrences(Waiting', H) = 1
      <4>1. \A c \in Conns : qp'[c] = "rts" => \A x \in Bufs :
                Occurrences(rq'[c], {x}) + Occurrences(Waiting', HoldersOf(c, x)) = 1
        BY <1>1 DEF BufferInv, HoldersOf, Holds
      <4>2. qp'[cur.conn] = "rts"
        BY <2>3
      <4>3. QED
        BY <2>1, <2>3, <4>1, <4>2
    <3>2. Occurrences(Waiting', H) \in Nat
      BY <1>7, WaitingCount
    <3>3. Occurrences(q, {b}) \in Nat
      BY <2>5, PlacesFinite, LenProperties
    <3>4. QED
      BY <3>1, <3>2, <3>3
  <2>7. i \in DOMAIN q /\ q[i] = b
    BY <2>3
  <2>8. QED
    <3> HIDE DEF q, b
    <3>1. i = Len(q)
      BY <2>5, <2>6, <2>7, OccurrencesOnce
    <3>2. QED
      BY <2>3, <3>1 DEF q
<1>8. QED
  BY <1>1, <1>4, <1>5, <1>6, <1>7 DEF StepKinds

\* If the adapter writes to the buffer that is looked at, it was the only one
\* posted, so a message waits in every buffer of the connection.
LEMMA FullRing ==
    ASSUME LifeInv, BufferInv, LastInv, faults = 0, Inspecting, NEW e \in Completions,
           Adds(cur.conn, e), Arrives(cur.conn, e), e.buf = cur.buf,
           LifeInv', CountedInv', BufferInv'
    PROVE  delivered'[cur.conn] - totalRecv'[cur.conn] >= NumBufs
<1> DEFINE c == cur.conn
           M == MessagesOf(c)
<1>1. cur \in Completions /\ c \in Conns /\ pc' = pc /\ faults' = 0 /\ ~Dead /\ ~Dead'
  BY CurGood DEF LifeInv, Inspecting, Completions, Adds, Dead
<1>2. /\ qp[c] = "rts" /\ qp'[c] = "rts"
      /\ rq[c] # <<>> /\ cur.buf = Head(rq[c]) /\ rq'[c] = Tail(rq[c])
      /\ rq[c] \in Seq(Bufs)
  BY <1>1 DEF Arrives, LifeInv, LargeInv, TypeOK, QpTypeOK
<1>3. rq'[c] = <<>>
  <2> DEFINE q == rq[c]
  <2>1. q \in Seq(Bufs) /\ q # <<>> /\ \A i \in DOMAIN q : q[i] = Head(q) => i = Len(q)
    BY <1>1, <1>2 DEF LastInv
  <2> HIDE DEF q
  <2>2. 1 \in DOMAIN q /\ q[1] = Head(q)
    BY <2>1, EmptySeq, LenProperties
  <2>3. Len(q) = 1
    BY <2>1, <2>2
  <2>4. Tail(q) \in Seq(Bufs) /\ Len(Tail(q)) = 0
    BY <2>1, <2>3, HeadTailProperties
  <2>5. Tail(q) = <<>>
    BY <2>4, EmptySeq
  <2>6. QED
    BY <1>2, <2>5 DEF q
<1>4. Waiting' \in Seq(Completions) /\ Waiting' \in Seq(GoodOnes')
  <2>1. Waiting \in Seq(Completions) /\ Waiting' = Append(Waiting, e)
    BY WaitingType DEF LifeInv, Adds
  <2>2. QED
    BY <2>1, AppendProperties DEF LifeInv, EntryInv
<1>5. ASSUME NEW b \in Bufs
      PROVE  \E i \in DOMAIN Waiting' : Waiting'[i] \in M /\ Waiting'[i].buf = b
  <2> DEFINE H == HoldersOf(c, b)
             w == Waiting'
  <2>1. Occurrences(rq'[c], {b}) + Occurrences(Waiting', H) = 1
    BY <1>1, <1>2 DEF BufferInv, HoldersOf, Holds
  <2>2. Occurrences(rq'[c], {b}) = 0
    BY <1>3, NoneInEmpty
  <2>3. w \in Seq(Completions) /\ w \in Seq(GoodOnes') /\ Occurrences(w, H) # 0
    BY <1>4, <2>1, <2>2
  <2> HIDE DEF w
  <2>4. PICK i \in DOMAIN w : w[i] \in H
    BY <2>3, OccurrencesPositive
  <2>5. w[i] \in GoodOnes'
    BY <2>3, <2>4, ElementOfSeq, LenProperties
  <2>6. \A x \in GoodOnes' : x \in H => x \in M /\ x.buf = b
    BY <1>2 DEF GoodOnes, GoodEntry, HoldersOf, Holds, MessagesOf, IsMessage
  <2>7. w[i] \in M /\ w[i].buf = b
    BY <2>4, <2>5, <2>6
  <2>8. QED
    BY <2>4, <2>7 DEF w
<1>6. NumBufs <= Occurrences(Waiting', M)
  <2> DEFINE f == [x \in Completions |-> IF x.buf \in Bufs THEN x.buf ELSE 1]
             w == Waiting'
  <2>1. f \in [Completions -> Bufs]
    BY ServerAssumption DEF Bufs
  <2>2. w \in Seq(Completions) /\ \A b \in Bufs : \E i \in DOMAIN w : w[i] \in M /\ w[i].buf = b
    BY <1>4, <1>5
  <2> HIDE DEF w
  <2>3. \A x \in Completions : x.buf \in Bufs => f[x] = x.buf
    OBVIOUS
  <2>4. \A i \in DOMAIN w : w[i] \in Completions
    BY <2>2, ElementOfSeq, LenProperties
  <2>5. \A b \in Bufs : \E i \in DOMAIN w : w[i] \in M /\ f[w[i]] = b
    BY <2>2, <2>3, <2>4
  <2> HIDE DEF f
  <2>6. Cardinality(Bufs) <= Occurrences(w, M)
    BY <2>1, <2>2, <2>5, OccurrencesCover
  <2>7. Cardinality(Bufs) = NumBufs
    BY FS_Interval, ServerAssumption DEF Bufs
  <2>8. QED
    BY <2>6, <2>7 DEF w
<1>7. /\ delivered'[c] = totalRecv'[c] + Occurrences(Waiting', M)
      /\ delivered'[c] \in Nat /\ totalRecv'[c] \in Nat
  BY <1>1 DEF CountedInv, MessagesOf, IsMessage, LifeInv, TypeOK, PeerTypeOK, ConnTypeOK
<1>8. Occurrences(Waiting', M) \in Nat
  BY <1>4, PlacesFinite, LenProperties
<1>9. QED
  BY <1>6, <1>7, <1>8, ServerAssumption

\* What the overwrite argument needs at once.
RingInv ==
    /\ LifeInv /\ CountedInv /\ BufferInv /\ IntactInv /\ LastInv
    /\ OverwriteOnlyWhenRingExhausted

LEMMA OverwriteStep ==
    ASSUME RingInv, LifeInv', CountedInv', BufferInv', [Next]_vars
    PROVE  OverwriteOnlyWhenRingExhausted'
<1> USE DEF RingInv, LifeInv
<1> SUFFICES ASSUME faults' = 0, Inspecting', conn'[cur'.conn] # "released", ~Intact'
             PROVE  delivered'[cur'.conn] - totalRecv'[cur'.conn] >= NumBufs
  BY DEF OverwriteOnlyWhenRingExhausted
<1>1. StepKinds /\ ~Dead' /\ faults = 0 /\ ~Dead
  BY EveryStep, NoFaultNoDeath DEF Inspecting, Dead
<1>2. /\ delivered \in [Conns -> Nat] /\ totalRecv \in [Conns -> Nat] /\ NumBufs \in Nat
      /\ mem \in [Conns -> [Bufs -> [1 .. BufCells -> Cells]]]
  BY ServerAssumption DEF TypeOK, PeerTypeOK, ConnTypeOK, QpTypeOK
<1>3. ASSUME Inspecting, batch' = batch, mem'[cur.conn][cur.buf] = mem[cur.conn][cur.buf]
      PROVE  cur' = cur /\ cur.conn \in Conns
             /\ delivered[cur.conn] - totalRecv[cur.conn] >= NumBufs
  <2>1. cur' = cur /\ cur \in Completions /\ cur.conn \in Conns /\ qp[cur.conn] # "none"
    BY <1>3, CurGood DEF cur, Inspecting, GoodEntry, Completions
  <2>2. conn[cur.conn] # "released"
    BY <2>1, ReleasedStays
  <2>3. ~Intact
    BY <1>3, <2>1 DEF Intact, Content
  <2>4. QED
    BY <1>1, <1>3, <2>1, <2>2, <2>3 DEF OverwriteOnlyWhenRingExhausted
<1>4. CASE Still \/ Inspects
  BY <1>3, <1>4 DEF Still, Inspects
<1>5. CASE Ends \/ Apart
  BY <1>5 DEF Ends, Dead, Apart, Inspecting
<1>6. ASSUME NEW c \in Conns, NEW e \in Completions, Adds(c, e),
             ReceiveFails(c, e) \/ IsSent(c, e)
      PROVE  delivered'[cur'.conn] - totalRecv'[cur'.conn] >= NumBufs
  BY <1>3, <1>6 DEF Adds, ReceiveFails, IsSent, Inspecting
<1>7. ASSUME NEW c \in Conns, NEW e \in Completions, Adds(c, e), Arrives(c, e)
      PROVE  delivered'[cur'.conn] - totalRecv'[cur'.conn] >= NumBufs
  <2>1. /\ Inspecting /\ batch' = batch /\ totalRecv' = totalRecv
        /\ delivered' = [delivered EXCEPT ![c] = @ + 1]
        /\ mem' = [mem EXCEPT ![c][e.buf] = Deposit(@, e.msg)]
    BY <1>7 DEF Adds, Arrives, Inspecting
  <2>2. cur' = cur /\ cur \in Completions /\ cur.conn \in Conns /\ cur.buf \in Bufs
    BY <2>1, CurGood DEF cur, Inspecting, GoodEntry, Completions, CurInv
  <2>3. CASE c = cur.conn /\ e.buf = cur.buf
    BY <1>1, <1>7, <2>1, <2>2, <2>3, FullRing
  <2>4. CASE ~(c = cur.conn /\ e.buf = cur.buf)
    <3>1. mem'[cur.conn][cur.buf] = mem[cur.conn][cur.buf]
      BY <1>2, <2>1, <2>2, <2>4
    <3>2. delivered[cur.conn] - totalRecv[cur.conn] >= NumBufs
      BY <1>3, <2>1, <3>1
    <3>3. CASE c = cur.conn
      BY <1>2, <2>1, <2>2, <3>2, <3>3
    <3>4. CASE c # cur.conn
      BY <1>2, <2>1, <2>2, <3>2, <3>4
    <3>5. QED
      BY <3>3, <3>4
  <2>5. QED
    BY <2>3, <2>4
<1>8. CASE Takes /\ (Skips \/ Counts)
  <2>1. /\ batch' = batch /\ mem' = mem /\ conn' = conn /\ IsMessage(cur, cur.conn)
        /\ Waiting # <<>> /\ Head(Waiting) = cur
    BY <1>8 DEF Takes, Skips, Counts
  <2>2. cur' = cur
    BY <2>1 DEF cur
  <2>3. cur \in IntactOnes
    BY <1>1, <2>1, HeadTailProperties DEF IntactInv
  <2>4. Intact'
    BY <2>1, <2>2, <2>3 DEF IntactOnes, Intact, Content
  <2>5. QED
    BY <2>4
<1>9. QED
  BY <1>1, <1>4, <1>5, <1>6, <1>7, <1>8 DEF StepKinds

\* handle_work_complete looks at a buffer it has given back and still finds its own
\* message there, unless the adapter has filled the whole ring behind it: for any
\* number of buffers, connections and messages, while no call fails.
THEOREM OverwrittenByFullRingOnly == SafeSpec => []OverwriteOnlyWhenRingExhausted
<1>1. Init => RingInv
  <2> SUFFICES ASSUME Init PROVE RingInv
    OBVIOUS
  <2>1. LifeInv /\ CountedInv /\ BufferInv /\ Waiting = <<>> /\ ~Inspecting
    BY LifeInit, CountedInit, BufferInit, NothingWaitsInit
  <2>2. IntactInv
    BY <2>1, EmptySeq DEF IntactInv
  <2>3. QED
    BY <2>1, <2>2 DEF RingInv, LastInv, OverwriteOnlyWhenRingExhausted
<1>2. ASSUME LifeInv, LifeInv', RingInv, [Next]_vars
      PROVE  RingInv'
  <2>1. CountedInv' /\ BufferInv'
    BY <1>2, CountedStep, BufferStep DEF RingInv
  <2>2. IntactInv' /\ LastInv'
    BY <1>2, <2>1, IntactStep, LastStep DEF RingInv
  <2>3. OverwriteOnlyWhenRingExhausted'
    BY <1>2, <2>1, OverwriteStep
  <2>4. QED
    BY <1>2, <2>1, <2>2, <2>3 DEF RingInv
<1>3. RingInv => OverwriteOnlyWhenRingExhausted
  BY DEF RingInv
<1>4. QED
  BY <1>1, <1>2, <1>3, LifeInvariant, PTL DEF SafeSpec

------------------------------------------------------------------------------
(***************************************************************************)
(* The reply a message asks for.                                           *)
(***************************************************************************)
LEMMA MessageInBuffer ==
    ASSUME NEW s \in [1 .. BufCells -> Cells], NEW m \in Messages, Len(m) <= BufCells,
           SubSeq(s, 1, Len(m)) = m
    PROVE  /\ DOMAIN m = 1 .. Len(m)
           /\ \A i \in 1 .. Len(m) : i \in 1 .. BufCells /\ s[i] = m[i] /\ m[i] \in WireCells
<1>1. m \in Seq(WireCells) /\ Len(m) \in Nat /\ DOMAIN m = 1 .. Len(m) /\ BufCells \in Nat
  BY ServerAssumption, LenProperties
<1>2. s \in Seq(Cells) /\ Len(s) = BufCells
  BY <1>1, SeqDef, LenProperties
<1>3. \A i \in 1 .. Len(m) : i \in 1 .. BufCells /\ s[i] \in Cells
  BY <1>1
<1>4. \A i \in 1 .. Len(m) : SubSeq(s, 1, Len(m))[i] = s[i]
  BY <1>1, <1>2, <1>3, SubSeqProperties
<1>5. QED
  BY <1>1, <1>3, <1>4, ElementOfSeq

\* In a buffer that starts with a message that has a NUL or a "noreply", strstr meets
\* that before anything else.
LEMMA StrstrReadsMessage ==
    ASSUME NEW s \in [1 .. BufCells -> Cells], NEW m \in Messages, Len(m) <= BufCells,
           SubSeq(s, 1, Len(m)) = m
    PROVE  /\ Wanted(m) => StrstrNoreply(s) = {FALSE}
           /\ Declined(m) => StrstrNoreply(s) = {TRUE}
<1> SUFFICES ASSUME Wanted(m) \/ Declined(m)
             PROVE  StrstrNoreply(s) = IF Wanted(m) THEN {FALSE} ELSE {TRUE}
  <2>1. Wanted(m) \/ Declined(m)
          => StrstrNoreply(s) = IF Wanted(m) THEN {FALSE} ELSE {TRUE}
    OBVIOUS
  <2>2. ~(Wanted(m) /\ Declined(m))
    <3> SUFFICES ASSUME NEW i \in DOMAIN m, m[i] = "nul", \A k \in 1 .. i : m[k] # "noreply",
                        NEW j \in DOMAIN m, m[j] = "noreply", \A k \in 1 .. j : m[k] # "nul"
                 PROVE  FALSE
      BY DEF Wanted, Declined
    <3>1. i \in Nat \ {0} /\ j \in Nat \ {0}
      BY ServerAssumption, LenProperties
    <3>2. i \in 1 .. j \/ j \in 1 .. i
      BY <3>1
    <3>3. QED
      BY <3>2
  <2>3. QED
    BY <2>1, <2>2
<1>1. m \in Seq(WireCells) /\ Len(m) \in Nat /\ DOMAIN m = 1 .. Len(m) /\ BufCells \in Nat
  BY ServerAssumption, LenProperties
<1>2. \A i \in 1 .. Len(m) : s[i] = m[i] /\ m[i] \in WireCells
  BY MessageInBuffer
<1> DEFINE first == CHOOSE i \in Stops(s) : \A j \in Stops(s) : i <= j
<1>3. PICK n \in DOMAIN m : m[n] \in {"nul", "noreply"}
  BY DEF Wanted, Declined
<1>4. n \in Stops(s) /\ Stops(s) \in SUBSET Nat
  BY <1>1, <1>2, <1>3 DEF Stops
<1>5. \E i \in Stops(s) : \A j \in Stops(s) : i <= j
  BY <1>4, LeastNat
<1>6. first \in Stops(s) /\ \A j \in Stops(s) : first <= j
  BY <1>5
<1>7. StrstrNoreply(s) = CASE s[first] = "noreply" -> {TRUE}
                           [] s[first] = "nul" -> {FALSE}
                           [] OTHER -> BOOLEAN
  BY <1>4 DEF StrstrNoreply
<1> HIDE DEF first
<1>8. first \in 1 .. Len(m) /\ s[first] = m[first] /\ m[first] \in {"noreply", "nul"}
  <2>1. first <= n /\ first \in Nat /\ first \in 1 .. BufCells
    BY <1>4, <1>6 DEF Stops
  <2>2. first \in 1 .. Len(m)
    BY <1>1, <1>3, <2>1
  <2>3. s[first] \in {"noreply", "nul", "any"}
    BY <1>6 DEF Stops
  <2>4. QED
    BY <1>2, <2>2, <2>3 DEF WireCells
<1>9. \A j \in 1 .. Len(m) : m[j] = "noreply" => first <= j
  BY <1>1, <1>2, <1>6 DEF Stops
<1>10. \A j \in 1 .. Len(m) : m[j] = "nul" => first <= j
  BY <1>1, <1>2, <1>6 DEF Stops
<1>11. Wanted(m) <=> m[first] = "nul"
  <2>1. CASE m[first] = "nul"
    <3>1. \A j \in 1 .. first : m[j] # "noreply"
      BY <1>1, <1>8, <1>9, <2>1
    <3>2. QED
      BY <1>1, <1>8, <2>1, <3>1 DEF Wanted
  <2>2. CASE m[first] = "noreply"
    <3>1. \A i \in DOMAIN m : m[i] = "nul" => first \in 1 .. i
      BY <1>1, <1>8, <1>10
    <3>2. QED
      BY <2>2, <3>1 DEF Wanted
  <2>3. QED
    BY <1>8, <2>1, <2>2
<1>12. QED
  BY <1>7, <1>8, <1>11

\* As long as a buffer starts with it, a message that ends its text before any
\* "noreply" gets its reply and one that says "noreply" first gets none, whatever an
\* earlier message left behind it: for any messages and buffer size.
THEOREM RepliesMatchRequests == SafeSpec => ReplyMatchesRequest
<1> DEFINE c == cur.conn
           Sent == \/ sq' = [sq EXCEPT ![c] = Append(@, "send")]
                   \/ SlotsUsed(c) >= MaxSendWr \/ faults' > faults
                   \/ pc' = "reply"
           NotSent == Len(sq'[c]) <= Len(sq[c])
           Matches ==
             pc = "reply" /\ conn[c] # "released" /\ Intact =>
                (Wanted(cur.msg) => Sent) /\ (Declined(cur.msg) => NotSent)
<1>1. ASSUME LifeInv, [Next]_vars PROVE [Matches]_vars
  <2> SUFFICES ASSUME Next, pc = "reply", Intact
               PROVE  (Wanted(cur.msg) => Sent) /\ (Declined(cur.msg) => NotSent)
    BY <1>1
  <2> DEFINE Goal == (Wanted(cur.msg) => Sent) /\ (Declined(cur.msg) => NotSent)
  <2>1. /\ cur \in Completions /\ c \in Conns /\ cur.buf \in Bufs
        /\ cur.msg \in Messages /\ Len(cur.msg) <= BufCells
    BY <1>1, CurGood DEF LifeInv, CurInv, Inspecting, GoodEntry, Completions
  <2>2. /\ sq \in [Conns -> Seq({"send", "read"})] /\ Len(sq[c]) \in Nat
        /\ mem \in [Conns -> [Bufs -> [1 .. BufCells -> Cells]]] /\ faults \in Nat
    BY <1>1, <2>1, LenProperties, ServerAssumption DEF LifeInv, TypeOK, QpTypeOK, LoopTypeOK
  <2>3. ASSUME pc' = "reply", sq' = sq \/ \E d \in Conns : sq[d] # <<>>
                                            /\ sq' = [sq EXCEPT ![d] = Tail(@)]
        PROVE  Goal
    <3>1. Len(sq'[c]) <= Len(sq[c])
      <4>1. CASE sq' = sq
        BY <2>2, <4>1
      <4>2. ASSUME NEW d \in Conns, sq[d] # <<>>, sq' = [sq EXCEPT ![d] = Tail(@)]
            PROVE  Len(sq'[c]) <= Len(sq[c])
        <5>1. CASE d = c
          <6>1. sq'[c] = Tail(sq[c]) /\ sq[c] # <<>> /\ sq[c] \in Seq({"send", "read"})
            BY <2>1, <2>2, <4>2, <5>1
          <6>2. Len(Tail(sq[c])) = Len(sq[c]) - 1
            BY <6>1, HeadTailProperties
          <6>3. QED
            BY <2>2, <6>1, <6>2
        <5>2. CASE d # c
          BY <2>1, <2>2, <4>2, <5>2
        <5>3. QED
          BY <5>1, <5>2
      <4>3. QED
        BY <2>3, <4>1, <4>2
    <3>2. QED
      BY <2>3, <3>1
  <2>4. ASSUME NEW d \in Conns, HcaNext(d)
        PROVE  Goal
    <3>1. pc' = "reply"
      BY <2>4, HcaCompletes
    <3>2. sq' = sq \/ (sq[d] # <<>> /\ sq' = [sq EXCEPT ![d] = Tail(@)])
      BY <2>4 DEF HcaNext, HcaReceive, HcaReceiveTooLong, HcaSend, HcaSendFails, HcaFlush
    <3>3. QED
      BY <2>3, <3>1, <3>2
  <2>5. ASSUME NEW d \in Conns, PeerNext(d)
        PROVE  Goal
    BY <2>3, <2>5 DEF PeerNext, PeerConnect, PeerEstablished, PeerLeave
  <2>6. CASE Reply
    <3>1. /\ Wanted(cur.msg) => StrstrNoreply(Content) = {FALSE}
          /\ Declined(cur.msg) => StrstrNoreply(Content) = {TRUE}
      <4>1. Content \in [1 .. BufCells -> Cells]
        BY <2>1, <2>2 DEF Content
      <4>2. QED
        BY <2>1, <4>1, StrstrReadsMessage DEF Intact
    <3>2. ASSUME Wanted(cur.msg) PROVE Sent
      <4>1. PostSend(c, "send")
        BY <2>6, <3>1, <3>2 DEF Reply
      <4>2. Fault => faults' > faults
        BY <2>2 DEF Fault
      <4>3. QED
        BY <4>1, <4>2 DEF PostSend
    <3>3. ASSUME Declined(cur.msg) PROVE NotSent
      <4>1. sq' = sq
        BY <2>6, <3>1, <3>3 DEF Reply
      <4>2. QED
        BY <2>2, <4>1
    <3>4. QED
      BY <3>2, <3>3
  <2>7. ASSUME ServerNext
        PROVE  Reply \/ ReadPastBuffer
    BY <2>7 DEF ServerNext, CmNext, Accept, RefuseConnect, AcceptPartly, AcceptCrash,
       CmIgnore, Release, CmHandler, Start, StartFails, StartWithoutChannel, Dispatch,
       RunPollEvent, DisconnectFailed, CrashOnFreed, PollNext, GetCqEvent, ReqNotify,
       PollCq, PollEventFails, WorkNext, HandleBadCompletion, HandleRecv,
       HandleRecvFails, HandleSent, HandleReadDone, LookForHead, RegisterCrash
  <2>8. CASE ReadPastBuffer
    <3>1. sq' = sq
      BY <2>8 DEF ReadPastBuffer
    <3>2. ~Wanted(cur.msg)
      <4>1. RunsOn({"noreply", "nul"})
        BY <1>1, <2>8 DEF ReadPastBuffer
      <4>2. Content \in [1 .. BufCells -> Cells]
        BY <2>1, <2>2 DEF Content
      <4>3. \A i \in DOMAIN cur.msg : i \in 1 .. BufCells /\ Content[i] = cur.msg[i]
        BY <2>1, <4>2, MessageInBuffer DEF Intact
      <4>4. QED
        BY <4>1, <4>3 DEF RunsOn, Wanted
    <3>3. QED
      BY <2>2, <3>1, <3>2
  <2>9. QED
    BY <2>4, <2>5, <2>6, <2>7, <2>8 DEF Next
<1>2. QED
  BY <1>1, LifeInvariant, PTL DEF SafeSpec, ReplyMatchesRequest

------------------------------------------------------------------------------
(***************************************************************************)
(* What the server survives.                                               *)
(***************************************************************************)
\* A buffer nobody runs off the end of, and not a request that cannot be served.
Sound(s) == (\E i \in 1 .. BufCells : s[i] = "nul") /\ s[1] \notin {"huge", "any"}

\* What a careful peer sent lies in a sound buffer, whether it waits or is handled.
SoundOnes ==
    {e \in Completions :
        IsMessage(e, e.conn) /\ conn[e.conn] # "released" /\ e.conn \notin careless
            => Sound(mem[e.conn][e.buf])}

SoundInv == Waiting \in Seq(SoundOnes) /\ (Inspecting => cur \in SoundOnes)

LEMMA CarefulIsSound ==
    ASSUME NEW old \in [1 .. BufCells -> Cells], NEW m \in Messages, Len(m) <= BufCells,
           Careful(m)
    PROVE  Sound(Deposit(old, m))
<1> DEFINE s == Deposit(old, m)
<1>1. /\ m \in Seq(WireCells) /\ m # <<>> /\ Len(m) \in Nat
      /\ DOMAIN m = 1 .. Len(m) /\ BufCells \in Nat
  BY ServerAssumption, LenProperties
<1>2. \A i \in 1 .. Len(m) : i \in 1 .. BufCells /\ s[i] = m[i] /\ m[i] \in WireCells
  BY <1>1, ElementOfSeq DEF Deposit
<1> HIDE DEF s
<1>3. 1 \in 1 .. Len(m)
  BY <1>1, EmptySeq
<1>4. s[1] = m[1] /\ m[1] \in WireCells /\ m[1] # "huge"
  BY <1>2, <1>3 DEF Careful
<1>5. \E i \in 1 .. BufCells : s[i] = "nul"
  BY <1>1, <1>2 DEF Careful, Terminated
<1>6. QED
  BY <1>4, <1>5 DEF Sound, WireCells, s

LEMMA CarelessGrows ==
    ASSUME [Next]_vars
    PROVE  careless \subseteq careless'
<1>1. ASSUME NEW c \in Conns, PeerNext(c) \/ HcaNext(c)
      PROVE  careless \subseteq careless'
  BY <1>1 DEF PeerNext, PeerConnect, PeerEstablished, PeerLeave, HcaNext, HcaReceive,
     HcaReceiveTooLong, HcaSend, HcaSendFails, HcaFlush
<1>2. ASSUME ServerNext
      PROVE  careless' = careless
  BY <1>2 DEF ServerNext, CmNext, Accept, RefuseConnect, AcceptPartly, AcceptCrash,
     CmIgnore, Release, CmHandler, Start, StartFails, StartWithoutChannel, Dispatch,
     RunPollEvent, DisconnectFailed, CrashOnFreed, PollNext, GetCqEvent, ReqNotify,
     PollCq, PollEventFails, WorkNext, HandleBadCompletion, HandleRecv,
     HandleRecvFails, HandleSent, HandleReadDone, LookForHead, RegisterCrash,
     ReadPastBuffer, Reply
<1>3. CASE UNCHANGED vars
  BY <1>3 DEF vars
<1>4. QED
  BY <1>1, <1>2, <1>3 DEF Next

\* A buffer stays sound until it is freed, or until a careless message arrives.
LEMMA SoundStays ==
    ASSUME LifeInv, [Next]_vars, ~Dead', NEW x \in GoodOnes, x \in SoundOnes
    PROVE  x \in SoundOnes'
<1> USE DEF LifeInv
<1>1. x \in Completions /\ x.conn \in Conns /\ qp[x.conn] # "none"
  BY DEF GoodOnes, GoodEntry, Completions
<1> SUFFICES ASSUME IsMessage(x, x.conn), conn'[x.conn] # "released",
                    x.conn \notin careless'
             PROVE  Sound(mem'[x.conn][x.buf])
  BY <1>1 DEF SoundOnes, IsMessage
<1>2. x.buf \in Bufs
  BY DEF GoodOnes, GoodEntry
<1>3. Sound(mem[x.conn][x.buf])
  BY <1>1, ReleasedStays, CarelessGrows DEF SoundOnes
<1>4. StepKinds
  BY EveryStep
<1>5. mem'[x.conn] = mem[x.conn] => Sound(mem'[x.conn][x.buf])
  BY <1>3
<1>6. CASE Still \/ Inspects \/ Takes
  BY <1>5, <1>6 DEF Still, Inspects, Takes
<1>7. CASE Ends
  BY <1>7 DEF Ends
<1>8. ASSUME NEW c \in Conns, Connects(c) \/ TakesDown(c) \/ Frees(c)
      PROVE  Sound(mem'[x.conn][x.buf])
  <2>1. CASE Frees(c)
    BY <1>1, <1>5, <2>1 DEF Frees, TypeOK, ConnTypeOK
  <2>2. QED
    BY <1>5, <1>8, <2>1 DEF Connects, TakesDown
<1>9. ASSUME NEW c \in Conns, NEW e \in Completions, Adds(c, e),
             ReceiveFails(c, e) \/ IsSent(c, e)
      PROVE  Sound(mem'[x.conn][x.buf])
  BY <1>5, <1>9 DEF ReceiveFails, IsSent
<1>10. ASSUME NEW c \in Conns, NEW e \in Completions, Adds(c, e), Arrives(c, e)
       PROVE  Sound(mem'[x.conn][x.buf])
  <2>1. mem \in [Conns -> [Bufs -> [1 .. BufCells -> Cells]]]
    BY DEF TypeOK, QpTypeOK
  <2>2. mem' = [mem EXCEPT ![c][e.buf] = Deposit(@, e.msg)]
    BY <1>10 DEF Arrives
  <2>3. CASE c = x.conn /\ e.buf = x.buf
    <3>1. Careful(e.msg)
      BY <1>10, <2>3 DEF Arrives
    <3>2. mem'[x.conn][x.buf] = Deposit(mem[x.conn][x.buf], e.msg)
      BY <1>1, <1>2, <2>1, <2>2, <2>3
    <3>3. /\ mem[x.conn][x.buf] \in [1 .. BufCells -> Cells]
          /\ e.msg \in Messages /\ Len(e.msg) <= BufCells
      BY <1>1, <1>2, <1>10, <2>1 DEF Arrives
    <3>4. QED
      BY <3>1, <3>2, <3>3, CarefulIsSound
  <2>4. CASE c # x.conn \/ e.buf # x.buf
    <3>1. mem'[x.conn][x.buf] = mem[x.conn][x.buf]
      BY <1>1, <1>2, <2>1, <2>2, <2>4
    <3>2. QED
      BY <1>3, <3>1
  <2>5. QED
    BY <2>3, <2>4
<1>11. QED
  BY <1>4, <1>6, <1>7, <1>8, <1>9, <1>10 DEF StepKinds

LEMMA SoundStep ==
    ASSUME LifeInv, ~Dead => SoundInv, [Next]_vars, ~Dead'
    PROVE  SoundInv'
<1> USE DEF LifeInv
<1>1. StepKinds
  BY EveryStep
<1>2. ~Dead
  BY DeadStays DEF vars, Dead
<1>3. Waiting \in Seq(SoundOnes) /\ Waiting \in Seq(GoodOnes)
  BY <1>2 DEF SoundInv, EntryInv
<1>4. Waiting \in Seq(SoundOnes')
  <2>1. \A i \in 1 .. Len(Waiting) : Waiting[i] \in SoundOnes'
    BY <1>3, ElementOfSeq, SoundStays
  <2>2. Waiting = [i \in 1 .. Len(Waiting) |-> Waiting[i]] /\ Len(Waiting) \in Nat
    BY <1>3, LenProperties
  <2>3. QED
    BY <2>1, <2>2, SeqDef
<1>5. ASSUME Inspecting, batch' = batch
      PROVE  cur' \in SoundOnes'
  <2>1. cur \in GoodOnes /\ cur \in SoundOnes
    BY <1>2, <1>5 DEF CurInv, SoundInv
  <2>2. cur \in SoundOnes'
    BY <2>1, SoundStays
  <2>3. QED
    BY <1>5, <2>2 DEF cur
<1>6. CASE Still \/ Inspects
  BY <1>4, <1>5, <1>6 DEF Still, Inspects, SoundInv
<1>7. CASE Takes /\ (Skips \/ Counts)
  <2>1. Waiting # <<>> /\ Head(Waiting) = cur /\ Waiting' = Tail(Waiting)
    BY <1>7 DEF Takes
  <2>2. Head(Waiting) \in SoundOnes' /\ Tail(Waiting) \in Seq(SoundOnes')
    BY <1>4, <2>1, HeadTailProperties
  <2>3. Inspecting' => batch' = batch
    BY <1>7 DEF Skips, Counts
  <2>4. QED
    BY <2>1, <2>2, <2>3 DEF SoundInv, cur
<1>8. CASE Ends
  BY <1>8 DEF Ends
<1>9. CASE Apart
  BY <1>4, <1>9 DEF Apart, SoundInv, Inspecting
<1>10. ASSUME NEW c \in Conns, NEW e \in Completions, Adds(c, e),
              Arrives(c, e) \/ ReceiveFails(c, e) \/ IsSent(c, e)
       PROVE  SoundInv'
  <2>1. e.conn = c /\ Waiting' = Append(Waiting, e) /\ UNCHANGED <<batch, pc>>
    BY <1>10 DEF Adds
  <2>2. e \in SoundOnes'
    <3>1. CASE ReceiveFails(c, e) \/ IsSent(c, e)
      BY <3>1 DEF SoundOnes, IsMessage, ReceiveFails, IsSent
    <3>2. CASE Arrives(c, e)
      <4>1. rq[c] \in Seq(Bufs) /\ e.buf \in Bufs
        BY <3>2, HeadTailProperties DEF Arrives, LargeInv
      <4>2. mem \in [Conns -> [Bufs -> [1 .. BufCells -> Cells]]]
        BY DEF TypeOK, QpTypeOK
      <4>3. mem'[c][e.buf] = Deposit(mem[c][e.buf], e.msg)
        BY <3>2, <4>1, <4>2 DEF Arrives
      <4>4. c \notin careless' => Careful(e.msg)
        BY <3>2 DEF Arrives
      <4>5. c \notin careless' => Sound(mem'[c][e.buf])
        BY <3>2, <4>1, <4>2, <4>3, <4>4, CarefulIsSound DEF Arrives
      <4>6. QED
        BY <2>1, <4>5 DEF SoundOnes
    <3>3. QED
      BY <1>10, <3>1, <3>2
  <2>3. Append(Waiting, e) \in Seq(SoundOnes')
    BY <1>4, <2>2, AppendProperties
  <2>4. QED
    BY <1>5, <2>1, <2>3 DEF SoundInv, Inspecting
<1>11. QED
  BY <1>1, <1>6, <1>7, <1>8, <1>9, <1>10 DEF StepKinds

\* The handlers of a message that lies in a sound buffer end.
LEMMA SurvivesStep ==
    ASSUME LifeInv, ~Dead => SoundInv, SurvivesCarefulPeers, [Next]_vars
    PROVE  SurvivesCarefulPeers'
<1> USE DEF LifeInv
<1> SUFFICES ASSUME Dead', careless' = {}, Freed' = {}, ~(faults' > 0)
             PROVE  FALSE
  BY DEF SurvivesCarefulPeers
<1>1. faults \in Nat /\ ~Fault
  BY ServerAssumption DEF TypeOK, LoopTypeOK, Fault
<1>2. ~Dead
  <2> SUFFICES ASSUME Dead PROVE FALSE
    OBVIOUS
  <2>1. UNCHANGED vars
    BY DeadStays
  <2>2. Freed' = Freed /\ faults' = faults /\ careless' = careless
    BY <2>1 DEF vars, Freed
  <2>3. QED
    BY <1>1, <2>2 DEF SurvivesCarefulPeers
<1>3. ~(\E c \in Conns : Release(c))
  BY DEF Release, Freed, TypeOK, ConnTypeOK
<1>4. ASSUME conn' = conn, careless' = careless, pc \in {"work", "head", "reply"},
             IsMessage(cur, cur.conn)
      PROVE  Sound(Content)
  <2>1. cur \in Completions
    BY <1>4, CurGood
  <2>2. cur \in SoundOnes
    <3>1. CASE Inspecting
      BY <1>2, <3>1 DEF SoundInv
    <3>2. CASE pc = "work"
      <4>1. batch # <<>> /\ Waiting = batch \o cq
        BY <3>2, WaitingType DEF Waiting, Unhandled
      <4>2. Waiting # <<>> /\ Head(Waiting) = cur
        BY <4>1, TailOfConcat, WaitingType DEF cur
      <4>3. QED
        BY <1>2, <4>2, HeadTailProperties DEF SoundInv
    <3>3. QED
      BY <1>4, <3>1, <3>2 DEF Inspecting
  <2>3. cur.conn \in Conns /\ conn[cur.conn] # "released"
    BY <1>4, <2>1 DEF Completions, Freed
  <2>4. QED
    BY <1>4, <2>2, <2>3 DEF SoundOnes, Content
<1>5. ~ReadPastBuffer
  <2> SUFFICES ASSUME ReadPastBuffer PROVE FALSE
    OBVIOUS
  <2>1. IsMessage(cur, cur.conn)
    BY DEF ReadPastBuffer, CurInv, Inspecting, IsMessage
  <2>2. Sound(Content)
    BY <1>4, <2>1 DEF ReadPastBuffer
  <2>3. QED
    BY <2>2 DEF Sound, ReadPastBuffer, RunsOn
<1>6. ~RegisterCrash
  <2> SUFFICES ASSUME RegisterCrash PROVE FALSE
    OBVIOUS
  <2>1. pc = "head" /\ Content[1] \in {"huge", "any"}
    BY <1>1 DEF RegisterCrash
  <2>2. Sound(Content)
    BY <1>4, <2>1 DEF RegisterCrash, CurInv, Inspecting
  <2>3. QED
    BY <2>1, <2>2 DEF Sound
<1>7. ~CrashOnFreed
  BY DEF CrashOnFreed, Freed
<1>8. ~NextCompletion
  BY DEF NextCompletion, Dead
<1>9. CASE \E c \in Conns : PeerNext(c) \/ HcaNext(c)
  BY <1>2, <1>9 DEF PeerNext, PeerConnect, PeerEstablished, PeerLeave, HcaNext,
     HcaReceive, HcaReceiveTooLong, HcaSend, HcaSendFails, HcaFlush, Dead
<1>10. CASE ServerNext
  BY <1>1, <1>2, <1>3, <1>5, <1>6, <1>7, <1>8, <1>10 DEF ServerNext, CmNext, Accept,
     RefuseConnect, AcceptPartly, AcceptCrash, CmIgnore, CmHandler, Start, StartFails,
     StartWithoutChannel, Dispatch, RunPollEvent, DisconnectFailed, PollNext,
     GetCqEvent, ReqNotify, PollCq, PollEventFails, WorkNext, HandleBadCompletion,
     HandleRecv, HandleRecvFails, HandleSent, HandleReadDone, LookForHead, Reply, Dead
<1>11. CASE UNCHANGED vars
  BY <1>2, <1>11 DEF vars, Dead
<1>12. QED
  BY <1>9, <1>10, <1>11 DEF Next

\* Peers that stay connected, terminate their messages and ask for nothing that
\* cannot be registered do not bring the server down, however many they are, however
\* their messages follow each other into the buffers and whatever their length.
THEOREM CarefulPeersSurvived == SafeSpec => []SurvivesCarefulPeers
<1> DEFINE Inv == (~Dead => SoundInv) /\ SurvivesCarefulPeers
<1>1. Init => Inv
  <2> SUFFICES ASSUME Init PROVE SoundInv /\ SurvivesCarefulPeers
    OBVIOUS
  <2>1. Waiting = <<>> /\ ~Inspecting
    BY NothingWaitsInit
  <2>2. SurvivesCarefulPeers
    BY DEF Init, SurvivesCarefulPeers, Dead
  <2>3. QED
    BY <2>1, <2>2 DEF SoundInv
<1>2. LifeInv /\ Inv /\ [Next]_vars => Inv'
  <2> SUFFICES ASSUME LifeInv, ~Dead => SoundInv, SurvivesCarefulPeers, [Next]_vars
               PROVE  (~Dead' => SoundInv') /\ SurvivesCarefulPeers'
    OBVIOUS
  <2>1. ~Dead' => SoundInv'
    BY SoundStep
  <2>2. SurvivesCarefulPeers'
    BY SurvivesStep
  <2>3. QED
    BY <2>1, <2>2
<1>3. QED
  BY <1>1, <1>2, LifeInvariant, PTL DEF SafeSpec
===============================================================================
