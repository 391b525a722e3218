----------------------------- MODULE SocketClient -----------------------------
(***************************************************************************)
(* client-socket.c, tcp-client.c and tcp-client.py: one thread sends its   *)
(* requests over one TCP connection. It blocks in send until all of a      *)
(* request is taken over, and after a request that is answered it calls    *)
(* recv once: whatever that returns passes for the reply. The programs in  *)
(* C look at no result.                                                    *)
(*                                                                         *)
(* Lengths and positions are in segments: the bytes of a segment travel    *)
(* together. The server is memcached, not part of this repository. It      *)
(* serves one request after the other and writes all of a reply before it  *)
(* reads on. What a path holds includes the buffers at both of its ends.   *)
(***************************************************************************)
EXTENDS Integers, Sequences, FiniteSets, FiniteSetsExt, SequencesExt

CONSTANTS
    Tests,       \* what one run of a client may do, see TestOK
    RequestPath, \* segments the way to the server holds
    ReplyPath,   \* segments the way back holds
    MaxFaults    \* bound on what fails

\* A test is a sequence of requests: the length of each, that of its reply, 0 if
\* there is none, and how much of it recv may return. It says whether failed calls
\* raise an exception, as Python's do.
TestOK(t) ==
    /\ t.raises \in BOOLEAN
    /\ t.items \in Seq([len : Nat \ {0}, reply : Nat, max : Nat \ {0}]) \ {<<>>}

ASSUME SocketAssumption ==
    /\ \A t \in Tests : TestOK(t)
    /\ RequestPath \in Nat \ {0}
    /\ ReplyPath \in Nat \ {0}
    /\ MaxFaults \in Nat

VARIABLES
    test,     \* what this client does
    at,       \* the request it is at
    pc,       \* where it is, see Pcs
    link,     \* what became of the connection, see Links
    written,  \* segments handed to the connection
    taken,    \* segments the server has read
    replied,  \* segments of replies the server has handed to the connection
    received, \* segments recv returned
    split,    \* whether a recv returned without the end of its reply (history)
    resetAt,  \* the request the client was at when the reset arrived, or 0 (history)
    faults

clientVars == <<test, at, pc, written, received, split>>
serverVars == <<taken, replied>>
vars == <<clientVars, serverVars, link, resetAt, faults>>

Pcs == {"start",   \* before socket and connect
        "send", "receive",
        "done",    \* all requests were sent and waited for
        "failed",  \* main returns, there is no connection
        "killed"}  \* by SIGPIPE or an exception

Links == {"none", "up",
          "closed", \* the server closed its end, the client does not know
          "reset",  \* a reset arrived and no call has reported it
          "down"}   \* it was reported

Items == test.items
LastItem == Len(Items)
Ended == pc \in {"done", "failed", "killed"}
Fault == faults < MaxFaults /\ faults' = faults + 1

\* Where request i and its reply end in the two streams: how many segments there
\* are up to them.
Request(i) == {i} \X (1 .. Items[i].len)
Reply(i) == {i} \X (1 .. Items[i].reply)

RequestEnd(i) == Cardinality(UNION {Request(j) : j \in 1 .. i})
ReplyEnd(i) == Cardinality(UNION {Reply(j) : j \in 1 .. i})

\* The requests the server has got all of.
Served == Cardinality({i \in 1 .. LastItem : RequestEnd(i) <= taken})
------------------------------------------------------------------------------
(***************************************************************************)
(* The client                                                              *)
(***************************************************************************)
\* socket and connect.
Connect ==
    /\ pc = "start"
    /\ pc' = "send"
    /\ link' = "up"
    /\ UNCHANGED <<test, at, written, received, split, serverVars, resetAt, faults>>

\* Mutant of ConnectFails: main does not look at the result.
ConnectFailsIgnored ==
    /\ pc = "start"
    /\ Fault
    /\ pc' = "send"
    /\ UNCHANGED <<test, at, written, received, split, serverVars, link, resetAt>>

\* One of them fails. main returns; the script goes on with None and dies at its
\* first call.
ConnectFails ==
    /\ pc = "start"
    /\ Fault
    /\ pc' = IF test.raises THEN "killed" ELSE "failed"
    /\ UNCHANGED <<test, at, written, received, split, serverVars, link, resetAt>>

NextItem ==
    /\ at' = at + 1
    /\ pc' = IF at = LastItem THEN "done" ELSE "send"

\* Mutant of AfterSend: the next request is sent before the reply is read.
AfterSendPipelined == NextItem

\* send returned, with whatever result.
AfterSend ==
    IF Items[at].reply > 0 THEN pc' = "receive" /\ UNCHANGED at ELSE NextItem

\* Some of the request finds room. If that was the rest of it send returns.
Send ==
    /\ pc = "send" /\ link = "up"
    /\ \E n \in 1 .. Min({RequestEnd(at) - written, RequestPath - (written - taken)}) :
        /\ written' = written + n
        /\ IF written' = RequestEnd(at) THEN AfterSend ELSE UNCHANGED <<at, pc>>
    /\ UNCHANGED <<test, received, split, serverVars, link, resetAt, faults>>

\* What the server reads no more is accepted all the same.
SendToClosed ==
    /\ pc = "send" /\ link = "closed"
    /\ written' = RequestEnd(at)
    /\ AfterSend
    /\ UNCHANGED <<test, received, split, serverVars, link, resetAt, faults>>

\* A send that had handed over part of its request returns how much that was.
SendCutShort ==
    /\ pc = "send" /\ link \in {"reset", "down"} /\ written > RequestEnd(at - 1)
    /\ AfterSend
    /\ UNCHANGED <<test, written, received, split, serverVars, link, resetAt, faults>>

\* The first call after a reset that has nothing else to return reports it. In C
\* nobody looks.
SendReports ==
    /\ pc = "send" /\ link = "reset" /\ written <= RequestEnd(at - 1)
    /\ link' = "down"
    /\ IF test.raises THEN pc' = "killed" /\ UNCHANGED at ELSE AfterSend
    /\ UNCHANGED <<test, written, received, split, serverVars, resetAt, faults>>

\* Mutant of SendDown: with MSG_NOSIGNAL it is an error like any other.
SendDownNoSignal ==
    /\ pc = "send" /\ link = "down" /\ written <= RequestEnd(at - 1)
    /\ AfterSend
    /\ UNCHANGED <<test, written, received, split, serverVars, link, resetAt, faults>>

\* The next send raises SIGPIPE, or Python's exception for it.
SendDown ==
    /\ pc = "send" /\ link = "down" /\ written <= RequestEnd(at - 1)
    /\ pc' = "killed"
    /\ UNCHANGED <<test, at, written, received, split, serverVars, link, resetAt, faults>>

Unread == replied - received

\* Mutant of Recv: with MSG_DONTWAIT.
RecvDontWait ==
    /\ pc = "receive"
    /\ received' = received + Min({Unread, Items[at].max})
    /\ split' = (split \/ (Unread > 0 /\ received' < ReplyEnd(at)))
    /\ NextItem
    /\ UNCHANGED <<test, written, serverVars, link, resetAt, faults>>

\* Mutant of Recv: with MSG_WAITALL.
RecvAll ==
    /\ pc = "receive" /\ Unread >= Items[at].max
    /\ received' = received + Items[at].max
    /\ split' = (split \/ received' < ReplyEnd(at))
    /\ NextItem
    /\ UNCHANGED <<test, written, serverVars, link, resetAt, faults>>

\* recv returns some of what is there, also when the server is gone, and is not
\* called again for the rest.
Recv ==
    /\ pc = "receive" /\ Unread > 0
    /\ \E n \in 1 .. Min({Unread, Items[at].max}) : received' = received + n
    /\ split' = (split \/ received' < ReplyEnd(at))
    /\ NextItem
    /\ UNCHANGED <<test, written, serverVars, link, resetAt, faults>>

\* The end of the stream: recv returns 0, which Python does not raise for either.
RecvEnd ==
    /\ pc = "receive" /\ Unread = 0 /\ link \in {"closed", "down"}
    /\ NextItem
    /\ UNCHANGED <<test, written, received, split, serverVars, link, resetAt, faults>>

RecvReports ==
    /\ pc = "receive" /\ Unread = 0 /\ link = "reset"
    /\ link' = "down"
    /\ IF test.raises THEN pc' = "killed" /\ UNCHANGED at ELSE NextItem
    /\ UNCHANGED <<test, written, received, split, serverVars, resetAt, faults>>
------------------------------------------------------------------------------
(***************************************************************************)
(* memcached                                                               *)
(***************************************************************************)
\* It reads on in the current request once it owes no reply.
ServerReads ==
    /\ link = "up" /\ Served < LastItem /\ replied = ReplyEnd(Served)
    /\ \E n \in 1 .. Min({written, RequestEnd(Served + 1)}) - taken : taken' = taken + n
    /\ UNCHANGED <<clientVars, replied, link, resetAt, faults>>

ServerReplies ==
    /\ link = "up" /\ replied < ReplyEnd(Served)
    /\ \E n \in 1 .. Min({ReplyEnd(Served) - replied, ReplyPath - Unread}) :
        replied' = replied + n
    /\ UNCHANGED <<clientVars, taken, link, resetAt, faults>>

\* The server ends and its end is closed in order.
ServerCloses ==
    /\ link = "up" /\ ~Ended
    /\ Fault
    /\ link' = "closed"
    /\ UNCHANGED <<clientVars, serverVars, resetAt>>

\* It ends with something left unread, or the connection breaks: replies on their
\* way may be lost.
ServerResets ==
    /\ link = "up" /\ ~Ended /\ taken < written
    /\ Fault
    /\ link' = "reset"
    /\ resetAt' = at
    /\ \E r \in received .. replied : replied' = r
    /\ UNCHANGED <<clientVars, taken>>

\* Anything sent to a closed end is answered by a reset. The client's end knows of
\* the other's: no call reports the reset, the next send is killed.
ResetArrives ==
    /\ link = "closed" /\ ~Ended /\ taken < written
    /\ link' = "down"
    /\ resetAt' = at
    /\ UNCHANGED <<clientVars, serverVars, faults>>
------------------------------------------------------------------------------
Init ==
    /\ test \in Tests
    /\ at = 1
    /\ pc = "start"
    /\ link = "none"
    /\ written = 0 /\ taken = 0 /\ replied = 0 /\ received = 0
    /\ split = FALSE
    /\ resetAt = 0
    /\ faults = 0

ClientNext ==
    \/ Connect \/ ConnectFails
    \/ Send \/ SendToClosed \/ SendCutShort \/ SendReports \/ SendDown
    \/ Recv \/ RecvEnd \/ RecvReports

ServerNext == ServerReads \/ ServerReplies

Next == ClientNext \/ ServerNext \/ ServerCloses \/ ServerResets \/ ResetArrives

\* The client is scheduled, and the server while it runs.
Spec == Init /\ [][Next]_vars /\ WF_vars(ClientNext) /\ WF_vars(ServerNext)
------------------------------------------------------------------------------
TypeOK ==
    /\ test \in Tests
    /\ at \in 1 .. LastItem + 1
    /\ pc \in Pcs
    /\ link \in Links /\ (pc \in {"send", "receive"} => link # "none")
    /\ taken \in 0 .. written /\ written \in 0 .. RequestEnd(LastItem)
    /\ received \in 0 .. replied /\ replied \in 0 .. ReplyEnd(Served)
    /\ split \in BOOLEAN
    /\ resetAt \in 0 .. LastItem
    /\ faults \in 0 .. MaxFaults

\* "make sure the server recv every thing": what a test waited for, and with it all
\* that was sent before, the server has got, as long as no recv stopped in the
\* middle of a reply and no call failed (client-socket.c:80-82, 104-129,
\* tcp-client.c:63-76).
RepliesMeanServed ==
    link = "up" /\ ~split => \A i \in 1 .. at - 1 : Items[i].reply > 0 => i <= Served

\* The client sits in send for want of room, the server in its write.
BlockEachOther ==
    /\ link = "up" /\ pc = "send"
    /\ written - taken = RequestPath
    /\ replied < ReplyEnd(Served) /\ Unread = ReplyPath

\* Client and server wait for each other only after a recv that was not repeated
\* for the rest of its reply: what is left then adds up (tcp-client.c:64-71,
\* tcp-client.py:43-54).
BlockedOnlyBySplitReply == BlockEachOther => split

\* Nobody looks at what send and recv return. All the same a client does not go on
\* for long without a server: SIGPIPE ends it within two requests of the reset, and
\* an exception within one (client-socket.c:69-146, tcp-client.py:41-55).
EndsSoonAfterReset ==
    resetAt > 0 => at <= resetAt + (IF test.raises THEN 1 ELSE 2)

\* Every test comes to its end, whatever fails, or client and server wait for each
\* other: recv is never called for a reply that an earlier recv took.
TestEnds == <>(Ended \/ BlockEachOther)
=============================================================================
