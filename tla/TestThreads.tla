------------------------------ MODULE TestThreads ------------------------------
(***************************************************************************)
(* client-test.c: main, the threads it creates and joins, what of a test   *)
(* they share, and the tests that are not just messages. BlockingClient    *)
(* has one thread's exchange of messages with the server in detail; a      *)
(* round of it is one step here.                                           *)
(*                                                                         *)
(* Shared is the static message of test_add_get. memory holds what is at   *)
(* the places of it that matter, in the order of their addresses:          *)
(*   0  the "\r\n" of the head "add foo 0 0 <size>\r\n"                    *)
(*   1  the NUL snprintf leaves behind "hello"                             *)
(*   2  the "\r\n" behind a value of the size, measured from place 0       *)
(*   p  the "\r\n" behind one measured from the "\r\n" at place p - 1      *)
(* Every thread fills it with memset, which takes time, and snprintf,      *)
(* looks for the first "\r\n" with strstr and puts the one of the tail     *)
(* behind a value measured from there. Nothing orders these accesses.      *)
(***************************************************************************)
EXTENDS Integers, FiniteSets

CONSTANTS
    ThreadNumbers,  \* what -t may say
    LastPlace,      \* the last place inside the array of MAXSIZE bytes
    RequestNumbers, \* what -r may say
    MaxFaults       \* bound on what fails

ASSUME ThreadsAssumption ==
    /\ ThreadNumbers \subseteq Nat \ {0}
    /\ LastPlace \in Nat /\ LastPlace >= 2
    /\ RequestNumbers \subseteq Nat
    /\ MaxFaults \in Nat

\* test_add_get, test_max_conns, and the tests that send constant messages.
Kinds == {"add_get", "max_conns", "messages"}

VARIABLES
    number,  \* thread_number
    kind,    \* which test the options chose
    request_number,
    process, \* "running", "exited" or "crashed"
    created, \* threads main has created
    joined,  \* threads it has joined
    pc,      \* pc[t]: where thread t is, see Pcs
    cursor,  \* cursor[t]: the place its memset or strstr is at
    end,     \* end[t]: the place of the tail it wrote, where its message ends
    rounds,  \* rounds[t]: rounds of messages done, or connections built
    memory,  \* "text", "crlf" or "nul" at each place
    erased,  \* threads whose head another one erased before it was found (history)
    faults

threadVars == <<pc, cursor, end, rounds>>
mainVars == <<number, kind, request_number, created, joined>>
vars == <<mainVars, process, threadVars, memory, erased, faults>>

Pcs == {"none",      \* not created
        "run",       \* about to enter thread_run
        "connect",   \* about to build_connection
        "memset", "head", "terminate", "strstr", "tail",  \* filling the message
        "register", "send",
        "stuck",     \* spins for a reply that was never sent
        "done"}

Threads == 0 .. number - 1
Places == 0 .. LastPlace
Filling == {"memset", "head", "terminate", "strstr", "tail"}
Fault == faults < MaxFaults /\ faults' = faults + 1
------------------------------------------------------------------------------
(***************************************************************************)
(* main                                                                    *)
(***************************************************************************)
\* With one thread: thread_run reads the number of the thread through NULL.
RunInMainThread ==
    /\ process = "running" /\ number = 1
    /\ process' = "crashed"
    /\ UNCHANGED <<mainVars, threadVars, memory, erased, faults>>

Create ==
    /\ process = "running" /\ number > 1 /\ created < number
    /\ pc' = [pc EXCEPT ![created] = "run"]
    /\ created' = created + 1
    /\ UNCHANGED <<number, kind, request_number, joined, process, cursor, end, rounds,
                   memory, erased, faults>>

\* pthread_create fails: main returns -1, which ends the threads there are.
CreateFails ==
    /\ process = "running" /\ number > 1 /\ created < number
    /\ Fault
    /\ process' = "exited"
    /\ UNCHANGED <<mainVars, threadVars, memory, erased>>

\* Mutant of Join: the last thread is left out.
JoinButLast ==
    /\ process = "running" /\ number > 1 /\ created = number
    /\ pc[joined] = "done"
    /\ joined' = joined + 1
    /\ process' = IF joined' = number - 1 THEN "exited" ELSE process
    /\ UNCHANGED <<number, kind, request_number, created, threadVars, memory, erased, faults>>

\* Mutant of Join: one thread too many.
JoinOneMore ==
    /\ process = "running" /\ number > 1 /\ created = number /\ joined < number
    /\ pc[joined] = "done"
    /\ joined' = joined + 1
    /\ UNCHANGED <<number, kind, request_number, process, created, threadVars, memory,
                   erased, faults>>

\* In the order of their creation. After the last one main returns.
Join ==
    /\ process = "running" /\ number > 1 /\ created = number
    /\ pc[joined] = "done"
    /\ joined' = joined + 1
    /\ process' = IF joined' = number THEN "exited" ELSE process
    /\ UNCHANGED <<number, kind, request_number, created, threadVars, memory, erased, faults>>
------------------------------------------------------------------------------
(***************************************************************************)
(* A thread                                                                *)
(***************************************************************************)
At(t, where) == process = "running" /\ pc[t] = where
Goto(t, where) == pc' = [pc EXCEPT ![t] = where]

\* init_rdma_thread_resources. test_max_conns builds no connection if none is asked
\* for, the other tests build theirs all the same.
InitThread(t) ==
    /\ At(t, "run")
    /\ Goto(t, IF kind = "max_conns" /\ request_number = 0 THEN "done" ELSE "connect")
    /\ UNCHANGED <<mainVars, process, cursor, end, rounds, memory, erased, faults>>

\* It fails, or build_connection does: the thread is over. test_max_conns prints
\* how far it got.
ThreadFails(t) ==
    /\ At(t, "run") \/ At(t, "connect")
    /\ Fault
    /\ Goto(t, "done")
    /\ UNCHANGED <<mainVars, process, cursor, end, rounds, memory, erased>>

\* A buffer or a message cannot be registered, and the result is read through.
RegisterCrash(t) ==
    /\ At(t, "connect") \/ At(t, "register")
    /\ Fault
    /\ process' = "crashed"
    /\ UNCHANGED <<mainVars, threadVars, memory, erased>>

\* test_max_conns builds connections and drops none. The others start their test.
build_connection(t) ==
    /\ At(t, "connect")
    /\ IF kind = "max_conns"
       THEN /\ rounds' = [rounds EXCEPT ![t] = @ + 1]
            /\ Goto(t, IF rounds'[t] = request_number THEN "done" ELSE "connect")
       ELSE /\ Goto(t, IF kind = "add_get" THEN "memset" ELSE "register")
            /\ UNCHANGED rounds
    /\ UNCHANGED <<mainVars, process, cursor, end, memory, erased, faults>>

\* memset, one place after the other.
Memset(t) ==
    /\ At(t, "memset")
    /\ memory' = [memory EXCEPT ![cursor[t]] = "text"]
    /\ erased' = IF cursor[t] = 0
                 THEN erased \cup {u \in Threads \ {t} : pc[u] \in {"terminate", "strstr"}}
                 ELSE erased
    /\ IF cursor[t] = LastPlace
       THEN Goto(t, "head") /\ cursor' = [cursor EXCEPT ![t] = 0]
       ELSE UNCHANGED pc /\ cursor' = [cursor EXCEPT ![t] = @ + 1]
    /\ UNCHANGED <<mainVars, process, end, rounds, faults>>

\* Mutant of PrintHead: "add foo 0 0 %d\nhello".
PrintHeadBare(t) ==
    /\ At(t, "head")
    /\ Goto(t, "terminate")
    /\ UNCHANGED <<mainVars, process, cursor, end, rounds, memory, erased, faults>>

\* snprintf writes the head and then the NUL.
PrintHead(t) ==
    /\ At(t, "head")
    /\ memory' = [memory EXCEPT ![0] = "crlf"]
    /\ Goto(t, "terminate")
    /\ UNCHANGED <<mainVars, process, cursor, end, rounds, erased, faults>>

Terminate(t) ==
    /\ At(t, "terminate")
    /\ memory' = [memory EXCEPT ![1] = "nul"]
    /\ Goto(t, "strstr")
    /\ UNCHANGED <<mainVars, process, cursor, end, rounds, erased, faults>>

\* strstr looks at one place after the other. pos is counted from the first "\r\n".
Found(t) ==
    /\ At(t, "strstr") /\ cursor[t] \in Places
    /\ memory[cursor[t]] = "crlf"
    /\ end' = [end EXCEPT ![t] = IF cursor[t] = 0 THEN 2 ELSE cursor[t] + 1]
    /\ Goto(t, "tail")
    /\ UNCHANGED <<mainVars, process, cursor, rounds, memory, erased, faults>>

NotFoundYet(t) ==
    /\ At(t, "strstr") /\ cursor[t] \in Places
    /\ memory[cursor[t]] = "text"
    /\ cursor' = [cursor EXCEPT ![t] = @ + 1]
    /\ UNCHANGED <<mainVars, process, pc, end, rounds, memory, erased, faults>>

\* strstr returns NULL at a NUL, and the zeros behind the array hold one. What is
\* then written as the tail is written to an address near 0.
NotFound(t) ==
    /\ At(t, "strstr")
    /\ cursor[t] \in Places => memory[cursor[t]] = "nul"
    /\ process' = "crashed"
    /\ UNCHANGED <<mainVars, threadVars, memory, erased, faults>>

\* Mutant of WriteTail: the "\r\n" is forgotten.
WriteTailForgotten(t) ==
    /\ At(t, "tail")
    /\ Goto(t, "register")
    /\ UNCHANGED <<mainVars, process, cursor, end, rounds, memory, erased, faults>>

\* Behind the array it overwrites what belongs to others; what comes of that is
\* left out.
WriteTail(t) ==
    /\ At(t, "tail")
    /\ memory' = IF end[t] \in Places THEN [memory EXCEPT ![end[t]] = "crlf"] ELSE memory
    /\ Goto(t, "register")
    /\ UNCHANGED <<mainVars, process, cursor, end, rounds, erased, faults>>

\* The messages are registered.
Register(t) ==
    /\ At(t, "register")
    /\ Goto(t, IF request_number = 0 THEN "done" ELSE "send")
    /\ UNCHANGED <<mainVars, process, cursor, end, rounds, memory, erased, faults>>

\* A round of messages and replies. The adapter reads the message when it is sent.
Round(t) ==
    /\ At(t, "send")
    /\ rounds' = [rounds EXCEPT ![t] = @ + 1]
    /\ Goto(t, IF rounds'[t] = request_number THEN "done" ELSE "send")
    /\ UNCHANGED <<mainVars, process, cursor, end, memory, erased, faults>>

\* A reply is never sent, which takes no failing call of this program: see TestEnds
\* of BlockingClient.
NoReply(t) ==
    /\ At(t, "send")
    /\ Goto(t, "stuck")
    /\ UNCHANGED <<mainVars, process, cursor, end, rounds, memory, erased, faults>>
------------------------------------------------------------------------------
AllThreads == UNION {0 .. n - 1 : n \in ThreadNumbers}

Init ==
    /\ number \in ThreadNumbers
    /\ kind \in Kinds
    /\ request_number \in RequestNumbers
    /\ process = "running"
    /\ created = 0 /\ joined = 0
    /\ pc = [t \in AllThreads |-> "none"]
    /\ cursor = [t \in AllThreads |-> 0]
    /\ end = [t \in AllThreads |-> 0]
    /\ rounds = [t \in AllThreads |-> 0]
    /\ memory = [p \in Places |-> "nul"]
    /\ erased = {}
    /\ faults = 0

MainNext == RunInMainThread \/ Create \/ Join

ThreadNext(t) ==
    \/ InitThread(t) \/ build_connection(t)
    \/ Memset(t) \/ PrintHead(t) \/ Terminate(t)
    \/ Found(t) \/ NotFoundYet(t) \/ NotFound(t) \/ WriteTail(t)
    \/ Register(t) \/ Round(t)

Failure(t) == ThreadFails(t) \/ RegisterCrash(t) \/ NoReply(t)

Next ==
    \/ MainNext \/ CreateFails
    \/ \E t \in Threads : ThreadNext(t) \/ Failure(t)

SafeSpec == Init /\ [][Next]_vars

\* Every thread is scheduled.
Spec ==
    /\ SafeSpec
    /\ WF_vars(MainNext)
    /\ \A t \in AllThreads : WF_vars(t \in Threads /\ ThreadNext(t))
------------------------------------------------------------------------------
Quiet == \A t \in Threads : pc[t] \notin Filling

\* The threads of test_add_get fill one message at the same time without a lock.
\* Once none of them does, the message is whole, whoever was the last at each of
\* its places, and a thread sends it with its right length unless another one
\* erased the head it had just printed (client-test.c:397-404, 411).
WholeWhenQuiet ==
    Quiet => \A t \in Threads :
        pc[t] \in {"register", "send"} /\ kind = "add_get"
            => /\ memory[0] = "crlf" /\ memory[1] = "nul" /\ memory[2] = "crlf"
               /\ end[t] = 2 \/ t \in erased

\* Nothing but such an erased head makes strstr fail or the tail end up elsewhere,
\* possibly behind the array (client-test.c:400-402).
LostOnlyIfErased ==
    number > 1 /\ faults = 0
        => /\ process = "crashed" => erased # {}
           /\ \A t \in Threads : end[t] > 2 => t \in erased

\* main does not return before every thread is done, whatever the order in which
\* they end, unless one could not be created (client-test.c:715-722).
ExitsAfterThreads ==
    process = "exited" => created < number \/ \A t \in Threads : pc[t] = "done"

\* main ends unless a thread waits for a reply that never comes.
MainEnds == <>(process # "running" \/ \E t \in Threads : pc[t] = "stuck")

\* "use main thread by default": with one thread the test runs in the main thread
\* (client-test.c:705).
MainThreadRuns == number = 1 => process # "crashed"
=============================================================================
