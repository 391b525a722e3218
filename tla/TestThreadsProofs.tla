--------------------------- MODULE TestThreadsProofs ---------------------------
(***************************************************************************)
(* What becomes of the message the threads of test_add_get share, and when *)
(* main returns: for any number of threads, places and failures.           *)
(***************************************************************************)
EXTENDS TestThreads, TLAPS

Contents == {"text", "crlf", "nul"}

TypeInv ==
    /\ number \in ThreadNumbers
    /\ process \in {"running", "exited", "crashed"}
    /\ created \in 0 .. number /\ joined \in 0 .. created
    /\ pc \in [AllThreads -> Pcs]
    /\ cursor \in [AllThreads -> Nat]
    /\ end \in [AllThreads -> Nat]
    /\ rounds \in [AllThreads -> Nat]
    /\ memory \in [Places -> Contents]
    /\ erased \subseteq AllThreads
    /\ faults \in Nat

\* Threads that were not created, and where a cursor is before it is used.
PlaceInv ==
    \A t \in AllThreads :
        /\ t >= created => pc[t] = "none"
        /\ pc[t] \in {"none", "run", "connect", "head", "terminate"} => cursor[t] = 0
        /\ pc[t] = "memset" => cursor[t] \in Places

\* main joins in order and ends with the last.
JoinInv ==
    /\ \A t \in Threads : t < joined => pc[t] = "done"
    /\ process = "running" => joined < number
    /\ process = "exited" => created < number \/ joined = number

\* A thread that erased the head and is to print it, one that is to write the NUL, and
\* one that is sure to put its tail at place 2.
Erasing(u) == (pc[u] = "memset" /\ cursor[u] > 0) \/ pc[u] = "head"
Blanking(u) == (pc[u] = "memset" /\ cursor[u] > 1) \/ pc[u] \in {"head", "terminate"}
Sure(u) ==
    \/ pc[u] = "terminate"
    \/ pc[u] = "strstr" /\ cursor[u] = 0
    \/ pc[u] = "tail" /\ end[u] = 2

\* What is missing in the message of a thread that printed its head, another one is
\* about to write.
MessageInv ==
    \A t \in Threads : kind = "add_get" =>
        /\ pc[t] \in {"terminate", "strstr", "tail", "register", "send"} =>
            /\ memory[0] = "crlf" \/ \E u \in Threads : Erasing(u)
            /\ memory[2] = "crlf" \/ \E u \in Threads : Erasing(u) \/ Sure(u)
        /\ pc[t] \in {"strstr", "tail", "register", "send"} =>
            memory[1] = "nul" \/ \E u \in Threads : Blanking(u)

\* A thread whose head was not erased finds it.
HeadInv ==
    \A t \in Threads :
        /\ pc[t] \in {"terminate", "strstr"} /\ t \notin erased
            => memory[0] = "crlf" /\ cursor[t] = 0
        /\ end[t] <= 2 \/ t \in erased
        /\ pc[t] = "tail" \/ (kind = "add_get" /\ pc[t] \in {"register", "send"})
            => end[t] >= 2

CrashInv == number > 1 /\ faults = 0 /\ process = "crashed" => erased # {}

IInv == TypeInv /\ PlaceInv /\ JoinInv /\ MessageInv /\ HeadInv /\ CrashInv
------------------------------------------------------------------------------
\* number is the number of threads main creates (client-test.c:702-718).
LEMMA ThreadsAreThreads ==
    ASSUME number \in ThreadNumbers
    PROVE  number \in Nat \ {0} /\ Threads \subseteq AllThreads /\ \A t \in Threads : t \in Nat
<1>1. number \in Nat \ {0}
  BY ThreadsAssumption
<1>2. QED
  BY <1>1 DEF Threads, AllThreads

\* Threads are numbered (client-test.c:713-714).
LEMMA AllAreNumbers == \A t \in AllThreads : t \in Nat
BY ThreadsAssumption DEF AllThreads

\* The places of the head and of the tail are in the array (client-test.c:397-402).
LEMMA PlacesThere == {0, 1, 2} \subseteq Places /\ LastPlace \in Places /\ Places \subseteq Nat
BY ThreadsAssumption DEF Places

\* The state main starts from (client-test.c:702).
LEMMA InitInv == Init => IInv
<1> SUFFICES ASSUME Init PROVE IInv
  OBVIOUS
<1> USE ThreadsAreThreads, ThreadsAssumption, AllAreNumbers DEF Init
<1>1. TypeInv
  BY DEF TypeInv, Contents, Pcs
<1>2. PlaceInv /\ CrashInv
  BY DEF PlaceInv, CrashInv
<1>3. JoinInv
  BY DEF JoinInv, Threads
<1>4. MessageInv /\ HeadInv
  BY DEF MessageInv, HeadInv
<1>5. QED
  BY <1>1, <1>2, <1>3, <1>4 DEF IInv
------------------------------------------------------------------------------
\* Every step keeps the types. main creates and joins threads there are.
LEMMA TypeStep ==
    ASSUME TypeInv, PlaceInv, JoinInv, [Next]_vars
    PROVE  TypeInv'
<1> USE ThreadsAreThreads, AllAreNumbers, PlacesThere, ThreadsAssumption
    DEF TypeInv, JoinInv, Contents, Pcs, mainVars, threadVars
<1>1. CASE RunInMainThread
  BY <1>1 DEF RunInMainThread
<1>2. CASE Create
  <2>1. created \in AllThreads
    BY <1>2 DEF Create, Threads
  <2>2. QED
    BY <1>2, <2>1 DEF Create
<1>3. CASE CreateFails
  BY <1>3 DEF CreateFails, Fault
<1>4. CASE Join
  BY <1>4 DEF Join
<1>5. ASSUME NEW t \in Threads, ThreadNext(t) \/ Failure(t)
      PROVE  TypeInv'
  <2>1. CASE InitThread(t)
    BY <2>1 DEF InitThread, At, Goto
  <2>2. CASE build_connection(t)
    BY <2>2 DEF build_connection, At, Goto
  <2>3. CASE Memset(t)
    <3>1. erased' \subseteq AllThreads
      BY <2>3 DEF Memset, At
    <3>2. memory' \in [Places -> {"text", "crlf", "nul"}]
      BY <2>3 DEF Memset, At
    <3>3. cursor' \in [AllThreads -> Nat] /\ pc' \in [AllThreads -> Pcs]
      BY <2>3 DEF Memset, At, Goto
    <3>4. QED
      BY <2>3, <3>1, <3>2, <3>3 DEF Memset, At
  <2>4. CASE PrintHead(t)
    BY <2>4 DEF PrintHead, At, Goto
  <2>5. CASE Terminate(t)
    BY <2>5 DEF Terminate, At, Goto
  <2>6. CASE Found(t)
    BY <2>6 DEF Found, At, Goto
  <2>7. CASE NotFoundYet(t)
    BY <2>7 DEF NotFoundYet, At
  <2>8. CASE NotFound(t)
    BY <2>8 DEF NotFound, At
  <2>9. CASE WriteTail(t)
    BY <2>9 DEF WriteTail, At, Goto
  <2>10. CASE Register(t)
    BY <2>10 DEF Register, At, Goto
  <2>11. CASE Round(t)
    BY <2>11 DEF Round, At, Goto
  <2>12. CASE ThreadFails(t)
    BY <2>12 DEF ThreadFails, Fault, At, Goto
  <2>13. CASE RegisterCrash(t)
    BY <2>13 DEF RegisterCrash, Fault, At
  <2>14. CASE NoReply(t)
    BY <2>14 DEF NoReply, Fault, At, Goto
  <2>15. QED
    BY <1>5, <2>1, <2>2, <2>3, <2>4, <2>5, <2>6, <2>7, <2>8, <2>9, <2>10, <2>11,
       <2>12, <2>13, <2>14 DEF ThreadNext, Failure
<1>6. CASE UNCHANGED vars
  BY <1>6 DEF vars
<1>7. QED
  BY <1>1, <1>2, <1>3, <1>4, <1>5, <1>6 DEF Next, MainNext

\* A cursor is 0 until memset or strstr moves it, and memset stays inside the array
\* (client-test.c:398).
LEMMA PlaceStep ==
    ASSUME TypeInv, PlaceInv, [Next]_vars
    PROVE  PlaceInv'
<1> USE ThreadsAreThreads, AllAreNumbers, PlacesThere, ThreadsAssumption
    DEF TypeInv, PlaceInv, Places, mainVars, threadVars
<1>1. CASE RunInMainThread
  BY <1>1 DEF RunInMainThread
<1>2. CASE Create
  BY <1>2 DEF Create
<1>3. CASE CreateFails
  BY <1>3 DEF CreateFails, Fault
<1>4. CASE Join
  BY <1>4 DEF Join
<1>5. ASSUME NEW t \in Threads, ThreadNext(t) \/ Failure(t)
      PROVE  PlaceInv'
  <2>1. CASE InitThread(t)
    BY <2>1 DEF InitThread, At, Goto
  <2>2. CASE build_connection(t)
    BY <2>2 DEF build_connection, At, Goto
  <2>3. CASE Memset(t)
    <3>1. /\ created' = created /\ pc[t] = "memset" /\ cursor[t] \in Places /\ t \in AllThreads
          /\ \A u \in AllThreads \ {t} : pc'[u] = pc[u] /\ cursor'[u] = cursor[u]
      BY <2>3 DEF Memset, At, Goto
    <3>2. \/ pc'[t] = "head" /\ cursor'[t] = 0
          \/ pc'[t] = "memset" /\ cursor'[t] = cursor[t] + 1 /\ cursor[t] # LastPlace
      BY <2>3 DEF Memset, At, Goto
    <3>3. ~(t >= created) /\ cursor'[t] \in Places
      BY <3>1, <3>2
    <3>4. QED
      BY <3>1, <3>2, <3>3
  <2>4. CASE PrintHead(t)
    BY <2>4 DEF PrintHead, At, Goto
  <2>5. CASE Terminate(t)
    BY <2>5 DEF Terminate, At, Goto
  <2>6. CASE Found(t)
    BY <2>6 DEF Found, At, Goto
  <2>7. CASE NotFoundYet(t)
    BY <2>7 DEF NotFoundYet, At
  <2>8. CASE NotFound(t)
    BY <2>8 DEF NotFound, At
  <2>9. CASE WriteTail(t)
    BY <2>9 DEF WriteTail, At, Goto
  <2>10. CASE Register(t)
    BY <2>10 DEF Register, At, Goto
  <2>11. CASE Round(t)
    BY <2>11 DEF Round, At, Goto
  <2>12. CASE ThreadFails(t)
    BY <2>12 DEF ThreadFails, Fault, At, Goto
  <2>13. CASE RegisterCrash(t)
    BY <2>13 DEF RegisterCrash, Fault, At
  <2>14. CASE NoReply(t)
    BY <2>14 DEF NoReply, Fault, At, Goto
  <2>15. QED
    BY <1>5, <2>1, <2>2, <2>3, <2>4, <2>5, <2>6, <2>7, <2>8, <2>9, <2>10, <2>11,
       <2>12, <2>13, <2>14 DEF ThreadNext, Failure
<1>6. CASE UNCHANGED vars
  BY <1>6 DEF vars
<1>7. QED
  BY <1>1, <1>2, <1>3, <1>4, <1>5, <1>6 DEF Next, MainNext

\* Threads that were joined are done and stay so (client-test.c:720-722).
LEMMA JoinStep ==
    ASSUME TypeInv, PlaceInv, JoinInv, [Next]_vars
    PROVE  JoinInv'
<1> USE ThreadsAreThreads, AllAreNumbers
    DEF TypeInv, JoinInv, Threads, mainVars, threadVars
<1>1. CASE RunInMainThread
  BY <1>1 DEF RunInMainThread
<1>2. CASE Create
  BY <1>2 DEF Create
<1>3. CASE CreateFails
  BY <1>3 DEF CreateFails, Fault
<1>4. CASE Join
  BY <1>4 DEF Join
<1>5. ASSUME NEW t \in Threads, ThreadNext(t) \/ Failure(t)
      PROVE  JoinInv'
  <2>1. CASE InitThread(t)
    BY <2>1 DEF InitThread, At, Goto
  <2>2. CASE build_connection(t)
    BY <2>2 DEF build_connection, At, Goto
  <2>3. CASE Memset(t)
    BY <2>3 DEF Memset, At, Goto
  <2>4. CASE PrintHead(t)
    BY <2>4 DEF PrintHead, At, Goto
  <2>5. CASE Terminate(t)
    BY <2>5 DEF Terminate, At, Goto
  <2>6. CASE Found(t)
    BY <2>6 DEF Found, At, Goto
  <2>7. CASE NotFoundYet(t)
    BY <2>7 DEF NotFoundYet, At
  <2>8. CASE NotFound(t)
    BY <2>8 DEF NotFound, At
  <2>9. CASE WriteTail(t)
    BY <2>9 DEF WriteTail, At, Goto
  <2>10. CASE Register(t)
    BY <2>10 DEF Register, At, Goto
  <2>11. CASE Round(t)
    BY <2>11 DEF Round, At, Goto
  <2>12. CASE ThreadFails(t)
    BY <2>12 DEF ThreadFails, Fault, At, Goto
  <2>13. CASE RegisterCrash(t)
    BY <2>13 DEF RegisterCrash, Fault, At
  <2>14. CASE NoReply(t)
    BY <2>14 DEF NoReply, Fault, At, Goto
  <2>15. QED
    BY <1>5, <2>1, <2>2, <2>3, <2>4, <2>5, <2>6, <2>7, <2>8, <2>9, <2>10, <2>11,
       <2>12, <2>13, <2>14 DEF ThreadNext, Failure
<1>6. CASE UNCHANGED vars
  BY <1>6 DEF vars
<1>7. QED
  BY <1>1, <1>2, <1>3, <1>4, <1>5, <1>6 DEF Next, MainNext

\* A head stays where it is until another thread's memset comes to it; until then
\* strstr finds it at once (client-test.c:398-400).
LEMMA HeadStep ==
    ASSUME TypeInv, PlaceInv, HeadInv, [Next]_vars
    PROVE  HeadInv'
<1> USE ThreadsAreThreads, AllAreNumbers, PlacesThere
    DEF TypeInv, PlaceInv, HeadInv, Threads, mainVars, threadVars
<1>1. CASE RunInMainThread
  BY <1>1 DEF RunInMainThread
<1>2. CASE Create
  BY <1>2 DEF Create
<1>3. CASE CreateFails
  BY <1>3 DEF CreateFails, Fault
<1>4. CASE Join
  BY <1>4 DEF Join
<1>5. ASSUME NEW t \in Threads, ThreadNext(t) \/ Failure(t)
      PROVE  HeadInv'
  <2>1. CASE InitThread(t)
    BY <2>1 DEF InitThread, At, Goto
  <2>2. CASE build_connection(t)
    BY <2>2 DEF build_connection, At, Goto
  <2>3. CASE Memset(t)
    BY <2>3 DEF Memset, At, Goto
  <2>4. CASE PrintHead(t)
    BY <2>4 DEF PrintHead, At, Goto
  <2>5. CASE Terminate(t)
    BY <2>5 DEF Terminate, At, Goto
  <2>6. CASE Found(t)
    BY <2>6 DEF Found, At, Goto
  <2>7. CASE NotFoundYet(t)
    BY <2>7 DEF NotFoundYet, At
  <2>8. CASE NotFound(t)
    BY <2>8 DEF NotFound, At
  <2>9. CASE WriteTail(t)
    BY <2>9 DEF WriteTail, At, Goto
  <2>10. CASE Register(t)
    BY <2>10 DEF Register, At, Goto
  <2>11. CASE Round(t)
    BY <2>11 DEF Round, At, Goto
  <2>12. CASE ThreadFails(t)
    BY <2>12 DEF ThreadFails, Fault, At, Goto
  <2>13. CASE RegisterCrash(t)
    BY <2>13 DEF RegisterCrash, Fault, At
  <2>14. CASE NoReply(t)
    BY <2>14 DEF NoReply, Fault, At, Goto
  <2>15. QED
    BY <1>5, <2>1, <2>2, <2>3, <2>4, <2>5, <2>6, <2>7, <2>8, <2>9, <2>10, <2>11,
       <2>12, <2>13, <2>14 DEF ThreadNext, Failure
<1>6. CASE UNCHANGED vars
  BY <1>6 DEF vars
<1>7. QED
  BY <1>1, <1>2, <1>3, <1>4, <1>5, <1>6 DEF Next, MainNext

\* Without failing calls strstr alone makes a thread crash (client-test.c:400-402).
LEMMA CrashStep ==
    ASSUME TypeInv, HeadInv, CrashInv, [Next]_vars
    PROVE  CrashInv'
<1> USE ThreadsAreThreads, PlacesThere
    DEF TypeInv, HeadInv, CrashInv, mainVars, threadVars
<1>1. CASE RunInMainThread
  BY <1>1 DEF RunInMainThread
<1>2. CASE Create
  BY <1>2 DEF Create
<1>3. CASE CreateFails
  BY <1>3 DEF CreateFails, Fault
<1>4. CASE Join
  BY <1>4 DEF Join
<1>5. ASSUME NEW t \in Threads, ThreadNext(t) \/ Failure(t)
      PROVE  CrashInv'
  <2>1. CASE InitThread(t)
    BY <2>1 DEF InitThread, At, Goto
  <2>2. CASE build_connection(t)
    BY <2>2 DEF build_connection, At, Goto
  <2>3. CASE Memset(t)
    BY <2>3 DEF Memset, At, Goto
  <2>4. CASE PrintHead(t)
    BY <2>4 DEF PrintHead, At, Goto
  <2>5. CASE Terminate(t)
    BY <2>5 DEF Terminate, At, Goto
  <2>6. CASE Found(t)
    BY <2>6 DEF Found, At, Goto
  <2>7. CASE NotFoundYet(t)
    BY <2>7 DEF NotFoundYet, At
  <2>8. CASE NotFound(t)
    BY <2>8 DEF NotFound, At
  <2>9. CASE WriteTail(t)
    BY <2>9 DEF WriteTail, At, Goto
  <2>10. CASE Register(t)
    BY <2>10 DEF Register, At, Goto
  <2>11. CASE Round(t)
    BY <2>11 DEF Round, At, Goto
  <2>12. CASE ThreadFails(t)
    BY <2>12 DEF ThreadFails, Fault, At, Goto
  <2>13. CASE RegisterCrash(t)
    BY <2>13 DEF RegisterCrash, Fault, At
  <2>14. CASE NoReply(t)
    BY <2>14 DEF NoReply, Fault, At, Goto
  <2>15. QED
    BY <1>5, <2>1, <2>2, <2>3, <2>4, <2>5, <2>6, <2>7, <2>8, <2>9, <2>10, <2>11,
       <2>12, <2>13, <2>14 DEF ThreadNext, Failure
<1>6. CASE UNCHANGED vars
  BY <1>6 DEF vars
<1>7. QED
  BY <1>1, <1>2, <1>3, <1>4, <1>5, <1>6 DEF Next, MainNext

\* What memset erases the same thread writes again, the head and the NUL itself, the
\* tail unless it found a head in another place; then the thread that erased its own
\* does so (client-test.c:398-402).
LEMMA MessageStep ==
    ASSUME TypeInv, PlaceInv, HeadInv, MessageInv, [Next]_vars
    PROVE  MessageInv'
<1> USE ThreadsAreThreads, AllAreNumbers, PlacesThere
    DEF TypeInv, PlaceInv, HeadInv, MessageInv, Erasing, Blanking, Sure, Threads,
        mainVars, threadVars
<1>1. CASE RunInMainThread
  BY <1>1 DEF RunInMainThread
<1>2. CASE Create
  BY <1>2 DEF Create
<1>3. CASE CreateFails
  BY <1>3 DEF CreateFails, Fault
<1>4. CASE Join
  BY <1>4 DEF Join
<1>5. ASSUME NEW t \in Threads, ThreadNext(t) \/ Failure(t)
      PROVE  MessageInv'
  <2>1. CASE InitThread(t)
    BY <2>1 DEF InitThread, At, Goto
  <2>2. CASE build_connection(t)
    BY <2>2 DEF build_connection, At, Goto
  <2>3. CASE Memset(t)
    BY <2>3 DEF Memset, At, Goto
  <2>4. CASE PrintHead(t)
    BY <2>4 DEF PrintHead, At, Goto
  <2>5. CASE Terminate(t)
    BY <2>5 DEF Terminate, At, Goto
  <2>6. CASE Found(t)
    BY <2>6 DEF Found, At, Goto
  <2>7. CASE NotFoundYet(t)
    BY <2>7 DEF NotFoundYet, At
  <2>8. CASE NotFound(t)
    BY <2>8 DEF NotFound, At
  <2>9. CASE WriteTail(t)
    BY <2>9 DEF WriteTail, At, Goto
  <2>10. CASE Register(t)
    BY <2>10 DEF Register, At, Goto
  <2>11. CASE Round(t)
    BY <2>11 DEF Round, At, Goto
  <2>12. CASE ThreadFails(t)
    BY <2>12 DEF ThreadFails, Fault, At, Goto
  <2>13. CASE RegisterCrash(t)
    BY <2>13 DEF RegisterCrash, Fault, At
  <2>14. CASE NoReply(t)
    BY <2>14 DEF NoReply, Fault, At, Goto
  <2>15. QED
    BY <1>5, <2>1, <2>2, <2>3, <2>4, <2>5, <2>6, <2>7, <2>8, <2>9, <2>10, <2>11,
       <2>12, <2>13, <2>14 DEF ThreadNext, Failure
<1>6. CASE UNCHANGED vars
  BY <1>6 DEF vars
<1>7. QED
  BY <1>1, <1>2, <1>3, <1>4, <1>5, <1>6 DEF Next, MainNext

\* IInv is inductive: of what is missing in the shared message there is always a
\* thread about to write it, the last one to print its head writes a whole tail, and
\* nothing a thread found was in the wrong place unless its own head was erased.
LEMMA Invariant == SafeSpec => []IInv
<1>1. IInv /\ [Next]_vars => IInv'
  BY TypeStep, PlaceStep, JoinStep, MessageStep, HeadStep, CrashStep DEF IInv
<1>2. QED
  BY InitInv, <1>1, PTL DEF SafeSpec

\* Once no thread fills the message it is whole, and every thread that sends it sends
\* its right length unless another one erased its head (client-test.c:397-411).
THEOREM MessageWhole == SafeSpec => []WholeWhenQuiet
<1>1. IInv => WholeWhenQuiet
  <2> SUFFICES ASSUME IInv, Quiet, NEW t \in Threads,
                      pc[t] \in {"register", "send"}, kind = "add_get"
               PROVE  /\ memory[0] = "crlf" /\ memory[1] = "nul" /\ memory[2] = "crlf"
                      /\ end[t] = 2 \/ t \in erased
    BY DEF WholeWhenQuiet
  <2>1. \A u \in Threads : ~Erasing(u) /\ ~Blanking(u) /\ ~Sure(u)
    BY DEF Quiet, Filling, Erasing, Blanking, Sure
  <2>2. memory[0] = "crlf" /\ memory[1] = "nul" /\ memory[2] = "crlf"
    BY <2>1 DEF IInv, MessageInv
  <2>3. end[t] \in Nat
    BY ThreadsAreThreads DEF IInv, TypeInv
  <2>4. end[t] = 2 \/ t \in erased
    BY <2>3 DEF IInv, HeadInv
  <2>5. QED
    BY <2>2, <2>4
<1>2. QED
  BY Invariant, <1>1, PTL

\* strstr fails, and a tail is written elsewhere, only in a thread whose head another
\* one erased (client-test.c:400-402).
THEOREM HeadLostOnlyIfErased == SafeSpec => []LostOnlyIfErased
<1>1. IInv => LostOnlyIfErased
  <2> SUFFICES ASSUME IInv, number > 1, faults = 0
               PROVE  /\ process = "crashed" => erased # {}
                      /\ \A t \in Threads : end[t] > 2 => t \in erased
    BY DEF LostOnlyIfErased
  <2>1. \A t \in Threads : end[t] \in Nat
    BY ThreadsAreThreads DEF IInv, TypeInv
  <2>2. QED
    BY <2>1 DEF IInv, HeadInv, CrashInv
<1>2. QED
  BY Invariant, <1>1, PTL

\* main returns after all of its threads, or because one could not be created
\* (client-test.c:715-722).
THEOREM MainWaits == SafeSpec => []ExitsAfterThreads
<1>1. IInv => ExitsAfterThreads
  BY DEF IInv, JoinInv, TypeInv, ExitsAfterThreads, Threads
<1>2. QED
  BY Invariant, <1>1, PTL
==============================================================================
