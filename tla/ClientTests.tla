------------------------------ MODULE ClientTests ------------------------------
(***************************************************************************)
(* What the tests of client-rdma.c and client-test.c send, as tests of     *)
(* BlockingClient: which messages in which order, and which of them they   *)
(* wait for a reply to.                                                    *)
(***************************************************************************)
EXTENDS BuildCmd, Sequences

Once(m) == <<[msg |-> m, waits |-> FALSE]>>
Asked(m) == <<[msg |-> m, waits |-> TRUE]>>

\* A loop of n rounds; every round is the same.
Times(n, round) == [i \in 1 .. n * Len(round) |-> round[((i - 1) % Len(round)) + 1]]

Of(program, sequence) ==
    [items |-> sequence, retries |-> program = "client-test"]
------------------------------------------------------------------------------
(***************************************************************************)
(* client-rdma.c, test_with_regmem, request_size s and n rounds            *)
(***************************************************************************)
Changes == <<"add", "set", "replace", "append", "prepend", "incr", "decr", "delete">>

\* append_r_mr and prepend_r_mr are registered with each other's text; the texts
\* differ in length by what the names differ and the length is that of the name.
Registered(cmd, s) ==
    LET text == CASE cmd = "append" -> "prepend"
                  [] cmd = "prepend" -> "append"
                  [] OTHER -> cmd
    IN AsciiReply(text, TextLength(cmd, 0, s), s)

AsciiTest(s, n) ==
    Of("client-rdma",
       Times(n, [i \in 1 .. 8 |-> Once(AsciiNoreply(Changes[i], s))[1]])
         \o Asked(Registered("get", s))
         \o Times(n, Asked(Registered("get", s))
                       \o [i \in 1 .. 8 |-> Asked(Registered(Changes[i], s))[1]]))

BinaryTest(s, n) ==
    Of("client-rdma",
       Times(n, Asked(Binary("get", s))
                  \o [i \in 1 .. 8 |-> Asked(Binary(Changes[i], s))[1]]))

\* What main runs for its options: nothing for a request_size it refuses.
ClientRdma(if_binary, s, n) ==
    IF if_binary
    THEN IF s \in BinarySizes THEN {BinaryTest(s, n)} ELSE {}
    ELSE IF s \in AsciiSizes THEN {AsciiTest(s, n)} ELSE {}
------------------------------------------------------------------------------
(***************************************************************************)
(* client-test.c. Its messages are string constants that are sent with     *)
(* their NUL.                                                              *)
(***************************************************************************)
\* The length of "add foo 0 0 1\r\n1\r\n" and the others, without the NUL.
Literal == [add |-> 18, set |-> 18, replace |-> 22, append |-> 21, prepend |-> 22,
            incr |-> 12, decr |-> 12, get |-> 9, delete |-> 12]

\* " noreply" is in front of the first "\r\n".
WordIn == [add |-> 14, set |-> 14, replace |-> 18, append |-> 17, prepend |-> 18,
           incr |-> 11, decr |-> 11, delete |-> 11]

Quiet(cmd) ==
    LET end == Literal[cmd] + 8
    IN PlainMessage(end + 1, {WordIn[cmd]}, {<<end, end>>})

\* Mutant of Aloud: the messages are sent without their NUL.
AloudCut(cmd) == PlainMessage(Literal[cmd], {}, {})

Aloud(cmd) == PlainMessage(Literal[cmd] + 1, {}, {<<Literal[cmd], Literal[cmd]>>})

RegmemTest(n, test_get) ==
    Of("client-test",
       Times(n, [i \in 1 .. 8 |-> Once(Quiet(Changes[i]))[1]])
         \o Times(n, [i \in 1 .. 7 |-> Asked(Aloud(Changes[i]))[1]]
                       \o (IF test_get THEN Asked(Aloud("get")) ELSE <<>>)
                       \o Asked(Aloud("delete"))))

\* "add foo 0 0 <value>\r\n", the value and "\r\n". The NUL that snprintf put behind
\* "hello" is one of the value's bytes if there are more than five: the "\r\n" is put
\* over it if there are four or five, and in front of it if there are fewer.
AddValue(value) ==
    LET pos == 14 + Digits(value)
    IN PlainMessage(pos + value + 2, {}, IF value > 5 THEN {<<pos + 5, pos + 5>>} ELSE {})

AddGetTest(n, large_memory_size) ==
    Of("client-test",
       Times(n, Asked(AddValue(large_memory_size)) \o Asked(Aloud("get"))
                  \o Asked(Aloud("delete"))))

\* HEAD_SIZE bytes, '\x88' first and a NUL behind address, key and command.
HeadMessage(readable) ==
    [len |-> 128, words |-> {}, nuls |-> {<<60, 60>>}, head |-> TRUE,
     readable |-> readable]

ReadTest(n) ==
    Of("client-test", Times(n, Asked(HeadMessage(TRUE)) \o Asked(Aloud("delete"))))

\* Memory registered for the server to write; the server reads all the same.
WriteTest(n) == Of("client-test", Times(n, Asked(HeadMessage(FALSE))))

ReadWriteTest(n) ==
    Of("client-test", Times(n, Asked(HeadMessage(TRUE)) \o Asked(HeadMessage(FALSE))
                                 \o Asked(Aloud("delete"))))

\* What thread_run runs for the flags that -T set. test_max_conns, for test_conns,
\* sends nothing.
ClientTest(flags, n, large_memory_size) ==
    IF "test_read" \in flags THEN {ReadTest(n)}
    ELSE IF "test_write" \in flags THEN {WriteTest(n)}
    ELSE IF "test_conns" \in flags THEN {}
    ELSE IF "test_three" \in flags THEN {AddGetTest(n, large_memory_size)}
    ELSE IF "test_large" \in flags THEN {ReadWriteTest(n)}
    ELSE {RegmemTest(n, "test_get" \in flags)}
=============================================================================
