------------------------------ MODULE SocketTests ------------------------------
(***************************************************************************)
(* What client-socket.c, tcp-client.c and tcp-client.py send and how much  *)
(* they are ready to receive, as tests of SocketClient. Lengths are turned *)
(* from bytes into segments.                                               *)
(***************************************************************************)
EXTENDS BuildCmd, Sequences

CONSTANT SegmentSize

ASSUME SegmentAssumption == SegmentSize \in Nat \ {0}

Segments(bytes) == (bytes + SegmentSize - 1) \div SegmentSize

\* Sent and then received, with room for a number of bytes. The reply fits into
\* one segment unless it says otherwise.
SentAnd(len, reply, room) ==
    <<[len |-> Segments(len), reply |-> reply, max |-> Segments(room)]>>

\* A loop of n rounds; every round is the same.
Rounds(n, round) == [i \in 1 .. n * Len(round) |-> round[((i - 1) % Len(round)) + 1]]
------------------------------------------------------------------------------
(***************************************************************************)
(* client-socket.c, test_with_regmem, request_size s and n rounds. What is *)
(* stored under the key of a get, if anything, was deleted before: every   *)
(* get is a miss.                                                          *)
(***************************************************************************)
BUFF_SIZE == 1048576

Commands8 == <<"add", "set", "replace", "append", "prepend", "incr", "decr", "delete">>
Commands9 == <<"get">> \o Commands8

AsciiNoreplies(s, n) ==
    Rounds(n, [i \in 1 .. 8 |->
                 SentAnd(TextLength(Commands8[i], NoreplyLength, s), 0, BUFF_SIZE)[1]])

AsciiReplies(s, n) ==
    Rounds(n, [i \in 1 .. 9 |->
                 SentAnd(TextLength(Commands9[i], 0, s), 1, BUFF_SIZE)[1]])

AsciiTest(s, n) ==
    [items |-> AsciiNoreplies(s, n) \o SentAnd(TextLength("get", 0, s), 1, BUFF_SIZE)
                 \o AsciiReplies(s, n),
     raises |-> FALSE]

BinaryTest(s, n) ==
    [items |-> Rounds(n, [i \in 1 .. 9 |->
                            SentAnd(BinaryLength(Commands9[i], s), 1, BUFF_SIZE)[1]]),
     raises |-> FALSE]

\* What main runs for its options: nothing for a request_size it refuses.
ClientSocket(if_binary, s, n) ==
    IF if_binary
    THEN IF s \in BinarySizes THEN {BinaryTest(s, n)} ELSE {}
    ELSE IF s \in AsciiSizes THEN {AsciiTest(s, n)} ELSE {}
------------------------------------------------------------------------------
(***************************************************************************)
(* The two tcp-clients: add, get and delete of a value of v bytes.         *)
(***************************************************************************)
\* "add foo 0 0 <v>\r\n", the value and "\r\n".
AddLength(v) == 14 + Digits(v) + v + 2

\* "VALUE foo 0 <v>\r\n", the value and "\r\nEND\r\n".
ValueLength(v) == 14 + Digits(v) + v + 7

\* Of "get foo\r\n" and "delete foo\r\n".
GetLength == 9
DeleteLength == 12

SpeedMAX_SIZE == 1048576 + 256

SpeedTest(v, n) ==
    [items |-> Rounds(n, SentAnd(AddLength(v), 1, SpeedMAX_SIZE)
                           \o SentAnd(GetLength, Segments(ValueLength(v)), SpeedMAX_SIZE)
                           \o SentAnd(DeleteLength, 1, SpeedMAX_SIZE)),
     raises |-> FALSE]

INFO_SIZE == 512

ScriptTest(v, n) ==
    [items |-> Rounds(n, SentAnd(AddLength(v), 1, INFO_SIZE)
                           \o SentAnd(GetLength, Segments(ValueLength(v)),
                                      AddLength(v) + 300)
                           \o SentAnd(DeleteLength, 1, INFO_SIZE)),
     raises |-> TRUE]
=============================================================================
