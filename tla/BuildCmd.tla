------------------------------- MODULE BuildCmd -------------------------------
(***************************************************************************)
(* build_cmd.c: how long the requests are that it builds for a             *)
(* request_size of s, and where in them "noreply" and the first NUL are.   *)
(* Positions count from 0. What the keys and values say is left out.       *)
(***************************************************************************)
EXTENDS Integers

Storage == {"add", "set", "replace", "append", "prepend"}  \* if_extra
Arithmetic == {"incr", "decr"}                             \* if_delta
Commands == Storage \cup Arithmetic \cup {"delete", "get"}

CmdLength(cmd) ==
    IF cmd \in {"add", "set", "get"} THEN 3
    ELSE IF cmd \in Arithmetic THEN 4
    ELSE IF cmd \in {"append", "delete"} THEN 6
    ELSE 7  \* replace, prepend

\* What main lets through as request_size.
MEMCACHED_MAX_REQUEST == 1048537
AsciiSizes == 28 .. MEMCACHED_MAX_REQUEST   \* ASCII_MIX_REQUEST
BinarySizes == 45 .. MEMCACHED_MAX_REQUEST  \* BINARY_MIX_REQUEST

\* " noreply"; the requests that are answered have a suffix of length 0 instead.
NoreplyLength == 8

\* What the first three branches of build_ascii_cmd make of request_size.
Room(cmd, s) ==
    s - CmdLength(cmd) - (IF cmd \in Storage THEN 17
                          ELSE IF cmd \in Arithmetic THEN 4
                          ELSE 3)

\* Mutant of KeyLength: no room is made for " noreply".
KeyLengthFull(cmd, suffix, s) == IF Room(cmd, s) > 250 THEN 250 ELSE Room(cmd, s) - 1

\* keylen, which may end up negative: then no key is written.
KeyLength(cmd, suffix, s) ==
    (IF Room(cmd, s) > 250 THEN 250 ELSE Room(cmd, s) - 1) - suffix

BodyLength(cmd, s) ==
    IF Room(cmd, s) > 250 /\ cmd \notin Arithmetic THEN Room(cmd, s) - 250 ELSE 1

\* What snprintf needs for a body length.
Digits(n) ==
    IF n < 10 THEN 1
    ELSE IF n < 100 THEN 2
    ELSE IF n < 1000 THEN 3
    ELSE IF n < 10000 THEN 4
    ELSE IF n < 100000 THEN 5
    ELSE IF n < 1000000 THEN 6
    ELSE 7

\* The command, its key and its numbers, up to " noreply" or the "\r\n".
HeadLength(cmd, suffix, s) ==
    CmdLength(cmd) + 1
        + (IF KeyLength(cmd, suffix, s) > 0 THEN KeyLength(cmd, suffix, s) ELSE 0)
        + (IF cmd \in Storage THEN 5 + Digits(BodyLength(cmd, s))
           ELSE IF cmd \in Arithmetic THEN 1 + BodyLength(cmd, s)
           ELSE 0)

\* *request_len.
TextLength(cmd, suffix, s) ==
    HeadLength(cmd, suffix, s) + suffix + 2
        + (IF cmd \in Storage THEN BodyLength(cmd, s) + 2 ELSE 0)

\* protocol_binary_request_header, and what set and incr have behind it: flags and
\* expiration; delta, initial and expiration.
HeaderLength == 24
SetExtras == 4 + 4
IncrExtras == 8 + 8 + 4

\* *request_len of build_bin_cmd: header, extras, key and value.
BinaryLength(cmd, s) ==
    LET extlen == IF cmd \in {"add", "set", "replace"} THEN SetExtras
                  ELSE IF cmd \in Arithmetic THEN IncrExtras
                  ELSE 0
        body == s - HeaderLength - extlen
    IN IF cmd \in {"get", "delete"} \cup Arithmetic /\ body > 250
       THEN HeaderLength + extlen + 250
       ELSE s
------------------------------------------------------------------------------
(***************************************************************************)
(* Messages as a receiver sees them: how many bytes, where "noreply"       *)
(* starts, the stretches of NULs, and whether '\x88' comes first. readable *)
(* says whether the memory a request announces may be read by the server.  *)
(***************************************************************************)
PlainMessage(len, words, nuls) ==
    [len |-> len, words |-> words, nuls |-> nuls, head |-> FALSE, readable |-> FALSE]

MessageOK(m) ==
    /\ m.len \in Nat \ {0}
    /\ m.words \in SUBSET (0 .. m.len - 1)
    /\ \A r \in m.nuls : r[2] \in 0 .. m.len - 1 /\ r[1] \in 0 .. r[2]
    /\ m.head \in BOOLEAN /\ m.readable \in BOOLEAN

\* A NUL comes before any "noreply", or a "noreply" before any NUL: what is behind
\* the message does not matter.
Asks(m) == \E r \in m.nuls : \A w \in m.words : r[1] < w
Declines(m) == \E w \in m.words : \A r \in m.nuls : w < r[1]

\* All request_size bytes of a noreply request, zeros behind the text.
AsciiNoreply(cmd, s) ==
    LET text == TextLength(cmd, NoreplyLength, s)
    IN PlainMessage(s, {HeadLength(cmd, NoreplyLength, s) + 1},
                    IF text < s THEN {<<text, s - 1>>} ELSE {})

\* The text of a request, cut or filled up to a length.
AsciiReply(cmd, len, s) ==
    LET text == TextLength(cmd, 0, s)
    IN PlainMessage(len, {}, IF text < len THEN {<<text, len - 1>>} ELSE {})

\* The opcode of a get is 0, and the high byte of every key length.
Binary(cmd, s) ==
    LET nul == IF cmd = "get" THEN 1 ELSE 2
    IN PlainMessage(s, {}, {<<nul, nul>>})
------------------------------------------------------------------------------
\* No request is longer than the request_size bytes it is built in, so
\* write_to_buff stays inside (build_cmd.c:88-122, 125-129, build_cmd.h:72-74).
AsciiFits(sizes) ==
    \A s \in sizes \cap AsciiSizes, cmd \in Commands, suffix \in {0, NoreplyLength} :
        TextLength(cmd, suffix, s) <= s

BinaryFits(sizes) ==
    \A s \in sizes \cap BinarySizes, cmd \in Commands : BinaryLength(cmd, s) <= s
=============================================================================
