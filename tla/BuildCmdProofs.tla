----------------------------- MODULE BuildCmdProofs -----------------------------
(***************************************************************************)
(* The requests of build_cmd.c fit into the request_size bytes that are    *)
(* allocated for them, for every size the client's main lets through.      *)
(***************************************************************************)
EXTENDS BuildCmd, TLAPS

\* A key and its body leave the bytes the comments call useless for the rest
\* (build_cmd.c:143-162).
LEMMA RoomIsShared ==
    ASSUME NEW cmd \in Commands, NEW s \in AsciiSizes
    PROVE  /\ Room(cmd, s) \in Nat
           /\ KeyLength(cmd, 0, s) \in Nat \ {0}
           /\ KeyLength(cmd, NoreplyLength, s) = KeyLength(cmd, 0, s) - 8
           /\ BodyLength(cmd, s) \in Nat \ {0}
           /\ KeyLength(cmd, 0, s) <= 8 => BodyLength(cmd, s) = 1
           /\ KeyLength(cmd, 0, s) + BodyLength(cmd, s) <= Room(cmd, s)
<1>1. Room(cmd, s) \in Int /\ Room(cmd, s) >= 4
  BY DEF Room, CmdLength, Commands, Storage, Arithmetic, AsciiSizes
<1>2. CASE Room(cmd, s) > 250
  BY <1>1, <1>2 DEF KeyLength, BodyLength, NoreplyLength
<1>3. CASE ~(Room(cmd, s) > 250)
  BY <1>1, <1>3 DEF KeyLength, BodyLength, NoreplyLength
<1>4. QED
  BY <1>2, <1>3

\* snprintf of a body length writes at most 7 digits (build_cmd.c:140, 172).
LEMMA DigitsBound ==
    ASSUME NEW n \in Nat
    PROVE  Digits(n) \in 1 .. 7 /\ (n < 10 => Digits(n) = 1)
BY SMT DEF Digits

LEMMA CmdLengthBound ==
    ASSUME NEW cmd \in Commands
    PROVE  CmdLength(cmd) \in 3 .. 7
BY DEF CmdLength, Commands, Storage, Arithmetic

\* An ASCII request with or without noreply is no longer than request_size, so
\* write_to_buff stays inside the calloc (build_cmd.c:88-122, 125-129): AsciiFits
\* for every size at once. " noreply" takes its place from the key; where the key is
\* too short for that none is written, and the body is a single byte.
THEOREM AsciiRequestsFit == ASSUME NEW sizes PROVE AsciiFits(sizes)
<1> SUFFICES ASSUME NEW s \in sizes \cap AsciiSizes, NEW cmd \in Commands,
                    NEW suffix \in {0, NoreplyLength}
             PROVE  TextLength(cmd, suffix, s) <= s
  BY DEF AsciiFits
<1> DEFINE key == KeyLength(cmd, 0, s)
           body == BodyLength(cmd, s)
           left == IF KeyLength(cmd, suffix, s) > 0 THEN KeyLength(cmd, suffix, s) ELSE 0
<1>1. s \in AsciiSizes
  OBVIOUS
<1>2. /\ Room(cmd, s) \in Nat /\ key \in Nat \ {0} /\ body \in Nat \ {0}
      /\ key <= 8 => body = 1
      /\ key + body <= Room(cmd, s)
  BY <1>1, RoomIsShared
<1>3. /\ suffix \in Nat /\ left \in Nat
      /\ left + suffix = key \/ (left = 0 /\ suffix = 8 /\ key <= 8)
  <2>1. suffix = 0 \/ suffix = 8
    BY DEF NoreplyLength
  <2>2. KeyLength(cmd, 8, s) = key - 8
    BY <1>1, RoomIsShared DEF NoreplyLength
  <2>3. CASE suffix = 0
    BY <1>2, <2>3
  <2>4. CASE suffix = 8
    BY <1>2, <2>2, <2>4
  <2>5. QED
    BY <2>1, <2>3, <2>4
<1>4. CmdLength(cmd) \in 3 .. 7 /\ s \in Nat /\ s >= 28
  BY <1>1, CmdLengthBound DEF AsciiSizes
<1>5. Digits(body) \in 1 .. 7 /\ (body < 10 => Digits(body) = 1)
  BY <1>2, DigitsBound
<1>6. HeadLength(cmd, suffix, s)
        = CmdLength(cmd) + 1 + left
            + (IF cmd \in Storage THEN 5 + Digits(body)
               ELSE IF cmd \in Arithmetic THEN 1 + body
               ELSE 0)
  BY DEF HeadLength
<1>7. TextLength(cmd, suffix, s)
        = HeadLength(cmd, suffix, s) + suffix + 2
            + (IF cmd \in Storage THEN body + 2 ELSE 0)
  BY DEF TextLength
<1> HIDE DEF key, body, left
<1>8. CASE cmd \in Storage
  <2>1. Room(cmd, s) = s - CmdLength(cmd) - 17
    BY <1>8 DEF Room
  <2>2. QED
    BY <1>2, <1>3, <1>4, <1>5, <1>6, <1>7, <1>8, <2>1
<1>9. CASE cmd \in Arithmetic
  <2>1. Room(cmd, s) = s - CmdLength(cmd) - 4 /\ cmd \notin Storage
    BY <1>9 DEF Room, Storage, Arithmetic
  <2>2. QED
    BY <1>2, <1>3, <1>4, <1>6, <1>7, <1>9, <2>1
<1>10. CASE cmd \notin Storage /\ cmd \notin Arithmetic
  <2>1. Room(cmd, s) = s - CmdLength(cmd) - 3
    BY <1>10 DEF Room
  <2>2. QED
    BY <1>2, <1>3, <1>4, <1>6, <1>7, <1>10, <2>1
<1>11. QED
  BY <1>8, <1>9, <1>10

\* A binary request is no longer than request_size either (build_cmd.c:225-313).
THEOREM BinaryRequestsFit == ASSUME NEW sizes PROVE BinaryFits(sizes)
BY DEF BinaryFits, BinaryLength, BinarySizes, HeaderLength, SetExtras, IncrExtras,
       Commands, Storage, Arithmetic
=============================================================================
