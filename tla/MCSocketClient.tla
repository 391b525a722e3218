---------------------------- MODULE MCSocketClient ----------------------------
(***************************************************************************)
(* Instances of SocketClient for TLC.                                      *)
(***************************************************************************)
EXTENDS SocketClient, SocketTests

\* Every kind of test. The requests with a value and the replies with one are
\* longer than what a path holds, and there are rounds enough for a backlog.
AllTests ==
    ClientSocket(FALSE, 273, 1) \cup ClientSocket(TRUE, 300, 1)
        \cup {SpeedTest(900, 2), ScriptTest(900, 2)}
=============================================================================
