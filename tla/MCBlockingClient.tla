--------------------------- MODULE MCBlockingClient ---------------------------
(***************************************************************************)
(* Instances of BlockingClient for TLC.                                    *)
(***************************************************************************)
EXTENDS BlockingClient, ClientTests

\* Every kind of test once or a few times, and with no rounds. With request_size 273 the
\* ASCII texts are as long as they may be without the failure of MCBlockingStale.
AllTests ==
    ClientTest({"test_get"}, 1, 0) \cup ClientTest({"test_three"}, 1, 100)
        \cup ClientTest({"test_three"}, 1, 1100) \cup ClientTest({"test_read"}, 2, 0)
        \cup ClientTest({"test_write"}, 1, 0) \cup ClientTest({"test_large"}, 1, 0)
        \cup ClientRdma(TRUE, 45, 1) \cup ClientRdma(FALSE, 273, 1)
        \cup ClientTest({"test_read"}, 0, 0) \cup ClientRdma(TRUE, 45, 0)

\* client-rdma -m 274 -r 2.
LargerTests == ClientRdma(FALSE, 274, 2)

\* client-rdma -m 264 -r 1.
FloodTests == ClientRdma(FALSE, 264, 1)

\* Up to where the longest key and a four digit body fit, and around each further
\* digit of the body's length.
Sizes == 28 .. 1100 \cup {10269, 10270, 100269, 100270, 1000269, 1000270, 1048537}

\* What build_cmd.c built before a client starts fits into the request_size bytes it
\* is built in, for each of these sizes (build_cmd.c:88-122, 125-129).
BuiltMessagesFit == pc = "start" => AsciiFits(Sizes) /\ BinaryFits(Sizes)
=============================================================================
