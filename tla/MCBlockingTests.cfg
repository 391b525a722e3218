\* Every test of the two blocking clients, one failure.
SPECIFICATION Spec
CONSTANTS
    Tests <- AllTests
    ClientBufs = 2
    NumBufs = 2
    BufSize = 1024
    MaxSendWr = 2
    MaxFaults = 1
INVARIANTS
    TypeOK
    WaitsInVainOnlyIfLost
    ReplyMeansReceivedIfIntact
    ArrivesOnce
    BuiltMessagesFit
PROPERTIES
    ReplyIsOwn
    TestEnds
CHECK_DEADLOCK FALSE
