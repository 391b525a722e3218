\* Nothing fails; the flood is longer than the ring.
SPECIFICATION SafeSpec
CONSTANTS
    Tests <- FloodTests
    ClientBufs = 2
    NumBufs = 2
    BufSize = 1024
    MaxSendWr = 2
    MaxFaults = 0
INVARIANTS
    ReplyMeansReceived
CHECK_DEADLOCK FALSE
