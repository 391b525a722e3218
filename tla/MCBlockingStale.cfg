\* Requests of 274 bytes, a ring that still holds the first flood.
SPECIFICATION SafeSpec
CONSTANTS
    Tests <- LargerTests
    ClientBufs = 2
    NumBufs = 16
    BufSize = 1024
    MaxSendWr = 2
    MaxFaults = 0
INVARIANTS
    WaitsInVainOnlyIfLost
CHECK_DEADLOCK FALSE
