\* Every test of the socket clients, one failure.
SPECIFICATION Spec
CONSTANTS
    Tests <- AllTests
    SegmentSize = 256
    RequestPath = 2
    ReplyPath = 2
    MaxFaults = 1
INVARIANTS
    TypeOK
    RepliesMeanServed
    BlockedOnlyBySplitReply
    EndsSoonAfterReset
PROPERTIES
    TestEnds
CHECK_DEADLOCK FALSE
