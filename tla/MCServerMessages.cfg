\* One connection, messages of every layout, the ring of buffers reused, two failing
\* verbs calls anywhere.
SPECIFICATION SafeSpec
CONSTANTS
    c1 = c1
    Conns = {c1}
    NumBufs = 2
    PollWcSize = 2
    MaxSendWr = 2
    BufCells = 2
    PrintEvery = 2
    Messages <- LayoutMessages
    MaxMsgs = 3
    MaxFaults = 2
INVARIANTS
    RecvBuffersConserved
    EveryMessageCounted
    OverwriteOnlyWhenRingExhausted
    SurvivesCarefulPeers
    CompletionsBounded
PROPERTIES
    ReplyMatchesRequest
CHECK_DEADLOCK FALSE
