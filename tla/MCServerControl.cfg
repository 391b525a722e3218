\* Two connections that come, send and go; no verbs call fails. Safety, liveness and
\* the refinement of NotifiedQueue.
SPECIFICATION Spec
CONSTANTS
    c1 = c1
    c2 = c2
    Conns = {c1,c2}
    NumBufs = 1
    PollWcSize = 2
    MaxSendWr = 1
    BufCells = 2
    PrintEvery = 1000
    Messages <- ShortMessages
    MaxMsgs = 1
    MaxFaults = 0
INVARIANTS
    TypeOK
    NotificationToken
    NoLostWakeup
    BlocksOnlyWithTwoPollEvents
    EveryMessageCounted
PROPERTIES
    ImplementsNotifiedQueue
    ConnectRequestServed
    EveryMessageEventuallyCounted
CHECK_DEADLOCK FALSE
