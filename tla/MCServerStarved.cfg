\* A third peer asks for a connection while two are served. The code never gets
\* to its request.
SPECIFICATION Spec
CONSTANTS
    c1 = c1
    c2 = c2
    c3 = c3
    Conns = {c1, c2, c3}
    NumBufs = 1
    PollWcSize = 1
    MaxSendWr = 1
    BufCells = 2
    PrintEvery = 1000
    Messages <- NoreplyMessages
    MaxMsgs = 1
    MaxFaults = 0
PROPERTIES
    ConnectRequestServed
CHECK_DEADLOCK FALSE
