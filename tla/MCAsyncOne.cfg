\* One thread, more requests than its queues hold, two failures.
SPECIFICATION Spec
CONSTANTS
    t1 = t1
    Threads = {t1}
    Buffs = 2
    PollWcSize = 2
    MaxSendWr = 2
    Requests = 4
    NumMrs = 3
    AckEvents = 3
    MaxFaults = 2
INVARIANTS
    TypeOK
    OneNotificationPerQueue
    NoLostWakeup
    OneRequestInFlight
    BuffersAndIndexAgree
PROPERTIES
    RequestLostOnlyIfQueueFull
    Finishes
CHECK_DEADLOCK FALSE
