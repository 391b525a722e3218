\* client-test without options, or with -t 1.
SPECIFICATION Spec
CONSTANTS
    ThreadNumbers = {1}
    LastPlace = 2
    RequestNumbers = {1}
    MaxFaults = 0
INVARIANT MainThreadRuns
CHECK_DEADLOCK FALSE
