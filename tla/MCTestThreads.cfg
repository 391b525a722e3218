\* Up to three threads, every kind of test, one failure. The array has room for a value
\* behind the first one, not for a third, as with -m 400000.
SPECIFICATION Spec
CONSTANTS
    ThreadNumbers = {1, 2, 3}
    LastPlace = 3
    RequestNumbers = {0, 2}
    MaxFaults = 1
INVARIANTS
    WholeWhenQuiet
    LostOnlyIfErased
    ExitsAfterThreads
PROPERTIES
    MainEnds
CHECK_DEADLOCK FALSE
