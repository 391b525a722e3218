\* Up to two items per key; every operation.
SPECIFICATION Spec
CONSTANTS
    Keys <- SomeKeys
    Pointers = {p, q}
    NULL = NULL
    Requests = {1, 2, 3}
    Primes <- SmallPrimes
    MaxItems = 4
    Copies = 2
    Deletes = TRUE
INVARIANTS
    ItemsReachable
PROPERTIES
    DeleteOnlyItsKey
    ImplementsMultiMap
CHECK_DEADLOCK FALSE
