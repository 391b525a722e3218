\* Two items in one chain are enough for a delete that does not return.
SPECIFICATION Spec
CONSTANTS
    Keys <- EvenKeys
    Pointers = {p}
    NULL = NULL
    Requests = {1}
    Primes <- SmallPrimes
    MaxItems = 2
    Copies = 1
    Deletes = TRUE
INVARIANTS
    DeleteReturns
CHECK_DEADLOCK FALSE
