CONSTANTS
    alice = alice
    bob = bob
    o1 = o1
    o2 = o2
    o3 = o3
    User = {alice, bob}
    Author <- MCAuthor
    LastMessage = 3
    Op = {o1, o2, o3}
    Failures = TRUE
    Reader = {bob}
    MaxCalls = 2
SYMMETRY Interchangeable
SPECIFICATION ReadSpec
INVARIANT ReadStateIsTrue
INVARIANT AnsweredIsDone
PROPERTY StampsPersist
CHECK_DEADLOCK FALSE
