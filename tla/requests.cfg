CONSTANTS
    alice = alice
    bob = bob
    User = {alice, bob}
    Op = {o1, o2, o3, o4}
    Failures = TRUE
SPECIFICATION Spec
SYMMETRY Interchangeable
INVARIANT ConnectedOnce
INVARIANT MutualIsRace
INVARIANT AcceptanceConnects
CHECK_DEADLOCK FALSE
