CONSTANTS
    ann = ann
    User = {ann, bob, cem}
    Creator = ann
    Op = {o1, o2, o3, o4}
    Failures = TRUE
SPECIFICATION Spec
SYMMETRY Interchangeable
INVARIANT AdminRemains
CHECK_DEADLOCK FALSE
