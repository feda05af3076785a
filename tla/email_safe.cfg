CONSTANTS
    j1 = j1
    j2 = j2
    p1 = p1
    r1 = r1
    r2 = r2
    r3 = r3
    t1 = t1
    t2 = t2
    NoJob = NoJob
    NoWorker = NoWorker
    Job <- OneJob
    Poller = {p1}
    Request = {r1, r2, r3}
    Direct = {r2, r3}
    JobOf <- OneJobOf
    Slot = {t1, t2}
    BatchSize = 3
    MaxAttempts = 1
    MaxLapses = 1
    MaxFaults = 1
SYMMETRY Interchangeable
SPECIFICATION Spec
INVARIANT ExclusiveDelivery
INVARIANT OutcomesAreTrue
PROPERTY OutcomesLast
CHECK_DEADLOCK FALSE
