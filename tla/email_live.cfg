CONSTANTS
    j1 = j1
    j2 = j2
    p1 = p1
    r1 = r1
    r2 = r2
    r3 = r3
    t1 = t1
    t2 = t2
    NoJob = NoJob
    NoWorker = NoWorker
    Job <- TwoJobs
    Poller = {p1}
    Request = {r1, r2}
    Direct = {r2}
    JobOf <- TwoJobsOf
    Slot = {t1, t2}
    BatchSize = 1
    MaxAttempts = 2
    MaxLapses = 0
    MaxFaults = 1
SPECIFICATION FairSpec
INVARIANT FailsAfterAllAttempts
PROPERTY DeliverySettles
CHECK_DEADLOCK FALSE
