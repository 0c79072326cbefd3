\* Safety and liveness: every fault enabled.
SPECIFICATION FairSpec
CONSTANTS
    j1 = j1  j2 = j2
    r1 = r1  r2 = r2  r3 = r3
    w1 = w1  w2 = w2
    Jobs = {j1, j2}
    Requests = {r1, r2, r3}
    Workers = {w1, w2}
    NoJob = NoJob
    NoRequest = NoRequest
    UnsureEnqueue = TRUE
    RedisMayRestart = TRUE
    CrashBudget = 1
ACTION_CONSTRAINT InTurn
INVARIANTS TypeOK RunsPaidFor SoleCarrier QueuedIsCarried SingleRunner CompletedIsCoherent
PROPERTIES CompletedIsFinal LifecycleSpec EveryJobSettles
CHECK_DEADLOCK FALSE
