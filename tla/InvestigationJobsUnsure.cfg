\* The documented claim about provider calls, with an enqueue whose answer is lost.
SPECIFICATION Spec
CONSTANTS
    j1 = j1  j2 = j2
    r1 = r1  r2 = r2  r3 = r3
    w1 = w1  w2 = w2
    Jobs = {j1}
    Requests = {r1, r2}
    Workers = {w1, w2}
    NoJob = NoJob
    NoRequest = NoRequest
    UnsureEnqueue = TRUE
    RedisMayRestart = FALSE
    CrashBudget = 0
INVARIANTS NoDuplicateProviderCalls
CHECK_DEADLOCK FALSE
