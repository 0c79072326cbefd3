\* Two transactions that hold different identity locks update one incident.
SPECIFICATION Spec
CONSTANTS
    r1 = r1
    r2 = r2
    r3 = r3
    e1 = e1
    e2 = e2
    e3 = e3
    e4 = e4
    e5 = e5
    e6 = e6
    e7 = e7
    e8 = e8
    e9 = e9
    e10 = e10
    e11 = e11
    u1 = u1
    u2 = u2
    p1 = p1
    p2 = p2
    f1 = f1
    Events = {e1, e2, e3, e4, e5, e6, e7, e8, e9, e10, e11}
    EventData <- MCData
    None = None
    Anomalous = {e5}
    BruteForceThreshold = 1
    BruteForceWindow = 2
    SprayUsers = 2
    SprayWindow = 2
    PrivilegeLookback = 2
    LoginAfterThreshold = 1
    LoginAfterWindow = 2
    Lookback = 2
    MergeWindow = 3
    Requests = {r1, r2, r3}
    Workloads <- MCWorkloads
    Incidents = {i1, i2, i3}
    ManualIds = {i3}
    Nobody = Nobody
    NoAlert = NoAlert
    Manual <- MCManual
    MinSeverity = 2
    FindingWindow = 5
SYMMETRY Symmetry
INVARIANTS TimelineCoversLinks
CHECK_DEADLOCK FALSE
