SPECIFICATION Spec
CONSTANTS
    q1 = q1  q2 = q2  k1 = k1  k2 = k2
    a1 = a1  a2 = a2  v1 = v1  v2 = v2  v3 = v3
    u1 = u1  p1 = p1  loopback = loopback  t1 = t1  t2 = t2
    Requests = {q1, q2}
    Runs = {k1, k2}
    Casts <- MCCasts
    Alerts = {a1, a2}
    AlertUser <- MCAlertUser
    AlertIp <- MCAlertIp
    Technique <- MCTechnique
    Primary = {}
    Evidence = {v1, v2}
    Exposed = {v1}
    MaxEvidence = 1
    ReadEvidence = 2
    MaxSize = 5
    KeepItems = 2
    KeepEvidence = 1
    Confidences = {95}
    Workers = 1
    CitedKinds = {"event", "evidence"}
    Plans <- MCPlans
    Users = {u1}
    Ips = {p1, loopback}
    Protected = {loopback}
    MinAutoConfidence = 80
    NoRun = NoRun  NoContext = NoContext  NoResult = NoResult
SYMMETRY Symmetry
INVARIANTS TypeOK ResultIsWarranted AnswerCoversRequest OnlyWarrantedEffects
PROPERTY LifecycleSpec
CHECK_DEADLOCK FALSE
