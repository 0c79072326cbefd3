\* Safety and liveness: an application action and an AWS action, every fault.
SPECIFICATION FairSpec
CONSTANTS
    ana = ana  adm = adm
    c1 = c1  c2 = c2  c3 = c3  c4 = c4
    w1 = w1  w2 = w2
    Actions = {a1, a2}
    AwsActions = {a2}
    Users = {ana, adm}
    Role <- MCRole
    Calls = {c1, c2, c3, c4}
    Workers = {w1, w2}
    NoUser = NoUser
    NoAction = NoAction
    AwsEnabled = TRUE
    ScanLimit = 1
    RedisMayRestart = TRUE
    CrashBudget = 2
ACTION_CONSTRAINT InTurn
INVARIANTS FourEyes OneExecutor EffectsMatchStatus AuditTellsTheStory
PROPERTIES ProtocolSpec ApprovedIsSettled
CHECK_DEADLOCK FALSE
