SPECIFICATION Spec
CONSTANTS
    t1 = t1  t2 = t2  incident = incident
    Tabs = {t1, t2}
    Browsers <- MCBrowsers
    Purposes = {"fetch", "mutate", "ticket"}
    Topics = {incident}
    QueueMax = 1
    MaxConnections = 1
    MaxAttempts = 1
    NoTab = NoTab  NoCookie = NoCookie  NoAccess = NoAccess
INVARIANTS TypeOK NoSelfInflictedReuse SessionContinues QuietMeansFresh
CHECK_DEADLOCK FALSE
