SPECIFICATION Spec
CONSTANTS
    c1 = c1  c2 = c2  c3 = c3
    Emails = {alice}
    Addresses = {home}
    Calls = {c1, c2, c3}
    AccountLimit = 2
    IpLimit = 3
    RegisterLimit = 2
INVARIANTS OverrunByCallsInFlight LastingOnlyByFault
PROPERTIES LockoutsEnd
CHECK_DEADLOCK FALSE
