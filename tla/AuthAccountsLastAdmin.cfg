\* Is the last active administrator kept?  Not when two updates overlap.
SPECIFICATION Spec
CONSTANTS
    ada = ada
    bob = bob
    cleo = cleo
    s1 = s1
    s2 = s2
    s3 = s3
    Users = {ada, bob, cleo}
    Sids = {s1, s2, s3}
    Calls = {c1, c2}
    NoUser = NoUser
    NoSid = NoSid
    NoCall = NoCall
    Unset = Unset
    Kinds = {"update"}
    FirstAccounts <- MCAccounts
    FirstSessions <- MCSessions
SYMMETRY Symmetry
INVARIANTS AnAdminRemains
CHECK_DEADLOCK FALSE
