\* Sessions and accounts: every kind of request, three at a time.
SPECIFICATION Spec
CONSTANTS
    ada = ada
    bob = bob
    cleo = cleo
    s1 = s1
    s2 = s2
    s3 = s3
    Users = {ada, cleo}
    Sids = {s1, s2, s3, s4, s5, s6}
    Calls = {c1, c2, c3}
    NoUser = NoUser
    NoSid = NoSid
    NoCall = NoCall
    Unset = Unset
    Kinds = {"login", "refresh", "logout", "password", "revoke", "register", "create", "update"}
    FirstAccounts <- MCAccounts
    FirstSessions <- MCSessions
SYMMETRY Symmetry
INVARIANTS DeadlockNeedsAction AdminRemainsInTurn
PROPERTIES FamiliesSpec HeldFamilyDies
CHECK_DEADLOCK FALSE
