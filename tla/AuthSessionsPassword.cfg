\* Does a password change revoke every session?  A refresh or login under way survives it.
SPECIFICATION Spec
CONSTANTS
    ada = ada
    bob = bob
    cleo = cleo
    s1 = s1
    s2 = s2
    s3 = s3
    Users = {ada}
    Sids = {s1, s2, s3, s4, s5}
    Calls = {c1, c2}
    NoUser = NoUser
    NoSid = NoSid
    NoCall = NoCall
    Unset = Unset
    Kinds = {"login", "refresh", "password"}
    FirstAccounts <- MCAccounts
    FirstSessions <- MCSessions
SYMMETRY Symmetry
PROPERTIES PasswordChangeRevokesEverySession
CHECK_DEADLOCK FALSE
