---------------------------- MODULE AuthSessions ----------------------------
(***************************************************************************)
(* Accounts and refresh sessions: AuthService, UserService and the session *)
(* revocation of a response action, as concurrent transactions at          *)
(* PostgreSQL's READ COMMITTED.                                            *)
(*                                                                         *)
(* A call is one HTTP request (or one action of the worker) with its own   *)
(* transaction.  Its steps are the reads it makes and the statements that  *)
(* wait for a row lock; what it writes is seen by others at its commit.    *)
(* An UPDATE of many rows takes its snapshot first and then locks the rows *)
(* it saw, in whatever order the plan visits them: rows committed since    *)
(* the snapshot are not among them.                                        *)
(*                                                                         *)
(* Requests refused before they write (wrong password, unknown token, no   *)
(* permission, throttling) leave only an audit row and are left out.       *)
(***************************************************************************)
EXTENDS Naturals, FiniteSets

CONSTANTS Users, Sids, Calls,
          NoUser, NoSid, NoCall, Unset,
          Kinds,             \* the requests that are made: a bound
          FirstAccounts,     \* accounts and sessions at the start
          FirstSessions

Roles == {"admin", "analyst", "viewer"}
AllKinds == {"login", "register", "create", "refresh", "logout", "password",
             "update", "revoke"}

NoAccount == [role |-> "none", active |-> FALSE]
NoSession == [family |-> NoSid, user |-> NoUser, live |-> FALSE]

Accounts == [role : Roles, active : BOOLEAN] \cup {NoAccount}
Sessions == [family : Sids, user : Users, live : BOOLEAN] \cup {NoSession}

\* A UserUpdate; a field may be left out, and full_name is.
Payloads == [role : Roles \cup {Unset}, active : BOOLEAN \cup {Unset}]
NoPayload == [role |-> Unset, active |-> Unset]

\* A table a past of logins, rotations and revocations can leave behind.
WellFormed(table) ==
    /\ table \in [Sids -> Sessions]
    /\ \A s, t \in Sids : table[s].live /\ table[t].live =>
          (table[s].family = table[t].family => s = t)
    /\ \A s \in Sids : LET f == table[s].family IN
           f # NoSid => /\ table[f].family = f
                        /\ table[f].user = table[s].user

ASSUME KindsAssumption == Kinds \subseteq AllKinds
ASSUME NamesAssumption == /\ NoUser \notin Users
                          /\ NoSid \notin Sids
                          /\ NoCall \notin Calls
                          /\ Unset \notin Roles /\ Unset \notin BOOLEAN
ASSUME FirstAssumption == /\ FirstAccounts \in [Users -> Accounts]
                          /\ WellFormed(FirstSessions)

VARIABLES
    account,   \* the users table
    session,   \* the auth_sessions table; live: revoked_at is null
    rowlock,   \* the call that holds the lock of a session row
    userlock,  \* the call that holds the lock of a user row
    kind, pc,  \* of each call
    who,       \* the user it is about
    token,     \* the session whose token it presents
    loaded,    \* the account as an update's session holds it
    payload,   \* what the update asks for
    seen,      \* the rows its UPDATE saw, and those not locked yet
    todo,
    overlapped \* history: two updates were once under way together

locals == <<kind, pc, who, token, loaded, payload>>
rows == <<seen, todo>>
vars == <<account, session, rowlock, userlock, locals, rows, overlapped>>

Init == /\ account = FirstAccounts
        /\ session = FirstSessions
        /\ rowlock = [s \in Sids |-> NoCall]
        /\ userlock = [u \in Users |-> NoCall]
        /\ kind = [c \in Calls |-> "none"]
        /\ pc = [c \in Calls |-> "idle"]
        /\ who = [c \in Calls |-> NoUser]
        /\ token = [c \in Calls |-> NoSid]
        /\ loaded = [c \in Calls |-> NoAccount]
        /\ payload = [c \in Calls |-> NoPayload]
        /\ seen = [c \in Calls |-> {}]
        /\ todo = [c \in Calls |-> {}]
        /\ overlapped = FALSE

Exists(s) == session[s] # NoSession
InFamily(f) == {s \in Sids : session[s].family = f}
OfUser(u) == {s \in Sids : session[s].user = u}
Live(S) == {s \in S : session[s].live}

\* get_current_user and require_permission.  The comparison of iat with
\* credentials_changed_at only refuses more.
Authenticated(u) == account[u].active /\ Live(OfUser(u)) # {}
IsAdmin(u) == Authenticated(u) /\ account[u].role = "admin"

ActiveAdmins == {u \in Users : account[u].active /\ account[u].role = "admin"}

(***************************************************************************)
(* Steps shared by the requests                                            *)
(***************************************************************************)
Begin(c, k, u, at) == /\ k \in Kinds
                      /\ pc[c] = "idle"
                      /\ kind' = [kind EXCEPT ![c] = k]
                      /\ who' = [who EXCEPT ![c] = u]
                      /\ pc' = [pc EXCEPT ![c] = at]

Goto(c, from, to) == /\ pc[c] = from
                     /\ pc' = [pc EXCEPT ![c] = to]
                     /\ UNCHANGED <<kind, who>>

\* What the end of a transaction gives back.
Unlock(c) == /\ rowlock' = [s \in Sids |-> IF rowlock[s] = c THEN NoCall ELSE rowlock[s]]
             /\ userlock' = [u \in Users |-> IF userlock[u] = c THEN NoCall ELSE userlock[u]]

\* An update that has ended no longer holds a copy of the row.
Forget(c) == /\ loaded' = [loaded EXCEPT ![c] = NoAccount]
             /\ payload' = [payload EXCEPT ![c] = NoPayload]

\* A row with a new id; the first of a family names it.
Insert(table, s, f, u) == [table EXCEPT ![s] = [family |-> f, user |-> u, live |-> TRUE]]

Revoked(table, S) ==
    [s \in Sids |-> IF s \in S
                    THEN [family |-> table[s].family, user |-> table[s].user, live |-> FALSE]
                    ELSE table[s]]

(***************************************************************************)
(* Login, registration, creation of an account                             *)
(***************************************************************************)
\* The user is read and the password verified, which takes a while.
VerifyPassword(c, u) ==
    /\ account[u].active
    /\ Begin(c, "login", u, "verified")
    /\ UNCHANGED <<account, session, rowlock, userlock, token, loaded, payload, rows, overlapped>>

\* The session is inserted and last_login_at written, which waits for the user's
\* row; then the commit.  Nothing is read again.
OpenSession(c) ==
    /\ Goto(c, "verified", "ended")
    /\ userlock[who[c]] = NoCall
    /\ \E s \in Sids : /\ ~Exists(s)
                       /\ session' = Insert(session, s, s, who[c])
    /\ UNCHANGED <<account, rowlock, userlock, token, loaded, payload, rows, overlapped>>

\* No account has this address, yet.
FindFree(c, u, k) ==
    /\ account[u] = NoAccount
    /\ k = "create" => \E a \in Users : IsAdmin(a)
    /\ Begin(c, k, u, "free")
    /\ UNCHANGED <<account, session, rowlock, userlock, token, loaded, payload, rows, overlapped>>

\* AuthService.register: the account and its first session, or a violation of
\* the unique address.
SignUp(c) ==
    /\ kind[c] = "register"
    /\ Goto(c, "free", "ended")
    /\ \/ /\ account[who[c]] = NoAccount
          /\ account' = [account EXCEPT ![who[c]] = [role |-> "analyst", active |-> TRUE]]
          /\ \E s \in Sids : /\ ~Exists(s)
                             /\ session' = Insert(session, s, s, who[c])
       \/ /\ account[who[c]] # NoAccount
          /\ UNCHANGED <<account, session>>
    /\ UNCHANGED <<rowlock, userlock, token, loaded, payload, rows, overlapped>>

\* UserService.create.
CreateAccount(c) ==
    /\ kind[c] = "create"
    /\ Goto(c, "free", "ended")
    /\ \/ /\ account[who[c]] = NoAccount
          /\ \E r \in Roles :
                account' = [account EXCEPT ![who[c]] = [role |-> r, active |-> TRUE]]
       \/ /\ account[who[c]] # NoAccount
          /\ UNCHANGED account
    /\ UNCHANGED <<session, rowlock, userlock, token, loaded, payload, rows, overlapped>>

(***************************************************************************)
(* Refresh and logout                                                      *)
(***************************************************************************)
\* Mutant: the row is read without its lock.
LockTokenUnlocked(c, s) == /\ Exists(s)
                           /\ token' = [token EXCEPT ![c] = s]
                           /\ UNCHANGED rowlock

\* SELECT ... FOR UPDATE: waits for the row and reads its latest version.
LockToken(c, s) == /\ Exists(s)
                   /\ rowlock[s] = NoCall
                   /\ rowlock' = [rowlock EXCEPT ![s] = c]
                   /\ token' = [token EXCEPT ![c] = s]

\* A revoked token was used before: its family is to be revoked.
PresentToken(c, s) ==
    /\ LockToken(c, s)
    /\ Begin(c, "refresh", session[s].user, IF session[s].live THEN "holding" ELSE "revoke")
    /\ UNCHANGED <<account, session, userlock, loaded, payload, rows, overlapped>>

\* The user is read; the session may also have expired.
CheckHolder(c) ==
    /\ \/ Goto(c, "holding", "rotating") /\ account[who[c]].active
       \/ Goto(c, "holding", "revoke")
    /\ UNCHANGED <<account, session, rowlock, userlock, token, loaded, payload, rows, overlapped>>

Rotate(c) ==
    /\ Goto(c, "rotating", "ended")
    /\ \E s \in Sids :
          /\ ~Exists(s)
          /\ session' = Insert(Revoked(session, {token[c]}), s,
                               session[token[c]].family, who[c])
    /\ Unlock(c)
    /\ UNCHANGED <<account, token, loaded, payload, rows, overlapped>>

\* Logout does not ask whether the token is still valid.
PresentForLogout(c, s) ==
    /\ LockToken(c, s)
    /\ Begin(c, "logout", session[s].user, "revoke")
    /\ UNCHANGED <<account, session, userlock, loaded, payload, rows, overlapped>>

(***************************************************************************)
(* Password change, account update, revocation by a response action        *)
(***************************************************************************)
VerifyCurrent(c, u) ==
    /\ Authenticated(u)
    /\ Begin(c, "password", u, "revoke")
    /\ UNCHANGED <<account, session, rowlock, userlock, token, loaded, payload, rows, overlapped>>

RevokeForAction(c, u) ==
    /\ account[u] # NoAccount
    /\ Begin(c, "revoke", u, "revoke")
    /\ UNCHANGED <<account, session, rowlock, userlock, token, loaded, payload, rows, overlapped>>

Updating(c) == kind[c] = "update" /\ pc[c] # "ended"

\* An administrator who updates their own account works on the copy that
\* authenticated the request: the session's identity map returns it.
StartUpdate(c, a, u, p) ==
    /\ IsAdmin(a)
    /\ account[u] # NoAccount
    /\ Begin(c, "update", u, IF a = u THEN "checking" ELSE "loading")
    /\ loaded' = [loaded EXCEPT ![c] = account[u]]
    /\ payload' = [payload EXCEPT ![c] = p]
    /\ overlapped' = (overlapped \/ \E d \in Calls : Updating(d))
    /\ UNCHANGED <<account, session, rowlock, userlock, token, rows>>

LoadTarget(c) ==
    /\ Goto(c, "loading", "checking")
    /\ loaded' = [loaded EXCEPT ![c] = account[who[c]]]
    /\ UNCHANGED <<account, session, rowlock, userlock, token, payload, rows, overlapped>>

\* Mutant: deactivation is not taken for a removal.
RemovesAdminByRole(c) == loaded[c].role = "admin" /\ payload[c].role \notin {Unset, "admin"}

RemovesAdmin(c) == /\ loaded[c].role = "admin"
                   /\ payload[c].role \notin {Unset, "admin"} \/ payload[c].active = FALSE

Revokes(c) == payload[c].active = FALSE \/ payload[c].role # Unset

\* active_admin_count, and the decision whether sessions are revoked.
CheckLastAdmin(c) ==
    /\ \/ /\ Goto(c, "checking", "ended")
          /\ RemovesAdmin(c)
          /\ Cardinality(ActiveAdmins) =< 1
          /\ Forget(c)
       \/ /\ RemovesAdmin(c) => Cardinality(ActiveAdmins) > 1
          /\ Goto(c, "checking", IF Revokes(c) THEN "revoke" ELSE "saving")
          /\ UNCHANGED <<loaded, payload>>
    /\ UNCHANGED <<account, session, rowlock, userlock, token, rows, overlapped>>

\* The flush writes the columns whose value differs from the loaded one.
Written(asked, old, now) == IF asked \in {Unset, old} THEN now ELSE asked
Updated(c) ==
    IF kind[c] # "update" THEN account
    ELSE [account EXCEPT ![who[c]] =
            [role |-> Written(payload[c].role, loaded[c].role, @.role),
             active |-> Written(payload[c].active, loaded[c].active, @.active)]]

Save(c) ==
    /\ Goto(c, "saving", "ended")
    /\ userlock[who[c]] = NoCall
    /\ account' = Updated(c)
    /\ Forget(c)
    /\ UNCHANGED <<session, rowlock, userlock, token, rows, overlapped>>

(***************************************************************************)
(* revoke_family and revoke_user                                           *)
(***************************************************************************)
\* Mutant: the id of the session is taken for the id of its family.
ScopeBySession(c) == IF kind[c] \in {"refresh", "logout"}
                     THEN InFamily(token[c])
                     ELSE OfUser(who[c])

Scope(c) == IF kind[c] \in {"refresh", "logout"}
            THEN InFamily(session[token[c]].family)
            ELSE OfUser(who[c])

\* Mutant: a password change revokes the sessions before it writes the user.
WritesUserLate(c) == kind[c] = "update"

\* Pending changes of the user's row are flushed before the UPDATE of the
\* sessions, so a password change and an update hold its lock by then.
WritesUser(c) == kind[c] \in {"password", "update"}

Snapshot(c) ==
    /\ Goto(c, "revoke", "revoking")
    /\ WritesUser(c) => userlock[who[c]] = NoCall
    /\ userlock' = [u \in Users |-> IF WritesUser(c) /\ u = who[c] THEN c ELSE userlock[u]]
    /\ seen' = [seen EXCEPT ![c] = Live(Scope(c))]
    /\ todo' = [todo EXCEPT ![c] = Live(Scope(c))]
    /\ UNCHANGED <<account, session, rowlock, token, loaded, payload, overlapped>>

\* A row that was revoked while the UPDATE waited for it stays locked too.
LockRow(c, s) ==
    /\ pc[c] = "revoking"
    /\ s \in todo[c]
    /\ rowlock[s] \in {NoCall, c}
    /\ rowlock' = [rowlock EXCEPT ![s] = c]
    /\ todo' = [todo EXCEPT ![c] = @ \ {s}]
    /\ UNCHANGED <<account, session, userlock, locals, seen, overlapped>>

CommitRevocation(c) ==
    /\ todo[c] = {}
    /\ Goto(c, "revoking", "ended")
    /\ session' = Revoked(session, seen[c])
    /\ account' = Updated(c)
    /\ seen' = [seen EXCEPT ![c] = {}]
    /\ Unlock(c)
    /\ Forget(c)
    /\ UNCHANGED <<token, todo, overlapped>>

\* The connection is lost, the process ends, or PostgreSQL picks the call to
\* break a deadlock.
Rollback(c) ==
    /\ pc[c] \notin {"idle", "ended"}
    /\ pc' = [pc EXCEPT ![c] = "ended"]
    /\ seen' = [seen EXCEPT ![c] = {}]
    /\ todo' = [todo EXCEPT ![c] = {}]
    /\ Unlock(c)
    /\ Forget(c)
    /\ UNCHANGED <<account, session, kind, who, token, overlapped>>

Next == \E c \in Calls :
    \/ \E u \in Users : \/ VerifyPassword(c, u) \/ VerifyCurrent(c, u)
                        \/ RevokeForAction(c, u)
                        \/ \E k \in {"register", "create"} : FindFree(c, u, k)
                        \/ \E a \in Users, p \in Payloads : StartUpdate(c, a, u, p)
    \/ \E s \in Sids : PresentToken(c, s) \/ PresentForLogout(c, s) \/ LockRow(c, s)
    \/ OpenSession(c) \/ SignUp(c) \/ CreateAccount(c)
    \/ CheckHolder(c) \/ Rotate(c)
    \/ LoadTarget(c) \/ CheckLastAdmin(c) \/ Save(c)
    \/ Snapshot(c) \/ CommitRevocation(c) \/ Rollback(c)

Spec == Init /\ [][Next]_vars

(***************************************************************************)
(* Properties                                                              *)
(***************************************************************************)
TypeOK ==
    /\ account \in [Users -> Accounts]
    /\ session \in [Sids -> Sessions]
    /\ rowlock \in [Sids -> Calls \cup {NoCall}]
    /\ userlock \in [Users -> Calls \cup {NoCall}]
    /\ kind \in [Calls -> AllKinds \cup {"none"}]
    /\ pc \in [Calls -> {"idle", "verified", "free", "holding", "rotating", "loading",
                         "checking", "saving", "revoke", "revoking", "ended"}]
    /\ who \in [Calls -> Users \cup {NoUser}]
    /\ token \in [Calls -> Sids \cup {NoSid}]
    /\ loaded \in [Calls -> Accounts]
    /\ payload \in [Calls -> Payloads]
    /\ seen \in [Calls -> SUBSET Sids]
    /\ todo \in [Calls -> SUBSET Sids]
    /\ overlapped \in BOOLEAN
    /\ \A c \in Calls : pc[c] # "idle" => who[c] \in Users
    /\ \A c \in Calls : pc[c] \in {"holding", "rotating"} => kind[c] = "refresh"
    /\ \A c \in Calls : kind[c] \in {"refresh", "logout"} => token[c] \in Sids /\ Exists(token[c])
    /\ \A c \in Calls : kind[c] = "update" => who[c] \in Users /\ account[who[c]] # NoAccount

\* Rotation exchanges one valid token for one new token, whatever else refreshes,
\* logs out or revokes meanwhile, and no family comes back from the dead.
Families == INSTANCE SessionFamilies
    WITH valid <- [f \in Sids |-> Live(InFamily(f))],
         issued <- {s \in Sids : Exists(s)}
FamiliesSpec == Families!Spec

\* A logout (or a refresh of an expired session or for an inactive user) that
\* holds its family's valid token leaves the family without one: the lock keeps
\* rotations out from its first read to its commit.
HeldFamilyDies ==
    [][\A c \in Calls :
          /\ CommitRevocation(c)
          /\ kind[c] \in {"refresh", "logout"}
          /\ session[token[c]].live
          => \A s \in InFamily(session[token[c]].family) : ~session'[s].live]_vars

\* The last active administrator stays, unless two updates overlapped: the count
\* of administrators is read without a lock.
AdminRemainsInTurn == ~overlapped => ActiveAdmins # {}

\* Calls that wait for each other's session rows in a circle.
WaitsFor(c, d) == d # c /\ \E s \in todo[c] : rowlock[s] = d
Deadlocked(D) == /\ Cardinality(D) > 1
                 /\ \A E \in (SUBSET D) \ {{}, D} :
                       \E c \in E, d \in D \ E : WaitsFor(c, d)

\* Refreshes, logouts, password changes and updates never deadlock among
\* themselves: it takes a revocation that does not lock the user's row first,
\* next to another revocation of the same user.
DeadlockNeedsAction ==
    \A D \in SUBSET Calls : Deadlocked(D) =>
        \E c, d \in D : /\ c # d
                        /\ kind[c] = "revoke"
                        /\ kind[d] \in {"revoke", "password", "update"}
                        /\ who[c] = who[d]

\* "update password and revoke every session" (docs/api/authentication.md): the
\* user has no valid token once a password change is committed.
PasswordChangeRevokesEverySession ==
    [][\A c \in Calls : CommitRevocation(c) /\ kind[c] = "password"
          => \A s \in OfUser(who[c]) : ~session'[s].live]_vars

\* "The last active administrator cannot be removed" (LastAdminError).
AnAdminRemains == ActiveAdmins # {}
=============================================================================
