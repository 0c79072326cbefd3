------------------------- MODULE AuthSessionsProofs -------------------------
(***************************************************************************)
(* Proofs about AuthSessions: for any users, sessions and concurrent calls, *)
(* any requests in use, and any tables to start from.  Types, sessions and *)
(* the families they refine; then the last active administrator, when the  *)
(* updates of accounts come one after another; and which calls can wait    *)
(* for each other's rows in a circle.                                      *)
(***************************************************************************)
EXTENDS AuthSessions, FiniteSetTheorems, TLAPS

USE DEF locals, rows

-----------------------------------------------------------------------------
(* Type correctness.                                                        *)

\* The copy of an ended update is an account and a payload again.
LEMMA ForgetType ==
    ASSUME TypeOK, NEW c \in Calls, Forget(c)
    PROVE  /\ loaded' \in [Calls -> Accounts]
           /\ payload' \in [Calls -> Payloads]
<1>1. NoAccount \in Accounts /\ NoPayload \in Payloads
  BY DEF Accounts, Payloads, NoPayload
<1>2. QED
  BY <1>1 DEF TypeOK, Forget

\* Tables and accounts that are written stay tables and accounts.
LEMMA InsertType ==
    ASSUME NEW table \in [Sids -> Sessions], NEW s \in Sids, NEW f \in Sids, NEW u \in Users
    PROVE  Insert(table, s, f, u) \in [Sids -> Sessions]
  BY DEF Insert, Sessions

\* Revoking rows of a table gives a table.
LEMMA RevokedType ==
    ASSUME NEW table \in [Sids -> Sessions], NEW S \in SUBSET Sids
    PROVE  Revoked(table, S) \in [Sids -> Sessions]
<1> SUFFICES ASSUME NEW s \in Sids
             PROVE  [family |-> table[s].family, user |-> table[s].user, live |-> FALSE]
                       \in Sessions
  BY DEF Revoked
<1>1. CASE table[s] \in [family : Sids, user : Users, live : BOOLEAN]
  BY <1>1 DEF Sessions
<1>2. CASE table[s] = NoSession
  BY <1>2 DEF Sessions, NoSession
<1>3. QED
  BY <1>1, <1>2 DEF Sessions

\* A new account is an account.
LEMMA NewAccountType ==
    ASSUME NEW r \in Roles
    PROVE  /\ [role |-> r, active |-> TRUE] \in Accounts
           /\ [role |-> r, active |-> TRUE] # NoAccount
<1>1. NoAccount.role \notin Roles
  BY DEF NoAccount, Roles
<1>2. QED
  BY <1>1 DEF Accounts

\* A column keeps its value, or takes the one that was asked for.
LEMMA WrittenType ==
    ASSUME NEW T, NEW asked \in T \cup {Unset}, NEW old, NEW now \in T
    PROVE  Written(asked, old, now) \in T
  BY DEF Written

\* What an update writes is an account, and no account disappears.
LEMMA UpdatedType ==
    ASSUME TypeOK, NEW c \in Calls
    PROVE  /\ Updated(c) \in [Users -> Accounts]
           /\ \A u \in Users : account[u] # NoAccount => Updated(c)[u] # NoAccount
<1>1. CASE kind[c] # "update"
  BY <1>1 DEF TypeOK, Updated
<1>2. CASE kind[c] = "update"
  <2>1. who[c] \in Users /\ account[who[c]] \in [role : Roles, active : BOOLEAN]
    BY <1>2 DEF TypeOK, Accounts
  <2>2. payload[c] \in [role : Roles \cup {Unset}, active : BOOLEAN \cup {Unset}]
    BY DEF TypeOK, Payloads
  <2>3. Written(payload[c].role, loaded[c].role, account[who[c]].role) \in Roles
    BY <2>1, <2>2, WrittenType
  <2>4. Written(payload[c].active, loaded[c].active, account[who[c]].active) \in BOOLEAN
    BY <2>1, <2>2, WrittenType
  <2> DEFINE row == [role |-> Written(payload[c].role, loaded[c].role, account[who[c]].role),
                     active |-> Written(payload[c].active, loaded[c].active,
                                        account[who[c]].active)]
  <2>5. row \in Accounts /\ row # NoAccount
    <3>1. row \in [role : Roles, active : BOOLEAN] /\ row.role \in Roles
      BY <2>3, <2>4
    <3>2. NoAccount.role \notin Roles
      BY DEF NoAccount, Roles
    <3>3. QED
      BY <3>1, <3>2 DEF Accounts
  <2>6. Updated(c) = [account EXCEPT ![who[c]] = row]
    BY <1>2 DEF Updated
  <2> HIDE DEF row
  <2>7. QED
    BY <2>1, <2>5, <2>6 DEF TypeOK
<1>3. QED
  BY <1>1, <1>2

\* A row that exists still does after an insert.
LEMMA InsertKeeps ==
    ASSUME NEW table \in [Sids -> Sessions], NEW s \in Sids, NEW f \in Sids, NEW u \in Users
    PROVE  \A t \in Sids : table[t] # NoSession => Insert(table, s, f, u)[t] # NoSession
  BY NamesAssumption DEF Insert, NoSession

\* A row that exists still does when it is revoked.
LEMMA RevokedKeeps ==
    ASSUME NEW table \in [Sids -> Sessions], NEW S \in SUBSET Sids
    PROVE  \A t \in Sids : table[t] # NoSession => Revoked(table, S)[t] # NoSession
  BY NamesAssumption DEF Revoked, NoSession, Sessions

\* A request that starts keeps every variable in its type.
LEMMA StartTypeOK ==
    ASSUME TypeOK, NEW c \in Calls, NEW u \in Users, UNCHANGED token,
           NEW k \in AllKinds \ {"refresh", "logout", "update"},
           NEW at \in {"verified", "free", "revoke"}, Begin(c, k, u, at),
           UNCHANGED <<account, session, rowlock, userlock, loaded, payload, rows, overlapped>>
    PROVE  TypeOK'
  BY DEF TypeOK, Begin, AllKinds, Exists

\* So does a request that presents a token, and locks its row.
LEMMA PresentTypeOK ==
    ASSUME TypeOK, NEW c \in Calls, NEW s \in Sids, LockToken(c, s),
           NEW k \in {"refresh", "logout"}, NEW at \in {"holding", "revoke"},
           at = "holding" => k = "refresh",
           Begin(c, k, session[s].user, at),
           UNCHANGED <<account, session, userlock, loaded, payload, rows, overlapped>>
    PROVE  TypeOK'
<1>1. session[s].user \in Users
  BY DEF TypeOK, LockToken, Exists, Sessions
<1>2. QED
  BY <1>1 DEF TypeOK, LockToken, Begin, AllKinds, Exists

\* The types of what a step may write besides the locals of its call.
Typed == /\ account \in [Users -> Accounts]
         /\ session \in [Sids -> Sessions]
         /\ rowlock \in [Sids -> Calls \cup {NoCall}]
         /\ userlock \in [Users -> Calls \cup {NoCall}]
         /\ loaded \in [Calls -> Accounts]
         /\ payload \in [Calls -> Payloads]
         /\ seen \in [Calls -> SUBSET Sids]
         /\ todo \in [Calls -> SUBSET Sids]

\* Rows are never deleted.
Kept == /\ \A u \in Users : account[u] # NoAccount => account'[u] # NoAccount
        /\ \A s \in Sids : session[s] # NoSession => session'[s] # NoSession

\* So does a step that moves a call on and writes what has the right type.
LEMMA GotoTypeOK ==
    ASSUME TypeOK, NEW c \in Calls, NEW from, from # "idle",
           NEW to \in {"rotating", "checking", "saving", "revoke", "revoking", "ended"},
           to = "rotating" => kind[c] = "refresh",
           Goto(c, from, to), UNCHANGED <<token, overlapped>>,
           Typed', Kept
    PROVE  TypeOK'
  BY DEF TypeOK, Goto, Typed, Kept, Exists

\* So does the end of a transaction: locks are given back.
LEMMA UnlockType ==
    ASSUME TypeOK, NEW c \in Calls, Unlock(c)
    PROVE  /\ rowlock' \in [Sids -> Calls \cup {NoCall}]
           /\ userlock' \in [Users -> Calls \cup {NoCall}]
  BY DEF TypeOK, Unlock

\* A step keeps every variable in its type.
LEMMA StepTypeOK ==
    ASSUME TypeOK, [Next]_vars
    PROVE  TypeOK'
<1>1. CASE UNCHANGED vars
  BY <1>1 DEF TypeOK, vars, Exists
<1> SUFFICES ASSUME NEW c \in Calls, Next PROVE TypeOK'
  BY <1>1 DEF Next
<1> USE NamesAssumption
<1>2. ASSUME NEW d \in Calls, pc[d] # "idle" PROVE who[d] \in Users
  BY <1>2 DEF TypeOK
<1>3. ASSUME NEW d \in Calls, NEW u \in Users, VerifyPassword(d, u) PROVE TypeOK'
  BY <1>3, StartTypeOK DEF VerifyPassword, AllKinds
<1>4. ASSUME NEW d \in Calls, NEW u \in Users, VerifyCurrent(d, u) PROVE TypeOK'
  BY <1>4, StartTypeOK DEF VerifyCurrent, AllKinds
<1>5. ASSUME NEW d \in Calls, NEW u \in Users, RevokeForAction(d, u) PROVE TypeOK'
  BY <1>5, StartTypeOK DEF RevokeForAction, AllKinds
<1>6. ASSUME NEW d \in Calls, NEW u \in Users, NEW k \in {"register", "create"},
             FindFree(d, u, k)
      PROVE  TypeOK'
  BY <1>6, StartTypeOK DEF FindFree, AllKinds
<1>7. ASSUME NEW d \in Calls, NEW a \in Users, NEW u \in Users, NEW p \in Payloads,
             StartUpdate(d, a, u, p)
      PROVE  TypeOK'
  <2>1. account[u] \in Accounts /\ account[u] # NoAccount
    BY <1>7 DEF TypeOK, StartUpdate
  <2>2. overlapped' \in BOOLEAN
    BY <1>7 DEF StartUpdate
  <2>3. QED
    BY <1>7, <2>1, <2>2 DEF TypeOK, StartUpdate, Begin, AllKinds, Exists
<1>8. ASSUME NEW d \in Calls, NEW s \in Sids, PresentToken(d, s) PROVE TypeOK'
  BY <1>8, PresentTypeOK DEF PresentToken
<1>9. ASSUME NEW d \in Calls, NEW s \in Sids, PresentForLogout(d, s) PROVE TypeOK'
  BY <1>9, PresentTypeOK DEF PresentForLogout
<1>10. ASSUME NEW d \in Calls, NEW s \in Sids, LockRow(d, s) PROVE TypeOK'
  BY <1>10 DEF TypeOK, LockRow, Exists
<1>11. ASSUME NEW d \in Calls, OpenSession(d) PROVE TypeOK'
  <2>1. who[d] \in Users
    BY <1>2, <1>11 DEF OpenSession, Goto
  <2>2. PICK s \in Sids : ~Exists(s) /\ session' = Insert(session, s, s, who[d])
    BY <1>11 DEF OpenSession
  <2>3. /\ session' \in [Sids -> Sessions]
        /\ \A t \in Sids : session[t] # NoSession => session'[t] # NoSession
    <3>1. session \in [Sids -> Sessions]
      BY DEF TypeOK
    <3>2. QED
      BY <2>1, <2>2, <3>1, InsertType, InsertKeeps
  <2>4. Typed' /\ Kept
    BY <1>11, <2>3 DEF TypeOK, OpenSession, Typed, Kept
  <2>5. QED
    BY <1>11, <2>4, GotoTypeOK DEF OpenSession
<1>12. ASSUME NEW d \in Calls, SignUp(d) PROVE TypeOK'
  <2>1. who[d] \in Users
    BY <1>2, <1>12 DEF SignUp, Goto
  <2>2. /\ account' \in [Users -> Accounts]
        /\ \A u \in Users : account[u] # NoAccount => account'[u] # NoAccount
    <3> DEFINE fresh == [role |-> "analyst", active |-> TRUE]
    <3>1. account \in [Users -> Accounts]
      BY DEF TypeOK
    <3>2. fresh \in Accounts /\ fresh # NoAccount
      BY NewAccountType DEF Roles
    <3>3. UNCHANGED account \/ account' = [account EXCEPT ![who[d]] = fresh]
      BY <1>12 DEF SignUp
    <3> HIDE DEF fresh
    <3>4. QED
      BY <3>1, <3>2, <3>3
  <2>3. /\ session' \in [Sids -> Sessions]
        /\ \A s \in Sids : session[s] # NoSession => session'[s] # NoSession
    <3>1. CASE UNCHANGED session
      BY <3>1 DEF TypeOK
    <3>2. CASE \E s \in Sids : session' = Insert(session, s, s, who[d])
      <4>1. session \in [Sids -> Sessions]
        BY DEF TypeOK
      <4>2. QED
        BY <2>1, <3>2, <4>1, InsertType, InsertKeeps
    <3>3. QED
      BY <1>12, <3>1, <3>2 DEF SignUp
  <2>4. Typed' /\ Kept
    BY <1>12, <2>2, <2>3 DEF TypeOK, SignUp, Typed, Kept
  <2>5. QED
    BY <1>12, <2>4, GotoTypeOK DEF SignUp
<1>13. ASSUME NEW d \in Calls, CreateAccount(d) PROVE TypeOK'
  <2>1. who[d] \in Users
    BY <1>2, <1>13 DEF CreateAccount, Goto
  <2>2. /\ account' \in [Users -> Accounts]
        /\ \A u \in Users : account[u] # NoAccount => account'[u] # NoAccount
    BY <1>13, <2>1, NewAccountType DEF TypeOK, CreateAccount
  <2>3. Typed' /\ Kept
    BY <1>13, <2>2 DEF TypeOK, CreateAccount, Typed, Kept
  <2>4. QED
    BY <1>13, <2>3, GotoTypeOK DEF CreateAccount
<1>14. ASSUME NEW d \in Calls, CheckHolder(d) PROVE TypeOK'
  <2>1. Typed' /\ Kept
    BY <1>14 DEF TypeOK, CheckHolder, Typed, Kept
  <2>2. kind[d] = "refresh"
    BY <1>14 DEF TypeOK, CheckHolder, Goto
  <2>3. QED
    BY <1>14, <2>1, <2>2, GotoTypeOK DEF CheckHolder
<1>15. ASSUME NEW d \in Calls, Rotate(d) PROVE TypeOK'
  <2>1. who[d] \in Users
    BY <1>2, <1>15 DEF Rotate, Goto
  <2>2. PICK s \in Sids :
           session' = Insert(Revoked(session, {token[d]}), s, session[token[d]].family, who[d])
    BY <1>15 DEF Rotate
  <2>3. token[d] \in Sids /\ session[token[d]].family \in Sids
    BY <1>15 DEF TypeOK, Exists, Sessions, Rotate, Goto
  <2>4. Revoked(session, {token[d]}) \in [Sids -> Sessions]
    BY <2>3, RevokedType DEF TypeOK
  <2>5. \A t \in Sids : session[t] # NoSession => Revoked(session, {token[d]})[t] # NoSession
    BY <2>3, RevokedKeeps DEF TypeOK
  <2>6. /\ session' \in [Sids -> Sessions]
        /\ \A t \in Sids : session[t] # NoSession => session'[t] # NoSession
    BY <2>1, <2>2, <2>3, <2>4, <2>5, InsertType, InsertKeeps
  <2>7. Typed' /\ Kept
    BY <1>15, <2>6, UnlockType DEF TypeOK, Rotate, Typed, Kept
  <2>8. QED
    BY <1>15, <2>7, GotoTypeOK DEF Rotate
<1>16. ASSUME NEW d \in Calls, LoadTarget(d) PROVE TypeOK'
  <2>1. who[d] \in Users
    BY <1>2, <1>16 DEF LoadTarget, Goto
  <2>2. Typed' /\ Kept
    BY <1>16, <2>1 DEF TypeOK, LoadTarget, Typed, Kept
  <2>3. QED
    BY <1>16, <2>2, GotoTypeOK DEF LoadTarget
<1>17. ASSUME NEW d \in Calls, CheckLastAdmin(d) PROVE TypeOK'
  <2>1. Typed' /\ Kept
    <3>1. loaded' \in [Calls -> Accounts] /\ payload' \in [Calls -> Payloads]
      BY <1>17, ForgetType DEF TypeOK, CheckLastAdmin
    <3>2. QED
      BY <1>17, <3>1 DEF TypeOK, CheckLastAdmin, Typed, Kept
  <2>2. QED
    BY <1>17, <2>1, GotoTypeOK DEF CheckLastAdmin
<1>18. ASSUME NEW d \in Calls, account' = Updated(d)
       PROVE  /\ account' \in [Users -> Accounts]
              /\ \A u \in Users : account[u] # NoAccount => account'[u] # NoAccount
  BY <1>18, UpdatedType DEF TypeOK
<1>19. ASSUME NEW d \in Calls, Save(d) PROVE TypeOK'
  <2>1. Typed' /\ Kept
    BY <1>18, <1>19, ForgetType DEF TypeOK, Save, Typed, Kept
  <2>2. QED
    BY <1>19, <2>1, GotoTypeOK DEF Save
<1>20. ASSUME NEW d \in Calls, Snapshot(d) PROVE TypeOK'
  <2>1. Live(Scope(d)) \subseteq Sids
    BY DEF Live, Scope, InFamily, OfUser
  <2>2. userlock' \in [Users -> Calls \cup {NoCall}]
    BY <1>20 DEF TypeOK, Snapshot
  <2>3. Typed' /\ Kept
    BY <1>20, <2>1, <2>2 DEF TypeOK, Snapshot, Typed, Kept
  <2>4. QED
    BY <1>20, <2>3, GotoTypeOK DEF Snapshot
<1>21. ASSUME NEW d \in Calls, CommitRevocation(d) PROVE TypeOK'
  <2>1. seen[d] \in SUBSET Sids
    BY DEF TypeOK
  <2>2. /\ session' \in [Sids -> Sessions]
        /\ \A t \in Sids : session[t] # NoSession => session'[t] # NoSession
    <3>1. session' = Revoked(session, seen[d])
      BY <1>21 DEF CommitRevocation
    <3>2. QED
      BY <2>1, <3>1, RevokedType, RevokedKeeps DEF TypeOK
  <2>3. Typed' /\ Kept
    BY <1>18, <1>21, <2>2, UnlockType, ForgetType DEF TypeOK, CommitRevocation, Typed, Kept
  <2>4. QED
    BY <1>21, <2>3, GotoTypeOK DEF CommitRevocation
<1>22. ASSUME NEW d \in Calls, Rollback(d) PROVE TypeOK'
  BY <1>22, UnlockType, ForgetType DEF TypeOK, Rollback, Exists
<1>23. QED
  BY <1>3, <1>4, <1>5, <1>6, <1>7, <1>8, <1>9, <1>10, <1>11, <1>12, <1>13, <1>14, <1>15,
     <1>16, <1>17, <1>19, <1>20, <1>21, <1>22 DEF Next

\* The program starts with tables of the right type and no call.
LEMMA InitTypeOK == Init => TypeOK
<1>1. NoAccount \in Accounts /\ NoPayload \in Payloads
  BY DEF Accounts, Payloads, NoPayload
<1>2. FirstSessions \in [Sids -> Sessions] /\ FirstAccounts \in [Users -> Accounts]
  BY FirstAssumption DEF WellFormed
<1> SUFFICES ASSUME Init PROVE TypeOK
  OBVIOUS
<1>3. \A c \in Calls : kind[c] = "none" /\ pc[c] = "idle"
  BY DEF Init
<1>4. QED
  BY <1>1, <1>2, <1>3 DEF Init, TypeOK

\* Every variable keeps its type, whatever the calls do.
THEOREM TypeCorrect == Spec => []TypeOK
  BY InitTypeOK, StepTypeOK, PTL DEF Spec

-----------------------------------------------------------------------------
(* Families and locks.                                                      *)

\* A family has one valid token at most.
Sole == \A s, t \in Sids :
            session[s].live /\ session[t].live /\ session[s].family = session[t].family
              => s = t

\* The session that names a family is a member of it.
Named == \A s \in Sids : Exists(s) => session[session[s].family].family = session[s].family

\* A call keeps the row of its token locked, and the rows its UPDATE has passed;
\* a token that is valid when a family is revoked is among the rows to revoke.
Holds(c) ==
    /\ pc[c] \in {"holding", "rotating"} => session[token[c]].live
    /\ kind[c] \in {"refresh", "logout"} /\ pc[c] # "ended" => rowlock[token[c]] = c
    /\ pc[c] # "revoking" => seen[c] = {} /\ todo[c] = {}
    /\ \A s \in seen[c] : s \in todo[c] \/ rowlock[s] = c
    /\ \A s \in seen[c] : Exists(s)
    /\ /\ kind[c] \in {"refresh", "logout"}
       /\ pc[c] = "revoking"
       /\ session[token[c]].live
       => token[c] \in seen[c]

SessionInv == TypeOK /\ Sole /\ Named /\ \A c \in Calls : Holds(c)

\* What a step of call c leaves to the others: their locals, the rows they hold,
\* and the validity of every session whose row c does not hold.
Frame(c) ==
    /\ \A d \in Calls \ {c} : /\ kind'[d] = kind[d]
                              /\ pc'[d] = pc[d]
                              /\ token'[d] = token[d]
                              /\ seen'[d] = seen[d]
                              /\ todo'[d] = todo[d]
    /\ \A s \in Sids : rowlock[s] \in Calls \ {c} => rowlock'[s] = rowlock[s]
    /\ \A s \in Sids : Exists(s) => /\ Exists(s)'
                                    /\ session'[s].family = session[s].family
                                    /\ session'[s].live => session[s].live
                                    /\ rowlock[s] # c => session'[s].live = session[s].live

\* A call keeps what it holds while another makes a step.
LEMMA OthersHold ==
    ASSUME SessionInv, NEW c \in Calls, Frame(c), NEW d \in Calls, d # c
    PROVE  Holds(d)'
<1>1. /\ kind'[d] = kind[d]
      /\ pc'[d] = pc[d]
      /\ token'[d] = token[d]
      /\ seen'[d] = seen[d]
      /\ todo'[d] = todo[d]
  BY DEF Frame
<1>2. Holds(d) /\ seen[d] \subseteq Sids
  BY DEF SessionInv, TypeOK
<1>3. \A s \in Sids : rowlock[s] = d => rowlock'[s] = d
  BY DEF Frame
<1>4. \A s \in seen[d] : Exists(s)'
  BY <1>2 DEF Frame, Holds
<1>5. CASE kind[d] \in {"refresh", "logout"} /\ pc[d] # "ended"
  <2>1. /\ token[d] \in Sids
        /\ Exists(token[d])
        /\ rowlock[token[d]] = d
    BY <1>2, <1>5 DEF SessionInv, TypeOK, Holds
  <2>2. session'[token[d]].live = session[token[d]].live
    BY <2>1 DEF Frame
  <2>3. QED
    BY <1>1, <1>2, <1>3, <1>4, <2>1, <2>2 DEF Holds
<1>6. CASE ~(kind[d] \in {"refresh", "logout"} /\ pc[d] # "ended")
  <2>1. pc[d] \notin {"holding", "rotating"}
    BY <1>6 DEF SessionInv, TypeOK
  <2>2. ~(kind[d] \in {"refresh", "logout"} /\ pc[d] = "revoking")
    BY <1>6
  <2>3. QED
    BY <1>1, <1>2, <1>3, <1>4, <1>6, <2>1, <2>2 DEF Holds
<1>7. QED
  BY <1>5, <1>6

\* A step that leaves the sessions alone keeps the families in order.
LEMMA SameSessions ==
    ASSUME SessionInv, UNCHANGED session
    PROVE  Sole' /\ Named'
  BY DEF SessionInv, Sole, Named, Exists

\* A request that starts without a token.
LEMMA StartKeeps ==
    ASSUME SessionInv, NEW c \in Calls, NEW u,
           NEW k \in AllKinds \ {"refresh", "logout"},
           NEW at \in {"verified", "free", "revoke", "loading", "checking"}, Begin(c, k, u, at),
           UNCHANGED <<session, rowlock, token, rows>>
    PROVE  Frame(c) /\ Holds(c)' /\ Sole' /\ Named'
<1>1. Frame(c)
  BY DEF SessionInv, TypeOK, Frame, Begin, Exists
<1>2. Holds(c)'
  BY DEF SessionInv, TypeOK, Holds, Begin, Exists
<1>3. QED
  BY <1>1, <1>2, SameSessions

\* A request that starts by locking the row of its token.
LEMMA PresentKeeps ==
    ASSUME SessionInv, NEW c \in Calls, NEW s \in Sids, LockToken(c, s),
           NEW k, NEW u, NEW at \in {"holding", "revoke"}, Begin(c, k, u, at),
           at = "holding" => session[s].live,
           UNCHANGED <<session, rows>>
    PROVE  Frame(c) /\ Holds(c)' /\ Sole' /\ Named'
<1>1. Frame(c)
  BY NamesAssumption DEF SessionInv, TypeOK, Frame, Begin, LockToken, Exists
<1>2. Holds(c)'
  BY DEF SessionInv, TypeOK, Holds, Begin, LockToken, Exists
<1>3. QED
  BY <1>1, <1>2, SameSessions

\* A step that moves a call on and touches no session.
LEMMA GotoKeeps ==
    ASSUME SessionInv, NEW c \in Calls, NEW from, from # "idle", from # "revoking",
           NEW to \in {"rotating", "checking", "saving", "revoke", "ended"}, Goto(c, from, to),
           from # "ended",
           to = "rotating" => from = "holding",
           UNCHANGED <<session, rowlock, token, rows>>
    PROVE  Frame(c) /\ Holds(c)' /\ Sole' /\ Named'
<1>1. Frame(c)
  BY DEF SessionInv, TypeOK, Frame, Goto, Exists
<1>2. Holds(c)'
  BY DEF SessionInv, TypeOK, Holds, Goto, Exists
<1>3. QED
  BY <1>1, <1>2, SameSessions

\* Inserting the first session of a new family.
LEMMA OpenKeeps ==
    ASSUME SessionInv, NEW c \in Calls, NEW from, from \in {"verified", "free"},
           Goto(c, from, "ended"), NEW s \in Sids, ~Exists(s), who[c] \in Users,
           session' = Insert(session, s, s, who[c]),
           UNCHANGED <<rowlock, token, rows>>
    PROVE  Frame(c) /\ Holds(c)' /\ Sole' /\ Named'
<1>1. session'[s] = [family |-> s, user |-> who[c], live |-> TRUE]
  BY DEF SessionInv, TypeOK, Insert
<1>2. \A t \in Sids \ {s} : session'[t] = session[t]
  BY DEF SessionInv, TypeOK, Insert
<1>3. \A t \in Sids : session[t].family # s
  <2> SUFFICES ASSUME NEW t \in Sids, session[t].family = s PROVE FALSE
    OBVIOUS
  <2>1. Exists(t)
    BY NamesAssumption DEF Exists, NoSession
  <2>2. session[s].family = s
    BY <2>1 DEF SessionInv, Named
  <2>3. QED
    BY <2>2, NamesAssumption DEF Exists, NoSession
<1>4. Sole'
  BY <1>1, <1>2, <1>3 DEF SessionInv, Sole
<1>5. Named'
  <2> SUFFICES ASSUME NEW t \in Sids, Exists(t)'
               PROVE  session'[session'[t].family].family = session'[t].family
    BY DEF Named
  <2>1. CASE t = s
    BY <1>1, <2>1
  <2>2. CASE t # s
    <3>1. Exists(t) /\ session'[t] = session[t]
      BY <1>2, <2>2 DEF Exists
    <3>2. session[t].family \in Sids \ {s}
      BY <1>3, <3>1 DEF SessionInv, TypeOK, Exists, Sessions
    <3>3. QED
      BY <1>2, <3>1, <3>2 DEF SessionInv, Named
  <2>3. QED
    BY <2>1, <2>2
<1>6. Frame(c)
  BY <1>2 DEF SessionInv, TypeOK, Frame, Goto, Exists
<1>7. Holds(c)'
  BY DEF SessionInv, TypeOK, Holds, Goto, Exists
<1>8. QED
  BY <1>4, <1>5, <1>6, <1>7

\* A call that ends holds nothing, and leaves the locks of the others alone.
LEMMA UnlockKeeps ==
    ASSUME SessionInv, NEW c \in Calls, Unlock(c),
           pc' = [pc EXCEPT ![c] = "ended"],
           seen' = [seen EXCEPT ![c] = {}], todo' = [todo EXCEPT ![c] = {}],
           UNCHANGED <<kind, token>>
    PROVE  /\ Holds(c)'
           /\ \A s \in Sids : rowlock[s] \in Calls \ {c} => rowlock'[s] = rowlock[s]
           /\ \A d \in Calls \ {c} : /\ kind'[d] = kind[d]
                                     /\ pc'[d] = pc[d]
                                     /\ token'[d] = token[d]
                                     /\ seen'[d] = seen[d]
                                     /\ todo'[d] = todo[d]
  BY DEF SessionInv, TypeOK, Unlock, Holds

\* The valid token of a family is exchanged for a new one.
LEMMA RotateKeeps ==
    ASSUME SessionInv, NEW c \in Calls, Rotate(c), who[c] \in Users
    PROVE  Frame(c) /\ Holds(c)' /\ Sole' /\ Named'
<1> DEFINE old == token[c]
<1> DEFINE f == session[old].family
<1>1. PICK s \in Sids :
         ~Exists(s) /\ session' = Insert(Revoked(session, {old}), s, f, who[c])
  BY DEF Rotate
<1>2. /\ kind[c] = "refresh" /\ old \in Sids /\ Exists(old)
      /\ session[old].live /\ rowlock[old] = c
      /\ seen[c] = {} /\ todo[c] = {}
  BY DEF SessionInv, TypeOK, Holds, Rotate, Goto
<1>3. f \in Sids
  BY <1>2 DEF SessionInv, TypeOK, Sessions, Exists
<1>4. old # s
  BY <1>1, <1>2
<1>5. /\ session'[s] = [family |-> f, user |-> who[c], live |-> TRUE]
      /\ session'[old] = [family |-> f, user |-> session[old].user, live |-> FALSE]
      /\ \A t \in Sids \ {s, old} : session'[t] = session[t]
  BY <1>1, <1>2, <1>4 DEF Insert, Revoked
<1>6. \A t \in Sids : Exists(t) => /\ t # s
                                   /\ session'[t].family = session[t].family
                                   /\ Exists(t)'
  <2> SUFFICES ASSUME NEW t \in Sids, Exists(t)
               PROVE  t # s /\ session'[t].family = session[t].family /\ Exists(t)'
    OBVIOUS
  <2>1. t # s
    BY <1>1
  <2>2. CASE t = old
    BY <1>3, <1>5, <2>1, <2>2, NamesAssumption DEF Exists, NoSession
  <2>3. CASE t # old
    BY <1>5, <2>1, <2>3 DEF Exists
  <2>4. QED
    BY <2>1, <2>2, <2>3
<1>7. \A t \in Sids \ {s} : session'[t].live => session[t].live /\ t # old
  BY <1>5
<1>8. \A t \in Sids : session[t].live => Exists(t)
  BY DEF SessionInv, TypeOK, Exists, NoSession
<1>9. Sole'
  <2>1. \A t \in Sids \ {s} : session'[t].live => session'[t].family # f
    BY <1>2, <1>6, <1>7, <1>8 DEF SessionInv, Sole
  <2>2. \A t, w \in Sids \ {s} : session'[t].live /\ session'[w].live
                                   /\ session'[t].family = session'[w].family => t = w
    BY <1>6, <1>7, <1>8 DEF SessionInv, Sole
  <2>3. session'[s].family = f
    BY <1>5
  <2>4. QED
    BY <2>1, <2>2, <2>3 DEF Sole
<1>10. Named'
  <2> SUFFICES ASSUME NEW t \in Sids, Exists(t)'
               PROVE  session'[session'[t].family].family = session'[t].family
    BY DEF Named
  <2>1. PICK w \in Sids : Exists(w) /\ session'[t].family = session[w].family
    <3>1. CASE t = s
      BY <1>2, <1>5, <3>1
    <3>2. CASE t # s
      BY <1>2, <1>5, <1>6, <3>2 DEF Exists
    <3>3. QED
      BY <3>1, <3>2
  <2>2. session[w].family \in Sids /\ session[session[w].family].family = session[w].family
    BY <2>1 DEF SessionInv, TypeOK, Named, Sessions, Exists
  <2>3. Exists(session[w].family)
    BY <2>2, NamesAssumption DEF Exists, NoSession
  <2>4. QED
    BY <1>6, <2>1, <2>2, <2>3
<1>11. seen' = [seen EXCEPT ![c] = {}] /\ todo' = [todo EXCEPT ![c] = {}]
  BY <1>2 DEF SessionInv, TypeOK, Rotate
<1>12. Holds(c)' /\ Frame(c)
  <2>1. \A t \in Sids : Exists(t) => /\ session'[t].live => session[t].live
                                     /\ rowlock[t] # c => session'[t].live = session[t].live
    BY <1>2, <1>5, <1>6
  <2>2. QED
    BY <1>6, <1>11, <2>1, UnlockKeeps DEF Frame, Rotate, Goto
<1>13. QED
  BY <1>9, <1>10, <1>12

\* The UPDATE sees the valid sessions in its scope, that of the token included.
LEMMA SnapshotKeeps ==
    ASSUME SessionInv, NEW c \in Calls, Snapshot(c)
    PROVE  Frame(c) /\ Holds(c)' /\ Sole' /\ Named'
<1>1. Frame(c)
  BY DEF SessionInv, TypeOK, Frame, Snapshot, Goto, Exists
<1>2. /\ pc'[c] = "revoking" /\ kind'[c] = kind[c] /\ token'[c] = token[c]
      /\ seen'[c] = Live(Scope(c)) /\ todo'[c] = Live(Scope(c))
  BY DEF SessionInv, TypeOK, Snapshot, Goto
<1>3. \A s \in Live(Scope(c)) : Exists(s)'
  BY DEF Live, Snapshot, Exists, NoSession
<1>4. kind[c] \in {"refresh", "logout"} =>
         rowlock[token[c]] = c /\ (session[token[c]].live => token[c] \in Live(Scope(c)))
  BY DEF SessionInv, TypeOK, Holds, Snapshot, Goto, Live, Scope, InFamily
<1>5. Holds(c)'
  BY <1>2, <1>3, <1>4 DEF Holds, Snapshot
<1>6. QED
  BY <1>1, <1>5, SameSessions DEF Snapshot

\* The UPDATE locks a row it has seen.
LEMMA LockRowKeeps ==
    ASSUME SessionInv, NEW c \in Calls, NEW s \in Sids, LockRow(c, s)
    PROVE  Frame(c) /\ Holds(c)' /\ Sole' /\ Named'
<1>1. Frame(c)
  BY NamesAssumption DEF SessionInv, TypeOK, Frame, LockRow, Exists
<1>2. Holds(c)'
  BY DEF SessionInv, TypeOK, Holds, LockRow, Exists
<1>3. QED
  BY <1>1, <1>2, SameSessions DEF LockRow

\* The rows that were seen are revoked; the call holds all of them.
LEMMA CommitKeeps ==
    ASSUME SessionInv, NEW c \in Calls, CommitRevocation(c)
    PROVE  Frame(c) /\ Holds(c)' /\ Sole' /\ Named'
<1>1. /\ seen[c] \in SUBSET Sids
      /\ \A s \in seen[c] : rowlock[s] = c /\ Exists(s)
  BY DEF SessionInv, TypeOK, Holds, CommitRevocation
<1>2. \A s \in Sids : session'[s] = IF s \in seen[c]
                                    THEN [family |-> session[s].family,
                                          user |-> session[s].user, live |-> FALSE]
                                    ELSE session[s]
  BY DEF CommitRevocation, Revoked
<1>3. \A s \in Sids : /\ session'[s].family = session[s].family
                      /\ session'[s].live => session[s].live
                      /\ rowlock[s] # c => session'[s].live = session[s].live
  <2> SUFFICES ASSUME NEW s \in Sids
               PROVE  /\ session'[s].family = session[s].family
                      /\ session'[s].live => session[s].live
                      /\ rowlock[s] # c => session'[s].live = session[s].live
    OBVIOUS
  <2>1. CASE s \in seen[c]
    <3>1. rowlock[s] = c
      BY <1>1, <2>1
    <3>2. session'[s] = [family |-> session[s].family, user |-> session[s].user,
                         live |-> FALSE]
      BY <1>2, <2>1
    <3>3. QED
      BY <3>1, <3>2
  <2>2. CASE s \notin seen[c]
    BY <1>2, <2>2
  <2>3. QED
    BY <2>1, <2>2
<1>4. \A s \in Sids : Exists(s) <=> Exists(s)'
  <2>1. \A s \in Sids : Exists(s) <=> session[s].family # NoSid
    BY NamesAssumption DEF SessionInv, TypeOK, Sessions, Exists, NoSession
  <2>2. TypeOK'
    BY StepTypeOK DEF SessionInv, Next
  <2>3. \A s \in Sids : Exists(s)' <=> session'[s].family # NoSid
    BY <2>2, NamesAssumption DEF TypeOK, Sessions, Exists, NoSession
  <2>4. QED
    BY <1>3, <2>1, <2>3
<1>5. Sole'
  BY <1>3 DEF SessionInv, Sole
<1>6. Named'
  <2> SUFFICES ASSUME NEW s \in Sids, Exists(s)'
               PROVE  session'[session'[s].family].family = session'[s].family
    BY DEF Named
  <2>1. Exists(s) /\ session[s].family \in Sids
    BY <1>4 DEF SessionInv, TypeOK, Sessions, Exists
  <2>2. QED
    BY <1>3, <2>1 DEF SessionInv, Named
<1>7. todo' = [todo EXCEPT ![c] = {}]
  BY DEF SessionInv, TypeOK, CommitRevocation
<1>8. Frame(c) /\ Holds(c)'
  BY <1>3, <1>4, <1>7, UnlockKeeps DEF Frame, CommitRevocation, Goto
<1>9. QED
  BY <1>5, <1>6, <1>8

\* A transaction that is rolled back gives its locks back.
LEMMA RollbackKeeps ==
    ASSUME SessionInv, NEW c \in Calls, Rollback(c)
    PROVE  Frame(c) /\ Holds(c)' /\ Sole' /\ Named'
<1>1. Frame(c) /\ Holds(c)'
  BY UnlockKeeps DEF Frame, Rollback, Exists
<1>2. QED
  BY <1>1, SameSessions DEF Rollback

\* Each step is the step of one call that leaves the others what they hold.
LEMMA StepKeeps ==
    ASSUME SessionInv, Next
    PROVE  \E c \in Calls : Frame(c) /\ Holds(c)' /\ Sole' /\ Named'
<1> DEFINE Keeps(c) == Frame(c) /\ Holds(c)' /\ Sole' /\ Named'
<1> USE DEF AllKinds
<1>1. ASSUME NEW c \in Calls, NEW u \in Users, VerifyPassword(c, u) PROVE Keeps(c)
  BY <1>1, StartKeeps DEF VerifyPassword
<1>2. ASSUME NEW c \in Calls, NEW u \in Users, VerifyCurrent(c, u) PROVE Keeps(c)
  BY <1>2, StartKeeps DEF VerifyCurrent
<1>3. ASSUME NEW c \in Calls, NEW u \in Users, RevokeForAction(c, u) PROVE Keeps(c)
  BY <1>3, StartKeeps DEF RevokeForAction
<1>4. ASSUME NEW c \in Calls, NEW u \in Users, NEW k \in {"register", "create"},
             FindFree(c, u, k)
      PROVE  Keeps(c)
  BY <1>4, StartKeeps DEF FindFree
<1>5. ASSUME NEW c \in Calls, NEW a \in Users, NEW u \in Users, NEW p \in Payloads,
             StartUpdate(c, a, u, p)
      PROVE  Keeps(c)
  BY <1>5, StartKeeps DEF StartUpdate
<1>6. ASSUME NEW c \in Calls, NEW s \in Sids, PresentToken(c, s) PROVE Keeps(c)
  BY <1>6, PresentKeeps DEF PresentToken
<1>7. ASSUME NEW c \in Calls, NEW s \in Sids, PresentForLogout(c, s) PROVE Keeps(c)
  BY <1>7, PresentKeeps DEF PresentForLogout
<1>8. ASSUME NEW c \in Calls, pc[c] # "idle" PROVE who[c] \in Users
  BY <1>8 DEF SessionInv, TypeOK
<1>9. ASSUME NEW c \in Calls, OpenSession(c) PROVE Keeps(c)
  BY <1>8, <1>9, OpenKeeps DEF OpenSession, Goto
<1>10. ASSUME NEW c \in Calls, SignUp(c) PROVE Keeps(c)
  <2>1. CASE UNCHANGED session
    BY <1>10, <2>1, GotoKeeps DEF SignUp
  <2>2. CASE \E s \in Sids : ~Exists(s) /\ session' = Insert(session, s, s, who[c])
    BY <1>8, <1>10, <2>2, OpenKeeps DEF SignUp, Goto
  <2>3. QED
    BY <1>10, <2>1, <2>2 DEF SignUp
<1>11. ASSUME NEW c \in Calls, CreateAccount(c) PROVE Keeps(c)
  BY <1>11, GotoKeeps DEF CreateAccount
<1>12. ASSUME NEW c \in Calls, CheckHolder(c) PROVE Keeps(c)
  BY <1>12, GotoKeeps DEF CheckHolder
<1>13. ASSUME NEW c \in Calls, Rotate(c) PROVE Keeps(c)
  BY <1>8, <1>13, RotateKeeps DEF Rotate, Goto
<1>14. ASSUME NEW c \in Calls, LoadTarget(c) PROVE Keeps(c)
  BY <1>14, GotoKeeps DEF LoadTarget
<1>15. ASSUME NEW c \in Calls, CheckLastAdmin(c) PROVE Keeps(c)
  BY <1>15, GotoKeeps DEF CheckLastAdmin
<1>16. ASSUME NEW c \in Calls, Save(c) PROVE Keeps(c)
  BY <1>16, GotoKeeps DEF Save
<1>17. QED
  BY <1>1, <1>2, <1>3, <1>4, <1>5, <1>6, <1>7, <1>9, <1>10, <1>11, <1>12, <1>13, <1>14,
     <1>15, <1>16, SnapshotKeeps, LockRowKeeps, CommitKeeps, RollbackKeeps DEF Next

\* Sessions, families and locks are in order, whatever the calls do.
THEOREM SessionsAlways == Spec => []SessionInv
<1>1. Init => SessionInv
  <2> SUFFICES ASSUME Init PROVE SessionInv
    OBVIOUS
  <2>1. TypeOK
    BY InitTypeOK
  <2>2. Sole
    BY FirstAssumption DEF Init, WellFormed, Sole
  <2>3. Named
    <3> SUFFICES ASSUME NEW s \in Sids, Exists(s)
                 PROVE  session[session[s].family].family = session[s].family
      BY DEF Named
    <3>1. session[s].family # NoSid
      BY <2>1, NamesAssumption DEF TypeOK, Sessions, Exists
    <3>2. QED
      BY <3>1, FirstAssumption DEF Init, WellFormed
  <2>4. \A c \in Calls : Holds(c)
    BY DEF Init, Holds
  <2>5. QED
    BY <2>1, <2>2, <2>3, <2>4 DEF SessionInv
<1>2. SessionInv /\ [Next]_vars => SessionInv'
  <2> SUFFICES ASSUME SessionInv, [Next]_vars PROVE SessionInv'
    OBVIOUS
  <2>1. TypeOK'
    BY StepTypeOK DEF SessionInv
  <2>2. CASE Next
    <3>1. PICK c \in Calls : Frame(c) /\ Holds(c)' /\ Sole' /\ Named'
      BY <2>2, StepKeeps
    <3>2. \A d \in Calls : Holds(d)'
      BY <3>1, OthersHold
    <3>3. QED
      BY <2>1, <3>1, <3>2 DEF SessionInv
  <2>3. CASE UNCHANGED vars
    <3>1. \A c \in Calls : Holds(c)'
      BY <2>3 DEF SessionInv, Holds, Exists, vars
    <3>2. QED
      BY <2>1, <2>3, <3>1, SameSessions DEF SessionInv, vars
  <2>4. QED
    BY <2>2, <2>3
<1>3. QED
  BY <1>1, <1>2, PTL DEF Spec

\* A family has one valid token at most, however refreshes, logouts, password
\* changes and revocations interleave.
THEOREM OneTokenPerFamily == Spec => []Sole
  BY SessionsAlways, PTL DEF SessionInv

\* Whoever revokes a family while holding its valid token leaves it without one.
THEOREM RevokedFamilyIsDead == Spec => HeldFamilyDies
<1> DEFINE Dead(c) == /\ CommitRevocation(c)
                      /\ kind[c] \in {"refresh", "logout"}
                      /\ session[token[c]].live
                      => \A s \in InFamily(session[token[c]].family) : ~session'[s].live
<1>1. SessionInv /\ [Next]_vars => [\A c \in Calls : Dead(c)]_vars
  <2> SUFFICES ASSUME SessionInv, NEW c \in Calls, CommitRevocation(c),
                      kind[c] \in {"refresh", "logout"}, session[token[c]].live,
                      NEW s \in InFamily(session[token[c]].family)
               PROVE  ~session'[s].live
    OBVIOUS
  <2>1. token[c] \in Sids /\ token[c] \in seen[c]
    BY DEF SessionInv, TypeOK, Holds, CommitRevocation, Goto
  <2>2. s \in Sids /\ session[s].family = session[token[c]].family
    BY DEF InFamily
  <2>3. session[s].live => s = token[c]
    BY <2>1, <2>2 DEF SessionInv, Sole
  <2>4. CASE s = token[c]
    <3>1. session'[s] = [family |-> session[s].family, user |-> session[s].user,
                         live |-> FALSE]
      BY <2>1, <2>4 DEF CommitRevocation, Revoked
    <3>2. QED
      BY <3>1
  <2>5. CASE s # token[c]
    <3>1. session'[s] = [family |-> session[s].family, user |-> session[s].user,
                         live |-> FALSE] \/ session'[s] = session[s]
      BY <2>2 DEF CommitRevocation, Revoked
    <3>2. QED
      BY <2>3, <2>5, <3>1
  <2>6. QED
    BY <2>4, <2>5
<1>2. QED
  BY <1>1, SessionsAlways, PTL DEF Spec, HeldFamilyDies, Dead

-----------------------------------------------------------------------------
(* Refinement of SessionFamilies.                                           *)

Valid(f) == Live(InFamily(f))
Issued == {s \in Sids : Exists(s)}

\* What it is to be a valid token of a family.
LEMMA ValidIs ==
    ASSUME NEW f, NEW s
    PROVE  s \in Valid(f) <=> s \in Sids /\ session[s].family = f /\ session[s].live
  BY DEF Valid, Live, InFamily

\* The same after a step.
LEMMA ValidIsNext ==
    ASSUME NEW f, NEW s
    PROVE  s \in Valid(f)' <=> s \in Sids /\ session'[s].family = f /\ session'[s].live
  BY DEF Valid, Live, InFamily

\* The first session of a family begins it.
LEMMA OpenBegins ==
    ASSUME SessionInv, NEW s \in Sids, ~Exists(s), NEW u \in Users,
           session' = Insert(session, s, s, u)
    PROVE  Families!Begin(s)
<1>1. session'[s] = [family |-> s, user |-> u, live |-> TRUE]
  BY DEF SessionInv, TypeOK, Insert
<1>2. \A t \in Sids \ {s} : session'[t] = session[t]
  BY DEF SessionInv, TypeOK, Insert
<1>3. \A t \in Sids : session[t].family # s
  <2> SUFFICES ASSUME NEW t \in Sids, session[t].family = s PROVE FALSE
    OBVIOUS
  <2>1. Exists(t)
    BY NamesAssumption DEF Exists, NoSession
  <2>2. session[s].family = s
    BY <2>1 DEF SessionInv, Named
  <2>3. QED
    BY <2>2, NamesAssumption DEF Exists, NoSession
<1>4. Exists(s)'
  BY <1>1, NamesAssumption DEF Exists, NoSession
<1>5. Issued' = Issued \cup {s}
  BY <1>2, <1>4 DEF Issued, Exists
<1>6. Valid(s)' = {s}
  BY <1>1, <1>2, <1>3, ValidIsNext
<1>7. \A f \in Sids \ {s} : Valid(f)' = Valid(f)
  <2> SUFFICES ASSUME NEW f \in Sids \ {s}, NEW t
               PROVE  t \in Valid(f)' <=> t \in Valid(f)
    OBVIOUS
  <2>1. ~session[s].live
    BY DEF SessionInv, TypeOK, Exists, NoSession
  <2>2. QED
    BY <1>1, <1>2, <2>1, ValidIs, ValidIsNext
<1>8. [f \in Sids |-> Valid(f)'] = [[f \in Sids |-> Valid(f)] EXCEPT ![s] = {s}]
  BY <1>6, <1>7
<1>9. QED
  BY <1>5, <1>8 DEF Families!Begin, Valid, Issued

\* A rotation exchanges the one valid token of its family.
LEMMA RotateRotates ==
    ASSUME SessionInv, NEW c \in Calls, Rotate(c), who[c] \in Users
    PROVE  \E f \in Sids : \E old \in Valid(f), s \in Sids \ Issued : Families!Rotate(f, old, s)
<1>1. PICK old \in Sids : old = token[c] /\ Exists(old) /\ session[old].live
  BY DEF SessionInv, TypeOK, Holds, Rotate, Goto
<1>2. PICK f \in Sids : f = session[old].family
  BY <1>1 DEF SessionInv, TypeOK, Sessions, Exists
<1>3. PICK s \in Sids :
         ~Exists(s) /\ session' = Insert(Revoked(session, {old}), s, f, who[c])
  BY <1>1, <1>2 DEF Rotate
<1>4. old # s
  BY <1>3, <1>1
<1>5. /\ session'[s] = [family |-> f, user |-> who[c], live |-> TRUE]
      /\ session'[old] = [family |-> f, user |-> session[old].user, live |-> FALSE]
      /\ \A t \in Sids \ {s, old} : session'[t] = session[t]
  BY <1>3, <1>1, <1>2, <1>4 DEF Insert, Revoked
<1>6. Valid(f) = {old}
  BY <1>1, <1>2, ValidIs DEF SessionInv, Sole
<1>7. Valid(f)' = {s}
  <2> SUFFICES ASSUME NEW t PROVE t \in Valid(f)' <=> t = s
    OBVIOUS
  <2>1. CASE t = s
    BY <1>5, <2>1, ValidIsNext
  <2>2. CASE t = old
    BY <1>4, <1>5, <2>2, ValidIsNext
  <2>3. CASE t # s /\ t # old
    BY <1>5, <1>6, <2>3, ValidIs, ValidIsNext
  <2>4. QED
    BY <2>1, <2>2, <2>3
<1>8. ~session[s].live
  BY <1>3 DEF SessionInv, TypeOK, Exists, NoSession
<1>9. \A g \in Sids \ {f} : Valid(g)' = Valid(g)
  <2> SUFFICES ASSUME NEW g \in Sids \ {f}, NEW t
               PROVE  t \in Valid(g)' <=> t \in Valid(g)
    OBVIOUS
  <2>1. CASE t = s
    BY <1>5, <1>8, <2>1, ValidIs, ValidIsNext
  <2>2. CASE t = old
    BY <1>2, <1>5, <2>2, ValidIs, ValidIsNext
  <2>3. CASE t # s /\ t # old
    BY <1>5, <2>3, ValidIs, ValidIsNext
  <2>4. QED
    BY <2>1, <2>2, <2>3
<1>10. Issued' = Issued \cup {s}
  <2>1. session'[s].family # NoSid /\ session'[old].family # NoSid
    BY <1>2, <1>5, NamesAssumption
  <2>2. Exists(s)' /\ Exists(old)'
    BY <2>1 DEF Exists, NoSession
  <2> SUFFICES ASSUME NEW t \in Sids PROVE Exists(t)' <=> Exists(t) \/ t = s
    BY DEF Issued
  <2>3. CASE t \in {s, old}
    BY <1>1, <2>2, <2>3
  <2>4. CASE t \notin {s, old}
    BY <1>5, <2>4 DEF Exists
  <2>5. QED
    BY <2>3, <2>4
<1>11. [g \in Sids |-> Valid(g)'] = [[g \in Sids |-> Valid(g)] EXCEPT ![f] = {s}]
  BY <1>7, <1>9
<1>12. s \notin Issued
  BY <1>3 DEF Issued
<1>13. Families!Rotate(f, old, s)
  BY <1>2, <1>6, <1>10, <1>11, <1>12 DEF Families!Rotate, Valid, Issued
<1>14. QED
  BY <1>2, <1>3, <1>6, <1>12, <1>13

\* A revocation ends the families whose valid token it saw.
LEMMA CommitEnds ==
    ASSUME SessionInv, NEW c \in Calls, CommitRevocation(c)
    PROVE  \E F \in SUBSET Families!Live : Families!End(F)
<1> DEFINE F == {f \in Sids : Valid(f) \cap seen[c] # {}}
<1>1. /\ seen[c] \in SUBSET Sids
      /\ \A s \in seen[c] : Exists(s)
  BY DEF SessionInv, TypeOK, Holds
<1>2. \A s \in Sids : session'[s] = IF s \in seen[c]
                                    THEN [family |-> session[s].family,
                                          user |-> session[s].user, live |-> FALSE]
                                    ELSE session[s]
  BY DEF CommitRevocation, Revoked
<1>3. Issued' = Issued
  <2> SUFFICES ASSUME NEW s \in Sids PROVE Exists(s)' <=> Exists(s)
    BY DEF Issued
  <2>1. CASE s \in seen[c]
    <3>1. Exists(s) /\ session[s].family # NoSid
      BY <1>1, <2>1, NamesAssumption DEF SessionInv, TypeOK, Sessions, Exists
    <3>2. session'[s] = [family |-> session[s].family, user |-> session[s].user,
                         live |-> FALSE]
      BY <1>2, <2>1
    <3>3. session'[s].family # NoSid
      BY <3>1, <3>2
    <3>4. QED
      BY <3>1, <3>3 DEF Exists, NoSession
  <2>2. CASE s \notin seen[c]
    BY <1>2, <2>2 DEF Exists
  <2>3. QED
    BY <2>1, <2>2
<1>4. ASSUME NEW f \in Sids, NEW s
      PROVE  s \in Valid(f)' <=> s \in Valid(f) /\ s \notin seen[c]
  <2>1. CASE s \in seen[c]
    <3>1. session'[s] = [family |-> session[s].family, user |-> session[s].user,
                         live |-> FALSE]
      BY <1>1, <1>2, <2>1
    <3>2. s \notin Valid(f)'
      BY <3>1, ValidIsNext
    <3>3. QED
      BY <2>1, <3>2
  <2>2. CASE s \notin seen[c]
    <3>1. s \in Sids => session'[s] = session[s]
      BY <1>2, <2>2
    <3>2. QED
      BY <2>2, <3>1, ValidIs, ValidIsNext
  <2>3. QED
    BY <2>1, <2>2
<1>5. \A f \in Sids : \A s, t \in Valid(f) : s = t
  BY ValidIs DEF SessionInv, Sole
<1>6. \A f \in Sids : Valid(f)' = IF f \in F THEN {} ELSE Valid(f)
  BY <1>4, <1>5
<1>7. F \in SUBSET Families!Live
  BY DEF Families!Live, Valid
<1> HIDE DEF F
<1>8. Families!End(F)
  BY <1>3, <1>6 DEF Families!End, Valid, Issued
<1>9. QED
  BY <1>7, <1>8

\* A step that leaves the sessions alone is a stutter.
LEMMA SameFamilies ==
    ASSUME UNCHANGED session
    PROVE  UNCHANGED Families!vars
  BY DEF Families!vars, Live, InFamily, Exists

\* Every transaction maps to a step of the abstract families or to none.
LEMMA StepRefines ==
    ASSUME SessionInv, [Next]_vars
    PROVE  [Families!Next]_Families!vars
<1>1. CASE UNCHANGED vars
  BY <1>1, SameFamilies DEF vars
<1>2. ASSUME NEW c \in Calls,
             \/ \E u \in Users : \/ VerifyPassword(c, u) \/ VerifyCurrent(c, u)
                                 \/ RevokeForAction(c, u)
                                 \/ \E k \in {"register", "create"} : FindFree(c, u, k)
                                 \/ \E a \in Users, p \in Payloads : StartUpdate(c, a, u, p)
             \/ \E s \in Sids : PresentToken(c, s) \/ PresentForLogout(c, s) \/ LockRow(c, s)
             \/ CreateAccount(c) \/ CheckHolder(c) \/ LoadTarget(c) \/ CheckLastAdmin(c)
             \/ Save(c) \/ Snapshot(c) \/ Rollback(c)
      PROVE  UNCHANGED session
  BY <1>2 DEF VerifyPassword, VerifyCurrent, RevokeForAction, FindFree, StartUpdate,
              PresentToken, PresentForLogout, LockRow, CreateAccount, CheckHolder,
              LoadTarget, CheckLastAdmin, Save, Snapshot, Rollback
<1>3. ASSUME NEW c \in Calls, OpenSession(c) \/ SignUp(c), session' # session
      PROVE  Families!Next
  <2>1. who[c] \in Users
    BY <1>3 DEF SessionInv, TypeOK, OpenSession, SignUp, Goto
  <2>2. PICK s \in Sids : ~Exists(s) /\ session' = Insert(session, s, s, who[c])
    BY <1>3 DEF OpenSession, SignUp
  <2>3. s \in Sids \ Issued
    BY <2>2 DEF Issued
  <2>4. QED
    BY <2>1, <2>2, <2>3, OpenBegins DEF Families!Next, Issued
<1>4. ASSUME NEW c \in Calls, Rotate(c)
      PROVE  Families!Next
  <2>1. who[c] \in Users
    BY <1>4 DEF SessionInv, TypeOK, Rotate, Goto
  <2>2. QED
    BY <1>4, <2>1, RotateRotates DEF Families!Next, Valid, Issued
<1>5. ASSUME NEW c \in Calls, CommitRevocation(c)
      PROVE  Families!Next
  BY <1>5, CommitEnds DEF Families!Next
<1>6. QED
  BY <1>1, <1>2, <1>3, <1>4, <1>5, SameFamilies DEF Next

\* The tables of the start are a state of the abstract families.
LEMMA InitRefines ==
    ASSUME Init
    PROVE  Families!Init
<1>1. /\ session \in [Sids -> Sessions]
      /\ \A s, t \in Sids : session[s].live /\ session[t].live =>
            (session[s].family = session[t].family => s = t)
  BY FirstAssumption DEF Init, WellFormed
<1>2. Issued \in SUBSET Sids
  BY DEF Issued
<1>3. ASSUME NEW f \in Sids
      PROVE  Valid(f) \in {{}} \cup {{s} : s \in Issued}
  <2>1. CASE Valid(f) = {}
    BY <2>1
  <2>2. CASE Valid(f) # {}
    <3>1. PICK s : s \in Valid(f)
      BY <2>2
    <3>2. s \in Sids /\ session[s].family = f /\ session[s].live
      BY <3>1, ValidIs
    <3>3. s \in Issued
      BY <3>2 DEF Issued, Exists, NoSession
    <3>4. \A t \in Valid(f) : t = s
      BY <1>1, <3>2, ValidIs
    <3>5. Valid(f) = {s}
      BY <3>1, <3>4
    <3>6. QED
      BY <3>3, <3>5
  <2>3. QED
    BY <2>1, <2>2
<1>4. [f \in Sids |-> Valid(f)] \in [Sids -> {{}} \cup {{s} : s \in Issued}]
  BY <1>3
<1>5. QED
  BY <1>2, <1>4 DEF Families!Init, Valid, Issued

\* Login, registration, rotation, logout and every revocation, as they interleave,
\* implement the abstract families: one token is exchanged for one, an ended
\* family has no valid token again.
THEOREM KeepsFamilies == Spec => FamiliesSpec
<1>1. Init => Families!Init
  BY InitRefines
<1>2. SessionInv /\ [Next]_vars => [Families!Next]_Families!vars
  BY StepRefines
<1>3. QED
  BY <1>1, <1>2, SessionsAlways, PTL DEF Spec, FamiliesSpec, Families!Spec

-----------------------------------------------------------------------------
(* The last active administrator.                                           *)


\* An update that has passed the check of the last administrator.
Decided(c) == Updating(c) /\ pc[c] \in {"saving", "revoke", "revoking"}

\* The one update under way works on a current copy of its row, and what it has
\* been allowed to take away is not the last administrator.
Turn ==
    /\ ActiveAdmins # {}
    /\ \A c, d \in Calls : Updating(c) /\ Updating(d) => c = d
    /\ \A c \in Calls : Updating(c) /\ pc[c] # "loading" => loaded[c] = account[who[c]]
    /\ \A c \in Calls : Decided(c) /\ RemovesAdmin(c) => ActiveAdmins \ {who[c]} # {}

TurnInv == ~overlapped => Turn

\* What a step does that no update has a part in: accounts that exist stay as
\* they are, and so does every update that is still under way.
Calm ==
    /\ \A u \in Users : account[u] # NoAccount => account'[u] = account[u]
    /\ \A c \in Calls : Updating(c)' =>
          /\ Updating(c)
          /\ pc'[c] # "loading" => pc[c] # "loading"
          /\ Decided(c)' => Decided(c)
          /\ loaded'[c] = loaded[c] /\ payload'[c] = payload[c] /\ who'[c] = who[c]

\* Administrators are accounts that exist.
LEMMA AdminsStay ==
    ASSUME NEW u \in ActiveAdmins, account'[u] = account[u]
    PROVE  u \in ActiveAdmins'
  BY DEF ActiveAdmins

\* A calm step keeps the update under way as safe as it was.
LEMMA CalmKeeps ==
    ASSUME TypeOK, Turn, Calm
    PROVE  Turn'
<1>1. \A u \in ActiveAdmins : u \in ActiveAdmins'
  <2> SUFFICES ASSUME NEW u \in ActiveAdmins PROVE account'[u] = account[u]
    BY AdminsStay
  <2>1. account[u] # NoAccount
    BY DEF ActiveAdmins, NoAccount
  <2>2. QED
    BY <2>1 DEF Calm, ActiveAdmins
<1>2. ASSUME NEW c \in Calls, Updating(c)'
      PROVE  /\ who[c] \in Users /\ account'[who'[c]] = account[who[c]]
             /\ RemovesAdmin(c)' <=> RemovesAdmin(c)
  <2>1. who[c] \in Users /\ account[who[c]] # NoAccount
    BY <1>2 DEF Calm, Updating, TypeOK
  <2>2. QED
    BY <1>2, <2>1 DEF Calm, RemovesAdmin
<1>3. ActiveAdmins' # {}
  BY <1>1 DEF Turn
<1>4. \A c, d \in Calls : Updating(c)' /\ Updating(d)' => c = d
  BY DEF Turn, Calm
<1>5. \A c \in Calls : Updating(c)' /\ pc'[c] # "loading" => loaded'[c] = account'[who'[c]]
  BY <1>2 DEF Turn, Calm
<1>6. \A c \in Calls : Decided(c)' /\ RemovesAdmin(c)' => ActiveAdmins' \ {who'[c]} # {}
  <2> SUFFICES ASSUME NEW c \in Calls, Decided(c)', RemovesAdmin(c)'
               PROVE  ActiveAdmins' \ {who'[c]} # {}
    OBVIOUS
  <2>1. Updating(c)'
    BY DEF Decided
  <2>2. Decided(c) /\ RemovesAdmin(c) /\ who'[c] = who[c]
    BY <1>2, <2>1 DEF Calm
  <2>3. ActiveAdmins \ {who[c]} # {}
    BY <2>2 DEF Turn
  <2>4. QED
    BY <1>1, <2>2, <2>3
<1>7. QED
  BY <1>3, <1>4, <1>5, <1>6 DEF Turn

\* The count of administrators decides: with more than one, another remains.
LEMMA AnotherRemains ==
    ASSUME Cardinality(ActiveAdmins) > 1, NEW u
    PROVE  ActiveAdmins \ {u} # {}
<1> SUFFICES ASSUME ActiveAdmins \ {u} = {} PROVE FALSE
  OBVIOUS
<1>1. ActiveAdmins = {} \/ ActiveAdmins = {u}
  OBVIOUS
<1>2. Cardinality({}) = 0 /\ Cardinality({u}) = 1
  BY FS_EmptySet, FS_Singleton
<1>3. QED
  BY <1>1, <1>2

\* What a safe update writes leaves an administrator.
LEMMA WriteLeavesAdmin ==
    ASSUME TypeOK, Turn, NEW c \in Calls, Decided(c), account' = Updated(c)
    PROVE  ActiveAdmins' # {}
<1>1. kind[c] = "update" /\ who[c] \in Users /\ loaded[c] = account[who[c]]
  BY DEF Turn, TypeOK, Decided, Updating
<1>2. \A u \in Users \ {who[c]} : account'[u] = account[u]
  BY <1>1 DEF TypeOK, Updated
<1>3. CASE RemovesAdmin(c)
  <2>1. PICK u \in ActiveAdmins : u # who[c]
    BY <1>3 DEF Turn
  <2>2. QED
    BY <1>2, <2>1, AdminsStay DEF ActiveAdmins
<1>4. CASE ~RemovesAdmin(c)
  <2>1. PICK u \in ActiveAdmins : TRUE
    BY DEF Turn
  <2>2. CASE u # who[c]
    BY <1>2, <2>2, AdminsStay DEF ActiveAdmins
  <2>3. CASE u = who[c]
    <3>1. account[u].role = "admin" /\ account[u].active
      BY DEF ActiveAdmins
    <3>2. payload[c].role \in {Unset, "admin"} /\ payload[c].active # FALSE
      BY <1>1, <1>4, <2>3, <3>1 DEF RemovesAdmin
    <3>3. payload[c].active \in BOOLEAN \cup {Unset} /\ account[u].active \in BOOLEAN
      <4>1. payload[c] \in Payloads /\ account[u] \in Accounts
        BY DEF TypeOK, ActiveAdmins
      <4>2. payload[c].active \in BOOLEAN \cup {Unset}
        BY <4>1 DEF Payloads
      <4>3. account[u] \in [role : Roles, active : BOOLEAN]
        BY <3>1, <4>1 DEF Accounts, NoAccount
      <4>4. account[u].active \in BOOLEAN
        BY <4>3
      <4>5. QED
        BY <4>2, <4>4
    <3>4. payload[c].active \in {Unset, account[u].active}
      BY <3>1, <3>2, <3>3
    <3>5. account'[u] = [role |-> account[u].role, active |-> account[u].active]
      BY <1>1, <2>3, <3>1, <3>2, <3>4 DEF TypeOK, Updated, Written
    <3>6. account'[u].role = "admin" /\ account'[u].active
      BY <3>1, <3>5
    <3>7. QED
      BY <3>6 DEF ActiveAdmins
  <2>4. QED
    BY <2>2, <2>3
<1>5. QED
  BY <1>3, <1>4

\* An update that writes its row was the only one, and has ended.
LEMMA WriteKeeps ==
    ASSUME TypeOK, Turn, NEW c \in Calls, NEW from \in {"saving", "revoking"},
           Goto(c, from, "ended"), account' = Updated(c),
           \A d \in Calls \ {c} : loaded'[d] = loaded[d] /\ payload'[d] = payload[d]
    PROVE  Turn'
<1>1. pc[c] = from /\ pc'[c] = "ended" /\ UNCHANGED <<kind, who>>
      /\ \A d \in Calls \ {c} : pc'[d] = pc[d]
  BY DEF Goto, TypeOK
<1>2. CASE kind[c] # "update"
  <2>1. account' = account
    BY <1>2 DEF Updated
  <2>2. Calm
    BY <1>1, <1>2, <2>1 DEF Calm, Updating, Decided
  <2>3. QED
    BY <2>2, CalmKeeps
<1>3. CASE kind[c] = "update"
  <2>1. Decided(c) /\ Updating(c)
    BY <1>1, <1>3 DEF Decided, Updating
  <2>2. \A d \in Calls : ~Updating(d)'
    BY <1>1, <2>1 DEF Turn, Updating
  <2>3. QED
    BY <2>1, <2>2, WriteLeavesAdmin DEF Turn, Decided
<1>4. QED
  BY <1>2, <1>3

\* The end of an update does not touch the copies of the others.
LEMMA ForgetOthers ==
    ASSUME TypeOK, NEW c \in Calls, Forget(c)
    PROVE  \A d \in Calls \ {c} : loaded'[d] = loaded[d] /\ payload'[d] = payload[d]
  BY DEF TypeOK, Forget

\* An update that starts alone.
LEMMA StartIsTurn ==
    ASSUME TypeOK, Turn, NEW c \in Calls, NEW a \in Users, NEW u \in Users, NEW p \in Payloads,
           StartUpdate(c, a, u, p), ~overlapped'
    PROVE  Turn'
<1>1. \A d \in Calls : ~Updating(d)
  BY DEF StartUpdate
<1>2. \A d \in Calls : Updating(d)' => d = c
  BY <1>1 DEF StartUpdate, Begin, Updating, TypeOK
<1>3. loaded'[c] = account[u] /\ who'[c] = u /\ pc'[c] \in {"checking", "loading"}
  BY DEF StartUpdate, Begin, TypeOK
<1>4. ActiveAdmins' # {} /\ account' = account
  BY DEF StartUpdate, Turn, ActiveAdmins
<1>5. QED
  BY <1>2, <1>3, <1>4 DEF Turn, Decided

\* An update that reads its row.
LEMMA LoadIsTurn ==
    ASSUME TypeOK, Turn, NEW c \in Calls, LoadTarget(c)
    PROVE  Turn'
<1>1. /\ pc[c] = "loading" /\ pc'[c] = "checking" /\ UNCHANGED <<kind, who, account, payload>>
      /\ loaded'[c] = account[who[c]]
      /\ \A d \in Calls \ {c} : pc'[d] = pc[d] /\ loaded'[d] = loaded[d]
  BY DEF LoadTarget, Goto, TypeOK
<1>2. \A d \in Calls : Updating(d)' <=> Updating(d)
  BY <1>1 DEF Updating
<1>3. \A d \in Calls : Decided(d)' => Decided(d) /\ d # c
  BY <1>1, <1>2 DEF Decided
<1>4. ActiveAdmins' = ActiveAdmins
  BY <1>1 DEF ActiveAdmins
<1>5. \A d \in Calls : Decided(d)' /\ RemovesAdmin(d)' => ActiveAdmins' \ {who'[d]} # {}
  BY <1>1, <1>3, <1>4 DEF Turn, RemovesAdmin
<1>6. \A d \in Calls : Updating(d)' /\ pc'[d] # "loading" => loaded'[d] = account'[who'[d]]
  BY <1>1, <1>2 DEF Turn
<1>7. QED
  BY <1>2, <1>4, <1>5, <1>6 DEF Turn

\* An update that counts the administrators.
LEMMA CheckIsTurn ==
    ASSUME TypeOK, Turn, NEW c \in Calls, CheckLastAdmin(c)
    PROVE  Turn'
<1>1. /\ pc[c] = "checking" /\ UNCHANGED <<kind, who, account>>
      /\ \A d \in Calls \ {c} : pc'[d] = pc[d] /\ loaded'[d] = loaded[d] /\ payload'[d] = payload[d]
  BY ForgetOthers DEF CheckLastAdmin, Goto, TypeOK
<1>2. CASE pc'[c] = "ended"
  <2>1. Calm
    BY <1>1, <1>2 DEF Calm, Updating, Decided
  <2>2. QED
    BY <2>1, CalmKeeps
<1>3. CASE pc'[c] # "ended"
  <2>1. /\ pc'[c] \in {"revoke", "saving"} /\ UNCHANGED <<loaded, payload>>
        /\ RemovesAdmin(c) => Cardinality(ActiveAdmins) > 1
    BY <1>3 DEF CheckLastAdmin, Goto, TypeOK
  <2>2. \A d \in Calls : Updating(d)' <=> Updating(d)
    BY <1>1, <2>1 DEF Updating
  <2>3. ActiveAdmins' = ActiveAdmins /\ \A d \in Calls : RemovesAdmin(d)' <=> RemovesAdmin(d)
    BY <1>1, <2>1 DEF ActiveAdmins, RemovesAdmin
  <2>4. ASSUME NEW d \in Calls, Decided(d)', RemovesAdmin(d)
        PROVE  ActiveAdmins \ {who[d]} # {}
    <3>1. CASE d = c
      BY <2>1, <2>4, <3>1, AnotherRemains
    <3>2. CASE d # c
      BY <1>1, <2>4, <3>2 DEF Turn, Decided, Updating
    <3>3. QED
      BY <3>1, <3>2
  <2>5. \A d \in Calls : Updating(d)' /\ pc'[d] # "loading" => loaded'[d] = account'[who'[d]]
    BY <1>1, <2>1, <2>2 DEF Turn
  <2>6. QED
    BY <1>1, <2>2, <2>3, <2>4, <2>5 DEF Turn
<1>4. QED
  BY <1>2, <1>3

\* A request that starts is no update, and what ends is none any more.
LEMMA OtherIsCalm ==
    ASSUME TypeOK, NEW c \in Calls,
           \A u \in Users : account[u] # NoAccount => account'[u] = account[u],
           \A d \in Calls \ {c} : /\ kind'[d] = kind[d] /\ pc'[d] = pc[d] /\ who'[d] = who[d]
                                  /\ loaded'[d] = loaded[d] /\ payload'[d] = payload[d],
           \/ kind'[c] # "update"
           \/ pc'[c] = "ended"
           \/ /\ pc[c] = "revoke" /\ pc'[c] = "revoking"
              /\ UNCHANGED <<kind, who, loaded, payload>>
           \/ UNCHANGED <<kind, pc, who, loaded, payload>>
    PROVE  Calm
  BY DEF Calm, Updating, Decided

\* A step keeps the one update under way safe, as long as it is the one.
LEMMA StepTurn ==
    ASSUME TypeOK, TurnInv, [Next]_vars
    PROVE  TurnInv'
<1> SUFFICES ASSUME ~overlapped' PROVE Turn'
  BY DEF TurnInv
<1>1. CASE UNCHANGED vars
  <2>1. Calm /\ Turn
    BY <1>1 DEF vars, locals, TurnInv, Calm, Updating, Decided
  <2>2. QED
    BY <2>1, CalmKeeps
<1> SUFFICES ASSUME Next PROVE Turn'
  BY <1>1
<1>2. ~overlapped
  <2> SUFFICES overlapped' = overlapped \/ overlapped' = TRUE \/ ~overlapped
    OBVIOUS
  <2>1. ASSUME NEW c \in Calls, NEW u \in Users,
               \/ VerifyPassword(c, u) \/ VerifyCurrent(c, u) \/ RevokeForAction(c, u)
               \/ \E k \in {"register", "create"} : FindFree(c, u, k)
        PROVE  overlapped' = overlapped
    BY <2>1 DEF VerifyPassword, VerifyCurrent, RevokeForAction, FindFree
  <2>2. ASSUME NEW c \in Calls, NEW a \in Users, NEW u \in Users, NEW p \in Payloads,
               StartUpdate(c, a, u, p)
        PROVE  ~overlapped
    BY <2>2 DEF StartUpdate
  <2>3. ASSUME NEW c \in Calls, NEW s \in Sids,
               PresentToken(c, s) \/ PresentForLogout(c, s) \/ LockRow(c, s)
        PROVE  overlapped' = overlapped
    BY <2>3 DEF PresentToken, PresentForLogout, LockRow
  <2>4. ASSUME NEW c \in Calls,
               \/ OpenSession(c) \/ SignUp(c) \/ CreateAccount(c) \/ CheckHolder(c)
               \/ Rotate(c) \/ LoadTarget(c) \/ CheckLastAdmin(c)
        PROVE  overlapped' = overlapped
    BY <2>4 DEF OpenSession, SignUp, CreateAccount, CheckHolder, Rotate, LoadTarget,
                CheckLastAdmin
  <2>5. ASSUME NEW c \in Calls, Save(c) \/ Snapshot(c) \/ CommitRevocation(c) \/ Rollback(c)
        PROVE  overlapped' = overlapped
    BY <2>5 DEF Save, Snapshot, CommitRevocation, Rollback
  <2>6. QED
    BY <2>1, <2>2, <2>3, <2>4, <2>5 DEF Next
<1>3. Turn
  BY <1>2 DEF TurnInv
<1>4. ASSUME NEW c \in Calls, NEW u \in Users,
             \/ VerifyPassword(c, u) \/ VerifyCurrent(c, u) \/ RevokeForAction(c, u)
             \/ \E k \in {"register", "create"} : FindFree(c, u, k)
      PROVE  Calm
  BY <1>4, OtherIsCalm DEF VerifyPassword, VerifyCurrent, RevokeForAction, FindFree, Begin, TypeOK
<1>5. ASSUME NEW c \in Calls, NEW s \in Sids, PresentToken(c, s) \/ PresentForLogout(c, s)
      PROVE  Calm
  BY <1>5, OtherIsCalm DEF PresentToken, PresentForLogout, Begin, TypeOK
<1>6. ASSUME NEW c \in Calls, NEW s \in Sids, LockRow(c, s)
      PROVE  Calm
  BY <1>6, OtherIsCalm DEF LockRow, locals
<1>7. ASSUME NEW c \in Calls, OpenSession(c) \/ Rotate(c) \/ Snapshot(c)
      PROVE  Calm
  BY <1>7, OtherIsCalm DEF OpenSession, Rotate, Snapshot, Goto, TypeOK
<1>8. ASSUME NEW c \in Calls, SignUp(c) \/ CreateAccount(c)
      PROVE  Calm
  <2>1. \A u \in Users : account[u] # NoAccount => account'[u] = account[u]
    BY <1>8 DEF SignUp, CreateAccount, TypeOK
  <2>2. QED
    BY <1>8, <2>1, OtherIsCalm DEF SignUp, CreateAccount, Goto, TypeOK
<1>9. ASSUME NEW c \in Calls, CheckHolder(c)
      PROVE  Calm
  BY <1>9, OtherIsCalm DEF CheckHolder, Goto, TypeOK
<1>10. ASSUME NEW c \in Calls, Rollback(c)
       PROVE  Calm
  BY <1>10, OtherIsCalm, ForgetOthers DEF Rollback, TypeOK
<1>11. ASSUME NEW c \in Calls, Save(c) \/ CommitRevocation(c)
       PROVE  Turn'
  <2>1. \A d \in Calls \ {c} : loaded'[d] = loaded[d] /\ payload'[d] = payload[d]
    BY <1>11, ForgetOthers DEF Save, CommitRevocation
  <2>2. CASE Save(c)
    BY <1>3, <2>1, <2>2, WriteKeeps DEF Save
  <2>3. CASE CommitRevocation(c)
    BY <1>3, <2>1, <2>3, WriteKeeps DEF CommitRevocation
  <2>4. QED
    BY <1>11, <2>2, <2>3
<1>12. ASSUME NEW c \in Calls, NEW a \in Users, NEW u \in Users, NEW p \in Payloads,
              StartUpdate(c, a, u, p)
       PROVE  Turn'
  BY <1>3, <1>12, StartIsTurn
<1>13. ASSUME NEW c \in Calls, LoadTarget(c) \/ CheckLastAdmin(c)
       PROVE  Turn'
  BY <1>3, <1>13, LoadIsTurn, CheckIsTurn
<1>14. Calm => Turn'
  BY <1>3, CalmKeeps
<1>15. QED
  BY <1>4, <1>5, <1>6, <1>7, <1>8, <1>9, <1>10, <1>11, <1>12, <1>13, <1>14 DEF Next

\* Where there is an active administrator at first there always is one, as long as no
\* two updates are under way together: the count that the check reads is then still
\* true when the update is committed.
THEOREM AnAdminRemainsInTurn ==
    ASSUME \E u \in Users : FirstAccounts[u].active /\ FirstAccounts[u].role = "admin"
    PROVE  Spec => []AdminRemainsInTurn
<1>1. Init => TurnInv
  <2> SUFFICES ASSUME Init PROVE Turn
    BY DEF TurnInv
  <2>1. ActiveAdmins # {}
    BY DEF Init, ActiveAdmins
  <2>2. \A c \in Calls : kind[c] = "none"
    BY DEF Init
  <2>3. QED
    BY <2>1, <2>2 DEF Turn, Updating, Decided
<1>2. TypeOK /\ TurnInv /\ [Next]_vars => TurnInv'
  BY StepTurn
<1>3. TurnInv => AdminRemainsInTurn
  BY DEF TurnInv, Turn, AdminRemainsInTurn
<1>4. QED
  BY <1>1, <1>2, <1>3, TypeCorrect, PTL DEF Spec

-----------------------------------------------------------------------------
(* Waiting for session rows in a circle.                                    *)

OfToken(c) == kind[c] \in {"refresh", "logout"}

\* A replay or a logout whose token is not the valid one of its family: its UPDATE
\* locks a row besides that of its token.
Blocked(c) == OfToken(c) /\ pc[c] = "revoking" /\ token[c] \notin seen[c]

\* The sessions of a family belong to one user.
OneUser == \A s \in Sids : Exists(s) => session[session[s].family].user = session[s].user

\* What a call has locked, and what it waits for, is within the scope of its UPDATE.
Scoped(c) ==
    /\ pc[c] = "idle" => kind[c] = "none"
    /\ pc[c] \in {"loading", "checking", "saving", "revoke", "revoking"} =>
          OfToken(c) \/ kind[c] \in {"password", "update", "revoke"}
    /\ OfToken(c) => who[c] = session[token[c]].user
    /\ \A s \in Sids : rowlock[s] = c => (OfToken(c) /\ s = token[c]) \/ s \in seen[c] \ todo[c]
    /\ todo[c] \subseteq seen[c]
    /\ \A s, t \in seen[c] : session[s].family = session[t].family => s = t
    /\ \A s \in seen[c] : /\ session[s].user = who[c]
                          /\ OfToken(c) => session[s].family = session[token[c]].family
    /\ pc[c] = "revoking" /\ WritesUser(c) => userlock[who[c]] = c
    /\ Blocked(c) => ~session[token[c]].live

\* Calls of this kind wait for tokens younger than their own: in every set of them
\* there is one that waits for no other.
Chain == \A D \in SUBSET Calls : D # {} /\ (\A c \in D : Blocked(c)) =>
            \E c \in D : \A d \in D : token[d] \notin todo[c]

WaitInv == SessionInv /\ OneUser /\ (\A c \in Calls : Scoped(c)) /\ Chain

-----------------------------------------------------------------------------
(* Steps.                                                                   *)

\* What the tables keep in every step.
RowsStay == \A s \in Sids : Exists(s) => /\ Exists(s)'
                                         /\ session'[s].family = session[s].family
                                         /\ session'[s].user = session[s].user
                                         /\ session'[s].live => session[s].live

\* What a step of call c leaves to the others.
Apart(c) ==
    /\ \A d \in Calls \ {c} :
          /\ kind'[d] = kind[d] /\ pc'[d] = pc[d] /\ who'[d] = who[d]
          /\ token'[d] = token[d] /\ seen'[d] = seen[d] /\ todo'[d] = todo[d]
    /\ \A s \in Sids : rowlock'[s] \in Calls \ {c} => rowlock[s] = rowlock'[s]
    /\ \A u \in Users : userlock[u] \in Calls \ {c} => userlock'[u] = userlock[u]
    /\ RowsStay

\* A step after which no UPDATE waits for more than before.
NoWider == \A d \in Calls : Blocked(d)' =>
              Blocked(d) /\ todo'[d] \subseteq todo[d] /\ token'[d] = token[d]

\* Another call stays within its scope.
LEMMA OthersScoped ==
    ASSUME WaitInv, NEW c \in Calls, Apart(c), NEW d \in Calls, d # c
    PROVE  Scoped(d)'
<1>1. Scoped(d) /\ Holds(d) /\ seen[d] \subseteq Sids
  BY DEF WaitInv, SessionInv, TypeOK
<1>2. /\ kind'[d] = kind[d] /\ pc'[d] = pc[d] /\ who'[d] = who[d]
      /\ token'[d] = token[d] /\ seen'[d] = seen[d] /\ todo'[d] = todo[d]
      /\ OfToken(d)' <=> OfToken(d)
  BY DEF Apart, OfToken
<1>3. \A s \in seen[d] : session'[s].family = session[s].family /\ session'[s].user = session[s].user
  BY <1>1 DEF Apart, RowsStay, Holds
<1>4. OfToken(d) => /\ session'[token[d]].family = session[token[d]].family
                    /\ session'[token[d]].user = session[token[d]].user
                    /\ session'[token[d]].live => session[token[d]].live
  BY DEF WaitInv, SessionInv, TypeOK, OfToken, Apart, RowsStay
<1>5. \A s \in Sids : rowlock'[s] = d => rowlock[s] = d
  BY DEF Apart
<1>6. pc[d] = "revoking" /\ WritesUser(d) => userlock'[who[d]] = d
  BY <1>1 DEF WaitInv, SessionInv, TypeOK, Apart, Scoped
<1>7. Blocked(d)' => Blocked(d)
  BY <1>2 DEF Blocked
<1>8. \A s \in Sids : rowlock'[s] = d =>
         (OfToken(d)' /\ s = token'[d]) \/ s \in seen'[d] \ todo'[d]
  BY <1>1, <1>2, <1>5 DEF Scoped
<1>9. \A s, t \in seen'[d] : session'[s].family = session'[t].family => s = t
  BY <1>1, <1>2, <1>3 DEF Scoped
<1>10. \A s \in seen'[d] : /\ session'[s].user = who'[d]
                           /\ OfToken(d)' => session'[s].family = session'[token'[d]].family
  BY <1>1, <1>2, <1>3, <1>4 DEF Scoped
<1>11. /\ pc'[d] = "idle" => kind'[d] = "none"
       /\ pc'[d] \in {"loading", "checking", "saving", "revoke", "revoking"} =>
             OfToken(d)' \/ kind'[d] \in {"password", "update", "revoke"}
       /\ OfToken(d)' => who'[d] = session'[token'[d]].user
       /\ todo'[d] \subseteq seen'[d]
       /\ Blocked(d)' => ~session'[token'[d]].live
  BY <1>1, <1>2, <1>4, <1>7 DEF Scoped, Blocked
<1>12. pc'[d] = "revoking" /\ WritesUser(d)' => userlock'[who'[d]] = d
  BY <1>2, <1>6 DEF WritesUser
<1>13. QED
  BY <1>8, <1>9, <1>10, <1>11, <1>12 DEF Scoped

\* Rows that stay keep their users; a new one has to fit into its family.
LEMMA OneUserStays ==
    ASSUME WaitInv, RowsStay,
           \A s \in Sids : ~Exists(s) /\ Exists(s)' =>
              session'[session'[s].family].user = session'[s].user
    PROVE  OneUser'
<1> SUFFICES ASSUME NEW s \in Sids, Exists(s)
             PROVE  session'[session'[s].family].user = session'[s].user
  BY DEF OneUser
<1>1. session[s].family \in Sids
  BY DEF WaitInv, SessionInv, TypeOK, Sessions, Exists
<1>2. Exists(session[s].family)
  BY <1>1, NamesAssumption DEF WaitInv, SessionInv, Named, Exists, NoSession
<1>3. QED
  BY <1>1, <1>2 DEF WaitInv, OneUser, RowsStay

\* A set that waited for nothing more than it did has its witness.
LEMMA ChainStays ==
    ASSUME WaitInv, NoWider
    PROVE  Chain'
<1> SUFFICES ASSUME NEW D \in SUBSET Calls, D # {}, \A c \in D : Blocked(c)'
             PROVE  \E c \in D : \A d \in D : token'[d] \notin todo'[c]
  BY DEF Chain
<1>1. PICK c \in D : \A d \in D : token[d] \notin todo[c]
  BY DEF WaitInv, Chain, NoWider
<1>2. QED
  BY <1>1 DEF NoWider

\* A step of one call: enough is said of that call and of what the others rely on.
LEMMA OneStep ==
    ASSUME WaitInv, SessionInv', NEW c \in Calls, Apart(c), Scoped(c)', OneUser', Chain'
    PROVE  WaitInv'
  BY OthersScoped DEF WaitInv

\* A call that does not move on to wait.
LEMMA NotWider ==
    ASSUME WaitInv, NEW c \in Calls, Apart(c), ~Blocked(c)'
    PROVE  NoWider
  BY DEF Apart, NoWider, Blocked, OfToken

\* The tables keep their rows when one is inserted under a fresh id.
LEMMA InsertStays ==
    ASSUME TypeOK, NEW s \in Sids, NEW f \in Sids, NEW u \in Users, ~Exists(s),
           session' = Insert(session, s, f, u)
    PROVE  /\ RowsStay
           /\ session'[s] = [family |-> f, user |-> u, live |-> TRUE]
           /\ \A t \in Sids : ~Exists(t) /\ Exists(t)' => t = s
  BY DEF TypeOK, Insert, RowsStay, Exists

\* A request that starts without a token.
LEMMA StartWaits ==
    ASSUME WaitInv, SessionInv', NEW c \in Calls, NEW u, NEW k, k \notin {"refresh", "logout"},
           NEW at \in {"verified", "free", "revoke", "loading", "checking"}, Begin(c, k, u, at),
           at \in {"revoke", "loading", "checking"} => k \in {"password", "update", "revoke"},
           UNCHANGED <<session, rowlock, userlock, token, rows>>
    PROVE  WaitInv'
<1>1. Apart(c)
  BY DEF WaitInv, SessionInv, TypeOK, Apart, RowsStay, Begin, Exists
<1>2. pc'[c] = at /\ kind'[c] = k /\ pc[c] = "idle"
  BY DEF WaitInv, SessionInv, TypeOK, Begin
<1>3. seen[c] = {} /\ todo[c] = {} /\ \A s \in Sids : rowlock[s] # c
  <2>1. Holds(c) /\ Scoped(c)
    BY DEF WaitInv, SessionInv
  <2>2. kind[c] = "none" /\ seen[c] = {} /\ todo[c] = {}
    BY <1>2, <2>1 DEF Holds, Scoped
  <2>3. QED
    BY <2>1, <2>2 DEF Scoped, OfToken
<1>4. Scoped(c)'
  BY <1>2, <1>3 DEF Scoped, OfToken, Blocked
<1>5. OneUser' /\ Chain'
  BY <1>1, <1>2, NotWider, ChainStays DEF WaitInv, OneUser, Exists, Blocked
<1>6. QED
  BY <1>1, <1>4, <1>5, OneStep

\* A request that starts by locking the row of its token.
LEMMA PresentWaits ==
    ASSUME WaitInv, SessionInv', NEW c \in Calls, NEW s \in Sids, LockToken(c, s),
           NEW k \in {"refresh", "logout"}, NEW at \in {"holding", "revoke"},
           Begin(c, k, session[s].user, at),
           UNCHANGED <<session, userlock, rows>>
    PROVE  WaitInv'
<1>1. Apart(c)
  BY DEF WaitInv, SessionInv, TypeOK, Apart, RowsStay, Begin, LockToken, Exists
<1>2. /\ pc'[c] = at /\ kind'[c] = k /\ who'[c] = session[s].user /\ token'[c] = s
      /\ pc[c] = "idle"
      /\ \A t \in Sids : rowlock'[t] = c => rowlock[t] = c \/ t = s
  BY DEF WaitInv, SessionInv, TypeOK, Begin, LockToken
<1>3. seen[c] = {} /\ todo[c] = {} /\ \A t \in Sids : rowlock[t] # c
  <2>1. Holds(c) /\ Scoped(c)
    BY DEF WaitInv, SessionInv
  <2>2. kind[c] = "none" /\ seen[c] = {} /\ todo[c] = {}
    BY <1>2, <2>1 DEF Holds, Scoped
  <2>3. QED
    BY <2>1, <2>2 DEF Scoped, OfToken
<1>4. Scoped(c)'
  BY <1>2, <1>3 DEF Scoped, OfToken, Blocked
<1>5. OneUser' /\ Chain'
  BY <1>1, <1>2, NotWider, ChainStays DEF WaitInv, OneUser, Exists, Blocked
<1>6. QED
  BY <1>1, <1>4, <1>5, OneStep

\* A step that moves a call on and touches no session and no lock.
LEMMA GotoWaits ==
    ASSUME WaitInv, SessionInv', NEW c \in Calls, NEW from, from # "idle",
           NEW to \in {"rotating", "checking", "saving", "revoke", "ended"}, Goto(c, from, to),
           to # "ended" => from \in {"holding", "loading", "checking"},
           UNCHANGED <<session, rowlock, userlock, token, rows>>
    PROVE  WaitInv'
<1>1. Apart(c)
  BY DEF WaitInv, SessionInv, TypeOK, Apart, RowsStay, Goto, Exists
<1>2. pc'[c] = to /\ UNCHANGED <<kind, who>>
  BY DEF WaitInv, SessionInv, TypeOK, Goto
<1>3. Scoped(c) /\ pc[c] = from /\ (from = "holding" => OfToken(c))
  BY DEF WaitInv, SessionInv, TypeOK, Goto, OfToken
<1>4. Scoped(c)'
  BY <1>2, <1>3 DEF Scoped, OfToken, Blocked
<1>5. OneUser' /\ Chain'
  BY <1>1, <1>2, NotWider, ChainStays DEF WaitInv, OneUser, Exists, Blocked
<1>6. QED
  BY <1>1, <1>4, <1>5, OneStep

\* A call that has ended holds nothing and waits for nothing.
LEMMA EndedIsScoped ==
    ASSUME WaitInv, RowsStay, NEW c \in Calls, pc'[c] = "ended",
           kind'[c] = kind[c], who'[c] = who[c], token'[c] = token[c],
           seen'[c] = {}, todo'[c] = {}, \A s \in Sids : rowlock'[s] # c
    PROVE  Scoped(c)'
<1>1. Scoped(c) /\ (OfToken(c) => token[c] \in Sids /\ Exists(token[c]))
  BY DEF WaitInv, SessionInv, TypeOK, OfToken
<1>2. OfToken(c)' => who'[c] = session'[token'[c]].user
  BY <1>1 DEF Scoped, OfToken, RowsStay
<1>3. QED
  BY <1>2 DEF Scoped, Blocked

\* The first session of a family.
LEMMA OpenWaits ==
    ASSUME WaitInv, SessionInv', NEW c \in Calls, NEW from \in {"verified", "free"},
           Goto(c, from, "ended"), NEW s \in Sids, ~Exists(s), who[c] \in Users,
           session' = Insert(session, s, s, who[c]),
           UNCHANGED <<rowlock, userlock, token, rows>>
    PROVE  WaitInv'
<1>1. /\ RowsStay
      /\ session'[s] = [family |-> s, user |-> who[c], live |-> TRUE]
      /\ \A t \in Sids : ~Exists(t) /\ Exists(t)' => t = s
  BY InsertStays DEF WaitInv, SessionInv
<1>2. Apart(c) /\ pc[c] = from /\ pc'[c] = "ended" /\ UNCHANGED <<kind, who>>
  BY <1>1 DEF WaitInv, SessionInv, TypeOK, Apart, Goto
<1>3. seen[c] = {} /\ todo[c] = {} /\ Scoped(c) /\ Holds(c)
  BY <1>2 DEF WaitInv, SessionInv, Holds
<1>4. \A t \in Sids : rowlock'[t] = c => OfToken(c) /\ t = token[c]
  BY <1>3 DEF Scoped
<1>5. OfToken(c)' => who'[c] = session'[token'[c]].user
  BY <1>1, <1>2, <1>3 DEF WaitInv, SessionInv, TypeOK, Scoped, OfToken, RowsStay
<1>6. Scoped(c)'
  BY <1>2, <1>3, <1>4, <1>5 DEF Scoped, Blocked, OfToken
<1>7. OneUser' /\ Chain'
  BY <1>1, <1>2, NotWider, OneUserStays, ChainStays DEF Blocked
<1>8. QED
  BY <1>2, <1>6, <1>7, OneStep

\* The end of a transaction frees its own locks and no others.
LEMMA UnlockWaits ==
    ASSUME TypeOK, NEW c \in Calls, Unlock(c)
    PROVE  /\ \A s \in Sids : rowlock'[s] # c
           /\ \A s \in Sids : rowlock'[s] \in Calls => rowlock[s] = rowlock'[s]
           /\ \A u \in Users : userlock[u] \in Calls \ {c} => userlock'[u] = userlock[u]
  BY NamesAssumption DEF TypeOK, Unlock

\* Revoked rows stay where they are.
LEMMA RevokedStays ==
    ASSUME TypeOK, NEW S \in SUBSET Sids, NEW table, table = Revoked(session, S)
    PROVE  \A s \in Sids : Exists(s) => /\ table[s] # NoSession
                                        /\ table[s].family = session[s].family
                                        /\ table[s].user = session[s].user
                                        /\ table[s].live => session[s].live
<1> SUFFICES ASSUME NEW s \in Sids, Exists(s)
             PROVE  /\ table[s] # NoSession
                    /\ table[s].family = session[s].family
                    /\ table[s].user = session[s].user
                    /\ table[s].live => session[s].live
  OBVIOUS
<1>1. CASE s \in S
  <2>1. table[s] = [family |-> session[s].family, user |-> session[s].user, live |-> FALSE]
    BY <1>1 DEF Revoked
  <2>2. session[s].family \in Sids
    BY DEF TypeOK, Sessions, Exists
  <2>3. QED
    BY <2>1, <2>2, NamesAssumption DEF NoSession
<1>2. CASE s \notin S
  BY <1>2 DEF Revoked, Exists
<1>3. QED
  BY <1>1, <1>2

\* A transaction that ends without a new session.
LEMMA EndWaits ==
    ASSUME WaitInv, SessionInv', NEW c \in Calls, pc' = [pc EXCEPT ![c] = "ended"],
           seen' = [seen EXCEPT ![c] = {}], todo' = [todo EXCEPT ![c] = {}],
           Unlock(c), UNCHANGED <<kind, who, token>>, RowsStay,
           \A s \in Sids : Exists(s)' => Exists(s)
    PROVE  WaitInv'
<1>1. Apart(c) /\ pc'[c] = "ended" /\ seen'[c] = {} /\ todo'[c] = {}
  BY UnlockWaits DEF WaitInv, SessionInv, TypeOK, Apart
<1>2. Scoped(c)'
  BY <1>1, UnlockWaits, EndedIsScoped DEF WaitInv, SessionInv
<1>3. OneUser' /\ Chain'
  BY <1>1, NotWider, OneUserStays, ChainStays DEF Blocked
<1>4. QED
  BY <1>1, <1>2, <1>3, OneStep

\* A revocation that is committed.
LEMMA CommitWaits ==
    ASSUME WaitInv, SessionInv', NEW c \in Calls, CommitRevocation(c)
    PROVE  WaitInv'
<1>1. seen[c] \in SUBSET Sids /\ session' = Revoked(session, seen[c])
      /\ \A s \in seen[c] : Exists(s)
  BY DEF WaitInv, SessionInv, TypeOK, Holds, CommitRevocation
<1>2. RowsStay
  <2>1. TypeOK
    BY DEF WaitInv, SessionInv
  <2>2. \A s \in Sids : Exists(s) => /\ session'[s] # NoSession
                                     /\ session'[s].family = session[s].family
                                     /\ session'[s].user = session[s].user
                                     /\ session'[s].live => session[s].live
    BY <1>1, <2>1, RevokedStays
  <2>3. QED
    BY <2>2 DEF RowsStay, Exists
<1>3. \A s \in Sids : Exists(s)' => Exists(s)
  BY <1>1 DEF Revoked, Exists
<1>4. todo' = [todo EXCEPT ![c] = {}]
  BY DEF WaitInv, SessionInv, TypeOK, CommitRevocation
<1>5. QED
  BY <1>2, <1>3, <1>4, EndWaits DEF CommitRevocation, Goto

\* A transaction that is rolled back.
LEMMA RollbackWaits ==
    ASSUME WaitInv, SessionInv', NEW c \in Calls, Rollback(c)
    PROVE  WaitInv'
<1>1. RowsStay /\ \A s \in Sids : Exists(s)' => Exists(s)
  BY DEF Rollback, RowsStay, Exists
<1>2. QED
  BY <1>1, EndWaits DEF Rollback

\* A rotation: the new session is in the family of the old one, whose user it has.
LEMMA RotateWaits ==
    ASSUME WaitInv, SessionInv', NEW c \in Calls, Rotate(c)
    PROVE  WaitInv'
<1>1. /\ pc[c] = "rotating" /\ pc'[c] = "ended" /\ OfToken(c) /\ who[c] \in Users
      /\ UNCHANGED <<kind, who, token, seen, todo>>
      /\ \A d \in Calls \ {c} : pc'[d] = pc[d]
  BY DEF WaitInv, SessionInv, TypeOK, Rotate, Goto, OfToken
<1>2. /\ token[c] \in Sids /\ Exists(token[c])
      /\ session[token[c]].family \in Sids /\ session[token[c]].user = who[c]
  BY <1>1 DEF WaitInv, SessionInv, TypeOK, OfToken, Scoped, Sessions, Exists
<1> DEFINE old == token[c]
           f == session[old].family
           table == Revoked(session, {old})
<1>3. PICK s \in Sids : ~Exists(s) /\ session' = Insert(table, s, f, who[c])
  BY DEF Rotate
<1>4. s # old
  BY <1>2, <1>3
<1>5. /\ session'[s] = [family |-> f, user |-> who[c], live |-> TRUE]
      /\ \A t \in Sids \ {s} : session'[t] = table[t]
  BY <1>3 DEF Insert, Revoked
<1>6. \A t \in Sids : Exists(t) => /\ table[t] # NoSession
                                   /\ table[t].family = session[t].family
                                   /\ table[t].user = session[t].user
                                   /\ table[t].live => session[t].live
  BY <1>2, RevokedStays DEF WaitInv, SessionInv
<1>7. RowsStay
  <2> SUFFICES ASSUME NEW t \in Sids, Exists(t)
               PROVE  /\ Exists(t)'
                      /\ session'[t].family = session[t].family
                      /\ session'[t].user = session[t].user
                      /\ session'[t].live => session[t].live
    BY DEF RowsStay
  <2>1. session'[t] = table[t]
    BY <1>3, <1>5
  <2> HIDE DEF table
  <2>2. QED
    BY <1>6, <2>1 DEF Exists
<1>8. \A t \in Sids : ~Exists(t) /\ Exists(t)' => t = s
  BY <1>2, <1>5 DEF Exists, Revoked
<1>9. session'[f].user = who[c]
  <2>1. Exists(f)
    BY <1>2, NamesAssumption DEF WaitInv, SessionInv, Named, Exists, NoSession
  <2>2. session[f].user = who[c]
    BY <1>2 DEF WaitInv, OneUser
  <2>3. QED
    BY <1>2, <1>7, <2>1, <2>2 DEF RowsStay
<1>10. OneUser'
  BY <1>5, <1>7, <1>8, <1>9, OneUserStays
<1>11. Apart(c)
  BY <1>1, <1>7, UnlockWaits DEF WaitInv, SessionInv, Apart, Rotate
<1>12. seen[c] = {} /\ todo[c] = {}
  BY <1>1 DEF WaitInv, SessionInv, Holds
<1>13. Scoped(c)'
  BY <1>1, <1>7, <1>12, UnlockWaits, EndedIsScoped DEF WaitInv, SessionInv, Rotate
<1>14. Chain'
  BY <1>1, <1>11, NotWider, ChainStays DEF Blocked
<1>15. QED
  BY <1>10, <1>11, <1>13, <1>14, OneStep

\* An UPDATE that locks a row it has seen.
LEMMA LockRowWaits ==
    ASSUME WaitInv, SessionInv', NEW c \in Calls, NEW s \in Sids, LockRow(c, s)
    PROVE  WaitInv'
<1>1. /\ UNCHANGED <<session, userlock, kind, pc, who, token, seen>>
      /\ s \in todo[c] /\ todo' = [todo EXCEPT ![c] = @ \ {s}]
      /\ rowlock' = [rowlock EXCEPT ![s] = c]
  BY DEF LockRow
<1>2. Apart(c)
  BY <1>1 DEF WaitInv, SessionInv, TypeOK, Apart, RowsStay, Exists
<1>3. /\ todo'[c] = todo[c] \ {s}
      /\ \A t \in Sids : rowlock'[t] = c => rowlock[t] = c \/ t = s
  BY <1>1 DEF WaitInv, SessionInv, TypeOK
<1>4. Scoped(c)
  BY DEF WaitInv
<1>5. Scoped(c)'
  BY <1>1, <1>3, <1>4 DEF Scoped, OfToken, Blocked, WritesUser
<1>6. NoWider
  BY <1>1, <1>2, <1>3 DEF NoWider, Apart, Blocked, OfToken
<1>7. QED
  BY <1>1, <1>2, <1>5, <1>6, ChainStays, OneStep DEF WaitInv, OneUser, Exists

\* What an UPDATE sees: at most one session of each family, of the user of the call.
LEMMA SnapshotSees ==
    ASSUME WaitInv, NEW c \in Calls, Snapshot(c)
    PROVE  /\ \A s, t \in Live(Scope(c)) : session[s].family = session[t].family => s = t
           /\ \A s \in Live(Scope(c)) :
                 /\ session[s].user = who[c] /\ session[s].live /\ s \in Sids
                 /\ OfToken(c) => session[s].family = session[token[c]].family
           /\ OfToken(c) /\ session[token[c]].live => token[c] \in Live(Scope(c))
<1>1. \A s \in Live(Scope(c)) : s \in Sids /\ session[s].live /\ s \in Scope(c)
  BY DEF Live, Scope, InFamily, OfUser
<1>2. \A s, t \in Live(Scope(c)) : session[s].family = session[t].family => s = t
  BY <1>1 DEF WaitInv, SessionInv, Sole
<1>3. CASE OfToken(c)
  <2>1. token[c] \in Sids /\ Exists(token[c]) /\ session[token[c]].user = who[c]
    BY <1>3 DEF WaitInv, SessionInv, TypeOK, OfToken, Scoped
  <2>2. Scope(c) = InFamily(session[token[c]].family)
    BY <1>3 DEF Scope, OfToken
  <2>3. ASSUME NEW s \in Live(Scope(c)) PROVE session[s].user = who[c]
    <3>1. session[s].family = session[token[c]].family /\ Exists(s)
      BY <1>1, <2>2 DEF InFamily, Exists, NoSession
    <3>2. QED
      BY <1>1, <2>1, <3>1 DEF WaitInv, OneUser
  <2>4. \A s \in Live(Scope(c)) : session[s].family = session[token[c]].family
    BY <1>1, <2>2 DEF InFamily
  <2>5. session[token[c]].live => token[c] \in Live(Scope(c))
    BY <2>1, <2>2 DEF Live, InFamily
  <2>6. QED
    BY <1>1, <1>2, <2>3, <2>4, <2>5
<1>4. CASE ~OfToken(c)
  <2>1. Scope(c) = OfUser(who[c])
    BY <1>4 DEF Scope, OfToken
  <2>2. QED
    BY <1>1, <1>2, <1>4, <2>1 DEF OfUser
<1>5. QED
  BY <1>3, <1>4

\* A new UPDATE may wait for a token that is valid; no blocked call presents one.
LEMMA SnapshotWaits ==
    ASSUME WaitInv, SessionInv', NEW c \in Calls, Snapshot(c)
    PROVE  WaitInv'
<1>1. /\ UNCHANGED <<session, rowlock, kind, who, token>>
      /\ pc[c] = "revoke" /\ pc' = [pc EXCEPT ![c] = "revoking"]
      /\ seen' = [seen EXCEPT ![c] = Live(Scope(c))] /\ todo' = [todo EXCEPT ![c] = Live(Scope(c))]
      /\ WritesUser(c) => userlock[who[c]] = NoCall
      /\ userlock' = [u \in Users |-> IF WritesUser(c) /\ u = who[c] THEN c ELSE userlock[u]]
  BY DEF Snapshot, Goto
<1>2. /\ pc'[c] = "revoking" /\ seen'[c] = Live(Scope(c)) /\ todo'[c] = Live(Scope(c))
      /\ who[c] \in Users
      /\ \A d \in Calls \ {c} : pc'[d] = pc[d] /\ seen'[d] = seen[d] /\ todo'[d] = todo[d]
  BY <1>1 DEF WaitInv, SessionInv, TypeOK
<1>3. \A u \in Users : userlock[u] \in Calls \ {c} => userlock'[u] = userlock[u]
  BY <1>1, NamesAssumption
<1>4. Apart(c)
  BY <1>1, <1>2, <1>3 DEF Apart, RowsStay, Exists
<1>5. Scoped(c) /\ seen[c] = {} /\ todo[c] = {}
  BY <1>1 DEF WaitInv, SessionInv, Holds
<1>6. \A s \in Sids : rowlock'[s] = c => OfToken(c) /\ s = token[c]
  BY <1>1, <1>5 DEF Scoped
<1>7. Blocked(c)' => ~session[token[c]].live
  BY <1>1, <1>2, SnapshotSees DEF Blocked, OfToken
<1>8. WritesUser(c) => userlock'[who[c]] = c
  BY <1>1, <1>2
<1>9. OfToken(c) => who[c] = session[token[c]].user
  BY <1>5 DEF Scoped
<1>10. Scoped(c)'
  <2>1. /\ \A s, t \in seen'[c] : session[s].family = session[t].family => s = t
        /\ \A s \in seen'[c] : /\ session[s].user = who[c]
                               /\ OfToken(c) => session[s].family = session[token[c]].family
    BY <1>2, SnapshotSees
  <2>2. /\ OfToken(c)' <=> OfToken(c)
        /\ WritesUser(c)' <=> WritesUser(c)
    BY <1>1 DEF OfToken, WritesUser
  <2>3. \A s \in Sids : rowlock'[s] = c => OfToken(c)' /\ s = token'[c]
    BY <1>1, <1>6, <2>2
  <2>4. /\ pc'[c] = "revoking" /\ todo'[c] = seen'[c]
        /\ OfToken(c)' \/ kind'[c] \in {"password", "update", "revoke"}
        /\ OfToken(c)' => who'[c] = session'[token'[c]].user
        /\ WritesUser(c)' => userlock'[who'[c]] = c
        /\ Blocked(c)' => ~session'[token'[c]].live
    BY <1>1, <1>2, <1>5, <1>7, <1>8, <1>9, <2>2 DEF Scoped
  <2>5. QED
    BY <1>1, <2>1, <2>2, <2>3, <2>4 DEF Scoped
<1>11. Chain'
  <2> SUFFICES ASSUME NEW D \in SUBSET Calls, D # {}, \A d \in D : Blocked(d)'
               PROVE  \E b \in D : \A d \in D : token'[d] \notin todo'[b]
    BY DEF Chain
  <2>1. \A d \in D \ {c} : Blocked(d)
    BY <1>1, <1>2 DEF Blocked, OfToken
  <2>2. CASE c \in D
    <3>1. Blocked(c)' /\ token[c] \notin todo'[c]
      BY <1>1, <1>2, <2>2 DEF Blocked
    <3>2. \A d \in D \ {c} : ~session[token[d]].live
      BY <2>1 DEF WaitInv, Scoped
    <3>3. \A s \in todo'[c] : session[s].live
      BY <1>2, SnapshotSees
    <3>4. \A d \in D : token'[d] \notin todo'[c]
      BY <1>1, <3>1, <3>2, <3>3
    <3>5. QED
      BY <2>2, <3>4
  <2>3. CASE c \notin D
    <3>1. PICK b \in D : \A d \in D : token[d] \notin todo[b]
      BY <2>1, <2>3 DEF WaitInv, Chain
    <3>2. QED
      BY <1>1, <1>2, <2>3, <3>1
  <2>4. QED
    BY <2>2, <2>3
<1>12. OneUser'
  BY <1>1 DEF WaitInv, OneUser, Exists
<1>13. QED
  BY <1>4, <1>10, <1>11, <1>12, OneStep

\* The scopes and the locks of all calls are in order after every step.
LEMMA StepWaits ==
    ASSUME WaitInv, SessionInv', Next
    PROVE  WaitInv'
<1>1. ASSUME NEW c \in Calls, NEW u \in Users,
             \/ VerifyPassword(c, u) \/ VerifyCurrent(c, u) \/ RevokeForAction(c, u)
             \/ \E k \in {"register", "create"} : FindFree(c, u, k)
             \/ \E a \in Users, p \in Payloads : StartUpdate(c, a, u, p)
      PROVE  WaitInv'
  BY <1>1, StartWaits DEF VerifyPassword, VerifyCurrent, RevokeForAction, FindFree, StartUpdate
<1>2. ASSUME NEW c \in Calls, NEW s \in Sids, PresentToken(c, s) \/ PresentForLogout(c, s)
      PROVE  WaitInv'
  BY <1>2, PresentWaits DEF PresentToken, PresentForLogout
<1>3. ASSUME NEW c \in Calls,
             \/ CreateAccount(c) \/ CheckHolder(c) \/ LoadTarget(c) \/ CheckLastAdmin(c)
             \/ Save(c) \/ (SignUp(c) /\ UNCHANGED session)
      PROVE  WaitInv'
  BY <1>3, GotoWaits DEF CreateAccount, CheckHolder, LoadTarget, CheckLastAdmin, Save, SignUp
<1>4. ASSUME NEW c \in Calls, pc[c] # "idle" PROVE who[c] \in Users
  BY <1>4 DEF WaitInv, SessionInv, TypeOK
<1>5. ASSUME NEW c \in Calls, OpenSession(c) \/ SignUp(c), session' # session
      PROVE  WaitInv'
  BY <1>4, <1>5, OpenWaits DEF OpenSession, SignUp, Goto
<1>6. ASSUME NEW c \in Calls, OpenSession(c) PROVE session' # session
  <2>1. PICK s \in Sids : ~Exists(s) /\ session' = Insert(session, s, s, who[c])
    BY <1>6 DEF OpenSession
  <2>2. session'[s] # NoSession
    BY <2>1, NamesAssumption DEF WaitInv, SessionInv, TypeOK, Insert, NoSession
  <2>3. QED
    BY <2>1, <2>2 DEF Exists
<1>7. ASSUME NEW c \in Calls, OpenSession(c) \/ SignUp(c)
      PROVE  WaitInv'
  BY <1>3, <1>5, <1>6, <1>7
<1>8. ASSUME NEW c \in Calls,
             \/ Rotate(c) \/ Snapshot(c) \/ CommitRevocation(c) \/ Rollback(c)
             \/ \E s \in Sids : LockRow(c, s)
      PROVE  WaitInv'
  BY <1>8, RotateWaits, SnapshotWaits, LockRowWaits, CommitWaits, RollbackWaits
<1>9. PICK c \in Calls :
         \/ \E u \in Users :
               \/ VerifyPassword(c, u) \/ VerifyCurrent(c, u) \/ RevokeForAction(c, u)
               \/ \E k \in {"register", "create"} : FindFree(c, u, k)
               \/ \E a \in Users, p \in Payloads : StartUpdate(c, a, u, p)
         \/ \E s \in Sids : PresentToken(c, s) \/ PresentForLogout(c, s) \/ LockRow(c, s)
         \/ CreateAccount(c) \/ CheckHolder(c) \/ LoadTarget(c) \/ CheckLastAdmin(c) \/ Save(c)
         \/ OpenSession(c) \/ SignUp(c)
         \/ Rotate(c) \/ Snapshot(c) \/ CommitRevocation(c) \/ Rollback(c)
  BY DEF Next
<1>10. QED
  BY <1>1, <1>2, <1>3, <1>7, <1>8, <1>9

\* Locks, scopes and waits are in order, whatever the calls do.
THEOREM WaitsAlways == Spec => []WaitInv
<1>1. Init /\ SessionInv => WaitInv
  <2> SUFFICES ASSUME Init, SessionInv PROVE WaitInv
    OBVIOUS
  <2>1. \A c \in Calls : /\ kind[c] = "none" /\ pc[c] = "idle" /\ seen[c] = {} /\ todo[c] = {}
                         /\ \A s \in Sids : rowlock[s] # c
    BY NamesAssumption DEF Init
  <2>2. \A c \in Calls : Scoped(c)
    BY <2>1 DEF Scoped, OfToken, Blocked
  <2>3. OneUser
    BY FirstAssumption, NamesAssumption DEF Init, SessionInv, TypeOK, WellFormed, OneUser, Exists,
                                            Sessions
  <2>4. Chain
    BY <2>1 DEF Chain, Blocked
  <2>5. QED
    BY <2>2, <2>3, <2>4 DEF WaitInv
<1>2. WaitInv /\ SessionInv' /\ [Next]_vars => WaitInv'
  <2>1. CASE Next
    BY <2>1, StepWaits
  <2>2. ASSUME WaitInv, SessionInv', UNCHANGED vars
        PROVE  WaitInv'
    <3>1. NoWider /\ OneUser'
      BY <2>2 DEF WaitInv, OneUser, Exists, NoWider, Blocked, OfToken, vars
    <3>2. \A c \in Calls : Scoped(c)'
      BY <2>2 DEF WaitInv, Scoped, Blocked, OfToken, WritesUser, vars
    <3>3. QED
      BY <2>2, <3>1, <3>2, ChainStays DEF WaitInv
  <2>3. QED
    BY <2>1, <2>2
<1>3. QED
  BY <1>1, <1>2, SessionsAlways, PTL DEF Spec

-----------------------------------------------------------------------------
(* Circles of calls that wait for each other.                               *)

\* A revocation by the worker, next to another of the same user's sessions.
ActionAmong(D) == \E c, d \in D : /\ c # d
                                  /\ kind[c] = "revoke"
                                  /\ kind[d] \in {"revoke", "password", "update"}
                                  /\ who[c] = who[d]

\* Whoever waits for a row is in an UPDATE; both calls are about one user.
LEMMA WaitIs ==
    ASSUME WaitInv, NEW c \in Calls, NEW d \in Calls, WaitsFor(c, d)
    PROVE  /\ pc[c] = "revoking" /\ who[c] = who[d]
           /\ \E s \in todo[c] : /\ rowlock[s] = d /\ s \in seen[c] /\ s \in Sids
                                 /\ (OfToken(d) /\ s = token[d]) \/ s \in seen[d] \ todo[d]
<1>1. PICK s \in todo[c] : rowlock[s] = d
  BY DEF WaitsFor
<1>2. Scoped(c) /\ Scoped(d) /\ Holds(c) /\ todo[c] \subseteq Sids
  BY DEF WaitInv, SessionInv, TypeOK
<1>3. pc[c] = "revoking" /\ s \in seen[c] /\ s \in Sids
  BY <1>1, <1>2 DEF Holds, Scoped
<1>4. (OfToken(d) /\ s = token[d]) \/ s \in seen[d] \ todo[d]
  BY <1>1, <1>2, <1>3 DEF Scoped
<1>5. session[s].user = who[c] /\ session[s].user = who[d]
  BY <1>2, <1>3, <1>4 DEF Scoped
<1>6. QED
  BY <1>1, <1>3, <1>4, <1>5

\* A refresh or logout that waits, waits for one row, which is not its token's.
LEMMA TokenWaits ==
    ASSUME WaitInv, NEW c \in Calls, NEW d \in Calls, OfToken(c), WaitsFor(c, d)
    PROVE  Blocked(c) /\ seen[c] \ todo[c] = {}
<1>1. Scoped(c) /\ Holds(c) /\ pc[c] = "revoking" /\ token[c] \in Sids
  BY WaitIs DEF WaitInv, SessionInv, TypeOK, OfToken
<1>2. PICK s \in todo[c] : rowlock[s] = d /\ d # c
  BY DEF WaitsFor
<1>3. s \in seen[c] /\ s # token[c]
  BY <1>1, <1>2 DEF Scoped, Holds, OfToken
<1>4. \A t \in seen[c] : t = s
  BY <1>1, <1>3 DEF Scoped
<1>5. QED
  BY <1>1, <1>2, <1>3, <1>4 DEF Blocked

\* In a circle every call waits for one of the others, and all are about one user.
LEMMA CircleIs ==
    ASSUME WaitInv, NEW D \in SUBSET Calls, Deadlocked(D)
    PROVE  /\ D # {}
           /\ \A c \in D : \E d \in D : WaitsFor(c, d)
           /\ \A c, d \in D : who[c] = who[d]
<1>1. D # {} /\ \A c \in D : D # {c}
  <2>1. Cardinality({}) = 0 /\ \A c \in D : Cardinality({c}) = 1
    BY FS_EmptySet, FS_Singleton
  <2>2. Cardinality(D) > 1
    BY DEF Deadlocked
  <2>3. QED
    BY <2>1, <2>2
<1>2. ASSUME NEW c \in D PROVE \E d \in D : WaitsFor(c, d)
  <2>1. {c} \in (SUBSET D) \ {{}, D}
    BY <1>1
  <2>2. \A E \in (SUBSET D) \ {{}, D} : \E e \in E, d \in D \ E : WaitsFor(e, d)
    BY DEF Deadlocked
  <2>3. \E e \in {c}, d \in D \ {c} : WaitsFor(e, d)
    BY <2>1, <2>2
  <2>4. QED
    BY <2>3
<1>3. ASSUME NEW c \in D PROVE \A d \in D : who[d] = who[c]
  <2> DEFINE E == {d \in D : who[d] = who[c]}
  <2>1. CASE E = D
    BY <2>1
  <2>2. CASE E # D
    <3>1. E \in (SUBSET D) \ {{}, D}
      BY <2>2
    <3>2. PICK e \in E, d \in D \ E : WaitsFor(e, d)
      BY <3>1 DEF Deadlocked
    <3>3. who[d] = who[e]
      BY <3>2, WaitIs
    <3>4. QED
      BY <3>2, <3>3
  <2>3. QED
    BY <2>1, <2>2
<1>4. QED
  BY <1>1, <1>2, <1>3

\* Refreshes and logouts alone make no circle: each waits for a younger token.
LEMMA TokensMakeNoCircle ==
    ASSUME WaitInv, NEW D \in SUBSET Calls, Deadlocked(D), \A c \in D : OfToken(c)
    PROVE  FALSE
<1>1. \A c \in D : Blocked(c) /\ seen[c] \ todo[c] = {}
  BY CircleIs, TokenWaits
<1>2. PICK c \in D : \A d \in D : token[d] \notin todo[c]
  BY <1>1, CircleIs DEF WaitInv, Chain
<1>3. PICK d \in D : WaitsFor(c, d)
  BY CircleIs
<1>4. PICK s \in todo[c] : (OfToken(d) /\ s = token[d]) \/ s \in seen[d] \ todo[d]
  BY <1>3, WaitIs
<1>5. QED
  BY <1>1, <1>2, <1>4

\* Nor does one revocation of all of a user's sessions among them: who waits in the
\* family of a row that it waits for, waits for that very row.
LEMMA OneMakesNoCircle ==
    ASSUME WaitInv, NEW D \in SUBSET Calls, Deadlocked(D),
           NEW b \in D, ~OfToken(b), \A c \in D \ {b} : OfToken(c)
    PROVE  FALSE
<1>1. \A c \in D \ {b} : Blocked(c) /\ seen[c] \ todo[c] = {}
  BY CircleIs, TokenWaits
<1>2. PICK r \in D : WaitsFor(b, r) /\ r # b
  BY CircleIs DEF WaitsFor
<1>3. PICK s \in todo[b] : s \in seen[b] /\ s = token[r]
  BY <1>1, <1>2, WaitIs
<1> DEFINE Fam(c) == session[token[c]].family
           E == {c \in D \ {b} : Fam(c) = Fam(r)}
<1>4. E \in (SUBSET D) \ {{}, D}
  BY <1>2
<1>5. PICK c \in E, d \in D \ E : WaitsFor(c, d)
  BY <1>4 DEF Deadlocked
<1>6. PICK t \in todo[c] : t \in seen[c] /\ ((OfToken(d) /\ t = token[d]) \/ t \in seen[d] \ todo[d])
  BY <1>5, WaitIs
<1>7. session[t].family = Fam(c)
  BY <1>5, <1>6 DEF WaitInv, Scoped
<1>8. d = b
  <2>1. CASE d # b
    <3>1. t = token[d]
      BY <1>1, <1>6, <2>1
    <3>2. d \in E
      BY <1>5, <1>7, <2>1, <3>1
    <3>3. QED
      BY <1>5, <3>2
  <2>2. QED
    BY <2>1
<1>9. t \in seen[b] \ todo[b]
  BY <1>6, <1>8
<1>10. session[t].family = session[s].family
  BY <1>3, <1>5, <1>7
<1>11. t = s
  BY <1>3, <1>9, <1>10 DEF WaitInv, Scoped
<1>12. QED
  BY <1>3, <1>9, <1>11

\* Two revocations of all of one user's sessions, of which one does not lock the user.
LEMMA TwoAreAction ==
    ASSUME WaitInv, NEW D \in SUBSET Calls, Deadlocked(D),
           NEW b \in D, NEW e \in D, b # e, ~OfToken(b), ~OfToken(e)
    PROVE  ActionAmong(D)
<1>1. /\ pc[b] = "revoking" /\ pc[e] = "revoking" /\ who[b] = who[e]
  BY CircleIs, WaitIs
<1>2. WritesUser(b) /\ WritesUser(e) => FALSE
  BY <1>1 DEF WaitInv, Scoped
<1>3. kind[b] \in {"revoke", "password", "update"} /\ kind[e] \in {"revoke", "password", "update"}
  BY <1>1 DEF WaitInv, Scoped
<1>4. QED
  BY <1>1, <1>2, <1>3 DEF WritesUser, ActionAmong

\* Refreshes, logouts, password changes and updates never wait for each other in a
\* circle, in any number: it takes the worker's revocation, which does not lock the
\* user's row, next to another revocation of the same user's sessions.
THEOREM DeadlocksNeedAction == Spec => []DeadlockNeedsAction
<1>1. WaitInv => DeadlockNeedsAction
  <2> SUFFICES ASSUME WaitInv, NEW D \in SUBSET Calls, Deadlocked(D)
               PROVE  ActionAmong(D)
    BY DEF DeadlockNeedsAction, ActionAmong
  <2>1. PICK b \in D : ~OfToken(b)
    BY TokensMakeNoCircle
  <2>2. PICK e \in D \ {b} : ~OfToken(e)
    BY <2>1, OneMakesNoCircle
  <2>3. QED
    BY <2>1, <2>2, TwoAreAction
<1>2. QED
  BY <1>1, WaitsAlways, PTL
=====
