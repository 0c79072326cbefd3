--------------------------- MODULE ResponseActions ---------------------------
(***************************************************************************)
(* Human-approved response actions: the propose and decide endpoints       *)
(* (ResponseActionService), the Redis list of approved ids, the worker     *)
(* that pops it, the worker's recovery scan of the database, and           *)
(* execute_action, which claims an approved action and carries it out.     *)
(*                                                                         *)
(* An action on the application (revoke_app_sessions) is an UPDATE in the  *)
(* same transaction as its outcome; an action on AWS is an API call that   *)
(* no transaction covers.  Handlers are split at their commits, their      *)
(* Redis calls and the AWS mutation.                                       *)
(***************************************************************************)
EXTENDS Naturals, Sequences, FiniteSets

CONSTANTS
    Actions,         \* (incident, idempotency key) pairs, one row each
    AwsActions,      \* those whose type is an AWS action
    Users,           \* people who can sign in
    Role,            \* their roles
    Calls,           \* HTTP requests to propose or to decide
    Workers,         \* worker processes
    NoUser, NoAction,
    AwsEnabled,      \* settings.aws_response_enabled
    ScanLimit,       \* most rows one recovery scan reads
    RedisMayRestart, \* TRUE when Redis may restart from an older snapshot
    CrashBudget      \* bound on deaths of calls and workers and on Redis restarts

ASSUME ResponseAssumption ==
    /\ AwsActions \subseteq Actions
    /\ Role \in [Users -> {"viewer", "analyst", "admin"}]
    /\ NoUser \notin Users
    /\ NoAction \notin Actions
    /\ AwsEnabled \in BOOLEAN
    /\ ScanLimit \in Nat \ {0}
    /\ RedisMayRestart \in BOOLEAN
    /\ CrashBudget \in Nat

VARIABLES
    status,    \* status[a]: the committed status of action a ("absent": no row)
    proposer,  \* proposer[a]: its proposed_by
    decider,   \* decider[a]: its approved_by, which a rejection sets as well
    audit,     \* the audit rows about actions, as a set
    effects,   \* effects[a]: how often the action was carried out
    queue,     \* the Redis list of approved ids
    saved,     \* the copy of that list in Redis's last snapshot on disk
    cpc,       \* cpc[c]: where call c stands
    cuser,     \* cuser[c]: who makes it
    cact,      \* cact[c]: the action it is about
    wpc,       \* wpc[w]: where worker w stands
    held,      \* held[w]: the action it has in hand
    scanning,  \* scanning[w]: whether it is inside the recovery loop
    rest,      \* rest[w]: the ids that loop has still to execute
    crashes,   \* deaths and restarts so far
    orphaned   \* history: actions a worker had claimed when it died

actVars == <<status, proposer, decider, audit>>
rdsVars == <<queue, saved>>
callVars == <<cpc, cuser, cact>>
wrkVars == <<wpc, held, scanning, rest>>
histVars == <<crashes, orphaned>>
vars == <<status, proposer, decider, audit, effects, queue, saved,
          cpc, cuser, cact, wpc, held, scanning, rest, crashes, orphaned>>

Statuses == {"absent", "proposed", "approved", "rejected",
             "running", "succeeded", "failed"}

\* ROLE_PERMISSIONS: who holds responses:propose and responses:approve.  The
\* documents say of approval "admin only" (docs/api/response-actions.md:14,
\* docs/ml/incident-training.md:37); the table gives it to analysts too.
MayPropose(u) == Role[u] \in {"analyst", "admin"}
MayApprove(u) == Role[u] \in {"analyst", "admin"}

Entry(what, who, a) == [what |-> what, who |-> who, on |-> a]

Init == /\ status = [a \in Actions |-> "absent"]
        /\ proposer = [a \in Actions |-> NoUser]
        /\ decider = [a \in Actions |-> NoUser]
        /\ audit = {}
        /\ effects = [a \in Actions |-> 0]
        /\ queue = <<>>
        /\ saved = <<>>
        /\ cpc = [c \in Calls |-> "new"]
        /\ cuser = [c \in Calls |-> NoUser]
        /\ cact = [c \in Calls |-> NoAction]
        /\ wpc = [w \in Workers |-> "top"]
        /\ held = [w \in Workers |-> NoAction]
        /\ scanning = [w \in Workers |-> FALSE]
        /\ rest = [w \in Workers |-> {}]
        /\ crashes = 0
        /\ orphaned = {}

-----------------------------------------------------------------------------
(* The API.                                                                 *)

\* The response is sent, or the handler is gone.
Close(c) == /\ cpc' = [cpc EXCEPT ![c] = "done"]
            /\ cuser' = [cuser EXCEPT ![c] = NoUser]
            /\ cact' = [cact EXCEPT ![c] = NoAction]

Continue(c, u, a, pc) == /\ cpc' = [cpc EXCEPT ![c] = pc]
                         /\ cuser' = [cuser EXCEPT ![c] = u]
                         /\ cact' = [cact EXCEPT ![c] = a]

\* propose() finds no row for the idempotency key; its evidence is valid.
Lookup(c, u, a) == /\ cpc[c] = "new"
                   /\ MayPropose(u)
                   /\ status[a] = "absent"
                   /\ Continue(c, u, a, "inserting")
                   /\ UNCHANGED <<actVars, effects, rdsVars, wrkVars, histVars>>

\* propose() finds the row: the call is answered with it, and audited as a
\* proposal of this caller.
Replay(c, u, a) == /\ cpc[c] = "new"
                   /\ MayPropose(u)
                   /\ status[a] # "absent"
                   /\ audit' = audit \cup {Entry("propose", u, a)}
                   /\ Close(c)
                   /\ UNCHANGED <<status, proposer, decider, effects,
                                  rdsVars, wrkVars, histVars>>

\* Mutant: an insert that replaces the row it collides with.
InsertOrReplace(c) ==
    LET a == cact[c] IN
    /\ cpc[c] = "inserting"
    /\ status' = [status EXCEPT ![a] = "proposed"]
    /\ proposer' = [proposer EXCEPT ![a] = cuser[c]]
    /\ audit' = audit \cup {Entry("propose", cuser[c], a)}
    /\ Close(c)
    /\ UNCHANGED <<decider, effects, rdsVars, wrkVars, histVars>>

\* The new row and its audit row, committed together.
Insert(c) ==
    LET a == cact[c] IN
    /\ cpc[c] = "inserting"
    /\ status[a] = "absent"
    /\ status' = [status EXCEPT ![a] = "proposed"]
    /\ proposer' = [proposer EXCEPT ![a] = cuser[c]]
    /\ audit' = audit \cup {Entry("propose", cuser[c], a)}
    /\ Close(c)
    /\ UNCHANGED <<decider, effects, rdsVars, wrkVars, histVars>>

\* The unique constraint refuses the second insert of two racing calls: 500.
InsertCollides(c) == /\ cpc[c] = "inserting"
                     /\ status[cact[c]] # "absent"
                     /\ Close(c)
                     /\ UNCHANGED <<actVars, effects, rdsVars, wrkVars, histVars>>

Verdicts == {"approve", "reject"}

\* The verdict, its author and its audit row, in one transaction.
Record(c, u, a, verdict) ==
    /\ status' = [status EXCEPT ![a] = IF verdict = "approve" THEN "approved" ELSE "rejected"]
    /\ decider' = [decider EXCEPT ![a] = u]
    /\ audit' = audit \cup {Entry(verdict, u, a)}
    /\ IF verdict = "approve" THEN Continue(c, u, a, "pushing") ELSE Close(c)
    /\ UNCHANGED <<proposer, effects, rdsVars, wrkVars, histVars>>

\* Mutants: the proposer is let through; an approval can be withdrawn.
DecideOwn(c, u, a, verdict) == /\ cpc[c] = "new"
                               /\ MayApprove(u)
                               /\ status[a] = "proposed"
                               /\ verdict = "approve" /\ a \in AwsActions => AwsEnabled
                               /\ Record(c, u, a, verdict)

DecideAgain(c, u, a, verdict) == /\ cpc[c] = "new"
                                 /\ MayApprove(u)
                                 /\ status[a] \in {"proposed", "approved"}
                                 /\ u # proposer[a]
                                 /\ verdict = "approve" /\ a \in AwsActions => AwsEnabled
                                 /\ Record(c, u, a, verdict)

\* decide(), whose row lock lasts from its read to its commit.
Decide(c, u, a, verdict) == /\ cpc[c] = "new"
                            /\ MayApprove(u)
                            /\ status[a] = "proposed"
                            /\ u # proposer[a]
                            /\ verdict = "approve" /\ a \in AwsActions => AwsEnabled
                            /\ Record(c, u, a, verdict)

\* Any other call ends with 400, 403, 404 or 409 and writes nothing here.
Refuse(c) == /\ cpc[c] = "new"
             /\ Close(c)
             /\ UNCHANGED <<actVars, effects, rdsVars, wrkVars, histVars>>

\* RPUSH of the approved id.
Push(c) == /\ cpc[c] = "pushing"
           /\ queue' = Append(queue, cact[c])
           /\ Close(c)
           /\ UNCHANGED <<actVars, effects, saved, wrkVars, histVars>>

\* RPUSH raises: 500, although the approval is committed.
PushFails(c) == /\ cpc[c] = "pushing"
                /\ Close(c)
                /\ UNCHANGED <<actVars, effects, rdsVars, wrkVars, histVars>>

CallStep(c) == \/ \E u \in Users, a \in Actions :
                     \/ Lookup(c, u, a) \/ Replay(c, u, a)
                     \/ \E verdict \in Verdicts : Decide(c, u, a, verdict)
               \/ Insert(c) \/ InsertCollides(c) \/ Refuse(c)
               \/ Push(c) \/ PushFails(c)

\* The API process dies with the handler.
CallDies(c) == /\ crashes < CrashBudget
               /\ cpc[c] \in {"inserting", "pushing"}
               /\ crashes' = crashes + 1
               /\ Close(c)
               /\ UNCHANGED <<actVars, effects, rdsVars, wrkVars, orphaned>>

-----------------------------------------------------------------------------
(* The worker loop.                                                         *)

\* Mutant: a scan for the actions a worker left behind.
LeftBehind == {a \in Actions : status[a] = "running"}

Approved == {a \in Actions : status[a] = "approved"}

\* The recovery scan, once a minute: at most ScanLimit approved ids, in no
\* particular order.
StartScan(w) ==
    /\ wpc[w] = "top"
    /\ \E ids \in SUBSET Approved :
          /\ Cardinality(ids) <= ScanLimit
          /\ Cardinality(ids) < ScanLimit => ids = Approved
          /\ rest' = [rest EXCEPT ![w] = ids]
    /\ scanning' = [scanning EXCEPT ![w] = TRUE]
    /\ wpc' = [wpc EXCEPT ![w] = "scan"]
    /\ UNCHANGED <<actVars, effects, rdsVars, callVars, held, histVars>>

Take(w, a) == /\ held' = [held EXCEPT ![w] = a]
              /\ wpc' = [wpc EXCEPT ![w] = "claim"]

\* The scan's list was read once: what it holds may be out of date by now.
NextScanned(w) == /\ wpc[w] = "scan"
                  /\ \E a \in rest[w] : /\ Take(w, a)
                                        /\ rest' = [rest EXCEPT ![w] = @ \ {a}]
                  /\ UNCHANGED <<actVars, effects, rdsVars, callVars, scanning, histVars>>

EndScan(w) == /\ wpc[w] = "scan"
              /\ rest[w] = {}
              /\ scanning' = [scanning EXCEPT ![w] = FALSE]
              /\ wpc' = [wpc EXCEPT ![w] = "pop"]
              /\ UNCHANGED <<actVars, effects, rdsVars, callVars, held, rest, histVars>>

\* LPOP, after the scan or straight away when none is due.
Pop(w) == /\ wpc[w] \in {"top", "pop"}
          /\ queue # <<>>
          /\ Take(w, Head(queue))
          /\ queue' = Tail(queue)
          /\ UNCHANGED <<actVars, effects, saved, callVars, scanning, rest, histVars>>

\* LPOP finds nothing: the worker turns to the investigation queue and comes back.
PopNothing(w) == /\ wpc[w] = "pop"
                 /\ queue = <<>>
                 /\ wpc' = [wpc EXCEPT ![w] = "top"]
                 /\ UNCHANGED <<actVars, effects, rdsVars, callVars,
                                held, scanning, rest, histVars>>

-----------------------------------------------------------------------------
(* execute_action                                                           *)

\* Back to the caller: the recovery loop, or the top of the worker loop.
Return(w) == /\ held' = [held EXCEPT ![w] = NoAction]
             /\ wpc' = [wpc EXCEPT ![w] = IF scanning[w] THEN "scan" ELSE "top"]

\* Mutant: the UPDATE has no condition on the status.
ClaimAny(w) == /\ wpc[w] = "claim"
               /\ status' = [status EXCEPT ![held[w]] = "running"]
               /\ wpc' = [wpc EXCEPT ![w] = "run"]
               /\ UNCHANGED <<proposer, decider, audit, effects, rdsVars, callVars,
                              held, scanning, rest, histVars>>

\* UPDATE ... WHERE status = 'approved', committed before anything is done.
Claim(w) == /\ wpc[w] = "claim"
            /\ status[held[w]] = "approved"
            /\ status' = [status EXCEPT ![held[w]] = "running"]
            /\ wpc' = [wpc EXCEPT ![w] = "run"]
            /\ UNCHANGED <<proposer, decider, audit, effects, rdsVars, callVars,
                           held, scanning, rest, histVars>>

\* The UPDATE matches no row.
SkipClaim(w) == /\ wpc[w] = "claim"
                /\ status[held[w]] # "approved"
                /\ Return(w)
                /\ UNCHANGED <<actVars, effects, rdsVars, callVars, scanning, rest, histVars>>

\* The outcome and its audit row, written by primary key; the audit row names
\* the approver.
Settle(w, outcome) ==
    LET a == held[w] IN
    /\ status' = [status EXCEPT ![a] = outcome]
    /\ audit' = audit \cup {Entry(outcome, decider[a], a)}
    /\ Return(w)
    /\ UNCHANGED <<proposer, decider, rdsVars, callVars, scanning, rest, histVars>>

CarryOut(a) == effects' = [effects EXCEPT ![a] = @ + 1]

\* The sessions of the target are revoked in the transaction of the outcome.
RevokeSessions(w) == /\ wpc[w] = "run"
                     /\ held[w] \notin AwsActions
                     /\ CarryOut(held[w])
                     /\ Settle(w, "succeeded")

\* The AWS call takes effect.
Mutate(w) == /\ wpc[w] = "run"
             /\ held[w] \in AwsActions
             /\ AwsEnabled
             /\ CarryOut(held[w])
             /\ wpc' = [wpc EXCEPT ![w] = "verify"]
             /\ UNCHANGED <<actVars, rdsVars, callVars, held, scanning, rest, histVars>>

\* AWS answers, and reading the target back confirms the change.
Verify(w) == /\ wpc[w] = "verify"
             /\ Settle(w, "succeeded")
             /\ UNCHANGED effects

\* Any exception: a check before the call, AWS's answer lost after it, a
\* read-back that does not confirm it, or the session UPDATE.  Roll back.
ExecutionError(w) == /\ wpc[w] \in {"run", "verify"}
                     /\ wpc' = [wpc EXCEPT ![w] = "error"]
                     /\ UNCHANGED <<actVars, effects, rdsVars, callVars,
                                    held, scanning, rest, histVars>>

\* Mutant: the failed action goes back to be tried again.
RecordRetry(w) == /\ wpc[w] = "error"
                  /\ Settle(w, "approved")
                  /\ UNCHANGED effects

\* The action is read again and marked failed.
RecordFailure(w) == /\ wpc[w] = "error"
                    /\ Settle(w, "failed")
                    /\ UNCHANGED effects

WorkerStep(w) == \/ StartScan(w) \/ NextScanned(w) \/ EndScan(w)
                 \/ Pop(w) \/ PopNothing(w)
                 \/ Claim(w) \/ SkipClaim(w)
                 \/ RevokeSessions(w) \/ Mutate(w) \/ Verify(w)
                 \/ ExecutionError(w) \/ RecordFailure(w)

Executing(w, a) == wpc[w] \in {"run", "verify", "error"} /\ held[w] = a

\* The process ends: killed, or an exception of Redis or of a commit, which
\* neither execute_action nor run_worker catches.
WorkerDies(w) == /\ crashes < CrashBudget
                 /\ wpc[w] # "down"
                 /\ crashes' = crashes + 1
                 /\ orphaned' = orphaned \cup {a \in Actions : Executing(w, a)}
                 /\ wpc' = [wpc EXCEPT ![w] = "down"]
                 /\ held' = [held EXCEPT ![w] = NoAction]
                 /\ scanning' = [scanning EXCEPT ![w] = FALSE]
                 /\ rest' = [rest EXCEPT ![w] = {}]
                 /\ UNCHANGED <<actVars, effects, rdsVars, callVars>>

WorkerRestarts(w) == /\ wpc[w] = "down"
                     /\ wpc' = [wpc EXCEPT ![w] = "top"]
                     /\ UNCHANGED <<actVars, effects, rdsVars, callVars,
                                    held, scanning, rest, histVars>>

-----------------------------------------------------------------------------
(* Redis                                                                    *)

RedisSnapshot == /\ RedisMayRestart
                 /\ saved # queue
                 /\ saved' = queue
                 /\ UNCHANGED <<actVars, effects, queue, callVars, wrkVars, histVars>>

RedisRestarts == /\ RedisMayRestart
                 /\ crashes < CrashBudget
                 /\ crashes' = crashes + 1
                 /\ queue' = saved
                 /\ UNCHANGED <<actVars, effects, saved, callVars, wrkVars, orphaned>>

Next == \/ \E c \in Calls : CallStep(c) \/ CallDies(c)
        \/ \E w \in Workers : WorkerStep(w) \/ WorkerDies(w) \/ WorkerRestarts(w)
        \/ RedisSnapshot
        \/ RedisRestarts

Spec == Init /\ [][Next]_vars

\* A live worker keeps looping: its Redis, database and AWS calls return, an
\* investigation it runs in between ends, and the scan comes due every minute.
Fairness == \A w \in Workers : WF_vars(WorkerStep(w))

FairSpec == Spec /\ Fairness

-----------------------------------------------------------------------------
(* Properties.                                                              *)

\* The values each variable takes; a caller or a worker names an action
\* exactly while its handler needs one.
TypeOK ==
    /\ status \in [Actions -> Statuses]
    /\ proposer \in [Actions -> Users \cup {NoUser}]
    /\ decider \in [Actions -> Users \cup {NoUser}]
    /\ audit \subseteq [what : {"propose", "approve", "reject", "succeeded", "failed"},
                        who : Users \cup {NoUser}, on : Actions]
    /\ effects \in [Actions -> Nat]
    /\ queue \in Seq(Actions)
    /\ saved \in Seq(Actions)
    /\ cpc \in [Calls -> {"new", "inserting", "pushing", "done"}]
    /\ cuser \in [Calls -> Users \cup {NoUser}]
    /\ cact \in [Calls -> Actions \cup {NoAction}]
    /\ \A c \in Calls : cpc[c] \in {"inserting", "pushing"}
                          => cuser[c] \in Users /\ cact[c] \in Actions
    /\ wpc \in [Workers -> {"top", "scan", "pop", "claim", "run", "verify", "error", "down"}]
    /\ held \in [Workers -> Actions \cup {NoAction}]
    /\ \A w \in Workers : wpc[w] \in {"claim", "run", "verify", "error"}
                            <=> held[w] \in Actions
    /\ scanning \in [Workers -> BOOLEAN]
    /\ rest \in [Workers -> SUBSET Actions]
    /\ crashes \in 0 .. CrashBudget
    /\ orphaned \subseteq Actions

\* Nothing is carried out, or even started, on one person's word: the proposer
\* and the approver are two people who may, and the audit log shows the
\* approval.  Who may is ROLE_PERMISSIONS' word, against the documents': the
\* approver may be an analyst.
FourEyes ==
    \A a \in Actions :
        status[a] \in {"approved", "running", "succeeded", "failed"} \/ effects[a] > 0 =>
            /\ proposer[a] \in Users /\ MayPropose(proposer[a])
            /\ decider[a] \in Users /\ MayApprove(decider[a])
            /\ proposer[a] # decider[a]
            /\ Entry("approve", decider[a], a) \in audit

\* One worker executes an action, although the queue, a restored snapshot of
\* it and any number of recovery scans may each hand it out.
OneExecutor ==
    \A a \in Actions :
        /\ \A v, w \in Workers : Executing(v, a) /\ Executing(w, a) => v = w
        /\ (\E w \in Workers : Executing(w, a)) => status[a] = "running"

\* What the row reports agrees with the outside world: nothing happens before
\* the approval, a success happened exactly once, a failure on the
\* application was undone, and only a failure on AWS may have happened.
EffectsMatchStatus ==
    \A a \in Actions :
        /\ status[a] = "succeeded" => effects[a] = 1
        /\ status[a] \in {"running", "failed"} =>
              effects[a] <= (IF a \in AwsActions THEN 1 ELSE 0)
        /\ status[a] \notin {"succeeded", "running", "failed"} => effects[a] = 0

\* The audit rows an action must have, apart from proposals.
Story(a) == LET d == decider[a] IN
            CASE status[a] \in {"absent", "proposed"} -> {}
              [] status[a] = "rejected" -> {Entry("reject", d, a)}
              [] status[a] \in {"approved", "running"} -> {Entry("approve", d, a)}
              [] status[a] \in {"succeeded", "failed"} ->
                    {Entry("approve", d, a), Entry(status[a], d, a)}

\* The audit log tells the same story as the row at every commit: one verdict,
\* one outcome, nothing beside them, and the row's proposer among those who
\* proposed it.
AuditTellsTheStory ==
    \A a \in Actions :
        /\ {e \in audit : e.on = a /\ e.what # "propose"} = Story(a)
        /\ status[a] # "absent" => Entry("propose", proposer[a], a) \in audit
        /\ status[a] = "absent" => \A e \in audit : e.on # a

\* A running action has a worker, unless its worker died.
RunningIsHeld ==
    \A a \in Actions \ orphaned :
        status[a] = "running" => \E w \in Workers : Executing(w, a)

\* The life of an action as the API promises it.
Protocol == INSTANCE ResponseProtocol
ProtocolSpec == Protocol!Spec

\* docs/api/response-actions.md: "A database recovery scan picks up approved
\* actions after a Redis interruption."  An approved action is carried through to
\* an outcome although its push failed, its entry was lost or its caller died, as
\* long as some worker is alive, and its own does not die.
ApprovedIsSettled ==
    \A a \in Actions : status[a] \in {"approved", "running"} ~>
        \/ status[a] \in {"succeeded", "failed"} \/ a \in orphaned
        \/ \A w \in Workers : wpc[w] = "down"
=============================================================================
