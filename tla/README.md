# AI-SOC in TLA+

A verification project for the AI-SOC platform: TLA+ modules of the parts of the
system whose correctness depends on the order in which processes, commits, Redis
calls and failures happen; TLC configurations that check them on small instances;
and TLAPS proofs for all values of the constants. Paths below are relative to the
repository; `app/` stands for `backend/app/`.

## The system

AI-SOC is a FastAPI backend, a background worker, a Next.js frontend, PostgreSQL
and Redis (`infra/docker-compose.yml`). PostgreSQL runs at READ COMMITTED through
SQLAlchemy sessions that do not expire their objects on commit
(`app/db/session.py:16`). Redis holds queues, rate-limit counters, tickets and
pub/sub channels, with the image's default snapshots on a volume; its client does
not retry. The worker has no restart policy.

| Component | State | Operations | Talks to |
|---|---|---|---|
| Investigation jobs (`services/investigation_service.py`, `repositories/investigation_repository.py`, `investigation/queue.py`, `workers/investigation.py`, `investigation/workflow.py`) | a row per (incident, context hash, prompt version); a Redis list of ids | request, enqueue, claim, checkpoint, complete, fail | PostgreSQL row, then Redis list; the worker the other way round |
| Response actions (`services/response_actions.py`, its endpoints, the worker) | a row per (incident, idempotency key); a Redis list; audit rows; AWS | propose, decide, push, scan, claim, execute | PostgreSQL, Redis, AWS, the sessions table |
| Worker loop (`workers/investigation.py:115`) | time of the last scan | scan, LPOP actions, BLPOP investigations | both of the above |
| Authentication sessions (`services/auth_service.py`, `repositories/auth_repository.py`, `security/`) | refresh sessions in families, users | login, register, refresh (rotation, reuse detection), logout, change password | PostgreSQL; realtime tickets and heartbeats read it |
| Users, first admin, API keys (`services/user_service.py`, ...) | users, keys | create, update, revoke | revokes sessions |
| Throttling (`security/rate_limit.py`) | Redis counters | check, count, expire, clear | login, register |
| Event ingestion, detection, correlation (`services/event_service.py`, `detection/`, `correlation/`) | events, alerts, incidents, links | ingest, detect, correlate under identity locks, score | automatic dispatch, realtime |
| Automatic dispatch (`investigation/automation.py`) | Redis cooldown keys | claim cooldown, request, release on failure | investigation jobs |
| Autonomous response (`response/`) | policy, circuit breaker, executor, hash-chained audit | evaluate, execute, undo | workflow nodes, Redis, PostgreSQL |
| Realtime (`realtime/`, `endpoints/realtime.py`, frontend provider) | tickets, connections, bounded queues, client's seen ids and versions | publish, fan out, connect, heartbeat, de-duplicate | Redis pub/sub, sessions |
| Browser API client (`frontend/src/lib/api/client.ts`) | access token, refresh in flight | request, refresh once, retry | authentication |
| Trained models (`ml/`, `repositories/model_registry_repository.py`, `backend/scripts/`) | rows of the registry, artifact files, labelled cases | train, gate, activate, evaluate, score | event ingestion, incident pages |
| MITRE, dashboard, provider, pages, simulator | data | computation, reads, presentation | - |

What makes it hard: two stores written one after the other (commit, then RPUSH;
BLPOP, then commit); handlers that hold a copy of a row across commits; workers and
requests that die between two steps; a Redis that restarts from an older snapshot;
a push whose answer is lost; an AWS mutation no transaction covers; locks that are
taken after the read they should protect. The list of hazards, each at its line, is
in `PROJECT.json`.

What correctness means, per component:

- Investigation jobs: a job runs only when asked for, by one worker at a time; a
  queued job is not forgotten; a published result is coherent and final.
- Response actions: two people's word, one execution, a row and an audit log that
  agree with the outside world; an approval is carried out in spite of Redis.
- Sessions: a revoked family or user has no live session left; a reused token ends
  its family; there is always an active administrator.
- Correlation: related alerts end in one incident per identity, whatever order they
  are ingested in; a request that loses a circle of waits leaves nothing behind.
- Realtime: a client that lost messages converges; a ticket opens one connection.
- Throttling: a limit is overrun only by calls that were under way when it was reached;
  a lockout ends.
- Trained models: what is active was meant to be, a kind of model that has an active one
  keeps one, and what was replaced stays so.
- Investigation runs and autonomous response: an answer is about what was asked, cites
  what it was shown, and nothing is done to anybody beyond what the gate cleared or a
  caller approved.

## Modules

| Module | Role |
|---|---|
| `InvestigationLifecycle` | abstract: the life of a job as a polling client sees it |
| `InvestigationJobs` | requests, Redis list, workers, faults; refines the lifecycle |
| `MCInvestigationJobs`, `InvestigationJobsProofs` | its TLC instances, its theorems |
| `ResponseProtocol` | abstract: proposed by one, decided by another, carried out at most once |
| `ResponseActions` | endpoints, Redis list, worker with recovery scan, execution; refines the protocol |
| `MCResponseActions`, `ResponseActionsProofs` | its TLC instances, its theorems |
| `SessionFamilies` | abstract: a family has one valid token, exchanged for a new one until it ends |
| `AuthSessions` | accounts and refresh sessions as concurrent transactions; refines the families |
| `MCAuthSessions` | its TLC instances |
| `AuthSessionsProofs` | its theorems: sessions and families, the last administrator, who waits for whom |
| `LoginThrottle` | the counters of logins and registrations, one Redis command at a time |
| `MCLoginThrottle`, `LoginThrottleProofs` | its TLC instance, its theorems |
| `DetectionRules` | pure: the alerts an event raises, given the events its transaction sees |
| `CorrelationRules` | pure: related alerts, compromise, primary identity, keys, locks, risk |
| `EventPipeline` | concurrent ingests at READ COMMITTED, dispatch and announcements; uses the two above |
| `MCEventPipeline`, `EventPipelineProofs` | its TLC instances, its theorems |
| `ResponsePolicy` | pure: the policy gate in front of automatic responses |
| `InvestigationRun` | what one investigation reads, asks, checks and stores; gate, executor, undo; uses the policy; refines the lifecycle |
| `MCInvestigationRun`, `InvestigationRunProofs` | its TLC instance, its theorems |
| `BrowserApi` | the tabs of a browser, their shared cookie and lock, requests, refreshes, logins, logouts |
| `Realtime` | publishers, Redis, the fan-out, tickets, connections, the tabs' queries; composed with `BrowserApi`, through which every request of a tab goes |
| `MCRealtime`, `RealtimeProofs` | its TLC instances, its theorems |
| `ModelRegistry` | training commands, the registry, scoring and evaluation |
| `MCModelRegistry`, `ModelRegistryProofs` | its TLC instance, its theorems |

Some definitions end up unused: they are marked "Mutant" and sit before the
definition they vary. Each is a plausible bug in the code; substituting it for the
definition makes the property named in `PROJECT.json` fail, which is how each
property is shown to depend on the code.

### InvestigationJobs

`row` is the table, one row per context with the columns the properties tell apart:
status, which kind of error text, the attempt count, and for the context snapshot
and the result the number of the attempt that wrote them. `lock` is the advisory
transaction lock of a context. `queue` is the Redis list and `saved` its last
snapshot. A request (`rpc`, `rjob`) and a worker (`wpc`, `wjob`) each carry the row
as their session holds it (`rseen`, `wseen`). The flush of a session writes the
columns whose value differs from that copy and no others; `Flush` models this, and
it matters, because `fail()` and `complete()` are written from copies that may be
old.

| Actions | Code |
|---|---|
| `Locate`, `Join`, `CommitRequest` | `request_investigation` up to its commit |
| `Enqueue`, `EnqueueFails`, `EnqueueUnsure`, `RecordRefusal` | the RPUSH: done, refused, done with its answer lost; the except branch |
| `Dequeue`, `Claim`, `SkipClaim` | BLPOP; the conditional UPDATE and its commit |
| `Checkpoint`, `Complete`, `WorkflowError`, `RecordFailure` | the workflow's two commits; rollback, reload, fail |
| `RequestDies`, `WorkerDies`, `WorkerRestarts`, `RedisSnapshot`, `RedisRestarts` | faults |

The nodes between checkpoint and persistence call the provider and compute; they
write nothing another process reads before the commit of the result, apart from
what automatic responses do (see `InvestigationRun`), so they are one step that
succeeds or raises.

Two history variables scope the promises: `stray` (jobs with a Redis entry that no
request accounts for: an enqueue reported as failed that was executed, or an entry
a restored snapshot brought back) and `lost` (jobs whose entry or run vanished with
a crash). For stray jobs exclusiveness really is lost, as the run `jobs_unsure`
shows; what remains true of them (`RunsPaidFor`, and that a run starts only from
"queued") is stated for all jobs. For lost jobs liveness is lost: nothing in the
code looks for rows left queued or running (`find_stuck` has no caller).

### ResponseActions

`status`, `proposer`, `decider` are columns of the row; `audit` is the set of audit
rows about actions; `effects` counts how often an action was carried out in the
world. A call (`cpc`, `cuser`, `cact`) is one HTTP request. A worker is at the top
of its loop, in the recovery loop (`scanning`, `rest`), before LPOP, or inside
`execute_action` (`claim`, `run`, `verify`, `error`).

| Actions | Code |
|---|---|
| `Lookup`, `Replay`, `Insert`, `InsertCollides` | `propose`: the read, the idempotent answer (audited as a proposal of the caller), the insert and the unique violation |
| `Decide`, `Refuse` | `decide` under the row lock; every refused call |
| `Push`, `PushFails` | RPUSH after the commit of an approval |
| `StartScan`, `NextScanned`, `EndScan` | the scan, its list read once and executed id by id |
| `Pop`, `PopNothing` | LPOP |
| `Claim`, `SkipClaim` | the conditional UPDATE and its commit |
| `RevokeSessions` | the application action: effect, outcome and audit row in one commit |
| `Mutate`, `Verify` | the AWS call, and its read-back with the outcome |
| `ExecutionError`, `RecordFailure` | any exception; rollback, reload, failed |
| faults | as above |

`Mutate` followed by `ExecutionError` is an AWS call that took effect and whose
answer, or whose confirmation, was lost. Whether the scan is due is left to chance
at each pass of the loop, which covers every clock. A push whose answer is lost is
not an action of its own: `PushFails` and a later scan, or `Push`, reach the same
states.

**Who may approve: code and documents disagree.** `ROLE_PERMISSIONS` gives analysts
`responses:approve` (`security/permissions.py:25`), which is all the endpoint asks for, so an
analyst may decide what another person proposed. The API document says "admin only"
(`docs/api/response-actions.md:14`), the document on training "a different administrator"
(`docs/ml/incident-training.md:37`), and an integration test expects 403 for an analyst who approves
her own proposal (`tests/test_response_actions_integration.py:52-53`), whom the code, past the
permission, answers 409. `MayApprove`, and with it `FourEyes` and its theorem, follow the code: they
promise two different people, not that the second is an administrator. The smallest behaviour that breaks
the documents' rule has three steps: an administrator proposes, an analyst calls approve, the verdict is
recorded.

### AuthSessions

`account` and `session` are the committed tables `users` and `auth_sessions`;
`rowlock` and `userlock` say which transaction holds the lock of a row. A call is one
HTTP request, or the worker's action `revoke_app_sessions`, with its own transaction
at READ COMMITTED: each statement reads what is committed when it starts, and what a
call writes appears in the tables when it commits. Where a call reads one row and
only then writes, the read and the write are separate steps.

| Actions | Code |
|---|---|
| `VerifyPassword`, `OpenSession` | `login`: the user is read and the password hashed in a thread; the session inserted, `last_login_at` written, commit |
| `FindFree`, `SignUp`, `CreateAccount` | `register` and `UserService.create`: the lookup of the address; the insert, or the unique violation |
| `PresentToken`, `CheckHolder`, `Rotate` | `refresh`: the row locked and read; user and expiry; revocation of the old and insert of the new row, commit |
| `PresentForLogout` | `logout` up to `revoke_family` |
| `VerifyCurrent` | `change_password` up to `revoke_user` |
| `RevokeForAction` | the worker's call of `revoke_user` |
| `StartUpdate`, `LoadTarget`, `CheckLastAdmin`, `Save` | `UserService.update` |
| `Snapshot`, `LockRow`, `CommitRevocation` | the UPDATE of `revoke_family` and `revoke_user`, and the commit after it |
| `Rollback` | lost connection, death of the process, victim of a deadlock |

The UPDATE is three kinds of step because PostgreSQL makes it so: it fixes the rows
it can see, then locks them one by one in no promised order, waiting where another
transaction holds one, and rows committed since then are not among them. A row that
turns out to be revoked when its lock is granted stays locked. The pending change of a
`users` row is flushed before that UPDATE (autoflush), so `change_password` and
`update` hold the user's row by then (`WritesUser`); the worker's revocation changes no
user and does not. An administrator who updates their own account works on the object
that authenticated the request, which the identity map returns instead of a fresh
read; a flush writes only the columns that differ from the loaded ones (`Written`).

A token is the name of its session, and a family is named by its first session (the
code draws a uuid, to the same effect). Expiry is a choice where it is read. Requests
that are refused before they write leave an audit row and are left out, and so are
throttling (see `LoginThrottle`), `full_name`, and the comparison of a token's issue time with
`credentials_changed_at`, which only refuses more. `overlapped` is a history
variable: two updates were under way together. `Kinds` selects the requests of an
instance.

`DeadlockNeedsAction` reads `rowlock` and `todo` as a graph of waiting calls. It says
that the requests cannot wait for each other in a circle: `revoke_family` finds at most
one live row, the one its call has locked already, and two revocations of all of a user's
sessions meet first at the user's row. The worker's revocation does not take that row,
and two of them, or one next to a password change, can deadlock; PostgreSQL then
aborts one of them, which for the worker means a failed action.

### EventPipeline

`owner` says which request inserted an event row, and a row counts as committed when
its owner is in `committed`; `alerts` and `links` follow their events and their writer.
An incident has its committed `row` and at most one uncommitted `draft`, whose writer
holds the row's lock until it ends. `lockOf` are the advisory locks of the identities.
A request carries the events it has left (`queue`), the alerts of its current event
(`todo`), the alert at hand with what has been decided about it (`work`) and what it
owes after its commit (`due`). A statement sees what is committed and what its own
transaction wrote (`Visible`, `SeenAlerts`, `SeenLinks`, `Version`); what is read is used
later although others may have committed meanwhile.

| Actions | Code |
|---|---|
| `Begin` | the endpoints; a batch of findings drops those it has seen, read in one statement before any insert |
| `Store`, `NextEvent` | `create_events_bulk`, one event at a time; the unique event id makes a twin wait, then fail |
| `Relate` | `_correlate_alert` up to its key: the related alerts are read before any lock is held |
| `Lock`, `Find`, `Link`, `Save` | identity locks in the order of their names; the search for an open incident, or a new one; the links; the recomputed columns, of which only those that differ from the loaded ones are written |
| `Commit`, `Publish`, `Dispatch`, `RequestInvestigation`, `Audit` | what follows the commit, in the order of the single and of the bulk endpoint |
| `CreateManual`, `Expire` | an analyst's incident; the end of a cooldown key |
| `Deadlock`, `Crash` | PostgreSQL fails one of a circle of waiting transactions; the process dies |

The detection rules are one predicate, `Fires`, over the visible events, and the trained
model is the constant set of events it scores as anomalous. `CorrelationRules` follows
`correlation/service.py` decision by decision; where the code sorts by creation time and
the order is open, so is the model's choice.

### InvestigationRun

`InvestigationJobs` has a run's life and `InvestigationRun` what it computes: the nodes of
the graph in their order, from the context that is read in several statements, trimmed
and recited (`Read`, `EnforceSize`, `Recite`), over the provider's four answers, to
validation, policy gate, executor, verification and the stored result. A request hashes
the incident (`ReadIncident`, `HashEvidence`) and joins the run of its hash (`Join`) while
alerts are linked and evidence is attached. The provider may cite whatever exists in the
incident, in the context or not, or a reference it made up. Blocks are in Redis at once,
everything else is `pending` until the commit.

`recommendation_node` builds a new recommendation set without the action plan of the
answer, so in the graph the gate decides about an empty plan. The gate and the executor
are public, and their unit tests drive them with plans of their own; `DriveNodes` and
`DriveExecutor` are such callers, with commits, rollbacks and `Undo`. `entry` says who
drives which run. That the graph itself acts on nothing is one conjunct of
`OnlyWarrantedEffects`, and a `recommendation_node` that kept the plan would break it.

### LoginThrottle

`count` is the value of each Redis key (one per account, two per address), `timed` the keys
that have an expiry. A call is a login or a registration; `todo` are the keys it has yet to
count, or to delete. `fresh` is the key whose INCR answered 1 to this call, which owes it
its EXPIRE. `broken` is a history variable: keys whose creator failed before the EXPIRE.

| Actions | Code |
|---|---|
| `Login`, `Register` | the check of both keys in one MGET, of one key in one GET; a refused call is only audited and leaves no trace here |
| `WrongPassword`, `RightPassword` | the outcome of a login: what it has to count, or to delete |
| `Count`, `Expire` | INCR, the account's key first; EXPIRE if the answer was 1 |
| `Clear` | DEL of the account's key after a success |
| `Elapse` | a key's time to live ends |
| `Fault` | a command raises, the client goes away, the process dies |

What the calls do to users and sessions is in `AuthSessions`.

### ModelRegistry

A training command is one transaction: `status` and `metrics` are committed columns of its
row, `pc`, `kind`, `cases`, `asks` its own state, and `files` the artifacts on disk, which no
rollback removes. `earlier` is the order of `trained_at` within a kind. The UPDATE in `activate` is
three kinds of step, as in `AuthSessions`: `Scan` takes its snapshot (`seen`), `Activate` waits for
rows another transaction has changed and skips those no longer active (`off`), `Commit` shows
it all. `overlapped` is a history variable: kinds of which two activations were under way
together; then two models may end up active, and `get_active` takes the one trained last.

| Actions | Code |
|---|---|
| `Seed` | the seeding command: lab cases and public references, once |
| `StartIncident`, `FitIncident` | cases of a file, of an object of S3 or of the table; the checks, the fit, the artifact and the flushed row |
| `CommitShadow`, `GatesFail` | without `--activate`; with it and metrics below the gates |
| `StartAnomaly`, `FitAnomaly` | `train_model`, whose model is always activated |
| `Scan`, `Activate`, `Commit` | `activate` and the command's commit |
| `Fail` | any exception or death: `Forget` is the rollback. The status "failed" of `training.py:76` is flushed and then rolled back, so no row ever shows it |
| `NewService`, `Score`, `Classify` | a request's service, `score_event` with the artifact it keeps, `classify_incident` |
| `ReadForEvaluation`, `PersistEvaluation` | the evaluation command: the read, and much later the write of the metrics |

Features, the fit and the metrics are data: a fit passes its gates or fails them, and a file
or an object of S3 holds any set of cases that have a time. A command that fails its gates
raises after it has flushed its row, and is rolled back with it: the operator reads that the
model "remains in shadow mode" (`incident_classifier.py:142`), but no row of it is left.

### BrowserApi and Realtime

A browser is one of several scenarios (`Browsers`): its tabs, whether it has Web Locks,
and how many logins, refreshes and faults there may be. The tabs share the `cookie`; each
has its access token, its refresh under way and its requests. `RefreshSession` is the
shared promise of `client.ts:111`, `SendRefresh` the moment the cookie is attached,
`ServeRefresh` the rotation of `AuthSessions` reduced to one accepted token per family (its
transactions are the matter of that module, not of this one),
`ReceiveRefresh` and `RefreshFails` the ends of `performRefresh`. Login, logout with its
broadcast, the refresh timer and the expiry of tokens and families complete the module.

Two details decide what the cookie says. `SignOut` ends the family of whatever token the
cookie holds, exchanged or not: `logout` compares the token with the row it names and
revokes the row's family without asking whether the row is still valid. And a refused refresh leaves
the cookie: `endpoints/auth.py:98` deletes it on a response that the exception of the next
line replaces, so a browser presents a refused token until a login or a logout
sets the cookie anew.

A logout takes no refresh lock, so it may be served between an exchange and the reply that
brings the new token. `SessionContinues` says that no tab is left with a session that the server
keeps and the browser cannot renew: such a logout ends the family in spite of its old token,
and its reply, which clears the cookie, comes when no family of that cookie lives.
`overtaken` is a history variable: a login was made while a refresh or a logout was on its way or
another tab had a session. Then the late reply, which sets the cookie too, may put back the
old family's token or clear the new one, and a second login replaces the first one's token. The
code does nothing about it, and `SessionContinues` leaves these cases out.

`Realtime` adds topics (one message type of one entity each) with their committed state
(`truth`), the messages owed for committed writes, the subscribed backend, tickets in
Redis, connections with bounded queues, and per tab its socket, the newest version seen
of each topic, and its queries: `dirty` ones are fetched, `asked` ones are under way,
`view` is what is shown. A version is the time of a flush, in no order of the commits, or
always 1. TanStack Query's `invalidateQueries` cancels and repeats a fetch under way unless
it is the first one of its query (`Joined`).

`gap` is a history variable: the topics about which a tab was not told since its connection
opened, by a lost publication, a full queue, a message taken for old, or one that came while
a first fetch was under way; and the topics whose fetch failed. `QuietMeansFresh` promises
the committed state for all other topics: it rests on the refetch at `onopen`, after any loss
before. `realtime-provider.tsx:95` drops messages that are not newer, equal versions
included, while `docs/architecture/realtime.md` speaks of older ones; for
`investigation.queued`, always version 1, a second message within one page is therefore
dropped.

## Runs

| Run | Question | Bounds |
|---|---|---|
| `jobs` | all properties, the refinement of `InvestigationLifecycle` included, and that every job settles | 2 jobs, 3 requests (the third once a worker is down), 2 workers, 1 crash, unsure enqueues, Redis restarts; 540 thousand states |
| `jobs_unsure` | does a lost answer duplicate provider calls? It does | 1 job, 2 requests, 2 workers, no crash |
| `actions` | all properties, the refinement of `ResponseProtocol` included, and that approvals are carried through | an application and an AWS action, analyst and admin, 4 calls (the fourth once a worker is down), 2 workers, 2 crashes, scan limit 1; 480 thousand states |
| `sessions_safety` | the refinement of `SessionFamilies`, what a logout leaves behind, who can deadlock, the last administrator when updates come in turn | 3 calls of every kind on accounts and sessions, with symmetry |
| `sessions_password` | does a password change revoke every session? It does not | 1 user, 2 calls |
| `accounts_last_admin` | is the last administrator kept? Not when updates overlap | 2 administrators, 2 updates |
| `event_pipeline` | one incident per key, nothing missed, whole batches, side effects after the commit, earned cooldowns | 3 requests, 11 events, 3 incidents, thresholds of 1 and 2; five workloads |
| `event_timelines` | does a timeline hold every linked alert? It does not | two attacks that share an identity only with a manual incident |
| `investigation_run` | answers cover what was asked, cite what they saw, and do nothing to anybody unapproved; the refinement of `InvestigationLifecycle` | 2 requests, 2 runs, 2 alerts, 2 pieces of evidence, contexts of 5 items; 2.3 million states, with symmetry |
| `realtime` | no self-inflicted reuse, a session that lives can be renewed, a quiet tab is fresh | 1 topic, queues of 1, 1 connection, 1 reconnection; eight scenarios; 3.4 million states |
| `login_throttle` | limits are overrun only by calls in flight, counters last only by a fault, lockouts end | 3 calls, 1 account, 1 address, limits of 2, 3 and 2; 210 thousand states |
| `model_registry` | active models are warranted, a kind keeps one, one at a time in turn, replaced stays replaced | 3 trainings, 1 service, 1 evaluation, 4 cases (lab, approved, not reviewed, without events); 440 thousand states, with symmetry |

Why the bounds suffice. Three requests allow one job to be created, refused or
failed, queued again, and joined meanwhile, the third of them when one worker is left (an
action constraint of `MCInvestigationJobs`, which binds only what no fairness promises, so
liveness is not affected); two jobs show that their entries do not
mix in the list; two workers race for one entry; `CrashBudget` 1 allows any single
fault at any point (a death of a request or of a worker, or a restart of Redis), and refused or
unsure pushes and workflow errors are not counted against it. Four calls allow two
actions to be proposed and decided, or one to be proposed twice, decided twice and
replayed; the fourth comes, as above, when one worker is left. The analyst stands for all
who may propose, and calls nobody may make are refused like the others. A scan limit of 1 with two approved actions is the code's 100 with 101. Three calls on one
user's sessions allow a replay, a rotation and a revocation to meet, or two revocations of
both families next to a refresh; session tables of different users do not touch. Three calls
on accounts allow an account to be created and the two older administrators to be removed
after it. The
bound on crashes is the only bound inside the modules of jobs, actions and sessions; the
constants bound the rest, and the proofs need neither.

The workloads of `event_pipeline` are: one user attacked twice at once; one attack sent twice
at once and followed up; an attack followed up by single events; two attacks that share an
identity only with a manual incident; and one finding sent in opposite orders by two batches,
so that batches meet on event ids, locks, links and rows, and wait for each other in circles.
Thresholds of 1 and 2 let every rule fire; a window that just ends is in the times of the
events. A context of 5 items is cut by two alerts and one piece of evidence, and one of
each kind stays. With a queue of 1 the second message evicts the first; a tab that
has met one eviction, one loss and one reconnection has met what the code treats
differently. The scenarios of `MCRealtime` bound per browser what may happen: a tab shown
the writes of others (stamped, or without versions), or its own; a token that expires; a session
that ends and a new login; two tabs that share the lock, on one session with a fault or on two
sessions; two tabs without Web Locks. Faults (losses, expiries, restarts)
are counted, two at most in a scenario. Without Web Locks `withBrowserRefreshLock` calls its callback
at once (`client.ts:90`): two tabs then refresh side by side and may present one token twice, which ends
their family. `NoSelfInflictedReuse` and `SessionContinues` promise nothing there (`Exclusive`); the
other properties hold in such browsers too.

Three calls and limits of 2 and 3 let calls pass the check together and overrun a limit, and a
success delete a key between another call's INCR and EXPIRE. Three trainings are two that
overlap and one that was replaced before. One case of each kind is refused or accepted at each of
the places where the code decides about it.

The type invariants of `ResponseActions`, `AuthSessions`, `EventPipeline`, `LoginThrottle` and
`ModelRegistry` are among the theorems and not among the properties of their runs, and so are `RunningIsHeld` and
`ReportsWhatItUsed`.

TLC's deadlock check is off: when all requests have been served and the queue is empty
the model, like the system, waits; a login that is refused leaves no trace, so counters that last
can also stop `LoginThrottle`, and trainings, which happen once each, end in `ModelRegistry`. Circles of calls that wait for row locks are
stated as an invariant of `AuthSessions` instead.

Fairness. `InvestigationJobs` and `ResponseActions` assume weak fairness of each
worker's next step: a live worker never stops looping, its calls to Redis,
PostgreSQL, AWS and the provider return or raise (the provider's client has a
timeout, `app/core/config.py:37`), and the recovery scan comes due every minute.
`InvestigationJobs` assumes also that a request that has begun runs to its end
unless it dies. `LoginThrottle` assumes that a call which has made a key sends its EXPIRE or
fails, and that Redis ends the time to live of a key that has one. The other modules state
no liveness and assume no fairness. No fairness
is assumed of clients, of restarts (the worker has no restart policy) or of Redis's
snapshots; the liveness properties except what a
crash took: `EveryJobSettles` a job lost with it, `ApprovedIsSettled` an action whose executor
died and the time when every worker is down, `LockoutsEnd` a counter whose creator failed.

## What the violations show

`jobs_unsure`: the worker pops and claims a job whose RPUSH was executed while the
request, which saw an exception, writes "failed" over the running row from its stale
copy (`investigation_service.py:102-107`). The next request finds a failed job,
queues it again, and a second worker runs it beside the first. The documentation
promises that repeating a request does not duplicate provider calls.

`event_timelines`: the advisory locks name the identity of the new alert, not of the incident
it joins. Two transactions whose identities differ, one matching an open incident by user and
one by address, hold different locks; each recomputes timeline, score and last_seen from the
links it sees, and the later flush overwrites the earlier one. A linked alert is then missing
from the timeline, which a test of the repository promises to preserve
(`test_incident_merge_preserves_all_linked_alerts_in_timeline`).

`sessions_password`: the password change takes the snapshot of its UPDATE, then a login
that verified the old password commits its session, or a refresh commits the replacement
of the row the UPDATE is waiting for; the change commits and that session is live. A
login or refresh may also have read its user before the change and commit after it,
which no statement of the change could see. The API document says "revoke every
session", and the answer of the route "all sessions revoked". Access tokens issued
before the change are refused by `credentials_changed_at`; the surviving refresh token
obtains new ones.

`accounts_last_admin`: two updates, each removing one of two administrators, count two
active administrators before either commits; afterwards there is none, and no user is
left who may appoint one. `AdminRemainsInTurn` shows that this needs an overlap.

## Proofs

Eight components are proved, for arbitrary sets of jobs, actions, people, calls, workers,
events, requests, runs, plans, tabs, messages, limits, models and cases, any number of crashes and any setting of the
switches. The assumptions are
`JobsAssumption` (the "none" values are not members; finitely many requests, so that
they can be counted), `ResponseAssumption` (types of the constants), and, for the
sessions, `NamesAssumption`, `KindsAssumption` and `FirstAssumption`: the tables of the
start are any tables that rotations and revocations can leave behind. For events, the
`NamesAssumption` of `EventPipeline` says that "none" is nobody's name, and
`ThresholdsArePositive`, `WindowsAreNumbers` and `EventDataTyped` type the settings and the events;
for browsers, `BrowsersAssumption` types the scenarios and says that "none" is no token,
and `RealtimeAssumption` types what may happen and says that a queue has room for a message. In `InvestigationRun`, `SizesAssumption` says that a context
keeps something of what it shows, `PlansAssumption` and `AnswersAssumption` type plans, their
actions and confidences, and say that "none" is no answer, and `CastsAssumption` names who may
drive a run. `LimitsAssumption` says that limits are positive (the settings are, `config.py`),
`CallsAssumption` that calls are finitely many, so that they can be counted;
`ModelsAssumption` that "none" is no model, `CasesAssumption` that dated cases are cases.

`InvestigationJobsProofs`. `TypeOK` is inductive by itself. `RunsPaidFor` is not: a
claim raises the attempt count and no request appears. The invariant `PaidInv` counts
a queued row as owing one run (`Owed`): a request adds one to both sides when it
queues, a claim spends what was owed. `SoleCarrier`, `SingleRunner` and
`CompletedIsCoherent` are proved together as `CleanInv`, because each needs the
others: the id is in one place *and* the row agrees with the place *and* at most one
worker runs it, which is why the unconditional writes of `fail()` and `complete()`
are harmless for jobs that are not stray; `LockHeld` excludes a second request
between lookup and commit. `CompletedIsFinal` and the refinement `LifecycleSpec`
follow step by step from it. `QueuedIsCarried` needs its own invariant
(`CarriedInv`), since it is about all jobs that are not lost, stray ones included: a
refused request's copy says "queued", so its failure mark always overwrites the status.

`ResponseActionsProofs`. A step concerns one action, so the invariant `ResponseInv`
is a conjunction over actions of `Sound`: who is on the row (`People`), who executes it
and how far it got (`Execution`), `Effect`, and `Told`, the audit log element by element.
`SameIsSound` says once that a step that leaves an action alone keeps it sound; every
other case is about the one action the step touches. The pivot is `Execution`: the claim
makes a worker the only executor, whose program counter then fixes how often the action
was carried out. `FourEyes`, `OneExecutor`, `EffectsMatchStatus`, `AuditTellsTheStory`,
`RunningIsHeld` and the refinement `ProtocolSpec` follow.

`AuthSessionsProofs`. That a family has one live session (`Sole`) is not inductive
alone: two refreshes of one token must exclude each other. `SessionInv` adds what each
call holds (`Holds`): a refresh or logout past its first read has the lock of its
token's row; one that is about to rotate found it live, and it still is, because any revocation
of that row would have to wait for the lock; a revocation has the locks of the rows it saw
except those in `todo`. `Named` says that the family of a session is a session that
exists, so a new session id starts a family nobody is in. Each action has a lemma
that it keeps the invariant (`StartKeeps`, `PresentKeeps`, `RotateKeeps`, ...), `Frame`
collecting what the calls other than the one that moves rely on. `HeldFamilyDies`
and the refinement `FamiliesSpec` follow: `OpenBegins`, `RotateRotates` and `CommitEnds`
map the three kinds of commit that change the table to the three abstract actions.

Also in `AuthSessionsProofs`: the accounts. `AnAdminRemainsInTurn` assumes an active administrator at the start.
`TurnInv` says, while updates have not overlapped, that an administrator exists, that at most
one update is under way, that the row it has loaded is still the committed one, and that
once it has passed the check and is about to remove its administrator another one is there. No
other call lowers a role or deactivates an account (`Calm`), so the answer of the count is
still true at the commit.

And who waits for whom. A refresh or logout that waits presents a token that is already dead, or
waits for the lock of a row it has not read; a revocation takes only rows that were valid when
its UPDATE began. Hence among blocked refreshes and logouts one always waits for none of the
others (`Chain`), because the wait-for relation only grows at its end: no circle. A circle
with a revocation of a user in it needs two of them, and two by requests
have met at the user's row (`TwoAreAction`).

`EventPipelineProofs`. Four layers, each invariant assuming the ones before. `Types`. `Whole`:
what is committed is a whole transaction, and what is announced is committed. `Filed`: whoever
has looked for an incident, or is giving a row a new key, holds the advisory locks
of that key until the commit (`Filing`, `Drafted`), so nobody else can open one under it.
`Missed`: a success with its initial access is tracked from the alerts to do, over the
candidates and the missing links, to the links (`Tracked`), while the commits of others only
add to what is visible. `PipelineTypes` adds `Alerted`: an alert names a rule and an event, and
its first time is a number, wherever it is carried.

`InvestigationRunProofs`. What trimming does is proved first, as lemmas about pieces of
sequences: a context that was cut says so, keeps something of each kind it had, and recites
exactly what it still shows. `TypeInv` adds to the types what the driver of a run and
its progress say about its context (`Placed`). On it stand three invariants. `WarrantInv`: the
confidence is capped where it is raised, and citations, which may be of anything before,
are of the context from validation on. `CoverInv`: the hash of a run is of what the
incident held, so everything the run reads later covers it unless cut, while a request
has seen at least what there was when it came. `EffectInv`: whoever may be acted upon is approved
or concerned and unprotected; that set only widens (`Widens`), and what is pending, done or could be
undone lies within it. For `RunTypes`, `LimitInv` adds what the type invariant says across variables:
evidence that is being attached is not there yet, a request is answered by a run, a run
has done no more than it decided, and has a result exactly when it has completed.

`InvestigationJobs` has one step for all nodes of the graph, `InvestigationRun` has one row for all
of a job's queues and workers. What makes them two views of one system is that both refine
`InvestigationLifecycle`: `LifecycleSpec` of `InvestigationRun` maps every node to "running"
(`RowStatus`), and a run that no request asked for to no row. `RunLives` goes through the steps of
a run; `Placed` is needed to know that what callers do by themselves never moves a row.

`RealtimeProofs`. `ApiInv` is about the API client alone, and every step of `Realtime` is a step of it
or leaves it alone. A tab has one refresh, and the one under way in a browser holds the lock
(`Shared`); no token is of a family still to be made (`Issued`); and the token the server
expects is in the cookie or in the one reply under way (`InTurn`). A reply that is lost breaks
the last part, and so do refreshes side by side: the two exceptions of `NoSelfInflictedReuse`. The
rest of `ApiInv` holds in any browser, with Web Locks or without.

`Continues` stands on it and gives `SessionContinues`. As long as no login crossed anything: the
refresh under way is of the cookie's family, or of one that ended (`OneCookie`); while a logout
waits for its reply, no family of the cookie lives (`LogoutEnds`), so clearing the cookie takes
nothing from anybody; and what a tab holds can be renewed (`Renewable`). `OneCookie` is what makes
a rotation renew the sessions that are held and no others; `SignInContinues` is where crossing
matters.

`Typed` types the rest (queues within their size, views never ahead of the truth, connections
within their number). `QuietMeansFresh` speaks of a moment at which nothing is under way, so
`Fresh` says of every moment and each topic a connected tab does not miss (`Told`): it is shown, or
is to be fetched, or a fetch is under way whose answer will be current, or a message about it is
in the tab's queue or owed by a publisher. Every step either leaves this (`UnmovedStays`), moves a topic
one place along that chain, or puts it in `gap`.

`LoginThrottleProofs`. `OverrunByCallsInFlight` is inductive with the types, because it counts
what may still be counted with what is: a check finds its keys below their limits and adds one
call (`OneMore`), a count moves one from one side to the other, and nothing else adds
(`NoFurther`). `LastingOnlyByFault` follows a key from the INCR to its EXPIRE through deletions:
a key that is gone has no duty left, and the next INCR finds a new creator.

`ModelRegistryProofs`. `Warrants` carries what was checked to the activation: approved cases from the
fit on, passed gates from the UPDATE on; `Subjects` keeps evaluations, which rewrite metrics, away from
classifiers. `Locks`: who has set a row inactive is alone with it, it is of the same kind and still
active for everybody else, so only a commit that shows a new active model shows an old one
inactive (`AlwaysAModel`), and none turns an inactive row active (`RetiredForGood`).
`Turns` says of kinds without overlapping activations that the UPDATE has seen all there is.
`StatusStep` and `KindStep` say what any step does to the two columns; the action properties
follow from them.

Only model-checked: liveness (`EveryJobSettles`, `ApprovedIsSettled`, `LockoutsEnd`), which is
beyond this prover. Every invariant, action property and refinement that a run checks is a theorem.

## Not modelled

In jobs and actions: wording, payloads and realtime publications (best effort, after the
commit); the queue's delayed set, dead letters and cancellation, `schedule_retry`, `cancel`
and `find_stuck`, which no code calls; a commit whose outcome is unknown to its caller;
changes of role and of settings while the system runs; the validation of evidence references
and of AWS targets, which appear as calls refused or executions that raise.

In the event pipeline: the normalisation of an event's fields; windows by clock (an event
has its time, and a search its window, as data of the instance); liveness, since TLC needs more than
five minutes to evaluate the fairness of so many actions.

In investigation runs: the wording of prompts and answers; the circuit breaker's recording, the
kill switch, the hash chain of the audit and `cloud_connector`, which no running code calls.
`MockProvider` answers schema `RecommendationSet` while the workflow asks for
`PlannedRecommendationSet`, so a run with the mock provider fails at its recommendations; the
model's provider is one that answers what it is asked.

In realtime and the browser: several API processes (one is modelled); the list of seen message
ids, which the versions make redundant here; the repeated firing of the refresh timer; how
often a query is retried; the capacity check in `manager.connect`, which precedes an `await`
(one step here). A bootstrap refresh that fails by the network leaves the page loading;
a late answer to a refresh or a logout may overwrite or clear the cookie of a newer login; a late
answer to a refresh shows a tab signed in again after its logout, with a session that has
ended; two tabs without Web Locks may end their own session: the model has these behaviours, and no
property promises otherwise.

The worker runs both queues in one loop. They share no data and are modelled one by one; the
death of the process is a fault of each. What a run does to users reaches `AuthSessions` as the
revocation by an action.

In throttling and trained models: the length of a window (it ends some time); a failed EXPIRE that
was executed (it is `Expire` and then `Fault`); an artifact that is deleted or changed on disk; the
reading of S3 and its plan; two models of one kind trained in the same microsecond, whose versions
would be equal.

Left out altogether: API keys (rows without protocol), MITRE and dashboard reads, the pages'
presentation, notes and playbook steps, the simulator, migrations and the other scripts.
