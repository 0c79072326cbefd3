-------------------------- MODULE InvestigationJobs --------------------------
(***************************************************************************)
(* AI investigation jobs: the API request that creates or re-queues a job  *)
(* (InvestigationService.request_investigation), the Redis list that       *)
(* carries its id, and the worker that claims and runs it                  *)
(* (process_investigation and the investigation branch of run_worker).     *)
(*                                                                         *)
(* The job's row is in PostgreSQL, its id in a Redis list; the two stores  *)
(* are written one after the other, never atomically.  Every handler is    *)
(* split at its commits and its Redis calls, the points where another      *)
(* process can run or the handler can die.                                 *)
(*                                                                         *)
(* A database session keeps a copy of the row it loaded (the SQLAlchemy    *)
(* identity map; expire_on_commit is off) and a flush writes only the      *)
(* columns whose value differs from that copy: see Flush.                  *)
(***************************************************************************)
EXTENDS Naturals, Sequences, FiniteSets

CONSTANTS
    Jobs,            \* contexts: (incident, context hash, prompt version), one row each
    Requests,        \* POST /incidents/{id}/investigations handlers, one call each
    Workers,         \* worker processes
    NoJob,           \* "none" for a worker's or a request's job
    NoRequest,       \* "none" for the holder of a context lock
    UnsureEnqueue,   \* TRUE when a push may succeed although its caller sees an error
    RedisMayRestart, \* TRUE when Redis may restart from an older snapshot of its data
    CrashBudget      \* bound on the deaths of requests and workers and on Redis restarts

ASSUME JobsAssumption == /\ NoJob \notin Jobs
                         /\ NoRequest \notin Requests
                         /\ IsFiniteSet(Requests)
                         /\ UnsureEnqueue \in BOOLEAN
                         /\ RedisMayRestart \in BOOLEAN
                         /\ CrashBudget \in Nat

VARIABLES
    row,      \* row[j]: the committed row of job j in PostgreSQL
    lock,     \* lock[j]: the request that holds the advisory lock of context j
    queue,    \* the Redis list of job ids
    saved,    \* the copy of that list in Redis's last snapshot on disk
    rpc,      \* rpc[r]: where request r stands
    rjob,     \* rjob[r]: the job request r is about
    rseen,    \* rseen[r]: the row as the session of r last loaded or wrote it
    wpc,      \* wpc[w]: where worker w stands
    wjob,     \* wjob[w]: the job worker w holds
    wseen,    \* wseen[w]: the row as the session of w last loaded or wrote it
    crashes,  \* deaths and restarts so far
    stray,    \* history: jobs with a Redis entry that no request accounts for
    lost      \* history: jobs whose entry or run vanished with a crash

dbVars  == <<row, lock>>
reqVars == <<rpc, rjob, rseen>>
wrkVars == <<wpc, wjob, wseen>>
histVars == <<crashes, stray, lost>>
vars == <<row, lock, queue, saved, rpc, rjob, rseen, wpc, wjob, wseen,
          crashes, stray, lost>>

-----------------------------------------------------------------------------
(* Rows.  snapshot and result name the attempt that wrote them (0: none).   *)

Statuses == {"absent", "queued", "running", "completed", "failed"}
Errors == {"none", "enqueue", "workflow"}

Row == [status : Statuses, error : Errors,
        snapshot : Nat, result : Nat, attempts : Nat]

NoRow == [status |-> "absent", error |-> "none",
          snapshot |-> 0, result |-> 0, attempts |-> 0]

Emit(stored, loaded, assigned) == IF assigned = loaded THEN stored ELSE assigned

\* What a flush leaves in the table: an attribute assigned the value the
\* session already holds is not part of the UPDATE.
Flush(stored, loaded, assigned) ==
    [status   |-> Emit(stored.status, loaded.status, assigned.status),
     error    |-> Emit(stored.error, loaded.error, assigned.error),
     snapshot |-> Emit(stored.snapshot, loaded.snapshot, assigned.snapshot),
     result   |-> Emit(stored.result, loaded.result, assigned.result),
     attempts |-> Emit(stored.attempts, loaded.attempts, assigned.attempts)]

\* Another status and error; context, result and attempt count are kept.
Marked(seen, status, why) ==
    [status |-> status, error |-> why,
     snapshot |-> seen.snapshot, result |-> seen.result, attempts |-> seen.attempts]

\* The row request_investigation inserts.
NewRow == Marked(NoRow, "queued", "none")

\* InvestigationRepository.requeue, as it is called: attempts are not reset.
Requeued(seen) == Marked(seen, "queued", "none")

\* Mutant: fail() called with a status of its own.
DeadLettered(seen, why) == Marked(seen, "dead_letter", why)

\* InvestigationRepository.fail
Failed(seen, why) == Marked(seen, "failed", why)

\* The UPDATE of InvestigationRepository.claim.
Claimed(stored) ==
    [status |-> "running", error |-> "none",
     snapshot |-> stored.snapshot, result |-> stored.result,
     attempts |-> stored.attempts + 1]

\* InvestigationRepository.checkpoint_context
Checkpointed(seen) ==
    [status |-> seen.status, error |-> seen.error,
     snapshot |-> seen.attempts, result |-> seen.result, attempts |-> seen.attempts]

\* InvestigationRepository.complete
Completed(seen) ==
    [status |-> "completed", error |-> "none",
     snapshot |-> seen.attempts, result |-> seen.attempts, attempts |-> seen.attempts]

-----------------------------------------------------------------------------
Init == /\ row = [j \in Jobs |-> NoRow]
        /\ lock = [j \in Jobs |-> NoRequest]
        /\ queue = <<>>
        /\ saved = <<>>
        /\ rpc = [r \in Requests |-> "new"]
        /\ rjob = [r \in Requests |-> NoJob]
        /\ rseen = [r \in Requests |-> NoRow]
        /\ wpc = [w \in Workers |-> "idle"]
        /\ wjob = [w \in Workers |-> NoJob]
        /\ wseen = [w \in Workers |-> NoRow]
        /\ crashes = 0
        /\ stray = {}
        /\ lost = {}

-----------------------------------------------------------------------------
(* The API request.                                                         *)

\* Mutants: a request also queues a job that is waiting, under way or done.
MustQueueWaiting == {"absent", "failed", "queued"}
MustQueueStuck == {"absent", "failed", "running"}
MustQueueDone == {"absent", "failed", "completed"}

\* Statuses that make a request queue the job.
MustQueue == {"absent", "failed"}

\* Takes the context lock and finds no row, or a failed one.
Locate(r, j) == /\ rpc[r] = "new"
                /\ lock[j] = NoRequest
                /\ row[j].status \in MustQueue
                /\ lock' = [lock EXCEPT ![j] = r]
                /\ rpc' = [rpc EXCEPT ![r] = "found"]
                /\ rjob' = [rjob EXCEPT ![r] = j]
                /\ rseen' = [rseen EXCEPT ![r] = row[j]]
                /\ UNCHANGED <<row, queue, saved, wrkVars, histVars>>

\* Finds a job that is queued, running or completed and answers with it; the
\* lock goes with the commit that follows, and nothing is written.
Join(r, j) == /\ rpc[r] = "new"
              /\ lock[j] = NoRequest
              /\ row[j].status \notin MustQueue
              /\ rpc' = [rpc EXCEPT ![r] = "joined"]
              /\ rjob' = [rjob EXCEPT ![r] = j]
              /\ UNCHANGED <<dbVars, queue, saved, rseen, wrkVars, histVars>>

\* Inserts the row or re-queues it, commits, and releases the lock with it.
CommitRequest(r) ==
    LET j == rjob[r]
        new == IF rseen[r].status = "absent" THEN NewRow ELSE Requeued(rseen[r])
    IN  /\ rpc[r] = "found"
        /\ row' = [row EXCEPT ![j] = IF rseen[r].status = "absent"
                                        THEN NewRow
                                        ELSE Flush(row[j], rseen[r], new)]
        /\ lock' = [lock EXCEPT ![j] = NoRequest]
        /\ rseen' = [rseen EXCEPT ![r] = new]
        /\ rpc' = [rpc EXCEPT ![r] = "committed"]
        /\ UNCHANGED <<queue, saved, rjob, wrkVars, histVars>>

\* Mutant: only a job that never ran is pushed.
EnqueueIfNew(r) == /\ rpc[r] = "committed"
                   /\ queue' = IF rseen[r].attempts = 0
                                  THEN Append(queue, rjob[r])
                                  ELSE queue
                   /\ rpc' = [rpc EXCEPT ![r] = "accepted"]
                   /\ UNCHANGED <<dbVars, saved, rjob, rseen, wrkVars, histVars>>

\* RPUSH answers: the client gets 202.
Enqueue(r) == /\ rpc[r] = "committed"
              /\ queue' = Append(queue, rjob[r])
              /\ rpc' = [rpc EXCEPT ![r] = "accepted"]
              /\ UNCHANGED <<dbVars, saved, rjob, rseen, wrkVars, histVars>>

\* RPUSH raises and Redis never saw it.
EnqueueFails(r) == /\ rpc[r] = "committed"
                   /\ rpc' = [rpc EXCEPT ![r] = "refused"]
                   /\ UNCHANGED <<dbVars, queue, saved, rjob, rseen, wrkVars, histVars>>

\* RPUSH is executed but its answer is lost: the caller sees the same exception.
EnqueueUnsure(r) == /\ UnsureEnqueue
                    /\ rpc[r] = "committed"
                    /\ queue' = Append(queue, rjob[r])
                    /\ rpc' = [rpc EXCEPT ![r] = "refused"]
                    /\ stray' = stray \cup {rjob[r]}
                    /\ UNCHANGED <<dbVars, saved, rjob, rseen, wrkVars, crashes, lost>>

\* The except branch: fail() on the session's copy, commit, answer 503.
RecordRefusal(r) ==
    LET j == rjob[r] IN
    /\ rpc[r] = "refused"
    /\ row' = [row EXCEPT ![j] = Flush(row[j], rseen[r], Failed(rseen[r], "enqueue"))]
    /\ rpc' = [rpc EXCEPT ![r] = "rejected"]
    /\ UNCHANGED <<lock, queue, saved, rjob, rseen, wrkVars, histVars>>

RequestStep(r) == \/ \E j \in Jobs : Locate(r, j) \/ Join(r, j)
                  \/ CommitRequest(r)
                  \/ Enqueue(r) \/ EnqueueFails(r) \/ EnqueueUnsure(r)
                  \/ RecordRefusal(r)

\* The API process dies, or its next commit fails: the open transaction is
\* rolled back (which frees the lock) and what the handler had still to do is lost.
RequestDies(r) ==
    /\ crashes < CrashBudget
    /\ rpc[r] \in {"found", "committed", "refused"}
    /\ crashes' = crashes + 1
    /\ IF rpc[r] = "found"
         THEN /\ lock' = [lock EXCEPT ![rjob[r]] = NoRequest]
              /\ rpc' = [rpc EXCEPT ![r] = "aborted"]
              /\ UNCHANGED lost
         ELSE /\ rpc' = [rpc EXCEPT ![r] = "died"]
              /\ lost' = lost \cup {rjob[r]}
              /\ UNCHANGED lock
    /\ UNCHANGED <<row, queue, saved, rjob, rseen, wrkVars, stray>>

-----------------------------------------------------------------------------
(* The worker.                                                              *)

\* BLPOP removes the id from the list before anything is known of the job.
Dequeue(w) == /\ wpc[w] = "idle"
              /\ queue # <<>>
              /\ wjob' = [wjob EXCEPT ![w] = Head(queue)]
              /\ queue' = Tail(queue)
              /\ wpc' = [wpc EXCEPT ![w] = "popped"]
              /\ UNCHANGED <<dbVars, saved, reqVars, wseen, histVars>>

\* Mutant: the UPDATE of claim() has no condition on the status.
ClaimAnyStatus(w) ==
    LET j == wjob[w] IN
    /\ wpc[w] = "popped"
    /\ row' = [row EXCEPT ![j] = Claimed(row[j])]
    /\ wseen' = [wseen EXCEPT ![w] = Claimed(row[j])]
    /\ wpc' = [wpc EXCEPT ![w] = "claimed"]
    /\ UNCHANGED <<lock, queue, saved, reqVars, wjob, histVars>>

\* Mutant: the session keeps the row as it was before the UPDATE.
ClaimStaleCopy(w) ==
    LET j == wjob[w] IN
    /\ wpc[w] = "popped"
    /\ row[j].status = "queued"
    /\ row' = [row EXCEPT ![j] = Claimed(row[j])]
    /\ wseen' = [wseen EXCEPT ![w] = row[j]]
    /\ wpc' = [wpc EXCEPT ![w] = "claimed"]
    /\ UNCHANGED <<lock, queue, saved, reqVars, wjob, histVars>>

\* claim(): UPDATE ... WHERE id = ... AND status = 'queued', then commit.
Claim(w) ==
    LET j == wjob[w] IN
    /\ wpc[w] = "popped"
    /\ row[j].status = "queued"
    /\ row' = [row EXCEPT ![j] = Claimed(row[j])]
    /\ wseen' = [wseen EXCEPT ![w] = Claimed(row[j])]
    /\ wpc' = [wpc EXCEPT ![w] = "claimed"]
    /\ UNCHANGED <<lock, queue, saved, reqVars, wjob, histVars>>

\* Back to the loop: the session is closed and its copy of the row is gone.
Release(w) == /\ wpc' = [wpc EXCEPT ![w] = "idle"]
              /\ wjob' = [wjob EXCEPT ![w] = NoJob]
              /\ wseen' = [wseen EXCEPT ![w] = NoRow]

\* claim() matches no row: the entry is dropped.
SkipClaim(w) == /\ wpc[w] = "popped"
                /\ row[wjob[w]].status # "queued"
                /\ Release(w)
                /\ UNCHANGED <<dbVars, queue, saved, reqVars, histVars>>

\* load_incident_node: the context is built, saved in the row and committed.
Checkpoint(w) ==
    LET j == wjob[w]
        new == Checkpointed(wseen[w])
    IN  /\ wpc[w] = "claimed"
        /\ row' = [row EXCEPT ![j] = Flush(row[j], wseen[w], new)]
        /\ wseen' = [wseen EXCEPT ![w] = new]
        /\ wpc' = [wpc EXCEPT ![w] = "loaded"]
        /\ UNCHANGED <<lock, queue, saved, reqVars, wjob, histVars>>

\* The provider calls succeed; persistence_node writes the result and the
\* worker commits it.
Complete(w) ==
    LET j == wjob[w] IN
    /\ wpc[w] = "loaded"
    /\ row' = [row EXCEPT ![j] = Flush(row[j], wseen[w], Completed(wseen[w]))]
    /\ Release(w)
    /\ UNCHANGED <<lock, queue, saved, reqVars, histVars>>

\* Any exception of the workflow or of its last commit: the transaction is
\* rolled back, which expires the session's copy, and the row is read again.
WorkflowError(w) == /\ wpc[w] \in {"claimed", "loaded"}
                    /\ wseen' = [wseen EXCEPT ![w] = row[wjob[w]]]
                    /\ wpc' = [wpc EXCEPT ![w] = "failing"]
                    /\ UNCHANGED <<dbVars, queue, saved, reqVars, wjob, histVars>>

\* Mutant: the failure is flushed but never committed.
RecordFailureUncommitted(w) == /\ wpc[w] = "failing"
                               /\ Release(w)
                               /\ UNCHANGED <<dbVars, queue, saved, reqVars, histVars>>

\* ... and marked failed.
RecordFailure(w) ==
    LET j == wjob[w] IN
    /\ wpc[w] = "failing"
    /\ row' = [row EXCEPT ![j] = Flush(row[j], wseen[w], Failed(wseen[w], "workflow"))]
    /\ Release(w)
    /\ UNCHANGED <<lock, queue, saved, reqVars, histVars>>

WorkerStep(w) == \/ Dequeue(w) \/ Claim(w) \/ SkipClaim(w) \/ Checkpoint(w)
                 \/ Complete(w) \/ WorkflowError(w) \/ RecordFailure(w)

\* The process ends between two steps: killed, or an exception of Redis or of
\* PostgreSQL outside the workflow's try block leaves run_worker.
WorkerDies(w) == /\ crashes < CrashBudget
                 /\ wpc[w] # "down"
                 /\ crashes' = crashes + 1
                 /\ wpc' = [wpc EXCEPT ![w] = "down"]
                 /\ wjob' = [wjob EXCEPT ![w] = NoJob]
                 /\ wseen' = [wseen EXCEPT ![w] = NoRow]
                 /\ lost' = IF wpc[w] = "idle" THEN lost ELSE lost \cup {wjob[w]}
                 /\ UNCHANGED <<dbVars, queue, saved, reqVars, stray>>

\* The operator starts it again; nothing is recovered.
WorkerRestarts(w) == /\ wpc[w] = "down"
                     /\ wpc' = [wpc EXCEPT ![w] = "idle"]
                     /\ UNCHANGED <<dbVars, queue, saved, reqVars, wjob, wseen, histVars>>

-----------------------------------------------------------------------------
(* Redis, configured with its default snapshots.                            *)

Entries(q) == {q[i] : i \in DOMAIN q}

RedisSnapshot == /\ RedisMayRestart
                 /\ saved # queue
                 /\ saved' = queue
                 /\ UNCHANGED <<dbVars, queue, reqVars, wrkVars, histVars>>

\* Redis comes back with the list of its last snapshot: newer entries are gone
\* and entries popped since are there again.
RedisRestarts == /\ RedisMayRestart
                 /\ crashes < CrashBudget
                 /\ crashes' = crashes + 1
                 /\ queue' = saved
                 /\ stray' = stray \cup (Entries(saved) \ Entries(queue))
                 /\ lost' = lost \cup (Entries(queue) \ Entries(saved))
                 /\ UNCHANGED <<dbVars, saved, reqVars, wrkVars>>

-----------------------------------------------------------------------------
Next == \/ \E r \in Requests : RequestStep(r) \/ RequestDies(r)
        \/ \E w \in Workers : WorkerStep(w) \/ WorkerDies(w) \/ WorkerRestarts(w)
        \/ RedisSnapshot
        \/ RedisRestarts

Spec == Init /\ [][Next]_vars

\* A handler that has begun runs on unless it dies; a live worker keeps
\* looping, and its provider calls end (they have a timeout).
Fairness == /\ \A r \in Requests : WF_vars(RequestStep(r) /\ rpc[r] # "new")
            /\ \A w \in Workers : WF_vars(WorkerStep(w))

FairSpec == Spec /\ Fairness

-----------------------------------------------------------------------------
(* Properties.                                                              *)

TypeOK ==
    /\ row \in [Jobs -> Row]
    /\ lock \in [Jobs -> Requests \cup {NoRequest}]
    /\ queue \in Seq(Jobs)
    /\ saved \in Seq(Jobs)
    /\ rpc \in [Requests -> {"new", "found", "joined", "committed", "accepted",
                             "refused", "rejected", "aborted", "died"}]
    /\ rjob \in [Requests -> Jobs \cup {NoJob}]
    /\ \A r \in Requests : (rpc[r] = "new") <=> (rjob[r] = NoJob)
    /\ rseen \in [Requests -> Row]
    /\ wpc \in [Workers -> {"idle", "popped", "claimed", "loaded", "failing", "down"}]
    /\ wjob \in [Workers -> Jobs \cup {NoJob}]
    /\ \A w \in Workers : (wpc[w] \in {"idle", "down"}) <=> (wjob[w] = NoJob)
    /\ wseen \in [Workers -> Row]
    /\ crashes \in 0 .. CrashBudget
    /\ stray \subseteq Jobs
    /\ lost \subseteq Jobs

\* The requests that queued job j (created or re-queued it, and committed).
Queuers(j) == {r \in Requests : /\ rjob[r] = j
                                /\ rpc[r] \in {"committed", "accepted", "refused",
                                              "rejected", "died"}}

\* Every run of a job was asked for: over its whole life a job is started at
\* most once per request that queued it, whatever entries Redis loses, repeats
\* or keeps for a request that was told of a failure.
RunsPaidFor == \A j \in Jobs : row[j].attempts <= Cardinality(Queuers(j))

\* Where the duty to hand job j to a worker lies.
Carriers(j) ==
    {<<"request", r>> : r \in {q \in Requests : rpc[q] \in {"committed", "refused"}
                                               /\ rjob[q] = j}}
    \cup {<<"queue", i>> : i \in {k \in DOMAIN queue : queue[k] = j}}
    \cup {<<"worker", w>> : w \in {v \in Workers : wpc[v] = "popped" /\ wjob[v] = j}}

Running(w, j) == wpc[w] \in {"claimed", "loaded", "failing"} /\ wjob[w] = j

\* The id of a job is in one place at a time, and only while its row says
\* "queued" (so the row a refused request marks failed is one nobody works on).
SoleCarrier == \A j \in Jobs \ stray :
                  /\ \A c, d \in Carriers(j) : c = d
                  /\ Carriers(j) # {} => row[j].status = "queued"

\* A queued row is never forgotten: somebody still carries its id, unless a
\* crash between two stores dropped it.
QueuedIsCarried == \A j \in Jobs \ lost :
                      row[j].status = "queued" => Carriers(j) # {}

\* At most one worker runs a job, and while it does the row says so.
SingleRunner == \A j \in Jobs \ stray :
                   /\ \A v, w \in Workers : Running(v, j) /\ Running(w, j) => v = w
                   /\ (\E w \in Workers : Running(w, j)) => row[j].status = "running"

\* A completed job shows one run: its result, the context it was derived from
\* and the attempt count belong together and no error is left beside them.
CompletedIsCoherent == \A j \in Jobs \ stray :
                          row[j].status = "completed" =>
                             /\ row[j].error = "none"
                             /\ row[j].attempts > 0
                             /\ row[j].result = row[j].attempts
                             /\ row[j].snapshot = row[j].attempts

\* A result, once published, is never replaced, withdrawn or run again.
CompletedIsFinal ==
    [][\A j \in Jobs : row[j].status = "completed" /\ j \notin stray'
                         => row'[j] = row[j]]_vars

\* The statuses a client can read go through the documented life of a job.
Lifecycle == INSTANCE InvestigationLifecycle
                WITH status <- [j \in Jobs |-> row[j].status], disowned <- stray
LifecycleSpec == Lifecycle!Spec

\* A job that was queued is eventually settled, unless a crash lost it.
EveryJobSettles ==
    \A j \in Jobs : row[j].status \in {"queued", "running"} ~>
                      (row[j].status \in {"completed", "failed"} \/ j \in lost)

\* docs/api/investigations.md: repeating the request "returns the same job
\* instead of creating duplicate provider calls".
NoDuplicateProviderCalls ==
    \A j \in Jobs : \A v, w \in Workers :
        /\ wpc[v] \in {"claimed", "loaded"} /\ wjob[v] = j
        /\ wpc[w] \in {"claimed", "loaded"} /\ wjob[w] = j
        => v = w
=============================================================================
