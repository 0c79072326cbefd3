----------------------- MODULE InvestigationJobsProofs -----------------------
(***************************************************************************)
(* Proofs about InvestigationJobs: for any sets of jobs, requests and      *)
(* workers, any bound on crashes and any setting of the fault switches.    *)
(***************************************************************************)
EXTENDS InvestigationJobs, FiniteSetTheorems, TLAPS

USE DEF dbVars, reqVars, wrkVars, histVars

-----------------------------------------------------------------------------
(* Lemmas about the operators on rows.                                      *)

\* A flush leaves a row whose columns are each either the stored one or the
\* assigned one, so it is a row again.
LEMMA FlushIsRow ==
    ASSUME NEW stored \in Row, NEW loaded \in Row, NEW assigned \in Row
    PROVE  Flush(stored, loaded, assigned) \in Row
BY DEF Flush, Emit, Row

\* The repository's writers turn rows into rows.
LEMMA WritersKeepRows ==
    ASSUME NEW seen \in Row, NEW why \in Errors
    PROVE  /\ Requeued(seen) \in Row
           /\ Failed(seen, why) \in Row
           /\ Checkpointed(seen) \in Row
           /\ Claimed(seen) \in Row
           /\ Completed(seen) \in Row
BY DEF Requeued, Failed, Marked, Checkpointed, Claimed, Completed, Row, Statuses, Errors

\* The row before the first request, and the one the first request inserts.
LEMMA FirstRows == NoRow \in Row /\ NewRow \in Row
BY DEF NoRow, NewRow, Marked, Row, Statuses, Errors

-----------------------------------------------------------------------------
(* Type correctness.                                                        *)

\* Before the first request the tables, the list and the handlers are empty and well typed.
LEMMA InitTypeOK == Init => TypeOK
<1> SUFFICES ASSUME Init PROVE TypeOK
  OBVIOUS
<1>1. /\ row \in [Jobs -> Row]
      /\ rseen \in [Requests -> Row]
      /\ wseen \in [Workers -> Row]
  BY FirstRows DEF Init
<1>2. queue \in Seq(Jobs) /\ saved \in Seq(Jobs)
  BY DEF Init
<1>3. QED
  BY <1>1, <1>2, JobsAssumption DEF Init, TypeOK

\* request_investigation, at any of its steps, keeps every variable in its type.
LEMMA RequestTypeOK ==
    ASSUME TypeOK, NEW r \in Requests, RequestStep(r)
    PROVE  TypeOK'
<1>1. ASSUME NEW j \in Jobs, Locate(r, j) PROVE TypeOK'
  BY <1>1, JobsAssumption DEF TypeOK, Locate
<1>2. ASSUME NEW j \in Jobs, Join(r, j) PROVE TypeOK'
  BY <1>2, JobsAssumption DEF TypeOK, Join
<1>3. CASE CommitRequest(r)
  <2>1. /\ rjob[r] \in Jobs
        /\ rseen[r] \in Row
        /\ row[rjob[r]] \in Row
    BY <1>3 DEF TypeOK, CommitRequest
  <2>2. Requeued(rseen[r]) \in Row /\ NewRow \in Row
    BY <2>1, WritersKeepRows, FirstRows DEF Errors
  <2>3. Flush(row[rjob[r]], rseen[r], Requeued(rseen[r])) \in Row
    BY <2>1, <2>2, FlushIsRow
  <2>4. row' \in [Jobs -> Row] /\ rseen' \in [Requests -> Row]
    BY <1>3, <2>1, <2>2, <2>3 DEF TypeOK, CommitRequest
  <2>5. QED
    BY <1>3, <2>4 DEF TypeOK, CommitRequest
<1>4. CASE Enqueue(r)
  BY <1>4 DEF TypeOK, Enqueue
<1>5. CASE EnqueueFails(r)
  BY <1>5 DEF TypeOK, EnqueueFails
<1>6. CASE EnqueueUnsure(r)
  BY <1>6 DEF TypeOK, EnqueueUnsure
<1>7. CASE RecordRefusal(r)
  <2>1. /\ rjob[r] \in Jobs
        /\ rseen[r] \in Row
        /\ row[rjob[r]] \in Row
    BY <1>7 DEF TypeOK, RecordRefusal
  <2>2. Failed(rseen[r], "enqueue") \in Row
    BY <2>1, WritersKeepRows DEF Errors
  <2>3. row' \in [Jobs -> Row]
    BY <1>7, <2>1, <2>2, FlushIsRow DEF TypeOK, RecordRefusal
  <2>4. QED
    BY <1>7, <2>3 DEF TypeOK, RecordRefusal
<1>8. QED
  BY <1>1, <1>2, <1>3, <1>4, <1>5, <1>6, <1>7 DEF RequestStep

\* process_investigation and the loop around it keep every variable in its type.
LEMMA WorkerTypeOK ==
    ASSUME TypeOK, NEW w \in Workers, WorkerStep(w)
    PROVE  TypeOK'
<1>1. CASE Dequeue(w)
  <2>1. Head(queue) \in Jobs /\ Tail(queue) \in Seq(Jobs)
    BY <1>1 DEF TypeOK, Dequeue
  <2>2. QED
    BY <1>1, <2>1, JobsAssumption DEF TypeOK, Dequeue
<1>2. CASE Claim(w)
  <2>1. wjob[w] \in Jobs /\ row[wjob[w]] \in Row
    BY <1>2 DEF TypeOK, Claim
  <2>2. Claimed(row[wjob[w]]) \in Row
    BY <2>1, WritersKeepRows DEF Errors
  <2>3. row' \in [Jobs -> Row] /\ wseen' \in [Workers -> Row]
    BY <1>2, <2>1, <2>2 DEF TypeOK, Claim
  <2>4. QED
    BY <1>2, <2>3 DEF TypeOK, Claim
<1>3. CASE SkipClaim(w)
  BY <1>3, FirstRows DEF TypeOK, SkipClaim, Release
<1>4. CASE Checkpoint(w)
  <2>1. wjob[w] \in Jobs /\ row[wjob[w]] \in Row /\ wseen[w] \in Row
    BY <1>4 DEF TypeOK, Checkpoint
  <2>2. Checkpointed(wseen[w]) \in Row
    BY <2>1, WritersKeepRows DEF Errors
  <2>3. row' \in [Jobs -> Row] /\ wseen' \in [Workers -> Row]
    BY <1>4, <2>1, <2>2, FlushIsRow DEF TypeOK, Checkpoint
  <2>4. QED
    BY <1>4, <2>3 DEF TypeOK, Checkpoint
<1>5. CASE Complete(w)
  <2>1. wjob[w] \in Jobs /\ row[wjob[w]] \in Row /\ wseen[w] \in Row
    BY <1>5 DEF TypeOK, Complete
  <2>2. Completed(wseen[w]) \in Row
    BY <2>1, WritersKeepRows DEF Errors
  <2>3. row' \in [Jobs -> Row]
    BY <1>5, <2>1, <2>2, FlushIsRow DEF TypeOK, Complete
  <2>4. QED
    BY <1>5, <2>3, FirstRows DEF TypeOK, Complete, Release
<1>6. CASE WorkflowError(w)
  BY <1>6 DEF TypeOK, WorkflowError
<1>7. CASE RecordFailure(w)
  <2>1. wjob[w] \in Jobs /\ row[wjob[w]] \in Row /\ wseen[w] \in Row
    BY <1>7 DEF TypeOK, RecordFailure
  <2>2. Failed(wseen[w], "workflow") \in Row
    BY <2>1, WritersKeepRows DEF Errors
  <2>3. row' \in [Jobs -> Row]
    BY <1>7, <2>1, <2>2, FlushIsRow DEF TypeOK, RecordFailure
  <2>4. QED
    BY <1>7, <2>3, FirstRows DEF TypeOK, RecordFailure, Release
<1>8. QED
  BY <1>1, <1>2, <1>3, <1>4, <1>5, <1>6, <1>7 DEF WorkerStep

\* Deaths, restarts and Redis's own steps keep every variable in its type.
LEMMA FaultTypeOK ==
    ASSUME TypeOK,
           \/ \E r \in Requests : RequestDies(r)
           \/ \E w \in Workers : WorkerDies(w) \/ WorkerRestarts(w)
           \/ RedisSnapshot
           \/ RedisRestarts
    PROVE  TypeOK'
<1>1. ASSUME NEW r \in Requests, RequestDies(r) PROVE TypeOK'
  <2>1. rjob[r] \in Jobs
    BY <1>1 DEF TypeOK, RequestDies
  <2>2. crashes' \in 0 .. CrashBudget
    BY <1>1, JobsAssumption DEF TypeOK, RequestDies
  <2>3. QED
    BY <1>1, <2>1, <2>2 DEF TypeOK, RequestDies
<1>2. ASSUME NEW w \in Workers, WorkerDies(w) PROVE TypeOK'
  <2>1. wpc[w] = "idle" \/ wjob[w] \in Jobs
    BY <1>2 DEF TypeOK, WorkerDies
  <2>2. crashes' \in 0 .. CrashBudget
    BY <1>2, JobsAssumption DEF TypeOK, WorkerDies
  <2>3. QED
    BY <1>2, <2>1, <2>2, FirstRows DEF TypeOK, WorkerDies
<1>3. ASSUME NEW w \in Workers, WorkerRestarts(w) PROVE TypeOK'
  BY <1>3 DEF TypeOK, WorkerRestarts
<1>4. CASE RedisSnapshot
  BY <1>4 DEF TypeOK, RedisSnapshot
<1>5. CASE RedisRestarts
  <2>1. Entries(queue) \subseteq Jobs /\ Entries(saved) \subseteq Jobs
    BY DEF TypeOK, Entries
  <2>2. crashes' \in 0 .. CrashBudget
    BY <1>5, JobsAssumption DEF TypeOK, RedisRestarts
  <2>3. QED
    BY <1>5, <2>1, <2>2 DEF TypeOK, RedisRestarts
<1>6. QED
  BY <1>1, <1>2, <1>3, <1>4, <1>5

\* Every variable keeps its type, and a request or a worker holds a job exactly
\* while its program counter says so.
THEOREM TypeCorrect == Spec => []TypeOK
<1>1. TypeOK /\ [Next]_vars => TypeOK'
  <2>1. TypeOK /\ Next => TypeOK'
    BY RequestTypeOK, WorkerTypeOK, FaultTypeOK DEF Next
  <2>2. TypeOK /\ UNCHANGED vars => TypeOK'
    BY DEF TypeOK, vars
  <2>3. QED
    BY <2>1, <2>2
<1>2. QED
  BY <1>1, InitTypeOK, PTL DEF Spec

-----------------------------------------------------------------------------
(* Every run of a job is paid for by a request that queued it.              *)

\* A queued row is owed one run more than it has had.
Owed(r) == IF r.status = "queued" THEN r.attempts + 1 ELSE r.attempts

\* RunsPaidFor is not inductive: a claim adds an attempt and no request.  What
\* the claim spends is the "queued" status, which only a request can give.
PaidInv == /\ TypeOK
           /\ \A j \in Jobs : Owed(row[j]) <= Cardinality(Queuers(j))

\* The runs a row has had or is still owed, from claim()'s attempt count, are a number.
LEMMA OwedIsNat == ASSUME NEW r \in Row PROVE Owed(r) \in Nat
BY DEF Owed, Row

\* A job is queued by finitely many requests, so they can be counted.
LEMMA QueuersFinite ==
    \A j : /\ IsFiniteSet(Queuers(j))
           /\ Cardinality(Queuers(j)) \in Nat
<1> SUFFICES ASSUME NEW j
             PROVE  IsFiniteSet(Queuers(j)) /\ Cardinality(Queuers(j)) \in Nat
  OBVIOUS
<1>1. Queuers(j) \subseteq Requests
  BY DEF Queuers
<1>2. IsFiniteSet(Queuers(j))
  BY <1>1, FS_Subset, JobsAssumption
<1>3. QED
  BY <1>2, FS_CardinalityType

\* No flush of the code assigns the attempt count or, but for requeue, the
\* status "queued": it never raises what a job is owed.
LEMMA FlushOwes ==
    ASSUME NEW stored \in Row, NEW loaded \in Row, NEW assigned \in Row,
           assigned.attempts = loaded.attempts
    PROVE  /\ Owed(Flush(stored, loaded, assigned)) <= stored.attempts + 1
           /\ assigned.status # "queued" \/ assigned.status = loaded.status =>
                 Owed(Flush(stored, loaded, assigned)) <= Owed(stored)
<1>1. /\ Flush(stored, loaded, assigned).attempts = stored.attempts
      /\ Flush(stored, loaded, assigned).status
            \in {stored.status, assigned.status}
      /\ assigned.status = loaded.status =>
            Flush(stored, loaded, assigned).status = stored.status
  BY DEF Flush, Emit
<1>2. stored.attempts \in Nat
  BY DEF Row
<1>3. QED
  BY <1>1, <1>2 DEF Owed

\* A step that writes no row and counts no new request keeps the invariant.
LEMMA PaidStutter ==
    ASSUME PaidInv, TypeOK',
           \A j \in Jobs : Owed(row'[j]) <= Owed(row[j]),
           \A j \in Jobs : Queuers(j)' = Queuers(j)
    PROVE  PaidInv'
<1> SUFFICES ASSUME NEW j \in Jobs
             PROVE  Owed(row'[j]) <= Cardinality(Queuers(j)')
  BY DEF PaidInv
<1>1. Owed(row[j]) <= Cardinality(Queuers(j))
  BY DEF PaidInv
<1>2. Owed(row[j]) \in Nat /\ Owed(row'[j]) \in Nat
  <2>1. row[j] \in Row /\ row'[j] \in Row
    BY DEF PaidInv, TypeOK
  <2>2. QED
    BY <2>1, OwedIsNat
<1>3. QED
  BY <1>1, <1>2, QueuersFinite

\* A request that queues a job pays for the run it adds, and one that refuses adds none.
LEMMA PaidRequest ==
    ASSUME PaidInv, TypeOK', NEW r \in Requests, RequestStep(r)
    PROVE  PaidInv'
<1> USE DEF PaidInv
<1>0. \A j \in Jobs : row[j] \in Row
  BY DEF TypeOK
<1>1. ASSUME NEW j \in Jobs, Locate(r, j) \/ Join(r, j) PROVE PaidInv'
  <2>1. row' = row
    BY <1>1 DEF Locate, Join
  <2>2. \A k \in Jobs : Queuers(k)' = Queuers(k)
    BY <1>1 DEF Locate, Join, Queuers, TypeOK
  <2>3. \A k \in Jobs : Owed(row'[k]) <= Owed(row[k])
    BY <2>1, <1>0 DEF Owed, Row
  <2>4. QED
    BY <2>2, <2>3, PaidStutter
<1>2. CASE CommitRequest(r)
  <2>0. PICK j \in Jobs : j = rjob[r]
    BY <1>2 DEF TypeOK, CommitRequest
  <2>1. j = rjob[r] /\ rseen[r] \in Row /\ Requeued(rseen[r]) \in Row
    BY <2>0, WritersKeepRows DEF TypeOK, Errors
  <2>2. Owed(row'[j]) <= row[j].attempts + 1
    <3>1. CASE rseen[r].status = "absent"
      <4>1. row'[j] = NewRow
        BY <1>2, <2>1, <3>1 DEF CommitRequest, TypeOK
      <4>2. QED
        BY <4>1, <2>1, <1>0 DEF NewRow, NoRow, Marked, Owed, Row
    <3>2. CASE rseen[r].status # "absent"
      <4>1. row'[j] = Flush(row[j], rseen[r], Requeued(rseen[r]))
        BY <1>2, <2>1, <3>2 DEF CommitRequest, TypeOK
      <4>2. Requeued(rseen[r]).attempts = rseen[r].attempts
        BY DEF Requeued, Marked
      <4>3. QED
        BY <4>1, <4>2, <2>1, <1>0, FlushOwes
    <3>3. QED
      BY <3>1, <3>2
  <2>3. \A k \in Jobs \ {j} : row'[k] = row[k]
    BY <1>2, <2>1 DEF CommitRequest, TypeOK
  <2>4. \A k \in Jobs \ {j} : Queuers(k)' = Queuers(k)
    BY <1>2, <2>1 DEF CommitRequest, Queuers, TypeOK
  <2>5. Queuers(j)' = Queuers(j) \cup {r} /\ r \notin Queuers(j)
    BY <1>2, <2>1 DEF CommitRequest, Queuers, TypeOK
  <2>6. Cardinality(Queuers(j)') = Cardinality(Queuers(j)) + 1
    BY <2>5, QueuersFinite, FS_AddElement
  <2>7. Owed(row'[j]) <= Cardinality(Queuers(j)')
    <3>1. row[j].attempts <= Cardinality(Queuers(j))
      BY <2>1, <1>0, QueuersFinite DEF Owed, Row
    <3>2. Owed(row'[j]) \in Nat
      <4>1. row'[j] \in Row
        BY <2>1 DEF TypeOK
      <4>2. QED
        BY <4>1 DEF Owed, Row
    <3>3. QED
      BY <3>1, <3>2, <2>1, <2>2, <2>6, <1>0, QueuersFinite DEF Row
  <2>8. \A k \in Jobs : Owed(row'[k]) <= Cardinality(Queuers(k)')
    <3> SUFFICES ASSUME NEW k \in Jobs
                 PROVE  Owed(row'[k]) <= Cardinality(Queuers(k)')
      OBVIOUS
    <3>1. CASE k = j
      BY <3>1, <2>7
    <3>2. CASE k # j
      <4>1. row'[k] = row[k] /\ Queuers(k)' = Queuers(k)
        BY <3>2, <2>3, <2>4
      <4>2. QED
        BY <4>1
    <3>3. QED
      BY <3>1, <3>2
  <2>9. QED
    BY <2>8
<1>3. CASE Enqueue(r) \/ EnqueueFails(r) \/ EnqueueUnsure(r)
  <2>1. row' = row
    BY <1>3 DEF Enqueue, EnqueueFails, EnqueueUnsure
  <2>2. \A k \in Jobs : Queuers(k)' = Queuers(k)
    BY <1>3 DEF Enqueue, EnqueueFails, EnqueueUnsure, Queuers, TypeOK
  <2>3. \A k \in Jobs : Owed(row'[k]) <= Owed(row[k])
    BY <2>1, <1>0 DEF Owed, Row
  <2>4. QED
    BY <2>2, <2>3, PaidStutter
<1>4. CASE RecordRefusal(r)
  <2> DEFINE j == rjob[r]
             new == Failed(rseen[r], "enqueue")
  <2>1. j \in Jobs /\ rseen[r] \in Row /\ new \in Row
    BY <1>4, WritersKeepRows DEF TypeOK, RecordRefusal, Errors
  <2>2. row'[j] = Flush(row[j], rseen[r], new)
    BY <1>4, <2>1 DEF RecordRefusal, TypeOK
  <2>3. new.attempts = rseen[r].attempts /\ new.status # "queued"
    BY DEF Failed, Marked
  <2>4. Owed(row'[j]) <= Owed(row[j])
    BY <2>1, <2>2, <2>3, <1>0, FlushOwes
  <2>5. \A k \in Jobs \ {j} : row'[k] = row[k]
    BY <1>4, <2>1 DEF RecordRefusal, TypeOK
  <2>6. \A k \in Jobs : Owed(row'[k]) <= Owed(row[k])
    BY <2>4, <2>5, <1>0 DEF Owed, Row
  <2>7. \A k \in Jobs : Queuers(k)' = Queuers(k)
    BY <1>4 DEF RecordRefusal, Queuers, TypeOK
  <2>8. QED
    BY <2>6, <2>7, PaidStutter
<1>5. QED
  BY <1>1, <1>2, <1>3, <1>4 DEF RequestStep

\* A worker starts a run only by turning a queued row, already paid for, into a running one.
LEMMA PaidWorker ==
    ASSUME PaidInv, TypeOK', NEW w \in Workers, WorkerStep(w)
    PROVE  PaidInv'
<1> USE DEF PaidInv
<1>0. \A j \in Jobs : row[j] \in Row
  BY DEF TypeOK
<1>1. \A k \in Jobs : Queuers(k)' = Queuers(k)
  BY DEF WorkerStep, Dequeue, Claim, SkipClaim, Checkpoint, Complete,
         WorkflowError, RecordFailure, Queuers
<1>2. CASE Dequeue(w) \/ SkipClaim(w) \/ WorkflowError(w)
  <2>1. row' = row
    BY <1>2 DEF Dequeue, SkipClaim, WorkflowError
  <2>2. \A k \in Jobs : Owed(row'[k]) <= Owed(row[k])
    BY <2>1, <1>0 DEF Owed, Row
  <2>3. QED
    BY <1>1, <2>2, PaidStutter
<1>3. CASE Claim(w)
  <2>1. wjob[w] \in Jobs
    BY <1>3 DEF TypeOK, Claim
  <2>2. row'[wjob[w]] = Claimed(row[wjob[w]])
    BY <1>3, <2>1 DEF Claim, TypeOK
  <2>3. Owed(row'[wjob[w]]) <= Owed(row[wjob[w]])
    BY <1>0, <1>3, <2>1, <2>2 DEF Claim, Claimed, Owed, Row
  <2>4. \A k \in Jobs \ {wjob[w]} : row'[k] = row[k]
    BY <1>3, <2>1 DEF Claim, TypeOK
  <2>5. \A k \in Jobs : Owed(row'[k]) <= Owed(row[k])
    BY <2>3, <2>4, <1>0 DEF Owed, Row
  <2>6. QED
    BY <1>1, <2>5, PaidStutter
<1>4. ASSUME NEW new \in Row, wjob[w] \in Jobs,
             row' = [row EXCEPT ![wjob[w]] = Flush(row[wjob[w]], wseen[w], new)],
             new.attempts = wseen[w].attempts,
             new.status # "queued" \/ new.status = wseen[w].status
      PROVE  PaidInv'
  <2>1. wseen[w] \in Row
    BY DEF TypeOK
  <2>2. row'[wjob[w]] = Flush(row[wjob[w]], wseen[w], new)
    BY <1>4 DEF TypeOK
  <2>3. Owed(row'[wjob[w]]) <= Owed(row[wjob[w]])
    BY <1>0, <1>4, <2>1, <2>2, FlushOwes
  <2>4. \A k \in Jobs \ {wjob[w]} : row'[k] = row[k]
    BY <1>4 DEF TypeOK
  <2>5. \A k \in Jobs : Owed(row'[k]) <= Owed(row[k])
    BY <2>3, <2>4, <1>0 DEF Owed, Row
  <2>6. QED
    BY <1>1, <2>5, PaidStutter
<1>5. wseen[w] \in Row
  BY DEF TypeOK
<1>6. /\ Checkpointed(wseen[w]) \in Row
      /\ Completed(wseen[w]) \in Row
      /\ Failed(wseen[w], "workflow") \in Row
  BY <1>5, WritersKeepRows DEF Errors
<1>7. CASE Checkpoint(w)
  <2>1. wjob[w] \in Jobs
    BY <1>7 DEF TypeOK, Checkpoint
  <2>2. /\ Checkpointed(wseen[w]).attempts = wseen[w].attempts
        /\ Checkpointed(wseen[w]).status = wseen[w].status
    BY DEF Checkpointed
  <2>3. QED
    BY <1>4, <1>6, <1>7, <2>1, <2>2 DEF Checkpoint
<1>8. CASE Complete(w)
  <2>1. wjob[w] \in Jobs
    BY <1>8 DEF TypeOK, Complete
  <2>2. /\ Completed(wseen[w]).attempts = wseen[w].attempts
        /\ Completed(wseen[w]).status # "queued"
    BY DEF Completed
  <2>3. QED
    BY <1>4, <1>6, <1>8, <2>1, <2>2 DEF Complete
<1>9. CASE RecordFailure(w)
  <2>1. wjob[w] \in Jobs
    BY <1>9 DEF TypeOK, RecordFailure
  <2>2. /\ Failed(wseen[w], "workflow").attempts = wseen[w].attempts
        /\ Failed(wseen[w], "workflow").status # "queued"
    BY DEF Failed, Marked
  <2>3. QED
    BY <1>4, <1>6, <1>9, <2>1, <2>2 DEF RecordFailure
<1>10. QED
  BY <1>2, <1>3, <1>7, <1>8, <1>9 DEF WorkerStep

\* No death, restart or change of the Redis list writes a row, so none adds a run.
LEMMA PaidFault ==
    ASSUME PaidInv, TypeOK',
           \/ \E r \in Requests : RequestDies(r)
           \/ \E w \in Workers : WorkerDies(w) \/ WorkerRestarts(w)
           \/ RedisSnapshot
           \/ RedisRestarts
    PROVE  PaidInv'
<1>1. row' = row
  BY DEF RequestDies, WorkerDies, WorkerRestarts, RedisSnapshot, RedisRestarts
<1>2. \A k \in Jobs : Owed(row'[k]) <= Owed(row[k])
  <2>1. \A k \in Jobs : row[k] \in Row
    BY DEF PaidInv, TypeOK
  <2>2. QED
    BY <1>1, <2>1 DEF Owed, Row
<1>3. \A k \in Jobs : Queuers(k)' = Queuers(k)
  <2>1. ASSUME NEW r \in Requests, RequestDies(r)
        PROVE  \A k \in Jobs : Queuers(k)' = Queuers(k)
    BY <2>1 DEF RequestDies, Queuers, PaidInv, TypeOK
  <2>2. ASSUME NEW w \in Workers, WorkerDies(w) \/ WorkerRestarts(w)
        PROVE  \A k \in Jobs : Queuers(k)' = Queuers(k)
    BY <2>2 DEF WorkerDies, WorkerRestarts, Queuers
  <2>3. CASE RedisSnapshot \/ RedisRestarts
    BY <2>3 DEF RedisSnapshot, RedisRestarts, Queuers
  <2>4. QED
    BY <2>1, <2>2, <2>3
<1>4. QED
  BY <1>2, <1>3, PaidStutter

\* A job is started at most once per request that queued it, however many
\* entries Redis loses, repeats or delivers for a request that was refused.
THEOREM EveryRunIsPaidFor == Spec => []RunsPaidFor
<1>1. Init => PaidInv
  <2> SUFFICES ASSUME Init PROVE PaidInv
    OBVIOUS
  <2>1. \A j \in Jobs : Owed(row[j]) = 0
    BY DEF Init, Owed, NoRow
  <2>2. QED
    BY <2>1, InitTypeOK, QueuersFinite DEF PaidInv
<1>2. PaidInv /\ [Next]_vars => PaidInv'
  <2> SUFFICES ASSUME PaidInv, [Next]_vars PROVE PaidInv'
    OBVIOUS
  <2>1. CASE Next
    <3>1. TypeOK'
      BY <2>1, RequestTypeOK, WorkerTypeOK, FaultTypeOK DEF Next, PaidInv
    <3>2. QED
      BY <2>1, <3>1, PaidRequest, PaidWorker, PaidFault DEF Next
  <2>2. CASE UNCHANGED vars
    BY <2>2 DEF vars, PaidInv, TypeOK, Queuers
  <2>3. QED
    BY <2>1, <2>2
<1>3. PaidInv => RunsPaidFor
  <2> SUFFICES ASSUME PaidInv, NEW j \in Jobs
               PROVE  row[j].attempts <= Cardinality(Queuers(j))
    BY DEF RunsPaidFor
  <2>1. row[j] \in Row
    BY DEF PaidInv, TypeOK
  <2>2. Owed(row[j]) <= Cardinality(Queuers(j))
    BY DEF PaidInv
  <2>3. QED
    BY <2>1, <2>2, QueuersFinite DEF Owed, Row
<1>4. QED
  BY <1>1, <1>2, <1>3, PTL DEF Spec

-----------------------------------------------------------------------------
(* Jobs whose Redis entries are all accounted for.                          *)

InList(q, j) == \E i \in DOMAIN q : q[i] = j
Once(q, j) == \A i, k \in DOMAIN q : q[i] = j /\ q[k] = j => i = k

Found(r, j) == rjob[r] = j /\ rpc[r] = "found"
Holds(r, j) == rjob[r] = j /\ rpc[r] \in {"committed", "refused"}
Popped(w, j) == wjob[w] = j /\ wpc[w] = "popped"

\* What a row says about itself.
CoherentRow(r) ==
    /\ r.status = "absent" => r = NoRow
    /\ r.status \in {"queued", "running", "completed"} => r.error = "none"
    /\ r.status \in {"running", "completed"} => r.attempts > 0
    /\ r.status = "completed" => r.result = r.attempts /\ r.snapshot = r.attempts

\* The id of j is in one place; the row says which, and the sessions' copies of
\* the row are up to date.
OnePlace(j) ==
    /\ Once(queue, j)
    /\ Once(saved, j)
    /\ \A r, s \in Requests : Holds(r, j) /\ Holds(s, j) => r = s
    /\ \A v, w \in Workers : Popped(v, j) /\ Popped(w, j) => v = w
    /\ \A r \in Requests, w \in Workers : ~ (Holds(r, j) /\ Popped(w, j))
    /\ \A r \in Requests : Holds(r, j) => ~ InList(queue, j)
    /\ \A w \in Workers : Popped(w, j) => ~ InList(queue, j)

RowAgrees(j) ==
    /\ InList(queue, j) => row[j].status = "queued"
    /\ \A r \in Requests : Holds(r, j) => row[j].status = "queued" /\ rseen[r] = row[j]
    /\ \A w \in Workers : Popped(w, j) => row[j].status = "queued"
    /\ \A r \in Requests : Found(r, j) => row[j].status \in MustQueue /\ rseen[r] = row[j]

OneRun(j) ==
    /\ \A v, w \in Workers : Running(v, j) /\ Running(w, j) => v = w
    /\ \A w \in Workers : Running(w, j) => row[j].status = "running" /\ wseen[w] = row[j]
    /\ \A w \in Workers : Running(w, j) /\ wpc[w] = "loaded" =>
                             row[j].snapshot = row[j].attempts

Clean(j) == OnePlace(j) /\ RowAgrees(j) /\ OneRun(j) /\ CoherentRow(row[j])

\* A request between its lookup and its commit holds the lock of its context.
LockHeld == \A r \in Requests : rpc[r] = "found" => lock[rjob[r]] = r

CleanInv == /\ TypeOK
            /\ LockHeld
            /\ \A j \in Jobs \ stray : Clean(j)

\* Pushing an id that is not in the list keeps every id in one position.
LEMMA PushOnce ==
    ASSUME NEW q \in Seq(Jobs), NEW e \in Jobs, NEW j
    PROVE  /\ InList(Append(q, e), j) <=> (InList(q, j) \/ e = j)
           /\ Once(q, j) /\ (e = j => ~ InList(q, j)) => Once(Append(q, e), j)
<1>1. /\ Len(q) \in Nat
      /\ DOMAIN q = 1 .. Len(q)
      /\ DOMAIN Append(q, e) = 1 .. (Len(q) + 1)
      /\ Append(q, e)[Len(q) + 1] = e
      /\ \A i \in 1 .. Len(q) : Append(q, e)[i] = q[i]
  OBVIOUS
<1>2. \A i \in 1 .. (Len(q) + 1) : i \in 1 .. Len(q) \/ i = Len(q) + 1
  BY <1>1
<1>3. QED
  BY <1>1, <1>2 DEF InList, Once

\* Popping the head takes the only occurrence of its id out of the list.
LEMMA PopOnce ==
    ASSUME NEW q \in Seq(Jobs), q # <<>>, NEW j
    PROVE  /\ Head(q) = j => InList(q, j)
           /\ InList(Tail(q), j) => InList(q, j)
           /\ Once(q, j) => Once(Tail(q), j)
           /\ Once(q, j) /\ Head(q) = j => ~ InList(Tail(q), j)
<1>1. /\ Len(q) \in Nat /\ Len(q) > 0
      /\ DOMAIN q = 1 .. Len(q)
      /\ Head(q) = q[1]
      /\ DOMAIN Tail(q) = 1 .. (Len(q) - 1)
      /\ \A i \in 1 .. (Len(q) - 1) : Tail(q)[i] = q[i + 1]
  OBVIOUS
<1>2. \A i \in 1 .. (Len(q) - 1) : i + 1 \in 1 .. Len(q) /\ i + 1 # 1
  BY <1>1
<1>3. 1 \in DOMAIN q
  BY <1>1
<1>4. Head(q) = j => InList(q, j)
  BY <1>1, <1>3 DEF InList
<1>5. InList(Tail(q), j) => InList(q, j)
  BY <1>1, <1>2 DEF InList
<1>6. Once(q, j) => Once(Tail(q), j)
  <2> SUFFICES ASSUME Once(q, j), NEW i \in DOMAIN Tail(q), NEW k \in DOMAIN Tail(q),
                      Tail(q)[i] = j, Tail(q)[k] = j
               PROVE  i = k
    BY DEF Once
  <2>1. i + 1 \in DOMAIN q /\ k + 1 \in DOMAIN q /\ q[i + 1] = j /\ q[k + 1] = j
    BY <1>1, <1>2
  <2>2. i + 1 = k + 1
    BY <2>1 DEF Once
  <2>3. QED
    BY <2>2, <1>1
<1>7. Once(q, j) /\ Head(q) = j => ~ InList(Tail(q), j)
  <2> SUFFICES ASSUME Once(q, j), Head(q) = j, NEW i \in DOMAIN Tail(q), Tail(q)[i] = j
               PROVE  FALSE
    BY DEF InList
  <2>1. i + 1 \in DOMAIN q /\ q[i + 1] = j /\ i + 1 # 1
    BY <1>1, <1>2
  <2>2. q[1] = j
    BY <1>1
  <2>3. QED
    BY <1>3, <2>1, <2>2 DEF Once
<1>8. QED
  BY <1>4, <1>5, <1>6, <1>7

\* A session whose copy is up to date writes exactly the row it means to write.
LEMMA FreshFlush ==
    ASSUME NEW stored \in Row, NEW assigned \in Row
    PROVE  Flush(stored, stored, assigned) = assigned
BY DEF Flush, Emit, Row

\* request_investigation keeps the invariant: it pushes the id only of a job it queued
\* under the context lock, and marks as failed only a job nobody else works on.
LEMMA CleanRequest ==
    ASSUME CleanInv, TypeOK', NEW r \in Requests, RequestStep(r)
    PROVE  CleanInv'
<1> USE DEF CleanInv
<1>1. LockHeld'
  <2>1. ASSUME NEW j \in Jobs, Locate(r, j) \/ Join(r, j) PROVE LockHeld'
    BY <2>1, JobsAssumption DEF LockHeld, Locate, Join, TypeOK
  <2>2. CASE CommitRequest(r)
    BY <2>2, JobsAssumption DEF LockHeld, CommitRequest, TypeOK
  <2>3. CASE Enqueue(r) \/ EnqueueFails(r) \/ EnqueueUnsure(r) \/ RecordRefusal(r)
    BY <2>3 DEF LockHeld, Enqueue, EnqueueFails, EnqueueUnsure, RecordRefusal, TypeOK
  <2>4. QED
    BY <2>1, <2>2, <2>3 DEF RequestStep
<1>2. ASSUME NEW j \in Jobs \ stray' PROVE Clean(j)'
  <2>0. /\ j \in Jobs \ stray
        /\ Clean(j)
        /\ row[j] \in Row
    BY <1>2 DEF RequestStep, Locate, Join, CommitRequest, Enqueue, EnqueueFails,
                EnqueueUnsure, RecordRefusal, TypeOK
  <2>1. ASSUME NEW i \in Jobs, Locate(r, i) PROVE Clean(j)'
    <3>1. /\ UNCHANGED <<row, queue, saved, wpc, wjob, wseen>>
          /\ rpc[r] = "new" /\ rjob[r] = NoJob
          /\ rpc' = [rpc EXCEPT ![r] = "found"]
          /\ rjob' = [rjob EXCEPT ![r] = i]
          /\ rseen' = [rseen EXCEPT ![r] = row[i]]
          /\ row[i].status \in MustQueue
      BY <2>1 DEF Locate, TypeOK
    <3>2. OnePlace(j)'
      BY <2>0, <3>1 DEF Clean, OnePlace, Holds, Popped, TypeOK
    <3>3. RowAgrees(j)'
      BY <2>0, <3>1 DEF Clean, RowAgrees, Holds, Found, Popped, TypeOK
    <3>4. OneRun(j)' /\ CoherentRow(row[j])'
      BY <2>0, <3>1 DEF Clean, OneRun, Running
    <3>5. QED
      BY <3>2, <3>3, <3>4 DEF Clean
  <2>2. ASSUME NEW i \in Jobs, Join(r, i) PROVE Clean(j)'
    BY <2>0, <2>2 DEF Join, Clean, OnePlace, RowAgrees, OneRun, Holds, Found,
                      Popped, Running, TypeOK
  <2>3. CASE CommitRequest(r)
    <3> DEFINE new == IF rseen[r].status = "absent" THEN NewRow ELSE Requeued(rseen[r])
    <3>1. /\ UNCHANGED <<queue, saved, rjob, wpc, wjob, wseen>>
          /\ rpc[r] = "found" /\ rjob[r] \in Jobs
          /\ rpc' = [rpc EXCEPT ![r] = "committed"]
          /\ rseen' = [rseen EXCEPT ![r] = new]
          /\ \A k \in Jobs \ {rjob[r]} : row'[k] = row[k]
      BY <2>3 DEF CommitRequest, TypeOK
    <3>2. CASE rjob[r] # j
      BY <2>0, <3>1, <3>2 DEF Clean, OnePlace, RowAgrees, OneRun, Holds, Found,
                              Popped, Running, TypeOK
    <3>3. CASE rjob[r] = j
      <4>1. /\ rseen[r] = row[j] /\ row[j].status \in {"absent", "failed"}
            /\ \A s \in Requests : Found(s, j) => s = r
        BY <2>0, <3>1, <3>3 DEF Clean, RowAgrees, Found, LockHeld, MustQueue
      <4>2. row'[j] = new /\ new.status = "queued" /\ new.error = "none"
        <5>1. new \in Row /\ rseen[r] \in Row
          BY <2>0, <4>1, WritersKeepRows, FirstRows DEF Errors
        <5>2. row'[j] = new
          BY <2>0, <2>3, <3>3, <4>1, <5>1, FreshFlush DEF CommitRequest, TypeOK
        <5>3. QED
          BY <5>2 DEF NewRow, NoRow, Requeued, Marked
      <4>3. /\ \A s \in Requests : ~ Holds(s, j)
            /\ \A w \in Workers : ~ Popped(w, j)
            /\ \A w \in Workers : ~ Running(w, j)
            /\ ~ InList(queue, j)
        BY <2>0, <4>1 DEF Clean, RowAgrees, OneRun
      <4>4. /\ \A s \in Requests : Holds(s, j)' <=> s = r
            /\ \A s \in Requests : ~ Found(s, j)'
            /\ \A w \in Workers : ~ Popped(w, j)'
            /\ \A w \in Workers : ~ Running(w, j)'
        BY <3>1, <3>3, <4>1, <4>3 DEF Holds, Found, Popped, Running, TypeOK
      <4>5. OnePlace(j)'
        BY <2>0, <3>1, <4>3, <4>4 DEF Clean, OnePlace
      <4>6. RowAgrees(j)'
        BY <3>1, <4>2, <4>3, <4>4 DEF RowAgrees, TypeOK
      <4>7. OneRun(j)' /\ CoherentRow(row[j])'
        BY <4>2, <4>4 DEF OneRun, CoherentRow
      <4>8. QED
        BY <4>5, <4>6, <4>7 DEF Clean
    <3>4. QED
      BY <3>2, <3>3
  <2>4. CASE Enqueue(r)
    <3>1. /\ UNCHANGED <<row, saved, rjob, rseen, wpc, wjob, wseen>>
          /\ rpc[r] = "committed" /\ rjob[r] \in Jobs
          /\ rpc' = [rpc EXCEPT ![r] = "accepted"]
          /\ queue' = Append(queue, rjob[r])
          /\ queue \in Seq(Jobs)
      BY <2>4 DEF Enqueue, TypeOK
    <3>2. /\ \A s \in Requests : Holds(s, j)' <=> (Holds(s, j) /\ s # r)
          /\ \A s \in Requests : Found(s, j)' <=> Found(s, j)
          /\ \A w \in Workers : Popped(w, j)' <=> Popped(w, j)
          /\ \A w \in Workers : Running(w, j)' <=> Running(w, j)
      BY <3>1 DEF Holds, Found, Popped, Running, TypeOK
    <3>3. rjob[r] = j => Holds(r, j)
      BY <3>1 DEF Holds
    <3>4. /\ InList(queue, j)' <=> (InList(queue, j) \/ rjob[r] = j)
          /\ Once(queue, j)'
      BY <2>0, <3>1, <3>3, PushOnce DEF Clean, OnePlace
    <3>5. OnePlace(j)'
      BY <2>0, <3>1, <3>2, <3>3, <3>4 DEF Clean, OnePlace
    <3>6. RowAgrees(j)'
      BY <2>0, <3>1, <3>2, <3>3, <3>4 DEF Clean, RowAgrees
    <3>7. OneRun(j)' /\ CoherentRow(row[j])'
      BY <2>0, <3>1, <3>2 DEF Clean, OneRun
    <3>8. QED
      BY <3>5, <3>6, <3>7 DEF Clean
  <2>5. CASE EnqueueFails(r)
    <3>1. /\ UNCHANGED <<row, queue, saved, rjob, rseen, wpc, wjob, wseen>>
          /\ \A s \in Requests : Holds(s, j)' <=> Holds(s, j)
          /\ \A s \in Requests : Found(s, j)' <=> Found(s, j)
      BY <2>5 DEF EnqueueFails, Holds, Found, TypeOK
    <3>2. QED
      BY <2>0, <3>1 DEF Clean, OnePlace, RowAgrees, OneRun, Popped, Running
  <2>6. CASE EnqueueUnsure(r)
    <3>1. /\ UNCHANGED <<row, saved, rjob, rseen, wpc, wjob, wseen>>
          /\ rjob[r] \in Jobs /\ rjob[r] # j
          /\ queue' = Append(queue, rjob[r])
          /\ queue \in Seq(Jobs)
          /\ \A s \in Requests : Holds(s, j)' <=> Holds(s, j)
          /\ \A s \in Requests : Found(s, j)' <=> Found(s, j)
      BY <2>6, <1>2 DEF EnqueueUnsure, Holds, Found, TypeOK
    <3>2. /\ InList(queue, j)' <=> InList(queue, j)
          /\ Once(queue, j) => Once(queue, j)'
      BY <3>1, PushOnce
    <3>3. QED
      BY <2>0, <3>1, <3>2 DEF Clean, OnePlace, RowAgrees, OneRun, Popped, Running
  <2>7. CASE RecordRefusal(r)
    <3>1. /\ UNCHANGED <<queue, saved, rjob, rseen, wpc, wjob, wseen>>
          /\ rpc[r] = "refused" /\ rjob[r] \in Jobs
          /\ rpc' = [rpc EXCEPT ![r] = "rejected"]
          /\ \A k \in Jobs \ {rjob[r]} : row'[k] = row[k]
      BY <2>7 DEF RecordRefusal, TypeOK
    <3>2. /\ \A s \in Requests : Holds(s, j)' <=> (Holds(s, j) /\ s # r)
          /\ \A s \in Requests : Found(s, j)' <=> Found(s, j)
          /\ \A w \in Workers : Popped(w, j)' <=> Popped(w, j)
          /\ \A w \in Workers : Running(w, j)' <=> Running(w, j)
      BY <3>1 DEF Holds, Found, Popped, Running, TypeOK
    <3>3. OnePlace(j)'
      BY <2>0, <3>1, <3>2 DEF Clean, OnePlace
    <3>4. CASE rjob[r] # j
      BY <2>0, <3>1, <3>2, <3>3, <3>4 DEF Clean, RowAgrees, OneRun
    <3>5. CASE rjob[r] = j
      <4>1. Holds(r, j)
        BY <3>1, <3>5 DEF Holds
      <4>2. row[j].status = "queued" /\ rseen[r] = row[j]
        BY <2>0, <4>1 DEF Clean, RowAgrees
      <4>3. /\ \A s \in Requests : ~ Holds(s, j)' /\ ~ Found(s, j)'
            /\ \A w \in Workers : ~ Popped(w, j)' /\ ~ Running(w, j)'
            /\ ~ InList(queue, j)'
        BY <2>0, <3>1, <3>2, <4>1, <4>2
           DEF Clean, OnePlace, RowAgrees, OneRun, MustQueue
      <4>4. row'[j] = Failed(row[j], "enqueue")
        <5>1. Failed(row[j], "enqueue") \in Row
          BY <2>0, WritersKeepRows DEF Errors
        <5>2. QED
          BY <2>0, <2>7, <3>5, <4>2, <5>1, FreshFlush DEF RecordRefusal, TypeOK
      <4>5. CoherentRow(row[j])'
        BY <4>4 DEF CoherentRow, Failed, Marked
      <4>6. QED
        BY <3>3, <4>3, <4>5 DEF Clean, RowAgrees, OneRun
    <3>6. QED
      BY <3>4, <3>5
  <2>8. QED
    BY <2>1, <2>2, <2>3, <2>4, <2>5, <2>6, <2>7 DEF RequestStep
<1>3. QED
  BY <1>1, <1>2

\* The steps of a worker that write the row of a job they run: the row becomes
\* new, and the worker either keeps it as its copy or lets the job go.
LEMMA CleanRunWrite ==
    ASSUME TypeOK, NEW j \in Jobs, Clean(j),
           NEW w \in Workers, NEW new \in Row, Running(w, j),
           UNCHANGED <<queue, saved, rpc, rjob, rseen>>,
           row' = [row EXCEPT ![j] = new],
           CoherentRow(new),
           \/ /\ new.status = "running"
              /\ new.snapshot = new.attempts
              /\ wjob' = wjob
              /\ wpc' = [wpc EXCEPT ![w] = "loaded"]
              /\ wseen' = [wseen EXCEPT ![w] = new]
           \/ Release(w) /\ NoJob \notin Jobs
    PROVE  Clean(j)'
<1>1. row'[j] = new /\ row[j].status = "running"
  BY DEF TypeOK, Clean, OneRun
<1>2. /\ \A r \in Requests : ~ Holds(r, j) /\ ~ Found(r, j)
      /\ \A v \in Workers : ~ Popped(v, j)
      /\ ~ InList(queue, j)
  BY <1>1 DEF Clean, RowAgrees, MustQueue
<1>3. /\ \A r \in Requests : ~ Holds(r, j)' /\ ~ Found(r, j)'
      /\ ~ InList(queue, j)'
  BY <1>2 DEF Holds, Found
<1>4. \A v \in Workers : Running(v, j) => v = w
  BY DEF Clean, OneRun
<1>5. \A v \in Workers : ~ Popped(v, j)'
  BY <1>2 DEF Popped, Release, TypeOK
<1>6. OnePlace(j)'
  BY <1>3, <1>5 DEF Clean, OnePlace
<1>7. RowAgrees(j)'
  BY <1>3, <1>5 DEF RowAgrees
<1>8. OneRun(j)'
  <2>1. CASE Release(w) /\ NoJob \notin Jobs
    <3>1. \A v \in Workers : ~ Running(v, j)'
      BY <2>1, <1>4 DEF Running, Release, TypeOK
    <3>2. QED
      BY <3>1 DEF OneRun
  <2>2. CASE /\ new.status = "running"
             /\ new.snapshot = new.attempts
             /\ wjob' = wjob
             /\ wpc' = [wpc EXCEPT ![w] = "loaded"]
             /\ wseen' = [wseen EXCEPT ![w] = new]
    <3>1. \A v \in Workers : Running(v, j)' => v = w
      BY <2>2, <1>4 DEF Running, TypeOK
    <3>2. wseen'[w] = new
      BY <2>2 DEF TypeOK
    <3>3. QED
      BY <2>2, <3>1, <3>2, <1>1 DEF OneRun
  <2>3. QED
    BY <2>1, <2>2
<1>9. QED
  BY <1>1, <1>6, <1>7, <1>8 DEF Clean

\* The worker keeps the invariant: it takes the id out of the list, alone holds it,
\* and writes the row only while it runs the job.
LEMMA CleanWorker ==
    ASSUME CleanInv, TypeOK', NEW w \in Workers, WorkerStep(w)
    PROVE  CleanInv'
<1> USE DEF CleanInv
<1>0. UNCHANGED <<lock, saved, rpc, rjob, rseen, stray>>
  BY DEF WorkerStep, Dequeue, Claim, SkipClaim, Checkpoint, Complete,
         WorkflowError, RecordFailure
<1>1. LockHeld'
  BY <1>0 DEF LockHeld
<1>2. ASSUME NEW j \in Jobs \ stray PROVE Clean(j)'
  <2>0. /\ Clean(j)
        /\ row[j] \in Row
        /\ wpc \in [Workers -> {"idle", "popped", "claimed", "loaded", "failing", "down"}]
        /\ wjob \in [Workers -> Jobs \cup {NoJob}]
        /\ wseen \in [Workers -> Row]
        /\ NoJob \notin Jobs
    BY <1>2, JobsAssumption DEF TypeOK
  <2>1. ASSUME UNCHANGED queue,
               \A k \in Jobs : k = j => row'[k] = row[k],
               \A v \in Workers : v # w => /\ wpc'[v] = wpc[v]
                                           /\ wjob'[v] = wjob[v]
                                           /\ wseen'[v] = wseen[v],
               wjob[w] # j, wjob'[w] # j
        PROVE  Clean(j)'
    <3>1. /\ \A v \in Workers : Popped(v, j)' <=> Popped(v, j)
          /\ \A v \in Workers : Running(v, j)' <=> Running(v, j)
          /\ \A r \in Requests : Holds(r, j)' <=> Holds(r, j)
          /\ \A r \in Requests : Found(r, j)' <=> Found(r, j)
          /\ \A v \in Workers : Running(v, j) => wseen'[v] = wseen[v] /\ wpc'[v] = wpc[v]
          /\ row'[j] = row[j]
      BY <2>1, <1>0 DEF Popped, Running, Holds, Found
    <3>2. OnePlace(j)'
      BY <2>0, <2>1, <1>0, <3>1 DEF Clean, OnePlace
    <3>3. RowAgrees(j)'
      BY <2>0, <2>1, <1>0, <3>1 DEF Clean, RowAgrees
    <3>4. OneRun(j)'
      BY <2>0, <3>1 DEF Clean, OneRun
    <3>5. QED
      BY <2>0, <3>1, <3>2, <3>3, <3>4 DEF Clean
  <2>2. CASE Dequeue(w)
    <3>1. /\ queue \in Seq(Jobs) /\ queue # <<>>
          /\ queue' = Tail(queue) /\ row' = row /\ wseen' = wseen
          /\ wpc[w] = "idle"
          /\ wjob' = [wjob EXCEPT ![w] = Head(queue)]
          /\ wpc' = [wpc EXCEPT ![w] = "popped"]
      BY <2>2 DEF Dequeue, TypeOK
    <3>2. /\ \A v \in Workers : Popped(v, j)' <=>
                                   (Popped(v, j) \/ (v = w /\ Head(queue) = j))
          /\ \A v \in Workers : Running(v, j)' <=> Running(v, j)
          /\ \A v \in Workers : Running(v, j) => wpc'[v] = wpc[v]
          /\ ~ Popped(w, j)
          /\ \A r \in Requests : Holds(r, j)' <=> Holds(r, j)
          /\ \A r \in Requests : Found(r, j)' <=> Found(r, j)
      BY <3>1, <2>0, <1>0 DEF Popped, Running, Holds, Found
    <3>3. /\ InList(queue, j)' => InList(queue, j)
          /\ Head(queue) = j => InList(queue, j) /\ ~ InList(queue, j)'
          /\ Once(queue, j)'
      BY <2>0, <3>1, PopOnce DEF Clean, OnePlace
    <3>4. OnePlace(j)'
      BY <2>0, <1>0, <3>2, <3>3 DEF Clean, OnePlace
    <3>5. RowAgrees(j)'
      BY <2>0, <1>0, <3>1, <3>2, <3>3 DEF Clean, RowAgrees
    <3>6. OneRun(j)' /\ CoherentRow(row[j])'
      BY <2>0, <3>1, <3>2 DEF Clean, OneRun
    <3>7. QED
      BY <3>4, <3>5, <3>6 DEF Clean
  <2>3. CASE Claim(w)
    <3>1. /\ queue' = queue /\ wjob' = wjob
          /\ wpc[w] = "popped" /\ wjob[w] \in Jobs
          /\ row[wjob[w]].status = "queued"
          /\ row' = [row EXCEPT ![wjob[w]] = Claimed(row[wjob[w]])]
          /\ wseen' = [wseen EXCEPT ![w] = Claimed(row[wjob[w]])]
          /\ wpc' = [wpc EXCEPT ![w] = "claimed"]
      BY <2>3 DEF Claim, TypeOK
    <3>2. CASE wjob[w] # j
      BY <2>1, <3>1, <3>2, <2>0 DEF TypeOK
    <3>3. CASE wjob[w] = j
      <4>1. row'[j] = Claimed(row[j]) /\ wseen'[w] = Claimed(row[j])
        BY <3>1, <3>3, <2>0 DEF TypeOK
      <4>2. Popped(w, j)
        BY <3>1, <3>3 DEF Popped
      <4>3. /\ \A r \in Requests : ~ Holds(r, j)' /\ ~ Found(r, j)'
            /\ \A v \in Workers : ~ Popped(v, j)'
            /\ \A v \in Workers : Running(v, j)' <=> v = w
            /\ ~ InList(queue, j)'
        <5>1. /\ \A r \in Requests : ~ Holds(r, j) /\ ~ Found(r, j)
              /\ \A v \in Workers : Popped(v, j) => v = w
              /\ \A v \in Workers : ~ Running(v, j)
              /\ ~ InList(queue, j)
          BY <2>0, <3>1, <3>3, <4>2
             DEF Clean, OnePlace, RowAgrees, OneRun, MustQueue
        <5>2. QED
          BY <5>1, <1>0, <3>1, <3>3, <2>0 DEF Holds, Found, Popped, Running
      <4>4. /\ Claimed(row[j]).status = "running"
            /\ CoherentRow(Claimed(row[j]))
        BY <2>0 DEF Claimed, CoherentRow, Row
      <4>5. OnePlace(j)' /\ RowAgrees(j)'
        BY <2>0, <1>0, <3>1, <4>3 DEF Clean, OnePlace, RowAgrees
      <4>6. OneRun(j)'
        BY <4>1, <4>3, <4>4, <3>1, <2>0 DEF OneRun
      <4>7. QED
        BY <4>1, <4>4, <4>5, <4>6 DEF Clean
    <3>4. QED
      BY <3>2, <3>3
  <2>4. CASE SkipClaim(w)
    <3>1. /\ wjob[w] # j \/ row[j].status # "queued"
          /\ wpc[w] = "popped" /\ row' = row /\ queue' = queue
          /\ wpc' = [wpc EXCEPT ![w] = "idle"]
          /\ wjob' = [wjob EXCEPT ![w] = NoJob]
          /\ wseen' = [wseen EXCEPT ![w] = NoRow]
      BY <2>4 DEF SkipClaim, Release
    <3>2. wjob[w] # j
      BY <2>0, <3>1 DEF Clean, RowAgrees, Popped
    <3>3. QED
      BY <2>0, <2>1, <3>1, <3>2
  <2>5. CASE Checkpoint(w)
    <3>1. /\ queue' = queue /\ wjob' = wjob
          /\ wpc[w] = "claimed" /\ wjob[w] \in Jobs
          /\ wpc' = [wpc EXCEPT ![w] = "loaded"]
          /\ wseen' = [wseen EXCEPT ![w] = Checkpointed(wseen[w])]
      BY <2>5 DEF Checkpoint, TypeOK
    <3>2. CASE wjob[w] # j
      BY <2>1, <2>5, <3>1, <3>2, <2>0 DEF Checkpoint, TypeOK
    <3>3. CASE wjob[w] = j
      <4>1. Running(w, j)
        BY <3>1, <3>3 DEF Running
      <4>2. row[j].status = "running" /\ wseen[w] = row[j]
        BY <2>0, <4>1 DEF Clean, OneRun
      <4>3. Checkpointed(row[j]) \in Row
        BY <2>0, WritersKeepRows DEF Errors
      <4>4. row' = [row EXCEPT ![j] = Checkpointed(row[j])]
        <5>1. row' = [row EXCEPT ![j] = Flush(row[j], row[j], Checkpointed(row[j]))]
          BY <2>5, <3>3, <4>2 DEF Checkpoint
        <5>2. row[j] \in Row
          BY <2>0
        <5>3. QED
          BY <5>1, <5>2, <4>3, FreshFlush
      <4>5. /\ Checkpointed(row[j]).status = "running"
            /\ Checkpointed(row[j]).snapshot = Checkpointed(row[j]).attempts
            /\ CoherentRow(Checkpointed(row[j]))
        BY <2>0, <4>2 DEF Clean, Checkpointed, CoherentRow
      <4>6. QED
        BY <1>0, <2>0, <3>1, <4>1, <4>2, <4>3, <4>4, <4>5, CleanRunWrite
    <3>4. QED
      BY <3>2, <3>3
  <2>6. CASE Complete(w)
    <3>1. /\ queue' = queue /\ wpc[w] = "loaded" /\ wjob[w] \in Jobs /\ Release(w)
          /\ wjob'[w] = NoJob
      BY <2>6 DEF Complete, Release, TypeOK
    <3>2. CASE wjob[w] # j
      <4>1. \A k \in Jobs : k = j => row'[k] = row[k]
        BY <2>6, <3>1, <3>2 DEF Complete, TypeOK
      <4>2. QED
        BY <2>0, <2>1, <3>1, <3>2, <4>1 DEF Release
    <3>3. CASE wjob[w] = j
      <4>1. Running(w, j)
        BY <3>1, <3>3 DEF Running
      <4>2. /\ row[j].status = "running" /\ wseen[w] = row[j]
        BY <2>0, <4>1 DEF Clean, OneRun
      <4>3. Completed(row[j]) \in Row
        BY <2>0, WritersKeepRows DEF Errors
      <4>4. row' = [row EXCEPT ![j] = Completed(row[j])]
        <5>1. row' = [row EXCEPT ![j] = Flush(row[j], row[j], Completed(row[j]))]
          BY <2>6, <3>3, <4>2 DEF Complete
        <5>2. row[j] \in Row
          BY <2>0
        <5>3. QED
          BY <5>1, <5>2, <4>3, FreshFlush
      <4>5. CoherentRow(Completed(row[j]))
        BY <2>0, <4>2 DEF Clean, Completed, CoherentRow
      <4>6. QED
        BY <1>0, <2>0, <3>1, <4>1, <4>3, <4>4, <4>5, CleanRunWrite
    <3>4. QED
      BY <3>2, <3>3
  <2>7. CASE WorkflowError(w)
    <3>1. /\ queue' = queue /\ row' = row /\ wjob' = wjob
          /\ wpc[w] \in {"claimed", "loaded"} /\ wjob[w] \in Jobs
          /\ wpc' = [wpc EXCEPT ![w] = "failing"]
          /\ wseen' = [wseen EXCEPT ![w] = row[wjob[w]]]
      BY <2>7 DEF WorkflowError, TypeOK
    <3>2. CASE wjob[w] # j
      BY <2>0, <2>1, <3>1, <3>2
    <3>3. CASE wjob[w] = j
      <4>1. /\ \A v \in Workers : Popped(v, j)' <=> Popped(v, j)
            /\ \A v \in Workers : Running(v, j)' <=> Running(v, j)
            /\ \A r \in Requests : Holds(r, j)' <=> Holds(r, j)
            /\ \A r \in Requests : Found(r, j)' <=> Found(r, j)
        BY <2>0, <1>0, <3>1 DEF Popped, Running, Holds, Found
      <4>2. OnePlace(j)' /\ RowAgrees(j)'
        BY <2>0, <1>0, <3>1, <4>1 DEF Clean, OnePlace, RowAgrees
      <4>3. OneRun(j)'
        BY <2>0, <3>1, <3>3, <4>1 DEF Clean, OneRun, Running
      <4>4. QED
        BY <2>0, <3>1, <4>2, <4>3 DEF Clean
    <3>4. QED
      BY <3>2, <3>3
  <2>8. CASE RecordFailure(w)
    <3>1. /\ queue' = queue /\ wpc[w] = "failing" /\ wjob[w] \in Jobs /\ Release(w)
          /\ wjob'[w] = NoJob
      BY <2>8 DEF RecordFailure, Release, TypeOK
    <3>2. CASE wjob[w] # j
      <4>1. \A k \in Jobs : k = j => row'[k] = row[k]
        BY <2>8, <3>1, <3>2 DEF RecordFailure, TypeOK
      <4>2. QED
        BY <2>0, <2>1, <3>1, <3>2, <4>1 DEF Release
    <3>3. CASE wjob[w] = j
      <4>1. Running(w, j)
        BY <3>1, <3>3 DEF Running
      <4>2. wseen[w] = row[j]
        BY <2>0, <4>1 DEF Clean, OneRun
      <4>3. Failed(row[j], "workflow") \in Row
        BY <2>0, WritersKeepRows DEF Errors
      <4>4. row' = [row EXCEPT ![j] = Failed(row[j], "workflow")]
        BY <2>0, <2>8, <3>3, <4>2, <4>3, FreshFlush DEF RecordFailure
      <4>5. CoherentRow(Failed(row[j], "workflow"))
        BY DEF Failed, Marked, CoherentRow
      <4>6. QED
        BY <1>0, <2>0, <3>1, <4>1, <4>3, <4>4, <4>5, CleanRunWrite
    <3>4. QED
      BY <3>2, <3>3
  <2>9. QED
    BY <2>2, <2>3, <2>4, <2>5, <2>6, <2>7, <2>8 DEF WorkerStep
<1>3. QED
  BY <1>0, <1>1, <1>2

Faults == \/ \E r \in Requests : RequestDies(r)
          \/ \E w \in Workers : WorkerDies(w) \/ WorkerRestarts(w)
          \/ RedisSnapshot
          \/ RedisRestarts

\* Faults keep the invariant for every job they do not make stray.
LEMMA CleanFault ==
    ASSUME CleanInv, TypeOK', Faults
    PROVE  CleanInv'
<1> USE DEF CleanInv
<1>1. ASSUME NEW r \in Requests, RequestDies(r) PROVE CleanInv'
  <2>1. /\ UNCHANGED <<row, queue, saved, rjob, rseen, wpc, wjob, wseen, stray>>
        /\ \A s \in Requests : s # r => rpc'[s] = rpc[s]
        /\ rpc'[r] \in {"aborted", "died"}
    BY <1>1 DEF RequestDies, TypeOK
  <2>2. LockHeld'
    <3> SUFFICES ASSUME NEW s \in Requests, rpc'[s] = "found"
                 PROVE  lock'[rjob[s]] = s
      BY <2>1 DEF LockHeld
    <3>1. s # r /\ rpc[s] = "found" /\ lock[rjob[s]] = s /\ rjob[s] \in Jobs
      BY <2>1 DEF LockHeld, TypeOK
    <3>2. CASE rpc[r] = "found"
      <4>1. lock[rjob[r]] = r /\ lock' = [lock EXCEPT ![rjob[r]] = NoRequest]
        BY <1>1, <3>2 DEF LockHeld, RequestDies
      <4>2. rjob[s] # rjob[r]
        BY <3>1, <4>1
      <4>3. QED
        BY <3>1, <4>1, <4>2 DEF TypeOK
    <3>3. CASE rpc[r] # "found"
      BY <1>1, <3>1, <3>3 DEF RequestDies
    <3>4. QED
      BY <3>2, <3>3
  <2>3. ASSUME NEW j \in Jobs \ stray PROVE Clean(j)'
    <3>1. /\ \A s \in Requests : Holds(s, j)' => Holds(s, j)
          /\ \A s \in Requests : Found(s, j)' => Found(s, j)
          /\ \A w \in Workers : Popped(w, j)' <=> Popped(w, j)
          /\ \A w \in Workers : Running(w, j)' <=> Running(w, j)
      BY <2>1 DEF Holds, Found, Popped, Running
    <3>2. Clean(j)
      BY <2>3
    <3>3. OnePlace(j)'
      BY <2>1, <3>1, <3>2 DEF Clean, OnePlace
    <3>4. RowAgrees(j)'
      BY <2>1, <3>1, <3>2 DEF Clean, RowAgrees
    <3>5. OneRun(j)' /\ CoherentRow(row[j])'
      BY <2>1, <3>1, <3>2 DEF Clean, OneRun
    <3>6. QED
      BY <3>3, <3>4, <3>5 DEF Clean
  <2>4. QED
    BY <2>1, <2>2, <2>3
<1>2. ASSUME NEW w \in Workers, WorkerDies(w) \/ WorkerRestarts(w) PROVE CleanInv'
  <2>1. /\ UNCHANGED <<row, lock, queue, saved, rpc, rjob, rseen, stray>>
        /\ \A v \in Workers : v # w => wpc'[v] = wpc[v] /\ wjob'[v] = wjob[v]
                                       /\ wseen'[v] = wseen[v]
        /\ wpc'[w] \in {"down", "idle"}
    BY <1>2 DEF WorkerDies, WorkerRestarts, TypeOK
  <2>2. LockHeld'
    BY <2>1 DEF LockHeld
  <2>3. ASSUME NEW j \in Jobs \ stray PROVE Clean(j)'
    <3>1. /\ \A s \in Requests : Holds(s, j)' <=> Holds(s, j)
          /\ \A s \in Requests : Found(s, j)' <=> Found(s, j)
          /\ \A v \in Workers : Popped(v, j)' => Popped(v, j)
          /\ \A v \in Workers : Running(v, j)' => Running(v, j) /\ v # w
      BY <2>1 DEF Holds, Found, Popped, Running
    <3>2. Clean(j)
      BY <2>3
    <3>3. OnePlace(j)'
      BY <2>1, <3>1, <3>2 DEF Clean, OnePlace
    <3>4. RowAgrees(j)'
      BY <2>1, <3>1, <3>2 DEF Clean, RowAgrees
    <3>5. OneRun(j)' /\ CoherentRow(row[j])'
      BY <2>1, <3>1, <3>2 DEF Clean, OneRun
    <3>6. QED
      BY <3>3, <3>4, <3>5 DEF Clean
  <2>4. QED
    BY <2>1, <2>2, <2>3
<1>3. CASE RedisSnapshot
  <2>1. /\ UNCHANGED <<row, lock, queue, rpc, rjob, rseen, wpc, wjob, wseen, stray>>
        /\ saved' = queue
    BY <1>3 DEF RedisSnapshot
  <2>2. QED
    BY <2>1 DEF LockHeld, Clean, OnePlace, RowAgrees, OneRun, Holds, Found,
                Popped, Running
<1>4. CASE RedisRestarts
  <2>1. /\ UNCHANGED <<row, lock, saved, rpc, rjob, rseen, wpc, wjob, wseen>>
        /\ queue' = saved
        /\ stray' = stray \cup (Entries(saved) \ Entries(queue))
    BY <1>4 DEF RedisRestarts
  <2>2. LockHeld'
    BY <2>1 DEF LockHeld
  <2>3. ASSUME NEW j \in Jobs \ stray' PROVE Clean(j)'
    <3>1. Clean(j) /\ j \notin Entries(saved) \ Entries(queue)
      BY <2>1, <2>3
    <3>2. InList(queue, j)' => InList(queue, j)
      BY <2>1, <3>1 DEF InList, Entries
    <3>3. /\ \A s \in Requests : Holds(s, j)' <=> Holds(s, j)
          /\ \A s \in Requests : Found(s, j)' <=> Found(s, j)
          /\ \A v \in Workers : Popped(v, j)' <=> Popped(v, j)
          /\ \A v \in Workers : Running(v, j)' <=> Running(v, j)
      BY <2>1 DEF Holds, Found, Popped, Running
    <3>4. OnePlace(j)'
      BY <2>1, <3>1, <3>2, <3>3 DEF Clean, OnePlace
    <3>5. RowAgrees(j)'
      BY <2>1, <3>1, <3>2, <3>3 DEF Clean, RowAgrees
    <3>6. OneRun(j)' /\ CoherentRow(row[j])'
      BY <2>1, <3>1, <3>3 DEF Clean, OneRun
    <3>7. QED
      BY <3>4, <3>5, <3>6 DEF Clean
  <2>4. QED
    BY <2>2, <2>3
<1>5. QED
  BY <1>1, <1>2, <1>3, <1>4 DEF Faults

\* CleanInv is inductive.
LEMMA CleanInduction == /\ Init => CleanInv
                        /\ CleanInv /\ [Next]_vars => CleanInv'
<1>1. Init => CleanInv
  <2> SUFFICES ASSUME Init PROVE CleanInv
    OBVIOUS
  <2>1. LockHeld
    BY DEF Init, LockHeld
  <2>2. ASSUME NEW j \in Jobs PROVE Clean(j)
    <3>1. /\ \A r \in Requests : ~ Holds(r, j) /\ ~ Found(r, j)
          /\ \A w \in Workers : ~ Popped(w, j) /\ ~ Running(w, j)
      BY DEF Init, Holds, Found, Popped, Running
    <3>2. Once(queue, j) /\ Once(saved, j) /\ ~ InList(queue, j)
      BY DEF Init, Once, InList
    <3>3. CoherentRow(row[j])
      BY DEF Init, CoherentRow, NoRow
    <3>4. QED
      BY <3>1, <3>2, <3>3 DEF Clean, OnePlace, RowAgrees, OneRun
  <2>3. QED
    BY <2>1, <2>2, InitTypeOK DEF CleanInv
<1>2. ASSUME CleanInv, [Next]_vars PROVE CleanInv'
  <2>1. CASE Next
    <3>1. TypeOK'
      BY <1>2, <2>1, RequestTypeOK, WorkerTypeOK, FaultTypeOK DEF Next, CleanInv
    <3>2. QED
      BY <1>2, <2>1, <3>1, CleanRequest, CleanWorker, CleanFault DEF Next, Faults
  <2>2. CASE UNCHANGED vars
    <3>1. TypeOK'
      BY <1>2, <2>2 DEF vars, CleanInv, TypeOK
    <3>2. LockHeld'
      BY <1>2, <2>2 DEF vars, CleanInv, LockHeld
    <3>3. ASSUME NEW j \in Jobs \ stray' PROVE Clean(j)'
      BY <1>2, <2>2, <3>3 DEF vars, CleanInv, Clean, OnePlace, RowAgrees, OneRun,
                              Holds, Found, Popped, Running
    <3>4. QED
      BY <3>1, <3>2, <3>3 DEF CleanInv
  <2>3. QED
    BY <1>2, <2>1, <2>2
<1>3. QED
  BY <1>1, <1>2

\* In every reachable state the id of a job that is not stray is in one place, its row
\* agrees with that place, at most one worker runs it and a completed row is coherent.
THEOREM CleanAlways == Spec => []CleanInv
BY CleanInduction, PTL DEF Spec

\* The id of a job is in one place at a time, and only while the row is queued.
THEOREM IdInOnePlace == Spec => []SoleCarrier
<1>1. CleanInv => SoleCarrier
  <2> SUFFICES ASSUME CleanInv, NEW j \in Jobs \ stray
               PROVE  /\ \A c, d \in Carriers(j) : c = d
                      /\ Carriers(j) # {} => row[j].status = "queued"
    BY DEF SoleCarrier
  <2>1. Clean(j)
    BY DEF CleanInv
  <2>2. ASSUME NEW c \in Carriers(j)
        PROVE  \/ \E r \in Requests : Holds(r, j) /\ c = <<"request", r>>
               \/ \E i \in DOMAIN queue : queue[i] = j /\ c = <<"queue", i>>
               \/ \E w \in Workers : Popped(w, j) /\ c = <<"worker", w>>
    BY <2>2 DEF Carriers, Holds, Popped
  <2>3. ASSUME NEW c \in Carriers(j), NEW d \in Carriers(j) PROVE c = d
    <3>1. CASE \E r \in Requests : Holds(r, j) /\ c = <<"request", r>>
      BY <2>1, <2>2, <3>1 DEF Clean, OnePlace, InList
    <3>2. CASE \E i \in DOMAIN queue : queue[i] = j /\ c = <<"queue", i>>
      BY <2>1, <2>2, <3>2 DEF Clean, OnePlace, InList, Once
    <3>3. CASE \E w \in Workers : Popped(w, j) /\ c = <<"worker", w>>
      BY <2>1, <2>2, <3>3 DEF Clean, OnePlace, InList
    <3>4. QED
      BY <2>2, <3>1, <3>2, <3>3
  <2>4. ASSUME NEW c \in Carriers(j) PROVE row[j].status = "queued"
    BY <2>1, <2>2 DEF Clean, RowAgrees, InList
  <2>5. QED
    BY <2>3, <2>4
<1>2. QED
  BY <1>1, CleanAlways, PTL

\* At most one worker runs a job at a time, and its row says "running" meanwhile.
THEOREM OneRunnerPerJob == Spec => []SingleRunner
<1>1. CleanInv => SingleRunner
  BY DEF CleanInv, SingleRunner, Clean, OneRun
<1>2. QED
  BY <1>1, CleanAlways, PTL

\* A completed job shows the result, the context and the count of one attempt.
THEOREM CompletedRowsCohere == Spec => []CompletedIsCoherent
<1>1. CleanInv => CompletedIsCoherent
  BY DEF CleanInv, CompletedIsCoherent, Clean, CoherentRow
<1>2. QED
  BY <1>1, CleanAlways, PTL

\* The columns of a row that a step changes, one line per kind of step: the
\* steps of requests, workers and faults as a client sees them.
LEMMA StatusMoves ==
    ASSUME CleanInv, Next
    PROVE  \/ /\ row' = row
              /\ stray \subseteq stray' /\ stray' \subseteq Jobs
           \/ \E j \in Jobs :
                 /\ stray' = stray
                 /\ \E new \in Row :
                       /\ row' = [row EXCEPT ![j] = new]
                       /\ \/ row[j].status = "queued" /\ new.status = "running"
                          \/ new.status # "running" /\ new.status # "absent"
                          \/ new.status = row[j].status
                 /\ j \notin stray =>
                       \/ row[j].status \in MustQueue /\ row'[j].status = "queued"
                       \/ row[j].status = "queued" /\ row'[j].status \in {"running", "failed"}
                       \/ row[j].status = "running"
                             /\ row'[j].status \in {"running", "completed", "failed"}
<1> USE DEF CleanInv
<1>0. /\ \A j \in Jobs : row[j] \in Row
      /\ \A r \in Requests : rseen[r] \in Row
      /\ \A w \in Workers : wseen[w] \in Row
      /\ stray \subseteq Jobs
  BY DEF TypeOK
<1>1. ASSUME NEW r \in Requests, CommitRequest(r)
      PROVE  \E new \in Row : /\ row' = [row EXCEPT ![rjob[r]] = new]
                              /\ new.status \in {"queued", row[rjob[r]].status}
                              /\ rjob[r] \notin stray =>
                                    /\ row[rjob[r]].status \in MustQueue
                                    /\ new.status = "queued"
  <2> DEFINE j == rjob[r]
             new == IF rseen[r].status = "absent"
                      THEN NewRow
                      ELSE Flush(row[j], rseen[r], Requeued(rseen[r]))
  <2>1. j \in Jobs
    BY <1>1 DEF CommitRequest, TypeOK
  <2>2. /\ new \in Row /\ Requeued(rseen[r]) \in Row
        /\ new.status \in {"queued", row[j].status}
    <3>1. Requeued(rseen[r]) \in Row
      BY <1>0, WritersKeepRows DEF Errors
    <3>2. new \in Row
      BY <1>0, <2>1, <3>1, FlushIsRow, FirstRows
    <3>3. new.status \in {"queued", row[j].status}
      BY DEF NewRow, NoRow, Marked, Flush, Emit, Requeued
    <3>4. QED
      BY <3>1, <3>2, <3>3
  <2>3. row' = [row EXCEPT ![j] = new]
    BY <1>1 DEF CommitRequest
  <2>4. ASSUME j \notin stray
        PROVE  row[j].status \in MustQueue /\ new.status = "queued"
    <3>1. Found(r, j) /\ Clean(j)
      BY <1>1, <2>1, <2>4 DEF Found, CommitRequest
    <3>2. row[j].status \in MustQueue /\ rseen[r] = row[j]
      BY <3>1 DEF Clean, RowAgrees
    <3>3. QED
      BY <3>2, <2>1, <2>2, <1>0, FreshFlush DEF NewRow, NoRow, Marked, Requeued
  <2>5. QED
    BY <2>2, <2>3, <2>4
<1>2. ASSUME NEW r \in Requests, RecordRefusal(r)
      PROVE  \E new \in Row : /\ row' = [row EXCEPT ![rjob[r]] = new]
                              /\ new.status \in {"failed", row[rjob[r]].status}
                              /\ rjob[r] \notin stray =>
                                    /\ row[rjob[r]].status = "queued"
                                    /\ new.status = "failed"
  <2> DEFINE j == rjob[r]
             assigned == Failed(rseen[r], "enqueue")
             new == Flush(row[j], rseen[r], assigned)
  <2>1. j \in Jobs
    BY <1>2 DEF RecordRefusal, TypeOK
  <2>2. assigned \in Row /\ assigned.status = "failed"
    BY <1>0, WritersKeepRows DEF Errors, Failed, Marked
  <2>3. new \in Row /\ new.status \in {"failed", row[j].status}
    BY <1>0, <2>1, <2>2, FlushIsRow DEF Flush, Emit
  <2>4. row' = [row EXCEPT ![j] = new]
    BY <1>2 DEF RecordRefusal
  <2>5. ASSUME j \notin stray
        PROVE  row[j].status = "queued" /\ new.status = "failed"
    <3>1. Holds(r, j) /\ Clean(j)
      BY <1>2, <2>1, <2>5 DEF Holds, RecordRefusal
    <3>2. row[j].status = "queued" /\ rseen[r] = row[j]
      BY <3>1 DEF Clean, RowAgrees
    <3>3. QED
      BY <3>2, <2>1, <2>2, <1>0, FreshFlush
  <2>6. QED
    BY <2>3, <2>4, <2>5
<1>3. ASSUME NEW w \in Workers, Claim(w)
      PROVE  /\ row[wjob[w]].status = "queued"
             /\ \E new \in Row : /\ row' = [row EXCEPT ![wjob[w]] = new]
                                 /\ new.status = "running"
  <2>1. wjob[w] \in Jobs
    BY <1>3 DEF Claim, TypeOK
  <2>2. Claimed(row[wjob[w]]) \in Row /\ Claimed(row[wjob[w]]).status = "running"
    BY <1>0, <2>1, WritersKeepRows DEF Errors, Claimed
  <2>3. QED
    BY <1>3, <2>2 DEF Claim
<1>4. ASSUME NEW w \in Workers, NEW assigned \in Row,
             wpc[w] \in {"claimed", "loaded", "failing"},
             row' = [row EXCEPT ![wjob[w]] = Flush(row[wjob[w]], wseen[w], assigned)],
             \/ assigned.status \in {"completed", "failed"}
             \/ assigned.status = wseen[w].status
      PROVE  \E new \in Row : /\ row' = [row EXCEPT ![wjob[w]] = new]
                              /\ new.status \in {"completed", "failed", row[wjob[w]].status}
                              /\ wjob[w] \notin stray => row[wjob[w]].status = "running"
  <2>1. wjob[w] \in Jobs
    BY <1>4 DEF TypeOK
  <2>2. /\ Flush(row[wjob[w]], wseen[w], assigned) \in Row
        /\ Flush(row[wjob[w]], wseen[w], assigned).status
              \in {"completed", "failed", row[wjob[w]].status}
    BY <1>0, <1>4, <2>1, FlushIsRow DEF Flush, Emit
  <2>3. wjob[w] \notin stray => row[wjob[w]].status = "running"
    BY <1>4, <2>1 DEF Clean, OneRun, Running
  <2>4. QED
    BY <1>4, <2>2, <2>3
<1>5. ASSUME NEW w \in Workers
      PROVE  /\ Checkpointed(wseen[w]) \in Row
             /\ Checkpointed(wseen[w]).status = wseen[w].status
             /\ Completed(wseen[w]) \in Row
             /\ Completed(wseen[w]).status = "completed"
             /\ Failed(wseen[w], "workflow") \in Row
             /\ Failed(wseen[w], "workflow").status = "failed"
  BY <1>0, WritersKeepRows DEF Errors, Checkpointed, Completed, Failed, Marked
<1> DEFINE Moves(j) ==
         /\ stray' = stray
         /\ \E new \in Row :
               /\ row' = [row EXCEPT ![j] = new]
               /\ \/ row[j].status = "queued" /\ new.status = "running"
                  \/ new.status # "running" /\ new.status # "absent"
                  \/ new.status = row[j].status
         /\ j \notin stray =>
               \/ row[j].status \in MustQueue /\ row'[j].status = "queued"
               \/ row[j].status = "queued" /\ row'[j].status \in {"running", "failed"}
               \/ row[j].status = "running"
                     /\ row'[j].status \in {"running", "completed", "failed"}
<1>6. ASSUME NEW r \in Requests, CommitRequest(r)
      PROVE  rjob[r] \in Jobs /\ Moves(rjob[r])
  <2>1. stray' = stray /\ rjob[r] \in Jobs
    BY <1>6 DEF CommitRequest, TypeOK
  <2>2. QED
    BY <1>1, <1>6, <2>1 DEF TypeOK
<1>7. ASSUME NEW r \in Requests, RecordRefusal(r)
      PROVE  rjob[r] \in Jobs /\ Moves(rjob[r])
  <2>1. stray' = stray /\ rjob[r] \in Jobs
    BY <1>7 DEF RecordRefusal, TypeOK
  <2>2. QED
    BY <1>2, <1>7, <2>1 DEF TypeOK
<1>8. ASSUME NEW w \in Workers, Claim(w)
      PROVE  wjob[w] \in Jobs /\ Moves(wjob[w])
  <2>1. stray' = stray /\ wjob[w] \in Jobs
    BY <1>8 DEF Claim, TypeOK
  <2>2. QED
    BY <1>3, <1>8, <2>1 DEF TypeOK
<1>9. ASSUME NEW w \in Workers, Checkpoint(w) \/ Complete(w) \/ RecordFailure(w)
      PROVE  wjob[w] \in Jobs /\ Moves(wjob[w])
  <2>1. stray' = stray /\ wjob[w] \in Jobs
    BY <1>9 DEF Checkpoint, Complete, RecordFailure, TypeOK
  <2>2. \E new \in Row : /\ row' = [row EXCEPT ![wjob[w]] = new]
                         /\ new.status \in {"completed", "failed", row[wjob[w]].status}
                         /\ wjob[w] \notin stray => row[wjob[w]].status = "running"
    <3>1. CASE Checkpoint(w)
      BY <3>1, <1>4, <1>5 DEF Checkpoint
    <3>2. CASE Complete(w)
      BY <3>2, <1>4, <1>5 DEF Complete
    <3>3. CASE RecordFailure(w)
      BY <3>3, <1>4, <1>5 DEF RecordFailure
    <3>4. QED
      BY <1>9, <3>1, <3>2, <3>3
  <2>3. QED
    BY <2>1, <2>2 DEF TypeOK
<1>10. ASSUME NEW r \in Requests,
              \/ \E j \in Jobs : Locate(r, j) \/ Join(r, j)
              \/ Enqueue(r) \/ EnqueueFails(r) \/ EnqueueUnsure(r) \/ RequestDies(r)
       PROVE  row' = row /\ stray \subseteq stray' /\ stray' \subseteq Jobs
  BY <1>0, <1>10 DEF Locate, Join, Enqueue, EnqueueFails, EnqueueUnsure, RequestDies, TypeOK
<1>11. ASSUME NEW w \in Workers,
              \/ Dequeue(w) \/ SkipClaim(w) \/ WorkflowError(w)
              \/ WorkerDies(w) \/ WorkerRestarts(w)
       PROVE  row' = row /\ stray \subseteq stray' /\ stray' \subseteq Jobs
  BY <1>0, <1>11 DEF Dequeue, SkipClaim, WorkflowError, WorkerDies, WorkerRestarts
<1>12. ASSUME RedisSnapshot \/ RedisRestarts
       PROVE  row' = row /\ stray \subseteq stray' /\ stray' \subseteq Jobs
  <2>1. Entries(saved) \subseteq Jobs
    BY DEF Entries, TypeOK
  <2>2. QED
    BY <1>0, <1>12, <2>1 DEF RedisSnapshot, RedisRestarts
<1>13. QED
  BY <1>6, <1>7, <1>8, <1>9, <1>10, <1>11, <1>12 DEF Next, RequestStep, WorkerStep

\* A completed job whose entries are accounted for is never touched again.
THEOREM CompletedNeverChanges == Spec => CompletedIsFinal
<1>1. ASSUME CleanInv, [Next]_vars, NEW j \in Jobs,
             row[j].status = "completed", j \notin stray'
      PROVE  row'[j] = row[j]
  <2>1. CASE Next
    <3>1. CASE row' = row
      BY <3>1
    <3>2. ASSUME NEW i \in Jobs, NEW new \in Row, row' = [row EXCEPT ![i] = new],
                 stray' = stray,
                 i \notin stray => row[i].status # "completed"
          PROVE  row'[j] = row[j]
      BY <1>1, <3>2 DEF CleanInv, TypeOK
    <3>3. QED
      BY <1>1, <2>1, <3>1, <3>2, StatusMoves DEF MustQueue
  <2>2. CASE UNCHANGED vars
    BY <2>2 DEF vars
  <2>3. QED
    BY <1>1, <2>1, <2>2
<1>2. CleanInv /\ [Next]_vars =>
         [\A j \in Jobs : row[j].status = "completed" /\ j \notin stray'
                          => row'[j] = row[j]]_vars
  BY <1>1
<1>3. QED
  BY <1>2, CleanAlways, PTL DEF Spec, CompletedIsFinal

\* What clients read of a job follows the abstract life of a job.
THEOREM ImplementsLifecycle == Spec => LifecycleSpec
<1> DEFINE St == [j \in Jobs |-> row[j].status]
<1>1. Init => Lifecycle!Init
  BY DEF Init, NoRow, Lifecycle!Init
<1>2. ASSUME CleanInv, [Next]_vars PROVE [Lifecycle!Next]_(Lifecycle!vars)
  <2>1. CASE UNCHANGED vars
    BY <2>1 DEF vars, Lifecycle!vars
  <2>2. CASE Next /\ row' = row /\ stray \subseteq stray' /\ stray' \subseteq Jobs
    <3>1. Lifecycle!Disown
      BY <2>2 DEF Lifecycle!Disown
    <3>2. QED
      BY <3>1 DEF Lifecycle!Next
  <2>3. ASSUME NEW i \in Jobs, NEW new \in Row, stray' = stray,
               row' = [row EXCEPT ![i] = new],
               \/ row[i].status = "queued" /\ new.status = "running"
               \/ new.status # "running" /\ new.status # "absent"
               \/ new.status = row[i].status,
               i \notin stray =>
                  \/ row[i].status \in MustQueue /\ row'[i].status = "queued"
                  \/ row[i].status = "queued" /\ row'[i].status \in {"running", "failed"}
                  \/ row[i].status = "running"
                        /\ row'[i].status \in {"running", "completed", "failed"}
        PROVE  [Lifecycle!Next]_(Lifecycle!vars)
    <3>1. row'[i] = new /\ new.status \in Statuses
      BY <1>2, <2>3 DEF CleanInv, TypeOK, Row
    <3>2. St' = [St EXCEPT ![i] = new.status] /\ St[i] = row[i].status
      BY <1>2, <2>3 DEF CleanInv, TypeOK
    <3>3. CASE new.status = row[i].status
      <4>1. St' = St
        BY <3>2, <3>3
      <4>2. QED
        BY <4>1, <2>3 DEF Lifecycle!vars
    <3>4. CASE row[i].status = "queued" /\ new.status = "running"
      <4>1. Lifecycle!Claim(i)
        BY <2>3, <3>2, <3>4 DEF Lifecycle!Claim, Lifecycle!Move
      <4>2. QED
        BY <4>1 DEF Lifecycle!Next
    <3>5. CASE i \in stray /\ new.status # "running" /\ new.status # "absent"
      <4>1. new.status \in Lifecycle!Statuses \ {"running", "absent"}
        BY <3>1, <3>5 DEF Statuses, Lifecycle!Statuses
      <4>2. Lifecycle!Overwrite(i)
        BY <2>3, <3>2, <3>5, <4>1 DEF Lifecycle!Overwrite
      <4>3. QED
        BY <4>2 DEF Lifecycle!Next
    <3>6. CASE i \notin stray
      <4>1. \/ row[i].status \in MustQueue /\ new.status = "queued"
            \/ row[i].status = "queued" /\ new.status = "failed"
            \/ row[i].status = "running" /\ new.status = "completed"
            \/ row[i].status = "running" /\ new.status = "failed"
            \/ row[i].status = "queued" /\ new.status = "running"
            \/ new.status = row[i].status
        BY <2>3, <3>1, <3>6
      <4>2. CASE row[i].status \in MustQueue /\ new.status = "queued"
        <5>1. Lifecycle!Request(i)
          BY <2>3, <3>2, <4>2 DEF Lifecycle!Request, Lifecycle!Move, MustQueue
        <5>2. QED
          BY <5>1 DEF Lifecycle!Next
      <4>3. CASE row[i].status = "queued" /\ new.status = "failed"
        <5>1. Lifecycle!Refuse(i)
          BY <2>3, <3>2, <4>3 DEF Lifecycle!Refuse, Lifecycle!Move
        <5>2. QED
          BY <5>1 DEF Lifecycle!Next
      <4>4. CASE row[i].status = "running" /\ new.status = "completed"
        <5>1. Lifecycle!Complete(i)
          BY <2>3, <3>2, <4>4 DEF Lifecycle!Complete, Lifecycle!Move
        <5>2. QED
          BY <5>1 DEF Lifecycle!Next
      <4>5. CASE row[i].status = "running" /\ new.status = "failed"
        <5>1. Lifecycle!Fail(i)
          BY <2>3, <3>2, <4>5 DEF Lifecycle!Fail, Lifecycle!Move
        <5>2. QED
          BY <5>1 DEF Lifecycle!Next
      <4>6. QED
        BY <3>3, <3>4, <4>1, <4>2, <4>3, <4>4, <4>5
    <3>7. QED
      BY <2>3, <3>3, <3>4, <3>5, <3>6
  <2>4. QED
    BY <1>2, <2>1, <2>2, <2>3, StatusMoves
<1>3. QED
  BY <1>1, <1>2, CleanAlways, PTL DEF Spec, LifecycleSpec, Lifecycle!Spec

-----------------------------------------------------------------------------
(* A queued job is forgotten only by a crash.                               *)

Carried(j) == \/ InList(queue, j)
              \/ \E r \in Requests : Holds(r, j)
              \/ \E w \in Workers : Popped(w, j)

\* A refused request overwrites the status because its own copy says "queued".
CarriedInv ==
    /\ TypeOK
    /\ \A r \in Requests : rpc[r] \in {"committed", "refused"} =>
                              rseen[r].status = "queued"
    /\ \A j \in Jobs \ lost : row[j].status = "queued" => Carried(j)

\* A flush that does not assign "queued" anew makes no row queued.
LEMMA FlushQueues ==
    ASSUME NEW stored, NEW loaded, NEW assigned,
           assigned.status # "queued" \/ assigned.status = loaded.status,
           Flush(stored, loaded, assigned).status = "queued"
    PROVE  stored.status = "queued"
BY DEF Flush, Emit

\* A request that queues a row carries its id until it is pushed or refused.
LEMMA CarriedRequest ==
    ASSUME CarriedInv, TypeOK', NEW r \in Requests, RequestStep(r)
    PROVE  CarriedInv'
<1> USE DEF CarriedInv
<1>1. \A s \in Requests : rpc'[s] \in {"committed", "refused"} =>
                             rseen'[s].status = "queued"
  BY DEF RequestStep, Locate, Join, CommitRequest, Enqueue, EnqueueFails,
         EnqueueUnsure, RecordRefusal, NewRow, NoRow, Requeued, Marked, TypeOK
<1>2. ASSUME NEW j \in Jobs \ lost', row'[j].status = "queued" PROVE Carried(j)'
  <2>0. j \in Jobs \ lost /\ \A w \in Workers : Popped(w, j)' <=> Popped(w, j)
    BY <1>2 DEF RequestStep, Locate, Join, CommitRequest, Enqueue, EnqueueFails,
                EnqueueUnsure, RecordRefusal, Popped
  <2>1. ASSUME NEW i \in Jobs, Locate(r, i) \/ Join(r, i) PROVE Carried(j)'
    <3>1. /\ row' = row /\ queue' = queue
          /\ \A s \in Requests : Holds(s, j) => Holds(s, j)'
      BY <2>1 DEF Locate, Join, Holds, TypeOK
    <3>2. QED
      BY <1>2, <2>0, <3>1 DEF Carried
  <2>2. CASE CommitRequest(r)
    <3>1. /\ queue' = queue /\ rjob[r] \in Jobs
          /\ \A s \in Requests : Holds(s, j) => Holds(s, j)'
          /\ rjob[r] = j => Holds(r, j)'
          /\ rjob[r] # j => row'[j] = row[j]
      BY <2>2 DEF CommitRequest, Holds, TypeOK
    <3>2. QED
      BY <1>2, <2>0, <3>1 DEF Carried
  <2>3. CASE Enqueue(r) \/ EnqueueUnsure(r)
    <3>1. /\ row' = row /\ queue' = Append(queue, rjob[r])
          /\ rjob[r] \in Jobs /\ queue \in Seq(Jobs)
          /\ \A s \in Requests \ {r} : Holds(s, j) => Holds(s, j)'
          /\ Holds(r, j) => rjob[r] = j
      BY <2>3 DEF Enqueue, EnqueueUnsure, Holds, TypeOK
    <3>2. InList(queue, j)' <=> InList(queue, j) \/ rjob[r] = j
      BY <3>1, PushOnce
    <3>3. QED
      BY <1>2, <2>0, <3>1, <3>2 DEF Carried
  <2>4. CASE EnqueueFails(r)
    <3>1. /\ row' = row /\ queue' = queue
          /\ \A s \in Requests : Holds(s, j) => Holds(s, j)'
      BY <2>4 DEF EnqueueFails, Holds, TypeOK
    <3>2. QED
      BY <1>2, <2>0, <3>1 DEF Carried
  <2>5. CASE RecordRefusal(r)
    <3>1. /\ queue' = queue /\ rjob[r] \in Jobs
          /\ \A s \in Requests \ {r} : Holds(s, j) => Holds(s, j)'
          /\ Holds(r, j) => rjob[r] = j
          /\ rjob[r] # j => row'[j] = row[j]
          /\ rseen[r].status = "queued"
      BY <2>5 DEF RecordRefusal, Holds, TypeOK
    <3>2. rjob[r] # j
      <4> SUFFICES ASSUME rjob[r] = j PROVE FALSE
        OBVIOUS
      <4>1. row'[j] = Flush(row[j], rseen[r], Failed(rseen[r], "enqueue"))
        BY <2>5, <3>1 DEF RecordRefusal, TypeOK
      <4>2. QED
        BY <1>2, <3>1, <4>1 DEF Flush, Emit, Failed, Marked
    <3>3. QED
      BY <1>2, <2>0, <3>1, <3>2 DEF Carried
  <2>6. QED
    BY <2>1, <2>2, <2>3, <2>4, <2>5 DEF RequestStep
<1>3. QED
  BY <1>1, <1>2

\* A worker drops an id only when the row is no longer queued.
LEMMA CarriedWorker ==
    ASSUME CarriedInv, TypeOK', NEW w \in Workers, WorkerStep(w)
    PROVE  CarriedInv'
<1> USE DEF CarriedInv
<1>0. UNCHANGED <<rpc, rjob, rseen, lost>>
  BY DEF WorkerStep, Dequeue, Claim, SkipClaim, Checkpoint, Complete,
         WorkflowError, RecordFailure
<1>1. ASSUME NEW j \in Jobs \ lost', row'[j].status = "queued" PROVE Carried(j)'
  <2>0. j \in Jobs \ lost /\ \A r \in Requests : Holds(r, j)' <=> Holds(r, j)
    BY <1>0, <1>1 DEF Holds
  <2>1. CASE Dequeue(w)
    <3>1. /\ row' = row /\ queue \in Seq(Jobs) /\ queue # <<>> /\ queue' = Tail(queue)
          /\ \A v \in Workers : Popped(v, j) => Popped(v, j)'
          /\ Head(queue) = j => Popped(w, j)'
      BY <2>1 DEF Dequeue, Popped, TypeOK
    <3>2. InList(queue, j) => Head(queue) = j \/ InList(queue, j)'
      <4> SUFFICES ASSUME NEW i \in DOMAIN queue, queue[i] = j, Head(queue) # j
                   PROVE  InList(Tail(queue), j)
        BY <3>1 DEF InList
      <4>1. /\ Len(queue) \in Nat /\ DOMAIN queue = 1 .. Len(queue)
            /\ DOMAIN Tail(queue) = 1 .. (Len(queue) - 1)
            /\ Head(queue) = queue[1]
            /\ \A k \in 1 .. (Len(queue) - 1) : Tail(queue)[k] = queue[k + 1]
        BY <3>1
      <4>2. i - 1 \in DOMAIN Tail(queue) /\ Tail(queue)[i - 1] = queue[i]
        BY <4>1
      <4>3. QED
        BY <4>2 DEF InList
    <3>3. QED
      BY <1>1, <2>0, <3>1, <3>2 DEF Carried
  <2>2. CASE Claim(w)
    <3>1. /\ queue' = queue /\ wjob[w] \in Jobs
          /\ wjob[w] # j => row'[j] = row[j]
          /\ wjob[w] = j => row'[j].status = "running"
          /\ \A v \in Workers : Popped(v, j) /\ wjob[w] # j => Popped(v, j)'
      BY <2>2 DEF Claim, Claimed, Popped, TypeOK
    <3>2. QED
      BY <1>1, <2>0, <3>1 DEF Carried
  <2>3. CASE SkipClaim(w)
    <3>1. /\ queue' = queue /\ row' = row
          /\ row[wjob[w]].status # "queued"
          /\ \A v \in Workers : Popped(v, j) /\ wjob[w] # j => Popped(v, j)'
      BY <2>3 DEF SkipClaim, Release, Popped, TypeOK
    <3>2. QED
      BY <1>1, <2>0, <3>1 DEF Carried
  <2>4. CASE Checkpoint(w) \/ Complete(w) \/ RecordFailure(w)
    <3>1. /\ queue' = queue
          /\ \A v \in Workers : Popped(v, j) => Popped(v, j)'
      BY <2>4 DEF Checkpoint, Complete, RecordFailure, Release, Popped, TypeOK
    <3>2. row[j].status = "queued"
      <4>1. wjob[w] \in Jobs
        BY <2>4 DEF Checkpoint, Complete, RecordFailure, TypeOK
      <4>2. ASSUME NEW assigned,
                   row' = [row EXCEPT ![wjob[w]] =
                              Flush(row[wjob[w]], wseen[w], assigned)],
                   assigned.status # "queued" \/ assigned.status = wseen[w].status
            PROVE  row[j].status = "queued"
        <5>1. CASE wjob[w] = j
          BY <1>1, <4>1, <4>2, <5>1, FlushQueues DEF TypeOK
        <5>2. CASE wjob[w] # j
          BY <1>1, <4>1, <4>2, <5>2 DEF TypeOK
        <5>3. QED
          BY <5>1, <5>2
      <4>3. /\ Checkpointed(wseen[w]).status = wseen[w].status
            /\ Completed(wseen[w]).status # "queued"
            /\ Failed(wseen[w], "workflow").status # "queued"
        BY DEF Checkpointed, Completed, Failed, Marked
      <4>4. CASE Checkpoint(w)
        BY <4>2, <4>3, <4>4 DEF Checkpoint
      <4>5. CASE Complete(w)
        BY <4>2, <4>3, <4>5 DEF Complete
      <4>6. CASE RecordFailure(w)
        BY <4>2, <4>3, <4>6 DEF RecordFailure
      <4>7. QED
        BY <2>4, <4>4, <4>5, <4>6
    <3>3. QED
      BY <2>0, <3>1, <3>2 DEF Carried
  <2>5. CASE WorkflowError(w)
    <3>1. /\ queue' = queue /\ row' = row
          /\ \A v \in Workers : Popped(v, j) => Popped(v, j)'
      BY <2>5 DEF WorkflowError, Popped, TypeOK
    <3>2. QED
      BY <1>1, <2>0, <3>1 DEF Carried
  <2>6. QED
    BY <2>1, <2>2, <2>3, <2>4, <2>5 DEF WorkerStep
<1>2. QED
  BY <1>0, <1>1

\* A fault that drops the id of a job records the job as lost.
LEMMA CarriedFault ==
    ASSUME CarriedInv, TypeOK', Faults
    PROVE  CarriedInv'
<1> USE DEF CarriedInv
<1>1. ASSUME NEW r \in Requests, RequestDies(r) PROVE CarriedInv'
  <2>1. /\ UNCHANGED <<row, queue, rjob, rseen, wpc, wjob>>
        /\ \A s \in Requests : s # r => rpc'[s] = rpc[s]
        /\ rpc'[r] \in {"aborted", "died"}
        /\ rpc[r] = "found" \/ lost' = lost \cup {rjob[r]}
        /\ lost \subseteq lost'
    BY <1>1 DEF RequestDies, TypeOK
  <2>2. ASSUME NEW j \in Jobs \ lost' PROVE row'[j].status = "queued" => Carried(j)'
    <3>1. /\ \A s \in Requests : Holds(s, j) => Holds(s, j)'
          /\ \A v \in Workers : Popped(v, j) => Popped(v, j)'
      BY <2>1, <2>2 DEF Holds, Popped
    <3>2. QED
      BY <2>1, <2>2, <3>1 DEF Carried
  <2>3. QED
    BY <2>1, <2>2
<1>2. ASSUME NEW w \in Workers, WorkerDies(w) \/ WorkerRestarts(w) PROVE CarriedInv'
  <2>1. /\ UNCHANGED <<row, queue, rpc, rjob, rseen>>
        /\ \A v \in Workers : v # w => wpc'[v] = wpc[v] /\ wjob'[v] = wjob[v]
        /\ wpc[w] \in {"idle", "down"} \/ lost' = lost \cup {wjob[w]}
        /\ lost \subseteq lost'
    BY <1>2 DEF WorkerDies, WorkerRestarts, TypeOK
  <2>2. ASSUME NEW j \in Jobs \ lost' PROVE row'[j].status = "queued" => Carried(j)'
    <3>1. /\ \A s \in Requests : Holds(s, j) => Holds(s, j)'
          /\ \A v \in Workers : Popped(v, j) => Popped(v, j)'
      BY <2>1, <2>2 DEF Holds, Popped
    <3>2. QED
      BY <2>1, <2>2, <3>1 DEF Carried
  <2>3. QED
    BY <2>1, <2>2
<1>3. CASE RedisSnapshot
  BY <1>3 DEF RedisSnapshot, Carried, Holds, Popped
<1>4. CASE RedisRestarts
  <2>1. /\ UNCHANGED <<row, rpc, rjob, rseen, wpc, wjob>>
        /\ queue' = saved
        /\ lost' = lost \cup (Entries(queue) \ Entries(saved))
    BY <1>4 DEF RedisRestarts
  <2>2. ASSUME NEW j \in Jobs \ lost' PROVE row'[j].status = "queued" => Carried(j)'
    <3>1. InList(queue, j) => InList(queue, j)'
      BY <2>1, <2>2 DEF InList, Entries
    <3>2. QED
      BY <2>1, <2>2, <3>1 DEF Carried, Holds, Popped
  <2>3. QED
    BY <2>1, <2>2
<1>5. QED
  BY <1>1, <1>2, <1>3, <1>4 DEF Faults

\* A queued job always has its id somewhere on the way to a worker, unless a
\* crash between PostgreSQL and Redis dropped it.
THEOREM QueuedIsNeverForgotten == Spec => []QueuedIsCarried
<1>1. Init => CarriedInv
  BY InitTypeOK DEF Init, CarriedInv, NoRow
<1>2. ASSUME CarriedInv, [Next]_vars PROVE CarriedInv'
  <2>1. CASE Next
    <3>1. TypeOK'
      BY <1>2, <2>1, RequestTypeOK, WorkerTypeOK, FaultTypeOK DEF Next, CarriedInv
    <3>2. QED
      BY <1>2, <2>1, <3>1, CarriedRequest, CarriedWorker, CarriedFault DEF Next, Faults
  <2>2. CASE UNCHANGED vars
    <3>1. TypeOK'
      BY <1>2, <2>2 DEF vars, CarriedInv, TypeOK
    <3>2. QED
      BY <1>2, <2>2, <3>1 DEF vars, CarriedInv, Carried, InList, Holds, Popped
  <2>3. QED
    BY <1>2, <2>1, <2>2
<1>3. CarriedInv => QueuedIsCarried
  <2> SUFFICES ASSUME CarriedInv, NEW j \in Jobs \ lost, row[j].status = "queued"
               PROVE  Carriers(j) # {}
    BY DEF QueuedIsCarried
  <2>1. Carried(j)
    BY DEF CarriedInv
  <2>2. QED
    BY <2>1 DEF Carried, Carriers, InList, Holds, Popped
<1>4. QED
  BY <1>1, <1>2, <1>3, PTL DEF Spec

=============================================================================
