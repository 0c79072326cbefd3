----------------------- MODULE InvestigationLifecycle -----------------------
(***************************************************************************)
(* What the investigation service promises to a client that polls          *)
(* GET /investigations/{id}: the life of one job per incident context, as  *)
(* the sequence of statuses the client can read.                           *)
(*                                                                         *)
(* A job is "disowned" once the bookkeeping of its Redis entries has gone  *)
(* wrong (an entry the service does not know of can still be delivered).   *)
(* The service keeps one promise even then: a job starts to run only when  *)
(* it is queued.  The rest of its life is no longer ordered.               *)
(***************************************************************************)
CONSTANTS Jobs        \* one per (incident, context hash, prompt version)

VARIABLES status,     \* status[j]: the status a client reads, "absent" before the first request
          disowned    \* the jobs with a Redis entry no request accounts for

vars == <<status, disowned>>

Statuses == {"absent", "queued", "running", "completed", "failed"}

Init == /\ status = [j \in Jobs |-> "absent"]
        /\ disowned = {}

Move(j, from, to) == /\ status[j] \in from
                     /\ status' = [status EXCEPT ![j] = to]
                     /\ UNCHANGED disowned

\* A request creates the job, or queues it again after a failure.
Request(j) == Move(j, {"absent", "failed"}, "queued")

\* The job could not be handed to a worker.
Refuse(j) == Move(j, {"queued"}, "failed")

\* Exactly one worker takes a queued job.
Claim(j) == Move(j, {"queued"}, "running")

Complete(j) == Move(j, {"running"}, "completed")

Fail(j) == Move(j, {"running"}, "failed")

\* Entries that no request accounts for appear in Redis.
Disown == /\ disowned' \in SUBSET Jobs
          /\ disowned \subseteq disowned'
          /\ UNCHANGED status

\* The status of a disowned job is overwritten by a stale writer; it never
\* becomes "running" this way, because only Claim starts a run.
Overwrite(j) == /\ j \in disowned
                /\ \E s \in Statuses \ {"running", "absent"} :
                      status' = [status EXCEPT ![j] = s]
                /\ UNCHANGED disowned

Next == \/ Disown
        \/ \E j \in Jobs : Request(j) \/ Refuse(j) \/ Claim(j)
                             \/ Complete(j) \/ Fail(j) \/ Overwrite(j)

Spec == Init /\ [][Next]_vars
=============================================================================
