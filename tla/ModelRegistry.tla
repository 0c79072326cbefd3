---------------------------- MODULE ModelRegistry ----------------------------
(***************************************************************************)
(* The trained models: the training commands of the anomaly detector and   *)
(* of the incident classifier, each one transaction that writes an         *)
(* artifact file on its way; the registry that says which model is active; *)
(* the services that score with it, and the command that evaluates it.     *)
(*                                                                         *)
(* A transaction's rows are seen at its commit.  An UPDATE of the active   *)
(* rows takes its snapshot first, then waits for the rows that another     *)
(* transaction has changed and looks at them again.  Training times are    *)
(* distinct.  A failed command leaves no trace but its file.               *)
(***************************************************************************)
EXTENDS Naturals, FiniteSets

CONSTANTS
    Trainings,              \* runs of a training command; each makes one model
    Services, Evaluations,  \* scoring services, runs of the evaluation command
    Cases,                  \* labelled incidents
    Source, Review,         \* of a case
    Dated, WithEvents,      \* the cases that have a time, and events
    MinCases,
    NoModel

Kinds == {"anomaly", "incident"}
ReviewedSources == {"reviewed_internal", "reviewed_public_telemetry"}
SeededSources == {"lab_synthetic", "public_simulation_metadata"}

ASSUME ModelsAssumption == NoModel \notin Trainings
ASSUME CasesAssumption == Dated \subseteq Cases

VARIABLES
    stored,                 \* table training_incidents
    status, metrics,        \* table model_registry: of the model of each training
    files,                  \* models whose artifact is written
    pc, kind, cases, asks,  \* trainings: their kind, dataset, and if they are to activate
    earlier,                \* the models of its kind that were trained before it
    seen, off,              \* the active rows its UPDATE saw, and those it has set inactive
    loaded, answer,         \* services: the artifact in memory, the last answer
    subject,                \* the model an evaluation has read
    overlapped              \* history: kinds of which two activations ran together

table == <<status, metrics>>
training == <<pc, kind, cases, asks, earlier, seen, off>>
readers == <<loaded, answer, subject>>
vars == <<stored, table, files, training, readers, overlapped>>

NoAnswer == [model |-> NoModel, artifact |-> NoModel]

Init ==
    /\ stored = {c \in Cases : Source[c] \in ReviewedSources}
    /\ status = [t \in Trainings |-> "none"]
    /\ metrics = [t \in Trainings |-> "none"]
    /\ files = {}
    /\ pc = [t \in Trainings |-> "idle"]
    /\ kind = [t \in Trainings |-> "anomaly"]
    /\ cases = [t \in Trainings |-> {}]
    /\ asks = [t \in Trainings |-> FALSE]
    /\ earlier = [t \in Trainings |-> {}]
    /\ seen = [t \in Trainings |-> {}] /\ off = [t \in Trainings |-> {}]
    /\ loaded = [r \in Services |-> NoModel]
    /\ answer = [r \in Services |-> NoAnswer]
    /\ subject = [e \in Evaluations |-> NoModel]
    /\ overlapped = {}
-----------------------------------------------------------------------------
\* Lab cases and public references; what is there already is left alone.
Seed ==
    /\ stored' = stored \cup {c \in Cases : Source[c] \in SeededSources}
    /\ UNCHANGED <<table, files, training, readers, overlapped>>

\* load_training_cases.
FromTable(lab) ==
    {c \in stored \cap Dated \cap WithEvents :
        IF lab THEN Source[c] = "lab_synthetic"
        ELSE Source[c] \in ReviewedSources /\ Review[c] = "approved"}

\* What a file or an object of S3 may hold: every case in it has a time.
Parsed == SUBSET Dated

\* What may be activated is trained on approved evidence only.
Approved(C) == \A c \in C : /\ Review[c] = "approved" /\ Source[c] \in ReviewedSources
                            /\ c \in WithEvents

Goto(t, from, to) == pc[t] = from /\ pc' = [pc EXCEPT ![t] = to]

Trained(n) == {t \in Trainings : kind[t] = n /\ pc[t] \notin {"idle", "loaded", "gated", "failed"}}

\* The training time of a model of kind n.
Stamp(t, n) == earlier' = [earlier EXCEPT ![t] = Trained(n)]

\* The dataset of an incident classifier is parsed or comes from the table; lab cases
\* of the table are not for activation.
StartIncident(t) ==
    /\ Goto(t, "idle", "loaded")
    /\ kind' = [kind EXCEPT ![t] = "incident"]
    /\ \/ \E C \in Parsed, a \in BOOLEAN :
             cases' = [cases EXCEPT ![t] = C] /\ asks' = [asks EXCEPT ![t] = a]
       \/ \E a \in BOOLEAN :
             cases' = [cases EXCEPT ![t] = FromTable(FALSE)] /\ asks' = [asks EXCEPT ![t] = a]
       \/ cases' = [cases EXCEPT ![t] = FromTable(TRUE)] /\ UNCHANGED asks
    /\ UNCHANGED <<stored, table, files, earlier, seen, off, readers, overlapped>>

\* The checks, the fit, the metrics on the held-out cases, the file, and the row,
\* a shadow so far.
FitIncident(t) ==
    /\ Cardinality(cases[t]) >= MinCases
    /\ asks[t] => Approved(cases[t])
    /\ Goto(t, "loaded", "ready")
    /\ \E result \in {"passed", "failed"} : metrics' = [metrics EXCEPT ![t] = result]
    /\ Stamp(t, "incident")
    /\ files' = files \cup {t}
    /\ UNCHANGED <<stored, status, kind, cases, asks, seen, off, readers, overlapped>>

\* What a transaction has done is undone, and its dataset is gone.
Forget(t) ==
    /\ metrics' = [metrics EXCEPT ![t] = "none"]
    /\ cases' = [cases EXCEPT ![t] = {}] /\ asks' = [asks EXCEPT ![t] = FALSE]
    /\ earlier' = [s \in Trainings |-> IF s = t THEN {} ELSE earlier[s] \ {t}]
    /\ seen' = [seen EXCEPT ![t] = {}] /\ off' = [off EXCEPT ![t] = {}]

\* Without activation the shadow is committed.
CommitShadow(t) ==
    /\ kind[t] = "incident" /\ ~asks[t]
    /\ Goto(t, "ready", "ended")
    /\ status' = [status EXCEPT ![t] = "shadow"]
    /\ cases' = [cases EXCEPT ![t] = {}]
    /\ UNCHANGED <<stored, metrics, files, kind, asks, earlier, seen, off,
                   readers, overlapped>>

\* The gates failed: the command raises, and its session is closed.
GatesFail(t) ==
    /\ kind[t] = "incident" /\ asks[t] /\ metrics[t] = "failed"
    /\ Goto(t, "ready", "gated")
    /\ Forget(t)
    /\ UNCHANGED <<stored, status, files, kind, readers, overlapped>>

\* An anomaly detector is registered as "training" first, and always activated.
StartAnomaly(t) ==
    /\ Goto(t, "idle", "registered")
    /\ Stamp(t, "anomaly")
    /\ UNCHANGED <<stored, table, files, kind, cases, asks, seen, off, readers, overlapped>>

FitAnomaly(t) ==
    /\ Goto(t, "registered", "ready")
    /\ files' = files \cup {t}
    /\ UNCHANGED <<stored, table, kind, cases, asks, earlier, seen, off, readers,
                   overlapped>>
-----------------------------------------------------------------------------
Active(n) == {t \in Trainings : status[t] = "active" /\ kind[t] = n}

\* Trainings of a kind whose UPDATE has begun and is not committed.
Activating(n) == {t \in Trainings : kind[t] = n /\ pc[t] \in {"scanned", "activated"}}

Promotes(t) == kind[t] = "anomaly" \/ (asks[t] /\ metrics[t] = "passed")

\* Mutant: the result of the gates is not asked for.
ScanUngated(t) ==
    /\ Goto(t, "ready", "scanned")
    /\ seen' = [seen EXCEPT ![t] = Active(kind[t])]
    /\ overlapped' = IF Activating(kind[t]) = {} THEN overlapped ELSE overlapped \cup {kind[t]}
    /\ UNCHANGED <<stored, table, files, kind, cases, asks, earlier, off, readers>>

\* Mutant: the UPDATE is not limited to a model name.
ScanAnyName(t) ==
    /\ Promotes(t)
    /\ Goto(t, "ready", "scanned")
    /\ seen' = [seen EXCEPT ![t] = {s \in Trainings : status[s] = "active"}]
    /\ overlapped' = IF Activating(kind[t]) = {} THEN overlapped ELSE overlapped \cup {kind[t]}
    /\ UNCHANGED <<stored, table, files, kind, cases, asks, earlier, off, readers>>

\* The UPDATE of the rows that are active sees those of its model name.
Scan(t) ==
    /\ Promotes(t)
    /\ Goto(t, "ready", "scanned")
    /\ seen' = [seen EXCEPT ![t] = Active(kind[t])]
    /\ overlapped' = IF Activating(kind[t]) = {} THEN overlapped ELSE overlapped \cup {kind[t]}
    /\ UNCHANGED <<stored, table, files, kind, cases, asks, earlier, off, readers>>

Locked(s) == \E u \in Trainings : s \in off[u]

\* Mutant: the row is made active and the others are left as they are.
ActivateBeside(t) ==
    /\ Goto(t, "scanned", "activated")
    /\ UNCHANGED <<stored, table, files, kind, cases, asks, earlier, seen, off, readers,
                   overlapped>>

\* It waits for rows that others have changed, and leaves those that are no longer
\* active; then the training's own row becomes active.
Activate(t) ==
    /\ \A s \in seen[t] : ~Locked(s)
    /\ Goto(t, "scanned", "activated")
    /\ off' = [off EXCEPT ![t] = {s \in seen[t] : status[s] = "active"}]
    /\ UNCHANGED <<stored, table, files, kind, cases, asks, earlier, seen, readers,
                   overlapped>>

Commit(t) ==
    /\ Goto(t, "activated", "ended")
    /\ status' = [s \in Trainings |-> IF s = t THEN "active"
                                      ELSE IF s \in off[t] THEN "inactive" ELSE status[s]]
    /\ seen' = [seen EXCEPT ![t] = {}] /\ off' = [off EXCEPT ![t] = {}]
    /\ UNCHANGED <<stored, metrics, files, kind, cases, asks, earlier, readers,
                   overlapped>>

\* Whatever raises in a command, or ends its process, rolls its transaction back:
\* the cases are refused, the fit fails, an artifact cannot be written.  The status
\* "failed" that is written for an anomaly detector is not committed.
Fail(t) ==
    /\ pc[t] \in {"loaded", "registered", "ready", "scanned", "activated"}
    /\ pc' = [pc EXCEPT ![t] = "failed"]
    /\ Forget(t)
    /\ UNCHANGED <<stored, status, files, kind, readers, overlapped>>
-----------------------------------------------------------------------------
\* get_active: of the active rows of a name, the one trained last.
GetActive(n) == {t \in Active(n) : Active(n) \subseteq earlier[t] \cup {t}}

\* A request has a service of its own, that has loaded nothing.
NewService(r) ==
    /\ loaded' = [loaded EXCEPT ![r] = NoModel]
    /\ answer' = [answer EXCEPT ![r] = NoAnswer]
    /\ UNCHANGED <<stored, table, files, training, subject, overlapped>>

\* score_event: the active model is looked up for every event, its artifact loaded
\* when another one is in memory.
Score(r, t) ==
    /\ t \in GetActive("anomaly") /\ t \in files
    /\ loaded' = [loaded EXCEPT ![r] = IF @ # t THEN t ELSE @]
    /\ answer' = [answer EXCEPT ![r] = [model |-> t, artifact |-> loaded'[r]]]
    /\ UNCHANGED <<stored, table, files, training, subject, overlapped>>

\* classify_incident loads the artifact anew, in a service of its own.
Classify(r, t) ==
    /\ t \in GetActive("incident") /\ t \in files
    /\ loaded[r] = NoModel
    /\ answer' = [answer EXCEPT ![r] = [model |-> t, artifact |-> t]]
    /\ UNCHANGED <<stored, table, files, training, loaded, subject, overlapped>>

\* The evaluation command reads the active anomaly detector ...
ReadForEvaluation(e, t) ==
    /\ subject[e] = NoModel /\ t \in GetActive("anomaly") /\ t \in files
    /\ subject' = [subject EXCEPT ![e] = t]
    /\ UNCHANGED <<stored, table, files, training, loaded, answer, overlapped>>

\* Mutant: the whole row is written back as it was read.
PersistRow(e) ==
    /\ subject[e] # NoModel /\ ~Locked(subject[e])
    /\ metrics' = [metrics EXCEPT ![subject[e]] = "measured"]
    /\ status' = [status EXCEPT ![subject[e]] = "active"]
    /\ subject' = [subject EXCEPT ![e] = NoModel]
    /\ UNCHANGED <<stored, files, training, loaded, answer, overlapped>>

\* ... and writes what it measured, whatever has become of the model meanwhile.
PersistEvaluation(e) ==
    /\ subject[e] # NoModel /\ ~Locked(subject[e])
    /\ metrics' = [metrics EXCEPT ![subject[e]] = "measured"]
    /\ subject' = [subject EXCEPT ![e] = NoModel]
    /\ UNCHANGED <<stored, status, files, training, loaded, answer, overlapped>>

Next ==
    \/ Seed
    \/ \E t \in Trainings :
          \/ StartIncident(t) \/ FitIncident(t) \/ CommitShadow(t)
          \/ GatesFail(t) \/ StartAnomaly(t) \/ FitAnomaly(t)
          \/ Scan(t) \/ Activate(t) \/ Commit(t) \/ Fail(t)
    \/ \E r \in Services : NewService(r) \/ \E t \in Trainings : Score(r, t) \/ Classify(r, t)
    \/ \E e \in Evaluations :
          PersistEvaluation(e) \/ \E t \in Trainings : ReadForEvaluation(e, t)

Spec == Init /\ [][Next]_vars
-----------------------------------------------------------------------------
\* The variables have their types; only a transaction that activates has rows of
\* others set inactive.
TypeOK ==
    /\ stored \subseteq Cases /\ files \subseteq Trainings
    /\ \A t \in Trainings :
          /\ status[t] \in {"none", "shadow", "active", "inactive"}
          /\ metrics[t] \in {"none", "passed", "failed", "measured"}
          /\ pc[t] \in {"idle", "loaded", "registered", "ready", "scanned",
                        "activated", "ended", "gated", "failed"}
          /\ kind[t] \in Kinds /\ cases[t] \subseteq Cases /\ asks[t] \in BOOLEAN
          /\ earlier[t] \subseteq Trainings
          /\ off[t] \subseteq seen[t] /\ (off[t] # {} => pc[t] = "activated")
    /\ \A r \in Services : loaded[r] \in Trainings \cup {NoModel}
    /\ \A e \in Evaluations : subject[e] \in Trainings \cup {NoModel}
    /\ overlapped \subseteq Kinds

\* Whatever the registry calls active can be served and was meant to be: its
\* artifact is written, and an incident classifier was asked to be activated, passed
\* its gates and learned from approved evidence only, however its training came by
\* its cases and whatever else ran, failed or crashed in between.
ActiveIsWarranted ==
    \A t \in Trainings : status[t] = "active" =>
        /\ t \in files
        /\ kind[t] = "incident" => asks[t] /\ Approved(cases[t]) /\ metrics[t] = "passed"

\* A kind that has an active model has one from then on: activations that run
\* together, fail or crash leave no gap in which nothing can be scored, and the two
\* kinds do not take each other's model away.
NeverWithoutModel == [][\A n \in Kinds : Active(n) # {} => Active(n)' # {}]_vars

\* While no two activations of a kind ran together, one model of it is active.
OneActiveInTurn ==
    \A n \in Kinds \ overlapped : \A t, u \in Active(n) : t = u

\* A model that was replaced is not active again: not by an activation that saw an
\* older state of the registry, nor by an evaluation that read it while it was.
RetiredStaysRetired ==
    [][\A t \in Trainings : status[t] = "inactive" => status'[t] = "inactive"]_vars

\* The version a service reports is that of the artifact it used.
ReportsWhatItUsed == \A r \in Services : answer[r].artifact = answer[r].model
=============================================================================
