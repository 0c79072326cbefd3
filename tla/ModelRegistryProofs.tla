------------------------- MODULE ModelRegistryProofs -------------------------
(***************************************************************************)
(* What the registry of models keeps for any number of training commands,  *)
(* services and evaluations, and any labelled cases.                       *)
(***************************************************************************)
EXTENDS ModelRegistry, TLAPS

Stages == {"idle", "loaded", "registered", "ready", "scanned", "activated", "ended",
           "gated", "failed"}

Types ==
    /\ stored \subseteq Cases /\ files \subseteq Trainings
    /\ status \in [Trainings -> {"none", "shadow", "active", "inactive"}]
    /\ metrics \in [Trainings -> {"none", "passed", "failed", "measured"}]
    /\ pc \in [Trainings -> Stages]
    /\ kind \in [Trainings -> Kinds]
    /\ cases \in [Trainings -> SUBSET Cases]
    /\ asks \in [Trainings -> BOOLEAN]
    /\ earlier \in [Trainings -> SUBSET Trainings]
    /\ seen \in [Trainings -> SUBSET Trainings]
    /\ off \in [Trainings -> SUBSET Trainings]
    /\ loaded \in [Services -> Trainings \cup {NoModel}]
    /\ DOMAIN answer = Services
    /\ subject \in [Evaluations -> Trainings \cup {NoModel}]
    /\ overlapped \subseteq Kinds

\* A row is seen once its command has ended.  A model that is on its way to be
\* active, or is, has its artifact.
Rows ==
    \A t \in Trainings :
        /\ status[t] # "none" => pc[t] = "ended"
        /\ pc[t] \in {"idle", "registered"} => kind[t] = "anomaly"
        /\ pc[t] \in {"ready", "scanned", "activated"} \/ status[t] = "active" => t \in files

\* What an incident classifier must be to come as far as it has: the cases are
\* checked before the fit, the metrics before the UPDATE.
Warrants ==
    \A t \in Trainings : kind[t] = "incident" =>
        /\ pc[t] = "ready" /\ asks[t] => Approved(cases[t])
        /\ pc[t] \in {"scanned", "activated"} \/ status[t] = "active" =>
              asks[t] /\ Approved(cases[t]) /\ metrics[t] = "passed"

\* An UPDATE deals with rows of its own kind, and the rows it has set inactive are
\* still active for everybody else.
Locks ==
    \A t \in Trainings :
        /\ seen[t] # {} => pc[t] \in {"scanned", "activated"}
        /\ \A s \in seen[t] : status[s] # "none" /\ kind[s] = kind[t]
        /\ off[t] \subseteq seen[t] /\ (off[t] # {} => pc[t] = "activated")
        /\ \A s \in off[t] : status[s] = "active"
        /\ \A u \in Trainings : off[t] \cap off[u] # {} => t = u

\* An evaluation has read an anomaly detector of the registry.
Subjects ==
    \A e \in Evaluations : subject[e] # NoModel =>
        kind[subject[e]] = "anomaly" /\ status[subject[e]] # "none"

\* While activations of a kind take turns, the one at work knows all there is.
Turns ==
    \A n \in Kinds \ overlapped :
        /\ \A t, u \in Active(n) : t = u
        /\ \A t \in Activating(n) :
              /\ \A u \in Activating(n) : t = u
              /\ pc[t] = "scanned" => seen[t] = Active(n)
              /\ pc[t] = "activated" => off[t] = Active(n)

Inv == Types /\ Rows /\ Warrants /\ Locks /\ Subjects /\ Turns /\ ReportsWhatItUsed

USE DEF Goto, Stages, Kinds
-----------------------------------------------------------------------------
\* Before the first command the table and the directory are empty.
LEMMA InitInv == Init => Inv
<1> SUFFICES ASSUME Init PROVE Inv
    OBVIOUS
<1>1. Types /\ Rows /\ Warrants /\ Locks /\ Subjects /\ ReportsWhatItUsed
    BY DEF Init, Types, Rows, Warrants, Locks, Subjects, ReportsWhatItUsed, NoAnswer
<1>2. \A n \in Kinds : Active(n) = {} /\ Activating(n) = {}
    BY DEF Init, Active, Activating
<1>3. Turns
    BY <1>2 DEF Turns
<1> QED
    BY <1>1, <1>3 DEF Inv

\* Seeding the table of cases changes nothing that is registered (seed_training_incidents).
LEMMA SeedKeeps ==
    ASSUME Inv, Seed
    PROVE  Inv'
<1> USE DEF Seed, table, training, readers
<1>1. Types'
    BY DEF Inv, Types
<1>2. Rows'
    BY DEF Inv, Types, Rows, Locks
<1>3. Warrants'
    BY DEF Inv, Types, Rows, Warrants, Approved, Promotes
<1>4. Locks'
    BY DEF Inv, Types, Rows, Locks
<1>5. Subjects'
    BY DEF Inv, Types, Rows, Subjects, Locks
<1>6. ReportsWhatItUsed'
    BY DEF Inv, Types, ReportsWhatItUsed
<1>7. \A n \in Kinds : Active(n)' = Active(n) /\ Activating(n)' = Activating(n)
    BY DEF Inv, Types, Rows, Active, Activating
<1>8. Turns'
    BY <1>7 DEF Inv, Types, Turns, Activating
<1> QED
    BY <1>1, <1>2, <1>3, <1>4, <1>5, <1>6, <1>8 DEF Inv

\* A dataset is read, from a file, S3 or the table (load_cases, load_training_cases).
LEMMA StartIncidentKeeps ==
    ASSUME Inv, NEW t \in Trainings, StartIncident(t)
    PROVE  Inv'
<1> USE DEF StartIncident, table, training, readers, FromTable
<1>1. Types'
  <2>1. FromTable(TRUE) \subseteq Cases /\ FromTable(FALSE) \subseteq Cases
      BY DEF Inv, Types
  <2>2. cases' \in [Trainings -> SUBSET Cases] /\ asks' \in [Trainings -> BOOLEAN]
    <3>1. CASE \E C \in Parsed, a \in BOOLEAN :
                  cases' = [cases EXCEPT ![t] = C] /\ asks' = [asks EXCEPT ![t] = a]
        BY <3>1, CasesAssumption DEF Inv, Types, Parsed
    <3>2. CASE \E a \in BOOLEAN :
                  cases' = [cases EXCEPT ![t] = FromTable(FALSE)] /\ asks' = [asks EXCEPT ![t] = a]
        BY <2>1, <3>2 DEF Inv, Types
    <3>3. CASE cases' = [cases EXCEPT ![t] = FromTable(TRUE)] /\ UNCHANGED asks
        BY <2>1, <3>3 DEF Inv, Types
    <3> QED
        BY <3>1, <3>2, <3>3
  <2> QED
      BY <2>2 DEF Inv, Types
<1>2. Rows'
    BY DEF Inv, Types, Rows, Locks
<1>3. Warrants'
    BY DEF Inv, Types, Rows, Warrants, Approved, Promotes
<1>4. Locks'
    BY DEF Inv, Types, Rows, Locks
<1>5. Subjects'
  <2>1. status[t] = "none" /\ \A s \in Trainings : s # t => kind'[s] = kind[s]
      BY DEF Inv, Types, Rows
  <2> QED
      BY <2>1 DEF Inv, Types, Subjects
<1>6. ReportsWhatItUsed'
    BY DEF Inv, Types, ReportsWhatItUsed
<1>7. \A n \in Kinds : Active(n)' = Active(n) /\ Activating(n)' = Activating(n)
    BY DEF Inv, Types, Rows, Active, Activating
<1>8. Turns'
    BY <1>7 DEF Inv, Types, Turns, Activating
<1> QED
    BY <1>1, <1>2, <1>3, <1>4, <1>5, <1>6, <1>8 DEF Inv

\* The checks come before the fit and the file before the row (train_incident_classifier).
LEMMA FitIncidentKeeps ==
    ASSUME Inv, NEW t \in Trainings, FitIncident(t)
    PROVE  Inv'
<1> USE DEF FitIncident, table, training, readers, Stamp, Trained
<1>1. Types'
    BY DEF Inv, Types
<1>2. Rows'
    BY DEF Inv, Types, Rows, Locks
<1>3. Warrants'
    BY DEF Inv, Types, Rows, Warrants, Approved, Promotes
<1>4. Locks'
    BY DEF Inv, Types, Rows, Locks
<1>5. Subjects'
    BY DEF Inv, Types, Rows, Subjects, Locks
<1>6. ReportsWhatItUsed'
    BY DEF Inv, Types, ReportsWhatItUsed
<1>7. \A n \in Kinds : Active(n)' = Active(n) /\ Activating(n)' = Activating(n)
    BY DEF Inv, Types, Rows, Active, Activating
<1>8. Turns'
    BY <1>7 DEF Inv, Types, Turns, Activating
<1> QED
    BY <1>1, <1>2, <1>3, <1>4, <1>5, <1>6, <1>8 DEF Inv

\* The commit of a shadow makes nothing active (run).
LEMMA CommitShadowKeeps ==
    ASSUME Inv, NEW t \in Trainings, CommitShadow(t)
    PROVE  Inv'
<1> USE DEF CommitShadow, table, training, readers
<1>1. Types'
    BY DEF Inv, Types
<1>2. Rows'
    BY DEF Inv, Types, Rows, Locks
<1>3. Warrants'
    BY DEF Inv, Types, Rows, Warrants, Approved, Promotes
<1>4. Locks'
    BY DEF Inv, Types, Rows, Locks
<1>5. Subjects'
    BY DEF Inv, Types, Rows, Subjects, Locks
<1>6. ReportsWhatItUsed'
    BY DEF Inv, Types, ReportsWhatItUsed
<1>7. \A n \in Kinds : Active(n)' = Active(n) /\ Activating(n)' = Activating(n)
    BY DEF Inv, Types, Rows, Active, Activating
<1>8. Turns'
    BY <1>7 DEF Inv, Types, Turns, Activating
<1> QED
    BY <1>1, <1>2, <1>3, <1>4, <1>5, <1>6, <1>8 DEF Inv

\* What fails its gates is rolled back (train_incident_classifier).
LEMMA GatesFailKeeps ==
    ASSUME Inv, NEW t \in Trainings, GatesFail(t)
    PROVE  Inv'
<1> USE DEF GatesFail, table, training, readers, Forget
<1>1. Types'
    BY DEF Inv, Types
<1>2. Rows'
    BY DEF Inv, Types, Rows, Locks
<1>3. Warrants'
    BY DEF Inv, Types, Rows, Warrants, Approved, Promotes
<1>4. Locks'
    BY DEF Inv, Types, Rows, Locks
<1>5. Subjects'
    BY DEF Inv, Types, Rows, Subjects, Locks
<1>6. ReportsWhatItUsed'
    BY DEF Inv, Types, ReportsWhatItUsed
<1>7. \A n \in Kinds : Active(n)' = Active(n) /\ Activating(n)' = Activating(n)
    BY DEF Inv, Types, Rows, Active, Activating
<1>8. Turns'
    BY <1>7 DEF Inv, Types, Turns, Activating
<1> QED
    BY <1>1, <1>2, <1>3, <1>4, <1>5, <1>6, <1>8 DEF Inv

\* An anomaly detector is registered before it is fitted (train_model).
LEMMA StartAnomalyKeeps ==
    ASSUME Inv, NEW t \in Trainings, StartAnomaly(t)
    PROVE  Inv'
<1> USE DEF StartAnomaly, table, training, readers, Stamp, Trained
<1>1. Types'
    BY DEF Inv, Types
<1>2. Rows'
    BY DEF Inv, Types, Rows, Locks
<1>3. Warrants'
    BY DEF Inv, Types, Rows, Warrants, Approved, Promotes
<1>4. Locks'
    BY DEF Inv, Types, Rows, Locks
<1>5. Subjects'
    BY DEF Inv, Types, Rows, Subjects, Locks
<1>6. ReportsWhatItUsed'
    BY DEF Inv, Types, ReportsWhatItUsed
<1>7. \A n \in Kinds : Active(n)' = Active(n) /\ Activating(n)' = Activating(n)
    BY DEF Inv, Types, Rows, Active, Activating
<1>8. Turns'
    BY <1>7 DEF Inv, Types, Turns, Activating
<1> QED
    BY <1>1, <1>2, <1>3, <1>4, <1>5, <1>6, <1>8 DEF Inv

\* ... and its artifact is written before it is activated (train_model).
LEMMA FitAnomalyKeeps ==
    ASSUME Inv, NEW t \in Trainings, FitAnomaly(t)
    PROVE  Inv'
<1> USE DEF FitAnomaly, table, training, readers
<1>1. Types'
    BY DEF Inv, Types
<1>2. Rows'
    BY DEF Inv, Types, Rows, Locks
<1>3. Warrants'
    BY DEF Inv, Types, Rows, Warrants, Approved, Promotes
<1>4. Locks'
    BY DEF Inv, Types, Rows, Locks
<1>5. Subjects'
    BY DEF Inv, Types, Rows, Subjects, Locks
<1>6. ReportsWhatItUsed'
    BY DEF Inv, Types, ReportsWhatItUsed
<1>7. \A n \in Kinds : Active(n)' = Active(n) /\ Activating(n)' = Activating(n)
    BY DEF Inv, Types, Rows, Active, Activating
<1>8. Turns'
    BY <1>7 DEF Inv, Types, Turns, Activating
<1> QED
    BY <1>1, <1>2, <1>3, <1>4, <1>5, <1>6, <1>8 DEF Inv

\* The UPDATE's snapshot: from here on two activations of a kind are not in turn
\* (ModelRegistryRepository.activate).
LEMMA ScanKeeps ==
    ASSUME Inv, NEW t \in Trainings, Scan(t)
    PROVE  Inv'
<1> USE DEF Scan, table, training, readers
<1>1. Types'
  <2>1. Active(kind[t]) \subseteq Trainings /\ kind[t] \in Kinds
      BY DEF Inv, Types, Active
  <2> QED
      BY <2>1 DEF Inv, Types
<1>2. Rows'
    BY DEF Inv, Types, Rows, Locks
<1>3. Warrants'
    BY DEF Inv, Types, Rows, Warrants, Approved, Promotes
<1>4. Locks'
  <2>1. \A s \in Active(kind[t]) : status[s] # "none" /\ kind[s] = kind[t]
      BY DEF Active
  <2>2. off[t] = {}
      BY DEF Inv, Types, Locks
  <2>3. \A u \in Trainings : /\ u # t => seen'[u] = seen[u] /\ pc'[u] = pc[u]
                             /\ u = t => seen'[u] = Active(kind[t]) /\ pc'[u] = "scanned"
      BY DEF Inv, Types
  <2> QED
      BY <2>1, <2>2, <2>3 DEF Inv, Types, Locks
<1>5. Subjects'
    BY DEF Inv, Types, Rows, Subjects, Locks
<1>6. ReportsWhatItUsed'
    BY DEF Inv, Types, ReportsWhatItUsed
<1>7. \A n \in Kinds : /\ Active(n)' = Active(n)
                       /\ n # kind[t] => Activating(n)' = Activating(n)
                       /\ n = kind[t] => Activating(n)' = Activating(n) \cup {t}
    BY DEF Inv, Types, Rows, Active, Activating
<1>8. Turns'
  <2> SUFFICES ASSUME NEW n \in Kinds, n \notin overlapped'
               PROVE  /\ \A x, u \in Active(n)' : x = u
                      /\ \A x \in Activating(n)' :
                            /\ \A u \in Activating(n)' : x = u
                            /\ pc'[x] = "scanned" => seen'[x] = Active(n)'
                            /\ pc'[x] = "activated" => off'[x] = Active(n)'
      BY DEF Turns
  <2>1. n \notin overlapped
      BY DEF Inv, Types
  <2>2. CASE n # kind[t]
    <3>1. t \notin Activating(n)
        BY <2>2 DEF Activating
    <3> QED
        BY <1>7, <2>1, <2>2, <3>1 DEF Inv, Types, Turns, Activating
  <2>3. CASE n = kind[t]
    <3>1. Activating(n) = {}
        BY <2>3 DEF Inv, Types
    <3>2. seen'[t] = Active(n) /\ pc'[t] = "scanned"
        BY <2>3 DEF Inv, Types
    <3> QED
        BY <1>7, <2>1, <2>3, <3>1, <3>2 DEF Inv, Turns
  <2> QED
      BY <2>2, <2>3
<1> QED
    BY <1>1, <1>2, <1>3, <1>4, <1>5, <1>6, <1>8 DEF Inv

\* The UPDATE has waited for the rows it saw and takes those still active
\* (ModelRegistryRepository.activate).
LEMMA ActivateKeeps ==
    ASSUME Inv, NEW t \in Trainings, Activate(t)
    PROVE  Inv'
<1> USE DEF Activate, table, training, readers
<1>1. Types'
    BY DEF Inv, Types
<1>2. Rows'
    BY DEF Inv, Types, Rows, Locks
<1>3. Warrants'
    BY DEF Inv, Types, Rows, Warrants, Approved, Promotes
<1>4. Locks'
  <2>1. \A u \in Trainings :
           /\ u # t => off'[u] = off[u] /\ pc'[u] = pc[u]
           /\ u = t => off'[u] = {s \in seen[t] : status[s] = "active"} /\ pc'[u] = "activated"
      BY DEF Inv, Types
  <2>2. \A s \in seen[t], u \in Trainings : s \notin off[u]
      BY DEF Locked
  <2> QED
      BY <2>1, <2>2 DEF Inv, Types, Locks
<1>5. Subjects'
    BY DEF Inv, Types, Rows, Subjects, Locks
<1>6. ReportsWhatItUsed'
    BY DEF Inv, Types, ReportsWhatItUsed
<1>7. \A n \in Kinds : Active(n)' = Active(n) /\ Activating(n)' = Activating(n)
    BY DEF Inv, Types, Rows, Active, Activating
<1>8. Turns'
  <2> SUFFICES ASSUME NEW n \in Kinds, n \notin overlapped, NEW x \in Activating(n)
               PROVE  /\ \A u \in Activating(n) : x = u
                      /\ pc'[x] = "scanned" => seen[x] = Active(n)
                      /\ pc'[x] = "activated" => off'[x] = Active(n)
      BY <1>7 DEF Inv, Turns
  <2>1. CASE x = t
    <3>1. seen[t] = Active(n) /\ \A u \in Activating(n) : t = u
        BY <2>1 DEF Inv, Turns
    <3>2. off'[t] = {s \in seen[t] : status[s] = "active"} /\ pc'[t] = "activated"
        BY DEF Inv, Types
    <3>3. off'[t] = Active(n)
        BY <3>1, <3>2 DEF Active
    <3> QED
        BY <2>1, <3>1, <3>2, <3>3
  <2>2. CASE x # t
      BY <2>2 DEF Inv, Types, Turns, Activating
  <2> QED
      BY <2>1, <2>2
<1> QED
    BY <1>1, <1>2, <1>3, <1>4, <1>5, <1>6, <1>8 DEF Inv

\* The commit retires what the UPDATE took and makes one row active (run).
LEMMA CommitKeeps ==
    ASSUME Inv, NEW t \in Trainings, Commit(t)
    PROVE  Inv'
<1> USE DEF Commit, table, training, readers
<1>1. Types'
    BY DEF Inv, Types
<1>2. Rows'
    BY DEF Inv, Types, Rows, Locks
<1>3. Warrants'
    BY DEF Inv, Types, Rows, Warrants, Approved, Promotes
<1>4. Locks'
    BY DEF Inv, Types, Rows, Locks
<1>5. Subjects'
    BY DEF Inv, Types, Rows, Subjects, Locks
<1>6. ReportsWhatItUsed'
    BY DEF Inv, Types, ReportsWhatItUsed
<1>7. \A n \in Kinds : /\ n # kind[t] => Active(n)' = Active(n) /\ Activating(n)' = Activating(n)
                       /\ n = kind[t] => /\ Active(n)' = (Active(n) \ off[t]) \cup {t}
                                         /\ Activating(n)' = Activating(n) \ {t}
  <2>1. \A s \in off[t] : kind[s] = kind[t] /\ s # t
      BY DEF Inv, Types, Rows, Locks
  <2>2. status[t] = "none"
      BY DEF Inv, Types, Rows
  <2> QED
      BY <2>1, <2>2 DEF Inv, Types, Active, Activating
<1>8. Turns'
  <2> SUFFICES ASSUME NEW n \in Kinds, n \notin overlapped
               PROVE  /\ \A x, u \in Active(n)' : x = u
                      /\ \A x \in Activating(n)' :
                            /\ \A u \in Activating(n)' : x = u
                            /\ pc'[x] = "scanned" => seen'[x] = Active(n)'
                            /\ pc'[x] = "activated" => off'[x] = Active(n)'
      BY DEF Turns
  <2>1. CASE n # kind[t]
    <3>1. t \notin Activating(n)
        BY <2>1 DEF Activating
    <3> QED
        BY <1>7, <2>1, <3>1 DEF Inv, Types, Turns, Activating
  <2>2. CASE n = kind[t]
    <3>1. t \in Activating(n)
        BY <2>2 DEF Activating
    <3>2. off[t] = Active(n) /\ \A u \in Activating(n) : t = u
        BY <3>1 DEF Inv, Turns
    <3> QED
        BY <1>7, <2>2, <3>2
  <2> QED
      BY <2>1, <2>2
<1> QED
    BY <1>1, <1>2, <1>3, <1>4, <1>5, <1>6, <1>8 DEF Inv

\* A command that raises or dies leaves the rows as they were (run).
LEMMA FailKeeps ==
    ASSUME Inv, NEW t \in Trainings, Fail(t)
    PROVE  Inv'
<1> USE DEF Fail, table, training, readers, Forget
<1>1. Types'
    BY DEF Inv, Types
<1>2. Rows'
    BY DEF Inv, Types, Rows, Locks
<1>3. Warrants'
  <2>1. \A u \in Trainings : /\ u # t => /\ pc'[u] = pc[u] /\ asks'[u] = asks[u]
                                         /\ cases'[u] = cases[u] /\ metrics'[u] = metrics[u]
                             /\ u = t => pc'[u] = "failed"
    <3>1. /\ DOMAIN pc = Trainings /\ DOMAIN asks = Trainings
          /\ DOMAIN cases = Trainings /\ DOMAIN metrics = Trainings
        BY DEF Inv, Types
    <3> QED
        BY <3>1
  <2>2. status[t] = "none"
    <3>1. pc[t] # "ended"
        OBVIOUS
    <3>2. status[t] # "none" => pc[t] = "ended"
        BY DEF Inv, Rows
    <3> QED
        BY <3>1, <3>2
  <2>3. ASSUME NEW u \in Trainings, kind'[u] = "incident"
        PROVE  /\ pc'[u] = "ready" /\ asks'[u] => Approved(cases[u])'
               /\ pc'[u] \in {"scanned", "activated"} \/ status'[u] = "active" =>
                     asks'[u] /\ Approved(cases[u])' /\ metrics'[u] = "passed"
    <3>1. CASE u = t
        BY <2>1, <2>2, <3>1
    <3>2. CASE u # t
      <4>1. Approved(cases[u])' <=> Approved(cases[u])
          BY <2>1, <3>2 DEF Approved
      <4> QED
          BY <2>1, <2>3, <3>2, <4>1 DEF Inv, Warrants
    <3> QED
        BY <3>1, <3>2
  <2> QED
      BY <2>3 DEF Warrants
<1>4. Locks'
  <2>1. \A u \in Trainings : /\ u # t => pc'[u] = pc[u] /\ seen'[u] = seen[u] /\ off'[u] = off[u]
                             /\ u = t => seen'[u] = {} /\ off'[u] = {}
      BY DEF Inv, Types
  <2> QED
      BY <2>1 DEF Inv, Types, Locks
<1>5. Subjects'
    BY DEF Inv, Types, Rows, Subjects, Locks
<1>6. ReportsWhatItUsed'
    BY DEF Inv, Types, ReportsWhatItUsed
<1>7. \A n \in Kinds : Active(n)' = Active(n) /\ Activating(n)' = Activating(n) \ {t}
    BY DEF Inv, Types, Rows, Active, Activating
<1>8. Turns'
  <2>1. \A u \in Trainings \ {t} : pc'[u] = pc[u] /\ seen'[u] = seen[u] /\ off'[u] = off[u]
      BY DEF Inv, Types
  <2> QED
      BY <1>7, <2>1 DEF Inv, Turns, Activating
<1> QED
    BY <1>1, <1>2, <1>3, <1>4, <1>5, <1>6, <1>8 DEF Inv

\* A request has a service that has loaded nothing (MLInferenceService).
LEMMA NewServiceKeeps ==
    ASSUME Inv, NEW r \in Services, NewService(r)
    PROVE  Inv'
<1> USE DEF NewService, table, training, readers, NoAnswer
<1>1. Types'
    BY DEF Inv, Types
<1>2. Rows'
    BY DEF Inv, Types, Rows, Locks
<1>3. Warrants'
    BY DEF Inv, Types, Rows, Warrants, Approved, Promotes
<1>4. Locks'
    BY DEF Inv, Types, Rows, Locks
<1>5. Subjects'
    BY DEF Inv, Types, Rows, Subjects, Locks
<1>6. ReportsWhatItUsed'
    BY DEF Inv, Types, ReportsWhatItUsed
<1>7. \A n \in Kinds : Active(n)' = Active(n) /\ Activating(n)' = Activating(n)
    BY DEF Inv, Types, Rows, Active, Activating
<1>8. Turns'
    BY <1>7 DEF Inv, Types, Turns, Activating
<1> QED
    BY <1>1, <1>2, <1>3, <1>4, <1>5, <1>6, <1>8 DEF Inv

\* The artifact follows the registry (score_event, _load_artifact).
LEMMA ScoreKeeps ==
    ASSUME Inv, NEW r \in Services, NEW t \in Trainings, Score(r, t)
    PROVE  Inv'
<1> USE DEF Score, table, training, readers, GetActive, Active
<1>1. Types'
    BY DEF Inv, Types
<1>2. Rows'
    BY DEF Inv, Types, Rows, Locks
<1>3. Warrants'
    BY DEF Inv, Types, Rows, Warrants, Approved, Promotes
<1>4. Locks'
    BY DEF Inv, Types, Rows, Locks
<1>5. Subjects'
    BY DEF Inv, Types, Rows, Subjects, Locks
<1>6. ReportsWhatItUsed'
    BY DEF Inv, Types, ReportsWhatItUsed
<1>7. \A n \in Kinds : Active(n)' = Active(n) /\ Activating(n)' = Activating(n)
    BY DEF Inv, Types, Rows, Active, Activating
<1>8. Turns'
    BY <1>7 DEF Inv, Types, Turns, Activating
<1> QED
    BY <1>1, <1>2, <1>3, <1>4, <1>5, <1>6, <1>8 DEF Inv

\* The artifact is loaded for the incident at hand (classify_incident).
LEMMA ClassifyKeeps ==
    ASSUME Inv, NEW r \in Services, NEW t \in Trainings, Classify(r, t)
    PROVE  Inv'
<1> USE DEF Classify, table, training, readers, GetActive, Active
<1>1. Types'
    BY DEF Inv, Types
<1>2. Rows'
    BY DEF Inv, Types, Rows, Locks
<1>3. Warrants'
    BY DEF Inv, Types, Rows, Warrants, Approved, Promotes
<1>4. Locks'
    BY DEF Inv, Types, Rows, Locks
<1>5. Subjects'
    BY DEF Inv, Types, Rows, Subjects, Locks
<1>6. ReportsWhatItUsed'
    BY DEF Inv, Types, ReportsWhatItUsed
<1>7. \A n \in Kinds : Active(n)' = Active(n) /\ Activating(n)' = Activating(n)
    BY DEF Inv, Types, Rows, Active, Activating
<1>8. Turns'
    BY <1>7 DEF Inv, Types, Turns, Activating
<1> QED
    BY <1>1, <1>2, <1>3, <1>4, <1>5, <1>6, <1>8 DEF Inv

\* An evaluation reads the active detector (evaluate_isolation_forest).
LEMMA ReadForEvaluationKeeps ==
    ASSUME Inv, NEW e \in Evaluations, NEW t \in Trainings, ReadForEvaluation(e, t)
    PROVE  Inv'
<1> USE DEF ReadForEvaluation, table, training, readers, GetActive, Active
<1>1. Types'
    BY DEF Inv, Types
<1>2. Rows'
    BY DEF Inv, Types, Rows, Locks
<1>3. Warrants'
    BY DEF Inv, Types, Rows, Warrants, Approved, Promotes
<1>4. Locks'
    BY DEF Inv, Types, Rows, Locks
<1>5. Subjects'
    BY DEF Inv, Types, Rows, Subjects, Locks
<1>6. ReportsWhatItUsed'
    BY DEF Inv, Types, ReportsWhatItUsed
<1>7. \A n \in Kinds : Active(n)' = Active(n) /\ Activating(n)' = Activating(n)
    BY DEF Inv, Types, Rows, Active, Activating
<1>8. Turns'
    BY <1>7 DEF Inv, Types, Turns, Activating
<1> QED
    BY <1>1, <1>2, <1>3, <1>4, <1>5, <1>6, <1>8 DEF Inv

\* What was measured is written, and nothing but that (update_evaluation_metrics).
LEMMA PersistEvaluationKeeps ==
    ASSUME Inv, NEW e \in Evaluations, PersistEvaluation(e)
    PROVE  Inv'
<1> USE DEF PersistEvaluation, table, training, readers
<1>1. Types'
    BY DEF Inv, Types
<1>2. Rows'
    BY DEF Inv, Types, Rows, Locks
<1>3. Warrants'
  <2>1. \A t \in Trainings : kind[t] = "incident" => metrics'[t] = metrics[t]
      BY DEF Inv, Types, Subjects
  <2> QED
      BY <2>1 DEF Inv, Types, Warrants, Approved
<1>4. Locks'
    BY DEF Inv, Types, Rows, Locks
<1>5. Subjects'
    BY DEF Inv, Types, Rows, Subjects, Locks
<1>6. ReportsWhatItUsed'
    BY DEF Inv, Types, ReportsWhatItUsed
<1>7. \A n \in Kinds : Active(n)' = Active(n) /\ Activating(n)' = Activating(n)
    BY DEF Inv, Types, Rows, Active, Activating
<1>8. Turns'
    BY <1>7 DEF Inv, Types, Turns, Activating
<1> QED
    BY <1>1, <1>2, <1>3, <1>4, <1>5, <1>6, <1>8 DEF Inv

LEMMA StutterKeeps == Inv /\ UNCHANGED vars => Inv'
<1> SUFFICES ASSUME Inv, UNCHANGED vars PROVE Inv'
    OBVIOUS
<1> USE DEF vars, table, training, readers
<1>1. Types' /\ Rows' /\ Subjects' /\ Locks' /\ ReportsWhatItUsed'
    BY DEF Inv, Types, Rows, Subjects, Locks, ReportsWhatItUsed
<1>2. Warrants'
    BY DEF Inv, Warrants, Approved
<1>3. Turns'
    BY DEF Inv, Turns, Active, Activating
<1> QED
    BY <1>1, <1>2, <1>3 DEF Inv

LEMMA NextKeeps == Inv /\ [Next]_vars => Inv'
<1> SUFFICES ASSUME Inv, [Next]_vars PROVE Inv'
    OBVIOUS
<1>1. CASE Seed
    BY <1>1, SeedKeeps
<1>2. CASE \E t \in Trainings :
              \/ StartIncident(t) \/ FitIncident(t) \/ CommitShadow(t) \/ GatesFail(t)
              \/ StartAnomaly(t) \/ FitAnomaly(t)
    BY <1>2, StartIncidentKeeps, FitIncidentKeeps, CommitShadowKeeps, GatesFailKeeps,
       StartAnomalyKeeps, FitAnomalyKeeps
<1>3. CASE \E t \in Trainings : Scan(t) \/ Activate(t) \/ Commit(t) \/ Fail(t)
    BY <1>3, ScanKeeps, ActivateKeeps, CommitKeeps, FailKeeps
<1>4. CASE \E r \in Services : NewService(r) \/ \E t \in Trainings : Score(r, t) \/ Classify(r, t)
    BY <1>4, NewServiceKeeps, ScoreKeeps, ClassifyKeeps
<1>5. CASE \E e \in Evaluations :
              PersistEvaluation(e) \/ \E t \in Trainings : ReadForEvaluation(e, t)
    BY <1>5, PersistEvaluationKeeps, ReadForEvaluationKeeps
<1>6. CASE UNCHANGED vars
    BY <1>6, StutterKeeps
<1> QED
    BY <1>1, <1>2, <1>3, <1>4, <1>5, <1>6 DEF Next

LEMMA Invariant == Spec => []Inv
    BY InitInv, NextKeeps, PTL DEF Spec
-----------------------------------------------------------------------------
\* The variables of the registry have their types, and rows are set inactive only in
\* a transaction that activates another (TypeOK).
THEOREM RegistryTypes == Spec => []TypeOK
<1>1. Inv => TypeOK
    BY DEF Inv, Types, Locks, TypeOK
<1> QED
    BY <1>1, Invariant, PTL

\* Whatever is active has its artifact; an active incident classifier was asked for,
\* passed and learned from approved evidence only (train_incident_classifier).
THEOREM ActiveModelsAreWarranted == Spec => []ActiveIsWarranted
<1>1. Inv => ActiveIsWarranted
    BY DEF Inv, Rows, Warrants, ActiveIsWarranted
<1> QED
    BY <1>1, Invariant, PTL

\* While no two activations of a kind run together one model of it is active at most
\* (ModelRegistryRepository.activate).
THEOREM ActivationsInTurn == Spec => []OneActiveInTurn
<1>1. Inv => OneActiveInTurn
    BY DEF Inv, Turns, OneActiveInTurn
<1> QED
    BY <1>1, Invariant, PTL

\* A score is reported under the version that gave it (_load_artifact).
THEOREM VersionsAreTrue == Spec => []ReportsWhatItUsed
<1>1. Inv => ReportsWhatItUsed
    BY DEF Inv
<1> QED
    BY <1>1, Invariant, PTL

\* What a step does to the rows others see: a commit adds a row, retires rows of its
\* kind that were active, and leaves the rest.
LEMMA StatusStep ==
    ASSUME Inv, Next
    PROVE  \/ UNCHANGED status
           \/ \E t \in Trainings : /\ status[t] = "none"
                                   /\ status' = [status EXCEPT ![t] = "shadow"]
           \/ \E t \in Trainings : /\ pc[t] = "activated" /\ status[t] = "none"
                                   /\ status' = [s \in Trainings |->
                                                    IF s = t THEN "active"
                                                    ELSE IF s \in off[t] THEN "inactive"
                                                    ELSE status[s]]
<1> USE DEF table
<1>1. ASSUME NEW t \in Trainings, Commit(t)
      PROVE  /\ pc[t] = "activated" /\ status[t] = "none"
             /\ status' = [s \in Trainings |-> IF s = t THEN "active"
                                               ELSE IF s \in off[t] THEN "inactive"
                                               ELSE status[s]]
    BY <1>1 DEF Commit, Inv, Types, Rows
<1>2. ASSUME NEW t \in Trainings, CommitShadow(t)
      PROVE  status[t] = "none" /\ status' = [status EXCEPT ![t] = "shadow"]
    BY <1>2 DEF CommitShadow, Inv, Types, Rows
<1>3. ASSUME NEW t \in Trainings,
             \/ StartIncident(t) \/ FitIncident(t) \/ GatesFail(t) \/ StartAnomaly(t)
             \/ FitAnomaly(t) \/ Scan(t) \/ Activate(t) \/ Fail(t)
      PROVE  UNCHANGED status
    BY <1>3 DEF StartIncident, FitIncident, GatesFail, StartAnomaly, FitAnomaly, Scan,
                Activate, Fail
<1>4. ASSUME NEW r \in Services,
             NewService(r) \/ \E t \in Trainings : Score(r, t) \/ Classify(r, t)
      PROVE  UNCHANGED status
    BY <1>4 DEF NewService, Score, Classify
<1>5. ASSUME NEW e \in Evaluations,
             PersistEvaluation(e) \/ \E t \in Trainings : ReadForEvaluation(e, t)
      PROVE  UNCHANGED status
    BY <1>5 DEF PersistEvaluation, ReadForEvaluation
<1>6. Seed => UNCHANGED status
    BY DEF Seed
<1> QED
    BY <1>1, <1>2, <1>3, <1>4, <1>5, <1>6 DEF Next

\* A step changes the kind only of a model whose command has not begun.
LEMMA KindStep ==
    ASSUME Inv, Next, NEW t \in Trainings, pc[t] # "idle"
    PROVE  kind'[t] = kind[t]
<1> USE DEF training
<1>1. ASSUME NEW u \in Trainings, StartIncident(u)
      PROVE  kind'[t] = kind[t]
    BY <1>1 DEF StartIncident, Inv, Types, Rows
<1>2. ASSUME NEW u \in Trainings,
             \/ FitIncident(u) \/ CommitShadow(u) \/ GatesFail(u) \/ StartAnomaly(u)
             \/ FitAnomaly(u) \/ Scan(u) \/ Activate(u) \/ Commit(u) \/ Fail(u)
      PROVE  UNCHANGED kind
    BY <1>2 DEF FitIncident, CommitShadow, GatesFail, StartAnomaly, FitAnomaly, Scan,
                Activate, Commit, Fail
<1>3. ASSUME NEW r \in Services,
             NewService(r) \/ \E u \in Trainings : Score(r, u) \/ Classify(r, u)
      PROVE  UNCHANGED kind
    BY <1>3 DEF NewService, Score, Classify
<1>4. ASSUME NEW e \in Evaluations,
             PersistEvaluation(e) \/ \E u \in Trainings : ReadForEvaluation(e, u)
      PROVE  UNCHANGED kind
    BY <1>4 DEF PersistEvaluation, ReadForEvaluation
<1>5. Seed => UNCHANGED kind
    BY DEF Seed
<1> QED
    BY <1>1, <1>2, <1>3, <1>4, <1>5 DEF Next

\* A kind with an active model has one from then on, however commands overlap, raise
\* or die (ModelRegistryRepository.activate and the commit of run).
THEOREM AlwaysAModel == Spec => NeverWithoutModel
<1>1. ASSUME Inv, Next, NEW n \in Kinds, Active(n) # {}
      PROVE  Active(n)' # {}
  <2>1. PICK a \in Active(n) : TRUE
      BY <1>1
  <2>2. a \in Trainings /\ status[a] = "active" /\ kind'[a] = n
      BY <1>1, <2>1, KindStep DEF Active, Inv, Rows
  <2>3. CASE UNCHANGED status
      BY <2>2, <2>3 DEF Active
  <2>4. ASSUME NEW t \in Trainings, status[t] = "none",
               status' = [status EXCEPT ![t] = "shadow"]
        PROVE  Active(n)' # {}
      BY <1>1, <2>2, <2>4 DEF Active, Inv, Types
  <2>5. ASSUME NEW t \in Trainings, pc[t] = "activated", status[t] = "none",
               status' = [s \in Trainings |-> IF s = t THEN "active"
                                              ELSE IF s \in off[t] THEN "inactive"
                                              ELSE status[s]]
        PROVE  Active(n)' # {}
    <3>1. kind'[t] = kind[t]
        BY <1>1, <2>5, KindStep
    <3>2. CASE a \notin off[t]
        BY <2>2, <2>5, <3>2 DEF Active
    <3>3. CASE a \in off[t]
      <4>1. kind[t] = kind[a] /\ kind[a] = n
          BY <1>1, <2>1, <2>5, <3>3 DEF Inv, Types, Locks, Active
      <4> QED
          BY <2>5, <3>1, <4>1 DEF Active
    <3> QED
        BY <3>2, <3>3
  <2> QED
      BY <1>1, <2>3, <2>4, <2>5, StatusStep
<1>2. Inv /\ [Next]_vars => [\A n \in Kinds : Active(n) # {} => Active(n)' # {}]_vars
    BY <1>1
<1> QED
    BY <1>2, Invariant, PTL DEF Spec, NeverWithoutModel

\* A model that was replaced is not active again through an activation that saw an
\* older registry or an evaluation that read it before (activate, persist_evaluation).
THEOREM RetiredForGood == Spec => RetiredStaysRetired
<1>1. ASSUME Inv, Next, NEW t \in Trainings, status[t] = "inactive"
      PROVE  status'[t] = "inactive"
    BY <1>1, StatusStep DEF Inv, Types
<1>2. Inv /\ [Next]_vars => [\A t \in Trainings : status[t] = "inactive" => status'[t] = "inactive"]_vars
    BY <1>1
<1> QED
    BY <1>2, Invariant, PTL DEF Spec, RetiredStaysRetired
==============================================================================
