------------------------ MODULE ResponseActionsProofs ------------------------
(***************************************************************************)
(* Proofs about ResponseActions: for any actions, people, roles, calls and *)
(* workers, any scan limit, any bound on crashes, with AWS on or off.      *)
(***************************************************************************)
EXTENDS ResponseActions, TLAPS

USE DEF actVars, rdsVars, callVars, wrkVars, histVars

-----------------------------------------------------------------------------
(* Type correctness.                                                        *)

\* A step of the propose and decide endpoints keeps every variable in its type.
LEMMA CallTypeOK ==
    ASSUME TypeOK, NEW c \in Calls, CallStep(c)
    PROVE  TypeOK'
<1> USE ResponseAssumption
<1>1. ASSUME NEW u \in Users, NEW a \in Actions, Lookup(c, u, a) PROVE TypeOK'
  BY <1>1 DEF TypeOK, Lookup, Continue
<1>2. ASSUME NEW u \in Users, NEW a \in Actions, Replay(c, u, a) PROVE TypeOK'
  BY <1>2 DEF TypeOK, Replay, Close, Entry
<1>3. ASSUME NEW u \in Users, NEW a \in Actions, NEW verdict \in Verdicts,
             Decide(c, u, a, verdict)
      PROVE  TypeOK'
  <2>1. /\ status' \in [Actions -> Statuses]
        /\ decider' \in [Actions -> Users \cup {NoUser}]
    BY <1>3 DEF TypeOK, Decide, Record, Statuses
  <2>2. audit' \subseteq [what : {"propose", "approve", "reject", "succeeded", "failed"},
                          who : Users \cup {NoUser}, on : Actions]
    BY <1>3 DEF TypeOK, Decide, Record, Entry, Verdicts
  <2>3. /\ cpc' \in [Calls -> {"new", "inserting", "pushing", "done"}]
        /\ cuser' \in [Calls -> Users \cup {NoUser}]
        /\ cact' \in [Calls -> Actions \cup {NoAction}]
        /\ \A d \in Calls : cpc'[d] \in {"inserting", "pushing"}
                              => cuser'[d] \in Users /\ cact'[d] \in Actions
    <3>1. CASE verdict = "approve"
      <4>1. Continue(c, u, a, "pushing")
        BY <1>3, <3>1 DEF Decide, Record
      <4>2. QED
        BY <4>1 DEF TypeOK, Continue
    <3>2. CASE verdict # "approve"
      <4>1. Close(c)
        BY <1>3, <3>2 DEF Decide, Record
      <4>2. QED
        BY <4>1 DEF TypeOK, Close
    <3>3. QED
      BY <3>1, <3>2
  <2>4. QED
    BY <1>3, <2>1, <2>2, <2>3 DEF TypeOK, Decide, Record
<1>4. CASE Insert(c)
  <2>1. cuser[c] \in Users /\ cact[c] \in Actions
    BY <1>4 DEF TypeOK, Insert
  <2>2. /\ status' \in [Actions -> Statuses]
        /\ proposer' \in [Actions -> Users \cup {NoUser}]
    BY <1>4, <2>1 DEF TypeOK, Insert, Statuses
  <2>3. audit' \subseteq [what : {"propose", "approve", "reject", "succeeded", "failed"},
                          who : Users \cup {NoUser}, on : Actions]
    BY <1>4, <2>1 DEF TypeOK, Insert, Entry
  <2>4. QED
    BY <1>4, <2>2, <2>3 DEF TypeOK, Insert, Close
<1>5. CASE InsertCollides(c)
  BY <1>5 DEF TypeOK, InsertCollides, Close
<1>6. CASE Refuse(c)
  BY <1>6 DEF TypeOK, Refuse, Close
<1>7. CASE Push(c)
  <2>1. cact[c] \in Actions
    BY <1>7 DEF TypeOK, Push
  <2>2. queue' \in Seq(Actions)
    BY <1>7, <2>1 DEF TypeOK, Push
  <2>3. QED
    BY <1>7, <2>2 DEF TypeOK, Push, Close
<1>8. CASE PushFails(c)
  BY <1>8 DEF TypeOK, PushFails, Close
<1>9. QED
  BY <1>1, <1>2, <1>3, <1>4, <1>5, <1>6, <1>7, <1>8 DEF CallStep

\* Recording an outcome keeps the row, the audit log and the worker in their types.
LEMMA SettleTypeOK ==
    ASSUME TypeOK, NEW w \in Workers, held[w] \in Actions,
           NEW outcome \in {"succeeded", "failed"}, Settle(w, outcome),
           effects' \in [Actions -> Nat], UNCHANGED <<crashes, orphaned>>
    PROVE  TypeOK'
<1> USE ResponseAssumption
<1>1. status' \in [Actions -> Statuses]
  BY DEF TypeOK, Settle, Statuses
<1>2. decider[held[w]] \in Users \cup {NoUser}
  BY DEF TypeOK
<1>3. audit' \subseteq [what : {"propose", "approve", "reject", "succeeded", "failed"},
                        who : Users \cup {NoUser}, on : Actions]
  BY <1>2 DEF TypeOK, Settle, Entry
<1>4. QED
  BY <1>1, <1>3 DEF TypeOK, Settle, Return

\* A step of the worker loop or of execute_action keeps every variable in its type.
LEMMA WorkerTypeOK ==
    ASSUME TypeOK, NEW w \in Workers, WorkerStep(w)
    PROVE  TypeOK'
<1> USE ResponseAssumption
<1>1. CASE StartScan(w)
  <2>1. PICK ids \in SUBSET Approved : rest' = [rest EXCEPT ![w] = ids]
    BY <1>1 DEF StartScan
  <2>2. rest' \in [Workers -> SUBSET Actions]
    BY <2>1 DEF TypeOK, Approved
  <2>3. QED
    BY <1>1, <2>2 DEF TypeOK, StartScan
<1>2. CASE NextScanned(w)
  BY <1>2 DEF TypeOK, NextScanned, Take
<1>3. CASE EndScan(w)
  BY <1>3 DEF TypeOK, EndScan
<1>4. CASE Pop(w)
  <2>1. Head(queue) \in Actions /\ Tail(queue) \in Seq(Actions)
    BY <1>4 DEF TypeOK, Pop
  <2>2. QED
    BY <1>4, <2>1 DEF TypeOK, Pop, Take
<1>5. CASE PopNothing(w)
  BY <1>5 DEF TypeOK, PopNothing
<1>6. CASE Claim(w)
  BY <1>6 DEF TypeOK, Claim, Statuses
<1>7. CASE SkipClaim(w)
  BY <1>7 DEF TypeOK, SkipClaim, Return
<1>8. CASE RevokeSessions(w)
  <2>1. held[w] \in Actions /\ effects' \in [Actions -> Nat]
    BY <1>8 DEF TypeOK, RevokeSessions, CarryOut
  <2>2. QED
    BY <1>8, <2>1, SettleTypeOK DEF RevokeSessions, Settle
<1>9. CASE Mutate(w)
  BY <1>9 DEF TypeOK, Mutate, CarryOut
<1>10. CASE Verify(w)
  <2>1. held[w] \in Actions /\ effects' \in [Actions -> Nat]
    BY <1>10 DEF TypeOK, Verify
  <2>2. QED
    BY <1>10, <2>1, SettleTypeOK DEF Verify, Settle
<1>11. CASE ExecutionError(w)
  BY <1>11 DEF TypeOK, ExecutionError
<1>12. CASE RecordFailure(w)
  <2>1. held[w] \in Actions /\ effects' \in [Actions -> Nat]
    BY <1>12 DEF TypeOK, RecordFailure
  <2>2. QED
    BY <1>12, <2>1, SettleTypeOK DEF RecordFailure, Settle
<1>13. QED
  BY <1>1, <1>2, <1>3, <1>4, <1>5, <1>6, <1>7, <1>8, <1>9, <1>10, <1>11, <1>12
     DEF WorkerStep

\* Deaths, restarts and Redis's own steps keep every variable in its type.
LEMMA FaultTypeOK ==
    ASSUME TypeOK,
           \/ \E c \in Calls : CallDies(c)
           \/ \E w \in Workers : WorkerDies(w) \/ WorkerRestarts(w)
           \/ RedisSnapshot
           \/ RedisRestarts
    PROVE  TypeOK'
<1> USE ResponseAssumption
<1>1. ASSUME NEW c \in Calls, CallDies(c) PROVE TypeOK'
  BY <1>1 DEF TypeOK, CallDies, Close
<1>2. ASSUME NEW w \in Workers, WorkerDies(w) PROVE TypeOK'
  BY <1>2 DEF TypeOK, WorkerDies
<1>3. ASSUME NEW w \in Workers, WorkerRestarts(w) PROVE TypeOK'
  BY <1>3 DEF TypeOK, WorkerRestarts
<1>4. CASE RedisSnapshot
  BY <1>4 DEF TypeOK, RedisSnapshot
<1>5. CASE RedisRestarts
  BY <1>5 DEF TypeOK, RedisRestarts
<1>6. QED
  BY <1>1, <1>2, <1>3, <1>4, <1>5

\* Every variable keeps to its type, and a call or a worker in the middle of a
\* handler always names its action.
THEOREM TypeCorrect == Spec => []TypeOK
<1>1. Init => TypeOK
  BY ResponseAssumption DEF Init, TypeOK, Statuses
<1>2. TypeOK /\ [Next]_vars => TypeOK'
  <2> SUFFICES ASSUME TypeOK, [Next]_vars PROVE TypeOK'
    OBVIOUS
  <2>1. CASE UNCHANGED vars
    BY <2>1 DEF TypeOK, vars
  <2>2. CASE Next
    BY <2>2, CallTypeOK, WorkerTypeOK, FaultTypeOK DEF Next
  <2>3. QED
    BY <2>1, <2>2
<1>3. QED
  BY <1>1, <1>2, PTL DEF Spec

-----------------------------------------------------------------------------
(* The inductive invariant.  It speaks of one action at a time, because a   *)
(* step concerns one action: Same says that a step leaves an action alone.  *)

\* Whoever has his name on the row may have put it there.
People(a) == /\ status[a] # "absent" => /\ proposer[a] \in Users
                                        /\ MayPropose(proposer[a])
             /\ status[a] \notin {"absent", "proposed"} =>
                   /\ decider[a] \in Users
                   /\ MayApprove(decider[a])
                   /\ decider[a] # proposer[a]

\* Its only executor knows how far it got; the row is "running" meanwhile, and
\* a running action without one is one whose worker died.
Execution(a) ==
    /\ \A v, w \in Workers : Executing(v, a) /\ Executing(w, a) => v = w
    /\ \A w \in Workers : Executing(w, a) =>
          /\ status[a] = "running"
          /\ wpc[w] = "run" => effects[a] = 0
          /\ wpc[w] = "verify" => effects[a] = 1 /\ a \in AwsActions
    /\ status[a] = "running" /\ a \notin orphaned => \E w \in Workers : Executing(w, a)

\* EffectsMatchStatus, of one action.
Effect(a) == /\ status[a] = "succeeded" => effects[a] = 1
             /\ status[a] \in {"running", "failed"} =>
                   effects[a] <= (IF a \in AwsActions THEN 1 ELSE 0)
             /\ status[a] \notin {"succeeded", "running", "failed"} => effects[a] = 0

\* AuditTellsTheStory, of one action, element by element.
Told(a) == /\ \A e \in audit : e.on = a /\ e.what # "propose" => e \in Story(a)
           /\ Story(a) \subseteq audit
           /\ status[a] # "absent" => Entry("propose", proposer[a], a) \in audit
           /\ status[a] = "absent" => \A e \in audit : e.on # a

Sound(a) == People(a) /\ Execution(a) /\ Effect(a) /\ Told(a)

\* A call about to insert is made by someone who may propose.
Inserters == \A c \in Calls : cpc[c] = "inserting" => MayPropose(cuser[c])

ResponseInv == TypeOK /\ Inserters /\ \A a \in Actions : Sound(a)

\* A step that leaves action a alone, except for more proposals of it.
Same(a) ==
    /\ status'[a] = status[a]
    /\ proposer'[a] = proposer[a]
    /\ decider'[a] = decider[a]
    /\ effects'[a] = effects[a]
    /\ audit \subseteq audit'
    /\ \A e \in audit' : e.on = a /\ e \notin audit => /\ e.what = "propose"
                                                     /\ status[a] # "absent"
    /\ \A w \in Workers :
          /\ Executing(w, a)' <=> Executing(w, a)
          /\ Executing(w, a) => wpc'[w] = wpc[w]
    /\ a \in orphaned => a \in orphaned'

\* What is sound stays sound under a step that leaves it alone.
LEMMA SameIsSound ==
    ASSUME NEW a \in Actions, Same(a), Sound(a)
    PROVE  Sound(a)'
<1>1. People(a)'
  BY DEF Same, Sound, People, MayPropose, MayApprove
<1>2. Execution(a)'
  <2>1. ASSUME NEW v \in Workers, NEW w \in Workers, Executing(v, a)', Executing(w, a)'
        PROVE  v = w
    BY <2>1 DEF Same, Sound, Execution
  <2>2. ASSUME NEW w \in Workers, Executing(w, a)'
        PROVE  /\ status'[a] = "running"
               /\ wpc'[w] = "run" => effects'[a] = 0
               /\ wpc'[w] = "verify" => effects'[a] = 1 /\ a \in AwsActions
    BY <2>2 DEF Same, Sound, Execution
  <2>3. ASSUME status'[a] = "running", a \notin orphaned'
        PROVE  \E w \in Workers : Executing(w, a)'
    BY <2>3 DEF Same, Sound, Execution
  <2>4. QED
    BY <2>1, <2>2, <2>3 DEF Execution
<1>3. Effect(a)'
  BY DEF Same, Sound, Effect
<1>4. Told(a)'
  <2>1. Story(a)' = Story(a)
    BY DEF Same, Story, Entry
  <2>2. QED
    BY <2>1 DEF Same, Sound, Told
<1>5. QED
  BY <1>1, <1>2, <1>3, <1>4 DEF Sound

\* A step that writes no row and moves no worker into, inside or out of an
\* execution leaves every action alone.
LEMMA QuietStep ==
    ASSUME UNCHANGED <<actVars, effects, orphaned>>,
           \A w \in Workers : \/ wpc'[w] = wpc[w] /\ held'[w] = held[w]
                              \/ /\ wpc[w] \notin {"run", "verify", "error"}
                                 /\ wpc'[w] \notin {"run", "verify", "error"}
    PROVE  \A a \in Actions : Same(a)
BY DEF Same, Executing

-----------------------------------------------------------------------------
(* The steps of a call.                                                     *)

\* The endpoints keep every action sound: each writes the row and its audit
\* row together, and only after its own checks.
LEMMA CallSound ==
    ASSUME ResponseInv, NEW c \in Calls, CallStep(c)
    PROVE  Inserters' /\ \A a \in Actions : Sound(a)'
<1> USE DEF ResponseInv
<1>q. ASSUME \A a \in Actions : Same(a) PROVE \A a \in Actions : Sound(a)'
  BY <1>q, SameIsSound
<1>1. ASSUME NEW u \in Users, NEW a \in Actions, Lookup(c, u, a)
      PROVE  Inserters' /\ \A b \in Actions : Sound(b)'
  <2>1. \A b \in Actions : Same(b)
    BY <1>1, QuietStep DEF Lookup
  <2>2. Inserters'
    BY <1>1 DEF Inserters, Lookup, Continue, TypeOK, MayPropose
  <2>3. QED
    BY <2>1, <2>2, <1>q
<1>2. ASSUME NEW u \in Users, NEW a \in Actions, Replay(c, u, a)
      PROVE  Inserters' /\ \A b \in Actions : Sound(b)'
  <2>1. \A b \in Actions : Same(b)
    BY <1>2 DEF Replay, Same, Entry, Executing
  <2>2. Inserters'
    BY <1>2 DEF Inserters, Replay, Close, TypeOK, MayPropose
  <2>3. QED
    BY <2>1, <2>2, <1>q
<1>3. ASSUME NEW u \in Users, NEW a \in Actions, NEW verdict \in Verdicts,
             Decide(c, u, a, verdict)
      PROVE  Inserters' /\ \A b \in Actions : Sound(b)'
  <2>1. /\ status[a] = "proposed" /\ status'[a] \in {"approved", "rejected"}
        /\ decider'[a] = u /\ MayApprove(u) /\ u # proposer[a]
        /\ audit' = audit \cup {Entry(verdict, u, a)}
        /\ status'[a] = "approved" <=> verdict = "approve"
        /\ UNCHANGED <<proposer, effects, wpc, held, orphaned>>
    BY <1>3 DEF Decide, Record, TypeOK
  <2>2. ASSUME NEW b \in Actions, b # a PROVE Same(b)
    BY <1>3, <2>1, <2>2 DEF Decide, Record, Same, Entry, Executing, TypeOK
  <2>3. Sound(a)'
    <3>1. Sound(a)
      OBVIOUS
    <3>2. People(a)'
      BY <2>1, <3>1 DEF Sound, People, MayPropose, MayApprove
    <3>3. Execution(a)'
      BY <2>1, <3>1 DEF Sound, Execution, Executing
    <3>4. Effect(a)'
      BY <2>1, <3>1 DEF Sound, Effect
    <3>5. Told(a)'
      <4>1. Story(a) = {}
        BY <2>1 DEF Story
      <4>2. Story(a)' = {Entry(verdict, u, a)}
        BY <2>1 DEF Story, Verdicts, Entry
      <4>3. \A e \in audit : ~(e.on = a /\ e.what # "propose")
        BY <4>1, <3>1 DEF Sound, Told
      <4>4. Entry("propose", proposer'[a], a) \in audit'
        BY <2>1, <3>1 DEF Sound, Told
      <4>5. Entry("propose", proposer[a], a)' = Entry("propose", proposer'[a], a)
        BY DEF Entry
      <4>6. QED
        BY <2>1, <4>2, <4>3, <4>4, <4>5 DEF Told
    <3>6. QED
      BY <3>2, <3>3, <3>4, <3>5 DEF Sound
  <2>4. Inserters'
    <3>1. Continue(c, u, a, "pushing") \/ Close(c)
      BY <1>3 DEF Decide, Record
    <3>2. cpc'[c] # "inserting"
      BY <3>1 DEF Continue, Close, TypeOK
    <3>3. \A d \in Calls \ {c} : cpc'[d] = cpc[d] /\ cuser'[d] = cuser[d]
      BY <3>1 DEF Continue, Close, TypeOK
    <3>4. QED
      BY <3>2, <3>3 DEF Inserters
  <2>5. QED
    BY <2>2, <2>3, <2>4, SameIsSound
<1>4. CASE Insert(c)
  <2> DEFINE u == cuser[c]
  <2>0. PICK a \in Actions : a = cact[c]
    BY <1>4 DEF Insert, TypeOK
  <2>1. /\ status[a] = "absent" /\ status'[a] = "proposed"
        /\ proposer'[a] = u /\ u \in Users /\ MayPropose(u)
        /\ audit' = audit \cup {Entry("propose", u, a)}
        /\ UNCHANGED <<decider, effects, wpc, held, orphaned>>
    BY <1>4, <2>0 DEF Insert, Inserters, TypeOK
  <2>2. ASSUME NEW b \in Actions, b # a PROVE Same(b)
    BY <1>4, <2>0, <2>1, <2>2 DEF Insert, Same, Entry, Executing, TypeOK
  <2>3. Sound(a)'
    <3>1. Sound(a)
      OBVIOUS
    <3>2. People(a)'
      BY <2>1, <3>1 DEF Sound, People, MayPropose, MayApprove
    <3>3. Execution(a)'
      BY <2>1, <3>1 DEF Sound, Execution, Executing
    <3>4. Effect(a)'
      BY <2>1, <3>1 DEF Sound, Effect
    <3>5. Told(a)'
      <4>1. Story(a)' = {}
        BY <2>1 DEF Story
      <4>2. \A e \in audit : e.on # a
        BY <2>1, <3>1 DEF Sound, Told
      <4>3. Entry("propose", proposer[a], a)' = Entry("propose", u, a)
        BY <2>1 DEF Entry
      <4>4. Entry("propose", u, a).what = "propose"
        BY DEF Entry
      <4>5. QED
        BY <2>1, <4>1, <4>2, <4>3, <4>4 DEF Told
    <3>6. QED
      BY <3>2, <3>3, <3>4, <3>5 DEF Sound
  <2>4. Inserters'
    BY <1>4 DEF Insert, Inserters, Close, TypeOK, MayPropose
  <2>5. QED
    BY <2>2, <2>3, <2>4, SameIsSound
<1>5. CASE InsertCollides(c) \/ Refuse(c) \/ Push(c) \/ PushFails(c)
  <2>1. UNCHANGED <<actVars, effects, wrkVars, histVars>> /\ Close(c)
    BY <1>5 DEF InsertCollides, Refuse, Push, PushFails
  <2>2. \A b \in Actions : Same(b)
    BY <2>1, QuietStep
  <2>3. Inserters'
    BY <2>1 DEF Inserters, Close, TypeOK, MayPropose
  <2>4. QED
    BY <2>2, <2>3, <1>q
<1>6. QED
  BY <1>1, <1>2, <1>3, <1>4, <1>5 DEF CallStep

-----------------------------------------------------------------------------
(* The steps of a worker.                                                   *)

\* execute_action's last commit settles the action its worker was running.
LEMMA SettleSound ==
    ASSUME ResponseInv, NEW w \in Workers, Executing(w, held[w]),
           NEW outcome \in {"succeeded", "failed"}, Settle(w, outcome),
           NEW a \in Actions, a = held[w],
           \A b \in Actions \ {a} : effects'[b] = effects[b],
           outcome = "succeeded" => effects'[a] = 1,
           outcome = "failed" => effects'[a] = effects[a],
           UNCHANGED orphaned
    PROVE  \A b \in Actions : Sound(b)'
<1> USE DEF ResponseInv
<1>0. Sound(a)
  OBVIOUS
<1>1. /\ status[a] = "running" /\ status'[a] = outcome
      /\ audit' = audit \cup {Entry(outcome, decider[a], a)}
      /\ wpc[w] \in {"run", "verify", "error"} /\ wpc'[w] \in {"scan", "top"}
      /\ \A v \in Workers \ {w} : wpc'[v] = wpc[v] /\ held'[v] = held[v]
      /\ UNCHANGED <<proposer, decider>>
  BY <1>0 DEF Settle, Return, Sound, Execution, Executing, TypeOK
<1>2. ASSUME NEW b \in Actions, b # a PROVE Same(b)
  <2>1. status'[b] = status[b]
    BY <1>2 DEF Settle, TypeOK
  <2>2. \A v \in Workers : /\ Executing(v, b)' <=> Executing(v, b)
                           /\ Executing(v, b) => wpc'[v] = wpc[v]
    BY <1>1, <1>2 DEF Executing
  <2>3. \A e \in audit' : e.on = b => e \in audit
    BY <1>1, <1>2 DEF Entry
  <2>4. QED
    BY <1>1, <1>2, <2>1, <2>2, <2>3 DEF Same
<1>3. Sound(a)'
  <2>1. People(a)'
    BY <1>0, <1>1 DEF Sound, People, MayPropose, MayApprove
  <2>2. \A v \in Workers : ~Executing(v, a)'
    BY <1>0, <1>1 DEF Sound, Execution, Executing
  <2>3. Execution(a)'
    BY <1>1, <2>2 DEF Execution
  <2>4. Effect(a)'
    BY <1>0, <1>1 DEF Sound, Effect
  <2>5. Told(a)'
    <3>1. Story(a) = {Entry("approve", decider[a], a)}
      BY <1>1 DEF Story
    <3>2. Story(a)' = {Entry("approve", decider[a], a), Entry(outcome, decider[a], a)}
      BY <1>1 DEF Story, Entry
    <3>3. Entry("propose", proposer[a], a)' = Entry("propose", proposer[a], a)
      BY <1>1 DEF Entry
    <3>4. QED
      BY <1>0, <1>1, <3>1, <3>2, <3>3 DEF Sound, Told
  <2>6. QED
    BY <2>1, <2>3, <2>4, <2>5 DEF Sound
<1>4. QED
  BY <1>2, <1>3, SameIsSound

\* The worker keeps every action sound: it claims only what is approved, is
\* then alone with it, and records what it did.
LEMMA WorkerSound ==
    ASSUME ResponseInv, NEW w \in Workers, WorkerStep(w)
    PROVE  \A a \in Actions : Sound(a)'
<1> USE DEF ResponseInv
<1>1. CASE \/ StartScan(w) \/ NextScanned(w) \/ EndScan(w)
           \/ Pop(w) \/ PopNothing(w) \/ SkipClaim(w)
  <2>1. /\ UNCHANGED <<actVars, effects, histVars>>
        /\ wpc[w] \notin {"run", "verify", "error"}
        /\ wpc'[w] \notin {"run", "verify", "error"}
        /\ \A v \in Workers \ {w} : wpc'[v] = wpc[v] /\ held'[v] = held[v]
    BY <1>1 DEF StartScan, NextScanned, EndScan, Pop, PopNothing, SkipClaim,
                Take, Return, TypeOK
  <2>2. \A a \in Actions : Same(a)
    BY <2>1, QuietStep
  <2>3. QED
    BY <2>2, SameIsSound
<1>2. CASE Claim(w)
  <2>0. PICK a \in Actions : a = held[w]
    BY <1>2 DEF Claim, TypeOK
  <2>1. /\ status[a] = "approved" /\ status'[a] = "running"
        /\ wpc'[w] = "run" /\ held'[w] = a
        /\ \A v \in Workers \ {w} : wpc'[v] = wpc[v] /\ held'[v] = held[v]
        /\ UNCHANGED <<proposer, decider, audit, effects, held, orphaned>>
    BY <1>2, <2>0 DEF Claim, TypeOK
  <2>2. ASSUME NEW b \in Actions, b # a PROVE Same(b)
    BY <1>2, <2>0, <2>1, <2>2 DEF Claim, Same, Executing, TypeOK
  <2>3. Sound(a)'
    <3>1. Sound(a)
      OBVIOUS
    <3>2. People(a)'
      BY <2>1, <3>1 DEF Sound, People, MayPropose, MayApprove
    <3>3. \A v \in Workers : Executing(v, a)' <=> v = w
      BY <2>0, <2>1, <3>1 DEF Sound, Execution, Executing
    <3>4. effects'[a] = 0
      BY <2>1, <3>1 DEF Sound, Effect
    <3>5. Execution(a)'
      BY <2>1, <3>3, <3>4 DEF Execution
    <3>6. Effect(a)'
      BY <2>1, <3>4 DEF Effect
    <3>7. Story(a)' = Story(a) /\ Entry("propose", proposer[a], a)' = Entry("propose", proposer[a], a)
      BY <2>1 DEF Story, Entry
    <3>8. Told(a)'
      BY <2>1, <3>1, <3>7 DEF Sound, Told
    <3>9. QED
      BY <3>2, <3>5, <3>6, <3>8 DEF Sound
  <2>4. QED
    BY <2>2, <2>3, SameIsSound
<1>3. CASE RevokeSessions(w)
  <2>1. held[w] \in Actions /\ Executing(w, held[w])
    BY <1>3 DEF RevokeSessions, Executing, TypeOK
  <2>2. effects[held[w]] = 0
    BY <1>3, <2>1 DEF RevokeSessions, Sound, Execution
  <2>3. effects'[held[w]] = 1 /\ \A b \in Actions \ {held[w]} : effects'[b] = effects[b]
    BY <1>3, <2>1, <2>2 DEF RevokeSessions, CarryOut, TypeOK
  <2>4. QED
    BY <1>3, <2>1, <2>3, SettleSound DEF RevokeSessions, Settle
<1>4. CASE Mutate(w) \/ ExecutionError(w)
  <2>0. PICK a \in Actions : a = held[w]
    BY <1>4 DEF Mutate, ExecutionError, TypeOK
  <2>1. /\ Executing(w, a)
        /\ wpc'[w] \in {"verify", "error"}
        /\ wpc'[w] = "verify" => wpc[w] = "run" /\ a \in AwsActions /\ effects'[a] = effects[a] + 1
        /\ wpc'[w] = "error" => effects'[a] = effects[a]
        /\ \A b \in Actions \ {a} : effects'[b] = effects[b]
        /\ \A v \in Workers \ {w} : wpc'[v] = wpc[v]
        /\ UNCHANGED <<actVars, held, orphaned>>
    BY <1>4, <2>0 DEF Mutate, CarryOut, ExecutionError, Executing, TypeOK
  <2>2. ASSUME NEW b \in Actions, b # a PROVE Same(b)
    BY <2>0, <2>1, <2>2 DEF Same, Executing
  <2>3. Sound(a)'
    <3>1. Sound(a)
      OBVIOUS
    <3>2. People(a)'
      BY <2>1, <3>1 DEF Sound, People, MayPropose, MayApprove
    <3>3. \A v \in Workers : Executing(v, a)' <=> v = w
      BY <2>0, <2>1, <3>1 DEF Sound, Execution, Executing
    <3>4. status'[a] = "running"
      BY <2>1, <3>1 DEF Sound, Execution
    <3>5. effects[a] \in Nat /\ effects[a] <= (IF a \in AwsActions THEN 1 ELSE 0)
      BY <2>1, <3>1, <3>4 DEF Sound, Effect, TypeOK
    <3>6. wpc'[w] = "verify" => effects'[a] = 1
      BY <2>1, <3>1 DEF Sound, Execution
    <3>7. Execution(a)'
      BY <2>1, <3>3, <3>4, <3>6 DEF Execution
    <3>8. Effect(a)'
      BY <2>1, <3>4, <3>5, <3>6 DEF Effect
    <3>9. Story(a)' = Story(a) /\ Entry("propose", proposer[a], a)' = Entry("propose", proposer[a], a)
      BY <2>1 DEF Story, Entry
    <3>10. Told(a)'
      BY <2>1, <3>1, <3>9 DEF Sound, Told
    <3>11. QED
      BY <3>2, <3>7, <3>8, <3>10 DEF Sound
  <2>4. QED
    BY <2>2, <2>3, SameIsSound
<1>5. CASE Verify(w)
  <2>1. held[w] \in Actions /\ Executing(w, held[w])
    BY <1>5 DEF Verify, Executing, TypeOK
  <2>2. effects'[held[w]] = 1 /\ UNCHANGED effects
    BY <1>5, <2>1 DEF Verify, Sound, Execution
  <2>3. QED
    BY <1>5, <2>1, <2>2, SettleSound DEF Verify, Settle
<1>6. CASE RecordFailure(w)
  <2>1. held[w] \in Actions /\ Executing(w, held[w])
    BY <1>6 DEF RecordFailure, Executing, TypeOK
  <2>2. QED
    BY <1>6, <2>1, SettleSound DEF RecordFailure, Settle
<1>7. QED
  BY <1>1, <1>2, <1>3, <1>4, <1>5, <1>6 DEF WorkerStep

-----------------------------------------------------------------------------
(* Faults.                                                                  *)

\* No death, restart or loss of the queue makes an action unsound; a worker
\* that dies inside an execution leaves an orphaned action behind.
LEMMA FaultSound ==
    ASSUME ResponseInv,
           \/ \E c \in Calls : CallDies(c)
           \/ \E w \in Workers : WorkerDies(w) \/ WorkerRestarts(w)
           \/ RedisSnapshot
           \/ RedisRestarts
    PROVE  \A a \in Actions : Sound(a)'
<1> USE DEF ResponseInv
<1>q. ASSUME \A a \in Actions : Same(a) PROVE \A a \in Actions : Sound(a)'
  BY <1>q, SameIsSound
<1>1. ASSUME NEW c \in Calls, CallDies(c) PROVE \A a \in Actions : Sound(a)'
  BY <1>1, <1>q, QuietStep DEF CallDies
<1>2. ASSUME NEW w \in Workers, WorkerRestarts(w) PROVE \A a \in Actions : Sound(a)'
  <2>1. wpc[w] = "down" /\ wpc' = [wpc EXCEPT ![w] = "top"]
    BY <1>2 DEF WorkerRestarts
  <2>2. \A a \in Actions : Same(a)
    BY <1>2, <2>1, QuietStep DEF WorkerRestarts, TypeOK
  <2>3. QED
    BY <2>2, <1>q
<1>3. CASE RedisSnapshot \/ RedisRestarts
  BY <1>3, <1>q, QuietStep DEF RedisSnapshot, RedisRestarts
<1>4. ASSUME NEW w \in Workers, WorkerDies(w), NEW a \in Actions PROVE Sound(a)'
  <2>1. /\ wpc'[w] = "down"
        /\ \A v \in Workers \ {w} : wpc'[v] = wpc[v] /\ held'[v] = held[v]
        /\ orphaned' = orphaned \cup {b \in Actions : Executing(w, b)}
        /\ UNCHANGED <<actVars, effects>>
    BY <1>4 DEF WorkerDies, TypeOK
  <2>2. CASE ~Executing(w, a)
    <3>1. Same(a)
      BY <2>1, <2>2 DEF Same, Executing
    <3>2. QED
      BY <3>1, SameIsSound
  <2>3. CASE Executing(w, a)
    <3>1. \A v \in Workers : ~Executing(v, a)'
      BY <2>1, <2>3 DEF Sound, Execution, Executing
    <3>2. a \in orphaned'
      BY <2>1, <2>3
    <3>3. Execution(a)'
      BY <3>1, <3>2 DEF Execution
    <3>4. People(a)' /\ Effect(a)'
      BY <2>1 DEF Sound, People, MayPropose, MayApprove, Effect
    <3>5. Story(a)' = Story(a) /\ Entry("propose", proposer[a], a)' = Entry("propose", proposer[a], a)
      BY <2>1 DEF Story, Entry
    <3>6. Told(a)'
      BY <2>1, <3>5 DEF Sound, Told
    <3>7. QED
      BY <3>3, <3>4, <3>6 DEF Sound
  <2>4. QED
    BY <2>2, <2>3
<1>5. QED
  BY <1>1, <1>2, <1>3, <1>4

\* Neither the workers nor the faults start an insert.
LEMMA InsertersKept ==
    ASSUME ResponseInv,
           \/ \E c \in Calls : CallDies(c)
           \/ UNCHANGED callVars
    PROVE  Inserters'
BY DEF ResponseInv, Inserters, CallDies, Close, TypeOK, MayPropose

\* The invariant holds of every reachable state.
THEOREM ResponseAlways == Spec => []ResponseInv
<1>1. Init => ResponseInv
  <2> SUFFICES ASSUME Init PROVE ResponseInv
    OBVIOUS
  <2>1. TypeOK
    BY ResponseAssumption DEF Init, TypeOK, Statuses
  <2>2. Inserters
    BY DEF Init, Inserters
  <2>3. ASSUME NEW a \in Actions PROVE Sound(a)
    BY DEF Init, Sound, People, Execution, Executing, Effect, Told, Story
  <2>4. QED
    BY <2>1, <2>2, <2>3 DEF ResponseInv
<1>2. ResponseInv /\ [Next]_vars => ResponseInv'
  <2> SUFFICES ASSUME ResponseInv, [Next]_vars PROVE ResponseInv'
    OBVIOUS
  <2>1. TypeOK
    BY DEF ResponseInv
  <2>2. ASSUME NEW c \in Calls, CallStep(c) PROVE ResponseInv'
    BY <2>1, <2>2, CallTypeOK, CallSound DEF ResponseInv
  <2>3. ASSUME NEW w \in Workers, WorkerStep(w) PROVE ResponseInv'
    <3>1. UNCHANGED callVars
      BY <2>3 DEF WorkerStep, StartScan, NextScanned, EndScan, Pop, PopNothing, Claim,
                  SkipClaim, RevokeSessions, Mutate, Verify, ExecutionError,
                  RecordFailure, Settle
    <3>2. TypeOK'
      BY <2>1, <2>3, WorkerTypeOK
    <3>3. QED
      BY <2>3, <3>1, <3>2, WorkerSound, InsertersKept DEF ResponseInv
  <2>4. CASE \/ \E c \in Calls : CallDies(c)
             \/ \E w \in Workers : WorkerDies(w) \/ WorkerRestarts(w)
             \/ RedisSnapshot
             \/ RedisRestarts
    <3>1. (\E c \in Calls : CallDies(c)) \/ UNCHANGED callVars
      BY <2>4 DEF WorkerDies, WorkerRestarts, RedisSnapshot, RedisRestarts
    <3>2. TypeOK'
      BY <2>1, <2>4, FaultTypeOK
    <3>3. QED
      BY <2>4, <3>1, <3>2, FaultSound, InsertersKept DEF ResponseInv
  <2>5. CASE UNCHANGED vars
    <3>1. \A a \in Actions : Same(a)
      BY <2>5, QuietStep DEF vars
    <3>2. TypeOK' /\ UNCHANGED callVars
      BY <2>1, <2>5 DEF vars, TypeOK
    <3>3. QED
      BY <3>1, <3>2, SameIsSound, InsertersKept DEF ResponseInv
  <2>6. QED
    BY <2>2, <2>3, <2>4, <2>5 DEF Next
<1>3. QED
  BY <1>1, <1>2, PTL DEF Spec

-----------------------------------------------------------------------------
(* What follows.                                                            *)

\* Nothing is approved, started or carried out without the word of two people
\* who may give it, and the approval is in the audit log.
THEOREM TwoPeople == Spec => []FourEyes
<1>1. ResponseInv => FourEyes
  <2> SUFFICES ASSUME ResponseInv, NEW a \in Actions,
                      status[a] \in {"approved", "running", "succeeded", "failed"}
                         \/ effects[a] > 0
               PROVE  /\ proposer[a] \in Users /\ MayPropose(proposer[a])
                      /\ decider[a] \in Users /\ MayApprove(decider[a])
                      /\ proposer[a] # decider[a]
                      /\ Entry("approve", decider[a], a) \in audit
    BY DEF FourEyes
  <2>1. Sound(a)
    BY DEF ResponseInv
  <2>2. status[a] \in {"approved", "running", "succeeded", "failed"}
    BY <2>1 DEF Sound, Effect
  <2>3. Entry("approve", decider[a], a) \in Story(a)
    BY <2>2 DEF Story
  <2>4. QED
    BY <2>1, <2>2, <2>3 DEF Sound, People, Told
<1>2. QED
  BY <1>1, ResponseAlways, PTL

\* However often the id is handed out, one worker executes the action.
THEOREM AloneWithIt == Spec => []OneExecutor
<1>1. ResponseInv => OneExecutor
  BY DEF ResponseInv, OneExecutor, Sound, Execution
<1>2. QED
  BY <1>1, ResponseAlways, PTL

\* The row never reports an effect that did not happen, and hides none that
\* did, but for a failed or unfinished AWS action.
THEOREM StatusIsHonest == Spec => []EffectsMatchStatus
<1>1. ResponseInv => EffectsMatchStatus
  BY DEF ResponseInv, EffectsMatchStatus, Sound, Effect
<1>2. QED
  BY <1>1, ResponseAlways, PTL

\* Row and audit log agree at every commit.
THEOREM AuditIsHonest == Spec => []AuditTellsTheStory
<1>1. ResponseInv => AuditTellsTheStory
  <2> SUFFICES ASSUME ResponseInv, NEW a \in Actions
               PROVE  /\ {e \in audit : e.on = a /\ e.what # "propose"} = Story(a)
                      /\ status[a] # "absent" => Entry("propose", proposer[a], a) \in audit
                      /\ status[a] = "absent" => \A e \in audit : e.on # a
    BY DEF AuditTellsTheStory
  <2>1. Told(a) /\ status[a] \in Statuses
    BY DEF ResponseInv, Sound, TypeOK
  <2>2. \A e \in Story(a) : e.on = a /\ e.what # "propose"
    BY <2>1 DEF Story, Entry, Statuses
  <2>3. QED
    BY <2>1, <2>2 DEF Told
<1>2. QED
  BY <1>1, ResponseAlways, PTL

\* Only the death of its worker leaves an action running with nobody at it.
THEOREM NobodyAbandoned == Spec => []RunningIsHeld
<1>1. ResponseInv => RunningIsHeld
  BY DEF ResponseInv, RunningIsHeld, Sound, Execution
<1>2. QED
  BY <1>1, ResponseAlways, PTL

-----------------------------------------------------------------------------
(* Refinement.                                                              *)

\* Each step of the endpoints, the worker and the faults is a step of the
\* protocol or leaves what a client sees unchanged.
THEOREM KeepsProtocol == Spec => ProtocolSpec
<1>1. Init => Protocol!Init
  BY DEF Init, Protocol!Init
<1>2. ResponseInv /\ [Next]_vars => [Protocol!Next]_(Protocol!vars)
  <2> SUFFICES ASSUME ResponseInv, [Next]_vars
               PROVE  Protocol!Next \/ UNCHANGED <<status, proposer, decider, effects>>
    BY DEF Protocol!vars
  <2> USE DEF ResponseInv
  <2>1. ASSUME NEW c \in Calls, NEW u \in Users, NEW a \in Actions,
               NEW verdict \in Verdicts, Decide(c, u, a, verdict)
        PROVE  Protocol!Next
    <3>1. \/ status' = [status EXCEPT ![a] = "approved"]
          \/ status' = [status EXCEPT ![a] = "rejected"]
      BY <2>1 DEF Decide, Record
    <3>2. Protocol!Decide(a, u)
      BY <2>1, <3>1 DEF Decide, Record, Protocol!Decide, Protocol!Move
    <3>3. QED
      BY <3>2 DEF Protocol!Next
  <2>2. ASSUME NEW c \in Calls, Insert(c) PROVE Protocol!Next
    <3>1. cact[c] \in Actions /\ cuser[c] \in Users
      BY <2>2 DEF Insert, TypeOK
    <3>2. Protocol!Propose(cact[c], cuser[c])
      BY <2>2 DEF Insert, Protocol!Propose, Protocol!Move
    <3>3. QED
      BY <3>1, <3>2 DEF Protocol!Next
  <2>3. ASSUME NEW w \in Workers, Claim(w) PROVE Protocol!Next
    <3>1. held[w] \in Actions
      BY <2>3 DEF Claim, TypeOK
    <3>2. Protocol!Start(held[w])
      BY <2>3 DEF Claim, Protocol!Start, Protocol!Move
    <3>3. QED
      BY <3>1, <3>2 DEF Protocol!Next
  <2>4. ASSUME NEW w \in Workers, wpc[w] \in {"run", "verify", "error"}
        PROVE  /\ held[w] \in Actions
               /\ status[held[w]] = "running"
               /\ wpc[w] = "run" => effects[held[w]] = 0
               /\ wpc[w] = "verify" => effects[held[w]] = 1
    <3>1. held[w] \in Actions
      BY <2>4 DEF TypeOK
    <3>2. QED
      BY <2>4, <3>1 DEF Sound, Execution, Executing
  <2>5. ASSUME NEW w \in Workers, RevokeSessions(w) \/ Mutate(w) PROVE Protocol!Next
    <3>1. /\ held[w] \in Actions /\ status[held[w]] = "running"
          /\ effects[held[w]] = 0
      BY <2>4, <2>5 DEF RevokeSessions, Mutate
    <3>2. effects' = [effects EXCEPT ![held[w]] = 1]
      BY <2>5, <3>1 DEF RevokeSessions, Mutate, CarryOut, TypeOK
    <3>3. CASE RevokeSessions(w)
      <4>1. Protocol!Succeed(held[w])
        BY <3>1, <3>2, <3>3 DEF RevokeSessions, Settle, Protocol!Succeed,
                                Protocol!Move, Protocol!CarryOut
      <4>2. QED
        BY <3>1, <4>1 DEF Protocol!Next
    <3>4. CASE Mutate(w)
      <4>1. Protocol!Apply(held[w])
        BY <3>1, <3>2, <3>4 DEF Mutate, Protocol!Apply, Protocol!CarryOut
      <4>2. QED
        BY <3>1, <4>1 DEF Protocol!Next
    <3>5. QED
      BY <2>5, <3>3, <3>4
  <2>6. ASSUME NEW w \in Workers, Verify(w) PROVE Protocol!Next
    <3>1. /\ held[w] \in Actions /\ status[held[w]] = "running"
          /\ effects[held[w]] = 1
      BY <2>4, <2>6 DEF Verify
    <3>2. Protocol!Succeed(held[w])
      BY <2>6, <3>1 DEF Verify, Settle, Protocol!Succeed, Protocol!Move
    <3>3. QED
      BY <3>1, <3>2 DEF Protocol!Next
  <2>7. ASSUME NEW w \in Workers, RecordFailure(w) PROVE Protocol!Next
    <3>1. held[w] \in Actions /\ status[held[w]] = "running"
      BY <2>4, <2>7 DEF RecordFailure
    <3>2. Protocol!Fail(held[w])
      BY <2>7, <3>1 DEF RecordFailure, Settle, Protocol!Fail, Protocol!Move
    <3>3. QED
      BY <3>1, <3>2 DEF Protocol!Next
  <2>8. ASSUME NEW c \in Calls, CallStep(c) \/ CallDies(c)
        PROVE  Protocol!Next \/ UNCHANGED <<status, proposer, decider, effects>>
    BY <2>1, <2>2, <2>8 DEF CallStep, CallDies, Lookup, Replay, InsertCollides,
                            Refuse, Push, PushFails
  <2>9. ASSUME NEW w \in Workers, WorkerStep(w) \/ WorkerDies(w) \/ WorkerRestarts(w)
        PROVE  Protocol!Next \/ UNCHANGED <<status, proposer, decider, effects>>
    BY <2>3, <2>5, <2>6, <2>7, <2>9
       DEF WorkerStep, WorkerDies, WorkerRestarts, StartScan, NextScanned, EndScan,
           Pop, PopNothing, SkipClaim, ExecutionError
  <2>10. QED
    BY <2>8, <2>9 DEF Next, vars, RedisSnapshot, RedisRestarts
<1>3. QED
  BY <1>1, <1>2, ResponseAlways, PTL DEF Spec, ProtocolSpec, Protocol!Spec
=============================================================================
