-------------------------- MODULE InvestigationRun --------------------------
(***************************************************************************)
(* What one investigation computes.  A request is answered by the run of   *)
(* its context hash; the run reads the incident, trims what it read to the *)
(* size limit, asks the provider four times, checks every citation, passes *)
(* the action plan through the policy gate and the executor, and stores    *)
(* its result.  Meanwhile alerts are correlated and evidence is attached.  *)
(* The gate and the executor may also be driven by a caller of their own.  *)
(***************************************************************************)
EXTENDS ResponsePolicy, SequencesExt

CONSTANTS
    Requests, Runs,
    Casts,                  \* who may drive each run: "graph", "nodes", "executor"
    Alerts,                 \* alerts that correlation may link to the incident
    AlertUser, AlertIp,     \* whom an alert is about
    Technique,              \* of MITRE ATT&CK, that an alert's rule maps to
    Primary,                \* the user and address on the incident's row
    Evidence,               \* what analysts attach, each in a call of its own
    Exposed,                \* evidence of an allowed path into a private zone
    MaxEvidence,            \* per incident
    ReadEvidence,           \* read into a context, the newest first
    MaxSize, KeepItems, KeepEvidence,   \* of a context, counted in its items
    Confidences,            \* that the provider may answer, in hundredths
    Workers,                \* runs that worker processes execute at a time
    CitedKinds,             \* of references that the provider may cite
    Plans,                  \* sequences of actions that may be proposed
    NoRun, NoContext, NoResult

\* what may be proposed
Actions == UNION {ToSet(plan) : plan \in Plans}

\* What can be cited: the incident, an alert, an event, a piece of evidence, a technique.
Refs == {"incident", "alert", "event", "evidence", "mitre", "unknown"}
           \X ({"row"} \cup Alerts \cup Evidence \cup {Technique[a] : a \in Alerts})

\* A context keeps something of what it shows, a plan is a list of actions on known
\* targets, a run has a driver, confidences are hundredths, "no run" is not a run and
\* "no result" not a result.
ASSUME SizesAssumption == /\ {ReadEvidence, KeepItems, KeepEvidence} \subseteq Nat \ {0}
                          /\ MaxSize \in Nat
ASSUME PlansAssumption ==
    /\ \A plan \in Plans : plan \in Seq(Actions)
    /\ \A a \in Actions : a.name \in Users \cup Ips /\ a.spelling \in {"plain", "padded", "upper"}
ASSUME CastsAssumption == Casts \subseteq [Runs -> {"graph", "nodes", "executor"}]
ASSUME AnswersAssumption == /\ Confidences \subseteq Nat /\ NoRun \notin Runs
                            /\ NoResult \notin [cited : SUBSET Refs, top : Int]

VARIABLES
    linked,     \* alerts of the incident, oldest first
    attached,   \* evidence of the incident, oldest first
    counted,    \* evidence whose call has passed the count and not yet inserted
    rpc, asked, seen, answer,   \* requests: what the incident was, the hash, the run
    pc, hash, entry,            \* runs, and who drives them
    ctx, out, decided, done,    \* what a run has read, collected, decided and done
    saved,                      \* its stored context and result
    denied, disabled, revoked,  \* in Redis; accounts and sessions in the database
    pending, audit              \* what a transaction has not committed; audit rows

incident == <<linked, attached, counted>>
requests == <<rpc, asked, seen, answer>>
local == <<ctx, out, decided, done>>
world == <<denied, disabled, revoked, pending, audit>>
vars == <<incident, requests, pc, hash, entry, local, saved, world>>

Nodes == {"load", "evidence", "risk", "narrative", "recommend", "validate", "gate",
          "execute", "verify", "persist"}

NoOutput == [cited |-> {}, top |-> 0, sound |-> TRUE, plan |-> <<>>]
NothingPending == [disabled |-> {}, restored |-> {}, revoked |-> {}, audit |-> {}]

\* What the context hash is made of.
Content == [alerts |-> ToSet(linked), evidence |-> ToSet(attached)]
NoContent == [alerts |-> {}, evidence |-> {}]

Init ==
    /\ linked = <<>> /\ attached = <<>> /\ counted = {}
    /\ rpc = [q \in Requests |-> "idle"]
    /\ asked = [q \in Requests |-> NoContent]
    /\ seen = [q \in Requests |-> NoContent]
    /\ answer = [q \in Requests |-> NoRun]
    /\ pc = [k \in Runs |-> "absent"]
    /\ hash = [k \in Runs |-> NoContent]
    /\ entry \in Casts
    /\ ctx = [k \in Runs |-> NoContext]
    /\ out = [k \in Runs |-> NoOutput]
    /\ decided = [k \in Runs |-> <<>>]
    /\ done = [k \in Runs |-> <<>>]
    /\ saved = [k \in Runs |-> NoResult]
    /\ denied = {} /\ disabled = {} /\ revoked = {} /\ audit = {}
    /\ pending = [k \in Runs |-> NothingPending]
-----------------------------------------------------------------------------
\* Correlation links an alert and touches the incident's row.
LinkAlert(a) ==
    /\ a \notin ToSet(linked)
    /\ linked' = Append(linked, a)
    /\ UNCHANGED <<attached, counted, requests, pc, hash, entry, local, saved, world>>

\* An analyst's evidence is counted first and inserted later.  It sorts by the
\* start of its transaction: a later commit may come earlier.
CountEvidence(e) ==
    /\ e \notin counted \cup ToSet(attached) /\ Len(attached) < MaxEvidence
    /\ counted' = counted \cup {e}
    /\ UNCHANGED <<linked, attached, requests, pc, hash, entry, local, saved, world>>

AttachEvidence(e) ==
    /\ e \in counted
    /\ \E i \in 1..Len(attached) + 1 : attached' = InsertAt(attached, i, e)
    /\ counted' = counted \ {e}
    /\ UNCHANGED <<linked, requests, pc, hash, entry, local, saved, world>>
-----------------------------------------------------------------------------
\* A request reads the incident's row and, in a second statement, the ids of
\* its evidence; the two make the context hash.
ReadIncident(q) ==
    /\ rpc[q] = "idle" /\ \E k \in Runs : entry[k] = "graph"
    /\ rpc' = [rpc EXCEPT ![q] = "hashing"]
    /\ asked' = [asked EXCEPT ![q] = Content]
    /\ seen' = [seen EXCEPT ![q].alerts = ToSet(linked)]
    /\ UNCHANGED <<incident, answer, pc, hash, entry, local, saved, world>>

\* Mutant: the evidence is not part of the hash.
HashWithoutEvidence(q) ==
    /\ rpc[q] = "hashing"
    /\ rpc' = [rpc EXCEPT ![q] = "hashed"]
    /\ UNCHANGED <<incident, asked, seen, answer, pc, hash, entry, local, saved, world>>

HashEvidence(q) ==
    /\ rpc[q] = "hashing"
    /\ rpc' = [rpc EXCEPT ![q] = "hashed"]
    /\ seen' = [seen EXCEPT ![q].evidence = ToSet(attached)]
    /\ UNCHANGED <<incident, asked, answer, pc, hash, entry, local, saved, world>>

\* Under the lock of the hash: join its run, again after a failure, or create it.
Join(q) ==
    LET Graph == {k \in Runs : entry[k] = "graph"}
        same == {k \in Graph : pc[k] # "absent" /\ hash[k] = seen[q]}
        start(k) ==
            /\ answer' = [answer EXCEPT ![q] = k]
            /\ pc' = [pc EXCEPT ![k] = "queued"]
            /\ hash' = [hash EXCEPT ![k] = seen[q]]
            /\ ctx' = [ctx EXCEPT ![k] = NoContext]
            /\ out' = [out EXCEPT ![k] = NoOutput]
    IN  /\ rpc[q] = "hashed"
        /\ rpc' = [rpc EXCEPT ![q] = "answered"]
        /\ \/ \E k \in same :
                \/ pc[k] = "failed" /\ start(k)
                \/ /\ pc[k] # "failed"
                   /\ answer' = [answer EXCEPT ![q] = k]
                   /\ UNCHANGED <<pc, hash, ctx, out>>
           \/ same = {} /\ \E k \in Graph : pc[k] = "absent" /\ start(k)
        /\ UNCHANGED <<incident, asked, seen, entry, decided, done, saved, world>>
-----------------------------------------------------------------------------
\* A context, and the references a citation may use.
Ref(kind, x) == <<kind, x>>
Items(c) == {Ref("incident", "row")} \cup {Ref("alert", a) : a \in ToSet(c.alerts)}
                \cup {Ref("event", a) : a \in ToSet(c.events)}
                \cup {Ref("evidence", e) : e \in ToSet(c.evidence)}
                \cup {Ref("mitre", t) : t \in c.techniques}

Size(c) == c.timeline + Len(c.events) + Len(c.alerts) + Len(c.evidence)
             + Cardinality(c.techniques)

Latest(s, n) == SubSeq(s, Max({1, Len(s) - n + 1}), Len(s))
DropOldest(s, n) == SubSeq(s, n + 1, Len(s))

\* Every alert comes with its event and one line of the timeline; of the
\* evidence, the newest first.
Read(alerts, evidence) ==
    LET c == [alerts |-> alerts, events |-> alerts, timeline |-> Len(alerts),
              techniques |-> {Technique[a] : a \in ToSet(alerts)},
              evidence |-> Reverse(Latest(evidence, ReadEvidence)),
              quality |-> IF alerts # <<>> THEN "corroborated_telemetry"
                          ELSE IF evidence # <<>> THEN "analyst_supplied" ELSE "report_only",
              truncated |-> FALSE, refs |-> {}]
    IN  [c EXCEPT !.refs = Items(c)]

\* What is popped from n entries to remove an excess of x; one entry stays.
Popped(x, n) == Min({x, Max({n - 1, 0})})

\* Mutant: the references of what was cut off stay citable.
KeepRefs(c, trimmed) == [trimmed EXCEPT !.refs = c.refs]
Recite(c, trimmed) == [trimmed EXCEPT !.refs = Items(trimmed)]

\* Cut to the newest items, then pop from the timeline, the events, the
\* alerts and the evidence until the context fits; the techniques stay.
EnforceSize(c) ==
    LET k == [c EXCEPT !.truncated = TRUE,
                       !.timeline = Min({@, KeepItems}),
                       !.alerts = Latest(@, KeepItems),
                       !.events = Latest(@, KeepItems),
                       !.evidence = SubSeq(@, 1, Min({Len(@), KeepEvidence}))]
        x0 == Max({0, Size(k) - MaxSize})
        t == Popped(x0, k.timeline)
        e == Popped(x0 - t, Len(k.events))
        a == Popped(x0 - t - e, Len(k.alerts))
        v == Popped(x0 - t - e - a, Len(k.evidence))
        trimmed == [k EXCEPT !.timeline = @ - t,
                             !.events = DropOldest(@, e),
                             !.alerts = DropOldest(@, a),
                             !.evidence = SubSeq(@, 1, Len(@) - v)]
    IN  IF Size(c) <= MaxSize THEN c
        ELSE IF Size(trimmed) > MaxSize THEN NoContext ELSE Recite(c, trimmed)

-----------------------------------------------------------------------------
\* A node of the graph: it leaves everything but its run alone.
Node(k, from, to) ==
    /\ pc[k] = from
    /\ pc' = [pc EXCEPT ![k] = to]
    /\ UNCHANGED <<incident, requests, hash, entry>>

\* The worker's exception handler: the transaction is rolled back and the row
\* says "failed".
Abort(k) ==
    /\ pc' = [pc EXCEPT ![k] = "failed"]
    /\ pending' = [pending EXCEPT ![k] = NothingPending]
    /\ out' = [out EXCEPT ![k] = NoOutput]
    /\ UNCHANGED <<incident, requests, hash, entry, ctx, decided, done, saved,
                   denied, disabled, revoked, audit>>

Claim(k) ==
    /\ Cardinality({j \in Runs : entry[j] = "graph" /\ pc[j] \in Nodes}) < Workers
    /\ Node(k, "queued", "load")
    /\ UNCHANGED <<local, saved, world>>

\* The alerts are read, then the evidence, in statements of their own; the
\* context is committed before the provider is asked.
LoadAlerts(k) ==
    /\ pc[k] = "load" /\ ctx[k] = NoContext
    /\ ctx' = [ctx EXCEPT ![k] = Read(linked, <<>>)]
    /\ UNCHANGED <<incident, requests, pc, hash, entry, out, decided, done, saved, world>>

LoadEvidence(k) ==
    LET c == EnforceSize(Read(ctx[k].alerts, attached)) IN
    /\ pc[k] = "load" /\ ctx[k] # NoContext
    /\ \/ c = NoContext /\ Abort(k)
       \/ /\ c # NoContext /\ Node(k, "load", "evidence")
          /\ ctx' = [ctx EXCEPT ![k] = c]
          /\ UNCHANGED <<out, decided, done, saved, world>>

\* What assess_network_evidence reports for a context.
NetworkRefs(c) == {Ref("evidence", e) : e \in ToSet(c.evidence) \cap Exposed}
NetworkConfidence == 60

Cap(c, x) ==
    CASE c.quality = "report_only" -> Min({x, 50})
      [] c.quality = "analyst_supplied" -> Min({x, 65})
      [] OTHER -> x

\* What the provider may cite: anything that is in the incident, whether the
\* context shows it or not, or a reference it made up.
Citable == {Ref(kind, x) : kind \in CitedKinds \cap {"alert", "event"}, x \in ToSet(linked)}
             \cup {Ref(kind, x) : kind \in CitedKinds \cap {"evidence"}, x \in ToSet(attached)}
             \cup {Ref(kind, "row") : kind \in CitedKinds \cap {"incident", "unknown"}}

EvidenceAnalysis(k) ==
    /\ Node(k, "evidence", "risk")
    /\ \E found \in {{}} \cup {{ref} : ref \in Citable}, x \in Confidences :
          LET confidences == (IF found = {} THEN {} ELSE {x}) \cup
                             (IF NetworkRefs(ctx[k]) = {} THEN {} ELSE {NetworkConfidence})
          IN  out' = [out EXCEPT ![k].cited = found \cup NetworkRefs(ctx[k]),
                                 ![k].top = Cap(ctx[k], Max(confidences \cup {0}))]
    /\ UNCHANGED <<ctx, decided, done, saved, world>>

\* The severity named may disagree with the bucket of the score.
RiskAnalysis(k) ==
    /\ Node(k, "risk", "narrative")
    /\ \E agrees \in BOOLEAN : out' = [out EXCEPT ![k].sound = agrees]
    /\ UNCHANGED <<ctx, decided, done, saved, world>>

Narrative(k) ==
    /\ Node(k, "narrative", "recommend")
    /\ \E x \in Confidences :
          out' = [out EXCEPT ![k].top = Max({@, Cap(ctx[k], x)})]
    /\ UNCHANGED <<ctx, decided, done, saved, world>>

\* Mutant: the plan of the answer is passed on.
RecommendKeepsPlan(k) ==
    /\ Node(k, "recommend", "validate")
    /\ \E ref \in Citable, plan \in Plans :
          out' = [out EXCEPT ![k].cited = @ \cup {ref} \cup NetworkRefs(ctx[k]),
                             ![k].plan = plan]
    /\ UNCHANGED <<ctx, decided, done, saved, world>>

\* The set is built anew from recommendations alone: an action plan in the
\* answer is dropped.
Recommend(k) ==
    /\ Node(k, "recommend", "validate")
    /\ \E ref \in Citable :
          out' = [out EXCEPT ![k].cited = @ \cup {ref} \cup NetworkRefs(ctx[k])]
    /\ UNCHANGED <<ctx, decided, done, saved, world>>

\* No provider is configured, or one that is unknown.
NoProvider(k) ==
    /\ pc[k] = "load" /\ ctx[k] = NoContext
    /\ Abort(k)

\* Any call of the provider may fail: disabled, quota, transport, a malformed
\* answer.
ProviderFails(k) ==
    /\ pc[k] \in {"evidence", "risk", "narrative", "recommend"}
    /\ Abort(k)

Validate(k) ==
    LET valid == out[k].sound /\ out[k].cited \subseteq ctx[k].refs IN
    /\ pc[k] = "validate"
    /\ \/ valid /\ Node(k, "validate", "gate") /\ UNCHANGED <<local, saved, world>>
       \/ ~valid /\ Abort(k)
-----------------------------------------------------------------------------
\* Whom the events left in a context and the incident's row are about.
Entities(c) == Primary \cup {AlertUser[a] : a \in ToSet(c.events)}
                       \cup {AlertIp[a] : a \in ToSet(c.events)}

PolicyGate(k) ==
    /\ Node(k, "gate", "execute")
    /\ decided' = [decided EXCEPT ![k] =
          [i \in DOMAIN out[k].plan |->
              [action |-> out[k].plan[i],
               verdict |-> Evaluate(out[k].plan[i], Entities(ctx[k]), ctx[k].refs)]]]
    /\ UNCHANGED <<ctx, out, done, saved, world>>

\* The executor strips the target of an address, and looks a user up exactly
\* as written.
Key(a) == <<a.name, IF a.spelling = "padded" THEN "plain" ELSE a.spelling>>
Found(a) == a.name \in Users /\ a.spelling = "plain"
Active(k, u) == u \notin (disabled \cup pending[k].disabled)

Outcome(a, status) == [action |-> a, status |-> status, was |-> TRUE, verified |-> FALSE]
Report(k, o) == done' = [done EXCEPT ![k] = Append(@, o)]
Log(k, i, outcome) == pending[k].audit \cup {<<k, i, outcome>>}

\* The next action of the list.  A block is in Redis at once; accounts,
\* sessions and the audit rows wait for the transaction to commit.
Execute(k) ==
    LET i == Len(done[k]) + 1
        d == decided[k][i]
        a == d.action
        works == \/ a.type = "block_ip"
                 \/ a.type \in {"revoke_sessions", "disable_user"} /\ Found(a)
        skip(status) == Report(k, Outcome(a, status)) /\ UNCHANGED <<denied, pending>>
        fail == /\ Report(k, Outcome(a, "failed"))
                /\ pending' = [pending EXCEPT ![k].audit = Log(k, i, "failed")]
                /\ UNCHANGED denied
        succeed ==
            /\ Report(k, [Outcome(a, "executed") EXCEPT !.was = Active(k, a.name)])
            /\ denied' = IF a.type = "block_ip" THEN denied \cup {Key(a)} ELSE denied
            /\ pending' = [pending EXCEPT
                  ![k].revoked = IF a.type # "block_ip" THEN @ \cup {a.name} ELSE @,
                  ![k].disabled = IF a.type = "disable_user" THEN @ \cup {a.name} ELSE @,
                  ![k].audit = Log(k, i, "succeeded")]
    IN  /\ pc[k] = "execute" /\ i <= Len(decided[k])
        /\ \/ d.verdict = Denied /\ skip("denied")
           \/ d.verdict = ForHuman /\ skip("pending_approval")
           \/ d.verdict = Cleared /\ works /\ succeed
           \/ d.verdict = Cleared /\ (a.type = "block_ip" \/ ~works) /\ fail
        /\ UNCHANGED <<incident, requests, pc, hash, entry, ctx, out, decided, saved,
                       disabled, revoked, audit>>

\* A block is looked up under the target as it was proposed.
Verified(k, o) ==
    CASE o.action.type = "block_ip" -> <<o.action.name, o.action.spelling>> \in denied
      [] o.action.type = "disable_user" -> Found(o.action) /\ ~Active(k, o.action.name)
      [] OTHER -> TRUE

AllExecuted(k) ==
    /\ Len(done[k]) = Len(decided[k])
    /\ Node(k, "execute", IF entry[k] = "executor" THEN "commit" ELSE "verify")
    /\ UNCHANGED <<local, saved, world>>

VerifyActions(k) ==
    /\ Node(k, "verify", IF entry[k] = "graph" THEN "persist" ELSE "commit")
    /\ done' = [done EXCEPT ![k] = [i \in DOMAIN done[k] |->
          LET o == done[k][i] IN
          [o EXCEPT !.verified = o.status = "executed" /\ Verified(k, o)]]]
    /\ UNCHANGED <<ctx, out, decided, saved, world>>

\* What a commit makes of the world, and a rollback of the transaction.
CommitPending(k) ==
    /\ disabled' = (disabled \cup pending[k].disabled) \ pending[k].restored
    /\ revoked' = revoked \cup pending[k].revoked
    /\ audit' = audit \cup pending[k].audit
    /\ pending' = [pending EXCEPT ![k] = NothingPending]
    /\ UNCHANGED denied

\* Mutant: the run completes and its result is not stored.
PersistWithoutResult(k) ==
    /\ Node(k, "persist", "completed")
    /\ out' = [out EXCEPT ![k] = NoOutput]
    /\ CommitPending(k)
    /\ UNCHANGED <<ctx, decided, done, saved>>

Persist(k) ==
    /\ Node(k, "persist", "completed")
    /\ saved' = [saved EXCEPT ![k] = [cited |-> out[k].cited, top |-> out[k].top]]
    /\ out' = [out EXCEPT ![k] = NoOutput]
    /\ CommitPending(k)
    /\ UNCHANGED <<ctx, decided, done>>

\* Mutant: an exception after the commit marks the row as failed.
PersistFailsLate(k) == pc[k] \in {"persist", "completed"} /\ Abort(k)

PersistFails(k) == pc[k] = "persist" /\ Abort(k)
-----------------------------------------------------------------------------
\* Callers of their own: one drives the gate, the executor and the verification
\* with a context and a plan it brings, one hands approved actions straight to
\* the executor.  They commit or roll back, and may undo later.
DriveNodes(k) ==
    LET c == EnforceSize(Read(linked, attached)) IN
    /\ entry[k] = "nodes" /\ c # NoContext
    /\ Node(k, "absent", "gate")
    /\ ctx' = [ctx EXCEPT ![k] = c]
    /\ \E plan \in Plans : out' = [out EXCEPT ![k].plan = plan]
    /\ UNCHANGED <<decided, done, saved, world>>

DriveExecutor(k) ==
    /\ entry[k] = "executor"
    /\ Node(k, "absent", "execute")
    /\ \E plan \in Plans : decided' = [decided EXCEPT ![k] =
          [i \in DOMAIN plan |-> [action |-> plan[i], verdict |-> Cleared]]]
    /\ UNCHANGED <<ctx, out, done, saved, world>>

Commit(k) ==
    /\ Node(k, "commit", "ended")
    /\ CommitPending(k)
    /\ UNCHANGED <<local, saved>>

RollBack(k) ==
    /\ Node(k, "commit", "ended")
    /\ pending' = [pending EXCEPT ![k] = NothingPending]
    /\ UNCHANGED <<local, saved, denied, disabled, revoked, audit>>

\* A block is deleted at once; an account gets back the flag it had; revoked
\* sessions stay revoked.
Undo(k, i) ==
    LET a == done[k][i].action IN
    /\ done[k][i].status = "executed" /\ a.type # "revoke_sessions"
    /\ Node(k, "ended", "commit")
    /\ done' = [done EXCEPT ![k][i].status = "reverted"]
    /\ denied' = IF a.type = "block_ip" THEN denied \ {Key(a)} ELSE denied
    /\ pending' = [pending EXCEPT
          ![k].disabled = IF a.type = "disable_user" /\ ~done[k][i].was THEN {a.name} ELSE {},
          ![k].restored = IF a.type = "disable_user" /\ done[k][i].was THEN {a.name} ELSE {},
          ![k].audit = Log(k, i, "reverted")]
    /\ UNCHANGED <<ctx, out, decided, saved, disabled, revoked, audit>>

\* The time to live of a block.
Expire(key) ==
    /\ key \in denied
    /\ denied' = denied \ {key}
    /\ UNCHANGED <<incident, requests, pc, hash, entry, local, saved, disabled, revoked,
                   pending, audit>>
-----------------------------------------------------------------------------
RunStep(k) ==
    \/ Claim(k) \/ LoadAlerts(k) \/ LoadEvidence(k) \/ EvidenceAnalysis(k)
    \/ RiskAnalysis(k) \/ Narrative(k) \/ Recommend(k) \/ NoProvider(k) \/ ProviderFails(k)
    \/ Validate(k) \/ PolicyGate(k)
    \/ Execute(k) \/ AllExecuted(k) \/ VerifyActions(k) \/ Persist(k) \/ PersistFails(k)

CallerStep(k) ==
    \/ DriveNodes(k) \/ DriveExecutor(k) \/ Commit(k) \/ RollBack(k)
    \/ \E i \in DOMAIN done[k] : Undo(k, i)

Next ==
    \/ \E a \in Alerts : LinkAlert(a)
    \/ \E e \in Evidence : CountEvidence(e) \/ AttachEvidence(e)
    \/ \E q \in Requests : ReadIncident(q) \/ HashEvidence(q) \/ Join(q)
    \/ \E k \in Runs : RunStep(k) \/ CallerStep(k)
    \/ \E key \in denied : Expire(key)

Spec == Init /\ [][Next]_vars
-----------------------------------------------------------------------------
\* The variables have their types, and a run past its first node has a
\* context.
TypeOK ==
    /\ ToSet(linked) \subseteq Alerts /\ ToSet(attached) \subseteq Evidence
    /\ counted \subseteq Evidence \ ToSet(attached)
    /\ \A q \in Requests :
          /\ rpc[q] \in {"idle", "hashing", "hashed", "answered"}
          /\ (rpc[q] = "answered") <=> (answer[q] # NoRun)
          /\ asked[q].alerts \cup seen[q].alerts \subseteq Alerts
          /\ asked[q].evidence \cup seen[q].evidence \subseteq Evidence
    /\ \A k \in Runs :
          /\ pc[k] \in Nodes \cup {"absent", "queued", "completed", "failed", "commit", "ended"}
          /\ entry[k] \in {"graph", "nodes", "executor"}
          /\ (pc[k] = "completed") <=> (saved[k] # NoResult)
          /\ pc[k] \in Nodes \ {"load"} /\ entry[k] # "executor" => ctx[k] # NoContext
          /\ Len(done[k]) <= Len(decided[k])
    /\ disabled \cup revoked \subseteq Users
    /\ denied \subseteq (Users \cup Ips) \X {"plain", "upper"}

\* To a client that polls, whatever a run computes is the life of a job, the one that
\* `InvestigationJobs` gives it; callers of their own show no row to anybody.
RowStatus == [k \in Runs |-> IF entry[k] # "graph" THEN "absent"
                            ELSE IF pc[k] \in Nodes THEN "running" ELSE pc[k]]
Lifecycle == INSTANCE InvestigationLifecycle
    WITH Jobs <- Runs, status <- RowStatus, disowned <- {}
LifecycleSpec == Lifecycle!Spec

\* A completed investigation cites only what its stored context shows, and its
\* confidence stays under the ceiling for the evidence the context holds.  The
\* citations were checked long after the context was cut to its size, against
\* references the cut had to recompute.
ResultIsWarranted ==
    \A k \in Runs : saved[k] # NoResult =>
        /\ saved[k].cited \subseteq Items(ctx[k])
        /\ ctx[k].alerts = <<>> => saved[k].top <= (IF ctx[k].evidence = <<>> THEN 50 ELSE 65)

\* Whoever asks for an investigation is answered by one that looked at all the
\* incident held when they asked, whether it was created for them, joined while
\* it ran, or had completed before; unless the context was cut, or there was
\* more evidence than a context reads.
AnswerCoversRequest ==
    \A q \in Requests : answer[q] # NoRun /\ saved[answer[q]] # NoResult =>
        LET c == ctx[answer[q]] IN
        \/ c.truncated
        \/ /\ asked[q].alerts \subseteq ToSet(c.alerts)
           /\ \/ asked[q].evidence \subseteq ToSet(c.evidence)
              \/ Len(c.evidence) = ReadEvidence

\* An investigation itself does nothing to anybody; and what the gate lets
\* through concerns unprotected entities of the incident only and disables
\* nobody: every other block, revocation or disabled account was handed to the
\* executor by a caller that approved it.
OnlyWarrantedEffects ==
    LET approved == UNION {{d.action.name : d \in ToSet(decided[k])} :
                           k \in {x \in Runs : entry[x] = "executor"}}
        concerned == Primary \cup {AlertUser[a] : a \in ToSet(linked)}
                             \cup {AlertIp[a] : a \in ToSet(linked)}
    IN  /\ \A k \in Runs : entry[k] = "graph" => done[k] = <<>>
        /\ {key[1] : key \in denied} \cup revoked \subseteq approved \cup (concerned \ Protected)
        /\ disabled \subseteq approved
=============================================================================
