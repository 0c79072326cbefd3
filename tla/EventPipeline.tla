--------------------------- MODULE EventPipeline ----------------------------
(***************************************************************************)
(* Ingestion of events by concurrent requests.  A request stores its       *)
(* events one by one in one transaction, raises alerts, files them under   *)
(* incidents while it holds the locks of the identities concerned, and     *)
(* commits; then it asks for automatic investigations, announces what      *)
(* changed and writes its audit row.  Transactions run at READ COMMITTED:  *)
(* every step reads what is committed and what the request itself wrote.   *)
(***************************************************************************)
EXTENDS CorrelationRules

CONSTANTS
    Requests,           \* ingest requests
    Workloads,          \* what the requests carry: a kind, "single", "bulk" or
                        \* "findings", and a sequence of events
    Incidents,          \* incident ids
    Nobody, NoAlert,
    MinSeverity,        \* rank an incident needs for an automatic investigation
    ManualIds, Manual,  \* what analysts file by hand: user, ip, time and score
    FindingWindow       \* how long an open finding absorbs later reports

ASSUME NamesAssumption ==
    /\ Nobody \notin Requests
    /\ \A w \in Workloads, r \in Requests : w[r].batch \in Seq(Events)

VARIABLES
    load,       \* the workload of this behaviour
    pc,         \* where each request is
    queue,      \* the events it still has to store
    todo,       \* alerts of its current event that await correlation
    work,       \* the alert at hand and what has been decided about it
    due,        \* incidents it touched: dispatch and announcements still owed
    owner,      \* the request that inserted each event row
    committed,  \* requests whose transaction is committed
    alerts, links,
    row,        \* committed incident rows
    draft,      \* the uncommitted version of a row, and who wrote it
    lockOf,     \* advisory locks
    cooldown,   \* incidents whose dispatch cooldown key is in Redis
    jobs,       \* incidents an investigation was requested for
    announced,  \* incidents published to the browsers
    earlier     \* history: the requests committed before each one began

tx == <<load, pc, queue, todo, work, due>>
db == <<owner, committed, alerts, links, row, draft>>
outside == <<cooldown, jobs, announced>>
vars == <<tx, db, lockOf, outside, earlier>>

Running == {"store", "relate", "lock", "find", "link", "save", "commit"}
After == {"publish", "dispatch", "request", "audit"}
Ended == {"done", "failed", "crashed"}
LockNames ==
    {<<"ip", Ip([event |-> e])>> : e \in Events}
        \cup {<<"user", User([event |-> e])>> : e \in Events}
        \cup {<<"finding", e>> : e \in Events}
        \cup {<<"finding", EventData[e].finding>> : e \in Events}

\* An incident row, or none; an uncommitted version and its writer, or none.
Columns == {"key", "timeline", "user", "ip", "score", "first", "last"}
NoIncident == [key |-> <<>>]
NoDraft == [by |-> Nobody, rec |-> NoIncident]

IdleWork == [alert |-> NoAlert, cand |-> {}, key |-> <<>>, wanted |-> {},
             inc |-> Nobody, loaded |-> NoIncident, missing |-> {}, rec |-> NoIncident]

Init ==
    /\ load \in Workloads
    /\ pc = [r \in Requests |-> "idle"]
    /\ queue = [r \in Requests |-> <<>>]
    /\ todo = [r \in Requests |-> {}]
    /\ work = [r \in Requests |-> IdleWork]
    /\ due = [r \in Requests |-> [dispatch |-> {}, publish |-> {}]]
    /\ owner = [e \in Events |-> Nobody]
    /\ committed = {} /\ alerts = {} /\ links = {}
    /\ row = [i \in Incidents |-> NoIncident]
    /\ draft = [i \in Incidents |-> NoDraft]
    /\ lockOf = [l \in LockNames |-> Nobody]
    /\ cooldown = {} /\ jobs = {} /\ announced = {}
    /\ earlier = [r \in Requests |-> {}]
-----------------------------------------------------------------------------
\* What a transaction sees.
SeesRow(r, by) == by \in committed \cup {r}
Visible(r) == {e \in Events : SeesRow(r, owner[e])}
SeenAlerts(r) == {a \in alerts : a.event \in Visible(r)}
SeenLinks(r, i) == {k.alert : k \in {m \in links : m.inc = i /\ SeesRow(r, m.by)}}
Version(r, i) == IF draft[i].by = r THEN draft[i].rec ELSE row[i]

\* Advisory locks are released when their transaction ends, however it ends.
Unlock(r) == lockOf' = [l \in LockNames |-> IF lockOf[l] = r THEN Nobody ELSE lockOf[l]]

\* The rows and row locks of a transaction that does not commit vanish.
KeepEvents(r) == UNCHANGED <<owner, alerts>>   \* mutant
DropEvents(r) ==
    /\ owner' = [e \in Events |-> IF owner[e] = r THEN Nobody ELSE owner[e]]
    /\ alerts' = {a \in alerts : owner[a.event] # r}

Rollback(r) ==
    /\ DropEvents(r) /\ Unlock(r)
    /\ links' = {k \in links : k.by # r}
    /\ draft' = [i \in Incidents |->
                    IF draft[i].by = r THEN NoDraft ELSE draft[i]]
    /\ UNCHANGED <<committed, row>>

Fail(r) ==
    /\ pc' = [pc EXCEPT ![r] = "failed"]
    /\ Rollback(r)
    /\ UNCHANGED <<load, queue, todo, work, due, outside, earlier>>
-----------------------------------------------------------------------------
\* A request arrives.  The findings endpoint first drops the findings it has
\* seen, in the batch or in the database, and keeps the others in their order.
Begin(r) ==
    LET batch == load[r].batch
        seen(i) == owner[batch[i]] \in committed \/ \E j \in 1..i - 1 : batch[j] = batch[i]
        new == {i \in DOMAIN batch : load[r].kind = "findings" => ~seen(i)}
    IN  /\ pc[r] = "idle" /\ batch # <<>>
        /\ \E f \in [1..Cardinality(new) -> new] :
              /\ \A i, j \in DOMAIN f : i < j => f[i] < f[j]
              /\ queue' = [queue EXCEPT ![r] = [i \in DOMAIN f |-> batch[f[i]]]]
        /\ pc' = [pc EXCEPT ![r] = IF new = {} THEN "audit" ELSE "store"]
        /\ earlier' = [earlier EXCEPT ![r] = committed]
        /\ UNCHANGED <<load, todo, work, due, db, lockOf, outside>>

\* Insert the next event and run the rules on it.  The event id is unique:
\* an uncommitted twin makes the insert wait, a committed one makes it fail.
Store(r) ==
    LET e == Head(queue[r])
        raised == AlertsFor(Visible(r) \cup {e}, e)
    IN  /\ pc[r] = "store"
        /\ IF SeesRow(r, owner[e]) THEN Fail(r)
           ELSE /\ owner[e] = Nobody
                /\ owner' = [owner EXCEPT ![e] = r]
                /\ alerts' = alerts \cup raised
                /\ todo' = [todo EXCEPT ![r] = raised]
                /\ queue' = [queue EXCEPT ![r] = Tail(@)]
                /\ pc' = [pc EXCEPT ![r] = "relate"]
                /\ UNCHANGED <<load, work, due, committed, links, row, draft, lockOf,
                               outside, earlier>>

\* Mutant: a batch announces its incidents as it goes.
AnnounceEachEvent(r) ==
    /\ pc[r] = "relate" /\ todo[r] = {}
    /\ pc' = [pc EXCEPT ![r] = IF queue[r] = <<>> THEN "commit" ELSE "store"]
    /\ announced' = announced \cup due[r].publish
    /\ UNCHANGED <<load, queue, todo, work, due, db, lockOf, cooldown, jobs, earlier>>

\* Every alert of the event is dealt with: the next event, or the commit.
NextEvent(r) ==
    /\ pc[r] = "relate" /\ todo[r] = {}
    /\ pc' = [pc EXCEPT ![r] = IF queue[r] = <<>> THEN "commit" ELSE "store"]
    /\ UNCHANGED <<load, queue, todo, work, due, db, lockOf, outside, earlier>>

\* Alerts are dealt with in the order their rules ran in.
Position(a) == CHOOSE i \in DOMAIN Registry : Registry[i] = a.rule
NextAlert(A) == CHOOSE a \in A : \A b \in A : Position(a) <= Position(b)

\* Take the next alert and read what it is related to;
\* no lock is held yet for the identity it turns out to concern.
Relate(r) ==
    LET a == NextAlert(todo[r])
        cand == Candidates(Related(SeenAlerts(r), a))
        finding == EventData[a.event].finding
        file(set, key) ==
            /\ work' = [work EXCEPT ![r] = [IdleWork EXCEPT !.alert = a, !.cand = set,
                                                !.key = key, !.wanted = LocksOf(key)]]
            /\ pc' = [pc EXCEPT ![r] = "lock"]
    IN  /\ pc[r] = "relate" /\ todo[r] # {}
        /\ todo' = [todo EXCEPT ![r] = @ \ {a}]
        /\ \/ a.rule = "cloud_finding"
              /\ file({a}, FindingKey(IF finding = None THEN a.event ELSE finding))
           \/ /\ a.rule \in CredentialRules /\ cand # {}
              /\ \E u \in PrimaryUsernames(cand), p \in PrimaryIps(cand) :
                    file(cand, CredentialKey(u, p))
           \/ /\ a.rule # "cloud_finding" /\ (a.rule \in CredentialRules => cand = {})
              /\ UNCHANGED <<pc, work>>
        /\ UNCHANGED <<load, queue, due, db, lockOf, outside, earlier>>

\* Advisory locks are kept until the transaction ends.
Lock(r) ==
    LET l == NextLock(work[r].wanted) IN
    /\ pc[r] = "lock"
    /\ IF work[r].wanted = {}
       THEN /\ pc' = [pc EXCEPT ![r] = "find"]
            /\ UNCHANGED <<work, lockOf>>
       ELSE /\ lockOf[l] \in {Nobody, r}
            /\ lockOf' = [lockOf EXCEPT ![l] = r]
            /\ work' = [work EXCEPT ![r].wanted = @ \ {l}]
            /\ UNCHANGED pc
    /\ UNCHANGED <<load, queue, todo, due, db, outside, earlier>>

\* The last_seen an incident must have to take the alert in.
Window(a) ==
    IF a.rule = "cloud_finding" THEN a.first - FindingWindow .. Last(a) + 1
    ELSE Last(a) - MergeWindow .. Last(a)

Matches(rec, key, a) ==
    /\ \/ rec.key = key
       \/ key[1] = "credential" /\ key[2] # None /\ rec.user = key[2]
       \/ key[1] = "credential" /\ key[3] # None /\ rec.ip = key[3]
    /\ rec.last \in Window(a)

NewIncident(w) ==
    [key |-> w.key, timeline |-> {},
     user |-> IF w.key[1] = "finding" THEN User(w.alert) ELSE w.key[2],
     ip |-> IF w.key[1] = "finding" THEN Ip(w.alert) ELSE w.key[3],
     score |-> IF w.key[1] = "finding" THEN FindingFloor(Severity(w.alert)) ELSE 0,
     first |-> Earliest({a.first : a \in w.cand}),
     last |-> Latest({Last(a) : a \in w.cand})]

\* The open incident to merge into, the most recent if there are several,
\* or a new one; and which of its alert links are already there.
Find(r) ==
    LET w == work[r]
        open == {i \in Incidents : /\ Version(r, i) # NoIncident
                                   /\ Matches(Version(r, i), w.key, w.alert)}
        newest == {i \in open : \A j \in open : Version(r, j).last <= Version(r, i).last}
        take(i, rec) ==
            /\ work' = [work EXCEPT ![r].inc = i, ![r].loaded = rec,
                                    ![r].missing = w.cand \ SeenLinks(r, i)]
            /\ due' = [due EXCEPT ![r].publish = @ \cup {i}]
            /\ pc' = [pc EXCEPT ![r] = "link"]
    IN  /\ pc[r] = "find"
        /\ \/ \E i \in newest : take(i, Version(r, i)) /\ UNCHANGED draft
           \/ /\ open = {}
              /\ \E i \in Incidents \ ManualIds :
                    /\ row[i] = NoIncident /\ draft[i] = NoDraft
                    /\ draft' = [draft EXCEPT ![i] = [by |-> r, rec |-> NewIncident(w)]]
                    /\ take(i, NewIncident(w))
        /\ UNCHANGED <<load, queue, todo, owner, committed, alerts, links, row, lockOf,
                       outside, earlier>>

\* What the incident becomes, from every alert linked to it.
Recomputed(w, all) ==
    LET credential == w.key[1] = "credential"
        keep(new, old) == IF credential /\ new # None THEN new ELSE old
    IN  [key |-> w.key, timeline |-> all,
         user |-> keep(w.key[2], w.loaded.user),
         ip |-> keep(w.key[3], w.loaded.ip),
         score |-> IF credential THEN Score(all) ELSE FindingScore(all),
         first |-> IF credential THEN Earliest({a.first : a \in all}) ELSE w.loaded.first,
         last |-> Latest({Last(a) : a \in all})]

\* Insert the missing links and read all of the incident's alerts again.  A
\* link another transaction has inserted makes it wait, then fail.
Link(r) ==
    LET w == work[r]
        clash == {k \in links : k.inc = w.inc /\ k.alert \in w.missing}
    IN  /\ pc[r] = "link"
        /\ IF \E k \in clash : k.by \in committed THEN Fail(r)
           ELSE /\ clash = {}
                /\ links' = links \cup
                       {[inc |-> w.inc, alert |-> a, by |-> r] : a \in w.missing}
                /\ work' = [work EXCEPT ![r].rec =
                                Recomputed(w, SeenLinks(r, w.inc) \cup w.missing)]
                /\ pc' = [pc EXCEPT ![r] = "save"]
                /\ UNCHANGED <<load, queue, todo, due, owner, committed, alerts, row, draft,
                               lockOf, outside, earlier>>

\* Write the columns that differ from what was loaded, once no other
\* transaction holds the row.
Save(r) ==
    LET w == work[r]
        base == Version(r, w.inc)
        written == [f \in Columns |-> IF w.rec[f] # w.loaded[f] THEN w.rec[f] ELSE base[f]]
    IN  /\ pc[r] = "save"
        /\ draft[w.inc].by \in {r, Nobody}
        /\ draft' = [draft EXCEPT ![w.inc] = [by |-> r, rec |-> written]]
        /\ work' = [work EXCEPT ![r] = IdleWork]
        /\ pc' = [pc EXCEPT ![r] = "relate"]
        /\ UNCHANGED <<load, queue, todo, due, owner, committed, alerts, links, row, lockOf,
                       outside, earlier>>
-----------------------------------------------------------------------------
\* No code path gives an incident a status other than "open".
ShouldTrigger(rec) == SeverityRank(rec.score) >= MinSeverity

\* A single event is announced before its dispatch, a batch after it.
Commit(r) ==
    /\ pc[r] = "commit"
    /\ committed' = committed \cup {r}
    /\ row' = [i \in Incidents |-> IF i \in due[r].publish THEN Version(r, i) ELSE row[i]]
    /\ draft' = [i \in Incidents |-> IF i \in due[r].publish THEN NoDraft ELSE draft[i]]
    /\ Unlock(r)
    /\ due' = [due EXCEPT ![r].dispatch =
                    {i \in due[r].publish : ShouldTrigger(Version(r, i))}]
    /\ pc' = [pc EXCEPT ![r] = IF load[r].kind = "single" THEN "publish" ELSE "dispatch"]
    /\ UNCHANGED <<load, queue, todo, work, owner, alerts, links, outside, earlier>>

\* A failure to publish is logged and ends the announcements of the request.
Publish(r) ==
    /\ pc[r] = "publish"
    /\ \E sent \in SUBSET due[r].publish : announced' = announced \cup sent
    /\ pc' = [pc EXCEPT ![r] = IF load[r].kind = "single" THEN "dispatch" ELSE "audit"]
    /\ UNCHANGED <<load, queue, todo, work, due, db, lockOf, cooldown, jobs, earlier>>

\* Claim the cooldown key of the next incident, or go on when it is held.
Dispatch(r) ==
    /\ pc[r] = "dispatch"
    /\ IF due[r].dispatch = {}
       THEN /\ pc' = [pc EXCEPT ![r] = IF load[r].kind = "single" THEN "audit" ELSE "publish"]
            /\ UNCHANGED <<due, work, cooldown>>
       ELSE \E i \in due[r].dispatch :
                /\ due' = [due EXCEPT ![r].dispatch = @ \ {i}]
                /\ cooldown' = cooldown \cup {i}
                /\ IF i \in cooldown THEN UNCHANGED <<pc, work>>
                   ELSE /\ pc' = [pc EXCEPT ![r] = "request"]
                        /\ work' = [work EXCEPT ![r].inc = i]
    /\ UNCHANGED <<load, queue, todo, db, lockOf, jobs, announced, earlier>>

\* Mutant: a failed request keeps the key.
KeepCooldown(r) ==
    /\ pc[r] = "request"
    /\ \/ jobs' = jobs \cup {work[r].inc}
       \/ UNCHANGED jobs
    /\ pc' = [pc EXCEPT ![r] = "dispatch"]
    /\ UNCHANGED <<load, queue, todo, work, due, db, lockOf, cooldown, announced, earlier>>

\* The investigation is requested, or the request fails and the key is freed.
RequestInvestigation(r) ==
    /\ pc[r] = "request"
    /\ \/ jobs' = jobs \cup {work[r].inc} /\ UNCHANGED cooldown
       \/ cooldown' = cooldown \ {work[r].inc} /\ UNCHANGED jobs
    /\ pc' = [pc EXCEPT ![r] = "dispatch"]
    /\ UNCHANGED <<load, queue, todo, work, due, db, lockOf, announced, earlier>>

\* The audit row and its commit, after which the client has its answer.
Audit(r) ==
    /\ pc[r] = "audit"
    /\ pc' = [pc EXCEPT ![r] = "done"]
    /\ UNCHANGED <<load, queue, todo, work, due, db, lockOf, outside, earlier>>
-----------------------------------------------------------------------------
\* The running request that r waits for: an event id, a lock, a link or a row.
WaitsFor(r) ==
    LET w == work[r] IN
    CASE pc[r] = "store" -> {owner[Head(queue[r])]}
      [] pc[r] = "lock" /\ w.wanted # {} -> {lockOf[NextLock(w.wanted)]}
      [] pc[r] = "link" -> {k.by : k \in {m \in links : m.inc = w.inc /\ m.alert \in w.missing}}
      [] pc[r] = "save" -> {draft[w.inc].by}
      [] OTHER -> {}

InCycle(r) ==
    \E path \in SUBSET (Requests \cap UNION {WaitsFor(q) : q \in Requests}) :
        /\ r \in path /\ path # {r}
        /\ \A q \in path : pc[q] \in Running /\ (WaitsFor(q) \cap path) \ {q} # {}

\* PostgreSQL breaks a cycle of waiting transactions by failing one of them.
Deadlock(r) == InCycle(r) /\ Fail(r)

\* The process dies: an open transaction is rolled back, the rest is lost.
Crash(r) ==
    /\ pc[r] \in Running \cup After
    /\ pc' = [pc EXCEPT ![r] = "crashed"]
    /\ IF r \in committed THEN UNCHANGED <<db, lockOf>> ELSE Rollback(r)
    /\ UNCHANGED <<load, queue, todo, work, due, outside, earlier>>

\* The cooldown key reaches its time to live.
Expire(i) ==
    /\ i \in cooldown
    /\ cooldown' = cooldown \ {i}
    /\ UNCHANGED <<tx, db, lockOf, jobs, announced, earlier>>

\* An analyst files an incident by hand, under a key of its own and no lock.
CreateManual(i, m) ==
    /\ i \in ManualIds /\ row[i] = NoIncident
    /\ row' = [row EXCEPT ![i] = [key |-> <<"manual", i, None>>, timeline |-> {},
                                  user |-> m.user, ip |-> m.ip, score |-> m.score,
                                  first |-> m.time, last |-> m.time]]
    /\ announced' = announced \cup {i}
    /\ UNCHANGED <<tx, owner, committed, alerts, links, draft, lockOf, cooldown, jobs, earlier>>

Step(r) ==
    \/ Begin(r) \/ Store(r) \/ NextEvent(r) \/ Relate(r) \/ Lock(r) \/ Find(r)
    \/ Link(r) \/ Save(r) \/ Commit(r) \/ Publish(r) \/ Dispatch(r)
    \/ RequestInvestigation(r) \/ Audit(r) \/ Deadlock(r)

Next ==
    \/ \E r \in Requests : Step(r) \/ Crash(r)
    \/ \E i \in Incidents : Expire(i) \/ \E m \in Manual : CreateManual(i, m)

Spec == Init /\ [][Next]_vars
-----------------------------------------------------------------------------
\* Every variable keeps its type through all the handlers of the pipeline.
TypeOK ==
    /\ pc \in [Requests -> {"idle"} \cup Running \cup After \cup Ended]
    /\ queue \in [Requests -> Seq(Events)]
    /\ \A r \in Requests : /\ todo[r] \subseteq Alert
                           /\ due[r].dispatch \cup due[r].publish \subseteq Incidents
    /\ owner \in [Events -> Requests \cup {Nobody}]
    /\ committed \subseteq Requests
    /\ alerts \subseteq Alert
    /\ links \subseteq [inc : Incidents, alert : Alert, by : Requests]
    /\ lockOf \in [LockNames -> Requests \cup {Nobody}]
    /\ cooldown \cup jobs \cup announced \subseteq Incidents

\* Concurrent ingests file one identity under one incident: a request opens
\* an incident only if none that it sees has the key and could have taken the
\* alert in, and nobody else is opening one under that key or moving one to it.
OneIncidentPerKey ==
    [][\A r \in Requests, i \in Incidents :
            draft[i] = NoDraft /\ row[i] = NoIncident /\ draft'[i].by = r
            => \A j \in Incidents \ {i} :
                    /\ Version(r, j).key = work[r].key
                       => Version(r, j).last \notin Window(work[r].alert)
                    /\ draft[j].by \notin {r, Nobody} /\ draft[j].rec.key = work[r].key
                       => row[j].key = work[r].key]_vars

\* Nothing is missed in sequence: a success after failures and an initial
\* access that was committed before the request of the success began, on the
\* same user or address and in the lookback, are linked to one incident.
NothingMissed ==
    \A r \in committed : \A a, b \in alerts :
        /\ owner[b.event] = r /\ b.rule = "login_after_failures"
        /\ owner[a.event] \in earlier[r] /\ a.rule \in InitialAccess
        /\ Last(a) \in Last(b) - Lookback .. Last(b)
        /\ \/ User(b) # None /\ User(a) = User(b)
           \/ Ip(b) # None /\ Ip(a) = Ip(b)
        => \E i \in Incidents : {a, b} \subseteq {k.alert : k \in {m \in links : m.inc = i}}

\* A batch is stored whole or not at all.
AllOrNothing ==
    \A r \in Requests :
        LET mine == {e \in Events : owner[e] = r} IN
        /\ r \in committed => queue[r] = <<>> /\ mine # {}
        /\ pc[r] \in Ended /\ r \notin committed => mine = {}

\* What leaves the database is about committed incidents only.
SideEffectsAfterCommit ==
    \A i \in announced \cup jobs \cup cooldown : row[i] # NoIncident

\* A cooldown key stands for an investigation that was requested, or is being
\* requested; a dispatch that failed leaves the incident free to try again.
CooldownIsEarned ==
    \A i \in cooldown :
        i \in jobs \/ \E r \in Requests : pc[r] \in {"request", "crashed"} /\ work[r].inc = i

\* The timeline of an incident holds every alert linked to it.
TimelineCoversLinks ==
    \A i \in Incidents : row[i] # NoIncident =>
        {k.alert : k \in {m \in links : m.inc = i /\ m.by \in committed}} \subseteq row[i].timeline
=============================================================================
