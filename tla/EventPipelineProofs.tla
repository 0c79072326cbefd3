------------------------- MODULE EventPipelineProofs --------------------------
(***************************************************************************)
(* What ingestion keeps for any events, requests, incidents and analysts.  *)
(*                                                                         *)
(* Batches are whole, side effects come after the commit, a cooldown key   *)
(* is earned, nobody opens an incident under a key somebody else is at, and*)
(* a compromise whose first half was committed before is not missed.       *)
(***************************************************************************)
EXTENDS EventPipeline, SequenceTheorems, FiniteSetTheorems, WellFoundedInduction, TLAPS

States == {"idle"} \cup Running \cup After \cup Ended
WorkFields == {"alert", "cand", "key", "wanted", "inc", "loaded", "missing", "rec"}

\* What the rules raise: an initial access has a source address.
Raised(a) == /\ a.rule \in Rules /\ a.event \in Events
             /\ a.rule \in InitialAccess => Ip(a) # None

Types ==
    /\ load \in Workloads
    /\ pc \in [Requests -> States]
    /\ queue \in [Requests -> Seq(Events)]
    /\ DOMAIN todo = Requests /\ \A r \in Requests : \A a \in todo[r] : Raised(a)
    /\ DOMAIN work = Requests /\ \A r \in Requests : DOMAIN work[r] = WorkFields
    /\ due \in [Requests -> [dispatch : SUBSET Incidents, publish : SUBSET Incidents]]
    /\ owner \in [Events -> Requests \cup {Nobody}]
    /\ committed \subseteq Requests
    /\ \A a \in alerts : Raised(a)
    /\ DOMAIN row = Incidents /\ DOMAIN draft = Incidents
    /\ lockOf \in [LockNames -> Requests \cup {Nobody}]
    /\ cooldown \cup jobs \cup announced \subseteq Incidents
    /\ earlier \in [Requests -> SUBSET Requests]
    /\ \A r \in Requests : /\ pc[r] \in {"link", "save", "request"} => work[r].inc \in Incidents
                           /\ pc[r] = "store" => queue[r] # <<>>

USE NamesAssumption

\* A function stays one between the same sets when a value of its range is put in.
LEMMA Put ==
    ASSUME NEW D, NEW R, NEW f \in [D -> R], NEW d, NEW e \in R
    PROVE  [f EXCEPT ![d] = e] \in [D -> R]
    OBVIOUS
-----------------------------------------------------------------------------
\* The rules raise alerts of the event at hand, and an initial access only for
\* an event with a source address (BruteForceRule, PasswordSprayRule).
LEMMA RulesRaise ==
    ASSUME NEW V, NEW e \in Events, NEW a \in AlertsFor(V, e)
    PROVE  Raised(a) /\ a.event = e
<1>1. PICK rule \in Rules :
        /\ Fires(rule, V, e)
        /\ a = [rule |-> rule, event |-> e,
                first |-> Earliest({EventData[f].time : f \in Basis(rule, V, e) \cup {e}})]
    BY DEF AlertsFor
<1>2. a.rule = rule /\ a.event = e
    BY <1>1
<1>3. rule \in InitialAccess => EventData[e].ip # None
    BY <1>1 DEF Fires, InitialAccess
<1> QED
    BY <1>1, <1>2, <1>3 DEF Raised, Ip

\* A batch that is filtered is a batch (ingest_asff).
LEMMA Filtered ==
    ASSUME NEW s \in Seq(Events), NEW P \in SUBSET DOMAIN s,
           NEW f \in [1..Cardinality(P) -> P]
    PROVE  /\ [i \in DOMAIN f |-> s[f[i]]] \in Seq(Events)
           /\ P # {} => [i \in DOMAIN f |-> s[f[i]]] # <<>>
<1>1. Len(s) \in Nat /\ DOMAIN s = 1..Len(s) /\ \A i \in DOMAIN s : s[i] \in Events
    BY LenProperties, ElementOfSeq
<1>2. IsFiniteSet(P) /\ Cardinality(P) \in Nat /\ (Cardinality(P) = 0 <=> P = {})
  <2>1. IsFiniteSet(1..Len(s))
      BY <1>1, FS_Interval
  <2>2. IsFiniteSet(P)
      BY <1>1, <2>1, FS_Subset
  <2> QED
      BY <2>2, FS_CardinalityType, FS_EmptySet
<1>3. [i \in DOMAIN f |-> s[f[i]]] \in [1..Cardinality(P) -> Events]
    BY <1>1
<1>4. [i \in DOMAIN f |-> s[f[i]]] \in Seq(Events)
    BY <1>2, <1>3, SeqDef
<1>5. Len([i \in DOMAIN f |-> s[f[i]]]) = Cardinality(P)
    BY <1>2, <1>3, <1>4, LenProperties
<1> QED
    BY <1>2, <1>4, <1>5, EmptySeq
\* The alert that is taken next is one of those that are left.
LEMMA NextIsOne ==
    ASSUME NEW A, A # {}, \A a \in A : a.rule \in Rules
    PROVE  NextAlert(A) \in A
<1>1. DOMAIN Registry = 1..7
    BY DEF Registry
<1>2. \A a \in A : Position(a) \in 1..7
    BY <1>1 DEF Position, Rules
<1>3. SUFFICES ASSUME \A a \in A : \E b \in A : Position(b) < Position(a) PROVE FALSE
    BY <1>2 DEF NextAlert
<1> DEFINE Least(n) == \A a \in A : Position(a) >= n
<1>4. Least(1)
    BY <1>2
<1>5. \A n \in 1..7 : Least(n) => Least(n + 1)
    BY <1>2, <1>3
<1> HIDE DEF Least
<1>6. Least(8)
    BY <1>4, <1>5
<1> QED
    BY <1>2, <1>6 DEF Least

\* A key that alerts are filed under: it has locks, and they are among those
\* there are (build_identity_lock_keys).
GoodKey(k) == k # <<>> /\ LocksOf(k) # {} /\ LocksOf(k) \subseteq LockNames

LEMMA FindingKeyIsGood ==
    ASSUME NEW a, Raised(a)
    PROVE  GoodKey(FindingKey(IF EventData[a.event].finding = None THEN a.event
                              ELSE EventData[a.event].finding))
<1> DEFINE x == IF EventData[a.event].finding = None THEN a.event ELSE EventData[a.event].finding
<1>1. LocksOf(FindingKey(x)) = {<<"finding", x>>}
    BY DEF LocksOf, FindingKey
<1>2. <<"finding", x>> \in LockNames
    BY DEF LockNames, Raised
<1>3. FindingKey(x) # <<>>
    BY DEF FindingKey
<1> QED
    BY <1>1, <1>2, <1>3 DEF GoodKey

LEMMA PrimaryIsNamed ==
    ASSUME NEW A, \A a \in A : Raised(a),
           NEW u \in PrimaryUsernames(A), NEW p \in PrimaryIps(A)
    PROVE  /\ u # None => \E a \in A : User(a) = u
           /\ p # None => \E a \in A : Ip(a) = p
    BY DEF PrimaryUsernames, PrimaryIps, Preferred, FirstPresent

LEMMA PrimaryIpIsKnown ==
    ASSUME NEW A, NEW a \in A, a.rule \in InitialAccess, Ip(a) # None, NEW p \in PrimaryIps(A)
    PROVE  p # None
<1> DEFINE order == <<"login_after_failures", "privilege_change", "large_download",
                      "brute_force", "password_spray">>
<1> DEFINE hits == {i \in DOMAIN order : \E b \in A : b.rule = order[i] /\ Ip(b) # None}
<1>1. hits # {}
  <2>1. 4 \in DOMAIN order /\ 5 \in DOMAIN order /\ order[4] = "brute_force" /\ order[5] = "password_spray"
      OBVIOUS
  <2> QED
      BY <2>1 DEF InitialAccess
<1>2. p \in FirstPresent({b \in A : b.rule = order[Min(hits)]}, Ip)
    BY <1>1 DEF PrimaryIps, Preferred
<1> QED
    BY <1>2 DEF FirstPresent

LEMMA CredentialKeyIsGood ==
    ASSUME NEW A, \A a \in A : Raised(a), Candidates(A) # {},
           NEW u \in PrimaryUsernames(Candidates(A)), NEW p \in PrimaryIps(Candidates(A))
    PROVE  GoodKey(CredentialKey(u, p))
<1>1. \A a \in Candidates(A) : Raised(a)
    BY DEF Candidates
<1>2. PICK a \in Candidates(A) : a.rule \in InitialAccess
    BY DEF Candidates, CompromiseIn, CredentialRules, InitialAccess, Rules, Raised
<1>3. p # None
    BY <1>1, <1>2, PrimaryIpIsKnown DEF Raised
<1>4. PICK b \in Candidates(A) : Ip(b) = p
    BY <1>1, <1>3, PrimaryIsNamed
<1>5. u # None => \E c \in Candidates(A) : User(c) = u
    BY <1>1, PrimaryIsNamed
<1>6. LocksOf(CredentialKey(u, p)) = {<<"ip", p>>, <<"user", u>>} \ {<<"ip", None>>, <<"user", None>>}
    BY DEF LocksOf, CredentialKey, IdentityLocks
<1>7. <<"ip", p>> \in LockNames
    BY <1>1, <1>4 DEF LockNames, Raised, Ip
<1>8. u # None => <<"user", u>> \in LockNames
    BY <1>1, <1>5 DEF LockNames, Raised, User
<1>9. CredentialKey(u, p) # <<>>
    BY DEF CredentialKey
<1> QED
    BY <1>3, <1>6, <1>7, <1>8, <1>9 DEF GoodKey
-----------------------------------------------------------------------------
LEMMA TypesInit == Init => Types
<1> SUFFICES ASSUME Init PROVE Types
    OBVIOUS
<1>1. pc \in [Requests -> States] /\ queue \in [Requests -> Seq(Events)]
    BY DEF Init, States
<1>2. DOMAIN work = Requests /\ \A r \in Requests : DOMAIN work[r] = WorkFields
    BY DEF Init, IdleWork, WorkFields
<1> QED
    BY <1>1, <1>2 DEF Init, Types

\* What a transaction that ends leaves of the tables.
LEMMA TypesRollback ==
    ASSUME Types, NEW r \in Requests, Rollback(r)
    PROVE  /\ owner' \in [Events -> Requests \cup {Nobody}]
           /\ lockOf' \in [LockNames -> Requests \cup {Nobody}]
           /\ \A a \in alerts' : Raised(a)
           /\ DOMAIN row' = Incidents /\ DOMAIN draft' = Incidents
           /\ committed' = committed
    BY DEF Types, Rollback, DropEvents, Unlock

LEMMA TypesFail ==
    ASSUME Types, NEW r \in Requests, Fail(r) PROVE Types'
<1>1. Rollback(r)
    BY DEF Fail
<1>2. pc' \in [Requests -> States] /\ \A q \in Requests : q # r => pc'[q] = pc[q]
    BY DEF Fail, Types, States, Ended
<1>3. pc'[r] = "failed"
    BY DEF Fail, Types
<1> QED
    BY <1>1, <1>2, <1>3, TypesRollback DEF Types, Fail, outside

LEMMA TypesBegin ==
    ASSUME Types, NEW r \in Requests, Begin(r) PROVE Types'
<1> DEFINE batch == load[r].batch
<1> DEFINE seen(i) == owner[batch[i]] \in committed \/ \E j \in 1..i - 1 : batch[j] = batch[i]
<1> DEFINE new == {i \in DOMAIN batch : load[r].kind = "findings" => ~seen(i)}
<1>1. batch \in Seq(Events)
    BY DEF Types
<1>2. PICK f \in [1..Cardinality(new) -> new] :
        queue' = [queue EXCEPT ![r] = [i \in DOMAIN f |-> batch[f[i]]]]
    BY DEF Begin
<1>3. pc' = [pc EXCEPT ![r] = IF new = {} THEN "audit" ELSE "store"]
    BY DEF Begin
<1> DEFINE kept == [i \in DOMAIN f |-> batch[f[i]]]
<1>4. new \in SUBSET DOMAIN batch
    OBVIOUS
<1>5. kept \in Seq(Events) /\ (new # {} => kept # <<>>)
  <2> HIDE DEF new, batch
  <2> QED
      BY <1>1, <1>4, Filtered
<1> HIDE DEF new, batch, kept
<1>6. queue' = [queue EXCEPT ![r] = kept]
    BY <1>2 DEF kept
<1>7. queue' \in [Requests -> Seq(Events)]
    BY <1>5, <1>6 DEF Types
<1>8. pc' \in [Requests -> States] /\ \A q \in Requests : q # r => pc'[q] = pc[q]
    BY <1>3 DEF Types, States, Running, After
<1>9. pc'[r] \in {"audit", "store"} /\ (pc'[r] = "store" => queue'[r] # <<>>)
    BY <1>3, <1>5, <1>6 DEF Types
<1>10. earlier' \in [Requests -> SUBSET Requests]
    BY DEF Types, Begin
<1>11. \A q \in Requests : pc'[q] = "store" => queue'[q] # <<>>
    BY <1>6, <1>8, <1>9 DEF Types
<1>12. UNCHANGED <<load, todo, work, due, owner, committed, alerts, row, draft, lockOf,
                   cooldown, jobs, announced>>
    BY DEF Begin, db, outside
<1> QED
    BY <1>7, <1>8, <1>9, <1>10, <1>11, <1>12 DEF Types

\* An event that is stored is the first of the queue; its alerts are good.
Stores(r, e, raised) ==
    /\ queue[r] # <<>> /\ e = Head(queue[r])
    /\ \A a \in raised : Raised(a) /\ a.event = e
    /\ pc[r] = "store" /\ owner[e] = Nobody
    /\ owner' = [owner EXCEPT ![e] = r]
    /\ alerts' = alerts \cup raised
    /\ todo' = [todo EXCEPT ![r] = raised]
    /\ queue' = [queue EXCEPT ![r] = Tail(@)]
    /\ pc' = [pc EXCEPT ![r] = "relate"]
    /\ UNCHANGED <<load, work, due, committed, links, row, draft, lockOf,
                   cooldown, jobs, announced, earlier>>

LEMMA StoreEffect ==
    ASSUME Types, NEW r \in Requests, Store(r), ~Fail(r)
    PROVE  \E e \in Events : \E raised : Stores(r, e, raised)
<1> DEFINE e == Head(queue[r])
<1> DEFINE raised == AlertsFor(Visible(r) \cup {e}, e)
<1>1. pc[r] = "store" /\ queue[r] # <<>> /\ queue[r] \in Seq(Events)
    BY DEF Store, Types
<1>2. e \in Events
    BY <1>1, HeadTailProperties
<1>3. \A a \in raised : Raised(a) /\ a.event = e
    BY <1>2, RulesRaise
<1> HIDE DEF raised
<1>4. /\ owner[e] = Nobody
      /\ owner' = [owner EXCEPT ![e] = r]
      /\ alerts' = alerts \cup raised
      /\ todo' = [todo EXCEPT ![r] = raised]
      /\ queue' = [queue EXCEPT ![r] = Tail(@)]
      /\ pc' = [pc EXCEPT ![r] = "relate"]
      /\ UNCHANGED <<load, work, due, committed, links, row, draft, lockOf,
                     outside, earlier>>
    BY DEF Store, raised
<1> QED
    BY <1>1, <1>2, <1>3, <1>4 DEF outside, Stores

LEMMA TypesStore ==
    ASSUME Types, NEW r \in Requests, Store(r) PROVE Types'
<1>1. CASE Fail(r)
    BY <1>1, TypesFail
<1>2. CASE ~Fail(r)
  <2>0. PICK e \in Events : \E raised : Stores(r, e, raised)
      BY <1>2, StoreEffect
  <2>1. PICK raised : Stores(r, e, raised)
      BY <2>0
  <2>2. Tail(queue[r]) \in Seq(Events)
      BY <2>1, HeadTailProperties DEF Types, Stores
  <2>3. queue' \in [Requests -> Seq(Events)] /\ pc' \in [Requests -> States]
      BY <2>1, <2>2 DEF Types, Stores, States, Running
  <2>4. \A q \in Requests : pc'[q] # "relate" => q # r
      BY <2>1 DEF Types, Stores
  <2>5. \A q \in Requests : q # r => pc'[q] = pc[q] /\ queue'[q] = queue[q]
      BY <2>1 DEF Types, Stores
  <2>6. \A q \in Requests : pc'[q] = "store" => queue'[q] # <<>>
      BY <2>1, <2>4, <2>5 DEF Types, Stores
  <2>7. \A q \in Requests : pc'[q] \in {"link", "save", "request"} => work'[q].inc \in Incidents
      BY <2>1, <2>4, <2>5 DEF Types, Stores
  <2>8. DOMAIN todo' = Requests /\ \A q \in Requests : \A a \in todo'[q] : Raised(a)
      BY <2>1 DEF Types, Stores
  <2> QED
      BY <2>1, <2>3, <2>6, <2>7, <2>8 DEF Types, Stores
<1> QED
    BY <1>1, <1>2

LEMMA TypesNextEvent ==
    ASSUME Types, NEW r \in Requests, NextEvent(r) PROVE Types'
    BY DEF Types, NextEvent, States, Running, db, outside

LEMMA TypesRelate ==
    ASSUME Types, NEW r \in Requests, Relate(r) PROVE Types'
<1>1. PICK a : todo' = [todo EXCEPT ![r] = @ \ {a}]
    BY DEF Relate
<1>2. \/ UNCHANGED <<pc, work>>
      \/ /\ pc' = [pc EXCEPT ![r] = "lock"]
         /\ \E w : DOMAIN w = WorkFields /\ work' = [work EXCEPT ![r] = w]
    BY DEF Relate, IdleWork, WorkFields
<1>3. pc' \in [Requests -> States]
    BY <1>2 DEF Types, States, Running
<1>4. DOMAIN work' = Requests /\ \A q \in Requests : DOMAIN work'[q] = WorkFields
    BY <1>2 DEF Types
<1>5. \A q \in Requests : pc'[q] = "lock" \/ (pc'[q] = pc[q] /\ work'[q] = work[q])
  <2>1. DOMAIN pc = Requests /\ DOMAIN work = Requests
      BY DEF Types
  <2>2. TAKE q \in Requests
  <2> QED
      BY <1>2, <2>1
<1>6. DOMAIN todo' = Requests /\ \A q \in Requests : \A b \in todo'[q] : Raised(b)
    BY <1>1 DEF Types
<1>7. UNCHANGED <<load, queue, due, owner, committed, alerts, links, row, draft, lockOf,
                  cooldown, jobs, announced, earlier>>
    BY DEF Relate, db, outside
<1> QED
    BY <1>3, <1>4, <1>5, <1>6, <1>7 DEF Types

LEMMA TypesLock ==
    ASSUME Types, NEW r \in Requests, Lock(r) PROVE Types'
<1> DEFINE l == NextLock(work[r].wanted)
<1>1. \/ /\ pc' = [pc EXCEPT ![r] = "find"]
         /\ UNCHANGED <<work, lockOf>>
      \/ /\ lockOf' = [lockOf EXCEPT ![l] = r]
         /\ work' = [work EXCEPT ![r].wanted = @ \ {l}]
         /\ UNCHANGED pc
    BY DEF Lock
<1> HIDE DEF l
<1>2. pc' \in [Requests -> States]
    BY <1>1 DEF Types, States, Running
<1>3. DOMAIN work' = Requests /\ \A q \in Requests : DOMAIN work'[q] = WorkFields
    BY <1>1 DEF Types, WorkFields
<1>4. \A q \in Requests : work'[q].inc = work[q].inc
  <2>1. DOMAIN work = Requests /\ DOMAIN work[r] = WorkFields
      BY DEF Types
  <2>2. TAKE q \in Requests
  <2>3. CASE UNCHANGED work
      BY <2>3
  <2>4. CASE work' = [work EXCEPT ![r].wanted = @ \ {l}]
      BY <2>1, <2>4 DEF WorkFields
  <2> QED
      BY <1>1, <2>3, <2>4
<1>5. \A q \in Requests : pc'[q] = "find" \/ pc'[q] = pc[q]
    BY <1>1 DEF Types
<1>6. lockOf' \in [LockNames -> Requests \cup {Nobody}]
    BY <1>1 DEF Types
<1>7. UNCHANGED <<load, queue, todo, due, owner, committed, alerts, links, row, draft,
                  cooldown, jobs, announced, earlier>>
    BY DEF Lock, db, outside
<1> QED
    BY <1>2, <1>3, <1>4, <1>5, <1>6, <1>7 DEF Types

\* What a look for an incident does: it takes an open one, or opens one.
Takes(r, i, rec) ==
    /\ pc[r] = "find" /\ i \in Incidents
    /\ work' = [work EXCEPT ![r].inc = i, ![r].loaded = rec,
                            ![r].missing = work[r].cand \ SeenLinks(r, i)]
    /\ due' = [due EXCEPT ![r].publish = @ \cup {i}]
    /\ pc' = [pc EXCEPT ![r] = "link"]
    /\ UNCHANGED <<load, queue, todo, owner, committed, alerts, links, row, lockOf,
                   cooldown, jobs, announced, earlier>>

Joins(r, i) ==
    /\ Takes(r, i, Version(r, i)) /\ Version(r, i) # NoIncident
    /\ UNCHANGED draft

Opens(r, i) ==
    /\ Takes(r, i, NewIncident(work[r]))
    /\ i \notin ManualIds /\ row[i] = NoIncident /\ draft[i] = NoDraft
    /\ \A j \in Incidents : Version(r, j) = NoIncident
                            \/ ~Matches(Version(r, j), work[r].key, work[r].alert)
    /\ draft' = [draft EXCEPT ![i] = [by |-> r, rec |-> NewIncident(work[r])]]

LEMMA FindEffect ==
    ASSUME NEW r \in Requests, Find(r)
    PROVE  \E i : Joins(r, i) \/ Opens(r, i)
<1> DEFINE open == {i \in Incidents : /\ Version(r, i) # NoIncident
                                      /\ Matches(Version(r, i), work[r].key, work[r].alert)}
<1> DEFINE take(i, rec) ==
            /\ work' = [work EXCEPT ![r].inc = i, ![r].loaded = rec,
                                    ![r].missing = work[r].cand \ SeenLinks(r, i)]
            /\ due' = [due EXCEPT ![r].publish = @ \cup {i}]
            /\ pc' = [pc EXCEPT ![r] = "link"]
<1>1. pc[r] = "find" /\ UNCHANGED <<load, queue, todo, owner, committed, alerts, links, row,
                                    lockOf, cooldown, jobs, announced, earlier>>
    BY DEF Find, outside
<1>2. \/ \E i \in open : take(i, Version(r, i)) /\ UNCHANGED draft
      \/ /\ open = {}
         /\ \E i \in Incidents \ ManualIds :
               /\ row[i] = NoIncident /\ draft[i] = NoDraft
               /\ draft' = [draft EXCEPT ![i] = [by |-> r, rec |-> NewIncident(work[r])]]
               /\ take(i, NewIncident(work[r]))
    BY DEF Find
<1>3. ASSUME NEW i \in open, take(i, Version(r, i)), UNCHANGED draft
      PROVE  Joins(r, i)
    BY <1>1, <1>3 DEF Joins, Takes
<1>4. ASSUME open = {}, NEW i \in Incidents \ ManualIds, row[i] = NoIncident, draft[i] = NoDraft,
             draft' = [draft EXCEPT ![i] = [by |-> r, rec |-> NewIncident(work[r])]],
             take(i, NewIncident(work[r]))
      PROVE  Opens(r, i)
  <2>1. \A j \in Incidents : Version(r, j) = NoIncident
                            \/ ~Matches(Version(r, j), work[r].key, work[r].alert)
      BY <1>4
  <2> QED
      BY <1>1, <1>4, <2>1 DEF Opens, Takes
<1> QED
    BY <1>2, <1>3, <1>4

LEMMA TypesFind ==
    ASSUME Types, NEW r \in Requests, Find(r) PROVE Types'
<1>1. PICK i : Joins(r, i) \/ Opens(r, i)
    BY FindEffect
<1>2. \E rec : Takes(r, i, rec)
    BY <1>1 DEF Joins, Opens
<1>3. PICK rec : Takes(r, i, rec)
    BY <1>2
<1>4. DOMAIN draft' = Incidents
    BY <1>1 DEF Joins, Opens, Types
<1>5. pc' \in [Requests -> States]
    BY <1>3 DEF Takes, Types, States, Running
<1>6. DOMAIN work' = Requests /\ \A q \in Requests : DOMAIN work'[q] = WorkFields
    BY <1>3 DEF Takes, Types, WorkFields
<1>7. work'[r].inc \in Incidents
    BY <1>3 DEF Takes, Types, WorkFields
<1>8. \A q \in Requests : q # r => work'[q] = work[q] /\ pc'[q] = pc[q]
    BY <1>3 DEF Takes, Types
<1>9. pc'[r] = "link"
    BY <1>3 DEF Takes, Types
<1>10. due' \in [Requests -> [dispatch : SUBSET Incidents, publish : SUBSET Incidents]]
  <2>1. due[r] \in [dispatch : SUBSET Incidents, publish : SUBSET Incidents]
      BY DEF Types
  <2>2. due' = [due EXCEPT ![r].publish = @ \cup {i}] /\ i \in Incidents
      BY <1>3 DEF Takes
  <2>3. [due[r] EXCEPT !.publish = @ \cup {i}] \in
            [dispatch : SUBSET Incidents, publish : SUBSET Incidents]
      BY <2>1, <2>2
  <2>4. due' = [due EXCEPT ![r] = [due[r] EXCEPT !.publish = @ \cup {i}]]
      BY <2>2
  <2> QED
      BY <2>3, <2>4 DEF Types
<1> QED
    BY <1>3, <1>4, <1>5, <1>6, <1>7, <1>8, <1>9, <1>10 DEF Types, Takes

LEMMA TypesLink ==
    ASSUME Types, NEW r \in Requests, Link(r) PROVE Types'
<1>1. CASE Fail(r)
    BY <1>1, TypesFail
<1>2. CASE ~Fail(r)
  <2>1. PICK w : work' = [work EXCEPT ![r].rec = w]
      BY <1>2 DEF Link
  <2>2. pc[r] = "link" /\ pc' = [pc EXCEPT ![r] = "save"]
      BY <1>2 DEF Link
  <2>3. pc' \in [Requests -> States]
      BY <2>2 DEF Types, States, Running
  <2>4. DOMAIN work' = Requests /\ \A q \in Requests : DOMAIN work'[q] = WorkFields
      BY <2>1 DEF Types, WorkFields
  <2>5. \A q \in Requests : work'[q].inc = work[q].inc
      BY <2>1 DEF Types, WorkFields
  <2>6. \A q \in Requests : q # r => pc'[q] = pc[q]
      BY <2>2 DEF Types
  <2>7. pc'[r] = "save"
      BY <2>2 DEF Types
  <2>8. UNCHANGED <<load, queue, todo, due, owner, committed, alerts, row, draft, lockOf,
                    cooldown, jobs, announced, earlier>>
      BY <1>2 DEF Link, outside
  <2> QED
      BY <2>2, <2>3, <2>4, <2>5, <2>6, <2>7, <2>8 DEF Types
<1> QED
    BY <1>1, <1>2

LEMMA TypesSave ==
    ASSUME Types, NEW r \in Requests, Save(r) PROVE Types'
<1>1. pc' = [pc EXCEPT ![r] = "relate"] /\ work' = [work EXCEPT ![r] = IdleWork]
    BY DEF Save
<1>2. DOMAIN draft' = Incidents
    BY DEF Save, Types
<1>3. pc' \in [Requests -> States]
    BY <1>1 DEF Types, States, Running
<1>4. DOMAIN work' = Requests /\ \A q \in Requests : DOMAIN work'[q] = WorkFields
    BY <1>1 DEF Types, WorkFields, IdleWork
<1>5. \A q \in Requests : pc'[q] = "relate" \/ (pc'[q] = pc[q] /\ work'[q] = work[q])
  <2>1. DOMAIN pc = Requests /\ DOMAIN work = Requests
      BY DEF Types
  <2>2. TAKE q \in Requests
  <2> QED
      BY <1>1, <2>1
<1>6. UNCHANGED <<load, queue, todo, due, owner, committed, alerts, links, row, lockOf,
                  cooldown, jobs, announced, earlier>>
    BY DEF Save, outside
<1> QED
    BY <1>2, <1>3, <1>4, <1>5, <1>6 DEF Types

LEMMA TypesCommit ==
    ASSUME Types, NEW r \in Requests, Commit(r) PROVE Types'
<1>1. pc' = [pc EXCEPT ![r] = IF load[r].kind = "single" THEN "publish" ELSE "dispatch"]
    BY DEF Commit
<1>2. pc' \in [Requests -> States]
    BY <1>1 DEF Types, States, After
<1>3. \A q \in Requests : pc'[q] = pc[q] \/ pc'[q] \in {"publish", "dispatch"}
    BY <1>1 DEF Types
<1>4. due' \in [Requests -> [dispatch : SUBSET Incidents, publish : SUBSET Incidents]]
  <2> DEFINE D == {i \in due[r].publish : ShouldTrigger(Version(r, i))}
  <2>1. due' = [due EXCEPT ![r].dispatch = D]
      BY DEF Commit
  <2>2. due[r] \in [dispatch : SUBSET Incidents, publish : SUBSET Incidents]
      BY DEF Types
  <2>3. D \in SUBSET Incidents
      BY <2>2
  <2> HIDE DEF D
  <2>4. [due[r] EXCEPT !.dispatch = D] \in [dispatch : SUBSET Incidents, publish : SUBSET Incidents]
      BY <2>2, <2>3
  <2>5. due' = [due EXCEPT ![r] = [due[r] EXCEPT !.dispatch = D]]
      BY <2>1
  <2> QED
      BY <2>4, <2>5 DEF Types
<1>5. committed' \subseteq Requests /\ DOMAIN row' = Incidents /\ DOMAIN draft' = Incidents
    BY DEF Types, Commit
<1>6. lockOf' \in [LockNames -> Requests \cup {Nobody}]
    BY DEF Types, Commit, Unlock
<1>7. UNCHANGED <<load, queue, todo, work, owner, alerts, cooldown, jobs, announced, earlier>>
    BY DEF Commit, outside
<1> QED
    BY <1>2, <1>3, <1>4, <1>5, <1>6, <1>7 DEF Types

LEMMA TypesPublish ==
    ASSUME Types, NEW r \in Requests, Publish(r) PROVE Types'
<1>1. pc' = [pc EXCEPT ![r] = IF load[r].kind = "single" THEN "dispatch" ELSE "audit"]
    BY DEF Publish
<1>2. pc' \in [Requests -> States]
    BY <1>1 DEF Types, States, After
<1>3. \A q \in Requests : pc'[q] = pc[q] \/ pc'[q] \in {"dispatch", "audit"}
    BY <1>1 DEF Types
<1>4. announced' \subseteq Incidents
    BY DEF Types, Publish
<1>5. UNCHANGED <<load, queue, todo, work, due, owner, committed, alerts, links, row, draft,
                  lockOf, cooldown, jobs, earlier>>
    BY DEF Publish, db
<1> QED
    BY <1>2, <1>3, <1>4, <1>5 DEF Types

\* A dispatch goes on, or passes an incident whose key is held, or claims it.
MovesOn(r) ==
    /\ pc' = [pc EXCEPT ![r] = IF load[r].kind = "single" THEN "audit" ELSE "publish"]
    /\ UNCHANGED <<due, work, cooldown>>

Passes(r, i) ==
    /\ i \in due[r].dispatch /\ i \in cooldown
    /\ due' = [due EXCEPT ![r].dispatch = @ \ {i}]
    /\ UNCHANGED <<pc, work, cooldown>>

Claims(r, i) ==
    /\ i \in due[r].dispatch
    /\ due' = [due EXCEPT ![r].dispatch = @ \ {i}]
    /\ cooldown' = cooldown \cup {i}
    /\ pc' = [pc EXCEPT ![r] = "request"]
    /\ work' = [work EXCEPT ![r].inc = i]

LEMMA DispatchEffect ==
    ASSUME NEW r \in Requests, Dispatch(r)
    PROVE  /\ MovesOn(r) \/ \E i : Passes(r, i) \/ Claims(r, i)
           /\ pc[r] = "dispatch"
           /\ UNCHANGED <<load, queue, todo, owner, committed, alerts, links, row, draft, lockOf,
                          jobs, announced, earlier>>
<1>1. CASE due[r].dispatch = {}
    BY <1>1 DEF Dispatch, MovesOn, db
<1>2. CASE due[r].dispatch # {}
  <2>1. PICK i \in due[r].dispatch :
          /\ due' = [due EXCEPT ![r].dispatch = @ \ {i}]
          /\ cooldown' = cooldown \cup {i}
          /\ IF i \in cooldown THEN UNCHANGED <<pc, work>>
             ELSE /\ pc' = [pc EXCEPT ![r] = "request"]
                  /\ work' = [work EXCEPT ![r].inc = i]
      BY <1>2 DEF Dispatch
  <2>2. i \in cooldown => cooldown' = cooldown
      BY <2>1
  <2>3. Passes(r, i) \/ Claims(r, i)
      BY <2>1, <2>2 DEF Passes, Claims
  <2> QED
      BY <2>3 DEF Dispatch, db
<1> QED
    BY <1>1, <1>2

LEMMA TypesDispatch ==
    ASSUME Types, NEW r \in Requests, Dispatch(r) PROVE Types'
<1>1. UNCHANGED <<load, queue, todo, owner, committed, alerts, links, row, draft, lockOf,
                  jobs, announced, earlier>>
    BY DispatchEffect
<1>2. CASE MovesOn(r)
  <2>1. pc' \in [Requests -> States]
      BY <1>2 DEF MovesOn, Types, States, After
  <2>2. \A q \in Requests : pc'[q] = pc[q] \/ pc'[q] \in {"audit", "publish"}
      BY <1>2 DEF MovesOn, Types
  <2> QED
      BY <1>1, <1>2, <2>1, <2>2 DEF MovesOn, Types
<1>3. ASSUME NEW i, i \in due[r].dispatch, due' = [due EXCEPT ![r].dispatch = @ \ {i}]
      PROVE  /\ due' \in [Requests -> [dispatch : SUBSET Incidents, publish : SUBSET Incidents]]
             /\ i \in Incidents
  <2>1. due[r] \in [dispatch : SUBSET Incidents, publish : SUBSET Incidents]
      BY DEF Types
  <2>2. [due[r] EXCEPT !.dispatch = @ \ {i}] \in [dispatch : SUBSET Incidents, publish : SUBSET Incidents]
      BY <2>1
  <2>3. due' = [due EXCEPT ![r] = [due[r] EXCEPT !.dispatch = @ \ {i}]]
      BY <1>3
  <2>4. due \in [Requests -> [dispatch : SUBSET Incidents, publish : SUBSET Incidents]]
      BY DEF Types
  <2>5. due' \in [Requests -> [dispatch : SUBSET Incidents, publish : SUBSET Incidents]]
      BY <2>2, <2>3, <2>4, Put
  <2> QED
      BY <1>3, <2>1, <2>5
<1>4. ASSUME NEW i, Passes(r, i) PROVE Types'
    BY <1>1, <1>3, <1>4 DEF Passes, Types
<1>5. ASSUME NEW i, Claims(r, i) PROVE Types'
  <2>1. pc' \in [Requests -> States]
      BY <1>5 DEF Claims, Types, States, After
  <2>2. DOMAIN work' = Requests /\ \A q \in Requests : DOMAIN work'[q] = WorkFields
      BY <1>5 DEF Claims, Types, WorkFields
  <2>3. i \in Incidents /\ cooldown' \cup jobs \cup announced \subseteq Incidents
      BY <1>3, <1>5 DEF Claims, Types
  <2>4. work'[r].inc = i
      BY <1>5 DEF Claims, Types, WorkFields
  <2>5. \A q \in Requests : q # r => work'[q] = work[q] /\ pc'[q] = pc[q]
      BY <1>5 DEF Claims, Types
  <2>6. pc'[r] = "request"
      BY <1>5 DEF Claims, Types
  <2>7. due' \in [Requests -> [dispatch : SUBSET Incidents, publish : SUBSET Incidents]]
      BY <1>3, <1>5 DEF Claims
  <2> QED
      BY <1>1, <2>1, <2>2, <2>3, <2>4, <2>5, <2>6, <2>7 DEF Types
<1> QED
    BY <1>2, <1>4, <1>5, DispatchEffect

LEMMA TypesRequest ==
    ASSUME Types, NEW r \in Requests, RequestInvestigation(r) PROVE Types'
<1>1. pc[r] = "request" /\ pc' = [pc EXCEPT ![r] = "dispatch"]
    BY DEF RequestInvestigation
<1>2. pc' \in [Requests -> States]
    BY <1>1 DEF Types, States, After
<1>3. \A q \in Requests : pc'[q] = pc[q] \/ pc'[q] = "dispatch"
    BY <1>1 DEF Types
<1>4. cooldown' \cup jobs' \cup announced \subseteq Incidents
  <2>1. work[r].inc \in Incidents /\ cooldown \cup jobs \cup announced \subseteq Incidents
      BY <1>1 DEF Types
  <2>2. cooldown' \subseteq cooldown /\ jobs' \subseteq jobs \cup {work[r].inc}
      BY DEF RequestInvestigation
  <2> QED
      BY <2>1, <2>2
<1>5. UNCHANGED <<load, queue, todo, work, due, owner, committed, alerts, links, row, draft,
                  lockOf, announced, earlier>>
    BY DEF RequestInvestigation, db
<1> QED
    BY <1>2, <1>3, <1>4, <1>5 DEF Types

LEMMA TypesAudit ==
    ASSUME Types, NEW r \in Requests, Audit(r) PROVE Types'
    BY DEF Types, Audit, States, Ended, db, outside

LEMMA TypesCrash ==
    ASSUME Types, NEW r \in Requests, Crash(r) PROVE Types'
<1>1. pc' = [pc EXCEPT ![r] = "crashed"]
    BY DEF Crash
<1>2. pc' \in [Requests -> States]
    BY <1>1 DEF Types, States, Ended
<1>3. \A q \in Requests : pc'[q] = pc[q] \/ pc'[q] = "crashed"
    BY <1>1 DEF Types
<1>4. UNCHANGED <<load, queue, todo, work, due, cooldown, jobs, announced, earlier>>
    BY DEF Crash, outside
<1>5. CASE r \in committed
    BY <1>2, <1>3, <1>4, <1>5 DEF Crash, Types, db
<1>6. CASE r \notin committed
  <2>1. Rollback(r)
      BY <1>6 DEF Crash
  <2> QED
      BY <1>2, <1>3, <1>4, <2>1, TypesRollback DEF Types
<1> QED
    BY <1>5, <1>6

LEMMA TypesExpire ==
    ASSUME Types, NEW i \in Incidents, Expire(i) PROVE Types'
    BY DEF Types, Expire, tx, db

LEMMA TypesCreateManual ==
    ASSUME Types, NEW i \in Incidents, NEW m \in Manual, CreateManual(i, m) PROVE Types'
<1>1. announced' \subseteq Incidents /\ DOMAIN row' = Incidents
    BY DEF Types, CreateManual
<1> QED
    BY <1>1 DEF Types, CreateManual, tx

LEMMA TypesKept == Types /\ [Next]_vars => Types'
<1> SUFFICES ASSUME Types, [Next]_vars PROVE Types'
    OBVIOUS
<1>1. CASE UNCHANGED vars
    BY <1>1 DEF Types, vars, tx, db, outside
<1>2. ASSUME NEW r \in Requests, Step(r) \/ Crash(r) PROVE Types'
    BY <1>2, TypesBegin, TypesStore, TypesNextEvent, TypesRelate, TypesLock, TypesFind, TypesLink,
       TypesSave, TypesCommit, TypesPublish, TypesDispatch, TypesRequest, TypesAudit, TypesFail,
       TypesCrash DEF Step, Deadlock
<1> QED
    BY <1>1, <1>2, TypesExpire, TypesCreateManual DEF Next

LEMMA TypesAlways == Spec => []Types
    BY TypesInit, TypesKept, PTL DEF Spec
-----------------------------------------------------------------------------
\* A transaction has stored nothing, or is on its way with all it read so far,
\* or has left nothing behind, or is committed with nothing left to store.
Owns(r) == \E e \in Events : owner[e] = r

WholeOf(r) ==
    /\ r \in committed => /\ pc[r] \in After \cup Ended
                          /\ queue[r] = <<>> /\ todo[r] = {} /\ Owns(r)
    /\ pc[r] \in {"publish", "dispatch", "request"} => r \in committed
    /\ r \notin committed /\ pc[r] \in {"idle", "audit"} \cup Ended => ~Owns(r)
    /\ pc[r] \in Running \ {"store"} => Owns(r)
    /\ pc[r] = "commit" => queue[r] = <<>>
    /\ pc[r] \in {"idle", "store", "commit"} => todo[r] = {}

Whole == \A r \in Requests : WholeOf(r)

LEMMA WholeInit == Init => Whole
    BY DEF Init, Whole, WholeOf, Owns, Running, After, Ended

\* A step of one request leaves the others whole.
LEMMA WholeFrame ==
    ASSUME Whole, NEW r \in Requests, WholeOf(r)',
           \A q \in Requests \ {r} :
               /\ pc'[q] = pc[q] /\ queue'[q] = queue[q] /\ todo'[q] = todo[q]
               /\ q \in committed' <=> q \in committed
               /\ \A e \in Events : owner'[e] = q <=> owner[e] = q
    PROVE  Whole'
<1> SUFFICES ASSUME NEW q \in Requests \ {r} PROVE WholeOf(q)'
    BY DEF Whole
<1>1. WholeOf(q)
    BY DEF Whole
<1>2. Owns(q)' <=> Owns(q)
    BY DEF Owns
<1> QED
    BY <1>1, <1>2 DEF WholeOf

LEMMA WholeFail ==
    ASSUME Types, Whole, NEW r \in Requests, pc[r] \in Running \cup After, r \notin committed,
           Rollback(r), NEW s \in {"failed", "crashed"}, pc' = [pc EXCEPT ![r] = s],
           UNCHANGED <<queue, todo>>
    PROVE  Whole'
<1>1. owner' = [e \in Events |-> IF owner[e] = r THEN Nobody ELSE owner[e]] /\ committed' = committed
    BY DEF Rollback, DropEvents
<1>2. ~Owns(r)'
    BY <1>1 DEF Owns
<1>3. pc'[r] = s
    BY DEF Types
<1>4. WholeOf(r)'
    BY <1>1, <1>2, <1>3 DEF WholeOf, Running, After, Ended
<1>5. \A q \in Requests \ {r} :
          /\ pc'[q] = pc[q] /\ queue'[q] = queue[q] /\ todo'[q] = todo[q]
          /\ q \in committed' <=> q \in committed
          /\ \A e \in Events : owner'[e] = q <=> owner[e] = q
    BY <1>1 DEF Types
<1> QED
    BY <1>4, <1>5, WholeFrame

LEMMA RunningIsOpen ==
    ASSUME Whole, NEW r \in Requests, pc[r] \in {"idle"} \cup Running PROVE r \notin committed
    BY DEF Whole, WholeOf, Running, After, Ended

\* The steps that neither store, nor end, a transaction.
LEMMA WholeMove ==
    ASSUME Types, Whole, NEW r \in Requests, UNCHANGED <<owner, committed>>, NEW s,
           pc' = [pc EXCEPT ![r] = s],
           UNCHANGED queue \/ (\E b : queue' = [queue EXCEPT ![r] = b] /\ pc[r] = "idle"),
           UNCHANGED todo \/ (\E b : todo' = [todo EXCEPT ![r] = b] /\ pc[r] = "relate"),
           \/ pc[r] = "idle" /\ s \in {"store", "audit"} /\ UNCHANGED todo
           \/ pc[r] = "relate" /\ s \in {"store", "commit"} /\ todo[r] = {} /\ UNCHANGED todo
              /\ (s = "commit" => queue[r] = <<>>)
           \/ pc[r] \in Running \ {"store"} /\ s \in Running \ {"store", "commit"}
           \/ pc[r] \in {"publish", "dispatch", "request"} /\ s \in After
           \/ pc[r] = "audit" /\ s = "done"
    PROVE  Whole'
<1>1. WholeOf(r) /\ (Owns(r)' <=> Owns(r))
    BY DEF Whole, Owns
<1>2. pc'[r] = s
    BY DEF Types
<1>3. pc[r] # "idle" => queue' = queue
    OBVIOUS
<1>4. pc[r] # "relate" => todo' = todo
    OBVIOUS
<1>5. WholeOf(r)'
  <2>1. CASE pc[r] \in {"idle"} \cup Running
    <3>1. r \notin committed
        BY <2>1, RunningIsOpen
    <3> QED
        BY <1>1, <1>2, <1>3, <1>4, <2>1, <3>1 DEF WholeOf, Running, After, Ended
  <2>2. CASE pc[r] \in After
    <3>1. queue' = queue /\ todo' = todo
        BY <1>3, <1>4, <2>2 DEF After
    <3> QED
        BY <1>1, <1>2, <2>2, <3>1 DEF WholeOf, Running, After, Ended
  <2> QED
      BY <2>1, <2>2 DEF Running, After
<1>6. \A q \in Requests \ {r} :
          /\ pc'[q] = pc[q] /\ queue'[q] = queue[q] /\ todo'[q] = todo[q]
          /\ q \in committed' <=> q \in committed
          /\ \A e \in Events : owner'[e] = q <=> owner[e] = q
    BY DEF Types
<1> QED
    BY <1>5, <1>6, WholeFrame

LEMMA WholeStore ==
    ASSUME Types, Whole, NEW r \in Requests, Store(r), ~Fail(r) PROVE Whole'
<1>0. PICK e \in Events : \E raised : Stores(r, e, raised)
    BY StoreEffect
<1>1. PICK raised : Stores(r, e, raised)
    BY <1>0
<1>2. Owns(r)'
    BY <1>1 DEF Owns, Stores, Types
<1>3. pc'[r] = "relate" /\ r \notin committed'
    BY <1>1, RunningIsOpen DEF Stores, Types, Running
<1>4. WholeOf(r)'
    BY <1>2, <1>3 DEF WholeOf, Running, After, Ended
<1>5. \A q \in Requests \ {r} :
          /\ pc'[q] = pc[q] /\ queue'[q] = queue[q] /\ todo'[q] = todo[q]
          /\ q \in committed' <=> q \in committed
          /\ \A f \in Events : owner'[f] = q <=> owner[f] = q
    BY <1>1 DEF Types, Stores
<1> QED
    BY <1>4, <1>5, WholeFrame

LEMMA WholeCommit ==
    ASSUME Types, Whole, NEW r \in Requests, Commit(r) PROVE Whole'
<1>1. pc[r] = "commit" /\ pc'[r] \in {"publish", "dispatch"}
    BY DEF Commit, Types
<1>2. UNCHANGED <<owner, queue, todo>> /\ committed' = committed \cup {r}
    BY DEF Commit
<1>3. WholeOf(r)
    BY DEF Whole
<1>4. WholeOf(r)'
    BY <1>1, <1>2, <1>3 DEF WholeOf, Owns, Running, After, Ended
<1>5. \A q \in Requests \ {r} :
          /\ pc'[q] = pc[q] /\ queue'[q] = queue[q] /\ todo'[q] = todo[q]
          /\ q \in committed' <=> q \in committed
          /\ \A f \in Events : owner'[f] = q <=> owner[f] = q
    BY <1>2 DEF Types, Commit
<1> QED
    BY <1>4, <1>5, WholeFrame

LEMMA WholeKept == Types /\ Whole /\ [Next]_vars => Whole'
<1> SUFFICES ASSUME Types, Whole, [Next]_vars PROVE Whole'
    OBVIOUS
<1>1. CASE UNCHANGED vars
    BY <1>1 DEF Whole, WholeOf, Owns, vars, tx, db, outside
<1>2. ASSUME NEW r \in Requests, Step(r) \/ Crash(r) PROVE Whole'
  <2>1. CASE Fail(r) /\ pc[r] \in Running
    <3>1. r \notin committed
        BY <2>1, RunningIsOpen
    <3> QED
        BY <2>1, <3>1, WholeFail DEF Fail
  <2>2. CASE Begin(r)
      BY <2>2, WholeMove DEF Begin, db
  <2>3. CASE Store(r)
      BY <2>1, <2>3, WholeStore DEF Store, Running
  <2>4. CASE NextEvent(r)
      BY <2>4, WholeMove DEF NextEvent, db
  <2>5. CASE Relate(r)
    <3>1. pc[r] = "relate" /\ UNCHANGED <<owner, committed, queue>>
        BY <2>5 DEF Relate, db
    <3>2. \E b : todo' = [todo EXCEPT ![r] = b]
        BY <2>5 DEF Relate
    <3>3. pc' = [pc EXCEPT ![r] = "lock"] \/ pc' = pc
        BY <2>5 DEF Relate
    <3>4. pc' = [pc EXCEPT ![r] = "lock"] \/ pc' = [pc EXCEPT ![r] = "relate"]
        BY <3>1, <3>3 DEF Types
    <3> QED
        BY <3>1, <3>2, <3>4, WholeMove DEF Running
  <2>6. CASE Lock(r)
    <3>1. pc[r] = "lock" /\ UNCHANGED <<owner, committed, queue, todo>>
        BY <2>6 DEF Lock, db
    <3>2. pc' = [pc EXCEPT ![r] = "find"] \/ pc' = pc
        BY <2>6 DEF Lock
    <3>3. pc' = [pc EXCEPT ![r] = "find"] \/ pc' = [pc EXCEPT ![r] = "lock"]
        BY <3>1, <3>2 DEF Types
    <3> QED
        BY <3>1, <3>3, WholeMove DEF Running
  <2>7. CASE Find(r)
      BY <2>7, WholeMove DEF Find, Running
  <2>8. CASE Link(r)
    <3>1. CASE Fail(r)
        BY <2>1, <2>8, <3>1 DEF Link, Running
    <3>2. CASE ~Fail(r)
        BY <2>8, <3>2, WholeMove DEF Link, Running
    <3> QED
        BY <3>1, <3>2
  <2>9. CASE Save(r)
      BY <2>9, WholeMove DEF Save, Running
  <2>10. CASE Commit(r)
      BY <2>10, WholeCommit
  <2>11. CASE Publish(r)
      BY <2>11, WholeMove DEF Publish, db, After
  <2>12. CASE Dispatch(r)
    <3>1. pc[r] = "dispatch" /\ UNCHANGED <<owner, committed, queue, todo>>
        BY <2>12, DispatchEffect
    <3>2. \/ pc' = pc
          \/ \E s \in {"audit", "publish", "request"} : pc' = [pc EXCEPT ![r] = s]
        BY <2>12, DispatchEffect DEF MovesOn, Passes, Claims
    <3>3. \E s \in After : pc' = [pc EXCEPT ![r] = s]
        BY <3>1, <3>2 DEF Types, After
    <3> QED
        BY <3>1, <3>3, WholeMove DEF After
  <2>13. CASE RequestInvestigation(r)
      BY <2>13, WholeMove DEF RequestInvestigation, db, After
  <2>14. CASE Audit(r)
      BY <2>14, WholeMove DEF Audit, db
  <2>15. CASE Deadlock(r)
      BY <2>1, <2>15 DEF Deadlock, InCycle
  <2>16. CASE Crash(r)
    <3>1. CASE r \in committed
      <4>1. UNCHANGED <<owner, committed, queue, todo>> /\ pc' = [pc EXCEPT ![r] = "crashed"]
          BY <2>16, <3>1 DEF Crash, db
      <4>2. pc'[r] = "crashed" /\ \A q \in Requests \ {r} : pc'[q] = pc[q]
          BY <4>1 DEF Types
      <4>3. \A q \in Requests : Owns(q)' <=> Owns(q)
          BY <4>1 DEF Owns
      <4> QED
          BY <3>1, <4>1, <4>2, <4>3 DEF Whole, WholeOf, Running, After, Ended
    <3>2. CASE r \notin committed
        BY <2>16, <3>2, WholeFail DEF Crash
    <3> QED
        BY <3>1, <3>2
  <2> QED
      BY <1>2, <2>2, <2>3, <2>4, <2>5, <2>6, <2>7, <2>8, <2>9, <2>10, <2>11, <2>12, <2>13,
         <2>14, <2>15, <2>16 DEF Step
<1>3. ASSUME NEW i \in Incidents, Expire(i) \/ \E m \in Manual : CreateManual(i, m) PROVE Whole'
    BY <1>3 DEF Expire, CreateManual, Whole, WholeOf, Owns, tx, db
<1> QED
    BY <1>1, <1>2, <1>3 DEF Next

LEMMA WholeAlways == Spec => [](Types /\ Whole)
<1>1. Init => Types /\ Whole
    BY TypesInit, WholeInit
<1>2. Types /\ Whole /\ [Next]_vars => (Types /\ Whole)'
    BY TypesKept, WholeKept
<1> QED
    BY <1>1, <1>2, PTL DEF Spec

\* A batch is stored whole or not at all (create_events_bulk, get_db_session).
THEOREM BatchesAreWhole == Spec => []AllOrNothing
<1>1. Whole => AllOrNothing
    BY DEF Whole, WholeOf, AllOrNothing, Owns
<1> QED
    BY <1>1, WholeAlways, PTL
-----------------------------------------------------------------------------
\* The cooldown: a key is claimed by the step that starts its request, and the
\* request ends with an investigation, or with the key deleted, or in a crash.
EarnedBy(i, r) == pc[r] \in {"request", "crashed"} /\ work[r].inc = i

LEMMA EarnedFrame ==
    ASSUME CooldownIsEarned, NEW r \in Requests, pc[r] # "request",
           pc[r] = "crashed" => pc'[r] = "crashed" /\ work'[r] = work[r],
           \A q \in Requests \ {r} : pc'[q] = pc[q] /\ work'[q] = work[q],
           jobs \subseteq jobs', cooldown' \subseteq cooldown
    PROVE  CooldownIsEarned'
<1> SUFFICES ASSUME NEW i \in cooldown', i \notin jobs' PROVE \E q \in Requests : EarnedBy(i, q)'
    BY DEF CooldownIsEarned, EarnedBy
<1>1. PICK q \in Requests : EarnedBy(i, q)
    BY DEF CooldownIsEarned, EarnedBy
<1>2. EarnedBy(i, q)'
    BY <1>1 DEF EarnedBy
<1> QED
    BY <1>2

LEMMA EarnedKept == Types /\ Whole /\ CooldownIsEarned /\ [Next]_vars => CooldownIsEarned'
<1> SUFFICES ASSUME Types, Whole, CooldownIsEarned, [Next]_vars PROVE CooldownIsEarned'
    OBVIOUS
<1>1. CASE UNCHANGED vars
    BY <1>1 DEF CooldownIsEarned, vars, tx, db, outside
<1>2. ASSUME NEW r \in Requests, Step(r) \/ Crash(r) PROVE CooldownIsEarned'
  <2>0. DOMAIN pc = Requests /\ DOMAIN work = Requests /\ DOMAIN work[r] = WorkFields
      BY DEF Types
  <2>1. CASE Fail(r) /\ pc[r] \in Running
      BY <2>0, <2>1, EarnedFrame DEF Fail, Running, outside
  <2>2. CASE Begin(r) \/ NextEvent(r) \/ Audit(r)
      BY <2>0, <2>2, EarnedFrame DEF Begin, NextEvent, Audit, outside
  <2>3. CASE Store(r)
      BY <2>0, <2>1, <2>3, EarnedFrame DEF Store, Running, outside
  <2>4. CASE Relate(r)
    <3>1. pc[r] = "relate" /\ UNCHANGED <<cooldown, jobs>>
        BY <2>4 DEF Relate, outside
    <3>2. \A q \in Requests \ {r} : pc'[q] = pc[q] /\ work'[q] = work[q]
        BY <2>0, <2>4 DEF Relate
    <3> QED
        BY <3>1, <3>2, EarnedFrame
  <2>5. CASE Lock(r)
      BY <2>0, <2>5, EarnedFrame DEF Lock, outside
  <2>6. CASE Find(r)
    <3>1. PICK i : Joins(r, i) \/ Opens(r, i)
        BY <2>6, FindEffect
    <3>2. \E rec : Takes(r, i, rec)
        BY <3>1 DEF Joins, Opens
    <3>3. PICK rec : Takes(r, i, rec)
        BY <3>2
    <3>4. \A q \in Requests \ {r} : pc'[q] = pc[q] /\ work'[q] = work[q]
        BY <2>0, <3>3 DEF Takes
    <3> QED
        BY <3>3, <3>4, EarnedFrame DEF Takes
  <2>7. CASE Link(r)
      BY <2>0, <2>1, <2>7, EarnedFrame DEF Link, Running, outside
  <2>8. CASE Save(r)
      BY <2>0, <2>8, EarnedFrame DEF Save, outside
  <2>9. CASE Commit(r)
      BY <2>0, <2>9, EarnedFrame DEF Commit, outside
  <2>10. CASE Publish(r)
      BY <2>0, <2>10, EarnedFrame DEF Publish
  <2>11. CASE Dispatch(r)
    <3>1. pc[r] = "dispatch" /\ jobs' = jobs
        BY <2>11, DispatchEffect
    <3>2. CASE MovesOn(r) \/ \E i : Passes(r, i)
        BY <2>0, <3>1, <3>2, EarnedFrame DEF MovesOn, Passes
    <3>3. ASSUME NEW i, Claims(r, i) PROVE CooldownIsEarned'
      <4>1. EarnedBy(i, r)' /\ cooldown' = cooldown \cup {i}
          BY <2>0, <3>3 DEF Claims, EarnedBy, WorkFields
      <4>2. \A j : \A q \in Requests : EarnedBy(j, q) => EarnedBy(j, q)'
        <5> SUFFICES ASSUME NEW j, NEW q \in Requests, EarnedBy(j, q) PROVE EarnedBy(j, q)'
            OBVIOUS
        <5>1. q # r
            BY <3>1 DEF EarnedBy
        <5> QED
            BY <2>0, <3>3, <5>1 DEF Claims, EarnedBy
      <4> QED
          BY <3>1, <4>1, <4>2 DEF CooldownIsEarned, EarnedBy
    <3> QED
        BY <2>11, <3>2, <3>3, DispatchEffect
  <2>12. CASE RequestInvestigation(r)
    <3> SUFFICES ASSUME NEW i \in cooldown', i \notin jobs' PROVE \E q \in Requests : EarnedBy(i, q)'
        BY DEF CooldownIsEarned, EarnedBy
    <3>1. i \in cooldown /\ i \notin jobs /\ i # work[r].inc
        BY <2>12 DEF RequestInvestigation
    <3>2. PICK q \in Requests : EarnedBy(i, q)
        BY <3>1 DEF CooldownIsEarned, EarnedBy
    <3>3. q # r
        BY <3>1, <3>2 DEF EarnedBy
    <3> QED
        BY <2>0, <2>12, <3>2, <3>3 DEF RequestInvestigation, EarnedBy
  <2>13. CASE Deadlock(r)
      BY <2>1, <2>13 DEF Deadlock, InCycle
  <2>14. CASE Crash(r)
    <3>1. UNCHANGED <<cooldown, jobs, work>> /\ pc' = [pc EXCEPT ![r] = "crashed"]
        BY <2>14 DEF Crash, outside
    <3>2. \A i : \A q \in Requests : EarnedBy(i, q) => EarnedBy(i, q)'
        BY <2>0, <3>1 DEF EarnedBy
    <3> QED
        BY <3>1, <3>2 DEF CooldownIsEarned, EarnedBy
  <2> QED
      BY <1>2, <2>2, <2>3, <2>4, <2>5, <2>6, <2>7, <2>8, <2>9, <2>10, <2>11, <2>12, <2>13,
         <2>14 DEF Step
<1>3. ASSUME NEW i \in Incidents, Expire(i) PROVE CooldownIsEarned'
    BY <1>3 DEF Expire, CooldownIsEarned, tx
<1>4. ASSUME NEW i \in Incidents, NEW m \in Manual, CreateManual(i, m) PROVE CooldownIsEarned'
    BY <1>4 DEF CreateManual, CooldownIsEarned, tx
<1> QED
    BY <1>1, <1>2, <1>3, <1>4 DEF Next

\* A key in Redis stands for an investigation that was, or is being, requested
\* (AutomaticInvestigationDispatcher.dispatch).
THEOREM KeysAreEarned == Spec => []CooldownIsEarned
<1>1. Init => CooldownIsEarned
    BY DEF Init, CooldownIsEarned
<1> QED
    BY <1>1, EarnedKept, WholeAlways, PTL DEF Spec
-----------------------------------------------------------------------------
\* Filing: whoever looks for an incident, or writes one, under a key that the
\* row does not have yet holds the locks of the key; and what a request owes
\* after its commit is about rows it has drafted.
Holds(r, key) == \A l \in LocksOf(key) : lockOf[l] = r
Known(i) == row[i].key # <<>>

Filing(r) ==
    /\ pc[r] \in {"lock", "find", "link", "save"} =>
           /\ GoodKey(work[r].key)
           /\ \A l \in LocksOf(work[r].key) : l \in work[r].wanted \/ lockOf[l] = r
    /\ pc[r] \in {"find", "link", "save"} => work[r].wanted = {}
    /\ pc[r] \in {"link", "save"} =>
           /\ work[r].inc \in due[r].publish
           /\ draft[work[r].inc].by = r \/ Known(work[r].inc)
    /\ pc[r] = "save" => work[r].rec.key = work[r].key
    /\ pc[r] = "idle" => due[r].publish = {} /\ due[r].dispatch = {}
    /\ pc[r] \in Running => \A i \in due[r].publish :
           draft[i].by = r \/ (pc[r] \in {"link", "save"} /\ work[r].inc = i)
    /\ pc[r] \in After => \A i \in due[r].publish \cup due[r].dispatch : Known(i)
    /\ pc[r] = "request" => Known(work[r].inc)

Drafted(i) ==
    /\ row[i] = NoIncident \/ Known(i)
    /\ draft[i].by \notin Requests => draft[i] = NoDraft
    /\ i \in ManualIds /\ row[i] = NoIncident => draft[i] = NoDraft
    /\ \A r \in Requests : draft[i].by = r =>
           /\ pc[r] \in Running /\ i \in due[r].publish /\ draft[i].rec.key # <<>>
           /\ \/ draft[i].rec.key = row[i].key
              \/ GoodKey(draft[i].rec.key) /\ Holds(r, draft[i].rec.key)

Filed ==
    /\ \A r \in Requests : Filing(r)
    /\ \A i \in Incidents : Drafted(i)
    /\ \A i \in announced \cup jobs \cup cooldown : Known(i)

LEMMA FiledInit == Init => Filed
<1> SUFFICES ASSUME Init PROVE Filed
    OBVIOUS
<1>1. ASSUME NEW r \in Requests PROVE Filing(r)
    BY <1>1 DEF Init, Filing, Running, After
<1>2. ASSUME NEW i \in Incidents PROVE Drafted(i)
    BY <1>2 DEF Init, Drafted, NoDraft
<1> QED
    BY <1>1, <1>2 DEF Init, Filed

\* Steps of another request leave what r relies on.
LEMMA FilingFrame ==
    ASSUME Types, NEW r \in Requests, Filing(r),
           pc'[r] = pc[r], work'[r] = work[r], due'[r] = due[r],
           \A l \in LockNames : lockOf[l] = r => lockOf'[l] = r,
           \A i \in Incidents : draft[i].by = r => draft'[i].by = r,
           \A i \in Incidents : Known(i) => Known(i)'
    PROVE  Filing(r)'
<1>1. GoodKey(work[r].key) => LocksOf(work[r].key) \subseteq LockNames
    BY DEF GoodKey
<1>2. GoodKey(work[r].key)' <=> GoodKey(work[r].key)
    BY DEF GoodKey, LocksOf
<1>3. /\ due[r].publish \subseteq Incidents /\ due[r].dispatch \subseteq Incidents
      /\ pc[r] \in {"link", "save", "request"} => work[r].inc \in Incidents
    BY DEF Types
<1> QED
    BY <1>1, <1>2, <1>3 DEF Filing

\* A draft stays good while its writer runs on and keeps its locks.
LEMMA DraftFrame ==
    ASSUME NEW i, Drafted(i), draft'[i] = draft[i], row'[i] = row[i],
           \A r \in Requests : draft[i].by = r =>
               /\ pc[r] \in Running => pc'[r] \in Running
               /\ due[r].publish \subseteq due'[r].publish
               /\ \A l \in LockNames : lockOf[l] = r => lockOf'[l] = r
    PROVE  Drafted(i)'
<1>1. ASSUME NEW r \in Requests, draft[i].by = r, NEW k, GoodKey(k), Holds(r, k)
      PROVE  GoodKey(k)' /\ Holds(r, k)'
    BY <1>1 DEF Holds, GoodKey, LocksOf
<1>2. Known(i)' <=> Known(i)
    BY DEF Known
<1>3. ASSUME NEW r \in Requests, draft'[i].by = r
      PROVE  /\ pc'[r] \in Running /\ i \in due'[r].publish /\ draft'[i].rec.key # <<>>
             /\ \/ draft'[i].rec.key = row'[i].key
                \/ \E k : k = draft'[i].rec.key /\ GoodKey(k)' /\ Holds(r, k)'
    BY <1>1, <1>3 DEF Drafted
<1> QED
    BY <1>2, <1>3 DEF Drafted, GoodKey, Holds, LocksOf

\* The steps of r that touch no row.
LEMMA FiledMove ==
    ASSUME Types, Filed, NEW r \in Requests, UNCHANGED <<row, draft>>, Filing(r)',
           pc[r] \in Running => pc'[r] \in Running,
           due[r].publish \subseteq due'[r].publish,
           \A q \in Requests \ {r} : pc'[q] = pc[q] /\ work'[q] = work[q] /\ due'[q] = due[q],
           \A q \in Requests, l \in LockNames : lockOf[l] = q => lockOf'[l] = q,
           \A i \in announced' \cup jobs' \cup cooldown' : Known(i)
    PROVE  Filed'
<1>1. \A i : Known(i) => Known(i)'
    BY DEF Known
<1>2. ASSUME NEW q \in Requests PROVE Filing(q)'
  <2>1. CASE q = r
      BY <2>1
  <2>2. CASE q # r
      BY <1>1, <1>2, <2>2, FilingFrame DEF Filed
  <2> QED
      BY <2>1, <2>2
<1>3. ASSUME NEW i \in Incidents PROVE Drafted(i)'
    BY <1>3, DraftFrame DEF Filed
<1> QED
    BY <1>1, <1>2, <1>3 DEF Filed

\* A transaction that is undone leaves no draft and no lock.
LEMMA FiledFail ==
    ASSUME Types, Filed, NEW r \in Requests, Rollback(r), NEW s \in {"failed", "crashed"},
           pc' = [pc EXCEPT ![r] = s], UNCHANGED <<work, due, announced, jobs, cooldown>>
    PROVE  Filed'
<1>1. /\ row' = row
      /\ draft' = [i \in Incidents |-> IF draft[i].by = r THEN NoDraft ELSE draft[i]]
      /\ lockOf' = [l \in LockNames |-> IF lockOf[l] = r THEN Nobody ELSE lockOf[l]]
    BY DEF Rollback, Unlock
<1>2. pc'[r] = s /\ \A q \in Requests \ {r} : pc'[q] = pc[q]
    BY DEF Types
<1>3. \A i : Known(i) => Known(i)'
    BY <1>1 DEF Known
<1>4. ASSUME NEW q \in Requests PROVE Filing(q)'
  <2>1. CASE q = r
      BY <1>2, <2>1 DEF Filing, Running, After
  <2>2. CASE q # r
    <3>1. \A l \in LockNames : lockOf[l] = q => lockOf'[l] = q
        BY <1>1, <2>2
    <3>2. \A i \in Incidents : draft[i].by = q => draft'[i].by = q
        BY <1>1, <2>2
    <3>3. Filing(q) /\ due[q].publish \subseteq Incidents
          /\ (pc[q] \in {"link", "save"} => work[q].inc \in Incidents)
        BY DEF Filed, Types
    <3> QED
        BY <1>2, <1>3, <2>2, <3>1, <3>2, <3>3, FilingFrame
  <2> QED
      BY <2>1, <2>2
<1>5. ASSUME NEW i \in Incidents PROVE Drafted(i)'
  <2>1. Drafted(i)
      BY DEF Filed
  <2>2. CASE draft[i].by = r
    <3>1. draft'[i] = NoDraft /\ row'[i] = row[i]
        BY <1>1, <2>2
    <3> QED
        BY <2>1, <3>1 DEF Drafted, NoDraft, Known
  <2>3. CASE draft[i].by # r
    <3>1. draft'[i] = draft[i] /\ row'[i] = row[i]
        BY <1>1, <2>3
    <3> QED
        BY <1>1, <1>2, <2>1, <2>3, <3>1, DraftFrame
  <2> QED
      BY <2>2, <2>3
<1> QED
    BY <1>3, <1>4, <1>5 DEF Filed

LEMMA FiledBegin ==
    ASSUME Types, Filed, NEW r \in Requests, Begin(r) PROVE Filed'
<1>1. pc[r] = "idle" /\ due[r].publish = {} /\ due[r].dispatch = {}
    BY DEF Begin, Filed, Filing
<1>2. pc'[r] \in {"audit", "store"} /\ \A q \in Requests \ {r} : pc'[q] = pc[q]
    BY DEF Begin, Types
<1>3. UNCHANGED <<work, due, row, draft, lockOf, announced, jobs, cooldown>>
    BY DEF Begin, db, outside
<1>4. Filing(r)'
    BY <1>1, <1>2, <1>3 DEF Filing
<1> QED
    BY <1>1, <1>2, <1>3, <1>4, FiledMove DEF Filed, Running

LEMMA FiledStore ==
    ASSUME Types, Filed, NEW r \in Requests, Store(r), ~Fail(r) PROVE Filed'
<1>0. PICK e \in Events : \E raised : Stores(r, e, raised)
    BY StoreEffect
<1>1. PICK raised : Stores(r, e, raised)
    BY <1>0
<1>2. pc[r] = "store" /\ pc'[r] = "relate" /\ \A q \in Requests \ {r} : pc'[q] = pc[q]
    BY <1>1 DEF Stores, Types
<1>3. UNCHANGED <<work, due, row, draft, lockOf, announced, jobs, cooldown>>
    BY <1>1 DEF Stores
<1>4. Filing(r)'
    BY <1>2, <1>3 DEF Filing, Filed, Running, After
<1> QED
    BY <1>2, <1>3, <1>4, FiledMove DEF Filed, Running

LEMMA FiledNextEvent ==
    ASSUME Types, Filed, NEW r \in Requests, NextEvent(r) PROVE Filed'
<1>2. pc[r] = "relate" /\ pc'[r] \in {"store", "commit"} /\ \A q \in Requests \ {r} : pc'[q] = pc[q]
    BY DEF NextEvent, Types
<1>3. UNCHANGED <<work, due, row, draft, lockOf, announced, jobs, cooldown>>
    BY DEF NextEvent, db, outside
<1>4. Filing(r)'
    BY <1>2, <1>3 DEF Filing, Filed, Running, After
<1> QED
    BY <1>2, <1>3, <1>4, FiledMove DEF Filed, Running

\* What taking up an alert does: it is filed under a good key, or left.
Files(r, a, set, key) ==
    /\ work' = [work EXCEPT ![r] = [IdleWork EXCEPT !.alert = a, !.cand = set,
                                                    !.key = key, !.wanted = LocksOf(key)]]
    /\ pc' = [pc EXCEPT ![r] = "lock"]

RelateCand(r, a) == Candidates(Related(SeenAlerts(r), a))

LEMMA RelateEffect ==
    ASSUME Types, NEW r \in Requests, Relate(r)
    PROVE  \E a \in todo[r] :
              /\ pc[r] = "relate" /\ Raised(a)
              /\ todo' = [todo EXCEPT ![r] = @ \ {a}]
              /\ UNCHANGED <<load, queue, due, owner, committed, alerts, links, row, draft,
                             lockOf, cooldown, jobs, announced, earlier>>
              /\ \/ \E set, key : /\ GoodKey(key) /\ Files(r, a, set, key)
                                  /\ a.rule \in CredentialRules => set = RelateCand(r, a)
                 \/ /\ a.rule \in CredentialRules => RelateCand(r, a) = {}
                    /\ UNCHANGED <<pc, work>>
<1> DEFINE a == NextAlert(todo[r])
<1>1. pc[r] = "relate" /\ todo[r] # {} /\ \A b \in todo[r] : Raised(b)
    BY DEF Relate, Types
<1>2. a \in todo[r] /\ Raised(a)
    BY <1>1, NextIsOne DEF Raised
<1>3. /\ todo' = [todo EXCEPT ![r] = @ \ {a}]
      /\ UNCHANGED <<load, queue, due, db, lockOf, outside, earlier>>
    BY DEF Relate
<1>4. \/ /\ a.rule = "cloud_finding"
         /\ Files(r, a, {a}, FindingKey(IF EventData[a.event].finding = None THEN a.event
                                        ELSE EventData[a.event].finding))
      \/ /\ a.rule \in CredentialRules /\ RelateCand(r, a) # {}
         /\ \E u \in PrimaryUsernames(RelateCand(r, a)), p \in PrimaryIps(RelateCand(r, a)) :
               Files(r, a, RelateCand(r, a), CredentialKey(u, p))
      \/ /\ a.rule \in CredentialRules => RelateCand(r, a) = {}
         /\ UNCHANGED <<pc, work>>
    BY DEF Relate, Files, RelateCand
<1> HIDE DEF a
<1>5. "cloud_finding" \notin CredentialRules
    BY DEF CredentialRules
<1>6. ASSUME a.rule = "cloud_finding"
      PROVE  GoodKey(FindingKey(IF EventData[a.event].finding = None THEN a.event
                                ELSE EventData[a.event].finding))
    BY <1>2, FindingKeyIsGood
<1>7. ASSUME RelateCand(r, a) # {}, NEW u \in PrimaryUsernames(RelateCand(r, a)),
             NEW p \in PrimaryIps(RelateCand(r, a))
      PROVE  GoodKey(CredentialKey(u, p))
  <2>1. \A b \in Related(SeenAlerts(r), a) : Raised(b)
      BY <1>2 DEF Related, SeenAlerts, Types
  <2> QED
      BY <1>7, <2>1, CredentialKeyIsGood DEF RelateCand
<1>8. \/ \E set, key : /\ GoodKey(key) /\ Files(r, a, set, key)
                       /\ a.rule \in CredentialRules => set = RelateCand(r, a)
      \/ /\ a.rule \in CredentialRules => RelateCand(r, a) = {}
         /\ UNCHANGED <<pc, work>>
    BY <1>4, <1>5, <1>6, <1>7
<1> QED
    BY <1>1, <1>2, <1>3, <1>8 DEF db, outside

LEMMA FiledRelate ==
    ASSUME Types, Filed, NEW r \in Requests, Relate(r) PROVE Filed'
<1>1. PICK a \in todo[r] :
        /\ pc[r] = "relate"
        /\ UNCHANGED <<due, row, draft, lockOf, cooldown, jobs, announced>>
        /\ \/ \E set, key : GoodKey(key) /\ Files(r, a, set, key)
           \/ UNCHANGED <<pc, work>>
    BY RelateEffect
<1>2. CASE UNCHANGED <<pc, work>>
  <2>1. Filing(r)'
      BY <1>1, <1>2, FilingFrame DEF Filed, Known
  <2> QED
      BY <1>1, <1>2, <2>1, FiledMove DEF Filed
<1>3. ASSUME NEW set, NEW key, GoodKey(key), Files(r, a, set, key) PROVE Filed'
  <2>1. pc'[r] = "lock" /\ \A q \in Requests \ {r} : pc'[q] = pc[q] /\ work'[q] = work[q]
      BY <1>3 DEF Files, Types
  <2>2. work'[r].key = key /\ work'[r].wanted = LocksOf(key)
      BY <1>3 DEF Files, Types, IdleWork
  <2>3. GoodKey(work'[r].key)
      BY <1>3, <2>2
  <2>4. Filing(r)'
      BY <1>1, <2>1, <2>2, <2>3 DEF Filing, Filed, Running, After, GoodKey, LocksOf
  <2> QED
      BY <1>1, <2>1, <2>4, FiledMove DEF Filed, Running
<1> QED
    BY <1>1, <1>2, <1>3

LEMMA FiledLock ==
    ASSUME Types, Filed, NEW r \in Requests, Lock(r) PROVE Filed'
<1> DEFINE l == NextLock(work[r].wanted)
<1>1. /\ pc[r] = "lock"
      /\ UNCHANGED <<due, row, draft, cooldown, jobs, announced>>
      /\ \/ /\ work[r].wanted = {}
            /\ pc' = [pc EXCEPT ![r] = "find"]
            /\ UNCHANGED <<work, lockOf>>
         \/ /\ lockOf[l] \in {Nobody, r}
            /\ lockOf' = [lockOf EXCEPT ![l] = r]
            /\ work' = [work EXCEPT ![r].wanted = @ \ {l}]
            /\ UNCHANGED pc
    BY DEF Lock, db, outside
<1> HIDE DEF l
<1>2. Filing(r)
    BY DEF Filed
<1>3. CASE work[r].wanted = {} /\ pc' = [pc EXCEPT ![r] = "find"] /\ UNCHANGED <<work, lockOf>>
  <2>1. pc'[r] = "find" /\ \A q \in Requests \ {r} : pc'[q] = pc[q]
      BY <1>3 DEF Types
  <2>2. Filing(r)'
      BY <1>1, <1>2, <1>3, <2>1 DEF Filing, Running, After, GoodKey, LocksOf
  <2> QED
      BY <1>1, <1>3, <2>1, <2>2, FiledMove DEF Filed, Running
<1>4. CASE /\ lockOf[l] \in {Nobody, r} /\ lockOf' = [lockOf EXCEPT ![l] = r]
           /\ work' = [work EXCEPT ![r].wanted = @ \ {l}] /\ UNCHANGED pc
  <2>1. /\ \A q \in Requests \ {r} : work'[q] = work[q]
        /\ work'[r].key = work[r].key /\ work'[r].wanted = work[r].wanted \ {l}
      BY <1>4 DEF Types, WorkFields
  <2>2. \A q \in Requests, m \in LockNames : lockOf[m] = q => lockOf'[m] = q
      BY <1>4, NamesAssumption DEF Types
  <2>3. l \in LockNames => lockOf'[l] = r
      BY <1>4 DEF Types
  <2>4. GoodKey(work[r].key) /\ \A m \in LocksOf(work[r].key) : m \in work[r].wanted \/ lockOf[m] = r
      BY <1>1, <1>2 DEF Filing
  <2>5. \A m \in LocksOf(work[r].key) : m \in work[r].wanted \ {l} \/ lockOf'[m] = r
      BY <2>2, <2>3, <2>4 DEF GoodKey
  <2>6. GoodKey(work[r].key)' /\ LocksOf(work[r].key)' = LocksOf(work[r].key)
      BY <2>1, <2>4 DEF GoodKey, LocksOf
  <2>7. Filing(r)'
      BY <1>1, <1>2, <1>4, <2>1, <2>5, <2>6 DEF Filing, Running, After
  <2> QED
      BY <1>1, <1>4, <2>1, <2>2, <2>7, FiledMove DEF Filed
<1> QED
    BY <1>1, <1>3, <1>4

\* Before a row may be touched, all the locks of the key are held.
LEMMA LocksAreHeld ==
    ASSUME Filed, NEW r \in Requests, pc[r] \in {"find", "link", "save"}
    PROVE  GoodKey(work[r].key) /\ Holds(r, work[r].key)
    BY DEF Filed, Filing, Holds

LEMMA FiledFind ==
    ASSUME Types, Filed, NEW r \in Requests, Find(r) PROVE Filed'
<1>1. PICK i : Joins(r, i) \/ Opens(r, i)
    BY FindEffect
<1>2. \E rec : Takes(r, i, rec)
    BY <1>1 DEF Joins, Opens
<1>3. PICK rec : Takes(r, i, rec)
    BY <1>2
<1>4. /\ pc[r] = "find" /\ i \in Incidents
      /\ UNCHANGED <<row, lockOf, cooldown, jobs, announced>>
    BY <1>3 DEF Takes
<1>5. pc'[r] = "link" /\ \A q \in Requests \ {r} : pc'[q] = pc[q] /\ work'[q] = work[q]
    BY <1>3 DEF Takes, Types
<1>6. work'[r].inc = i /\ work'[r].key = work[r].key /\ work'[r].wanted = work[r].wanted
    BY <1>3 DEF Takes, Types, WorkFields
<1>7. /\ due'[r].publish = due[r].publish \cup {i}
      /\ \A q \in Requests \ {r} : due'[q] = due[q]
    BY <1>3 DEF Takes, Types
<1>8. Filing(r) /\ Drafted(i)
    BY <1>4 DEF Filed
<1>9. GoodKey(work[r].key)' /\ \A l \in LocksOf(work[r].key)' : lockOf'[l] = r
    BY <1>4, <1>6, LocksAreHeld DEF GoodKey, LocksOf, Holds
<1>10. ASSUME draft'[i].by = r \/ Known(i), \A j : draft[j].by = r => draft'[j].by = r
       PROVE  Filing(r)'
  <2>1. draft'[work'[r].inc].by = r \/ Known(work[r].inc)'
      BY <1>4, <1>6, <1>10 DEF Known
  <2>2. \A j \in due'[r].publish : draft'[j].by = r \/ work'[r].inc = j
      BY <1>4, <1>6, <1>7, <1>8, <1>10 DEF Filing, Running
  <2> QED
      BY <1>4, <1>5, <1>6, <1>7, <1>8, <1>9, <2>1, <2>2 DEF Filing, Running, After
<1>11. CASE Joins(r, i)
  <2>1. Version(r, i) # NoIncident /\ draft' = draft
      BY <1>11 DEF Joins
  <2>2. draft[i].by = r \/ Known(i)
      BY <1>8, <2>1 DEF Version, Drafted
  <2>3. Filing(r)'
      BY <1>10, <2>1, <2>2
  <2> QED
      BY <1>4, <1>5, <1>7, <2>1, <2>3, FiledMove DEF Filed, Running
<1>12. CASE Opens(r, i)
  <2>1. /\ i \notin ManualIds /\ row[i] = NoIncident /\ draft[i] = NoDraft
        /\ draft' = [draft EXCEPT ![i] = [by |-> r, rec |-> NewIncident(work[r])]]
      BY <1>12 DEF Opens
  <2>2. /\ draft'[i].by = r /\ draft'[i].rec.key = work[r].key
        /\ \A j \in Incidents \ {i} : draft'[j] = draft[j]
      BY <1>4, <2>1 DEF Types, NewIncident
  <2>3. draft[i].by \notin Requests
      BY <2>1, NamesAssumption DEF NoDraft
  <2>4. Filing(r)'
    <3>1. \A j \in Incidents : draft[j].by = r => draft'[j].by = r
        BY <2>2
    <3>2. \A j \in due'[r].publish : draft'[j].by = r \/ work'[r].inc = j
      <4>1. due[r].publish \subseteq Incidents
          BY DEF Types
      <4> QED
          BY <1>4, <1>6, <1>7, <1>8, <3>1, <4>1 DEF Filing, Running
    <3> QED
        BY <1>4, <1>5, <1>6, <1>7, <1>8, <1>9, <2>2, <3>2 DEF Filing, Running, After
  <2>5. ASSUME NEW q \in Requests PROVE Filing(q)'
    <3>1. CASE q = r
        BY <2>4, <3>1
    <3>2. CASE q # r
      <4>1. \A j \in Incidents : draft[j].by = q => draft'[j].by = q
          BY <2>2, <2>3
      <4>2. \A j \in Incidents : Known(j) => Known(j)'
          BY <1>4 DEF Known
      <4>3. Filing(q)
          BY DEF Filed
      <4> QED
          BY <1>4, <1>5, <1>7, <3>2, <4>1, <4>2, <4>3, FilingFrame
    <3> QED
        BY <3>1, <3>2
  <2>6. ASSUME NEW j \in Incidents PROVE Drafted(j)'
    <3>1. CASE j = i
      <4>1. GoodKey(work[r].key) /\ Holds(r, work[r].key)
          BY <1>4, LocksAreHeld
      <4>2. \A k : k = work[r].key => GoodKey(k)' /\ Holds(r, k)'
          BY <1>4, <4>1 DEF GoodKey, Holds, LocksOf
      <4>3. GoodKey(draft[i].rec.key)' /\ Holds(r, draft[i].rec.key)'
          BY <2>2, <4>2
      <4> QED
          BY <1>4, <1>5, <1>7, <2>1, <2>2, <3>1, <4>3 DEF Drafted, GoodKey, Running
    <3>2. CASE j # i
      <4>1. Drafted(j) /\ draft'[j] = draft[j] /\ row'[j] = row[j]
          BY <1>4, <2>2, <3>2 DEF Filed
      <4> QED
          BY <1>4, <1>5, <1>7, <4>1, DraftFrame DEF Running
    <3> QED
        BY <3>1, <3>2
  <2> QED
      BY <1>4, <2>5, <2>6 DEF Filed, Known
<1> QED
    BY <1>1, <1>11, <1>12

LEMMA FiledLink ==
    ASSUME Types, Filed, NEW r \in Requests, Link(r), ~Fail(r) PROVE Filed'
<1>1. /\ pc[r] = "link" /\ pc' = [pc EXCEPT ![r] = "save"]
      /\ UNCHANGED <<due, row, draft, lockOf, cooldown, jobs, announced>>
      /\ work' = [work EXCEPT ![r].rec =
                     Recomputed(work[r], SeenLinks(r, work[r].inc) \cup work[r].missing)]
    BY DEF Link, outside
<1>2. pc'[r] = "save" /\ \A q \in Requests \ {r} : pc'[q] = pc[q] /\ work'[q] = work[q]
    BY <1>1 DEF Types
<1>3. /\ work'[r].inc = work[r].inc /\ work'[r].key = work[r].key
      /\ work'[r].wanted = work[r].wanted /\ work'[r].rec.key = work[r].key
    BY <1>1 DEF Types, WorkFields, Recomputed
<1>4. Filing(r)
    BY DEF Filed
<1>5. Known(work[r].inc)' <=> Known(work[r].inc)
    BY <1>1, <1>3 DEF Known
<1>6. GoodKey(work[r].key)' /\ \A l \in LocksOf(work[r].key)' : lockOf'[l] = r
    BY <1>1, <1>3, LocksAreHeld DEF GoodKey, LocksOf, Holds
<1>7. Filing(r)'
    BY <1>1, <1>2, <1>3, <1>4, <1>5, <1>6 DEF Filing, Running, After
<1> QED
    BY <1>1, <1>2, <1>7, FiledMove DEF Filed, Running

LEMMA FiledSave ==
    ASSUME Types, Filed, NEW r \in Requests, Save(r) PROVE Filed'
<1>0. work[r].inc \in Incidents
    BY DEF Save, Types
<1> PICK i \in Incidents : i = work[r].inc
    BY <1>0
<1> DEFINE base == Version(r, i)
<1> DEFINE written == [f \in Columns |-> IF work[r].rec[f] # work[r].loaded[f]
                                         THEN work[r].rec[f] ELSE base[f]]
<1>1. /\ pc[r] = "save" /\ draft[i].by \in {r, Nobody}
      /\ draft' = [draft EXCEPT ![i] = [by |-> r, rec |-> written]]
      /\ work' = [work EXCEPT ![r] = IdleWork]
      /\ pc' = [pc EXCEPT ![r] = "relate"]
      /\ UNCHANGED <<due, row, lockOf, cooldown, jobs, announced>>
    BY DEF Save, outside
<1>3. Filing(r) /\ Drafted(i)
    BY DEF Filed
<1>4. draft[i].by = r \/ Known(i)
    BY <1>1, <1>3 DEF Filing
<1>5. written.key = work[r].key \/ written.key = base.key
    BY <1>1, <1>3 DEF Columns, Filing
<1>6. GoodKey(work[r].key) /\ Holds(r, work[r].key)
    BY <1>1, LocksAreHeld
<1>7. /\ written.key # <<>>
      /\ written.key = row[i].key \/ (GoodKey(written.key) /\ Holds(r, written.key))
  <2>1. CASE draft[i].by = r
    <3>1. /\ base.key # <<>>
          /\ base.key = row[i].key \/ (GoodKey(base.key) /\ Holds(r, base.key))
        BY <1>3, <2>1 DEF Version, Drafted
    <3> HIDE DEF base, written
    <3> QED
        BY <1>5, <1>6, <3>1 DEF GoodKey
  <2>2. CASE draft[i].by # r
    <3>1. base.key = row[i].key /\ base.key # <<>>
        BY <1>4, <2>2 DEF Version, Known
    <3> HIDE DEF base, written
    <3> QED
        BY <1>5, <1>6, <3>1 DEF GoodKey
  <2> QED
      BY <2>1, <2>2
<1> HIDE DEF written, base
<1>8. i \in due[r].publish
    BY <1>1, <1>3 DEF Filing
<1>9. /\ draft'[i] = [by |-> r, rec |-> written]
      /\ \A j \in Incidents \ {i} : draft'[j] = draft[j]
    BY <1>1 DEF Types
<1>10. pc'[r] = "relate" /\ \A q \in Requests \ {r} : pc'[q] = pc[q] /\ work'[q] = work[q]
    BY <1>1 DEF Types
<1>11. \A j \in Incidents : Known(j) => Known(j)'
    BY <1>1 DEF Known
<1>12. ASSUME NEW q \in Requests PROVE Filing(q)'
  <2>1. CASE q = r
    <3>1. \A j \in due[r].publish : draft'[j].by = r
      <4> SUFFICES ASSUME NEW j \in due[r].publish PROVE draft'[j].by = r
          OBVIOUS
      <4>1. j \in Incidents
          BY DEF Types
      <4> QED
          BY <1>1, <1>3, <1>9, <4>1 DEF Filing, Running
    <3> QED
        BY <1>1, <1>10, <2>1, <3>1 DEF Filing, Running, After
  <2>2. CASE q # r
    <3>1. \A j \in Incidents : draft[j].by = q => draft'[j].by = q
        BY <1>1, <1>9, <2>2, NamesAssumption
    <3>2. Filing(q)
        BY DEF Filed
    <3> QED
        BY <1>1, <1>10, <1>11, <2>2, <3>1, <3>2, FilingFrame
  <2> QED
      BY <2>1, <2>2
<1>13. ASSUME NEW j \in Incidents PROVE Drafted(j)'
  <2>1. CASE j = i
    <3>1. \A k : GoodKey(k) /\ Holds(r, k) => GoodKey(k)' /\ Holds(r, k)'
        BY <1>1 DEF GoodKey, Holds, LocksOf
    <3>3. ~(i \in ManualIds /\ row[i] = NoIncident)
        BY <1>3, <1>4, NamesAssumption DEF Drafted, Known, NoIncident, NoDraft
    <3>4. draft'[i].by = r /\ draft'[i].rec.key = written.key
        BY <1>9
    <3>5. GoodKey(written.key) /\ Holds(r, written.key)
          => \A k : k = written.key => GoodKey(k)' /\ Holds(r, k)'
        BY <3>1
    <3>6. \/ draft'[i].rec.key = row'[i].key
          \/ GoodKey(draft[i].rec.key)' /\ Holds(r, draft[i].rec.key)'
        BY <1>1, <1>7, <3>4, <3>5 DEF GoodKey, Holds
    <3>7. draft'[i].by \in Requests /\ row'[i] = row[i] /\ draft'[i].rec.key # <<>>
        BY <1>1, <1>7, <3>4
    <3>8. \A q \in Requests : draft'[i].by = q => q = r
        BY <3>4
    <3>9. pc'[r] \in Running /\ i \in due'[r].publish
        BY <1>1, <1>8, <1>10 DEF Running
    <3>10. row'[i] = NoIncident \/ Known(i)'
        BY <1>3, <3>7 DEF Drafted, Known
    <3> QED
        BY <2>1, <3>3, <3>6, <3>7, <3>8, <3>9, <3>10 DEF Drafted
  <2>2. CASE j # i
    <3>1. Drafted(j) /\ draft'[j] = draft[j] /\ row'[j] = row[j]
        BY <1>1, <1>9, <2>2 DEF Filed
    <3> QED
        BY <1>1, <1>10, <3>1, DraftFrame DEF Running
  <2> QED
      BY <2>1, <2>2
<1> QED
    BY <1>1, <1>12, <1>13 DEF Filed, Known

\* The commit makes the drafts of the request the rows.
LEMMA FiledCommit ==
    ASSUME Types, Whole, Filed, NEW r \in Requests, Commit(r) PROVE Filed'
<1>1. /\ pc[r] = "commit"
      /\ row' = [i \in Incidents |-> IF i \in due[r].publish THEN Version(r, i) ELSE row[i]]
      /\ draft' = [i \in Incidents |-> IF i \in due[r].publish THEN NoDraft ELSE draft[i]]
      /\ lockOf' = [l \in LockNames |-> IF lockOf[l] = r THEN Nobody ELSE lockOf[l]]
      /\ UNCHANGED <<work, announced, jobs, cooldown>>
    BY DEF Commit, Unlock, outside
<1>2. pc'[r] \in {"publish", "dispatch"} /\ \A q \in Requests \ {r} : pc'[q] = pc[q]
    BY DEF Commit, Types
<1>3. /\ due'[r].publish = due[r].publish
      /\ due'[r].dispatch \subseteq due[r].publish
      /\ \A q \in Requests \ {r} : due'[q] = due[q]
    BY DEF Commit, Types
<1>4. due[r].publish \subseteq Incidents
    BY DEF Types
<1>5. Filing(r)
    BY DEF Filed
<1>6. \A i \in due[r].publish : draft[i].by = r
    BY <1>1, <1>5 DEF Filing, Running
<1>7. \A i \in due[r].publish : row'[i].key # <<>>
    BY <1>1, <1>4, <1>6 DEF Filed, Drafted, Version
<1>8. \A i \in Incidents : Known(i) => Known(i)'
    BY <1>1, <1>7 DEF Known
<1>9. ASSUME NEW q \in Requests PROVE Filing(q)'
  <2>1. CASE q = r
      BY <1>2, <1>3, <1>7, <2>1 DEF Filing, Running, After, Known
  <2>2. CASE q # r
    <3>1. \A i \in Incidents : draft[i].by = q => draft'[i].by = q
        BY <1>1, <1>6, <2>2
    <3>2. \A l \in LockNames : lockOf[l] = q => lockOf'[l] = q
        BY <1>1, <2>2
    <3>3. Filing(q)
        BY DEF Filed
    <3> QED
        BY <1>1, <1>2, <1>3, <1>8, <2>2, <3>1, <3>2, <3>3, FilingFrame
  <2> QED
      BY <2>1, <2>2
<1>10. ASSUME NEW i \in Incidents PROVE Drafted(i)'
  <2>1. Drafted(i)
      BY DEF Filed
  <2>2. CASE i \in due[r].publish
    <3>1. draft'[i] = NoDraft /\ row'[i].key # <<>>
        BY <1>1, <1>7, <2>2
    <3> QED
        BY <3>1, NamesAssumption DEF Drafted, NoDraft, Known
  <2>3. CASE i \notin due[r].publish
    <3>1. draft'[i] = draft[i] /\ row'[i] = row[i] /\ draft[i].by # r
        BY <1>1, <2>1, <2>3 DEF Drafted
    <3>2. \A q \in Requests : q # r =>
              \A l \in LockNames : lockOf[l] = q => lockOf'[l] = q
        BY <1>1
    <3> QED
        BY <1>2, <1>3, <2>1, <3>1, <3>2, DraftFrame
  <2> QED
      BY <2>2, <2>3
<1>11. \A i \in announced \cup jobs \cup cooldown : i \in Incidents /\ Known(i)
    BY DEF Filed, Types
<1> QED
    BY <1>1, <1>8, <1>9, <1>10, <1>11 DEF Filed

LEMMA FiledPublish ==
    ASSUME Types, Filed, NEW r \in Requests, Publish(r) PROVE Filed'
<1>1. /\ pc[r] = "publish"
      /\ UNCHANGED <<work, due, row, draft, lockOf, jobs, cooldown>>
    BY DEF Publish, db
<1>2. pc'[r] \in {"dispatch", "audit"} /\ \A q \in Requests \ {r} : pc'[q] = pc[q]
    BY DEF Publish, Types
<1>3. Filing(r)
    BY DEF Filed
<1>4. \A i \in due[r].publish \cup due[r].dispatch : Known(i)
    BY <1>1, <1>3 DEF Filing, After
<1>5. Filing(r)'
    BY <1>1, <1>2, <1>4 DEF Filing, Running, After, Known
<1>6. announced' \subseteq announced \cup due[r].publish
    BY DEF Publish
<1> QED
    BY <1>1, <1>2, <1>4, <1>5, <1>6, FiledMove DEF Filed, Running

LEMMA FiledDispatch ==
    ASSUME Types, Filed, NEW r \in Requests, Dispatch(r) PROVE Filed'
<1>1. /\ pc[r] = "dispatch"
      /\ UNCHANGED <<row, draft, lockOf, jobs, announced>>
    BY DispatchEffect
<1>2. Filing(r)
    BY DEF Filed
<1>3. \A i \in due[r].publish \cup due[r].dispatch : Known(i)
    BY <1>1, <1>2 DEF Filing, After
<1>4. CASE MovesOn(r)
  <2>1. pc'[r] \in {"audit", "publish"} /\ \A q \in Requests \ {r} : pc'[q] = pc[q]
      BY <1>4 DEF MovesOn, Types
  <2>2. Filing(r)'
      BY <1>1, <1>3, <1>4, <2>1 DEF MovesOn, Filing, Running, After, Known
  <2> QED
      BY <1>1, <1>4, <2>1, <2>2, FiledMove DEF MovesOn, Filed, Running
<1>5. ASSUME NEW i, i \in due[r].dispatch, due' = [due EXCEPT ![r].dispatch = @ \ {i}]
      PROVE  /\ due'[r].publish = due[r].publish /\ due'[r].dispatch \subseteq due[r].dispatch
             /\ \A q \in Requests \ {r} : due'[q] = due[q]
    BY <1>5 DEF Types
<1>6. ASSUME NEW i, Passes(r, i) PROVE Filed'
  <2>1. /\ due'[r].publish = due[r].publish /\ due'[r].dispatch \subseteq due[r].dispatch
        /\ \A q \in Requests \ {r} : due'[q] = due[q]
      BY <1>5, <1>6 DEF Passes
  <2>2. UNCHANGED <<pc, work, cooldown>>
      BY <1>6 DEF Passes
  <2>3. Filing(r)'
      BY <1>1, <1>3, <2>1, <2>2 DEF Filing, Running, After, Known
  <2> QED
      BY <1>1, <2>1, <2>2, <2>3, FiledMove DEF Filed
<1>7. ASSUME NEW i, Claims(r, i) PROVE Filed'
  <2>1. /\ due'[r].publish = due[r].publish /\ due'[r].dispatch \subseteq due[r].dispatch
        /\ \A q \in Requests \ {r} : due'[q] = due[q]
      BY <1>5, <1>7 DEF Claims
  <2>2. /\ pc'[r] = "request" /\ work'[r].inc = i
        /\ \A q \in Requests \ {r} : pc'[q] = pc[q] /\ work'[q] = work[q]
      BY <1>7 DEF Claims, Types, WorkFields
  <2>3. Known(i) /\ cooldown' = cooldown \cup {i}
      BY <1>3, <1>7 DEF Claims
  <2>4. Filing(r)'
      BY <1>1, <1>3, <2>1, <2>2, <2>3 DEF Filing, Running, After, Known
  <2> QED
      BY <1>1, <2>1, <2>2, <2>3, <2>4, FiledMove DEF Filed, Running
<1> QED
    BY <1>4, <1>6, <1>7, DispatchEffect

LEMMA FiledRequest ==
    ASSUME Types, Filed, NEW r \in Requests, RequestInvestigation(r) PROVE Filed'
<1>1. /\ pc[r] = "request" /\ UNCHANGED <<work, due, row, draft, lockOf, announced>>
      /\ jobs' \cup cooldown' \subseteq jobs \cup cooldown \cup {work[r].inc}
    BY DEF RequestInvestigation, db
<1>2. pc'[r] = "dispatch" /\ \A q \in Requests \ {r} : pc'[q] = pc[q]
    BY DEF RequestInvestigation, Types
<1>3. Filing(r)
    BY DEF Filed
<1>4. (\A i \in due[r].publish \cup due[r].dispatch : Known(i)) /\ Known(work[r].inc)
    BY <1>1, <1>3 DEF Filing, After
<1>5. Filing(r)'
    BY <1>1, <1>2, <1>4 DEF Filing, Running, After, Known
<1> QED
    BY <1>1, <1>2, <1>4, <1>5, FiledMove DEF Filed, Running

LEMMA FiledAudit ==
    ASSUME Types, Filed, NEW r \in Requests, Audit(r) PROVE Filed'
<1>1. pc[r] = "audit" /\ UNCHANGED <<work, due, row, draft, lockOf, announced, jobs, cooldown>>
    BY DEF Audit, db, outside
<1>2. pc'[r] = "done" /\ \A q \in Requests \ {r} : pc'[q] = pc[q]
    BY DEF Audit, Types
<1>3. Filing(r)'
    BY <1>1, <1>2 DEF Filing, Running, After
<1> QED
    BY <1>1, <1>2, <1>3, FiledMove DEF Filed, Running

LEMMA FiledCrash ==
    ASSUME Types, Whole, Filed, NEW r \in Requests, Crash(r) PROVE Filed'
<1>1. pc' = [pc EXCEPT ![r] = "crashed"] /\ UNCHANGED <<work, due, announced, jobs, cooldown>>
    BY DEF Crash, outside
<1>2. CASE r \notin committed
    BY <1>1, <1>2, FiledFail DEF Crash
<1>3. CASE r \in committed
  <2>1. UNCHANGED <<row, draft, lockOf>>
      BY <1>3 DEF Crash, db
  <2>2. pc[r] \notin Running
      BY <1>3, RunningIsOpen
  <2>3. pc'[r] = "crashed" /\ \A q \in Requests \ {r} : pc'[q] = pc[q]
      BY <1>1 DEF Types
  <2>4. Filing(r)'
      BY <2>3 DEF Filing, Running, After
  <2> QED
      BY <1>1, <2>1, <2>2, <2>3, <2>4, FiledMove DEF Filed
<1> QED
    BY <1>2, <1>3

LEMMA FiledExpire ==
    ASSUME Types, Filed, NEW i \in Incidents, Expire(i) PROVE Filed'
<1>1. UNCHANGED <<pc, work, due, row, draft, lockOf, jobs, announced>> /\ cooldown' \subseteq cooldown
    BY DEF Expire, tx, db
<1>2. ASSUME NEW r \in Requests PROVE Filing(r)'
    BY <1>1, FilingFrame DEF Filed, Known
<1>3. ASSUME NEW j \in Incidents PROVE Drafted(j)'
    BY <1>1, DraftFrame DEF Filed
<1> QED
    BY <1>1, <1>2, <1>3 DEF Filed, Known

LEMMA FiledCreateManual ==
    ASSUME Types, Filed, NEW i \in Incidents, NEW m \in Manual, CreateManual(i, m) PROVE Filed'
<1>1. /\ UNCHANGED <<pc, work, due, draft, lockOf, jobs, cooldown>>
      /\ announced' = announced \cup {i} /\ i \in ManualIds /\ row[i] = NoIncident
    BY DEF CreateManual, tx
<1>2. row'[i].key # <<>> /\ \A j \in Incidents \ {i} : row'[j] = row[j]
    BY DEF CreateManual, Types
<1>3. \A j \in Incidents : Known(j) => Known(j)'
    BY <1>2 DEF Known
<1>4. ASSUME NEW r \in Requests PROVE Filing(r)'
    BY <1>1, <1>3, FilingFrame DEF Filed
<1>5. ASSUME NEW j \in Incidents PROVE Drafted(j)'
  <2>1. CASE j = i
    <3>1. draft'[j] = NoDraft
        BY <1>1, <2>1 DEF Filed, Drafted
    <3> QED
        BY <1>2, <2>1, <3>1, NamesAssumption DEF Drafted, NoDraft, Known
  <2>2. CASE j # i
      BY <1>1, <1>2, <2>2, DraftFrame DEF Filed
  <2> QED
      BY <2>1, <2>2
<1>6. \A j \in announced \cup jobs \cup cooldown : j \in Incidents /\ Known(j)
    BY DEF Filed, Types
<1> QED
    BY <1>1, <1>2, <1>3, <1>4, <1>5, <1>6 DEF Filed, Known

LEMMA FiledKept == Types /\ Whole /\ Filed /\ [Next]_vars => Filed'
<1> SUFFICES ASSUME Types, Whole, Filed, [Next]_vars PROVE Filed'
    OBVIOUS
<1>1. CASE UNCHANGED vars
  <2>1. UNCHANGED <<pc, work, due, row, draft, lockOf, jobs, announced, cooldown>>
      BY <1>1 DEF vars, tx, db, outside
  <2>2. ASSUME NEW r \in Requests PROVE Filing(r)'
      BY <2>1, FilingFrame DEF Filed, Known
  <2>3. ASSUME NEW j \in Incidents PROVE Drafted(j)'
      BY <2>1, DraftFrame DEF Filed
  <2> QED
      BY <2>1, <2>2, <2>3 DEF Filed, Known
<1>2. ASSUME NEW r \in Requests, Fail(r) PROVE Filed'
    BY <1>2, FiledFail DEF Fail, outside
<1>3. ASSUME NEW r \in Requests, Step(r) \/ Crash(r) PROVE Filed'
    BY <1>2, <1>3, FiledBegin, FiledStore, FiledNextEvent, FiledRelate, FiledLock, FiledFind,
       FiledLink, FiledSave, FiledCommit, FiledPublish, FiledDispatch, FiledRequest, FiledAudit,
       FiledCrash DEF Step, Deadlock
<1> QED
    BY <1>1, <1>3, FiledExpire, FiledCreateManual DEF Next

LEMMA FiledAlways == Spec => [](Types /\ Whole /\ Filed)
<1>1. Init => Types /\ Whole /\ Filed
    BY TypesInit, WholeInit, FiledInit
<1>2. Types /\ Whole /\ Filed /\ [Next]_vars => (Types /\ Whole /\ Filed)'
    BY TypesKept, WholeKept, FiledKept
<1> QED
    BY <1>1, <1>2, PTL DEF Spec

\* What is announced, dispatched or asked for is committed (create_event,
\* create_events_bulk and create_manual_incident commit before they publish).
THEOREM NothingLeavesBeforeCommit == Spec => []SideEffectsAfterCommit
<1>1. Filed => SideEffectsAfterCommit
    BY DEF Filed, SideEffectsAfterCommit, Known, NoIncident
<1> QED
    BY <1>1, FiledAlways, PTL

\* Only the step that finds no incident opens one: every other step leaves a
\* row without draft and version alone.
Opening(r, i) == draft[i] = NoDraft /\ row[i] = NoIncident /\ draft'[i].by = r

LEMMA OpenedByFind ==
    ASSUME Types, Filed, Next, NEW r \in Requests, NEW i \in Incidents, Opening(r, i)
    PROVE  Opens(r, i)
<1>0. NoDraft.by = Nobody /\ r # Nobody /\ draft[i].by # r
    BY NamesAssumption DEF NoDraft, Opening
<1>1. ASSUME draft' = draft PROVE FALSE
    BY <1>0, <1>1 DEF Opening
<1>2. ASSUME NEW q \in Requests, Rollback(q) PROVE FALSE
    BY <1>0, <1>2 DEF Rollback, Opening
<1>3. ASSUME NEW q \in Requests, Save(q) PROVE FALSE
  <2>1. /\ pc[q] = "save"
        /\ \E v : draft' = [draft EXCEPT ![work[q].inc] = [by |-> q, rec |-> v]]
      BY <1>3 DEF Save
  <2>2. i = work[q].inc
      BY <1>0, <2>1 DEF Opening, Types
  <2>3. draft[i].by = q \/ Known(i)
      BY <2>1, <2>2 DEF Filed, Filing
  <2> QED
      BY <1>0, <2>3, NamesAssumption DEF Opening, Known, NoIncident
<1>4. ASSUME NEW q \in Requests, Commit(q) PROVE FALSE
    BY <1>0, <1>4 DEF Commit, Opening
<1>5. ASSUME NEW q \in Requests, Find(q) PROVE Opens(r, i)
  <2>1. PICK j : Joins(q, j) \/ Opens(q, j)
      BY <1>5, FindEffect
  <2>2. Opens(q, j)
      BY <1>1, <2>1 DEF Joins
  <2>3. /\ j \in Incidents
        /\ draft' = [draft EXCEPT ![j] = [by |-> q, rec |-> NewIncident(work[q])]]
      BY <2>2 DEF Opens, Takes
  <2>4. j = i
      BY <1>0, <2>3 DEF Opening, Types
  <2>5. q = r
      BY <2>3, <2>4 DEF Opening, Types
  <2> QED
      BY <2>2, <2>4, <2>5
<1>6. ASSUME NEW q \in Requests, Fail(q) PROVE FALSE
    BY <1>2, <1>6 DEF Fail
<1>7. ASSUME NEW q \in Requests, Store(q) PROVE FALSE
    BY <1>1, <1>6, <1>7 DEF Store
<1>8. ASSUME NEW q \in Requests, Link(q) PROVE FALSE
    BY <1>1, <1>6, <1>8 DEF Link
<1>9. ASSUME NEW q \in Requests, Dispatch(q) PROVE FALSE
    BY <1>1, <1>9, DispatchEffect
<1>10. ASSUME NEW q \in Requests, Crash(q) PROVE FALSE
    BY <1>1, <1>2, <1>10 DEF Crash, db
<1>11. ASSUME NEW q \in Requests,
              \/ Begin(q) \/ NextEvent(q) \/ Relate(q) \/ Lock(q)
              \/ Publish(q) \/ RequestInvestigation(q) \/ Audit(q)
       PROVE  FALSE
  <2>1. UNCHANGED draft
      BY <1>11 DEF Begin, NextEvent, Relate, Lock, Publish, RequestInvestigation, Audit, db
  <2> QED
      BY <1>1, <2>1
<1>12. ASSUME NEW j \in Incidents, Expire(j) \/ \E m \in Manual : CreateManual(j, m) PROVE FALSE
    BY <1>1, <1>12 DEF Expire, CreateManual, db
<1> QED
    BY <1>3, <1>4, <1>5, <1>6, <1>7, <1>8, <1>9, <1>10, <1>11, <1>12 DEF Next, Step, Deadlock

\* Whoever opens an incident holds the locks of its key; so nobody else is
\* opening one under that key, or moving one to it, and no open one fits.
LEMMA OpensAlone ==
    ASSUME Types, Filed, NEW r \in Requests, NEW i \in Incidents, Opens(r, i),
           NEW j \in Incidents \ {i}
    PROVE  /\ Version(r, j).key = work[r].key => Version(r, j).last \notin Window(work[r].alert)
           /\ draft[j].by \notin {r, Nobody} /\ draft[j].rec.key = work[r].key
                  => row[j].key = work[r].key
<1>1. GoodKey(work[r].key) /\ Holds(r, work[r].key)
    BY LocksAreHeld DEF Opens, Takes
<1>2. ASSUME Version(r, j).key = work[r].key
      PROVE  Version(r, j).last \notin Window(work[r].alert)
  <2>1. Version(r, j) # NoIncident
      BY <1>1, <1>2 DEF GoodKey, NoIncident
  <2>2. ~Matches(Version(r, j), work[r].key, work[r].alert)
      BY <2>1 DEF Opens
  <2> QED
      BY <1>2, <2>2 DEF Matches
<1>3. ASSUME draft[j].by \notin {r, Nobody}, draft[j].rec.key = work[r].key
      PROVE  row[j].key = work[r].key
  <2>1. Drafted(j)
      BY DEF Filed
  <2>2. draft[j].by \in Requests
      BY <1>3, <2>1 DEF Drafted, NoDraft
  <2>3. CASE Holds(draft[j].by, work[r].key)
      BY <1>1, <1>3, <2>3 DEF GoodKey, Holds
  <2> QED
      BY <1>3, <2>1, <2>2, <2>3 DEF Drafted
<1> QED
    BY <1>2, <1>3

\* One identity, one incident (acquire_correlation_lock before the search).
THEOREM OneIncident == Spec => OneIncidentPerKey
<1> DEFINE Alone ==
        \A r \in Requests, i \in Incidents :
            draft[i] = NoDraft /\ row[i] = NoIncident /\ draft'[i].by = r
            => \A j \in Incidents \ {i} :
                    /\ Version(r, j).key = work[r].key
                       => Version(r, j).last \notin Window(work[r].alert)
                    /\ draft[j].by \notin {r, Nobody} /\ draft[j].rec.key = work[r].key
                       => row[j].key = work[r].key
<1>1. Types /\ Filed /\ [Next]_vars => [Alone]_vars
  <2> SUFFICES ASSUME Types, Filed, Next, NEW r \in Requests, NEW i \in Incidents, Opening(r, i),
                      NEW j \in Incidents \ {i}
               PROVE  /\ Version(r, j).key = work[r].key
                         => Version(r, j).last \notin Window(work[r].alert)
                      /\ draft[j].by \notin {r, Nobody} /\ draft[j].rec.key = work[r].key
                         => row[j].key = work[r].key
      BY DEF Opening
  <2>1. Opens(r, i)
      BY OpenedByFind
  <2> QED
      BY <2>1, OpensAlone
<1>2. Spec => [][Alone]_vars
    BY <1>1, FiledAlways, PTL DEF Spec
<1> QED
    BY <1>2 DEF OneIncidentPerKey

-----------------------------------------------------------------------------
\* A success after failures and an initial access that its request can see are
\* followed from the alert's turn to the links of one incident.
Compromise(a, b) ==
    /\ b.rule = "login_after_failures" /\ a.rule \in InitialAccess
    /\ Last(a) \in Last(b) - Lookback .. Last(b)
    /\ \/ User(b) # None /\ User(a) = User(b)
       \/ Ip(b) # None /\ Ip(a) = Ip(b)

Together(r, a, b) == \E i \in Incidents : {a, b} \subseteq SeenLinks(r, i)

Tracked(r) ==
    /\ earlier[r] \subseteq committed
    /\ \A a, b \in alerts :
          owner[b.event] = r /\ owner[a.event] \in earlier[r] /\ Compromise(a, b)
          => \/ b \in todo[r]
             \/ pc[r] \in {"lock", "find"} /\ {a, b} \subseteq work[r].cand
             \/ pc[r] = "link"
                /\ {a, b} \subseteq work[r].missing \cup SeenLinks(r, work[r].inc)
             \/ Together(r, a, b)

Missed ==
    /\ \A r \in Requests : Tracked(r)
    /\ \A x \in alerts : owner[x.event] \in Requests

LEMMA MissedInit == Init => Missed
    BY DEF Init, Missed, Tracked

\* What a request sees stays, whoever commits, fails or stores meanwhile.
SeesOn(r) ==
    /\ committed \subseteq committed'
    /\ \A m \in links : m.by \in committed \cup {r} => m \in links'
    /\ \A x \in alerts' : owner'[x.event] \in committed \cup {r}
                          => x \in alerts /\ owner[x.event] = owner'[x.event]

LEMMA SeenStays ==
    ASSUME NEW r, NEW i, SeesOn(r)
    PROVE  SeenLinks(r, i) \subseteq SeenLinks(r, i)'
    BY DEF SeesOn, SeenLinks, SeesRow

LEMMA TrackedFrame ==
    ASSUME NEW r, Tracked(r), SeesOn(r), earlier'[r] = earlier[r], todo'[r] = todo[r],
           pc'[r] = pc[r], work'[r] = work[r]
    PROVE  Tracked(r)'
<1>1. earlier'[r] \subseteq committed'
    BY DEF Tracked, SeesOn
<1>2. ASSUME NEW a \in alerts', NEW b \in alerts', owner'[b.event] = r,
             owner'[a.event] \in earlier'[r], Compromise(a, b)
      PROVE  \/ b \in todo'[r]
             \/ pc'[r] \in {"lock", "find"} /\ {a, b} \subseteq work'[r].cand
             \/ pc'[r] = "link"
                /\ {a, b} \subseteq work'[r].missing \cup SeenLinks(r, work[r].inc)'
             \/ Together(r, a, b)'
  <2>1. owner'[a.event] \in committed
      BY <1>2 DEF Tracked
  <2>2. /\ a \in alerts /\ b \in alerts
        /\ owner[b.event] = r /\ owner[a.event] \in earlier[r]
      BY <1>2, <2>1 DEF SeesOn
  <2>3. \A i : SeenLinks(r, i) \subseteq SeenLinks(r, i)'
      BY SeenStays
  <2>4. Together(r, a, b) => Together(r, a, b)'
      BY <2>3 DEF Together
  <2>5. \A i : i = work[r].inc => SeenLinks(r, work[r].inc)' = SeenLinks(r, i)'
      BY DEF SeenLinks
  <2>6. SeenLinks(r, work[r].inc) \subseteq SeenLinks(r, work[r].inc)'
      BY <2>3, <2>5
  <2> QED
      BY <1>2, <2>2, <2>4, <2>6 DEF Tracked
<1> QED
    BY <1>1, <1>2 DEF Tracked, Compromise

\* A step of r that keeps what the others see.
LEMMA MissedMove ==
    ASSUME Missed, NEW r \in Requests, \A q \in Requests \ {r} : SeesOn(q),
           \A q \in Requests \ {r} : /\ pc'[q] = pc[q] /\ work'[q] = work[q]
                                     /\ todo'[q] = todo[q] /\ earlier'[q] = earlier[q],
           Tracked(r)', \A x \in alerts' : owner'[x.event] \in Requests
    PROVE  Missed'
<1>1. ASSUME NEW q \in Requests PROVE Tracked(q)'
  <2>1. CASE q = r
      BY <2>1
  <2>2. CASE q # r
      BY <1>1, <2>2, TrackedFrame DEF Missed
  <2> QED
      BY <2>1, <2>2
<1> QED
    BY <1>1 DEF Missed

\* Between alerts there is nothing to follow but what is left or done.
LEMMA TrackedBetween ==
    ASSUME NEW r, Tracked(r), SeesOn(r), earlier'[r] = earlier[r], todo'[r] = todo[r],
           pc[r] \notin {"lock", "find", "link"}
    PROVE  Tracked(r)'
<1>1. earlier'[r] \subseteq committed'
    BY DEF Tracked, SeesOn
<1>2. ASSUME NEW a \in alerts', NEW b \in alerts', owner'[b.event] = r,
             owner'[a.event] \in earlier'[r], Compromise(a, b)
      PROVE  b \in todo'[r] \/ Together(r, a, b)'
  <2>1. owner'[a.event] \in committed
      BY <1>2 DEF Tracked
  <2>2. /\ a \in alerts /\ b \in alerts
        /\ owner[b.event] = r /\ owner[a.event] \in earlier[r]
      BY <1>2, <2>1 DEF SeesOn
  <2>3. Together(r, a, b) => Together(r, a, b)'
      BY SeenStays DEF Together
  <2> QED
      BY <1>2, <2>2, <2>3 DEF Tracked
<1> QED
    BY <1>1, <1>2 DEF Tracked, Compromise

\* Steps that write no event and undo no transaction.
LEMMA MissedQuiet ==
    ASSUME Types, Missed, NEW r \in Requests, UNCHANGED <<owner, alerts, earlier>>,
           committed \subseteq committed', links \subseteq links',
           \A q \in Requests \ {r} : pc'[q] = pc[q] /\ work'[q] = work[q] /\ todo'[q] = todo[q],
           Tracked(r)' \/ (pc[r] \notin {"lock", "find", "link"} /\ todo'[r] = todo[r])
    PROVE  Missed'
<1>1. \A q : SeesOn(q)
    BY DEF SeesOn
<1>2. Tracked(r)'
    BY <1>1, TrackedBetween DEF Missed
<1> QED
    BY <1>1, <1>2, MissedMove DEF Missed

LEMMA MissedRollback ==
    ASSUME Types, Whole, Missed, NEW r \in Requests, r \notin committed, Rollback(r),
           UNCHANGED <<work, todo, earlier>>, \A q \in Requests \ {r} : pc'[q] = pc[q]
    PROVE  Missed'
<1>1. /\ owner' = [e \in Events |-> IF owner[e] = r THEN Nobody ELSE owner[e]]
      /\ alerts' = {a \in alerts : owner[a.event] # r}
      /\ links' = {k \in links : k.by # r}
      /\ committed' = committed
    BY DEF Rollback, DropEvents
<1>2. \A x \in alerts' : x \in alerts /\ x.event \in Events /\ owner'[x.event] = owner[x.event]
                         /\ owner'[x.event] # r
    BY <1>1 DEF Types, Raised
<1>3. ASSUME NEW q \in Requests \ {r} PROVE SeesOn(q)
    BY <1>1, <1>2 DEF SeesOn
<1>4. Tracked(r)'
    BY <1>1, <1>2 DEF Missed, Tracked
<1>5. \A x \in alerts' : owner'[x.event] \in Requests
    BY <1>2 DEF Missed
<1> QED
    BY <1>3, <1>4, <1>5, MissedMove

LEMMA MissedBegin ==
    ASSUME Types, Whole, Missed, NEW r \in Requests, Begin(r) PROVE Missed'
<1>1. /\ pc[r] = "idle" /\ UNCHANGED <<work, todo, owner, alerts, committed, links>>
      /\ earlier' = [earlier EXCEPT ![r] = committed]
    BY DEF Begin, db
<1>2. \A q \in Requests \ {r} : pc'[q] = pc[q] /\ earlier'[q] = earlier[q]
    BY <1>1 DEF Begin, Types
<1>3. \A q : SeesOn(q)
    BY <1>1 DEF SeesOn
<1>4. r \notin committed /\ ~Owns(r)
    BY <1>1, RunningIsOpen DEF Whole, WholeOf
<1>5. \A b \in alerts' : owner'[b.event] # r
    BY <1>1, <1>4 DEF Owns, Types, Raised
<1>6. Tracked(r)'
    BY <1>1, <1>5 DEF Tracked, Types
<1> QED
    BY <1>1, <1>2, <1>3, <1>6, MissedMove DEF Missed

LEMMA MissedStore ==
    ASSUME Types, Whole, Missed, NEW r \in Requests, Store(r), ~Fail(r) PROVE Missed'
<1>0. PICK e \in Events : \E raised : Stores(r, e, raised)
    BY StoreEffect
<1>1. PICK raised : Stores(r, e, raised)
    BY <1>0
<1>2. r \notin committed /\ todo[r] = {} /\ pc[r] = "store"
    BY <1>1, RunningIsOpen DEF Stores, Whole, WholeOf, Running
<1>3. /\ owner[e] = Nobody /\ owner'[e] = r /\ \A f \in Events \ {e} : owner'[f] = owner[f]
      /\ alerts' = alerts \cup raised /\ \A a \in raised : Raised(a) /\ a.event = e
      /\ UNCHANGED <<work, committed, links, earlier>>
      /\ todo'[r] = raised /\ \A q \in Requests \ {r} : pc'[q] = pc[q] /\ todo'[q] = todo[q]
    BY <1>1 DEF Stores, Types
<1>4. \A x \in alerts : x.event \in Events /\ x.event # e /\ owner'[x.event] = owner[x.event]
    BY <1>3, NamesAssumption DEF Types, Raised, Missed
<1>5. \A x \in raised : owner'[x.event] = r
    BY <1>3
<1>6. ASSUME NEW q \in Requests \ {r} PROVE SeesOn(q)
    BY <1>2, <1>3, <1>4, <1>5 DEF SeesOn
<1>7. Tracked(r)'
  <2>1. earlier'[r] \subseteq committed'
      BY <1>3 DEF Missed, Tracked
  <2>2. ASSUME NEW a \in alerts', NEW b \in alerts', owner'[b.event] = r,
               owner'[a.event] \in earlier'[r], Compromise(a, b)
        PROVE  b \in todo'[r] \/ Together(r, a, b)'
    <3>1. CASE b \in raised
        BY <1>3, <3>1
    <3>2. CASE b \notin raised
      <4>1. a \notin raised
          BY <1>2, <1>3, <1>5, <2>1, <2>2
      <4>2. a \in alerts /\ b \in alerts /\ owner[b.event] = r /\ owner[a.event] \in earlier[r]
          BY <1>3, <1>4, <2>2, <3>2, <4>1
      <4>3. Together(r, a, b)
          BY <1>2, <2>2, <4>2 DEF Missed, Tracked
      <4> QED
          BY <1>3, <4>3 DEF Together, SeenLinks, SeesRow
    <3> QED
        BY <3>1, <3>2
  <2> QED
      BY <2>1, <2>2 DEF Tracked, Compromise
<1>8. \A x \in alerts' : owner'[x.event] \in Requests
    BY <1>3, <1>4, <1>5 DEF Missed
<1> QED
    BY <1>3, <1>6, <1>7, <1>8, MissedMove

\* The turn of an alert: both halves of a compromise become candidates.
LEMMA CandidatesHaveBoth ==
    ASSUME Types, Missed, NEW r \in Requests, NEW a \in alerts, NEW b,
           owner[a.event] \in committed, Compromise(a, b)
    PROVE  {a, b} \subseteq RelateCand(r, b) /\ b.rule \in CredentialRules
<1>1. a \in SeenAlerts(r)
    BY DEF SeenAlerts, Visible, SeesRow, Types, Raised
<1>2. {a, b} \subseteq Related(SeenAlerts(r), b)
    BY <1>1 DEF Related, Compromise
<1>3. a.rule \in CredentialRules /\ b.rule \in CredentialRules
  <2>1. "login_after_failures" \in Rules /\ a.rule \in Rules
    <3>1. DOMAIN Registry = 1..7 /\ Registry[5] = "login_after_failures"
        BY DEF Registry
    <3> QED
        BY <3>1 DEF Rules, Types, Raised
  <2> QED
      BY <2>1 DEF CredentialRules, Compromise, InitialAccess
<1>4. CompromiseIn(Related(SeenAlerts(r), b))
    BY <1>2 DEF CompromiseIn, Compromise
<1> QED
    BY <1>2, <1>3, <1>4 DEF RelateCand, Candidates

LEMMA MissedRelate ==
    ASSUME Types, Missed, NEW r \in Requests, Relate(r) PROVE Missed'
<1>1. PICK t \in todo[r] :
        /\ pc[r] = "relate"
        /\ todo' = [todo EXCEPT ![r] = @ \ {t}]
        /\ UNCHANGED <<owner, committed, alerts, links, earlier>>
        /\ \/ \E set, key : /\ Files(r, t, set, key)
                            /\ t.rule \in CredentialRules => set = RelateCand(r, t)
           \/ /\ t.rule \in CredentialRules => RelateCand(r, t) = {}
              /\ UNCHANGED <<pc, work>>
    BY RelateEffect
<1>2. todo'[r] = todo[r] \ {t}
    BY <1>1 DEF Types
<1>3. \A q \in Requests \ {r} : pc'[q] = pc[q] /\ work'[q] = work[q] /\ todo'[q] = todo[q]
    BY <1>1 DEF Files, Types
<1>4. Tracked(r)'
  <2>1. earlier'[r] \subseteq committed'
      BY <1>1 DEF Missed, Tracked
  <2>2. ASSUME NEW a \in alerts, NEW b \in alerts, owner[b.event] = r,
               owner[a.event] \in earlier[r], Compromise(a, b)
        PROVE  \/ b \in todo'[r]
               \/ pc'[r] = "lock" /\ {a, b} \subseteq work'[r].cand
               \/ Together(r, a, b)
    <3>1. b \in todo[r] \/ Together(r, a, b)
        BY <1>1, <2>2 DEF Missed, Tracked
    <3>2. CASE b = t
      <4>1. {a, b} \subseteq RelateCand(r, b) /\ b.rule \in CredentialRules
        <5>1. owner[a.event] \in committed
            BY <1>1, <2>1, <2>2
        <5> QED
            BY <2>2, <5>1, CandidatesHaveBoth
      <4>2. PICK set, key : Files(r, t, set, key) /\ set = RelateCand(r, b)
          BY <1>1, <3>2, <4>1
      <4>3. pc'[r] = "lock" /\ work'[r].cand = RelateCand(r, b)
          BY <4>2 DEF Files, Types, IdleWork
      <4> QED
          BY <4>1, <4>3
    <3> QED
        BY <1>2, <3>1, <3>2
  <2>3. \A a, b : Together(r, a, b) => Together(r, a, b)'
      BY <1>1 DEF Together, SeenLinks, SeesRow
  <2> QED
      BY <1>1, <2>1, <2>2, <2>3 DEF Tracked, Compromise
<1> QED
    BY <1>1, <1>3, <1>4, MissedQuiet

LEMMA MissedLock ==
    ASSUME Types, Missed, NEW r \in Requests, Lock(r) PROVE Missed'
<1>1. /\ pc[r] = "lock" /\ UNCHANGED <<todo, owner, committed, alerts, links, earlier>>
      /\ pc'[r] \in {"lock", "find"} /\ \A q \in Requests \ {r} : pc'[q] = pc[q]
    BY DEF Lock, db, Types
<1>2. work'[r].cand = work[r].cand /\ \A q \in Requests \ {r} : work'[q] = work[q]
    BY DEF Lock, Types, WorkFields
<1>3. \A a, b : Together(r, a, b) => Together(r, a, b)'
    BY <1>1 DEF Together, SeenLinks, SeesRow
<1>4. Tracked(r)'
    BY <1>1, <1>2, <1>3 DEF Missed, Tracked, Compromise
<1> QED
    BY <1>1, <1>2, <1>4, MissedQuiet

LEMMA MissedFind ==
    ASSUME Types, Missed, NEW r \in Requests, Find(r) PROVE Missed'
<1>1. PICK i : Joins(r, i) \/ Opens(r, i)
    BY FindEffect
<1>2. \E rec : Takes(r, i, rec)
    BY <1>1 DEF Joins, Opens
<1>3. PICK rec : Takes(r, i, rec)
    BY <1>2
<1>4. /\ pc[r] = "find" /\ UNCHANGED <<todo, owner, committed, alerts, links, earlier>>
      /\ pc'[r] = "link" /\ \A q \in Requests \ {r} : pc'[q] = pc[q] /\ work'[q] = work[q]
    BY <1>3 DEF Takes, Types
<1>5. work'[r].inc = i /\ work'[r].missing = work[r].cand \ SeenLinks(r, i)
    BY <1>3 DEF Takes, Types, WorkFields
<1>6. \A a, b : Together(r, a, b) => Together(r, a, b)'
    BY <1>4 DEF Together, SeenLinks, SeesRow
<1>7. SeenLinks(r, work[r].inc)' = SeenLinks(r, i)
    BY <1>4, <1>5 DEF SeenLinks, SeesRow
<1>8. Tracked(r)'
    BY <1>4, <1>5, <1>6, <1>7 DEF Missed, Tracked, Compromise
<1> QED
    BY <1>4, <1>8, MissedQuiet

LEMMA MissedLink ==
    ASSUME Types, Missed, NEW r \in Requests, Link(r), ~Fail(r) PROVE Missed'
<1>0. work[r].inc \in Incidents
    BY DEF Link, Types
<1> PICK i \in Incidents : i = work[r].inc
    BY <1>0
<1>1. /\ pc[r] = "link" /\ UNCHANGED <<todo, owner, committed, alerts, earlier>>
      /\ links' = links \cup {[inc |-> i, alert |-> a, by |-> r] : a \in work[r].missing}
    BY DEF Link
<1>2. pc'[r] = "save" /\ \A q \in Requests \ {r} : pc'[q] = pc[q] /\ work'[q] = work[q]
    BY DEF Link, Types
<1>3. \A a, b : Together(r, a, b) => Together(r, a, b)'
    BY <1>1 DEF Together, SeenLinks, SeesRow
<1>4. work[r].missing \cup SeenLinks(r, i) \subseteq SeenLinks(r, i)'
  <2>1. SeenLinks(r, i) \subseteq SeenLinks(r, i)'
      BY <1>1 DEF SeenLinks, SeesRow
  <2>2. ASSUME NEW a \in work[r].missing PROVE a \in SeenLinks(r, i)'
    <3> DEFINE m == [inc |-> i, alert |-> a, by |-> r]
    <3>1. m \in links' /\ m.inc = i /\ m.alert = a /\ m.by = r
        BY <1>1
    <3> QED
        BY <3>1 DEF SeenLinks, SeesRow
  <2> QED
      BY <2>1, <2>2
<1>5. ASSUME NEW a, NEW b, {a, b} \subseteq work[r].missing \cup SeenLinks(r, work[r].inc)
      PROVE  Together(r, a, b)'
    BY <1>4, <1>5 DEF Together
<1>6. Tracked(r)'
    BY <1>1, <1>2, <1>3, <1>5 DEF Missed, Tracked, Compromise
<1> QED
    BY <1>1, <1>2, <1>6, MissedQuiet

LEMMA MissedCrash ==
    ASSUME Types, Whole, Missed, NEW r \in Requests, Crash(r) PROVE Missed'
<1>1. /\ pc' = [pc EXCEPT ![r] = "crashed"] /\ UNCHANGED <<work, todo, earlier>>
      /\ \A q \in Requests \ {r} : pc'[q] = pc[q]
    BY DEF Crash, Types
<1>2. CASE r \notin committed
    BY <1>1, <1>2, MissedRollback DEF Crash
<1>3. CASE r \in committed
  <2>1. UNCHANGED <<owner, committed, alerts, links>>
      BY <1>3 DEF Crash, db
  <2>2. pc[r] \notin {"lock", "find", "link"}
      BY <1>3, RunningIsOpen DEF Running
  <2> QED
      BY <1>1, <2>1, <2>2, MissedQuiet
<1> QED
    BY <1>2, <1>3

LEMMA MissedKept == Types /\ Whole /\ Missed /\ [Next]_vars => Missed'
<1> SUFFICES ASSUME Types, Whole, Missed, [Next]_vars PROVE Missed'
    OBVIOUS
<1>1. ASSUME UNCHANGED <<pc, work, todo, owner, alerts, earlier, committed, links>> PROVE Missed'
    BY <1>1 DEF Missed, Tracked, Together, SeenLinks, SeesRow, Compromise
<1>2. CASE UNCHANGED vars
    BY <1>1, <1>2 DEF vars, tx, db
<1>3. ASSUME NEW r \in Requests, Fail(r), pc[r] \in Running PROVE Missed'
  <2>1. r \notin committed
      BY <1>3, RunningIsOpen
  <2>2. \A q \in Requests \ {r} : pc'[q] = pc[q]
      BY <1>3 DEF Fail, Types
  <2> QED
      BY <1>3, <2>1, <2>2, MissedRollback DEF Fail
<1>4. ASSUME NEW r \in Requests,
             \/ NextEvent(r) \/ Commit(r) \/ Publish(r) \/ RequestInvestigation(r) \/ Audit(r)
      PROVE  Missed'
  <2>1. /\ UNCHANGED <<work, todo, owner, alerts, earlier, links>> /\ committed \subseteq committed'
        /\ pc[r] \notin {"lock", "find", "link"}
      BY <1>4 DEF NextEvent, Commit, Publish, RequestInvestigation, Audit, db
  <2>2. \A q \in Requests \ {r} : pc'[q] = pc[q]
      BY <1>4 DEF NextEvent, Commit, Publish, RequestInvestigation, Audit, Types
  <2> QED
      BY <2>1, <2>2, MissedQuiet
<1>5. ASSUME NEW r \in Requests, Save(r) PROVE Missed'
  <2>1. UNCHANGED <<todo, owner, alerts, earlier, links, committed>> /\ pc[r] = "save"
      BY <1>5 DEF Save
  <2>2. \A q \in Requests \ {r} : pc'[q] = pc[q] /\ work'[q] = work[q]
      BY <1>5 DEF Save, Types
  <2> QED
      BY <2>1, <2>2, MissedQuiet
<1>6. ASSUME NEW r \in Requests, Dispatch(r) PROVE Missed'
  <2>1. UNCHANGED <<todo, owner, alerts, earlier, links, committed>> /\ pc[r] = "dispatch"
      BY <1>6, DispatchEffect
  <2>2. \A q \in Requests \ {r} : pc'[q] = pc[q] /\ work'[q] = work[q]
    <3>1. CASE MovesOn(r)
        BY <3>1 DEF MovesOn, Types
    <3>2. CASE \E i : Passes(r, i)
        BY <3>2 DEF Passes
    <3>3. CASE \E i : Claims(r, i)
        BY <3>3 DEF Claims, Types
    <3> QED
        BY <1>6, <3>1, <3>2, <3>3, DispatchEffect
  <2> QED
      BY <2>1, <2>2, MissedQuiet
<1>7. ASSUME NEW r \in Requests, Store(r) PROVE Missed'
    BY <1>3, <1>7, MissedStore DEF Store, Running
<1>8. ASSUME NEW r \in Requests, Link(r) PROVE Missed'
    BY <1>3, <1>8, MissedLink DEF Link, Running
<1>9. ASSUME NEW r \in Requests, Deadlock(r) PROVE Missed'
    BY <1>3, <1>9 DEF Deadlock, InCycle
<1>10. ASSUME NEW r \in Requests, Step(r) \/ Crash(r) PROVE Missed'
    BY <1>4, <1>5, <1>6, <1>7, <1>8, <1>9, <1>10, MissedBegin, MissedRelate, MissedLock,
       MissedFind, MissedCrash DEF Step
<1>11. ASSUME NEW i \in Incidents, Expire(i) \/ \E m \in Manual : CreateManual(i, m) PROVE Missed'
    BY <1>1, <1>11 DEF Expire, CreateManual, tx, db
<1> QED
    BY <1>2, <1>10, <1>11 DEF Next

\* A compromise whose initial access was committed before the request of its
\* success began is filed under one incident, whatever runs beside it
\* (_correlate_alert reads the related alerts before it takes the locks).
THEOREM NoCompromiseIsMissed == Spec => []NothingMissed
<1>1. Init => Missed
    BY MissedInit
<1>2. Spec => []Missed
    BY <1>1, MissedKept, WholeAlways, PTL DEF Spec
<1>3. Types /\ Whole /\ Missed => NothingMissed
  <2> SUFFICES ASSUME Types, Whole, Missed, NEW r \in committed, NEW a \in alerts, NEW b \in alerts,
                      owner[b.event] = r, owner[a.event] \in earlier[r], Compromise(a, b)
               PROVE  \E i \in Incidents :
                         {a, b} \subseteq {k.alert : k \in {m \in links : m.inc = i}}
      BY DEF NothingMissed, Compromise
  <2>1. r \in Requests
      BY DEF Types
  <2>2. todo[r] = {} /\ pc[r] \notin {"lock", "find", "link"}
      BY <2>1 DEF Whole, WholeOf, After, Ended
  <2>3. Together(r, a, b)
      BY <2>1, <2>2 DEF Missed, Tracked
  <2> QED
      BY <2>3 DEF Together, SeenLinks
<1> QED
    BY <1>2, <1>3, WholeAlways, PTL
-----------------------------------------------------------------------------
(* Every variable keeps its type.  What Types leaves out is that an alert has *)
(* a time it begins at, which comes from the events its rule looked at.       *)

\* A set of integers that has a lower bound has a least one, which Earliest is.
LEMMA EarliestIs ==
    ASSUME NEW T \in SUBSET Int, T # {}, NEW b \in Int, \A t \in T : b <= t
    PROVE  Earliest(T) \in T
<1> DEFINE S == {t - b : t \in T}
<1>1. S \subseteq Nat /\ S # {}
  <2>1. \A t \in T : t - b \in Nat
      OBVIOUS
  <2>2. PICK t \in T : TRUE
      OBVIOUS
  <2>3. t - b \in S
      OBVIOUS
  <2> QED
      BY <2>1, <2>3
<1>2. PICK x \in S : \A y \in S : <<y, x>> \notin OpToRel(<, Nat)
    BY <1>1, NatLessThanWellFounded, WFMin
<1>3. \A y \in S : ~(y < x)
    BY <1>1, <1>2 DEF OpToRel
<1>4. x + b \in T /\ \A u \in T : x + b <= u
  <2>1. \A u \in T : u - b \in S /\ u - b \in Nat
      BY <1>1
  <2>2. PICK t \in T : x = t - b
      OBVIOUS
  <2>3. x + b = t
      BY <2>2
  <2>4. ASSUME NEW u \in T PROVE t <= u
    <3>1. u - b \in S /\ ~(u - b < t - b)
        BY <1>3, <2>1, <2>2
    <3>2. u \in Int /\ t \in Int
        OBVIOUS
    <3> HIDE DEF S
    <3> QED
        BY <3>1, <3>2
  <2> QED
      BY <2>3, <2>4
<1> QED
    BY <1>4 DEF Earliest

\* The failed logins a rule looks at are in a window before its event.
LEMMA BasisInWindow ==
    ASSUME NEW V \in SUBSET Events, NEW e \in Events, NEW rule
    PROVE  \E w \in Int : \A f \in Basis(rule, V, e) :
              f \in Events /\ EventData[f].time \in EventData[e].time - w .. EventData[e].time
<1>1. {BruteForceWindow, SprayWindow, PrivilegeLookback, LoginAfterWindow} \subseteq Int
    BY WindowsAreNumbers
<1>2. \A w : \A f \in FailuresFromIp(V, e, w) \cup FailuresOfIdentity(V, e, w) :
          f \in Events /\ EventData[f].time \in EventData[e].time - w .. EventData[e].time
    BY DEF FailuresFromIp, FailuresOfIdentity, Failures
<1>3. \/ \E w \in Int : Basis(rule, V, e) \subseteq FailuresFromIp(V, e, w) \cup FailuresOfIdentity(V, e, w)
      \/ Basis(rule, V, e) = {}
    BY <1>1 DEF Basis
<1> QED
    BY <1>2, <1>3

\* The rules raise alerts.
LEMMA RulesAlert ==
    ASSUME NEW V \in SUBSET Events, NEW e \in Events
    PROVE  AlertsFor(V, e) \subseteq Alert
<1> SUFFICES ASSUME NEW a \in AlertsFor(V, e) PROVE a \in Alert
    OBVIOUS
<1>1. PICK rule \in Rules :
        a = [rule |-> rule, event |-> e,
             first |-> Earliest({EventData[f].time : f \in Basis(rule, V, e) \cup {e}})]
    BY DEF AlertsFor
<1> DEFINE T == {EventData[f].time : f \in Basis(rule, V, e) \cup {e}}
<1>2. PICK w \in Int : \A f \in Basis(rule, V, e) :
          f \in Events /\ EventData[f].time \in EventData[e].time - w .. EventData[e].time
    BY BasisInWindow
<1>3. \A f \in Events : EventData[f].time \in Int
    BY EventDataTyped
<1>4. EventData[e].time \in T /\ T \in SUBSET Int
    BY <1>2, <1>3
<1>5. \E b \in Int : \A t \in T : b <= t
  <2>1. CASE w >= 0
    <3>1. EventData[e].time - w \in Int /\ \A t \in T : EventData[e].time - w <= t
        BY <1>2, <1>3, <2>1
    <3> QED
        BY <3>1
  <2>2. CASE ~(w >= 0)
    <3>1. \A t \in T : EventData[e].time <= t
        BY <1>2, <1>3, <2>2
    <3> QED
        BY <1>3, <3>1
  <2> QED
      BY <2>1, <2>2
<1>6. Earliest(T) \in Int
    BY <1>4, <1>5, EarliestIs
<1> QED
    BY <1>1, <1>6 DEF Alert

\* Alerts are alerts wherever they are, and links are of incidents.
Alerted ==
    /\ alerts \subseteq Alert
    /\ \A r \in Requests : todo[r] \cup work[r].cand \cup work[r].missing \subseteq Alert
    /\ links \subseteq [inc : Incidents, alert : Alert, by : Requests]

\* What takes no alert in keeps it.
LEMMA AlertedStays ==
    ASSUME Alerted, alerts' \subseteq alerts, links' \subseteq links,
           \A r \in Requests : /\ todo'[r] \subseteq todo[r]
                               /\ work'[r].cand = work[r].cand /\ work'[r].missing = work[r].missing
    PROVE  Alerted'
    BY DEF Alerted

LEMMA AlertedFail ==
    ASSUME Types, Alerted, NEW r \in Requests, Fail(r)
    PROVE  Alerted'
<1>1. alerts' \subseteq alerts /\ links' \subseteq links /\ UNCHANGED <<todo, work>>
    BY DEF Fail, Rollback, DropEvents
<1> QED
    BY <1>1, AlertedStays

LEMMA AlertedStore ==
    ASSUME Types, Alerted, NEW r \in Requests, Store(r)
    PROVE  Alerted'
<1>1. CASE Fail(r)
    BY <1>1, AlertedFail
<1>2. CASE ~Fail(r)
  <2> DEFINE e == Head(queue[r])
  <2> DEFINE raised == AlertsFor(Visible(r) \cup {e}, e)
  <2>1. queue[r] \in Seq(Events) /\ queue[r] # <<>>
      BY DEF Store, Types
  <2>2. e \in Events
      BY <2>1, HeadTailProperties
  <2>3. Visible(r) \cup {e} \in SUBSET Events
      BY <2>2 DEF Visible
  <2>4. raised \subseteq Alert
      BY <2>2, <2>3, RulesAlert
  <2>5. alerts' = alerts \cup raised /\ todo' = [todo EXCEPT ![r] = raised] /\ UNCHANGED <<work, links>>
      BY <1>2 DEF Store
  <2> HIDE DEF raised
  <2>6. \A q \in Requests : todo'[q] = todo[q] \/ todo'[q] = raised
      BY <2>5 DEF Types
  <2> QED
      BY <2>4, <2>5, <2>6 DEF Alerted
<1> QED
    BY <1>1, <1>2

LEMMA AlertedRelate ==
    ASSUME Types, Alerted, NEW r \in Requests, Relate(r)
    PROVE  Alerted'
<1> DEFINE a == NextAlert(todo[r])
<1>1. todo[r] # {} /\ \A b \in todo[r] : Raised(b)
    BY DEF Relate, Types
<1>2. a \in todo[r]
    BY <1>1, NextIsOne DEF Raised
<1>3. RelateCand(r, a) \subseteq Alert /\ {a} \subseteq Alert
    BY <1>2 DEF RelateCand, Candidates, Related, SeenAlerts, Alerted
<1>4. /\ todo' = [todo EXCEPT ![r] = todo[r] \ {a}] /\ UNCHANGED <<alerts, links>>
      /\ \/ \E set, key : set \in {{a}, RelateCand(r, a)} /\ Files(r, a, set, key)
         \/ UNCHANGED work
  <2>1. /\ todo' = [todo EXCEPT ![r] = todo[r] \ {a}] /\ UNCHANGED <<alerts, links>>
      BY DEF Relate, db
  <2>2. \/ Files(r, a, {a}, FindingKey(IF EventData[a.event].finding = None THEN a.event
                                        ELSE EventData[a.event].finding))
        \/ \E u \in PrimaryUsernames(RelateCand(r, a)), p \in PrimaryIps(RelateCand(r, a)) :
               Files(r, a, RelateCand(r, a), CredentialKey(u, p))
        \/ UNCHANGED work
      BY DEF Relate, RelateCand, Files
  <2> QED
      BY <2>1, <2>2
<1>5. \A q \in Requests : todo'[q] \subseteq todo[q]
    BY <1>4 DEF Types
<1>6. CASE UNCHANGED work
    BY <1>4, <1>5, <1>6, AlertedStays
<1>7. ASSUME NEW set \in SUBSET Alert, NEW key, Files(r, a, set, key) PROVE Alerted'
  <2>1. work'[r].cand = set /\ work'[r].missing = {}
      BY <1>7 DEF Files, Types, IdleWork
  <2>2. \A q \in Requests : q # r => work'[q] = work[q]
      BY <1>7 DEF Files, Types
  <2>3. \A q \in Requests : work'[q].cand \cup work'[q].missing \subseteq Alert
      BY <2>1, <2>2 DEF Alerted
  <2> QED
      BY <1>4, <1>5, <2>3 DEF Alerted
<1> QED
    BY <1>3, <1>4, <1>6, <1>7

\* A lock, an announcement or a claim leaves the alerts of the work alone.
LEMMA AlertedLock ==
    ASSUME Types, Alerted, NEW r \in Requests, Lock(r) \/ Dispatch(r)
    PROVE  Alerted'
<1>1. \/ UNCHANGED work
      \/ \E x : work' = [work EXCEPT ![r].wanted = x]
      \/ \E x : work' = [work EXCEPT ![r].inc = x]
    BY DEF Lock, Dispatch
<1>2. UNCHANGED <<alerts, links, todo>>
    BY DEF Lock, Dispatch, db
<1>3. DOMAIN work = Requests /\ DOMAIN work[r] = WorkFields
    BY DEF Types
<1>4. \A q \in Requests : work'[q].cand = work[q].cand /\ work'[q].missing = work[q].missing
    BY <1>1, <1>3 DEF WorkFields
<1> QED
    BY <1>2, <1>4, AlertedStays

LEMMA AlertedFind ==
    ASSUME Types, Alerted, NEW r \in Requests, Find(r)
    PROVE  Alerted'
<1>1. PICK i, rec : Takes(r, i, rec)
    BY FindEffect DEF Joins, Opens
<1> DEFINE m == work[r].cand \ SeenLinks(r, i)
<1>2. work' = [work EXCEPT ![r] = [work[r] EXCEPT !.inc = i, !.loaded = rec, !.missing = m]]
    BY <1>1 DEF Takes
<1>3. m \subseteq Alert
    BY DEF Alerted
<1> HIDE DEF m
<1>4. DOMAIN work = Requests /\ DOMAIN work[r] = WorkFields
    BY DEF Types
<1>5. work'[r].cand = work[r].cand /\ work'[r].missing = m
    BY <1>2, <1>4 DEF WorkFields
<1>6. \A q \in Requests : q # r => work'[q] = work[q]
    BY <1>2, <1>4
<1>7. UNCHANGED <<alerts, links, todo>>
    BY <1>1 DEF Takes
<1> QED
    BY <1>3, <1>5, <1>6, <1>7 DEF Alerted

LEMMA AlertedLink ==
    ASSUME Types, Alerted, NEW r \in Requests, Link(r)
    PROVE  Alerted'
<1>1. CASE Fail(r)
    BY <1>1, AlertedFail
<1>2. CASE ~Fail(r)
  <2>1. PICK w : work' = [work EXCEPT ![r].rec = w]
      BY <1>2 DEF Link
  <2>2. /\ links' = links \cup {[inc |-> work[r].inc, alert |-> a, by |-> r] : a \in work[r].missing}
        /\ UNCHANGED <<alerts, todo>> /\ work[r].inc \in Incidents
      BY <1>2 DEF Link, Types
  <2>3. links' \subseteq [inc : Incidents, alert : Alert, by : Requests]
      BY <2>2 DEF Alerted
  <2>4. \A q \in Requests : work'[q].cand = work[q].cand /\ work'[q].missing = work[q].missing
      BY <2>1 DEF Types, WorkFields
  <2> QED
      BY <2>2, <2>3, <2>4 DEF Alerted
<1> QED
    BY <1>1, <1>2

LEMMA AlertedKept == Types /\ Alerted /\ [Next]_vars => Alerted'
<1> SUFFICES ASSUME Types, Alerted, [Next]_vars PROVE Alerted'
    OBVIOUS
<1>1. CASE UNCHANGED <<alerts, links, todo, work>>
    BY <1>1, AlertedStays
<1>2. ASSUME NEW r \in Requests, Save(r) PROVE Alerted'
  <2>1. \A q \in Requests : work'[q] = work[q] \/ (work'[q].cand = {} /\ work'[q].missing = {})
      BY <1>2 DEF Save, Types, IdleWork
  <2>2. UNCHANGED <<alerts, links, todo>>
      BY <1>2 DEF Save
  <2> QED
      BY <2>1, <2>2 DEF Alerted
<1>3. ASSUME NEW r \in Requests, Deadlock(r) PROVE Alerted'
    BY <1>3, AlertedFail DEF Deadlock
<1>4. ASSUME NEW r \in Requests, Crash(r) PROVE Alerted'
  <2>1. UNCHANGED <<todo, work>> /\ alerts' \subseteq alerts /\ links' \subseteq links
      BY <1>4 DEF Crash, Rollback, DropEvents, db
  <2> QED
      BY <2>1, AlertedStays
<1>5. ASSUME NEW r \in Requests,
             Begin(r) \/ NextEvent(r) \/ Commit(r) \/ Publish(r) \/ RequestInvestigation(r) \/ Audit(r)
      PROVE  Alerted'
    BY <1>1, <1>5 DEF Begin, NextEvent, Commit, Publish, RequestInvestigation, Audit, db
<1>6. ASSUME NEW i \in Incidents, Expire(i) \/ \E m \in Manual : CreateManual(i, m) PROVE Alerted'
    BY <1>1, <1>6 DEF Expire, CreateManual, tx, db
<1>7. CASE UNCHANGED vars
    BY <1>1, <1>7 DEF vars, tx, db
<1>8. ASSUME NEW r \in Requests, Step(r) PROVE Alerted'
    BY <1>2, <1>3, <1>5, <1>8, AlertedStore, AlertedRelate, AlertedLock, AlertedFind, AlertedLink
       DEF Step
<1> QED
    BY <1>4, <1>6, <1>7, <1>8 DEF Next

\* Every variable keeps its type through all the handlers of the pipeline, whatever
\* events, windows and thresholds.
THEOREM PipelineTypes == Spec => []TypeOK
<1>1. Init => Alerted
    BY DEF Init, Alerted, IdleWork
<1>2. Spec => []Alerted
    BY <1>1, AlertedKept, TypesAlways, PTL DEF Spec
<1>3. Types /\ Alerted => TypeOK
  <2> SUFFICES ASSUME Types, Alerted PROVE TypeOK
      OBVIOUS
  <2>1. \A r \in Requests : /\ todo[r] \subseteq Alert
                            /\ due[r].dispatch \cup due[r].publish \subseteq Incidents
      BY DEF Types, Alerted
  <2> QED
      BY <2>1 DEF Types, Alerted, TypeOK, States
<1> QED
    BY <1>2, <1>3, TypesAlways, PTL
=============================================================================
