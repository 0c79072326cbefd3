----------------------- MODULE InvestigationRunProofs -----------------------
(***************************************************************************)
(* Proofs about InvestigationRun: for any requests, runs, alerts, evidence *)
(* and plans, any sizes, and any answers of the provider.                  *)
(***************************************************************************)
EXTENDS InvestigationRun, SequenceTheorems, FiniteSetTheorems, TLAPS

-----------------------------------------------------------------------------
(* Least and greatest of two, and pieces of sequences.                      *)

\* The least of two numbers.
LEMMA MinOfTwo ==
    ASSUME NEW x \in Int, NEW y \in Int
    PROVE  /\ Min({x, y}) \in {x, y}
           /\ Min({x, y}) <= x /\ Min({x, y}) <= y
<1>1. \E z \in {x, y} : \A w \in {x, y} : z =< w
  <2>1. CASE x <= y
    BY <2>1
  <2>2. CASE ~(x <= y)
    BY <2>2
  <2>3. QED
    BY <2>1, <2>2
<1>2. QED
  BY <1>1 DEF Min

\* The greatest of two numbers.
LEMMA MaxOfTwo ==
    ASSUME NEW x \in Int, NEW y \in Int
    PROVE  /\ Max({x, y}) \in {x, y}
           /\ Max({x, y}) >= x /\ Max({x, y}) >= y
<1>1. \E z \in {x, y} : \A w \in {x, y} : z >= w
  <2>1. CASE x <= y
    BY <2>1
  <2>2. CASE ~(x <= y)
    BY <2>2
  <2>3. QED
    BY <2>1, <2>2
<1>2. QED
  BY <1>1 DEF Max

\* The greatest of up to three numbers is one of them.
LEMMA MaxOfFew ==
    ASSUME NEW x \in Int, NEW y \in Int, NEW S \in SUBSET {x, y}
    PROVE  Max(S \cup {0}) \in Int
<1>1. \E z \in S \cup {0} : \A w \in S \cup {0} : z >= w
  <2>1. PICK z \in {x, y} : z >= x /\ z >= y
    <3>1. CASE x <= y
      BY <3>1
    <3>2. CASE ~(x <= y)
      BY <3>2
    <3>3. QED
      BY <3>1, <3>2
  <2> DEFINE P == \E u \in S \cup {0} : \A w \in S \cup {0} : u >= w
  <2>2. CASE S = {} \/ \A w \in S : 0 >= w
    BY <2>2
  <2>3. CASE x \in S /\ x >= 0 /\ (y \in S => x >= y)
    BY <2>3
  <2>4. CASE y \in S /\ y >= 0 /\ (x \in S => y >= x)
    BY <2>4
  <2>5. QED
    BY <2>1, <2>2, <2>3, <2>4
<1>2. Max(S \cup {0}) \in S \cup {0}
  BY <1>1 DEF Max
<1>3. \A w \in S \cup {0} : w \in Int
  OBVIOUS
<1>4. QED
  BY <1>2, <1>3

\* Part of a sequence, from m to n.
LEMMA PartIs ==
    ASSUME NEW S, NEW s \in Seq(S), NEW m \in Nat \ {0}, NEW n \in Nat, n <= Len(s)
    PROVE  /\ SubSeq(s, m, n) \in Seq(S)
           /\ Len(SubSeq(s, m, n)) = IF m <= n THEN n - m + 1 ELSE 0
           /\ ToSet(SubSeq(s, m, n)) \subseteq ToSet(s)
<1>1. Len(s) \in Nat /\ DOMAIN s = 1..Len(s) /\ \A i \in 1..Len(s) : s[i] \in S
  BY LenProperties, ElementOfSeq
<1>2. \A i \in m..n : s[i] \in S
  BY <1>1
<1>3. /\ SubSeq(s, m, n) \in Seq(S)
      /\ Len(SubSeq(s, m, n)) = IF m <= n THEN n - m + 1 ELSE 0
      /\ \A i \in 1..n - m + 1 : SubSeq(s, m, n)[i] = s[m + i - 1]
  BY <1>2, SubSeqProperties
<1>4. ToSet(SubSeq(s, m, n)) \subseteq ToSet(s)
  <2> SUFFICES ASSUME NEW i \in DOMAIN SubSeq(s, m, n)
               PROVE  SubSeq(s, m, n)[i] \in ToSet(s)
    BY DEF ToSet
  <2>1. DOMAIN SubSeq(s, m, n) = 1..Len(SubSeq(s, m, n))
    BY <1>3, LenProperties
  <2>2. i \in 1..n - m + 1 /\ m <= n
    BY <1>3, <2>1
  <2>3. m + i - 1 \in DOMAIN s
    BY <1>1, <2>2
  <2>4. QED
    BY <1>3, <2>2, <2>3 DEF ToSet
<1>5. QED
  BY <1>3, <1>4

\* The latest entries: all of them, or as many as asked for.
LEMMA LatestIs ==
    ASSUME NEW S, NEW s \in Seq(S), NEW n \in Nat \ {0}
    PROVE  /\ Latest(s, n) \in Seq(S)
           /\ ToSet(Latest(s, n)) \subseteq ToSet(s)
           /\ Len(Latest(s, n)) = IF Len(s) <= n THEN Len(s) ELSE n
           /\ Len(s) <= n => Latest(s, n) = s
<1>1. Len(s) \in Nat
  BY LenProperties
<1> DEFINE m == Max({1, Len(s) - n + 1})
<1>2. m = IF Len(s) <= n THEN 1 ELSE Len(s) - n + 1
  <2>1. 1 \in Int /\ Len(s) - n + 1 \in Int
    BY <1>1
  <2>2. m \in {1, Len(s) - n + 1} /\ m >= 1 /\ m >= Len(s) - n + 1
    BY <2>1, MaxOfTwo
  <2>3. QED
    BY <1>1, <2>2
<1>3. m \in Nat \ {0} /\ Latest(s, n) = SubSeq(s, m, Len(s))
  BY <1>1, <1>2 DEF Latest
<1> HIDE DEF m
<1>4. /\ Latest(s, n) \in Seq(S)
      /\ Len(Latest(s, n)) = IF m <= Len(s) THEN Len(s) - m + 1 ELSE 0
      /\ ToSet(Latest(s, n)) \subseteq ToSet(s)
  BY <1>1, <1>3, PartIs
<1>5. Len(s) <= n => Latest(s, n) = s
  BY <1>2, <1>3, SubSeqFull
<1>6. Len(Latest(s, n)) = IF Len(s) <= n THEN Len(s) ELSE n
  <2>1. CASE Len(s) <= n
    BY <1>5, <2>1
  <2>2. CASE ~(Len(s) <= n)
    <3>1. m = Len(s) - n + 1 /\ m <= Len(s) /\ Len(s) - m + 1 = n
      BY <1>1, <1>2, <2>2
    <3>2. Len(Latest(s, n)) = Len(s) - m + 1
      BY <1>4, <3>1
    <3>3. QED
      BY <2>2, <3>1, <3>2
  <2>3. QED
    BY <2>1, <2>2
<1>7. QED
  BY <1>4, <1>5, <1>6

\* What is left without the n oldest entries.
LEMMA DropOldestIs ==
    ASSUME NEW S, NEW s \in Seq(S), NEW n \in Nat, n <= Len(s)
    PROVE  /\ DropOldest(s, n) \in Seq(S)
           /\ ToSet(DropOldest(s, n)) \subseteq ToSet(s)
           /\ Len(DropOldest(s, n)) = Len(s) - n
<1>1. Len(s) \in Nat
  BY LenProperties
<1>2. QED
  BY <1>1, PartIs DEF DropOldest

\* A sequence read backwards has the same entries.
LEMMA ReverseIs ==
    ASSUME NEW S, NEW s \in Seq(S)
    PROVE  /\ Reverse(s) \in Seq(S)
           /\ ToSet(Reverse(s)) = ToSet(s)
           /\ Len(Reverse(s)) = Len(s)
<1>1. Len(s) \in Nat /\ DOMAIN s = 1..Len(s) /\ \A i \in 1..Len(s) : s[i] \in S
  BY LenProperties, ElementOfSeq
<1> DEFINE n == Len(s)
<1>2. \A i \in 1..n : (n - i) + 1 \in 1..n
  BY <1>1
<1>3. \A i \in 1..n : s[(n - i) + 1] \in S
  BY <1>1, <1>2
<1>4. /\ Reverse(s) \in [1..n -> S]
      /\ \A i \in 1..n : Reverse(s)[i] = s[(n - i) + 1]
  BY <1>3 DEF Reverse
<1>5. Reverse(s) \in Seq(S)
  BY <1>1, <1>4
<1>6. Len(Reverse(s)) = n /\ DOMAIN Reverse(s) = 1..n
  BY <1>1, <1>4, <1>5, LenProperties
<1>7. ToSet(Reverse(s)) \subseteq ToSet(s)
  BY <1>1, <1>2, <1>4, <1>6 DEF ToSet
<1>8. ToSet(s) \subseteq ToSet(Reverse(s))
  <2> SUFFICES ASSUME NEW j \in 1..n PROVE s[j] \in ToSet(Reverse(s))
    BY <1>1 DEF ToSet
  <2>1. (n - j) + 1 \in 1..n /\ (n - ((n - j) + 1)) + 1 = j
    BY <1>1
  <2>2. Reverse(s)[(n - j) + 1] = s[j]
    BY <1>4, <2>1
  <2>3. QED
    BY <1>6, <2>1, <2>2 DEF ToSet
<1>9. QED
  BY <1>5, <1>6, <1>7, <1>8

\* A sequence of n entries has finitely many, and none only if it is empty.
LEMMA EntriesAre ==
    ASSUME NEW S, NEW s \in Seq(S)
    PROVE  /\ Len(s) \in Nat
           /\ ToSet(s) \subseteq S
           /\ IsFiniteSet(ToSet(s))
           /\ s = <<>> <=> Len(s) = 0
<1>1. Len(s) \in Nat /\ DOMAIN s = 1..Len(s) /\ \A i \in 1..Len(s) : s[i] \in S
  BY LenProperties, ElementOfSeq
<1>2. IsFiniteSet(1..Len(s))
  BY <1>1, FS_Interval
<1>3. s \in Surjection(1..Len(s), ToSet(s))
  BY <1>1 DEF Surjection, ToSet
<1>4. IsFiniteSet(ToSet(s))
  BY <1>2, <1>3, FS_Surjection
<1>5. s = <<>> <=> Len(s) = 0
  BY <1>1, EmptySeq
<1>6. QED
  BY <1>1, <1>4, <1>5 DEF ToSet

-----------------------------------------------------------------------------
(* Contexts.                                                                *)

Techniques == {Technique[a] : a \in Alerts}
Contexts == [alerts : Seq(Alerts), events : Seq(Alerts), timeline : Nat,
             techniques : SUBSET Techniques, evidence : Seq(Evidence),
             quality : {"corroborated_telemetry", "analyst_supplied", "report_only"},
             truncated : BOOLEAN, refs : SUBSET Refs]

\* What may be cited is what is shown, and the quality is no better than that.
Sound(c) ==
    /\ c.refs = Items(c)
    /\ c.alerts = <<>> => c.quality \in {"report_only", "analyst_supplied"}
    /\ c.alerts = <<>> /\ c.evidence = <<>> => c.quality = "report_only"

\* The references of a context are references.
LEMMA ItemsAreRefs ==
    ASSUME NEW c, NEW alerts \in Seq(Alerts), NEW events \in Seq(Alerts),
           NEW evidence \in Seq(Evidence), NEW techniques \in SUBSET Techniques,
           c.alerts = alerts, c.events = events, c.evidence = evidence, c.techniques = techniques
    PROVE  Items(c) \in SUBSET Refs
<1>1. ToSet(alerts) \subseteq Alerts /\ ToSet(events) \subseteq Alerts /\ ToSet(evidence) \subseteq Evidence
  BY EntriesAre
<1>2. QED
  BY <1>1 DEF Items, Ref, Refs, Techniques

\* What is read: the context cites what it shows, has all alerts, and all the
\* evidence or as much as it reads.
LEMMA ReadIs ==
    ASSUME NEW alerts \in Seq(Alerts), NEW evidence \in Seq(Evidence),
           NEW c, c = Read(alerts, evidence)
    PROVE  /\ c \in Contexts /\ Sound(c)
           /\ c.alerts = alerts /\ c.events = alerts
           /\ IsFiniteSet(c.techniques)
           /\ ToSet(evidence) \subseteq ToSet(c.evidence) \/ Len(c.evidence) = ReadEvidence
<1> DEFINE ev == Reverse(Latest(evidence, ReadEvidence))
           te == {Technique[a] : a \in ToSet(alerts)}
           qu == IF alerts # <<>> THEN "corroborated_telemetry"
                 ELSE IF evidence # <<>> THEN "analyst_supplied" ELSE "report_only"
           b == [alerts |-> alerts, events |-> alerts, timeline |-> Len(alerts),
                 techniques |-> te, evidence |-> ev, quality |-> qu,
                 truncated |-> FALSE, refs |-> {}]
<1>1. c = [b EXCEPT !.refs = Items(b)]
  BY DEF Read
<1>2. ReadEvidence \in Nat \ {0}
  BY SizesAssumption
<1>3. /\ Len(alerts) \in Nat /\ ToSet(alerts) \subseteq Alerts /\ IsFiniteSet(ToSet(alerts))
      /\ Len(evidence) \in Nat
      /\ evidence = <<>> <=> Len(evidence) = 0
  BY EntriesAre
<1>4. /\ ev \in Seq(Evidence)
      /\ Len(ev) = IF Len(evidence) <= ReadEvidence THEN Len(evidence) ELSE ReadEvidence
      /\ Len(evidence) <= ReadEvidence => ToSet(ev) = ToSet(evidence)
  BY <1>2, LatestIs, ReverseIs
<1>5. ev = <<>> <=> Len(ev) = 0
  BY <1>4, EntriesAre
<1>6. ev = <<>> <=> evidence = <<>>
  BY <1>2, <1>3, <1>4, <1>5
<1>7. IsFiniteSet(te) /\ te \in SUBSET Techniques
  <2> DEFINE f == [a \in ToSet(alerts) |-> Technique[a]]
  <2>1. f \in Surjection(ToSet(alerts), te)
    BY DEF Surjection
  <2>2. IsFiniteSet(te)
    BY <1>3, <2>1, FS_Surjection
  <2>3. QED
    BY <1>3, <2>2 DEF Techniques
<1>8. qu \in {"corroborated_telemetry", "analyst_supplied", "report_only"}
  OBVIOUS
<1> HIDE DEF ev, te, qu
<1>9. /\ c.alerts = alerts /\ c.events = alerts /\ c.timeline = Len(alerts)
      /\ c.techniques = te /\ c.evidence = ev /\ c.quality = qu
      /\ c.truncated = FALSE /\ c.refs = Items(b)
      /\ c = [alerts |-> alerts, events |-> alerts, timeline |-> Len(alerts), techniques |-> te,
              evidence |-> ev, quality |-> qu, truncated |-> FALSE, refs |-> Items(b)]
  BY <1>1
<1>10. Items(b) = Items(c) /\ Items(b) \in SUBSET Refs
  <2>1. Items(b) = Items(c)
    BY <1>9 DEF Items
  <2>2. Items(c) \in SUBSET Refs
    BY <1>4, <1>7, <1>9, ItemsAreRefs
  <2>3. QED
    BY <2>1, <2>2
<1> HIDE DEF b
<1>11. c \in Contexts
  BY <1>3, <1>4, <1>7, <1>8, <1>9, <1>10 DEF Contexts
<1>12. Sound(c)
  BY <1>6, <1>9, <1>10 DEF Sound, qu
<1>13. QED
  BY <1>3, <1>4, <1>7, <1>9, <1>11, <1>12

\* Popping takes what exceeds, and leaves one entry where there was any.
LEMMA PoppedIs ==
    ASSUME NEW x \in Nat, NEW n \in Nat
    PROVE  /\ Popped(x, n) \in Nat
           /\ Popped(x, n) <= x /\ Popped(x, n) <= n
           /\ n # 0 => Popped(x, n) < n
<1> DEFINE m == Max({n - 1, 0})
<1>1. m = IF n = 0 THEN 0 ELSE n - 1
  <2>1. m \in {n - 1, 0} /\ m >= n - 1 /\ m >= 0
    BY MaxOfTwo
  <2>2. QED
    BY <2>1
<1> HIDE DEF m
<1>2. m \in Nat
  BY <1>1
<1>3. Min({x, m}) \in {x, m} /\ Min({x, m}) <= x /\ Min({x, m}) <= m
  BY <1>2, MinOfTwo
<1>4. QED
  BY <1>1, <1>2, <1>3 DEF Popped, m

\* The cut: it cites what it still shows, empties nothing, adds nothing, and says so.
LEMMA EnforceIs ==
    ASSUME NEW c \in Contexts, Sound(c), IsFiniteSet(c.techniques),
           NEW r, r = EnforceSize(c), r # NoContext
    PROVE  /\ r \in Contexts /\ Sound(r)
           /\ ToSet(r.events) \subseteq ToSet(c.events)
           /\ r = c \/ r.truncated
<1>1. CASE Size(c) <= MaxSize
  BY <1>1 DEF EnforceSize
<1>2. CASE ~(Size(c) <= MaxSize)
  <2> DEFINE k == [c EXCEPT !.truncated = TRUE,
                            !.timeline = Min({@, KeepItems}),
                            !.alerts = Latest(@, KeepItems),
                            !.events = Latest(@, KeepItems),
                            !.evidence = SubSeq(@, 1, Min({Len(@), KeepEvidence}))]
             x0 == Max({0, Size(k) - MaxSize})
             t == Popped(x0, k.timeline)
             e == Popped(x0 - t, Len(k.events))
             a == Popped(x0 - t - e, Len(k.alerts))
             v == Popped(x0 - t - e - a, Len(k.evidence))
             trimmed == [k EXCEPT !.timeline = @ - t,
                                  !.events = DropOldest(@, e),
                                  !.alerts = DropOldest(@, a),
                                  !.evidence = SubSeq(@, 1, Len(@) - v)]
  <2>0. EnforceSize(c) = IF Size(trimmed) > MaxSize THEN NoContext ELSE Recite(c, trimmed)
    BY <1>2, Zenon DEF EnforceSize
  <2> DEFINE al == Latest(c.alerts, KeepItems)
             es == Latest(c.events, KeepItems)
             ev == SubSeq(c.evidence, 1, Min({Len(c.evidence), KeepEvidence}))
             ti == Min({c.timeline, KeepItems})
             al2 == DropOldest(al, a)
             es2 == DropOldest(es, e)
             ev2 == SubSeq(ev, 1, Len(ev) - v)
  <2>1. /\ c.alerts \in Seq(Alerts) /\ c.events \in Seq(Alerts) /\ c.evidence \in Seq(Evidence)
        /\ c.timeline \in Nat /\ c.techniques \in SUBSET Techniques
        /\ c.quality \in {"corroborated_telemetry", "analyst_supplied", "report_only"}
    BY DEF Contexts
  <2>2. KeepItems \in Nat \ {0} /\ KeepEvidence \in Nat \ {0} /\ MaxSize \in Nat
    BY SizesAssumption
  <2>3. /\ Len(c.alerts) \in Nat /\ (c.alerts = <<>> <=> Len(c.alerts) = 0)
        /\ Len(c.events) \in Nat
        /\ Len(c.evidence) \in Nat /\ (c.evidence = <<>> <=> Len(c.evidence) = 0)
    BY <2>1, EntriesAre
  <2>4. /\ al \in Seq(Alerts) /\ Len(al) \in Nat /\ (Len(al) = 0 => Len(c.alerts) = 0)
        /\ es \in Seq(Alerts) /\ Len(es) \in Nat /\ ToSet(es) \subseteq ToSet(c.events)
    BY <2>1, <2>2, <2>3, LatestIs
  <2>5. /\ ev \in Seq(Evidence) /\ Len(ev) \in Nat /\ (Len(ev) = 0 => Len(c.evidence) = 0)
    <3> DEFINE n == Min({Len(c.evidence), KeepEvidence})
    <3>1. n \in {Len(c.evidence), KeepEvidence} /\ n <= Len(c.evidence)
      <4>1. Len(c.evidence) \in Int /\ KeepEvidence \in Int
        BY <2>2, <2>3
      <4>2. QED
        BY <4>1, MinOfTwo
    <3> HIDE DEF n
    <3>2. n \in Nat /\ (n = 0 => Len(c.evidence) = 0)
      BY <2>2, <2>3, <3>1
    <3>3. SubSeq(c.evidence, 1, n) \in Seq(Evidence) /\ Len(SubSeq(c.evidence, 1, n)) = n
      BY <2>1, <3>1, <3>2, PartIs
    <3>4. QED
      BY <3>2, <3>3 DEF n
  <2>6. ti \in Nat
    <3>1. c.timeline \in Int /\ KeepItems \in Int
      BY <2>1, <2>2
    <3>2. ti \in {c.timeline, KeepItems}
      BY <3>1, MinOfTwo
    <3>3. QED
      BY <2>1, <2>2, <3>2
  <2>7. /\ k.timeline = ti /\ k.events = es /\ k.alerts = al /\ k.evidence = ev
        /\ k.techniques = c.techniques /\ k.quality = c.quality
    BY DEF Contexts
  <2>70. k = [alerts |-> al, events |-> es, timeline |-> ti, techniques |-> c.techniques,
              evidence |-> ev, quality |-> c.quality, truncated |-> TRUE, refs |-> c.refs]
    <3>1. c = [alerts |-> c.alerts, events |-> c.events, timeline |-> c.timeline,
               techniques |-> c.techniques, evidence |-> c.evidence, quality |-> c.quality,
               truncated |-> c.truncated, refs |-> c.refs]
      BY DEF Contexts
    <3> HIDE DEF al, es, ev, ti
    <3>2. k = [c EXCEPT !.truncated = TRUE, !.timeline = ti, !.alerts = al, !.events = es,
                        !.evidence = ev]
      BY Zenon DEF al, es, ev, ti
    <3> HIDE DEF k
    <3>3. QED
      BY <3>1, <3>2
  <2> HIDE DEF al, es, ev, ti, k
  <2>8. Size(k) \in Nat
    <3>1. Cardinality(c.techniques) \in Nat
      BY FS_CardinalityType
    <3>2. QED
      BY <2>4, <2>5, <2>6, <2>7, <3>1 DEF Size
  <2>9. x0 \in Nat
    <3>1. x0 \in {0, Size(k) - MaxSize} /\ x0 >= 0
      <4>1. 0 \in Int /\ Size(k) - MaxSize \in Int
        BY <2>2, <2>8
      <4>2. QED
        BY <4>1, MaxOfTwo
    <3>2. QED
      BY <2>2, <2>8, <3>1
  <2> HIDE DEF x0
  <2>10. t \in Nat /\ t <= x0 /\ t <= ti
    BY <2>6, <2>7, <2>9, PoppedIs
  <2> HIDE DEF t
  <2>11. e \in Nat /\ e <= x0 - t /\ e <= Len(es)
    <3>1. x0 - t \in Nat
      BY <2>9, <2>10
    <3>2. QED
      BY <2>4, <2>7, <3>1, PoppedIs
  <2> HIDE DEF e
  <2>12. a \in Nat /\ a <= x0 - t - e /\ a <= Len(al) /\ (Len(al) # 0 => a < Len(al))
    <3>1. x0 - t - e \in Nat
      BY <2>9, <2>10, <2>11
    <3>2. QED
      BY <2>4, <2>7, <3>1, PoppedIs
  <2> HIDE DEF a
  <2>13. v \in Nat /\ v <= Len(ev) /\ (Len(ev) # 0 => v < Len(ev))
    <3>1. x0 - t - e - a \in Nat
      BY <2>9, <2>10, <2>11, <2>12
    <3>2. QED
      BY <2>5, <2>7, <3>1, PoppedIs
  <2> HIDE DEF v
  <2>14. /\ al2 \in Seq(Alerts) /\ (al2 = <<>> => c.alerts = <<>>)
         /\ es2 \in Seq(Alerts) /\ ToSet(es2) \subseteq ToSet(c.events)
    <3>1. al2 \in Seq(Alerts) /\ Len(al2) = Len(al) - a
      BY <2>4, <2>12, DropOldestIs
    <3>2. es2 \in Seq(Alerts) /\ ToSet(es2) \subseteq ToSet(es)
      BY <2>4, <2>11, DropOldestIs
    <3>3. al2 = <<>> => Len(al2) = 0
      BY <3>1, EntriesAre
    <3>4. QED
      BY <2>3, <2>4, <2>12, <3>1, <3>2, <3>3
  <2>15. ev2 \in Seq(Evidence) /\ (ev2 = <<>> => c.evidence = <<>>)
    <3>1. Len(ev) - v \in Nat /\ Len(ev) - v <= Len(ev)
      BY <2>5, <2>13
    <3>2. ev2 \in Seq(Evidence) /\ Len(ev2) = IF 1 <= Len(ev) - v THEN Len(ev) - v ELSE 0
      BY <2>5, <3>1, PartIs
    <3>3. ev2 = <<>> => Len(ev2) = 0
      BY <3>2, EntriesAre
    <3>4. QED
      BY <2>3, <2>5, <2>13, <3>1, <3>2, <3>3
  <2>150. trimmed = [alerts |-> al2, events |-> es2, timeline |-> ti - t,
                     techniques |-> c.techniques, evidence |-> ev2, quality |-> c.quality,
                     truncated |-> TRUE, refs |-> c.refs]
    <3> HIDE DEF al2, es2, ev2
    <3>1. trimmed = [k EXCEPT !.timeline = ti - t, !.events = es2, !.alerts = al2,
                              !.evidence = ev2]
      BY <2>7, Zenon DEF al2, es2, ev2
    <3> HIDE DEF trimmed
    <3>2. QED
      BY <2>70, <3>1
  <2> HIDE DEF al2, es2, ev2, trimmed
  <2>16. r = [trimmed EXCEPT !.refs = Items(trimmed)]
    BY <2>0, Zenon DEF Recite
  <2>17. /\ r.alerts = al2 /\ r.events = es2 /\ r.evidence = ev2 /\ r.timeline = ti - t
         /\ r.techniques = c.techniques /\ r.quality = c.quality /\ r.truncated = TRUE
         /\ r.refs = Items(trimmed)
    BY <2>16, <2>150
  <2>18. Items(trimmed) = Items(r)
    <3>1. /\ trimmed.alerts = al2 /\ trimmed.events = es2 /\ trimmed.evidence = ev2
          /\ trimmed.techniques = c.techniques
      BY <2>150
    <3>2. QED
      BY <2>17, <3>1 DEF Items
  <2>19. Items(r) \in SUBSET Refs
    BY <2>1, <2>14, <2>15, <2>17, ItemsAreRefs
  <2>20. r \in Contexts
    <3>1. r = [alerts |-> al2, events |-> es2, timeline |-> ti - t, techniques |-> c.techniques,
               evidence |-> ev2, quality |-> c.quality, truncated |-> TRUE, refs |-> Items(r)]
      BY <2>16, <2>150, <2>18
    <3>2. ti - t \in Nat
      BY <2>6, <2>10
    <3>3. TRUE \in BOOLEAN
      OBVIOUS
    <3>4. QED
      <4>1. /\ al2 \in Seq(Alerts) /\ es2 \in Seq(Alerts) /\ ev2 \in Seq(Evidence)
            /\ ti - t \in Nat /\ c.techniques \in SUBSET Techniques
            /\ c.quality \in {"corroborated_telemetry", "analyst_supplied", "report_only"}
            /\ Items(r) \in SUBSET Refs
        BY <2>1, <2>14, <2>15, <2>19, <3>2
      <4>2. \A it \in SUBSET Refs, n \in Nat :
              [alerts |-> al2, events |-> es2, timeline |-> n, techniques |-> c.techniques,
               evidence |-> ev2, quality |-> c.quality, truncated |-> TRUE, refs |-> it]
                  \in Contexts
        BY <4>1, <3>3 DEF Contexts
      <4>3. QED
        BY <4>1, <4>2, <3>1, Zenon
  <2>21. Sound(r)
    BY <2>14, <2>15, <2>17, <2>18 DEF Sound
  <2>22. QED
    BY <2>14, <2>17, <2>20, <2>21
<1>3. QED
  BY <1>1, <1>2
-----------------------------------------------------------------------------
(* Sequences that grow.                                                     *)

\* Appending adds one element.
LEMMA AppendIs ==
    ASSUME NEW S, NEW s \in Seq(S), NEW x \in S
    PROVE  /\ Append(s, x) \in Seq(S)
           /\ ToSet(Append(s, x)) = ToSet(s) \cup {x}
<1> DEFINE z == Append(s, x)
<1>1. /\ z \in Seq(S) /\ Len(s) \in Nat /\ Len(z) = Len(s) + 1
      /\ DOMAIN s = 1..Len(s) /\ DOMAIN z = 1..Len(s) + 1
      /\ \A i \in 1..Len(s) : z[i] = s[i]
      /\ z[Len(s) + 1] = x
  BY AppendProperties, LenProperties
<1> HIDE DEF z
<1>2. \A i \in 1..Len(s) + 1 : i \in 1..Len(s) \/ i = Len(s) + 1
  BY <1>1
<1>3. ToSet(z) = ToSet(s) \cup {x}
  BY <1>1, <1>2 DEF ToSet
<1>4. QED
  BY <1>1, <1>3 DEF z

\* Inserting loses none and adds one.
LEMMA InsertIs ==
    ASSUME NEW S, NEW s \in Seq(S), NEW x \in S, NEW i \in 1..Len(s) + 1
    PROVE  /\ InsertAt(s, i, x) \in Seq(S)
           /\ ToSet(s) \subseteq ToSet(InsertAt(s, i, x))
           /\ ToSet(InsertAt(s, i, x)) \subseteq ToSet(s) \cup {x}
<1> DEFINE b == SubSeq(s, 1, i - 1)
           e == SubSeq(s, i, Len(s))
           z == b \o <<x>> \o e
<1>1. Len(s) \in Nat /\ DOMAIN s = 1..Len(s) /\ i \in Nat \ {0} /\ i <= Len(s) + 1
      /\ \A j \in 1..Len(s) : s[j] \in S
  BY LenProperties, ElementOfSeq
<1>2. /\ b \in Seq(S) /\ Len(b) = i - 1
      /\ \A j \in 1..i - 1 : b[j] = s[j]
  <2>1. \A j \in 1..i - 1 : s[j] \in S
    BY <1>1
  <2>2. 1 \in Int /\ i - 1 \in Int /\ (i - 1) - 1 + 1 = i - 1
    BY <1>1
  <2>3. /\ b \in Seq(S) /\ Len(b) = IF 1 <= i - 1 THEN (i - 1) - 1 + 1 ELSE 0
        /\ \A j \in 1..(i - 1) - 1 + 1 : b[j] = s[1 + j - 1]
    BY <2>1, <2>2, SubSeqProperties
  <2>4. QED
    BY <1>1, <2>3
<1>3. /\ e \in Seq(S) /\ Len(e) = Len(s) - i + 1
      /\ \A j \in 1..Len(s) - i + 1 : e[j] = s[i + j - 1]
  <2>1. \A j \in i..Len(s) : s[j] \in S
    BY <1>1
  <2>2. /\ e \in Seq(S) /\ Len(e) = IF i <= Len(s) THEN Len(s) - i + 1 ELSE 0
        /\ \A j \in 1..Len(s) - i + 1 : e[j] = s[i + j - 1]
    BY <1>1, <2>1, SubSeqProperties
  <2>3. QED
    BY <1>1, <2>2
<1> HIDE DEF b, e
<1>4. <<x>> \in Seq(S) /\ Len(<<x>>) = 1
  OBVIOUS
<1>5. /\ b \o <<x>> \in Seq(S) /\ Len(b \o <<x>>) = i
      /\ \A j \in 1..i - 1 : (b \o <<x>>)[j] = b[j]
      /\ (b \o <<x>>)[i] = x
  <2>1. /\ b \o <<x>> \in Seq(S) /\ Len(b \o <<x>>) = Len(b) + Len(<<x>>)
        /\ \A j \in 1..Len(b) + Len(<<x>>) :
               (b \o <<x>>)[j] = IF j <= Len(b) THEN b[j] ELSE <<x>>[j - Len(b)]
    BY <1>2, <1>4, ConcatProperties
  <2>2. (b \o <<x>>)[i] = x
    <3>1. i \in 1..Len(b) + Len(<<x>>) /\ ~(i <= Len(b)) /\ i - Len(b) = 1
      BY <1>1, <1>2, <1>4
    <3>2. (b \o <<x>>)[i] = <<x>>[1]
      BY <2>1, <3>1
    <3>3. QED
      BY <3>2
  <2>3. QED
    BY <1>1, <1>2, <1>4, <2>1, <2>2
<1> DEFINE h == b \o <<x>>
<1>6. z = h \o e
  OBVIOUS
<1> HIDE DEF h, z
<1>7. /\ z \in Seq(S) /\ Len(z) = Len(s) + 1
      /\ \A j \in 1..i - 1 : z[j] = s[j]
      /\ \A j \in i..Len(s) : z[j + 1] = s[j]
      /\ z[i] = x
  <2>1. /\ h \in Seq(S) /\ Len(h) = i /\ h[i] = x
        /\ \A j \in 1..i - 1 : h[j] = s[j]
    BY <1>2, <1>5 DEF h
  <2>2. /\ z \in Seq(S) /\ Len(z) = Len(h) + Len(e)
        /\ \A j \in 1..Len(h) + Len(e) : z[j] = IF j <= Len(h) THEN h[j] ELSE e[j - Len(h)]
    BY <1>3, <1>6, <2>1, ConcatProperties
  <2>3. Len(h) + Len(e) = Len(s) + 1
    BY <1>1, <1>3, <2>1
  <2>4. \A j \in 1..i - 1 : z[j] = s[j]
    BY <1>1, <2>1, <2>2, <2>3
  <2>5. ASSUME NEW j \in i..Len(s) PROVE z[j + 1] = s[j]
    <3>1. j + 1 \in 1..Len(s) + 1 /\ ~(j + 1 <= i) /\ (j + 1) - i \in 1..Len(s) - i + 1
      BY <1>1
    <3>2. z[j + 1] = e[(j + 1) - i] /\ e[(j + 1) - i] = s[i + ((j + 1) - i) - 1]
      BY <1>3, <2>1, <2>2, <2>3, <3>1
    <3>3. i + ((j + 1) - i) - 1 = j
      BY <1>1
    <3>4. QED
      BY <3>2, <3>3
  <2>6. z[i] = x
    <3>1. i \in 1..Len(h) + Len(e) /\ i <= Len(h)
      BY <1>1, <2>1, <2>3
    <3>2. z[i] = h[i]
      BY <2>2, <3>1
    <3>3. QED
      BY <2>1, <3>2
  <2>7. QED
    BY <2>2, <2>3, <2>4, <2>5, <2>6
<1>8. ToSet(s) \subseteq ToSet(z)
  <2> SUFFICES ASSUME NEW j \in 1..Len(s) PROVE s[j] \in ToSet(z)
    BY <1>1 DEF ToSet
  <2>1. DOMAIN z = 1..Len(s) + 1 /\ j \in 1..Len(s) + 1 /\ j + 1 \in 1..Len(s) + 1
    BY <1>1, <1>7, LenProperties
  <2>2. CASE j < i
    BY <1>1, <1>7, <2>1, <2>2 DEF ToSet
  <2>3. CASE ~(j < i)
    BY <1>1, <1>7, <2>1, <2>3 DEF ToSet
  <2>4. QED
    BY <2>2, <2>3
<1>9. ToSet(z) \subseteq ToSet(s) \cup {x}
  <2> SUFFICES ASSUME NEW j \in 1..Len(s) + 1 PROVE z[j] \in ToSet(s) \cup {x}
    BY <1>1, <1>7, LenProperties DEF ToSet
  <2>1. CASE j < i
    BY <1>1, <1>7, <2>1 DEF ToSet
  <2>2. CASE j > i
    <3>1. j - 1 \in i..Len(s) /\ j - 1 \in 1..Len(s) /\ (j - 1) + 1 = j
      BY <1>1, <2>2
    <3>2. z[j] = s[j - 1]
      BY <1>7, <3>1
    <3>3. QED
      BY <1>1, <3>1, <3>2 DEF ToSet
  <2>3. CASE j = i
    BY <1>7, <2>3
  <2>4. QED
    BY <1>1, <2>1, <2>2, <2>3
<1>10. z = InsertAt(s, i, x)
  BY Zenon DEF InsertAt, z, b, e
<1>11. QED
  BY <1>7, <1>8, <1>9, <1>10

-----------------------------------------------------------------------------
(* Types, and where a run can be.                                           *)

States == Nodes \cup {"absent", "queued", "completed", "failed", "commit", "ended"}
Contents == [alerts : SUBSET Alerts, evidence : SUBSET Evidence]
Outputs == [cited : SUBSET Refs, top : Int, sound : BOOLEAN, plan : Seq(Actions)]
Decisions == [action : Actions, verdict : {Denied, ForHuman, Cleared}]
Outcomes == [action : Actions, was : BOOLEAN, verified : BOOLEAN,
             status : {"denied", "pending_approval", "failed", "executed", "reverted"}]
Names == {a.name : a \in Actions}
Entries == Runs \X Nat \X {"failed", "succeeded", "reverted"}
Pendings == [disabled : SUBSET Names, restored : SUBSET Names, revoked : SUBSET Names,
             audit : SUBSET Entries]

DrivenStates == {"absent", "gate", "execute", "verify", "commit", "ended"}

\* Who drives a run decides how far it can get; past its first node it has a
\* context, and what it read is of the incident.
Placed(k) ==
    /\ entry[k] = "graph" => pc[k] \notin {"commit", "ended"}
    /\ entry[k] = "nodes" => pc[k] \in DrivenStates
    /\ entry[k] = "executor" => pc[k] \in DrivenStates \ {"gate", "verify"}
    /\ pc[k] \in {"absent", "queued"} => ctx[k] = NoContext
    /\ pc[k] \in (Nodes \ {"load"}) \cup {"completed"} /\ entry[k] # "executor"
           => ctx[k] # NoContext
    /\ ctx[k] # NoContext => Sound(ctx[k]) /\ ToSet(ctx[k].events) \subseteq ToSet(linked)
    /\ pc[k] = "load" /\ ctx[k] # NoContext => ToSet(ctx[k].alerts) \subseteq ToSet(linked)

Types ==
    /\ linked \in Seq(Alerts) /\ attached \in Seq(Evidence)
    /\ rpc \in [Requests -> {"idle", "hashing", "hashed", "answered"}]
    /\ asked \in [Requests -> Contents] /\ seen \in [Requests -> Contents]
    /\ answer \in [Requests -> Runs \cup {NoRun}]
    /\ pc \in [Runs -> States] /\ hash \in [Runs -> Contents]
    /\ entry \in [Runs -> {"graph", "nodes", "executor"}]
    /\ ctx \in [Runs -> Contexts \cup {NoContext}]
    /\ out \in [Runs -> Outputs]
    /\ decided \in [Runs -> Seq(Decisions)]
    /\ done \in [Runs -> Seq(Outcomes)]
    /\ DOMAIN saved = Runs
    /\ pending \in [Runs -> Pendings]

TypeInv == Types /\ \A k \in Runs : Placed(k)

\* What an incident holds at any time is a content.
LEMMA ContentIs == Types => Content \in Contents
  BY EntriesAre DEF Types, Content, Contents

\* A step that gives a run no other place and no other context leaves it placed.
LEMMA StaysPlaced ==
    ASSUME NEW k \in Runs, Placed(k), ToSet(linked) \subseteq ToSet(linked'),
           pc'[k] = pc[k], entry'[k] = entry[k], ctx'[k] = ctx[k]
    PROVE  Placed(k)'
  BY DEF Placed

\* A node moves its run alone.
LEMMA NodeTypes ==
    ASSUME Types, NEW k \in Runs, NEW from, NEW to \in States, Node(k, from, to)
    PROVE  /\ pc' \in [Runs -> States]
           /\ pc[k] = from /\ pc'[k] = to
           /\ \A j \in Runs : j # k => pc'[j] = pc[j]
           /\ UNCHANGED <<linked, attached, counted, rpc, asked, seen, answer, hash, entry>>
  BY DEF Types, Node, incident, requests

\* A function stays one between the same sets when a value of its range is put in.
LEMMA Put ==
    ASSUME NEW D, NEW R, NEW f \in [D -> R], NEW d, NEW e \in R
    PROVE  [f EXCEPT ![d] = e] \in [D -> R]
  OBVIOUS

\* What a node writes of its run is an output, and outputs replace outputs.
LEMMA OutputIs ==
    ASSUME Types, NEW k \in Runs
    PROVE  /\ out[k] \in Outputs
           /\ \A o \in Outputs : out' = [out EXCEPT ![k] = o] => out' \in [Runs -> Outputs]
<1>1. out \in [Runs -> Outputs]
  BY DEF Types
<1>2. QED
  BY <1>1, Put

\* The start is well typed.
LEMMA InitTypes == Init => TypeInv
<1> SUFFICES ASSUME Init PROVE TypeInv
  OBVIOUS
<1>1. /\ \A S : <<>> \in Seq(S)
      /\ NoContent \in Contents /\ NoOutput \in Outputs /\ NothingPending \in Pendings
  BY DEF NoContent, Contents, NoOutput, Outputs, NothingPending, Pendings
<1>2. entry \in [Runs -> {"graph", "nodes", "executor"}]
  BY CastsAssumption DEF Init
<1>3. Types
  BY <1>1, <1>2 DEF Init, Types, States
<1>4. \A k \in Runs : Placed(k)
  BY <1>2 DEF Init, Placed, DrivenStates, Nodes
<1>5. QED
  BY <1>3, <1>4 DEF TypeInv

\* The gate clears only what concerns the incident, is not protected, and
\* disables nobody.
LEMMA EvaluateIs ==
    ASSUME NEW a, NEW entities, NEW refs
    PROVE  /\ Evaluate(a, entities, refs) \in {Denied, ForHuman, Cleared}
           /\ Evaluate(a, entities, refs) = Cleared
                  => a.name \in entities \ Protected /\ a.type # "disable_user"
<1> DEFINE refused == \/ Tripped(FreshBreaker)
                      \/ a.name \notin entities
                      \/ a.name \in Protected
                      \/ ~(a.refs \subseteq refs)
           human == Tier(a.type) >= 2 \/ (Tier(a.type) = 1 /\ a.confidence < MinAutoConfidence)
<1>1. Evaluate(a, entities, refs) = IF refused THEN Denied ELSE IF human THEN ForHuman ELSE Cleared
  BY Zenon DEF Evaluate
<1>2. Denied # Cleared /\ ForHuman # Cleared
  BY DEF Denied, ForHuman, Cleared
<1>3. a.type = "disable_user" => human
  BY DEF Tier
<1> HIDE DEF human
<1>4. QED
  BY <1>1, <1>2, <1>3

\* Alerts and evidence that arrive keep the types.
LEMMA IncidentTypes ==
    ASSUME TypeInv,
           \/ \E a \in Alerts : LinkAlert(a)
           \/ \E e \in Evidence : CountEvidence(e) \/ AttachEvidence(e)
    PROVE  TypeInv' /\ ToSet(linked) \subseteq ToSet(linked')
                    /\ ToSet(attached) \subseteq ToSet(attached')
<1> DEFINE Grown == /\ linked' \in Seq(Alerts) /\ ToSet(linked) \subseteq ToSet(linked')
                    /\ attached' \in Seq(Evidence) /\ ToSet(attached) \subseteq ToSet(attached')
                    /\ UNCHANGED <<requests, pc, hash, entry, local, saved, world>>
<1>1. Grown
  <2>1. ASSUME NEW a \in Alerts, LinkAlert(a) PROVE Grown
    BY <2>1, AppendIs DEF LinkAlert, TypeInv, Types
  <2>2. ASSUME NEW e \in Evidence, CountEvidence(e) PROVE Grown
    BY <2>2 DEF CountEvidence, TypeInv, Types
  <2>3. ASSUME NEW e \in Evidence, AttachEvidence(e) PROVE Grown
    BY <2>3, InsertIs DEF AttachEvidence, TypeInv, Types
  <2>4. QED
    BY <2>1, <2>2, <2>3
<1>2. Types'
  BY <1>1 DEF TypeInv, Types, requests, local, world
<1>3. \A k \in Runs : Placed(k)'
  BY <1>1, StaysPlaced DEF TypeInv, local
<1>4. QED
  BY <1>1, <1>2, <1>3 DEF TypeInv

\* So do requests.
LEMMA RequestTypes ==
    ASSUME TypeInv, NEW q \in Requests, ReadIncident(q) \/ HashEvidence(q) \/ Join(q)
    PROVE  TypeInv'
<1> USE DEF TypeInv
<1>1. ASSUME UNCHANGED <<incident, pc, entry, ctx>>
      PROVE  \A k \in Runs : Placed(k)'
  BY <1>1, StaysPlaced DEF incident
<1>2. CASE ReadIncident(q)
  <2>1. Content \in Contents
    BY ContentIs
  <2>2. seen' \in [Requests -> Contents]
    BY <1>2, <2>1 DEF ReadIncident, Types, Contents, Content
  <2>3. Types'
    BY <1>2, <2>1, <2>2 DEF ReadIncident, Types, incident, local, world
  <2>4. QED
    BY <1>1, <1>2, <2>3 DEF ReadIncident, local
<1>3. CASE HashEvidence(q)
  <2>1. Content \in Contents
    BY ContentIs
  <2>2. seen' \in [Requests -> Contents]
    BY <1>3, <2>1 DEF HashEvidence, Types, Contents, Content
  <2>3. Types'
    BY <1>3, <2>1, <2>2 DEF HashEvidence, Types, incident, local, world
  <2>4. QED
    BY <1>1, <1>3, <2>3 DEF HashEvidence, local
<1>4. CASE Join(q)
  <2>1. UNCHANGED <<incident, asked, seen, entry, decided, done, saved, world>>
    BY <1>4 DEF Join
  <2>2. rpc' \in [Requests -> {"idle", "hashing", "hashed", "answered"}]
    BY <1>4 DEF Join, Types
  <2>3. CASE answer' \in [Requests -> Runs \cup {NoRun}] /\ UNCHANGED <<pc, hash, ctx, out>>
    <3>1. Types'
      BY <2>1, <2>2, <2>3 DEF Types, incident, world
    <3>2. QED
      BY <1>1, <2>1, <2>3, <3>1
  <2>4. ASSUME NEW k \in Runs, entry[k] = "graph",
               /\ answer' = [answer EXCEPT ![q] = k]
               /\ pc' = [pc EXCEPT ![k] = "queued"]
               /\ hash' = [hash EXCEPT ![k] = seen[q]]
               /\ ctx' = [ctx EXCEPT ![k] = NoContext]
               /\ out' = [out EXCEPT ![k] = NoOutput]
        PROVE  TypeInv'
    <3>1. NoOutput \in Outputs /\ "queued" \in States
      BY DEF NoOutput, Outputs, States
    <3>2. Types'
      BY <2>1, <2>2, <2>4, <3>1 DEF Types, incident, world
    <3>3. ASSUME NEW j \in Runs, j # k PROVE Placed(j)'
      BY <2>1, <2>4, <3>3, StaysPlaced DEF Types, incident
    <3>4. Placed(k)'
      BY <2>1, <2>4 DEF Placed, Types, incident, Nodes
    <3>5. QED
      BY <3>2, <3>3, <3>4
  <2>5. QED
    <3>1. \/ \E k \in Runs : /\ answer' = [answer EXCEPT ![q] = k]
                              /\ UNCHANGED <<pc, hash, ctx, out>>
          \/ \E k \in Runs : entry[k] = "graph" /\ 
               /\ answer' = [answer EXCEPT ![q] = k]
               /\ pc' = [pc EXCEPT ![k] = "queued"]
               /\ hash' = [hash EXCEPT ![k] = seen[q]]
               /\ ctx' = [ctx EXCEPT ![k] = NoContext]
               /\ out' = [out EXCEPT ![k] = NoOutput]
      BY <1>4 DEF Join
    <3>3. ASSUME NEW k \in Runs, answer' = [answer EXCEPT ![q] = k]
          PROVE  answer' \in [Requests -> Runs \cup {NoRun}]
      BY <3>3 DEF Types
    <3>2. QED
      BY <2>3, <2>4, <3>1, <3>3
<1>5. QED
  BY <1>2, <1>3, <1>4

\* A typed step of one run that leaves the others alone need only keep that run placed.
LEMMA OthersStay ==
    ASSUME TypeInv, NEW k \in Runs, Types', Placed(k)', UNCHANGED <<linked, entry>>,
           \A j \in Runs : j # k => pc'[j] = pc[j] /\ ctx'[j] = ctx[j]
    PROVE  TypeInv'
<1>1. \A j \in Runs : j # k => Placed(j)'
  BY StaysPlaced DEF TypeInv
<1>2. QED
  BY <1>1 DEF TypeInv

\* A run that fails or is given up keeps the types.
LEMMA AbortTypes ==
    ASSUME TypeInv, NEW k \in Runs, Abort(k), pc[k] \notin DrivenStates \/ entry[k] = "graph"
    PROVE  TypeInv'
<1> USE DEF TypeInv
<1>1. NoOutput \in Outputs /\ NothingPending \in Pendings /\ "failed" \in States
  BY DEF NoOutput, Outputs, NothingPending, Pendings, States
<1>2. Types'
  BY <1>1 DEF Abort, Types, incident, requests
<1>3. entry[k] = "graph"
  BY DEF Types, Placed
<1>4. Placed(k)'
  BY <1>3 DEF Abort, Placed, Types, incident, Nodes
<1>5. QED
  BY <1>2, <1>4, OthersStay DEF Abort, Types, incident

\* Reading, and cutting what was read.
LEMMA LoadTypes ==
    ASSUME TypeInv, NEW k \in Runs, Claim(k) \/ LoadAlerts(k) \/ LoadEvidence(k)
    PROVE  TypeInv'
<1> USE DEF TypeInv
<1>1. CASE Claim(k)
  <2>1. "load" \in States
    BY DEF States, Nodes
  <2>2. Types'
    BY <1>1, <2>1, NodeTypes DEF Claim, Types, local, world
  <2>3. Placed(k)'
    <3>1. /\ pc[k] = "queued" /\ pc'[k] = "load" /\ ctx' = ctx
          /\ UNCHANGED <<linked, entry>>
      BY <1>1, <2>1, NodeTypes DEF Claim, local
    <3>2. ctx[k] = NoContext /\ entry[k] = "graph"
      BY <3>1 DEF Placed, Types, DrivenStates
    <3>3. QED
      BY <3>1, <3>2 DEF Placed, Nodes
  <2>4. QED
    BY <1>1, <2>1, <2>2, <2>3, NodeTypes, OthersStay DEF Claim, local
<1>2. CASE LoadAlerts(k)
  <2> DEFINE c == Read(linked, <<>>)
  <2>1. <<>> \in Seq(Evidence) /\ linked \in Seq(Alerts)
    BY DEF Types
  <2>2. c \in Contexts /\ Sound(c) /\ c.events = linked /\ c.alerts = linked
    BY <2>1, ReadIs
  <2> HIDE DEF c
  <2>3. /\ ctx' = [ctx EXCEPT ![k] = c] /\ pc[k] = "load"
        /\ UNCHANGED <<incident, requests, pc, hash, entry, out, decided, done, saved, world>>
    BY <1>2 DEF LoadAlerts, c
  <2>4. Types'
    BY <2>2, <2>3 DEF Types, incident, requests, world
  <2>5. Placed(k)'
    BY <2>2, <2>3 DEF Types, Placed, incident, Nodes, DrivenStates
  <2>6. QED
    BY <2>3, <2>4, <2>5, OthersStay DEF Types, incident
<1>3. CASE LoadEvidence(k)
  <2> DEFINE b == Read(ctx[k].alerts, attached)
             c == EnforceSize(b)
  <2>1. ctx[k] \in Contexts /\ ctx[k] # NoContext /\ pc[k] = "load"
    BY <1>3 DEF LoadEvidence, Types
  <2>2. attached \in Seq(Evidence) /\ ctx[k].alerts \in Seq(Alerts)
    BY <2>1 DEF Types, Contexts
  <2>3. /\ b \in Contexts /\ Sound(b) /\ b.events = ctx[k].alerts
        /\ IsFiniteSet(b.techniques)
    BY <2>2, ReadIs
  <2>4. CASE c = NoContext /\ Abort(k)
    BY <2>1, <2>4, AbortTypes DEF DrivenStates
  <2>5. CASE c # NoContext /\ ctx' = [ctx EXCEPT ![k] = c] /\ Node(k, "load", "evidence")
             /\ UNCHANGED <<out, decided, done, saved, world>>
    <3>1. c \in Contexts /\ Sound(c) /\ ToSet(c.events) \subseteq ToSet(ctx[k].alerts)
      <4> HIDE DEF b
      <4>1. QED
        BY <2>3, <2>5, EnforceIs
    <3> HIDE DEF c
    <3>2. "evidence" \in States
      BY DEF States, Nodes
    <3>3. Types'
      BY <2>5, <3>1, <3>2, NodeTypes DEF Types, world
    <3>4. ToSet(ctx[k].alerts) \subseteq ToSet(linked)
      BY <2>1 DEF Placed
    <3>5. Placed(k)'
      <4>1. /\ pc[k] = "load" /\ pc'[k] = "evidence" /\ UNCHANGED <<linked, entry>>
            /\ ctx'[k] = c
        BY <2>5, <3>2, NodeTypes DEF Types
      <4>2. entry[k] = "graph"
        BY <4>1 DEF Placed, Types, DrivenStates
      <4>3. QED
        <5>1. ToSet(c.events) \subseteq ToSet(linked) /\ c # NoContext
          BY <2>5, <3>1, <3>4 DEF c
        <5>2. QED
          BY <3>1, <4>1, <4>2, <5>1 DEF Placed, Nodes
    <3>6. QED
      <4>1. \A j \in Runs : j # k => pc'[j] = pc[j] /\ ctx'[j] = ctx[j]
        BY <2>5, <3>2, NodeTypes DEF Types
      <4>2. UNCHANGED <<linked, entry>>
        BY <2>5 DEF Node, incident
      <4>3. QED
        BY <3>3, <3>5, <4>1, <4>2, OthersStay
  <2>6. QED
    BY <1>3, <2>4, <2>5 DEF LoadEvidence
<1>4. QED
  BY <1>1, <1>2, <1>3

\* The moves that leave the context alone.
Moves == {<<"evidence", "risk">>, <<"risk", "narrative">>, <<"narrative", "recommend">>,
          <<"recommend", "validate">>, <<"validate", "gate">>, <<"gate", "execute">>,
          <<"persist", "completed">>}

\* A step of one run keeps the types when what it writes is typed and placed.
LEMMA MoveTypes ==
    ASSUME TypeInv, NEW k \in Runs, NEW from, NEW to, <<from, to>> \in Moves,
           Node(k, from, to), Types', UNCHANGED ctx
    PROVE  TypeInv'
<1>1. to \in States
  BY DEF Moves, States, Nodes
<1>2. /\ pc[k] = from /\ pc'[k] = to /\ UNCHANGED <<linked, entry>>
      /\ \A j \in Runs : j # k => pc'[j] = pc[j]
  BY <1>1, NodeTypes DEF TypeInv
<1>3. Placed(k)'
  BY <1>2 DEF TypeInv, Placed, Moves, DrivenStates, Nodes
<1>4. QED
  BY <1>2, <1>3, OthersStay

Limit(c) == IF c.evidence = <<>> THEN 50 ELSE 65

\* A confidence is capped by what the context holds.
LEMMA CapIs ==
    ASSUME NEW c \in Contexts, Sound(c), NEW x \in Int
    PROVE  Cap(c, x) \in Int /\ (c.alerts = <<>> => Cap(c, x) <= Limit(c))
<1>1. /\ Min({x, 50}) \in Int /\ Min({x, 50}) <= 50
      /\ Min({x, 65}) \in Int /\ Min({x, 65}) <= 65
  <2>1. 50 \in Int /\ 65 \in Int
    OBVIOUS
  <2>2. Min({x, 50}) \in {x, 50} /\ Min({x, 50}) <= 50
    BY <2>1, MinOfTwo
  <2>3. Min({x, 65}) \in {x, 65} /\ Min({x, 65}) <= 65
    BY <2>1, MinOfTwo
  <2>4. QED
    BY <2>2, <2>3
<1>2. c.quality \in {"corroborated_telemetry", "analyst_supplied", "report_only"}
  BY DEF Contexts
<1>3. QED
  BY <1>1, <1>2 DEF Cap, Limit, Sound

\* What the provider cites is made of references.
LEMMA CitableIs == Types => Citable \subseteq Refs
<1> SUFFICES ASSUME Types PROVE Citable \subseteq Refs
  OBVIOUS
<1>1. ToSet(linked) \subseteq Alerts /\ ToSet(attached) \subseteq Evidence
  BY EntriesAre DEF Types
<1>2. QED
  BY <1>1 DEF Citable, Ref, Refs

\* The network assessment cites references.
LEMMA NetworkIs == ASSUME NEW c \in Contexts PROVE NetworkRefs(c) \subseteq Refs
<1>1. ToSet(c.evidence) \subseteq Evidence
  BY EntriesAre DEF Contexts
<1>2. QED
  BY <1>1 DEF NetworkRefs, Ref, Refs

\* What one analysis reports.
LEMMA AnalysisIs ==
    ASSUME TypeInv, NEW k \in Runs, EvidenceAnalysis(k)
    PROVE  \E cited \in SUBSET Refs, top \in Int :
              /\ ctx[k].alerts = <<>> => top <= Limit(ctx[k])
              /\ out' = [out EXCEPT ![k].cited = cited, ![k].top = top]
<1>1. ctx[k] \in Contexts /\ Sound(ctx[k])
  BY DEF TypeInv, Types, Placed, EvidenceAnalysis, Node, Nodes, DrivenStates
<1>2. PICK found \in {{}} \cup {{ref} : ref \in Citable}, x \in Confidences :
          LET confidences == (IF found = {} THEN {} ELSE {x}) \cup
                             (IF NetworkRefs(ctx[k]) = {} THEN {} ELSE {NetworkConfidence})
          IN  out' = [out EXCEPT ![k].cited = found \cup NetworkRefs(ctx[k]),
                                 ![k].top = Cap(ctx[k], Max(confidences \cup {0}))]
  BY Zenon DEF EvidenceAnalysis
<1> DEFINE S == (IF found = {} THEN {} ELSE {x}) \cup
                (IF NetworkRefs(ctx[k]) = {} THEN {} ELSE {NetworkConfidence})
<1>3. Max(S \cup {0}) \in Int
  <2>1. x \in Int /\ NetworkConfidence \in Int /\ S \in SUBSET {x, NetworkConfidence}
    BY AnswersAssumption DEF NetworkConfidence
  <2> HIDE DEF S
  <2>2. QED
    BY <2>1, MaxOfFew
<1>4. /\ Cap(ctx[k], Max(S \cup {0})) \in Int
      /\ ctx[k].alerts = <<>> => Cap(ctx[k], Max(S \cup {0})) <= Limit(ctx[k])
  <2> HIDE DEF S
  <2>1. QED
    BY <1>1, <1>3, CapIs
<1>5. found \cup NetworkRefs(ctx[k]) \in SUBSET Refs
  BY <1>1, CitableIs, NetworkIs DEF TypeInv
<1>6. QED
  <2> DEFINE C == found \cup NetworkRefs(ctx[k])
             T == Cap(ctx[k], Max(S \cup {0}))
  <2>1. out' = [out EXCEPT ![k].cited = C, ![k].top = T]
    BY <1>2
  <2> HIDE DEF C, T
  <2>2. C \in SUBSET Refs /\ T \in Int /\ (ctx[k].alerts = <<>> => T <= Limit(ctx[k]))
    BY <1>4, <1>5 DEF C, T
  <2>3. QED
    BY <2>1, <2>2

\* The narrative writes a confidence that keeps under the ceiling.
LEMMA NarrativeIs ==
    ASSUME TypeInv, NEW k \in Runs, Narrative(k)
    PROVE  \E top \in Int :
              /\ ctx[k].alerts = <<>> /\ out[k].top <= Limit(ctx[k]) => top <= Limit(ctx[k])
              /\ out' = [out EXCEPT ![k].top = top]
<1>1. ctx[k] \in Contexts /\ Sound(ctx[k]) /\ out[k].top \in Int
  BY DEF TypeInv, Types, Placed, Narrative, Node, Nodes, DrivenStates, Outputs
<1>2. PICK x \in Confidences : out' = [out EXCEPT ![k].top = Max({@, Cap(ctx[k], x)})]
  BY DEF Narrative
<1> DEFINE y == Cap(ctx[k], x)
           T == Max({out[k].top, y})
<1>3. x \in Int
  BY AnswersAssumption
<1>4. y \in Int /\ (ctx[k].alerts = <<>> => y <= Limit(ctx[k]))
  BY <1>1, <1>3, CapIs
<1>5. out' = [out EXCEPT ![k].top = T]
  BY <1>2
<1> HIDE DEF y
<1>6. T \in {out[k].top, y}
  BY <1>1, <1>4, MaxOfTwo
<1> HIDE DEF T
<1>7. T \in Int /\ (ctx[k].alerts = <<>> /\ out[k].top <= Limit(ctx[k]) => T <= Limit(ctx[k]))
  BY <1>1, <1>4, <1>6
<1>8. QED
  BY <1>5, <1>7

\* The nodes from the evidence analysis to validation, and failures, keep the types.
LEMMA AnswerTypes ==
    ASSUME TypeInv, NEW k \in Runs,
           \/ EvidenceAnalysis(k) \/ RiskAnalysis(k) \/ Narrative(k) \/ Recommend(k)
           \/ NoProvider(k) \/ ProviderFails(k) \/ Validate(k) \/ PersistFails(k)
    PROVE  TypeInv'
<1>1. ASSUME NEW from, NEW to, <<from, to>> \in Moves, Node(k, from, to),
             out' \in [Runs -> Outputs], UNCHANGED <<ctx, decided, done, saved, world>>
      PROVE  TypeInv'
  <2>1. to \in States
    BY <1>1 DEF Moves, States, Nodes
  <2>2. Types'
    BY <1>1, <2>1, NodeTypes DEF TypeInv, Types, world
  <2>3. QED
    BY <1>1, <2>2, MoveTypes
<1>2. ASSUME Abort(k), pc[k] \in {"load", "evidence", "risk", "narrative", "recommend",
                                  "validate", "persist"}
      PROVE  TypeInv'
  BY <1>2, AbortTypes DEF DrivenStates
<1>0. Types /\ out[k] \in Outputs
  BY OutputIs DEF TypeInv
<1>3. CASE EvidenceAnalysis(k)
  <2>1. PICK cited \in SUBSET Refs, top \in Int :
            out' = [out EXCEPT ![k].cited = cited, ![k].top = top]
    BY <1>3, AnalysisIs, Zenon
  <2>2. out' \in [Runs -> Outputs]
    <3> DEFINE o == [out[k] EXCEPT !.cited = cited, !.top = top]
    <3>1. o \in Outputs
      BY <1>0 DEF Outputs
    <3>2. out' = [out EXCEPT ![k] = o]
      BY <2>1
    <3> HIDE DEF o
    <3>3. QED
      BY <1>0, <3>1, <3>2, OutputIs
  <2>3. Node(k, "evidence", "risk") /\ UNCHANGED <<ctx, decided, done, saved, world>>
    BY <1>3, Zenon DEF EvidenceAnalysis
  <2>4. QED
    BY <1>1, <2>2, <2>3 DEF Moves
<1>4. CASE RiskAnalysis(k)
  <2>0. PICK agrees \in BOOLEAN : out' = [out EXCEPT ![k].sound = agrees]
    BY <1>4, Zenon DEF RiskAnalysis
  <2>1. out' \in [Runs -> Outputs]
    <3> DEFINE o == [out[k] EXCEPT !.sound = agrees]
    <3>1. o \in Outputs
      BY <1>0 DEF Outputs
    <3>2. out' = [out EXCEPT ![k] = o]
      BY <2>0
    <3> HIDE DEF o
    <3>3. QED
      BY <1>0, <3>1, <3>2, OutputIs
  <2>2. QED
    BY <1>1, <1>4, <2>1 DEF RiskAnalysis, Moves
<1>5. CASE Narrative(k)
  <2>0. PICK top \in Int : out' = [out EXCEPT ![k].top = top]
    BY <1>5, NarrativeIs, Zenon
  <2>1. out' \in [Runs -> Outputs]
    <3> DEFINE o == [out[k] EXCEPT !.top = top]
    <3>1. o \in Outputs
      BY <1>0 DEF Outputs
    <3>2. out' = [out EXCEPT ![k] = o]
      BY <2>0
    <3> HIDE DEF o
    <3>3. QED
      BY <1>0, <3>1, <3>2, OutputIs
  <2>2. QED
    BY <1>1, <1>5, <2>1 DEF Narrative, Moves
<1>6. CASE Recommend(k)
  <2>1. ctx[k] \in Contexts
    BY <1>6 DEF TypeInv, Types, Placed, Recommend, Node, Nodes, DrivenStates
  <2>2. PICK ref \in Citable :
            out' = [out EXCEPT ![k].cited = @ \cup {ref} \cup NetworkRefs(ctx[k])]
    BY <1>6 DEF Recommend
  <2>3. {ref} \cup NetworkRefs(ctx[k]) \in SUBSET Refs
    BY <2>1, CitableIs, NetworkIs DEF TypeInv
  <2>4. out' \in [Runs -> Outputs]
    <3> DEFINE o == [out[k] EXCEPT !.cited = @ \cup {ref} \cup NetworkRefs(ctx[k])]
    <3>1. o \in Outputs
      BY <1>0, <2>3 DEF Outputs
    <3>2. out' = [out EXCEPT ![k] = o]
      BY <2>2
    <3> HIDE DEF o
    <3>3. QED
      BY <1>0, <3>1, <3>2, OutputIs
  <2>5. QED
    BY <1>1, <1>6, <2>4 DEF Recommend, Moves
<1>7. CASE NoProvider(k) \/ ProviderFails(k) \/ PersistFails(k)
  BY <1>2, <1>7 DEF NoProvider, ProviderFails, PersistFails
<1>8. CASE Validate(k)
  <2>1. CASE Node(k, "validate", "gate") /\ UNCHANGED <<local, saved, world>>
    BY <1>1, <2>1 DEF TypeInv, Types, Moves, local
  <2>2. CASE Abort(k)
    BY <1>2, <1>8, <2>2 DEF Validate
  <2>3. QED
    BY <1>8, <2>1, <2>2 DEF Validate
<1>9. QED
  BY <1>3, <1>4, <1>5, <1>6, <1>7, <1>8

\* What the gate decides, action by action.
LEMMA GateIs ==
    ASSUME TypeInv, NEW k \in Runs, PolicyGate(k)
    PROVE  \E ds \in Seq(Decisions) :
              /\ decided' = [decided EXCEPT ![k] = ds]
              /\ \A d \in ToSet(ds) : d.verdict = Cleared =>
                    /\ d.action.name \in Entities(ctx[k]) \ Protected
                    /\ d.action.type # "disable_user"
              /\ out[k].plan = <<>> => ds = <<>>
<1> DEFINE plan == out[k].plan
           ds == [i \in DOMAIN plan |->
                     [action |-> plan[i],
                      verdict |-> Evaluate(plan[i], Entities(ctx[k]), ctx[k].refs)]]
<1>1. decided' = [decided EXCEPT ![k] = ds]
  BY DEF PolicyGate
<1>2. plan \in Seq(Actions)
  BY DEF TypeInv, Types, Outputs
<1> HIDE DEF plan
<1>3. /\ Len(plan) \in Nat /\ DOMAIN plan = 1..Len(plan)
      /\ \A i \in 1..Len(plan) : plan[i] \in Actions
  BY <1>2, LenProperties, ElementOfSeq
<1>4. \A i \in 1..Len(plan) :
          /\ ds[i] \in Decisions
          /\ ds[i].verdict = Cleared =>
                /\ ds[i].action.name \in Entities(ctx[k]) \ Protected
                /\ ds[i].action.type # "disable_user"
  BY <1>3, EvaluateIs DEF Decisions
<1>5. ds \in [1..Len(plan) -> Decisions]
  BY <1>3, <1>4
<1> HIDE DEF ds
<1>6. ds \in Seq(Decisions) /\ DOMAIN ds = 1..Len(plan) /\ Len(ds) = Len(plan)
  BY <1>3, <1>5, LenProperties
<1>7. plan = <<>> => ds = <<>>
  BY <1>2, <1>6, EntriesAre, EmptySeq
<1>8. \A d \in ToSet(ds) : d.verdict = Cleared =>
          /\ d.action.name \in Entities(ctx[k]) \ Protected
          /\ d.action.type # "disable_user"
  BY <1>4, <1>6 DEF ToSet
<1>9. QED
  BY <1>1, <1>6, <1>7, <1>8 DEF plan

\* What the executor does with the next action.
LEMMA ExecuteIs ==
    ASSUME TypeInv, NEW k \in Runs, Execute(k)
    PROVE  \E d \in ToSet(decided[k]), o \in Outcomes, p \in Pendings :
              /\ done' = [done EXCEPT ![k] = Append(@, o)]
              /\ o.action = d.action /\ (o.status = "executed" => d.verdict = Cleared)
              /\ pending' = [pending EXCEPT ![k] = p]
              /\ p.revoked \subseteq pending[k].revoked \cup {d.action.name}
              /\ p.revoked = pending[k].revoked \/ d.verdict = Cleared
              /\ p.disabled \subseteq pending[k].disabled \cup {d.action.name}
              /\ \/ p.disabled = pending[k].disabled
                 \/ d.verdict = Cleared /\ d.action.type = "disable_user"
              /\ denied' \subseteq denied \cup {Key(d.action)}
              /\ denied' = denied \/ d.verdict = Cleared
              /\ Len(done[k]) + 1 <= Len(decided[k])
              /\ o.status = "executed" /\ o.action.type # "block_ip" => o.action.name \in Users
              /\ p.revoked \cup p.disabled
                     \subseteq pending[k].revoked \cup pending[k].disabled \cup Users
<1> DEFINE i == Len(done[k]) + 1
           d == decided[k][i]
           a == d.action
           works == \/ a.type = "block_ip"
                    \/ a.type \in {"revoke_sessions", "disable_user"} /\ Found(a)
           skip(status) == Report(k, Outcome(a, status)) /\ UNCHANGED <<denied, pending>>
           fail == /\ Report(k, Outcome(a, "failed"))
                   /\ pending' = [pending EXCEPT ![k].audit = Log(k, i, "failed")]
                   /\ UNCHANGED denied
           o1 == [Outcome(a, "executed") EXCEPT !.was = Active(k, a.name)]
           p1 == [pending[k] EXCEPT
                    !.revoked = IF a.type # "block_ip" THEN @ \cup {a.name} ELSE @,
                    !.disabled = IF a.type = "disable_user" THEN @ \cup {a.name} ELSE @,
                    !.audit = Log(k, i, "succeeded")]
           succeed ==
              /\ Report(k, [Outcome(a, "executed") EXCEPT !.was = Active(k, a.name)])
              /\ denied' = IF a.type = "block_ip" THEN denied \cup {Key(a)} ELSE denied
              /\ pending' = [pending EXCEPT
                    ![k].revoked = IF a.type # "block_ip" THEN @ \cup {a.name} ELSE @,
                    ![k].disabled = IF a.type = "disable_user" THEN @ \cup {a.name} ELSE @,
                    ![k].audit = Log(k, i, "succeeded")]
<1>1. /\ i <= Len(decided[k])
      /\ \/ d.verdict = Denied /\ skip("denied")
         \/ d.verdict = ForHuman /\ skip("pending_approval")
         \/ d.verdict = Cleared /\ works /\ succeed
         \/ d.verdict = Cleared /\ (a.type = "block_ip" \/ ~works) /\ fail
  BY Zenon DEF Execute
<1>2. /\ decided[k] \in Seq(Decisions) /\ done[k] \in Seq(Outcomes) /\ pending[k] \in Pendings
      /\ k \in DOMAIN pending
  BY DEF TypeInv, Types
<1>3. i \in 1..Len(decided[k]) /\ DOMAIN decided[k] = 1..Len(decided[k])
  <2>1. i <= Len(decided[k])
    BY <1>1
  <2>2. Len(done[k]) \in Nat /\ Len(decided[k]) \in Nat /\ DOMAIN decided[k] = 1..Len(decided[k])
    BY <1>2, LenProperties
  <2>3. QED
    BY <2>1, <2>2
<1>4. d \in ToSet(decided[k]) /\ d \in Decisions
  BY <1>2, <1>3, ElementOfSeq DEF ToSet
<1> HIDE DEF i, d
<1>5. a \in Actions /\ a.name \in Names
  BY <1>4 DEF Decisions, Names
<1>6. \A r \in {"failed", "succeeded"} : Log(k, i, r) \in SUBSET Entries
  <2>1. i \in Nat
    BY <1>3
  <2>2. pending[k].audit \in SUBSET Entries
    BY <1>2 DEF Pendings
  <2>3. \A r \in {"failed", "succeeded"} : <<k, i, r>> \in Entries
    BY <2>1 DEF Entries
  <2>4. QED
    BY <2>2, <2>3 DEF Log
<1>7. Denied # Cleared /\ ForHuman # Cleared
  BY DEF Denied, ForHuman, Cleared
<1>8. \A st \in {"denied", "pending_approval", "failed", "executed"} :
          /\ Outcome(a, st) \in Outcomes
          /\ Outcome(a, st).action = a /\ Outcome(a, st).status = st
  BY <1>5 DEF Outcome, Outcomes
<1>9. CASE \/ d.verdict = Denied /\ skip("denied")
           \/ d.verdict = ForHuman /\ skip("pending_approval")
  <2>0. PICK st \in {"denied", "pending_approval"} : skip(st)
    BY <1>9
  <2> DEFINE o == Outcome(a, st)
  <2>1. o \in Outcomes /\ o.action = a /\ o.status # "executed"
    BY <1>8
  <2>2. done' = [done EXCEPT ![k] = Append(@, o)] /\ UNCHANGED <<denied, pending>>
    BY <2>0 DEF Report
  <2>3. pending = [pending EXCEPT ![k] = pending[k]]
    <3>1. pending \in [Runs -> Pendings]
      BY DEF TypeInv, Types
    <3>2. QED
      BY <3>1
  <2>4. Len(done[k]) + 1 <= Len(decided[k])
    BY <1>1 DEF i
  <2> HIDE DEF o
  <2>5. QED
    BY <1>2, <1>4, <2>1, <2>2, <2>3, <2>4
<1>11. CASE d.verdict = Cleared /\ works /\ succeed
  <2>1. o1 \in Outcomes /\ o1.action = a
    BY <1>5 DEF Outcome, Outcomes, Active
  <2>2. /\ p1 \in Pendings
        /\ p1.revoked \subseteq pending[k].revoked \cup {a.name}
        /\ p1.disabled \subseteq pending[k].disabled \cup {a.name}
        /\ p1.disabled = pending[k].disabled \/ a.type = "disable_user"
    BY <1>2, <1>5, <1>6 DEF Pendings
  <2>3. pending' = [pending EXCEPT ![k] = p1]
    BY <1>2, <1>11 DEF Pendings
  <2>4. done' = [done EXCEPT ![k] = Append(@, o1)] /\ denied' \subseteq denied \cup {Key(a)}
    BY <1>11 DEF Report
  <2>5. a.type # "block_ip" => a.name \in Users
    BY <1>11 DEF Found
  <2>6. p1.revoked \cup p1.disabled \subseteq pending[k].revoked \cup pending[k].disabled \cup Users
    BY <1>2, <2>5 DEF Pendings
  <2>7. Len(done[k]) + 1 <= Len(decided[k])
    BY <1>1 DEF i
  <2> HIDE DEF o1, p1
  <2>8. QED
    BY <1>4, <1>11, <2>1, <2>2, <2>3, <2>4, <2>5, <2>6, <2>7
<1>12. CASE d.verdict = Cleared /\ fail
  <2> DEFINE p2 == [pending[k] EXCEPT !.audit = Log(k, i, "failed")]
  <2>1. /\ p2 \in Pendings /\ p2.revoked = pending[k].revoked
        /\ p2.disabled = pending[k].disabled
    BY <1>2, <1>6 DEF Pendings
  <2>2. pending' = [pending EXCEPT ![k] = p2]
    BY <1>2, <1>12
  <2> HIDE DEF p2
  <2>3. Len(done[k]) + 1 <= Len(decided[k])
    BY <1>1 DEF i
  <2>4. QED
    BY <1>4, <1>8, <1>12, <2>1, <2>2, <2>3 DEF Report
<1>13. QED
  BY <1>1, <1>9, <1>11, <1>12

\* What is said to be executed was said so before.
Retells(os, k) ==
    /\ \A o \in ToSet(os) : o.status = "executed" =>
          \E b \in ToSet(done[k]) : b.action = o.action /\ b.status = "executed"
    /\ done[k] = <<>> => os = <<>>
    /\ Len(os) = Len(done[k])

\* Verification retells what was done, with other outcomes.
LEMMA VerifyIs ==
    ASSUME TypeInv, NEW k \in Runs, VerifyActions(k)
    PROVE  \E os \in Seq(Outcomes) : done' = [done EXCEPT ![k] = os] /\ Retells(os, k)
<1> DEFINE os == [i \in DOMAIN done[k] |->
                     [done[k][i] EXCEPT !.verified =
                         done[k][i].status = "executed" /\ Verified(k, done[k][i])]]
<1>1. done' = [done EXCEPT ![k] = os]
  BY Zenon DEF VerifyActions
<1>2. done[k] \in Seq(Outcomes)
  BY DEF TypeInv, Types
<1>3. /\ Len(done[k]) \in Nat /\ DOMAIN done[k] = 1..Len(done[k])
      /\ \A i \in 1..Len(done[k]) : done[k][i] \in Outcomes
  BY <1>2, LenProperties, ElementOfSeq
<1>4. \A i \in 1..Len(done[k]) :
          /\ os[i] \in Outcomes
          /\ os[i].action = done[k][i].action /\ os[i].status = done[k][i].status
  BY <1>3 DEF Outcomes
<1>5. os \in [1..Len(done[k]) -> Outcomes]
  BY <1>3, <1>4
<1> HIDE DEF os
<1>6. os \in Seq(Outcomes) /\ DOMAIN os = 1..Len(done[k]) /\ Len(os) = Len(done[k])
  BY <1>3, <1>5, LenProperties
<1>7. done[k] = <<>> => os = <<>>
  BY <1>2, <1>6, EntriesAre, EmptySeq
<1>8. Retells(os, k)
  BY <1>3, <1>4, <1>6, <1>7 DEF Retells, ToSet
<1>9. QED
  BY <1>1, <1>6, <1>8

\* Undoing an executed action retells what was done, at most blocks fewer, and has
\* pending nobody disabled but its own target.
LEMMA UndoIs ==
    ASSUME TypeInv, NEW k \in Runs, NEW i \in DOMAIN done[k], Undo(k, i)
    PROVE  /\ done[k][i] \in ToSet(done[k]) /\ done[k][i].status = "executed"
           /\ \E os \in Seq(Outcomes) : done' = [done EXCEPT ![k] = os] /\ Retells(os, k)
           /\ \E p \in Pendings :
                 /\ pending' = [pending EXCEPT ![k] = p]
                 /\ p.revoked = pending[k].revoked
                 /\ \/ p.disabled = {}
                    \/ /\ p.disabled = {done[k][i].action.name}
                       /\ done[k][i].action.type = "disable_user"
           /\ denied' \subseteq denied
<1> DEFINE a == done[k][i].action
           o == [done[k][i] EXCEPT !.status = "reverted"]
           os == [done[k] EXCEPT ![i] = o]
           p == [pending[k] EXCEPT
                   !.disabled = IF a.type = "disable_user" /\ ~done[k][i].was THEN {a.name} ELSE {},
                   !.restored = IF a.type = "disable_user" /\ done[k][i].was THEN {a.name} ELSE {},
                   !.audit = Log(k, i, "reverted")]
<1>1. done[k] \in Seq(Outcomes) /\ pending[k] \in Pendings
  BY DEF TypeInv, Types
<1>2. /\ Len(done[k]) \in Nat /\ DOMAIN done[k] = 1..Len(done[k]) /\ i \in Nat
      /\ \A j \in 1..Len(done[k]) : done[k][j] \in Outcomes
  BY <1>1, LenProperties, ElementOfSeq
<1>3. /\ done' = [done EXCEPT ![k] = os]
      /\ done[k][i].status = "executed"
      /\ denied' \subseteq denied
  <2>1. done' = [done EXCEPT ![k][i].status = "reverted"]
    BY Zenon DEF Undo
  <2>2. done' = [done EXCEPT ![k] = os]
    BY <2>1 DEF TypeInv, Types
  <2>3. QED
    BY <2>2 DEF Undo
<1>4. o \in Outcomes /\ o.status # "executed"
  BY <1>2 DEF Outcomes
<1> HIDE DEF o
<1>5. /\ os \in Seq(Outcomes) /\ Retells(os, k)
  <2>1. /\ os \in [1..Len(done[k]) -> Outcomes] /\ os[i] = o
        /\ \A j \in 1..Len(done[k]) : j # i => os[j] = done[k][j]
    BY <1>2, <1>4
  <2> HIDE DEF os
  <2>2. os \in Seq(Outcomes) /\ DOMAIN os = 1..Len(done[k]) /\ Len(os) = Len(done[k])
    BY <1>2, <2>1, LenProperties
  <2>3. done[k] # <<>>
    BY <1>1, <1>2, EntriesAre
  <2>4. QED
    BY <1>2, <1>4, <2>1, <2>2, <2>3 DEF Retells, ToSet
<1>6. done[k][i] \in ToSet(done[k])
  BY DEF ToSet
<1>7. pending' = [pending EXCEPT ![k] = p]
  BY DEF Undo, TypeInv, Types, Pendings
<1>8. p \in Pendings /\ p.revoked = pending[k].revoked
      /\ (p.disabled = {} \/ (p.disabled = {a.name} /\ a.type = "disable_user"))
  <2>1. a.name \in Names
    BY <1>2 DEF Outcomes, Names
  <2>2. Log(k, i, "reverted") \in SUBSET Entries
    BY <1>1, <1>2 DEF Log, Entries, Pendings
  <2> HIDE DEF a
  <2>3. QED
    BY <1>1, <2>1, <2>2 DEF Pendings
<1> HIDE DEF os, p
<1>9. QED
  BY <1>3, <1>5, <1>6, <1>7, <1>8

\* The nodes that act keep the types.
LEMMA ActionTypes ==
    ASSUME TypeInv, NEW k \in Runs,
           \/ PolicyGate(k) \/ Execute(k) \/ AllExecuted(k) \/ VerifyActions(k) \/ Persist(k)
    PROVE  TypeInv'
<1>1. CASE PolicyGate(k)
  <2>1. decided' \in [Runs -> Seq(Decisions)]
    <3>1. PICK ds \in Seq(Decisions) : decided' = [decided EXCEPT ![k] = ds]
      BY <1>1, GateIs
    <3>2. decided \in [Runs -> Seq(Decisions)]
      BY DEF TypeInv, Types
    <3>3. QED
      BY <3>1, <3>2, Put
  <2>2. Node(k, "gate", "execute") /\ UNCHANGED <<ctx, out, done, saved, world>>
    BY <1>1 DEF PolicyGate
  <2>3. "execute" \in States
    BY DEF States, Nodes
  <2>4. Types'
    BY <2>1, <2>2, <2>3, NodeTypes DEF TypeInv, Types, world
  <2>5. QED
    BY <2>2, <2>4, MoveTypes DEF Moves
<1>2. CASE Execute(k)
  <2>1. UNCHANGED <<incident, requests, pc, hash, entry, ctx, out, decided, saved, disabled,
                    revoked, audit>>
    BY <1>2, Zenon DEF Execute
  <2>2. done' \in [Runs -> Seq(Outcomes)] /\ pending' \in [Runs -> Pendings]
    <3>1. PICK o \in Outcomes, p \in Pendings :
              done' = [done EXCEPT ![k] = Append(@, o)] /\ pending' = [pending EXCEPT ![k] = p]
      BY <1>2, ExecuteIs, Zenon
    <3>2. Append(done[k], o) \in Seq(Outcomes)
      BY AppendIs DEF TypeInv, Types
    <3>3. QED
      BY <3>1, <3>2 DEF TypeInv, Types
  <2>3. Types'
    BY <2>1, <2>2 DEF TypeInv, Types, incident, requests
  <2>4. \A j \in Runs : Placed(j)'
    BY <2>1, StaysPlaced DEF TypeInv, incident
  <2>5. QED
    BY <2>3, <2>4 DEF TypeInv
<1>3. CASE AllExecuted(k)
  <2> DEFINE to == IF entry[k] = "executor" THEN "commit" ELSE "verify"
  <2>1. to \in States /\ Node(k, "execute", to) /\ UNCHANGED <<local, saved, world>>
    BY <1>3 DEF AllExecuted, States, Nodes
  <2> HIDE DEF to
  <2>2. /\ pc[k] = "execute" /\ pc'[k] = to /\ UNCHANGED <<linked, entry>>
        /\ \A j \in Runs : j # k => pc'[j] = pc[j]
    BY <2>1, NodeTypes DEF TypeInv
  <2>3. Types'
    BY <2>1, NodeTypes DEF TypeInv, Types, world, local
  <2>4. Placed(k)'
    BY <2>1, <2>2 DEF TypeInv, Types, Placed, DrivenStates, Nodes, local, to
  <2>5. QED
    BY <2>1, <2>2, <2>3, <2>4, OthersStay DEF local
<1>4. CASE VerifyActions(k)
  <2> DEFINE to == IF entry[k] = "graph" THEN "persist" ELSE "commit"
  <2>1. to \in States /\ Node(k, "verify", to) /\ UNCHANGED <<ctx, out, decided, saved, world>>
    BY <1>4, Zenon DEF VerifyActions, States, Nodes
  <2>2. done' \in [Runs -> Seq(Outcomes)]
    BY <1>4, VerifyIs DEF TypeInv, Types
  <2> HIDE DEF to
  <2>3. /\ pc[k] = "verify" /\ pc'[k] = to /\ UNCHANGED <<linked, entry>>
        /\ \A j \in Runs : j # k => pc'[j] = pc[j]
    BY <2>1, NodeTypes DEF TypeInv
  <2>4. Types'
    BY <2>1, <2>2, NodeTypes DEF TypeInv, Types, world
  <2>5. Placed(k)'
    BY <2>1, <2>3 DEF TypeInv, Types, Placed, DrivenStates, Nodes, to
  <2>6. QED
    BY <2>1, <2>3, <2>4, <2>5, OthersStay
<1>5. CASE Persist(k)
  <2>1. /\ Node(k, "persist", "completed") /\ UNCHANGED <<ctx, decided, done>>
        /\ out' = [out EXCEPT ![k] = NoOutput]
        /\ pending' = [pending EXCEPT ![k] = NothingPending]
    BY <1>5, Zenon DEF Persist, CommitPending
  <2>2. NoOutput \in Outputs /\ NothingPending \in Pendings /\ "completed" \in States
    BY DEF NoOutput, Outputs, NothingPending, Pendings, States
  <2>3. DOMAIN saved' = Runs
    BY <1>5 DEF Persist, TypeInv, Types
  <2>4. Types'
    BY <2>1, <2>2, <2>3, NodeTypes DEF TypeInv, Types
  <2>5. QED
    BY <2>1, <2>4, MoveTypes DEF Moves
<1>6. QED
  BY <1>1, <1>2, <1>3, <1>4, <1>5

\* Callers of their own keep the types.
LEMMA CallerTypes == ASSUME TypeInv, NEW k \in Runs, CallerStep(k) PROVE TypeInv'
<1>1. ASSUME NEW from, NEW to \in {"gate", "execute", "commit", "ended"}, Node(k, from, to),
             Types', Placed(k)', \A j \in Runs : j # k => ctx'[j] = ctx[j]
      PROVE  TypeInv'
  <2>1. to \in States
    BY DEF States, Nodes
  <2>2. QED
    BY <1>1, <2>1, NodeTypes, OthersStay DEF TypeInv
<1>2. "gate" \in States /\ "execute" \in States /\ "commit" \in States /\ "ended" \in States
  BY DEF States, Nodes
<1>3. CASE DriveNodes(k)
  <2> DEFINE b == Read(linked, attached)
             c == EnforceSize(b)
  <2>1. /\ b \in Contexts /\ Sound(b) /\ b.events = linked /\ IsFiniteSet(b.techniques)
    BY ReadIs DEF TypeInv, Types
  <2>2. /\ entry[k] = "nodes" /\ c # NoContext /\ Node(k, "absent", "gate")
        /\ ctx' = [ctx EXCEPT ![k] = c]
        /\ UNCHANGED <<decided, done, saved, world>>
    BY <1>3 DEF DriveNodes
  <2>3. c \in Contexts /\ Sound(c) /\ ToSet(c.events) \subseteq ToSet(linked)
    <3> HIDE DEF b
    <3>1. QED
      BY <2>1, <2>2, EnforceIs
  <2> HIDE DEF c
  <2>4. PICK plan \in Plans : out' = [out EXCEPT ![k].plan = plan]
    BY <1>3 DEF DriveNodes
  <2>5. out' \in [Runs -> Outputs]
    <3> DEFINE o == [out[k] EXCEPT !.plan = plan]
    <3>0. Types /\ out[k] \in Outputs /\ plan \in Seq(Actions)
      BY OutputIs, PlansAssumption DEF TypeInv
    <3>1. o \in Outputs
      BY <3>0 DEF Outputs
    <3>2. out' = [out EXCEPT ![k] = o]
      BY <2>4
    <3> HIDE DEF o
    <3>3. QED
      BY <3>0, <3>1, <3>2, OutputIs
  <2>6. Types'
    <3>1. Types /\ ctx \in [Runs -> Contexts \cup {NoContext}]
      BY DEF TypeInv, Types
    <3>2. ctx' \in [Runs -> Contexts \cup {NoContext}]
      BY <2>2, <2>3, <3>1, Put
    <3>3. /\ pc' \in [Runs -> States]
          /\ UNCHANGED <<linked, attached, counted, rpc, asked, seen, answer, hash, entry>>
      BY <1>2, <2>2, <3>1, NodeTypes
    <3>4. QED
      BY <2>2, <2>5, <3>1, <3>2, <3>3 DEF Types, world
  <2>7. pc'[k] = "gate" /\ UNCHANGED <<linked, entry>> /\ ctx'[k] = c
    BY <1>2, <2>2, NodeTypes DEF TypeInv, Types
  <2>8. Placed(k)'
    BY <2>2, <2>3, <2>7 DEF Placed, DrivenStates
  <2>9. QED
    BY <1>1, <2>2, <2>6, <2>8 DEF TypeInv, Types
<1>4. CASE DriveExecutor(k)
  <2>1. /\ entry[k] = "executor" /\ Node(k, "absent", "execute")
        /\ UNCHANGED <<ctx, out, done, saved, world>>
    BY <1>4, Zenon DEF DriveExecutor
  <2>2. decided' \in [Runs -> Seq(Decisions)]
    <3>1. PICK plan \in Plans : decided' = [decided EXCEPT ![k] =
              [i \in DOMAIN plan |-> [action |-> plan[i], verdict |-> Cleared]]]
      BY <1>4, Zenon DEF DriveExecutor
    <3> DEFINE ds == [i \in DOMAIN plan |-> [action |-> plan[i], verdict |-> Cleared]]
    <3>2. /\ Len(plan) \in Nat /\ DOMAIN plan = 1..Len(plan)
          /\ \A i \in 1..Len(plan) : plan[i] \in Actions
      BY PlansAssumption, LenProperties, ElementOfSeq
    <3>3. ds \in [1..Len(plan) -> Decisions]
      BY <3>2 DEF Decisions
    <3> HIDE DEF ds
    <3>4. ds \in Seq(Decisions)
      BY <3>2, <3>3
    <3>5. decided' = [decided EXCEPT ![k] = ds]
      BY <3>1 DEF ds
    <3>6. QED
      BY <3>4, <3>5 DEF TypeInv, Types
  <2>3. Types'
    BY <1>2, <2>1, <2>2, NodeTypes DEF TypeInv, Types, world
  <2>4. pc[k] = "absent" /\ pc'[k] = "execute" /\ UNCHANGED <<linked, entry>>
    BY <1>2, <2>1, NodeTypes DEF TypeInv
  <2>5. Placed(k)'
    BY <2>1, <2>4 DEF TypeInv, Placed, DrivenStates, Nodes
  <2>6. QED
    BY <1>1, <2>1, <2>3, <2>5
<1>5. CASE Commit(k) \/ RollBack(k)
  <2>1. /\ Node(k, "commit", "ended") /\ UNCHANGED <<local, saved>>
        /\ pending' = [pending EXCEPT ![k] = NothingPending]
    BY <1>5, Zenon DEF Commit, RollBack, CommitPending
  <2>2. NothingPending \in Pendings
    BY DEF NothingPending, Pendings
  <2>3. Types'
    BY <1>2, <2>1, <2>2, NodeTypes DEF TypeInv, Types, local
  <2>4. pc[k] = "commit" /\ pc'[k] = "ended" /\ UNCHANGED <<linked, entry>>
    BY <1>2, <2>1, NodeTypes DEF TypeInv
  <2>5. Placed(k)'
    BY <2>1, <2>4 DEF TypeInv, Placed, DrivenStates, Nodes, local
  <2>6. QED
    BY <1>1, <2>1, <2>3, <2>5 DEF local
<1>6. ASSUME NEW i \in DOMAIN done[k], Undo(k, i) PROVE TypeInv'
  <2>1. /\ Node(k, "ended", "commit")
        /\ UNCHANGED <<ctx, out, decided, saved, disabled, revoked, audit>>
    BY <1>6, Zenon DEF Undo
  <2>2. done' \in [Runs -> Seq(Outcomes)] /\ pending' \in [Runs -> Pendings]
    <3>1. PICK os \in Seq(Outcomes) : done' = [done EXCEPT ![k] = os]
      BY <1>6, UndoIs, Zenon
    <3>2. PICK p \in Pendings : pending' = [pending EXCEPT ![k] = p]
      BY <1>6, UndoIs, Zenon
    <3>3. QED
      BY <3>1, <3>2 DEF TypeInv, Types
  <2>3. Types'
    BY <1>2, <2>1, <2>2, NodeTypes DEF TypeInv, Types
  <2>4. pc[k] = "ended" /\ pc'[k] = "commit" /\ UNCHANGED <<linked, entry>>
    BY <1>2, <2>1, NodeTypes DEF TypeInv
  <2>5. Placed(k)'
    BY <2>1, <2>4 DEF TypeInv, Placed, DrivenStates, Nodes
  <2>6. QED
    BY <1>1, <2>1, <2>3, <2>5
<1>7. QED
  BY <1>3, <1>4, <1>5, <1>6 DEF CallerStep

\* Every step keeps the types.
LEMMA TypesKept == TypeInv /\ [Next]_vars => TypeInv'
<1> SUFFICES ASSUME TypeInv, [Next]_vars PROVE TypeInv'
  OBVIOUS
<1>1. ASSUME NEW k \in Runs, RunStep(k) PROVE TypeInv'
  BY <1>1, LoadTypes, AnswerTypes, ActionTypes DEF RunStep
<1>2. ASSUME NEW key \in denied, Expire(key) PROVE TypeInv'
  <2>1. UNCHANGED <<incident, requests, pc, hash, entry, local, saved, pending>>
    BY <1>2 DEF Expire
  <2>2. Types'
    BY <2>1 DEF TypeInv, Types, incident, requests, local
  <2>3. \A k \in Runs : Placed(k)'
    BY <2>1, StaysPlaced DEF TypeInv, incident, local
  <2>4. QED
    BY <2>2, <2>3 DEF TypeInv
<1>3. CASE UNCHANGED vars
  <2>1. Types'
    BY <1>3 DEF vars, TypeInv, Types, incident, requests, local, world
  <2>2. \A k \in Runs : Placed(k)'
    BY <1>3, StaysPlaced DEF vars, TypeInv, incident, local
  <2>3. QED
    BY <2>1, <2>2 DEF TypeInv
<1>4. QED
  BY <1>1, <1>2, <1>3, IncidentTypes, RequestTypes, CallerTypes DEF Next

-----------------------------------------------------------------------------
(* Results are warranted.                                                   *)

\* A run starts without output; what it has of confidence is capped; what it
\* cites has been checked once it is past validation; a result is of a
\* completed run, cites what its context shows and is capped as well.
Warranted(k) ==
    /\ pc[k] \in {"absent", "queued", "load"} => out[k].top = 0
    /\ entry[k] = "graph" /\ ctx[k] # NoContext /\ ctx[k].alerts = <<>>
           => out[k].top <= Limit(ctx[k])
    /\ entry[k] = "graph" /\ pc[k] \in {"gate", "execute", "verify", "persist"}
           => out[k].cited \subseteq ctx[k].refs
    /\ saved[k] # NoResult =>
           /\ pc[k] = "completed"
           /\ saved[k].cited \subseteq Items(ctx[k])
           /\ ctx[k].alerts = <<>> => saved[k].top <= Limit(ctx[k])

WarrantInv == \A k \in Runs : Warranted(k)

\* A run that a step leaves alone stays warranted.
LEMMA StaysWarranted ==
    ASSUME NEW k \in Runs, Warranted(k), pc'[k] = pc[k], entry'[k] = entry[k],
           ctx'[k] = ctx[k], out'[k] = out[k], saved'[k] = saved[k]
    PROVE  Warranted(k)'
  BY DEF Warranted

\* The runs a step says nothing of.
LEMMA OthersWarranted ==
    ASSUME WarrantInv, NEW k \in Runs, Warranted(k)', UNCHANGED entry,
           \A j \in Runs : j # k => /\ pc'[j] = pc[j] /\ ctx'[j] = ctx[j]
                                    /\ out'[j] = out[j] /\ saved'[j] = saved[j]
    PROVE  WarrantInv'
<1>1. \A j \in Runs : j # k => Warranted(j)'
  BY StaysWarranted DEF WarrantInv
<1>2. QED
  BY <1>1 DEF WarrantInv

\* The ceiling of the confidence is a number.
LEMMA LimitIs == \A c : Limit(c) \in Int /\ 0 <= Limit(c)
  BY DEF Limit

\* A run that fails keeps what it has, and has no result.
LEMMA AbortWarranted ==
    ASSUME TypeInv, WarrantInv, NEW k \in Runs, Abort(k), pc[k] # "completed"
    PROVE  WarrantInv'
<1>1. /\ pc'[k] = "failed" /\ out'[k] = NoOutput /\ NoOutput.top = 0
      /\ UNCHANGED <<ctx, saved, entry>>
      /\ \A j \in Runs : j # k => pc'[j] = pc[j] /\ out'[j] = out[j]
  BY DEF Abort, TypeInv, Types, NoOutput
<1>2. Warranted(k)'
  BY <1>1, LimitIs DEF WarrantInv, Warranted
<1>3. QED
  BY <1>1, <1>2, OthersWarranted

\* A request starts a run without output.
LEMMA RequestWarranted ==
    ASSUME TypeInv, WarrantInv, NEW q \in Requests, Join(q)
    PROVE  WarrantInv'
<1>1. UNCHANGED <<entry, saved>>
  BY DEF Join
<1>2. CASE UNCHANGED <<pc, ctx, out>>
  BY <1>1, <1>2, StaysWarranted DEF WarrantInv
<1>3. ASSUME NEW k \in Runs, pc[k] \in {"failed", "absent"},
             /\ pc' = [pc EXCEPT ![k] = "queued"]
             /\ ctx' = [ctx EXCEPT ![k] = NoContext]
             /\ out' = [out EXCEPT ![k] = NoOutput]
      PROVE  WarrantInv'
  <2>1. /\ pc'[k] = "queued" /\ out'[k] = NoOutput /\ NoOutput.top = 0 /\ ctx'[k] = NoContext
        /\ \A j \in Runs : j # k => pc'[j] = pc[j] /\ out'[j] = out[j] /\ ctx'[j] = ctx[j]
    BY <1>3 DEF TypeInv, Types, NoOutput
  <2>2. Warranted(k)'
    BY <1>1, <1>3, <2>1 DEF WarrantInv, Warranted
  <2>3. QED
    BY <1>1, <2>1, <2>2, OthersWarranted
<1>4. \/ UNCHANGED <<pc, ctx, out>>
      \/ \E k \in Runs : /\ pc[k] \in {"failed", "absent"}
                         /\ pc' = [pc EXCEPT ![k] = "queued"]
                         /\ ctx' = [ctx EXCEPT ![k] = NoContext]
                         /\ out' = [out EXCEPT ![k] = NoOutput]
  BY DEF Join
<1>5. QED
  BY <1>2, <1>3, <1>4

\* The nodes of the graph cap what they add, and validation checks it.
LEMMA RunWarranted ==
    ASSUME TypeInv, WarrantInv, NEW k \in Runs, RunStep(k)
    PROVE  WarrantInv'
<1> USE DEF TypeInv, WarrantInv
<1>1. ASSUME NEW from, NEW to \in States, Node(k, from, to)
      PROVE  /\ pc[k] = from /\ pc'[k] = to /\ UNCHANGED entry
             /\ \A j \in Runs : j # k => pc'[j] = pc[j]
  BY <1>1, NodeTypes
<1>2. {"load", "evidence", "risk", "narrative", "recommend", "validate", "gate", "execute",
       "verify", "persist", "commit", "completed"} \subseteq States
  BY DEF States, Nodes
<1>3. CASE Claim(k)
  <2>1. pc[k] = "queued" /\ pc'[k] = "load" /\ UNCHANGED <<ctx, out, saved>>
    BY <1>1, <1>2, <1>3 DEF Claim, local
  <2>2. Warranted(k)'
    BY <1>1, <1>2, <1>3, <2>1 DEF Claim, Warranted
  <2>3. QED
    BY <1>1, <1>2, <1>3, <2>1, <2>2, OthersWarranted DEF Claim
<1>4. CASE LoadAlerts(k)
  <2>1. /\ pc[k] = "load" /\ UNCHANGED <<pc, entry, out, saved>>
        /\ \A j \in Runs : j # k => ctx'[j] = ctx[j]
    BY <1>4 DEF LoadAlerts, Types
  <2>2. Warranted(k)'
    BY <2>1, LimitIs DEF Warranted
  <2>3. QED
    BY <2>1, <2>2, OthersWarranted
<1>5. CASE LoadEvidence(k)
  <2> DEFINE c == EnforceSize(Read(ctx[k].alerts, attached))
  <2>1. CASE Abort(k)
    BY <1>5, <2>1, AbortWarranted DEF LoadEvidence
  <2>2. CASE /\ Node(k, "load", "evidence") /\ ctx' = [ctx EXCEPT ![k] = c]
             /\ UNCHANGED <<out, decided, done, saved, world>>
    <3> HIDE DEF c
    <3>1. /\ pc[k] = "load" /\ pc'[k] = "evidence" /\ UNCHANGED <<entry, out, saved>>
          /\ \A j \in Runs : j # k => ctx'[j] = ctx[j] /\ pc'[j] = pc[j]
      BY <1>1, <1>2, <2>2 DEF Types
    <3>2. Warranted(k)'
      BY <3>1, LimitIs DEF Warranted
    <3>3. QED
      BY <3>1, <3>2, OthersWarranted
  <2>3. QED
    BY <1>5, <2>1, <2>2 DEF LoadEvidence
<1>6. CASE EvidenceAnalysis(k)
  <2>1. Node(k, "evidence", "risk") /\ UNCHANGED <<ctx, saved>>
    BY <1>6, Zenon DEF EvidenceAnalysis
  <2>2. pc[k] = "evidence" /\ pc'[k] = "risk"
    BY <1>1, <1>2, <2>1
  <2>3. PICK cited \in SUBSET Refs, top \in Int :
            /\ ctx[k].alerts = <<>> => top <= Limit(ctx[k])
            /\ out' = [out EXCEPT ![k].cited = cited, ![k].top = top]
    BY <1>6, AnalysisIs, Zenon
  <2>4. /\ \A j \in Runs : j # k => out'[j] = out[j]
        /\ out'[k].top = top
    BY <2>3 DEF Types, Outputs
  <2>5. Warranted(k)'
    BY <1>1, <1>2, <2>1, <2>2, <2>3, <2>4 DEF Warranted
  <2>6. QED
    BY <1>1, <1>2, <2>1, <2>4, <2>5, OthersWarranted
<1>7. CASE Narrative(k)
  <2>1. Node(k, "narrative", "recommend") /\ UNCHANGED <<ctx, saved>>
    BY <1>7, Zenon DEF Narrative
  <2>2. pc[k] = "narrative" /\ pc'[k] = "recommend"
    BY <1>1, <1>2, <2>1
  <2>3. PICK top \in Int :
            /\ ctx[k].alerts = <<>> /\ out[k].top <= Limit(ctx[k]) => top <= Limit(ctx[k])
            /\ out' = [out EXCEPT ![k].top = top]
    BY <1>7, NarrativeIs, Zenon
  <2>4. /\ \A j \in Runs : j # k => out'[j] = out[j]
        /\ out'[k].top = top
    BY <2>3 DEF Types, Outputs
  <2>5. Warranted(k)'
    BY <1>1, <1>2, <2>1, <2>2, <2>3, <2>4 DEF Warranted
  <2>6. QED
    BY <1>1, <1>2, <2>1, <2>4, <2>5, OthersWarranted
<1>8. ASSUME NEW from \in {"risk", "recommend", "gate", "execute", "verify"},
             NEW to \in {"narrative", "validate", "execute", "verify", "persist", "commit"},
             from \in {"gate", "execute", "verify"} \/ to \in {"narrative", "validate"},
             to = "commit" => entry[k] # "graph",
             Node(k, from, to), UNCHANGED <<ctx, saved>>,
             \A j \in Runs : j # k => out'[j] = out[j],
             out'[k].top = out[k].top,
             from \in {"gate", "execute", "verify"} => out'[k].cited = out[k].cited
      PROVE  WarrantInv'
  <2>1. /\ pc[k] = from /\ pc'[k] = to /\ UNCHANGED entry
        /\ \A j \in Runs : j # k => pc'[j] = pc[j]
    BY <1>1, <1>2, <1>8
  <2>2. Warranted(k)'
    BY <1>8, <2>1 DEF Warranted
  <2>3. QED
    BY <1>8, <2>1, <2>2, OthersWarranted
<1>9. CASE RiskAnalysis(k)
  <2>1. Node(k, "risk", "narrative") /\ UNCHANGED <<ctx, saved>>
    BY <1>9, Zenon DEF RiskAnalysis
  <2>2. PICK agrees \in BOOLEAN : out' = [out EXCEPT ![k].sound = agrees]
    BY <1>9, Zenon DEF RiskAnalysis
  <2>3. out'[k].top = out[k].top /\ \A j \in Runs : j # k => out'[j] = out[j]
    BY <2>2 DEF Types, Outputs
  <2>4. QED
    BY <1>8, <2>1, <2>3
<1>10. CASE Recommend(k)
  <2>1. Node(k, "recommend", "validate") /\ UNCHANGED <<ctx, saved>>
    BY <1>10, Zenon DEF Recommend
  <2>2. PICK ref \in Citable :
            out' = [out EXCEPT ![k].cited = @ \cup {ref} \cup NetworkRefs(ctx[k])]
    BY <1>10 DEF Recommend
  <2>3. out'[k].top = out[k].top /\ \A j \in Runs : j # k => out'[j] = out[j]
    BY <2>2 DEF Types, Outputs
  <2>4. QED
    BY <1>8, <2>1, <2>3
<1>11. CASE NoProvider(k) \/ ProviderFails(k) \/ PersistFails(k)
  BY <1>11, AbortWarranted DEF NoProvider, ProviderFails, PersistFails
<1>12. CASE Validate(k)
  <2>1. CASE Abort(k)
    BY <1>12, <2>1, AbortWarranted DEF Validate
  <2>2. CASE /\ out[k].cited \subseteq ctx[k].refs
             /\ Node(k, "validate", "gate") /\ UNCHANGED <<local, saved, world>>
    <3>1. /\ pc[k] = "validate" /\ pc'[k] = "gate" /\ UNCHANGED <<entry, ctx, out, saved>>
          /\ \A j \in Runs : j # k => pc'[j] = pc[j]
      BY <1>1, <1>2, <2>2 DEF local
    <3>2. Warranted(k)'
      BY <2>2, <3>1 DEF Warranted
    <3>3. QED
      BY <3>1, <3>2, OthersWarranted
  <2>3. QED
    BY <1>12, <2>1, <2>2 DEF Validate
<1>13. CASE PolicyGate(k)
  BY <1>8, <1>13 DEF PolicyGate
<1>14. CASE Execute(k)
  <2>1. UNCHANGED <<pc, entry, ctx, out, saved>>
    BY <1>14, Zenon DEF Execute
  <2>2. QED
    BY <2>1, StaysWarranted
<1>15. CASE AllExecuted(k)
  BY <1>8, <1>15 DEF AllExecuted, local
<1>16. CASE VerifyActions(k)
  <2>1. /\ Node(k, "verify", IF entry[k] = "graph" THEN "persist" ELSE "commit")
        /\ UNCHANGED <<ctx, out, saved>>
    BY <1>16, Zenon DEF VerifyActions
  <2>2. QED
    BY <1>8, <2>1
<1>17. CASE Persist(k)
  <2>1. /\ Node(k, "persist", "completed") /\ UNCHANGED ctx
        /\ saved' = [saved EXCEPT ![k] = [cited |-> out[k].cited, top |-> out[k].top]]
        /\ out' = [out EXCEPT ![k] = NoOutput]
    BY <1>17, Zenon DEF Persist
  <2>2. /\ pc[k] = "persist" /\ pc'[k] = "completed" /\ UNCHANGED <<entry, ctx>>
        /\ \A j \in Runs : j # k => pc'[j] = pc[j] /\ out'[j] = out[j] /\ saved'[j] = saved[j]
        /\ saved'[k].cited = out[k].cited /\ saved'[k].top = out[k].top
        /\ out'[k].top = 0
    BY <1>1, <1>2, <2>1 DEF Types, NoOutput
  <2>3. entry[k] = "graph" /\ ctx[k] # NoContext /\ ctx[k].refs = Items(ctx[k])
    BY <2>2 DEF Types, Placed, Sound, DrivenStates, Nodes
  <2>4. Warranted(k)'
    BY <2>2, <2>3, LimitIs DEF Warranted
  <2>5. QED
    BY <2>2, <2>4, OthersWarranted
<1>18. QED
  BY <1>3, <1>4, <1>5, <1>6, <1>7, <1>9, <1>10, <1>11, <1>12, <1>13, <1>14, <1>15, <1>16,
     <1>17 DEF RunStep

\* Callers of their own store no result.
LEMMA CallerWarranted ==
    ASSUME TypeInv, WarrantInv, NEW k \in Runs, CallerStep(k)
    PROVE  WarrantInv'
<1> USE DEF TypeInv, WarrantInv
<1>1. ASSUME NEW from \in {"absent", "commit", "ended"},
             NEW to \in {"gate", "execute", "commit", "ended"},
             Node(k, from, to), entry[k] # "graph", UNCHANGED saved,
             \A j \in Runs : j # k => out'[j] = out[j] /\ ctx'[j] = ctx[j]
      PROVE  WarrantInv'
  <2>1. to \in States
    BY DEF States, Nodes
  <2>2. /\ pc[k] = from /\ pc'[k] = to /\ UNCHANGED entry
        /\ \A j \in Runs : j # k => pc'[j] = pc[j]
    BY <1>1, <2>1, NodeTypes
  <2>3. Warranted(k)'
    BY <1>1, <2>2 DEF Warranted
  <2>4. QED
    BY <1>1, <2>2, <2>3, OthersWarranted
<1>2. pc[k] \in {"commit", "ended"} => entry[k] # "graph"
  BY DEF Placed
<1>3. CASE DriveNodes(k)
  <2>1. /\ Node(k, "absent", "gate") /\ entry[k] = "nodes" /\ UNCHANGED saved
        /\ \A j \in Runs : j # k => out'[j] = out[j] /\ ctx'[j] = ctx[j]
    BY <1>3 DEF DriveNodes, Types
  <2>2. QED
    BY <1>1, <2>1
<1>4. CASE DriveExecutor(k)
  <2>1. /\ Node(k, "absent", "execute") /\ entry[k] = "executor"
        /\ UNCHANGED <<saved, out, ctx>>
    BY <1>4, Zenon DEF DriveExecutor
  <2>2. QED
    BY <1>1, <2>1
<1>5. CASE Commit(k) \/ RollBack(k)
  <2>1. Node(k, "commit", "ended") /\ UNCHANGED <<saved, out, ctx>>
    BY <1>5 DEF Commit, RollBack, local
  <2>2. entry[k] # "graph"
    BY <1>2, <2>1 DEF Node
  <2>3. QED
    BY <1>1, <2>1, <2>2
<1>6. ASSUME NEW i \in DOMAIN done[k], Undo(k, i) PROVE WarrantInv'
  <2>1. Node(k, "ended", "commit") /\ UNCHANGED <<saved, out, ctx>>
    BY <1>6, Zenon DEF Undo
  <2>2. entry[k] # "graph"
    BY <1>2, <2>1 DEF Node
  <2>3. QED
    BY <1>1, <2>1, <2>2
<1>7. QED
  BY <1>3, <1>4, <1>5, <1>6 DEF CallerStep

\* Every step keeps what is stored warranted.
LEMMA WarrantKept == TypeInv /\ WarrantInv /\ [Next]_vars => WarrantInv'
<1> SUFFICES ASSUME TypeInv, WarrantInv, [Next]_vars PROVE WarrantInv'
  OBVIOUS
<1>1. ASSUME UNCHANGED <<pc, entry, ctx, out, saved>> PROVE WarrantInv'
  BY <1>1, StaysWarranted DEF WarrantInv
<1>2. ASSUME NEW a \in Alerts, LinkAlert(a) PROVE WarrantInv'
  BY <1>1, <1>2 DEF LinkAlert, local
<1>3. ASSUME NEW e \in Evidence, CountEvidence(e) \/ AttachEvidence(e) PROVE WarrantInv'
  BY <1>1, <1>3 DEF CountEvidence, AttachEvidence, local
<1>4. ASSUME NEW q \in Requests, ReadIncident(q) \/ HashEvidence(q) PROVE WarrantInv'
  BY <1>1, <1>4 DEF ReadIncident, HashEvidence, local
<1>5. ASSUME NEW key \in denied, Expire(key) PROVE WarrantInv'
  BY <1>1, <1>5 DEF Expire, local
<1>6. CASE UNCHANGED vars
  BY <1>1, <1>6 DEF vars, local
<1>7. QED
  BY <1>2, <1>3, <1>4, <1>5, <1>6, RequestWarranted, RunWarranted, CallerWarranted DEF Next

LEMMA InitWarrant == Init => WarrantInv
  BY LimitIs DEF Init, WarrantInv, Warranted, NoOutput

\* TypeInv is an invariant: every variable has its type, and a run is where
\* whoever drives it may bring it, with a context read from the incident.
THEOREM TypesAlways == Spec => []TypeInv
  BY InitTypes, TypesKept, PTL DEF Spec

\* A completed investigation cites only what its stored context shows and is
\* no surer than its evidence allows, for any cut, any answers of the
\* provider and any number of runs.
THEOREM ResultsAreWarranted == Spec => []ResultIsWarranted
<1>1. WarrantInv => ResultIsWarranted
  BY DEF WarrantInv, Warranted, ResultIsWarranted, Limit
<1>2. Spec => []WarrantInv
  BY InitWarrant, WarrantKept, TypesAlways, PTL DEF Spec
<1>3. QED
  BY <1>1, <1>2, PTL

-----------------------------------------------------------------------------
(* Answers cover what was asked.                                            *)

Past == (Nodes \ {"load"}) \cup {"completed"}

\* The hash of a run is of what the incident held, and so is everything the
\* run reads later; past its first node its context covers the hash, unless
\* it was cut or there was more evidence than it reads.
Covered(k) ==
    /\ hash[k].alerts \subseteq ToSet(linked) /\ hash[k].evidence \subseteq ToSet(attached)
    /\ pc[k] = "load" /\ ctx[k] # NoContext => hash[k].alerts \subseteq ToSet(ctx[k].alerts)
    /\ entry[k] = "graph" /\ pc[k] \in Past =>
           \/ ctx[k].truncated
           \/ /\ hash[k].alerts \subseteq ToSet(ctx[k].alerts)
              /\ \/ hash[k].evidence \subseteq ToSet(ctx[k].evidence)
                 \/ Len(ctx[k].evidence) = ReadEvidence

\* What a request has seen is at least what there was when it came, and the
\* run that answers it has the hash of what it saw.
Asked(q) ==
    /\ asked[q].alerts \subseteq seen[q].alerts
    /\ asked[q].evidence \subseteq ToSet(attached)
    /\ rpc[q] \in {"hashed", "answered"} => asked[q].evidence \subseteq seen[q].evidence
    /\ seen[q].alerts \subseteq ToSet(linked) /\ seen[q].evidence \subseteq ToSet(attached)
    /\ answer[q] # NoRun => /\ rpc[q] = "answered"
                            /\ hash[answer[q]] = seen[q]
                            /\ entry[answer[q]] = "graph" /\ pc[answer[q]] # "absent"

CoverInv == (\A k \in Runs : Covered(k)) /\ (\A q \in Requests : Asked(q))

\* The incident only grows.
Grows == ToSet(linked) \subseteq ToSet(linked') /\ ToSet(attached) \subseteq ToSet(attached')

\* A run stays covered while the incident grows.
LEMMA StaysCovered ==
    ASSUME NEW k \in Runs, Covered(k), Grows, pc'[k] = pc[k], hash'[k] = hash[k],
           ctx'[k] = ctx[k], entry'[k] = entry[k]
    PROVE  Covered(k)'
  BY DEF Covered, Grows

\* A request stays answered by the run of what it saw.
LEMMA StaysAsked ==
    ASSUME TypeInv, NEW q \in Requests, Asked(q), Grows, rpc'[q] = rpc[q],
           asked'[q] = asked[q], seen'[q] = seen[q], answer'[q] = answer[q],
           \A k \in Runs : entry'[k] = entry[k] /\
               (pc[k] # "absent" /\ entry[k] = "graph" => pc'[k] # "absent" /\ hash'[k] = hash[k])
    PROVE  Asked(q)'
<1>1. answer[q] # NoRun => answer[q] \in Runs
  BY DEF TypeInv, Types
<1>2. QED
  BY <1>1 DEF Asked, Grows

\* A request joins or creates the run of what it has seen.
LEMMA RequestCovers ==
    ASSUME TypeInv, CoverInv, NEW q \in Requests,
           ReadIncident(q) \/ HashEvidence(q) \/ Join(q)
    PROVE  CoverInv'
<1> USE DEF TypeInv, CoverInv
<1>1. Grows /\ UNCHANGED <<incident, entry>>
  BY DEF ReadIncident, HashEvidence, Join, incident, Grows
<1>2. \A r \in Requests : r # q =>
          /\ rpc'[r] = rpc[r] /\ asked'[r] = asked[r] /\ seen'[r] = seen[r]
          /\ answer'[r] = answer[r]
  BY DEF ReadIncident, HashEvidence, Join, Types
<1>3. CASE ReadIncident(q)
  <2>1. /\ rpc[q] = "idle" /\ rpc'[q] = "hashing" /\ asked'[q] = Content
        /\ seen'[q].alerts = ToSet(linked) /\ seen'[q].evidence = seen[q].evidence
        /\ UNCHANGED <<answer, pc, hash, ctx>>
    BY <1>3 DEF ReadIncident, Types, Contents, local
  <2>2. Asked(q)'
    BY <1>1, <2>1 DEF Asked, Content, incident
  <2>3. QED
    BY <1>1, <1>2, <2>1, <2>2, StaysCovered, StaysAsked
<1>4. CASE HashEvidence(q)
  <2>1. /\ rpc[q] = "hashing" /\ rpc'[q] = "hashed" /\ asked'[q] = asked[q]
        /\ seen'[q].evidence = ToSet(attached) /\ seen'[q].alerts = seen[q].alerts
        /\ UNCHANGED <<answer, pc, hash, ctx>>
    BY <1>4 DEF HashEvidence, Types, Contents, local
  <2>2. Asked(q)'
    BY <1>1, <2>1 DEF Asked, incident
  <2>3. QED
    BY <1>1, <1>2, <2>1, <2>2, StaysCovered, StaysAsked
<1>5. CASE Join(q)
  <2>1. rpc[q] = "hashed" /\ rpc'[q] = "answered" /\ UNCHANGED <<asked, seen>>
    BY <1>5 DEF Join, Types
  <2>2. ASSUME NEW k \in Runs, entry[k] = "graph", pc[k] # "absent", hash[k] = seen[q],
               answer' = [answer EXCEPT ![q] = k], UNCHANGED <<pc, hash, ctx, out>>
        PROVE  CoverInv'
    <3>1. answer'[q] = k
      BY <2>2 DEF Types
    <3>2. Asked(q)'
      BY <1>1, <2>1, <2>2, <3>1 DEF Asked, incident
    <3>3. QED
      BY <1>1, <1>2, <2>2, <3>2, StaysCovered, StaysAsked
  <2>3. ASSUME NEW k \in Runs, entry[k] = "graph", pc[k] = "absent" \/ hash[k] = seen[q],
               answer' = [answer EXCEPT ![q] = k],
               pc' = [pc EXCEPT ![k] = "queued"],
               hash' = [hash EXCEPT ![k] = seen[q]],
               ctx' = [ctx EXCEPT ![k] = NoContext]
        PROVE  CoverInv'
    <3>1. /\ answer'[q] = k /\ pc'[k] = "queued" /\ hash'[k] = seen[q]
          /\ \A j \in Runs : j # k => pc'[j] = pc[j] /\ hash'[j] = hash[j] /\ ctx'[j] = ctx[j]
      BY <2>3 DEF Types
    <3>2. Asked(q)'
      BY <1>1, <2>1, <2>3, <3>1 DEF Asked, incident
    <3>3. \A r \in Requests : r # q => Asked(r)'
      BY <1>1, <1>2, <2>3, <3>1, StaysAsked
    <3>4. Covered(k)'
      BY <1>1, <3>1 DEF Asked, Covered, incident, Past, Nodes
    <3>5. \A j \in Runs : j # k => Covered(j)'
      BY <1>1, <3>1, StaysCovered
    <3>6. QED
      BY <3>2, <3>3, <3>4, <3>5
  <2>4. \E k \in Runs : /\ entry[k] = "graph" /\ answer' = [answer EXCEPT ![q] = k]
                        /\ \/ /\ pc[k] # "absent" /\ hash[k] = seen[q]
                              /\ UNCHANGED <<pc, hash, ctx, out>>
                           \/ /\ pc[k] = "absent" \/ hash[k] = seen[q]
                              /\ pc' = [pc EXCEPT ![k] = "queued"]
                              /\ hash' = [hash EXCEPT ![k] = seen[q]]
                              /\ ctx' = [ctx EXCEPT ![k] = NoContext]
    BY <1>5 DEF Join
  <2>5. QED
    BY <2>2, <2>3, <2>4
<1>6. QED
  BY <1>3, <1>4, <1>5

\* A step of a run touches no request, no hash and no other run.
LEMMA OthersCovered ==
    ASSUME TypeInv, CoverInv, NEW k \in Runs, Covered(k)',
           UNCHANGED <<incident, requests, hash, entry>>,
           pc'[k] # "absent", \A j \in Runs : j # k => pc'[j] = pc[j] /\ ctx'[j] = ctx[j]
    PROVE  CoverInv'
<1>1. Grows
  BY DEF Grows, incident
<1>2. \A j \in Runs : j # k => Covered(j)'
  BY <1>1, StaysCovered DEF CoverInv
<1>3. \A q \in Requests : Asked(q)'
  BY <1>1, StaysAsked DEF CoverInv, requests
<1>4. QED
  BY <1>2, <1>3 DEF CoverInv

\* A run past its first node keeps its context.
LEMMA MoveCovers ==
    ASSUME TypeInv, CoverInv, NEW k \in Runs, NEW from, NEW to \in States \ {"absent", "load"},
           Node(k, from, to), UNCHANGED ctx,
           entry[k] = "graph" /\ to \in Past => from \in Past
    PROVE  CoverInv'
<1>1. /\ pc[k] = from /\ pc'[k] = to /\ UNCHANGED <<incident, requests, hash, entry>>
      /\ \A j \in Runs : j # k => pc'[j] = pc[j]
  BY NodeTypes DEF Node, TypeInv
<1>2. Covered(k)'
  BY <1>1 DEF CoverInv, Covered, incident
<1>3. QED
  BY <1>1, <1>2, OthersCovered

\* A run that fails keeps its cover.
LEMMA AbortCovers ==
    ASSUME TypeInv, CoverInv, NEW k \in Runs, Abort(k)
    PROVE  CoverInv'
<1>1. /\ pc'[k] = "failed" /\ UNCHANGED <<incident, requests, hash, entry, ctx>>
      /\ \A j \in Runs : j # k => pc'[j] = pc[j]
  BY DEF Abort, TypeInv, Types
<1>2. Covered(k)'
  BY <1>1 DEF CoverInv, Covered, incident, Past, Nodes
<1>3. QED
  BY <1>1, <1>2, OthersCovered

\* What is read after the hash covers the hash.
LEMMA LoadCovers ==
    ASSUME TypeInv, CoverInv, NEW k \in Runs, Claim(k) \/ LoadAlerts(k) \/ LoadEvidence(k)
    PROVE  CoverInv'
<1> USE DEF TypeInv, CoverInv
<1>1. "load" \in States /\ "evidence" \in States
  BY DEF States, Nodes
<1>2. CASE Claim(k)
  <2>1. Node(k, "queued", "load") /\ UNCHANGED ctx
    BY <1>2 DEF Claim, local
  <2>2. /\ pc[k] = "queued" /\ pc'[k] = "load" /\ UNCHANGED <<incident, requests, hash, entry>>
        /\ \A j \in Runs : j # k => pc'[j] = pc[j]
    BY <1>1, <2>1, NodeTypes DEF Node
  <2>3. ctx[k] = NoContext
    BY <2>2 DEF Placed
  <2>4. Covered(k)'
    BY <2>1, <2>2, <2>3 DEF Covered, incident, Past
  <2>5. QED
    BY <2>1, <2>2, <2>4, OthersCovered
<1>3. CASE LoadAlerts(k)
  <2> DEFINE c == Read(linked, <<>>)
  <2>1. c.alerts = linked
    <3>1. linked \in Seq(Alerts) /\ <<>> \in Seq(Evidence)
      BY DEF Types
    <3>2. QED
      BY <3>1, ReadIs
  <2> HIDE DEF c
  <2>2. /\ ctx' = [ctx EXCEPT ![k] = c] /\ pc[k] = "load"
        /\ UNCHANGED <<incident, requests, pc, hash, entry>>
    BY <1>3 DEF LoadAlerts, c
  <2>3. ctx'[k] = c /\ \A j \in Runs : j # k => ctx'[j] = ctx[j]
    BY <2>2 DEF Types
  <2>4. Covered(k)'
    BY <2>1, <2>2, <2>3 DEF Covered, incident, Past
  <2>5. QED
    BY <2>2, <2>3, <2>4, OthersCovered
<1>4. CASE LoadEvidence(k)
  <2> DEFINE b == Read(ctx[k].alerts, attached)
             c == EnforceSize(b)
  <2>1. CASE Abort(k)
    BY <2>1, AbortCovers
  <2>2. CASE /\ c # NoContext /\ Node(k, "load", "evidence") /\ ctx' = [ctx EXCEPT ![k] = c]
             /\ UNCHANGED <<out, decided, done, saved, world>>
    <3>1. ctx[k] \in Contexts /\ ctx[k] # NoContext
      BY <1>4 DEF LoadEvidence, Types
    <3>2. attached \in Seq(Evidence) /\ ctx[k].alerts \in Seq(Alerts)
      BY <3>1 DEF Types, Contexts
    <3>3. /\ b \in Contexts /\ Sound(b) /\ IsFiniteSet(b.techniques)
          /\ b.alerts = ctx[k].alerts
          /\ ToSet(attached) \subseteq ToSet(b.evidence) \/ Len(b.evidence) = ReadEvidence
      BY <3>2, ReadIs
    <3>4. c = b \/ c.truncated
      <4> HIDE DEF b
      <4>1. QED
        BY <2>2, <3>3, EnforceIs
    <3> HIDE DEF c, b
    <3>5. /\ pc[k] = "load" /\ pc'[k] = "evidence"
          /\ UNCHANGED <<incident, requests, hash, entry>>
          /\ ctx'[k] = c
          /\ \A j \in Runs : j # k => pc'[j] = pc[j] /\ ctx'[j] = ctx[j]
      BY <1>1, <2>2, NodeTypes DEF Node, Types
    <3>6. Covered(k)'
      BY <3>1, <3>3, <3>4, <3>5 DEF Covered, incident
    <3>7. QED
      BY <3>5, <3>6, OthersCovered
  <2>3. QED
    BY <1>4, <2>1, <2>2 DEF LoadEvidence
<1>5. QED
  BY <1>2, <1>3, <1>4

\* The nodes of the graph keep the cover.
LEMMA RunCovers ==
    ASSUME TypeInv, CoverInv, NEW k \in Runs, RunStep(k)
    PROVE  CoverInv'
<1>1. ASSUME NEW from \in Past,
             NEW to \in {"risk", "narrative", "recommend", "validate", "gate", "execute",
                         "verify", "persist", "commit", "completed"},
             Node(k, from, to), UNCHANGED ctx
      PROVE  CoverInv'
  <2>1. to \in States \ {"absent", "load"}
    BY DEF States, Nodes
  <2>2. QED
    BY <1>1, <2>1, MoveCovers
<1>2. {"evidence", "risk", "narrative", "recommend", "validate", "gate", "execute", "verify",
       "persist"} \subseteq Past
  BY DEF Past, Nodes
<1>3. CASE EvidenceAnalysis(k)
  <2>1. Node(k, "evidence", "risk") /\ UNCHANGED ctx
    BY <1>3, Zenon DEF EvidenceAnalysis
  <2>2. QED
    BY <1>1, <1>2, <2>1
<1>4. CASE RiskAnalysis(k) \/ Narrative(k) \/ Recommend(k)
  <2>1. /\ UNCHANGED ctx
        /\ \/ Node(k, "risk", "narrative") \/ Node(k, "narrative", "recommend")
           \/ Node(k, "recommend", "validate")
    BY <1>4, Zenon DEF RiskAnalysis, Narrative, Recommend
  <2>2. QED
    BY <1>1, <1>2, <2>1
<1>5. CASE NoProvider(k) \/ ProviderFails(k) \/ PersistFails(k)
  BY <1>5, AbortCovers DEF NoProvider, ProviderFails, PersistFails
<1>6. CASE Validate(k)
  BY <1>1, <1>2, <1>6, AbortCovers DEF Validate, local
<1>7. CASE PolicyGate(k)
  BY <1>1, <1>2, <1>7 DEF PolicyGate
<1>8. CASE Execute(k)
  <2>1. pc[k] = "execute" /\ UNCHANGED <<incident, requests, pc, hash, entry, ctx>>
    BY <1>8, Zenon DEF Execute
  <2>2. Grows
    BY <2>1 DEF Grows, incident
  <2>3. Covered(k)'
    BY <2>1, <2>2, StaysCovered DEF CoverInv
  <2>4. QED
    BY <2>1, <2>3, OthersCovered
<1>9. CASE AllExecuted(k)
  BY <1>1, <1>2, <1>9 DEF AllExecuted, local
<1>10. CASE VerifyActions(k)
  <2>1. Node(k, "verify", IF entry[k] = "graph" THEN "persist" ELSE "commit") /\ UNCHANGED ctx
    BY <1>10, Zenon DEF VerifyActions
  <2>2. QED
    BY <1>1, <1>2, <2>1
<1>11. CASE Persist(k)
  <2>1. Node(k, "persist", "completed") /\ UNCHANGED ctx
    BY <1>11, Zenon DEF Persist
  <2>2. QED
    BY <1>1, <1>2, <2>1
<1>12. QED
  BY <1>3, <1>4, <1>5, <1>6, <1>7, <1>8, <1>9, <1>10, <1>11, LoadCovers DEF RunStep

\* Callers of their own read no context of the graph.
LEMMA CallerCovers ==
    ASSUME TypeInv, CoverInv, NEW k \in Runs, CallerStep(k)
    PROVE  CoverInv'
<1> USE DEF TypeInv
<1>1. ASSUME NEW from, NEW to \in {"gate", "execute", "commit", "ended"}, Node(k, from, to),
             entry[k] # "graph", \A j \in Runs : j # k => ctx'[j] = ctx[j]
      PROVE  CoverInv'
  <2>1. to \in States
    BY DEF States, Nodes
  <2>2. /\ pc'[k] = to /\ UNCHANGED <<incident, requests, hash, entry>>
        /\ \A j \in Runs : j # k => pc'[j] = pc[j]
    BY <1>1, <2>1, NodeTypes DEF Node
  <2>3. Covered(k)'
    BY <1>1, <2>2 DEF CoverInv, Covered, incident
  <2>4. QED
    BY <1>1, <2>2, <2>3, OthersCovered
<1>2. pc[k] \in {"commit", "ended"} => entry[k] # "graph"
  BY DEF Placed
<1>3. CASE DriveNodes(k)
  <2>1. /\ Node(k, "absent", "gate") /\ entry[k] = "nodes"
        /\ \A j \in Runs : j # k => ctx'[j] = ctx[j]
    BY <1>3 DEF DriveNodes, Types
  <2>2. QED
    BY <1>1, <2>1
<1>4. CASE DriveExecutor(k)
  <2>1. Node(k, "absent", "execute") /\ entry[k] = "executor" /\ UNCHANGED ctx
    BY <1>4, Zenon DEF DriveExecutor
  <2>2. QED
    BY <1>1, <2>1
<1>5. CASE Commit(k) \/ RollBack(k)
  <2>1. Node(k, "commit", "ended") /\ UNCHANGED ctx
    BY <1>5 DEF Commit, RollBack, local
  <2>2. entry[k] # "graph"
    BY <1>2, <2>1 DEF Node
  <2>3. QED
    BY <1>1, <2>1, <2>2
<1>6. ASSUME NEW i \in DOMAIN done[k], Undo(k, i) PROVE CoverInv'
  <2>1. Node(k, "ended", "commit") /\ UNCHANGED ctx
    BY <1>6, Zenon DEF Undo
  <2>2. entry[k] # "graph"
    BY <1>2, <2>1 DEF Node
  <2>3. QED
    BY <1>1, <2>1, <2>2
<1>7. QED
  BY <1>3, <1>4, <1>5, <1>6 DEF CallerStep

\* Every step keeps the cover.
LEMMA CoverKept == TypeInv /\ CoverInv /\ [Next]_vars => CoverInv'
<1> SUFFICES ASSUME TypeInv, CoverInv, [Next]_vars PROVE CoverInv'
  OBVIOUS
<1>1. ASSUME Grows, UNCHANGED <<requests, pc, hash, entry, ctx>> PROVE CoverInv'
  BY <1>1, StaysCovered, StaysAsked DEF CoverInv, requests
<1>2. CASE \/ \E a \in Alerts : LinkAlert(a)
           \/ \E e \in Evidence : CountEvidence(e) \/ AttachEvidence(e)
  <2>1. Grows
    BY <1>2, IncidentTypes DEF Grows
  <2>2. UNCHANGED <<requests, pc, hash, entry, ctx>>
    BY <1>2 DEF LinkAlert, CountEvidence, AttachEvidence, local
  <2>3. QED
    BY <1>1, <2>1, <2>2
<1>3. ASSUME NEW key \in denied, Expire(key) PROVE CoverInv'
  BY <1>1, <1>3 DEF Expire, local, Grows, incident
<1>4. CASE UNCHANGED vars
  BY <1>1, <1>4 DEF vars, local, Grows, incident
<1>5. QED
  BY <1>2, <1>3, <1>4, RequestCovers, RunCovers, CallerCovers DEF Next

LEMMA InitCover == Init => CoverInv
<1> SUFFICES ASSUME Init PROVE CoverInv
  OBVIOUS
<1>1. \A k \in Runs : Covered(k)
  BY DEF Init, Covered, NoContent, Past, Nodes
<1>2. \A q \in Requests : Asked(q)
  BY DEF Init, Asked, NoContent
<1>3. QED
  BY <1>1, <1>2 DEF CoverInv

\* Whoever asks is answered by a run that looked at everything the incident
\* held when they asked, unless its context was cut or there was more
\* evidence than it reads: for any requests, joins, restarts and failures.
THEOREM AnswersCoverRequests == Spec => []AnswerCoversRequest
<1>1. TypeInv /\ WarrantInv /\ CoverInv => AnswerCoversRequest
  <2> SUFFICES ASSUME TypeInv, WarrantInv, CoverInv, NEW q \in Requests,
                      answer[q] # NoRun, saved[answer[q]] # NoResult
               PROVE  LET c == ctx[answer[q]] IN
                      \/ c.truncated
                      \/ /\ asked[q].alerts \subseteq ToSet(c.alerts)
                         /\ \/ asked[q].evidence \subseteq ToSet(c.evidence)
                            \/ Len(c.evidence) = ReadEvidence
    BY DEF AnswerCoversRequest
  <2>1. answer[q] \in Runs
    BY DEF TypeInv, Types
  <2>2. pc[answer[q]] \in Past /\ entry[answer[q]] = "graph"
    BY <2>1 DEF WarrantInv, Warranted, CoverInv, Asked, Past
  <2>3. QED
    BY <2>1, <2>2 DEF CoverInv, Covered, Asked
<1>2. Spec => [](TypeInv /\ WarrantInv /\ CoverInv)
  BY InitTypes, TypesKept, InitWarrant, WarrantKept, InitCover, CoverKept, PTL DEF Spec
<1>3. QED
  BY <1>1, <1>2, PTL

-----------------------------------------------------------------------------
(* What is done to anybody is warranted.                                    *)

Executors == {x \in Runs : entry[x] = "executor"}
Approved == UNION {{d.action.name : d \in ToSet(decided[k])} : k \in Executors}
Concerned == Primary \cup {AlertUser[a] : a \in ToSet(linked)}
                     \cup {AlertIp[a] : a \in ToSet(linked)}
Free == Approved \cup (Concerned \ Protected)

\* The graph decides nothing; the gate clears nothing against protected names
\* and disables nobody; what is about to be committed is warranted, and so is
\* what undoing an executed action would write.
Warrants(k) ==
    /\ entry[k] = "graph" => out[k].plan = <<>> /\ decided[k] = <<>> /\ done[k] = <<>>
    /\ pc[k] = "absent" => decided[k] = <<>>
    /\ entry[k] = "nodes" => \A d \in ToSet(decided[k]) : d.verdict = Cleared =>
           d.action.name \in Concerned \ Protected /\ d.action.type # "disable_user"
    /\ \A o \in ToSet(done[k]) : o.status = "executed" /\ o.action.type = "disable_user" =>
           o.action.name \in Approved
    /\ pending[k].revoked \subseteq Free /\ pending[k].disabled \subseteq Approved

World == /\ \A key \in denied : key[1] \in Free
         /\ revoked \subseteq Free /\ disabled \subseteq Approved

EffectInv == World /\ \A k \in Runs : Warrants(k)

Widens == Approved \subseteq Approved' /\ Concerned \subseteq Concerned'

\* Who may be acted upon only grows.
LEMMA WidensFree == Widens => Free \subseteq Free'
  BY DEF Widens, Free

\* Who may be acted upon grows when the incident or what was approved grows.
LEMMA Widening ==
    ASSUME ToSet(linked) \subseteq ToSet(linked'), UNCHANGED entry,
           \A k \in Executors : ToSet(decided[k]) \subseteq ToSet(decided'[k])
    PROVE  Widens
<1>1. Approved \subseteq Approved'
  BY DEF Approved, Executors
<1>2. Concerned \subseteq Concerned'
  BY DEF Concerned
<1>3. QED
  BY <1>1, <1>2 DEF Widens

\* A run that a step leaves alone keeps its warrants while they widen.
LEMMA StaysWarrant ==
    ASSUME NEW k \in Runs, Warrants(k), Widens, pc'[k] = "absent" => pc[k] = "absent",
           UNCHANGED <<out[k].plan, decided[k], done[k], pending[k], entry[k]>>
    PROVE  Warrants(k)'
<1>1. /\ out'[k].plan = out[k].plan /\ decided'[k] = decided[k] /\ done'[k] = done[k]
      /\ pending'[k] = pending[k] /\ entry'[k] = entry[k]
  OBVIOUS
<1>2. Approved \subseteq Approved' /\ Concerned \subseteq Concerned' /\ Free \subseteq Free'
  BY WidensFree DEF Widens
<1>3. QED
  BY <1>1, <1>2 DEF Warrants

\* What was done stays warranted while nothing more is done.
LEMMA StaysWorld ==
    ASSUME World, Widens, denied' \subseteq denied, UNCHANGED <<disabled, revoked>>
    PROVE  World'
<1>1. Approved \subseteq Approved' /\ Free \subseteq Free'
  BY WidensFree DEF Widens
<1>2. QED
  BY <1>1 DEF World

\* A step of one run: the others stay, and so does the world.
LEMMA OthersWarrant ==
    ASSUME TypeInv, EffectInv, NEW k \in Runs, Warrants(k)', Widens, UNCHANGED entry,
           \A j \in Runs : j # k =>
               /\ pc'[j] = pc[j] /\ out'[j] = out[j] /\ decided'[j] = decided[j]
               /\ done'[j] = done[j] /\ pending'[j] = pending[j]
    PROVE  \A j \in Runs : Warrants(j)'
<1> SUFFICES ASSUME NEW j \in Runs, j # k PROVE Warrants(j)'
  OBVIOUS
<1>1. Warrants(j)
  BY DEF EffectInv
<1>2. QED
  BY <1>1, StaysWarrant

\* At the start nothing has been done to anybody.
LEMMA InitEffects == Init => EffectInv
<1> SUFFICES ASSUME Init PROVE EffectInv
  OBVIOUS
<1>1. \A k \in Runs : ToSet(decided[k]) = {} /\ ToSet(done[k]) = {}
  BY DEF Init, ToSet
<1>2. \A k \in Runs : Warrants(k)
  BY <1>1 DEF Init, Warrants, NoOutput, NothingPending
<1>3. World
  BY DEF Init, World
<1>4. QED
  BY <1>2, <1>3 DEF EffectInv

\* Alerts and evidence that arrive do nothing to anybody.
LEMMA SceneEffects ==
    ASSUME TypeInv, EffectInv,
           \/ \E a \in Alerts : LinkAlert(a)
           \/ \E e \in Evidence : CountEvidence(e) \/ AttachEvidence(e)
           \/ \E q \in Requests : ReadIncident(q) \/ HashEvidence(q)
           \/ \E key \in denied : Expire(key)
           \/ UNCHANGED vars
    PROVE  EffectInv'
<1>1. ToSet(linked) \subseteq ToSet(linked')
  <2>1. CASE \/ \E a \in Alerts : LinkAlert(a)
             \/ \E e \in Evidence : CountEvidence(e) \/ AttachEvidence(e)
    BY <2>1, IncidentTypes
  <2>2. CASE \/ \E q \in Requests : ReadIncident(q) \/ HashEvidence(q)
             \/ \E key \in denied : Expire(key)
             \/ UNCHANGED vars
    BY <2>2 DEF ReadIncident, HashEvidence, Expire, vars, incident
  <2>3. QED
    BY <2>1, <2>2
<1>2. UNCHANGED <<entry, pc, out, decided, done, pending, disabled, revoked>>
      /\ denied' \subseteq denied
  BY DEF LinkAlert, CountEvidence, AttachEvidence, ReadIncident, HashEvidence, Expire, vars,
         local, world
<1>3. Widens
  BY <1>1, <1>2, Widening
<1>4. \A k \in Runs : Warrants(k)'
  BY <1>2, <1>3, StaysWarrant DEF EffectInv
<1>5. World'
  BY <1>2, <1>3, StaysWorld DEF EffectInv
<1>6. QED
  BY <1>4, <1>5 DEF EffectInv

\* A step that touches neither decisions nor the world.
LEMMA QuietEffects ==
    ASSUME TypeInv, EffectInv, NEW k \in Runs,
           UNCHANGED <<linked, entry, decided, denied, disabled, revoked>>,
           \A j \in Runs : j # k => /\ pc'[j] = pc[j] /\ out'[j] = out[j] /\ done'[j] = done[j]
                                    /\ pending'[j] = pending[j],
           pc'[k] # "absent", entry[k] = "graph" => out'[k].plan = <<>>,
           done'[k] = done[k] \/ Retells(done'[k], k),
           pending'[k] = pending[k] \/ pending'[k] = NothingPending
    PROVE  EffectInv'
<1>1. Widens
  BY Widening
<1>2. Approved \subseteq Approved' /\ Concerned \subseteq Concerned' /\ Free \subseteq Free'
  BY <1>1, WidensFree DEF Widens
<1>3. /\ pending'[k].revoked \subseteq pending[k].revoked
      /\ pending'[k].disabled \subseteq pending[k].disabled
  BY DEF NothingPending
<1>4. /\ \A o \in ToSet(done'[k]) : o.status = "executed" =>
            \E b \in ToSet(done[k]) : b.action = o.action /\ b.status = "executed"
      /\ done[k] = <<>> => done'[k] = <<>>
  BY DEF Retells
<1>5. Warrants(k)'
  BY <1>2, <1>3, <1>4 DEF EffectInv, Warrants
<1>6. \A j \in Runs : Warrants(j)'
  BY <1>1, <1>5, OthersWarrant
<1>7. World'
  BY <1>1, StaysWorld DEF EffectInv
<1>8. QED
  BY <1>6, <1>7 DEF EffectInv

\* A request starts a run that has decided nothing.
LEMMA JoinEffects ==
    ASSUME TypeInv, EffectInv, NEW q \in Requests, Join(q)
    PROVE  EffectInv'
<1>1. UNCHANGED <<linked, entry, decided, done, pending, denied, disabled, revoked>>
  BY DEF Join, incident, world
<1>2. CASE UNCHANGED <<pc, out>>
  <2>1. Widens
    BY <1>1, Widening
  <2>2. QED
    BY <1>1, <1>2, <2>1, StaysWarrant, StaysWorld DEF EffectInv
<1>3. ASSUME NEW k \in Runs, pc' = [pc EXCEPT ![k] = "queued"],
             out' = [out EXCEPT ![k] = NoOutput]
      PROVE  EffectInv'
  <2>1. /\ pc'[k] = "queued" /\ out'[k].plan = <<>>
        /\ \A j \in Runs : j # k => pc'[j] = pc[j] /\ out'[j] = out[j]
    BY <1>3 DEF TypeInv, Types, NoOutput
  <2>2. QED
    BY <1>1, <2>1, QuietEffects
<1>4. \/ UNCHANGED <<pc, out>>
      \/ \E k \in Runs : /\ pc' = [pc EXCEPT ![k] = "queued"]
                         /\ out' = [out EXCEPT ![k] = NoOutput]
  BY DEF Join
<1>5. QED
  BY <1>2, <1>3, <1>4

\* A run that fails does nothing more.
LEMMA AbortEffects ==
    ASSUME TypeInv, EffectInv, NEW k \in Runs, Abort(k)
    PROVE  EffectInv'
<1>1. /\ UNCHANGED <<linked, entry, decided, done, denied, disabled, revoked>>
      /\ pc'[k] = "failed" /\ out'[k].plan = <<>> /\ pending'[k] = NothingPending
      /\ \A j \in Runs : j # k => pc'[j] = pc[j] /\ out'[j] = out[j] /\ pending'[j] = pending[j]
  BY DEF Abort, TypeInv, Types, NoOutput, incident
<1>2. QED
  BY <1>1, QuietEffects

\* The nodes that only read, ask, check and verify.
LEMMA NodeEffects ==
    ASSUME TypeInv, EffectInv, NEW k \in Runs,
           \/ Claim(k) \/ LoadAlerts(k) \/ LoadEvidence(k) \/ EvidenceAnalysis(k)
           \/ RiskAnalysis(k) \/ Narrative(k) \/ Recommend(k) \/ NoProvider(k)
           \/ ProviderFails(k) \/ Validate(k) \/ AllExecuted(k) \/ VerifyActions(k)
           \/ PersistFails(k) \/ RollBack(k) \/ DriveNodes(k)
    PROVE  EffectInv'
<1> USE DEF TypeInv
<1>1. ASSUME NEW from, NEW to \in States \ {"absent"}, Node(k, from, to),
             UNCHANGED <<decided, denied, disabled, revoked>>,
             \A j \in Runs : j # k => /\ out'[j] = out[j] /\ done'[j] = done[j]
                                      /\ pending'[j] = pending[j],
             entry[k] = "graph" => out'[k].plan = out[k].plan,
             done'[k] = done[k] \/ Retells(done'[k], k),
             pending'[k] = pending[k] \/ pending'[k] = NothingPending
      PROVE  EffectInv'
  <2>1. /\ pc'[k] = to /\ UNCHANGED <<linked, entry>>
        /\ \A j \in Runs : j # k => pc'[j] = pc[j]
    BY <1>1, NodeTypes
  <2>2. entry[k] = "graph" => out'[k].plan = <<>>
    BY <1>1 DEF EffectInv, Warrants
  <2>3. QED
    BY <1>1, <2>1, <2>2, QuietEffects
<1>2. {"load", "evidence", "risk", "narrative", "recommend", "validate", "gate", "verify",
       "persist", "commit", "ended"} \subseteq States \ {"absent"}
  BY DEF States, Nodes
<1>3. CASE Claim(k) \/ AllExecuted(k)
  BY <1>1, <1>2, <1>3 DEF Claim, AllExecuted, local, world
<1>4. CASE LoadAlerts(k)
  <2>1. /\ pc[k] = "load"
        /\ UNCHANGED <<linked, pc, entry, out, decided, done, denied, disabled, revoked, pending>>
    BY <1>4 DEF LoadAlerts, incident, world
  <2>2. entry[k] = "graph" => out'[k].plan = <<>>
    BY <2>1 DEF EffectInv, Warrants
  <2>3. QED
    BY <2>1, <2>2, QuietEffects
<1>5. CASE LoadEvidence(k)
  <2>1. CASE Node(k, "load", "evidence") /\ UNCHANGED <<out, decided, done, saved, world>>
    BY <1>1, <1>2, <2>1 DEF world
  <2>2. QED
    BY <1>5, <2>1, AbortEffects, Zenon DEF LoadEvidence
<1>6. ASSUME NEW from, NEW to \in States \ {"absent"}, Node(k, from, to),
             UNCHANGED <<decided, done, world>>,
             \A j \in Runs : j # k => out'[j] = out[j],
             out'[k].plan = out[k].plan
      PROVE  EffectInv'
  BY <1>1, <1>6 DEF world
<1>7. CASE EvidenceAnalysis(k)
  <2>1. Node(k, "evidence", "risk") /\ UNCHANGED <<decided, done, world>>
    BY <1>7, Zenon DEF EvidenceAnalysis
  <2>2. PICK cited \in SUBSET Refs, top \in Int :
            out' = [out EXCEPT ![k].cited = cited, ![k].top = top]
    BY <1>7, AnalysisIs, Zenon
  <2>3. out'[k].plan = out[k].plan /\ \A j \in Runs : j # k => out'[j] = out[j]
    BY <2>2 DEF Types, Outputs
  <2>4. QED
    BY <1>2, <1>6, <2>1, <2>3
<1>8. CASE RiskAnalysis(k)
  <2>1. Node(k, "risk", "narrative") /\ UNCHANGED <<decided, done, world>>
    BY <1>8, Zenon DEF RiskAnalysis
  <2>2. PICK agrees \in BOOLEAN : out' = [out EXCEPT ![k].sound = agrees]
    BY <1>8, Zenon DEF RiskAnalysis
  <2>3. out'[k].plan = out[k].plan /\ \A j \in Runs : j # k => out'[j] = out[j]
    BY <2>2 DEF Types, Outputs
  <2>4. QED
    BY <1>2, <1>6, <2>1, <2>3
<1>9. CASE Narrative(k)
  <2>1. Node(k, "narrative", "recommend") /\ UNCHANGED <<decided, done, world>>
    BY <1>9, Zenon DEF Narrative
  <2>2. PICK top \in Int : out' = [out EXCEPT ![k].top = top]
    BY <1>9, NarrativeIs, Zenon
  <2>3. out'[k].plan = out[k].plan /\ \A j \in Runs : j # k => out'[j] = out[j]
    BY <2>2 DEF Types, Outputs
  <2>4. QED
    BY <1>2, <1>6, <2>1, <2>3
<1>10. CASE Recommend(k)
  <2>1. Node(k, "recommend", "validate") /\ UNCHANGED <<decided, done, world>>
    BY <1>10, Zenon DEF Recommend
  <2>2. PICK ref \in Citable :
            out' = [out EXCEPT ![k].cited = @ \cup {ref} \cup NetworkRefs(ctx[k])]
    BY <1>10 DEF Recommend
  <2>3. out'[k].plan = out[k].plan /\ \A j \in Runs : j # k => out'[j] = out[j]
    BY <2>2 DEF Types, Outputs
  <2>4. QED
    BY <1>2, <1>6, <2>1, <2>3
<1>11. CASE NoProvider(k) \/ ProviderFails(k) \/ PersistFails(k)
  BY <1>11, AbortEffects DEF NoProvider, ProviderFails, PersistFails
<1>12. CASE Validate(k)
  <2>1. CASE Node(k, "validate", "gate") /\ UNCHANGED <<local, saved, world>>
    BY <1>2, <1>6, <2>1 DEF local
  <2>2. QED
    BY <1>12, <2>1, AbortEffects DEF Validate
<1>13. CASE VerifyActions(k)
  <2>1. /\ Node(k, "verify", IF entry[k] = "graph" THEN "persist" ELSE "commit")
        /\ UNCHANGED <<out, decided, world>>
    BY <1>13, Zenon DEF VerifyActions
  <2>2. PICK os \in Seq(Outcomes) : done' = [done EXCEPT ![k] = os] /\ Retells(os, k)
    BY <1>13, VerifyIs
  <2>3. Retells(done'[k], k) /\ \A j \in Runs : j # k => done'[j] = done[j]
    BY <2>2 DEF Types
  <2>4. QED
    BY <1>1, <1>2, <2>1, <2>3 DEF world
<1>14. CASE RollBack(k)
  BY <1>1, <1>2, <1>14 DEF RollBack, local, Types
<1>15. CASE DriveNodes(k)
  <2>1. /\ entry[k] = "nodes" /\ Node(k, "absent", "gate")
        /\ UNCHANGED <<decided, done, world>>
        /\ \A j \in Runs : j # k => out'[j] = out[j]
    BY <1>15 DEF DriveNodes, Types
  <2>2. QED
    BY <1>1, <1>2, <2>1 DEF world
<1>16. QED
  BY <1>3, <1>4, <1>5, <1>7, <1>8, <1>9, <1>10, <1>11, <1>12, <1>13, <1>14, <1>15

\* The gate decides about whom the context shows, which is in the incident.
LEMMA GateEffects ==
    ASSUME TypeInv, EffectInv, NEW k \in Runs, PolicyGate(k)
    PROVE  EffectInv'
<1> USE DEF TypeInv
<1>1. /\ pc[k] = "gate" /\ pc'[k] = "execute"
      /\ UNCHANGED <<linked, entry, out, done, pending, denied, disabled, revoked>>
      /\ \A j \in Runs : j # k => pc'[j] = pc[j]
  <2>1. Node(k, "gate", "execute") /\ UNCHANGED <<out, done, world>> /\ "execute" \in States
    BY DEF PolicyGate, States, Nodes
  <2>2. QED
    BY <2>1, NodeTypes DEF world
<1>2. entry[k] # "executor" /\ (entry[k] = "nodes" => ctx[k] # NoContext)
  BY <1>1 DEF Placed, Nodes
<1>3. entry[k] = "nodes" => Entities(ctx[k]) \subseteq Concerned
  <2> SUFFICES ASSUME entry[k] = "nodes" PROVE Entities(ctx[k]) \subseteq Concerned
    OBVIOUS
  <2>1. ToSet(ctx[k].events) \subseteq ToSet(linked)
    BY <1>2 DEF Placed
  <2>2. QED
    BY <2>1 DEF Entities, Concerned
<1>4. PICK ds \in Seq(Decisions) :
          /\ decided' = [decided EXCEPT ![k] = ds]
          /\ \A d \in ToSet(ds) : d.verdict = Cleared =>
                /\ d.action.name \in Entities(ctx[k]) \ Protected
                /\ d.action.type # "disable_user"
          /\ out[k].plan = <<>> => ds = <<>>
  BY GateIs
<1>5. decided'[k] = ds /\ \A j \in Runs : j # k => decided'[j] = decided[j]
  BY <1>4 DEF Types
<1>6. Widens
  BY <1>1, <1>2, <1>5, Widening DEF Executors
<1>7. Concerned \subseteq Concerned' /\ Approved \subseteq Approved' /\ Free \subseteq Free'
  BY <1>6, WidensFree DEF Widens
<1>8. Warrants(k)'
  BY <1>1, <1>2, <1>3, <1>4, <1>5, <1>7 DEF EffectInv, Warrants
<1>9. \A j \in Runs : Warrants(j)'
  BY <1>1, <1>5, <1>6, <1>8, OthersWarrant
<1>10. World'
  BY <1>1, <1>6, StaysWorld DEF EffectInv
<1>11. QED
  BY <1>9, <1>10 DEF EffectInv

\* What has been cleared may be done.
LEMMA ClearedIsFree ==
    ASSUME TypeInv, EffectInv, NEW k \in Runs, NEW d \in ToSet(decided[k]), d.verdict = Cleared
    PROVE  /\ d.action.name \in Free
           /\ d.action.type = "disable_user" => d.action.name \in Approved
<1>1. entry[k] # "graph"
  BY DEF EffectInv, Warrants, ToSet
<1>2. CASE entry[k] = "nodes"
  BY <1>2 DEF EffectInv, Warrants, Free
<1>3. CASE entry[k] = "executor"
  <2>1. d.action.name \in Approved
    BY <1>3 DEF Approved, Executors
  <2>2. QED
    BY <2>1 DEF Free
<1>4. QED
  BY <1>1, <1>2, <1>3 DEF TypeInv, Types

\* Carrying out a decision acts on whom the decision was about.
LEMMA ExecuteEffects ==
    ASSUME TypeInv, EffectInv, NEW k \in Runs, Execute(k)
    PROVE  EffectInv'
<1> USE DEF TypeInv
<1>1. pc[k] = "execute" /\ UNCHANGED <<linked, pc, entry, out, decided, disabled, revoked>>
  BY Zenon DEF Execute, incident
<1>2. PICK d \in ToSet(decided[k]), o \in Outcomes, p \in Pendings :
          /\ done' = [done EXCEPT ![k] = Append(@, o)]
          /\ o.action = d.action /\ (o.status = "executed" => d.verdict = Cleared)
          /\ pending' = [pending EXCEPT ![k] = p]
          /\ p.revoked \subseteq pending[k].revoked \cup {d.action.name}
          /\ p.revoked = pending[k].revoked \/ d.verdict = Cleared
          /\ p.disabled \subseteq pending[k].disabled \cup {d.action.name}
          /\ \/ p.disabled = pending[k].disabled
             \/ d.verdict = Cleared /\ d.action.type = "disable_user"
          /\ denied' \subseteq denied \cup {Key(d.action)}
          /\ denied' = denied \/ d.verdict = Cleared
          /\ Len(done[k]) + 1 <= Len(decided[k])
          /\ o.status = "executed" /\ o.action.type # "block_ip" => o.action.name \in Users
          /\ p.revoked \cup p.disabled
                 \subseteq pending[k].revoked \cup pending[k].disabled \cup Users
  BY ExecuteIs, Zenon
<1>3. d.verdict = Cleared =>
          /\ d.action.name \in Free
          /\ d.action.type = "disable_user" => d.action.name \in Approved
  BY ClearedIsFree
<1>4. /\ pending'[k] = p /\ ToSet(done'[k]) = ToSet(done[k]) \cup {o}
      /\ \A j \in Runs : j # k => done'[j] = done[j] /\ pending'[j] = pending[j]
  <2>1. ToSet(Append(done[k], o)) = ToSet(done[k]) \cup {o}
    BY AppendIs DEF Types
  <2>2. QED
    BY <1>2, <2>1 DEF Types
<1>5. entry[k] # "graph"
  BY DEF EffectInv, Warrants, ToSet
<1>6. Widens
  BY <1>1, Widening
<1>7. Approved' = Approved /\ Concerned' = Concerned /\ Free' = Free
  <2>1. Approved' = Approved /\ Concerned' = Concerned
    BY <1>1 DEF Approved, Executors, Concerned
  <2>2. QED
    BY <2>1 DEF Free
<1>8. Warrants(k)'
  <2>1. p.revoked \subseteq Free /\ p.disabled \subseteq Approved
    BY <1>2, <1>3 DEF EffectInv, Warrants
  <2>2. \A x \in ToSet(done'[k]) : x.status = "executed" /\ x.action.type = "disable_user" =>
            x.action.name \in Approved
    BY <1>2, <1>3, <1>4 DEF EffectInv, Warrants
  <2>3. Warrants(k)
    BY DEF EffectInv
  <2>4. QED
    BY <1>1, <1>4, <1>5, <1>7, <2>1, <2>2, <2>3 DEF Warrants
<1>9. \A j \in Runs : Warrants(j)'
  BY <1>1, <1>4, <1>6, <1>8, OthersWarrant
<1>10. World'
  <2>1. Key(d.action)[1] = d.action.name
    BY DEF Key
  <2>2. \A key \in denied' : key[1] \in Free
    BY <1>2, <1>3, <2>1 DEF EffectInv, World
  <2>3. QED
    BY <1>1, <1>7, <2>2 DEF EffectInv, World
<1>11. QED
  BY <1>9, <1>10 DEF EffectInv

\* A commit writes what was pending.
LEMMA CommitEffects ==
    ASSUME TypeInv, EffectInv, NEW k \in Runs, Persist(k) \/ Commit(k)
    PROVE  EffectInv'
<1> USE DEF TypeInv
<1>1. /\ \E from, to \in {"persist", "completed", "commit", "ended"} : Node(k, from, to)
      /\ CommitPending(k) /\ UNCHANGED <<decided, done>>
      /\ out' = [out EXCEPT ![k] = NoOutput] \/ UNCHANGED out
  BY Zenon DEF Persist, Commit, local
<1>2. /\ pc'[k] # "absent" /\ UNCHANGED <<linked, entry>>
      /\ \A j \in Runs : j # k => pc'[j] = pc[j]
  <2>1. {"persist", "completed", "commit", "ended"} \subseteq States
    BY DEF States, Nodes
  <2>2. QED
    BY <1>1, <2>1, NodeTypes
<1>3. /\ entry[k] = "graph" => out'[k].plan = <<>>
      /\ \A j \in Runs : j # k => out'[j] = out[j]
  BY <1>1 DEF EffectInv, Warrants, Types, NoOutput
<1>4. /\ pending'[k] = NothingPending /\ \A j \in Runs : j # k => pending'[j] = pending[j]
      /\ disabled' \subseteq disabled \cup pending[k].disabled
      /\ revoked' = revoked \cup pending[k].revoked
      /\ denied' = denied
  BY <1>1 DEF CommitPending, Types
<1>5. Widens
  BY <1>1, <1>2, Widening
<1>6. Approved' = Approved /\ Concerned' = Concerned /\ Free' = Free
  <2>1. Approved' = Approved /\ Concerned' = Concerned
    BY <1>1, <1>2 DEF Approved, Executors, Concerned
  <2>2. QED
    BY <2>1 DEF Free
<1>7. Warrants(k)'
  BY <1>1, <1>2, <1>3, <1>4, <1>6 DEF EffectInv, Warrants, NothingPending
<1>8. \A j \in Runs : Warrants(j)'
  BY <1>1, <1>2, <1>3, <1>4, <1>5, <1>7, OthersWarrant
<1>9. World'
  BY <1>4, <1>6 DEF EffectInv, Warrants, World
<1>10. QED
  BY <1>8, <1>9 DEF EffectInv

\* Whatever a caller of the executor decides it approves.
LEMMA DriveEffects ==
    ASSUME TypeInv, EffectInv, NEW k \in Runs, DriveExecutor(k)
    PROVE  EffectInv'
<1> USE DEF TypeInv
<1>1. /\ pc[k] = "absent" /\ pc'[k] = "execute" /\ entry[k] = "executor"
      /\ UNCHANGED <<linked, entry, out, done, pending, denied, disabled, revoked>>
      /\ \A j \in Runs : j # k => pc'[j] = pc[j] /\ decided'[j] = decided[j]
  <2>1. Node(k, "absent", "execute") /\ UNCHANGED <<out, done, world>> /\ "execute" \in States
    BY Zenon DEF DriveExecutor, States, Nodes
  <2>2. \A j \in Runs : j # k => decided'[j] = decided[j]
    BY DEF DriveExecutor, Types
  <2>3. entry[k] = "executor"
    BY DEF DriveExecutor
  <2>4. QED
    BY <2>1, <2>2, <2>3, NodeTypes DEF world
<1>2. decided[k] = <<>> /\ ToSet(decided[k]) = {}
  BY <1>1 DEF EffectInv, Warrants, ToSet
<1>3. Widens
  <2>1. \A j \in Executors : ToSet(decided[j]) \subseteq ToSet(decided'[j])
    BY <1>1, <1>2 DEF Executors
  <2>2. QED
    BY <1>1, <2>1, Widening
<1>4. Approved \subseteq Approved' /\ Concerned \subseteq Concerned' /\ Free \subseteq Free'
  BY <1>3, WidensFree DEF Widens
<1>5. Warrants(k)'
  BY <1>1, <1>4 DEF EffectInv, Warrants
<1>6. \A j \in Runs : Warrants(j)'
  BY <1>1, <1>3, <1>5, OthersWarrant
<1>7. World'
  BY <1>1, <1>3, StaysWorld DEF EffectInv
<1>8. QED
  BY <1>6, <1>7 DEF EffectInv

\* Undoing writes only what an executed action had warranted.
LEMMA UndoEffects ==
    ASSUME TypeInv, EffectInv, NEW k \in Runs, NEW i \in DOMAIN done[k], Undo(k, i)
    PROVE  EffectInv'
<1> USE DEF TypeInv
<1>1. /\ pc'[k] = "commit" /\ UNCHANGED <<linked, entry, out, decided, disabled, revoked>>
      /\ \A j \in Runs : j # k => pc'[j] = pc[j]
  <2>1. /\ Node(k, "ended", "commit") /\ "commit" \in States
        /\ UNCHANGED <<out, decided, disabled, revoked>>
    BY Zenon DEF Undo, States
  <2>2. QED
    BY <2>1, NodeTypes
<1>2. /\ done[k][i] \in ToSet(done[k]) /\ done[k][i].status = "executed"
      /\ denied' \subseteq denied
  BY UndoIs
<1>3. PICK os \in Seq(Outcomes) : done' = [done EXCEPT ![k] = os] /\ Retells(os, k)
  BY UndoIs, Zenon
<1>4. PICK p \in Pendings :
          /\ pending' = [pending EXCEPT ![k] = p]
          /\ p.revoked = pending[k].revoked
          /\ \/ p.disabled = {}
             \/ /\ p.disabled = {done[k][i].action.name}
                /\ done[k][i].action.type = "disable_user"
  BY UndoIs, Zenon
<1>5. /\ done'[k] = os /\ pending'[k] = p
      /\ \A j \in Runs : j # k => done'[j] = done[j] /\ pending'[j] = pending[j]
  BY <1>3, <1>4 DEF Types
<1>6. Widens
  BY <1>1, Widening
<1>7. Approved \subseteq Approved' /\ Concerned \subseteq Concerned' /\ Free \subseteq Free'
  BY <1>6, WidensFree DEF Widens
<1>8. p.disabled \subseteq Approved
  BY <1>2, <1>4 DEF EffectInv, Warrants
<1>9. Warrants(k)'
  <2>1. Warrants(k)
    BY DEF EffectInv
  <2>2. \A o \in ToSet(os) : o.status = "executed" /\ o.action.type = "disable_user" =>
            o.action.name \in Approved
    BY <1>3, <2>1 DEF Retells, Warrants
  <2>3. done[k] = <<>> => os = <<>>
    BY <1>3 DEF Retells
  <2>4. QED
    BY <1>1, <1>4, <1>5, <1>7, <1>8, <2>1, <2>2, <2>3 DEF Warrants
<1>10. \A j \in Runs : Warrants(j)'
  BY <1>1, <1>5, <1>6, <1>9, OthersWarrant
<1>11. World'
  BY <1>1, <1>2, <1>6, StaysWorld DEF EffectInv
<1>12. QED
  BY <1>10, <1>11 DEF EffectInv

\* Every step keeps the effects warranted.
LEMMA EffectsKept == TypeInv /\ EffectInv /\ [Next]_vars => EffectInv'
<1> SUFFICES ASSUME TypeInv, EffectInv, [Next]_vars PROVE EffectInv'
  OBVIOUS
<1>1. ASSUME NEW k \in Runs, RunStep(k) PROVE EffectInv'
  BY <1>1, NodeEffects, GateEffects, ExecuteEffects, CommitEffects DEF RunStep
<1>2. ASSUME NEW k \in Runs, CallerStep(k) PROVE EffectInv'
  BY <1>2, NodeEffects, CommitEffects, DriveEffects, UndoEffects DEF CallerStep
<1>3. QED
  BY <1>1, <1>2, SceneEffects, JoinEffects DEF Next

\* An investigation does nothing to anybody, the gate reaches only unprotected
\* entities of the incident and disables nobody, and everything else was
\* approved: for any plans, runs, callers, rollbacks and undone actions.
THEOREM EffectsAreWarranted == Spec => []OnlyWarrantedEffects
<1>1. EffectInv => OnlyWarrantedEffects
  <2> SUFFICES ASSUME EffectInv PROVE OnlyWarrantedEffects
    OBVIOUS
  <2>1. {key[1] : key \in denied} \cup revoked \subseteq Approved \cup (Concerned \ Protected)
    BY DEF EffectInv, World, Free
  <2>2. \A k \in Runs : entry[k] = "graph" => done[k] = <<>>
    BY DEF EffectInv, Warrants
  <2>3. disabled \subseteq Approved
    BY DEF EffectInv, World
  <2>4. QED
    BY <2>1, <2>2, <2>3, Zenon DEF OnlyWarrantedEffects, Approved, Executors, Concerned
<1>2. Spec => [](TypeInv /\ EffectInv)
  BY InitTypes, TypesKept, InitEffects, EffectsKept, PTL DEF Spec
<1>3. QED
  BY <1>1, <1>2, PTL

-----------------------------------------------------------------------------
(* What is left of the types: evidence is counted or attached, a result is   *)
(* stored with the end of its run, nothing is done that was not decided, and *)
(* what Redis and the database hold is about accounts and targets known.     *)

Keys == (Users \cup Ips) \X {"plain", "upper"}

\* What a run has done it had decided, its result is there when it has completed, and
\* what it is about to commit, or could still undo, is about accounts.
Accounted(k) ==
    /\ (pc[k] = "completed") <=> (saved[k] # NoResult)
    /\ entry[k] # "graph" /\ pc[k] \in {"absent", "gate"} => done[k] = <<>>
    /\ Len(done[k]) <= Len(decided[k])
    /\ \A o \in ToSet(done[k]) : o.status = "executed" /\ o.action.type = "disable_user" =>
           o.action.name \in Users
    /\ pending[k].revoked \cup pending[k].disabled \subseteq Users

Attaching == counted \subseteq Evidence \ ToSet(attached)
Answering == \A q \in Requests : (rpc[q] = "answered") <=> (answer[q] # NoRun)
Known == disabled \cup revoked \subseteq Users /\ denied \subseteq Keys

LimitInv == Attaching /\ Answering /\ Known /\ \A k \in Runs : Accounted(k)

\* At the start there is nothing to account for.
LEMMA InitLimits == Init => LimitInv
<1> SUFFICES ASSUME Init PROVE LimitInv
  OBVIOUS
<1>1. \A k \in Runs : ToSet(done[k]) = {} /\ Len(done[k]) = 0 /\ Len(decided[k]) = 0
  BY DEF Init, ToSet
<1>2. \A k \in Runs : Accounted(k)
  BY <1>1 DEF Init, Accounted, NothingPending
<1>3. Attaching /\ Answering /\ Known
  BY DEF Init, Attaching, Answering, Known, ToSet
<1>4. QED
  BY <1>2, <1>3 DEF LimitInv

\* A run that a step leaves alone stays accounted for.
LEMMA StaysAccounted ==
    ASSUME NEW k \in Runs, Accounted(k),
           pc'[k] = pc[k], saved'[k] = saved[k], entry'[k] = entry[k], done'[k] = done[k],
           decided'[k] = decided[k], pending'[k] = pending[k]
    PROVE  Accounted(k)'
  BY DEF Accounted

\* A step of one run.
LEMMA OthersAccounted ==
    ASSUME LimitInv, NEW k \in Runs, Accounted(k)', Known',
           UNCHANGED <<entry, counted, attached, rpc, answer>>,
           \A j \in Runs : j # k =>
               /\ pc'[j] = pc[j] /\ saved'[j] = saved[j] /\ decided'[j] = decided[j]
               /\ done'[j] = done[j] /\ pending'[j] = pending[j]
    PROVE  LimitInv'
<1>1. \A j \in Runs : Accounted(j)'
  BY StaysAccounted DEF LimitInv
<1>2. Attaching' /\ Answering'
  BY DEF LimitInv, Attaching, Answering
<1>3. QED
  BY <1>1, <1>2 DEF LimitInv

\* A step of one run that decides nothing, and does nothing to anybody.
LEMMA QuietLimits ==
    ASSUME LimitInv, NEW k \in Runs,
           UNCHANGED <<entry, counted, attached, rpc, answer, decided, saved,
                       disabled, revoked, denied>>,
           pc[k] # "completed", pc'[k] \notin {"completed", "absent"},
           pc'[k] = "gate" => pc[k] \in {"absent", "gate"} \/ entry[k] = "graph",
           done'[k] = done[k] \/ Retells(done'[k], k),
           pending'[k] = pending[k] \/ pending'[k] = NothingPending,
           \A j \in Runs : j # k => /\ pc'[j] = pc[j] /\ done'[j] = done[j]
                                    /\ pending'[j] = pending[j]
    PROVE  LimitInv'
<1>1. Accounted(k)
  BY DEF LimitInv
<1>2. pending'[k].revoked \cup pending'[k].disabled \subseteq Users
  BY <1>1 DEF Accounted, NothingPending
<1>3. /\ Len(done'[k]) = Len(done[k]) /\ (done[k] = <<>> => done'[k] = <<>>)
      /\ \A o \in ToSet(done'[k]) : o.status = "executed" =>
            \E b \in ToSet(done[k]) : b.action = o.action /\ b.status = "executed"
  BY DEF Retells
<1>4. Accounted(k)'
  BY <1>1, <1>2, <1>3 DEF Accounted
<1>5. Known'
  BY DEF LimitInv, Known
<1>6. QED
  BY <1>4, <1>5, OthersAccounted

\* Evidence is attached once, after it was counted; blocks expire.
LEMMA SceneLimits ==
    ASSUME TypeInv, LimitInv,
           \/ \E a \in Alerts : LinkAlert(a)
           \/ \E e \in Evidence : CountEvidence(e) \/ AttachEvidence(e)
           \/ \E key \in denied : Expire(key)
           \/ UNCHANGED vars
    PROVE  LimitInv'
<1>1. UNCHANGED <<requests, pc, entry, local, saved, disabled, revoked, pending>>
      /\ denied' \subseteq denied
  BY DEF LinkAlert, CountEvidence, AttachEvidence, Expire, vars, world
<1>2. \A k \in Runs : Accounted(k)'
  BY <1>1, StaysAccounted DEF LimitInv, local
<1>3. Answering' /\ Known'
  BY <1>1 DEF LimitInv, Answering, Known, requests
<1>4. Attaching'
  <2>1. CASE UNCHANGED <<attached, counted>>
    BY <2>1 DEF LimitInv, Attaching
  <2>2. ASSUME NEW e \in Evidence, CountEvidence(e) PROVE Attaching'
    BY <2>2 DEF CountEvidence, LimitInv, Attaching
  <2>3. ASSUME NEW e \in Evidence, AttachEvidence(e) PROVE Attaching'
    <3>1. counted' = counted \ {e} /\ ToSet(attached') \subseteq ToSet(attached) \cup {e}
      BY <2>3, InsertIs DEF AttachEvidence, TypeInv, Types
    <3>2. QED
      BY <3>1 DEF LimitInv, Attaching
  <2>4. QED
    BY <2>1, <2>2, <2>3 DEF LinkAlert, Expire, vars, incident
<1>5. QED
  BY <1>2, <1>3, <1>4 DEF LimitInv

\* A request is answered by a run, and starts only one that has no result.
LEMMA RequestLimits ==
    ASSUME TypeInv, LimitInv, NEW q \in Requests, ReadIncident(q) \/ HashEvidence(q) \/ Join(q)
    PROVE  LimitInv'
<1>1. UNCHANGED <<attached, counted, entry, decided, done, saved, pending, denied, disabled, revoked>>
  BY DEF ReadIncident, HashEvidence, Join, incident, local, world
<1>2. Attaching' /\ Known'
  BY <1>1 DEF LimitInv, Attaching, Known
<1>3. Answering'
  <2>1. CASE ReadIncident(q) \/ HashEvidence(q)
    BY <2>1 DEF ReadIncident, HashEvidence, LimitInv, Answering, TypeInv, Types
  <2>2. CASE Join(q)
    <3>1. rpc' = [rpc EXCEPT ![q] = "answered"]
      BY <2>2 DEF Join
    <3>2. PICK k \in Runs : answer' = [answer EXCEPT ![q] = k]
      BY <2>2 DEF Join
    <3>3. QED
      BY <3>1, <3>2, AnswersAssumption DEF LimitInv, Answering, TypeInv, Types
  <2>3. QED
    BY <2>1, <2>2
<1>4. \A k \in Runs : Accounted(k)'
  <2>1. CASE UNCHANGED pc
    BY <1>1, <2>1, StaysAccounted DEF LimitInv
  <2>2. ASSUME NEW k \in Runs, entry[k] = "graph", pc[k] \in {"failed", "absent"},
               pc' = [pc EXCEPT ![k] = "queued"]
        PROVE  \A j \in Runs : Accounted(j)'
    <3>1. Accounted(k)'
      BY <1>1, <2>2 DEF LimitInv, Accounted, TypeInv, Types
    <3>2. ASSUME NEW j \in Runs, j # k PROVE Accounted(j)'
      BY <1>1, <2>2, <3>2, StaysAccounted DEF LimitInv, TypeInv, Types
    <3>3. QED
      BY <3>1, <3>2
  <2>3. \/ UNCHANGED pc
        \/ \E k \in Runs : /\ entry[k] = "graph" /\ pc[k] \in {"failed", "absent"}
                           /\ pc' = [pc EXCEPT ![k] = "queued"]
    BY DEF ReadIncident, HashEvidence, Join
  <2>4. QED
    BY <2>1, <2>2, <2>3
<1>5. QED
  BY <1>2, <1>3, <1>4 DEF LimitInv

\* The nodes that only read, ask, check and verify.
LEMMA NodeLimits ==
    ASSUME TypeInv, LimitInv, NEW k \in Runs,
           \/ Claim(k) \/ LoadAlerts(k) \/ LoadEvidence(k) \/ EvidenceAnalysis(k)
           \/ RiskAnalysis(k) \/ Narrative(k) \/ Recommend(k) \/ NoProvider(k)
           \/ ProviderFails(k) \/ Validate(k) \/ AllExecuted(k) \/ VerifyActions(k)
           \/ PersistFails(k) \/ RollBack(k) \/ DriveNodes(k)
    PROVE  LimitInv'
<1> USE DEF TypeInv
<1>1. ASSUME NEW from \in States \ {"completed"}, NEW to \in States \ {"absent", "completed"},
             Node(k, from, to), to = "gate" => from \in {"absent", "validate"},
             UNCHANGED <<decided, saved, disabled, revoked, denied>>,
             done'[k] = done[k] \/ Retells(done'[k], k),
             pending'[k] = pending[k] \/ pending'[k] = NothingPending,
             \A j \in Runs : j # k => done'[j] = done[j] /\ pending'[j] = pending[j]
      PROVE  LimitInv'
  <2>1. /\ pc[k] = from /\ pc'[k] = to
        /\ UNCHANGED <<attached, counted, rpc, answer, entry>>
        /\ \A j \in Runs : j # k => pc'[j] = pc[j]
    BY <1>1, NodeTypes
  <2>2. pc[k] = "validate" => entry[k] = "graph"
    BY DEF Placed, Types, DrivenStates
  <2>3. QED
    BY <1>1, <2>1, <2>2, QuietLimits
<1>2. /\ {"absent", "queued", "load", "evidence", "risk", "narrative", "recommend", "validate",
          "gate", "execute", "verify", "persist", "commit", "ended"} \subseteq States
  BY DEF States, Nodes
<1>3. ASSUME Abort(k), pc[k] # "completed" PROVE LimitInv'
  <2>1. /\ UNCHANGED <<entry, counted, attached, rpc, answer, decided, done, saved, disabled,
                       revoked, denied>>
        /\ pc'[k] = "failed" /\ pending'[k] = NothingPending
        /\ \A j \in Runs : j # k => pc'[j] = pc[j] /\ pending'[j] = pending[j]
    BY <1>3 DEF Abort, Types, incident, requests
  <2>2. QED
    BY <1>3, <2>1, QuietLimits
<1>4. ASSUME NEW from \in States \ {"completed"}, NEW to \in States \ {"absent", "completed"},
             Node(k, from, to), to = "gate" => from \in {"absent", "validate"},
             UNCHANGED <<decided, done, saved, world>>
      PROVE  LimitInv'
  BY <1>1, <1>4 DEF world
<1>5. CASE Claim(k) \/ AllExecuted(k)
  BY <1>2, <1>4, <1>5 DEF Claim, AllExecuted, local
<1>6. CASE LoadAlerts(k)
  BY <1>6, QuietLimits DEF LoadAlerts, incident, requests, world
<1>7. CASE LoadEvidence(k)
  <2>1. \/ Node(k, "load", "evidence") /\ UNCHANGED <<decided, done, saved, world>>
        \/ pc[k] = "load" /\ Abort(k)
    BY <1>7, Zenon DEF LoadEvidence
  <2>2. QED
    BY <1>2, <1>3, <1>4, <2>1
<1>8. CASE EvidenceAnalysis(k) \/ RiskAnalysis(k) \/ Narrative(k) \/ Recommend(k)
  <2>1. /\ UNCHANGED <<decided, done, saved, world>>
        /\ \/ Node(k, "evidence", "risk") \/ Node(k, "risk", "narrative")
           \/ Node(k, "narrative", "recommend") \/ Node(k, "recommend", "validate")
    BY <1>8, Zenon DEF EvidenceAnalysis, RiskAnalysis, Narrative, Recommend
  <2>2. QED
    BY <1>2, <1>4, <2>1
<1>9. CASE NoProvider(k) \/ ProviderFails(k) \/ PersistFails(k)
  BY <1>3, <1>9 DEF NoProvider, ProviderFails, PersistFails
<1>10. CASE Validate(k)
  <2>1. \/ Node(k, "validate", "gate") /\ UNCHANGED <<decided, done, saved, world>>
        \/ pc[k] = "validate" /\ Abort(k)
    BY <1>10, Zenon DEF Validate, local
  <2>2. QED
    BY <1>2, <1>3, <1>4, <2>1
<1>11. CASE VerifyActions(k)
  <2>1. /\ Node(k, "verify", IF entry[k] = "graph" THEN "persist" ELSE "commit")
        /\ UNCHANGED <<decided, saved, world>>
    BY <1>11, Zenon DEF VerifyActions
  <2>2. PICK os \in Seq(Outcomes) : done' = [done EXCEPT ![k] = os] /\ Retells(os, k)
    BY <1>11, VerifyIs
  <2>3. Retells(done'[k], k) /\ \A j \in Runs : j # k => done'[j] = done[j]
    BY <2>2 DEF Types
  <2>4. QED
    BY <1>1, <1>2, <2>1, <2>3 DEF world
<1>12. CASE RollBack(k)
  BY <1>1, <1>2, <1>12 DEF RollBack, local, Types
<1>13. CASE DriveNodes(k)
  BY <1>2, <1>4, <1>13 DEF DriveNodes
<1>14. QED
  BY <1>5, <1>6, <1>7, <1>8, <1>9, <1>10, <1>11, <1>12, <1>13

\* Whoever decides has done nothing yet.
LEMMA DecideLimits ==
    ASSUME TypeInv, LimitInv, EffectInv, NEW k \in Runs, PolicyGate(k) \/ DriveExecutor(k)
    PROVE  LimitInv'
<1> USE DEF TypeInv
<1>1. PICK from \in {"gate", "absent"} :
          Node(k, from, "execute") /\ UNCHANGED <<done, saved, world>>
  BY Zenon DEF PolicyGate, DriveExecutor
<1>2. /\ pc[k] = from /\ pc'[k] = "execute"
      /\ UNCHANGED <<attached, counted, rpc, answer, entry>>
      /\ \A j \in Runs : j # k => pc'[j] = pc[j]
  <2>1. "execute" \in States
    BY DEF States, Nodes
  <2>2. QED
    BY <1>1, <2>1, NodeTypes
<1>3. decided'[k] \in Seq(Decisions) /\ \A j \in Runs : j # k => decided'[j] = decided[j]
  <2>1. \A j \in Runs : j # k => decided'[j] = decided[j]
    BY DEF PolicyGate, DriveExecutor, Types
  <2>2. RunStep(k) \/ CallerStep(k)
    BY DEF RunStep, CallerStep
  <2>3. Types'
    BY <2>2, TypesKept DEF Next
  <2>4. QED
    BY <2>1, <2>3 DEF Types
<1>4. done[k] = <<>>
  BY <1>2 DEF LimitInv, Accounted, EffectInv, Warrants
<1>5. Len(done[k]) = 0 /\ Len(decided'[k]) \in Nat
  BY <1>3, <1>4, LenProperties
<1>6. Accounted(k)'
  BY <1>1, <1>2, <1>5 DEF LimitInv, Accounted, world
<1>7. Known'
  BY <1>1 DEF LimitInv, Known, world
<1>8. QED
  BY <1>1, <1>2, <1>3, <1>6, <1>7, OthersAccounted DEF world

\* The executor carries out a decision, on an account it found or a target it was given.
LEMMA ExecuteLimits ==
    ASSUME TypeInv, LimitInv, NEW k \in Runs, Execute(k)
    PROVE  LimitInv'
<1> USE DEF TypeInv
<1>1. /\ pc[k] = "execute"
      /\ UNCHANGED <<incident, requests, pc, entry, decided, saved, disabled, revoked>>
  BY Zenon DEF Execute
<1>2. PICK d \in ToSet(decided[k]), o \in Outcomes, p \in Pendings :
          /\ done' = [done EXCEPT ![k] = Append(@, o)]
          /\ o.action = d.action /\ (o.status = "executed" => d.verdict = Cleared)
          /\ pending' = [pending EXCEPT ![k] = p]
          /\ p.revoked \subseteq pending[k].revoked \cup {d.action.name}
          /\ p.revoked = pending[k].revoked \/ d.verdict = Cleared
          /\ p.disabled \subseteq pending[k].disabled \cup {d.action.name}
          /\ \/ p.disabled = pending[k].disabled
             \/ d.verdict = Cleared /\ d.action.type = "disable_user"
          /\ denied' \subseteq denied \cup {Key(d.action)}
          /\ denied' = denied \/ d.verdict = Cleared
          /\ Len(done[k]) + 1 <= Len(decided[k])
          /\ o.status = "executed" /\ o.action.type # "block_ip" => o.action.name \in Users
          /\ p.revoked \cup p.disabled
                 \subseteq pending[k].revoked \cup pending[k].disabled \cup Users
  BY ExecuteIs, Zenon
<1>3. /\ pending'[k] = p /\ ToSet(done'[k]) = ToSet(done[k]) \cup {o}
      /\ Len(done'[k]) = Len(done[k]) + 1
      /\ \A j \in Runs : j # k => done'[j] = done[j] /\ pending'[j] = pending[j]
  <2>1. ToSet(Append(done[k], o)) = ToSet(done[k]) \cup {o}
    BY AppendIs DEF Types
  <2>2. Len(Append(done[k], o)) = Len(done[k]) + 1
    BY AppendProperties DEF Types
  <2>3. QED
    BY <1>2, <2>1, <2>2 DEF Types
<1>4. Accounted(k)
  BY DEF LimitInv
<1>5. \A x \in ToSet(done'[k]) : x.status = "executed" /\ x.action.type = "disable_user" =>
          x.action.name \in Users
  BY <1>2, <1>3, <1>4 DEF Accounted
<1>6. p.revoked \cup p.disabled \subseteq Users
  BY <1>2, <1>4 DEF Accounted
<1>7. Accounted(k)'
  BY <1>1, <1>2, <1>3, <1>4, <1>5, <1>6 DEF Accounted
<1>8. Key(d.action) \in Keys
  <2>1. ToSet(decided[k]) \subseteq Decisions
    BY EntriesAre DEF Types
  <2>2. d.action \in Actions
    BY <2>1 DEF Decisions
  <2>3. QED
    BY <2>2, PlansAssumption DEF Key, Keys
<1>9. Known'
  BY <1>1, <1>2, <1>8 DEF LimitInv, Known
<1>10. QED
  BY <1>1, <1>3, <1>7, <1>9, OthersAccounted DEF incident, requests

\* A commit writes what was about accounts; an investigation that completes has its result.
LEMMA CommitLimits ==
    ASSUME TypeInv, LimitInv, NEW k \in Runs, Persist(k) \/ Commit(k)
    PROVE  LimitInv'
<1> USE DEF TypeInv
<1>1. /\ CommitPending(k) /\ UNCHANGED <<decided, done>>
      /\ \/ /\ Node(k, "persist", "completed")
            /\ saved' = [saved EXCEPT ![k] = [cited |-> out[k].cited, top |-> out[k].top]]
         \/ Node(k, "commit", "ended") /\ UNCHANGED saved
  BY Zenon DEF Persist, Commit, local
<1>2. /\ UNCHANGED <<attached, counted, rpc, answer, entry>>
      /\ \A j \in Runs : j # k => pc'[j] = pc[j]
      /\ \/ /\ pc[k] = "persist" /\ pc'[k] = "completed"
            /\ saved' = [saved EXCEPT ![k] = [cited |-> out[k].cited, top |-> out[k].top]]
         \/ pc[k] = "commit" /\ pc'[k] = "ended" /\ UNCHANGED saved
  <2>1. "completed" \in States /\ "ended" \in States
    BY DEF States
  <2>2. QED
    BY <1>1, <2>1, NodeTypes
<1>3. /\ pending'[k] = NothingPending /\ \A j \in Runs : j # k => pending'[j] = pending[j]
      /\ disabled' \subseteq disabled \cup pending[k].disabled
      /\ revoked' = revoked \cup pending[k].revoked
      /\ denied' = denied
  BY <1>1 DEF CommitPending, Types
<1>4. [cited |-> out[k].cited, top |-> out[k].top] # NoResult
  <2>1. [cited |-> out[k].cited, top |-> out[k].top] \in [cited : SUBSET Refs, top : Int]
    BY DEF Types, Outputs
  <2>2. QED
    BY <2>1, AnswersAssumption
<1>5. /\ (pc'[k] = "completed") <=> (saved'[k] # NoResult)
      /\ \A j \in Runs : j # k => saved'[j] = saved[j]
  <2>1. /\ (pc[k] = "completed") <=> (saved[k] # NoResult)
        /\ DOMAIN saved = Runs
    BY DEF LimitInv, Accounted, Types
  <2>2. CASE pc'[k] = "completed"
    <3> DEFINE r == [cited |-> out[k].cited, top |-> out[k].top]
    <3>1. saved' = [saved EXCEPT ![k] = r]
      BY <1>2, <2>2
    <3> HIDE DEF r
    <3>2. saved'[k] = r /\ \A j \in Runs : j # k => saved'[j] = saved[j]
      BY <2>1, <3>1
    <3>3. r # NoResult
      BY <1>4 DEF r
    <3>4. QED
      BY <2>2, <3>2, <3>3
  <2>3. CASE pc'[k] = "ended"
    BY <1>2, <2>1, <2>3
  <2>4. QED
    BY <1>2, <2>2, <2>3
<1>6. Accounted(k)'
  BY <1>1, <1>2, <1>3, <1>5 DEF LimitInv, Accounted, NothingPending
<1>7. Known'
  BY <1>3 DEF LimitInv, Accounted, Known
<1>8. QED
  BY <1>1, <1>2, <1>3, <1>5, <1>6, <1>7, OthersAccounted

\* Undoing writes the account it had disabled.
LEMMA UndoLimits ==
    ASSUME TypeInv, LimitInv, NEW k \in Runs, NEW i \in DOMAIN done[k], Undo(k, i)
    PROVE  LimitInv'
<1> USE DEF TypeInv
<1>1. /\ pc[k] = "ended" /\ pc'[k] = "commit"
      /\ UNCHANGED <<attached, counted, rpc, answer, entry, decided, saved, disabled, revoked>>
      /\ \A j \in Runs : j # k => pc'[j] = pc[j]
  <2>1. /\ Node(k, "ended", "commit") /\ "commit" \in States
        /\ UNCHANGED <<decided, saved, disabled, revoked>>
    BY Zenon DEF Undo, States
  <2>2. QED
    BY <2>1, NodeTypes
<1>2. /\ done[k][i] \in ToSet(done[k]) /\ done[k][i].status = "executed"
      /\ denied' \subseteq denied
  BY UndoIs
<1>3. PICK os \in Seq(Outcomes) : done' = [done EXCEPT ![k] = os] /\ Retells(os, k)
  BY UndoIs, Zenon
<1>4. PICK p \in Pendings :
          /\ pending' = [pending EXCEPT ![k] = p]
          /\ p.revoked = pending[k].revoked
          /\ \/ p.disabled = {}
             \/ /\ p.disabled = {done[k][i].action.name}
                /\ done[k][i].action.type = "disable_user"
  BY UndoIs, Zenon
<1>5. /\ done'[k] = os /\ pending'[k] = p
      /\ \A j \in Runs : j # k => done'[j] = done[j] /\ pending'[j] = pending[j]
  BY <1>3, <1>4 DEF Types
<1>6. Accounted(k)
  BY DEF LimitInv
<1>7. p.revoked \cup p.disabled \subseteq Users
  BY <1>2, <1>4, <1>6 DEF Accounted
<1>8. /\ Len(os) = Len(done[k])
      /\ \A o \in ToSet(os) : o.status = "executed" /\ o.action.type = "disable_user" =>
            o.action.name \in Users
  BY <1>3, <1>6 DEF Retells, Accounted
<1>9. Accounted(k)'
  BY <1>1, <1>5, <1>6, <1>7, <1>8 DEF Accounted
<1>10. Known'
  BY <1>1, <1>2 DEF LimitInv, Known
<1>11. QED
  BY <1>1, <1>5, <1>9, <1>10, OthersAccounted

\* Every step keeps the accounts.
LEMMA LimitsKept == TypeInv /\ EffectInv /\ LimitInv /\ [Next]_vars => LimitInv'
<1> SUFFICES ASSUME TypeInv, EffectInv, LimitInv, [Next]_vars PROVE LimitInv'
  OBVIOUS
<1>1. ASSUME NEW k \in Runs, RunStep(k) PROVE LimitInv'
  BY <1>1, NodeLimits, DecideLimits, ExecuteLimits, CommitLimits DEF RunStep
<1>2. ASSUME NEW k \in Runs, CallerStep(k) PROVE LimitInv'
  BY <1>2, NodeLimits, DecideLimits, CommitLimits, UndoLimits DEF CallerStep
<1>3. QED
  BY <1>1, <1>2, SceneLimits, RequestLimits DEF Next

\* The variables keep their types: whoever is answered has a run, a run is completed
\* exactly when its result is stored, a run past its first node has a context, nothing
\* is done that was not decided, and Redis and the accounts hold only what is known.
THEOREM RunTypes == Spec => []TypeOK
<1>1. TypeInv /\ LimitInv => TypeOK
  <2> SUFFICES ASSUME TypeInv, LimitInv PROVE TypeOK
    OBVIOUS
  <2>1. /\ ToSet(linked) \subseteq Alerts /\ ToSet(attached) \subseteq Evidence
        /\ counted \subseteq Evidence \ ToSet(attached)
    BY EntriesAre DEF TypeInv, Types, LimitInv, Attaching
  <2>2. ASSUME NEW q \in Requests
        PROVE  /\ rpc[q] \in {"idle", "hashing", "hashed", "answered"}
               /\ (rpc[q] = "answered") <=> (answer[q] # NoRun)
               /\ asked[q].alerts \cup seen[q].alerts \subseteq Alerts
               /\ asked[q].evidence \cup seen[q].evidence \subseteq Evidence
    BY DEF TypeInv, Types, LimitInv, Answering, Contents
  <2>3. ASSUME NEW k \in Runs
        PROVE  /\ pc[k] \in Nodes \cup {"absent", "queued", "completed", "failed", "commit", "ended"}
               /\ entry[k] \in {"graph", "nodes", "executor"}
               /\ (pc[k] = "completed") <=> (saved[k] # NoResult)
               /\ pc[k] \in Nodes \ {"load"} /\ entry[k] # "executor" => ctx[k] # NoContext
               /\ Len(done[k]) <= Len(decided[k])
    BY DEF TypeInv, Types, States, Placed, LimitInv, Accounted
  <2>4. disabled \cup revoked \subseteq Users /\ denied \subseteq (Users \cup Ips) \X {"plain", "upper"}
    BY DEF LimitInv, Known, Keys
  <2>5. QED
    BY <2>1, <2>2, <2>3, <2>4 DEF TypeOK
<1>2. Spec => [](TypeInv /\ EffectInv /\ LimitInv)
  BY InitTypes, TypesKept, InitEffects, EffectsKept, InitLimits, LimitsKept, PTL DEF Spec
<1>3. QED
  BY <1>1, <1>2, PTL

-----------------------------------------------------------------------------
(* A run is the life of a job.                                              *)

\* Where nothing moves, a client sees nothing move.
LEMMA RowsRest == UNCHANGED <<pc, entry>> => UNCHANGED RowStatus
  BY DEF RowStatus

\* A run goes to a state: its row shows it, the other rows stay as they are.
LEMMA RowMoves ==
    ASSUME Types, NEW k \in Runs, NEW to, pc' = [pc EXCEPT ![k] = to], UNCHANGED entry
    PROVE  /\ entry[k] # "graph" => UNCHANGED RowStatus
           /\ entry[k] = "graph" =>
                 /\ RowStatus[k] = IF pc[k] \in Nodes THEN "running" ELSE pc[k]
                 /\ RowStatus' = [RowStatus EXCEPT ![k] =
                                     IF to \in Nodes THEN "running" ELSE to]
<1>1. pc \in [Runs -> States]
  BY DEF Types
<1>2. pc'[k] = to /\ \A j \in Runs \ {k} : pc'[j] = pc[j]
  BY <1>1
<1>0. /\ DOMAIN RowStatus = Runs /\ RowStatus = [j \in Runs |-> RowStatus[j]]
      /\ DOMAIN RowStatus' = Runs /\ RowStatus' = [j \in Runs |-> RowStatus'[j]]
  BY DEF RowStatus
<1>3. \A j \in Runs \ {k} : RowStatus'[j] = RowStatus[j]
  BY <1>2 DEF RowStatus
<1>4. CASE entry[k] # "graph"
  <2>1. RowStatus'[k] = RowStatus[k]
    BY <1>4 DEF RowStatus
  <2>2. \A j \in Runs : RowStatus'[j] = RowStatus[j]
    BY <1>3, <2>1
  <2>3. QED
    BY <1>0, <1>4, <2>2
<1>5. CASE entry[k] = "graph"
  <2> DEFINE shown == IF to \in Nodes THEN "running" ELSE to
  <2>1. RowStatus'[k] = shown
    BY <1>2, <1>5 DEF RowStatus
  <2>2. RowStatus[k] = IF pc[k] \in Nodes THEN "running" ELSE pc[k]
    BY <1>5 DEF RowStatus
  <2> HIDE DEF shown
  <2>3. RowStatus' = [RowStatus EXCEPT ![k] = shown]
    BY <1>0, <1>3, <2>1
  <2>4. QED
    BY <1>5, <2>2, <2>3 DEF shown
<1>6. QED
  BY <1>4, <1>5

\* A run that goes from node to node stays "running".
LEMMA RowRuns ==
    ASSUME Types, NEW k \in Runs, NEW from, NEW to, Node(k, from, to),
           entry[k] # "graph" \/ (from \in Nodes /\ to \in Nodes)
    PROVE  UNCHANGED RowStatus
<1>1. pc[k] = from /\ pc' = [pc EXCEPT ![k] = to] /\ UNCHANGED entry
  BY DEF Node
<1>2. CASE entry[k] # "graph"
  BY <1>1, <1>2, RowMoves
<1>3. CASE entry[k] = "graph" /\ from \in Nodes /\ to \in Nodes
  <2>1. RowStatus[k] = "running" /\ RowStatus' = [RowStatus EXCEPT ![k] = "running"]
    BY <1>1, <1>3, RowMoves
  <2>2. DOMAIN RowStatus = Runs /\ RowStatus = [j \in Runs |-> RowStatus[j]]
    BY DEF RowStatus
  <2>3. QED
    BY <2>1, <2>2
<1>4. QED
  BY <1>2, <1>3

\* What a run's row may do is a move of the lifecycle.
LEMMA RowMove ==
    ASSUME Types, NEW k \in Runs, NEW to, pc' = [pc EXCEPT ![k] = to], UNCHANGED entry,
           \/ pc[k] \in {"absent", "failed"} /\ to = "queued"
           \/ pc[k] = "queued" /\ to = "load"
           \/ pc[k] \in Nodes /\ to \in {"completed", "failed"}
    PROVE  [Lifecycle!Next]_(Lifecycle!vars)
<1>0. /\ {"load"} \subseteq Nodes
      /\ {"absent", "queued", "completed", "failed"} \cap Nodes = {}
  BY DEF Nodes
<1>1. CASE entry[k] # "graph"
  <2>1. UNCHANGED RowStatus
    BY <1>1, RowMoves
  <2>2. QED
    BY <2>1 DEF Lifecycle!vars
<1>2. CASE entry[k] = "graph"
  <2>1. /\ RowStatus[k] = IF pc[k] \in Nodes THEN "running" ELSE pc[k]
        /\ RowStatus' = [RowStatus EXCEPT ![k] = IF to \in Nodes THEN "running" ELSE to]
    BY <1>2, RowMoves
  <2>2. CASE pc[k] \in {"absent", "failed"} /\ to = "queued"
    <3>1. RowStatus[k] \in {"absent", "failed"} /\ RowStatus' = [RowStatus EXCEPT ![k] = "queued"]
      BY <1>0, <2>1, <2>2
    <3>2. Lifecycle!Request(k)
      BY <3>1 DEF Lifecycle!Request, Lifecycle!Move
    <3>3. QED
      BY <3>2 DEF Lifecycle!Next
  <2>3. CASE pc[k] = "queued" /\ to = "load"
    <3>1. RowStatus[k] = "queued" /\ RowStatus' = [RowStatus EXCEPT ![k] = "running"]
      BY <1>0, <2>1, <2>3
    <3>2. Lifecycle!Claim(k)
      BY <3>1 DEF Lifecycle!Claim, Lifecycle!Move
    <3>3. QED
      BY <3>2 DEF Lifecycle!Next
  <2>4. CASE pc[k] \in Nodes /\ to \in {"completed", "failed"}
    <3>1. RowStatus[k] = "running" /\ RowStatus' = [RowStatus EXCEPT ![k] = to]
      BY <1>0, <2>1, <2>4
    <3>2. Lifecycle!Complete(k) \/ Lifecycle!Fail(k)
      BY <2>4, <3>1 DEF Lifecycle!Complete, Lifecycle!Fail, Lifecycle!Move
    <3>3. QED
      BY <3>2 DEF Lifecycle!Next
  <2>5. QED
    BY <2>2, <2>3, <2>4
<1>3. QED
  BY <1>1, <1>2

\* A step of a run is a move of its row, or none.
LEMMA RunLives ==
    ASSUME TypeInv, NEW k \in Runs, RunStep(k) \/ CallerStep(k)
    PROVE  [Lifecycle!Next]_(Lifecycle!vars)
<1>1. ASSUME UNCHANGED RowStatus PROVE [Lifecycle!Next]_(Lifecycle!vars)
  BY <1>1 DEF Lifecycle!vars
<1>2. Types /\ Placed(k)
  BY DEF TypeInv
<1>3. ASSUME Abort(k), pc[k] \in Nodes PROVE [Lifecycle!Next]_(Lifecycle!vars)
  <2>1. pc' = [pc EXCEPT ![k] = "failed"] /\ UNCHANGED entry
    BY <1>3 DEF Abort
  <2>2. QED
    BY <1>2, <1>3, <2>1, RowMove
<1>4. CASE Claim(k)
  <2>1. pc[k] = "queued" /\ pc' = [pc EXCEPT ![k] = "load"] /\ UNCHANGED entry
    BY <1>4 DEF Claim, Node
  <2>2. QED
    BY <1>2, <2>1, RowMove
<1>5. CASE LoadAlerts(k) \/ Execute(k)
  <2>1. UNCHANGED <<pc, entry>>
    BY <1>5, Zenon DEF LoadAlerts, Execute
  <2>2. QED
    BY <1>1, <2>1, RowsRest
<1>6. CASE NoProvider(k) \/ ProviderFails(k) \/ PersistFails(k)
  <2>1. Abort(k) /\ pc[k] \in Nodes
    BY <1>6 DEF NoProvider, ProviderFails, PersistFails, Nodes
  <2>2. QED
    BY <1>3, <2>1
<1>7. CASE LoadEvidence(k) \/ Validate(k)
  <2>1. pc[k] \in Nodes /\ (Abort(k) \/ Node(k, "load", "evidence") \/ Node(k, "validate", "gate"))
    BY <1>7 DEF LoadEvidence, Validate, Nodes
  <2>2. QED
    BY <1>1, <1>2, <1>3, <2>1, RowRuns DEF Nodes
<1>8. CASE \/ EvidenceAnalysis(k) \/ RiskAnalysis(k) \/ Narrative(k) \/ Recommend(k)
           \/ PolicyGate(k)
  <2>1. \E from, to \in Nodes : Node(k, from, to)
    BY <1>8, Zenon DEF EvidenceAnalysis, RiskAnalysis, Narrative, Recommend, PolicyGate, Nodes
  <2>2. QED
    BY <1>1, <1>2, <2>1, RowRuns
<1>9. CASE AllExecuted(k) \/ VerifyActions(k)
  <2>1. PICK from \in {"execute", "verify"}, to \in {"verify", "persist", "commit"} :
            /\ Node(k, from, to)
            /\ entry[k] = "graph" => to # "commit"
    BY <1>9 DEF AllExecuted, VerifyActions
  <2>2. entry[k] # "graph" \/ (from \in Nodes /\ to \in Nodes)
    BY <2>1 DEF Nodes
  <2>3. QED
    BY <1>1, <1>2, <2>1, <2>2, RowRuns
<1>10. CASE Persist(k)
  <2>1. pc[k] \in Nodes /\ pc' = [pc EXCEPT ![k] = "completed"] /\ UNCHANGED entry
    BY <1>10 DEF Persist, Node, Nodes
  <2>2. QED
    BY <1>2, <2>1, RowMove
<1>11. CASE CallerStep(k)
  <2>1. PICK from, to : Node(k, from, to) /\ (from \in {"commit", "ended"} \/ entry[k] # "graph")
    <3>1. CASE DriveNodes(k) \/ DriveExecutor(k)
      BY <3>1, Zenon DEF DriveNodes, DriveExecutor
    <3>2. CASE Commit(k) \/ RollBack(k)
      BY <3>2 DEF Commit, RollBack
    <3>3. CASE \E i \in DOMAIN done[k] : Undo(k, i)
      BY <3>3, Zenon DEF Undo
    <3>4. QED
      BY <1>11, <3>1, <3>2, <3>3 DEF CallerStep
  <2>2. pc[k] = from
    BY <2>1 DEF Node
  <2>3. entry[k] # "graph"
    BY <1>2, <2>1, <2>2 DEF Placed
  <2>4. QED
    BY <1>1, <1>2, <2>1, <2>3, RowRuns
<1>12. QED
  BY <1>4, <1>5, <1>6, <1>7, <1>8, <1>9, <1>10, <1>11 DEF RunStep

\* A client that polls an investigation reads the life of a job, whatever the graph
\* computes meanwhile and however it ends (run_investigation, Worker.process_job): the
\* runs of this module implement what the jobs of InvestigationJobs implement.
THEOREM RunsLiveAsJobs == Spec => LifecycleSpec
<1>1. Init => Lifecycle!Init
  <2> SUFFICES ASSUME Init PROVE RowStatus = [k \in Runs |-> "absent"]
    BY DEF Lifecycle!Init
  <2>1. \A k \in Runs : pc[k] = "absent" /\ "absent" \notin Nodes
    BY DEF Init, Nodes
  <2>2. QED
    BY <2>1 DEF RowStatus
<1>2. ASSUME TypeInv, [Next]_vars PROVE [Lifecycle!Next]_(Lifecycle!vars)
  <2>0. Types
    BY <1>2 DEF TypeInv
  <2>1. ASSUME UNCHANGED <<pc, entry>> PROVE [Lifecycle!Next]_(Lifecycle!vars)
    BY <2>1, RowsRest DEF Lifecycle!vars
  <2>2. CASE UNCHANGED vars
    BY <2>1, <2>2 DEF vars
  <2>3. CASE \/ \E a \in Alerts : LinkAlert(a)
             \/ \E e \in Evidence : CountEvidence(e) \/ AttachEvidence(e)
             \/ \E q \in Requests : ReadIncident(q) \/ HashEvidence(q)
             \/ \E key \in denied : Expire(key)
    BY <2>1, <2>3, Zenon DEF LinkAlert, CountEvidence, AttachEvidence, ReadIncident,
       HashEvidence, Expire
  <2>4. ASSUME NEW q \in Requests, Join(q) PROVE [Lifecycle!Next]_(Lifecycle!vars)
    <3>1. \/ UNCHANGED <<pc, entry>>
          \/ \E k \in Runs : /\ pc[k] \in {"absent", "failed"}
                             /\ pc' = [pc EXCEPT ![k] = "queued"] /\ UNCHANGED entry
      BY <2>4 DEF Join
    <3>2. QED
      BY <2>0, <2>1, <3>1, RowMove
  <2>5. ASSUME NEW k \in Runs, RunStep(k) \/ CallerStep(k)
        PROVE  [Lifecycle!Next]_(Lifecycle!vars)
    BY <1>2, <2>5, RunLives
  <2>6. QED
    BY <1>2, <2>2, <2>3, <2>4, <2>5 DEF Next
<1>3. QED
  BY <1>1, <1>2, TypesAlways, PTL DEF Spec, LifecycleSpec, Lifecycle!Spec

=============================================================================
