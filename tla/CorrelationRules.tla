-------------------------- MODULE CorrelationRules --------------------------
(***************************************************************************)
(* What correlation decides about one alert: the alerts related to it,     *)
(* whether they amount to a credential compromise, the identity they are   *)
(* filed under, the locks that identity needs and the risk they add up to. *)
(***************************************************************************)
EXTENDS DetectionRules, FiniteSetsExt

CONSTANTS Lookback, MergeWindow

CredentialRules == Rules \ {"ml_anomaly", "cloud_finding"}
InitialAccess == {"brute_force", "password_spray"}

\* Mutant: user and address must both agree.
RelatedByBoth(A, a) ==
    {a} \cup {b \in A : /\ Last(b) \in Last(a) - Lookback .. Last(a)
                        /\ User(b) = User(a) /\ Ip(b) = Ip(a)}

\* The stored alerts A of the same user or address in the lookback window,
\* and the alert itself.
Related(A, a) ==
    {a} \cup {b \in A : /\ Last(b) \in Last(a) - Lookback .. Last(a)
                        /\ \/ User(a) # None /\ User(b) = User(a)
                           \/ Ip(a) # None /\ Ip(b) = Ip(a)}

\* A compromise needs an initial access and a success; its evidence is
\* every related alert of the five credential rules.
CompromiseIn(A) ==
    /\ \E b \in A : b.rule \in InitialAccess
    /\ \E b \in A : b.rule = "login_after_failures"

Candidates(A) ==
    IF CompromiseIn(A) THEN {b \in A : b.rule \in CredentialRules} ELSE {}

\* The value of the earliest alert that has one; alerts that began together
\* come in the order of their creation, which is left open.
FirstPresent(A, F(_)) ==
    LET present == {b \in A : F(b) # None} IN
    {F(b) : b \in {c \in present : \A d \in present : c.first <= d.first}}

\* The first rule of the preference order with a value decides.
Preferred(A, order, F(_)) ==
    LET has(i) == \E b \in A : b.rule = order[i] /\ F(b) # None
        hits == {i \in DOMAIN order : has(i)}
    IN  IF hits # {}
        THEN FirstPresent({b \in A : b.rule = order[Min(hits)]}, F)
        ELSE IF FirstPresent(A, F) # {} THEN FirstPresent(A, F) ELSE {None}

PrimaryUsernames(A) ==
    Preferred(A, <<"login_after_failures", "privilege_change", "large_download">>, User)

PrimaryIps(A) ==
    Preferred(A, <<"login_after_failures", "privilege_change", "large_download",
                   "brute_force", "password_spray">>, Ip)

\* Correlation keys and the advisory locks behind them.
CredentialKey(user, ip) == <<"credential", user, ip>>
FindingKey(finding) == <<"finding", finding, None>>

IdentityLocks(user, ip) ==
    {<<"ip", ip>>, <<"user", user>>} \ {<<"ip", None>>, <<"user", None>>}

NoLocks(key) == {}   \* mutant
LocksOf(key) ==
    IF key[1] = "finding" THEN {<<"finding", key[2]>>} ELSE IdentityLocks(key[2], key[3])

\* The locks are taken in the order of their names: addresses before users.
NextLock(wanted) ==
    IF \E l \in wanted : l[1] = "ip" THEN CHOOSE l \in wanted : l[1] = "ip"
    ELSE CHOOSE l \in wanted : TRUE

\* Risk: severity weights, mean confidence in hundredths, and two bonuses.
Severity(a) ==
    CASE a.rule = "cloud_finding" -> EventData[a.event].severity
      [] a.rule \in {"large_download", "ml_anomaly"} -> "medium"
      [] OTHER -> "high"

Confidence(a) ==
    CASE a.rule = "brute_force" -> 90
      [] a.rule = "password_spray" -> 88
      [] a.rule = "privilege_change" -> 82
      [] a.rule = "large_download" -> 80
      [] a.rule = "login_after_failures" -> 86
      [] OTHER -> EventData[a.event].confidence

Weight(severity) ==
    CASE severity = "critical" -> 30 [] severity = "high" -> 20
      [] severity = "medium" -> 10 [] OTHER -> 5

Score(A) ==
    LET has(R) == \E a \in A : a.rule \in R
        weights == MapThenSumSet(LAMBDA a : Weight(Severity(a)), A)
        confidence == (MapThenSumSet(Confidence, A) * 20) \div (100 * Cardinality(A))
        combo == IF has({"login_after_failures"}) /\ has(InitialAccess) THEN 15 ELSE 0
        support == IF has({"privilege_change", "large_download"}) THEN 10 ELSE 0
    IN  IF A = {} THEN 0 ELSE Min({100, weights + confidence + combo + support})

FindingFloor(severity) ==
    CASE severity = "low" -> 25 [] severity = "medium" -> 50
      [] severity = "high" -> 75 [] OTHER -> 95

FindingScore(A) == Max({Score(A)} \cup {FindingFloor(Severity(a)) : a \in A})

SeverityRank(score) ==
    IF score >= 85 THEN 4 ELSE IF score >= 65 THEN 3 ELSE IF score >= 35 THEN 2 ELSE 1
=============================================================================
