--------------------------- MODULE DetectionRules ---------------------------
(***************************************************************************)
(* The detection rules: which alerts one stored event raises, given the    *)
(* events its transaction can see.  The registry runs every rule on every  *)
(* event; an alert is named by its rule and its event, and every rule sets *)
(* its last_seen to the time of the event that raised it.                  *)
(***************************************************************************)
EXTENDS Integers, FiniteSets, Sequences

CONSTANTS
    Events,                 \* event ids
    EventData,              \* what each event says
    None,                   \* an absent username, source address or finding
    Anomalous,              \* the events the trained model scores as anomalies
    BruteForceThreshold, BruteForceWindow,
    SprayUsers, SprayWindow,
    PrivilegeLookback,
    LoginAfterThreshold, LoginAfterWindow

ASSUME ThresholdsArePositive ==
    {BruteForceThreshold, SprayUsers, LoginAfterThreshold} \subseteq Nat \ {0}

\* The settings accept any whole number of seconds.
ASSUME WindowsAreNumbers ==
    {BruteForceWindow, SprayWindow, PrivilegeLookback, LoginAfterWindow} \subseteq Int

ASSUME EventDataTyped ==
    \A e \in Events : /\ DOMAIN EventData[e] = {"type", "user", "ip", "time", "large",
                                                "severity", "confidence", "finding"}
                      /\ EventData[e].time \in Int

CloudTypes == {"cloud_finding", "s3_public_exposure", "secret_exposure",
               "access_key_used", "data_exfiltration"}

\* The registry, in the order its rules run.
Registry == <<"brute_force", "password_spray", "privilege_change", "large_download",
              "login_after_failures", "ml_anomaly", "cloud_finding">>
Rules == {Registry[i] : i \in DOMAIN Registry}

Alert == [rule : Rules, event : Events, first : Int]

User(a) == EventData[a.event].user
Ip(a) == EventData[a.event].ip
Last(a) == EventData[a.event].time

Earliest(T) == CHOOSE t \in T : \A u \in T : t <= u
Latest(T) == CHOOSE t \in T : \A u \in T : t >= u

\* Failed logins among the events V in the window that ends at event e.
Failures(V, e, window) ==
    {f \in V : /\ EventData[f].type = "login_failure"
               /\ EventData[f].time \in EventData[e].time - window .. EventData[e].time}

FailuresFromIp(V, e, window) ==
    {f \in Failures(V, e, window) : EventData[f].ip = EventData[e].ip}

FailuresOfIdentity(V, e, window) ==
    {f \in Failures(V, e, window) :
        \/ EventData[e].user # None /\ EventData[f].user = EventData[e].user
        \/ EventData[e].ip # None /\ EventData[f].ip = EventData[e].ip}

\* The failed logins a rule's alert rests on.
Basis(rule, V, e) ==
    CASE rule = "brute_force"          -> FailuresFromIp(V, e, BruteForceWindow)
      [] rule = "password_spray"       -> FailuresFromIp(V, e, SprayWindow)
      [] rule = "privilege_change"     -> FailuresOfIdentity(V, e, PrivilegeLookback)
      [] rule = "login_after_failures" -> FailuresOfIdentity(V, e, LoginAfterWindow)
      [] OTHER                         -> {}

SprayedUsers(V, e) ==
    {EventData[f].user : f \in Basis("password_spray", V, e)} \ {None}

Fires(rule, V, e) ==
    LET d == EventData[e] IN
    \/ /\ rule = "brute_force" /\ d.type = "login_failure" /\ d.ip # None
       /\ Cardinality(Basis(rule, V, e)) >= BruteForceThreshold
    \/ /\ rule = "password_spray" /\ d.type = "login_failure" /\ d.ip # None
       /\ Cardinality(SprayedUsers(V, e)) >= SprayUsers
    \/ /\ rule = "privilege_change" /\ d.type = "privilege_change"
       /\ Basis(rule, V, e) # {}
    \/ rule = "large_download" /\ d.type \in {"file_download", "resource_access"} /\ d.large
    \/ /\ rule = "login_after_failures" /\ d.type = "login_success"
       /\ Cardinality(Basis(rule, V, e)) >= LoginAfterThreshold
    \/ rule = "ml_anomaly" /\ e \in Anomalous
    \/ rule = "cloud_finding" /\ d.type \in CloudTypes

\* The alerts event e raises when its transaction sees the events V.
AlertsFor(V, e) ==
    {[rule  |-> rule,
      event |-> e,
      first |-> Earliest({EventData[f].time : f \in Basis(rule, V, e) \cup {e}})] :
        rule \in {r \in Rules : Fires(r, V, e)}}
=============================================================================
