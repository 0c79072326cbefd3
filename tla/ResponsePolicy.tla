--------------------------- MODULE ResponsePolicy ---------------------------
(***************************************************************************)
(* The policy gate in front of automatic responses: what may be done to    *)
(* which entity of an incident, and by whom.  A target is written as a     *)
(* name in some spelling: "plain", "padded" with blanks or in "upper" case.*)
(***************************************************************************)
EXTENDS Integers, FiniteSets

CONSTANTS
    Users, Ips,             \* usernames and source addresses
    Protected,              \* names and networks nothing automatic may touch
    MinAutoConfidence

Tier(type) ==
    CASE type \in {"notify", "enrich_threat_intel", "snapshot_evidence"} -> 0
      [] type \in {"block_ip", "revoke_sessions"}                        -> 1
      [] type \in {"disable_user", "remove_role"}                        -> 2
      [] OTHER                                                           -> 3

Denied == [allowed |-> FALSE, human |-> FALSE]
ForHuman == [allowed |-> TRUE, human |-> TRUE]
Cleared == [allowed |-> TRUE, human |-> FALSE]

\* The circuit breaker counts what was executed in the last hour.  Every run
\* makes a new one, without Redis, and nothing records an execution in it.
MaxActionsPerHour == 10
MaxDisruptivePerHour == 3
FreshBreaker == [killed |-> FALSE, actions |-> 0, disruptive |-> 0]
Tripped(b) == b.killed \/ b.actions >= MaxActionsPerHour \/ b.disruptive >= MaxDisruptivePerHour

\* Mutant: the protected names are compared with the target as it is written.
EvaluateLiterally(a, entities, refs) ==
    CASE a.name \notin entities \/ (a.spelling = "plain" /\ a.name \in Protected)
                                  \/ ~(a.refs \subseteq refs) -> Denied
      [] Tier(a.type) >= 2 -> ForHuman
      [] Tier(a.type) = 1 /\ a.confidence < MinAutoConfidence -> ForHuman
      [] OTHER -> Cleared

Evaluate(a, entities, refs) ==
    LET refused == \/ Tripped(FreshBreaker)
                   \/ a.name \notin entities
                   \/ a.name \in Protected
                   \/ ~(a.refs \subseteq refs)
        human == Tier(a.type) >= 2 \/ (Tier(a.type) = 1 /\ a.confidence < MinAutoConfidence)
    IN  IF refused THEN Denied ELSE IF human THEN ForHuman ELSE Cleared
=============================================================================
