------------------------- MODULE MCInvestigationRun -------------------------
(***************************************************************************)
(* A small instance of InvestigationRun for TLC.                           *)
(***************************************************************************)
EXTENDS InvestigationRun, TLC

CONSTANTS q1, q2, k1, k2, a1, a2, v1, v2, v3, u1, p1, loopback, t1, t2

MCAlertUser == [a \in Alerts |-> u1]
MCAlertIp == [a \in Alerts |-> IF a = a1 THEN p1 ELSE loopback]
MCTechnique == [a \in Alerts |-> IF a = a1 THEN t1 ELSE t2]

\* Two investigations, or the gate and the executor driven from outside.
MCCasts == {[k \in Runs |-> "graph"],
            [k \in Runs |-> IF k = k1 THEN "nodes" ELSE "executor"],
            [k \in Runs |-> IF k = k2 THEN "nodes" ELSE "executor"]}

Symmetry == Permutations({q1, q2}) \cup Permutations({k1, k2})

Act(type, name, spelling, ref, confidence) ==
    [type |-> type, name |-> name, spelling |-> spelling, refs |-> {ref},
     confidence |-> confidence]

\* Addresses with blanks around them, a protected one among them, an account
\* to disable, a weak revocation, an action the executor does not know.
MCPlans == {
    <<Act("block_ip", p1, "padded", Ref("incident", "row"), 95),
      Act("disable_user", u1, "plain", Ref("incident", "row"), 95)>>,
    <<Act("block_ip", loopback, "padded", Ref("incident", "row"), 95),
      Act("revoke_sessions", u1, "plain", Ref("alert", a1), 95)>>,
    <<Act("revoke_sessions", u1, "plain", Ref("incident", "row"), 50),
      Act("notify", u1, "plain", Ref("evidence", v1), 50)>>}
=============================================================================
