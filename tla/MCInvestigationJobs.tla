------------------------- MODULE MCInvestigationJobs -------------------------
(***************************************************************************)
(* Small instances of InvestigationJobs for TLC.                           *)
(***************************************************************************)
EXTENDS InvestigationJobs, TLC

CONSTANTS j1, j2, r1, r2, r3, w1, w2

\* A bound, and a choice of names that are interchangeable: requests begin in the order
\* of theirs, the first one for j1; the third begins when the second worker is down, and
\* then that worker is not started again.
Begins(r) == rpc[r] = "new" /\ rpc'[r] # "new"

InTurn ==
    /\ Begins(r1) => rjob'[r1] = j1
    /\ Begins(r2) => rpc[r1] # "new"
    /\ Begins(r3) => rpc[r2] # "new" /\ wpc[w2] = "down"
    /\ wpc[w2] = "down" /\ wpc'[w2] # "down" => rpc[r3] = "new"
=============================================================================
