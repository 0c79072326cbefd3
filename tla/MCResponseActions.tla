-------------------------- MODULE MCResponseActions --------------------------
(***************************************************************************)
(* A small instance of ResponseActions for TLC.                            *)
(***************************************************************************)
EXTENDS ResponseActions, TLC

CONSTANTS ana, adm, c1, c2, c3, c4, w1, w2

\* Two who may propose and decide, so that one can decide what the other proposed.
MCRole == [u \in Users |-> IF u = adm THEN "admin" ELSE "analyst"]

\* A bound, and a choice of names that are interchangeable: calls begin in the order of
\* theirs; the fourth begins when the second worker is down, and then that worker is not
\* started again.
Begins(c) == cpc[c] = "new" /\ cpc'[c] # "new"

InTurn ==
    /\ Begins(c2) => cpc[c1] # "new"
    /\ Begins(c3) => cpc[c2] # "new"
    /\ Begins(c4) => cpc[c3] # "new" /\ wpc[w2] = "down"
    /\ wpc[w2] = "down" /\ wpc'[w2] # "down" => cpc[c4] = "new"
=============================================================================
