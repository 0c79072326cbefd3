--------------------------- MODULE SessionFamilies ---------------------------
(***************************************************************************)
(* What refresh-token rotation promises.  A family starts with one token;  *)
(* a rotation exchanges its valid token for one never seen before; an      *)
(* ended family has no valid token ever again.                             *)
(***************************************************************************)
CONSTANT Sids

VARIABLES valid,   \* the tokens of each family that can be refreshed
          issued   \* every token handed out so far

vars == <<valid, issued>>

Init == /\ issued \in SUBSET Sids
        /\ valid \in [Sids -> {{}} \cup {{s} : s \in issued}]

\* A family is named by its first token.
Begin(f) == /\ f \notin issued
            /\ issued' = issued \cup {f}
            /\ valid' = [valid EXCEPT ![f] = {f}]

Rotate(f, s, n) == /\ valid[f] = {s}
                   /\ n \notin issued
                   /\ issued' = issued \cup {n}
                   /\ valid' = [valid EXCEPT ![f] = {n}]

\* The families whose token is still accepted.
Live == {f \in Sids : valid[f] # {}}

\* A logout or a replay ends one family, a password change all of a user's.
End(F) == /\ valid' = [f \in Sids |-> IF f \in F THEN {} ELSE valid[f]]
          /\ UNCHANGED issued

Next == \/ \E F \in SUBSET Live : End(F)
        \/ \E f \in Sids \ issued : Begin(f)
        \/ \E f \in Sids : \E s \in valid[f], n \in Sids \ issued : Rotate(f, s, n)

Spec == Init /\ [][Next]_vars
=============================================================================
