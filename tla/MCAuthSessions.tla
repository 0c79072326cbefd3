--------------------------- MODULE MCAuthSessions ---------------------------
(***************************************************************************)
(* Small instances of AuthSessions for TLC.                                *)
(***************************************************************************)
EXTENDS AuthSessions, TLC

CONSTANTS ada, bob, cleo, s1, s2, s3

\* Two administrators and an address nobody has registered.
MCAccounts == [u \in Users |-> IF u = cleo THEN NoAccount
                               ELSE [role |-> "admin", active |-> TRUE]]

\* Ada has rotated s1 to s2 in one browser and holds s3 in another.
MCSessions == [s \in Sids |->
    CASE s = s1 -> [family |-> s1, user |-> ada, live |-> FALSE]
      [] s = s2 -> [family |-> s1, user |-> ada, live |-> TRUE]
      [] s = s3 -> [family |-> s3, user |-> ada, live |-> TRUE]
      [] OTHER -> NoSession]

\* Calls only label program counters; session ids not yet used are alike.
Symmetry == Permutations(Calls) \cup Permutations(Sids \ {s1, s2, s3})
=============================================================================
