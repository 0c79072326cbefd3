--------------------------- MODULE MCModelRegistry ---------------------------
(***************************************************************************)
(* A small instance of ModelRegistry for TLC.                              *)
(***************************************************************************)
EXTENDS ModelRegistry, TLC

CONSTANTS m1, m2, m3, lab, approved, open, bare

MCSource == [c \in Cases |-> CASE c = lab -> "lab_synthetic"
                               [] OTHER -> "reviewed_internal"]
MCReview == [c \in Cases |-> CASE c = lab -> "synthetic"
                               [] c \in {approved, bare} -> "approved"
                               [] OTHER -> "unreviewed"]

Symmetry == Permutations({m1, m2, m3})
=============================================================================
