--------------------------- MODULE MCReviewScores ---------------------------
(* Small instances of ReviewScores for TLC. *)
EXTENDS ReviewScores, TLC

Symmetry == Permutations(Metrics)
=============================================================================
