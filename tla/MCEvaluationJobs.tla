-------------------------- MODULE MCEvaluationJobs --------------------------
(* Small instances of EvaluationJobs for TLC. *)
EXTENDS EvaluationJobs, TLC

Symmetry == Permutations(Jobs) \cup Permutations(Workers)
=============================================================================
