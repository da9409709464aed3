-------------------------- MODULE MCExternalWorkers --------------------------
(* Small instances of ExternalWorkers for TLC. *)
EXTENDS ExternalWorkers, TLC

Symmetry == Permutations(Jobs) \cup Permutations(Workers) \cup Permutations(Handlers)
=============================================================================
