---------------------------- MODULE MCSubmissions ----------------------------
EXTENDS Submissions, TLC

Symmetry == Permutations(Handlers) \cup Permutations(Artifacts) \cup Permutations(Submissions)
=============================================================================
