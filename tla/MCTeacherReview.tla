--------------------------- MODULE MCTeacherReview ---------------------------
(* Small instances of TeacherReview for TLC. *)
EXTENDS TeacherReview, TLC

Symmetry == Permutations(Submissions) \cup Permutations(Handlers)
=============================================================================
