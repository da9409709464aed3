---------------------------- MODULE MCCatalogue -----------------------------
(* Small instances of Catalogue for TLC. *)
EXTENDS Catalogue, TLC

Symmetry == Permutations(Handlers)

TeacherOrStudent == {{"teacher"}, {"student"}}
=============================================================================
