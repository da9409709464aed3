---------------------------- MODULE RubricScale -----------------------------
(***************************************************************************)
(* What a teacher's scores and the statistics over them have in common: the *)
(* metrics of a published rubric version, and the basis points that make    *)
(* 100 percent (teaching/domain.go).                                        *)
(***************************************************************************)
EXTENDS Integers

CONSTANTS
  Metrics,        \* metrics of the rubric version
  WeightTotalBPS  \* 100 percent

ASSUME ScaleAssumption == WeightTotalBPS \in Nat \ {0}

=============================================================================
