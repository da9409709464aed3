--------------------------- MODULE MCReportExports --------------------------
(* Small instances of ReportExports for TLC. *)
EXTENDS ReportExports, TLC

CONSTANT m

(* The newer experiment has one submission.                                 *)
TwoExperiments == [s \in Submissions |-> IF s = 3 THEN 2 ELSE 1]

Of3(n) == [total |-> (10000 * n) \div 3, scores |-> [k \in {m} |-> [final |-> n, max |-> 3]]]

SomeReviews == {Of3(1), Of3(2)}

ReviewsWithZero == {Of3(0), Of3(2)}
=============================================================================
