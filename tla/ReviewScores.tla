---------------------------- MODULE ReviewScores ----------------------------
(***************************************************************************)
(* The scores of a teacher review: buildTeacherMetricScores takes the       *)
(* teacher's inputs one by one, rejects what does not fit the rubric, and   *)
(* sums up the weighted total in basis points with integer divisions.       *)
(***************************************************************************)
EXTENDS RubricScale, Sequences, FiniteSets, Functions

CONSTANTS
  NoMetric,        \* a metric id or code of no metric
  MaxScores,       \* values of max_score
  Weights,         \* values of weight_bps
  MaxInputs        \* bound: inputs in a request

ASSUME ScoreAssumption ==
  /\ IsFiniteSet(Metrics) /\ NoMetric \notin Metrics
  /\ MaxScores \subseteq Nat \ {0}
  /\ Weights \subseteq Nat
  /\ MaxInputs \in Nat

VARIABLES
  rubric,     \* max_score and weight_bps of each metric
  inputs,     \* the scores of the request
  next,       \* position in inputs
  seen,       \* metrics scored so far
  numerator,  \* weightedNumerator
  weight,     \* weightTotal
  outcome     \* "scoring", "rejected" or "accepted"

scoreVars == <<rubric, inputs, next, seen, numerator, weight, outcome>>

(* What ValidateMetrics lets a version be published with: any weights that  *)
(* are not all zero (normalized), or weights that sum to 100 percent.       *)
Rubrics ==
  {r \in [Metrics -> [max : MaxScores, weight : Weights]] : \E m \in Metrics : r[m].weight > 0}

FinalScores == -1 .. (CHOOSE m \in MaxScores : \A k \in MaxScores : k <= m) + 1

(* "listed": is the source of the score one of manual, rule and llm?        *)
Inputs == [metric : Metrics \cup {NoMetric}, final : FinalScores, listed : BOOLEAN]

ProductOf(f) == FoldFunction(LAMBDA a, b : a * b, 1, f)

ScoreTypeOK ==
  /\ rubric \in Rubrics
  /\ inputs \in UNION {[1..n -> Inputs] : n \in 0..MaxInputs}
  /\ next \in 1..MaxInputs + 1
  /\ seen \subseteq Metrics
  /\ numerator \in Nat
  /\ weight \in Nat
  /\ outcome \in {"scoring", "rejected", "accepted"}

ScoreInit ==
  /\ rubric \in Rubrics
  /\ inputs \in UNION {[1..n -> Inputs] : n \in 0..MaxInputs}
  /\ next = 1
  /\ seen = {}
  /\ numerator = 0
  /\ weight = 0
  /\ outcome = "scoring"

-----------------------------------------------------------------------------
(* resolveMetricInput and the checks that follow it *)

(* Variant: a metric may be scored twice. *)
FitsRubricIfKnown(i) ==
  LET m == inputs[i].metric IN
  /\ m \in Metrics
  /\ inputs[i].final \in 0..rubric[m].max
  /\ inputs[i].listed

FitsRubric(i) ==
  LET m == inputs[i].metric IN
  /\ m \in Metrics
  /\ m \notin seen
  /\ inputs[i].final \in 0..rubric[m].max
  /\ inputs[i].listed

(* Variant: the share of the maximum is taken first, in whole numbers. *)
WeightedByShare(i) ==
  LET m == rubric[inputs[i].metric]
  IN  (inputs[i].final \div m.max) * m.weight * WeightTotalBPS

Weighted(i) ==
  LET m == rubric[inputs[i].metric]
  IN  (inputs[i].final * m.weight * WeightTotalBPS) \div m.max

Score ==
  /\ outcome = "scoring"
  /\ next <= Len(inputs)
  /\ \/ /\ FitsRubric(next)
        /\ seen' = seen \cup {inputs[next].metric}
        /\ numerator' = numerator + Weighted(next)
        /\ weight' = weight + rubric[inputs[next].metric].weight
        /\ next' = next + 1
        /\ UNCHANGED outcome
     \/ ~FitsRubric(next) /\ outcome' = "rejected" /\ UNCHANGED <<next, seen, numerator, weight>>
  /\ UNCHANGED <<rubric, inputs>>

(* Every metric has a score: as many scores as metrics, none twice.         *)
Finish ==
  /\ outcome = "scoring"
  /\ next > Len(inputs)
  /\ outcome' = IF Len(inputs) = Cardinality(Metrics) /\ weight > 0 THEN "accepted" ELSE "rejected"
  /\ UNCHANGED <<rubric, inputs, next, seen, numerator, weight>>

ScoreNext == Score \/ Finish

ScoreSpec == ScoreInit /\ [][ScoreNext]_scoreVars

TotalScoreBPS == numerator \div weight

-----------------------------------------------------------------------------
(* The weighted mean as a fraction with the product of the maxima below.    *)

Final(m) == LET i == CHOOSE i \in DOMAIN inputs : inputs[i].metric = m IN inputs[i].final

Below == ProductOf([m \in Metrics |-> rubric[m].max]) * weight

Above ==
  SumFunction([m \in Metrics |-> Final(m) * rubric[m].weight * WeightTotalBPS *
           ProductOf([k \in Metrics \ {m} |-> rubric[k].max])])

(* What is accepted scores every metric of the rubric, and its total passes *)
(* the CHECK of the column; 10000 means full marks wherever weight is.      *)
AcceptedIsComplete ==
  outcome = "accepted" =>
    /\ {inputs[i].metric : i \in DOMAIN inputs} = Metrics
    /\ TotalScoreBPS \in 0..WeightTotalBPS
    /\ TotalScoreBPS = WeightTotalBPS <=>
         \A m \in Metrics : rubric[m].weight > 0 => Final(m) = rubric[m].max

(* The divisions never raise the total and cost it less than two basis      *)
(* points, however many metrics of weight one or more there are.            *)
TotalCloseToMean ==
  outcome = "accepted" =>
    /\ TotalScoreBPS * Below <= Above
    /\ Above < (TotalScoreBPS + 2) * Below

=============================================================================
