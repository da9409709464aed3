--------------------------- MODULE ReportSummaries ---------------------------
(***************************************************************************)
(* Statistics over published reviews (teaching/report_service.go): the      *)
(* summary of an experiment is added up from one read per submission, that  *)
(* of a course from the summaries of its experiments, while submissions are *)
(* opened and reviews saved and published.                                  *)
(*                                                                          *)
(* Left out: the counts by submission status, artifact status, finding and  *)
(* evidence, which are sums without a division, and the names shown.        *)
(***************************************************************************)
EXTENDS RubricScale, FiniteSets, FiniteSetsExt

CONSTANTS
  Experiments,     \* experiments of one course, numbered as created
  Submissions,     \* numbered as created
  ExperimentOf,    \* experiment of a submission
  Reviews,         \* contents of a review: its total, and final and maximal score of each metric
  Limits,          \* limits a client may set on a list, and ...
  ListLimit,       \* ... the highest
  Handlers,
  None

ASSUME SummaryAssumption ==
  /\ Experiments \subseteq Nat \ {0}
  /\ Submissions \subseteq Nat \ {0}
  /\ IsFiniteSet(Experiments) /\ IsFiniteSet(Submissions)
  /\ ExperimentOf \in [Submissions -> Experiments]
  /\ \A r \in Reviews : r.total \in 0..WeightTotalBPS
  /\ \A r \in Reviews, m \in Metrics : r.scores[m].max \in Nat \ {0} /\ r.scores[m].final \in 0..r.scores[m].max
  /\ ListLimit \in Nat \ {0} /\ Limits \subseteq 1..ListLimit
  /\ None \notin Reviews /\ None \notin {"draft", "published"}

VARIABLES
  opened,    \* submissions there are
  reviews,   \* teacher_reviews: status and content of a submission's review
  request    \* report requests under way

summaryVars == <<opened, reviews, request>>

NoReview == [status |-> None, content |-> None]

(* Accumulated scores: of an experiment, of a course.  A part is added up   *)
(* before its averages are taken.                                           *)
Buckets == 1..5

Empty ==
  [published |-> 0, sum |-> 0, average |-> 0, min |-> 0, max |-> 0,
   buckets |-> [b \in Buckets |-> 0],
   metrics |-> [m \in Metrics |-> [score |-> 0, percent |-> 0, count |-> 0]]]

Parts ==
  [published : Nat, sum : Nat, average : Nat, min : Nat, max : Nat, buckets : [Buckets -> Nat],
   metrics : [Metrics -> [score : Nat, percent : Nat, count : Nat]]]

(* todo: experiments not begun; left: submissions listed and not read;      *)
(* part: the experiment at work; whole: the course; counted: submissions    *)
(* added up; before: those published when their experiment was listed.      *)
NoRequest ==
  [do |-> None, at |-> "idle", on |-> None, limit |-> ListLimit, todo |-> {}, left |-> {}, part |-> Empty, whole |-> Empty,
   counted |-> {}, before |-> {}]

SummaryTypeOK ==
  /\ opened \subseteq Submissions
  /\ \A s \in Submissions : reviews[s] = NoReview \/ reviews[s] \in [status : {"draft", "published"}, content : Reviews]
  /\ \A h \in Handlers :
       /\ request[h].todo \subseteq Experiments
       /\ request[h].left \subseteq opened
       /\ request[h].before \cup request[h].counted \subseteq Submissions
       /\ {request[h].part.min, request[h].part.max, request[h].part.average, request[h].whole.average}
            \subseteq 0..WeightTotalBPS

SummaryInit ==
  /\ opened \in SUBSET Submissions
  /\ reviews = [s \in Submissions |-> NoReview]
  /\ request = [h \in Handlers |-> NoRequest]

Published == {s \in Submissions : reviews[s].status = "published"}

-----------------------------------------------------------------------------
(* What other requests do meanwhile *)

OpenSubmission(s) ==
  /\ s \notin opened
  /\ opened' = opened \cup {s}
  /\ UNCHANGED <<reviews, request>>

UpsertTeacherReview(s, r) ==
  /\ s \in opened
  /\ reviews[s].status # "published"
  /\ reviews' = [reviews EXCEPT ![s] = [status |-> "draft", content |-> r]]
  /\ UNCHANGED <<opened, request>>

PublishTeacherReview(s) ==
  /\ reviews[s].status = "draft"
  /\ reviews' = [reviews EXCEPT ![s].status = "published"]
  /\ UNCHANGED <<opened, request>>

Others ==
  \E s \in Submissions : OpenSubmission(s) \/ PublishTeacherReview(s) \/ (\E r \in Reviews : UpsertTeacherReview(s, r))

-----------------------------------------------------------------------------
(* Helpers *)

(* ORDER BY created_at DESC LIMIT n.                                          *)
Newest(S, limit) == {s \in S : Cardinality({t \in S : t > s}) < limit}

RoundedDivide(sum, count) == IF count <= 0 THEN 0 ELSE (sum + count \div 2) \div count

ScoreBucket(bps) ==
  CASE bps < 6000 -> 1
    [] bps < 7000 -> 2
    [] bps < 8000 -> 3
    [] bps < 9000 -> 4
    [] OTHER -> 5

AddReview(p, r) ==
  [p EXCEPT !.published = @ + 1,
            !.sum = @ + r.total,
            !.min = IF p.published = 0 \/ r.total < @ THEN r.total ELSE @,
            !.max = IF r.total > @ THEN r.total ELSE @,
            !.buckets[ScoreBucket(r.total)] = @ + 1,
            !.metrics = [m \in Metrics |->
               [score |-> @[m].score + r.scores[m].final,
                percent |-> @[m].percent + (r.scores[m].final * WeightTotalBPS) \div r.scores[m].max,
                count |-> @[m].count + 1]]]

(* Sums become rounded averages.                                            *)
BuildMetricAverages(stats) ==
  [m \in Metrics |-> [score |-> RoundedDivide(stats[m].score, stats[m].count),
                      percent |-> RoundedDivide(stats[m].percent, stats[m].count),
                      count |-> stats[m].count]]

Averaged(p) ==
  [p EXCEPT !.average = RoundedDivide(p.sum, p.published), !.metrics = BuildMetricAverages(@)]

(* Variant: a metric counts once for each experiment. *)
MergeUnweighted(w, p) ==
  [w EXCEPT !.published = @ + p.published,
            !.sum = @ + p.sum,
            !.min = IF p.published > 0 /\ (@ = 0 \/ p.min < @) THEN p.min ELSE @,
            !.max = IF p.published > 0 /\ p.max > @ THEN p.max ELSE @,
            !.buckets = [b \in Buckets |-> @[b] + p.buckets[b]],
            !.metrics = [m \in Metrics |->
               [score |-> @[m].score + p.metrics[m].score,
                percent |-> @[m].percent + p.metrics[m].percent,
                count |-> @[m].count + 1]]]

(* A course takes over the averages of its experiments, weighted; 0 stands  *)
(* for a minimum not yet known.                                             *)
Merge(w, p) ==
  [w EXCEPT !.published = @ + p.published,
            !.sum = @ + p.sum,
            !.min = IF p.published > 0 /\ (@ = 0 \/ p.min < @) THEN p.min ELSE @,
            !.max = IF p.published > 0 /\ p.max > @ THEN p.max ELSE @,
            !.buckets = [b \in Buckets |-> @[b] + p.buckets[b]],
            !.metrics = [m \in Metrics |->
               [score |-> @[m].score + p.metrics[m].score * p.metrics[m].count,
                percent |-> @[m].percent + p.metrics[m].percent * p.metrics[m].count,
                count |-> @[m].count + p.metrics[m].count]]]

-----------------------------------------------------------------------------
(* Requests *)

Goto(h, l) == request' = [request EXCEPT ![h].at = l]

(* A request for the summary of an experiment or of the course, made by     *)
(* someone who may edit the course; the limit of a course is one on its     *)
(* experiments.                                                             *)
GetExperimentReportSummary(h, e, limit) ==
  /\ request[h] = NoRequest
  /\ request' = [request EXCEPT ![h].do = "experiment", ![h].at = "list", ![h].on = e, ![h].limit = limit,
                                ![h].todo = {e}]
  /\ UNCHANGED <<opened, reviews>>

GetCourseReportSummary(h, limit) ==
  /\ request[h] = NoRequest
  /\ request' = [request EXCEPT ![h].do = "course", ![h].at = "list", ![h].todo = Newest(Experiments, limit)]
  /\ UNCHANGED <<opened, reviews>>

ListSubmissionsForExperiment(h) ==
  LET e == Max(request[h].todo)
      page == Newest({s \in opened : ExperimentOf[s] = e}, request[h].limit)
  IN
  /\ request[h].at = "list" /\ request[h].todo # {}
  /\ request' = [request EXCEPT ![h].at = "read", ![h].todo = @ \ {e}, ![h].left = page, ![h].part = Empty,
                                ![h].before = @ \cup (page \cap Published)]
  /\ UNCHANGED <<opened, reviews>>

(* Variant: drafts are read too. *)
ReadReview(h) ==
  LET s == Max(request[h].left) IN
  /\ request[h].at = "read" /\ request[h].left # {}
  /\ request' = [request EXCEPT
       ![h].left = @ \ {s},
       ![h].part = IF reviews[s] # NoReview THEN AddReview(@, reviews[s].content) ELSE @,
       ![h].counted = IF reviews[s] # NoReview THEN @ \cup {s} ELSE @]
  /\ UNCHANGED <<opened, reviews>>

(* The submission's detail, evaluation and, if published, review.           *)
ReadSubmission(h) ==
  LET s == Max(request[h].left) IN
  /\ request[h].at = "read" /\ request[h].left # {}
  /\ request' = [request EXCEPT
       ![h].left = @ \ {s},
       ![h].part = IF s \in Published THEN AddReview(@, reviews[s].content) ELSE @,
       ![h].counted = IF s \in Published THEN @ \cup {s} ELSE @]
  /\ UNCHANGED <<opened, reviews>>

FinishExperiment(h) ==
  LET p == Averaged(request[h].part) IN
  /\ request[h].at = "read" /\ request[h].left = {}
  /\ request' = [request EXCEPT ![h].part = p,
       ![h].at = IF request[h].do = "course" THEN "list" ELSE "built",
       ![h].whole = IF request[h].do = "course" THEN Merge(@, p) ELSE @]
  /\ UNCHANGED <<opened, reviews>>

FinishCourse(h) ==
  /\ request[h].at = "list" /\ request[h].todo = {}
  /\ request' = [request EXCEPT ![h].whole = Averaged(@), ![h].part = Empty, ![h].at = "built"]
  /\ UNCHANGED <<opened, reviews>>

(* The report of one submission: its review, a draft included unless a      *)
(* student asks.                                                            *)
GetSubmissionReport(h, s, student) ==
  /\ request[h] = NoRequest
  /\ reviews[s] # NoReview
  /\ student => s \in Published
  /\ request' = [request EXCEPT ![h].do = IF student THEN "own" ELSE "submission", ![h].at = "built", ![h].on = s,
                                ![h].part = [Empty EXCEPT !.sum = reviews[s].content.total]]
  /\ UNCHANGED <<opened, reviews>>

BuildReport(h) ==
  \/ \E limit \in Limits :
       GetCourseReportSummary(h, limit) \/ (\E e \in Experiments : GetExperimentReportSummary(h, e, limit))
  \/ \E s \in Submissions, student \in BOOLEAN : GetSubmissionReport(h, s, student)
  \/ ListSubmissionsForExperiment(h) \/ ReadSubmission(h) \/ FinishExperiment(h) \/ FinishCourse(h)

-----------------------------------------------------------------------------
(* Properties of a summary that has been built *)

Summary(h) == IF request[h].do = "course" THEN request[h].whole ELSE request[h].part

Built(h) == request[h].at = "built" /\ request[h].do \in {"experiment", "course"}

(* Although each submission is read on its own, a summary counts every      *)
(* review that was published when the experiment was listed, no draft and   *)
(* none twice; sums, extremes and buckets are those of the reviews counted. *)
CountsPublished ==
  \A h \in Handlers : Built(h) =>
    LET S == request[h].counted
        x == Summary(h)
    IN  /\ request[h].before \subseteq S
        /\ S \subseteq Published
        /\ x.published = Cardinality(S)
        /\ x.sum = SumFunction([s \in S |-> reviews[s].content.total])
        /\ \A b \in Buckets : x.buckets[b] = Cardinality({s \in S : ScoreBucket(reviews[s].content.total) = b})
        /\ S # {} => x.max = Max({reviews[s].content.total : s \in S})

Within(average, count, sum, halves) ==
  LET off == 2 * (average * count - sum) IN off <= halves * count /\ -off <= halves * count

(* The average is the mean to the nearest, in a course too.  The averages   *)
(* of a metric in a course are rounded twice and are at most one off.       *)
AveragesClose ==
  \A h \in Handlers : Built(h) =>
    LET S == request[h].counted
        x == Summary(h)
        halves == IF request[h].do = "course" THEN 2 ELSE 1
    IN  /\ Within(x.average, x.published, SumFunction([s \in S |-> reviews[s].content.total]), 1)
        /\ \A m \in Metrics :
             /\ x.metrics[m].count = Cardinality(S)
             /\ Within(x.metrics[m].score, Cardinality(S), SumFunction([s \in S |-> reviews[s].content.scores[m].final]), halves)

(* The lowest score shown is the lowest score counted.                      *)
MinimumIsLowest ==
  \A h \in Handlers : Built(h) /\ request[h].counted # {} =>
    Summary(h).min = Min({reviews[s].content.total : s \in request[h].counted})

=============================================================================
