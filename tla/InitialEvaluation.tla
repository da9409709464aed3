-------------------------- MODULE InitialEvaluation --------------------------
(***************************************************************************)
(* One initial evaluation (evaluation_service.go, evaluation_rules.go): the *)
(* evidence is read, the rules turn what it lacks into findings and scores, *)
(* an AI engine may add suggestions of its own, and result, scores and call *)
(* log are stored in one transaction.  Artifacts may arrive meanwhile.      *)
(*                                                                          *)
(* A text is the set of the phrases the rules look for that it contains; a  *)
(* finding is its category, its severity and what it is about.              *)
(***************************************************************************)
EXTENDS Integers, FiniteSets, FiniteSetsExt

CONSTANTS
  Artifacts,     \* artifacts a student may store: id, kind, text (NoText or phrases)
  Specs,         \* submission_spec: required kinds, sections, steps, keywords
  Rubric,        \* for each metric its max and the groups of findings its words speak of
  Scores,        \* values an engine may return, and ...
  Refs,          \* ... what it may refer to: artifacts, Unset, Unknown
  Engines,       \* which of "gateway" and "llm" a server has
  Unknown,       \* a metric code or reference that does not exist
  Unset

(* Who may answer, and the logs of their calls.                             *)
Answering == {"worker", "gateway", "llm"}
Logs == [engine : Answering, status : {"skipped", "failed", "succeeded"}]

ArtifactKinds == {"document", "report", "screenshot", "code_archive", "git_link", "other"}

ASSUME EvaluationAssumption ==
  /\ IsFiniteSet(Artifacts) /\ \A a, b \in Artifacts : a.id = b.id => a = b
  /\ \A a \in Artifacts : a.kind \in ArtifactKinds
  /\ \A s \in Specs : IsFiniteSet(s.required \cup s.sections \cup s.steps \cup s.keywords)
  /\ DOMAIN Rubric # {}
  /\ \A m \in DOMAIN Rubric : Rubric[m].max \in Nat \ {0}
  /\ Scores \subseteq Int
  /\ Engines \subseteq SUBSET {"gateway", "llm"}
  /\ Unknown \notin DOMAIN Rubric \cup {a.id : a \in Artifacts}
  /\ Unset \notin Logs

VARIABLES
  stored,      \* artifacts of the submission
  spec,
  configured,  \* engines of this server
  run          \* the evaluation

evaluationVars == <<stored, spec, configured, run>>

RubricMetrics == DOMAIN Rubric
NoText == {"no text"}
Modes == {"", "rule_only", "rule_and_llm", "other"}

Idle ==
  [at |-> "idle", mode |-> Unset, evidence |-> {}, engine |-> Unset, suggested |-> {}, log |-> Unset,
   llmStatus |-> "skipped", status |-> Unset]

EvaluationTypeOK ==
  /\ stored \subseteq Artifacts
  /\ spec \in Specs
  /\ configured \in Engines
  /\ run.at \in {"idle", "read", "ask", "answer", "store", "stored"}
  /\ run.evidence \subseteq stored
  /\ run.engine \in Answering \cup {Unset}
  /\ run.suggested \subseteq [metric : RubricMetrics, score : Scores, ref : {a.id : a \in stored} \cup {Unset}, by : Answering]
  /\ run.log \in Logs \cup {Unset}
  /\ run.llmStatus \in {"skipped", "not_configured", "failed", "succeeded"}
  /\ run.status \in {Unset, "completed", "needs_review"}

EvaluationInit ==
  /\ stored \in SUBSET Artifacts
  /\ spec \in Specs
  /\ configured \in Engines
  /\ run = Idle

-----------------------------------------------------------------------------
(* The rules *)

Kinds(E) == {a.kind : a \in E}

Text(E) == (UNION {a.text : a \in E}) \ NoText

HasText(E) == \E a \in E : a.text # NoText

Finding(category, severity, about) == [category |-> category, severity |-> severity, about |-> about]

(* The extraction of a link succeeds with it; that of an upload is queued.  *)
Extraction(a) == IF a.kind = "git_link" THEN "succeeded" ELSE "queued"

Written == {"report", "document"}
Code == {"code_archive", "git_link"}

(* Any name with "code" or "git" in it asks for code; "source_code" stands   *)
(* for those that are not a kind of artifact.                               *)
CodeNames == Code \cup {"source_code"}

(* Nothing moves the extraction of an upload on from queued, and nothing in *)
(* the repository writes running or failed.                                 *)
ParsingFindings(E) ==
  {Finding("parsing", "medium", a.id) : a \in {x \in E : Extraction(x) \in {"queued", "running"}}}
    \cup {Finding("parsing", "high", a.id) : a \in {x \in E : Extraction(x) = "failed"}}
    \cup {Finding("evidence", "medium", a.id) : a \in {x \in E : x.kind \in Written /\ x.text = NoText}}

CompletenessFindings(E) ==
  {Finding("completeness", "high", k) : k \in spec.required \ Kinds(E)}
    \cup (IF Kinds(E) \cap Code = {}
          THEN {Finding("evidence", IF spec.required \cap CodeNames # {} THEN "high" ELSE "low", "code")} ELSE {})

(* What is missed in the texts, when there is any text.                     *)
TextFindings(E) ==
  IF HasText(E)
  THEN {Finding("completeness", "medium", x) : x \in spec.sections \ Text(E)}
         \cup {Finding("steps", "medium", x) : x \in spec.steps \ Text(E)}
         \cup {Finding("logic", "low", x) : x \in spec.keywords \ Text(E)}
  ELSE IF Kinds(E) \cap Written # {} THEN {Finding("evidence", "medium", "text")} ELSE {}

(* Variant: a text that speaks to the engine is no worse than a secret. *)
MildSecurity(E) ==
  {Finding("security", "medium", x) : x \in {"injection", "secret"} \cap Text(E)}

SecurityFindings(E) ==
  (IF "injection" \in Text(E) THEN {Finding("security", "high", "injection")} ELSE {})
    \cup (IF "secret" \in Text(E) THEN {Finding("security", "medium", "secret")} ELSE {})

CollectRuleFindings(E) ==
  IF E = {} THEN {Finding("completeness", "high", "artifacts")}
  ELSE ParsingFindings(E) \cup CompletenessFindings(E) \cup TextFindings(E) \cup SecurityFindings(E)

Group(category) ==
  CASE category \in {"evidence", "parsing"} -> "documents"
    [] category \in {"steps", "completeness"} -> "completeness"
    [] category \in {"security", "logic"} -> "quality"

BasePenalty(severity) ==
  CASE severity = "high" -> 30 [] severity = "medium" -> 15 [] severity = "low" -> 5

FindingPenalty(m, f) == BasePenalty(f.severity) + (IF Group(f.category) \in Rubric[m].about THEN 5 ELSE 0)

(* Variant: the penalties are not limited. *)
UnlimitedPenalty(m, F) == MapThenSumSet(LAMBDA f : FindingPenalty(m, f), F)

Penalty(m, F) == Min({80, MapThenSumSet(LAMBDA f : FindingPenalty(m, f), F)})

RuleScore(m, E) == Max({0, Rubric[m].max - (Rubric[m].max * Penalty(m, CollectRuleFindings(E))) \div 100})

HasSevereFindings(F) == \E f \in F : f.severity = "high"

-----------------------------------------------------------------------------
(* The evaluation *)

UploadArtifact(a) ==
  /\ a \notin stored
  /\ stored' = stored \cup {a}
  /\ UNCHANGED <<spec, configured, run>>

NormalizeEvaluationMode(mode) == IF mode = "" THEN "rule_only" ELSE mode

(* Asked for by a teacher, or by a worker that brings its answer along.     *)
CreateInitialEvaluation(mode, worker) ==
  /\ run = Idle
  /\ NormalizeEvaluationMode(mode) \in {"rule_only", "rule_and_llm"}
  /\ run' = [Idle EXCEPT !.at = "read", !.mode = NormalizeEvaluationMode(mode), !.engine = IF worker THEN "worker" ELSE Unset]
  /\ UNCHANGED <<stored, spec, configured>>

(* Everything later is about the evidence read here.                        *)
GetEvaluationContext ==
  /\ run.at = "read"
  /\ run' = [run EXCEPT !.evidence = stored, !.at = IF run.mode = "rule_and_llm" THEN "ask" ELSE "store"]
  /\ UNCHANGED <<stored, spec, configured>>

(* A call log names the engine, as far as there is one.                     *)
Log(status) == [engine |-> run.engine, status |-> status]

(* Without a worker's answer the gateway is asked first, then the model.    *)
EvaluateWithConfiguredAI ==
  /\ run.at = "ask"
  /\ run.engine = "worker" \/ configured # {}
  /\ run' = [run EXCEPT !.at = "answer",
       !.engine = IF @ = "worker" THEN @ ELSE IF "gateway" \in configured THEN "gateway" ELSE "llm"]
  /\ UNCHANGED <<stored, spec, configured>>

(* No client: a log of a call that was skipped, and an error.               *)
NotConfigured ==
  /\ run.at = "ask"
  /\ run.engine # "worker" /\ configured = {}
  /\ run' = [run EXCEPT !.at = "store", !.llmStatus = "not_configured", !.log = [engine |-> "llm", status |-> "skipped"]]
  /\ UNCHANGED <<stored, spec, configured>>

(* Variant: what was read before the error is kept. *)
FailedHalfway ==
  IF run.engine = "gateway" /\ "llm" \in configured
  THEN [run EXCEPT !.engine = "llm"]
  ELSE [run EXCEPT !.at = "store", !.log = Log("failed"),
                   !.llmStatus = IF configured = {} THEN "not_configured" ELSE "failed"]

(* An error, whether of the call or of the answer's form or content: what   *)
(* was read of the answer is dropped; the model is asked if it was the      *)
(* gateway that failed.                                                     *)
Failed ==
  IF run.engine = "gateway" /\ "llm" \in configured
  THEN [run EXCEPT !.engine = "llm", !.suggested = {}]
  ELSE [run EXCEPT !.at = "store", !.suggested = {}, !.log = Log("failed"),
                   !.llmStatus = IF configured = {} THEN "not_configured" ELSE "failed"]

CallFails ==
  /\ run.at = "answer" /\ run.suggested = {}
  /\ run' = Failed
  /\ UNCHANGED <<stored, spec, configured>>

(* Artifacts a suggestion may refer to. *)
AllowedEvidenceRefs == {a.id : a \in run.evidence} \cup {Unset}

Fits(m, score, ref) ==
  /\ m \in RubricMetrics /\ \A x \in run.suggested : x.metric # m
  /\ score \in 0..Rubric[m].max
  /\ ref \in AllowedEvidenceRefs

(* One entry of the answer is validated. *)
ValidateLLMOutput(m, score, ref) ==
  /\ run.at = "answer"
  /\ run' = IF Fits(m, score, ref)
            THEN [run EXCEPT !.suggested = @ \cup {[metric |-> m, score |-> score, ref |-> ref, by |-> run.engine]}]
            ELSE Failed
  /\ UNCHANGED <<stored, spec, configured>>

(* The end of the answer, which must have had an entry.                     *)
AnswerEnds ==
  /\ run.at = "answer"
  /\ run' = IF run.suggested = {} THEN Failed
            ELSE [run EXCEPT !.at = "store", !.llmStatus = "succeeded", !.log = Log("succeeded")]
  /\ UNCHANGED <<stored, spec, configured>>

StoreInitialEvaluation ==
  /\ run.at = "store"
  /\ run' = [run EXCEPT !.at = "stored",
       !.status = IF HasSevereFindings(CollectRuleFindings(run.evidence)) \/ run.llmStatus \in {"failed", "not_configured"}
                  THEN "needs_review" ELSE "completed"]
  /\ UNCHANGED <<stored, spec, configured>>

(* An error of a read or of the transaction, or a crash: nothing is stored. *)
Abort ==
  /\ run.at \notin {"idle", "stored"}
  /\ run' = Idle
  /\ UNCHANGED <<stored, spec, configured>>

EvaluationNext ==
  \/ \E a \in Artifacts : UploadArtifact(a)
  \/ \E mode \in Modes, worker \in BOOLEAN : CreateInitialEvaluation(mode, worker)
  \/ GetEvaluationContext \/ EvaluateWithConfiguredAI \/ NotConfigured \/ CallFails
  \/ \E m \in RubricMetrics \cup {Unknown}, score \in Scores, ref \in Refs : ValidateLLMOutput(m, score, ref)
  \/ AnswerEnds \/ StoreInitialEvaluation \/ Abort

EvaluationSpec == EvaluationInit /\ [][EvaluationNext]_evaluationVars

-----------------------------------------------------------------------------
(* Properties of what is stored *)

Stored == run.at = "stored"

(* An evaluation counts as completed only if the evidence it saw has every  *)
(* required kind and no text that speaks to the engine, and if the engine   *)
(* that was asked answered in good form.                                    *)
CompletedIsSound ==
  Stored =>
    (run.status = "completed" <=>
      /\ run.evidence # {}
      /\ spec.required \subseteq Kinds(run.evidence)
      /\ \A a \in run.evidence : "injection" \notin a.text
      /\ run.mode = "rule_only" \/ run.llmStatus = "succeeded")

(* Of an answer all suggestions are stored or none, and they are of the     *)
(* engine the log names, though another was asked before it; each is in the *)
(* range of its metric and about evidence of this evaluation.               *)
SuggestionsOfOneAnswer ==
  Stored =>
    /\ run.suggested # {} <=> run.llmStatus = "succeeded"
    /\ run.llmStatus = "skipped" <=> run.log = Unset
    /\ run.llmStatus = "succeeded" <=> run.log # Unset /\ run.log.status = "succeeded"
    /\ \A x \in run.suggested :
         /\ x.by = run.log.engine
         /\ x.score \in 0..Rubric[x.metric].max
         /\ x.ref = Unset \/ \E a \in run.evidence : a.id = x.ref
    /\ \A x, y \in run.suggested : x.metric = y.metric => x = y

(* However much is wrong, a rule score leaves a fifth of the maximum.       *)
(* Until then each missing kind costs 30 percent, and each upload 15 for    *)
(* its extraction, which stays queued: six files are enough for the lowest  *)
(* score.  Full marks mean that no finding costs a point.                   *)
RuleScoresFit ==
  Stored =>
    \A m \in RubricMetrics :
      LET max == Rubric[m].max
          missing == Cardinality(spec.required \ Kinds(run.evidence))
          uploads == Cardinality({a \in run.evidence : a.kind # "git_link"})
      IN  /\ RuleScore(m, run.evidence) <= max
          /\ 5 * RuleScore(m, run.evidence) >= max
          /\ run.evidence # {} => RuleScore(m, run.evidence) <= max - (max * Min({80, 30 * missing + 15 * uploads})) \div 100
          /\ RuleScore(m, run.evidence) = max => \A f \in CollectRuleFindings(run.evidence) : max * BasePenalty(f.severity) < 100

=============================================================================
