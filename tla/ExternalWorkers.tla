-------------------------- MODULE ExternalWorkers --------------------------
(***************************************************************************)
(* The AI worker API next to the in-process pool.  A worker process claims *)
(* a job over HTTP, scores the evidence it is sent, and posts a completion *)
(* or a failure; it may post again when an answer did not reach it.  Every *)
(* request is served by a handler goroutine that reads the status of the   *)
(* job once and then runs the same calls as a pool worker.                 *)
(*                                                                         *)
(* No setting stops the pool: EVALUATION_WORKER_MODE is parsed but the     *)
(* server starts the pool whatever its value.                              *)
(***************************************************************************)
EXTENDS EvaluationJobs

VARIABLE handed  \* work received by external workers: a job and what was shown of it

extVars == <<vars, handed>>

Work == [job : Jobs, scored : Nat]

ExtTypeOK == TypeOK /\ handed \subseteq Work

ExtInit == Init /\ handed = {}

-----------------------------------------------------------------------------
(* POST /internal/ai-worker/evaluation-jobs/claim *)

ClaimForWorker(h) ==
  /\ runner[h].pc = "idle"
  /\ Queued # {}
  /\ ClaimNextEvaluationJob(h, "build")
  /\ UNCHANGED <<results, evidence, clock, wake, handed>>

(* A rule_only job is handed out bare.  For rule_and_llm the context is read *)
(* and sent along; when that fails so does the job.  The answer may be lost *)
(* on its way to the worker.                                                *)
BuildWorkerRequest(h) ==
  LET j == runner[h].job IN
  /\ runner[h].pc = "build"
  /\ \/ /\ \E n \in {0, evidence[jobs[j].submission]} :
              handed' = handed \cup {[job |-> j, scored |-> n]}
        /\ Leave(h)
        /\ NoFault
     \/ Goto(h, "fail") /\ NoFault /\ UNCHANGED handed
     \/ Fault /\ Leave(h) /\ UNCHANGED handed
  /\ UNCHANGED <<jobs, results, evidence, clock, wake>>

-----------------------------------------------------------------------------
(* POST .../{jobID}/complete and .../{jobID}/fail.  Both pass only while the *)
(* row is running, and go on without looking again.                         *)

CompleteFromWorker(h, work) ==
  /\ runner[h].pc = "idle"
  /\ jobs[work.job].status = "running"
  /\ runner' = [runner EXCEPT ![h] = [Idle EXCEPT !.pc = "read", !.job = work.job,
                                                 !.scored = work.scored]]
  /\ UNCHANGED <<jobs, results, evidence, clock, wake, faults, handed>>

FailFromWorker(h, work) ==
  /\ runner[h].pc = "idle"
  /\ jobs[work.job].status = "running"
  /\ Take(h, work.job, "fail")
  /\ UNCHANGED <<jobs, results, evidence, clock, wake, faults, handed>>

(* The client goes away: its request context is cancelled, and with it      *)
(* every later database call of the handler.                                *)
Abort(h) ==
  /\ runner[h].pc # "idle"
  /\ Fault
  /\ runner' = [runner EXCEPT ![h] = Idle]
  /\ UNCHANGED <<jobs, results, evidence, clock, wake, handed>>

HandlerStep(h) ==
  \/ ClaimForWorker(h)
  \/ BuildWorkerRequest(h)
  \/ \E work \in handed : CompleteFromWorker(h, work) \/ FailFromWorker(h, work)
  \/ RunJob(h) /\ UNCHANGED handed
  \/ Abort(h)

ExtNext ==
  \/ Next /\ UNCHANGED handed
  \/ \E h \in Handlers : HandlerStep(h)

ExtSpec == ExtInit /\ [][ExtNext]_extVars

-----------------------------------------------------------------------------
(* Safety *)

(* A job is given to one party only: to one worker process, with one view   *)
(* of its evidence, or to one goroutine of the pool.                        *)
HandedToOne ==
  /\ \A a, b \in handed : a.job = b.job => a = b
  /\ \A a \in handed, w \in Workers : w \in Holders(a.job) => FALSE

(* The evidence the model was shown is part of the snapshot stored with its *)
(* scores, although a completion reads the context anew.                    *)
ScoredIsInSnapshot == \A a \in DOMAIN results : results[a].scored <= results[a].seen

(* A finished job is never started again. *)
NeverRestarted ==
  [][\A j \in Jobs : jobs[j].status \in Terminal => jobs'[j].status \in Terminal]_extVars

=============================================================================
