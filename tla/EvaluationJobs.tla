--------------------------- MODULE EvaluationJobs ---------------------------
(***************************************************************************)
(* Initial-evaluation jobs: the jobs table, the in-process worker pool that *)
(* serves it, and the evaluation_results the runs leave behind.             *)
(*                                                                          *)
(* A teacher's request inserts a row with status "queued" and sends its id  *)
(* on a buffered wake-up channel without blocking.  Every worker goroutine  *)
(* selects on the channel and on a one-second ticker; either way it then    *)
(* claims queued rows until none is left.  A claimed job is run in separate *)
(* database calls: read the evaluation context, store the result, write the *)
(* job's last status.  The errors of the last two calls on the jobs table   *)
(* are ignored by the code.                                                 *)
(*                                                                          *)
(* A runner is a goroutine that executes such a run: a worker of the pool,  *)
(* or (module ExternalWorkers) the handler of a worker's HTTP call.         *)
(***************************************************************************)
EXTENDS Naturals, Sequences

CONSTANTS
  Jobs,         \* ids of the jobs rows a behaviour may create
  Submissions,  \* submissions that jobs evaluate
  Workers,      \* goroutines of the in-process pool
  Handlers,     \* HTTP handler goroutines of the AI worker API
  WakeCap,      \* capacity of evaluationQueue
  MaxEvidence,  \* bound: artifacts uploaded to one submission
  MaxFaults,    \* bound: crashes and failed database calls in a behaviour
  None          \* no job

ASSUME QueueAssumption ==
  /\ WakeCap \in Nat
  /\ MaxEvidence \in Nat
  /\ MaxFaults \in Nat
  /\ None \notin Jobs
  /\ Workers \cap Handlers = {}

VARIABLES
  jobs,      \* rows of the jobs table, by id
  results,   \* rows of evaluation_results in the order of created_at
  evidence,  \* number of artifacts of each submission
  clock,     \* created_at of the next jobs row
  wake,      \* evaluationQueue, the wake-up channel
  runner,    \* local state of every goroutine that runs jobs
  faults     \* crashes and failed database calls so far

vars == <<jobs, results, evidence, clock, wake, runner, faults>>

Runners == Workers \cup Handlers
Statuses == {"absent", "queued", "running", "succeeded", "failed"}
Terminal == {"succeeded", "failed"}
Steps == {"idle", "mark", "drain", "build", "read", "insert", "complete", "fail"}

-----------------------------------------------------------------------------
(* Rows and local state.  "asked" is a history field: the number of         *)
(* artifacts when the job was requested.  A result row keeps the artifacts  *)
(* its snapshot lists ("seen") and those the model was shown ("scored");    *)
(* its id is its position, and 0 stands for a payload without result.       *)

NoRow == [status |-> "absent", submission |-> None, createdAt |-> 0,
          asked |-> 0, attempts |-> 0, result |-> 0]

Idle == [pc |-> "idle", job |-> None, seen |-> 0, scored |-> 0, eval |-> 0]

JobRows == [status : Statuses, submission : Submissions \cup {None}, createdAt : Nat,
            asked : Nat, attempts : Nat, result : Nat]

ResultRows == [job : Jobs, submission : Submissions \cup {None}, seen : Nat, scored : Nat]

RunnerStates == [pc : Steps, job : Jobs \cup {None}, seen : Nat, scored : Nat, eval : Nat]

TypeOK ==
  /\ jobs \in [Jobs -> JobRows]
  /\ results \in Seq(ResultRows)
  /\ evidence \in [Submissions -> 0..MaxEvidence]
  /\ clock \in Nat
  /\ wake \in Seq(Jobs)
  /\ runner \in [Runners -> RunnerStates]
  /\ faults \in 0..MaxFaults

Init ==
  /\ jobs = [j \in Jobs |-> NoRow]
  /\ results = <<>>
  /\ evidence = [s \in Submissions |-> 0]
  /\ clock = 0
  /\ wake = <<>>
  /\ runner = [w \in Runners |-> Idle]
  /\ faults = 0

-----------------------------------------------------------------------------
(* Statements on the jobs table. *)

(* Variant: a claim that takes rows left running as well. *)
QueuedOrRunning == {j \in Jobs : jobs[j].status \in {"queued", "running"}}

Queued == {j \in Jobs : jobs[j].status = "queued"}

Oldest == {j \in Queued : \A k \in Queued : jobs[j].createdAt <= jobs[k].createdAt}

Claim(j) ==
  jobs' = [jobs EXCEPT ![j].status = "running", ![j].attempts = @ + 1]

(* Variant: the status word of an evaluation in the row of a job. *)
CompleteWithEvaluationStatus(j, eval) ==
  jobs' = [jobs EXCEPT ![j].status = "completed", ![j].result = eval]

CompleteEvaluationJob(j, eval) ==
  jobs' = [jobs EXCEPT ![j].status = "succeeded", ![j].result = eval]

(* Variant: a failed run puts the job back in the queue. *)
RequeueFailed(j) ==
  jobs' = [jobs EXCEPT ![j].status = "queued"]

FailEvaluationJob(j) ==
  jobs' = [jobs EXCEPT ![j].status = "failed"]

(* A database call that returns an error, or a process that dies. *)
Fault == faults < MaxFaults /\ faults' = faults + 1

NoFault == UNCHANGED faults

Goto(w, pc) == runner' = [runner EXCEPT ![w].pc = pc]

Take(w, j, pc) == runner' = [runner EXCEPT ![w] = [Idle EXCEPT !.pc = pc, !.job = j]]

(* A worker goes on with the drain loop; a handler answers and ends. *)
Leave(w) ==
  runner' = [runner EXCEPT ![w] = IF w \in Workers THEN [Idle EXCEPT !.pc = "drain"] ELSE Idle]

-----------------------------------------------------------------------------
(* The teacher's request, and the uploads that go on meanwhile.             *)

(* The insert commits, then the id is offered to the channel; a full channel *)
(* drops it.  After a lost commit reply the request ends without an offer.  *)
SubmitInitialEvaluationJob(j, s) ==
  /\ jobs[j].status = "absent"
  /\ jobs' = [jobs EXCEPT ![j] = [NoRow EXCEPT !.status = "queued", !.submission = s,
                                               !.createdAt = clock, !.asked = evidence[s]]]
  /\ clock' = clock + 1
  /\ \/ Len(wake) < WakeCap /\ wake' = Append(wake, j) /\ NoFault
     \/ Len(wake) >= WakeCap /\ UNCHANGED wake /\ NoFault
     \/ Fault /\ UNCHANGED wake
  /\ UNCHANGED <<results, evidence, runner>>

UploadArtifact(s) ==
  /\ evidence[s] < MaxEvidence
  /\ evidence' = [evidence EXCEPT ![s] = @ + 1]
  /\ UNCHANGED <<jobs, results, clock, wake, runner, faults>>

-----------------------------------------------------------------------------
(* The loop of a pool worker. *)

WakeUp(w) ==
  /\ runner[w].pc = "idle"
  /\ wake # <<>>
  /\ wake' = Tail(wake)
  /\ Take(w, Head(wake), "mark")
  /\ UNCHANGED <<jobs, results, evidence, clock, faults>>

(* Variant: a ticker case that does not drain. *)
TickWithoutDrain(w) == runner[w].pc = "idle" /\ UNCHANGED vars

Tick(w) ==
  /\ runner[w].pc = "idle"
  /\ Goto(w, "drain")
  /\ UNCHANGED <<jobs, results, evidence, clock, wake, faults>>

(* Variant: the update of the wake-up does not test the status. *)
MarkUnconditionally(w) ==
  /\ runner[w].pc = "mark"
  /\ Claim(runner[w].job)
  /\ Take(w, runner[w].job, "read")
  /\ UNCHANGED <<results, evidence, clock, wake, faults>>

(* The job of the wake-up, if no other worker claimed it in the meantime.   *)
(* A lost reply leaves the row running with nobody at work on it.           *)
MarkEvaluationJobRunning(w) ==
  LET j == runner[w].job IN
  /\ runner[w].pc = "mark"
  /\ \/ jobs[j].status = "queued" /\ Claim(j) /\ Take(w, j, "read") /\ NoFault
     \/ jobs[j].status # "queued" /\ Leave(w) /\ NoFault /\ UNCHANGED jobs
     \/ /\ Fault
        /\ Leave(w)
        /\ (jobs[j].status = "queued" /\ Claim(j)) \/ UNCHANGED jobs
  /\ UNCHANGED <<results, evidence, clock, wake>>

(* One statement picks the oldest queued row, marks it running, returns it. *)
ClaimNextEvaluationJob(w, next) ==
  \/ \E j \in Oldest : Claim(j) /\ Take(w, j, next) /\ NoFault
  \/ Queued = {} /\ runner' = [runner EXCEPT ![w] = Idle] /\ NoFault /\ UNCHANGED jobs
  \/ /\ Fault
     /\ runner' = [runner EXCEPT ![w] = Idle]
     /\ (\E j \in Oldest : Claim(j)) \/ UNCHANGED jobs

DrainQueuedEvaluationJobs(w) ==
  /\ runner[w].pc = "drain"
  /\ ClaimNextEvaluationJob(w, "read")
  /\ UNCHANGED <<results, evidence, clock, wake>>

-----------------------------------------------------------------------------
(* One run of a claimed job, by a worker or a handler. *)

(* Variant: the snapshot is what there was when the job was requested. *)
ReadAtRequest(w) ==
  /\ runner[w].pc = "read"
  /\ runner' = [runner EXCEPT ![w].pc = "insert", ![w].seen = jobs[runner[w].job].asked]
  /\ UNCHANGED <<jobs, results, evidence, clock, wake, faults>>

(* Access check and context.  It fails when a query fails, when the teacher *)
(* lost the course or when the rubric has no metrics.  A worker has the     *)
(* model score the context just read; a handler brings the scores along.    *)
ReadContext(w) ==
  LET s == jobs[runner[w].job].submission IN
  /\ runner[w].pc = "read"
  /\ \/ runner' = [runner EXCEPT ![w].pc = "insert", ![w].seen = evidence[s],
                                 ![w].scored = IF w \in Workers THEN evidence[s] ELSE @]
     \/ Goto(w, "fail")
  /\ UNCHANGED <<jobs, results, evidence, clock, wake, faults>>

(* Variant: a transaction that reports an error is tried again. *)
InsertAndRetry(w) ==
  LET r == runner[w]
      row == [job |-> r.job, submission |-> jobs[r.job].submission,
              seen |-> r.seen, scored |-> r.scored]
  IN
  /\ r.pc = "insert"
  /\ results' = Append(results, row)
  /\ \/ runner' = [runner EXCEPT ![w].pc = "complete", ![w].eval = Len(results) + 1] /\ NoFault
     \/ UNCHANGED runner /\ Fault
  /\ UNCHANGED <<jobs, evidence, clock, wake>>

(* Result, findings, scores and audit row in one transaction.  After an     *)
(* error the run fails the job, and the transaction may have been committed. *)
InsertResult(w) ==
  LET r == runner[w]
      row == [job |-> r.job, submission |-> jobs[r.job].submission,
              seen |-> r.seen, scored |-> r.scored]
  IN
  /\ r.pc = "insert"
  /\ \/ /\ results' = Append(results, row)
        /\ runner' = [runner EXCEPT ![w].pc = "complete", ![w].eval = Len(results) + 1]
        /\ NoFault
     \/ Fault /\ Goto(w, "fail") /\ (results' = Append(results, row) \/ UNCHANGED results)
  /\ UNCHANGED <<jobs, evidence, clock, wake>>

(* Variant: the job is given the newest evaluation instead of its own. *)
CompleteWithNewest(w) ==
  /\ runner[w].pc = "complete"
  /\ CompleteEvaluationJob(runner[w].job, Len(results))
  /\ Leave(w)
  /\ UNCHANGED <<results, evidence, clock, wake, faults>>

(* Variant: the error path returns without writing the job. *)
AbandonRun(w) ==
  /\ runner[w].pc = "fail"
  /\ Leave(w)
  /\ UNCHANGED <<jobs, results, evidence, clock, wake, faults>>

(* Neither statement tests the status it overwrites, and an error of either *)
(* is dropped.                                                              *)
Complete(w) ==
  LET j == runner[w].job IN
  /\ runner[w].pc = "complete"
  /\ \/ CompleteEvaluationJob(j, runner[w].eval) /\ NoFault
     \/ Fault /\ (CompleteEvaluationJob(j, runner[w].eval) \/ UNCHANGED jobs)
  /\ Leave(w)
  /\ UNCHANGED <<results, evidence, clock, wake>>

Fail(w) ==
  LET j == runner[w].job IN
  /\ runner[w].pc = "fail"
  /\ \/ FailEvaluationJob(j) /\ NoFault
     \/ Fault /\ (FailEvaluationJob(j) \/ UNCHANGED jobs)
  /\ Leave(w)
  /\ UNCHANGED <<results, evidence, clock, wake>>

RunJob(w) == ReadContext(w) \/ InsertResult(w) \/ Complete(w) \/ Fail(w)

WorkerStep(w) ==
  \/ WakeUp(w)
  \/ Tick(w)
  \/ MarkEvaluationJobRunning(w)
  \/ DrainQueuedEvaluationJobs(w)
  \/ RunJob(w)

(* The process dies and is restarted: the tables stay, goroutines and       *)
(* channel start afresh, and nothing looks at rows left running.            *)
Crash ==
  /\ Fault
  /\ runner' = [w \in Runners |-> Idle]
  /\ wake' = <<>>
  /\ UNCHANGED <<jobs, results, evidence, clock>>

Next ==
  \/ \E j \in Jobs, s \in Submissions : SubmitInitialEvaluationJob(j, s)
  \/ \E s \in Submissions : UploadArtifact(s)
  \/ \E w \in Workers : WorkerStep(w)
  \/ Crash

(* A goroutine keeps running, its ticker keeps firing, and every call it    *)
(* makes has a timeout; nobody is obliged to ask for evaluations.           *)
Spec ==
  /\ Init
  /\ [][Next]_vars
  /\ \A w \in Workers : WF_vars(WorkerStep(w))

-----------------------------------------------------------------------------
(* Safety *)

Holding == {"build", "read", "insert", "complete", "fail"}

Holders(j) == {w \in Runners : runner[w].job = j /\ runner[w].pc \in Holding}

(* A job is never run by two goroutines at once, and its row is running     *)
(* while one of them is at work on it, although the pool takes jobs both    *)
(* from the channel and from the table.                                     *)
OneRunnerPerJob ==
  \A j \in Jobs, v, w \in Runners :
    v \in Holders(j) /\ w \in Holders(j) => v = w /\ jobs[j].status = "running"

(* A job leaves at most one row in evaluation_results, so a teacher who asks *)
(* once is never shown two evaluations.                                     *)
OneResultPerJob ==
  \A a, b \in DOMAIN results : results[a].job = results[b].job => a = b

(* A job that reports success carries a stored result of its own run, of    *)
(* its own submission, made from no less evidence than was there when the   *)
(* teacher asked.                                                           *)
SucceededHasOwnResult ==
  \A j \in Jobs : jobs[j].status = "succeeded" =>
    /\ jobs[j].result \in DOMAIN results
    /\ results[jobs[j].result].job = j
    /\ results[jobs[j].result].submission = jobs[j].submission
    /\ results[jobs[j].result].seen >= jobs[j].asked

-----------------------------------------------------------------------------
(* The inductive invariant behind the safety properties.                    *)

(* Handlers do nothing here, and a goroutine past "mark" knows its job.     *)
RunnersPlaced ==
  /\ \A h \in Handlers : runner[h] = Idle
  /\ \A w \in Runners : runner[w].pc \in Holding \cup {"mark"} => runner[w].job \in Jobs

(* A requested job names a submission, and evidence is never withdrawn.     *)
RequestsCovered ==
  \A j \in Jobs : jobs[j].status # "absent" =>
    /\ jobs[j].submission \in Submissions
    /\ jobs[j].asked <= evidence[jobs[j].submission]

(* Only a job under way or done may have a result.                          *)
UnstartedHasNoResult ==
  \A j \in Jobs : jobs[j].status \in {"absent", "queued"} =>
    \A a \in DOMAIN results : results[a].job # j

(* A row names an evaluation once it has succeeded, not before.             *)
NoEarlyResult == \A j \in Jobs : jobs[j].status # "succeeded" => jobs[j].result = 0

(* What a run has done so far agrees with evaluation_results: nothing       *)
(* before its insert, its own row after it.                                 *)
RunOnCourse ==
  \A w \in Runners :
    LET r == runner[w] IN
    /\ r.pc \in {"read", "insert"} => \A a \in DOMAIN results : results[a].job # r.job
    /\ r.pc = "insert" => r.seen >= jobs[r.job].asked
    /\ r.pc = "complete" =>
         /\ r.eval \in DOMAIN results
         /\ results[r.eval].job = r.job
         /\ results[r.eval].submission = jobs[r.job].submission
         /\ results[r.eval].seen >= jobs[r.job].asked

IInv ==
  /\ TypeOK
  /\ RunnersPlaced
  /\ OneRunnerPerJob
  /\ RequestsCovered
  /\ UnstartedHasNoResult
  /\ NoEarlyResult
  /\ RunOnCourse
  /\ OneResultPerJob
  /\ SucceededHasOwnResult

-----------------------------------------------------------------------------
(* Action properties *)

(* What GetEvaluationJob answers about a finished job stays the answer.     *)
TerminalIsFinal ==
  [][\A j \in Jobs : jobs[j].status \in Terminal => jobs'[j] = jobs[j]]_vars

-----------------------------------------------------------------------------
(* Liveness *)

(* A queued job is claimed although its wake-up may be dropped by a full    *)
(* channel or lost in a crash: the ticker finds it.                         *)
QueuedIsPickedUp ==
  \A j \in Jobs : (jobs[j].status = "queued") ~> (jobs[j].status # "queued")

(* It does so unless a call on the way fails or the process dies: nothing   *)
(* else, a refusal of the evaluation or a race for the job, leaves it open. *)
JobFinishesWithoutFault ==
  \A j \in Jobs : (jobs[j].status = "queued") ~> (jobs[j].status \in Terminal \/ faults > 0)

-----------------------------------------------------------------------------
(* Refinement *)

Contract == INSTANCE EvaluationJobContract WITH
  status     <- [j \in Jobs |-> jobs[j].status],
  evaluation <- [j \in Jobs |-> jobs[j].result]

(* To a client that polls GetEvaluationJob the queue behaves as the         *)
(* contract: whatever races, failed calls and restarts go on behind it.     *)
ImplementsContract == Contract!Spec
=============================================================================
