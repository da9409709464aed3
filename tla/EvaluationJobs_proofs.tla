----------------------- MODULE EvaluationJobs_proofs -----------------------
(* Proofs about the job queue and the pool, for any number of jobs, workers, *)
(* submissions, faults and uploads.                                          *)
(*                                                                           *)
(* The first part says what the statements on the jobs table and the moves   *)
(* of a goroutine do, row by row and field by field.  The second shows that  *)
(* each kind of step keeps the inductive invariant IInv, from those facts    *)
(* alone.  The third fits every action of Next to its kind.  The last does   *)
(* the same for ExternalWorkers, whose handlers run the same statements.     *)
EXTENDS ExternalWorkers, TLAPS

-----------------------------------------------------------------------------
(* Statements and moves *)

(* The other rows, and the columns an update does not name, stay.            *)
SameRequest(j) ==
  /\ jobs'[j].submission = jobs[j].submission
  /\ jobs'[j].asked = jobs[j].asked

OtherRowsSame(j) == \A k \in Jobs \ {j} : jobs'[k] = jobs[k]

OthersSame(w) == \A v \in Runners \ {w} : runner'[v] = runner[v]

LEMMA ClaimEffect ==
  ASSUME TypeOK, NEW j \in Jobs, Claim(j)
  PROVE  /\ jobs' \in [Jobs -> JobRows]
         /\ jobs'[j].status = "running"
         /\ jobs'[j].result = jobs[j].result
         /\ SameRequest(j)
         /\ OtherRowsSame(j)
<1>1. jobs \in [Jobs -> JobRows] /\ jobs[j] \in JobRows
  BY DEF TypeOK
<1>2. \A n \in Nat : [jobs[j] EXCEPT !.status = "running", !.attempts = n] \in JobRows
  BY <1>1 DEF JobRows, Statuses
<1>3. jobs[j].attempts + 1 \in Nat
  BY <1>1 DEF JobRows
<1>4. jobs' \in [Jobs -> JobRows]
  BY <1>1, <1>2, <1>3 DEF Claim
<1>5. jobs'[j] = [jobs[j] EXCEPT !.status = "running", !.attempts = @ + 1] /\ OtherRowsSame(j)
  BY <1>1 DEF Claim, OtherRowsSame
<1> QED BY <1>1, <1>4, <1>5 DEF JobRows, SameRequest

LEMMA CompleteEffect ==
  ASSUME TypeOK, NEW j \in Jobs, NEW e \in Nat, CompleteEvaluationJob(j, e)
  PROVE  /\ jobs' \in [Jobs -> JobRows]
         /\ jobs'[j].status = "succeeded"
         /\ jobs'[j].result = e
         /\ SameRequest(j)
         /\ OtherRowsSame(j)
<1>1. jobs \in [Jobs -> JobRows] /\ jobs[j] \in JobRows
  BY DEF TypeOK
<1>2. [jobs[j] EXCEPT !.status = "succeeded", !.result = e] \in JobRows
  BY <1>1 DEF JobRows, Statuses
<1>3. jobs'[j] = [jobs[j] EXCEPT !.status = "succeeded", !.result = e] /\ OtherRowsSame(j)
  BY <1>1 DEF CompleteEvaluationJob, OtherRowsSame
<1>4. jobs' \in [Jobs -> JobRows]
  BY <1>1, <1>2 DEF CompleteEvaluationJob
<1> QED BY <1>1, <1>3, <1>4 DEF JobRows, SameRequest

LEMMA FailEffect ==
  ASSUME TypeOK, NEW j \in Jobs, FailEvaluationJob(j)
  PROVE  /\ jobs' \in [Jobs -> JobRows]
         /\ jobs'[j].status = "failed"
         /\ jobs'[j].result = jobs[j].result
         /\ SameRequest(j)
         /\ OtherRowsSame(j)
<1>1. jobs \in [Jobs -> JobRows] /\ jobs[j] \in JobRows
  BY DEF TypeOK
<1>2. [jobs[j] EXCEPT !.status = "failed"] \in JobRows
  BY <1>1 DEF JobRows, Statuses
<1>3. jobs'[j] = [jobs[j] EXCEPT !.status = "failed"] /\ OtherRowsSame(j)
  BY <1>1 DEF FailEvaluationJob, OtherRowsSame
<1>4. jobs' \in [Jobs -> JobRows]
  BY <1>1, <1>2 DEF FailEvaluationJob
<1> QED BY <1>1, <1>3, <1>4 DEF JobRows, SameRequest

LEMMA GotoEffect ==
  ASSUME TypeOK, NEW w \in Runners, NEW pc \in Steps, Goto(w, pc)
  PROVE  /\ runner' \in [Runners -> RunnerStates]
         /\ runner'[w].pc = pc
         /\ runner'[w].job = runner[w].job
         /\ OthersSame(w)
<1>1. runner \in [Runners -> RunnerStates] /\ runner[w] \in RunnerStates
  BY DEF TypeOK
<1>2. [runner[w] EXCEPT !.pc = pc] \in RunnerStates
  BY <1>1 DEF RunnerStates
<1>3. runner'[w] = [runner[w] EXCEPT !.pc = pc] /\ OthersSame(w)
  BY <1>1 DEF Goto, OthersSame
<1>4. runner' \in [Runners -> RunnerStates]
  BY <1>1, <1>2 DEF Goto
<1> QED BY <1>1, <1>3, <1>4 DEF RunnerStates

LEMMA TakeEffect ==
  ASSUME TypeOK, NEW w \in Runners, NEW j \in Jobs, NEW pc \in Steps, Take(w, j, pc)
  PROVE  /\ runner' \in [Runners -> RunnerStates]
         /\ runner'[w].pc = pc
         /\ runner'[w].job = j
         /\ OthersSame(w)
<1>1. runner \in [Runners -> RunnerStates]
  BY DEF TypeOK
<1>2. [Idle EXCEPT !.pc = pc, !.job = j] \in RunnerStates
  BY DEF RunnerStates, Idle
<1>3. runner'[w] = [Idle EXCEPT !.pc = pc, !.job = j] /\ OthersSame(w)
  BY <1>1 DEF Take, OthersSame
<1>4. runner' \in [Runners -> RunnerStates]
  BY <1>1, <1>2 DEF Take
<1> QED BY <1>3, <1>4 DEF Idle

(* However a worker lets go of a job, it ends up outside a run.              *)
LEMMA LeaveEffect ==
  ASSUME TypeOK, NEW w \in Workers,
         Leave(w) \/ runner' = [runner EXCEPT ![w] = Idle]
  PROVE  /\ runner' \in [Runners -> RunnerStates]
         /\ runner'[w].pc \in {"idle", "drain"}
         /\ OthersSame(w)
<1>1. runner \in [Runners -> RunnerStates] /\ w \in Runners
  BY DEF TypeOK, Runners
<1>2. [Idle EXCEPT !.pc = "drain"] \in RunnerStates /\ Idle \in RunnerStates
  BY DEF RunnerStates, Steps, Idle
<1>3. /\ runner'[w] = [Idle EXCEPT !.pc = "drain"] \/ runner'[w] = Idle
      /\ OthersSame(w)
  BY <1>1 DEF Leave, OthersSame
<1>4. runner' \in [Runners -> RunnerStates]
  BY <1>1, <1>2 DEF Leave
<1> QED BY <1>3, <1>4 DEF Idle

LEMMA FaultsTyped ==
  ASSUME TypeOK, Fault \/ NoFault
  PROVE  faults' \in 0..MaxFaults
  BY QueueAssumption DEF TypeOK, Fault, NoFault
-----------------------------------------------------------------------------
(* Kinds of steps *)

(* Outside a run: a goroutine that has let go, or that may still claim.      *)
Free(r) == r.pc \notin Holding /\ (r.pc = "mark" => r.job \in Jobs)

(* The only ways a row changes.  A job that becomes succeeded names a stored *)
(* result of its own.                                                        *)
RowStep(j) ==
  /\ OtherRowsSame(j)
  /\ \/ jobs[j].status = "absent" /\ jobs'[j].status = "queued" /\ jobs'[j].result = 0
     \/ /\ jobs[j].status = "queued" /\ jobs'[j].status = "running"
        /\ jobs'[j].result = jobs[j].result
     \/ /\ jobs[j].status = "running" /\ jobs'[j].status = "failed"
        /\ jobs'[j].result = jobs[j].result
     \/ /\ jobs[j].status = "running" /\ jobs'[j].status = "succeeded"
        /\ jobs'[j].result \in DOMAIN results
        /\ results[jobs'[j].result].job = j

HandlersRest == \A h \in Handlers : runner'[h] = Idle

(* Goroutines let go of their jobs; the tables stay.                         *)
LEMMA LetGo ==
  ASSUME IInv, TypeOK', HandlersRest,
         UNCHANGED <<jobs, results, evidence>>,
         \A v \in Runners : runner'[v] = runner[v] \/ Free(runner'[v])
  PROVE  IInv'
<1> USE DEF IInv, Free, HandlersRest
<1>1. RunnersPlaced'
  BY DEF RunnersPlaced
<1>2. OneRunnerPerJob'
  BY DEF OneRunnerPerJob, Holders
<1>3. RequestsCovered' /\ UnstartedHasNoResult' /\ NoEarlyResult'
  BY DEF RequestsCovered, UnstartedHasNoResult, NoEarlyResult
<1>4. RunOnCourse'
  BY DEF RunOnCourse, Holding
<1>5. OneResultPerJob' /\ SucceededHasOwnResult'
  BY DEF OneResultPerJob, SucceededHasOwnResult
<1> QED BY <1>1, <1>2, <1>3, <1>4, <1>5

(* A queued row becomes running, for a worker that begins the run or for one *)
(* that never hears of it.                                                   *)
LEMMA Claimed ==
  ASSUME IInv, TypeOK', HandlersRest,
         NEW j \in Jobs, jobs[j].status = "queued", Claim(j),
         UNCHANGED <<results, evidence>>,
         NEW w \in Workers, OthersSame(w), runner[w].pc \notin Holding,
         \/ runner'[w].pc = "read" /\ runner'[w].job = j
         \/ runner'[w].pc \in {"idle", "drain"}
  PROVE  IInv' /\ RowStep(j)
<1> USE DEF IInv, OthersSame, OtherRowsSame, SameRequest
<1>0. /\ jobs'[j].status = "running"
      /\ jobs'[j].result = jobs[j].result
      /\ SameRequest(j)
      /\ OtherRowsSame(j)
  BY ClaimEffect
<1>h. w \in Runners /\ \A v \in Runners : v \notin Holders(j)
  BY DEF OneRunnerPerJob, Runners
<1>1. RunnersPlaced'
  BY DEF RunnersPlaced, HandlersRest, Holding
<1>2. OneRunnerPerJob'
  <2>1. \A v \in Runners : runner'[v].pc \in Holding =>
          \/ v = w /\ runner'[v].job = j
          \/ v # w /\ runner'[v] = runner[v] /\ runner[v].job # j
    BY <1>h DEF Holders, Holding
  <2> QED BY <2>1, <1>0 DEF OneRunnerPerJob, Holders
<1>3. RequestsCovered' /\ NoEarlyResult'
  BY <1>0 DEF RequestsCovered, NoEarlyResult
<1>4. UnstartedHasNoResult'
  BY <1>0 DEF UnstartedHasNoResult
<1>5. RunOnCourse'
  <2>1. \A v \in Runners \ {w} : runner[v].pc \in Holding =>
          runner[v].job \in Jobs \ {j} /\ jobs'[runner[v].job] = jobs[runner[v].job]
    BY <1>0, <1>h DEF Holders, RunnersPlaced
  <2>2. \A a \in DOMAIN results : results[a].job # j
    BY DEF UnstartedHasNoResult
  <2>3. ASSUME NEW v \in Runners, v # w
        PROVE  /\ runner'[v] = runner[v]
               /\ runner[v].pc \in {"insert", "complete"} =>
                    jobs'[runner[v].job] = jobs[runner[v].job]
    BY <2>1, <2>3 DEF Holding
  <2> QED BY <2>2, <2>3 DEF RunOnCourse
<1>6. OneResultPerJob' /\ SucceededHasOwnResult'
  BY <1>0 DEF OneResultPerJob, SucceededHasOwnResult
<1>rs. RowStep(j)
  BY <1>0 DEF RowStep
<1> QED BY <1>1, <1>2, <1>3, <1>4, <1>5, <1>6, <1>rs

(* A run goes on to its next call, the tables being as they were.            *)
LEMMA MovesOn ==
  ASSUME IInv, TypeOK', HandlersRest,
         UNCHANGED <<jobs, results, evidence>>,
         NEW w \in Workers, OthersSame(w), runner[w].pc \in Holding,
         runner'[w].job = runner[w].job,
         \/ runner'[w].pc = "fail"
         \/ /\ runner[w].pc = "read" /\ runner'[w].pc = "insert"
            /\ runner'[w].seen = evidence[jobs[runner[w].job].submission]
  PROVE  IInv'
<1> USE DEF IInv, OthersSame
<1>0. w \in Runners /\ runner[w].job \in Jobs
  BY DEF RunnersPlaced, Runners
<1>1. RunnersPlaced'
  BY <1>0 DEF RunnersPlaced, HandlersRest
<1>2. OneRunnerPerJob'
  BY <1>0 DEF OneRunnerPerJob, Holders
<1>3. RequestsCovered' /\ UnstartedHasNoResult' /\ NoEarlyResult'
  BY DEF RequestsCovered, UnstartedHasNoResult, NoEarlyResult
<1>4. RunOnCourse'
  <2>1. CASE runner'[w].pc = "fail"
    BY <2>1 DEF RunOnCourse
  <2>2. CASE /\ runner[w].pc = "read" /\ runner'[w].pc = "insert"
             /\ runner'[w].seen = evidence[jobs[runner[w].job].submission]
    <3>1. jobs[runner[w].job].status = "running"
      BY <1>0 DEF OneRunnerPerJob, Holders
    <3>2. jobs[runner[w].job].asked <= runner'[w].seen
      BY <2>2, <3>1, <1>0 DEF RequestsCovered
    <3>3. jobs[runner[w].job].asked \in Nat /\ runner'[w].seen \in Nat
      BY <1>0 DEF TypeOK, JobRows, RunnerStates
    <3>4. runner'[w].seen >= jobs[runner[w].job].asked
      BY <3>2, <3>3
    <3> QED BY <2>2, <3>4, <1>0 DEF RunOnCourse
  <2> QED BY <2>1, <2>2
<1>5. OneResultPerJob' /\ SucceededHasOwnResult'
  BY DEF OneResultPerJob, SucceededHasOwnResult
<1> QED BY <1>1, <1>2, <1>3, <1>4, <1>5

(* The row a run stores in evaluation_results.                               *)
RowOf(w) ==
  [job |-> runner[w].job, submission |-> jobs[runner[w].job].submission,
   seen |-> runner[w].seen, scored |-> runner[w].scored]

(* A run stores its result and goes on to report it, or the reply is lost.   *)
LEMMA ResultStored ==
  ASSUME IInv, TypeOK', HandlersRest,
         UNCHANGED <<jobs, evidence>>,
         NEW w \in Workers, OthersSame(w), runner[w].pc = "insert",
         results' = Append(results, RowOf(w)),
         runner'[w].job = runner[w].job,
         \/ runner'[w].pc = "fail"
         \/ runner'[w].pc = "complete" /\ runner'[w].eval = Len(results) + 1
  PROVE  IInv'
<1> DEFINE n == Len(results) + 1
           j == runner[w].job
<1> USE DEF IInv, OthersSame
<1>0. /\ w \in Runners /\ j \in Jobs /\ w \in Holders(j)
      /\ jobs[j].status = "running"
      /\ \A v \in Runners \ {w} : runner[v].pc \in Holding => runner[v].job # j
  BY DEF RunnersPlaced, Runners, OneRunnerPerJob, Holders, Holding
<1>h. (\A a \in DOMAIN results : results[a].job # j) /\ runner[w].seen >= jobs[j].asked
  BY <1>0 DEF RunOnCourse
<1>s. /\ DOMAIN results' = DOMAIN results \cup {n}
      /\ n \notin DOMAIN results
      /\ \A a \in DOMAIN results : results'[a] = results[a]
      /\ results'[n] = RowOf(w)
  BY DEF TypeOK
<1>r. /\ results'[n].job = j
      /\ results'[n].submission = jobs[j].submission
      /\ results'[n].seen = runner[w].seen
  BY <1>s DEF RowOf
<1> HIDE DEF n
<1>1. RunnersPlaced'
  BY <1>0 DEF RunnersPlaced, HandlersRest
<1>2. OneRunnerPerJob'
  BY <1>0 DEF OneRunnerPerJob, Holders, Holding
<1>3. RequestsCovered' /\ NoEarlyResult'
  BY DEF RequestsCovered, NoEarlyResult
<1>4. UnstartedHasNoResult'
  BY <1>0, <1>s, <1>r DEF UnstartedHasNoResult
<1>5. RunOnCourse'
  <2>1. ASSUME NEW v \in Runners, v # w
        PROVE  /\ runner'[v] = runner[v]
               /\ runner[v].pc \in {"read", "insert"} => runner[v].job # j
    BY <1>0, <2>1 DEF Holding
  <2>2. runner'[w].pc = "complete" => runner'[w].eval = n
    BY DEF n
  <2> QED BY <2>1, <2>2, <1>h, <1>s, <1>r DEF RunOnCourse
<1>6. OneResultPerJob'
  BY <1>h, <1>s, <1>r DEF OneResultPerJob
<1>7. SucceededHasOwnResult'
  BY <1>s DEF SucceededHasOwnResult
<1> QED BY <1>1, <1>2, <1>3, <1>4, <1>5, <1>6, <1>7

(* A run writes the last status of its job and lets go of it.                *)
LEMMA Ended ==
  ASSUME IInv, TypeOK', HandlersRest,
         UNCHANGED <<results, evidence>>,
         NEW w \in Workers, OthersSame(w), runner'[w].pc \in {"idle", "drain"},
         \/ runner[w].pc = "complete" /\ CompleteEvaluationJob(runner[w].job, runner[w].eval)
         \/ runner[w].pc = "fail" /\ FailEvaluationJob(runner[w].job)
  PROVE  IInv' /\ RowStep(runner[w].job)
<1> DEFINE j == runner[w].job
<1> USE DEF IInv, OthersSame, OtherRowsSame, SameRequest
<1>0. /\ w \in Runners /\ j \in Jobs /\ w \in Holders(j)
      /\ jobs[j].status = "running"
      /\ \A v \in Runners \ {w} : runner[v].pc \in Holding => runner[v].job # j
  BY DEF RunnersPlaced, Runners, OneRunnerPerJob, Holders, Holding
<1>e. /\ SameRequest(j)
      /\ OtherRowsSame(j)
      /\ \/ /\ jobs'[j].status = "succeeded"
            /\ runner[w].pc = "complete" /\ jobs'[j].result = runner[w].eval
         \/ jobs'[j].status = "failed" /\ jobs'[j].result = jobs[j].result
  <2>1. runner[w].eval \in Nat
    BY <1>0 DEF TypeOK, RunnerStates
  <2> QED BY <2>1, <1>0, CompleteEffect, FailEffect
<1>1. RunnersPlaced'
  BY <1>0 DEF RunnersPlaced, HandlersRest, Holding
<1>2. OneRunnerPerJob'
  BY <1>0, <1>e DEF OneRunnerPerJob, Holders, Holding
<1>3. RequestsCovered' /\ NoEarlyResult'
  BY <1>0, <1>e DEF RequestsCovered, NoEarlyResult
<1>4. UnstartedHasNoResult'
  BY <1>e DEF UnstartedHasNoResult
<1>5. RunOnCourse'
  <2>1. ASSUME NEW v \in Runners, v # w
        PROVE  /\ runner'[v] = runner[v]
               /\ runner[v].pc \in {"insert", "complete"} =>
                    jobs'[runner[v].job] = jobs[runner[v].job]
    BY <1>0, <1>e, <2>1 DEF Holding, RunnersPlaced
  <2> QED BY <2>1 DEF RunOnCourse
<1>6. OneResultPerJob'
  BY DEF OneResultPerJob
<1>7. SucceededHasOwnResult'
  BY <1>0, <1>e DEF SucceededHasOwnResult, RunOnCourse
<1>rs. RowStep(j)
  BY <1>0, <1>e DEF RowStep, RunOnCourse
<1> QED BY <1>1, <1>2, <1>3, <1>4, <1>5, <1>6, <1>7, <1>rs

(* A request adds a queued row.                                              *)
LEMMA Requested ==
  ASSUME IInv, TypeOK', UNCHANGED <<results, evidence, runner>>,
         NEW j \in Jobs, jobs[j].status = "absent",
         jobs'[j].status = "queued", jobs'[j].result = 0,
         jobs'[j].submission \in Submissions,
         jobs'[j].asked = evidence[jobs'[j].submission],
         OtherRowsSame(j)
  PROVE  IInv' /\ RowStep(j)
<1> USE DEF IInv, OtherRowsSame
<1>0. \A v \in Runners : runner[v].pc \in Holding => runner[v].job \in Jobs \ {j}
  BY DEF OneRunnerPerJob, Holders, RunnersPlaced
<1>1. RunnersPlaced'
  BY DEF RunnersPlaced
<1>2. OneRunnerPerJob'
  BY <1>0 DEF OneRunnerPerJob, Holders
<1>3. RequestsCovered'
  <2>1. evidence[jobs'[j].submission] \in Nat
    BY QueueAssumption DEF TypeOK
  <2> QED BY <2>1 DEF RequestsCovered
<1>4. UnstartedHasNoResult' /\ NoEarlyResult'
  BY DEF UnstartedHasNoResult, NoEarlyResult
<1>5. RunOnCourse'
  <2>1. \A v \in Runners : runner[v].pc \in {"insert", "complete"} =>
          jobs'[runner[v].job] = jobs[runner[v].job]
    BY <1>0 DEF Holding
  <2> QED BY <2>1 DEF RunOnCourse
<1>6. OneResultPerJob' /\ SucceededHasOwnResult'
  BY DEF OneResultPerJob, SucceededHasOwnResult
<1>rs. RowStep(j)
  BY DEF RowStep
<1> QED BY <1>1, <1>2, <1>3, <1>4, <1>5, <1>6, <1>rs

-----------------------------------------------------------------------------
(* The actions *)

LEMMA TypesKept ==
  ASSUME TypeOK, Fault \/ NoFault,
         jobs' \in [Jobs -> JobRows], runner' \in [Runners -> RunnerStates],
         UNCHANGED <<results, evidence, clock, wake>>
  PROVE  TypeOK'
  BY FaultsTyped DEF TypeOK

(* A worker is no handler, so the handlers' states are among the others.     *)
LEMMA HandlersApart ==
  ASSUME RunnersPlaced, NEW w \in Workers, OthersSame(w)
  PROVE  HandlersRest
  BY QueueAssumption DEF HandlersRest, OthersSame, RunnersPlaced, Runners

Kept == IInv' /\ (UNCHANGED jobs \/ \E j \in Jobs : RowStep(j))

LEMMA SubmitKeeps ==
  ASSUME IInv, NEW j \in Jobs, NEW s \in Submissions, SubmitInitialEvaluationJob(j, s)
  PROVE  Kept
<1> DEFINE row == [NoRow EXCEPT !.status = "queued", !.submission = s,
                                !.createdAt = clock, !.asked = evidence[s]]
<1>1. evidence[s] \in Nat /\ clock \in Nat /\ clock' = clock + 1 /\ faults' \in 0..MaxFaults
  BY QueueAssumption, FaultsTyped DEF IInv, TypeOK, SubmitInitialEvaluationJob
<1>2. row \in JobRows
  BY <1>1 DEF NoRow, JobRows, Statuses
<1>3. jobs' = [jobs EXCEPT ![j] = row] /\ jobs \in [Jobs -> JobRows]
  BY DEF SubmitInitialEvaluationJob, IInv, TypeOK
<1>4. jobs' \in [Jobs -> JobRows] /\ jobs'[j] = row /\ OtherRowsSame(j)
  BY <1>2, <1>3 DEF OtherRowsSame
<1>5. wake' \in Seq(Jobs)
  <2>1. wake \in Seq(Jobs) /\ (wake' = Append(wake, j) \/ wake' = wake)
    BY DEF SubmitInitialEvaluationJob, IInv, TypeOK
  <2> QED BY <2>1
<1>6. TypeOK'
  BY <1>1, <1>4, <1>5 DEF SubmitInitialEvaluationJob, IInv, TypeOK
<1>7. /\ jobs'[j].status = "queued" /\ jobs'[j].result = 0
      /\ jobs'[j].submission = s /\ jobs'[j].asked = evidence[s]
  BY <1>4 DEF NoRow
<1> QED BY <1>4, <1>6, <1>7, Requested DEF SubmitInitialEvaluationJob, Kept

LEMMA UploadKeeps ==
  ASSUME IInv, NEW s \in Submissions, UploadArtifact(s)
  PROVE  Kept
<1>1. /\ evidence \in [Submissions -> 0..MaxEvidence]
      /\ evidence' = [evidence EXCEPT ![s] = @ + 1]
      /\ UNCHANGED <<jobs, results, clock, wake, runner, faults>>
      /\ evidence[s] < MaxEvidence
  BY DEF UploadArtifact, IInv, TypeOK
<1>2. evidence' \in [Submissions -> 0..MaxEvidence]
  BY <1>1, QueueAssumption
<1>3. \A t \in Submissions : evidence[t] <= evidence'[t]
  BY <1>1
<1>4. TypeOK'
  BY <1>1, <1>2 DEF IInv, TypeOK
<1>5. RequestsCovered'
  <2>1. \A j \in Jobs : jobs[j].asked \in Nat
    BY DEF IInv, TypeOK, JobRows
  <2>2. ASSUME NEW j \in Jobs, jobs[j].status # "absent"
        PROVE  /\ jobs[j].submission \in Submissions
               /\ jobs[j].asked <= evidence'[jobs[j].submission]
    <3>1. /\ jobs[j].submission \in Submissions
          /\ jobs[j].asked <= evidence[jobs[j].submission]
      BY <2>2 DEF IInv, RequestsCovered
    <3> QED BY <2>1, <3>1, <1>1, <1>2, <1>3, QueueAssumption
  <2> QED BY <2>2, <1>1 DEF RequestsCovered
<1>6. /\ RunnersPlaced' /\ OneRunnerPerJob' /\ UnstartedHasNoResult' /\ NoEarlyResult'
      /\ RunOnCourse' /\ OneResultPerJob' /\ SucceededHasOwnResult'
  BY <1>1 DEF IInv, RunnersPlaced, OneRunnerPerJob, Holders, UnstartedHasNoResult,
              NoEarlyResult, RunOnCourse, OneResultPerJob, SucceededHasOwnResult
<1> QED BY <1>1, <1>4, <1>5, <1>6 DEF IInv, Kept

LEMMA WakeUpKeeps ==
  ASSUME IInv, NEW w \in Workers, WakeUp(w)
  PROVE  Kept
<1>1. /\ Head(wake) \in Jobs
      /\ wake' \in Seq(Jobs)
      /\ UNCHANGED <<jobs, results, evidence, clock, faults>>
  BY DEF WakeUp, IInv, TypeOK
<1>2. /\ runner' \in [Runners -> RunnerStates] /\ OthersSame(w)
      /\ runner'[w].pc = "mark" /\ runner'[w].job \in Jobs
  <2>1. w \in Runners /\ "mark" \in Steps
    BY DEF Runners, Steps
  <2> QED BY <1>1, <2>1, TakeEffect DEF WakeUp, IInv
<1>3. TypeOK'
  BY <1>1, <1>2 DEF IInv, TypeOK
<1>4. HandlersRest
  BY <1>2, HandlersApart DEF IInv
<1>5. \A v \in Runners : runner'[v] = runner[v] \/ Free(runner'[v])
  BY <1>2 DEF Free, OthersSame, Holding
<1> QED BY <1>1, <1>3, <1>4, <1>5, LetGo DEF Kept

LEMMA TickKeeps ==
  ASSUME IInv, NEW w \in Workers, Tick(w)
  PROVE  Kept
<1>1. /\ runner' \in [Runners -> RunnerStates] /\ OthersSame(w)
      /\ runner'[w].pc = "drain"
  <2>1. w \in Runners /\ "drain" \in Steps
    BY DEF Runners, Steps
  <2> QED BY <2>1, GotoEffect DEF Tick, IInv
<1>2. TypeOK'
  BY <1>1 DEF Tick, IInv, TypeOK
<1>3. HandlersRest
  BY <1>1, HandlersApart DEF IInv
<1>4. \A v \in Runners : runner'[v] = runner[v] \/ Free(runner'[v])
  BY <1>1 DEF Free, OthersSame, Holding
<1> QED BY <1>2, <1>3, <1>4, LetGo DEF Tick, Kept

(* What marking and draining share: a claim that is heard of or not, and a   *)
(* worker that goes away with the tables as they were.                       *)
LEMMA ClaimKeeps ==
  ASSUME IInv, NEW w \in Workers, runner[w].pc \notin Holding,
         NEW j \in Jobs, jobs[j].status = "queued", Claim(j),
         Take(w, j, "read") \/ Leave(w) \/ runner' = [runner EXCEPT ![w] = Idle],
         Fault \/ NoFault,
         UNCHANGED <<results, evidence, clock, wake>>
  PROVE  Kept
<1>1. /\ runner' \in [Runners -> RunnerStates]
      /\ OthersSame(w)
      /\ \/ runner'[w].pc = "read" /\ runner'[w].job = j
         \/ runner'[w].pc \in {"idle", "drain"}
  <2>1. w \in Runners /\ "read" \in Steps
    BY DEF Runners, Steps
  <2> QED BY <2>1, TakeEffect, LeaveEffect DEF IInv
<1>2. TypeOK'
  BY <1>1, ClaimEffect, TypesKept DEF IInv
<1>3. HandlersRest
  BY <1>1, HandlersApart DEF IInv
<1> QED BY <1>1, <1>2, <1>3, Claimed DEF Kept

LEMMA LeaveKeeps ==
  ASSUME IInv, NEW w \in Workers,
         Leave(w) \/ runner' = [runner EXCEPT ![w] = Idle],
         Fault \/ NoFault,
         UNCHANGED <<jobs, results, evidence, clock, wake>>
  PROVE  Kept
<1>1. /\ runner' \in [Runners -> RunnerStates]
      /\ OthersSame(w)
      /\ runner'[w].pc \in {"idle", "drain"}
  BY LeaveEffect DEF IInv
<1>2. TypeOK'
  <2>1. jobs' \in [Jobs -> JobRows]
    BY DEF IInv, TypeOK
  <2> QED BY <1>1, <2>1, TypesKept DEF IInv
<1>3. HandlersRest
  BY <1>1, HandlersApart DEF IInv
<1>4. \A v \in Runners : runner'[v] = runner[v] \/ Free(runner'[v])
  BY <1>1 DEF Free, OthersSame, Holding
<1> QED BY <1>2, <1>3, <1>4, LetGo DEF Kept

LEMMA MarkKeeps ==
  ASSUME IInv, NEW w \in Workers, MarkEvaluationJobRunning(w)
  PROVE  Kept
<1> DEFINE j == runner[w].job
<1>1. j \in Jobs /\ runner[w].pc \notin Holding
  BY DEF MarkEvaluationJobRunning, IInv, RunnersPlaced, Runners, Holding
<1>2. UNCHANGED <<results, evidence, clock, wake>>
  BY DEF MarkEvaluationJobRunning
<1>3. CASE jobs[j].status = "queued" /\ Claim(j) /\ Take(w, j, "read") /\ NoFault
  BY <1>1, <1>2, <1>3, ClaimKeeps
<1>4. CASE jobs[j].status = "queued" /\ Claim(j) /\ Leave(w) /\ Fault
  BY <1>1, <1>2, <1>4, ClaimKeeps
<1>5. CASE UNCHANGED jobs /\ Leave(w) /\ (Fault \/ NoFault)
  BY <1>2, <1>5, LeaveKeeps
<1> QED BY <1>3, <1>4, <1>5 DEF MarkEvaluationJobRunning

LEMMA DrainKeeps ==
  ASSUME IInv, NEW w \in Workers, DrainQueuedEvaluationJobs(w)
  PROVE  Kept
<1>1. /\ runner[w].pc \notin Holding
      /\ ClaimNextEvaluationJob(w, "read")
      /\ UNCHANGED <<results, evidence, clock, wake>>
  BY DEF DrainQueuedEvaluationJobs, Holding
<1>2. \A j \in Oldest : j \in Jobs /\ jobs[j].status = "queued"
  BY DEF Oldest, Queued
<1>3. CASE \E j \in Oldest : Claim(j) /\ Take(w, j, "read") /\ NoFault
  BY <1>1, <1>2, <1>3, ClaimKeeps
<1>4. CASE /\ Fault
           /\ runner' = [runner EXCEPT ![w] = Idle]
           /\ \E j \in Oldest : Claim(j)
  BY <1>1, <1>2, <1>4, ClaimKeeps
<1>5. CASE /\ Fault \/ NoFault
           /\ runner' = [runner EXCEPT ![w] = Idle]
           /\ UNCHANGED jobs
  BY <1>1, <1>5, LeaveKeeps
<1> QED BY <1>1, <1>3, <1>4, <1>5 DEF ClaimNextEvaluationJob

(* Moving on to the fail call, from wherever the run is.                     *)
LEMMA GiveUpKeeps ==
  ASSUME IInv, NEW w \in Workers, runner[w].pc \in Holding, Goto(w, "fail"),
         Fault \/ NoFault,
         UNCHANGED <<jobs, results, evidence, clock, wake>>
  PROVE  Kept
<1>1. /\ runner' \in [Runners -> RunnerStates] /\ OthersSame(w)
      /\ runner'[w].pc = "fail" /\ runner'[w].job = runner[w].job
  <2>1. w \in Runners /\ "fail" \in Steps
    BY DEF Runners, Steps
  <2> QED BY <2>1, GotoEffect DEF IInv
<1>2. TypeOK'
  <2>1. jobs' \in [Jobs -> JobRows]
    BY DEF IInv, TypeOK
  <2> QED BY <1>1, <2>1, TypesKept DEF IInv
<1>3. HandlersRest
  BY <1>1, HandlersApart DEF IInv
<1> QED BY <1>1, <1>2, <1>3, MovesOn DEF Kept

LEMMA ReadKeeps ==
  ASSUME IInv, NEW w \in Workers, ReadContext(w)
  PROVE  Kept
<1> DEFINE s == jobs[runner[w].job].submission
<1>1. /\ runner[w].pc = "read" /\ runner[w].pc \in Holding
      /\ UNCHANGED <<jobs, results, evidence, clock, wake, faults>>
  BY DEF ReadContext, Holding
<1>2. CASE Goto(w, "fail")
  BY <1>1, <1>2, GiveUpKeeps DEF NoFault
<1>3. CASE runner' = [runner EXCEPT ![w].pc = "insert", ![w].seen = evidence[s],
                                    ![w].scored = IF w \in Workers THEN evidence[s] ELSE @]
  <2>1. /\ w \in Runners /\ runner[w].job \in Jobs
        /\ runner \in [Runners -> RunnerStates] /\ runner[w] \in RunnerStates
    BY <1>1 DEF IInv, TypeOK, RunnersPlaced, Runners
  <2>2. evidence[s] \in Nat
    <3>1. jobs[runner[w].job].status = "running"
      BY <1>1, <2>1 DEF IInv, OneRunnerPerJob, Holders
    <3>2. s \in Submissions
      BY <2>1, <3>1 DEF IInv, RequestsCovered
    <3> QED BY <3>2, QueueAssumption DEF IInv, TypeOK
  <2> DEFINE r == [runner[w] EXCEPT !.pc = "insert", !.seen = evidence[s], !.scored = evidence[s]]
  <2>3. r \in RunnerStates
    BY <2>1, <2>2 DEF RunnerStates, Steps
  <2>4. runner' = [runner EXCEPT ![w] = r]
    BY <1>3, <2>1 DEF RunnerStates
  <2>5. runner' \in [Runners -> RunnerStates] /\ runner'[w] = r /\ OthersSame(w)
    BY <2>1, <2>3, <2>4 DEF OthersSame
  <2>6. runner'[w].pc = "insert" /\ runner'[w].seen = evidence[s] /\ runner'[w].job = runner[w].job
    BY <2>1, <2>5 DEF RunnerStates
  <2>7. TypeOK'
    BY <1>1, <2>5 DEF IInv, TypeOK
  <2>8. HandlersRest
    BY <2>5, HandlersApart DEF IInv
  <2> QED BY <1>1, <2>5, <2>6, <2>7, <2>8, MovesOn DEF Kept
<1> QED BY <1>2, <1>3 DEF ReadContext

LEMMA InsertKeeps ==
  ASSUME IInv, NEW w \in Workers, InsertResult(w)
  PROVE  Kept
<1>1. /\ runner[w].pc = "insert" /\ runner[w].pc \in Holding
      /\ UNCHANGED <<jobs, evidence, clock, wake>>
      /\ Fault \/ NoFault
  BY DEF InsertResult, Holding
<1>2. /\ w \in Runners /\ runner[w].job \in Jobs
      /\ runner \in [Runners -> RunnerStates] /\ runner[w] \in RunnerStates
  BY <1>1 DEF IInv, TypeOK, RunnersPlaced, Runners
<1>3. RowOf(w) \in ResultRows
  <2>1. jobs[runner[w].job].submission \in Submissions \cup {None}
    BY <1>2 DEF IInv, TypeOK, JobRows
  <2> QED BY <1>2, <2>1 DEF RowOf, ResultRows, RunnerStates
<1>4. results \in Seq(ResultRows) /\ Len(results) + 1 \in Nat
  BY DEF IInv, TypeOK
<1>5. ASSUME results' = Append(results, RowOf(w)),
             runner' \in [Runners -> RunnerStates], OthersSame(w),
             runner'[w].job = runner[w].job,
             \/ runner'[w].pc = "fail"
             \/ runner'[w].pc = "complete" /\ runner'[w].eval = Len(results) + 1
      PROVE  Kept
  <2>1. results' \in Seq(ResultRows)
    BY <1>3, <1>4, <1>5
  <2>2. TypeOK'
    BY <1>1, <1>5, <2>1, FaultsTyped DEF IInv, TypeOK
  <2>3. HandlersRest
    BY <1>5, HandlersApart DEF IInv
  <2> QED BY <1>1, <1>5, <2>2, <2>3, ResultStored DEF Kept
<1>6. CASE /\ results' = Append(results, RowOf(w))
           /\ runner' = [runner EXCEPT ![w].pc = "complete", ![w].eval = Len(results) + 1]
  <2> DEFINE r == [runner[w] EXCEPT !.pc = "complete", !.eval = Len(results) + 1]
  <2>1. r \in RunnerStates /\ runner' = [runner EXCEPT ![w] = r]
    BY <1>2, <1>4, <1>6 DEF RunnerStates, Steps
  <2>2. runner' \in [Runners -> RunnerStates] /\ runner'[w] = r /\ OthersSame(w)
    BY <1>2, <2>1 DEF OthersSame
  <2>3. /\ runner'[w].pc = "complete" /\ runner'[w].eval = Len(results) + 1
        /\ runner'[w].job = runner[w].job
    BY <1>2, <2>2 DEF RunnerStates
  <2> QED BY <1>5, <1>6, <2>2, <2>3
<1>7. CASE Goto(w, "fail") /\ results' = Append(results, RowOf(w))
  <2>1. /\ runner' \in [Runners -> RunnerStates] /\ OthersSame(w)
        /\ runner'[w].pc = "fail" /\ runner'[w].job = runner[w].job
    BY <1>2, <1>7, GotoEffect DEF IInv, Steps
  <2> QED BY <1>5, <1>7, <2>1
<1>8. CASE Goto(w, "fail") /\ UNCHANGED results
  BY <1>1, <1>8, GiveUpKeeps
<1> QED BY <1>6, <1>7, <1>8 DEF InsertResult, RowOf

(* The last call of a run, when it takes effect.                             *)
LEMMA EndKeeps ==
  ASSUME IInv, NEW w \in Workers, Leave(w), Fault \/ NoFault,
         \/ runner[w].pc = "complete" /\ CompleteEvaluationJob(runner[w].job, runner[w].eval)
         \/ runner[w].pc = "fail" /\ FailEvaluationJob(runner[w].job),
         UNCHANGED <<results, evidence, clock, wake>>
  PROVE  Kept
<1>1. /\ runner' \in [Runners -> RunnerStates]
      /\ OthersSame(w)
      /\ runner'[w].pc \in {"idle", "drain"}
  BY LeaveEffect DEF IInv
<1>2. runner[w].job \in Jobs /\ runner[w].eval \in Nat
  BY DEF IInv, TypeOK, RunnersPlaced, Runners, Holding, RunnerStates
<1>3. TypeOK'
  BY <1>1, <1>2, CompleteEffect, FailEffect, TypesKept DEF IInv
<1>4. HandlersRest
  BY <1>1, HandlersApart DEF IInv
<1> QED BY <1>1, <1>2, <1>3, <1>4, Ended DEF Kept

LEMMA CompleteKeeps ==
  ASSUME IInv, NEW w \in Workers, Complete(w)
  PROVE  Kept
<1>1. CASE UNCHANGED jobs
  BY <1>1, LeaveKeeps DEF Complete
<1>2. CASE CompleteEvaluationJob(runner[w].job, runner[w].eval)
  BY <1>2, EndKeeps DEF Complete
<1> QED BY <1>1, <1>2 DEF Complete

LEMMA FailKeeps ==
  ASSUME IInv, NEW w \in Workers, Fail(w)
  PROVE  Kept
<1>1. CASE UNCHANGED jobs
  BY <1>1, LeaveKeeps DEF Fail
<1>2. CASE FailEvaluationJob(runner[w].job)
  BY <1>2, EndKeeps DEF Fail
<1> QED BY <1>1, <1>2 DEF Fail

LEMMA CrashKeeps ==
  ASSUME IInv, Crash
  PROVE  Kept
<1>1. /\ runner' = [w \in Runners |-> Idle] /\ wake' = <<>>
      /\ UNCHANGED <<jobs, results, evidence, clock>>
      /\ faults' \in 0..MaxFaults
  BY FaultsTyped DEF Crash, IInv
<1>2. Idle \in RunnerStates
  BY DEF Idle, RunnerStates, Steps
<1>3. TypeOK'
  BY <1>1, <1>2 DEF IInv, TypeOK
<1>4. HandlersRest
  BY <1>1 DEF HandlersRest, Runners
<1>5. \A v \in Runners : Free(runner'[v])
  BY <1>1 DEF Free, Idle, Holding
<1> QED BY <1>1, <1>3, <1>4, <1>5, LetGo DEF Kept

LEMMA InitIInv == Init => IInv
<1> SUFFICES ASSUME Init PROVE IInv
  OBVIOUS
<1>1. NoRow \in JobRows /\ Idle \in RunnerStates
  BY DEF NoRow, JobRows, Statuses, Idle, RunnerStates, Steps
<1>2. TypeOK
  BY <1>1, QueueAssumption DEF Init, TypeOK
<1>3. /\ \A j \in Jobs : jobs[j].status = "absent" /\ jobs[j].result = 0
      /\ \A w \in Runners : runner[w] = Idle /\ runner[w].pc = "idle"
      /\ DOMAIN results = {}
  BY DEF Init, NoRow, Idle
<1>4. RunnersPlaced /\ OneRunnerPerJob /\ RequestsCovered /\ RunOnCourse
  BY <1>3 DEF RunnersPlaced, OneRunnerPerJob, Holders, Holding, RequestsCovered, RunOnCourse, Runners
<1>5. UnstartedHasNoResult /\ NoEarlyResult /\ OneResultPerJob /\ SucceededHasOwnResult
  BY <1>3 DEF UnstartedHasNoResult, NoEarlyResult, OneResultPerJob, SucceededHasOwnResult
<1> QED BY <1>2, <1>4, <1>5 DEF IInv

LEMMA NextKeeps == IInv /\ Next => Kept
<1> SUFFICES ASSUME IInv, Next PROVE Kept
  OBVIOUS
<1>1. CASE \E j \in Jobs, s \in Submissions : SubmitInitialEvaluationJob(j, s)
  BY <1>1, SubmitKeeps
<1>2. CASE \E s \in Submissions : UploadArtifact(s)
  BY <1>2, UploadKeeps
<1>3. ASSUME NEW w \in Workers, WorkerStep(w) PROVE Kept
  BY <1>3, WakeUpKeeps, TickKeeps, MarkKeeps, DrainKeeps, ReadKeeps, InsertKeeps,
     CompleteKeeps, FailKeeps DEF WorkerStep, RunJob
<1>4. CASE Crash
  BY <1>4, CrashKeeps
<1> QED BY <1>1, <1>2, <1>3, <1>4 DEF Next

LEMMA IInvInductive == IInv /\ [Next]_vars => IInv'
<1>1. CASE Next
  BY <1>1, NextKeeps DEF Kept
<1>2. CASE UNCHANGED vars
  BY <1>2 DEF vars, IInv, TypeOK, RunnersPlaced, OneRunnerPerJob, Holders, RequestsCovered,
              UnstartedHasNoResult, NoEarlyResult, RunOnCourse, OneResultPerJob,
              SucceededHasOwnResult
<1> QED BY <1>1, <1>2

-----------------------------------------------------------------------------
(* Theorems *)

(* The tables, the channel and the goroutines keep their types; the parts of *)
(* IInv hold in every reachable state.                                       *)
THEOREM Invariance == Spec => []IInv
  BY InitIInv, IInvInductive, PTL DEF Spec

(* The types of rows, results, channel and goroutines.                       *)
THEOREM TypeCorrect == Spec => []TypeOK
<1>1. IInv => TypeOK
  BY DEF IInv
<1> QED BY <1>1, Invariance, PTL

(* MarkEvaluationJobRunning and ClaimNextEvaluationJob never give a job to   *)
(* two workers, however many there are.                                      *)
THEOREM JobsRunByOne == Spec => []OneRunnerPerJob
<1>1. IInv => OneRunnerPerJob
  BY DEF IInv
<1> QED BY <1>1, Invariance, PTL

(* The pool stores at most one evaluation for a job.                         *)
THEOREM JobsLeaveOneResult == Spec => []OneResultPerJob
<1>1. IInv => OneResultPerJob
  BY DEF IInv
<1> QED BY <1>1, Invariance, PTL

(* A succeeded job answers with an evaluation of its own run that saw the    *)
(* evidence there was at the request.                                        *)
THEOREM SuccessIsOwn == Spec => []SucceededHasOwnResult
<1>1. IInv => SucceededHasOwnResult
  BY DEF IInv
<1> QED BY <1>1, Invariance, PTL

(* The pool never changes the answer about a finished job, although neither  *)
(* CompleteEvaluationJob nor FailEvaluationJob tests the status.             *)
THEOREM FinishedStays == Spec => TerminalIsFinal
<1>1. IInv /\ [Next]_vars => [\A j \in Jobs : jobs[j].status \in Terminal => jobs'[j] = jobs[j]]_vars
  <2>1. CASE UNCHANGED vars
    BY <2>1
  <2>2. ASSUME IInv, Next
        PROVE  \A j \in Jobs : jobs[j].status \in Terminal => jobs'[j] = jobs[j]
    <3>1. UNCHANGED jobs \/ \E k \in Jobs : RowStep(k)
      BY <2>2, NextKeeps DEF Kept
    <3>2. ASSUME NEW k \in Jobs, RowStep(k)
          PROVE  \A j \in Jobs : jobs[j].status \in Terminal => jobs'[j] = jobs[j]
      BY <3>2 DEF RowStep, OtherRowsSame, Terminal
    <3> QED BY <3>1, <3>2
  <2> QED BY <2>1, <2>2
<1> QED BY <1>1, Invariance, PTL DEF Spec, TerminalIsFinal

-----------------------------------------------------------------------------
(* Refinement *)

StatusView == [j \in Jobs |-> jobs[j].status]

EvaluationView == [j \in Jobs |-> jobs[j].result]

LEMMA RowStepViewed ==
  ASSUME NEW j \in Jobs, RowStep(j)
  PROVE  /\ StatusView' = [StatusView EXCEPT ![j] = jobs'[j].status]
         /\ EvaluationView' = [EvaluationView EXCEPT ![j] = jobs'[j].result]
  BY DEF RowStep, OtherRowsSame, StatusView, EvaluationView

(* An id in evaluation_results that belongs to one job is in no other row.   *)
LEMMA ResultIsFresh ==
  ASSUME IInv, NEW j \in Jobs, NEW e \in DOMAIN results, results[e].job = j
  PROVE  e \in Nat \ {0} /\ \A k \in Jobs \ {j} : jobs[k].result # e
<1>1. e \in Nat \ {0}
  BY DEF IInv, TypeOK
<1>2. ASSUME NEW k \in Jobs \ {j} PROVE jobs[k].result # e
  <2>1. CASE jobs[k].status = "succeeded"
    BY <2>1 DEF IInv, SucceededHasOwnResult
  <2>2. CASE jobs[k].status # "succeeded"
    BY <2>2, <1>1 DEF IInv, NoEarlyResult
  <2> QED BY <2>1, <2>2
<1> QED BY <1>1, <1>2

LEMMA RowStepIsContractStep ==
  ASSUME IInv, NEW j \in Jobs, RowStep(j)
  PROVE  Contract!Next
<1>1. /\ StatusView' = [StatusView EXCEPT ![j] = jobs'[j].status]
      /\ EvaluationView' = [EvaluationView EXCEPT ![j] = jobs'[j].result]
      /\ StatusView[j] = jobs[j].status
      /\ \A k \in Jobs : EvaluationView[k] = jobs[k].result
      /\ EvaluationView'[j] = jobs'[j].result
  BY RowStepViewed DEF StatusView, EvaluationView
<1>2. jobs'[j].result = jobs[j].result => UNCHANGED EvaluationView
  BY RowStepViewed DEF EvaluationView
<1>3. CASE jobs[j].status = "absent" /\ jobs'[j].status = "queued" /\ jobs'[j].result = 0
  <2>1. jobs[j].result = 0
    BY <1>3 DEF IInv, NoEarlyResult
  <2>2. Contract!Enqueue(j)
    BY <1>1, <1>2, <1>3, <2>1 DEF Contract!Enqueue, Contract!Move, StatusView, EvaluationView
  <2> QED BY <2>2 DEF Contract!Next
<1>4. CASE /\ jobs[j].status = "queued" /\ jobs'[j].status = "running"
           /\ jobs'[j].result = jobs[j].result
  <2>1. Contract!Start(j)
    BY <1>1, <1>2, <1>4 DEF Contract!Start, Contract!Move, StatusView, EvaluationView
  <2> QED BY <2>1 DEF Contract!Next
<1>5. CASE /\ jobs[j].status = "running" /\ jobs'[j].status = "failed"
           /\ jobs'[j].result = jobs[j].result
  <2>1. Contract!Fail(j)
    BY <1>1, <1>2, <1>5 DEF Contract!Fail, Contract!Move, StatusView, EvaluationView
  <2> QED BY <2>1 DEF Contract!Next
<1>6. CASE /\ jobs[j].status = "running" /\ jobs'[j].status = "succeeded"
           /\ jobs'[j].result \in DOMAIN results
           /\ results[jobs'[j].result].job = j
  <2>1. /\ jobs'[j].result \in Nat \ {0}
        /\ \A k \in Jobs \ {j} : jobs'[j].result # jobs[k].result
    BY <1>6, ResultIsFresh
  <2>2. Contract!Succeed(j)
    BY <1>1, <1>6, <2>1 DEF Contract!Succeed, Contract!Move, StatusView, EvaluationView
  <2> QED BY <2>2 DEF Contract!Next
<1> QED BY <1>3, <1>4, <1>5, <1>6 DEF RowStep

(* Whatever GetEvaluationJob shows is a behaviour of EvaluationJobContract:  *)
(* every step of the queue is a step of the contract or changes no answer.   *)
THEOREM QueueKeepsContract == Spec => Contract!Safety
<1>1. Init => Contract!Init
  BY DEF Init, Contract!Init, NoRow
<1>2. IInv /\ [Next]_vars => [Contract!Next]_(Contract!view)
  <2>1. CASE UNCHANGED jobs
    BY <2>1 DEF Contract!view
  <2>2. ASSUME IInv, Next, ~UNCHANGED jobs PROVE Contract!Next
    BY <2>2, NextKeeps, RowStepIsContractStep DEF Kept
  <2>3. CASE UNCHANGED vars
    BY <2>1, <2>3 DEF vars
  <2> QED BY <2>1, <2>2, <2>3
<1> QED BY <1>1, <1>2, Invariance, PTL DEF Spec, Contract!Safety

-----------------------------------------------------------------------------
(* External workers *)

(* With handlers at work a job may have several runners: two completions of  *)
(* one job both pass while its row is running.  What remains is that rows    *)
(* only advance, so that no job is taken from the queue twice.               *)
Started(j) == jobs[j].status \notin {"absent", "queued"}

RequestsNamed == \A j \in Jobs : jobs[j].status # "absent" => jobs[j].submission \in Submissions

(* A run is of a job that was started, and what a handler's caller scored    *)
(* is no more than the evidence there is.                                    *)
RunnerFits(w) ==
  LET r == runner[w] IN
  /\ r.pc \notin {"idle", "drain"} => r.job \in Jobs
  /\ w \in Handlers => r.pc \notin {"mark", "drain"}
  /\ w \in Workers => r.pc # "build"
  /\ r.pc \in Holding => Started(r.job)
  /\ w \in Handlers /\ r.pc = "read" => r.scored <= evidence[jobs[r.job].submission]
  /\ r.pc = "insert" => r.scored <= r.seen

HandedFits(a) == Started(a.job) /\ a.scored <= evidence[jobs[a.job].submission]

(* w has its job from the queue: it runs it, or is about to hand it out.     *)
FirstHand(w) == runner[w].pc \in Holding /\ (w \in Workers \/ runner[w].pc = "build")

OneParty ==
  /\ \A v, w \in Runners : FirstHand(v) /\ FirstHand(w) /\ runner[v].job = runner[w].job => v = w
  /\ \A a \in handed, w \in Runners : FirstHand(w) => runner[w].job # a.job
  /\ \A a, b \in handed : a.job = b.job => a = b

ExtInv ==
  /\ ExtTypeOK
  /\ RequestsNamed
  /\ \A w \in Runners : RunnerFits(w)
  /\ \A a \in handed : HandedFits(a)
  /\ OneParty
  /\ ScoredIsInSnapshot

(* What every step does to the rows.                                         *)
RowsAdvance ==
  \A j \in Jobs :
    /\ jobs[j].status # "absent" => jobs'[j].submission = jobs[j].submission
    /\ Started(j) => Started(j)'
    /\ jobs[j].status \in Terminal => jobs'[j].status \in Terminal

EvidenceGrows == \A s \in Submissions : evidence[s] <= evidence'[s]

ExtKept == ExtInv' /\ RowsAdvance

LEMMA ClaimAdvances ==
  ASSUME ExtInv, NEW j \in Jobs, jobs[j].status = "queued", Claim(j)
  PROVE  /\ jobs' \in [Jobs -> JobRows] /\ RowsAdvance /\ RequestsNamed'
         /\ Started(j)' /\ jobs'[j].submission \in Submissions
<1>1. /\ jobs' \in [Jobs -> JobRows] /\ jobs'[j].status = "running"
      /\ jobs'[j].submission = jobs[j].submission /\ OtherRowsSame(j)
  BY ClaimEffect DEF ExtInv, ExtTypeOK, SameRequest
<1> QED BY <1>1 DEF ExtInv, RequestsNamed, RowsAdvance, OtherRowsSame, Started, Terminal

LEMMA EndAdvances ==
  ASSUME ExtInv, NEW j \in Jobs, Started(j), NEW e \in Nat,
         CompleteEvaluationJob(j, e) \/ FailEvaluationJob(j)
  PROVE  jobs' \in [Jobs -> JobRows] /\ RowsAdvance /\ RequestsNamed'
<1>1. /\ jobs' \in [Jobs -> JobRows] /\ jobs'[j].status \in Terminal
      /\ jobs'[j].submission = jobs[j].submission /\ OtherRowsSame(j)
  BY CompleteEffect, FailEffect DEF ExtInv, ExtTypeOK, SameRequest, Terminal
<1> QED BY <1>1 DEF ExtInv, RequestsNamed, RowsAdvance, OtherRowsSame, Started, Terminal

LEMMA SameAdvances ==
  ASSUME ExtInv, UNCHANGED jobs
  PROVE  jobs' \in [Jobs -> JobRows] /\ RowsAdvance /\ RequestsNamed'
  BY DEF ExtInv, ExtTypeOK, TypeOK, RequestsNamed, RowsAdvance, Started

(* Uploads may raise the evidence of a submission; nothing lowers it.        *)
LEMMA EvidenceTyped ==
  ASSUME ExtTypeOK, NEW s \in Submissions
  PROVE  evidence[s] \in Nat
  BY QueueAssumption DEF ExtTypeOK, TypeOK

LEMMA StillCovered ==
  ASSUME ExtInv, ExtTypeOK', RowsAdvance, EvidenceGrows,
         NEW j \in Jobs, Started(j), NEW n \in Nat, n <= evidence[jobs[j].submission]
  PROVE  Started(j)' /\ n <= evidence'[jobs'[j].submission]
<1>1. Started(j)' /\ jobs'[j].submission = jobs[j].submission /\ jobs[j].submission \in Submissions
  BY DEF RowsAdvance, Started, ExtInv, RequestsNamed
<1>2. PICK s \in Submissions : s = jobs[j].submission
  BY <1>1
<1>3. evidence[s] \in Nat /\ evidence'[s] \in Nat /\ evidence[s] <= evidence'[s]
  BY QueueAssumption DEF ExtInv, ExtTypeOK, TypeOK, EvidenceGrows
<1> QED BY <1>1, <1>2, <1>3

LEMMA RunnerStillFits ==
  ASSUME ExtInv, ExtTypeOK', RowsAdvance, EvidenceGrows, NEW w \in Runners, runner'[w] = runner[w]
  PROVE  RunnerFits(w)'
<1>1. RunnerFits(w) /\ runner[w].scored \in Nat
  BY DEF ExtInv, ExtTypeOK, TypeOK, RunnerStates
<1>2. runner[w].pc \in Holding => runner[w].job \in Jobs /\ Started(runner[w].job)
  BY <1>1 DEF RunnerFits, Holding
<1>3. runner[w].pc \in Holding => jobs'[runner[w].job].status \notin {"absent", "queued"}
  BY <1>2 DEF RowsAdvance, Started
<1>4. w \in Handlers /\ runner[w].pc = "read" => runner[w].scored <= evidence'[jobs'[runner[w].job].submission]
  BY <1>1, <1>2, StillCovered DEF RunnerFits, Holding
<1> QED BY <1>1, <1>2, <1>3, <1>4 DEF RunnerFits, Started

LEMMA HandedStillFits ==
  ASSUME ExtInv, ExtTypeOK', RowsAdvance, EvidenceGrows, NEW a \in handed
  PROVE  HandedFits(a)'
<1>1. a.job \in Jobs /\ a.scored \in Nat /\ HandedFits(a)
  BY DEF ExtInv, ExtTypeOK, Work
<1> QED BY <1>1, StillCovered DEF HandedFits, Started

(* One goroutine steps, and hands nothing out.  If it has a job from the     *)
(* queue afterwards, it had it before or the job was not started.            *)
LEMMA OneSteps ==
  ASSUME ExtInv, ExtTypeOK', RowsAdvance, RequestsNamed', EvidenceGrows, handed' = handed,
         NEW w \in Runners, OthersSame(w), RunnerFits(w)',
         FirstHand(w)' => \/ FirstHand(w) /\ runner'[w].job = runner[w].job
                          \/ runner'[w].job \in Jobs /\ ~Started(runner'[w].job),
         \A a \in DOMAIN results' :
           \/ a \in DOMAIN results /\ results'[a] = results[a]
           \/ results'[a].scored <= results'[a].seen
  PROVE  ExtKept
<1>1. \A v \in Runners : RunnerFits(v)'
  BY RunnerStillFits DEF OthersSame
<1>2. \A a \in handed' : HandedFits(a)'
  BY HandedStillFits
<1>3. OneParty'
  <2>1. \A v \in Runners \ {w} : runner'[v] = runner[v] /\ (FirstHand(v)' <=> FirstHand(v))
    BY DEF OthersSame, FirstHand
  <2>2. \A v \in Runners : FirstHand(v) => Started(runner[v].job)
    BY DEF ExtInv, RunnerFits, FirstHand
  <2>3. \A a \in handed : Started(a.job)
    BY DEF ExtInv, HandedFits
  <2> QED BY <2>1, <2>2, <2>3 DEF OneParty, ExtInv
<1>4. ScoredIsInSnapshot'
  BY DEF ExtInv, ScoredIsInSnapshot
<1> QED BY <1>1, <1>2, <1>3, <1>4 DEF ExtInv, ExtKept

LEMMA ExtTypesKept ==
  ASSUME ExtInv, Fault \/ NoFault,
         jobs' \in [Jobs -> JobRows], runner' \in [Runners -> RunnerStates],
         UNCHANGED <<results, evidence, clock, wake, handed>>
  PROVE  ExtTypeOK' /\ EvidenceGrows
<1>1. TypeOK'
  BY TypesKept DEF ExtInv, ExtTypeOK
<1>2. EvidenceGrows
  BY EvidenceTyped DEF ExtInv, EvidenceGrows
<1> QED BY <1>1, <1>2 DEF ExtInv, ExtTypeOK

-----------------------------------------------------------------------------
(* The steps of a goroutine *)

(* w has let go of its job.                                                  *)
LEMMA AnyLeave ==
  ASSUME ExtInv, NEW w \in Runners, Leave(w) \/ runner' = [runner EXCEPT ![w] = Idle]
  PROVE  /\ runner' \in [Runners -> RunnerStates] /\ OthersSame(w)
         /\ RunnerFits(w)' /\ ~FirstHand(w)'
<1>1. runner \in [Runners -> RunnerStates] /\ (w \in Workers => w \notin Handlers)
  BY QueueAssumption DEF ExtInv, ExtTypeOK, TypeOK
<1>2. [Idle EXCEPT !.pc = "drain"] \in RunnerStates /\ Idle \in RunnerStates
  BY DEF RunnerStates, Steps, Idle
<1>3. /\ (runner'[w] = [Idle EXCEPT !.pc = "drain"] /\ w \in Workers) \/ runner'[w] = Idle
      /\ OthersSame(w)
  BY <1>1 DEF Leave, OthersSame
<1>4. runner' \in [Runners -> RunnerStates]
  BY <1>1, <1>2 DEF Leave
<1>5. runner'[w].pc = "idle" \/ (runner'[w].pc = "drain" /\ w \notin Handlers)
  BY <1>1, <1>3 DEF Idle
<1> QED BY <1>3, <1>4, <1>5 DEF RunnerFits, FirstHand, Holding

LEMMA LeavesKeep ==
  ASSUME ExtInv, NEW w \in Runners, Leave(w) \/ runner' = [runner EXCEPT ![w] = Idle],
         jobs' \in [Jobs -> JobRows], RowsAdvance, RequestsNamed',
         Fault \/ NoFault, UNCHANGED <<results, evidence, clock, wake, handed>>
  PROVE  ExtKept
<1>1. /\ runner' \in [Runners -> RunnerStates] /\ OthersSame(w)
      /\ RunnerFits(w)' /\ ~FirstHand(w)'
  BY AnyLeave
<1>2. ExtTypeOK' /\ EvidenceGrows
  BY <1>1, ExtTypesKept
<1> QED BY <1>1, <1>2, OneSteps

(* w takes j, which nobody has taken, or reports a failure of it.            *)
LEMMA TakesKeep ==
  ASSUME ExtInv, NEW w \in Runners, NEW j \in Jobs, NEW pc \in {"read", "build", "fail"}, Take(w, j, pc),
         w \in Workers => pc = "read",
         w \in Handlers => pc \in {"build", "fail"},
         pc \in {"read", "build"} => ~Started(j),
         jobs' \in [Jobs -> JobRows], RowsAdvance, RequestsNamed', Started(j)',
         Fault \/ NoFault, UNCHANGED <<results, evidence, clock, wake, handed>>
  PROVE  ExtKept
<1>1. /\ runner' \in [Runners -> RunnerStates] /\ OthersSame(w)
      /\ runner'[w].pc = pc /\ runner'[w].job = j
  BY TakeEffect DEF ExtInv, ExtTypeOK, Steps
<1>2. ExtTypeOK' /\ EvidenceGrows
  BY <1>1, ExtTypesKept
<1>3. RunnerFits(w)'
  <2>1. w \in Workers => w \notin Handlers
    BY QueueAssumption
  <2> QED BY <1>1, <2>1 DEF RunnerFits, Holding, Started
<1>4. FirstHand(w)' => runner'[w].job \in Jobs /\ ~Started(runner'[w].job)
  BY <1>1 DEF FirstHand, Runners
<1> QED BY <1>1, <1>2, <1>3, <1>4, OneSteps

LEMMA WorkerIsNoHandler == \A w \in Workers : w \in Runners /\ w \notin Handlers
  BY QueueAssumption DEF Runners

(* The one statement of a claim, for the pool and for a worker process.      *)
LEMMA ExtClaimKeeps ==
  ASSUME ExtInv, NEW w \in Runners, NEW next \in {"read", "build"}, ClaimNextEvaluationJob(w, next),
         next = IF w \in Workers THEN "read" ELSE "build",
         UNCHANGED <<results, evidence, clock, wake, handed>>
  PROVE  ExtKept
<1>1. \A j \in Oldest : j \in Jobs /\ jobs[j].status = "queued" /\ ~Started(j)
  BY DEF Oldest, Queued, Started
<1>2. ASSUME NEW j \in Oldest, Claim(j) /\ Take(w, j, next) /\ NoFault PROVE ExtKept
  <2>1. w \in Workers => w \notin Handlers
    BY QueueAssumption
  <2> QED BY <1>1, <1>2, <2>1, ClaimAdvances, TakesKeep
<1>3. ASSUME NEW j \in Oldest, Claim(j) /\ Fault /\ runner' = [runner EXCEPT ![w] = Idle] PROVE ExtKept
  BY <1>1, <1>3, ClaimAdvances, LeavesKeep
<1>4. ASSUME UNCHANGED jobs, Fault \/ NoFault, runner' = [runner EXCEPT ![w] = Idle] PROVE ExtKept
  BY <1>4, SameAdvances, LeavesKeep
<1> QED BY <1>2, <1>3, <1>4 DEF ClaimNextEvaluationJob

LEMMA ExtMarkKeeps ==
  ASSUME ExtInv, NEW w \in Workers, MarkEvaluationJobRunning(w), UNCHANGED handed
  PROVE  ExtKept
<1> DEFINE j == runner[w].job
<1>1. /\ w \in Runners /\ w \notin Handlers /\ j \in Jobs
      /\ UNCHANGED <<results, evidence, clock, wake, handed>>
      /\ (jobs[j].status = "queued" => ~Started(j))
  BY WorkerIsNoHandler DEF MarkEvaluationJobRunning, ExtInv, RunnerFits, Started
<1>2. CASE jobs[j].status = "queued" /\ Claim(j) /\ Take(w, j, "read") /\ NoFault
  BY <1>1, <1>2, ClaimAdvances, TakesKeep
<1>3. CASE jobs[j].status = "queued" /\ Claim(j) /\ Leave(w) /\ Fault
  BY <1>1, <1>3, ClaimAdvances, LeavesKeep
<1>4. CASE UNCHANGED jobs /\ Leave(w) /\ (Fault \/ NoFault)
  BY <1>1, <1>4, SameAdvances, LeavesKeep
<1> QED BY <1>2, <1>3, <1>4 DEF MarkEvaluationJobRunning

(* A run goes on to its next call with the job it has; rows stay.            *)
LEMMA GoesOn ==
  ASSUME ExtInv, NEW w \in Runners, runner[w].pc \in Holding,
         runner' \in [Runners -> RunnerStates], OthersSame(w), runner'[w].job = runner[w].job,
         \/ runner'[w].pc \in {"complete", "fail"}
         \/ runner'[w].pc = "insert" /\ runner'[w].scored <= runner'[w].seen,
         UNCHANGED <<jobs, evidence, clock, wake, handed>>, Fault \/ NoFault,
         results' \in Seq(ResultRows),
         \A a \in DOMAIN results' :
           \/ a \in DOMAIN results /\ results'[a] = results[a]
           \/ results'[a].scored <= results'[a].seen
  PROVE  ExtKept
<1>1. jobs' \in [Jobs -> JobRows] /\ RowsAdvance /\ RequestsNamed'
  BY SameAdvances
<1>2. ExtTypeOK' /\ EvidenceGrows
  <2>1. TypeOK'
    BY <1>1, FaultsTyped DEF ExtInv, ExtTypeOK, TypeOK
  <2>2. EvidenceGrows
    BY EvidenceTyped DEF ExtInv, EvidenceGrows
  <2> QED BY <2>1, <2>2 DEF ExtInv, ExtTypeOK
<1>3. runner[w].job \in Jobs /\ Started(runner[w].job)
  BY DEF ExtInv, RunnerFits, Holding
<1>4. RunnerFits(w)'
  BY <1>3 DEF RunnerFits, Started
<1>5. FirstHand(w)' => FirstHand(w)
  BY DEF FirstHand
<1> QED BY <1>1, <1>2, <1>4, <1>5, OneSteps

LEMMA ExtGiveUpKeeps ==
  ASSUME ExtInv, NEW w \in Runners, runner[w].pc \in Holding, Goto(w, "fail"),
         UNCHANGED <<jobs, results, evidence, clock, wake, handed>>, Fault \/ NoFault
  PROVE  ExtKept
<1>1. /\ runner' \in [Runners -> RunnerStates] /\ OthersSame(w)
      /\ runner'[w].pc = "fail" /\ runner'[w].job = runner[w].job
  BY GotoEffect DEF ExtInv, ExtTypeOK, Steps
<1>2. results' \in Seq(ResultRows)
  BY DEF ExtInv, ExtTypeOK, TypeOK
<1> QED BY <1>1, <1>2, GoesOn

(* A handler's snapshot covers what its caller scored, since evidence grows; *)
(* a worker has scored what it has just read.                                *)
LEMMA ExtReadKeeps ==
  ASSUME ExtInv, NEW w \in Runners, ReadContext(w), UNCHANGED handed
  PROVE  ExtKept
<1> DEFINE s == jobs[runner[w].job].submission
<1>1. /\ runner[w].pc = "read" /\ runner[w].pc \in Holding
      /\ UNCHANGED <<jobs, results, evidence, clock, wake, faults, handed>>
  BY DEF ReadContext, Holding
<1>2. CASE Goto(w, "fail")
  BY <1>1, <1>2, ExtGiveUpKeeps DEF NoFault
<1>3. CASE runner' = [runner EXCEPT ![w].pc = "insert", ![w].seen = evidence[s],
                                    ![w].scored = IF w \in Workers THEN evidence[s] ELSE @]
  <2>1. /\ runner \in [Runners -> RunnerStates] /\ runner[w] \in RunnerStates
        /\ runner[w].job \in Jobs /\ s \in Submissions
    BY <1>1 DEF ExtInv, ExtTypeOK, TypeOK, RunnerFits, RequestsNamed, Started
  <2>2. PICK n \in Nat : n = evidence[s]
    BY <2>1, EvidenceTyped DEF ExtInv
  <2>3. PICK m \in Nat : m = IF w \in Workers THEN evidence[s] ELSE runner[w].scored
    BY <2>1, <2>2 DEF RunnerStates
  <2>4. m <= n
    <3>1. w \notin Workers => w \in Handlers
      BY DEF Runners
    <3> QED BY <1>1, <2>2, <2>3, <3>1 DEF ExtInv, RunnerFits
  <2> DEFINE r == [runner[w] EXCEPT !.pc = "insert", !.seen = n, !.scored = m]
  <2>5. r \in RunnerStates
    BY <2>1 DEF RunnerStates, Steps
  <2>6. runner' = [runner EXCEPT ![w] = r]
    BY <1>3, <2>1, <2>2, <2>3 DEF RunnerStates
  <2>7. runner' \in [Runners -> RunnerStates] /\ runner'[w] = r /\ OthersSame(w)
    BY <2>1, <2>5, <2>6 DEF OthersSame
  <2>8. r.pc = "insert" /\ r.seen = n /\ r.scored = m /\ r.job = runner[w].job
    BY <2>1 DEF RunnerStates
  <2>9. results' \in Seq(ResultRows)
    BY <1>1 DEF ExtInv, ExtTypeOK, TypeOK
  <2> HIDE DEF r
  <2> QED BY <1>1, <2>4, <2>7, <2>8, <2>9, GoesOn DEF NoFault
<1> QED BY <1>2, <1>3 DEF ReadContext

LEMMA ExtInsertKeeps ==
  ASSUME ExtInv, NEW w \in Runners, InsertResult(w), UNCHANGED handed
  PROVE  ExtKept
<1>1. /\ runner[w].pc = "insert" /\ runner[w].pc \in Holding
      /\ UNCHANGED <<jobs, evidence, clock, wake, handed>>
      /\ Fault \/ NoFault
  BY DEF InsertResult, Holding
<1>2. /\ runner \in [Runners -> RunnerStates] /\ runner[w] \in RunnerStates
      /\ runner[w].job \in Jobs /\ runner[w].scored <= runner[w].seen
  BY <1>1 DEF ExtInv, ExtTypeOK, TypeOK, RunnerFits
<1>3. RowOf(w) \in ResultRows /\ RowOf(w).scored <= RowOf(w).seen
  <2>1. jobs[runner[w].job].submission \in Submissions \cup {None}
    BY <1>2 DEF ExtInv, ExtTypeOK, TypeOK, JobRows
  <2> QED BY <1>2, <2>1 DEF RowOf, ResultRows, RunnerStates
<1>4. results \in Seq(ResultRows) /\ Len(results) + 1 \in Nat
  BY DEF ExtInv, ExtTypeOK, TypeOK
<1>5. ASSUME results' = Append(results, RowOf(w)),
             runner' \in [Runners -> RunnerStates], OthersSame(w),
             runner'[w].job = runner[w].job, runner'[w].pc \in {"complete", "fail"}
      PROVE  ExtKept
  <2>1. /\ results' \in Seq(ResultRows)
        /\ \A a \in DOMAIN results' :
             (a \in DOMAIN results /\ results'[a] = results[a]) \/ results'[a] = RowOf(w)
    BY <1>3, <1>4, <1>5
  <2> QED BY <1>1, <1>3, <1>5, <2>1, GoesOn
<1>6. CASE /\ results' = Append(results, RowOf(w))
           /\ runner' = [runner EXCEPT ![w].pc = "complete", ![w].eval = Len(results) + 1]
  <2> DEFINE r == [runner[w] EXCEPT !.pc = "complete", !.eval = Len(results) + 1]
  <2>1. r \in RunnerStates /\ runner' = [runner EXCEPT ![w] = r]
    BY <1>2, <1>4, <1>6 DEF RunnerStates, Steps
  <2>2. runner' \in [Runners -> RunnerStates] /\ runner'[w] = r /\ OthersSame(w)
    BY <1>2, <2>1 DEF OthersSame
  <2>3. runner'[w].pc = "complete" /\ runner'[w].job = runner[w].job
    BY <1>2, <2>2 DEF RunnerStates
  <2> QED BY <1>5, <1>6, <2>2, <2>3
<1>7. CASE Goto(w, "fail") /\ results' = Append(results, RowOf(w))
  <2>1. /\ runner' \in [Runners -> RunnerStates] /\ OthersSame(w)
        /\ runner'[w].pc = "fail" /\ runner'[w].job = runner[w].job
    BY <1>2, <1>7, GotoEffect DEF ExtInv, ExtTypeOK, Steps
  <2> QED BY <1>5, <1>7, <2>1
<1>8. CASE Goto(w, "fail") /\ UNCHANGED results
  BY <1>1, <1>8, ExtGiveUpKeeps
<1> QED BY <1>6, <1>7, <1>8 DEF InsertResult, RowOf

LEMMA ExtEndKeeps ==
  ASSUME ExtInv, NEW w \in Runners, Complete(w) \/ Fail(w), UNCHANGED handed
  PROVE  ExtKept
<1>1. /\ runner[w].job \in Jobs /\ Started(runner[w].job) /\ runner[w].eval \in Nat
      /\ Leave(w) /\ (Fault \/ NoFault) /\ UNCHANGED <<results, evidence, clock, wake, handed>>
  BY DEF Complete, Fail, ExtInv, ExtTypeOK, TypeOK, RunnerStates, RunnerFits, Holding
<1>2. \/ UNCHANGED jobs
      \/ CompleteEvaluationJob(runner[w].job, runner[w].eval)
      \/ FailEvaluationJob(runner[w].job)
  BY DEF Complete, Fail
<1>3. jobs' \in [Jobs -> JobRows] /\ RowsAdvance /\ RequestsNamed'
  BY <1>1, <1>2, SameAdvances, EndAdvances
<1> QED BY <1>1, <1>3, LeavesKeep

LEMMA RunJobKeeps ==
  ASSUME ExtInv, NEW w \in Runners, RunJob(w), UNCHANGED handed
  PROVE  ExtKept
  BY ExtReadKeeps, ExtInsertKeeps, ExtEndKeeps DEF RunJob

-----------------------------------------------------------------------------
(* The pool, the teachers and a crash, with workers outside *)

LEMMA NobodyMoves ==
  ASSUME ExtInv, ExtTypeOK', RowsAdvance, RequestsNamed', EvidenceGrows, UNCHANGED <<results, runner, handed>>
  PROVE  ExtKept
<1>1. \A w \in Runners : RunnerFits(w)'
  BY RunnerStillFits
<1>2. \A a \in handed' : HandedFits(a)'
  BY HandedStillFits
<1>3. OneParty' /\ ScoredIsInSnapshot'
  BY DEF ExtInv, OneParty, FirstHand, ScoredIsInSnapshot
<1> QED BY <1>1, <1>2, <1>3 DEF ExtInv, ExtKept

LEMMA ExtSubmitKeeps ==
  ASSUME ExtInv, NEW j \in Jobs, NEW s \in Submissions, SubmitInitialEvaluationJob(j, s), UNCHANGED handed
  PROVE  ExtKept
<1> DEFINE row == [NoRow EXCEPT !.status = "queued", !.submission = s,
                                !.createdAt = clock, !.asked = evidence[s]]
<1>1. evidence[s] \in Nat /\ clock \in Nat /\ clock' = clock + 1 /\ faults' \in 0..MaxFaults
  BY QueueAssumption, FaultsTyped DEF ExtInv, ExtTypeOK, TypeOK, SubmitInitialEvaluationJob
<1>2. row \in JobRows /\ row.status = "queued" /\ row.submission = s
  BY <1>1 DEF NoRow, JobRows, Statuses
<1>3. jobs' = [jobs EXCEPT ![j] = row] /\ jobs \in [Jobs -> JobRows] /\ jobs[j].status = "absent"
  BY DEF SubmitInitialEvaluationJob, ExtInv, ExtTypeOK, TypeOK
<1> HIDE DEF row
<1>4. jobs' \in [Jobs -> JobRows] /\ jobs'[j] = row /\ OtherRowsSame(j)
  BY <1>2, <1>3 DEF OtherRowsSame
<1>5. wake' \in Seq(Jobs)
  <2>1. wake \in Seq(Jobs) /\ (wake' = Append(wake, j) \/ wake' = wake)
    BY DEF SubmitInitialEvaluationJob, ExtInv, ExtTypeOK, TypeOK
  <2> QED BY <2>1
<1>6. ExtTypeOK' /\ EvidenceGrows
  <2>1. TypeOK'
    BY <1>1, <1>4, <1>5 DEF SubmitInitialEvaluationJob, ExtInv, ExtTypeOK, TypeOK
  <2>2. EvidenceGrows
    BY EvidenceTyped DEF ExtInv, EvidenceGrows, SubmitInitialEvaluationJob
  <2> QED BY <2>1, <2>2 DEF ExtInv, ExtTypeOK
<1>7. RowsAdvance /\ RequestsNamed'
  BY <1>2, <1>3, <1>4 DEF RowsAdvance, RequestsNamed, ExtInv, OtherRowsSame, Started, Terminal
<1> QED BY <1>6, <1>7, NobodyMoves DEF SubmitInitialEvaluationJob

LEMMA ExtUploadKeeps ==
  ASSUME ExtInv, NEW s \in Submissions, UploadArtifact(s), UNCHANGED handed
  PROVE  ExtKept
<1>1. /\ evidence \in [Submissions -> 0..MaxEvidence]
      /\ evidence' = [evidence EXCEPT ![s] = @ + 1]
      /\ UNCHANGED <<jobs, results, clock, wake, runner, faults>>
      /\ evidence[s] < MaxEvidence
  BY DEF UploadArtifact, ExtInv, ExtTypeOK, TypeOK
<1>2. evidence' \in [Submissions -> 0..MaxEvidence] /\ EvidenceGrows
  BY <1>1, QueueAssumption DEF EvidenceGrows
<1>3. ExtTypeOK'
  BY <1>1, <1>2 DEF ExtInv, ExtTypeOK, TypeOK
<1> QED BY <1>1, <1>2, <1>3, SameAdvances, NobodyMoves

(* A worker takes an id from the channel, or wakes up by its ticker.         *)
LEMMA ExtWakeKeeps ==
  ASSUME ExtInv, NEW w \in Workers, WakeUp(w) \/ Tick(w), UNCHANGED handed
  PROVE  ExtKept
<1>1. /\ w \in Runners /\ w \notin Handlers /\ wake' \in Seq(Jobs)
      /\ UNCHANGED <<jobs, results, evidence, clock, faults>>
  <2>1. wake \in Seq(Jobs)
    BY DEF ExtInv, ExtTypeOK, TypeOK
  <2>2. CASE WakeUp(w)
    BY <2>1, <2>2, WorkerIsNoHandler DEF WakeUp
  <2>3. CASE Tick(w)
    BY <2>1, <2>3, WorkerIsNoHandler DEF Tick
  <2> QED BY <2>2, <2>3
<1>2. /\ runner' \in [Runners -> RunnerStates] /\ OthersSame(w)
      /\ (runner'[w].pc = "mark" /\ runner'[w].job \in Jobs) \/ runner'[w].pc = "drain"
  <2>1. CASE WakeUp(w)
    <3>1. Head(wake) \in Jobs
      BY <2>1 DEF WakeUp, ExtInv, ExtTypeOK, TypeOK
    <3> QED BY <1>1, <2>1, <3>1, TakeEffect DEF WakeUp, ExtInv, ExtTypeOK, Steps
  <2>2. CASE Tick(w)
    BY <1>1, <2>2, GotoEffect DEF Tick, ExtInv, ExtTypeOK, Steps
  <2> QED BY <2>1, <2>2
<1>3. ExtTypeOK' /\ EvidenceGrows
  <2>1. TypeOK'
    BY <1>1, <1>2 DEF ExtInv, ExtTypeOK, TypeOK
  <2>2. EvidenceGrows
    BY <1>1, EvidenceTyped DEF ExtInv, EvidenceGrows
  <2> QED BY <2>1, <2>2 DEF ExtInv, ExtTypeOK
<1>4. RunnerFits(w)' /\ ~FirstHand(w)'
  BY <1>1, <1>2 DEF RunnerFits, FirstHand, Holding
<1> QED BY <1>1, <1>2, <1>3, <1>4, SameAdvances, OneSteps

LEMMA ExtDrainKeeps ==
  ASSUME ExtInv, NEW w \in Workers, DrainQueuedEvaluationJobs(w), UNCHANGED handed
  PROVE  ExtKept
  BY ExtClaimKeeps, WorkerIsNoHandler DEF DrainQueuedEvaluationJobs

(* A crash leaves the tables and what worker processes were given.           *)
LEMMA ExtCrashKeeps ==
  ASSUME ExtInv, Crash, UNCHANGED handed
  PROVE  ExtKept
<1>1. /\ runner' = [w \in Runners |-> Idle] /\ wake' = <<>>
      /\ UNCHANGED <<jobs, results, evidence, clock>>
      /\ faults' \in 0..MaxFaults
  BY FaultsTyped DEF Crash, ExtInv, ExtTypeOK
<1>2. Idle \in RunnerStates /\ Idle.pc = "idle"
  BY DEF Idle, RunnerStates, Steps
<1>3. ExtTypeOK' /\ EvidenceGrows
  <2>1. TypeOK'
    BY <1>1, <1>2 DEF ExtInv, ExtTypeOK, TypeOK
  <2>2. EvidenceGrows
    BY <1>1, EvidenceTyped DEF ExtInv, EvidenceGrows
  <2> QED BY <2>1, <2>2 DEF ExtInv, ExtTypeOK
<1>4. RowsAdvance /\ RequestsNamed'
  BY <1>1, SameAdvances
<1>5. \A w \in Runners : runner'[w].pc = "idle"
  BY <1>1, <1>2
<1>6. (\A w \in Runners : RunnerFits(w)') /\ OneParty'
  BY <1>5 DEF RunnerFits, OneParty, FirstHand, Holding, ExtInv
<1>7. \A a \in handed' : HandedFits(a)'
  BY <1>3, <1>4, HandedStillFits
<1>8. ScoredIsInSnapshot'
  BY <1>1 DEF ExtInv, ScoredIsInSnapshot
<1> QED BY <1>3, <1>4, <1>6, <1>7, <1>8 DEF ExtInv, ExtKept

-----------------------------------------------------------------------------
(* The handlers of the worker API *)

LEMMA HandlerIsNoWorker == \A h \in Handlers : h \in Runners /\ h \notin Workers
  BY QueueAssumption DEF Runners

LEMMA ClaimForWorkerKeeps ==
  ASSUME ExtInv, NEW h \in Handlers, ClaimForWorker(h)
  PROVE  ExtKept
  BY ExtClaimKeeps, HandlerIsNoWorker DEF ClaimForWorker

(* The job goes to the worker process, and the handler lets go of it.        *)
LEMMA HandsOut ==
  ASSUME ExtInv, NEW h \in Handlers, runner[h].pc = "build", Leave(h), NoFault,
         NEW n \in {0, evidence[jobs[runner[h].job].submission]},
         handed' = handed \cup {[job |-> runner[h].job, scored |-> n]},
         UNCHANGED <<jobs, results, evidence, clock, wake>>
  PROVE  ExtKept
<1>1. PICK j \in Jobs : j = runner[h].job /\ Started(j)
  BY HandlerIsNoWorker DEF ExtInv, RunnerFits, Holding
<1>2. PICK s \in Submissions : s = jobs[j].submission
  BY <1>1 DEF ExtInv, RequestsNamed, Started
<1>3. n \in Nat /\ n <= evidence[s]
  BY <1>1, <1>2, EvidenceTyped DEF ExtInv
<1> DEFINE b == [job |-> j, scored |-> n]
<1>4. b \in Work /\ handed' = handed \cup {b} /\ b.job = j /\ b.scored = n
  BY <1>1, <1>3 DEF Work
<1>5. HandedFits(b)
  BY <1>1, <1>2, <1>3 DEF HandedFits
<1> HIDE DEF b
<1>6. /\ runner' \in [Runners -> RunnerStates] /\ OthersSame(h)
      /\ RunnerFits(h)' /\ ~FirstHand(h)'
  BY HandlerIsNoWorker, AnyLeave
<1>7. ExtTypeOK' /\ EvidenceGrows
  <2>1. TypeOK'
    BY <1>6 DEF ExtInv, ExtTypeOK, TypeOK, NoFault
  <2>2. EvidenceGrows
    BY EvidenceTyped DEF ExtInv, EvidenceGrows
  <2> QED BY <1>4, <2>1, <2>2 DEF ExtInv, ExtTypeOK
<1>8. RowsAdvance /\ RequestsNamed'
  BY SameAdvances
<1>9. \A v \in Runners : RunnerFits(v)'
  BY <1>6, <1>7, <1>8, RunnerStillFits DEF OthersSame
<1>10. \A a \in handed' : HandedFits(a)'
  BY <1>4, <1>5 DEF HandedFits, Started, ExtInv
<1>11. OneParty'
  <2>1. \A v \in Runners \ {h} : runner'[v] = runner[v] /\ (FirstHand(v)' <=> FirstHand(v))
    BY <1>6 DEF OthersSame, FirstHand
  <2>2. h \in Runners /\ FirstHand(h) /\ runner[h].job = j
    BY <1>1, HandlerIsNoWorker DEF FirstHand, Holding
  <2>3. \A v \in Runners \ {h} : FirstHand(v) => runner[v].job # j
    BY <2>2 DEF ExtInv, OneParty
  <2>4. \A a \in handed : a.job # j
    BY <2>2 DEF ExtInv, OneParty
  <2> QED BY <1>4, <1>6, <2>1, <2>3, <2>4 DEF ExtInv, OneParty
<1>12. ScoredIsInSnapshot'
  BY DEF ExtInv, ScoredIsInSnapshot
<1> QED BY <1>7, <1>8, <1>9, <1>10, <1>11, <1>12 DEF ExtInv, ExtKept

LEMMA BuildKeeps ==
  ASSUME ExtInv, NEW h \in Handlers, BuildWorkerRequest(h)
  PROVE  ExtKept
<1>1. /\ h \in Runners /\ runner[h].pc = "build" /\ runner[h].pc \in Holding
      /\ UNCHANGED <<jobs, results, evidence, clock, wake>>
  BY HandlerIsNoWorker DEF BuildWorkerRequest, Holding
<1>2. ASSUME NEW n \in {0, evidence[jobs[runner[h].job].submission]},
             handed' = handed \cup {[job |-> runner[h].job, scored |-> n]}, Leave(h), NoFault
      PROVE  ExtKept
  BY <1>1, <1>2, HandsOut
<1>3. CASE Goto(h, "fail") /\ NoFault /\ UNCHANGED handed
  BY <1>1, <1>3, ExtGiveUpKeeps
<1>4. CASE Fault /\ Leave(h) /\ UNCHANGED handed
  BY <1>1, <1>4, SameAdvances, LeavesKeep
<1> QED BY <1>2, <1>3, <1>4 DEF BuildWorkerRequest

(* A completion starts a run of its own with the scores it brings.           *)
LEMMA CompleteFromWorkerKeeps ==
  ASSUME ExtInv, NEW h \in Handlers, NEW work \in handed, CompleteFromWorker(h, work)
  PROVE  ExtKept
<1>1. /\ h \in Runners /\ h \notin Workers /\ runner \in [Runners -> RunnerStates]
      /\ UNCHANGED <<jobs, results, evidence, clock, wake, faults, handed>>
      /\ work.job \in Jobs /\ work.scored \in Nat /\ HandedFits(work)
  BY HandlerIsNoWorker DEF CompleteFromWorker, ExtInv, ExtTypeOK, TypeOK, Work
<1> DEFINE r == [Idle EXCEPT !.pc = "read", !.job = work.job, !.scored = work.scored]
<1>2. r \in RunnerStates /\ r.pc = "read" /\ r.job = work.job /\ r.scored = work.scored
  BY <1>1 DEF RunnerStates, Steps, Idle
<1>3. runner' = [runner EXCEPT ![h] = r]
  BY DEF CompleteFromWorker
<1> HIDE DEF r
<1>4. runner' \in [Runners -> RunnerStates] /\ runner'[h] = r /\ OthersSame(h)
  BY <1>1, <1>2, <1>3 DEF OthersSame
<1>5. /\ jobs' \in [Jobs -> JobRows] /\ RowsAdvance /\ RequestsNamed'
      /\ ExtTypeOK' /\ EvidenceGrows
  BY <1>1, <1>4, SameAdvances, ExtTypesKept DEF NoFault
<1>6. RunnerFits(h)' /\ ~FirstHand(h)'
  BY <1>1, <1>2, <1>4 DEF RunnerFits, FirstHand, HandedFits, Started, Holding
<1> QED BY <1>1, <1>4, <1>5, <1>6, OneSteps

LEMMA FailFromWorkerKeeps ==
  ASSUME ExtInv, NEW h \in Handlers, NEW work \in handed, FailFromWorker(h, work)
  PROVE  ExtKept
<1>1. /\ h \in Runners /\ h \notin Workers /\ work.job \in Jobs /\ Started(work.job)
      /\ Take(h, work.job, "fail")
      /\ UNCHANGED <<jobs, results, evidence, clock, wake, faults, handed>>
  BY HandlerIsNoWorker DEF FailFromWorker, ExtInv, ExtTypeOK, Work, HandedFits
<1>2. /\ jobs' \in [Jobs -> JobRows] /\ RowsAdvance /\ RequestsNamed' /\ Started(work.job)'
  BY <1>1, SameAdvances DEF Started
<1> QED BY <1>1, <1>2, TakesKeep DEF NoFault

LEMMA AbortKeeps ==
  ASSUME ExtInv, NEW h \in Handlers, Abort(h)
  PROVE  ExtKept
  BY HandlerIsNoWorker, SameAdvances, LeavesKeep DEF Abort

-----------------------------------------------------------------------------

LEMMA ExtInitInv == ExtInit => ExtInv
<1> SUFFICES ASSUME ExtInit PROVE ExtInv
  OBVIOUS
<1>1. ExtTypeOK
  BY InitIInv DEF ExtInit, IInv, ExtTypeOK
<1>2. /\ \A j \in Jobs : jobs[j].status = "absent"
      /\ \A w \in Runners : runner[w].pc = "idle"
      /\ DOMAIN results = {} /\ handed = {}
  BY DEF ExtInit, Init, NoRow, Idle
<1> QED BY <1>1, <1>2 DEF ExtInv, RequestsNamed, RunnerFits, FirstHand, OneParty, Holding, ScoredIsInSnapshot

LEMMA ExtNextKeeps == ExtInv /\ ExtNext => ExtKept
<1> SUFFICES ASSUME ExtInv, ExtNext PROVE ExtKept
  OBVIOUS
<1>1. ASSUME Next, UNCHANGED handed PROVE ExtKept
  <2>1. ASSUME NEW w \in Workers, WorkerStep(w) PROVE ExtKept
    BY <1>1, <2>1, WorkerIsNoHandler, ExtWakeKeeps, ExtMarkKeeps, ExtDrainKeeps, RunJobKeeps DEF WorkerStep
  <2> QED BY <1>1, <2>1, ExtSubmitKeeps, ExtUploadKeeps, ExtCrashKeeps DEF Next
<1>2. ASSUME NEW h \in Handlers, HandlerStep(h) PROVE ExtKept
  BY <1>2, HandlerIsNoWorker, ClaimForWorkerKeeps, BuildKeeps, CompleteFromWorkerKeeps, FailFromWorkerKeeps,
     RunJobKeeps, AbortKeeps DEF HandlerStep
<1> QED BY <1>1, <1>2 DEF ExtNext

LEMMA ExtUnchanged == ExtInv /\ UNCHANGED extVars => ExtInv'
  BY DEF ExtInv, extVars, vars, ExtTypeOK, TypeOK, RequestsNamed, RunnerFits, HandedFits, Started, OneParty,
         FirstHand, ScoredIsInSnapshot

(* The types, and what every goroutine and every worker process may assume,  *)
(* hold with any number of worker processes, repeated posts and faults.      *)
THEOREM ExternalInvariance == ExtSpec => []ExtInv
<1>1. ExtInv /\ [ExtNext]_extVars => ExtInv'
  BY ExtNextKeeps, ExtUnchanged DEF ExtKept
<1> QED BY <1>1, ExtInitInv, PTL DEF ExtSpec

(* Claims of the worker API and of the pool never give a job to two parties: *)
(* a started job does not go back to the queue, whatever is posted for it.   *)
THEOREM OnePartyPerJob == ExtSpec => []HandedToOne
<1>1. ExtInv => HandedToOne
  <2> SUFFICES ASSUME ExtInv PROVE HandedToOne
    OBVIOUS
  <2>1. ASSUME NEW a \in handed, NEW w \in Workers, w \in Holders(a.job) PROVE FALSE
    BY <2>1 DEF Holders, ExtInv, OneParty, FirstHand
  <2> QED BY <2>1 DEF HandedToOne, ExtInv, OneParty
<1> QED BY <1>1, ExternalInvariance, PTL

(* The context buildWorkerEvaluationRequest sends is no more than the one    *)
(* the completion reads for the snapshot, since evidence only grows.         *)
THEOREM SnapshotCoversScores == ExtSpec => []ScoredIsInSnapshot
<1>1. ExtInv => ScoredIsInSnapshot
  BY DEF ExtInv
<1> QED BY <1>1, ExternalInvariance, PTL

(* A late or repeated completion or failure may change the answer about a    *)
(* finished job, but never starts it again.                                  *)
THEOREM FinishedIsNotRestarted == ExtSpec => NeverRestarted
<1>1. ExtInv /\ [ExtNext]_extVars => [\A j \in Jobs : jobs[j].status \in Terminal => jobs'[j].status \in Terminal]_extVars
  BY ExtNextKeeps DEF ExtKept, RowsAdvance
<1> QED BY <1>1, ExternalInvariance, PTL DEF ExtSpec, NeverRestarted

=============================================================================
