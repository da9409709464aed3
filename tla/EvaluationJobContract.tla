------------------------ MODULE EvaluationJobContract ------------------------
(***************************************************************************)
(* What a client of the evaluation job API can rely on: the answers of      *)
(* GetEvaluationJob, without workers, wake-ups, tables or failures.  A job  *)
(* moves from queued to running to one of two final answers, and a success  *)
(* names an evaluation that no other job names.                             *)
(***************************************************************************)
EXTENDS Naturals

CONSTANT Jobs

VARIABLES
  status,     \* the status of each job, "absent" before the request
  evaluation  \* the evaluation a job answers with, 0 for none

view == <<status, evaluation>>

TypeOK ==
  /\ status \in [Jobs -> {"absent", "queued", "running", "succeeded", "failed"}]
  /\ evaluation \in [Jobs -> Nat]

Init ==
  /\ status = [j \in Jobs |-> "absent"]
  /\ evaluation = [j \in Jobs |-> 0]

Move(j, from, to) ==
  /\ status[j] = from
  /\ status' = [status EXCEPT ![j] = to]

Enqueue(j) == Move(j, "absent", "queued") /\ UNCHANGED evaluation

Start(j) == Move(j, "queued", "running") /\ UNCHANGED evaluation

Fail(j) == Move(j, "running", "failed") /\ UNCHANGED evaluation

Succeed(j) ==
  /\ Move(j, "running", "succeeded")
  /\ evaluation'[j] \in Nat \ {0}
  /\ \A k \in Jobs \ {j} : evaluation'[j] # evaluation[k]
  /\ evaluation' = [evaluation EXCEPT ![j] = evaluation'[j]]

Next == \E j \in Jobs : Enqueue(j) \/ Start(j) \/ Succeed(j) \/ Fail(j)

(* The part of the contract that says what may happen. *)
Safety == Init /\ [][Next]_view

(* A queued job is started; a started one may stay so forever, because a    *)
(* process that dies in the middle of a run is not noticed.                 *)
Spec == Safety /\ \A j \in Jobs : WF_view(Start(j))
=============================================================================
