--------------------------- MODULE EngineProperties ---------------------------
(***************************************************************************)
(* What one workflow execution promises.                                   *)
(***************************************************************************)
EXTENDS Engine

(* An operation is in the executor's hands only while the engine tracks it *)
(* as executing and its row says so: a waiting or ended row never has an   *)
(* operation behind it, so one task is never handed out twice              *)
(* (Engine._handle_executable_task, _terminate_tasks, _workflow_resume).   *)
ContextsHaveRows ==
  \A t \in Tasks : ctx[t] # "none" =>
    /\ t \in executing \cap (Operations \ Functionless)
    /\ taskStatus[t] \in {"sent", "started"}
    /\ ctx[t] = "queued" => taskStatus[t] = "sent"
    /\ ctx[t] = "running" => taskStatus[t] = "started"

(* How a task may stand for the tasks that depend on it: it succeeded, or  *)
(* its failure is ignored, or it failed in an earlier process and the      *)
(* execution was resumed without retrying it.                              *)
Settled(t) ==
  \/ taskStatus[t] = "success"
  \/ taskStatus[t] = "failed" /\ t \in IgnoreFailure \cup carried

(* An operation is handed out, runs or reports only when every task it     *)
(* depends on is settled (_TasksTracker.executable_tasks,                  *)
(* _handle_ended_tasks), whatever was cancelled, retried or resumed.       *)
DependenciesFirst ==
  \A t \in Tasks : ctx[t] # "none" => \A d \in Deps[t] : Settled(d)

(* An execution row says succeeded only when every task is settled         *)
(* (all_tasks_consumed, _workflow_succeeded).                              *)
SucceededIsComplete ==
  status = "succeeded" => \A t \in Tasks : Settled(t)

(* When Engine.execute has ended, in whatever way, no operation is queued  *)
(* or running any more: the executing tasks it terminates are all of them  *)
(* (_terminate_tasks, all_tasks_consumed).                                 *)
NoOrphans == pc = "done" => \A t \in Tasks : ctx[t] \notin Live

(* A failed task has used up its attempts, unless it aborted or its        *)
(* failure is ignored, and none fails more often than max_attempts allows  *)
(* (_task_failed), across cancellations and resumes: once more after       *)
(* retry_failed has reset its count to zero.                               *)
RetryBudget ==
  \A t \in Tasks :
    /\ taskStatus[t] = "failed" =>
         \/ t \in aborted \cup IgnoreFailure
         \/ MaxAttempts[t] # INFINITE_RETRIES /\ failures[t] >= MaxAttempts[t]
    /\ MaxAttempts[t] # INFINITE_RETRIES =>
         \/ failures[t] <= MaxAttempts[t]
         \/ failures[t] = MaxAttempts[t] + 1 /\ attempts[t] < failures[t]

(* A task that has ended stays as it is, whatever reports, cancellations   *)
(* and resumes follow; only resuming with retry_failed reopens a failure.  *)
EndedIsFinal ==
  [][\A t \in Tasks : HasEnded(taskStatus[t]) =>
       \/ taskStatus'[t] = taskStatus[t] /\ attempts'[t] = attempts[t]
       \/ /\ taskStatus[t] = "failed" /\ taskStatus'[t] = "pending"
          /\ pc = "launched" /\ mode = "retry_failed"]_vars

(* An engine that stopped for a cancellation leaves the row cancelled      *)
(* (_workflow_cancelled), whichever of the two threads wrote last.         *)
CancelHonoured == pc = "done" /\ ending = "cancelled" => status = "cancelled"

(* When the engine has ended, the execution is not active: it does not     *)
(* bar the service's next execution (ExecutionBase.is_active).             *)
EndsInactive == pc = "done" /\ ending # "refused" => status \in END_STATES

(* validate_status: "verifies execution status transitions are OK".        *)
TransitionsValid ==
  [][status' = status \/ status' \in VALID_TRANSITIONS[status]]_status

-----------------------------------------------------------------------------
(* The inductive invariant.                                                *)

(* Between the tracker's construction and the end of the process every     *)
(* task is in exactly one of its lists: none is forgotten or counted twice *)
(* (_TasksTracker.executing, finished).                                    *)
TrackerPartition ==
  /\ executed \cap executing = {}
  /\ executable \cap (executed \cup executing) = {}
  /\ pc \notin {"off", "launched"} /\ ending # "refused" =>
       executed \cup executing \cup executable = Tasks

(* Before the tracker is built its lists are empty. *)
NoTrackerYet ==
  pc \in {"off", "launched"} \/ ending = "refused" =>
    executed = {} /\ executing = {} /\ executable = {}

(* The engine's thread has an ending exactly once it has left its loop. *)
EndingSet ==
  /\ pc \in {"report", "terminate", "done"} <=> ending # "none"
  /\ ending = "refused" => pc = "done"

(* What the tracker counts as executed is settled, and what it counts as   *)
(* executing was handed out when all it depends on was executed; finished  *)
(* finds in its list every task ended_tasks yields.                        *)
TrackerSound ==
  /\ pc = "ended" => scan \subseteq executing
  /\ \A t \in executed : Settled(t)
  /\ \A t \in executing : Deps[t] \subseteq executed

(* The engine reports success only with every task executed, and what its  *)
(* clean-up has left to terminate includes every live context.             *)
EndingSound ==
  /\ pc = "report" => executed = Tasks /\ executing = {}
  /\ pc = "terminate" => \A t \in Tasks : ctx[t] \in Live => t \in scan

Sound ==
  /\ ContextsHaveRows
  /\ TrackerPartition
  /\ NoTrackerYet
  /\ EndingSet
  /\ TrackerSound
  /\ EndingSound
  /\ NoOrphans
  /\ SucceededIsComplete

(* A task that has not ended has been counted right: an attempt has been   *)
(* counted for each failure, the one to come too unless retry_failed has   *)
(* reset the count, and there is an attempt left.                          *)
AttemptsCounted ==
  \A t \in Tasks :
    MaxAttempts[t] # INFINITE_RETRIES /\ ~HasEnded(taskStatus[t]) =>
      /\ failures[t] <= attempts[t] /\ attempts[t] <= failures[t] + 1
      /\ attempts[t] <= MaxAttempts[t]

(* The engine is past the point where it reads or resets the status that   *)
(* earlier processes left.                                                 *)
OnItsOwn == pc # "off" /\ (pc = "launched" => mode = "start") /\ ending # "refused"

(* A cancel status that the engine may act on is the canceller's one       *)
(* write, and once the engine has stopped for it nobody else writes.       *)
CancellationSound ==
  /\ pc # "off" => run > 0
  /\ pc = "off" => cpc = "idle"
  /\ pc = "report" => ending = "succeeded"
  /\ run = 0 => status = "pending"
  /\ OnItsOwn /\ IsCancelStatus(status) => cpc = "returned"
  /\ ending = "cancelled" => cpc = "returned"
  /\ ending = "cancelled" /\ pc = "terminate" => view = status /\ IsCancelStatus(status)

(* Without cancellations the row follows the engine's thread, and its      *)
(* session holds what the row says.                                        *)
RowFollowsEngine ==
  "cancel" \notin Faults =>
    /\ cpc = "idle" /\ ending # "cancelled"
    /\ pc = "launched" /\ mode = "start" => status = "pending"
    /\ pc = "start" => status = "pending" /\ view = status
    /\ pc \in {"top", "ended", "executable", "report", "terminate"} =>
         status = "started" /\ view = status

IInv ==
  /\ TypeOK /\ Sound
  /\ AttemptsCounted /\ RetryBudget
  /\ CancellationSound /\ CancelHonoured
  /\ RowFollowsEngine /\ ("cancel" \notin Faults => EndsInactive)

-----------------------------------------------------------------------------
Stopped == pc \in {"off", "done"}

(* Every execution that is launched ends, unless the report of one of its  *)
(* operations was lost: the skipped ended tasks, the retries and the       *)
(* dependencies are all seen by a later pass (Engine.execute).             *)
Terminates == pc = "launched" ~> (Stopped \/ lost # {})

(* A cancellation the row shows stops the engine even if every operation   *)
(* hangs (_is_cancel).                                                     *)
CancelIsPrompt == status = "cancelling" ~> Stopped

(* A task whose dependencies have ended is handed out, at its first        *)
(* attempt or after a retry interval, even if every other operation hangs  *)
(* (executable_tasks).                                                     *)
ReadyIsDispatched ==
  \A t \in Tasks :
    (/\ ~Stopped /\ pc # "launched"
     /\ IsWaiting(taskStatus[t], t \in Stubs)
     /\ \A d \in Deps[t] : HasEnded(taskStatus[d]))
    ~> (Stopped \/ ~IsWaiting(taskStatus[t], t \in Stubs))
=============================================================================
