------------------------------- MODULE Engine -------------------------------
(***************************************************************************)
(* One workflow execution of ARIA, over its whole life: processes that     *)
(* start it and resume it, the engine thread that drives its task graph    *)
(* (workflows/core/engine.py), the handlers that move the execution and    *)
(* task rows (workflows/core/events_handler.py), the thread that asks for  *)
(* its cancellation (cli/commands/executions.py), and an executor          *)
(* abstracted to what the engine sees of it.                               *)
(*                                                                         *)
(* The rows are in the database and survive the process; the tracker, the  *)
(* executor's contexts and the views are in memory and do not.  Each       *)
(* thread has its own session: it checks a transition against the status   *)
(* its session has loaded (a view) and then writes blindly, since the      *)
(* execution row has no version column.                                    *)
(*                                                                         *)
(* The handlers of a task's start and success also write the state of its  *)
(* node, which nothing here reads: module ServiceExecutions has it.        *)
(***************************************************************************)
EXTENDS Orchestration, FiniteSets

CONSTANTS
  Tasks,          \* the tasks of the compiled graph
  Deps,           \* Deps[t]: the tasks t depends on
  Stubs,          \* tasks with a stub type
  Functionless,   \* operations without a function: skipped by the executor
  MaxAttempts,    \* MaxAttempts[t]: TaskBase.max_attempts
  IgnoreFailure,  \* tasks with ignore_failure
  ResumeModes,    \* how the execution may be resumed
  Faults,         \* what may go wrong outside the code
  MaxRuns,        \* bound: processes that start or resume the execution
  AttemptCap      \* bound: attempts of a task that retries for ever

Operations == Tasks \ Stubs

ASSUME TasksAssumption ==
  /\ Stubs \subseteq Tasks
  /\ Functionless \subseteq Operations
  /\ IgnoreFailure \subseteq Tasks
  /\ Deps \in [Tasks -> SUBSET Tasks]

ASSUME MaxAttemptsAssumption ==
  MaxAttempts \in [Tasks -> Int]
  /\ \A t \in Tasks : MaxAttempts[t] >= 1 \/ MaxAttempts[t] = INFINITE_RETRIES

ASSUME EnvironmentAssumption ==
  /\ ResumeModes \subseteq {"resume", "retry_failed"}
  /\ Faults \subseteq {"cancel", "crash", "lost", "dispatch"}
  /\ MaxRuns \in Nat /\ AttemptCap \in Nat

VARIABLES
  status,      \* execution row: status
  taskStatus,  \* task rows: status
  attempts,    \* task rows: attempts_count
  due,         \* task rows: due_at has passed
  pc,          \* where the engine thread is
  mode,        \* the arguments of Engine.execute
  view,        \* the status the engine's session has loaded
  executed, executing, executable,   \* the lists of _TasksTracker
  scan,        \* what the engine's current loop has left to visit
  ending,      \* how the engine's loop ended
  ctx,         \* the executor's operation contexts
  cpc, cview,  \* the cancelling thread, and what its session has loaded
  run          \* processes so far

(* History variables: never read by the actions. *)
VARIABLES
  failures,    \* failed attempts since the task was created or reset
  aborted,     \* tasks whose last failure was an abort
  carried,     \* tasks already failed when the tracker was built
  lost         \* tasks whose report was lost in this process

rows      == <<taskStatus, attempts, due>>
tracker   == <<executed, executing, executable>>
control   == <<cpc, cview>>
history   == <<failures, aborted, carried, lost>>
vars      == <<status, rows, pc, mode, view, tracker, scan, ending, ctx,
               control, run, history>>

(* A context is queued once it is handed to the executor and running once  *)
(* it is reported started; the last three are reports on their way to the  *)
(* row, which nothing can stop any more.                                   *)
Live      == {"queued", "running"}
Reporting == {"succeeded", "failed", "aborted"}
CONTEXTS  == {"none"} \cup Live \cup Reporting

PCS == {"off", "launched", "start", "top", "ended", "executable", "report",
        "terminate", "done"}

TypeOK ==
  /\ status \in EXECUTION_STATES
  /\ taskStatus \in [Tasks -> TASK_STATES]
  /\ attempts \in [Tasks -> Nat]
  /\ due \in [Tasks -> BOOLEAN]
  /\ pc \in PCS
  /\ mode \in {"start", "resume", "retry_failed"}
  /\ view \in EXECUTION_STATES
  /\ executed \subseteq Tasks
  /\ executing \subseteq Tasks
  /\ executable \subseteq Tasks
  /\ scan \subseteq Tasks
  /\ ending \in {"none", "succeeded", "failed", "cancelled", "refused"}
  /\ ctx \in [Tasks -> CONTEXTS]
  /\ cpc \in {"idle", "cancelling", "returned"}
  /\ cview \in EXECUTION_STATES
  /\ run \in Nat
  /\ failures \in [Tasks -> Nat]
  /\ aborted \subseteq Tasks
  /\ carried \subseteq Tasks
  /\ lost \subseteq Tasks

(* The rows the preparer and the graph compiler have just stored. *)
Init ==
  /\ status = "pending"
  /\ taskStatus = [t \in Tasks |-> "pending"]
  /\ attempts = [t \in Tasks |-> 1]
  /\ due = [t \in Tasks |-> TRUE]
  /\ pc = "off" /\ mode = "start" /\ view = "pending"
  /\ executed = {} /\ executing = {} /\ executable = {} /\ scan = {}
  /\ ending = "none"
  /\ ctx = [t \in Tasks |-> "none"]
  /\ cpc = "idle" /\ cview = "pending"
  /\ run = 0
  /\ failures = [t \in Tasks |-> 0]
  /\ aborted = {} /\ carried = {} /\ lost = {}

-----------------------------------------------------------------------------
(* The process. *)

(* start or resume: the engine thread is created with its arguments. *)
Launch(m) ==
  /\ pc = "off" /\ run < MaxRuns
  /\ m \in IF run = 0 THEN {"start"} ELSE ResumeModes
  /\ pc' = "launched" /\ mode' = m /\ run' = run + 1
  /\ UNCHANGED <<status, rows, view, tracker, scan, ending, ctx, control,
                 history>>

(* Everything in memory is gone with the process. *)
ProcessGone ==
  /\ pc' = "off" /\ mode' = "start" /\ view' = "pending"
  /\ executed' = {} /\ executing' = {} /\ executable' = {} /\ scan' = {}
  /\ ending' = "none"
  /\ ctx' = [t \in Tasks |-> "none"]
  /\ cpc' = "idle" /\ cview' = "pending"
  /\ lost' = {}
  /\ UNCHANGED <<status, rows, run, failures, aborted, carried>>

(* The main thread returns once the engine thread has ended. *)
Exit ==
  /\ pc = "done" /\ cpc # "cancelling"
  /\ ProcessGone

Crash ==
  /\ "crash" \in Faults /\ pc # "off"
  /\ ProcessGone

-----------------------------------------------------------------------------
(* The engine thread: Engine.execute. *)

(* _TasksTracker.__init__, over the task rows ts. *)
NewTracker_ForgetsFailed(ts) ==
  /\ executed' = {t \in Tasks : ts[t] = "success"}
  /\ executable' = {t \in Tasks : ~HasEnded(ts[t])}
  /\ executing' = {}
  /\ carried' = {t \in Tasks : ts[t] = "failed"}

NewTracker(ts) ==
  /\ executed' = {t \in Tasks : HasEnded(ts[t])}
  /\ executable' = {t \in Tasks : ~HasEnded(ts[t])}
  /\ executing' = {}
  /\ carried' = {t \in Tasks : ts[t] = "failed"}

BeginNew ==
  /\ pc = "launched" /\ mode = "start"
  /\ NewTracker(taskStatus)
  /\ pc' = "start" /\ view' = status
  /\ UNCHANGED <<status, rows, mode, scan, ending, ctx, control, run,
                 failures, aborted, lost>>

(* The tasks _workflow_resume gives another life. *)
Reset(t) ==
  mode = "retry_failed" /\ taskStatus[t] = "failed" /\ t \notin IgnoreFailure

Resumed_Everything(t) == "pending"

Resumed(t) == IF HasEnded(taskStatus[t]) /\ ~Reset(t)
              THEN taskStatus[t] ELSE "pending"

(* _workflow_resume, then the tracker. *)
BeginResumed ==
  /\ pc = "launched" /\ mode # "start"
  /\ CanChange(status, "pending")
  /\ status' = "pending" /\ view' = "pending"
  /\ taskStatus' = [t \in Tasks |-> Resumed(t)]
  /\ attempts' = [t \in Tasks |-> IF Reset(t) THEN 0 ELSE attempts[t]]
  /\ failures' = [t \in Tasks |-> IF Reset(t) THEN 0 ELSE failures[t]]
  /\ NewTracker([t \in Tasks |-> Resumed(t)])
  /\ pc' = "start"
  /\ UNCHANGED <<due, mode, scan, ending, ctx, control, run, aborted, lost>>

(* The validator refuses: the error leaves the engine thread. *)
BeginRefused ==
  /\ pc = "launched" /\ mode # "start"
  /\ ~CanChange(status, "pending")
  /\ pc' = "done" /\ ending' = "refused"
  /\ UNCHANGED <<status, rows, mode, view, tracker, scan, ctx, control, run,
                 history>>

(* What the engine's session reads: the value it has loaded, or the row if *)
(* a commit of this thread (a log record) has expired it.                  *)
Loaded == {view, status}

(* _workflow_started *)
WorkflowStarted ==
  /\ pc = "start"
  /\ \E v \in Loaded :
       IF IsCancelStatus(v)
         THEN view' = v /\ UNCHANGED status
         ELSE view' = "started" /\ status' = "started"
  /\ pc' = "top"
  /\ UNCHANGED <<rows, mode, tracker, scan, ending, ctx, control, run, history>>

(* executing_tasks, as the engine's clean-up iterates it. *)
ToTerminate_Started == {t \in executing : taskStatus[t] = "started"}

ToTerminate == executing

(* _is_cancel, at the top of the loop. *)
CheckCancel ==
  /\ pc = "top"
  /\ view' = status
  /\ IF IsCancelStatus(status)
       THEN pc' = "terminate" /\ ending' = "cancelled" /\ scan' = ToTerminate
       ELSE pc' = "ended" /\ scan' = executing /\ UNCHANGED ending
  /\ UNCHANGED <<status, rows, mode, tracker, ctx, control, run, history>>

(* ended_tasks, on a task that has not ended. *)
PassRunning(t) ==
  /\ pc = "ended" /\ t \in scan
  /\ ~HasEnded(taskStatus[t])
  /\ scan' = scan \ {t}
  /\ UNCHANGED <<status, rows, pc, mode, view, tracker, ending, ctx, control,
                 run, history>>

FailsWorkflow(t) == taskStatus[t] = "failed" /\ t \notin IgnoreFailure

(* _handle_ended_tasks raises: the task stays among the executing ones. *)
RaiseFailed(t) ==
  /\ pc = "ended" /\ t \in scan
  /\ FailsWorkflow(t)
  /\ pc' = "terminate" /\ ending' = "failed" /\ scan' = ToTerminate
  /\ UNCHANGED <<status, rows, mode, view, tracker, ctx, control, run, history>>

(* finished removes the task from the very list ended_tasks iterates: the  *)
(* task that followed it in the list is not looked at in this pass.        *)
Finished(t) ==
  /\ pc = "ended" /\ t \in scan
  /\ HasEnded(taskStatus[t]) /\ ~FailsWorkflow(t)
  /\ executing' = executing \ {t}
  /\ executed' = executed \cup {t}
  /\ \/ scan = {t} /\ scan' = {}
     \/ \E skipped \in scan \ {t} : scan' = scan \ {t, skipped}
  /\ UNCHANGED <<status, rows, pc, mode, view, executable, ending, ctx,
                 control, run, history>>

(* executable_tasks iterates a copy of both lists. *)
StartDispatching ==
  /\ pc = "ended" /\ scan = {}
  /\ pc' = "executable" /\ scan' = executing \cup executable
  /\ UNCHANGED <<status, rows, mode, view, tracker, ending, ctx, control,
                 run, history>>

Ready_IgnoresDependencies(t) ==
  /\ IsWaiting(taskStatus[t], t \in Stubs)
  /\ due[t]

Ready_AfterExecuting(t) ==
  /\ IsWaiting(taskStatus[t], t \in Stubs)
  /\ due[t]
  /\ Deps[t] \subseteq executed \cup executing

Ready_OneAtATime(t) ==
  /\ IsWaiting(taskStatus[t], t \in Stubs)
  /\ due[t]
  /\ Deps[t] \subseteq executed
  /\ executing \subseteq {t}

Ready(t) ==
  /\ IsWaiting(taskStatus[t], t \in Stubs)
  /\ due[t]
  /\ Deps[t] \subseteq executed

PassUnready(t) ==
  /\ pc = "executable" /\ t \in scan
  /\ ~Ready(t)
  /\ scan' = scan \ {t}
  /\ UNCHANGED <<status, rows, pc, mode, view, tracker, ending, ctx, control,
                 run, history>>

(* _TasksTracker.executing, for the task the engine is about to handle. *)
Enlist(t) ==
  /\ pc = "executable" /\ t \in scan
  /\ Ready(t)
  /\ executing' = executing \cup {t}
  /\ executable' = executable \ {t}
  /\ UNCHANGED executed

(* StubTaskExecutor: ended at once, and no attempt is counted. *)
DispatchStub(t) ==
  /\ t \in Stubs /\ Enlist(t)
  /\ taskStatus' = [taskStatus EXCEPT ![t] = "success"]
  /\ scan' = scan \ {t}
  /\ UNCHANGED <<status, attempts, due, pc, mode, view, ending, ctx, control,
                 run, history>>

(* BaseExecutor.execute without a function: sent, started and succeeded    *)
(* by the engine thread itself.                                            *)
DispatchFunctionless(t) ==
  /\ t \in Functionless /\ Enlist(t)
  /\ taskStatus' = [taskStatus EXCEPT ![t] = "success"]
  /\ attempts' = [attempts EXCEPT ![t] = @ + 1]
  /\ scan' = scan \ {t}
  /\ UNCHANGED <<status, due, pc, mode, view, ending, ctx, control, run,
                 history>>

(* _task_sent, then the executor takes the context. *)
DispatchOperation(t) ==
  /\ t \in Operations \ Functionless /\ Enlist(t)
  /\ taskStatus' = [taskStatus EXCEPT ![t] = "sent"]
  /\ ctx' = [ctx EXCEPT ![t] = "queued"]
  /\ scan' = scan \ {t}
  /\ UNCHANGED <<status, attempts, due, pc, mode, view, ending, control, run,
                 history>>

(* Handling the task raises, before or after it is marked sent: no such    *)
(* executor, no more processes, an executor that is closed.                *)
DispatchRaises(t) ==
  /\ "dispatch" \in Faults
  /\ t \in Operations /\ Enlist(t)
  /\ \/ UNCHANGED taskStatus
     \/ taskStatus' = [taskStatus EXCEPT ![t] = "sent"]
  /\ pc' = "terminate" /\ ending' = "failed" /\ scan' = executing'
  /\ UNCHANGED <<status, attempts, due, mode, view, ctx, control, run, history>>

(* _TasksTracker.all_tasks_consumed *)
AllTasksConsumed_Dispatched == executable = {}

AllTasksConsumed == executed = Tasks /\ executing = {}

(* The loop's exit, or its next iteration. *)
EndPass ==
  /\ pc = "executable" /\ scan = {}
  /\ IF AllTasksConsumed
       THEN pc' = "report" /\ ending' = "succeeded"
       ELSE pc' = "top" /\ UNCHANGED ending
  /\ UNCHANGED <<status, rows, mode, view, tracker, scan, ctx, control, run,
                 history>>

(* _terminate_tasks: what is already reporting cannot be stopped. *)
Terminate(t) ==
  /\ pc = "terminate" /\ t \in scan
  /\ scan' = scan \ {t}
  /\ ctx' = [ctx EXCEPT ![t] = IF @ \in Live THEN "none" ELSE @]
  /\ UNCHANGED <<status, rows, pc, mode, view, tracker, ending, control, run,
                 history>>

Terminated == pc = "terminate" /\ scan = {}

(* _workflow_cancelled *)
ReportCancelled ==
  /\ Terminated /\ ending = "cancelled"
  /\ \E v \in Loaded :
       IF v \in END_STATES
         THEN view' = v /\ UNCHANGED status
         ELSE view' = "cancelled" /\ status' = "cancelled"
  /\ pc' = "done"
  /\ UNCHANGED <<rows, mode, tracker, scan, ending, ctx, control, run, history>>

(* _workflow_succeeded; a refused transition takes the except branch. *)
ReportSucceeded ==
  /\ pc = "report"
  /\ \E v \in Loaded :
       IF CanChange(v, "succeeded")
         THEN /\ view' = "succeeded" /\ status' = "succeeded"
              /\ pc' = "done" /\ UNCHANGED ending
         ELSE /\ view' = v /\ UNCHANGED status
              /\ pc' = "terminate" /\ ending' = "failed"
  /\ scan' = ToTerminate
  /\ UNCHANGED <<rows, mode, tracker, ctx, control, run, history>>

(* _workflow_failed; a refused transition leaves the row as it is. *)
ReportFailed ==
  /\ Terminated /\ ending = "failed"
  /\ \E v \in Loaded :
       IF CanChange(v, "failed")
         THEN view' = "failed" /\ status' = "failed"
         ELSE view' = v /\ UNCHANGED status
  /\ pc' = "done"
  /\ UNCHANGED <<rows, mode, tracker, scan, ending, ctx, control, run, history>>

-----------------------------------------------------------------------------
(* The cancelling thread: Engine.cancel_execution. *)

(* Its session loads the execution, at any time since the process began. *)
CancelRead ==
  /\ "cancel" \in Faults
  /\ cpc = "idle" /\ pc \notin {"off", "done"}
  /\ cpc' = "cancelling" /\ cview' = status
  /\ UNCHANGED <<status, rows, pc, mode, view, tracker, scan, ending, ctx,
                 run, history>>

(* _workflow_cancelling, on what it has loaded. *)
CancelWrite ==
  /\ cpc = "cancelling" /\ cpc' = "returned"
  /\ \/ cview = "pending" /\ status' = "cancelled"
     \/ cview = "started" /\ status' = "cancelling"
     \/ cview \notin {"pending", "started"} /\ UNCHANGED status
  /\ UNCHANGED <<rows, pc, mode, view, tracker, scan, ending, ctx, cview,
                 run, history>>

-----------------------------------------------------------------------------
(* The executor, and the handlers its reports reach. *)

(* A retry interval, or the time to the first attempt, elapses. *)
Due(t) ==
  /\ ~due[t]
  /\ due' = [due EXCEPT ![t] = TRUE]
  /\ UNCHANGED <<status, taskStatus, attempts, pc, mode, view, tracker, scan,
                 ending, ctx, control, run, history>>

(* _task_started *)
TaskStarted(t) ==
  /\ ctx[t] = "queued"
  /\ ctx' = [ctx EXCEPT ![t] = "running"]
  /\ taskStatus' = [taskStatus EXCEPT ![t] = "started"]
  /\ UNCHANGED <<status, attempts, due, pc, mode, view, tracker, scan, ending,
                 control, run, history>>

(* The operation ends, or fails before it starts; its report is now beyond *)
(* the reach of terminate.                                                 *)
OperationEnds(t, report) ==
  /\ \/ ctx[t] = "running" /\ report \in Reporting
     \/ ctx[t] = "queued" /\ report = "failed"
  /\ report # "succeeded" => attempts[t] < AttemptCap
  /\ ctx' = [ctx EXCEPT ![t] = report]
  /\ UNCHANGED <<status, rows, pc, mode, view, tracker, scan, ending, control,
                 run, history>>

(* _task_succeeded *)
TaskSucceeded(t) ==
  /\ ctx[t] = "succeeded"
  /\ ctx' = [ctx EXCEPT ![t] = "none"]
  /\ taskStatus' = [taskStatus EXCEPT ![t] = "success"]
  /\ attempts' = [attempts EXCEPT ![t] = @ + 1]
  /\ UNCHANGED <<status, due, pc, mode, view, tracker, scan, ending, control,
                 run, history>>

(* _task_failed *)
TaskFailed(t) ==
  /\ ctx[t] \in {"failed", "aborted"}
  /\ ctx' = [ctx EXCEPT ![t] = "none"]
  /\ IF ShouldRetry(ctx[t] = "aborted", attempts[t], MaxAttempts[t],
                    t \in IgnoreFailure)
       THEN /\ taskStatus' = [taskStatus EXCEPT ![t] = "retrying"]
            /\ attempts' = [attempts EXCEPT ![t] = @ + 1]
            /\ due' = [due EXCEPT ![t] = FALSE]
       ELSE /\ taskStatus' = [taskStatus EXCEPT ![t] = "failed"]
            /\ UNCHANGED <<attempts, due>>
  /\ failures' = [failures EXCEPT ![t] = @ + 1]
  /\ aborted' = IF ctx[t] = "aborted" THEN aborted \cup {t} ELSE aborted \ {t}
  /\ UNCHANGED <<status, pc, mode, view, tracker, scan, ending, control, run,
                 carried, lost>>

(* The operation's process dies without a word, or the handler of its last *)
(* report raises after the executor has forgotten the task.                *)
Lose(t) ==
  /\ "lost" \in Faults /\ ctx[t] # "none"
  /\ ctx' = [ctx EXCEPT ![t] = "none"]
  /\ lost' = lost \cup {t}
  /\ UNCHANGED <<status, rows, pc, mode, view, tracker, scan, ending, control,
                 run, failures, aborted, carried>>

-----------------------------------------------------------------------------
Begin == BeginNew \/ BeginResumed \/ BeginRefused

HandleEnded == \E t \in Tasks : PassRunning(t) \/ RaiseFailed(t) \/ Finished(t)

Dispatch == \E t \in Tasks : \/ PassUnready(t)
                             \/ DispatchStub(t)
                             \/ DispatchFunctionless(t)
                             \/ DispatchOperation(t)
                             \/ DispatchRaises(t)

Report == ReportCancelled \/ ReportSucceeded \/ ReportFailed

EngineStep ==
  \/ Begin \/ WorkflowStarted \/ CheckCancel
  \/ HandleEnded \/ StartDispatching \/ Dispatch \/ EndPass
  \/ (\E t \in Tasks : Terminate(t)) \/ Report

ExecutorStep(t) ==
  \/ TaskStarted(t) \/ TaskSucceeded(t) \/ TaskFailed(t)
  \/ \E report \in Reporting : OperationEnds(t, report)

(* The last process has ended. *)
Over == pc = "off" /\ run = MaxRuns /\ UNCHANGED vars

Next ==
  \/ \E m \in {"start", "resume", "retry_failed"} : Launch(m)
  \/ Exit \/ Crash
  \/ EngineStep
  \/ CancelRead \/ CancelWrite
  \/ \E t \in Tasks : ExecutorStep(t) \/ Due(t) \/ Lose(t)
  \/ Over

Spec == Init /\ [][Next]_vars

(* The engine thread polls for ever, and a retry interval elapses. *)
EngineFairness == WF_vars(EngineStep) /\ \A t \in Tasks : WF_vars(Due(t))

(* Operations end, and their reports are handled. *)
ExecutorFairness == \A t \in Tasks : WF_vars(ExecutorStep(t))

EngineFairSpec == Spec /\ EngineFairness
FairSpec == EngineFairSpec /\ ExecutorFairness
=============================================================================
