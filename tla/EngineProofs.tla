----------------------------- MODULE EngineProofs -----------------------------
(***************************************************************************)
(* The safety of one workflow execution, for every task graph, number of   *)
(* processes and set of faults.                                            *)
(***************************************************************************)
EXTENDS EngineProperties, EngineRefinement, TLAPS

(* The types hold at the start,                                            *)
LEMMA TypeCorrectInitially == Init => TypeOK
  BY TasksAssumption DEF Init, TypeOK, EXECUTION_STATES, TASK_STATES, PCS,
     CONTEXTS

(* and every step keeps them.                                              *)
LEMMA TypeCorrectNext == TypeOK /\ [Next]_vars => TypeOK'
<1> SUFFICES ASSUME TypeOK, [Next]_vars PROVE TypeOK'
  OBVIOUS
<1> USE DEF TypeOK, PCS, rows, tracker, control, history
<1>1. ASSUME NEW m \in {"start", "resume", "retry_failed"}, Launch(m)
      PROVE TypeOK'
  BY <1>1 DEF Launch
<1>2. CASE Exit \/ Crash
  BY <1>2 DEF Exit, Crash, ProcessGone, EXECUTION_STATES, CONTEXTS
<1>3. CASE Begin
  <2>1. CASE BeginNew
    BY <2>1 DEF BeginNew, NewTracker
  <2>2. CASE BeginResumed
    BY <2>2 DEF BeginResumed, NewTracker, Resumed, TASK_STATES,
       EXECUTION_STATES
  <2>3. CASE BeginRefused
    BY <2>3 DEF BeginRefused
  <2> QED BY <1>3, <2>1, <2>2, <2>3 DEF Begin
<1>4. CASE WorkflowStarted \/ CheckCancel
  BY <1>4 DEF WorkflowStarted, CheckCancel, ToTerminate, Loaded,
     EXECUTION_STATES
<1>5. CASE HandleEnded \/ StartDispatching \/ EndPass
  BY <1>5 DEF HandleEnded, StartDispatching, EndPass, PassRunning,
     RaiseFailed, Finished, ToTerminate
<1>6. CASE Dispatch
  <2> PICK t \in Tasks : \/ PassUnready(t)
                         \/ DispatchStub(t)
                         \/ DispatchFunctionless(t)
                         \/ DispatchOperation(t)
                         \/ DispatchRaises(t)
    BY <1>6 DEF Dispatch
  <2>1. CASE PassUnready(t)
    BY <2>1 DEF PassUnready
  <2>2. CASE DispatchStub(t)
    BY <2>2 DEF DispatchStub, Enlist, TASK_STATES
  <2>3. CASE DispatchFunctionless(t)
    BY <2>3 DEF DispatchFunctionless, Enlist, TASK_STATES
  <2>4. CASE DispatchOperation(t)
    BY <2>4 DEF DispatchOperation, Enlist, TASK_STATES, CONTEXTS, Live
  <2>5. CASE DispatchRaises(t)
    BY <2>5 DEF DispatchRaises, Enlist, TASK_STATES
  <2> QED BY <2>1, <2>2, <2>3, <2>4, <2>5
<1>7. CASE \E t \in Tasks : Terminate(t)
  BY <1>7 DEF Terminate, CONTEXTS
<1>8. CASE Report
  BY <1>8 DEF Report, ReportCancelled, ReportSucceeded, ReportFailed,
     ToTerminate, Loaded, EXECUTION_STATES
<1>9. CASE CancelRead \/ CancelWrite
  BY <1>9 DEF CancelRead, CancelWrite, EXECUTION_STATES
<1>10. ASSUME NEW t \in Tasks, ExecutorStep(t) \/ Due(t) \/ Lose(t)
       PROVE TypeOK'
  <2>0. CASE TaskStarted(t)
    BY <2>0 DEF TaskStarted, TASK_STATES, CONTEXTS, Live
  <2>1. CASE Due(t)
    BY <2>1 DEF Due
  <2>5. CASE Lose(t)
    BY <2>5 DEF Lose, CONTEXTS
  <2>2. ASSUME NEW report \in Reporting, OperationEnds(t, report)
        PROVE TypeOK'
    BY <2>2 DEF OperationEnds, CONTEXTS
  <2>3. CASE TaskSucceeded(t)
    BY <2>3 DEF TaskSucceeded, TASK_STATES, CONTEXTS
  <2>4. CASE TaskFailed(t)
    <3>1. /\ ctx' = [ctx EXCEPT ![t] = "none"]
          /\ failures' = [failures EXCEPT ![t] = @ + 1]
          /\ aborted' \subseteq Tasks
      BY <2>4 DEF TaskFailed
    <3>2. \/ /\ taskStatus' = [taskStatus EXCEPT ![t] = "retrying"]
             /\ attempts' = [attempts EXCEPT ![t] = @ + 1]
             /\ due' = [due EXCEPT ![t] = FALSE]
          \/ /\ taskStatus' = [taskStatus EXCEPT ![t] = "failed"]
             /\ UNCHANGED <<attempts, due>>
      BY <2>4, Zenon DEF TaskFailed
    <3>3. UNCHANGED <<status, pc, mode, view, tracker, scan, ending,
                      control, run, carried, lost>>
      BY <2>4 DEF TaskFailed
    <3>4. taskStatus' \in [Tasks -> TASK_STATES]
      BY <3>2 DEF TASK_STATES
    <3>5. attempts' \in [Tasks -> Nat]
      BY <3>2
    <3>6. due' \in [Tasks -> BOOLEAN]
      BY <3>2
    <3>7. /\ ctx' \in [Tasks -> CONTEXTS]
          /\ failures' \in [Tasks -> Nat]
      BY <3>1 DEF CONTEXTS
    <3> QED BY <3>1, <3>3, <3>4, <3>5, <3>6, <3>7
  <2> QED BY <1>10, <2>0, <2>1, <2>2, <2>3, <2>4, <2>5 DEF ExecutorStep
<1>11. CASE Over \/ UNCHANGED vars
  BY <1>11 DEF Over, vars
<1> QED BY <1>1, <1>2, <1>3, <1>4, <1>5, <1>6, <1>7, <1>8, <1>9, <1>10,
           <1>11 DEF Next, EngineStep

(* Every variable keeps its type in every reachable state: the statuses of *)
(* the rows are the ones the models declare, the tracker's lists hold      *)
(* tasks, the counters stay naturals.                                      *)
THEOREM TypeCorrect == Spec => []TypeOK
  BY TypeCorrectInitially, TypeCorrectNext, PTL DEF Spec

-----------------------------------------------------------------------------
(* The other invariants hold at the start,                                 *)
LEMMA InitSound == Init => Sound
  BY DEF Init, Sound, ContextsHaveRows, TrackerPartition, NoTrackerYet,
     EndingSet, TrackerSound, EndingSound, NoOrphans, SucceededIsComplete, Live

(* The process: the engine thread is created, the process ends.            *)
LEMMA ProcessKeepsSound ==
  ASSUME TypeOK, TypeOK', Sound,
         (\E m \in {"start", "resume", "retry_failed"} : Launch(m))
         \/ Exit \/ Crash
  PROVE  Sound'
<1> USE DEF Sound, ContextsHaveRows, TrackerPartition, NoTrackerYet,
    EndingSet, TrackerSound, EndingSound, NoOrphans, SucceededIsComplete,
    Live, Settled, rows, tracker, control, history
<1>1. CASE \E m \in {"start", "resume", "retry_failed"} : Launch(m)
  BY <1>1 DEF Launch
<1>2. CASE Exit \/ Crash
  BY <1>2 DEF Exit, Crash, ProcessGone
<1> QED BY <1>1, <1>2

(* The tracker is built, from rows no context stands behind.               *)
LEMMA BeginKeepsSound ==
  ASSUME TypeOK, TypeOK', Sound, Begin
  PROVE  Sound'
<1> USE DEF Sound, ContextsHaveRows, TrackerPartition, NoTrackerYet,
    EndingSet, TrackerSound, EndingSound, NoOrphans, SucceededIsComplete,
    Live, Settled, rows, tracker, control, history, HasEnded
<1>0. pc = "launched" /\ \A t \in Tasks : ctx[t] = "none" /\ ctx'[t] = "none"
  BY DEF Begin, BeginNew, BeginResumed, BeginRefused
<1>1. CASE BeginNew
  BY <1>0, <1>1 DEF BeginNew, NewTracker, TypeOK
<1>2. CASE BeginResumed
  <2> DEFINE now == [t \in Tasks |-> Resumed(t)]
  <2>1. /\ executed' = {t \in Tasks : HasEnded(now[t])}
        /\ executable' = {t \in Tasks : ~HasEnded(now[t])}
        /\ executing' = {}
        /\ carried' = {t \in Tasks : now[t] = "failed"}
        /\ taskStatus' = now /\ status' = "pending" /\ pc' = "start"
        /\ ending' = ending
    BY <1>2 DEF BeginResumed, NewTracker
  <2> HIDE DEF now
  <2> QED BY <1>0, <2>1 DEF TypeOK
<1>3. CASE BeginRefused
  BY <1>0, <1>3 DEF BeginRefused
<1> QED BY <1>1, <1>2, <1>3 DEF Begin

(* The engine's loop.                                                      *)
LEMMA LoopKeepsSound ==
  ASSUME TypeOK, TypeOK', Sound,
         WorkflowStarted \/ CheckCancel \/ HandleEnded \/ StartDispatching
         \/ EndPass
  PROVE  Sound'
<1> USE DEF Sound, ContextsHaveRows, TrackerPartition, NoTrackerYet,
    EndingSet, TrackerSound, EndingSound, NoOrphans, SucceededIsComplete,
    Live, Settled, rows, tracker, control, history, HasEnded
<1>1. CASE WorkflowStarted
  BY <1>1 DEF WorkflowStarted, Loaded, IsCancelStatus
<1>2. CASE CheckCancel
  BY <1>2 DEF CheckCancel, ToTerminate
<1>3. CASE HandleEnded
  <2> PICK t \in Tasks : PassRunning(t) \/ RaiseFailed(t) \/ Finished(t)
    BY <1>3 DEF HandleEnded
  <2>1. CASE PassRunning(t)
    BY <2>1 DEF PassRunning
  <2>2. CASE RaiseFailed(t)
    BY <2>2 DEF RaiseFailed, ToTerminate
  <2>3. CASE Finished(t)
    <3>1. /\ Settled(t) /\ t \in executing
          /\ executing' = executing \ {t} /\ executed' = executed \cup {t}
          /\ ctx[t] = "none" /\ pc = "ended" /\ pc' = "ended"
          /\ UNCHANGED <<status, taskStatus, executable, ending, ctx, carried>>
      BY <2>3 DEF Finished, FailsWorkflow
    <3>2. ContextsHaveRows' /\ EndingSound' /\ NoOrphans'
      BY <3>1
    <3>3. TrackerPartition' /\ NoTrackerYet' /\ EndingSet'
      BY <3>1
    <3>4. scan' \subseteq executing' /\ SucceededIsComplete'
      BY <2>3, <3>1 DEF Finished
    <3>5. TrackerSound'
      BY <3>1, <3>4
    <3> QED BY <3>2, <3>3, <3>4, <3>5
  <2> QED BY <2>1, <2>2, <2>3
<1>4. CASE StartDispatching
  BY <1>4 DEF StartDispatching
<1>5. CASE EndPass
  BY <1>5 DEF EndPass, AllTasksConsumed
<1> QED BY <1>1, <1>2, <1>3, <1>4, <1>5

(* Dispatching: the task that is handed out has no context yet, and all it *)
(* depends on has been executed.                                           *)
LEMMA DispatchKeepsSound ==
  ASSUME TypeOK, TypeOK', Sound, Dispatch
  PROVE  Sound'
<1> USE DEF Sound, ContextsHaveRows, TrackerPartition, NoTrackerYet,
    EndingSet, TrackerSound, EndingSound, NoOrphans, SucceededIsComplete,
    Live, Settled, rows, tracker, control, history, HasEnded
<1> PICK t \in Tasks : \/ PassUnready(t)
                       \/ DispatchStub(t)
                       \/ DispatchFunctionless(t)
                       \/ DispatchOperation(t)
                       \/ DispatchRaises(t)
  BY DEF Dispatch
<1>1. CASE PassUnready(t)
  BY <1>1 DEF PassUnready
<1>2. ASSUME Enlist(t)
      PROVE  /\ ~HasEnded(taskStatus[t]) /\ ctx[t] = "none"
             /\ t \notin executed /\ Deps[t] \subseteq executed
             /\ pc = "executable" /\ ending = "none" /\ status # "succeeded"
  BY <1>2 DEF Enlist, Ready, IsWaiting, TypeOK, Operations
<1>3. CASE DispatchStub(t)
  BY <1>2, <1>3 DEF DispatchStub, Enlist, TypeOK
<1>4. CASE DispatchFunctionless(t)
  BY <1>2, <1>4 DEF DispatchFunctionless, Enlist, TypeOK
<1>5. CASE DispatchOperation(t)
  BY <1>2, <1>5 DEF DispatchOperation, Enlist, TypeOK
<1>6. CASE DispatchRaises(t)
  BY <1>2, <1>6 DEF DispatchRaises, Enlist, TypeOK
<1> QED BY <1>1, <1>3, <1>4, <1>5, <1>6

(* The end of the engine's thread.                                         *)
LEMMA EndKeepsSound ==
  ASSUME TypeOK, TypeOK', Sound, (\E t \in Tasks : Terminate(t)) \/ Report
  PROVE  Sound'
<1> USE DEF Sound, ContextsHaveRows, TrackerPartition, NoTrackerYet,
    EndingSet, TrackerSound, EndingSound, NoOrphans, SucceededIsComplete,
    Live, Settled, rows, tracker, control, history, HasEnded
<1>1. ASSUME NEW t \in Tasks, Terminate(t)
      PROVE Sound'
  BY <1>1 DEF Terminate, TypeOK
<1>2. CASE ReportCancelled
  BY <1>2 DEF ReportCancelled, Terminated, Loaded
<1>3. CASE ReportSucceeded
  <2>1. pc = "report" /\ (\A t \in Tasks : ctx[t] = "none" /\ Settled(t))
    BY <1>3 DEF ReportSucceeded, TypeOK
  <2> QED BY <1>3, <2>1 DEF ReportSucceeded, Loaded, ToTerminate
<1>4. CASE ReportFailed
  BY <1>4 DEF ReportFailed, Terminated, Loaded
<1> QED BY <1>1, <1>2, <1>3, <1>4 DEF Report

(* The cancelling thread writes no success.                                *)
LEMMA CancelKeepsSound ==
  ASSUME TypeOK, TypeOK', Sound, CancelRead \/ CancelWrite
  PROVE  Sound'
<1> USE DEF Sound, ContextsHaveRows, TrackerPartition, NoTrackerYet,
    EndingSet, TrackerSound, EndingSound, NoOrphans, SucceededIsComplete,
    Live, Settled, rows, tracker, control, history, HasEnded
<1>1. CASE CancelRead
  BY <1>1 DEF CancelRead
<1>2. CASE CancelWrite
  BY <1>2 DEF CancelWrite
<1> QED BY <1>1, <1>2

(* The executor's reports change the rows of executing tasks only.         *)
LEMMA ExecutorKeepsSound ==
  ASSUME TypeOK, TypeOK', Sound,
         NEW t \in Tasks, ExecutorStep(t) \/ Due(t) \/ Lose(t)
  PROVE  Sound'
<1> USE DEF Sound, ContextsHaveRows, TrackerPartition, NoTrackerYet,
    EndingSet, TrackerSound, EndingSound, NoOrphans, SucceededIsComplete,
    Live, Settled, rows, tracker, control, history, HasEnded
<1>1. ctx[t] # "none" =>
        /\ t \in executing /\ t \notin executed /\ ~HasEnded(taskStatus[t])
        /\ status # "succeeded" /\ pc # "report"
  BY DEF TypeOK
<1>2. CASE TaskStarted(t)
  BY <1>1, <1>2 DEF TaskStarted, TypeOK
<1>3. ASSUME NEW report \in Reporting, OperationEnds(t, report)
      PROVE  Sound'
  BY <1>1, <1>3 DEF OperationEnds, Reporting, TypeOK
<1>4. CASE TaskSucceeded(t)
  BY <1>1, <1>4 DEF TaskSucceeded, TypeOK
<1>5. CASE TaskFailed(t)
  <2>1. /\ ctx[t] # "none" /\ ctx' = [ctx EXCEPT ![t] = "none"]
        /\ \E s \in {"retrying", "failed"} :
             taskStatus' = [taskStatus EXCEPT ![t] = s]
        /\ UNCHANGED <<status, pc, executed, executing, executable, scan,
                       ending, carried>>
    BY <1>5 DEF TaskFailed
  <2> QED BY <1>1, <2>1 DEF TypeOK
<1>6. CASE Due(t) \/ Lose(t)
  BY <1>1, <1>6 DEF Due, Lose, TypeOK
<1> QED BY <1>2, <1>3, <1>4, <1>5, <1>6 DEF ExecutorStep

(* and every step keeps them.                                              *)
LEMMA NextKeepsSound ==
  ASSUME TypeOK, TypeOK', Sound, [Next]_vars
  PROVE  Sound'
<1>1. CASE Over \/ UNCHANGED vars
  BY <1>1 DEF Over, vars, Sound, ContextsHaveRows, TrackerPartition,
     NoTrackerYet, EndingSet, TrackerSound, EndingSound, NoOrphans,
     SucceededIsComplete, Settled, rows, tracker, control, history
<1> QED
  BY <1>1, ProcessKeepsSound, BeginKeepsSound, LoopKeepsSound,
     DispatchKeepsSound, EndKeepsSound, CancelKeepsSound, ExecutorKeepsSound
     DEF Next, EngineStep

-----------------------------------------------------------------------------
(* Steps that leave the task rows as they are.                             *)
LEMMA RowsUnchanged ==
  ASSUME (\E m \in {"start", "resume", "retry_failed"} : Launch(m))
         \/ Exit \/ Crash \/ BeginNew \/ BeginRefused \/ WorkflowStarted
         \/ CheckCancel \/ HandleEnded \/ StartDispatching \/ EndPass
         \/ (\E t \in Tasks : Terminate(t)) \/ Report
         \/ CancelRead \/ CancelWrite \/ Over \/ UNCHANGED vars
  PROVE  UNCHANGED <<taskStatus, attempts, failures, aborted>>
<1> USE DEF rows, history
<1>1. CASE (\E m \in {"start", "resume", "retry_failed"} : Launch(m))
           \/ Exit \/ Crash \/ BeginNew \/ BeginRefused \/ WorkflowStarted
           \/ CheckCancel
  BY <1>1 DEF Launch, Exit, Crash, ProcessGone, BeginNew, BeginRefused,
     WorkflowStarted, CheckCancel
<1>2. CASE HandleEnded \/ StartDispatching \/ EndPass
           \/ \E t \in Tasks : Terminate(t)
  BY <1>2 DEF HandleEnded, PassRunning, RaiseFailed, Finished,
     StartDispatching, EndPass, Terminate
<1>3. CASE Report \/ CancelRead \/ CancelWrite \/ Over \/ UNCHANGED vars
  BY <1>3 DEF Report, ReportCancelled, ReportSucceeded, ReportFailed,
     CancelRead, CancelWrite, Over, vars
<1> QED BY <1>1, <1>2, <1>3

(* Counting the attempts.                                                  *)
LEMMA NextKeepsCount ==
  ASSUME TypeOK, Sound, AttemptsCounted, RetryBudget, [Next]_vars
  PROVE  AttemptsCounted' /\ RetryBudget'
<1> USE DEF AttemptsCounted, RetryBudget, TypeOK, HasEnded, rows, history
<1>1. CASE UNCHANGED <<taskStatus, attempts, failures, aborted>>
  BY <1>1
<1>2. CASE BeginResumed
  BY <1>2, MaxAttemptsAssumption
     DEF BeginResumed, Resumed, Reset, INFINITE_RETRIES
<1>3. CASE Dispatch
  <2> PICK t \in Tasks : \/ PassUnready(t)
                         \/ DispatchStub(t)
                         \/ DispatchFunctionless(t)
                         \/ DispatchOperation(t)
                         \/ DispatchRaises(t)
    BY <1>3 DEF Dispatch
  <2>1. Enlist(t) => ~HasEnded(taskStatus[t])
    BY DEF Enlist, Ready, IsWaiting
  <2>2. CASE PassUnready(t)
    BY <2>2 DEF PassUnready
  <2>3. CASE DispatchStub(t) \/ DispatchFunctionless(t)
    BY <2>1, <2>3, MaxAttemptsAssumption DEF DispatchStub, DispatchFunctionless
  <2>4. CASE DispatchOperation(t) \/ DispatchRaises(t)
    BY <2>1, <2>4, MaxAttemptsAssumption DEF DispatchOperation, DispatchRaises
  <2> QED BY <2>2, <2>3, <2>4
<1>4. ASSUME NEW t \in Tasks, ExecutorStep(t) \/ Due(t) \/ Lose(t)
      PROVE  AttemptsCounted' /\ RetryBudget'
  <2>1. ctx[t] # "none" => ~HasEnded(taskStatus[t])
    BY DEF Sound, ContextsHaveRows
  <2>2. CASE TaskStarted(t) \/ TaskSucceeded(t)
    BY <2>1, <2>2, MaxAttemptsAssumption DEF TaskStarted, TaskSucceeded
  <2>3. CASE TaskFailed(t)
    <3>1. /\ ~HasEnded(taskStatus[t])
          /\ failures' = [failures EXCEPT ![t] = @ + 1]
      BY <2>1, <2>3 DEF TaskFailed
    <3>2. \A u \in Tasks \ {t} :
            /\ taskStatus'[u] = taskStatus[u] /\ attempts'[u] = attempts[u]
            /\ failures'[u] = failures[u] /\ (u \in aborted' <=> u \in aborted)
      BY <2>3 DEF TaskFailed
    <3>3. \/ /\ taskStatus'[t] = "retrying" /\ attempts'[t] = attempts[t] + 1
             /\ \/ attempts[t] < MaxAttempts[t]
                \/ MaxAttempts[t] = INFINITE_RETRIES
          \/ /\ taskStatus'[t] = "failed" /\ attempts'[t] = attempts[t]
             /\ \/ t \in aborted' \/ t \in IgnoreFailure
                \/ /\ MaxAttempts[t] # INFINITE_RETRIES
                   /\ ~(attempts[t] < MaxAttempts[t])
      BY <2>3 DEF TaskFailed, ShouldRetry
    <3>4. failures'[t] = failures[t] + 1
      BY <3>1
    <3>5. /\ attempts[t] \in Nat /\ failures[t] \in Nat
          /\ MaxAttempts[t] \in Int /\ INFINITE_RETRIES \in Int
      BY MaxAttemptsAssumption DEF INFINITE_RETRIES
    <3> HIDE DEF TypeOK, INFINITE_RETRIES
    <3>6. AttemptsCounted'
      BY <3>1, <3>2, <3>3, <3>4, <3>5
    <3>7. RetryBudget'
      BY <3>1, <3>2, <3>3, <3>4, <3>5
    <3> QED BY <3>6, <3>7
  <2> QED
    BY <1>1, <1>4, <2>2, <2>3 DEF ExecutorStep, OperationEnds, Due, Lose
<1> QED
  BY <1>1, <1>2, <1>3, <1>4, RowsUnchanged DEF Next, EngineStep, Begin

-----------------------------------------------------------------------------
(* The cancelling thread and the engine's.                                 *)
LEMMA NextKeepsCancellation ==
  ASSUME TypeOK, Sound, CancellationSound, CancelHonoured, [Next]_vars
  PROVE  CancellationSound' /\ CancelHonoured'
<1> USE DEF CancellationSound, CancelHonoured, OnItsOwn, IsCancelStatus, rows,
    tracker, control, history
<1>0. EndingSet /\ status \in EXECUTION_STATES /\ run \in Nat
  BY DEF Sound, TypeOK
<1>1. CASE (\E m \in {"start", "resume", "retry_failed"} : Launch(m))
           \/ Exit \/ Crash
  BY <1>0, <1>1, EnvironmentAssumption
     DEF Launch, Exit, Crash, ProcessGone, EndingSet
<1>2. CASE Begin \/ WorkflowStarted \/ CheckCancel
  BY <1>0, <1>2 DEF Begin, BeginNew, BeginResumed, BeginRefused,
     WorkflowStarted, CheckCancel, EndingSet
<1>3. CASE HandleEnded \/ StartDispatching \/ Dispatch \/ EndPass
  BY <1>0, <1>3 DEF HandleEnded, PassRunning, RaiseFailed, Finished,
     StartDispatching, Dispatch, PassUnready, DispatchStub,
     DispatchFunctionless, DispatchOperation, DispatchRaises, Enlist, EndPass,
     EndingSet
<1>4. CASE (\E t \in Tasks : Terminate(t)) \/ Report
  <2>1. CASE \E t \in Tasks : Terminate(t)
    BY <2>1 DEF Terminate
  <2>2. CASE ReportCancelled
    BY <2>2 DEF ReportCancelled, Terminated, Loaded, END_STATES
  <2>3. CASE ReportSucceeded \/ ReportFailed
    <3>1. /\ pc \in {"report", "terminate"} /\ pc' \in {"terminate", "done"}
          /\ ending # "cancelled" /\ ending' \in {ending, "failed"}
          /\ status' \in {status, "succeeded", "failed"}
          /\ UNCHANGED <<cpc, run>>
      BY <1>0, <2>3 DEF ReportSucceeded, ReportFailed, Terminated, EndingSet
    <3> QED BY <1>0, <3>1 DEF EndingSet
  <2> QED BY <1>4, <2>1, <2>2, <2>3 DEF Report
<1>5. CASE CancelRead \/ CancelWrite
  BY <1>5 DEF CancelRead, CancelWrite
<1>6. CASE \E t \in Tasks : ExecutorStep(t) \/ Due(t) \/ Lose(t)
  BY <1>6 DEF ExecutorStep, TaskStarted, TaskSucceeded, TaskFailed,
     OperationEnds, Due, Lose
<1>7. CASE Over \/ UNCHANGED vars
  BY <1>7 DEF Over, vars
<1> QED
  BY <1>1, <1>2, <1>3, <1>4, <1>5, <1>6, <1>7 DEF Next, EngineStep

(* The row when nobody cancels: each write finds the status that the       *)
(* engine's own last write left, so its validator accepts it.              *)
LEMMA NextKeepsRow ==
  ASSUME "cancel" \notin Faults, TypeOK, Sound, CancellationSound,
         RowFollowsEngine, EndsInactive, [Next]_vars
  PROVE  RowFollowsEngine' /\ EndsInactive'
<1> USE DEF RowFollowsEngine, EndsInactive, rows, tracker, control, history
<1>0. EndingSet /\ CancellationSound
  BY DEF Sound
<1>1. CASE (\E m \in {"start", "resume", "retry_failed"} : Launch(m))
           \/ Exit \/ Crash
  BY <1>0, <1>1, EnvironmentAssumption
     DEF Launch, Exit, Crash, ProcessGone, EndingSet, CancellationSound
<1>2. CASE Begin \/ WorkflowStarted \/ CheckCancel
  BY <1>0, <1>2 DEF Begin, BeginNew, BeginResumed, BeginRefused,
     WorkflowStarted, CheckCancel, EndingSet, Loaded, IsCancelStatus
<1>3. CASE HandleEnded \/ StartDispatching \/ Dispatch \/ EndPass
  BY <1>0, <1>3 DEF HandleEnded, PassRunning, RaiseFailed, Finished,
     StartDispatching, Dispatch, PassUnready, DispatchStub,
     DispatchFunctionless, DispatchOperation, DispatchRaises, Enlist, EndPass,
     EndingSet
<1>4. CASE (\E t \in Tasks : Terminate(t)) \/ Report
  BY <1>0, <1>4 DEF Terminate, Report, ReportCancelled, ReportSucceeded,
     ReportFailed, Terminated, Loaded, END_STATES, EndingSet, CanChange,
     VALID_TRANSITIONS, EXECUTION_STATES
<1>5. CASE CancelRead \/ CancelWrite
  BY <1>5 DEF CancelRead, CancelWrite
<1>6. CASE \E t \in Tasks : ExecutorStep(t) \/ Due(t) \/ Lose(t)
  BY <1>6 DEF ExecutorStep, TaskStarted, TaskSucceeded, TaskFailed,
     OperationEnds, Due, Lose
<1>7. CASE Over \/ UNCHANGED vars
  BY <1>7 DEF Over, vars
<1> QED
  BY <1>1, <1>2, <1>3, <1>4, <1>5, <1>6, <1>7 DEF Next, EngineStep

-----------------------------------------------------------------------------
(* All parts of the inductive invariant together: at the start,            *)
LEMMA InitInvariant == Init => IInv
<1> SUFFICES ASSUME Init PROVE IInv
  OBVIOUS
<1>1. TypeOK
  BY TypeCorrectInitially
<1>2. Sound
  BY InitSound
<1>3. AttemptsCounted /\ RetryBudget
  BY MaxAttemptsAssumption
     DEF Init, AttemptsCounted, RetryBudget, INFINITE_RETRIES, HasEnded
<1>4. CancellationSound /\ CancelHonoured
  BY DEF Init, CancellationSound, CancelHonoured, OnItsOwn, IsCancelStatus
<1>5. RowFollowsEngine /\ ("cancel" \notin Faults => EndsInactive)
  BY DEF Init, RowFollowsEngine, EndsInactive
<1> QED BY <1>1, <1>2, <1>3, <1>4, <1>5 DEF IInv

(* and at every step.                                                      *)
LEMMA NextKeepsInvariant == IInv /\ [Next]_vars => IInv'
<1> SUFFICES ASSUME IInv, [Next]_vars PROVE IInv'
  OBVIOUS
<1>1. TypeOK'
  BY TypeCorrectNext DEF IInv
<1>2. Sound'
  BY <1>1, NextKeepsSound DEF IInv
<1>3. AttemptsCounted' /\ RetryBudget'
  BY NextKeepsCount DEF IInv
<1>4. CancellationSound' /\ CancelHonoured'
  BY NextKeepsCancellation DEF IInv
<1>5. RowFollowsEngine' /\ ("cancel" \notin Faults => EndsInactive')
  <2>1. CASE "cancel" \in Faults
    BY <2>1 DEF RowFollowsEngine
  <2>2. CASE "cancel" \notin Faults
    BY <2>2, NextKeepsRow DEF IInv
  <2> QED BY <2>1, <2>2
<1> QED BY <1>1, <1>2, <1>3, <1>4, <1>5 DEF IInv

(* The inductive invariant holds of every execution.                       *)
THEOREM Invariance == Spec => []IInv
  BY InitInvariant, NextKeepsInvariant, PTL DEF Spec

(* Whatever is cancelled, retried, lost, crashed or resumed, an operation  *)
(* is in the executor's hands only when all its dependencies are settled.  *)
THEOREM DependenciesAlwaysFirst == Spec => []DependenciesFirst
<1>1. IInv => DependenciesFirst
  BY DEF IInv, Sound, ContextsHaveRows, TrackerSound, DependenciesFirst
<1> QED BY <1>1, Invariance, PTL

(* The execution row says succeeded only when every task is settled.       *)
THEOREM SuccessIsComplete == Spec => []SucceededIsComplete
  BY Invariance, PTL DEF IInv, Sound

(* Engine.execute leaves no operation queued or running behind.            *)
THEOREM NothingOrphaned == Spec => []NoOrphans
  BY Invariance, PTL DEF IInv, Sound

(* A failed task has used up its attempts, and none fails more often than  *)
(* its max_attempts allows, across cancellations, crashes and resumes.     *)
THEOREM RetriesAreBounded == Spec => []RetryBudget
  BY Invariance, PTL DEF IInv

(* An engine that stopped for a cancellation leaves the row cancelled,     *)
(* whichever of the two threads wrote last.                                *)
THEOREM CancellationsAreHonoured == Spec => []CancelHonoured
  BY Invariance, PTL DEF IInv

(* An engine that nobody cancels leaves the execution inactive.            *)
THEOREM EndedIsInactive ==
  ASSUME "cancel" \notin Faults
  PROVE  Spec => []EndsInactive
<1>1. IInv => EndsInactive
  BY DEF IInv
<1> QED BY <1>1, Invariance, PTL

(* Every write to the execution row that nobody cancels is a transition    *)
(* that the row's validator accepts.                                       *)
THEOREM TransitionsAreValid ==
  ASSUME "cancel" \notin Faults
  PROVE  Spec => TransitionsValid
<1> DEFINE Valid == status' = status \/ status' \in VALID_TRANSITIONS[status]
<1>1. IInv /\ [Next]_vars => Valid
  <2> SUFFICES ASSUME IInv, [Next]_vars PROVE Valid
    OBVIOUS
  <2>0. RowFollowsEngine /\ status \in EXECUTION_STATES
    BY DEF IInv, TypeOK
  <2>1. CASE Begin \/ WorkflowStarted
    BY <2>0, <2>1 DEF Begin, BeginNew, BeginResumed, BeginRefused, CanChange,
       WorkflowStarted, RowFollowsEngine, VALID_TRANSITIONS, EXECUTION_STATES,
       Loaded, IsCancelStatus
  <2>2. CASE Report
    BY <2>0, <2>2 DEF Report, ReportCancelled, ReportSucceeded, ReportFailed,
       Terminated, Loaded, RowFollowsEngine, VALID_TRANSITIONS, END_STATES,
       EXECUTION_STATES
  <2>3. CASE CancelRead \/ CancelWrite
    BY <2>0, <2>3 DEF CancelRead, CancelWrite, RowFollowsEngine
  <2>4. CASE UNCHANGED status
    BY <2>4
  <2>5. \/ Begin \/ WorkflowStarted \/ Report \/ CancelRead \/ CancelWrite
        \/ UNCHANGED status
    BY DEF Next, EngineStep, Launch, Exit, Crash, ProcessGone, CheckCancel,
       HandleEnded, PassRunning, RaiseFailed, Finished, StartDispatching,
       Dispatch, PassUnready, DispatchStub, DispatchFunctionless,
       DispatchOperation, DispatchRaises, EndPass, Terminate, ExecutorStep,
       TaskStarted, TaskSucceeded, TaskFailed, OperationEnds, Due, Lose, Over,
       vars
  <2> QED BY <2>1, <2>2, <2>3, <2>4, <2>5
<1> QED BY <1>1, Invariance, PTL DEF Spec, TransitionsValid

-----------------------------------------------------------------------------
(* No report, cancellation, crash or resume changes a task that has ended, *)
(* but a resume with retry_failed, which reopens failures.                 *)
THEOREM EndedStaysFinal == Spec => EndedIsFinal
<1> DEFINE Final == \A t \in Tasks : HasEnded(taskStatus[t]) =>
             \/ taskStatus'[t] = taskStatus[t] /\ attempts'[t] = attempts[t]
             \/ /\ taskStatus[t] = "failed" /\ taskStatus'[t] = "pending"
                /\ pc = "launched" /\ mode = "retry_failed"
<1>1. IInv /\ [Next]_vars => Final
  <2> SUFFICES ASSUME IInv, [Next]_vars PROVE Final
    OBVIOUS
  <2> USE DEF IInv, TypeOK
  <2>1. CASE BeginResumed
    BY <2>1 DEF BeginResumed, Resumed, Reset, HasEnded
  <2>2. CASE Dispatch
    BY <2>2 DEF Dispatch, PassUnready, DispatchStub, DispatchFunctionless,
       DispatchOperation, DispatchRaises, Enlist, Ready, IsWaiting, HasEnded,
       rows
  <2>3. ASSUME NEW t \in Tasks, ExecutorStep(t) \/ Due(t) \/ Lose(t)
        PROVE  Final
    <3>1. ctx[t] # "none" => ~HasEnded(taskStatus[t])
      BY DEF Sound, ContextsHaveRows, HasEnded
    <3>2. CASE UNCHANGED <<taskStatus, attempts>>
      BY <3>2
    <3>3. CASE TaskStarted(t) \/ TaskSucceeded(t)
      BY <3>1, <3>3 DEF TaskStarted, TaskSucceeded
    <3>4. CASE TaskFailed(t)
      <4>1. /\ ctx[t] # "none"
            /\ \A u \in Tasks \ {t} : /\ taskStatus'[u] = taskStatus[u]
                                      /\ attempts'[u] = attempts[u]
        BY <3>4 DEF TaskFailed
      <4> QED BY <3>1, <4>1
    <3> QED
      BY <2>3, <3>2, <3>3, <3>4
         DEF ExecutorStep, OperationEnds, Due, Lose, rows
  <2>4. CASE UNCHANGED <<taskStatus, attempts>>
    BY <2>4
  <2> QED
    BY <2>1, <2>2, <2>3, <2>4, RowsUnchanged DEF Next, EngineStep, Begin
<1> QED BY <1>1, Invariance, PTL DEF Spec, EndedIsFinal
=============================================================================
