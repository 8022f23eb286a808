------------------------ MODULE EngineRefinementProofs ------------------------
(***************************************************************************)
(* The engine implements the abstract workflow, for every task graph.      *)
(***************************************************************************)
EXTENDS EngineProofs

Ended  == {t \in Tasks : HasEnded(taskStatus[t])}
Active == {t \in Tasks : ctx[t] # "none"}
Done   == status = "succeeded"

(* The abstract step a concrete one takes, by what it does to the three.   *)
LEMMA Stutters ==
  ASSUME Ended' = Ended, Active' = Active, Done' = Done
  PROVE  UNCHANGED W!wvars
  BY DEF W!wvars, Ended, Active, Done

(* A step that only takes activities away is an interruption of the        *)
(* workflow,                                                               *)
LEMMA Interrupts ==
  ASSUME Ended' = Ended, Active' \subseteq Active, Done' = Done
  PROVE  W!WNext
  BY DEF W!WNext, W!Interrupt, Ended, Active, Done

(* and one that only takes back its success is a withdrawal.               *)
LEMMA Withdraws ==
  ASSUME Ended' = Ended, Active' = Active, ~Done'
  PROVE  W!WNext
  BY DEF W!WNext, W!Withdraw, Ended, Active, Done

(* A step that leaves the rows' statuses alone and starts nothing.         *)
LEMMA QuietStep ==
  ASSUME UNCHANGED taskStatus, Active' \subseteq Active,
         Done' = Done \/ (~Done' /\ UNCHANGED ctx)
  PROVE  [W!WNext]_(W!wvars)
<1>1. Ended' = Ended
  BY DEF Ended
<1>2. CASE Done' = Done
  BY <1>1, <1>2, Interrupts
<1>3. CASE ~Done' /\ UNCHANGED ctx
  BY <1>1, <1>3, Withdraws DEF Active
<1> QED BY <1>2, <1>3

(* Each group of steps implements the workflow: those of the process and   *)
(* of cancellers,                                                          *)
LEMMA ProcessImplements ==
  ASSUME IInv,
         \/ \E m \in {"start", "resume", "retry_failed"} : Launch(m)
         \/ Exit \/ Crash \/ CancelRead \/ CancelWrite
         \/ Over \/ UNCHANGED vars
  PROVE  [W!WNext]_(W!wvars)
<1> USE DEF Done, Active, rows
<1>1. CASE Exit \/ Crash
  BY <1>1, QuietStep DEF Exit, Crash, ProcessGone
<1>2. CASE CancelWrite
  BY <1>2, QuietStep DEF CancelWrite
<1>3. CASE \/ \E m \in {"start", "resume", "retry_failed"} : Launch(m)
           \/ CancelRead \/ Over \/ UNCHANGED vars
  BY <1>3, QuietStep DEF Launch, CancelRead, Over, vars
<1> QED BY <1>1, <1>2, <1>3

(* Resuming reopens tasks while none is active.                            *)
LEMMA BeginImplements ==
  ASSUME IInv, Begin
  PROVE  [W!WNext]_(W!wvars)
<1>1. CASE BeginNew \/ BeginRefused
  BY <1>1, QuietStep DEF BeginNew, BeginRefused, Done, Active, rows
<1>2. CASE BeginResumed
  <2>1. Active = {} /\ Active' = {}
    BY <1>2 DEF BeginResumed, IInv, Sound, ContextsHaveRows, NoTrackerYet,
       Active
  <2>2. ~Done /\ ~Done'
    BY <1>2 DEF BeginResumed, CanChange, VALID_TRANSITIONS, EXECUTION_STATES,
       END_STATES, IInv, TypeOK, Done
  <2>3. Ended' \subseteq Ended
    BY <1>2 DEF BeginResumed, Resumed, Reset, HasEnded, Ended
  <2> QED
    BY <2>1, <2>2, <2>3 DEF W!WNext, W!Reopen, Ended, Active, Done
<1> QED BY <1>1, <1>2 DEF Begin

(* those of the engine's loop but for the two that follow,                 *)
LEMMA LoopImplements ==
  ASSUME IInv,
         \/ WorkflowStarted \/ CheckCancel \/ HandleEnded \/ StartDispatching
         \/ EndPass \/ (\E t \in Tasks : Terminate(t))
  PROVE  [W!WNext]_(W!wvars)
<1> USE DEF Done, Active, rows
<1>1. CASE WorkflowStarted \/ CheckCancel \/ StartDispatching \/ EndPass
  BY <1>1, QuietStep
     DEF WorkflowStarted, CheckCancel, StartDispatching, EndPass
<1>2. CASE HandleEnded
  BY <1>2, QuietStep DEF HandleEnded, PassRunning, RaiseFailed, Finished
<1>3. CASE \E t \in Tasks : Terminate(t)
  BY <1>3, QuietStep DEF Terminate, IInv, TypeOK
<1> QED BY <1>1, <1>2, <1>3

(* the report of the outcome,                                              *)
LEMMA ReportImplements ==
  ASSUME IInv, Report
  PROVE  [W!WNext]_(W!wvars)
<1>1. CASE ReportSucceeded /\ Done'
  <2>1. Ended = Tasks
    BY <1>1 DEF ReportSucceeded, IInv, Sound, EndingSound, TrackerSound,
       Settled, HasEnded, Ended
  <2>2. UNCHANGED <<taskStatus, ctx>>
    BY <1>1 DEF ReportSucceeded, rows
  <2> QED
    BY <1>1, <2>1, <2>2 DEF W!WNext, W!Succeed, Ended, Active, Done
<1>2. CASE ReportCancelled \/ ReportFailed \/ (ReportSucceeded /\ ~Done')
  BY <1>2, QuietStep
     DEF ReportCancelled, ReportFailed, ReportSucceeded, Done, Active, rows
<1> QED BY <1>1, <1>2 DEF Report

(* the dispatch of a task,                                                 *)
LEMMA DispatchImplements ==
  ASSUME IInv, Dispatch
  PROVE  [W!WNext]_(W!wvars)
<1> PICK t \in Tasks : \/ PassUnready(t)
                       \/ DispatchStub(t)
                       \/ DispatchFunctionless(t)
                       \/ DispatchOperation(t)
                       \/ DispatchRaises(t)
  BY DEF Dispatch
<1> USE DEF rows
<1>1. CASE PassUnready(t)
  BY <1>1, QuietStep DEF PassUnready, Done, Active
<1>2. ASSUME Enlist(t)
      PROVE  t \notin Ended \cup Active /\ Deps[t] \subseteq Ended
  BY <1>2 DEF Enlist, Ready, IsWaiting, HasEnded, Ended, Active, Operations,
     IInv, TypeOK, Sound, ContextsHaveRows, TrackerSound, Settled
<1>3. CASE DispatchStub(t) \/ DispatchFunctionless(t)
  <2>1. Ended' = Ended \cup {t} /\ Active' = Active /\ Done' = Done
    BY <1>3 DEF DispatchStub, DispatchFunctionless, IInv, TypeOK, HasEnded,
       Ended, Active, Done
  <2>2. Enlist(t)
    BY <1>3 DEF DispatchStub, DispatchFunctionless
  <2> QED
    BY <1>2, <2>1, <2>2
       DEF W!WNext, W!Pass, W!Startable, Ended, Active, Done
<1>4. CASE DispatchOperation(t)
  <2>1. Ended' = Ended /\ Active' = Active \cup {t} /\ Done' = Done
    BY <1>2, <1>4 DEF DispatchOperation, IInv, TypeOK, HasEnded, Ended,
       Active, Done
  <2>2. Enlist(t)
    BY <1>4 DEF DispatchOperation
  <2> QED
    BY <1>2, <2>1, <2>2
       DEF W!WNext, W!Start, W!Startable, Ended, Active, Done
<1>5. CASE DispatchRaises(t)
  <2>1. Ended' = Ended /\ Active' = Active /\ Done' = Done
    BY <1>2, <1>5 DEF DispatchRaises, IInv, TypeOK, HasEnded, Ended,
       Active, Done
  <2> QED BY <2>1, Stutters
<1> QED BY <1>1, <1>3, <1>4, <1>5

(* and the steps of the executor.                                          *)
LEMMA ExecutorImplements ==
  ASSUME IInv, NEW t \in Tasks, ExecutorStep(t) \/ Due(t) \/ Lose(t)
  PROVE  [W!WNext]_(W!wvars)
<1> USE DEF rows, IInv, TypeOK
<1>1. ctx[t] # "none" => t \in Active /\ t \notin Ended
  BY DEF Active, Ended, Sound, ContextsHaveRows, HasEnded
<1>2. ASSUME Ended' = Ended \cup {t}, Active' = Active \ {t}, Done' = Done,
             t \in Active
      PROVE  W!WNext
  BY <1>2 DEF W!WNext, W!End, Ended, Active, Done
<1>3. CASE TaskStarted(t)
  <2>1. Ended' = Ended /\ Active' = Active /\ Done' = Done
    BY <1>1, <1>3 DEF TaskStarted, HasEnded, Ended, Active, Done
  <2> QED BY <2>1, Stutters
<1>4. ASSUME NEW report \in Reporting, OperationEnds(t, report)
      PROVE  [W!WNext]_(W!wvars)
  BY <1>4, QuietStep DEF OperationEnds, Reporting, Done, Active
<1>5. CASE TaskSucceeded(t)
  <2>1. /\ Ended' = Ended \cup {t} /\ Active' = Active \ {t} /\ Done' = Done
        /\ ctx[t] # "none"
    BY <1>5 DEF TaskSucceeded, HasEnded, Ended, Active, Done
  <2> QED BY <1>1, <1>2, <2>1
<1>6. CASE TaskFailed(t)
  <2>1. /\ ctx[t] # "none" /\ ctx' = [ctx EXCEPT ![t] = "none"]
        /\ UNCHANGED status
        /\ \/ taskStatus' = [taskStatus EXCEPT ![t] = "retrying"]
           \/ taskStatus' = [taskStatus EXCEPT ![t] = "failed"]
    BY <1>6 DEF TaskFailed
  <2>2. CASE taskStatus' = [taskStatus EXCEPT ![t] = "retrying"]
    <3>1. Ended' = Ended /\ Active' \subseteq Active /\ Done' = Done
      BY <1>1, <2>1, <2>2 DEF HasEnded, Ended, Active, Done
    <3> QED BY <3>1, Interrupts
  <2>3. CASE taskStatus' = [taskStatus EXCEPT ![t] = "failed"]
    <3>1. Ended' = Ended \cup {t} /\ Active' = Active \ {t} /\ Done' = Done
      BY <2>1, <2>3 DEF HasEnded, Ended, Active, Done
    <3> QED BY <1>1, <1>2, <2>1, <3>1
  <2> QED BY <2>1, <2>2, <2>3
<1>7. CASE Due(t) \/ Lose(t)
  BY <1>7, QuietStep DEF Due, Lose, Done, Active
<1> QED BY <1>3, <1>4, <1>5, <1>6, <1>7 DEF ExecutorStep

(* Every execution of the engine is an execution of the abstract workflow. *)
THEOREM EngineImplementsWorkflow == Spec => ImplementsWorkflow
<1>1. Init => W!WInit
  BY DEF Init, W!WInit, HasEnded
<1>2. IInv /\ [Next]_vars => [W!WNext]_(W!wvars)
  BY ProcessImplements, BeginImplements, LoopImplements, ReportImplements,
     DispatchImplements, ExecutorImplements DEF Next, EngineStep
<1> QED
  BY <1>1, <1>2, Invariance, PTL DEF Spec, ImplementsWorkflow, W!WSpec
=============================================================================
