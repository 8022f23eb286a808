---------------------------- MODULE Orchestration ----------------------------
(***************************************************************************)
(* The vocabulary shared by the modules of this project: the statuses of   *)
(* an execution row and of a task row (aria/modeling/orchestration.py),    *)
(* the transitions the row's validator accepts, and the decision the       *)
(* failure handler takes (workflows/core/events_handler.py).               *)
(* Constant-level: no state here.                                          *)
(*                                                                         *)
(* In every module of the project an operator Name_Bug defined before Name *)
(* is Name with a plausible bug in it.  No specification uses it: it is    *)
(* there to show that the properties notice the bug.                       *)
(***************************************************************************)
EXTENDS Integers

(* ExecutionBase: statuses of a workflow execution. *)
EXECUTION_STATES ==
  {"pending", "started", "cancelling", "succeeded", "failed", "cancelled"}

END_STATES_Cancelling == {"succeeded", "failed", "cancelled", "cancelling"}

END_STATES == {"succeeded", "failed", "cancelled"}

VALID_TRANSITIONS_NoFailure ==
  [s \in EXECUTION_STATES |->
     CASE s = "pending"               -> {"started", "cancelled"}
       [] s = "started"               -> {"succeeded", "cancelled", "cancelling"}
       [] s = "cancelling"            -> END_STATES
       [] s \in {"cancelled", "failed"} -> {"pending"}
       [] s = "succeeded"             -> {}]

VALID_TRANSITIONS ==
  [s \in EXECUTION_STATES |->
     CASE s = "pending"               -> {"started", "cancelled"}
       [] s = "started"               -> END_STATES \cup {"cancelling"}
       [] s = "cancelling"            -> END_STATES
       [] s \in {"cancelled", "failed"} -> {"pending"}
       [] s = "succeeded"             -> {}]

(* validate_status: assigning `new` where `current` is what the session    *)
(* has loaded.  Assigning the loaded value again is always accepted.       *)
CanChange_Unchecked(current, new) == TRUE

CanChange(current, new) ==
  new = current \/ new \in VALID_TRANSITIONS[current]

(* ExecutionBase.is_active *)
IsActive(s) == s \notin END_STATES /\ s # "pending"

(* Engine._is_cancel, on the status it has just refreshed. *)
IsCancelStatus_Done(s) == s = "cancelled"

IsCancelStatus(s) == s \in {"cancelling", "cancelled"}

(* TaskBase: statuses of a task row. *)
TASK_STATES == {"pending", "retrying", "sent", "started", "success", "failed"}

INFINITE_RETRIES == -1

(* TaskBase.has_ended *)
HasEnded(s) == s \in {"success", "failed"}

(* TaskBase.is_waiting: a stub waits until it has ended. *)
IsWaiting_FirstTime(s, isStub) ==
  IF isStub THEN ~HasEnded(s) ELSE s = "pending"

IsWaiting(s, isStub) ==
  IF isStub THEN ~HasEnded(s) ELSE s \in {"pending", "retrying"}

(* _task_failed: whether a failed attempt is retried. *)
ShouldRetry_OneMore(abort, attemptsCount, maxAttempts, ignoreFailure) ==
  /\ ~abort
  /\ attemptsCount <= maxAttempts \/ maxAttempts = INFINITE_RETRIES
  /\ ~ignoreFailure

ShouldRetry(abort, attemptsCount, maxAttempts, ignoreFailure) ==
  /\ ~abort
  /\ attemptsCount < maxAttempts \/ maxAttempts = INFINITE_RETRIES
  /\ ~ignoreFailure
=============================================================================
