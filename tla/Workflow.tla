------------------------------- MODULE Workflow -------------------------------
(***************************************************************************)
(* What the execution of a task graph promises, with no engine, executor,  *)
(* rows or processes: a task is active only after the tasks it depends on  *)
(* have ended, and the workflow succeeds only when all have ended.         *)
(***************************************************************************)
EXTENDS FiniteSets

CONSTANTS Tasks, Deps

VARIABLES ended, active, succeeded

wvars == <<ended, active, succeeded>>

WInit == ended = {} /\ active = {} /\ succeeded = FALSE

Startable(t) == t \notin ended \cup active /\ Deps[t] \subseteq ended

Start(t) ==
  /\ Startable(t)
  /\ active' = active \cup {t}
  /\ UNCHANGED <<ended, succeeded>>

End(t) ==
  /\ t \in active
  /\ active' = active \ {t} /\ ended' = ended \cup {t}
  /\ UNCHANGED succeeded

(* A task with nothing to run. *)
Pass(t) ==
  /\ Startable(t)
  /\ ended' = ended \cup {t}
  /\ UNCHANGED <<active, succeeded>>

(* Attempts that fail, are terminated, are lost, or die with the process. *)
Interrupt ==
  /\ active' \in SUBSET active
  /\ UNCHANGED <<ended, succeeded>>

(* Ended tasks may be given another life while none is active, on an       *)
(* execution that has not succeeded.                                       *)
Reopen ==
  /\ active = {} /\ ~succeeded
  /\ ended' \in SUBSET ended
  /\ UNCHANGED <<active, succeeded>>

Succeed ==
  /\ ended = Tasks
  /\ succeeded' = TRUE
  /\ UNCHANGED <<ended, active>>

(* A cancellation that arrives late takes the result back. *)
Withdraw == succeeded' = FALSE /\ UNCHANGED <<ended, active>>

WNext ==
  \/ \E t \in Tasks : Start(t) \/ End(t) \/ Pass(t)
  \/ Interrupt \/ Reopen \/ Succeed \/ Withdraw

WSpec == WInit /\ [][WNext]_wvars
=============================================================================
