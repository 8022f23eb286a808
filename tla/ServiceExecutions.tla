------------------------- MODULE ServiceExecutions -------------------------
(***************************************************************************)
(* A service in the storage, and the commands that users run on it from    *)
(* several terminals: start, resume and delete (cli/commands/executions.py *)
(* and services.py, core.py, execution_preparer.py).  Each command is a    *)
(* process; what they share is the storage.  It is about what outlives a   *)
(* process: the service, the state of its node (one node here, with the    *)
(* Standard interface), and the executions with their task rows.           *)
(*                                                                         *)
(* An execution is seen as its row's status and the number of operations   *)
(* whose tasks have succeeded; retries and the tracker are in Engine.  As  *)
(* there, the engine's thread and the main thread, which handles Ctrl+C,   *)
(* have a session each: they check a status against what their session has *)
(* loaded and then overwrite the row.  The main thread outlives the engine *)
(* by up to a second, and ends the process when its handler raises.        *)
(***************************************************************************)
EXTENDS Orchestration, Sequences, FiniteSets

CONSTANTS
  Users,        \* those who run commands, one at a time each
  Executions,   \* the execution rows that may ever be put
  NoExecution,  \* what a command that works on none has
  Workflows,    \* built-in workflows in use
  DryRuns,      \* the values of the --dry flag in use
  CrashCap      \* bound: active executions whose process is killed

ASSUME ServiceAssumption ==
  /\ NoExecution \notin Executions
  /\ Workflows \subseteq {"install", "uninstall"}
  /\ DryRuns \subseteq BOOLEAN
  /\ CrashCap \in Nat

(* What install_node and uninstall_node run on the node, in this order. *)
OPERATIONS(w) ==
  IF w = "install" THEN <<"create", "configure", "start">>
                   ELSE <<"stop", "delete">>

(* NodeBase: states of a node, and determine_state. *)
NODE_STATES == {"initial", "creating", "created", "configuring", "configured",
                "starting", "started", "stopping", "deleting", "deleted",
                "error"}

Transitional(op) ==
  CASE op = "create"    -> "creating"
    [] op = "configure" -> "configuring"
    [] op = "start"     -> "starting"
    [] op = "stop"      -> "stopping"
    [] op = "delete"    -> "deleting"

Finished(op) ==
  CASE op = "create"    -> "created"
    [] op = "configure" -> "configured"
    [] op = "start"     -> "started"
    [] op = "stop"      -> "configured"
    [] op = "delete"    -> "deleted"

(* NodeBase.is_available *)
IsAvailable(s) == s \notin {"initial", "deleted", "error"}

VARIABLES
  service,    \* whether the service's row is there
  node,       \* the state of its node
  status,     \* execution rows: status, or why there is none
  workflow,   \* execution rows: workflow_name
  dry,        \* task rows: the executor stored in them is the dry one
  prepared,   \* all the task rows have been put
  done,       \* task rows: operations that have succeeded, from the first
  cmd         \* the command each user runs

(* History variables: never read by the actions. *)
VARIABLES
  resource,   \* what the create operation makes may exist outside
  loose,      \* a create operation may run whose process has ended
  overlapped, \* a delete operation succeeded while a create was under way
  crashed,    \* executions whose process was killed while they were active
  cut         \* executions that a Ctrl+C has left active without an engine

rows    == <<status, workflow, dry, prepared, done>>
outside == <<resource, loose, overlapped>>
history == <<outside, crashed, cut>>
vars    == <<service, node, rows, cmd, history>>

NoRow == {"none", "removed"}

(* A process: where it is, the execution it works on, the operation that   *)
(* it runs, whether it is dry, the status that the engine's session has    *)
(* loaded (view), and the one that the main thread's has (held).           *)
Command(pc, e, d, h) ==
  [pc |-> pc, e |-> e, op |-> 0, dry |-> d, view |-> "none", held |-> h]

Rest == Command("rest", NoExecution, FALSE, "none")

(* The engine's thread is in its loop, or about to write how it ended. *)
Driving == {"run", "operation", "succeed", "fail", "cancel"}

(* It has been started, and the main thread waits for it or has noticed    *)
(* its end.                                                                *)
Threaded == {"resume", "start", "ended", "raised"} \cup Driving

PCS == {"rest", "put", "prepare", "delete"} \cup Threaded

Commands ==
  [pc : PCS, e : Executions \cup {NoExecution}, op : 0..3, dry : BOOLEAN,
   view : EXECUTION_STATES \cup {"none"},
   held : EXECUTION_STATES \cup {"none", "over"}]

TypeOK ==
  /\ service \in BOOLEAN
  /\ node \in NODE_STATES
  /\ status \in [Executions -> EXECUTION_STATES \cup NoRow]
  /\ workflow \in [Executions -> {"install", "uninstall"}]
  /\ dry \in [Executions -> BOOLEAN]
  /\ prepared \in [Executions -> BOOLEAN]
  /\ \A e \in Executions : done[e] \in 0..Len(OPERATIONS(workflow[e]))
  /\ cmd \in [Users -> Commands]
  /\ resource \in BOOLEAN /\ loose \in BOOLEAN /\ overlapped \in BOOLEAN
  /\ crashed \subseteq Executions /\ cut \subseteq Executions

(* create_service has just put the service. *)
Init ==
  /\ service = TRUE /\ node = "initial"
  /\ status = [e \in Executions |-> "none"]
  /\ workflow = [e \in Executions |-> "install"]
  /\ dry = [e \in Executions |-> FALSE]
  /\ prepared = [e \in Executions |-> FALSE]
  /\ done = [e \in Executions |-> 0]
  /\ cmd = [u \in Users |-> Rest]
  /\ resource = FALSE /\ loose = FALSE /\ overlapped = FALSE
  /\ crashed = {} /\ cut = {}

Active(e) == status[e] \notin NoRow /\ IsActive(status[e])

At(u, pc) == cmd[u].pc = pc /\ status[cmd[u].e] \notin NoRow

(* On the way to a handler that uses it, the engine's session has loaded v *)
(* (a pass of the loop begins by reading the row anew).                    *)
GotoSeeing(u, pc, v) ==
  cmd' = [cmd EXCEPT ![u] = [cmd[u] EXCEPT !.pc = pc, !.op = 0, !.view = v]]

Goto(u, pc) == GotoSeeing(u, pc, "none")

(* The process ends. *)
Raise(u) == cmd' = [cmd EXCEPT ![u] = Rest]

(* An execution is deleted together with its tasks. *)
Removed(gone) ==
  /\ status' = [e \in Executions |-> IF e \in gone THEN "removed" ELSE status[e]]
  /\ workflow' = [e \in Executions |-> IF e \in gone THEN "install" ELSE workflow[e]]
  /\ dry' = [e \in Executions |-> e \notin gone /\ dry[e]]
  /\ prepared' = [e \in Executions |-> e \notin gone /\ prepared[e]]
  /\ done' = [e \in Executions |-> IF e \in gone THEN 0 ELSE done[e]]
  /\ crashed' = crashed \ gone /\ cut' = cut \ gone

Write(u, s) == status' = [status EXCEPT ![cmd[u].e] = s]

-----------------------------------------------------------------------------
(* aria executions start *)

(* _validate_no_active_executions; the execution is put afterwards. *)
StartCommand(u, w, d) ==
  /\ cmd[u].pc = "rest" /\ service
  /\ \A e \in Executions : ~Active(e)
  /\ \E e \in Executions :
       /\ status[e] = "none" /\ \A v \in Users : cmd[v].pc = "put" => cmd[v].e # e
       /\ cmd' = [cmd EXCEPT ![u] = Command("put", e, d, "none")]
       /\ workflow' = [workflow EXCEPT ![e] = w]
  /\ UNCHANGED <<service, node, status, dry, prepared, done, history>>

PutExecution(u) ==
  /\ cmd[u].pc = "put" /\ service
  /\ Write(u, "pending") /\ Goto(u, "prepare")
  /\ dry' = [dry EXCEPT ![cmd[u].e] = cmd[u].dry]
  /\ UNCHANGED <<service, node, workflow, prepared, done, history>>

(* The compiler has put every task. *)
Prepared(u) ==
  /\ At(u, "prepare")
  /\ prepared' = [prepared EXCEPT ![cmd[u].e] = TRUE]
  /\ GotoSeeing(u, "start", "pending")
  /\ UNCHANGED <<service, node, status, workflow, dry, done, history>>

(* The workflow function or the compiler raises: the rows put stay put. *)
PrepareRaises(u) ==
  /\ At(u, "prepare")
  /\ Raise(u)
  /\ UNCHANGED <<service, node, rows, history>>

-----------------------------------------------------------------------------
(* aria executions resume *)

Resumable_Inactive(e) == status[e] \notin NoRow \cup {"succeeded"} /\ ~Active(e)

Resumable(e) == status[e] = "cancelled"

(* The command keeps the row it has loaded until it ends. *)
ResumeCommand(u, e, d) ==
  /\ cmd[u].pc = "rest" /\ service
  /\ Resumable(e)
  /\ cmd' = [cmd EXCEPT ![u] = Command("resume", e, d, status[e])]
  /\ UNCHANGED <<service, node, rows, history>>

(* _workflow_resume, in the engine's thread, which loads the row anew. *)
WorkflowResumed(u) ==
  /\ At(u, "resume")
  /\ IF CanChange(status[cmd[u].e], "pending")
       THEN Write(u, "pending") /\ GotoSeeing(u, "start", "pending")
       ELSE Goto(u, "raised") /\ UNCHANGED status
  /\ UNCHANGED <<service, node, workflow, dry, prepared, done, history>>

-----------------------------------------------------------------------------
(* The engine, with what its handlers do to the node. *)

(* What its session reads: the status it has loaded, or the row if one of  *)
(* its commits (a log record) has expired it.                              *)
Loaded(u) == {cmd[u].view, status[cmd[u].e]}

(* _workflow_started; a refused transition takes the except branch. *)
WorkflowStarted(u) ==
  /\ At(u, "start")
  /\ \E v \in Loaded(u) :
       \/ IsCancelStatus(v) /\ Goto(u, "run") /\ UNCHANGED status
       \/ /\ ~IsCancelStatus(v) /\ CanChange(v, "started")
          /\ Write(u, "started") /\ Goto(u, "run")
       \/ /\ ~IsCancelStatus(v) /\ ~CanChange(v, "started")
          /\ GotoSeeing(u, "fail", v) /\ UNCHANGED status
  /\ UNCHANGED <<service, node, workflow, dry, prepared, done, history>>

(* A pass of the loop begins with _is_cancel, which refreshes the row. *)
IsCancel(u) == IsCancelStatus(status[cmd[u].e])

(* The loop is left, with the status that its last check has read. *)
Leave(u, pc) ==
  /\ GotoSeeing(u, pc, status[cmd[u].e])
  /\ UNCHANGED <<service, node, rows, history>>

Left(e) == done[e] < Len(OPERATIONS(workflow[e]))

Operation(u) == OPERATIONS(workflow[cmd[u].e])[cmd[u].op]

(* _update_node_state_if_necessary: the dry executor raises no event. *)
NodeBecomes_Dry(u, s) == node' = s

NodeBecomes(u, s) == node' = IF cmd[u].dry THEN node ELSE s

(* _task_started: the engine knows an executor of the class in the row. *)
TaskStarted(u) ==
  LET e == cmd[u].e
      op == OPERATIONS(workflow[e])[done[e] + 1]
  IN /\ At(u, "run") /\ ~IsCancel(u)
     /\ Left(e) /\ dry[e] = cmd[u].dry
     /\ cmd' = [cmd EXCEPT ![u].pc = "operation", ![u].op = done[e] + 1]
     /\ NodeBecomes(u, Transitional(op))
     /\ resource' = (resource \/ (op = "create" /\ ~cmd[u].dry))
     /\ UNCHANGED <<service, rows, loose, overlapped, crashed, cut>>

(* The task rows that say success, once that of u's operation does: two    *)
(* processes that resume the same execution may run the same operation.    *)
Succeeded(u) ==
  IF done[cmd[u].e] < cmd[u].op THEN cmd[u].op ELSE done[cmd[u].e]

(* A create operation is under way in u's process. *)
Creates(u) == At(u, "operation") /\ ~cmd[u].dry /\ Operation(u) = "create"

(* A delete operation takes away what there is, not what is being made. *)
ElsewhereCreated(u) == loose \/ \E v \in Users \ {u} : Creates(v)

(* _task_succeeded *)
TaskSucceeded(u) ==
  LET deleted == Operation(u) = "delete" /\ ~cmd[u].dry
  IN /\ At(u, "operation")
     /\ done' = [done EXCEPT ![cmd[u].e] = Succeeded(u)]
     /\ Goto(u, "run")
     /\ NodeBecomes(u, Finished(Operation(u)))
     /\ resource' = IF deleted THEN ElsewhereCreated(u) ELSE resource \/ Creates(u)
     /\ overlapped' = (overlapped \/ (deleted /\ ElsewhereCreated(u)))
     /\ UNCHANGED <<service, status, workflow, dry, prepared, loose, crashed, cut>>

(* The last attempt of an operation has failed, or the engine knows no     *)
(* executor of the class in the row: it raises.                            *)
Fails(u) ==
  /\ \/ At(u, "operation") /\ ~cmd[u].dry
     \/ At(u, "run") /\ Left(cmd[u].e) /\ dry[cmd[u].e] # cmd[u].dry
  /\ ~IsCancel(u)
  /\ Leave(u, "fail")

AllTasksConsumed(u) ==
  /\ At(u, "run") /\ ~IsCancel(u) /\ ~Left(cmd[u].e)
  /\ Leave(u, "succeed")

(* The operation in progress is terminated. *)
Cancelled(u) ==
  /\ At(u, "run") \/ At(u, "operation")
  /\ IsCancel(u)
  /\ Leave(u, "cancel")

WorkflowFailed_Unreported(u) ==
  /\ At(u, "fail") /\ Goto(u, "raised")
  /\ UNCHANGED <<service, node, rows, history>>

(* _workflow_failed; a refused transition leaves the row as it is. *)
WorkflowFailed(u) ==
  /\ At(u, "fail") /\ Goto(u, "raised")
  /\ \E v \in Loaded(u) : IF CanChange(v, "failed") THEN Write(u, "failed")
                                                   ELSE UNCHANGED status
  /\ UNCHANGED <<service, node, workflow, dry, prepared, done, history>>

(* _workflow_cancelled *)
WorkflowCancelled(u) ==
  /\ At(u, "cancel") /\ Goto(u, "ended")
  /\ \E v \in Loaded(u) : IF v \in END_STATES THEN UNCHANGED status
                                             ELSE Write(u, "cancelled")
  /\ UNCHANGED <<service, node, workflow, dry, prepared, done, history>>

(* _workflow_succeeded; a refused transition takes the except branch. *)
WorkflowSucceeded(u) ==
  /\ At(u, "succeed")
  /\ \E v \in Loaded(u) :
       IF CanChange(v, "succeeded")
         THEN Write(u, "succeeded") /\ Goto(u, "ended")
         ELSE GotoSeeing(u, "fail", v) /\ UNCHANGED status
  /\ UNCHANGED <<service, node, workflow, dry, prepared, done, history>>

-----------------------------------------------------------------------------
(* The main thread: _run_execution. *)

(* Its session loads the row for the first time; resume already has it.    *)
(* Once it loads an end, Ctrl+C changes nothing.                           *)
Load(u) ==
  /\ cmd[u].held = "none" /\ \E pc \in Threaded : At(u, pc)
  /\ status[cmd[u].e] \notin {"succeeded", "failed"}
  /\ cmd' = [cmd EXCEPT ![u].held = status[cmd[u].e]]
  /\ UNCHANGED <<service, node, rows, history>>

(* Ctrl+C: _workflow_cancelling, on what the session has loaded. *)
CtrlC(u) ==
  cmd[u].held \in EXECUTION_STATES /\ \E pc \in Threaded : At(u, pc)

(* It overwrites the row; later ones are ignored. *)
WorkflowCancelling(u) ==
  LET held == cmd[u].held
      s == IF held = "pending" THEN "cancelled" ELSE "cancelling"
  IN /\ CtrlC(u) /\ CanChange(held, s)
     /\ Write(u, s)
     /\ cmd' = [cmd EXCEPT ![u].held = "over"]
     /\ cut' = cut \cup {e \in Executions :
                           e = cmd[u].e /\ IsActive(s) /\ cmd[u].pc \notin Driving}
     /\ UNCHANGED <<service, node, workflow, dry, prepared, done, outside, crashed>>

(* The engine dies with its process, operations in progress do not. *)
ProcessGone(u) ==
  /\ Raise(u)
  /\ loose' = (loose \/ Creates(u))

(* The validator refuses: the error leaves the command. *)
CancelRefused(u) ==
  /\ CtrlC(u) /\ cmd[u].held # "pending"
  /\ ~CanChange(cmd[u].held, "cancelling")
  /\ ProcessGone(u)
  /\ cut' = cut \cup {e \in Executions : e = cmd[u].e /\ Active(e)}
  /\ UNCHANGED <<service, node, rows, resource, overlapped, crashed>>

(* The engine's thread has ended. *)
Exit(u) ==
  /\ At(u, "raised") \/ (At(u, "ended") /\ ~cmd[u].dry)
  /\ Raise(u)
  /\ UNCHANGED <<service, node, rows, history>>

(* A dry execution that raised no error has its traces removed. *)
DryRemoved(u) ==
  /\ At(u, "ended") /\ cmd[u].dry
  /\ Removed({cmd[u].e})
  /\ Raise(u)
  /\ UNCHANGED <<service, node, outside>>

-----------------------------------------------------------------------------
(* aria services delete *)

(* The checks of delete_service. *)
DeleteCommand(u, force) ==
  /\ cmd[u].pc = "rest" /\ service
  /\ \A e \in Executions : ~Active(e)
  /\ force \/ ~IsAvailable(node)
  /\ Goto(u, "delete")
  /\ UNCHANGED <<service, node, rows, history>>

(* The executions go with the service. *)
DeleteService(u) ==
  /\ cmd[u].pc = "delete" /\ service
  /\ service' = FALSE
  /\ Removed({e \in Executions : status[e] # "none"})
  /\ cmd' = [cmd EXCEPT ![u] = Rest]
  /\ UNCHANGED <<node, outside>>

-----------------------------------------------------------------------------
(* What the command works on has been removed by another one: its next     *)
(* access to the row raises.                                               *)
Vanished(u) ==
  /\ cmd[u].pc # "rest"
  /\ \/ ~service
     \/ cmd[u].pc \notin {"put", "delete"} /\ status[cmd[u].e] = "removed"
  /\ cmd' = [cmd EXCEPT ![u] = Rest]
  /\ UNCHANGED <<service, node, rows, history>>

Crash(u) ==
  /\ cmd[u].pc # "rest" /\ Cardinality(crashed) < CrashCap
  /\ ProcessGone(u)
  /\ crashed' = crashed \cup {e \in Executions : e = cmd[u].e /\ Active(e)}
  /\ UNCHANGED <<service, node, rows, resource, overlapped, cut>>

-----------------------------------------------------------------------------
Step(u) ==
  \/ \E w \in Workflows, d \in DryRuns : StartCommand(u, w, d)
  \/ PutExecution(u) \/ Prepared(u) \/ PrepareRaises(u)
  \/ \E e \in Executions, d \in DryRuns : ResumeCommand(u, e, d)
  \/ WorkflowResumed(u) \/ WorkflowStarted(u)
  \/ TaskStarted(u) \/ TaskSucceeded(u)
  \/ Fails(u) \/ AllTasksConsumed(u) \/ Cancelled(u)
  \/ WorkflowFailed(u) \/ WorkflowCancelled(u) \/ WorkflowSucceeded(u)
  \/ Load(u) \/ WorkflowCancelling(u) \/ CancelRefused(u)
  \/ Exit(u) \/ DryRemoved(u)
  \/ \E force \in BOOLEAN : DeleteCommand(u, force)
  \/ DeleteService(u) \/ Vanished(u) \/ Crash(u)

Next == \E u \in Users : Step(u)

Spec == Init /\ [][Next]_vars

-----------------------------------------------------------------------------
(* The engine only drives executions whose task graph was put completely:  *)
(* one whose preparation raised or crashed is never resumed.               *)
RunsWhole ==
  \A u \in Users :
    (\E pc \in {"start"} \cup Driving : At(u, pc)) => prepared[cmd[u].e]

(* An execution that blocks its service, because its row is active, has an *)
(* engine that will write its end, unless its process was killed or a      *)
(* Ctrl+C has cut it off: one handled when the engine had already ended,   *)
(* or one that the validator refused.  Every other end, errors and         *)
(* cancellations that race with the engine's last write included, leaves   *)
(* the row inactive.                                                       *)
ActiveIsDriven ==
  \A e \in Executions :
    Active(e) =>
      \/ e \in crashed \cup cut
      \/ \E u \in Users : cmd[u].e = e /\ cmd[u].pc \in Driving

(* A service is not deleted without --force on account of a stale node:    *)
(* while there may be something a create operation has made and no delete  *)
(* operation has taken away, the node's row says that it is available,     *)
(* whatever was cancelled, failed, crashed or ran dry in between; unless a *)
(* delete operation succeeded while a create operation was under way.      *)
LeftoversAreAvailable == overlapped \/ (resource => IsAvailable(node))

-----------------------------------------------------------------------------
(* The inductive invariant.                                                *)

(* Only the command that is about to put a row refers to it before it is   *)
(* there, and two such commands never mean the same row.                   *)
RowsInUse ==
  \A u \in Users :
    /\ IF cmd[u].pc \in {"rest", "delete"} THEN cmd[u].e = NoExecution
                                         ELSE cmd[u].e \in Executions
    /\ cmd[u].pc = "put" =>
         /\ status[cmd[u].e] = "none"
         /\ \A v \in Users \ {u} : cmd[v].pc = "put" => cmd[v].e # cmd[u].e
    /\ cmd[u].pc \notin {"rest", "put", "delete"} => status[cmd[u].e] # "none"

(* A row that is not there yet has no progress, and without the service    *)
(* there is no row.                                                        *)
NoTraces ==
  /\ \A e \in Executions : status[e] = "none" => done[e] = 0
  /\ ~service => \A e \in Executions : status[e] \in NoRow

(* Whoever is past the preparation, and every row that has ever been       *)
(* driven, has its tasks.                                                  *)
DrivenIsPrepared ==
  /\ \A u \in Users :
       (\E pc \in Threaded : At(u, pc)) => prepared[cmd[u].e]
  /\ \A e \in Executions : status[e] \notin NoRow \cup {"pending"} => prepared[e]

(* The operation that a process runs is one of its workflow's. *)
OperationsExist ==
  \A u \in Users :
    At(u, "operation") => cmd[u].op \in 1..Len(OPERATIONS(workflow[cmd[u].e]))

(* Whoever has started an execution is alone with it until it is cancelled *)
(* by Ctrl+C: until then the row follows the engine, and what both of its  *)
(* threads hold of it is no older than it can be.                          *)
Started(u) ==
  LET c == cmd[u]
      s == status[c.e]
  IN /\ \A v \in Users \ {u} : cmd[v].e # c.e
     /\ s # "removed" =>
          /\ c.pc \in {"prepare", "start"} => s = "pending"
          /\ c.pc \in Driving => s = "started"
          /\ c.pc \in {"ended", "raised"} => s \in {"succeeded", "failed"}
     /\ c.pc \notin {"resume", "cancel"}
     /\ c.held \in {"none", "pending", "started"}
     /\ c.pc = "start" => c.view = "pending"
     /\ c.pc \in {"succeed", "fail"} => c.view = "started"
     /\ c.held = "started" => c.pc \in Driving \cup {"ended", "raised"}

StartersAreAlone ==
  \A u \in Users :
    cmd[u].pc \notin {"rest", "delete"} /\ cmd[u].held \notin {"cancelled", "over"}
    => Started(u)

(* An engine that will write the end of an active execution: what its      *)
(* session has loaded does not keep it from that.                          *)
Drives(u, e) ==
  /\ cmd[u].e = e
  /\ \/ cmd[u].pc \in {"run", "operation"}
     \/ /\ cmd[u].pc \in {"succeed", "fail", "cancel"}
        /\ cmd[u].view \in {"started", "cancelling"}

ActiveHasEnd ==
  \A e \in Executions :
    Active(e) => e \in crashed \cup cut \/ \E u \in Users : Drives(u, e)

IInv ==
  /\ TypeOK /\ RowsInUse /\ NoTraces /\ DrivenIsPrepared /\ OperationsExist
  /\ StartersAreAlone /\ ActiveHasEnd /\ LeftoversAreAvailable
=============================================================================
