----------------------- MODULE ServiceExecutionsProofs -----------------------
(***************************************************************************)
(* The safety of the commands on a service, for any number of users and    *)
(* executions, whatever they start, resume, cancel, delete or kill.        *)
(***************************************************************************)
EXTENDS ServiceExecutions, TLAPS

(* A workflow has two or three operations.                                 *)
LEMMA OperationsType ==
  ASSUME NEW w \in {"install", "uninstall"}
  PROVE  /\ Len(OPERATIONS(w)) \in 2..3
         /\ \A i \in 1..Len(OPERATIONS(w)) :
              OPERATIONS(w)[i] \in {"create", "configure", "start", "stop", "delete"}
BY DEF OPERATIONS

(* The next operation of an execution that has operations left is one of   *)
(* its workflow.                                                           *)
LEMMA NextOperation ==
  ASSUME TypeOK, NEW e \in Executions, Left(e)
  PROVE  /\ done[e] + 1 \in 1..Len(OPERATIONS(workflow[e]))
         /\ done[e] + 1 \in 0..3
<1>1. workflow[e] \in {"install", "uninstall"}
  BY DEF TypeOK
<1> QED BY <1>1, OperationsType DEF TypeOK, Left

(* What a step makes of the command of its user, and that others keep      *)
(* theirs: one that goes on,                                               *)
LEMMA GotoCommand ==
  ASSUME TypeOK, NEW u \in Users, NEW pc \in PCS,
         NEW v \in EXECUTION_STATES \cup {"none"}, GotoSeeing(u, pc, v)
  PROVE  /\ cmd' \in [Users -> Commands]
         /\ cmd'[u].pc = pc /\ cmd'[u].e = cmd[u].e /\ cmd'[u].view = v
         /\ cmd'[u].dry = cmd[u].dry /\ cmd'[u].held = cmd[u].held
         /\ \A w \in Users \ {u} : cmd'[w] = cmd[w]
<1>1. cmd \in [Users -> Commands]
  BY DEF TypeOK
<1>2. cmd' = [cmd EXCEPT ![u] = [cmd[u] EXCEPT !.pc = pc, !.op = 0, !.view = v]]
  BY <1>1 DEF GotoSeeing
<1>3. [cmd[u] EXCEPT !.pc = pc, !.op = 0, !.view = v] \in Commands
  <2>1. cmd[u] \in Commands /\ 0 \in 0..3
    BY <1>1
  <2> QED BY <2>1 DEF Commands
<1> QED BY <1>1, <1>2, <1>3 DEF Commands

(* A user at rest has no execution.                                        *)
LEMMA RestCommand ==
  Rest \in Commands /\ Rest.pc = "rest" /\ Rest.e = NoExecution
BY DEF Rest, Command, Commands, PCS

(* one that ends,                                                          *)
LEMMA RaiseCommand ==
  ASSUME TypeOK, NEW u \in Users, Raise(u)
  PROVE  /\ cmd' \in [Users -> Commands]
         /\ cmd'[u] = Rest
         /\ \A v \in Users \ {u} : cmd'[v] = cmd[v]
BY RestCommand DEF TypeOK, Raise

(* one that starts or resumes,                                             *)
LEMMA StartedCommand ==
  ASSUME TypeOK, NEW u \in Users, NEW e \in Executions, NEW d \in DryRuns,
         NEW pc \in {"put", "resume"}, NEW h \in EXECUTION_STATES \cup {"none"},
         cmd' = [cmd EXCEPT ![u] = Command(pc, e, d, h)]
  PROVE  /\ cmd' \in [Users -> Commands]
         /\ cmd'[u].pc = pc /\ cmd'[u].e = e /\ cmd'[u].held = h
         /\ \A v \in Users \ {u} : cmd'[v] = cmd[v]
<1>1. /\ Command(pc, e, d, h) \in Commands
      /\ Command(pc, e, d, h).pc = pc /\ Command(pc, e, d, h).e = e
      /\ Command(pc, e, d, h).held = h
  BY ServiceAssumption DEF Command, Commands, PCS, Threaded
<1>2. cmd \in [Users -> Commands]
  BY DEF TypeOK
<1> QED BY <1>1, <1>2

(* one whose main thread loads a status or has handled Ctrl+C,             *)
LEMMA HeldCommand ==
  ASSUME TypeOK, NEW u \in Users, NEW h \in EXECUTION_STATES \cup {"none", "over"},
         cmd' = [cmd EXCEPT ![u].held = h]
  PROVE  /\ cmd' \in [Users -> Commands]
         /\ cmd'[u].pc = cmd[u].pc /\ cmd'[u].e = cmd[u].e
         /\ cmd'[u].op = cmd[u].op /\ cmd'[u].dry = cmd[u].dry
         /\ cmd'[u].view = cmd[u].view /\ cmd'[u].held = h
         /\ \A w \in Users \ {u} : cmd'[w] = cmd[w]
<1>1. cmd \in [Users -> Commands]
  BY DEF TypeOK
<1>2. cmd' = [cmd EXCEPT ![u] = [cmd[u] EXCEPT !.held = h]]
  BY <1>1
<1>3. [cmd[u] EXCEPT !.held = h] \in Commands
  BY <1>1 DEF Commands
<1> QED BY <1>1, <1>2, <1>3 DEF Commands

(* and one that goes on to an operation.                                   *)
LEMMA OperationCommand ==
  ASSUME TypeOK, NEW u \in Users, cmd[u].e \in Executions, TaskStarted(u)
  PROVE  /\ cmd' \in [Users -> Commands]
         /\ done[cmd[u].e] + 1 \in 1..Len(OPERATIONS(workflow[cmd[u].e]))
         /\ cmd'[u].pc = "operation" /\ cmd'[u].e = cmd[u].e
         /\ cmd'[u].op = done[cmd[u].e] + 1 /\ cmd'[u].dry = cmd[u].dry
         /\ cmd'[u].view = cmd[u].view /\ cmd'[u].held = cmd[u].held
         /\ \A v \in Users \ {u} : cmd'[v] = cmd[v]
<1> DEFINE n == done[cmd[u].e] + 1
<1>1. /\ Left(cmd[u].e)
      /\ cmd' = [cmd EXCEPT ![u].pc = "operation", ![u].op = n]
  BY Zenon DEF TaskStarted
<1>2. n \in 1..Len(OPERATIONS(workflow[cmd[u].e])) /\ n \in 0..3
  BY <1>1, NextOperation
<1> HIDE DEF n
<1>3. cmd \in [Users -> Commands]
  BY DEF TypeOK
<1>4. cmd' = [cmd EXCEPT ![u] = [cmd[u] EXCEPT !.pc = "operation", !.op = n]]
  BY <1>1, <1>3
<1>5. [cmd[u] EXCEPT !.pc = "operation", !.op = n] \in Commands
  BY <1>2, <1>3 DEF Commands, PCS, Threaded, Driving
<1>6. /\ cmd' \in [Users -> Commands]
      /\ cmd'[u].pc = "operation" /\ cmd'[u].e = cmd[u].e
      /\ cmd'[u].op = n /\ cmd'[u].dry = cmd[u].dry
      /\ cmd'[u].view = cmd[u].view /\ cmd'[u].held = cmd[u].held
      /\ \A v \in Users \ {u} : cmd'[v] = cmd[v]
  BY <1>3, <1>4, <1>5 DEF Commands
<1> QED BY <1>2, <1>6 DEF n

(* The programme points at which a command has a row to work on.           *)
LEMMA ProgramPoints ==
  /\ PCS = {"rest", "put", "prepare", "delete", "resume", "start", "run",
            "operation", "succeed", "fail", "cancel", "ended", "raised"}
  /\ Threaded = {"resume", "start", "run", "operation", "succeed", "fail",
                 "cancel", "ended", "raised"}
  /\ Driving = {"run", "operation", "succeed", "fail", "cancel"}
BY DEF PCS, Threaded, Driving

(* What a step may do to the command of its user: a kind for each change,  *)
(* with the execution, what it sees and what it holds afterwards.          *)
Begins(u) ==
  \/ \E w \in Workflows, d \in DryRuns : StartCommand(u, w, d)
  \/ \E e \in Executions, d \in DryRuns : ResumeCommand(u, e, d)

EndsProcess(u) ==
  \/ PrepareRaises(u) \/ CancelRefused(u) \/ Exit(u) \/ DryRemoved(u)
  \/ DeleteService(u) \/ Vanished(u) \/ Crash(u)

Goes(u) ==
  \/ PutExecution(u) \/ Prepared(u) \/ WorkflowResumed(u) \/ WorkflowStarted(u)
  \/ TaskSucceeded(u) \/ Fails(u) \/ AllTasksConsumed(u) \/ Cancelled(u)
  \/ WorkflowFailed(u) \/ WorkflowCancelled(u) \/ WorkflowSucceeded(u)
  \/ \E force \in BOOLEAN : DeleteCommand(u, force)

Handles(u) == Load(u) \/ WorkflowCancelling(u)

(* These are all the steps.                                                *)
LEMMA StepKinds ==
  ASSUME NEW u \in Users, Step(u)
  PROVE  Begins(u) \/ EndsProcess(u) \/ Goes(u) \/ Handles(u) \/ TaskStarted(u)
BY Zenon DEF Step, Begins, EndsProcess, Goes, Handles

(* Rows of executions in use, before a step.                               *)
LEMMA Known ==
  ASSUME IInv, NEW u \in Users
  PROVE  /\ TypeOK /\ status \in [Executions -> EXECUTION_STATES \cup NoRow]
         /\ cmd \in [Users -> Commands] /\ cmd[u] \in Commands
         /\ cmd[u].pc \in PCS
         /\ cmd[u].view \in EXECUTION_STATES \cup {"none"}
         /\ cmd[u].held \in EXECUTION_STATES \cup {"none", "over"}
         /\ cmd[u].pc \in {"rest", "delete"} => cmd[u].e = NoExecution
         /\ cmd[u].pc \notin {"rest", "delete"} => cmd[u].e \in Executions
         /\ cmd[u].pc = "put" => status[cmd[u].e] = "none"
         /\ cmd[u].pc \notin {"rest", "put", "delete"} => status[cmd[u].e] # "none"
BY DEF IInv, RowsInUse, TypeOK, Commands

(* Whoever has a row works on an execution, whose status is one.           *)
LEMMA RowAt ==
  ASSUME IInv, NEW u \in Users, NEW pc \in PCS \ {"rest", "delete"}, At(u, pc)
  PROVE  /\ cmd[u].pc = pc /\ cmd[u].e \in Executions
         /\ status[cmd[u].e] \in EXECUTION_STATES
         /\ Loaded(u) \subseteq EXECUTION_STATES \cup {"none"}
BY Known DEF At, NoRow, Loaded

(* A command that goes on keeps its execution and what it holds.           *)
LEMMA GoesCommand ==
  ASSUME IInv, NEW u \in Users, Goes(u)
  PROVE  /\ cmd' \in [Users -> Commands]
         /\ cmd'[u].e = cmd[u].e /\ cmd'[u].held = cmd[u].held
         /\ cmd'[u].pc \in PCS \ {"rest", "put", "resume", "operation"}
         /\ (cmd'[u].pc = "delete") <=> (cmd[u].pc \in {"rest", "delete"})
         /\ \A v \in Users \ {u} : cmd'[v] = cmd[v]
<1> USE ProgramPoints DEF At
<1>0. TypeOK
  BY DEF IInv
<1>a. ASSUME NEW pc \in PCS \ {"rest", "put", "resume", "operation", "delete"},
             NEW v \in EXECUTION_STATES \cup {"none"},
             GotoSeeing(u, pc, v), cmd[u].pc \notin {"rest", "delete"}
      PROVE  /\ cmd' \in [Users -> Commands]
             /\ cmd'[u].e = cmd[u].e /\ cmd'[u].held = cmd[u].held
             /\ cmd'[u].pc \in PCS \ {"rest", "put", "resume", "operation"}
             /\ (cmd'[u].pc = "delete") <=> (cmd[u].pc \in {"rest", "delete"})
             /\ \A w \in Users \ {u} : cmd'[w] = cmd[w]
  BY <1>0, <1>a, GotoCommand
<1>b. ASSUME NEW pc \in PCS \ {"rest", "put", "resume", "operation", "delete"},
             Goto(u, pc), cmd[u].pc \notin {"rest", "delete"}
      PROVE  /\ cmd' \in [Users -> Commands]
             /\ cmd'[u].e = cmd[u].e /\ cmd'[u].held = cmd[u].held
             /\ cmd'[u].pc \in PCS \ {"rest", "put", "resume", "operation"}
             /\ (cmd'[u].pc = "delete") <=> (cmd[u].pc \in {"rest", "delete"})
             /\ \A w \in Users \ {u} : cmd'[w] = cmd[w]
  BY <1>a, <1>b DEF Goto
<1>1. CASE PutExecution(u) \/ TaskSucceeded(u) \/ WorkflowFailed(u) \/ WorkflowCancelled(u)
  BY <1>1, <1>b DEF PutExecution, TaskSucceeded, WorkflowFailed, WorkflowCancelled
<1>2. CASE Prepared(u) \/ WorkflowResumed(u)
  BY <1>2, <1>a, <1>b DEF Prepared, WorkflowResumed, EXECUTION_STATES
<1>3. CASE WorkflowStarted(u)
  <2>1. PICK v \in Loaded(u) : Goto(u, "run") \/ GotoSeeing(u, "fail", v)
    BY <1>3 DEF WorkflowStarted
  <2>2. v \in EXECUTION_STATES \cup {"none"} /\ cmd[u].pc = "start"
    BY <1>3, <2>1, RowAt DEF WorkflowStarted
  <2> QED BY <1>a, <1>b, <2>1, <2>2
<1>4. CASE WorkflowSucceeded(u)
  <2>1. PICK v \in Loaded(u) : Goto(u, "ended") \/ GotoSeeing(u, "fail", v)
    BY <1>4 DEF WorkflowSucceeded
  <2>2. v \in EXECUTION_STATES \cup {"none"} /\ cmd[u].pc = "succeed"
    BY <1>4, <2>1, RowAt DEF WorkflowSucceeded
  <2> QED BY <1>a, <1>b, <2>1, <2>2
<1>5. CASE Fails(u) \/ AllTasksConsumed(u) \/ Cancelled(u)
  <2>1. /\ cmd[u].pc \in {"run", "operation"}
        /\ \E pc \in {"fail", "succeed", "cancel"} : GotoSeeing(u, pc, status[cmd[u].e])
    BY <1>5 DEF Fails, AllTasksConsumed, Cancelled, Leave
  <2>2. status[cmd[u].e] \in EXECUTION_STATES
    BY <1>5, RowAt DEF Fails, AllTasksConsumed, Cancelled
  <2> QED BY <1>a, <2>1, <2>2
<1>6. ASSUME NEW force \in BOOLEAN, DeleteCommand(u, force)
      PROVE  /\ cmd' \in [Users -> Commands]
             /\ cmd'[u].e = cmd[u].e /\ cmd'[u].held = cmd[u].held
             /\ cmd'[u].pc = "delete" /\ cmd[u].pc = "rest"
             /\ \A v \in Users \ {u} : cmd'[v] = cmd[v]
  BY <1>0, <1>6, GotoCommand DEF DeleteCommand, Goto
<1> QED BY <1>1, <1>2, <1>3, <1>4, <1>5, <1>6 DEF Goes

(* A command whose main thread handles something goes on as it was.        *)
LEMMA HandlesCommand ==
  ASSUME IInv, NEW u \in Users, Handles(u)
  PROVE  /\ cmd' \in [Users -> Commands]
         /\ cmd'[u].pc = cmd[u].pc /\ cmd'[u].e = cmd[u].e
         /\ cmd'[u].op = cmd[u].op /\ cmd'[u].dry = cmd[u].dry
         /\ cmd'[u].view = cmd[u].view
         /\ Load(u) => cmd'[u].held = status[cmd[u].e]
         /\ WorkflowCancelling(u) => cmd'[u].held = "over"
         /\ (\E pc \in Threaded : At(u, pc)) /\ cmd[u].pc \in Threaded
         /\ cmd[u].e \in Executions
         /\ \A v \in Users \ {u} : cmd'[v] = cmd[v]
<1> USE ProgramPoints
<1>0. TypeOK
  BY DEF IInv
<1>1. (\E pc \in Threaded : At(u, pc)) /\ cmd[u].pc \in Threaded
  BY DEF Handles, Load, WorkflowCancelling, CtrlC, At
<1>2. cmd[u].e \in Executions /\ status[cmd[u].e] \in EXECUTION_STATES
  BY <1>1, RowAt
<1>3. CASE Load(u)
  <2>1. /\ cmd' = [cmd EXCEPT ![u].held = status[cmd[u].e]]
        /\ cmd[u].held = "none"
    BY <1>3 DEF Load
  <2>2. ~WorkflowCancelling(u)
    BY <2>1 DEF WorkflowCancelling, CtrlC, EXECUTION_STATES
  <2> QED BY <1>0, <1>1, <1>2, <2>1, <2>2, HeldCommand
<1>4. CASE WorkflowCancelling(u)
  <2>1. /\ cmd' = [cmd EXCEPT ![u].held = "over"]
        /\ ~Load(u)
    BY <1>4 DEF Load, WorkflowCancelling, CtrlC, EXECUTION_STATES
  <2> QED BY <1>0, <1>1, <1>2, <1>4, <2>1, HeldCommand
<1> QED BY <1>3, <1>4 DEF Handles

(* A command that ends is at rest.                                         *)
LEMMA EndsCommand ==
  ASSUME IInv, NEW u \in Users, EndsProcess(u)
  PROVE  /\ cmd' \in [Users -> Commands]
         /\ cmd'[u].pc = "rest" /\ cmd'[u].e = NoExecution
         /\ \A v \in Users \ {u} : cmd'[v] = cmd[v]
<1>1. Raise(u)
  BY DEF EndsProcess, PrepareRaises, CancelRefused, Exit, DryRemoved, DeleteService,
     Vanished, Crash, ProcessGone, Raise
<1> QED BY <1>1, RaiseCommand, RestCommand DEF IInv

(* A command that begins works on a row that nobody is putting.            *)
LEMMA BeginsCommand ==
  ASSUME IInv, NEW u \in Users, Begins(u)
  PROVE  /\ cmd' \in [Users -> Commands] /\ UNCHANGED status
         /\ cmd'[u].e \in Executions /\ cmd[u].pc = "rest"
         /\ \/ /\ cmd'[u].pc = "put" /\ cmd'[u].held = "none"
               /\ status[cmd'[u].e] = "none"
               /\ \A v \in Users : cmd[v].pc = "put" => cmd[v].e # cmd'[u].e
            \/ /\ cmd'[u].pc = "resume" /\ cmd'[u].held = "cancelled"
               /\ status[cmd'[u].e] = "cancelled"
         /\ \A v \in Users \ {u} : cmd'[v] = cmd[v]
<1>0. TypeOK
  BY DEF IInv
<1>1. ASSUME NEW w \in Workflows, NEW d \in DryRuns, StartCommand(u, w, d)
      PROVE  /\ cmd' \in [Users -> Commands] /\ UNCHANGED status
             /\ cmd'[u].e \in Executions /\ cmd[u].pc = "rest"
             /\ cmd'[u].pc = "put" /\ cmd'[u].held = "none"
             /\ status[cmd'[u].e] = "none"
             /\ \A v \in Users : cmd[v].pc = "put" => cmd[v].e # cmd'[u].e
             /\ \A v \in Users \ {u} : cmd'[v] = cmd[v]
  <2>1. PICK e \in Executions :
          /\ status[e] = "none" /\ \A v \in Users : cmd[v].pc = "put" => cmd[v].e # e
          /\ cmd' = [cmd EXCEPT ![u] = Command("put", e, d, "none")]
    BY <1>1 DEF StartCommand
  <2>2. /\ cmd' \in [Users -> Commands]
        /\ cmd'[u].pc = "put" /\ cmd'[u].e = e /\ cmd'[u].held = "none"
        /\ \A v \in Users \ {u} : cmd'[v] = cmd[v]
    BY <1>0, <2>1, StartedCommand
  <2> QED BY <1>1, <2>1, <2>2 DEF StartCommand
<1>2. ASSUME NEW e \in Executions, NEW d \in DryRuns, ResumeCommand(u, e, d)
      PROVE  /\ cmd' \in [Users -> Commands] /\ UNCHANGED status
             /\ cmd'[u].e \in Executions /\ cmd[u].pc = "rest"
             /\ cmd'[u].pc = "resume" /\ cmd'[u].held = "cancelled"
             /\ status[cmd'[u].e] = "cancelled"
             /\ \A v \in Users \ {u} : cmd'[v] = cmd[v]
  <2>1. /\ status[e] = "cancelled" /\ UNCHANGED status
        /\ cmd' = [cmd EXCEPT ![u] = Command("resume", e, d, "cancelled")]
    BY <1>2 DEF ResumeCommand, Resumable, rows
  <2>2. /\ cmd' \in [Users -> Commands]
        /\ cmd'[u].pc = "resume" /\ cmd'[u].e = e /\ cmd'[u].held = "cancelled"
        /\ \A v \in Users \ {u} : cmd'[v] = cmd[v]
    BY <1>0, <2>1, StartedCommand DEF EXECUTION_STATES
  <2> QED BY <1>2, <2>1, <2>2 DEF ResumeCommand
<1> QED BY <1>1, <1>2 DEF Begins

-----------------------------------------------------------------------------
(* The invariant holds at the start.                                       *)
LEMMA InitInvariant == Init => IInv
<1> SUFFICES ASSUME Init PROVE IInv
  OBVIOUS
<1> USE DEF Init, NoRow
<1>1. TypeOK
  <2>1. 0 \in 0..Len(OPERATIONS("install"))
    BY OperationsType
  <2> QED BY <2>1, RestCommand DEF TypeOK, NODE_STATES
<1>2. RowsInUse /\ NoTraces /\ DrivenIsPrepared /\ OperationsExist
  BY RestCommand DEF RowsInUse, NoTraces, DrivenIsPrepared, OperationsExist, At,
     Threaded, Driving
<1>3. StartersAreAlone /\ ActiveHasEnd /\ LeftoversAreAvailable
  BY RestCommand DEF StartersAreAlone, ActiveHasEnd, LeftoversAreAvailable, Active
<1> QED BY <1>1, <1>2, <1>3 DEF IInv

(* What a step does to the statuses: it writes that of its user's own      *)
(* execution, or it removes rows that are there.                           *)
LEMMA StepStatus ==
  ASSUME IInv, NEW u \in Users, Step(u)
  PROVE  \A e \in Executions :
           \/ status'[e] = status[e]
           \/ /\ status'[e] = "removed" /\ status[e] # "none"
              /\ DryRemoved(u) \/ DeleteService(u)
           \/ /\ e = cmd[u].e /\ PutExecution(u) /\ cmd[u].pc = "put"
              /\ status'[e] = "pending"
           \/ /\ e = cmd[u].e /\ (\E pc \in Threaded : At(u, pc))
              /\ status'[e] \in EXECUTION_STATES
              /\ \/ WorkflowResumed(u) \/ WorkflowStarted(u) \/ WorkflowFailed(u)
                 \/ WorkflowCancelled(u) \/ WorkflowSucceeded(u)
                 \/ WorkflowCancelling(u)
<1>0. status \in [Executions -> EXECUTION_STATES \cup NoRow]
  BY DEF IInv, TypeOK
<1>a. ASSUME NEW s \in EXECUTION_STATES, Write(u, s), NEW e \in Executions
      PROVE  status'[e] = status[e] \/ (e = cmd[u].e /\ status'[e] = s)
  BY <1>0, <1>a DEF Write
<1>1. CASE UNCHANGED status
  BY <1>1
<1>2. CASE PutExecution(u)
  BY <1>a, <1>2 DEF PutExecution, EXECUTION_STATES
<1>3. CASE DryRemoved(u) \/ DeleteService(u)
  BY <1>3 DEF DryRemoved, DeleteService, Removed, At, NoRow
<1>4. CASE \/ WorkflowResumed(u) \/ WorkflowStarted(u) \/ WorkflowFailed(u)
           \/ WorkflowCancelled(u) \/ WorkflowSucceeded(u) \/ WorkflowCancelling(u)
  <2>1. \/ UNCHANGED status
        \/ \E s \in EXECUTION_STATES : Write(u, s)
    BY <1>4 DEF WorkflowResumed, WorkflowStarted, WorkflowFailed, WorkflowCancelled,
       WorkflowSucceeded, WorkflowCancelling, EXECUTION_STATES
  <2>2. \E pc \in Threaded : At(u, pc)
    BY <1>4, ProgramPoints DEF WorkflowResumed, WorkflowStarted, WorkflowFailed,
       WorkflowCancelled, WorkflowSucceeded, WorkflowCancelling, CtrlC
  <2> QED BY <1>a, <1>4, <2>1, <2>2
<1> QED
  BY <1>1, <1>2, <1>3, <1>4 DEF Step, StartCommand, Prepared, PrepareRaises,
     ResumeCommand, TaskStarted, TaskSucceeded, Fails, AllTasksConsumed, Cancelled,
     Leave, Load, CancelRefused, Exit, DeleteCommand, Vanished, Crash, rows

(* No step touches the commands of the others.                             *)
LEMMA OthersKept ==
  ASSUME IInv, NEW u \in Users, Step(u)
  PROVE  cmd' \in [Users -> Commands] /\ \A v \in Users \ {u} : cmd'[v] = cmd[v]
<1>1. CASE TaskStarted(u)
  <2>1. cmd[u].e \in Executions /\ TypeOK
    BY <1>1, RowAt, ProgramPoints DEF TaskStarted, IInv
  <2> QED BY <1>1, <2>1, OperationCommand
<1> QED BY <1>1, StepKinds, GoesCommand, HandlesCommand, EndsCommand, BeginsCommand

(* Every step keeps the types: those of the rows,                          *)
LEMMA RowTypes ==
  ASSUME IInv, NEW u \in Users, Step(u)
  PROVE  /\ status' \in [Executions -> EXECUTION_STATES \cup NoRow]
         /\ workflow' \in [Executions -> {"install", "uninstall"}]
         /\ dry' \in [Executions -> BOOLEAN]
         /\ prepared' \in [Executions -> BOOLEAN]
         /\ crashed' \subseteq Executions /\ cut' \subseteq Executions
         /\ \A e \in Executions : done'[e] \in 0..Len(OPERATIONS(workflow'[e]))
<1>0. TypeOK
  BY DEF IInv
<1>1. CASE DryRemoved(u) \/ DeleteService(u)
  <2>1. PICK gone : Removed(gone)
    BY <1>1 DEF DryRemoved, DeleteService
  <2> QED BY <1>0, <2>1, OperationsType DEF Removed, TypeOK, NoRow
<1>2. CASE ~(DryRemoved(u) \/ DeleteService(u))
  <2>1. status' \in [Executions -> EXECUTION_STATES \cup NoRow]
    <3>1. DOMAIN status' = Executions /\ status' = [e \in Executions |-> status'[e]]
      BY <1>0, <1>2 DEF Step, StartCommand, PutExecution, Prepared, PrepareRaises,
         ResumeCommand, WorkflowResumed, WorkflowStarted, TaskStarted, TaskSucceeded,
         Fails, AllTasksConsumed, Cancelled, WorkflowFailed, WorkflowCancelled,
         WorkflowSucceeded, Leave, Load, WorkflowCancelling, CancelRefused, Exit,
         DeleteCommand, Vanished, Crash, rows, Write, TypeOK
    <3>2. \A e \in Executions : status'[e] \in EXECUTION_STATES \cup NoRow
      BY <1>0, StepStatus DEF TypeOK, NoRow, EXECUTION_STATES
    <3> QED BY <3>1, <3>2
  <2>2. crashed' \subseteq Executions /\ cut' \subseteq Executions
    BY <1>0, <1>2 DEF Step, StartCommand, PutExecution, Prepared, PrepareRaises,
       ResumeCommand, WorkflowResumed, WorkflowStarted, TaskStarted, TaskSucceeded,
       Fails, AllTasksConsumed, Cancelled, WorkflowFailed, WorkflowCancelled,
       WorkflowSucceeded, Leave, Load, WorkflowCancelling, CancelRefused, Exit,
       DeleteCommand, Vanished, Crash, history, TypeOK
  <2>3. dry' \in [Executions -> BOOLEAN]
    <3>1. cmd[u].dry \in BOOLEAN
      BY <1>0 DEF TypeOK, Commands
    <3> QED
      BY <1>0, <1>2, <3>1 DEF Step, StartCommand, PutExecution, Prepared,
         PrepareRaises, ResumeCommand, WorkflowResumed, WorkflowStarted, TaskStarted,
         TaskSucceeded, Fails, AllTasksConsumed, Cancelled, WorkflowFailed,
         WorkflowCancelled, WorkflowSucceeded, Leave, Load, WorkflowCancelling,
         CancelRefused, Exit, DeleteCommand, Vanished, Crash, rows, TypeOK
  <2>4. prepared' \in [Executions -> BOOLEAN]
    BY <1>0, <1>2 DEF Step, StartCommand, PutExecution, Prepared, PrepareRaises,
       ResumeCommand, WorkflowResumed, WorkflowStarted, TaskStarted, TaskSucceeded,
       Fails, AllTasksConsumed, Cancelled, WorkflowFailed, WorkflowCancelled,
       WorkflowSucceeded, Leave, Load, WorkflowCancelling, CancelRefused, Exit,
       DeleteCommand, Vanished, Crash, rows, TypeOK
  <2>5. CASE \E w \in Workflows, d \in DryRuns : StartCommand(u, w, d)
    <3>1. PICK w \in Workflows, e \in Executions :
            /\ status[e] = "none" /\ workflow' = [workflow EXCEPT ![e] = w]
            /\ UNCHANGED done
      BY <2>5 DEF StartCommand
    <3>2. w \in {"install", "uninstall"} /\ done[e] = 0
      BY <3>1, ServiceAssumption DEF IInv, NoTraces
    <3> QED BY <1>0, <2>1, <2>2, <2>3, <2>4, <3>1, <3>2, OperationsType DEF TypeOK
  <2>6. CASE TaskSucceeded(u)
    <3>1. cmd[u].e \in Executions
      BY <2>6, RowAt, ProgramPoints DEF TaskSucceeded
    <3>2. cmd[u].op \in 1..Len(OPERATIONS(workflow[cmd[u].e]))
      BY <2>6 DEF TaskSucceeded, IInv, OperationsExist
    <3>3. /\ workflow[cmd[u].e] \in {"install", "uninstall"}
          /\ done[cmd[u].e] \in 0..Len(OPERATIONS(workflow[cmd[u].e]))
      BY <1>0, <3>1 DEF TypeOK
    <3>4. Succeeded(u) \in 0..Len(OPERATIONS(workflow[cmd[u].e]))
      BY <3>2, <3>3, OperationsType DEF Succeeded
    <3>5. done' = [done EXCEPT ![cmd[u].e] = Succeeded(u)] /\ UNCHANGED workflow
      BY <2>6 DEF TaskSucceeded
    <3> QED BY <1>0, <2>1, <2>2, <2>3, <2>4, <3>1, <3>4, <3>5 DEF TypeOK
  <2>7. CASE UNCHANGED <<workflow, done>>
    BY <1>0, <2>1, <2>2, <2>3, <2>4, <2>7 DEF TypeOK
  <2> QED
    BY <1>2, <2>5, <2>6, <2>7 DEF Step, PutExecution, Prepared, PrepareRaises,
       ResumeCommand, WorkflowResumed, WorkflowStarted, TaskStarted,
       Fails, AllTasksConsumed, Cancelled, WorkflowFailed, WorkflowCancelled,
       WorkflowSucceeded, Leave, Load, WorkflowCancelling, CancelRefused, Exit,
       DeleteCommand, Vanished, Crash, rows
<1> QED BY <1>1, <1>2

(* those of the node and of what exists outside,                           *)
LEMMA NodeTypes ==
  ASSUME IInv, NEW u \in Users, Step(u)
  PROVE  /\ service' \in BOOLEAN /\ node' \in NODE_STATES
         /\ resource' \in BOOLEAN /\ loose' \in BOOLEAN /\ overlapped' \in BOOLEAN
<1>0. TypeOK
  BY DEF IInv
<1>1. CASE TaskStarted(u)
  <2> DEFINE op == OPERATIONS(workflow[cmd[u].e])[done[cmd[u].e] + 1]
  <2>1. cmd[u].e \in Executions
    BY <1>1, RowAt, ProgramPoints DEF TaskStarted
  <2>2. done[cmd[u].e] + 1 \in 1..Len(OPERATIONS(workflow[cmd[u].e]))
    BY <1>0, <1>1, <2>1, OperationCommand
  <2>3. op \in {"create", "configure", "start", "stop", "delete"}
    BY <1>0, <2>1, <2>2, OperationsType DEF TypeOK
  <2>4. /\ node' = IF cmd[u].dry THEN node ELSE Transitional(op)
        /\ resource' = (resource \/ (op = "create" /\ ~cmd[u].dry))
        /\ UNCHANGED <<service, loose, overlapped>>
    BY <1>1 DEF TaskStarted, NodeBecomes
  <2> HIDE DEF op
  <2> QED BY <1>0, <2>3, <2>4 DEF Transitional, NODE_STATES, TypeOK
<1>2. CASE TaskSucceeded(u)
  <2>1. cmd[u].e \in Executions
    BY <1>2, RowAt, ProgramPoints DEF TaskSucceeded
  <2>2. cmd[u].op \in 1..Len(OPERATIONS(workflow[cmd[u].e]))
    BY <1>2 DEF TaskSucceeded, IInv, OperationsExist
  <2>3. Operation(u) \in {"create", "configure", "start", "stop", "delete"}
    <3>1. workflow[cmd[u].e] \in {"install", "uninstall"}
      BY <1>0, <2>1 DEF TypeOK
    <3> QED BY <2>2, <3>1, OperationsType DEF Operation
  <2>4. /\ node' = IF cmd[u].dry THEN node ELSE Finished(Operation(u))
        /\ UNCHANGED <<service, loose>>
    BY <1>2 DEF TaskSucceeded, NodeBecomes
  <2>5. node' \in NODE_STATES /\ service' \in BOOLEAN /\ loose' \in BOOLEAN
    BY <1>0, <2>3, <2>4 DEF Finished, NODE_STATES, TypeOK
  <2>6. ElsewhereCreated(u) \in BOOLEAN /\ Creates(u) \in BOOLEAN
    BY DEF ElsewhereCreated, Creates
  <2>7. /\ resource' \in {ElsewhereCreated(u), resource \/ Creates(u)}
        /\ overlapped' \in {overlapped, overlapped \/ ElsewhereCreated(u)}
    BY <1>0, <1>2 DEF TaskSucceeded, TypeOK
  <2> QED BY <1>0, <2>5, <2>6, <2>7 DEF TypeOK
<1>3. CASE UNCHANGED <<node, resource, overlapped>>
  <2>1. loose' \in {loose, loose \/ Creates(u)} /\ service' \in {service, FALSE}
    BY <1>0, <1>3 DEF Step, StartCommand, PutExecution, Prepared, PrepareRaises,
       ResumeCommand, WorkflowResumed, WorkflowStarted, TaskStarted, TaskSucceeded,
       Fails, AllTasksConsumed, Cancelled, WorkflowFailed, WorkflowCancelled,
       WorkflowSucceeded, Leave, Load, WorkflowCancelling, CancelRefused, Exit,
       DryRemoved, DeleteService, DeleteCommand, Vanished, Crash, ProcessGone,
       history, outside
  <2>2. Creates(u) \in BOOLEAN
    BY DEF Creates
  <2> QED BY <1>0, <1>3, <2>1, <2>2 DEF TypeOK
<1> QED
  BY <1>1, <1>2, <1>3 DEF Step, StartCommand, PutExecution, Prepared, PrepareRaises,
     ResumeCommand, WorkflowResumed, WorkflowStarted, Fails, AllTasksConsumed,
     Cancelled, WorkflowFailed, WorkflowCancelled, WorkflowSucceeded, Leave, Load,
     WorkflowCancelling, CancelRefused, Exit, DryRemoved, DeleteService,
     DeleteCommand, Vanished, Crash, history, outside

(* and all of them.                                                        *)
LEMMA TypeCorrectNext ==
  ASSUME IInv, NEW u \in Users, Step(u)
  PROVE  TypeOK'
BY RowTypes, NodeTypes, OthersKept DEF TypeOK

-----------------------------------------------------------------------------
(* A step of a user keeps each part of the invariant: the rows of          *)
(* executions in use are there,                                            *)
LEMMA RowsInUseNext ==
  ASSUME IInv, NEW u \in Users, Step(u)
  PROVE  RowsInUse'
<1> DEFINE Uses(pc, e, s) ==
             /\ pc \in {"rest", "delete"} => e = NoExecution
             /\ pc \notin {"rest", "delete"} => e \in Executions
             /\ pc = "put" => s = "none"
             /\ pc \notin {"rest", "put", "delete"} => s # "none"
<1>1. ASSUME NEW v \in Users \ {u}
      PROVE  Uses(cmd'[v].pc, cmd'[v].e, status'[cmd'[v].e])
  <2>1. cmd'[v] = cmd[v] /\ Uses(cmd[v].pc, cmd[v].e, status[cmd[v].e])
    BY OthersKept, Known
  <2>2. cmd[v].pc = "put" /\ cmd[u].pc = "put" => cmd[u].e # cmd[v].e
    BY DEF IInv, RowsInUse
  <2>3. (\E pc \in Threaded : At(u, pc)) => status[cmd[u].e] # "none"
    BY DEF At, NoRow
  <2> QED BY <2>1, <2>2, <2>3, StepStatus DEF EXECUTION_STATES
<1>2. Uses(cmd'[u].pc, cmd'[u].e, status'[cmd'[u].e])
  <2>1. CASE Begins(u)
    BY <2>1, BeginsCommand
  <2>2. CASE EndsProcess(u)
    BY <2>2, EndsCommand
  <2>3. CASE Goes(u)
    <3>1. /\ cmd'[u].e = cmd[u].e /\ cmd'[u].pc \notin {"rest", "put"}
          /\ (cmd'[u].pc = "delete") <=> (cmd[u].pc \in {"rest", "delete"})
      BY <2>3, GoesCommand
    <3>2. CASE cmd[u].pc = "put"
      <4>1. PutExecution(u) /\ cmd[u].e \in Executions
        BY <2>3, <3>2, Known DEF Goes, PutExecution, Prepared, WorkflowResumed,
           WorkflowStarted, TaskSucceeded, Fails, AllTasksConsumed, Cancelled,
           WorkflowFailed, WorkflowCancelled, WorkflowSucceeded, DeleteCommand, At
      <4>2. status'[cmd[u].e] = "pending"
        BY <4>1, Known DEF PutExecution, Write
      <4> QED BY <3>1, <3>2, <4>1, <4>2
    <3>3. CASE cmd[u].pc # "put"
      BY <3>1, <3>3, Known, StepStatus DEF EXECUTION_STATES
    <3> QED BY <3>2, <3>3
  <2>4. CASE Handles(u)
    <3>1. /\ cmd'[u].pc = cmd[u].pc /\ cmd'[u].e = cmd[u].e
          /\ cmd[u].pc \in Threaded /\ cmd[u].e \in Executions
      BY <2>4, HandlesCommand
    <3> QED BY <3>1, Known, StepStatus, ProgramPoints DEF EXECUTION_STATES
  <2>5. CASE TaskStarted(u)
    <3>1. cmd[u].e \in Executions /\ TypeOK /\ status[cmd[u].e] # "none"
      BY <2>5, RowAt, Known, ProgramPoints DEF TaskStarted, At
    <3>2. cmd'[u].pc = "operation" /\ cmd'[u].e = cmd[u].e
      BY <2>5, <3>1, OperationCommand
    <3> QED BY <3>1, <3>2, StepStatus DEF EXECUTION_STATES
  <2> QED BY <2>1, <2>2, <2>3, <2>4, <2>5, StepKinds
<1>3. ASSUME NEW v \in Users, NEW w \in Users \ {v},
             cmd'[v].pc = "put", cmd'[w].pc = "put"
      PROVE  cmd'[w].e # cmd'[v].e
  <2>1. cmd'[u].pc = "put" =>
          \A x \in Users : cmd[x].pc = "put" => cmd[x].e # cmd'[u].e
    <3>1. CASE TaskStarted(u)
      <4>1. cmd[u].e \in Executions /\ TypeOK
        BY <3>1, RowAt, ProgramPoints DEF TaskStarted, IInv
      <4> QED BY <3>1, <4>1, OperationCommand
    <3>2. CASE Handles(u)
      BY <3>2, HandlesCommand, ProgramPoints
    <3> QED BY <3>1, <3>2, StepKinds, BeginsCommand, EndsCommand, GoesCommand
  <2>2. CASE v = u \/ w = u
    BY <1>3, <2>1, <2>2, OthersKept
  <2>3. CASE v # u /\ w # u
    BY <1>3, <2>3, OthersKept DEF IInv, RowsInUse
  <2> QED BY <2>2, <2>3
<1> QED BY <1>1, <1>2, <1>3 DEF RowsInUse

(* what has no row yet has done nothing, and a deleted service has no      *)
(* executions,                                                             *)
LEMMA NoTracesNext ==
  ASSUME IInv, NEW u \in Users, Step(u)
  PROVE  NoTraces'
<1> USE DEF NoTraces, NoRow
<1>0. NoTraces /\ TypeOK
  BY DEF IInv
<1>1. \A e \in Executions : status'[e] = "none" => status[e] = "none"
  BY StepStatus DEF EXECUTION_STATES
<1>2. \A e \in Executions : status'[e] = "none" => done'[e] = 0
  <2>1. CASE UNCHANGED done
    BY <1>0, <1>1, <2>1
  <2>2. CASE TaskSucceeded(u)
    <3>1. /\ done' = [done EXCEPT ![cmd[u].e] = Succeeded(u)]
          /\ status[cmd[u].e] # "none"
      BY <2>2 DEF TaskSucceeded, At
    <3> QED BY <1>0, <1>1, <3>1
  <2>3. CASE DryRemoved(u) \/ DeleteService(u)
    BY <1>0, <1>1, <2>3 DEF DryRemoved, DeleteService, Removed
  <2> QED
    BY <2>1, <2>2, <2>3 DEF Step, StartCommand, PutExecution, Prepared,
       PrepareRaises, ResumeCommand, WorkflowResumed, WorkflowStarted, TaskStarted,
       Fails, AllTasksConsumed, Cancelled, WorkflowFailed, WorkflowCancelled,
       WorkflowSucceeded, Leave, Load, WorkflowCancelling, CancelRefused, Exit,
       DeleteCommand, Vanished, Crash, rows
<1>3. ~service' => \A e \in Executions : status'[e] \in NoRow
  <2>1. CASE DeleteService(u)
    BY <1>0, <2>1 DEF DeleteService, Removed
  <2>2. CASE ~DeleteService(u)
    <3>1. UNCHANGED service
      BY <2>2 DEF Step, StartCommand, PutExecution, Prepared, PrepareRaises,
         ResumeCommand, WorkflowResumed, WorkflowStarted, TaskStarted, TaskSucceeded,
         Fails, AllTasksConsumed, Cancelled, WorkflowFailed, WorkflowCancelled,
         WorkflowSucceeded, Leave, Load, WorkflowCancelling, CancelRefused, Exit,
         DryRemoved, DeleteCommand, Vanished, Crash
    <3>2. PutExecution(u) => service
      BY DEF PutExecution
    <3>3. ASSUME NEW pc \in Threaded, At(u, pc) PROVE service
      BY <1>0, <3>3, RowAt, ProgramPoints DEF At
    <3> QED BY <1>0, <3>1, <3>2, <3>3, StepStatus
  <2> QED BY <2>1, <2>2
<1> QED BY <1>2, <1>3

(* (who stands at a row after another user's step stood there before it)   *)
LEMMA OthersAt ==
  ASSUME IInv, NEW u \in Users, Step(u), NEW v \in Users \ {u},
         NEW pc \in Threaded, At(v, pc)'
  PROVE  At(v, pc) /\ cmd'[v] = cmd[v] /\ cmd[v].e \in Executions
<1>1. cmd'[v] = cmd[v] /\ cmd[v].pc = pc
  BY OthersKept DEF At
<1>2. cmd[v].e \in Executions /\ status[cmd[v].e] # "none"
  BY <1>1, Known, ProgramPoints
<1>3. status'[cmd[v].e] \notin NoRow
  BY <1>1 DEF At
<1>4. status[cmd[v].e] # "removed"
  BY <1>2, <1>3, StepStatus, RowAt, ProgramPoints DEF At, NoRow, PutExecution, IInv, RowsInUse
<1> QED BY <1>1, <1>2, <1>4 DEF At, NoRow

(* what is driven was prepared by whoever drives it,                       *)
LEMMA DrivenIsPreparedNext ==
  ASSUME IInv, NEW u \in Users, Step(u)
  PROVE  DrivenIsPrepared'
<1> USE DEF NoRow
<1>0. /\ TypeOK /\ DrivenIsPrepared
      /\ \A v \in Users, pc \in Threaded : At(v, pc) => prepared[cmd[v].e]
  BY DEF IInv, DrivenIsPrepared
<1>1. \A e \in Executions : prepared[e] => prepared'[e] \/ status'[e] = "removed"
  <2>1. CASE Prepared(u)
    BY <1>0, <2>1 DEF Prepared, TypeOK
  <2>2. CASE DryRemoved(u) \/ DeleteService(u)
    <3>1. PICK gone : Removed(gone)
      BY <2>2 DEF DryRemoved, DeleteService
    <3> QED BY <3>1 DEF Removed
  <2>3. CASE UNCHANGED prepared
    BY <2>3
  <2> QED
    BY <2>1, <2>2, <2>3 DEF Step, StartCommand, PutExecution, PrepareRaises,
       ResumeCommand, WorkflowResumed, WorkflowStarted, TaskStarted, TaskSucceeded,
       Fails, AllTasksConsumed, Cancelled, WorkflowFailed, WorkflowCancelled,
       WorkflowSucceeded, Leave, Load, WorkflowCancelling, CancelRefused, Exit,
       DeleteCommand, Vanished, Crash, rows
<1>2. \A e \in Executions : status'[e] \notin NoRow \cup {"pending"} => prepared'[e]
  BY <1>0, <1>1, StepStatus DEF DrivenIsPrepared
<1>3. ASSUME NEW v \in Users \ {u}, NEW pc \in Threaded, At(v, pc)'
      PROVE  prepared'[cmd'[v].e]
  BY <1>0, <1>1, <1>3, OthersAt DEF At
<1>4. ASSUME NEW pc \in Threaded, At(u, pc)'
      PROVE  prepared'[cmd'[u].e]
  <2>1. cmd'[u].pc = pc /\ status'[cmd'[u].e] \notin NoRow
    BY <1>4 DEF At
  <2>2. CASE Begins(u)
    BY <1>1, <1>2, <2>1, <2>2, BeginsCommand, ProgramPoints
  <2>3. CASE EndsProcess(u)
    BY <2>1, <2>3, EndsCommand, ProgramPoints
  <2>4. CASE Prepared(u)
    <3>1. cmd[u].e \in Executions /\ prepared' = [prepared EXCEPT ![cmd[u].e] = TRUE]
      BY <2>4, RowAt, ProgramPoints DEF Prepared
    <3>2. cmd'[u].e = cmd[u].e
      BY <2>4, GoesCommand DEF Goes
    <3> QED BY <1>0, <3>1, <3>2 DEF TypeOK
  <2>5. CASE PutExecution(u)
    <3>1. cmd'[u].pc = "prepare"
      BY <1>0, <2>5, GotoCommand, ProgramPoints DEF PutExecution, Goto
    <3> QED BY <2>1, <3>1, ProgramPoints
  <2>6. CASE \E force \in BOOLEAN : DeleteCommand(u, force)
    <3>1. cmd'[u].pc = "delete"
      BY <1>0, <2>6, GotoCommand, ProgramPoints DEF DeleteCommand, Goto
    <3> QED BY <2>1, <3>1, ProgramPoints
  <2>7. ASSUME \E q \in Threaded : At(u, q), cmd'[u].e = cmd[u].e
        PROVE  prepared'[cmd'[u].e]
    BY <1>0, <1>1, <2>1, <2>7, RowAt, ProgramPoints
  <2>8. CASE Handles(u)
    BY <2>7, <2>8, HandlesCommand
  <2>9. CASE TaskStarted(u)
    <3>1. At(u, "run") /\ cmd[u].e \in Executions
      BY <2>9, RowAt, ProgramPoints DEF TaskStarted
    <3> QED BY <1>0, <2>7, <2>9, <3>1, OperationCommand, ProgramPoints
  <2>10. CASE \/ WorkflowResumed(u) \/ WorkflowStarted(u) \/ TaskSucceeded(u)
              \/ Fails(u) \/ AllTasksConsumed(u) \/ Cancelled(u)
              \/ WorkflowFailed(u) \/ WorkflowCancelled(u) \/ WorkflowSucceeded(u)
    <3>1. \E q \in Threaded : At(u, q)
      BY <2>10, ProgramPoints DEF WorkflowResumed, WorkflowStarted, TaskSucceeded,
         Fails, AllTasksConsumed, Cancelled, WorkflowFailed, WorkflowCancelled,
         WorkflowSucceeded
    <3>2. cmd'[u].e = cmd[u].e
      BY <2>10, GoesCommand DEF Goes
    <3> QED BY <2>7, <3>1, <3>2
  <2> QED BY <2>2, <2>3, <2>4, <2>5, <2>6, <2>8, <2>9, <2>10, StepKinds DEF Goes
<1> QED BY <1>2, <1>3, <1>4 DEF DrivenIsPrepared

(* the operations that run are of the workflow,                            *)
LEMMA OperationsExistNext ==
  ASSUME IInv, NEW u \in Users, Step(u)
  PROVE  OperationsExist'
<1>0. TypeOK /\ OperationsExist
  BY DEF IInv
<1>1. \A e \in Executions :
        \/ workflow'[e] = workflow[e]
        \/ status[e] = "none" /\ UNCHANGED status
        \/ status'[e] = "removed"
  <2>1. CASE \E w \in Workflows, d \in DryRuns : StartCommand(u, w, d)
    BY <1>0, <2>1 DEF StartCommand, TypeOK
  <2>2. CASE DryRemoved(u) \/ DeleteService(u)
    BY <2>2 DEF DryRemoved, DeleteService, Removed
  <2>3. CASE UNCHANGED workflow
    BY <2>3
  <2> QED
    BY <2>1, <2>2, <2>3 DEF Step, PutExecution, Prepared, PrepareRaises,
       ResumeCommand, WorkflowResumed, WorkflowStarted, TaskStarted, TaskSucceeded,
       Fails, AllTasksConsumed, Cancelled, WorkflowFailed, WorkflowCancelled,
       WorkflowSucceeded, Leave, Load, WorkflowCancelling, CancelRefused, Exit,
       DeleteCommand, Vanished, Crash, rows
<1>2. ASSUME NEW v \in Users \ {u}, At(v, "operation")'
      PROVE  cmd'[v].op \in 1..Len(OPERATIONS(workflow'[cmd'[v].e]))
  <2>1. At(v, "operation") /\ cmd'[v] = cmd[v] /\ cmd[v].e \in Executions
    BY <1>2, OthersAt, ProgramPoints
  <2>2. workflow'[cmd[v].e] = workflow[cmd[v].e]
    BY <1>1, <1>2, <2>1 DEF At, NoRow
  <2> QED BY <1>0, <2>1, <2>2 DEF OperationsExist
<1>3. ASSUME At(u, "operation")'
      PROVE  cmd'[u].op \in 1..Len(OPERATIONS(workflow'[cmd'[u].e]))
  <2>1. cmd'[u].pc = "operation"
    BY <1>3 DEF At
  <2>2. CASE TaskStarted(u)
    <3>1. cmd[u].e \in Executions /\ UNCHANGED workflow
      BY <2>2, RowAt, ProgramPoints DEF TaskStarted, rows
    <3> QED BY <1>0, <2>2, <3>1, OperationCommand
  <2>3. CASE Handles(u)
    <3>1. /\ cmd'[u].op = cmd[u].op /\ cmd'[u].e = cmd[u].e
          /\ cmd[u].pc = "operation" /\ \E pc \in Threaded : At(u, pc)
      BY <2>1, <2>3, HandlesCommand
    <3>2. At(u, "operation") /\ UNCHANGED workflow
      BY <2>3, <3>1 DEF At, Handles, Load, WorkflowCancelling, rows
    <3> QED BY <1>0, <3>1, <3>2 DEF OperationsExist
  <2> QED BY <2>1, <2>2, <2>3, StepKinds, GoesCommand, EndsCommand, BeginsCommand
<1> QED BY <1>2, <1>3 DEF OperationsExist

(* what a create operation may have left has a node that bars the deletion *)
(* of the service,                                                         *)
LEMMA LeftoversNext ==
  ASSUME IInv, NEW u \in Users, Step(u)
  PROVE  LeftoversAreAvailable'
<1>0. TypeOK /\ OperationsExist /\ LeftoversAreAvailable
  BY DEF IInv
<1> USE DEF LeftoversAreAvailable, IsAvailable
<1>1. CASE UNCHANGED <<node, resource, overlapped>>
  BY <1>0, <1>1
<1>2. CASE TaskStarted(u)
  <2> DEFINE op == OPERATIONS(workflow[cmd[u].e])[done[cmd[u].e] + 1]
  <2>1. cmd[u].e \in Executions
    BY <1>2, RowAt, ProgramPoints DEF TaskStarted
  <2>2. done[cmd[u].e] + 1 \in 1..Len(OPERATIONS(workflow[cmd[u].e]))
    BY <1>0, <1>2, <2>1, OperationCommand
  <2>3. op \in {"create", "configure", "start", "stop", "delete"}
    BY <1>0, <2>1, <2>2, OperationsType DEF TypeOK
  <2>4. /\ node' = IF cmd[u].dry THEN node ELSE Transitional(op)
        /\ resource' = (resource \/ (op = "create" /\ ~cmd[u].dry))
        /\ UNCHANGED overlapped
    BY <1>2 DEF TaskStarted, NodeBecomes
  <2> HIDE DEF op
  <2> QED BY <1>0, <2>3, <2>4 DEF Transitional
<1>3. CASE TaskSucceeded(u)
  <2>1. cmd[u].e \in Executions
    BY <1>3, RowAt, ProgramPoints DEF TaskSucceeded
  <2>2. /\ cmd[u].op \in 1..Len(OPERATIONS(workflow[cmd[u].e]))
        /\ workflow[cmd[u].e] \in {"install", "uninstall"}
    BY <1>0, <1>3, <2>1 DEF TaskSucceeded, OperationsExist, TypeOK
  <2>3. Operation(u) \in {"create", "configure", "start", "stop", "delete"}
    BY <2>2, OperationsType DEF Operation
  <2>4. /\ node' = IF cmd[u].dry THEN node ELSE Finished(Operation(u))
        /\ overlapped => overlapped'
    BY <1>3 DEF TaskSucceeded, NodeBecomes
  <2>5. CASE cmd[u].dry
    <3>1. resource' = resource
      BY <1>0, <1>3, <2>5 DEF TaskSucceeded, Creates, TypeOK
    <3> QED BY <1>0, <2>4, <2>5, <3>1
  <2>6. CASE ~cmd[u].dry /\ Operation(u) # "delete"
    BY <2>3, <2>4, <2>6 DEF Finished
  <2>7. CASE ~cmd[u].dry /\ Operation(u) = "delete"
    <3>1. /\ resource' = ElsewhereCreated(u)
          /\ overlapped' = (overlapped \/ ElsewhereCreated(u))
      BY <1>3, <2>7 DEF TaskSucceeded
    <3> QED BY <3>1
  <2> QED BY <2>5, <2>6, <2>7
<1> QED
  BY <1>1, <1>2, <1>3 DEF Step, StartCommand, PutExecution, Prepared, PrepareRaises,
     ResumeCommand, WorkflowResumed, WorkflowStarted, Fails, AllTasksConsumed,
     Cancelled, WorkflowFailed, WorkflowCancelled, WorkflowSucceeded, Leave, Load,
     WorkflowCancelling, CancelRefused, Exit, DryRemoved, DeleteService,
     DeleteCommand, Vanished, Crash, history, outside

(* whoever starts an execution is alone with it, and what its process      *)
(* holds of it is true,                                                    *)
LEMMA StartersAreAloneNext ==
  ASSUME IInv, NEW u \in Users, Step(u)
  PROVE  StartersAreAlone'
<1> USE DEF NoRow
<1>0. TypeOK /\ StartersAreAlone
  BY DEF IInv
<1>1. ASSUME NEW v \in Users \ {u},
             cmd'[v].pc \notin {"rest", "delete"}, cmd'[v].held \notin {"cancelled", "over"}
      PROVE  Started(v)'
  <2>1. /\ cmd'[v] = cmd[v] /\ cmd[v].e \in Executions
        /\ cmd[v].pc \notin {"rest", "delete"} /\ Started(v)
    BY <1>0, <1>1, OthersKept, Known DEF StartersAreAlone
  <2>2. cmd[u].e # cmd[v].e
    BY <2>1 DEF Started
  <2>3. status'[cmd[v].e] \in {status[cmd[v].e], "removed"}
    BY <2>1, <2>2, StepStatus
  <2>4. cmd'[u].e # cmd[v].e
    <3>1. CASE Begins(u)
      <4>1. /\ cmd'[u].e \in Executions
            /\ \/ /\ status[cmd'[u].e] = "none"
                  /\ \A w \in Users : cmd[w].pc = "put" => cmd[w].e # cmd'[u].e
               \/ status[cmd'[u].e] = "cancelled"
        BY <3>1, BeginsCommand
      <4>2. cmd[v].pc # "put" => status[cmd[v].e] # "none"
        BY <2>1, Known
      <4>3. /\ cmd[v].pc = "put" => status[cmd[v].e] = "none"
            /\ cmd[v].pc \in PCS
        BY Known
      <4>4. status[cmd[v].e] # "cancelled"
        BY <2>1, <4>3, ProgramPoints DEF Started
      <4> QED BY <4>1, <4>2, <4>4
    <3>2. CASE EndsProcess(u)
      BY <2>1, <3>2, EndsCommand, ServiceAssumption
    <3>3. CASE Goes(u) \/ Handles(u)
      BY <2>2, <3>3, GoesCommand, HandlesCommand
    <3>4. CASE TaskStarted(u)
      <4>1. cmd[u].e \in Executions
        BY <3>4, RowAt, ProgramPoints DEF TaskStarted
      <4> QED BY <1>0, <2>2, <3>4, <4>1, OperationCommand
    <3> QED BY <3>1, <3>2, <3>3, <3>4, StepKinds
  <2>5. \A w \in Users \ {v} : cmd'[w].e # cmd'[v].e
    BY <2>1, <2>4, OthersKept DEF Started
  <2> QED BY <2>1, <2>3, <2>5 DEF Started
<1>2. ASSUME cmd'[u].pc \notin {"rest", "delete"}, cmd'[u].held \notin {"cancelled", "over"}
      PROVE  Started(u)'
  <2>1. CASE Begins(u)
    <3>1. /\ cmd'[u].e \in Executions /\ UNCHANGED status
          /\ cmd'[u].pc = "put" /\ cmd'[u].held = "none"
          /\ status[cmd'[u].e] = "none"
          /\ \A v \in Users : cmd[v].pc = "put" => cmd[v].e # cmd'[u].e
      BY <1>2, <2>1, BeginsCommand
    <3>2. ASSUME NEW v \in Users \ {u} PROVE cmd'[v].e # cmd'[u].e
      BY <3>1, OthersKept, Known, ServiceAssumption
    <3> QED BY <3>1, <3>2, ProgramPoints DEF Started
  <2>2. CASE EndsProcess(u)
    BY <1>2, <2>2, EndsCommand
  <2>3. ASSUME cmd'[u].e = cmd[u].e, cmd[u].pc \notin {"rest", "delete"},
               cmd[u].held \notin {"cancelled", "over"}
        PROVE  /\ Started(u) /\ cmd[u].e \in Executions
               /\ \A v \in Users \ {u} : cmd'[v].e # cmd'[u].e
    BY <1>0, <2>3, OthersKept, Known DEF StartersAreAlone, Started
  <2>4. CASE Handles(u)
    <3>1. Load(u)
      BY <1>2, <2>4, HandlesCommand DEF Handles
    <3>2. /\ cmd'[u].pc = cmd[u].pc /\ cmd'[u].e = cmd[u].e
          /\ cmd'[u].view = cmd[u].view /\ cmd'[u].held = status[cmd[u].e]
          /\ cmd[u].pc \in Threaded /\ status[cmd[u].e] # "removed"
      BY <2>4, <3>1, HandlesCommand DEF At
    <3>3. /\ Started(u) /\ \A v \in Users \ {u} : cmd'[v].e # cmd'[u].e
          /\ UNCHANGED status /\ status[cmd[u].e] \notin {"succeeded", "failed"}
      BY <2>3, <3>1, <3>2, ProgramPoints DEF Load, rows
    <3> QED BY <3>2, <3>3, ProgramPoints DEF Started
  <2>5. CASE TaskStarted(u)
    <3>1. cmd[u].e \in Executions /\ cmd[u].pc = "run" /\ UNCHANGED status
      BY <2>5, RowAt, ProgramPoints DEF TaskStarted, rows
    <3>2. /\ cmd'[u].pc = "operation" /\ cmd'[u].e = cmd[u].e
          /\ cmd'[u].view = cmd[u].view /\ cmd'[u].held = cmd[u].held
      BY <1>0, <2>5, <3>1, OperationCommand
    <3>3. /\ Started(u) /\ \A v \in Users \ {u} : cmd'[v].e # cmd'[u].e
      BY <1>2, <2>3, <3>1, <3>2
    <3> QED BY <3>1, <3>2, <3>3, ProgramPoints DEF Started
  <2>6. CASE Goes(u)
    <3>1. /\ cmd'[u].e = cmd[u].e /\ cmd'[u].held = cmd[u].held
          /\ cmd[u].pc \notin {"rest", "delete"}
      BY <1>2, <2>6, GoesCommand
    <3>2. /\ Started(u) /\ \A v \in Users \ {u} : cmd'[v].e # cmd'[u].e
          /\ cmd[u].e \in Executions
      BY <1>2, <2>3, <3>1
    <3>a. ASSUME NEW pc \in PCS, NEW w \in EXECUTION_STATES \cup {"none"},
                 GotoSeeing(u, pc, w)
          PROVE  cmd'[u].pc = pc /\ cmd'[u].view = w
      BY <1>0, <3>a, GotoCommand
    <3>b. ASSUME NEW pc \in PCS, Goto(u, pc) PROVE cmd'[u].pc = pc
      BY <3>a, <3>b DEF Goto
    <3>c. ASSUME NEW s, Write(u, s) PROVE status'[cmd[u].e] = s
      BY <1>0, <3>2, <3>c DEF Write, TypeOK
    <3>d. ASSUME NEW pc \in {"run", "prepare", "ended", "raised", "start", "succeed", "fail"},
                 cmd'[u].pc = pc,
                 pc \in {"prepare", "start"} => status'[cmd[u].e] = "pending",
                 pc \in Driving => status'[cmd[u].e] = "started",
                 pc \in {"ended", "raised"} => status'[cmd[u].e] \in {"succeeded", "failed"},
                 pc = "start" => cmd'[u].view = "pending",
                 pc \in {"succeed", "fail"} => cmd'[u].view = "started",
                 cmd[u].held = "started" => pc \in Driving \cup {"ended", "raised"}
          PROVE  Started(u)'
      BY <3>1, <3>2, <3>d, ProgramPoints DEF Started
    <3>3. CASE PutExecution(u)
      <4>1. cmd'[u].pc = "prepare" /\ status'[cmd[u].e] = "pending" /\ cmd[u].pc = "put"
        BY <3>3, <3>b, <3>c, ProgramPoints DEF PutExecution
      <4> QED BY <3>2, <3>d, <4>1, ProgramPoints DEF Started
    <3>4. CASE Prepared(u)
      <4>1. /\ cmd'[u].pc = "start" /\ cmd'[u].view = "pending"
            /\ cmd[u].pc = "prepare" /\ UNCHANGED status
            /\ status[cmd[u].e] = "pending"
        BY <3>2, <3>4, <3>a, ProgramPoints DEF Prepared, At, Started, EXECUTION_STATES
      <4> QED BY <3>2, <3>d, <4>1, ProgramPoints DEF Started
    <3>5. CASE WorkflowStarted(u)
      <4>1. cmd[u].pc = "start" /\ status[cmd[u].e] = "pending" /\ cmd[u].view = "pending"
        BY <3>2, <3>5 DEF WorkflowStarted, At, Started
      <4>2. CanChange("pending", "started") /\ ~IsCancelStatus("pending")
        BY DEF CanChange, VALID_TRANSITIONS, EXECUTION_STATES, IsCancelStatus
      <4>3. cmd'[u].pc = "run" /\ status'[cmd[u].e] = "started"
        BY <3>5, <3>b, <3>c, <4>1, <4>2, ProgramPoints DEF WorkflowStarted, Loaded
      <4> QED BY <3>d, <4>3, ProgramPoints
    <3>6. CASE TaskSucceeded(u)
      <4>1. /\ cmd'[u].pc = "run" /\ cmd[u].pc = "operation" /\ UNCHANGED status
            /\ status[cmd[u].e] = "started"
        BY <3>2, <3>6, <3>b, ProgramPoints DEF TaskSucceeded, At, Started
      <4> QED BY <3>d, <4>1, ProgramPoints
    <3>7. CASE Fails(u) \/ AllTasksConsumed(u) \/ Cancelled(u)
      <4>1. /\ cmd[u].pc \in {"run", "operation"} /\ UNCHANGED status
            /\ status[cmd[u].e] = "started"
        BY <3>2, <3>7, ProgramPoints
           DEF Fails, AllTasksConsumed, Cancelled, Leave, At, Started, rows
      <4>2. ~Cancelled(u)
        BY <4>1 DEF Cancelled, IsCancel, IsCancelStatus
      <4>3. \E pc \in {"fail", "succeed"} : GotoSeeing(u, pc, "started")
        BY <3>7, <4>1, <4>2 DEF Fails, AllTasksConsumed, Leave
      <4>4. cmd'[u].pc \in {"fail", "succeed"} /\ cmd'[u].view = "started"
        BY <3>a, <4>3, ProgramPoints DEF EXECUTION_STATES
      <4> QED BY <3>d, <4>1, <4>4, ProgramPoints
    <3>8. CASE WorkflowFailed(u)
      <4>1. /\ cmd[u].pc = "fail" /\ status[cmd[u].e] = "started"
            /\ cmd[u].view = "started"
        BY <3>2, <3>8, ProgramPoints DEF WorkflowFailed, At, Started
      <4>2. CanChange("started", "failed")
        BY DEF CanChange, VALID_TRANSITIONS, EXECUTION_STATES, END_STATES
      <4>3. cmd'[u].pc = "raised" /\ status'[cmd[u].e] = "failed"
        BY <3>8, <3>b, <3>c, <4>1, <4>2, ProgramPoints DEF WorkflowFailed, Loaded
      <4> QED BY <3>d, <4>3, ProgramPoints
    <3>9. CASE WorkflowSucceeded(u)
      <4>1. /\ cmd[u].pc = "succeed" /\ status[cmd[u].e] = "started"
            /\ cmd[u].view = "started"
        BY <3>2, <3>9, ProgramPoints DEF WorkflowSucceeded, At, Started
      <4>2. CanChange("started", "succeeded")
        BY DEF CanChange, VALID_TRANSITIONS, EXECUTION_STATES, END_STATES
      <4>3. cmd'[u].pc = "ended" /\ status'[cmd[u].e] = "succeeded"
        BY <3>9, <3>b, <3>c, <4>1, <4>2, ProgramPoints DEF WorkflowSucceeded, Loaded
      <4> QED BY <3>d, <4>3, ProgramPoints
    <3>10. ~WorkflowResumed(u) /\ ~WorkflowCancelled(u)
      BY <3>2 DEF WorkflowResumed, WorkflowCancelled, At, Started
    <3>11. ASSUME NEW force \in BOOLEAN PROVE ~DeleteCommand(u, force)
      BY <3>1 DEF DeleteCommand
    <3> QED
      BY <2>6, <3>3, <3>4, <3>5, <3>6, <3>7, <3>8, <3>9, <3>10, <3>11 DEF Goes
  <2> QED BY <2>1, <2>2, <2>4, <2>5, <2>6, StepKinds
<1> QED BY <1>1, <1>2 DEF StartersAreAlone

(* and what is active has an engine that will end it, unless its process   *)
(* was killed or a Ctrl+C has cut it off.                                  *)
LEMMA ActiveHasEndNext ==
  ASSUME IInv, NEW u \in Users, Step(u)
  PROVE  ActiveHasEnd'
<1> USE DEF NoRow
<1>0. TypeOK /\ ActiveHasEnd
  BY DEF IInv
<1> SUFFICES ASSUME NEW e \in Executions, Active(e)'
             PROVE  e \in crashed' \cup cut' \/ \E v \in Users : Drives(v, e)'
  BY DEF ActiveHasEnd
<1>1. status'[e] \in {"started", "cancelling"}
  BY RowTypes DEF Active, IsActive, END_STATES, EXECUTION_STATES
<1>2. e \in crashed \cup cut => e \in crashed' \cup cut'
  <2>1. CASE DryRemoved(u) \/ DeleteService(u)
    <3>1. PICK gone : Removed(gone)
      BY <2>1 DEF DryRemoved, DeleteService
    <3> QED BY <1>1, <3>1 DEF Removed
  <2> QED
    BY <2>1 DEF Step, StartCommand, PutExecution, Prepared, PrepareRaises,
       ResumeCommand, WorkflowResumed, WorkflowStarted, TaskStarted, TaskSucceeded,
       Fails, AllTasksConsumed, Cancelled, WorkflowFailed, WorkflowCancelled,
       WorkflowSucceeded, Leave, Load, WorkflowCancelling, CancelRefused, Exit,
       DeleteCommand, Vanished, Crash, history
<1>a. ASSUME NEW pc \in PCS, NEW w \in EXECUTION_STATES \cup {"none"},
             GotoSeeing(u, pc, w)
      PROVE  cmd'[u].pc = pc /\ cmd'[u].view = w /\ cmd'[u].e = cmd[u].e
  BY <1>0, <1>a, GotoCommand
<1>b. ASSUME NEW pc \in PCS, Goto(u, pc)
      PROVE  cmd'[u].pc = pc /\ cmd'[u].e = cmd[u].e
  BY <1>a, <1>b DEF Goto
<1>c. ASSUME NEW s, Write(u, s), cmd[u].e \in Executions PROVE status'[cmd[u].e] = s
  BY <1>0, <1>c DEF Write, TypeOK
<1>d. ASSUME NEW s \in {"started", "cancelling"}, NEW t \in {"succeeded", "failed"}
      PROVE  CanChange(s, t)
  BY <1>d DEF CanChange, VALID_TRANSITIONS, EXECUTION_STATES, END_STATES
(* It has become active now.                                               *)
<1>3. CASE ~Active(e)
  <2>1. /\ e = cmd[u].e /\ cmd[u].e \in Executions
        /\ WorkflowStarted(u) \/ WorkflowCancelling(u)
    <3>1. /\ e = cmd[u].e
          /\ \/ WorkflowResumed(u) \/ WorkflowStarted(u) \/ WorkflowFailed(u)
             \/ WorkflowCancelled(u) \/ WorkflowSucceeded(u) \/ WorkflowCancelling(u)
      BY <1>1, <1>3, StepStatus DEF Active
    <3>2. status'[e] # status[e]
      BY <1>3 DEF Active
    <3> QED BY <1>1, <1>c, <3>1, <3>2
            DEF WorkflowResumed, WorkflowFailed, WorkflowCancelled, WorkflowSucceeded
  <2>2. CASE WorkflowStarted(u)
    <3>1. Goto(u, "run") \/ UNCHANGED status
      BY <2>2 DEF WorkflowStarted
    <3>2. status'[e] # status[e]
      BY <1>3 DEF Active
    <3>3. cmd'[u].pc = "run" /\ cmd'[u].e = e
      BY <1>b, <2>1, <3>1, <3>2, ProgramPoints
    <3> QED BY <3>3 DEF Drives
  <2>3. CASE WorkflowCancelling(u)
    <3>1. /\ cmd'[u].pc = cmd[u].pc /\ cmd'[u].e = e /\ cmd'[u].view = cmd[u].view
          /\ cmd[u].pc \in Threaded
      BY <2>1, <2>3, HandlesCommand DEF Handles
    <3>2. CASE cmd[u].pc \notin Driving
      <4>1. Write(u, "cancelled") \/ Write(u, "cancelling")
        BY <2>3 DEF WorkflowCancelling
      <4>2. cmd[u].held # "pending"
        BY <1>1, <1>c, <2>1, <2>3 DEF WorkflowCancelling
      <4> QED BY <2>1, <2>3, <3>2, <4>2 DEF WorkflowCancelling, IsActive, END_STATES
    <3>3. CASE cmd[u].pc \in Driving
      <4>1. /\ cmd[u].held \in EXECUTION_STATES \ {"pending"}
            /\ CanChange(cmd[u].held, "cancelling")
        BY <1>1, <1>c, <2>1, <2>3 DEF WorkflowCancelling, CtrlC
      <4>2. cmd[u].held # "cancelled"
        BY <4>1 DEF CanChange, VALID_TRANSITIONS, EXECUTION_STATES
      <4>3. Started(u)
        BY <3>3, <4>1, <4>2, ProgramPoints DEF IInv, StartersAreAlone, EXECUTION_STATES
      <4> QED BY <3>1, <3>3, <4>3, ProgramPoints DEF Started, Drives
    <3> QED BY <3>2, <3>3
  <2> QED BY <2>1, <2>2, <2>3
(* It was active before, and driven by another one,                        *)
<1>4. ASSUME NEW v \in Users \ {u}, Drives(v, e)
      PROVE  Drives(v, e)'
  BY <1>4, OthersKept DEF Drives
(* or by this one.                                                         *)
<1>5. ASSUME Active(e), Drives(u, e)
      PROVE  e \in crashed' \cup cut' \/ Drives(u, e)'
  <2>1. /\ cmd[u].e = e /\ cmd[u].pc \in Driving
        /\ cmd[u].pc \in {"succeed", "fail", "cancel"} =>
             cmd[u].view \in {"started", "cancelling"}
        /\ status[e] \in {"started", "cancelling"}
    BY <1>0, <1>5, ProgramPoints
       DEF Drives, TypeOK, Active, IsActive, END_STATES, EXECUTION_STATES
  <2>2. CASE TaskStarted(u)
    <3>1. cmd'[u].pc = "operation" /\ cmd'[u].e = e
      BY <1>0, <2>1, <2>2, OperationCommand
    <3> QED BY <3>1 DEF Drives
  <2>3. CASE TaskSucceeded(u)
    BY <1>b, <2>1, <2>3, ProgramPoints DEF TaskSucceeded, Drives
  <2>4. CASE Fails(u) \/ AllTasksConsumed(u) \/ Cancelled(u)
    <3>1. \E pc \in {"fail", "succeed", "cancel"} : GotoSeeing(u, pc, status[e])
      BY <2>1, <2>4 DEF Fails, AllTasksConsumed, Cancelled, Leave
    <3>2. /\ cmd'[u].pc \in {"fail", "succeed", "cancel"} /\ cmd'[u].e = e
          /\ cmd'[u].view = status[e]
      BY <1>a, <2>1, <3>1, ProgramPoints DEF EXECUTION_STATES
    <3> QED BY <2>1, <3>2 DEF Drives
  <2>5. CASE Handles(u)
    BY <1>5, <2>5, HandlesCommand DEF Drives
  <2>6. CASE CancelRefused(u) \/ Crash(u)
    BY <1>5, <2>1, <2>6 DEF CancelRefused, Crash
  <2>7. ~WorkflowFailed(u) /\ ~WorkflowSucceeded(u) /\ ~WorkflowCancelled(u)
    <3>1. Loaded(u) \subseteq {"started", "cancelling"} \/ cmd[u].pc \in {"run", "operation"}
      BY <2>1, ProgramPoints DEF Loaded
    <3>2. ASSUME WorkflowFailed(u) PROVE FALSE
      <4>1. Loaded(u) \subseteq {"started", "cancelling"} /\ Loaded(u) # {}
        BY <3>1, <3>2 DEF WorkflowFailed, At, Loaded
      <4>2. Write(u, "failed")
        BY <1>d, <3>2, <4>1 DEF WorkflowFailed
      <4> QED BY <1>1, <1>c, <2>1, <4>2
    <3>3. ASSUME WorkflowSucceeded(u) PROVE FALSE
      <4>1. Loaded(u) \subseteq {"started", "cancelling"} /\ Loaded(u) # {}
        BY <3>1, <3>3 DEF WorkflowSucceeded, At, Loaded
      <4>2. Write(u, "succeeded")
        BY <1>d, <3>3, <4>1 DEF WorkflowSucceeded
      <4> QED BY <1>1, <1>c, <2>1, <4>2
    <3>4. ASSUME WorkflowCancelled(u) PROVE FALSE
      <4>1. Loaded(u) \subseteq {"started", "cancelling"} /\ Loaded(u) # {}
        BY <3>1, <3>4 DEF WorkflowCancelled, At, Loaded
      <4>2. Write(u, "cancelled")
        BY <3>4, <4>1 DEF WorkflowCancelled, END_STATES
      <4> QED BY <1>1, <1>c, <2>1, <4>2
    <3> QED BY <3>2, <3>3, <3>4
  <2>8. ~Vanished(u)
    BY <2>1 DEF Vanished, IInv, NoTraces
  <2>9. ~DeleteService(u) /\ ~DryRemoved(u)
    BY <1>1, <2>1, ProgramPoints DEF DeleteService, DryRemoved, At
  <2> QED
    BY <2>1, <2>2, <2>3, <2>4, <2>5, <2>6, <2>7, <2>8, <2>9, ProgramPoints
       DEF Step, Handles, StartCommand, PutExecution, Prepared, PrepareRaises,
           ResumeCommand, WorkflowResumed, WorkflowStarted, Exit, DeleteCommand, At
<1> QED BY <1>0, <1>2, <1>3, <1>4, <1>5 DEF ActiveHasEnd

-----------------------------------------------------------------------------
(* Every step keeps the invariant.                                         *)
LEMMA NextKeepsInvariant == IInv /\ [Next]_vars => IInv'
<1> SUFFICES ASSUME IInv, [Next]_vars PROVE IInv'
  OBVIOUS
<1>1. CASE UNCHANGED vars
  <2>1. UNCHANGED <<service, node, status, workflow, dry, prepared, done, cmd,
                    resource, loose, overlapped, crashed, cut>>
    BY <1>1 DEF vars, rows, history, outside
  <2>2. (TypeOK /\ RowsInUse /\ NoTraces)'
    BY <2>1 DEF IInv, TypeOK, RowsInUse, NoTraces
  <2>3. (DrivenIsPrepared /\ OperationsExist /\ LeftoversAreAvailable)'
    BY <2>1 DEF IInv, DrivenIsPrepared, OperationsExist, LeftoversAreAvailable, At
  <2>4. StartersAreAlone'
    BY <2>1 DEF IInv, StartersAreAlone, Started
  <2>5. ActiveHasEnd'
    BY <2>1 DEF IInv, ActiveHasEnd, Active, Drives
  <2> QED BY <2>2, <2>3, <2>4, <2>5 DEF IInv
<1>2. ASSUME NEW u \in Users, Step(u) PROVE IInv'
  BY <1>2, TypeCorrectNext, RowsInUseNext, NoTracesNext, DrivenIsPreparedNext,
     OperationsExistNext, LeftoversNext, StartersAreAloneNext, ActiveHasEndNext DEF IInv
<1> QED BY <1>1, <1>2 DEF Next

(* The inductive invariant holds of every sequence of commands.            *)
THEOREM Invariance == Spec => []IInv
  BY InitInvariant, NextKeepsInvariant, PTL DEF Spec

(* Every variable keeps its type in every reachable state.                 *)
THEOREM TypeCorrect == Spec => []TypeOK
  BY Invariance, PTL DEF IInv

(* The engine only drives executions whose task graph was put completely,  *)
(* whoever cancels, resumes or deletes them meanwhile.                     *)
THEOREM DrivenWhole == Spec => []RunsWhole
<1>1. IInv => RunsWhole
  BY ProgramPoints DEF IInv, DrivenIsPrepared, RunsWhole
<1> QED BY <1>1, Invariance, PTL

(* An execution that bars its service's next one has an engine that will   *)
(* write its end, or its process was killed, or a Ctrl+C came when its     *)
(* engine had ended or was refused by the validator.                       *)
THEOREM ActiveAreDriven == Spec => []ActiveIsDriven
<1>1. IInv => ActiveIsDriven
  BY ProgramPoints DEF IInv, ActiveHasEnd, Drives, ActiveIsDriven
<1> QED BY <1>1, Invariance, PTL

(* As long as a create operation may have left something, the node says    *)
(* that it is available, so that the service is not deleted by mistake,    *)
(* unless a delete operation succeeded while a create was under way.       *)
THEOREM LeftoversStayAvailable == Spec => []LeftoversAreAvailable
  BY Invariance, PTL DEF IInv
=============================================================================
