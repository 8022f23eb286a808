--------------------------- MODULE ProcessExecutor ---------------------------
(***************************************************************************)
(* The sub-process executor (workflows/executor/process.py): the thread    *)
(* that hands tasks to it, terminates them and closes it; one child        *)
(* process per attempt; and the listener thread, which accepts one         *)
(* connection at a time, moves the task row and answers.  A child waits    *)
(* for the answer to each of its messages, and messages name the task,     *)
(* not the attempt.                                                        *)
(***************************************************************************)
EXTENDS Naturals, Sequences

CONSTANTS
  Tasks,
  MaxAttempts,   \* attempts of a task
  Faults         \* what may go wrong outside the code

ASSUME ProcessAssumption ==
  MaxAttempts \in Nat /\ Faults \subseteq {"die", "raise", "early"}

VARIABLES
  row,          \* task rows: status
  attempt,      \* children created for each task
  registered,   \* ProcessExecutor._tasks
  registering,  \* the task whose child exists and is not in _tasks yet
  child,        \* the child of the last attempt
  backlog,      \* connections the listener has not accepted
  open,         \* the server socket
  lpc, msg, answer,  \* the listener
  stopped,      \* _stopped
  caller,       \* the thread that uses the executor
  (* History. *)
  completed,    \* the attempt whose function returned
  unreported,   \* tasks whose last report did not reach the row
  terminated    \* tasks the caller terminated

listener == <<lpc, msg, answer>>
vars == <<row, attempt, registered, registering, child, backlog, open,
          listener, stopped, caller, completed, unreported, terminated>>

Requests == {"started", "succeeded", "failed"}
Closed   == [type |-> "closed"]
Message  == [type : Requests, task : Tasks, attempt : 1..MaxAttempts]

Alive    == {"booting", "starting", "body", "succeeding", "failing"}

TypeOK ==
  /\ row \in [Tasks -> {"pending", "retrying", "sent", "started", "success",
                        "failed"}]
  /\ attempt \in [Tasks -> 0..MaxAttempts]
  /\ registered \subseteq Tasks /\ registering \subseteq Tasks
  /\ child \in [Tasks -> {"none", "gone"} \cup Alive]
  /\ backlog \in Seq(Message \cup {Closed}) /\ open \in BOOLEAN
  /\ lpc \in {"check", "accept", "request", "write", "reply", "ended"}
  /\ msg \in Message \cup {Closed} /\ answer \in {"ok", "exception"}
  /\ stopped \in BOOLEAN
  /\ caller \in {"idle", "closing", "awaiting", "answered", "joining",
                 "closed"}
  /\ completed \in [Tasks -> 0..MaxAttempts]
  /\ unreported \subseteq Tasks /\ terminated \subseteq Tasks

Init ==
  /\ row = [t \in Tasks |-> "pending"]
  /\ attempt = [t \in Tasks |-> 0]
  /\ registered = {} /\ registering = {}
  /\ child = [t \in Tasks |-> "none"]
  /\ backlog = <<>> /\ open = TRUE
  /\ lpc = "check" /\ msg = Closed /\ answer = "ok"
  /\ stopped = FALSE /\ caller = "idle"
  /\ completed = [t \in Tasks |-> 0]
  /\ unreported = {} /\ terminated = {}

-----------------------------------------------------------------------------
(* The caller.                                                             *)

Execute_Resumed(t) ==
  /\ caller = "idle" /\ registering = {}
  /\ row[t] \in {"pending", "retrying"} \/ t \in terminated
  /\ attempt[t] < MaxAttempts
  /\ row' = [row EXCEPT ![t] = "sent"]
  /\ attempt' = [attempt EXCEPT ![t] = @ + 1]
  /\ child' = [child EXCEPT ![t] = "booting"]
  /\ registering' = {t}
  /\ UNCHANGED <<registered, backlog, open, listener, stopped, caller,
                 completed, unreported, terminated>>

(* _execute up to Popen, on a task whose row the engine has just marked    *)
(* sent.                                                                   *)
Execute(t) ==
  /\ caller = "idle" /\ registering = {}
  /\ row[t] \in {"pending", "retrying"} /\ attempt[t] < MaxAttempts
  /\ row' = [row EXCEPT ![t] = "sent"]
  /\ attempt' = [attempt EXCEPT ![t] = @ + 1]
  /\ child' = [child EXCEPT ![t] = "booting"]
  /\ registering' = {t}
  /\ UNCHANGED <<registered, backlog, open, listener, stopped, caller,
                 completed, unreported, terminated>>

(* The last statement of _execute. *)
Register(t) ==
  /\ t \in registering
  /\ registered' = registered \cup {t} /\ registering' = {}
  /\ UNCHANGED <<row, attempt, child, backlog, open, listener, stopped,
                 caller, completed, unreported, terminated>>

Kill(ts) == child' = [t \in Tasks |-> IF t \in ts THEN "gone" ELSE child[t]]

(* terminate: only a task that is still registered has its child killed. *)
Terminate(t) ==
  /\ caller = "idle" /\ registering = {} /\ t \in registered
  /\ registered' = registered \ {t}
  /\ Kill({t})
  /\ terminated' = terminated \cup {t}
  /\ UNCHANGED <<row, attempt, registering, backlog, open, listener, stopped,
                 caller, completed, unreported>>

(* close, up to the message that is to wake the listener. *)
Close ==
  /\ caller = "idle" /\ registering = {}
  /\ stopped' = TRUE /\ caller' = "closing"
  /\ UNCHANGED <<row, attempt, registered, registering, child, backlog, open,
                 listener, completed, unreported, terminated>>

SendClosed ==
  /\ caller = "closing" /\ caller' = "awaiting"
  /\ backlog' = Append(backlog, Closed)
  /\ UNCHANGED <<row, attempt, registered, registering, child, open,
                 listener, stopped, completed, unreported, terminated>>

(* Closing the server socket resets the connections nobody accepted: a     *)
(* child behind one cannot report that either, and ends.                   *)
CloseSocket ==
  /\ caller = "answered" /\ caller' = "joining"
  /\ open' = FALSE /\ backlog' = <<>>
  /\ Kill({t \in Tasks : \E i \in DOMAIN backlog :
                            /\ backlog[i] # Closed
                            /\ backlog[i].task = t
                            /\ backlog[i].attempt = attempt[t]})
  /\ UNCHANGED <<row, attempt, registered, registering, listener, stopped,
                 completed, unreported, terminated>>

(* close, once it has waited for the listener (at most a minute). *)
ToKill_Started == {t \in registered : row[t] = "started"}

ToKill == registered

TerminateAll ==
  /\ caller = "joining" /\ caller' = "closed"
  /\ registered' = {}
  /\ Kill(ToKill)
  /\ UNCHANGED <<row, attempt, registering, backlog, open, listener, stopped,
                 completed, unreported, terminated>>

-----------------------------------------------------------------------------
(* A child: _main.                                                         *)

(* A connection to the listener, which the child then waits on. *)
Send(t, type, next) ==
  IF open
    THEN /\ backlog' = Append(backlog, [type |-> type, task |-> t,
                                        attempt |-> attempt[t]])
         /\ child' = [child EXCEPT ![t] = next]
    ELSE /\ child' = [child EXCEPT ![t] = "gone"]
         /\ UNCHANGED backlog

Boot_Silent(t) ==
  /\ child[t] = "booting"
  /\ t \in registering => "early" \in Faults
  /\ \/ Send(t, "started", "starting")
     \/ child' = [child EXCEPT ![t] = "gone"] /\ UNCHANGED backlog
  /\ UNCHANGED <<row, attempt, registered, registering, open, listener,
                 stopped, caller, completed, unreported, terminated>>

(* A child takes far longer to start than its registration: it outruns it  *)
(* only as a fault.                                                        *)
Boot(t) ==
  /\ child[t] = "booting"
  /\ t \in registering => "early" \in Faults
  /\ Send(t, "started", "starting") \/ Send(t, "failed", "failing")
  /\ UNCHANGED <<row, attempt, registered, registering, open, listener,
                 stopped, caller, completed, unreported, terminated>>

FunctionReturns(t) ==
  /\ child[t] = "body"
  /\ completed' = [completed EXCEPT ![t] = attempt[t]]
  /\ Send(t, "succeeded", "succeeding")
  /\ UNCHANGED <<row, attempt, registered, registering, open, listener,
                 stopped, caller, unreported, terminated>>

FunctionRaises(t) ==
  /\ child[t] = "body"
  /\ Send(t, "failed", "failing")
  /\ UNCHANGED <<row, attempt, registered, registering, open, listener,
                 stopped, caller, completed, unreported, terminated>>

Die(t) ==
  /\ "die" \in Faults /\ child[t] \in Alive
  /\ Kill({t})
  /\ unreported' = unreported \cup {t}
  /\ UNCHANGED <<row, attempt, registered, registering, backlog, open,
                 listener, stopped, caller, completed, terminated>>

-----------------------------------------------------------------------------
(* The listener thread.                                                    *)

(* The condition of its loop. *)
Check ==
  /\ lpc = "check"
  /\ lpc' = IF stopped THEN "ended" ELSE "accept"
  /\ UNCHANGED <<row, attempt, registered, registering, child, backlog, open,
                 msg, answer, stopped, caller, completed, unreported,
                 terminated>>

Accept ==
  /\ lpc = "accept" /\ backlog # <<>>
  /\ msg' = Head(backlog) /\ backlog' = Tail(backlog)
  /\ lpc' = "request" /\ answer' = "ok"
  /\ UNCHANGED <<row, attempt, registered, registering, child, open, stopped,
                 caller, completed, unreported, terminated>>

(* The request handlers, up to the row. *)
RequestClosed ==
  /\ lpc = "request" /\ msg = Closed
  /\ lpc' = "reply"
  /\ UNCHANGED <<row, attempt, registered, registering, child, backlog, open,
                 msg, answer, stopped, caller, completed, unreported,
                 terminated>>

RequestStarted_Pop ==
  /\ lpc = "request" /\ msg.type = "started"
  /\ registered' = registered \ {msg.task}
  /\ IF msg.task \in registered
       THEN lpc' = "write" /\ UNCHANGED answer
       ELSE lpc' = "reply" /\ answer' = "exception"
  /\ UNCHANGED <<row, attempt, registering, child, backlog, open, msg, stopped,
                 caller, completed, unreported, terminated>>

RequestStarted ==
  /\ lpc = "request" /\ msg.type = "started"
  /\ IF msg.task \in registered
       THEN lpc' = "write" /\ UNCHANGED answer
       ELSE lpc' = "reply" /\ answer' = "exception"
  /\ UNCHANGED <<row, attempt, registered, registering, child, backlog, open,
                 msg, stopped, caller, completed, unreported, terminated>>

RequestEnded ==
  /\ lpc = "request" /\ msg.type \in {"succeeded", "failed"}
  /\ IF msg.task \in registered
       THEN /\ lpc' = "write" /\ registered' = registered \ {msg.task}
            /\ UNCHANGED unreported
       ELSE /\ lpc' = "reply" /\ UNCHANGED registered
            /\ unreported' = unreported \cup {msg.task}
  /\ UNCHANGED <<row, attempt, registering, child, backlog, open, msg, answer,
                 stopped, caller, completed, terminated>>

(* What the events handlers make of the report. *)
Written(type, n) ==
  CASE type = "started"   -> "started"
    [] type = "succeeded" -> "success"
    [] type = "failed"    -> IF n < MaxAttempts THEN "retrying" ELSE "failed"

Write ==
  /\ lpc = "write" /\ lpc' = "reply"
  /\ row' = [row EXCEPT ![msg.task] = Written(msg.type, attempt[msg.task])]
  /\ UNCHANGED <<attempt, registered, registering, child, backlog, open, msg,
                 answer, stopped, caller, completed, unreported, terminated>>

(* The handler raises: the storage refuses the update. *)
WriteRaises ==
  /\ "raise" \in Faults
  /\ lpc = "write" /\ lpc' = "reply" /\ answer' = "exception"
  /\ unreported' = IF msg.type = "started" THEN unreported
                   ELSE unreported \cup {msg.task}
  /\ UNCHANGED <<row, attempt, registered, registering, child, backlog, open,
                 msg, stopped, caller, completed, terminated>>

(* The answer reaches whoever waits on the connection; an exception is     *)
(* raised there, and a child reports it as its failure.                    *)
ReplyClosed ==
  /\ lpc = "reply" /\ msg = Closed
  /\ lpc' = "ended" /\ caller' = "answered"
  /\ UNCHANGED <<row, attempt, registered, registering, child, backlog, open,
                 msg, answer, stopped, completed, unreported, terminated>>

Waits(t) ==
  /\ msg.attempt = attempt[t]
  /\ <<msg.type, child[t]>> \in {<<"started", "starting">>,
                                 <<"succeeded", "succeeding">>,
                                 <<"failed", "failing">>}

Reply ==
  /\ lpc = "reply" /\ msg # Closed /\ lpc' = "check"
  /\ LET t == msg.task IN
     IF ~Waits(t)
       THEN UNCHANGED <<child, backlog>>
       ELSE IF answer = "exception" /\ msg.type # "failed"
              THEN Send(t, "failed", "failing")
              ELSE /\ child' = [child EXCEPT ![t] =
                        IF msg.type = "started" THEN "body" ELSE "gone"]
                   /\ UNCHANGED backlog
  /\ UNCHANGED <<row, attempt, registered, registering, open, msg, answer,
                 stopped, caller, completed, unreported, terminated>>

-----------------------------------------------------------------------------
Listen == \/ Check \/ Accept \/ RequestClosed \/ RequestStarted \/ RequestEnded
          \/ Write \/ WriteRaises \/ ReplyClosed \/ Reply

ChildStep(t) == Boot(t) \/ FunctionReturns(t) \/ FunctionRaises(t)

CloseStep == SendClosed \/ CloseSocket \/ TerminateAll

Next ==
  \/ \E t \in Tasks : \/ Execute(t) \/ Register(t) \/ Terminate(t)
                      \/ ChildStep(t) \/ Die(t)
  \/ Close \/ CloseStep \/ Listen

Spec == Init /\ [][Next]_vars

(* Threads that are not blocked run on, and functions return. *)
FairSpec ==
  /\ Spec
  /\ WF_vars(Listen) /\ WF_vars(CloseStep)
  /\ \A t \in Tasks : WF_vars(ChildStep(t)) /\ WF_vars(Register(t))

-----------------------------------------------------------------------------
(* A row says success only when the function of the task's last attempt    *)
(* has returned: no message of another attempt or task is taken for its    *)
(* own (_handle_task_succeeded_request).                                   *)
SuccessIsReal ==
  \A t \in Tasks : row[t] = "success" => completed[t] = attempt[t]

(* A child whose function runs, or may still come to run, is one terminate *)
(* can reach, and its row has not moved on: what the executor forgets has  *)
(* ended (_remove_task).                                                   *)
RunningIsReachable ==
  \A t \in Tasks :
    /\ child[t] = "body" => t \in registered /\ row[t] \in {"sent", "started"}
    /\ child[t] \in {"booting", "starting"} /\ caller = "idle" =>
         t \in registered \cup registering

(* When close has returned no function is running or can start (close).    *)
ClosedIsQuiet ==
  caller = "closed" =>
    \A t \in Tasks : child[t] \notin {"booting", "starting", "body"}

-----------------------------------------------------------------------------
(* The inductive invariant.                                                *)

(* The child that sent a message waits for its answer, unless it is gone.  *)
SenderWaits(m) ==
  /\ m.type = "started"   => child[m.task] \in {"gone", "starting"}
  /\ m.type = "succeeded" => child[m.task] \in {"gone", "succeeding"}
  /\ m.type = "failed"    => child[m.task] \in {"gone", "failing"}

(* A message that is not yet in the row is of the task's last attempt, on  *)
(* which the row has nothing final, and tells what has happened.           *)
Unwritten(m) ==
  /\ m.attempt = attempt[m.task] /\ row[m.task] \in {"sent", "started"}
  /\ SenderWaits(m)
  /\ m.type = "succeeded" => completed[m.task] = attempt[m.task]

(* The listener is at a child's message, and the child may still wait.     *)
AtMessage == lpc \in {"request", "write", "reply"} /\ msg # Closed

MessagesAreFresh ==
  /\ \A i \in DOMAIN backlog : backlog[i] # Closed => Unwritten(backlog[i])
  /\ lpc \in {"request", "write"} /\ msg # Closed => Unwritten(msg)
  /\ AtMessage => msg.attempt <= attempt[msg.task]
  /\ AtMessage /\ msg.attempt = attempt[msg.task] =>
       /\ SenderWaits(msg)
       /\ lpc = "reply" /\ answer = "exception" => row[msg.task] \in {"sent", "started"}

(* A child has one message on its way at most, and the caller one in all.  *)
MessagesAreSingle ==
  /\ \A i, j \in DOMAIN backlog : i # j =>
       /\ backlog[i] # Closed \/ backlog[j] # Closed
       /\ backlog[i] # Closed /\ backlog[j] # Closed =>
            backlog[i].task # backlog[j].task
  /\ AtMessage /\ msg.attempt = attempt[msg.task] =>
       \A i \in DOMAIN backlog : backlog[i] # Closed => backlog[i].task # msg.task

(* What the listener has found registered stays so until its child has the *)
(* answer, and what it has forgotten stays forgotten.                      *)
FoundIsRegistered ==
  /\ lpc \in {"request", "write"} => answer = "ok"
  /\ lpc = "write" => msg # Closed
  /\ lpc = "write" /\ msg.type # "started" =>
       msg.task \notin registered \cup registering
  /\ /\ lpc \in {"write", "reply"} /\ msg # Closed /\ msg.type = "started"
     /\ answer = "ok" /\ msg.attempt = attempt[msg.task]
     /\ child[msg.task] = "starting"
     => msg.task \in registered

(* A child that has not ended yet is registered, or about to be, and its   *)
(* row has nothing final; the others are not registered again.             *)
ChildRegistered(t) ==
  /\ child[t] \in {"booting", "starting", "body"} =>
       t \in registered \cup registering
  /\ child[t] = "body" => t \in registered
  /\ row[t] \notin {"sent", "started"} =>
       /\ t \notin registered \cup registering
       /\ child[t] \notin {"booting", "starting", "body"}
  /\ child[t] \in Alive => attempt[t] # 0
  /\ child[t] = "succeeding" => completed[t] = attempt[t]

ChildrenAreRegistered ==
  /\ registered \cap registering = {}
  /\ \A t, u \in registering : t = u
  /\ \A t \in Tasks : ChildRegistered(t)

(* close begins when nothing is being registered, its one message finds it *)
(* waiting, and it leaves nothing registered.                              *)
CloseIsSound ==
  /\ caller # "idle" => registering = {}
  /\ \/ \E i \in DOMAIN backlog : backlog[i] = Closed
     \/ lpc \in {"request", "reply"} /\ msg = Closed
     => caller = "awaiting"
  /\ lpc \in {"request", "reply"} /\ msg = Closed =>
       \A i \in DOMAIN backlog : backlog[i] # Closed
  /\ caller = "closed" => registered = {}

IInv ==
  /\ TypeOK
  /\ MessagesAreFresh /\ MessagesAreSingle /\ FoundIsRegistered
  /\ ChildrenAreRegistered /\ CloseIsSound /\ SuccessIsReal

-----------------------------------------------------------------------------
(* A task that is handed over is reported to its row, unless it is         *)
(* terminated, the executor is stopped, or the report cannot be given      *)
(* (_listener, _main).                                                     *)
Reported ==
  \A t \in Tasks : row[t] = "sent" ~>
    \/ row[t] \in {"success", "retrying", "failed"}
    \/ t \in terminated \cup unreported \/ stopped

(* close: "Listener thread may be blocked on "accept" call. This will wake *)
(* it up with an explicit "closed" message" - and close then returns.      *)
CloseReturns == caller = "closing" ~> caller = "closed"
=============================================================================
