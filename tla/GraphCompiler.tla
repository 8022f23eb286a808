---------------------------- MODULE GraphCompiler ----------------------------
(***************************************************************************)
(* From a workflow to the tasks of an execution: the workflow function     *)
(* builds task graphs (workflows/api/task_graph.py, workflows/builtin/),   *)
(* the compiler (workflows/core/graph_compiler.py) puts one row per task   *)
(* and two per graph, its start and end markers, in an order that is       *)
(* topological for each graph.  A row's dependencies are earlier rows.     *)
(***************************************************************************)
EXTENDS BuiltinWorkflows, SequencesExt

CONSTANTS
  Available,   \* for each graph of a custom workflow, tasks it may use
  Services,    \* services the built-in workflows are run on
  Workflows    \* the built-in workflows that are run

(* A task is in one graph: the function that creates a task adds it to the *)
(* graph it creates it for.                                                *)
ASSUME GraphsAssumption ==
  /\ Root \in DOMAIN Available
  /\ \A g \in DOMAIN Available :
       /\ Root \notin Available[g]
       /\ \A h \in DOMAIN Available : g # h => Available[g] \cap Available[h] = {}
  /\ Workflows \subseteq {"install", "uninstall", "start", "stop"}

(* Nodes have names, and every stored node lists its relationships.        *)
ASSUME ServicesAssumption ==
  \A s \in Services :
    /\ "" \notin Stored(s)
    /\ s.outbound \in [Stored(s) -> Seq(Stored(s))]

VARIABLES
  workflow,   \* "custom", or the built-in workflow
  service,    \* the service of a built-in workflow
  api,        \* the task graphs, by WorkflowTask
  pc,
  rows,       \* the tasks of the execution, in the order they are put
  stack       \* the calls of compile in progress

vars == <<workflow, service, api, pc, rows, stack>>

NoService == [nodes |-> {}, outbound |-> <<>>, missing |-> {}, others |-> {}]

IsWorkflow(t) == t \in DOMAIN api

Init ==
  /\ rows = <<>> /\ stack = <<>>
  /\ \/ /\ workflow = "custom" /\ service = NoService /\ pc = "building"
        /\ api = [g \in DOMAIN Available |-> EmptyGraph]
     \/ /\ workflow \in Workflows /\ service \in Services /\ pc = "built"
        /\ api = Builtin(workflow, service)

-----------------------------------------------------------------------------
(* The function of a custom workflow edits its graphs as it likes; the     *)
(* calls that raise TaskNotInGraphError change nothing.                    *)
Edit(g, graph) ==
  /\ api' = [api EXCEPT ![g] = graph]
  /\ UNCHANGED <<workflow, service, pc, rows, stack>>

AddTask(g) ==
  /\ pc = "building"
  /\ \E t \in Available[g] : Edit(g, AddTasks(api[g], {t}))

RemoveTask(g) ==
  /\ pc = "building"
  /\ \E t \in api[g].tasks : Edit(g, RemoveTasks(api[g], {t}))

Depend(g) ==
  /\ pc = "building"
  /\ \E t, u \in api[g].tasks : Edit(g, AddDependency(api[g], {t}, {u}))

Independ(g) ==
  /\ pc = "building"
  /\ \E t \in api[g].tasks, us \in SUBSET api[g].tasks :
       Edit(g, RemoveDependency(api[g], {t}, us))

FunctionReturns ==
  /\ pc = "building" /\ pc' = "built"
  /\ UNCHANGED <<workflow, service, api, rows, stack>>

-----------------------------------------------------------------------------
Put(task, mark, deps) ==
  rows' = Append(rows, [task |-> task, mark |-> mark, deps |-> deps])

(* The start marker, and then the topological order of the graph: none if  *)
(* it has a cycle.                                                         *)
Enter(g, deps, callers) ==
  /\ Put(g, "start", deps)
  /\ IF HasCycle(api[g])
       THEN pc' = "raised" /\ UNCHANGED stack
       ELSE /\ pc' = "compiling"
            /\ stack' = Append(callers, [graph |-> g, start |-> Len(rows) + 1,
                                         left  |-> api[g].tasks])

Compile ==
  /\ pc = "built"
  /\ Enter(Root, {}, <<>>)
  /\ UNCHANGED <<workflow, service, api>>

(* _get_tasks_from_dependencies, among all rows of the execution.          *)
RowsOf_Start(t) ==
  {i \in DOMAIN rows : /\ rows[i].task = t
                       /\ rows[i].mark \in {"start", "task"}}

RowsOf(t) ==
  {i \in DOMAIN rows : rows[i].task = t /\ rows[i].mark \in {"end", "task"}}

After(frame, t) ==
  LET found == UNION {RowsOf(u) : u \in Dependencies(api[frame.graph], t)}
  IN  IF found = {} THEN {frame.start} ELSE found

(* Whether t may be next in a reversed topological order.                  *)
IsNext(frame, t) ==
  t \in frame.left /\ Dependencies(api[frame.graph], t) \cap frame.left = {}

Top     == Last(stack)
Took(t) == [stack EXCEPT ![Len(stack)].left = @ \ {t}]

(* _create_operation_task and _create_stub_task.                           *)
CompileTask(t) ==
  /\ pc = "compiling" /\ stack # <<>> /\ IsNext(Top, t) /\ ~IsWorkflow(t)
  /\ Put(t, "task", After(Top, t))
  /\ stack' = Took(t)
  /\ UNCHANGED <<workflow, service, api, pc>>

CompileSubWorkflow(t) ==
  /\ pc = "compiling" /\ stack # <<>> /\ IsNext(Top, t) /\ IsWorkflow(t)
  /\ Enter(t, After(Top, t), Took(t))
  /\ UNCHANGED <<workflow, service, api>>

(* _get_non_dependent_tasks: of the whole execution, not of the graph.     *)
NonDependent_Last == {Len(rows)}

NonDependent == DOMAIN rows \ UNION {rows[i].deps : i \in DOMAIN rows}

CompileEnd ==
  /\ pc = "compiling" /\ stack # <<>> /\ Top.left = {}
  /\ Put(Top.graph, "end",
         IF NonDependent = {} THEN {Top.start} ELSE NonDependent)
  /\ stack' = Front(stack)
  /\ pc' = IF Len(stack) = 1 THEN "done" ELSE pc
  /\ UNCHANGED <<workflow, service, api>>

Step ==
  \/ Compile \/ CompileEnd
  \/ \E t \in (IF stack = <<>> THEN {} ELSE Top.left) :
       CompileTask(t) \/ CompileSubWorkflow(t)

Build ==
  \/ \E g \in DOMAIN Available :
       AddTask(g) \/ RemoveTask(g) \/ Depend(g) \/ Independ(g)
  \/ FunctionReturns

Next == Build \/ Step

Spec == Init /\ [][Next]_vars

-----------------------------------------------------------------------------
Marks == {"start", "task", "end"}

AllTasks == {Root} \cup (UNION {api[g].tasks : g \in DOMAIN api})

Row  == [task : AllTasks, mark : Marks, deps : SUBSET Nat]
Call == [graph : DOMAIN api, start : Nat, left : SUBSET AllTasks]

TypeOK ==
  /\ workflow \in Workflows \cup {"custom"}
  /\ service \in Services \cup {NoService}
  /\ pc \in {"building", "built", "compiling", "raised", "done"}
  /\ api \in [DOMAIN api -> [tasks : SUBSET AllTasks, deps : SUBSET (AllTasks \X AllTasks)]]
  /\ rows \in Seq(Row)
  /\ \A i \in DOMAIN rows : rows[i].deps \subseteq 1..(i - 1)
  /\ stack \in Seq(Call)

(* The rows that have ended before row i is handed to an executor.         *)
Preceding ==
  LET before[i \in DOMAIN rows] ==
        rows[i].deps \cup UNION {before[j] : j \in rows[i].deps}
  IN  before

RowOf(t, mark) ==
  CHOOSE i \in DOMAIN rows : rows[i].task = t /\ rows[i].mark = mark

(* The rows of a task: a sub-workflow is put from its start marker to its  *)
(* end marker with nothing else in between.                                *)
Span(t) ==
  IF IsWorkflow(t) THEN RowOf(t, "start")..RowOf(t, "end")
                   ELSE {RowOf(t, "task")}

Compiled == {g \in DOMAIN api : \E i \in DOMAIN rows : rows[i].task = g}

(* What the function asked for is what the engine gets: if a task depends  *)
(* on another, in whatever graph, all rows of the first come after all     *)
(* rows of the second (compile, _get_tasks_from_dependencies).             *)
OrderKept ==
  pc = "done" =>
    \A g \in Compiled : \A d \in api[g].deps :
      \A i \in Span(d[1]) : Span(d[2]) \subseteq Preceding[i]

(* The markers of a graph enclose it: nothing of it comes before its start *)
(* and its end comes after all of it.  For the workflow itself this means  *)
(* that its end marker is the last task to run (compile).                  *)
MarkersEnclose ==
  pc = "done" =>
    \A g \in Compiled :
      LET inside == Span(g) \ {RowOf(g, "start"), RowOf(g, "end")}
      IN  /\ \A i \in inside : RowOf(g, "start") \in Preceding[i]
          /\ Span(g) \ {RowOf(g, "end")} \subseteq Preceding[RowOf(g, "end")]

(* Row i, if the task exists, comes after row j, if that exists.           *)
Precedes(t, u) ==
  \A i, j \in DOMAIN rows :
    rows[i].task = t /\ rows[j].task = u => i \in Preceding[j]

(* A node is created, configured and started in that order, after every    *)
(* node it has a relationship to has been started; it is stopped and       *)
(* deleted before any of those is stopped (builtin/workflows.py).  The     *)
(* operations of a relationship come with its source node's.               *)
LifecycleOrder ==
  pc = "done" /\ workflow \in {"install", "uninstall"} =>
    \A n \in service.nodes :
      /\ Precedes(NodeTask(n, "create"), NodeTask(n, "configure"))
      /\ Precedes(NodeTask(n, "configure"), NodeTask(n, "start"))
      /\ Precedes(NodeTask(n, "stop"), NodeTask(n, "delete"))
      /\ \A m \in Targets(service, n) :
           /\ Precedes(NodeTask(m, "start"), NodeTask(n, "create"))
           /\ Precedes(NodeTask(n, "delete"), NodeTask(m, "stop"))
      /\ \A i \in DOMAIN service.outbound[n] :
           /\ Precedes(RelationshipTask(n, i, "pre_configure_target"),
                       NodeTask(n, "configure"))
           /\ Precedes(NodeTask(n, "configure"),
                       RelationshipTask(n, i, "post_configure_source"))
           /\ Precedes(RelationshipTask(n, i, "post_configure_target"),
                       NodeTask(n, "start"))
           /\ Precedes(NodeTask(n, "start"),
                       RelationshipTask(n, i, "add_source"))

-----------------------------------------------------------------------------
(* The inductive invariant.                                                *)

(* The graphs: a task depends on tasks of its own graph, and is in no      *)
(* other.                                                                  *)
GraphsAreApart ==
  /\ Root \in DOMAIN api
  /\ \A g \in DOMAIN api :
       /\ api[g].deps \subseteq api[g].tasks \X api[g].tasks
       /\ Root \notin api[g].tasks
       /\ \A h \in DOMAIN api : g # h => api[g].tasks \cap api[h].tasks = {}
  /\ pc = "building" => /\ DOMAIN api = DOMAIN Available
                        /\ \A g \in DOMAIN api : api[g].tasks \subseteq Available[g]

PhasesFit ==
  /\ pc \in {"building", "built"} => rows = <<>>
  /\ pc \in {"building", "built", "done"} => stack = <<>>
  /\ pc = "done" => \E i \in DOMAIN rows : rows[i].task = Root

(* The rows: a task has one, a graph one for each marker, after the start  *)
(* marker of the graph it is in.  A graph that has an end has a start.     *)
RowsAreOnce ==
  /\ \A i \in DOMAIN rows :
       rows[i].mark = "end" =>
         \E j \in DOMAIN rows : rows[j].task = rows[i].task /\ rows[j].mark = "start"
  /\ \A i \in DOMAIN rows : rows[i].mark = "task" <=> ~IsWorkflow(rows[i].task)
  /\ \A i, j \in DOMAIN rows :
       rows[i].task = rows[j].task /\ rows[i].mark = rows[j].mark => i = j

RowsAreInGraphs ==
  \A i \in DOMAIN rows :
    rows[i].task = Root \/
    \E g \in DOMAIN api, j \in 1..(i - 1) :
      rows[i].task \in api[g].tasks /\ rows[j].task = g /\ rows[j].mark = "start"

(* The calls: each has put its start marker and the tasks it took, of      *)
(* which only the graph that the next call compiles has not been ended.    *)
CallsFit ==
  /\ \A k \in DOMAIN stack :
       LET g == stack[k].graph
       IN  /\ stack[k].start \in DOMAIN rows
           /\ rows[stack[k].start].task = g /\ rows[stack[k].start].mark = "start"
           /\ RowsOf(g) = {}
           /\ stack[k].left \subseteq api[g].tasks
           /\ \A t \in stack[k].left, i \in DOMAIN rows : rows[i].task # t
           /\ \A t \in api[g].tasks \ stack[k].left :
                RowsOf(t) = {} => k < Len(stack) /\ stack[k + 1].graph = t
  /\ \A k, l \in DOMAIN stack : k < l => stack[k].start < stack[l].start

GraphsEnd ==
  /\ \A i \in DOMAIN rows :
       RowsOf(rows[i].task) = {} => \E k \in DOMAIN stack : stack[k].graph = rows[i].task
  /\ \A g \in DOMAIN api : RowsOf(g) # {} => \A t \in api[g].tasks : RowsOf(t) # {}

(* A task waits for what it depends on.                                    *)
RowsWait ==
  \A g \in DOMAIN api : \A d \in api[g].deps : \A i \in DOMAIN rows :
    rows[i].task = d[1] /\ rows[i].mark \in {"start", "task"} =>
      rows[i].deps \cap RowsOf(d[2]) # {}

(* What comes before a row: also all that comes before that; and every row *)
(* comes before a row that nothing depends on yet, if it is not such a row.*)
RowsPrecede ==
  /\ \A i \in DOMAIN rows : \A j \in Preceding[i] :
       j \in 1..(i - 1) /\ Preceding[j] \subseteq Preceding[i]
  /\ \A i \in DOMAIN rows : \E j \in NonDependent : i = j \/ i \in Preceding[j]

(* The start marker comes before all that follows it until its end marker, *)
(* and the end marker comes after everything.                              *)
MarkersPrecede ==
  /\ \A k \in DOMAIN stack : \A i \in (stack[k].start + 1)..Len(rows) :
       stack[k].start \in Preceding[i]
  /\ \A i \in DOMAIN rows : rows[i].mark = "end" => Preceding[i] = 1..(i - 1)
  /\ \A i, j \in DOMAIN rows :
       rows[i].mark = "start" /\ rows[j].mark = "end" /\ rows[i].task = rows[j].task =>
         i < j /\ \A k \in (i + 1)..j : i \in Preceding[k]

IInv ==
  /\ TypeOK
  /\ pc # "raised" =>
       /\ GraphsAreApart /\ PhasesFit /\ RowsAreOnce /\ RowsAreInGraphs /\ CallsFit
       /\ GraphsEnd /\ RowsWait /\ RowsPrecede /\ MarkersPrecede
=============================================================================
