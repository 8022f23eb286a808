------------------------------ MODULE TaskGraph ------------------------------
(***************************************************************************)
(* The task graphs that workflow functions build                           *)
(* (workflows/api/task_graph.py): tasks, and the pairs <<t, u>> where t    *)
(* depends on u.  A task, a sequence of tasks and a parallel are handled   *)
(* alike by the code, which iterates over them: here all are sets.         *)
(***************************************************************************)
EXTENDS Naturals, Sequences

EmptyGraph == [tasks |-> {}, deps |-> {}]

AddTasks(g, ts) == [g EXCEPT !.tasks = @ \cup ts]

RemoveTasks(g, ts) ==
  [tasks |-> g.tasks \ ts,
   deps  |-> {d \in g.deps : d[1] \notin ts /\ d[2] \notin ts}]

HasDependency(g, dependents, dependencies) ==
  /\ dependents # {} /\ dependencies # {}
  /\ dependents \X dependencies \subseteq g.deps

(* Tasks that are not in the graph raise TaskNotInGraphError: no caller of *)
(* the built-in workflows passes one.                                      *)
AddDependency(g, dependents, dependencies) ==
  [g EXCEPT !.deps = @ \cup dependents \X dependencies]

RemoveDependency(g, dependents, dependencies) ==
  IF HasDependency(g, dependents, dependencies)
    THEN [g EXCEPT !.deps = @ \ dependents \X dependencies]
    ELSE g

(* sequence: _filter_out_empty_tasks drops the items that are empty, and   *)
(* each of the others depends on the one before it.                        *)
Sequence(g, items) ==
  LET consecutive == {p \in (DOMAIN items) \X (DOMAIN items) :
                        /\ p[1] < p[2]
                        /\ \A k \in DOMAIN items : p[1] < k /\ k < p[2] => items[k] = {}}
  IN  [tasks |-> g.tasks \cup (UNION {items[i] : i \in DOMAIN items}),
       deps  |-> g.deps \cup (UNION {items[p[2]] \X items[p[1]] : p \in consecutive})]

Dependencies(g, t) == {u \in g.tasks : <<t, u>> \in g.deps}

(* topological_sort raises on a cycle: tasks of which none can come first. *)
HasCycle(g) ==
  \E ts \in SUBSET g.tasks :
    ts # {} /\ \A t \in ts : Dependencies(g, t) \cap ts # {}
=============================================================================
