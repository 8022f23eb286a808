-------------------------- MODULE BuiltinWorkflows --------------------------
(***************************************************************************)
(* The built-in workflows (workflows/builtin/): the task graphs they build *)
(* for a service.  A service is a record of                                *)
(*   nodes     its nodes,                                                  *)
(*   outbound  for each node, the targets of its relationships in order,   *)
(*   missing   tasks whose operation the actor does not have,              *)
(*   others    the nodes of other services in the same storage.            *)
(* Tasks are <<node, i, name>>: the operation of that name on a node (0)   *)
(* or on its i-th relationship, or the sub-workflow of a node.  A workflow *)
(* is a function from its sub-workflows and itself (Root) to their graphs. *)
(***************************************************************************)
EXTENDS TaskGraph

Root            == <<"", 0, "workflow">>
SubWorkflow(n)  == <<n, 0, "workflow">>
NodeTask(n, op) == <<n, 0, op>>
RelationshipTask(n, i, op) == <<n, i, op>>

(* create_task: nothing for an operation the actor does not have.          *)
Create(service, task) ==
  {task} \ service.missing

(* create_relationships_tasks: for each relationship, its source and its   *)
(* target operation side by side.                                          *)
Relationships(service, n, source, target) ==
  [i \in DOMAIN service.outbound[n] |->
     Create(service, RelationshipTask(n, i, source))
       \cup Create(service, RelationshipTask(n, i, target))]

StartTasks(service, n) ==
  <<Create(service, NodeTask(n, "start"))>>
    \o Relationships(service, n, "add_source", "add_target")

StopTasks(service, n) ==
  <<Create(service, NodeTask(n, "stop"))>>
    \o Relationships(service, n, "remove_source", "remove_target")

InstallNode(service, n) ==
  Sequence(EmptyGraph,
    <<Create(service, NodeTask(n, "create"))>>
      \o Relationships(service, n, "pre_configure_source",
                       "pre_configure_target")
      \o <<Create(service, NodeTask(n, "configure"))>>
      \o Relationships(service, n, "post_configure_source",
                       "post_configure_target")
      \o StartTasks(service, n))

UninstallNode(service, n) ==
  Sequence(EmptyGraph, StopTasks(service, n)
                         \o <<Create(service, NodeTask(n, "delete"))>>)

StartNode(service, n) == Sequence(EmptyGraph, StartTasks(service, n))
StopNode(service, n)  == Sequence(EmptyGraph, StopTasks(service, n))

-----------------------------------------------------------------------------
SubWorkflows(nodes) == {SubWorkflow(n) : n \in nodes}

Targets(service, n) ==
  {service.outbound[n][i] : i \in DOMAIN service.outbound[n]}

(* create_node_task_dependencies.                                          *)
Requirements_OneWay(service, reverse) ==
  {<<SubWorkflow(p[1]), SubWorkflow(p[2])>> :
     p \in {q \in service.nodes \X service.nodes :
              q[2] \in Targets(service, q[1])}}

Requirements(service, reverse) ==
  {IF reverse THEN <<SubWorkflow(p[2]), SubWorkflow(p[1])>>
              ELSE <<SubWorkflow(p[1]), SubWorkflow(p[2])>> :
     p \in {q \in service.nodes \X service.nodes :
              q[2] \in Targets(service, q[1])}}

Install(service) ==
  [t \in {Root} \cup SubWorkflows(service.nodes) |->
     IF t = Root
       THEN [tasks |-> SubWorkflows(service.nodes), deps |-> Requirements(service, FALSE)]
       ELSE InstallNode(service, t[1])]

Uninstall(service) ==
  [t \in {Root} \cup SubWorkflows(service.nodes) |->
     IF t = Root
       THEN [tasks |-> SubWorkflows(service.nodes), deps |-> Requirements(service, TRUE)]
       ELSE UninstallNode(service, t[1])]

(* start and stop: every node in the storage, and no dependencies.         *)
Stored(service) == service.nodes \cup service.others

Start(service) ==
  [t \in {Root} \cup SubWorkflows(Stored(service)) |->
     IF t = Root
       THEN AddTasks(EmptyGraph, SubWorkflows(Stored(service)))
       ELSE StartNode(service, t[1])]

Stop(service) ==
  [t \in {Root} \cup SubWorkflows(Stored(service)) |->
     IF t = Root
       THEN AddTasks(EmptyGraph, SubWorkflows(Stored(service)))
       ELSE StopNode(service, t[1])]

Builtin(workflow, service) ==
  CASE workflow = "install"   -> Install(service)
    [] workflow = "uninstall" -> Uninstall(service)
    [] workflow = "start"     -> Start(service)
    [] workflow = "stop"      -> Stop(service)
=============================================================================
