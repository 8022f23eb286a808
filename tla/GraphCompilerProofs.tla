------------------------- MODULE GraphCompilerProofs -------------------------
(***************************************************************************)
(* Proofs about the graph compiler: what a graph asked for is what the     *)
(* engine gets, whatever the graphs are.  The calls of compile are the     *)
(* induction: what comes before a row is a recursive function of the rows, *)
(* and each row that is put extends it.                                    *)
(***************************************************************************)
EXTENDS GraphCompiler, WellFoundedInduction, TLAPS

-----------------------------------------------------------------------------
(* What comes before each of some rows.                                    *)
Before(before, r, i) == r[i].deps \cup (UNION {before[j] : j \in r[i].deps})

Solves(before, r) == before = [i \in DOMAIN r |-> Before(before, r, i)]

PrecedingOf(r) == CHOOSE before : Solves(before, r)

HasOneSolution(r) ==
  /\ \E before : Solves(before, r)
  /\ \A f, g : Solves(f, r) /\ Solves(g, r) => f = g

(* What comes before a row is a function of the rows alone.                *)
LEMMA PrecedingIsOfRows == Preceding = PrecedingOf(rows)
BY DEF Preceding, PrecedingOf, Solves, Before

(* The recursive equation has one solution for no rows,                    *)
LEMMA NoRowsHaveOne == HasOneSolution(<<>>)
<1>1. \A f : Solves(f, <<>>) <=> f = [i \in {} |-> i]
  BY DEF Solves
<1> QED BY <1>1 DEF HasOneSolution

(* A row that depends on earlier rows extends what is before the others.   *)
LEMMA AppendedExtends ==
  ASSUME NEW S, NEW r \in Seq(S), NEW row, row.deps \subseteq 1..Len(r),
         \A i \in DOMAIN r : r[i].deps \subseteq 1..(i - 1),
         NEW before, Solves(before, r)
  PROVE  Solves([i \in 1..(Len(r) + 1) |->
                   IF i = Len(r) + 1 THEN row.deps \cup (UNION {before[j] : j \in row.deps})
                                     ELSE before[i]],
                Append(r, row))
<1> DEFINE n == Len(r)
           R == Append(r, row)
           f == [i \in 1..(n + 1) |->
                   IF i = n + 1 THEN row.deps \cup (UNION {before[j] : j \in row.deps})
                                ELSE before[i]]
<1>1. /\ n \in Nat /\ DOMAIN r = 1..n /\ DOMAIN R = 1..(n + 1) /\ R[n + 1] = row
      /\ \A i \in 1..n : R[i] = r[i]
  OBVIOUS
<1>2. ASSUME NEW i \in 1..(n + 1)
      PROVE  f[i] = Before(f, R, i)
  <2>1. CASE i = n + 1
    <3>1. \A j \in row.deps : f[j] = before[j]
      BY <1>1
    <3>2. f[i] = row.deps \cup (UNION {before[j] : j \in row.deps})
      BY <2>1, <1>1
    <3>3. R[i] = row
      BY <2>1, <1>1
    <3> HIDE DEF f, R
    <3> QED BY <3>1, <3>2, <3>3 DEF Before
  <2>2. CASE i # n + 1
    <3>1. i \in 1..n /\ R[i] = r[i] /\ r[i].deps \subseteq 1..(i - 1)
      BY <2>2, <1>1
    <3>2. \A j \in r[i].deps : f[j] = before[j]
      BY <3>1, <1>1
    <3>3. f[i] = before[i]
      BY <3>1, <1>1
    <3>4. before[i] = Before(before, r, i)
      BY <3>1, <1>1 DEF Solves
    <3> HIDE DEF f, R
    <3> QED BY <3>1, <3>2, <3>3, <3>4 DEF Before
  <2> QED BY <2>1, <2>2
<1> HIDE DEF R, n
<1>3. f = [i \in DOMAIN R |-> Before(f, R, i)]
  BY <1>1, <1>2
<1> QED BY <1>3 DEF Solves, R, n

(* and for one row more, whose solution extends the former one.            *)
LEMMA AppendedHasOne ==
  ASSUME NEW S, NEW r \in Seq(S), NEW row, row.deps \subseteq 1..Len(r),
         \A i \in DOMAIN r : r[i].deps \subseteq 1..(i - 1),
         HasOneSolution(r)
  PROVE  /\ HasOneSolution(Append(r, row))
         /\ \A i \in 1..Len(r) : PrecedingOf(Append(r, row))[i] = PrecedingOf(r)[i]
         /\ PrecedingOf(Append(r, row))[Len(r) + 1]
              = row.deps \cup (UNION {PrecedingOf(r)[j] : j \in row.deps})
<1> DEFINE n == Len(r)
           R == Append(r, row)
           Grown(before) ==
             [i \in 1..(n + 1) |->
                IF i = n + 1 THEN row.deps \cup (UNION {before[j] : j \in row.deps})
                             ELSE before[i]]
<1>1. /\ n \in Nat /\ DOMAIN r = 1..n /\ DOMAIN R = 1..(n + 1) /\ R[n + 1] = row
      /\ \A i \in 1..n : R[i] = r[i]
  OBVIOUS
<1>2. Solves(PrecedingOf(r), r)
  BY DEF HasOneSolution, PrecedingOf
<1>3. Solves(Grown(PrecedingOf(r)), R)
  BY <1>2, AppendedExtends
<1>4. ASSUME NEW f, Solves(f, R)
      PROVE  f = Grown(PrecedingOf(r))
  <2> DEFINE g == [i \in 1..n |-> f[i]]
  <2> HIDE DEF R
  <2>1. f = [i \in 1..(n + 1) |-> Before(f, R, i)]
    BY <1>4, <1>1 DEF Solves
  <2>2. ASSUME NEW i \in 1..n
        PROVE  g[i] = Before(g, r, i)
    <3>1. f[i] = Before(f, R, i)
      BY <2>1, <1>1
    <3>2. R[i] = r[i] /\ r[i].deps \subseteq 1..(i - 1)
      BY <1>1
    <3>3. \A j \in r[i].deps : g[j] = f[j]
      BY <3>2, <1>1
    <3>4. g[i] = f[i]
      OBVIOUS
    <3> HIDE DEF g
    <3> QED BY <3>1, <3>2, <3>3, <3>4 DEF Before
  <2>3. Solves(g, r)
    <3>1. g = [i \in 1..n |-> Before(g, r, i)]
      BY <2>2
    <3> HIDE DEF g
    <3> QED BY <3>1, <1>1 DEF Solves
  <2>4. g = PrecedingOf(r)
    BY <2>3, <1>2 DEF HasOneSolution
  <2>5. \A i \in 1..n : f[i] = PrecedingOf(r)[i]
    BY <2>4
  <2>6. f[n + 1] = row.deps \cup (UNION {PrecedingOf(r)[j] : j \in row.deps})
    <3>1. f[n + 1] = Before(f, R, n + 1)
      BY <2>1, <1>1
    <3>2. \A j \in row.deps : f[j] = PrecedingOf(r)[j]
      BY <2>5
    <3> QED BY <3>1, <3>2, <1>1 DEF Before
  <2> HIDE DEF n, g
  <2>7. ASSUME NEW i \in 1..(n + 1)
        PROVE  f[i] = Grown(PrecedingOf(r))[i]
    <3>1. CASE i = n + 1
      BY <3>1, <2>6
    <3>2. CASE i # n + 1
      <4>1. i \in 1..n
        BY <3>2, <1>1
      <4> QED BY <4>1, <3>2, <2>5
    <3> QED BY <3>1, <3>2
  <2>8. f = [i \in 1..(n + 1) |-> f[i]]
    BY <2>1
  <2> QED BY <2>7, <2>8
<1> HIDE DEF R, Grown
<1>5. HasOneSolution(R) /\ PrecedingOf(R) = Grown(PrecedingOf(r))
  <2>1. HasOneSolution(R)
    BY <1>3, <1>4 DEF HasOneSolution
  <2>2. Solves(PrecedingOf(R), R)
    BY <1>3 DEF PrecedingOf
  <2> QED BY <2>1, <2>2, <1>4
<1> QED BY <1>5, <1>1 DEF R, Grown

-----------------------------------------------------------------------------
(* The graphs of the built-in workflows.                                   *)
Operations ==
  {"create", "configure", "start", "stop", "delete", "pre_configure_source",
   "pre_configure_target", "post_configure_source", "post_configure_target", "add_source",
   "add_target", "remove_source", "remove_target"}

(* The tasks that the sub-workflow of a node may have.                     *)
Own(s, n) == ({n} \X Nat \X Operations) \ s.missing

Within(graph, tasks) == graph.tasks \subseteq tasks /\ graph.deps \subseteq graph.tasks \X graph.tasks

(* The tasks of a node carry its name, and none is a sub-workflow.         *)
LEMMA OwnTasks ==
  ASSUME NEW s, NEW n, NEW t \in Own(s, n)
  PROVE  t = <<n, t[2], t[3]>> /\ t[3] # "workflow"
<1>1. t \in {n} \X Nat \X Operations
  BY DEF Own
<1>2. t[3] # "workflow"
  BY <1>1 DEF Operations
<1>3. t[1] = n /\ t = <<t[1], t[2], t[3]>>
  BY <1>1
<1> QED BY <1>2, <1>3

IsGraph(graph) == graph = [tasks |-> graph.tasks, deps |-> graph.deps]

(* A sequence of tasks makes a graph of these tasks, with dependencies     *)
(* among them.                                                             *)
LEMMA SequenceIsWithin ==
  ASSUME NEW T, NEW items \in Seq(SUBSET T)
  PROVE  LET graph == Sequence(EmptyGraph, items) IN Within(graph, T) /\ IsGraph(graph)
<1> DEFINE graph == Sequence(EmptyGraph, items)
           pairs == {p \in (DOMAIN items) \X (DOMAIN items) :
                       /\ p[1] < p[2]
                       /\ \A k \in DOMAIN items : p[1] < k /\ k < p[2] => items[k] = {}}
           deps == UNION {items[p[2]] \X items[p[1]] : p \in pairs}
           tasks == UNION {items[i] : i \in DOMAIN items}
<1>1. graph = [tasks |-> {} \cup tasks, deps |-> {} \cup deps]
  BY DEF Sequence, EmptyGraph
<1>2. tasks \subseteq T
  OBVIOUS
<1>3. deps \subseteq tasks \X tasks
  <2>1. ASSUME NEW d \in deps
        PROVE  d \in tasks \X tasks
    <3>1. PICK p \in pairs : d \in items[p[2]] \X items[p[1]]
      OBVIOUS
    <3>2. p[1] \in DOMAIN items /\ p[2] \in DOMAIN items
      OBVIOUS
    <3>3. items[p[2]] \subseteq tasks /\ items[p[1]] \subseteq tasks
      BY <3>2
    <3> QED BY <3>1, <3>3
  <2> QED BY <2>1
<1> HIDE DEF tasks, deps, graph
<1>4. graph.tasks = tasks /\ graph.deps = deps
  BY <1>1
<1> QED BY <1>1, <1>2, <1>3, <1>4 DEF Within, IsGraph, graph

(* The tasks made for a node, and for its relationships, are the node's    *)
(* own.                                                                    *)
LEMMA NodeTasksAreOwn ==
  ASSUME NEW s \in Services, NEW n \in Stored(s)
  PROVE  /\ \A op \in Operations : Create(s, NodeTask(n, op)) \in SUBSET Own(s, n)
         /\ \A source, target \in Operations :
              Relationships(s, n, source, target) \in Seq(SUBSET Own(s, n))
<1>1. ASSUME NEW op \in Operations
      PROVE  Create(s, NodeTask(n, op)) \in SUBSET Own(s, n)
  <2>1. <<n, 0, op>> \in {n} \X Nat \X Operations
    OBVIOUS
  <2> QED BY <2>1 DEF Create, NodeTask, Own
<1>2. ASSUME NEW source \in Operations, NEW target \in Operations
      PROVE  Relationships(s, n, source, target) \in Seq(SUBSET Own(s, n))
  <2> DEFINE out == s.outbound[n]
             made(i) == Create(s, RelationshipTask(n, i, source))
                          \cup Create(s, RelationshipTask(n, i, target))
  <2>1. out \in Seq(Stored(s))
    BY ServicesAssumption
  <2>2. ASSUME NEW i \in 1..Len(out)
        PROVE  made(i) \in SUBSET Own(s, n)
    <3>1. i \in Nat
      OBVIOUS
    <3> DEFINE all == {n} \X Nat \X Operations
    <3>2. <<n, i, source>> \in all /\ <<n, i, target>> \in all
      BY <3>1
    <3>3. made(i) = {<<n, i, source>>, <<n, i, target>>} \ s.missing
      BY DEF Create, RelationshipTask
    <3>4. Own(s, n) = all \ s.missing
      BY DEF Own
    <3> HIDE DEF all, made
    <3> QED BY <3>2, <3>3, <3>4
  <2>3. Len(out) \in Nat /\ DOMAIN out = 1..Len(out)
    BY <2>1
  <2>4. Relationships(s, n, source, target) = [i \in 1..Len(out) |-> made(i)]
    BY <2>3 DEF Relationships
  <2> HIDE DEF out, made
  <2> QED BY <2>2, <2>3, <2>4
<1> QED BY <1>1, <1>2

(* So are those of the graph of each node.                                 *)
LEMMA NodeGraphsAreOwn ==
  ASSUME NEW s \in Services, NEW n \in Stored(s),
         NEW graph \in {InstallNode(s, n), UninstallNode(s, n), StartNode(s, n), StopNode(s, n)}
  PROVE  Within(graph, Own(s, n)) /\ IsGraph(graph)
<1> DEFINE S == SUBSET Own(s, n)
           one(op) == <<Create(s, NodeTask(n, op))>>
           each(source, target) == Relationships(s, n, source, target)
<1>1. ASSUME NEW op \in Operations
      PROVE  one(op) \in Seq(S)
  <2>1. Create(s, NodeTask(n, op)) \in S
    BY NodeTasksAreOwn
  <2> HIDE DEF S
  <2> QED BY <2>1
<1>2. \A source, target \in Operations : each(source, target) \in Seq(S)
  BY NodeTasksAreOwn
<1> HIDE DEF S, one, each
<1>3. \A a, b \in Seq(S) : a \o b \in Seq(S)
  OBVIOUS
<1>4. StartTasks(s, n) \in Seq(S)
  <2>1. StartTasks(s, n) = one("start") \o each("add_source", "add_target")
    BY DEF StartTasks, one, each
  <2>2. {"start", "add_source", "add_target"} \subseteq Operations
    BY DEF Operations
  <2> QED BY <1>1, <1>2, <1>3, <2>1, <2>2
<1>5. StopTasks(s, n) \in Seq(S)
  <2>1. StopTasks(s, n) = one("stop") \o each("remove_source", "remove_target")
    BY DEF StopTasks, one, each
  <2>2. {"stop", "remove_source", "remove_target"} \subseteq Operations
    BY DEF Operations
  <2> QED BY <1>1, <1>2, <1>3, <2>1, <2>2
<1>6. \E items \in Seq(S) : graph = Sequence(EmptyGraph, items)
  <2>1. CASE graph = InstallNode(s, n)
    <3> DEFINE i1 == each("pre_configure_source", "pre_configure_target")
               i2 == each("post_configure_source", "post_configure_target")
    <3>1. graph = Sequence(EmptyGraph,
                           one("create") \o i1 \o one("configure") \o i2 \o StartTasks(s, n))
      BY <2>1 DEF InstallNode, one, each
    <3>2. {"create", "configure", "pre_configure_source", "pre_configure_target",
           "post_configure_source", "post_configure_target"} \subseteq Operations
      BY DEF Operations
    <3>3. one("create") \in Seq(S) /\ one("configure") \in Seq(S) /\ i1 \in Seq(S) /\ i2 \in Seq(S)
      BY <1>1, <1>2, <3>2
    <3> HIDE DEF i1, i2
    <3>4. one("create") \o i1 \in Seq(S)
      BY <1>3, <3>3
    <3>5. one("create") \o i1 \o one("configure") \in Seq(S)
      BY <1>3, <3>3, <3>4
    <3>6. one("create") \o i1 \o one("configure") \o i2 \in Seq(S)
      BY <1>3, <3>3, <3>5
    <3>7. one("create") \o i1 \o one("configure") \o i2 \o StartTasks(s, n) \in Seq(S)
      BY <1>3, <1>4, <3>6
    <3> QED BY <3>1, <3>7
  <2>2. CASE graph = UninstallNode(s, n)
    <3>1. graph = Sequence(EmptyGraph, StopTasks(s, n) \o one("delete"))
      BY <2>2 DEF UninstallNode, one
    <3>2. StopTasks(s, n) \o one("delete") \in Seq(S)
      BY <1>1, <1>3, <1>5 DEF Operations
    <3> QED BY <3>1, <3>2
  <2>3. CASE graph = StartNode(s, n)
    BY <2>3, <1>4 DEF StartNode
  <2>4. CASE graph = StopNode(s, n)
    BY <2>4, <1>5 DEF StopNode
  <2> QED BY <2>1, <2>2, <2>3, <2>4
<1>7. PICK items \in Seq(SUBSET Own(s, n)) : graph = Sequence(EmptyGraph, items)
  BY <1>6 DEF S
<1> QED BY <1>7, SequenceIsWithin

Rooted(nodes, deps) == [tasks |-> SubWorkflows(nodes), deps |-> deps]

(* The graph of a workflow has the sub-workflows of its nodes.             *)
LEMMA RootedIsWithin ==
  ASSUME NEW nodes, NEW deps, deps \subseteq SubWorkflows(nodes) \X SubWorkflows(nodes)
  PROVE  Within(Rooted(nodes, deps), SubWorkflows(nodes)) /\ IsGraph(Rooted(nodes, deps))
BY DEF Within, IsGraph, Rooted

(* A workflow: the sub-workflows of some nodes, each with tasks of its own. *)
LEMMA BuiltinsAreApart ==
  ASSUME NEW w \in Workflows, NEW s \in Services
  PROVE  LET graphs == Builtin(w, s)
         IN  /\ graphs = [g \in DOMAIN graphs |-> graphs[g]]
             /\ Root \in DOMAIN graphs
             /\ \A g \in DOMAIN graphs :
                  /\ IsGraph(graphs[g])
                  /\ graphs[g].deps \subseteq graphs[g].tasks \X graphs[g].tasks
                  /\ Root \notin graphs[g].tasks
                  /\ \A h \in DOMAIN graphs : g # h => graphs[g].tasks \cap graphs[h].tasks = {}
<1> DEFINE graphs == Builtin(w, s)
<1>1. \E nodes \in SUBSET Stored(s) :
        /\ graphs = [g \in {Root} \cup SubWorkflows(nodes) |-> graphs[g]]
        /\ Within(graphs[Root], SubWorkflows(nodes)) /\ IsGraph(graphs[Root])
        /\ \A t \in SubWorkflows(nodes) :
             t # Root =>
               graphs[t] \in {InstallNode(s, t[1]), UninstallNode(s, t[1]), StartNode(s, t[1]),
                             StopNode(s, t[1])}
  <2>1. \A reverse : Requirements(s, reverse) \subseteq SubWorkflows(s.nodes) \X SubWorkflows(s.nodes)
    BY DEF Requirements, SubWorkflows
  <2>2. s.nodes \subseteq Stored(s)
    BY DEF Stored
  <2>3. CASE w = "install"
    <3>1. graphs = Install(s)
      BY <2>3 DEF Builtin
    <3>2. graphs[Root] = Rooted(s.nodes, Requirements(s, FALSE))
      BY <3>1 DEF Install, Rooted
    <3>3. Within(graphs[Root], SubWorkflows(s.nodes)) /\ IsGraph(graphs[Root])
      BY <2>1, <3>2, RootedIsWithin
    <3>4. graphs = [g \in {Root} \cup SubWorkflows(s.nodes) |-> graphs[g]]
      BY <3>1 DEF Install
    <3>5. \A t \in SubWorkflows(s.nodes) : t # Root => graphs[t] = InstallNode(s, t[1])
      BY <3>1 DEF Install
    <3> HIDE DEF graphs
    <3> QED BY <2>2, <3>3, <3>4, <3>5
  <2>4. CASE w = "uninstall"
    <3>1. graphs = Uninstall(s)
      BY <2>4 DEF Builtin
    <3>2. graphs[Root] = Rooted(s.nodes, Requirements(s, TRUE))
      BY <3>1 DEF Uninstall, Rooted
    <3>3. Within(graphs[Root], SubWorkflows(s.nodes)) /\ IsGraph(graphs[Root])
      BY <2>1, <3>2, RootedIsWithin
    <3>4. graphs = [g \in {Root} \cup SubWorkflows(s.nodes) |-> graphs[g]]
      BY <3>1 DEF Uninstall
    <3>5. \A t \in SubWorkflows(s.nodes) : t # Root => graphs[t] = UninstallNode(s, t[1])
      BY <3>1 DEF Uninstall
    <3> HIDE DEF graphs
    <3> QED BY <2>2, <3>3, <3>4, <3>5
  <2> DEFINE bare == AddTasks(EmptyGraph, SubWorkflows(Stored(s)))
  <2>5. Within(bare, SubWorkflows(Stored(s))) /\ IsGraph(bare)
    BY DEF Within, IsGraph, AddTasks, EmptyGraph
  <2> HIDE DEF bare
  <2>6. CASE w = "start"
    <3>1. graphs = [t \in {Root} \cup SubWorkflows(Stored(s)) |->
                      IF t = Root THEN bare ELSE StartNode(s, t[1])]
      BY <2>6 DEF Builtin, Start, bare
    <3> HIDE DEF graphs
    <3> QED BY <2>5, <3>1
  <2>7. CASE w = "stop"
    <3>1. graphs = [t \in {Root} \cup SubWorkflows(Stored(s)) |->
                      IF t = Root THEN bare ELSE StopNode(s, t[1])]
      BY <2>7 DEF Builtin, Stop, bare
    <3> HIDE DEF graphs
    <3> QED BY <2>5, <3>1
  <2> QED BY <2>3, <2>4, <2>6, <2>7, GraphsAssumption
<1> HIDE DEF graphs
<1>2. PICK nodes \in SUBSET Stored(s) :
        /\ graphs = [g \in {Root} \cup SubWorkflows(nodes) |-> graphs[g]]
        /\ Within(graphs[Root], SubWorkflows(nodes)) /\ IsGraph(graphs[Root])
        /\ \A t \in SubWorkflows(nodes) :
             t # Root =>
               graphs[t] \in {InstallNode(s, t[1]), UninstallNode(s, t[1]), StartNode(s, t[1]),
                             StopNode(s, t[1])}
  BY <1>1
<1>3. Root \notin SubWorkflows(nodes)
  BY ServicesAssumption DEF Root, SubWorkflows, SubWorkflow
<1>4. ASSUME NEW g \in SubWorkflows(nodes)
      PROVE  \E n \in nodes : g = SubWorkflow(n) /\ Within(graphs[g], Own(s, n)) /\ IsGraph(graphs[g])
  <2>1. PICK n \in nodes : g = SubWorkflow(n)
    BY DEF SubWorkflows
  <2>2. g[1] = n /\ n \in Stored(s) /\ g # Root
    BY <2>1, <1>3 DEF SubWorkflow
  <2> QED BY <2>1, <2>2, <1>2, NodeGraphsAreOwn
<1>5. ASSUME NEW n \in nodes
      PROVE  Root \notin Own(s, n) /\ Own(s, n) \cap SubWorkflows(nodes) = {}
  <2>1. ASSUME NEW t \in Own(s, n)
        PROVE  t # Root /\ t \notin SubWorkflows(nodes)
    <3>1. t = <<n, t[2], t[3]>> /\ t[3] # "workflow"
      BY OwnTasks
    <3>2. Root[3] = "workflow"
      BY DEF Root
    <3>3. \A m \in nodes : SubWorkflow(m)[3] = "workflow"
      BY DEF SubWorkflow
    <3> QED BY <3>1, <3>2, <3>3 DEF SubWorkflows
  <2> QED BY <2>1
<1>6. \A n, m \in nodes : n # m => Own(s, n) \cap Own(s, m) = {}
  BY OwnTasks
<1>7. DOMAIN graphs = {Root} \cup SubWorkflows(nodes)
  BY <1>2
<1>8. ASSUME NEW g \in DOMAIN graphs
      PROVE  /\ IsGraph(graphs[g])
             /\ graphs[g].deps \subseteq graphs[g].tasks \X graphs[g].tasks
             /\ Root \notin graphs[g].tasks
             /\ \A h \in DOMAIN graphs : g # h => graphs[g].tasks \cap graphs[h].tasks = {}
  <2>1. CASE g = Root
    <3>1. \A h \in DOMAIN graphs : g # h => graphs[g].tasks \cap graphs[h].tasks = {}
      BY <2>1, <1>2, <1>4, <1>5, <1>7 DEF Within
    <3> QED BY <2>1, <3>1, <1>2, <1>3 DEF Within
  <2>2. CASE g # Root
    <3>1. PICK n \in nodes : g = SubWorkflow(n) /\ Within(graphs[g], Own(s, n)) /\ IsGraph(graphs[g])
      BY <2>2, <1>4, <1>7
    <3>2. ASSUME NEW h \in DOMAIN graphs, g # h
          PROVE  graphs[g].tasks \cap graphs[h].tasks = {}
      <4>1. CASE h = Root
        BY <4>1, <3>1, <1>2, <1>5 DEF Within
      <4>2. CASE h # Root
        <5>1. PICK m \in nodes : h = SubWorkflow(m) /\ Within(graphs[h], Own(s, m))
          BY <4>2, <1>4, <1>7
        <5>2. n # m
          BY <3>1, <3>2, <5>1
        <5> QED BY <3>1, <5>1, <5>2, <1>6 DEF Within
      <4> QED BY <4>1, <4>2
    <3> QED BY <3>1, <3>2, <1>5 DEF Within
  <2> QED BY <2>1, <2>2
<1> QED BY <1>2, <1>7, <1>8 DEF graphs

-----------------------------------------------------------------------------
(* Until the workflow function has returned, there are no rows.            *)
Inv == IInv /\ (pc # "raised" => HasOneSolution(rows))

AreGraphs(graphs) ==
  /\ graphs = [g \in DOMAIN graphs |-> graphs[g]]
  /\ Root \in DOMAIN graphs
  /\ \A g \in DOMAIN graphs :
       /\ IsGraph(graphs[g])
       /\ graphs[g].deps \subseteq graphs[g].tasks \X graphs[g].tasks
       /\ Root \notin graphs[g].tasks
       /\ \A h \in DOMAIN graphs : g # h => graphs[g].tasks \cap graphs[h].tasks = {}

IsFresh ==
  /\ rows = <<>> /\ stack = <<>> /\ pc \in {"building", "built"}
  /\ workflow \in Workflows \cup {"custom"} /\ service \in Services \cup {NoService}
  /\ AreGraphs(api)
  /\ pc = "building" => /\ DOMAIN api = DOMAIN Available
                        /\ \A g \in DOMAIN api : api[g].tasks \subseteq Available[g]

(* Graphs over some tasks have the type the variable is given.             *)
LEMMA GraphsAreTyped ==
  ASSUME NEW graphs, AreGraphs(graphs), NEW T,
         \A g \in DOMAIN graphs : graphs[g].tasks \subseteq T
  PROVE  graphs \in [DOMAIN graphs -> [tasks : SUBSET T, deps : SUBSET (T \X T)]]
<1>1. ASSUME NEW g \in DOMAIN graphs
      PROVE  graphs[g] \in [tasks : SUBSET T, deps : SUBSET (T \X T)]
  <2>1. graphs[g].tasks \in SUBSET T /\ graphs[g].deps \in SUBSET (T \X T)
    <3>1. graphs[g].tasks \X graphs[g].tasks \subseteq T \X T
      OBVIOUS
    <3> QED BY <3>1 DEF AreGraphs
  <2>2. graphs[g] = [tasks |-> graphs[g].tasks, deps |-> graphs[g].deps]
    BY DEF AreGraphs, IsGraph
  <2> QED BY <2>1, <2>2
<1> QED BY <1>1 DEF AreGraphs

(* The invariant holds of a compiler that has not begun,                   *)
LEMMA FreshIsInv == IsFresh => Inv
<1> SUFFICES ASSUME IsFresh PROVE Inv
  OBVIOUS
<1>1. rows = <<>> /\ stack = <<>> /\ DOMAIN rows = {} /\ DOMAIN stack = {} /\ Len(rows) = 0
  BY DEF IsFresh
<1>2. TypeOK
  <2>1. \A g \in DOMAIN api : api[g].tasks \subseteq AllTasks
    BY DEF AllTasks
  <2>2. api \in [DOMAIN api -> [tasks : SUBSET AllTasks, deps : SUBSET (AllTasks \X AllTasks)]]
    BY <2>1, GraphsAreTyped DEF IsFresh
  <2>3. rows \in Seq(Row) /\ stack \in Seq(Call)
    BY <1>1
  <2> QED BY <1>1, <2>2, <2>3 DEF TypeOK, IsFresh
<1>3. GraphsAreApart
  BY DEF GraphsAreApart, IsFresh, AreGraphs
<1>4. PhasesFit
  BY DEF PhasesFit, IsFresh
<1>5. \A t : RowsOf(t) = {}
  BY <1>1 DEF RowsOf
<1>6. RowsAreOnce /\ RowsAreInGraphs /\ CallsFit /\ GraphsEnd /\ RowsWait
  BY <1>1, <1>5 DEF RowsAreOnce, RowsAreInGraphs, CallsFit, GraphsEnd, RowsWait
<1>7. RowsPrecede /\ MarkersPrecede
  BY <1>1 DEF RowsPrecede, MarkersPrecede
<1>8. HasOneSolution(rows)
  BY <1>1, NoRowsHaveOne
<1> QED BY <1>2, <1>3, <1>4, <1>6, <1>7, <1>8 DEF Inv, IInv

(* hence at the start,                                                     *)
LEMMA InitIsInv == Init => Inv
<1> SUFFICES ASSUME Init PROVE IsFresh
  BY FreshIsInv
<1>1. CASE workflow = "custom" /\ service = NoService /\ pc = "building"
             /\ api = [g \in DOMAIN Available |-> EmptyGraph]
  <2>1. DOMAIN api = DOMAIN Available /\ \A g \in DOMAIN api : api[g] = EmptyGraph
    BY <1>1
  <2>2. AreGraphs(api)
    BY <1>1, <2>1, GraphsAssumption DEF AreGraphs, IsGraph, EmptyGraph
  <2>3. \A g \in DOMAIN api : api[g].tasks \subseteq Available[g]
    BY <2>1 DEF EmptyGraph
  <2> QED BY <1>1, <2>1, <2>2, <2>3 DEF IsFresh, Init
<1>2. CASE workflow \in Workflows /\ service \in Services /\ pc = "built"
             /\ api = Builtin(workflow, service)
  <2>1. AreGraphs(Builtin(workflow, service))
    BY <1>2, BuiltinsAreApart DEF AreGraphs
  <2> QED BY <1>2, <2>1 DEF IsFresh, Init
<1> QED BY <1>1, <1>2 DEF Init

(* and until it begins says no more than that.                             *)
LEMMA InvIsFresh == Inv /\ pc \in {"building", "built"} => IsFresh
<1> SUFFICES ASSUME Inv, pc \in {"building", "built"} PROVE IsFresh
  OBVIOUS
<1>1. TypeOK /\ GraphsAreApart /\ PhasesFit
  BY DEF Inv, IInv
<1>2. AreGraphs(api)
  <2>1. api = [g \in DOMAIN api |-> api[g]]
    BY <1>1 DEF TypeOK
  <2>2. \A g \in DOMAIN api : IsGraph(api[g])
    BY <1>1 DEF TypeOK, IsGraph
  <2> QED BY <1>1, <2>1, <2>2 DEF GraphsAreApart, AreGraphs
<1> QED BY <1>1, <1>2 DEF GraphsAreApart, PhasesFit, TypeOK, IsFresh

(* A graph of which one field is replaced.                                 *)
LEMMA ChangedGraphs ==
  ASSUME NEW graph, IsGraph(graph), NEW x
  PROVE  /\ [graph EXCEPT !.tasks = x] = [tasks |-> x, deps |-> graph.deps]
         /\ [graph EXCEPT !.deps = x] = [tasks |-> graph.tasks, deps |-> x]
<1>1. PICK tasks, deps : graph = [tasks |-> tasks, deps |-> deps]
  BY DEF IsGraph
<1> QED BY <1>1

(* An edit of a graph keeps to tasks that the graph may use.               *)
LEMMA EditsAreFresh ==
  ASSUME IsFresh, pc = "building", NEW g \in DOMAIN Available, NEW graph, Edit(g, graph),
         IsGraph(graph), graph.tasks \subseteq Available[g],
         graph.deps \subseteq graph.tasks \X graph.tasks
  PROVE  IsFresh'
<1>1. /\ api' = [api EXCEPT ![g] = graph]
      /\ UNCHANGED <<workflow, service, pc, rows, stack>>
  BY DEF Edit
<1>2. DOMAIN api' = DOMAIN Available /\ DOMAIN api = DOMAIN Available
  BY <1>1 DEF IsFresh
<1>3. api'[g] = graph /\ \A h \in DOMAIN Available : h # g => api'[h] = api[h]
  BY <1>1, <1>2
<1>4. \A h \in DOMAIN Available : api'[h].tasks \subseteq Available[h]
  BY <1>2, <1>3 DEF IsFresh
<1>5. AreGraphs(api')
  <2>1. api' = [h \in DOMAIN api' |-> api'[h]]
    BY <1>1
  <2>2. ASSUME NEW h \in DOMAIN api'
        PROVE  /\ IsGraph(api'[h])
               /\ api'[h].deps \subseteq api'[h].tasks \X api'[h].tasks
               /\ Root \notin api'[h].tasks
               /\ \A k \in DOMAIN api' : h # k => api'[h].tasks \cap api'[k].tasks = {}
    <3>1. IsGraph(api'[h]) /\ api'[h].deps \subseteq api'[h].tasks \X api'[h].tasks
      BY <1>2, <1>3 DEF IsFresh, AreGraphs
    <3>2. Root \notin api'[h].tasks
      BY <1>2, <1>4, GraphsAssumption
    <3>3. \A k \in DOMAIN api' : h # k => api'[h].tasks \cap api'[k].tasks = {}
      BY <1>2, <1>4, GraphsAssumption
    <3> QED BY <3>1, <3>2, <3>3
  <2> QED BY <2>1, <2>2, <1>2, GraphsAssumption DEF AreGraphs
<1> QED BY <1>1, <1>2, <1>4, <1>5 DEF IsFresh

(* Building a workflow keeps the invariant.                                *)
LEMMA BuildKeepsInv == Inv /\ Build => Inv'
<1> SUFFICES ASSUME Inv, Build PROVE IsFresh'
  BY FreshIsInv, PTL
<1>1. pc = "building"
  BY DEF Build, AddTask, RemoveTask, Depend, Independ, FunctionReturns
<1>2. IsFresh
  BY <1>1, InvIsFresh
<1>3. \A g \in DOMAIN Available :
        /\ IsGraph(api[g]) /\ api[g].tasks \subseteq Available[g]
        /\ api[g].deps \subseteq api[g].tasks \X api[g].tasks
  BY <1>1, <1>2 DEF IsFresh, AreGraphs
<1>4. CASE FunctionReturns
  BY <1>2, <1>4 DEF FunctionReturns, IsFresh
<1>5. ASSUME NEW g \in DOMAIN Available, AddTask(g)
      PROVE  IsFresh'
  <2>1. PICK t \in Available[g] : Edit(g, AddTasks(api[g], {t}))
    BY <1>5 DEF AddTask
  <2>2. AddTasks(api[g], {t}) = [tasks |-> api[g].tasks \cup {t}, deps |-> api[g].deps]
    BY <1>3, ChangedGraphs DEF AddTasks
  <2> QED BY <1>1, <1>2, <1>3, <2>1, <2>2, EditsAreFresh DEF IsGraph
<1>6. ASSUME NEW g \in DOMAIN Available, RemoveTask(g)
      PROVE  IsFresh'
  <2>1. PICK t \in api[g].tasks : Edit(g, RemoveTasks(api[g], {t}))
    BY <1>6 DEF RemoveTask
  <2> DEFINE graph == RemoveTasks(api[g], {t})
  <2>2. graph = [tasks |-> api[g].tasks \ {t},
                 deps  |-> {d \in api[g].deps : d[1] \notin {t} /\ d[2] \notin {t}}]
    BY DEF RemoveTasks
  <2> HIDE DEF graph
  <2>3. graph.tasks = api[g].tasks \ {t} /\ IsGraph(graph)
    BY <2>2 DEF IsGraph
  <2>4. graph.deps \subseteq graph.tasks \X graph.tasks
    BY <1>3, <2>2, <2>3
  <2> QED BY <1>1, <1>2, <1>3, <2>1, <2>3, <2>4, EditsAreFresh DEF graph
<1>7. ASSUME NEW g \in DOMAIN Available, Depend(g)
      PROVE  IsFresh'
  <2>1. PICK t \in api[g].tasks, u \in api[g].tasks : Edit(g, AddDependency(api[g], {t}, {u}))
    BY <1>7 DEF Depend
  <2> DEFINE graph == AddDependency(api[g], {t}, {u})
  <2>2. graph = [tasks |-> api[g].tasks, deps |-> api[g].deps \cup {t} \X {u}]
    BY <1>3, ChangedGraphs DEF AddDependency
  <2> HIDE DEF graph
  <2>3. graph.tasks = api[g].tasks /\ IsGraph(graph)
    BY <2>2 DEF IsGraph
  <2>4. graph.deps \subseteq graph.tasks \X graph.tasks
    BY <1>3, <2>2, <2>3
  <2> QED BY <1>1, <1>2, <1>3, <2>1, <2>3, <2>4, EditsAreFresh DEF graph
<1>8. ASSUME NEW g \in DOMAIN Available, Independ(g)
      PROVE  IsFresh'
  <2>1. PICK t \in api[g].tasks, us \in SUBSET api[g].tasks :
               Edit(g, RemoveDependency(api[g], {t}, us))
    BY <1>8 DEF Independ
  <2> DEFINE graph == RemoveDependency(api[g], {t}, us)
  <2>2. graph = api[g] \/ graph = [tasks |-> api[g].tasks, deps |-> api[g].deps \ {t} \X us]
    BY <1>3, ChangedGraphs DEF RemoveDependency
  <2> HIDE DEF graph
  <2>3. graph.tasks = api[g].tasks /\ IsGraph(graph) /\ graph.deps \subseteq api[g].deps
    <3>1. CASE graph = api[g]
      BY <1>3, <3>1
    <3>2. CASE graph = [tasks |-> api[g].tasks, deps |-> api[g].deps \ {t} \X us]
      BY <3>2 DEF IsGraph
    <3> QED BY <2>2, <3>1, <3>2
  <2> QED BY <1>1, <1>2, <1>3, <2>1, <2>3, EditsAreFresh DEF graph
<1> QED BY <1>4, <1>5, <1>6, <1>7, <1>8 DEF Build

-----------------------------------------------------------------------------
(* A row that is put comes after the rows it depends on and all that is    *)
(* before those, and changes nothing of what is before the others.         *)
LEMMA PutExtends ==
  ASSUME Inv, pc # "raised", NEW t \in AllTasks, NEW mark \in Marks,
         NEW deps \in SUBSET DOMAIN rows, Put(t, mark, deps), UNCHANGED api
  PROVE  /\ Len(rows) \in Nat /\ DOMAIN rows = 1..Len(rows)
         /\ DOMAIN rows' = 1..(Len(rows) + 1) /\ Len(rows') = Len(rows) + 1
         /\ \A i \in 1..Len(rows) : rows'[i] = rows[i]
         /\ rows'[Len(rows) + 1].task = t /\ rows'[Len(rows) + 1].mark = mark
         /\ rows'[Len(rows) + 1].deps = deps
         /\ rows' \in Seq(Row')
         /\ \A i \in 1..(Len(rows) + 1) : rows'[i].deps \subseteq 1..(i - 1)
         /\ HasOneSolution(rows')
         /\ \A i \in 1..Len(rows) : Preceding'[i] = Preceding[i]
         /\ Preceding'[Len(rows) + 1] = deps \cup (UNION {Preceding[j] : j \in deps})
<1> DEFINE n == Len(rows)
           row == [task |-> t, mark |-> mark, deps |-> deps]
<1>1. /\ rows \in Seq(Row) /\ \A i \in DOMAIN rows : rows[i].deps \subseteq 1..(i - 1)
      /\ HasOneSolution(rows)
  BY DEF Inv, IInv, TypeOK
<1>2. rows' = Append(rows, row)
  BY DEF Put
<1>3. Row' = Row
  BY DEF Row, AllTasks
<1>4. n \in Nat /\ DOMAIN rows = 1..n
  BY <1>1
<1>5. row \in Row /\ row.task = t /\ row.mark = mark /\ row.deps = deps
  <2>1. deps \in SUBSET Nat
    BY <1>4
  <2> QED BY <2>1 DEF Row
<1> HIDE DEF row
<1>6. /\ DOMAIN rows' = 1..(n + 1) /\ Len(rows') = n + 1 /\ rows'[n + 1] = row
      /\ \A i \in 1..n : rows'[i] = rows[i]
      /\ rows' \in Seq(Row)
  BY <1>1, <1>2, <1>5
<1>7. \A i \in 1..(n + 1) : rows'[i].deps \subseteq 1..(i - 1)
  <2>1. ASSUME NEW i \in 1..(n + 1)
        PROVE  rows'[i].deps \subseteq 1..(i - 1)
    <3>1. CASE i = n + 1
      BY <3>1, <1>4, <1>5, <1>6
    <3>2. CASE i # n + 1
      BY <3>2, <1>1, <1>4, <1>6
    <3> QED BY <3>1, <3>2
  <2> QED BY <2>1
<1>8. /\ HasOneSolution(rows')
      /\ \A i \in 1..n : PrecedingOf(rows')[i] = PrecedingOf(rows)[i]
      /\ PrecedingOf(rows')[n + 1] = deps \cup (UNION {PrecedingOf(rows)[j] : j \in deps})
  BY <1>1, <1>2, <1>4, <1>5, AppendedHasOne
<1>9. Preceding = PrecedingOf(rows) /\ Preceding' = PrecedingOf(rows')
  BY PrecedingIsOfRows DEF Preceding, PrecedingOf, Solves, Before
<1> QED BY <1>3, <1>4, <1>5, <1>6, <1>7, <1>8, <1>9

RowsIn(r, u) == {i \in DOMAIN r : r[i].task = u /\ r[i].mark \in {"end", "task"}}

(* Putting a row of one task and mark leaves the rows by which other tasks *)
(* are found as they are.                                                  *)
LEMMA PutKeepsRowsOf ==
  ASSUME Inv, pc # "raised", NEW t \in AllTasks, NEW mark \in Marks,
         NEW deps \in SUBSET DOMAIN rows, Put(t, mark, deps), UNCHANGED api
  PROVE  /\ \A u : RowsOf(u) \subseteq RowsIn(rows', u)
         /\ \A u : u # t \/ mark = "start" => RowsIn(rows', u) = RowsOf(u)
         /\ mark # "start" => Len(rows) + 1 \in RowsIn(rows', t)
<1> DEFINE n == Len(rows)
<1>1. /\ n \in Nat /\ DOMAIN rows = 1..n /\ DOMAIN rows' = 1..(n + 1)
      /\ \A i \in 1..n : rows'[i] = rows[i]
      /\ rows'[n + 1].task = t /\ rows'[n + 1].mark = mark
  BY PutExtends
<1> HIDE DEF n
<1>2. mark # "start" <=> mark \in {"end", "task"}
  BY DEF Marks
<1>3. ASSUME NEW u
      PROVE  RowsIn(rows', u) = RowsOf(u) \cup (IF u = t /\ mark # "start" THEN {n + 1} ELSE {})
  BY <1>1, <1>2 DEF RowsOf, RowsIn
<1>4. mark # "start" => n + 1 \in RowsIn(rows', t)
  BY <1>3
<1>5. \A u : u # t \/ mark = "start" => RowsIn(rows', u) = RowsOf(u)
  BY <1>3
<1> QED BY <1>3, <1>4, <1>5 DEF n

(* Whatever row is put, what comes before a row does so with all that      *)
(* comes before it, and each row is one that nothing depends on yet, or    *)
(* comes before one.                                                       *)
LEMMA PutKeepsRowsPrecede ==
  ASSUME Inv, pc # "raised", NEW t \in AllTasks, NEW mark \in Marks,
         NEW deps \in SUBSET DOMAIN rows, Put(t, mark, deps), UNCHANGED api
  PROVE  RowsPrecede'
<1> DEFINE n == Len(rows)
<1>1. /\ n \in Nat /\ DOMAIN rows = 1..n /\ DOMAIN rows' = 1..(n + 1)
      /\ \A i \in 1..n : rows'[i] = rows[i]
      /\ rows'[n + 1].deps = deps
      /\ \A i \in 1..(n + 1) : rows'[i].deps \subseteq 1..(i - 1)
      /\ \A i \in 1..n : Preceding'[i] = Preceding[i]
      /\ Preceding'[n + 1] = deps \cup (UNION {Preceding[j] : j \in deps})
  BY PutExtends
<1> HIDE DEF n
<1>2. /\ \A i \in 1..n : \A j \in Preceding[i] : j \in 1..(i - 1) /\ Preceding[j] \subseteq Preceding[i]
      /\ \A i \in 1..n : \E j \in NonDependent : i = j \/ i \in Preceding[j]
  BY <1>1 DEF Inv, IInv, RowsPrecede
<1>3. ASSUME NEW i \in 1..(n + 1), NEW j \in Preceding'[i]
      PROVE  j \in 1..(i - 1) /\ Preceding'[j] \subseteq Preceding'[i]
  <2>1. CASE i = n + 1
    <3>1. CASE j \in deps
      <4>1. j \in 1..n
        BY <3>1, <1>1
      <4>2. Preceding'[j] = Preceding[j] /\ Preceding[j] \subseteq Preceding'[n + 1]
        BY <4>1, <3>1, <1>1
      <4> QED BY <4>1, <4>2, <2>1, <1>1
    <3>2. CASE j \notin deps
      <4>1. PICK d \in deps : j \in Preceding[d]
        BY <3>2, <2>1, <1>1
      <4>2. d \in 1..n /\ j \in 1..(d - 1) /\ Preceding[j] \subseteq Preceding[d]
        BY <4>1, <1>1, <1>2
      <4>3. j \in 1..n
        BY <4>2, <1>1
      <4>4. Preceding'[j] = Preceding[j] /\ Preceding[d] \subseteq Preceding'[n + 1]
        BY <4>1, <4>3, <1>1
      <4> QED BY <4>2, <4>3, <4>4, <2>1, <1>1
    <3> QED BY <3>1, <3>2
  <2>2. CASE i # n + 1
    <3>1. i \in 1..n
      BY <2>2, <1>1
    <3>2. j \in Preceding[i]
      BY <3>1, <1>1
    <3>3. j \in 1..(i - 1) /\ Preceding[j] \subseteq Preceding[i] /\ j \in 1..n
      BY <3>1, <3>2, <1>1, <1>2
    <3> QED BY <3>1, <3>3, <1>1
  <2> QED BY <2>1, <2>2
<1>4. /\ n + 1 \in NonDependent'
      /\ \A j \in NonDependent : j \in deps \/ j \in NonDependent'
  <2>1. NonDependent' = 1..(n + 1) \ UNION {rows'[i].deps : i \in 1..(n + 1)}
    BY <1>1 DEF NonDependent
  <2>2. NonDependent = 1..n \ UNION {rows[i].deps : i \in 1..n}
    BY <1>1 DEF NonDependent
  <2>3. \A i \in 1..(n + 1) : n + 1 \notin rows'[i].deps
    BY <1>1
  <2>4. ASSUME NEW j \in NonDependent, j \notin deps
        PROVE  j \in NonDependent'
    <3>1. j \in 1..(n + 1)
      BY <2>2, <1>1
    <3>2. ASSUME NEW i \in 1..(n + 1)
          PROVE  j \notin rows'[i].deps
      <4>1. CASE i = n + 1
        BY <4>1, <2>4, <1>1
      <4>2. CASE i # n + 1
        <5>1. i \in 1..n
          BY <4>2, <1>1
        <5> QED BY <5>1, <2>2, <1>1
      <4> QED BY <4>1, <4>2
    <3> QED BY <3>1, <3>2, <2>1
  <2>5. n + 1 \in 1..(n + 1)
    BY <1>1
  <2> QED BY <2>1, <2>3, <2>4, <2>5
<1>5. ASSUME NEW i \in 1..(n + 1)
      PROVE  \E j \in NonDependent' : i = j \/ i \in Preceding'[j]
  <2>1. CASE i = n + 1
    BY <2>1, <1>4
  <2>2. CASE i # n + 1
    <3>1. i \in 1..n
      BY <2>2, <1>1
    <3>2. PICK j \in NonDependent : i = j \/ i \in Preceding[j]
      BY <3>1, <1>2
    <3>3. j \in 1..n
      BY <1>1 DEF NonDependent
    <3>4. CASE j \in deps
      <4>1. i \in Preceding'[n + 1]
        BY <3>2, <3>4, <1>1
      <4> QED BY <4>1, <1>4
    <3>5. CASE j \notin deps
      BY <3>2, <3>3, <3>5, <1>1, <1>4
    <3> QED BY <3>4, <3>5
  <2> QED BY <2>1, <2>2
<1> QED BY <1>1, <1>3, <1>5 DEF RowsPrecede

-----------------------------------------------------------------------------
(* The call in progress, and the row of the task it takes next.            *)
LEMMA CallInProgress ==
  ASSUME Inv, pc = "compiling", stack # <<>>
  PROVE  /\ Len(stack) \in Nat /\ Len(stack) \in DOMAIN stack /\ DOMAIN stack = 1..Len(stack)
         /\ Top = stack[Len(stack)] /\ Top.start \in DOMAIN rows
         /\ Top.graph \in DOMAIN api /\ Top.left \subseteq api[Top.graph].tasks
         /\ rows[Top.start].task = Top.graph /\ rows[Top.start].mark = "start"
         /\ RowsOf(Top.graph) = {}
         /\ \A t \in Top.left, i \in DOMAIN rows : rows[i].task # t
         /\ \A t \in api[Top.graph].tasks \ Top.left : RowsOf(t) # {}
         /\ \A k \in DOMAIN stack : /\ stack[k].start \in DOMAIN rows
                                    /\ k = Len(stack) \/ stack[k].start < Top.start
<1>1. stack \in Seq(Call) /\ CallsFit
  BY DEF Inv, IInv, TypeOK
<1>2. /\ Len(stack) \in Nat /\ Len(stack) \in DOMAIN stack /\ DOMAIN stack = 1..Len(stack)
      /\ Top = stack[Len(stack)] /\ Top \in Call
  BY <1>1 DEF Top, Last
<1>3. Top.graph \in DOMAIN api
  BY <1>2 DEF Call
<1>4. \A k \in DOMAIN stack : k = Len(stack) \/ k < Len(stack)
  BY <1>2
<1>5. ~ (Len(stack) < Len(stack))
  BY <1>2
<1> QED BY <1>1, <1>2, <1>3, <1>4, <1>5 DEF CallsFit

(* The calls in progress are about different graphs, with different tasks. *)
LEMMA GraphsOfCalls ==
  ASSUME Inv, pc = "compiling", stack # <<>>
  PROVE  \A k \in DOMAIN stack :
           k # Len(stack) =>
             /\ stack[k].graph \in DOMAIN api /\ stack[k].graph # Top.graph
             /\ api[stack[k].graph].tasks \cap api[Top.graph].tasks = {}
<1>1. ASSUME NEW k \in DOMAIN stack, k # Len(stack)
      PROVE  stack[k].graph \in DOMAIN api /\ stack[k].graph # Top.graph
  <2>1. stack[k].graph \in DOMAIN api
    <3>1. stack \in Seq(Call)
      BY DEF Inv, IInv, TypeOK
    <3>2. stack[k] \in Call
      BY <3>1
    <3> QED BY <3>2 DEF Call
  <2>2. stack[k].start \in DOMAIN rows /\ stack[k].start < Top.start /\ Top.start \in DOMAIN rows
    BY <1>1, CallInProgress
  <2>3. stack[k].start # Top.start
    BY <2>2 DEF Inv, IInv, TypeOK
  <2>4. rows[stack[k].start].task = stack[k].graph /\ rows[stack[k].start].mark = "start"
    BY DEF Inv, IInv, CallsFit
  <2> QED BY <2>1, <2>2, <2>3, <2>4, CallInProgress DEF Inv, IInv, RowsAreOnce
<1> QED BY <1>1, CallInProgress DEF Inv, IInv, GraphsAreApart

(* A row of a task of a graph follows the start marker of the graph.       *)
LEMMA RowsFollowStart ==
  ASSUME Inv, pc # "raised", NEW g \in DOMAIN api, NEW s \in DOMAIN rows,
         rows[s].task = g, rows[s].mark = "start",
         NEW i \in DOMAIN rows, rows[i].task \in api[g].tasks
  PROVE  s < i
<1>1. rows[i].task # Root
  BY DEF Inv, IInv, GraphsAreApart
<1>2. PICK h \in DOMAIN api, j \in 1..(i - 1) :
        rows[i].task \in api[h].tasks /\ rows[j].task = h /\ rows[j].mark = "start"
  BY <1>1 DEF Inv, IInv, RowsAreInGraphs
<1>3. h = g
  BY <1>2 DEF Inv, IInv, GraphsAreApart
<1>4. i \in 1..Len(rows) /\ Len(rows) \in Nat /\ DOMAIN rows = 1..Len(rows)
  BY DEF Inv, IInv, TypeOK
<1>5. j \in DOMAIN rows
  BY <1>4
<1>6. j = s
  BY <1>2, <1>3, <1>5 DEF Inv, IInv, RowsAreOnce
<1> QED BY <1>4, <1>6

(* The row of the next task depends on rows of all its dependencies, and   *)
(* on the start of every call in progress at least through others.         *)
LEMMA RowAfterDependencies ==
  ASSUME Inv, pc = "compiling", stack # <<>>, NEW t, IsNext(Top, t)
  PROVE  /\ t \in AllTasks /\ t # Root /\ t \in api[Top.graph].tasks
         /\ After(Top, t) \in SUBSET DOMAIN rows
         /\ \A u \in Dependencies(api[Top.graph], t) : After(Top, t) \cap RowsOf(u) # {}
         /\ \A k \in DOMAIN stack :
              \E j \in After(Top, t) : stack[k].start = j \/ stack[k].start \in Preceding[j]
<1> DEFINE g == Top.graph
           found == UNION {RowsOf(u) : u \in Dependencies(api[g], t)}
<1>1. g \in DOMAIN api /\ Top.start \in DOMAIN rows /\ Top.left \subseteq api[g].tasks
  BY CallInProgress
<1>2. t \in api[g].tasks /\ t \in AllTasks /\ t # Root
  BY <1>1 DEF IsNext, AllTasks, Inv, IInv, GraphsAreApart
<1>3. found \subseteq DOMAIN rows
  BY DEF RowsOf
<1>4. After(Top, t) = IF found = {} THEN {Top.start} ELSE found
  BY DEF After
<1>5. \A u \in Dependencies(api[g], t) : RowsOf(u) # {}
  BY CallInProgress DEF IsNext, Dependencies
<1>6. \A u \in Dependencies(api[g], t) : After(Top, t) \cap RowsOf(u) # {}
  <2>1. ASSUME NEW u \in Dependencies(api[g], t)
        PROVE  After(Top, t) \cap RowsOf(u) # {}
    <3>1. RowsOf(u) \subseteq found /\ RowsOf(u) # {}
      BY <1>5
    <3> QED BY <3>1, <1>4
  <2> QED BY <2>1
<1>7. ASSUME NEW k \in DOMAIN stack
      PROVE  \E j \in After(Top, t) : stack[k].start = j \/ stack[k].start \in Preceding[j]
  <2>1. /\ stack[k].start \in DOMAIN rows
        /\ k = Len(stack) \/ stack[k].start < Top.start
        /\ Top = stack[Len(stack)]
        /\ Len(rows) \in Nat /\ DOMAIN rows = 1..Len(rows)
    BY CallInProgress DEF Inv, IInv, TypeOK
  <2>2. \A i \in (stack[k].start + 1)..Len(rows) : stack[k].start \in Preceding[i]
    BY DEF Inv, IInv, MarkersPrecede
  <2>3. CASE found = {}
    <3>1. After(Top, t) = {Top.start}
      BY <2>3, <1>4
    <3>2. CASE stack[k].start < Top.start
      <4>1. Top.start \in (stack[k].start + 1)..Len(rows)
        BY <2>1, <3>2, <1>1
      <4> QED BY <4>1, <2>2, <3>1
    <3> QED BY <3>1, <3>2, <2>1
  <2>4. CASE found # {}
    <3>1. PICK j \in found : TRUE
      BY <2>4
    <3>2. PICK u \in Dependencies(api[g], t) : j \in RowsOf(u)
      OBVIOUS
    <3>3. j \in DOMAIN rows /\ rows[j].task \in api[g].tasks
      BY <3>2 DEF RowsOf, Dependencies
    <3>4. Top.start < j
      BY <3>3, <1>1, CallInProgress, RowsFollowStart
    <3>5. stack[k].start < j
      BY <2>1, <3>3, <3>4, <1>1
    <3>6. j \in (stack[k].start + 1)..Len(rows)
      BY <2>1, <3>3, <3>5
    <3> QED BY <3>1, <3>6, <2>2, <2>4, <1>4
  <2> QED BY <2>3, <2>4
<1> QED BY <1>1, <1>2, <1>3, <1>4, <1>6, <1>7

(* What holds of the rows still holds once the task that is taken has one. *)
LEMMA TakenRowKeeps ==
  ASSUME Inv, pc = "compiling", stack # <<>>, NEW t, IsNext(Top, t),
         NEW mark \in {"start", "task"}, mark = "task" <=> ~IsWorkflow(t),
         Put(t, mark, After(Top, t)), UNCHANGED api
  PROVE  /\ RowsAreOnce' /\ RowsAreInGraphs' /\ RowsWait' /\ RowsPrecede'
         /\ \A k \in DOMAIN stack : \A i \in (stack[k].start + 1)..(Len(rows) + 1) :
              stack[k].start \in Preceding'[i]
         /\ \A i \in DOMAIN rows' : rows'[i].mark = "end" => Preceding'[i] = 1..(i - 1)
         /\ \A i, j \in DOMAIN rows' :
              rows'[i].mark = "start" /\ rows'[j].mark = "end" /\ rows'[i].task = rows'[j].task =>
                i < j /\ \A k \in (i + 1)..j : i \in Preceding'[k]
<1> DEFINE n == Len(rows)
           deps == After(Top, t)
<1>1. /\ t \in AllTasks /\ mark \in Marks /\ deps \in SUBSET DOMAIN rows /\ pc # "raised"
      /\ t \in api[Top.graph].tasks /\ Top.graph \in DOMAIN api
  BY RowAfterDependencies, CallInProgress DEF Marks
<1>2. /\ n \in Nat /\ DOMAIN rows = 1..n /\ DOMAIN rows' = 1..(n + 1)
      /\ \A i \in 1..n : rows'[i] = rows[i]
      /\ rows'[n + 1].task = t /\ rows'[n + 1].mark = mark /\ rows'[n + 1].deps = deps
      /\ \A i \in 1..n : Preceding'[i] = Preceding[i]
      /\ Preceding'[n + 1] = deps \cup (UNION {Preceding[j] : j \in deps})
  BY <1>1, PutExtends
<1>3. \A i \in 1..n : rows[i].task # t
  BY <1>2, CallInProgress DEF IsNext
<1>4. \A u : RowsOf(u) \subseteq RowsIn(rows', u)
  BY <1>1, PutKeepsRowsOf
<1>5. RowsPrecede'
  BY <1>1, PutKeepsRowsPrecede
<1> HIDE DEF n, deps
<1>6. \A i \in 1..(n + 1) : i \in 1..n \/ i = n + 1
  BY <1>2
<1>7. RowsAreOnce'
  <2>1. /\ \A i \in 1..n : rows[i].mark = "task" <=> rows[i].task \notin DOMAIN api
        /\ \A i, j \in 1..n : rows[i].task = rows[j].task /\ rows[i].mark = rows[j].mark => i = j
        /\ \A i \in 1..n : rows[i].mark = "end" =>
             \E j \in 1..n : rows[j].task = rows[i].task /\ rows[j].mark = "start"
    BY <1>2 DEF Inv, IInv, RowsAreOnce, IsWorkflow
  <2>2. mark = "task" <=> t \notin DOMAIN api
    BY DEF IsWorkflow
  <2>3. \A i \in 1..(n + 1) : rows'[i].mark = "task" <=> rows'[i].task \notin DOMAIN api'
    BY <1>2, <1>6, <2>1, <2>2
  <2>4. \A i, j \in 1..(n + 1) :
          rows'[i].task = rows'[j].task /\ rows'[i].mark = rows'[j].mark => i = j
    BY <1>2, <1>3, <1>6, <2>1
  <2>5. ASSUME NEW i \in 1..(n + 1), rows'[i].mark = "end"
        PROVE  \E j \in 1..(n + 1) : rows'[j].task = rows'[i].task /\ rows'[j].mark = "start"
    <3>1. i \in 1..n
      BY <1>2, <1>6, <2>5
    <3>2. PICK j \in 1..n : rows[j].task = rows[i].task /\ rows[j].mark = "start"
      BY <1>2, <2>1, <2>5, <3>1
    <3>3. j \in 1..(n + 1)
      BY <1>2
    <3> QED BY <1>2, <3>1, <3>2, <3>3
  <2> QED BY <1>2, <2>3, <2>4, <2>5 DEF RowsAreOnce, IsWorkflow
<1>8. RowsAreInGraphs'
  <2>1. ASSUME NEW i \in 1..(n + 1)
        PROVE  rows'[i].task = Root \/
               \E g \in DOMAIN api, j \in 1..(i - 1) :
                 rows'[i].task \in api[g].tasks /\ rows'[j].task = g /\ rows'[j].mark = "start"
    <3>1. CASE i = n + 1
      <4>1. /\ Top.start \in 1..n
            /\ rows[Top.start].task = Top.graph /\ rows[Top.start].mark = "start"
        BY <1>2, CallInProgress
      <4>2. Top.start \in 1..(i - 1)
        BY <4>1, <3>1, <1>2
      <4> QED BY <4>1, <4>2, <3>1, <1>1, <1>2
    <3>2. CASE i # n + 1
      <4>1. i \in 1..n /\ rows'[i] = rows[i]
        BY <3>2, <1>2, <1>6
      <4>2. \A j \in 1..(i - 1) : rows'[j] = rows[j]
        BY <4>1, <1>2
      <4>3. rows[i].task = Root \/
            \E g \in DOMAIN api, j \in 1..(i - 1) :
              rows[i].task \in api[g].tasks /\ rows[j].task = g /\ rows[j].mark = "start"
        BY <4>1, <1>2 DEF Inv, IInv, RowsAreInGraphs
      <4> QED BY <4>1, <4>2, <4>3
    <3> QED BY <3>1, <3>2
  <2> QED BY <1>2, <2>1 DEF RowsAreInGraphs
<1>9. RowsWait'
  <2>1. ASSUME NEW g \in DOMAIN api, NEW d \in api[g].deps, NEW i \in 1..(n + 1),
               rows'[i].task = d[1], rows'[i].mark \in {"start", "task"}
        PROVE  rows'[i].deps \cap RowsIn(rows', d[2]) # {}
    <3>1. d \in api[g].tasks \X api[g].tasks
      BY DEF Inv, IInv, GraphsAreApart
    <3>2. CASE i = n + 1
      <4>1. d[1] = t /\ d[1] \in api[g].tasks /\ d[2] \in api[g].tasks
        BY <2>1, <3>1, <3>2, <1>2
      <4>2. g = Top.graph
        BY <4>1, <1>1 DEF Inv, IInv, GraphsAreApart
      <4>3. d = <<d[1], d[2]>>
        BY <3>1
      <4>4. d[2] \in Dependencies(api[Top.graph], t)
        BY <4>1, <4>2, <4>3 DEF Dependencies
      <4>5. deps \cap RowsOf(d[2]) # {}
        BY <4>4, RowAfterDependencies DEF deps
      <4> QED BY <4>5, <3>2, <1>2, <1>4
    <3>3. CASE i # n + 1
      <4>1. i \in 1..n /\ rows'[i] = rows[i]
        BY <3>3, <1>2, <1>6
      <4>2. rows[i].deps \cap RowsOf(d[2]) # {}
        BY <4>1, <2>1, <1>2 DEF Inv, IInv, RowsWait
      <4> QED BY <4>1, <4>2, <1>4
    <3> QED BY <3>2, <3>3
  <2> QED BY <1>2, <2>1 DEF RowsWait, RowsOf, RowsIn
<1>10. ASSUME NEW k \in DOMAIN stack, NEW i \in (stack[k].start + 1)..(n + 1)
       PROVE  stack[k].start \in Preceding'[i]
  <2>1. stack[k].start \in 1..n
    BY <1>2, CallInProgress
  <2>2. CASE i = n + 1
    <3>1. PICK j \in deps : stack[k].start = j \/ stack[k].start \in Preceding[j]
      BY RowAfterDependencies DEF deps
    <3> QED BY <3>1, <2>2, <1>2
  <2>3. CASE i # n + 1
    <3>1. i \in (stack[k].start + 1)..n /\ i \in 1..n
      BY <2>1, <2>3, <1>2
    <3>2. stack[k].start \in Preceding[i]
      BY <3>1 DEF Inv, IInv, MarkersPrecede, n
    <3> QED BY <3>1, <3>2, <1>2
  <2> QED BY <2>2, <2>3
<1>11. ASSUME NEW i \in 1..(n + 1), rows'[i].mark = "end"
       PROVE  Preceding'[i] = 1..(i - 1)
  <2>1. i \in 1..n
    BY <1>2, <1>6, <1>11
  <2> QED BY <2>1, <1>2, <1>11 DEF Inv, IInv, MarkersPrecede
<1>12. ASSUME NEW i \in 1..(n + 1), NEW j \in 1..(n + 1), rows'[i].mark = "start",
              rows'[j].mark = "end", rows'[i].task = rows'[j].task
       PROVE  i < j /\ \A k \in (i + 1)..j : i \in Preceding'[k]
  <2>1. j \in 1..n /\ rows'[j] = rows[j]
    BY <1>2, <1>6, <1>12
  <2>2. i \in 1..n /\ rows'[i] = rows[i]
    BY <1>2, <1>3, <1>6, <1>12, <2>1
  <2>3. i < j /\ \A k \in (i + 1)..j : i \in Preceding[k]
    BY <2>1, <2>2, <1>2, <1>12 DEF Inv, IInv, MarkersPrecede
  <2>4. \A k \in (i + 1)..j : k \in 1..n
    BY <2>1, <2>2, <1>2
  <2> QED BY <2>3, <2>4, <1>2
<1> QED BY <1>2, <1>5, <1>7, <1>8, <1>9, <1>10, <1>11, <1>12 DEF n

-----------------------------------------------------------------------------
(* The calls after a task has been taken.                                  *)
LEMMA TookFacts ==
  ASSUME Inv, pc = "compiling", stack # <<>>, NEW t
  PROVE  /\ Took(t) \in Seq(Call) /\ Len(Took(t)) = Len(stack) /\ DOMAIN Took(t) = DOMAIN stack
         /\ \A k \in DOMAIN stack : /\ Took(t)[k].graph = stack[k].graph
                                    /\ Took(t)[k].start = stack[k].start
         /\ \A k \in DOMAIN stack : k # Len(stack) => Took(t)[k].left = stack[k].left
         /\ Took(t)[Len(stack)].left = Top.left \ {t}
<1> DEFINE l == Len(stack)
           call == [stack[l] EXCEPT !.left = @ \ {t}]
<1>1. /\ stack \in Seq(Call) /\ l \in Nat /\ l \in DOMAIN stack /\ DOMAIN stack = 1..l
      /\ Top = stack[l]
  BY CallInProgress DEF Inv, IInv, TypeOK
<1>2. stack[l] \in Call
  BY <1>1
<1>3. /\ call \in Call /\ call.graph = stack[l].graph /\ call.start = stack[l].start
      /\ call.left = stack[l].left \ {t}
  BY <1>2 DEF Call
<1>4. Took(t) = [stack EXCEPT ![l] = call]
  BY <1>1 DEF Took
<1> HIDE DEF call, l
<1>5. /\ Took(t) \in Seq(Call) /\ Len(Took(t)) = l /\ DOMAIN Took(t) = DOMAIN stack
      /\ Took(t)[l] = call /\ \A k \in DOMAIN stack : k # l => Took(t)[k] = stack[k]
  BY <1>1, <1>3, <1>4
<1> QED BY <1>1, <1>3, <1>5 DEF l

(* A call that is not the one in progress has nothing to do with the task. *)
LEMMA OtherCalls ==
  ASSUME Inv, pc = "compiling", stack # <<>>, NEW k \in DOMAIN stack, k # Len(stack)
  PROVE  LET g == stack[k].graph
         IN  /\ k < Len(stack) /\ k + 1 \in DOMAIN stack /\ g \in DOMAIN api /\ g # Top.graph
             /\ \A t \in api[Top.graph].tasks : t \notin stack[k].left
             /\ stack[k].start \in DOMAIN rows
             /\ rows[stack[k].start].task = g /\ rows[stack[k].start].mark = "start"
             /\ RowsOf(g) = {} /\ stack[k].left \subseteq api[g].tasks
             /\ \A t \in stack[k].left, i \in DOMAIN rows : rows[i].task # t
             /\ \A t \in api[g].tasks \ stack[k].left : RowsOf(t) = {} => stack[k + 1].graph = t
<1>1. k < Len(stack) /\ k + 1 \in DOMAIN stack
  BY CallInProgress
<1>2. CallsFit
  BY DEF Inv, IInv
<1>3. /\ stack[k].graph \in DOMAIN api /\ stack[k].graph # Top.graph
      /\ api[stack[k].graph].tasks \cap api[Top.graph].tasks = {}
  BY GraphsOfCalls
<1>4. stack[k].left \subseteq api[stack[k].graph].tasks
  BY <1>2 DEF CallsFit
<1> QED BY <1>1, <1>2, <1>3, <1>4 DEF CallsFit

(* The invariant is kept by compiling a task,                              *)
LEMMA CompileTaskKeepsInv ==
  ASSUME Inv, NEW t, CompileTask(t)
  PROVE  Inv'
<1> DEFINE n == Len(rows)
           l == Len(stack)
<1>1. /\ pc = "compiling" /\ stack # <<>> /\ IsNext(Top, t) /\ ~IsWorkflow(t)
      /\ Put(t, "task", After(Top, t)) /\ stack' = Took(t)
      /\ UNCHANGED <<workflow, service, api, pc>>
  BY DEF CompileTask
<1>2. /\ t \in AllTasks /\ t # Root /\ t \in api[Top.graph].tasks
      /\ After(Top, t) \in SUBSET DOMAIN rows
      /\ "task" \in Marks /\ pc # "raised" /\ pc' = pc /\ api' = api
  BY <1>1, RowAfterDependencies DEF Marks
<1>3. /\ n \in Nat /\ DOMAIN rows = 1..n /\ DOMAIN rows' = 1..(n + 1) /\ Len(rows') = n + 1
      /\ \A i \in 1..n : rows'[i] = rows[i]
      /\ rows'[n + 1].task = t /\ rows'[n + 1].mark = "task"
      /\ rows' \in Seq(Row') /\ \A i \in 1..(n + 1) : rows'[i].deps \subseteq 1..(i - 1)
      /\ HasOneSolution(rows')
  BY <1>1, <1>2, PutExtends
<1>4. /\ \A u : u # t => RowsIn(rows', u) = RowsOf(u)
      /\ n + 1 \in RowsIn(rows', t)
  BY <1>1, <1>2, PutKeepsRowsOf
<1>5. /\ stack' \in Seq(Call) /\ Len(stack') = l /\ DOMAIN stack' = DOMAIN stack
      /\ \A k \in DOMAIN stack : stack'[k].graph = stack[k].graph /\ stack'[k].start = stack[k].start
      /\ \A k \in DOMAIN stack : k # l => stack'[k].left = stack[k].left
      /\ stack'[l].left = Top.left \ {t}
      /\ l \in DOMAIN stack /\ Top = stack[l]
  BY <1>1, TookFacts, CallInProgress
<1>6. /\ RowsAreOnce' /\ RowsAreInGraphs' /\ RowsWait' /\ RowsPrecede'
      /\ \A k \in DOMAIN stack : \A i \in (stack[k].start + 1)..(n + 1) :
           stack[k].start \in Preceding'[i]
      /\ \A i \in DOMAIN rows' : rows'[i].mark = "end" => Preceding'[i] = 1..(i - 1)
      /\ \A i, j \in DOMAIN rows' :
           rows'[i].mark = "start" /\ rows'[j].mark = "end" /\ rows'[i].task = rows'[j].task =>
             i < j /\ \A k \in (i + 1)..j : i \in Preceding'[k]
  BY <1>1, TakenRowKeeps
<1>7. TypeOK'
  <2>1. Row' = Row /\ Call' = Call /\ AllTasks' = AllTasks
    BY <1>2 DEF Row, Call, AllTasks
  <2> QED BY <1>1, <1>2, <1>3, <1>5, <2>1 DEF Inv, IInv, TypeOK
<1>8. GraphsAreApart' /\ PhasesFit'
  BY <1>1, <1>2 DEF Inv, IInv, GraphsAreApart, PhasesFit
<1>9. MarkersPrecede'
  BY <1>3, <1>5, <1>6 DEF MarkersPrecede
<1> HIDE DEF n, l
<1>10. CallsFit'
  <2>1. ASSUME NEW k \in DOMAIN stack
        PROVE  LET g == stack'[k].graph
               IN  /\ stack'[k].start \in DOMAIN rows'
                   /\ rows'[stack'[k].start].task = g /\ rows'[stack'[k].start].mark = "start"
                   /\ RowsIn(rows', g) = {}
                   /\ stack'[k].left \subseteq api'[g].tasks
                   /\ \A u \in stack'[k].left, i \in DOMAIN rows' : rows'[i].task # u
                   /\ \A u \in api'[g].tasks \ stack'[k].left :
                        RowsIn(rows', u) = {} => k < Len(stack') /\ stack'[k + 1].graph = u
    <3> DEFINE g == stack[k].graph
    <3>1. \A i \in 1..(n + 1) : i \in 1..n \/ i = n + 1
      BY <1>3
    <3>2. CASE k = l
      <4>1. /\ stack'[k].graph = Top.graph /\ stack'[k].start = Top.start
            /\ stack'[k].left = Top.left \ {t}
        BY <3>2, <1>5
      <4>2. /\ Top.start \in 1..n /\ rows[Top.start].task = Top.graph
            /\ rows[Top.start].mark = "start" /\ RowsOf(Top.graph) = {}
            /\ Top.graph \in DOMAIN api /\ Top.left \subseteq api[Top.graph].tasks
            /\ \A u \in Top.left, i \in 1..n : rows[i].task # u
            /\ \A u \in api[Top.graph].tasks \ Top.left : RowsOf(u) # {}
        BY <1>1, <1>3, CallInProgress
      <4>3. Top.graph # t /\ RowsIn(rows', Top.graph) = {}
        BY <4>2, <1>1, <1>4 DEF IsWorkflow
      <4>4. Top.start \in 1..(n + 1) /\ rows'[Top.start] = rows[Top.start]
        BY <4>2, <1>3
      <4>5. \A u \in Top.left \ {t}, i \in 1..(n + 1) : rows'[i].task # u
        BY <4>2, <3>1, <1>3
      <4>6. \A u \in api[Top.graph].tasks \ (Top.left \ {t}) : RowsIn(rows', u) # {}
        BY <4>2, <1>4
      <4> QED BY <4>1, <4>2, <4>3, <4>4, <4>5, <4>6, <1>2, <1>3
    <3>3. CASE k # l
      <4>1. /\ k < l /\ k + 1 \in DOMAIN stack /\ g \in DOMAIN api /\ t \notin stack[k].left
            /\ stack[k].start \in 1..n
            /\ rows[stack[k].start].task = g /\ rows[stack[k].start].mark = "start"
            /\ RowsOf(g) = {} /\ stack[k].left \subseteq api[g].tasks
            /\ \A u \in stack[k].left, i \in 1..n : rows[i].task # u
            /\ \A u \in api[g].tasks \ stack[k].left : RowsOf(u) = {} => stack[k + 1].graph = u
        BY <3>3, <1>1, <1>2, <1>3, OtherCalls DEF l
      <4>2. /\ stack'[k].graph = g /\ stack'[k].start = stack[k].start
            /\ stack'[k].left = stack[k].left /\ stack'[k + 1].graph = stack[k + 1].graph
        BY <3>3, <4>1, <1>5
      <4>3. g # t /\ RowsIn(rows', g) = {}
        BY <4>1, <1>1, <1>4 DEF IsWorkflow
      <4>4. stack[k].start \in 1..(n + 1) /\ rows'[stack[k].start] = rows[stack[k].start]
        BY <4>1, <1>3
      <4>5. \A u \in stack[k].left, i \in 1..(n + 1) : rows'[i].task # u
        BY <4>1, <3>1, <1>3
      <4>6. \A u \in api[g].tasks \ stack[k].left : RowsIn(rows', u) = {} => stack[k + 1].graph = u
        BY <4>1, <1>4
      <4> HIDE DEF g
      <4> QED BY <4>1, <4>2, <4>3, <4>4, <4>5, <4>6, <1>2, <1>3, <1>5
    <3> QED BY <3>2, <3>3
  <2>2. \A j, k \in DOMAIN stack' : j < k => stack'[j].start < stack'[k].start
    BY <1>2, <1>5 DEF Inv, IInv, CallsFit
  <2> QED BY <2>1, <2>2, <1>5 DEF CallsFit, RowsOf, RowsIn
<1>11. GraphsEnd'
  <2>1. ASSUME NEW i \in 1..(n + 1), RowsIn(rows', rows'[i].task) = {}
        PROVE  \E k \in DOMAIN stack' : stack'[k].graph = rows'[i].task
    <3>1. i \in 1..n
      BY <2>1, <1>3, <1>4
    <3>2. rows'[i].task # t
      BY <2>1, <1>4
    <3>3. RowsOf(rows[i].task) = {}
      BY <2>1, <3>1, <3>2, <1>3, <1>4
    <3> QED BY <3>1, <3>3, <1>2, <1>3, <1>5 DEF Inv, IInv, GraphsEnd
  <2>2. ASSUME NEW g \in DOMAIN api', RowsIn(rows', g) # {}, NEW u \in api'[g].tasks
        PROVE  RowsIn(rows', u) # {}
    <3>1. g \in DOMAIN api /\ g # t /\ RowsOf(g) # {}
      BY <2>2, <1>1, <1>2, <1>4 DEF IsWorkflow
    <3>2. RowsOf(u) # {}
      BY <3>1, <2>2, <1>2 DEF Inv, IInv, GraphsEnd
    <3> QED BY <3>2, <1>4
  <2> QED BY <2>1, <2>2, <1>3 DEF GraphsEnd, RowsOf, RowsIn
<1> QED BY <1>3, <1>6, <1>7, <1>8, <1>9, <1>10, <1>11 DEF Inv, IInv

(* The calls after another has been made.                                  *)
LEMMA CallsGrow ==
  ASSUME NEW S, NEW calls \in Seq(S), NEW call \in S
  PROVE  LET l == Len(calls)
             more == Append(calls, call)
         IN  /\ more \in Seq(S) /\ l \in Nat /\ Len(more) = l + 1
             /\ DOMAIN calls = 1..l /\ DOMAIN more = 1..(l + 1)
             /\ more[l + 1] = call /\ \A k \in 1..l : more[k] = calls[k]
OBVIOUS

(* and by beginning with a sub-workflow.                                   *)
LEMMA CompileSubWorkflowKeepsInv ==
  ASSUME Inv, NEW t, CompileSubWorkflow(t)
  PROVE  Inv'
<1> DEFINE n == Len(rows)
           l == Len(stack)
           call == [graph |-> t, start |-> n + 1, left |-> api[t].tasks]
<1>1. /\ pc = "compiling" /\ stack # <<>> /\ IsNext(Top, t) /\ IsWorkflow(t)
      /\ Put(t, "start", After(Top, t))
      /\ UNCHANGED <<workflow, service, api>>
  BY DEF CompileSubWorkflow, Enter
<1>2. /\ t \in AllTasks /\ t # Root /\ t \in api[Top.graph].tasks
      /\ After(Top, t) \in SUBSET DOMAIN rows
      /\ "start" \in Marks /\ pc # "raised" /\ api' = api /\ t \in DOMAIN api
  BY <1>1, RowAfterDependencies DEF Marks, IsWorkflow
<1>3. /\ n \in Nat /\ DOMAIN rows = 1..n /\ DOMAIN rows' = 1..(n + 1) /\ Len(rows') = n + 1
      /\ \A i \in 1..n : rows'[i] = rows[i]
      /\ rows'[n + 1].task = t /\ rows'[n + 1].mark = "start"
      /\ rows' \in Seq(Row') /\ \A i \in 1..(n + 1) : rows'[i].deps \subseteq 1..(i - 1)
      /\ HasOneSolution(rows')
  BY <1>1, <1>2, PutExtends
<1>4. Row' = Row /\ Call' = Call /\ AllTasks' = AllTasks
  BY <1>2 DEF Row, Call, AllTasks
<1>5. CASE HasCycle(api[t])
  <2>1. pc' = "raised" /\ UNCHANGED stack
    BY <1>5 DEF CompileSubWorkflow, Enter
  <2>2. TypeOK'
    BY <2>1, <1>1, <1>2, <1>3, <1>4 DEF Inv, IInv, TypeOK
  <2> QED BY <2>1, <2>2 DEF Inv, IInv
<1>6. CASE ~HasCycle(api[t])
  <2>1. pc' = "compiling" /\ stack' = Append(Took(t), call)
    BY <1>6 DEF CompileSubWorkflow, Enter
  <2>2. \A u : RowsIn(rows', u) = RowsOf(u)
    BY <1>1, <1>2, PutKeepsRowsOf
  <2>3. call \in Call /\ call.graph = t /\ call.start = n + 1 /\ call.left = api[t].tasks
    <3>1. api[t].tasks \in SUBSET AllTasks /\ n + 1 \in Nat
      BY <1>2, <1>3 DEF AllTasks
    <3> QED BY <3>1, <1>2 DEF Call
  <2>4. /\ Took(t) \in Seq(Call) /\ Len(Took(t)) = l /\ DOMAIN Took(t) = DOMAIN stack
        /\ \A k \in DOMAIN stack : /\ Took(t)[k].graph = stack[k].graph
                                   /\ Took(t)[k].start = stack[k].start
        /\ \A k \in DOMAIN stack : k # l => Took(t)[k].left = stack[k].left
        /\ Took(t)[l].left = Top.left \ {t}
    BY <1>1, TookFacts
  <2>5. /\ l \in Nat /\ l \in DOMAIN stack /\ DOMAIN stack = 1..l /\ Top = stack[l]
    BY <1>1, CallInProgress
  <2> HIDE DEF call
  <2>6. /\ stack' \in Seq(Call) /\ Len(stack') = l + 1 /\ DOMAIN stack' = 1..(l + 1)
        /\ stack'[l + 1] = call /\ \A k \in 1..l : stack'[k] = Took(t)[k]
    BY <2>1, <2>3, <2>4, CallsGrow
  <2>7. /\ RowsAreOnce' /\ RowsAreInGraphs' /\ RowsWait' /\ RowsPrecede'
        /\ \A k \in DOMAIN stack : \A i \in (stack[k].start + 1)..(n + 1) :
             stack[k].start \in Preceding'[i]
        /\ \A i \in DOMAIN rows' : rows'[i].mark = "end" => Preceding'[i] = 1..(i - 1)
        /\ \A i, j \in DOMAIN rows' :
             rows'[i].mark = "start" /\ rows'[j].mark = "end" /\ rows'[i].task = rows'[j].task =>
               i < j /\ \A k \in (i + 1)..j : i \in Preceding'[k]
    BY <1>1, TakenRowKeeps
  <2>8. TypeOK'
    BY <1>1, <1>2, <1>3, <1>4, <2>1, <2>6 DEF Inv, IInv, TypeOK
  <2>9. GraphsAreApart' /\ PhasesFit'
    BY <1>1, <1>2, <2>1 DEF Inv, IInv, GraphsAreApart, PhasesFit
  <2> HIDE DEF n, l
  <2>10. \A k \in 1..(l + 1) : k \in 1..l \/ k = l + 1
    BY <2>5
  <2>11. \A i \in 1..(n + 1) : i \in 1..n \/ i = n + 1
    BY <1>3
  <2>12. MarkersPrecede'
    <3>1. ASSUME NEW k \in 1..(l + 1), NEW i \in (stack'[k].start + 1)..(n + 1)
          PROVE  stack'[k].start \in Preceding'[i]
      <4>1. CASE k \in 1..l
        BY <4>1, <3>1, <2>4, <2>5, <2>6, <2>7
      <4>2. CASE k = l + 1
        <5>1. (stack'[k].start + 1)..(n + 1) = {}
          BY <4>2, <2>3, <2>6, <1>3
        <5> QED BY <5>1
      <4> QED BY <4>1, <4>2, <2>10
    <3> QED BY <3>1, <2>6, <2>7, <1>3 DEF MarkersPrecede
  <2>13. CallsFit'
    <3>1. ASSUME NEW k \in 1..(l + 1)
          PROVE  LET g == stack'[k].graph
                 IN  /\ stack'[k].start \in DOMAIN rows'
                     /\ rows'[stack'[k].start].task = g /\ rows'[stack'[k].start].mark = "start"
                     /\ RowsIn(rows', g) = {}
                     /\ stack'[k].left \subseteq api'[g].tasks
                     /\ \A u \in stack'[k].left, i \in DOMAIN rows' : rows'[i].task # u
                     /\ \A u \in api'[g].tasks \ stack'[k].left :
                          RowsIn(rows', u) = {} => k < Len(stack') /\ stack'[k + 1].graph = u
      <4>1. CASE k = l + 1
        <5>1. /\ stack'[k].graph = t /\ stack'[k].start = n + 1
              /\ stack'[k].left = api[t].tasks
          BY <4>1, <2>3, <2>6
        <5>2. RowsIn(rows', t) = {}
          <6>1. \A i \in DOMAIN rows : rows[i].task # t
            BY <1>1, CallInProgress DEF IsNext
          <6> QED BY <6>1, <2>2 DEF RowsOf
        <5>3. ASSUME NEW u \in api[t].tasks, NEW i \in 1..(n + 1)
              PROVE  rows'[i].task # u
          <6>1. u # t
            <7>1. Top.graph # t
              BY <1>1, <1>3, CallInProgress DEF IsNext
            <7> QED BY <7>1, <1>1, <1>2, CallInProgress DEF Inv, IInv, GraphsAreApart
          <6>2. CASE i \in 1..n
            <7>1. \A j \in 1..n : rows[j].task # t
              BY <1>1, <1>3, CallInProgress DEF IsNext
            <7>2. ASSUME rows[i].task = u
                  PROVE  FALSE
              <8>1. u # Root
                BY <1>2 DEF Inv, IInv, GraphsAreApart
              <8>2. PICK h \in DOMAIN api, j \in 1..(i - 1) : u \in api[h].tasks /\ rows[j].task = h
                BY <7>2, <8>1, <6>2, <1>2, <1>3 DEF Inv, IInv, RowsAreInGraphs
              <8>3. h = t
                BY <8>2, <1>2 DEF Inv, IInv, GraphsAreApart
              <8>4. j \in 1..n
                BY <6>2, <1>3
              <8> QED BY <7>1, <8>2, <8>3, <8>4
            <7> QED BY <7>2, <6>2, <1>3
          <6>3. CASE i = n + 1
            BY <6>1, <6>3, <1>3
          <6> QED BY <6>2, <6>3, <2>11
        <5> QED BY <5>1, <5>2, <5>3, <1>2, <1>3
      <4>2. CASE k = l
        <5>1. /\ stack'[k].graph = Top.graph /\ stack'[k].start = Top.start
              /\ stack'[k].left = Top.left \ {t}
              /\ k < Len(stack') /\ stack'[k + 1].graph = t
          BY <4>2, <2>3, <2>4, <2>5, <2>6
        <5>2. /\ Top.start \in 1..n /\ rows[Top.start].task = Top.graph
              /\ rows[Top.start].mark = "start" /\ RowsOf(Top.graph) = {}
              /\ Top.graph \in DOMAIN api /\ Top.left \subseteq api[Top.graph].tasks
              /\ \A u \in Top.left, i \in 1..n : rows[i].task # u
              /\ \A u \in api[Top.graph].tasks \ Top.left : RowsOf(u) # {}
          BY <1>1, <1>3, CallInProgress
        <5>3. Top.start \in 1..(n + 1) /\ rows'[Top.start] = rows[Top.start]
          BY <5>2, <1>3
        <5>4. \A u \in Top.left \ {t}, i \in 1..(n + 1) : rows'[i].task # u
          BY <5>2, <2>11, <1>3
        <5>5. \A u \in api[Top.graph].tasks \ (Top.left \ {t}) : RowsIn(rows', u) = {} => u = t
          BY <5>2, <2>2
        <5> QED BY <5>1, <5>2, <5>3, <5>4, <5>5, <2>2, <1>2, <1>3
      <4>3. CASE k \in 1..l /\ k # l
        <5> DEFINE g == stack[k].graph
        <5>1. /\ k < l /\ k + 1 \in DOMAIN stack /\ g \in DOMAIN api /\ t \notin stack[k].left
              /\ stack[k].start \in 1..n
              /\ rows[stack[k].start].task = g /\ rows[stack[k].start].mark = "start"
              /\ RowsOf(g) = {} /\ stack[k].left \subseteq api[g].tasks
              /\ \A u \in stack[k].left, i \in 1..n : rows[i].task # u
              /\ \A u \in api[g].tasks \ stack[k].left : RowsOf(u) = {} => stack[k + 1].graph = u
          BY <4>3, <1>1, <1>2, <1>3, <2>5, OtherCalls DEF l
        <5>2. /\ stack'[k].graph = g /\ stack'[k].start = stack[k].start
              /\ stack'[k].left = stack[k].left /\ stack'[k + 1].graph = stack[k + 1].graph
          BY <4>3, <5>1, <2>4, <2>5, <2>6
        <5>3. stack[k].start \in 1..(n + 1) /\ rows'[stack[k].start] = rows[stack[k].start]
          BY <5>1, <1>3
        <5>4. \A u \in stack[k].left, i \in 1..(n + 1) : rows'[i].task # u
          BY <5>1, <2>11, <1>3
        <5>5. k < Len(stack')
          BY <5>1, <2>5, <2>6
        <5> HIDE DEF g
        <5> QED BY <5>1, <5>2, <5>3, <5>4, <5>5, <2>2, <1>2, <1>3
      <4> QED BY <4>1, <4>2, <4>3, <2>10
    <3>2. ASSUME NEW j \in 1..(l + 1), NEW k \in 1..(l + 1), j < k
          PROVE  stack'[j].start < stack'[k].start
      <4>1. j \in 1..l /\ stack'[j].start = stack[j].start /\ stack[j].start \in 1..n
        <5>1. j \in 1..l
          BY <3>2, <2>5
        <5>2. \A h \in 1..l : stack[h].start \in 1..n
          BY <2>5, <1>1, <1>3, CallInProgress
        <5> QED BY <5>1, <5>2, <2>4, <2>5, <2>6
      <4>2. CASE k = l + 1
        BY <4>1, <4>2, <2>3, <2>6, <1>3
      <4>3. CASE k \in 1..l
        BY <4>1, <4>3, <3>2, <2>4, <2>5, <2>6, <1>2 DEF Inv, IInv, CallsFit
      <4> QED BY <4>2, <4>3, <2>10
    <3> QED BY <3>1, <3>2, <2>6 DEF CallsFit, RowsOf, RowsIn
  <2>14. GraphsEnd'
    <3>1. ASSUME NEW i \in 1..(n + 1), RowsIn(rows', rows'[i].task) = {}
          PROVE  \E k \in 1..(l + 1) : stack'[k].graph = rows'[i].task
      <4>1. CASE i = n + 1
        <5>1. l + 1 \in 1..(l + 1) /\ stack'[l + 1].graph = t
          BY <2>3, <2>5, <2>6
        <5> QED BY <4>1, <5>1, <1>3
      <4>2. CASE i \in 1..n
        <5>1. RowsOf(rows[i].task) = {}
          BY <3>1, <4>2, <2>2, <1>3
        <5>2. PICK k \in 1..l : stack[k].graph = rows[i].task
          BY <4>2, <5>1, <1>2, <1>3, <2>5 DEF Inv, IInv, GraphsEnd
        <5>3. k \in 1..(l + 1) /\ stack'[k].graph = stack[k].graph
          BY <2>4, <2>5, <2>6
        <5> QED BY <5>2, <5>3, <4>2, <1>3
      <4> QED BY <4>1, <4>2, <2>11
    <3>2. \A g \in DOMAIN api' : RowsIn(rows', g) # {} => \A u \in api'[g].tasks : RowsIn(rows', u) # {}
      BY <2>2, <1>2 DEF Inv, IInv, GraphsEnd
    <3> QED BY <3>1, <3>2, <2>6, <1>3 DEF GraphsEnd, RowsOf, RowsIn
  <2> QED BY <1>3, <2>7, <2>8, <2>9, <2>12, <2>13, <2>14 DEF Inv, IInv
<1> QED BY <1>5, <1>6

(* The call that ends: its end marker comes after every other row.         *)
LEMMA CompileEndKeepsInv ==
  ASSUME Inv, CompileEnd
  PROVE  Inv'
<1> DEFINE n == Len(rows)
           l == Len(stack)
           g == Top.graph
           deps == NonDependent
<1>1. /\ pc = "compiling" /\ stack # <<>> /\ Top.left = {}
      /\ Put(g, "end", IF deps = {} THEN {Top.start} ELSE deps)
      /\ stack' = Front(stack) /\ pc' = IF l = 1 THEN "done" ELSE pc
      /\ UNCHANGED <<workflow, service, api>>
  BY DEF CompileEnd
<1>2. /\ stack \in Seq(Call) /\ l \in Nat \ {0} /\ l \in DOMAIN stack /\ DOMAIN stack = 1..l
      /\ Top = stack[l] /\ Top.start \in DOMAIN rows /\ g \in DOMAIN api
      /\ rows[Top.start].task = g /\ rows[Top.start].mark = "start" /\ RowsOf(g) = {}
      /\ \A u \in api[g].tasks : RowsOf(u) # {}
  BY <1>1, CallInProgress DEF Inv, IInv, TypeOK
<1>3. deps # {} /\ deps \in SUBSET DOMAIN rows
  BY <1>1, <1>2 DEF Inv, IInv, RowsPrecede, NonDependent
<1>4. g \in AllTasks
  <2>1. rows \in Seq(Row)
    BY DEF Inv, IInv, TypeOK
  <2>2. rows[Top.start] \in Row
    BY <1>2, <2>1
  <2> QED BY <1>2, <2>2 DEF Row
<1>5. /\ "end" \in Marks /\ pc # "raised" /\ pc' # "raised" /\ api' = api
      /\ Put(g, "end", deps)
  BY <1>1, <1>3 DEF Marks
<1>6. /\ n \in Nat /\ DOMAIN rows = 1..n /\ DOMAIN rows' = 1..(n + 1) /\ Len(rows') = n + 1
      /\ \A i \in 1..n : rows'[i] = rows[i]
      /\ rows'[n + 1].task = g /\ rows'[n + 1].mark = "end"
      /\ rows' \in Seq(Row') /\ \A i \in 1..(n + 1) : rows'[i].deps \subseteq 1..(i - 1)
      /\ HasOneSolution(rows')
      /\ \A i \in 1..n : Preceding'[i] = Preceding[i]
      /\ Preceding'[n + 1] = deps \cup (UNION {Preceding[j] : j \in deps})
  BY <1>1, <1>3, <1>4, <1>5, PutExtends
<1>7. /\ \A u : RowsOf(u) \subseteq RowsIn(rows', u)
      /\ \A u : u # g => RowsIn(rows', u) = RowsOf(u)
      /\ n + 1 \in RowsIn(rows', g)
  BY <1>1, <1>3, <1>4, <1>5, PutKeepsRowsOf
<1>8. RowsPrecede'
  BY <1>1, <1>3, <1>4, <1>5, PutKeepsRowsPrecede
<1>9. /\ stack' \in Seq(Call) /\ Len(stack') = l - 1 /\ DOMAIN stack' = 1..(l - 1)
      /\ \A k \in 1..(l - 1) : stack'[k] = stack[k]
  BY <1>1, <1>2 DEF Front
<1> HIDE DEF n, l, g, deps
<1>10. \A i \in 1..(n + 1) : i \in 1..n \/ i = n + 1
  BY <1>6
<1>11. Preceding'[n + 1] = 1..n
  <2>1. ASSUME NEW i \in 1..n
        PROVE  i \in Preceding'[n + 1]
    <3>1. PICK j \in deps : i = j \/ i \in Preceding[j]
      BY <1>5, <1>6 DEF Inv, IInv, RowsPrecede, deps
    <3> QED BY <3>1, <1>6
  <2>2. ASSUME NEW i \in Preceding'[n + 1]
        PROVE  i \in 1..n
    <3>1. CASE i \in deps
      BY <3>1, <1>3, <1>6
    <3>2. CASE i \notin deps
      <4>1. PICK j \in deps : i \in Preceding[j]
        BY <3>2, <1>6
      <4>2. j \in 1..n /\ i \in 1..(j - 1)
        BY <4>1, <1>3, <1>5, <1>6 DEF Inv, IInv, RowsPrecede
      <4> QED BY <4>2, <1>6
    <3> QED BY <3>1, <3>2
  <2> QED BY <2>1, <2>2
<1>12. TypeOK'
  <2>1. Row' = Row /\ Call' = Call /\ AllTasks' = AllTasks
    BY <1>5 DEF Row, Call, AllTasks
  <2> QED BY <1>1, <1>5, <1>6, <1>9, <2>1 DEF Inv, IInv, TypeOK
<1>13. RowsAreOnce'
  <2>1. /\ \A i \in 1..n : rows[i].mark = "task" <=> rows[i].task \notin DOMAIN api
        /\ \A i, j \in 1..n : rows[i].task = rows[j].task /\ rows[i].mark = rows[j].mark => i = j
        /\ \A i \in 1..n : rows[i].mark = "end" =>
             \E j \in 1..n : rows[j].task = rows[i].task /\ rows[j].mark = "start"
    <3>1. RowsAreOnce
      BY <1>5 DEF Inv, IInv
    <3>2. DOMAIN rows = 1..n
      BY <1>6
    <3> QED BY ONLY <3>1, <3>2, Zenon DEF RowsAreOnce, IsWorkflow
  <2>2. \A i \in 1..n : ~ (rows[i].task = g /\ rows[i].mark = "end")
    BY <1>2, <1>6 DEF RowsOf
  <2>3. \A i \in 1..(n + 1) : rows'[i].mark = "task" <=> rows'[i].task \notin DOMAIN api'
    <3>1. ASSUME NEW i \in 1..n
          PROVE  rows'[i].mark = "task" <=> rows'[i].task \notin DOMAIN api'
      <4>1. rows'[i] = rows[i]
        BY <1>6
      <4>2. rows[i].mark = "task" <=> rows[i].task \notin DOMAIN api
        BY <2>1
      <4> QED BY ONLY <1>5, <4>1, <4>2
    <3>2. rows'[n + 1].mark # "task" /\ rows'[n + 1].task \in DOMAIN api'
      <4>1. rows'[n + 1].mark = "end" /\ rows'[n + 1].task = g
        BY <1>6
      <4> QED BY ONLY <4>1, <1>2, <1>5
    <3> QED BY ONLY <1>10, <3>1, <3>2
  <2>4. \A i, j \in 1..(n + 1) :
          rows'[i].task = rows'[j].task /\ rows'[i].mark = rows'[j].mark => i = j
    BY <1>6, <1>10, <2>1, <2>2
  <2>5. ASSUME NEW i \in 1..(n + 1), rows'[i].mark = "end"
        PROVE  \E j \in 1..(n + 1) : rows'[j].task = rows'[i].task /\ rows'[j].mark = "start"
    <3>1. CASE i = n + 1
      <4>1. Top.start \in 1..(n + 1) /\ rows'[Top.start] = rows[Top.start]
        BY <1>2, <1>6
      <4> QED BY <3>1, <4>1, <1>2, <1>6
    <3>2. CASE i \in 1..n
      <4>1. PICK j \in 1..n : rows[j].task = rows[i].task /\ rows[j].mark = "start"
        BY <1>6, <2>1, <2>5, <3>2
      <4>2. j \in 1..(n + 1) /\ rows'[j] = rows[j] /\ rows'[i] = rows[i]
        BY <1>6, <3>2
      <4> QED BY ONLY <4>1, <4>2
    <3> QED BY <3>1, <3>2, <1>10
  <2>6. DOMAIN rows' = 1..(n + 1)
    BY <1>6
  <2> QED BY ONLY <2>3, <2>4, <2>5, <2>6 DEF RowsAreOnce, IsWorkflow
<1>14. RowsAreInGraphs'
  <2>1. ASSUME NEW i \in 1..n
        PROVE  rows[i].task = Root \/
               \E h \in DOMAIN api, j \in 1..(i - 1) :
                 rows[i].task \in api[h].tasks /\ rows'[j].task = h /\ rows'[j].mark = "start"
    <3>1. rows[i].task = Root \/
          \E h \in DOMAIN api, j \in 1..(i - 1) :
            rows[i].task \in api[h].tasks /\ rows[j].task = h /\ rows[j].mark = "start"
      BY <1>5, <1>6 DEF Inv, IInv, RowsAreInGraphs
    <3>2. \A j \in 1..(i - 1) : rows'[j] = rows[j]
      BY <1>6
    <3> QED BY <3>1, <3>2
  <2>2. ASSUME NEW i \in 1..(n + 1)
        PROVE  rows'[i].task = Root \/
               \E h \in DOMAIN api, j \in 1..(i - 1) :
                 rows'[i].task \in api[h].tasks /\ rows'[j].task = h /\ rows'[j].mark = "start"
    <3>1. CASE i = n + 1
      <4>1. Top.start \in 1..n /\ rows[Top.start].task = rows'[i].task
        BY <3>1, <1>2, <1>6
      <4>2. 1..(Top.start - 1) \subseteq 1..(i - 1)
        BY <3>1, <4>1, <1>6
      <4> QED BY <2>1, <4>1, <4>2
    <3>2. CASE i \in 1..n
      BY <2>1, <3>2, <1>6
    <3> QED BY <3>1, <3>2, <1>10
  <2> QED BY <2>2, <1>5, <1>6 DEF RowsAreInGraphs
<1>15. GraphsAreApart' /\ PhasesFit'
  <2>1. GraphsAreApart'
    BY <1>1, <1>5 DEF Inv, IInv, GraphsAreApart
  <2>2. 1 \in DOMAIN rows' /\ rows'[1].task = Root
    <3>1. 1 \in DOMAIN rows' /\ 1..(1 - 1) = {}
      BY <1>6
    <3> QED BY <3>1, <1>14 DEF RowsAreInGraphs
  <2>3. pc' = "done" => stack' = <<>>
    BY <1>1, <1>2, <1>9
  <2> QED BY <2>1, <2>2, <2>3, <1>1 DEF PhasesFit
<1>16. RowsWait'
  <2>1. ASSUME NEW h \in DOMAIN api, NEW d \in api[h].deps, NEW i \in 1..(n + 1),
               rows'[i].task = d[1], rows'[i].mark \in {"start", "task"}
        PROVE  rows'[i].deps \cap RowsIn(rows', d[2]) # {}
    <3>1. i \in 1..n /\ rows'[i] = rows[i]
      BY <2>1, <1>6, <1>10
    <3>2. rows[i].deps \cap RowsOf(d[2]) # {}
      BY <3>1, <2>1, <1>5, <1>6 DEF Inv, IInv, RowsWait
    <3> QED BY <3>1, <3>2, <1>7
  <2> QED BY <2>1, <1>5, <1>6 DEF RowsWait, RowsOf, RowsIn
<1>17. MarkersPrecede'
  <2>1. /\ \A k \in 1..l : \A i \in (stack[k].start + 1)..n : stack[k].start \in Preceding[i]
        /\ \A i \in 1..n : rows[i].mark = "end" => Preceding[i] = 1..(i - 1)
        /\ \A i, j \in 1..n :
             rows[i].mark = "start" /\ rows[j].mark = "end" /\ rows[i].task = rows[j].task =>
               i < j /\ \A k \in (i + 1)..j : i \in Preceding[k]
    BY <1>2, <1>5, <1>6 DEF Inv, IInv, MarkersPrecede, n
  <2>2. ASSUME NEW k \in 1..l, NEW i \in (stack[k].start + 1)..(n + 1)
        PROVE  stack[k].start \in Preceding'[i]
    <3>1. stack[k].start \in 1..n
      BY <1>1, <1>2, <1>6, CallInProgress
    <3>2. CASE i = n + 1
      BY <3>1, <3>2, <1>11
    <3>3. CASE i # n + 1
      <4>1. i \in (stack[k].start + 1)..n /\ i \in 1..n
        BY <3>1, <3>3, <1>6
      <4> QED BY <4>1, <2>1, <1>6
    <3> QED BY <3>2, <3>3
  <2>3. ASSUME NEW i \in 1..(n + 1), rows'[i].mark = "end"
        PROVE  Preceding'[i] = 1..(i - 1)
    <3>1. CASE i = n + 1
      <4>1. i - 1 = n
        BY <3>1, <1>6
      <4> QED BY <3>1, <4>1, <1>11
    <3>2. CASE i \in 1..n
      BY <3>2, <2>1, <2>3, <1>6
    <3> QED BY <3>1, <3>2, <1>10
  <2>4. ASSUME NEW i \in 1..(n + 1), NEW j \in 1..(n + 1), rows'[i].mark = "start",
               rows'[j].mark = "end", rows'[i].task = rows'[j].task
        PROVE  i < j /\ \A k \in (i + 1)..j : i \in Preceding'[k]
    <3>1. i \in 1..n /\ rows'[i] = rows[i]
      BY <2>4, <1>6, <1>10
    <3>2. CASE j = n + 1
      <4>1. i = Top.start
        <5>1. /\ rows[i].task = g /\ rows[i].mark = "start" /\ i \in DOMAIN rows
              /\ rows[Top.start].task = g /\ rows[Top.start].mark = "start"
              /\ Top.start \in DOMAIN rows
          BY <2>4, <3>1, <3>2, <1>2, <1>6
        <5>2. RowsAreOnce
          BY <1>5 DEF Inv, IInv
        <5> QED BY ONLY <5>1, <5>2 DEF RowsAreOnce
      <4>2. \A k \in (i + 1)..(n + 1) : i \in Preceding'[k]
        BY <4>1, <2>2, <1>2
      <4> QED BY <4>2, <3>1, <3>2, <1>6
    <3>3. CASE j \in 1..n
      <4>1. i < j /\ \A k \in (i + 1)..j : i \in Preceding[k]
        BY <2>1, <2>4, <3>1, <3>3, <1>6
      <4>2. \A k \in (i + 1)..j : k \in 1..n
        BY <3>1, <3>3, <1>6
      <4> QED BY <4>1, <4>2, <1>6
    <3> QED BY <3>2, <3>3, <1>10
  <2>5. \A k \in 1..(l - 1) : k \in 1..l
    BY <1>2
  <2> QED BY <2>2, <2>3, <2>4, <2>5, <1>6, <1>9 DEF MarkersPrecede
<1>18. CallsFit'
  <2>1. ASSUME NEW k \in 1..(l - 1)
        PROVE  LET h == stack'[k].graph
               IN  /\ stack'[k].start \in DOMAIN rows'
                   /\ rows'[stack'[k].start].task = h /\ rows'[stack'[k].start].mark = "start"
                   /\ RowsIn(rows', h) = {}
                   /\ stack'[k].left \subseteq api'[h].tasks
                   /\ \A u \in stack'[k].left, i \in DOMAIN rows' : rows'[i].task # u
                   /\ \A u \in api'[h].tasks \ stack'[k].left :
                        RowsIn(rows', u) = {} => k < Len(stack') /\ stack'[k + 1].graph = u
    <3> DEFINE h == stack[k].graph
    <3>1. k \in 1..l /\ k # l /\ k + 1 \in 1..l
      BY <1>2
    <3>2. /\ h \in DOMAIN api /\ h # g
          /\ stack[k].start \in 1..n
          /\ rows[stack[k].start].task = h /\ rows[stack[k].start].mark = "start"
          /\ RowsOf(h) = {} /\ stack[k].left \subseteq api[h].tasks
          /\ \A u \in stack[k].left, i \in 1..n : rows[i].task # u
          /\ \A u \in api[h].tasks \ stack[k].left : RowsOf(u) = {} => stack[k + 1].graph = u
      <4>1. k \in DOMAIN stack /\ k # Len(stack)
        BY <3>1, <1>2 DEF l
      <4>2. DOMAIN rows = 1..n
        BY <1>6
      <4> QED BY <4>1, <4>2, <1>1, OtherCalls DEF g
    <3>3. stack'[k] = stack[k] /\ RowsIn(rows', h) = {}
      BY <3>2, <1>7, <1>9
    <3>4. stack[k].start \in 1..(n + 1) /\ rows'[stack[k].start] = rows[stack[k].start]
      BY <3>2, <1>6
    <3>5. \A u \in stack[k].left, i \in 1..(n + 1) : rows'[i].task # u
      BY <3>2, <1>2, <1>6, <1>10
    <3>6. ASSUME NEW u \in api[h].tasks \ stack[k].left, RowsIn(rows', u) = {}
          PROVE  k < Len(stack') /\ stack'[k + 1].graph = u
      <4>1. RowsOf(u) = {} /\ u # g
        BY <3>6, <1>7
      <4>2. stack[k + 1].graph = u
        BY <3>2, <4>1
      <4>3. k + 1 # l
        BY <4>1, <4>2, <1>2 DEF g
      <4>4. k + 1 \in 1..(l - 1) /\ k < l - 1
        BY <3>1, <4>3, <1>2
      <4> QED BY <4>2, <4>4, <1>9
    <3> HIDE DEF h
    <3>7. stack'[k].graph = h
      BY <3>3 DEF h
    <3> QED BY <3>2, <3>3, <3>4, <3>5, <3>6, <3>7, <1>5, <1>6
  <2>2. \A j, k \in 1..(l - 1) : j < k => stack'[j].start < stack'[k].start
    <3>1. \A j, k \in 1..l : j < k => stack[j].start < stack[k].start
      BY <1>2, <1>5 DEF Inv, IInv, CallsFit
    <3>2. \A k \in 1..(l - 1) : k \in 1..l
      BY <1>2
    <3> QED BY <3>1, <3>2, <1>9
  <2> QED BY <2>1, <2>2, <1>9 DEF CallsFit, RowsOf, RowsIn
<1>19. GraphsEnd'
  <2>1. ASSUME NEW i \in 1..(n + 1), RowsIn(rows', rows'[i].task) = {}
        PROVE  \E k \in 1..(l - 1) : stack'[k].graph = rows'[i].task
    <3>1. rows'[i].task # g
      BY <2>1, <1>7
    <3>2. i \in 1..n /\ rows'[i] = rows[i]
      BY <3>1, <1>6, <1>10
    <3>3. RowsOf(rows[i].task) = {}
      BY <2>1, <3>1, <3>2, <1>7
    <3>4. PICK k \in 1..l : stack[k].graph = rows[i].task
      BY <3>2, <3>3, <1>2, <1>5, <1>6 DEF Inv, IInv, GraphsEnd
    <3>5. k # l
      BY <3>1, <3>2, <3>4, <1>2 DEF g
    <3>6. k \in 1..(l - 1)
      BY <3>5, <1>2
    <3> QED BY <3>2, <3>4, <3>6, <1>9
  <2>2. ASSUME NEW h \in DOMAIN api', RowsIn(rows', h) # {}, NEW u \in api'[h].tasks
        PROVE  RowsIn(rows', u) # {}
    <3>1. RowsOf(u) # {}
      <4>1. CASE h = g
        BY <4>1, <2>2, <1>2, <1>5
      <4>2. CASE h # g
        BY <4>2, <2>2, <1>5, <1>7 DEF Inv, IInv, GraphsEnd
      <4> QED BY <4>1, <4>2
    <3> QED BY <3>1, <1>7
  <2> QED BY <2>1, <2>2, <1>6, <1>9 DEF GraphsEnd, RowsOf, RowsIn
<1> QED BY <1>5, <1>6, <1>8, <1>12, <1>13, <1>14, <1>15, <1>16, <1>17, <1>18, <1>19 DEF Inv, IInv

(* The first call.                                                         *)
LEMMA CompileKeepsInv ==
  ASSUME Inv, Compile
  PROVE  Inv'
<1> DEFINE call == [graph |-> Root, start |-> 1, left |-> api[Root].tasks]
<1>1. /\ pc = "built" /\ Put(Root, "start", {}) /\ UNCHANGED <<workflow, service, api>>
  BY DEF Compile, Enter
<1>2. rows = <<>> /\ stack = <<>> /\ Root \in DOMAIN api
  BY <1>1 DEF Inv, IInv, PhasesFit, GraphsAreApart
<1>3. /\ Len(rows) = 0 /\ DOMAIN rows = {} /\ {} \in SUBSET DOMAIN rows
      /\ Root \in AllTasks /\ "start" \in Marks /\ pc # "raised" /\ api' = api
  BY <1>1, <1>2 DEF AllTasks, Marks
<1>4. /\ DOMAIN rows' = 1..1 /\ Len(rows') = 1
      /\ rows'[1].task = Root /\ rows'[1].mark = "start"
      /\ rows' \in Seq(Row') /\ \A i \in 1..1 : rows'[i].deps \subseteq 1..(i - 1)
      /\ HasOneSolution(rows')
  <2>1. 0 + 1 = 1
    OBVIOUS
  <2> QED BY <1>1, <1>3, <2>1, PutExtends
<1>5. Row' = Row /\ Call' = Call /\ AllTasks' = AllTasks
  BY <1>3 DEF Row, Call, AllTasks
<1>6. CASE HasCycle(api[Root])
  <2>1. pc' = "raised" /\ UNCHANGED stack
    BY <1>6 DEF Compile, Enter
  <2>2. TypeOK'
    BY <2>1, <1>1, <1>3, <1>4, <1>5 DEF Inv, IInv, TypeOK
  <2> QED BY <2>1, <2>2 DEF Inv, IInv
<1>7. CASE ~HasCycle(api[Root])
  <2>1. pc' = "compiling" /\ stack' = <<call>>
    <3>1. stack' = Append(<<>>, [graph |-> Root, start |-> Len(rows) + 1, left |-> api[Root].tasks])
      BY <1>7 DEF Compile, Enter
    <3>2. Len(rows) + 1 = 1
      BY <1>3
    <3> QED BY <3>1, <3>2, <1>7 DEF Compile, Enter
  <2>2. call \in Call /\ call.graph = Root /\ call.start = 1 /\ call.left = api[Root].tasks
    <3>1. api[Root].tasks \in SUBSET AllTasks
      BY <1>2 DEF AllTasks
    <3> QED BY <3>1, <1>2 DEF Call
  <2> HIDE DEF call
  <2>3. /\ stack' \in Seq(Call) /\ Len(stack') = 1 /\ DOMAIN stack' = 1..1 /\ stack'[1] = call
    BY <2>1, <2>2
  <2>4. \A u : RowsIn(rows', u) = {}
    <3>1. \A i \in DOMAIN rows' : rows'[i].mark = "start"
      BY <1>4
    <3> QED BY <3>1 DEF RowsIn
  <2>5. TypeOK'
    BY <1>1, <1>3, <1>4, <1>5, <2>1, <2>3 DEF Inv, IInv, TypeOK
  <2>6. GraphsAreApart' /\ PhasesFit'
    BY <1>1, <1>3, <2>1 DEF Inv, IInv, GraphsAreApart, PhasesFit
  <2>7. \A i \in 1..1 : i = 1
    OBVIOUS
  <2>8. RowsAreOnce' /\ RowsAreInGraphs'
    BY <1>2, <1>3, <1>4, <2>7 DEF RowsAreOnce, RowsAreInGraphs, IsWorkflow
  <2>9. RowsWait'
    <3>1. ASSUME NEW g \in DOMAIN api, NEW d \in api[g].deps, NEW i \in 1..1, rows'[i].task = d[1]
          PROVE  FALSE
      <4>1. d[1] \in api[g].tasks /\ Root \notin api[g].tasks
        BY <1>3 DEF Inv, IInv, GraphsAreApart
      <4> QED BY <4>1, <3>1, <1>4, <2>7
    <3> QED BY <3>1, <1>3, <1>4 DEF RowsWait
  <2>10. RowsPrecede'
    BY <1>1, <1>3, PutKeepsRowsPrecede
  <2>11. MarkersPrecede'
    BY <1>4, <2>2, <2>3, <2>7 DEF MarkersPrecede
  <2>12. CallsFit'
    <3>1. \A u \in api[Root].tasks : u # Root
      BY <1>2, <1>3 DEF Inv, IInv, GraphsAreApart
    <3> QED BY <3>1, <1>3, <1>4, <2>2, <2>3, <2>4, <2>7 DEF CallsFit, RowsOf, RowsIn
  <2>13. GraphsEnd'
    BY <1>4, <2>2, <2>3, <2>4, <2>7 DEF GraphsEnd, RowsOf, RowsIn
  <2> QED BY <1>4, <2>5, <2>6, <2>8, <2>9, <2>10, <2>11, <2>12, <2>13 DEF Inv, IInv
<1> QED BY <1>6, <1>7

-----------------------------------------------------------------------------
(* The graphs, rows and calls fit together at all times: the inductive     *)
(* invariant, and that what comes before each row is well defined.         *)
THEOREM Invariance == Spec => []Inv
<1>1. Init => Inv
  BY InitIsInv
<1>2. Inv /\ [Next]_vars => Inv'
  <2> SUFFICES ASSUME Inv, [Next]_vars PROVE Inv'
    OBVIOUS
  <2>1. CASE Build
    BY <2>1, BuildKeepsInv
  <2>2. CASE Compile
    BY <2>2, CompileKeepsInv
  <2>3. CASE CompileEnd
    BY <2>3, CompileEndKeepsInv
  <2>4. CASE \E t : CompileTask(t)
    BY <2>4, CompileTaskKeepsInv
  <2>5. CASE \E t : CompileSubWorkflow(t)
    BY <2>5, CompileSubWorkflowKeepsInv
  <2>6. CASE UNCHANGED vars
    <3>1. UNCHANGED <<workflow, service, api, pc, rows, stack>>
      BY <2>6 DEF vars
    <3>2. TypeOK' = TypeOK /\ (HasOneSolution(rows)' = HasOneSolution(rows))
      BY <3>1 DEF TypeOK, Row, Call, AllTasks
    <3>3. Preceding' = Preceding /\ NonDependent' = NonDependent
      BY <3>1 DEF Preceding, NonDependent
    <3>4. /\ GraphsAreApart' = GraphsAreApart /\ PhasesFit' = PhasesFit
          /\ RowsAreOnce' = RowsAreOnce /\ RowsAreInGraphs' = RowsAreInGraphs
      BY <3>1 DEF GraphsAreApart, PhasesFit, RowsAreOnce, IsWorkflow, RowsAreInGraphs
    <3>5. CallsFit' = CallsFit /\ GraphsEnd' = GraphsEnd /\ RowsWait' = RowsWait
      BY <3>1 DEF CallsFit, GraphsEnd, RowsWait, RowsOf
    <3>6. RowsPrecede' = RowsPrecede /\ MarkersPrecede' = MarkersPrecede
      BY <3>1, <3>3 DEF RowsPrecede, MarkersPrecede
    <3> QED BY <3>1, <3>2, <3>4, <3>5, <3>6 DEF Inv, IInv
  <2> QED BY <2>1, <2>2, <2>3, <2>4, <2>5, <2>6 DEF Next, Step
<1> QED BY <1>1, <1>2, PTL DEF Spec

(* Types alone: calls are of graphs there are, rows depend on earlier ones *)
(* (graph_compiler.py, compile and _create_*_task).                        *)
THEOREM TypeCorrect == Spec => []TypeOK
<1>1. Inv => TypeOK
  BY DEF Inv, IInv
<1> QED BY <1>1, Invariance, PTL

-----------------------------------------------------------------------------
(* Once the last call has returned, everything that has a row has ended,   *)
(* and so has everything that is in a graph that was compiled.             *)
LEMMA AllHasEnded ==
  ASSUME Inv, pc = "done"
  PROVE  \A g \in Compiled : RowsOf(g) # {} /\ \A t \in api[g].tasks : RowsOf(t) # {}
<1>1. stack = <<>>
  BY DEF Inv, IInv, PhasesFit
<1>2. ASSUME NEW g \in Compiled
      PROVE  RowsOf(g) # {} /\ \A t \in api[g].tasks : RowsOf(t) # {}
  <2>1. g \in DOMAIN api /\ \E i \in DOMAIN rows : rows[i].task = g
    BY DEF Compiled
  <2>2. RowsOf(g) # {}
    BY <1>1, <2>1 DEF Inv, IInv, GraphsEnd
  <2> QED BY <2>1, <2>2 DEF Inv, IInv, GraphsEnd
<1> QED BY <1>2

(* A task has one row of each mark.                                        *)
LEMMA RowIsTheOne ==
  ASSUME Inv, pc # "raised", NEW i \in DOMAIN rows
  PROVE  RowOf(rows[i].task, rows[i].mark) = i
<1> DEFINE j == RowOf(rows[i].task, rows[i].mark)
<1>1. j \in DOMAIN rows /\ rows[j].task = rows[i].task /\ rows[j].mark = rows[i].mark
  BY DEF RowOf
<1> QED BY <1>1 DEF Inv, IInv, RowsAreOnce

(* The rows of a task that has ended: its first row comes before the       *)
(* others, and the others come before its last one.                        *)
LEMMA SpanOfEnded ==
  ASSUME Inv, pc # "raised", NEW t, RowsOf(t) # {}
  PROVE  \E first, last \in DOMAIN rows :
           /\ rows[first].task = t /\ rows[first].mark \in {"start", "task"}
           /\ RowsOf(t) = {last}
           /\ Span(t) \subseteq DOMAIN rows
           /\ \A i \in Span(t) : /\ i = first \/ first \in Preceding[i]
                                 /\ i = last \/ i \in Preceding[last]
           /\ IsWorkflow(t) => first = RowOf(t, "start") /\ last = RowOf(t, "end")
<1>1. PICK last \in RowsOf(t) : TRUE
  OBVIOUS
<1>2. last \in DOMAIN rows /\ rows[last].task = t /\ rows[last].mark \in {"end", "task"}
  BY <1>1 DEF RowsOf
<1>3. Len(rows) \in Nat /\ DOMAIN rows = 1..Len(rows)
  BY DEF Inv, IInv, TypeOK
<1>4. rows[last].mark = "task" <=> ~IsWorkflow(t)
  BY <1>2 DEF Inv, IInv, RowsAreOnce
<1>5. RowsOf(t) = {last}
  <2>1. ASSUME NEW i \in RowsOf(t)
        PROVE  i = last
    <3>1. i \in DOMAIN rows /\ rows[i].task = t /\ rows[i].mark \in {"end", "task"}
      BY DEF RowsOf
    <3>2. rows[i].mark = "task" <=> ~IsWorkflow(t)
      BY <3>1 DEF Inv, IInv, RowsAreOnce
    <3>3. rows[i].mark = rows[last].mark
      BY <1>2, <1>4, <3>1, <3>2
    <3> QED BY <1>2, <3>1, <3>3 DEF Inv, IInv, RowsAreOnce
  <2> QED BY <1>1, <2>1
<1>6. RowOf(t, rows[last].mark) = last
  BY <1>2, RowIsTheOne
<1>7. CASE IsWorkflow(t)
  <2>1. rows[last].mark = "end"
    BY <1>2, <1>4, <1>7
  <2>2. PICK first \in DOMAIN rows : rows[first].task = t /\ rows[first].mark = "start"
    BY <1>2, <2>1 DEF Inv, IInv, RowsAreOnce
  <2>3. first < last /\ \A k \in (first + 1)..last : first \in Preceding[k]
    BY <1>2, <2>1, <2>2 DEF Inv, IInv, MarkersPrecede
  <2>4. Preceding[last] = 1..(last - 1)
    BY <1>2, <2>1 DEF Inv, IInv, MarkersPrecede
  <2>5. RowOf(t, "start") = first /\ RowOf(t, "end") = last
    BY <2>1, <2>2, <1>6, RowIsTheOne
  <2>6. Span(t) = first..last
    BY <1>7, <2>5 DEF Span
  <2>7. ASSUME NEW i \in first..last
        PROVE  /\ i \in DOMAIN rows
               /\ i = first \/ first \in Preceding[i]
               /\ i = last \/ i \in Preceding[last]
    <3>1. i \in 1..Len(rows) /\ first \in Nat /\ last \in Nat /\ i \in Nat /\ 1 <= first
      BY <1>2, <1>3, <2>2
    <3>2. i = first \/ i \in (first + 1)..last
      BY <3>1
    <3>3. i = last \/ i \in 1..(last - 1)
      BY <3>1
    <3> QED BY <1>3, <2>3, <2>4, <3>1, <3>2, <3>3
  <2> QED BY <1>2, <1>5, <2>2, <2>5, <2>6, <2>7
<1>8. CASE ~IsWorkflow(t)
  <2>1. Span(t) = {last}
    BY <1>4, <1>6, <1>8 DEF Span
  <2> QED BY <1>2, <1>4, <1>5, <1>8, <2>1
<1> QED BY <1>7, <1>8

(* What a row depends on comes before it.                                  *)
LEMMA DependenciesPrecede ==
  ASSUME Inv, NEW i \in DOMAIN rows
  PROVE  pc # "raised" => rows[i].deps \subseteq Preceding[i]
<1> SUFFICES ASSUME pc # "raised" PROVE rows[i].deps \subseteq Preceding[i]
  OBVIOUS
<1>1. Solves(PrecedingOf(rows), rows)
  BY DEF Inv, HasOneSolution, PrecedingOf
<1>2. Preceding[i] = Before(Preceding, rows, i)
  <2> DEFINE before == PrecedingOf(rows)
  <2> HIDE DEF before
  <2>1. before = [j \in DOMAIN rows |-> Before(before, rows, j)]
    BY <1>1 DEF Solves, before
  <2>2. before[i] = Before(before, rows, i)
    BY <2>1
  <2> QED BY <2>2, PrecedingIsOfRows DEF before
<1> QED BY <1>2 DEF Before

-----------------------------------------------------------------------------
(* If a task depends on another, in whatever graph of a compiled workflow, *)
(* all rows of the first wait for all rows of the second, however deep the *)
(* sub-workflows (compile, _get_tasks_from_dependencies).                  *)
THEOREM OrderIsKept == Spec => []OrderKept
<1>1. ASSUME Inv
      PROVE  OrderKept
  <2> SUFFICES ASSUME pc = "done", NEW g \in Compiled, NEW d \in api[g].deps,
                      NEW i \in Span(d[1]), NEW j \in Span(d[2])
               PROVE  j \in Preceding[i]
    BY DEF OrderKept
  <2>1. pc # "raised" /\ g \in DOMAIN api
    BY DEF Compiled
  <2>2. d[1] \in api[g].tasks /\ d[2] \in api[g].tasks
    BY <1>1, <2>1 DEF Inv, IInv, GraphsAreApart
  <2>3. RowsOf(d[1]) # {} /\ RowsOf(d[2]) # {}
    BY <1>1, <2>2, AllHasEnded
  <2>4. PICK first \in DOMAIN rows :
          /\ rows[first].task = d[1] /\ rows[first].mark \in {"start", "task"}
          /\ i \in DOMAIN rows /\ (i = first \/ first \in Preceding[i])
    BY <1>1, <2>1, <2>3, SpanOfEnded
  <2>5. PICK last \in DOMAIN rows :
          RowsOf(d[2]) = {last} /\ (j = last \/ j \in Preceding[last])
    BY <1>1, <2>1, <2>3, SpanOfEnded
  <2>6. last \in rows[first].deps
    <3>1. rows[first].deps \cap RowsOf(d[2]) # {}
      BY <1>1, <2>1, <2>4 DEF Inv, IInv, RowsWait
    <3> QED BY <3>1, <2>5
  <2>7. last \in Preceding[first]
    BY <1>1, <2>1, <2>6, DependenciesPrecede
  <2>8. \A k \in DOMAIN rows : \A l \in Preceding[k] : Preceding[l] \subseteq Preceding[k]
    BY <1>1, <2>1 DEF Inv, IInv, RowsPrecede
  <2>9. j \in Preceding[first]
    BY <2>5, <2>7, <2>8
  <2> QED BY <2>4, <2>8, <2>9
<1>2. Inv => OrderKept
  BY <1>1
<1> QED BY <1>2, Invariance, PTL

(* The markers of every graph that was compiled enclose it: nothing of it  *)
(* runs before its start marker, and its end marker runs after all of it   *)
(* (compile).                                                              *)
THEOREM MarkersAreEnclosing == Spec => []MarkersEnclose
<1>1. ASSUME Inv
      PROVE  MarkersEnclose
  <2> SUFFICES ASSUME pc = "done", NEW g \in Compiled
               PROVE  /\ \A i \in Span(g) \ {RowOf(g, "start"), RowOf(g, "end")} :
                           RowOf(g, "start") \in Preceding[i]
                      /\ Span(g) \ {RowOf(g, "end")} \subseteq Preceding[RowOf(g, "end")]
    BY DEF MarkersEnclose
  <2>1. pc # "raised" /\ IsWorkflow(g)
    BY DEF Compiled, IsWorkflow
  <2>2. RowsOf(g) # {}
    BY <1>1, AllHasEnded
  <2>3. \A i \in Span(g) : /\ i = RowOf(g, "start") \/ RowOf(g, "start") \in Preceding[i]
                           /\ i = RowOf(g, "end") \/ i \in Preceding[RowOf(g, "end")]
    BY <1>1, <2>1, <2>2, SpanOfEnded
  <2> QED BY <2>3
<1>2. Inv => MarkersEnclose
  BY <1>1
<1> QED BY <1>2, Invariance, PTL

-----------------------------------------------------------------------------
(* Induction: a set of numbers has a least element, and so has a set of    *)
(* items of a sequence a last one.                                         *)
LEMMA LeastNumber ==
  ASSUME NEW T, T \subseteq Nat, T # {}
  PROVE  \E x \in T : \A y \in T : x <= y
<1> DEFINE R == OpToRel(<, Nat)
<1>1. IsWellFoundedOn(R, Nat)
  BY NatLessThanWellFounded
<1>2. \A x, y \in Nat : x < y => <<x, y>> \in R
  BY DEF OpToRel
<1> HIDE DEF R
<1>3. PICK x \in T : \A y \in T : ~ (<<y, x>> \in R)
  BY <1>1, WFMin
<1>4. ASSUME NEW y \in T
      PROVE  x <= y
  <2>1. ~ (y < x)
    BY <1>2, <1>3
  <2> QED BY <2>1
<1> QED BY <1>3, <1>4

(* A bounded set of numbers has a largest one.                             *)
LEMMA LastNumber ==
  ASSUME NEW b \in Nat, NEW T, T \subseteq 0..b, T # {}
  PROVE  \E x \in T : \A y \in T : y <= x
<1> DEFINE U == {b - y : y \in T}
<1>1. U \subseteq Nat /\ U # {}
  <2>1. \A y \in 0..b : b - y \in Nat
    OBVIOUS
  <2>2. \A y \in T : b - y \in Nat
    BY <2>1
  <2> QED BY <2>2
<1>2. PICK u \in U : \A v \in U : u <= v
  BY <1>1, LeastNumber
<1>3. PICK x \in T : u = b - x
  OBVIOUS
<1>4. ASSUME NEW y \in T
      PROVE  y <= x
  <2>1. x \in 0..b /\ y \in 0..b
    OBVIOUS
  <2>2. b - y \in U
    OBVIOUS
  <2>3. b - x <= b - y
    BY <1>2, <1>3, <2>2
  <2> QED BY <2>1, <2>3
<1> QED BY <1>4

-----------------------------------------------------------------------------
(* The items of a sequence: which has a task, and which comes ahead.       *)
Holds(items, t) == \E a \in DOMAIN items : t \in items[a]

Ahead(items, t, u) ==
  \E a, b \in DOMAIN items : a < b /\ t \in items[a] /\ u \in items[b]

(* The items of two sequences put together: each holds what it held, and   *)
(* keeps its order.                                                        *)
LEMMA JoinedItems ==
  ASSUME NEW S, NEW x \in Seq(S), NEW y \in Seq(S), NEW t, NEW u
  PROVE  /\ x \o y \in Seq(S)
         /\ Holds(x, t) => Holds(x \o y, t)
         /\ Holds(y, t) => Holds(x \o y, t)
         /\ Holds(x \o y, t) => Holds(x, t) \/ Holds(y, t)
         /\ Ahead(x, t, u) => Ahead(x \o y, t, u)
         /\ Ahead(y, t, u) => Ahead(x \o y, t, u)
         /\ Holds(x, t) /\ Holds(y, u) => Ahead(x \o y, t, u)
<1> DEFINE z == x \o y
           n == Len(x)
           m == Len(y)
<1>1. /\ n \in Nat /\ m \in Nat /\ DOMAIN x = 1..n /\ DOMAIN y = 1..m /\ DOMAIN z = 1..(n + m)
      /\ \A i \in 1..n : z[i] = x[i]
      /\ \A i \in 1..m : z[n + i] = y[i]
      /\ z \in Seq(S)
  OBVIOUS
<1> HIDE DEF z, n, m
<1>2. /\ \A i \in 1..n : i \in DOMAIN z
      /\ \A i \in 1..m : n + i \in DOMAIN z
      /\ \A i \in DOMAIN z : i \in 1..n \/ (i - n \in 1..m /\ i = n + (i - n))
      /\ \A i \in 1..n, j \in 1..m : i < n + j
      /\ \A i, j \in 1..m : i < j => n + i < n + j
  BY <1>1
<1>3. /\ Holds(x, t) => Holds(z, t)
      /\ Holds(y, t) => Holds(z, t)
  BY <1>1, <1>2 DEF Holds
<1>4. ASSUME Holds(z, t)
      PROVE  Holds(x, t) \/ Holds(y, t)
  <2>1. PICK i \in DOMAIN z : t \in z[i]
    BY <1>4 DEF Holds
  <2>2. CASE i \in 1..n
    BY <2>1, <2>2, <1>1 DEF Holds
  <2>3. CASE i - n \in 1..m /\ i = n + (i - n)
    <3>1. z[i] = y[i - n]
      BY <2>3, <1>1
    <3> QED BY <2>1, <2>3, <3>1, <1>1 DEF Holds
  <2> QED BY <2>1, <2>2, <2>3, <1>2
<1>5. Ahead(x, t, u) => Ahead(z, t, u)
  BY <1>1, <1>2 DEF Ahead
<1>6. ASSUME Ahead(y, t, u)
      PROVE  Ahead(z, t, u)
  <2>1. PICK i \in 1..m, j \in 1..m : i < j /\ t \in y[i] /\ u \in y[j]
    BY <1>1, <1>6 DEF Ahead
  <2>2. n + i \in DOMAIN z /\ n + j \in DOMAIN z /\ n + i < n + j
    BY <1>2, <2>1
  <2>3. t \in z[n + i] /\ u \in z[n + j]
    BY <1>1, <2>1
  <2> QED BY <2>2, <2>3 DEF Ahead
<1>7. ASSUME Holds(x, t), Holds(y, u)
      PROVE  Ahead(z, t, u)
  <2>1. PICK i \in 1..n, j \in 1..m : t \in x[i] /\ u \in y[j]
    BY <1>1, <1>7 DEF Holds
  <2>2. i \in DOMAIN z /\ n + j \in DOMAIN z /\ i < n + j
    BY <1>2
  <2>3. t \in z[i] /\ u \in z[n + j]
    BY <1>1, <2>1
  <2> QED BY <2>2, <2>3 DEF Ahead
<1> QED BY <1>1, <1>3, <1>4, <1>5, <1>6, <1>7 DEF z

-----------------------------------------------------------------------------
(* The rows of the tasks of a graph come before its end marker.            *)
RowsAreEnclosed ==
  pc # "raised" =>
    \A i, j \in DOMAIN rows :
      rows[j].mark = "end" /\ rows[j].task \in DOMAIN api
        /\ rows[i].task \in api[rows[j].task].tasks => i < j

(* Putting a row keeps the rows of a sub-workflow between its markers.     *)
LEMMA PutKeepsEnclosed ==
  ASSUME Inv, pc # "raised", RowsAreEnclosed, NEW t \in AllTasks, NEW mark \in Marks,
         NEW deps \in SUBSET DOMAIN rows, Put(t, mark, deps), UNCHANGED api,
         \A g \in DOMAIN api : t \in api[g].tasks => RowsOf(g) = {},
         mark = "end" => t \in DOMAIN api /\ t \notin api[t].tasks
  PROVE  RowsAreEnclosed'
<1> DEFINE n == Len(rows)
<1>1. /\ n \in Nat /\ DOMAIN rows = 1..n /\ DOMAIN rows' = 1..(n + 1)
      /\ \A i \in 1..n : rows'[i] = rows[i]
      /\ rows'[n + 1].task = t /\ rows'[n + 1].mark = mark
  BY PutExtends
<1> HIDE DEF n
<1>2. ASSUME NEW i \in 1..(n + 1), NEW j \in 1..(n + 1), rows'[j].mark = "end",
             rows'[j].task \in DOMAIN api, rows'[i].task \in api[rows'[j].task].tasks
      PROVE  i < j
  <2>1. CASE j = n + 1
    <3>1. i # n + 1
      BY <2>1, <1>1, <1>2
    <3> QED BY <2>1, <3>1, <1>1
  <2>2. CASE j # n + 1
    <3>1. j \in 1..n /\ rows'[j] = rows[j]
      BY <2>2, <1>1
    <3>2. j \in RowsOf(rows[j].task)
      BY <3>1, <1>1, <1>2 DEF RowsOf
    <3>3. i # n + 1
      BY <3>1, <3>2, <1>1, <1>2
    <3>4. i \in 1..n /\ rows'[i] = rows[i]
      BY <3>3, <1>1
    <3> QED BY <3>1, <3>4, <1>1, <1>2 DEF RowsAreEnclosed
  <2> QED BY <2>1, <2>2
<1> QED BY <1>1, <1>2 DEF RowsAreEnclosed

(* The graph that a task is in has not ended before the task has.          *)
LEMMA EnclosingHasNotEnded ==
  ASSUME Inv, pc # "raised", NEW t, RowsOf(t) = {}
  PROVE  \A g \in DOMAIN api : t \in api[g].tasks => RowsOf(g) = {}
BY DEF Inv, IInv, GraphsEnd

(* Rows are always between their markers,                                  *)
LEMMA EnclosureIsKept == Spec => []RowsAreEnclosed
<1>1. Init => RowsAreEnclosed
  BY DEF Init, RowsAreEnclosed
<1>2. Inv /\ RowsAreEnclosed /\ [Next]_vars => RowsAreEnclosed'
  <2> SUFFICES ASSUME Inv, RowsAreEnclosed, [Next]_vars PROVE RowsAreEnclosed'
    OBVIOUS
  <2>1. CASE Build
    <3>1. rows' = rows /\ pc \in {"building", "built"}
      BY <2>1 DEF Build, AddTask, RemoveTask, Depend, Independ, Edit, FunctionReturns
    <3>2. rows = <<>>
      BY <3>1 DEF Inv, IInv, PhasesFit
    <3> QED BY <3>1, <3>2 DEF RowsAreEnclosed
  <2>2. CASE Compile
    <3>1. pc = "built" /\ Put(Root, "start", {}) /\ UNCHANGED api
      BY <2>2 DEF Compile, Enter
    <3>2. rows = <<>> /\ Root \in AllTasks /\ "start" \in Marks
      BY <3>1 DEF Inv, IInv, PhasesFit, AllTasks, Marks
    <3>3. \A g : RowsOf(g) = {}
      BY <3>2 DEF RowsOf
    <3> QED BY <3>1, <3>2, <3>3, PutKeepsEnclosed
  <2>3. CASE CompileEnd
    <3>1. /\ pc = "compiling" /\ stack # <<>> /\ Top.left = {} /\ UNCHANGED api
          /\ Put(Top.graph, "end", IF NonDependent = {} THEN {Top.start} ELSE NonDependent)
      BY <2>3 DEF CompileEnd
    <3>2. /\ Top.graph \in DOMAIN api /\ Top.start \in DOMAIN rows /\ RowsOf(Top.graph) = {}
          /\ \A t \in api[Top.graph].tasks \ Top.left : RowsOf(t) # {}
      BY <3>1, CallInProgress
    <3>3. Top.graph \notin api[Top.graph].tasks
      BY <3>1, <3>2
    <3>4. Top.graph \in AllTasks
      <4>1. PICK i \in DOMAIN rows : rows[i].task = Top.graph
        BY <3>1, CallInProgress
      <4>2. rows[i] \in Row
        BY <4>1 DEF Inv, IInv, TypeOK
      <4> QED BY <4>1, <4>2 DEF Row
    <3>5. (IF NonDependent = {} THEN {Top.start} ELSE NonDependent) \in SUBSET DOMAIN rows
      BY <3>2 DEF NonDependent
    <3>6. "end" \in Marks
      BY DEF Marks
    <3> QED BY <3>1, <3>2, <3>3, <3>4, <3>5, <3>6, EnclosingHasNotEnded, PutKeepsEnclosed
  <2>4. ASSUME NEW t, CompileTask(t) \/ CompileSubWorkflow(t)
        PROVE  RowsAreEnclosed'
    <3>1. /\ pc = "compiling" /\ stack # <<>> /\ IsNext(Top, t) /\ UNCHANGED api
          /\ \E mark \in {"start", "task"} : Put(t, mark, After(Top, t))
      BY <2>4 DEF CompileTask, CompileSubWorkflow, Enter
    <3>2. PICK mark \in {"start", "task"} : Put(t, mark, After(Top, t))
      BY <3>1
    <3>3. t \in AllTasks /\ After(Top, t) \in SUBSET DOMAIN rows
      BY <3>1, RowAfterDependencies
    <3>4. RowsOf(t) = {}
      BY <3>1, CallInProgress DEF IsNext, RowsOf
    <3>5. mark \in Marks /\ mark # "end"
      BY DEF Marks
    <3> QED BY <3>1, <3>2, <3>3, <3>4, <3>5, EnclosingHasNotEnded, PutKeepsEnclosed
  <2>5. CASE UNCHANGED vars
    BY <2>5 DEF vars, RowsAreEnclosed
  <2> QED BY <2>1, <2>2, <2>3, <2>4, <2>5 DEF Next, Step
<1> QED BY <1>1, <1>2, Invariance, PTL DEF Spec

(* The graphs of a built-in workflow stay as they were built.              *)
GraphsAreBuiltin ==
  /\ pc = "building" => workflow = "custom"
  /\ workflow # "custom" =>
       workflow \in Workflows /\ service \in Services /\ api = Builtin(workflow, service)

(* and graphs of built-in workflows always those of the service.           *)
LEMMA BuiltinIsKept == Spec => []GraphsAreBuiltin
<1>1. Init => GraphsAreBuiltin
  BY DEF Init, GraphsAreBuiltin
<1>2. GraphsAreBuiltin /\ [Next]_vars => GraphsAreBuiltin'
  <2> SUFFICES ASSUME GraphsAreBuiltin, [Next]_vars PROVE GraphsAreBuiltin'
    OBVIOUS
  <2>1. CASE Build
    <3>1. /\ UNCHANGED <<workflow, service>> /\ pc = "building"
          /\ pc' \in {"building", "built"}
      BY <2>1 DEF Build, AddTask, RemoveTask, Depend, Independ, Edit, FunctionReturns
    <3> QED BY <3>1 DEF GraphsAreBuiltin
  <2>2. CASE Step \/ UNCHANGED vars
    <3>1. UNCHANGED <<workflow, service, api>> /\ (pc' = "building" => pc = "building")
      BY <2>2 DEF Step, vars, Compile, CompileEnd, CompileTask, CompileSubWorkflow, Enter
    <3> QED BY <3>1 DEF GraphsAreBuiltin
  <2> QED BY <2>1, <2>2 DEF Next
<1> QED BY <1>1, <1>2, PTL DEF Spec

-----------------------------------------------------------------------------
(* A compiled sequence: whoever is ahead comes before, through the items   *)
(* between the two that are not empty.                                     *)
LEMMA SequenceHas ==
  ASSUME NEW items
  PROVE  LET graph == Sequence(EmptyGraph, items)
         IN  /\ \A t : t \in graph.tasks <=> Holds(items, t)
             /\ \A p, q \in DOMAIN items :
                  p < q /\ (\A k \in DOMAIN items : p < k /\ k < q => items[k] = {}) =>
                    \A t \in items[p], u \in items[q] : <<u, t>> \in graph.deps
<1> DEFINE graph == Sequence(EmptyGraph, items)
           pairs == {p \in (DOMAIN items) \X (DOMAIN items) :
                       /\ p[1] < p[2]
                       /\ \A k \in DOMAIN items : p[1] < k /\ k < p[2] => items[k] = {}}
           deps == UNION {items[p[2]] \X items[p[1]] : p \in pairs}
           tasks == UNION {items[i] : i \in DOMAIN items}
<1>1. graph = [tasks |-> {} \cup tasks, deps |-> {} \cup deps]
  BY DEF Sequence, EmptyGraph
<1>2. \A t : t \in tasks <=> Holds(items, t)
  BY DEF Holds
<1>3. ASSUME NEW p \in DOMAIN items, NEW q \in DOMAIN items, p < q,
             \A k \in DOMAIN items : p < k /\ k < q => items[k] = {},
             NEW t \in items[p], NEW u \in items[q]
      PROVE  <<u, t>> \in deps
  <2>1. <<p, q>> \in pairs
    BY <1>3
  <2>2. <<u, t>> \in items[<<p, q>>[2]] \X items[<<p, q>>[1]]
    OBVIOUS
  <2> QED BY <2>1, <2>2
<1> HIDE DEF tasks, deps, graph
<1>4. graph.tasks = tasks /\ graph.deps = deps
  BY <1>1
<1> QED BY <1>2, <1>3, <1>4 DEF graph

(* Tasks one of which depends on the other have their rows in that order.  *)
LEMMA DependenciesInOrder ==
  ASSUME Inv, pc # "raised", NEW g \in DOMAIN api, NEW u, NEW v, <<u, v>> \in api[g].deps,
         ~IsWorkflow(u), ~IsWorkflow(v)
  PROVE  Precedes(v, u)
<1> SUFFICES ASSUME NEW i \in DOMAIN rows, NEW j \in DOMAIN rows,
                    rows[i].task = v, rows[j].task = u
             PROVE  i \in Preceding[j]
  BY DEF Precedes
<1>1. rows[i].mark = "task" /\ rows[j].mark = "task"
  BY DEF Inv, IInv, RowsAreOnce
<1>2. PICK k \in RowsOf(v) : k \in rows[j].deps
  BY <1>1 DEF Inv, IInv, RowsWait
<1>3. k \in DOMAIN rows /\ rows[k].task = v
  BY <1>2 DEF RowsOf
<1>4. rows[k].mark = "task"
  BY <1>3 DEF Inv, IInv, RowsAreOnce
<1>5. k = i
  BY <1>1, <1>3, <1>4 DEF Inv, IInv, RowsAreOnce
<1> QED BY <1>2, <1>5, DependenciesPrecede

(* A task that has a row is in a graph that was compiled.                  *)
LEMMA GraphOfRow ==
  ASSUME Inv, pc # "raised", NEW i \in DOMAIN rows, rows[i].task # Root
  PROVE  \E g \in Compiled, s \in DOMAIN rows :
           /\ rows[i].task \in api[g].tasks /\ s < i
           /\ rows[s].task = g /\ rows[s].mark = "start"
<1>1. PICK g \in DOMAIN api, j \in 1..(i - 1) :
        rows[i].task \in api[g].tasks /\ rows[j].task = g /\ rows[j].mark = "start"
  BY DEF Inv, IInv, RowsAreInGraphs
<1>2. Len(rows) \in Nat /\ DOMAIN rows = 1..Len(rows)
  BY DEF Inv, IInv, TypeOK
<1>3. j \in DOMAIN rows /\ j < i
  BY <1>1, <1>2
<1> QED BY <1>1, <1>3 DEF Compiled

(* So have the tasks of two items of a sequence, even with empty items     *)
(* between them.                                                           *)
LEMMA SequenceInOrder ==
  ASSUME Inv, pc = "done", NEW S, NEW items \in Seq(S), NEW g \in DOMAIN api,
         api[g] = Sequence(EmptyGraph, items), \A x \in api[g].tasks : ~IsWorkflow(x),
         NEW t, NEW u, Ahead(items, t, u)
  PROVE  Precedes(t, u)
<1>1. PICK a, b \in DOMAIN items : a < b /\ t \in items[a] /\ u \in items[b]
  BY DEF Ahead
<1>2. DOMAIN items \subseteq Nat /\ pc # "raised"
  OBVIOUS
<1>3. \A x : x \in api[g].tasks <=> Holds(items, x)
  BY SequenceHas
<1> DEFINE Late == {c \in DOMAIN items : a < c /\ \E v \in items[c] : ~Precedes(t, v)}
<1>4. ASSUME Late # {}
      PROVE  FALSE
  <2>1. PICK c \in Late : \A x \in Late : c <= x
    BY <1>2, <1>4, LeastNumber
  <2>2. c \in DOMAIN items /\ a < c /\ c \in Nat /\ a \in Nat
    BY <1>1, <1>2
  <2>3. PICK v \in items[c] : ~Precedes(t, v)
    OBVIOUS
  <2> DEFINE Earlier == {k \in DOMAIN items : a <= k /\ k < c /\ items[k] # {}}
  <2>4. a \in Earlier /\ Earlier \subseteq 0..c
    BY <1>1, <1>2, <2>2
  <2>5. PICK p \in Earlier : \A k \in Earlier : k <= p
    BY <2>2, <2>4, LastNumber
  <2>6. p \in DOMAIN items /\ p \in Nat /\ a <= p /\ p < c /\ items[p] # {}
    BY <1>2, <2>5
  <2>7. \A k \in DOMAIN items : p < k /\ k < c => items[k] = {}
    BY <1>2, <2>2, <2>5, <2>6
  <2>8. \A w \in items[p] : <<v, w>> \in api[g].deps
    BY <2>2, <2>3, <2>6, <2>7, SequenceHas
  <2>9. v \in api[g].tasks /\ \A w \in items[p] : w \in api[g].tasks
    BY <1>3, <2>2, <2>3, <2>6 DEF Holds
  <2>10. \A w \in items[p] : Precedes(w, v)
    BY <1>2, <2>8, <2>9, DependenciesInOrder
  <2>11. p # a
    BY <1>1, <2>3, <2>10
  <2>12. PICK w \in items[p] : Precedes(t, w)
    <3>1. a < p
      BY <2>2, <2>6, <2>11
    <3>2. p \notin Late
      BY <2>1, <2>2, <2>6
    <3> QED BY <2>6, <3>1, <3>2
  <2>13. PICK i, j \in DOMAIN rows :
           rows[i].task = t /\ rows[j].task = v /\ i \notin Preceding[j]
    BY <2>3 DEF Precedes
  <2>14. \E k \in DOMAIN rows : rows[k].task = w
    <3>1. rows[j].task # Root
      BY <2>9, <2>13 DEF Inv, IInv, GraphsAreApart
    <3>2. PICK h \in Compiled : v \in api[h].tasks
      BY <1>2, <2>13, <3>1, GraphOfRow
    <3>3. h = g
      BY <1>2, <2>9, <3>2 DEF Inv, IInv, GraphsAreApart, Compiled
    <3>4. RowsOf(w) # {}
      BY <2>9, <3>2, <3>3, AllHasEnded
    <3> QED BY <3>4 DEF RowsOf
  <2>15. PICK k \in DOMAIN rows : rows[k].task = w
    BY <2>14
  <2>16. i \in Preceding[k] /\ k \in Preceding[j]
    BY <2>10, <2>12, <2>13, <2>15 DEF Precedes
  <2>17. Preceding[k] \subseteq Preceding[j]
    BY <1>2, <2>16 DEF Inv, IInv, RowsPrecede
  <2> QED BY <2>13, <2>16, <2>17
<1> QED BY <1>1, <1>4

-----------------------------------------------------------------------------
(* The items of the sequences for a node: its own operations, and those of *)
(* its relationships.                                                      *)
One(s, n, op) == <<Create(s, NodeTask(n, op))>>

(* What the items of a single operation hold,                              *)
LEMMA ItemsOfOne ==
  ASSUME NEW s \in Services, NEW n \in Stored(s), NEW op \in Operations
  PROVE  /\ One(s, n, op) \in Seq(SUBSET Own(s, n))
         /\ NodeTask(n, op) \notin s.missing => Holds(One(s, n, op), NodeTask(n, op))
         /\ \A t : Holds(One(s, n, op), t) => t[3] = op
<1> DEFINE item == Create(s, NodeTask(n, op))
<1>1. item \in SUBSET Own(s, n)
  BY NodeTasksAreOwn
<1>2. item = {<<n, 0, op>>} \ s.missing
  BY DEF Create, NodeTask
<1> HIDE DEF item
<1>3. /\ <<item>> \in Seq(SUBSET Own(s, n)) /\ DOMAIN <<item>> = {1} /\ <<item>>[1] = item
  <2> DEFINE S == SUBSET Own(s, n)
  <2>1. item \in S
    BY <1>1
  <2> HIDE DEF S
  <2>2. <<item>> \in Seq(S) /\ DOMAIN <<item>> = {1} /\ <<item>>[1] = item
    BY <2>1
  <2> QED BY <2>2 DEF S
<1>4. One(s, n, op) = <<item>>
  BY DEF One, item
<1>5. \A t : Holds(<<item>>, t) <=> t \in item
  BY <1>3 DEF Holds
<1>6. <<n, 0, op>>[3] = op
  OBVIOUS
<1> QED BY <1>2, <1>3, <1>4, <1>5, <1>6 DEF NodeTask

(* and those of the operations of each relationship.                       *)
LEMMA ItemsOfEach ==
  ASSUME NEW s \in Services, NEW n \in Stored(s), NEW source \in Operations,
         NEW target \in Operations
  PROVE  LET items == Relationships(s, n, source, target)
         IN  /\ items \in Seq(SUBSET Own(s, n))
             /\ \A r \in DOMAIN s.outbound[n], op \in {source, target} :
                  RelationshipTask(n, r, op) \notin s.missing =>
                    Holds(items, RelationshipTask(n, r, op))
             /\ \A t : Holds(items, t) => t[3] \in {source, target}
<1> DEFINE out == s.outbound[n]
           made(i) == {<<n, i, source>>, <<n, i, target>>} \ s.missing
           items == Relationships(s, n, source, target)
<1>1. items \in Seq(SUBSET Own(s, n))
  BY NodeTasksAreOwn
<1>2. items = [i \in DOMAIN out |-> made(i)]
  BY DEF Relationships, Create, RelationshipTask
<1> HIDE DEF items
<1>3. DOMAIN items = DOMAIN out /\ \A i \in DOMAIN out : items[i] = made(i)
  BY <1>2
<1>4. ASSUME NEW r \in DOMAIN s.outbound[n], NEW op \in {source, target}, <<n, r, op>> \notin s.missing
      PROVE  Holds(items, <<n, r, op>>)
  <2>1. r \in DOMAIN out /\ <<n, r, op>> \in made(r)
    BY <1>4
  <2> QED BY <2>1, <1>3 DEF Holds
<1>5. ASSUME NEW t, Holds(items, t)
      PROVE  t[3] \in {source, target}
  <2>1. PICK i \in DOMAIN out : t \in made(i)
    BY <1>3, <1>5 DEF Holds
  <2>2. t = <<n, i, source>> \/ t = <<n, i, target>>
    BY <2>1
  <2>3. <<n, i, source>>[3] = source /\ <<n, i, target>>[3] = target
    OBVIOUS
  <2> QED BY <2>2, <2>3
<1> QED BY <1>1, <1>4, <1>5 DEF items, RelationshipTask

InstallItems(s, n) ==
  One(s, n, "create")
    \o Relationships(s, n, "pre_configure_source", "pre_configure_target")
    \o One(s, n, "configure")
    \o Relationships(s, n, "post_configure_source", "post_configure_target")
    \o (One(s, n, "start") \o Relationships(s, n, "add_source", "add_target"))

UninstallItems(s, n) ==
  One(s, n, "stop") \o Relationships(s, n, "remove_source", "remove_target")
    \o One(s, n, "delete")

(* The graphs of a node as sequences of such items.                        *)
LEMMA ItemsOfNodes ==
  ASSUME NEW s, NEW n
  PROVE  /\ InstallNode(s, n) = Sequence(EmptyGraph, InstallItems(s, n))
         /\ UninstallNode(s, n) = Sequence(EmptyGraph, UninstallItems(s, n))
BY DEF InstallNode, InstallItems, UninstallNode, UninstallItems, StartTasks, StopTasks, One

(* Six sequences one after the other.                                      *)
LEMMA SixInOrder ==
  ASSUME NEW S, NEW x1 \in Seq(S), NEW x2 \in Seq(S), NEW x3 \in Seq(S), NEW x4 \in Seq(S),
         NEW x5 \in Seq(S), NEW x6 \in Seq(S), NEW t, NEW u
  PROVE  LET x == x1 \o x2 \o x3 \o x4 \o (x5 \o x6)
         IN  /\ x \in Seq(S)
             /\ Holds(x, t) => \/ Holds(x1, t) \/ Holds(x2, t) \/ Holds(x3, t)
                               \/ Holds(x4, t) \/ Holds(x5, t) \/ Holds(x6, t)
             /\ Holds(x1, t) /\ Holds(x3, u) => Ahead(x, t, u)
             /\ Holds(x2, t) /\ Holds(x3, u) => Ahead(x, t, u)
             /\ Holds(x3, t) /\ Holds(x4, u) => Ahead(x, t, u)
             /\ Holds(x3, t) /\ Holds(x5, u) => Ahead(x, t, u)
             /\ Holds(x4, t) /\ Holds(x5, u) => Ahead(x, t, u)
             /\ Holds(x5, t) /\ Holds(x6, u) => Ahead(x, t, u)
<1> DEFINE y2 == x1 \o x2
           y3 == y2 \o x3
           y4 == y3 \o x4
           y6 == x5 \o x6
           x == y4 \o y6
<1>1. y2 \in Seq(S) /\ y6 \in Seq(S)
  BY JoinedItems
<1> HIDE DEF y2, y6
<1>2. y3 \in Seq(S)
  BY <1>1, JoinedItems
<1> HIDE DEF y3
<1>3. y4 \in Seq(S)
  BY <1>2, JoinedItems
<1> HIDE DEF y4
<1>4. x \in Seq(S)
  BY <1>1, <1>3, JoinedItems
<1> HIDE DEF x
<1>5. /\ Holds(x1, t) => Holds(y2, t)
      /\ Holds(x2, t) => Holds(y2, t)
      /\ Holds(y2, t) => Holds(x1, t) \/ Holds(x2, t)
  BY JoinedItems DEF y2
<1>6. /\ Holds(x3, t) => Holds(y3, t)
      /\ Holds(y3, t) => Holds(y2, t) \/ Holds(x3, t)
      /\ Holds(y2, t) /\ Holds(x3, u) => Ahead(y3, t, u)
  BY <1>1, JoinedItems DEF y3
<1>7. /\ Holds(x4, t) => Holds(y4, t)
      /\ Holds(y3, t) => Holds(y4, t)
      /\ Holds(y4, t) => Holds(y3, t) \/ Holds(x4, t)
      /\ Ahead(y3, t, u) => Ahead(y4, t, u)
      /\ Holds(y3, t) /\ Holds(x4, u) => Ahead(y4, t, u)
  BY <1>2, JoinedItems DEF y4
<1>8. /\ Holds(x5, u) => Holds(y6, u)
      /\ Holds(y6, t) => Holds(x5, t) \/ Holds(x6, t)
      /\ Holds(x5, t) /\ Holds(x6, u) => Ahead(y6, t, u)
  BY JoinedItems DEF y6
<1>9. /\ Holds(x, t) => Holds(y4, t) \/ Holds(y6, t)
      /\ Ahead(y4, t, u) => Ahead(x, t, u)
      /\ Ahead(y6, t, u) => Ahead(x, t, u)
      /\ Holds(y4, t) /\ Holds(y6, u) => Ahead(x, t, u)
  BY <1>1, <1>3, JoinedItems DEF x
<1>10. x = x1 \o x2 \o x3 \o x4 \o (x5 \o x6)
  BY DEF x, y4, y3, y2, y6
<1> QED BY <1>4, <1>5, <1>6, <1>7, <1>8, <1>9, <1>10

Installing ==
  {"create", "pre_configure_source", "pre_configure_target", "configure",
   "post_configure_source", "post_configure_target", "start", "add_source", "add_target"}

Uninstalling == {"stop", "remove_source", "remove_target", "delete"}

(* In the items of an installation the operations are in the order of the  *)
(* lifecycle,                                                              *)
LEMMA InstallInOrder ==
  ASSUME NEW s \in Services, NEW n \in Stored(s), NEW t, NEW u,
         t \notin s.missing, u \notin s.missing
  PROVE  LET items == InstallItems(s, n)
         IN  /\ items \in Seq(SUBSET Own(s, n))
             /\ Holds(items, t) => t[3] \in Installing
             /\ t = NodeTask(n, "create") /\ u = NodeTask(n, "configure") => Ahead(items, t, u)
             /\ t = NodeTask(n, "configure") /\ u = NodeTask(n, "start") => Ahead(items, t, u)
             /\ \A r \in DOMAIN s.outbound[n] :
                  /\ t = RelationshipTask(n, r, "pre_configure_target")
                       /\ u = NodeTask(n, "configure") => Ahead(items, t, u)
                  /\ t = NodeTask(n, "configure")
                       /\ u = RelationshipTask(n, r, "post_configure_source") => Ahead(items, t, u)
                  /\ t = RelationshipTask(n, r, "post_configure_target")
                       /\ u = NodeTask(n, "start") => Ahead(items, t, u)
                  /\ t = NodeTask(n, "start")
                       /\ u = RelationshipTask(n, r, "add_source") => Ahead(items, t, u)
<1> DEFINE S == SUBSET Own(s, n)
           x1 == One(s, n, "create")
           x2 == Relationships(s, n, "pre_configure_source", "pre_configure_target")
           x3 == One(s, n, "configure")
           x4 == Relationships(s, n, "post_configure_source", "post_configure_target")
           x5 == One(s, n, "start")
           x6 == Relationships(s, n, "add_source", "add_target")
           items == InstallItems(s, n)
<1>1. Installing \subseteq Operations
  BY DEF Installing, Operations
<1>2. x1 \in Seq(S) /\ x3 \in Seq(S) /\ x5 \in Seq(S)
  BY <1>1, ItemsOfOne DEF Installing
<1>3. x2 \in Seq(S) /\ x4 \in Seq(S) /\ x6 \in Seq(S)
  BY <1>1, ItemsOfEach DEF Installing
<1>4. items = x1 \o x2 \o x3 \o x4 \o (x5 \o x6)
  BY DEF InstallItems
<1> DEFINE each(source, target) == Relationships(s, n, source, target)
<1>5. ASSUME NEW op \in Installing
      PROVE  /\ \A v : Holds(One(s, n, op), v) => v[3] = op
             /\ \A v \in {t, u} : v = NodeTask(n, op) => Holds(One(s, n, op), v)
  <2>1. op \in Operations
    BY <1>1
  <2>2. /\ NodeTask(n, op) \notin s.missing => Holds(One(s, n, op), NodeTask(n, op))
        /\ \A v : Holds(One(s, n, op), v) => v[3] = op
    BY <2>1, ItemsOfOne
  <2>3. \A v \in {t, u} : v \notin s.missing
    OBVIOUS
  <2> QED BY <2>2, <2>3
<1>6. /\ x2 = each("pre_configure_source", "pre_configure_target")
      /\ x4 = each("post_configure_source", "post_configure_target")
      /\ x6 = each("add_source", "add_target")
  OBVIOUS
<1> HIDE DEF each
<1>7. ASSUME NEW source \in Installing, NEW target \in Installing
      PROVE  /\ \A v : Holds(each(source, target), v) => v[3] \in {source, target}
             /\ \A r \in DOMAIN s.outbound[n], v \in {t, u}, op \in {source, target} :
                  v = RelationshipTask(n, r, op) => Holds(each(source, target), v)
  <2>1. source \in Operations /\ target \in Operations
    BY <1>1
  <2>2. /\ \A r \in DOMAIN s.outbound[n], op \in {source, target} :
             RelationshipTask(n, r, op) \notin s.missing =>
               Holds(each(source, target), RelationshipTask(n, r, op))
        /\ \A v : Holds(each(source, target), v) => v[3] \in {source, target}
    BY <2>1, ItemsOfEach DEF each
  <2>3. \A v \in {t, u} : v \notin s.missing
    OBVIOUS
  <2> QED BY <2>2, <2>3
<1>8. /\ \A v : Holds(x1, v) => v[3] = "create"
      /\ \A v : Holds(x3, v) => v[3] = "configure"
      /\ \A v : Holds(x5, v) => v[3] = "start"
      /\ \A v \in {t, u} : v = NodeTask(n, "create") => Holds(x1, v)
      /\ \A v \in {t, u} : v = NodeTask(n, "configure") => Holds(x3, v)
      /\ \A v \in {t, u} : v = NodeTask(n, "start") => Holds(x5, v)
  BY <1>5 DEF Installing
<1>9. /\ \A v : Holds(x2, v) => v[3] \in {"pre_configure_source", "pre_configure_target"}
      /\ \A r \in DOMAIN s.outbound[n], v \in {t, u} :
           v = RelationshipTask(n, r, "pre_configure_target") => Holds(x2, v)
  BY <1>6, <1>7 DEF Installing
<1>10. /\ \A v : Holds(x4, v) => v[3] \in {"post_configure_source", "post_configure_target"}
       /\ \A r \in DOMAIN s.outbound[n], v \in {t, u} :
            v \in {RelationshipTask(n, r, "post_configure_source"),
                   RelationshipTask(n, r, "post_configure_target")} => Holds(x4, v)
  BY <1>6, <1>7 DEF Installing
<1>11. /\ \A v : Holds(x6, v) => v[3] \in {"add_source", "add_target"}
       /\ \A r \in DOMAIN s.outbound[n], v \in {t, u} :
            v = RelationshipTask(n, r, "add_source") => Holds(x6, v)
  BY <1>6, <1>7 DEF Installing
<1> HIDE DEF x1, x2, x3, x4, x5, x6, S, items
<1>12. /\ items \in Seq(S)
       /\ Holds(items, t) => \/ Holds(x1, t) \/ Holds(x2, t) \/ Holds(x3, t)
                             \/ Holds(x4, t) \/ Holds(x5, t) \/ Holds(x6, t)
       /\ Holds(x1, t) /\ Holds(x3, u) => Ahead(items, t, u)
       /\ Holds(x2, t) /\ Holds(x3, u) => Ahead(items, t, u)
       /\ Holds(x3, t) /\ Holds(x4, u) => Ahead(items, t, u)
       /\ Holds(x3, t) /\ Holds(x5, u) => Ahead(items, t, u)
       /\ Holds(x4, t) /\ Holds(x5, u) => Ahead(items, t, u)
       /\ Holds(x5, t) /\ Holds(x6, u) => Ahead(items, t, u)
  <2>1. LET x == x1 \o x2 \o x3 \o x4 \o (x5 \o x6)
        IN  /\ x \in Seq(S)
            /\ Holds(x, t) => \/ Holds(x1, t) \/ Holds(x2, t) \/ Holds(x3, t)
                              \/ Holds(x4, t) \/ Holds(x5, t) \/ Holds(x6, t)
            /\ Holds(x1, t) /\ Holds(x3, u) => Ahead(x, t, u)
            /\ Holds(x2, t) /\ Holds(x3, u) => Ahead(x, t, u)
            /\ Holds(x3, t) /\ Holds(x4, u) => Ahead(x, t, u)
            /\ Holds(x3, t) /\ Holds(x5, u) => Ahead(x, t, u)
            /\ Holds(x4, t) /\ Holds(x5, u) => Ahead(x, t, u)
            /\ Holds(x5, t) /\ Holds(x6, u) => Ahead(x, t, u)
    BY <1>2, <1>3, SixInOrder, Zenon
  <2> QED BY ONLY <2>1, <1>4
<1>13. Holds(items, t) => t[3] \in Installing
  BY <1>8, <1>9, <1>10, <1>11, <1>12 DEF Installing
<1>14. /\ t = NodeTask(n, "create") /\ u = NodeTask(n, "configure") => Ahead(items, t, u)
       /\ t = NodeTask(n, "configure") /\ u = NodeTask(n, "start") => Ahead(items, t, u)
  BY <1>8, <1>12
<1>15. ASSUME NEW r \in DOMAIN s.outbound[n]
       PROVE  /\ t = RelationshipTask(n, r, "pre_configure_target")
                   /\ u = NodeTask(n, "configure") => Ahead(items, t, u)
              /\ t = NodeTask(n, "configure")
                   /\ u = RelationshipTask(n, r, "post_configure_source") => Ahead(items, t, u)
              /\ t = RelationshipTask(n, r, "post_configure_target")
                   /\ u = NodeTask(n, "start") => Ahead(items, t, u)
              /\ t = NodeTask(n, "start")
                   /\ u = RelationshipTask(n, r, "add_source") => Ahead(items, t, u)
  BY <1>8, <1>9, <1>10, <1>11, <1>12
<1> QED BY <1>12, <1>13, <1>14, <1>15 DEF items, S

(* and in those of an uninstallation.                                      *)
LEMMA UninstallInOrder ==
  ASSUME NEW s \in Services, NEW n \in Stored(s), NEW t, NEW u,
         t \notin s.missing, u \notin s.missing
  PROVE  LET items == UninstallItems(s, n)
         IN  /\ items \in Seq(SUBSET Own(s, n))
             /\ Holds(items, t) => t[3] \in Uninstalling
             /\ t = NodeTask(n, "stop") /\ u = NodeTask(n, "delete") => Ahead(items, t, u)
<1> DEFINE S == SUBSET Own(s, n)
           x1 == One(s, n, "stop")
           x2 == Relationships(s, n, "remove_source", "remove_target")
           x3 == One(s, n, "delete")
           y == x1 \o x2
           items == UninstallItems(s, n)
<1>1. Uninstalling \subseteq Operations
  BY DEF Uninstalling, Operations
<1>2. ASSUME NEW op \in Uninstalling
      PROVE  /\ \A v : Holds(One(s, n, op), v) => v[3] = op
             /\ \A v \in {t, u} : v = NodeTask(n, op) => Holds(One(s, n, op), v)
             /\ One(s, n, op) \in Seq(S)
  <2>1. op \in Operations
    BY <1>1
  <2>2. /\ One(s, n, op) \in Seq(S)
        /\ NodeTask(n, op) \notin s.missing => Holds(One(s, n, op), NodeTask(n, op))
        /\ \A v : Holds(One(s, n, op), v) => v[3] = op
    BY <2>1, ItemsOfOne
  <2>3. \A v \in {t, u} : v \notin s.missing
    OBVIOUS
  <2> HIDE DEF S
  <2> QED BY <2>2, <2>3
<1>3. /\ x1 \in Seq(S) /\ x3 \in Seq(S)
      /\ \A v : Holds(x1, v) => v[3] = "stop"
      /\ \A v : Holds(x3, v) => v[3] = "delete"
      /\ \A v \in {t, u} : v = NodeTask(n, "stop") => Holds(x1, v)
      /\ \A v \in {t, u} : v = NodeTask(n, "delete") => Holds(x3, v)
  BY <1>2 DEF Uninstalling
<1>4. /\ x2 \in Seq(S)
      /\ \A v : Holds(x2, v) => v[3] \in {"remove_source", "remove_target"}
  BY <1>1, ItemsOfEach DEF Uninstalling
<1>5. items = y \o x3
  BY DEF UninstallItems
<1> HIDE DEF x1, x2, x3, S, items
<1>6. /\ y \in Seq(S)
      /\ Holds(x1, t) => Holds(y, t)
      /\ Holds(y, t) => Holds(x1, t) \/ Holds(x2, t)
  BY <1>3, <1>4, JoinedItems
<1> HIDE DEF y
<1>7. /\ items \in Seq(S)
      /\ Holds(items, t) => Holds(y, t) \/ Holds(x3, t)
      /\ Holds(y, t) /\ Holds(x3, u) => Ahead(items, t, u)
  BY <1>3, <1>5, <1>6, JoinedItems
<1>8. Holds(items, t) => t[3] \in Uninstalling
  BY <1>3, <1>4, <1>6, <1>7 DEF Uninstalling
<1>9. t = NodeTask(n, "stop") /\ u = NodeTask(n, "delete") => Ahead(items, t, u)
  BY <1>3, <1>6, <1>7
<1> QED BY <1>7, <1>8, <1>9 DEF items, S

-----------------------------------------------------------------------------
(* The graphs of the install and uninstall workflows, and where the rows   *)
(* of the tasks of a node are once they have been compiled.                *)
ItemsOf(s, n) ==
  IF workflow = "install" THEN InstallItems(s, n) ELSE UninstallItems(s, n)

(* What the graphs of an installation or uninstallation consist of.        *)
LEMMA GraphsOfNodes ==
  ASSUME GraphsAreBuiltin, workflow \in {"install", "uninstall"}
  PROVE  /\ service \in Services
         /\ DOMAIN api = {Root} \cup SubWorkflows(service.nodes)
         /\ api[Root].tasks = SubWorkflows(service.nodes)
         /\ api[Root].deps = Requirements(service, workflow = "uninstall")
         /\ \A n \in service.nodes :
              /\ SubWorkflow(n) # Root /\ SubWorkflow(n) \in DOMAIN api /\ n \in Stored(service)
              /\ api[SubWorkflow(n)] = Sequence(EmptyGraph, ItemsOf(service, n))
              /\ api[SubWorkflow(n)].tasks \subseteq Own(service, n)
<1>1. service \in Services /\ api = Builtin(workflow, service)
  BY DEF GraphsAreBuiltin
<1>2. \A n \in service.nodes : n \in Stored(service) /\ SubWorkflow(n) # Root
  BY <1>1, ServicesAssumption DEF Stored, SubWorkflow, Root
<1>3. \A n \in service.nodes : SubWorkflow(n)[1] = n /\ SubWorkflow(n) \in SubWorkflows(service.nodes)
  BY DEF SubWorkflow, SubWorkflows
<1> DEFINE node(n) ==
             IF workflow = "install" THEN InstallNode(service, n) ELSE UninstallNode(service, n)
<1>4. /\ DOMAIN api = {Root} \cup SubWorkflows(service.nodes)
      /\ api[Root] = [tasks |-> SubWorkflows(service.nodes),
                      deps  |-> Requirements(service, workflow = "uninstall")]
      /\ \A t \in SubWorkflows(service.nodes) : t # Root => api[t] = node(t[1])
  <2>1. CASE workflow = "install"
    <3>1. api = Install(service) /\ (workflow = "uninstall") = FALSE
      BY <2>1, <1>1 DEF Builtin
    <3> QED BY <2>1, <3>1 DEF Install
  <2>2. CASE workflow = "uninstall"
    <3>1. api = Uninstall(service) /\ (workflow = "uninstall") = TRUE
      BY <2>2, <1>1 DEF Builtin
    <3> QED BY <2>2, <3>1 DEF Uninstall
  <2> QED BY <2>1, <2>2
<1>5. ASSUME NEW n \in service.nodes
      PROVE  /\ api[SubWorkflow(n)] = Sequence(EmptyGraph, ItemsOf(service, n))
             /\ api[SubWorkflow(n)].tasks \subseteq Own(service, n)
  <2>1. api[SubWorkflow(n)] = node(n)
    BY <1>2, <1>3, <1>4
  <2>2. node(n) = Sequence(EmptyGraph, ItemsOf(service, n))
    BY ItemsOfNodes DEF ItemsOf
  <2>3. node(n) \in {InstallNode(service, n), UninstallNode(service, n), StartNode(service, n),
                     StopNode(service, n)}
    OBVIOUS
  <2> HIDE DEF node
  <2> QED BY <1>1, <1>2, <2>1, <2>2, <2>3, NodeGraphsAreOwn DEF Within
<1> QED BY <1>1, <1>2, <1>3, <1>4, <1>5

(* A row of a node's operation is among those of the node's sub-workflow.  *)
LEMMA RowOfNode ==
  ASSUME Inv, RowsAreEnclosed, GraphsAreBuiltin, pc = "done",
         workflow \in {"install", "uninstall"}, NEW n, NEW t, NEW i \in DOMAIN rows,
         rows[i].task = t, t[1] = n, t[3] # "workflow"
  PROVE  /\ n \in service.nodes /\ t \in api[SubWorkflow(n)].tasks /\ t \notin service.missing
         /\ t[3] \in (IF workflow = "install" THEN Installing ELSE Uninstalling)
         /\ SubWorkflow(n) \in Compiled /\ i \in Span(SubWorkflow(n))
<1>1. pc # "raised"
  OBVIOUS
<1>2. t # Root
  <2>1. Root[3] = "workflow"
    BY DEF Root
  <2> QED BY <2>1
<1>3. PICK g \in Compiled, s \in DOMAIN rows :
        t \in api[g].tasks /\ s < i /\ rows[s].task = g /\ rows[s].mark = "start"
  BY <1>1, <1>2, GraphOfRow
<1>4. g \in DOMAIN api
  BY DEF Compiled
<1>5. \A m : SubWorkflow(m)[3] = "workflow"
  BY DEF SubWorkflow
<1>6. g # Root
  <2>1. t \notin SubWorkflows(service.nodes)
    BY <1>5 DEF SubWorkflows
  <2> QED BY <1>3, <2>1, GraphsOfNodes
<1>7. PICK m \in service.nodes : g = SubWorkflow(m)
  BY <1>4, <1>6, GraphsOfNodes DEF SubWorkflows
<1>8. t \in Own(service, m)
  BY <1>3, <1>7, GraphsOfNodes
<1>9. m = n
  <2>1. t = <<m, t[2], t[3]>>
    BY <1>8, OwnTasks
  <2> QED BY <2>1
<1>10. t \notin service.missing
  BY <1>8 DEF Own
<1>11. t[3] \in (IF workflow = "install" THEN Installing ELSE Uninstalling)
  <2>1. Holds(ItemsOf(service, n), t)
    <3>1. api[g] = Sequence(EmptyGraph, ItemsOf(service, n))
      BY <1>7, <1>9, GraphsOfNodes
    <3> QED BY <1>3, <3>1, SequenceHas
  <2>2. service \in Services /\ n \in Stored(service)
    BY <1>7, <1>9, GraphsOfNodes
  <2>3. CASE workflow = "install"
    BY <1>10, <2>1, <2>2, <2>3, InstallInOrder DEF ItemsOf
  <2>4. CASE workflow = "uninstall"
    BY <1>10, <2>1, <2>2, <2>4, UninstallInOrder DEF ItemsOf
  <2> QED BY <2>3, <2>4
<1>12. i \in Span(g)
  <2>1. PICK l \in RowsOf(g) : TRUE
    BY <1>3, AllHasEnded
  <2>2. l \in DOMAIN rows /\ rows[l].task = g /\ rows[l].mark \in {"end", "task"}
    BY <2>1 DEF RowsOf
  <2>3. rows[l].mark = "end"
    BY <1>1, <1>4, <2>2 DEF Inv, IInv, RowsAreOnce, IsWorkflow
  <2>4. RowOf(g, "start") = s /\ RowOf(g, "end") = l
    BY <1>1, <1>3, <2>2, <2>3, RowIsTheOne
  <2>5. i < l
    BY <1>1, <1>3, <1>4, <2>2, <2>3 DEF RowsAreEnclosed
  <2>6. Len(rows) \in Nat /\ DOMAIN rows = 1..Len(rows)
    BY DEF Inv, IInv, TypeOK
  <2>7. i \in s..l
    BY <1>3, <2>2, <2>5, <2>6
  <2> QED BY <1>4, <2>4, <2>7 DEF Span, IsWorkflow
<1> QED BY <1>3, <1>7, <1>9, <1>10, <1>11, <1>12

(* Tasks of one node are in the order of its sequence.                     *)
LEMMA NodeInOrder ==
  ASSUME Inv, RowsAreEnclosed, GraphsAreBuiltin, pc = "done",
         workflow \in {"install", "uninstall"}, NEW n, NEW t, NEW u,
         t[1] = n, t[3] # "workflow", u[1] = n, u[3] # "workflow",
         n \in service.nodes /\ t \notin service.missing /\ u \notin service.missing
           /\ t[3] \in (IF workflow = "install" THEN Installing ELSE Uninstalling) =>
             Ahead(ItemsOf(service, n), t, u)
  PROVE  Precedes(t, u)
<1> SUFFICES ASSUME NEW i \in DOMAIN rows, NEW j \in DOMAIN rows,
                    rows[i].task = t, rows[j].task = u
             PROVE  Precedes(t, u)
  BY DEF Precedes
<1>1. /\ n \in service.nodes /\ t \notin service.missing
      /\ t[3] \in (IF workflow = "install" THEN Installing ELSE Uninstalling)
  BY RowOfNode
<1>2. u \notin service.missing
  BY RowOfNode
<1>3. Ahead(ItemsOf(service, n), t, u)
  BY <1>1, <1>2
<1>4. /\ service \in Services /\ n \in Stored(service) /\ SubWorkflow(n) \in DOMAIN api
      /\ api[SubWorkflow(n)] = Sequence(EmptyGraph, ItemsOf(service, n))
      /\ api[SubWorkflow(n)].tasks \subseteq Own(service, n)
      /\ DOMAIN api = {Root} \cup SubWorkflows(service.nodes)
  BY <1>1, GraphsOfNodes
<1>5. ItemsOf(service, n) \in Seq(SUBSET Own(service, n))
  <2>1. CASE workflow = "install"
    BY <1>1, <1>2, <1>4, <2>1, InstallInOrder DEF ItemsOf
  <2>2. CASE workflow = "uninstall"
    BY <1>1, <1>2, <1>4, <2>2, UninstallInOrder DEF ItemsOf
  <2> QED BY <2>1, <2>2
<1>6. ASSUME NEW x \in api[SubWorkflow(n)].tasks
      PROVE  ~IsWorkflow(x)
  <2>1. x[3] # "workflow"
    BY <1>4, OwnTasks
  <2>2. Root[3] = "workflow" /\ \A m : SubWorkflow(m)[3] = "workflow"
    BY DEF Root, SubWorkflow
  <2> QED BY <1>4, <2>1, <2>2 DEF IsWorkflow, SubWorkflows
<1> QED BY <1>3, <1>4, <1>5, <1>6, SequenceInOrder

(* Tasks of two nodes are in the order of their sub-workflows.             *)
LEMMA NodesInOrder ==
  ASSUME Inv, RowsAreEnclosed, GraphsAreBuiltin, OrderKept, pc = "done",
         workflow \in {"install", "uninstall"}, NEW n, NEW m, NEW t, NEW u,
         t[1] = m, t[3] # "workflow", u[1] = n, u[3] # "workflow",
         n \in service.nodes /\ m \in service.nodes
           /\ t[3] \in (IF workflow = "install" THEN Installing ELSE Uninstalling) =>
             <<SubWorkflow(n), SubWorkflow(m)>> \in api[Root].deps
  PROVE  Precedes(t, u)
<1> SUFFICES ASSUME NEW i \in DOMAIN rows, NEW j \in DOMAIN rows,
                    rows[i].task = t, rows[j].task = u
             PROVE  i \in Preceding[j]
  BY DEF Precedes
<1>1. /\ m \in service.nodes /\ i \in Span(SubWorkflow(m))
      /\ t[3] \in (IF workflow = "install" THEN Installing ELSE Uninstalling)
  BY RowOfNode
<1>2. n \in service.nodes /\ j \in Span(SubWorkflow(n))
  BY RowOfNode
<1>3. Root \in Compiled
  BY DEF Inv, IInv, PhasesFit, GraphsAreApart, Compiled
<1> DEFINE d == <<SubWorkflow(n), SubWorkflow(m)>>
<1>4. d \in api[Root].deps
  BY <1>1, <1>2
<1>5. \A k \in Span(d[1]) : Span(d[2]) \subseteq Preceding[k]
  BY <1>3, <1>4 DEF OrderKept
<1>6. d[1] = SubWorkflow(n) /\ d[2] = SubWorkflow(m)
  OBVIOUS
<1> QED BY <1>1, <1>2, <1>5, <1>6

(* A node that requires another one depends on it, or the other way round  *)
(* when uninstalling.                                                      *)
LEMMA RequirementsHave ==
  ASSUME NEW s, NEW n \in s.nodes, NEW m \in s.nodes, m \in Targets(s, n)
  PROVE  /\ <<SubWorkflow(n), SubWorkflow(m)>> \in Requirements(s, FALSE)
         /\ <<SubWorkflow(m), SubWorkflow(n)>> \in Requirements(s, TRUE)
<1> DEFINE pairs == {q \in s.nodes \X s.nodes : q[2] \in Targets(s, q[1])}
<1>1. <<n, m>> \in pairs /\ <<n, m>>[1] = n /\ <<n, m>>[2] = m
  OBVIOUS
<1>2. \A reverse : Requirements(s, reverse) =
        {IF reverse THEN <<SubWorkflow(p[2]), SubWorkflow(p[1])>>
                    ELSE <<SubWorkflow(p[1]), SubWorkflow(p[2])>> : p \in pairs}
  BY DEF Requirements
<1> HIDE DEF pairs
<1> QED BY <1>1, <1>2

(* A node is created, configured and started in that order, with the       *)
(* operations of its relationships in between, after every node it has a   *)
(* relationship to has been started; it is stopped and deleted before any  *)
(* of those is stopped.  So for every service, whatever operations its     *)
(* nodes do not have (builtin/workflows.py, compile).                      *)
THEOREM LifecycleIsOrdered == Spec => []LifecycleOrder
<1>1. ASSUME Inv, RowsAreEnclosed, GraphsAreBuiltin, OrderKept
      PROVE  LifecycleOrder
  <2> SUFFICES ASSUME pc = "done", workflow \in {"install", "uninstall"}, NEW n \in service.nodes
               PROVE  /\ Precedes(NodeTask(n, "create"), NodeTask(n, "configure"))
                      /\ Precedes(NodeTask(n, "configure"), NodeTask(n, "start"))
                      /\ Precedes(NodeTask(n, "stop"), NodeTask(n, "delete"))
                      /\ \A m \in Targets(service, n) :
                           /\ Precedes(NodeTask(m, "start"), NodeTask(n, "create"))
                           /\ Precedes(NodeTask(n, "delete"), NodeTask(m, "stop"))
                      /\ \A r \in DOMAIN service.outbound[n] :
                           /\ Precedes(RelationshipTask(n, r, "pre_configure_target"),
                                       NodeTask(n, "configure"))
                           /\ Precedes(NodeTask(n, "configure"),
                                       RelationshipTask(n, r, "post_configure_source"))
                           /\ Precedes(RelationshipTask(n, r, "post_configure_target"),
                                       NodeTask(n, "start"))
                           /\ Precedes(NodeTask(n, "start"),
                                       RelationshipTask(n, r, "add_source"))
    BY DEF LifecycleOrder
  <2>1. service \in Services /\ n \in Stored(service)
    BY <1>1, GraphsOfNodes
  <2>2. /\ \A k, op : NodeTask(k, op)[1] = k /\ NodeTask(k, op)[3] = op
        /\ \A k, m, op : RelationshipTask(k, m, op)[1] = k /\ RelationshipTask(k, m, op)[3] = op
    BY DEF NodeTask, RelationshipTask
  <2>3. "workflow" \notin Installing \cup Uninstalling
    BY DEF Installing, Uninstalling
  <2>4. ASSUME NEW t, NEW u, t[1] = n, u[1] = n, t[3] \in Installing, u[3] \in Installing,
               workflow = "install" /\ t \notin service.missing /\ u \notin service.missing =>
                 Ahead(InstallItems(service, n), t, u),
               t[3] \notin Uninstalling
        PROVE  Precedes(t, u)
    <3>1. t[3] # "workflow" /\ u[3] # "workflow"
      BY <2>3, <2>4
    <3> QED BY <1>1, <2>4, <3>1, NodeInOrder DEF ItemsOf
  <2>5. ASSUME NEW t, NEW u, t \notin service.missing, u \notin service.missing
         PROVE  LET items == InstallItems(service, n)
                IN  /\ t = NodeTask(n, "create") /\ u = NodeTask(n, "configure") => Ahead(items, t, u)
                    /\ t = NodeTask(n, "configure") /\ u = NodeTask(n, "start") => Ahead(items, t, u)
                    /\ \A r \in DOMAIN service.outbound[n] :
                         /\ t = RelationshipTask(n, r, "pre_configure_target")
                              /\ u = NodeTask(n, "configure") => Ahead(items, t, u)
                         /\ t = NodeTask(n, "configure")
                              /\ u = RelationshipTask(n, r, "post_configure_source")
                                => Ahead(items, t, u)
                         /\ t = RelationshipTask(n, r, "post_configure_target")
                              /\ u = NodeTask(n, "start") => Ahead(items, t, u)
                         /\ t = NodeTask(n, "start")
                              /\ u = RelationshipTask(n, r, "add_source") => Ahead(items, t, u)
    BY <2>1, <2>5, InstallInOrder
  <2>6. /\ {"create", "configure", "start", "pre_configure_target", "post_configure_source",
             "post_configure_target", "add_source"} \subseteq Installing
         /\ {"create", "configure", "start", "pre_configure_target", "post_configure_source",
             "post_configure_target", "add_source"} \cap Uninstalling = {}
    BY DEF Installing, Uninstalling
  <2>7. Precedes(NodeTask(n, "create"), NodeTask(n, "configure"))
    BY <2>2, <2>4, <2>5, <2>6
  <2>8. Precedes(NodeTask(n, "configure"), NodeTask(n, "start"))
    BY <2>2, <2>4, <2>5, <2>6
  <2>9. Precedes(NodeTask(n, "stop"), NodeTask(n, "delete"))
    <3> DEFINE t == NodeTask(n, "stop")
               u == NodeTask(n, "delete")
    <3>1. t[1] = n /\ t[3] = "stop" /\ u[1] = n /\ u[3] = "delete"
      BY <2>2
    <3>2. t \notin service.missing /\ u \notin service.missing =>
            Ahead(UninstallItems(service, n), t, u)
      BY <2>1, UninstallInOrder
    <3>3. "stop" \notin Installing
      BY DEF Installing
    <3> HIDE DEF t, u
    <3>4. t[3] # "workflow" /\ u[3] # "workflow"
      BY <3>1
    <3>5. t[3] \in (IF workflow = "install" THEN Installing ELSE Uninstalling) =>
            ItemsOf(service, n) = UninstallItems(service, n)
      BY <3>1, <3>3 DEF ItemsOf
    <3>6. Precedes(t, u)
      BY <1>1, <3>1, <3>2, <3>4, <3>5, NodeInOrder
    <3> QED BY <3>6 DEF t, u
  <2>10. ASSUME NEW m \in Targets(service, n)
        PROVE  /\ Precedes(NodeTask(m, "start"), NodeTask(n, "create"))
               /\ Precedes(NodeTask(n, "delete"), NodeTask(m, "stop"))
    <3>1. Precedes(NodeTask(m, "start"), NodeTask(n, "create"))
      <4> DEFINE t == NodeTask(m, "start")
                 u == NodeTask(n, "create")
      <4>1. t[1] = m /\ t[3] = "start" /\ u[1] = n /\ u[3] = "create"
        BY <2>2
      <4>2. "start" \notin Uninstalling
        BY DEF Uninstalling
      <4>3. workflow = "install" => api[Root].deps = Requirements(service, FALSE)
        <5>1. workflow = "install" => (workflow = "uninstall") = FALSE
          OBVIOUS
        <5>2. api[Root].deps = Requirements(service, workflow = "uninstall")
          BY <1>1, GraphsOfNodes
        <5> QED BY <5>1, <5>2
      <4> HIDE DEF t, u
      <4>4. m \in service.nodes /\ t[3] \in (IF workflow = "install" THEN Installing ELSE Uninstalling)
              => <<SubWorkflow(n), SubWorkflow(m)>> \in api[Root].deps
        BY <2>10, <4>1, <4>2, <4>3, RequirementsHave
      <4>5. t[3] # "workflow" /\ u[3] # "workflow"
        BY <4>1
      <4>6. Precedes(t, u)
        BY <1>1, <4>1, <4>4, <4>5, NodesInOrder
      <4> QED BY <4>6 DEF t, u
    <3>2. Precedes(NodeTask(n, "delete"), NodeTask(m, "stop"))
      <4> DEFINE t == NodeTask(n, "delete")
                 u == NodeTask(m, "stop")
      <4>1. t[1] = n /\ t[3] = "delete" /\ u[1] = m /\ u[3] = "stop"
        BY <2>2
      <4>2. "delete" \notin Installing
        BY DEF Installing
      <4>3. workflow = "uninstall" => api[Root].deps = Requirements(service, TRUE)
        <5>1. workflow = "uninstall" => (workflow = "uninstall") = TRUE
          OBVIOUS
        <5>2. api[Root].deps = Requirements(service, workflow = "uninstall")
          BY <1>1, GraphsOfNodes
        <5> QED BY <5>1, <5>2
      <4> HIDE DEF t, u
      <4>4. m \in service.nodes /\ t[3] \in (IF workflow = "install" THEN Installing ELSE Uninstalling)
              => <<SubWorkflow(m), SubWorkflow(n)>> \in api[Root].deps
        BY <2>10, <4>1, <4>2, <4>3, RequirementsHave
      <4>5. t[3] # "workflow" /\ u[3] # "workflow"
        BY <4>1
      <4>6. Precedes(t, u)
        BY <1>1, <4>1, <4>4, <4>5, NodesInOrder
      <4> QED BY <4>6 DEF t, u
    <3> QED BY <3>1, <3>2
  <2>11. ASSUME NEW r \in DOMAIN service.outbound[n]
        PROVE  /\ Precedes(RelationshipTask(n, r, "pre_configure_target"), NodeTask(n, "configure"))
               /\ Precedes(NodeTask(n, "configure"), RelationshipTask(n, r, "post_configure_source"))
               /\ Precedes(RelationshipTask(n, r, "post_configure_target"), NodeTask(n, "start"))
               /\ Precedes(NodeTask(n, "start"), RelationshipTask(n, r, "add_source"))
    <3>1. Precedes(RelationshipTask(n, r, "pre_configure_target"), NodeTask(n, "configure"))
      BY <2>2, <2>4, <2>5, <2>6
    <3>2. Precedes(NodeTask(n, "configure"), RelationshipTask(n, r, "post_configure_source"))
      BY <2>2, <2>4, <2>5, <2>6
    <3>3. Precedes(RelationshipTask(n, r, "post_configure_target"), NodeTask(n, "start"))
      BY <2>2, <2>4, <2>5, <2>6
    <3>4. Precedes(NodeTask(n, "start"), RelationshipTask(n, r, "add_source"))
      BY <2>2, <2>4, <2>5, <2>6
    <3> QED BY <3>1, <3>2, <3>3, <3>4
  <2> QED BY <2>7, <2>8, <2>9, <2>10, <2>11
<1>2. Inv /\ RowsAreEnclosed /\ GraphsAreBuiltin /\ OrderKept => LifecycleOrder
  BY <1>1
<1> QED BY <1>2, Invariance, EnclosureIsKept, BuiltinIsKept, OrderIsKept, PTL
=============================================================================
