------------------------------ MODULE MCCatalog -----------------------------
(***************************************************************************)
(* Two processes, two services of one template, a plugin and a type       *)
(* definition; enough commands to store, create, execute and delete.      *)
(***************************************************************************)
EXTENDS Catalog, TLC

MCTemplateOf == [s \in Services |-> "t1"]

\* Bound: plugins and type definitions share no row, no file and no race with templates and
\* services; they are there in histories of at most four commands.
FewApart ==
  \/ begun <= 4
  \/ /\ \A p \in Processes : cmd[p] = Idle \/ cmd[p].op \notin {"install", "load", "undefine"}
     /\ \A w \in Plugins : pluginRows[w] = 0
     /\ \A d \in Definitions : DefinitionRow(d) \notin rows
     /\ wagons = {} /\ directories = {}

Symmetry == Permutations(Processes) \cup Permutations(Services)
=============================================================================
