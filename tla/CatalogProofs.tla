---------------------------- MODULE CatalogProofs ---------------------------
(***************************************************************************)
(* Plugins are unique, files follow rows, services are separate and what   *)
(* rows refer to is there, for any number of processes, commands and       *)
(* crashes, and any services, templates, plugins and type definitions.     *)
(***************************************************************************)
EXTENDS Catalog, SequenceTheorems, WellFoundedInduction, TLAPS

Roots == {"service_template", "type_definition"}

Rootless(model) == model.owns \cap Roots = {}

(* No collection holds service templates or type definitions.              *)
LEMMA RootsAreUnowned == \A table \in Tables : Rootless(Models[table])
<1>1. /\ Rootless(ServiceTemplate) /\ Rootless(NodeTemplate)
      /\ Rootless(GroupTemplate) /\ Rootless(PolicyTemplate)
      /\ Rootless(SubstitutionTemplate) /\ Rootless(SubstitutionTemplateMapping)
      /\ Rootless(RequirementTemplate) /\ Rootless(RelationshipTemplate)
      /\ Rootless(CapabilityTemplate) /\ Rootless(InterfaceTemplate)
      /\ Rootless(OperationTemplate) /\ Rootless(ArtifactTemplate)
      /\ Rootless(PluginSpecification)
  BY DEF Rootless, Roots, Table, ServiceTemplateOwns, ServiceTemplate,
     NodeTemplateOwns, NodeTemplate, GroupTemplate, PolicyTemplate,
     SubstitutionTemplate, SubstitutionTemplateMapping, RequirementTemplate,
     RelationshipTemplate, CapabilityTemplate, InterfaceTemplate,
     OperationTemplate, ArtifactTemplate, PluginSpecification
<1>2. /\ Rootless(Service) /\ Rootless(Node) /\ Rootless(Group) /\ Rootless(Policy)
      /\ Rootless(Substitution) /\ Rootless(SubstitutionMapping)
      /\ Rootless(Relationship) /\ Rootless(Capability) /\ Rootless(Interface)
      /\ Rootless(Operation) /\ Rootless(Artifact)
  BY DEF Rootless, Roots, Table, ServiceOwns, Service, NodeOwns, Node, Group,
     Policy, Substitution, SubstitutionMapping, Relationship, Capability,
     Interface, Operation, Artifact
<1>3. /\ Rootless(Output) /\ Rootless(Input) /\ Rootless(Configuration)
      /\ Rootless(Property) /\ Rootless(Attribute) /\ Rootless(Type)
      /\ Rootless(Metadata) /\ Rootless(Execution) /\ Rootless(Task) /\ Rootless(Log)
      /\ Rootless(Plugin) /\ Rootless(Argument) /\ Rootless(ServiceUpdate)
      /\ Rootless(ServiceUpdateStep) /\ Rootless(ServiceModification)
      /\ Rootless(TypeDefinition)
  BY DEF Rootless, Roots, Table, Output, Input, Configuration, Property,
     Attribute, Type, Metadata, Execution, Task, Log, Plugin, Argument,
     ServiceUpdate, ServiceUpdateStep, ServiceModification, TypeDefinition
<1> QED BY <1>1, <1>2, <1>3 DEF Tables, Models

(* The families of tables, and the roots of the paths, are tables of the   *)
(* schema.                                                                 *)
LEMMA TablesOfPaths ==
  /\ TemplateTables \subseteq Tables /\ InstanceTables \subseteq Tables
  /\ ExecutionTables \subseteq Tables
  /\ {"service", "substitution", "service_template", "substitution_template",
      "relationship_template", "type", "execution"} \subseteq Tables
BY DEF Tables, Models, TemplateTables, InstanceTables, ExecutionTables, Parameters

-----------------------------------------------------------------------------
(* The chains of collections lead down from their root.                    *)
IsChain(path, root) == path \in Seq(Tables) /\ path # <<>> /\ path[Len(path)] = root

(* One more level of paths: each is still a chain of collections from the  *)
(* root.                                                                   *)
LEMMA LongerAreChains ==
  ASSUME NEW root, NEW tables \in SUBSET Tables, NEW paths,
         \A path \in paths : IsChain(path, root)
  PROVE  \A path \in Longer(paths, tables) : IsChain(path, root)
<1>1. ASSUME NEW path \in paths, NEW child \in Tables
      PROVE  IsChain(<<child>> \o path, root)
  <2>1. path \in Seq(Tables) /\ path # <<>> /\ path[Len(path)] = root
    BY DEF IsChain
  <2>2. <<child>> \in Seq(Tables) /\ Len(<<child>>) = 1
    OBVIOUS
  <2>3. /\ <<child>> \o path \in Seq(Tables)
        /\ Len(<<child>> \o path) = Len(path) + 1
        /\ (<<child>> \o path)[Len(path) + 1] = path[Len(path)]
        /\ Len(path) \in Nat
    BY <2>1, <2>2
  <2>4. <<child>> \o path # <<>>
    BY <2>3
  <2> QED BY <2>1, <2>3, <2>4 DEF IsChain
<1>2. ASSUME NEW longer \in Longer(paths, tables), longer \notin paths
      PROVE  \E path \in paths, child \in Tables : longer = <<child>> \o path
  BY <1>2 DEF Longer
<1> QED BY <1>1, <1>2

(* Every path from a root is a chain: each table is a collection of the    *)
(* next.                                                                   *)
LEMMA PathsAreChains ==
  ASSUME NEW root, NEW tables \in SUBSET Tables, NEW start, IsChain(start, root)
  PROVE  \A path \in PathsFrom(start, tables) : IsChain(path, root)
<1> DEFINE longer(paths) == Longer(paths, tables)
           P1 == longer({start})
           P2 == longer(P1)
           P3 == longer(P2)
           P4 == longer(P3)
           P5 == longer(P4)
<1>1. \A path \in P1 : IsChain(path, root)
  BY LongerAreChains
<1>2. \A path \in P2 : IsChain(path, root)
  <2> HIDE DEF P1
  <2> QED BY <1>1, LongerAreChains
<1>3. \A path \in P3 : IsChain(path, root)
  <2> HIDE DEF P2
  <2> QED BY <1>2, LongerAreChains
<1>4. \A path \in P4 : IsChain(path, root)
  <2> HIDE DEF P3
  <2> QED BY <1>3, LongerAreChains
<1>5. \A path \in P5 : IsChain(path, root)
  <2> HIDE DEF P4
  <2> QED BY <1>4, LongerAreChains
<1>6. PathsFrom(start, tables) = P5
  BY DEF PathsFrom
<1> QED BY <1>5, <1>6

(* The path that consists of the root alone is among the paths from it.    *)
LEMMA StartIsAPath ==
  ASSUME NEW start, NEW tables
  PROVE  start \in PathsFrom(start, tables)
BY DEF PathsFrom, Longer

TemplateRoots == {"service_template", "substitution_template", "relationship_template", "type"}

(* Where each family of chains ends.                                       *)
LEMMA FamiliesOfPaths ==
  /\ \A path \in TemplatePaths : \E root \in TemplateRoots : IsChain(path, root)
  /\ \A path \in InstancePaths : \E root \in {"service", "substitution"} : IsChain(path, root)
  /\ \A path \in ExecutionPaths : IsChain(path, "service")
  /\ <<"service_template">> \in TemplatePaths /\ <<"service">> \in InstancePaths
<1>1. ASSUME NEW root \in Tables
      PROVE  IsChain(<<root>>, root)
  <2>1. <<root>> \in Seq(Tables) /\ Len(<<root>>) = 1 /\ <<root>>[1] = root
    OBVIOUS
  <2> QED BY <2>1 DEF IsChain
<1>2. /\ IsChain(<<"execution", "service">>, "service")
      /\ IsChain(<<"task", "relationship", "node", "service">>, "service")
  <2>1. {"execution", "task", "relationship", "node", "service"} \subseteq Tables
    BY DEF Tables, Models
  <2>2. /\ <<"execution", "service">> \in Seq(Tables)
        /\ Len(<<"execution", "service">>) = 2
        /\ <<"execution", "service">>[2] = "service"
    BY <2>1
  <2>3. /\ <<"task", "relationship", "node", "service">> \in Seq(Tables)
        /\ Len(<<"task", "relationship", "node", "service">>) = 4
        /\ <<"task", "relationship", "node", "service">>[4] = "service"
    BY <2>1
  <2> QED BY <2>2, <2>3 DEF IsChain
<1>3. \A path \in TemplatePaths : \E root \in TemplateRoots : IsChain(path, root)
  <2> SUFFICES ASSUME NEW root \in TemplateRoots,
                      NEW path \in PathsFrom(<<root>>, TemplateTables)
               PROVE  IsChain(path, root)
    BY DEF TemplatePaths, TemplateRoots
  <2>1. root \in Tables
    BY TablesOfPaths DEF TemplateRoots
  <2> QED BY <1>1, <2>1, PathsAreChains, TablesOfPaths
<1>4. \A path \in InstancePaths : \E root \in {"service", "substitution"} : IsChain(path, root)
  BY <1>1, PathsAreChains, TablesOfPaths DEF InstancePaths
<1>5. \A path \in ExecutionPaths : IsChain(path, "service")
  <2> SUFFICES ASSUME NEW start \in {<<"execution", "service">>,
                                     <<"task", "relationship", "node", "service">>},
                      NEW path \in PathsFrom(start, ExecutionTables)
               PROVE  IsChain(path, "service")
    BY DEF ExecutionPaths
  <2>1. IsChain(start, "service")
    BY <1>2
  <2> QED BY <2>1, PathsAreChains, TablesOfPaths
<1>6. <<"service_template">> \in TemplatePaths /\ <<"service">> \in InstancePaths
  BY StartIsAPath DEF TemplatePaths, InstancePaths
<1> QED BY <1>3, <1>4, <1>5, <1>6

(* A row of the model is in a table, and only a template has the row of    *)
(* a service template.                                                     *)
LEMMA PathFacts ==
  /\ \A path \in Paths : path[1] \in Tables
  /\ <<"type_definition">> \notin Paths
  /\ <<"service_template">> \notin InstancePaths \cup ExecutionPaths
<1>1. ASSUME NEW path, NEW root, IsChain(path, root)
      PROVE  path[1] \in Tables
  BY <1>1 DEF IsChain
<1>2. ASSUME NEW table, NEW root, IsChain(<<table>>, root)
      PROVE  table = root
  <2>1. Len(<<table>>) = 1 /\ <<table>>[1] = table
    OBVIOUS
  <2> QED BY <1>2, <2>1 DEF IsChain
<1>3. \A path \in Paths : path[1] \in Tables
  BY <1>1, FamiliesOfPaths DEF Paths
<1>4. <<"type_definition">> \notin Paths
  BY <1>2, FamiliesOfPaths DEF Paths, TemplateRoots
<1>5. <<"service_template">> \notin InstancePaths \cup ExecutionPaths
  BY <1>2, FamiliesOfPaths
<1> QED BY <1>3, <1>4, <1>5

-----------------------------------------------------------------------------
(* What a deletion takes along is owned by something, or a relationship.   *)
IsRoot(row) == row.path[1] \in Roots

(* The rows there may be are those of a template, of a service and of its  *)
(* executions.                                                             *)
LEMMA KindsOfRows ==
  \A row : row \in AllRows <=> \/ \E t \in ServiceTemplates : row \in TemplateRows(t)
                               \/ \E s \in Services : row \in InstanceRows(s) \cup ExecutionRows(s)
<1> DEFINE T == UNION {TemplateRows(t) : t \in ServiceTemplates}
           S == UNION {InstanceRows(s) \cup ExecutionRows(s) : s \in Services}
<1>1. \A row : row \in T <=> \E t \in ServiceTemplates : row \in TemplateRows(t)
  OBVIOUS
<1>2. \A row : row \in S <=> \E s \in Services : row \in InstanceRows(s) \cup ExecutionRows(s)
  BY Zenon
<1>3. AllRows = T \cup S
  BY DEF AllRows
<1> HIDE DEF T, S
<1> QED BY <1>1, <1>2, <1>3

(* A row's path is one of the schema's, and its head is a table.           *)
LEMMA RowsAreInTables == \A row \in AllRows : row.path \in Paths /\ row.path[1] \in Tables
<1>1. ASSUME NEW row \in AllRows
      PROVE  row.path \in Paths
  <2>1. /\ \A t : \A r \in TemplateRows(t) : r.path \in Paths
        /\ \A s : \A r \in InstanceRows(s) : r.path \in Paths
        /\ \A s : \A r \in ExecutionRows(s) : r.path \in Paths
    BY DEF TemplateRows, InstanceRows, ExecutionRows, Row, Paths
  <2>2. CASE \E t \in ServiceTemplates : row \in TemplateRows(t)
    BY <2>1, <2>2
  <2>3. CASE \E s \in Services : row \in InstanceRows(s) \cup ExecutionRows(s)
    BY <2>1, <2>3
  <2> QED BY <2>2, <2>3, KindsOfRows
<1> QED BY <1>1, PathFacts

(* What a row owns is a row of the schema, and no service template or type *)
(* definition.                                                             *)
LEMMA OwnedAreNoRoots ==
  ASSUME NEW row \in AllRows, NEW child \in Owned[row]
  PROVE  child \in AllRows /\ ~ IsRoot(child)
<1>1. child \in AllRows /\ child.path[1] \in Models[row.path[1]].owns
  BY DEF Owned
<1>2. row.path[1] \in Tables
  BY RowsAreInTables
<1> QED BY <1>1, <1>2, RootsAreUnowned DEF Rootless, IsRoot

(* A set of rows that grew by rows that are no roots.                      *)
GrownFrom(taken, start) ==
  start \subseteq taken /\ taken \subseteq AllRows /\ \A row \in taken \ start : ~ IsRoot(row)

(* One step of a cascade adds only rows that are owned, or relationships.  *)
LEMMA FurtherGrows ==
  ASSUME NEW start, NEW taken, NEW present, NEW ends, GrownFrom(taken, start)
  PROVE  GrownFrom(Further(taken, present, ends), start)
<1>1. ASSUME NEW row \in Further(taken, present, ends), row \notin taken
      PROVE  row \in AllRows /\ ~ IsRoot(row)
  <2>1. CASE row \in Inbound(taken, present, ends)
    BY <2>1 DEF Inbound, Relationships, IsRoot, Roots
  <2>2. CASE row \notin Inbound(taken, present, ends)
    <3>1. PICK owner \in taken : row \in Owned[owner]
      BY <1>1, <2>2 DEF Further
    <3> QED BY <3>1, OwnedAreNoRoots DEF GrownFrom
  <2> QED BY <2>1, <2>2
<1>2. taken \subseteq Further(taken, present, ends)
  BY DEF Further
<1> QED BY <1>1, <1>2 DEF GrownFrom

(* The cascade is a recursive function: a function that satisfies its equation  *)
(* is written out, so that the one it is chosen to be satisfies it too.         *)
LEMMA CascadeSteps ==
  ASSUME NEW start, NEW present, NEW ends
  PROVE  \E taken : /\ taken[0] = start
                    /\ \A n \in 0 .. 5 : taken[n + 1] = Further(taken[n], present, ends)
                    /\ Cascade(start, present, ends) = taken[6]
<1> DEFINE further(before) == Further(before, present, ends)
           Steps(f) == [n \in 0 .. 6 |-> IF n = 0 THEN start ELSE further(f[n - 1])]
           taken == CHOOSE f : f = Steps(f)
           c1 == further(start)
           c2 == further(c1)
           c3 == further(c2)
           c4 == further(c3)
           c5 == further(c4)
           c6 == further(c5)
<1>1. \E f : f = Steps(f)
  <2> DEFINE g == [n \in 0 .. 6 |-> CASE n = 0 -> start [] n = 1 -> c1 [] n = 2 -> c2
                                      [] n = 3 -> c3 [] n = 4 -> c4 [] n = 5 -> c5
                                      [] n = 6 -> c6]
  <2>1. ASSUME NEW n \in 0 .. 6
        PROVE  g[n] = IF n = 0 THEN start ELSE further(g[n - 1])
    <3> HIDE DEF further
    <3>1. n \in {0, 1, 2, 3, 4, 5, 6}
      OBVIOUS
    <3> QED BY <3>1
  <2> HIDE DEF further
  <2>2. g = Steps(g)
    BY <2>1
  <2> QED BY <2>2
<1>2. taken = Steps(taken)
  <2> HIDE DEF Steps
  <2> QED BY <1>1
<1>3. taken[0] = start /\ \A n \in 0 .. 5 : taken[n + 1] = further(taken[n])
  <2> HIDE DEF taken, further
  <2> QED BY <1>2
<1>4. Cascade(start, present, ends) = taken[6]
  BY DEF Cascade
<1> HIDE DEF taken
<1> QED BY <1>3, <1>4

(* So do all steps of it.                                                  *)
LEMMA CascadeGrows ==
  ASSUME NEW start, start \subseteq AllRows, NEW present, NEW ends
  PROVE  GrownFrom(Cascade(start, present, ends), start)
<1>1. PICK taken : /\ taken[0] = start
                   /\ \A n \in 0 .. 5 : taken[n + 1] = Further(taken[n], present, ends)
                   /\ Cascade(start, present, ends) = taken[6]
  BY CascadeSteps
<1>2. GrownFrom(taken[0], start)
  BY <1>1 DEF GrownFrom
<1>3. \A n \in 0 .. 5 : GrownFrom(taken[n], start) => GrownFrom(taken[n + 1], start)
  BY <1>1, FurtherGrows
<1>4. GrownFrom(taken[6], start)
  BY <1>2, <1>3
<1> QED BY <1>1, <1>4

-----------------------------------------------------------------------------
(* The rows of service templates and of type definitions.                  *)
LEMMA RootRows ==
  /\ \A t \in ServiceTemplates : TemplateRow(t) \in AllRows /\ TemplateRow(t) \in TemplateRows(t)
  /\ \A t, u : TemplateRow(u) \in TemplateRows(t) => u = t
  /\ \A t, s : TemplateRow(t) \notin InstanceRows(s)
  /\ \A d : DefinitionRow(d) \notin AllRows
  /\ \A d, t : DefinitionRow(d) \notin TemplateRows(t) /\ DefinitionRow(d) \notin InstanceRows(t)
  /\ \A d, e : DefinitionRow(d) = DefinitionRow(e) => d = e
  /\ \A t, u : TemplateRow(t) = TemplateRow(u) => t = u
  /\ \A t : IsRoot(TemplateRow(t)) /\ IsRoot(DefinitionRow(t)) /\ ~ IsRoot(ServiceRow(t))
  /\ \A t, d : TemplateRow(t) # DefinitionRow(d)
  /\ \A s \in Services : ServiceRow(s) \in AllRows
<1>1. /\ \A t \in ServiceTemplates : TemplateRow(t) \in TemplateRows(t)
      /\ \A t, u : TemplateRow(u) \in TemplateRows(t) => u = t
      /\ \A t, s : TemplateRow(t) \notin InstanceRows(s)
  BY FamiliesOfPaths, PathFacts DEF TemplateRow, TemplateRows, InstanceRows, Row
<1>2. \A t \in ServiceTemplates : TemplateRow(t) \in AllRows
  BY <1>1, KindsOfRows
<1>3. \A d : DefinitionRow(d) \notin AllRows
  <2>1. \A d : DefinitionRow(d).path = <<"type_definition">>
    BY DEF DefinitionRow, Row
  <2> QED BY <2>1, RowsAreInTables, PathFacts
<1>4. \A d, t : DefinitionRow(d) \notin TemplateRows(t) /\ DefinitionRow(d) \notin InstanceRows(t)
  BY PathFacts DEF DefinitionRow, TemplateRows, InstanceRows, Row, Paths
<1>5. /\ \A d, e : DefinitionRow(d) = DefinitionRow(e) => d = e
      /\ \A t, u : TemplateRow(t) = TemplateRow(u) => t = u
  BY DEF DefinitionRow, TemplateRow, Row
<1>6. \A t : IsRoot(TemplateRow(t)) /\ IsRoot(DefinitionRow(t)) /\ ~ IsRoot(ServiceRow(t))
  BY DEF IsRoot, Roots, TemplateRow, DefinitionRow, ServiceRow, Row
<1>7. \A t, d : TemplateRow(t) # DefinitionRow(d)
  <2>1. \A t, d : TemplateRow(t).path[1] # DefinitionRow(d).path[1]
    BY DEF DefinitionRow, TemplateRow, Row
  <2> QED BY <2>1
<1>8. \A s \in Services : ServiceRow(s) \in AllRows
  <2>1. \A s : ServiceRow(s) \in InstanceRows(s)
    BY FamiliesOfPaths DEF ServiceRow, InstanceRows, Row
  <2> QED BY <2>1, KindsOfRows
<1> QED BY <1>1, <1>2, <1>3, <1>4, <1>5, <1>6, <1>7, <1>8

-----------------------------------------------------------------------------
(* What the tables say of owners and keys.                                 *)

(* The owners of the tables that have few.                                 *)
OwnersOf ==
  [service |-> {"service_template"}, node |-> {"service", "node_template"},
   relationship |-> {"node", "requirement_template", "relationship_template"},
   capability |-> {"node", "capability_template"},
   substitution |-> {"substitution_template"}, substitution_mapping |-> {"substitution"},
   node_template |-> {"service_template"}, group_template |-> {"service_template"},
   policy_template |-> {"service_template"}, plugin_specification |-> {"service_template"},
   requirement_template |-> {"node_template"}, capability_template |-> {"node_template"},
   artifact_template |-> {"node_template"},
   substitution_template_mapping |-> {"substitution_template"},
   execution |-> {"service"}, task |-> {"execution", "node", "relationship", "plugin"},
   log |-> {"execution", "task"},
   service_template |-> {}, substitution_template |-> {}, relationship_template |-> {},
   type |-> {}]

HasOwners(table, model) == \A child \in model.owns \cap DOMAIN OwnersOf : table \in OwnersOf[child]

(* The tables OwnersOf lists are in the collections of no other owners     *)
(* than it says.                                                           *)
LEMMA FewOwners ==
  \A table \in Tables : \A child \in Models[table].owns \cap DOMAIN OwnersOf :
     table \in OwnersOf[child]
<1>1. /\ HasOwners("service_template", ServiceTemplate)
      /\ HasOwners("node_template", NodeTemplate)
      /\ HasOwners("group_template", GroupTemplate)
      /\ HasOwners("policy_template", PolicyTemplate)
      /\ HasOwners("substitution_template", SubstitutionTemplate)
      /\ HasOwners("substitution_template_mapping", SubstitutionTemplateMapping)
      /\ HasOwners("requirement_template", RequirementTemplate)
      /\ HasOwners("relationship_template", RelationshipTemplate)
      /\ HasOwners("capability_template", CapabilityTemplate)
      /\ HasOwners("interface_template", InterfaceTemplate)
      /\ HasOwners("operation_template", OperationTemplate)
      /\ HasOwners("artifact_template", ArtifactTemplate)
      /\ HasOwners("plugin_specification", PluginSpecification)
  BY DEF HasOwners, OwnersOf, Table, ServiceTemplateOwns, ServiceTemplate,
     NodeTemplateOwns, NodeTemplate, GroupTemplate, PolicyTemplate,
     SubstitutionTemplate, SubstitutionTemplateMapping, RequirementTemplate,
     RelationshipTemplate, CapabilityTemplate, InterfaceTemplate,
     OperationTemplate, ArtifactTemplate, PluginSpecification
<1>2. /\ HasOwners("service", Service) /\ HasOwners("node", Node) /\ HasOwners("group", Group)
      /\ HasOwners("policy", Policy) /\ HasOwners("substitution", Substitution)
      /\ HasOwners("substitution_mapping", SubstitutionMapping)
      /\ HasOwners("relationship", Relationship) /\ HasOwners("capability", Capability)
      /\ HasOwners("interface", Interface) /\ HasOwners("operation", Operation)
      /\ HasOwners("artifact", Artifact)
  BY DEF HasOwners, OwnersOf, Table, ServiceOwns, Service, NodeOwns, Node, Group,
     Policy, Substitution, SubstitutionMapping, Relationship, Capability,
     Interface, Operation, Artifact
<1>3. /\ HasOwners("output", Output) /\ HasOwners("input", Input)
      /\ HasOwners("configuration", Configuration) /\ HasOwners("property", Property)
      /\ HasOwners("attribute", Attribute) /\ HasOwners("type", Type)
      /\ HasOwners("metadata", Metadata) /\ HasOwners("execution", Execution)
      /\ HasOwners("task", Task) /\ HasOwners("log", Log) /\ HasOwners("plugin", Plugin)
      /\ HasOwners("argument", Argument) /\ HasOwners("service_update", ServiceUpdate)
      /\ HasOwners("service_update_step", ServiceUpdateStep)
      /\ HasOwners("service_modification", ServiceModification)
      /\ HasOwners("type_definition", TypeDefinition)
  BY DEF HasOwners, OwnersOf, Table, Output, Input, Configuration, Property,
     Attribute, Type, Metadata, Execution, Task, Log, Plugin, Argument,
     ServiceUpdate, ServiceUpdateStep, ServiceModification, TypeDefinition
<1>4. \A table \in Tables : HasOwners(table, Models[table])
  BY <1>1, <1>2, <1>3 DEF Tables, Models
<1> QED BY <1>4 DEF HasOwners

(* Only relationships have the keys to where they end.                     *)
NoEnds(model) == (model.needs \cup model.may) \cap EndKeys = {}

(* Only relationships have the keys of which a deletion at the other end   *)
(* takes the row.                                                          *)
LEMMA OnlyRelationshipsEnd ==
  \A table \in Tables : table # "relationship" => Keys(table) \cap EndKeys = {}
<1>1. /\ NoEnds(ServiceTemplate) /\ NoEnds(NodeTemplate) /\ NoEnds(GroupTemplate)
      /\ NoEnds(PolicyTemplate) /\ NoEnds(SubstitutionTemplate)
      /\ NoEnds(SubstitutionTemplateMapping) /\ NoEnds(RequirementTemplate)
      /\ NoEnds(RelationshipTemplate) /\ NoEnds(CapabilityTemplate)
      /\ NoEnds(InterfaceTemplate) /\ NoEnds(OperationTemplate)
      /\ NoEnds(ArtifactTemplate) /\ NoEnds(PluginSpecification)
  BY DEF NoEnds, EndKeys, Table, ServiceTemplateTypes, ServiceTemplate,
     NodeTemplate, GroupTemplate, PolicyTemplate,
     SubstitutionTemplate, SubstitutionTemplateMapping, RequirementTemplate,
     RelationshipTemplate, CapabilityTemplate, InterfaceTemplate,
     OperationTemplate, ArtifactTemplate, PluginSpecification
<1>2. /\ NoEnds(Service) /\ NoEnds(Node) /\ NoEnds(Group) /\ NoEnds(Policy)
      /\ NoEnds(Substitution) /\ NoEnds(SubstitutionMapping) /\ NoEnds(Capability)
      /\ NoEnds(Interface) /\ NoEnds(Operation) /\ NoEnds(Artifact)
  BY DEF NoEnds, EndKeys, Table, Service, Node, Group,
     Policy, Substitution, SubstitutionMapping, Capability,
     Interface, Operation, Artifact
<1>3. /\ NoEnds(Output) /\ NoEnds(Input) /\ NoEnds(Configuration) /\ NoEnds(Property)
      /\ NoEnds(Attribute) /\ NoEnds(Type) /\ NoEnds(Metadata) /\ NoEnds(Execution)
      /\ NoEnds(Task) /\ NoEnds(Log) /\ NoEnds(Plugin) /\ NoEnds(Argument)
      /\ NoEnds(ServiceUpdate) /\ NoEnds(ServiceUpdateStep)
      /\ NoEnds(ServiceModification) /\ NoEnds(TypeDefinition)
  BY DEF NoEnds, EndKeys, Table, Output, Input, Configuration, Property, PropertyOwners,
     Attribute, Type, Metadata, Execution, Task, Log, Plugin, Argument,
     ServiceUpdate, ServiceUpdateStep, ServiceModification, TypeDefinition
<1>4. \A table \in Tables : table # "relationship" => NoEnds(Models[table])
  BY <1>1, <1>2, <1>3 DEF Tables, Models
<1> QED BY <1>4 DEF NoEnds, Keys

(* A collection finds its rows by a key of the row it is in.               *)
LEMMA OwningKeysExist ==
  \A table \in Tables : \A child \in Models[table].owns :
     /\ child \in Tables
     /\ OwningKeys(child, table) \subseteq Keys(child)
     /\ OwningKeys(child, table) \ EndKeys # {}
<1>1. ASSUME NEW table \in Tables, NEW child \in Models[table].owns
      PROVE  child \in Tables /\ OwningKeys(child, table) # {}
             /\ OwningKeys(child, table) \subseteq Keys(child)
  BY SchemaIsClosed DEF OwningKeys
<1>2. Keys("relationship") = {"source_node", "target_node", "type", "target_capability",
                              "requirement_template", "relationship_template"}
  BY DEF Keys, Models, Relationship, Table
<1>3. /\ "source_node" \in OwningKeys("relationship", "node")
      /\ OwningKeys("relationship", "requirement_template") = {"requirement_template"}
      /\ OwningKeys("relationship", "relationship_template") = {"relationship_template"}
  BY <1>2 DEF OwningKeys, RefersTo, KeyTable
<1>4. ASSUME NEW table \in Tables, "relationship" \in Models[table].owns
      PROVE  OwningKeys("relationship", table) \ EndKeys # {}
  <2>1. table \in {"node", "requirement_template", "relationship_template"}
    BY <1>4, FewOwners DEF OwnersOf
  <2> QED BY <1>3, <2>1 DEF EndKeys
<1>5. ASSUME NEW table \in Tables, NEW child \in Models[table].owns, child # "relationship"
      PROVE  OwningKeys(child, table) \ EndKeys # {}
  BY <1>1, <1>5, OnlyRelationshipsEnd
<1> QED BY <1>1, <1>4, <1>5

-----------------------------------------------------------------------------
(* How a path is built: a table before the path of its owner.              *)
IsPath(path) == path \in Seq(Tables) /\ path # <<>>

Under(path, paths, tables) ==
  \E owner \in paths : \E child \in Models[owner[1]].owns \cap tables : path = <<child>> \o owner

(* One more level of paths: each is the start or extends a path that is    *)
(* there.                                                                  *)
LEMMA LongerAreBuilt ==
  ASSUME NEW start, NEW tables, NEW paths,
         \A path \in paths : path = start \/ Under(path, paths, tables)
  PROVE  \A path \in Longer(paths, tables) :
            path = start \/ Under(path, Longer(paths, tables), tables)
<1>1. paths \subseteq Longer(paths, tables)
  BY DEF Longer
<1>2. ASSUME NEW path \in Longer(paths, tables), path \notin paths
      PROVE  Under(path, paths, tables)
  <2>1. PICK owner \in paths : path \in {<<child>> \o owner : child \in Models[owner[1]].owns \cap tables}
    BY <1>2 DEF Longer
  <2>2. PICK child \in Models[owner[1]].owns \cap tables : path = <<child>> \o owner
    BY <2>1
  <2> QED BY <2>1, <2>2 DEF Under
<1>3. \A path : Under(path, paths, tables) => Under(path, Longer(paths, tables), tables)
  BY <1>1 DEF Under
<1> QED BY <1>1, <1>2, <1>3

(* Every path from a start is the start or extends another one by a        *)
(* collection.                                                             *)
LEMMA PathsAreBuilt ==
  ASSUME NEW start, NEW tables
  PROVE  \A path \in PathsFrom(start, tables) :
            path = start \/ Under(path, PathsFrom(start, tables), tables)
<1> DEFINE longer(paths) == Longer(paths, tables)
           Built(paths) == \A path \in paths : path = start \/ Under(path, paths, tables)
           P1 == longer({start})
           P2 == longer(P1)
           P3 == longer(P2)
           P4 == longer(P3)
           P5 == longer(P4)
<1>0. \A paths : Built(paths) => Built(longer(paths))
  BY LongerAreBuilt
<1>1. Built({start})
  OBVIOUS
<1> HIDE DEF Built, longer
<1>2. Built(P5)
  BY <1>0, <1>1
<1>3. PathsFrom(start, tables) = P5
  BY DEF PathsFrom, longer
<1> USE DEF Built
<1> HIDE DEF P5
<1> QED BY <1>2, <1>3

(* What a path with one more table in front looks like, position by        *)
(* position.                                                               *)
LEMMA Prefixed ==
  ASSUME NEW child \in Tables, NEW owner, IsPath(owner), NEW path, path = <<child>> \o owner
  PROVE  /\ path[1] = child /\ path[2] = owner[1] /\ Tail(path) = owner
         /\ Len(path) = Len(owner) + 1 /\ Len(path) > 1 /\ IsPath(path)
         /\ \A i \in DOMAIN owner : i + 1 \in DOMAIN path /\ path[i + 1] = owner[i]
         /\ \A i \in DOMAIN path : i # 1 => i - 1 \in DOMAIN owner /\ path[i] = owner[i - 1]
<1>1. owner \in Seq(Tables) /\ Len(owner) \in Nat \ {0} /\ DOMAIN owner = 1 .. Len(owner)
  BY DEF IsPath
<1>2. <<child>> \in Seq(Tables) /\ Len(<<child>>) = 1
  OBVIOUS
<1>3. /\ path \in Seq(Tables) /\ Len(path) = Len(owner) + 1
      /\ path[1] = child /\ \A i \in 1 .. Len(owner) : path[i + 1] = owner[i]
  BY <1>1, <1>2
<1>4. path # <<>> /\ DOMAIN path = 1 .. Len(owner) + 1
  BY <1>1, <1>3
<1>5. Tail(path) = owner
  <2>1. Tail(path) \in Seq(Tables) /\ Len(Tail(path)) = Len(owner)
    BY <1>1, <1>3, <1>4
  <2>2. \A i \in 1 .. Len(owner) : Tail(path)[i] = owner[i]
    BY <1>1, <1>3, <1>4
  <2> QED BY <1>1, <2>1, <2>2
<1>6. \A i \in DOMAIN path : i # 1 => i - 1 \in 1 .. Len(owner) /\ path[i] = owner[i - 1]
  <2> SUFFICES ASSUME NEW i \in DOMAIN path, i # 1
               PROVE  i - 1 \in 1 .. Len(owner) /\ path[i] = owner[i - 1]
    OBVIOUS
  <2>1. i - 1 \in 1 .. Len(owner) /\ i = (i - 1) + 1
    BY <1>1, <1>4
  <2> QED BY <1>3, <2>1
<1> QED BY <1>1, <1>3, <1>4, <1>5, <1>6 DEF IsPath

ServicePaths == InstancePaths \cup ExecutionPaths

IsOwned(path, paths, tables) ==
  /\ Len(path) > 1 /\ path[1] \in tables /\ path[1] \in Models[path[2]].owns
  /\ Tail(path) \in paths /\ Tail(path)[1] = path[2]
  /\ path = <<path[1]>> \o Tail(path)

(* A path that extends one of a family is owned in that family.            *)
LEMMA BuiltIsOwned ==
  ASSUME NEW tables \in SUBSET Tables, NEW paths, \A path \in paths : IsPath(path),
         NEW path, Under(path, paths, tables)
  PROVE  IsOwned(path, paths, tables)
<1>1. PICK owner \in paths : \E c \in Models[owner[1]].owns \cap tables : path = <<c>> \o owner
  BY DEF Under
<1>2. PICK child \in Models[owner[1]].owns \cap tables : path = <<child>> \o owner
  BY <1>1
<1>3. child \in Tables /\ IsPath(owner)
  BY <1>1, <1>2
<1>4. path[1] = child /\ path[2] = owner[1] /\ Tail(path) = owner /\ Len(path) > 1
  BY <1>2, <1>3, Prefixed
<1> QED BY <1>1, <1>2, <1>4 DEF IsOwned

(* Every path is its root, or has the path of an owner as its tail.        *)
LEMMA TemplatePathsAreOwned ==
  \A path \in TemplatePaths :
     /\ IsPath(path)
     /\ \/ \E root \in TemplateRoots : path = <<root>>
        \/ IsOwned(path, TemplatePaths, TemplateTables)
<1>1. \A path \in TemplatePaths : IsPath(path)
  BY FamiliesOfPaths DEF IsChain, IsPath
<1> SUFFICES ASSUME NEW root \in TemplateRoots, NEW path \in PathsFrom(<<root>>, TemplateTables),
                    path # <<root>>
             PROVE  IsOwned(path, TemplatePaths, TemplateTables)
  BY <1>1 DEF TemplatePaths, TemplateRoots
<1>2. PathsFrom(<<root>>, TemplateTables) \subseteq TemplatePaths
  BY DEF TemplatePaths, TemplateRoots
<1>3. Under(path, PathsFrom(<<root>>, TemplateTables), TemplateTables)
  BY PathsAreBuilt
<1>4. Under(path, TemplatePaths, TemplateTables)
  BY <1>2, <1>3 DEF Under
<1> QED BY <1>1, <1>4, BuiltIsOwned, TablesOfPaths

(* A path of the rows of a service is a root or has its owner among those  *)
(* paths.                                                                  *)
LEMMA InstancePathsAreOwned ==
  \A path \in InstancePaths :
     /\ IsPath(path)
     /\ \/ path = <<"service">> \/ path = <<"substitution">>
        \/ IsOwned(path, InstancePaths, InstanceTables)
<1>1. \A path \in InstancePaths : IsPath(path)
  BY FamiliesOfPaths DEF IsChain, IsPath
<1> SUFFICES ASSUME NEW root \in {"service", "substitution"},
                    NEW path \in PathsFrom(<<root>>, InstanceTables), path # <<root>>
             PROVE  IsOwned(path, InstancePaths, InstanceTables)
  BY <1>1 DEF InstancePaths
<1>2. PathsFrom(<<root>>, InstanceTables) \subseteq InstancePaths
  BY DEF InstancePaths
<1>3. Under(path, PathsFrom(<<root>>, InstanceTables), InstanceTables)
  BY PathsAreBuilt
<1>4. Under(path, InstancePaths, InstanceTables)
  BY <1>2, <1>3 DEF Under
<1> QED BY <1>1, <1>4, BuiltIsOwned, TablesOfPaths

(* The start of the paths of the tasks of a relationship: the relationship *)
(* is among the paths of services.                                         *)
LEMMA TasksOfRelationships ==
  /\ <<"task", "relationship", "node", "service">> = <<"task">> \o <<"relationship", "node", "service">>
  /\ <<"relationship", "node", "service">> \in InstancePaths
  /\ "task" \in Models["relationship"].owns \cap ExecutionTables
<1> DEFINE longer(paths) == Longer(paths, InstanceTables)
           root == <<"service">>
           node == <<"node">> \o root
           relationship == <<"relationship">> \o node
           task == <<"task">> \o relationship
<1>1. /\ {"service", "node", "relationship", "task"} \subseteq Tables
      /\ "node" \in Models["service"].owns \cap InstanceTables
      /\ "relationship" \in Models["node"].owns \cap InstanceTables
      /\ "task" \in Models["relationship"].owns \cap ExecutionTables
  BY DEF Tables, Models, Table, Service, ServiceOwns, Node, NodeOwns, Relationship,
     InstanceTables, ExecutionTables
<1>2. /\ root \in Seq(Tables) /\ Len(root) = 1 /\ root[1] = "service"
      /\ node \in Seq(Tables) /\ Len(node) = 2 /\ node[1] = "node" /\ node[2] = "service"
      /\ relationship \in Seq(Tables) /\ Len(relationship) = 3 /\ relationship[1] = "relationship"
      /\ relationship[2] = "node" /\ relationship[3] = "service"
      /\ task \in Seq(Tables) /\ Len(task) = 4 /\ task[1] = "task" /\ task[2] = "relationship"
      /\ task[3] = "node" /\ task[4] = "service"
  BY <1>1
<1>3. relationship = <<"relationship", "node", "service">>
  <2>1. /\ <<"relationship", "node", "service">> \in Seq(Tables)
        /\ Len(<<"relationship", "node", "service">>) = 3
    BY <1>1
  <2>2. \A i \in 1 .. 3 : relationship[i] = <<"relationship", "node", "service">>[i]
    <3> HIDE DEF relationship
    <3> QED BY <1>2
  <2> HIDE DEF relationship
  <2> QED BY <1>2, <2>1, <2>2, SeqEqual
<1>4. task = <<"task", "relationship", "node", "service">>
  <2>1. /\ <<"task", "relationship", "node", "service">> \in Seq(Tables)
        /\ Len(<<"task", "relationship", "node", "service">>) = 4
    BY <1>1
  <2>2. \A i \in 1 .. 4 : task[i] = <<"task", "relationship", "node", "service">>[i]
    <3> HIDE DEF task
    <3> QED BY <1>2
  <2> HIDE DEF task
  <2> QED BY <1>2, <2>1, <2>2, SeqEqual
<1>5. relationship \in PathsFrom(root, InstanceTables)
  <2>1. \A paths : paths \subseteq longer(paths)
    BY DEF Longer
  <2>2. node \in longer({root})
    BY <1>1, <1>2 DEF Longer
  <2>3. relationship \in longer(longer({root}))
    <3> DEFINE paths == longer({root})
    <3>1. node \in paths
      BY <2>2
    <3> HIDE DEF paths, node
    <3>2. relationship \in longer(paths)
      BY <1>1, <1>2, <3>1 DEF Longer
    <3> QED BY <3>2 DEF paths
  <2>4. PathsFrom(root, InstanceTables) = longer(longer(longer(longer(longer({root})))))
    BY DEF PathsFrom
  <2> HIDE DEF longer, relationship, root
  <2> QED BY <2>1, <2>3, <2>4
<1>6. relationship \in InstancePaths
  <2> HIDE DEF relationship
  <2> QED BY <1>5 DEF InstancePaths
<1> HIDE DEF relationship
<1> QED BY <1>1, <1>3, <1>4, <1>6 DEF task

(* A path of the rows of executions is the execution or has its owner      *)
(* among the paths of services and executions.                             *)
LEMMA ExecutionPathsAreOwned ==
  \A path \in ExecutionPaths :
     /\ IsPath(path)
     /\ \/ path = <<"execution", "service">>
        \/ IsOwned(path, ServicePaths, ExecutionTables)
<1>1. \A path \in ServicePaths : IsPath(path)
  BY FamiliesOfPaths DEF IsChain, IsPath, ServicePaths
<1> SUFFICES ASSUME NEW start \in {<<"execution", "service">>,
                                   <<"task", "relationship", "node", "service">>},
                    NEW path \in PathsFrom(start, ExecutionTables), path # <<"execution", "service">>
             PROVE  IsOwned(path, ServicePaths, ExecutionTables)
  BY <1>1 DEF ExecutionPaths, ServicePaths
<1>2. PathsFrom(start, ExecutionTables) \subseteq ServicePaths
  BY DEF ExecutionPaths, ServicePaths
<1>3. CASE path # start
  <2>1. Under(path, PathsFrom(start, ExecutionTables), ExecutionTables)
    BY <1>3, PathsAreBuilt
  <2>2. Under(path, ServicePaths, ExecutionTables)
    BY <1>2, <2>1 DEF Under
  <2> QED BY <1>1, <2>2, BuiltIsOwned, TablesOfPaths
<1>4. CASE path = start
  <2>1. path = <<"task">> \o <<"relationship", "node", "service">>
    BY <1>4, TasksOfRelationships
  <2>2. <<"relationship", "node", "service">>[1] = "relationship"
    OBVIOUS
  <2>3. <<"relationship", "node", "service">> \in ServicePaths
    BY TasksOfRelationships DEF ServicePaths
  <2>4. Under(path, ServicePaths, ExecutionTables)
    BY <2>1, <2>2, <2>3, TasksOfRelationships DEF Under
  <2> QED BY <1>1, <2>4, BuiltIsOwned, TablesOfPaths
<1> QED BY <1>3, <1>4

-----------------------------------------------------------------------------
(* The two families of paths, and what is under a relationship.            *)
ServiceHeads == InstanceTables \cup ExecutionTables \cup {"service", "substitution", "execution"}
TemplateHeads == TemplateTables \cup TemplateRoots

(* No path is both of a template and of a service.                         *)
LEMMA FamiliesAreApart == TemplatePaths \cap ServicePaths = {}
BY FamiliesOfPaths DEF ServicePaths, IsChain, TemplateRoots

(* The tables at the head of the paths of each family.                     *)
LEMMA Heads ==
  /\ \A path \in TemplatePaths : path[1] \in TemplateHeads
  /\ \A path \in ServicePaths : path[1] \in ServiceHeads
<1>1. /\ \A root : <<root>>[1] = root
      /\ <<"execution", "service">>[1] = "execution"
  OBVIOUS
<1>2. \A path \in TemplatePaths : path[1] \in TemplateHeads
  BY <1>1, TemplatePathsAreOwned DEF TemplateHeads, IsOwned
<1>3. \A path \in InstancePaths : path[1] \in ServiceHeads
  BY <1>1, InstancePathsAreOwned DEF ServiceHeads, IsOwned
<1>4. \A path \in ExecutionPaths : path[1] \in ServiceHeads
  BY <1>1, ExecutionPathsAreOwned DEF ServiceHeads, IsOwned
<1> QED BY <1>2, <1>3, <1>4 DEF ServicePaths

(* Of what services, their rows and executions own, only the parameters    *)
(* are in tables that templates have too.                                  *)
SharesParameters(table) == Models[table].owns \cap TemplateHeads \subseteq Parameters

(* Templates and services have no table in common but those of parameters. *)
LEMMA OnlyParametersAreShared == \A table \in ServiceHeads : SharesParameters(table)
<1>1. /\ SharesParameters("service") /\ SharesParameters("node") /\ SharesParameters("group")
      /\ SharesParameters("policy") /\ SharesParameters("substitution")
      /\ SharesParameters("substitution_mapping") /\ SharesParameters("relationship")
      /\ SharesParameters("capability") /\ SharesParameters("interface")
      /\ SharesParameters("operation") /\ SharesParameters("artifact")
  BY DEF SharesParameters, Models, TemplateHeads, TemplateTables, TemplateRoots, Parameters,
     Table, ServiceOwns, Service, NodeOwns, Node, Group, Policy, Substitution,
     SubstitutionMapping, Relationship, Capability, Interface, Operation, Artifact
<1>2. /\ SharesParameters("output") /\ SharesParameters("input")
      /\ SharesParameters("configuration") /\ SharesParameters("property")
      /\ SharesParameters("attribute") /\ SharesParameters("argument")
      /\ SharesParameters("execution") /\ SharesParameters("task") /\ SharesParameters("log")
  BY DEF SharesParameters, Models, TemplateHeads, TemplateTables, TemplateRoots, Parameters,
     Table, Output, Input, Configuration, Property, Attribute, Argument, Execution, Task, Log
<1> QED BY <1>1, <1>2 DEF ServiceHeads, InstanceTables, ExecutionTables, Parameters

(* Paths of two and three tables.                                          *)
LEMMA PrefixesWrittenOut ==
  ASSUME NEW a \in Tables, NEW b \in Tables, NEW c \in Tables
  PROVE  <<a>> \o <<b>> = <<a, b>> /\ <<a>> \o <<b, c>> = <<a, b, c>>
<1>1. /\ <<a>> \in Seq(Tables) /\ <<b>> \in Seq(Tables) /\ <<b, c>> \in Seq(Tables)
      /\ <<a, b>> \in Seq(Tables) /\ <<a, b, c>> \in Seq(Tables)
      /\ Len(<<a>>) = 1 /\ Len(<<b>>) = 1 /\ Len(<<b, c>>) = 2
      /\ Len(<<a, b>>) = 2 /\ Len(<<a, b, c>>) = 3
  OBVIOUS
<1>2. <<a>> \o <<b>> = <<a, b>>
  <2>1. <<a>> \o <<b>> \in Seq(Tables) /\ Len(<<a>> \o <<b>>) = 2
        /\ (<<a>> \o <<b>>)[1] = a /\ (<<a>> \o <<b>>)[2] = b
    BY <1>1, ConcatProperties
  <2>2. \A i \in 1 .. 2 : (<<a>> \o <<b>>)[i] = <<a, b>>[i]
    BY <2>1
  <2> QED BY <1>1, <2>1, <2>2, SeqEqual
<1>3. <<a>> \o <<b, c>> = <<a, b, c>>
  <2>1. <<a>> \o <<b, c>> \in Seq(Tables) /\ Len(<<a>> \o <<b, c>>) = 3
        /\ (<<a>> \o <<b, c>>)[1] = a /\ (<<a>> \o <<b, c>>)[2] = b /\ (<<a>> \o <<b, c>>)[3] = c
    BY <1>1, ConcatProperties
  <2>2. \A i \in 1 .. 3 : (<<a>> \o <<b, c>>)[i] = <<a, b, c>>[i]
    BY <2>1
  <2> QED BY <1>1, <2>1, <2>2, SeqEqual
<1> QED BY <1>2, <1>3

(* The paths of services and of executions taken together: one of the      *)
(* three roots, or a path whose owner is there.                            *)
LEMMA ServicePathsAreOwned ==
  \A path \in ServicePaths :
     \/ path \in {<<"service">>, <<"substitution">>, <<"execution", "service">>}
     \/ /\ path[1] \in ServiceHeads \ {"service", "substitution", "execution"}
        /\ IsOwned(path, ServicePaths, Tables)
<1>1. /\ InstanceTables \subseteq ServiceHeads \ {"service", "substitution", "execution"}
      /\ ExecutionTables \subseteq ServiceHeads \ {"service", "substitution", "execution"}
  BY DEF ServiceHeads, InstanceTables, ExecutionTables, Parameters
<1>2. /\ \A path : IsOwned(path, InstancePaths, InstanceTables) => IsOwned(path, ServicePaths, Tables)
      /\ \A path : IsOwned(path, ServicePaths, ExecutionTables) => IsOwned(path, ServicePaths, Tables)
  BY TablesOfPaths DEF IsOwned, ServicePaths
<1>3. ASSUME NEW path \in InstancePaths, path # <<"service">>, path # <<"substitution">>
      PROVE  path[1] \in ServiceHeads \ {"service", "substitution", "execution"}
             /\ IsOwned(path, ServicePaths, Tables)
  <2>1. IsOwned(path, InstancePaths, InstanceTables)
    BY <1>3, InstancePathsAreOwned
  <2>2. path[1] \in InstanceTables
    BY <2>1 DEF IsOwned
  <2> QED BY <1>1, <1>2, <2>1, <2>2
<1>4. ASSUME NEW path \in ExecutionPaths, path # <<"execution", "service">>
      PROVE  path[1] \in ServiceHeads \ {"service", "substitution", "execution"}
             /\ IsOwned(path, ServicePaths, Tables)
  <2>1. IsOwned(path, ServicePaths, ExecutionTables)
    BY <1>4, ExecutionPathsAreOwned
  <2>2. path[1] \in ExecutionTables
    BY <2>1 DEF IsOwned
  <2> QED BY <1>1, <1>2, <2>1, <2>2
<1> QED BY <1>3, <1>4 DEF ServicePaths

(* The table at the head of some paths is enough to tell the path.         *)
LEMMA KnownPaths ==
  ASSUME NEW path \in ServicePaths
  PROVE  /\ path[1] = "node" => path = <<"node", "service">>
         /\ path[1] = "capability" => path = <<"capability", "node", "service">>
         /\ path[1] = "relationship" => path = <<"relationship", "node", "service">>
         /\ path[1] = "service" => path = <<"service">>
         /\ path[1] = "execution" => path = <<"execution", "service">>
         /\ path[1] = "substitution" => path = <<"substitution">>
<1>0. /\ <<"service">>[1] = "service" /\ <<"substitution">>[1] = "substitution"
      /\ <<"execution", "service">>[1] = "execution"
      /\ {"service", "substitution", "execution", "node", "capability", "relationship"} \subseteq Tables
  BY DEF Tables, Models
<1>1. \A table \in ServiceHeads : table \in Tables
  BY TablesOfPaths DEF ServiceHeads
<1>2. \A p \in ServicePaths : p[1] = "service" => p = <<"service">>
  BY <1>0, ServicePathsAreOwned
<1>3. ASSUME NEW p \in ServicePaths, p[1] = "node"
      PROVE  p = <<"node", "service">>
  <2>1. IsOwned(p, ServicePaths, Tables)
    BY <1>0, <1>3, ServicePathsAreOwned
  <2>2. p[2] \in ServiceHeads
    BY <2>1, Heads DEF IsOwned
  <2>3. p[2] \in {"service", "node_template"}
    BY <1>1, <1>3, <2>1, <2>2, FewOwners DEF OwnersOf, IsOwned
  <2>4. p[2] = "service"
    BY <2>2, <2>3 DEF ServiceHeads, InstanceTables, ExecutionTables, Parameters
  <2>5. p = <<"node">> \o <<"service">>
    BY <1>2, <1>3, <2>1, <2>4 DEF IsOwned
  <2>6. <<"node">> \o <<"service">> = <<"node", "service">>
    BY <1>0, PrefixesWrittenOut
  <2> QED BY <2>5, <2>6, Zenon
<1>4. ASSUME NEW table \in {"capability", "relationship"}, path[1] = table
      PROVE  path = <<table, "node", "service">>
  <2>1. IsOwned(path, ServicePaths, Tables)
    BY <1>0, <1>4, ServicePathsAreOwned
  <2>2. path[2] \in ServiceHeads
    BY <2>1, Heads DEF IsOwned
  <2>3. path[2] \in {"node", "capability_template", "requirement_template", "relationship_template"}
    BY <1>1, <1>4, <2>1, <2>2, FewOwners DEF OwnersOf, IsOwned
  <2>4. path[2] = "node"
    BY <2>2, <2>3 DEF ServiceHeads, InstanceTables, ExecutionTables, Parameters
  <2>5. path = <<table>> \o <<"node", "service">>
    BY <1>3, <1>4, <2>1, <2>4 DEF IsOwned
  <2>6. <<table>> \o <<"node", "service">> = <<table, "node", "service">>
    <3>1. table \in Tables /\ "node" \in Tables /\ "service" \in Tables
      BY <1>0
    <3> QED BY <3>1, PrefixesWrittenOut
  <2> QED BY <2>5, <2>6, Zenon
<1>5. /\ path[1] = "execution" => path = <<"execution", "service">>
      /\ path[1] = "substitution" => path = <<"substitution">>
  BY <1>0, ServicePathsAreOwned
<1> QED BY <1>2, <1>3, <1>4, <1>5

UnderRelationships == {"relationship", "interface", "operation", "task", "log"} \cup Parameters

(* What a row below a relationship owns is below the relationship as well. *)
LEMMA OwnedUnderRelationships ==
  \A table \in UnderRelationships :
     Models[table].owns \subseteq UnderRelationships \ {"relationship"}
<1>1. \A table \in {"relationship", "interface", "operation", "task", "log"} :
        Models[table].owns \subseteq UnderRelationships \ {"relationship"}
  BY DEF UnderRelationships, Parameters, Models, Relationship, Interface,
     Operation, Task, Log, Table
<1>2. \A table \in Parameters : Models[table].owns = {}
  BY DEF Parameters, Models, Table, Output, Input, Configuration, Property, Attribute, Argument
<1> QED BY <1>1, <1>2 DEF UnderRelationships

(* A longer path passes a relationship where it adds one or the shorter    *)
(* one does.                                                               *)
LEMMA PrefixedRelationship ==
  ASSUME NEW child \in Tables, NEW owner, IsPath(owner)
  PROVE  HasRelationship(<<child>> \o owner) <=> child = "relationship" \/ HasRelationship(owner)
<1> DEFINE path == <<child>> \o owner
<1>1. /\ path[1] = child /\ 1 \in DOMAIN path
      /\ \A i \in DOMAIN owner : i + 1 \in DOMAIN path /\ path[i + 1] = owner[i]
      /\ \A i \in DOMAIN path : i # 1 => i - 1 \in DOMAIN owner /\ path[i] = owner[i - 1]
  <2> HIDE DEF path
  <2>1. path = <<child>> \o owner
    BY DEF path
  <2> QED BY <2>1, Prefixed DEF IsPath
<1> HIDE DEF path
<1>2. HasRelationship(path) <=> child = "relationship" \/ HasRelationship(owner)
  BY <1>1 DEF HasRelationship
<1> QED BY <1>2 DEF path

(* A chain that only grows below relationships by what is found there.     *)
UnderOnes(paths) ==
  \A path \in paths : IsPath(path) /\ (HasRelationship(path) => path[1] \in UnderRelationships)

(* One more level of paths: below a relationship there are only its own    *)
(* collections.                                                            *)
LEMMA LongerUnderRelationships ==
  ASSUME NEW paths, UnderOnes(paths), NEW tables \in SUBSET Tables
  PROVE  UnderOnes(Longer(paths, tables))
<1> SUFFICES ASSUME NEW path \in Longer(paths, tables), path \notin paths
             PROVE  /\ IsPath(path)
                    /\ HasRelationship(path) => path[1] \in UnderRelationships
  BY DEF UnderOnes
<1>1. PICK owner \in paths : path \in {<<child>> \o owner : child \in Models[owner[1]].owns \cap tables}
  BY DEF Longer
<1>2. PICK child \in Models[owner[1]].owns \cap tables : path = <<child>> \o owner
  BY <1>1
<1>3. IsPath(owner) /\ child \in Tables
  BY <1>1, <1>2 DEF UnderOnes
<1>4. path[1] = child /\ IsPath(path)
  <2>1. path[1] = child /\ Len(path) > 1 /\ path \in Seq(Tables)
    <3>1. owner \in Seq(Tables) /\ Len(owner) \in Nat \ {0}
      BY ONLY <1>3 DEF IsPath
    <3> QED BY ONLY <3>1, <1>2, <1>3
  <2> QED BY ONLY <2>1 DEF IsPath
<1>5. HasRelationship(path) => child = "relationship" \/ HasRelationship(owner)
  <2>1. HasRelationship(<<child>> \o owner) <=> child = "relationship" \/ HasRelationship(owner)
    BY <1>3, PrefixedRelationship
  <2> QED BY ONLY <1>2, <2>1
<1>6. HasRelationship(owner) => child \in UnderRelationships
  BY <1>1, <1>2, OwnedUnderRelationships DEF UnderOnes
<1> QED BY <1>4, <1>5, <1>6 DEF UnderRelationships

(* All the paths from a start that is a relationship's or passes none.     *)
LEMMA PathsUnderRelationships ==
  ASSUME NEW start, UnderOnes({start}), NEW tables \in SUBSET Tables
  PROVE  UnderOnes(PathsFrom(start, tables))
<1> DEFINE longer(paths) == Longer(paths, tables)
           all == longer(longer(longer(longer(longer({start})))))
<1>1. \A paths : UnderOnes(paths) => UnderOnes(longer(paths))
  BY LongerUnderRelationships
<1> HIDE DEF longer
<1>2. UnderOnes(all)
  BY <1>1
<1>3. PathsFrom(start, tables) = all
  BY DEF PathsFrom, longer
<1> HIDE DEF all
<1> QED BY <1>2, <1>3

(* The head of a path that passes a relationship is the relationship, one  *)
(* of its collections or a task with what hangs from it.                   *)
LEMMA WhatIsUnderRelationships ==
  ASSUME NEW path \in ServicePaths, HasRelationship(path)
  PROVE  path[1] \in UnderRelationships
<1>1. ASSUME NEW root \in {"service", "substitution"}
      PROVE  UnderOnes({<<root>>})
  <2>1. root \in Tables /\ root # "relationship"
    BY TablesOfPaths
  <2>2. <<root>> \in Seq(Tables) /\ Len(<<root>>) = 1 /\ <<root>>[1] = root /\ DOMAIN <<root>> = {1}
    BY <2>1
  <2>3. IsPath(<<root>>)
    BY <2>2 DEF IsPath
  <2>4. ~ HasRelationship(<<root>>)
    BY <2>1, <2>2 DEF HasRelationship
  <2> QED BY <2>3, <2>4 DEF UnderOnes
<1>2. UnderOnes({<<"execution", "service">>})
  <2> DEFINE start == <<"execution", "service">>
  <2>1. start \in Seq(Tables) /\ Len(start) = 2 /\ start[1] = "execution" /\ start[2] = "service"
    <3>1. "execution" \in Tables /\ "service" \in Tables
      BY TablesOfPaths
    <3> QED BY <3>1
  <2> HIDE DEF start
  <2>2. IsPath(start)
    <3>1. <<"execution", "service">> \in ExecutionPaths
      BY StartIsAPath DEF ExecutionPaths
    <3> QED BY <3>1, ExecutionPathsAreOwned DEF start
  <2>3. ~ HasRelationship(start)
    <3>1. \A i \in DOMAIN start : i = 1 \/ i = 2
      BY <2>1
    <3> QED BY <2>1, <3>1 DEF HasRelationship
  <2>4. UnderOnes({start})
    BY <2>2, <2>3 DEF UnderOnes
  <2> QED BY <2>4 DEF start
<1>3. UnderOnes({<<"task", "relationship", "node", "service">>})
  <2>1. /\ IsPath(<<"task", "relationship", "node", "service">>)
        /\ <<"task", "relationship", "node", "service">>[1] = "task"
    <3>1. <<"task", "relationship", "node", "service">> \in ExecutionPaths
      BY StartIsAPath DEF ExecutionPaths
    <3> QED BY <3>1, ExecutionPathsAreOwned
  <2> QED BY <2>1 DEF UnderOnes, UnderRelationships
<1>4. \A root \in {"service", "substitution"} : UnderOnes(PathsFrom(<<root>>, InstanceTables))
  BY <1>1, PathsUnderRelationships, TablesOfPaths
<1>5. UnderOnes(PathsFrom(<<"execution", "service">>, ExecutionTables))
  BY <1>2, PathsUnderRelationships, TablesOfPaths
<1>6. UnderOnes(PathsFrom(<<"task", "relationship", "node", "service">>, ExecutionTables))
  BY <1>3, PathsUnderRelationships, TablesOfPaths
<1> QED BY <1>4, <1>5, <1>6 DEF ServicePaths, InstancePaths, ExecutionPaths, UnderOnes

-----------------------------------------------------------------------------
(* What is owned by the rows of a service is in the same service.          *)
LEMMA FamiliesOfRows ==
  \A row \in AllRows :
     \/ row.path \in TemplatePaths /\ \E t \in ServiceTemplates : row = Row(row.path, t) /\ row.of = t
     \/ row.path \in ServicePaths /\ row.of \in Services /\ row = Row(row.path, row.of)
        /\ row \in InstanceRows(row.of) \cup ExecutionRows(row.of)
<1> SUFFICES ASSUME NEW row \in AllRows
             PROVE  \/ /\ row.path \in TemplatePaths
                       /\ \E t \in ServiceTemplates : row = Row(row.path, t) /\ row.of = t
                    \/ /\ row.path \in ServicePaths /\ row.of \in Services
                       /\ row = Row(row.path, row.of)
                       /\ row \in InstanceRows(row.of) \cup ExecutionRows(row.of)
  OBVIOUS
<1>1. ASSUME NEW t \in ServiceTemplates, row \in TemplateRows(t)
      PROVE  row.path \in TemplatePaths /\ row = Row(row.path, t) /\ row.of = t
  BY <1>1 DEF TemplateRows, Row
<1>2. ASSUME NEW s \in Services, row \in InstanceRows(s) \cup ExecutionRows(s)
      PROVE  row.path \in ServicePaths /\ row.of = s /\ row = Row(row.path, s)
  BY <1>2 DEF InstanceRows, ExecutionRows, ServicePaths, Row
<1> QED BY <1>1, <1>2, KindsOfRows

(* The path a row is made from has the template's table at its head.       *)
LEMMA MadeFromATemplate ==
  ASSUME NEW path, IsPath(path)
  PROVE  MadeFrom(path)[1] = TemplateTable[path[1]]
<1> DEFINE last == IF \E i \in DOMAIN path : path[i] = "relationship"
                   THEN CHOOSE i \in DOMAIN path : path[i] = "relationship"
                   ELSE Len(path)
<1>1. last \in Nat \ {0}
  BY DEF IsPath
<1>2. MadeFrom(path) = [i \in 1 .. last |-> TemplateTable[path[i]]]
  BY DEF MadeFrom
<1> HIDE DEF last
<1> QED BY <1>1, <1>2

(* The path to a table that has only one has that table at its head.       *)
LEMMA HeadOfPathTo ==
  ASSUME NEW table \in DOMAIN PathTo
  PROVE  PathTo[table] \in Paths /\ PathTo[table][1] = table /\ table \notin OfOneOwner
<1>1. table \in {path[1] : path \in Paths} \ OfOneOwner
  BY DEF PathTo
<1>2. \E path \in Paths : path[1] = table
  BY <1>1
<1>3. PathTo[table] = CHOOSE path \in Paths : path[1] = table
  BY <1>1 DEF PathTo
<1> QED BY <1>1, <1>2, <1>3

TemplatesOfInstances == {TemplateTable[table] : table \in DOMAIN TemplateTable}

(* The tables that instances are made from are none of the tables of       *)
(* instances.                                                              *)
LEMMA TemplatesAreNoInstances == TemplatesOfInstances \cap ServiceHeads = {}
BY DEF TemplatesOfInstances, TemplateTable, ServiceHeads, InstanceTables, ExecutionTables, Parameters

\* A task is of a node or of a relationship; what is not under its task has none.
Unset(path, key) ==
  \/ path[1] = "task" /\ key = (IF path[2] = "relationship" THEN "node" ELSE "relationship")
  \/ path[1] = "log" /\ key = "task"

(* What is not made with a service but with its executions is in paths of  *)
(* its own, each with the path of its owner, or begins them.               *)
LEMMA ExecutionPathsGoOn ==
  \A path \in ExecutionPaths :
     \/ path \in {<<"execution", "service">>, <<"task", "relationship", "node", "service">>}
     \/ IsOwned(path, ExecutionPaths, ExecutionTables)
<1> SUFFICES ASSUME NEW start \in {<<"execution", "service">>,
                                   <<"task", "relationship", "node", "service">>},
                    NEW path \in PathsFrom(start, ExecutionTables), path # start
             PROVE  IsOwned(path, ExecutionPaths, ExecutionTables)
  BY DEF ExecutionPaths
<1>1. \A p \in ExecutionPaths : IsPath(p)
  BY ExecutionPathsAreOwned
<1>2. PathsFrom(start, ExecutionTables) \subseteq ExecutionPaths
  BY DEF ExecutionPaths
<1>3. Under(path, PathsFrom(start, ExecutionTables), ExecutionTables)
  BY PathsAreBuilt
<1>4. Under(path, ExecutionPaths, ExecutionTables)
  BY <1>2, <1>3 DEF Under
<1> QED BY <1>1, <1>4, BuiltIsOwned, TablesOfPaths

(* The rows of executions are not made with their service.                 *)
LEMMA ExecutionsAreElsewhere ==
  ASSUME NEW path \in ExecutionPaths
  PROVE  path \notin TemplatePaths \cup InstancePaths
<1> DEFINE heads == InstanceTables \cup {"service", "substitution"}
<1>1. \A p \in InstancePaths : p[1] \in heads
  <2>1. <<"service">>[1] = "service" /\ <<"substitution">>[1] = "substitution"
    OBVIOUS
  <2> QED BY <2>1, InstancePathsAreOwned DEF IsOwned
<1>2. \A p \in InstancePaths : p[1] \in {"service", "substitution"} \/ p[2] \in heads
  <2>1. <<"service">>[1] = "service" /\ <<"substitution">>[1] = "substitution"
    OBVIOUS
  <2> QED BY <1>1, <2>1, InstancePathsAreOwned DEF IsOwned
<1>3. {"execution", "task", "log"} \cap heads = {}
  BY DEF InstanceTables, Parameters
<1>4. \A p \in ExecutionPaths : p[1] \in {"execution", "task", "log"} \cup Parameters
  <2>1. /\ <<"execution", "service">>[1] = "execution"
        /\ <<"task", "relationship", "node", "service">>[1] = "task"
    OBVIOUS
  <2> QED BY <2>1, ExecutionPathsGoOn DEF IsOwned, ExecutionTables
<1>5. path[1] \in {"execution", "task", "log"} \/ path[2] \in {"execution", "task", "log"}
  <2>1. /\ <<"execution", "service">>[1] = "execution"
        /\ <<"task", "relationship", "node", "service">>[1] = "task"
    OBVIOUS
  <2>2. CASE IsOwned(path, ExecutionPaths, ExecutionTables)
    <3>1. path[2] \in {"execution", "task", "log"} \cup Parameters /\ path[1] \in Models[path[2]].owns
      BY <1>4, <2>2 DEF IsOwned
    <3>2. \A table \in Parameters : Models[table].owns = {}
      BY DEF Parameters, Models, Table, Output, Input, Configuration, Property, Attribute, Argument
    <3> QED BY <3>1, <3>2
  <2> QED BY <2>1, <2>2, ExecutionPathsGoOn
<1>6. path[1] \notin {"service", "substitution"}
  BY <1>4 DEF Parameters
<1> HIDE DEF heads
<1>7. path \notin InstancePaths
  BY <1>1, <1>2, <1>3, <1>5, <1>6
<1>8. path \notin TemplatePaths
  BY FamiliesAreApart DEF ServicePaths
<1> QED BY <1>7, <1>8

(* Tasks and logs are of executions, and which owners they have there.     *)
LEMMA TasksAreOfExecutions ==
  ASSUME NEW path \in ServicePaths, path[1] \in {"task", "log"}
  PROVE  /\ path \in ExecutionPaths /\ Len(path) > 1
         /\ path[1] = "task" => path[2] \in {"execution", "relationship"}
         /\ path[1] = "log" => path[2] \in {"execution", "task"}
<1>1. path \in ExecutionPaths
  <2>1. \A p \in InstancePaths : p[1] \in InstanceTables \cup {"service", "substitution"}
    <3>1. <<"service">>[1] = "service" /\ <<"substitution">>[1] = "substitution"
      OBVIOUS
    <3> QED BY <3>1, InstancePathsAreOwned DEF IsOwned
  <2>2. path[1] \notin InstanceTables \cup {"service", "substitution"}
    BY DEF InstanceTables, Parameters
  <2> QED BY <2>1, <2>2 DEF ServicePaths
<1>2. CASE path = <<"task", "relationship", "node", "service">>
  <2>1. Len(path) = 4 /\ path[1] = "task" /\ path[2] = "relationship"
    BY <1>2
  <2> QED BY <1>1, <2>1
<1>3. CASE IsOwned(path, ExecutionPaths, ExecutionTables)
  <2>1. Len(path) > 1 /\ path[1] \in Models[path[2]].owns
    BY <1>3 DEF IsOwned
  <2>2. path[2] \in ExecutionTables \cup {"execution", "task"}
    <3>1. /\ <<"execution", "service">>[1] = "execution"
          /\ <<"task", "relationship", "node", "service">>[1] = "task"
      OBVIOUS
    <3> QED BY <1>3, <3>1, ExecutionPathsGoOn DEF IsOwned
  <2>3. path[2] \in Tables
    BY <2>2, TablesOfPaths DEF ExecutionTables
  <2>4. path[1] \in DOMAIN OwnersOf /\ path[2] \in OwnersOf[path[1]]
    <3>1. path[1] \in DOMAIN OwnersOf
      BY DEF OwnersOf
    <3> QED BY <2>1, <2>3, <3>1, FewOwners
  <2>5. /\ OwnersOf["task"] = {"execution", "node", "relationship", "plugin"}
        /\ OwnersOf["log"] = {"execution", "task"}
    BY DEF OwnersOf
  <2>6. {"node", "plugin"} \cap (ExecutionTables \cup {"execution", "task"}) = {}
    BY DEF ExecutionTables, Parameters
  <2> QED BY <1>1, <2>1, <2>2, <2>4, <2>5, <2>6
<1>4. path # <<"execution", "service">>
  <2>1. <<"execution", "service">>[1] = "execution"
    OBVIOUS
  <2> QED BY <2>1
<1> QED BY <1>1, <1>2, <1>3, <1>4, ExecutionPathsGoOn

(* The ways in which a key can lead from a row to one that owns it.        *)
LEMMA WaysToAnOwner ==
  ASSUME NEW path, NEW key, NEW owner, IsPath(path), KeyPath(path, key) = owner, owner # Null
  PROVE  \/ Len(path) > 1 /\ owner = Tail(path)
         \/ /\ path[1] \notin Parameters
            /\ \/ /\ path[1] \in DOMAIN TemplateTable /\ owner[1] = TemplateTable[path[1]]
                  /\ owner = MadeFrom(path)
               \/ /\ ~ (Len(path) > 1 /\ key \in OwningKeys(path[1], path[2]))
                  /\ ~ (path[1] \in OfOneOwner /\ path[1] \in Models[RefersTo(key)].owns)
                  /\ ~ Unset(path, key)
                  /\ RefersTo(key) \in DOMAIN PathTo /\ owner = PathTo[RefersTo(key)]
BY MadeFromATemplate DEF KeyPath, Unset

RelatedKeys == {"task", "interface", "property"}

(* The collections of a relationship refer to their relationship by one    *)
(* key.                                                                    *)
LEMMA KeysToRelationships ==
  /\ \A table \in RelatedKeys : OwningKeys(table, "relationship") = {"relationship"}
  /\ Models["relationship"].owns = RelatedKeys
  /\ RefersTo("relationship") = "relationship"
<1>1. \A table \in RelatedKeys : "relationship" \in Keys(table)
  BY DEF RelatedKeys, Keys, Models, Table, Task, Interface, Property, PropertyOwners
<1>2. Models["relationship"].owns = RelatedKeys
  BY DEF Models, Relationship, Table, RelatedKeys
<1> QED BY <1>1, <1>2 DEF OwningKeys, RefersTo, KeyTable

(* What a row of a service owns is a row of the same service: the keys of  *)
(* every table of instances refer to rows of the service the row is of.    *)
LEMMA OwnedInService ==
  ASSUME NEW row \in AllRows, row.path \in ServicePaths, NEW child \in Owned[row]
  PROVE  /\ child \in AllRows /\ child.path \in ServicePaths /\ child.of = row.of
         /\ child.path[1] \in Models[row.path[1]].owns
         /\ HasRelationship(row.path) => HasRelationship(child.path)
<1>1. /\ child \in AllRows /\ child.path[1] \in Models[row.path[1]].owns
      /\ \E key \in (OwningKeys(child.path[1], row.path[1]) \cap SetKeys(child)) \ EndKeys :
            KeyRow(child, key, row.of) = row
  BY DEF Owned
<1>2. PICK key \in (OwningKeys(child.path[1], row.path[1]) \cap SetKeys(child)) \ EndKeys :
            KeyRow(child, key, row.of) = row
  BY <1>1
<1>3. KeyPath(child.path, key) = row.path /\ KeyPath(child.path, key) # Null
  BY <1>2 DEF KeyRow, Row, SetKeys
<1>4. child.of = row.of
  <2>1. KeyPath(child.path, key) \notin TemplatePaths
    BY <1>3, FamiliesAreApart
  <2> QED BY <1>2, <2>1 DEF KeyRow, Row
<1>5. row.path[1] \in ServiceHeads /\ IsPath(child.path) /\ child.path[1] \in Tables
  <2>1. \A path \in ServicePaths : IsPath(path)
    BY InstancePathsAreOwned, ExecutionPathsAreOwned DEF ServicePaths
  <2>2. child.path \in TemplatePaths \/ child.path \in ServicePaths
    BY <1>1, FamiliesOfRows
  <2>3. IsPath(child.path)
    BY <2>1, <2>2, TemplatePathsAreOwned
  <2> QED BY <1>1, <2>3, Heads, RowsAreInTables
<1>6. \/ Len(child.path) > 1 /\ row.path = Tail(child.path)
      \/ /\ child.path[1] \notin Parameters
         /\ ~ (Len(child.path) > 1 /\ key \in OwningKeys(child.path[1], child.path[2]))
         /\ ~ (child.path[1] \in OfOneOwner /\ child.path[1] \in Models[RefersTo(key)].owns)
         /\ ~ Unset(child.path, key)
         /\ RefersTo(key) \in DOMAIN PathTo /\ row.path = PathTo[RefersTo(key)]
  <2>1. ~ (child.path[1] \in DOMAIN TemplateTable /\ row.path[1] = TemplateTable[child.path[1]])
    BY <1>5, TemplatesAreNoInstances DEF TemplatesOfInstances
  <2> QED BY <1>3, <1>5, <2>1, WaysToAnOwner
<1>7. child.path \in ServicePaths
  <2> SUFFICES ASSUME child.path \in TemplatePaths PROVE FALSE
    BY <1>1, FamiliesOfRows
  <2>1. child.path[1] \in Parameters
    BY <1>1, <1>5, Heads, OnlyParametersAreShared DEF SharesParameters
  <2>2. Len(child.path) > 1 /\ row.path = Tail(child.path)
    BY <1>6, <2>1
  <2>3. \A root \in TemplateRoots : child.path # <<root>>
    <3>1. \A root : Len(<<root>>) = 1
      OBVIOUS
    <3> QED BY <2>2, <3>1
  <2>4. Tail(child.path) \in TemplatePaths
    BY <2>3, TemplatePathsAreOwned DEF IsOwned
  <2> QED BY <2>2, <2>4, FamiliesAreApart
<1>8. ASSUME HasRelationship(row.path)
      PROVE  HasRelationship(child.path)
  <2>1. CASE Len(child.path) > 1 /\ row.path = Tail(child.path)
    <3>1. PICK i \in DOMAIN Tail(child.path) : Tail(child.path)[i] = "relationship"
      BY <1>8, <2>1 DEF HasRelationship
    <3>2. i + 1 \in DOMAIN child.path /\ child.path[i + 1] = "relationship"
      <4>1. child.path \in Seq(Tables) /\ Len(child.path) \in Nat /\ DOMAIN child.path = 1 .. Len(child.path)
        BY <1>5 DEF IsPath
      <4>2. DOMAIN Tail(child.path) = 1 .. Len(child.path) - 1
        BY <2>1, <4>1
      <4> QED BY <2>1, <3>1, <4>1, <4>2
    <3> QED BY <3>2 DEF HasRelationship
  <2>2. CASE ~ (Len(child.path) > 1 /\ row.path = Tail(child.path))
    <3>1. row.path[1] \in {"relationship", "task", "log"} /\ row.path[1] = RefersTo(key)
      BY <1>6, <1>8, <2>2, HeadOfPathTo, WhatIsUnderRelationships DEF UnderRelationships, OfOneOwner
    <3>2. CASE row.path[1] = "relationship"
      <4>1. key = "relationship" /\ child.path[1] \in RelatedKeys
        BY <1>1, <1>2, <3>2, KeysToRelationships
      <4>2. child.path[1] = "task"
        BY <1>6, <2>2, <3>1, <3>2, <4>1, KeysToRelationships DEF RelatedKeys, OfOneOwner, Parameters
      <4>3. Len(child.path) > 1
        BY <1>7, <4>2, TasksAreOfExecutions
      <4>4. "relationship" \in OwningKeys("task", "relationship")
        BY KeysToRelationships DEF RelatedKeys
      <4> QED BY <1>6, <2>2, <4>1, <4>2, <4>3, <4>4 DEF Unset
    <3>3. CASE row.path[1] = "task"
      <4>1. Models["task"].owns = {"log", "argument"} /\ OwningKeys("log", "task") = {"task"}
        BY DEF Models, Task, Log, Table, OwningKeys, Keys, RefersTo, KeyTable
      <4>2. child.path[1] = "log" \/ child.path[1] \in Parameters
        BY <1>1, <3>3, <4>1 DEF Parameters
      <4> QED BY <1>2, <1>6, <2>2, <3>3, <4>1, <4>2 DEF Unset
    <3>4. CASE row.path[1] = "log"
      <4>1. Models["log"].owns = {}
        BY DEF Models, Log, Table
      <4> QED BY <1>1, <3>4, <4>1
    <3> QED BY <3>1, <3>2, <3>3, <3>4
  <2> QED BY <2>1, <2>2
<1> QED BY <1>1, <1>4, <1>7, <1>8
(* A relationship ends in a node, and in a capability of a node, of the    *)
(* service it is said to end in.                                           *)
LEMMA EndsAreNodes ==
  ASSUME NEW row \in Relationships, NEW service \in Services, NEW end \in Ends[row][service]
  PROVE  /\ row \in AllRows /\ row.path = <<"relationship", "node", "service">>
         /\ HasRelationship(row.path) /\ row.path \in ServicePaths
         /\ end.of = service /\ end.path \in ServicePaths
         /\ end.path[1] \in {"node", "capability"} /\ ~ HasRelationship(end.path)
<1>1. row \in AllRows /\ row.path[1] = "relationship"
  BY DEF Relationships
<1>2. row.path \in ServicePaths
  <2>1. "relationship" \notin TemplateHeads
    BY DEF TemplateHeads, TemplateTables, TemplateRoots, Parameters
  <2> QED BY <1>1, <2>1, Heads, FamiliesOfRows
<1>3. row.path = <<"relationship", "node", "service">>
  BY <1>1, <1>2, KnownPaths
<1>4. HasRelationship(row.path)
  <2>1. 1 \in DOMAIN <<"relationship", "node", "service">>
    OBVIOUS
  <2> QED BY <1>1, <1>3, <2>1 DEF HasRelationship
<1>5. Ends[row][service] = {KeyRow(row, key, service) : key \in SetKeys(row) \cap EndKeys}
  BY <1>1 DEF Ends
<1>6. PICK key \in SetKeys(row) \cap EndKeys : end = KeyRow(row, key, service)
  BY <1>5
<1>7. KeyPath(row.path, key) # Null
  BY <1>6 DEF SetKeys
<1>8. IsPath(row.path) /\ Len(row.path) = 3 /\ row.path[2] = "node"
      /\ Tail(row.path) = <<"node", "service">>
  <2>1. Len(row.path) = 3 /\ row.path[2] = "node" /\ Tail(row.path) = <<"node", "service">>
    BY <1>3
  <2> QED BY <2>1, <1>2, InstancePathsAreOwned, ExecutionPathsAreOwned DEF ServicePaths
<1>9. /\ KeyPath(row.path, key) \in ServicePaths
      /\ KeyPath(row.path, key)[1] \in {"node", "capability"}
  <2>1. CASE key = "target_node"
    <3>1. /\ Keys("relationship") = {"source_node", "target_node", "type", "target_capability",
                                     "requirement_template", "relationship_template"}
      BY DEF Keys, Models, Relationship, Table
    <3>2. key \in OwningKeys("relationship", "node")
      BY <2>1, <3>1 DEF OwningKeys, RefersTo, KeyTable
    <3>3. KeyPath(row.path, key) = Tail(row.path)
      BY <1>1, <1>8, <3>2 DEF KeyPath
    <3>4. IsOwned(row.path, ServicePaths, Tables)
      BY <1>1, <1>2, <1>8, ServicePathsAreOwned DEF IsPath
    <3> QED BY <1>8, <3>3, <3>4 DEF IsOwned
  <2>2. CASE key = "target_capability"
    <3>1. RefersTo(key) = "capability"
      BY <2>2 DEF RefersTo, KeyTable
    <3>2. key \notin OwningKeys("relationship", "node")
      <4>1. "node" \notin Keys("relationship")
        BY DEF Keys, Models, Relationship, Table
      <4> QED BY <3>1, <4>1 DEF OwningKeys
    <3>3. ~ (row.path[1] \in DOMAIN TemplateTable /\ RefersTo(key) = TemplateTable[row.path[1]])
      BY <1>1, <3>1 DEF TemplateTable
    <3>4. RefersTo(key) \in DOMAIN PathTo /\ KeyPath(row.path, key) = PathTo[RefersTo(key)]
      BY <1>1, <1>7, <1>8, <2>2, <3>2, <3>3 DEF KeyPath, Parameters
    <3>5. KeyPath(row.path, key) \in Paths /\ KeyPath(row.path, key)[1] = "capability"
      BY <3>1, <3>4, HeadOfPathTo
    <3>6. "capability" \notin TemplateHeads
      BY DEF TemplateHeads, TemplateTables, TemplateRoots, Parameters
    <3> QED BY <3>5, <3>6, Heads DEF Paths, ServicePaths
  <2> QED BY <1>6, <2>1, <2>2 DEF EndKeys
<1>10. end.path = KeyPath(row.path, key) /\ end.of = service
  <2>1. KeyPath(row.path, key) \notin TemplatePaths
    BY <1>9, FamiliesAreApart
  <2> QED BY <1>1, <1>6, <2>1 DEF KeyRow, Row
<1>11. ~ HasRelationship(end.path)
  <2>1. ASSUME HasRelationship(end.path) PROVE FALSE
    BY <1>9, <1>10, <2>1, WhatIsUnderRelationships DEF UnderRelationships, Parameters
  <2> QED BY <2>1
<1> QED BY <1>1, <1>2, <1>3, <1>4, <1>9, <1>10, <1>11

(* What the steps of the cascade do not lead out of, the cascade does not. *)
LEMMA CascadeStays ==
  ASSUME NEW start, NEW present, NEW ends, NEW all, start \subseteq all,
         \A taken \in SUBSET all : Further(taken, present, ends) \subseteq all
  PROVE  start \subseteq Cascade(start, present, ends) /\ Cascade(start, present, ends) \subseteq all
<1>1. PICK taken : /\ taken[0] = start
                   /\ \A n \in 0 .. 5 : taken[n + 1] = Further(taken[n], present, ends)
                   /\ Cascade(start, present, ends) = taken[6]
  BY CascadeSteps
<1>2. \A n \in 0 .. 5 : start \subseteq taken[n] /\ taken[n] \subseteq all =>
                          start \subseteq taken[n + 1] /\ taken[n + 1] \subseteq all
  BY <1>1 DEF Further
<1>3. start \subseteq taken[6] /\ taken[6] \subseteq all
  BY <1>1, <1>2
<1> QED BY <1>1, <1>3
(* The rows of a service, and those under relationships that end in it.    *)
Reach(s) ==
  {row \in AllRows :
     /\ row.path \in ServicePaths
     /\ row.of = s \/ (target[row.of] = s /\ HasRelationship(row.path))}

(* The cascade from a service stays in what its deletion can reach.        *)
LEMMA ServiceDeletionsReach ==
  ASSUME TypeOK, NEW s \in Services, NEW present
  PROVE  /\ ServiceRow(s) \in Cascade({ServiceRow(s)}, present, target)
         /\ Cascade({ServiceRow(s)}, present, target) \subseteq Reach(s)
<1>1. {ServiceRow(s)} \subseteq Reach(s)
  <2>1. ServiceRow(s) \in AllRows
    BY RootRows
  <2>2. ServiceRow(s).path \in ServicePaths /\ ServiceRow(s).of = s
    BY FamiliesOfPaths DEF ServiceRow, Row, ServicePaths
  <2> QED BY <2>1, <2>2 DEF Reach
<1>2. ASSUME NEW taken \in SUBSET Reach(s), NEW row \in Further(taken, present, target)
      PROVE  row \in Reach(s)
  <2>1. CASE row \in taken
    BY <2>1
  <2>2. CASE row \in Inbound(taken, present, target)
    <3>1. row \in Relationships /\ Ends[row][target[row.of]] \cap taken # {}
      BY <2>2 DEF Inbound
    <3>2. row \in AllRows /\ row.path[1] = "relationship"
      BY <3>1 DEF Relationships
    <3>3. "relationship" \notin TemplateHeads
      BY DEF TemplateHeads, TemplateTables, TemplateRoots, Parameters
    <3>4. row.of \in Services
      BY <3>2, <3>3, Heads, FamiliesOfRows
    <3>5. target[row.of] \in Services
      BY <3>4 DEF TypeOK
    <3>6. PICK end \in Ends[row][target[row.of]] : end \in taken
      BY <3>1
    <3>7. /\ HasRelationship(row.path) /\ row.path \in ServicePaths
          /\ end.of = target[row.of] /\ ~ HasRelationship(end.path)
      BY <3>1, <3>5, EndsAreNodes
    <3>8. end.of = s
      BY <3>6, <3>7 DEF Reach
    <3> QED BY <3>2, <3>7, <3>8 DEF Reach
  <2>3. CASE row \notin taken /\ row \notin Inbound(taken, present, target)
    <3>1. PICK owner \in taken : row \in Owned[owner]
      BY <2>3 DEF Further
    <3>2. owner \in AllRows /\ owner.path \in ServicePaths
      BY DEF Reach
    <3>3. /\ row \in AllRows /\ row.path \in ServicePaths /\ row.of = owner.of
          /\ HasRelationship(owner.path) => HasRelationship(row.path)
      BY <3>1, <3>2, OwnedInService
    <3> QED BY <3>3 DEF Reach
  <2> QED BY <2>1, <2>2, <2>3
<1>3. \A taken \in SUBSET Reach(s) : Further(taken, present, target) \subseteq Reach(s)
  BY <1>2
<1> HIDE DEF Reach
<1>4. /\ {ServiceRow(s)} \subseteq Cascade({ServiceRow(s)}, present, target)
      /\ Cascade({ServiceRow(s)}, present, target) \subseteq Reach(s)
  BY <1>1, <1>3, CascadeStays
<1> QED BY <1>4

(* What it can reach are the service's rows, those of its executions, and  *)
(* relationships that end in its nodes.                                    *)
LEMMA ReachIsSeparate ==
  ASSUME NEW s \in Services
  PROVE  Reach(s) \subseteq InstanceRows(s) \cup ExecutionRows(s) \cup RelationshipsTo(s)
<1> SUFFICES ASSUME NEW row \in Reach(s), row.of # s
             PROVE  row \in RelationshipsTo(s)
  BY FamiliesOfRows, FamiliesAreApart DEF Reach
<1>1. row \in AllRows /\ row.path \in ServicePaths /\ target[row.of] = s /\ HasRelationship(row.path)
  BY DEF Reach
<1>2. row.of \in Services
  BY <1>1, FamiliesOfRows, FamiliesAreApart
<1> QED BY <1>1, <1>2 DEF RelationshipsTo, HasRelationship

-----------------------------------------------------------------------------
(* How much of the cascade there can be below a row.                       *)
Height ==
  [service |-> 6, node |-> 5, capability |-> 4, relationship |-> 3, group |-> 3,
   interface |-> 2, execution |-> 2, operation |-> 1, policy |-> 1, artifact |-> 1,
   task |-> 1, substitution |-> 1, substitution_mapping |-> 0, log |-> 0,
   input |-> 0, output |-> 0, property |-> 0, attribute |-> 0, configuration |-> 0,
   argument |-> 0]

IsAbove(table) ==
  \A child \in Models[table].owns \cap ServiceHeads : Height[child] < Height[table]

(* Every table of services is lower than the tables that own it, so that   *)
(* no chain of owners has more than seven tables.                          *)
LEMMA OwnersAreAbove ==
  /\ \A table \in ServiceHeads : Height[table] \in 0 .. 6
  /\ \A table \in ServiceHeads : \A child \in Models[table].owns \cap ServiceHeads :
        Height[child] < Height[table]
<1>1. \A table \in ServiceHeads : Height[table] \in 0 .. 6
  BY DEF Height, ServiceHeads, InstanceTables, ExecutionTables, Parameters
<1>2. /\ IsAbove("service") /\ IsAbove("node") /\ IsAbove("group") /\ IsAbove("policy")
      /\ IsAbove("substitution") /\ IsAbove("substitution_mapping") /\ IsAbove("relationship")
      /\ IsAbove("capability") /\ IsAbove("interface") /\ IsAbove("operation")
      /\ IsAbove("artifact")
  BY DEF IsAbove, Height, Models, ServiceHeads, InstanceTables, ExecutionTables, Parameters,
     Table, ServiceOwns, Service, NodeOwns, Node, Group, Policy, Substitution,
     SubstitutionMapping, Relationship, Capability, Interface, Operation, Artifact
<1>3. /\ IsAbove("output") /\ IsAbove("input") /\ IsAbove("configuration")
      /\ IsAbove("property") /\ IsAbove("attribute") /\ IsAbove("argument")
      /\ IsAbove("execution") /\ IsAbove("task") /\ IsAbove("log")
  BY DEF IsAbove, Height, Models, ServiceHeads, InstanceTables, ExecutionTables, Parameters,
     Table, Output, Input, Configuration, Property, Attribute, Argument, Execution, Task, Log
<1>4. \A table \in ServiceHeads : IsAbove(table)
  BY <1>2, <1>3 DEF ServiceHeads, InstanceTables, ExecutionTables, Parameters
<1> QED BY <1>1, <1>4 DEF IsAbove

Above(row) == Height[row.path[1]]

(* What is taken along with the rows of services is below one of them.     *)
LEMMA FurtherIsBelow ==
  ASSUME target \in [Services -> Services], NEW taken \in SUBSET AllRows,
         \A row \in taken : row.path \in ServicePaths,
         NEW present, NEW row \in Further(taken, present, target), row \notin taken
  PROVE  /\ row \in AllRows /\ row.path \in ServicePaths
         /\ \E owner \in taken :
              /\ Above(row) < Above(owner)
              /\ row \in Further({owner}, present, target)
<1>1. CASE row \in Inbound(taken, present, target)
  <2>1. row \in Relationships /\ row \in present /\ Ends[row][target[row.of]] \cap taken # {}
    BY <1>1 DEF Inbound
  <2>2. row \in AllRows /\ row.path[1] = "relationship"
    BY <2>1 DEF Relationships
  <2>3. "relationship" \notin TemplateHeads
    BY DEF TemplateHeads, TemplateTables, TemplateRoots, Parameters
  <2>4. target[row.of] \in Services
    BY <2>2, <2>3, Heads, FamiliesOfRows
  <2>5. PICK end \in Ends[row][target[row.of]] : end \in taken
    BY <2>1
  <2>6. row.path \in ServicePaths /\ end.path[1] \in {"node", "capability"}
    BY <2>1, <2>4, <2>5, EndsAreNodes
  <2>7. Above(row) < Above(end)
    BY <2>2, <2>6 DEF Above, Height
  <2>8. row \in Further({end}, present, target)
    BY <2>1, <2>5 DEF Further, Inbound
  <2> QED BY <2>2, <2>5, <2>6, <2>7, <2>8
<1>2. CASE row \notin Inbound(taken, present, target)
  <2>1. PICK owner \in taken : row \in Owned[owner] /\ row \in present
    BY <1>2 DEF Further
  <2>2. row \in AllRows /\ row.path \in ServicePaths /\ row.path[1] \in Models[owner.path[1]].owns
    BY <2>1, OwnedInService
  <2>3. Above(row) < Above(owner)
    BY <2>2, Heads, OwnersAreAbove DEF Above
  <2>4. row \in Further({owner}, present, target)
    BY <2>1 DEF Further
  <2> QED BY <2>2, <2>3, <2>4
<1> QED BY <1>1, <1>2

(* A step of a cascade that starts with more takes more.                   *)
LEMMA FurtherIsMonotonic ==
  ASSUME NEW some, NEW more, some \subseteq more, NEW present, NEW ends
  PROVE  Further(some, present, ends) \subseteq Further(more, present, ends)
BY DEF Further, Inbound

(* The deletion of a service goes as far as there is something to take.    *)
LEMMA ServiceDeletionsAreComplete ==
  ASSUME TypeOK, NEW s \in Services, NEW present
  PROVE  LET taken == Cascade({ServiceRow(s)}, present, target)
         IN  Further(taken, present, target) \subseteq taken
<1>1. PICK taken : /\ taken[0] = {ServiceRow(s)}
                   /\ \A n \in 0 .. 5 : taken[n + 1] = Further(taken[n], present, target)
                   /\ Cascade({ServiceRow(s)}, present, target) = taken[6]
  BY CascadeSteps
<1> DEFINE Fine(n) == \A row \in taken[n] : row \in AllRows /\ row.path \in ServicePaths
           Before(n) == IF n = 0 THEN {} ELSE taken[n - 1]
           Low(n) == \A row \in taken[n] \ Before(n) : Above(row) <= 6 - n
<1>2. target \in [Services -> Services]
  BY DEF TypeOK
<1>3. Fine(0) /\ Low(0)
  <2>1. ServiceRow(s) \in AllRows
    BY RootRows
  <2>2. ServiceRow(s).path \in ServicePaths /\ ServiceRow(s).path[1] = "service"
    BY FamiliesOfPaths DEF ServiceRow, Row, ServicePaths
  <2> QED BY <1>1, <2>1, <2>2 DEF Above, Height
<1>4. ASSUME NEW n \in 0 .. 6, Fine(n), Low(n), NEW row \in Further(taken[n], present, target),
             row \notin taken[n]
      PROVE  /\ row \in AllRows /\ row.path \in ServicePaths
             /\ Above(row) < 6 - n
  <2>1. PICK owner \in taken[n] : /\ Above(row) < Above(owner)
                                  /\ row \in Further({owner}, present, target)
    BY <1>2, <1>4, FurtherIsBelow
  <2>2. row \in AllRows /\ row.path \in ServicePaths
    BY <1>2, <1>4, FurtherIsBelow
  <2>3. owner \notin Before(n)
    <3> SUFFICES ASSUME n # 0, owner \in taken[n - 1] PROVE FALSE
      OBVIOUS
    <3>1. n - 1 \in 0 .. 5 /\ taken[n] = Further(taken[n - 1], present, target)
      BY <1>1
    <3>2. Further({owner}, present, target) \subseteq Further(taken[n - 1], present, target)
      BY FurtherIsMonotonic
    <3> QED BY <1>4, <2>1, <3>1, <3>2
  <2>4. Above(owner) <= 6 - n
    BY <1>4, <2>3
  <2>5. Above(owner) \in 0 .. 6 /\ Above(row) \in 0 .. 6
    BY <1>4, <2>2, Heads, OwnersAreAbove DEF Above
  <2> QED BY <2>1, <2>2, <2>4, <2>5
<1>5. ASSUME NEW n \in 0 .. 5, Fine(n), Low(n)
      PROVE  Fine(n + 1) /\ Low(n + 1)
  <2>1. taken[n + 1] = Further(taken[n], present, target) /\ Before(n + 1) = taken[n]
    BY <1>1
  <2>2. \A row \in taken[n + 1] : row \notin taken[n] =>
           row \in AllRows /\ row.path \in ServicePaths /\ Above(row) < 6 - n
    BY <1>4, <1>5, <2>1
  <2>3. Fine(n + 1)
    BY <1>5, <2>2
  <2>4. \A row \in taken[n + 1] \ taken[n] : Above(row) <= 6 - (n + 1)
    <3>1. \A row \in taken[n + 1] : Above(row) \in 0 .. 6
      BY <2>3, Heads, OwnersAreAbove DEF Above
    <3> QED BY <2>2, <3>1
  <2> QED BY <2>1, <2>3, <2>4
<1>6. Fine(6) /\ Low(6)
  <2> HIDE DEF Fine, Low
  <2> QED BY <1>3, <1>5
<1>7. ASSUME NEW row \in Further(taken[6], present, target), row \notin taken[6]
      PROVE  FALSE
  <2>1. row \in AllRows /\ row.path \in ServicePaths /\ Above(row) < 6 - 6
    BY <1>4, <1>6, <1>7
  <2>2. Above(row) \in 0 .. 6
    BY <2>1, Heads, OwnersAreAbove DEF Above
  <2> QED BY <2>1, <2>2
<1> QED BY <1>1, <1>7
-----------------------------------------------------------------------------
(* The row that owns a row.                                                *)
LEMMA OwnersOfPaths ==
  ASSUME NEW path \in ServicePaths, Len(path) > 1
  PROVE  /\ IsPath(path) /\ path[1] \in Models[path[2]].owns
         /\ Tail(path) \in ServicePaths /\ Tail(path)[1] = path[2] /\ IsPath(Tail(path))
<1>1. \A root : Len(<<root>>) = 1
  OBVIOUS
<1>2. \A p \in ServicePaths : IsPath(p)
  BY InstancePathsAreOwned, ExecutionPathsAreOwned DEF ServicePaths
<1>3. CASE path = <<"execution", "service">>
  <2>1. path[1] = "execution" /\ path[2] = "service" /\ Tail(path) = <<"service">>
        /\ <<"service">>[1] = "service"
    BY <1>3
  <2>2. "execution" \in Models["service"].owns
    BY DEF Models, Service, Table, ServiceOwns
  <2>3. <<"service">> \in ServicePaths
    BY FamiliesOfPaths DEF ServicePaths
  <2> QED BY <1>2, <2>1, <2>2, <2>3
<1>4. CASE path # <<"execution", "service">>
  <2>1. path # <<"service">> /\ path # <<"substitution">>
    BY <1>1
  <2>2. IsOwned(path, ServicePaths, Tables)
    BY <1>4, <2>1, ServicePathsAreOwned
  <2> QED BY <1>2, <2>2 DEF IsOwned
<1> QED BY <1>3, <1>4

RowOfOwner(row) == Row(Tail(row.path), row.of)

(* The row a row's path names as its owner does own it.                    *)
LEMMA OwnersOwn ==
  ASSUME NEW row \in AllRows, row.path \in ServicePaths, Len(row.path) > 1,
         RowOfOwner(row) \in AllRows
  PROVE  row \in Owned[RowOfOwner(row)]
<1> DEFINE owner == RowOfOwner(row)
           path == row.path
<1>1. /\ owner.path = Tail(path) /\ owner.of = row.of /\ owner = Row(Tail(path), row.of)
      /\ path[1] \in Models[path[2]].owns /\ Tail(path) \in ServicePaths
      /\ Tail(path)[1] = path[2] /\ IsPath(path) /\ IsPath(Tail(path))
  BY OwnersOfPaths DEF RowOfOwner, Row
<1>2. path[2] \in Tables
  BY <1>1 DEF IsPath
<1>3. PICK key \in OwningKeys(path[1], path[2]) : key \notin EndKeys /\ key \in Keys(path[1])
  BY <1>1, <1>2, OwningKeysExist
<1>4. KeyPath(path, key) = Tail(path)
  BY <1>3 DEF KeyPath
<1>5. key \in SetKeys(row)
  BY <1>1, <1>3, <1>4 DEF SetKeys, Null, IsPath
<1>6. KeyRow(row, key, owner.of) = owner
  <2>1. KeyPath(path, key) \notin TemplatePaths
    BY <1>1, <1>4, FamiliesAreApart
  <2> QED BY <1>1, <1>3, <1>4, <2>1 DEF KeyRow
<1> HIDE DEF owner
<1>7. /\ row.path[1] \in Models[owner.path[1]].owns
      /\ key \in (OwningKeys(row.path[1], owner.path[1]) \cap SetKeys(row)) \ EndKeys
  BY <1>1, <1>3, <1>5
<1> USE DEF owner
<1> QED BY <1>6, <1>7 DEF Owned

-----------------------------------------------------------------------------
(* A row that is left has the rows that own it, up to its service.         *)
LEMMA LeastNumber ==
  ASSUME NEW T, T \subseteq Nat, T # {}
  PROVE  \E x \in T : \A y \in T : x <= y
<1> DEFINE R == OpToRel(<, Nat)
<1>1. IsWellFoundedOn(R, Nat)
  BY NatLessThanWellFounded
<1>2. \A x, y \in Nat : x < y => <<x, y>> \in R
  BY DEF OpToRel
<1> HIDE DEF R
<1>3. PICK x \in T : \A y \in T : ~ (<<y, x>> \in R)
  BY <1>1, WFMin
<1>4. ASSUME NEW y \in T
      PROVE  x <= y
  <2>1. ~ (y < x)
    BY <1>2, <1>3
  <2> QED BY <2>1
<1> QED BY <1>3, <1>4

RootOf(path) == path[Len(path)]

(* The owner's path has the same root and is one shorter.                  *)
LEMMA RootOfTail ==
  ASSUME NEW path, IsPath(path), Len(path) > 1
  PROVE  /\ RootOf(Tail(path)) = RootOf(path)
         /\ Len(Tail(path)) = Len(path) - 1 /\ Len(path) \in Nat
BY DEF IsPath, RootOf

OwnersIn(present) ==
  \A row \in present \cap AllRows :
     row.path \in ServicePaths /\ Len(row.path) > 1 => RowOfOwner(row) \in present

(* The invariant's OwnersArePresent, in terms of RowOfOwner.               *)
LEMMA OwnersInRows ==
  ASSUME NEW present
  PROVE  OwnersIn(present) <=>
           \A s \in Services : \A row \in present \cap (InstanceRows(s) \cup ExecutionRows(s)) :
              Len(row.path) > 1 => Row(Tail(row.path), s) \in present
<1>1. \A s \in Services : \A row \in InstanceRows(s) \cup ExecutionRows(s) :
         row \in AllRows /\ row.of = s /\ row.path \in ServicePaths
  <2>1. \A s \in Services : \A row \in InstanceRows(s) \cup ExecutionRows(s) : row \in AllRows
    BY KindsOfRows
  <2> QED BY <2>1 DEF InstanceRows, ExecutionRows, Row, ServicePaths
<1>2. \A row \in AllRows : row.path \in ServicePaths =>
         row.of \in Services /\ row \in InstanceRows(row.of) \cup ExecutionRows(row.of)
  BY FamiliesOfRows, FamiliesAreApart
<1> QED BY <1>1, <1>2 DEF OwnersIn, RowOfOwner

(* Where every row has its owner, a row below a service has its service:   *)
(* of the rows on the way there that are missing none can be the first.    *)
LEMMA RowsHaveTheirService ==
  ASSUME NEW present, OwnersIn(present), NEW row \in present \cap AllRows,
         row.path \in ServicePaths, RootOf(row.path) = "service"
  PROVE  ServiceRow(row.of) \in present
<1> DEFINE s == row.of
           Up == {r \in present \cap AllRows : /\ r.path \in ServicePaths /\ r.of = s
                                               /\ RootOf(r.path) = "service"}
           T == {Len(r.path) : r \in Up}
<1>1. s \in Services
  BY FamiliesOfRows, FamiliesAreApart
<1>2. \A r \in Up : IsPath(r.path) /\ Len(r.path) \in Nat
  BY InstancePathsAreOwned, ExecutionPathsAreOwned DEF ServicePaths, IsPath
<1>3. T \subseteq Nat /\ T # {}
  BY <1>2
<1>4. PICK r \in Up : \A y \in T : Len(r.path) <= y
  BY <1>3, LeastNumber
<1>5. CASE Len(r.path) > 1
  <2>1. RowOfOwner(r) \in present
    BY <1>4, <1>5 DEF OwnersIn
  <2>2. Tail(r.path) \in ServicePaths /\ IsPath(r.path)
    BY <1>4, <1>5, OwnersOfPaths
  <2>3. /\ RootOf(Tail(r.path)) = "service" /\ Len(Tail(r.path)) = Len(r.path) - 1
        /\ Len(r.path) \in Nat
    BY <1>4, <1>5, <2>2, RootOfTail
  <2>4. RowOfOwner(r) \in AllRows
    <3>1. Row(Tail(r.path), s) \in InstanceRows(s) \cup ExecutionRows(s)
      BY <2>2 DEF ServicePaths, InstanceRows, ExecutionRows
    <3>2. r.of = s
      BY <1>4
    <3> QED BY <1>1, <3>1, <3>2, KindsOfRows DEF RowOfOwner
  <2>5. RowOfOwner(r) \in Up
    BY <1>4, <2>1, <2>2, <2>3, <2>4 DEF RowOfOwner, Row
  <2>6. Len(RowOfOwner(r).path) = Len(r.path) - 1
    BY <2>3 DEF RowOfOwner, Row
  <2>7. Len(r.path) <= Len(r.path) - 1
    BY <1>4, <2>5, <2>6
  <2> QED BY <2>3, <2>7
<1>6. CASE ~ (Len(r.path) > 1)
  <2>1. Len(r.path) = 1 /\ r.path[1] = "service"
    <3>1. r.path \in Seq(Tables) /\ r.path # <<>> /\ r.path[Len(r.path)] = "service"
      BY <1>2, <1>4 DEF IsPath, RootOf
    <3>2. Len(r.path) \in Nat \ {0}
      BY <3>1
    <3>3. Len(r.path) = 1
      <4>1. \A n \in Nat \ {0} : ~ (n > 1) => n = 1
        OBVIOUS
      <4> QED BY <1>6, <3>2, <4>1, Zenon
    <3> QED BY <3>1, <3>3
  <2>2. r.path = <<"service">>
    BY <1>4, <2>1, KnownPaths
  <2>3. r = Row(r.path, s) /\ r \in present
    BY <1>4, FamiliesOfRows, FamiliesAreApart
  <2> QED BY <2>2, <2>3 DEF ServiceRow
<1> QED BY <1>5, <1>6
-----------------------------------------------------------------------------
(* What the deletion of a template takes.                                  *)
LEMMA RootsOfPaths ==
  /\ \A path \in TemplatePaths : RootOf(path) = "service_template" =>
        path[1] # "substitution_template"
  /\ \A path \in ServicePaths :
        RootOf(path) # "service" => path[1] \in {"substitution", "substitution_mapping"}
<1>0. \A root : Len(<<root>>) = 1 /\ <<root>>[1] = root
  OBVIOUS
<1>1. ASSUME NEW path \in TemplatePaths, path[1] = "substitution_template"
      PROVE  RootOf(path) # "service_template"
  <2>1. CASE IsOwned(path, TemplatePaths, TemplateTables)
    BY <1>1, <2>1 DEF IsOwned, TemplateTables, Parameters
  <2>2. CASE path = <<"substitution_template">>
    BY <1>0, <2>2 DEF RootOf
  <2> QED BY <1>0, <1>1, <2>1, <2>2, TemplatePathsAreOwned
<1>2. ASSUME NEW path \in ServicePaths, RootOf(path) # "service",
             path[1] \notin {"substitution", "substitution_mapping"}
      PROVE  FALSE
  <2> DEFINE Bad == {q \in ServicePaths : /\ RootOf(q) # "service"
                                          /\ q[1] \notin {"substitution", "substitution_mapping"}}
             T == {Len(q) : q \in Bad}
  <2>1. \A q \in ServicePaths : IsPath(q) /\ Len(q) \in Nat
    BY InstancePathsAreOwned, ExecutionPathsAreOwned DEF ServicePaths, IsPath
  <2>2. T \subseteq Nat /\ T # {}
    BY <1>2, <2>1
  <2>3. PICK q \in Bad : \A y \in T : Len(q) <= y
    BY <2>2, LeastNumber
  <2>4. CASE Len(q) > 1
    <3>1. q[1] \in Models[q[2]].owns /\ Tail(q) \in ServicePaths /\ Tail(q)[1] = q[2]
      BY <2>3, <2>4, OwnersOfPaths
    <3>2. RootOf(Tail(q)) # "service" /\ Len(Tail(q)) < Len(q)
      BY <2>1, <2>3, <2>4, RootOfTail
    <3>3. Tail(q) \notin Bad
      <4> SUFFICES ASSUME Tail(q) \in Bad PROVE FALSE
        OBVIOUS
      <4>1. Len(q) <= Len(Tail(q))
        BY <2>3
      <4>2. Len(q) \in Nat /\ Len(Tail(q)) \in Nat
        BY <2>1, <2>3, <3>1
      <4> QED BY <3>2, <4>1, <4>2
    <3>4. q[2] \in {"substitution", "substitution_mapping"}
      BY <3>1, <3>2, <3>3
    <3>5. /\ Models["substitution"].owns = {"substitution_mapping"}
          /\ Models["substitution_mapping"].owns = {}
      BY DEF Models, Substitution, SubstitutionMapping, Table
    <3> QED BY <2>3, <3>1, <3>4, <3>5
  <2>5. CASE ~ (Len(q) > 1)
    <3>1. q \in Seq(Tables) /\ q # <<>>
      BY <2>1, <2>3 DEF IsPath
    <3>2. Len(q) = 1
      BY <2>5, <3>1
    <3>3. q \notin {<<"service">>, <<"substitution">>}
      BY <1>0, <2>3 DEF RootOf
    <3>4. q # <<"execution", "service">>
      <4>1. Len(<<"execution", "service">>) = 2
        OBVIOUS
      <4> QED BY <3>2, <4>1
    <3>5. IsOwned(q, ServicePaths, Tables)
      BY <2>3, <3>3, <3>4, ServicePathsAreOwned
    <3> QED BY <2>5, <3>5 DEF IsOwned
  <2> QED BY <2>4, <2>5
<1> QED BY <1>1, <1>2

(* A row of a template found by a row of a template is under it.           *)
LEMMA OwnedInTemplate ==
  ASSUME NEW row \in AllRows, row.path \in TemplatePaths,
         NEW child \in Owned[row], child.path \in TemplatePaths
  PROVE  /\ child.of = row.of /\ Len(child.path) > 1 /\ Tail(child.path) = row.path
<1>1. /\ child \in AllRows /\ child.path[1] \in Models[row.path[1]].owns
      /\ \E key \in (OwningKeys(child.path[1], row.path[1]) \cap SetKeys(child)) \ EndKeys :
            KeyRow(child, key, row.of) = row
  BY DEF Owned
<1>2. PICK key \in (OwningKeys(child.path[1], row.path[1]) \cap SetKeys(child)) \ EndKeys :
            KeyRow(child, key, row.of) = row
  BY <1>1
<1>3. KeyPath(child.path, key) = row.path /\ KeyPath(child.path, key) # Null
  BY <1>2 DEF KeyRow, Row, SetKeys
<1>4. child.of = row.of
  BY <1>2 DEF KeyRow, Row
<1>5. IsPath(child.path) /\ child.path[1] \in TemplateHeads /\ row.path[1] \in TemplateHeads
      /\ row.path[1] \in Tables
  BY Heads, TemplatePathsAreOwned, RowsAreInTables
<1>6. child.path[1] \notin DOMAIN TemplateTable
  BY <1>5 DEF TemplateHeads, TemplateTables, TemplateRoots, Parameters, TemplateTable
<1>7. CASE ~ (Len(child.path) > 1 /\ row.path = Tail(child.path))
  <2>1. /\ child.path[1] \notin Parameters
        /\ ~ (Len(child.path) > 1 /\ key \in OwningKeys(child.path[1], child.path[2]))
        /\ ~ (child.path[1] \in OfOneOwner /\ child.path[1] \in Models[RefersTo(key)].owns)
        /\ RefersTo(key) \in DOMAIN PathTo /\ row.path = PathTo[RefersTo(key)]
    BY <1>3, <1>5, <1>6, <1>7, WaysToAnOwner
  <2>2. child.path[1] \notin OfOneOwner
    BY <1>1, <2>1, HeadOfPathTo
  <2>3. child.path[1] \notin TemplateRoots
    BY <1>1, <1>5, FewOwners DEF TemplateRoots, OwnersOf
  <2>4. IsOwned(child.path, TemplatePaths, TemplateTables)
    <3>1. \A root : <<root>>[1] = root
      OBVIOUS
    <3> QED BY <2>3, <3>1, TemplatePathsAreOwned
  <2>5. child.path[2] \in TemplateHeads /\ child.path[2] \in Tables
    <3>1. child.path[2] \in TemplateHeads
      BY <2>4, Heads DEF IsOwned
    <3> QED BY <3>1, TablesOfPaths DEF TemplateHeads, TemplateRoots
  <2>6. child.path[1] \in {"node_template", "group_template", "policy_template",
          "substitution_template_mapping", "requirement_template", "capability_template",
          "artifact_template", "plugin_specification"}
    BY <2>2, <2>4 DEF IsOwned, TemplateTables, OfOneOwner
  <2>7. child.path[2] = row.path[1]
    BY <1>1, <1>5, <2>4, <2>5, <2>6, FewOwners DEF IsOwned, OwnersOf
  <2> QED BY <1>2, <2>1, <2>4, <2>7 DEF IsOwned
<1> QED BY <1>4, <1>7

(* An instance that is found by a row of a template was made from it.      *)
LEMMA OwnedOfTemplate ==
  ASSUME NEW row \in AllRows, row.path \in TemplatePaths,
         NEW child \in Owned[row], child.path \in ServicePaths
  PROVE  /\ child.of \in Services /\ TemplateOf[child.of] = row.of
         /\ child.path[1] \in Models[row.path[1]].owns
<1>1. /\ child \in AllRows /\ child.path[1] \in Models[row.path[1]].owns
      /\ \E key \in (OwningKeys(child.path[1], row.path[1]) \cap SetKeys(child)) \ EndKeys :
            KeyRow(child, key, row.of) = row
  BY DEF Owned
<1>2. PICK key : KeyRow(child, key, row.of) = row
  BY <1>1
<1>3. KeyPath(child.path, key) = row.path
  BY <1>2 DEF KeyRow, Row
<1>4. child.path \notin TemplatePaths
  BY FamiliesAreApart
<1>5. TemplateOf[child.of] = row.of
  BY <1>2, <1>3, <1>4 DEF KeyRow, Row
<1> QED BY <1>1, <1>4, <1>5, FamiliesOfRows

(* The rows of a template that a deletion takes: those under its own row.  *)
RowsUnder(t) == {row \in TemplateRows(t) : RootOf(row.path) = "service_template"}

(* The cascade from a template without services takes rows of the          *)
(* template.                                                               *)
LEMMA TemplateDeletionsReach ==
  ASSUME target \in [Services -> Services], NEW t \in ServiceTemplates, NEW present,
         OwnersIn(present), \A s \in Services : TemplateOf[s] = t => ServiceRow(s) \notin present
  PROVE  Cascade({TemplateRow(t)}, present, target) \subseteq RowsUnder(t)
<1>1. \A row \in RowsUnder(t) : /\ row \in AllRows /\ row.path \in TemplatePaths /\ row.of = t
                             /\ RootOf(row.path) = "service_template"
  BY KindsOfRows DEF RowsUnder, TemplateRows, Row
<1>2. {TemplateRow(t)} \subseteq RowsUnder(t)
  <2>1. Len(<<"service_template">>) = 1 /\ <<"service_template">>[1] = "service_template"
    OBVIOUS
  <2> QED BY <2>1, FamiliesOfPaths DEF RowsUnder, TemplateRows, TemplateRow, Row, RootOf
<1>3. ASSUME NEW taken \in SUBSET RowsUnder(t), NEW row \in Further(taken, present, target)
      PROVE  row \in RowsUnder(t)
  <2>1. CASE row \in Inbound(taken, present, target)
    <3>1. row \in Relationships /\ Ends[row][target[row.of]] \cap taken # {}
      BY <2>1 DEF Inbound
    <3>2. row \in AllRows /\ row.path[1] = "relationship"
      BY <3>1 DEF Relationships
    <3>3. "relationship" \notin TemplateHeads
      BY DEF TemplateHeads, TemplateTables, TemplateRoots, Parameters
    <3>4. target[row.of] \in Services
      BY <3>2, <3>3, Heads, FamiliesOfRows
    <3>5. PICK end \in Ends[row][target[row.of]] : end \in taken
      BY <3>1
    <3>6. end.path \in ServicePaths
      BY <3>1, <3>4, <3>5, EndsAreNodes
    <3> QED BY <1>1, <3>5, <3>6, FamiliesAreApart
  <2>2. CASE row \notin taken /\ row \notin Inbound(taken, present, target)
    <3>1. PICK owner \in taken : row \in Owned[owner] /\ row \in present
      BY <1>3, <2>2 DEF Further
    <3>2. owner \in AllRows /\ owner.path \in TemplatePaths /\ owner.of = t
          /\ RootOf(owner.path) = "service_template"
      BY <1>1
    <3>3. row \in AllRows
      BY <3>1, <3>2 DEF Owned
    <3>4. CASE row.path \in ServicePaths
      <4>1. row.of \in Services /\ TemplateOf[row.of] = t
            /\ row.path[1] \in Models[owner.path[1]].owns
        BY <3>1, <3>2, <3>4, OwnedOfTemplate
      <4>2. RootOf(row.path) # "service"
        BY <3>1, <3>3, <3>4, <4>1, RowsHaveTheirService
      <4>3. row.path[1] \in {"substitution", "substitution_mapping"}
        BY <3>4, <4>2, RootsOfPaths
      <4>4. owner.path[1] \in {"substitution_template", "substitution"}
        BY <3>2, <4>1, <4>3, FewOwners, RowsAreInTables DEF OwnersOf
      <4>5. owner.path[1] \in TemplateHeads /\ owner.path[1] # "substitution_template"
        BY <3>2, Heads, RootsOfPaths
      <4> QED BY <4>4, <4>5 DEF TemplateHeads, TemplateTables, TemplateRoots, Parameters
    <3>5. CASE row.path \in TemplatePaths
      <4>1. row.of = t /\ Len(row.path) > 1 /\ Tail(row.path) = owner.path
        BY <3>1, <3>2, <3>5, OwnedInTemplate
      <4>2. RootOf(row.path) = "service_template"
        BY <3>2, <3>5, <4>1, RootOfTail, TemplatePathsAreOwned
      <4>3. row = Row(row.path, t)
        BY <3>3, <3>5, <4>1, FamiliesOfRows, FamiliesAreApart
      <4> QED BY <3>5, <4>2, <4>3 DEF RowsUnder, TemplateRows
    <3> QED BY <3>3, <3>4, <3>5, FamiliesOfRows
  <2> QED BY <2>1, <2>2
<1>4. \A taken \in SUBSET RowsUnder(t) : Further(taken, present, target) \subseteq RowsUnder(t)
  BY <1>3
<1> HIDE DEF RowsUnder
<1> QED BY <1>2, <1>4, CascadeStays

-----------------------------------------------------------------------------
(* What steps do to those rows.                                            *)
SameTemplates == \A t \in ServiceTemplates : TemplateRow(t) \in rows' <=> TemplateRow(t) \in rows
SameDefinitions == \A d \in Definitions : DefinitionRow(d) \in rows' <=> DefinitionRow(d) \in rows

(* What a service, its executions and their logs come and go with leaves   *)
(* the templates and the type definitions alone.                           *)
LEMMA ServiceStepsKeepRoots ==
  ASSUME TypeOK, NEW p \in Processes
  PROVE  /\ PutService(p) => SameTemplates /\ SameDefinitions
         /\ DeleteServiceRows(p) => SameTemplates /\ SameDefinitions
<1>1. ASSUME PutService(p)
      PROVE  SameTemplates /\ SameDefinitions
  <2>1. rows' = rows \/ rows' = rows \cup InstanceRows(cmd[p].of)
    BY <1>1 DEF PutService
  <2> QED BY <2>1, RootRows DEF SameTemplates, SameDefinitions
<1>2. ASSUME DeleteServiceRows(p)
      PROVE  SameTemplates /\ SameDefinitions
  <2> DEFINE s == cmd[p].of
  <2>1. s \in Services
    BY <1>2 DEF DeleteServiceRows, At, TypeOK, Commands
  <2>2. PICK present : \/ rows' = rows
                       \/ rows' = rows \ Cascade({ServiceRow(s)}, present, target)
    BY <1>2 DEF DeleteServiceRows
  <2>3. GrownFrom(Cascade({ServiceRow(s)}, present, target), {ServiceRow(s)})
    BY <2>1, RootRows, CascadeGrows
  <2>4. \A row \in Cascade({ServiceRow(s)}, present, target) : ~ IsRoot(row)
    BY <2>3, RootRows DEF GrownFrom
  <2> QED BY <2>2, <2>4, RootRows DEF SameTemplates, SameDefinitions
<1> QED BY <1>1, <1>2

(* The tables of the rows an execution adds while it runs.                 *)
RunTables == {"task", "argument", "log"}

(* The logs of an execution are rows of it.                                *)
LEMMA LogsOfExecutions ==
  \A s : \A row \in LogRows(s) : row \in ExecutionRows(s) /\ row.path[1] = "log"
BY DEF LogRows, LogPaths, ExecutionRows, Row

(* What an execution that runs adds: rows of an execution that is there,   *)
(* each with its owner.                                                    *)
LEMMA RunsAdd ==
  ASSUME NEW p \in Processes, PutTasks(p) \/ RunTasks(p)
  PROVE  /\ rows \subseteq rows'
         /\ \A row \in rows' \ rows :
               /\ row \in ExecutionRows(cmd[p].of) /\ row.path[1] \in RunTables
               /\ Row(Tail(row.path), cmd[p].of) \in rows'
               /\ ExecutionRow(cmd[p].of) \in rows
<1> DEFINE s == cmd[p].of
           under(table, owners) ==
             {row \in ExecutionRows(s) : row.path[1] = table /\ Row(Tail(row.path), s) \in owners}
           tasks == IF Executed(s) THEN under("task", rows) ELSE {}
           logs == {log \in LogRows(s) : Row(Tail(log.path), s) \in rows}
<1>1. CASE PutTasks(p)
  <2>1. rows' = rows \cup tasks \cup under("argument", tasks)
    BY <1>1 DEF PutTasks
  <2>2. ASSUME NEW row \in under("argument", tasks)
        PROVE  /\ row \in ExecutionRows(s) /\ row.path[1] = "argument"
               /\ Row(Tail(row.path), s) \in tasks /\ ExecutionRow(s) \in rows
    BY <2>2 DEF Executed
  <2>3. ASSUME NEW row \in tasks
        PROVE  /\ row \in ExecutionRows(s) /\ row.path[1] = "task"
               /\ Row(Tail(row.path), s) \in rows /\ ExecutionRow(s) \in rows
    BY <2>3 DEF Executed
  <2> HIDE DEF under, tasks
  <2> QED BY <2>1, <2>2, <2>3 DEF RunTables
<1>2. CASE RunTasks(p)
  <2>1. rows' = rows \/ (ExecutionRow(s) \in rows /\ rows' = rows \cup logs)
    BY <1>2 DEF RunTasks
  <2>2. ASSUME NEW row \in logs
        PROVE  /\ row \in ExecutionRows(s) /\ row.path[1] = "log"
               /\ Row(Tail(row.path), s) \in rows
    BY <2>2, LogsOfExecutions
  <2> HIDE DEF logs
  <2> QED BY <2>1, <2>2 DEF RunTables
<1> QED BY <1>1, <1>2

(* Deleting the logs of an execution takes logs.                           *)
LEMMA LogsAreDeleted ==
  ASSUME NEW p \in Processes, NEW s, DeleteLogs(p, s)
  PROVE  /\ rows' \subseteq rows
         /\ \A row \in rows \ rows' : row \in ExecutionRows(s) /\ row.path[1] = "log"
BY LogsOfExecutions DEF DeleteLogs

(* Steps of an execution concern no template and no type definition.       *)
LEMMA ExecutionStepsKeepRoots ==
  ASSUME NEW p \in Processes, NEW s,
         PutExecution(p) \/ PutTasks(p) \/ RunTasks(p) \/ DeleteLogs(p, s)
  PROVE  SameTemplates /\ SameDefinitions
<1>1. \A x : /\ ~ IsRoot(ExecutionRow(x))
             /\ ~ IsRoot(Row(<<"input", "execution", "service">>, x))
  BY DEF IsRoot, Roots, ExecutionRow, Row
<1>2. \A row : row.path[1] \in RunTables => ~ IsRoot(row)
  BY DEF IsRoot, Roots, RunTables
<1>3. \A row : IsRoot(row) => (row \in rows' <=> row \in rows)
  <2>1. CASE PutExecution(p)
    BY <1>1, <2>1 DEF PutExecution
  <2>2. CASE PutTasks(p) \/ RunTasks(p)
    BY <1>2, <2>2, RunsAdd
  <2>3. CASE DeleteLogs(p, s)
    BY <1>2, <2>3, LogsAreDeleted DEF RunTables
  <2> QED BY <2>1, <2>2, <2>3
<1> QED BY <1>3, RootRows DEF SameTemplates, SameDefinitions

(* Storing or deleting a template concerns its own row and no other root.  *)
LEMMA TemplateStepsKeepRoots ==
  ASSUME TypeOK, NEW p \in Processes
  PROVE  /\ PutTemplate(p) =>
              /\ SameDefinitions
              /\ \A t \in ServiceTemplates :
                   TemplateRow(t) \in rows' <=> TemplateRow(t) \in rows \/ t = cmd[p].of
         /\ DeleteTemplate(p) =>
              /\ SameDefinitions
              /\ \A t \in ServiceTemplates :
                   TemplateRow(t) \in rows' <=> TemplateRow(t) \in rows /\ t # cmd[p].of
<1> DEFINE x == cmd[p].of
<1>1. ASSUME PutTemplate(p)
      PROVE  /\ SameDefinitions
             /\ \A t \in ServiceTemplates :
                   TemplateRow(t) \in rows' <=> TemplateRow(t) \in rows \/ t = x
  <2>1. \/ TemplateRow(x) \in rows /\ rows' = rows
        \/ rows' = rows \cup TemplateRows(x)
    BY <1>1 DEF PutTemplate
  <2> QED BY <2>1, RootRows DEF SameDefinitions
<1>2. ASSUME DeleteTemplate(p)
      PROVE  /\ SameDefinitions
             /\ \A t \in ServiceTemplates :
                   TemplateRow(t) \in rows' <=> TemplateRow(t) \in rows /\ t # x
  <2>1. x \in ServiceTemplates
    BY <1>2 DEF DeleteTemplate, At, TypeOK, Commands
  <2>2. PICK present : rows' = rows \ Cascade({TemplateRow(x)}, present, target)
    BY <1>2 DEF DeleteTemplate
  <2> DEFINE taken == Cascade({TemplateRow(x)}, present, target)
  <2>3. GrownFrom(taken, {TemplateRow(x)})
    BY <2>1, RootRows, CascadeGrows
  <2> HIDE DEF taken
  <2>4. TemplateRow(x) \in taken /\ \A row \in taken : row = TemplateRow(x) \/ ~ IsRoot(row)
    BY <2>3 DEF GrownFrom
  <2> QED BY <2>2, <2>4, RootRows DEF SameDefinitions, taken
<1> QED BY <1>1, <1>2

-----------------------------------------------------------------------------
(* Types                                                                   *)
LEMMA CommandsHaveOps == \A c \in Commands : c # Idle /\ c.op \in Ops
BY DEF Commands, Idle, Ops

(* A command that begins is one of the commands.                           *)
LEMMA BegunAreCommands ==
  ASSUME NEW op \in Ops, NEW x, NEW pc \in Stages,
         NEW saw \in [executed : BOOLEAN, nodes : SUBSET (Services \cup Nat)],
         op \in {"store", "drop"} => x \in ServiceTemplates,
         op \in {"create", "delete", "start"} => x \in Services,
         op = "create" => saw.nodes \subseteq Services,
         op = "install" => x \in Plugins,
         op \in {"load", "undefine"} => x \in Definitions
  PROVE  Command(op, x, pc, saw) \in Commands
BY DEF Command, Commands, Ops

(* The three ways commands change hands keep the types: a command begins,  *)
LEMMA BeginKeepsTypes ==
  ASSUME TypeOK, NEW p \in Processes, NEW op, NEW x, NEW pc, NEW saw,
         BeginWith(p, op, x, pc, saw), Command(op, x, pc, saw) \in Commands
  PROVE  /\ cmd' \in [Processes -> {Idle} \cup Commands]
         /\ raced' \in BOOLEAN /\ begun' \in Nat /\ crashes' \in Nat
BY DEF TypeOK, BeginWith

(* the record of what a command read, where it read nothing,               *)
LEMMA NothingIsSeen == Nothing \in [executed : BOOLEAN, nodes : SUBSET (Services \cup Nat)]
BY DEF Nothing

(* a command goes on,                                                      *)
LEMMA GotoKeepsTypes ==
  ASSUME TypeOK, NEW p \in Processes, NEW pc \in Stages, cmd[p] # Idle, Goto(p, pc)
  PROVE  /\ cmd' \in [Processes -> {Idle} \cup Commands]
         /\ raced' \in BOOLEAN /\ begun' \in Nat /\ crashes' \in Nat
<1> DEFINE c == cmd[p]
<1>1. c \in Commands
  BY DEF TypeOK
<1>2. Command(c.op, c.of, pc, c.saw) \in Commands
  BY <1>1 DEF Command, Commands
<1>3. cmd' = [cmd EXCEPT ![p] = Command(c.op, c.of, pc, c.saw)]
  BY DEF Goto
<1> QED BY <1>2, <1>3 DEF TypeOK, Goto, bounds

(* and a command ends.                                                     *)
LEMMA EndKeepsTypes ==
  ASSUME TypeOK, NEW p \in Processes, End(p)
  PROVE  /\ cmd' \in [Processes -> {Idle} \cup Commands]
         /\ raced' \in BOOLEAN /\ begun' \in Nat /\ crashes' \in Nat
BY DEF TypeOK, End, bounds

(* What a command in flight is about.                                      *)
LEMMA InFlightTypes ==
  ASSUME TypeOK, NEW p \in Processes, NEW op, NEW pc, At(p, op, pc)
  PROVE  /\ cmd[p] \in Commands /\ cmd[p].op = op /\ cmd[p].pc = pc
         /\ op \in {"store", "drop"} => cmd[p].of \in ServiceTemplates
         /\ op \in {"create", "delete", "start"} => cmd[p].of \in Services
         /\ op = "create" => cmd[p].saw.nodes \subseteq Services
         /\ op = "install" => cmd[p].of \in Plugins
         /\ op \in {"load", "undefine"} => cmd[p].of \in Definitions
<1>1. cmd[p] \in Commands /\ cmd[p].op = op /\ cmd[p].pc = pc
  BY DEF TypeOK, At
<1> QED BY <1>1 DEF Commands

TypesOfData ==
  /\ active \subseteq Services /\ available \subseteq Services
  /\ version \in [Services -> Nat]
  /\ target \in [Services -> Services] /\ host \in [Services -> Services]
  /\ pluginRows \in [Plugins -> Nat]
  /\ uploaded \subseteq ServiceTemplates /\ wagons \subseteq Plugins
  /\ directories \subseteq Definitions

TypesOfCommands ==
  /\ cmd \in [Processes -> {Idle} \cup Commands]
  /\ raced \in BOOLEAN /\ begun \in Nat /\ crashes \in Nat

(* Each kind of command keeps the types: storing and deleting a template,  *)
LEMMA TemplateStepsKeepTypes ==
  ASSUME TypeOK, NEW p \in Processes, TemplateCommand(p)
  PROVE  TypesOfData' /\ TypesOfCommands'
<1>1. ASSUME NEW t \in ServiceTemplates, StoreTemplate(p, t) \/ DropTemplate(p, t)
      PROVE  TypesOfData' /\ TypesOfCommands'
  <2>1. Command("store", t, "put", Nothing) \in Commands
        /\ Command("drop", t, "delete", Nothing) \in Commands
    BY NothingIsSeen, BegunAreCommands DEF Ops, Stages
  <2>2. TypesOfCommands'
    BY <1>1, <2>1, BeginKeepsTypes DEF StoreTemplate, DropTemplate, Begin, TypesOfCommands
  <2>3. TypesOfData'
    BY <1>1 DEF StoreTemplate, DropTemplate, database, disk, TypeOK, TypesOfData
  <2> QED BY <2>2, <2>3
<1>2. ASSUME PutTemplate(p) \/ DeleteTemplate(p) \/ UploadTemplate(p) \/ DeleteFiles(p)
      PROVE  TypesOfData' /\ TypesOfCommands'
  <2>1. TypesOfCommands'
    BY <1>2, GotoKeepsTypes, EndKeepsTypes
    DEF PutTemplate, DeleteTemplate, UploadTemplate, DeleteFiles, At, Stages, TypesOfCommands
  <2>2. TypesOfData'
    BY <1>2, InFlightTypes
    DEF PutTemplate, DeleteTemplate, UploadTemplate, DeleteFiles, disk, database, TypeOK, TypesOfData
  <2> QED BY <2>1, <2>2
<1> QED BY <1>1, <1>2 DEF TemplateCommand

(* creating and deleting a service,                                        *)
LEMMA ServiceStepsKeepTypes ==
  ASSUME TypeOK, NEW p \in Processes, ServiceCommand(p)
  PROVE  TypesOfData' /\ TypesOfCommands'
<1>1. ASSUME NEW s \in Services, CreateService(p, s)
      PROVE  TypesOfData' /\ TypesOfCommands'
  <2>1. PICK found \in {s} \cup ServicesOf(TemplateOf[s]) :
          BeginWith(p, "create", s, "put", [executed |-> FALSE, nodes |-> {found}])
    BY <1>1 DEF CreateService
  <2>2. found \in Services
    BY DEF ServicesOf
  <2> DEFINE saw == [executed |-> FALSE, nodes |-> {found}]
  <2>3. /\ saw \in [executed : BOOLEAN, nodes : SUBSET (Services \cup Nat)]
        /\ saw.nodes \subseteq Services
    BY <2>2
  <2> HIDE DEF saw
  <2>4. Command("create", s, "put", saw) \in Commands
    BY <2>3, BegunAreCommands DEF Ops, Stages
  <2>5. TypesOfCommands'
    BY <2>1, <2>4, BeginKeepsTypes DEF TypesOfCommands, saw
  <2>6. TypesOfData'
    BY <1>1 DEF CreateService, database, disk, TypeOK, TypesOfData
  <2> QED BY <2>5, <2>6
<1>2. ASSUME NEW s \in Services, NEW force \in BOOLEAN, DeleteService(p, s, force)
      PROVE  TypesOfData' /\ TypesOfCommands'
  <2> DEFINE saw == [executed |-> Executed(s), nodes |-> IF force THEN {} ELSE {NodeVersion(s)}]
  <2>1. NodeVersion(s) \in Nat /\ Executed(s) \in BOOLEAN
    BY DEF NodeVersion, Executed, TypeOK
  <2>2. saw \in [executed : BOOLEAN, nodes : SUBSET (Services \cup Nat)]
    BY <2>1
  <2> HIDE DEF saw
  <2>3. Command("delete", s, "rows", saw) \in Commands
    BY <2>2, BegunAreCommands DEF Ops, Stages
  <2>4. TypesOfCommands'
    BY <1>2, <2>3, BeginKeepsTypes DEF DeleteService, TypesOfCommands, saw
  <2>5. TypesOfData'
    BY <1>2 DEF DeleteService, database, disk, TypeOK, TypesOfData
  <2> QED BY <2>4, <2>5
<1>3. ASSUME PutService(p) \/ DeleteServiceRows(p)
      PROVE  TypesOfData' /\ TypesOfCommands'
  <2>1. TypesOfCommands'
    BY <1>3, EndKeepsTypes DEF PutService, DeleteServiceRows, TypesOfCommands
  <2>2. CASE DeleteServiceRows(p)
    BY <2>1, <2>2 DEF DeleteServiceRows, disk, TypeOK, TypesOfData
  <2>3. CASE PutService(p)
    <3>1. cmd[p].of \in Services /\ cmd[p].saw.nodes \subseteq Services
      BY <2>3, InFlightTypes DEF PutService
    <3>2. available' \subseteq Services /\ version' \in [Services -> Nat]
          /\ target' \in [Services -> Services]
      BY <2>3, <3>1 DEF PutService, TypeOK
    <3>3. host' \in [Services -> Services]
      <4> DEFINE hosts(found) ==
                   {cmd[p].of, found} \cup
                     (IF found = cmd[p].of THEN {} ELSE ServicesOf(TemplateOf[cmd[p].of]))
      <4>1. \A found \in cmd[p].saw.nodes : hosts(found) \subseteq Services
        BY <3>1 DEF ServicesOf
      <4>2. \/ host' = host
            \/ \E found \in cmd[p].saw.nodes : \E hosting \in hosts(found) :
                  host' = [host EXCEPT ![cmd[p].of] = hosting]
        BY <2>3 DEF PutService
      <4> HIDE DEF hosts
      <4>3. host \in [Services -> Services]
        BY DEF TypeOK
      <4> QED BY <3>1, <4>1, <4>2, <4>3
    <3> QED BY <2>1, <2>3, <3>2, <3>3 DEF PutService, disk, TypeOK, TypesOfData
  <2> QED BY <1>3, <2>2, <2>3
<1> QED BY <1>1, <1>2, <1>3 DEF ServiceCommand

(* starting an execution and running its tasks,                            *)
LEMMA ExecutionStepsKeepTypes ==
  ASSUME TypeOK, NEW p \in Processes, ExecutionCommand(p)
  PROVE  TypesOfData' /\ TypesOfCommands'
<1>1. ASSUME NEW s \in Services, StartExecution(p, s)
      PROVE  TypesOfData' /\ TypesOfCommands'
  <2>1. Command("start", s, "execution", Nothing) \in Commands
    BY NothingIsSeen, BegunAreCommands DEF Ops, Stages
  <2>2. TypesOfCommands'
    BY <1>1, <2>1, BeginKeepsTypes DEF StartExecution, Begin, TypesOfCommands
  <2>3. TypesOfData'
    BY <1>1 DEF StartExecution, database, disk, TypeOK, TypesOfData
  <2> QED BY <2>2, <2>3
<1>2. ASSUME NEW s \in Services, DeleteLogs(p, s)
      PROVE  TypesOfData' /\ TypesOfCommands'
  BY <1>2 DEF DeleteLogs, disk, TypeOK, TypesOfData, TypesOfCommands
<1>3. ASSUME PutExecution(p) \/ PutTasks(p) \/ RunTasks(p) \/ EndExecution(p)
      PROVE  TypesOfData' /\ TypesOfCommands'
  <2>1. TypesOfCommands'
    BY <1>3, GotoKeepsTypes, EndKeepsTypes
    DEF PutExecution, PutTasks, RunTasks, EndExecution, At, Stages, TypesOfCommands
  <2>2. cmd[p].of \in Services
    BY <1>3, InFlightTypes DEF PutExecution, PutTasks, RunTasks, EndExecution
  <2>3. TypesOfData'
    BY <1>3, <2>2
    DEF PutExecution, PutTasks, RunTasks, EndExecution, disk, TypeOK, TypesOfData
  <2> QED BY <2>1, <2>3
<1> QED BY <1>1, <1>2, <1>3 DEF ExecutionCommand

(* installing a plugin,                                                    *)
LEMMA PluginStepsKeepTypes ==
  ASSUME TypeOK, NEW p \in Processes, PluginCommand(p)
  PROVE  TypesOfData' /\ TypesOfCommands'
<1>1. ASSUME NEW w \in Plugins, InstallPlugin(p, w)
      PROVE  TypesOfData' /\ TypesOfCommands'
  <2>1. Command("install", w, "wagon", Nothing) \in Commands
    BY NothingIsSeen, BegunAreCommands DEF Ops, Stages
  <2>2. TypesOfCommands'
    BY <1>1, <2>1, BeginKeepsTypes DEF InstallPlugin, Begin, TypesOfCommands
  <2>3. TypesOfData'
    BY <1>1 DEF InstallPlugin, database, disk, TypeOK, TypesOfData
  <2> QED BY <2>2, <2>3
<1>2. ASSUME InstallWagon(p) \/ PutPlugin(p)
      PROVE  TypesOfData' /\ TypesOfCommands'
  <2>1. TypesOfCommands'
    BY <1>2, GotoKeepsTypes, EndKeepsTypes DEF InstallWagon, PutPlugin, At, Stages, TypesOfCommands
  <2>2. cmd[p].of \in Plugins
    BY <1>2, InFlightTypes DEF InstallWagon, PutPlugin
  <2>3. TypesOfData'
    BY <1>2, <2>2 DEF InstallWagon, PutPlugin, disk, database, TypeOK, TypesOfData
  <2> QED BY <2>1, <2>3
<1> QED BY <1>1, <1>2 DEF PluginCommand

(* loading and deleting a type definition.                                 *)
LEMMA DefinitionStepsKeepTypes ==
  ASSUME TypeOK, NEW p \in Processes, DefinitionCommand(p)
  PROVE  TypesOfData' /\ TypesOfCommands'
<1>1. ASSUME NEW d \in Definitions, LoadDefinition(p, d) \/ DeleteDefinition(p, d)
      PROVE  TypesOfData' /\ TypesOfCommands'
  <2>1. Command("load", d, "directory", Nothing) \in Commands
        /\ Command("undefine", d, "directory", Nothing) \in Commands
    BY NothingIsSeen, BegunAreCommands DEF Ops, Stages
  <2>2. TypesOfCommands'
    BY <1>1, <2>1, BeginKeepsTypes DEF LoadDefinition, DeleteDefinition, Begin, TypesOfCommands
  <2>3. TypesOfData'
    BY <1>1 DEF LoadDefinition, DeleteDefinition, database, disk, TypeOK, TypesOfData
  <2> QED BY <2>2, <2>3
<1>2. ASSUME MakeDirectory(p) \/ PutDefinition(p) \/ RemoveDirectory(p) \/ DeleteDefinitionRow(p)
      PROVE  TypesOfData' /\ TypesOfCommands'
  <2>1. TypesOfCommands'
    BY <1>2, GotoKeepsTypes, EndKeepsTypes
    DEF MakeDirectory, PutDefinition, RemoveDirectory, DeleteDefinitionRow, At, Stages,
        TypesOfCommands
  <2>2. cmd[p].of \in Definitions
    BY <1>2, InFlightTypes DEF MakeDirectory, PutDefinition, RemoveDirectory, DeleteDefinitionRow
  <2>3. TypesOfData'
    BY <1>2, <2>2
    DEF MakeDirectory, PutDefinition, RemoveDirectory, DeleteDefinitionRow, disk, database,
        TypeOK, TypesOfData
  <2> QED BY <2>1, <2>3
<1> QED BY <1>1, <1>2 DEF DefinitionCommand

-----------------------------------------------------------------------------
(* The rows that commands put are rows of the model.                       *)
LEMMA ExecutionRowsExist ==
  ASSUME NEW s \in Services
  PROVE  /\ ExecutionRow(s) \in ExecutionRows(s)
         /\ Row(<<"input", "execution", "service">>, s) \in ExecutionRows(s)
<1> DEFINE start == <<"execution", "service">>
           input == <<"input">> \o start
           all == PathsFrom(start, ExecutionTables)
<1>1. input = <<"input", "execution", "service">>
  <2>1. {"input", "execution", "service"} \subseteq Tables
    BY DEF Tables, Models
  <2> QED BY <2>1, PrefixesWrittenOut
<1>2. start \in all
  BY StartIsAPath
<1>3. input \in all
  <2> DEFINE longer(paths) == Longer(paths, ExecutionTables)
  <2>1. \A paths : paths \subseteq longer(paths)
    BY DEF Longer
  <2>2. start[1] = "execution" /\ "input" \in Models["execution"].owns \cap ExecutionTables
    BY DEF Models, Table, Execution, ExecutionTables, Parameters
  <2>3. input \in longer({start})
    BY <2>2 DEF Longer
  <2>4. all = longer(longer(longer(longer(longer({start})))))
    BY DEF PathsFrom
  <2> HIDE DEF longer, start, input, all
  <2> QED BY <2>1, <2>3, <2>4
<1>4. {start, input} \subseteq ExecutionPaths
  <2> HIDE DEF input
  <2> QED BY <1>2, <1>3 DEF ExecutionPaths
<1> QED BY <1>1, <1>4 DEF ExecutionRows, ExecutionRow

KnownRows == rows \subseteq AllRows \cup {DefinitionRow(d) : d \in Definitions}

(* The rows of the database are rows of the schema or of type definitions. *)
LEMMA StepsKeepRows ==
  ASSUME TypeOK, [Next]_vars
  PROVE  KnownRows'
<1>1. KnownRows
  BY DEF TypeOK, KnownRows
<1>2. ASSUME NEW p \in Processes, TemplateCommand(p)
      PROVE  KnownRows'
  <2>1. ASSUME PutTemplate(p)
        PROVE  KnownRows'
    <3>1. cmd[p].of \in ServiceTemplates
      BY <2>1, InFlightTypes DEF PutTemplate
    <3>2. TemplateRows(cmd[p].of) \subseteq AllRows
      BY <3>1, KindsOfRows
    <3> QED BY <1>1, <2>1, <3>2 DEF PutTemplate, KnownRows
  <2> QED BY <1>1, <1>2, <2>1 DEF TemplateCommand, StoreTemplate, DropTemplate, UploadTemplate,
             DeleteTemplate, DeleteFiles, database, KnownRows
<1>3. ASSUME NEW p \in Processes, ServiceCommand(p)
      PROVE  KnownRows'
  <2>1. ASSUME PutService(p)
        PROVE  KnownRows'
    <3>1. cmd[p].of \in Services
      BY <2>1, InFlightTypes DEF PutService
    <3>2. InstanceRows(cmd[p].of) \subseteq AllRows
      BY <3>1, KindsOfRows
    <3> QED BY <1>1, <2>1, <3>2 DEF PutService, KnownRows
  <2>2. ASSUME DeleteServiceRows(p)
        PROVE  KnownRows'
    BY <1>1, <2>2 DEF DeleteServiceRows, KnownRows
  <2> QED BY <1>1, <1>3, <2>1, <2>2 DEF ServiceCommand, CreateService, DeleteService, database,
             KnownRows
<1>4. ASSUME NEW p \in Processes, ExecutionCommand(p)
      PROVE  KnownRows'
  <2>1. \A s \in Services :
           /\ {ExecutionRow(s), Row(<<"input", "execution", "service">>, s)} \subseteq AllRows
           /\ ExecutionRows(s) \subseteq AllRows
    BY ExecutionRowsExist, KindsOfRows
  <2>2. ASSUME PutExecution(p) \/ PutTasks(p) \/ RunTasks(p)
        PROVE  KnownRows'
    <3>1. cmd[p].of \in Services
      BY <2>2, InFlightTypes DEF PutExecution, PutTasks, RunTasks
    <3>2. CASE PutExecution(p)
      BY <1>1, <2>1, <3>1, <3>2 DEF PutExecution, KnownRows
    <3>3. CASE PutTasks(p) \/ RunTasks(p)
      BY <1>1, <2>1, <3>1, <3>3, RunsAdd DEF KnownRows
    <3> QED BY <2>2, <3>2, <3>3
  <2> QED BY <1>1, <1>4, <2>2 DEF ExecutionCommand, StartExecution, DeleteLogs, EndExecution,
             database, KnownRows
<1>5. ASSUME NEW p \in Processes, PluginCommand(p)
      PROVE  KnownRows'
  BY <1>1, <1>5 DEF PluginCommand, InstallPlugin, InstallWagon, PutPlugin, database, KnownRows
<1>6. ASSUME NEW p \in Processes, DefinitionCommand(p)
      PROVE  KnownRows'
  <2>1. ASSUME PutDefinition(p)
        PROVE  KnownRows'
    <3>1. cmd[p].of \in Definitions
      BY <2>1, InFlightTypes DEF PutDefinition
    <3> QED BY <1>1, <2>1, <3>1 DEF PutDefinition, KnownRows
  <2> QED BY <1>1, <1>6, <2>1 DEF DefinitionCommand, LoadDefinition, DeleteDefinition,
             MakeDirectory, RemoveDirectory, DeleteDefinitionRow, database, KnownRows
<1>7. ASSUME NEW p \in Processes, Crash(p)
      PROVE  KnownRows'
  BY <1>1, <1>7 DEF Crash, database, KnownRows
<1>8. CASE UNCHANGED vars
  BY <1>1, <1>8 DEF vars, database, KnownRows
<1> QED BY <1>2, <1>3, <1>4, <1>5, <1>6, <1>7, <1>8 DEF Next

(* Every step keeps the types.                                             *)
LEMMA StepsKeepTypes == TypeOK /\ [Next]_vars => TypeOK'
<1> SUFFICES ASSUME TypeOK, [Next]_vars PROVE TypeOK'
  OBVIOUS
<1>1. ASSUME NEW p \in Processes, Crash(p) PROVE TypesOfData' /\ TypesOfCommands'
  BY <1>1 DEF Crash, database, disk, TypeOK, TypesOfData, TypesOfCommands
<1>2. ASSUME UNCHANGED vars PROVE TypesOfData' /\ TypesOfCommands'
  BY <1>2 DEF vars, database, disk, bounds, TypeOK, TypesOfData, TypesOfCommands
<1>3. TypesOfData' /\ TypesOfCommands'
  BY <1>1, <1>2, TemplateStepsKeepTypes, ServiceStepsKeepTypes, ExecutionStepsKeepTypes,
     PluginStepsKeepTypes, DefinitionStepsKeepTypes DEF Next
<1>4. KnownRows'
  BY StepsKeepRows
<1> QED BY <1>3, <1>4 DEF TypeOK, TypesOfData, TypesOfCommands, KnownRows

-----------------------------------------------------------------------------
(* Commands that exclude each other                                        *)
LEMMA BeginKeepsExclusive ==
  ASSUME TypeOK, Exclusive, NEW p \in Processes, NEW op, NEW x, NEW pc, NEW saw,
         BeginWith(p, op, x, pc, saw)
  PROVE  Exclusive'
<1> SUFFICES ASSUME ~ raced', NEW q \in Processes, NEW r \in Processes, q # r,
                    cmd'[q] # Idle, cmd'[r] # Idle
             PROVE  {cmd'[q].op, cmd'[r].op} \notin Racing
  BY DEF Exclusive
<1>1. ~ raced /\ Racers(op) = {} /\ cmd' = [cmd EXCEPT ![p] = Command(op, x, pc, saw)]
  BY DEF BeginWith
<1>2. ASSUME NEW o \in Processes, cmd[o] # Idle
      PROVE  {op, cmd[o].op} \notin Racing
  BY <1>1, <1>2 DEF Racers
<1>3. cmd'[p].op = op /\ \A o \in Processes \ {p} : cmd'[o] = cmd[o]
  BY <1>1 DEF TypeOK, Command
<1>4. CASE q = p
  BY <1>2, <1>3, <1>4
<1>5. CASE r = p
  <2>1. {op, cmd[q].op} \notin Racing
    BY <1>2, <1>3, <1>5
  <2>2. {cmd'[q].op, cmd'[r].op} = {op, cmd[q].op}
    BY <1>3, <1>5
  <2> QED BY <2>1, <2>2
<1>6. CASE q # p /\ r # p
  BY <1>1, <1>3, <1>6 DEF Exclusive
<1> QED BY <1>4, <1>5, <1>6

(* Whether a command goes on or ends, what it excludes it excluded before. *)
LEMMA OthersKeepExclusive ==
  ASSUME TypeOK, Exclusive, NEW p \in Processes, NEW c,
         cmd' = [cmd EXCEPT ![p] = c], raced' = raced,
         c = Idle \/ (cmd[p] # Idle /\ c.op = cmd[p].op)
  PROVE  Exclusive'
<1>1. \A q \in Processes :
        cmd'[q] # Idle => cmd[q] # Idle /\ cmd'[q].op = cmd[q].op
  BY DEF TypeOK
<1> QED BY <1>1 DEF Exclusive

(* Going on disturbs no exclusion,                                         *)
LEMMA GotoKeepsExclusive ==
  ASSUME TypeOK, Exclusive, NEW p \in Processes, NEW pc, cmd[p] # Idle, Goto(p, pc)
  PROVE  Exclusive'
<1> DEFINE c == Command(cmd[p].op, cmd[p].of, pc, cmd[p].saw)
<1>1. cmd' = [cmd EXCEPT ![p] = c] /\ raced' = raced
  BY DEF Goto, bounds
<1>2. c.op = cmd[p].op
  BY DEF Command
<1> HIDE DEF c
<1> QED BY <1>1, <1>2, OthersKeepExclusive

(* nor does ending,                                                        *)
LEMMA EndKeepsExclusive ==
  ASSUME TypeOK, Exclusive, NEW p \in Processes, End(p)
  PROVE  Exclusive'
<1>1. cmd' = [cmd EXCEPT ![p] = Idle] /\ raced' = raced
  BY DEF End, bounds
<1> QED BY <1>1, OthersKeepExclusive

(* and beginning looks for the commands it excludes: commands that exclude *)
(* each other are not in flight together, unless raced.                    *)
LEMMA StepsKeepExclusive ==
  ASSUME TypeOK, Exclusive, [Next]_vars
  PROVE  Exclusive'
<1>1. ASSUME NEW p \in Processes, TemplateCommand(p)
      PROVE  Exclusive'
  <2>1. ASSUME NEW t \in ServiceTemplates, StoreTemplate(p, t) \/ DropTemplate(p, t)
        PROVE  Exclusive'
    BY <2>1, BeginKeepsExclusive DEF StoreTemplate, DropTemplate, Begin
  <2> QED BY <1>1, <2>1, GotoKeepsExclusive, EndKeepsExclusive
          DEF TemplateCommand, PutTemplate, UploadTemplate, DeleteTemplate, DeleteFiles, At
<1>2. ASSUME NEW p \in Processes, ServiceCommand(p)
      PROVE  Exclusive'
  <2>1. ASSUME NEW s \in Services, CreateService(p, s)
        PROVE  Exclusive'
    BY <2>1, BeginKeepsExclusive DEF CreateService
  <2>2. ASSUME NEW s \in Services, NEW force \in BOOLEAN, DeleteService(p, s, force)
        PROVE  Exclusive'
    BY <2>2, BeginKeepsExclusive DEF DeleteService
  <2> QED BY <1>2, <2>1, <2>2, EndKeepsExclusive DEF ServiceCommand, PutService, DeleteServiceRows
<1>3. ASSUME NEW p \in Processes, ExecutionCommand(p)
      PROVE  Exclusive'
  <2>1. ASSUME NEW s \in Services, StartExecution(p, s)
        PROVE  Exclusive'
    BY <2>1, BeginKeepsExclusive DEF StartExecution, Begin
  <2>2. ASSUME NEW s \in Services, DeleteLogs(p, s)
        PROVE  Exclusive'
    BY <2>2 DEF DeleteLogs, Exclusive
  <2> QED BY <1>3, <2>1, <2>2, GotoKeepsExclusive, EndKeepsExclusive
          DEF ExecutionCommand, PutExecution, PutTasks, RunTasks, EndExecution, At
<1>4. ASSUME NEW p \in Processes, PluginCommand(p)
      PROVE  Exclusive'
  <2>1. ASSUME NEW w \in Plugins, InstallPlugin(p, w)
        PROVE  Exclusive'
    BY <2>1, BeginKeepsExclusive DEF InstallPlugin, Begin
  <2> QED BY <1>4, <2>1, GotoKeepsExclusive, EndKeepsExclusive
          DEF PluginCommand, InstallWagon, PutPlugin, At
<1>5. ASSUME NEW p \in Processes, DefinitionCommand(p)
      PROVE  Exclusive'
  <2>1. ASSUME NEW d \in Definitions, LoadDefinition(p, d) \/ DeleteDefinition(p, d)
        PROVE  Exclusive'
    BY <2>1, BeginKeepsExclusive DEF LoadDefinition, DeleteDefinition, Begin
  <2> QED BY <1>5, <2>1, GotoKeepsExclusive, EndKeepsExclusive
          DEF DefinitionCommand, MakeDirectory, PutDefinition, RemoveDirectory,
              DeleteDefinitionRow, At
<1>6. ASSUME NEW p \in Processes, Crash(p)
      PROVE  Exclusive'
  BY <1>6, OthersKeepExclusive DEF Crash
<1>7. CASE UNCHANGED vars
  BY <1>7 DEF vars, bounds, Exclusive
<1> QED BY <1>1, <1>2, <1>3, <1>4, <1>5, <1>6, <1>7 DEF Next

(* The pairs of commands that the rest of the invariant needs apart.       *)
LEMMA Excluded ==
  ASSUME Exclusive, ~ raced, NEW p \in Processes, NEW q \in Processes, NEW a, NEW b
  PROVE  /\ ~ (At(p, "store", a) /\ At(q, "drop", b))
         /\ ~ (At(p, "load", a) /\ At(q, "undefine", b))
         /\ ~ (At(p, "create", a) /\ At(q, "drop", b))
         /\ ~ (At(p, "create", a) /\ At(q, "delete", b))
         /\ ~ (At(p, "start", a) /\ At(q, "delete", b))
         /\ p # q => ~ (At(p, "install", a) /\ At(q, "install", b))
<1>1. /\ {"store", "drop"} \in Racing /\ {"load", "undefine"} \in Racing
      /\ {"create", "drop"} \in Racing /\ {"create", "delete"} \in Racing
      /\ {"start", "delete"} \in Racing
      /\ {"install", "install"} \in Racing
  BY DEF Racing
<1>2. p # q /\ cmd[p] # Idle /\ cmd[q] # Idle => {cmd[p].op, cmd[q].op} \notin Racing
  BY DEF Exclusive
<1> QED BY <1>1, <1>2 DEF At

-----------------------------------------------------------------------------
(* What a step does to the commands that are half way                      *)
SameFlights(op, pc) == \A x : InFlight(op, pc, x)' <=> InFlight(op, pc, x)

Becomes(p, c) == cmd' = [cmd EXCEPT ![p] = c]

Is(c, op, pc) == c # Idle /\ c.op = op /\ c.pc = pc

(* Which commands are in flight after one process's command has become     *)
(* another.                                                                *)
LEMMA FlightsAfter ==
  ASSUME TypeOK, NEW p \in Processes, NEW c, Becomes(p, c), NEW op, NEW pc, NEW x
  PROVE  InFlight(op, pc, x)' <=>
           \/ Is(c, op, pc) /\ c.of = x
           \/ \E q \in Processes \ {p} : At(q, op, pc) /\ cmd[q].of = x
<1>1. cmd'[p] = c /\ \A q \in Processes \ {p} : cmd'[q] = cmd[q]
  BY DEF Becomes, TypeOK
<1> QED BY <1>1 DEF InFlight, At, Is

(* A change from and to other stages leaves the flights of a stage as they *)
(* were.                                                                   *)
LEMMA QuietFlights ==
  ASSUME TypeOK, NEW p \in Processes, NEW c, Becomes(p, c), NEW op, NEW pc,
         ~ Is(cmd[p], op, pc), ~ Is(c, op, pc)
  PROVE  SameFlights(op, pc)
<1>1. \A x : InFlight(op, pc, x) <=> \E q \in Processes \ {p} : At(q, op, pc) /\ cmd[q].of = x
  BY DEF InFlight, At, Is
<1> QED BY <1>1, FlightsAfter DEF SameFlights

(* A change to a stage adds the new flight to those there were.            *)
LEMMA FlightStarts ==
  ASSUME TypeOK, NEW p \in Processes, NEW c, Becomes(p, c), NEW op, NEW pc, NEW x,
         ~ Is(cmd[p], op, pc)
  PROVE  InFlight(op, pc, x)' <=> (Is(c, op, pc) /\ c.of = x) \/ InFlight(op, pc, x)
<1>1. InFlight(op, pc, x) <=> \E q \in Processes \ {p} : At(q, op, pc) /\ cmd[q].of = x
  BY DEF InFlight, At, Is
<1> QED BY <1>1, FlightsAfter

(* A step of a process is one of a command of some kinds.                  *)
Acts(p, ops) ==
  \E c : /\ Becomes(p, c)
         /\ c = Idle \/ c.op \in ops
         /\ cmd[p] = Idle \/ cmd[p].op \in ops

(* A process that acts for some operations leaves the flights of the       *)
(* others.                                                                 *)
LEMMA ActsLeaveOthers ==
  ASSUME TypeOK, NEW p \in Processes, NEW ops, Acts(p, ops), NEW op, op \notin ops, NEW pc
  PROVE  SameFlights(op, pc)
<1>1. PICK c : /\ Becomes(p, c)
               /\ c = Idle \/ c.op \in ops
               /\ cmd[p] = Idle \/ cmd[p].op \in ops
  BY DEF Acts
<1>2. ~ Is(cmd[p], op, pc) /\ ~ Is(c, op, pc)
  BY <1>1 DEF Is
<1> QED BY <1>1, <1>2, QuietFlights

(* Beginning a command is acting for its operation,                        *)
LEMMA ActsOfBegin ==
  ASSUME NEW p \in Processes, NEW op, NEW x, NEW pc, NEW saw, BeginWith(p, op, x, pc, saw),
         NEW ops, op \in ops
  PROVE  Acts(p, ops)
<1>1. Becomes(p, Command(op, x, pc, saw)) /\ Command(op, x, pc, saw).op = op /\ cmd[p] = Idle
  BY DEF BeginWith, Becomes, Command
<1> QED BY <1>1 DEF Acts

(* and so is going on with it or ending it.                                *)
LEMMA ActsOfGoto ==
  ASSUME NEW p \in Processes, NEW op, NEW pc, NEW next, At(p, op, pc),
         Goto(p, next) \/ End(p), NEW ops, op \in ops
  PROVE  Acts(p, ops)
<1> DEFINE c == Command(cmd[p].op, cmd[p].of, next, cmd[p].saw)
<1>1. c.op = op
  BY DEF Command, At
<1>2. Becomes(p, c) \/ Becomes(p, Idle)
  BY DEF Goto, End, Becomes
<1> HIDE DEF c
<1> QED BY <1>1, <1>2 DEF Acts, At

(* The operations for which each kind of command acts.                     *)
LEMMA ActsOfCommands ==
  ASSUME TypeOK, NEW p \in Processes
  PROVE  /\ TemplateCommand(p) => Acts(p, {"store", "drop"})
         /\ ServiceCommand(p) => Acts(p, {"create", "delete"})
         /\ ExecutionCommand(p) => Acts(p, {"start"})
         /\ PluginCommand(p) => Acts(p, {"install"})
         /\ DefinitionCommand(p) => Acts(p, {"load", "undefine"})
<1>1. ASSUME TemplateCommand(p)
      PROVE  Acts(p, {"store", "drop"})
  <2>1. ASSUME NEW t \in ServiceTemplates, StoreTemplate(p, t) \/ DropTemplate(p, t)
        PROVE  Acts(p, {"store", "drop"})
    BY <2>1, ActsOfBegin DEF StoreTemplate, DropTemplate, Begin
  <2> QED BY <1>1, <2>1, ActsOfGoto
          DEF TemplateCommand, PutTemplate, UploadTemplate, DeleteTemplate, DeleteFiles
<1>2. ASSUME ServiceCommand(p)
      PROVE  Acts(p, {"create", "delete"})
  <2>1. ASSUME NEW s \in Services, CreateService(p, s)
        PROVE  Acts(p, {"create", "delete"})
    BY <2>1, ActsOfBegin DEF CreateService
  <2>2. ASSUME NEW s \in Services, NEW force \in BOOLEAN, DeleteService(p, s, force)
        PROVE  Acts(p, {"create", "delete"})
    BY <2>2, ActsOfBegin DEF DeleteService
  <2>3. ASSUME PutService(p)
        PROVE  Acts(p, {"create", "delete"})
    <3>1. At(p, "create", "put") /\ End(p)
      BY <2>3 DEF PutService
    <3> QED BY <3>1, ActsOfGoto
  <2>4. ASSUME DeleteServiceRows(p)
        PROVE  Acts(p, {"create", "delete"})
    BY <2>4, ActsOfGoto DEF DeleteServiceRows
  <2> QED BY <1>2, <2>1, <2>2, <2>3, <2>4 DEF ServiceCommand
<1>3. ASSUME ExecutionCommand(p)
      PROVE  Acts(p, {"start"})
  <2>1. ASSUME NEW s \in Services, StartExecution(p, s)
        PROVE  Acts(p, {"start"})
    BY <2>1, ActsOfBegin DEF StartExecution, Begin
  <2>2. ASSUME NEW s \in Services, DeleteLogs(p, s)
        PROVE  Acts(p, {"start"})
    <3>1. cmd[p] = Idle /\ Becomes(p, Idle)
      BY <2>2 DEF DeleteLogs, TypeOK, Becomes
    <3> QED BY <3>1 DEF Acts
  <2> QED BY <1>3, <2>1, <2>2, ActsOfGoto
          DEF ExecutionCommand, PutExecution, PutTasks, RunTasks, EndExecution
<1>4. ASSUME PluginCommand(p)
      PROVE  Acts(p, {"install"})
  <2>1. ASSUME NEW w \in Plugins, InstallPlugin(p, w)
        PROVE  Acts(p, {"install"})
    BY <2>1, ActsOfBegin DEF InstallPlugin, Begin
  <2> QED BY <1>4, <2>1, ActsOfGoto DEF PluginCommand, InstallWagon, PutPlugin
<1>5. ASSUME DefinitionCommand(p)
      PROVE  Acts(p, {"load", "undefine"})
  <2>1. ASSUME NEW d \in Definitions, LoadDefinition(p, d) \/ DeleteDefinition(p, d)
        PROVE  Acts(p, {"load", "undefine"})
    BY <2>1, ActsOfBegin DEF LoadDefinition, DeleteDefinition, Begin
  <2> QED BY <1>5, <2>1, ActsOfGoto
          DEF DefinitionCommand, MakeDirectory, PutDefinition, RemoveDirectory,
              DeleteDefinitionRow
<1> QED BY <1>1, <1>2, <1>3, <1>4, <1>5

(* Races and crashes are remembered.                                       *)
LEMMA StepsRemember ==
  ASSUME TypeOK, [Next]_vars
  PROVE  (raced => raced') /\ (crashes' = 0 => crashes = 0)
<1>1. ASSUME NEW p \in Processes, NEW op, NEW x, NEW pc, NEW saw, BeginWith(p, op, x, pc, saw)
      PROVE  (raced => raced') /\ crashes' = crashes
  BY <1>1 DEF BeginWith
<1>2. ASSUME NEW p \in Processes, NEW pc, Goto(p, pc) \/ End(p)
      PROVE  raced' = raced /\ crashes' = crashes
  BY <1>2 DEF Goto, End, bounds
<1>3. ASSUME NEW p \in Processes, TemplateCommand(p)
      PROVE  (raced => raced') /\ crashes' = crashes
  BY <1>1, <1>2, <1>3 DEF TemplateCommand, StoreTemplate, DropTemplate, Begin, PutTemplate,
     UploadTemplate, DeleteTemplate, DeleteFiles
<1>4. ASSUME NEW p \in Processes, ServiceCommand(p)
      PROVE  (raced => raced') /\ crashes' = crashes
  BY <1>1, <1>2, <1>4 DEF ServiceCommand, CreateService, DeleteService, PutService,
     DeleteServiceRows
<1>5. ASSUME NEW p \in Processes, ExecutionCommand(p)
      PROVE  (raced => raced') /\ crashes' = crashes
  BY <1>1, <1>2, <1>5 DEF ExecutionCommand, StartExecution, Begin, DeleteLogs, PutExecution,
     PutTasks, RunTasks, EndExecution
<1>6. ASSUME NEW p \in Processes, PluginCommand(p)
      PROVE  (raced => raced') /\ crashes' = crashes
  BY <1>1, <1>2, <1>6 DEF PluginCommand, InstallPlugin, Begin, InstallWagon, PutPlugin
<1>7. ASSUME NEW p \in Processes, DefinitionCommand(p)
      PROVE  (raced => raced') /\ crashes' = crashes
  BY <1>1, <1>2, <1>7 DEF DefinitionCommand, LoadDefinition, DeleteDefinition, Begin,
     MakeDirectory, PutDefinition, RemoveDirectory, DeleteDefinitionRow
<1>8. ASSUME NEW p \in Processes, Crash(p)
      PROVE  raced' = raced /\ crashes' # 0
  BY <1>8 DEF Crash, TypeOK
<1>9. CASE UNCHANGED vars
  BY <1>9 DEF vars, bounds
<1> QED BY <1>3, <1>4, <1>5, <1>6, <1>7, <1>8, <1>9 DEF Next

-----------------------------------------------------------------------------
(* Stored templates and their files                                        *)
TemplatesAgree == crashes = 0 /\ ~ raced => \A t \in ServiceTemplates : TemplateAgrees(t)

(* Rows and resources of templates stay in agreement where neither, nor    *)
(* the commands half way between them, changes.                            *)
LEMMA TemplatesStayAgreed ==
  ASSUME TemplatesAgree, TypeOK, [Next]_vars, SameTemplates, uploaded' = uploaded,
         SameFlights("store", "upload"), SameFlights("drop", "files")
  PROVE  TemplatesAgree'
<1> SUFFICES ASSUME crashes' = 0, ~ raced', NEW t \in ServiceTemplates
             PROVE  TemplateAgrees(t)'
  BY DEF TemplatesAgree
<1>1. TemplateAgrees(t)
  BY StepsRemember DEF TemplatesAgree
<1> QED BY <1>1 DEF TemplateAgrees, SameTemplates, SameFlights

(* They stay in agreement when a template is stored or deleted.            *)
LEMMA TemplateStepsAgree ==
  ASSUME TypeOK, Exclusive, TemplatesAgree, NEW p \in Processes, TemplateCommand(p)
  PROVE  TemplatesAgree'
<1> DEFINE x == cmd[p].of
<1>0. [Next]_vars
  BY DEF Next
<1> SUFFICES ASSUME crashes' = 0, ~ raced'
             PROVE  TemplatesAgree'
  BY DEF TemplatesAgree
<1>1. ~ raced /\ \A t \in ServiceTemplates : TemplateAgrees(t)
  BY <1>0, StepsRemember DEF TemplatesAgree
<1>2. ASSUME NEW t \in ServiceTemplates, StoreTemplate(p, t) \/ DropTemplate(p, t)
      PROVE  TemplatesAgree'
  <2>1. PICK c : /\ Becomes(p, c) /\ ~ Is(c, "store", "upload") /\ ~ Is(c, "drop", "files")
                 /\ cmd[p] = Idle
    <3>1. \A op, pc : /\ ~ Is(Command("store", t, "put", Nothing), "store", "upload")
                      /\ ~ Is(Command("store", t, "put", Nothing), "drop", "files")
                      /\ ~ Is(Command("drop", t, "delete", Nothing), "store", "upload")
                      /\ ~ Is(Command("drop", t, "delete", Nothing), "drop", "files")
      BY DEF Is, Command
    <3> QED BY <1>2, <3>1 DEF StoreTemplate, DropTemplate, Begin, BeginWith, Becomes
  <2>2. SameFlights("store", "upload") /\ SameFlights("drop", "files")
    BY <2>1, QuietFlights DEF Is
  <2>3. SameTemplates /\ uploaded' = uploaded
    BY <1>2 DEF StoreTemplate, DropTemplate, SameTemplates, database, disk
  <2> QED BY <1>0, <2>2, <2>3, TemplatesStayAgreed
<1>3. CASE PutTemplate(p)
  <2>1. At(p, "store", "put") /\ uploaded' = uploaded
    BY <1>3 DEF PutTemplate, disk
  <2>2. \A t \in ServiceTemplates : TemplateRow(t) \in rows' <=> TemplateRow(t) \in rows \/ t = x
    BY <1>3, TemplateStepsKeepRoots
  <2>3. CASE TemplateRow(x) \in rows /\ End(p)
    <3>1. Becomes(p, Idle) /\ ~ Is(Idle, "store", "upload") /\ ~ Is(Idle, "drop", "files")
      BY <2>3 DEF End, Becomes, Is
    <3>2. SameFlights("store", "upload") /\ SameFlights("drop", "files")
      BY <2>1, <3>1, QuietFlights DEF At, Is
    <3> QED BY <1>0, <2>1, <2>2, <2>3, <3>2, TemplatesStayAgreed DEF SameTemplates
  <2>4. CASE TemplateRow(x) \notin rows /\ Goto(p, "upload")
    <3> DEFINE c == Command("store", x, "upload", cmd[p].saw)
    <3>1. Becomes(p, c) /\ c.of = x /\ Is(c, "store", "upload") /\ ~ Is(c, "drop", "files")
      <4>1. c.op = "store" /\ c.of = x /\ c.pc = "upload" /\ c # Idle
        BY DEF Command, Idle
      <4> QED BY <2>1, <2>4, <4>1 DEF Goto, Becomes, Is, At
    <3> HIDE DEF c
    <3>2. ASSUME NEW t \in ServiceTemplates
          PROVE  TemplateAgrees(t)'
      <4>1. InFlight("store", "upload", t)' <=> t = x \/ InFlight("store", "upload", t)
        BY <2>1, <3>1, FlightStarts DEF At, Is
      <4>2. InFlight("drop", "files", t)' <=> InFlight("drop", "files", t)
        BY <2>1, <3>1, QuietFlights DEF SameFlights, At, Is
      <4>3. ~ InFlight("drop", "files", t)
        BY <1>1, <2>1, Excluded DEF InFlight
      <4> QED BY <1>1, <2>1, <2>2, <4>1, <4>2, <4>3 DEF TemplateAgrees
    <3> QED BY <3>2 DEF TemplatesAgree
  <2> QED BY <1>3, <2>3, <2>4 DEF PutTemplate
<1>4. CASE UploadTemplate(p)
  <2>1. At(p, "store", "upload") /\ uploaded' = uploaded \cup {x} /\ rows' = rows /\ Becomes(p, Idle)
    BY <1>4 DEF UploadTemplate, database, End, Becomes
  <2>2. ASSUME NEW t \in ServiceTemplates
        PROVE  TemplateAgrees(t)'
    <3>1. InFlight("store", "upload", t) <=> t = x \/ InFlight("store", "upload", t)'
      BY <2>1, FlightsAfter DEF InFlight, At, Is
    <3>2. InFlight("drop", "files", t)' <=> InFlight("drop", "files", t)
      BY <2>1, QuietFlights DEF SameFlights, At, Is
    <3> QED BY <1>1, <2>1, <3>1, <3>2 DEF TemplateAgrees
  <2> QED BY <2>2 DEF TemplatesAgree
<1>5. CASE DeleteTemplate(p)
  <2>1. At(p, "drop", "delete") /\ uploaded' = uploaded
    BY <1>5 DEF DeleteTemplate, disk
  <2>2. \A t \in ServiceTemplates : TemplateRow(t) \in rows' <=> TemplateRow(t) \in rows /\ t # x
    BY <1>5, TemplateStepsKeepRoots
  <2> DEFINE c == Command("drop", x, "files", cmd[p].saw)
  <2>3. Becomes(p, c) /\ c.of = x /\ Is(c, "drop", "files") /\ ~ Is(c, "store", "upload")
    <3>1. c.op = "drop" /\ c.of = x /\ c.pc = "files" /\ c # Idle
      BY DEF Command, Idle
    <3> QED BY <1>5, <2>1, <3>1 DEF DeleteTemplate, Goto, Becomes, Is, At
  <2> HIDE DEF c
  <2>4. ASSUME NEW t \in ServiceTemplates
        PROVE  TemplateAgrees(t)'
    <3>1. InFlight("drop", "files", t)' <=> t = x \/ InFlight("drop", "files", t)
      BY <2>1, <2>3, FlightStarts DEF At, Is
    <3>2. InFlight("store", "upload", t)' <=> InFlight("store", "upload", t)
      BY <2>1, <2>3, QuietFlights DEF SameFlights, At, Is
    <3>3. ~ InFlight("store", "upload", t)
      BY <1>1, <2>1, Excluded DEF InFlight
    <3> QED BY <1>1, <2>1, <2>2, <3>1, <3>2, <3>3 DEF TemplateAgrees
  <2> QED BY <2>4 DEF TemplatesAgree
<1>6. CASE DeleteFiles(p)
  <2>1. At(p, "drop", "files") /\ uploaded' = uploaded \ {x} /\ rows' = rows /\ Becomes(p, Idle)
    BY <1>6 DEF DeleteFiles, database, End, Becomes
  <2>2. ASSUME NEW t \in ServiceTemplates
        PROVE  TemplateAgrees(t)'
    <3>1. InFlight("drop", "files", t) <=> t = x \/ InFlight("drop", "files", t)'
      <4>1. ~ Is(Idle, "drop", "files")
        BY DEF Is
      <4>2. InFlight("drop", "files", t)' <=>
              \E q \in Processes \ {p} : At(q, "drop", "files") /\ cmd[q].of = t
        BY <2>1, <4>1, FlightsAfter
      <4> QED BY <2>1, <4>2 DEF InFlight
    <3>2. InFlight("store", "upload", t)' <=> InFlight("store", "upload", t)
      BY <2>1, QuietFlights DEF SameFlights, At, Is
    <3> QED BY <1>1, <2>1, <3>1, <3>2 DEF TemplateAgrees
  <2> QED BY <2>2 DEF TemplatesAgree
<1> QED BY <1>2, <1>3, <1>4, <1>5, <1>6 DEF TemplateCommand

-----------------------------------------------------------------------------
(* Type definitions and their directories                                  *)
DefinitionsAgree == crashes = 0 /\ ~ raced => \A d \in Definitions : DefinitionAgrees(d)

(* The same of type definitions: nothing changes,                          *)
LEMMA DefinitionsStayAgreed ==
  ASSUME DefinitionsAgree, TypeOK, [Next]_vars, SameDefinitions, directories' = directories,
         SameFlights("load", "put"), SameFlights("undefine", "row")
  PROVE  DefinitionsAgree'
<1> SUFFICES ASSUME crashes' = 0, ~ raced', NEW d \in Definitions
             PROVE  DefinitionAgrees(d)'
  BY DEF DefinitionsAgree
<1>1. DefinitionAgrees(d)
  BY StepsRemember DEF DefinitionsAgree
<1> QED BY <1>1 DEF DefinitionAgrees, SameDefinitions, SameFlights

(* or one is loaded or deleted.                                            *)
LEMMA DefinitionStepsAgree ==
  ASSUME TypeOK, Exclusive, DefinitionsAgree, NEW p \in Processes, DefinitionCommand(p)
  PROVE  DefinitionsAgree'
<1> DEFINE x == cmd[p].of
<1>0. [Next]_vars
  BY DEF Next
<1> SUFFICES ASSUME crashes' = 0, ~ raced'
             PROVE  DefinitionsAgree'
  BY DEF DefinitionsAgree
<1>1. ~ raced /\ \A d \in Definitions : DefinitionAgrees(d)
  BY <1>0, StepsRemember DEF DefinitionsAgree
<1>2. ASSUME NEW d \in Definitions, LoadDefinition(p, d) \/ DeleteDefinition(p, d)
      PROVE  DefinitionsAgree'
  <2>1. PICK c : /\ Becomes(p, c) /\ ~ Is(c, "load", "put") /\ ~ Is(c, "undefine", "row")
                 /\ cmd[p] = Idle
    <3>1. /\ ~ Is(Command("load", d, "directory", Nothing), "load", "put")
          /\ ~ Is(Command("load", d, "directory", Nothing), "undefine", "row")
          /\ ~ Is(Command("undefine", d, "directory", Nothing), "load", "put")
          /\ ~ Is(Command("undefine", d, "directory", Nothing), "undefine", "row")
      BY DEF Is, Command
    <3> QED BY <1>2, <3>1 DEF LoadDefinition, DeleteDefinition, Begin, BeginWith, Becomes
  <2>2. SameFlights("load", "put") /\ SameFlights("undefine", "row")
    BY <2>1, QuietFlights DEF Is
  <2>3. SameDefinitions /\ directories' = directories
    BY <1>2 DEF LoadDefinition, DeleteDefinition, SameDefinitions, database, disk
  <2> QED BY <1>0, <2>2, <2>3, DefinitionsStayAgreed
<1>3. CASE MakeDirectory(p)
  <2>1. At(p, "load", "directory") /\ rows' = rows
    BY <1>3 DEF MakeDirectory, database
  <2>2. CASE x \in directories /\ End(p) /\ directories' = directories
    <3>1. Becomes(p, Idle) /\ ~ Is(Idle, "load", "put") /\ ~ Is(Idle, "undefine", "row")
      BY <2>2 DEF End, Becomes, Is
    <3>2. SameFlights("load", "put") /\ SameFlights("undefine", "row")
      BY <2>1, <3>1, QuietFlights DEF At, Is
    <3> QED BY <1>0, <2>1, <2>2, <3>2, DefinitionsStayAgreed DEF SameDefinitions
  <2>3. CASE Goto(p, "put") /\ directories' = directories \cup {x}
    <3> DEFINE c == Command("load", x, "put", cmd[p].saw)
    <3>1. Becomes(p, c) /\ c.of = x /\ Is(c, "load", "put") /\ ~ Is(c, "undefine", "row")
      <4>1. c.op = "load" /\ c.of = x /\ c.pc = "put" /\ c # Idle
        BY DEF Command, Idle
      <4> QED BY <2>1, <2>3, <4>1 DEF Goto, Becomes, Is, At
    <3> HIDE DEF c
    <3>2. ASSUME NEW d \in Definitions
          PROVE  DefinitionAgrees(d)'
      <4>1. InFlight("load", "put", d)' <=> d = x \/ InFlight("load", "put", d)
        BY <2>1, <3>1, FlightStarts DEF At, Is
      <4>2. InFlight("undefine", "row", d)' <=> InFlight("undefine", "row", d)
        BY <2>1, <3>1, QuietFlights DEF SameFlights, At, Is
      <4>3. ~ InFlight("undefine", "row", d)
        BY <1>1, <2>1, Excluded DEF InFlight
      <4> QED BY <1>1, <2>1, <2>3, <4>1, <4>2, <4>3 DEF DefinitionAgrees
    <3> QED BY <3>2 DEF DefinitionsAgree
  <2> QED BY <1>3, <2>2, <2>3 DEF MakeDirectory
<1>4. CASE PutDefinition(p)
  <2>1. /\ At(p, "load", "put") /\ rows' = rows \cup {DefinitionRow(x)}
        /\ directories' = directories /\ Becomes(p, Idle)
    BY <1>4 DEF PutDefinition, disk, End, Becomes
  <2>2. ASSUME NEW d \in Definitions
        PROVE  DefinitionAgrees(d)'
    <3>1. InFlight("load", "put", d) <=> d = x \/ InFlight("load", "put", d)'
      BY <2>1, FlightsAfter DEF InFlight, At, Is
    <3>2. InFlight("undefine", "row", d)' <=> InFlight("undefine", "row", d)
      BY <2>1, QuietFlights DEF SameFlights, At, Is
    <3>3. DefinitionRow(d) \in rows' <=> DefinitionRow(d) \in rows \/ d = x
      BY <2>1, RootRows
    <3> QED BY <1>1, <2>1, <3>1, <3>2, <3>3 DEF DefinitionAgrees
  <2> QED BY <2>2 DEF DefinitionsAgree
<1>5. CASE RemoveDirectory(p)
  <2>1. At(p, "undefine", "directory") /\ rows' = rows /\ directories' = directories \ {x}
    BY <1>5 DEF RemoveDirectory, database
  <2> DEFINE c == Command("undefine", x, "row", cmd[p].saw)
  <2>2. Becomes(p, c) /\ c.of = x /\ Is(c, "undefine", "row") /\ ~ Is(c, "load", "put")
    <3>1. c.op = "undefine" /\ c.of = x /\ c.pc = "row" /\ c # Idle
      BY DEF Command, Idle
    <3> QED BY <1>5, <2>1, <3>1 DEF RemoveDirectory, Goto, Becomes, Is, At
  <2> HIDE DEF c
  <2>3. ASSUME NEW d \in Definitions
        PROVE  DefinitionAgrees(d)'
    <3>1. InFlight("undefine", "row", d)' <=> d = x \/ InFlight("undefine", "row", d)
      BY <2>1, <2>2, FlightStarts DEF At, Is
    <3>2. InFlight("load", "put", d)' <=> InFlight("load", "put", d)
      BY <2>1, <2>2, QuietFlights DEF SameFlights, At, Is
    <3>3. ~ InFlight("load", "put", d)
      BY <1>1, <2>1, Excluded DEF InFlight
    <3> QED BY <1>1, <2>1, <3>1, <3>2, <3>3 DEF DefinitionAgrees
  <2> QED BY <2>3 DEF DefinitionsAgree
<1>6. CASE DeleteDefinitionRow(p)
  <2>1. /\ At(p, "undefine", "row") /\ rows' = rows \ {DefinitionRow(x)}
        /\ directories' = directories /\ Becomes(p, Idle)
    BY <1>6 DEF DeleteDefinitionRow, disk, End, Becomes
  <2>2. ASSUME NEW d \in Definitions
        PROVE  DefinitionAgrees(d)'
    <3>1. InFlight("undefine", "row", d) <=> d = x \/ InFlight("undefine", "row", d)'
      BY <2>1, FlightsAfter DEF InFlight, At, Is
    <3>2. InFlight("load", "put", d)' <=> InFlight("load", "put", d)
      BY <2>1, QuietFlights DEF SameFlights, At, Is
    <3>3. DefinitionRow(d) \in rows' <=> DefinitionRow(d) \in rows /\ d # x
      BY <2>1, RootRows
    <3> QED BY <1>1, <2>1, <3>1, <3>2, <3>3 DEF DefinitionAgrees
  <2> QED BY <2>2 DEF DefinitionsAgree
<1> QED BY <1>2, <1>3, <1>4, <1>5, <1>6 DEF DefinitionCommand

-----------------------------------------------------------------------------
(* Plugins and their wagons                                                *)
PluginsAgree == crashes = 0 /\ ~ raced => \A w \in Plugins : PluginAgrees(w)

(* The same of plugins: nothing changes,                                   *)
LEMMA PluginsStayAgreed ==
  ASSUME PluginsAgree, InstallsAreFirst, PluginsAreUnique, TypeOK, [Next]_vars,
         pluginRows' = pluginRows, wagons' = wagons,
         SameFlights("install", "wagon"), SameFlights("install", "put")
  PROVE  PluginsAgree' /\ InstallsAreFirst' /\ PluginsAreUnique'
<1>1. PluginsAgree'
  <2> SUFFICES ASSUME crashes' = 0, ~ raced', NEW w \in Plugins
               PROVE  PluginAgrees(w)'
    BY DEF PluginsAgree
  <2>1. PluginAgrees(w)
    BY StepsRemember DEF PluginsAgree
  <2> QED BY <2>1 DEF PluginAgrees, SameFlights
<1>2. InstallsAreFirst'
  BY StepsRemember DEF InstallsAreFirst, SameFlights
<1>3. PluginsAreUnique'
  BY StepsRemember DEF PluginsAreUnique
<1> QED BY <1>1, <1>2, <1>3

(* or one is installed; a plugin that is not raced for is installed once.  *)
LEMMA PluginStepsAgree ==
  ASSUME TypeOK, Exclusive, PluginsAgree, InstallsAreFirst, PluginsAreUnique,
         NEW p \in Processes, PluginCommand(p)
  PROVE  PluginsAgree' /\ InstallsAreFirst' /\ PluginsAreUnique'
<1> DEFINE x == cmd[p].of
<1>0. [Next]_vars
  BY DEF Next
<1> SUFFICES ASSUME ~ raced'
             PROVE  PluginsAgree' /\ InstallsAreFirst' /\ PluginsAreUnique'
  BY DEF PluginsAgree, InstallsAreFirst, PluginsAreUnique
<1>1. /\ ~ raced
      /\ \A w \in Plugins :
           /\ pluginRows[w] <= 1 /\ pluginRows[w] \in Nat
           /\ InFlight("install", "wagon", w) \/ InFlight("install", "put", w)
                => pluginRows[w] = 0
  BY <1>0, StepsRemember DEF InstallsAreFirst, PluginsAreUnique, TypeOK
<1>2. ASSUME crashes' = 0, NEW w \in Plugins
      PROVE  PluginAgrees(w)
  BY <1>0, <1>1, <1>2, StepsRemember DEF PluginsAgree
<1>3. ASSUME NEW y \in Plugins, InstallPlugin(p, y)
      PROVE  PluginsAgree' /\ InstallsAreFirst' /\ PluginsAreUnique'
  <2> DEFINE c == Command("install", y, "wagon", Nothing)
  <2>1. Becomes(p, c) /\ cmd[p] = Idle
    BY <1>3 DEF InstallPlugin, Begin, BeginWith, Becomes
  <2>2. c.of = y /\ ~ Is(c, "install", "put")
    BY DEF Is, Command
  <2> HIDE DEF c
  <2>3. pluginRows' = pluginRows /\ wagons' = wagons /\ pluginRows[y] = 0
    BY <1>3 DEF InstallPlugin, database, disk
  <2>4. \A w : InFlight("install", "put", w)' <=> InFlight("install", "put", w)
    BY <2>1, <2>2, QuietFlights DEF SameFlights, Is
  <2>5. \A w : InFlight("install", "wagon", w)' => w = y \/ InFlight("install", "wagon", w)
    BY <2>1, <2>2, FlightStarts DEF Is
  <2>6. PluginsAgree'
    BY <1>2, <2>3, <2>4 DEF PluginsAgree, PluginAgrees
  <2>7. InstallsAreFirst'
    BY <1>1, <2>3, <2>4, <2>5 DEF InstallsAreFirst
  <2> QED BY <1>1, <2>3, <2>6, <2>7 DEF PluginsAreUnique
<1>4. CASE InstallWagon(p)
  <2>1. At(p, "install", "wagon") /\ wagons' = wagons \cup {x} /\ pluginRows' = pluginRows
    BY <1>4 DEF InstallWagon, database
  <2> DEFINE c == Command("install", x, "put", cmd[p].saw)
  <2>2. Becomes(p, c) /\ c.of = x /\ Is(c, "install", "put") /\ ~ Is(c, "install", "wagon")
    <3>1. c.op = "install" /\ c.of = x /\ c.pc = "put" /\ c # Idle
      BY DEF Command, Idle
    <3> QED BY <1>4, <2>1, <3>1 DEF InstallWagon, Goto, Becomes, Is, At
  <2> HIDE DEF c
  <2>3. \A w : InFlight("install", "put", w)' <=> w = x \/ InFlight("install", "put", w)
    BY <2>1, <2>2, FlightStarts DEF At, Is
  <2>4. ASSUME NEW w, InFlight("install", "wagon", w)'
        PROVE  InFlight("install", "wagon", w)
    <3>1. \E q \in Processes \ {p} : At(q, "install", "wagon") /\ cmd[q].of = w
      BY <2>2, <2>4, FlightsAfter
    <3> QED BY <3>1 DEF InFlight
  <2>5. InFlight("install", "wagon", x)
    BY <2>1 DEF InFlight
  <2>6. PluginsAgree'
    BY <1>2, <2>1, <2>3 DEF PluginsAgree, PluginAgrees
  <2>7. InstallsAreFirst'
    BY <1>1, <2>1, <2>3, <2>4, <2>5 DEF InstallsAreFirst
  <2> QED BY <1>1, <2>1, <2>6, <2>7 DEF PluginsAreUnique
<1>5. CASE PutPlugin(p)
  <2>1. /\ At(p, "install", "put") /\ wagons' = wagons /\ Becomes(p, Idle)
        /\ pluginRows' = [pluginRows EXCEPT ![x] = @ + 1]
    BY <1>5 DEF PutPlugin, disk, End, Becomes
  <2>2. x \in Plugins
    BY <2>1, InFlightTypes
  <2>3. InFlight("install", "put", x) /\ pluginRows[x] = 0
    BY <1>1, <2>1, <2>2 DEF InFlight
  <2>4. pluginRows'[x] = 1 /\ \A w \in Plugins \ {x} : pluginRows'[w] = pluginRows[w]
    BY <2>1, <2>2, <2>3 DEF TypeOK
  <2>5. \A w : ~ InFlight("install", "put", w)' /\ ~ InFlight("install", "wagon", w)'
    <3>1. \A pc : \A q \in Processes \ {p} : ~ At(q, "install", pc)
      BY <1>1, <2>1, Excluded
    <3> QED BY <2>1, <3>1, FlightsAfter DEF Is
  <2>6. PluginsAgree'
    <3> SUFFICES ASSUME crashes' = 0, NEW w \in Plugins
                 PROVE  PluginAgrees(w)'
      BY DEF PluginsAgree
    <3>1. PluginAgrees(w)
      BY <1>2
    <3>2. CASE w = x
      <4>1. PluginAgrees(x)
        BY <1>2, <2>2
      <4> QED BY <2>1, <2>3, <2>4, <2>5, <3>2, <4>1 DEF PluginAgrees
    <3>3. CASE w # x
      <4>1. InFlight("install", "put", w) => FALSE
        <5>1. \A q \in Processes \ {p} : ~ At(q, "install", "put")
          BY <1>1, <2>1, Excluded
        <5> QED BY <3>3, <5>1 DEF InFlight
      <4> QED BY <2>1, <2>4, <2>5, <3>1, <3>3, <4>1 DEF PluginAgrees
    <3> QED BY <3>2, <3>3
  <2>7. InstallsAreFirst'
    BY <2>5 DEF InstallsAreFirst
  <2>8. PluginsAreUnique'
    BY <1>1, <2>4 DEF PluginsAreUnique
  <2> QED BY <2>6, <2>7, <2>8
<1> QED BY <1>3, <1>4, <1>5 DEF PluginCommand

-----------------------------------------------------------------------------
(* The invariant                                                           *)
LEMMA HalvesAreThree == HalvesAgree <=> TemplatesAgree /\ DefinitionsAgree /\ PluginsAgree
BY DEF HalvesAgree, TemplatesAgree, DefinitionsAgree, PluginsAgree

(* A step of one part of the catalog leaves the other parts alone.         *)
LEMMA StepsAgree ==
  ASSUME IInv, [Next]_vars
  PROVE  TemplatesAgree' /\ DefinitionsAgree' /\ PluginsAgree' /\ InstallsAreFirst' /\ PluginsAreUnique'
<1>0. /\ TypeOK /\ Exclusive /\ InstallsAreFirst /\ PluginsAreUnique
      /\ TemplatesAgree /\ DefinitionsAgree /\ PluginsAgree
  BY HalvesAreThree DEF IInv
<1>1. ASSUME NEW p \in Processes, TemplateCommand(p)
      PROVE  TemplatesAgree' /\ DefinitionsAgree' /\ PluginsAgree' /\ InstallsAreFirst'
             /\ PluginsAreUnique'
  <2>1. SameDefinitions
    BY <1>0, <1>1, TemplateStepsKeepRoots
    DEF TemplateCommand, StoreTemplate, DropTemplate, UploadTemplate, DeleteFiles, database,
        SameDefinitions
  <2>2. pluginRows' = pluginRows /\ wagons' = wagons /\ directories' = directories
    BY <1>1 DEF TemplateCommand, StoreTemplate, DropTemplate, PutTemplate, UploadTemplate,
       DeleteTemplate, DeleteFiles, database, disk
  <2>3. /\ SameFlights("load", "put") /\ SameFlights("undefine", "row")
        /\ SameFlights("install", "wagon") /\ SameFlights("install", "put")
    <3>1. Acts(p, {"store", "drop"})
      BY <1>0, <1>1, ActsOfCommands
    <3> QED BY <1>0, <3>1, ActsLeaveOthers
  <2> QED BY <1>0, <1>1, <2>1, <2>2, <2>3, TemplateStepsAgree, DefinitionsStayAgreed,
             PluginsStayAgreed
<1>2. ASSUME NEW p \in Processes, ServiceCommand(p) \/ ExecutionCommand(p)
      PROVE  TemplatesAgree' /\ DefinitionsAgree' /\ PluginsAgree' /\ InstallsAreFirst'
             /\ PluginsAreUnique'
  <2>1. SameTemplates /\ SameDefinitions
    <3>1. ASSUME ServiceCommand(p) PROVE SameTemplates /\ SameDefinitions
      BY <1>0, <3>1, ServiceStepsKeepRoots
      DEF ServiceCommand, CreateService, DeleteService, database, SameTemplates, SameDefinitions
    <3>2. ASSUME ExecutionCommand(p) PROVE SameTemplates /\ SameDefinitions
      <4>1. CASE (\E s \in Services : StartExecution(p, s)) \/ EndExecution(p)
        BY <4>1 DEF StartExecution, EndExecution, database, SameTemplates, SameDefinitions
      <4> QED BY <3>2, <4>1, ExecutionStepsKeepRoots DEF ExecutionCommand
    <3> QED BY <1>2, <3>1, <3>2
  <2>2. /\ pluginRows' = pluginRows
        /\ uploaded' = uploaded /\ wagons' = wagons /\ directories' = directories
    BY <1>2 DEF ServiceCommand, CreateService, DeleteService, PutService, DeleteServiceRows,
       ExecutionCommand, StartExecution, DeleteLogs, PutExecution, PutTasks, RunTasks,
       EndExecution, database, disk
  <2>3. /\ SameFlights("store", "upload") /\ SameFlights("drop", "files")
        /\ SameFlights("load", "put") /\ SameFlights("undefine", "row")
        /\ SameFlights("install", "wagon") /\ SameFlights("install", "put")
    <3>1. PICK ops \in {{"create", "delete"}, {"start"}} : Acts(p, ops)
      BY <1>0, <1>2, ActsOfCommands
    <3>2. ops \cap {"store", "drop", "load", "undefine", "install"} = {}
      OBVIOUS
    <3> QED BY <1>0, <3>1, <3>2, ActsLeaveOthers
  <2> QED BY <1>0, <2>1, <2>2, <2>3, TemplatesStayAgreed, DefinitionsStayAgreed, PluginsStayAgreed
<1>3. ASSUME NEW p \in Processes, PluginCommand(p)
      PROVE  TemplatesAgree' /\ DefinitionsAgree' /\ PluginsAgree' /\ InstallsAreFirst'
             /\ PluginsAreUnique'
  <2>1. SameTemplates /\ SameDefinitions /\ uploaded' = uploaded /\ directories' = directories
    BY <1>3 DEF PluginCommand, InstallPlugin, InstallWagon, PutPlugin, database, disk,
       SameTemplates, SameDefinitions
  <2>2. /\ SameFlights("store", "upload") /\ SameFlights("drop", "files")
        /\ SameFlights("load", "put") /\ SameFlights("undefine", "row")
    <3>1. Acts(p, {"install"})
      BY <1>0, <1>3, ActsOfCommands
    <3> QED BY <1>0, <3>1, ActsLeaveOthers
  <2> QED BY <1>0, <1>3, <2>1, <2>2, PluginStepsAgree, TemplatesStayAgreed, DefinitionsStayAgreed
<1>4. ASSUME NEW p \in Processes, DefinitionCommand(p)
      PROVE  TemplatesAgree' /\ DefinitionsAgree' /\ PluginsAgree' /\ InstallsAreFirst'
             /\ PluginsAreUnique'
  <2>1. SameTemplates
    <3>1. CASE PutDefinition(p) \/ DeleteDefinitionRow(p)
      BY <3>1, RootRows DEF PutDefinition, DeleteDefinitionRow, SameTemplates
    <3> QED BY <1>4, <3>1 DEF DefinitionCommand, LoadDefinition, DeleteDefinition, MakeDirectory,
               RemoveDirectory, database, SameTemplates
  <2>2. pluginRows' = pluginRows /\ wagons' = wagons /\ uploaded' = uploaded
    BY <1>4 DEF DefinitionCommand, LoadDefinition, DeleteDefinition, MakeDirectory,
       PutDefinition, RemoveDirectory, DeleteDefinitionRow, database, disk
  <2>3. /\ SameFlights("store", "upload") /\ SameFlights("drop", "files")
        /\ SameFlights("install", "wagon") /\ SameFlights("install", "put")
    <3>1. Acts(p, {"load", "undefine"})
      BY <1>0, <1>4, ActsOfCommands
    <3> QED BY <1>0, <3>1, ActsLeaveOthers
  <2> QED BY <1>0, <1>4, <2>1, <2>2, <2>3, DefinitionStepsAgree, TemplatesStayAgreed,
             PluginsStayAgreed
<1>5. ASSUME NEW p \in Processes, Crash(p)
      PROVE  TemplatesAgree' /\ DefinitionsAgree' /\ PluginsAgree' /\ InstallsAreFirst'
             /\ PluginsAreUnique'
  <2>1. crashes' # 0 /\ raced' = raced /\ pluginRows' = pluginRows
    BY <1>0, <1>5 DEF Crash, database, TypeOK
  <2>2. Becomes(p, Idle)
    BY <1>5 DEF Crash, Becomes
  <2>3. ASSUME NEW pc, NEW w, InFlight("install", pc, w)'
        PROVE  InFlight("install", pc, w)
    <3>1. \E q \in Processes \ {p} : At(q, "install", pc) /\ cmd[q].of = w
      BY <1>0, <2>2, <2>3, FlightsAfter DEF Is
    <3> QED BY <3>1 DEF InFlight
  <2> QED BY <1>0, <2>1, <2>3 DEF TemplatesAgree, DefinitionsAgree, PluginsAgree,
             InstallsAreFirst, PluginsAreUnique
<1>6. CASE UNCHANGED vars
  <2>1. /\ SameFlights("store", "upload") /\ SameFlights("drop", "files")
        /\ SameFlights("load", "put") /\ SameFlights("undefine", "row")
        /\ SameFlights("install", "wagon") /\ SameFlights("install", "put")
    BY <1>6 DEF vars, SameFlights, InFlight, At
  <2>2. /\ SameTemplates /\ SameDefinitions /\ pluginRows' = pluginRows
        /\ uploaded' = uploaded /\ wagons' = wagons /\ directories' = directories
    BY <1>6 DEF vars, database, disk, SameTemplates, SameDefinitions
  <2> QED BY <1>0, <2>1, <2>2, TemplatesStayAgreed, DefinitionsStayAgreed, PluginsStayAgreed
<1> QED BY <1>1, <1>2, <1>3, <1>4, <1>5, <1>6 DEF Next

-----------------------------------------------------------------------------
(* The rows that own the rows of services                                  *)
LEMMA OwnerIsARow ==
  ASSUME NEW row \in AllRows, row.path \in ServicePaths, Len(row.path) > 1
  PROVE  /\ RowOfOwner(row) \in AllRows
         /\ RowOfOwner(row).path = Tail(row.path) /\ RowOfOwner(row).path \in ServicePaths
<1>1. row.of \in Services /\ Tail(row.path) \in ServicePaths
  BY OwnersOfPaths, FamiliesOfRows, FamiliesAreApart
<1>2. RowOfOwner(row) \in InstanceRows(row.of) \cup ExecutionRows(row.of)
  BY <1>1 DEF RowOfOwner, ServicePaths, InstanceRows, ExecutionRows
<1> QED BY <1>1, <1>2, KindsOfRows DEF RowOfOwner, Row

(* Rows may be added if the owner of each is there or is added with it.    *)
LEMMA OwnersAreKept ==
  ASSUME NEW before, OwnersIn(before), NEW after, before \subseteq after,
         \A row \in (after \ before) \cap AllRows :
            row.path \in ServicePaths /\ Len(row.path) > 1 => RowOfOwner(row) \in after
  PROVE  OwnersIn(after)
BY DEF OwnersIn

(* Storing and deleting a template: the rows of services stay as they are. *)
LEMMA TemplateStepsKeepOwners ==
  ASSUME TypeOK, OwnersIn(rows), NEW p \in Processes
  PROVE  /\ PutTemplate(p) => OwnersIn(rows')
         /\ DeleteTemplate(p) /\ ServicesOf(cmd[p].of) = {} =>
              /\ OwnersIn(rows') /\ rows' \subseteq rows
              /\ rows \ rows' \subseteq TemplateRows(cmd[p].of)
<1>1. \A t : \A row \in TemplateRows(t) : row.path \notin ServicePaths
  BY FamiliesAreApart DEF TemplateRows, Row
<1>2. ASSUME PutTemplate(p)
      PROVE  OwnersIn(rows')
  BY <1>1, <1>2, OwnersAreKept DEF PutTemplate
<1>3. ASSUME DeleteTemplate(p), ServicesOf(cmd[p].of) = {}
      PROVE  /\ OwnersIn(rows') /\ rows' \subseteq rows
             /\ rows \ rows' \subseteq TemplateRows(cmd[p].of)
  <2> DEFINE t == cmd[p].of
             taken == Cascade({TemplateRow(t)}, rows, target)
  <2>1. t \in ServiceTemplates
    BY <1>3, InFlightTypes DEF DeleteTemplate
  <2>2. rows' = rows \ taken
    <3>1. rows \ {ServiceRow(s) : s \in ServicesOf(t)} = rows
      BY <1>3
    <3> QED BY <1>3, <3>1 DEF DeleteTemplate
  <2>3. \A s \in Services : TemplateOf[s] = t => ServiceRow(s) \notin rows
    BY <1>3 DEF ServicesOf
  <2>4. taken \subseteq TemplateRows(t)
    <3>1. taken \subseteq RowsUnder(t)
      BY <2>1, <2>3, TemplateDeletionsReach DEF TypeOK
    <3> QED BY <3>1 DEF RowsUnder
  <2> HIDE DEF taken
  <2>5. OwnersIn(rows')
    BY <1>1, <2>2, <2>4, OwnerIsARow DEF OwnersIn
  <2> QED BY <2>2, <2>4, <2>5
<1> QED BY <1>2, <1>3

(* Creating a service adds rows together with their owners; deleting one   *)
(* that has no executions unseen takes rows together with what they own.   *)
LEMMA ServiceStepsKeepOwners ==
  ASSUME TypeOK, OwnersIn(rows), NEW p \in Processes
  PROVE  /\ PutService(p) => OwnersIn(rows')
         /\ DeleteServiceRows(p) /\ CheckHolds(p) => OwnersIn(rows')
<1>1. ASSUME PutService(p)
      PROVE  OwnersIn(rows')
  <2> DEFINE s == cmd[p].of
  <2>1. rows' = rows \/ rows' = rows \cup InstanceRows(s)
    BY <1>1 DEF PutService
  <2>2. ASSUME NEW row \in InstanceRows(s), Len(row.path) > 1
        PROVE  RowOfOwner(row) \in InstanceRows(s)
    <3>1. row.path \in InstancePaths /\ row.of = s
      BY DEF InstanceRows, Row
    <3>2. Len(<<"service">>) = 1 /\ Len(<<"substitution">>) = 1
      OBVIOUS
    <3>3. row.path # <<"service">> /\ row.path # <<"substitution">>
      <4> DEFINE path == row.path
      <4>1. Len(path) > 1
        BY <2>2
      <4> HIDE DEF path
      <4>2. path = <<"service">> => Len(path) = Len(<<"service">>)
        BY Zenon
      <4>3. path = <<"substitution">> => Len(path) = Len(<<"substitution">>)
        BY Zenon
      <4>4. ~ (Len(path) = 1)
        <5>1. Len(path) = 1 => 1 > 1
          BY <4>1, Zenon
        <5> QED BY <5>1
      <4> QED BY <3>2, <4>2, <4>3, <4>4, Zenon DEF path
    <3>4. Tail(row.path) \in InstancePaths
      BY <3>1, <3>3, InstancePathsAreOwned DEF IsOwned
    <3> QED BY <3>1, <3>4 DEF RowOfOwner, InstanceRows
  <2> QED BY <2>1, <2>2, OwnersAreKept
<1>2. ASSUME DeleteServiceRows(p), CheckHolds(p)
      PROVE  OwnersIn(rows')
  <2> DEFINE s == cmd[p].of
             unseen == IF cmd[p].saw.executed THEN {} ELSE {ExecutionRow(s)}
             taken == Cascade({ServiceRow(s)}, rows \ unseen, target)
  <2>1. s \in Services
    BY <1>2, InFlightTypes DEF DeleteServiceRows
  <2>2. rows \ unseen = rows
    BY <1>2 DEF CheckHolds, DeleteServiceRows, Executed
  <2>3. rows' = rows \/ rows' = rows \ taken
    BY <1>2 DEF DeleteServiceRows
  <2>4. Further(taken, rows, target) \subseteq taken
    BY <2>1, <2>2, ServiceDeletionsAreComplete
  <2> HIDE DEF taken, unseen
  <2>5. ASSUME NEW row \in (rows \ taken) \cap AllRows, row.path \in ServicePaths,
               Len(row.path) > 1, RowOfOwner(row) \in taken
        PROVE  FALSE
    <3>1. row \in Owned[RowOfOwner(row)]
      BY <2>5, OwnerIsARow, OwnersOwn
    <3>2. row \in Further(taken, rows, target)
      BY <2>5, <3>1 DEF Further
    <3> QED BY <2>4, <2>5, <3>2
  <2> QED BY <2>3, <2>5 DEF OwnersIn
<1> QED BY <1>1, <1>2

(* An execution adds rows whose owners its checks found, and deletes logs, *)
(* which own nothing.                                                      *)
LEMMA ExecutionStepsKeepOwners ==
  ASSUME TypeOK, OwnersIn(rows), NEW p \in Processes, CheckHolds(p)
  PROVE  /\ PutExecution(p) \/ PutTasks(p) \/ RunTasks(p) => OwnersIn(rows')
         /\ \A s \in Services : DeleteLogs(p, s) => OwnersIn(rows')
<1> DEFINE s == cmd[p].of
<1>1. /\ Tail(<<"execution", "service">>) = <<"service">>
      /\ Tail(<<"input", "execution", "service">>) = <<"execution", "service">>
  OBVIOUS
<1>2. /\ RowOfOwner(ExecutionRow(s)) = ServiceRow(s)
      /\ RowOfOwner(Row(<<"input", "execution", "service">>, s)) = ExecutionRow(s)
  BY <1>1 DEF RowOfOwner, ExecutionRow, ServiceRow, Row
<1>3. ASSUME PutExecution(p)
      PROVE  OwnersIn(rows')
  <2>1. rows' = rows \cup {ExecutionRow(s), Row(<<"input", "execution", "service">>, s)}
    BY <1>3 DEF PutExecution
  <2>2. ServiceRow(s) \in rows
    BY <1>3 DEF PutExecution, CheckHolds, Stages
  <2> QED BY <1>2, <2>1, <2>2, OwnersAreKept
<1>4. ASSUME PutTasks(p) \/ RunTasks(p)
      PROVE  OwnersIn(rows')
  <2>1. \A row \in rows' \ rows : row \in ExecutionRows(s) /\ Row(Tail(row.path), s) \in rows'
    BY <1>4, RunsAdd
  <2>2. \A row \in ExecutionRows(s) : row.of = s
    BY DEF ExecutionRows, Row
  <2>3. \A row \in rows' \ rows : RowOfOwner(row) \in rows'
    BY <2>1, <2>2 DEF RowOfOwner
  <2>4. rows \subseteq rows'
    BY <1>4, RunsAdd
  <2> QED BY <2>3, <2>4, OwnersAreKept
<1>5. ASSUME NEW x \in Services, DeleteLogs(p, x)
      PROVE  OwnersIn(rows')
  <2>1. rows' \subseteq rows /\ \A row \in rows \ rows' : row.path[1] = "log"
    BY <1>5, LogsAreDeleted
  <2>2. ASSUME NEW row \in AllRows, row.path \in ServicePaths, Len(row.path) > 1
        PROVE  RowOfOwner(row).path[1] # "log"
    <3>1. row.path[1] \in Models[row.path[2]].owns /\ Tail(row.path)[1] = row.path[2]
      BY <2>2, OwnersOfPaths
    <3>2. Models["log"].owns = {}
      BY DEF Models, Log, Table
    <3>3. RowOfOwner(row).path = Tail(row.path)
      BY DEF RowOfOwner, Row
    <3> QED BY <3>1, <3>2, <3>3
  <2> QED BY <2>1, <2>2 DEF OwnersIn
<1> QED BY <1>3, <1>4, <1>5

(* Unless commands raced, no step takes a row and leaves what the row      *)
(* owns.                                                                   *)
LEMMA StepsKeepOwners ==
  ASSUME TypeOK, TypeOK', [Next]_vars, ~ raced, OwnersIn(rows), ChecksHold
  PROVE  OwnersIn(rows')
<1>1. \A p \in Processes : CheckHolds(p)
  BY DEF ChecksHold
<1>2. ASSUME NEW p \in Processes, TemplateCommand(p)
      PROVE  OwnersIn(rows')
  <2>1. DeleteTemplate(p) => ServicesOf(cmd[p].of) = {}
    BY <1>1 DEF CheckHolds, DeleteTemplate
  <2> QED BY <1>2, <2>1, TemplateStepsKeepOwners DEF TemplateCommand, StoreTemplate, DropTemplate,
             UploadTemplate, DeleteFiles, database
<1>3. ASSUME NEW p \in Processes, ServiceCommand(p)
      PROVE  OwnersIn(rows')
  BY <1>1, <1>3, ServiceStepsKeepOwners DEF ServiceCommand, CreateService, DeleteService, database
<1>4. ASSUME NEW p \in Processes, ExecutionCommand(p)
      PROVE  OwnersIn(rows')
  BY <1>1, <1>4, ExecutionStepsKeepOwners DEF ExecutionCommand, StartExecution, EndExecution, database
<1>5. ASSUME NEW p \in Processes, PluginCommand(p)
      PROVE  OwnersIn(rows')
  BY <1>5 DEF PluginCommand, InstallPlugin, InstallWagon, PutPlugin, database
<1>6. ASSUME NEW p \in Processes, DefinitionCommand(p)
      PROVE  OwnersIn(rows')
  <2>1. \A d : DefinitionRow(d) \notin AllRows
    BY RootRows
  <2>2. CASE PutDefinition(p)
    BY <2>1, <2>2, OwnersAreKept DEF PutDefinition
  <2>3. CASE DeleteDefinitionRow(p)
    BY <2>1, <2>3, OwnerIsARow DEF DeleteDefinitionRow, OwnersIn
  <2> QED BY <1>6, <2>2, <2>3 DEF DefinitionCommand, LoadDefinition, DeleteDefinition,
             MakeDirectory, RemoveDirectory, database
<1>7. ASSUME NEW p \in Processes, Crash(p)
      PROVE  OwnersIn(rows')
  BY <1>7 DEF Crash, database
<1>8. CASE UNCHANGED vars
  BY <1>8 DEF vars, database
<1> QED BY <1>2, <1>3, <1>4, <1>5, <1>6, <1>7, <1>8 DEF Next

(* What is looked at when a command begins: the rows of services and of    *)
(* executions.                                                             *)
SameServices == \A s \in Services : ServiceRow(s) \in rows' <=> ServiceRow(s) \in rows
SameExecutions == \A s \in Services : ExecutionRow(s) \in rows' <=> ExecutionRow(s) \in rows

(* The rows of services and of executions are not those of other families. *)
LEMMA ServiceAndExecutionRows ==
  /\ \A s : ServiceRow(s).path = <<"service">> /\ ExecutionRow(s).path = <<"execution", "service">>
  /\ \A s, t : ServiceRow(s) \notin TemplateRows(t) /\ ExecutionRow(s) \notin TemplateRows(t)
  /\ \A s, t : ExecutionRow(s) \notin InstanceRows(t)
  /\ \A s, t : ServiceRow(s) # ExecutionRow(t)
  /\ \A s : \A row : row.path[1] \in RunTables => row # ServiceRow(s) /\ row # ExecutionRow(s)
<1>1. \A s : /\ ServiceRow(s).path = <<"service">> /\ ExecutionRow(s).path = <<"execution", "service">>
             /\ ServiceRow(s).path[1] = "service" /\ ExecutionRow(s).path[1] = "execution"
  BY DEF ServiceRow, ExecutionRow, Row
<1>2. "service" \notin TemplateHeads /\ "execution" \notin TemplateHeads
  BY DEF TemplateHeads, TemplateTables, TemplateRoots, Parameters
<1>3. \A t : \A row \in TemplateRows(t) : row.path[1] \in TemplateHeads
  BY Heads DEF TemplateRows, Row
<1>4. \A s, t : ExecutionRow(s) \notin InstanceRows(t)
  <2>1. \A path \in InstancePaths : path[1] # "execution"
    <3>1. <<"service">>[1] = "service" /\ <<"substitution">>[1] = "substitution"
      OBVIOUS
    <3>2. "execution" \notin InstanceTables
      BY DEF InstanceTables, Parameters
    <3> QED BY <3>1, <3>2, InstancePathsAreOwned DEF IsOwned
  <2>2. \A t : \A row \in InstanceRows(t) : row.path \in InstancePaths
    BY DEF InstanceRows, Row
  <2> QED BY <1>1, <2>1, <2>2
<1>5. \A s, t : ServiceRow(s) # ExecutionRow(t)
  BY <1>1
<1>6. \A s : \A row : row.path[1] \in RunTables => row # ServiceRow(s) /\ row # ExecutionRow(s)
  BY <1>1 DEF RunTables
<1> QED BY <1>1, <1>2, <1>3, <1>4, <1>5, <1>6

(* Steps other than storing or deleting a service and storing an execution *)
(* leave the rows of services and of executions as they are.               *)
LEMMA MostStepsLeaveThem ==
  ASSUME TypeOK, [Next]_vars, ~ raced, ChecksHold,
         \A p \in Processes : ~ PutService(p) /\ ~ DeleteServiceRows(p) /\ ~ PutExecution(p),
         OwnersIn(rows)
  PROVE  SameServices /\ SameExecutions
<1>1. ASSUME NEW p \in Processes, TemplateCommand(p)
      PROVE  SameServices /\ SameExecutions
  <2>1. CASE PutTemplate(p)
    BY <2>1, ServiceAndExecutionRows DEF PutTemplate, SameServices, SameExecutions
  <2>2. CASE DeleteTemplate(p)
    <3>1. ServicesOf(cmd[p].of) = {}
      BY <2>2 DEF ChecksHold, CheckHolds, DeleteTemplate
    <3> QED BY <2>2, <3>1, TemplateStepsKeepOwners, ServiceAndExecutionRows
            DEF SameServices, SameExecutions
  <2> QED BY <1>1, <2>1, <2>2 DEF TemplateCommand, StoreTemplate, DropTemplate,
             UploadTemplate, DeleteFiles, database, SameServices, SameExecutions
<1>2. ASSUME NEW p \in Processes, ServiceCommand(p)
      PROVE  SameServices /\ SameExecutions
  BY <1>2 DEF ServiceCommand, CreateService, DeleteService, database, SameServices, SameExecutions
<1>3. ASSUME NEW p \in Processes, ExecutionCommand(p)
      PROVE  SameServices /\ SameExecutions
  <2>2. CASE PutTasks(p)
    BY <2>2, RunsAdd, ServiceAndExecutionRows DEF SameServices, SameExecutions
  <2>3. CASE RunTasks(p)
    BY <2>3, RunsAdd, ServiceAndExecutionRows DEF SameServices, SameExecutions
  <2>4. ASSUME NEW s \in Services, DeleteLogs(p, s)
        PROVE  SameServices /\ SameExecutions
    BY <2>4, LogsAreDeleted, ServiceAndExecutionRows DEF SameServices, SameExecutions, RunTables
  <2> QED BY <1>3, <2>2, <2>3, <2>4 DEF ExecutionCommand, StartExecution, EndExecution, database,
             SameServices, SameExecutions
<1>4. ASSUME NEW p \in Processes, PluginCommand(p)
      PROVE  SameServices /\ SameExecutions
  BY <1>4 DEF PluginCommand, InstallPlugin, InstallWagon, PutPlugin, database,
     SameServices, SameExecutions
<1>5. ASSUME NEW p \in Processes, DefinitionCommand(p)
      PROVE  SameServices /\ SameExecutions
  <2>1. \A s, d : DefinitionRow(d) # ServiceRow(s) /\ DefinitionRow(d) # ExecutionRow(s)
    <3>1. \A s : /\ DefinitionRow(s).path[1] = "type_definition"
                 /\ ServiceRow(s).path[1] = "service" /\ ExecutionRow(s).path[1] = "execution"
      BY DEF DefinitionRow, ServiceRow, ExecutionRow, Row
    <3> QED BY <3>1
  <2>2. CASE PutDefinition(p) \/ DeleteDefinitionRow(p)
    BY <2>1, <2>2 DEF PutDefinition, DeleteDefinitionRow, SameServices, SameExecutions
  <2> QED BY <1>5, <2>2 DEF DefinitionCommand, LoadDefinition, DeleteDefinition,
             MakeDirectory, RemoveDirectory, database, SameServices, SameExecutions
<1>6. ASSUME NEW p \in Processes, Crash(p)
      PROVE  SameServices /\ SameExecutions
  BY <1>6 DEF Crash, database, SameServices, SameExecutions
<1>7. CASE UNCHANGED vars
  BY <1>7 DEF vars, database, SameServices, SameExecutions
<1> QED BY <1>1, <1>2, <1>3, <1>4, <1>5, <1>6, <1>7 DEF Next

(* The checks of a command that another one leaves alone.                  *)
LEMMA CheckOfOthers ==
  ASSUME TypeOK, NEW q \in Processes, cmd'[q] = cmd[q], CheckHolds(q),
         At(q, "drop", "delete") => \A s \in Services : ServiceRow(s) \in rows' => ServiceRow(s) \in rows,
         At(q, "delete", "rows") => \A s \in Services : ExecutionRow(s) \in rows' => ExecutionRow(s) \in rows,
         \A pc \in Stages : At(q, "start", pc) =>
           \A s \in Services : /\ ServiceRow(s) \in rows => ServiceRow(s) \in rows'
                               /\ ExecutionRow(s) \in rows => ExecutionRow(s) \in rows'
  PROVE  CheckHolds(q)'
<1>1. \A op, pc : At(q, op, pc)' <=> At(q, op, pc)
  BY DEF At
<1>2. At(q, "drop", "delete") => ServicesOf(cmd[q].of)' = {}
  BY DEF CheckHolds, ServicesOf
<1>3. At(q, "delete", "rows") /\ ~ cmd[q].saw.executed => ~ Executed(cmd[q].of)'
  BY InFlightTypes DEF CheckHolds, Executed
<1>4. \A pc \in Stages : At(q, "start", pc) =>
         /\ ServiceRow(cmd[q].of) \in rows'
         /\ pc = "tasks" => Executed(cmd[q].of)'
  BY InFlightTypes DEF CheckHolds, Executed
<1> QED BY <1>1, <1>2, <1>3, <1>4 DEF CheckHolds, ServicesOf, Executed

(* Unless commands raced, what a command in flight found when it checked   *)
(* is still so when it acts.                                               *)
LEMMA StepsKeepChecks ==
  ASSUME TypeOK, TypeOK', Exclusive, [Next]_vars, ~ raced, OwnersIn(rows), ChecksHold
  PROVE  \A q \in Processes : CheckHolds(q)'
<1>1. \A q \in Processes : CheckHolds(q)
  BY DEF ChecksHold
<1>2. ASSUME NEW p \in Processes, PutService(p), NEW q \in Processes
      PROVE  CheckHolds(q)'
  <2>1. rows \subseteq rows' /\ rows' \subseteq rows \cup InstanceRows(cmd[p].of)
    BY <1>2 DEF PutService
  <2>2. CASE q = p
    BY <1>2, <2>2 DEF PutService, End, CheckHolds, At, TypeOK
  <2>3. CASE q # p
    <3>1. cmd'[q] = cmd[q]
      BY <1>2, <2>3 DEF PutService, End, TypeOK
    <3>2. ~ At(q, "drop", "delete") /\ ~ At(q, "delete", "rows")
      BY <1>2, Excluded DEF PutService
    <3> QED BY <1>1, <2>1, <3>1, <3>2, CheckOfOthers
  <2> QED BY <2>2, <2>3
<1>3. ASSUME NEW p \in Processes, DeleteServiceRows(p), NEW q \in Processes
      PROVE  CheckHolds(q)'
  <2>1. rows' \subseteq rows
    BY <1>3 DEF DeleteServiceRows
  <2>2. CASE q = p
    BY <1>3, <2>2 DEF DeleteServiceRows, End, CheckHolds, At, TypeOK
  <2>3. CASE q # p
    <3>1. cmd'[q] = cmd[q]
      BY <1>3, <2>3 DEF DeleteServiceRows, End, TypeOK
    <3>2. \A pc : ~ At(q, "start", pc)
      BY <1>3, Excluded DEF DeleteServiceRows
    <3> QED BY <1>1, <2>1, <3>1, <3>2, CheckOfOthers
  <2> QED BY <2>2, <2>3
<1>4. ASSUME NEW p \in Processes, PutExecution(p), NEW q \in Processes
      PROVE  CheckHolds(q)'
  <2> DEFINE s == cmd[p].of
  <2>1. rows' = rows \cup {ExecutionRow(s), Row(<<"input", "execution", "service">>, s)}
    BY <1>4 DEF PutExecution
  <2>2. CASE q = p
    <3>1. At(p, "start", "execution") /\ cmd' = [cmd EXCEPT ![p] = Command("start", s, "tasks", cmd[p].saw)]
      BY <1>4 DEF PutExecution, Goto, At
    <3>2. cmd'[p].op = "start" /\ cmd'[p].of = s /\ cmd'[p].pc = "tasks"
      BY <3>1 DEF Command, TypeOK
    <3>3. ServiceRow(s) \in rows
      BY <1>1, <3>1 DEF CheckHolds, Stages
    <3> QED BY <2>1, <2>2, <3>2, <3>3 DEF CheckHolds, At, Executed
  <2>3. CASE q # p
    <3>1. cmd'[q] = cmd[q]
      BY <1>4, <2>3 DEF PutExecution, Goto, TypeOK
    <3>2. ~ At(q, "delete", "rows")
      BY <1>4, Excluded DEF PutExecution
    <3>3. \A x \in Services : ServiceRow(x) \in rows' => ServiceRow(x) \in rows
      <4>1. \A x : /\ ServiceRow(x).path[1] = "service" /\ ExecutionRow(s).path[1] = "execution"
                   /\ Row(<<"input", "execution", "service">>, s).path[1] = "input"
        BY DEF ServiceRow, ExecutionRow, Row
      <4>2. \A x : ServiceRow(x) # Row(<<"input", "execution", "service">>, s)
                   /\ ServiceRow(x) # ExecutionRow(s)
        BY <4>1
      <4> QED BY <2>1, <4>2
    <3> QED BY <1>1, <2>1, <3>1, <3>2, <3>3, CheckOfOthers
  <2> QED BY <2>2, <2>3
<1>5. ASSUME \A p \in Processes : ~ PutService(p) /\ ~ DeleteServiceRows(p) /\ ~ PutExecution(p),
             NEW q \in Processes
      PROVE  CheckHolds(q)'
  <2>1. SameServices /\ SameExecutions
    BY <1>5, MostStepsLeaveThem
  <2>2. ASSUME cmd'[q] = cmd[q]
        PROVE  CheckHolds(q)'
    BY <1>1, <2>1, <2>2, CheckOfOthers DEF SameServices, SameExecutions
  <2>3. ASSUME NEW op, NEW x, NEW pc, NEW saw, BeginWith(q, op, x, pc, saw)
        PROVE  cmd'[q] = Command(op, x, pc, saw)
    BY <2>3 DEF BeginWith, TypeOK
  <2>4. ASSUME NEW pc, Goto(q, pc) \/ End(q)
        PROVE  cmd'[q] = Idle \/ (cmd'[q].op = cmd[q].op /\ cmd'[q].pc = pc /\ cmd'[q].of = cmd[q].of)
    BY <2>4 DEF Goto, End, Command, TypeOK
  <2>5. ASSUME NEW p \in Processes, p # q,
               \/ TemplateCommand(p) \/ ServiceCommand(p) \/ ExecutionCommand(p)
               \/ PluginCommand(p) \/ DefinitionCommand(p)
        PROVE  cmd'[q] = cmd[q]
    <3>1. \E ops : Acts(p, ops)
      BY <2>5, ActsOfCommands
    <3> QED BY <2>5, <3>1 DEF Acts, Becomes, TypeOK
  <2>6. ASSUME cmd'[q] = Idle \/ cmd'[q].op \notin {"drop", "delete", "start"}
        PROVE  CheckHolds(q)'
    BY <2>6 DEF CheckHolds, At
  <2>7. ASSUME TemplateCommand(q)
        PROVE  CheckHolds(q)'
    <3>1. ASSUME NEW t \in ServiceTemplates, DropTemplate(q, t)
          PROVE  CheckHolds(q)'
      <4>1. cmd'[q] = Command("drop", t, "delete", Nothing)
        BY <2>3, <3>1 DEF DropTemplate, Begin
      <4>2. rows' = rows /\ ServicesOf(t) = {}
        BY <3>1 DEF DropTemplate, database
      <4> QED BY <4>1, <4>2 DEF CheckHolds, At, Command, ServicesOf
    <3>2. ASSUME NEW t \in ServiceTemplates, StoreTemplate(q, t)
          PROVE  CheckHolds(q)'
      <4>1. cmd'[q] = Command("store", t, "put", Nothing)
        BY <2>3, <3>2 DEF StoreTemplate, Begin
      <4> QED BY <2>6, <4>1 DEF Command
    <3>3. ASSUME PutTemplate(q) \/ UploadTemplate(q) \/ DeleteFiles(q)
          PROVE  CheckHolds(q)'
      <4>1. cmd'[q] = Idle \/ cmd'[q].op = "store"
        BY <2>4, <3>3 DEF PutTemplate, UploadTemplate, DeleteFiles, At, End, TypeOK
      <4> QED BY <2>6, <4>1
    <3>4. ASSUME DeleteTemplate(q)
          PROVE  CheckHolds(q)'
      <4>1. cmd'[q].pc = "files" /\ cmd'[q].op = "drop"
        BY <3>4 DEF DeleteTemplate, Goto, At, Command, TypeOK
      <4> QED BY <4>1 DEF CheckHolds, At
    <3> QED BY <2>7, <3>1, <3>2, <3>3, <3>4 DEF TemplateCommand
  <2>8. ASSUME ServiceCommand(q)
        PROVE  CheckHolds(q)'
    <3>1. ASSUME NEW s \in Services, CreateService(q, s)
          PROVE  CheckHolds(q)'
      <4>1. \E saw : cmd'[q] = Command("create", s, "put", saw)
        BY <2>3, <3>1 DEF CreateService
      <4> QED BY <2>6, <4>1 DEF Command
    <3>2. ASSUME NEW s \in Services, NEW force \in BOOLEAN, DeleteService(q, s, force)
          PROVE  CheckHolds(q)'
      <4> DEFINE nodes == IF force THEN {} ELSE {NodeVersion(s)}
                 saw == [executed |-> Executed(s), nodes |-> nodes]
      <4>1. cmd'[q] = Command("delete", s, "rows", saw) /\ rows' = rows
        BY <2>3, <3>2 DEF DeleteService, database
      <4>2. saw.executed = Executed(s)
        OBVIOUS
      <4> HIDE DEF saw
      <4>3. /\ cmd'[q].op = "delete" /\ cmd'[q].of = s
            /\ cmd'[q].saw.executed = Executed(s)
        BY <4>1, <4>2 DEF Command
      <4>4. Executed(s)' = Executed(s)
        BY <4>1 DEF Executed
      <4>5. Executed(cmd[q].of)' = Executed(s)'
        BY <4>3 DEF Executed
      <4> QED BY <4>3, <4>4, <4>5 DEF CheckHolds, At
    <3> QED BY <1>5, <2>8, <3>1, <3>2 DEF ServiceCommand
  <2>9. ASSUME ExecutionCommand(q)
        PROVE  CheckHolds(q)'
    <3>1. ASSUME NEW s \in Services, StartExecution(q, s)
          PROVE  CheckHolds(q)'
      <4>1. cmd'[q] = Command("start", s, "execution", Nothing)
        BY <2>3, <3>1 DEF StartExecution, Begin
      <4>2. rows' = rows /\ ServiceRow(s) \in rows
        BY <3>1 DEF StartExecution, database
      <4> QED BY <4>1, <4>2 DEF CheckHolds, At, Command
    <3>2. ASSUME NEW s \in Services, DeleteLogs(q, s)
          PROVE  CheckHolds(q)'
      <4>1. cmd'[q] = cmd[q]
        BY <3>2 DEF DeleteLogs
      <4> QED BY <2>2, <4>1
    <3>3. ASSUME PutTasks(q) \/ RunTasks(q)
          PROVE  CheckHolds(q)'
      <4>1. PICK pc \in Stages : At(q, "start", pc)
        BY <3>3 DEF PutTasks, RunTasks, Stages
      <4>2. /\ cmd'[q].op = "start" /\ cmd'[q].pc \in {"run", "end"} /\ cmd'[q].of = cmd[q].of
        BY <3>3 DEF PutTasks, RunTasks, Goto, At, Command, TypeOK
      <4>3. cmd[q].of \in Services
        BY <4>1, InFlightTypes
      <4>4. ServiceRow(cmd[q].of) \in rows'
        BY <1>1, <2>1, <4>1, <4>3 DEF CheckHolds, SameServices
      <4> QED BY <4>2, <4>4 DEF CheckHolds, At
    <3>4. ASSUME EndExecution(q)
          PROVE  CheckHolds(q)'
      <4>1. cmd'[q] = Idle
        BY <3>4 DEF EndExecution, End, TypeOK
      <4> QED BY <2>6, <4>1
    <3> QED BY <1>5, <2>9, <3>1, <3>2, <3>3, <3>4 DEF ExecutionCommand
  <2>10. ASSUME PluginCommand(q) \/ DefinitionCommand(q)
         PROVE  CheckHolds(q)'
    <3>1. Acts(q, {"install"}) \/ Acts(q, {"load", "undefine"})
      BY <2>10, ActsOfCommands
    <3>2. cmd'[q] = Idle \/ cmd'[q].op \in {"install", "load", "undefine"}
      BY <3>1 DEF Acts, Becomes, TypeOK
    <3> QED BY <2>6, <3>2
  <2>11. ASSUME NEW p \in Processes, Crash(p)
         PROVE  CheckHolds(q)'
    <3>1. cmd'[q] = Idle \/ cmd'[q] = cmd[q]
      BY <2>11 DEF Crash, TypeOK
    <3> QED BY <2>2, <2>6, <3>1
  <2>12. ASSUME UNCHANGED vars
         PROVE  CheckHolds(q)'
    <3>1. cmd'[q] = cmd[q]
      BY <2>12 DEF vars
    <3> QED BY <2>2, <3>1
  <2> QED BY <2>2, <2>5, <2>7, <2>8, <2>9, <2>10, <2>11, <2>12 DEF Next
<1> QED BY <1>2, <1>3, <1>4, <1>5

(* With the command of the start of what is left, everything is in place.  *)
LEMMA OwnersPresent == OwnersArePresent <=> raced \/ OwnersIn(rows)
BY OwnersInRows DEF OwnersArePresent

(* The two parts of the invariant that depend on each other, together.     *)
LEMMA StepsKeepOwnersAndChecks ==
  ASSUME TypeOK, TypeOK', Exclusive, [Next]_vars, OwnersArePresent, ChecksHold
  PROVE  OwnersArePresent' /\ ChecksHold'
<1> SUFFICES ASSUME ~ raced' PROVE OwnersArePresent' /\ ChecksHold'
  BY DEF OwnersArePresent, ChecksHold
<1>1. ~ raced
  BY StepsRemember
<1>2. OwnersIn(rows)
  BY <1>1, OwnersPresent
<1>3. OwnersIn(rows')
  BY <1>1, <1>2, StepsKeepOwners
<1>4. OwnersArePresent'
  BY <1>3, OwnersInRows DEF OwnersArePresent
<1> QED BY <1>1, <1>2, <1>4, StepsKeepChecks DEF ChecksHold

-----------------------------------------------------------------------------
(* What rows refer to.                                                     *)

(* One more level of chains makes them longer by one table.                *)
LEMMA LongerByOne ==
  ASSUME NEW tables \in SUBSET Tables, NEW n \in Nat, NEW paths,
         \A path \in paths : IsPath(path) /\ Len(path) <= n
  PROVE  \A path \in Longer(paths, tables) : IsPath(path) /\ Len(path) <= n + 1
<1>1. ASSUME NEW owner \in paths, NEW child \in tables
      PROVE  IsPath(<<child>> \o owner) /\ Len(<<child>> \o owner) <= n + 1
  <2> DEFINE path == <<child>> \o owner
  <2>1. Len(path) = Len(owner) + 1 /\ IsPath(path)
    BY Prefixed
  <2>2. Len(owner) \in Nat /\ Len(owner) <= n
    BY DEF IsPath
  <2> HIDE DEF path
  <2>3. Len(path) <= n + 1
    BY <2>1, <2>2
  <2> QED BY <2>1, <2>3 DEF path
<1>2. ASSUME NEW path \in paths
      PROVE  IsPath(path) /\ Len(path) <= n + 1
  <2>1. Len(path) \in Nat /\ Len(path) <= n
    BY DEF IsPath
  <2> QED BY <2>1
<1>3. \A path \in Longer(paths, tables) :
         path \in paths \/ \E owner \in paths, child \in tables : path = <<child>> \o owner
  BY DEF Longer
<1> QED BY <1>1, <1>2, <1>3

(* No chain of a template has more than six tables.                        *)
LEMMA ChainsAreShort == \A path \in TemplatePaths : Len(path) \in 1 .. 6
<1> SUFFICES ASSUME NEW root \in TemplateRoots, NEW path \in PathsFrom(<<root>>, TemplateTables)
             PROVE  Len(path) \in 1 .. 6
  BY DEF TemplatePaths, TemplateRoots
<1> DEFINE longer(paths) == Longer(paths, TemplateTables)
           Short(paths, n) == \A p \in paths : IsPath(p) /\ Len(p) <= n
           P1 == longer({<<root>>})
           P2 == longer(P1)
           P3 == longer(P2)
           P4 == longer(P3)
           P5 == longer(P4)
<1>1. \A n \in Nat : \A paths : Short(paths, n) => Short(longer(paths), n + 1)
  BY LongerByOne, TablesOfPaths
<1>2. Short({<<root>>}, 1)
  <2>1. root \in Tables
    BY TablesOfPaths DEF TemplateRoots
  <2>2. <<root>> \in Seq(Tables)
    BY <2>1
  <2>3. Len(<<root>>) = 1
    OBVIOUS
  <2>4. <<root>> # <<>>
    OBVIOUS
  <2>5. IsPath(<<root>>)
    BY <2>2, <2>4 DEF IsPath
  <2>6. \A n : n = 1 => n <= 1
    OBVIOUS
  <2>7. Len(<<root>>) <= 1
    BY <2>3, <2>6, Zenon
  <2> QED BY <2>5, <2>7, Zenon DEF Short
<1>3. PathsFrom(<<root>>, TemplateTables) = P5
  BY DEF PathsFrom
<1> HIDE DEF Short, longer
<1>4. Short(P1, 2)
  BY <1>1, <1>2
<1>5. Short(P2, 3)
  BY <1>1, <1>4
<1>6. Short(P3, 4)
  BY <1>1, <1>5
<1>7. Short(P4, 5)
  BY <1>1, <1>6
<1>8. Short(P5, 6)
  BY <1>1, <1>7
<1>9. path \in P5
  BY <1>3
<1> HIDE DEF P5
<1>10. IsPath(path) /\ Len(path) <= 6
  BY <1>8, <1>9 DEF Short
<1>11. Len(path) \in Nat /\ Len(path) # 0
  BY <1>10 DEF IsPath
<1>12. \A n \in Nat : n # 0 /\ n <= 6 => n \in 1 .. 6
  OBVIOUS
<1> QED BY <1>10, <1>11, <1>12, Zenon

(* The rows that deletions take along are under templates and services.    *)
LEMMA WatchedRows ==
  /\ \A t \in ServiceTemplates : TemplateRow(t) \in Watched
  /\ \A row \in Watched :
        /\ row \in AllRows
        /\ row.path \in TemplatePaths => RootOf(row.path) = "service_template"
        /\ row.path \in ServicePaths => RootOf(row.path) = "service"
<1>1. {"substitution_template", "relationship_template", "type"} \subseteq Kept
  <2>1. ASSUME NEW table \in {"substitution_template", "relationship_template", "type"},
               NEW parent \in Tables, table \in Models[parent].owns
        PROVE  FALSE
    <3>1. table \in DOMAIN OwnersOf /\ OwnersOf[table] = {}
      BY DEF OwnersOf
    <3> QED BY <2>1, <3>1, FewOwners
  <2> QED BY <2>1, TablesOfPaths DEF Kept, Unowned
<1>2. "substitution" \in Kept /\ "service_template" \notin Kept
  BY DEF Kept
<1>3. \A path \in TemplatePaths : RootOf(path) \in TemplateRoots
  BY FamiliesOfPaths DEF IsChain, RootOf
<1>4. \A path \in ServicePaths : RootOf(path) \in {"service", "substitution"}
  BY FamiliesOfPaths DEF IsChain, RootOf, ServicePaths
<1>5. \A row \in Watched : row \in AllRows /\ RootOf(row.path) \notin Kept
  BY DEF Watched, RootOf
<1>6. \A t \in ServiceTemplates : TemplateRow(t) \in Watched
  <2>1. \A t : TemplateRow(t).path = <<"service_template">>
    BY DEF TemplateRow, Row
  <2>2. Len(<<"service_template">>) = 1 /\ <<"service_template">>[1] = "service_template"
    OBVIOUS
  <2> QED BY <1>2, <2>1, <2>2, RootRows DEF Watched
<1> QED BY <1>1, <1>2, <1>3, <1>4, <1>5, <1>6 DEF TemplateRoots

(* Where the rows of each family are.                                      *)
LEMMA RowsOfFamilies ==
  /\ \A t : \A row \in TemplateRows(t) : /\ row.path \in TemplatePaths /\ row.of = t
                                         /\ row = Row(row.path, t)
  /\ \A s : \A row \in InstanceRows(s) : /\ row.path \in InstancePaths /\ row.of = s
                                         /\ row.path \in ServicePaths
  /\ \A t : \A path \in TemplatePaths : Row(path, t) \in TemplateRows(t)
  /\ \A s : \A path \in InstancePaths : Row(path, s) \in InstanceRows(s)
  /\ \A path, x : Row(path, x).path = path /\ Row(path, x).of = x
BY DEF TemplateRows, InstanceRows, ServicePaths, Row

(* A row of a template is owned by the row its path names as its owner.    *)
LEMMA OwnersOwnTemplates ==
  ASSUME NEW t \in ServiceTemplates, NEW row \in TemplateRows(t), Len(row.path) > 1
  PROVE  /\ RowOfOwner(row) \in TemplateRows(t) /\ row \in Owned[RowOfOwner(row)]
         /\ RowOfOwner(row).path = Tail(row.path)
<1> DEFINE owner == RowOfOwner(row)
           path == row.path
<1>1. path \in TemplatePaths /\ row.of = t /\ row \in AllRows
  BY RowsOfFamilies, KindsOfRows
<1>2. IsOwned(path, TemplatePaths, TemplateTables)
  <2>1. \A root : Len(<<root>>) = 1
    OBVIOUS
  <2>2. \A root : path # <<root>>
    <3> SUFFICES ASSUME NEW root, path = <<root>> PROVE FALSE
      OBVIOUS
    <3>1. Len(path) = 1
      BY <2>1
    <3> QED BY <3>1
  <2> QED BY <1>1, <2>2, TemplatePathsAreOwned
<1>3. /\ Tail(path) \in TemplatePaths /\ path[1] \in Models[path[2]].owns
      /\ Tail(path)[1] = path[2] /\ IsPath(path) /\ IsPath(Tail(path))
  BY <1>1, <1>2, TemplatePathsAreOwned DEF IsOwned
<1>4. /\ owner.path = Tail(path) /\ owner.of = t /\ owner = Row(Tail(path), t)
      /\ owner \in TemplateRows(t) /\ owner \in AllRows
  BY <1>1, <1>3, RowsOfFamilies, KindsOfRows DEF RowOfOwner
<1>5. path[2] \in Tables
  BY <1>3 DEF IsPath
<1>6. PICK key \in OwningKeys(path[1], path[2]) : key \notin EndKeys /\ key \in Keys(path[1])
  BY <1>3, <1>5, OwningKeysExist
<1>7. KeyPath(path, key) = Tail(path)
  BY <1>6 DEF KeyPath
<1>8. key \in SetKeys(row)
  BY <1>3, <1>6, <1>7 DEF SetKeys, Null, IsPath
<1>9. KeyRow(row, key, owner.of) = owner
  BY <1>1, <1>4, <1>6, <1>7 DEF KeyRow
<1> HIDE DEF owner
<1>10. /\ row.path[1] \in Models[owner.path[1]].owns
       /\ key \in (OwningKeys(row.path[1], owner.path[1]) \cap SetKeys(row)) \ EndKeys
  BY <1>3, <1>4, <1>6, <1>8
<1>11. row \in Owned[owner]
  BY <1>1, <1>4, <1>9, <1>10 DEF Owned
<1> QED BY <1>4, <1>11 DEF owner

(* The deletion of a template takes all the rows under its own: level by   *)
(* level, those whose path is one table longer.                            *)
LEMMA TemplateDeletionsAreComplete ==
  ASSUME NEW t \in ServiceTemplates, NEW present, RowsUnder(t) \subseteq present, NEW ends
  PROVE  RowsUnder(t) \subseteq Cascade({TemplateRow(t)}, present, ends)
<1>1. PICK taken : /\ taken[0] = {TemplateRow(t)}
                   /\ \A n \in 0 .. 5 : taken[n + 1] = Further(taken[n], present, ends)
                   /\ Cascade({TemplateRow(t)}, present, ends) = taken[6]
  BY CascadeSteps
<1> DEFINE Reached(n) == \A row \in RowsUnder(t) : Len(row.path) <= n + 1 => row \in taken[n]
<1>2. \A row \in RowsUnder(t) : /\ row \in TemplateRows(t) /\ row.path \in TemplatePaths
                                /\ IsPath(row.path) /\ Len(row.path) \in 1 .. 6
                                /\ RootOf(row.path) = "service_template"
                                /\ row = Row(row.path, t)
  BY RowsOfFamilies, TemplatePathsAreOwned, ChainsAreShort DEF RowsUnder
<1>3. Reached(0)
  <2> SUFFICES ASSUME NEW row \in RowsUnder(t), Len(row.path) <= 0 + 1
               PROVE  row \in taken[0]
    OBVIOUS
  <2>1. Len(row.path) = 1
    <3>1. \A n \in 1 .. 6 : n <= 0 + 1 => n = 1
      OBVIOUS
    <3> QED BY <1>2, <3>1, Zenon
  <2>2. row.path[1] = "service_template"
    BY <1>2, <2>1 DEF RootOf
  <2>3. row.path \in Seq(Tables) /\ <<"service_template">> \in Seq(Tables)
    BY <1>2, TablesOfPaths DEF IsPath
  <2>4. row.path = <<"service_template">>
    <3>1. \A q \in Seq(Tables) : Len(q) = 1 => q = <<q[1]>>
      OBVIOUS
    <3> QED BY <2>1, <2>2, <2>3, <3>1
  <2> QED BY <1>1, <1>2, <2>4 DEF TemplateRow
<1>4. ASSUME NEW n \in 0 .. 5, Reached(n)
      PROVE  Reached(n + 1)
  <2> SUFFICES ASSUME NEW row \in RowsUnder(t), Len(row.path) <= (n + 1) + 1
               PROVE  row \in taken[n + 1]
    OBVIOUS
  <2>1. taken[n + 1] = Further(taken[n], present, ends)
    BY <1>1
  <2>2. CASE Len(row.path) <= n + 1
    BY <1>4, <2>1, <2>2 DEF Further
  <2>3. CASE ~ (Len(row.path) <= n + 1)
    <3>1. Len(row.path) > 1 /\ Len(row.path) \in Nat
      BY <1>2, <2>3
    <3>2. /\ RowOfOwner(row) \in TemplateRows(t) /\ row \in Owned[RowOfOwner(row)]
          /\ RowOfOwner(row).path = Tail(row.path)
      BY <1>2, <3>1, OwnersOwnTemplates
    <3>3. RootOf(Tail(row.path)) = "service_template" /\ Len(Tail(row.path)) = Len(row.path) - 1
      BY <1>2, <3>1, RootOfTail
    <3>4. RowOfOwner(row) \in RowsUnder(t)
      BY <3>2, <3>3 DEF RowsUnder
    <3>5. Len(RowOfOwner(row).path) <= n + 1
      BY <3>1, <3>2, <3>3
    <3>6. RowOfOwner(row) \in taken[n]
      BY <1>4, <3>4, <3>5
    <3> QED BY <2>1, <3>2, <3>6 DEF Further
  <2> QED BY <2>2, <2>3
<1>5. Reached(6)
  <2>1. \A n \in 0 .. 5 : Reached(n) => Reached(n + 1)
    BY <1>4
  <2> HIDE DEF Reached
  <2>2. Reached(0 + 1)
    BY <1>3, <2>1
  <2>3. Reached(1 + 1)
    BY <2>1, <2>2
  <2>4. Reached(2 + 1)
    BY <2>1, <2>3
  <2>5. Reached(3 + 1)
    BY <2>1, <2>4
  <2>6. Reached(4 + 1)
    BY <2>1, <2>5
  <2>7. Reached(5 + 1)
    BY <2>1, <2>6
  <2> QED BY <2>7
<1>6. \A row \in RowsUnder(t) : row \in taken[6]
  <2>1. \A row \in RowsUnder(t) : Len(row.path) <= 6 + 1
    <3>1. \A n \in 1 .. 6 : n <= 6 + 1
      OBVIOUS
    <3> QED BY <1>2, <3>1, Zenon
  <2> QED BY <1>5, <2>1
<1> QED BY <1>1, <1>6

(* Relationships begin in a node of their own service, and end in the node *)
(* and the capability of another or of the same.                           *)
LEMMA RelationshipRows ==
  ASSUME NEW row \in Relationships
  PROVE  /\ row \in AllRows /\ row.path = <<"relationship", "node", "service">>
         /\ row.path \in ServicePaths /\ row.of \in Services
         /\ HasRelationship(row.path) /\ RootOf(row.path) = "service"
         /\ \A service \in Services : NodeRow(service) \in Ends[row][service]
<1>1. row \in AllRows /\ row.path[1] = "relationship"
  BY DEF Relationships
<1>2. row.path \in ServicePaths /\ row.of \in Services
  <2>1. "relationship" \notin TemplateHeads
    BY DEF TemplateHeads, TemplateTables, TemplateRoots, Parameters
  <2> QED BY <1>1, <2>1, Heads, FamiliesOfRows
<1>3. row.path = <<"relationship", "node", "service">>
  BY <1>1, <1>2, KnownPaths
<1>4. /\ Len(row.path) = 3 /\ row.path[2] = "node" /\ row.path[3] = "service"
      /\ Tail(row.path) = <<"node", "service">> /\ 1 \in DOMAIN row.path
  BY <1>3
<1>5. HasRelationship(row.path) /\ RootOf(row.path) = "service"
  BY <1>1, <1>4 DEF HasRelationship, RootOf
<1>6. KeyPath(row.path, "target_node") = <<"node", "service">> /\ "target_node" \in Keys("relationship")
  <2>1. Keys("relationship") = {"source_node", "target_node", "type", "target_capability",
                                "requirement_template", "relationship_template"}
    BY DEF Keys, Models, Relationship, Table
  <2>2. "target_node" \in OwningKeys("relationship", "node")
    BY <2>1 DEF OwningKeys, RefersTo, KeyTable
  <2>3. KeyPath(row.path, "target_node") = Tail(row.path)
    BY <1>1, <1>4, <2>2 DEF KeyPath
  <2> QED BY <1>4, <2>1, <2>3
<1>7. ASSUME NEW service \in Services
      PROVE  NodeRow(service) \in Ends[row][service]
  <2>1. "target_node" \in SetKeys(row) \cap EndKeys
    <3>1. <<"node", "service">> # <<>>
      OBVIOUS
    <3> QED BY <1>1, <1>6, <3>1 DEF SetKeys, Null, EndKeys
  <2>2. KeyPath(row.path, "target_node") \notin TemplatePaths
    <3>1. <<"node", "service">>[1] = "node"
      OBVIOUS
    <3>2. "node" \notin TemplateHeads
      BY DEF TemplateHeads, TemplateTables, TemplateRoots, Parameters
    <3> QED BY <1>6, <3>1, <3>2, Heads
  <2>3. KeyRow(row, "target_node", service) = NodeRow(service)
    BY <1>1, <1>6, <2>2 DEF KeyRow, NodeRow, EndKeys
  <2>4. Ends[row][service] = {KeyRow(row, key, service) : key \in SetKeys(row) \cap EndKeys}
    BY <1>1 DEF Ends
  <2> QED BY <2>1, <2>3, <2>4
<1> QED BY <1>1, <1>2, <1>3, <1>5, <1>7

(* What a service has when it is whole.                                    *)
LEMMA PlainRows ==
  /\ \A s : ServiceRow(s) \in InstanceRows(s) /\ NodeRow(s) \in InstanceRows(s)
  /\ ~ HasRelationship(<<"service">>) /\ ~ HasRelationship(<<"node", "service">>)
  /\ \A s : ServiceRow(s).path = <<"service">> /\ NodeRow(s).path = <<"node", "service">>
  /\ \A s \in Services : NodeRow(s) \in Owned[ServiceRow(s)]
<1>1. <<"service">> \in InstancePaths /\ <<"node", "service">> \in InstancePaths
  <2>1. <<"node">> \o <<"service">> = <<"node", "service">>
    BY TablesOfPaths, PrefixesWrittenOut DEF InstanceTables
  <2>2. "node" \in Models[<<"service">>[1]].owns \cap InstanceTables
    BY DEF Models, Service, ServiceOwns, Table, InstanceTables
  <2> DEFINE longer(paths) == Longer(paths, InstanceTables)
  <2>3. <<"node", "service">> \in longer({<<"service">>})
    BY <2>1, <2>2 DEF Longer
  <2>4. \A paths : paths \subseteq longer(paths)
    BY DEF Longer
  <2>5. PathsFrom(<<"service">>, InstanceTables) =
          longer(longer(longer(longer(longer({<<"service">>})))))
    BY DEF PathsFrom
  <2> HIDE DEF longer
  <2>6. <<"node", "service">> \in PathsFrom(<<"service">>, InstanceTables)
    BY <2>3, <2>4, <2>5
  <2> QED BY <2>6, FamiliesOfPaths DEF InstancePaths
<1>2. \A s : ServiceRow(s).path = <<"service">> /\ NodeRow(s).path = <<"node", "service">>
             /\ ServiceRow(s).of = s /\ NodeRow(s).of = s
  BY DEF ServiceRow, NodeRow, Row
<1>3. \A s : ServiceRow(s) \in InstanceRows(s) /\ NodeRow(s) \in InstanceRows(s)
  BY <1>1 DEF ServiceRow, NodeRow, InstanceRows
<1>4. ~ HasRelationship(<<"service">>) /\ ~ HasRelationship(<<"node", "service">>)
  <2>1. \A i \in DOMAIN <<"service">> : <<"service">>[i] = "service"
    OBVIOUS
  <2>2. \A i \in DOMAIN <<"node", "service">> : <<"node", "service">>[i] \in {"node", "service"}
    OBVIOUS
  <2> QED BY <2>1, <2>2 DEF HasRelationship
<1>5. ASSUME NEW s \in Services
      PROVE  NodeRow(s) \in Owned[ServiceRow(s)]
  <2>1. NodeRow(s) \in AllRows /\ ServiceRow(s) \in AllRows
    BY <1>3, KindsOfRows
  <2>2. NodeRow(s).path \in ServicePaths
    BY <1>1, <1>2 DEF ServicePaths
  <2>3. Len(NodeRow(s).path) > 1 /\ Tail(NodeRow(s).path) = <<"service">>
    <3>1. Len(<<"node", "service">>) > 1 /\ Tail(<<"node", "service">>) = <<"service">>
      OBVIOUS
    <3> QED BY <1>2, <3>1
  <2>4. RowOfOwner(NodeRow(s)) = ServiceRow(s)
    BY <1>2, <2>3 DEF RowOfOwner, ServiceRow
  <2> QED BY <2>1, <2>2, <2>3, <2>4, OwnersOwn
<1> QED BY <1>2, <1>3, <1>4, <1>5

-----------------------------------------------------------------------------
(* Steps keep what rows refer to.                                          *)
Whole == TemplatesAreWhole /\ ServicesAreWhole /\ EndsArePresent /\ ExecutionsArePresent

(* Which of the rows that Whole names belong to which family.              *)
LEMMA PlacesOfRows ==
  /\ \A t : \A row \in TemplateRows(t) : /\ row.path \in TemplatePaths /\ row.of = t
                                         /\ row.path \notin ServicePaths
  /\ \A t : TemplateRow(t) \in TemplateRows(t)
  /\ \A s : \A row \in InstanceRows(s) : /\ row.path \in InstancePaths /\ row.of = s
                                         /\ row.path \notin TemplatePaths
  /\ \A s : ServiceRow(s) \in InstanceRows(s)
  /\ \A s : \A row \in ExecutionRows(s) : /\ row.path \in ExecutionPaths /\ row.of = s
                                          /\ row.path \notin TemplatePaths \cup InstancePaths
  /\ \A s : ExecutionRow(s).path = <<"execution", "service">> /\ ExecutionRow(s).of = s
  /\ \A d : DefinitionRow(d).path \notin Paths /\ DefinitionRow(d).path = <<"type_definition">>
  /\ \A row \in Relationships : row.of \in Services /\ row \in InstanceRows(row.of)
<1>1. \A s : ExecutionRow(s).path = <<"execution", "service">> /\ ExecutionRow(s).of = s
  BY DEF ExecutionRow, Row
<1>2. \A d : DefinitionRow(d).path \notin Paths /\ DefinitionRow(d).path = <<"type_definition">>
  BY PathFacts DEF DefinitionRow, Row
<1>3. \A s : \A row \in ExecutionRows(s) : /\ row.path \in ExecutionPaths /\ row.of = s
                                           /\ row.path \notin TemplatePaths \cup InstancePaths
  BY ExecutionsAreElsewhere DEF ExecutionRows, Row
<1>4. ASSUME NEW row \in Relationships
      PROVE  row.of \in Services /\ row \in InstanceRows(row.of)
  <2>1. row \in AllRows /\ row.path \in ServicePaths /\ row.of \in Services
    BY RelationshipRows
  <2>2. row.path \in InstancePaths
    BY RelationshipRows, TasksOfRelationships
  <2>3. row = Row(row.path, row.of)
    BY <2>1, FamiliesOfRows, FamiliesAreApart
  <2> QED BY <2>1, <2>2, <2>3, RowsOfFamilies
<1>5. \A t : \A row \in TemplateRows(t) : /\ row.path \in TemplatePaths /\ row.of = t
                                          /\ row.path \notin ServicePaths
  BY RowsOfFamilies, FamiliesAreApart
<1>6. \A s : \A row \in InstanceRows(s) : /\ row.path \in InstancePaths /\ row.of = s
                                          /\ row.path \notin TemplatePaths
  BY RowsOfFamilies, FamiliesAreApart
<1>7. \A t : TemplateRow(t) \in TemplateRows(t)
  BY FamiliesOfPaths DEF TemplateRow, TemplateRows
<1> QED BY <1>1, <1>2, <1>3, <1>4, <1>5, <1>6, <1>7, PlainRows

(* A step that leaves the rows of templates and of services alone, and no  *)
(* row of an execution without the execution.                              *)
LEMMA WholeIsKept ==
  ASSUME Whole, target' = target,
         \A row \in rows \ rows' : /\ row.path \notin TemplatePaths \cup InstancePaths
                                   /\ \A s : row # ExecutionRow(s),
         \A row \in rows' \ rows :
            /\ row.path \notin TemplatePaths \cup InstancePaths
            /\ \A s \in Services : row \in ExecutionRows(s) => ExecutionRow(s) \in rows'
  PROVE  Whole'
<1>1. \A row : row.path \in TemplatePaths \cup InstancePaths => (row \in rows' <=> row \in rows)
  OBVIOUS
<1>2. \A t : \A row \in TemplateRows(t) : row \in rows' <=> row \in rows
  BY <1>1, PlacesOfRows
<1>3. \A s : \A row \in InstanceRows(s) : row \in rows' <=> row \in rows
  BY <1>1, PlacesOfRows
<1>4. TemplatesAreWhole'
  BY <1>2 DEF Whole, TemplatesAreWhole
<1>5. ServicesAreWhole'
  BY <1>2, <1>3, PlacesOfRows DEF Whole, ServicesAreWhole
<1>6. EndsArePresent'
  BY <1>3, PlacesOfRows DEF Whole, EndsArePresent
<1>7. ExecutionsArePresent'
  <2> SUFFICES ASSUME NEW s \in Services, NEW row \in rows' \cap ExecutionRows(s)
               PROVE  ExecutionRow(s) \in rows'
    BY DEF ExecutionsArePresent
  <2> QED BY DEF Whole, ExecutionsArePresent
<1> QED BY <1>4, <1>5, <1>6, <1>7 DEF Whole

(* Storing a template adds all its rows, or none.                          *)
LEMMA PutTemplateKeepsWhole ==
  ASSUME TypeOK, Whole, NEW p \in Processes, PutTemplate(p)
  PROVE  Whole'
<1> DEFINE t == cmd[p].of
<1>1. target' = target
  BY DEF PutTemplate
<1>2. CASE rows' = rows
  BY <1>1, <1>2, WholeIsKept
<1>3. CASE rows' = rows \cup TemplateRows(t)
  <2>1. t \in ServiceTemplates
    BY InFlightTypes DEF PutTemplate
  <2> HIDE DEF t
  <2>2. \A s : \A row \in InstanceRows(s) : row \in rows' <=> row \in rows
    BY <1>3, PlacesOfRows DEF ServicePaths
  <2>3. \A s : rows' \cap ExecutionRows(s) = rows \cap ExecutionRows(s)
    BY <1>3, <2>1, PlacesOfRows
  <2>4. TemplatesAreWhole'
    <3> SUFFICES ASSUME NEW u \in ServiceTemplates, NEW row \in rows' \cap Watched \cap TemplateRows(u)
                 PROVE  TemplateRows(u) \subseteq rows'
      BY DEF TemplatesAreWhole
    <3>1. CASE u = t
      BY <1>3, <3>1
    <3>2. CASE u # t
      <4>1. row \in rows
        BY <1>3, <3>2, PlacesOfRows
      <4> QED BY <1>3, <4>1 DEF Whole, TemplatesAreWhole
    <3> QED BY <3>1, <3>2
  <2>5. ServicesAreWhole'
    BY <1>3, <2>2, PlacesOfRows DEF Whole, ServicesAreWhole
  <2>6. EndsArePresent'
    BY <1>1, <1>3, <2>2, PlacesOfRows DEF Whole, EndsArePresent
  <2>7. ExecutionsArePresent'
    BY <1>3, <2>3 DEF Whole, ExecutionsArePresent
  <2> QED BY <2>4, <2>5, <2>6, <2>7 DEF Whole
<1> QED BY <1>2, <1>3 DEF PutTemplate

(* Deleting a template takes all the rows under its own: where one of them *)
(* was there, all were.                                                    *)
LEMMA DeleteTemplateKeepsWhole ==
  ASSUME TypeOK, OwnersIn(rows), Whole, NEW p \in Processes, DeleteTemplate(p), CheckHolds(p)
  PROVE  Whole'
<1> DEFINE t == cmd[p].of
           taken == Cascade({TemplateRow(t)}, rows, target)
<1>1. t \in ServiceTemplates
  BY InFlightTypes DEF DeleteTemplate
<1>2. ServicesOf(t) = {}
  BY DEF CheckHolds, DeleteTemplate
<1>3. \A s \in Services : TemplateOf[s] = t => ServiceRow(s) \notin rows
  BY <1>2 DEF ServicesOf
<1>4. taken \subseteq RowsUnder(t)
  BY <1>1, <1>3, TemplateDeletionsReach DEF TypeOK
<1>5. RowsUnder(t) \subseteq rows => RowsUnder(t) \subseteq taken
  BY <1>1, TemplateDeletionsAreComplete
<1>6. rows' = rows \ taken /\ target' = target
  <2>1. rows \ {ServiceRow(s) : s \in ServicesOf(t)} = rows
    BY <1>2
  <2> QED BY <2>1 DEF DeleteTemplate
<1> HIDE DEF taken, t
<1>7. RowsUnder(t) \subseteq TemplateRows(t)
  BY DEF RowsUnder
<1>8. \A u : u # t => TemplateRows(u) \cap taken = {}
  BY <1>4, <1>7, PlacesOfRows
<1>9. \A s : InstanceRows(s) \cap taken = {}
  BY <1>4, <1>7, PlacesOfRows DEF ServicePaths
<1>10. \A s : ExecutionRows(s) \cap taken = {}
  BY <1>1, <1>4, <1>7, PlacesOfRows
<1>11. TemplatesAreWhole'
  <2> SUFFICES ASSUME NEW u \in ServiceTemplates, NEW row \in rows' \cap Watched \cap TemplateRows(u)
               PROVE  TemplateRows(u) \subseteq rows'
    BY DEF TemplatesAreWhole
  <2>1. TemplateRows(u) \subseteq rows
    BY <1>6 DEF Whole, TemplatesAreWhole
  <2>2. CASE u # t
    BY <1>6, <1>8, <2>1, <2>2
  <2>3. CASE u = t
    <3>1. row \in RowsUnder(t)
      BY <2>3, WatchedRows, PlacesOfRows DEF RowsUnder
    <3> QED BY <1>5, <1>6, <1>7, <2>1, <2>3, <3>1
  <2> QED BY <2>2, <2>3
<1>12. ServicesAreWhole'
  <2> SUFFICES ASSUME NEW s \in Services, ServiceRow(s) \in rows'
               PROVE  /\ TemplateRow(TemplateOf[s]) \in rows'
                      /\ \A row \in InstanceRows(s) : HasRelationship(row.path) \/ row \in rows'
    BY DEF ServicesAreWhole
  <2>1. /\ TemplateRow(TemplateOf[s]) \in rows
        /\ \A row \in InstanceRows(s) : HasRelationship(row.path) \/ row \in rows
    BY <1>6 DEF Whole, ServicesAreWhole
  <2>2. TemplateOf[s] # t
    BY <1>3, <1>6
  <2>3. TemplateRow(TemplateOf[s]) \notin taken
    BY <1>8, <2>2, PlacesOfRows
  <2> QED BY <1>6, <1>9, <2>1, <2>3
<1>13. EndsArePresent'
  BY <1>6, <1>9, PlacesOfRows DEF Whole, EndsArePresent
<1>14. ExecutionsArePresent'
  BY <1>6, <1>10, ExecutionRowsExist DEF Whole, ExecutionsArePresent
<1> QED BY <1>11, <1>12, <1>13, <1>14 DEF Whole

(* Creating a service adds all its rows, of a template that is there; what *)
(* its relationships end in was there when it began, and still is.         *)
LEMMA PutServiceKeepsWhole ==
  ASSUME TypeOK, Whole, CreationsHold, NEW p \in Processes, PutService(p)
  PROVE  Whole'
<1> DEFINE s == cmd[p].of
<1>1. s \in Services /\ cmd[p].saw.nodes \subseteq Services
  BY InFlightTypes DEF PutService
<1>2. CASE rows' = rows /\ target' = target
  BY <1>2, WholeIsKept
<1>3. CASE rows' = rows \cup InstanceRows(s)
           /\ \E found \in cmd[p].saw.nodes : target' = [target EXCEPT ![s] = found]
  <2>1. PICK found \in cmd[p].saw.nodes : target' = [target EXCEPT ![s] = found]
    BY <1>3
  <2>2. /\ TemplateRow(TemplateOf[s]) \in rows
        /\ found = s \/ ServiceRow(found) \in rows
    BY DEF PutService, CreationsHold
  <2> HIDE DEF s
  <2>3. TemplatesAreWhole'
    <3>1. \A t : \A row \in TemplateRows(t) : row \in rows' <=> row \in rows
      BY <1>3, PlacesOfRows
    <3> QED BY <3>1 DEF Whole, TemplatesAreWhole
  <2>4. ServicesAreWhole'
    <3> SUFFICES ASSUME NEW x \in Services, ServiceRow(x) \in rows'
                 PROVE  /\ TemplateRow(TemplateOf[x]) \in rows'
                        /\ \A row \in InstanceRows(x) : HasRelationship(row.path) \/ row \in rows'
      BY DEF ServicesAreWhole
    <3>1. CASE x = s
      BY <1>3, <2>2, <3>1
    <3>2. CASE x # s
      <4>1. ServiceRow(x) \in rows
        BY <1>3, <3>2, PlacesOfRows
      <4> QED BY <1>3, <4>1 DEF Whole, ServicesAreWhole
    <3> QED BY <3>1, <3>2
  <2>5. EndsArePresent'
    <3> SUFFICES ASSUME NEW row \in rows' \cap Relationships
                 PROVE  ServiceRow(target'[row.of]) \in rows'
      BY DEF EndsArePresent
    <3>1. row.of \in Services /\ row \in InstanceRows(row.of)
      BY PlacesOfRows
    <3>2. CASE row.of = s
      <4>1. target'[row.of] = found
        BY <1>1, <2>1, <3>2 DEF TypeOK
      <4> QED BY <1>3, <2>2, <4>1, PlacesOfRows
    <3>3. CASE row.of # s
      <4>1. row \in rows
        BY <1>3, <3>3, PlacesOfRows
      <4>2. target'[row.of] = target[row.of]
        BY <2>1, <3>1, <3>3 DEF TypeOK
      <4> QED BY <1>3, <4>1, <4>2 DEF Whole, EndsArePresent
    <3> QED BY <3>2, <3>3
  <2>6. ExecutionsArePresent'
    <3>1. \A x \in Services : rows' \cap ExecutionRows(x) = rows \cap ExecutionRows(x)
      BY <1>1, <1>3, PlacesOfRows
    <3> QED BY <1>3, <3>1 DEF Whole, ExecutionsArePresent
  <2> QED BY <2>3, <2>4, <2>5, <2>6 DEF Whole
<1> QED BY <1>2, <1>3 DEF PutService

(* Deleting a service takes its rows, and the relationships that end in    *)
(* its node; with the service goes its node, so that none is left out.     *)
LEMMA DeleteServiceKeepsWhole ==
  ASSUME TypeOK, OwnersIn(rows), Whole, NEW p \in Processes, DeleteServiceRows(p), CheckHolds(p)
  PROVE  Whole'
<1> DEFINE s == cmd[p].of
           unseen == IF cmd[p].saw.executed THEN {} ELSE {ExecutionRow(s)}
           taken == Cascade({ServiceRow(s)}, rows \ unseen, target)
<1>1. s \in Services
  BY InFlightTypes DEF DeleteServiceRows
<1>2. rows \ unseen = rows
  BY DEF CheckHolds, DeleteServiceRows, Executed
<1>3. target' = target
  BY DEF DeleteServiceRows
<1>4. CASE rows' = rows
  BY <1>3, <1>4, WholeIsKept
<1>5. CASE rows' = rows \ taken
  <2>1. Further(taken, rows, target) \subseteq taken
    BY <1>1, <1>2, ServiceDeletionsAreComplete
  <2>2. ServiceRow(s) \in taken /\ taken \subseteq Reach(s)
    BY <1>1, ServiceDeletionsReach
  <2>3. OwnersIn(rows')
    BY ServiceStepsKeepOwners
  <2> HIDE DEF taken, unseen, s
  <2>4. \A t : TemplateRows(t) \cap taken = {}
    BY <2>2, PlacesOfRows DEF Reach
  <2>5. \A row \in taken : row.of = s \/ HasRelationship(row.path)
    BY <2>2 DEF Reach
  <2>6. \A x \in Services : ServiceRow(x) \in rows' => x # s
    BY <1>5, <2>2
  <2>7. TemplatesAreWhole'
    <3>1. \A t : \A row \in TemplateRows(t) : row \in rows' <=> row \in rows
      BY <1>5, <2>4
    <3> QED BY <3>1 DEF Whole, TemplatesAreWhole
  <2>8. ServicesAreWhole'
    <3> SUFFICES ASSUME NEW x \in Services, ServiceRow(x) \in rows'
                 PROVE  /\ TemplateRow(TemplateOf[x]) \in rows'
                        /\ \A row \in InstanceRows(x) : HasRelationship(row.path) \/ row \in rows'
      BY DEF ServicesAreWhole
    <3>1. /\ TemplateRow(TemplateOf[x]) \in rows
          /\ \A row \in InstanceRows(x) : HasRelationship(row.path) \/ row \in rows
      BY <1>5 DEF Whole, ServicesAreWhole
    <3>2. TemplateRow(TemplateOf[x]) \notin taken
      BY <2>4, PlacesOfRows
    <3>3. \A row \in InstanceRows(x) : row \in taken => HasRelationship(row.path)
      BY <2>5, <2>6, PlacesOfRows
    <3> QED BY <1>5, <3>1, <3>2, <3>3
  <2>9. EndsArePresent'
    <3> SUFFICES ASSUME NEW row \in rows' \cap Relationships
                 PROVE  ServiceRow(target[row.of]) \in rows'
      BY <1>3 DEF EndsArePresent
    <3> DEFINE end == target[row.of]
    <3>1. end \in Services
      BY PlacesOfRows DEF TypeOK
    <3>2. ServiceRow(end) \in rows
      BY <1>5 DEF Whole, EndsArePresent
    <3>3. CASE end # s
      <4>1. ServiceRow(end).of = end /\ ~ HasRelationship(ServiceRow(end).path)
        BY PlainRows, PlacesOfRows
      <4> QED BY <1>5, <2>5, <3>2, <3>3, <4>1
    <3>4. CASE end = s
      <4>1. NodeRow(s) \in rows
        <5>1. NodeRow(s) \in InstanceRows(s) /\ ~ HasRelationship(NodeRow(s).path)
          BY PlainRows
        <5> QED BY <1>1, <3>2, <3>4, <5>1 DEF Whole, ServicesAreWhole
      <4>2. NodeRow(s) \in taken
        BY <1>1, <2>1, <2>2, <4>1, PlainRows DEF Further
      <4>3. NodeRow(s) \in Ends[row][target[row.of]]
        BY <1>1, <3>4, RelationshipRows
      <4>4. row \in Inbound(taken, rows, target)
        BY <1>5, <4>2, <4>3 DEF Inbound
      <4>5. row \in taken
        BY <2>1, <4>4 DEF Further
      <4> QED BY <1>5, <4>5
    <3> QED BY <3>3, <3>4
  <2>10. ExecutionsArePresent'
    <3> SUFFICES ASSUME NEW x \in Services, NEW row \in rows' \cap ExecutionRows(x)
                 PROVE  ExecutionRow(x) \in rows'
      BY DEF ExecutionsArePresent
    <3>1. ExecutionRow(x) \in rows
      BY <1>5 DEF Whole, ExecutionsArePresent
    <3>2. CASE ExecutionRow(x) \notin taken
      BY <1>5, <3>1, <3>2
    <3>3. CASE ExecutionRow(x) \in taken
      <4>1. ExecutionRow(x).of = x /\ ~ HasRelationship(ExecutionRow(x).path)
        <5>1. \A i \in DOMAIN <<"execution", "service">> :
                 <<"execution", "service">>[i] \in {"execution", "service"}
          OBVIOUS
        <5> QED BY <5>1, PlacesOfRows DEF HasRelationship
      <4>2. x = s
        BY <2>5, <3>3, <4>1
      <4>3. row \in AllRows /\ row.path \in ServicePaths /\ row.of = x /\ RootOf(row.path) = "service"
        BY PlacesOfRows, KindsOfRows, FamiliesOfPaths DEF ServicePaths, IsChain, RootOf
      <4>4. ServiceRow(x) \in rows'
        BY <2>3, <4>3, RowsHaveTheirService
      <4> QED BY <2>6, <4>2, <4>4
    <3> QED BY <3>2, <3>3
  <2> QED BY <2>7, <2>8, <2>9, <2>10 DEF Whole
<1> QED BY <1>4, <1>5 DEF DeleteServiceRows

(* Unless commands raced, every step keeps what rows refer to.             *)
LEMMA StepsKeepWhole ==
  ASSUME TypeOK, [Next]_vars, ~ raced, OwnersIn(rows), ChecksHold, Whole, CreationsHold
  PROVE  Whole'
<1>1. \A p \in Processes : CheckHolds(p)
  BY DEF ChecksHold
<1>2. ASSUME rows' = rows, target' = target
      PROVE  Whole'
  BY <1>2, WholeIsKept
<1>3. ASSUME NEW p \in Processes, TemplateCommand(p)
      PROVE  Whole'
  <2>1. CASE PutTemplate(p)
    BY <2>1, PutTemplateKeepsWhole
  <2>2. CASE DeleteTemplate(p)
    BY <1>1, <2>2, DeleteTemplateKeepsWhole
  <2> QED BY <1>2, <1>3, <2>1, <2>2 DEF TemplateCommand, StoreTemplate, DropTemplate,
             UploadTemplate, DeleteFiles, database
<1>4. ASSUME NEW p \in Processes, ServiceCommand(p)
      PROVE  Whole'
  <2>1. CASE PutService(p)
    BY <2>1, PutServiceKeepsWhole
  <2>2. CASE DeleteServiceRows(p)
    BY <1>1, <2>2, DeleteServiceKeepsWhole
  <2> QED BY <1>2, <1>4, <2>1, <2>2 DEF ServiceCommand, CreateService, DeleteService, database
<1>5. ASSUME NEW p \in Processes, ExecutionCommand(p)
      PROVE  Whole'
  <2> DEFINE s == cmd[p].of
  <2>1. CASE PutExecution(p)
    <3>1. /\ rows' = rows \cup {ExecutionRow(s), Row(<<"input", "execution", "service">>, s)}
          /\ target' = target
      BY <2>1 DEF PutExecution
    <3>2. s \in Services
      BY <2>1, InFlightTypes DEF PutExecution
    <3> HIDE DEF s
    <3>3. \A row \in rows' \ rows : row \in ExecutionRows(s) /\ ExecutionRow(s) \in rows'
      BY <3>1, <3>2, ExecutionRowsExist
    <3>4. \A row \in rows' \ rows :
             /\ row.path \notin TemplatePaths \cup InstancePaths
             /\ \A x \in Services : row \in ExecutionRows(x) => x = s
      BY <3>3, PlacesOfRows
    <3> QED BY <3>1, <3>3, <3>4, WholeIsKept
  <2>2. CASE PutTasks(p) \/ RunTasks(p)
    <3>1. target' = target
      BY <2>2 DEF PutTasks, RunTasks
    <3>2. /\ rows \subseteq rows'
          /\ \A row \in rows' \ rows : row \in ExecutionRows(s) /\ ExecutionRow(s) \in rows
      BY <2>2, RunsAdd
    <3> HIDE DEF s
    <3>3. \A row \in rows' \ rows :
             /\ row.path \notin TemplatePaths \cup InstancePaths
             /\ \A x \in Services : row \in ExecutionRows(x) => x = s
      BY <3>2, PlacesOfRows
    <3> QED BY <3>1, <3>2, <3>3, WholeIsKept
  <2>3. ASSUME NEW x \in Services, DeleteLogs(p, x)
        PROVE  Whole'
    <3>1. target' = target
      BY <2>3 DEF DeleteLogs
    <3>2. /\ rows' \subseteq rows
          /\ \A row \in rows \ rows' : row \in ExecutionRows(x) /\ row.path[1] = "log"
      BY <2>3, LogsAreDeleted
    <3>3. \A s1 : ExecutionRow(s1).path[1] # "log"
      BY PlacesOfRows
    <3> QED BY <3>1, <3>2, <3>3, PlacesOfRows, WholeIsKept
  <2> QED BY <1>2, <1>5, <2>1, <2>2, <2>3
          DEF ExecutionCommand, StartExecution, EndExecution, database
<1>6. ASSUME NEW p \in Processes, PluginCommand(p)
      PROVE  Whole'
  BY <1>2, <1>6 DEF PluginCommand, InstallPlugin, InstallWagon, PutPlugin, database
<1>7. ASSUME NEW p \in Processes, DefinitionCommand(p)
      PROVE  Whole'
  <2> DEFINE d == cmd[p].of
  <2>1. \A x : /\ DefinitionRow(x).path \notin TemplatePaths \cup InstancePaths
               /\ \A y : DefinitionRow(x) \notin ExecutionRows(y) /\ DefinitionRow(x) # ExecutionRow(y)
    <3>1. \A x : DefinitionRow(x).path \notin Paths /\ DefinitionRow(x).path[1] = "type_definition"
      BY PlacesOfRows
    <3>2. \A y : ExecutionRow(y).path[1] = "execution"
      BY PlacesOfRows
    <3>3. \A y : \A row \in ExecutionRows(y) : row.path \in Paths
      BY PlacesOfRows DEF Paths
    <3> QED BY <3>1, <3>2, <3>3 DEF Paths
  <2>2. CASE PutDefinition(p)
    <3>1. rows' = rows \cup {DefinitionRow(d)} /\ target' = target
      BY <2>2 DEF PutDefinition
    <3> HIDE DEF d
    <3> QED BY <2>1, <3>1, PlacesOfRows, WholeIsKept
  <2>3. CASE DeleteDefinitionRow(p)
    <3>1. rows' = rows \ {DefinitionRow(d)} /\ target' = target
      BY <2>3 DEF DeleteDefinitionRow
    <3> HIDE DEF d
    <3> QED BY <2>1, <3>1, PlacesOfRows, WholeIsKept
  <2> QED BY <1>2, <1>7, <2>2, <2>3 DEF DefinitionCommand, LoadDefinition, DeleteDefinition,
             MakeDirectory, RemoveDirectory, database
<1>8. ASSUME NEW p \in Processes, Crash(p)
      PROVE  Whole'
  BY <1>2, <1>8 DEF Crash, database
<1>9. CASE UNCHANGED vars
  BY <1>2, <1>9 DEF vars, database
<1> QED BY <1>3, <1>4, <1>5, <1>6, <1>7, <1>8, <1>9 DEF Next

(* Templates and services go with nothing but their own deletion.          *)
LEMMA OnlyDeletionsTake ==
  ASSUME TypeOK, [Next]_vars, \A p \in Processes : ~ DeleteTemplate(p) /\ ~ DeleteServiceRows(p)
  PROVE  /\ \A t : TemplateRow(t) \in rows => TemplateRow(t) \in rows'
         /\ \A s : ServiceRow(s) \in rows => ServiceRow(s) \in rows'
<1> DEFINE Goal == \A row \in rows \ rows' :
                     row.path[1] = "log" \/ row \in {DefinitionRow(d) : d \in Definitions}
<1>1. ASSUME NEW p \in Processes, TemplateCommand(p)
      PROVE  Goal
  BY <1>1 DEF TemplateCommand, StoreTemplate, DropTemplate, PutTemplate, UploadTemplate,
     DeleteFiles, database
<1>2. ASSUME NEW p \in Processes, ServiceCommand(p)
      PROVE  Goal
  BY <1>2 DEF ServiceCommand, CreateService, DeleteService, PutService, database
<1>3. ASSUME NEW p \in Processes, ExecutionCommand(p)
      PROVE  Goal
  <2>1. CASE PutTasks(p) \/ RunTasks(p)
    BY <2>1, RunsAdd
  <2>2. CASE \E s \in Services : DeleteLogs(p, s)
    BY <2>2, LogsAreDeleted
  <2> QED BY <1>3, <2>1, <2>2 DEF ExecutionCommand, StartExecution, PutExecution, EndExecution, database
<1>4. ASSUME NEW p \in Processes, PluginCommand(p)
      PROVE  Goal
  BY <1>4 DEF PluginCommand, InstallPlugin, InstallWagon, PutPlugin, database
<1>5. ASSUME NEW p \in Processes, DefinitionCommand(p)
      PROVE  Goal
  <2>1. DeleteDefinitionRow(p) => cmd[p].of \in Definitions
    BY InFlightTypes DEF DeleteDefinitionRow
  <2> QED BY <1>5, <2>1 DEF DefinitionCommand, LoadDefinition, DeleteDefinition, MakeDirectory,
             PutDefinition, RemoveDirectory, DeleteDefinitionRow, database
<1>6. ASSUME NEW p \in Processes, Crash(p)
      PROVE  Goal
  BY <1>6 DEF Crash, database
<1>7. ASSUME UNCHANGED vars
      PROVE  Goal
  BY <1>7 DEF vars, database
<1> HIDE DEF Goal
<1>8. Goal
  BY <1>1, <1>2, <1>3, <1>4, <1>5, <1>6, <1>7 DEF Next
<1>9. \A x : \A row : row.path[1] = "log" \/ row \in {DefinitionRow(d) : d \in Definitions} =>
         row # TemplateRow(x) /\ row # ServiceRow(x)
  <2>1. \A x : /\ DefinitionRow(x).path[1] = "type_definition"
               /\ TemplateRow(x).path[1] = "service_template" /\ ServiceRow(x).path[1] = "service"
    BY DEF DefinitionRow, TemplateRow, ServiceRow, Row
  <2> QED BY <2>1
<1> QED BY <1>8, <1>9 DEF Goal

(* The creation of a service that is in flight keeps the template and the  *)
(* services it found: what would delete them does not run beside it.       *)
LEMMA StepsKeepCreations ==
  ASSUME TypeOK, Exclusive, [Next]_vars, ~ raced, CreationsHold
  PROVE  CreationsHold'
<1> SUFFICES ASSUME NEW q \in Processes, At(q, "create", "put")'
             PROVE  /\ TemplateRow(TemplateOf[cmd'[q].of]) \in rows'
                    /\ \A found \in cmd'[q].saw.nodes : found = cmd'[q].of \/ ServiceRow(found) \in rows'
  BY DEF CreationsHold
<1>1. CASE cmd'[q] = cmd[q]
  <2>1. At(q, "create", "put")
    BY <1>1 DEF At
  <2>2. \A p \in Processes : ~ DeleteTemplate(p) /\ ~ DeleteServiceRows(p)
    BY <2>1, Excluded DEF DeleteTemplate, DeleteServiceRows
  <2>3. /\ \A t : TemplateRow(t) \in rows => TemplateRow(t) \in rows'
        /\ \A s : ServiceRow(s) \in rows => ServiceRow(s) \in rows'
    BY <2>2, OnlyDeletionsTake
  <2> QED BY <1>1, <2>1, <2>3 DEF CreationsHold
<1>2. CASE cmd'[q] # cmd[q]
  <2>1. cmd'[q] # Idle /\ cmd'[q].op = "create" /\ cmd'[q].pc = "put"
    BY DEF At
  <2>2. \A ops : Acts(q, ops) => "create" \in ops
    BY <2>1 DEF Acts, Becomes, TypeOK
  <2>3. \A p \in Processes \ {q} : \A ops : ~ Acts(p, ops)
    BY <1>2 DEF Acts, Becomes, TypeOK
  <2>4. \A p \in Processes : ~ Crash(p)
    BY <1>2, <2>1 DEF Crash, TypeOK
  <2>5. ServiceCommand(q)
    <3>1. PICK p \in Processes : \/ TemplateCommand(p) \/ ServiceCommand(p) \/ ExecutionCommand(p)
                                 \/ PluginCommand(p) \/ DefinitionCommand(p)
      BY <1>2, <2>4 DEF Next, vars
    <3>2. p = q
      BY <2>3, <3>1, ActsOfCommands
    <3> QED BY <2>2, <3>1, <3>2, ActsOfCommands
  <2>6. ~ PutService(q) /\ ~ DeleteServiceRows(q)
    BY <2>1 DEF PutService, DeleteServiceRows, End, TypeOK
  <2>7. \A s \in Services : \A force \in BOOLEAN : ~ DeleteService(q, s, force)
    <3> SUFFICES ASSUME NEW s \in Services, NEW force \in BOOLEAN, DeleteService(q, s, force)
                 PROVE  FALSE
      OBVIOUS
    <3>1. \E saw : BeginWith(q, "delete", s, "rows", saw)
      BY DEF DeleteService
    <3>2. cmd'[q].op = "delete"
      BY <3>1 DEF BeginWith, Command, TypeOK
    <3> QED BY <2>1, <3>2
  <2>8. PICK s \in Services : CreateService(q, s)
    BY <2>5, <2>6, <2>7 DEF ServiceCommand
  <2>9. PICK found \in {s} \cup ServicesOf(TemplateOf[s]) :
           BeginWith(q, "create", s, "put", [executed |-> FALSE, nodes |-> {found}])
    BY <2>8 DEF CreateService
  <2>10. cmd'[q].of = s /\ cmd'[q].saw.nodes = {found}
    BY <2>9 DEF BeginWith, Command, TypeOK
  <2>11. rows' = rows /\ TemplateRow(TemplateOf[s]) \in rows
    BY <2>8 DEF CreateService, database
  <2>12. found = s \/ ServiceRow(found) \in rows
    BY <2>9 DEF ServicesOf
  <2> QED BY <2>10, <2>11, <2>12
<1> QED BY <1>1, <1>2

(* The inductive invariant of what rows refer to is one, beside the other. *)
LEMMA StepsKeepReferences ==
  ASSUME IInv, [Next]_vars, ReferencesInv
  PROVE  ReferencesInv'
<1> SUFFICES ASSUME ~ raced' PROVE ReferencesInv'
  BY DEF ReferencesInv
<1>1. ~ raced
  BY StepsRemember DEF IInv
<1>2. OwnersIn(rows)
  BY <1>1, OwnersPresent DEF IInv
<1>3. Whole /\ CreationsHold
  BY <1>1 DEF ReferencesInv, Whole
<1>4. Whole'
  BY <1>1, <1>2, <1>3, StepsKeepWhole DEF IInv
<1>5. CreationsHold'
  BY <1>1, <1>3, StepsKeepCreations DEF IInv
<1> QED BY <1>4, <1>5 DEF ReferencesInv, Whole

-----------------------------------------------------------------------------
(* Where the keys of rows lead.                                            *)

(* What the keys of a table of templates refer to.                         *)
LeadsToTemplates(model) ==
  \A key \in model.needs \cup model.may : key = "plugin" \/ RefersTo(key) \in TemplateHeads

(* The keys of templates refer to templates.                               *)
LEMMA KeysOfTemplates == \A table \in TemplateHeads \ Parameters : LeadsToTemplates(Models[table])
<1>1. /\ LeadsToTemplates(ServiceTemplate) /\ LeadsToTemplates(NodeTemplate)
      /\ LeadsToTemplates(GroupTemplate) /\ LeadsToTemplates(PolicyTemplate)
      /\ LeadsToTemplates(SubstitutionTemplate) /\ LeadsToTemplates(SubstitutionTemplateMapping)
      /\ LeadsToTemplates(RequirementTemplate) /\ LeadsToTemplates(RelationshipTemplate)
  BY DEF LeadsToTemplates, RefersTo, KeyTable, TemplateHeads, TemplateTables, TemplateRoots, Table,
     ServiceTemplateTypes, ServiceTemplate, NodeTemplate, GroupTemplate, PolicyTemplate,
     SubstitutionTemplate, SubstitutionTemplateMapping, RequirementTemplate, RelationshipTemplate
<1>2. /\ LeadsToTemplates(CapabilityTemplate) /\ LeadsToTemplates(InterfaceTemplate)
      /\ LeadsToTemplates(OperationTemplate) /\ LeadsToTemplates(ArtifactTemplate)
      /\ LeadsToTemplates(PluginSpecification) /\ LeadsToTemplates(Type)
  BY DEF LeadsToTemplates, RefersTo, KeyTable, TemplateHeads, TemplateTables, TemplateRoots, Table,
     CapabilityTemplate, InterfaceTemplate, OperationTemplate, ArtifactTemplate,
     PluginSpecification, Type
<1> QED BY <1>1, <1>2 DEF TemplateHeads, TemplateTables, TemplateRoots, Models

KnownInstances == {"service", "node", "capability", "substitution"}

(* What the keys of a table of services or of executions refer to.         *)
LeadsNear(table, model) ==
  \A key \in model.needs \cup model.may :
     \/ key = "plugin" \/ RefersTo(key) \in TemplateHeads \cup OfOneOwner \cup KnownInstances
     \/ table = "interface" /\ key \in {"group", "relationship"}
     \/ table = "task" /\ key \in {"execution", "relationship"}
     \/ table = "log" /\ key \in {"execution", "task"}

(* Where they do not lead to a template, the keys of services lead to what *)
(* has one row in each service, or up.                                     *)
LEMMA KeysOfServices == \A table \in ServiceHeads \ Parameters :
                          table # "substitution_mapping" => LeadsNear(table, Models[table])
<1>1. /\ LeadsNear("service", Service) /\ LeadsNear("node", Node) /\ LeadsNear("group", Group)
      /\ LeadsNear("policy", Policy) /\ LeadsNear("substitution", Substitution)
      /\ LeadsNear("relationship", Relationship) /\ LeadsNear("capability", Capability)
  BY DEF LeadsNear, RefersTo, KeyTable, TemplateHeads, TemplateTables, TemplateRoots, Table,
     KnownInstances, OfOneOwner, Service, Node, Group, Policy, Substitution, Relationship, Capability
<1>2. /\ LeadsNear("interface", Interface) /\ LeadsNear("operation", Operation)
      /\ LeadsNear("artifact", Artifact) /\ LeadsNear("execution", Execution)
      /\ LeadsNear("task", Task) /\ LeadsNear("log", Log)
  BY DEF LeadsNear, RefersTo, KeyTable, TemplateHeads, TemplateTables, TemplateRoots, Table,
     KnownInstances, OfOneOwner, Interface, Operation, Artifact, Execution, Task, Log
<1> QED BY <1>1, <1>2 DEF ServiceHeads, InstanceTables, ExecutionTables, Models

(* The only path to a table of templates that has one is a template's, and *)
(* the paths to the known instances are those of the service.              *)
LEMMA PathsOfKeys ==
  /\ \A table \in DOMAIN PathTo \cap TemplateHeads : PathTo[table] \in TemplatePaths
  /\ \A table \in DOMAIN PathTo \cap KnownInstances :
        PathTo[table] \in InstancePaths /\ ~ HasRelationship(PathTo[table])
  /\ "execution" \in DOMAIN PathTo => PathTo["execution"] = <<"execution", "service">>
<1>1. TemplateHeads \cap ServiceHeads \subseteq Parameters
  BY DEF TemplateHeads, ServiceHeads, TemplateTables, TemplateRoots, InstanceTables,
     ExecutionTables, Parameters
<1>2. ASSUME NEW table \in DOMAIN PathTo \cap TemplateHeads
      PROVE  PathTo[table] \in TemplatePaths
  <2>1. PathTo[table] \in Paths /\ PathTo[table][1] = table /\ table \notin Parameters
    BY HeadOfPathTo DEF OfOneOwner
  <2>2. PathTo[table] \notin ServicePaths
    BY <1>1, <2>1, Heads
  <2> QED BY <2>1, <2>2 DEF Paths, ServicePaths
<1>3. (KnownInstances \cup {"execution"}) \cap TemplateHeads = {}
  BY DEF KnownInstances, TemplateHeads, TemplateTables, TemplateRoots, Parameters
<1>4. ASSUME NEW table \in DOMAIN PathTo, table \in KnownInstances \cup {"execution"}
      PROVE  PathTo[table] \in ServicePaths /\ PathTo[table][1] = table
  <2>1. PathTo[table] \in Paths /\ PathTo[table][1] = table
    BY HeadOfPathTo
  <2>2. PathTo[table] \notin TemplatePaths
    BY <1>3, <1>4, <2>1, Heads
  <2> QED BY <2>1, <2>2 DEF Paths, ServicePaths
<1>5. ASSUME NEW table \in DOMAIN PathTo \cap KnownInstances
      PROVE  PathTo[table] \in InstancePaths /\ ~ HasRelationship(PathTo[table])
  <2>1. table \notin UnderRelationships /\ table \notin ExecutionTables /\ table # "execution"
    BY DEF KnownInstances, UnderRelationships, ExecutionTables, Parameters
  <2>2. ~ HasRelationship(PathTo[table])
    BY <1>4, <2>1, WhatIsUnderRelationships
  <2>3. <<"execution", "service">>[1] = "execution"
    OBVIOUS
  <2>4. PathTo[table] \notin ExecutionPaths
    BY <1>4, <2>1, <2>3, ExecutionPathsAreOwned DEF IsOwned
  <2> QED BY <1>4, <2>2, <2>4 DEF ServicePaths
<1>6. ASSUME "execution" \in DOMAIN PathTo
      PROVE  PathTo["execution"] = <<"execution", "service">>
  BY <1>4, <1>6, KnownPaths
<1> QED BY <1>2, <1>5, <1>6

-----------------------------------------------------------------------------
(* What the rows of a service were made from.                              *)

(* A path passes through one relationship at most.                         *)
OneRelationship(path) ==
  \A i, j \in DOMAIN path : path[i] = "relationship" /\ path[j] = "relationship" => i = j

(* A row was made from what each of its owners up to a relationship was    *)
(* made from.                                                              *)
LEMMA MadeFromWrittenOut ==
  ASSUME NEW path
  PROVE  /\ ~ HasRelationship(path) =>
              MadeFrom(path) = [i \in 1 .. Len(path) |-> TemplateTable[path[i]]]
         /\ \A n \in DOMAIN path : OneRelationship(path) /\ path[n] = "relationship" =>
              MadeFrom(path) = [i \in 1 .. n |-> TemplateTable[path[i]]]
<1>1. ASSUME ~ HasRelationship(path)
      PROVE  MadeFrom(path) = [i \in 1 .. Len(path) |-> TemplateTable[path[i]]]
  BY <1>1 DEF MadeFrom, HasRelationship
<1>2. ASSUME NEW n \in DOMAIN path, OneRelationship(path), path[n] = "relationship"
      PROVE  MadeFrom(path) = [i \in 1 .. n |-> TemplateTable[path[i]]]
  <2>1. (CHOOSE i \in DOMAIN path : path[i] = "relationship") = n
    BY <1>2 DEF OneRelationship
  <2> QED BY <1>2, <2>1 DEF MadeFrom
<1> QED BY <1>1, <1>2

(* A prefixed sequence, element by element.                                *)
LEMMA PrefixedElements ==
  ASSUME NEW S, NEW x \in S, NEW made \in Seq(S), NEW n \in Nat, n = Len(made) + 1
  PROVE  <<x>> \o made = [i \in 1 .. n |-> IF i = 1 THEN x ELSE made[i - 1]]
<1> DEFINE both == <<x>> \o made
<1>1. both \in Seq(S) /\ Len(both) = Len(made) + 1 /\ Len(made) \in Nat
  OBVIOUS
<1>2. \A i \in 1 .. n : both[i] = IF i = 1 THEN x ELSE made[i - 1]
  <2> SUFFICES ASSUME NEW i \in 1 .. n PROVE both[i] = IF i = 1 THEN x ELSE made[i - 1]
    OBVIOUS
  <2>1. CASE i = 1
    BY <1>1, <2>1
  <2>2. CASE i # 1
    <3>1. i > Len(<<x>>) /\ i <= Len(<<x>>) + Len(made) /\ i - Len(<<x>>) = i - 1
      BY <1>1, <2>2
    <3> QED BY <1>1, <2>2, <3>1
  <2> QED BY <2>1, <2>2
<1> HIDE DEF both
<1>3. both = [i \in 1 .. Len(both) |-> both[i]]
  BY <1>1
<1>4. both = [i \in 1 .. n |-> both[i]]
  BY <1>1, <1>3
<1>5. [i \in 1 .. n |-> both[i]] = [i \in 1 .. n |-> IF i = 1 THEN x ELSE made[i - 1]]
  BY <1>2
<1> QED BY <1>4, <1>5 DEF both

(* What an owned row was made from is owned by what its owner was made     *)
(* from, unless the row is a relationship.                                 *)
LEMMA MadeFromUnderOwner ==
  ASSUME NEW child \in Tables, child # "relationship",
         NEW owner, IsPath(owner), OneRelationship(owner)
  PROVE  /\ OneRelationship(<<child>> \o owner)
         /\ MadeFrom(<<child>> \o owner) = <<TemplateTable[child]>> \o MadeFrom(owner)
<1> DEFINE path == <<child>> \o owner
<1>1. /\ path[1] = child /\ Len(path) = Len(owner) + 1 /\ IsPath(path)
      /\ \A i \in DOMAIN owner : i + 1 \in DOMAIN path /\ path[i + 1] = owner[i]
      /\ \A i \in DOMAIN path : i # 1 => i - 1 \in DOMAIN owner /\ path[i] = owner[i - 1]
      /\ HasRelationship(path) <=> HasRelationship(owner)
  <2>1. HasRelationship(path) <=> HasRelationship(owner)
    BY PrefixedRelationship
  <2> HIDE DEF path
  <2>2. path = <<child>> \o owner
    BY DEF path
  <2>3. /\ path[1] = child /\ Len(path) = Len(owner) + 1 /\ IsPath(path)
        /\ \A i \in DOMAIN owner : i + 1 \in DOMAIN path /\ path[i + 1] = owner[i]
        /\ \A i \in DOMAIN path : i # 1 => i - 1 \in DOMAIN owner /\ path[i] = owner[i - 1]
    BY <2>2, Prefixed DEF IsPath
  <2> QED BY ONLY <2>1, <2>3
<1>2. /\ DOMAIN owner = 1 .. Len(owner) /\ Len(owner) \in Nat
      /\ DOMAIN path = 1 .. Len(path) /\ Len(path) \in Nat
  BY <1>1 DEF IsPath
<1> HIDE DEF path
<1>3. OneRelationship(path)
  <2> SUFFICES ASSUME NEW i \in DOMAIN path, NEW j \in DOMAIN path,
                      path[i] = "relationship", path[j] = "relationship"
               PROVE  i = j
    BY DEF OneRelationship
  <2>1. i # 1 /\ j # 1
    BY <1>1
  <2>2. i - 1 = j - 1
    BY <1>1, <2>1 DEF OneRelationship
  <2> QED BY <1>2, <2>2
<1>4. ASSUME NEW last \in DOMAIN owner,
             MadeFrom(owner) = [i \in 1 .. last |-> TemplateTable[owner[i]]],
             MadeFrom(path) = [i \in 1 .. last + 1 |-> TemplateTable[path[i]]]
      PROVE  MadeFrom(path) = <<TemplateTable[child]>> \o MadeFrom(owner)
  <2> DEFINE made == MadeFrom(owner)
             S == {TemplateTable[owner[i]] : i \in 1 .. last} \cup {TemplateTable[child]}
  <2>1. last \in Nat
    BY <1>2
  <2>2. made \in [1 .. last -> S]
    BY <1>4
  <2>3. made \in Seq(S) /\ Len(made) = last
    <3> HIDE DEF made, S
    <3> QED BY <2>1, <2>2
  <2>4. <<TemplateTable[child]>> \o made =
          [i \in 1 .. last + 1 |-> IF i = 1 THEN TemplateTable[child] ELSE made[i - 1]]
    <3>1. TemplateTable[child] \in S
      OBVIOUS
    <3> HIDE DEF made, S
    <3> QED BY <2>1, <2>3, <3>1, PrefixedElements
  <2>5. ASSUME NEW i \in 1 .. last + 1
        PROVE  TemplateTable[path[i]] = IF i = 1 THEN TemplateTable[child] ELSE made[i - 1]
    <3>1. CASE i = 1
      BY <1>1, <3>1
    <3>2. CASE i # 1
      <4>1. i \in DOMAIN path /\ i - 1 \in 1 .. last
        BY <1>1, <1>2, <3>2
      <4>2. path[i] = owner[i - 1]
        BY <1>1, <3>2, <4>1
      <4>3. made[i - 1] = TemplateTable[owner[i - 1]]
        BY <1>4, <4>1
      <4> QED BY <3>2, <4>2, <4>3
    <3> QED BY <3>1, <3>2
  <2> HIDE DEF made
  <2>6. [i \in 1 .. last + 1 |-> TemplateTable[path[i]]] =
          [i \in 1 .. last + 1 |-> IF i = 1 THEN TemplateTable[child] ELSE made[i - 1]]
    BY <2>5
  <2> QED BY <1>4, <2>4, <2>6 DEF made
<1>5. CASE HasRelationship(owner)
  <2>1. PICK n \in DOMAIN owner : owner[n] = "relationship"
    BY <1>5 DEF HasRelationship
  <2>2. n + 1 \in DOMAIN path /\ path[n + 1] = "relationship"
    BY <1>1, <2>1
  <2>3. MadeFrom(owner) = [i \in 1 .. n |-> TemplateTable[owner[i]]]
    BY <2>1, MadeFromWrittenOut
  <2>4. MadeFrom(path) = [i \in 1 .. n + 1 |-> TemplateTable[path[i]]]
    BY <1>3, <2>2, MadeFromWrittenOut
  <2> QED BY <1>3, <1>4, <2>3, <2>4 DEF path
<1>6. CASE ~ HasRelationship(owner)
  <2>1. MadeFrom(owner) = [i \in 1 .. Len(owner) |-> TemplateTable[owner[i]]]
    BY <1>6, MadeFromWrittenOut
  <2>2. MadeFrom(path) = [i \in 1 .. Len(owner) + 1 |-> TemplateTable[path[i]]]
    BY <1>1, <1>6, MadeFromWrittenOut
  <2>3. Len(owner) \in DOMAIN owner
    BY <1>2 DEF IsPath
  <2> QED BY <1>3, <1>4, <2>1, <2>2, <2>3 DEF path
<1> QED BY <1>5, <1>6

(* The owners of what a service is made of.                                *)
Owning ==
  [node |-> {"service"}, group |-> {"service"}, policy |-> {"service"},
   capability |-> {"node"}, artifact |-> {"node"}, relationship |-> {"node"},
   interface |-> {"node", "group", "relationship"}, operation |-> {"service", "interface"}]

(* What the tables of a service own, and that their templates own the same *)
(* but for relationships.                                                  *)
MirrorsTemplate(table, model, template) ==
  \A child \in model.owns \cap DOMAIN Owning :
     /\ table \in Owning[child]
     /\ child # "relationship" => TemplateTable[child] \in template.owns \cap TemplateTables

(* Where the tables of a service own others, so do the tables of its       *)
(* template.                                                               *)
LEMMA TemplatesOwnAlike ==
  \A table \in ServiceHeads \ {"substitution"} : \A child \in Models[table].owns \cap DOMAIN Owning :
     /\ table \in Owning[child] /\ table \in DOMAIN TemplateTable
     /\ child # "relationship" =>
          TemplateTable[child] \in Models[TemplateTable[table]].owns \cap TemplateTables
<1>1. /\ MirrorsTemplate("service", Service, ServiceTemplate)
      /\ MirrorsTemplate("node", Node, NodeTemplate)
      /\ MirrorsTemplate("group", Group, GroupTemplate)
  BY DEF MirrorsTemplate, Owning, TemplateTable, TemplateTables, Table, Service, ServiceOwns,
     ServiceTemplate, ServiceTemplateOwns, Node, NodeOwns, NodeTemplate, NodeTemplateOwns,
     Group, GroupTemplate
<1>2. /\ MirrorsTemplate("policy", Policy, PolicyTemplate)
      /\ MirrorsTemplate("relationship", Relationship, RelationshipTemplate)
      /\ MirrorsTemplate("capability", Capability, CapabilityTemplate)
  BY DEF MirrorsTemplate, Owning, TemplateTable, TemplateTables, Table, Policy, PolicyTemplate,
     Relationship, RelationshipTemplate, Capability, CapabilityTemplate
<1>3. /\ MirrorsTemplate("interface", Interface, InterfaceTemplate)
      /\ MirrorsTemplate("operation", Operation, OperationTemplate)
      /\ MirrorsTemplate("artifact", Artifact, ArtifactTemplate)
  BY DEF MirrorsTemplate, Owning, TemplateTable, TemplateTables, Table, Interface,
     InterfaceTemplate, Operation, OperationTemplate, Artifact, ArtifactTemplate
<1>4. \A table \in {"execution", "task", "log", "substitution_mapping"} \cup Parameters :
         Models[table].owns \cap DOMAIN Owning = {}
  BY DEF Owning, Models, Table, Parameters, Execution, Task, Log, SubstitutionMapping,
     Output, Input, Configuration, Property, Attribute, Argument
<1>5. /\ ServiceHeads \ {"substitution"} \subseteq
           {"service", "node", "group", "policy", "relationship", "capability", "interface",
            "operation", "artifact"}
           \cup ({"execution", "task", "log", "substitution_mapping"} \cup Parameters)
      /\ TemplateTable["service"] = "service_template" /\ TemplateTable["node"] = "node_template"
      /\ TemplateTable["group"] = "group_template" /\ TemplateTable["policy"] = "policy_template"
      /\ TemplateTable["relationship"] = "relationship_template"
      /\ TemplateTable["capability"] = "capability_template"
      /\ TemplateTable["interface"] = "interface_template"
      /\ TemplateTable["operation"] = "operation_template"
      /\ TemplateTable["artifact"] = "artifact_template"
      /\ {"service", "node", "group", "policy", "relationship", "capability", "interface",
            "operation", "artifact"} \subseteq DOMAIN TemplateTable
  BY DEF ServiceHeads, InstanceTables, ExecutionTables, TemplateTable
<1>6. \A table \in {"service", "node", "group", "policy", "relationship", "capability", "interface",
                    "operation", "artifact"} :
         MirrorsTemplate(table, Models[table], Models[TemplateTable[table]])
  BY <1>1, <1>2, <1>3, <1>5 DEF Models
<1>7. ASSUME NEW table \in ServiceHeads \ {"substitution"},
             NEW child \in Models[table].owns \cap DOMAIN Owning
      PROVE  /\ table \in Owning[child] /\ table \in DOMAIN TemplateTable
             /\ child # "relationship" =>
                  TemplateTable[child] \in Models[TemplateTable[table]].owns \cap TemplateTables
  <2>1. table \in {"service", "node", "group", "policy", "relationship", "capability", "interface",
                   "operation", "artifact"}
    BY <1>4, <1>5
  <2>2. MirrorsTemplate(table, Models[table], Models[TemplateTable[table]]) /\ table \in DOMAIN TemplateTable
    BY <1>5, <1>6, <2>1
  <2> QED BY <2>2 DEF MirrorsTemplate
<1> QED BY <1>7


(* An owned row of a service: who owns it and what its template is.        *)
LEMMA MadeOneLonger ==
  ASSUME NEW path \in ServicePaths, path[1] \in DOMAIN Owning
  PROVE  /\ Tail(path) \in ServicePaths /\ Tail(path)[1] \in Owning[path[1]]
         /\ \A made : /\ path[1] # "relationship" /\ OneRelationship(Tail(path))
                      /\ MadeFrom(Tail(path)) \in made
                      => /\ OneRelationship(path)
                         /\ MadeFrom(path) \in Longer(made, TemplateTables)
<1> DEFINE child == path[1]
           owner == Tail(path)
<1>1. IsOwned(path, ServicePaths, Tables)
  <2>1. child \notin {"service", "substitution", "execution"}
    BY DEF Owning
  <2>2. <<"service">>[1] = "service" /\ <<"substitution">>[1] = "substitution"
        /\ <<"execution", "service">>[1] = "execution"
    OBVIOUS
  <2> QED BY <2>1, <2>2, ServicePathsAreOwned
<1>2. /\ owner \in ServicePaths /\ IsPath(owner) /\ child \in Models[owner[1]].owns
      /\ path = <<child>> \o owner /\ child \in Tables
  BY <1>1, OwnersOfPaths DEF IsOwned
<1>3. owner[1] \in ServiceHeads \ {"substitution"}
  <2>1. Models["substitution"].owns = {"substitution_mapping"}
    BY DEF Models, Substitution, Table
  <2>2. "substitution_mapping" \notin DOMAIN Owning
    BY DEF Owning
  <2> QED BY <1>2, <2>1, <2>2, Heads
<1> HIDE DEF child, owner
<1>4. /\ owner[1] \in Owning[child] /\ owner[1] \in DOMAIN TemplateTable
      /\ child # "relationship" =>
           TemplateTable[child] \in Models[TemplateTable[owner[1]]].owns \cap TemplateTables
  <2>1. child \in Models[owner[1]].owns \cap DOMAIN Owning
    BY <1>2 DEF child
  <2> QED BY <1>3, <2>1, TemplatesOwnAlike
<1>5. ASSUME NEW made, child # "relationship", OneRelationship(owner), MadeFrom(owner) \in made
      PROVE  OneRelationship(path) /\ MadeFrom(path) \in Longer(made, TemplateTables)
  <2>1. OneRelationship(path) /\ MadeFrom(path) = <<TemplateTable[child]>> \o MadeFrom(owner)
    BY <1>2, <1>5, MadeFromUnderOwner
  <2>2. MadeFrom(owner)[1] = TemplateTable[owner[1]]
    BY <1>2, MadeFromATemplate
  <2>3. TemplateTable[child] \in Models[MadeFrom(owner)[1]].owns \cap TemplateTables
    BY <1>4, <1>5, <2>2
  <2> QED BY <1>5, <2>1, <2>3 DEF Longer
<1> QED BY <1>2, <1>4, <1>5 DEF child, owner

(* Every row of a service was made from a row of its template, found by    *)
(* the same way down from the template, or from a relationship template.   *)
LEMMA MadeFromTemplates ==
  \A path \in ServicePaths :
     path[1] \in DOMAIN Owning \cup {"service"} => MadeFrom(path) \in TemplatePaths
<1> DEFINE longer(paths) == Longer(paths, TemplateTables)
           M0 == {<<"service_template">>, <<"relationship_template">>}
           M1 == longer(M0)
           M2 == longer(M1)
           M3 == longer(M2)
           Made(table, made) == \A path \in ServicePaths : path[1] = table =>
                                   OneRelationship(path) /\ MadeFrom(path) \in made
<1>1. Made("service", M0)
  <2> SUFFICES ASSUME NEW path \in ServicePaths, path[1] = "service"
               PROVE  OneRelationship(path) /\ MadeFrom(path) \in M0
    OBVIOUS
  <2>1. path = <<"service">>
    BY KnownPaths
  <2>2. ~ HasRelationship(path) /\ Len(path) = 1
    BY <2>1, PlainRows
  <2>3. OneRelationship(path)
    BY <2>2 DEF OneRelationship, HasRelationship
  <2>4. MadeFrom(path) = [i \in 1 .. 1 |-> TemplateTable[path[i]]]
    BY <2>2, MadeFromWrittenOut
  <2>5. [i \in 1 .. 1 |-> TemplateTable[path[i]]] = <<TemplateTable["service"]>>
    BY <2>1
  <2>6. TemplateTable["service"] = "service_template"
    BY DEF TemplateTable
  <2> QED BY <2>3, <2>4, <2>5, <2>6
<1>2. Made("relationship", M0)
  <2> SUFFICES ASSUME NEW path \in ServicePaths, path[1] = "relationship"
               PROVE  OneRelationship(path) /\ MadeFrom(path) \in M0
    OBVIOUS
  <2>1. path = <<"relationship", "node", "service">>
    BY KnownPaths
  <2>2. DOMAIN path = 1 .. 3 /\ path[1] = "relationship" /\ path[2] = "node" /\ path[3] = "service"
    BY <2>1
  <2>3. OneRelationship(path)
    BY <2>2 DEF OneRelationship
  <2>4. MadeFrom(path) = [i \in 1 .. 1 |-> TemplateTable[path[i]]]
    BY <2>2, <2>3, MadeFromWrittenOut
  <2>5. [i \in 1 .. 1 |-> TemplateTable[path[i]]] = <<TemplateTable["relationship"]>>
    BY <2>2
  <2>6. TemplateTable["relationship"] = "relationship_template"
    BY DEF TemplateTable
  <2> QED BY <2>3, <2>4, <2>5, <2>6
<1>3. \A paths : paths \subseteq longer(paths)
  BY DEF Longer
<1>4. \A table \in DOMAIN Owning \ {"relationship"} : \A made :
         (\A owner \in Owning[table] : Made(owner, made)) => Made(table, longer(made))
  BY MadeOneLonger
<1>5. \A table, some, more : Made(table, some) /\ some \subseteq more => Made(table, more)
  OBVIOUS
<1>6. M0 \subseteq M1 /\ M1 \subseteq M2 /\ M2 \subseteq M3
  BY <1>3
<1>7. M3 \subseteq TemplatePaths
  <2>1. ASSUME NEW some, NEW more
        PROVE  longer(some \cup more) = longer(some) \cup longer(more)
    <3> DEFINE Children(p) == {<<child>> \o p : child \in Models[p[1]].owns \cap TemplateTables}
    <3>1. \A paths : longer(paths) = paths \cup UNION {Children(p) : p \in paths}
      BY DEF Longer
    <3> HIDE DEF Children, longer
    <3> QED BY <3>1
  <2> DEFINE A == {<<"service_template">>}
             B == {<<"relationship_template">>}
  <2>2. /\ longer(longer(longer(longer(longer(A))))) \subseteq TemplatePaths
        /\ longer(longer(longer(longer(longer(B))))) \subseteq TemplatePaths
    <3>1. /\ PathsFrom(<<"service_template">>, TemplateTables) \subseteq TemplatePaths
          /\ PathsFrom(<<"relationship_template">>, TemplateTables) \subseteq TemplatePaths
      BY DEF TemplatePaths
    <3>2. \A root : PathsFrom(<<root>>, TemplateTables) =
                      longer(longer(longer(longer(longer({<<root>>})))))
      BY DEF PathsFrom
    <3> HIDE DEF longer
    <3> QED BY <3>1, <3>2
  <2>3. M0 = A \cup B
    OBVIOUS
  <2> HIDE DEF longer, A, B, M0
  <2>4. M3 = longer(longer(longer(A))) \cup longer(longer(longer(B)))
    BY <2>1, <2>3
  <2>5. /\ longer(longer(longer(A))) \subseteq longer(longer(longer(longer(longer(A)))))
        /\ longer(longer(longer(B))) \subseteq longer(longer(longer(longer(longer(B)))))
    BY <1>3
  <2> QED BY <2>2, <2>4, <2>5
<1> HIDE DEF Made, longer, M0, M1, M2, M3
<1>8. Made("node", M1) /\ Made("group", M1) /\ Made("policy", M1)
  BY <1>1, <1>4 DEF Owning, M1
<1>9. Made("capability", M2) /\ Made("artifact", M2)
  BY <1>4, <1>8 DEF Owning, M2
<1>10. Made("relationship", M1) /\ Made("service", M2)
  BY <1>1, <1>2, <1>5, <1>6
<1>11. Made("interface", M2)
  BY <1>4, <1>8, <1>10 DEF Owning, M2
<1>12. Made("operation", M3)
  BY <1>4, <1>10, <1>11 DEF Owning, M3
<1>13. \A table \in DOMAIN Owning \cup {"service"} : Made(table, M3)
  BY <1>5, <1>6, <1>8, <1>9, <1>10, <1>11, <1>12 DEF Owning
<1> QED BY <1>7, <1>13 DEF Made


(* Under a service there are no substitutions.                             *)
LEMMA NoSubstitutions ==
  ASSUME NEW path \in ServicePaths, RootOf(path) # "substitution"
  PROVE  path[1] \notin {"substitution", "substitution_mapping"}
<1>1. <<"substitution">>[Len(<<"substitution">>)] = "substitution"
  OBVIOUS
<1>2. path[1] # "substitution"
  BY <1>1, KnownPaths DEF RootOf
<1>3. ASSUME path[1] = "substitution_mapping"
      PROVE  FALSE
  <2>1. <<"service">>[1] = "service" /\ <<"substitution">>[1] = "substitution"
        /\ <<"execution", "service">>[1] = "execution"
    OBVIOUS
  <2>2. IsOwned(path, ServicePaths, Tables)
    BY <1>3, <2>1, ServicePathsAreOwned
  <2>3. Tail(path) \in ServicePaths /\ IsPath(path) /\ IsPath(Tail(path)) /\ Len(path) > 1
        /\ path[1] \in Models[Tail(path)[1]].owns /\ Tail(path)[1] \in Tables
    <3>1. Len(path) > 1
      BY <2>2 DEF IsOwned
    <3>2. IsPath(Tail(path)) /\ Tail(path)[1] = path[2]
      BY <3>1, OwnersOfPaths
    <3>3. Tail(path)[1] \in Tables
      BY <3>2 DEF IsPath
    <3> QED BY <3>1, <3>2, <3>3, OwnersOfPaths
  <2>4. OwnersOf["substitution_mapping"] = {"substitution"} /\ "substitution_mapping" \in DOMAIN OwnersOf
    BY DEF OwnersOf
  <2>5. Tail(path)[1] = "substitution"
    BY <1>3, <2>3, <2>4, FewOwners
  <2>6. Tail(path) = <<"substitution">>
    BY <2>3, <2>5, KnownPaths
  <2>7. RootOf(Tail(path)) = RootOf(path)
    BY <2>3, RootOfTail
  <2> QED BY <1>1, <2>6, <2>7 DEF RootOf
<1> QED BY <1>2, <1>3

(* Tables that keys name and that no row of a template, of a service or of *)
(* an execution is in.                                                     *)
LEMMA PluginsAreElsewhere ==
  "plugin" \notin DOMAIN PathTo /\ RefersTo("plugin") = "plugin"
<1>1. "plugin" \notin TemplateHeads \cup ServiceHeads
  BY DEF TemplateHeads, TemplateTables, TemplateRoots, ServiceHeads, InstanceTables,
     ExecutionTables, Parameters
<1>2. \A path \in Paths : path \in TemplatePaths \/ path \in ServicePaths
  BY DEF Paths, ServicePaths
<1>3. "plugin" \notin DOMAIN PathTo
  BY <1>1, <1>2, Heads, HeadOfPathTo
<1> QED BY <1>3 DEF RefersTo, KeyTable

(* The keys of the rows that deletions take along lead to the template,    *)
(* from there no further than to rows of templates; to rows of the service *)
(* that no relationship has taken part in; to the owner; or from a task or *)
(* a log to its execution.                                                 *)
LEMMA KeysStayNear ==
  ASSUME NEW path \in Paths, RootOf(path) \notin Kept,
         NEW key \in Keys(path[1]) \ EndKeys, NEW to, to = KeyPath(path, key), to # Null
  PROVE  \/ to \in TemplatePaths
         \/ path \notin TemplatePaths /\ to \in InstancePaths /\ ~ HasRelationship(to)
         \/ path \notin TemplatePaths /\ Len(path) > 1 /\ to = Tail(path)
         \/ path \in ExecutionPaths /\ to = <<"execution", "service">>
<1> DEFINE table == path[1]
           Aside == /\ ~ (Len(path) > 1 /\ key \in OwningKeys(table, path[2]))
                    /\ ~ (table \in OfOneOwner /\ table \in Models[RefersTo(key)].owns)
                    /\ ~ Unset(path, key)
                    /\ RefersTo(key) \in DOMAIN PathTo /\ to = PathTo[RefersTo(key)]
<1>1. path \in TemplatePaths \/ path \in ServicePaths
  BY DEF Paths, ServicePaths
<1>2. IsPath(path)
  BY <1>1, TemplatePathsAreOwned, InstancePathsAreOwned, ExecutionPathsAreOwned DEF ServicePaths
<1>3. \/ Len(path) > 1 /\ to = Tail(path)
      \/ /\ table \notin Parameters
         /\ \/ table \in DOMAIN TemplateTable /\ to = MadeFrom(path)
            \/ Aside
  BY <1>2, WaysToAnOwner
<1>4. Aside => key # "plugin"
  BY PluginsAreElsewhere
<1>5. key \in Models[table].needs \cup Models[table].may
  BY DEF Keys
<1>6. CASE path \in TemplatePaths
  <2>1. table \in TemplateHeads
    BY <1>6, Heads
  <2>2. CASE Len(path) > 1 /\ to = Tail(path)
    <3>1. \A root : Len(<<root>>) = 1
      OBVIOUS
    <3>2. \A root : path # <<root>>
      <4> SUFFICES ASSUME NEW root, path = <<root>> PROVE FALSE
        OBVIOUS
      <4>1. Len(path) = 1
        BY <3>1
      <4> QED BY <2>2, <4>1
    <3> QED BY <1>6, <2>2, <3>2, TemplatePathsAreOwned DEF IsOwned
  <2>3. table \notin DOMAIN TemplateTable
    BY <2>1 DEF TemplateHeads, TemplateTables, TemplateRoots, TemplateTable, Parameters
  <2>4. CASE table \notin Parameters /\ Aside
    <3>1. LeadsToTemplates(Models[table])
      BY <2>1, <2>4, KeysOfTemplates
    <3>2. RefersTo(key) \in TemplateHeads
      BY <1>4, <1>5, <2>4, <3>1 DEF LeadsToTemplates
    <3> QED BY <2>4, <3>2, PathsOfKeys
  <2> QED BY <1>3, <2>2, <2>3, <2>4
<1>7. CASE path \in ServicePaths
  <2>1. path \notin TemplatePaths
    BY <1>7, FamiliesAreApart
  <2>2. table \in ServiceHeads /\ table \notin {"substitution", "substitution_mapping"}
    <3>1. RootOf(path) # "substitution"
      BY DEF Kept
    <3> QED BY <1>7, <3>1, Heads, NoSubstitutions
  <2>3. CASE table \in DOMAIN TemplateTable /\ to = MadeFrom(path)
    <3>1. table \in DOMAIN Owning \cup {"service"}
      BY <2>2, <2>3 DEF TemplateTable, Owning
    <3> QED BY <1>7, <2>3, <3>1, MadeFromTemplates
  <2>4. CASE table \notin Parameters /\ Aside
    <3>1. LeadsNear(table, Models[table])
      BY <2>2, <2>4, KeysOfServices
    <3>2. \/ RefersTo(key) \in TemplateHeads \cup OfOneOwner \cup KnownInstances
          \/ table = "interface" /\ key \in {"group", "relationship"}
          \/ table = "task" /\ key \in {"execution", "relationship"}
          \/ table = "log" /\ key \in {"execution", "task"}
      BY <1>4, <1>5, <2>4, <3>1 DEF LeadsNear
    <3>3. RefersTo(key) \notin OfOneOwner
      BY <2>4, HeadOfPathTo
    <3>4. ASSUME table = "interface", key \in {"group", "relationship"}
          PROVE  FALSE
      <4>1. RefersTo(key) = key /\ "interface" \in Models[key].owns
        BY <3>4 DEF RefersTo, KeyTable, Models, Group, Relationship, Table
      <4> QED BY <2>4, <3>4, <4>1 DEF OfOneOwner
    <3>5. ASSUME table = "task", key = "relationship"
          PROVE  FALSE
      <4>1. Len(path) > 1 /\ path[2] \in {"execution", "relationship"}
        BY <1>7, <3>5, TasksAreOfExecutions
      <4>2. "relationship" \in OwningKeys("task", "relationship")
        BY KeysToRelationships DEF RelatedKeys
      <4> QED BY <2>4, <3>5, <4>1, <4>2 DEF Unset
    <3>6. ASSUME table = "log", key = "task"
          PROVE  FALSE
      BY <2>4, <3>6 DEF Unset
    <3>7. CASE RefersTo(key) \in TemplateHeads \cup KnownInstances
      BY <2>1, <2>4, <3>7, PathsOfKeys
    <3>8. CASE table \in {"task", "log"} /\ key = "execution"
      <4>1. RefersTo("execution") = "execution"
        BY DEF RefersTo, KeyTable
      <4>2. to = <<"execution", "service">>
        BY <2>4, <3>8, <4>1, PathsOfKeys
      <4> QED BY <1>7, <3>8, <4>2, TasksAreOfExecutions
    <3> QED BY <2>4, <3>2, <3>3, <3>4, <3>5, <3>6, <3>7, <3>8
  <2> QED BY <1>3, <2>1, <2>3, <2>4
<1> QED BY <1>1, <1>6, <1>7


-----------------------------------------------------------------------------
(* Where rows are whole, what they refer to is there: a template has all   *)
(* its rows; a row of a service has its service, with it its template and  *)
(* the rows made with it, and its owner; a task or log has its execution.  *)
LEMMA WholeRowsResolve ==
  ASSUME TypeOK, OwnersIn(rows), Whole
  PROVE  /\ \A row \in rows \cap Watched : References[row] \subseteq rows
         /\ \A row \in rows \cap Relationships : Ends[row][target[row.of]] \subseteq rows
<1>1. ASSUME NEW row \in rows \cap Watched, NEW to \in References[row]
      PROVE  to \in rows
  <2>1. row \in AllRows /\ row.path \in Paths
    BY WatchedRows, RowsAreInTables
  <2>2. References[row] = {KeyRow(row, key, row.of) : key \in SetKeys(row) \ Elsewhere}
    BY <2>1 DEF References
  <2>3. PICK key \in SetKeys(row) \ EndKeys : to = KeyRow(row, key, row.of)
    BY <2>2 DEF Elsewhere
  <2> DEFINE path == row.path
             k == KeyPath(path, key)
             s == row.of
  <2>4. key \in Keys(path[1]) \ EndKeys /\ k # Null
    BY <2>3 DEF SetKeys
  <2>5. RootOf(path) \notin Kept
    BY DEF Watched, RootOf
  <2>6. to = Row(k, IF k \in TemplatePaths /\ path \notin TemplatePaths THEN TemplateOf[s] ELSE s)
    BY <2>3 DEF KeyRow
  <2> HIDE DEF k
  <2>7. \/ k \in TemplatePaths
        \/ path \notin TemplatePaths /\ k \in InstancePaths /\ ~ HasRelationship(k)
        \/ path \notin TemplatePaths /\ Len(path) > 1 /\ k = Tail(path)
        \/ path \in ExecutionPaths /\ k = <<"execution", "service">>
    <3> DEFINE from == path
    <3>1. from \in Paths /\ RootOf(from) \notin Kept /\ key \in Keys(from[1]) \ EndKeys
      BY <2>1, <2>4, <2>5
    <3>2. k = KeyPath(from, key) /\ k # Null
      BY <2>4 DEF k
    <3> HIDE DEF from
    <3>3. \/ k \in TemplatePaths
          \/ from \notin TemplatePaths /\ k \in InstancePaths /\ ~ HasRelationship(k)
          \/ from \notin TemplatePaths /\ Len(from) > 1 /\ k = Tail(from)
          \/ from \in ExecutionPaths /\ k = <<"execution", "service">>
      BY <3>1, <3>2, KeysStayNear
    <3> QED BY <3>3 DEF from
  <2>8. CASE path \in TemplatePaths
    <3>1. path \notin ExecutionPaths
      BY <2>8, ExecutionsAreElsewhere
    <3>2. k \in TemplatePaths /\ to = Row(k, s)
      BY <2>6, <2>7, <2>8, <3>1
    <3>3. s \in ServiceTemplates /\ row \in TemplateRows(s)
      BY <2>1, <2>8, FamiliesOfRows, FamiliesAreApart, RowsOfFamilies
    <3>4. TemplateRows(s) \subseteq rows
      BY <3>3 DEF Whole, TemplatesAreWhole
    <3> QED BY <3>2, <3>4, RowsOfFamilies
  <2>9. CASE path \in ServicePaths
    <3>1. s \in Services /\ path \notin TemplatePaths /\ RootOf(path) = "service"
          /\ row = Row(path, s)
      BY <2>1, <2>9, FamiliesOfRows, FamiliesAreApart, WatchedRows
    <3>2. ServiceRow(s) \in rows
      BY <2>1, <2>9, <3>1, RowsHaveTheirService
    <3>3. /\ TemplateRow(TemplateOf[s]) \in rows
          /\ \A r \in InstanceRows(s) : HasRelationship(r.path) \/ r \in rows
      BY <3>1, <3>2 DEF Whole, ServicesAreWhole
    <3>4. CASE k \in TemplatePaths
      <4>1. to = Row(k, TemplateOf[s]) /\ TemplateOf[s] \in ServiceTemplates
        BY <2>6, <3>1, <3>4 DEF ServiceTemplates
      <4>2. TemplateRow(TemplateOf[s]) \in rows \cap Watched \cap TemplateRows(TemplateOf[s])
        BY <3>3, <4>1, WatchedRows, PlacesOfRows
      <4>3. TemplateRows(TemplateOf[s]) \subseteq rows
        BY <4>1, <4>2 DEF Whole, TemplatesAreWhole
      <4> QED BY <3>4, <4>1, <4>3, RowsOfFamilies
    <3>5. CASE k \in InstancePaths /\ ~ HasRelationship(k)
      <4>1. to = Row(k, s)
        BY <2>6, <3>5, FamiliesAreApart DEF ServicePaths
      <4> QED BY <3>3, <3>5, <4>1, RowsOfFamilies
    <3>6. CASE Len(path) > 1 /\ k = Tail(path)
      <4>1. to = RowOfOwner(row)
        BY <2>6, <2>9, <3>6, OwnersOfPaths, FamiliesAreApart DEF RowOfOwner
      <4> QED BY <2>1, <2>9, <3>6, <4>1 DEF OwnersIn
    <3>7. CASE path \in ExecutionPaths /\ k = <<"execution", "service">>
      <4>1. row \in ExecutionRows(s)
        BY <3>1, <3>7 DEF ExecutionRows
      <4>2. to = ExecutionRow(s)
        <5>1. ExecutionRow(s) \in ExecutionRows(s)
          BY <3>1, ExecutionRowsExist
        <5>2. k \notin TemplatePaths
          BY <3>7, <5>1, PlacesOfRows
        <5> QED BY <2>6, <3>7, <5>2 DEF ExecutionRow
      <4> QED BY <3>1, <4>1, <4>2 DEF Whole, ExecutionsArePresent
    <3> QED BY <2>7, <3>4, <3>5, <3>6, <3>7
  <2> QED BY <2>1, <2>8, <2>9, FamiliesOfRows
<1>2. ASSUME NEW row \in rows \cap Relationships, NEW end \in Ends[row][target[row.of]]
      PROVE  end \in rows
  <2> DEFINE s == target[row.of]
  <2>1. s \in Services
    BY PlacesOfRows DEF TypeOK
  <2>2. /\ row \in AllRows /\ end.of = s /\ end.path \in ServicePaths
        /\ end.path[1] \in {"node", "capability"} /\ ~ HasRelationship(end.path)
    BY <2>1, EndsAreNodes
  <2>3. end.path \in InstancePaths
    <3>1. <<"execution", "service">>[1] = "execution"
      OBVIOUS
    <3>2. {"node", "capability"} \cap ExecutionTables = {}
      BY DEF ExecutionTables, Parameters
    <3>3. end.path \notin ExecutionPaths
      BY <2>2, <3>1, <3>2, ExecutionPathsAreOwned DEF IsOwned
    <3> QED BY <2>2, <3>3 DEF ServicePaths
  <2>4. end = Row(end.path, s)
    <3>1. Ends[row][s] = {KeyRow(row, key, s) : key \in SetKeys(row) \cap EndKeys}
      BY <2>1, <2>2 DEF Ends
    <3>2. PICK key : end = KeyRow(row, key, s)
      BY <3>1
    <3> QED BY <2>2, <3>2 DEF KeyRow, Row
  <2>5. ServiceRow(s) \in rows
    BY DEF Whole, EndsArePresent
  <2> HIDE DEF s
  <2>6. end \in InstanceRows(s)
    BY <2>3, <2>4, RowsOfFamilies
  <2> QED BY <2>1, <2>2, <2>5, <2>6 DEF Whole, ServicesAreWhole
<1> QED BY <1>1, <1>2

-----------------------------------------------------------------------------
(* The theorems.                                                           *)

(* The inductive invariant holds of every behaviour of the catalog.        *)
THEOREM Invariance == Spec => []IInv
<1>1. Init => IInv
  <2> SUFFICES ASSUME Init PROVE IInv
    OBVIOUS
  <2>1. TypeOK
    BY DEF Init, TypeOK
  <2>2. \A p \in Processes : cmd[p] = Idle
    BY DEF Init
  <2>3. \A op, pc, x : ~ InFlight(op, pc, x)
    BY <2>2 DEF InFlight, At
  <2>4. Exclusive /\ InstallsAreFirst /\ PluginsAreUnique
    BY <2>2, <2>3 DEF Exclusive, InstallsAreFirst, PluginsAreUnique, Init
  <2>5. HalvesAgree
    BY <2>3 DEF Init, HalvesAgree, TemplateAgrees, DefinitionAgrees, PluginAgrees
  <2>6. OwnersArePresent /\ ChecksHold
    BY <2>2 DEF Init, OwnersArePresent, ChecksHold, CheckHolds, At
  <2> QED BY <2>1, <2>4, <2>5, <2>6 DEF IInv
<1>2. IInv /\ [Next]_vars => IInv'
  <2> SUFFICES ASSUME IInv, [Next]_vars PROVE IInv'
    OBVIOUS
  <2>1. TypeOK' /\ Exclusive'
    BY StepsKeepTypes, StepsKeepExclusive DEF IInv
  <2>2. HalvesAgree'
    BY StepsAgree, HalvesAreThree DEF HalvesAgree, TemplatesAgree, DefinitionsAgree, PluginsAgree
  <2>3. OwnersArePresent' /\ ChecksHold'
    BY <2>1, StepsKeepOwnersAndChecks DEF IInv
  <2> QED BY <2>1, <2>2, <2>3, StepsAgree DEF IInv
<1> QED BY <1>1, <1>2, PTL DEF Spec

(* Every variable of the catalog keeps its type: a command in flight has   *)
(* the template, service, plugin or definition its kind works on.          *)
THEOREM TypeCorrect == Spec => []TypeOK
<1>1. IInv => TypeOK
  BY DEF IInv
<1> QED BY <1>1, Invariance, PTL

(* A plugin package and version is installed once, however many processes  *)
(* install, unless two installations raced (PluginManager.install).        *)
THEOREM PluginsStayUnique == Spec => []PluginsAreUnique
<1>1. IInv => PluginsAreUnique
  BY DEF IInv
<1> QED BY <1>1, Invariance, PTL

(* With no command in flight, none killed and none raced, the resources of *)
(* templates, the wagons of plugins and the directories of definitions are *)
(* exactly those of the rows, whatever the cascades of deletions took.     *)
THEOREM FilesAlwaysFollowRows == Spec => []FilesFollowRows
<1>1. IInv => FilesFollowRows
  <2> SUFFICES ASSUME IInv, AtRest, crashes = 0, ~ raced
               PROVE  /\ uploaded = {t \in ServiceTemplates : TemplateRow(t) \in rows}
                      /\ wagons = {w \in Plugins : pluginRows[w] > 0}
                      /\ directories = {d \in Definitions : DefinitionRow(d) \in rows}
    BY DEF FilesFollowRows
  <2>1. \A op, pc, x : ~ InFlight(op, pc, x)
    BY DEF AtRest, InFlight, At
  <2>2. /\ \A t \in ServiceTemplates : TemplateAgrees(t)
        /\ \A d \in Definitions : DefinitionAgrees(d)
        /\ \A w \in Plugins : PluginAgrees(w)
    BY DEF IInv, HalvesAgree
  <2>3. uploaded = {t \in ServiceTemplates : TemplateRow(t) \in rows}
    BY <2>1, <2>2 DEF TemplateAgrees, IInv, TypeOK
  <2>4. wagons = {w \in Plugins : pluginRows[w] > 0}
    BY <2>1, <2>2 DEF PluginAgrees, IInv, TypeOK
  <2>5. directories = {d \in Definitions : DefinitionRow(d) \in rows}
    BY <2>1, <2>2 DEF DefinitionAgrees, IInv, TypeOK
  <2> QED BY <2>3, <2>4, <2>5
<1> QED BY <1>1, Invariance, PTL

(* Deleting a service takes its rows, those of its executions, and the     *)
(* relationships that end in its nodes, with the tasks, arguments and logs *)
(* of operations that executions of any service ran on them; storing a     *)
(* template takes nothing; deleting a template takes rows of the template, *)
(* unless commands raced (the "all" cascade of one_to_many,                *)
(* aria/modeling/relationship.py).                                         *)
THEOREM ServicesStaySeparate == Spec => ServicesAreSeparate
<1> DEFINE Separate ==
      \A p \in Processes :
        /\ DeleteServiceRows(p) =>
             rows \ rows' \subseteq
               InstanceRows(cmd[p].of) \cup ExecutionRows(cmd[p].of) \cup RelationshipsTo(cmd[p].of)
        /\ PutTemplate(p) => rows \subseteq rows'
        /\ DeleteTemplate(p) /\ ~ raced => rows \ rows' \subseteq TemplateRows(cmd[p].of)
<1>1. ASSUME IInv, NEW p \in Processes, DeleteServiceRows(p)
      PROVE  rows \ rows' \subseteq
               InstanceRows(cmd[p].of) \cup ExecutionRows(cmd[p].of) \cup RelationshipsTo(cmd[p].of)
  <2> DEFINE s == cmd[p].of
  <2>1. TypeOK
    BY <1>1 DEF IInv
  <2>2. s \in Services
    BY <1>1, <2>1, InFlightTypes DEF DeleteServiceRows
  <2>3. PICK present : rows' = rows \/ rows' = rows \ Cascade({ServiceRow(s)}, present, target)
    BY <1>1 DEF DeleteServiceRows
  <2>4. rows \ rows' \subseteq Reach(s)
    BY <2>1, <2>2, <2>3, ServiceDeletionsReach
  <2> QED BY <2>2, <2>4, ReachIsSeparate
<1>2. ASSUME NEW p \in Processes, PutTemplate(p)
      PROVE  rows \subseteq rows'
  BY <1>2 DEF PutTemplate
<1>3. ASSUME IInv, NEW p \in Processes, DeleteTemplate(p), ~ raced
      PROVE  rows \ rows' \subseteq TemplateRows(cmd[p].of)
  <2>1. TypeOK /\ OwnersIn(rows) /\ CheckHolds(p)
    BY <1>3, OwnersPresent DEF IInv, ChecksHold
  <2>2. ServicesOf(cmd[p].of) = {}
    BY <1>3, <2>1 DEF CheckHolds, DeleteTemplate
  <2> QED BY <1>3, <2>1, <2>2, TemplateStepsKeepOwners
<1>4. IInv => [Separate]_vars
  BY <1>1, <1>2, <1>3
<1> HIDE DEF Separate
<1>5. Spec => [][Separate]_vars
  BY <1>4, Invariance, PTL DEF Spec
<1> QED BY <1>5 DEF ServicesAreSeparate, Separate

(* What the references of rows rest on holds of every behaviour: templates *)
(* and services are stored and deleted whole, and what a creation found is *)
(* there until it stores (modeling: service_template, service_instance).   *)
THEOREM ReferencesInvariance == Spec => []ReferencesInv
<1>1. Init => ReferencesInv
  <2> SUFFICES ASSUME Init PROVE ReferencesInv
    OBVIOUS
  <2>1. rows = {} /\ \A p \in Processes : cmd[p] = Idle
    BY DEF Init
  <2> QED BY <2>1 DEF ReferencesInv, TemplatesAreWhole, ServicesAreWhole, EndsArePresent,
             ExecutionsArePresent, CreationsHold, At
<1>2. IInv /\ ReferencesInv /\ [Next]_vars => ReferencesInv'
  BY StepsKeepReferences
<1> QED BY <1>1, <1>2, Invariance, PTL DEF Spec

(* Unless two commands raced, no deletion leaves behind a row that refers  *)
(* to a row it took, nor a relationship that ends in one; only the host of *)
(* a node may be missing, with the whole of the service it was in.  So the *)
(* cascades agree with the foreign keys, but for this one, which SQLite is *)
(* not asked to enforce.                                                   *)
THEOREM ReferencesAlwaysResolve == Spec => []ReferencesResolve
<1>1. IInv /\ ReferencesInv => ReferencesResolve
  <2> SUFFICES ASSUME IInv, ReferencesInv, ~ raced
               PROVE  /\ \A row \in rows \cap Watched : References[row] \subseteq rows
                      /\ \A row \in rows \cap Relationships :
                            Ends[row][target[row.of]] \subseteq rows
                      /\ \A s \in Services :
                            NodeRow(s) \in rows =>
                              \/ NodeRow(host[s]) \in rows
                              \/ host[s] # s /\ ServiceRow(host[s]) \notin rows
    BY DEF ReferencesResolve
  <2>1. TypeOK /\ OwnersIn(rows)
    BY OwnersPresent DEF IInv
  <2>2. Whole
    BY DEF ReferencesInv, Whole
  <2>3. ASSUME NEW s \in Services, ServiceRow(s) \in rows
        PROVE  NodeRow(s) \in rows
    <3>1. NodeRow(s) \in InstanceRows(s) /\ ~ HasRelationship(NodeRow(s).path)
      BY PlainRows
    <3> QED BY <2>3, <3>1 DEF ReferencesInv, ServicesAreWhole
  <2>4. \A s \in Services : host[s] \in Services
    BY <2>1 DEF TypeOK
  <2> QED BY <2>1, <2>2, <2>3, <2>4, WholeRowsResolve
<1> QED BY <1>1, Invariance, ReferencesInvariance, PTL
=============================================================================
