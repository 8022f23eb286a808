-------------------------------- MODULE Rows --------------------------------
(***************************************************************************)
(* The rows of a stored service template, of a service made from it and   *)
(* of an execution of that service.  One row stands for all the rows that *)
(* have the same owners: its path is its table followed by the tables of  *)
(* its owners, and "of" names the template or the service at the root.    *)
(* A path has one row for each kind of row the parser and instantiation   *)
(* create; the template has one node template, which requires itself.     *)
(***************************************************************************)
EXTENDS Schema

CONSTANTS
  Services,        \* the services that may be created
  TemplateOf       \* the service template each of them is made from

ServiceTemplates == {TemplateOf[s] : s \in Services}

Row(path, id) == [path |-> path, of |-> id]

-----------------------------------------------------------------------------
(* The paths of each family. *)

Parameters == {"input", "output", "property", "attribute", "configuration", "argument"}

TemplateTables ==
  Parameters \cup
  {"node_template", "group_template", "policy_template", "substitution_template_mapping",
   "requirement_template", "capability_template", "interface_template",
   "operation_template", "artifact_template", "plugin_specification"}

InstanceTables ==
  Parameters \cup
  {"node", "group", "policy", "substitution_mapping", "relationship", "capability",
   "interface", "operation", "artifact"}

ExecutionTables == Parameters \cup {"task", "log"}

\* Chains of collections, and those that are longer by one of the given tables.
Longer(paths, tables) ==
  paths \cup UNION {{<<child>> \o path : child \in Models[path[1]].owns \cap tables} : path \in paths}

\* Every chain from the root down: none has more than six tables.
PathsFrom(root, tables) ==
  LET longer(paths) == Longer(paths, tables)
  IN longer(longer(longer(longer(longer({root})))))

TemplatePaths ==
  UNION {PathsFrom(<<root>>, TemplateTables)
           : root \in {"service_template", "substitution_template",
                       "relationship_template", "type"}}

InstancePaths ==
  PathsFrom(<<"service">>, InstanceTables) \cup PathsFrom(<<"substitution">>, InstanceTables)

\* The tasks of an execution: a task of a node is listed under its execution, a task of a
\* relationship under the relationship, which owns it as well.  Logs hang from tasks and,
\* those of the workflow itself, from the execution.
ExecutionPaths ==
  PathsFrom(<<"execution", "service">>, ExecutionTables) \cup
  PathsFrom(<<"task", "relationship", "node", "service">>, ExecutionTables)

-----------------------------------------------------------------------------
(* Where the keys of a row point. *)

\* The template table of each instance table: what an instance row was made from.
TemplateTable ==
  [service |-> "service_template", node |-> "node_template", group |-> "group_template",
   policy |-> "policy_template", substitution |-> "substitution_template",
   relationship |-> "relationship_template", capability |-> "capability_template",
   interface |-> "interface_template", operation |-> "operation_template",
   artifact |-> "artifact_template"]

\* The row an instance row was made from; a relationship template hangs from no node.
MadeFrom(path) ==
  LET last == IF \E i \in DOMAIN path : path[i] = "relationship"
              THEN CHOOSE i \in DOMAIN path : path[i] = "relationship"
              ELSE Len(path)
  IN [i \in 1 .. last |-> TemplateTable[path[i]]]

\* Tables whose rows have one of several owners: their keys to the others are null.
OfOneOwner == Parameters \cup {"interface", "interface_template", "operation", "operation_template"}

Paths == TemplatePaths \cup InstancePaths \cup ExecutionPaths

\* The path of the rows of a table that has one.
PathTo ==
  [table \in {path[1] : path \in Paths} \ OfOneOwner
     |-> CHOOSE path \in Paths : path[1] = table]

Null == <<>>

\* The path a key refers to: the owner, the template the row was made from, or the row of
\* that table.  A parameter has an owner and nothing else, a root type has no parent, a
\* task is of a node or of a relationship, a log of the workflow itself has no task; a key
\* to another owner than the row has is null.
KeyPath(path, key) ==
  LET table == path[1]
      toOwner == Len(path) > 1 /\ key \in OwningKeys(table, path[2])
      unset == \/ table \in Parameters
               \/ key \in {"parent_type", "plugin"}
               \/ table = "task" /\ key = (IF path[2] = "relationship" THEN "node" ELSE "relationship")
               \/ table = "log" /\ key = "task"
      toTemplate == table \in DOMAIN TemplateTable /\ RefersTo(key) = TemplateTable[table]
      toOther == table \in OfOneOwner /\ table \in Models[RefersTo(key)].owns
  IN IF toOwner THEN Tail(path)
     ELSE IF unset THEN Null
     ELSE IF toTemplate THEN MadeFrom(path)
     ELSE IF ~ toOther /\ RefersTo(key) \in DOMAIN PathTo THEN PathTo[RefersTo(key)]
     ELSE Null

TemplateRows(t) == {Row(path, t) : path \in TemplatePaths}
InstanceRows(s) == {Row(path, s) : path \in InstancePaths}
ExecutionRows(s) == {Row(path, s) : path \in ExecutionPaths}

AllRows ==
  (UNION {TemplateRows(t) : t \in ServiceTemplates}) \cup
  (UNION {InstanceRows(s) \cup ExecutionRows(s) : s \in Services})

\* The rows that come and go with a relationship.
HasRelationship(path) == \E i \in DOMAIN path : path[i] = "relationship"

\* The keys of a relationship to where it ends: a node of a service of the same template,
\* since a node template lists the nodes of all its services.
EndKeys == {"target_node", "target_capability"}

SetKeys(row) == {key \in Keys(row.path[1]) : KeyPath(row.path, key) # Null}

\* The row a key of a row refers to, when relationships end in the nodes of a given service:
\* a row of the template it was made from, of that service, or of its own.
KeyRow(row, key, service) ==
  LET path == KeyPath(row.path, key)
      toTemplate == path \in TemplatePaths /\ row.path \notin TemplatePaths
      toEnd == row.path[1] = "relationship" /\ key \in EndKeys
  IN Row(path, IF toTemplate THEN TemplateOf[row.of] ELSE IF toEnd THEN service ELSE row.of)

\* A node is hosted by a node that was found along relationships, of whichever service.
Elsewhere == EndKeys \cup {"host"}

\* The rows each row refers to: always, and where a relationship of each service may end.
References ==
  [row \in AllRows |-> {KeyRow(row, key, row.of) : key \in SetKeys(row) \ Elsewhere}]

Ends ==
  [row \in AllRows |->
     [service \in Services |-> {KeyRow(row, key, service) : key \in SetKeys(row) \cap EndKeys}]]

\* Owned, with a cascade declared at the many side too: an instance takes its template along.
Owned_Bug ==
  [row \in AllRows |->
     {other \in AllRows :
        \/ other.path \in TemplatePaths /\ other \in References[row]
        \/ /\ other.path[1] \in Models[row.path[1]].owns
           /\ row \in References[other]}]

\* The rows each row owns, without the relationships that end in it.
Owned ==
  [row \in AllRows |->
     {child \in AllRows :
        /\ child.path[1] \in Models[row.path[1]].owns
        /\ \E key \in (OwningKeys(child.path[1], row.path[1]) \cap SetKeys(child)) \ EndKeys :
              KeyRow(child, key, row.of) = row}]

Relationships == {row \in AllRows : row.path[1] = "relationship"}

\* The relationships among the rows present, of whichever service, that end in rows.
Inbound(taken, present, target) ==
  {row \in Relationships \cap present : Ends[row][target[row.of]] \cap taken # {}}

\* What the cascade of the collections takes along with rows, among the rows present, and
\* the relationships that end in a node that goes.
Further_Bug(taken, present, target) ==
  taken \cup ((UNION {Owned[row] : row \in taken}) \cap present)

Further(taken, present, target) ==
  taken \cup ((UNION {Owned[row] : row \in taken}) \cap present) \cup Inbound(taken, present, target)

\* What deleting rows takes along: as far as the longest chain goes.
Cascade(start, present, target) ==
  LET taken[n \in 0 .. 6] ==
        IF n = 0 THEN start ELSE Further(taken[n - 1], present, target)
  IN taken[6]

\* Every key that may not be null refers to a row of the model.
ASSUME RequiredKeysAreSet ==
  \A path \in Paths : \A key \in Models[path[1]].needs : KeyPath(path, key) \in Paths
=============================================================================
