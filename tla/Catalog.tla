------------------------------ MODULE Catalog -------------------------------
(***************************************************************************)
(* The commands that store, create and delete what ARIA manages, run by   *)
(* separate processes over one database and one working directory:        *)
(* service templates, services, executions, plugins and type definitions. *)
(*                                                                        *)
(* A command reads and checks, then acts: the action that starts it holds *)
(* its checks, and each later action is one commit to the database or one *)
(* change of the file system.  What the checks loaded stays in the        *)
(* session and is what the deletion works from.  A command that is        *)
(* refused changes nothing and is not a step.                             *)
(***************************************************************************)
EXTENDS Rows

CONSTANTS
  Processes,       \* the processes that run commands
  Plugins,         \* the plugin packages (name and version)
  Definitions,     \* the type definitions (name and version)
  MaxCommands,     \* bound: commands started
  MaxCrashes       \* bound: commands killed half way

VARIABLES
  rows,            \* the rows of the database
  active,          \* the services whose execution has not ended
  available,       \* the services with an available node
  version,         \* the version counter of the node of each service
  target,          \* the service whose nodes the relationships of each service end in
  host,            \* the service whose node hosts the node of each service
  pluginRows,      \* how many rows each plugin has
  uploaded,        \* the service templates whose files are in the resource storage
  wagons,          \* the plugins whose files are in the plugin directory
  directories,     \* the type definitions that have a directory
  cmd,             \* what each process is doing
  raced,           \* whether two commands that do not exclude each other overlapped
  begun, crashes   \* counters for the bounds

database == <<rows, active, available, version, target, host, pluginRows>>
disk == <<uploaded, wagons, directories>>
bounds == <<raced, begun, crashes>>
vars == <<database, disk, cmd, bounds>>

TemplateRow(t) == Row(<<"service_template">>, t)
ServiceRow(s) == Row(<<"service">>, s)
NodeRow(s) == Row(<<"node", "service">>, s)
ExecutionRow(s) == Row(<<"execution", "service">>, s)
DefinitionRow(d) == Row(<<"type_definition">>, d)

Idle == [op |-> "none"]

\* What a process is doing, with what, how far it is, and what its checks saw.
Command(op, x, pc, saw) == [op |-> op, of |-> x, pc |-> pc, saw |-> saw]

Init ==
  /\ rows = {} /\ active = {} /\ available = {}
  /\ version = [s \in Services |-> 0]
  /\ target = [s \in Services |-> s] /\ host = [s \in Services |-> s]
  /\ pluginRows = [w \in Plugins |-> 0]
  /\ uploaded = {} /\ wagons = {} /\ directories = {}
  /\ cmd = [p \in Processes |-> Idle]
  /\ raced = FALSE /\ begun = 0 /\ crashes = 0

-----------------------------------------------------------------------------
(* Commands in flight. *)

\* Pairs of commands that overlap without noticing each other.
Racing ==
  {{"create", "drop"}, {"create", "delete"}, {"start", "delete"}, {"store", "drop"}, {"install"}, {"load", "undefine"}}

Racers(op) == {{op, cmd[p].op} : p \in {q \in Processes : cmd[q] # Idle}} \cap Racing

\* What a deletion keeps from its checks, and a creation of the nodes it found; the other
\* commands keep nothing they act on.
Nothing == [executed |-> FALSE, nodes |-> {}]

BeginWith(p, op, x, pc, saw) ==
  /\ cmd[p] = Idle /\ begun < MaxCommands
  /\ cmd' = [cmd EXCEPT ![p] = Command(op, x, pc, saw)]
  /\ begun' = begun + 1
  /\ raced' = (raced \/ Racers(op) # {})
  /\ UNCHANGED crashes

Begin(p, op, x, pc) == BeginWith(p, op, x, pc, Nothing)

At(p, op, pc) == cmd[p] # Idle /\ cmd[p].op = op /\ cmd[p].pc = pc

Goto(p, pc) ==
  /\ cmd' = [cmd EXCEPT ![p] = Command(@.op, @.of, pc, @.saw)]
  /\ UNCHANGED bounds

End(p) == cmd' = [cmd EXCEPT ![p] = Idle] /\ UNCHANGED bounds

-----------------------------------------------------------------------------
(* service-templates store and delete *)

\* The name is checked by the database, when the row is put.
StoreTemplate(p, t) == Begin(p, "store", t, "put") /\ UNCHANGED <<database, disk>>

PutTemplate(p) ==
  LET t == cmd[p].of
  IN /\ At(p, "store", "put")
     /\ \/ TemplateRow(t) \in rows /\ End(p) /\ UNCHANGED rows
        \/ /\ TemplateRow(t) \notin rows
           /\ rows' = rows \cup TemplateRows(t)
           /\ Goto(p, "upload")
     /\ UNCHANGED <<active, available, version, target, host, pluginRows, disk>>

UploadTemplate(p) ==
  /\ At(p, "store", "upload")
  /\ uploaded' = uploaded \cup {cmd[p].of}
  /\ End(p)
  /\ UNCHANGED <<database, wagons, directories>>

ServicesOf(t) == {s \in Services : TemplateOf[s] = t /\ ServiceRow(s) \in rows}

DropTemplate(p, t) ==
  /\ TemplateRow(t) \in rows
  /\ ServicesOf(t) = {}
  /\ Begin(p, "drop", t, "delete")
  /\ UNCHANGED <<database, disk>>

\* The collection of services was loaded, empty, by the check; the others are loaded now.
DeleteTemplate(p) ==
  LET t == cmd[p].of
      unseen == {ServiceRow(s) : s \in ServicesOf(t)}
  IN /\ At(p, "drop", "delete")
     /\ rows' = rows \ Cascade({TemplateRow(t)}, rows \ unseen, target)
     /\ Goto(p, "files")
     /\ UNCHANGED <<active, available, version, target, host, pluginRows, disk>>

\* The row is deleted, its resources are not.
DeleteFiles_Bug(p) ==
  /\ At(p, "drop", "files")
  /\ End(p)
  /\ UNCHANGED <<database, disk>>

DeleteFiles(p) ==
  /\ At(p, "drop", "files")
  /\ uploaded' = uploaded \ {cmd[p].of}
  /\ End(p)
  /\ UNCHANGED <<database, wagons, directories>>

-----------------------------------------------------------------------------
(* services create and delete *)

\* The nodes a requirement may be satisfied with are those that the node template lists:
\* those of the services that exist, and the new ones.
CreateService(p, s) ==
  /\ TemplateRow(TemplateOf[s]) \in rows
  /\ \E found \in {s} \cup ServicesOf(TemplateOf[s]) :
        BeginWith(p, "create", s, "put", [executed |-> FALSE, nodes |-> {found}])
  /\ UNCHANGED <<database, disk>>

\* The instance was built from the template as it was read; all its rows are one commit.  The
\* search for the host follows relationships in both directions, from node to node.
PutService(p) ==
  LET s == cmd[p].of
      hosts(found) == {s, found} \cup (IF found = s THEN {} ELSE ServicesOf(TemplateOf[s]))
  IN /\ At(p, "create", "put")
     /\ \/ ServiceRow(s) \in rows /\ UNCHANGED <<rows, available, version, target, host>>
        \/ /\ ServiceRow(s) \notin rows
           /\ rows' = rows \cup InstanceRows(s)
           /\ available' = available \ {s}
           /\ version' = [version EXCEPT ![s] = 1]
           /\ \E found \in cmd[p].saw.nodes :
                /\ target' = [target EXCEPT ![s] = found]
                /\ \E hosting \in hosts(found) : host' = [host EXCEPT ![s] = hosting]
     /\ End(p)
     /\ UNCHANGED <<active, pluginRows, disk>>

Executed(s) == ExecutionRow(s) \in rows

NodeVersion(s) == IF NodeRow(s) \in rows THEN version[s] ELSE 0

DeleteService(p, s, force) ==
  /\ ServiceRow(s) \in rows
  /\ ~ (Executed(s) /\ s \in active)
  /\ force \/ ~ (NodeRow(s) \in rows /\ s \in available)
  /\ BeginWith(p, "delete", s, "rows",
               [executed |-> Executed(s), nodes |-> IF force THEN {} ELSE {NodeVersion(s)}])
  /\ UNCHANGED <<database, disk>>

\* Nodes that were loaded by the check are deleted at their version: if another process
\* wrote one since, the whole deletion is rolled back.
DeleteServiceRows(p) ==
  LET s == cmd[p].of
      saw == cmd[p].saw
      unseen == IF saw.executed THEN {} ELSE {ExecutionRow(s)}
      conflict == saw.nodes # {} /\ NodeVersion(s) \notin saw.nodes
  IN /\ At(p, "delete", "rows")
     /\ rows' = IF conflict THEN rows ELSE rows \ Cascade({ServiceRow(s)}, rows \ unseen, target)
     /\ End(p)
     /\ UNCHANGED <<active, available, version, target, host, pluginRows, disk>>

-----------------------------------------------------------------------------
(* executions start, logs delete *)

\* Bound: one execution of a service.
StartExecution(p, s) ==
  /\ ServiceRow(s) \in rows /\ ~ Executed(s)
  /\ \A q \in Processes : cmd[q] # Idle => ~ (cmd[q].op = "start" /\ cmd[q].of = s)
  /\ Begin(p, "start", s, "execution")
  /\ UNCHANGED <<database, disk>>

PutExecution(p) ==
  LET s == cmd[p].of
  IN /\ At(p, "start", "execution")
     /\ rows' = rows \cup {ExecutionRow(s), Row(<<"input", "execution", "service">>, s)}
     /\ active' = active \cup {s}
     /\ Goto(p, "tasks")
     /\ UNCHANGED <<available, version, target, host, pluginRows, disk>>

\* The tasks of the workflow, on nodes and on relationships: a task of a relationship needs
\* one that no deletion has taken.
PutTasks(p) ==
  LET s == cmd[p].of
      rowsUnder(table, owners) ==
        {row \in ExecutionRows(s) : row.path[1] = table /\ Row(Tail(row.path), s) \in owners}
      tasks == IF Executed(s) THEN rowsUnder("task", rows) ELSE {}
  IN /\ At(p, "start", "tasks")
     /\ rows' = rows \cup tasks \cup rowsUnder("argument", tasks)
     /\ Goto(p, "run")
     /\ UNCHANGED <<active, available, version, target, host, pluginRows, disk>>

LogPaths == {path \in ExecutionPaths : path[1] = "log"}
LogRows(s) == {Row(path, s) : path \in LogPaths}

\* The workflow and its tasks log, and the tasks update the node; a row that is gone ends the
\* workflow with an error.
RunTasks(p) ==
  LET s == cmd[p].of
      there == {ExecutionRow(s), NodeRow(s)} \subseteq rows
  IN /\ At(p, "start", "run")
     /\ \/ /\ there
           /\ rows' = rows \cup {log \in LogRows(s) : Row(Tail(log.path), s) \in rows}
           /\ version' = [version EXCEPT ![s] = @ + 1]
           /\ available' \in {available \cup {s}, available \ {s}}
        \/ ~ there /\ UNCHANGED <<rows, version, available>>
     /\ Goto(p, "end")
     /\ UNCHANGED <<active, target, host, pluginRows, disk>>

EndExecution(p) ==
  /\ At(p, "start", "end")
  /\ active' = IF Executed(cmd[p].of) THEN active \ {cmd[p].of} ELSE active
  /\ End(p)
  /\ UNCHANGED <<rows, available, version, target, host, pluginRows, disk>>

DeleteLogs(p, s) ==
  /\ cmd[p] = Idle /\ begun < MaxCommands /\ LogRows(s) \cap rows # {}
  /\ rows' = rows \ LogRows(s)
  /\ begun' = begun + 1
  /\ UNCHANGED <<active, available, version, target, host, pluginRows, disk, cmd, raced, crashes>>

-----------------------------------------------------------------------------
(* plugins install *)

\* A plugin is installed whether it is or not.
InstallPlugin_Bug(p, w) ==
  /\ Begin(p, "install", w, "wagon")
  /\ UNCHANGED <<database, disk>>

InstallPlugin(p, w) ==
  /\ pluginRows[w] = 0
  /\ Begin(p, "install", w, "wagon")
  /\ UNCHANGED <<database, disk>>

InstallWagon(p) ==
  /\ At(p, "install", "wagon")
  /\ wagons' = wagons \cup {cmd[p].of}
  /\ Goto(p, "put")
  /\ UNCHANGED <<database, uploaded, directories>>

\* No column of a plugin is unique: the row is put whatever was put since the check.
PutPlugin(p) ==
  /\ At(p, "install", "put")
  /\ pluginRows' = [pluginRows EXCEPT ![cmd[p].of] = @ + 1]
  /\ End(p)
  /\ UNCHANGED <<rows, active, available, version, target, host, disk>>

-----------------------------------------------------------------------------
(* type-definitions load and delete *)

LoadDefinition(p, d) ==
  /\ DefinitionRow(d) \notin rows /\ d \notin directories
  /\ Begin(p, "load", d, "directory")
  /\ UNCHANGED <<database, disk>>

\* The directory is created by one call that fails when it exists.
MakeDirectory(p) ==
  /\ At(p, "load", "directory")
  /\ \/ cmd[p].of \in directories /\ End(p) /\ UNCHANGED directories
     \/ /\ cmd[p].of \notin directories
        /\ directories' = directories \cup {cmd[p].of}
        /\ Goto(p, "put")
  /\ UNCHANGED <<database, uploaded, wagons>>

PutDefinition(p) ==
  /\ At(p, "load", "put")
  /\ rows' = rows \cup {DefinitionRow(cmd[p].of)}
  /\ End(p)
  /\ UNCHANGED <<active, available, version, target, host, pluginRows, disk>>

DeleteDefinition(p, d) ==
  /\ DefinitionRow(d) \in rows
  /\ Begin(p, "undefine", d, "directory")
  /\ UNCHANGED <<database, disk>>

RemoveDirectory(p) ==
  /\ At(p, "undefine", "directory")
  /\ directories' = directories \ {cmd[p].of}
  /\ Goto(p, "row")
  /\ UNCHANGED <<database, uploaded, wagons>>

DeleteDefinitionRow(p) ==
  /\ At(p, "undefine", "row")
  /\ rows' = rows \ {DefinitionRow(cmd[p].of)}
  /\ End(p)
  /\ UNCHANGED <<active, available, version, target, host, pluginRows, disk>>

-----------------------------------------------------------------------------

\* The process is killed, or a copy of files fails: what was done stays done.
Crash(p) ==
  /\ cmd[p] # Idle /\ crashes < MaxCrashes
  /\ cmd' = [cmd EXCEPT ![p] = Idle]
  /\ crashes' = crashes + 1
  /\ UNCHANGED <<database, disk, raced, begun>>

TemplateCommand(p) ==
  \/ \E t \in ServiceTemplates : StoreTemplate(p, t) \/ DropTemplate(p, t)
  \/ PutTemplate(p) \/ UploadTemplate(p) \/ DeleteTemplate(p) \/ DeleteFiles(p)

ServiceCommand(p) ==
  \/ \E s \in Services : CreateService(p, s) \/ \E force \in BOOLEAN : DeleteService(p, s, force)
  \/ PutService(p) \/ DeleteServiceRows(p)

ExecutionCommand(p) ==
  \/ \E s \in Services : StartExecution(p, s) \/ DeleteLogs(p, s)
  \/ PutExecution(p) \/ PutTasks(p) \/ RunTasks(p) \/ EndExecution(p)

PluginCommand(p) ==
  (\E w \in Plugins : InstallPlugin(p, w)) \/ InstallWagon(p) \/ PutPlugin(p)

DefinitionCommand(p) ==
  \/ \E d \in Definitions : LoadDefinition(p, d) \/ DeleteDefinition(p, d)
  \/ MakeDirectory(p) \/ PutDefinition(p) \/ RemoveDirectory(p) \/ DeleteDefinitionRow(p)

Next ==
  \E p \in Processes :
     \/ TemplateCommand(p) \/ ServiceCommand(p) \/ ExecutionCommand(p)
     \/ PluginCommand(p) \/ DefinitionCommand(p) \/ Crash(p)

Spec == Init /\ [][Next]_vars

-----------------------------------------------------------------------------
(* Properties *)

\* The roots whose rows no deletion takes along: nothing that is deleted owns them.
Kept == (Unowned \ {"service_template"}) \cup {"substitution"}
Watched == {row \in AllRows : row.path[Len(row.path)] \notin Kept}

\* A deletion leaves no row behind that refers to a row it took: unless two commands raced,
\* the references of every row resolve, except those of rows that no deletion takes along
\* (the mappings of a substitution, say), and of a node whose host was in another service,
\* which is gone as a whole.  The cascade of the collections and the foreign keys have to
\* agree for this: SQLite is not asked to enforce the keys.
ReferencesResolve ==
  raced \/
    /\ \A row \in rows \cap Watched : References[row] \subseteq rows
    /\ \A row \in rows \cap Relationships : Ends[row][target[row.of]] \subseteq rows
    /\ \A s \in Services :
         NodeRow(s) \in rows =>
           NodeRow(host[s]) \in rows \/ (host[s] # s /\ ServiceRow(host[s]) \notin rows)

\* The relationships that end in nodes of a service, with what hangs from them: the tasks that
\* executions ran on them too, and the arguments and logs of those.
RelationshipsTo(s) ==
  {row \in AllRows : row.of \in Services /\ target[row.of] = s /\ HasRelationship(row.path)}

\* Deleting a service takes no row of another service but relationships that end in its nodes
\* and what hangs from those, tasks of the other's executions included, and none of a
\* template: cascades run from templates to instances and never back.  Storing again or
\* deleting a template whose name is in use takes no row of a service.
ServicesAreSeparate ==
  [][\A p \in Processes :
       /\ DeleteServiceRows(p) =>
            rows \ rows' \subseteq
              InstanceRows(cmd[p].of) \cup ExecutionRows(cmd[p].of) \cup RelationshipsTo(cmd[p].of)
       /\ PutTemplate(p) => rows \subseteq rows'
       /\ DeleteTemplate(p) /\ ~ raced => rows \ rows' \subseteq TemplateRows(cmd[p].of)]_vars

AtRest == \A p \in Processes : cmd[p] = Idle

\* When no command is in flight and none was killed or raced, the files are those of the
\* rows: a stored template has its resources, a plugin its wagon, a type definition its
\* directory, and nothing else is left on the disk.
FilesFollowRows ==
  AtRest /\ crashes = 0 /\ ~ raced =>
    /\ uploaded = {t \in ServiceTemplates : TemplateRow(t) \in rows}
    /\ wagons = {w \in Plugins : pluginRows[w] > 0}
    /\ directories = {d \in Definitions : DefinitionRow(d) \in rows}

\* A package and version is installed once, unless two installations of it raced.
PluginsAreUnique == raced \/ \A w \in Plugins : pluginRows[w] <= 1

-----------------------------------------------------------------------------
(* The inductive invariant of what is said of plugins and files. *)

Ops == {"store", "drop", "create", "delete", "start", "install", "load", "undefine"}

Stages ==
  {"put", "upload", "delete", "files", "rows", "execution", "tasks", "run", "end", "wagon",
   "directory", "row"}

Commands ==
  {c \in [op : Ops,
          of : ServiceTemplates \cup Services \cup Plugins \cup Definitions,
          pc : Stages,
          saw : [executed : BOOLEAN, nodes : SUBSET (Services \cup Nat)]] :
     /\ c.op \in {"store", "drop"} => c.of \in ServiceTemplates
     /\ c.op \in {"create", "delete", "start"} => c.of \in Services
     /\ c.op = "create" => c.saw.nodes \subseteq Services
     /\ c.op = "install" => c.of \in Plugins
     /\ c.op \in {"load", "undefine"} => c.of \in Definitions}

TypeOK ==
  /\ rows \subseteq AllRows \cup {DefinitionRow(d) : d \in Definitions}
  /\ active \subseteq Services /\ available \subseteq Services
  /\ version \in [Services -> Nat]
  /\ target \in [Services -> Services] /\ host \in [Services -> Services]
  /\ pluginRows \in [Plugins -> Nat]
  /\ uploaded \subseteq ServiceTemplates /\ wagons \subseteq Plugins
  /\ directories \subseteq Definitions
  /\ cmd \in [Processes -> {Idle} \cup Commands]
  /\ raced \in BOOLEAN /\ begun \in Nat /\ crashes \in Nat

\* Commands that exclude each other are not in flight together.
Exclusive ==
  raced \/ \A p, q \in Processes :
              p # q /\ cmd[p] # Idle /\ cmd[q] # Idle => {cmd[p].op, cmd[q].op} \notin Racing

InFlight(op, pc, x) == \E p \in Processes : At(p, op, pc) /\ cmd[p].of = x

\* What is on the disk and not in the database, or the other way round, is in the hands of
\* a command that is half way.
TemplateAgrees(t) ==
  /\ TemplateRow(t) \in rows => t \in uploaded \/ InFlight("store", "upload", t)
  /\ t \in uploaded => TemplateRow(t) \in rows \/ InFlight("drop", "files", t)
  /\ InFlight("store", "upload", t) => TemplateRow(t) \in rows
  /\ InFlight("drop", "files", t) => TemplateRow(t) \notin rows

DefinitionAgrees(d) ==
  /\ DefinitionRow(d) \in rows => d \in directories \/ InFlight("undefine", "row", d)
  /\ d \in directories => DefinitionRow(d) \in rows \/ InFlight("load", "put", d)
  /\ InFlight("load", "put", d) => d \in directories
  /\ InFlight("undefine", "row", d) => d \notin directories

PluginAgrees(w) ==
  /\ pluginRows[w] > 0 => w \in wagons
  /\ w \in wagons => pluginRows[w] > 0 \/ InFlight("install", "put", w)
  /\ InFlight("install", "put", w) => w \in wagons

HalvesAgree ==
  crashes = 0 /\ ~ raced =>
    /\ \A t \in ServiceTemplates : TemplateAgrees(t)
    /\ \A d \in Definitions : DefinitionAgrees(d)
    /\ \A w \in Plugins : PluginAgrees(w)

\* What is being installed has not been installed yet.
InstallsAreFirst ==
  raced \/ \A w \in Plugins :
    InFlight("install", "wagon", w) \/ InFlight("install", "put", w) => pluginRows[w] = 0

\* The row that owns a row of a service or of an execution is there.
OwnersArePresent ==
  raced \/ \A s \in Services : \A row \in rows \cap (InstanceRows(s) \cup ExecutionRows(s)) :
              Len(row.path) > 1 => Row(Tail(row.path), s) \in rows

\* What the command of a process saw when it began still holds when it acts.
CheckHolds(p) ==
  /\ At(p, "drop", "delete") => ServicesOf(cmd[p].of) = {}
  /\ At(p, "delete", "rows") /\ ~ cmd[p].saw.executed => ~ Executed(cmd[p].of)
  /\ \A pc \in Stages : At(p, "start", pc) =>
        /\ ServiceRow(cmd[p].of) \in rows
        /\ pc = "tasks" => Executed(cmd[p].of)

ChecksHold == raced \/ \A p \in Processes : CheckHolds(p)

IInv ==
  /\ TypeOK /\ Exclusive
  /\ HalvesAgree /\ InstallsAreFirst /\ PluginsAreUnique
  /\ OwnersArePresent /\ ChecksHold

-----------------------------------------------------------------------------
(* The inductive invariant of what rows refer to. *)

\* Of a template all rows are there or, but for those that no deletion takes, none.
TemplatesAreWhole ==
  \A t \in ServiceTemplates :
     rows \cap Watched \cap TemplateRows(t) # {} => TemplateRows(t) \subseteq rows

\* With a service its template is there, and all that was made with it but relationships,
\* which the deletion of another service may have taken.
ServicesAreWhole ==
  \A s \in Services : ServiceRow(s) \in rows =>
     /\ TemplateRow(TemplateOf[s]) \in rows
     /\ \A row \in InstanceRows(s) : HasRelationship(row.path) \/ row \in rows

\* The service that a relationship ends in is there.
EndsArePresent ==
  \A row \in rows \cap Relationships : ServiceRow(target[row.of]) \in rows

\* What an execution left is of an execution that is there.
ExecutionsArePresent ==
  \A s \in Services : rows \cap ExecutionRows(s) # {} => ExecutionRow(s) \in rows

\* The template of a service that is being created is there, and what its relationship
\* will end in.
CreationsHold ==
  \A p \in Processes : At(p, "create", "put") =>
     /\ TemplateRow(TemplateOf[cmd[p].of]) \in rows
     /\ \A found \in cmd[p].saw.nodes : found = cmd[p].of \/ ServiceRow(found) \in rows

ReferencesInv ==
  raced \/
    /\ TemplatesAreWhole /\ ServicesAreWhole /\ EndsArePresent
    /\ ExecutionsArePresent /\ CreationsHold
=============================================================================
