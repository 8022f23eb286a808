# ARIA in TLA+

Models of [ARIA](../src/README.rst), the TOSCA orchestrator: how it reads and
validates a template and its imports, creates services from it, evaluates their
functions, turns a workflow into a graph of tasks, executes that graph through an
executor that may lose or fail tasks, lets users cancel, resume and delete what
they started, and what its rows and files say afterwards. Paths below are relative to
`src/aria/` unless they begin with `src/`.

1. [The system](#1-the-system): components, state, operations, what is hard
2. [The modules](#2-the-modules): which module models what, and how
3. [The runs](#3-the-runs): what is checked, with which bounds and fairness
4. [The proofs](#4-the-proofs)
5. [Where the code and what is said of it disagree](#5-where-the-code-and-what-is-said-of-it-disagree)
6. [What is not modelled](#6-what-is-not-modelled)
7. [Plan](#7-plan)

## 1. The system

A user stores a *service template* and instantiates it as a *service*: nodes,
relationships, interfaces and operations, all rows of a database. A *workflow*
(built in, or a function of a plugin) run on a service is an *execution*. The
workflow function builds a *task graph*; the compiler stores it as *task* rows
with dependencies; the *engine* polls these rows in a thread, hands tasks that
are ready to an *executor* and moves the rows when the executor reports.

```
 template --Read--> presentation --> template rows --topology--> service rows
                                                                     |
 aria executions start                                               v
   preparer --calls--> workflow function --builds--> task graph (api)
   preparer --calls--> compiler ---------- puts ---> task rows
   Engine.execute (thread) --polls--> task rows, execution row
        | _task_sent; executor.execute(ctx)                   ^
        v                                                     |
   executor (thread | process + listener | dry) --signals--> events handlers
 Ctrl+C: main thread, own session --> execution row (cancelling)
```

### Components

For each: what it keeps, what it does, who it talks to, what is hard, and what
makes it correct. `PROJECT.json` lists them all with their status.

**Workflow engine** (`orchestrator/workflows/core/engine.py`,
`events_handler.py`). State: the execution row (`status`), the task rows
(`status`, `attempts_count`, `due_at`, dependencies), and in memory the
`_TasksTracker`, three lists of tasks, and the SQLAlchemy session of the thread.
Operations: `execute` (fresh, resumed, resumed with failed tasks retried) loops
over *check for cancellation, collect ended tasks, hand out ready ones*, and ends
with a report of success, failure or cancellation; `cancel_execution` is called by
another thread. Every status change is made by a blinker signal handler. Hard:
four kinds of threads write the rows (engine, executor threads, canceller, other
processes); the session of each caches what it read; a list is modified while it
is iterated; retries, lost reports, crashes and resumption. Correct when a task
runs only after what it depends on, success means that everything is done,
nothing runs after the end, attempts respect their limit, ended tasks stay ended
and every execution ends.

**Process executor** (`executor/process.py`). State: the registry `_tasks`, the
`_stopped` flag, a server socket, one child process per attempt. Children connect
for every message and wait for the answer; a listener thread serves one
connection at a time, looks the task up by id and emits the event. Hard: a child
can outrun its registration, die silently, or report when its task was already
terminated and handed out again; handlers raise; `close` races with the listener.
Correct when a report is credited to the attempt it is of, what runs can be
terminated, `close` leaves nothing running and returns, and every task handed
over is reported.

**Other executors** (`executor/base.py`, `thread.py`, `dry.py`, `celery.py`).
`BaseExecutor` skips operations without a function; threads take contexts from a
queue and cannot be terminated; the dry executor writes the row itself and raises
no event.

**Graph compiler, task graph, built-in workflows**
(`workflows/core/graph_compiler.py`, `api/`, `builtin/`). State: the graph under
construction, the rows put so far, a recursion over sub-workflows. Hard: task
order comes from the topological sort of each level, dependencies between levels
from searches among the rows, and the end marker of a graph from "whatever nothing
depends on yet". Correct when the order asked for is the order of the rows, markers
enclose their graph, each task appears once, and nodes go through their life
cycle in the order of their relationships.

**Preparer and commands** (`orchestrator/execution_preparer.py`,
`cli/commands/executions.py`, `services.py`, `core.py`). State: service, node and
execution rows shared by processes. Operations: `start`, `resume`, `--dry`,
Ctrl+C, `services delete`. Hard: checks and writes are separate transactions of
separate processes; a row left behind by an error or a kill is what the next
command works on; inside one process, the engine's thread and the main thread, which
handles Ctrl+C, hold the row in a session each. Correct when only completely prepared
executions run, an execution that blocks its service has an engine that will end it,
a service is not deleted with leftovers outside, and dry runs have no side effects.

**Node lifecycle** (`modeling/service_instance.py`). State: `Node.state`, moved by
the handlers of the Standard interface's operations, with a version column.

**Reading of imports, thread pool** (`parser/consumption/presentation.py`,
`utils/threading.py`). State: a queue that counts its unfinished entries, worker
threads, a cache per reader and one per process. Hard: jobs submit jobs, imports
are circular, a lookup and its store are not one step, results arrive in any
order and are merged afterwards. Correct when `drain` returns exactly when
everything has been read, nothing is read without bound, the pool can be closed,
and what is merged is complete and does not depend on timing.

**Presentation and grammar** (`parser/presentation/`, `parser/consumption/`,
`src/extensions/aria_extension_tosca/simple_v1_0/*.py`). State: the raw document,
the issues reported so far, and which consumer of the chain runs. A presentation
class declares its fields with decorators; a field knows how to read its raw value
and to validate what is in it. Hard: nine variants of fields with their own way
down, validators that read a field again and raise, two copies of the climb
along `derived_from`. Correct when a document with a fault never becomes rows.

**Type semantics** (`simple_v1_0/modeling/`). Pure functions on what was read:
requirements and capabilities inherited along a chain of types and merged with the
assignments of a template. Correct when what comes out is what the nearest
definition asks for.

**Topology and creation of services** (`orchestrator/topology/`,
`core.create_service`). State: a SQLAlchemy session that holds a half made
service, and the rows of other services it reads. Operations: instantiate the
nodes, satisfy their requirements, validate capabilities, assign hosts, configure
operations, coerce values. Hard: loops that stop at the first failure, capacity
counted in rows that other creations read too, sessions that survive a refusal, a
search for hosts that remembers nothing, functions replaced by values before all
they depend on is known. Correct when what is accepted is complete, fits the
types, keeps capacities, and still means what the template said.

**Storage and files** (`storage/`, `modeling/`, `core.py`, `orchestrator/plugin.py`,
`type_definition_manager.py`). State: 40 tables that refer to each other, the
directories of templates, plugins and type definitions. Operations: store and
delete templates, create and delete services, install plugins, load and delete
type definitions, run executions, each as a few commits and file operations of its
own process. Hard: cascades along collections that the database does not enforce,
checks and deletions in separate transactions, rows and files in separate steps.
Correct when no reference dangles, nothing of another service is deleted, and rows
and files agree.

**Contexts and the execution plugin** (`orchestrator/context/`,
`orchestrator/execution_plugin/`): what an operation sees; scripts reach it
through an HTTP proxy. State: the context and a server thread.

**Loading and reading, caching, utilities, logging, command line**: small or
without control of their own; see section 6.

The hazards that follow from this, each at its line and with the properties that
would catch it, are in `PROJECT.json` under `hazards`.

## 2. The modules

| Module | Models | Kind |
|---|---|---|
| `Orchestration` | statuses, transitions and decisions of `modeling/orchestration.py` | constant level |
| `Engine` | engine, events handlers, canceller, an abstract executor, processes | state machine |
| `EngineProperties` | what an execution promises; the inductive invariant | properties |
| `Workflow` | execution of a task graph, without engine, rows or processes | abstract specification |
| `EngineRefinement` | `Engine` implements `Workflow` | refinement mapping |
| `ProcessExecutor` | the sub-process executor and its children | state machine |
| `TaskGraph`, `BuiltinWorkflows` | task graphs, and those of the built-in workflows | operators |
| `GraphCompiler` | workflow functions and the compiler; composes the two above | state machine |
| `ServiceExecutions` | commands of several users on one service | state machine |
| `ThreadPool` | `FixedThreadPoolExecutor`, as operations for a client | operations |
| `ImportReader` | the `Read` consumer, for any merge; uses the pool | state machine |
| `Merging` | the merge of what was read | operators |
| `MergedImports` | the reader with this merge; composes the two above | properties |
| `Grammar` | the presentation classes of the TOSCA Simple Profile | constant level |
| `Presentation` | reading and validation of fields and presentations | operators |
| `Parsing` | the chain of consumers on one document; composes the two above | state machine |
| `Definitions` | requirements and capabilities of node templates | operators |
| `ServiceCreation` | `create_service`, by several processes; uses `Definitions` | state machine |
| `Intrinsics` | the intrinsic functions and their evaluation | operators |
| `Coercion` | what is coerced when; uses `Intrinsics` | state machine |
| `Schema` | the tables and what they own and refer to | constant level |
| `Rows` | the rows of a template, a service, an execution; cascades; uses `Schema` | operators |
| `Catalog` | commands of several processes on rows and files; uses `Rows` | state machine |
| `EngineProofs`, `EngineRefinementProofs`, `ProcessExecutorProofs`, `ServiceExecutionsProofs`, `ImportReaderProofs`, `CatalogProofs`, `GraphCompilerProofs`, `ServiceCreationProofs` | theorems about the module of their name | proofs |
| `MC*` | small instances | TLC |

An operator `Name_Bug`, defined before `Name`, is `Name` with a plausible bug; no
specification uses it. It exists to show that a property notices the bug.

### Engine

| Code | Model |
|---|---|
| `Execution.status`, `Task.status`, `attempts_count`, `due_at` | `status`, `taskStatus`, `attempts`, `due` (a boolean: has it passed) |
| `_TasksTracker._executed/_executing/_executable_tasks` | `executed`, `executing`, `executable` |
| the iteration the engine is in the middle of | `scan`: what is left to visit, in any order |
| program point in `Engine.execute` | `pc`; how the loop ended: `ending` |
| the `status` attribute loaded in the thread's session | `view` (engine), `cview` (canceller) |
| operation contexts the executor holds | `ctx`: queued, running, or a report on its way |
| `_workflow_resume`, with and without `retry_failed` | `BeginResumed`, `BeginRefused` |
| `_is_cancel`, `_handle_ended_tasks`, `_handle_executable_task` | `CheckCancel`; `PassRunning`, `RaiseFailed`, `Finished`; `Dispatch...` |
| `_workflow_started/succeeded/failed/cancelled/cancelling` | `WorkflowStarted`, `ReportSucceeded/Failed/Cancelled`, `CancelWrite` |
| `_task_sent`, `_task_started`, `_task_succeeded`, `_task_failed` | inside `DispatchOperation`; `TaskStarted`, `TaskSucceeded`, `TaskFailed` |

Choices worth knowing:

- *Sessions.* Each thread checks a transition against the status its own session
  has loaded and then writes the row; the row has no version column. The engine
  refreshes in `_is_cancel`; otherwise what it reads is `Loaded`: the old value,
  or the row's if a commit of the same thread (a log record) expired it.
- *The executor* is the most liberal one the engine tolerates: a context that is
  queued may start or fail, a running one may report success, failure or abort,
  and a report on its way can no longer be stopped. `terminate` stops what is not
  yet reporting, which is what the process executor does and what the thread
  executor does not do; see section 6.
- *`Finished` skips.* `finished` removes the task from the list that `ended_tasks`
  iterates, so that the pass misses the task behind it: any other one, since the
  order of the list is not modelled.
- *Faults* are a constant, so that a run says what may go wrong: `cancel`,
  `crash` (the process at any point), `lost` (a report), `dispatch` (handing out
  raises). A second Ctrl+C, or an error of the main thread, ends the process and
  is a `Crash`.
- *History variables* `failures`, `aborted`, `carried`, `lost` are written and
  never read by actions.

### ProcessExecutor

`registered` is `_tasks`; `registering` is the window between `Popen` and the
assignment; `backlog` is the listen queue, `open` the socket; `lpc`, `msg`,
`answer` are the listener in `_accept_request`; `caller` is the thread in
`close`. `Execute` includes the `sent` row that the engine has just written.
`Send` is a connection the child then waits on. `Boot` covers loading of context
and function (it may report a failure instead of a start). The answer to a
message that raised is an exception, which a child turns into a report of
failure, except when the failure report itself raised: then the child ends.
Serialised arguments, temporary files and the environment are left out.

### TaskGraph, BuiltinWorkflows, GraphCompiler

A custom workflow function is any sequence of `add_tasks`, `remove_tasks`,
`add_dependency`, `remove_dependency` on a graph with one sub-workflow. Built-in
workflows are functions from a service (nodes, ordered outbound relationships,
operations that are missing) to graphs; a relationship is known by its position among
those of its node, so that two that lead to one target have tasks of their own. `GraphCompiler` puts one row per action;
`stack` is the recursion of `compile`, and `IsNext` leaves open which of the
topological orders the sort returns. Row numbers stand for task rows, so that
"depends on an earlier row" is `deps \subseteq 1..(i - 1)`.

### ServiceExecutions

One service with one node, any number of users with a terminal each. A command is
a process: `cmd[u]` says where it is and on which execution. An execution is its
row's status, whether its rows were put completely (`prepared`), and how many of
its operations have succeeded (`done`): a chain `create, configure, start` or
`stop, delete` of the Standard interface. `Vanished` is the error a command gets when
another one deleted its row.

| Code | Model |
|---|---|
| where `Engine.execute` is, then the main thread | `cmd[u].pc`; `Driving` while the engine has yet to write an end |
| the status loaded in the session of the engine's thread | `cmd[u].view`, read through `Loaded` |
| the status loaded in the session of the main thread | `cmd[u].held`: `"none"` before the first log is listed, unless the command is `resume` |
| `_workflow_cancelling`, in the main thread at any time | `WorkflowCancelling`; refused by the validator: `CancelRefused` |
| `_run_execution` after the loop | `Exit`, `DryRemoved`, errors: `Raise` |

The check of a status and the commit of the new one are about what the session holds,
as in `Engine`, and the main thread outlives the engine's by up to a second: a Ctrl+C
handled then writes over the end. After one Ctrl+C the handler has been used up
(`"over"`); a second one is a kill. History variables: `resource`, whether what
`create` makes may exist outside, from the moment the operation starts until a delete
operation succeeds *while no create operation is under way* (in another process, or
of a process that ended: `loose`); `overlapped`, whether a delete operation ever
succeeded beside a create operation; `crashed`, executions killed while active; `cut`,
executions that a Ctrl+C left active without an engine.

### ThreadPool, ImportReader, Merging, MergedImports

`ThreadPool` has the operations of the pool (`Submit`, `Get`, `Return`, `Raise`,
`Drained`, `IsAlive`, `Poison`) as actions over its own variables; `ImportReader`
says when they are taken. `Present(t)` is `_present` of a thread, split where
another thread can come in between: look up, create, store, submit, return. `get`
with a timeout that finds nothing is a stutter. The calling thread presents the
main location itself; then it drains, closes, merges (`Merging`, in the order of
`FixedThreadPoolExecutor.returns`) and caches. Several templates are parsed in
turn by one process, so that later ones meet what earlier ones cached. The raw
contents of a presentation are reduced to the paths it defines and the location
each definition comes from, which is what a merge can get wrong. The merge itself is
a constant operator of `ImportReader` (`MergeOf`), so that what does not depend on it
can be proved without its recursion; `MergedImports` gives it its value.

### Grammar, Presentation, Parsing

`Grammar` has one definition per presentation class: the fields in the order
`@has_fields` keeps them, each with its variant, the class of its elements, whether
it is required or has a default, and whether a validator of its own reads it again;
the short form, whether unknown fields are allowed, and what `_validate` reads
again. `Presentation` is the one algorithm for all of them: `Readable` and
`GetRaises` for getters, `Elements` for the way down, `Validate` for the rest. An
outcome is a set of issues and whether an exception is on its way; `Then`
sequences outcomes and stops at an exception. A scalar is *fitting* (right in type,
name and format for where it is), a word, a number, a negative number or null.

`Parsing` builds a document along one path of the grammar and gives anything to
the last presentation on it (`Descend`, `Write`), or a hierarchy of types
(`Derive`); then `Read`, `ValidateDocument`, `DeriveModel` and `Refuse` are
`parse_service_template`. `GetParent` and `DerivedFromIssues` are the two copies of
the climb, `GetDataParent` the third way, of data types. `Conforms` and
`HierarchyIsWritten` are the references: they look at the document only and never
at the order of validation or at exceptions.

### Definitions, ServiceCreation

A *presentation* is the part of a template that matters: requirements and
capabilities per node type, valid source types per capability type, templates with
their assignments and scaling. `Definitions` computes what each node template
requires and offers, and the issues on the way. `ServiceCreation` parses one and
creates services: `Instantiate` numbers the nodes, `NextNode`, `Satisfy` and
`Unsatisfied` go through the requirements, one relationship per step, `Accept` and
`Reject` settle capabilities and hosts. A creation has a *session*: what it has read
(counters keep the value they had then) and what it has not stored. A rejected
session may be used by the next creation of its process (`carried`), which then
stores the leftovers too. The storage and each session list the nodes per node template,
in the order they came (`NodeTemplate.nodes`), since a node is numbered after the ones
its template has. Dictionaries are visited in any order. `overlapped`
(history) is whether two sessions were ever open together: of two creations under
way, or of one under way and a rejected one that may be continued.

### Intrinsics, Coercion

A parameter is identified by service, node, collection and name; a store gives it a
literal, a list, or a function. `Evaluate` is `functions.evaluate`, with its
finality; `Call` has the functions. `Coercion` has the order in which
`parse_service_template` and `create_service` coerce, assign hosts and configure
operations. `stored` is what the rows hold; `meant` (history) is what they would
hold without any coercion. `Reached` chooses, for each collection, the one
parameter that coercion gets to.

### Schema, Rows, Catalog

`Schema` reads `relationship.py`'s declarations of every model class as *owns*
(collections that cascade), *needs* and *may* (foreign keys). `Rows` derives from it
which rows a template, a service and an execution consist of, what they refer to,
and what a deletion takes along (`Cascade`). A task is of a node or of a relationship; a
relationship takes the tasks that any execution ran on it along. `target` and `host`
say of which service the nodes are in which relationships end and on which nodes are
hosted. `Catalog` is the commands: the action
that starts one holds its checks, each later one is one commit or one change of
the file system. `raced` (history) is whether two commands that have nothing to
keep them apart overlapped; the six pairs are `Racing`.

## 3. The runs

Passing runs check several properties; the run that expects a violation,
`process_close`, is in section 5.

| Run | Specification | What it shows |
|---|---|---|
| `engine_life` | `Spec` | rows, tracker and contexts stay consistent through cancellation, crash, loss, failing dispatch and resumption; refinement of `Workflow` |
| `engine_ends` | `FairSpec` | executions end, in a valid end status |
| `engine_hangs` | `EngineFairSpec` | cancellation and dispatch do not depend on operations that end |
| `process_executor` | `FairSpec` | reports are of the right attempt; all that runs is reachable; close is quiet; every task is reported |
| `graph_compiler` | `Spec` | order, markers, life cycle |
| `service_life` | `Spec` | concurrent commands leave a service in a usable state |
| `import_reader` | `FairSpec` | drain, close, merge, caches and circular imports |
| `parsing` | `Spec` | no faulty document, and no faulty hierarchy, is accepted |
| `service_creation` | `Spec` | what is accepted is complete, fits, keeps capacities and has its hosts |
| `coercion` | `Spec` | replacing functions by values changes no meaning |
| `catalog` | `Spec` | deletions leave nothing dangling and take nothing of others; files follow rows |

`TypeOK` of `Engine` is checked as part of `IInv`. The inductive invariants of the other
proved modules, which contain their `TypeOK`, are proved; the instances of the runs
satisfy them, but no run lists them.

### Properties

*engine_life.* `IInv` is the inductive invariant of section 4; among its parts,
`ContextsHaveRows` says that an operation in the executor's hands is tracked as
executing and its row says sent or started, so one task never runs twice at once.
`DependenciesFirst`: an operation is there only if all it depends on is settled
(succeeded, ignored failure, or failed in an earlier process and not retried).
`SucceededIsComplete`. `NoOrphans`: nothing runs once `execute` has ended.
`RetryBudget`: a failed task used all its attempts, and none fails more often
than allowed (once more after `retry_failed`; section 5). `CancelHonoured`: an
engine that stopped for a cancellation leaves the row cancelled, whoever wrote
last. `EndedIsFinal`: only `retry_failed` reopens a task, and only a failed one.
`ImplementsWorkflow`: every step is a step of `Workflow` or none.

*engine_ends.* `EndsInactive`: an ended engine leaves a status that does not bar
the service's next execution. `TransitionsValid`: the row only takes transitions
of `VALID_TRANSITIONS`; this holds as long as nobody cancels. `Terminates`: an
execution ends unless a report was lost; a lost report makes the engine poll for
ever, which the model shows and the property excepts.

*engine_hangs.* `CancelIsPrompt`, `ReadyIsDispatched`: no fairness of the executor.

*process_executor.* `SuccessIsReal`, `RunningIsReachable`, `ClosedIsQuiet`,
`Reported` (excepted: terminated tasks, a stopped executor, and `unreported`
ones, whose child died or whose row refused the update).

*graph_compiler.* `OrderKept`, `MarkersEnclose`, `LifecycleOrder`: what the workflow
function asked for is the order of the rows, sub-workflows are enclosed by their
markers, and nodes go through their life cycle in the order of relationships.

*service_life.* `RunsWhole`: an execution whose preparation raised or was
killed is never driven. `ActiveIsDriven`: an active execution has an engine that will
write its end, unless its process was killed (`crashed`) or a Ctrl+C has cut it off
(`cut`: handled after the engine had ended, or refused by the validator). A
cancellation that races with the engine's last write, while that is still to come, is
no exception: one of the two ends the row. `LeftoversAreAvailable`: while something a
create operation made may be there, the node says so. It is false once a delete
operation has succeeded while a create operation was under way, which two users can
bring about (`execution_preparer.py:110` checks before it puts): the delete writes
`deleted` over the state, whatever the other leaves. `overlapped` excepts these
histories. `node` and `resource` are otherwise written by different steps: a create
that was cancelled, killed or failed leaves the node `creating`.

*import_reader.* `DrainedIsQuiet`: nothing runs or waits once `drain` has returned.
`ReadsAreBounded`: a location is created at most once per worker.
`MergedIsComplete`: a template, and whatever is cached for later ones, holds all
definitions of all it imports; `MergeIsOrdered`: which of several definitions it
gets is decided by the order of imports, never by which worker was faster. Both
except circles of imports and failed reads, where they are false (section 5).
`ReaderEnds`.

*parsing.* `FaultIsReported`: only what conforms to the grammar, at any depth and
through any variant of field, becomes rows; `Conforms` is a definition that knows
nothing of how validation proceeds. `HierarchyIsSound`: what is accepted inherits
along the parents it names, and lookups end on every hierarchy of types other
than data types.

*service_creation.* `AcceptedIsComplete`: a service is stored only with one
relationship per requirement of each of its nodes and enough for each of its
capabilities. `RelationshipsFit`: the end of each relationship is what the nearest
definition of the requirement asks for, however it was inherited, assigned or
added. `CapacityHolds`: no capability is used more often than it allows, and its
counter counts at least what is there; excepted are sessions that were open together.
`HostsAreFound`: a node gets a host exactly if relationships lead to one.

*coercion.* `CoercionIsTransparent`: at any time every value evaluates to what its
declaration, never coerced, evaluates to. `ArgumentsFollowInputs`: an argument has
the value that the declaration closest to the operation had when operations were
configured, for good.

*catalog.* `ReferencesResolve`: every key of a row refers to a row that is there,
unless two commands raced, but for the host of a node: that may be missing if it was in
another service and this is gone as a whole (section 5).
`ServicesAreSeparate`: deleting a service takes rows of that service and the
relationships that end in it, with the tasks, arguments and logs of the operations
that executions of other services ran on them; deleting a template takes its own rows. `FilesFollowRows`: with no command in flight, and none killed or raced, files
and rows agree. `PluginsAreUnique`.

### Bounds

- *Engine, Join* (`engine_life`): two parallel tasks and one that joins them; one
  is tried twice, one has its failure ignored. Three tasks are what it takes for
  a list to be modified behind the iterator while a third waits. `MaxRuns = 2`:
  a process, and one that resumes after any end or crash of the first; what a
  third would find is a status and rows that a second can find too, since nothing
  else survives. `AttemptCap = 9` is never reached.
- *Engine, Chain* (`engine_ends`): a stub, a functionless operation, an operation
  with a retry and one that needs all. No cancellation, because
  `TransitionsValid` fails with one (section 5).
- *Engine, Ever* (`engine_hangs`): one task with infinite retries, cut at
  `AttemptCap = 3`, beside a chain. The cap only prevents a further failure.
- *Process executor*: two tasks so that messages of one can be taken for another,
  two attempts each so that an old message can meet a new attempt. `Engine`
  hands out a terminated task again only in another process, hence `Execute`
  excludes it. All three faults at once.
- *Graph compiler*: every graph over two tasks and a sub-workflow of two tasks,
  with every set of dependencies, cycles included; services of three related
  nodes, of two nodes with two relationships from one to the other and of two
  independent ones, both with missing operations, and one whose storage holds another
  service's node.
- *Service*: two users, two executions, both workflows, one killed process with an active
  execution (`CrashCap`), dry or not. In a history with a dry command or execution the
  run allows one of each at a time, no kill, one Ctrl+C at a time and none that cuts an
  execution off (`FewDry`); more of them together are left to the proofs, which have no
  bounds. Two is what a race takes; users and executions are symmetric, and no property
  is a liveness property.
- *Import reader*: two workers and the caller; three templates in turn, with shared,
  circular, self, foreign, broken and cached imports, and paths that several of them
  define. `CyanideCap` bounds the queue while closing; two workers need two pills.
- *Parsing*: all 44 classes, along every path (the longest has eight fields,
  `MaxPath = 8`), each with 14 values in every field, in an unknown one and instead
  of the whole, and each required field left out; one fault at a time, since issues
  only add up and an exception stops what comes after. Three types give every shape
  of hierarchy that the climb tells apart: a type that leads into a circle it is not
  part of needs three.
- *Service creation*: an application, a box that hosts it, and a third template that is
  a shelf or a link; about ninety templates in which scaling, occurrences,
  assignments, valid sources and ways to a host vary one or two at a time. Three
  services: one stored, one rejected, and one that overlaps with or continues either;
  and four of one template with two places, since a rejected creation that is
  continued after another was stored needs a stored service to compete for
  (`FewServices`).
- *Coercion*: one service of three nodes with 17 parameters that refer to each other
  in every way the functions allow: by property, attribute, input, host, capability,
  concatenation and list. Values are independent between services but for the
  template, so that a second service adds nothing.
- *Catalog*: two processes, two services of one template, a plugin, a type definition.
  `MaxCommands = 6` is storing a template, creating both services, running one,
  deleting it and deleting the other; `MaxCrashes = 1`. Plugins and type definitions
  share nothing with templates and services and are only mixed in with histories of up
  to four commands (`FewApart`). One row stands for all rows with the same owners;
  processes are symmetric, and so are the services. A host dangles after four
  commands: store, create `s1`, create `s2` hosted on `s1`, delete `s1`.

### Fairness

The engine's thread loops with a sleep between passes and blocks on nothing:
`WF(EngineStep)`. A due time passes: `WF(Due(t))`. That operations end and are
reported is assumed only in `FairSpec` (`WF(ExecutorStep(t))`), not where
operations may hang. No fairness for launching, exiting, crashing, cancelling or
losing. The listener, the closing thread and children that are not blocked run on
and their functions return; `Terminate`, `Execute`, `Close` and `Die` are not
fair. Readers: each thread is weakly fair. A thread blocked on an empty queue or a
missing answer has no enabled step, so weak fairness assumes nothing about it.

Deadlock is checked for the engine. `ProcessExecutor`, `GraphCompiler`,
`ImportReader`, `ServiceExecutions`, `Parsing`, `ServiceCreation`, `Coercion` and
`Catalog` really stop (closed, compiled, read, deleted, refused, out of commands)
and have `CHECK_DEADLOCK FALSE`; their liveness properties say that they
do not stop early.

## 4. The proofs

Checked by TLAPS for all values of the constants that satisfy the assumptions their
module names. None of the properties is inductive as it stands: each module with
proofs has an inductive invariant `IInv`, a conjunction of named parts, and its
proofs module shows `Init => IInv` and `IInv /\ [Next]_vars => IInv'`, with a lemma or a
step per action and below it the conjuncts that the action can disturb. The theorems
follow by PTL. TLC agreed with each `IInv` on the instance of its module's run (of
`GraphCompiler`: the custom workflows and two of the services) before it was proved.

| Module | Theorem | Property |
|---|---|---|
| `EngineProofs` | `TypeCorrect`, `Invariance` | `TypeOK`, `IInv` |
| | `DependenciesAlwaysFirst` | `DependenciesFirst` |
| | `SuccessIsComplete` | `SucceededIsComplete` |
| | `NothingOrphaned` | `NoOrphans` |
| | `RetriesAreBounded` | `RetryBudget` |
| | `CancellationsAreHonoured` | `CancelHonoured` |
| | `EndedIsInactive` (nobody cancels) | `EndsInactive` |
| | `TransitionsAreValid` (nobody cancels) | `TransitionsValid` |
| | `EndedStaysFinal` | `EndedIsFinal` |
| `EngineRefinementProofs` | `EngineImplementsWorkflow` | `ImplementsWorkflow` |
| `ProcessExecutorProofs` | `TypeCorrect`, `Invariance` | `TypeOK`, `IInv` |
| | `SuccessAlwaysReal` | `SuccessIsReal` |
| | `RunningAlwaysReachable` | `RunningIsReachable` |
| | `ClosedAlwaysQuiet` | `ClosedIsQuiet` |
| `ServiceExecutionsProofs` | `TypeCorrect`, `Invariance` | `TypeOK`, `IInv` |
| | `DrivenWhole` | `RunsWhole` |
| | `ActiveAreDriven` | `ActiveIsDriven` |
| | `LeftoversStayAvailable` | `LeftoversAreAvailable` |
| `ImportReaderProofs` | `TypeCorrect`, `Invariance` | `TypeOK`, `IInv` |
| | `DrainIsQuiet` | `DrainedIsQuiet` |
| | `ReadsStayBounded` | `ReadsAreBounded` |
| `CatalogProofs` | `TypeCorrect`, `Invariance` | `TypeOK`, `IInv` |
| | `PluginsStayUnique` | `PluginsAreUnique` |
| | `FilesAlwaysFollowRows` | `FilesFollowRows` |
| | `ServicesStaySeparate` | `ServicesAreSeparate` |
| | `ReferencesInvariance` | `ReferencesInv` |
| | `ReferencesAlwaysResolve` | `ReferencesResolve` |
| `GraphCompilerProofs` | `TypeCorrect`, `Invariance` | `TypeOK`, `IInv` |
| | `OrderIsKept` | `OrderKept` |
| | `MarkersAreEnclosing` | `MarkersEnclose` |
| | `LifecycleIsOrdered` | `LifecycleOrder` |
| `ServiceCreationProofs` | `TypeCorrect`, `Invariance` | `TypeOK`, `IInv` |
| | `CapacityIsKept` | `CapacityHolds` |
| | `AcceptedInvariance` | `AcceptedInv` |
| | `AcceptedServicesAreComplete` | `AcceptedIsComplete` |

**Engine.** From `TasksAssumption` (stubs, functionless and ignoring tasks are tasks;
`Deps` maps tasks to sets of tasks), `MaxAttemptsAssumption` (at least one attempt, or
infinitely many) and `EnvironmentAssumption` (known faults and resume modes; bounds
are numbers). Neither finiteness of the graph nor its acyclicity is used. That
dependencies come first needs that the tracker's `executed` contains only settled
tasks, and that each `executing` task had its dependencies executed (`TrackerSound`).
`NoOrphans` needs that during the clean-up every live context is still to be visited
(`EndingSound`), which needs that contexts belong to executing tasks
(`ContextsHaveRows`), which in turn needs that the tracker's lists are disjoint and
complete (`TrackerPartition`), also for a tracker that does not exist yet
(`NoTrackerYet`) and for a resumption that was refused (`EndingSet`).
`SucceededIsComplete` needs that a report of success is made only with everything
executed, and that a later process that reopens tasks has first left the status
succeeded, which `VALID_TRANSITIONS` forbids. Rows that have ended are final because a
context implies a row that has not. `CancelHonoured` needs what the canceller may
still write and that the engine stops for a cancellation only after it wrote;
`EndsInactive` and `TransitionsValid` need `RowFollowsEngine`, which ties the row to
the program point and holds only when nobody cancels: the two theorems say so
(`"cancel" \notin Faults`), and section 5 why.

`EngineRefinementProofs` maps each action to one of the abstract workflow: a
dispatch to `Start` (`Startable` follows from `IInv`), a stub or functionless
operation to `Pass`, a success or final failure to `End`, a failure that is
retried, a termination, a lost report, a crash or an exit to `Interrupt`,
resumption to `Reopen`, success to `Succeed`, a late `cancelling` to `Withdraw`,
and all else to stuttering.

**Process executor.** From `ProcessAssumption`. What runs is reachable because a child
is registered from its first step to its report (`ChildrenAreRegistered`), but for the
window of `Execute`, which `close` waits for; a success is real because a child waits
for the answer to each of its messages (`SenderWaits`) and what the listener found
under a task's id is the attempt that sent the message (`FoundIsRegistered`), so that
no message of an earlier attempt is still on its way when another is started.

**Service executions.** From `ServiceAssumption`, for any users, executions, kills and
dry runs. A process drives what it has prepared itself, or has found prepared
(`DrivenIsPrepared`). That an active execution has an engine that will end it is not
inductive: it depends on what that engine's session has loaded, because a view that is
stale makes the final write a refused one. `ActiveHasEnd` names the engine and the view
it needs (`Drives`), and `StartersAreAlone` says where that view comes from: until its
first Ctrl+C a process that has started an execution is alone with it, since only a
cancelled execution can be resumed, and then row, engine and main thread agree up to
what is still to be written; afterwards the row is cancelled or cancelling, and the
engine, whichever of two engines it is by then, reads it at its next check. For
`LeftoversAreAvailable` a create operation under way in one process must not be undone
in `node` by what another process finishes: every state but `deleted` says available,
and `deleted` is written only together with `resource` or `overlapped`
(`OperationsExist` says that what succeeds is an operation of the workflow).

**Import reader.** From `PoolAssumption` (workers are finitely many, and there are some),
`CallerAssumption` (the calling thread is no worker) and `ReaderAssumption`, for any
merge. `drain` waits for the count of unfinished entries: it is quiet because the count
is exact, the entries queued and the workers that are busy (`CountIsExact`), because a
worker submits before it returns, and because the poison of `close` comes after all
calls (`PoisonComesLast`). Reads are bounded although lookup and store are separate:
each worker is between the two for one location at a time, and whoever looks a
location up after a store finds it (`ReadingsAreBounded`). The counting uses
cardinalities, so that the bound is the number of workers, whatever it is.

**Catalog.** No assumption on a constant: for any processes, services, templates,
plugins and definitions, any number of commands and crashes. (`SchemaIsClosed` is a
statement about the concrete tables, which TLC evaluates.) The core is that what is
missing on one side, disk or database, is in the hands of a command half way
(`HalvesAgree`), and that commands that could disturb it are excluded or have set
`raced` (`Exclusive`). That deleting one template or service takes the row of no *other*
template and of no type definition is a fact about the cascades of all 40 tables: no
collection of any table holds such rows (`RootsAreUnowned`), the chains of collections
are exactly those below their roots (`PathsAreChains`), and a cascade adds to what it
starts from only rows that are owned, or relationships (`CascadeGrows`).

`ServicesStaySeparate` needs both directions of the cascade. Downwards it must not take
too much: by the keys of every table of instances, what a row of a service owns is of
the same service (`OwnedInService`), and of another service only relationships are
reached, and what they own, the tasks that executions ran on them included
(`EndsAreNodes`, `WhatIsUnderRelationships`). Deleting a
template could take all its services, which the guard of `drop` excludes, provided that
what it saw still holds (`ChecksHold`) and that no row of a service is without its
service: `OwnersArePresent`, every row has the row that owns it. That is an invariant
only because the cascade does not take too little: whatever is owned by a row it takes
is taken, within the seven levels that `Cascade` goes down
(`ServiceDeletionsAreComplete`, by `Height`, which falls with each level). The two
arguments that go along a chain of owners are made on a set of numbers that has a least
element (`LeastNumber`).

`ReferencesAlwaysResolve` needs more than owners, since a row also refers to the template
it was made from, to types, and to nodes and capabilities that its service has one row
for. `ReferencesInv` says what is there besides: a template has all its rows or, but for
those that no deletion takes, none (`TemplatesAreWhole`); with a service its template is
there, and all that was made with it except relationships, which the deletion of another
service may have taken (`ServicesAreWhole`); the service a relationship ends in is there
(`EndsArePresent`); the rows of an execution have the execution
(`ExecutionsArePresent`); and what a creation found before it stores is still there when
it does (`CreationsHold`). It is kept because deletions are complete:
a template goes with every row under it, level by level (`TemplateDeletionsAreComplete`),
and a service with every relationship that ends in it, wherever that begins, *and* nothing
that another service needs. Then the keys: `KeysStayNear` follows every key of all tables
and finds that it leads to a row of the template, to a row of the service that no
relationship has part in, to the owner, or to the execution; where a relationship ends
and where a node is hosted are apart (`Elsewhere`). Of the latter the theorem says that
it is missing only with its whole service, which is `ServicesAreWhole`. That the template has
the row an instance row was made from is that templates own what their instances own
(`TemplatesOwnAlike`), along each path (`MadeFromTemplates`). Rows that no deletion takes
(of substitutions, types and relationship templates) are outside the property, as the
code has it: they stay behind, with what they refer to gone.

**Graph compiler.** From `GraphsAssumption` (no graph contains the workflow itself and
a task is in one graph, which the API does not enforce: a function that adds a task to
two graphs gets two rows for it, of which the lookups find both) and
`ServicesAssumption` (nodes have names, and each lists its relationships). For any
tasks and any depth of sub-workflows. What comes before a row is a recursive function
of the rows; the steps of the compiler take the place of an induction over them. `HasOneSolution` says that the recursive equation has exactly one solution
for the rows put so far, and putting a row that depends on earlier ones extends it
(`AppendedHasOne`, `PutExtends`). `CallsFit` describes the calls in progress: of a graph
being compiled, only the sub-workflow that the next call compiles has begun and not
ended, so that what `_get_tasks_from_dependencies` finds for a dependency is never
empty by mistake (`RowsWait`). That the end marker depends on everything although it is
given only what nothing depends on yet is `RowsPrecede`: each row is such a row or
comes before one. `Invariance` joins them; with a graph that has a cycle the compiler
raises, and nothing is promised. `LifecycleOrder` is about the graphs of the built-in
workflows: nodes follow from `OrderKept` on the workflow itself, once the rows of a
node's tasks are known to lie between its markers (`EnclosureIsKept`, an invariant of
its own); the operations of one node from its sequence, of which any item may be empty
because the actor does not have the operation (`SequenceInOrder`). That is an induction
over the items; it is done on the set of the items that come too late, which has a
least element (`LeastNumber`, from the library's theorem on well-founded relations:
the induction theorems proper take an operator, which no prover here can instantiate,
but sets will do for inductions over numbers).

**Service creation.** From `ServicesAssumption` (`None` is no service),
`PresentationsAssumption` (requirements are listed, the default number of instances is
an integer, and the upper bound of occurrences,
where they are written, a natural number or `UNBOUNDED`: validation reports all else)
and `NoneAssumption` (`None` is not the place of a requirement).
For any types, templates, requirements and services. A counter says less than one would
think: it is read into a session, raised there, and stored only if the session made the
node or a relationship to it. So the invariant has the counters twice. `StoredCount`:
each stored node has all its counters, within their bounds, and none is behind the
relationships that are stored. `SessionsCount`: a session without another beside it has
exactly the nodes that are stored and those it made, and the counters *it sees*, its own
or else the stored ones, count the relationships that are stored and those it added.
`Satisfy` compares for equality (`HasCapacity`), which is enough because the counter is
never above its bound (`SeenIsBounded`); `Accept` drops counters that were only read, and
may, because no relationship of the session ends there (`OthersDoNotCount`); a deletion
keeps counters and drops relationships (`FewerRemain`). A new node starts from zero, or
from what a counter of that name still holds, and no relationship, stored or in a
session that is continued, ends in it already, since all ends are of services whose
creation has begun (`NodesHaveBegun`) and the new one has not. With two sessions open
nothing holds, which is why the theorem, like the property, has `overlapped`; the
invariant keeps types and `NodesHaveBegun` also then.

`AcceptedServicesAreComplete` has no such exception, although it too is about counters:
`CapacityHolds` bounds what all services together do to one capability from above, which
another session can spoil; this one bounds from below what a service does to the
capabilities of its *own* nodes. `OwnIsApart` says that until a creation has ended its
nodes are in its own session only, and neither what is stored nor another session has a
relationship or a counter there, so its counters are exact whatever others do
(`CountersAreExact`). `NoneIsMissing` counts, for each requirement, the relationships
that begin there: one if the creation is past it, none if it is due (`IsDue`: the node
is still to come, or the requirement is the current one or behind it), unless an issue
was reported. A creation ends with nothing due, or by the early return of
`satisfy_requirements`, which leaves nodes out: there `_satisfied` is false, so an issue
was reported, and `Accept` has none. That invariant is only about the session's own
nodes: a rejected service whose session is continued leaves nodes with requirements
unmet, which are stored with the next one but are of a service that was never accepted.

Only model-checked:
- liveness (`CloseReturns`, `ReaderEnds`, that executions end and tasks are reported):
  the prover has neither fairness nor `ENABLED`;
- `MergedIsComplete`, `MergeIsOrdered`, `Coercion`, `Parsing`: what they say is computed
  by recursive operators, which the provers do not take;
- `RelationshipsFit` and `HostsAreFound` of `ServiceCreation`: the
  first needs that descent is transitive and that inheritance refines, the last what a
  search along paths finds; both are inductions over data (the lineage of a type, a
  path).

No module with theorems uses a `RECURSIVE` operator, nor a module it is about: `Rows`
lists chains and cascades to the depth the tables have, without recursion.

## 5. Where the code and what is said of it disagree

One disagreement is a run of its own, because it is a defect of a protocol that no
reading of one function shows:

- `process_close` (`CloseReturns`): `close` sets `_stopped` and then waits for the
  answer to its message; a listener busy with another request leaves its loop on
  the flag, with the socket open, and `close` waits for ever.

The others are in the models as the code has them, and where one would break a
property, the property says what it excepts.

*Engine and commands.*
- The validator of execution statuses (`orchestration.py:179`) checks against what
  the writing session has loaded. On a pending execution the canceller writes
  cancelled; the engine, holding pending, then writes started: no valid transition,
  and the workflow runs although it was cancelled. `TransitionsValid` is checked
  without cancellations.
- `_workflow_cancelling` means to leave an execution alone that "may have already been
  finished" (`events_handler.py:149`), but checks what the main thread's session has
  loaded. The engine writes succeeded or failed, the handler of a late Ctrl+C writes
  cancelling over it, and the process ends: the execution is active for good and bars
  every start on, and the deletion of, its service. `ActiveIsDriven` excepts it (`cut`).
- `Engine.cancel_execution` promises that a started execution becomes cancelling
  (`engine.py:90`). `resume` has loaded the row as cancelled (`executions.py:189`) and
  does not read it again, so that the validator refuses cancelling
  (`orchestration.py:187`): the error ends the command and with it the engine's thread,
  and the row stays started (`CancelRefused`; `cut`).
- Two users who start at once can delete what is still being created, and the node then
  says deleted (`overlapped`).
- A resume with `retry_failed` resets the count of attempts to 0 where a new task has
  1, so that a task may fail `max_attempts + 1` times (`RetryBudget` allows it).
- The start and stop workflows go over all nodes in the storage
  (`builtin/start.py:30`), not those of the service.
- `resume --dry`, documented as free of side effects, looks for an executor that is
  not there, records the cancelled execution as failed, and so makes it
  unresumable, or, if nothing was left to do, deletes it.

*Rows and files.* Nothing keeps apart creation and deletion of the same service or
template, two installations of a plugin, or loading and deleting a type definition:
rows then refer to rows that are gone, plugins are listed twice. A process killed
between a row and its files leaves them apart for good; a directory without a row
bars loading that type definition again. Deleting a service also takes the tasks and
logs that executions of other services ran on relationships that end in it, so that
the history of those executions is no longer complete.

A node's host is a node or none (`service_instance.py:324`), but `assign_hosts` may take
one of another service (`topology.py:214`): `host_fk` has no collection on the other
side and SQLite enforces no keys, so that it dangles once that service is deleted.
`heal` reads it.

*Creation of services.*
- A requirement that names a capability (`service_template.py:1073`) gets whatever
  capability fits first: `_satisfies_requirement` never looks at the name.
- `Capability.relate` compares with what its session has loaded: two creations at
  once exceed `max_occurrences`. No deletion lowers the counter.
- A rejected creation leaves its rows in the session (`core.py:93`); the next creation
  of that process stores them, with the counters as they were read: what another
  process stored in between is not counted.
- A type that overrides a capability cannot change its inherited occurrences or valid
  source types, against `capabilities.py:52`; a source must derive from all valid
  types, not one. Too few occurrences of a requirement without an upper bound are
  reported with a wrong format index: an `IndexError` instead of the issue
  (`requirements.py:118`).
- A target that has no capacity left is not passed over for another template.
  `_find_host` does not end on circular hosting.
- Extra configuration parameters call `value.instantiate(None)`, which no parameter
  has (`execution_plugin/instantiation.py`).

*Functions.*
- `SELF` and `HOST` inside a list that `get_property` fetches are evaluated for whoever
  asks, not for the owner (`MovesList` excepts it). `get_nodes_of_type` and
  `get_operation_output` only return nothing.
- Values of `get_input` and `get_attribute` become arguments at creation, with what
  they were then.
- Coercion gets to the first element of each collection only, because handlers return
  nothing and `all()` stops there. An issue found by coercion outside of a consumer
  is lost or raises an `AttributeError` (`modeling/functions.py:109`).

*Parsing.*
- `Presentation._validate` is documented as "*not* raising exceptions"; validators and
  some `_validate` methods read a field a second time and raise, which abandons the
  rest of the validation. The template is refused anyway; the user sees one issue of
  several.
- `DataType._get_parent` has no check for circles: a circle of data types recurses
  until Python stops it, which the chain reports as an issue of its own kind.
- A key `operations` in an interface, or `custom` in metadata, counts as known and is
  ignored. A missing required field is reported without its place
  (`fields.py`, a misplaced parenthesis).
- A template read after a failed or circular import in the same process may be built
  from an incomplete cached presentation; in a circle, what wins depends on timing.
  An import overrides what the importer defines.

## 6. What is not modelled

- *A presentation whose reading fails after it was cached* (`_get_import_locations` may raise at
  `presentation.py:158`, after the store of line 154): in `ImportReader` reading fails
  before it caches or not at all.
- *Lists of properties in functions*: a `concat` over, or a chain of, `get_property` on
  a list is outside the instance of `coercion`; `CoercionIsTransparent` is checked for
  the parameters named there.
- *A second resumption inside one process.* The commands end their process after
  one execution. A program that calls the API could resume while operations of the
  thread executor, whose `terminate` does nothing, still run.
- *What operations do*: scripts, SSH, the context proxy, the contexts and the
  instrumented collections in them. To everything modelled here an operation runs,
  hangs, succeeds, fails or dies.
- *Parts of the type semantics*: properties, interfaces, artifacts, policies and groups
  follow the same scheme of inheritance and merge as requirements and capabilities,
  without matching or counting. Substitutions are in `Schema` and `Rows` only.
- *Values of scalars*: ranges, versions, sizes, timestamps, constraints. `Parsing` takes
  a scalar that fits, or does not, as given; second readings of a field inside
  another, checks of inherited definitions and a switched-off `validate_normative`
  are left out.
- *The celery executor* refers to attributes contexts no longer have; `heal` and
  `execute_operation` are not registered as built-in workflows and call operators
  with parameters these no longer have.
- *Text*: loading of locations, YAML, locators, formatting, tables, logging, options:
  input and output around the modelled parts.
- *Single files*: reading in the resource storage, wheels, archives. The directories as
  a whole are in `Catalog`.
- *Sessions*: what SQLAlchemy caches is modelled where two actors meet in it (`view` in
  `Engine`, `sessions` in `ServiceCreation`, `saw` in `Catalog`), not as a component.
- *Caching* (`utils/caching.py`): two threads may compute an entry twice and one of them
  gets an object that is then replaced; the modelled callers compute pure functions.

## 7. Plan

Written, in this order: `Engine` with its properties, abstraction and proofs;
`ProcessExecutor`; `GraphCompiler`; `ImportReader` with `ThreadPool` and `Merging`;
`ServiceExecutions`; `Catalog` with `Schema` and `Rows`; `ServiceCreation` with
`Definitions`; `Coercion` with `Intrinsics`; `Parsing` with `Grammar` and
`Presentation`.

Proved since: the safety properties of `Engine`, `ProcessExecutor`, `ServiceExecutions`,
`Catalog`, of `GraphCompiler` for any graphs and services, the part of `ImportReader`
that does not depend on the merge, and of `ServiceCreation` that capacities are kept and
that accepted services are complete. What is left of the safety properties are the
inductions over data that section 4 lists; they and the liveness properties stay with
TLC.

Models still worth writing: an abstract executor (each task handed over is
reported at most once per attempt, and only while it is held) refined by
`ProcessExecutor`, in place of the executor inside `Engine`; operation contexts with
version conflicts between sessions; the coercion of scalars to data types as
functions against reference definitions.
