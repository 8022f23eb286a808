----------------------------- MODULE ThreadPool -----------------------------
(***************************************************************************)
(* FixedThreadPoolExecutor (utils/threading.py): an unbounded queue that   *)
(* counts its unfinished entries, workers that take from it until they     *)
(* meet the cyanide, and what the jobs returned or raised.  A job is known *)
(* by its id, its place among all that were submitted; jobs may submit     *)
(* jobs.  These are the operations; the module of a client says when they  *)
(* are called and what a job does between Get and its end.                 *)
(***************************************************************************)
EXTENDS Integers, Sequences, FiniteSets

CONSTANTS
  Workers,
  Cyanide,      \* _CYANIDE, the entry that ends a worker
  Idle, Dead    \* workers that execute nothing

ASSUME PoolAssumption ==
  /\ IsFiniteSet(Workers) /\ Workers # {}
  /\ Cyanide \notin Nat /\ Idle \notin Nat /\ Dead \notin Nat
  /\ Idle # Dead

VARIABLES
  submitted,    \* the jobs, in the order of their ids
  queue,        \* ids and cyanide
  unfinished,   \* Queue.unfinished_tasks
  job,          \* the id of what each worker is executing
  returns,      \* what jobs have returned, by id
  exceptions    \* the ids of jobs that have raised

poolVars == <<submitted, queue, unfinished, job, returns, exceptions>>

PoolInit ==
  /\ submitted = <<>>
  /\ queue = <<>> /\ unfinished = 0
  /\ job = [w \in Workers |-> Idle]
  /\ returns = <<>> /\ exceptions = {}

\* A dictionary with the value of one key set.
Put(dict, key, value) ==
  [k \in DOMAIN dict \cup {key} |-> IF k = key THEN value ELSE dict[k]]

\* A new pool in the place of one that was closed.
PoolReset ==
  /\ submitted' = <<>>
  /\ queue' = <<>> /\ unfinished' = 0
  /\ job' = [w \in Workers |-> Idle]
  /\ returns' = <<>> /\ exceptions' = {}

Submit(j) ==
  /\ submitted' = Append(submitted, j)
  /\ queue' = Append(queue, Len(submitted) + 1)
  /\ unfinished' = unfinished + 1
  /\ UNCHANGED <<job, returns, exceptions>>

\* _execute_next_task: a get that times out is tried again.
Get(w) ==
  /\ job[w] = Idle /\ queue # <<>>
  /\ job' = [job EXCEPT ![w] = IF Head(queue) = Cyanide THEN Dead ELSE Head(queue)]
  /\ queue' = Tail(queue)
  /\ UNCHANGED <<submitted, unfinished, returns, exceptions>>

\* _execute_task, when the function has returned or raised.
Return(w, result) ==
  /\ returns' = Put(returns, job[w], result)
  /\ unfinished' = unfinished - 1
  /\ job' = [job EXCEPT ![w] = Idle]
  /\ UNCHANGED <<submitted, queue, exceptions>>

Raise_NotDone(w) ==
  /\ exceptions' = exceptions \cup {job[w]}
  /\ job' = [job EXCEPT ![w] = Idle]
  /\ UNCHANGED <<submitted, queue, unfinished, returns>>

Raise(w) ==
  /\ exceptions' = exceptions \cup {job[w]}
  /\ unfinished' = unfinished - 1
  /\ job' = [job EXCEPT ![w] = Idle]
  /\ UNCHANGED <<submitted, queue, returns>>

\* drain returns.
Drained_Empty == queue = <<>>

Drained == unfinished = 0

\* close, once drained, poisons the queue for as long as a worker lives.
IsAlive == \E w \in Workers : job[w] # Dead

Poison ==
  /\ queue' = Append(queue, Cyanide)
  /\ unfinished' = unfinished + 1
  /\ UNCHANGED <<submitted, job, returns, exceptions>>
=============================================================================
