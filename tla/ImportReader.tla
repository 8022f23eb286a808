---------------------------- MODULE ImportReader ----------------------------
(***************************************************************************)
(* The Read consumer of the parser (parser/consumption/presentation.py):   *)
(* the main location is presented in the calling thread and its imports,   *)
(* recursively, in a thread pool; then the results are merged and cached.  *)
(* Presentations are cached by location, without a lock between looking    *)
(* one up and storing it.  Imports may be circular.  One process parses    *)
(* several templates in turn, and the cache of merged presentations        *)
(* outlives the reader.                                                    *)
(***************************************************************************)
EXTENDS ThreadPool

CONSTANTS
  Locations,
  Mains,       \* the locations of the service templates, in the order they are parsed
  Imports,     \* the imports of each location, in order
  Flaky,       \* locations that it may be impossible to read
  Foreign,     \* locations of a version that may not be imported
  Defines,     \* the paths that each location defines
  MergeOf(_, _), \* what merging results makes of their contents
  CyanideCap   \* bound: queue entries while the pool is closed

ASSUME ReaderAssumption ==
  /\ Mains \in Seq(Locations) /\ Mains # <<>>
  /\ Imports \in [Locations -> Seq(Locations)]
  /\ Flaky \subseteq Locations /\ Foreign \subseteq Locations

Nowhere == "nowhere"
Caller  == "caller"

ASSUME CallerAssumption == Caller \notin Workers

Threads == Workers \cup {Caller}

VARIABLES
  cache,    \* Read._cache, presentations by location
  global,   \* PRESENTATION_CACHE, contents by location
  raw,      \* the contents of each presentation before the merge
  pc,       \* where each thread is in _present
  left,     \* imports each thread has not submitted yet
  main,     \* the calling thread, in consume
  result,   \* what the calling thread's own _present returned, and then all results
  parsed,   \* the templates that were parsed, with the contents they were merged to
  failed    \* history: locations that could not be read

vars == <<poolVars, cache, global, raw, pc, left, main, result, parsed, failed>>

Main == Mains[Len(parsed) + 1]

\* What thread t is presenting: a location and the one that imports it.
JobOf(t) == IF t = Caller THEN <<Main, Nowhere>> ELSE submitted[job[t]]

\* Presentations are known by their location and the call that creates them; the one in the
\* global cache is a single object.
Created(t) == <<JobOf(t)[1], IF t = Caller THEN 0 ELSE job[t]>>
Cached(l) == <<l, -1>>

Own(l) == [path \in Defines[l] |-> l]

Result(t, presentation) ==
  [presentation |-> presentation, location |-> JobOf(t)[1], origin |-> JobOf(t)[2]]

ReaderInit ==
  /\ cache = <<>> /\ raw = <<>>
  /\ pc = [t \in Threads |-> "ready"]
  /\ left = [t \in Threads |-> <<>>]
  /\ main = "presenting" /\ result = <<>>

Init ==
  /\ PoolInit /\ ReaderInit
  /\ global = <<>> /\ parsed = <<>> /\ failed = {}

-----------------------------------------------------------------------------
\* The end of a call: a worker's is the end of its job.
Leave(t) == pc' = [pc EXCEPT ![t] = "ready"]

Returns(t, presentation) ==
  /\ Leave(t)
  /\ \/ /\ t = Caller
        /\ main' = "draining" /\ result' = <<Result(t, presentation)>>
        /\ UNCHANGED poolVars
     \/ /\ t # Caller
        /\ Return(t, Result(t, presentation))
        /\ UNCHANGED <<main, result>>

Raises(t) ==
  /\ Leave(t)
  /\ \/ t = Caller /\ main' = "raised" /\ UNCHANGED <<poolVars, result>>
     \/ t # Caller /\ Raise(t) /\ UNCHANGED <<main, result>>

Presents(t) ==
  IF t = Caller THEN main = "presenting" ELSE job[t] \in DOMAIN submitted

\* A location that imports itself is cancelled.
Cancel(t) ==
  /\ Presents(t) /\ pc[t] = "ready"
  /\ JobOf(t)[1] = JobOf(t)[2]
  /\ Raises(t)
  /\ UNCHANGED <<cache, global, raw, left, parsed, failed>>

IsCached_Global(l) == l \in DOMAIN global

IsCached(l) == l \in DOMAIN global \cup DOMAIN cache

FindCached(t) ==
  LET l == JobOf(t)[1] IN
  /\ Presents(t) /\ pc[t] = "ready"
  /\ l # JobOf(t)[2] /\ IsCached(l)
  /\ IF l \in DOMAIN global
     THEN Returns(t, Cached(l)) /\ raw' = Put(raw, Cached(l), global[l])
     ELSE Returns(t, cache[l]) /\ UNCHANGED raw
  /\ UNCHANGED <<cache, global, left, parsed, failed>>

FindNothing(t) ==
  /\ Presents(t) /\ pc[t] = "ready"
  /\ JobOf(t)[1] # JobOf(t)[2] /\ ~IsCached(JobOf(t)[1])
  /\ pc' = [pc EXCEPT ![t] = "looked"]
  /\ UNCHANGED <<poolVars, cache, global, raw, left, main, result, parsed, failed>>

\* _create_presentation loads and reads: the long step.
CreatePresentation(t) ==
  /\ Presents(t) /\ pc[t] = "looked"
  /\ raw' = Put(raw, Created(t), Own(JobOf(t)[1]))
  /\ pc' = [pc EXCEPT ![t] = "created"]
  /\ UNCHANGED <<poolVars, cache, global, left, main, result, parsed, failed>>

CannotRead(t) ==
  /\ Presents(t) /\ pc[t] = "looked"
  /\ JobOf(t)[1] \in Flaky
  /\ Raises(t)
  /\ failed' = failed \cup {JobOf(t)[1]}
  /\ UNCHANGED <<cache, global, raw, left, parsed>>

StorePresentation(t) ==
  LET l == JobOf(t)[1] IN
  /\ Presents(t) /\ pc[t] = "created"
  /\ cache' = Put(cache, l, Created(t))
  /\ left' = [left EXCEPT ![t] = Imports[l]]
  /\ pc' = [pc EXCEPT ![t] = "submitting"]
  /\ UNCHANGED <<poolVars, global, raw, main, result, parsed, failed>>

SubmitImport(t) ==
  /\ Presents(t) /\ pc[t] = "submitting" /\ left[t] # <<>>
  /\ Submit(<<Head(left[t]), JobOf(t)[1]>>)
  /\ left' = [left EXCEPT ![t] = Tail(@)]
  /\ UNCHANGED <<cache, global, raw, pc, main, result, parsed, failed>>

ReturnResult(t) ==
  /\ Presents(t) /\ pc[t] = "submitting" /\ left[t] = <<>>
  /\ Returns(t, Created(t))
  /\ UNCHANGED <<cache, global, raw, left, parsed, failed>>

Present(t) ==
  \/ Cancel(t) \/ FindCached(t) \/ FindNothing(t)
  \/ CreatePresentation(t) \/ CannotRead(t) \/ StorePresentation(t)
  \/ SubmitImport(t) \/ ReturnResult(t)

Take(w) == Get(w) /\ UNCHANGED <<cache, global, raw, pc, left, main, result, parsed, failed>>

-----------------------------------------------------------------------------
\* What the calls returned, in the order of their ids (returns sorts by id).
Returned == [i \in 1 .. Cardinality(DOMAIN returns) |->
               returns[CHOOSE id \in DOMAIN returns :
                         Cardinality({x \in DOMAIN returns : x <= id}) = i]]

AllResults_Newest ==
  result \o [i \in DOMAIN Returned |-> Returned[Len(Returned) + 1 - i]]

\* The main result is the first.
AllResults == result \o Returned

Drain ==
  /\ main = "draining" /\ Drained
  /\ main' = "closing" /\ result' = AllResults
  /\ UNCHANGED <<poolVars, cache, global, raw, pc, left, parsed, failed>>

\* An exception of the caller's own call skips the results, but the executor is closed,
\* hence drained, all the same.
DrainAfterRaise ==
  /\ main = "raised" /\ Drained
  /\ main' = "closing"
  /\ UNCHANGED <<poolVars, cache, global, raw, pc, left, result, parsed, failed>>

PoisonQueue ==
  /\ main = "closing" /\ IsAlive /\ Len(queue) < CyanideCap
  /\ Poison
  /\ UNCHANGED <<cache, global, raw, pc, left, main, result, parsed, failed>>

Closed ==
  /\ main = "closing" /\ ~IsAlive
  /\ main' = "closed"
  /\ UNCHANGED <<poolVars, cache, global, raw, pc, left, result, parsed, failed>>

\* The results are merged into the main one and the merged ones cached, whatever could not
\* be read; of two presentations of a location the later result's stays.
MergeAndCache ==
  /\ main = "closed" /\ result # <<>>
  /\ \E all \in {MergeOf(result, raw)} :
       \E cached \in {{i \in all.merged : \A j \in all.merged :
                        result[j].location = result[i].location => j <= i}} :
         /\ global' =
              LET kept == {result[i] : i \in cached}
                  locations == {r.location : r \in kept}
              IN [l \in DOMAIN global \cup locations |->
                    IF l \in locations
                    THEN all.raw[(CHOOSE r \in kept : r.location = l).presentation]
                    ELSE global[l]]
         /\ parsed' = Append(parsed, all.raw[result[1].presentation])
  /\ main' = "done"
  /\ UNCHANGED <<poolVars, cache, raw, pc, left, result, failed>>

GiveUp ==
  /\ main = "closed" /\ result = <<>>
  /\ parsed' = Append(parsed, <<>>)
  /\ main' = "done"
  /\ UNCHANGED <<poolVars, cache, global, raw, pc, left, result, failed>>

\* The same process parses the next template, with a new reader and a new pool.
ParseNext ==
  /\ main = "done" /\ Len(parsed) < Len(Mains)
  /\ PoolReset
  /\ cache' = <<>> /\ raw' = <<>>
  /\ pc' = [t \in Threads |-> "ready"]
  /\ left' = [t \in Threads |-> <<>>]
  /\ main' = "presenting" /\ result' = <<>>
  /\ UNCHANGED <<global, parsed, failed>>

Consume ==
  Drain \/ DrainAfterRaise \/ PoisonQueue \/ Closed \/ MergeAndCache \/ GiveUp \/ ParseNext

Next ==
  \/ \E t \in Threads : Present(t)
  \/ \E w \in Workers : Take(w)
  \/ Consume

Spec == Init /\ [][Next]_vars

(* Every thread that is not blocked is scheduled, and reading ends.        *)
FairSpec ==
  /\ Spec
  /\ \A t \in Threads : WF_vars(Present(t))
  /\ \A w \in Workers : WF_vars(Take(w))
  /\ WF_vars(Consume)

-----------------------------------------------------------------------------
(* drain "Blocks until all current tasks finish execution": no call is     *)
(* queued or in progress once it has returned, although calls submit calls *)
(* (drain, _execute_task).                                                 *)
DrainedIsQuiet ==
  main \in {"closing", "closed"} =>
    /\ \A w \in Workers : job[w] \in {Idle, Dead}
    /\ \A i \in DOMAIN queue : queue[i] = Cyanide

PresentationsOf(l) == {p \in DOMAIN raw : p[1] = l}

(* Threads may read the same location side by side, before one has stored  *)
(* it, but no more often than that: circular imports are read a bounded    *)
(* number of times (_present).                                             *)
ReadsAreBounded ==
  \A l \in Locations :
    Cardinality(PresentationsOf(l)) <= Cardinality(Workers)

-----------------------------------------------------------------------------
(* The inductive invariant.                                                *)

TypeOK ==
  /\ submitted \in Seq(Locations \X Locations)
  /\ queue \in Seq(Nat \cup {Cyanide}) /\ unfinished \in Int
  /\ job \in [Workers -> Nat \cup {Idle, Dead}]
  /\ pc \in [Threads -> {"ready", "looked", "created", "submitting"}]
  /\ left \in [Threads -> Seq(Locations)]
  /\ main \in {"presenting", "draining", "raised", "closing", "closed", "done"}
  /\ parsed \in Seq({parsed[i] : i \in DOMAIN parsed})
  /\ main # "done" => Len(parsed) < Len(Mains)

Busy == {w \in Workers : job[w] # Idle}

(* The queue counts what is in it and what workers have taken and not      *)
(* finished: a call that submits calls is counted until it has.            *)
CountIsExact == unfinished = Len(queue) + Cardinality(Busy)

(* Workers are poisoned only when the pool is drained.                     *)
PoisonComesLast ==
  /\ main \in {"presenting", "draining", "raised"} =>
       /\ \A w \in Workers : job[w] # Dead
       /\ \A i \in DOMAIN queue : queue[i] # Cyanide
  /\ main \in {"closing", "closed", "done"} =>
       /\ \A w \in Workers : job[w] \in {Idle, Dead}
       /\ \A i \in DOMAIN queue : queue[i] = Cyanide

(* A thread in the middle of _present has a call, and the caller, until it *)
(* submits, is alone.                                                      *)
CallsAreLive ==
  /\ \A t \in Threads : pc[t] # "ready" => Presents(t)
  /\ main = "presenting" /\ pc[Caller] # "submitting" => submitted = <<>>

\* The threads that read a location, the presentations they create or have created, and
\* those that are not stored yet.
Readers(l) == {t \in Threads : pc[t] \in {"looked", "created"} /\ JobOf(t)[1] = l}
Creations(l) == {Created(t) : t \in Readers(l)}
Unstored(l) == {Created(t) : t \in {u \in Readers(l) : pc[u] = "created"}}
Readings(l) == PresentationsOf(l) \cup Creations(l)

(* While a location is in no cache, what was read of it is in the hands of *)
(* threads that have not stored it; one from the cache is not read again.  *)
LocationIsBounded(l) ==
  /\ ~IsCached(l) => PresentationsOf(l) \subseteq Unstored(l)
  /\ main # "done" /\ l \in DOMAIN global => Readings(l) \subseteq {Cached(l)}
  /\ IsFiniteSet(Readings(l)) /\ Cardinality(Readings(l)) <= Cardinality(Workers)

ReadingsAreBounded == \A l \in Locations : LocationIsBounded(l)

IInv ==
  TypeOK /\ CountIsExact /\ PoisonComesLast /\ CallsAreLive /\ ReadingsAreBounded

-----------------------------------------------------------------------------
(* The reader ends, circular imports, broken ones and exceptions included  *)
(* (_present_all).                                                         *)
ReaderEnds == <>(main = "done" /\ Len(parsed) = Len(Mains))
=============================================================================
