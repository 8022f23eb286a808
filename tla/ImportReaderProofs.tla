------------------------- MODULE ImportReaderProofs -------------------------
(***************************************************************************)
(* The reader of imports drains its pool and reads in bounds, whatever the *)
(* templates import, however many workers there are, and whatever the      *)
(* merge makes of what was read.                                           *)
(***************************************************************************)
EXTENDS ImportReader, FiniteSetTheorems, TLAPS

(* An entry joins a sequence, or leaves it at the head.                    *)
LEMMA Joined ==
  ASSUME NEW S, NEW s \in Seq(S), NEW x \in S
  PROVE  /\ Append(s, x) \in Seq(S) /\ Len(Append(s, x)) = Len(s) + 1
         /\ DOMAIN Append(s, x) = DOMAIN s \cup {Len(s) + 1}
         /\ \A i \in DOMAIN s : Append(s, x)[i] = s[i]
         /\ Append(s, x)[Len(s) + 1] = x
OBVIOUS

(* What is left of a queue whose first entry is taken.                     *)
LEMMA Left ==
  ASSUME NEW S, NEW s \in Seq(S), s # <<>>
  PROVE  /\ Head(s) \in S /\ Head(s) = s[1] /\ 1 \in DOMAIN s
         /\ Tail(s) \in Seq(S) /\ Len(Tail(s)) = Len(s) - 1
         /\ \A i \in DOMAIN Tail(s) : i + 1 \in DOMAIN s /\ Tail(s)[i] = s[i + 1]
OBVIOUS

(* A sequence of anything is one of its entries.                           *)
LEMMA JoinedAny ==
  ASSUME NEW s, s \in Seq({s[i] : i \in DOMAIN s}), NEW x, NEW a, a = Append(s, x)
  PROVE  a \in Seq({a[i] : i \in DOMAIN a}) /\ Len(a) = Len(s) + 1
<1> DEFINE S == {s[i] : i \in DOMAIN s} \cup {x}
<1>1. s \in Seq(S) /\ x \in S
  OBVIOUS
<1> HIDE DEF S
<1>2. a \in Seq(S) /\ Len(a) = Len(s) + 1
  <2>1. Append(s, x) \in Seq(S) /\ Len(Append(s, x)) = Len(s) + 1
    BY ONLY <1>1, Joined
  <2>2. a = Append(s, x)
    OBVIOUS
  <2> QED BY ONLY <2>1, <2>2, Zenon
<1>3. Len(a) \in Nat /\ DOMAIN a = 1 .. Len(a) /\ a = [i \in 1 .. Len(a) |-> a[i]]
  BY ONLY <1>2
<1>4. a \in Seq({a[i] : i \in DOMAIN a})
  BY ONLY <1>3
<1> QED BY <1>2, <1>4

-----------------------------------------------------------------------------
(* A thread leaves its call.                                               *)
Leaves(t) ==
  /\ pc' = [pc EXCEPT ![t] = "ready"]
  /\ \/ /\ t = Caller /\ main' \in {"draining", "raised"}
        /\ UNCHANGED <<submitted, queue, unfinished, job>>
     \/ /\ t # Caller /\ unfinished' = unfinished - 1
        /\ job' = [job EXCEPT ![t] = Idle]
        /\ UNCHANGED <<submitted, queue, main>>

(* What a step of a call is to the pool, the calling thread and the caches. *)
LEMMA PresentForms ==
  ASSUME NEW t \in Threads, Present(t)
  PROVE  /\ Presents(t) /\ UNCHANGED <<global, parsed>>
         /\ \/ Leaves(t) /\ UNCHANGED left
            \/ /\ UNCHANGED <<submitted, queue, unfinished, job, main>>
               /\ \/ /\ \E c \in {"looked", "created"} : pc' = [pc EXCEPT ![t] = c]
                     /\ pc[t] # "submitting" /\ UNCHANGED left
                  \/ StorePresentation(t)
            \/ SubmitImport(t)
<1> USE DEF Present, poolVars, Leaves, Leave, Raise, Return
<1>1. CASE Cancel(t)
  BY <1>1 DEF Cancel, Raises
<1>2. CASE FindCached(t)
  BY <1>2 DEF FindCached, Returns
<1>3. CASE FindNothing(t) \/ CreatePresentation(t)
  BY <1>3 DEF FindNothing, CreatePresentation
<1>4. CASE CannotRead(t)
  BY <1>4 DEF CannotRead, Raises
<1>5. CASE StorePresentation(t)
  BY <1>5 DEF StorePresentation
<1>6. CASE SubmitImport(t)
  BY <1>6 DEF SubmitImport
<1>7. CASE ReturnResult(t)
  BY <1>7 DEF ReturnResult, Returns
<1> QED BY <1>1, <1>2, <1>3, <1>4, <1>5, <1>6, <1>7

(* The invariant holds at the start.                                       *)
LEMMA InitInvariant == Init => IInv
<1> SUFFICES ASSUME Init PROVE IInv
  OBVIOUS
<1> USE DEF Init, PoolInit, ReaderInit
<1>1. TypeOK
  BY ReaderAssumption DEF TypeOK
<1>2. CountIsExact
  <2>1. Busy = {}
    BY DEF Busy
  <2> QED BY <2>1, FS_EmptySet DEF CountIsExact
<1>3. PoisonComesLast
  BY PoolAssumption DEF PoisonComesLast
<1>4. CallsAreLive
  BY DEF CallsAreLive
<1>5. ReadingsAreBounded
  <2>1. ASSUME NEW l \in Locations PROVE Readings(l) = {}
    BY DEF Readings, Creations, Readers, PresentationsOf
  <2>2. Cardinality({}) = 0 /\ Cardinality(Workers) \in Nat /\ IsFiniteSet({})
    BY FS_EmptySet, FS_CardinalityType, PoolAssumption
  <2>3. DOMAIN global = {}
    OBVIOUS
  <2>4. ASSUME NEW l \in Locations
        PROVE  IsFiniteSet(Readings(l)) /\ Cardinality(Readings(l)) <= Cardinality(Workers)
    <3>1. IsFiniteSet(Readings(l)) /\ Cardinality(Readings(l)) = 0
      BY <2>1, <2>2, Zenon
    <3> QED BY <2>2, <3>1
  <2> QED BY <2>1, <2>3, <2>4 DEF ReadingsAreBounded, LocationIsBounded, Readings
<1> QED BY <1>1, <1>2, <1>3, <1>4, <1>5 DEF IInv

(* What a thread is presenting is known.                                   *)
LEMMA JobKnown ==
  ASSUME TypeOK, NEW t \in Threads, Presents(t)
  PROVE  JobOf(t)[1] \in Locations
<1>1. CASE t = Caller
  <2>1. Len(parsed) < Len(Mains) /\ Len(parsed) \in Nat
    BY <1>1 DEF Presents, TypeOK
  <2> QED BY <1>1, <2>1, ReaderAssumption DEF JobOf, Main
<1>2. CASE t # Caller
  BY <1>2 DEF Presents, JobOf, TypeOK
<1> QED BY <1>1, <1>2

(* Every step keeps the types,                                             *)
LEMMA TypeCorrectNext == IInv /\ [Next]_vars => TypeOK'
<1> SUFFICES ASSUME IInv, [Next]_vars PROVE TypeOK'
  OBVIOUS
<1>0. TypeOK
  BY DEF IInv
<1>1. CASE UNCHANGED vars
  BY <1>0, <1>1 DEF vars, poolVars, TypeOK
<1>2. ASSUME NEW t \in Threads, Present(t) PROVE TypeOK'
  <2>0. Presents(t) /\ JobOf(t)[1] \in Locations
    BY <1>0, <1>2, PresentForms, JobKnown
  <2>1. CASE Leaves(t) /\ UNCHANGED <<left, parsed>>
    <3>1. CASE t = Caller
      BY <1>0, <2>0, <2>1, <3>1, CallerAssumption DEF TypeOK, Leaves, Presents
    <3>2. CASE t # Caller
      <4>1. t \in Workers
        BY <3>2 DEF Threads
      <4>2. job' \in [Workers -> Nat \cup {Idle, Dead}]
        BY <1>0, <2>1, <3>2, <4>1 DEF TypeOK, Leaves
      <4>3. pc' \in [Threads -> {"ready", "looked", "created", "submitting"}]
        BY <1>0, <2>1 DEF TypeOK, Leaves
      <4>4. /\ UNCHANGED <<submitted, queue, main, left, parsed>>
            /\ unfinished' = unfinished - 1
        BY <2>1, <3>2 DEF Leaves
      <4> QED BY <1>0, <4>2, <4>3, <4>4 DEF TypeOK
    <3> QED BY <3>1, <3>2
  <2>2. CASE /\ UNCHANGED <<submitted, queue, unfinished, job, main, left, parsed>>
             /\ \E c \in {"looked", "created"} : pc' = [pc EXCEPT ![t] = c]
    BY <1>0, <2>2 DEF TypeOK
  <2>3. CASE StorePresentation(t)
    <3>1. Imports[JobOf(t)[1]] \in Seq(Locations)
      BY <2>0, ReaderAssumption
    <3> QED BY <1>0, <2>3, <3>1 DEF TypeOK, StorePresentation, poolVars
  <2>4. CASE SubmitImport(t)
    <3>1. /\ left[t] \in Seq(Locations) /\ left[t] # <<>>
          /\ Head(left[t]) \in Locations /\ Tail(left[t]) \in Seq(Locations)
      BY <1>0, <2>4, Left DEF TypeOK, SubmitImport
    <3>2. <<Head(left[t]), JobOf(t)[1]>> \in Locations \X Locations
      BY <2>0, <3>1
    <3>3. submitted' \in Seq(Locations \X Locations)
      BY <1>0, <2>4, <3>2, Joined DEF TypeOK, SubmitImport, Submit
    <3>4. queue' \in Seq(Nat \cup {Cyanide})
      <4>1. Len(submitted) + 1 \in Nat \cup {Cyanide}
        BY <1>0 DEF TypeOK
      <4> QED BY <1>0, <2>4, <4>1, Joined DEF TypeOK, SubmitImport, Submit
    <3> QED BY <1>0, <2>4, <3>1, <3>3, <3>4 DEF TypeOK, SubmitImport, Submit
  <2> QED BY <1>2, <2>1, <2>2, <2>3, <2>4, PresentForms
<1>3. ASSUME NEW w \in Workers, Take(w) PROVE TypeOK'
  <2>1. queue' \in Seq(Nat \cup {Cyanide}) /\ Head(queue) \in Nat \cup {Cyanide}
    BY <1>0, <1>3, Left DEF TypeOK, Take, Get
  <2>2. job' \in [Workers -> Nat \cup {Idle, Dead}]
    BY <1>0, <1>3, <2>1 DEF TypeOK, Take, Get
  <2> QED BY <1>0, <1>3, <2>1, <2>2 DEF TypeOK, Take, Get
<1>4. CASE Consume
  <2>1. CASE Drain \/ DrainAfterRaise \/ Closed
    BY <1>0, <2>1 DEF TypeOK, Drain, DrainAfterRaise, Closed, poolVars
  <2>2. CASE PoisonQueue
    <3>1. queue' \in Seq(Nat \cup {Cyanide})
      BY <1>0, <2>2, Joined DEF TypeOK, PoisonQueue, Poison
    <3> QED BY <1>0, <2>2, <3>1 DEF TypeOK, PoisonQueue, Poison
  <2>3. CASE MergeAndCache \/ GiveUp
    <3>1. PICK contents : parsed' = Append(parsed, contents)
      BY <2>3 DEF MergeAndCache, GiveUp
    <3>2. parsed' \in Seq({parsed'[i] : i \in DOMAIN parsed'})
      <4>1. parsed \in Seq({parsed[i] : i \in DOMAIN parsed})
        BY <1>0 DEF TypeOK
      <4> QED BY ONLY <3>1, <4>1, JoinedAny
    <3> QED BY <1>0, <2>3, <3>2 DEF TypeOK, MergeAndCache, GiveUp, poolVars
  <2>4. CASE ParseNext
    BY <1>0, <2>4 DEF TypeOK, ParseNext, PoolReset
  <2> QED BY <1>4, <2>1, <2>2, <2>3, <2>4 DEF Consume
<1> QED BY <1>1, <1>2, <1>3, <1>4 DEF Next

-----------------------------------------------------------------------------
(* (finitely many workers are busy, so that they can be counted)           *)
LEMMA BusyIsFinite == IsFiniteSet(Busy) /\ Cardinality(Busy) \in Nat
<1>1. Busy \subseteq Workers
  BY DEF Busy
<1> QED BY <1>1, PoolAssumption, FS_Subset, FS_CardinalityType

(* A worker that executes something has taken it.                          *)
LEMMA ExecutingIsBusy ==
  ASSUME TypeOK, NEW t \in Threads, Presents(t), t # Caller
  PROVE  t \in Workers /\ t \in Busy /\ job[t] \notin {Idle, Dead}
<1>1. t \in Workers /\ job[t] \in DOMAIN submitted
  BY DEF Threads, Presents
<1>2. job[t] \in Nat
  BY <1>1 DEF TypeOK
<1> QED BY <1>1, <1>2, PoolAssumption DEF Busy

(* the count of unfinished entries,                                        *)
LEMMA NextKeepsCount == IInv /\ [Next]_vars => CountIsExact'
<1> SUFFICES ASSUME IInv, [Next]_vars PROVE CountIsExact'
  OBVIOUS
<1>0. TypeOK /\ CountIsExact
  BY DEF IInv
<1>1. CASE UNCHANGED <<queue, unfinished, job>>
  BY <1>0, <1>1 DEF CountIsExact, Busy
<1>2. ASSUME NEW t \in Threads, Present(t) PROVE CountIsExact'
  <2>1. CASE Leaves(t) /\ t # Caller
    <3>1. t \in Workers /\ t \in Busy
      BY <1>0, <1>2, <2>1, PresentForms, ExecutingIsBusy
    <3>2. Busy' = Busy \ {t}
      BY <1>0, <2>1, <3>1 DEF Busy, Leaves, TypeOK
    <3>3. Cardinality(Busy') = Cardinality(Busy) - 1
      BY <3>1, <3>2, BusyIsFinite, FS_RemoveElement
    <3> QED BY <1>0, <2>1, <3>3, BusyIsFinite DEF CountIsExact, Leaves, TypeOK
  <2>2. CASE Leaves(t) /\ t = Caller
    BY <1>1, <2>2 DEF Leaves
  <2>3. CASE SubmitImport(t)
    <3>1. Len(submitted) + 1 \in Nat \cup {Cyanide}
      BY <1>0 DEF TypeOK
    <3>2. Len(queue') = Len(queue) + 1
      BY <1>0, <2>3, <3>1, Joined DEF TypeOK, SubmitImport, Submit
    <3>3. unfinished' = unfinished + 1 /\ Busy' = Busy
      BY <2>3 DEF SubmitImport, Submit, Busy
    <3> QED BY <1>0, <3>2, <3>3, BusyIsFinite DEF CountIsExact, TypeOK
  <2> QED BY <1>1, <1>2, <2>1, <2>2, <2>3, PresentForms DEF StorePresentation, poolVars
<1>3. ASSUME NEW w \in Workers, Take(w) PROVE CountIsExact'
  <2>1. /\ w \notin Busy /\ Len(queue') = Len(queue) - 1 /\ unfinished' = unfinished
        /\ Head(queue) \in Nat \cup {Cyanide}
    BY <1>0, <1>3, Left DEF TypeOK, Take, Get, Busy
  <2>2. job'[w] # Idle /\ \A v \in Workers \ {w} : job'[v] = job[v]
    BY <1>0, <1>3, <2>1, PoolAssumption DEF TypeOK, Take, Get
  <2>3. Busy' = Busy \cup {w}
    BY <2>2 DEF Busy
  <2>4. Cardinality(Busy') = Cardinality(Busy) + 1
    BY <2>1, <2>3, BusyIsFinite, FS_AddElement
  <2> QED BY <1>0, <2>1, <2>4, BusyIsFinite DEF CountIsExact, TypeOK
<1>4. CASE Consume
  <2>1. CASE PoisonQueue
    <3>1. Len(queue') = Len(queue) + 1
      BY <1>0, <2>1, Joined DEF TypeOK, PoisonQueue, Poison
    <3>2. unfinished' = unfinished + 1 /\ Busy' = Busy
      BY <2>1 DEF PoisonQueue, Poison, Busy
    <3> QED BY <1>0, <3>1, <3>2, BusyIsFinite DEF CountIsExact, TypeOK
  <2>2. CASE ParseNext
    <3>1. Busy' = {} /\ Len(queue') = 0 /\ unfinished' = 0
      BY <2>2 DEF ParseNext, PoolReset, Busy
    <3> QED BY <3>1, FS_EmptySet DEF CountIsExact
  <2> QED BY <1>1, <1>4, <2>1, <2>2
          DEF Consume, Drain, DrainAfterRaise, Closed, MergeAndCache, GiveUp, poolVars
<1> QED BY <1>1, <1>2, <1>3, <1>4 DEF Next, vars, poolVars

(* drain returns when nothing is queued and nobody has taken anything.     *)
LEMMA DrainedIsEmpty ==
  ASSUME TypeOK, CountIsExact, Drained
  PROVE  queue = <<>> /\ \A w \in Workers : job[w] = Idle
<1>1. Len(queue) \in Nat /\ unfinished = 0
  BY DEF TypeOK, Drained
<1>2. Len(queue) = 0 /\ Cardinality(Busy) = 0
  BY <1>1, BusyIsFinite DEF CountIsExact
<1>3. Busy = {}
  BY <1>2, BusyIsFinite, FS_EmptySet
<1>4. queue = <<>>
  BY <1>2 DEF TypeOK
<1> QED BY <1>3, <1>4 DEF Busy

(* Calls are made while the main thread presents and drains.               *)
LEMMA PresentsEarly ==
  ASSUME IInv, NEW t \in Threads, Presents(t)
  PROVE  main \in {"presenting", "draining", "raised"}
<1>0. TypeOK /\ PoisonComesLast
  BY DEF IInv
<1>1. CASE t = Caller
  BY <1>1 DEF Presents
<1>2. CASE t # Caller
  <2>1. t \in Workers /\ job[t] \notin {Idle, Dead}
    BY <1>0, <1>2, ExecutingIsBusy
  <2>2. main \notin {"closing", "closed", "done"}
    BY <1>0, <2>1 DEF PoisonComesLast
  <2> QED BY <1>0, <2>2 DEF TypeOK
<1> QED BY <1>1, <1>2

(* the place of the poison,                                                *)
LEMMA NextKeepsPoison == IInv /\ [Next]_vars => PoisonComesLast'
<1> SUFFICES ASSUME IInv, [Next]_vars PROVE PoisonComesLast'
  OBVIOUS
<1>0. TypeOK /\ CountIsExact /\ PoisonComesLast
  BY DEF IInv
<1>1. CASE UNCHANGED <<queue, job, main>>
  BY <1>0, <1>1 DEF PoisonComesLast
<1>2. ASSUME NEW t \in Threads, Present(t) PROVE PoisonComesLast'
  <2>0. /\ Presents(t)
        /\ main \in {"presenting", "draining", "raised"}
    BY <1>2, PresentForms, PresentsEarly
  <2>1. CASE Leaves(t) /\ t # Caller
    <3>1. UNCHANGED <<queue, main>> /\ \A w \in Workers : job'[w] \in {job[w], Idle}
      BY <1>0, <2>1 DEF Leaves, TypeOK
    <3> QED BY <1>0, <2>0, <3>1, PoolAssumption DEF PoisonComesLast
  <2>2. CASE Leaves(t) /\ t = Caller
    BY <1>0, <2>0, <2>2 DEF Leaves, PoisonComesLast
  <2>3. CASE SubmitImport(t)
    <3>1. /\ Len(submitted) + 1 \in Nat \cup {Cyanide} /\ Len(submitted) + 1 # Cyanide
      BY <1>0, PoolAssumption DEF TypeOK
    <3>2. /\ DOMAIN queue' = DOMAIN queue \cup {Len(queue) + 1}
          /\ \A i \in DOMAIN queue : queue'[i] = queue[i]
          /\ queue'[Len(queue) + 1] = Len(submitted) + 1
      BY <1>0, <2>3, <3>1, Joined DEF TypeOK, SubmitImport, Submit
    <3> QED BY <1>0, <2>0, <2>3, <3>1, <3>2 DEF PoisonComesLast, SubmitImport, Submit
  <2> QED BY <1>1, <1>2, <2>1, <2>2, <2>3, PresentForms DEF StorePresentation, poolVars
<1>3. ASSUME NEW w \in Workers, Take(w) PROVE PoisonComesLast'
  <2>1. /\ Head(queue) = queue[1] /\ 1 \in DOMAIN queue /\ job[w] = Idle
        /\ \A i \in DOMAIN queue' : i + 1 \in DOMAIN queue /\ queue'[i] = queue[i + 1]
        /\ UNCHANGED main /\ queue[1] \in Nat \cup {Cyanide}
    BY <1>0, <1>3, Left DEF TypeOK, Take, Get
  <2>2. /\ job'[w] = IF queue[1] = Cyanide THEN Dead ELSE queue[1]
        /\ \A v \in Workers \ {w} : job'[v] = job[v]
    BY <1>0, <1>3, <2>1 DEF TypeOK, Take, Get
  <2> QED BY <1>0, <2>1, <2>2, PoolAssumption DEF PoisonComesLast
<1>4. CASE Consume
  <2>1. CASE Drain \/ DrainAfterRaise
    <3>1. /\ UNCHANGED <<queue, job>> /\ main' = "closing" /\ Drained
      BY <2>1 DEF Drain, DrainAfterRaise, poolVars
    <3>2. queue = <<>> /\ \A w \in Workers : job[w] = Idle
      BY <1>0, <3>1, DrainedIsEmpty
    <3> QED BY <3>1, <3>2 DEF PoisonComesLast
  <2>2. CASE PoisonQueue
    <3>1. /\ DOMAIN queue' = DOMAIN queue \cup {Len(queue) + 1}
          /\ \A i \in DOMAIN queue : queue'[i] = queue[i]
          /\ queue'[Len(queue) + 1] = Cyanide
      BY <1>0, <2>2, Joined DEF TypeOK, PoisonQueue, Poison
    <3> QED BY <1>0, <2>2, <3>1 DEF PoisonComesLast, PoisonQueue, Poison
  <2>3. CASE Closed \/ MergeAndCache \/ GiveUp
    BY <1>0, <2>3 DEF PoisonComesLast, Closed, MergeAndCache, GiveUp, poolVars
  <2>4. CASE ParseNext
    BY <2>4, PoolAssumption DEF PoisonComesLast, ParseNext, PoolReset
  <2> QED BY <1>4, <2>1, <2>2, <2>3, <2>4 DEF Consume
<1> QED BY <1>1, <1>2, <1>3, <1>4 DEF Next, vars, poolVars

(* that a thread in the middle of presenting has a call,                   *)
LEMMA NextKeepsCalls == IInv /\ [Next]_vars => CallsAreLive'
<1> SUFFICES ASSUME IInv, [Next]_vars PROVE CallsAreLive'
  OBVIOUS
<1>0. TypeOK /\ CallsAreLive
  BY DEF IInv
<1>c. Caller \in Threads
  BY DEF Threads
<1>1. CASE UNCHANGED <<pc, main, submitted, job>>
  BY <1>0, <1>1 DEF CallsAreLive, Presents
<1>2. ASSUME NEW t \in Threads, Present(t) PROVE CallsAreLive'
  <2>0. Presents(t)
    BY <1>2, PresentForms
  <2>1. CASE Leaves(t)
    <3>1. /\ pc'[t] = "ready" /\ \A u \in Threads \ {t} : pc'[u] = pc[u]
          /\ UNCHANGED submitted
          /\ \A u \in Workers \ {t} : job'[u] = job[u]
          /\ t # Caller => UNCHANGED main
          /\ t = Caller => main' # "presenting"
      BY <1>0, <2>1 DEF Leaves, TypeOK
    <3>2. ASSUME NEW u \in Threads, pc'[u] # "ready" PROVE Presents(u)'
      BY <1>0, <3>1, <3>2 DEF CallsAreLive, Presents, Threads
    <3> QED BY <1>0, <1>c, <3>1, <3>2 DEF CallsAreLive
  <2>2. CASE /\ UNCHANGED <<submitted, job, main>> /\ pc[t] # "submitting"
             /\ \E c \in {"looked", "created"} : pc' = [pc EXCEPT ![t] = c]
    <3>1. pc'[t] # "submitting" /\ \A u \in Threads \ {t} : pc'[u] = pc[u]
      BY <1>0, <2>2 DEF TypeOK
    <3> QED BY <1>0, <1>c, <2>0, <2>2, <3>1 DEF CallsAreLive, Presents
  <2>3. CASE StorePresentation(t)
    <3>1. /\ pc'[t] = "submitting" /\ \A u \in Threads \ {t} : pc'[u] = pc[u]
          /\ UNCHANGED <<submitted, job, main>>
      BY <1>0, <2>3 DEF TypeOK, StorePresentation, poolVars
    <3> QED BY <1>0, <1>c, <2>0, <3>1 DEF CallsAreLive, Presents
  <2>4. CASE SubmitImport(t)
    <3>1. /\ pc[t] = "submitting" /\ UNCHANGED <<pc, job, main>>
          /\ DOMAIN submitted \subseteq DOMAIN submitted'
      BY <1>0, <2>4 DEF TypeOK, SubmitImport, Submit
    <3>2. main = "presenting" => pc[Caller] = "submitting"
      BY <1>0, <2>0, <3>1 DEF CallsAreLive, Presents
    <3> QED BY <1>0, <3>1, <3>2 DEF CallsAreLive, Presents
  <2> QED BY <1>2, <2>1, <2>2, <2>3, <2>4, PresentForms
<1>3. ASSUME NEW w \in Workers, Take(w) PROVE CallsAreLive'
  <2>1. /\ job[w] = Idle /\ \A v \in Workers \ {w} : job'[v] = job[v]
        /\ UNCHANGED <<pc, main, submitted>>
    BY <1>0, <1>3 DEF TypeOK, Take, Get
  <2>2. ~ Presents(w)
    BY <1>0, <2>1, PoolAssumption, CallerAssumption DEF Presents, TypeOK
  <2>3. pc[w] = "ready"
    BY <1>0, <2>2 DEF CallsAreLive, Threads
  <2>4. ASSUME NEW u \in Threads, pc'[u] # "ready" PROVE Presents(u)'
    BY <1>0, <2>1, <2>3, <2>4 DEF CallsAreLive, Presents, Threads
  <2> QED BY <1>0, <2>1, <2>4 DEF CallsAreLive
<1>4. CASE Consume
  <2>1. CASE ParseNext
    BY <2>1 DEF ParseNext, PoolReset, CallsAreLive
  <2>2. CASE ~ ParseNext
    <3>1. main # "presenting" /\ main' # "presenting" /\ UNCHANGED <<pc, submitted, job>>
      BY <1>4, <2>2 DEF Consume, Drain, DrainAfterRaise, PoisonQueue, Poison, Closed,
         MergeAndCache, GiveUp, poolVars
    <3> QED BY <1>0, <3>1 DEF CallsAreLive, Presents
  <2> QED BY <2>1, <2>2
<1> QED BY <1>1, <1>2, <1>3, <1>4 DEF Next, vars, poolVars

-----------------------------------------------------------------------------
(* What may be read of a location stays in bounds where nothing is added,  *)
(* and what is in no cache stays in the hands of threads.                  *)
LEMMA ReadingsShrink ==
  ASSUME NEW l \in Locations, LocationIsBounded(l),
         DOMAIN global \subseteq DOMAIN global', DOMAIN cache \subseteq DOMAIN cache',
         main' # "done" => main # "done" /\ DOMAIN global' = DOMAIN global,
         Readings(l)' \subseteq Readings(l),
         ~IsCached(l)' /\ PresentationsOf(l) \subseteq Unstored(l)
            => PresentationsOf(l)' \subseteq Unstored(l)'
  PROVE  LocationIsBounded(l)'
<1>1. ~IsCached(l)' => PresentationsOf(l)' \subseteq Unstored(l)'
  <2>1. ~IsCached(l)' => ~IsCached(l)
    BY DEF IsCached
  <2> QED BY <2>1 DEF LocationIsBounded
<1>2. main' # "done" /\ l \in DOMAIN global' => Readings(l)' \subseteq {Cached(l)}
  BY DEF LocationIsBounded
<1>3. /\ IsFiniteSet(Readings(l)) /\ Cardinality(Readings(l)) <= Cardinality(Workers)
      /\ Readings(l)' \in SUBSET Readings(l)
  BY DEF LocationIsBounded
<1>4. /\ IsFiniteSet(Readings(l)') /\ Cardinality(Readings(l)') <= Cardinality(Readings(l))
  BY <1>3, FS_Subset
<1>5. /\ Cardinality(Readings(l)') \in Nat /\ Cardinality(Readings(l)) \in Nat
      /\ Cardinality(Workers) \in Nat
  BY <1>3, <1>4, FS_CardinalityType, PoolAssumption
<1>6. Cardinality(Readings(l)') <= Cardinality(Workers)
  BY <1>3, <1>4, <1>5
<1> QED BY <1>1, <1>2, <1>4, <1>6 DEF LocationIsBounded, Cached

(* The call of a thread that is in the middle of one is not touched by the *)
(* steps of others.                                                        *)
LEMMA OthersStay ==
  ASSUME IInv, NEW t \in Threads, Present(t), NEW u \in Threads \ {t}
  PROVE  /\ pc'[u] = pc[u]
         /\ pc[u] # "ready" => JobOf(u)' = JobOf(u) /\ Created(u)' = Created(u)
<1>0. TypeOK /\ CallsAreLive
  BY DEF IInv
<1>1. /\ pc'[u] = pc[u] /\ UNCHANGED parsed
      /\ u \in Workers => job'[u] = job[u]
      /\ \A i \in DOMAIN submitted : submitted'[i] = submitted[i]
  <2>1. CASE Leaves(t)
    BY <1>0, <2>1, PresentForms DEF Leaves, TypeOK
  <2>2. CASE UNCHANGED <<submitted, job>>
    BY <1>0, <2>2, PresentForms DEF Leaves, TypeOK, StorePresentation, SubmitImport
  <2>3. CASE SubmitImport(t)
    BY <1>0, <2>3 DEF TypeOK, SubmitImport, Submit
  <2> QED BY <2>1, <2>2, <2>3, PresentForms
<1>2. CASE u = Caller
  BY <1>1, <1>2 DEF JobOf, Created, Main
<1>3. CASE u # Caller
  <2>1. pc[u] # "ready" => u \in Workers /\ job[u] \in DOMAIN submitted
    BY <1>0, <1>3 DEF CallsAreLive, Presents, Threads
  <2> QED BY <1>1, <1>3, <2>1 DEF JobOf, Created
<1> QED BY <1>2, <1>3, <1>1

(* The thread that begins to read a location nobody has stored is alone    *)
(* when it is the caller, and one of the workers when it is not: there are *)
(* at most as many readers as workers.                                     *)
LEMMA ReadersAreWorkers ==
  ASSUME IInv, NEW S \in SUBSET Threads,
         \A t \in S : Presents(t) /\ (t = Caller => pc[t] # "submitting"),
         NEW T, NEW f \in Surjection(S, T)
  PROVE  IsFiniteSet(T) /\ Cardinality(T) <= Cardinality(Workers)
<1>0. TypeOK /\ CallsAreLive
  BY DEF IInv
<1>1. S \subseteq Workers \/ S = {Caller}
  <2>1. CASE Caller \in S
    <3>1. submitted = <<>>
      BY <1>0, <2>1 DEF CallsAreLive, Presents
    <3>2. ASSUME NEW t \in S, t # Caller PROVE FALSE
      BY <3>1, <3>2 DEF Presents
    <3> QED BY <2>1, <3>2
  <2>2. CASE Caller \notin S
    BY <2>2 DEF Threads
  <2> QED BY <2>1, <2>2
<1>2. Cardinality(Workers) \in Nat /\ Cardinality(Workers) # 0
  BY PoolAssumption, FS_CardinalityType, FS_EmptySet
<1>3. IsFiniteSet(S) /\ Cardinality(S) \in Nat /\ Cardinality(S) <= Cardinality(Workers)
  <2>1. CASE S \subseteq Workers
    BY <2>1, PoolAssumption, FS_Subset, FS_CardinalityType
  <2>2. CASE S = {Caller}
    <3>1. IsFiniteSet({Caller}) /\ Cardinality({Caller}) = 1
      BY FS_Singleton
    <3> QED BY <1>2, <2>2, <3>1
  <2> QED BY <1>1, <2>1, <2>2
<1>4. IsFiniteSet(T) /\ Cardinality(T) <= Cardinality(S)
  BY <1>3, FS_Surjection
<1> QED BY <1>2, <1>3, <1>4, FS_CardinalityType

(* A call begins to read.                                                  *)
LEMMA FindNothingKeeps ==
  ASSUME IInv, NEW t \in Threads, FindNothing(t), NEW l \in Locations
  PROVE  LocationIsBounded(l)'
<1>0. TypeOK /\ CallsAreLive /\ LocationIsBounded(l)
  BY DEF IInv, ReadingsAreBounded
<1>1. /\ Presents(t) /\ pc[t] = "ready" /\ ~IsCached(JobOf(t)[1])
      /\ pc'[t] = "looked" /\ \A u \in Threads \ {t} : pc'[u] = pc[u]
      /\ UNCHANGED <<cache, global, raw, main>>
      /\ \A u \in Threads : JobOf(u)' = JobOf(u) /\ Created(u)' = Created(u)
      /\ PresentationsOf(l)' = PresentationsOf(l)
  BY <1>0 DEF TypeOK, FindNothing, poolVars, JobOf, Created, Main, PresentationsOf
<1>2. Unstored(l)' = Unstored(l)
  BY <1>1 DEF Unstored, Readers
<1>3. CASE JobOf(t)[1] # l
  <2>1. Readings(l)' = Readings(l)
    BY <1>1, <1>3 DEF Readings, Creations, Readers
  <2> QED BY <1>0, <1>1, <1>2, <2>1, ReadingsShrink
<1>4. CASE JobOf(t)[1] = l
  <2>1. Readings(l)' = Creations(l)'
    <3>1. PresentationsOf(l) \subseteq Unstored(l)
      BY <1>0, <1>1, <1>4 DEF LocationIsBounded
    <3>2. Unstored(l)' \subseteq Creations(l)'
      BY DEF Unstored, Creations
    <3> QED BY <1>1, <1>2, <3>1, <3>2 DEF Readings
  <2> DEFINE f == [u \in Readers(l)' |-> Created(u)']
  <2>2. f \in Surjection(Readers(l)', Creations(l)')
    BY DEF Surjection, Creations
  <2>3. /\ Readers(l)' \in SUBSET Threads
        /\ \A u \in Readers(l)' : Presents(u) /\ pc[u] # "submitting"
    BY <1>0, <1>1 DEF Readers, CallsAreLive
  <2>4. IsFiniteSet(Creations(l)') /\ Cardinality(Creations(l)') <= Cardinality(Workers)
    BY <2>2, <2>3, ReadersAreWorkers
  <2>5. /\ ~IsCached(l)' /\ l \notin DOMAIN global'
        /\ PresentationsOf(l)' \subseteq Unstored(l)'
    BY <1>0, <1>1, <1>2, <1>4 DEF LocationIsBounded, IsCached
  <2> QED BY <2>1, <2>4, <2>5 DEF LocationIsBounded
<1> QED BY <1>3, <1>4

(* A call creates what it reads, or fails to, or stores it.                *)
LEMMA CreationKeeps ==
  ASSUME IInv, NEW t \in Threads, NEW l \in Locations,
         CreatePresentation(t) \/ CannotRead(t) \/ StorePresentation(t)
  PROVE  LocationIsBounded(l)'
<1>0. TypeOK /\ CallsAreLive /\ LocationIsBounded(l)
  BY DEF IInv, ReadingsAreBounded
<1>p. Present(t) /\ Presents(t)
  BY PresentForms DEF Present
<1>e. main \in {"presenting", "draining", "raised"}
  BY <1>p, PresentsEarly
<1>1. CASE CreatePresentation(t)
  <2>1. /\ pc[t] = "looked" /\ pc'[t] = "created"
        /\ \A u \in Threads \ {t} : pc'[u] = pc[u]
        /\ UNCHANGED <<cache, global, main>>
        /\ \A u \in Threads : JobOf(u)' = JobOf(u) /\ Created(u)' = Created(u)
        /\ DOMAIN raw' = DOMAIN raw \cup {Created(t)}
    BY <1>0, <1>1 DEF TypeOK, CreatePresentation, poolVars, JobOf, Created, Main, Put
  <2>2. Created(t)[1] = JobOf(t)[1]
    BY DEF Created
  <2>3. Readers(l)' = Readers(l)
    BY <2>1 DEF Readers
  <2>4. Creations(l)' = Creations(l)
    BY <2>1, <2>3 DEF Creations, Readers
  <2>5. /\ PresentationsOf(l)' \subseteq PresentationsOf(l) \cup {Created(t)}
        /\ JobOf(t)[1] # l => PresentationsOf(l)' = PresentationsOf(l)
    BY <2>1, <2>2 DEF PresentationsOf
  <2>6. Readings(l)' \subseteq Readings(l)
    BY <2>1, <2>4, <2>5 DEF Readings, Creations, Readers
  <2>7. /\ Unstored(l) \subseteq Unstored(l)'
        /\ JobOf(t)[1] = l => Created(t) \in Unstored(l)'
    BY <2>1, <2>3 DEF Unstored, Readers
  <2>8. PresentationsOf(l) \subseteq Unstored(l) => PresentationsOf(l)' \subseteq Unstored(l)'
    BY <2>5, <2>7
  <2> QED BY <1>0, <2>1, <2>6, <2>8, ReadingsShrink
<1>2. CASE CannotRead(t) \/ StorePresentation(t)
  <2>1. /\ pc'[t] \notin {"looked", "created"}
        /\ \/ pc[t] = "looked" /\ UNCHANGED cache
           \/ pc[t] = "created" /\ DOMAIN cache' = DOMAIN cache \cup {JobOf(t)[1]}
        /\ UNCHANGED <<global, raw>> /\ main' # "done"
    BY <1>0, <1>2, <1>e DEF TypeOK, CannotRead, StorePresentation, Raises, Leave, Put
  <2>2. \A u \in Threads \ {t} :
          /\ pc'[u] = pc[u]
          /\ pc[u] # "ready" => JobOf(u)' = JobOf(u) /\ Created(u)' = Created(u)
    BY <1>p, OthersStay
  <2>3. PresentationsOf(l)' = PresentationsOf(l)
    BY <2>1 DEF PresentationsOf
  <2>4. Readings(l)' \subseteq Readings(l)
    BY <2>1, <2>2, <2>3 DEF Readings, Creations, Readers
  <2>5. ~IsCached(l)' => Unstored(l) \subseteq Unstored(l)'
    BY <2>1, <2>2 DEF Unstored, Readers, IsCached
  <2> QED BY <1>0, <1>e, <2>1, <2>3, <2>4, <2>5, ReadingsShrink
<1> QED BY <1>1, <1>2

(* The other steps of a call create nothing.                               *)
LEMMA CallKeeps ==
  ASSUME IInv, NEW t \in Threads, NEW l \in Locations,
         Cancel(t) \/ FindCached(t) \/ SubmitImport(t) \/ ReturnResult(t)
  PROVE  LocationIsBounded(l)'
<1>0. TypeOK /\ CallsAreLive /\ LocationIsBounded(l)
  BY DEF IInv, ReadingsAreBounded
<1>p. Present(t) /\ Presents(t)
  BY PresentForms DEF Present
<1>e. main \in {"presenting", "draining", "raised"}
  BY <1>p, PresentsEarly
<1>1. /\ pc[t] \notin {"looked", "created"} /\ pc'[t] \notin {"looked", "created"}
      /\ UNCHANGED <<cache, global>> /\ main' # "done"
      /\ \/ UNCHANGED raw
         \/ \E c \in DOMAIN global : DOMAIN raw' = DOMAIN raw \cup {Cached(c)}
  BY <1>0, <1>e DEF TypeOK, Cancel, FindCached, SubmitImport, ReturnResult, Raises,
     Returns, Leave, Put
<1>2. \A u \in Threads \ {t} :
        /\ pc'[u] = pc[u]
        /\ pc[u] # "ready" => JobOf(u)' = JobOf(u) /\ Created(u)' = Created(u)
  BY <1>p, OthersStay
<1>3. Creations(l)' = Creations(l) /\ Unstored(l)' = Unstored(l)
  BY <1>1, <1>2 DEF Creations, Unstored, Readers
<1>4. CASE PresentationsOf(l)' = PresentationsOf(l)
  <2>1. Readings(l)' = Readings(l)
    BY <1>3, <1>4 DEF Readings
  <2> QED BY <1>0, <1>1, <1>3, <1>4, <1>e, <2>1, ReadingsShrink
<1>5. CASE PresentationsOf(l)' # PresentationsOf(l)
  <2>1. l \in DOMAIN global /\ PresentationsOf(l)' \subseteq PresentationsOf(l) \cup {Cached(l)}
    <3>1. PICK c \in DOMAIN global : DOMAIN raw' = DOMAIN raw \cup {Cached(c)}
      BY <1>1, <1>5 DEF PresentationsOf
    <3>2. Cached(c)[1] = c
      BY DEF Cached
    <3>3. c = l
      BY <1>5, <3>1, <3>2 DEF PresentationsOf
    <3> QED BY <3>1, <3>3 DEF PresentationsOf
  <2>2. Readings(l)' \subseteq {Cached(l)}
    BY <1>0, <1>3, <1>e, <2>1 DEF LocationIsBounded, Readings
  <2>3. /\ IsFiniteSet({Cached(l)}) /\ Cardinality({Cached(l)}) = 1
        /\ Readings(l)' \in SUBSET {Cached(l)}
    BY <2>2, FS_Singleton
  <2>4. IsFiniteSet(Readings(l)') /\ Cardinality(Readings(l)') <= 1
    BY <2>3, FS_Subset
  <2>5. /\ Cardinality(Workers) \in Nat /\ Cardinality(Workers) # 0
        /\ Cardinality(Readings(l)') \in Nat
    BY <2>4, PoolAssumption, FS_CardinalityType, FS_EmptySet
  <2>6. Cardinality(Readings(l)') <= Cardinality(Workers)
    BY <2>4, <2>5
  <2>7. IsCached(l)'
    BY <1>1, <2>1 DEF IsCached
  <2> QED BY <2>2, <2>4, <2>6, <2>7 DEF LocationIsBounded, Cached
<1> QED BY <1>4, <1>5

(* the bound of readings,                                                  *)
LEMMA NextKeepsReadings == IInv /\ [Next]_vars => ReadingsAreBounded'
<1> SUFFICES ASSUME IInv, [Next]_vars, NEW l \in Locations
             PROVE  LocationIsBounded(l)'
  BY DEF ReadingsAreBounded
<1>0. TypeOK /\ PoisonComesLast /\ CallsAreLive /\ LocationIsBounded(l)
  BY DEF IInv, ReadingsAreBounded
<1>1. ASSUME UNCHANGED <<raw, pc, cache, global>>, main' # "done" => main # "done",
             \A t \in Threads : pc[t] # "ready" =>
                                 JobOf(t)' = JobOf(t) /\ Created(t)' = Created(t)
      PROVE  LocationIsBounded(l)'
  <2>1. Readings(l)' = Readings(l) /\ PresentationsOf(l)' = PresentationsOf(l)
        /\ Unstored(l)' = Unstored(l)
    BY <1>1 DEF Readings, PresentationsOf, Creations, Unstored, Readers
  <2> QED BY <1>0, <1>1, <2>1, ReadingsShrink
<1>2. CASE UNCHANGED vars
  BY <1>1, <1>2 DEF vars, poolVars, JobOf, Created, Main
<1>3. ASSUME NEW t \in Threads, Present(t) PROVE LocationIsBounded(l)'
  BY <1>3, FindNothingKeeps, CreationKeeps, CallKeeps DEF Present
<1>4. ASSUME NEW w \in Workers, Take(w) PROVE LocationIsBounded(l)'
  <2>1. /\ job[w] = Idle /\ \A v \in Workers \ {w} : job'[v] = job[v]
        /\ UNCHANGED <<pc, main, submitted, raw, cache, global, parsed>>
    BY <1>0, <1>4 DEF TypeOK, Take, Get
  <2>2. pc[w] = "ready"
    <3>1. ~ Presents(w)
      BY <1>0, <2>1, PoolAssumption, CallerAssumption DEF Presents, TypeOK
    <3> QED BY <1>0, <3>1 DEF CallsAreLive, Threads
  <2>3. \A t \in Threads : pc[t] # "ready" => JobOf(t)' = JobOf(t) /\ Created(t)' = Created(t)
    BY <2>1, <2>2 DEF JobOf, Created, Main, Threads
  <2> QED BY <1>1, <2>1, <2>3
<1>5. CASE Consume
  <2>1. CASE Drain \/ DrainAfterRaise \/ PoisonQueue \/ Closed
    <3>1. /\ UNCHANGED <<raw, pc, cache, global, submitted, job, parsed>>
          /\ main # "done" /\ main' # "done"
      BY <2>1 DEF Drain, DrainAfterRaise, PoisonQueue, Poison, Closed, poolVars
    <3> QED BY <1>1, <3>1 DEF JobOf, Created, Main
  <2>2. CASE MergeAndCache \/ GiveUp
    <3>1. /\ UNCHANGED <<raw, pc, cache>> /\ main = "closed" /\ main' = "done"
          /\ DOMAIN global \subseteq DOMAIN global'
      BY <2>2 DEF MergeAndCache, GiveUp
    <3>2. \A t \in Threads : pc[t] = "ready"
      BY <1>0, <3>1, PresentsEarly DEF CallsAreLive
    <3>3. /\ Readings(l)' \subseteq Readings(l) /\ PresentationsOf(l)' = PresentationsOf(l)
          /\ Unstored(l) = {}
      BY <3>1, <3>2 DEF Readings, PresentationsOf, Creations, Unstored, Readers
    <3> QED BY <1>0, <3>1, <3>3, ReadingsShrink
  <2>3. CASE ParseNext
    <3>1. Readings(l)' = {} /\ PresentationsOf(l)' = {}
      BY <2>3 DEF ParseNext, Readings, PresentationsOf, Creations, Readers
    <3>2. Cardinality({}) = 0 /\ Cardinality(Workers) \in Nat /\ IsFiniteSet({})
      BY FS_EmptySet, FS_CardinalityType, PoolAssumption
    <3>3. IsFiniteSet(Readings(l)') /\ Cardinality(Readings(l)') = 0
      BY <3>1, <3>2, Zenon
    <3>4. Cardinality(Readings(l)') <= Cardinality(Workers)
      BY <3>2, <3>3
    <3> QED BY <3>1, <3>3, <3>4 DEF LocationIsBounded
  <2> QED BY <1>5, <2>1, <2>2, <2>3 DEF Consume
<1> QED BY <1>2, <1>3, <1>4, <1>5 DEF Next

-----------------------------------------------------------------------------
(* and with them the whole invariant.                                      *)
LEMMA NextKeepsInvariant == IInv /\ [Next]_vars => IInv'
  BY TypeCorrectNext, NextKeepsCount, NextKeepsPoison, NextKeepsCalls,
     NextKeepsReadings DEF IInv

(* The inductive invariant holds of every parsing.                         *)
THEOREM Invariance == Spec => []IInv
  BY InitInvariant, NextKeepsInvariant, PTL DEF Spec

(* Every variable keeps its type in every reachable state.                 *)
THEOREM TypeCorrect == Spec => []TypeOK
  BY Invariance, PTL DEF IInv

(* drain "Blocks until all current tasks finish execution", those included *)
(* that tasks submit: nothing is queued or executed once it has returned.  *)
THEOREM DrainIsQuiet == Spec => []DrainedIsQuiet
<1>1. IInv => DrainedIsQuiet
  BY DEF IInv, PoisonComesLast, DrainedIsQuiet
<1> QED BY <1>1, Invariance, PTL

(* However the imports are arranged, circles included, a location is read  *)
(* no more often than there are workers.                                   *)
THEOREM ReadsStayBounded == Spec => []ReadsAreBounded
<1>1. ASSUME IInv, NEW l \in Locations
      PROVE  Cardinality(PresentationsOf(l)) <= Cardinality(Workers)
  <2>1. /\ IsFiniteSet(Readings(l)) /\ Cardinality(Readings(l)) <= Cardinality(Workers)
        /\ PresentationsOf(l) \in SUBSET Readings(l)
    BY <1>1 DEF IInv, ReadingsAreBounded, LocationIsBounded, Readings
  <2>2. IsFiniteSet(PresentationsOf(l))
        /\ Cardinality(PresentationsOf(l)) <= Cardinality(Readings(l))
    BY <2>1, FS_Subset
  <2> QED BY <2>1, <2>2, FS_CardinalityType, PoolAssumption
<1>2. IInv => ReadsAreBounded
  BY <1>1 DEF ReadsAreBounded
<1> QED BY <1>2, Invariance, PTL
=============================================================================
