--------------------------- MODULE MergedImports ---------------------------
(***************************************************************************)
(* The reader of imports with the merge of what it has read: what a        *)
(* template is merged to, and what it should be.                           *)
(***************************************************************************)
EXTENDS ImportReader

M == INSTANCE Merging WITH AllowedImport <- LAMBDA l : l \notin Foreign

MergeResults(results, contents) == M!Merge(results, contents)

-----------------------------------------------------------------------------
ImportSet(l) == {Imports[l][i] : i \in DOMAIN Imports[l]}

\* The imports that count: those that could be read and are of an allowed version.
GoodImports(l) == {m \in ImportSet(l) : m \notin failed \cup Foreign \cup {l}}

RECURSIVE ReachedFrom(_)
ReachedFrom(S) ==
  LET wider == S \cup UNION {GoodImports(m) : m \in S}
  IN IF wider = S THEN S ELSE ReachedFrom(wider)

Reached(l) == ReachedFrom({l})

IsCircular(l) == \E m \in Reached(l) : \E n \in GoodImports(m) : m \in Reached(n)

IsWhole(l, contents) == UNION {Defines[m] : m \in Reached(l)} \subseteq DOMAIN contents

(* A template holds every definition of everything it imports, directly or *)
(* not, and so does all that is cached for the templates to come, whatever *)
(* was read twice, cancelled or cached before.  Exempt are templates that  *)
(* reach a circular import: what is cached of a circle was merged before   *)
(* the circle was closed.  Locations that could not be read once do not    *)
(* count: an incomplete template is cached like any other.                 *)
MergedIsComplete ==
  main = "done" =>
    LET l == Mains[Len(parsed)] IN
    /\ result # <<>> /\ (Len(parsed) = 1 \/ ~IsCircular(l)) => IsWhole(l, parsed[Len(parsed)])
    /\ \A m \in DOMAIN global : ~IsCircular(m) => IsWhole(m, global[m])

Holds(l, path) == \E m \in Reached(l) : path \in Defines[m]

\* The location whose definition of a path l gets, when its imports are merged one by one: an
\* import overrides, and a later import an earlier one.
RECURSIVE Winner(_, _)
Winner(l, path) ==
  LET holders == {i \in DOMAIN Imports[l] :
                    Imports[l][i] \in GoodImports(l) /\ Holds(Imports[l][i], path)}
  IN IF holders = {} THEN l ELSE Winner(Imports[l][M!Max(holders)], path)

(* Which of several definitions of a path a template gets is decided by    *)
(* the order of the imports, and never by which worker was faster (merge,  *)
(* FixedThreadPoolExecutor.returns).                                       *)
MergeIsOrdered ==
  main = "done" /\ result # <<>> =>
    LET l == Mains[Len(parsed)]
        contents == parsed[Len(parsed)]
    IN ~IsCircular(l) /\ failed = {} => \A path \in DOMAIN contents : contents[path] = Winner(l, path)
=============================================================================
