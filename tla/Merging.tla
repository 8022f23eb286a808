------------------------------ MODULE Merging ------------------------------
(***************************************************************************)
(* The merge of what was read (_Result of parser/consumption/presentation, *)
(* Presenter._merge_import, utils.collections.merge).                      *)
(*                                                                         *)
(* A result is [presentation, location, origin]: the presentation that a   *)
(* call returned, its location and the location that imports it.  Several  *)
(* results may share a presentation, and a location that two workers read  *)
(* side by side has two.  The contents of a presentation, its raw data,    *)
(* are a function from the paths of definitions to their values; merging   *)
(* overrides.                                                              *)
(***************************************************************************)
EXTENDS Naturals, SequencesExt

CONSTANT AllowedImport(_)   \* whether the version of a location may be imported

\* The results for the imports of one, the first for each location.
GetImports(results, i) ==
  LET of(j) == results[j].origin = results[i].location
  IN SelectSeq([j \in DOMAIN results |-> j],
               LAMBDA j : of(j) /\ \A k \in 1 .. j - 1 :
                                      of(k) => results[k].location # results[j].location)

RECURSIVE MergeResult(_, _, _)

\* state is [merged, raw]: the results that are marked, and the contents by presentation.
MergeResult(results, i, state) ==
  IF i \in state.merged
  THEN state
  ELSE LET own == results[i].presentation
           marked == [state EXCEPT !.merged =
                        @ \cup {i} \cup {j \in DOMAIN results : results[j].presentation = own}]
       IN FoldLeft(LAMBDA before, j :
                     LET after == MergeResult(results, j, before)
                     IN IF AllowedImport(results[j].location)
                        THEN [after EXCEPT !.raw[own] = after.raw[results[j].presentation] @@ @]
                        ELSE after,
                   marked, GetImports(results, i))

\* The main result is the first.
Merge(results, raw) == MergeResult(results, 1, [merged |-> {}, raw |-> raw])
=============================================================================
