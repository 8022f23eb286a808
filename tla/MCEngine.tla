------------------------------- MODULE MCEngine -------------------------------
(***************************************************************************)
(* Small task graphs for the engine.                                       *)
(***************************************************************************)
EXTENDS EngineProperties, EngineRefinement, TLC

CONSTANTS a, b, c, s

(* Two operations in parallel, and one that depends on both: a is tried    *)
(* twice, the failure of b is ignored.                                     *)
JoinTasks    == {a, b, c}
JoinDeps     == a :> {} @@ b :> {} @@ c :> {a, b}
JoinAttempts == a :> 2 @@ b :> 1 @@ c :> 1

(* An operation tried twice, one without a function and a stub that follow *)
(* each other, and an operation, tried once, that depends on all.          *)
ChainTasks    == {a, b, s, c}
ChainDeps     == a :> {} @@ b :> {} @@ s :> {b} @@ c :> {a, s}
ChainAttempts == a :> 2 @@ b :> 1 @@ s :> 1 @@ c :> 1

(* Two operations in parallel of which one is retried for ever, and one    *)
(* that depends on the other.                                              *)
EverTasks    == {a, b, c}
EverDeps     == a :> {} @@ b :> {} @@ c :> {b}
EverAttempts == a :> INFINITE_RETRIES @@ b :> 2 @@ c :> 1
=============================================================================
