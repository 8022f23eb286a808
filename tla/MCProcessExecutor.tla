-------------------------- MODULE MCProcessExecutor --------------------------
(* Two tasks in the sub-process executor. *)
EXTENDS ProcessExecutor

CONSTANTS a, b
=============================================================================
