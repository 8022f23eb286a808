--------------------------- MODULE EngineRefinement ---------------------------
(***************************************************************************)
(* The engine implements the abstract workflow: a task has ended when its  *)
(* row says so, is active while the executor has a context of it, and the  *)
(* workflow has succeeded when the execution row says so.                  *)
(***************************************************************************)
EXTENDS Engine

W == INSTANCE Workflow
       WITH ended     <- {t \in Tasks : HasEnded(taskStatus[t])},
            active    <- {t \in Tasks : ctx[t] # "none"},
            succeeded <- status = "succeeded"

(* Every step of the engine, its executor, its processes and the           *)
(* cancelling thread is a step of the abstract workflow, or none.          *)
ImplementsWorkflow == W!WSpec
=============================================================================
