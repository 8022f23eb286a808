------------------------ MODULE MCServiceExecutions ------------------------
(* Two users with a terminal each, and executions for TLC. *)
EXTENDS ServiceExecutions, TLC

CONSTANTS u1, u2, e1, e2, none

MCUsers == {u1, u2}
MCExecutions == {e1, e2}

(* Bound: one dry command at a time and one dry execution, and in histories *)
(* with these no killed process and one Ctrl+C at a time.                  *)
DryUsers == {u \in Users : cmd[u].dry}

DryRows == {e \in Executions : dry[e]}

FewDry ==
  /\ Cardinality(DryUsers) <= 1 /\ Cardinality(DryRows) <= 1
  /\ DryUsers # {} \/ DryRows # {} =>
       /\ crashed = {} /\ ~loose /\ cut = {}
       /\ Cardinality({u \in Users : cmd[u].held = "over"}) <= 1

Symmetry == Permutations(MCUsers) \cup Permutations(MCExecutions)
=============================================================================
