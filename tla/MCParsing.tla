----------------------------- MODULE MCParsing -----------------------------
(***************************************************************************)
(* The whole grammar, one path at a time, with a last presentation of any  *)
(* form; and every hierarchy of three types.                               *)
(***************************************************************************)
EXTENDS Parsing

MCLeaves ==
  {Scalar(s) : s \in SCALARS}
    \cup {List(<<>>), List(<<Fitting>>), List(<<Fitting, Fitting>>), List(<<Scalar("word")>>),
          List(<<Scalar("number")>>), List(<<Dict([x |-> Fitting])>>)}
    \cup {Dict(<<>>), Dict([x |-> Fitting]), Dict([x |-> Scalar("null")])}
=============================================================================
