--------------------------- MODULE MCGraphCompiler ---------------------------
(***************************************************************************)
(* Small workflows for the compiler.                                       *)
(***************************************************************************)
EXTENDS GraphCompiler

(* A custom workflow with two tasks and a sub-workflow, which has two.     *)
Nested == SubWorkflow("sub")

MCAvailable ==
  (Root   :> {NodeTask("a", "run"), NodeTask("b", "run"), Nested})
    @@ (Nested :> {NodeTask("c", "run"), NodeTask("d", "run")})

Service(nodes, outbound, missing, others) ==
  [nodes |-> nodes, outbound |-> outbound, missing |-> missing,
   others |-> others]

(* A node on two others, of which one is on the other; two independent     *)
(* ones without some of their operations; a node with two relationships to *)
(* another, which lack different operations; and a single node, in a       *)
(* storage that may hold another.                                          *)
Stack  == Service({"n", "m", "o"}, "n" :> <<"m", "o">> @@ "m" :> <<"o">> @@ "o" :> <<>>,
                  {}, {})
Apart  == Service({"n", "m"}, "n" :> <<>> @@ "m" :> <<>>,
                  {NodeTask("n", "configure"), NodeTask("m", "stop"),
                   NodeTask("m", "delete")}, {})
Linked == Service({"n", "m"}, "n" :> <<"m", "m">> @@ "m" :> <<>>,
                  {RelationshipTask("n", 1, "pre_configure_source"),
                   RelationshipTask("n", 2, "add_source"),
                   RelationshipTask("n", 2, "add_target")}, {})
Shared == Service({"n"}, "n" :> <<>> @@ "m" :> <<>>, {}, {"m"})

MCServices   == {Stack, Apart, Linked, Shared}
AllWorkflows == {"install", "uninstall", "start", "stop"}
=============================================================================
