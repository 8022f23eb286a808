----------------------------- MODULE MCCoercion -----------------------------
(***************************************************************************)
(* A web server that refers to its database, which is hosted like itself,  *)
(* by properties, attributes, an input and a host; one operation whose     *)
(* arguments are declared on three levels.                                 *)
(***************************************************************************)
EXTENDS Coercion, TLC

CONSTANT s1

Literal(v) == [kind |-> "literal", value |-> v]
Property(entity, path) == [kind |-> "get_property", entity |-> entity, path |-> path]
Attribute(entity, name) == [kind |-> "get_attribute", entity |-> entity, path |-> <<name>>]
Input(name) == [kind |-> "get_input", name |-> name]
Items(kind, items) == [kind |-> kind, items |-> items]

At(node, collection, name) ==
  [service |-> Template, node |-> node, collection |-> collection, name |-> name]

MCNodes == {"web", "db", "vm"}

MCHosts == "web" :> "vm" @@ "db" :> "vm" @@ "vm" :> "vm"

MCRequirements == "web" :> {"database"} @@ "db" :> {} @@ "vm" :> {}

MCDeclared ==
     At(Whole, "inputs", "region")   :> Null
  @@ At(Whole, "outputs", "address") :> Items("concat", <<Property("web", <<"port">>), Attribute("vm", "ip")>>)
  @@ At(Whole, "outputs", "all")     :> Property("db", <<"all">>)
  @@ At("web", "properties", "port") :> Property("db", <<"endpoint", "port">>)
  @@ At("web", "properties", "name") :> Items("concat", <<Property("SELF", <<"port">>), Input("region")>>)
  @@ At("web", "properties", "all")  :> Property("db", <<"all">>)
  @@ At("web", "properties", "zone") :> Property("HOST", <<"zone">>)
  @@ At("web", "operation inputs", "ip") :> Attribute("HOST", "ip")
  @@ At("web", "interface inputs", "ip") :> Input("region")
  @@ At("web", "interface inputs", "port") :> Property("SELF", <<"port">>)
  @@ At("web", "configurations", "port") :> Literal("none")
  @@ At("web", "configurations", "late") :> Attribute("db", "url")
  @@ At("db", "endpoint", "port") :> Literal("p")
  @@ At("db", "properties", "all") :> Items("list", <<Property("HOST", <<"zone">>), Literal("z")>>)
  @@ At("db", "attributes", "url") :> Items("concat", <<Attribute("vm", "ip"), Property("SELF", <<"endpoint", "port">>)>>)
  @@ At("db", "configurations", "nodes") :> [kind |-> "unsupported"]
  @@ At("vm", "properties", "zone") :> Literal("z")
  @@ At("vm", "attributes", "ip") :> Literal("i")

MCInputValues == {Literal("eu"), Literal("us")}

MCNewValues == {Literal("j")}
=============================================================================
