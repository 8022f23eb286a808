------------------------------ MODULE Coercion ------------------------------
(***************************************************************************)
(* Coercion (Topology.coerce and the handlers): values that can be         *)
(* evaluated for good replace the functions that stand for them, once in   *)
(* the service template and three times while a service is created         *)
(* (core.create_service).  Each list and dict of models is coerced only as *)
(* far as its first element, since handlers return None and all() stops at *)
(* it; which element that is, is left open.  Between the second and third  *)
(* coercion hosts are assigned and the arguments of operations are taken   *)
(* from their configurations and inputs.  Later, attributes change.        *)
(*                                                                         *)
(* Each node has at most one interface with one operation; a node template *)
(* has one node, of the same name.  Operations are those of a plugin or a  *)
(* function: those of the execution plugin get arguments of its own too.   *)
(***************************************************************************)
EXTENDS Intrinsics, FiniteSets

CONSTANTS
  Services,
  Nodes,
  Declared,     \* the values of the template's parameters
  Hosts,        \* the host of each node that gets one
  InputValues,  \* what may be given for an input
  NewValues     \* what operations assign to attributes

VARIABLES
  stage,    \* of each service
  stored,   \* the value of each parameter, with those of the template
  meant,    \* history: the values without coercion
  hosts,
  settled   \* history: what the arguments stood for when they were configured

vars == <<stage, stored, meant, hosts, settled>>

Params(s) == {p \in DOMAIN stored : p.service = s}
Of(s, p) == [p EXCEPT !.service = s]

Stored == [store |-> stored, hosts |-> hosts]
Meant == [store |-> meant, hosts |-> hosts]

\* A value is copied, never shared, since functions have no state of their own.
Init ==
  /\ stage = [s \in Services \cup {Template} |-> "none"]
  /\ stored = Declared /\ meant = Declared
  /\ hosts = <<>> /\ settled = <<>>

-----------------------------------------------------------------------------
\* _Parameter.coerce, and its issue.
CoerceOne(store, p) ==
  LET evaluation == Evaluate([store |-> store, hosts |-> hosts], store[p], p)
  IN IF evaluation.evaluated /\ evaluation.final
     THEN [store EXCEPT ![p] = evaluation.value]
     ELSE store

HasIssue(store, p) == Evaluate([store |-> store, hosts |-> hosts], store[p], p).issue

\* The order in which a node's collections are coerced; a capability's properties come last.
NodeCollections ==
  <<"properties", "attributes", "interface inputs", "operation inputs", "configurations", "arguments">>

\* The parameters that a coercion may reach: the first of each collection of the first node,
\* of its first capability, and of the service's inputs and outputs.
Reached(s) ==
  LET some(node, collection) ==
        LET all == InCollection(stored, s, node, collection)
        IN IF all = {} THEN {<<>>} ELSE {<<p>> : p \in all}
      capabilities(node) ==
        {p.collection : p \in {q \in Params(s) : q.node = node}} \ ToSet(NodeCollections)
      first(node) ==
        {a \o b \o c \o d \o e \o f :
           a \in some(node, NodeCollections[1]), b \in some(node, NodeCollections[2]),
           c \in some(node, NodeCollections[3]), d \in some(node, NodeCollections[4]),
           e \in some(node, NodeCollections[5]), f \in some(node, NodeCollections[6])}
      nodes == UNION {IF capabilities(n) = {} THEN first(n)
                      ELSE {a \o b : a \in first(n),
                                     b \in UNION {some(n, c) : c \in capabilities(n)}} : n \in Nodes}
  IN {a \o b \o c : a \in nodes, b \in some(Whole, "inputs"), c \in some(Whole, "outputs")}

Coerced(store, params) == FoldLeft(CoerceOne, store, params)

\* Values may be invalid: the issue is reported to the parser's context, whose issues nobody
\* reads any more, and there is no such context in a thread that has not parsed.
Coerce(s, next) ==
  \E params \in Reached(s) :
    LET before(i) == Coerced(stored, SubSeq(params, 1, i - 1))
        issues == \E i \in DOMAIN params : HasIssue(before(i), params[i])
    IN \/ /\ stored' = Coerced(stored, params)
          /\ stage' = [stage EXCEPT ![s] = next]
       \/ /\ issues
          /\ stage' = [stage EXCEPT ![s] = "failed"]
          /\ UNCHANGED stored

\* The template's parser has a context.
ParseTemplate ==
  /\ stage[Template] = "none"
  /\ \E params \in Reached(Template) : stored' = Coerced(stored, params)
  /\ stage' = [stage EXCEPT ![Template] = "parsed"]
  /\ UNCHANGED <<meant, hosts, settled>>

Instantiate(s) ==
  /\ stage[Template] = "parsed" /\ stage[s] = "none"
  /\ \E v \in InputValues :
       LET copies(store) ==
             [p \in {Of(s, q) : q \in Params(Template)} |->
                IF p.node = Whole /\ p.collection = "inputs" THEN v ELSE store[Of(Template, p)]]
       IN /\ stored' = copies(stored) @@ stored
          /\ meant' = copies(meant) @@ meant
  /\ stage' = [stage EXCEPT ![s] = "instantiated"]
  /\ UNCHANGED <<hosts, settled>>

CoerceInstantiated(s) ==
  /\ stage[s] = "instantiated"
  /\ Coerce(s, "coerced")
  /\ UNCHANGED <<meant, hosts, settled>>

\* After the requirements are satisfied.
CoerceSatisfied(s) ==
  /\ stage[s] = "coerced"
  /\ Coerce(s, "satisfied")
  /\ UNCHANGED <<meant, hosts, settled>>

AssignHosts(s) ==
  /\ stage[s] = "satisfied"
  /\ hosts' = [sn \in {<<s, n>> : n \in DOMAIN Hosts} |-> Hosts[sn[2]]] @@ hosts
  /\ stage' = [stage EXCEPT ![s] = "hosted"]
  /\ UNCHANGED <<stored, meant, settled>>

\* The collections whose parameters become arguments, from the weakest.
Precedence_InterfaceLast == <<"configurations", "operation inputs", "interface inputs">>

Precedence == <<"configurations", "interface inputs", "operation inputs">>

\* Operation.configure_operations: as_argument takes the values, and later ones override.
Arguments(s, world) ==
  LET arguments(collection) ==
        [a \in {[p EXCEPT !.collection = "arguments"] :
                  p \in {q \in Params(s) : q.collection = collection}} |->
           ValueOf(world, [a EXCEPT !.collection = collection])]
  IN FoldLeft(LAMBDA found, collection : arguments(collection) @@ found, <<>>, Precedence)

\* The declaration that an argument should follow: what is declared closest to the operation.
Declaration(a) ==
  LET as(collection) == [a EXCEPT !.collection = collection] IN
  IF as("operation inputs") \in DOMAIN stored THEN as("operation inputs")
  ELSE IF as("interface inputs") \in DOMAIN stored THEN as("interface inputs")
  ELSE as("configurations")

ConfigureOperations(s) ==
  /\ stage[s] = "hosted"
  /\ LET arguments == Arguments(s, Stored) IN
       /\ stored' = arguments @@ stored
       /\ meant' = arguments @@ meant
       /\ settled' = [a \in DOMAIN arguments |-> ValueOf(Meant, Declaration(a))] @@ settled
  /\ stage' = [stage EXCEPT ![s] = "configured"]
  /\ UNCHANGED hosts

CoerceConfigured(s) ==
  /\ stage[s] = "configured"
  /\ Coerce(s, "created")
  /\ UNCHANGED <<meant, hosts, settled>>

\* An operation assigns to an attribute of a node.
SetAttribute(s) ==
  /\ stage[s] = "created"
  /\ \E p \in {q \in Params(s) : q.collection = "attributes"}, v \in NewValues :
       /\ stored' = [stored EXCEPT ![p] = v]
       /\ meant' = [meant EXCEPT ![p] = v]
  /\ UNCHANGED <<stage, hosts, settled>>

Next ==
  \/ ParseTemplate
  \/ \E s \in Services :
       \/ Instantiate(s) \/ CoerceInstantiated(s) \/ CoerceSatisfied(s) \/ AssignHosts(s)
       \/ ConfigureOperations(s) \/ CoerceConfigured(s) \/ SetAttribute(s)

Spec == Init /\ [][Next]_vars

-----------------------------------------------------------------------------
RECURSIVE HasNavigation(_)
HasNavigation(v) ==
  \/ v.kind \in {"get_property", "get_attribute"} /\ v.entity \in {"SELF", "HOST"}
  \/ v.kind \in {"list", "concat"} /\ \E i \in DOMAIN v.items : HasNavigation(v.items[i])

\* get_property moves the elements of a list to the parameter that asks for it, where SELF and
\* HOST are other nodes.
MovesList(v) ==
  /\ v.kind = "get_property"
  /\ \E p \in DOMAIN Declared :
       /\ p.name = v.path[Len(v.path)] /\ Declared[p].kind = "list" /\ HasNavigation(Declared[p])

(* Coercion does not change what a parameter means: at any time a value    *)
(* that was coerced, at whatever moment and in whatever order, in the      *)
(* template or in the service, evaluates to what its declaration evaluates *)
(* to, although services have inputs of their own, hosts come late and     *)
(* attributes change (evaluate and its finality, _Parameter.coerce).  A    *)
(* property that gets a list of functions is exempt: see MovesList.        *)
CoercionIsTransparent ==
  \A p \in DOMAIN stored :
    ~MovesList(meant[p]) => ValueOf(Stored, p) = ValueOf(Meant, p)

(* An argument of an operation follows the declaration closest to the      *)
(* operation, and what that stood for when hosts had been assigned, for as *)
(* long as the service lives; an argument that could not be evaluated then *)
(* still stands for what its declaration does (configure_operations).       *)
ArgumentsFollowInputs ==
  \A a \in DOMAIN settled :
    IF IsFunction(settled[a])
    THEN ValueOf(Stored, a) = ValueOf(Meant, Declaration(a))
    ELSE stored[a] = settled[a]
=============================================================================
