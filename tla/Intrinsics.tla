----------------------------- MODULE Intrinsics -----------------------------
(***************************************************************************)
(* The intrinsic functions of TOSCA (modeling/functions.py and the         *)
(* extension's modeling/functions.py): values that stand for what is       *)
(* looked up elsewhere in a service.                                       *)
(*                                                                         *)
(* A parameter is [service, node, collection, name]: its owner is a node   *)
(* of a service, or of the service template when its service is Template;  *)
(* the inputs and outputs of a service belong to the node Whole.  The      *)
(* properties of a capability are the collection of its name.  A store     *)
(* gives each parameter its value:                                         *)
(*   [kind |-> "null"]                                                     *)
(*   [kind |-> "literal", value]                                           *)
(*   [kind |-> "list" or "text" or "concat", items]                        *)
(*   [kind |-> "get_input", name]                                          *)
(*   [kind |-> "get_property" or "get_attribute", entity, path]            *)
(*   [kind |-> "unsupported"]     functions that only return None          *)
(* A path is a name, or the name of a capability and a name in it.         *)
(* Properties that refer to each other in a circle are left out: Python    *)
(* stops evaluating them when its stack is full.                           *)
(***************************************************************************)
EXTENDS Naturals, Sequences, SequencesExt

CONSTANTS
  Template,      \* the service of a template's parameters
  Whole,         \* the node of a service's own parameters
  Requirements   \* the names of the requirements of each node template

Null == [kind |-> "null"]

IsFunction(v) ==
  v.kind \in {"concat", "get_input", "get_property", "get_attribute", "unsupported"}

\* What a call comes to: an evaluation, or one of the two exceptions.
Evaluation(v, final) == [is |-> "evaluation", value |-> v, final |-> final]
Cannot  == [is |-> "cannot"]    \* CannotEvaluateFunctionException
Invalid == [is |-> "invalid"]   \* InvalidValueError

InCollection(store, service, node, collection) ==
  {p \in DOMAIN store : p.service = service /\ p.node = node /\ p.collection = collection}

-----------------------------------------------------------------------------
\* world is [store, hosts], with the hosts that nodes were assigned.
GetSelf(holder) == IF holder.node = Whole THEN Invalid ELSE Evaluation(holder.node, TRUE)

GetHosts(world, holder) ==
  IF holder.node = Whole THEN Invalid
  ELSE IF <<holder.service, holder.node>> \notin DOMAIN world.hosts THEN Cannot
  ELSE Evaluation(world.hosts[<<holder.service, holder.node>>], TRUE)

GetModelableEntity(world, entity, holder) ==
  CASE entity = "SELF" -> GetSelf(holder)
    [] entity = "HOST" -> GetHosts(world, holder)
    [] OTHER -> IF \E p \in DOMAIN world.store : p.service = holder.service /\ p.node = entity
                THEN Evaluation(entity, TRUE)
                ELSE Cannot

RECURSIVE Call(_, _, _), Evaluate(_, _, _), ValueOf(_, _)

\* An argument of a function: the exceptions of a nested function pass through.
Argument(world, v, holder) == IF IsFunction(v) THEN Call(world, v, holder) ELSE Evaluation(v, TRUE)

Concat(world, f, holder) ==
  LET parts == [i \in DOMAIN f.items |-> Argument(world, f.items[i], holder)]
      broken == {i \in DOMAIN parts : parts[i].is # "evaluation"}
  IN IF broken # {}
     THEN parts[Min(broken)]
     ELSE Evaluation([kind |-> "text",
                      items |-> SelectSeq([i \in DOMAIN parts |-> parts[i].value],
                                          LAMBDA v : v.kind # "null")],
                     \A i \in DOMAIN parts : parts[i].final)

\* The value of an input is never final.
GetInput(world, f, holder) ==
  LET inputs == {p \in InCollection(world.store, holder.service, Whole, "inputs") : p.name = f.name} IN
  IF holder.service = Template THEN Cannot
  ELSE IF inputs = {} THEN Invalid
  ELSE Evaluation(ValueOf(world, CHOOSE p \in inputs : TRUE), FALSE)

\* Parameter._value is evaluated where it was found, once, and a list is left as it is.
GetModelableEntityParameter(world, service, node, collection, name) ==
  LET all == InCollection(world.store, service, node, collection)
      named == {p \in all : p.name = name}
  IN IF all = {} THEN Evaluation(Null, TRUE)
     ELSE IF named = {} THEN Invalid
     ELSE LET p == CHOOSE p \in named : TRUE IN Argument(world, world.store[p], p)

GetProperty(world, f, holder) ==
  LET entity == GetModelableEntity(world, f.entity, holder)
      first == Head(f.path)
  IN IF entity.is # "evaluation" THEN entity
     ELSE IF holder.service = Template /\ first \in Requirements[entity.value] THEN Cannot
     ELSE IF Len(f.path) = 1
          THEN GetModelableEntityParameter(world, holder.service, entity.value, "properties", first)
          ELSE GetModelableEntityParameter(world, holder.service, entity.value, first, f.path[2])

GetAttribute_Final(world, f, holder) ==
  LET entity == GetModelableEntity(world, f.entity, holder) IN
  IF entity.is # "evaluation" THEN entity
  ELSE GetModelableEntityParameter(world, holder.service, entity.value, "attributes", Head(f.path))

\* The value of an attribute is never final.
GetAttribute(world, f, holder) ==
  LET entity == GetModelableEntity(world, f.entity, holder)
      found == GetModelableEntityParameter(world, holder.service, entity.value, "attributes",
                                           Head(f.path))
  IN IF entity.is # "evaluation" THEN entity
     ELSE IF found.is # "evaluation" THEN found
     ELSE Evaluation(found.value, FALSE)

Call(world, f, holder) ==
  CASE f.kind = "concat"        -> Concat(world, f, holder)
    [] f.kind = "get_input"     -> GetInput(world, f, holder)
    [] f.kind = "get_property"  -> GetProperty(world, f, holder)
    [] f.kind = "get_attribute" -> GetAttribute(world, f, holder)
    [] f.kind = "unsupported"   -> Evaluation(Null, FALSE)

\* functions.evaluate: what is returned is evaluated in its turn, for the same holder; what
\* cannot be evaluated stays as it is; an invalid value is an issue.
Evaluate(world, v, holder) ==
  CASE IsFunction(v) ->
         LET call == Call(world, v, holder) IN
         IF call.is # "evaluation"
         THEN [value |-> v, evaluated |-> FALSE, final |-> TRUE, issue |-> call.is = "invalid"]
         ELSE LET again == Evaluate(world, call.value, holder)
              IN [again EXCEPT !.evaluated = TRUE, !.final = call.final /\ @]
    [] v.kind = "list" ->
         LET items == [i \in DOMAIN v.items |-> Evaluate(world, v.items[i], holder)]
         IN [value     |-> [v EXCEPT !.items = [i \in DOMAIN items |-> items[i].value]],
             evaluated |-> \E i \in DOMAIN items : items[i].evaluated,
             final     |-> \A i \in DOMAIN items : items[i].final,
             issue     |-> \E i \in DOMAIN items : items[i].issue]
    [] OTHER -> [value |-> v, evaluated |-> FALSE, final |-> TRUE, issue |-> FALSE]

\* ParameterMixin.value.
ValueOf(world, p) == Evaluate(world, world.store[p], p).value
=============================================================================
