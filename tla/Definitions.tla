----------------------------- MODULE Definitions -----------------------------
(***************************************************************************)
(* What a TOSCA node template means: the requirements and capabilities    *)
(* that its type declares and inherits, with the template's own           *)
(* assignments merged in, and the issues that are reported on the way.    *)
(*                                                                         *)
(* A presentation p is what was read from the YAML files:                 *)
(*   requirements  per node type, a sequence of [name, node, capability,  *)
(*                 occurrences]                                            *)
(*   capabilities  per node type, by name, [type, sources, occurrences]   *)
(*   sources       per capability type, its valid source types            *)
(*   templates     by name, [type, requirements, instances], where each   *)
(*                 requirement is [name, node, capability, filter]        *)
(* A field that is not written is None.  Occurrences are <<lowest,        *)
(* highest>>, the second greater or, for UNBOUNDED, None.  A node filter  *)
(* stands for the templates that match it, and instances for the scaling  *)
(* properties, <<lowest, default, highest>>.                               *)
(* Properties, interfaces and the relationship part of a requirement are  *)
(* left out.                                                               *)
(***************************************************************************)
EXTENDS Integers, FiniteSets, SequencesExt

CONSTANTS
  None,
  NodeParent,         \* the parent of each node type
  CapabilityParent    \* the parent of each capability type

\* The ancestors of each type, the root first and the type itself last.
Lineage(parent) ==
  LET of[t \in DOMAIN parent] ==
        IF parent[t] = None THEN <<t>> ELSE Append(of[parent[t]], t)
  IN of

NodeLineage == Lineage(NodeParent)
CapabilityLineage == Lineage(CapabilityParent)

NodeIsA(t, base) == base \in ToSet(NodeLineage[t])
CapabilityIsA(t, base) == base \in ToSet(CapabilityLineage[t])

-----------------------------------------------------------------------------
(* What a node type inherits. *)

\* A definition replaces the inherited one of its name.
AddRequirement(definitions, own) ==
  Append(SelectSeq(definitions, LAMBDA d : d.name # own.name), own)

InheritedRequirements(p, type) ==
  FoldLeft(AddRequirement, <<>>,
           FlattenSeq([i \in DOMAIN NodeLineage[type] |-> p.requirements[NodeLineage[type][i]]]))

\* The nearest valid source types that are written.
ValidSources(p, capability) ==
  FoldLeft(LAMBDA found, t : IF p.sources[t] = None THEN found ELSE p.sources[t],
           None, CapabilityLineage[capability])

FromType(p, definition) ==
  IF definition.sources # None
  THEN definition
  ELSE [definition EXCEPT !.sources = ValidSources(p, definition.type)]

\* An overriding definition gives its type, and occurrences only where none were inherited.
Override(inherited, own) ==
  [inherited EXCEPT !.type = own.type,
                    !.occurrences = IF @ = None THEN own.occurrences ELSE @]

AddCapabilities(p, inherited, own) ==
  [name \in DOMAIN inherited \cup DOMAIN own |->
     IF name \notin DOMAIN own
     THEN inherited[name]
     ELSE FromType(p, IF name \in DOMAIN inherited
                      THEN Override(inherited[name], own[name])
                      ELSE own[name])]

InheritedCapabilities(p, type) ==
  FoldLeft(LAMBDA inherited, t : AddCapabilities(p, inherited, p.capabilities[t]),
           [name \in {} |-> None], NodeLineage[type])

\* The check that an overriding definition's type descends from the overridden one's.
OverridesAreDescendants(p, type) ==
  NodeParent[type] # None =>
     LET inherited == InheritedCapabilities(p, NodeParent[type])
     IN \A name \in DOMAIN inherited \cap DOMAIN p.capabilities[type] :
           CapabilityIsA(p.capabilities[type][name].type, inherited[name].type)

-----------------------------------------------------------------------------
(* What a node template requires. *)

Declared(p, template) == InheritedRequirements(p, p.templates[template].type)
Offered(p, template) == InheritedCapabilities(p, p.templates[template].type)

\* Reading a node or a capability as one variant or the other.
IsTemplate(p, node) == node \in DOMAIN p.templates
NamesCapability(p, r) == IsTemplate(p, r.node) /\ r.capability \in DOMAIN Offered(p, r.node)

NodeTypeOf(p, node) == IF IsTemplate(p, node) THEN p.templates[node].type ELSE node
CapabilityTypeOf(p, r) ==
  IF NamesCapability(p, r) THEN Offered(p, r.node)[r.capability].type ELSE r.capability

\* The field validators of an assignment, which see only what it writes itself.
WellFormed(p, own) ==
  /\ own.filter # None => own.node # None /\ ~IsTemplate(p, own.node)
  /\ own.capability # None => NamesCapability(p, own) \/ own.node = None

Unassigned(name) == [name |-> name, node |-> None, capability |-> None, filter |-> None]

\* The definition with what the assignment writes put over it.
Assign(definition, own) ==
  [name |-> definition.name,
   node |-> IF own.node # None THEN own.node ELSE definition.node,
   capability |-> IF own.capability # None THEN own.capability ELSE definition.capability,
   filter |-> own.filter]

\* What is assigned must descend from what the definition asks for.
ValidAssignment(p, definition, r) ==
  /\ r.node # None /\ definition.node # None => NodeIsA(NodeTypeOf(p, r.node), definition.node)
  /\ CapabilityIsA(CapabilityTypeOf(p, r), definition.capability)

Definition(p, template, name) ==
  LET all == Declared(p, template) IN all[SelectInSeq(all, LAMBDA d : d.name = name)]

IsDeclared(p, template, name) == \E i \in DOMAIN Declared(p, template) : Declared(p, template)[i].name = name

Uses(p, template, name) ==
  Len(SelectSeq(p.templates[template].requirements, LAMBDA own : own.name = name))

\* A requirement without occurrences is required once, and added when it is not assigned.
Added(p, template) ==
  SelectSeq(Declared(p, template),
            LAMBDA d : d.occurrences = None /\ Uses(p, template, d.name) = 0)

Requirements(p, template) ==
  LET own == SelectSeq(p.templates[template].requirements,
                       LAMBDA r : IsDeclared(p, template, r.name))
  IN [i \in DOMAIN own |-> Assign(Definition(p, template, own[i].name), own[i])] \o
     [i \in DOMAIN Added(p, template) |->
        Assign(Added(p, template)[i], Unassigned(Added(p, template)[i].name))]

OccurrencesAreAllowed(p, template) ==
  \A i \in DOMAIN Declared(p, template) :
     LET d == Declared(p, template)[i]
         n == Uses(p, template, d.name)
     IN IF d.occurrences = None
        THEN n <= 1
        ELSE d.occurrences[1] <= n /\ (d.occurrences[2] # None => n <= d.occurrences[2])

\* Whether validation finds nothing to report about a template.
TemplateIsValid(p, template) ==
  /\ \A i \in DOMAIN p.templates[template].requirements :
        LET own == p.templates[template].requirements[i]
        IN WellFormed(p, own) /\ IsDeclared(p, template, own.name)
  /\ \A i \in DOMAIN Requirements(p, template) :
        LET r == Requirements(p, template)[i]
        IN ValidAssignment(p, Definition(p, template, r.name), r)
  /\ OccurrencesAreAllowed(p, template)

PresentationIsValid(p) ==
  /\ \A type \in DOMAIN NodeParent : OverridesAreDescendants(p, type)
  /\ \A template \in DOMAIN p.templates : TemplateIsValid(p, template)

-----------------------------------------------------------------------------
(* The models that are made of a valid presentation. *)

RequirementTemplate(p, r) ==
  [name |-> r.name,
   node_template |-> IF IsTemplate(p, r.node) THEN r.node ELSE None,
   node_type |-> IF IsTemplate(p, r.node) THEN None ELSE r.node,
   capability_type |-> IF NamesCapability(p, r) THEN None ELSE r.capability,
   capability_name |-> IF NamesCapability(p, r) THEN r.capability ELSE None,
   constraints |-> r.filter]

CapabilityTemplate(definition) ==
  [type |-> definition.type,
   sources |-> IF definition.sources = None THEN {} ELSE definition.sources,
   min |-> IF definition.occurrences = None THEN 0 ELSE definition.occurrences[1],
   max |-> IF definition.occurrences = None THEN None ELSE definition.occurrences[2]]

NodeTemplate(p, template) ==
  LET required == Requirements(p, template)
      offered == Offered(p, template)
  IN [type |-> p.templates[template].type,
      requirements |-> [i \in DOMAIN required |-> RequirementTemplate(p, required[i])],
      capabilities |-> [name \in DOMAIN offered |-> CapabilityTemplate(offered[name])],
      instances |-> p.templates[template].instances]

NodeTemplates(p) == [template \in DOMAIN p.templates |-> NodeTemplate(p, template)]
=============================================================================
