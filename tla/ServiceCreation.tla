--------------------------- MODULE ServiceCreation ---------------------------
(***************************************************************************)
(* A service template is parsed and services are created from it, by      *)
(* Core.create_service: its nodes are instantiated, their requirements    *)
(* satisfied one by one with relationships to capabilities of other       *)
(* nodes, capabilities and hosts settled, and the service stored unless   *)
(* an issue was reported.  Each creation works on a session: what it has  *)
(* read from the storage, which others may change meanwhile, and what it  *)
(* has not yet stored.  A rejected creation leaves its rows in the        *)
(* session, and the same process may go on to create another service.     *)
(*                                                                         *)
(* Left out: groups, policies, substitutions, workflows and operations,   *)
(* the constraints of a node template (as opposed to a requirement's),    *)
(* and the values of parameters, which Coercion models.  Dictionaries are *)
(* visited in any order.                                                   *)
(***************************************************************************)
EXTENDS Definitions

CONSTANTS
  Services,         \* the services that may be created
  Presentations,    \* the service templates that may be read
  NodeRole,         \* the role each node type sets itself
  CapabilityRole    \* the role each capability type sets itself

VARIABLES
  presentation,     \* what was read
  templates,        \* the node templates made of it, none when it is not valid
  stage,            \* how far the creation of each service has come
  sessions,         \* the session of each creation
  stored,           \* the storage
  overlapped        \* whether two sessions were ever open together

ASSUME ServicesAssumption == None \notin Services

\* Requirements are listed, a number of instances is an integer, and an upper bound of
\* occurrences, where there is one, is not negative: anything else is reported.
ASSUME PresentationsAssumption ==
  \A p \in Presentations : \A template \in DOMAIN p.templates :
     /\ Len(Requirements(p, template)) \in Nat
     /\ p.templates[template].instances[2] \in Int
     /\ \A name \in DOMAIN Offered(p, template) :
           LET occurrences == Offered(p, template)[name].occurrences
           IN occurrences # None => occurrences[2] \in {None} \cup Nat

\* No requirement of a node is none at all.
ASSUME NoneAssumption ==
  \A p \in Presentations :
     None \notin [template : DOMAIN p.templates, service : Services, index : Int] \X Nat

vars == <<presentation, templates, stage, sessions, stored, overlapped>>

\* A role is inherited from the nearest type that sets one.
Role(roles, lineage) ==
  FoldLeft(LAMBDA found, t : IF roles[t] = None THEN found ELSE roles[t], None, lineage)

IsHost(node) == Role(NodeRole, NodeLineage[templates[node.template].type]) = "host"

-----------------------------------------------------------------------------
(* Nodes, capabilities and relationships. *)

\* Each template lists its nodes, of any service, in the order they came.
AllOf(nodes) == UNION {ToSet(nodes[template]) : template \in DOMAIN nodes}

Joined(nodes, more) == [template \in DOMAIN nodes |-> nodes[template] \o more[template]]

\* A function put over another.
Over(f, g) == [x \in DOMAIN f \cup DOMAIN g |-> IF x \in DOMAIN f THEN f[x] ELSE g[x]]

\* One more than the highest index of the template's nodes.
NextIndex(nodes, template) ==
  LET indices == {n.index : n \in ToSet(nodes[template])}
  IN IF indices = {} THEN 1 ELSE 1 + CHOOSE i \in indices : \A j \in indices : i >= j

\* A node is numbered among the nodes that are there when it is created.
Instances(nodes, template, s) ==
  LET first == NextIndex(nodes, template)
  IN [i \in 1 .. templates[template].instances[2] |->
        [template |-> template, service |-> s, index |-> first + i - 1]]

AllInstances(nodes, s) == [template \in DOMAIN nodes |-> Instances(nodes, template, s)]

ScalingIsValid(template) ==
  LET lowest == templates[template].instances[1]
      default == templates[template].instances[2]
      highest == templates[template].instances[3]
  IN 0 <= lowest /\ lowest <= default /\ default <= highest

\* The capabilities of nodes, each with its template.
Slots(nodes) ==
  UNION {{[node |-> n, name |-> name] : name \in DOMAIN templates[n.template].capabilities}
           : n \in nodes}

SlotTemplate(slot) == templates[slot.node.template].capabilities[slot.name]

\* The occurrences a session sees: what it read before, or what is stored now.
Occurrences(session, slot) ==
  IF slot \in DOMAIN session.occurrences
  THEN session.occurrences[slot]
  ELSE stored.occurrences[slot]

\* The comparison off by one.
HasCapacity_Bug(session, slot) ==
  SlotTemplate(slot).max # None => Occurrences(session, slot) <= SlotTemplate(slot).max

HasCapacity(session, slot) ==
  SlotTemplate(slot).max # None => Occurrences(session, slot) # SlotTemplate(slot).max

\* The check that is left out.
HasEnough_Bug(session, slot) == TRUE

HasEnough(session, slot) == Occurrences(session, slot) >= SlotTemplate(slot).min

-----------------------------------------------------------------------------
(* Finding the target of a requirement. *)

SatisfiesRequirement_Bug(source, r, target, name) ==
  LET capability == templates[target].capabilities[name]
  IN /\ \A type \in capability.sources : NodeIsA(templates[source].type, type)
     /\ r.constraints # None => target \in r.constraints

\* Every one of the valid source types must be the source's, and any capability will do
\* when the requirement names one.
SatisfiesRequirement(source, r, target, name) ==
  LET capability == templates[target].capabilities[name]
  IN /\ r.capability_type # None => CapabilityIsA(capability.type, r.capability_type)
     /\ \A type \in capability.sources : NodeIsA(templates[source].type, type)
     /\ r.constraints # None => target \in r.constraints

Matches(source, r, target) ==
  {[template |-> target, capability |-> name] :
     name \in {c \in DOMAIN templates[target].capabilities : SatisfiesRequirement(source, r, target, c)}}

\* The node template of the requirement, or those of its node type, or all.
Targets(r) ==
  {t \in DOMAIN templates :
     IF r.node_template # None
     THEN t = r.node_template
     ELSE r.node_type # None => NodeIsA(templates[t].type, r.node_type)}

FindTarget(source, r) == UNION {Matches(source, r, target) : target \in Targets(r)}

-----------------------------------------------------------------------------
(* Finding the host of a node. *)

HasRole(relationship, role) ==
  LET type == templates[relationship.target.template].capabilities[relationship.capability].type
  IN Role(CapabilityRole, CapabilityLineage[type]) = role

\* A search that forgets the way back.
Towards_Bug(relationships, node) ==
  LET out == SelectSeq(relationships, LAMBDA r : r.source = node /\ HasRole(r, "host"))
  IN [i \in DOMAIN out |-> out[i].target]

\* Where the search goes from a node, in order: along its relationships to hosts, then
\* back along the relationships to its features.
Towards(relationships, node) ==
  LET out == SelectSeq(relationships, LAMBDA r : r.source = node /\ HasRole(r, "host"))
      in == SelectSeq(relationships, LAMBDA r : r.target = node /\ HasRole(r, "feature"))
  IN [i \in DOMAIN out |-> out[i].target] \o [i \in DOMAIN in |-> in[i].source]

Endless == [template |-> None, service |-> None, index |-> 0]

\* The search in depth, by the path it came along.  It remembers no node: back at one on
\* its path it takes the same path again, until the interpreter gives up.
FindHost(relationships, nodes) ==
  LET search[path \in Seq(nodes)] ==
        IF IsHost(Last(path))
        THEN Last(path)
        ELSE FoldLeft(LAMBDA found, next :
                        CASE found # None -> found
                          [] next \in ToSet(path) -> Endless
                          [] OTHER -> search[Append(path, next)],
                      None, Towards(relationships, Last(path)))
  IN [node \in nodes |-> search[<<node>>]]

-----------------------------------------------------------------------------
(* Sessions. *)

Closed == <<>>

NoNodes == [template \in DOMAIN presentation.templates |-> <<>>]

NewSession ==
  [nodes |-> stored.nodes, made |-> NoNodes, relationships |-> <<>>,
   occurrences |-> [slot \in {} |-> 0], todo |-> {}, at |-> None, satisfied |-> TRUE,
   issues |-> FALSE, carried |-> {}]

Reusable == {s \in Services : stage[s] = "rejected" /\ sessions[s] # Closed}

\* What a session starts from: the storage, or all that a rejected creation left in it.
StartFrom(from) ==
  IF from = None
  THEN NewSession
  ELSE [sessions[from] EXCEPT !.carried = @ \cup {from}, !.satisfied = TRUE, !.issues = FALSE]

-----------------------------------------------------------------------------
(* Actions. *)

Init ==
  /\ presentation \in Presentations
  /\ templates = None
  /\ stage = [s \in Services |-> "none"]
  /\ sessions = [s \in Services |-> Closed]
  /\ stored = [services |-> {}, nodes |-> NoNodes, relationships |-> <<>>,
               occurrences |-> [slot \in {} |-> 0], hosts |-> [node \in {} |-> None]]
  /\ overlapped = FALSE

\* Issues in any consumer stop the chain: nothing is created from the template.
Parse ==
  /\ templates = None
  /\ PresentationIsValid(presentation)
  /\ templates' = NodeTemplates(presentation)
  /\ UNCHANGED <<presentation, stage, sessions, stored, overlapped>>

\* The nodes are created; a plugin that is specified and not found, and invalid scaling,
\* are reported.
Instantiate(s) ==
  /\ templates # None
  /\ stage[s] = "none"
  /\ \E from \in {None} \cup Reusable, found \in BOOLEAN :
        LET session == StartFrom(from)
            made == AllInstances(session.nodes, s)
        IN /\ sessions' = [sessions EXCEPT
                ![s] = [session EXCEPT
                          !.nodes = Joined(@, made),
                          !.made = Joined(@, made),
                          !.occurrences = Over(@, [slot \in Slots(AllOf(made)) |-> 0]),
                          !.todo = {n \in AllOf(made) : templates[n.template].requirements # <<>>},
                          !.issues = ~found \/ \E t \in DOMAIN templates : ~ScalingIsValid(t)],
                ![IF from = None THEN s ELSE from] = IF from = None THEN @ ELSE Closed]
           /\ overlapped' = (overlapped \/ \E other \in Services \ {from} : sessions[other] # Closed)
  /\ stage' = [stage EXCEPT ![s] = "satisfying"]
  /\ UNCHANGED <<presentation, templates, stored>>

Todo(s) == IF sessions[s] = Closed THEN {} ELSE sessions[s].todo

\* The next node that has requirements to satisfy; the loop ends after the first node
\* whose last requirement was not satisfied.
NextNode(s, node) ==
  /\ stage[s] = "satisfying"
  /\ sessions[s].at = None
  /\ sessions[s].satisfied
  /\ node \in sessions[s].todo
  /\ sessions' = [sessions EXCEPT ![s].todo = @ \ {node}, ![s].at = <<node, 1>>]
  /\ UNCHANGED <<presentation, templates, stage, stored, overlapped>>

Requirement(at) == templates[at[1].template].requirements[at[2]]
IsLast(at) == at[2] >= Len(templates[at[1].template].requirements)
After(at) == IF IsLast(at) THEN None ELSE <<at[1], at[2] + 1>>

HasRequirement(s) ==
  /\ stage[s] = "satisfying"
  /\ sessions[s].at # None

\* The requirement cannot be satisfied: there is no target, or none of its nodes, of any
\* service, has capacity.  The occurrences that were read stay in the session.
Unsatisfied(s) ==
  /\ HasRequirement(s)
  /\ LET session == sessions[s]
         found == FindTarget(session.at[1].template, Requirement(session.at))
         seen(target) ==
           {[node |-> n, name |-> target.capability] :
              n \in ToSet(session.nodes[target.template])}
     IN \/ /\ found = {}
           /\ sessions' = [sessions EXCEPT ![s].issues = TRUE, ![s].satisfied = FALSE,
                                           ![s].at = After(@)]
        \/ \E target \in found :
              /\ \A slot \in seen(target) : ~HasCapacity(session, slot)
              /\ sessions' =
                   [sessions EXCEPT
                      ![s].issues = TRUE, ![s].satisfied = FALSE, ![s].at = After(@),
                      ![s].occurrences =
                         Over(@, [slot \in seen(target) |-> Occurrences(session, slot)])]
  /\ UNCHANGED <<presentation, templates, stage, stored, overlapped>>

\* The first node of the target that has capacity gets the relationship.
Satisfy(s) ==
  /\ HasRequirement(s)
  /\ LET session == sessions[s]
     IN \E target \in FindTarget(session.at[1].template, Requirement(session.at)) :
           LET nodes == session.nodes[target.template]
               slot(i) == [node |-> nodes[i], name |-> target.capability]
           IN \E i \in DOMAIN nodes :
                 /\ HasCapacity(session, slot(i))
                 /\ \A j \in 1 .. i - 1 : ~HasCapacity(session, slot(j))
                 /\ sessions' =
                      [sessions EXCEPT
                         ![s].relationships =
                            Append(@, [source |-> session.at[1],
                                       requirement |-> session.at[2],
                                       target |-> nodes[i],
                                       capability |-> target.capability]),
                         ![s].occurrences =
                            Over([x \in {slot(i)} |-> Occurrences(session, x) + 1],
                                 Over(@, [x \in {slot(j) : j \in 1 .. i - 1} |->
                                            Occurrences(session, x)])),
                         ![s].satisfied = TRUE,
                         ![s].at = After(@)]
  /\ UNCHANGED <<presentation, templates, stage, stored, overlapped>>

Made(s) == AllOf(sessions[s].made)
Relationships(s) == stored.relationships \o sessions[s].relationships
Hosts(s) == FindHost(Relationships(s), AllOf(sessions[s].nodes))
OwnNodes(s) == {n \in Made(s) : n.service = s}

\* All requirements have been looked at, or the loop has ended early.
IsThrough(s) ==
  /\ stage[s] = "satisfying"
  /\ sessions[s].at = None
  /\ sessions[s].todo = {} \/ ~sessions[s].satisfied

IsAccepted(s) ==
  /\ ~sessions[s].issues
  /\ \A slot \in Slots(OwnNodes(s)) : HasEnough(sessions[s], slot)
  /\ \A n \in OwnNodes(s) : Hosts(s)[n] # Endless

\* The session is flushed and committed, with everything in it: the occurrences that were
\* counted replace the stored ones.
Accept(s) ==
  /\ IsThrough(s)
  /\ IsAccepted(s)
  /\ stored' = [services |-> stored.services \cup {s} \cup sessions[s].carried,
                nodes |-> Joined(stored.nodes, sessions[s].made),
                relationships |-> Relationships(s),
                occurrences |->
                  Over([slot \in {x \in DOMAIN sessions[s].occurrences :
                                    x.node \in Made(s) \/
                                    \E r \in ToSet(sessions[s].relationships) :
                                       r.target = x.node /\ r.capability = x.name}
                          |-> sessions[s].occurrences[slot]],
                       stored.occurrences),
                hosts |-> Over([n \in OwnNodes(s) |-> Hosts(s)[n]],
                               Over([n \in Made(s) |-> None], stored.hosts))]
  /\ stage' = [s2 \in Services |-> IF s2 \in {s} THEN "stored"
                                   ELSE IF s2 \in sessions[s].carried THEN "leftover" ELSE stage[s2]]
  /\ sessions' = [sessions EXCEPT ![s] = Closed]
  /\ UNCHANGED <<presentation, templates, overlapped>>

\* InstantiationError, or the endless search for a host: nothing is rolled back.
Reject(s) ==
  /\ IsThrough(s)
  /\ ~IsAccepted(s)
  /\ stage' = [stage EXCEPT ![s] = "rejected"]
  /\ UNCHANGED <<presentation, templates, sessions, stored, overlapped>>

\* The process of a rejected creation ends, and its session with it.
Exit(s) ==
  /\ s \in Reusable
  /\ sessions' = [sessions EXCEPT ![s] = Closed]
  /\ UNCHANGED <<presentation, templates, stage, stored, overlapped>>

\* What is left of a sequence, in its order, when only members of a set are kept.
Remaining(seq, kept) ==
  LET places == {i \in DOMAIN seq : seq[i] \in kept}
      place(n) == CHOOSE i \in places : Cardinality({j \in places : j <= i}) = n
  IN [n \in 1 .. Cardinality(places) |-> seq[place(n)]]

\* A stored service is deleted, with the relationships at both ends of its nodes, while
\* no session is open (Catalog models what happens otherwise).
DeleteService(s) ==
  /\ s \in stored.services
  /\ \A other \in Services : sessions[other] = Closed
  /\ LET staying == {n \in AllOf(stored.nodes) : n.service # s}
         related == {r \in ToSet(stored.relationships) : {r.source, r.target} \subseteq staying}
     IN stored' = [services |-> stored.services \ {s},
                   nodes |-> [t \in DOMAIN stored.nodes |-> Remaining(stored.nodes[t], staying)],
                   relationships |-> Remaining(stored.relationships, related),
                   occurrences |-> [slot \in {x \in DOMAIN stored.occurrences : x.node \in staying}
                                      |-> stored.occurrences[slot]],
                   hosts |-> [n \in DOMAIN stored.hosts \cap staying |-> stored.hosts[n]]]
  /\ stage' = [stage EXCEPT ![s] = "deleted"]
  /\ UNCHANGED <<presentation, templates, sessions, overlapped>>

Next ==
  \/ Parse
  \/ \E s \in Services :
        \/ Instantiate(s)
        \/ \E node \in Todo(s) : NextNode(s, node)
        \/ Unsatisfied(s)
        \/ Satisfy(s)
        \/ Accept(s)
        \/ Reject(s)
        \/ Exit(s)
        \/ DeleteService(s)

Spec == Init /\ [][Next]_vars

-----------------------------------------------------------------------------
(* Properties. *)

StoredNodes(s) == {n \in AllOf(stored.nodes) : n.service = s}

BySource(node, k) ==
  {i \in DOMAIN stored.relationships :
     stored.relationships[i].source = node /\ stored.relationships[i].requirement = k}

ByTarget(slot) ==
  {i \in DOMAIN stored.relationships :
     stored.relationships[i].target = slot.node /\ stored.relationships[i].capability = slot.name}

IsComplete(s) ==
  /\ \A n \in StoredNodes(s) :
        \A k \in DOMAIN templates[n.template].requirements : Cardinality(BySource(n, k)) = 1
  /\ \A slot \in Slots(StoredNodes(s)) : Cardinality(ByTarget(slot)) >= SlotTemplate(slot).min

Stores(s) == stage[s] = "satisfying" /\ stage'[s] = "stored"

\* When create_service accepts a service, each of its nodes has exactly one relationship
\* for each of its requirements and each of its capabilities as many as it must have:
\* neither the loop that stops early nor a session with the rows of a rejected service,
\* nor another creation, makes it accept less.
AcceptedIsComplete == [][\A s \in Services : Stores(s) => IsComplete(s)']_vars

\* A capability is never the target of more relationships than max_occurrences allows, and
\* its counter, which deletions do not lower, counts at least those there are, unless two
\* sessions were open together, of creations under way or of one that was rejected and is
\* continued later, and each counted from what it had read.
CapacityHolds ==
  overlapped \/ \A slot \in Slots(AllOf(stored.nodes)) :
     /\ Cardinality(ByTarget(slot)) <= stored.occurrences[slot]
     /\ SlotTemplate(slot).max # None => stored.occurrences[slot] <= SlotTemplate(slot).max

Asked(r) ==
  Definition(presentation, r.source.template,
             templates[r.source.template].requirements[r.requirement].name)

\* The end of a stored relationship is what the nearest definition of the requirement
\* asks for, by whatever mix of inherited, assigned and added requirements it came about,
\* and its capability refines the one that the asked node type has by that name.  A
\* requirement that names a capability is exempt: the name is not looked at.
RelationshipsFit ==
  \A r \in ToSet(stored.relationships) :
     LET d == Asked(r)
         type == templates[r.target.template].type
         capability == templates[r.target.template].capabilities[r.capability].type
     IN templates[r.source.template].requirements[r.requirement].capability_name = None =>
           /\ CapabilityIsA(capability, d.capability)
           /\ d.node # None =>
                /\ NodeIsA(type, d.node)
                /\ LET offered == InheritedCapabilities(presentation, d.node)
                   IN r.capability \in DOMAIN offered =>
                         CapabilityIsA(capability, offered[r.capability].type)

\* Where the hosts of a node are: along relationships to capabilities of the host role, and
\* back along those to capabilities of the feature role.
Leads(a, b) ==
  \E r \in ToSet(stored.relationships) :
     \/ r.source = a /\ r.target = b /\ HasRole(r, "host")
     \/ r.target = a /\ r.source = b /\ HasRole(r, "feature")

Reached(node) ==
  LET all == AllOf(stored.nodes)
      within[n \in 0 .. Cardinality(all)] ==
        IF n = 0
        THEN {node}
        ELSE UNION {{b \in all : b = a \/ Leads(a, b)} : a \in within[n - 1]}
  IN within[Cardinality(all)]

\* An accepted service gives every node a host if relationships lead to one, and none if
\* they do not: the search in depth, which takes the first answer and remembers nothing,
\* misses no host when it ends.
HostIsFound(s) ==
  \A n \in StoredNodes(s) :
     LET there == {h \in Reached(n) : IsHost(h)}
     IN IF there = {} THEN stored.hosts[n] = None ELSE stored.hosts[n] \in there

HostsAreFound == [][\A s \in Services : Stores(s) => HostIsFound(s)']_vars

-----------------------------------------------------------------------------
(* The inductive invariant. *)

Templates == DOMAIN presentation.templates
Nodes == [template : Templates, service : Services, index : Int]
Names == UNION {DOMAIN Offered(presentation, template) : template \in Templates}
Ends == [source : Nodes, requirement : Nat, target : Nodes, capability : Names]

\* The lists of nodes and the relationships of the storage or of a session.
NodesAreTyped(nodes) ==
  /\ nodes \in [Templates -> Seq(Nodes)]
  /\ \A template \in Templates : \A n \in ToSet(nodes[template]) : n.template = template

Fields == {"nodes", "made", "relationships", "occurrences", "todo", "at", "satisfied",
           "issues", "carried"}

IsSession(x) ==
  /\ x = [field \in Fields |-> x[field]]
  /\ NodesAreTyped(x.nodes) /\ NodesAreTyped(x.made)
  /\ x.relationships \in Seq(Ends)
  /\ x.todo \subseteq Nodes /\ x.at \in {None} \cup (Nodes \X Nat)

IsStorage(x) ==
  /\ x = [services |-> x.services, nodes |-> x.nodes, relationships |-> x.relationships,
          occurrences |-> x.occurrences, hosts |-> x.hosts]
  /\ NodesAreTyped(x.nodes)
  /\ x.relationships \in Seq(Ends)

TypeOK ==
  /\ presentation \in Presentations
  /\ templates \in {None, NodeTemplates(presentation)}
  /\ stage \in [Services -> {"none", "satisfying", "stored", "rejected", "leftover", "deleted"}]
  /\ sessions = [s \in Services |-> sessions[s]]
  /\ \A s \in Services : sessions[s] # Closed => IsSession(sessions[s])
  /\ IsStorage(stored)
  /\ overlapped \in BOOLEAN

IsOpen(s) == sessions[s] # Closed

\* A creation that is under way has a session, nothing is open or stored of a service
\* whose creation has not begun, and none begins before the template is there.
StagesFit ==
  \A s \in Services :
     /\ stage[s] = "satisfying" => IsOpen(s)
     /\ IsOpen(s) \/ s \in stored.services => stage[s] # "none"
     /\ templates = None => stage[s] = "none"

OneIsOpen == overlapped \/ \A s, other \in Services : IsOpen(s) /\ IsOpen(other) => s = other

\* A node is of a service whose creation has begun: those of the next service are new.
HasBegun(node) == node.service \in {s \in Services : stage[s] # "none"}

NodesHaveBegun ==
  /\ \A n \in AllOf(stored.nodes) : HasBegun(n)
  /\ \A r \in ToSet(stored.relationships) : HasBegun(r.target)
  /\ \A slot \in DOMAIN stored.occurrences : HasBegun(slot.node)
  /\ \A s \in Services : IsOpen(s) =>
        /\ \A n \in AllOf(sessions[s].nodes) \cup AllOf(sessions[s].made) : HasBegun(n)
        /\ \A r \in ToSet(sessions[s].relationships) : HasBegun(r.target)

\* The relationships that end in a capability.
Count(relationships, slot) ==
  Cardinality({i \in DOMAIN relationships :
                 relationships[i].target = slot.node /\ relationships[i].capability = slot.name})

\* The counters of capabilities stay within their bounds.
Bounded(occurrences) ==
  \A slot \in DOMAIN occurrences :
     /\ occurrences[slot] \in Nat
     /\ SlotTemplate(slot).max # None => occurrences[slot] <= SlotTemplate(slot).max

\* Each node that is stored has its counters, and they count all relationships.
StoredCount ==
  overlapped \/
    /\ Slots(AllOf(stored.nodes)) \subseteq DOMAIN stored.occurrences
    /\ Bounded(stored.occurrences)
    /\ \A slot \in Slots(AllOf(stored.nodes)) :
          Count(stored.relationships, slot) <= stored.occurrences[slot]

\* A session without another beside it has the nodes that are stored and those it made, and
\* the counters it sees count the relationships that are stored and those it added.
SessionsCount ==
  overlapped \/ \A s \in Services : IsOpen(s) =>
    /\ sessions[s].nodes = Joined(stored.nodes, sessions[s].made)
    /\ Slots(Made(s)) \subseteq DOMAIN sessions[s].occurrences
    /\ Bounded(sessions[s].occurrences)
    /\ \A slot \in Slots(AllOf(sessions[s].nodes)) :
          Count(Relationships(s), slot) <= Occurrences(sessions[s], slot)

IInv ==
  /\ TypeOK /\ StagesFit /\ OneIsOpen
  /\ NodesHaveBegun /\ StoredCount /\ SessionsCount

-----------------------------------------------------------------------------
(* The inductive invariant of what is accepted. *)

Ended == {s \in Services : stage[s] \notin {"none", "satisfying"}}

\* The nodes of a creation that is under way are in its own session and nowhere else.
SessionIsApart(x, services) ==
  /\ \A n \in AllOf(x.nodes) \cup AllOf(x.made) : n.service \in services
  /\ \A r \in ToSet(x.relationships) : {r.source.service, r.target.service} \subseteq services
  /\ \A slot \in DOMAIN x.occurrences : slot.node.service \in services

OwnIsApart ==
  /\ \A n \in AllOf(stored.nodes) : n.service \in Ended
  /\ \A r \in ToSet(stored.relationships) : {r.source.service, r.target.service} \subseteq Ended
  /\ \A s \in Services : IsOpen(s) => SessionIsApart(sessions[s], Ended \cup {s})

\* The requirement is still to be looked at.
IsDue(x, n, k) == n \in x.todo \/ (x.at # None /\ x.at[1] = n /\ x.at[2] <= k)

CountFrom(relationships, n, k) ==
  Cardinality({i \in DOMAIN relationships :
                 relationships[i].source = n /\ relationships[i].requirement = k})

\* What is looked at are the requirements of the nodes the creation has made.
PlaceFits(x, own) ==
  /\ x.todo \subseteq {n \in own : templates[n.template].requirements # <<>>}
  /\ x.at # None => x.at[1] \in own \ x.todo /\ x.at[2] \in DOMAIN templates[x.at[1].template].requirements

\* Unless an issue was reported, each requirement that is not due has its relationship.
NoneIsMissing(x, own) ==
  ~x.issues =>
    /\ x.satisfied
    /\ \A n \in own : \A k \in DOMAIN templates[n.template].requirements :
          CountFrom(x.relationships, n, k) = IF IsDue(x, n, k) THEN 0 ELSE 1

\* The counters of the capabilities of the nodes made are exact.
CountersAreExact(x, own) ==
  \A slot \in Slots(own) :
     slot \in DOMAIN x.occurrences /\ Count(x.relationships, slot) = x.occurrences[slot]

OwnIsKept ==
  \A s \in Services :
     /\ stage[s] = "satisfying" =>
          /\ PlaceFits(sessions[s], OwnNodes(s))
          /\ NoneIsMissing(sessions[s], OwnNodes(s))
          /\ CountersAreExact(sessions[s], OwnNodes(s))
     /\ s \in Reusable => sessions[s].at = None

AcceptedInv == OwnIsApart /\ OwnIsKept
=============================================================================
