------------------------------- MODULE Schema -------------------------------
(***************************************************************************)
(* The tables of the model storage and the references between their rows. *)
(* One definition per model class.  A class is reduced to what decides    *)
(* which rows a deletion takes along and which references it can leave    *)
(* behind:                                                                *)
(*   owns   the tables of its one_to_many collections, which carry the    *)
(*          "all" cascade: deleting the row deletes the rows it owns      *)
(*   needs  its foreign keys that may not be null                         *)
(*   may    its foreign keys that may be null                             *)
(* Scalar columns, documentation, raw views and association proxies are   *)
(* left out, and so are the secondary tables of many_to_many collections. *)
(* A one_to_one declares no cascade and adds a foreign key, nothing else. *)
(***************************************************************************)
EXTENDS Naturals, Sequences, FiniteSets

Table(owned, required, optional) == [owns |-> owned, needs |-> required, may |-> optional]

-----------------------------------------------------------------------------
(* Templates: what the parser stores. *)

\* The roots of the seven type hierarchies and of the substitution: one_to_one, so
\* each is a nullable key and none is deleted with the template.
ServiceTemplateTypes ==
  {"substitution_template", "node_type", "group_type", "policy_type",
   "relationship_type", "capability_type", "interface_type", "artifact_type"}

ServiceTemplateOwns ==
  {"service", "node_template", "group_template", "policy_template", "operation_template",
   "output", "input", "plugin_specification"}

ServiceTemplate == Table(ServiceTemplateOwns, {}, ServiceTemplateTypes)

NodeTemplateOwns ==
  {"node", "interface_template", "artifact_template", "capability_template",
   "requirement_template", "property", "attribute"}

NodeTemplate == Table(NodeTemplateOwns, {"type", "service_template"}, {})

GroupTemplate ==
  Table({"group", "interface_template", "property"}, {"type", "service_template"}, {})

PolicyTemplate == Table({"policy", "property"}, {"type", "service_template"}, {})

SubstitutionTemplate ==
  Table({"substitution", "substitution_template_mapping"}, {"node_type"}, {})

SubstitutionTemplateMapping ==
  Table({}, {"substitution_template"}, {"capability_template", "requirement_template"})

RequirementTemplate ==
  Table({"relationship"},
        {"node_template"},
        {"target_node_type", "target_node_template", "target_capability_type",
         "relationship_template"})

RelationshipTemplate == Table({"relationship", "interface_template", "property"}, {}, {"type"})

CapabilityTemplate == Table({"capability", "property"}, {"type", "node_template"}, {})

InterfaceTemplate ==
  Table({"input", "interface", "operation_template"},
        {"type"},
        {"node_template", "group_template", "relationship_template"})

OperationTemplate ==
  Table({"operation", "input", "configuration"},
        {},
        {"service_template", "interface_template", "plugin_specification"})

ArtifactTemplate == Table({"artifact", "property"}, {"type", "node_template"}, {})

PluginSpecification == Table({}, {}, {"service_template", "plugin"})

-----------------------------------------------------------------------------
(* Instances: what instantiation creates. *)

ServiceOwns ==
  {"output", "input", "service_update", "service_modification", "execution", "node",
   "group", "policy", "operation"}

Service == Table(ServiceOwns, {}, {"substitution", "service_template"})

\* The relationships of a node are two collections over one table, by two keys.
NodeOwns ==
  {"task", "interface", "property", "attribute", "artifact", "capability", "relationship"}

Node == Table(NodeOwns, {"type", "service", "node_template"}, {"host"})

Group == Table({"property", "interface"}, {"type", "service"}, {"group_template"})

Policy == Table({"property"}, {"type", "service"}, {"policy_template"})

Substitution == Table({"substitution_mapping"}, {"node_type"}, {"substitution_template"})

SubstitutionMapping ==
  Table({}, {"substitution"}, {"capability", "node", "requirement_template"})

Relationship ==
  Table({"task", "interface", "property"},
        {"source_node", "target_node"},
        {"type", "target_capability", "requirement_template", "relationship_template"})

Capability == Table({"property"}, {"type", "node"}, {"capability_template"})

Interface ==
  Table({"input", "operation"},
        {"type"},
        {"node", "group", "relationship", "interface_template"})

Operation ==
  Table({"input", "argument", "configuration"},
        {},
        {"service", "interface", "plugin", "operation_template"})

Artifact == Table({"property"}, {"type", "node"}, {"artifact_template"})

-----------------------------------------------------------------------------
(* Parameters and types, shared by the two families. *)

Output == Table({}, {}, {"service_template", "service"})

Input ==
  Table({}, {}, {"service_template", "service", "interface", "operation",
                 "interface_template", "operation_template", "execution", "task"})

Configuration == Table({}, {}, {"operation_template", "operation"})

PropertyOwners ==
  {"node_template", "group_template", "policy_template", "relationship_template",
   "capability_template", "artifact_template",
   "node", "group", "policy", "relationship", "capability", "artifact"}

Property == Table({}, {}, PropertyOwners)

Attribute == Table({}, {}, {"node_template", "node"})

\* A type owns nothing: its children collection is over its own table, and for such
\* a collection one_to_many sets no cascade.
Type == Table({}, {}, {"parent_type"})

Metadata == Table({}, {}, {})

-----------------------------------------------------------------------------
(* Executions and planned changes of a service, plugins, type definitions. *)

Execution == Table({"input", "task", "log"}, {"service"}, {})

Task == Table({"log", "argument"}, {}, {"execution", "node", "relationship", "plugin"})

Log == Table({}, {"execution"}, {"task"})

Plugin == Table({"task"}, {}, {})

Argument == Table({}, {}, {"task", "operation"})

ServiceUpdate == Table({"service_update_step"}, {"service"}, {"execution"})

ServiceUpdateStep == Table({}, {"service_update"}, {})

ServiceModification == Table({}, {"service"}, {})

TypeDefinition == Table({}, {}, {})

Models ==
  [service_template |-> ServiceTemplate, node_template |-> NodeTemplate,
   group_template |-> GroupTemplate, policy_template |-> PolicyTemplate,
   substitution_template |-> SubstitutionTemplate,
   substitution_template_mapping |-> SubstitutionTemplateMapping,
   requirement_template |-> RequirementTemplate,
   relationship_template |-> RelationshipTemplate,
   capability_template |-> CapabilityTemplate, interface_template |-> InterfaceTemplate,
   operation_template |-> OperationTemplate, artifact_template |-> ArtifactTemplate,
   plugin_specification |-> PluginSpecification,
   service |-> Service, node |-> Node, group |-> Group, policy |-> Policy,
   substitution |-> Substitution, substitution_mapping |-> SubstitutionMapping,
   relationship |-> Relationship, capability |-> Capability, interface |-> Interface,
   operation |-> Operation, artifact |-> Artifact,
   output |-> Output, input |-> Input, configuration |-> Configuration,
   property |-> Property, attribute |-> Attribute, type |-> Type,
   metadata |-> Metadata,
   execution |-> Execution, task |-> Task, log |-> Log, plugin |-> Plugin,
   argument |-> Argument, service_update |-> ServiceUpdate,
   service_update_step |-> ServiceUpdateStep,
   service_modification |-> ServiceModification, type_definition |-> TypeDefinition]

Tables == DOMAIN Models

-----------------------------------------------------------------------------
(* Keys and collections, as the relationship helpers derive them. *)

\* The keys that are not named after the table they refer to.
KeyTable ==
  [node_type |-> "type", group_type |-> "type", policy_type |-> "type",
   relationship_type |-> "type", capability_type |-> "type", interface_type |-> "type",
   artifact_type |-> "type", parent_type |-> "type", target_node_type |-> "type",
   target_capability_type |-> "type", target_node_template |-> "node_template",
   host |-> "node", source_node |-> "node", target_node |-> "node",
   target_capability |-> "capability"]

RefersTo(key) == IF key \in DOMAIN KeyTable THEN KeyTable[key] ELSE key

Keys(table) == Models[table].needs \cup Models[table].may

\* The keys of child by which parent's collection finds its rows: the one named after
\* the parent, or every key to it when none is (the two ends of a relationship).
OwningKeys(child, parent) ==
  IF parent \in Keys(child)
  THEN {parent}
  ELSE {key \in Keys(child) : RefersTo(key) = parent}

\* No table owns these: nothing that is deleted takes their rows along.
Unowned == {table \in Tables : \A parent \in Tables : table \notin Models[parent].owns}

\* Every collection finds its rows by a key and every key refers to a table; without
\* either the classes could not be mapped to a database.
ASSUME SchemaIsClosed ==
  \A table \in Tables :
     /\ \A child \in Models[table].owns : child \in Tables /\ OwningKeys(child, table) # {}
     /\ \A key \in Keys(table) : RefersTo(key) \in Tables
=============================================================================
