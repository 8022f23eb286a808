------------------------------ MODULE Grammar ------------------------------
(***************************************************************************)
(* The grammar of a TOSCA Simple Profile service template, as the classes  *)
(* of aria_extension_tosca declare it: one definition per presentation     *)
(* class, with its fields in the order @has_fields keeps them (those of    *)
(* the base classes first, then the class's own by name).                  *)
(***************************************************************************)
EXTENDS Sequences, TLC

\* A field as the decorators of parser/presentation/fields.py make it: how its
\* raw value is read, the class of its elements (or of its value), whether a
\* value is required or supplied by default, and whether a validator of its own
\* reads the value again after the default validation.
Field(name, variant, of) ==
  [name |-> name, variant |-> variant, of |-> of,
   required |-> FALSE, default |-> FALSE, checked |-> FALSE]

Required(f) == [f EXCEPT !.required = TRUE]
Defaulted(f) == [f EXCEPT !.default = TRUE]
Checked(f) == [f EXCEPT !.checked = TRUE]

Text(name) == Field(name, "primitive", "str")
Data(name) == Field(name, "primitive", "any")
Texts(name) == Field(name, "primitive_list", "str")
Reference(name) == Checked(Text(name))
References(name) == Checked(Texts(name))
Object(name, class) == Field(name, "object", class)
ListOf(name, class) == Field(name, "object_list", class)
DictOf(name, class) == Field(name, "object_dict", class)
Sequenced(name, class) == Field(name, "sequenced_object_list", class)
RestOf(name, class) == Field(name, "object_dict_unknown_fields", class)

\* Fields whose getter builds an instance of a data type class from the value.
Version(name) == Field(name, "primitive", "version")
RangeOf(name) == Field(name, "primitive", "range")

\* A class of ExtensiblePresentation: its SHORT_FORM_FIELD ("" when it has
\* none), whether it allows unknown fields, its fields, and those that its own
\* _validate reads once more after the fields are validated.
Class(short, open, fields, reads) ==
  [kind |-> "fields", short |-> short, open |-> open, reads |-> reads,
   fields |-> <<Field("_extensions", "primitive_dict", "any")>> \o fields]

\* A class of AsIsPresentation, which keeps its raw value whatever its form.
AsIs(kind) ==
  [kind |-> kind, short |-> "", open |-> FALSE, reads |-> {}, fields |-> <<>>]

-----------------------------------------------------------------------------
\* misc.py

Description == AsIs("text")

MetaData ==
  Class("", TRUE, << Field("custom", "primitive_dict_unknown_fields", "str"), Text("template_author"),
                     Text("template_name"), Version("template_version") >>, {})

Repository ==
  Class("url", FALSE, << Checked(Data("credential")), Object("description", "Description"),
                         Required(Text("url")) >>, {"credential"})

Import ==
  Class("file", FALSE, << Required(Text("file")), Text("namespace_prefix"), Text("namespace_uri"),
                          Text("repository") >>, {})

ConstraintClause ==
  LET Compared(name) == Checked(Data(name))
      Amount(name) == Checked(Field(name, "primitive", "int"))
  IN Class("", FALSE, << Compared("equal"), Compared("greater_or_equal"), Compared("greater_than"),
                         Checked(Field("in_range", "primitive_list", "any")), Amount("length"),
                         Compared("less_or_equal"), Compared("less_than"), Amount("max_length"),
                         Amount("min_length"), Reference("pattern"),
                         Checked(Field("valid_values", "primitive_list", "any")) >>, {})

EntrySchema ==
  Class("type", FALSE, << ListOf("constraints", "ConstraintClause"), Object("description", "Description"),
                          Required(Reference("type")) >>, {})

OperationImplementation ==
  Class("primary", FALSE, << Texts("dependencies"), Text("primary") >>, {})

SubstitutionMappingsRequirement == AsIs("mapping")

SubstitutionMappingsCapability == AsIs("mapping")

SubstitutionMappings ==
  Class("", FALSE, << DictOf("capabilities", "SubstitutionMappingsCapability"),
                      Required(Reference("node_type")),
                      DictOf("requirements", "SubstitutionMappingsRequirement") >>, {"node_type"})

-----------------------------------------------------------------------------
\* filters.py

CapabilityFilter == Class("", FALSE, << Sequenced("properties", "ConstraintClause") >>, {})

NodeFilter ==
  Class("", FALSE, << Checked(Sequenced("capabilities", "CapabilityFilter")),
                      Checked(Sequenced("properties", "ConstraintClause")) >>, {})

-----------------------------------------------------------------------------
\* definitions.py

Status == Defaulted(Field("status", "primitive", "status"))

PropertyDefinition ==
  Class("", FALSE, << ListOf("constraints", "ConstraintClause"), Checked(Data("default")),
                      Object("description", "Description"), Checked(Object("entry_schema", "EntrySchema")),
                      Defaulted(Field("required", "primitive", "bool")), Status,
                      Required(Reference("type")) >>, {})

AttributeDefinition ==
  Class("", FALSE, << Checked(Data("default")), Object("description", "Description"),
                      Checked(Object("entry_schema", "EntrySchema")), Status,
                      Required(Reference("type")) >>, {})

\* The fields of PropertyDefinition come first.
InputDefinition ==
  [PropertyDefinition EXCEPT !.fields = Append(@, Checked(Data("value")))]

\* Declares "type" anew, where it already stands, without requiring it.
OutputDefinition ==
  [InputDefinition EXCEPT !.fields = [i \in DOMAIN @ |-> IF @[i].name = "type" THEN Reference("type")
                                                         ELSE @[i]]]

OperationDefinition ==
  Class("implementation", FALSE, << Object("description", "Description"),
                                    Object("implementation", "OperationImplementation"),
                                    DictOf("inputs", "PropertyDefinition") >>, {})

InterfaceDefinition ==
  Class("", TRUE, << DictOf("inputs", "PropertyDefinition"), RestOf("operations", "OperationDefinition"),
                     Required(Reference("type")) >>, {"inputs", "operations", "type"})

RelationshipDefinition ==
  Class("type", FALSE, << DictOf("interfaces", "InterfaceDefinition"), Required(Reference("type")) >>, {})

RequirementDefinition ==
  Class("capability", FALSE, << Required(Reference("capability")), Reference("node"), RangeOf("occurrences"),
                                Object("relationship", "RelationshipDefinition") >>, {"occurrences"})

CapabilityDefinition ==
  Class("type", FALSE, << DictOf("attributes", "AttributeDefinition"), Object("description", "Description"),
                          RangeOf("occurrences"), DictOf("properties", "PropertyDefinition"),
                          Required(Reference("type")), References("valid_source_types") >>, {"occurrences"})

-----------------------------------------------------------------------------
\* assignments.py

PropertyAssignment == AsIs("value")

AttributeAssignment == AsIs("value")

OperationAssignment ==
  Class("implementation", FALSE, << Object("description", "Description"),
                                    Object("implementation", "OperationImplementation"),
                                    DictOf("inputs", "PropertyAssignment") >>, {})

InterfaceAssignment ==
  Class("", TRUE, << DictOf("inputs", "PropertyAssignment"),
                     RestOf("operations", "OperationAssignment") >>, {"operations"})

RelationshipAssignment ==
  Class("type", FALSE, << DictOf("interfaces", "InterfaceAssignment"),
                          DictOf("properties", "PropertyAssignment"), Reference("type") >>, {})

RequirementAssignment ==
  Class("node", FALSE, << Reference("capability"), Reference("node"),
                          Checked(Object("node_filter", "NodeFilter")),
                          Object("relationship", "RelationshipAssignment") >>, {})

CapabilityAssignment ==
  Class("", FALSE, << DictOf("attributes", "AttributeAssignment"),
                      DictOf("properties", "PropertyAssignment") >>, {})

ArtifactAssignmentForType ==
  Class("", FALSE, << Text("deploy_path"), Object("description", "Description"), Required(Text("file")),
                      DictOf("properties", "PropertyAssignment"), Reference("repository"),
                      Required(Reference("type")) >>, {})

ArtifactAssignment == [ArtifactAssignmentForType EXCEPT !.reads = {"properties", "type"}]

-----------------------------------------------------------------------------
\* types.py

ArtifactType ==
  Class("", FALSE, << Reference("derived_from"), Object("description", "Description"), Texts("file_ext"),
                      Text("mime_type"), DictOf("properties", "PropertyDefinition"),
                      Version("version") >>, {"derived_from", "properties"})

DataType ==
  Class("", FALSE, << Checked(ListOf("constraints", "ConstraintClause")), Reference("derived_from"),
                      Object("description", "Description"),
                      Checked(DictOf("properties", "PropertyDefinition")),
                      Version("version") >>, {"derived_from", "properties"})

CapabilityType ==
  Class("", FALSE, << DictOf("attributes", "AttributeDefinition"), Reference("derived_from"),
                      Object("description", "Description"), DictOf("properties", "PropertyDefinition"),
                      References("valid_source_types"), Version("version") >>,
        {"attributes", "derived_from", "properties"})

InterfaceType ==
  Class("", TRUE, << Reference("derived_from"), Object("description", "Description"),
                     DictOf("inputs", "PropertyDefinition"), RestOf("operations", "OperationDefinition"),
                     Version("version") >>, {"derived_from", "inputs", "operations"})

RelationshipType ==
  Class("", FALSE, << DictOf("attributes", "AttributeDefinition"), Reference("derived_from"),
                      Object("description", "Description"), DictOf("interfaces", "InterfaceDefinition"),
                      DictOf("properties", "PropertyDefinition"), References("valid_target_types"),
                      Version("version") >>, {"attributes", "derived_from", "interfaces", "properties"})

NodeType ==
  Class("", FALSE, << DictOf("artifacts", "ArtifactAssignmentForType"),
                      DictOf("attributes", "AttributeDefinition"),
                      DictOf("capabilities", "CapabilityDefinition"), Reference("derived_from"),
                      Object("description", "Description"), DictOf("interfaces", "InterfaceDefinition"),
                      DictOf("properties", "PropertyDefinition"),
                      Sequenced("requirements", "RequirementDefinition"), Version("version") >>,
        {"artifacts", "attributes", "capabilities", "derived_from", "interfaces", "properties",
         "requirements"})

GroupType ==
  Class("", FALSE, << Reference("derived_from"), Object("description", "Description"),
                      DictOf("interfaces", "InterfaceDefinition"), References("members"),
                      DictOf("properties", "PropertyDefinition"), Version("version") >>,
        {"derived_from", "interfaces", "properties"})

PolicyType ==
  Class("", FALSE, << Reference("derived_from"), Object("description", "Description"),
                      DictOf("properties", "PropertyDefinition"), References("targets"),
                      Version("version") >>, {"derived_from", "properties"})

-----------------------------------------------------------------------------
\* templates.py

NodeTemplate ==
  Class("", FALSE, << DictOf("artifacts", "ArtifactAssignment"), DictOf("attributes", "AttributeAssignment"),
                      DictOf("capabilities", "CapabilityAssignment"), Reference("copy"),
                      Object("description", "Description"), Texts("directives"),
                      DictOf("interfaces", "InterfaceAssignment"), Object("node_filter", "NodeFilter"),
                      DictOf("properties", "PropertyAssignment"),
                      Sequenced("requirements", "RequirementAssignment"), Required(Reference("type")) >>,
        {"artifacts", "attributes", "capabilities", "interfaces", "properties", "requirements", "type"})

RelationshipTemplate ==
  Class("", FALSE, << DictOf("attributes", "AttributeAssignment"), Reference("copy"),
                      Object("description", "Description"), DictOf("interfaces", "InterfaceAssignment"),
                      DictOf("properties", "PropertyAssignment"), Required(Reference("type")) >>,
        {"attributes", "interfaces", "properties", "type"})

GroupTemplate ==
  Class("", FALSE, << Object("description", "Description"), DictOf("interfaces", "InterfaceAssignment"),
                      References("members"), DictOf("properties", "PropertyAssignment"),
                      Required(Reference("type")) >>, {"interfaces", "properties", "type"})

PolicyTemplate ==
  Class("", FALSE, << Object("description", "Description"), DictOf("properties", "PropertyAssignment"),
                      References("targets"), Required(Reference("type")) >>, {"properties", "type"})

TopologyTemplate ==
  Class("", FALSE, << Object("description", "Description"), DictOf("groups", "GroupTemplate"),
                      DictOf("inputs", "InputDefinition"), DictOf("node_templates", "NodeTemplate"),
                      DictOf("outputs", "OutputDefinition"), DictOf("policies", "PolicyTemplate"),
                      DictOf("relationship_templates", "RelationshipTemplate"),
                      Object("substitution_mappings", "SubstitutionMappings") >>, {"inputs", "outputs"})

ServiceTemplate ==
  Class("", FALSE, << DictOf("artifact_types", "ArtifactType"), DictOf("capability_types", "CapabilityType"),
                      DictOf("data_types", "DataType"), Object("description", "Description"),
                      Data("dsl_definitions"), DictOf("group_types", "GroupType"),
                      ListOf("imports", "Import"), DictOf("interface_types", "InterfaceType"),
                      Object("metadata", "MetaData"), DictOf("node_types", "NodeType"),
                      DictOf("policy_types", "PolicyType"),
                      DictOf("relationship_types", "RelationshipType"),
                      DictOf("repositories", "Repository"), Object("topology_template", "TopologyTemplate"),
                      Text("tosca_definitions_version") >>, {})

-----------------------------------------------------------------------------
\* Every class by its name, which it is given here.
Classes ==
  [Description |-> Description, MetaData |-> MetaData, Repository |-> Repository, Import |-> Import,
   ConstraintClause |-> ConstraintClause, EntrySchema |-> EntrySchema,
   OperationImplementation |-> OperationImplementation,
   SubstitutionMappingsRequirement |-> SubstitutionMappingsRequirement,
   SubstitutionMappingsCapability |-> SubstitutionMappingsCapability,
   SubstitutionMappings |-> SubstitutionMappings, CapabilityFilter |-> CapabilityFilter,
   NodeFilter |-> NodeFilter, PropertyDefinition |-> PropertyDefinition,
   AttributeDefinition |-> AttributeDefinition, InputDefinition |-> InputDefinition,
   OutputDefinition |-> OutputDefinition, OperationDefinition |-> OperationDefinition,
   InterfaceDefinition |-> InterfaceDefinition, RelationshipDefinition |-> RelationshipDefinition,
   RequirementDefinition |-> RequirementDefinition, CapabilityDefinition |-> CapabilityDefinition,
   PropertyAssignment |-> PropertyAssignment, AttributeAssignment |-> AttributeAssignment,
   OperationAssignment |-> OperationAssignment, InterfaceAssignment |-> InterfaceAssignment,
   RelationshipAssignment |-> RelationshipAssignment, RequirementAssignment |-> RequirementAssignment,
   CapabilityAssignment |-> CapabilityAssignment,
   ArtifactAssignmentForType |-> ArtifactAssignmentForType, ArtifactAssignment |-> ArtifactAssignment,
   ArtifactType |-> ArtifactType, DataType |-> DataType, CapabilityType |-> CapabilityType,
   InterfaceType |-> InterfaceType, RelationshipType |-> RelationshipType, NodeType |-> NodeType,
   GroupType |-> GroupType, PolicyType |-> PolicyType, NodeTemplate |-> NodeTemplate,
   RelationshipTemplate |-> RelationshipTemplate, GroupTemplate |-> GroupTemplate,
   PolicyTemplate |-> PolicyTemplate, TopologyTemplate |-> TopologyTemplate,
   ServiceTemplate |-> ServiceTemplate]

GRAMMAR == [n \in DOMAIN Classes |-> [name |-> n] @@ Classes[n]]
=============================================================================
