------------------------------ MODULE Parsing ------------------------------
(***************************************************************************)
(* Core.create_service_template on one document: the chain of consumers    *)
(* Read, Validate and ServiceTemplate of Core.parse_service_template, each *)
(* of which runs only when nothing was reported before it, and the row     *)
(* that is put when nothing was reported at all.                           *)
(*                                                                         *)
(* The document is built here along one path of the grammar, every         *)
(* presentation on it in order but the last, which is given anything.  The *)
(* derived_from fields of its types are kept apart, in derivedFrom: the    *)
(* names that a few types of one family give as their parents.             *)
(***************************************************************************)
EXTENDS Presentation

CONSTANTS Types,      \* the names of the types of one family
          Nothing,    \* no derived_from
          Unknown,    \* a name that no type has
          Leaves,     \* the raw values that a field of the last presentation is given
          MaxPath     \* bound: the length of a path

VARIABLES path,         \* the fields that lead to the last presentation
          document,     \* the raw service template
          family,       \* "data" for data types, "other" for the types of every other kind
          derivedFrom,  \* what each type derives from
          phase,        \* how far the chain of consumers has come
          issues        \* what the validation context holds

vars == <<path, document, family, derivedFrom, phase, issues>>

\* The shorthand name of a type, by its shorthand_name or type_qualified_name.
Shorthand(t) == <<"shorthand", t>>

Names == Types \cup {Shorthand(t) : t \in Types} \cup {Nothing, Unknown}

-----------------------------------------------------------------------------
\* The hierarchy of types

FullName(name) ==
  IF name \in {Shorthand(t) : t \in Types} THEN CHOOSE t \in Types : name = Shorthand(t) ELSE name

Parent(t) == FullName(derivedFrom[t])

\* Climbing from the last of the types seen, all the way to a type without a
\* parent: "sound", or what stops it.
RECURSIVE Climb(_)
Climb(seen) ==
  LET t == Last(seen)
  IN CASE Parent(t) = Nothing -> "sound"
       [] Parent(t) = t -> "self"
       [] Parent(t) \notin Types -> "unknown"
       [] Contains(seen, Parent(t)) -> "circle"
       [] OTHER -> Climb(Append(seen, Parent(t)))

\* As GetParent, but asking only that the parent exist and be another type.
GetParent_NoCircle(t) == IF Parent(t) \in Types \ {t} THEN Parent(t) ELSE Nothing

\* get_parent_presentation: no parent unless the whole line of ancestors holds.
GetParent(t) ==
  IF Parent(t) # Nothing /\ Climb(<<t>>) = "sound" THEN Parent(t) ELSE Nothing

\* DataType._get_parent: only a type that names itself, in full, has no parent.
GetDataParent(t) ==
  IF derivedFrom[t] = t \/ Parent(t) \notin Types THEN Nothing ELSE Parent(t)

ParentOf(t) == IF family = "data" THEN GetDataParent(t) ELSE GetParent(t)

\* derived_from_validator: a type answers for its own parent, and for a circle
\* it stands in or leads to.  data_type_validator, which comes first for a data
\* type, lets it pass only those whose parent exists.
DerivedFromIssues(t) ==
  LET found == Climb(<<t>>)
  IN CASE Parent(t) = Nothing -> {}
       [] Parent(t) = t -> {<<t, "parent is self">>}
       [] Parent(t) \notin Types -> {<<t, "unknown parent">>}
       [] found = "circle" -> {<<t, "circular hierarchy">>}
       [] OTHER -> {}

\* What a type inherits is looked up from parent to parent, without end when
\* the parents form a circle.
InheritanceEnds ==
  \A some \in SUBSET Types \ {{}} : \E t \in some : ParentOf(t) \notin some

HierarchyIssues ==
  UNION {DerivedFromIssues(t) : t \in Types} \cup (IF InheritanceEnds THEN {} ELSE {<<"recursion">>})

-----------------------------------------------------------------------------
\* The document

\* A presentation with nothing in it but what it cannot do without.
Essential(class) ==
  {f.name : f \in {f \in ToSet(class.fields) : f.required}}
    \cup (IF class.name = "ServiceTemplate" THEN {"tosca_definitions_version"} ELSE {})

Bare(class) == [n \in Essential(class) |-> Fitting]

\* A value of the field with one presentation in it, and the entry that holds it.
Holding(f, raw) ==
  CASE f.variant \in {"object", "object_dict_unknown_fields"} -> raw
    [] f.variant = "object_list" -> List(<<raw>>)
    [] f.variant = "object_dict" -> Dict([x |-> raw])
    [] f.variant = "sequenced_object_list" -> List(<<Dict([x |-> raw])>>)

Entry(f) == IF IsRest(f) THEN "x" ELSE f.name

RECURSIVE Along(_, _, _)
Along(class, fields, last) ==
  IF fields = <<>> THEN last
  ELSE LET f == Head(fields)
       IN Dict(Entry(f) :> Holding(f, Along(f.of, Tail(fields), last)) @@ Bare(GRAMMAR[class]))

EndOf(fields) == GRAMMAR[IF fields = <<>> THEN "ServiceTemplate" ELSE Last(fields).of]

HasElements(f) ==
  f.variant \in {"object", "object_list", "object_dict", "sequenced_object_list",
                 "object_dict_unknown_fields"}

\* Anything the last presentation may be: a value that is no dict at all, the
\* bare presentation, one with an entry more, or one with an entry less.
Lasts(class) ==
  Leaves
    \cup {Dict(Bare(class))}
    \cup {Dict(n :> leaf @@ Bare(class)) : n \in FieldNames(class) \cup {"x"}, leaf \in Leaves}
    \cup {Dict([n \in Essential(class) \ {gone} |-> Fitting]) : gone \in Essential(class)}

-----------------------------------------------------------------------------
\* The chain of consumers

Init ==
  /\ path = <<>>
  /\ document = Absent
  /\ family \in {"data", "other"}
  /\ derivedFrom = [t \in Types |-> Nothing]
  /\ phase = "writing"
  /\ issues = {}

Descend ==
  /\ phase = "writing" /\ Len(path) < MaxPath
  /\ family = "other" /\ \A t \in Types : derivedFrom[t] = Nothing
  /\ \E f \in ToSet(EndOf(path).fields) :
       HasElements(f) /\ path' = Append(path, f)
  /\ UNCHANGED <<document, family, derivedFrom, phase, issues>>

Derive(t, name) ==
  /\ phase = "writing" /\ path = <<>>
  /\ derivedFrom[t] = Nothing
  /\ derivedFrom' = [derivedFrom EXCEPT ![t] = name]
  /\ UNCHANGED <<path, document, family, phase, issues>>

Write ==
  /\ phase = "writing"
  /\ \E last \in IF \A t \in Types : derivedFrom[t] = Nothing THEN Lasts(EndOf(path))
                 ELSE {Dict(Bare(GRAMMAR["ServiceTemplate"]))} :
       document' = Along("ServiceTemplate", path, last)
  /\ phase' = "written"
  /\ UNCHANGED <<path, family, derivedFrom, issues>>

\* Read needs the version, to find a presenter, and looks into the imports, to
\* read the files they name.
ImportIssues(template, import) ==
  LET imports == FieldOf(template, "imports")
      Missing(raw) == Found(import, raw, FieldOf(import, "file")) # Fitting
  IN IF GetRaises(template, document, imports, FALSE) THEN {<<"Import", "list">>}
     ELSE {<<"Import", "file">> : raw \in {e \in ToSet(Elements(template, document, imports)) : Missing(e)}}

ReadIssues(template) ==
  IF ~IsDict(document) THEN {<<"not a dict">>}
  ELSE IF Found(template, document, FieldOf(template, "tosca_definitions_version")) # Fitting
    THEN {<<"presenter not found">>}
  ELSE ImportIssues(template, GRAMMAR["Import"])

Read ==
  /\ phase = "written"
  /\ issues' = ReadIssues(GRAMMAR["ServiceTemplate"])
  /\ phase' = "read"
  /\ UNCHANGED <<path, document, family, derivedFrom>>

\* An exception of the validation is reported by the chain.
ValidateDocument ==
  /\ phase = "read" /\ issues = {}
  /\ issues' = Validate("ServiceTemplate", document).issues \cup HierarchyIssues
  /\ phase' = "validated"
  /\ UNCHANGED <<path, document, family, derivedFrom>>

DeriveModel ==
  /\ phase = "validated" /\ issues = {}
  /\ phase' = "put"
  /\ UNCHANGED <<path, document, family, derivedFrom, issues>>

\* ParsingError: nothing is put.
Refuse ==
  /\ phase \in {"read", "validated"} /\ issues # {}
  /\ phase' = "refused"
  /\ UNCHANGED <<path, document, family, derivedFrom, issues>>

Next ==
  \/ Descend
  \/ \E t \in Types, name \in Names \ {Nothing} : Derive(t, name)
  \/ Write \/ Read \/ ValidateDocument \/ DeriveModel \/ Refuse

Spec == Init /\ [][Next]_vars

-----------------------------------------------------------------------------
(***************************************************************************)
(* What a conforming document is, by the grammar alone: every key is known *)
(* or allowed, what is required is there, and every value has the form of  *)
(* its field, all the way down.                                            *)
(***************************************************************************)
RECURSIVE Conforms(_, _)

FormOf(f, raw) ==
  CASE f.variant = "primitive" /\ f.of = "any" -> f.checked => raw = Fitting
    [] f.variant = "primitive" /\ f.of = "str" -> IsString(raw) /\ (f.checked => raw = Fitting)
    [] f.variant = "primitive" /\ f.of = "int" -> raw \in {Fitting, Scalar("number")}
    [] f.variant = "primitive" -> raw = Fitting
    [] f.variant = "primitive_list" /\ f.of = "any" ->
         IsList(raw) /\ ToSet(raw.list) \subseteq {Fitting}
    [] f.variant = "primitive_list" ->
         /\ IsList(raw) /\ IsInjective(raw.list)
         /\ \A e \in ToSet(raw.list) : IsString(e) /\ (f.checked => e = Fitting)
    [] f.variant = "primitive_dict" -> IsDict(raw)
    [] f.variant = "object" -> Conforms(f.of, raw)
    [] f.variant = "object_list" -> IsList(raw) /\ \A e \in ToSet(raw.list) : Conforms(f.of, e)
    [] f.variant = "object_dict" -> IsDict(raw) /\ \A k \in Keys(raw) : Conforms(f.of, raw.dict[k])
    [] f.variant = "sequenced_object_list" ->
         IsList(raw) /\ \A e \in ToSet(raw.list) :
           IsDict(e) /\ \E k \in Keys(e) : Keys(e) = {k} /\ Conforms(f.of, e.dict[k])
    [] OTHER -> TRUE

\* What is said of a key that is no field's name: an operation in an interface,
\* a string in the metadata.
RestConforms(class, raw) ==
  \E f \in ToSet(class.fields) :
    \/ f.variant = "object_dict_unknown_fields" /\ Conforms(f.of, raw)
    \/ f.variant = "primitive_dict_unknown_fields" /\ IsString(raw)

DictConforms(class, raw) ==
  /\ \A n \in Keys(raw) : IF n \in FieldNames(class) THEN FormOf(FieldOf(class, n), raw.dict[n])
                          ELSE RestConforms(class, raw.dict[n])
  /\ "copy" \notin Keys(raw) => Essential(class) \subseteq Keys(raw)
  /\ class.name = "RequirementAssignment" =>
       LET HasNode == "node" \in Keys(raw)
       IN ("node_filter" \in Keys(raw) => HasNode) /\ ("capability" \in Keys(raw) => ~HasNode)

PresentationConforms(class, raw) ==
  CASE class.kind = "text" -> IsString(raw)
    [] class.kind = "mapping" -> raw = List(<<Fitting, Fitting>>)
    [] class.kind = "value" -> TRUE
    [] IsDict(raw) -> DictConforms(class, raw)
    [] OTHER -> /\ class.short # "" /\ Essential(class) \subseteq {class.short}
                /\ FormOf(FieldOf(class, class.short), raw)

Conforms(name, raw) == PresentationConforms(GRAMMAR[name], raw)

\* The hierarchy as it is written: every line of parents ends at a type without
\* one, over types that exist.
HierarchyIsWritten ==
  /\ \A t \in Types : Parent(t) \in Types \cup {Nothing}
  /\ \A some \in SUBSET Types \ {{}} : \E t \in some : Parent(t) \notin some

-----------------------------------------------------------------------------
\* No fault of a document escapes: a template is put only when its document,
\* and every presentation in it at whatever depth and through every kind of
\* field, conforms to the grammar.  An exception that abandons the validation
\* half-way (Presentation._validate) must not let the rest through.
FaultIsReported ==
  phase = "put" =>
    /\ IsDict(document)
    /\ Conforms("ServiceTemplate", document)
    /\ document.dict["tosca_definitions_version"] = Fitting

\* The two copies of the climb through the parents agree with each other and
\* with what is written: what is put inherits along the parents it names
\* (derived_from_validator lets nothing else through), and until then no lookup
\* of inherited definitions goes round in a circle of types other than data
\* types (get_parent_presentation gives no parent on one).
HierarchyIsSound ==
  /\ phase = "put" => HierarchyIsWritten /\ \A t \in Types : ParentOf(t) = Parent(t)
  /\ family = "other" => InheritanceEnds
=============================================================================
