---------------------------- MODULE Presentation ----------------------------
(***************************************************************************)
(* The validation of a raw document against the grammar, as                *)
(* parser/presentation does it: every presentation checks its form and the *)
(* names of its fields, then validates field by field, each field reading  *)
(* its value and validating the presentations in it.  A value that cannot  *)
(* be read is reported where the default validation reads it, and raised   *)
(* where anything else does, which abandons the rest of the document.      *)
(*                                                                         *)
(* A raw value is a scalar, a list or a dict.  A scalar is "fitting" (the  *)
(* right type, an existing name, a well-formed version, ...: it suits the  *)
(* field it is given to and the presentation around it), a "word" that is  *)
(* a string and no more, a "number", a "negative" one, or "null".          *)
(***************************************************************************)
EXTENDS Grammar, FiniteSets, SequencesExt

SCALARS == {"fitting", "word", "number", "negative", "null"}

Scalar(s) == [scalar |-> s]
List(elements) == [list |-> elements]
Dict(entries) == [dict |-> entries]

Fitting == Scalar("fitting")
Absent == [absent |-> TRUE]

IsList(raw) == "list" \in DOMAIN raw
IsDict(raw) == "dict" \in DOMAIN raw
IsString(raw) == raw \in {Fitting, Scalar("word")}

Keys(raw) == IF IsDict(raw) THEN DOMAIN raw.dict ELSE {}

\* A class is the record that the grammar has of it.
FieldNames(class) == {f.name : f \in ToSet(class.fields)}

FieldOf(class, name) == CHOOSE f \in ToSet(class.fields) : f.name = name

IsRest(f) == f.variant \in {"object_dict_unknown_fields", "primitive_dict_unknown_fields"}

-----------------------------------------------------------------------------
\* Outcomes: the issues reported so far, and whether an exception is on its way
\* to the consumer chain.  An equal issue is not reported twice.

Quiet == [issues |-> {}, raised |-> FALSE]
Report(issue) == [issues |-> {issue}, raised |-> FALSE]
Raise(issue) == [issues |-> {issue}, raised |-> TRUE]

ReportIf(condition, issue) == IF condition THEN Report(issue) ELSE Quiet

Then(first, second) ==
  IF first.raised THEN first
  ELSE [issues |-> first.issues \cup second.issues, raised |-> second.raised]

-----------------------------------------------------------------------------
\* Reading a field

\* A template that copies another one reads its fields from the other's raw
\* dict, overlaid with its own; of what it gains, only the fields that it must
\* have matter here.
Completed(class, raw) ==
  IF "copy" \in FieldNames(class) /\ "copy" \in Keys(raw) /\ raw.dict["copy"] = Fitting
    THEN Dict([n \in Keys(raw) \cup {n \in FieldNames(class) : FieldOf(class, n).required} |->
                 IF n \in Keys(raw) THEN raw.dict[n] ELSE Fitting])
    ELSE raw

\* What the field finds: its entry, its default, or the raw value itself when
\* this is the short form of the field.
Found(class, raw, f) ==
  LET whole == Completed(class, raw)
  IN IF IsDict(whole)
       THEN IF f.name \in Keys(whole) THEN whole.dict[f.name]
            ELSE IF f.default THEN Fitting ELSE Absent
       ELSE IF f.name = class.short THEN raw ELSE Absent

\* Whether a found value is one the getter of the field can return.  Without a
\* context (strict is FALSE) a primitive is coerced rather than checked.
PrimitiveReadable(f, value, strict) ==
  CASE f.of = "any" -> TRUE
    [] f.of = "str" -> IsString(value) \/ ~strict
    [] f.of = "bool" -> value = Fitting \/ ~strict
    [] f.of = "int" -> value \in {Fitting, Scalar("number"), Scalar("negative")}
    [] f.of = "range" -> value \in {Fitting, Scalar("negative")}
    [] f.of \in {"version", "status"} -> value = Fitting

PrimitivesReadable(f, value, strict) ==
  /\ IsList(value)
  /\ f.of = "str" => /\ strict => \A i \in DOMAIN value.list : IsString(value.list[i])
                     /\ IsInjective(value.list)

SequenceReadable(value) ==
  IsList(value) /\ \A i \in DOMAIN value.list :
                     IsDict(value.list[i]) /\ Cardinality(Keys(value.list[i])) = 1

Readable(f, value, strict) ==
  CASE f.variant = "primitive" -> PrimitiveReadable(f, value, strict)
    [] f.variant = "primitive_list" -> PrimitivesReadable(f, value, strict)
    [] f.variant \in {"primitive_dict", "object_dict"} -> IsDict(value)
    [] f.variant = "object_list" -> IsList(value)
    [] f.variant = "sequenced_object_list" -> SequenceReadable(value)
    [] OTHER -> TRUE

\* Whether the getter raises.  Looking for the template to copy already fails
\* in a template that is no dict.
GetRaises(class, raw, f, strict) ==
  \/ "copy" \in FieldNames(class) /\ ~IsDict(raw)
  \/ IF f.variant = "primitive_dict_unknown_fields"
       THEN \E k \in Keys(raw) \ FieldNames(class) : strict /\ ~IsString(raw.dict[k])
       ELSE LET value == Found(class, raw, f)
            IN ~IsRest(f) /\ IF value = Absent THEN f.required ELSE ~Readable(f, value, strict)

\* As Elements, but leaving the sequenced lists out.
Elements_NotSequenced(class, raw, f) ==
  LET value == Found(class, raw, f)
      Entries(dict, keys) == [i \in 1..Cardinality(keys) |-> dict[SetToSeq(keys)[i]]]
  IN CASE f.variant = "object_dict_unknown_fields" ->
            IF IsDict(raw) THEN Entries(raw.dict, Keys(raw) \ FieldNames(class)) ELSE <<>>
       [] value = Absent -> <<>>
       [] f.variant = "object" -> <<value>>
       [] f.variant = "object_list" -> value.list
       [] f.variant = "object_dict" -> Entries(value.dict, Keys(value))
       [] OTHER -> <<>>

\* The raw values of the presentations in a field that was read.
Elements(class, raw, f) ==
  LET value == Found(class, raw, f)
      Entries(dict, keys) == [i \in 1..Cardinality(keys) |-> dict[SetToSeq(keys)[i]]]
  IN CASE f.variant = "object_dict_unknown_fields" ->
            IF IsDict(raw) THEN Entries(raw.dict, Keys(raw) \ FieldNames(class)) ELSE <<>>
       [] value = Absent -> <<>>
       [] f.variant = "object" -> <<value>>
       [] f.variant = "object_list" -> value.list
       [] f.variant = "object_dict" -> Entries(value.dict, Keys(value))
       [] f.variant = "sequenced_object_list" ->
            [i \in DOMAIN value.list |->
               value.list[i].dict[CHOOSE k \in Keys(value.list[i]) : TRUE]]
       [] OTHER -> <<>>

-----------------------------------------------------------------------------
\* Validating a presentation

\* Only the classes with a short form may be given something that is no dict.
ValidateNoShortForm(class, raw) ==
  ReportIf(class.short = "" /\ ~IsDict(raw), <<class.name, "short form">>)

ValidateNoUnknownFields(class, raw) ==
  ReportIf(~class.open /\ Keys(raw) \ FieldNames(class) # {}, <<class.name, "unknown field">>)

\* What the validator of a field looks at once it has the value again: the name
\* must exist, the value suit its data type, the amount not be negative; a
\* requirement that names a node type may not name a capability type too, and
\* one with a node filter has to name a node type.
ValueIsRight(class, raw, f, value) ==
  LET node == Found(class, raw, FieldOf(class, "node"))
  IN CASE value = Absent -> TRUE
       [] class.name = "RequirementAssignment" /\ f.name = "capability" -> value = Fitting /\ node # Fitting
       [] class.name = "RequirementAssignment" /\ f.name = "node_filter" -> node = Fitting
       [] f.of = "int" -> value # Scalar("negative")
       [] f.variant = "primitive" -> value = Fitting
       [] f.variant = "primitive_list" -> \A i \in DOMAIN value.list : value.list[i] = Fitting
       [] OTHER -> TRUE

\* The fields that a validator reads besides its own: the type, always for an
\* entry schema and for the others once they have something to compare with it.
ReadsType(class, raw, f) ==
  /\ "type" \in FieldNames(class)
  /\ \/ f.name = "entry_schema"
     \/ /\ f.name \in {"default", "value", "members", "targets"}
        /\ Found(class, raw, f) \notin {Absent, List(<<>>)}

CheckAgain(class, raw, f) ==
  IF ~f.checked THEN Quiet
  ELSE IF GetRaises(class, raw, f, FALSE) THEN Raise(<<class.name, f.name>>)
  ELSE IF ReadsType(class, raw, f) /\ GetRaises(class, raw, FieldOf(class, "type"), FALSE)
    THEN Raise(<<class.name, "type">>)
  ELSE ReportIf(~ValueIsRight(class, raw, f, Found(class, raw, f)), <<class.name, f.name, "check">>)

\* A presentation that keeps its raw value: a description is a string, a
\* mapping a list of two names.
ValidateAsIs(class, raw) ==
  ReportIf(\/ class.kind = "text" /\ ~IsString(raw)
           \/ class.kind = "mapping" /\ raw # List(<<Fitting, Fitting>>),
           <<class.name, "value">>)

\* The fields that the class's own _validate reads again, after validation.
ReadAgain(class, raw) ==
  LET again == SelectSeq(class.fields, LAMBDA f : f.name \in class.reads)
      Read(r, f) ==
        Then(r, IF GetRaises(class, raw, f, FALSE) THEN Raise(<<class.name, f.name>>)
                ELSE ReportIf(f.of = "range" /\ Found(class, raw, f) = Scalar("negative"),
                              <<class.name, f.name, "negative">>))
  IN FoldLeft(Read, Quiet, again)

RECURSIVE Validate(_, _)

\* The default validation of a field: what cannot be read is reported, what was
\* read is validated.
DefaultValidate(class, raw, f) ==
  IF GetRaises(class, raw, f, TRUE) THEN Report(<<class.name, f.name>>)
  ELSE FoldLeft(LAMBDA r, element : Then(r, Validate(f.of, element)), Quiet, Elements(class, raw, f))

ValidateKnownFields(class, raw) ==
  FoldLeft(LAMBDA r, f : Then(Then(r, DefaultValidate(class, raw, f)), CheckAgain(class, raw, f)),
           Quiet, class.fields)

ValidatePresentation(class, raw) ==
  IF class.kind # "fields" THEN ValidateAsIs(class, raw)
  ELSE Then(Then(Then(ValidateNoShortForm(class, raw), ValidateNoUnknownFields(class, raw)),
                 ValidateKnownFields(class, raw)),
            ReadAgain(class, raw))

Validate(name, raw) == ValidatePresentation(GRAMMAR[name], raw)
=============================================================================
