---------------------------- MODULE StatsSchemas ----------------------------
(***************************************************************************)
(* The Toolkit's schemas in crates/bg3-index/src/schema.rs, and what       *)
(* crates/bg3-ide/src/diagnostics.rs reports of a Stats file by them.      *)
(*                                                                         *)
(* A schema has an id, a name (a sequence of words), an export type, an    *)
(* object type, a category, and fields by name, each with the name that    *)
(* legacy files use for it (export), a type, an enumeration with its       *)
(* delimiter, bounds (low, high) and the kind of what it names (object);   *)
(* None where the Toolkit gives none.  A catalog maps ids to schemas.      *)
(*                                                                         *)
(* A value is empty, a word, a quoted string, a number (in halves), a      *)
(* uuid, a localization handle, a list of values, a call of a function or  *)
(* a prefix before another value: what the parser and the validation tell  *)
(* apart of a text.                                                        *)
(***************************************************************************)
EXTENDS Integers, SequencesExt

CONSTANTS
  None,
  LowerCase          \* of every word its lower case

-----------------------------------------------------------------------------
(* SchemaCatalog::merge_definitions and merge_enumerations read a file's   *)
(* elements from first to last; an attribute that is missing is None.      *)

Put(f, x, y) == [z \in DOMAIN f \cup {x} |-> IF z = x THEN y ELSE f[z]]
RejectedFile == [ok |-> FALSE, byId |-> <<>>, current |-> None]

MergeDefinition(c, e) ==
  CASE ~c.ok -> c
    [] c.ok /\ e.element = "open" ->
         IF None \in {e.values.id, e.values.name} THEN RejectedFile
         ELSE [c EXCEPT !.current = [e.values EXCEPT !.fields = <<>>]]
    [] c.ok /\ e.element = "field" ->
         IF e.values.name = None \/ c.current = None THEN RejectedFile
         ELSE [c EXCEPT !.current = [@ EXCEPT !.fields = Put(@, e.values.name, e.values)]]
    [] c.ok /\ e.element = "close" ->
         IF c.current = None THEN RejectedFile
         ELSE [c EXCEPT !.byId = Put(@, c.current.id, c.current), !.current = None]
    [] OTHER -> c
MergeDefinitions(catalog, elements) ==
  FoldLeft(MergeDefinition, [ok |-> TRUE, byId |-> catalog, current |-> None], elements)

ValuesOf(enumerations, name) == IF name \in DOMAIN enumerations THEN enumerations[name] ELSE {}
MergeEnumeration(c, e) ==
  CASE e.element = "open"  -> [c EXCEPT !.current = e.name]
    [] e.element = "item"  ->
         IF None \in {c.current, e.name} THEN c
         ELSE [c EXCEPT !.values = Put(@, c.current, ValuesOf(@, c.current) \cup {e.name})]
    [] e.element = "close" -> [c EXCEPT !.current = None]
    [] OTHER               -> c
MergeEnumerations(enumerations, elements) ==
  FoldLeft(MergeEnumeration, [values |-> enumerations, current |-> None], elements).values

-----------------------------------------------------------------------------
(* Which schemas a legacy entry may have: by its kind, the file it is in,  *)
(* and the field that selects a subtype.                                   *)

SameName(s, t) == Len(s) = Len(t) /\ \A i \in DOMAIN s : LowerCase[s[i]] = LowerCase[t[i]]
Named(schemas, name) == {d \in schemas : SameName(d.name, name)}

OfKind(catalog, kind) ==
  {d \in {catalog[id] : id \in DOMAIN catalog} : kind \in {d.export, d.category} \/ d.name = <<kind>>}

IsSchemaDiscriminator(kind, field) ==
  <<kind, field>> \in {<<"StatusData", "StatusType">>, <<"SpellData", "SpellType">>}

(* discriminator: the subtypes that the entry's field selects, if it has   *)
(* such a field.                                                           *)
Selecting(kind, fields) == {f \in DOMAIN fields : IsSchemaDiscriminator(kind, f)}
Word(value) == IF value.is = "word" THEN value.name ELSE ""
SelectedName(field, value) == <<IF field = "StatusType" THEN "Status_" ELSE "Spell_", Word(value)>>
SelectedBy(candidates, kind, fields) ==
  UNION {Named(candidates, SelectedName(f, fields[f])) : f \in Selecting(kind, fields)}

(* SchemaCatalog::infer_legacy; the stem of the path is a name.            *)
Inferred(candidates, byPath, byField) ==
  CASE byPath = {} /\ byField = {}  -> candidates
    [] byPath \cap byField # {}     -> byPath \cap byField
    [] OTHER                        -> byPath \cup byField
InferFrom(candidates, stem, kind, fields) ==
  Inferred(candidates, Named(candidates, stem), SelectedBy(candidates, kind, fields))
InferLegacy(catalog, stem, kind, fields) == InferFrom(OfKind(catalog, kind), stem, kind, fields)

(* SchemaCatalog::discriminator_error                                      *)
FirstById(schemas) == CHOOSE s \in schemas : \A t \in schemas : s.id <= t.id
ConflictUnreported(byPath, selected) == selected = {}
IsConflict(byPath, selected) ==
  \/ selected = {}
  \/ byPath # {} /\ FirstById(byPath) \notin selected
DiscriminatorError(catalog, stem, kind, fields) ==
  /\ Selecting(kind, fields) # {}
  /\ IsConflict(Named(OfKind(catalog, kind), stem), SelectedBy(OfKind(catalog, kind), kind, fields))

-----------------------------------------------------------------------------
(* field_value_error and validate_number.                                  *)

Number(n) == [is |-> "number", n |-> n]
IsWhole(n) == n % 2 = 0
Parses(bound, type) == bound # None /\ (type = "integer" => IsWhole(bound))

(* A list by another delimiter is one member, which no enumeration has.    *)
Members(field, value) ==
  IF field.type = "enumerationlist" /\ value.is = "list" /\ value.delimiter = field.delimiter
  THEN {v \in ToSet(value.parts) : v.is # "empty"} ELSE {value}
IsMember(value, values) == value.is = "word" /\ value.name \in values

NumberError(field, value) ==
  CASE value.is # "number" -> "invalid-number"
    [] value.is = "number" /\ field.type = "integer" /\ ~IsWhole(value.n) -> "invalid-number"
    [] OTHER -> IF \/ Parses(field.low, field.type) /\ value.n < field.low
                   \/ Parses(field.high, field.type) /\ value.n > field.high
                THEN "number-out-of-range" ELSE "valid"
IsBoolean(value) ==
  \/ (value.is = "word" /\ LowerCase[value.name] \in {"true", "false", "yes", "no"})
  \/ (value.is = "number" /\ value.n \in {0, 2})
TypeError(field, value) ==
  CASE field.type = "boolean" /\ ~IsBoolean(value) -> "invalid-boolean"
    [] field.type \in {"integer", "float"} -> NumberError(field, value)
    [] field.type = "uuid" /\ value.is # "uuid" -> "invalid-uuid"
    [] field.type = "translatedstring" /\ value.is # "handle" -> "invalid-translated-string"
    [] OTHER -> "valid"
FieldValueError(enumerations, field, value) ==
  CASE value.is = "empty" -> "valid"
    [] /\ value.is # "empty" /\ field.enumeration \in DOMAIN enumerations
       /\ \E v \in Members(field, value) : ~IsMember(v, enumerations[field.enumeration]) -> "invalid-enum"
    [] OTHER -> TypeError(field, value)

(* SchemaDefinition::field: by its Toolkit name, or else its legacy name.  *)
FieldNamed(schema, name) ==
  IF name \in DOMAIN schema.fields THEN {schema.fields[name]}
  ELSE LET exported == {f \in DOMAIN schema.fields : schema.fields[f].export = name}
       IN  IF exported = {} THEN {} ELSE {schema.fields[CHOOSE f \in exported : TRUE]}

(* validate_fields: a value is wrong if every schema that has its field    *)
(* rejects it; what is reported is what the first of them says.            *)
Report(field, code) == [field |-> field, code |-> code]
Verdict(enumerations, schemas, name, value) ==
  LET Error(s) == FieldValueError(enumerations, CHOOSE f \in FieldNamed(s, name) : TRUE, value)
      having == {s \in schemas : FieldNamed(s, name) # {}}
  IN  CASE having = {} -> {Report(name, "unknown-field")}
        [] having # {} /\ \A s \in having : Error(s) # "valid" -> {Report(name, Error(FirstById(having)))}
        [] OTHER -> {}
ValidateFields(enumerations, kind, fields, schemas) ==
  UNION {Verdict(enumerations, schemas, f, fields[f]) : f \in DOMAIN fields \ Selecting(kind, fields)}

(* schemas_for_definition: an object of the Toolkit names its schema.      *)
SchemasFor(catalog, stem, d) ==
  IF d.schema # None THEN {catalog[id] : id \in {d.schema} \cap DOMAIN catalog}
  ELSE InferLegacy(catalog, stem, d.kind, d.fields)

DiagnosticsBy(catalog, enumerations, stem, d, schemas) ==
  IF schemas = {} THEN {Report("type", "unknown-entry-type")}
  ELSE ValidateFields(enumerations, d.kind, d.fields, schemas)
       \cup (IF DiscriminatorError(catalog, stem, d.kind, d.fields)
             THEN {Report(f, "invalid-schema-discriminator") : f \in Selecting(d.kind, d.fields)} ELSE {})
DefinitionDiagnostics(catalog, enumerations, stem, d) ==
  DiagnosticsBy(catalog, enumerations, stem, d, SchemasFor(catalog, stem, d))

-----------------------------------------------------------------------------
(* WorkspaceSnapshot::diagnostics: names that resolve to nothing, of kinds *)
(* of which the workspace has every declaration.                           *)

Diagnosable ==
  {"SpellData", "StatusData", "PassiveData", "InterruptData", "ActionResource", "Localization"}

(* `unresolved' is the severity that is configured, None if it is off.     *)
ReferenceDiagnostics(references, unresolved, complete, declared) ==
  LET missing == {r \in references : /\ unresolved # None /\ r.kind # None
                                     /\ r.kind \in complete /\ <<r.kind, r.name>> \notin declared}
  IN  {Report(r.name, "missing-parent") : r \in {r \in missing : r.context = "using"}}
      \cup {Report(r.name, "unresolved-reference") :
              r \in {r \in missing : r.context # "using" /\ r.kind \in Diagnosable}}

-----------------------------------------------------------------------------
(* What selects a schema selects it, or is reported; an entry that nothing *)
(* is reported of has the schemas that all it says allows.                 *)
SelectsOrReports(catalog, stem, kind, fields) ==
  LET inferred == InferLegacy(catalog, stem, kind, fields)
      allowed == {d \in OfKind(catalog, kind) :
                    /\ \A f \in Selecting(kind, fields) : SameName(d.name, SelectedName(f, fields[f]))
                    /\ Named(OfKind(catalog, kind), stem) # {} => SameName(d.name, stem)}
  IN  Selecting(kind, fields) # {} /\ OfKind(catalog, kind) # {} =>
        DiscriminatorError(catalog, stem, kind, fields) <=> inferred # allowed

(* A field is reported exactly if it would be reported whichever of the    *)
(* schemas were known to be the one, so that a selection that is not       *)
(* itself reported takes no report away.                                   *)
InError(enumerations, kind, fields, schemas) ==
  {r.field : r \in ValidateFields(enumerations, kind, fields, schemas)}
ErrorsAreCertain(enumerations, kind, fields, schemas) ==
  schemas # {} =>
    InError(enumerations, kind, fields, schemas) =
      {f \in DOMAIN fields : \A s \in schemas : f \in InError(enumerations, kind, fields, {s})}
(* An object that names its schema is reported what an entry is that may   *)
(* have that schema.                                                       *)
ObjectsAreStricter(catalog, enumerations, stem, kind, fields, schemas) ==
  LET Reported(schema) ==
        {r.field : r \in DefinitionDiagnostics(catalog, enumerations, stem,
                            [kind |-> kind, fields |-> fields, schema |-> schema])}
  IN  \A s \in schemas : Reported(None) \subseteq Reported(s.id)
Unselected(kind, fields) == [f \in DOMAIN fields \ Selecting(kind, fields) |-> fields[f]]
NarrowingIsMonotone(catalog, enumerations, stem, kind, fields) ==
  ~DiscriminatorError(catalog, stem, kind, fields) =>
    InError(enumerations, kind, Unselected(kind, fields),
            InferLegacy(catalog, stem, kind, Unselected(kind, fields)))
      \subseteq InError(enumerations, kind, fields, InferLegacy(catalog, stem, kind, fields))

(* Of well-formed files the order and repetition do not decide which       *)
(* values an enumeration has, and a later schema replaces an earlier one.  *)
EnumerationsAccumulate(first, second) ==
  LET both == MergeEnumerations(MergeEnumerations(<<>>, first), second) IN
  /\ both = MergeEnumerations(MergeEnumerations(<<>>, second), first)
  /\ both = MergeEnumerations(both, first)
LaterSchemasReplace(first, second) ==
  LET before == MergeDefinitions(<<>>, first)
      after == MergeDefinitions(before.byId, second)
      alone == MergeDefinitions(<<>>, second)
  IN  before.ok /\ alone.ok =>
        /\ after.ok
        /\ DOMAIN after.byId = DOMAIN before.byId \cup DOMAIN alone.byId
        /\ \A id \in DOMAIN after.byId :
             after.byId[id] = IF id \in DOMAIN alone.byId THEN alone.byId[id] ELSE before.byId[id]
=============================================================================
