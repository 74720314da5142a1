----------------------------- MODULE StatsFiles -----------------------------
(***************************************************************************)
(* The Stats, Toolkit, LSX and localization readers of                     *)
(* crates/bg3-index/src/parser.rs: what a file declares and refers to.     *)
(*                                                                         *)
(* A legacy file is a sequence of entries and of named blocks; an entry is *)
(* a sequence of type, using and data clauses.  A Toolkit or LSX file is a *)
(* sequence of XML elements, and the text of a localization a sequence of  *)
(* tokens.  (The grammars and the XML reader are external.)                *)
(***************************************************************************)
EXTENDS StatsSchemas

CONSTANT Functions    \* of each function of the game its forms (catalog.rs)

Reference(kind, name, context) == [kind |-> kind, name |-> name, context |-> context]

-----------------------------------------------------------------------------
(* FunctionSpec::form_for_call                                             *)
Selectors == {"SWAP", "SELF", "OWNER", "SOURCE", "TARGET", "CASTER", "CAUSE"}
FormForCall(spec, arguments) ==
  IF /\ spec.target # None
     /\ \/ Len(arguments) >= spec.least
        \/ Len(arguments) > 0 /\ arguments[1].is \in {"word", "string"} /\ arguments[1].name \in Selectors
  THEN spec.target ELSE spec.default

(* call_context: what the nearest call makes of an argument.  Nothing, if  *)
(* the call is unknown or the parameter is an expression itself; else its  *)
(* kind, and what has no kind is no reference.  A blank argument is no     *)
(* node of the tree, so the others are counted without it.                 *)
NoContext == [typed |-> FALSE, kind |-> None]
Filled(arguments) == SelectSeq(arguments, LAMBDA v : v.is # "empty")
CallContext(call, i) ==
  IF call.name \notin DOMAIN Functions THEN NoContext
  ELSE LET form == FormForCall(Functions[call.name], Filled(call.parts))
           index == Len(Filled(SubSeq(call.parts, 1, i)))
       IN  IF index \in DOMAIN form => form[index].expression THEN NoContext
           ELSE [typed |-> TRUE, kind |-> form[index].kind]

(* field_kind and is_lsx_value_field of catalog.rs                         *)
FieldKind(field) ==
  CASE field \in {"ContainerSpells", "Spells"} -> "SpellData"
    [] field = "InterruptPrototype" -> "InterruptData"
    [] field \in {"Passives", "PassivesAdded", "PassivesOnEquip", "PassivesRemoved"} -> "PassiveData"
    [] field \in {"PersonalStatusImmunities", "StatusImmunities", "StatusInInventory", "StatusOnEquip"} -> "StatusData"
    [] OTHER -> None
IsLsxValueField(field) ==
  FieldKind(field) # None \/ field \in {"Boosts", "BoostsOnEquip", "BoostsOnUnequip", "Selectors"}

(* named_target; a status group's name starts with SG_.                    *)
NamedTarget(value, kind) ==
  IF kind = "StatusData" /\ value.group THEN "StatusGroup" ELSE kind

(* parse_value                                                             *)
NameReferences(value, field, context) ==
  IF context.typed /\ context.kind = None THEN {}
  ELSE {Reference(NamedTarget(value, IF context.typed THEN context.kind ELSE FieldKind(field)), value.name, field)}
RECURSIVE References(_, _, _)
References(value, field, context) ==
  CASE value.is \in {"word", "string"} -> NameReferences(value, field, context)
    [] value.is = "uuid"   -> {Reference(None, value.name, "uuid")}
    [] value.is = "handle" -> {Reference("Localization", value.name, "localization")}
    [] value.is \in {"list", "prefixed"} ->
         UNION {References(v, field, context) : v \in ToSet(value.parts)}
    [] value.is = "call" ->
         {Reference("ThothFunction", value.name, "function-call") : name \in {value.name} \ DOMAIN Functions}
         \cup UNION {References(value.parts[i], field, CallContext(value, i)) : i \in DOMAIN value.parts}
    [] OTHER -> {}
ValueReferences(value, field) == References(value, field, NoContext)

(* discover_functions and function_arity: the outermost calls; arguments   *)
(* that are all blank are none.                                            *)
Arity(call) == IF \A i \in DOMAIN call.parts : call.parts[i].is = "empty" THEN 0 ELSE Len(call.parts)
RECURSIVE OuterCalls(_)
OuterCalls(value) ==
  CASE value.is = "call" -> <<value>>
    [] value.is \in {"list", "prefixed"} -> FoldLeft(LAMBDA found, v : found \o OuterCalls(v), <<>>, value.parts)
    [] OTHER -> <<>>
Least(a, b) == IF a < b THEN a ELSE b
Most(a, b) == IF a < b THEN b ELSE a
Observe(observed, call) ==
  LET arity == Arity(call) IN
  IF call.name \notin DOMAIN observed
  THEN Put(observed, call.name, [count |-> 1, least |-> arity, most |-> arity])
  ELSE [observed EXCEPT ![call.name] =
          [count |-> @.count + 1, least |-> Least(@.least, arity), most |-> Most(@.most, arity)]]
DiscoverFunctions(value) == FoldLeft(Observe, <<>>, OuterCalls(value))

(* merge_functions                                                         *)
MergeFunctions(observed, functions) ==
  [name \in DOMAIN observed \cup DOMAIN functions |->
     IF name \notin DOMAIN functions THEN observed[name]
     ELSE IF name \notin DOMAIN observed THEN functions[name]
     ELSE [count |-> observed[name].count + functions[name].count,
           least |-> Least(observed[name].least, functions[name].least),
           most |-> Most(observed[name].most, functions[name].most)]]

-----------------------------------------------------------------------------
(* parse_stat_entry: a `using' has the kind that the entry has so far, and *)
(* the last value of a field counts, although every value refers.          *)

Clause(clause, name, value) == [clause |-> clause, name |-> name, value |-> value]
NoEntry == [kind |-> None, parent |-> None, fields |-> <<>>, references |-> {}, observed |-> <<>>, issues |-> {}]
ParseClause(entry, c) ==
  CASE c.clause = "type"  -> [entry EXCEPT !.kind = c.name]
    [] c.clause = "using" ->
         [entry EXCEPT !.parent = c.name, !.references = @ \cup {Reference(entry.kind, c.name, "using")}]
    [] c.clause = "data"  ->
         [entry EXCEPT
            !.fields = Put(@, c.name, c.value),
            !.issues = @ \cup {Report(f, "duplicate-field") : f \in {c.name} \cap DOMAIN entry.fields},
            !.references = @ \cup ValueReferences(c.value, c.name),
            !.observed = MergeFunctions(@, DiscoverFunctions(c.value))]

(* apply_schema_reference_kinds, by the Toolkit's names of the fields.     *)
SchemaKinds(schemas, field) ==
  {s.fields[field].object : s \in {s \in schemas : field \in DOMAIN s.fields}} \ {None}
AgreedKind(kinds) == IF Cardinality(kinds) = 1 THEN CHOOSE k \in kinds : TRUE ELSE None
WithKind(r, schemas) ==
  IF r.kind = None /\ r.context \notin {"using", "uuid"}
  THEN [r EXCEPT !.kind = AgreedKind(SchemaKinds(schemas, r.context))] ELSE r
ApplySchemaKinds(references, schemas) == {WithKind(r, schemas) : r \in references}

Typed(entry) == [entry EXCEPT !.kind = IF @ = None THEN "StatEntry" ELSE @]
Resolved(catalog, stem, entry) ==
  [entry EXCEPT !.references = ApplySchemaKinds(@, InferLegacy(catalog, stem, entry.kind, entry.fields))]
ParseEntry(catalog, stem, clauses) ==
  Resolved(catalog, stem, Typed(FoldLeft(ParseClause, NoEntry, clauses)))

Declared(kind, name, fields, parent, schema) ==
  [kind |-> kind, name |-> name, aliases |-> <<>>, fields |-> fields, parent |-> parent, schema |-> schema]

(* parse_named_block                                                       *)
BlockKind(kind) ==
  CASE kind = "treasure_table"  -> "TreasureTable"
    [] kind = "equipment_entry" -> "Equipment"
    [] kind = "spellset"        -> "SpellSet"
    [] kind = "itemgroup"       -> "ItemGroup"
    [] kind = "namegroup"       -> "NameGroup"
    [] OTHER                    -> kind

(* parse_plain                                                             *)
NoFile == [definitions |-> <<>>, references |-> {}, observed |-> <<>>, issues |-> {}]
WithEntry(file, name, entry) ==
  [definitions |-> Append(file.definitions, Declared(entry.kind, name, entry.fields, entry.parent, None)),
   references |-> file.references \cup entry.references,
   observed |-> MergeFunctions(file.observed, entry.observed),
   issues |-> file.issues \cup entry.issues]
ParsePlain(catalog, stem, statements) ==
  LET Parse(file, s) ==
        IF s.kind = "stat_entry" THEN WithEntry(file, s.name, ParseEntry(catalog, stem, s.clauses))
        ELSE [file EXCEPT !.definitions = Append(@, Declared(BlockKind(s.kind), s.name, <<>>, None, None))]
  IN  FoldLeft(Parse, NoFile, statements)

-----------------------------------------------------------------------------
(* Records of XML: fields by name, the last value of each.                 *)

NameFields == <<"Name", "NameFS", "FSName", "RaceName", "TechnicalName">>
FieldAliases(fields) ==
  LET Given(f) == f \in DOMAIN fields /\ fields[f].is # "empty"
      named == SelectSeq(NameFields, Given)
  IN  [i \in DOMAIN named |-> fields[named[i]].name]
UuidIn(fields, f) == IF f \in DOMAIN fields /\ fields[f].is = "uuid" THEN fields[f].name ELSE None

(* definition_from_xml_record                                              *)
RecordName(aliases, uuid) ==
  CASE aliases # <<>> -> aliases[1] [] aliases = <<>> /\ uuid # None -> uuid [] OTHER -> "<anonymous>"
Spelled(name) == FoldLeft(LAMBDA s, word : s \o word, "", name)
KindOf(schema) ==
  LET kinds == SelectSeq(<<schema.export, schema.object, schema.category>>, LAMBDA k : k # None)
  IN  IF kinds = <<>> THEN Spelled(schema.name) ELSE kinds[1]
SchemaKind(catalog, schema) == IF schema \in DOMAIN catalog THEN KindOf(catalog[schema]) ELSE "Resource"
DefinitionFromXmlRecord(catalog, schema, fields) ==
  [kind |-> SchemaKind(catalog, schema), name |-> RecordName(FieldAliases(fields), UuidIn(fields, "UUID")),
   aliases |-> FieldAliases(fields), fields |-> fields,
   parent |-> IF "Using" \in DOMAIN fields THEN Word(fields["Using"]) ELSE None, schema |-> schema]

(* definition_from_resource: nothing without an identity that parses, and  *)
(* nothing that only has a UUID and no name.                               *)
DefinitionFromResource(resource) ==
  LET fields == resource.fields
      uuid == UuidIn(fields, IF "MapKey" \in DOMAIN fields THEN "MapKey" ELSE "UUID")
      aliases == FieldAliases(fields)
  IN  IF uuid = None \/ ("MapKey" \notin DOMAIN fields /\ aliases = <<>>) THEN <<>>
      ELSE << [kind |-> IF "Type" \in DOMAIN fields THEN Word(fields["Type"]) ELSE resource.kind,
               name |-> RecordName(aliases, uuid), aliases |-> aliases, fields |-> fields,
               parent |-> None, schema |-> None] >>

Refers(file, d, fields) ==
  [file EXCEPT
     !.definitions = Append(@, d),
     !.references = @ \cup UNION {ValueReferences(d.fields[f], f) : f \in fields},
     !.observed = FoldSet(LAMBDA f, found : MergeFunctions(found, DiscoverFunctions(d.fields[f])), @, fields)]

(* parse_toolkit: an object has the schema that the file named last.       *)
EndObject(state, d) == [Refers(state, d, DOMAIN d.fields) EXCEPT !.open = FALSE]
ParseObject(catalog, state, e) ==
  CASE e.element = "stats"  -> [state EXCEPT !.schema = e.id]
    [] e.element = "object" -> [state EXCEPT !.open = TRUE, !.fields = <<>>]
    [] e.element = "field" /\ state.open -> [state EXCEPT !.fields = Put(@, e.id, e.value)]
    [] e.element = "end" /\ state.open ->
         EndObject(state, DefinitionFromXmlRecord(catalog, state.schema, state.fields))
    [] OTHER -> state
Started == [open |-> FALSE, schema |-> None, fields |-> <<>>] @@ NoFile
ParseToolkit(catalog, elements) ==
  FoldLeft(LAMBDA state, e : ParseObject(catalog, state, e), Started, elements)

(* parse_lsx: an attribute belongs to the innermost node that is open; a   *)
(* translated string refers at once, other values when their node ends and *)
(* declares something.                                                     *)
PutAttribute(stack, e) == [stack EXCEPT ![Len(stack)].fields = Put(@, e.id, e.value)]
EndNode(state, declared) ==
  LET closed == [state EXCEPT !.stack = Front(@)] IN
  IF declared = <<>> THEN closed
  ELSE Refers(closed, declared[1], {f \in DOMAIN declared[1].fields : IsLsxValueField(f)})
ParseNode(state, e) ==
  CASE e.element = "node" -> [state EXCEPT !.stack = Append(@, [kind |-> e.id, fields |-> <<>>])]
    [] e.element = "attribute" /\ state.stack # <<>> ->
         [state EXCEPT !.stack = PutAttribute(@, e),
                       !.references = @ \cup (IF e.translated THEN ValueReferences(e.value, e.id) ELSE {})]
    [] e.element = "end" /\ state.stack # <<>> -> EndNode(state, DefinitionFromResource(Last(state.stack)))
    [] OTHER -> state
ParseLsx(elements) == FoldLeft(ParseNode, [stack |-> <<>>] @@ NoFile, elements)

-----------------------------------------------------------------------------
(* localization_tooltip_references: from a tag's name to its closing angle *)
(* bracket outside of quotes, in text as it is encoded; a tag that does    *)
(* not end ends the search.                                                *)

Quotes == {"'", "\""}
Blank == " "
Close == ">"
Words == {"Tooltip", "Type", "x", "y", "Spell"}

(* localization_tag_end                                                    *)
RECURSIVE TagEnd(_, _, _)
TagEnd(s, i, quote) ==
  CASE i > Len(s) -> 0
    [] i <= Len(s) /\ quote = None -> IF s[i] = Close THEN i ELSE TagEnd(s, i + 1, IF s[i] \in Quotes THEN s[i] ELSE None)
    [] OTHER -> TagEnd(s, i + 1, IF s[i] = quote THEN None ELSE quote)

(* localization_tag_attributes                                             *)
RECURSIVE Skip(_, _, _)
Skip(s, i, C) == IF i <= Len(s) /\ s[i] \in C THEN Skip(s, i + 1, C) ELSE i
At(s, i, C) == i <= Len(s) /\ s[i] \in C
Until(s, i, quote) == LET ends == {j \in i .. Len(s) : s[j] = quote} IN
  IF ends = {} THEN 0 ELSE CHOOSE j \in ends : \A k \in ends : j <= k
RECURSIVE TagAttributes(_, _, _)
AfterEquals(s, name, i, found) ==
  IF ~At(s, i, Quotes) THEN TagAttributes(s, i, found)
  ELSE IF Until(s, i + 1, s[i]) = 0 THEN found
  ELSE TagAttributes(s, Until(s, i + 1, s[i]) + 1, Put(found, name, SubSeq(s, i + 1, Until(s, i + 1, s[i]) - 1)))
AfterName(s, name, i, found) ==
  IF ~At(s, i, {"="}) THEN TagAttributes(s, i, found) ELSE AfterEquals(s, name, Skip(s, i + 1, {Blank}), found)
FromName(s, i, found) ==
  CASE i > Len(s) -> found
    [] i <= Len(s) /\ s[i] \notin Words -> TagAttributes(s, i + 1, found)
    [] OTHER -> LET end == Skip(s, i, Words) IN AfterName(s, SubSeq(s, i, end - 1), Skip(s, end, {Blank}), found)
TagAttributes(s, i, found) == FromName(s, Skip(s, i, {Blank}), found)

(* localization_tag_kind                                                   *)
TagKind(value) == IF value = <<"Spell">> THEN "SpellData" ELSE None
TagReference(attributes) ==
  CASE <<"Tooltip">> \notin DOMAIN attributes -> {}
    [] <<"Tooltip">> \in DOMAIN attributes /\ <<"Type">> \notin DOMAIN attributes ->
         {Reference("Tooltip", attributes[<<"Tooltip">>], "localization-tooltip")}
    [] OTHER -> {Reference(kind, attributes[<<"Tooltip">>], "localization-tooltip") :
                   kind \in {TagKind(attributes[<<"Type">>])} \ {None}}

RECURSIVE TooltipReferences(_, _)
TagBody(s, i, end) ==
  IF end = 0 THEN {}
  ELSE TagReference(TagAttributes(SubSeq(s, i, end - 1), 1, <<>>)) \cup TooltipReferences(s, end + 1)
TooltipReferences(s, i) ==
  LET tags == {j \in i .. Len(s) : s[j] = "<LSTag"}
      start == CHOOSE j \in tags : \A k \in tags : j <= k
  IN  IF tags = {} THEN {}
      ELSE IF ~At(s, start + 1, {Blank, Close}) THEN TooltipReferences(s, start + 1)
      ELSE TagBody(s, start + 1, TagEnd(s, start + 1, None))

(* parse_localization: of each content with an identity its version, and   *)
(* what its text refers to.                                                *)
ParseContent(file, content) ==
  IF content.handle = None THEN file
  ELSE [file EXCEPT
          !.definitions = Append(@, [kind |-> "Localization", name |-> content.handle, text |-> content.text,
                                     version |-> IF content.version = None THEN 1 ELSE content.version]),
          !.references = @ \cup TooltipReferences(content.text, 1)]
ParseLocalization(contents) == FoldLeft(ParseContent, NoFile, contents)

-----------------------------------------------------------------------------
(* Where an entry's type stands decides nothing but that a parent named    *)
(* before it has no kind and is not reported.                              *)
Moved(clauses, k) == <<clauses[k]>> \o SelectSeq(clauses, LAMBDA c : c # clauses[k])
AgreeUpToUsing(late, early) ==
  LET Others(entry) == {r \in entry.references : r.context # "using"} IN
  /\ [late EXCEPT !.references = {}] = [early EXCEPT !.references = {}]
  /\ Others(late) = Others(early)
  /\ \A r \in late.references \ early.references : r.kind = None /\ r.context = "using"
  /\ ReferenceDiagnostics(late.references, "warning", {late.kind}, {})
       \subseteq ReferenceDiagnostics(early.references, "warning", {late.kind}, {})
TypeMayComeLater(catalog, stem, clauses) ==
  \A k \in {k \in DOMAIN clauses : clauses[k].clause = "type"} :
    AgreeUpToUsing(ParseEntry(catalog, stem, clauses), ParseEntry(catalog, stem, Moved(clauses, k)))

(* What is called and is no function of the game can be navigated to.      *)
CallsAreReferences(entry) ==
  \A name \in DOMAIN entry.observed \ DOMAIN Functions :
    \E r \in entry.references : r.name = name /\ r.context = "function-call"

(* A kind that schemas give a name is what each of them would give it, if  *)
(* it gives it any.                                                        *)
KindsAreCertain(clauses, schemas) ==
  \A r \in FoldLeft(ParseClause, NoEntry, clauses).references :
    LET given == WithKind(r, schemas).kind IN
    given # None => \A s \in schemas : WithKind(r, {s}).kind \in {given, None}

(* The same object in a legacy file, in a Toolkit file and in an LSX node  *)
(* has the same fields, calls the same functions and refers to the same    *)
(* names (LSX: in the fields that hold values).                            *)
AsElements(fields, object, field) ==
  LET named == SetToSeq(DOMAIN fields) IN
  <<[element |-> object, id |-> "Resource"]>>
  \o [i \in DOMAIN named |-> [element |-> field, id |-> named[i], value |-> fields[named[i]], translated |-> FALSE]]
  \o <<[element |-> "end"]>>
RefersTo(references) == {<<r.name, r.context>> : r \in references}
SameInEveryFormat(entry, toolkit, node) ==
  /\ Last(toolkit.definitions).fields = entry.fields
  /\ toolkit.observed = entry.observed
  /\ node.definitions # <<>> =>
       /\ node.definitions[1].fields = entry.fields
       /\ node.references \subseteq toolkit.references
  /\ RefersTo(toolkit.references) = RefersTo({r \in entry.references : r.context # "using"})
  /\ \A r \in toolkit.references : r.kind = None \/ r \in entry.references
FormatsAgree(catalog, entry) ==
  entry.issues = {} => SameInEveryFormat(entry, ParseToolkit(catalog, AsElements(entry.fields, "object", "field")),
                    ParseLsx(AsElements(entry.fields, "node", "attribute")))

(* What one entry of a file declares, refers to and is reported does not   *)
(* depend on the blocks around it.                                         *)
EntriesStandAlone(catalog, stem, clauses, entry) ==
  LET block == [kind |-> "treasure_table", name |-> "b"]
      file == ParsePlain(catalog, stem, <<block, [kind |-> "stat_entry", name |-> "a", clauses |-> clauses], block>>)
  IN  /\ [i \in DOMAIN file.definitions |-> file.definitions[i].kind] = <<"TreasureTable", entry.kind, "TreasureTable">>
      /\ file.definitions[2].fields = entry.fields
      /\ file.references = entry.references
      /\ file.observed = entry.observed
      /\ file.issues = entry.issues

(* A resource file is read as the tree that it writes.                     *)
RECURSIVE Flatten(_)
Flatten(tree) ==
  FoldLeft(LAMBDA elements, item : elements \o (IF item.element = "tree" THEN Flatten(item) ELSE <<item>>),
           <<[element |-> "node", id |-> tree.id]>>, tree.items) \o <<[element |-> "end"]>>
OwnFields(tree) ==
  FoldLeft(LAMBDA fields, item : IF item.element = "attribute" THEN Put(fields, item.id, item.value) ELSE fields,
           <<>>, tree.items)
RECURSIVE DeclaredBy(_)
DeclaredBy(tree) ==
  FoldLeft(LAMBDA found, item : IF item.element = "tree" THEN found \o DeclaredBy(item) ELSE found, <<>>, tree.items)
  \o DefinitionFromResource([kind |-> tree.id, fields |-> OwnFields(tree)])
ResourcesAreRead(tree) ==
  LET file == ParseLsx(Flatten(tree)) IN
  file.stack = <<>> /\ file.definitions = DeclaredBy(tree)

(* Every tag of a text refers to its tooltip, whatever stands between the  *)
(* tags, within their quotes and in their other attributes.                *)
Written(piece) ==
  IF piece.tag
  THEN FoldLeft(LAMBDA s, a : s \o <<Blank>> \o a.name \o <<"=", a.quote>> \o a.value \o <<a.quote>>,
                <<"<LSTag">>, piece.attributes) \o <<Close>>
  ELSE piece.text
AttributesOf(piece) == FoldLeft(LAMBDA found, a : Put(found, a.name, a.value), <<>>, piece.attributes)
TooltipsAreRead(pieces) ==
  LET text == FoldLeft(LAMBDA s, piece : s \o Written(piece), <<>>, pieces)
      file == ParseLocalization(<<[handle |-> "h", version |-> None, text |-> text]>>)
  IN  file.references = UNION {TagReference(AttributesOf(p)) : p \in {p \in ToSet(pieces) : p.tag}}
=============================================================================
