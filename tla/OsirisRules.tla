----------------------------- MODULE OsirisRules -----------------------------
(***************************************************************************)
(* crates/bg3-index/src/parser.rs: what the index takes from an Osiris     *)
(* goal.  Which value a variable has at each place of a rule, where calls  *)
(* may stand, what a goal declares and refers to; and the queries of       *)
(* crates/bg3-ide/src/lib.rs about a variable.                             *)
(*                                                                         *)
(* A rule has a kind, a head and a body of conditions, comparisons and     *)
(* actions.  A call has a name, a receiver and arguments; an argument has  *)
(* a value of some kind, a name or content, and a cast.  A place is a pair *)
(* of a unit, 0 for the head, and an argument, 0 for the receiver.         *)
(* `c' is a catalog: the generated contracts and the legacy events.        *)
(***************************************************************************)
EXTENDS Naturals, Sequences, SequencesExt, Ordering

CONSTANTS
  Domain(_, _, _),     \* osiris_argument_domain: of a contract's name and argument
  Compatible(_, _),    \* osiris_type_compatibility is Some(true)
  KnownTypes,          \* the types osiris_type_class knows
  None

\* What all of S are; f where it says anything, and else g.
Only(S) == IF \E x \in S : S = {x} THEN CHOOSE x \in S : TRUE ELSE None
Over(f, g) == [x \in DOMAIN f \cup DOMAIN g |-> IF x \in DOMAIN f THEN f[x] ELSE g[x]]

Argument(call, i) == IF i = 0 THEN call.receiver ELSE call.arguments[i]
IsLocal(call, i) == Argument(call, i).value = "local"
Arity(call) == Len(call.arguments)

Unit(rule, u) == IF u = 0 THEN rule.head ELSE rule.body[u].call
Units(rule) == 0 .. Len(rule.body)
At(rule, place) == Argument(Unit(rule, place[1]), place[2])

(* local_variable_nodes of a rule, by name; source order is the order of   *)
(* places.                                                                 *)
Locals(rule) ==
  UNION {{<<u, i>> : i \in {i \in 0 .. Arity(Unit(rule, u)) : IsLocal(Unit(rule, u), i)}} : u \in Units(rule)}
VariablesOf(rule) == {At(rule, place).name : place \in Locals(rule)}
PlacesOf(rule, name) == {place \in Locals(rule) : At(rule, place).name = name}

Earlier(p, q) == p[1] < q[1] \/ (p[1] = q[1] /\ p[2] < q[2])
Foremost(places) == CHOOSE p \in places : \A q \in places : q = p \/ Earlier(p, q)

Kinds == {"call", "event", "query", "syscall", "sysquery"}
IsCatalog(c) == \A contract \in c.contracts : contract.kind \in Kinds

IsRule(rule) ==
  /\ Len(rule.body) \in Nat
  /\ \A u \in Units(rule) : Arity(Unit(rule, u)) \in Nat
  /\ \A s \in ToSet(rule.body) : s.kind \in {"condition", "comparison", "action"}

IsGoal(goal) ==
  /\ goal.init \in Seq(ToSet(goal.init)) /\ goal.exit \in Seq(ToSet(goal.exit))
  /\ goal.rules \in Seq(ToSet(goal.rules)) /\ \A rule \in ToSet(goal.rules) : IsRule(rule)

-----------------------------------------------------------------------------
(* Contracts.                                                              *)

Fitting(c, call) == {k \in c.contracts : k.name = call.name /\ Len(k.parameters) = Arity(call)}
Curated(c, call) == {e \in c.legacy : e.name = call.name /\ Len(e.parameters) = Arity(call)}

(* osiris_contract: none if several fit.                                   *)
Contract(c, call) == Only(Fitting(c, call))

LegacyView(c, call) ==
  IF Curated(c, call) = {} THEN None
  ELSE LET e == CHOOSE e \in Curated(c, call) : TRUE
       IN  [kind |-> "legacy", name |-> e.name, parameters |-> e.parameters]

(* osiris_contract_view and osiris_event_contract                          *)
ContractView(c, call) == IF Contract(c, call) # None THEN Contract(c, call) ELSE LegacyView(c, call)
EventView(c, call) ==
  IF Contract(c, call) = None THEN LegacyView(c, call)
  ELSE IF Contract(c, call).kind = "event" THEN Contract(c, call) ELSE None

(* known_osiris_callable_kind: an ambiguous contract is no evidence.       *)
KnownKind(c, call) ==
  IF Contract(c, call) # None THEN Contract(c, call).kind
  ELSE IF Fitting(c, call) = {} /\ Curated(c, call) # {} THEN "event" ELSE None

(* osiris_contract_allowed_at                                              *)
AllowedAt(kind, placement) ==
  CASE placement = "if"        -> kind = "event"
    [] placement \in {"procedure", "query"} -> FALSE
    [] placement = "condition" -> kind \in {"query", "sysquery"}
    [] placement = "action"    -> kind \in {"call", "syscall"}

(* validate_osiris_callable_placement                                      *)
PlacementIssues(c, call, placement, negated) ==
  LET kind == KnownKind(c, call) IN
  IF kind = None THEN {}
  ELSE {code \in {"negation", "role"} :
          \/ code = "negation" /\ negated /\ placement = "action"
          \/ code = "role" /\ ~AllowedAt(kind, placement)}

HeadPlacement(rule) ==
  CASE rule.kind = "PROC" -> "procedure" [] rule.kind = "QRY" -> "query" [] OTHER -> "if"

(* collect_osiris_callable_role_issues: of a goal's facts and rules.       *)
RoleIssues(c, goal) ==
  LET Called(rule) == {s \in ToSet(rule.body) : s.kind # "comparison"}
      facts == {PlacementIssues(c, s.call, "action", s.negated) : s \in ToSet(goal.init \o goal.exit)}
      heads == {PlacementIssues(c, rule.head, HeadPlacement(rule), FALSE) : rule \in ToSet(goal.rules)}
      bodies == {PlacementIssues(c, s.call, s.kind, s.negated) :
                   s \in UNION {Called(rule) : rule \in ToSet(goal.rules)}}
  IN  UNION (facts \cup heads \cup bodies)

-----------------------------------------------------------------------------
(* What contracts say of a rule's variables: osiris_rule_contract_types    *)
(* and add_osiris_contract_arguments.                                      *)

Positive(rule, u) == u > 0 /\ rule.body[u].kind = "condition" /\ ~rule.body[u].negated

Queries(c, rule, u) ==
  /\ Positive(rule, u)
  /\ ContractView(c, Unit(rule, u)) # None
  /\ ContractView(c, Unit(rule, u)).kind \in {"query", "sysquery"}

(* The places where a query's result is put.                               *)
Outputs(c, rule) ==
  {p \in Locals(rule) : /\ p[2] > 0 /\ Queries(c, rule, p[1])
                        /\ Contract(c, Unit(rule, p[1])).parameters[p[2]].direction # "in"}

(* The type that an event or a query output has where it is not cast;      *)
(* `outputs' is Outputs(c, rule).                                          *)
EngineType(c, rule, outputs, p) ==
  LET call == Unit(rule, p[1]) IN
  IF p[2] = 0 \/ At(rule, p).cast # None THEN None
  ELSE IF p[1] = 0 /\ rule.kind = "IF" /\ EventView(c, call) # None
    THEN EventView(c, call).parameters[p[2]].type
  ELSE IF p \in outputs THEN Contract(c, call).parameters[p[2]].type
  ELSE None

(* The database column that a place reads.                                 *)
ColumnAt(rule, p) ==
  LET call == Unit(rule, p[1]) IN
  IF /\ p[2] > 0 /\ call.database
     /\ IF p[1] = 0 THEN rule.kind = "IF" ELSE Positive(rule, p[1])
  THEN [name |-> call.name, arity |-> Arity(call), column |-> p[2]] ELSE None

-----------------------------------------------------------------------------
(* Variables: collect_osiris_variable_analysis.                            *)

UnitKindIgnoringNegation(c, rule, outputs, u) ==
  IF u = 0
  THEN IF rule.kind # "IF" \/ EventView(c, rule.head) # None THEN "all"
       ELSE IF rule.head.database THEN "database" ELSE "none"
  ELSE IF rule.body[u].kind = "condition" /\ Unit(rule, u).database THEN "database"
  ELSE IF \E p \in outputs : p[1] = u THEN "query" ELSE "none"

(* What a unit binds: a procedure's or an event's head all its arguments,  *)
(* a database that matches its columns, a query its outputs.               *)
UnitKind(c, rule, outputs, u) ==
  IF u = 0
  THEN IF rule.kind # "IF" \/ EventView(c, rule.head) # None THEN "all"
       ELSE IF rule.head.database THEN "database" ELSE "none"
  ELSE IF Positive(rule, u) /\ Unit(rule, u).database THEN "database"
  ELSE IF \E p \in outputs : p[1] = u THEN "query" ELSE "none"

Producers(rule, outputs, kind, u) ==
  CASE kind = "none"  -> {}
    [] kind = "query" -> {p \in outputs : p[1] = u}
    [] OTHER          -> {p \in Locals(rule) : p[1] = u /\ p[2] > 0}

(* update_current_type                                                     *)
UpdateType(types, name, type) ==
  [n \in DOMAIN types \cup {name} |->
     IF n # name THEN types[n]
     ELSE IF name \in DOMAIN types /\ types[name] # type THEN None ELSE type]

(* The types of a unit are merged in the order of its places.              *)
UpdateTypes(rule, u, typed, types) ==
  LET updated[i \in 0 .. Arity(Unit(rule, u)) + 1] ==
        LET p == <<u, i - 1>> IN
        IF i = 0 THEN types
        ELSE IF p \in DOMAIN typed /\ typed[p] # None
          THEN UpdateType(updated[i - 1], At(rule, p).name, typed[p])
        ELSE updated[i - 1]
  IN  updated[Arity(Unit(rule, u)) + 1]

(* process_osiris_variable_unit: every place of the unit is judged by what *)
(* held before it; what it binds and types is merged afterwards.  `first'  *)
(* is the producer of each variable that the unit binds, `typed' what a    *)
(* place itself says of its type.                                          *)
FirstProducers(rule, producers) ==
  [n \in {At(rule, p).name : p \in producers} |-> Foremost({p \in producers : At(rule, p).name = n})]

Unbound(rule, places, s) == {p \in places : At(rule, p).name \notin DOMAIN s.bound}

TypeOf(c, rule, outputs, producers, p) ==
  IF At(rule, p).cast # None THEN At(rule, p).cast
  ELSE IF p \in outputs /\ p \notin producers THEN None
  ELSE EngineType(c, rule, outputs, p)

TypesOf(c, rule, outputs, producers, here) ==
  [p \in here |-> TypeOf(c, rule, outputs, producers, p)]

Merge(rule, u, here, kind, producers, first, typed, s) ==
  LET Name(p) == At(rule, p).name
      Visible(p) == /\ Name(p) \in DOMAIN first
                    /\ p \in producers \/ kind \in {"all", "database"}
                    /\ ~Earlier(p, first[Name(p)])
      binding == [p \in here |->
        IF Name(p) \in DOMAIN s.bound THEN s.bound[Name(p)]
        ELSE IF Visible(p) THEN first[Name(p)] ELSE None]
      evidence == [p \in here |->
        IF typed[p] # None THEN typed[p]
        ELSE IF Name(p) \in DOMAIN s.types THEN s.types[Name(p)] ELSE None]
  IN  [bound |-> Over(first, s.bound),
       types |-> UpdateTypes(rule, u, typed, s.types),
       binding |-> Over(binding, s.binding),
       evidence |-> Over(evidence, s.evidence)]

ProcessBinding(c, rule, outputs, u, here, kind, producers, s) ==
  Merge(rule, u, here, kind, producers, FirstProducers(rule, producers),
        TypesOf(c, rule, outputs, producers, here), s)

ProcessKind(c, rule, outputs, kind, u, s) ==
  ProcessBinding(c, rule, outputs, u, {p \in Locals(rule) : p[1] = u}, kind,
                 Unbound(rule, Producers(rule, outputs, kind, u), s), s)

Process(c, rule, outputs, u, s) ==
  ProcessKind(c, rule, outputs, UnitKind(c, rule, outputs, u), u, s)

(* Of each place, where its value comes from and its type.                 *)
NothingKnown == [bound |-> <<>>, types |-> <<>>, binding |-> <<>>, evidence |-> <<>>]

AnalysisOf(c, rule, outputs) ==
  LET analysed[n \in 0 .. Len(rule.body) + 1] ==
        IF n = 0 THEN NothingKnown ELSE Process(c, rule, outputs, n - 1, analysed[n - 1])
  IN  analysed[Len(rule.body) + 1]

Analysis(c, rule) == AnalysisOf(c, rule, Outputs(c, rule))

(* The fact of a variable: what the first place that has one is bound to.  *)
FactBinding(rule, analysis, name) ==
  LET bound == {p \in PlacesOf(rule, name) : analysis.binding[p] # None}
  IN  IF bound = {} THEN None ELSE analysis.binding[Foremost(bound)]

(* Goto definition and references on a variable (definition_locations_at,  *)
(* references_at), and the type that hover shows: the place's own, or that *)
(* of the database column that bound it; `columns' gives established types.*)
VariableDefinition(analysis, p) == analysis.binding[p]

VariableReferences(rule, analysis, p, includeDeclaration) ==
  {q \in PlacesOf(rule, At(rule, p).name) :
     includeDeclaration \/ q # FactBinding(rule, analysis, At(rule, p).name)}

HoverType(rule, analysis, p, columns) ==
  LET column == IF analysis.binding[p] = None THEN None ELSE ColumnAt(rule, analysis.binding[p])
  IN  IF analysis.evidence[p] # None THEN analysis.evidence[p]
      ELSE IF column # None /\ column \in DOMAIN columns THEN columns[column] ELSE None

-----------------------------------------------------------------------------
(* Calls: collect_osiris_call.                                             *)

LiteralType(value) ==
  CASE value = "integer" -> "INTEGER" [] value = "real" -> "REAL" [] value = "string" -> "STRING"
    [] value = "guid" -> "GUIDSTRING" [] OTHER -> None

(* osiris_argument_evidence and osiris_argument_occurrence_evidence, which *)
(* differ in what they know of a variable.                                 *)
EvidenceOf(argument, variable) ==
  IF argument.cast # None THEN argument.cast
  ELSE IF argument.value = "local" THEN variable
  ELSE LiteralType(argument.value)

StatementRole(negated, call) == IF negated /\ call.database THEN "remove" ELSE "write"

(* The strings of a call that name a resource of the game.                 *)
StringReferences(c, call, placement) ==
  LET contract == Contract(c, call) IN
  IF contract = None \/ ~AllowedAt(contract.kind, placement) THEN {}
  ELSE {[tag |-> "string", name |-> call.arguments[i].name, arity |-> 0, context |-> Domain(contract.kind, call.name, i)] :
          i \in {i \in 1 .. Arity(call) :
                   /\ Domain(contract.kind, call.name, i) # None
                   /\ contract.parameters[i].direction # "out"
                   /\ call.arguments[i].value = "string"
                   /\ \/ call.arguments[i].cast = None
                      \/ Compatible(call.arguments[i].cast, contract.parameters[i].type)}}

CallReferences(c, call, role, placement) ==
  {[tag |-> IF call.database THEN "database" ELSE "callable", name |-> call.name, arity |-> Arity(call),
    context |-> role]} \cup StringReferences(c, call, placement)

(* The occurrence of a database; `evidence' is of the call's variables.    *)
DatabaseOccurrence(call, role, evidence) ==
  [name |-> call.name, arity |-> Arity(call), role |-> role,
   types |-> [i \in 1 .. Arity(call) |-> EvidenceOf(call.arguments[i], evidence[i])]]

(* parse_osiris_rule: the calls of a rule, the head of IF among them.      *)
CallsOf(c, rule) ==
  LET evidence == Analysis(c, rule).evidence
      Of(u, role) ==
        [call |-> Unit(rule, u), role |-> role, placement |-> IF u = 0 THEN "if" ELSE rule.body[u].kind,
         evidence |-> [i \in 1 .. Arity(Unit(rule, u)) |->
                         IF <<u, i>> \in Locals(rule) THEN evidence[<<u, i>>] ELSE None]]
      called == Sorted({u \in 1 .. Len(rule.body) : rule.body[u].kind # "comparison"})
  IN  (IF rule.kind = "IF" THEN <<Of(0, "read")>> ELSE <<>>)
      \o [k \in DOMAIN called |->
            Of(called[k], IF rule.body[called[k]].kind = "condition" THEN "read"
                          ELSE StatementRole(rule.body[called[k]].negated, Unit(rule, called[k])))]

FactCalls(statements) ==
  [k \in DOMAIN statements |->
     [call |-> statements[k].call, role |-> StatementRole(statements[k].negated, statements[k].call),
      placement |-> "action", evidence |-> [i \in 1 .. Arity(statements[k].call) |-> None]]]

CallsOfGoal(c, goal) ==
  FactCalls(goal.init) \o FlattenSeq([r \in DOMAIN goal.rules |-> CallsOf(c, goal.rules[r])])
  \o FactCalls(goal.exit)

-----------------------------------------------------------------------------
(* A goal: parse_osiris.                                                   *)

(* osiris_variable_types_in_node: the one type that casts in the rule give *)
(* a variable.                                                             *)
RuleType(rule, name) == Only({At(rule, p).cast : p \in PlacesOf(rule, name)} \ {None})

(* osiris_parameter_labels                                                 *)
ParameterTypes(rule) ==
  [i \in 1 .. Arity(rule.head) |->
     EvidenceOf(rule.head.arguments[i], RuleType(rule, rule.head.arguments[i].name))]

Summary(types) ==
  CASE types = {} -> "unknown" [] Only(types) # None -> Only(types) [] OTHER -> "conflicting"

(* add_osiris_database_anchors: a database is declared where a goal first  *)
(* writes it, with the types of everything the goal writes to it.          *)
Anchors(occurrences) ==
  LET all == ToSet(occurrences)
      written == {<<o.name, o.arity>> : o \in {o \in all : o.role = "write"}}
      Writes(key) == SelectSeq(occurrences, LAMBDA o : <<o.name, o.arity>> = key /\ o.role = "write")
      Reads(key) == SelectSeq(occurrences, LAMBDA o : <<o.name, o.arity>> = key /\ o.role = "read")
  IN  {[kind |-> "OsirisDatabase", name |-> key[1], arity |-> key[2], reads |-> Len(Reads(key)),
        writes |-> Len(Writes(key)),
        parameters |-> [i \in 1 .. key[2] |->
                          Summary({o.types[i] : o \in ToSet(Writes(key))} \ {None})]] : key \in written}

Declarations(goal) ==
  {[kind |-> IF rule.kind = "PROC" THEN "OsirisProcedure" ELSE "OsirisQuery", name |-> rule.head.name,
    arity |-> Arity(rule.head), reads |-> 0, writes |-> 0, parameters |-> ParameterTypes(rule)] :
     rule \in {rule \in ToSet(goal.rules) : rule.kind # "IF"}}

(* osiris_type_casts                                                       *)
CastsIn(call) == {Argument(call, i).cast : i \in 0 .. Arity(call)}
Casts(goal) ==
  KnownTypes \cap
  ((UNION {CastsIn(s.call) : s \in ToSet(goal.init \o goal.exit)}) \cup
   (UNION {UNION {CastsIn(Unit(rule, u)) : u \in Units(rule)} : rule \in ToSet(goal.rules)}))

Nothing(issues) ==
  [definitions |-> {}, references |-> {}, occurrences |-> <<>>, casts |-> {}, issues |-> issues]

(* A goal without all its sections gives syntax issues only; one with      *)
(* syntax errors gives no references to resources.                         *)
OccurrencesIn(calls) ==
  LET databases == Sorted({k \in DOMAIN calls : calls[k].call.database})
      Of(k) == DatabaseOccurrence(calls[k].call, calls[k].role, calls[k].evidence)
  IN  [i \in DOMAIN databases |-> Of(databases[i])]

ReferencesIn(c, goal, calls) ==
  (UNION {CallReferences(c, k.call, k.role, k.placement) : k \in ToSet(calls)})
  \cup {[tag |-> "goal", name |-> parent, arity |-> 0, context |-> "parent"] : parent \in goal.parents}

Declare(goal, occurrences, references, issues) ==
  [definitions |-> Declarations(goal) \cup Anchors(occurrences),
   references |-> {r \in references : ~goal.errors \/ r.tag # "string"},
   occurrences |-> occurrences, casts |-> Casts(goal), issues |-> issues]

ParseCalls(c, goal, calls, syntax) ==
  IF ~goal.complete THEN Nothing(syntax)
  ELSE Declare(goal, OccurrencesIn(calls), ReferencesIn(c, goal, calls), syntax \cup RoleIssues(c, goal))

ParseGoal(c, goal) ==
  ParseCalls(c, goal, CallsOfGoal(c, goal), IF goal.errors THEN {"syntax"} ELSE {})

-----------------------------------------------------------------------------
(* Properties.                                                             *)

(* The value of a variable has one origin in a rule, the first place that  *)
(* supplies it: an argument of a procedure's, an event's or a database's   *)
(* head, of a database that must match, or an output of a query.  "A query *)
(* output is not visible to another argument in that same call", and what  *)
(* must not hold supplies nothing.                                         *)
BindingsHaveOneOrigin(c, rule, outputs, analysis) ==
  LET Supplies(p) ==
        /\ p[2] > 0
        /\ IF p[1] = 0 THEN rule.kind # "IF" \/ rule.head.database \/ EventView(c, rule.head) # None
           ELSE /\ rule.body[p[1]].kind = "condition" /\ ~rule.body[p[1]].negated
                /\ Unit(rule, p[1]).database \/ p \in outputs
      Suppliers(name) == {p \in PlacesOf(rule, name) : Supplies(p)}
      Origin(name) == Foremost(Suppliers(name))
  IN  \A name \in VariablesOf(rule) : \A p \in PlacesOf(rule, name) :
        analysis.binding[p] =
          IF \/ Suppliers(name) = {}
             \/ Earlier(p, Origin(name))
             \/ p[1] = Origin(name)[1] /\ ~Supplies(p)
          THEN None ELSE Origin(name)

(* A place has its own type, by a cast or as what the engine puts there,   *)
(* or else the one type that earlier units agree on; never a later one, and*)
(* "a query output that was already bound is a filter": it gives no type.  *)
TypesComeFromBefore(c, rule, outputs, analysis) ==
  LET Own(p) ==
        IF At(rule, p).cast # None THEN At(rule, p).cast
        ELSE IF p \in outputs /\ analysis.binding[p] # None /\ analysis.binding[p][1] < p[1]
          THEN None
        ELSE EngineType(c, rule, outputs, p)
      Given(p) == {Own(q) : q \in {q \in PlacesOf(rule, At(rule, p).name) : q[1] < p[1]}} \ {None}
  IN  \A p \in Locals(rule) :
        analysis.evidence[p] =
          IF Own(p) # None THEN Own(p) ELSE Only(Given(p))

(* Goto and references agree: all places of a variable that goto leads     *)
(* anywhere from lead to one, and without the declaration the references   *)
(* are the other places.                                                   *)
NavigationAgrees(rule, analysis) ==
  \A p \in Locals(rule) :
    LET origin == VariableDefinition(analysis, p) IN
    origin # None =>
      /\ VariableDefinition(analysis, origin) = origin
      /\ VariableReferences(rule, analysis, p, FALSE) = PlacesOf(rule, At(rule, p).name) \ {origin}

(* What hover shows depends on the type of a database column only where    *)
(* goto leads to that column and the units before do not give the variable *)
(* one type.                                                               *)
HoverFollowsNavigation(rule, analysis) ==
  LET columns == {ColumnAt(rule, p) : p \in Locals(rule)} \ {None}
      Shown(p, type) == HoverType(rule, analysis, p, [column \in columns |-> type])
      Before(p) == {q \in PlacesOf(rule, At(rule, p).name) : q[1] < p[1]}
  IN  \A p \in Locals(rule) :
        Shown(p, "one") # Shown(p, "another") =>
          /\ ColumnAt(rule, VariableDefinition(analysis, p)) # None
          /\ Only({analysis.evidence[q] : q \in Before(p)} \ {None}) = None

(* What a goal declares and what it refers to belong together, recovered   *)
(* from errors or not: it declares the databases that it refers to as      *)
(* written and no others, and its calls are placed wrongly exactly if one  *)
(* stands where completion would not offer it, which is the pairs of kinds *)
(* and placements that are `offered'.                                      *)
GoalsAreConsistent(c, goal, parsed, offered) ==
  LET Misplaced(call, placement) ==
        KnownKind(c, call) # None /\ <<KnownKind(c, call), placement>> \notin offered
      bodies == UNION {{<<s.call, s.kind>> : s \in {s \in ToSet(rule.body) : s.kind # "comparison"}} :
                         rule \in ToSet(goal.rules)}
      heads == {<<rule.head, HeadPlacement(rule)>> : rule \in ToSet(goal.rules)}
      facts == {<<s.call, "action">> : s \in ToSet(goal.init \o goal.exit)}
  IN  /\ {<<d.name, d.arity>> : d \in {d \in parsed.definitions : d.kind = "OsirisDatabase"}} =
         {<<r.name, r.arity>> : r \in {r \in parsed.references : r.tag = "database" /\ r.context = "write"}}
      /\ goal.complete =>
           ("role" \in parsed.issues <=> \E x \in bodies \cup heads \cup facts : Misplaced(x[1], x[2]))
=============================================================================
