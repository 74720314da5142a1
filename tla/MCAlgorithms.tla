---------------------------- MODULE MCAlgorithms ----------------------------
(***************************************************************************)
(* Bounded inputs for the modules that are functions of their input: a     *)
(* behaviour picks one input of one of them, or goes on as one of Readers. *)
(***************************************************************************)
EXTENDS Readers, FiniteSets, TLC

Scans == INSTANCE TextScans

RuleDomain(kind, name, i) == IF name = "C" THEN "Resource" ELSE None
RuleCompatible(s, t) == s = t

Flow == INSTANCE ThothMembers WITH Rounds <- 2, Nesting <- 2

Contracts == INSTANCE ThothContracts

\* A function with two forms, one with a parameter for an expression.
Param(kind, expression) == [kind |-> kind, expression |-> expression]
GameFunctions ==
  "Apply" :> [default |-> <<Param("StatusData", FALSE), Param(None, FALSE)>>,
              target |-> <<Param(None, FALSE), Param("StatusData", FALSE), Param(None, TRUE)>>, least |-> 3]
Cases ==
  [w \in {"", "Spell_", "Status_", "Rush", "RUSH", "Zone", "Odd", "PassiveData", "true", "a", "b"} |->
     IF w = "RUSH" THEN "rush" ELSE IF w = "Rush" THEN "rush" ELSE w]
Stats == INSTANCE StatsFiles WITH LowerCase <- Cases, Functions <- GameFunctions

Families ==
  {"entries", "values", "catalogs", "trees", "tooltips", "contracts", "aliases",
   "texts", "attributes", "statements", "blocks", "helpers"}

-----------------------------------------------------------------------------
(* A package file of eight bytes, wherever its header says that its list   *)
(* is and its entry says that it is.                                       *)

Entries ==
  [name : {1}, padded : {TRUE}, safe : BOOLEAN, part : {0}, offset : 0 .. 8, stored : 0 .. 4,
   unpacked : {0, 2}, compression : {0, 2, 3}, lz4 : {2}]

FileOf(current, at, length, entries) ==
  [size |-> 8, signature |-> TRUE,
   header |-> [current |-> current, solid |-> FALSE, parts |-> 1,
               listOffset |-> at, listSize |-> length, priority |-> 0],
   list |-> [count |-> Len(entries), compressed |-> 1, entries |-> entries]]

\* One entry, or two, of one name or of two.
EntryLists ==
  {<<e>> : e \in Entries}
  \cup {<<[e EXCEPT !.name = name, !.offset = offset], e>> :
          e \in {e \in Entries : /\ e.safe /\ e.offset = 2 /\ e.stored \in {1, 3}
                                 /\ e.unpacked = 0 /\ e.compression = 0},
          name \in {1, 2}, offset \in {2, 4}}

MCPackageFiles ==
  {FileOf(current, at, length, entries) :
     current \in BOOLEAN, at \in 0 .. 9, length \in 1 .. 3, entries \in EntryLists}

-----------------------------------------------------------------------------
(* Two packages of a base module and a patch, of two priorities.           *)

Declares(kind, name, arity, role, parameters, line) ==
  [kind |-> kind, name |-> name, arity |-> arity, role |-> role, parameters |-> parameters,
   line |-> line]

GoalTexts ==
  {[parses |-> FALSE, symbols |-> {}],
   [parses |-> TRUE, symbols |-> {Declares("callable", "P", 1, "procedure", <<"a">>, 1)}],
   [parses |-> TRUE, symbols |-> {Declares("callable", "P", 1, "query", <<"a">>, 1),
                                  Declares("callable", "P", 2, "procedure", <<"a", "b">>, 2)}],
   [parses |-> TRUE, symbols |-> {Declares("function", "F", None, None, <<"x">>, 1),
                                  Declares("callable", "P", 1, "procedure", <<"b">>, 2)}]}

GoalEntries ==
  {{}} \cup {{[index |-> 1, family |-> "osiris", module |-> 1, folded |-> 1, path |-> path,
               size |-> 2, utf8 |-> TRUE, text |-> text]} : path \in {1, 2}, text \in GoalTexts}

MCInstallations ==
  {{[name |-> names[i], owner |-> 1, patch |-> FALSE, layout |-> "supported", opens |-> TRUE,
     priority |-> IF i = 1 THEN 0 ELSE priorities[i - 1], parts |-> {}, entries |-> entries[i]] :
       i \in 1 .. 3} :
     names \in {<<1, 2, 3>>}, priorities \in [1 .. 2 -> {0, 1}], entries \in [1 .. 3 -> GoalEntries]}

MCRenamings == {<<3, 2, 1>>}

-----------------------------------------------------------------------------
(* Goals of a base module and of the project, one of them open, above      *)
(* installed goals and the catalogs.                                       *)

Goal(kind, arity, parameters) ==
  [kind |-> kind, name |-> "P", arity |-> arity, parameters |-> parameters]
Typed == Goal("OsirisProcedure", 1, <<"a">>)
Untyped == Goal("OsirisProcedure", 1, <<"b">>)
Asks == Goal("OsirisQuery", 1, <<"a">>)
Two == Goal("OsirisProcedure", 2, <<"a", "b">>)
Zero == Goal("OsirisProcedure", 0, <<>>)

GoalFiles ==
  {[rank |-> rank, disk |-> disk, document |-> {}, open |-> open] :
     rank \in {1, 2}, disk \in {{}, {Typed}, {Typed, Asks}, {Two, Untyped}, {Zero}},
     open \in {"closed", "incomplete"}}
  \cup {[rank |-> 2, disk |-> {Typed}, document |-> document, open |-> "open"] :
          document \in {{}, {Untyped}, {Two}}}

Installed(priority, parameters, role, arity) ==
  [module |-> 1, package |-> 1, entry |-> priority, priority |-> priority, index |-> 1,
   text |-> [parses |-> TRUE,
             symbols |-> {Declares("callable", "P", arity, role, parameters, 1)}]]

InstalledGoals ==
  {{}, {Installed(0, <<"c">>, "procedure", 1)},
   {Installed(0, <<"c">>, "procedure", 1), Installed(1, <<"d", "e">>, "query", 2)},
   {Installed(0, <<>>, "procedure", 0)},
   {Installed(0, <<"c">>, "procedure", 1),
    [Installed(0, <<"d">>, "query", 1) EXCEPT !.entry = 2]}}

Contract(role, parameters) == [role |-> role, name |-> "P", parameters |-> parameters]

MCGoalWorkspaces ==
  {[ranks |-> {1, 2}, base |-> {1}, files |-> goals, installed |-> installed,
    contracts |-> contracts, legacy |-> {Contract("event", <<"l">>)}] :
     goals \in [1 .. 2 -> GoalFiles], installed \in InstalledGoals,
     contracts \in {<<>>, <<Contract("event", <<"g">>)>>, <<Contract("procedure", <<>>)>>,
                    <<Contract("procedure", <<"g", "h">>), Contract("query", <<"g", "i">>)>>}}

-----------------------------------------------------------------------------
(* A workspace file and inline options, each of any few fields.            *)

Dependency(name, absolute) ==
  [name |-> name, absolute |-> absolute, path |-> IF absolute THEN <<"dep">> ELSE <<"lib">>]

FieldChoices ==
  [game_data : {"data", "lost"}, base_modules : {<<>>, <<"shared">>, <<"shared", "gustav">>},
   name : {"", "mod", "shared"}, dependencies : {<<Dependency("dep", TRUE)>>,
     <<Dependency("lib", FALSE), Dependency("dep", TRUE)>>, <<Dependency("none", FALSE)>>},
   severity : {"off", "hint", None}, language : {"German", "Martian"},
   symbols : {0, 9}, items : {7}, other : {1}]

Field(f) == {choice[f] : choice \in {c \in FieldChoices : c.items = 7}}

MCJsonLayers ==
  {("game_data" :> "data") @@ ("base_modules" :> modules) @@ ("name" :> "mod") @@ more :
     modules \in Field("base_modules"),
     more \in {<<>>, "language" :> "German", "dependencies" :> <<Dependency("lib", FALSE)>>,
               ("severity" :> "hint") @@ ("symbols" :> 9)}}

MCInlineLayers ==
  {<<>>} \cup UNION {{f :> v : v \in Field(f)} : f \in DOMAIN (CHOOSE c \in FieldChoices : TRUE)}
  \cup {("dependencies" :> d) @@ ("name" :> n) : d \in Field("dependencies"), n \in Field("name")}

MCDisks ==
  {[gameData |-> {"data"}, languages |-> {"English", "German"}, catalogs |-> TRUE,
   directories |-> {<<"editor", "shared">>, <<"editor", "gustav">>, <<"dep">>, <<"ws">>,
                    <<"ws", "lib">>}]}

MCWorkspaces == {<<"ws">>}
MCStarts == {<<"ws", "lib", "a">>}
MCConfiguredSets == SUBSET {<<>>, <<"ws">>, <<"ws", "lib">>}

-----------------------------------------------------------------------------
(* A file anywhere in a workspace whose modules lie apart, within each     *)
(* other or within the game's data.                                        *)

Trees ==
  {<<>>, <<"stats">>, <<"stats", "generated", "data">>, <<"story", "rawfiles", "goals">>,
   <<"story", "rawfiles", "goals", "old">>, <<"scripts", "thoth">>,
   <<"localization", "english">>, <<"localization", "german">>}

Tops ==
  {Places!Data, Places!Data \o <<"editor", "mods", "shared">>, Places!Data \o <<"public", "shared">>,
   Places!Data \o <<"mods", "shared">>, Places!Data \o <<"editor", "config">>, <<"ws">>,
   <<"ws", "mods", "mod">>, <<"ws", "public", "mod">>, <<"dep">>, <<"dep", "mods", "dep">>}

MCLocations ==
  [dirs : {top \o tree : top \in Tops, tree \in Trees}, stem : {"patch", "game"},
   ext : {"txt", "stats", "tbl", "lsx", "khn", "xml", "pak"}]

Spec3(project, dependency) ==
  <<[name |-> "shared", role |-> "base", root |-> Places!Data \o <<"editor", "mods", "shared">>],
    [name |-> "dep", role |-> "dependency", root |-> dependency],
    [name |-> "mod", role |-> "project", root |-> project]>>

MCModuleLists ==
  {Spec3(project, dependency) : project \in {<<"ws">>, <<"ws", "mods", "mod">>},
                                dependency \in {<<"dep">>, <<"ws", "mods">>}}

MCDirectorySets ==
  {(Tops \cup {<<"ws", "mods">>, Places!Localizations, Places!Localizations \o <<"english">>}) \ gone :
     gone \in {{}, {<<"ws">>, Places!Data \o <<"mods", "shared">>},
              {<<"ws", "mods">>, Places!Data \o <<"public", "shared">>, Places!Data},
              {<<"ws", "mods", "mod">>, <<"dep">>, Places!Data \o <<"editor", "mods", "shared">>,
               Places!Localizations \o <<"english">>}}}

-----------------------------------------------------------------------------
(* Short texts, of the characters that a scanner tells apart.              *)

UpTo(n, C) == UNION {[1 .. k -> C] : k \in 0 .. n}

PickText ==
  /\ Choosing("texts")
  /\ \/ \E text \in UpTo(4, {"a", "wide", "pair", "\n"}) : input' = [tag |-> "positions", text |-> text]
     \/ \E text \in UpTo(6, {"(", ",", "/", "*", "\""}), lead \in {<<>>, <<"a", "(">>} :
          input' = [tag |-> "calls", text |-> lead \o text]
     \/ \E text \in UpTo(5, {"a", ".", ";", "\"", "\\", " "}) : input' = [tag |-> "value", text |-> text]
     \/ \E text \in UpTo(6, {"a", "\"", " "}), lead \in {<<"data">>, <<"data", " ">>, <<" ", "data", " ">>} :
          input' = [tag |-> "clause", text |-> lead \o text]

Attribute == [name : {"id", "value", "type"}, value : {<<>>, <<"a">>, <<"b">>, <<"a", ";", "b">>}]

PickAttributes ==
  /\ Choosing("attributes")
  /\ \E attributes \in UpTo(2, Attribute), open \in Attribute :
       input' = [tag |-> "attributes", attributes |-> attributes, open |-> open]

Lines == {<<"KBSECTION">>, <<"ENDEXITSECTION">>, <<"THEN">>, <<"/", "*", "IF">>, <<"*", "/">>, <<"a", "(", "\"", "/", "/">>}

PickStatement ==
  /\ Choosing("statements")
  /\ \E above \in UpTo(2, Lines), keyword \in Scans!Keywords,
        comment \in {<<>>, <<"/", "/", "a">>, <<" ", "/", "*", "/", "*", "/">>},
        rest \in UpTo(2, {"a", " ", "NOT", "AND", "\""}) :
       input' = [tag |-> "statement", above |-> above, keyword |-> keyword, comment |-> comment, rest |-> rest]

\* Places in a text mean the same to the client and to the server (server.rs,
\* domain.rs, language.rs).
PositionsAgree == input.tag = "positions" => Scans!PositionsAgree(input.text, 0 .. 4, 0 .. 7)

\* What completion, signature help, hover and the preview read off one line or
\* one document, each with a scanner of its own, agrees (language.rs).
ScansAgree ==
  /\ input.tag = "calls" => Scans!CallScansAgree(input.text)
  /\ input.tag = "value" => Scans!ValueScansAgree(input.text)
  /\ input.tag = "clause" => Scans!ClausesAgree(input.text)
  /\ input.tag = "attributes" => Scans!AttributesAreRead(input.attributes, input.open)
  /\ input.tag = "statement" =>
       Scans!LayoutDoesNotDecide(input.above, input.keyword, input.comment, input.rest)

\* Hover reads a property name that is still being typed (language.rs).
UnclosedNamesAreRead == input.tag = "clause" => Scans!UnclosedNamesAreRead(input.text)

-----------------------------------------------------------------------------
(* Osiris rules of two units below a head, and goals of one.               *)

Value(kind, name, cast) == [value |-> kind, name |-> name, cast |-> cast]
Local(name) == Value("local", name, None)
NoReceiver == Value("none", "none", None)
CallOf(name, receiver, arguments) ==
  [database |-> name \in {"DB1", "DB2"}, name |-> name, receiver |-> receiver, arguments |-> arguments]
Parameter(type, direction) == [type |-> type, direction |-> direction]

Catalog ==
  [contracts |-> {[kind |-> "event", name |-> "E", parameters |-> <<Parameter("CHARACTER", "in")>>],
                  [kind |-> "query", name |-> "Q",
                   parameters |-> <<Parameter("ITEM", "in"), Parameter("CHARACTER", "out")>>],
                  [kind |-> "call", name |-> "C", parameters |-> <<Parameter("STRING", "in")>>],
                  [kind |-> "call", name |-> "M", parameters |-> <<Parameter("STRING", "in")>>],
                  [kind |-> "event", name |-> "M", parameters |-> <<Parameter("STRING", "in")>>]},
   legacy |-> {[name |-> "L", parameters |-> <<Parameter("ITEM", "none")>>],
               [name |-> "M", parameters |-> <<Parameter("ITEM", "none")>>]}]

Operands == {Local("x"), Local("y"), Value("local", "x", "ITEM")}
Heads ==
  {CallOf(name, NoReceiver, <<a>>) : name \in {"DB1", "E", "L", "P"}, a \in {Local("x"), Value("local", "x", "ITEM")}}
  \cup {CallOf("DB1", Local("x"), <<Local("x")>>)}
BodyUnit(kind, negated, call) == [kind |-> kind, negated |-> negated, call |-> call]
BodyUnits ==
  {BodyUnit("condition", negated, CallOf("DB2", NoReceiver, <<a>>)) : negated \in BOOLEAN, a \in Operands}
  \cup {BodyUnit("condition", negated, CallOf("Q", receiver, <<a, b>>)) :
          negated \in BOOLEAN, a \in {Local("x"), Local("y")}, b \in Operands, receiver \in {NoReceiver}}
  \cup {BodyUnit("comparison", FALSE, CallOf("none", NoReceiver, <<Local("x"), Value("local", "y", "CHARACTER")>>)),
        BodyUnit("condition", FALSE, CallOf("Q", Local("y"), <<Local("x"), Local("y")>>)),
        BodyUnit("action", FALSE, CallOf("DB2", NoReceiver, <<Local("x")>>))}

RulesOf(heads, units, n) ==
  {[kind |-> IF head.name = "P" THEN "PROC" ELSE "IF", head |-> head, body |-> body] :
     head \in heads, body \in UpTo(n, units)}

MCStoryRules == RulesOf(Heads, BodyUnits, 2)
MCStoryCatalogs == {Catalog}

Facts ==
  {[call |-> CallOf(name, NoReceiver, <<a>>), negated |-> negated] :
     name \in {"DB1", "C", "M", "P"}, a \in {Value("string", "s", None), Value("string", "s", "CHARACTER")},
     negated \in BOOLEAN}

MCStoryGoals ==
  {[complete |-> complete, errors |-> errors, init |-> init, exit |-> <<>>, parents |-> {"G"},
    rules |-> <<rule>>] :
     complete \in BOOLEAN, errors \in BOOLEAN, init \in UpTo(1, Facts),
     rule \in RulesOf({h \in Heads : h.arguments[1] = Local("x")},
                      {BodyUnit(kind, f.negated, f.call) : kind \in {"condition", "action"}, f \in Facts}, 1)}

-----------------------------------------------------------------------------

(* Thoth files: statements about x, at the top and in a helper, in which    *)
(* every condition may be a guard; two classes and an enumeration.         *)

X == Flow!Name("x")
Reads ==
  [number |-> Flow!Literal("number"), nil |-> Flow!Literal("nil"), string |-> Flow!Literal("string"),
   ask |-> Flow!FunctionCall("Ask", <<>>), c |-> Flow!FunctionCall("C", <<>>),
   d |-> Flow!FunctionCall("D", <<>>), x |-> X, member |-> Flow!MemberAccess(X, "f"),
   value |-> Flow!MemberAccess(Flow!Name("E"), "A"), or |-> Flow!Binary("or", X, Flow!Literal("string")),
   help |-> Flow!FunctionCall("Help", <<X>>)]
Guards ==
  {Flow!Binary("==", X, Reads.nil), Flow!Parenthesized(Flow!Binary("~=", Reads.nil, X)), Reads.ask}
Use(e) == Flow!Call(Flow!FunctionCall("Use", <<e>>))
Sets(names, locals, values) ==
  {Flow!Assign(local, <<name>>, <<Reads[v]>>) : name \in names, local \in locals, v \in values}

Bodies ==
  {<<Flow!Return(<<>>)>>, <<Use(X)>>} \cup {<<set, Use(X)>> : set \in Sets({"x"}, BOOLEAN, {"string"})}
Plain ==
  Sets({"x"}, BOOLEAN, {"number", "nil", "ask"})
  \cup {Flow!If(<<g>>, <<b>>) : g \in Guards, b \in Bodies}
  \cup {Flow!Do(b) : b \in Bodies} \cup {Flow!While(g, b) : g \in Guards, b \in Bodies}
Branching ==
  {Flow!If(<<g>>, <<b, e>>) : g \in Guards, b, e \in Bodies}
  \cup {Flow!If(<<g, h>>, <<b, e>>) : g, h \in Guards, b, e \in Bodies}
  \cup {Flow!Try(<<Use(X)>> \o b, e) : b, e \in Bodies}
  \cup {Flow!Repeat(b, g) : b \in Bodies, g \in Guards} \cup {Flow!For(<<"x">>, Reads.ask, b) : b \in Bodies}

Promises(parameters, returns) == {[parameters |-> parameters, returns |-> <<returns>>]}
Classes ==
  ("C" :> [own |-> FALSE, overloads |-> Promises(<<>>, {"C", "nil"})])
  @@ ("D" :> [own |-> FALSE, overloads |-> Promises(<<>>, {"C", "D"})])
Helper == "Help" :> [own |-> TRUE, overloads |-> Promises("x" :> {"nil", "number"}, {"number"})]
ThothFile(block, contracts) ==
  [block |-> block, contracts |-> contracts, shadowed |-> {}, enumerations |-> "E" :> {"A"},
   classes |-> ("C" :> ("f" :> {"nil", "number"})) @@ ("D" :> (("f" :> {"string"}) @@ ("g" :> {"string"})))]

PickBlock ==
  /\ Choosing("blocks")
  /\ \E first \in Sets({"x"}, BOOLEAN, {"number", "ask"}), second \in Plain \cup Branching, third \in Plain :
       input' = [tag |-> "flow", file |-> ThothFile(<<first, second, third, Use(X)>>, <<>>)]

Steps ==
  Sets({"x"}, BOOLEAN, {"number", "nil", "ask", "c", "d", "x", "member", "or", "help"})
  \cup {Flow!Annotated({"number", "nil"}, set) : set \in Sets({"x"}, {TRUE}, {"ask"})}
  \cup {Use(Reads[v]) : v \in {"member", "value"}} \cup {Flow!Return(<<Reads[v]>>) : v \in {"x", "member", "nil"}}
  \cup Sets({"E"}, {TRUE}, {"c"})
  \cup {Flow!If(<<g>>, <<<<b>>>>) :
          g \in Guards, b \in Sets({"x"}, {FALSE}, {"number", "c"}) \cup {Flow!Return(<<>>), Flow!Return(<<X>>), Use(X)}}

PickHelper ==
  /\ Choosing("helpers")
  /\ \E first \in Sets({"x"}, {TRUE}, {"nil", "c"}), body \in [1 .. 2 -> Steps], last \in Sets({"x"}, {TRUE}, {"help"}),
        parameters \in {<<>>, <<"x">>}, contracts \in {Classes, Classes @@ Helper} :
       /\ contracts # Classes => parameters = <<"x">>
       /\ input' = [tag |-> "flow",
                    file |-> ThothFile(<<first, Flow!Function("Help", parameters, body), last,
                                         Use(Reads.x), Use(Reads.member), Use(Reads.value)>>, contracts)]

IsSound(F) == Flow!IsSettled(F) => Flow!TypesAreSound(F, Flow!Observed(F))
NeverGuesses(F) == F.loops = {} /\ F.functions = {} => Flow!TypesAreSound(F, Flow!Observed(F))

\* Whatever a Thoth file does when it runs, an expression has no value outside
\* the type that is reported of it; and hover over a member shows the same
\* type (thoth_flow.rs, thoth_members.rs).
FlowTypesAreSound ==
  input.tag = "flow" =>
    /\ IsSound(Flow!ThothFacts(input.file))
    /\ Flow!MemberViewsAgree(Flow!ThothFacts(input.file))

\* "This API never reports a guessed type" (thoth_flow.rs): not even of a name
\* that is read in a block before a later statement writes it.
FlowNeverGuesses == input.tag = "flow" => NeverGuesses(Flow!ThothFacts(input.file))

-----------------------------------------------------------------------------
(* Two loose files of one or two modules, one of them open, over installed *)
(* sources: what they declare, describe, annotate or call; and aliases and *)
(* classes of three names.                                                 *)

Typing == Contracts!Contract(<<"x: C">>, <<"D">>)
Retyping == Contracts!Contract(<<"x: D">>, <<>>)
Prose == Contracts!Contract(<<>>, <<>>)
HelperAt(line, parameters, contract) ==
  [name |-> "F", line |-> line, parameters |-> parameters, contract |-> contract]
HelperText(functions, calls) == [functions |-> functions, calls |-> calls, nominals |-> {}]
HelperTexts ==
  {HelperText(functions, {}) :
     functions \in {{}, {HelperAt(1, <<"x">>, Typing), HelperAt(2, <<"y">>, Typing)},
                    {HelperAt(1, <<"x">>, Typing), HelperAt(2, <<"y">>, Retyping)}}
                   \cup {{HelperAt(1, <<"x">>, c)} : c \in {Contracts!Unannotated, Typing, Prose}}}
  \cup {HelperText({}, {"F"})}
LooseFile(rank, disk, open, document) == [rank |-> rank, disk |-> disk, open |-> open, document |-> document]

HelperSymbols ==
  {Declares("function", "F", 1, c, <<"z">>, 1) : c \in {Contracts!Unannotated, Typing, Prose}}
  \cup {Declares("call", "F", 2, Contracts!Unannotated, <<"unknown", "unknown">>, 1)}
HelperSources ==
  {[module |-> module, package |-> package, entry |-> entry, priority |-> priority, index |-> 1,
    text |-> [parses |-> parses, symbols |-> {symbol}]] :
     module \in {1, 2}, package \in {1, 2}, entry \in {1, 2}, priority \in {0, 1}, parses \in {TRUE},
     symbol \in HelperSymbols}
InstalledHelpers ==
  {{}} \cup {{s} : s \in {s \in HelperSources : s.package = 1 /\ s.entry = 1 /\ s.priority = 0}}
  \cup {{s, [t EXCEPT !.text.parses = parses]} :
          s \in {s \in HelperSources : s.package = 1 /\ s.entry = 1 /\ s.priority = 0 /\ s.module = 1},
          t \in {t \in HelperSources : t.package = 2 /\ (t.module = 2 => t.entry = 1 /\ t.priority = 0)},
          parses \in BOOLEAN}

PickContracts ==
  /\ Choosing("contracts")
  /\ \E catalog \in InstalledHelpers, first, second \in HelperTexts, document \in HelperTexts, open \in BOOLEAN,
        ranks \in {<<1, 2>>, <<2, 2>>}, base \in {{1}, {1, 2}} :
       /\ ~open => document = HelperText({}, {})
       /\ open => /\ first = HelperText({}, {})
                  /\ second \in {first, HelperText({HelperAt(1, <<"x">>, Typing)}, {})}
       /\ input' = [tag |-> "contracts",
                    workspace |-> [ranks |-> {1, 2}, base |-> base, installed |-> catalog,
                                   files |-> <<LooseFile(ranks[1], first, FALSE, first),
                                               LooseFile(ranks[2], second, open, document)>>]]

ClassC == Contracts!Named("C")
Unions(types) == {Contracts!UnionOf(<<s, t>>) : s, t \in types}
Aliasing == {ClassC, Contracts!Named("A"), Contracts!Named("B"), Contracts!Primitive("nil")}
NominalOf(kind, name, line, type) == [kind |-> kind, name |-> name, line |-> line, type |-> type]
Fields == Contracts!UnionOf(<<Contracts!Named("A"), Contracts!ArrayOf(ClassC)>>)
ClassText == HelperText({}, {})

PickAliases ==
  /\ Choosing("aliases")
  /\ \E a, b \in Aliasing \cup Unions(Aliasing), c \in {{}, {1}, {1, 2}}, kind \in {"class", "alias"}, installed \in BOOLEAN :
       input' =
         [tag |-> "aliases",
          workspace |->
            [ranks |-> {1, 2}, base |-> {1},
             installed |-> {s \in {[module |-> 1, package |-> 1, entry |-> 1, priority |-> 0, index |-> 1,
                                     text |-> [parses |-> TRUE, symbols |-> {Declares("alias", "B", None, b, <<>>, 1)}]]} :
                              installed},
             files |-> <<LooseFile(1, [ClassText EXCEPT !.nominals =
                                         {NominalOf("class", "C", line, Fields) : line \in c}], FALSE, ClassText),
                         LooseFile(2, ClassText, TRUE,
                                   [ClassText EXCEPT !.nominals =
                                      {NominalOf(kind, "A", 1, a)}
                                      \cup (IF installed THEN {} ELSE {NominalOf("alias", "B", 2, b)})])>>]]

\* Completion, signature help, hover and type flow show one and the same
\* contract of a helper, whatever files, documents and packages declare it;
\* and types resolve to what their aliases lead to (language.rs, thoth.rs).
ContractViewsAgree ==
  /\ input.tag = "contracts" => /\ Contracts!ViewsAgree(input.workspace, "F")
                                /\ Contracts!OpeningShowsNothingNew(input.workspace, "F")
  /\ input.tag = "aliases" =>
       \A type \in {Contracts!Named("A"), Contracts!Named("B"), Contracts!UnionOf(<<Contracts!Named("B"), Contracts!Named("A")>>)} :
         /\ Contracts!ResolvesToItsLeaves(input.workspace, type)
         /\ \A name \in {"A", "B", "C"} : Contracts!NominalsAreResolved(input.workspace, name)

-----------------------------------------------------------------------------

(* Goal files for OsirisSchemas: literals, a local typed by a query, an    *)
(* unbound variable, a read, and rules that copy one column to another, in *)
(* cycles of two and of three.                                             *)

Occurs(c, role, type, variable, binding) ==
  [column |-> c, role |-> role,
   argument |-> [evidence |-> type, variable |-> variable, binding |-> binding]]
Literal(c, role, type) == Occurs(c, role, type, "none", 1)
Copy(c, d) == Occurs(d, "write", None, "database", c)

MCOccurrences ==
  {Occurs(1, "write", "CHARACTER", "other", 1), Occurs(2, "write", "ITEM", "database", 1),
   Literal(3, "write", "CHARACTER"), Literal(3, "write", "ITEM"), Literal(3, "write", "GUIDSTRING"),
   Literal(2, "write", "MODDED"), Occurs(1, "write", "ITEM", "unbound", 1), Literal(3, "read", "ITEM"),
   Copy(1, 2), Copy(2, 1), Copy(2, 3), Copy(3, 1)}

MCMaxOccurrences(p) == IF p = 1 THEN 3 ELSE 1

\* Columns that depend on each other have one type, in whatever order they are
\* visited (lib.rs).
SchemaTypesAreSettled == input.tag = "schemas" => TypesAreSettled

\* The order of paths does not decide what is inferred (lib.rs).
SchemaPathsDoNotDecide == input.tag = "schemas" => PathsDoNotDecide

-----------------------------------------------------------------------------
(* Stats entries under two spell schemas and one of passives.              *)

WordOf(name) == [is |-> "word", name |-> name, group |-> FALSE]
Halves(n) == Stats!Number(n)
ListOf(parts) == [is |-> "list", delimiter |-> ";", parts |-> parts]
CallOfValue(name, parts) == [is |-> "call", name |-> name, parts |-> parts]
Uuid == [is |-> "uuid", name |-> "u"]
Blank == [is |-> "empty"]

FieldOf(name, type, low, enumeration, object) ==
  [name |-> name, export |-> None, type |-> type, low |-> low, high |-> None, enumeration |-> enumeration,
   delimiter |-> ";", object |-> object]
Levels ==
  {FieldOf("Level", "integer", 2, None, None), FieldOf("Level", "float", 3, None, None),
   FieldOf("Level", "boolean", None, None, None), FieldOf("Level", "enumerationlist", None, "E", None),
   [FieldOf("Old", "integer", None, None, None) EXCEPT !.export = "Level"]}
Effects == {FieldOf("Effect", None, None, None, object) : object \in {None, "StatusData", "SpellData"}}
Schema(id, name, export, category, fields) ==
  [id |-> id, name |-> name, export |-> export, object |-> None, category |-> category,
   fields |-> [f \in {field.name : field \in fields} |-> CHOOSE field \in fields : field.name = f]]
SpellSchemas ==
  {<<Schema(1, <<"Spell_", "Rush">>, "SpellData", None, first), Schema(2, <<"Spell_", "Zone">>, None, "SpellData", second),
     Schema(3, <<"PassiveData">>, None, None, {})>> :
     first \in {{l, e} : l \in Levels, e \in Effects}, second \in {{e} : e \in Effects} \cup {{l} : l \in Levels}}

Typing1 == Stats!Clause("type", "SpellData", Blank)
Data(field, values) == {Stats!Clause("data", field, v) : v \in values}
PickEntry ==
  /\ Choosing("entries")
  /\ \E catalog \in SpellSchemas, stem \in {<<"Odd">>, <<"Spell_", "RUSH">>, <<"Spell_", "Zone">>},
        select \in {<<>>} \cup {<<c>> : c \in Data("SpellType", {WordOf("Rush"), WordOf("Odd")})},
        level \in Data("Level", {Blank, Halves(2), Halves(3), WordOf("a"), ListOf(<<WordOf("a"), Blank, WordOf("true")>>)}) :
       input' = [tag |-> "entry", catalog |-> catalog, stem |-> stem,
                 clauses |-> <<Typing1>> \o select \o <<level, Stats!Clause("data", "Effect", WordOf("a"))>>]

Simple == {WordOf("a"), [WordOf("b") EXCEPT !.group = TRUE], [is |-> "string", name |-> "SELF", group |-> FALSE], Uuid, Blank}
Values ==
  Simple \cup {[is |-> "handle", name |-> "h"]}
  \cup {CallOfValue(name, parts) : name \in {"Apply", "Mod"}, parts \in {<<>>} \cup {<<s, t>> : s, t \in Simple}}
  \cup {ListOf(<<CallOfValue("Mod", <<CallOfValue("Apply", <<WordOf("a"), s, WordOf("b")>>)>>), CallOfValue("Mod", <<s>>)>>) : s \in Simple}
  \cup {[is |-> "prefixed", parts |-> <<CallOfValue("Apply", <<s, t, WordOf("b")>>)>>] : s, t \in Simple}
PickValue ==
  /\ Choosing("values")
  /\ \E value \in Values, field \in {"Passives", "Effect", "Boosts", "StatusOnEquip"}, object \in {None, "StatusData"},
        more \in {<<>>} \cup {<<c>> : c \in Data("Boosts", {Blank, CallOfValue("Mod", <<>>)})} \cup {<<c>> : c \in Data("UUID", {Uuid, WordOf("a")})},
        place \in 1 .. 3 :
       LET clauses == <<Stats!Clause("using", "Parent", Blank), Stats!Clause("data", field, value)>> \o more IN
       input' = [tag |-> "entry", stem |-> <<"Odd">>,
                 catalog |-> <<Schema(1, <<"Spell_", "Rush">>, "SpellData", None, {FieldOf("Effect", None, None, None, object)})>>,
                 clauses |-> SubSeq(clauses, 1, place - 1) \o <<Typing1>> \o SubSeq(clauses, place, Len(clauses))]

SchemaElements ==
  {[element |-> "open", values |-> Schema(id, <<name>>, None, None, {})] : id \in {1, None}, name \in {"a", "b"}}
  \cup {[element |-> "field", values |-> FieldOf(name, None, None, None, None)] : name \in {"a", None}}
  \cup {[element |-> "close"]}
EnumerationElements ==
  {[element |-> e, name |-> name] : e \in {"open", "item"}, name \in {"a", "b", None}} \cup {[element |-> "close"]}
PickCatalogs ==
  /\ Choosing("catalogs")
  /\ \/ \E first \in UpTo(3, SchemaElements), second \in UpTo(2, SchemaElements) : input' = [tag |-> "schemafiles", first |-> first, second |-> second]
     \/ \E first \in UpTo(3, EnumerationElements), second \in UpTo(2, EnumerationElements) : input' = [tag |-> "enumerations", first |-> first, second |-> second]

XmlAttributes ==
  {[element |-> "attribute", id |-> id, value |-> value, translated |-> FALSE] :
     id \in {"MapKey", "UUID", "Name"}, value \in {Uuid, WordOf("a"), Blank}}
  \cup {[element |-> "attribute", id |-> "Title", value |-> [is |-> "handle", name |-> "h"], translated |-> TRUE]}
Tree(id, items) == [element |-> "tree", id |-> id, items |-> items]
Trees1 == {Tree("Item", items) : items \in UpTo(2, XmlAttributes)}
PickTree ==
  /\ Choosing("trees")
  /\ \E before, after \in UpTo(1, XmlAttributes), inner \in Trees1, more \in {<<>>} \cup {<<t>> : t \in {Tree("Item", <<>>)}} :
       input' = [tag |-> "tree", tree |-> Tree("Items", before \o <<inner>> \o more \o after)]

TagAttributes ==
  [name : {<<"Tooltip">>, <<"Type">>, <<"x">>}, quote : Stats!Quotes,
   value : {<<>>, <<"Spell">>, <<"x", ">", "Tooltip", "=">>, <<"<LSTag", " ">>}]
Pieces ==
  {[tag |-> TRUE, attributes |-> attributes] : attributes \in UpTo(2, TagAttributes)}
  \cup {[tag |-> FALSE, text |-> text] : text \in UpTo(2, {"'", ">", " ", "x"})}
PickTooltips ==
  /\ Choosing("tooltips")
  /\ \E first \in Pieces, middle \in {p \in Pieces : ~p.tag},
        last \in {[tag |-> TRUE, attributes |-> <<[name |-> <<"Tooltip">>, quote |-> "'", value |-> <<"x", "\"">>]>>]} :
       input' = [tag |-> "tooltips", pieces |-> <<first, middle, last>>]

EntryIsRead(catalog, stem, entry, schemas) ==
  /\ Stats!SelectsOrReports(catalog, stem, entry.kind, entry.fields)
  /\ Stats!ErrorsAreCertain("E" :> {"a", "b"}, entry.kind, entry.fields, schemas)
  /\ Stats!NarrowingIsMonotone(catalog, "E" :> {"a", "b"}, stem, entry.kind, entry.fields)
  /\ Stats!KindsAreCertain(input.clauses, schemas)
  /\ Stats!CallsAreReferences(entry)
  /\ Stats!ObjectsAreStricter(catalog, "E" :> {"a", "b"}, stem, entry.kind, entry.fields, schemas)
  /\ Stats!FormatsAgree(catalog, entry)
  /\ Stats!EntriesStandAlone(catalog, stem, input.clauses, entry)

\* What the readers make of Stats entries, Toolkit objects, resources, tooltips
\* and schemas is what those write, and a report holds under every schema that
\* an entry may have (parser.rs, schema.rs, diagnostics.rs).
StatsAreRead ==
  /\ input.tag = "entry" =>
       /\ \A entry \in {Stats!ParseEntry(input.catalog, input.stem, input.clauses)} :
            EntryIsRead(input.catalog, input.stem, entry,
                        Stats!InferLegacy(input.catalog, input.stem, entry.kind, entry.fields))
       /\ Stats!TypeMayComeLater(input.catalog, input.stem, input.clauses)
  /\ input.tag = "schemafiles" => Stats!LaterSchemasReplace(input.first, input.second)
  /\ input.tag = "enumerations" => Stats!EnumerationsAccumulate(input.first, input.second)
  /\ input.tag = "tree" => Stats!ResourcesAreRead(input.tree)
  /\ input.tag = "tooltips" => Stats!TooltipsAreRead(input.pieces)

-----------------------------------------------------------------------------

MCInit ==
  \/ ReadersInit
  \/ /\ files = <<>>
     /\ input \in {[tag |-> "none", family |-> family] : family \in Families}

MCNext ==
  \/ ReadersNext
  \/ /\ \/ PickText
        \/ PickAttributes
        \/ PickStatement
        \/ PickBlock
        \/ PickHelper
        \/ PickContracts
        \/ PickAliases
        \/ PickEntry
        \/ PickValue
        \/ PickCatalogs
        \/ PickTree
        \/ PickTooltips
     /\ UNCHANGED files

MCSpec == MCInit /\ [][MCNext]_<<files, input>>
=============================================================================
