--------------------------- MODULE ThothContracts ---------------------------
(***************************************************************************)
(* Thoth helpers and their annotations in crates/bg3-ide/src/thoth.rs and  *)
(* language.rs: which declaration of a name, and which class or alias,     *)
(* counts for type flow, and what completion, signature help and hover     *)
(* show of it, each with a search of its own over loose files, open        *)
(* documents and installed packages.                                       *)
(*                                                                         *)
(* A workspace w has ranks (modules, the highest last), base (the ranks of *)
(* base modules), files (of each path its rank, the text on disk, whether  *)
(* it is open and the text of its document) and installed (a catalog of    *)
(* PackagedSources whose symbols are Thoth's).  A text has functions, each *)
(* with its line, parameters and contract, nominals (aliases and classes)  *)
(* and calls.  A contract is Unannotated or the parameters and returns     *)
(* that comments write; both are empty where they only describe.           *)
(***************************************************************************)
EXTENDS PackagedSources, SequencesExt

Unannotated == [annotated |-> FALSE, parameters |-> <<>>, returns |-> <<>>]
Contract(parameters, returns) ==
  [annotated |-> TRUE, parameters |-> parameters, returns |-> returns]
IsTyped(contract) == contract.parameters # <<>> \/ contract.returns # <<>>

(* visible_thoth_files: an open document stands for its file.              *)
VisibleText(f) == IF f.open THEN f.document ELSE f.disk
PathsAt(w, rank) == {p \in DOMAIN w.files : w.files[p].rank = rank}
Uppermost(ranks) == CHOOSE r \in ranks : \A s \in ranks : s <= r
IsOne(S) == Cardinality(S) = 1
The(S) == CHOOSE x \in S : TRUE

(* loose_function_candidates                                               *)
LooseFunctions(w, rank, name) ==
  UNION {{[path |-> p, function |-> f] : f \in {f \in VisibleText(w.files[p]).functions : f.name = name}} :
           p \in PathsAt(w, rank)}
RanksDeclaring(w, name) == {rank \in w.ranks : LooseFunctions(w, rank, name) # {}}

(* WorkspaceSnapshot::resolve, its highest rank, and its first.            *)
TopDeclarations(w, name) ==
  IF RanksDeclaring(w, name) = {} THEN {}
  ELSE LooseFunctions(w, Uppermost(RanksDeclaring(w, name)), name)
InFileOrder(declarations) ==
  SetToSortSeq(declarations, LAMBDA c, d : \/ c.path < d.path
                                           \/ c.path = d.path /\ c.function.line < d.function.line)

-----------------------------------------------------------------------------
(* What packages have installed.                                           *)

ApiOf(w, rank, kind, name) == ResolveApi(w.installed, rank, kind, name)
BaseRanks(w, kinds, name) ==
  {rank \in w.base : \E kind \in kinds : ApiOf(w, rank, kind, name).tag # "missing"}

(* packaged_thoth_candidates: of each entry the records of its foremost    *)
(* sources, tied or not; the calls of a name that none of them declares.   *)
RecordsOf(w, rank) ==
  {s \in ParseFacts(w.installed).records :
     s.module = rank /\ s \in Foremost(SourcesFor(w.installed, rank, s.entry))}
IsTied(w, s) == Cardinality(Foremost(SourcesFor(w.installed, s.module, s.entry))) > 1

InstalledDeclarations(w, rank, name) ==
  UNION {{[source |-> s, symbol |-> y] : y \in {y \in s.text.symbols : y.kind = "function" /\ y.name = name}} :
           s \in RecordsOf(w, rank)}
InstalledCalls(w, rank, name) ==
  UNION {{[source |-> s, symbol |-> y] : y \in {y \in s.text.symbols : y.kind = "call" /\ y.name = name}} :
           s \in RecordsOf(w, rank)}

NoEvidence == [rank |-> 0, lists |-> {}, ambiguous |-> FALSE]
Evidence(rank, found, ambiguous) ==
  [rank |-> rank, lists |-> {d.symbol.parameters : d \in found}, ambiguous |-> ambiguous]
Gathered(w, rank, declared, called) ==
  IF declared # {}
  THEN Evidence(rank, declared, \/ Cardinality(declared) > 1
                                \/ \E d \in declared : IsTied(w, d.source))
  ELSE Evidence(rank, called, \E c \in called : IsTied(w, c.source))

PackagedCandidates(w, name) ==
  LET At(rank) == Gathered(w, rank, InstalledDeclarations(w, rank, name), InstalledCalls(w, rank, name))
      having == {rank \in w.base : At(rank).lists # {}}
  IN  IF having = {} THEN NoEvidence ELSE At(Uppermost(having))

(* packaged_thoth_signature: what all declarations call a parameter.       *)
Width(lists) == CHOOSE n \in {Len(l) : l \in lists} : \A l \in lists : Len(l) <= n
NameAt(lists, i) ==
  LET names == {l[i] : l \in {l \in lists : i <= Len(l)}}
  IN  IF IsOne(names) THEN The(names) ELSE "unknown"
PackagedSignature(lists) == [i \in 1 .. Width(lists) |-> NameAt(lists, i)]

(* packaged_thoth_annotation                                               *)
PackagedAnnotation(w, name) ==
  LET having == BaseRanks(w, {"function"}, name)
      found == ApiOf(w, Uppermost(having), "function", name)
  IN  IF having = {} \/ found.tag # "unique" THEN Unannotated ELSE The(found.candidates).role

-----------------------------------------------------------------------------
(* What is shown of a helper: where it is from, its contract if one is     *)
(* written and all agree, and the parameters of its label.                 *)

Hidden == [source |-> "none", contract |-> Unannotated, parameters |-> <<>>]
Shown(source, contract, parameters) ==
  [source |-> source, contract |-> contract,
   parameters |-> IF IsTyped(contract) THEN contract.parameters ELSE parameters]

(* loose_thoth_annotation_signature: the contract that all tied have.      *)
ContractAt(declaration) == declaration.function.contract
FirstContract(declarations) == ContractAt(InFileOrder(declarations)[1])
AgreedContract(declarations) ==
  LET contracts == {ContractAt(d) : d \in declarations}
  IN  IF IsOne(contracts) THEN The(contracts) ELSE Unannotated
FirstShown(top) == Shown("loose", AgreedContract(top), InFileOrder(top)[1].function.parameters)

InstalledShown(w, name, evidence) ==
  IF evidence = NoEvidence THEN {}
  ELSE {Shown("installed", PackagedAnnotation(w, name), PackagedSignature(evidence.lists))}

(* signature_help, for names that are no function of the game.             *)
LooseOrInstalled(top, installed) ==
  IF top # {} THEN FirstShown(top) ELSE IF installed = {} THEN Hidden ELSE The(installed)
SignatureHelp(w, name) ==
  LooseOrInstalled(TopDeclarations(w, name), InstalledShown(w, name, PackagedCandidates(w, name)))

(* complete_thoth_functions: an item for every declaration that is tied,   *)
(* with what loose_thoth_completion_annotation finds at their rank.        *)
CompletionContract(w, rank, name) == AgreedContract(LooseFunctions(w, rank, name))
LooseItems(top, contract) == {Shown("loose", contract, d.function.parameters) : d \in top}
InstalledItems(annotation, evidence) == {Shown("installed", annotation, list) : list \in evidence.lists}
Completions(w, name) ==
  LET declaring == RanksDeclaring(w, name) IN
  IF declaring # {}
  THEN LooseItems(TopDeclarations(w, name), CompletionContract(w, Uppermost(declaring), name))
  ELSE InstalledItems(PackagedAnnotation(w, name), PackagedCandidates(w, name))

(* The hover over a use: annotated_thoth_hover or the plain symbol; then   *)
(* loose_thoth_hover's calls (of files on disk), and installed evidence.   *)
AnnotatedHover(top) == IF top = {} THEN {} ELSE {FirstShown(top)}
LooseHover(w, name) ==
  {[Hidden EXCEPT !.source = "observed"] : p \in {p \in DOMAIN w.files : name \in w.files[p].disk.calls}}
InstalledHover(annotation) ==
  {[source |-> "installed", contract |-> c, parameters |-> c.parameters] : c \in {c \in {annotation} : c.annotated}}
EvidenceHover(evidence) ==
  IF evidence = NoEvidence THEN {} ELSE {Shown("installed", Unannotated, PackagedSignature(evidence.lists))}
FirstOf(hovers) == The(SelectSeq(hovers, LAMBDA h : h # {})[1])
Hover(w, name) ==
  FirstOf(<<AnnotatedHover(TopDeclarations(w, name)), LooseHover(w, name),
            InstalledHover(PackagedAnnotation(w, name)), EvidenceHover(PackagedCandidates(w, name)), {Hidden}>>)

-----------------------------------------------------------------------------
(* What type flow takes: layer by layer, a base module's packages right    *)
(* below its loose files; what is declared twice has no contract.          *)

RanksKnowing(w, name) == RanksDeclaring(w, name) \cup BaseRanks(w, {"function"}, name)

(* resolve_thoth_function                                                  *)
ContractOf(loose, installed) ==
  CASE loose # {} -> IF IsOne(loose) THEN ContractAt(The(loose)) ELSE Unannotated
    [] loose = {} /\ installed.tag = "unique" -> The(installed.candidates).role
    [] OTHER -> Unannotated
ResolveFunction(w, name) ==
  LET At(rank) == ContractOf(LooseFunctions(w, rank, name), ApiOf(w, rank, "function", name))
      knowing == RanksKnowing(w, name)
  IN  IF knowing = {} THEN Unannotated ELSE At(Uppermost(knowing))

(* loose_nominal_candidates: aliases and classes of one name rival.        *)
Nominal(where, kind, type) == [where |-> where, kind |-> kind, type |-> type]
LooseNominals(w, rank, name) ==
  UNION {{Nominal(<<p, n.line>>, n.kind, n.type) :
            n \in {n \in VisibleText(w.files[p]).nominals : n.name = name}} : p \in PathsAt(w, rank)}
InstalledNominals(w, rank, name) ==
  UNION {{Nominal(<<d.entry, d.line>>, d.kind, d.role) : d \in ApiOf(w, rank, kind, name).candidates} :
           kind \in {"alias", "class"}}

(* resolve_nominal; None where it is missing or ambiguous.                 *)
NominalsAt(w, rank, name, loose) ==
  IF loose = {} /\ rank \in w.base THEN InstalledNominals(w, rank, name) ELSE loose
OnlyAtTop(layers) ==
  IF layers = {} THEN {}
  ELSE LET top == CHOOSE l \in layers : \A m \in layers : m.rank <= l.rank
       IN  IF IsOne(top.found) THEN top.found ELSE {}
ResolveNominal(w, name) ==
  LET layers == {[rank |-> rank, found |-> NominalsAt(w, rank, name, LooseNominals(w, rank, name))] : rank \in w.ranks}
  IN  OnlyAtTop({l \in layers : l.found # {}})

-----------------------------------------------------------------------------
(* TypeExpression: a tree of unions and arrays over names; union drops     *)
(* what is there already and is its only member if it has one.             *)

Type(kind, name, members) == [kind |-> kind, name |-> name, members |-> members]
UnknownType == Type("unknown", "", <<>>)
Primitive(name) == Type("primitive", name, <<>>)
Named(name) == Type("name", name, <<>>)
ArrayOf(type) == Type("array", "", <<type>>)
UnionOf(types) == Type("union", "", types)

Joined(kept, t) ==
  kept \o SelectSeq(IF t.kind = "union" THEN t.members ELSE <<t>>, LAMBDA m : m \notin ToSet(kept))
Union(members) ==
  CASE Len(members) = 0 -> UnknownType
    [] Len(members) = 1 -> members[1]
    [] OTHER            -> UnionOf(members)

(* resolve_thoth_type_inner: an alias stands for what it names; where an   *)
(* alias comes back to itself nothing is known.                            *)
RECURSIVE ResolveOf(_, _, _)
ResolveName(w, name, visited, found) ==
  IF name \in visited \/ found = {} THEN UnknownType
  ELSE IF The(found).kind = "class" THEN Named(name)
  ELSE ResolveOf(w, The(found).type, visited \cup {name})
ResolveOf(w, type, visited) ==
  CASE type.kind = "name"  -> ResolveName(w, type.name, visited, ResolveNominal(w, type.name))
    [] type.kind = "union" -> Union(FoldLeft(LAMBDA kept, t : Joined(kept, ResolveOf(w, t, visited)), <<>>, type.members))
    [] type.kind = "array" -> ArrayOf(ResolveOf(w, type.members[1], visited))
    [] OTHER               -> type
ResolveType(w, type) == ResolveOf(w, type, {})

(* resolve_thoth_alias, resolve_thoth_class; fields are the members.       *)
AliasOf(w, found) ==
  IF found = {} \/ The(found).kind # "alias" THEN UnknownType ELSE ResolveType(w, The(found).type)
ResolveAlias(w, name) == AliasOf(w, ResolveNominal(w, name))
FieldsOf(w, found) ==
  IF found = {} \/ The(found).kind # "class" THEN <<>>
  ELSE LET fields == The(found).type.members IN [i \in DOMAIN fields |-> ResolveType(w, fields[i])]
ResolveClass(w, name) == FieldsOf(w, ResolveNominal(w, name))

-----------------------------------------------------------------------------
(* Every view of a helper shows the same one: completion offers it exactly *)
(* if signature help and hover know it, all from the same kind of source,  *)
(* with the same types if any; and a loose contract is shown only if every *)
(* tied declaration has it.  (The hover takes calls in files for more than *)
(* what is installed, and shows no parameters of an installed helper that  *)
(* is only described.)                                                     *)
SearchesMeet(w, name) ==
  \A rank \in RanksDeclaring(w, name) : \A base \in BaseRanks(w, {"function"}, name) : base <= rank

HoverAgrees(hover, help) ==
  \/ (hover.source = "observed" /\ help.source # "loose")
  \/ /\ help.source = hover.source
     /\ help.contract.annotated = hover.contract.annotated
     /\ hover = help \/ (help.source = "installed" /\ ~IsTyped(help.contract))
CompletionAgrees(items, help, top) ==
  /\ help = Hidden <=> items = {}
  /\ \A i \in items : i.source = help.source /\ i.contract = help.contract
  /\ help.source = "loose" /\ items # {} => help \in items
  /\ help.source = "loose" /\ help.contract.annotated =>
       \A d \in top : d.function.contract = help.contract
(* Type flow never has other types than those that are shown, and has none *)
(* only where the name is declared twice.                                  *)
FlowAgrees(contract, help, top) ==
  /\ contract.annotated => help.contract = contract
  /\ help.source = "loose" /\ help.contract.annotated => contract.annotated = IsOne(top)
  /\ help.source = "installed" => contract = help.contract
AgreeWith(w, name, help, top) ==
  /\ HoverAgrees(Hover(w, name), help)
  /\ CompletionAgrees(Completions(w, name), help, top)
  /\ SearchesMeet(w, name) /\ help # Hidden => FlowAgrees(ResolveFunction(w, name), help, top)
ViewsAgree(w, name) == AgreeWith(w, name, SignatureHelp(w, name), TopDeclarations(w, name))

(* Opening a file unchanged changes no answer, and closing it brings its   *)
(* disk text back.                                                         *)
Opened(w, p) == [w EXCEPT !.files[p].open = TRUE, !.files[p].document = w.files[p].disk]
Answers(w, name) == <<SignatureHelp(w, name), Completions(w, name), ResolveFunction(w, name)>>
OpeningShowsNothingNew(w, name) ==
  Cardinality({Answers(v, name) : v \in {w} \cup {Opened(w, p) : p \in {p \in DOMAIN w.files : ~w.files[p].open}}}) = 1

(* A type without arrays resolves to the classes and primitives that its   *)
(* names lead to through aliases, and to something unknown exactly if one  *)
(* leads nowhere, to rivals, or back to itself.                            *)
RECURSIVE LeavesOf(_)
LeavesOf(type) == IF type.kind = "union" THEN UNION {LeavesOf(t) : t \in ToSet(type.members)} ELSE {type}
Further(found) == IF found = {} \/ The(found).kind = "class" THEN {} ELSE LeavesOf(The(found).type)
NextNames(w, name) == Further(ResolveNominal(w, name))
RECURSIVE Reached(_, _)
Reached(w, leaves) ==
  LET further == UNION {NextNames(w, t.name) : t \in {t \in leaves : t.kind = "name"}} IN
  IF further \subseteq leaves THEN leaves ELSE Reached(w, leaves \cup further)

Leading(w, t) ==
  CASE t.kind # "name" -> "itself"
    [] t.kind = "name" /\ ResolveNominal(w, t.name) = {} -> "nowhere"
    [] OTHER -> IF t \in Reached(w, NextNames(w, t.name)) THEN "nowhere"
                ELSE IF NextNames(w, t.name) = {} THEN "itself" ELSE "further"
Settled(led) ==
  {t \in DOMAIN led : led[t] = "itself"}
  \cup (IF \E t \in DOMAIN led : led[t] = "nowhere" THEN {UnknownType} ELSE {})
IsLed(w, resolved, reached) ==
  /\ LeavesOf(resolved) = Settled([t \in reached |-> Leading(w, t)])
  /\ ResolveType(w, resolved) = resolved
ResolvesToItsLeaves(w, type) == IsLed(w, ResolveType(w, type), Reached(w, LeavesOf(type)))

(* An alias resolves by itself as where it is used, and the fields of a    *)
(* class are as resolved as any type.                                      *)
ResolvesAlone(w, name, resolved) ==
  resolved # UnknownType => LeavesOf(resolved) = LeavesOf(ResolveType(w, Named(name)))
NominalsAreResolved(w, name) ==
  /\ ResolvesAlone(w, name, ResolveAlias(w, name))
  /\ \A type \in ToSet(ResolveClass(w, name)) : ResolveType(w, type) = type
=============================================================================
