-------------------------- MODULE PackagedSources --------------------------
(***************************************************************************)
(* crates/bg3-index/src/thoth.rs, thoth_facts.rs, thoth_api.rs,            *)
(* osiris_api.rs and packaged_stats.rs of bg3-ls: the sources that         *)
(* installed packages hold for the base modules, what is parsed from them, *)
(* and how patches override each other.                                    *)
(*                                                                         *)
(* A package is its name, its owner (the module it is named after, or      *)
(* None), whether it is a patch, its layout, priority and entries.  An     *)
(* entry is its place in the file list, its family (thoth, osiris, stats), *)
(* its module as spelled and in lower case, its path, its size, whether it *)
(* can be read as UTF-8, and its text; a text is whether it parses and the *)
(* symbols it declares, each at its line.  Names, paths and lines are      *)
(* numbers, for their order.                                               *)
(***************************************************************************)
EXTENDS Naturals, FiniteSets

CONSTANTS
  MaxEntry,     \* MAX_THOTH_ENTRY_SIZE, MAX_STATS_ENTRY_SIZE
  MaxCatalog    \* MAX_THOTH_CATALOG_SIZE, MAX_STATS_CATALOG_SIZE

(* No two packages have one name, and no two entries one place.            *)
IsPackage(p) ==
  /\ p = [name |-> p.name, owner |-> p.owner, patch |-> p.patch, layout |-> p.layout,
          opens |-> p.opens, priority |-> p.priority, parts |-> p.parts, entries |-> p.entries]
  /\ {p.name, p.priority} \subseteq Nat /\ IsFiniteSet(p.entries)
  /\ \A e \in p.entries :
       /\ e = [index |-> e.index, family |-> e.family, module |-> e.module, folded |-> e.folded,
               path |-> e.path, size |-> e.size, utf8 |-> e.utf8, text |-> e.text]
       /\ {e.index, e.path, e.size} \subseteq Nat /\ IsFiniteSet(e.text.symbols)
       /\ \A symbol \in e.text.symbols : symbol.line \in Nat
  /\ \A e, f \in p.entries : e.index = f.index => e = f

IsInstallation(packages) ==
  /\ IsFiniteSet(packages)
  /\ \A p \in packages : IsPackage(p)
  /\ \A p, q \in packages : p.name = q.name => p = q

IsCatalog(catalog) ==
  /\ IsFiniteSet(catalog)
  /\ \A s \in catalog :
       /\ {s.package, s.entry, s.priority} \subseteq Nat /\ IsFiniteSet(s.text.symbols)
       /\ \A symbol \in s.text.symbols : symbol.line \in Nat

Renamed(packages, names) == {[p EXCEPT !.name = names[@]] : p \in packages}

Filed(packages, family) ==
  {[p EXCEPT !.entries = {[e EXCEPT !.family = family] : e \in @}] : p \in packages}

-----------------------------------------------------------------------------
Failed == [tag |-> "error", sources |-> {}]
Read(sources) == [tag |-> "ok", sources |-> sources]

Source(p, e, module) ==
  [module |-> module, package |-> p.name, entry |-> e.path, priority |-> p.priority,
   index |-> e.index, text |-> e.text]

-----------------------------------------------------------------------------
(* packaged_thoth_package_candidates: the packages of the base modules and *)
(* the patches; what else the game's data holds is not looked at.          *)
Candidates(packages, bases) == {p \in packages : p.patch \/ p.owner \in bases}

EntriesOf(packages, family) ==
  UNION {{<<p, e>> : e \in {e \in p.entries : e.family = family}} : p \in packages}

Bytes(entries) == UNION {{<<pe, n>> : n \in 1 .. pe[2].size} : pe \in entries}

(* The bounds on an entry and on all that one catalog reads; one package,  *)
(* entry or text that cannot be read fails the catalog.                    *)
Readable(packages, entries) ==
  /\ \A p \in packages : p.layout = "supported" /\ p.opens
  /\ \A pe \in entries : pe[2].size <= MaxEntry /\ pe[2].utf8
  /\ Cardinality(Bytes(entries)) <= MaxCatalog

(* read_packaged_thoth_catalog and read_packaged_osiris_catalog            *)
ReadSources(packages, bases, family) ==
  LET selected == Candidates(packages, bases)
      entries == {pe \in EntriesOf(selected, family) : pe[2].module \in bases}
  IN  IF Readable(selected, entries)
      THEN Read({Source(pe[1], pe[2], pe[2].module) : pe \in entries})
      ELSE Failed

(* read_packaged_stats_catalog: an entry is matched to a base module in    *)
(* lower case, but its source must spell the module as it is configured;   *)
(* of entries of one path the last is read, once for each.                 *)
ReadStats(packages, bases) ==
  LET selected == Candidates(packages, {b.name : b \in bases})
      Module(e) == (CHOOSE b \in bases : b.folded = e.folded).name
      entries == {pe \in EntriesOf(selected, "stats") : \E b \in bases : b.folded = pe[2].folded}
      Last(p, e) == CHOOSE f \in p.entries :
        f.path = e.path /\ \A g \in p.entries : g.path = e.path => g.index <= f.index
  IN  IF /\ Readable(selected, entries)
         /\ \A pe \in entries : pe[2].module = Module(pe[2])
      THEN Read({[Source(pe[1], Last(pe[1], pe[2]), Module(pe[2])) EXCEPT !.index = pe[2].index] :
                   pe \in entries})
      ELSE Failed

-----------------------------------------------------------------------------
(* PackagedThothCatalog                                                    *)

Missing == [tag |-> "missing", candidates |-> {}]
Unique(c) == [tag |-> "unique", candidates |-> {c}]
Ambiguous(cs) == [tag |-> "ambiguous", candidates |-> cs]

(* sources_for: from the highest priority, then by package and text.       *)
SourcesFor(catalog, module, entry) ==
  {s \in catalog : s.module = module /\ s.entry = entry}

Foremost(sources) == {s \in sources : \A t \in sources : t.priority <= s.priority}

(* PackagedThothCatalog::resolve: the highest package, unless two are.     *)
ResolveSource(catalog, module, entry) ==
  LET top == Foremost(SourcesFor(catalog, module, entry)) IN
  CASE top = {}              -> Missing
    [] Cardinality(top) = 1  -> Unique(CHOOSE s \in top : TRUE)
    [] OTHER                 -> Ambiguous(top)

(* What a catalog proves: the sources that no other overrides or ties.     *)
IsEffective(catalog, s) == ResolveSource(catalog, s.module, s.entry) = Unique(s)

(* parse_packaged_thoth_facts: the texts that parse; a rejected one counts *)
(* as relevant unless a higher one replaces it.                            *)
ParseFacts(catalog) ==
  LET rejected == {s \in catalog : ~s.text.parses} IN
  [records  |-> catalog \ rejected,
   rejected |-> Cardinality(rejected),
   relevant |-> Cardinality({s \in rejected :
                  s \in ResolveSource(catalog, s.module, s.entry).candidates})]

-----------------------------------------------------------------------------
(* PackagedThothApiIndex and PackagedOsirisIndex: the symbols of the       *)
(* effective sources.                                                      *)

Declaration(s, symbol) ==
  [module |-> s.module, priority |-> s.priority, package |-> s.package, entry |-> s.entry,
   kind |-> symbol.kind, name |-> symbol.name, arity |-> symbol.arity,
   role |-> symbol.role, parameters |-> symbol.parameters, line |-> symbol.line]

DeclaredWithRejected(catalog, kinds) ==
  UNION {{Declaration(s, symbol) : symbol \in {y \in s.text.symbols : y.kind \in kinds}} :
           s \in {s \in ParseFacts(catalog).records :
                    IsEffective(ParseFacts(catalog).records, s)}}

Declared(catalog, kinds) ==
  UNION {{Declaration(s, symbol) : symbol \in {y \in s.text.symbols : y.kind \in kinds}} :
           s \in {s \in ParseFacts(catalog).records : IsEffective(catalog, s)}}

(* PackagedThothApiIndex::resolve                                          *)
ResolveApi(catalog, module, kind, name) ==
  LET top == Foremost({d \in Declared(catalog, {kind}) : d.module = module /\ d.name = name}) IN
  CASE top = {}              -> Missing
    [] Cardinality(top) = 1  -> Unique(CHOOSE d \in top : TRUE)
    [] OTHER                 -> Ambiguous(top)

Callables(catalog, module) == {d \in Declared(catalog, {"callable"}) : d.module = module}

First(declarations) ==
  CHOOSE d \in declarations : \A e \in declarations :
    \/ d.package < e.package
    \/ d.package = e.package /\ d.entry < e.entry
    \/ d.package = e.package /\ d.entry = e.entry /\ d.line <= e.line

(* PackagedOsirisIndex::resolve: declarations that agree are one.          *)
ResolveCallable(catalog, module, name, arity) ==
  LET top == Foremost({d \in Callables(catalog, module) : d.name = name /\ d.arity = arity}) IN
  CASE top = {} -> Missing
    [] top # {} /\ Cardinality({<<d.parameters, d.role>> : d \in top}) = 1 -> Unique(First(top))
    [] OTHER -> Ambiguous(top)

(* effective_arities                                                       *)
Arities(catalog, module, name) ==
  {d.arity : d \in {d \in Callables(catalog, module) : d.name = name}}

RoleOf(declarations) ==
  IF Cardinality({d.role : d \in declarations}) = 1
  THEN (CHOOSE d \in declarations : TRUE).role ELSE "unknown"

(* completions_for_module: what is ambiguous has no parameters, and a role *)
(* only if its declarations agree on it; `names' start with the prefix.    *)
CompletionsFor(catalog, module, names) ==
  LET found(d) == ResolveCallable(catalog, module, d.name, d.arity)
      unique(d) == found(d).tag = "unique"
  IN  {[name |-> d.name, arity |-> d.arity,
        role |-> RoleOf(found(d).candidates),
        parameters |-> IF unique(d) THEN First(found(d).candidates).parameters ELSE <<>>] :
          d \in {d \in Callables(catalog, module) : d.name \in names}}

-----------------------------------------------------------------------------
(* inventory_packaged_thoth: everything that direct packages hold, with    *)
(* what is rejected counted where it is rejected.  A package that cannot   *)
(* be read is a part if a package that can declares it.                    *)
Inventory(packages) ==
  LET roots == {p \in packages : p.layout # "unreadable"}
      parts == {p \in packages \ roots : \E r \in roots : p.name \in r.parts}
      supported == {p \in roots : p.layout = "supported" /\ p.opens}
      entries == EntriesOf(supported, "thoth")
      fits(pe) == pe[2].size <= MaxEntry
      parsed == {pe \in entries : fits(pe) /\ pe[2].utf8 /\ pe[2].text.parses}
      functions == UNION {{<<pe, y>> : y \in {y \in pe[2].text.symbols : y.kind = "function"}} :
                            pe \in parsed}
      Of(module, name) == {f \in functions : f[1][2].module = module /\ f[2].name = name}
      Highest(fs) == {f \in fs : \A g \in fs : g[1][1].priority <= f[1][1].priority}
      names == {<<f[1][2].module, f[2].name>> : f \in functions}
  IN  [files      |-> Cardinality(packages),
       parts      |-> Cardinality(parts),
       roots      |-> Cardinality(packages \ parts),
       rejected   |-> Cardinality((packages \ parts) \ supported),
       entries    |-> Cardinality(entries),
       bytes      |-> Cardinality(Bytes(entries)),
       parsed     |-> Cardinality(parsed),
       sourceRejections |-> Cardinality(entries \ parsed),
       functions  |-> Cardinality(functions),
       duplicates |-> Cardinality({n \in names : Cardinality(Of(n[1], n[2])) > 1}),
       conflicts  |-> Cardinality({n \in names : Cardinality(Highest(Of(n[1], n[2]))) > 1})]

(* The readers agree: the Stats of a module that is spelled as configured, *)
(* in packages that list a path once, are found like its other sources,    *)
(* the inventory counts what a catalog of the same packages holds and      *)
(* rejects, and a text that is rejected without being relevant has a       *)
(* higher one in its place.                                                *)
ReadersAgree(packages, module) ==
  LET In(family) == Filed(packages, family)
      thoth == ReadSources(In("thoth"), {module}, "thoth").sources
      counted == Inventory(In("thoth"))
      plain == \A p \in packages : \A e, f \in p.entries :
                 /\ e.folded = module <=> e.module = module
                 /\ e.path = f.path => e = f
  IN  /\ plain => ReadStats(In("stats"), {[name |-> module, folded |-> module]})
                    = ReadSources(In("stats"), {module}, "stats")
      /\ /\ Readable(In("thoth"), EntriesOf(In("thoth"), "thoth"))
         /\ Candidates(packages, {module}) = packages
         /\ {pe[2].module : pe \in EntriesOf(In("thoth"), "thoth")} \subseteq {module}
         => /\ counted.entries = Cardinality(thoth)
            /\ counted.sourceRejections = ParseFacts(thoth).rejected
      /\ ParseFacts(thoth).relevant = 0 =>
           \A s \in thoth : ~s.text.parses =>
             \E t \in ParseFacts(thoth).records :
               t.module = s.module /\ t.entry = s.entry /\ t.priority > s.priority

(* "A caller must not choose by package filename or filesystem enumeration *)
(* order": under other package names every symbol and callable resolves to *)
(* the same declarations.  And what is proved is complete: no source that  *)
(* is rejected or tied stands at or above an effective declaration.        *)
NamesDoNotDecide(packages, renamed, bases, family, kinds) ==
  LET before == ReadSources(packages, bases, family).sources
      after == ReadSources(renamed, bases, family).sources
      symbols == Declared(before, kinds) \cup Declared(after, kinds)
      Nameless(r) == [tag |-> r.tag, candidates |-> {[d EXCEPT !.package = 0] : d \in r.candidates}]
      Meaning(r) == [tag |-> r.tag, signatures |-> {<<d.role, d.parameters>> : d \in r.candidates}]
  IN  \A d \in symbols :
        IF d.kind = "callable"
        THEN Meaning(ResolveCallable(before, d.module, d.name, d.arity))
             = Meaning(ResolveCallable(after, d.module, d.name, d.arity))
        ELSE Nameless(ResolveApi(before, d.module, d.kind, d.name))
             = Nameless(ResolveApi(after, d.module, d.kind, d.name))

NothingStandsAbove(packages, bases, family, kinds) ==
  LET catalog == ReadSources(packages, bases, family).sources IN
  \A d \in Declared(catalog, kinds) :
    \A s \in SourcesFor(catalog, d.module, d.entry) :
      s.package = d.package \/ s.priority < d.priority
=============================================================================
