----------------------------- MODULE Resolution -----------------------------
(***************************************************************************)
(* crates/bg3-ide/src/lib.rs, module.rs and packaged_stats.rs of bg3-index *)
(* and the symbol completion of language.rs: which declarations a name     *)
(* means when modules, open documents and installed packages declare it.   *)
(*                                                                         *)
(* A module is its rank in the load order, a source position is a line,    *)
(* and a line holds one name at most: a declaration's or a reference's.    *)
(* What the parser finds in a text is the text.                            *)
(***************************************************************************)
EXTENDS Naturals, Sequences, SequencesExt, Ordering

CONSTANTS
  Ranks,          \* the modules, as positions in the load order
  Paths,          \* loose source files, numbered in path order
  Indexing(_),    \* the modules that discover a path
  Containing(_),  \* the modules whose root contains a path, deepest root first
  Texts,          \* what a file may hold: its declarations and references
  Packaged,       \* declarations read from installed packages
  MaxSymbols,     \* max_workspace_symbols
  None

(* What a target resolves to.                                              *)
Declarables ==
  [rank : Ranks, path : Nat, packaged : BOOLEAN, ambiguous : BOOLEAN,
   definition : (UNION {t.definitions : t \in Texts}) \cup {c.definition : c \in Packaged}]

(* Files are finite and hold one name a line; a package is no source file  *)
(* and holds one declaration a line.  None is neither a document nor a     *)
(* place among declarations.                                               *)
ASSUME ResolutionAssumption ==
  /\ IsFiniteSet(Ranks) /\ Ranks \subseteq Nat /\ None \notin Ranks
  /\ IsFiniteSet(Paths) /\ Paths \subseteq Nat
  /\ \A p \in Paths : Indexing(p) \subseteq Ranks /\ Containing(p) \in Seq(Ranks)
  /\ \A t \in Texts :
       /\ IsFiniteSet(t.definitions) /\ IsFiniteSet(t.references)
       /\ \A d \in t.definitions : d.line \in Nat /\ d.kind # None
       /\ \A d, e \in t.definitions : d.line = e.line => d = e
  /\ None \notin [module : Ranks, file : Texts]
  /\ None \notin [chain : Seq(Declarables), index : Nat]
  /\ MaxSymbols \in Nat
  /\ IsFiniteSet(Packaged)
  /\ \A c \in Packaged :
       /\ c.module \in Ranks /\ c.package \in Nat \ Paths /\ c.priority \in Nat
       /\ c.definition.line \in Nat
  /\ \A c, e \in Packaged :
       c.package = e.package /\ c.definition.line = e.definition.line => c = e

VARIABLES
  disk,        \* the text of each file, as indexed
  documents    \* OverlaySet: the open documents, each with its module

vars == <<disk, documents>>

TypeOK ==
  /\ disk \in [Paths -> Texts]
  /\ documents \in [Paths -> {None} \cup [module : Ranks, file : Texts]]

-----------------------------------------------------------------------------
(* Targets and the declarations they match.                                *)

Named(kind, name) == [tag |-> "named", kind |-> kind, name |-> name, arity |-> None]
Uuid(uuid) == [tag |-> "uuid", kind |-> None, name |-> uuid, arity |-> None]
Osiris(tag, name, arity) == [tag |-> tag, kind |-> None, name |-> name, arity |-> arity]

Canonical(kind) ==
  CASE kind = "Interrupt" -> "InterruptData"
    [] kind = "Passive" -> "PassiveData"
    [] kind \in {"Projectile", "Shout", "Target"} -> "SpellData"
    [] kind = "Status" -> "StatusData"
    [] OTHER -> kind

OsirisTag(kind) ==
  CASE kind = "OsirisGoal" -> "goal"
    [] kind \in {"OsirisProcedure", "OsirisQuery"} -> "callable"
    [] kind = "OsirisDatabase" -> "database"
    [] OTHER -> "named"

KindFits(d, t) == t.kind = None \/ Canonical(d.kind) = Canonical(t.kind)

HasName(d, t) == KindFits(d, t) /\ d.name = t.name
HasAlias(d, t) == KindFits(d, t) /\ Contains(d.aliases, t.name)

MatchesOsiris(d, t) ==
  /\ OsirisTag(d.kind) = t.tag
  /\ d.name = t.name
  /\ t.tag # "goal" => d.arity = t.arity /\ d.arity # None

(* definition_matches, for open documents.                                 *)
Matches(d, t) ==
  CASE t.tag = "named"   -> HasName(d, t) \/ HasAlias(d, t)
    [] t.tag = "uuid"    -> d.uuid # None /\ d.uuid = t.name
    [] t.tag = "tooltip" -> FALSE
    [] OTHER             -> MatchesOsiris(d, t)

(* definition_target                                                       *)
TargetOf(d) ==
  IF OsirisTag(d.kind) = "goal" THEN Osiris("goal", d.name, None)
  ELSE IF OsirisTag(d.kind) # "named" /\ d.arity # None
    THEN Osiris(OsirisTag(d.kind), d.name, d.arity)
  ELSE Named(d.kind, d.name)

(* ModuleIndex: the records of a module, and resolve, which falls back to  *)
(* aliases only where no declaration has the name.                         *)
Records(rank) ==
  UNION {{[path |-> p, definition |-> d] : d \in disk[p].definitions} :
           p \in {q \in Paths : rank \in Indexing(q)}}

IndexResolve(rank, t) ==
  LET named == {r \in Records(rank) : HasName(r.definition, t)} IN
  IF t.tag # "named" THEN {r \in Records(rank) : Matches(r.definition, t)}
  ELSE IF named # {} THEN named
  ELSE {r \in Records(rank) : HasAlias(r.definition, t)}

(* PackagedStatsCatalog::candidates_for: of the declarations of the name   *)
(* or identifier, those of the highest package priority.                   *)
PackagedCandidates(t) ==
  LET found == {c \in Packaged : CASE t.tag = "named" -> HasName(c.definition, t)
                                   [] t.tag = "uuid"  -> Matches(c.definition, t)
                                   [] OTHER           -> FALSE}
  IN  {c \in found : \A other \in found : other.priority <= c.priority}

-----------------------------------------------------------------------------
(* WorkspaceSnapshot: files, modules and resolution.                       *)

Least(S) == CHOOSE r \in S : \A s \in S : r <= s

IsOpen(p) == documents[p] # None
OpenIn(rank) == {p \in Paths : IsOpen(p) /\ documents[p].module = rank}

(* module_for_path                                                         *)
ModuleForPath(p) ==
  IF Indexing(p) # {} THEN Least(Indexing(p))
  ELSE IF Containing(p) # <<>> THEN Containing(p)[1] ELSE None

(* file                                                                    *)
File(p) ==
  IF IsOpen(p) THEN documents[p]
  ELSE IF Indexing(p) # {} THEN [module |-> Least(Indexing(p)), file |-> disk[p]] ELSE None

Found(rank, path, d, packaged) ==
  [rank |-> rank, path |-> path, definition |-> d, packaged |-> packaged, ambiguous |-> FALSE]

(* OverlaySet::for_module, with the declarations.                          *)
OpenRecords(rank) ==
  UNION {{[path |-> p, definition |-> d] : d \in documents[p].file.definitions} :
           p \in OpenIn(rank)}

Loose(rank, records) == {Found(rank, r.path, r.definition, FALSE) : r \in records}

Installed(rank, t) ==
  {Found(rank, c.package, c.definition, TRUE) :
     c \in {c \in PackagedCandidates(t) : c.module = rank}}

AtRankOfDocumentsAlone(rank, t) ==
  Loose(rank, {r \in OpenRecords(rank) : Matches(r.definition, t)})
  \cup Loose(rank, {r \in IndexResolve(rank, t) : OpenIn(rank) = {}})
  \cup Installed(rank, t)

(* The declarations of one module: those of its open documents, of its     *)
(* other files and of its packages.                                        *)
AtRank(rank, t) ==
  Loose(rank, {r \in OpenRecords(rank) : Matches(r.definition, t)})
  \cup Loose(rank, {r \in IndexResolve(rank, t) : ~IsOpen(r.path)})
  \cup Installed(rank, t)

Marked(rank, t) ==
  LET found == AtRank(rank, t) IN
  {[f EXCEPT !.ambiguous = Cardinality(found) > 1 /\ t.tag # "database"] : f \in found}

Candidates(t) == UNION {Marked(rank, t) : rank \in Ranks}

Before(f, g) == \/ f.path < g.path
                \/ f.path = g.path /\ f.definition.line < g.definition.line

Precedes(f, g) == \/ f.rank > g.rank
                  \/ f.rank = g.rank /\ Before(f, g)

Chain(S) == Arranged(S, [f \in S |-> Cardinality({g \in S : Precedes(g, f)})])

(* resolve: from the highest module down, each module's by path and line.  *)
Resolve(t) == Chain(Candidates(t))

VisibleKeepingClosed(rank) == OpenRecords(rank) \cup Records(rank)

(* The declarations of a module's open documents and of its other files.   *)
VisibleRecords(rank) == OpenRecords(rank) \cup {r \in Records(rank) : ~IsOpen(r.path)}

-----------------------------------------------------------------------------
(* Queries at a position.                                                  *)

(* target_at: a reference before a declaration.                            *)
TargetAt(p, line) ==
  LET file == File(p)
      references == {r \in file.file.references : r.line = line}
      definitions == {d \in file.file.definitions : d.line = line}
  IN  IF file = None THEN None
      ELSE IF references # {} THEN (CHOOSE r \in references : TRUE).target
      ELSE IF definitions # {} THEN TargetOf(CHOOSE d \in definitions : TRUE)
      ELSE None

Location(p, line) == [path |-> p, line |-> line]

(* definition_locations_at: packaged declarations have no location.        *)
DeclarationsOf(t) ==
  {Location(f.path, f.definition.line) : f \in {f \in Candidates(t) : ~f.packaged}}

DefinitionLocations(p, line) ==
  IF TargetAt(p, line) = None THEN {} ELSE DeclarationsOf(TargetAt(p, line))

ReferencesKeepingClosed(p, line, includeDeclaration) ==
  LET t == TargetAt(p, line)
      In(q, text) == {Location(q, r.line) : r \in {r \in text.references : r.target = t}}
  IN  IF t = None THEN {}
      ELSE (UNION {UNION {In(q, documents[q].file) : q \in OpenIn(rank)} : rank \in Ranks})
           \cup (UNION {In(q, disk[q]) : q \in {q \in Paths : Indexing(q) # {}}})
           \cup (IF includeDeclaration THEN DeclarationsOf(t) ELSE {})

(* references_at: sorted and without duplicates, hence a set.              *)
References(p, line, includeDeclaration) ==
  LET t == TargetAt(p, line)
      In(q, text) == {Location(q, r.line) : r \in {r \in text.references : r.target = t}}
      inDocuments == UNION {UNION {In(q, documents[q].file) : q \in OpenIn(rank)} : rank \in Ranks}
      onDisk == UNION {In(q, disk[q]) : q \in {q \in Paths : ~IsOpen(q) /\ Indexing(q) # {}}}
  IN  IF t = None THEN {}
      ELSE inDocuments \cup onDisk \cup (IF includeDeclaration THEN DeclarationsOf(t) ELSE {})

(* document_symbols                                                        *)
DocumentSymbols(p) ==
  IF File(p) = None THEN {}
  ELSE {[name |-> d.name, kind |-> d.kind, module |-> File(p).module, line |-> d.line] :
          d \in File(p).file.definitions}

Symbol(module, p, d) == [name |-> d.name, kind |-> d.kind, module |-> module,
                         path |-> p, line |-> d.line]

(* workspace_symbols: the open documents in path order, then the modules   *)
(* from the highest down; `names' are those the query is part of.          *)
Symbols(names) ==
  UNION {{Symbol(rank, r.path, r.definition) :
            r \in {r \in VisibleRecords(rank) : r.definition.name \in names}} : rank \in Ranks}

Earlier(s, u) ==
  \/ IsOpen(s.path) /\ ~IsOpen(u.path)
  \/ ~IsOpen(s.path) /\ ~IsOpen(u.path) /\ s.module > u.module
  \/ /\ IsOpen(s.path) <=> IsOpen(u.path)
     /\ ~IsOpen(s.path) => s.module = u.module
     /\ \/ s.path < u.path
        \/ s.path = u.path /\ s.line < u.line

WorkspaceSymbols(names) ==
  LET symbols == Symbols(names)
      all == Arranged(symbols, [s \in symbols |-> Cardinality({u \in symbols : Earlier(u, s)})])
  IN  SubSeq(all, 1, IF Len(all) < MaxSymbols THEN Len(all) ELSE MaxSymbols)

-----------------------------------------------------------------------------
(* Inheritance.                                                            *)

LowerOrEqual(chain, index, rank) ==
  {i \in index + 1 .. Len(chain) : chain[i].rank <= rank}

(* The declarations that one in module `rank' may inherit from by its own  *)
(* name.                                                                   *)
Lower(chain, index, rank) ==
  {i \in index + 1 .. Len(chain) : chain[i].rank < rank}

(* inherited_fields: `using' its own name, a declaration continues at the  *)
(* next lower module of its chain; else at the first declaration of its    *)
(* parent.                                                                 *)
Current(place) == place.chain[place.index]

Ancestor(place) ==
  LET d == Current(place).definition
      lower == Lower(place.chain, place.index, Current(place).rank)
      parents == Resolve(Named(d.kind, d.parent))
  IN  IF d.parent = None THEN None
      ELSE IF d.parent = d.name
        THEN IF lower = {} THEN None ELSE [chain |-> place.chain, index |-> Least(lower)]
      ELSE IF parents = <<>> THEN None ELSE [chain |-> parents, index |-> 1]

Identity(place) ==
  <<Current(place).rank, Current(place).path, Current(place).definition.line>>

Declarations ==
  (UNION {{<<rank, r.path, r.definition.line>> : r \in VisibleRecords(rank)} : rank \in Ranks})
  \cup {<<c.module, c.package, c.definition.line>> : c \in Packaged}

(* `visited': a declaration is visited once.                               *)
Inherit(places) ==
  LET next == Ancestor(Last(places)) IN
  IF next = None \/ \E i \in DOMAIN places : Identity(places[i]) = Identity(next)
  THEN places ELSE Append(places, next)

Lineage(chain) ==
  LET lineage[n \in Nat] ==
        IF n = 0 THEN <<[chain |-> chain, index |-> 1]>>
        ELSE LET places == lineage[n - 1] IN IF Len(places) < n THEN places ELSE Inherit(places)
  IN  lineage[Cardinality(Declarations)]

(* Each field of a child replaces that of its parent.                      *)
InheritedFields(chain) ==
  LET lineage == Lineage(chain)
      Fields(i) == Current(lineage[i]).definition.fields
  IN  [k \in UNION {DOMAIN Fields(i) : i \in DOMAIN lineage} |->
         Fields(Least({i \in DOMAIN lineage : k \in DOMAIN Fields(i)}))[k]]

(* tooltip_preview: the fields the effective declaration ends up with.     *)
EffectiveFields(t) == IF Candidates(t) = {} THEN <<>> ELSE InheritedFields(Resolve(t))

-----------------------------------------------------------------------------
(* complete_symbols: by label, the highest module that has it wins; two    *)
(* declarations there are ambiguous; packaged labels come last.            *)

CompletionLabel(d, insertion, labels) ==
  LET fitting == SelectSeq(d.aliases, LAMBDA a : a \in labels) IN
  IF insertion # "name" /\ fitting # <<>> THEN fitting[1] ELSE d.name

Inserted(d, label, insertion) ==
  IF insertion = "uuid" /\ d.uuid # None THEN d.uuid ELSE label

(* `labels' are those that start with what has been typed; `visible' what  *)
(* each module declares.                                                   *)
CompleteFrom(visible, kind, insertion, labels) ==
  LET Offered(d) == /\ Canonical(d.kind) = Canonical(kind)
                    /\ CompletionLabel(d, insertion, labels) \in labels
      Of(records, label) == {r \in records : /\ Offered(r.definition)
                                             /\ CompletionLabel(r.definition, insertion, labels) = label}
      Having(label) == {rank \in Ranks : Of(visible[rank], label) # {}}
      Item(label, rank, d, ambiguous) ==
        [label |-> label, module |-> rank, ambiguous |-> ambiguous,
         text |-> Inserted(d, label, insertion)]
      OfFiles(label) ==
        LET rank == CHOOSE r \in Having(label) : \A s \in Having(label) : s <= r
            here == Of(visible[rank], label)
        IN  {Item(label, rank, r.definition, Cardinality(here) > 1) : r \in here}
      Outranks(c, e) == \/ c.priority > e.priority
                        \/ c.priority = e.priority /\ c.package < e.package
                        \/ /\ c.priority = e.priority /\ c.package = e.package
                           /\ c.definition.line <= e.definition.line
      First(candidates) == CHOOSE c \in candidates : \A e \in candidates : Outranks(c, e)
      OfPackages(label) ==
        LET here == Of(Packaged, label) IN
        IF here = {} THEN {} ELSE {Item(label, First(here).module, First(here).definition, FALSE)}
  IN  UNION {IF Having(label) # {} THEN OfFiles(label) ELSE OfPackages(label) : label \in labels}

CompleteSymbols(kind, insertion, labels) ==
  CompleteFrom([rank \in Ranks |-> VisibleRecords(rank)], kind, insertion, labels)

-----------------------------------------------------------------------------
(* didOpen, didChange and didClose.  A path that no module indexes was     *)
(* created after the index was built.                                      *)

Init ==
  /\ disk \in {d \in [Paths -> Texts] :
                \A p \in Paths : Indexing(p) = {} => d[p].definitions = {} /\ d[p].references = {}}
  /\ documents = [p \in Paths |-> None]

Insert(p, t) ==
  /\ ModuleForPath(p) # None
  /\ documents' = [documents EXCEPT ![p] = [module |-> ModuleForPath(p), file |-> t]]
  /\ UNCHANGED disk

Close(p) ==
  /\ IsOpen(p)
  /\ documents' = [documents EXCEPT ![p] = None]
  /\ UNCHANGED disk

Next == \E p \in Paths : Close(p) \/ \E t \in Texts : Insert(p, t)

Spec == Init /\ [][Next]_vars

-----------------------------------------------------------------------------
(* Properties.                                                             *)

Kinds == UNION {{d.kind : d \in t.definitions} : t \in Texts}
Names == UNION {{d.name : d \in t.definitions} : t \in Texts}
Lines == UNION {{x.line : x \in t.definitions \cup t.references} : t \in Texts}
Targets ==
  UNION {{TargetOf(d) : d \in t.definitions} \cup {r.target : r \in t.references} : t \in Texts}

(* A name that some declaration, open or on disk, has only as an alias.    *)
AliasOnly(name) ==
  \E p \in Paths : \E d \in disk[p].definitions \cup
                            (IF IsOpen(p) THEN documents[p].file.definitions ELSE {}) :
    d.name # name /\ Contains(d.aliases, name)

Opens(p) ==
  /\ ~IsOpen(p)
  /\ documents' = [documents EXCEPT ![p] = [module |-> ModuleForPath(p), file |-> disk[p]]]

(* "A full open-document overlay that replaces one disk record": opening a *)
(* document as it is on disk changes no declaration that a name resolves   *)
(* to, no reference and no symbol, whatever else is open.  Excepted are    *)
(* names that are also aliases and files of two modules (see the README).  *)
OpeningKeepsAnswers ==
  [][\A p \in Paths : Opens(p) /\ Cardinality(Indexing(p)) = 1 =>
       /\ \A t \in Targets : ~AliasOnly(t.name) => Resolve(t)' = Resolve(t)
       /\ \A q \in Paths, line \in Lines : References(q, line, FALSE)' = References(q, line, FALSE)
       /\ Len(WorkspaceSymbols(Names)) < MaxSymbols =>
            ToSet(WorkspaceSymbols(Names))' = ToSet(WorkspaceSymbols(Names))
       /\ \A kind \in Kinds : CompleteSymbols(kind, "name", Names)'
                               = CompleteSymbols(kind, "name", Names)]_vars

(* No query answers with a place in a text that is not the visible one:    *)
(* every definition and reference location holds a declaration or a        *)
(* reference in the file as it is open, or on disk if it is not, and the   *)
(* symbols of the workspace are those of its documents.                    *)
LocationsAreLive ==
  /\ \A p \in Paths, line \in Lines :
       \A l \in DefinitionLocations(p, line) \cup References(p, line, TRUE) :
         \E x \in File(l.path).file.definitions \cup File(l.path).file.references : x.line = l.line
  /\ LET symbols == WorkspaceSymbols(Names) IN
     Len(symbols) < MaxSymbols =>
       \A p \in {p \in Paths : IsOpen(p) \/ Cardinality(Indexing(p)) = 1} :
         {[name |-> s.name, kind |-> s.kind, module |-> s.module, line |-> s.line] :
            s \in {s \in ToSet(symbols) : s.path = p}} = DocumentSymbols(p)

(* Completion, which groups labels module by module, and navigation, which *)
(* resolves one name, agree: what is offered resolves and the reverse; the *)
(* module shown is the one navigation reaches first, and a label is marked *)
(* ambiguous exactly if that module declares it twice.                     *)
CompletionMatchesNavigation ==
  \A kind \in {k \in Kinds : OsirisTag(k) = "named"} :
    LET items == CompleteSymbols(kind, "name", Names) IN
    \A label \in {n \in Names : ~AliasOnly(n)} :
      LET chain == Resolve(Named(kind, label))
          loose == {i \in DOMAIN chain : ~chain[i].packaged}
          offered == {i \in items : i.label = label}
      IN  /\ offered = {} <=> chain = <<>>
          /\ loose # {} => \A item \in offered :
               /\ item.module = chain[Least(loose)].rank
               /\ item.ambiguous <=> \E i \in loose : i # Least(loose) /\ chain[i].rank = item.module

(* A declaration that `uses' its own name inherits from the modules below: *)
(* an ambiguous duplicate in its own module lends it no field.             *)
DuplicatesLendNothing ==
  \A t \in Targets :
    LET foremost == {f \in Candidates(t) :
                       \A g \in Candidates(t) : g.rank = f.rank => g = f \/ Before(f, g)}
    IN  Candidates(t) # {} => EffectiveFields(t) = InheritedFields(Chain(foremost))
=============================================================================
