-------------------------- MODULE OsirisCallables --------------------------
(***************************************************************************)
(* The Osiris queries of crates/bg3-ide/src/language.rs and lib.rs:        *)
(* completion, signature help and the hover on an installed callable find  *)
(* the declaration of a name and arity in the load order's goals, in the   *)
(* goals of installed packages, and in the catalogs of the game.           *)
(*                                                                         *)
(* A workspace w has ranks (modules, the highest last), base (the ranks of *)
(* base modules), files (of each path its rank, the declarations on disk   *)
(* and, when it is open, those of the document and whether it has issues), *)
(* installed (a catalog of PackagedSources), contracts (the generated      *)
(* catalog) and legacy (the curated events).                               *)
(***************************************************************************)
EXTENDS PackagedSources, Sequences, Functions

Procedure == "OsirisProcedure"
Query == "OsirisQuery"

(* Ranks are numbers; a file that is not open has no document; a callable  *)
(* has as many parameters as its arity says; an installed one has a role.  *)
(* Of the catalogs' data: a curated event has a name of its own, and the   *)
(* contract of its name and arity, if there is one, is an event as well.   *)
IsDeclaration(d) ==
  /\ d.kind # "callable"
  /\ d.kind \in {Procedure, Query} => d.parameters \in Seq(STRING) /\ Len(d.parameters) = d.arity

IsWorkspace(w) ==
  /\ IsFiniteSet(w.ranks) /\ IsFiniteSet(w.base) /\ w.ranks \cup w.base \subseteq Nat
  /\ IsFiniteSet(DOMAIN w.files)
  /\ \A p \in DOMAIN w.files :
       LET f == w.files[p] IN
       /\ IsFiniteSet(f.disk \cup f.document) /\ \A d \in f.disk \cup f.document : IsDeclaration(d)
       /\ f.open = "closed" => f.document = {}
  /\ IsCatalog(w.installed)
  /\ \A s \in w.installed : \A symbol \in s.text.symbols :
       symbol.kind = "callable" =>
         /\ symbol.role \in {"procedure", "query"}
         /\ symbol.parameters \in Seq(STRING) /\ Len(symbol.parameters) = symbol.arity
  /\ IsFiniteSet(Range(w.contracts))
  /\ \A c \in Range(w.contracts) : c.parameters \in Seq(STRING)
  /\ \A e \in w.legacy :
       /\ e.parameters \in Seq(STRING)
       /\ \A f \in w.legacy : f.name = e.name => f = e
       /\ \A c \in Range(w.contracts) :
            c.name = e.name /\ Len(c.parameters) = Len(e.parameters) => c.role = "event"

Positional(arity) == [i \in 1 .. arity |-> "value"]

-----------------------------------------------------------------------------
(* Declarations of the load order.                                         *)

IsOpen(f) == f.open # "closed"

(* An open goal that no longer parses to anything: completion keeps what   *)
(* its file declares on disk.                                              *)
Incomplete(f) == f.open = "incomplete"

VisibleCallables(f) == IF IsOpen(f) THEN f.document ELSE f.disk

CompletableCallables(f) ==
  f.document \cup (IF IsOpen(f) /\ ~Incomplete(f) THEN {} ELSE f.disk)

RankDeclarations(w, rank, Of(_)) ==
  UNION {{[path |-> p, declaration |-> d] : d \in Of(w.files[p])} :
           p \in {q \in DOMAIN w.files : w.files[q].rank = rank}}

Highest(ranks) == CHOOSE r \in ranks : \A s \in ranks : s <= r

-----------------------------------------------------------------------------
(* complete_osiris                                                         *)

(* osiris_callable_allowed: the sections of a rule that a callable fits.   *)
Allowed(role, position) ==
  CASE position = "declaration" -> FALSE
    [] role = "event"           -> position = "head"
    [] role = "query"           -> position = "condition"
    [] role = "procedure"       -> position = "action"
    [] OTHER                    -> TRUE

RoleOfKind(kind) ==
  CASE kind = Procedure -> "procedure" [] kind = Query -> "query" [] OTHER -> "none"

Key(d) == <<IF d.kind \in {Procedure, Query} THEN "callable" ELSE d.kind, d.name, d.arity>>

Item(key, source, parameters) == [key |-> key, source |-> source, parameters |-> parameters]

LooseOf(w, key) ==
  LET Here(rank) == {r.declaration : r \in {r \in RankDeclarations(w, rank, CompletableCallables) :
                                              Key(r.declaration) = key}}
      having == {rank \in w.ranks : Here(rank) # {}}
  IN  IF having = {} THEN {} ELSE Here(Highest(having))

Mixed(declarations) == {Procedure, Query} \subseteq {d.kind : d \in declarations}

(* A procedure and a query of one rank cannot be placed: neither is        *)
(* offered, and both hide what is below.                                   *)
LooseItems(w, key, position) ==
  LET here == LooseOf(w, key) IN
  IF Mixed(here) THEN {}
  ELSE {Item(key, "loose", d.parameters) :
          d \in {d \in here : Allowed(RoleOfKind(d.kind), position)}}

InstalledOf(w, key) ==
  LET At(rank) == {c \in CompletionsFor(w.installed, rank, {key[2]}) : c.arity = key[3]}
      having == {rank \in w.base : At(rank) # {}}
  IN  IF having = {} THEN {} ELSE {[rank |-> Highest(having), callable |-> c] : c \in At(Highest(having))}

(* osiris_contract: a name and arity that one contract has, of any kind.   *)
ContractsOf(w, name, arity) ==
  {c \in Range(w.contracts) : c.name = name /\ Len(c.parameters) = arity}

GeneratedItems(w, key, position) ==
  LET found == ContractsOf(w, key[2], key[3]) IN
  IF Cardinality(found) # 1 THEN {}
  ELSE {Item(key, "generated", c.parameters) : c \in {c \in found : Allowed(c.role, position)}}

LegacyItems(w, key, position) ==
  {Item(key, "legacy", e.parameters) :
     e \in {e \in w.legacy : /\ e.name = key[2] /\ Len(e.parameters) = key[3]
                             /\ Allowed("event", position)}}

(* The items of a key: of the goals if they declare it; else of installed  *)
(* packages if they do, placed or not; else of the catalogs.               *)
Complete(w, key, position) ==
  IF LooseOf(w, key) # {} THEN LooseItems(w, key, position)
  ELSE IF key[1] # "callable" THEN {}
  ELSE IF InstalledOf(w, key) # {}
    THEN {Item(key, "installed", i.callable.parameters) :
            i \in {i \in InstalledOf(w, key) : /\ i.callable.role # "unknown"
                                               /\ Allowed(i.callable.role, position)}}
  ELSE IF GeneratedItems(w, key, position) # {} THEN GeneratedItems(w, key, position)
  ELSE LegacyItems(w, key, position)

-----------------------------------------------------------------------------
(* osiris_signature_help                                                   *)

Help(source, parameters) == [source |-> source, parameters |-> parameters]
NoHelp == Help("none", <<>>)

LeastOf(arities) == CHOOSE a \in arities : \A b \in arities : a <= b

(* osiris_declared_parameters: the highest module's, if it agrees.         *)
DeclaredAtAnyRank(found, arity) ==
  IF Cardinality({f.declaration.parameters : f \in found}) = 1
  THEN (CHOOSE f \in found : TRUE).declaration.parameters ELSE Positional(arity)

DeclaredParameters(found, arity) ==
  LET top == {f \in found : \A g \in found : g.rank <= f.rank}
      lists == {f.declaration.parameters : f \in top}
  IN  IF Cardinality(lists) = 1 THEN CHOOSE l \in lists : TRUE ELSE Positional(arity)

LooseCandidates(w, name) ==
  UNION {{[rank |-> rank, path |-> r.path, declaration |-> r.declaration] :
            r \in {r \in RankDeclarations(w, rank, VisibleCallables) :
                     r.declaration.name = name /\ r.declaration.kind \in {Procedure, Query}}} :
           rank \in w.ranks}

LooseArities(w, name, argument) ==
  {a \in {c.declaration.arity : c \in LooseCandidates(w, name)} : a = 0 \/ a > argument}

(* packaged_osiris_signature_help: the highest base module that has an     *)
(* arity for the argument, and its least.                                  *)
InstalledHelp(w, name, argument) ==
  LET Fitting(rank) == {a \in Arities(w.installed, rank, name) : a >= argument + 1}
      having == {rank \in w.base : Fitting(rank) # {}}
      rank == Highest(having)
      arity == LeastOf(Fitting(rank))
      found == ResolveCallable(w.installed, rank, name, arity)
  IN  IF having = {} THEN NoHelp
      ELSE IF found.tag = "ambiguous" THEN Help("installed", Positional(arity))
      ELSE Help("installed", First(found.candidates).parameters)

(* generated_osiris_signature_help: a contract that is ambiguous is no     *)
(* reason to look among the legacy events.                                 *)
GeneratedHelp(w, name, argument) ==
  LET fits(parameters) == parameters = <<>> \/ Len(parameters) >= argument + 1
      lengths == {Len(c.parameters) :
                    c \in {c \in Range(w.contracts) : c.name = name /\ fits(c.parameters)}}
      found == ContractsOf(w, name, LeastOf(lengths))
      events == {e \in w.legacy : e.name = name /\ fits(e.parameters)}
  IN  IF lengths # {}
      THEN IF Cardinality(found) = 1
           THEN Help("generated", (CHOOSE c \in found : TRUE).parameters) ELSE NoHelp
      ELSE IF events = {} THEN NoHelp
      ELSE Help("legacy", (CHOOSE e \in events : \A f \in events :
                             Len(e.parameters) <= Len(f.parameters)).parameters)

SignatureHelp(w, name, argument) ==
  LET arities == LooseArities(w, name, argument)
      arity == LeastOf(arities)
      installed == InstalledHelp(w, name, argument)
  IN  IF arities # {}
      THEN Help("loose", DeclaredParameters(
                           {c \in LooseCandidates(w, name) : c.declaration.arity = arity}, arity))
      ELSE IF installed # NoHelp THEN installed
      ELSE GeneratedHelp(w, name, argument)

-----------------------------------------------------------------------------
(* packaged_osiris_callable_hover: the highest base module that declares   *)
(* the callable, untyped if its packages disagree.                         *)
InstalledHover(w, name, arity) ==
  LET Found(rank) == ResolveCallable(w.installed, rank, name, arity)
      having == {rank \in w.base : Found(rank).tag # "missing"}
      rank == Highest(having)
  IN  IF having = {} THEN NoHelp
      ELSE IF Found(rank).tag = "ambiguous" THEN Help("ambiguous", <<>>)
      ELSE Help("installed", First(Found(rank).candidates).parameters)

-----------------------------------------------------------------------------
(* What completion offers and what signature help then shows are the same  *)
(* declaration, though each searches on its own: where both know the arity *)
(* they name the same kind of source, and the parameters are those of what *)
(* is offered or, where declarations disagree, positions.  The hover shows *)
(* the installed declaration that completion offers.  Except: signature    *)
(* help passes over installed callables without parameters.                *)
ViewsAgree(w, names, arguments) ==
  \A name \in names, argument \in arguments :
    LET help == SignatureHelp(w, name, argument)
        key == <<"callable", name, Len(help.parameters)>>
        items == UNION {Complete(w, key, position) : position \in {"head", "condition", "action"}}
        hover == InstalledHover(w, name, Len(help.parameters))
        settled == \A p \in DOMAIN w.files : ~Incomplete(w.files[p])
    IN  /\ settled /\ help.source # "none" /\ items # {}
        /\ key[3] = 0 => help.source = "loose"
        =>
          /\ \A i \in items : i.source = help.source
          /\ help.parameters =
               IF Cardinality({i.parameters : i \in items}) = 1
                  /\ \A i \in items : Len(i.parameters) = key[3]
               THEN (CHOOSE i \in items : TRUE).parameters ELSE Positional(key[3])
          /\ help.source = "installed" /\ hover.source = "installed" =>
               help.parameters = hover.parameters
=============================================================================
