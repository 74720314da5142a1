--------------------------- MODULE Configuration ---------------------------
(***************************************************************************)
(* crates/bg3-ls/src/config.rs, and the options of check and benchmark in  *)
(* main.rs: from the layers of options to the modules of a workspace.      *)
(*                                                                         *)
(* A layer is a partial function from fields; a nested object is its       *)
(* fields, because absent and empty objects mean the same.  Names and      *)
(* directories are values.  A disk says what the directories hold.         *)
(***************************************************************************)
EXTENDS Naturals, Sequences, FiniteSetsExt

CONSTANT None

ProjectFields == {"name", "dependencies", "severity"}
Fields == {"game_data", "base_modules", "language", "symbols", "items"} \cup ProjectFields

Severities == {"error", "warning", "information", "hint"}

-----------------------------------------------------------------------------
(* Layers.                                                                 *)

(* parse_layer: no null (None) at any depth, no unknown key.               *)
Parses(layer) == \A f \in DOMAIN layer : f \in Fields /\ layer[f] # None

(* What serde makes of a layer: a list is a list.                          *)
Dependencies == Seq([name : STRING, absolute : BOOLEAN, path : Seq(STRING)])
IsLayer(layer) ==
  /\ "base_modules" \in DOMAIN layer /\ layer.base_modules # None => layer.base_modules \in Seq(STRING)
  /\ "dependencies" \in DOMAIN layer /\ layer.dependencies # None => layer.dependencies \in Dependencies

Over(higher, lower) ==
  [f \in DOMAIN higher \cup DOMAIN lower |-> IF f \in DOMAIN higher THEN higher[f] ELSE lower[f]]

(* ConfigLayer::merge with merge_project, merge_diagnostics and            *)
(* merge_localization: field by field; a list replaces a list.             *)
MergeObjects(lower, higher) ==
  Over(higher, IF DOMAIN higher \cap ProjectFields = {} THEN lower
               ELSE [f \in DOMAIN lower \ ProjectFields |-> lower[f]])

Merge(lower, higher) == Over(higher, lower)

(* ConfigLayer::complete                                                   *)
Defaults ==
  [dependencies |-> <<>>, severity |-> "warning", language |-> "English",
   symbols |-> 200, items |-> 200]

Complete(layer) ==
  IF {"game_data", "base_modules", "name"} \subseteq DOMAIN layer THEN Over(layer, Defaults) ELSE None

-----------------------------------------------------------------------------
(* Options that are complete.                                              *)

(* validate_name, add_name                                                 *)
Named(name) == name # ""

Spec(name, root, role) == [name |-> name, root |-> root, role |-> role]

(* The modules in ascending precedence; a relative path starts at the      *)
(* workspace root.                                                         *)
Modules(options, workspace) ==
  [i \in DOMAIN options.base_modules |->
     Spec(options.base_modules[i], <<"editor", options.base_modules[i]>>, "base")]
  \o [i \in DOMAIN options.dependencies |->
        LET d == options.dependencies[i] IN
          Spec(d.name, IF d.absolute THEN d.path ELSE workspace \o d.path, "dependency")]
  \o <<Spec(options.name, workspace, "project")>>

(* validate_severity: the literal false ("off") disables.                   *)
Severity(value) == IF value = "off" THEN None ELSE value

(* resolve_at_root: the first failed test is the error; which one it is    *)
(* does not matter here.                                                   *)
Accepted(options, workspace, disk) ==
  LET modules == Modules(options, workspace) IN
  /\ options.game_data \in disk.gameData
  /\ options.base_modules # <<>>
  /\ Named(options.name)
  /\ options.language \in disk.languages
  /\ options.symbols # 0 /\ options.items # 0
  /\ disk.catalogs
  /\ \A i \in DOMAIN modules :
       /\ Named(modules[i].name)
       /\ modules[i].root \in disk.directories
       /\ \A j \in 1 .. i - 1 : modules[j].name # modules[i].name
  /\ options.severity \in Severities \cup {"off"}

(* load_at_root                                                            *)
Load(json, inline, workspace, disk) ==
  LET options == Complete(Merge(json, inline)) IN
  IF ~Parses(json) \/ ~Parses(inline) \/ options = None THEN None
  ELSE IF ~Accepted(options, workspace, disk) THEN None
  ELSE [modules |-> Modules(options, workspace), language |-> options.language,
        symbols |-> options.symbols, items |-> options.items,
        severity |-> Severity(options.severity)]

(* incomplete_kinds: what unread packages may declare.                     *)
IncompleteKinds(config, packages) ==
  (IF config.language \in packages THEN {"Localization"} ELSE {})
  \cup (IF \E i \in DOMAIN config.modules :
             config.modules[i].role = "base" /\ config.modules[i].name \in packages
        THEN {"SpellData", "StatusData", "PassiveData", "InterruptData"} ELSE {})

(* The nearest of a directory and its ancestors that has a configuration.  *)
Discover(start, configured) ==
  LET found == {n \in 0 .. Len(start) : SubSeq(start, 1, n) \in configured}
  IN  IF found = {} THEN None ELSE SubSeq(start, 1, Max(found))

(* Of the directories above, only one with a configuration is found, and   *)
(* from wherever below it that no nearer one has.                          *)
DiscoversTheNearest(start, configured) ==
  LET root == Discover(start, configured) IN
  /\ root = None <=> \A n \in 0 .. Len(start) : SubSeq(start, 1, n) \notin configured
  /\ root # None => \A n \in Len(root) .. Len(start) : Discover(SubSeq(start, 1, n), configured) = root

-----------------------------------------------------------------------------
(* main.rs.                                                                *)

(* benchmark_modules: the same modules from command line options, with     *)
(* fewer tests.                                                            *)
BenchmarkModules(options, workspace, disk) ==
  LET modules == Modules(options, workspace) IN
  IF \E i, j \in DOMAIN modules : i # j /\ modules[i].name = modules[j].name THEN None
  ELSE IF \E i \in DOMAIN modules : modules[i].root \notin disk.directories THEN None
  ELSE modules

(* FailOn::matches                                                         *)
FailsOn(threshold, severity) ==
  CASE threshold = "never" -> FALSE
    [] threshold = "error" -> severity = "error"
    [] threshold = "warning" -> severity \in {"error", "warning"}
    [] threshold = "information" -> severity # "hint"
    [] threshold = "hint" -> TRUE

(* run_check: the exit code for the severities of the diagnostics found.   *)
ExitCode(config, severities, threshold) ==
  IF config = None THEN 2
  ELSE IF \E s \in severities : FailsOn(threshold, s) THEN 1 ELSE 0

-----------------------------------------------------------------------------
(* What the layers give.                                                   *)

(* Inline options override JSON fields, JSON fields override defaults, and *)
(* a list is replaced as a whole; modules stand in ascending precedence,   *)
(* each name once, the project last and alone of its role.                 *)
LoadsByField(json, inline, workspace, disk) ==
  LET config == Load(json, inline, workspace, disk)
      Given(f) == IF f \in DOMAIN inline THEN inline[f]
                  ELSE IF f \in DOMAIN json THEN json[f]
                  ELSE IF f \in DOMAIN Defaults THEN Defaults[f] ELSE None
      modules == config.modules
      Rank(role) == CASE role = "base" -> 1 [] role = "dependency" -> 2 [] role = "project" -> 3
      Names(f) == [i \in DOMAIN Given(f) |-> Given(f)[i].name]
  IN  config # None =>
        /\ config.language = Given("language")
        /\ config.symbols = Given("symbols") /\ config.items = Given("items")
        /\ config.severity = (IF Given("severity") = "off" THEN None ELSE Given("severity"))
        /\ [i \in DOMAIN modules |-> modules[i].name]
             = Given("base_modules") \o Names("dependencies") \o <<Given("name")>>
        /\ \A i, j \in DOMAIN modules :
             i < j => /\ modules[i].name # modules[j].name
                      /\ Rank(modules[i].role) <= Rank(modules[j].role)
                      /\ modules[i].role # "project"

(* A stricter threshold fails whenever a more lenient one does, and no     *)
(* result is mistaken for an error of the configuration.                   *)
ThresholdsAreOrdered(config, severities) ==
  LET order == <<"never", "error", "warning", "information", "hint">> IN
  \A i, j \in DOMAIN order :
    i < j => ExitCode(config, severities, order[i]) <= ExitCode(config, severities, order[j])

=============================================================================
