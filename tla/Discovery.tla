----------------------------- MODULE Discovery -----------------------------
(***************************************************************************)
(* crates/bg3-index/src/discovery.rs with its users: which files a module  *)
(* indexes, which a client may open, which changes the watcher in          *)
(* coordinator.rs sees and what it rebuilds for them, and which files the  *)
(* check command of main.rs reads.                                         *)
(*                                                                         *)
(* A path is the directories above a file, in lower case, its stem and its *)
(* extension; a test of the code for "/a/b/" asks for adjacent directories.*)
(***************************************************************************)
EXTENDS Naturals, Sequences, SequencesExt, FiniteSets

CONSTANT None

Data == <<"data">>

Below(root, path) == IsPrefix(root, path.dirs)

Holds(path, directories) ==
  \E i \in 0 .. Len(path.dirs) - Len(directories) :
    SubSeq(path.dirs, i + 1, i + Len(directories)) = directories

InMods(path) == Holds(path, <<"mods">>)

-----------------------------------------------------------------------------
(* Classification.                                                         *)

Kinds == {"Osiris", "ToolkitStats", "Table", "PlainStats", "Lsx", "Thoth", "Localization"}

GoalPath == <<"story", "rawfiles", "goals">>

(* is_osiris_goal: the last such directory holds the file itself.          *)
IsOsirisGoal(path) == path.ext = "txt" /\ IsSuffix(GoalPath, path.dirs)

ClassifyStats(path) ==
  IF path.ext = "stats" /\ Holds(path, <<"stats">>) THEN "ToolkitStats"
  ELSE IF path.ext = "tbl" THEN "Table"
  ELSE IF path.ext = "txt" /\ Holds(path, <<"stats", "generated", "data">>) THEN "PlainStats"
  ELSE None

(* What a loose module and an open document have in common.                *)
ClassifyLoose(path) ==
  IF IsOsirisGoal(path) /\ InMods(path) THEN "Osiris"
  ELSE IF ClassifyStats(path) # None THEN ClassifyStats(path)
  ELSE IF path.ext = "lsx" /\ (Holds(path, <<"public">>) \/ InMods(path)) THEN "Lsx"
  ELSE IF path.ext = "khn" /\ InMods(path) /\ Holds(path, <<"scripts", "thoth">>) THEN "Thoth"
  ELSE None

Localized(path, directories) ==
  IF path.ext = "xml" /\ Holds(path, directories) THEN "Localization" ELSE None

(* source_kind_for_document                                                *)
SourceKindForDocument(path) ==
  IF ClassifyLoose(path) # None THEN ClassifyLoose(path)
  ELSE Localized(path, <<"localization">>)

ClassifyModuleResource(path) ==
  IF IsOsirisGoal(path) THEN "Osiris"
  ELSE IF path.ext = "lsx" THEN "Lsx"
  ELSE IF path.ext = "khn" /\ Holds(path, <<"scripts", "thoth">>) THEN "Thoth"
  ELSE None

Classify(path, mode, language) ==
  CASE mode = "StatsOnly" -> ClassifyStats(path)
    [] mode = "ModuleResources" -> ClassifyModuleResource(path)
    [] mode = "LocalizationOnly" -> IF path.ext = "xml" THEN "Localization" ELSE None
    [] mode = "LooseModule" ->
         IF ClassifyLoose(path) # None THEN ClassifyLoose(path)
         ELSE Localized(path, <<"localization", language>>)

-----------------------------------------------------------------------------
(* Modules, in ascending precedence.                                       *)

AreModules(modules) ==
  /\ modules \in Seq([name : STRING, role : {"base", "dependency", "project"}, root : Seq(STRING)])
  /\ modules # <<>> /\ modules[Len(modules)].role = "project"

Public(module) == Data \o <<"public", module.name>>
ModsOf(module) == Data \o <<"mods", module.name>>
Localizations == Data \o <<"localization">>

Roots(module, language, first) ==
  IF module.role # "base" THEN {<<module.root, "LooseModule">>}
  ELSE {<<module.root, "StatsOnly">>, <<Public(module), "ModuleResources">>,
        <<ModsOf(module), "ModuleResources">>}
       \cup (IF first THEN {<<Localizations \o <<language>>, "LocalizationOnly">>} ELSE {})

(* discover_module: the kind a module indexes a file as.                   *)
KindIn(module, path, language, first) ==
  LET here == {r \in Roots(module, language, first) : Below(r[1], path)}
      kinds == {Classify(path, r[2], language) : r \in here} \ {None}
  IN  IF kinds = {} THEN None ELSE CHOOSE k \in kinds : TRUE

(* module_watch_roots                                                      *)
ModuleWatchRoots(module, existing) ==
  existing \cap (IF module.role = "base" THEN {module.root, Public(module), ModsOf(module)}
                 ELSE {module.root})

(* Coordinator::start_watcher_with_progress: what is watched.              *)
Watched(modules, existing) ==
  (UNION {ModuleWatchRoots(modules[i], existing) : i \in DOMAIN modules})
  \cup {Data \o <<"editor", "config", "stats">>, Data \o <<"editor", "config", "uuidobjects">>}
  \cup (existing \cap {Localizations})

(* is_packaged_base_package                                                *)
IsPackagedBasePackage(modules, path) ==
  /\ path.dirs = Data /\ path.ext = "pak"
  /\ path.stem = "patch" \/ \E i \in DOMAIN modules :
       modules[i].role = "base" /\ modules[i].name = path.stem

(* ... and what a change of one path rebuilds.                             *)
Everything == {"schema", "localization", "tooltips", "packages"}

IsTooltipPackage(path) == path.dirs = Data /\ path.ext = "pak" /\ path.stem = "game"

RebuiltByRoot(modules, existing, path) ==
  {modules[i].name : i \in {i \in DOMAIN modules : Below(modules[i].root, path)}}

Rebuilt(modules, existing, path) ==
  IF IsPackagedBasePackage(modules, path) THEN {"packages"}
  ELSE IF \/ IsTooltipPackage(path)
          \/ \E root \in {Data \o <<"editor", "config", "stats">>,
                          Data \o <<"editor", "config", "uuidobjects">>, Localizations} :
               Below(root, path)
    THEN Everything \cup {modules[i].name : i \in DOMAIN modules}
  ELSE {modules[i].name : i \in {i \in DOMAIN modules :
          \E root \in ModuleWatchRoots(modules[i], existing) : Below(root, path)}}

(* WorkspaceSnapshot::module_for_path, with Backend::update_overlay: the   *)
(* kind an open document is parsed as, or None if it cannot be attached.   *)
OpensAs(modules, path, language) ==
  IF \E i \in DOMAIN modules :
       \/ KindIn(modules[i], path, language, i = 1) # None
       \/ Below(modules[i].root, path)
    THEN SourceKindForDocument(path) ELSE None

-----------------------------------------------------------------------------
(* The check command.                                                      *)

SupportsDiagnostics(kind) == kind \in {"PlainStats", "Osiris", "Thoth"}

IsIndexedDiagnosticSource(modules, path, language) ==
  \E i \in DOMAIN modules : SupportsDiagnostics(KindIn(modules[i], path, language, i = 1))

(* select_check_paths: the files read by default, and those read for       *)
(* directories and files that are named; None is an error.                 *)
SelectDefault(modules, disk, language) ==
  LET project == modules[Len(modules)] IN
  {p \in disk : SupportsDiagnostics(KindIn(project, p, language, Len(modules) = 1))}

SelectNamed(modules, disk, language, directories, files) ==
  LET chosen == {p \in disk : (\E d \in directories : Below(d, p)) \/ p \in files}
      sources == {p \in chosen : IsIndexedDiagnosticSource(modules, p, language)}
  IN  IF ~(files \subseteq sources) \/ sources = {} THEN None ELSE [paths |-> sources]

-----------------------------------------------------------------------------
(* Properties of a file on disk, in a module of a workspace.               *)

(* An indexed file that a client opens is parsed as what it is indexed as, *)
(* and one of the project or a dependency can always be opened; a goal     *)
(* directory within the Stats of a base module is the one exception.       *)
OpensAsIndexed(modules, path, language) ==
  \A i \in DOMAIN modules :
    LET kind == KindIn(modules[i], path, language, i = 1)
        open == OpensAs(modules, path, language)
    IN  kind # None =>
          \/ open = kind
          \/ modules[i].role = "base" /\ open = None
          \/ modules[i].role = "base" /\ ClassifyStats(path) = "PlainStats" /\ IsOsirisGoal(path)

(* A change of an indexed file is seen and rebuilds its module, if the     *)
(* directory it stands in existed when the watcher started and still does. *)
ChangesAreSeen(modules, before, now, path, language) ==
  \A i \in DOMAIN modules :
    \A r \in Roots(modules[i], language, i = 1) :
      /\ Below(r[1], path) /\ Classify(path, r[2], language) # None
      /\ r[1] \in before \cap now
      => /\ \E root \in Watched(modules, before) : Below(root, path)
         /\ modules[i].name \in Rebuilt(modules, now, path)

(* Checking the project directory is checking the project, if that is not  *)
(* kept with what the game publishes of a base module.                     *)
CheckReadsTheProject(modules, disk, language) ==
  LET root == modules[Len(modules)].root
      apart == \A i \in DOMAIN modules :
                 modules[i].role = "base" => ~(\E p \in disk : Below(root, p) /\ Below(Public(modules[i]), p))
      byDefault == SelectDefault(modules, disk, language)
      named == SelectNamed(modules, disk, language, {root}, {})
  IN  apart => IF byDefault = {} THEN named = None ELSE named = [paths |-> byDefault]
=============================================================================
