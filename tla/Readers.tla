------------------------------ MODULE Readers ------------------------------
(***************************************************************************)
(* What bg3-ls makes of what it is given from outside: packages, what they *)
(* declare, callables of goals and catalogs, layers of options, files      *)
(* anywhere in a workspace, rules and goals.  A behaviour picks one input  *)
(* of one of these families; only goal files go on: they grow              *)
(* (OsirisSchemas).                                                        *)
(***************************************************************************)
EXTENDS Integers, Sequences, OsirisSchemas

CONSTANTS
  Unset,           \* None of the modules below
  MaxWord, HeaderSize, PrefixSize, EntrySize, MaxListSize,    \* see PackageFormat
  PackageFiles,      \* package files, as they are parsed
  Sizes,             \* how large such a file may have become
  ReadLimit,         \* what a caller reads at most
  MaxEntry, MaxCatalog,    \* see PackagedSources
  Installations,     \* packages in the game's data
  Renamings,         \* what else packages may be named
  BaseSets,          \* the base modules of a configuration
  GoalWorkspaces,    \* goals, installed goals and catalogs (see OsirisCallables)
  CallableNames,     \* what is called in them
  Positions,         \* and the argument the cursor is at, from zero
  JsonLayers, InlineLayers, Workspaces, Disks,    \* see Configuration
  PackageNames,      \* names of packages and languages
  Starts,            \* where a configuration is looked for
  ConfiguredSets,    \* the directories that have one
  ModuleLists,       \* the modules of a workspace in ascending precedence
  Locations,         \* paths of files
  Languages,
  DirectorySets,     \* the directories that exist
  Domain(_, _, _), Compatible(_, _), KnownTypes,    \* see OsirisRules
  StoryCatalogs,     \* generated contracts with the curated events
  StoryRules,        \* rules of goals, as they are parsed
  StoryGoals         \* and whole goals

VARIABLE input

Format == INSTANCE PackageFormat
Callables == INSTANCE OsirisCallables
Options == INSTANCE Configuration WITH None <- Unset
Toolkit == INSTANCE StatsSchemas WITH None <- Unset, LowerCase <- <<>>
Places == INSTANCE Discovery WITH None <- Unset
Rules == INSTANCE OsirisRules WITH None <- Unset

(* A header and its entries hold any numbers; serde reads lists as lists;  *)
(* the project comes last, and a directory exists only below one that does. *)
ASSUME ReadersAssumption ==
  /\ {MaxWord, HeaderSize, PrefixSize, EntrySize, MaxListSize, ReadLimit} \cup Positions \subseteq Nat
  /\ \A file \in PackageFiles : Format!IsFile(file)
  /\ \A packages \in Installations :
       /\ Callables!IsInstallation(packages)
       /\ \A names \in Renamings, p, q \in packages :
            names[p.name] \in Nat /\ (names[p.name] = names[q.name] => p.name = q.name)
  /\ \A w \in GoalWorkspaces : Callables!IsWorkspace(w)
  /\ \A layer \in JsonLayers \cup InlineLayers : Options!IsLayer(layer)
  /\ Unset \notin {"off"} \cup Options!Severities
  /\ \A start \in Starts :
       start \in Seq(STRING) /\ \A n \in 0 .. Len(start) : SubSeq(start, 1, n) # Unset
  /\ \A modules \in ModuleLists : Places!AreModules(modules)
  /\ \A path \in Locations : path.dirs \in Seq(STRING)
  /\ Languages \subseteq STRING
  /\ \A existing \in DirectorySets, language \in Languages :
       Places!Localizations \o <<language>> \in existing => Places!Localizations \in existing
  /\ Unset \notin Places!Kinds
  /\ \A c \in StoryCatalogs : Rules!IsCatalog(c)
  /\ \A rule \in StoryRules : Rules!IsRule(rule)
  /\ \A goal \in StoryGoals : Rules!IsGoal(goal)
  /\ Unset \notin Rules!Kinds \cup (Nat \X Nat)

Choosing(family) == input.tag = "none" /\ input.family = family

-----------------------------------------------------------------------------
(* Packages.                                                               *)

PickPackage ==
  /\ Choosing("packages")
  /\ \E file \in PackageFiles, size \in Sizes :
       input' = [tag |-> "package", file |-> file, now |-> [file EXCEPT !.size = size]]

\* Whatever a package says, what is read of it lies inside the file and
\* outside its own metadata, and by its name an entry reads as through a
\* reader (package.rs).
PackageReadsStayInside ==
  input.tag = "package" /\ Format!IsOk(Format!Open(input.file)) =>
    LET entries == input.file.list.entries IN
    \A i \in DOMAIN entries :
      /\ Format!ReadInside(input.now, input.file, entries[i], ReadLimit)
      /\ (\A j \in 1 .. i - 1 : entries[j].name # entries[i].name) =>
           Format!ReadPackageEntry(input.file, entries[i].name, ReadLimit)
             = Format!ReadEntry(input.file, input.file, entries[i], ReadLimit)

-----------------------------------------------------------------------------
(* Installed packages, under these names and under others.                 *)

PickInstallation ==
  /\ Choosing("installations")
  /\ \E packages \in Installations, names \in Renamings, bases \in BaseSets :
       input' = [tag |-> "installed", packages |-> packages, bases |-> bases,
                 renamed |-> Callables!Renamed(packages, names)]

\* Neither file names nor rejected entries decide what installed packages
\* declare, and their readers agree (thoth.rs, thoth_api.rs, osiris_api.rs).
InstalledEvidence ==
  input.tag = "installed" =>
    /\ Callables!NamesDoNotDecide(input.packages, input.renamed, input.bases, "osiris",
                                  {"callable", "function"})
    /\ Callables!NothingStandsAbove(input.packages, input.bases, "osiris", {"callable", "function"})
    /\ \A module \in input.bases : Callables!ReadersAgree(input.packages, module)

-----------------------------------------------------------------------------
(* Goals, some of them open, above installed goals and the catalogs.       *)

PickCallables ==
  /\ Choosing("callables")
  /\ \E w \in GoalWorkspaces : input' = [tag |-> "callables", w |-> w]

\* Completion, signature help and hover show one declaration of a callable
\* (language.rs, lib.rs).
CallableViewsAgree ==
  input.tag = "callables" => Callables!ViewsAgree(input.w, CallableNames, Positions)

-----------------------------------------------------------------------------
(* Options.                                                                *)

PickOptions ==
  /\ Choosing("options")
  /\ \E json \in JsonLayers, inline \in InlineLayers, workspace \in Workspaces, disk \in Disks :
       input' = [tag |-> "options", json |-> json, inline |-> inline, workspace |-> workspace,
                 disk |-> disk]

\* Inline options override JSON fields, those override defaults; modules stand
\* in ascending precedence; benchmark orders them alike; exit codes are ordered
\* by threshold (config.rs, main.rs).
OptionsApplyByField ==
  input.tag = "options" =>
    LET config == Options!Load(input.json, input.inline, input.workspace, input.disk)
        options == Options!Complete(Options!Merge(input.json, input.inline))
    IN  /\ Options!LoadsByField(input.json, input.inline, input.workspace, input.disk)
        /\ config # Unset =>
             Options!BenchmarkModules(options, input.workspace, input.disk) = config.modules
        /\ \A severities \in SUBSET Options!Severities :
             Options!ThresholdsAreOrdered(config, severities)
        /\ \A packages \in SUBSET PackageNames :
             config # Unset => Options!IncompleteKinds(config, packages) \subseteq Toolkit!Diagnosable
        /\ \A start \in Starts, configured \in ConfiguredSets :
             Options!DiscoversTheNearest(start, configured)

-----------------------------------------------------------------------------
(* A file anywhere in a workspace whose modules lie apart, within each     *)
(* other or within the game's data.                                        *)

PickLocation ==
  /\ Choosing("locations")
  /\ \E path \in Locations, modules \in ModuleLists, language \in Languages,
        before, now \in DirectorySets :
       input' = [tag |-> "location", path |-> path, modules |-> modules, language |-> language,
                 before |-> before, now |-> now]

\* A file opens as what it is indexed as, its changes are seen, and check reads
\* it exactly if the project has it (discovery.rs, coordinator.rs, main.rs).
IndexedFilesAreServed ==
  input.tag = "location" =>
    /\ Places!OpensAsIndexed(input.modules, input.path, input.language)
    /\ Places!ChangesAreSeen(input.modules, input.before, input.now, input.path, input.language)
    /\ Places!CheckReadsTheProject(input.modules, {input.path}, input.language)

-----------------------------------------------------------------------------
(* Rules and goals, as the index reads them.                               *)

PickRule ==
  /\ Choosing("rules")
  /\ \E rule \in StoryRules, c \in StoryCatalogs :
       input' = [tag |-> "rule", rule |-> rule, catalog |-> c]

PickGoal ==
  /\ Choosing("goals")
  /\ \E goal \in StoryGoals, c \in StoryCatalogs :
       input' = [tag |-> "goal", goal |-> goal, catalog |-> c]

RuleIsRead(c, rule, outputs, analysis) ==
  /\ Rules!BindingsHaveOneOrigin(c, rule, outputs, analysis)
  /\ Rules!TypesComeFromBefore(c, rule, outputs, analysis)
  /\ Rules!NavigationAgrees(rule, analysis)
  /\ Rules!HoverFollowsNavigation(rule, analysis)

\* What completion offers where, in the words of contracts and of goals.
RoleOf(kind) ==
  CASE kind \in {"query", "sysquery"} -> "query" [] kind = "event" -> "event" [] OTHER -> "procedure"
PositionOf(placement) ==
  CASE placement = "if" -> "head" [] placement \in {"procedure", "query"} -> "declaration"
    [] OTHER -> placement

OfferedByCompletion ==
  {offer \in Rules!Kinds \X {"if", "procedure", "query", "condition", "action"} :
     Callables!Allowed(RoleOf(offer[1]), PositionOf(offer[2]))}

\* What the index says of a rule's variables is what the rule's units bind and
\* type from first to last, and a goal's facts, declarations and issues belong
\* together (parser.rs).
RulesAreRead ==
  /\ input.tag = "rule" =>
       RuleIsRead(input.catalog, input.rule, Rules!Outputs(input.catalog, input.rule),
                  Rules!Analysis(input.catalog, input.rule))
  /\ input.tag = "goal" =>
       Rules!GoalsAreConsistent(input.catalog, input.goal,
                                Rules!ParseGoal(input.catalog, input.goal), OfferedByCompletion)

-----------------------------------------------------------------------------
(* Goal files, as they are written.                                        *)

PickOccurrence ==
  /\ input.tag = "schemas"
  /\ \E p \in Paths, o \in Occurrences : Extend(p, o)
  /\ UNCHANGED input

\* A column is in error exactly if its types exclude each other (lib.rs,
\* diagnostics.rs).
SchemaMismatchesAreReported == input.tag = "schemas" => MismatchesAreReported

-----------------------------------------------------------------------------

\* Only the family of schemas has goal files.
ReadersInit ==
  \/ Init /\ input = [tag |-> "schemas"]
  \/ /\ files = <<>>
     /\ input \in {[tag |-> "none", family |-> family] :
                    family \in {"packages", "installations", "callables", "options", "locations", "rules",
                                "goals"}}

ReadersNext ==
  \/ PickOccurrence
  \/ /\ \/ PickPackage \/ PickInstallation \/ PickCallables
        \/ PickOptions \/ PickLocation \/ PickRule \/ PickGoal
     /\ UNCHANGED files

ReadersSpec == ReadersInit /\ [][ReadersNext]_<<files, input>>
=============================================================================
