---------------------------- MODULE CatalogCache ----------------------------
(***************************************************************************)
(* The catalogs of crates/bg3-index/src/cache.rs of bg3-ls (schemas,       *)
(* packaged sources, the facts parsed from them, localization, tooltips),  *)
(* loaded by the tasks of builds: those of one build run side by side, a   *)
(* cancelled build's run on beside the next, and other processes share the *)
(* directory.  A package may be replaced, removed or put back between any  *)
(* two looks at it.                                                        *)
(*                                                                         *)
(* A file's content is its version and its stamp tells versions apart: no  *)
(* size, modification time and checksum come back with other content, as   *)
(* the code assumes.  Metadata and checksum are one look, and so are the   *)
(* four files of the schemas.  What several looks read of a package is the *)
(* set of the versions they met.  The modules and the language of the      *)
(* configuration, which are part of the names, are fixed.  How a cache     *)
(* file is written is CacheStore's.                                        *)
(***************************************************************************)
EXTENDS Naturals, Sequences

CONSTANTS
  Packages,   \* the packages of base modules and the patches
  Tasks,      \* tasks that load at the same time
  Plans,      \* kinds of tasks
  Volatile,   \* bound: files that change
  MaxStarts,  \* bound: tasks started
  MaxChanges  \* bound: changes of the installation

Schemas == "Editor/Config"
Language == "Localization.pak"
Glossary == "Game.pak"
Files == Packages \cup {Schemas, Language, Glossary}

VARIABLES
  versions,  \* version of each file
  there,     \* files that are there
  changes,   \* changes made so far
  cache,     \* stamps and value in each cache file, by name
  plan,      \* what each task still has to load, first the present load
  starts,    \* tasks started so far
  at,        \* where it is in that load
  listed,    \* the candidates it listed
  schema,    \* the version of the schemas its build has
  stamps,    \* the stamps it examined
  reading,   \* the packages it reads
  parts,     \* the versions it met of each
  loaded,    \* what it has loaded, and from what
  began      \* history: the versions when it began

installation == <<versions, there, changes>>
work == <<listed, schema, stamps, reading, parts>>
vars == <<installation, cache, plan, starts, at, work, loaded, began>>

Nothing == [x \in {} |-> x]
With(f, x, y) == [z \in DOMAIN f \cup {x} |-> IF z = x THEN y ELSE f[z]]

Init ==
  /\ versions = [f \in Files |-> 0]
  /\ there \in {Files \ missing : missing \in SUBSET (Volatile \ {Schemas})}
  /\ changes = 0
  /\ cache = Nothing
  /\ starts = 0
  /\ plan = [t \in Tasks |-> <<>>]
  /\ at = [t \in Tasks |-> "next"]
  /\ listed = [t \in Tasks |-> {}]
  /\ schema = [t \in Tasks |-> 0]
  /\ stamps = [t \in Tasks |-> Nothing]
  /\ reading = [t \in Tasks |-> {}]
  /\ parts = [t \in Tasks |-> Nothing]
  /\ loaded = [t \in Tasks |-> Nothing]
  /\ began = [t \in Tasks |-> versions]

-----------------------------------------------------------------------------
(* The installation: a file is replaced or put there anew, removed, or put *)
(* back as it was.                                                         *)
Change(now, present) ==
  /\ changes < MaxChanges
  /\ changes' = changes + 1
  /\ versions' = now
  /\ there' = present
  /\ UNCHANGED <<cache, plan, starts, at, work, loaded, began>>

Install(f) == Change([versions EXCEPT ![f] = @ + 1], there \cup {f})
Remove(f) == f \in there /\ Change(versions, there \ {f})
PutBack(f) == f \notin there /\ Change(versions, there \cup {f})

-----------------------------------------------------------------------------
(* What the tasks of IndexCoordinator::build load, in order, and what      *)
(* build_workspace does for a command.                                     *)
ThothTask == <<"list", "thoth", "thoth facts", "osiris", "osiris facts">>
StatsTask == <<"schemas", "list", "stats">>
ScopedStatsTask == <<"previous schemas", "list", "stats">>
LocalizationTask == <<"localizations">>
TooltipTask == <<"tooltips">>
Command == <<"schemas", "list", "thoth", "thoth facts", "stats", "osiris", "osiris facts">>
PlanOf ==
  [thoth |-> ThothTask, stats |-> StatsTask, scoped_stats |-> ScopedStatsTask,
   localization |-> LocalizationTask, tooltips |-> TooltipTask, command |-> Command]

Relisted == {"thoth", "osiris"}
Packaged == Relisted \cup {"stats"}
Optional == {"localizations", "tooltips"}
Facts == {"thoth facts", "osiris facts"}

Load(t) == Head(plan[t])
PackageOf(load) == IF load = "tooltips" THEN Glossary ELSE Language
CatalogOf(load) == IF load = "thoth facts" THEN "thoth" ELSE "osiris"

(* What a load is of, which names its cache file: the texts of the schemas, *)
(* the catalog of facts, the paths of packages.                            *)
Of(t) ==
  CASE Load(t) = "schemas" -> schema[t]
    [] Load(t) \in Facts -> loaded[t][CatalogOf(Load(t))].value
    [] OTHER -> listed[t]
Name(t) == <<Load(t), Of(t)>>

(* What is made of what was read: Stats are parsed with the schemas.       *)
FactsOf(catalog) == [catalog EXCEPT !.kind = "facts"]
Value(t) ==
  CASE Load(t) = "schemas" -> [kind |-> "schemas", parts |-> Nothing, schema |-> schema[t]]
    [] Load(t) = "stats" -> [kind |-> "records", parts |-> parts[t], schema |-> schema[t]]
    [] Load(t) \in Facts -> FactsOf(Of(t))
    [] OTHER -> [kind |-> "sources", parts |-> parts[t], schema |-> 0]

Goto(t, where) == at' = [at EXCEPT ![t] = where]
Drop(t) ==
  /\ stamps' = [stamps EXCEPT ![t] = Nothing]
  /\ reading' = [reading EXCEPT ![t] = {}]
  /\ parts' = [parts EXCEPT ![t] = Nothing]
Turn(t) ==
  /\ plan' = [plan EXCEPT ![t] = Tail(@)]
  /\ Goto(t, "next")
  /\ Drop(t)
Is(t, where, loads) == plan[t] # <<>> /\ at[t] = where /\ Load(t) \in loads

Take(t, value) ==
  /\ loaded' = [loaded EXCEPT ![t] = With(@, Load(t), [of |-> Of(t), value |-> value])]
  /\ Turn(t)

Start(t) ==
  /\ plan[t] = <<>>
  /\ starts < MaxStarts
  /\ starts' = starts + 1
  /\ \E p \in Plans : plan' = [plan EXCEPT ![t] = PlanOf[p]]
  /\ listed' = [listed EXCEPT ![t] = {}]
  /\ schema' = [schema EXCEPT ![t] = 0]
  /\ loaded' = [loaded EXCEPT ![t] = Nothing]
  /\ began' = [began EXCEPT ![t] = versions]
  /\ UNCHANGED <<installation, cache, at, stamps, reading, parts>>

(* packaged_thoth_package_candidates.                                      *)
List(t) ==
  /\ Is(t, "next", {"list"})
  /\ listed' = [listed EXCEPT ![t] = Packages \cap there]
  /\ Turn(t)
  /\ UNCHANGED <<installation, starts, cache, schema, loaded, began>>

(* A scoped build takes the schemas of the snapshot before it, which some  *)
(* build loaded.                                                           *)
TakePrevious(t) ==
  /\ Is(t, "next", {"previous schemas"})
  /\ \E s \in 0 .. versions[Schemas] : schema' = [schema EXCEPT ![t] = s]
  /\ Turn(t)
  /\ UNCHANGED <<installation, starts, cache, listed, loaded, began>>

(* A load begins: it has its candidates, reads the schemas, or looks       *)
(* whether its one package is there.                                       *)
Begin(t) ==
  /\ Is(t, "next", {"schemas"} \cup Optional)
  /\ Load(t) = "schemas" => Schemas \in there
  /\ schema' = [schema EXCEPT ![t] = IF Load(t) = "schemas" THEN versions[Schemas] ELSE @]
  /\ listed' = [listed EXCEPT ![t] =
       IF Load(t) \in Optional THEN {PackageOf(Load(t))} \cap there ELSE @]
  /\ Goto(t, "examine")
  /\ UNCHANGED <<installation, starts, cache, plan, stamps, reading, parts, loaded, began>>

Examines(t) == Is(t, "next", Packaged \cup Facts) \/ Is(t, "examine", {"schemas"} \cup Optional)
Inputs(t) == IF Load(t) \in Packaged \cup Optional THEN listed[t] ELSE {}

Examine(t, p) ==
  /\ Examines(t)
  /\ p \in (Inputs(t) \ DOMAIN stamps[t]) \cap there
  /\ stamps' = [stamps EXCEPT ![t] = With(@, p, versions[p])]
  /\ UNCHANGED <<installation, starts, cache, plan, at, listed, schema, reading, parts, loaded, began>>

(* The file of that name holds the same stamps; else, or when the file was *)
(* cleared or cannot be read, the packages are read.  The callbacks        *)
(* read_packaged_thoth_catalog and read_packaged_osiris_catalog list the   *)
(* candidates again, read_base_tooltip_catalog looks for its package.      *)
Matches(t) == Name(t) \in DOMAIN cache /\ cache[Name(t)].stamps = stamps[t]

Relist(t) ==
  IF Load(t) \in Relisted THEN Packages \cap there
  ELSE IF Load(t) = "tooltips" THEN listed[t] \cap there
  ELSE Inputs(t)

Look(t) ==
  /\ Examines(t) /\ DOMAIN stamps[t] = Inputs(t)
  /\ Load(t) \in Optional => listed[t] # {}
  /\ \/ Matches(t) /\ Take(t, cache[Name(t)].value)
     \/ /\ reading' = [reading EXCEPT ![t] = Relist(t)]
        /\ Goto(t, "read")
        /\ UNCHANGED <<plan, stamps, parts, loaded>>
  /\ UNCHANGED <<installation, starts, cache, listed, schema, began>>

(* The optional package is not there.                                      *)
Lack(t) ==
  /\ \/ Is(t, "examine", Optional) /\ listed[t] = {}
     \/ Is(t, "read", {"tooltips"}) /\ reading[t] = {}
  /\ Turn(t)
  /\ UNCHANGED <<installation, starts, cache, listed, schema, loaded, began>>

(* PackageReader opens a package for its entries and again for each entry  *)
(* it decodes; the reader of Stats lists the entries twice.                *)
Met(t, p) == IF p \in DOMAIN parts[t] THEN parts[t][p] ELSE {}

Read(t, p) ==
  /\ at[t] = "read"
  /\ p \in reading[t] \cap there
  /\ parts' = [parts EXCEPT ![t] = With(@, p, Met(t, p) \cup {versions[p]})]
  /\ UNCHANGED <<installation, starts, cache, plan, at, listed, schema, stamps, reading, loaded, began>>

StampsOfNow(t) == [p \in Inputs(t) |-> versions[p]]
StampsOfEntry(t) == stamps[t]

Write(t) ==
  /\ at[t] = "read" /\ DOMAIN parts[t] = reading[t]
  /\ Load(t) \in Optional => reading[t] # {}
  /\ cache' = With(cache, Name(t), [stamps |-> StampsOfEntry(t), value |-> Value(t)])
  /\ Take(t, Value(t))
  /\ UNCHANGED <<installation, starts, listed, schema, began>>

(* A file that is gone fails the task, which gives its build nothing.  A   *)
(* task that fails otherwise, or whose process ends, takes no more steps.  *)
Fail(t) ==
  /\ \/ Is(t, "next", {"schemas"}) /\ Schemas \notin there
     \/ Examines(t) /\ \E p \in Inputs(t) \ DOMAIN stamps[t] : p \notin there
     \/ at[t] = "read" /\ \E p \in reading[t] : p \notin there
  /\ plan' = [plan EXCEPT ![t] = <<>>]
  /\ Goto(t, "next")
  /\ Drop(t)
  /\ loaded' = [loaded EXCEPT ![t] = Nothing]
  /\ UNCHANGED <<installation, starts, cache, listed, schema, began>>

-----------------------------------------------------------------------------
Task(t) ==
  \/ Start(t) \/ List(t) \/ TakePrevious(t) \/ Begin(t)
  \/ \E p \in Files : Examine(t, p) \/ Read(t, p)
  \/ Look(t) \/ Lack(t) \/ Write(t) \/ Fail(t)

Next ==
  \/ \E f \in Volatile : Install(f) \/ Remove(f) \/ PutBack(f)
  \/ \E t \in Tasks : Task(t)

Spec == Init /\ [][Next]_vars

-----------------------------------------------------------------------------
(* Properties.                                                             *)

Lies(t, f, met) == met \subseteq began[t][f] .. versions[f]

(* "Changed package inputs rebuild as cache misses": what a task loads     *)
(* from a file it listed, or from the schemas, is what the file held at    *)
(* some moment since the task began, although files change while they are  *)
(* read and tasks of any builds write the same cache; Stats and the        *)
(* optional catalogs are of the listed packages and no others, facts are   *)
(* of their catalog.  Of packages that come or go between the two listings *)
(* of Thoth and Osiris sources nothing is said (see the README).           *)
IsCurrent(t, load, of, value) ==
  /\ load = "schemas" => value.schema = of /\ Lies(t, Schemas, {of})
  /\ load \in Facts => value = FactsOf(of)
  /\ load \in Packaged \cup Optional =>
       \A p \in of \cap DOMAIN value.parts : Lies(t, p, value.parts[p])
  /\ load \in {"stats"} \cup Optional => DOMAIN value.parts = of

CatalogsAreCurrent ==
  \A t \in Tasks : \A load \in DOMAIN loaded[t] :
    IsCurrent(t, load, loaded[t][load].of, loaded[t][load].value)

(* The virtual path of a packaged source has "schema inference behave      *)
(* exactly like loose discovery": the packaged Stats of a build are parsed *)
(* with its schemas.                                                       *)
StatsFollowSchemas ==
  \A t \in Tasks : "stats" \in DOMAIN loaded[t] => loaded[t]["stats"].value.schema = schema[t]
=============================================================================
