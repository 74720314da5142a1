# A TLA+ model of bg3-ls

`bg3-ls` is a language server for Baldur's Gate 3 mod sources. This directory
models two kinds of code in it. The first keeps state: the index coordinator, the
file watcher, text synchronization and diagnostics, the on-disk cache, the schema
cache that concurrent queries share, the process's lifecycle, and the commands
that write files. Here what matters is the order in which things happen. The
second has no state of its own, and what matters is that searches, scanners and
readers which were written apart from each other agree: the resolution of names,
package files, configuration, discovery, Osiris and Thoth callables, the types
of Thoth expressions and of Osiris databases, Stats files and their schemas. All
modules are checked with TLC; the safety properties of every module that keeps
state, but for what entries inherit, and those of six of the modules without
state are also proved with TLAPS, for every value of the constants.

Paths below are relative to `src/crates/`.

## 1. Inventory

| Part | State it keeps | Operations | Talks to |
|---|---|---|---|
| Index coordinator, `bg3-ls/src/coordinator.rs` | `snapshot` (ArcSwap), `state_tx` (watch channel), `build_guard`, `generation`, `stopping`, `active_rebuilds`, `rebuild_finished`, `watcher` | `rebuild_scoped`, `begin_rebuild` and the drop of its guard, `build`, `wait_snapshot`, `start_watcher_with_progress`, `shutdown`, the clean-up task | the client (progress, logs), the cache, every query |
| Watcher task, same file | an unbounded channel of events, the batch in hand | receive, 250 ms debounce, drain, classify, rebuild | the coordinator, the file system |
| Text synchronization and diagnostics, `bg3-ls/src/server.rs` | `overlays`, `diagnostic_tasks`, `diagnostic_monitor`, `stopping` | didOpen/didChange/didSave/didClose, `schedule_diagnostics`, `publish_diagnostics_now`, `monitor_diagnostics`, `shutdown` | the client, `wait_snapshot`, `subscribe` |
| Index cache, `bg3-index/src/cache.rs` | files under the cache directory: objects, manifests, catalogs, temporary files | `new`, `build_module`, `load_*`, `garbage_collect`, `clear` | other processes through the file system |
| Process lifecycle, `bg3-ls/src/lifecycle.rs` | initialized / shut down / exited, the parent's process id | `call`, the parent monitor | `main.rs` |
| Workspace snapshot, `bg3-ide/src/lib.rs` | layers, catalogs, a database-schema cache keyed by generation in each overlay set | `resolve`, `definitions_at`, `references_at`, `hover`, ... | overlays |
| Osiris database schemas, `bg3-ide/src/lib.rs` | none | type propagation over strongly connected components | - |
| Queries, `bg3-ls/src/server.rs` | none | wait for a snapshot, read it once, convert positions | snapshot, overlays |
| Configuration, `bg3-ls/src/config.rs` | none | merge of configuration files, defaults, validation, module list | coordinator, commands |
| Command line, `main.rs`, `conversion.rs` | files | `check`, `convert`, `catalog generate`, benchmarks | file system |
| Discovery, `bg3-index/src/discovery.rs` | none | which files are indexed, served, watched, checked | watcher, server, `check` |
| Packages, `package.rs`, `thoth.rs`, `osiris_api.rs`, `packaged_stats.rs`, `thoth_api.rs` | none | bounded readers; what installed packages declare | cache, snapshot |
| Source parsers, `parser.rs`, `schema.rs` | none | from syntax trees and XML to declarations, references, facts | cache, server |
| Language features, `bg3-ide/src/language.rs` | none | completion, signature help, hover | snapshot |
| Thoth, `thoth_flow.rs`, `thoth_members.rs`, `thoth.rs` | none | types of expressions, fields, contracts | snapshot |
| Diagnostics, `diagnostics.rs` | none | reports of Stats, Osiris and Thoth files | snapshot |

How they interact. The `initialized` handler spawns the monitor and a task that
makes the first rebuild and then starts the watcher. The watcher task,
`bg3.reload` and that first task all call `rebuild_scoped`; `build_guard`
serializes them. A build reads files through the cache, stores a new snapshot
and then announces `Ready` on the watch channel. Update handlers wait for the
first snapshot, parse the buffer with its schema and put it in the overlay set;
a spawned task publishes diagnostics 150 ms later. The monitor republishes for
each announced generation. `shutdown` stops the server's tasks and then the
coordinator, which aborts the watcher and waits for rebuilds to drain.

What is hard here: cancelled futures (`$/cancelRequest` drops a handler at an
await, `abort` drops a task); flags that are tested and then acted on; a drain
loop built from an atomic counter and `Notify`; two kinds of rebuild that reuse
parts of an earlier snapshot; handlers that suspend and resume in any order;
files that change while they are read; several writers of one cache directory.

What makes each part correct:

- coordinator: builds exclude each other, generations only grow, the snapshot is
  in place before it is announced, shutdown returns and leaves nothing running;
- watcher: what is on disk is in the index once the events are worked off;
- text synchronization: queries see the client's latest text, and the client is
  shown the diagnostics of that text against the current generation;
- cache: a build never takes a stale, truncated or foreign record from it;
- lifecycle: the exit status says whether a shutdown was accepted, and no process
  outlives the parent that its `initialize` named;
- commands: what they leave is whole, and only `--force` replaces a file;
- snapshot: definitions resolve by module precedence, overlays replace their own
  file's records only, the cached database schemas match snapshot and overlays;
- algorithms: what one search finds is what the others find, and agrees with a
  reference definition (reachability, an interpreter, what a writer wrote).

`PROJECT.json` lists the hazards line by line with the properties that cover
them.

## 2. Modules

| Module | What it is |
|---|---|
| `IndexPublication` | What the coordinator promises: begin, publish, announce, fail, close. |
| `Coordinator` | The coordinator, one action per atomic operation. Implements `IndexPublication`. |
| `DocumentSync` | One document's overlay and diagnostics, over `IndexPublication`. |
| `Freshness` | Content of the published index against the disk. |
| `CacheStore` | `build_module` at the granularity of file system calls. |
| `Workspace` | The schema cache of the open documents under concurrent queries. |
| `Resolution` | What a name means while documents open and close. |
| `Lifecycle` | `lifecycle.rs` and the end of `main`. |
| `Publishing` | `convert` and `catalog generate` beside other writers. |
| `Configuration` | From layers of options to modules. |
| `Discovery` | Which files are indexed, served, watched, checked. |
| `PackageFormat` | The bounded reader of package files. |
| `PackagedSources` | What installed packages hold and declare. |
| `CatalogCache` | The catalogs of the cache that have one file each, loaded by tasks of overlapping builds. |
| `OsirisCallables` | Completion, signature help and hover of Osiris callables. |
| `OsirisRules` | What the index takes from an Osiris goal. |
| `OsirisSchemas` | The inference of database types. |
| `TextScans` | Positions, and what is read off the text around a cursor. |
| `ThothFlow` | The type of a Thoth expression, against an interpreter. |
| `ThothMembers` | The fields of a member, over `ThothFlow`. |
| `ThothContracts` | Helpers, aliases and classes in every view, over `PackagedSources`. |
| `StatsSchemas` | Toolkit schemas and the diagnostics of Stats files. |
| `StatsFiles` | The readers of Stats, Toolkit, LSX and localization files, over `StatsSchemas`. |
| `Readers` | What is made of what comes from outside, over any inputs; composes modules above that have no recursive operator: `PackageFormat`, `PackagedSources`, `OsirisCallables`, `OsirisRules`, `Configuration`, `Discovery`, `OsirisSchemas`. |
| `MCCacheStore` | `CacheStore` and `CatalogCache`, side by side. |
| `MCWorkspace` | `Workspace` and `Resolution`, side by side. |
| `MCProgram` | The process: with a command it publishes, without one it serves. |
| `MCAlgorithms` | Bounded inputs for the modules without state; extends `Readers`. |
| `CoordinatorProofs`, `DocumentSyncProofs`, `FreshnessProofs` | Theorems about the module each is named for. |
| `CacheStoreProofs` | About the two halves of `MCCacheStore`: `CacheStore` and `CatalogCache`. |
| `WorkspaceProofs` | About `MCWorkspace`, and so about `Workspace` and `Resolution`. |
| `ProgramProofs` | About `MCProgram`, and so about `Lifecycle` and `Publishing`. |
| `ReadersProofs` | About `Readers`: package files, options, files, what installed packages declare, how callables are shown, database columns, rules and goals. |
| `Ordering` | The members of a finite set in an order, for `Resolution`, `OsirisSchemas` and `OsirisRules`. |
| `Induction` | What the other proofs need of finite sets and numbers: minimal elements, induction, and that recursive functions exist. |

### Coordinator

A call is one invocation of `rebuild_scoped`: the initial one, those of
`bg3.reload`, and those of the watcher task, which makes them one after another.
`pc` follows a call through the code:

| `pc` | Code |
|---|---|
| `entering`, `counted`, `unwinding` | `begin_rebuild`: test, increment, test again, decrement |
| `queued` | awaiting `build_guard` |
| `creating` | awaiting the client's answer to `workDoneProgress/create` |
| `building`, `assembling` | `build` before and after the generation counter is incremented |
| `built`, `stored` | before and after `snapshot.store`; `stored` until `send_replace(Ready)` |
| `notifying` | progress, log and message after the announcement |
| `release`, `dropping`, `waking` | the guards are dropped: `build_guard`, `active_rebuilds`, `notify_waiters` |

`Cancel` drops a reload at any of its awaits. The drain loop of `shutdown` is
`draining` (load), `arming` (the `Notified` future is created), `armed` (second
load) and `parked`. `starter` is the task of the `initialized` handler, `task`
and `stored` the watcher's task and whether its handle is in `WatcherState`.
`gc` is the clean-up task of a successful build, which nothing waits for.
`wpc` and `unseen` are requests inside `wait_snapshot`. A build is one step that
succeeds or fails.

### DocumentSync

Overlays and diagnostic tasks are maps keyed by path and every operation touches
one key, so one document is modelled. The index is `IndexPublication` with
`IndexStep`; that `Coordinator` implements it is checked and proved, so the two
compose. An update that arrives before the first snapshot is put in `pending`
and resumed in any order. A diagnostic task sleeps, computes and sends; the
abort of one that has passed its last await leaves it running (`strays`). The
monitor reads the open versions in one step and schedules in another. Four
history variables name what properties except: `failed`, `overtaken`,
`displaced`, and `outlived`, a close that found diagnostics about to be sent. The
order in which diagnostics reach the client (`DiagnosticsNeverGoBack`) excepts
none but the last: displaced tasks, strays and shutdown are covered.

### Freshness

A part is a loose module, the schema, the resources (localization, tooltips) or
the base and patch packages; its content is the number of the edit that wrote
it. `Scope` is the classification of a batch and what the chosen rebuild reads.
`failed`, `dropped` and `blind` are history variables that name why a part may
be out of date: its last read failed; a package event took its batch over; it
was written unseen, before it was watched or while the watcher reported an
error, which its task only logs. Stopping is `Coordinator`'s subject and left
out.

### CacheStore

`build_module` for one source file: read the manifest, stat, probe, read and
parse, write the object, write the manifest. `write_envelope` is three steps
(create or truncate, write, rename) on inodes, so that two writers of one
temporary name are modelled as the file system does it. Around it: edits,
`CacheStore::new` removing temporary files, `garbage_collect` in two phases,
a process that dies, a rename that survives a power loss without its data.
Two calls of one process overlap when a reload is cancelled: the guard is
released while its `spawn_blocking` task runs on.

### CatalogCache

Schemas, packaged Thoth and Osiris sources, the facts parsed from them, packaged
Stats, localization and tooltips have a cache file each. A task loads some of
them, one after another:

| Plan | Code |
|---|---|
| `ThothTask`, `StatsTask` | the `spawn_blocking` tasks of `build`, `coordinator.rs:441-530` |
| `ScopedStatsTask` | the same for a scoped build, which takes the schemas of the snapshot before it |
| `LocalizationTask`, `TooltipTask` | the optional packages, which may not be there |
| `Command` | `build_workspace` in `main.rs`, in another process on the same directory |

For each load a task lists the packages (`List`), examines their stamps one by one
(`Examine`), looks into the cache file (`Look`), and on a miss reads each package
one or several times (`Read`) and writes the file (`Write`). What a load is *of*
names its file: the listed packages, the texts of the schemas, the catalog that
facts are parsed from. The stamps stand in the file, and it is a hit if they are
the same. `Relist` is what the callbacks do on a miss: those of Thoth and Osiris
list the packages again, that of the tooltips looks for its package again.
Packaged Stats are parsed with the schemas that the task has, which are neither
in the name nor in the stamps.

Tasks overlap: those of one build, those of a cancelled build, whose
`spawn_blocking` tasks run on beside the next build's, and those of other
processes. Between any two steps files are replaced, removed or put back. A task
may stop anywhere, as one whose process ends, and a look may miss although the
file is there (cleared, corrupt, of an older format). `Fail` is what a file that is gone
does to a task.

### Workspace

A query takes the snapshot (`Take`), gets the read lock of the overlays (`Lock`),
asks for the database schemas (`Ask`) and, when the cache has none of its
generation, builds and caches them (`Store`); `Release` drops the lock. It may
ask several times, as features do. `Insert` and `Remove` hold the write lock and
so wait for readers; `Publish` is the coordinator's, at any time. The cache has a
lock of its own that is held neither while schemas are built nor from `Ask` to
`Store`, so readers of different generations overwrite each other's. What the
schemas are is a parameter, `SchemasOf`.

### OsirisSchemas

`build_osiris_database_schemas` as operators: the occurrences in Story order
(`Sources`, `Records`, `Gives`), the dependency edges and direct types, the two
depth-first passes that find the strongly connected components (`Ended`,
`Components`), the types settled component by component (`Settle`), the fold per
column and goal (`FoldGoal`, `Observe`), and which mismatches are diagnosed
(`Reported`). A column of a database is a number; an occurrence of several columns
acts as one for each. A search or fold is a recursive function. The actions only
write files, so that the states are the inputs. The properties define the same results from sets: reachability, pairs
of compatible types.

### Resolution

A module is its rank, a position is a line. `Indexing` says of which modules a
path is a file, `Containing` which roots contain it, so that one file may belong
to two. `Insert` and `Close` are the overlays; everything else is operators over
disk and documents: `Resolve` (definitions by rank, then the documents' and the
installed packages'), goto, references, document and workspace symbols,
completion of symbols, and the fields that an entry inherits
(`EffectiveFields`). `OpeningKeepsAnswers` excepts names that some declaration
has only as an alias, and files of two modules: for those it does not hold.

### Lifecycle and Publishing

`Lifecycle` has `tower_lsp_server` as the states its answers depend on, each
request as a future (`Call`, then `Returns` or `Refuses`, then `Observe`, where
`lifecycle.rs` looks at the answer), the parent monitor, which sleeps, probes and
may misread a probe (`process_is_alive` takes a failed `kill` for a dead
parent), the end of the input, and the end of `main`. `Publishing` has several
commands that write one destination through a temporary file each: look,
validate, read, create, write, sync, copy the mode, persist; beside them other
programs that place or remove the destination and edit the source, kills at
every step, and a power loss, after which a file that was not synced may be a
part of itself.

### Configuration and Discovery

`Configuration` merges layers of options as partial functions, completes them
with the defaults, validates them and lists the modules; `BenchmarkModules` and
`ExitCode` are from `main.rs`. `Discovery` classifies a path (its directories, its
stem, its extension) for indexing, for opening, for the watcher and for `check`,
each as its own code does. A file may open where it is not indexed only in a
base module: another language's localization and the like, and an Osiris goal
kept below Stats.

### PackageFormat and PackagedSources

`PackageFormat` has the header, the list and the entries as the untrusted numbers
of a file, with sums that must not pass `MaxWord`; the file may have another size
when an entry is read than when it was opened. `PackagedSources` selects the
packages of the base modules and their patches, bounds what is read of them and
resolves names: the highest priority wins, what is tied is ambiguous, and what
does not parse counts against what is below it. `ReadStats` and `Inventory` are
the other two readers of the same packages.

### Readers

Seven modules of operators take what they are given from outside the process, and
none of their operators is recursive. `Readers` makes one specification of
them, whose inputs are constants: a behaviour picks a package file, installed
packages together with other names for them, goals over installed goals and
catalogs, layers of options with a workspace, a file
among modules, a rule or a goal with a catalog, and states of the picked input are what the properties speak of.
One family goes on: goal files grow by occurrences (`PickOccurrence`,
the steps of `OsirisSchemas`). `MCAlgorithms` gives the constants small sets and adds the
inputs of the other modules.

### OsirisCallables and OsirisRules

`OsirisCallables` has the three searches for a callable (completion, signature
help, hover) over goals on disk and open, installed goals, the generated
contracts and the curated events. `OsirisRules` goes from the syntax tree of a
rule to the local variables with their origins and types, to the calls that may
stand at a place, and to what a goal declares and refers to; and has the queries
about a variable.

### TextScans

Positions between the client's encoding and bytes, and each scanner that reads
the text around a cursor by itself: calls, first arguments, comments, property
clauses, attributes, values, rule keywords. A text is a sequence of characters,
among them one of two and one of four bytes; what the scanners look for as a
word stands as one character. `DataClause` may give `Panic`, as the slice in the
code does.

### ThothFlow, ThothMembers and ThothContracts

`ThothFlow` has twice the meaning of a Thoth file: the facts that `parser.rs` takes
from the tree, with the types that `thoth_flow.rs` derives from them, and an
interpreter that runs the file in every way (branches either way, loops up to
`Rounds`, calls up to `Nesting`, raised errors, any arguments that contracts
allow). `TypesAreSound` asks that every value a reported expression has is of
the type that is reported, in files that are `Settled`: where flow does not
depend on when a name is read. `ThothMembers` adds the fields of members;
`ThothContracts` which declaration of a helper, an alias or a class each view
takes from loose files, open documents and packages.

### StatsSchemas and StatsFiles

`StatsSchemas` merges schema files, guesses the schemas of a legacy entry from its
kind, its file and its selecting field, and reports fields and references.
`StatsFiles` reads legacy entries clause by clause, Toolkit and LSX files element
by element and the tags of localized texts. A value is what parser and validation
tell apart: a word, a number, a list, a call and so on.

## 3. Runs

| Run | Instance | Shows |
|---|---|---|
| `coordinator` | initial call, one cancellable reload, one watcher call, one request, shutdown | exclusion, order of publication, shutdown, implements `IndexPublication`; shutdown returns and requests are answered |
| `document` | three texts, two generations, two slots, version numbers may restart | overlay and diagnostics converge, diagnostics in order; silence after shutdown |
| `freshness` | one module, two edits, one reload | the index holds what is on disk; layers match their schema; every change is indexed or has a cause of loss |
| `cache` | two calls of one process, two edits, one truncated file; and two tasks, any of a scoped build, a command, localization and tooltips, three files that change, two changes | cache hits are never stale or foreign; the catalogs loaded were in the files since the task began, whoever wrote the cache |
| `workspace` | two queries, three generations, two files, two texts; and two modules, three files, four texts, two packaged declarations | queries are answered from their snapshot and the open documents; resolution, symbols, completion and inherited fields answer for the visible text |
| `program` | three requests, one misread probe; two commands, two changes by others | exit status, end of orphans, whole files, nothing overwritten |
| `algorithms` | every small input of the modules without state, see below | what one search finds the others find; types, bounds and readers against reference definitions |
| `watcher_start`, `closed_buffer`, `flow_guess`, `unclosed_name`, `stale_stats` | as above, smaller | the five findings |

`algorithms` picks one input of one family and evaluates the properties of that
family on it; its behaviours are one step long, except for `OsirisSchemas`, whose
goal files grow occurrence by occurrence. `program`, `workspace` and `cache` hold two
modules each that do not interact; in each behaviour one of them moves.

Why the bounds are enough.

- `coordinator`: a call of each kind, so that three overlap, and a scoped build
  follows one that was published, cancelled or failed and overlaps shutdown.
  More calls repeat this; the proofs of the safety properties cover any number.
- `document`: three texts let two updates wait at once and a third follow a
  reopen; two generations let the monitor see one it has diagnostics for and one
  it has not.
- `freshness`: two edits put one before and one after any read of a build, or two
  parts in one batch; one module beside the schema, the resources and the
  packages makes every scope possible; the proofs cover any number.
- `cache`: two calls and two edits, where the second restores the first text, let
  an object be shared, replaced and found again; five spare inodes are never
  used up.
- `cache`, catalogs: two tasks let one write between any two steps of the other;
  two changes put one before and one after any look, or remove a package and put it
  back. A command loads all that the tasks of a full build load, so that these
  need no plans of their own. One package is enough for what is asked of each
  package by itself, and the proof covers any number.
- `workspace`: three generations let two readers hold different ones that are both
  old, and let the cache hold a third. Of three files one belongs to each
  module and one to both; the four texts hold a duplicate, an alias with an
  identifier, inheritance across files and an Osiris procedure.
- `program`: a session needs an initialize, a shutdown and one request more that
  overtakes them; two commands race for one destination and two changes
  by others put one before and one after any step of a command.
- Packages: in files of eight bytes every order and overlap of header, list and
  entry occurs, and sums pass `MaxWord`; a second entry has the first one's
  name or another. Three packages of two priorities make
  a winner, a tie and a hidden loser with a source that does not parse in any of
  these places.
- Callables: two goal files of two modules, one of them perhaps open or
  incomplete, over up to two installed goals and the two catalogs, with equal
  and different arities.
- Options and paths: a field set in one layer, both or none; modules apart, within
  each other and within the game's data; localization directories that are
  there, or come, or go.
- Texts of up to four (positions), five or six characters hold an escaped quote,
  a comment in a string and a string in a comment, each closed or open, behind
  prefixes that open a call or a clause.
- Rules of a head and two body units: what binds, what is bound, and what comes
  too early. Thoth blocks of three statements hold a write before, in and after
  a branch or loop; two rounds of a loop pass a value from one to the next.
- Helpers: two loose files, in one module or two, over two installed sources of
  any module, package and priority: each kind of tie. Aliases of three names
  make chains, unions and cycles.
- Entries of up to five clauses under two spell schemas, so that a guess is
  none, one or both; schema files of three and two elements.
- Database types: three columns make a cycle of two with something before or
  after it and a cycle of three; three occurrences in one file and one in another
  give a goal of two files conflicting evidence, alone or inside a cycle.
  Occurrences are chosen for what `Gives` tells apart: literals of a type, of
  GUIDSTRING and of a type outside the catalog, a local typed by a query or not
  bound, a read, and rules that copy a column.

Deadlock is checked in none of the runs but `workspace`: calls, edits, texts and
inputs are bounded, so the instances run out of work.

Fairness. `Coordinator`: every call that has begun, the starter, the shutdown
handler and each waiting request are polled when they can go on (the tokio
runtime), an aborted task is dropped, a build ends, and the client answers
`workDoneProgress/create`. `Freshness`: the watcher task and running builds go
on. `Lifecycle`: the monitor is polled, a call that has its answer returns it,
and `serve` and `main` return when they can. No fairness on the client, the parent,
the end of the input, edits or failures.

Assumptions on the environment:

- the two tokio mutexes are fair, `Notify` and `watch` behave as documented;
- handlers are polled in one task, so they interleave only where they suspend,
  and only so many are pending at once (`Slots`);
- a diagnostic send that has started ends within the 150 ms another task sleeps
  (`PromptSends`);
- every edit of a file makes a new pair of size and modification time: the
  cache trusts that pair, and so do `CacheStore` and `CatalogCache`, for packages
  together with the checksum. A file that is put back as it was has its stamp
  back;
- in `CatalogCache` metadata and checksum of a package are one look, and so are the
  four files of the schemas; the modules and the language, which are part of the
  names, do not change.

Each property of a passing run has a mutant in `PROJECT.json`: a plausible bug
in a mapped definition under which TLC finds the property violated. Operators
such as `RecheckNeverBacksOut` are those bugs, next to the definitions they
alter, and are used nowhere else.

## 4. Proofs

`CoordinatorProofs` holds for every finite set of calls, any set of requests and
any subset of cancellable reloads (`CallsAssumption`). It uses nothing else.

- `ControlInv` = `TypeOK` and `GuardInv` and `CountInv`. Types alone are not
  inductive: a decrement of `active` stays natural only because `active` is the
  number of counted calls (`CountInv`), and exclusion needs that whoever is
  between acquire and release is the holder (`GuardInv`). `StepMoves` shows that
  every step of a call, a cancellation included, is a move that takes and
  releases exactly what its two positions hold. Gives `TypeCorrect`,
  `MutualExclusion`.
- `ShutdownInv`: once `active` has been read as zero with `stopping` set, no
  call is past `begin_rebuild`; a later one backs out at its second test. Gives
  `ShutdownIsQuiescent`.
- `PublicationInv` relates the watch channel's value, the snapshot and the
  holder's result. Gives `ReadyIsPublished`, `SnapshotsAdvance` and
  `Implementation`: each step maps to a step of `IndexPublication` or a stutter.
- `WatcherInv` relates the watcher mutex, the spawned task and whether its
  handle is stored. Gives `WatcherIsStopped`.
- `PreviousInv`: the watcher task exists only after a snapshot. Gives
  `ScopedBuildsReuse`.

`FreshnessProofs` holds for every finite set of modules and any number of edits
and reloads, from `FreshnessAssumption` (the sets are disjoint and finite) and
`IdleAssumption` (the value that marks an idle builder is no build).

- `BuildInv` = types, one build at a time (`AloneInv`), and what a build's scope
  may be (`ScopeInv`: whoever reads the schema reads everything). Gives
  `FreshnessTypes`.
- `ContentInv` has four parts. `FreshInv` alone, that a part which is not lost is
  current, due or covered by a build, is not inductive, because a build is only
  as good as what it read: `ReadInv` says that what a build has read is current
  or due again, and what it does not read is what the snapshot holds. That last
  half needs that no other build publishes meanwhile, hence `AloneInv`. Gives
  `IndexIsFresh`.
- `MadeInv`: the schema is read before the layers, so a build's layers were made
  with the schema it will publish. Gives `LayersAreConsistent`.
- `OrderInv`: what a build holds is never older than the snapshot it started
  from. Gives `PartsAdvance`.

`CacheStoreProofs` holds for every finite set of calls, any assignment of them to
processes, any texts, edits, crashes and truncated files (`CacheAssumption`).

- `ShapeInv`: types, and a call has a text exactly after its hit or read. Gives
  `CacheTypes`.
- `OneName`: no inode can be reached under two names, as a file, a temporary file
  or one open for writing. Without it a late write through a descriptor whose
  file another call has renamed could put one object's content under another's
  name; it holds because the temporary name contains the final one, and it is
  what `ObjectsAreGenuine` rests on.
- `DataInv` and `CallInv` say of the files and of the calls that a text belongs to
  its stamp: the file had it when, or since, it had the stamp. This survives
  edits (`BelongsStays`), and at the present stamp it leaves only the present
  text. Gives `ManifestsAreCurrent` and `BuildsTakeNoStaleText`.
- `CatalogInv`, for any packages, tasks, plans and changes, without an assumption:
  `EntriesInv` says of the cache that every value was read between its stamps and
  the present (`Genuine`). A load looks at the stamps first and reads later, so a
  value may be newer than its stamps, whichever task writes it; but by a hit the
  stamps are those that the task examined since it began (`StampInv`), and so is
  the value. Gives `CatalogsFollowPackages`. That schemas and packages were read
  together is not claimed: see the findings.

`WorkspaceProofs` is about the specification of `MCWorkspace`, whose constants are any
queries, paths, texts, modules and declarations (`CacheAssumption`,
`ResolutionAssumption`).

- `CacheInv` is the two properties of `Workspace` with the types: a hit is right
  because the cache is (`CacheIsCurrent`), and the answers already given stay
  right because a document only changes when nobody reads and a publication
  leaves earlier generations as they are. Gives `WorkspaceTypes`,
  `QueriesAreAnswered`, `CacheFollowsDocuments`.
- What `Resolution` promises needs no more of a state than its types; the work is in
  lemmas about the operators, stated for any disk and any set of documents.
  `AnswersAreLive`: a location can only come from a record of the visible text.
  `CompletionFollowsNavigation`: both searches end at the first module in which a
  name is declared, although each filters before it looks.
  `OpeningChangesNothing`: a document opened as it is on disk replaces exactly the
  records it repeats; the theorem carries the exceptions of the property
  (aliases, files of two modules), and its proof shows where each is needed.
  `DuplicatesAreIgnored`: the lineage from the chain of all candidates and the one
  from the chain of the first of each module are `Paired`: of one length, and
  place by place at the same declaration. A step keeps this (`PairedInherit`),
  because the next place of either is the declaration that comes first in the
  modules below (`HeadIsForemost`), and both stop at the same repetition.

  A lineage is a recursive function, so what the definition describes must first
  be shown to exist (`Recursion`, next).

`Induction` states, with a set where a textbook has a predicate, what the prover
would otherwise need a theorem with an operator parameter for: a finite set has
minimal elements under a strict order (from the well-foundedness of strict
inclusion), hence least and greatest numbers; that placing each member after as
many as precede it puts a finite set in order (`OrderArranges`); induction on
numbers, with and without a bound; and that a recursive definition is followed
by a function.

`DocumentSyncProofs` holds for any numbers of texts, generations and pending
updates (`DocumentAssumption`), where the value that marks an absent overlay or
task is neither (`NoneAssumption`).

- `TypeInv`: types, a client's version is never greater than its text, and only a
  server with a snapshot has an overlay (`published` is then in the range of what
  a task writes down). Gives `Types`.
- `ClientInv`: `OverlayFollowsClient` alone says nothing while updates are
  pending. What is inductive is that every update the server holds, pending or
  applied, is `Behind` the client (of an earlier version, or its very text), and
  that the client's text is the overlay, pending or refused. A closed buffer has
  neither overlay nor pending update unless a close has overtaken one; this is
  what a restarted version number rests on. Gives `OverlaysFollow`.
- `ShutdownInv`: no mapped task computes once `stopping` is set, and the awaited
  one is gone before shutdown goes on. Gives `ShutdownSilences`.
- `DiagnosticsInv`, under `PromptSends`: a task is of the overlay's version; a
  replaced task that still sends does so before its successor wakes; and an
  earlier generation than the announced one is computed or shown only while the
  monitor has yet to look or to schedule. Gives `DiagnosticsSettle`.
- `OrderInv`, under `PromptSends` and without `outlived`: at most one task's
  diagnostics are on their way (`InFlight`), and they are not older than those
  shown. To be inductive it says too that neither those on their way nor those
  shown are ahead of the overlay and of the index (`NotAhead`), so that what is
  computed next is not older than they are. Gives `DiagnosticsInOrder`.

`ProgramProofs` is about `MCProgram`, so that one theorem covers a process that serves
and a process that publishes.

- `CallsInv`: the flag that decides the exit status is set exactly when some
  `shutdown` has been seen accepted; every other step leaves the accepted
  calls as they are. `ProcessInv` ties the process's end to the flag and to
  the parent. Gives `ExitStatusFollowsShutdown`, for any set of requests.
- The property of the destination (`WholeInv`: whole, and synced, without which a
  power loss would not leave it so) is kept by a command's last step only if its
  temporary file is whole by then: `CommandInv` says what a command has read,
  written and synced at each of its steps, and `HistoryInv` that the modes and
  texts it has seen include the present ones. Gives `NothingIsReplaced` and
  `FilesAreWhole`, for any commands and any number of changes by others.

`ReadersProofs` is about `Readers`. It uses `ReadersAssumption`, which TLC evaluates for the inputs of the runs:

- a header and its entries hold natural numbers;
- a field that serde has read as a list is a list; in a workspace's list of
  modules the project comes last; a directory exists only below one that does;
- packages are finitely many and have different names, under the other names
  too; a package has finitely many entries, each with a place of its own
  (`IsInstallation`). Paths may occur twice and priorities may be equal;
- what declares a procedure or query, in a goal or an installed one, has as many
  parameters as its arity; an event of the curated list has its name to itself,
  and a contract with that name and arity is an event (`IsWorkspace`);
- a generated contract is of one of the five kinds (`Kinds`); the statements of a
  rule are conditions, comparisons and actions, and sections, rules and arguments
  are lists (`IsCatalog`, `IsRule`, `IsGoal`);
- the values that stand for "none" are none of the others;
- columns, paths and goals are numbers, and finitely many (`SchemasAssumption`).

- `PackagesStayInside`: a range that is accepted lies in the file, behind its
  header and apart from its list (`AcceptedRange`), whatever the file's size has
  become since it was opened, and what is decoded is as long as announced
  (`DecodedLength`). By its name an entry reads as by its place, because a name
  that occurs once leaves the search one choice.
- `OptionsLayOut`: options are looked at field by field (`ByField`), and every step of
  the code (merging, defaults, validation, module lists, thresholds) is shown to
  give that field's reference value. The nearest configuration is the longest
  prefix that has one, which exists by `GreatestOf`.
- `IndexedFilesServed`: paths are compared component by component. A file lies below
  a module's root exactly if its path starts with it; `BaseKind` and its like
  say which kinds each of the classifications can give, and the
  theorem puts them together. It carries the two exceptions of the property: a
  goal directory that a base module keeps below Stats (`PlainStats`), and
  for `check` files that two modules share (`apart`).

- `InstalledEvidenceHolds`: the effective source is the only one of the foremost; so
  it is enough that other names move sources and declarations one to one
  (`SourcesMove`, `DeclaredMove`, `SameSize`) and keep what stands foremost and
  whether it is alone. What is foremost among ties, the first in the order of
  package and place (`FirstIn`), is shown to exist like the nearest
  configuration (`MinimalOf`, `LeastIn`). For Stats, whose order is by package
  alone, the readers agree where a module is spelled as configured and a path
  is listed once; the counts of the inventory are those of the catalog. Nothing
  that is rejected, and nothing of equal priority, stands above an effective
  declaration.
- `CallablesAgree`: a case for each thing signature help may show. In each the
  search of completion and that of hover are shown to end at the same rank
  and to see the same declarations there (loose, installed, generated,
  curated), so that what they list has the parameters that help shows. It
  carries the property's exceptions, which are listed under section 5.

- `MismatchesFound`: what a column knows after some goals, in their order, is
  exactly what those goals give it, and it is ambiguous exactly if one of them
  is disputed (`FoldedUpTo`, kept by `GoalFolded`; within a goal, `AllObserved`).
  A file that repeats a type adds no observation where the goal's name is shared
  (`DistinctTypes`). An error stands at the first occurrence of its type
  (`ReportsClashes`), which is why the order of the files does not matter; it
  holds for whatever types propagation has filled in before.
- `RulesReadInOrder`: the code goes through a rule once and carries what it knows
  from unit to unit, while the property speaks of all places of a rule at once.
  `KnownAbove` says, without an order of looking, what is known above a unit: the
  variables that some place above supplies, each with its foremost supplier, and
  the types that the places above have of their own. One unit takes it to what is
  known below (`UnitProcessed`; the places of the unit, which are merged one by
  one, are `TypesUpdated`), so it solves the recursive function of the analysis,
  and what the analysis finds is that solution (`AnalysisIs`). A place in the
  unit that binds its variable sees the value unless it stands before it, which is
  where the receiver, place 0, comes in. For hover it is enough that places above
  whose evidence is one type have no other type of their own. For goals, the
  databases that calls write are the same on both sides (`WrittenAreDeclared`,
  `WrittenAreReferredTo`), however the calls are sorted and joined, and the two
  tables of what may stand where, the parser's and completion's, are compared
  pair by pair (`OfferedIsAllowed`).

`ReadyIsPublished`, `SnapshotsAdvance`, `ManifestsAreCurrent` and the theorems on
types are proved and are no property of a run: the first two follow from
`ImplementsPublication`, the third is a part of what `BuildsAreCurrent` needs.

Only model-checked, and why:

- `ShutdownReturns`, `WaitersAreAnswered`, `ChangesAreIndexed`, `OrphansEnd`: liveness
  under fairness is beyond the prover, as is ENABLED.
- `SchemaTypesAreSettled`, `SchemaPathsDoNotDecide`: they rest on the two
  depth-first searches finding the strongly connected components, whose
  invariants (what is reachable over columns not visited yet) are an induction
  over the graph of its own.
- `StatsAreRead`, `ContractViewsAgree`, `FlowTypesAreSound`: their modules
  (`StatsFiles`, `ThothContracts`, `ThothFlow`, `ThothMembers`) have
  recursive operators, which the prover cannot read, and are compared with
  reference definitions that only induction over data relates to them.
- `PositionsAgree`, `ScansAgree`: what a scan has found at the end of a text is an
  induction over the text for each scanner, with an invariant of its own.

## 5. Findings

Five places where the code does something other than its documentation or
comments say. Each has a run whose counterexample TLC prints.

1. `watcher_start`: if `bg3.reload` gets the guard between the return of the
   initial rebuild and the handler's look at `state()`, it reads `Building` and
   the session has no watcher (`server.rs:439`).
2. `closed_buffer`: a `didClose` handled while a `didOpen` waits for the first
   snapshot removes nothing; the overlay then appears and stays
   (`server.rs:140`).
3. `flow_guess`: a write that follows a block decides the type of a use inside
   the block (`thoth_flow.rs:318`).
4. `unclosed_name`: hover on a property name that has no closing quote yet slices
   past the end of the line (`language.rs:3009`).
5. `stale_stats`: packaged Stats are parsed with the schemas of the build but cached
   by their packages alone, so after a change of the schemas the old parse is a
   hit (`cache.rs:354`). Loose Stats are keyed by the schemas too.

### Known losses

What else the code does differently from its texts, or differently in two
places, met while modelling. The passing properties except each case by name, or
are stated so that they do not speak of it; within the bounds nothing else goes
wrong.

Index and documents:

- The monitor schedules a version that it read before a change was handled and
  replaces that change's task (`server.rs:286`; `displaced` in `DocumentSync`).
- An aborted task that has passed its last await may send diagnostics after a close
  has cleared them, and when the document is opened again with a lower version
  (`server.rs:217`, 560; `outlived` in `DocumentSync`).
- An overlay keeps the parse made with the schema that was current when it
  arrived (`server.rs:146`).
- A batch with a package path forgets its other paths (`coordinator.rs:1019`, the
  repository's README 841-843; `dropped` in `Freshness`). Files written
  between the initial build and the watcher's start are missed (`blind`), and
  so is what the watcher reports an error for: nothing is read again
  (`coordinator.rs:988`).
- Events below a module root that was deleted are matched to no module
  (`coordinator.rs:1050`).
- Opening the cache removes temporary files of builds in progress
  (`cache.rs:701`), which then fail in `rename`.
- An edit that keeps both size and modification time is a stale hit
  (`cache.rs:543`).
- Packaged Thoth and Osiris sources are stamped by the packages listed before the
  look and read from those listed after it (`thoth.rs:577`). A package that
  appears in between and is removed again stays in every later hit; one that is
  gone in between and put back as it was stays missing.
- A package that is replaced while it is read may be taken in parts, some from
  before and some from after (`parts` in `CatalogCache`), and stays in the cache so
  if the file whose stamp was taken comes back.
- The clean-up task's warning may follow the answer to shutdown
  (`coordinator.rs:364`, README 317-318; `CleanUpWarns`).
- `catalog generate` does not sync what it renames; `convert` does.
- A failed `kill` counts as a dead parent (`lifecycle.rs`; `MonitorMisreads`).

Resolution:

- Opening a document changes what resolves for names that are also aliases and
  for files of two modules (`module.rs` 189-229 against `lib.rs` 2224-2254).
- Packaged Stats keep only the highest package priority over all modules
  (`packaged_stats.rs` 322-341), loose declarations each module's
  (`lib.rs` 536-538); completion adds the packaged ones after all loose layers.
- Field completion takes the fields of the first declaration of a name.

Osiris:

- Installed signature help requires an arity of at least the argument plus one,
  though it is said to mirror the loose one (`language.rs` 1964), and so passes
  over callables without parameters, which completion and hover show.
- Completion keeps the disk's callables of an open goal that does not parse;
  signature help does not.
- An ambiguous contract gives a call no kind, yet the event's view falls back to
  the curated events.
- After conflicting types in earlier units, hover falls back to the type of the
  binding column (`lib.rs` 1526-1584).

Text:

- The scan of a first argument reads `/*/`, `*//` and `*/*` differently from the
  scan of calls; quotes over several lines are carried by one and ended by
  another.
- `data_clause_spans` accepts text between `data` and the quote; `data_context`
  does not. The look for an attribute (`xml.rs:24`) may find text within
  another attribute's name or value.

Thoth:

- Flow is not sound outside `Settled`: later writes seen from a nested use, loops,
  lists of targets, variables of `for`, parameters without a contract, locals of
  a repeated body in its condition, writes by other functions, guarded targets,
  returns of anonymous functions, an annotated parameter that the function does
  not declare.
- Where flow knows nothing, hover on a member takes the annotation of the root
  (`thoth_members.rs`).
- Hover on an installed helper that is only described shows an empty parameter
  list (`language.rs:594` against 68-72); loose observed calls are read from
  disk even where the file is open, and hide what is installed.
- A higher base module that only calls a name hides the declaration of a lower
  one from signature help (1462-1552), not from its annotation (1583-1615).
- Signature help shows the first by path of several unannotated declarations.
- Type flow asks the packages of a base module before lower loose layers; the
  views ask all loose layers first.

Stats:

- A `using` clause before the `type` clause has no kind and is never reported
  missing.
- Kinds are looked up by Toolkit names only, validation also accepts legacy names
  (`schema.rs:43`); Toolkit files get no kinds from schemas.
- Every value of a repeated field refers, only the last is validated.
- Calls within calls are not counted as functions of the game.
- A tag that does not end hides all later ones of its text.

## 6. Not modelled, and why

- Query handlers read one snapshot and change nothing but the schema cache; they
  appear as requests in `wait_snapshot`, as the queries of `Workspace` and as the
  operators of the modules without state. How their results are worded is left
  out.
- What a file's own parse says of an argument is an input of `OsirisSchemas`.
- A cancelled reload leaves the state at `Building`. That its guards are
  released is checked; `WaitersAreAnswered` excepts a state that stays so for
  good because nothing builds afterwards (`Abandoned`).
- Renames inside a watched root: their events name two paths, as two edits do.
- Failure of the cache's own reads other than as a miss; `info`; `clear` other than
  as a miss in `CatalogCache`.
- The grammars (tree-sitter), the XML reader, decompression, serde: they are
  external, and their results are the inputs of the models. The parser of Thoth
  annotations.
- Generated tables (the Osiris catalog, field kinds, Thoth functions): data. The
  models take small ones.
- Benchmarks, progress messages, printing.

## 7. Plan

Done: all modules listed above, and the eight modules of proofs.

Left, in this order:

1. `DocumentSync`: which schema an overlay was parsed with.
2. Diagnostics of Thoth conditions (`diagnostics.rs`), over `ThothContracts`.
3. `CacheStore`: `clear` beside a build. One clear makes the instance of the run
   seven times as large; it needs smaller ones first.
