------------------------------ MODULE Freshness ------------------------------
(***************************************************************************)
(* What the published index contains against what is on disk: watcher      *)
(* events, their batches and classification, and the reads of full and     *)
(* scoped builds, from crates/bg3-ls/src/coordinator.rs.                   *)
(*                                                                         *)
(* A part is a loose module, the schema (Editor/Config), the resources     *)
(* (localization and tooltip packages) or the base and patch packages, and *)
(* its content is the number of the edit that wrote it; 0 is the empty     *)
(* catalog.  Builds are made by the initialized handler, bg3.reload and    *)
(* the watcher task; Coordinator models their calls, the guard and         *)
(* shutdown, which this module leaves out.                                 *)
(***************************************************************************)
EXTENDS Naturals, FiniteSets

CONSTANTS
  Modules,     \* configured modules
  MaxEdits,    \* bound: edits made on disk
  MaxReloads,  \* bound: bg3.reload commands
  Idle         \* a builder that builds nothing

Parts == Modules \cup {"schema", "resources", "packages"}
Builders == {"initial", "reload", "watcher"}

ASSUME FreshnessAssumption ==
  /\ IsFiniteSet(Modules)
  /\ Modules \cap {"schema", "resources", "packages"} = {}
  /\ MaxEdits \in Nat /\ MaxReloads \in Nat

VARIABLES
  edits,     \* number of the last edit
  disk,      \* what each part holds on disk
  snap,      \* what each part of the published snapshot was read from
  made,      \* schema each layer of the snapshot was parsed with
  watching,  \* no, indexing: the initial rebuild runs or has failed,
             \* may: it has published and the watcher may start, yes
  events,    \* parts with an event in the watcher's channel
  wt,        \* the watcher task
  batch,     \* parts of the batch it works on
  builds,    \* each builder's build
  reloads,   \* bg3.reload commands made
  failed,    \* history: parts whose last read failed
  dropped,   \* history: parts of a batch that a package event took over
  blind      \* history: parts written unseen: not watched yet, or an error instead

watchVars == <<watching, events, wt, batch>>
vars == <<edits, disk, snap, made, watchVars, builds, reloads, failed, dropped, blind>>

Contents == [Parts -> Nat]
Builds == [todo : SUBSET Parts, scope : SUBSET Parts, failed : SUBSET Parts,
           parts : Contents, made : [Modules -> Nat]]

ASSUME IdleAssumption == Idle \notin Builds

TypeOK ==
  /\ edits \in Nat
  /\ disk \in Contents
  /\ snap \in Contents
  /\ made \in [Modules -> Nat]
  /\ watching \in {"no", "indexing", "may", "yes"}
  /\ events \subseteq Parts
  /\ wt \in {"idle", "debouncing", "calling", "rebuilding"}
  /\ batch \subseteq Parts
  /\ builds \in [Builders -> Builds \cup {Idle}]
  /\ wt = "rebuilding" <=> builds["watcher"] # Idle
  /\ reloads \in Nat
  /\ failed \subseteq Parts /\ dropped \subseteq Parts /\ blind \subseteq Parts

Init ==
  /\ edits = 1
  /\ disk = [p \in Parts |-> 1]
  /\ snap = [p \in Parts |-> 0]
  /\ made = [m \in Modules |-> 0]
  /\ watching = "no"
  /\ events = {}
  /\ wt = "idle"
  /\ batch = {}
  /\ builds = [b \in Builders |-> Idle]
  /\ reloads = 0
  /\ failed = {}
  /\ dropped = {}
  /\ blind = {}

-----------------------------------------------------------------------------
(* A file of the part is written; the watcher's channel is unbounded and a *)
(* batch takes all of it, so the events form a set.  Nothing is seen that  *)
(* is not watched yet, or in whose place the watcher reports an error: the *)
(* task logs that and goes on.                                             *)
Edit(p) ==
  /\ edits <= MaxEdits
  /\ edits' = edits + 1
  /\ disk' = [disk EXCEPT ![p] = edits + 1]
  /\ \/ watching = "yes" /\ events' = events \cup {p} /\ UNCHANGED blind
     \/ blind' = blind \cup {p} /\ UNCHANGED events
  /\ UNCHANGED <<snap, made, watching, wt, batch, builds, reloads, failed, dropped>>

-----------------------------------------------------------------------------
(* The watcher task.                                                       *)

StartWatching ==
  /\ watching = "may"
  /\ watching' = "yes"
  /\ UNCHANGED <<edits, disk, snap, made, events, wt, batch, builds, reloads, failed, dropped, blind>>

(* The first event of a batch, which then grows for 250 ms.                *)
Receive ==
  /\ wt = "idle"
  /\ events # {}
  /\ wt' = "debouncing"
  /\ UNCHANGED <<edits, disk, snap, made, watching, events, batch, builds, reloads, failed, dropped, blind>>

(* Everything in the channel joins the batch.  A base or patch package     *)
(* decides alone, then the schema and the resources.                       *)
Drain ==
  /\ wt = "debouncing"
  /\ wt' = "calling"
  /\ batch' = events
  /\ events' = {}
  /\ dropped' = dropped \cup (IF "packages" \in events THEN events \ {"packages"} ELSE {})
  /\ UNCHANGED <<edits, disk, snap, made, watching, builds, reloads, failed, blind>>

(* The parts a batch's rebuild reads: every rebuild reads the packages, a  *)
(* scoped one the affected modules besides, a full one everything.         *)
ScopeNeverFull(paths) ==
  IF "packages" \in paths THEN {"packages"} ELSE (paths \cap Modules) \cup {"packages"}

ScopeSchemaAlone(paths) ==
  IF "packages" \in paths THEN {"packages"}
  ELSE IF "resources" \in paths THEN Parts
  ELSE (paths \cap (Modules \cup {"schema"})) \cup {"packages"}

Scope(paths) ==
  IF "packages" \in paths THEN {"packages"}
  ELSE IF paths \cap {"schema", "resources"} # {} THEN Parts
  ELSE (paths \cap Modules) \cup {"packages"}

-----------------------------------------------------------------------------
(* A build starts from the snapshot of the moment it has the guard.        *)

NewBuild(scope) ==
  [todo |-> scope, scope |-> scope, failed |-> {}, parts |-> snap, made |-> made]

BeginUnguarded(b, scope) ==
  /\ builds[b] = Idle
  /\ builds' = [builds EXCEPT ![b] = NewBuild(scope)]

Begin(b, scope) ==
  /\ \A d \in Builders : builds[d] = Idle
  /\ builds' = [builds EXCEPT ![b] = NewBuild(scope)]

InitialRebuild ==
  /\ watching = "no"
  /\ watching' = "indexing"
  /\ Begin("initial", Parts)
  /\ UNCHANGED <<edits, disk, snap, made, events, wt, batch, reloads, failed, dropped, blind>>

Reload ==
  /\ reloads < MaxReloads
  /\ reloads' = reloads + 1
  /\ Begin("reload", Parts)
  /\ UNCHANGED <<edits, disk, snap, made, watchVars, failed, dropped, blind>>

WatcherRebuild ==
  /\ wt = "calling"
  /\ Begin("watcher", Scope(batch))
  /\ wt' = "rebuilding"
  /\ UNCHANGED <<edits, disk, snap, made, watching, events, batch, reloads, failed, dropped, blind>>

(* A build has the next part of its scope to read; layers are parsed with  *)
(* the schema the build uses, so the schema comes before them.             *)
Reads(b, p) ==
  /\ builds[b] # Idle
  /\ p \in builds[b].todo
  /\ p \in Modules => "schema" \notin builds[b].todo

Read(b, p) ==
  /\ Reads(b, p)
  /\ builds' = [builds EXCEPT ![b] =
       [todo   |-> @.todo \ {p},
        scope  |-> @.scope,
        failed |-> @.failed,
        parts  |-> [@.parts EXCEPT ![p] = disk[p]],
        made   |-> [m \in Modules |-> IF m = p THEN @.parts["schema"] ELSE @.made[m]]]]
  /\ dropped' = dropped \ {p}
  /\ blind' = blind \ {p}
  /\ UNCHANGED <<edits, disk, snap, made, watchVars, reloads, failed>>

(* Resources that cannot be read are replaced by an empty catalog; the     *)
(* packages and a module with an earlier layer keep what they had.         *)
Tolerates(b, p) ==
  p \in {"resources", "packages"} \/ (p \in Modules /\ builds[b].parts[p] # 0)

ReadFails(b, p) ==
  /\ Reads(b, p)
  /\ Tolerates(b, p)
  /\ builds' = [builds EXCEPT ![b] =
       [todo   |-> @.todo \ {p},
        scope  |-> @.scope,
        failed |-> @.failed \cup {p},
        parts  |-> IF p = "resources" THEN [@.parts EXCEPT ![p] = 0] ELSE @.parts,
        made   |-> @.made]]
  /\ UNCHANGED <<edits, disk, snap, made, watchVars, reloads, failed, dropped, blind>>

(* Back in the caller: the watcher task goes on to its next event.         *)
ReturnStuck(b) ==
  /\ builds' = [builds EXCEPT ![b] = Idle]
  /\ wt' = wt
  /\ batch' = batch

Return(b) ==
  /\ builds' = [builds EXCEPT ![b] = Idle]
  /\ wt' = IF b = "watcher" THEN "idle" ELSE wt
  /\ batch' = IF b = "watcher" THEN {} ELSE batch

(* The schema or a first module cannot be read: the build fails and what   *)
(* it was to read stays as published.                                      *)
BuildFails(b) ==
  /\ \E p \in Parts : Reads(b, p) /\ ~Tolerates(b, p)
  /\ failed' = failed \cup builds[b].scope
  /\ Return(b)
  /\ UNCHANGED <<edits, disk, snap, made, watching, events, reloads, dropped, blind>>

Publish(b) ==
  /\ builds[b] # Idle
  /\ builds[b].todo = {}
  /\ snap' = builds[b].parts
  /\ made' = builds[b].made
  /\ failed' = (failed \ builds[b].scope) \cup builds[b].failed
  /\ watching' = IF b = "initial" THEN "may" ELSE watching
  /\ Return(b)
  /\ UNCHANGED <<edits, disk, events, reloads, dropped, blind>>

BuildStep(b) ==
  \/ \E p \in Parts : Read(b, p) \/ ReadFails(b, p)
  \/ BuildFails(b)
  \/ Publish(b)

-----------------------------------------------------------------------------
Next ==
  \/ \E p \in Parts : Edit(p)
  \/ StartWatching \/ Receive \/ Drain
  \/ InitialRebuild \/ Reload \/ WatcherRebuild
  \/ \E b \in Builders : BuildStep(b)

(* The watcher task and running builds make progress; nothing obliges      *)
(* anybody to edit, to reload or the watcher to start.                     *)
Fairness ==
  /\ WF_vars(Receive) /\ WF_vars(Drain) /\ WF_vars(WatcherRebuild)
  /\ \A b \in Builders : WF_vars(BuildStep(b))

Spec == Init /\ [][Next]_vars
FairSpec == Spec /\ Fairness

-----------------------------------------------------------------------------
(* Properties.                                                             *)

Quiet == watching = "yes" /\ events = {} /\ wt = "idle" /\ \A b \in Builders : builds[b] = Idle

Lost == failed \cup dropped \cup blind

(* Once the watcher has worked off its events the snapshot holds what is   *)
(* on disk, whatever was written while a build was reading, except where a *)
(* read failed, a package event took a batch over, or a part was written   *)
(* unseen after it was read: before it was watched, or while the watcher   *)
(* reported an error.                                                      *)
FreshWhenQuiet == Quiet => \A p \in Parts \ Lost : snap[p] = disk[p]

(* Every layer was parsed with the schema it is published with, however    *)
(* full and scoped builds alternate, unless its last read failed.          *)
LayersMatchSchema == \A m \in Modules \ failed : made[m] = snap["schema"]

(* No build puts back a layer, a schema or packages older than published:  *)
(* a build reuses parts of the snapshot it replaces and not of an earlier. *)
PartsNeverGoBack ==
  [][\A p \in Parts \ {"resources"} : snap'[p] >= snap[p]]_vars

(* A change the watcher sees is in the index eventually, or its loss has   *)
(* one of the causes above.                                                *)
ChangesAreIndexed ==
  \A p \in Parts : p \in events ~> snap[p] = disk[p] \/ p \in Lost
=============================================================================
