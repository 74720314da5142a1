---------------------------- MODULE DocumentSync ----------------------------
(***************************************************************************)
(* crates/bg3-ls/src/server.rs: text synchronization and diagnostics of    *)
(* one open document.  Overlays and diagnostic tasks are maps keyed by     *)
(* path and every operation touches one key, so one document is enough.    *)
(*                                                                         *)
(* The index is seen through IndexPublication, which Coordinator           *)
(* implements.  Handlers run in one task that polls them in turn           *)
(* (tower-lsp-server, external), so a handler runs without interleaving    *)
(* except where it suspends: in wait_snapshot, until a first snapshot.     *)
(* Diagnostic tasks and the monitor are spawned and run in parallel.       *)
(***************************************************************************)
EXTENDS Naturals, FiniteSets

CONSTANTS
  MaxText,         \* bound: texts the client produces
  MaxGeneration,   \* bound: generations the index publishes
  Slots,           \* handlers that may be pending at once
  VersionsRestart, \* whether reopening may restart version numbers
  PromptSends,     \* whether a send in progress ends within a 150 ms sleep
  None             \* no overlay, no task, nothing shown

ASSUME DocumentAssumption ==
  /\ MaxText \in Nat \ {0}
  /\ MaxGeneration \in Nat \ {0}
  /\ Slots \in Nat \ {0}
  /\ VersionsRestart \in BOOLEAN
  /\ PromptSends \in BOOLEAN

VARIABLES
  status, published, open,  \* the index, see IndexPublication
  client,       \* the client's buffer: whether it is open, version, text
  pending,      \* update handlers suspended in wait_snapshot
  overlay,      \* the document's entry in the overlay set
  task,         \* the document's entry in diagnostic_tasks
  strays,       \* aborted tasks that had computed diagnostics already
  drained,      \* such a task, aborted by shutdown, which awaits it
  shown,        \* what the client was last sent for the document
  monitor,      \* monitor_diagnostics: waiting, or about to schedule
  unseen,       \* the monitor's receiver has an unseen state
  sh,           \* where the shutdown handler is
  failed,       \* texts whose update ended in an error message
  overtaken,    \* history: a close arrived while an update was pending
  displaced,    \* history: the monitor displaced a task of a later version
  outlived      \* history: a close found diagnostics about to be sent

indexVars == <<status, published, open>>
taskVars == <<task, strays, drained, shown>>
historyVars == <<failed, overtaken, displaced, outlived>>
vars == <<indexVars, client, pending, overlay, taskVars, monitor, unseen, sh, historyVars>>

Index == INSTANCE IndexPublication

Versions == 0 .. MaxText
Texts == 1 .. MaxText
Updates == [version : Versions, text : Texts]
Shown == [version : Versions, generation : 1 .. MaxGeneration]
Sleepers == [version : Versions, pc : {"sleeping"}]

ASSUME NoneAssumption == None \notin Updates \cup Shown \cup Sleepers

stopping == sh # "running"

TypeOK ==
  /\ status \in Index!Statuses
  /\ published \in 0 .. MaxGeneration
  /\ open \in BOOLEAN
  /\ client \in [open : BOOLEAN, version : Versions, text : 0 .. MaxText]
  /\ pending \subseteq Updates /\ Cardinality(pending) <= Slots
  /\ overlay \in Updates \cup {None}
  /\ task \in Sleepers \cup Shown \cup {None}
  /\ strays \subseteq Shown
  /\ drained \in Shown \cup {None}
  /\ shown \in Shown \cup {None}
  /\ monitor \in [pc : {"waiting", "scheduling", "ended"}, version : Versions]
  /\ unseen \in BOOLEAN
  /\ sh \in {"running", "tasks", "monitor", "coordinator", "done"}
  /\ failed \subseteq Texts
  /\ overtaken \in BOOLEAN
  /\ displaced \in BOOLEAN
  /\ outlived \in BOOLEAN

Monitor(pc, version) == [pc |-> pc, version |-> version]

Init ==
  /\ Index!Init
  /\ client = [open |-> FALSE, version |-> 0, text |-> 0]
  /\ pending = {}
  /\ overlay = None
  /\ task = None
  /\ strays = {}
  /\ drained = None
  /\ shown = None
  /\ monitor = Monitor("waiting", 0)
  /\ unseen = FALSE
  /\ sh = "running"
  /\ failed = {}
  /\ overtaken = FALSE
  /\ displaced = FALSE
  /\ outlived = FALSE

-----------------------------------------------------------------------------
(* The index changes state; the monitor's receiver sees each send_replace. *)

IndexStep ==
  /\ \/ Index!Begin /\ published < MaxGeneration /\ unseen' = TRUE
     \/ published < MaxGeneration /\ published' = published + 1 /\ Index!Publish
          /\ UNCHANGED unseen
     \/ Index!Announce /\ unseen' = TRUE
     \/ Index!Fail /\ unseen' = TRUE
  /\ UNCHANGED <<client, pending, overlay, taskVars, monitor, sh, historyVars>>

-----------------------------------------------------------------------------
(* Diagnostic tasks.                                                       *)

Sleeping(version) == [version |-> version, pc |-> "sleeping"]
HasComputed(t) == t # None /\ "generation" \in DOMAIN t

(* JoinHandle::abort: a task that has computed its diagnostics and passed  *)
(* its last test still sends them, since it has no await left before the   *)
(* send; an earlier one is dropped.                                        *)
Abort(t) == strays' = IF HasComputed(t) THEN strays \cup {t} ELSE strays

(* schedule_diagnostics past its test of stopping: spawns a task and       *)
(* replaces the document's handle.                                         *)
ReplaceTaskUnlessBusy(version) ==
  task' = (IF task = None THEN Sleeping(version) ELSE task) /\ UNCHANGED strays

ReplaceTask(version) == task' = Sleeping(version) /\ Abort(task)

Schedule(version) ==
  IF stopping THEN UNCHANGED <<task, strays>> ELSE ReplaceTask(version)

(* After the 150 ms sleep: the task ends when stopping, or when the        *)
(* overlay is not of its version any more; else it computes against the    *)
(* current snapshot.                                                       *)
HasOverlay(t) == ~stopping /\ overlay # None
IsWanted(t) == ~stopping /\ overlay # None /\ overlay.version = t.version

TaskWakes ==
  /\ task # None /\ ~HasComputed(task)
  /\ PromptSends => strays = {}
  /\ task' = IF IsWanted(task)
               THEN [version |-> task.version, generation |-> published]
               ELSE None
  /\ UNCHANGED <<indexVars, client, pending, overlay, strays, drained, shown, monitor, unseen, sh, historyVars>>

(* The second test of stopping and publish_diagnostics.                    *)
TaskSends ==
  /\ HasComputed(task)
  /\ task' = None
  /\ \/ shown' = task
     \/ stopping /\ UNCHANGED shown
  /\ UNCHANGED <<indexVars, client, pending, overlay, strays, drained, monitor, unseen, sh, historyVars>>

StraySends ==
  /\ \E t \in strays :
       /\ strays' = strays \ {t}
       /\ shown' \in {t, shown}
  /\ UNCHANGED <<indexVars, client, pending, overlay, task, drained, monitor, unseen, sh, historyVars>>

DrainedSends ==
  /\ drained # None
  /\ drained' = None
  /\ shown' \in {drained, shown}
  /\ UNCHANGED <<indexVars, client, pending, overlay, task, strays, monitor, unseen, sh, historyVars>>

-----------------------------------------------------------------------------
(* update_overlay: the text is rejected when the overlay is of a later     *)
(* version, or of the same version unless allow_equal_version; otherwise   *)
(* it replaces the overlay and diagnostics are scheduled.                  *)

AcceptsAll(version, allowEqual) == TRUE

Accepts(version, allowEqual) ==
  overlay # None =>
    \/ overlay.version < version
    \/ allowEqual /\ overlay.version = version

Update(version, text, allowEqual) ==
  \/ /\ Accepts(version, allowEqual)
     /\ overlay' = [version |-> version, text |-> text]
     /\ Schedule(version)
     /\ UNCHANGED failed
  \/ /\ ~Accepts(version, allowEqual)
     /\ UNCHANGED <<overlay, task, strays, failed>>
  \/ /\ failed' = failed \cup {text}  \* no module owns it, or it does not parse
     /\ UNCHANGED <<overlay, task, strays>>

(* A handler is started when the server has a slot for it.                 *)
SlotFree == Cardinality(pending) < Slots

(* A new update handler runs at once when there is a snapshot, fails when  *)
(* the last build failed without one, and suspends otherwise.              *)
Receive(version, text) ==
  CASE published # 0 -> Update(version, text, FALSE) /\ UNCHANGED pending
    [] published = 0 /\ status = "Failed" ->
         failed' = failed \cup {text} /\ UNCHANGED <<overlay, task, strays, pending>>
    [] OTHER ->
         /\ pending' = pending \cup {[version |-> version, text |-> text]}
         /\ UNCHANGED <<overlay, task, strays, failed>>

(* A suspended handler is woken, in no particular order.                   *)
Resume(u) ==
  /\ u \in pending
  /\ pending' = pending \ {u}
  /\ IF published # 0
       THEN Update(u.version, u.text, FALSE)
       ELSE status = "Failed" /\ failed' = failed \cup {u.text}
              /\ UNCHANGED <<overlay, task, strays>>
  /\ UNCHANGED <<indexVars, client, drained, shown, monitor, unseen, sh, overtaken, displaced, outlived>>

(* textDocument/didOpen.                                                   *)
DidOpen ==
  /\ SlotFree
  /\ ~client.open /\ client.text < MaxText
  /\ \E version \in IF VersionsRestart THEN {0, client.version + 1} ELSE {client.version + 1} :
       /\ client' = [open |-> TRUE, version |-> version, text |-> client.text + 1]
       /\ IF stopping THEN UNCHANGED <<overlay, task, strays, failed, pending>>
          ELSE Receive(version, client.text + 1)
  /\ UNCHANGED <<indexVars, drained, shown, monitor, unseen, sh, overtaken, displaced, outlived>>

(* textDocument/didChange.                                                 *)
DidChange ==
  /\ SlotFree
  /\ client.open /\ client.text < MaxText
  /\ client' = [client EXCEPT !.version = @ + 1, !.text = @ + 1]
  /\ IF stopping THEN UNCHANGED <<overlay, task, strays, failed, pending>>
     ELSE Receive(client.version + 1, client.text + 1)
  /\ UNCHANGED <<indexVars, drained, shown, monitor, unseen, sh, overtaken, displaced, outlived>>

(* textDocument/didSave reads the overlay's version first; the client may  *)
(* include the saved text, which then replaces the text of that version.   *)
DidSave ==
  /\ SlotFree
  /\ client.open
  /\ ~stopping
  /\ overlay # None
  /\ \/ Update(overlay.version, client.text, TRUE)
     \/ Schedule(overlay.version) /\ UNCHANGED <<overlay, failed>>
  /\ UNCHANGED <<indexVars, client, pending, drained, shown, monitor, unseen, sh, overtaken, displaced, outlived>>

(* textDocument/didClose: removes overlay and task, clears diagnostics.    *)
DidClose ==
  /\ SlotFree
  /\ client.open
  /\ client' = [client EXCEPT !.open = FALSE]
  /\ overtaken' = (overtaken \/ pending # {})
  /\ outlived' = (outlived \/ (~stopping /\ (HasComputed(task) \/ strays # {})))
  /\ IF stopping THEN UNCHANGED <<overlay, task, strays, shown>>
     ELSE overlay' = None /\ task' = None /\ Abort(task) /\ shown' = None
  /\ UNCHANGED <<indexVars, pending, drained, monitor, unseen, sh, failed, displaced>>

-----------------------------------------------------------------------------
(* monitor_diagnostics: on Ready it reads the open versions, then          *)
(* schedules each; other steps may come between.                           *)
MonitorWakes ==
  /\ monitor.pc = "waiting"
  /\ unseen
  /\ unseen' = FALSE
  /\ monitor' = CASE stopping -> Monitor("ended", 0)
                  [] ~stopping /\ status = "Ready" /\ overlay # None ->
                       Monitor("scheduling", overlay.version)
                  [] OTHER -> monitor
  /\ UNCHANGED <<indexVars, client, pending, overlay, taskVars, sh, historyVars>>

(* Its last test of stopping may come before shutdown sets the flag and    *)
(* its insertion after shutdown drained the tasks.                         *)
MonitorSchedules ==
  /\ monitor.pc = "scheduling"
  /\ monitor' = Monitor("waiting", 0)
  /\ ReplaceTask(monitor.version)
  /\ displaced' = (displaced \/ (overlay # None /\ overlay.version # monitor.version))
  /\ UNCHANGED <<indexVars, client, pending, overlay, drained, shown, unseen, sh, failed, overtaken, outlived>>

MonitorEnds ==
  /\ monitor.pc = "scheduling"
  /\ stopping
  /\ monitor' = Monitor("ended", 0)
  /\ UNCHANGED <<indexVars, client, pending, overlay, taskVars, unseen, sh, historyVars>>

-----------------------------------------------------------------------------
(* The shutdown handler: set stopping and abort the mapped tasks, await    *)
(* them, stop the monitor, then the coordinator.                           *)
StopServer ==
  /\ SlotFree
  /\ sh = "running"
  /\ sh' = "tasks"
  /\ task' = None
  /\ drained' = IF HasComputed(task) THEN task ELSE None
  /\ UNCHANGED <<indexVars, client, pending, overlay, strays, shown, monitor, unseen, historyVars>>

AwaitNothing ==
  /\ sh = "tasks"
  /\ sh' = "monitor"
  /\ UNCHANGED <<indexVars, client, pending, overlay, taskVars, monitor, unseen, historyVars>>

AwaitTasks ==
  /\ drained = None
  /\ AwaitNothing

AwaitMonitor ==
  /\ sh = "monitor"
  /\ monitor' = Monitor("ended", 0)
  /\ sh' = "coordinator"
  /\ UNCHANGED <<indexVars, client, pending, overlay, taskVars, unseen, historyVars>>

StopCoordinator ==
  /\ sh = "coordinator"
  /\ Index!Close
  /\ sh' = "done"
  /\ UNCHANGED <<client, pending, overlay, taskVars, monitor, unseen, historyVars>>

-----------------------------------------------------------------------------
Next ==
  \/ IndexStep
  \/ TaskWakes \/ TaskSends \/ StraySends \/ DrainedSends
  \/ \E u \in pending : Resume(u)
  \/ DidOpen \/ DidChange \/ DidSave \/ DidClose
  \/ MonitorWakes \/ MonitorSchedules \/ MonitorEnds
  \/ StopServer \/ AwaitTasks \/ AwaitMonitor \/ StopCoordinator

Spec == Init /\ [][Next]_vars

-----------------------------------------------------------------------------
(* Properties.                                                             *)

(* Every update the server has received is processed.                      *)
Caught == ~stopping /\ pending = {}

(* Queries answer from the client's latest text once every update has been *)
(* processed, unless that text was refused with an error message.  Where   *)
(* reopening restarts version numbers, a close must not have overtaken an  *)
(* update: the late overlay would outrank the reopened buffer.             *)
OverlayFollowsClient ==
  /\ Caught /\ client.open /\ client.text \notin failed /\ (VersionsRestart => ~overtaken)
    => overlay = [version |-> client.version, text |-> client.text]
  /\ Caught /\ ~client.open /\ ~overtaken => overlay = None

(* No diagnostics are due: no task is pending and the monitor has nothing  *)
(* left to look at.                                                        *)
Settled == Caught /\ task = None /\ strays = {} /\ monitor.pc = "waiting" /\ ~unseen

UpToDate ==
  shown # None /\ shown.version = overlay.version
    /\ (status = "Ready" => shown.generation = published)

(* When everything has settled the client has the diagnostics of the       *)
(* overlay's version against the announced generation, unless the monitor  *)
(* put a task of an earlier version in the place of a later one's.         *)
DiagnosticsCatchUp == Settled /\ overlay # None /\ ~displaced => UpToDate

(* The client is never shown older diagnostics in the place of newer ones, *)
(* neither of an earlier version of the document nor against an earlier    *)
(* snapshot, whichever tasks were replaced, displaced or aborted, during   *)
(* shutdown too: what was computed first is sent first, if a send ends     *)
(* before another task has slept.  Diagnostics sent after the close that   *)
(* clears them may be followed by those of a restarted version.            *)
NotOlder(d, e) ==
  \/ d.version > e.version
  \/ d.version = e.version /\ d.generation >= e.generation

DiagnosticsNeverGoBack ==
  [][PromptSends /\ ~outlived' /\ shown # None /\ shown' # None => NotOlder(shown', shown)]_vars

(* Once shutdown has returned nothing more is sent for the document, save  *)
(* by a task that was replaced before and that shutdown does not know of.  *)
SilentAfterShutdown == [][sh = "done" /\ shown' # shown => strays # {}]_vars

(* Stated by the documentation and not met; see the README.                *)

(* "Closing a buffer restores its disk record."                            *)
ClosedBufferRestoresDisk == Caught /\ ~client.open => overlay = None
=============================================================================
