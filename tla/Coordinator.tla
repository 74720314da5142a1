---------------------------- MODULE Coordinator ----------------------------
(***************************************************************************)
(* crates/bg3-ls/src/coordinator.rs: rebuild calls, the build guard, the   *)
(* published snapshot and its observable state, the filesystem watcher's   *)
(* task, requests waiting for a first snapshot, the cache clean-up task    *)
(* each successful build spawns, and shutdown.                             *)
(*                                                                         *)
(* A Call is one invocation of rebuild_scoped.  Initial is the one the     *)
(* initialized handler makes, ReloadCalls are bg3.reload commands and      *)
(* WatchCalls are made by the watcher task, one after the other.  A build  *)
(* is a single step that succeeds or fails; Freshness models what it reads.*)
(***************************************************************************)
EXTENDS Naturals, FiniteSets

CONSTANTS
  Initial,      \* the call made by the initialized handler
  ReloadCalls,  \* calls made by bg3.reload
  WatchCalls,   \* calls made by the watcher task
  Waiters,      \* requests that call wait_snapshot
  Cancellable,  \* the reload calls whose request the client may cancel
  None          \* nobody holds a mutex

Calls == {Initial} \cup ReloadCalls \cup WatchCalls

ASSUME CallsAssumption ==
  /\ IsFiniteSet(Calls)
  /\ Initial \notin ReloadCalls \cup WatchCalls
  /\ ReloadCalls \cap WatchCalls = {}
  /\ Cancellable \subseteq ReloadCalls
  /\ None \notin Calls \cup {"starter"}

VARIABLES
  pc,           \* where each rebuild call is
  result,       \* generation a call's build produced; 0: none, or an error
  guard,        \* holder of build_guard
  active,       \* active_rebuilds
  stopping,     \* the terminal flag
  state,        \* value of the watch channel
  snapshot,     \* generation of the published snapshot, 0 before the first
  generation,   \* the generation counter
  starter,      \* where the initialized handler's task is
  watcherLock,  \* holder of the watcher mutex
  task,         \* the watcher task
  stored,       \* the watcher task's handle is in WatcherState
  sh,           \* where Coordinator::shutdown is
  woken,        \* shutdown's Notified future has been notified
  gc,           \* the clean-up task a call's build spawned
  wpc,          \* where each waiting request is
  unseen        \* a waiter's receiver has a value it has not seen

callVars == <<pc, result, guard, active, generation, gc>>
pubVars  == <<state, snapshot, unseen>>
watcherVars == <<starter, watcherLock, task, stored>>
stopVars == <<stopping, sh, woken>>
vars == <<callVars, pubVars, watcherVars, stopVars, wpc>>

(* Where a call holds build_guard, where it is counted in active_rebuilds, *)
(* and where it is past begin_rebuild and so may notify the client.        *)
Holding   == {"creating", "building", "assembling", "built", "stored", "notifying", "release"}
InRebuild == {"queued", "dropping"} \cup Holding
Counted   == {"counted"} \cup InRebuild
Returned  == {"refused", "done"}
PCs == {"idle", "entering", "unwinding", "waking"} \cup Counted \cup Returned

(* The suspension points at which a dropped or aborted call ends.          *)
Awaits == {"queued", "creating", "building", "assembling", "notifying"}

States == [tag : {"Idle", "Building", "Ready", "Failed"}, gen : Nat]

TypeOK ==
  /\ pc \in [Calls -> PCs]
  /\ result \in [Calls -> Nat]
  /\ guard \in Calls \cup {None}
  /\ active \in Nat
  /\ stopping \in BOOLEAN
  /\ state \in States
  /\ snapshot \in Nat
  /\ generation \in Nat
  /\ starter \in {"rebuilding", "locking", "holding", "spawned", "aborting", "done"}
  /\ watcherLock \in {"starter", None}
  /\ task \in {"none", "running", "aborting", "ended"}
  /\ stored \in BOOLEAN
  /\ sh \in {"running", "locking", "aborting", "draining", "arming", "armed", "parked", "done"}
  /\ woken \in BOOLEAN
  /\ gc \in [Calls -> {"none", "running", "warning"}]
  /\ wpc \in [Waiters -> {"idle", "slow", "look", "wait", "answered", "failed"}]
  /\ unseen \in [Waiters -> BOOLEAN]

Init ==
  /\ pc = [c \in Calls |-> "idle"]
  /\ result = [c \in Calls |-> 0]
  /\ guard = None
  /\ active = 0
  /\ stopping = FALSE
  /\ state = [tag |-> "Idle", gen |-> 0]
  /\ snapshot = 0
  /\ generation = 0
  /\ starter = "rebuilding"
  /\ watcherLock = None
  /\ task = "none"
  /\ stored = FALSE
  /\ sh = "running"
  /\ woken = FALSE
  /\ gc = [c \in Calls |-> "none"]
  /\ wpc = [w \in Waiters |-> "idle"]
  /\ unseen = [w \in Waiters |-> FALSE]

-----------------------------------------------------------------------------
(* Tokio primitives.                                                       *)

Goto(c, to) == pc' = [pc EXCEPT ![c] = to]

(* watch::Sender::send_replace: every receiver has an unseen value.        *)
SendReplace(tag, gen) ==
  /\ state' = [tag |-> tag, gen |-> gen]
  /\ unseen' = [w \in Waiters |-> TRUE]

(* Notify::notify_waiters reaches a Notified future from its creation on,  *)
(* whether or not it has been polled, and is lost when there is none.      *)
NotifyWaiters == woken' = (woken \/ sh \in {"armed", "parked"})

-----------------------------------------------------------------------------
(* A rebuild call.                                                         *)

InFlight(c) == pc[c] \notin {"idle"} \cup Returned

(* The initialized handler calls at once, a reload when the client asks,   *)
(* and the watcher task when it is not already inside a call.              *)
MayCall(c) ==
  c \in WatchCalls => task = "running" /\ \A d \in WatchCalls : ~InFlight(d)

(* begin_rebuild's first test of stopping.                                 *)
Enter(c) ==
  /\ pc[c] = "idle"
  /\ MayCall(c)
  /\ Goto(c, IF stopping THEN "refused" ELSE "entering")
  /\ UNCHANGED <<result, guard, active, generation, gc, pubVars, watcherVars, stopVars, wpc>>

Count(c) ==
  /\ pc[c] = "entering"
  /\ active' = active + 1
  /\ Goto(c, "counted")
  /\ UNCHANGED <<result, guard, generation, gc, pubVars, watcherVars, stopVars, wpc>>

(* begin_rebuild's second test: it takes the count back when shutdown has  *)
(* begun in between.                                                       *)
RecheckNeverBacksOut(c) ==
  /\ pc[c] = "counted"
  /\ Goto(c, "queued")
  /\ UNCHANGED <<result, guard, active, generation, gc, pubVars, watcherVars, stopVars, wpc>>

Recheck(c) ==
  /\ pc[c] = "counted"
  /\ IF stopping
       THEN active' = active - 1 /\ Goto(c, "unwinding")
       ELSE active' = active /\ Goto(c, "queued")
  /\ UNCHANGED <<result, guard, generation, gc, pubVars, watcherVars, stopVars, wpc>>

Unwind(c) ==
  /\ pc[c] = "unwinding"
  /\ NotifyWaiters
  /\ Goto(c, "refused")
  /\ UNCHANGED <<result, guard, active, generation, gc, pubVars, watcherVars, stopping, sh, wpc>>

(* The call gets build_guard, tests stopping and reports Building; it then *)
(* waits for the client to create a progress token, or not.                *)
LockWithoutGuard(c) ==
  /\ pc[c] = "queued"
  /\ guard' = c
  /\ IF stopping
       THEN Goto(c, "release") /\ UNCHANGED <<state, unseen>>
       ELSE /\ \E next \in {"creating", "building"} : Goto(c, next)
            /\ SendReplace("Building", 0)
  /\ UNCHANGED <<result, active, generation, gc, snapshot, watcherVars, stopVars, wpc>>

Lock(c) ==
  /\ guard = None
  /\ LockWithoutGuard(c)

(* The client answers window/workDoneProgress/create.                      *)
ProgressCreated(c) ==
  /\ pc[c] = "creating"
  /\ Goto(c, "building")
  /\ UNCHANGED <<result, guard, active, generation, gc, pubVars, watcherVars, stopVars, wpc>>

(* Coordinator::build up to its last test of stopping: it fails on an I/O  *)
(* error, when it is stopping, and when it is scoped without a previous    *)
(* snapshot; otherwise it takes the next generation and assembles the      *)
(* workspace in a blocking task, which may panic.                          *)
BuildFails(c) ==
  /\ pc[c] \in {"building", "assembling"}
  /\ result' = [result EXCEPT ![c] = 0]
  /\ Goto(c, "built")
  /\ UNCHANGED <<guard, active, generation, gc, pubVars, watcherVars, stopVars, wpc>>

BuildNumbers(c) ==
  /\ pc[c] = "building"
  /\ ~stopping
  /\ c \in WatchCalls => snapshot # 0
  /\ generation' = generation + 1
  /\ result' = [result EXCEPT ![c] = generation + 1]
  /\ Goto(c, "assembling")
  /\ UNCHANGED <<guard, active, gc, pubVars, watcherVars, stopVars, wpc>>

Assemble(c) ==
  /\ pc[c] = "assembling"
  /\ Goto(c, "built")
  /\ UNCHANGED <<result, guard, active, generation, gc, pubVars, watcherVars, stopVars, wpc>>

BuildEnds(c) == BuildFails(c) \/ BuildNumbers(c) \/ Assemble(c)

(* Back in rebuild_scoped: nothing is published once stopping is seen.     *)
GiveUp(c) ==
  /\ pc[c] = "built"
  /\ stopping
  /\ Goto(c, "release")
  /\ UNCHANGED <<result, guard, active, generation, gc, pubVars, watcherVars, stopVars, wpc>>

Store(c) ==
  /\ pc[c] = "built"
  /\ ~stopping
  /\ result[c] # 0
  /\ snapshot' = result[c]
  /\ Goto(c, "stored")
  /\ UNCHANGED <<result, guard, active, generation, gc, state, unseen, watcherVars, stopVars, wpc>>

Announce(c) ==
  /\ pc[c] = "stored"
  /\ SendReplace("Ready", result[c])
  /\ Goto(c, "notifying")
  /\ UNCHANGED <<result, guard, active, generation, gc, snapshot, watcherVars, stopVars, wpc>>

Fail(c) ==
  /\ pc[c] = "built"
  /\ ~stopping
  /\ result[c] = 0
  /\ SendReplace("Failed", 0)
  /\ Goto(c, "notifying")
  /\ UNCHANGED <<result, guard, active, generation, gc, snapshot, watcherVars, stopVars, wpc>>

(* The closing progress and log messages; a successful build then spawns   *)
(* the clean-up task, which active_rebuilds does not count.                *)
Report(c) ==
  /\ pc[c] = "notifying"
  /\ gc' = [gc EXCEPT ![c] = IF result[c] # 0 THEN "running" ELSE "none"]
  /\ Goto(c, "release")
  /\ UNCHANGED <<result, guard, active, generation, pubVars, watcherVars, stopVars, wpc>>

Release(c) ==
  /\ pc[c] = "release"
  /\ guard' = None
  /\ Goto(c, "dropping")
  /\ UNCHANGED <<result, active, generation, gc, pubVars, watcherVars, stopVars, wpc>>

(* ActiveRebuild::drop: fetch_sub, then notify_waiters for the last one.   *)
Drop(c) ==
  /\ pc[c] = "dropping"
  /\ active' = active - 1
  /\ Goto(c, IF active = 1 THEN "waking" ELSE "done")
  /\ UNCHANGED <<result, guard, generation, gc, pubVars, watcherVars, stopVars, wpc>>

Wake(c) ==
  /\ pc[c] = "waking"
  /\ NotifyWaiters
  /\ Goto(c, "done")
  /\ UNCHANGED <<result, guard, active, generation, gc, pubVars, watcherVars, stopping, sh, wpc>>

(* The request is cancelled, or the watcher task aborted, at an await: the *)
(* future is dropped and its guards with it, and state keeps its value.    *)
Cancel(c) ==
  /\ pc[c] \in Awaits
  /\ c \in Cancellable \/ (c \in WatchCalls /\ task = "aborting")
  /\ Goto(c, IF pc[c] = "queued" THEN "dropping" ELSE "release")
  /\ UNCHANGED <<result, guard, active, generation, gc, pubVars, watcherVars, stopVars, wpc>>

(* The clean-up task: a failure tests stopping, then logs a warning.       *)
CleanUp(c) ==
  /\ gc[c] = "running"
  /\ \E next \in {"none"} \cup (IF stopping THEN {} ELSE {"warning"}) :
       gc' = [gc EXCEPT ![c] = next]
  /\ UNCHANGED <<pc, result, guard, active, generation, pubVars, watcherVars, stopVars, wpc>>

CleanUpWarns(c) ==
  /\ gc[c] = "warning"
  /\ gc' = [gc EXCEPT ![c] = "none"]
  /\ UNCHANGED <<pc, result, guard, active, generation, pubVars, watcherVars, stopVars, wpc>>

Step(c) ==
  \/ Count(c) \/ Recheck(c) \/ Unwind(c) \/ Lock(c) \/ ProgressCreated(c)
  \/ BuildEnds(c) \/ GiveUp(c) \/ Store(c) \/ Announce(c) \/ Fail(c)
  \/ Report(c) \/ Release(c) \/ Drop(c) \/ Wake(c)

-----------------------------------------------------------------------------
(* The initialized handler's task starts the watcher after its rebuild.    *)

CheckReady ==
  /\ starter = "rebuilding"
  /\ pc[Initial] \in Returned
  /\ starter' = IF state.tag = "Ready" /\ ~stopping THEN "locking" ELSE "done"
  /\ UNCHANGED <<callVars, pubVars, watcherLock, task, stored, stopVars, wpc>>

LockWatcher ==
  /\ starter = "locking"
  /\ watcherLock = None
  /\ IF stopping
       THEN starter' = "done" /\ UNCHANGED watcherLock
       ELSE starter' = "holding" /\ watcherLock' = "starter"
  /\ UNCHANGED <<callVars, pubVars, task, stored, stopVars, wpc>>

(* Creating the notify watcher fails, or its task is spawned.              *)
SpawnTask ==
  /\ starter = "holding"
  /\ \/ /\ starter' = "done"
        /\ watcherLock' = None
        /\ UNCHANGED task
     \/ /\ starter' = "spawned"
        /\ task' = "running"
        /\ UNCHANGED watcherLock
  /\ UNCHANGED <<callVars, pubVars, stored, stopVars, wpc>>

(* The last test of stopping in start_watcher_with_progress.               *)
StoreTask ==
  /\ starter = "spawned"
  /\ IF stopping
       THEN /\ starter' = "aborting"
            /\ task' = IF task = "running" THEN "aborting" ELSE task
            /\ UNCHANGED <<stored, watcherLock>>
       ELSE /\ starter' = "done"
            /\ stored' = TRUE
            /\ watcherLock' = None
            /\ UNCHANGED task
  /\ UNCHANGED <<callVars, pubVars, stopVars, wpc>>

AwaitAbort ==
  /\ starter = "aborting"
  /\ task = "ended"
  /\ starter' = "done"
  /\ watcherLock' = None
  /\ UNCHANGED <<callVars, pubVars, task, stored, stopVars, wpc>>

(* The task ends when aborted, or by its own test of stopping, once it is  *)
(* outside a rebuild.                                                      *)
TaskEnds ==
  /\ task = "aborting" \/ (task = "running" /\ stopping)
  /\ \A c \in WatchCalls : ~InFlight(c)
  /\ task' = "ended"
  /\ UNCHANGED <<callVars, pubVars, starter, watcherLock, stored, stopVars, wpc>>

-----------------------------------------------------------------------------
(* Coordinator::shutdown.                                                  *)

SetStopping ==
  /\ sh = "running"
  /\ stopping' = TRUE
  /\ sh' = "locking"
  /\ UNCHANGED <<callVars, pubVars, watcherVars, woken, wpc>>

TakeTaskWithoutAbort ==
  /\ sh = "locking"
  /\ watcherLock = None
  /\ stored' = FALSE
  /\ sh' = "draining"
  /\ UNCHANGED <<callVars, pubVars, starter, watcherLock, task, stopping, woken, wpc>>

TakeTask ==
  /\ sh = "locking"
  /\ watcherLock = None
  /\ stored' = FALSE
  /\ sh' = IF stored THEN "aborting" ELSE "draining"
  /\ task' = IF stored /\ task = "running" THEN "aborting" ELSE task
  /\ UNCHANGED <<callVars, pubVars, starter, watcherLock, stopping, woken, wpc>>

AwaitTask ==
  /\ sh = "aborting"
  /\ task = "ended"
  /\ sh' = "draining"
  /\ UNCHANGED <<callVars, pubVars, watcherVars, stopping, woken, wpc>>

(* The quiescence loop: load, create the Notified future, load, await.     *)
DrainAtOnce ==
  /\ sh = "draining"
  /\ sh' = "done"
  /\ UNCHANGED <<callVars, pubVars, watcherVars, stopping, woken, wpc>>

Drain ==
  /\ sh = "draining"
  /\ sh' = IF active = 0 THEN "done" ELSE "arming"
  /\ UNCHANGED <<callVars, pubVars, watcherVars, stopping, woken, wpc>>

Arm ==
  /\ sh = "arming"
  /\ sh' = "armed"
  /\ woken' = FALSE
  /\ UNCHANGED <<callVars, pubVars, watcherVars, stopping, wpc>>

RecheckDrainSkipped ==
  /\ sh = "armed"
  /\ sh' = "parked"
  /\ UNCHANGED <<callVars, pubVars, watcherVars, stopping, woken, wpc>>

RecheckDrain ==
  /\ sh = "armed"
  /\ sh' = IF active = 0 THEN "done" ELSE "parked"
  /\ UNCHANGED <<callVars, pubVars, watcherVars, stopping, woken, wpc>>

Awake ==
  /\ sh = "parked"
  /\ woken
  /\ sh' = "draining"
  /\ UNCHANGED <<callVars, pubVars, watcherVars, stopping, woken, wpc>>

ShutdownStep == TakeTask \/ AwaitTask \/ Drain \/ Arm \/ RecheckDrain \/ Awake

-----------------------------------------------------------------------------
(* wait_snapshot.                                                          *)

WaitGoto(w, to) == wpc' = [wpc EXCEPT ![w] = to]

LoadSnapshot(w) ==
  /\ wpc[w] = "idle"
  /\ WaitGoto(w, IF snapshot # 0 THEN "answered" ELSE "slow")
  /\ UNCHANGED <<callVars, pubVars, watcherVars, stopVars>>

Subscribe(w) ==
  /\ wpc[w] = "slow"
  /\ WaitGoto(w, "look")
  /\ unseen' = [unseen EXCEPT ![w] = FALSE]
  /\ UNCHANGED <<callVars, state, snapshot, watcherVars, stopVars>>

LookWithoutState(w) ==
  /\ wpc[w] = "look"
  /\ WaitGoto(w, "wait")
  /\ UNCHANGED <<callVars, pubVars, watcherVars, stopVars>>

Look(w) ==
  /\ wpc[w] = "look"
  /\ WaitGoto(w, CASE state.tag = "Failed" -> "failed"
                   [] state.tag = "Ready" /\ snapshot # 0 -> "answered"
                   [] OTHER -> "wait")
  /\ UNCHANGED <<callVars, pubVars, watcherVars, stopVars>>

Changed(w) ==
  /\ wpc[w] = "wait"
  /\ unseen[w]
  /\ unseen' = [unseen EXCEPT ![w] = FALSE]
  /\ WaitGoto(w, "look")
  /\ UNCHANGED <<callVars, state, snapshot, watcherVars, stopVars>>

WaitStep(w) == Subscribe(w) \/ Look(w) \/ Changed(w)

-----------------------------------------------------------------------------
Next ==
  \/ \E c \in Calls : Enter(c) \/ Step(c) \/ Cancel(c) \/ CleanUp(c) \/ CleanUpWarns(c)
  \/ CheckReady \/ LockWatcher \/ SpawnTask \/ StoreTask \/ AwaitAbort \/ TaskEnds
  \/ SetStopping \/ ShutdownStep
  \/ \E w \in Waiters : LoadSnapshot(w) \/ WaitStep(w)

(* The runtime polls every task it has woken, a build always ends, the     *)
(* client answers the server's requests, and an aborted task is dropped.   *)
(* Nothing obliges a client to reload, to shut down or to cancel.          *)
Fairness ==
  /\ WF_vars(Enter(Initial))
  /\ \A c \in Calls : WF_vars(Step(c))
  /\ WF_vars(CheckReady \/ LockWatcher \/ SpawnTask \/ StoreTask \/ AwaitAbort)
  /\ WF_vars(task = "aborting" /\ TaskEnds)
  /\ WF_vars(ShutdownStep)
  /\ \A w \in Waiters : WF_vars(WaitStep(w))

Spec == Init /\ [][Next]_vars
FairSpec == Spec /\ Fairness

-----------------------------------------------------------------------------
(* Properties.                                                             *)

(* build_guard serializes builds: no two calls are between acquiring the   *)
(* guard and releasing it, so no two interleave Building, publication and  *)
(* announcement.                                                           *)
OneBuildAtATime ==
  \A c, d \in Calls : pc[c] \in Holding /\ pc[d] \in Holding => c = d

(* A subscriber that reads Ready(g) finds generation g published, however  *)
(* its read interleaves with the next build.                               *)
ReadyNamesSnapshot ==
  state.tag = "Ready" => snapshot # 0 /\ snapshot = state.gen

(* Shutdown's answer waits for every rebuild: once it has returned no call *)
(* is past begin_rebuild, where it could still send progress, log or show  *)
(* a message, not even one that tested stopping before shutdown set it.    *)
QuiescentAfterShutdown ==
  sh = "done" => \A c \in Calls : pc[c] \notin InRebuild

(* Once shutdown has returned no watcher task is left alive and none will  *)
(* be: the start that races it either handed its task over or aborted it.  *)
NoWatcherAfterShutdown ==
  sh = "done" => task \notin {"running", "aborting"}

(* A scoped rebuild reuses the previous schema and layers; it is only ever *)
(* made when there is a previous snapshot, so it never fails for lack of   *)
(* one.                                                                    *)
ScopedBuildHasPrevious ==
  \A c \in WatchCalls : pc[c] \in Counted => snapshot # 0

(* Queries never lose an index or go back to an older one: a published     *)
(* snapshot is only ever replaced by one of a later generation, whatever   *)
(* fails, is cancelled or stops.                                           *)
SnapshotsOnlyAdvance == [][snapshot' # snapshot => snapshot' > snapshot]_vars

(* The coordinator implements IndexPublication: publication is atomic and  *)
(* precedes its announcement, and nothing is published or announced once   *)
(* shutdown has returned.                                                  *)
Publication == INSTANCE IndexPublication WITH
  status    <- IF \E c \in Calls : pc[c] = "stored" THEN "Stored" ELSE state.tag,
  published <- snapshot,
  open      <- sh # "done"

ImplementsPublication == Publication!Spec

(* Shutdown never hangs: the pair of loads around the creation of the      *)
(* Notified future, and a notification from every path that decrements     *)
(* the count, leave no lost wake-up.                                       *)
ShutdownReturns == stopping ~> sh = "done"

(* Every request that waits for the first snapshot is answered, with the   *)
(* snapshot or with the build's error, unless the server shuts down or a   *)
(* cancelled reload, which nothing builds after, leaves it at Building.    *)
Abandoned == state.tag = "Building" /\ guard = None
WaitersAreAnswered ==
  \/ \A w \in Waiters : wpc[w] = "slow" ~> wpc[w] \in {"answered", "failed"} \/ stopping
  \/ <>[]Abandoned

(* Stated by the documentation and not met; see the README.                *)

(* "Starts indexing and the recursive source watcher": the task that made  *)
(* the initial rebuild goes on to start the watcher when that rebuild      *)
(* published an index, unless the server is stopping.                      *)
WatcherStartedOnceIndexed ==
  [][starter = "rebuilding" /\ starter' = "done" => stopping \/ result[Initial] = 0]_vars
=============================================================================
