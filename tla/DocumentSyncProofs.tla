------------------------- MODULE DocumentSyncProofs -------------------------
(***************************************************************************)
(* Proofs about DocumentSync, for any number of texts, generations and     *)
(* pending handlers.                                                       *)
(***************************************************************************)
EXTENDS DocumentSync, FiniteSetTheorems, TLAPS

-----------------------------------------------------------------------------
(* Records.                                                                *)

(* The tasks that have computed are those that hold diagnostics.           *)
LEMMA ComputedTasks ==
  ASSUME NEW t \in Sleepers \cup Shown \cup {None}
  PROVE  HasComputed(t) <=> t \in Shown
<1>1. CASE t \in Shown
  BY <1>1, NoneAssumption DEF HasComputed, Shown
<1>2. CASE t \in Sleepers
  BY <1>2, NoneAssumption DEF HasComputed, Sleepers, Shown
<1>3. CASE t = None
  BY <1>3, NoneAssumption DEF HasComputed
<1> QED  BY <1>1, <1>2, <1>3

(* The records the actions build.                                          *)
LEMMA SleepingType ==
  ASSUME NEW v \in Versions
  PROVE  /\ Sleeping(v) \in Sleepers /\ Sleeping(v) # None
         /\ Sleeping(v).version = v /\ ~HasComputed(Sleeping(v))
<1>1. Sleeping(v) \in Sleepers /\ Sleeping(v).version = v
  BY DEF Sleeping, Sleepers
<1>2. ~HasComputed(Sleeping(v))
  BY DEF Sleeping, HasComputed
<1> QED  BY <1>1, <1>2, NoneAssumption

LEMMA UpdateType ==
  ASSUME NEW v \in Versions, NEW t \in Texts
  PROVE  /\ [version |-> v, text |-> t] \in Updates /\ [version |-> v, text |-> t] # None
  BY NoneAssumption DEF Updates

LEMMA ShownType ==
  ASSUME NEW v \in Versions, NEW g \in 1 .. MaxGeneration
  PROVE  /\ [version |-> v, generation |-> g] \in Shown /\ [version |-> v, generation |-> g] # None
  BY NoneAssumption DEF Shown

Clients == [open : BOOLEAN, version : Versions, text : 0 .. MaxText]

(* A closed buffer keeps its version and its text.                         *)
LEMMA ClosedClient ==
  ASSUME NEW c \in Clients, NEW d, d = [c EXCEPT !.open = FALSE]
  PROVE  d \in Clients /\ ~d.open /\ d.version = c.version /\ d.text = c.text
<1>1. d \in Clients /\ ~d.open
  BY Zenon DEF Clients
<1>2. d.version = c.version /\ d.text = c.text
  BY Zenon DEF Clients
<1> QED  BY <1>1, <1>2

Monitors == [pc : {"waiting", "scheduling", "ended"}, version : Versions]

LEMMA MonitorType ==
  ASSUME NEW p \in {"waiting", "scheduling", "ended"}, NEW v \in Versions
  PROVE  Monitor(p, v) \in Monitors /\ Monitor(p, v).pc = p /\ Monitor(p, v).version = v
  BY DEF Monitor, Monitors
(* One more pending handler where a slot is free.                          *)
LEMMA OneMorePending ==
  ASSUME NEW u \in Updates, pending \subseteq Updates, IsFiniteSet(pending), SlotFree
  PROVE  /\ IsFiniteSet(pending \cup {u}) /\ Cardinality(pending \cup {u}) <= Slots
<1>1. Cardinality(pending) \in Nat
  BY FS_CardinalityType
<1>2. Cardinality(pending \cup {u}) \in {Cardinality(pending), Cardinality(pending) + 1}
      /\ IsFiniteSet(pending \cup {u})
  BY FS_AddElement
<1> QED  BY <1>1, <1>2, DocumentAssumption DEF SlotFree

LEMMA OneLessPending ==
  ASSUME NEW u \in pending, IsFiniteSet(pending), Cardinality(pending) <= Slots
  PROVE  IsFiniteSet(pending \ {u}) /\ Cardinality(pending \ {u}) <= Slots
<1>1. Cardinality(pending) \in Nat
  BY FS_CardinalityType
<1>2. IsFiniteSet(pending \ {u}) /\ Cardinality(pending \ {u}) = Cardinality(pending) - 1
  BY FS_RemoveElement
<1> QED  BY <1>1, <1>2, DocumentAssumption

-----------------------------------------------------------------------------
(* Types.  A version is never greater than the text it was given to, and   *)
(* only a server that has a snapshot has an overlay.                       *)
TypeInv ==
  /\ TypeOK
  /\ client.version <= client.text
  /\ client.open => client.text # 0
  /\ IsFiniteSet(pending)
  /\ overlay # None => published # 0

(* An update leaves the overlay or puts its own text there, with a task.   *)
Applied(v, t) ==
  /\ overlay' = [version |-> v, text |-> t] /\ Schedule(v)
Kept == UNCHANGED <<overlay, task, strays>>

LEMMA ScheduleTypes ==
  ASSUME TypeOK, NEW v \in Versions, Schedule(v) \/ ReplaceTask(v)
  PROVE  task' \in Sleepers \cup Shown \cup {None} /\ strays' \subseteq Shown
<1>1. task \in Sleepers \cup Shown \cup {None} /\ strays \subseteq Shown
  BY DEF TypeOK
<1>2. CASE UNCHANGED <<task, strays>>
  BY <1>1, <1>2
<1>3. CASE ReplaceTask(v)
  <2>1. task' \in Sleepers
    BY <1>3, SleepingType DEF ReplaceTask
  <2>2. HasComputed(task) => task \in Shown
    BY <1>1, ComputedTasks
  <2>3. strays' \subseteq Shown
    BY <1>1, <1>3, <2>2 DEF ReplaceTask, Abort
  <2> QED  BY <2>1, <2>3
<1> QED  BY <1>2, <1>3 DEF Schedule

LEMMA UpdateTypes ==
  ASSUME TypeOK, NEW v \in Versions, NEW t \in Texts, NEW a \in BOOLEAN, Update(v, t, a)
  PROVE  /\ overlay' \in Updates \cup {None}
         /\ task' \in Sleepers \cup Shown \cup {None} /\ strays' \subseteq Shown
         /\ failed' \subseteq Texts
<1>1. CASE Applied(v, t) /\ UNCHANGED failed
  BY <1>1, UpdateType, ScheduleTypes DEF Applied, TypeOK
<1>2. CASE Kept /\ failed' \in {failed, failed \cup {t}}
  BY <1>2 DEF Kept, TypeOK
<1> QED  BY <1>1, <1>2 DEF Update, Applied, Kept

LEMMA ReceiveTypes ==
  ASSUME TypeInv, SlotFree, NEW v \in Versions, NEW t \in Texts, Receive(v, t)
  PROVE  /\ overlay' \in Updates \cup {None}
         /\ task' \in Sleepers \cup Shown \cup {None} /\ strays' \subseteq Shown
         /\ failed' \subseteq Texts
         /\ pending' \subseteq Updates /\ IsFiniteSet(pending') /\ Cardinality(pending') <= Slots
         /\ overlay' # overlay => published # 0
<1>1. TypeOK /\ IsFiniteSet(pending) /\ pending \subseteq Updates /\ Cardinality(pending) <= Slots
  BY DEF TypeInv, TypeOK
<1>2. CASE published # 0
  BY <1>1, <1>2, UpdateTypes DEF Receive
<1>3. CASE published = 0 /\ status = "Failed"
  BY <1>1, <1>3 DEF Receive, TypeOK
<1>4. CASE published = 0 /\ status # "Failed"
  <2>1. pending' = pending \cup {[version |-> v, text |-> t]} /\ UNCHANGED <<overlay, task, strays, failed>>
    BY <1>4 DEF Receive
  <2> QED  BY <1>1, <2>1, UpdateType, OneMorePending DEF TypeOK
<1> QED  BY <1>2, <1>3, <1>4

-----------------------------------------------------------------------------
(* The initial state and each step keep the types.                         *)
LEMMA InitTypes == Init => TypeInv
<1> SUFFICES ASSUME Init PROVE TypeInv
  OBVIOUS
<1>0. 0 \in Versions /\ 0 \in 0 .. MaxText /\ FALSE \in BOOLEAN
  BY DocumentAssumption DEF Versions
<1>1. client \in Clients /\ client.open = FALSE /\ client.version = 0 /\ client.text = 0
  BY <1>0, Zenon DEF Init, Clients
<1>2. monitor \in Monitors
  BY DocumentAssumption, MonitorType DEF Init, Versions
<1>3. IsFiniteSet(pending) /\ Cardinality(pending) <= Slots
  BY FS_EmptySet, DocumentAssumption DEF Init
<1>4. /\ status \in Index!Statuses /\ published \in 0 .. MaxGeneration /\ open \in BOOLEAN
      /\ pending \subseteq Updates /\ overlay = None /\ task = None /\ strays \subseteq Shown
      /\ drained = None /\ shown = None
  BY DocumentAssumption DEF Init, Index!Init, Index!Statuses
<1>5. /\ unseen \in BOOLEAN /\ overtaken \in BOOLEAN /\ displaced \in BOOLEAN /\ outlived \in BOOLEAN
      /\ failed \subseteq Texts /\ sh \in {"running", "tasks", "monitor", "coordinator", "done"}
  BY DEF Init
<1>6. TypeOK
  BY <1>1, <1>2, <1>3, <1>4, <1>5 DEF TypeOK, Clients, Monitors
<1> QED  BY <1>1, <1>3, <1>4, <1>6 DEF TypeInv

LEMMA IndexTypes ==
  ASSUME TypeInv, IndexStep PROVE TypeInv'
<1>1. status' \in Index!Statuses /\ unseen' \in BOOLEAN /\ UNCHANGED open
  BY DEF TypeInv, TypeOK, IndexStep, Index!Begin, Index!Publish, Index!Announce, Index!Fail,
     Index!Statuses
<1>2. published' \in 0 .. MaxGeneration
  <2>1. \/ UNCHANGED published
        \/ published < MaxGeneration /\ published' = published + 1
    BY DEF IndexStep, Index!Begin, Index!Announce, Index!Fail
  <2> QED  BY <2>1, DocumentAssumption DEF TypeInv, TypeOK
<1>3. published # 0 => published' # 0
  <2>1. UNCHANGED published \/ published' > published
    BY DEF IndexStep, Index!Begin, Index!Publish, Index!Announce, Index!Fail
  <2> QED  BY <2>1, <1>2 DEF TypeInv, TypeOK
<1> QED  BY <1>1, <1>2, <1>3 DEF TypeInv, TypeOK, IndexStep, taskVars, historyVars

LEMMA WakeTypes ==
  ASSUME TypeInv, TaskWakes PROVE TypeInv'
<1>1. task' \in Sleepers \cup Shown \cup {None}
  <2>1. CASE task' = None
    BY <2>1
  <2>2. CASE overlay # None /\ task' = [version |-> task.version, generation |-> published]
    <3>1. task \in Sleepers
      BY ComputedTasks DEF TypeInv, TypeOK, TaskWakes
    <3>2. task.version \in Versions
      BY <3>1 DEF Sleepers
    <3>3. published \in 1 .. MaxGeneration
      BY <2>2 DEF TypeInv, TypeOK
    <3> QED  BY <2>2, <3>2, <3>3, ShownType
  <2> QED  BY <2>1, <2>2 DEF TaskWakes, IsWanted
<1> QED  BY <1>1 DEF TypeInv, TypeOK, TaskWakes, indexVars, historyVars

LEMMA SendTypes ==
  ASSUME TypeInv, TaskSends \/ StraySends \/ DrainedSends PROVE TypeInv'
<1>1. CASE TaskSends
  <2>1. task \in Shown
    BY <1>1, ComputedTasks DEF TypeInv, TypeOK, TaskSends
  <2> QED  BY <1>1, <2>1 DEF TypeInv, TypeOK, TaskSends, indexVars, historyVars
<1>2. CASE StraySends
  BY <1>2 DEF TypeInv, TypeOK, StraySends, indexVars, historyVars
<1>3. CASE DrainedSends
  BY <1>3 DEF TypeInv, TypeOK, DrainedSends, indexVars, historyVars
<1> QED  BY <1>1, <1>2, <1>3

LEMMA ResumeTypes ==
  ASSUME TypeInv, NEW u \in pending, Resume(u) PROVE TypeInv'
<1>1. u \in Updates /\ u.version \in Versions /\ u.text \in Texts
  BY DEF TypeInv, TypeOK, Updates
<1>2. IsFiniteSet(pending') /\ Cardinality(pending') <= Slots /\ pending' \subseteq Updates
  BY OneLessPending DEF TypeInv, TypeOK, Resume
<1>3. /\ overlay' \in Updates \cup {None}
      /\ task' \in Sleepers \cup Shown \cup {None} /\ strays' \subseteq Shown
      /\ failed' \subseteq Texts
      /\ overlay' # overlay => published # 0
  <2>1. CASE published # 0
    BY <1>1, <2>1, UpdateTypes DEF Resume, TypeInv
  <2>2. CASE published = 0
    BY <1>1, <2>2 DEF Resume, TypeInv, TypeOK
  <2> QED  BY <2>1, <2>2
<1> QED  BY <1>2, <1>3 DEF TypeInv, TypeOK, Resume, indexVars

LEMMA OpenTypes ==
  ASSUME TypeInv, DidOpen PROVE TypeInv'
<1>1. client \in Clients /\ client.text + 1 \in Texts /\ client.version + 1 \in Versions
      /\ client.version <= client.text /\ client.version \in Versions
  BY DocumentAssumption DEF TypeInv, TypeOK, DidOpen, Clients, Versions, Texts
<1>2. PICK v \in {0, client.version + 1} :
        /\ client' = [open |-> TRUE, version |-> v, text |-> client.text + 1]
        /\ IF stopping THEN UNCHANGED <<overlay, task, strays, failed, pending>>
           ELSE Receive(v, client.text + 1)
  BY DEF DidOpen
<1>3. v \in Versions /\ client.text + 1 \in 0 .. MaxText /\ v <= client.text + 1
  BY <1>1, DocumentAssumption DEF Versions, Texts, Clients
<1>4. /\ client' \in Clients /\ client'.version = v /\ client'.text = client.text + 1
  BY <1>2, <1>3, Zenon DEF Clients
<1>5. /\ overlay' \in Updates \cup {None}
      /\ task' \in Sleepers \cup Shown \cup {None} /\ strays' \subseteq Shown
      /\ failed' \subseteq Texts
      /\ pending' \subseteq Updates /\ IsFiniteSet(pending') /\ Cardinality(pending') <= Slots
      /\ overlay' # overlay => published # 0
  <2>1. CASE stopping
    BY <1>2, <2>1 DEF TypeInv, TypeOK
  <2>2. CASE ~stopping
    BY <1>1, <1>2, <1>3, <2>2, ReceiveTypes DEF DidOpen
  <2> QED  BY <2>1, <2>2
<1>6. client'.version <= client'.text /\ client'.text # 0
  BY <1>1, <1>3, <1>4, DocumentAssumption DEF Texts
<1> QED  BY <1>4, <1>5, <1>6 DEF TypeInv, TypeOK, DidOpen, indexVars, Clients

LEMMA ChangeTypes ==
  ASSUME TypeInv, DidChange PROVE TypeInv'
<1>1. client \in Clients /\ client.text + 1 \in Texts /\ client.version + 1 \in Versions
      /\ client.version + 1 <= client.text + 1 /\ client.text + 1 \in 0 .. MaxText
  BY DocumentAssumption DEF TypeInv, TypeOK, DidChange, Clients, Versions, Texts
<1>2. client' = [client EXCEPT !.version = client.version + 1, !.text = client.text + 1]
  BY DEF DidChange
<1>3. /\ client' \in Clients /\ client'.version = client.version + 1 /\ client'.text = client.text + 1
  BY <1>1, <1>2, Zenon DEF Clients
<1>4. /\ overlay' \in Updates \cup {None}
      /\ task' \in Sleepers \cup Shown \cup {None} /\ strays' \subseteq Shown
      /\ failed' \subseteq Texts
      /\ pending' \subseteq Updates /\ IsFiniteSet(pending') /\ Cardinality(pending') <= Slots
      /\ overlay' # overlay => published # 0
  <2>1. CASE stopping
    BY <2>1 DEF TypeInv, TypeOK, DidChange
  <2>2. CASE ~stopping
    BY <1>1, <2>2, ReceiveTypes DEF DidChange
  <2> QED  BY <2>1, <2>2
<1>5. client'.version <= client'.text /\ client'.text # 0
  BY <1>1, <1>3, DocumentAssumption DEF Texts
<1> QED  BY <1>3, <1>4, <1>5 DEF TypeInv, TypeOK, DidChange, indexVars, Clients

LEMMA SaveTypes ==
  ASSUME TypeInv, DidSave PROVE TypeInv'
<1>1. overlay.version \in Versions /\ overlay \in Updates
  BY DEF TypeInv, TypeOK, DidSave, Updates
<1>2. /\ overlay' \in Updates \cup {None}
      /\ task' \in Sleepers \cup Shown \cup {None} /\ strays' \subseteq Shown
      /\ failed' \subseteq Texts
  <2>1. CASE Schedule(overlay.version) /\ UNCHANGED <<overlay, failed>>
    BY <1>1, <2>1, ScheduleTypes DEF TypeInv, TypeOK
  <2>2. CASE Update(overlay.version, client.text, TRUE)
    <3>1. client.text \in Texts
      BY DocumentAssumption DEF TypeInv, TypeOK, DidSave, Texts
    <3> QED  BY <1>1, <2>2, <3>1, UpdateTypes DEF TypeInv
  <2> QED  BY <2>1, <2>2 DEF DidSave
<1> QED  BY <1>2 DEF TypeInv, TypeOK, DidSave, indexVars, Clients

LEMMA CloseTypes ==
  ASSUME TypeInv, DidClose PROVE TypeInv'
<1>1. client' \in Clients /\ ~client'.open /\ client'.version = client.version /\ client'.text = client.text
  <2>1. client \in Clients
    BY DEF TypeInv, TypeOK, Clients
  <2>2. client' = [client EXCEPT !.open = FALSE]
    BY DEF DidClose
  <2> QED  BY <2>1, <2>2, ClosedClient, Zenon
<1>2. /\ overlay' \in {overlay, None}
      /\ task' \in Sleepers \cup Shown \cup {None} /\ strays' \subseteq Shown
      /\ shown' \in Shown \cup {None}
  <2>1. HasComputed(task) => task \in Shown
    BY ComputedTasks DEF TypeInv, TypeOK
  <2> QED  BY <2>1 DEF TypeInv, TypeOK, DidClose, Abort
<1>3. overtaken' \in BOOLEAN
  BY DEF TypeInv, TypeOK, DidClose
<1> QED  BY <1>1, <1>2, <1>3 DEF TypeInv, TypeOK, DidClose, indexVars, Clients

LEMMA MonitorTypes ==
  ASSUME TypeInv, MonitorWakes \/ MonitorSchedules \/ MonitorEnds PROVE TypeInv'
<1>0. 0 \in Versions
  BY DocumentAssumption DEF Versions
<1>1. CASE MonitorWakes
  <2>1. overlay # None => overlay.version \in Versions
    BY DEF TypeInv, TypeOK, Updates
  <2>2. monitor' \in Monitors
    <3>1. monitor \in Monitors
      BY DEF TypeInv, TypeOK, Monitors
    <3>2. \/ monitor' = monitor
          \/ monitor' = Monitor("ended", 0)
          \/ overlay # None /\ monitor' = Monitor("scheduling", overlay.version)
      BY <1>1 DEF MonitorWakes
    <3> QED  BY <1>0, <2>1, <3>1, <3>2, MonitorType
  <2> QED  BY <1>1, <2>2 DEF TypeInv, TypeOK, MonitorWakes, indexVars, taskVars, historyVars, Monitors
<1>2. CASE MonitorSchedules
  <2>1. monitor.version \in Versions /\ monitor' \in Monitors
    BY <1>0, <1>2, MonitorType DEF TypeInv, TypeOK, MonitorSchedules
  <2>2. task' \in Sleepers \cup Shown \cup {None} /\ strays' \subseteq Shown
    BY <1>2, <2>1, ScheduleTypes DEF TypeInv, MonitorSchedules
  <2>3. displaced' \in BOOLEAN
    BY <1>2 DEF MonitorSchedules
  <2> QED  BY <1>2, <2>1, <2>2, <2>3 DEF TypeInv, TypeOK, MonitorSchedules, indexVars, Monitors
<1>3. CASE MonitorEnds
  <2>1. monitor' \in Monitors
    BY <1>0, <1>3, MonitorType DEF MonitorEnds
  <2> QED  BY <1>3, <2>1 DEF TypeInv, TypeOK, MonitorEnds, indexVars, taskVars, historyVars, Monitors
<1> QED  BY <1>1, <1>2, <1>3

LEMMA StopTypes ==
  ASSUME TypeInv, StopServer \/ AwaitTasks \/ AwaitMonitor \/ StopCoordinator PROVE TypeInv'
<1>1. CASE StopServer
  <2>1. drained' \in Shown \cup {None}
    BY <1>1, ComputedTasks DEF TypeInv, TypeOK, StopServer
  <2> QED  BY <1>1, <2>1 DEF TypeInv, TypeOK, StopServer, indexVars, historyVars
<1>2. CASE AwaitTasks
  BY <1>2 DEF TypeInv, TypeOK, AwaitTasks, AwaitNothing, indexVars, taskVars, historyVars
<1>3. CASE AwaitMonitor
  <2>1. monitor' \in Monitors
    BY <1>3, MonitorType, DocumentAssumption DEF AwaitMonitor, Versions
  <2> QED  BY <1>3, <2>1 DEF TypeInv, TypeOK, AwaitMonitor, indexVars, taskVars, historyVars, Monitors
<1>4. CASE StopCoordinator
  BY <1>4 DEF TypeInv, TypeOK, StopCoordinator, Index!Close, taskVars, historyVars
<1> QED  BY <1>1, <1>2, <1>3, <1>4

LEMMA StutterTypes ==
  ASSUME TypeInv, UNCHANGED vars PROVE TypeInv'
  BY DEF TypeInv, TypeOK, vars, indexVars, taskVars, historyVars

LEMMA NextTypes == TypeInv /\ [Next]_vars => TypeInv'
  BY IndexTypes, WakeTypes, SendTypes, ResumeTypes, OpenTypes, ChangeTypes, SaveTypes, CloseTypes,
     MonitorTypes, StopTypes, StutterTypes DEF Next

(* Every state has the types of DocumentSync.TypeOK.                       *)
THEOREM Types == Spec => []TypeOK
<1>1. Spec => []TypeInv
  BY InitTypes, NextTypes, PTL DEF Spec
<1>2. TypeInv => TypeOK
  BY DEF TypeInv
<1> QED  BY <1>1, <1>2, PTL

-----------------------------------------------------------------------------
(* What an update that is not refused by shutdown does: it is accepted and *)
(* schedules a task, it is out of date, or it fails with a message.        *)
Accepted(v, t) ==
  /\ overlay' # None /\ overlay'.version = v /\ overlay'.text = t
  /\ ReplaceTask(v) /\ UNCHANGED failed
Outdated == UNCHANGED <<overlay, task, strays, failed>>
Refused(t) == failed' = failed \cup {t} /\ UNCHANGED <<overlay, task, strays>>

LEMMA UpdateOutcome ==
  ASSUME ~stopping, NEW v \in Versions, NEW t \in Texts, NEW a, Update(v, t, a)
  PROVE  \/ Accepts(v, a) /\ Accepted(v, t)
         \/ ~Accepts(v, a) /\ Outdated
         \/ Refused(t)
<1>1. CASE Accepts(v, a) /\ overlay' = [version |-> v, text |-> t] /\ Schedule(v) /\ UNCHANGED failed
  BY <1>1, UpdateType DEF Accepted, Schedule
<1>2. CASE ~Accepts(v, a) /\ Outdated
  BY <1>2
<1>3. CASE Refused(t)
  BY <1>3
<1> QED  BY <1>1, <1>2, <1>3 DEF Update, Outdated, Refused

-----------------------------------------------------------------------------
(* The overlay and the client.  While no close has overtaken an update, or *)
(* version numbers never restart, every update the server holds is of an   *)
(* earlier version than the client's or is the client's text itself; the   *)
(* client's text, unless refused, is the overlay or is about to be.        *)
Behind(u) == u.version <= client.version /\ (u.version = client.version => u.text = client.text)
IsLatest(u) == u # None /\ u.version = client.version /\ u.text = client.text
Ordered == VersionsRestart => ~overtaken

ClientInv ==
  ~stopping =>
    /\ Ordered => \A u \in pending : Behind(u)
    /\ Ordered /\ overlay # None => Behind(overlay)
    /\ Ordered /\ client.open /\ client.text \notin failed =>
         IsLatest(overlay) \/ \E u \in pending : IsLatest(u)
    /\ ~client.open /\ ~overtaken => pending = {} /\ overlay = None

LEMMA ClientKept ==
  ASSUME ClientInv, stopping => stopping',
         UNCHANGED <<client, pending, overlay, failed, overtaken>>
  PROVE  ClientInv'
  BY DEF ClientInv, Behind, IsLatest, Ordered

LEMMA ClientResume ==
  ASSUME TypeInv, ClientInv, NEW u \in pending, Resume(u) PROVE ClientInv'
<1> SUFFICES ASSUME ~stopping' PROVE ClientInv'
  BY DEF ClientInv
<1>1. ~stopping /\ UNCHANGED <<client, overtaken>> /\ pending' = pending \ {u}
  BY DEF Resume, stopping
<1>2. u \in Updates /\ u # None /\ u.version \in Versions /\ u.text \in Texts
      /\ client.version \in Nat /\ pending \subseteq Updates
  BY NoneAssumption DEF TypeInv, TypeOK, Updates, Versions
<1>3. client.open \/ overtaken
  BY <1>1 DEF ClientInv
<1>4. CASE Refused(u.text)
  BY <1>1, <1>2, <1>3, <1>4 DEF ClientInv, Refused, Behind, IsLatest, Ordered
<1>5. CASE Accepts(u.version, FALSE) /\ Accepted(u.version, u.text)
  <2>1. Ordered => Behind(overlay')
    BY <1>1, <1>5 DEF ClientInv, Accepted, Behind
  <2>2. Ordered => ~IsLatest(overlay)
    BY <1>1, <1>2, <1>5 DEF ClientInv, Accepts, Behind, IsLatest, Versions
  <2>3. IsLatest(u) => IsLatest(overlay')
    BY <1>5 DEF Accepted, IsLatest
  <2> QED  BY <1>1, <1>3, <1>5, <2>1, <2>2, <2>3 DEF ClientInv, Accepted, Behind, IsLatest, Ordered
<1>6. CASE ~Accepts(u.version, FALSE) /\ Outdated
  <2>1. overlay # None /\ overlay.version \in Nat /\ ~(overlay.version < u.version)
    BY <1>6 DEF Accepts, TypeInv, TypeOK, Updates, Versions
  <2>2. Ordered /\ IsLatest(u) => IsLatest(overlay)
    BY <1>1, <1>2, <2>1 DEF ClientInv, Behind, IsLatest, Versions
  <2> QED  BY <1>1, <1>3, <1>6, <2>2 DEF ClientInv, Outdated, Behind, IsLatest, Ordered
<1> QED  BY <1>1, <1>2, <1>4, <1>5, <1>6, UpdateOutcome DEF Resume, Refused

(* A received update is of a later version than all the server holds.      *)
LEMMA ClientReceive ==
  ASSUME TypeInv, ClientInv, ~stopping, NEW v \in Versions, NEW t \in Texts, Receive(v, t),
         client'.open, client'.version = v, client'.text = t, UNCHANGED overtaken,
         Ordered => \A u \in pending : u.version < v,
         Ordered /\ overlay # None => overlay.version < v
  PROVE  ClientInv'
<1>1. /\ pending \subseteq Updates /\ v \in Nat
      /\ \A u \in Updates : u.version \in Nat
      /\ overlay # None => overlay.version \in Nat
  BY DEF TypeInv, TypeOK, Updates, Versions
<1>2. CASE Refused(t) /\ UNCHANGED pending
  BY <1>1, <1>2 DEF ClientInv, Refused, Behind, IsLatest, Ordered
<1>3. CASE Accepts(v, FALSE) /\ Accepted(v, t) /\ UNCHANGED pending
  BY <1>1, <1>3 DEF ClientInv, Accepted, Behind, IsLatest, Ordered
<1>4. CASE ~Accepts(v, FALSE) /\ Outdated /\ UNCHANGED pending
  BY <1>1, <1>4 DEF ClientInv, Accepts, Outdated, Behind, IsLatest, Ordered
<1>5. CASE pending' = pending \cup {[version |-> v, text |-> t]} /\ Outdated
  <2> DEFINE r == [version |-> v, text |-> t]
  <2>1. r # None /\ r.version = v /\ r.text = t
    BY UpdateType
  <2> HIDE DEF r
  <2>2. pending' = pending \cup {r}
    BY <1>5 DEF r
  <2>3. IsLatest(r)' /\ r \in pending'
    BY <2>1, <2>2 DEF IsLatest
  <2>4. Ordered' => \A u \in pending' : Behind(u)'
    BY <1>1, <2>1, <2>2 DEF Ordered, Behind
  <2>5. Ordered' /\ overlay' # None => Behind(overlay)'
    BY <1>1, <1>5 DEF Outdated, Ordered, Behind
  <2> QED  BY <2>3, <2>4, <2>5 DEF ClientInv
<1> QED  BY <1>2, <1>3, <1>4, <1>5, UpdateOutcome DEF Receive, Refused, Outdated

LEMMA ClientOpen ==
  ASSUME TypeInv, ClientInv, DidOpen PROVE ClientInv'
<1> SUFFICES ASSUME ~stopping' PROVE ClientInv'
  BY DEF ClientInv
<1>1. ~stopping /\ UNCHANGED overtaken /\ ~client.open
  BY DEF DidOpen, stopping
<1>2. /\ client \in Clients /\ client.text + 1 \in Texts /\ client.version \in Nat
      /\ 0 \in Versions /\ client.version + 1 \in Versions
  BY DocumentAssumption DEF TypeInv, TypeOK, DidOpen, Clients, Versions, Texts
<1>3. PICK v \in IF VersionsRestart THEN {0, client.version + 1} ELSE {client.version + 1} :
        /\ client' = [open |-> TRUE, version |-> v, text |-> client.text + 1]
        /\ Receive(v, client.text + 1)
  BY <1>1 DEF DidOpen
<1>4. client'.version = v /\ client'.text = client.text + 1
  BY <1>3
<1>5. client'.open
  BY <1>3, Zenon
<1>6. /\ \A u \in pending : u.version \in Nat
      /\ overlay # None => overlay.version \in Nat
  BY DEF TypeInv, TypeOK, Updates, Versions
<1>7. /\ Ordered => \A u \in pending : u.version < v
      /\ Ordered /\ overlay # None => overlay.version < v
  <2>1. CASE VersionsRestart
    BY <1>1, <2>1 DEF ClientInv, Ordered
  <2>2. CASE ~VersionsRestart
    BY <1>1, <1>2, <1>3, <1>6, <2>2 DEF ClientInv, Ordered, Behind
  <2> QED  BY <2>1, <2>2
<1>8. v \in Versions
  BY <1>2, <1>3
<1> QED  BY <1>1, <1>2, <1>3, <1>4, <1>5, <1>7, <1>8, ClientReceive

LEMMA ClientChange ==
  ASSUME TypeInv, ClientInv, DidChange PROVE ClientInv'
<1> SUFFICES ASSUME ~stopping' PROVE ClientInv'
  BY DEF ClientInv
<1>1. ~stopping /\ UNCHANGED overtaken /\ client.open
  BY DEF DidChange, stopping
<1>2. /\ client \in Clients /\ client.text + 1 \in Texts /\ client.version \in Nat
      /\ client.version + 1 \in Versions /\ client.text + 1 \in 0 .. MaxText
  BY DocumentAssumption DEF TypeInv, TypeOK, DidChange, Clients, Versions, Texts
<1>3. /\ client' = [client EXCEPT !.version = client.version + 1, !.text = client.text + 1]
      /\ Receive(client.version + 1, client.text + 1)
  BY <1>1 DEF DidChange
<1>4. client'.version = client.version + 1 /\ client'.text = client.text + 1 /\ client'.open = client.open
  BY <1>2, <1>3, Zenon DEF Clients
<1>5. /\ \A u \in pending : u.version \in Nat
      /\ overlay # None => overlay.version \in Nat
  BY DEF TypeInv, TypeOK, Updates, Versions
<1>6. /\ Ordered => \A u \in pending : u.version < client.version + 1
      /\ Ordered /\ overlay # None => overlay.version < client.version + 1
  BY <1>1, <1>2, <1>5 DEF ClientInv, Behind
<1> QED  BY <1>1, <1>2, <1>3, <1>4, <1>6, ClientReceive

LEMMA ClientSave ==
  ASSUME TypeInv, ClientInv, DidSave PROVE ClientInv'
<1> SUFFICES ASSUME ~stopping' PROVE ClientInv'
  BY DEF ClientInv
<1>1. ~stopping /\ UNCHANGED <<client, pending, overtaken>> /\ client.open /\ overlay # None
  BY DEF DidSave, stopping
<1>2. overlay.version \in Versions /\ client.text \in Texts
  BY <1>1, DocumentAssumption DEF TypeInv, TypeOK, Updates, Texts
<1>3. CASE Outdated \/ UNCHANGED <<overlay, failed>>
  BY <1>1, <1>3, ClientKept DEF Outdated
<1>4. CASE Refused(client.text)
  BY <1>1, <1>4 DEF ClientInv, Refused, Behind, IsLatest, Ordered
<1>5. CASE Accepted(overlay.version, client.text)
  BY <1>1, <1>5 DEF ClientInv, Accepted, Behind, IsLatest, Ordered
<1> QED  BY <1>1, <1>2, <1>3, <1>4, <1>5, UpdateOutcome DEF DidSave

LEMMA ClientClose ==
  ASSUME TypeInv, ClientInv, DidClose PROVE ClientInv'
<1> SUFFICES ASSUME ~stopping' PROVE ClientInv'
  BY DEF ClientInv
<1>1. ~stopping /\ overlay' = None /\ UNCHANGED pending
  BY DEF DidClose, stopping
<1>2. ~client'.open /\ client'.version = client.version /\ client'.text = client.text
  <2>1. client \in Clients /\ client' = [client EXCEPT !.open = FALSE]
    BY DEF TypeInv, TypeOK, DidClose, Clients
  <2> QED  BY <2>1, ClosedClient, Zenon
<1>3. overtaken' = (overtaken \/ pending # {})
  BY DEF DidClose
<1> QED  BY <1>1, <1>2, <1>3 DEF ClientInv, Behind, IsLatest, Ordered

LEMMA InitClient == Init => ClientInv
<1> SUFFICES ASSUME Init PROVE ClientInv
  OBVIOUS
<1>1. pending = {} /\ overlay = None
  BY DEF Init
<1>2. ~client.open
  BY Zenon DEF Init
<1> QED  BY <1>1, <1>2 DEF ClientInv

LEMMA NextClient ==
  ASSUME TypeInv, ClientInv, [Next]_vars PROVE ClientInv'
<1>1. CASE IndexStep \/ UNCHANGED vars
  BY <1>1, ClientKept DEF IndexStep, vars, historyVars, stopping
<1>2. CASE TaskWakes \/ TaskSends \/ StraySends \/ DrainedSends
  BY <1>2, ClientKept DEF TaskWakes, TaskSends, StraySends, DrainedSends, historyVars, stopping
<1>3. CASE MonitorWakes \/ MonitorSchedules \/ MonitorEnds
  BY <1>3, ClientKept DEF MonitorWakes, MonitorSchedules, MonitorEnds, historyVars, stopping
<1>4. CASE StopServer \/ AwaitTasks \/ AwaitMonitor \/ StopCoordinator
  BY <1>4 DEF StopServer, AwaitTasks, AwaitNothing, AwaitMonitor, StopCoordinator, stopping, ClientInv
<1> QED  BY <1>1, <1>2, <1>3, <1>4, ClientResume, ClientOpen, ClientChange, ClientSave, ClientClose
         DEF Next

(* An overlay with the client's version and text is the client's buffer.   *)
LEMMA LatestUpdate ==
  ASSUME TypeInv, IsLatest(overlay)
  PROVE  overlay = [version |-> client.version, text |-> client.text]
  BY DEF TypeInv, TypeOK, IsLatest, Updates

(* Once every received update is processed the overlay is the client's     *)
(* open buffer, unless that was refused, and there is none when closed.    *)
THEOREM OverlaysFollow == Spec => []OverlayFollowsClient
<1>1. Spec => [](TypeInv /\ ClientInv)
  BY InitTypes, NextTypes, InitClient, NextClient, PTL DEF Spec
<1>2. TypeInv /\ ClientInv => OverlayFollowsClient
  BY LatestUpdate DEF ClientInv, Ordered, OverlayFollowsClient, Caught
<1> QED  BY <1>1, <1>2, PTL

-----------------------------------------------------------------------------
(* Shutdown.  Once it has begun no mapped task computes, and the one it    *)
(* awaits is gone before it goes on.                                       *)
ShutdownInv ==
  /\ drained # None => sh = "tasks"
  /\ stopping => ~HasComputed(task)

LEMMA InitShutdown == Init => ShutdownInv
  BY DEF Init, ShutdownInv, stopping

LEMMA NextShutdown ==
  ASSUME TypeInv, ShutdownInv, [Next]_vars PROVE ShutdownInv'
<1>1. task \in Sleepers \cup Shown \cup {None}
  BY DEF TypeInv, TypeOK
<1>2. CASE UNCHANGED <<sh, drained, task>>
  BY <1>2 DEF ShutdownInv, stopping, HasComputed
<1>3. CASE ~stopping /\ UNCHANGED <<sh, drained>>
  BY <1>3 DEF ShutdownInv, stopping
<1>4. CASE stopping /\ UNCHANGED <<sh, drained>> /\ task' = None
  BY <1>4 DEF ShutdownInv, stopping, HasComputed
<1>5. CASE DidOpen \/ DidChange \/ DidSave \/ DidClose
  BY <1>2, <1>3, <1>5 DEF DidOpen, DidChange, DidSave, DidClose
<1>6. ASSUME NEW u \in pending, Resume(u) PROVE ShutdownInv'
  <2>1. stopping => UNCHANGED task
    BY <1>6 DEF Resume, Update, Schedule
  <2> QED  BY <1>2, <1>3, <1>6, <2>1 DEF Resume
<1>7. CASE IndexStep \/ UNCHANGED vars
  BY <1>2, <1>7 DEF IndexStep, vars, taskVars
<1>8. CASE TaskWakes
  BY <1>3, <1>4, <1>8 DEF TaskWakes, IsWanted
<1>9. CASE TaskSends
  BY <1>3, <1>4, <1>9 DEF TaskSends
<1>10. CASE StraySends
  BY <1>2, <1>10 DEF StraySends
<1>11. CASE DrainedSends
  BY <1>11 DEF DrainedSends, ShutdownInv, stopping, HasComputed
<1>12. CASE MonitorWakes \/ MonitorEnds
  BY <1>2, <1>12 DEF MonitorWakes, MonitorEnds, taskVars
<1>13. CASE MonitorSchedules
  <2>1. monitor.version \in Versions
    BY DEF TypeInv, TypeOK
  <2>2. task' = Sleeping(monitor.version) /\ UNCHANGED <<sh, drained>>
    BY <1>13 DEF MonitorSchedules, ReplaceTask
  <2>3. ~HasComputed(task')
    BY <2>1, <2>2, SleepingType
  <2> QED  BY <2>2, <2>3 DEF ShutdownInv, stopping, HasComputed
<1>14. CASE StopServer
  BY <1>14 DEF StopServer, ShutdownInv, stopping, HasComputed
<1>15. CASE AwaitTasks
  BY <1>15 DEF AwaitTasks, AwaitNothing, ShutdownInv, stopping, HasComputed, taskVars
<1>16. CASE AwaitMonitor
  BY <1>16 DEF AwaitMonitor, ShutdownInv, stopping, HasComputed, taskVars
<1>17. CASE StopCoordinator
  BY <1>17 DEF StopCoordinator, ShutdownInv, stopping, HasComputed, taskVars
<1> QED  BY <1>5, <1>6, <1>7, <1>8, <1>9, <1>10, <1>11, <1>12, <1>13, <1>14, <1>15, <1>16, <1>17 DEF Next

(* After shutdown has returned only a replaced task that had computed      *)
(* already can still send.                                                 *)
THEOREM ShutdownSilences == Spec => SilentAfterShutdown
<1>1. Spec => []ShutdownInv
  BY InitTypes, NextTypes, InitShutdown, NextShutdown, PTL DEF Spec
<1>2. ASSUME ShutdownInv, [Next]_vars, sh = "done", shown' # shown
      PROVE  strays # {}
  <2>1. stopping /\ drained = None /\ ~HasComputed(task)
    BY <1>2 DEF ShutdownInv, stopping
  <2>2. ~TaskSends /\ ~DrainedSends
    BY <2>1 DEF TaskSends, DrainedSends
  <2>3. ~DidClose
    BY <1>2, <2>1 DEF DidClose
  <2>4. ~DidOpen /\ ~DidChange /\ ~DidSave /\ \A u \in pending : ~Resume(u)
    BY <1>2 DEF DidOpen, DidChange, DidSave, Resume
  <2>5. ~IndexStep /\ ~TaskWakes /\ ~MonitorWakes /\ ~MonitorSchedules /\ ~MonitorEnds /\ ~UNCHANGED vars
    BY <1>2 DEF IndexStep, TaskWakes, MonitorWakes, MonitorSchedules, MonitorEnds, vars, taskVars
  <2>6. ~StopServer /\ ~AwaitTasks /\ ~AwaitMonitor /\ ~StopCoordinator
    BY <1>2 DEF StopServer, AwaitTasks, AwaitNothing, AwaitMonitor, StopCoordinator, taskVars
  <2>7. StraySends
    BY <1>2, <2>2, <2>3, <2>4, <2>5, <2>6 DEF Next
  <2> QED  BY <2>7 DEF StraySends
<1> QED  BY <1>1, <1>2, PTL DEF Spec, SilentAfterShutdown

-----------------------------------------------------------------------------
(* Diagnostics.  Where a send in progress ends within a sleep, a task is   *)
(* always of the overlay's version, a replaced one sends before it wakes,  *)
(* and diagnostics of an earlier generation than the announced one are     *)
(* only computed or shown while the monitor has yet to look.               *)
IsFresh(generation) ==
  status = "Ready" => generation = published \/ unseen \/ monitor.pc = "scheduling"

DiagnosticsInv ==
  ~stopping /\ overlay # None /\ ~displaced =>
    /\ task # None => task.version = overlay.version
    /\ strays # {} => task # None /\ ~HasComputed(task)
    /\ task = None => shown # None /\ shown.version = overlay.version /\ IsFresh(shown.generation)
    /\ HasComputed(task) => IsFresh(task.generation)

(* A task scheduled for the overlay's version satisfies all of it.         *)
LEMMA Rescheduled ==
  ASSUME NEW v \in Versions, ReplaceTask(v), overlay' # None => overlay'.version = v
  PROVE  DiagnosticsInv'
<1>1. task' # None /\ task'.version = v /\ ~HasComputed(task')
  BY SleepingType DEF ReplaceTask
<1> QED  BY <1>1 DEF DiagnosticsInv, HasComputed

LEMMA DiagnosticsKept ==
  ASSUME DiagnosticsInv, stopping => stopping', displaced => displaced',
         UNCHANGED <<overlay, task, strays, shown>>,
         UNCHANGED <<status, published, unseen, monitor>>
  PROVE  DiagnosticsInv'
  BY DEF DiagnosticsInv, HasComputed, IsFresh

LEMMA DiagnosticsUpdate ==
  ASSUME DiagnosticsInv, ~stopping, NEW v \in Versions, NEW t \in Texts, NEW a, Update(v, t, a),
         UNCHANGED <<shown, status, published, unseen, monitor, sh, displaced>>
  PROVE  DiagnosticsInv'
<1>1. CASE Accepted(v, t)
  BY <1>1, Rescheduled DEF Accepted
<1>2. CASE UNCHANGED <<overlay, task, strays>>
  BY <1>2, DiagnosticsKept DEF stopping
<1> QED  BY <1>1, <1>2, UpdateOutcome DEF Outdated, Refused

LEMMA DiagnosticsReceive ==
  ASSUME DiagnosticsInv, ~stopping, NEW v \in Versions, NEW t \in Texts, Receive(v, t),
         UNCHANGED <<shown, status, published, unseen, monitor, sh, displaced>>
  PROVE  DiagnosticsInv'
<1>1. CASE UNCHANGED <<overlay, task, strays>>
  BY <1>1, DiagnosticsKept DEF stopping
<1> QED  BY <1>1, DiagnosticsUpdate DEF Receive

LEMMA DiagnosticsDocument ==
  ASSUME TypeInv, DiagnosticsInv,
         DidOpen \/ DidChange \/ DidSave \/ DidClose \/ \E u \in pending : Resume(u)
  PROVE  DiagnosticsInv'
<1> SUFFICES ASSUME ~stopping' PROVE DiagnosticsInv'
  BY DEF DiagnosticsInv
<1>1. ~stopping
  BY DEF stopping, DidOpen, DidChange, DidSave, DidClose, Resume
<1>2. CASE DidOpen
  <2>1. client.version + 1 \in Versions /\ 0 \in Versions /\ client.text + 1 \in Texts
    BY <1>2, DocumentAssumption DEF DidOpen, TypeInv, TypeOK, Versions, Texts
  <2>2. PICK v \in Versions : Receive(v, client.text + 1)
    BY <1>1, <1>2, <2>1 DEF DidOpen
  <2> QED  BY <1>1, <1>2, <2>1, <2>2, DiagnosticsReceive DEF DidOpen, indexVars
<1>3. CASE DidChange
  <2>1. client.version + 1 \in Versions /\ client.text + 1 \in Texts
    BY <1>3, DocumentAssumption DEF DidChange, TypeInv, TypeOK, Versions, Texts
  <2> QED  BY <1>1, <1>3, <2>1, DiagnosticsReceive DEF DidChange, indexVars
<1>4. CASE DidSave
  <2>1. overlay.version \in Versions /\ client.text \in Texts
    BY <1>4, DocumentAssumption DEF DidSave, TypeInv, TypeOK, Updates, Texts
  <2>2. CASE Schedule(overlay.version) /\ UNCHANGED overlay
    BY <1>1, <2>1, <2>2, Rescheduled DEF Schedule
  <2> QED  BY <1>1, <1>4, <2>1, <2>2, DiagnosticsUpdate DEF DidSave, indexVars
<1>5. CASE DidClose
  BY <1>1, <1>5 DEF DidClose, DiagnosticsInv
<1>6. ASSUME NEW u \in pending, Resume(u) PROVE DiagnosticsInv'
  <2>1. u.version \in Versions /\ u.text \in Texts
    BY DEF TypeInv, TypeOK, Updates
  <2>2. CASE UNCHANGED <<overlay, task, strays>>
    BY <1>6, <2>2, DiagnosticsKept DEF Resume, indexVars, stopping
  <2> QED  BY <1>1, <1>6, <2>1, <2>2, DiagnosticsUpdate DEF Resume, indexVars
<1> QED  BY <1>2, <1>3, <1>4, <1>5, <1>6

LEMMA DiagnosticsIndex ==
  ASSUME DiagnosticsInv, IndexStep PROVE DiagnosticsInv'
<1>1. status' # "Ready" \/ unseen'
  BY DEF IndexStep, Index!Begin, Index!Publish, Index!Announce, Index!Fail
<1>2. UNCHANGED <<overlay, task, strays, shown, sh, displaced>>
  BY DEF IndexStep, taskVars, historyVars
<1> QED  BY <1>1, <1>2 DEF DiagnosticsInv, IsFresh, HasComputed, stopping

LEMMA DiagnosticsTask ==
  ASSUME PromptSends, TypeInv, ShutdownInv, DiagnosticsInv,
         TaskWakes \/ TaskSends \/ StraySends \/ DrainedSends
  PROVE  DiagnosticsInv'
<1> SUFFICES ASSUME ~stopping', overlay' # None, ~displaced' PROVE DiagnosticsInv'
  BY DEF DiagnosticsInv
<1>1. /\ ~stopping /\ ~displaced /\ UNCHANGED <<overlay, status, published, unseen, monitor>>
      /\ overlay # None
  BY DEF TaskWakes, TaskSends, StraySends, DrainedSends, indexVars, historyVars, stopping
<1>2. CASE TaskWakes
  <2>1. task.version = overlay.version /\ strays' = {}
    BY <1>1, <1>2 DEF DiagnosticsInv, TaskWakes
  <2>2. task' = [version |-> task.version, generation |-> published]
    BY <1>1, <1>2, <2>1 DEF TaskWakes, IsWanted
  <2>3. task.version \in Versions /\ published \in 1 .. MaxGeneration
    BY <1>1, <2>1 DEF TypeInv, TypeOK, Updates
  <2>4. task' # None /\ task'.version = overlay.version /\ task'.generation = published
    BY <2>1, <2>2, <2>3, ShownType
  <2> QED  BY <1>1, <2>1, <2>4 DEF DiagnosticsInv, IsFresh
<1>3. CASE TaskSends
  <2>1. HasComputed(task) /\ task' = None /\ shown' = task /\ UNCHANGED strays
    BY <1>1, <1>3 DEF TaskSends
  <2>2. task # None
    BY <2>1 DEF HasComputed
  <2>3. strays = {} /\ task.version = overlay.version /\ IsFresh(task.generation)
    BY <1>1, <2>1, <2>2 DEF DiagnosticsInv
  <2> QED  BY <1>1, <2>1, <2>2, <2>3 DEF DiagnosticsInv, IsFresh, HasComputed
<1>4. CASE StraySends
  <2>1. strays # {} /\ UNCHANGED task
    BY <1>4 DEF StraySends
  <2>2. task # None /\ ~HasComputed(task) /\ task.version = overlay.version
    BY <1>1, <2>1 DEF DiagnosticsInv
  <2> QED  BY <1>1, <2>1, <2>2 DEF DiagnosticsInv, HasComputed
<1>5. CASE DrainedSends
  BY <1>1, <1>5 DEF DrainedSends, ShutdownInv, stopping
<1> QED  BY <1>2, <1>3, <1>4, <1>5

LEMMA DiagnosticsMonitor ==
  ASSUME TypeInv, DiagnosticsInv, MonitorWakes \/ MonitorSchedules \/ MonitorEnds
  PROVE  DiagnosticsInv'
<1> SUFFICES ASSUME ~stopping', overlay' # None, ~displaced' PROVE DiagnosticsInv'
  BY DEF DiagnosticsInv
<1>1. ~stopping /\ UNCHANGED overlay /\ overlay # None
  BY DEF MonitorWakes, MonitorSchedules, MonitorEnds, stopping, historyVars
<1>2. CASE MonitorWakes
  <2>1. status = "Ready" => monitor'.pc = "scheduling"
    <3>1. overlay.version \in Versions
      BY <1>1 DEF TypeInv, TypeOK, Updates
    <3> QED  BY <1>1, <1>2, <3>1, MonitorType DEF MonitorWakes
  <2>2. UNCHANGED <<status, published, task, strays, shown, displaced>>
    BY <1>2 DEF MonitorWakes, indexVars, taskVars, historyVars
  <2> QED  BY <1>1, <2>1, <2>2 DEF DiagnosticsInv, IsFresh, HasComputed
<1>3. CASE MonitorSchedules
  <2>1. monitor.version \in Versions /\ ReplaceTask(monitor.version) /\ overlay.version = monitor.version
    BY <1>1, <1>3 DEF MonitorSchedules, TypeInv, TypeOK
  <2> QED  BY <1>1, <2>1, Rescheduled
<1>4. CASE MonitorEnds
  BY <1>1, <1>4 DEF MonitorEnds
<1> QED  BY <1>2, <1>3, <1>4

LEMMA InitDiagnostics == Init => DiagnosticsInv
  BY DEF Init, DiagnosticsInv

LEMMA NextDiagnostics ==
  ASSUME PromptSends, TypeInv, ShutdownInv, DiagnosticsInv, [Next]_vars PROVE DiagnosticsInv'
<1>1. CASE UNCHANGED vars
  BY <1>1, DiagnosticsKept DEF vars, indexVars, taskVars, historyVars, stopping
<1>2. CASE StopServer \/ AwaitTasks \/ AwaitMonitor \/ StopCoordinator
  BY <1>2 DEF StopServer, AwaitTasks, AwaitNothing, AwaitMonitor, StopCoordinator, stopping, DiagnosticsInv
<1> QED  BY <1>1, <1>2, DiagnosticsDocument, DiagnosticsIndex, DiagnosticsTask, DiagnosticsMonitor DEF Next

(* Where a send in progress ends within a sleep, settled diagnostics are   *)
(* the overlay's against the announced generation.                         *)
THEOREM DiagnosticsSettle ==
  ASSUME PromptSends
  PROVE  Spec => []DiagnosticsCatchUp
<1>1. Init => TypeInv /\ ShutdownInv /\ DiagnosticsInv
  BY InitTypes, InitShutdown, InitDiagnostics
<1>2. (TypeInv /\ ShutdownInv /\ DiagnosticsInv) /\ [Next]_vars
        => (TypeInv /\ ShutdownInv /\ DiagnosticsInv)'
  BY PromptSends, NextTypes, NextShutdown, NextDiagnostics
<1>3. Spec => [](TypeInv /\ ShutdownInv /\ DiagnosticsInv)
  BY <1>1, <1>2, PTL DEF Spec
<1>4. DiagnosticsInv => DiagnosticsCatchUp
  BY DEF DiagnosticsInv, DiagnosticsCatchUp, Settled, Caught, UpToDate, IsFresh
<1> QED  BY <1>3, <1>4, PTL

-----------------------------------------------------------------------------
(* The order of diagnostics.  Where a send in progress ends within a sleep *)
(* and no close has found one, one task at a time holds diagnostics that   *)
(* are not sent yet, and they are not older than what is shown, neither is *)
(* of a later version than the overlay, and nothing is shown or on its way *)
(* before there is an overlay.                                             *)
InFlight ==
  strays \cup {d \in {task} : HasComputed(d)} \cup {d \in {drained} : d # None}

NotAhead(d) ==
  /\ d.generation <= published
  /\ ~stopping => overlay # None /\ d.version <= overlay.version

OrderInv ==
  PromptSends /\ ~outlived =>
    /\ \A d, e \in InFlight : d = e
    /\ \A d \in InFlight : NotAhead(d) /\ (shown # None => NotOlder(d, shown))
    /\ shown # None => NotAhead(shown)

LEMMA FlightType ==
  ASSUME TypeInv
  PROVE  /\ InFlight \subseteq Shown /\ published \in Nat
         /\ overlay # None => overlay.version \in Nat
<1>1. HasComputed(task) => task \in Shown
  BY ComputedTasks DEF TypeInv, TypeOK
<1> QED  BY <1>1, DocumentAssumption DEF InFlight, TypeInv, TypeOK, Updates, Versions

(* What a replaced task holds is on its way as before.                     *)
LEMMA ReplacedFlight ==
  ASSUME NEW v \in Versions, ReplaceTask(v), UNCHANGED drained
  PROVE  InFlight' = InFlight
<1>1. ~HasComputed(task')
  BY SleepingType DEF ReplaceTask
<1>2. {d \in {task'} : HasComputed(d)} = {}
  BY <1>1
<1>3. strays' = strays \cup {d \in {task} : HasComputed(d)}
  BY DEF ReplaceTask, Abort
<1>4. InFlight' = strays' \cup {d \in {task'} : HasComputed(d)} \cup {d \in {drained'} : d # None}
  BY DEF InFlight, HasComputed
<1> QED  BY <1>2, <1>3, <1>4 DEF InFlight

LEMMA KeptFlight ==
  ASSUME UNCHANGED <<task, strays, drained>> PROVE InFlight' = InFlight
  BY DEF InFlight, HasComputed

(* What is on its way stays in order while overlay and index go on.        *)
Onward ==
  /\ InFlight' = InFlight /\ UNCHANGED <<shown, outlived>>
  /\ published' \in Nat /\ published <= published'
  /\ ~stopping' => ~stopping
  /\ ~stopping' /\ overlay # None =>
       overlay' # None /\ overlay'.version \in Nat /\ overlay.version <= overlay'.version

LEMMA OrderOnward ==
  ASSUME TypeInv, OrderInv, Onward PROVE OrderInv'
<1> SUFFICES ASSUME PromptSends, ~outlived' PROVE OrderInv'
  BY DEF OrderInv
<1>1. ~outlived /\ shown' = shown /\ InFlight' = InFlight
  BY DEF Onward
<1>2. \A d \in InFlight : d \in Shown
  BY FlightType
<1>3. ASSUME NEW d \in Shown, NotAhead(d) PROVE NotAhead(d)'
  <2>1. d.version \in Nat /\ d.generation \in Nat
    BY DocumentAssumption DEF Shown, Versions
  <2>2. d.generation <= published'
    BY <1>3, <2>1, FlightType DEF NotAhead, Onward
  <2>3. ~stopping' => overlay' # None /\ d.version <= overlay'.version
    BY <1>3, <2>1, FlightType DEF NotAhead, Onward
  <2> QED  BY <2>2, <2>3 DEF NotAhead, stopping
<1>4. shown # None => shown \in Shown
  BY DEF TypeInv, TypeOK
<1>5. \A d, e \in InFlight' : d = e
  BY <1>1 DEF OrderInv
<1>6. \A d \in InFlight' : NotAhead(d)' /\ (shown' # None => NotOlder(d, shown'))
  BY <1>1, <1>2, <1>3 DEF OrderInv
<1>7. shown' # None => NotAhead(shown)'
  BY <1>1, <1>3, <1>4 DEF OrderInv
<1> QED  BY <1>1, <1>5, <1>6, <1>7 DEF OrderInv, NotAhead, NotOlder

(* An update is not of an earlier version than the overlay.                *)
LEMMA UpdateOnward ==
  ASSUME TypeInv, ~stopping, NEW v \in Versions, NEW t \in Texts, NEW a, Update(v, t, a),
         UNCHANGED <<shown, drained, published, sh, outlived>>
  PROVE  Onward
<1>1. v \in Nat
  BY DEF Versions
<1>2. CASE Accepts(v, a) /\ Accepted(v, t)
  <2>1. InFlight' = InFlight
    BY <1>2, ReplacedFlight DEF Accepted
  <2> QED  BY <1>1, <1>2, <2>1, FlightType DEF Onward, Accepted, Accepts, stopping
<1>3. CASE UNCHANGED <<overlay, task, strays>>
  BY <1>3, KeptFlight, FlightType DEF Onward, stopping
<1> QED  BY <1>2, <1>3, UpdateOutcome DEF Outdated, Refused

LEMMA ReceiveOnward ==
  ASSUME TypeInv, ~stopping, NEW v \in Versions, NEW t \in Texts, Receive(v, t),
         UNCHANGED <<shown, drained, published, sh, outlived>>
  PROVE  Onward
<1>1. CASE UNCHANGED <<overlay, task, strays>>
  BY <1>1, KeptFlight, FlightType DEF Onward, stopping
<1> QED  BY <1>1, UpdateOnward DEF Receive

LEMMA ResumeOnward ==
  ASSUME TypeInv, NEW u \in pending, Resume(u) PROVE Onward
<1>1. u.version \in Versions /\ u.text \in Texts
  BY DEF TypeInv, TypeOK, Updates
<1>2. UNCHANGED <<shown, drained, published, sh, outlived>>
  BY DEF Resume, indexVars
<1>3. CASE UNCHANGED <<overlay, task, strays>>
  BY <1>2, <1>3, KeptFlight, FlightType DEF Onward, stopping
<1>4. CASE stopping /\ Update(u.version, u.text, FALSE)
  <2>1. UNCHANGED <<task, strays>>
    BY <1>4 DEF Update, Schedule
  <2> QED  BY <1>2, <1>4, <2>1, KeptFlight, FlightType DEF Onward, stopping
<1> QED  BY <1>1, <1>2, <1>3, <1>4, UpdateOnward DEF Resume

LEMMA DocumentOnward ==
  ASSUME TypeInv, DidOpen \/ DidChange \/ DidSave PROVE Onward
<1>1. UNCHANGED <<shown, drained, published, sh, outlived>>
  BY DEF DidOpen, DidChange, DidSave, indexVars
<1>2. CASE UNCHANGED <<overlay, task, strays>>
  BY <1>1, <1>2, KeptFlight, FlightType DEF Onward, stopping
<1>3. CASE DidOpen /\ ~stopping
  <2>1. client.version + 1 \in Versions /\ 0 \in Versions /\ client.text + 1 \in Texts
    BY <1>3, DocumentAssumption DEF DidOpen, TypeInv, TypeOK, Versions, Texts
  <2>2. PICK v \in Versions : Receive(v, client.text + 1)
    BY <1>3, <2>1 DEF DidOpen
  <2> QED  BY <1>1, <1>3, <2>1, <2>2, ReceiveOnward
<1>4. CASE DidChange /\ ~stopping
  <2>1. client.version + 1 \in Versions /\ client.text + 1 \in Texts
    BY <1>4, DocumentAssumption DEF DidChange, TypeInv, TypeOK, Versions, Texts
  <2> QED  BY <1>1, <1>4, <2>1, ReceiveOnward DEF DidChange
<1>5. CASE DidSave
  <2>1. overlay.version \in Versions /\ client.text \in Texts /\ ~stopping
    BY <1>5, DocumentAssumption DEF DidSave, TypeInv, TypeOK, Updates, Texts
  <2>2. CASE Schedule(overlay.version) /\ UNCHANGED overlay
    <3>1. InFlight' = InFlight
      BY <1>1, <2>1, <2>2, ReplacedFlight DEF Schedule
    <3> QED  BY <1>1, <2>2, <3>1, FlightType DEF Onward, stopping
  <2> QED  BY <1>1, <1>5, <2>1, <2>2, UpdateOnward DEF DidSave
<1> QED  BY <1>2, <1>3, <1>4, <1>5 DEF DidOpen, DidChange

(* A close that finds no diagnostics about to be sent leaves none behind.  *)
LEMMA OrderClose ==
  ASSUME TypeInv, ShutdownInv, OrderInv, DidClose PROVE OrderInv'
<1> SUFFICES ASSUME ~outlived' PROVE OrderInv'
  BY DEF OrderInv
<1>1. UNCHANGED <<drained, published, sh>> /\ ~outlived
  BY DEF DidClose, indexVars
<1>2. CASE stopping
  <2>1. UNCHANGED <<overlay, task, strays, shown, outlived>>
    BY <1>2 DEF DidClose, TypeInv, TypeOK
  <2>2. InFlight' = InFlight
    BY <1>1, <2>1, KeptFlight
  <2>3. Onward
    BY <1>1, <1>2, <2>1, <2>2, FlightType DEF Onward, stopping
  <2> QED  BY <2>3, OrderOnward
<1>3. CASE ~stopping
  <2>1. ~HasComputed(task) /\ strays = {} /\ drained = None
    BY <1>3 DEF DidClose, ShutdownInv, stopping
  <2>2. task' = None /\ strays' = {} /\ shown' = None /\ drained' = None
    BY <1>1, <1>3, <2>1 DEF DidClose, Abort
  <2>3. InFlight' = {}
    BY <2>2 DEF InFlight, HasComputed
  <2> QED  BY <2>2, <2>3 DEF OrderInv
<1> QED  BY <1>2, <1>3

(* A task that computes finds nothing else on its way.                     *)
LEMMA OrderWake ==
  ASSUME TypeInv, ShutdownInv, OrderInv, TaskWakes PROVE OrderInv'
<1> SUFFICES ASSUME PromptSends, ~outlived' PROVE OrderInv'
  BY DEF OrderInv
<1>1. /\ ~outlived /\ strays = {} /\ ~HasComputed(task)
      /\ UNCHANGED <<published, overlay, sh, shown, strays, drained>>
  BY DEF TaskWakes, indexVars, historyVars
<1>2. CASE task' = None
  <2>1. InFlight' = InFlight
    BY <1>1, <1>2 DEF InFlight, HasComputed
  <2>2. Onward
    BY <1>1, <2>1, FlightType DEF Onward, stopping, TaskWakes, historyVars
  <2> QED  BY <2>2, OrderOnward
<1>3. CASE IsWanted(task) /\ task' = [version |-> task.version, generation |-> published]
  <2>1. overlay # None /\ overlay.version = task.version /\ ~stopping /\ drained = None
    BY <1>3 DEF IsWanted, ShutdownInv, stopping
  <2>2. overlay.version \in Versions /\ published \in 1 .. MaxGeneration
    BY <2>1 DEF TypeInv, TypeOK, Updates
  <2>3. task' \in Shown /\ task'.version = overlay.version /\ task'.generation = published
    BY <1>3, <2>1, <2>2, ShownType DEF Shown
  <2>4. InFlight' = {task'}
    <3>1. HasComputed(task')
      BY <1>3, <2>3, NoneAssumption DEF HasComputed
    <3> QED  BY <1>1, <2>1, <3>1 DEF InFlight
  <2>5. NotAhead(task)'
    BY <1>1, <2>1, <2>2, <2>3 DEF NotAhead, stopping, Versions
  <2>6. shown # None => NotAhead(shown) /\ shown \in Shown
    BY <1>1 DEF OrderInv, TypeInv, TypeOK
  <2>7. shown' # None => NotOlder(task', shown') /\ NotAhead(shown)'
    BY <1>1, <2>1, <2>2, <2>3, <2>6, DocumentAssumption
       DEF NotAhead, NotOlder, stopping, Versions, Shown
  <2> QED  BY <2>4, <2>5, <2>7 DEF OrderInv, NotAhead
<1> QED  BY <1>2, <1>3 DEF TaskWakes

(* A send shows what was on its way, or nothing new.                       *)
Sending ==
  /\ InFlight' \subseteq InFlight /\ shown' \in InFlight \cup {shown}
  /\ UNCHANGED <<published, overlay, sh, outlived>>

LEMMA SendsAreSending ==
  ASSUME TypeInv, TaskSends \/ StraySends \/ DrainedSends PROVE Sending
<1>1. CASE TaskSends
  <2>1. task' = None /\ task \in InFlight /\ shown' \in {task, shown}
    BY <1>1 DEF TaskSends, InFlight
  <2>2. InFlight' \subseteq InFlight
    BY <1>1, <2>1 DEF TaskSends, InFlight, HasComputed
  <2> QED  BY <1>1, <2>1, <2>2 DEF TaskSends, Sending, indexVars, historyVars
<1>2. CASE StraySends
  BY <1>2 DEF StraySends, InFlight, HasComputed, Sending, indexVars, historyVars
<1>3. CASE DrainedSends
  BY <1>3 DEF DrainedSends, InFlight, HasComputed, Sending, indexVars, historyVars
<1> QED  BY <1>1, <1>2, <1>3

LEMMA OrderSend ==
  ASSUME TypeInv, OrderInv, Sending PROVE OrderInv'
<1> SUFFICES ASSUME PromptSends, ~outlived' PROVE OrderInv'
  BY DEF OrderInv
<1>1. ~outlived /\ UNCHANGED <<published, overlay, sh>>
  BY DEF Sending
<1>2. /\ \A d, e \in InFlight : d = e
      /\ \A d \in InFlight : NotAhead(d) /\ (shown # None => NotOlder(d, shown))
      /\ shown # None => NotAhead(shown)
  BY <1>1 DEF OrderInv
<1>3. \A d \in InFlight : d \in Shown /\ NotOlder(d, d)
  BY FlightType, DocumentAssumption DEF NotOlder, Shown, Versions
<1>4. \A d : NotAhead(d) <=> d.generation <= published' /\ (sh' = "running" =>
                                overlay' # None /\ d.version <= overlay'.version)
  BY <1>1 DEF NotAhead, stopping
<1>5. \A d, e \in InFlight' : d = e
  BY <1>2 DEF Sending
<1>6. \A d \in InFlight' : NotAhead(d) /\ (shown' # None => NotOlder(d, shown'))
  <2>1. CASE shown' = shown
    BY <1>2, <2>1 DEF Sending
  <2>2. CASE shown' \in InFlight
    BY <1>2, <1>3, <2>2 DEF Sending
  <2> QED  BY <2>1, <2>2 DEF Sending
<1>7. shown' # None => NotAhead(shown')
  BY <1>2 DEF Sending
<1> QED  BY <1>1, <1>4, <1>5, <1>6, <1>7 DEF OrderInv, NotAhead, NotOlder, stopping

LEMMA OrderInit == Init => OrderInv
  BY DEF Init, OrderInv, InFlight, HasComputed

LEMMA OtherOnward ==
  ASSUME TypeInv, ShutdownInv,
         \/ IndexStep \/ UNCHANGED vars \/ MonitorWakes \/ MonitorSchedules \/ MonitorEnds
         \/ StopServer \/ AwaitTasks \/ AwaitMonitor \/ StopCoordinator
  PROVE  Onward
<1>1. CASE IndexStep
  <2>1. InFlight' = InFlight
    BY <1>1, KeptFlight DEF IndexStep, taskVars
  <2>2. published' \in {published, published + 1}
    BY <1>1 DEF IndexStep, Index!Begin, Index!Publish, Index!Announce, Index!Fail
  <2> QED  BY <1>1, <2>1, <2>2, FlightType DEF IndexStep, Onward, stopping, taskVars, historyVars
<1>2. CASE UNCHANGED vars \/ MonitorWakes \/ MonitorEnds \/ AwaitTasks \/ AwaitMonitor \/ StopCoordinator
  <2>1. UNCHANGED <<published, overlay, shown, task, strays, drained, outlived>> /\ (stopping => stopping')
    BY <1>2 DEF vars, MonitorWakes, MonitorEnds, AwaitTasks, AwaitNothing, AwaitMonitor,
       StopCoordinator, Index!Close, indexVars, taskVars, historyVars, stopping
  <2>2. InFlight' = InFlight
    BY <2>1, KeptFlight
  <2> QED  BY <2>1, <2>2, FlightType DEF Onward
<1>3. CASE MonitorSchedules
  <2>1. monitor.version \in Versions /\ ReplaceTask(monitor.version) /\ UNCHANGED drained
    BY <1>3 DEF MonitorSchedules, TypeInv, TypeOK
  <2>2. InFlight' = InFlight
    BY <2>1, ReplacedFlight
  <2> QED  BY <1>3, <2>2, FlightType DEF MonitorSchedules, Onward, stopping, indexVars
<1>4. CASE StopServer
  <2>1. drained = None
    BY <1>4 DEF StopServer, ShutdownInv
  <2>2. /\ task' = None /\ UNCHANGED strays
        /\ drained' = IF HasComputed(task) THEN task ELSE None
    BY <1>4 DEF StopServer
  <2>3. InFlight' = strays \cup {d \in {drained'} : d # None}
    BY <2>2 DEF InFlight, HasComputed
  <2>4. {d \in {drained'} : d # None} = {d \in {task} : HasComputed(d)}
    BY <2>2 DEF HasComputed
  <2>5. InFlight = strays \cup {d \in {task} : HasComputed(d)}
    BY <2>1 DEF InFlight
  <2>6. InFlight' = InFlight
    BY <2>3, <2>4, <2>5
  <2> QED  BY <1>4, <2>6, FlightType DEF StopServer, Onward, stopping, indexVars, historyVars
<1> QED  BY <1>1, <1>2, <1>3, <1>4

LEMMA OrderNext ==
  ASSUME TypeInv, ShutdownInv, OrderInv, [Next]_vars PROVE OrderInv'
<1>1. CASE Onward
  BY <1>1, OrderOnward
<1> QED  BY <1>1, ResumeOnward, DocumentOnward, OtherOnward, OrderClose, OrderWake, SendsAreSending,
            OrderSend DEF Next

(* What is shown is never followed by older diagnostics, from whichever    *)
(* task they come, unless a close has found some about to be sent.         *)
THEOREM DiagnosticsInOrder == Spec => DiagnosticsNeverGoBack
<1>1. Spec => [](TypeInv /\ ShutdownInv /\ OrderInv)
  <2>1. Init => TypeInv /\ ShutdownInv /\ OrderInv
    BY InitTypes, InitShutdown, OrderInit
  <2>2. (TypeInv /\ ShutdownInv /\ OrderInv) /\ [Next]_vars => (TypeInv /\ ShutdownInv /\ OrderInv)'
    BY NextTypes, NextShutdown, OrderNext
  <2> QED  BY <2>1, <2>2, PTL DEF Spec
<1>2. TypeInv /\ ShutdownInv /\ OrderInv /\ [Next]_vars =>
        [PromptSends /\ ~outlived' /\ shown # None /\ shown' # None => NotOlder(shown', shown)]_vars
  <2> SUFFICES ASSUME TypeInv, ShutdownInv, OrderInv, [Next]_vars,
                      PromptSends, ~outlived', shown # None, shown' # None
               PROVE  NotOlder(shown', shown)
    OBVIOUS
  <2>1. shown \in Shown /\ NotOlder(shown, shown)
    BY DocumentAssumption DEF TypeInv, TypeOK, NotOlder, Shown, Versions
  <2>2. CASE UNCHANGED shown
    BY <2>1, <2>2
  <2>3. CASE Sending
    <3>1. ~outlived
      BY <2>3 DEF Sending
    <3> QED  BY <2>1, <2>3, <3>1 DEF Sending, OrderInv
  <2>4. CASE Onward
    BY <2>2, <2>4 DEF Onward
  <2>5. CASE DidClose
    BY <2>2, <2>5 DEF DidClose
  <2>6. CASE TaskWakes
    BY <2>2, <2>6 DEF TaskWakes
  <2>7. CASE (\E u \in pending : Resume(u)) \/ DidOpen \/ DidChange \/ DidSave
    BY <2>4, <2>7, ResumeOnward, DocumentOnward
  <2>8. CASE TaskSends \/ StraySends \/ DrainedSends
    BY <2>3, <2>8, SendsAreSending
  <2>9. CASE \/ IndexStep \/ UNCHANGED vars \/ MonitorWakes \/ MonitorSchedules \/ MonitorEnds
             \/ StopServer \/ AwaitTasks \/ AwaitMonitor \/ StopCoordinator
    BY <2>4, <2>9, OtherOnward
  <2> QED  BY <2>5, <2>6, <2>7, <2>8, <2>9 DEF Next
<1> QED  BY <1>1, <1>2, PTL DEF Spec, DiagnosticsNeverGoBack
=============================================================================
