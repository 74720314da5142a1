-------------------------- MODULE FreshnessProofs --------------------------
(***************************************************************************)
(* Proofs about Freshness, for every set of modules and any number of      *)
(* edits and reloads.                                                      *)
(***************************************************************************)
EXTENDS Freshness, TLAPS

Active(b) == builds[b] # Idle

(* One builder at a time has the guard.                                    *)
AloneInv == \A b, d \in Builders : Active(b) /\ Active(d) => b = d

(* What a build's scope may be, and what it has left and failed to read.   *)
ScopeInv ==
  \A b \in Builders : Active(b) =>
    /\ builds[b].todo \cup builds[b].failed \subseteq builds[b].scope
    /\ "schema" \in builds[b].scope => builds[b].scope = Parts
    /\ b = "initial" => builds[b].scope = Parts

(* A part is due: an event or the rebuild the watcher is to make covers it.*)
Due(p) == p \in events \/ (wt = "calling" /\ p \in Scope(batch))

ReadBy(b) == builds[b].scope \ (builds[b].todo \cup builds[b].failed)

(* What a build has read is current, unless it is due or named as lost;    *)
(* what it does not read is what the published snapshot holds.             *)
ReadInv ==
  \A b \in Builders : Active(b) =>
    /\ \A p \in ReadBy(b) :
         builds[b].parts[p] = disk[p] \/ Due(p) \/ p \in dropped \cup blind
    /\ \A p \in Parts \ builds[b].scope : builds[b].parts[p] = snap[p]

(* A part that is not lost is current in the snapshot, or due, or a build  *)
(* under way covers it, or the initial build has not published.            *)
FreshInv ==
  \A p \in Parts \ Lost :
    \/ snap[p] = disk[p]
    \/ Due(p)
    \/ \E b \in Builders : Active(b) /\ p \in builds[b].scope
    \/ watching \in {"no", "indexing"}

(* The schema is read before the layers, so what a build has read it       *)
(* parsed with the schema it will publish.                                 *)
MadeInv ==
  /\ \A b \in Builders : Active(b) =>
       /\ "schema" \in builds[b].todo => Modules \subseteq builds[b].todo
       /\ \A m \in ReadBy(b) \cap Modules : builds[b].made[m] = builds[b].parts["schema"]
       /\ \A m \in Modules \ builds[b].scope : builds[b].made[m] = made[m]
  /\ LayersMatchSchema

(* Edits are numbered upwards, and a build never holds older than the      *)
(* snapshot it started from, which is the published one.                   *)
Ordered == Parts \ {"resources"}

OrderInv ==
  /\ \A p \in Parts : disk[p] <= edits /\ snap[p] <= disk[p]
  /\ \A b \in Builders : Active(b) => \A p \in Parts : builds[b].parts[p] <= disk[p]
  /\ \A b \in Builders : Active(b) => \A p \in Ordered : snap[p] <= builds[b].parts[p]

BuildInv == TypeOK /\ AloneInv /\ ScopeInv

-----------------------------------------------------------------------------
(* What each step does to the builds.                                      *)

(* The build b goes on from having read or failed to read p.               *)
Progresses(b, p) ==
  LET old == builds[b]
      new == builds'[b]
  IN  /\ old \in Builds /\ new \in Builds
      /\ p \in old.todo /\ new.todo = old.todo \ {p} /\ new.scope = old.scope
      /\ p \in Modules => "schema" \notin old.todo
      /\ \A d \in Builders \ {b} : builds'[d] = builds[d]
      /\ \A q \in Parts \ {p} : new.parts[q] = old.parts[q]
      /\ \A m \in Modules \ {p} : new.made[m] = old.made[m]

LEMMA ReadProgresses ==
  ASSUME TypeOK, NEW b \in Builders, NEW p \in Parts, Read(b, p)
  PROVE  /\ Progresses(b, p)
         /\ builds'[b].failed = builds[b].failed
         /\ builds'[b].parts[p] = disk[p]
         /\ p \in Modules => builds'[b].made[p] = builds[b].parts["schema"]
         /\ builds' \in [Builders -> Builds \cup {Idle}]
<1> DEFINE old == builds[b]
           parts == [old.parts EXCEPT ![p] = disk[p]]
           made2 == [m \in Modules |-> IF m = p THEN old.parts["schema"] ELSE old.made[m]]
           new == [todo |-> old.todo \ {p}, scope |-> old.scope, failed |-> old.failed,
                   parts |-> parts, made |-> made2]
<1>1. old \in Builds /\ p \in old.todo /\ (p \in Modules => "schema" \notin old.todo)
  BY DEF TypeOK, Read, Reads
<1>2. builds' = [builds EXCEPT ![b] = new]
  BY DEF Read
<1>3. /\ old.todo \in SUBSET Parts /\ old.scope \in SUBSET Parts /\ old.failed \in SUBSET Parts
      /\ old.parts \in Contents /\ old.made \in [Modules -> Nat]
  BY <1>1 DEF Builds
<1>4. parts \in Contents /\ parts[p] = disk[p] /\ \A q \in Parts \ {p} : parts[q] = old.parts[q]
  BY <1>3 DEF Contents, TypeOK
<1>5. /\ made2 \in [Modules -> Nat]
      /\ \A m \in Modules \ {p} : made2[m] = old.made[m]
      /\ p \in Modules => made2[p] = old.parts["schema"]
  BY <1>3 DEF Contents, Parts
<1> HIDE DEF parts, made2
<1>6. new \in Builds
  BY <1>3, <1>4, <1>5 DEF Builds
<1>7. builds'[b] = new /\ \A d \in Builders \ {b} : builds'[d] = builds[d]
  BY <1>2 DEF TypeOK
<1>8. builds' \in [Builders -> Builds \cup {Idle}]
  BY <1>2, <1>6 DEF TypeOK
<1> QED  BY <1>1, <1>4, <1>5, <1>6, <1>7, <1>8 DEF Progresses

LEMMA ReadFailsProgresses ==
  ASSUME TypeOK, NEW b \in Builders, NEW p \in Parts, ReadFails(b, p)
  PROVE  /\ Progresses(b, p)
         /\ builds'[b].failed = builds[b].failed \cup {p}
         /\ builds'[b].parts[p] = IF p = "resources" THEN 0 ELSE builds[b].parts[p]
         /\ builds'[b].made = builds[b].made
         /\ p # "schema"
         /\ builds' \in [Builders -> Builds \cup {Idle}]
<1> DEFINE old == builds[b]
           parts == IF p = "resources" THEN [old.parts EXCEPT ![p] = 0] ELSE old.parts
           new == [todo |-> old.todo \ {p}, scope |-> old.scope, failed |-> old.failed \cup {p},
                   parts |-> parts, made |-> old.made]
<1>1. old \in Builds /\ p \in old.todo /\ (p \in Modules => "schema" \notin old.todo)
  BY DEF TypeOK, ReadFails, Reads
<1>2. builds' = [builds EXCEPT ![b] = new]
  BY DEF ReadFails
<1>3. /\ old.todo \in SUBSET Parts /\ old.scope \in SUBSET Parts /\ old.failed \in SUBSET Parts
      /\ old.parts \in Contents /\ old.made \in [Modules -> Nat]
  BY <1>1 DEF Builds
<1>4. /\ parts \in Contents
      /\ parts[p] = IF p = "resources" THEN 0 ELSE old.parts[p]
      /\ \A q \in Parts \ {p} : parts[q] = old.parts[q]
  BY <1>3 DEF Contents
<1> HIDE DEF parts
<1>6. new \in Builds
  BY <1>3, <1>4 DEF Builds
<1>7. builds'[b] = new /\ \A d \in Builders \ {b} : builds'[d] = builds[d]
  BY <1>2 DEF TypeOK
<1>8. builds' \in [Builders -> Builds \cup {Idle}]
  BY <1>2, <1>6 DEF TypeOK
<1>9. p # "schema"
  BY FreshnessAssumption DEF ReadFails, Tolerates
<1> QED  BY <1>1, <1>3, <1>4, <1>6, <1>7, <1>8, <1>9 DEF Progresses

(* A build begins, alone, from the published snapshot.                     *)
LEMMA BeginStarts ==
  ASSUME TypeOK, NEW b \in Builders, NEW scope \in SUBSET Parts, Begin(b, scope)
  PROVE  /\ \A d \in Builders : builds[d] = Idle
         /\ \A d \in Builders \ {b} : builds'[d] = Idle
         /\ builds'[b] = NewBuild(scope)
         /\ builds'[b] \in Builds
         /\ builds'[b] # Idle
         /\ builds' \in [Builders -> Builds \cup {Idle}]
<1>1. NewBuild(scope) \in Builds
  BY DEF NewBuild, Builds, TypeOK
<1>2. NewBuild(scope) # Idle
  BY <1>1, IdleAssumption
<1> HIDE DEF NewBuild
<1> QED  BY <1>1, <1>2 DEF Begin, TypeOK

(* A build returns and is idle.                                            *)
LEMMA ReturnEnds ==
  ASSUME TypeOK, NEW b \in Builders, Return(b)
  PROVE  /\ builds'[b] = Idle
         /\ \A d \in Builders \ {b} : builds'[d] = builds[d]
         /\ builds' \in [Builders -> Builds \cup {Idle}]
         /\ wt' \in {"idle", wt} /\ batch' \in {{}, batch}
         /\ b = "watcher" => wt' = "idle"
         /\ b # "watcher" => wt' = wt /\ batch' = batch
  BY DEF Return, TypeOK

LEMMA ScopeType ==
  ASSUME NEW paths \in SUBSET Parts
  PROVE  /\ Scope(paths) \in SUBSET Parts
         /\ "schema" \in Scope(paths) => Scope(paths) = Parts
         /\ \A p \in paths : p \in Scope(paths) \/ "packages" \in paths
  BY FreshnessAssumption DEF Scope, Parts

-----------------------------------------------------------------------------
(* Types, exclusion and scopes.                                            *)

LEMMA BuildInit == Init => BuildInv
  BY DEF Init, BuildInv, TypeOK, AloneInv, ScopeInv, Active, Contents, Parts, Builders

LEMMA BuildStepInv == BuildInv /\ [Next]_vars => BuildInv'
<1> SUFFICES ASSUME BuildInv, [Next]_vars PROVE BuildInv'
  OBVIOUS
<1>0. TypeOK /\ AloneInv /\ ScopeInv
  BY DEF BuildInv
<1>1. CASE \E p \in Parts : Edit(p)
  <2>1. PICK p \in Parts : Edit(p)
    BY <1>1
  <2>2. TypeOK'
    BY <1>0, <2>1 DEF Edit, TypeOK, Contents
  <2>3. AloneInv' /\ ScopeInv'
    BY <1>0, <2>1 DEF Edit, AloneInv, ScopeInv, Active
  <2> QED  BY <2>2, <2>3 DEF BuildInv
<1>2. CASE StartWatching \/ Receive \/ Drain
  <2>1. TypeOK'
    BY <1>0, <1>2 DEF StartWatching, Receive, Drain, TypeOK
  <2>2. AloneInv' /\ ScopeInv'
    BY <1>0, <1>2 DEF StartWatching, Receive, Drain, AloneInv, ScopeInv, Active
  <2> QED  BY <2>1, <2>2 DEF BuildInv
<1>3. ASSUME NEW b \in Builders, NEW scope \in SUBSET Parts, Begin(b, scope),
             "schema" \in scope => scope = Parts, b = "initial" => scope = Parts
      PROVE  AloneInv' /\ ScopeInv'
  <2>1. builds'[b].scope = scope /\ builds'[b].todo = scope /\ builds'[b].failed = {}
    <3>1. builds'[b] = NewBuild(scope)
      BY <1>0, <1>3, BeginStarts
    <3> QED  BY <3>1 DEF NewBuild
  <2>2. \A d \in Builders : Active(d)' => d = b
    BY <1>0, <1>3, BeginStarts DEF Active
  <2> QED  BY <1>3, <2>1, <2>2 DEF AloneInv, ScopeInv
<1>4. CASE InitialRebuild
  <2>1. Begin("initial", Parts) /\ "initial" \in Builders
    BY <1>4 DEF InitialRebuild, Builders
  <2>2. TypeOK'
    BY <1>0, <1>4, <2>1, BeginStarts DEF InitialRebuild, TypeOK, Builders
  <2> QED  BY <1>3, <2>1, <2>2 DEF BuildInv
<1>5. CASE Reload
  <2>1. Begin("reload", Parts) /\ "reload" \in Builders /\ "reload" # "initial"
    BY <1>5 DEF Reload, Builders
  <2>2. TypeOK'
    BY <1>0, <1>5, <2>1, BeginStarts DEF Reload, TypeOK, Builders, watchVars
  <2> QED  BY <1>3, <2>1, <2>2 DEF BuildInv
<1>6. CASE WatcherRebuild
  <2>1. Begin("watcher", Scope(batch)) /\ "watcher" \in Builders /\ "watcher" # "initial"
    BY <1>6 DEF WatcherRebuild, Builders
  <2>2. Scope(batch) \in SUBSET Parts /\ ("schema" \in Scope(batch) => Scope(batch) = Parts)
    BY <1>0, ScopeType DEF TypeOK
  <2>3. TypeOK'
    BY <1>0, <1>6, <2>1, <2>2, BeginStarts DEF WatcherRebuild, TypeOK, Builders
  <2> QED  BY <1>3, <2>1, <2>2, <2>3 DEF BuildInv
<1>7. CASE \E b \in Builders : BuildStep(b)
  <2>1. PICK b \in Builders : BuildStep(b)
    BY <1>7
  <2>2. ASSUME NEW p \in Parts, Progresses(b, p), builds' \in [Builders -> Builds \cup {Idle}],
               builds'[b].failed \in {builds[b].failed, builds[b].failed \cup {p}},
               UNCHANGED <<edits, disk, snap, made, watchVars, reloads, failed>>,
               dropped' \subseteq Parts, blind' \subseteq Parts
        PROVE  BuildInv'
    <3>1. Active(b) /\ \A d \in Builders : Active(d)' <=> Active(d)
      BY <2>2, IdleAssumption DEF Progresses, Active
    <3>2. TypeOK'
      BY <1>0, <2>2, <3>1 DEF TypeOK, watchVars, Active, Builders
    <3>3. AloneInv'
      BY <1>0, <3>1 DEF AloneInv
    <3>4. ScopeInv'
      BY <1>0, <2>2, <3>1 DEF ScopeInv, Progresses
    <3> QED  BY <3>2, <3>3, <3>4 DEF BuildInv
  <2>3. ASSUME NEW p \in Parts, Read(b, p) PROVE BuildInv'
    <3>1. /\ dropped' \subseteq Parts /\ blind' \subseteq Parts
          /\ UNCHANGED <<edits, disk, snap, made, watchVars, reloads, failed>>
      BY <1>0, <2>3 DEF Read, TypeOK
    <3> QED  BY <1>0, <2>2, <2>3, <3>1, ReadProgresses
  <2>4. ASSUME NEW p \in Parts, ReadFails(b, p) PROVE BuildInv'
    <3>1. /\ dropped' \subseteq Parts /\ blind' \subseteq Parts
          /\ UNCHANGED <<edits, disk, snap, made, watchVars, reloads, failed>>
      BY <1>0, <2>4 DEF ReadFails, TypeOK
    <3> QED  BY <1>0, <2>2, <2>4, <3>1, ReadFailsProgresses
  <2>5. CASE BuildFails(b) \/ Publish(b)
    <3>1. Return(b) /\ Active(b) /\ builds[b] \in Builds
      BY <1>0, <2>5 DEF BuildFails, Publish, Reads, Active, TypeOK
    <3>2. TypeOK'
      <4>1. /\ edits' = edits /\ disk' = disk /\ events' = events /\ reloads' = reloads
            /\ dropped' = dropped /\ blind' = blind
            /\ snap' \in Contents /\ made' \in [Modules -> Nat]
            /\ failed' \subseteq Parts /\ watching' \in {"may", watching}
        BY <1>0, <2>5, <3>1 DEF BuildFails, Publish, TypeOK, Builds
      <4>2. wt' = "rebuilding" <=> builds'["watcher"] # Idle
        <5>1. CASE b = "watcher"
          BY <1>0, <3>1, <5>1, ReturnEnds
        <5>2. CASE b # "watcher"
          BY <1>0, <3>1, <5>2, ReturnEnds DEF TypeOK, Builders
        <5> QED  BY <5>1, <5>2
      <4> QED  BY <1>0, <3>1, <4>1, <4>2, ReturnEnds DEF TypeOK
    <3>3. \A d \in Builders : Active(d)' => d # b /\ Active(d) /\ builds'[d] = builds[d]
      BY <1>0, <3>1, ReturnEnds DEF Active
    <3>4. AloneInv' /\ ScopeInv'
      BY <1>0, <3>3 DEF AloneInv, ScopeInv
    <3> QED  BY <3>2, <3>4 DEF BuildInv
  <2> QED  BY <2>1, <2>3, <2>4, <2>5 DEF BuildStep
<1>8. CASE UNCHANGED vars
  BY <1>0, <1>8 DEF vars, watchVars, BuildInv, TypeOK, AloneInv, ScopeInv, Active
<1> QED  BY <1>1, <1>2, <1>4, <1>5, <1>6, <1>7, <1>8 DEF Next

LEMMA BuildCorrect == Spec => []BuildInv
  BY BuildInit, BuildStepInv, PTL DEF Spec

(* Every reachable state is well typed, and the watcher task is rebuilding *)
(* exactly while its build runs.                                           *)
THEOREM FreshnessTypes == Spec => []TypeOK
<1>1. BuildInv => TypeOK
  BY DEF BuildInv
<1> QED  BY <1>1, BuildCorrect, PTL

-----------------------------------------------------------------------------
(* The content of builds and of the snapshot, action by action.  An        *)
(* invariant about builds is kept by a step that begins one if it holds of *)
(* NewBuild, since no other is active.                                     *)

ContentInv == ReadInv /\ FreshInv /\ MadeInv /\ OrderInv

LEMMA ContentInit == Init => ContentInv
<1> SUFFICES ASSUME Init PROVE ContentInv
  OBVIOUS
<1>1. \A b \in Builders : ~Active(b)
  BY DEF Init, Active
<1>2. FreshInv
  BY DEF Init, FreshInv
<1>3. MadeInv
  BY <1>1 DEF Init, MadeInv, LayersMatchSchema, Parts
<1>4. OrderInv
  BY <1>1 DEF Init, OrderInv
<1> QED  BY <1>1, <1>2, <1>3, <1>4 DEF ContentInv, ReadInv

(* An edit makes its part due, or blind before the watcher watches.        *)
LEMMA EditContent ==
  ASSUME BuildInv, ContentInv, NEW p \in Parts, Edit(p)
  PROVE  ContentInv'
<1>0. TypeOK /\ ScopeInv
  BY DEF BuildInv
<1>1. /\ disk' = [disk EXCEPT ![p] = edits + 1] /\ edits' = edits + 1
      /\ disk \in [Parts -> Nat] /\ edits \in Nat
  BY <1>0 DEF Edit, TypeOK, Contents
<1>2. \A q \in Parts : q # p => disk'[q] = disk[q]
  BY <1>1
<1>3. disk'[p] = edits + 1
  BY <1>1
<1>4. /\ UNCHANGED <<snap, made, watching, wt, batch, builds, failed, dropped>>
      /\ events \subseteq events' /\ blind \subseteq blind'
      /\ p \in events' \cup blind'
  BY DEF Edit
<1>5. \A q \in Parts : Due(q) => Due(q)'
  BY <1>4 DEF Due
<1>6. Due(p)' \/ p \in blind'
  BY <1>4 DEF Due
<1>7. ReadInv'
  BY <1>0, <1>2, <1>4, <1>5, <1>6 DEF ContentInv, ReadInv, Active, ReadBy, ScopeInv, TypeOK, Builds
<1>8. FreshInv'
  BY <1>2, <1>4, <1>5, <1>6 DEF ContentInv, FreshInv, Active, Lost
<1>9. MadeInv'
  BY <1>4 DEF ContentInv, MadeInv, Active, ReadBy, LayersMatchSchema
<1>10. OrderInv'
  <2>1. \A q \in Parts : disk'[q] <= edits' /\ disk[q] <= disk'[q]
    BY <1>1, <1>2, <1>3 DEF ContentInv, OrderInv
  <2>2. \A q \in Parts : disk'[q] \in Nat /\ disk[q] \in Nat /\ snap[q] \in Nat
    BY <1>1, <1>0 DEF TypeOK, Contents
  <2>3. \A b \in Builders : Active(b) => \A q \in Parts : builds[b].parts[q] \in Nat
    BY <1>0 DEF TypeOK, Active, Builds, Contents
  <2> QED  BY <1>4, <2>1, <2>2, <2>3 DEF ContentInv, OrderInv, Active
<1> QED  BY <1>7, <1>8, <1>9, <1>10 DEF ContentInv

(* The watcher task takes over what it does not drop.                      *)
LEMMA WatchContent ==
  ASSUME BuildInv, ContentInv, StartWatching \/ Receive \/ Drain
  PROVE  ContentInv'
<1>0. TypeOK
  BY DEF BuildInv
<1>1. UNCHANGED <<edits, disk, snap, made, builds, failed, blind>> /\ dropped \subseteq dropped'
  BY DEF StartWatching, Receive, Drain
<1>2. \A q \in Parts : Due(q) => Due(q)' \/ q \in dropped'
  <2>1. CASE StartWatching \/ Receive
    BY <2>1 DEF StartWatching, Receive, Due
  <2>2. CASE Drain
    <3>1. events \in SUBSET Parts /\ wt = "debouncing" /\ wt' = "calling" /\ batch' = events
      BY <1>0, <2>2 DEF Drain, TypeOK
    <3>2. "packages" \in events => \A q \in events : q = "packages" \/ q \in dropped'
      BY <2>2 DEF Drain
    <3>3. "packages" \in events => "packages" \in Scope(events)
      BY DEF Scope
    <3> QED  BY <3>1, <3>2, <3>3, ScopeType DEF Due
  <2> QED  BY <2>1, <2>2
<1>3. watching' = watching \/ (watching' = "yes" /\ watching = "may")
  BY DEF StartWatching, Receive, Drain
<1>4. ReadInv'
  BY <1>0, <1>1, <1>2 DEF ContentInv, ReadInv, Active, ReadBy, TypeOK, Builds
<1>5. FreshInv'
  BY <1>1, <1>2, <1>3 DEF ContentInv, FreshInv, Active, Lost
<1>6. MadeInv' /\ OrderInv'
  BY <1>1 DEF ContentInv, MadeInv, OrderInv, Active, ReadBy, LayersMatchSchema
<1> QED  BY <1>4, <1>5, <1>6 DEF ContentInv

(* A build begins with the published parts and everything left to read.    *)
LEMMA BeginContent ==
  ASSUME BuildInv, ContentInv, NEW b \in Builders, NEW scope \in SUBSET Parts,
         Begin(b, scope), "schema" \in scope => scope = Parts,
         UNCHANGED <<edits, disk, snap, made, events, batch, failed, dropped, blind>>,
         \A q \in Parts : Due(q) => Due(q)' \/ q \in scope,
         watching' = watching \/ (watching' = "indexing" /\ watching = "no")
  PROVE  ContentInv'
<1>0. TypeOK
  BY DEF BuildInv
<1>1. /\ \A d \in Builders : ~Active(d)
      /\ \A d \in Builders : Active(d)' <=> d = b
      /\ builds'[b] = NewBuild(scope)
  BY <1>0, BeginStarts DEF Active
<1>2. /\ builds'[b].scope = scope /\ builds'[b].todo = scope
      /\ builds'[b].parts = snap /\ builds'[b].made = made
  BY <1>1 DEF NewBuild
<1>3. ReadBy(b)' = {}
  BY <1>2 DEF ReadBy
<1>4. ReadInv'
  BY <1>1, <1>2, <1>3 DEF ReadInv
<1>5. FreshInv'
  BY <1>1, <1>2 DEF ContentInv, FreshInv, Lost
<1>6. MadeInv'
  BY <1>1, <1>2, <1>3 DEF ContentInv, MadeInv, LayersMatchSchema, Parts
<1>7. OrderInv'
  BY <1>0, <1>1, <1>2 DEF ContentInv, OrderInv, TypeOK, Contents, Ordered
<1> QED  BY <1>4, <1>5, <1>6, <1>7 DEF ContentInv

(* A build reads a part, or keeps what it had of it.                       *)
LEMMA ReadContent ==
  ASSUME BuildInv, ContentInv, NEW b \in Builders, NEW p \in Parts,
         Read(b, p) \/ ReadFails(b, p)
  PROVE  ContentInv'
<1>0. TypeOK /\ AloneInv /\ ScopeInv
  BY DEF BuildInv
<1>1. /\ Progresses(b, p)
      /\ \/ builds'[b].failed = builds[b].failed /\ builds'[b].parts[p] = disk[p]
         \/ /\ builds'[b].failed = builds[b].failed \cup {p}
            /\ builds'[b].parts[p] = (IF p = "resources" THEN 0 ELSE builds[b].parts[p])
            /\ p # "schema"
      /\ p \in builds'[b].failed \/ (p \in Modules => builds'[b].made[p] = builds[b].parts["schema"])
  BY <1>0, ReadProgresses, ReadFailsProgresses
<1>2. Active(b) /\ \A d \in Builders : Active(d)' <=> Active(d)
  BY <1>1, IdleAssumption DEF Progresses, Active
<1>3. \A d \in Builders : Active(d) => d = b
  BY <1>0, <1>2 DEF AloneInv
<1>4. /\ UNCHANGED <<edits, disk, snap, made, events, wt, batch, watching, failed>>
      /\ dropped \ {p} \subseteq dropped' /\ dropped' \subseteq dropped
      /\ blind \ {p} \subseteq blind' /\ blind' \subseteq blind
  BY DEF Read, ReadFails, watchVars
<1>5. \A q \in Parts : Due(q)' <=> Due(q)
  BY <1>4 DEF Due
<1>6. /\ p \in builds[b].scope /\ builds'[b].scope = builds[b].scope
      /\ ReadBy(b)' \subseteq ReadBy(b) \cup {p}
      /\ p \in ReadBy(b)' => builds'[b].failed = builds[b].failed \/ p \notin builds'[b].failed
      /\ ReadBy(b)' \subseteq Parts
  BY <1>0, <1>1, <1>2 DEF ReadBy, ScopeInv, Progresses, Builds
<1>7. p \in ReadBy(b)' => builds'[b].parts[p] = disk[p]
  BY <1>1 DEF ReadBy
<1>8. \A q \in Parts \ {p} : builds'[b].parts[q] = builds[b].parts[q]
  BY <1>1 DEF Progresses
<1>9. ReadInv'
  <2>1. \A q \in ReadBy(b)' :
          builds'[b].parts[q] = disk[q] \/ Due(q) \/ q \in dropped' \cup blind'
    BY <1>2, <1>4, <1>6, <1>7, <1>8 DEF ContentInv, ReadInv
  <2>2. \A q \in Parts \ builds[b].scope : builds'[b].parts[q] = snap[q]
    BY <1>2, <1>6, <1>8 DEF ContentInv, ReadInv
  <2> QED  BY <1>2, <1>3, <1>4, <1>5, <1>6, <2>1, <2>2 DEF ReadInv
<1>10. FreshInv'
  BY <1>2, <1>3, <1>4, <1>5, <1>6 DEF ContentInv, FreshInv, Lost
<1>11. MadeInv'
  <2>1. \A m \in Modules : m \in Parts /\ m # "schema"
    BY FreshnessAssumption DEF Parts
  <2>2. "schema" \in builds'[b].todo => Modules \subseteq builds'[b].todo
    BY <1>1, <1>2, <2>1 DEF ContentInv, MadeInv, Progresses
  <2>3. \A m \in Modules \ builds[b].scope : builds'[b].made[m] = made[m]
    BY <1>1, <1>2, <1>6 DEF ContentInv, MadeInv, Progresses
  <2>4. \A m \in ReadBy(b)' \cap Modules : builds'[b].made[m] = builds'[b].parts["schema"]
    <3>1. CASE p = "schema"
      BY <1>1, <1>2, <1>6, <3>1, <2>1 DEF ContentInv, MadeInv, ReadBy, Progresses
    <3>2. CASE p # "schema"
      <4>1. builds'[b].parts["schema"] = builds[b].parts["schema"]
        BY <1>8, <3>2 DEF Parts
      <4>2. p \in ReadBy(b)' /\ p \in Modules => builds'[b].made[p] = builds[b].parts["schema"]
        BY <1>1 DEF ReadBy
      <4>3. \A m \in ReadBy(b)' \cap Modules : m # p => builds'[b].made[m] = builds[b].parts["schema"]
        BY <1>1, <1>2, <1>6 DEF ContentInv, MadeInv, Progresses
      <4> QED  BY <4>1, <4>2, <4>3
    <3> QED  BY <3>1, <3>2
  <2>5. LayersMatchSchema'
    BY <1>4 DEF ContentInv, MadeInv, LayersMatchSchema
  <2> QED  BY <1>2, <1>3, <1>4, <1>6, <2>2, <2>3, <2>4, <2>5 DEF MadeInv
<1>12. OrderInv'
  <2>1. /\ builds[b].parts[p] \in Nat /\ disk[p] \in Nat /\ snap[p] \in Nat
        /\ builds[b].parts[p] <= disk[p] /\ snap[p] <= disk[p]
        /\ p \in Ordered => snap[p] <= builds[b].parts[p]
    BY <1>0, <1>2 DEF ContentInv, OrderInv, TypeOK, Builds, Contents, Active
  <2>2. builds'[b].parts[p] <= disk[p] /\ (p \in Ordered => snap[p] <= builds'[b].parts[p])
    BY <1>1, <2>1 DEF Ordered
  <2>3. \A q \in Parts \ {p} :
          /\ builds'[b].parts[q] <= disk[q]
          /\ q \in Ordered => snap[q] <= builds'[b].parts[q]
    BY <1>2, <1>8 DEF ContentInv, OrderInv
  <2> QED  BY <1>2, <1>3, <1>4, <2>2, <2>3 DEF ContentInv, OrderInv, Ordered
<1> QED  BY <1>9, <1>10, <1>11, <1>12 DEF ContentInv

(* A build returns: nothing is under way any more.                         *)
LEMMA ReturnContent ==
  ASSUME BuildInv, ContentInv, NEW b \in Builders, Active(b), Return(b)
  PROVE  /\ \A d \in Builders : ~Active(d)'
         /\ \A d \in Builders : Active(d) => d = b
         /\ builds[b] \in Builds
         /\ events' = events => \A q \in Parts : Due(q)' <=> Due(q)
<1>0. TypeOK /\ AloneInv
  BY DEF BuildInv
<1>1. \A d \in Builders : Active(d) => d = b
  BY <1>0 DEF AloneInv
<1>2. \A d \in Builders : ~Active(d)'
  BY <1>0, <1>1, ReturnEnds DEF Active
<1>3. ASSUME events' = events PROVE \A q \in Parts : Due(q)' <=> Due(q)
  <2>1. CASE b = "watcher"
    BY <1>0, <1>3, <2>1, ReturnEnds DEF Due, TypeOK, Active
  <2>2. CASE b # "watcher"
    BY <1>0, <1>3, <2>2, ReturnEnds DEF Due
  <2> QED  BY <2>1, <2>2
<1>4. builds[b] \in Builds
  BY <1>0 DEF TypeOK, Active
<1> QED  BY <1>1, <1>2, <1>3, <1>4

LEMMA FailContent ==
  ASSUME BuildInv, ContentInv, NEW b \in Builders, BuildFails(b)
  PROVE  ContentInv'
<1>1. Active(b) /\ Return(b)
  BY DEF BuildFails, Reads, Active
<1>2. /\ UNCHANGED <<edits, disk, snap, made, watching, events, dropped, blind>>
      /\ failed' = failed \cup builds[b].scope
  BY DEF BuildFails
<1>3. /\ \A d \in Builders : ~Active(d)'
      /\ \A d \in Builders : Active(d) => d = b
      /\ \A q \in Parts : Due(q)' <=> Due(q)
  BY <1>1, <1>2, ReturnContent
<1>4. ReadInv'
  BY <1>3 DEF ReadInv
<1>5. FreshInv'
  BY <1>2, <1>3 DEF ContentInv, FreshInv, Lost
<1>6. MadeInv' /\ OrderInv'
  BY <1>2, <1>3 DEF ContentInv, MadeInv, OrderInv, LayersMatchSchema
<1> QED  BY <1>4, <1>5, <1>6 DEF ContentInv

LEMMA PublishContent ==
  ASSUME BuildInv, ContentInv, NEW b \in Builders, Publish(b)
  PROVE  /\ ContentInv'
         /\ \A p \in Ordered : snap'[p] >= snap[p]
<1>0. TypeOK /\ ScopeInv
  BY DEF BuildInv
<1>1. Active(b) /\ Return(b) /\ builds[b].todo = {}
  BY DEF Publish, Active
<1>2. /\ UNCHANGED <<edits, disk, events, dropped, blind>>
      /\ snap' = builds[b].parts /\ made' = builds[b].made
      /\ failed' = (failed \ builds[b].scope) \cup builds[b].failed
      /\ watching' = IF b = "initial" THEN "may" ELSE watching
  BY DEF Publish
<1>3. /\ \A d \in Builders : ~Active(d)'
      /\ \A d \in Builders : Active(d) => d = b
      /\ \A q \in Parts : Due(q)' <=> Due(q)
      /\ builds[b] \in Builds
  BY <1>1, <1>2, ReturnContent
<1>4. /\ b = "initial" => builds[b].scope = Parts
      /\ "schema" \in builds[b].scope => builds[b].scope = Parts
      /\ builds[b].scope \subseteq Parts
      /\ ReadBy(b) = builds[b].scope \ builds[b].failed
  BY <1>0, <1>1, <1>3 DEF ScopeInv, ReadBy, Builds
<1>5. ReadInv'
  BY <1>3 DEF ReadInv
<1>6. FreshInv'
  <2> SUFFICES ASSUME NEW p \in Parts, p \notin failed', p \notin dropped \cup blind
               PROVE  snap'[p] = disk[p] \/ Due(p) \/ watching' \in {"no", "indexing"}
    BY <1>2, <1>3 DEF FreshInv, Lost
  <2>1. CASE p \in builds[b].scope
    <3>1. p \in ReadBy(b)
      BY <1>2, <1>4, <2>1
    <3> QED  BY <1>1, <1>2, <3>1 DEF ContentInv, ReadInv
  <2>2. CASE p \notin builds[b].scope
    <3>1. b # "initial" /\ watching' = watching /\ p \notin failed
      BY <1>2, <1>4, <2>2
    <3>2. snap'[p] = snap[p]
      BY <1>1, <1>2, <2>2 DEF ContentInv, ReadInv
    <3>3. snap[p] = disk[p] \/ Due(p) \/ watching \in {"no", "indexing"}
      BY <1>3, <2>2, <3>1 DEF ContentInv, FreshInv, Lost
    <3> QED  BY <3>1, <3>2, <3>3
  <2> QED  BY <2>1, <2>2
<1>7. MadeInv'
  <2> SUFFICES ASSUME NEW m \in Modules, m \notin failed' PROVE made'[m] = snap'["schema"]
    BY <1>3 DEF MadeInv, LayersMatchSchema
  <2>1. CASE m \in builds[b].scope
    <3>1. m \in ReadBy(b)
      BY <1>2, <1>4, <2>1
    <3> QED  BY <1>1, <1>2, <3>1 DEF ContentInv, MadeInv
  <2>2. CASE m \notin builds[b].scope
    <3>1. "schema" \in Parts \ builds[b].scope /\ m \notin failed
      BY <1>2, <1>4, <2>2 DEF Parts
    <3>2. builds[b].parts["schema"] = snap["schema"] /\ builds[b].made[m] = made[m]
      BY <1>1, <2>2, <3>1 DEF ContentInv, ReadInv, MadeInv
    <3> QED  BY <1>2, <3>1, <3>2 DEF ContentInv, MadeInv, LayersMatchSchema
  <2> QED  BY <2>1, <2>2
<1>8. OrderInv'
  BY <1>1, <1>2, <1>3 DEF ContentInv, OrderInv
<1>9. \A p \in Ordered : snap'[p] >= snap[p]
  <2>1. \A p \in Ordered : snap[p] \in Nat /\ builds[b].parts[p] \in Nat
    BY <1>0, <1>3 DEF TypeOK, Contents, Builds, Ordered
  <2> QED  BY <1>1, <1>2, <2>1 DEF ContentInv, OrderInv
<1> QED  BY <1>5, <1>6, <1>7, <1>8, <1>9 DEF ContentInv

LEMMA ContentStep ==
  BuildInv /\ ContentInv /\ [Next]_vars =>
    ContentInv' /\ \A p \in Ordered : snap'[p] >= snap[p]
<1> SUFFICES ASSUME BuildInv, ContentInv, [Next]_vars
             PROVE  ContentInv' /\ \A p \in Ordered : snap'[p] >= snap[p]
  OBVIOUS
<1>0. TypeOK
  BY DEF BuildInv
<1>1. snap' = snap => \A p \in Ordered : snap'[p] >= snap[p]
  BY <1>0 DEF TypeOK, Contents, Ordered
<1>2. CASE \E p \in Parts : Edit(p)
  BY <1>1, <1>2, EditContent DEF Edit
<1>3. CASE StartWatching \/ Receive \/ Drain
  BY <1>1, <1>3, WatchContent DEF StartWatching, Receive, Drain
<1>4. CASE InitialRebuild
  <2>1. Begin("initial", Parts) /\ "initial" \in Builders
    BY <1>4 DEF InitialRebuild, Builders
  <2>2. /\ UNCHANGED <<edits, disk, snap, made, events, batch, failed, dropped, blind>>
        /\ watching' = "indexing" /\ watching = "no"
    BY <1>4 DEF InitialRebuild
  <2> QED  BY <1>1, <2>1, <2>2, BeginContent
<1>5. CASE Reload
  <2>1. Begin("reload", Parts) /\ "reload" \in Builders
    BY <1>5 DEF Reload, Builders
  <2>2. /\ UNCHANGED <<edits, disk, snap, made, events, batch, failed, dropped, blind>>
        /\ watching' = watching
    BY <1>5 DEF Reload, watchVars
  <2> QED  BY <1>1, <2>1, <2>2, BeginContent
<1>6. CASE WatcherRebuild
  <2>1. Begin("watcher", Scope(batch)) /\ "watcher" \in Builders
    BY <1>6 DEF WatcherRebuild, Builders
  <2>2. /\ UNCHANGED <<edits, disk, snap, made, events, batch, failed, dropped, blind>>
        /\ watching' = watching
    BY <1>6 DEF WatcherRebuild
  <2>3. Scope(batch) \in SUBSET Parts /\ ("schema" \in Scope(batch) => Scope(batch) = Parts)
    BY <1>0, ScopeType DEF TypeOK
  <2>4. \A q \in Parts : Due(q) => Due(q)' \/ q \in Scope(batch)
    BY <2>2 DEF Due
  <2> QED  BY <1>1, <2>1, <2>2, <2>3, <2>4, BeginContent
<1>7. CASE \E b \in Builders : BuildStep(b)
  <2>1. PICK b \in Builders : BuildStep(b)
    BY <1>7
  <2>2. CASE \E p \in Parts : Read(b, p) \/ ReadFails(b, p)
    BY <1>1, <2>2, ReadContent DEF Read, ReadFails
  <2>3. CASE BuildFails(b)
    BY <1>1, <2>3, FailContent DEF BuildFails
  <2>4. CASE Publish(b)
    BY <2>4, PublishContent
  <2> QED  BY <2>1, <2>2, <2>3, <2>4 DEF BuildStep
<1>8. CASE UNCHANGED vars
  BY <1>1, <1>8 DEF vars, watchVars, ContentInv, ReadInv, FreshInv, MadeInv, OrderInv,
                    Active, ReadBy, Due, Lost, LayersMatchSchema
<1> QED  BY <1>2, <1>3, <1>4, <1>5, <1>6, <1>7, <1>8 DEF Next

LEMMA ContentCorrect == Spec => []ContentInv
<1>1. Spec => [](BuildInv /\ ContentInv)
  BY BuildInit, ContentInit, BuildStepInv, ContentStep, PTL DEF Spec
<1> QED  BY <1>1, PTL

(* Once the watcher has worked off its events the snapshot holds what is   *)
(* on disk, except for the named losses.                                   *)
THEOREM IndexIsFresh == Spec => []FreshWhenQuiet
<1>1. ContentInv => FreshWhenQuiet
  BY DEF ContentInv, FreshInv, FreshWhenQuiet, Quiet, Due, Active
<1> QED  BY <1>1, ContentCorrect, PTL

(* Every layer whose last read succeeded was parsed with the published     *)
(* schema.                                                                 *)
THEOREM LayersAreConsistent == Spec => []LayersMatchSchema
<1>1. ContentInv => LayersMatchSchema
  BY DEF ContentInv, MadeInv
<1> QED  BY <1>1, ContentCorrect, PTL

(* No build puts back an older layer, schema or package content.           *)
THEOREM PartsAdvance == Spec => PartsNeverGoBack
<1>1. BuildInv /\ ContentInv /\ [Next]_vars => [\A p \in Parts \ {"resources"} : snap'[p] >= snap[p]]_vars
  BY ContentStep DEF Ordered
<1> QED  BY <1>1, BuildCorrect, ContentCorrect, PTL DEF Spec, PartsNeverGoBack
=============================================================================
