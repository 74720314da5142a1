------------------------- MODULE CoordinatorProofs -------------------------
(***************************************************************************)
(* Proofs about Coordinator, for every finite set of calls and every set   *)
(* of waiting requests.                                                    *)
(***************************************************************************)
EXTENDS Coordinator, FiniteSetTheorems, TLAPS

(* The calls counted in active_rebuilds when their positions are p.        *)
CountedIn(p) == {c \in Calls : p[c] \in Counted}

(* Whoever is between acquiring and releasing build_guard holds it.        *)
GuardInv == \A c \in Calls : pc[c] \in Holding <=> guard = c

(* active_rebuilds is the number of calls between increment and decrement. *)
CountInv == active = Cardinality(CountedIn(pc))

(* What a call's step may do to its position, the guard and the count: it  *)
(* moves from one position to another, taking and releasing exactly what   *)
(* the two positions say it holds.                                         *)
GuardMoves(c, to) ==
  \/ (pc[c] \in Holding <=> to \in Holding) /\ guard' = guard
  \/ pc[c] \notin Holding /\ to \in Holding /\ guard = None /\ guard' = c
  \/ pc[c] \in Holding /\ to \notin Holding /\ guard' = None

CountMoves(c, to) ==
  \/ (pc[c] \in Counted <=> to \in Counted) /\ active' = active
  \/ pc[c] \notin Counted /\ to \in Counted /\ active' = active + 1
  \/ pc[c] \in Counted /\ to \notin Counted /\ active' = active - 1

Moves(c, to) ==
  /\ pc' = [pc EXCEPT ![c] = to]
  /\ GuardMoves(c, to)
  /\ CountMoves(c, to)

(* Moving one call changes the number counted by what its positions say.   *)
LEMMA CountOfMove ==
  ASSUME NEW p \in [Calls -> PCs], NEW c \in Calls, NEW to \in PCs
  PROVE  LET q == [p EXCEPT ![c] = to]
         IN  /\ Cardinality(CountedIn(p)) \in Nat
             /\ p[c] \in Counted => Cardinality(CountedIn(p)) > 0
             /\ (p[c] \in Counted <=> to \in Counted) => CountedIn(q) = CountedIn(p)
             /\ p[c] \notin Counted /\ to \in Counted =>
                  Cardinality(CountedIn(q)) = Cardinality(CountedIn(p)) + 1
             /\ p[c] \in Counted /\ to \notin Counted =>
                  Cardinality(CountedIn(q)) = Cardinality(CountedIn(p)) - 1
<1> DEFINE q == [p EXCEPT ![c] = to]
<1>1. IsFiniteSet(CountedIn(p))
  <2>1. CountedIn(p) \in SUBSET Calls
    BY DEF CountedIn
  <2> QED  BY <2>1, CallsAssumption, FS_Subset
<1>2. Cardinality(CountedIn(p)) \in Nat
  BY <1>1, FS_CardinalityType
<1>3. p[c] \in Counted => Cardinality(CountedIn(p)) > 0
  <2>1. p[c] \in Counted => CountedIn(p) # {}
    BY DEF CountedIn
  <2> QED  BY <2>1, <1>1, <1>2, FS_EmptySet
<1>4. (p[c] \in Counted <=> to \in Counted) => CountedIn(q) = CountedIn(p)
  BY DEF CountedIn
<1>5. ASSUME p[c] \notin Counted, to \in Counted
      PROVE  Cardinality(CountedIn(q)) = Cardinality(CountedIn(p)) + 1
  <2>1. CountedIn(q) = CountedIn(p) \cup {c} /\ c \notin CountedIn(p)
    BY <1>5 DEF CountedIn
  <2> QED  BY <2>1, <1>1, FS_AddElement
<1>6. ASSUME p[c] \in Counted, to \notin Counted
      PROVE  Cardinality(CountedIn(q)) = Cardinality(CountedIn(p)) - 1
  <2>1. CountedIn(q) = CountedIn(p) \ {c} /\ c \in CountedIn(p)
    BY <1>6 DEF CountedIn
  <2> QED  BY <2>1, <1>1, FS_RemoveElement
<1> QED  BY <1>2, <1>3, <1>4, <1>5, <1>6

-----------------------------------------------------------------------------
(* Types, the guard and the count are inductive together: a count that is  *)
(* a cardinality is what makes active - 1 a natural number.                *)

ControlInv == TypeOK /\ GuardInv /\ CountInv

LEMMA ControlInit == Init => ControlInv
<1> SUFFICES ASSUME Init PROVE ControlInv
  OBVIOUS
<1>1. TypeOK
  BY DEF Init, TypeOK, PCs, States
<1>2. GuardInv
  BY CallsAssumption DEF Init, GuardInv, Holding, Calls
<1>3. CountInv
  <2>1. CountedIn(pc) = {}
    BY DEF Init, CountedIn, Counted, InRebuild, Holding
  <2> QED  BY <2>1, FS_EmptySet DEF Init, CountInv
<1> QED  BY <1>1, <1>2, <1>3 DEF ControlInv

LEMMA MovePreserves ==
  ASSUME ControlInv, NEW c \in Calls, NEW to \in PCs, Moves(c, to)
  PROVE  /\ pc' \in [Calls -> PCs]
         /\ guard' \in Calls \cup {None}
         /\ active' \in Nat
         /\ GuardInv'
         /\ CountInv'
<1> USE DEF ControlInv, Moves
<1>1. pc' \in [Calls -> PCs]
  BY DEF TypeOK
<1>2. guard' \in Calls \cup {None}
  BY DEF TypeOK, GuardMoves
<1>3. GuardInv'
  BY CallsAssumption DEF TypeOK, GuardInv, GuardMoves
<1>4. active' \in Nat /\ CountInv'
  <2>1. pc \in [Calls -> PCs] /\ active \in Nat /\ active = Cardinality(CountedIn(pc))
    BY DEF TypeOK, CountInv
  <2> DEFINE q == [pc EXCEPT ![c] = to]
  <2>2. /\ Cardinality(CountedIn(pc)) \in Nat
        /\ pc[c] \in Counted => Cardinality(CountedIn(pc)) > 0
        /\ (pc[c] \in Counted <=> to \in Counted) => CountedIn(q) = CountedIn(pc)
        /\ pc[c] \notin Counted /\ to \in Counted =>
             Cardinality(CountedIn(q)) = Cardinality(CountedIn(pc)) + 1
        /\ pc[c] \in Counted /\ to \notin Counted =>
             Cardinality(CountedIn(q)) = Cardinality(CountedIn(pc)) - 1
    BY <2>1, CountOfMove
  <2>3. pc' = q /\ CountMoves(c, to)
    OBVIOUS
  <2> HIDE DEF q, ControlInv, Moves
  <2> QED  BY <2>1, <2>2, <2>3 DEF CountInv, CountMoves
<1> QED  BY <1>1, <1>2, <1>3, <1>4

(* Every step of a call is such a move, or leaves positions alone.         *)
LEMMA StepMoves ==
  ASSUME ControlInv, NEW c \in Calls, Enter(c) \/ Step(c) \/ Cancel(c)
  PROVE  \E to \in PCs : Moves(c, to)
<1> USE DEF ControlInv, TypeOK, Goto, Moves, GuardMoves, CountMoves,
            Counted, InRebuild, Holding, Returned, PCs
<1>1. CASE Enter(c)
  <2>1. Moves(c, "refused") \/ Moves(c, "entering")
    BY <1>1 DEF Enter
  <2> QED  BY <2>1
<1>2. CASE Count(c)
  BY <1>2 DEF Count
<1>3. CASE Recheck(c)
  <2>1. Moves(c, "unwinding") \/ Moves(c, "queued")
    BY <1>3 DEF Recheck
  <2> QED  BY <2>1
<1>4. CASE Unwind(c)
  BY <1>4 DEF Unwind
<1>5. CASE Lock(c)
  <2>1. Moves(c, "release") \/ Moves(c, "creating") \/ Moves(c, "building")
    BY <1>5 DEF Lock, LockWithoutGuard
  <2> QED  BY <2>1
<1>6. CASE ProgressCreated(c)
  BY <1>6 DEF ProgressCreated
<1>7. CASE BuildEnds(c)
  BY <1>7 DEF BuildEnds, BuildFails, BuildNumbers, Assemble
<1>8. CASE GiveUp(c) \/ Store(c) \/ Announce(c) \/ Fail(c) \/ Report(c)
  BY <1>8 DEF GiveUp, Store, Announce, Fail, Report
<1>9. CASE Release(c)
  BY <1>9 DEF Release
<1>10. CASE Drop(c)
  <2>1. Moves(c, "waking") \/ Moves(c, "done")
    BY <1>10 DEF Drop
  <2> QED  BY <2>1
<1>11. CASE Wake(c)
  BY <1>11 DEF Wake
<1>12. CASE Cancel(c)
  <2>1. Moves(c, "dropping") \/ Moves(c, "release")
    BY <1>12 DEF Cancel, Awaits
  <2> QED  BY <2>1
<1> QED
  BY <1>1, <1>2, <1>3, <1>4, <1>5, <1>6, <1>7, <1>8, <1>9, <1>10, <1>11, <1>12
  DEF Step

LEMMA SendReplaceTypes ==
  ASSUME NEW tag \in {"Idle", "Building", "Ready", "Failed"}, NEW gen \in Nat,
         SendReplace(tag, gen)
  PROVE  state' \in States /\ unseen' \in [Waiters -> BOOLEAN]
<1>1. state' \in States
  BY DEF SendReplace, States
<1>2. unseen' \in [Waiters -> BOOLEAN]
  BY Zenon DEF SendReplace
<1> QED  BY <1>1, <1>2

(* The rest of the types, action by action.                                *)
LEMMA CallTypes ==
  ASSUME ControlInv, NEW c \in Calls,
         Enter(c) \/ Step(c) \/ Cancel(c),
         pc' \in [Calls -> PCs], guard' \in Calls \cup {None}, active' \in Nat
  PROVE  TypeOK'
<1> USE DEF ControlInv, TypeOK
<1>1. CASE Enter(c) \/ Count(c) \/ Recheck(c) \/ Cancel(c)
  BY <1>1 DEF Enter, Count, Recheck, Cancel, pubVars, watcherVars, stopVars
<1>2. CASE Unwind(c) \/ Wake(c)
  BY <1>2, ZenonT(40) DEF Unwind, Wake, NotifyWaiters, pubVars, watcherVars
<1>3. CASE Lock(c)
  <2>1. state' \in States /\ unseen' \in [Waiters -> BOOLEAN]
    BY <1>3, SendReplaceTypes DEF Lock, LockWithoutGuard
  <2> QED  BY <1>3, <2>1 DEF Lock, LockWithoutGuard, watcherVars, stopVars
<1>4. CASE ProgressCreated(c) \/ GiveUp(c) \/ Release(c) \/ Drop(c) \/ Assemble(c)
  BY <1>4 DEF ProgressCreated, GiveUp, Release, Drop, Assemble, pubVars, watcherVars, stopVars
<1>5. CASE BuildFails(c) \/ BuildNumbers(c)
  BY <1>5 DEF BuildFails, BuildNumbers, pubVars, watcherVars, stopVars
<1>6. CASE Store(c)
  BY <1>6 DEF Store, watcherVars, stopVars
<1>7. CASE Announce(c) \/ Fail(c)
  <2>1. state' \in States /\ unseen' \in [Waiters -> BOOLEAN]
    BY <1>7, SendReplaceTypes DEF Announce, Fail
  <2> QED  BY <1>7, <2>1 DEF Announce, Fail, watcherVars, stopVars
<1>8. CASE Report(c)
  BY <1>8 DEF Report, pubVars, watcherVars, stopVars
<1> QED
  BY <1>1, <1>2, <1>3, <1>4, <1>5, <1>6, <1>7, <1>8 DEF Step, BuildEnds

(* Every other step leaves positions, guard and count alone.               *)
LEMMA OtherSteps ==
  ASSUME ControlInv,
         \/ \E c \in Calls : CleanUp(c) \/ CleanUpWarns(c)
         \/ CheckReady \/ LockWatcher \/ SpawnTask \/ StoreTask \/ AwaitAbort \/ TaskEnds
         \/ SetStopping \/ ShutdownStep
         \/ \E w \in Waiters : LoadSnapshot(w) \/ WaitStep(w)
         \/ UNCHANGED vars
  PROVE  TypeOK' /\ UNCHANGED <<pc, guard, active, result, generation, snapshot>>
<1> USE DEF ControlInv, TypeOK
<1> DEFINE Goal == TypeOK' /\ UNCHANGED <<pc, guard, active, result, generation, snapshot>>
<1>1. ASSUME NEW c \in Calls, CleanUp(c) \/ CleanUpWarns(c) PROVE Goal
  <2>1. gc' \in [Calls -> {"none", "running", "warning"}]
    BY <1>1 DEF CleanUp, CleanUpWarns
  <2> QED  BY <1>1, <2>1 DEF CleanUp, CleanUpWarns, pubVars, watcherVars, stopVars
<1>2. CASE CheckReady
  BY <1>2 DEF CheckReady, callVars, pubVars, stopVars
<1>3. CASE LockWatcher
  BY <1>3 DEF LockWatcher, callVars, pubVars, stopVars
<1>4. CASE SpawnTask
  BY <1>4 DEF SpawnTask, callVars, pubVars, stopVars
<1>5. CASE StoreTask
  BY <1>5 DEF StoreTask, callVars, pubVars, stopVars
<1>6. CASE AwaitAbort \/ TaskEnds
  BY <1>6 DEF AwaitAbort, TaskEnds, callVars, pubVars, stopVars
<1>7. CASE SetStopping
  BY <1>7 DEF SetStopping, callVars, pubVars, watcherVars
<1>8. CASE TakeTask
  BY <1>8 DEF TakeTask, callVars, pubVars
<1>9. CASE AwaitTask \/ Drain \/ Arm \/ RecheckDrain \/ Awake
  BY <1>9, ZenonT(40) DEF AwaitTask, Drain, Arm, RecheckDrain, Awake, callVars, pubVars, watcherVars
<1>10. ASSUME NEW w \in Waiters, LoadSnapshot(w) \/ WaitStep(w) PROVE Goal
  <2>1. /\ wpc' \in [Waiters -> {"idle", "slow", "look", "wait", "answered", "failed"}]
        /\ unseen' \in [Waiters -> BOOLEAN]
    BY <1>10 DEF LoadSnapshot, WaitStep, Subscribe, Look, Changed, WaitGoto, pubVars
  <2>2. UNCHANGED <<callVars, state, snapshot, watcherVars, stopVars>>
    BY <1>10 DEF LoadSnapshot, WaitStep, Subscribe, Look, Changed, pubVars
  <2> QED  BY <2>1, <2>2 DEF callVars, watcherVars, stopVars
<1>11. CASE UNCHANGED vars
  BY <1>11 DEF vars, callVars, pubVars, watcherVars, stopVars
<1> QED
  BY <1>1, <1>2, <1>3, <1>4, <1>5, <1>6, <1>7, <1>8, <1>9, <1>10, <1>11
  DEF ShutdownStep

LEMMA ControlStep == ControlInv /\ [Next]_vars => ControlInv'
<1> SUFFICES ASSUME ControlInv, [Next]_vars PROVE ControlInv'
  OBVIOUS
<1>1. ASSUME NEW c \in Calls, Enter(c) \/ Step(c) \/ Cancel(c)
      PROVE  ControlInv'
  <2>1. PICK to \in PCs : Moves(c, to)
    BY <1>1, StepMoves
  <2>2. /\ pc' \in [Calls -> PCs]
        /\ guard' \in Calls \cup {None}
        /\ active' \in Nat
        /\ GuardInv'
        /\ CountInv'
    BY <2>1, MovePreserves
  <2>3. TypeOK'
    BY <1>1, <2>2, CallTypes
  <2> QED  BY <2>2, <2>3 DEF ControlInv
<1>2. CASE
         \/ \E c \in Calls : CleanUp(c) \/ CleanUpWarns(c)
         \/ CheckReady \/ LockWatcher \/ SpawnTask \/ StoreTask \/ AwaitAbort \/ TaskEnds
         \/ SetStopping \/ ShutdownStep
         \/ \E w \in Waiters : LoadSnapshot(w) \/ WaitStep(w)
         \/ UNCHANGED vars
  <2>1. TypeOK' /\ UNCHANGED <<pc, guard, active>>
    BY <1>2, OtherSteps
  <2> QED  BY <2>1 DEF ControlInv, GuardInv, CountInv
<1> QED  BY <1>1, <1>2 DEF Next

LEMMA ControlCorrect == Spec => []ControlInv
  BY ControlInit, ControlStep, PTL DEF Spec

(* Every variable keeps its type; in particular active_rebuilds never goes *)
(* below zero, whatever is cancelled, refused or aborted.                  *)
THEOREM TypeCorrect == Spec => []TypeOK
  BY ControlCorrect, PTL DEF ControlInv

(* Builds are serialized by build_guard, for any number of calls.          *)
THEOREM MutualExclusion == Spec => []OneBuildAtATime
<1>1. ControlInv => OneBuildAtATime
  BY DEF ControlInv, GuardInv, OneBuildAtATime
<1> QED  BY <1>1, ControlCorrect, PTL

-----------------------------------------------------------------------------
(* Shutdown waits for every rebuild.                                       *)

ShutdownInv ==
  /\ stopping <=> sh # "running"
  /\ QuiescentAfterShutdown

(* A call moves in two ways only that matter to shutdown: into InRebuild   *)
(* when it is not stopping, or from one place there to another.            *)
LEMMA CallsEnterRunning ==
  ASSUME ControlInv, NEW c \in Calls, Enter(c) \/ Step(c) \/ Cancel(c)
  PROVE  /\ UNCHANGED <<stopping, sh>>
         /\ \A d \in Calls : pc'[d] \in InRebuild => pc[d] \in InRebuild \/ ~stopping
<1> USE DEF ControlInv, TypeOK, Goto, InRebuild, Holding
<1>1. CASE Enter(c)
  BY <1>1 DEF Enter, stopVars
<1>2. CASE Count(c) \/ Recheck(c)
  BY <1>2 DEF Count, Recheck, stopVars
<1>3. CASE Unwind(c) \/ Wake(c)
  BY <1>3 DEF Unwind, Wake
<1>4. CASE Lock(c)
  BY <1>4 DEF Lock, LockWithoutGuard, stopVars
<1>5. CASE ProgressCreated(c) \/ BuildEnds(c)
  BY <1>5 DEF ProgressCreated, BuildEnds, BuildFails, BuildNumbers, Assemble, stopVars
<1>6. CASE GiveUp(c) \/ Store(c) \/ Announce(c) \/ Fail(c) \/ Report(c)
  BY <1>6 DEF GiveUp, Store, Announce, Fail, Report, stopVars
<1>7. CASE Release(c) \/ Drop(c)
  BY <1>7 DEF Release, Drop, stopVars
<1>8. CASE Cancel(c)
  BY <1>8 DEF Cancel, Awaits, stopVars
<1> QED  BY <1>1, <1>2, <1>3, <1>4, <1>5, <1>6, <1>7, <1>8 DEF Step

LEMMA ZeroMeansNone ==
  ASSUME ControlInv, active = 0
  PROVE  \A c \in Calls : pc[c] \notin InRebuild
<1>1. CountedIn(pc) = {}
  <2>1. IsFiniteSet(CountedIn(pc))
    <3>1. CountedIn(pc) \in SUBSET Calls
      BY DEF CountedIn
    <3> QED  BY <3>1, CallsAssumption, FS_Subset
  <2>2. Cardinality(CountedIn(pc)) = 0
    BY DEF ControlInv, CountInv
  <2> QED  BY <2>1, <2>2, FS_EmptySet
<1> QED  BY <1>1 DEF CountedIn, Counted

LEMMA ShutdownStepInv == ControlInv /\ ShutdownInv /\ [Next]_vars => ShutdownInv'
<1> SUFFICES ASSUME ControlInv, ShutdownInv, [Next]_vars PROVE ShutdownInv'
  OBVIOUS
<1>1. ASSUME NEW c \in Calls, Enter(c) \/ Step(c) \/ Cancel(c)
      PROVE  ShutdownInv'
  <2>1. /\ UNCHANGED <<stopping, sh>>
        /\ \A d \in Calls : pc'[d] \in InRebuild => pc[d] \in InRebuild \/ ~stopping
    BY <1>1, CallsEnterRunning
  <2> QED  BY <2>1 DEF ShutdownInv, QuiescentAfterShutdown
<1>2. ASSUME UNCHANGED <<pc, stopping, sh>>
      PROVE  ShutdownInv'
  BY <1>2 DEF ShutdownInv, QuiescentAfterShutdown
<1>3. CASE \E c \in Calls : CleanUp(c) \/ CleanUpWarns(c)
  BY <1>3, <1>2 DEF CleanUp, CleanUpWarns, stopVars
<1>4. CASE CheckReady \/ LockWatcher \/ SpawnTask \/ StoreTask \/ AwaitAbort \/ TaskEnds
  BY <1>4, <1>2 DEF CheckReady, LockWatcher, SpawnTask, StoreTask, AwaitAbort, TaskEnds,
                    callVars, stopVars
<1>5. CASE SetStopping \/ TakeTask \/ AwaitTask \/ Arm \/ Awake
  BY <1>5 DEF SetStopping, TakeTask, AwaitTask, Arm, Awake, ShutdownInv,
              QuiescentAfterShutdown
<1>6. CASE Drain \/ RecheckDrain
  BY <1>6, ZeroMeansNone DEF Drain, RecheckDrain, ShutdownInv, QuiescentAfterShutdown, callVars
<1>7. CASE \E w \in Waiters : LoadSnapshot(w) \/ WaitStep(w)
  BY <1>7, <1>2 DEF LoadSnapshot, WaitStep, Subscribe, Look, Changed, callVars, stopVars
<1>8. CASE UNCHANGED vars
  BY <1>8, <1>2 DEF vars, callVars, stopVars
<1> QED
  BY <1>1, <1>3, <1>4, <1>5, <1>6, <1>7, <1>8 DEF Next, ShutdownStep

LEMMA ShutdownCorrect == Spec => []ShutdownInv
<1>1. Init => ShutdownInv
  BY DEF Init, ShutdownInv, QuiescentAfterShutdown
<1> QED  BY <1>1, ShutdownStepInv, ControlCorrect, PTL DEF Spec

(* When shutdown has returned no rebuild is in flight, however many calls  *)
(* raced it: begin_rebuild's second test and the count close the window.   *)
THEOREM ShutdownIsQuiescent == Spec => []QuiescentAfterShutdown
  BY ShutdownCorrect, PTL DEF ShutdownInv

-----------------------------------------------------------------------------
(* Publication.                                                            *)

Pending == {"creating", "building", "assembling", "built", "stored"}

PublicationInv ==
  /\ snapshot <= generation
  /\ \A c \in Calls : result[c] <= generation
  /\ \A c \in Calls :
       pc[c] \in {"assembling", "built"} /\ result[c] # 0 => result[c] > snapshot
  /\ \A c \in Calls : pc[c] = "stored" => result[c] = snapshot /\ snapshot # 0
  /\ \A c \in Calls : pc[c] \in Pending => state.tag = "Building"
  /\ ReadyNamesSnapshot

LEMMA PublicationCall ==
  ASSUME ControlInv, PublicationInv, NEW c \in Calls, Enter(c) \/ Step(c) \/ Cancel(c)
  PROVE  PublicationInv' /\ (snapshot' # snapshot => snapshot' > snapshot)
<1> USE DEF ControlInv, TypeOK, PublicationInv, ReadyNamesSnapshot, Goto, Pending
<1>g. \A d \in Calls : pc[c] \in Holding /\ pc[d] \in Holding => c = d
  BY DEF GuardInv
<1>1. CASE Enter(c)
  BY <1>1 DEF Enter, pubVars
<1>2. CASE Count(c) \/ Recheck(c)
  BY <1>2 DEF Count, Recheck, pubVars
<1>3. CASE Unwind(c) \/ Wake(c)
  BY <1>3 DEF Unwind, Wake, pubVars
<1>4. CASE Lock(c)
  <2>1. \A d \in Calls : pc[d] \notin Holding
    BY <1>4, CallsAssumption DEF Lock, GuardInv
  <2> QED  BY <1>4, <2>1 DEF Lock, LockWithoutGuard, SendReplace, Holding
<1>5. CASE ProgressCreated(c) \/ BuildFails(c) \/ Assemble(c)
  BY <1>5 DEF ProgressCreated, BuildFails, Assemble, pubVars
<1>6. CASE BuildNumbers(c)
  BY <1>6 DEF BuildNumbers, pubVars
<1>7. CASE GiveUp(c) \/ Report(c) \/ Release(c) \/ Drop(c)
  BY <1>7 DEF GiveUp, Report, Release, Drop, pubVars
<1>8. CASE Store(c)
  BY <1>8, <1>g DEF Store, Holding
<1>9. CASE Announce(c)
  BY <1>9, <1>g DEF Announce, SendReplace, Holding
<1>10. CASE Fail(c)
  BY <1>10, <1>g DEF Fail, SendReplace, Holding
<1>11. CASE Cancel(c)
  BY <1>11 DEF Cancel, Awaits, pubVars
<1> QED
  BY <1>1, <1>2, <1>3, <1>4, <1>5, <1>6, <1>7, <1>8, <1>9, <1>10, <1>11
  DEF Step, BuildEnds

LEMMA PublicationOther ==
  ASSUME ControlInv, PublicationInv,
         UNCHANGED <<pc, result, generation, snapshot, state>>
  PROVE  PublicationInv' /\ (snapshot' # snapshot => snapshot' > snapshot)
  BY DEF PublicationInv, ReadyNamesSnapshot

LEMMA StateUnchanged ==
  ASSUME ControlInv,
         \/ \E c \in Calls : CleanUp(c) \/ CleanUpWarns(c)
         \/ CheckReady \/ LockWatcher \/ SpawnTask \/ StoreTask \/ AwaitAbort \/ TaskEnds
         \/ SetStopping \/ ShutdownStep
         \/ \E w \in Waiters : LoadSnapshot(w) \/ WaitStep(w)
         \/ UNCHANGED vars
  PROVE  UNCHANGED <<pc, result, generation, snapshot, state>>
<1>1. UNCHANGED <<pc, result, generation, snapshot>>
  BY OtherSteps
<1>2. UNCHANGED state
  BY DEF CleanUp, CleanUpWarns, CheckReady, LockWatcher, SpawnTask, StoreTask, AwaitAbort,
         TaskEnds, SetStopping, ShutdownStep, TakeTask, AwaitTask, Drain, Arm,
         RecheckDrain, Awake, LoadSnapshot, WaitStep, Subscribe, Look, Changed,
         vars, pubVars
<1> QED  BY <1>1, <1>2

LEMMA PublicationStep ==
  ControlInv /\ PublicationInv /\ [Next]_vars =>
    PublicationInv' /\ (snapshot' # snapshot => snapshot' > snapshot)
<1> SUFFICES ASSUME ControlInv, PublicationInv, [Next]_vars
             PROVE  PublicationInv' /\ (snapshot' # snapshot => snapshot' > snapshot)
  OBVIOUS
<1>1. ASSUME NEW c \in Calls, Enter(c) \/ Step(c) \/ Cancel(c)
      PROVE  PublicationInv' /\ (snapshot' # snapshot => snapshot' > snapshot)
  BY <1>1, PublicationCall
<1>2. CASE
         \/ \E c \in Calls : CleanUp(c) \/ CleanUpWarns(c)
         \/ CheckReady \/ LockWatcher \/ SpawnTask \/ StoreTask \/ AwaitAbort \/ TaskEnds
         \/ SetStopping \/ ShutdownStep
         \/ \E w \in Waiters : LoadSnapshot(w) \/ WaitStep(w)
         \/ UNCHANGED vars
  BY <1>2, StateUnchanged, PublicationOther
<1> QED  BY <1>1, <1>2 DEF Next

LEMMA PublicationCorrect == Spec => []PublicationInv
<1>1. Init => PublicationInv
  BY DEF Init, PublicationInv, ReadyNamesSnapshot, Pending
<1> QED  BY <1>1, PublicationStep, ControlCorrect, PTL DEF Spec

(* A subscriber that reads Ready always finds that generation published.   *)
THEOREM ReadyIsPublished == Spec => []ReadyNamesSnapshot
  BY PublicationCorrect, PTL DEF PublicationInv

(* No behaviour, with any number of failing, cancelled and refused builds, *)
(* takes a published index away or replaces it by an older one.            *)
THEOREM SnapshotsAdvance == Spec => SnapshotsOnlyAdvance
<1>1. ControlInv /\ PublicationInv /\ [Next]_vars =>
        [snapshot' # snapshot => snapshot' > snapshot]_vars
  BY PublicationStep
<1> QED  BY <1>1, ControlCorrect, PublicationCorrect, PTL DEF Spec, SnapshotsOnlyAdvance

-----------------------------------------------------------------------------
(* The coordinator implements IndexPublication.                            *)

StoredNow == \E c \in Calls : pc[c] = "stored"
Status == IF StoredNow THEN "Stored" ELSE state.tag

(* A step that stores or leaves "stored" only for one call, or neither.    *)
LEMMA OneStored ==
  ASSUME ControlInv, NEW c \in Calls, pc[c] \in Holding, pc[c] # "stored"
  PROVE  ~StoredNow
  BY DEF ControlInv, GuardInv, StoredNow, Holding

LEMMA RefinementCall ==
  ASSUME ControlInv, ShutdownInv, PublicationInv, NEW c \in Calls,
         Enter(c) \/ Step(c) \/ Cancel(c)
  PROVE  [Publication!Next]_(Publication!ivars)
<1> USE DEF ControlInv, TypeOK, Goto, Publication!ivars
<1>s. sh' = sh
  BY CallsEnterRunning
<1>o. pc[c] \in InRebuild => sh # "done"
  BY DEF ShutdownInv, QuiescentAfterShutdown
<1>q. ASSUME UNCHANGED <<state, snapshot, sh>>,
             \A d \in Calls : pc'[d] = "stored" <=> pc[d] = "stored"
      PROVE  UNCHANGED Publication!ivars
  BY <1>q
<1>1. CASE Enter(c) \/ Count(c) \/ Recheck(c)
  BY <1>1, <1>q, <1>s DEF Enter, Count, Recheck, pubVars
<1>2. CASE Unwind(c) \/ Wake(c) \/ ProgressCreated(c) \/ GiveUp(c) \/ Report(c)
  BY <1>2, <1>q, <1>s DEF Unwind, Wake, ProgressCreated, GiveUp, Report, pubVars
<1>3. CASE BuildEnds(c) \/ Release(c) \/ Drop(c) \/ Cancel(c)
  BY <1>3, <1>q, <1>s DEF BuildEnds, BuildFails, BuildNumbers, Assemble, Release, Drop,
                          Cancel, Awaits, pubVars
<1>4. CASE Lock(c)
  <2>1. ~StoredNow
    BY <1>4, CallsAssumption DEF Lock, GuardInv, StoredNow, Holding
  <2>2. CASE stopping
    BY <1>4, <2>2, <1>q, <1>s DEF Lock, LockWithoutGuard
  <2>3. CASE ~stopping
    <3>1. state'.tag = "Building" /\ snapshot' = snapshot /\ ~StoredNow'
      BY <1>4, <2>1, <2>3 DEF Lock, LockWithoutGuard, SendReplace, StoredNow
    <3>2. sh # "done"
      BY <2>3 DEF ShutdownInv
    <3>3. state.tag # "Stored"
      BY DEF States
    <3> QED
      BY <1>s, <2>1, <3>1, <3>2, <3>3 DEF StoredNow, Publication!Next, Publication!Begin
  <2> QED  BY <2>2, <2>3
<1>5. CASE Store(c)
  <2>1. ~StoredNow /\ StoredNow'
    BY <1>5, OneStored DEF Store, StoredNow, Holding
  <2>2. state' = state /\ state.tag = "Building" /\ snapshot' \in Nat /\ snapshot' > snapshot
    BY <1>5 DEF Store, PublicationInv, Pending
  <2>3. sh # "done"
    BY <1>5, <1>o DEF Store, InRebuild, Holding
  <2> QED
    BY <1>s, <2>1, <2>2, <2>3 DEF StoredNow, Publication!Next, Publication!Publish
<1>6. CASE Announce(c)
  <2>1. StoredNow /\ ~StoredNow'
    BY <1>6 DEF Announce, GuardInv, StoredNow, Holding
  <2>2. state'.tag = "Ready" /\ snapshot' = snapshot
    BY <1>6 DEF Announce, SendReplace
  <2>3. sh # "done"
    BY <1>6, <1>o DEF Announce, InRebuild, Holding
  <2> QED
    BY <1>s, <2>1, <2>2, <2>3 DEF StoredNow, Publication!Next, Publication!Announce
<1>7. CASE Fail(c)
  <2>1. ~StoredNow /\ ~StoredNow'
    BY <1>7, OneStored DEF Fail, StoredNow, Holding
  <2>2. state.tag = "Building" /\ state'.tag = "Failed" /\ snapshot' = snapshot
    BY <1>7 DEF Fail, SendReplace, PublicationInv, Pending
  <2>3. sh # "done"
    BY <1>7, <1>o DEF Fail, InRebuild, Holding
  <2> QED
    BY <1>s, <2>1, <2>2, <2>3 DEF StoredNow, Publication!Next, Publication!Fail
<1> QED  BY <1>1, <1>2, <1>3, <1>4, <1>5, <1>6, <1>7 DEF Step

LEMMA RefinementOther ==
  ASSUME ControlInv, ShutdownInv,
         \/ \E c \in Calls : CleanUp(c) \/ CleanUpWarns(c)
         \/ CheckReady \/ LockWatcher \/ SpawnTask \/ StoreTask \/ AwaitAbort \/ TaskEnds
         \/ SetStopping \/ ShutdownStep
         \/ \E w \in Waiters : LoadSnapshot(w) \/ WaitStep(w)
         \/ UNCHANGED vars
  PROVE  [Publication!Next]_(Publication!ivars)
<1>1. UNCHANGED <<pc, snapshot, state>>
  BY StateUnchanged
<1>2. UNCHANGED sh \/ (sh # "done" /\ sh' # "done") \/ (sh # "done" /\ active = 0)
  BY DEF CleanUp, CleanUpWarns, CheckReady, LockWatcher, SpawnTask, StoreTask, AwaitAbort,
         TaskEnds, SetStopping, ShutdownStep, TakeTask, AwaitTask, Drain, Arm,
         RecheckDrain, Awake, LoadSnapshot, WaitStep, Subscribe, Look, Changed,
         vars, stopVars
<1>3. CASE UNCHANGED sh \/ (sh # "done" /\ sh' # "done")
  BY <1>1, <1>3 DEF Publication!ivars
<1>4. CASE sh # "done" /\ active = 0 /\ sh' = "done"
  <2>1. ~StoredNow
    BY <1>4, ZeroMeansNone DEF StoredNow, InRebuild, Holding
  <2>2. state.tag # "Stored"
    BY DEF ControlInv, TypeOK, States
  <2> QED
    BY <1>1, <1>4, <2>1, <2>2 DEF StoredNow, Publication!Next, Publication!Close
<1> QED  BY <1>2, <1>3, <1>4

(* What clients observe of the coordinator is an IndexPublication: a build *)
(* is published whole and before it is announced, generations only grow,   *)
(* and nothing is published or announced once shutdown has returned.       *)
THEOREM Implementation == Spec => ImplementsPublication
<1>1. Init => Publication!Init
  BY DEF Init, Publication!Init
<1>2. ControlInv /\ ShutdownInv /\ PublicationInv /\ [Next]_vars =>
        [Publication!Next]_(Publication!ivars)
  BY RefinementCall, RefinementOther DEF Next
<1> QED
  BY <1>1, <1>2, ControlCorrect, ShutdownCorrect, PublicationCorrect, PTL
  DEF Spec, ImplementsPublication, Publication!Spec

-----------------------------------------------------------------------------
(* The watcher task.                                                       *)

Starting == {"holding", "spawned", "aborting"}
Draining == {"draining", "arming", "armed", "parked", "done"}

(* The mutex is the starter's from before the task exists until the task   *)
(* is stored or has ended, so shutdown, which takes the mutex after it has *)
(* set stopping, finds every task that will ever exist.                    *)
WatcherInv ==
  /\ watcherLock = "starter" <=> starter \in Starting
  /\ starter \in {"rebuilding", "locking", "holding"} => task = "none" /\ ~stored
  /\ stored => starter = "done"
  /\ sh = "aborting" => starter = "done" /\ ~stored
  /\ task \in {"running", "aborting"} =>
       stored \/ starter \in {"spawned", "aborting"} \/ sh = "aborting"
  /\ sh \in Draining => /\ task \notin {"running", "aborting"}
                        /\ starter \notin Starting
                        /\ ~stored

LEMMA WatcherInvStep ==
  ControlInv /\ ShutdownInv /\ WatcherInv /\ [Next]_vars => WatcherInv'
<1> SUFFICES ASSUME ControlInv, ShutdownInv, WatcherInv, [Next]_vars PROVE WatcherInv'
  OBVIOUS
<1> USE DEF ControlInv, TypeOK, WatcherInv, Starting, Draining
<1>c. None # "starter"
  BY CallsAssumption
<1>n. ASSUME UNCHANGED <<watcherVars, sh>> PROVE WatcherInv'
  BY <1>n DEF watcherVars
<1>1. ASSUME NEW c \in Calls, Enter(c) \/ Step(c) \/ Cancel(c) PROVE WatcherInv'
  <2>1. UNCHANGED sh
    BY <1>1, CallsEnterRunning
  <2>2. UNCHANGED watcherVars
    BY <1>1 DEF Enter, Cancel, Step, Count, Recheck, Unwind, Lock, LockWithoutGuard,
                ProgressCreated, BuildEnds, BuildFails, BuildNumbers, Assemble, GiveUp,
                Store, Announce, Fail, Report, Release, Drop, Wake
  <2> QED  BY <2>1, <2>2, <1>n
<1>2. CASE \E c \in Calls : CleanUp(c) \/ CleanUpWarns(c)
  BY <1>2, <1>n DEF CleanUp, CleanUpWarns, stopVars
<1>3. CASE CheckReady
  BY <1>3 DEF CheckReady, stopVars
<1>4. CASE LockWatcher
  BY <1>4, <1>c DEF LockWatcher, stopVars, ShutdownInv
<1>5. CASE SpawnTask
  BY <1>5, <1>c DEF SpawnTask, stopVars
<1>6. CASE StoreTask
  BY <1>6, <1>c DEF StoreTask, stopVars, ShutdownInv
<1>7. CASE AwaitAbort \/ TaskEnds
  BY <1>7, <1>c DEF AwaitAbort, TaskEnds, stopVars
<1>8. CASE TakeTask
  BY <1>8, <1>c DEF TakeTask
<1>9. CASE SetStopping \/ AwaitTask \/ Drain \/ Arm \/ RecheckDrain \/ Awake
  BY <1>9 DEF SetStopping, AwaitTask, Drain, Arm, RecheckDrain, Awake, watcherVars
<1>10. CASE \E w \in Waiters : LoadSnapshot(w) \/ WaitStep(w)
  BY <1>10, <1>n DEF LoadSnapshot, WaitStep, Subscribe, Look, Changed, stopVars
<1>11. CASE UNCHANGED vars
  BY <1>11, <1>n DEF vars, stopVars
<1> QED
  BY <1>1, <1>2, <1>3, <1>4, <1>5, <1>6, <1>7, <1>8, <1>9, <1>10, <1>11
  DEF Next, ShutdownStep

(* However the start of the watcher races shutdown, no watcher task is     *)
(* left alive when shutdown has returned.                                  *)
THEOREM WatcherIsStopped == Spec => []NoWatcherAfterShutdown
<1>1. Init => WatcherInv
  BY CallsAssumption DEF Init, WatcherInv, Starting, Draining
<1>2. WatcherInv => NoWatcherAfterShutdown
  BY DEF WatcherInv, Draining, NoWatcherAfterShutdown
<1> QED  BY <1>1, <1>2, WatcherInvStep, ControlCorrect, ShutdownCorrect, PTL DEF Spec

(* The watcher is started only after a snapshot was seen, and none is ever *)
(* taken away.                                                             *)
PreviousInv ==
  /\ task # "none" => snapshot # 0
  /\ starter \in {"locking"} \cup Starting => snapshot # 0
  /\ \A c \in WatchCalls : pc[c] # "idle" => snapshot # 0

LEMMA PreviousStep ==
  ControlInv /\ PublicationInv /\ PreviousInv /\ [Next]_vars => PreviousInv'
<1> SUFFICES ASSUME ControlInv, PublicationInv, PreviousInv, [Next]_vars PROVE PreviousInv'
  OBVIOUS
<1> USE DEF PreviousInv, Starting
<1>s. snapshot # 0 => snapshot' # 0
  BY PublicationStep DEF ControlInv, TypeOK
<1>1. ASSUME NEW c \in Calls, Enter(c) \/ Step(c) \/ Cancel(c) PROVE PreviousInv'
  <2>1. UNCHANGED <<starter, task>>
    BY <1>1 DEF Enter, Cancel, Step, Count, Recheck, Unwind, Lock, LockWithoutGuard,
                ProgressCreated, BuildEnds, BuildFails, BuildNumbers, Assemble, GiveUp,
                Store, Announce, Fail, Report, Release, Drop, Wake, watcherVars
  <2>2. \A d \in Calls \ {c} : pc'[d] = pc[d]
    <3>1. PICK to \in PCs : Moves(c, to)
      BY <1>1, StepMoves
    <3> QED  BY <3>1 DEF Moves, ControlInv, TypeOK
  <2>3. pc[c] = "idle" => Enter(c)
    BY <1>1 DEF Cancel, Awaits, Step, Count, Recheck, Unwind, Lock, LockWithoutGuard,
                ProgressCreated, BuildEnds, BuildFails, BuildNumbers, Assemble, GiveUp,
                Store, Announce, Fail, Report, Release, Drop, Wake
  <2>4. pc[c] = "idle" /\ c \in WatchCalls => snapshot # 0
    BY <2>3 DEF Enter, MayCall
  <2> QED  BY <1>s, <2>1, <2>2, <2>4 DEF Calls
<1>2. CASE
         \/ \E c \in Calls : CleanUp(c) \/ CleanUpWarns(c)
         \/ CheckReady \/ LockWatcher \/ SpawnTask \/ StoreTask \/ AwaitAbort \/ TaskEnds
         \/ SetStopping \/ ShutdownStep
         \/ \E w \in Waiters : LoadSnapshot(w) \/ WaitStep(w)
         \/ UNCHANGED vars
  <2>1. UNCHANGED <<pc, snapshot>>
    BY <1>2, StateUnchanged
  <2>2. starter' \in {"locking"} \cup Starting =>
          starter \in {"locking"} \cup Starting \/ state.tag = "Ready"
    BY <1>2 DEF CleanUp, CleanUpWarns, CheckReady, LockWatcher, SpawnTask, StoreTask,
                AwaitAbort, TaskEnds, SetStopping, ShutdownStep, TakeTask, AwaitTask,
                Drain, Arm, RecheckDrain, Awake, LoadSnapshot, WaitStep, Subscribe, Look,
                Changed, vars, watcherVars
  <2>3. task' # "none" => task # "none" \/ starter \in Starting
    BY <1>2 DEF CleanUp, CleanUpWarns, CheckReady, LockWatcher, SpawnTask, StoreTask,
                AwaitAbort, TaskEnds, SetStopping, ShutdownStep, TakeTask, AwaitTask,
                Drain, Arm, RecheckDrain, Awake, LoadSnapshot, WaitStep, Subscribe, Look,
                Changed, vars, watcherVars
  <2> QED  BY <2>1, <2>2, <2>3 DEF PublicationInv, ReadyNamesSnapshot
<1> QED  BY <1>1, <1>2 DEF Next

(* A scoped rebuild never lacks the previous snapshot it reuses.           *)
THEOREM ScopedBuildsReuse == Spec => []ScopedBuildHasPrevious
<1>1. Init => PreviousInv
  BY DEF Init, PreviousInv, Starting, Calls
<1>2. PreviousInv => ScopedBuildHasPrevious
  BY DEF PreviousInv, ScopedBuildHasPrevious, Counted, InRebuild, Holding
<1> QED
  BY <1>1, <1>2, PreviousStep, ControlCorrect, PublicationCorrect, PTL DEF Spec
=============================================================================
