------------------------ MODULE PluginActivityProofs ------------------------
(***************************************************************************)
(* Proofs about PluginActivity for any number of plugins and threads.      *)
(***************************************************************************)
EXTENDS PluginActivity, FiniteSetTheorems, TLAPS

(* While the lease is held no activity claims a storage: registration and   *)
(* acquisition each test the other under the one mutex.                     *)
LeaseOrClaims == lease => \A p \in Plugins : ~UsesStorage(activities[p])

(* A plugin that works, or has been told it may, has an active entry, and   *)
(* nothing of a stopped runtime works.                                      *)
WorkIsClaimed == \A p \in Plugins :
  /\ working[p] \/ granted[p] => Active(activities[p])
  /\ working[p] => runtime[p] \notin {"stopping", "stopped"}

IInv == TypeOK /\ OneOwner /\ LeaseOrClaims /\ WorkIsClaimed

(* The initial state has no lease, no entry and no work. *)
LEMMA InitIInv == Init => IInv
<1> SUFFICES ASSUME Init PROVE IInv
  OBVIOUS
<1> USE DEF Init, NoActivity, NewScene, Active, UsesStorage
<1>1. TypeOK
  <2>1. NoActivity \in Activity /\ NewScene \in [id : Ids \cup {0}, storage : Storages]
    BY StorageAssumption, Zenon DEF Activity, States
  <2>2. activities \in [Plugins -> Activity] /\ scene \in [Plugins -> [id : Ids \cup {0}, storage : Storages]]
    <3> HIDE DEF NoActivity, NewScene
    <3> QED BY <2>1
  <2>3. depth \in [Threads -> 0..MaxDepth]
    BY BoundAssumption
  <2>4. granted \in [Plugins -> BOOLEAN] /\ working \in [Plugins -> BOOLEAN] /\ lease \in BOOLEAN
    OBVIOUS
  <2>5. runtime \in [Plugins -> {"running", "exited", "closed", "stopping", "stopped"}]
    OBVIOUS
  <2> QED
    BY <2>2, <2>3, <2>4, <2>5, Zenon DEF TypeOK
<1>2. OneOwner
  BY DEF OneOwner
<1>3. LeaseOrClaims /\ WorkIsClaimed
  BY Zenon DEF LeaseOrClaims, WorkIsClaimed
<1> QED
  BY <1>1, <1>2, <1>3, Zenon DEF IInv

(* The entry SetActivity builds is an entry. *)
LEMMA NextActivityType ==
  ASSUME NEW a \in Activity, NEW st \in States, NEW i \in Ids \cup {0}, NEW s \in Storages
  PROVE  NextActivity(a, st, i, s) \in Activity
<1>1. (Active(a) /\ st = "active" /\ a.cancelling) \in BOOLEAN
  BY Zenon DEF Active
<1>2. (IF a.state # "none" /\ a.id = i THEN a.file ELSE NoStorage) \in Storages
  BY StorageAssumption, Zenon DEF Activity
<1> QED
  BY <1>1, <1>2, Zenon DEF NextActivity, Activity

(* Every step of a plugin or of the UI thread on its behalf keeps IInv. *)
LEMMA PluginStepIInv ==
  ASSUME IInv, NEW p \in Plugins, PluginStep(p) \/ HostStep(p)
  PROVE  IInv'
<1> USE DEF IInv, TypeOK, OneOwner, LeaseOrClaims, WorkIsClaimed
<1>1. ASSUME NEW i \in Ids, NEW s \in Storages, SetActivityStorage(p, i, s) PROVE IInv'
  BY <1>1 DEF SetActivityStorage
<1>2. ASSUME NEW i \in Ids, NEW s \in Storages, SetActivityFile(p, i, s) PROVE IInv'
  <2> DEFINE next == [activities[p] EXCEPT !.file = s]
  <2>1. activities[p] \in Activity
    OBVIOUS
  <2>2. /\ next \in Activity
        /\ next.state = activities[p].state /\ next.storage = activities[p].storage
    BY <2>1, Zenon DEF Activity
  <2>3. /\ activities' = [activities EXCEPT ![p] = next]
        /\ UNCHANGED <<lease, depth, scene, runtime, granted, working>>
    BY <1>2, Zenon DEF SetActivityFile
  <2> HIDE DEF next
  <2> QED
    BY <2>2, <2>3, Zenon DEF UsesStorage, Active
<1>3. ASSUME NEW st \in States \ {"none"}, NEW valid \in BOOLEAN, SetActivity(p, st, valid) PROVE IInv'
  <2> DEFINE next == NextActivity(activities[p], st, scene[p].id, scene[p].storage)
  <2>1. next \in Activity /\ next.state = st
    BY NextActivityType, Zenon DEF NextActivity
  <2>2. UNCHANGED <<lease, depth, scene, runtime, working>>
    BY <1>3, Zenon DEF SetActivity
  <2>3. \/ UNCHANGED <<activities, granted>>
        \/ /\ activities' = [activities EXCEPT ![p] = next]
           /\ ~(UsesStorage(next) /\ lease)
           /\ st # "active" => ~working[p] /\ ~granted[p]
           /\ \/ granted' = granted
              \/ granted' = [granted EXCEPT ![p] = (st = "active")]
    BY <1>3, Zenon DEF SetActivity, Room
  <2>4. CASE UNCHANGED <<activities, granted>>
    BY <2>2, <2>4, Zenon
  <2>5. CASE /\ activities' = [activities EXCEPT ![p] = next]
             /\ ~(UsesStorage(next) /\ lease)
             /\ st # "active" => ~working[p] /\ ~granted[p]
             /\ \/ granted' = granted
                \/ granted' = [granted EXCEPT ![p] = (st = "active")]
    <3> HIDE DEF next
    <3>1. activities' \in [Plugins -> Activity] /\ granted' \in [Plugins -> BOOLEAN]
      BY <2>1, <2>5, Zenon
    <3>2. LeaseOrClaims'
      BY <2>1, <2>2, <2>5, Zenon
    <3>3. WorkIsClaimed'
      BY <2>1, <2>2, <2>5, Zenon DEF Active
    <3> QED
      BY <2>2, <3>1, <3>2, <3>3, Zenon
  <2> QED
    BY <2>3, <2>4, <2>5, Zenon
<1>4. CASE CloseSession(p) \/ Exit(p)
  BY <1>4 DEF CloseSession, Exit
<1>5. CASE Cancel(p)
  <2> DEFINE next == [activities[p] EXCEPT !.cancelling = TRUE]
  <2>1. activities[p] \in Activity
    OBVIOUS
  <2>2. /\ next \in Activity
        /\ next.state = activities[p].state /\ next.storage = activities[p].storage
    BY <2>1, Zenon DEF Activity
  <2>3. /\ activities' = [activities EXCEPT ![p] = next]
        /\ UNCHANGED <<lease, depth, scene, runtime, granted, working>>
    BY <1>5, Zenon DEF Cancel
  <2> HIDE DEF next
  <2> QED
    BY <2>2, <2>3, Zenon DEF UsesStorage, Active
<1>6. CASE BeginWork(p)
  BY <1>6, Zenon DEF BeginWork
<1>7. CASE EndWork(p)
  BY <1>7, Zenon DEF EndWork
<1>8. CASE Launch(p)
  BY <1>8, StorageAssumption, Zenon DEF Launch, NewScene
<1>9. NoActivity \in Activity /\ ~Active(NoActivity)
  BY StorageAssumption, Zenon DEF NoActivity, Activity, States, Active
<1>10. CASE Dismiss(p)
  BY <1>9, <1>10, Zenon DEF Dismiss, UsesStorage, Active
<1>11. CASE StopProcess(p)
  BY <1>11, Zenon DEF StopProcess
<1>12. CASE RemoveActivity(p)
  BY <1>9, <1>12, Zenon DEF RemoveActivity, UsesStorage
<1> QED
  BY <1>1, <1>2, <1>3, <1>4, <1>5, <1>6, <1>7, <1>8, <1>10, <1>11, <1>12, Zenon
  DEF PluginStep, HostStep

(* Every acquisition and release of a lease keeps IInv. *)
LEMMA ThreadStepIInv ==
  ASSUME IInv, NEW t \in Threads, Acquire(t) \/ Release(t)
  PROVE  IInv'
<1> USE BoundAssumption DEF IInv, TypeOK, OneOwner, LeaseOrClaims, WorkIsClaimed
<1>1. CASE Acquire(t)
  <2>1. depth' \in [Threads -> 0..MaxDepth] /\ lease' = TRUE
    BY <1>1 DEF Acquire
  <2>2. LeaseOrClaims'
    BY <1>1, Zenon DEF Acquire, Acquirable, StorageBusyLocked
  <2>3. \A u \in Threads : depth[u] > 0 => u = t
    BY <1>1, Zenon DEF Acquire, Acquirable
  <2>4. OneOwner'
    BY <1>1, <2>1, <2>3 DEF Acquire
  <2>5. WorkIsClaimed' /\ UNCHANGED <<activities, scene, runtime, granted, working>>
    BY <1>1, Zenon DEF Acquire, Active
  <2>6. TypeOK'
    BY <2>1, <2>5, Zenon
  <2> QED
    BY <2>2, <2>4, <2>5, <2>6, Zenon
<1>2. CASE Release(t)
  <2>1. depth' \in [Threads -> 0..MaxDepth] /\ lease' = (depth[t] > 1) /\ lease
    BY <1>2 DEF Release, FreeOutermost
  <2>2. \A u \in Threads : u # t => depth[u] = 0 /\ depth'[u] = 0
    BY <1>2 DEF Release
  <2>3. depth'[t] > 0 <=> depth[t] > 1
    BY <1>2 DEF Release
  <2>4. OneOwner'
    <3>1. \A u, v \in Threads : depth'[u] > 0 /\ depth'[v] > 0 => u = v
      BY <2>2
    <3>2. lease' <=> depth'[t] > 0
      BY <2>1, <2>3, Zenon
    <3>3. (\E u \in Threads : depth'[u] > 0) <=> depth'[t] > 0
      BY <2>2
    <3> QED
      BY <3>1, <3>2, <3>3, Zenon
  <2>5. (LeaseOrClaims /\ WorkIsClaimed)' /\ UNCHANGED <<activities, scene, runtime, granted, working>>
    BY <1>2, <2>1, Zenon DEF Release, Active, UsesStorage
  <2>6. lease' \in BOOLEAN
    BY <2>1
  <2>7. TypeOK'
    BY <2>1, <2>5, <2>6, Zenon
  <2> QED
    BY <2>4, <2>5, <2>7, Zenon
<1> QED
  BY <1>1, <1>2, Zenon

(* Every step of a plugin, the host or a worker thread keeps the invariant. *)
LEMMA NextIInv == IInv /\ [Next]_vars => IInv'
<1> SUFFICES ASSUME IInv, [Next]_vars PROVE IInv'
  OBVIOUS
<1>1. CASE UNCHANGED vars
  BY <1>1, Zenon DEF vars, IInv, TypeOK, OneOwner, LeaseOrClaims, WorkIsClaimed
<1>2. CASE Next
  BY <1>2, PluginStepIInv, ThreadStepIInv, Zenon DEF Next
<1> QED
  BY <1>1, <1>2, Zenon

(* The inductive invariant holds in every reachable state of activity.cpp   *)
(* and its callers.                                                         *)
THEOREM Invariant == Spec => []IInv
<1> QED
  BY InitIInv, NextIInv, PTL DEF Spec

(* The variables keep their types in every behaviour of the registry and    *)
(* the lease.                                                               *)
THEOREM TypeCorrect == Spec => []TypeOK
<1>1. IInv => TypeOK
  BY Zenon DEF IInv
<1> QED
  BY <1>1, Invariant, PTL

(* At most one thread owns the lease and gStorageLease says whether one     *)
(* does, however deeply leases are nested.                                  *)
THEOREM SingleOwner == Spec => []OneOwner
<1>1. IInv => OneOwner
  BY Zenon DEF IInv
<1> QED
  BY <1>1, Invariant, PTL

(* No plugin works on a mounted storage while a recovery operation holds    *)
(* the lease, for any number of plugins and threads.                        *)
THEOREM StorageIsExclusive == Spec => []ExclusiveStorage
<1>1. IInv => ExclusiveStorage
  BY Zenon DEF IInv, ExclusiveStorage, LeaseOrClaims, WorkIsClaimed, UsesStorage
<1> QED
  BY <1>1, Invariant, PTL

(* Whatever works on files has an active entry. *)
THEOREM WorkShown == Spec => []WorkIsShown
<1>1. IInv => WorkIsShown
  BY Zenon DEF IInv, WorkIsShown, WorkIsClaimed
<1> QED
  BY <1>1, Invariant, PTL
-----------------------------------------------------------------------------
(* A step changes the entry of one plugin at most, and an active entry      *)
(* keeps its id and storage.                                                *)
LEMMA StepKeepsClaim == IInv /\ [Next]_vars => [ClaimKept]_vars
<1> SUFFICES ASSUME IInv, Next PROVE ClaimKept
  OBVIOUS
<1> USE DEF ClaimKept
<1>1. activities \in [Plugins -> Activity]
  BY Zenon DEF IInv, TypeOK
<1>2. CASE UNCHANGED activities
  BY <1>2, Zenon
<1>3. ASSUME NEW p \in Plugins, NEW a, activities' = [activities EXCEPT ![p] = a],
             Active(activities[p]) /\ Active(a) =>
               a.storage = activities[p].storage /\ a.id = activities[p].id
      PROVE  ClaimKept
  BY <1>1, <1>3, Zenon
<1>4. ASSUME NEW p \in Plugins, NEW i \in Ids, NEW s \in Storages, SetActivityFile(p, i, s)
      PROVE  ClaimKept
  BY <1>1, <1>4, Zenon DEF SetActivityFile, Activity
<1>5. ASSUME NEW p \in Plugins, Cancel(p) PROVE ClaimKept
  BY <1>1, <1>5, Zenon DEF Cancel, Activity
<1>6. ASSUME NEW p \in Plugins, NEW st \in States \ {"none"}, NEW valid \in BOOLEAN, SetActivity(p, st, valid)
      PROVE  ClaimKept
  <2> DEFINE next == NextActivity(activities[p], st, scene[p].id, scene[p].storage)
  <2>1. next.id = scene[p].id /\ next.storage = scene[p].storage
    BY Zenon DEF NextActivity
  <2>2. \/ UNCHANGED activities
        \/ /\ activities' = [activities EXCEPT ![p] = next]
           /\ Active(activities[p]) => SameTask(activities[p], scene[p].id, scene[p].storage)
    BY <1>6, Zenon DEF SetActivity
  <2> HIDE DEF next
  <2> QED
    BY <1>2, <1>3, <2>1, <2>2, Zenon DEF SameTask
<1>7. ASSUME NEW p \in Plugins, activities' = [activities EXCEPT ![p] = NoActivity] PROVE ClaimKept
  BY <1>3, <1>7, Zenon DEF NoActivity, Active
<1> QED
  BY <1>2, <1>4, <1>5, <1>6, <1>7, Zenon
  DEF Next, PluginStep, HostStep, SetActivityStorage, CloseSession, BeginWork, EndWork, Exit,
      Launch, Dismiss, StopProcess, RemoveActivity, Acquire, Release

(* The claim of an active task never changes. *)
THEOREM ClaimsAreFixed == Spec => ClaimIsFixed
<1> QED
  BY Invariant, StepKeepsClaim, PTL DEF Spec, ClaimIsFixed
-----------------------------------------------------------------------------
Entries == {p \in Plugins : activities[p].state # "none"}

(* An entry is only added when there is room for it. *)
LEMMA StepKeepsBound == IInv /\ Bounded /\ [Next]_vars => Bounded'
<1> SUFFICES ASSUME IInv, Bounded, [Next]_vars PROVE Bounded'
  OBVIOUS
<1>1. activities \in [Plugins -> Activity]
  BY Zenon DEF IInv, TypeOK
<1>2. IsFiniteSet(Entries) /\ Cardinality(Entries) \in Nat /\ Cardinality(Entries) <= MaxActivities
  BY PluginAssumption, FS_Subset, FS_CardinalityType, Zenon DEF Entries, Bounded
<1>3. ASSUME Entries' \subseteq Entries PROVE Bounded'
  <2>1. Cardinality(Entries') <= Cardinality(Entries) /\ Cardinality(Entries') \in Nat
    BY <1>2, <1>3, FS_Subset, FS_CardinalityType, Zenon
  <2> QED
    BY <1>2, <2>1, BoundAssumption DEF Bounded, Entries
<1>4. CASE UNCHANGED activities
  BY <1>3, <1>4, Zenon DEF Entries
<1>5. ASSUME NEW p \in Plugins, NEW a, activities' = [activities EXCEPT ![p] = a],
             a.state = "none" \/ activities[p].state # "none"
      PROVE  Bounded'
  BY <1>1, <1>3, <1>5, Zenon DEF Entries
<1>6. ASSUME NEW p \in Plugins, NEW a, activities' = [activities EXCEPT ![p] = a],
             activities[p].state = "none", Cardinality(Entries) < MaxActivities
      PROVE  Bounded'
  <2>1. Entries' \subseteq Entries \cup {p} /\ p \notin Entries
    BY <1>1, <1>6, Zenon DEF Entries
  <2>2. IsFiniteSet(Entries \cup {p}) /\ Cardinality(Entries \cup {p}) = Cardinality(Entries) + 1
    BY <1>2, <2>1, FS_AddElement, Zenon
  <2>3. Cardinality(Entries') <= Cardinality(Entries) + 1 /\ Cardinality(Entries') \in Nat
    BY <2>1, <2>2, FS_Subset, FS_CardinalityType, Zenon
  <2> QED
    BY <1>2, <1>6, <2>3, BoundAssumption DEF Bounded, Entries
<1>7. ASSUME NEW p \in Plugins, NEW i \in Ids, NEW s \in Storages, SetActivityFile(p, i, s)
      PROVE  Bounded'
  <2>1. Entries' = Entries
    BY <1>1, <1>7, Zenon DEF SetActivityFile, Activity, Entries
  <2> QED
    BY <1>3, <2>1, Zenon
<1>8. ASSUME NEW p \in Plugins, Cancel(p) PROVE Bounded'
  <2>1. Entries' = Entries
    BY <1>1, <1>8, Zenon DEF Cancel, Activity, Entries
  <2> QED
    BY <1>3, <2>1, Zenon
<1>9. ASSUME NEW p \in Plugins, NEW st \in States \ {"none"}, NEW valid \in BOOLEAN, SetActivity(p, st, valid)
      PROVE  Bounded'
  <2> DEFINE next == NextActivity(activities[p], st, scene[p].id, scene[p].storage)
  <2>1. \/ UNCHANGED activities
        \/ /\ activities' = [activities EXCEPT ![p] = next]
           /\ activities[p].state = "none" => Cardinality(Entries) < MaxActivities
    BY <1>9, Zenon DEF SetActivity, Room, Entries
  <2> HIDE DEF next
  <2> QED
    BY <1>4, <1>5, <1>6, <2>1, Zenon
<1>10. ASSUME NEW p \in Plugins, activities' = [activities EXCEPT ![p] = NoActivity] PROVE Bounded'
  BY <1>5, <1>10, Zenon DEF NoActivity
<1> QED
  BY <1>4, <1>7, <1>8, <1>9, <1>10, Zenon
  DEF vars, Next, PluginStep, HostStep, SetActivityStorage, CloseSession, BeginWork, EndWork, Exit,
      Launch, Dismiss, StopProcess, RemoveActivity, Acquire, Release

(* The registry never holds more entries than its limit, for any finite     *)
(* number of plugins.                                                       *)
THEOREM RegistryIsBounded == Spec => []Bounded
<1>1. Init => Bounded
  <2> SUFFICES ASSUME Init PROVE Bounded
    OBVIOUS
  <2>1. {p \in Plugins : activities[p].state # "none"} = {}
    BY Zenon DEF Init, NoActivity
  <2> QED
    BY <2>1, FS_EmptySet, BoundAssumption DEF Bounded
<1> QED
  BY <1>1, Invariant, StepKeepsBound, PTL DEF Spec
=============================================================================
