-------------------------- MODULE FlashBatchProofs --------------------------
(***************************************************************************)
(* Proofs about FlashBatch for any package, any logical partitions and any *)
(* mounts: what a job may do to the Super table and to the targets, and    *)
(* that what it says of them is true.                                      *)
(***************************************************************************)
EXTENDS FlashBatch, TLAPS

Outside == {"idle", "zip", "zipRestore", "zipMounts"}
Untouched == {"quiesce", "plan", "release"}       \* nothing released yet
Preparing == Untouched \cup {"commit", "remap", "resolve", "open"}
Writing == {"write", "child", "readback"}
Reversible == Preparing \cup Writing \cup {"rollback"}
Leaving == {"restore", "answer"}

(* The types that the arguments below need; of the mounts and of the ZIP     *)
(* scope they need nothing.                                                  *)
PartsOK ==
  /\ pc \in Outside \cup Reversible \cup Leaving
  /\ selected \subseteq Images /\ packaged \subseteq Logical
  /\ table \in {"original", "prepared", "updater"}
  /\ mapped \in [Parts -> {"no", "original", "prepared", "updater"}]
  /\ moved \subseteq Parts /\ resized \subseteq Parts /\ unmappedCows \subseteq Cows
  /\ layoutMappings \subseteq Parts /\ originalMappings \subseteq layoutMappings
  /\ data \in [Images -> {"old", "partial", "new", "bad"}]
  /\ kind = "layout" => packaged = Logical

(* The data of the targets: none is touched before `started` is set, no job  *)
(* rolls back after that, and a job answers only once.                       *)
DataInv ==
  /\ ~started => \A i \in Images : data[i] = "old"
  /\ pc \in Preparing \cup {"rollback"} => ~started
  /\ pc = "write" /\ kind = "direct" => ~started
  /\ pc = "child" => started
  /\ said = "none" /\ pc \in Outside => ~started
  /\ said # "none" => pc \in Outside
  /\ said = "untouched" => ~started
  /\ \A i \in verified : i \in Images /\ data[i] = "new"
  /\ pc \in Leaving /\ ok => verified = selected
  /\ pc = "rollback" => ~ok
  /\ said = "success" => verified = selected

(* The table while a job can still go back.                                  *)
TableInv ==
  /\ said = "none" /\ pc \in Outside \cup {"quiesce", "plan"} =>
       /\ table # "prepared" /\ moved = {} /\ ~unrestored
       /\ resized = {} /\ layoutMappings = {} /\ unmappedCows = {}
  /\ pc \in Untouched \cup {"commit"} => table = "original"
  /\ pc \in Reversible \cup Leaving => table # "updater"
  /\ pc \in Reversible => ~unrestored /\ moved \subseteq layoutMappings \cup resized
  /\ pc \in Reversible /\ table = "prepared" => metadataChanged /\ checkpoint
  /\ pc = "plan" /\ Targets # {} => checkpoint
  /\ pc \in {"release", "commit"} => checkpoint
  /\ pc \in Leaving /\ ~started /\ ~ok /\ ~unrestored => table = "original"
  /\ said = "untouched" /\ ~unrestored => table # "prepared"

(* Mappings agree with the table unless a failure to restore was reported,   *)
(* and a job that writes has all its targets mapped.                         *)
MappingInv ==
  /\ ~unrestored /\ table # "updater" => \A p \in Parts : mapped[p] \in {"no", Extents(table, p)}
  /\ pc = "commit" => \A p \in moved : mapped[p] = "no"
  /\ pc \in {"open"} \cup Writing => \A i \in Targets : mapped[i] # "no"
  /\ pc \in Leaving /\ ok => ~unrestored /\ \A i \in Targets : mapped[i] # "no"
  /\ said = "success" => ~unrestored /\ \A i \in Targets : mapped[i] # "no"

(* Whatever was released is in a list of the rollback.                       *)
ReleaseInv ==
  /\ pc \in Untouched =>
       /\ originalMappings = {} /\ unmappedCows = {}
       /\ \A p \in before : mapped[p] # "no"
  /\ said = "none" /\ pc \in Outside => originalMappings = {}
  /\ pc \in Reversible => \A p \in before : p \in Parts /\ (mapped[p] = "no" => p \in Again)
  /\ pc \in Reversible /\ ~checkpoint => \A p \in before : mapped[p] # "no"

IInv == PartsOK /\ DataInv /\ TableInv /\ MappingInv /\ ReleaseInv

(* Nothing is prepared, written or said at the start. *)
LEMMA InitIInv == Init => IInv
BY DEF Init, IInv, PartsOK, DataInv, TableInv, MappingInv, ReleaseInv, Outside, Untouched,
       Preparing, Writing, Reversible, Leaving, Again, Extents, Targets, Logical, Parts

(* The steps up to the plan keep IInv. *)
LEMMA BeginKeeps ==
  ASSUME IInv,
         \/ \E k \in {"zip", "layout", "direct"}, chosen \in SUBSET Images, named \in SUBSET Logical : Begin(k, chosen, named)
         \/ Prepare \/ Refuse \/ PlanPhysical \/ \E changed \in SUBSET Logical : Plan(changed)
  PROVE  IInv'
<1> USE DEF Outside, Untouched, Preparing, Writing, Reversible, Leaving,
            scope, users, super, writer, ending, outer
<1>1. ASSUME NEW k \in {"zip", "layout", "direct"}, NEW chosen \in SUBSET Images,
             NEW named \in SUBSET Logical, Begin(k, chosen, named) PROVE IInv'
  BY <1>1, Zenon DEF IInv, PartsOK, DataInv, TableInv, MappingInv, ReleaseInv, Extents, Begin
<1>2. CASE Prepare
  BY <1>2, Zenon DEF IInv, PartsOK, DataInv, TableInv, MappingInv, ReleaseInv, Extents, Targets,
     Prepare
<1>3. CASE Refuse
  BY <1>3, Zenon DEF IInv, PartsOK, DataInv, TableInv, MappingInv, ReleaseInv, Extents, Refuse,
     FailUnwritten, Fail, AfterFailure
<1>4. CASE PlanPhysical
  BY <1>4, Zenon DEF IInv, PartsOK, DataInv, TableInv, MappingInv, ReleaseInv, Extents,
     PlanPhysical
<1>5. ASSUME NEW changed \in SUBSET Logical, Plan(changed) PROVE IInv'
  <2>1. PartsOK'
    BY <1>5, Zenon DEF IInv, PartsOK, ReleaseInv, Parts, Plan, FailUnwritten, Fail, AfterFailure
  <2>2. DataInv'
    BY <1>5 DEF IInv, DataInv, Plan, FailUnwritten, Fail, AfterFailure
  <2>3. TableInv'
    BY <1>5, Zenon DEF IInv, DataInv, TableInv, Plan, FailUnwritten, Fail, AfterFailure
  <2>4. MappingInv'
    BY <1>5, Zenon DEF IInv, TableInv, MappingInv, Extents, Targets, Plan, FailUnwritten, Fail,
       AfterFailure
  <2>5. ReleaseInv'
    BY <1>5, Zenon DEF IInv, ReleaseInv, Plan
  <2> QED
    BY <2>1, <2>2, <2>3, <2>4, <2>5, Zenon DEF IInv
<1> QED
  BY <1>1, <1>2, <1>3, <1>4, <1>5, Zenon

(* The steps that release, commit and map keep IInv. *)
LEMMA PrepareKeeps ==
  ASSUME IInv,
         Release \/ Commit \/ CommitRefused \/ Remap \/ Resolve \/ Open
  PROVE  IInv'
<1> USE DEF Outside, Untouched, Preparing, Writing, Reversible, Leaving,
            scope, users, super, writer, ending, outer
<1>1. CASE Release
  <2>1. PartsOK'
    BY <1>1, Zenon DEF IInv, PartsOK, Release, Live, Destroyed, FailUnwritten, Fail, AfterFailure
  <2>2. DataInv'
    BY <1>1 DEF IInv, DataInv, Release, Destroyed, FailUnwritten, Fail, AfterFailure
  <2>3. TableInv'
    BY <1>1, Zenon DEF IInv, TableInv, Release, Destroyed, FailUnwritten, Fail, AfterFailure
  <2>4. MappingInv'
    BY <1>1 DEF IInv, PartsOK, DataInv, TableInv, MappingInv, Extents, Release, Live, Destroyed,
       FailUnwritten, Fail, AfterFailure
  <2>5. ReleaseInv'
    BY <1>1, Zenon DEF IInv, TableInv, ReleaseInv, Again, Release, Destroyed, FailUnwritten,
       Fail, AfterFailure
  <2> QED
    BY <2>1, <2>2, <2>3, <2>4, <2>5, Zenon DEF IInv
<1>2. CASE Commit
  BY <1>2, Zenon DEF IInv, PartsOK, DataInv, TableInv, MappingInv, ReleaseInv, Again, Extents,
     Commit, Noted, FailUnwritten, Fail, AfterFailure
<1>3. CASE CommitRefused
  BY <1>3, Zenon DEF IInv, PartsOK, DataInv, TableInv, MappingInv, ReleaseInv, Again, Extents,
     CommitRefused, FailUnwritten, Fail, AfterFailure
<1>4. CASE Remap
  <2>1. PartsOK'
    BY <1>4, Zenon DEF IInv, PartsOK, Extents, Remap, Mapping, FailUnwritten, Fail, AfterFailure
  <2>2. DataInv'
    BY <1>4, Zenon DEF IInv, DataInv, Remap, FailUnwritten, Fail, AfterFailure
  <2>3. TableInv'
    BY <1>4 DEF IInv, TableInv, Remap, FailUnwritten, Fail, AfterFailure
  <2>4. MappingInv'
    BY <1>4, Zenon DEF IInv, DataInv, MappingInv, Extents, Remap, Mapping, FailUnwritten, Fail,
       AfterFailure
  <2>5. ReleaseInv'
    BY <1>4, Zenon DEF IInv, TableInv, MappingInv, ReleaseInv, Again, Remap, Mapping,
       FailUnwritten, Fail, AfterFailure
  <2> QED
    BY <2>1, <2>2, <2>3, <2>4, <2>5, Zenon DEF IInv
<1>5. CASE Resolve
  <2>1. PartsOK'
    BY <1>5, Zenon DEF IInv, PartsOK, Extents, Resolve, Mapping, FailUnwritten, Fail,
       AfterFailure
  <2>2. DataInv'
    BY <1>5 DEF IInv, DataInv, Resolve, FailUnwritten, Fail, AfterFailure
  <2>3. TableInv'
    BY <1>5 DEF IInv, TableInv, Resolve, FailUnwritten, Fail, AfterFailure
  <2>4. MappingInv'
    BY <1>5, Zenon DEF IInv, DataInv, MappingInv, Extents, Targets, Resolve, Mapping,
       FailUnwritten, Fail, AfterFailure
  <2>5. ReleaseInv'
    BY <1>5, Zenon DEF IInv, ReleaseInv, Again, Resolve, Mapping, Mappable, FailUnwritten, Fail,
       AfterFailure
  <2> QED
    BY <2>1, <2>2, <2>3, <2>4, <2>5, Zenon DEF IInv
<1>6. CASE Open
  <2>1. PartsOK'
    BY <1>6, Zenon DEF IInv, PartsOK, Open, FailUnwritten, Fail, AfterFailure
  <2>2. DataInv'
    BY <1>6 DEF IInv, DataInv, Open, FailUnwritten, Fail, AfterFailure
  <2>3. TableInv'
    BY <1>6 DEF IInv, TableInv, Open, FailUnwritten, Fail, AfterFailure
  <2>4. MappingInv'
    BY <1>6, Zenon DEF IInv, MappingInv, Extents, Targets, Open, FailUnwritten, Fail,
       AfterFailure
  <2>5. ReleaseInv'
    BY <1>6, Zenon DEF IInv, ReleaseInv, Again, Open, FailUnwritten, Fail, AfterFailure
  <2> QED
    BY <2>1, <2>2, <2>3, <2>4, <2>5, Zenon DEF IInv
<1> QED
  BY <1>1, <1>2, <1>3, <1>4, <1>5, <1>6, Zenon

(* The steps of both writers keep IInv. *)
LEMMA WriteKeeps ==
  ASSUME IInv,
         \/ Write
         \/ Child
  PROVE  IInv'
<1> USE DEF Outside, Untouched, Preparing, Writing, Reversible, Leaving,
            scope, users, super, writer, ending, outer
<1>1. CASE Spawn
  <2>1. PartsOK'
    BY <1>1, Zenon DEF IInv, PartsOK, Spawn
  <2>2. DataInv'
    BY <1>1 DEF IInv, DataInv, Spawn
  <2>3. TableInv'
    BY <1>1, Zenon DEF IInv, TableInv, Spawn
  <2>4. MappingInv'
    BY <1>1, Zenon DEF IInv, MappingInv, Extents, Targets, Spawn
  <2>5. ReleaseInv'
    BY <1>1, Zenon DEF IInv, ReleaseInv, Again, Spawn
  <2> QED
    BY <2>1, <2>2, <2>3, <2>4, <2>5, Zenon DEF IInv
<1>2. CASE Readback
  <2>1. PartsOK'
    BY <1>2, Zenon DEF IInv, PartsOK, Readback, AfterFailure
  <2>2. DataInv'
    BY <1>2, Zenon DEF IInv, PartsOK, DataInv, Readback, Matches, AfterFailure
  <2>3. TableInv'
    BY <1>2, Zenon DEF IInv, TableInv, Readback, AfterFailure
  <2>4. MappingInv'
    BY <1>2, Zenon DEF IInv, TableInv, MappingInv, Extents, Targets, Readback, AfterFailure
  <2>5. ReleaseInv'
    BY <1>2, Zenon DEF IInv, ReleaseInv, Again, Readback, AfterFailure
  <2> QED
    BY <2>1, <2>2, <2>3, <2>4, <2>5, Zenon DEF IInv
<1>3. ASSUME NEW i \in Images, ZipWrite(i) PROVE IInv'
  <2>1. PartsOK'
    BY <1>3, Zenon DEF IInv, PartsOK, ZipWrite, Started, Fail, AfterFailure
  <2>2. DataInv'
    BY <1>3 DEF IInv, PartsOK, DataInv, ZipWrite, Started, Matches, Fail, AfterFailure
  <2>3. TableInv'
    BY <1>3 DEF IInv, TableInv, ZipWrite, Started, Fail, AfterFailure
  <2>4. MappingInv'
    BY <1>3, Zenon DEF IInv, TableInv, MappingInv, Extents, Targets, ZipWrite, Started, Fail,
       AfterFailure
  <2>5. ReleaseInv'
    BY <1>3, Zenon DEF IInv, ReleaseInv, Again, ZipWrite, Started, Fail, AfterFailure
  <2> QED
    BY <2>1, <2>2, <2>3, <2>4, <2>5, Zenon DEF IInv
<1>4. ASSUME NEW i \in Images, ChildWrites(i) PROVE IInv'
  <2>1. PartsOK'
    BY <1>4 DEF IInv, PartsOK, DataInv, TableInv, MappingInv, ReleaseInv, Again, Extents,
       Targets, ChildWrites
  <2>2. DataInv'
    BY <1>4, Zenon DEF IInv, PartsOK, DataInv, TableInv, MappingInv, ReleaseInv, Again, Extents,
       Targets, ChildWrites
  <2>3. TableInv'
    BY <1>4, Zenon DEF IInv, PartsOK, DataInv, TableInv, MappingInv, ReleaseInv, Again, Extents,
       Targets, ChildWrites
  <2>4. MappingInv'
    BY <1>4, Zenon DEF IInv, PartsOK, DataInv, TableInv, MappingInv, ReleaseInv, Again, Extents,
       Targets, ChildWrites
  <2>5. ReleaseInv'
    BY <1>4, Zenon DEF IInv, PartsOK, DataInv, TableInv, MappingInv, ReleaseInv, Again, Extents,
       Targets, ChildWrites
  <2> QED
    BY <2>1, <2>2, <2>3, <2>4, <2>5, Zenon DEF IInv
<1>5. ASSUME NEW i \in Images, NEW p \in Phases, ChildReports(i, p) PROVE IInv'
  BY <1>5, Zenon DEF IInv, PartsOK, DataInv, TableInv, MappingInv, ReleaseInv, Again, Extents,
     Targets, ChildReports
<1>6. ASSUME NEW clean \in BOOLEAN, ChildExits(clean) PROVE IInv'
  BY <1>6, Zenon DEF IInv, PartsOK, DataInv, TableInv, MappingInv, ReleaseInv, Again, Extents,
     Targets, ChildExits
<1> QED
  BY <1>1, <1>2, <1>3, <1>4, <1>5, <1>6, Zenon DEF Write, Child

(* The rollback, the restore and the answer keep IInv. *)
LEMMA LeaveKeeps ==
  ASSUME IInv,
         Rollback \/ RollbackSkipped \/ RestoreMount \/ Restart \/ Answer
  PROVE  IInv'
<1> USE DEF Outside, Untouched, Preparing, Writing, Reversible, Leaving,
            scope, users, super, writer, ending, outer
<1>1. CASE Rollback
  <2>1. PartsOK'
    BY <1>1, Zenon DEF IInv, PartsOK, Extents, Rollback, Freed, Destroyed, Mapping
  <2>2. DataInv'
    BY <1>1, Zenon DEF IInv, DataInv, Rollback
  <2>3. TableInv'
    BY <1>1, Zenon DEF IInv, PartsOK, DataInv, TableInv, Rollback
  <2>4. MappingInv'
    BY <1>1, Zenon DEF IInv, PartsOK, DataInv, TableInv, MappingInv, Extents, Rollback, Freed,
       Destroyed, Mapping
  <2>5. ReleaseInv'
    BY <1>1, Zenon DEF ReleaseInv, Rollback
  <2> QED
    BY <2>1, <2>2, <2>3, <2>4, <2>5, Zenon DEF IInv
<1>2. CASE RollbackSkipped
  BY <1>2, Zenon DEF IInv, PartsOK, DataInv, TableInv, MappingInv, ReleaseInv, Extents,
     RollbackSkipped, NothingPrepared
<1>3. CASE RestoreMount
  BY <1>3, Zenon DEF IInv, PartsOK, DataInv, TableInv, MappingInv, ReleaseInv, Extents, Targets,
     RestoreMount
<1>4. CASE Restart
  BY <1>4, Zenon DEF IInv, PartsOK, DataInv, TableInv, MappingInv, ReleaseInv, Extents, Targets,
     Restart
<1>5. CASE Answer
  BY <1>5, Zenon DEF IInv, PartsOK, DataInv, TableInv, MappingInv, ReleaseInv, Extents, Targets,
     Answer
<1> QED
  BY <1>1, <1>2, <1>3, <1>4, <1>5, Zenon

(* The scope of an installer ZIP keeps IInv. *)
LEMMA ZipKeeps ==
  ASSUME IInv,
         Zip
  PROVE  IInv'
<1> USE DEF Outside, Untouched, Preparing, Writing, Reversible, Leaving,
            scope, users, super, writer, ending, outer
<1>1. CASE BeginZip
  BY <1>1, Zenon DEF IInv, PartsOK, DataInv, TableInv, MappingInv, ReleaseInv, Extents, Targets,
     BeginZip
<1>2. CASE InstallerReturns
  BY <1>2, Zenon DEF IInv, PartsOK, DataInv, TableInv, MappingInv, ReleaseInv, Extents, Targets,
     InstallerReturns
<1>3. CASE ZipLeavesStopped
  BY <1>3, Zenon DEF IInv, PartsOK, DataInv, TableInv, MappingInv, ReleaseInv, Extents, Targets,
     ZipLeavesStopped, ZipOver
<1>4. CASE ZipComparesTables
  BY <1>4, Zenon DEF IInv, PartsOK, DataInv, TableInv, MappingInv, ReleaseInv, Extents, Targets,
     ZipComparesTables
<1>5. CASE ZipRestoresMount
  BY <1>5 DEF IInv, PartsOK, DataInv, TableInv, MappingInv, ReleaseInv, Extents, Targets,
     ZipRestoresMount
<1>6. CASE ZipEnds
  BY <1>6, Zenon DEF IInv, PartsOK, DataInv, TableInv, MappingInv, ReleaseInv, Extents, Targets,
     ZipEnds, ZipOver
<1> QED
  BY <1>1, <1>2, <1>3, <1>4, <1>5, <1>6, Zenon DEF Zip

(* IInv is an invariant. *)
LEMMA Invariance == Spec => []IInv
<1>1. IInv /\ [Next]_vars => IInv'
  <2> SUFFICES ASSUME IInv, [Next]_vars PROVE IInv'
    OBVIOUS
  <2>1. CASE UNCHANGED vars
    <3>1. PartsOK'
      BY <2>1, Zenon DEF vars, scope, super, writer, IInv, PartsOK
    <3>2. DataInv'
      BY <2>1, Zenon DEF vars, scope, writer, ending, IInv, DataInv
    <3>3. TableInv'
      BY <2>1, Zenon DEF vars, scope, super, writer, ending, IInv, TableInv, Targets
    <3>4. MappingInv'
      BY <2>1, Zenon DEF vars, scope, super, ending, IInv, MappingInv, Extents, Targets
    <3>5. ReleaseInv'
      BY <2>1, Zenon DEF vars, scope, super, ending, IInv, ReleaseInv, Again
    <3> QED
      BY <3>1, <3>2, <3>3, <3>4, <3>5, Zenon DEF IInv
  <2>2. CASE Batch
    <3>1. ASSUME NEW k \in {"zip", "layout", "direct"}, NEW named \in SUBSET Logical, Begin(k, Images, named)
          PROVE  IInv'
      BY <3>1, BeginKeeps, Zenon
    <3>2. ASSUME NEW k \in {"zip", "direct"}, Begin(k, Physical, {}) PROVE IInv'
      BY <3>2, BeginKeeps, KindAssumption, Zenon
    <3> QED
      BY <2>2, <3>2, BeginKeeps, PrepareKeeps, LeaveKeeps, Zenon DEF Batch
  <2> QED
    BY <2>1, <2>2, WriteKeeps, ZipKeeps, Zenon DEF Next
<1> QED
  BY <1>1, InitIInv, PTL DEF Spec
-----------------------------------------------------------------------------
(* What the job tells its user is true: verified images are there and mapped *)
(* as the table says, and "untouched" means that no target was written.      *)
THEOREM AnswersAreTrue == Spec => []AnswerIsTrue
<1>1. IInv => AnswerIsTrue
  BY Zenon DEF IInv, DataInv, MappingInv, AnswerIsTrue, Targets, Logical, Parts
<1> QED
  BY <1>1, Invariance, PTL

(* A job that reported no failure to restore leaves a Super table and        *)
(* mappings that agree, and the original table if it wrote nothing.          *)
THEOREM LayoutStaysConsistent == Spec => []LayoutIsConsistent
<1>1. IInv => LayoutIsConsistent
  BY Zenon DEF IInv, PartsOK, TableInv, MappingInv, LayoutIsConsistent
<1> QED
  BY <1>1, Invariance, PTL

(* Once a target was written the job leaves table and mappings alone.        *)
THEOREM NeverRolledBackAfterWrite == Spec => NoRollbackAfterWrite
<1> DEFINE Step == (\E i \in Images : data[i] # "old") /\ pc \notin {"idle", "zip"} => UNCHANGED <<table, mapped>>
<1>1. IInv /\ [Next]_vars => [Step]_vars
  <2> SUFFICES ASSUME IInv, Next, NEW i \in Images, data[i] # "old", pc \notin {"idle", "zip"}
               PROVE  UNCHANGED <<table, mapped>>
    OBVIOUS
  <2>1. pc \notin Preparing \cup {"rollback"}
    BY Zenon DEF IInv, DataInv
  <2> USE DEF super
  <2>2. CASE Batch
    BY <2>1, <2>2, Zenon DEF Batch, Begin, Prepare, Refuse, PlanPhysical, Plan, Release, Commit,
       CommitRefused, Remap, Resolve, Open, Rollback, RollbackSkipped, RestoreMount, Restart,
       Answer, Preparing, Untouched
  <2>3. CASE Write \/ Child
    BY <2>3, Zenon DEF Write, Spawn, Readback, ZipWrite, Child, ChildWrites, ChildReports,
       ChildExits
  <2>4. CASE Zip
    BY <2>4, Zenon DEF Zip, BeginZip, InstallerReturns, ZipLeavesStopped, ZipOver,
       ZipComparesTables, ZipRestoresMount, ZipEnds
  <2> QED
    BY <2>2, <2>3, <2>4, Zenon DEF Next
<1> QED
  BY <1>1, Invariance, PTL DEF Spec, NoRollbackAfterWrite

(* A rollback that reports no failure maps again whatever the preparation    *)
(* released, wherever the preparation stopped.                               *)
THEOREM RollbackRemaps == Spec => ReleasedIsRemapped
<1> DEFINE Step == pc = "rollback" /\ pc' = "restore" /\ ~unrestored' =>
                     \A p \in before : mapped[p] = "no" => mapped'[p] # "no"
<1>1. IInv /\ [Next]_vars => [Step]_vars
  <2> SUFFICES ASSUME IInv, Next, pc = "rollback", ~unrestored', NEW p \in before, mapped[p] = "no"
               PROVE  mapped'[p] # "no"
    OBVIOUS
  <2>1. Rollback \/ RollbackSkipped
    BY Zenon DEF Next, Batch, Begin, Prepare, Refuse, PlanPhysical, Plan, Release, Commit,
       CommitRefused, Remap, Resolve, Open, RestoreMount, Restart, Answer, Write, Spawn,
       Readback, ZipWrite, Child, ChildWrites, ChildReports, ChildExits, Zip, BeginZip,
       InstallerReturns, ZipLeavesStopped, ZipComparesTables, ZipRestoresMount, ZipEnds
  <2>2. checkpoint /\ p \in Parts /\ p \in Again
    BY Zenon DEF IInv, ReleaseInv, Reversible
  <2>3. ~NothingPrepared
    BY <2>2, Zenon DEF IInv, PartsOK, NothingPrepared, Again
  <2>4. Rollback
    BY <2>1, <2>3, Zenon DEF RollbackSkipped
  <2> QED
    BY <2>2, <2>4, Zenon DEF IInv, PartsOK, Rollback, Mapping, Mappable, Extents
<1> QED
  BY <1>1, Invariance, PTL DEF Spec, ReleasedIsRemapped
-----------------------------------------------------------------------------
(* The users of the partitions: services and mounts. *)

(* The services: those asked to stop are remembered by the batch or by the   *)
(* ZIP scope around it, each by one of them, until the user is warned.       *)
ServiceInv ==
  /\ pc \in Outside \cup {"quiesce", "answer"} => saved = {} /\ journal = {}
  /\ pc \in {"zip", "zipRestore", "zipMounts"} => zip.active
  /\ zip.active => pc # "idle"
  /\ ~zip.active => zip.services = {} /\ zip.left = {}
  /\ zip.services \subseteq stopped /\ saved \cap zip.services = {}
  /\ ~warned => stopped \subseteq saved \cup zip.services

(* The mounts: nothing is up below a mount that is still to be restored, and *)
(* inside a ZIP scope nothing is up at all.                                  *)
MountInv ==
  /\ mount \in [Devices -> {"up", "down"}]
  /\ journal \subseteq Places /\ zip.journal \subseteq Places /\ zip.left \subseteq zip.journal
  /\ \A k \in journal \cup zip.left : \A m \in Devices :
       Parent[m] = MountOrder[k] => mount[m] # "up"
  /\ zip.active /\ pc \notin {"zipRestore", "zipMounts"} =>
       journal = {} /\ \A m \in Devices : mount[m] # "up"

(* The restore of a ZIP scope.                                               *)
ZipInv ==
  /\ zip.active /\ pc # "zipMounts" => zip.left = zip.journal
  /\ pc = "zipMounts" /\ zip.planned => table = zip.table
  /\ pc = "zipMounts" /\ ~zip.failed =>
       \A k \in zip.journal \ zip.left : mount[MountOrder[k]] = "up"

UInv == zip \in ZipScopes /\ ServiceInv /\ MountInv /\ ZipInv

(* QuiesceDynamicPartitionUsers asks only services that run, and unmounts    *)
(* whatever is up in the order of the mounts, to the end if it succeeds.     *)
LEMMA Quiesced ==
  ASSUME NEW o \in QuiesceOutcomes
  PROVE  /\ o[2] \subseteq Services \ stopped /\ o[3] \subseteq UpPlaces
         /\ \A j \in UpPlaces, k \in o[3] : j <= k => j \in o[3]
         /\ o[1] \in BOOLEAN /\ (o[1] => o[3] = UpPlaces)
<1> DEFINE running == (IF Up = {} THEN {Bootstrap} ELSE Services) \ stopped
<1>0. running \subseteq Services \ stopped
  BY ServiceAssumption, Zenon
<1>1. CASE o = <<TRUE, running, UpPlaces>>
  BY <1>0, <1>1, Zenon
<1>2. ASSUME NEW asked \in SUBSET running, o = <<FALSE, asked, {}>>
      PROVE  o[1] = FALSE /\ o[2] \subseteq Services \ stopped /\ o[3] = {}
  BY <1>0, <1>2, Zenon
<1>3. ASSUME NEW stuck \in UpPlaces, o = <<FALSE, running, {k \in UpPlaces : k < stuck}>>
      PROVE  /\ o[1] = FALSE /\ o[2] \subseteq Services \ stopped /\ o[3] \subseteq UpPlaces
             /\ \A j \in UpPlaces, k \in o[3] : j <= k => j \in o[3]
  <2>1. o[1] = FALSE /\ o[2] = running /\ o[3] = {k \in UpPlaces : k < stuck}
    BY <1>3, Zenon
  <2>2. \A j \in UpPlaces : j \in Nat
    BY MountAssumption, Zenon DEF UpPlaces
  <2> QED
    BY <1>0, <2>1, <2>2
<1> QED
  BY <1>1, <1>2, <1>3, Zenon DEF QuiesceOutcomes

(* After it nothing is up below a mount that it removed.                     *)
LEMMA QuiescedMounts ==
  ASSUME mount \in [Devices -> {"up", "down"}], NEW o \in QuiesceOutcomes
  PROVE  /\ Unmounted(o[3]) \in [Devices -> {"up", "down"}] /\ o[3] \subseteq Places
         /\ \A m \in Devices : Unmounted(o[3])[m] = "up" => mount[m] = "up"
         /\ \A k \in o[3] : \A m \in Devices :
              Parent[m] = MountOrder[k] => Unmounted(o[3])[m] # "up"
         /\ o[1] => \A m \in Devices : Unmounted(o[3])[m] # "up"
<1>1. /\ o[3] \subseteq UpPlaces
      /\ \A j \in UpPlaces, k \in o[3] : j <= k => j \in o[3]
      /\ o[1] => o[3] = UpPlaces
  BY Quiesced, Zenon
<1>2. \A m \in Devices : Unmounted(o[3])[m] = IF \E k \in o[3] : MountOrder[k] = m THEN "down" ELSE mount[m]
  BY Zenon DEF Unmounted
<1>3. \A m \in Devices : \E j \in Places : m = MountOrder[j]
  BY Zenon DEF Devices
<1>4. ASSUME NEW k \in o[3], NEW m \in Devices, Parent[m] = MountOrder[k]
      PROVE  Unmounted(o[3])[m] # "up"
  <2>1. PICK j \in Places : m = MountOrder[j]
    BY <1>3, Zenon
  <2>2. j <= k
    BY <1>1, <1>4, <2>1, MountAssumption, Zenon DEF UpPlaces
  <2>3. CASE mount[m] = "up"
    BY <1>1, <1>2, <2>1, <2>2, <2>3, Zenon DEF UpPlaces
  <2> QED
    BY <1>2, <2>3, Zenon
<1>5. o[1] => \A m \in Devices : Unmounted(o[3])[m] # "up"
  BY <1>1, <1>2, <1>3 DEF UpPlaces
<1>6. Unmounted(o[3]) \in [Devices -> {"up", "down"}]
  BY Zenon DEF Unmounted
<1> QED
  BY <1>1, <1>2, <1>4, <1>5, <1>6, Zenon DEF UpPlaces

(* The walk back over the removed mounts hides nothing: the next one has no  *)
(* child that is up, and is below none of the rest.                          *)
LEMMA WalkedBack ==
  ASSUME mount \in [Devices -> {"up", "down"}], NEW left \in SUBSET Places,
         NEW k \in Places, NextMount(left, k),
         \A l \in left : \A m \in Devices : Parent[m] = MountOrder[l] => mount[m] # "up"
  PROVE  /\ Mounted(MountOrder[k]) = [mount EXCEPT ![MountOrder[k]] = "up"]
         /\ \A l \in left \ {k} : \A m \in Devices :
              Parent[m] = MountOrder[l] => Mounted(MountOrder[k])[m] # "up"
<1>1. MountOrder[k] \in Devices /\ k \in left
  BY Zenon DEF Devices, NextMount
<1>2. Mounted(MountOrder[k]) = [mount EXCEPT ![MountOrder[k]] = "up"]
  BY <1>1, Zenon DEF Mounted
<1>3. \A l \in left \ {k} : Parent[MountOrder[k]] # MountOrder[l]
  BY <1>1, MountAssumption DEF NextMount
<1> QED
  BY <1>1, <1>2, <1>3, Zenon

(* A step inside a batch that leaves services, mounts and the ZIP scope alone*)
(* keeps UInv.                                                               *)
Busy == (Reversible \ {"quiesce"}) \cup {"restore"}
LEMMA BatchStepKeeps ==
  ASSUME UInv, pc \in Busy, pc' \in Busy, UNCHANGED <<users, outer>>
  PROVE  UInv'
<1> USE DEF Busy, Outside, Untouched, Preparing, Writing, Reversible, Leaving, users, outer
<1>1. ServiceInv' /\ MountInv'
  BY Zenon DEF UInv, ServiceInv, MountInv
<1>2. (zip \in ZipScopes)' /\ ZipInv'
  BY Zenon DEF UInv, ZipInv
<1> QED
  BY <1>1, <1>2, Zenon DEF UInv

(* Nothing is stopped or unmounted at the start. *)
LEMMA InitUInv == Init => UInv
<1> SUFFICES ASSUME Init PROVE UInv
  OBVIOUS
<1>1. zip \in ZipScopes /\ zip = NoZip
  BY Zenon DEF Init, NoZip, ZipScopes
<1>2. ServiceInv /\ MountInv /\ ZipInv
  <2>1. ServiceInv
    BY <1>1 DEF Init, NoZip, ServiceInv
  <2>2. MountInv
    BY <1>1 DEF Init, NoZip, MountInv
  <2>3. ZipInv
    BY <1>1 DEF Init, NoZip, ZipInv
  <2> QED
    BY <2>1, <2>2, <2>3, Zenon
<1> QED
  BY <1>1, <1>2, Zenon DEF UInv

(* The steps of a batch up to its end keep UInv. *)
LEMMA BatchUsers ==
  ASSUME IInv, UInv, Batch
  PROVE  UInv'
<1> USE DEF Outside, Untouched, Preparing, Writing, Reversible, Leaving, Busy,
            scope, users, super, writer, ending, outer
<1>1. ASSUME NEW k, NEW chosen, NEW named, Begin(k, chosen, named) PROVE UInv'
  <2>1. ServiceInv'
    BY <1>1, Zenon DEF UInv, ServiceInv, Begin
  <2>2. (zip \in ZipScopes)' /\ MountInv' /\ ZipInv'
    BY <1>1, Zenon DEF UInv, ServiceInv, MountInv, ZipInv, Begin
  <2> QED
    BY <2>1, <2>2, Zenon DEF UInv
<1>2. CASE Prepare
  <2>1. PICK o \in QuiesceOutcomes : /\ stopped' = stopped \cup o[2] /\ saved' = o[2]
                                     /\ journal' = o[3] /\ mount' = Unmounted(o[3])
    BY <1>2, Zenon DEF Prepare
  <2>2. pc = "quiesce" /\ pc' \in {"plan", "restore"} /\ UNCHANGED <<zip, warned, table>>
    BY <1>2, Zenon DEF Prepare
  <2>3. ServiceInv'
    BY <2>1, <2>2, Quiesced, Zenon DEF UInv, ServiceInv
  <2>4. MountInv'
    <3>1. zip.active => \A m \in Devices : mount[m] # "up"
      BY <2>2, Zenon DEF UInv, MountInv
    <3>2. zip.active => UpPlaces = {}
      BY <3>1, Zenon DEF UpPlaces, Devices
    <3>3. zip.active => o[3] = {}
      BY <3>2, Quiesced, Zenon
    <3>4. ~zip.active => zip.left = {}
      BY Zenon DEF UInv, ServiceInv
    <3>5. /\ mount' \in [Devices -> {"up", "down"}] /\ o[3] \subseteq Places
          /\ \A m \in Devices : mount'[m] = "up" => mount[m] = "up"
          /\ \A k \in o[3] : \A m \in Devices : Parent[m] = MountOrder[k] => mount'[m] # "up"
      BY <2>1, QuiescedMounts, Zenon DEF UInv, MountInv
    <3> QED
      BY <2>1, <2>2, <3>1, <3>3, <3>4, <3>5, Zenon DEF UInv, MountInv
  <2>5. (zip \in ZipScopes)' /\ ZipInv'
    BY <2>2, Zenon DEF UInv, ZipInv
  <2> QED
    BY <2>3, <2>4, <2>5, Zenon DEF UInv
<1>3. CASE Refuse \/ PlanPhysical \/ \E changed \in SUBSET Logical : Plan(changed)
  BY <1>3, BatchStepKeeps, Zenon DEF Refuse, PlanPhysical, Plan, FailUnwritten, Fail,
     AfterFailure
<1>4. CASE Release \/ Commit \/ CommitRefused \/ Remap \/ Resolve \/ Open
  BY <1>4, BatchStepKeeps, Zenon DEF Release, Commit, CommitRefused, Remap, Resolve, Open,
     FailUnwritten, Fail, AfterFailure
<1>5. CASE Rollback \/ RollbackSkipped
  BY <1>5, BatchStepKeeps, Zenon DEF Rollback, RollbackSkipped
<1>6. CASE RestoreMount
  <2>1. PICK k \in Places :
          /\ NextMount(journal, k) /\ journal' = journal \ {k}
          /\ mount' = mount \/ mount' = Mounted(MountOrder[k])
    BY <1>6, Zenon DEF RestoreMount
  <2>2. k \in journal /\ pc = "restore" /\ UNCHANGED <<pc, saved, stopped, zip, warned, table>>
    BY <1>6, <2>1, Zenon DEF RestoreMount, NextMount
  <2>3. ~zip.active /\ zip.left = {}
    BY <2>2, Zenon DEF UInv, ServiceInv, MountInv
  <2>4. ServiceInv'
    BY <2>2, Zenon DEF UInv, ServiceInv
  <2>5. MountInv'
    <3>1. /\ mount \in [Devices -> {"up", "down"}] /\ journal \subseteq Places
          /\ \A l \in journal : \A m \in Devices : Parent[m] = MountOrder[l] => mount[m] # "up"
      BY Zenon DEF UInv, MountInv
    <3>2. /\ Mounted(MountOrder[k]) = [mount EXCEPT ![MountOrder[k]] = "up"]
          /\ \A l \in journal \ {k} : \A m \in Devices :
               Parent[m] = MountOrder[l] => Mounted(MountOrder[k])[m] # "up"
      BY <2>1, <3>1, WalkedBack, Zenon
    <3>3. mount' \in [Devices -> {"up", "down"}]
      BY <2>1, <3>1, <3>2, Zenon
    <3>4. \A l \in journal' : \A m \in Devices : Parent[m] = MountOrder[l] => mount'[m] # "up"
      BY <2>1, <3>1, <3>2, Zenon
    <3> QED
      BY <2>1, <2>2, <2>3, <3>3, <3>4, Zenon DEF UInv, MountInv
  <2>6. (zip \in ZipScopes)' /\ ZipInv'
    BY <2>2, Zenon DEF UInv, ZipInv
  <2> QED
    BY <2>4, <2>5, <2>6, Zenon DEF UInv
<1>7. CASE Restart
  <2>1. ServiceInv'
    BY <1>7, Zenon DEF UInv, ServiceInv, Restart
  <2>2. pc = "restore" /\ pc' = "answer" /\ UNCHANGED <<journal, mount, table, zip, warned>>
    BY <1>7, Zenon DEF Restart
  <2>3. MountInv'
    BY <2>2, Zenon DEF UInv, MountInv
  <2>4. (zip \in ZipScopes)' /\ ZipInv'
    BY <2>2, Zenon DEF UInv, ZipInv
  <2> QED
    BY <2>1, <2>3, <2>4, Zenon DEF UInv
<1>8. CASE Answer
  <2>1. ServiceInv'
    BY <1>8, Zenon DEF UInv, ServiceInv, Answer
  <2>2. (zip \in ZipScopes)' /\ MountInv' /\ ZipInv'
    BY <1>8, Zenon DEF UInv, MountInv, ZipInv, Answer
  <2> QED
    BY <2>1, <2>2, Zenon DEF UInv
<1> QED
  BY <1>1, <1>2, <1>3, <1>4, <1>5, <1>6, <1>7, <1>8, Zenon DEF Batch

(* So does the operation of a batch. *)
LEMMA WriteUsers ==
  ASSUME UInv, Write \/ Child
  PROVE  UInv'
<1> USE DEF Untouched, Preparing, Writing, Reversible, Busy, scope, users, super, writer, ending, outer
<1>1. CASE Write
  BY <1>1, BatchStepKeeps, Zenon DEF Write, Spawn, Readback, ZipWrite, Fail, AfterFailure
<1>2. CASE Child
  BY <1>2, BatchStepKeeps, Zenon DEF Child, ChildWrites, ChildReports, ChildExits
<1> QED
  BY <1>1, <1>2, Zenon

(* So does the scope of an installer ZIP. *)
LEMMA ZipUsers ==
  ASSUME IInv, UInv, Zip
  PROVE  UInv'
<1> USE DEF Outside, scope, users, super, writer, ending, outer
<1>1. CASE BeginZip
  <2>1. PICK o \in QuiesceOutcomes, planned \in BOOLEAN :
          /\ stopped' = stopped \cup o[2] /\ mount' = Unmounted(o[3])
          /\ zip' = [active |-> TRUE, done |-> FALSE, services |-> o[2], journal |-> o[3],
                     left |-> o[3], planned |-> planned, failed |-> FALSE, table |-> table]
          /\ pc' = IF o[1] THEN "zip" ELSE "zipRestore"
    BY <1>1, Zenon DEF BeginZip
  <2>2. pc = "idle" /\ ~zip.active /\ UNCHANGED <<saved, journal, warned, table>>
    BY <1>1, Zenon DEF BeginZip
  <2>3. saved = {} /\ journal = {} /\ zip.services = {}
    BY <2>2, Zenon DEF UInv, ServiceInv
  <2>4. /\ o[2] \subseteq Services \ stopped /\ o[3] \subseteq Places /\ mount' \in [Devices -> {"up", "down"}]
        /\ \A k \in o[3] : \A m \in Devices : Parent[m] = MountOrder[k] => mount'[m] # "up"
        /\ o[1] => \A m \in Devices : mount'[m] # "up"
    BY <2>1, Quiesced, QuiescedMounts, Zenon DEF UInv, MountInv
  <2>5. (zip \in ZipScopes)'
    BY <2>1, <2>4, Zenon DEF ZipScopes, IInv, PartsOK
  <2>6. ServiceInv'
    BY <2>1, <2>2, <2>3, Zenon DEF UInv, ServiceInv
  <2>7. MountInv'
    BY <2>1, <2>2, <2>3, <2>4, Zenon DEF MountInv
  <2>8. ZipInv'
    BY <2>1, Zenon DEF ZipInv
  <2> QED
    BY <2>5, <2>6, <2>7, <2>8, Zenon DEF UInv
<1>2. CASE InstallerReturns
  <2>1. ServiceInv' /\ MountInv'
    BY <1>2, Zenon DEF UInv, ServiceInv, MountInv, InstallerReturns
  <2>2. (zip \in ZipScopes)' /\ ZipInv'
    BY <1>2, Zenon DEF UInv, ZipInv, InstallerReturns
  <2> QED
    BY <2>1, <2>2, Zenon DEF UInv
<1>3. ASSUME NEW left \in BOOLEAN, ZipOver(left), pc \in {"zipRestore", "zipMounts"} PROVE UInv'
  <2>1. zip' = [NoZip EXCEPT !.done = TRUE] /\ zip' \in ZipScopes
    BY <1>3, Zenon DEF ZipOver, NoZip, ZipScopes
  <2>2. ~zip'.active /\ zip'.services = {} /\ zip'.left = {} /\ zip'.journal = {}
    BY <2>1, Zenon DEF NoZip
  <2>3. ServiceInv'
    BY <1>3, <2>2, Zenon DEF UInv, ServiceInv, ZipOver
  <2>4. MountInv' /\ ZipInv'
    BY <1>3, <2>2, Zenon DEF UInv, ServiceInv, MountInv, ZipInv, ZipOver
  <2> QED
    BY <2>1, <2>3, <2>4, Zenon DEF UInv
<1>4. CASE ZipLeavesStopped
  BY <1>3, <1>4, Zenon DEF ZipLeavesStopped
<1>5. CASE ZipComparesTables
  <2>1. ServiceInv' /\ MountInv'
    BY <1>5, Zenon DEF UInv, ServiceInv, MountInv, ZipComparesTables
  <2>2. (zip \in ZipScopes)' /\ ZipInv'
    BY <1>5, Zenon DEF UInv, ServiceInv, ZipInv, ZipComparesTables, SameTable
  <2> QED
    BY <2>1, <2>2, Zenon DEF UInv
<1>6. CASE ZipRestoresMount
  <2>1. PICK k \in Places :
          /\ NextMount(zip.left, k)
          /\ \/ /\ mount' = Mounted(MountOrder[k])
                /\ zip' = [zip EXCEPT !.left = zip.left \ {k}]
             \/ /\ zip' = [zip EXCEPT !.left = zip.left \ {k}, !.failed = TRUE]
                /\ mount' = mount
    BY <1>6, Zenon DEF ZipRestoresMount
  <2>2. pc = "zipMounts" /\ UNCHANGED <<pc, saved, stopped, journal, warned, table>>
    BY <1>6, Zenon DEF ZipRestoresMount
  <2>3. k \in zip.left /\ MountOrder[k] \in Devices
    BY <2>1, Zenon DEF NextMount, Devices
  <2>4. /\ zip' \in ZipScopes /\ zip'.active = zip.active /\ zip'.services = zip.services
        /\ zip'.journal = zip.journal /\ zip'.left = zip.left \ {k} /\ zip'.planned = zip.planned
        /\ zip'.table = zip.table
    <3>1. zip \in ZipScopes
      BY Zenon DEF UInv
    <3>2. CASE zip' = [zip EXCEPT !.left = zip.left \ {k}]
      BY <3>1, <3>2, Zenon DEF ZipScopes
    <3>3. CASE zip' = [zip EXCEPT !.left = zip.left \ {k}, !.failed = TRUE]
      BY <3>1, <3>3, Zenon DEF ZipScopes
    <3> QED
      BY <2>1, <3>2, <3>3, Zenon
  <2>5. /\ mount' \in [Devices -> {"up", "down"}]
        /\ \A l \in zip.left \ {k} : \A m \in Devices : Parent[m] = MountOrder[l] => mount'[m] # "up"
        /\ \A m \in Devices : mount[m] = "up" => mount'[m] = "up"
    <3>0. NextMount(zip.left, k)
      BY <2>1, Zenon
    <3>1. /\ mount \in [Devices -> {"up", "down"}] /\ zip.left \subseteq Places
          /\ \A l \in zip.left : \A m \in Devices : Parent[m] = MountOrder[l] => mount[m] # "up"
      BY Zenon DEF UInv, MountInv
    <3>2. /\ Mounted(MountOrder[k]) = [mount EXCEPT ![MountOrder[k]] = "up"]
          /\ \A l \in zip.left \ {k} : \A m \in Devices :
               Parent[m] = MountOrder[l] => Mounted(MountOrder[k])[m] # "up"
      <4> DEFINE left == zip.left
      <4>1. /\ left \in SUBSET Places /\ NextMount(left, k)
            /\ \A l \in left : \A m \in Devices : Parent[m] = MountOrder[l] => mount[m] # "up"
        BY <3>0, <3>1, Zenon
      <4> HIDE DEF left
      <4>2. /\ Mounted(MountOrder[k]) = [mount EXCEPT ![MountOrder[k]] = "up"]
            /\ \A l \in left \ {k} : \A m \in Devices :
                 Parent[m] = MountOrder[l] => Mounted(MountOrder[k])[m] # "up"
        BY <3>1, <4>1, WalkedBack, Zenon
      <4> QED
        BY <4>2, Zenon DEF left
    <3>3. CASE mount' = mount
      BY <3>1, <3>3, Zenon
    <3>4. CASE mount' = Mounted(MountOrder[k])
      BY <2>3, <3>1, <3>2, <3>4, Zenon
    <3> QED
      BY <2>1, <3>3, <3>4, Zenon
  <2>6. ~zip'.failed => ~zip.failed /\ mount'[MountOrder[k]] = "up"
    <3>1. CASE zip' = [zip EXCEPT !.left = zip.left \ {k}, !.failed = TRUE]
      <4>1. zip'.failed = TRUE
        BY <3>1, Zenon DEF UInv, ZipScopes
      <4> QED
        BY <4>1, Zenon
    <3>2. CASE mount' = Mounted(MountOrder[k]) /\ zip' = [zip EXCEPT !.left = zip.left \ {k}]
      <4>1. zip'.failed = zip.failed
        BY <3>2, Zenon DEF UInv, ZipScopes
      <4>2. mount'[MountOrder[k]] = "up"
        BY <2>3, <3>2, Zenon DEF Mounted
      <4> QED
        BY <4>1, <4>2, Zenon
    <3> QED
      BY <2>1, <3>1, <3>2, Zenon
  <2>7. ServiceInv'
    BY <2>2, <2>4, Zenon DEF UInv, ServiceInv
  <2>8. MountInv'
    BY <2>2, <2>4, <2>5, Zenon DEF UInv, ServiceInv, MountInv
  <2>9. ZipInv'
    BY <2>2, <2>4, <2>5, <2>6, Zenon DEF UInv, MountInv, ZipInv, Devices
  <2> QED
    BY <2>4, <2>7, <2>8, <2>9, Zenon DEF UInv
<1>7. CASE ZipEnds
  BY <1>3, <1>7, Zenon DEF ZipEnds, UInv, ZipScopes
<1> QED
  BY <1>1, <1>2, <1>4, <1>5, <1>6, <1>7, Zenon DEF Zip

(* UInv is an invariant. *)
LEMMA UsersInvariance == Spec => []UInv
<1>1. IInv /\ UInv /\ [Next]_vars => UInv'
  <2> SUFFICES ASSUME IInv, UInv, [Next]_vars PROVE UInv'
    OBVIOUS
  <2>1. CASE UNCHANGED vars
    BY <2>1, Zenon DEF vars, scope, users, super, outer, UInv, ServiceInv, MountInv, ZipInv
  <2> QED
    BY <2>1, BatchUsers, WriteUsers, ZipUsers, Zenon DEF Next
<1> QED
  BY <1>1, Invariance, InitUInv, PTL DEF Spec

(* UsersRestored: when no job runs every stopped service was asked to start  *)
(* again or the user was warned, and no mount hides another, for any         *)
(* services and any tree of mounts (QuiesceDynamicPartitionUsers, the restore*)
(* loops of Run_Image_Flash_Batch and Run_Zip_Install).                      *)
THEOREM UsersComeBack == Spec => []UsersRestored
<1>1. UInv => UsersRestored
  BY Zenon DEF UInv, ServiceInv, MountInv, UsersRestored, Outside
<1> QED
  BY <1>1, UsersInvariance, PTL

(* ZipRestartIsSafe: the services that a ZIP stopped start again only on the *)
(* table and on all the mounts that they were stopped on, whatever ran inside*)
(* the ZIP (Run_Zip_Install).                                                *)
THEOREM ZipServicesRestartSafely == Spec => ZipRestartIsSafe
<1> DEFINE Step == zip.active /\ zip.planned /\ (\E s \in zip.services : s \in stopped /\ s \notin stopped') =>
                     /\ table = zip.table
                     /\ \A k \in zip.journal : mount[MountOrder[k]] = "up"
<1>1. UInv /\ [Next]_vars => [Step]_vars
  <2> SUFFICES ASSUME UInv, Next, zip.active, zip.planned,
                      NEW s \in zip.services, s \in stopped, s \notin stopped'
               PROVE  /\ table = zip.table
                      /\ \A k \in zip.journal : mount[MountOrder[k]] = "up"
    OBVIOUS
  <2> USE DEF users
  <2>1. ~Batch
    BY Zenon DEF Batch, Begin, Prepare, Refuse, PlanPhysical, Plan, Release, Commit,
       CommitRefused, Remap, Resolve, Open, Rollback, RollbackSkipped, RestoreMount, Restart,
       Answer, UInv, ServiceInv
  <2>2. ~Write /\ ~Child
    BY Zenon DEF Write, Spawn, Readback, ZipWrite, Child, ChildWrites, ChildReports, ChildExits
  <2>3. ZipEnds
    BY <2>1, <2>2, Zenon DEF Next, Zip, BeginZip, InstallerReturns, ZipLeavesStopped, ZipOver,
       ZipComparesTables, ZipRestoresMount
  <2>4. pc = "zipMounts" /\ zip.left = {} /\ ~zip.failed
    BY <2>3, Zenon DEF ZipEnds, ZipOver
  <2> QED
    BY <2>4, Zenon DEF UInv, ZipInv
<1> QED
  BY <1>1, UsersInvariance, PTL DEF Spec, ZipRestartIsSafe
-----------------------------------------------------------------------------
(* What the arguments above do not need of the types. *)
RestOK ==
  /\ kind \in {"none", "zip", "layout", "direct"} /\ batch \in BOOLEAN /\ before \subseteq Parts
  /\ saved \subseteq Services /\ stopped \subseteq Services /\ warned \in BOOLEAN
  /\ checkpoint \in BOOLEAN /\ metadataChanged \in BOOLEAN
  /\ handles \subseteq Images /\ started \in BOOLEAN /\ phase \in [Images -> Phases]
  /\ ok \in BOOLEAN /\ unrestored \in BOOLEAN /\ said \in {"none", "success", "untouched", "incomplete"}

(* A step that fails before anything is written, or leaves the writer alone.  *)
LEMMA RestKept ==
  ASSUME RestOK, FailUnwritten \/ UNCHANGED <<writer, ok>>,
         UNCHANGED <<scope, users, checkpoint, metadataChanged, unrestored, said, outer>>
  PROVE  RestOK'
<1>1. UNCHANGED <<kind, batch, before, saved, stopped, warned, checkpoint, metadataChanged, unrestored, said>>
  BY Zenon DEF scope, users, outer
<1>2. CASE UNCHANGED <<writer, ok>>
  <2>1. UNCHANGED <<handles, started, phase, ok>>
    BY <1>2, Zenon DEF writer
  <2> QED
    BY <1>1, <2>1, Zenon DEF RestOK
<1>3. CASE FailUnwritten
  <2>1. ok' = FALSE /\ handles' = {} /\ UNCHANGED <<started, phase>>
    BY <1>3, Zenon DEF FailUnwritten, Fail
  <2> QED
    BY <1>1, <2>1, Zenon DEF RestOK
<1> QED
  BY <1>2, <1>3, Zenon

(* The steps of the batch keep the rest of the types. *)
LEMMA BatchTyped == IInv /\ RestOK /\ Batch => RestOK'
<1> SUFFICES ASSUME IInv, RestOK, Batch PROVE RestOK'
  OBVIOUS
<1> USE DEF RestOK, scope, users, super, writer, ending, outer
<1>1. ASSUME NEW k \in {"zip", "layout", "direct"}, NEW chosen, NEW named, Begin(k, chosen, named) PROVE RestOK'
  BY <1>1, Zenon DEF Begin
<1>2. CASE Prepare
  BY <1>2, Quiesced, Zenon DEF Prepare
<1>3. CASE Refuse \/ CommitRefused
  <2>1. FailUnwritten /\ UNCHANGED <<scope, users, checkpoint, metadataChanged, unrestored, said, outer>>
    BY <1>3, Zenon DEF Refuse, CommitRefused
  <2> QED
    BY <2>1, RestKept, Zenon
<1>4. ASSUME NEW changed \in SUBSET Logical, Plan(changed) PROVE RestOK'
  <2>1. /\ UNCHANGED <<scope, users, checkpoint, metadataChanged, unrestored, said, outer>>
        /\ (FailUnwritten \/ UNCHANGED <<writer, ok>>)
    BY <1>4, Zenon DEF Plan
  <2> QED
    BY <2>1, RestKept, Zenon
<1>5. CASE Release
  <2>1. /\ UNCHANGED <<scope, users, checkpoint, metadataChanged, unrestored, said, outer>>
        /\ (FailUnwritten \/ UNCHANGED <<writer, ok>>)
    BY <1>5, Zenon DEF Release
  <2> QED
    BY <2>1, RestKept, Zenon
<1>6. CASE Commit
  BY <1>6, Zenon DEF Commit, Noted, FailUnwritten, Fail
<1>7. CASE Remap \/ Resolve
  <2>1. UNCHANGED <<scope, users, checkpoint, metadataChanged, unrestored, said, outer>>
    BY <1>7, Zenon DEF Remap, Resolve
  <2>2. FailUnwritten \/ UNCHANGED <<writer, ok>>
    BY <1>7, Zenon DEF Remap, Resolve
  <2> QED
    BY <2>1, <2>2, RestKept, Zenon
<1>8. CASE Open
  <2>1. UNCHANGED <<scope, users, super, unrestored, said, outer>>
    BY <1>8, Zenon DEF Open
  <2>2. CASE FailUnwritten
    BY <2>1, <2>2, RestKept, Zenon
  <2>3. CASE handles' = selected /\ UNCHANGED <<started, phase, ok>>
    BY <2>1, <2>3, Zenon DEF IInv, PartsOK
  <2> QED
    BY <1>8, <2>2, <2>3, Zenon DEF Open
<1>9. CASE Rollback
  BY <1>9 DEF Rollback
<1>10. CASE PlanPhysical \/ RollbackSkipped \/ RestoreMount \/ Restart
  <2>1. CASE PlanPhysical \/ RollbackSkipped
    BY <2>1 DEF PlanPhysical, RollbackSkipped
  <2>2. CASE RestoreMount
    BY <2>2, Zenon DEF RestoreMount
  <2>3. CASE Restart
    BY <2>3, Zenon DEF Restart
  <2> QED
    BY <1>10, <2>1, <2>2, <2>3, Zenon
<1>11. CASE Answer
  BY <1>11, Zenon DEF Answer
<1> QED
  BY <1>1, <1>2, <1>3, <1>4, <1>5, <1>6, <1>7, <1>8, <1>9, <1>10, <1>11, Zenon DEF Batch

(* So do those of the writers and of a ZIP. *)
LEMMA WriteTyped == IInv /\ UInv /\ RestOK /\ (Write \/ Child \/ Zip) => RestOK'
<1> SUFFICES ASSUME IInv, UInv, RestOK, Write \/ Child \/ Zip PROVE RestOK'
  OBVIOUS
<1> USE DEF RestOK, scope, users, super, writer, ending, outer
<1>1. CASE Spawn
  BY <1>1, Zenon DEF Spawn
<1>2. CASE Readback
  BY <1>2, Zenon DEF Readback, Phases
<1>3. ASSUME NEW i \in Images, ZipWrite(i) PROVE RestOK'
  BY <1>3, Zenon DEF ZipWrite, Started, Fail
<1>4. ASSUME NEW i \in Images, ChildWrites(i) \/ \E p \in Phases : ChildReports(i, p) PROVE RestOK'
  <2>1. /\ UNCHANGED <<scope, users, super, handles, started, ending, outer>>
        /\ phase' = phase \/ \E p \in Phases : phase' = [phase EXCEPT ![i] = p]
    BY <1>4, Zenon DEF ChildWrites, ChildReports
  <2>2. phase' \in [Images -> Phases]
    BY <2>1, Zenon
  <2> QED
    BY <2>1, <2>2, Zenon
<1>5. ASSUME NEW clean \in BOOLEAN, ChildExits(clean) PROVE RestOK'
  BY <1>5, Zenon DEF ChildExits
<1>6. CASE BeginZip
  BY <1>6, Quiesced, Zenon DEF BeginZip
<1>7. CASE InstallerReturns \/ ZipComparesTables \/ ZipRestoresMount
  <2>1. UNCHANGED <<scope, saved, stopped, checkpoint, metadataChanged, writer, ending, warned>>
    BY <1>7, Zenon DEF InstallerReturns, ZipComparesTables, ZipRestoresMount
  <2> QED
    BY <2>1, Zenon
<1>8. CASE ZipLeavesStopped \/ ZipEnds
  BY <1>8 DEF ZipLeavesStopped, ZipEnds, ZipOver, UInv, ZipScopes
<1> QED
  BY <1>1, <1>2, <1>3, <1>4, <1>5, <1>6, <1>7, <1>8, Zenon DEF Write, Child, Zip

(* Journals, lists, table, mappings, data and answers stay well-typed,       *)
(* whatever of a batch or of a ZIP around it fails.                          *)
THEOREM TypeCorrect == Spec => []TypeOK
<1>1. Init => RestOK
  <2>1. Init => phase \in [Images -> Phases]
    BY Zenon DEF Init, Phases
  <2> QED
    BY <2>1, Zenon DEF Init, RestOK
<1>2. IInv /\ UInv /\ RestOK /\ [Next]_vars => RestOK'
  <2> SUFFICES ASSUME IInv, UInv, RestOK, [Next]_vars PROVE RestOK'
    OBVIOUS
  <2>1. CASE UNCHANGED vars
    BY <2>1, Zenon DEF vars, scope, users, super, writer, ending, outer, RestOK
  <2> QED
    BY <2>1, BatchTyped, WriteTyped, Zenon DEF Next
<1>3. IInv /\ UInv /\ RestOK => TypeOK
  <2> SUFFICES ASSUME IInv, UInv, RestOK PROVE TypeOK
    OBVIOUS
  <2>1. mount \in [Devices -> {"up", "down", "hidden"}] /\ journal \subseteq Places /\ zip \in ZipScopes
    BY Zenon DEF UInv, MountInv
  <2>2. layoutMappings \subseteq Parts /\ originalMappings \subseteq Parts /\ verified \subseteq Images
    BY Zenon DEF IInv, PartsOK, DataInv
  <2>3. pc \in {"idle", "quiesce", "plan", "release", "commit", "remap", "resolve", "open", "write",
             "child", "readback", "rollback", "restore", "answer", "zip", "zipRestore", "zipMounts"}
    BY Zenon DEF IInv, PartsOK, Outside, Untouched, Preparing, Writing, Reversible, Leaving
  <2> QED
    BY <2>1, <2>2, <2>3, Zenon DEF IInv, PartsOK, RestOK, TypeOK
<1> QED
  BY <1>1, <1>2, <1>3, Invariance, UsersInvariance, PTL DEF Spec
=============================================================================
