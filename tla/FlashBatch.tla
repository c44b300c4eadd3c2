----------------------------- MODULE FlashBatch -----------------------------
(***************************************************************************)
(* The image flashing jobs and the scope they run in:                      *)
(*   aera_image_flash_batch.hpp  the scope: prepare, operate, roll back,   *)
(*                               restore                                   *)
(*   partitionmanager.cpp        what is quiesced, prepared, rolled back   *)
(*                               and restored, and the same for ZIPs       *)
(*   aeraui/platform/aera_backend.cpp, payload_otaripper_batch.hpp         *)
(*                               the two jobs that write images            *)
(*                                                                         *)
(* A job stops the services and removes the mounts that use the partitions,*)
(* publishes one new Super table, maps its targets, opens them all and only*)
(* then writes.  Everything runs on one thread, but every call into liblp, *)
(* the device mapper, init and mount may fail, and each failure leaves its *)
(* own half-done state for the rollback and the restore to deal with.  A   *)
(* loop that stops at its first failure is one action here: it completes a *)
(* subset of its items.                                                    *)
(***************************************************************************)
EXTENDS Naturals

CONSTANTS Images,      \* the images of the package; a target has the name of its image
          Physical,    \* the images whose targets are physical partitions
          Others,      \* logical partitions of the slot that are not selected
          Cows,        \* stale snapshot COW partitions
          Services,    \* the bootstrap service and the services that use the mounts
          Bootstrap,   \* aera-audio-bootstrap
          MountOrder,  \* the mounted devices, children before parents
          Parent       \* Parent[m]: the device m is mounted below, or m

Logical == Images \ Physical
Parts == Logical \cup Others \cup Cows
Places == DOMAIN MountOrder
Devices == {MountOrder[k] : k \in Places}

ASSUME KindAssumption == Physical \subseteq Images /\ Others \cap Images = {} /\ Cows \cap (Images \cup Others) = {}
ASSUME ServiceAssumption == Bootstrap \in Services
ASSUME MountAssumption ==
  /\ Places \subseteq Nat /\ Parent \in [Devices -> Devices]
  /\ \A j, k \in Places : MountOrder[j] = MountOrder[k] => j = k
  /\ \A j, k \in Places : Parent[MountOrder[j]] = MountOrder[k] => j <= k

VARIABLES
  pc, kind,        \* control point; which job: "none", "zip", "layout", "direct"
  selected,        \* the images to flash: all, or the physical ones
  packaged,        \* the targets named "/logical/..."
  batch,           \* image_flash_batch_
  saved,           \* gQuiescedDynamicServices
  stopped,         \* services asked to stop and not asked to start since
  journal,         \* places of the FlashMounts marked removed that are still to be restored
  mount,           \* state of each mounted device: "up", "down", "hidden"
  checkpoint,      \* original_metadata is held
  table,           \* the Super table: "original", "prepared", "updater"
  moved,           \* partitions whose extents differ in the prepared table
  mapped,          \* the extents a partition is mapped with, or "no"
  resized, metadataChanged, unmappedCows, layoutMappings, originalMappings,
                   \* the image_flash_*_ members
  handles,         \* targets whose writer handles are open
  started,         \* the job's `started` / `writer_started`
  data,            \* what a target holds: "old", "partial", "new", "bad"
  phase,           \* gPayloadProgress: "Queued", "Writing", "Written", "Failed"
  verified,        \* images whose readback matched
  ok,              \* what the operation returned
  unrestored,      \* "Could not fully restore original Super metadata/mappings"
  said,            \* how the job ended: "none", "success", "untouched", "incomplete"
  zip,             \* zip_install_active_ with its local state, or NoZip
  warned,          \* "reboot recovery before using hardware services"
  before           \* observer: what was mapped when the batch began

scope == <<kind, selected, packaged, batch, before>>
users == <<saved, stopped, journal, mount>>
super == <<checkpoint, table, moved, mapped, resized, metadataChanged, unmappedCows,
           layoutMappings, originalMappings>>
writer == <<handles, started, data, phase, verified>>
ending == <<ok, unrestored, said>>
outer == <<zip, warned>>
vars == <<pc, scope, users, super, writer, ending, outer>>

Phases == {"Queued", "Writing", "Written", "Failed"}
NoZip == [active |-> FALSE, done |-> FALSE, services |-> {}, journal |-> {}, left |-> {},
          planned |-> FALSE, failed |-> FALSE, table |-> "original"]
ZipScopes == [active : BOOLEAN, done : BOOLEAN, services : SUBSET Services, journal : SUBSET Places,
              left : SUBSET Places, planned : BOOLEAN, failed : BOOLEAN,
              table : {"original", "prepared", "updater"}]
Targets == selected \ Physical      \* the logical targets
Up == {m \in Devices : mount[m] = "up"}
\* The extents of p in table t, and whether t lists p at all.
Extents(t, p) == IF t = "prepared" /\ p \notin moved THEN "original" ELSE t
Listed(t, p) == t = "prepared" => p \notin Cows /\ (kind = "layout" => p \notin Others)

TypeOK ==
  /\ pc \in {"idle", "quiesce", "plan", "release", "commit", "remap", "resolve", "open", "write",
             "child", "readback", "rollback", "restore", "answer", "zip", "zipRestore", "zipMounts"}
  /\ kind \in {"none", "zip", "layout", "direct"} /\ selected \subseteq Images /\ packaged \subseteq Logical
  /\ batch \in BOOLEAN /\ before \subseteq Parts
  /\ saved \subseteq Services /\ stopped \subseteq Services
  /\ journal \subseteq Places /\ mount \in [Devices -> {"up", "down", "hidden"}]
  /\ checkpoint \in BOOLEAN /\ metadataChanged \in BOOLEAN
  /\ table \in {"original", "prepared", "updater"}
  /\ mapped \in [Parts -> {"no", "original", "prepared", "updater"}]
  /\ moved \subseteq Parts /\ resized \subseteq Parts /\ unmappedCows \subseteq Cows
  /\ layoutMappings \subseteq Parts /\ originalMappings \subseteq Parts
  /\ handles \subseteq Images /\ started \in BOOLEAN /\ verified \subseteq Images
  /\ data \in [Images -> {"old", "partial", "new", "bad"}] /\ phase \in [Images -> Phases]
  /\ ok \in BOOLEAN /\ unrestored \in BOOLEAN
  /\ said \in {"none", "success", "untouched", "incomplete"}
  /\ zip \in ZipScopes
  /\ warned \in BOOLEAN

Init ==
  /\ pc = "idle" /\ kind = "none" /\ selected = {} /\ packaged = {} /\ batch = FALSE /\ before = {}
  /\ saved = {} /\ stopped = {} /\ journal = {} /\ mount = [m \in Devices |-> "up"]
  /\ checkpoint = FALSE /\ table = "original" /\ moved = {}
  \* A mounted partition is mapped; the others may be.
  /\ mapped \in [Parts -> {"no", "original"}]
  /\ \A m \in Devices \cap Parts : mapped[m] = "original"
  /\ resized = {} /\ metadataChanged = FALSE /\ unmappedCows = {}
  /\ layoutMappings = {} /\ originalMappings = {}
  /\ handles = {} /\ started = FALSE /\ data = [i \in Images |-> "old"]
  /\ phase = [i \in Images |-> "Queued"] /\ verified = {}
  /\ ok = FALSE /\ unrestored = FALSE /\ said = "none"
  /\ zip = NoZip /\ warned = FALSE
-----------------------------------------------------------------------------
(* Calls into other components, each of which may fail. *)

\* DestroyLogicalPartition on `done`; a partition that is not mapped is fine.
Destroyed(done) == [p \in Parts |-> IF p \in done THEN "no" ELSE mapped[p]]
\* CreateLogicalPartition on `done`: fails for a partition that is mapped, or
\* that table t does not list.
Mappable(t, m) == {p \in Parts : m[p] = "no" /\ Listed(t, p)}
Mapping(t, m, done) == [p \in Parts |-> IF p \in done THEN Extents(t, p) ELSE m[p]]

\* QuiesceDynamicPartitionUsers: `asked` services were sent ctl.stop, the last of
\* them perhaps in vain (a service is remembered before the wait for it), then the
\* mounts before the first one that is stuck were unmounted.
UpPlaces == {k \in Places : mount[MountOrder[k]] = "up"}
Unmounted(gone) ==
  [m \in Devices |-> IF \E k \in gone : MountOrder[k] = m THEN "down" ELSE mount[m]]
\* Which services are asked, and which mounts go.  Without mounts only the
\* bootstrap service is stopped.
QuiesceOutcomes ==
  LET running == (IF Up = {} THEN {Bootstrap} ELSE Services) \ stopped
  IN {<<TRUE, running, UpPlaces>>}
       \cup {<<FALSE, asked, {}>> : asked \in SUBSET running}
       \cup {<<FALSE, running, {k \in UpPlaces : k < stuck}>> : stuck \in UpPlaces}

\* RestoreFlashMount: mounting a parent hides a child that is already there.
\* The source of a logical mount is its /dev/block/mapper node.
Restorable(m) == m \in Parts => mapped[m] # "no"
Mounted(m) ==
  [n \in Devices |-> IF n = m THEN "up"
                     ELSE IF Parent[n] = m /\ mount[n] = "up" THEN "hidden" ELSE mount[n]]
-----------------------------------------------------------------------------
(* RunPreparedImageFlashBatch: begin and prepare. *)

\* Bound: one batch, and none on a Super table that a ZIP replaced.
Begin(k, chosen, named) ==
  /\ pc = "idle" \/ pc = "zip"
  /\ ~batch /\ said = "none" /\ table # "updater"
  /\ chosen # {} /\ named \subseteq chosen
  /\ k = "layout" => chosen = Images /\ named = Logical
  /\ k = "direct" => named = {}
  /\ kind' = k /\ selected' = chosen /\ packaged' = named /\ batch' = TRUE
  /\ before' = {p \in Parts : mapped[p] # "no"}
  /\ pc' = "quiesce"
  /\ UNCHANGED <<users, super, writer, ending, outer>>

\* Stop the users, then hold the original table if a target is logical.  When
\* this fails the operation does not run and nothing is rolled back.
Prepare ==
  /\ pc = "quiesce"
  /\ \E o \in QuiesceOutcomes, read \in BOOLEAN :
       /\ stopped' = stopped \cup o[2] /\ saved' = o[2]
       /\ journal' = o[3] /\ mount' = Unmounted(o[3])
       /\ checkpoint' = (o[1] /\ read /\ Targets # {})
       /\ pc' = IF o[1] /\ (read \/ Targets = {}) THEN "plan" ELSE "restore"
  /\ ok' = FALSE
  /\ UNCHANGED <<scope, table, moved, mapped, resized, metadataChanged, unmappedCows,
                 layoutMappings, originalMappings, writer, unrestored, said, outer>>

\* Mutant: the rollback runs even after writing began.
AfterFailureAlways(began) == "rollback"
AfterFailure(began) == IF began THEN "restore" ELSE "rollback"
\* The operation returns false: its writer handles close, and the batch rolls
\* back unless writing began.
Fail(began) ==
  /\ ok' = FALSE /\ handles' = {}
  /\ pc' = AfterFailure(began)
FailUnwritten == Fail(started) /\ UNCHANGED <<started, data, phase, verified>>
-----------------------------------------------------------------------------
(* Prepare_Image_Flash_Targets. *)

\* Targets or snapshots are refused, or the ROM layout cannot be planned.
Refuse ==
  /\ pc = "plan" /\ FailUnwritten
  /\ UNCHANGED <<scope, users, super, unrestored, said, outer>>

\* Choose the partitions to resize.  The mappings to release are recorded before
\* the layout is known to fit.
Plan(changed) ==
  /\ pc = "plan" /\ Targets # {}
  /\ layoutMappings' = IF kind = "layout" THEN Logical \cup Others ELSE changed \cap packaged
  /\ \/ /\ FailUnwritten      \* does not fit
        /\ UNCHANGED <<resized, moved>>
     \/ /\ moved' = IF kind = "layout" THEN Logical \cup Others ELSE changed
        /\ resized' = changed \ packaged
        /\ pc' = IF kind = "layout" \/ changed # {} \/ Cows # {} THEN "release" ELSE "resolve"
        /\ UNCHANGED <<writer, ok>>
  /\ UNCHANGED <<scope, users, checkpoint, table, mapped, metadataChanged, unmappedCows,
                 originalMappings, unrestored, said, outer>>

\* No target is logical: there is no Super table to plan.
PlanPhysical ==
  /\ pc = "plan" /\ Targets = {}
  /\ pc' = "resolve"
  /\ UNCHANGED <<scope, users, super, writer, ending, outer>>

Live(parts) == {p \in parts : mapped[p] # "no"}

\* Release the old mappings: of the layout, of the resized targets, of the COWs.
Release ==
  /\ pc = "release"
  /\ LET live == Live(layoutMappings)
         cows == Live(Cows)
     IN \/ /\ mapped' = Destroyed(live \cup resized \cup cows)
           /\ originalMappings' = live /\ unmappedCows' = cows
           /\ pc' = "commit" /\ UNCHANGED <<writer, ok>>
        \/ \E done \in SUBSET live : \E stuck \in live \ done :
             /\ mapped' = Destroyed(done)
             /\ originalMappings' = done \cup {stuck} /\ UNCHANGED unmappedCows
             /\ FailUnwritten
        \/ \E done \in SUBSET resized :
             /\ done # resized
             /\ mapped' = Destroyed(live \cup done)
             /\ originalMappings' = live /\ UNCHANGED unmappedCows
             /\ FailUnwritten
        \/ \E done \in SUBSET cows :
             /\ done # cows
             /\ mapped' = Destroyed(live \cup resized \cup done)
             /\ originalMappings' = live /\ unmappedCows' = done
             /\ FailUnwritten
  /\ UNCHANGED <<scope, users, checkpoint, table, moved, resized, metadataChanged, layoutMappings,
                 unrestored, said, outer>>

\* Mutant: the change is noted once UpdatePartitionTable succeeded.
NotedLate(updated) == updated
Noted(updated) == TRUE
\* One metadata commit.  UpdatePartitionTable may fail with either table on disk.
Commit ==
  /\ pc = "commit"
  /\ \E updated \in BOOLEAN :
       /\ metadataChanged' = Noted(updated)
       /\ table' \in {"prepared"} \cup (IF updated THEN {} ELSE {table})
       /\ IF updated THEN pc' = "remap" /\ UNCHANGED <<writer, ok>> ELSE FailUnwritten
  /\ UNCHANGED <<scope, users, checkpoint, moved, mapped, resized, unmappedCows, layoutMappings,
                 originalMappings, unrestored, said, outer>>

\* The snapshot state changed before the commit.
CommitRefused ==
  /\ pc = "commit" /\ FailUnwritten
  /\ UNCHANGED <<scope, users, super, unrestored, said, outer>>

\* Map the resized targets, or all targets of a layout, from the new table.
Remap ==
  /\ pc = "remap"
  /\ LET targets == IF kind = "layout" THEN Logical ELSE resized \cup layoutMappings
     IN \E done \in SUBSET targets :
          /\ mapped' = Mapping(table, mapped, done)
          /\ \/ done = targets /\ pc' = "resolve" /\ UNCHANGED <<writer, ok>>
             \/ done # targets /\ FailUnwritten
  /\ UNCHANGED <<scope, users, checkpoint, table, moved, resized, metadataChanged, unmappedCows,
                 layoutMappings, originalMappings, unrestored, said, outer>>

\* Find the block device of every target; a packaged one that is not mapped yet
\* is mapped, another one is an error.
Resolve ==
  /\ pc = "resolve"
  /\ LET targets == packaged \cap Mappable(table, mapped)
     IN \E done \in SUBSET targets :
          /\ mapped' = Mapping(table, mapped, done)
          /\ \/ (\A i \in Targets : mapped'[i] # "no") /\ pc' = "open" /\ UNCHANGED <<writer, ok>>
             \/ (\E i \in Targets : mapped'[i] = "no") /\ FailUnwritten
  /\ UNCHANGED <<scope, users, checkpoint, table, moved, resized, metadataChanged, unmappedCows,
                 layoutMappings, originalMappings, unrestored, said, outer>>
-----------------------------------------------------------------------------
(* The operation: claim every target, write, read back. *)

\* O_EXCL refuses a mounted device; the slot and ARB are checked again.
Open ==
  /\ pc = "open"
  /\ \/ /\ selected \cap Up = {}
        /\ handles' = selected
        /\ pc' = "write" /\ UNCHANGED <<started, data, phase, verified, ok>>
     \/ FailUnwritten
  /\ UNCHANGED <<scope, users, super, unrestored, said, outer>>

\* Mutant: `started` is set once a pwrite succeeded.
StartedLate(written) == started \/ written
\* `started` is set before the pwrite.
Started(written) == TRUE
\* VerifyWrittenFd
Matches(d) == d = "new"

\* The image ZIP job writes and reads back one image after the other.
ZipWrite(i) ==
  /\ pc = "write" /\ kind # "direct" /\ i \in selected \ verified
  /\ \/ \E d \in {"new", "bad"} :
          /\ data' = [data EXCEPT ![i] = d] /\ started' = Started(TRUE)
          /\ IF ~Matches(d) THEN UNCHANGED verified /\ Fail(started')
             ELSE /\ verified' = verified \cup {i}
                  /\ IF verified' = selected THEN ok' = TRUE /\ handles' = {} /\ pc' = "restore"
                                           ELSE UNCHANGED <<pc, ok, handles>>
     \* pwrite fails, perhaps after a part
     \/ \E d \in {data[i], "partial"} :
          data' = [data EXCEPT ![i] = d] /\ started' = Started(FALSE) /\ UNCHANGED verified /\ Fail(started')
     \* the staged image cannot be read
     \/ UNCHANGED <<data, verified, started>> /\ Fail(started)
  /\ UNCHANGED <<scope, users, super, phase, unrestored, said, outer>>

\* RunOtaripperBatch spawns the writer, which holds all targets at once.
Spawn ==
  /\ pc = "write" /\ kind = "direct"
  /\ \E launched \in BOOLEAN :
       started' = launched /\ pc' = IF launched THEN "child" ELSE "readback"
  /\ UNCHANGED <<scope, users, super, handles, data, phase, verified, ending, outer>>

ChildWrites(i) ==
  /\ pc = "child" /\ i \in selected
  /\ \/ data[i] = "old" /\ data' = [data EXCEPT ![i] = "partial"]
     \/ data[i] = "partial" /\ \E d \in {"new", "bad"} : data' = [data EXCEPT ![i] = d]
  /\ UNCHANGED <<pc, scope, users, super, handles, started, phase, verified, ending, outer>>

\* ParseDirectProgress: an image that is written or failed stays so.
ChildReports(i, p) ==
  /\ pc = "child" /\ i \in selected /\ phase[i] \in {"Queued", "Writing"} /\ p # phase[i]
  /\ CASE p = "Queued" -> FALSE
       [] p = "Writing" -> data[i] # "old"
       [] p = "Written" -> data[i] \in {"new", "bad"}
       [] p = "Failed" -> TRUE
  /\ phase' = [phase EXCEPT ![i] = p]
  /\ UNCHANGED <<pc, scope, users, super, handles, started, data, verified, ending, outer>>

\* The pipe ends and the writer is reaped; it may have failed or been killed.
ChildExits(clean) ==
  /\ pc = "child"
  /\ ok' = (clean /\ \A i \in selected : phase[i] = "Written")
  /\ pc' = "readback"
  /\ UNCHANGED <<scope, users, super, writer, unrestored, said, outer>>

\* Every image reported as written is read back by the image pool, which either
\* cannot start or checks them all (module ImagePool).
Readback ==
  /\ pc = "readback"
  /\ \E joined \in BOOLEAN :
       LET ready == {i \in Images : phase[i] = "Written"}
       IN /\ ready = {} => joined
          /\ verified' = IF joined THEN {i \in ready : Matches(data[i])} ELSE {}
          /\ ok' = (ok /\ joined /\ verified' = selected)
  /\ phase' = [i \in Images |-> IF phase[i] = "Writing" THEN "Failed" ELSE phase[i]]
  /\ handles' = {}
  /\ pc' = IF ok' THEN "restore" ELSE AfterFailure(started)
  /\ UNCHANGED <<scope, users, super, started, data, unrestored, said, outer>>
-----------------------------------------------------------------------------
(* Rollback and restore. *)

NothingPrepared ==
  ~checkpoint \/ (resized = {} /\ ~metadataChanged /\ unmappedCows = {} /\ layoutMappings = {})

RollbackSkipped ==
  /\ pc = "rollback" /\ NothingPrepared
  /\ pc' = "restore"
  /\ UNCHANGED <<scope, users, super, writer, ending, outer>>

\* Mutant: the COWs are not mapped again.
AgainWithoutCows == resized \cup originalMappings
Freed(stuck) == Destroyed((layoutMappings \cup resized) \ stuck)
Again == resized \cup originalMappings \cup unmappedCows
\* Release what was prepared, write the original table unless a mapping is stuck,
\* and map again what the lists name.
Rollback ==
  /\ pc = "rollback" /\ ~NothingPrepared
  /\ \E stuck \in SUBSET Live(layoutMappings \cup resized), updated \in BOOLEAN, failed \in SUBSET Parts :
       LET remapped == (Again \ failed) \cap Mappable(table', Freed(stuck))
       IN /\ table' \in IF stuck # {} THEN {table} ELSE IF updated THEN {"original"} ELSE {table, "original"}
          /\ failed \subseteq Again
          /\ mapped' = Mapping(table', Freed(stuck), remapped)
          /\ unrestored' = ~(stuck = {} /\ updated /\ remapped = Again)
  /\ pc' = "restore"
  /\ UNCHANGED <<scope, users, checkpoint, moved, resized, metadataChanged, unmappedCows,
                 layoutMappings, originalMappings, writer, ok, said, outer>>

\* Mutant: mounts are restored in the order in which they were removed.
NextMountForward(j, k) == k \in j /\ \A l \in j : k <= l
\* The saved mounts are walked backwards, parents before children.
NextMount(j, k) == k \in j /\ \A l \in j : l <= k

\* A mount that cannot be restored is reported, and the loop goes on.
RestoreMount ==
  /\ pc = "restore"
  /\ batch' = FALSE
  /\ \E k \in Places :
       /\ NextMount(journal, k)
       /\ mount' \in {mount} \cup (IF Restorable(MountOrder[k]) THEN {Mounted(MountOrder[k])} ELSE {})
       /\ journal' = journal \ {k}
  /\ UNCHANGED <<pc, kind, selected, packaged, before, saved, stopped, super, writer, ending, outer>>

\* Restart_Quiesced_Dynamic_Services; the lists of the batch are cleared.
Restart ==
  /\ pc = "restore" /\ journal = {}
  /\ batch' = FALSE
  /\ stopped' = stopped \ saved /\ saved' = {}
  /\ resized' = {} /\ metadataChanged' = FALSE /\ unmappedCows' = {}
  /\ layoutMappings' = {} /\ originalMappings' = {} /\ checkpoint' = FALSE
  /\ pc' = "answer"
  /\ UNCHANGED <<kind, selected, packaged, before, journal, mount, table, moved, mapped, writer, ending, outer>>

\* What the job tells its user.
Answer ==
  /\ pc = "answer"
  /\ said' = IF ok THEN "success" ELSE IF started THEN "incomplete" ELSE "untouched"
  /\ pc' = IF zip.active THEN "zip" ELSE "idle"
  /\ UNCHANGED <<scope, users, super, writer, ok, unrestored, outer>>
-----------------------------------------------------------------------------
(* Run_Zip_Install. *)

\* The stopped services move to a local list, so that a nested operation has a
\* saved set of its own.
BeginZip ==
  /\ pc = "idle" /\ ~batch /\ ~zip.active /\ saved = {}
  /\ ~zip.done      \* bound: one ZIP
  /\ \E o \in QuiesceOutcomes, planned \in BOOLEAN :
       /\ stopped' = stopped \cup o[2]
       \* Nothing is planned while the bootstrap service does not stop.
       /\ planned = (Up # {}) \/ (~o[1] /\ ~planned /\ o[2] \subseteq {Bootstrap} /\ o[3] = {})
       /\ zip' = [active |-> TRUE, done |-> FALSE, services |-> o[2], journal |-> o[3],
                  left |-> o[3], planned |-> planned, failed |-> FALSE, table |-> table]
       /\ mount' = Unmounted(o[3])
       /\ pc' = IF o[1] THEN "zip" ELSE "zipRestore"
  /\ UNCHANGED <<scope, saved, journal, super, writer, ending, warned>>

\* The installer returns; it may have replaced the Super table.
InstallerReturns ==
  /\ pc = "zip"
  /\ table' \in {table, "updater"}
  /\ pc' = "zipRestore"
  /\ UNCHANGED <<scope, users, checkpoint, moved, mapped, resized, metadataChanged, unmappedCows,
                 layoutMappings, originalMappings, writer, ending, outer>>

ZipOver(left) ==
  /\ zip' = [NoZip EXCEPT !.done = TRUE]
  /\ stopped' = stopped \ (IF left THEN {} ELSE zip.services)
  /\ warned' = (warned \/ left)
  /\ pc' = "idle"
  /\ UNCHANGED <<scope, saved, journal, mount, super, writer, ending>>

\* The Super table differs or cannot be read: everything stays stopped.
ZipLeavesStopped == pc = "zipRestore" /\ zip.planned /\ ZipOver(TRUE)

\* Mutant: the tables are not compared.
SameTableAssumed == TRUE
\* SameFlashMetadata
SameTable == table = zip.table

ZipComparesTables ==
  /\ pc = "zipRestore" /\ (zip.planned => SameTable)
  /\ pc' = "zipMounts"
  /\ UNCHANGED <<scope, users, super, writer, ending, outer>>

ZipRestoresMount ==
  /\ pc = "zipMounts"
  /\ \E k \in Places :
       /\ NextMount(zip.left, k)
       /\ \/ /\ Restorable(MountOrder[k]) /\ mount' = Mounted(MountOrder[k])
             /\ zip' = [zip EXCEPT !.left = @ \ {k}]
          \/ /\ zip' = [zip EXCEPT !.left = @ \ {k}, !.failed = TRUE]
             /\ UNCHANGED mount
  /\ UNCHANGED <<pc, scope, saved, stopped, journal, super, writer, ending, warned>>

\* Services are started again only if every mount was restored.
ZipEnds == pc = "zipMounts" /\ zip.left = {} /\ ZipOver(zip.failed)
-----------------------------------------------------------------------------
Batch ==
  \/ \E k \in {"zip", "layout", "direct"}, named \in SUBSET Logical : Begin(k, Images, named)
  \/ \E k \in {"zip", "direct"} : Begin(k, Physical, {})
  \/ Prepare \/ Refuse \/ PlanPhysical \/ \E changed \in SUBSET Logical : Plan(changed)
  \/ Release \/ Commit \/ CommitRefused \/ Remap \/ Resolve \/ Open
  \/ Rollback \/ RollbackSkipped \/ RestoreMount \/ Restart \/ Answer
Write == Spawn \/ Readback \/ \E i \in Images : ZipWrite(i)
Child ==
  \/ \E i \in Images : ChildWrites(i) \/ \E p \in Phases : ChildReports(i, p)
  \/ \E clean \in BOOLEAN : ChildExits(clean)
Zip ==
  \/ BeginZip \/ InstallerReturns \/ ZipLeavesStopped
  \/ ZipComparesTables \/ ZipRestoresMount \/ ZipEnds
Next == Batch \/ Write \/ Child \/ Zip

Spec == Init /\ [][Next]_vars
-----------------------------------------------------------------------------
Over == pc \in {"idle", "zip"} /\ said # "none"

\* What the job says is true.  "Selected images flashed and verified": every target
\* holds its whole image and is mapped, if it is logical, with the extents of the
\* table on disk.  "No image data written" and "Stopped before writing image data":
\* no target was touched, however the writer failed.
AnswerIsTrue ==
  Over =>
    /\ said = "success" => /\ \A i \in selected : data[i] = "new"
                           /\ table # "updater" => \A i \in Targets : mapped[i] = Extents(table, i)
    /\ said = "untouched" => \A i \in Images : data[i] = "old"

\* A rollback that does not report a failure maps again every partition that the
\* preparation had released.
ReleasedIsRemapped ==
  [][pc = "rollback" /\ pc' = "restore" /\ ~unrestored' =>
       \A p \in before : mapped[p] = "no" => mapped'[p] # "no"]_vars

\* "The outer batch restores the original complete table/extents if preparation
\* fails": a job that stopped before writing and reported no failure to restore
\* leaves everything mapped that was mapped when it began.
RollbackRestores ==
  said = "untouched" /\ Over /\ ~unrestored => \A p \in before : mapped[p] # "no"

\* A job that reported no failure to restore leaves a Super table and mappings that
\* agree: a job that stopped before writing leaves the original table, and no
\* partition stays mapped with extents that the table on disk does not have (a writer
\* through such a mapping would overwrite another partition).
LayoutIsConsistent ==
  Over /\ ~unrestored /\ table # "updater" =>
    /\ said = "untouched" => table = "original"
    /\ \A p \in Parts : mapped[p] \in {"no", Extents(table, p)}

\* "Never restore old extents after writing begins": once a target was written,
\* the job leaves table and mappings alone.
NoRollbackAfterWrite ==
  [][(\E i \in Images : data[i] # "old") /\ pc \notin {"idle", "zip"} => UNCHANGED <<table, mapped>>]_vars

\* The users of the partitions come back: a service that was asked to stop is asked
\* to start again, or the user was told to reboot recovery, also when its stop timed
\* out and for nested operations; and no mount is restored before its parent, which
\* would hide it.
UsersRestored ==
  pc = "idle" => (stopped # {} => warned) /\ \A m \in Devices : mount[m] # "hidden"

\* "Never restart consumers against missing or incompatible mounts": the services
\* that a ZIP stopped stay stopped while the installer and anything nested in it
\* run, and start only on the table and the mounts that they were stopped on.
ZipRestartIsSafe ==
  [][zip.active /\ zip.planned /\ (\E s \in zip.services : s \in stopped /\ s \notin stopped') =>
       /\ table = zip.table
       /\ \A k \in zip.journal : mount[MountOrder[k]] = "up"]_vars
=============================================================================
