# Formal verification of the AERA recovery

The AERA recovery is a TWRP-derived Android recovery. Beside the inherited engine
(partitions, archives, installation) it has its own touch interface (`aeraui/`), a
local-network computer connection with backups to a computer (`aera_remote/`), a
payload and image flasher, and a host for plugin processes. This directory holds
TLA+ models of the concurrent core of that code, their model-checking
configurations for TLC, and proofs checked by TLAPS. All paths below are relative
to `src/`.

## Inventory

What makes this code hard is not its size but who shares what:

| Part | State | Operations | Shared between |
|---|---|---|---|
| readback pool, `aeraui/features/update/payload_parallel.hpp` | `State` on the stack of the caller | create threads, release, dequeue, work, join | caller and worker threads |
| storage bridge, `Bridge` in `aera_remote/pc_storage.cpp` | one request slot, owner, sequence number, two deadlines | `Begin`, `Stop`, `Heartbeat`, `Poll`, `Reply`, `Call` | FUSE loop, browsers over HTTP, UI thread |
| `/pc` file system, same file, with the writer of `aera_remote/client/pc/backups.js` | write buffers, read-ahead, latched error; browser streams, queues, kept `File` objects | open, read, write, close, fsync, truncate, rename, unlink; queued disk writes | FUSE loop, the page's promises, the backup job |
| transfers and jobs, `g_transfer` in `aera_remote/pc_connection.cpp` and its use in `aeraui/core/engine.cpp` | phase, files on storage, generation of the service, `pc_job_id_` | prepare, upload, download, select, queue, cancel, begin, complete, enable, disable | connection handlers, download thread, UI thread, job worker |
| cancellation, `aera_remote/backup_cancel.hpp`, `CancelBackup` | token, request flags, child watcher | begin, request, finish, terminate, kill, reap | UI thread, browser, worker, watcher thread, forked child |
| plugin activities, `aeraui/features/plugin_api/activity.cpp` | registry of tasks, storage lease | set, cancel, remove, acquire, release | UI thread, plugin processes, recovery workers |
| image flashing, `aera_image_flash_*.hpp`, `partitionmanager.cpp`, `aeraui/platform/aera_backend.cpp`, `payload_otaripper_batch.hpp` | stopped services, removed mounts, Super table, device mapper, journals of what was changed | quiesce, plan, release, commit, map, open, write, read back, roll back, restore | one thread and one writer process; every call may fail half-way |
| flash and diagnostic logs, `aera_flash_log.cpp`, `aera_flash_log_platform.cpp` | raw directories and reports in two roots, locks, `active` | record, package, recover, prune, list | recorder, readers, a process that is killed, a phone that loses power |
| Wi-Fi, `aera_wifi_dispatcher.cpp`, `wlan.cpp`, `RecoveryRunWifi` | folded requests, flags, supplicant, preferences | submit, restore, enable, scan, connect, disable, poll | dispatcher thread, UI's Wi-Fi worker, start-up, the network |

The other parts (pairing and sessions, RPC, secrets, the inherited engine, vendored
code) are listed in `PROJECT.json` with the reason they are not modelled. The hazards
of the modelled parts are listed there at the line where they bite, with the properties
that would catch them.

The parts interact: a PC backup is queued as a transfer (`PcTransfer`), begins as
an operation that can be cancelled (`BackupControl`), writes through `/pc`
(`PcStream`), and each of its requests crosses the bridge (`PcBridge`). The models
meet at narrow interfaces: `PcStream` takes from `PcBridge` that a call succeeds,
is refused, or fails and ends the session; `PcTransfer` keeps of the bridge whether
it is open; `BackupControl` keeps of the transfer the phases queued and installing.
`FlashBatch` reads its images back with the pool and takes from `ImagePool`, which
`ParallelImages` is shown to implement, that the pool cannot start or checks them all.

## Modules

### ParallelImages

`RunParallelImages`. The main thread creates workers one by one (`CreateThread`,
`CreateFails`); they wait on the condition variable until `Release`. `Dequeue` is
the block under the mutex, `WorkSucceeds` and `WorkFails` the call outside it,
`JoinAll` the joins and the returned value. Which images are bad is chosen by `work`
at the time; thread creation may fail at any point.

### ImagePool

What the caller of `RunParallelImages` may rely on: images are processed one by one, in
any order and each at most once, nothing is processed after the answer, and the answer
is true exactly when all were good. `ParallelImages` implements it under the mapping
`Pool` (property `ImplementsPool`, theorem `PoolRefined`): the outcome of an image is
what its worker found, the answer is the value returned.

### PcBridge

Class `Bridge`. Every method runs under `lock_` and is one step; `Call` releases it
in its two waits, so it is `Enter`, then `Issue` or `Refuse`, then `ReturnAnswer` or
`ReturnFailure`. `Poll` covers the three methods that hand the request to the
browser. A fetched request stays in `held` and can be answered late, twice, by a
former owner, or never. Clock readings are ages since the request and since the last
heartbeat, so that time needs no bound of its own. `performed`, `issued`, `result`,
`broken` and `session` only observe.

### PcStream

The callbacks of the FUSE file system as short plans of steps (flush, evict, forget,
append, fetch, commit, ...), since a callback makes several bridge calls and stops at
the first that fails. A step that needs the browser succeeds as `pcOperation` would
(`Performs`, `WriterAfter`, `DiskAfter`, `SnapshotAfter`), or fails with or without
the session. Disk writes run later (`DiskWrite`) or fail (`DiskWriteFails`); closing
the page discards uncommitted streams (`PumpEnds`). `JobEnds` is the completion test
of `RecoveryRunPcBackup`: the marker is removed only if the engine succeeded and
`WriteError()` is 0. `ideal` observes what the engine was told it wrote.

Use assumed of the environment: a file is written through one descriptor at a time
and truncated only through it, which is what the backup engine does; libfuse moves
open targets of rename and unlink out of the way (external). `truncate` of a path
without a descriptor would open a browser stream that no `close` commits; the backup
engine does not do this.

### PcTransfer

`g_transfer`. A block under `g_lock` is one step, except that a block which calls
`RemoveTransferFiles` is two: the block with the unlink calls, and rmdir
(`RemoveDirectory`), between which `removing` is set and `g_lock` is held
(`LockFree`). The workers open and rename files without the lock (`UploadOpen`,
`FetchOpen`, `FetchRename`), so these steps can fall in between; a partial file that is
created there keeps the directory (`overtaken`). Requests that release the lock are
handler programs: `Upload` (accept, open, receive, settle, finish), `FileCommand`
(select, review), `PrepareTransfer` of a URL (`Prepare`, then `Spawn`); `FetchTransfer`
is the download thread. The UI thread polls (`Poll`, `TakeReboot`, `TakeInstall`),
begins and completes jobs (`BeginInstall`, `Resume`, `JobDone`) and switches the
service (`Disable`, `DisableJoin`, `DisableClear`, `Enable`). `CancelUpload` is
`CancelTransfer` while uploading. Simplifications: the three unlink calls are one
step, since an open after the first has the effect of one after the last, and a rename
finds its file only before the first; creating a transfer's directory is one step;
steps of the UI thread without `g_lock` wait for it too, as they touch nothing that
rmdir touches; the join of the old download thread and the start of the new one are
one step, since `g_download_lock` is held across both; `ExternalChange` deletes the
file, or changes its size so that `BeginInstall` no longer takes it for the verified
one (a change that keeps the size is not modelled, and not noticed by the code);
`RejectInstall` has no caller in the engine and therefore no action. `Features`
selects the requests and events a run considers. `lateFetch`, `overtaken` and `dropped`
observe the known behaviours below, so that the other properties can be stated around
them.

### BackupControl

`Control` with its token and flags, the PC side's flags, the phone's confirmation
sheets (one swipe for a backup, two for a restore), the browser's `CancelBackup`, the
worker that forks children one after another, and `BackupChildCancellation`. A child
may ignore SIGTERM. Atomics are separate variables from the state under the mutex
because the worker reads only the former. With `Overlap` a PC job may be queued while
a local operation runs: `PcBlockedByModal` keeps it queued while a sheet is open, and
`StartJob` does not look at `g_transfer`.

### PluginActivity

The registry, the lease with its per-thread depth, and the life of a runtime (running,
exited, closed, stopping, stopped). Messages of a batch are still handled after the
session was closed (`Attended`). A plugin is an external process; the model assumes
the contract of `features/plugin_api/README.md`: file work starts after a positive
answer and is over before the end is reported. It does not assume that helpers end
with the main process.

### FlashBatch

The scope of `aera_image_flash_batch.hpp` around the jobs that write images.
`Begin` and `Prepare` are `Run_Image_Flash_Batch` up to the operation: services are
stopped, mounts removed, the original Super table is held. `Plan`, `Release`, `Commit`,
`Remap` and `Resolve` are `Prepare_Image_Flash_Targets`; `Open`, `ZipWrite`, or `Spawn`,
`ChildWrites`, `ChildReports`, `ChildExits` and `Readback`, are the two writers;
`Rollback`, `RestoreMount` and `Restart` undo. `BeginZip` to `ZipEnds` are
`Run_Zip_Install`, inside which a batch may run. Everything is sequential: what is hard
is that each of some thirty calls may fail. A loop that stops at its first failure is
one action that completes a subset of its items. Partition contents are "old",
"partial", "new" or "bad", extents are named after the table they come from. A journal
of removed mounts is the set of their places in `MountOrder`, in which a mount comes
before its parent (`MountAssumption`); it is restored from its last place on.

A failed `UpdatePartitionTable` leaves either table on disk. `QuiesceOutcomes` includes
a service that was asked to stop and did not in time. Not modelled: replaying
`post.decrypt.modules`, after which the device's own start scripts may start services;
and power loss between the commit of the new table and the last image, for which the
code has no recovery: Super then lists partitions with old or partial contents.

### FlashLog

The recorder (`ToggleManual`, `Recording`) and the readers (`Reports`) as threads that
share files only. `Package` is `Archive`, `Rename`, `Date`, `Sync`, `Remove`;
`PruneAll` lists each root in a step of its own and deletes one entry per step.
`Crash` ends all threads and frees the locks, `PowerLoss` also empties `/tmp` and
may lose directory entries that were not synced, `Mount` changes whether the
persistent root is there. Times are two per recording, its start and later; a clock that
is set back is not modelled. `misdated` observes the window described below.

### WifiDispatcher

The dispatcher with its folded request bits (`Submitted`, `NextRequest`), `RestoreSession`
cut at each call and test, the early session that only takes over a running supplicant,
and the calls of `wlan.cpp`, two or three steps each under the operation mutex. The
user's worker runs `RecoveryRunWifi`. `Wlan::Init` clears the flags without the mutex,
as the code does. The supplicant may start without answering, not answer a query, lose
and find networks. Assumed: init stops the service within the time `Disable` waits,
and before decryption the supplicant does not end by itself.

## Runs

| Run | Shows | Instance | States |
|---|---|---|---|
| `parallel_images` | threads first, implements `ImagePool`, returns | 3 lanes, 4 images | 2.8 k |
| `pc_bridge` | authentic answers, one request, fail-stop, calls return | 2 callers, 2 browsers, 2 sessions, 2 requests | 0.62 M |
| `pc_stream` | completed backups are committed, close delivers, reads are coherent | 2 descriptors; one file and 2 writes, or two files, renames and 3 writes | 4.5 M |
| `pc_transfer` | clean files, verified payloads, own result, kept installations, transfers end | all requests and events, 2 handlers, 2 transfers, 4 switches | 0.66 M |
| `backup_control` | cancellations are own, not lost, not reported as success; children end | 3 operations | 43 k |
| `plugin_activity` | exclusive storage, one owner, visible work, fixed and returned claims | 2 plugins, 2 threads, nesting 2 | 0.75 M |
| `flash_batch` | true answers, consistent Super, users restored, no rollback after writing | 2 logical and 1 physical image, 1 other partition, 1 COW, 2 nested mounts, 2 services, 1 ZIP | 7.2 M |
| `flash_log` | running, saved and newest recordings are kept | 3 recordings, 1 reader, 1 crash, 1 mount change | 6.2 M |
| `wifi` | radio as asked, no bring-up before decryption, nothing slept through | 2 networks, 1 initialisation, early session | 0.45 M |
| `pc_transfer_race` | violated: a late download takes a running installation back | 2 transfers | |
| `flash_rollback` | violated: a refused layout is rolled back to less than there was | as `flash_batch` | |
| `backup_overlap` | violated: cancelling a queued job cancels a local restore | 3 operations | |

Bounds. Blocks of two units are the smallest in which a buffer can be partly full;
two writes make a continuation and a gap, three make an eviction between them. Two
requests in two sessions let a reply of the first arrive in the second. Two
transfers let a worker of the first meet its successor; four changes of the service
are off and on twice, so that a generation check matters. With two transfers a removal
is overtaken and a transfer replaced, but nothing follows the replacement; the case
that `NoOrphans` excepts needs a third, which only the proof covers. Three operations are a stale
confirmation and two chances to hit the wrong one. Time-outs of 1, 3 and 2 ticks keep
the order of the code's 45 s, 10 min and 90 s while letting each of them expire first.
In `flash_batch` one logical target is mounted and one is not, and the physical one
is mounted below a logical one, so that orders of mounting matter; the third recording
of `flash_log` is the first that has two older ones to prune. Symmetry is used only in
runs without liveness. `CHECK_DEADLOCK FALSE` stands where a bounded system ends: after
the one batch and the one ZIP, after the last recording.

Fairness. `ParallelImages`: every thread is scheduled and `work` returns. `PcBridge`:
a caller inside `Call` is scheduled and time passes; nothing is assumed of browsers.
`PcTransfer`: handlers and the download thread run on (their network reads time out),
jobs end, the UI thread finishes what it began; nothing is assumed of users.
`BackupControl`: the watcher thread is scheduled; the child need not exit.
`PluginActivity`: the UI thread polls runtimes in every frame. `WifiDispatcher`: both
threads run on (every wait in `wlan.cpp` has a limit), the dispatcher gets the mutex
in the end, the early session ends within its minute, and the supplicant answers a
query now and then, without which a lost connection cannot be noticed. Strong fairness
is used where another thread can disable the step again and again.

## What the runs found

Three runs show a disagreement between the code and its documentation; details are
under `findings` in `PROJECT.json`.

- `PrepareTransfer` of a URL starts the download on whatever transfer is current
  after it released the lock, and the end of `FetchTransfer` compares only the id: a
  running installation can be set back and lose its files. `InstallIsKept` shows that
  this is the only way.
- `Prepare_Image_Flash_Targets` lists the mappings to release before the layout is
  known to fit, and records which of them existed only while it releases them. When
  the layout does not fit, the rollback removes mappings that it does not make again,
  and reports success. Nothing is written; the partitions stay unmapped until the
  recovery is restarted. `ReleasedIsRemapped` shows that what the preparation itself
  released does come back.
- `CancelBackup` of a queued job also requests cancellation of the operation that is
  running, which may be a local restore.

Known behaviours without a run of their own, around which properties are stated:

- A PC job deferred behind a plugin catalogue refresh may not start, while
  `pc_job_id_` stays set: the next local job's result is reported for it
  (`engine.cpp:3398`; `ResultIsOwn` and `TransferEnds` except a dropped job).
- `SetActivity` keeps `result_file` by id only, across a change of storage
  (`activity.cpp:55`).
- `BeginInstall` sets "failed" when the verified file is gone, without
  `RemoveTransferFiles`, so the directory stays until the next transfer replaces it or
  the service is switched off (`PC_CONNECTION.md:216` promises removal after failure;
  `FinishedIsClean` excepts it).
- A worker that opens its partial file between the unlink calls and the rmdir of
  `RemoveTransferFiles` keeps the directory of a transfer that is cancelled or ends
  with the service (`pc_connection.cpp:241-244` against the open at 1731). The upload
  then removes its partial file only (1784), and the directory, without its
  `.transfer.json`, stays until the next transfer replaces it or the service is
  switched off again (`PC_CONNECTION.md:216` promises removal after cancellation).
  `FinishedIsClean` says that otherwise only a failed transfer leaves a directory, that
  no payload is left in either, and a partial file no longer than its worker runs.
- Between the rename of a report and its `utimensat` the report of an old recording
  carries the present time. A `PruneAll` in that window, or after a crash in it,
  may delete a newer report (`SavedIsKept` and `NewestIsKept` except it).
- A crash while packing can leave a "_SUCCESS" and an "_INCOMPLETE" report of one
  recording, which then count as two and push out an older one.
- The user's "off" during `RestoreSession` can be undone: `Scan` and `ConnectSaved`
  enable the radio again. `RadioAsAsked` counts orders given while no session was
  being restored, and orders of the preferences.

## Proofs

Each proof module extends its specification and proves `Spec => []Inv` for every
value of the constants, from the named assumptions of the specification, through an
inductive invariant `IInv`.

- `ParallelImagesProofs`: type correctness, `AllThreadsBeforeWork`, `TruthfulResult`,
  `OneWorkerPerImage`, and `PoolRefined`: the pool implements `ImagePool`. None of
  the invariants but the first two is inductive alone: that two workers
  differ in their image needs that every held index is below `next`, and the result
  needs that a bad image which was processed is recorded in `failed`. The refinement
  (`StepPool`) rests on the same invariant: the step that ends an image finds it
  unprocessed because its index is held by one worker.
- `PcBridgeProofs`: type correctness, `AnswerAuthentic`, `OneRequest`, `FailStop`.
  The strengthening says which caller the request slot belongs to (`CallInv`), that an
  accepted reply "ok" was performed by the owner (`ReplyInv`), and that a broken
  session is over (`BrokenInv`).
- `PluginActivityProofs`: type correctness, `ExclusiveStorage`, `OneOwner`,
  `WorkIsShown`, `ClaimIsFixed`, `Bounded`. The strengthening adds that the lease and
  claims on storage exclude each other (`LeaseOrClaims`), and that work, or a
  permission not yet used, has an active entry (`WorkIsClaimed`).
- `BackupControlProofs`: type correctness, `NoLostCancel`, `SuccessIsUncancelled`,
  `CompletedIsUncancelled`, `NoStraySignal`, and `CancelIsOwn` unless `Overlap`. The
  strengthening says that the atomics agree with the state under the mutex and an
  operation is active exactly from `Begin` to `Finish` (`ControlInv`), that the PC job
  is installing exactly while the UI thread has it as its operation (`PcInv`), and that
  a watcher which may still signal has a worker that has not reaped the child
  (`ChildInv`). `OwnInv` is the only part that needs `~Overlap`: a queued job then
  finds the UI thread idle.
- `FlashBatchProofs`: `AnswerIsTrue`, `LayoutIsConsistent`, `NoRollbackAfterWrite`,
  `ReleasedIsRemapped`, `UsersRestored`, `ZipRestartIsSafe`, for any images, partitions,
  services and mounts. The argument follows the control points: nothing is written
  before `started`, and nothing is rolled back after it (`DataInv`); a prepared table on
  disk has been noted and its original is held (`TableInv`); what moves in the table is
  unmapped when it is committed, so mappings always agree with the table (`MappingInv`);
  and what was released is in one of the three lists of the rollback (`ReleaseInv`). For
  the users: a stopped service is in the list of the batch or of the ZIP around it, or
  the user was warned (`ServiceInv`); nothing is up below a mount that is still to be
  restored, so a parent never hides its child (`MountInv`); and the mounts that a ZIP has
  restored are up on its own table when it starts services (`ZipInv`).
- `PcTransferProofs`: type correctness, `NoOrphans`, `FinishedIsClean`, `ResultIsOwn`,
  `InstallsVerified`, `UserFileKept`, `InstallIsKept`, for any number of handlers,
  transfers and switches of the service. The strengthening says what lies on storage
  (`FilesInv`: only the current transfer and the one being removed have a directory,
  and what is complete in one was verified), what a handler or the download thread may still do to a transfer that
  is no longer its own (`UploadInv`, `FetchInv`), that a `FileCommand` excludes others
  and finds the transfer it replaces over (`SelectInv`), that a download started in time
  either keeps its transfer "uploading" or will notice that the service was switched
  off (`LateInv`), and which job `pc_job_id_` names (`JobInv`). What a finished
  transfer leaves (`OnlyKnownLeftovers`) needs a second layer, `Clean`, which holds as
  long as no download was started late: a worker that has yet to open its file works
  on a transfer that is being received or removed (`OpenInv`), so what appears between
  unlink and rmdir is the file its one worker has just opened (`RemovingInv`); such a
  file is never taken for a received one (`PartInv`), and what rmdir had to leave holds
  no payload and is worked on while it holds a partial file (`RestInv`).
- `FlashLogProofs`: type correctness, `LiveIsKept`, `SavedIsKept`, `NewestIsKept`, for
  any number of readers, recordings, crashes and mounts. The lock of the work root makes
  packing exclusive (`LockInv`) and the worker holds it from its first step to its
  last (`WorkerInv`); start times are the numbers of the recordings (`CountInv`), so every
  entry of the last recording is newer than every other as long as reports carry
  the time of their recording (`TimeInv`, `DateInv`). A pruning keeps two entries, hence
  a victim has two newer ones (`TwoNewer`), and neither the directory nor the complete
  report of the last recording can be a victim, an incomplete one only beside another
  of the same recording (`VictimInv`). What is left is where the recording is between
  the steps of `Package` (`LiveInv`, `NewestInv`) and that a report whose path will be
  shown is synced before its directory is removed (`PathInv`).
- `WifiDispatcherProofs`: `RadioAsAsked` and `BringUpAfterUnlock`, for any number of
  initialisations. An order to switch off is pending, being carried out, or done with
  nothing under way that would undo it (`OffInv`); that nobody starts the radio between
  the two steps of `Disable` needs the mutex (`MutexInv`), and that an early session
  starts nothing needs that the radio it took over stays on until then (`UnlockInv`).

`TypeOK` of each module is its type invariant; it is proved for every module with
proofs (`TypeCorrect`) and in no run. In `FlashBatch` and `WifiDispatcher` the part that
the arguments do not need (`RestOK`) is proved last, from the other invariants.

Only model-checked: all liveness properties (fairness and ENABLED are outside the
prover's reach), and `PcStream`, whose three invariants compare what was written with
the contents that the plans and the queued disk writes will leave. They are not proved
yet; what a fold over the queue yields for every queue needs induction over sequences,
which the prover cannot instantiate from the library.

## Abstractions to know of

Where a model is coarser than the code, beside what the module sections say:

- `PcStream`: a call that fails changes nothing on the computer, although a failed
  unlink or rename may have got half-way (`backups.js:449-459`); `BackupOk` leaves out
  the test of `BackupCancelRequested` (`aera_backend.cpp:1060`), which `BackupControl`
  has, so more jobs complete than in the code.
- `BackupControl`: the pipe of a child ends when the child does (`StopWatcher`).
- `PluginActivity`: helpers that `StopProcess` sends SIGKILL do no more file work,
  although nobody waits for them (`launcher.cpp:135,158`).
- `FlashLog`: `RemoveRaw` is one step. The code unlinks file by file, the owner's mark
  last (`aera_flash_log.cpp:96-107`); a kill in the middle leaves a smaller recording
  that is removed later, or a directory without owner that nobody touches.
- `WifiDispatcher`: a failed `ConnectSaved` shows no network, although the code asks
  the supplicant once more; the selected network is an argument and not the shared
  `wlanselectedid`; a bring-up that was given up after 20 s has its effect in that step
  or never. `Initialize` follows decryption or its being skipped (`runner.cpp:573`), so
  `BringUpAfterUnlock` speaks of the end of the early phase, not of unlocked data.

## Not modelled

The repository is about 350,000 lines, most of them inherited or vendored (TWRP, AOSP,
libblkid, libfdisk, exfat, dosfstools, pigz, htop, libtar) or drawing code. The models
cover the parts that AERA added and in which several actors, or several steps that can
fail, share state. Left out, with the reason for each part in `PROJECT.json`:

- display, scenes, fonts, themes, translations: no state that outlives a frame;
- archive formats, compression, file systems, partition tools: algorithms on bytes,
  outside what an explicit-state model can say in fewer words than the code;
- inherited installation, sideload and A/B code without changes of AERA's own;
- applications (browser, media, games, Telegram): worker processes supervised like
  plugins.

Next, in this order: pairing and sessions of the PC connection, `CleanupOldTransfers`
across power loss, the plugin session's framing and operation approval, the RPC
dispatcher, bootloader messages; an abstract file store that `PcStream` implements.
