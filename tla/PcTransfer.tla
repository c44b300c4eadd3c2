----------------------------- MODULE PcTransfer -----------------------------
(***************************************************************************)
(* The one transfer or job of PC Connection: g_transfer of                 *)
(* aera_remote/pc_connection.cpp, from its preparation by a browser to its  *)
(* execution by the recovery's UI thread.                                  *)
(*                                                                         *)
(* Four kinds of thread work on it.  Connection handlers serve browser     *)
(* requests; those that release g_lock half-way (Upload, PrepareTransfer   *)
(* of a URL, FileCommand) are programs with a control point per handler,   *)
(* the others are one step.  FetchTransfer is the single download thread.  *)
(* The UI thread polls, begins and completes jobs, and switches the        *)
(* service off and on (SetEnabled).  A block under g_lock is one step,     *)
(* except that RemoveTransferFiles, which every thread calls under g_lock, *)
(* is two: workers open and rename files without the lock, and an open     *)
(* between the unlink calls and rmdir keeps the directory.                 *)
(*                                                                         *)
(* Transfers are numbered in the order of their preparation (0: none yet); *)
(* files[i] is what transfer i has on storage: its directory ("dir"), the  *)
(* partial file ("part"), the complete file ("payload").  For a file that  *)
(* was on the device before, "payload" alone stands for the user's file    *)
(* as it was when selected.                                                *)
(***************************************************************************)
EXTENDS Naturals, FiniteSets

CONSTANTS Handlers,
          Features,     \* the requests and outside events considered
          MaxTransfers, \* bound on the number of transfers prepared
          MaxToggles    \* bound on the number of SetEnabled calls that change g_running

Kinds == {"upload", "save", "url", "existing", "backup", "job"}
Events == {"toggle", "local", "reboot", "delete", "defer", "files"}
ASSUME FeatureAssumption == Features \subseteq Kinds \cup Events
ASSUME BoundAssumption == MaxTransfers \in Nat /\ MaxToggles \in Nat

Ids == 0..MaxTransfers
Phases == {"idle", "prepared", "uploading", "ready", "queued", "installing",
           "completed", "failed", "cancelled"}

VARIABLES
  running, generation,   \* g_running, g_generation
  t,                     \* g_transfer
  last,                  \* number of transfers created so far
  files,
  removing,              \* the transfer whose directory g_lock's holder is about to remove, or 0
  recoveryBusy, fileBusy, reboot,  \* g_recovery_busy, g_file_busy, g_reboot_target
  channel,               \* storage::Channel() is active
  handler,               \* control point, transfer, generation, outcome of each handler
  fetch,                 \* the same for the download thread
  ui, taken,             \* control point of the UI thread, id TakeInstallRequest returned
  job, pcJob,            \* the operation worker (id 0: a local job), pc_job_id_
  \* observers
  verified,              \* transfers whose bytes arrived complete and correct
  overtaken,             \* transfers whose directory could not be removed
  succeeded,             \* transfers whose own job returned 0
  lateFetch,             \* a download was started on a transfer that waits for none
  dropped                \* a deferred job was dropped

vars == <<running, generation, t, last, files, removing, recoveryBusy, fileBusy, reboot, channel,
          handler, fetch, ui, taken, job, pcJob, verified, overtaken, succeeded, lateFetch, dropped>>
service == <<running, generation>>
flags == <<recoveryBusy, fileBusy, reboot>>
uiVars == <<ui, taken, job, pcJob, succeeded, dropped>>
fetchVars == <<fetch, lateFetch>>
storage == <<files, removing>>
observed == <<verified, overtaken>>

Points == {"none", "spawn", "open", "receive", "settle", "rename", "finish", "select", "review"}
Transfers == [id : Ids, kind : Kinds, phase : Phases, cancel : BOOLEAN, shown : BOOLEAN]
Worker == [pc : Points, id : Ids, gen : 0..MaxToggles, ok : BOOLEAN]
Fetches == [pc : Points, id : Ids, kind : Kinds, gen : 0..MaxToggles, ok : BOOLEAN]
Jobs == [state : {"none", "deferred", "running"}, id : Ids]
FlagsOK ==
  /\ running \in BOOLEAN /\ channel \in BOOLEAN
  /\ recoveryBusy \in BOOLEAN /\ fileBusy \in BOOLEAN /\ reboot \in BOOLEAN
  /\ lateFetch \in BOOLEAN /\ dropped \in BOOLEAN
TypeOK ==
  /\ FlagsOK
  /\ generation \in 0..MaxToggles
  /\ t \in Transfers /\ last \in Ids
  /\ files \in [Ids -> SUBSET {"dir", "part", "payload"}]
  /\ removing \in Ids
  /\ handler \in [Handlers -> Worker] /\ fetch \in Fetches
  /\ ui \in {"idle", "taken", "joining", "clearing"} /\ taken \in Ids
  /\ job \in Jobs /\ pcJob \in Ids
  /\ verified \subseteq Ids /\ overtaken \subseteq Ids /\ succeeded \subseteq Ids

NoWorker == [pc |-> "none", id |-> 0, gen |-> 0, ok |-> FALSE]
NoFetch == [pc |-> "none", id |-> 0, kind |-> "url", gen |-> 0, ok |-> FALSE]
Init ==
  /\ running = TRUE /\ generation = 0
  /\ t = [id |-> 0, kind |-> "job", phase |-> "idle", cancel |-> FALSE, shown |-> FALSE]
  /\ last = 0
  /\ files = [i \in Ids |-> {}] /\ removing = 0
  /\ recoveryBusy = FALSE /\ fileBusy = FALSE /\ reboot = FALSE
  /\ channel = FALSE
  /\ handler = [h \in Handlers |-> NoWorker] /\ fetch = NoFetch
  /\ ui = "idle" /\ taken = 0
  /\ job = [state |-> "none", id |-> 0] /\ pcJob = 0
  /\ verified = {} /\ overtaken = {} /\ succeeded = {} /\ lateFetch = FALSE /\ dropped = FALSE
-----------------------------------------------------------------------------
TerminalPhase(p) == p \in {"idle", "completed", "failed", "cancelled"}

Free == ~recoveryBusy /\ ~fileBusy /\ ~reboot /\ TerminalPhase(t.phase)

HasDirectory(k) == k \in {"upload", "save", "url"}
Unlink(i, f) ==
  /\ files' = [f EXCEPT ![i] = @ \cap {"dir"}]
  /\ removing' = IF "dir" \in f[i] THEN i ELSE 0
\* Mutant: the user's own file is removed too.
RemoveOwnFile(i, k, f) == Unlink(i, f)
\* The unlink calls of RemoveTransferFiles, on storage as it is in f.
RemoveTransferFiles(i, k, f) ==
  IF HasDirectory(k) THEN Unlink(i, f) ELSE files' = f /\ UNCHANGED removing
\* Its rmdir, which fails when a partial file was created since.
RemoveDirectory ==
  /\ removing # 0
  /\ LET empty == files[removing] = {"dir"}
     IN  /\ files' = IF empty THEN [files EXCEPT ![removing] = {}] ELSE files
         /\ overtaken' = IF empty THEN overtaken ELSE overtaken \cup {removing}
  /\ removing' = 0
  /\ UNCHANGED <<service, t, last, flags, channel, handler, fetchVars, uiVars, verified>>

\* g_lock is free.  The UI thread's steps that do not need it touch nothing that
\* rmdir touches, and wait for it too.
LockFree == removing = 0

NewTransfer(k, p) ==
  [id |-> last + 1, kind |-> k, phase |-> p, cancel |-> FALSE, shown |-> FALSE]
FilesAfter(k) == CASE HasDirectory(k) -> {"dir"} [] k = "existing" -> {"payload"} [] OTHER -> {}
\* Mutant: the files of the previous transfer are forgotten.
ReplaceKeepingFiles(k, p) ==
  /\ last < MaxTransfers
  /\ last' = last + 1
  /\ t' = NewTransfer(k, p)
  /\ files' = [files EXCEPT ![last + 1] = FilesAfter(k)] /\ UNCHANGED removing
\* g_transfer is replaced: the previous transfer's files go, the new directory is there.
Replace(k, p) ==
  /\ last < MaxTransfers
  /\ last' = last + 1
  /\ t' = NewTransfer(k, p)
  /\ RemoveTransferFiles(t.id, t.kind, [files EXCEPT ![last + 1] = FilesAfter(k)])
Idle(h) == handler[h].pc = "none"
Go(h, point) == handler' = [handler EXCEPT ![h].pc = point]
Leave(h) == handler' = [handler EXCEPT ![h] = NoWorker]
-----------------------------------------------------------------------------
(* Requests that are one block under g_lock. *)

Prepare(h, k) ==
  /\ LockFree /\ k \in Features \cap {"upload", "save", "url"}
  /\ Idle(h) /\ running /\ Free
  /\ Replace(k, IF k = "url" THEN "uploading" ELSE "prepared")
  /\ IF k = "url" THEN Go(h, "spawn") ELSE UNCHANGED handler
  /\ UNCHANGED <<service, flags, channel, fetchVars, uiVars, observed>>

\* QueueBackup of computer storage opens the channel; root and network jobs do not.
Queue(k) ==
  /\ LockFree /\ k \in Features \cap {"backup", "job"}
  /\ Free
  /\ k = "backup" => ~channel
  /\ Replace(k, "queued")
  /\ channel' = (channel \/ k = "backup")
  /\ UNCHANGED <<service, flags, handler, fetchVars, uiVars, observed>>

Install ==
  /\ LockFree /\ t.phase = "ready" /\ t.kind # "save"
  /\ t' = [t EXCEPT !.phase = "queued", !.shown = FALSE]
  /\ UNCHANGED <<service, last, storage, flags, channel, handler, fetchVars, uiVars, observed>>
Save ==
  /\ LockFree /\ t.phase = "ready" /\ t.kind = "save"
  /\ ~recoveryBusy /\ ~fileBusy
  /\ "payload" \in files[t.id]
  /\ t' = [t EXCEPT !.phase = "completed"]
  /\ RemoveTransferFiles(t.id, t.kind, files)
  /\ UNCHANGED <<service, last, flags, channel, handler, fetchVars, uiVars, observed>>

\* Mutant: a running installation can be discarded like a pending one.
CancellableRunning == ~TerminalPhase(t.phase)
Cancellable == ~TerminalPhase(t.phase) /\ t.phase # "installing"
ChannelJob(k) == k = "backup"

CancelTransfer ==
  /\ LockFree /\ Cancellable
  /\ IF t.phase = "uploading"
     THEN t' = [t EXCEPT !.cancel = TRUE] /\ UNCHANGED <<storage, channel>>
     ELSE /\ t' = [t EXCEPT !.phase = "cancelled"]
          /\ channel' = (channel /\ ~ChannelJob(t.kind))
          /\ RemoveTransferFiles(t.id, t.kind, files)
  /\ UNCHANGED <<service, last, flags, handler, fetchVars, uiVars, observed>>

CancelBackup ==
  /\ LockFree /\ t.kind = "backup" /\ t.phase \in {"queued", "installing"}
  /\ t' = [t EXCEPT !.cancel = TRUE,
                    !.phase = IF @ = "queued" THEN "cancelled" ELSE @]
  /\ channel' = FALSE
  /\ UNCHANGED <<service, last, storage, flags, handler, fetchVars, uiVars, observed>>

Reboot ==
  /\ LockFree /\ "reboot" \in Features /\ Free
  /\ reboot' = TRUE
  /\ UNCHANGED <<service, t, last, storage, recoveryBusy, fileBusy, channel, handler, fetchVars, uiVars, observed>>
-----------------------------------------------------------------------------
(* Upload: receive the announced bytes, verify, rename, inspect. *)

\* A connection's generation is the one it was accepted in; SetEnabled(false)
\* has already moved on when the accepting handler still belongs to the last one.
ConnectionGeneration == IF running THEN generation ELSE generation - 1
UploadAccept(h) ==
  /\ LockFree /\ Idle(h)
  /\ t.kind \in {"upload", "save"} /\ t.phase = "prepared"
  /\ t' = [t EXCEPT !.phase = "uploading"]
  /\ handler' = [handler EXCEPT ![h] = [pc |-> "open", id |-> t.id,
                                        gen |-> ConnectionGeneration, ok |-> TRUE]]
  /\ UNCHANGED <<service, last, storage, flags, channel, fetchVars, uiVars, observed>>

\* open(O_CREAT | O_EXCL) of the partial file of transfer i.
Creatable(i) == "dir" \in files[i] /\ "part" \notin files[i]
UploadOpen(h) ==
  /\ handler[h].pc = "open"
  /\ LET i == handler[h].id
     IN  /\ files' = IF Creatable(i) THEN [files EXCEPT ![i] = @ \cup {"part"}] ELSE files
         /\ handler' = [handler EXCEPT ![h].pc = "receive", ![h].ok = Creatable(i)]
  /\ UNCHANGED <<removing, service, t, last, flags, channel, fetchVars, uiVars, observed>>

\* The transfer is still the one this upload was accepted for.
Live(w) == t.id = w.id /\ t.phase = "uploading" /\ running /\ generation = w.gen

\* The bytes arrive and match size and checksum (good), or they do not.
UploadReceive(h, good) ==
  /\ LockFree /\ handler[h].pc = "receive"
  /\ good => handler[h].ok /\ Live(handler[h]) /\ ~t.cancel
  /\ handler' = [handler EXCEPT ![h].pc = "settle", ![h].ok = good]
  /\ verified' = IF good THEN verified \cup {handler[h].id} ELSE verified
  /\ UNCHANGED <<service, t, last, storage, flags, channel, fetchVars, uiVars, overtaken>>

Renamed(i) == [files EXCEPT ![i] = (@ \ {"part"}) \cup {"payload"}]
\* Mutant: the partial file of an upload that is no longer wanted stays.
AbandonedAsItIs(i) == files
Abandoned(i) == [files EXCEPT ![i] = @ \ {"part"}]
Keeps(w) == w.ok /\ ~t.cancel /\ "part" \in files[w.id]
UploadSettle(h) ==
  /\ LockFree /\ handler[h].pc = "settle"
  /\ LET w == handler[h]
     IN  IF Live(w)
         THEN /\ files' = IF Keeps(w) THEN Renamed(w.id) ELSE files
              /\ handler' = [handler EXCEPT ![h].pc = "finish", ![h].ok = Keeps(w)]
         ELSE /\ files' = Abandoned(w.id)
              /\ Leave(h)
  /\ UNCHANGED <<removing, service, t, last, flags, channel, fetchVars, uiVars, observed>>

Outcome(ok) == IF t.cancel THEN "cancelled" ELSE IF ok THEN "ready" ELSE "failed"
UploadFinish(h) ==
  /\ LockFree /\ handler[h].pc = "finish"
  /\ LET w == handler[h]
     IN  IF Live(w)
         THEN /\ t' = [t EXCEPT !.phase = Outcome(w.ok)]
              /\ IF w.ok /\ ~t.cancel THEN UNCHANGED storage
                 ELSE RemoveTransferFiles(w.id, t.kind, files)
         ELSE UNCHANGED <<t, storage>>
  /\ Leave(h)
  /\ UNCHANGED <<service, last, flags, channel, fetchVars, uiVars, observed>>
-----------------------------------------------------------------------------
(* FileCommand: a file operation, or the selection of a file on the device. *)

FileAccess(h) ==
  /\ LockFree /\ Features \cap {"files", "existing"} # {}
  /\ Idle(h) /\ Free
  /\ fileBusy' = TRUE
  /\ Go(h, "select")
  /\ UNCHANGED <<service, t, last, storage, recoveryBusy, reboot, channel, fetchVars, uiVars, observed>>

FileDone(h) ==
  /\ LockFree /\ handler[h].pc = "select"
  /\ fileBusy' = FALSE
  /\ Leave(h)
  /\ UNCHANGED <<service, t, last, storage, recoveryBusy, reboot, channel, fetchVars, uiVars, observed>>

SelectExisting(h) ==
  /\ LockFree /\ "existing" \in Features
  /\ handler[h].pc = "select"
  /\ Replace("existing", "prepared")
  /\ handler' = [handler EXCEPT ![h].pc = "review", ![h].id = last + 1]
  /\ UNCHANGED <<service, flags, channel, fetchVars, uiVars, observed>>

ReviewExisting(h) ==
  /\ LockFree /\ handler[h].pc = "review"
  /\ t' = IF t.id = handler[h].id /\ t.phase = "prepared"
          THEN [t EXCEPT !.phase = "ready"] ELSE t
  /\ fileBusy' = FALSE
  /\ Leave(h)
  /\ UNCHANGED <<service, last, storage, recoveryBusy, reboot, channel, fetchVars, uiVars, observed>>
-----------------------------------------------------------------------------
(* A URL: PrepareTransfer joins the previous download thread and starts a   *)
(* new one on g_transfer as it is by then; FetchTransfer does the rest.     *)

Spawn(h) ==
  /\ LockFree /\ handler[h].pc = "spawn"
  /\ fetch.pc = "none"
  /\ fetch' = [pc |-> "open", id |-> t.id, kind |-> t.kind, gen |-> generation, ok |-> TRUE]
  /\ lateFetch' = (lateFetch \/ t.kind # "url" \/ t.phase # "uploading")
  /\ Leave(h)
  /\ UNCHANGED <<service, t, last, storage, flags, channel, uiVars, observed>>

\* The local function current(); the network may be gone at any time.
Current == Live(fetch) /\ ~t.cancel

FetchOpen ==
  /\ fetch.pc = "open"
  /\ files' = IF Creatable(fetch.id) THEN [files EXCEPT ![fetch.id] = @ \cup {"part"}]
              ELSE files
  /\ fetch' = [fetch EXCEPT !.pc = "receive", !.ok = Creatable(fetch.id)]
  /\ UNCHANGED <<removing, service, t, last, flags, channel, lateFetch, handler, uiVars, observed>>

FetchReceive(good) ==
  /\ LockFree /\ fetch.pc = "receive"
  /\ good => fetch.ok /\ Current
  /\ fetch' = [fetch EXCEPT !.pc = "settle", !.ok = good]
  /\ verified' = IF good THEN verified \cup {fetch.id} ELSE verified
  /\ UNCHANGED <<service, t, last, storage, flags, channel, lateFetch, handler, uiVars, overtaken>>

FetchSettle ==
  /\ LockFree /\ fetch.pc = "settle"
  /\ fetch' = [fetch EXCEPT !.pc = "rename", !.ok = @ /\ Current]
  /\ UNCHANGED <<service, t, last, storage, flags, channel, lateFetch, handler, uiVars, observed>>

FetchRename ==
  /\ fetch.pc = "rename"
  /\ LET done == fetch.ok /\ "part" \in files[fetch.id]
     IN  /\ files' = IF done THEN Renamed(fetch.id) ELSE files
         /\ fetch' = [fetch EXCEPT !.pc = "finish", !.ok = done]
  /\ UNCHANGED <<removing, service, t, last, flags, channel, lateFetch, handler, uiVars, observed>>

FetchFinish ==
  /\ LockFree /\ fetch.pc = "finish"
  /\ LET ok == fetch.ok /\ ~t.cancel /\ running /\ generation = fetch.gen
     IN  IF t.id = fetch.id
         THEN /\ t' = [t EXCEPT !.phase = IF ~running THEN "cancelled" ELSE Outcome(ok)]
              /\ IF ok THEN UNCHANGED storage
                 ELSE RemoveTransferFiles(fetch.id, fetch.kind, files)
         ELSE /\ RemoveTransferFiles(fetch.id, fetch.kind, files)
              /\ UNCHANGED t
  /\ fetch' = NoFetch
  /\ UNCHANGED <<service, last, flags, channel, lateFetch, handler, uiVars, observed>>
-----------------------------------------------------------------------------
(* The UI thread: PollPcConnection, the start and the end of operations. *)

\* SetRecoveryBusy; other UI activities than jobs make the recovery busy too.
Poll(b) ==
  /\ LockFree /\ ui = "idle"
  /\ job.state # "none" => b
  /\ b # recoveryBusy
  /\ recoveryBusy' = b
  /\ UNCHANGED <<service, t, last, storage, fileBusy, reboot, channel, handler, fetchVars, uiVars, observed>>

\* The rest of one poll runs when that poll found the recovery not busy.
PollFree == ui = "idle" /\ job.state = "none" /\ ~recoveryBusy

TakeReboot ==
  /\ LockFree /\ PollFree
  /\ reboot /\ ~fileBusy /\ TerminalPhase(t.phase)
  /\ reboot' = FALSE
  /\ UNCHANGED <<service, t, last, storage, recoveryBusy, fileBusy, channel, handler, fetchVars, uiVars, observed>>

TakeInstall ==
  /\ LockFree /\ PollFree
  /\ t.phase = "queued" /\ ~t.shown /\ ~fileBusy
  /\ t' = [t EXCEPT !.shown = TRUE]
  /\ ui' = "taken" /\ taken' = t.id
  /\ UNCHANGED <<service, last, storage, flags, channel, handler, fetchVars, job, pcJob, succeeded, dropped, observed>>

\* Mutant: the file is not looked at again.
PresentUnchecked == TRUE
Present == t.kind \in {"backup", "job"} \/ "payload" \in files[t.id]
Start(s) == job' = [state |-> s, id |-> t.id] /\ pcJob' = t.id
\* BeginInstall, and StartJob for the job it returns; StartJob defers the job
\* while a catalogue refresh of the plugins runs.
BeginInstall(s) ==
  /\ LockFree /\ ui = "taken"
  /\ s = "deferred" => "defer" \in Features
  /\ ui' = "idle" /\ taken' = 0
  /\ IF t.id = taken /\ t.phase = "queued"
     THEN /\ t' = [t EXCEPT !.phase = IF Present THEN "installing" ELSE "failed"]
          /\ IF Present THEN Start(s) ELSE UNCHANGED <<job, pcJob>>
     ELSE UNCHANGED <<t, job, pcJob>>
  /\ UNCHANGED <<service, last, storage, flags, channel, handler, fetchVars, succeeded, dropped, observed>>

\* The refresh is over: StartJob runs again, and returns without starting the job
\* when Wi-Fi, network storage or a plugin's storage activity began in the meantime.
Resume(starts) ==
  /\ LockFree /\ job.state = "deferred" /\ ui = "idle"
  /\ job' = IF starts THEN [job EXCEPT !.state = "running"] ELSE [state |-> "none", id |-> 0]
  /\ dropped' = (dropped \/ ~starts)
  /\ UNCHANGED <<service, t, last, storage, flags, channel, handler, fetchVars, ui, taken, pcJob, succeeded, observed>>

\* Mutant: a local job starts over the one that is running.
LocalJobOverRunning ==
  /\ LockFree /\ "local" \in Features
  /\ ui = "idle"
  /\ job' = [state |-> "running", id |-> 0]
  /\ UNCHANGED <<service, t, last, storage, flags, channel, handler, fetchVars, ui, taken, pcJob, succeeded, dropped, observed>>
\* A job the user starts on the device.
LocalJob ==
  /\ LockFree /\ "local" \in Features
  /\ ui = "idle" /\ job.state = "none"
  /\ job' = [state |-> "running", id |-> 0]
  /\ UNCHANGED <<service, t, last, storage, flags, channel, handler, fetchVars, ui, taken, pcJob, succeeded, dropped, observed>>

\* The worker has returned; the UI thread joins it and calls CompleteInstall.
JobDone(success) ==
  /\ LockFree /\ job.state = "running" /\ ui = "idle"
  /\ succeeded' = IF success THEN succeeded \cup ({job.id} \ {0}) ELSE succeeded
  /\ IF pcJob # 0 /\ t.id = pcJob /\ t.phase = "installing"
     THEN /\ t' = [t EXCEPT !.phase = IF t.cancel THEN "cancelled"
                                      ELSE IF success THEN "completed" ELSE "failed"]
          /\ channel' = (channel /\ ~ChannelJob(t.kind))
          /\ RemoveTransferFiles(t.id, t.kind, files)
     ELSE UNCHANGED <<t, channel, storage>>
  /\ job' = [state |-> "none", id |-> 0] /\ pcJob' = 0
  /\ UNCHANGED <<service, last, flags, handler, fetchVars, ui, taken, dropped, observed>>
-----------------------------------------------------------------------------
(* SetEnabled.  Switching off stops the channel, joins the download thread, *)
(* closes the listeners and then settles g_transfer under g_lock.           *)

Disable ==
  /\ LockFree /\ "toggle" \in Features /\ generation < MaxToggles
  /\ ui = "idle" /\ running
  /\ running' = FALSE /\ generation' = generation + 1
  /\ channel' = FALSE
  /\ ui' = "joining"
  /\ UNCHANGED <<t, last, storage, flags, handler, fetchVars, taken, job, pcJob, succeeded, dropped, observed>>

DisableJoin ==
  /\ LockFree /\ ui = "joining" /\ fetch.pc = "none"
  /\ ui' = "clearing"
  /\ UNCHANGED <<service, t, last, storage, flags, channel, handler, fetchVars, taken, job, pcJob, succeeded, dropped, observed>>

\* Mutant: what was transferred so far survives the end of the service.
SettledAsBefore == TRUE
Settled == t.phase \in {"installing", "queued"}
DisableClear ==
  /\ LockFree /\ ui = "clearing"
  /\ reboot' = FALSE
  /\ IF Settled
     THEN UNCHANGED <<t, storage>>
     ELSE /\ RemoveTransferFiles(t.id, t.kind, files)
          /\ t' = [t EXCEPT !.phase = IF TerminalPhase(@) THEN @ ELSE "cancelled"]
  /\ ui' = "idle"
  /\ UNCHANGED <<service, last, recoveryBusy, fileBusy, channel, handler, fetchVars, taken, job, pcJob,
                 succeeded, dropped, observed>>

Enable ==
  /\ LockFree /\ "toggle" \in Features /\ generation < MaxToggles
  /\ ui = "idle" /\ ~running
  /\ running' = TRUE /\ generation' = generation + 1
  /\ reboot' = FALSE
  /\ UNCHANGED <<t, last, storage, recoveryBusy, fileBusy, channel, handler, fetchVars, uiVars, observed>>

\* Someone else deletes the payload, or the user's selected file, or changes its size.
ExternalChange ==
  /\ "delete" \in Features
  /\ t.phase \in {"ready", "queued"} /\ "payload" \in files[t.id]
  /\ files' = [files EXCEPT ![t.id] = @ \ {"payload"}]
  /\ UNCHANGED <<removing, service, t, last, flags, channel, handler, fetchVars, uiVars, observed>>

HandlerStep(h) ==
  \/ UploadOpen(h) \/ (\E good \in BOOLEAN : UploadReceive(h, good))
  \/ UploadSettle(h) \/ UploadFinish(h)
  \/ FileDone(h) \/ SelectExisting(h) \/ ReviewExisting(h)
  \/ Spawn(h)
FetchStep ==
  \/ FetchOpen \/ (\E good \in BOOLEAN : FetchReceive(good))
  \/ FetchSettle \/ FetchRename \/ FetchFinish
Next ==
  \/ \E h \in Handlers :
       \/ \E k \in Kinds : Prepare(h, k)
       \/ UploadAccept(h) \/ FileAccess(h) \/ HandlerStep(h)
  \/ \E k \in Kinds : Queue(k)
  \/ Install \/ Save \/ CancelTransfer \/ CancelBackup \/ Reboot
  \/ FetchStep \/ RemoveDirectory
  \/ \E b \in BOOLEAN : Poll(b)
  \/ TakeReboot \/ TakeInstall
  \/ \E s \in {"running", "deferred"} : BeginInstall(s)
  \/ \E b \in BOOLEAN : Resume(b)
  \/ LocalJob \/ \E b \in BOOLEAN : JobDone(b)
  \/ Disable \/ DisableJoin \/ DisableClear \/ Enable
  \/ ExternalChange
Spec == Init /\ [][Next]_vars

\* Handlers and the download thread run on (network reads time out), jobs end,
\* and the UI thread finishes what it began.  Nothing is assumed of the user.
Fairness ==
  /\ \A h \in Handlers : WF_vars(HandlerStep(h))
  /\ WF_vars(FetchStep) /\ WF_vars(RemoveDirectory)
  /\ WF_vars(\E s \in {"running", "deferred"} : BeginInstall(s))
  /\ WF_vars(\E b \in BOOLEAN : Resume(b)) /\ WF_vars(\E b \in BOOLEAN : JobDone(b))
  /\ WF_vars(DisableJoin) /\ WF_vars(DisableClear)
FairSpec == Spec /\ Fairness
-----------------------------------------------------------------------------
(* Every payload that starts to be installed arrived complete and passed    *)
(* its checks, whatever was cancelled, switched off, replaced or deleted    *)
(* since (BeginInstall).                                                    *)
InstallsVerified ==
  [][t'.phase = "installing" /\ t.phase # "installing" /\ HasDirectory(t'.kind)
       => t'.id \in verified /\ "payload" \in files'[t'.id]]_vars

(* Files of a transfer stay on storage only while it is the current one:    *)
(* no order of cancelling, replacing, switching off and late workers leaves *)
(* a directory behind that nothing refers to (RemoveTransferFiles).  Only a *)
(* late download can: it and the upload it was started on may each open the *)
(* file between unlink and rmdir, once when the transfer ends and once when *)
(* it is replaced.                                                          *)
NoOrphans ==
  \A i \in Ids : "dir" \in files[i] => i \in {t.id, removing} \/ (lateFetch /\ i \in overtaken)

\* A worker has the partial file of transfer i open.
Working(i) ==
  \/ \E h \in Handlers : handler[h].id = i /\ handler[h].pc \in {"receive", "settle"}
  \/ fetch.id = i /\ fetch.pc # "none"
(* A finished transfer has nothing left on storage, except the directory of *)
(* one that failed (BeginInstall keeps it when somebody else took the       *)
(* payload away), or whose removal was overtaken by the open of its own     *)
(* upload or download; such a directory holds no payload, and a partial     *)
(* file only until the worker that has it open is done (RemoveTransferFiles, *)
(* Upload).  Nor is there a way left to the computer's storage, which is    *)
(* open only while the backup it was opened for is queued or running        *)
(* (storage::Channel).  A late download may write into a later transfer.    *)
FinishedIsClean ==
  ~lateFetch =>
    /\ TerminalPhase(t.phase) /\ "dir" \in files[t.id] /\ LockFree =>
         /\ t.phase = "failed" \/ t.id \in overtaken
         /\ "payload" \notin files[t.id]
         /\ "part" \in files[t.id] => Working(t.id)
    /\ channel => t.kind = "backup" /\ t.phase \in {"queued", "installing"}

(* The selected file of the user is never removed by the transfer           *)
(* machinery: only somebody else changes it (existing_file).                *)
UserFileKept ==
  [][(\E i \in Ids : files[i] = {"payload"} /\ files'[i] = {}) => ExternalChange]_vars

InstallTakenBack ==
  /\ t.phase = "installing" /\ ~(t'.phase = "installing" /\ t'.id = t.id)
  /\ ~(job.state = "running" /\ job'.state = "none")
(* A started installation leaves "installing" only when its worker returns: *)
(* no request, download thread or end of the service takes it back, "a      *)
(* running flash cannot be cancelled remotely" (PC_CONNECTION.md:211-212).  *)
InstallRunsToEnd == [][~InstallTakenBack]_vars
(* The same as long as PrepareTransfer starts each download on the transfer *)
(* it prepared: that is the only way to take an installation back.          *)
InstallIsKept == [][InstallTakenBack => lateFetch]_vars

(* An installation is reported as completed only when its own job succeeded *)
(* (CompleteInstall), unless a deferred job was dropped while pc_job_id_    *)
(* still names it.                                                          *)
ResultIsOwn == ~dropped /\ t.phase = "completed" /\ t.kind # "save" => t.id \in succeeded

(* No transfer stays "uploading", even if the service is switched off and   *)
(* on meanwhile, and every started installation is reported as ended unless *)
(* its deferred job was dropped.                                            *)
TransferEnds ==
  /\ []<>(t.phase # "uploading")
  /\ t.phase = "installing" ~> t.phase # "installing" \/ dropped
=============================================================================
