--------------------------- MODULE BackupControl ---------------------------
(***************************************************************************)
(* Cancellation of backups and restores: class Control and the child       *)
(* watcher of aera_remote/backup_cancel.hpp, the flags and CancelBackup of *)
(* aera_remote/pc_connection.cpp, and the threads that use them: the UI    *)
(* thread that starts, cancels and completes operations (aeraui/core/      *)
(* engine.cpp), the operation worker with its forked tar or restic child   *)
(* (twrpTar.cpp, appvault_scene.cpp), and a browser.                       *)
(*                                                                         *)
(* An operation is local or the PC job; operations are numbered by the     *)
(* token Begin() gives them.  A method under lock_ or g_lock is one step.  *)
(***************************************************************************)
EXTENDS Naturals

CONSTANTS MaxOperations,  \* bound on the number of operations begun
          Overlap         \* a PC job may still be queued when a local one starts

ASSUME ConstantAssumption == MaxOperations \in Nat /\ Overlap \in BOOLEAN

VARIABLES
  token, active, restore, requested,   \* Control::state_
  activeFlag, requestedFlag,           \* Control::active_, requested_
  phase, pcRestore, pcCancel,          \* the PC job: phase, backup_action, cancel_requested
  pcActive, pcCancelFlag,              \* g_backup_active, g_backup_cancel
  ui, pcOperation,     \* the UI thread; whether the current operation is the PC job
  sheet,               \* confirmation on the phone: how many swipes are done, for which token
  worker, result,      \* control point of the operation worker, what RecoveryRunJob returned
  child, watcher, stop,\* the forked child, BackupChildCancellation and its stop_
  \* observers
  asked,      \* tokens whose own cancellation the user confirmed
  reported,   \* outcome the UI showed for the last operation
  pcResult,   \* outcome the browser is given for its last job
  stray       \* a signal was sent to a process that was already reaped

control == <<token, active, restore, requested, activeFlag, requestedFlag>>
pc == <<phase, pcRestore, pcCancel, pcActive, pcCancelFlag>>
run == <<worker, result, child, watcher, stop>>
observers == <<asked, reported, pcResult, stray>>
vars == <<control, pc, ui, pcOperation, sheet, run, observers>>

Sheet == [stage : 0..2, token : Nat, restore : BOOLEAN]
FlagsOK ==
  /\ active \in BOOLEAN /\ restore \in BOOLEAN /\ requested \in BOOLEAN
  /\ activeFlag \in BOOLEAN /\ requestedFlag \in BOOLEAN
  /\ pcRestore \in BOOLEAN /\ pcCancel \in BOOLEAN
  /\ pcActive \in BOOLEAN /\ pcCancelFlag \in BOOLEAN
  /\ pcOperation \in BOOLEAN /\ stop \in BOOLEAN /\ stray \in BOOLEAN
TypeOK ==
  /\ FlagsOK
  /\ token \in Nat
  /\ phase \in {"idle", "queued", "installing"}
  /\ ui \in {"idle", "starting", "running", "completing"}
  /\ sheet \in Sheet
  /\ worker \in {"none", "working", "child", "stopping", "returned", "finished"}
  /\ result \in {"ok", "failed"}
  /\ child \in {"none", "running", "exited", "reaped"}
  /\ watcher \in {"none", "watching", "terminating", "grace", "killing", "ended"}
  /\ asked \subseteq Nat
  /\ reported \in {"none", "success", "failure", "cancelled"}
  /\ pcResult \in {"none", "completed", "failed", "cancelled"}

Init ==
  /\ token = 0 /\ active = FALSE /\ restore = FALSE /\ requested = FALSE
  /\ activeFlag = FALSE /\ requestedFlag = FALSE
  /\ phase = "idle" /\ pcRestore = FALSE /\ pcCancel = FALSE
  /\ pcActive = FALSE /\ pcCancelFlag = FALSE
  /\ ui = "idle" /\ pcOperation = FALSE
  /\ sheet = [stage |-> 0, token |-> 0, restore |-> FALSE]
  /\ worker = "none" /\ result = "ok" /\ child = "none" /\ watcher = "none" /\ stop = FALSE
  /\ asked = {} /\ reported = "none" /\ pcResult = "none" /\ stray = FALSE

\* aera::pc::BackupOperationActive and BackupCancelRequested.
BackupOperationActive == pcActive \/ activeFlag
BackupCancelRequested == (pcActive /\ pcCancelFlag) \/ (activeFlag /\ requestedFlag)
-----------------------------------------------------------------------------
(* The PC job until it starts. *)

QueueBackup(r) ==
  /\ phase = "idle"
  /\ Overlap \/ ui = "idle"
  /\ token < MaxOperations
  /\ phase' = "queued" /\ pcRestore' = r /\ pcCancel' = FALSE
  /\ pcCancelFlag' = FALSE /\ pcResult' = "none"
  /\ UNCHANGED <<control, pcActive, ui, pcOperation, sheet, run, asked, reported, stray>>

BeginInstall ==
  /\ ui = "idle" /\ phase = "queued"
  /\ phase' = "installing" /\ pcActive' = TRUE
  /\ ui' = "starting" /\ pcOperation' = TRUE
  /\ UNCHANGED <<control, pcRestore, pcCancel, pcCancelFlag, sheet, run, observers>>

\* The user starts a backup or restore on the phone.
StartLocal ==
  /\ ui = "idle" /\ token < MaxOperations
  /\ Overlap \/ phase = "idle"
  /\ ui' = "starting" /\ pcOperation' = FALSE
  /\ UNCHANGED <<control, pc, sheet, run, observers>>
-----------------------------------------------------------------------------
(* Control::Begin and the start of the worker, in StartJob. *)

Begin(r) ==
  /\ ui = "starting"
  /\ pcOperation => r = pcRestore
  /\ token' = token + 1 /\ active' = TRUE /\ activeFlag' = TRUE /\ restore' = r
  /\ requested' = FALSE /\ requestedFlag' = FALSE
  /\ ui' = "running" /\ worker' = "working"
  /\ UNCHANGED <<pc, pcOperation, sheet, result, child, watcher, stop, observers>>

\* Mutant: any token will do.
AcceptsAnyToken(k, ack) == active /\ (restore => ack)
\* The condition of Control::Request.
Accepts(k, ack) == active /\ token = k /\ (restore => ack)

\* The effect of Request(k, ack) on the control.
Request(k, ack) ==
  /\ requested' = (requested \/ Accepts(k, ack))
  /\ requestedFlag' = (requestedFlag \/ Accepts(k, ack))
-----------------------------------------------------------------------------
(* Cancelling from the browser: pc::CancelBackup. *)

\* Mutant: only the operation is told, not the PC job.
CancelledWithoutFlag ==
  /\ pcCancel' = TRUE
  /\ phase' = IF phase = "queued" THEN "idle" ELSE phase
  /\ pcActive' = (pcActive /\ phase # "queued")
  /\ pcResult' = IF phase = "queued" THEN "cancelled" ELSE pcResult
  /\ UNCHANGED <<pcRestore, pcCancelFlag>>
Cancelled ==
  /\ pcCancel' = TRUE /\ pcCancelFlag' = TRUE
  /\ phase' = IF phase = "queued" THEN "idle" ELSE phase
  /\ pcActive' = (pcActive /\ phase # "queued")
  /\ pcResult' = IF phase = "queued" THEN "cancelled" ELSE pcResult
  /\ UNCHANGED pcRestore

Cancellable(ack) == phase # "idle" /\ (pcRestore => ack)
CancelBackup(ack) ==
  /\ Cancellable(ack)
  /\ Request(token, ack)
  /\ Cancelled
  /\ UNCHANGED <<token, active, restore, activeFlag, ui, pcOperation, sheet, run, asked, reported, stray>>
-----------------------------------------------------------------------------
(* Cancelling on the phone: one sheet for a backup, two for a restore. *)

NoSheet == [stage |-> 0, token |-> 0, restore |-> FALSE]
OpenSheet ==
  /\ ui = "running" /\ sheet.stage = 0
  /\ active /\ ~requested
  /\ sheet' = [stage |-> 1, token |-> token, restore |-> restore]
  /\ UNCHANGED <<control, pc, ui, pcOperation, run, observers>>

FirstSwipe ==
  /\ ui \in {"idle", "running"} /\ sheet.stage = 1 /\ sheet.restore
  /\ sheet' = IF active /\ token = sheet.token /\ ~requested
              THEN [sheet EXCEPT !.stage = 2] ELSE NoSheet
  /\ UNCHANGED <<control, pc, ui, pcOperation, run, observers>>

Confirm ==
  /\ ui \in {"idle", "running"} /\ sheet.stage = IF sheet.restore THEN 2 ELSE 1
  /\ Request(sheet.token, sheet.restore)
  /\ asked' = asked \cup {sheet.token}
  /\ IF Accepts(sheet.token, sheet.restore) /\ pcOperation /\ Cancellable(sheet.restore)
     THEN Cancelled ELSE UNCHANGED <<pc, pcResult>>
  /\ sheet' = NoSheet
  /\ UNCHANGED <<token, active, restore, activeFlag, ui, pcOperation, run, reported, stray>>

CloseSheet ==
  /\ sheet.stage # 0
  /\ sheet' = NoSheet
  /\ UNCHANGED <<control, pc, ui, pcOperation, run, observers>>
-----------------------------------------------------------------------------
(* The worker: children one after the other, then the final test. *)

Fork ==
  /\ worker = "working"
  /\ child' = "running" /\ stop' = FALSE
  /\ watcher' = IF BackupOperationActive THEN "watching" ELSE "none"
  /\ worker' = "child"
  /\ UNCHANGED <<control, pc, ui, pcOperation, sheet, result, observers>>

ChildExits ==
  /\ child = "running"
  /\ child' = "exited"
  /\ UNCHANGED <<control, pc, ui, pcOperation, sheet, worker, result, watcher, stop, observers>>

\* End of the child's pipe, then cancellation.Stop() up to the join.
StopWatcher ==
  /\ worker = "child" /\ child = "exited"
  /\ stop' = TRUE /\ worker' = "stopping"
  /\ UNCHANGED <<control, pc, ui, pcOperation, sheet, result, child, watcher, observers>>

\* Mutant: the child is reaped while its watcher may still run.
JoinedUnchecked == TRUE
Joined == watcher \in {"none", "ended"}
Reap ==
  /\ worker = "stopping" /\ Joined
  /\ child' = "reaped"
  /\ IF BackupCancelRequested
     THEN worker' = "returned" /\ result' = "failed"
     ELSE worker' = "working" /\ UNCHANGED result
  /\ UNCHANGED <<control, pc, ui, pcOperation, sheet, watcher, stop, observers>>

\* All children are done, or the operation failed or found its cancellation.
Return(r) ==
  /\ worker = "working"
  /\ r = "ok" => ~BackupCancelRequested
  /\ result' = r /\ worker' = "returned"
  /\ UNCHANGED <<control, pc, ui, pcOperation, sheet, child, watcher, stop, observers>>

Finish ==
  /\ worker = "returned"
  /\ active' = FALSE /\ activeFlag' = FALSE
  /\ worker' = "finished"
  /\ UNCHANGED <<token, restore, requested, requestedFlag, pc, ui, pcOperation, sheet, result, child,
                 watcher, stop, observers>>

\* Mutant: a cancellation that came after the worker's last test is overlooked.
CancelledByWorker == FALSE
CancelledByUser == requested \/ (pcOperation /\ pcCancel)
\* RunFrame finds operation_complete_, joins the worker and reads both cancellations.
Observe ==
  /\ ui = "running" /\ worker = "finished"
  /\ reported' = IF CancelledByUser THEN "cancelled" ELSE IF result = "ok" THEN "success" ELSE "failure"
  /\ ui' = "completing" /\ worker' = "none"
  /\ UNCHANGED <<control, pc, pcOperation, sheet, result, child, watcher, stop, asked, pcResult, stray>>

\* Mutant: the result the worker returned is passed on as it is.
PcOutcomeOfWorker == IF result = "ok" THEN "completed" ELSE "failed"
PcOutcome == IF pcCancel THEN "cancelled" ELSE IF result = "ok" THEN "completed" ELSE "failed"
CompleteInstall ==
  /\ ui = "completing"
  /\ IF pcOperation THEN phase' = "idle" /\ pcActive' = FALSE /\ pcResult' = PcOutcome
     ELSE UNCHANGED <<phase, pcActive, pcResult>>
  /\ ui' = "idle"
  /\ UNCHANGED <<control, pcRestore, pcCancel, pcCancelFlag, pcOperation, sheet, run,
                 asked, reported, stray>>
-----------------------------------------------------------------------------
(* BackupChildCancellation's thread.                                        *)

\* The watcher decides to signal; stop_ may be set before it does.
Notice ==
  /\ watcher = "watching" /\ ~stop /\ BackupCancelRequested
  /\ watcher' = "terminating"
  /\ UNCHANGED <<control, pc, ui, pcOperation, sheet, worker, result, child, stop, observers>>

\* SIGTERM to the child's group; the child may ignore it.
Terminate ==
  /\ watcher = "terminating"
  /\ watcher' = "grace"
  /\ stray' = (stray \/ child = "reaped")
  /\ child' \in IF child = "running" THEN {"running", "exited"} ELSE {child}
  /\ UNCHANGED <<control, pc, ui, pcOperation, sheet, worker, result, stop, asked, reported, pcResult>>

\* Two seconds later.
GraceEnds ==
  /\ watcher = "grace" /\ ~stop
  /\ watcher' = "killing"
  /\ UNCHANGED <<control, pc, ui, pcOperation, sheet, worker, result, child, stop, observers>>

\* Mutant: a second SIGTERM instead of SIGKILL.
KillPolitely == IF child = "running" THEN {"running", "exited"} ELSE {child}
KillForGood == IF child = "running" THEN {"exited"} ELSE {child}
Kill ==
  /\ watcher = "killing"
  /\ watcher' = "ended"
  /\ stray' = (stray \/ child = "reaped")
  /\ child' \in KillForGood
  /\ UNCHANGED <<control, pc, ui, pcOperation, sheet, worker, result, stop, asked, reported, pcResult>>

WatcherEnds ==
  /\ watcher \in {"watching", "grace"} /\ stop
  /\ watcher' = "ended"
  /\ UNCHANGED <<control, pc, ui, pcOperation, sheet, worker, result, child, stop, observers>>

\* Every operation the bound allows is over.
Over == ui = "idle" /\ phase = "idle" /\ token = MaxOperations /\ sheet.stage = 0 /\ UNCHANGED vars

WatcherStep == Notice \/ Terminate \/ GraceEnds \/ Kill \/ WatcherEnds
Next ==
  \/ \E r \in BOOLEAN : QueueBackup(r) \/ Begin(r)
  \/ BeginInstall \/ StartLocal
  \/ \E ack \in BOOLEAN : CancelBackup(ack)
  \/ OpenSheet \/ FirstSwipe \/ Confirm \/ CloseSheet
  \/ Fork \/ ChildExits \/ StopWatcher \/ Reap
  \/ \E r \in {"ok", "failed"} : Return(r)
  \/ Finish \/ Observe \/ CompleteInstall
  \/ WatcherStep
  \/ Over
Spec == Init /\ [][Next]_vars

\* The watcher thread is scheduled; the child need not exit by itself.
FairSpec == Spec /\ WF_vars(WatcherStep)
-----------------------------------------------------------------------------
Working == worker \in {"working", "child", "stopping"}
(* A running operation sees a cancellation only when its own cancellation   *)
(* was confirmed: what is left of an earlier operation, a sheet that was    *)
(* opened for it included, does not stop it (token, Begin's resets).        *)
CancelIsOwn == Working /\ BackupCancelRequested => token \in asked \/ (pcOperation /\ pcCancel)

(* A running restore is cancelled only by warnings about that restore:      *)
(* "Restore cancellation requires two explicit warnings"                    *)
(* (aera_remote/PC_CONNECTION.md:57).  CancelBackup of a job that is still  *)
(* queued also cancels whatever operation is running.                       *)
RestoreIsConfirmed == restore => CancelIsOwn

(* Once the browser's cancellation is accepted, the running PC job sees it  *)
(* at every later test, even if it came before the operation had begun.     *)
NoLostCancel == phase = "installing" /\ pcCancel => BackupCancelRequested

(* The phone never shows an operation whose cancellation it accepted as     *)
(* successful, even if its worker was already past the last test.           *)
SuccessIsUncancelled == reported = "success" /\ ui \in {"idle", "completing"} => ~requested

(* The browser is never told that a job completed whose cancellation was    *)
(* accepted, even one accepted while the UI thread is completing it.        *)
CompletedIsUncancelled == pcResult = "completed" => ~pcCancel

(* No signal reaches a process that was already reaped, whose number may    *)
(* belong to another one by then (Stop before waitpid).                     *)
NoStraySignal == ~stray

(* The child of a cancelled operation ends, even one that ignores SIGTERM.  *)
CancelStopsChild == child = "running" /\ BackupCancelRequested ~> child # "running"
=============================================================================
