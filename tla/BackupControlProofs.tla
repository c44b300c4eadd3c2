------------------------ MODULE BackupControlProofs ------------------------
(***************************************************************************)
(* Proofs about BackupControl for any number of operations, with and       *)
(* without PC jobs that are queued behind local operations.                *)
(***************************************************************************)
EXTENDS BackupControl, TLAPS

(* Control: the atomics agree with the state under the mutex, and an        *)
(* operation is active from Begin to the worker's Finish.                   *)
ControlInv ==
  /\ activeFlag <=> active
  /\ requestedFlag <=> requested
  /\ active <=> worker \in {"working", "child", "stopping", "returned"}
  /\ ui = "running" <=> worker # "none"

(* The PC job: g_backup_active and g_backup_cancel agree with the transfer, *)
(* which is installing while the UI thread has it as its operation; it has  *)
(* no result before it is over.                                             *)
PcInv ==
  /\ pcActive <=> phase = "installing"
  /\ pcCancelFlag <=> pcCancel
  /\ phase = "installing" <=> pcOperation /\ ui # "idle"
  /\ pcResult # "none" => phase = "idle"

(* The child: a watcher that may still signal has a worker waiting for it,  *)
(* which has not reaped the child.                                          *)
ChildInv ==
  /\ watcher \notin {"none", "ended"} => worker \in {"child", "stopping"}
  /\ worker \in {"child", "stopping"} => child # "reaped"

(* Whom a cancellation belongs to, when no PC job waits behind a local one. *)
OwnInv ==
  ~Overlap =>
    /\ phase = "queued" => ui = "idle"
    /\ active /\ requested => token \in asked \/ (pcOperation /\ pcCancel)

IInv ==
  /\ TypeOK /\ ControlInv /\ PcInv /\ ChildInv /\ OwnInv
  /\ SuccessIsUncancelled /\ CompletedIsUncancelled /\ NoStraySignal

(* The values the UI gives its confirmation sheet are sheets. *)
LEMMA Sheets ==
  /\ \A t \in Nat, r \in BOOLEAN : [stage |-> 1, token |-> t, restore |-> r] \in Sheet
  /\ [stage |-> 0, token |-> 0, restore |-> FALSE] \in Sheet
  /\ \A s \in Sheet : s.token \in Nat /\ [s EXCEPT !.stage = 2] \in Sheet
BY DEF Sheet

(* Nothing is queued, active or cancelled at the start. *)
LEMMA InitIInv == Init => IInv
BY Sheets, Zenon DEF Init, IInv, TypeOK, FlagsOK, ControlInv, PcInv, ChildInv, OwnInv,
   SuccessIsUncancelled, CompletedIsUncancelled, NoStraySignal

(* The steps that queue and start operations keep IInv. *)
LEMMA StartStep ==
  ASSUME IInv,
         \/ \E r \in BOOLEAN : QueueBackup(r) \/ Begin(r)
         \/ BeginInstall \/ StartLocal
  PROVE  IInv'
<1> USE ConstantAssumption, Sheets DEF IInv, TypeOK, FlagsOK, ControlInv, PcInv, ChildInv, OwnInv,
       SuccessIsUncancelled, CompletedIsUncancelled, NoStraySignal,
       control, pc, run, observers
<1>1. ASSUME NEW r \in BOOLEAN, QueueBackup(r) PROVE IInv'
  <2>1. FlagsOK'
    BY <1>1, Zenon DEF QueueBackup
  <2> QED
    BY <1>1, <2>1 DEF QueueBackup
<1>2. ASSUME NEW r \in BOOLEAN, Begin(r) PROVE IInv'
  <2>1. FlagsOK'
    BY <1>2, Zenon DEF Begin
  <2> QED
    BY <1>2, <2>1 DEF Begin
<1>3. CASE BeginInstall
  BY <1>3 DEF BeginInstall
<1>4. CASE StartLocal
  <2>1. FlagsOK'
    BY <1>4, Zenon DEF StartLocal
  <2> QED
    BY <1>4, <2>1 DEF StartLocal
<1> QED
  BY <1>1, <1>2, <1>3, <1>4, Zenon

(* The steps of the phone's sheets and of the browser keep IInv. *)
LEMMA CancelStep ==
  ASSUME IInv,
         \/ \E ack \in BOOLEAN : CancelBackup(ack)
         \/ OpenSheet \/ FirstSwipe \/ Confirm \/ CloseSheet
  PROVE  IInv'
<1> USE ConstantAssumption, Sheets DEF IInv, TypeOK, FlagsOK, ControlInv, PcInv, ChildInv, OwnInv,
       SuccessIsUncancelled, CompletedIsUncancelled, NoStraySignal,
       control, pc, run, observers
<1>1. ASSUME NEW ack \in BOOLEAN, CancelBackup(ack) PROVE IInv'
  BY <1>1 DEF CancelBackup, Cancellable, Request, Accepts, Cancelled
<1>2. CASE OpenSheet
  BY <1>2 DEF OpenSheet
<1>3. CASE FirstSwipe
  BY <1>3 DEF FirstSwipe, NoSheet
<1>4. CASE Confirm
  <2>1. FlagsOK'
    BY <1>4, Zenon DEF Confirm, Cancellable, Request, Accepts, Cancelled, NoSheet
  <2>2. sheet' \in Sheet /\ asked' \subseteq Nat
    BY <1>4, Zenon DEF Confirm, NoSheet
  <2>3. ControlInv' /\ PcInv' /\ ChildInv'
    BY <1>4, Zenon DEF Confirm, Cancellable, Request, Accepts, Cancelled
  <2>4. OwnInv' /\ SuccessIsUncancelled' /\ CompletedIsUncancelled' /\ NoStraySignal'
    BY <1>4, Zenon DEF Confirm, Cancellable, Request, Accepts, Cancelled
  <2>5. TypeOK'
    BY <1>4, <2>1, <2>2 DEF Confirm, Cancellable, Cancelled
  <2> QED
    BY <2>3, <2>4, <2>5, Zenon DEF IInv
<1>5. CASE CloseSheet
  BY <1>5 DEF CloseSheet, NoSheet
<1> QED
  BY <1>1, <1>2, <1>3, <1>4, <1>5, Zenon

(* The steps of the worker, and of the UI thread that waits for it, keep IInv. *)
LEMMA WorkerStep ==
  ASSUME IInv,
         \/ Fork \/ ChildExits \/ StopWatcher \/ Reap
         \/ \E r \in {"ok", "failed"} : Return(r)
         \/ Finish \/ Observe \/ CompleteInstall
  PROVE  IInv'
<1> USE ConstantAssumption, Sheets DEF IInv, TypeOK, FlagsOK, ControlInv, PcInv, ChildInv, OwnInv,
       SuccessIsUncancelled, CompletedIsUncancelled, NoStraySignal,
       control, pc, run, observers
<1>1. CASE Fork
  <2>1. FlagsOK'
    BY <1>1, Zenon DEF Fork
  <2> QED
    BY <1>1, <2>1, Zenon DEF Fork
<1>2. CASE ChildExits
  BY <1>2 DEF ChildExits
<1>3. CASE StopWatcher
  BY <1>3 DEF StopWatcher
<1>4. CASE Reap
  BY <1>4 DEF Reap, Joined
<1>5. ASSUME NEW r \in {"ok", "failed"}, Return(r) PROVE IInv'
  BY <1>5 DEF Return
<1>6. CASE Finish
  <2>1. FlagsOK'
    BY <1>6, Zenon DEF Finish
  <2> QED
    BY <1>6, <2>1 DEF Finish
<1>7. CASE Observe
  BY <1>7 DEF Observe, CancelledByUser
<1>8. CASE CompleteInstall
  <2>1. FlagsOK'
    BY <1>8, Zenon DEF CompleteInstall
  <2> QED
    BY <1>8, <2>1 DEF CompleteInstall, PcOutcome
<1> QED
  BY <1>1, <1>2, <1>3, <1>4, <1>5, <1>6, <1>7, <1>8, Zenon

(* The steps of the watcher keep IInv. *)
LEMMA WatcherKeeps ==
  ASSUME IInv, WatcherStep
  PROVE  IInv'
<1> USE ConstantAssumption, Sheets DEF IInv, TypeOK, FlagsOK, ControlInv, PcInv, ChildInv, OwnInv,
       SuccessIsUncancelled, CompletedIsUncancelled, NoStraySignal,
       control, pc, run, observers
<1>1. CASE Notice
  BY <1>1 DEF Notice
<1>2. CASE Terminate
  BY <1>2 DEF Terminate
<1>3. CASE GraceEnds
  BY <1>3 DEF GraceEnds
<1>4. CASE Kill
  BY <1>4 DEF Kill, KillForGood
<1>5. CASE WatcherEnds
  BY <1>5 DEF WatcherEnds
<1> QED
  BY <1>1, <1>2, <1>3, <1>4, <1>5, Zenon DEF WatcherStep

(* IInv is an invariant. *)
LEMMA Invariance == Spec => []IInv
<1>1. IInv /\ [Next]_vars => IInv'
  <2> SUFFICES ASSUME IInv, [Next]_vars PROVE IInv'
    OBVIOUS
  <2>1. CASE UNCHANGED vars
    BY <2>1 DEF vars, control, pc, run, observers, IInv, TypeOK, FlagsOK, ControlInv, PcInv, ChildInv, OwnInv,
       SuccessIsUncancelled, CompletedIsUncancelled, NoStraySignal
  <2>2. CASE Next
    BY <2>1, <2>2, StartStep, CancelStep, WorkerStep, WatcherKeeps, Zenon DEF Next, Over
  <2> QED
    BY <2>1, <2>2, Zenon
<1> QED
  BY <1>1, InitIInv, PTL DEF Spec
-----------------------------------------------------------------------------
(* Every variable keeps its type. *)
THEOREM TypeCorrect == Spec => []TypeOK
<1>1. IInv => TypeOK
  BY Zenon DEF IInv
<1> QED
  BY <1>1, Invariance, PTL

(* Unless a PC job can wait behind a local operation, a running operation    *)
(* sees a cancellation only if its own was confirmed, or if it is the PC job *)
(* and the job was cancelled (Control::Request's token, Begin's resets).     *)
THEOREM CancellationIsOwn == Spec => [](~Overlap => CancelIsOwn)
<1>1. IInv => (~Overlap => CancelIsOwn)
  BY Zenon DEF IInv, TypeOK, FlagsOK, ControlInv, PcInv, OwnInv, CancelIsOwn, Working,
     BackupCancelRequested
<1> QED
  BY <1>1, Invariance, PTL

(* The running PC job sees an accepted cancellation at every later test,     *)
(* Begin's reset of the operation's own request notwithstanding.             *)
THEOREM CancellationIsKept == Spec => []NoLostCancel
<1>1. IInv => NoLostCancel
  BY Zenon DEF IInv, TypeOK, FlagsOK, PcInv, NoLostCancel, BackupCancelRequested
<1> QED
  BY <1>1, Invariance, PTL

(* The phone reports no operation as done whose cancellation was accepted     *)
(* (SuccessIsUncancelled; RunFrame).                                          *)
THEOREM OutcomesAreTrue == Spec => []SuccessIsUncancelled
<1>1. IInv => SuccessIsUncancelled
  BY Zenon DEF IInv
<1> QED
  BY <1>1, Invariance, PTL

(* Nor does the browser: a backup whose cancellation was accepted is not      *)
(* completed there (CompletedIsUncancelled; CompleteInstall).                 *)
THEOREM CompletedIsTrue == Spec => []CompletedIsUncancelled
<1>1. IInv => CompletedIsUncancelled
  BY Zenon DEF IInv
<1> QED
  BY <1>1, Invariance, PTL

(* The watcher never signals a process that was already reaped (Stop before  *)
(* waitpid).                                                                 *)
THEOREM SignalsReachTheChild == Spec => []NoStraySignal
<1>1. IInv => NoStraySignal
  BY Zenon DEF IInv
<1> QED
  BY <1>1, Invariance, PTL
=============================================================================
