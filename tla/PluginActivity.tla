--------------------------- MODULE PluginActivity ---------------------------
(***************************************************************************)
(* Background activities of plugins and the recovery's storage lease:      *)
(* aeraui/features/plugin_api/activity.cpp, the message handlers and the   *)
(* polling of aeraui/scenes/generic_plugin_scene.cpp (UI thread), and the  *)
(* worker threads that hold a HostStorageLease (RecoveryRunJob and         *)
(* RecoveryRunNas of aeraui/platform/aera_backend.cpp).                    *)
(*                                                                         *)
(* A plugin is a process of its own.  What it does is not in this          *)
(* repository; it keeps to features/plugin_api/README.md: file work starts *)
(* after a positive ACTIVITY_RESULT and is over before completion or       *)
(* failure is reported.  Its helpers may outlive its main process.         *)
(***************************************************************************)
EXTENDS FiniteSets, Integers

CONSTANTS
  Plugins, Threads,   \* plugin runtimes, recovery worker threads
  Storages, Exempt,   \* storage paths; the empty path and those under /tmp
  NoStorage,          \* the empty path
  Ids,                \* request ids a plugin may give its activities, all nonzero
  MaxActivities,      \* 8 in SetActivity
  MaxDepth            \* bound on leases nested on one thread

ASSUME StorageAssumption == NoStorage \in Exempt /\ Exempt \subseteq Storages
ASSUME PluginAssumption == IsFiniteSet(Plugins)
ASSUME IdAssumption == 0 \notin Ids
ASSUME BoundAssumption == MaxActivities \in Nat /\ MaxDepth \in Nat

VARIABLES
  activities,   \* gActivities; state "none" is an absent entry
  lease,        \* gStorageLease
  depth,        \* gStorageDepth of each thread
  scene,        \* activity_id and activity_storage of each GenericScene
  runtime,      \* "running", "exited" (main process), "closed" (session), "stopping", "stopped"
  granted,      \* a positive ACTIVITY_RESULT waits to be read by the plugin
  working       \* whether the plugin or one of its helpers works on files

vars == <<activities, lease, depth, scene, runtime, granted, working>>

States == {"none", "active", "complete", "failed"}
Activity == [state : States, id : Ids \cup {0}, storage : Storages, cancelling : BOOLEAN, file : Storages]

TypeOK ==
  /\ activities \in [Plugins -> Activity]
  /\ lease \in BOOLEAN
  /\ depth \in [Threads -> 0..MaxDepth]
  /\ scene \in [Plugins -> [id : Ids \cup {0}, storage : Storages]]
  /\ runtime \in [Plugins -> {"running", "exited", "closed", "stopping", "stopped"}]
  /\ granted \in [Plugins -> BOOLEAN]
  /\ working \in [Plugins -> BOOLEAN]

NoActivity == [state |-> "none", id |-> 0, storage |-> NoStorage, cancelling |-> FALSE, file |-> NoStorage]
NewScene == [id |-> 0, storage |-> NoStorage]

Init ==
  /\ activities = [p \in Plugins |-> NoActivity]
  /\ lease = FALSE
  /\ depth = [t \in Threads |-> 0]
  /\ scene = [p \in Plugins |-> NewScene]
  /\ runtime = [p \in Plugins |-> "running"]
  /\ granted = [p \in Plugins |-> FALSE]
  /\ working = [p \in Plugins |-> FALSE]

Active(a) == a.state = "active"
UsesStorage(a) == Active(a) /\ a.storage \notin Exempt
StorageBusyLocked == \E p \in Plugins : UsesStorage(activities[p])
-----------------------------------------------------------------------------
(* Messages of a plugin, handled on the UI thread.  The rest of a batch is   *)
(* handled after the session was closed or the process has exited.         *)

Attended(p) == runtime[p] \in {"running", "exited", "closed"}

\* SET_ACTIVITY_STORAGE.
SetActivityStorage(p, i, s) ==
  /\ Attended(p)
  /\ IF Active(activities[p])
     THEN runtime' = [runtime EXCEPT ![p] = "closed"] /\ UNCHANGED scene
     ELSE scene' = [scene EXCEPT ![p] = [id |-> i, storage |-> s]] /\ UNCHANGED runtime
  /\ UNCHANGED <<activities, lease, depth, granted, working>>

\* Mutant: the lease is not looked at.
RoomAnyLease(p, a) == activities[p].state = "none" =>
                        Cardinality({q \in Plugins : activities[q].state # "none"}) < MaxActivities
Room(p, a) ==
  /\ ~(UsesStorage(a) /\ lease)
  /\ activities[p].state = "none" =>
       Cardinality({q \in Plugins : activities[q].state # "none"}) < MaxActivities

SameTask(a, i, s) == a.id = i /\ a.storage = s

\* Mutant: an update of an active task leaves its storage out.
NextActivityDropsStorage(a, st, i, s) ==
  [state |-> st, id |-> i, storage |-> IF Active(a) THEN NoStorage ELSE s,
   cancelling |-> Active(a) /\ st = "active" /\ a.cancelling,
   file |-> IF a.state # "none" /\ a.id = i THEN a.file ELSE NoStorage]
\* The new entry: cancelling survives updates of an active task, the result
\* file survives as long as the id is the same.
NextActivity(a, st, i, s) ==
  [state |-> st, id |-> i, storage |-> s,
   cancelling |-> Active(a) /\ st = "active" /\ a.cancelling,
   file |-> IF a.state # "none" /\ a.id = i THEN a.file ELSE NoStorage]

\* SET_ACTIVITY.  A plugin reports the end of a task when its file work is over.
SetActivity(p, st, valid) ==
  LET a == activities[p]
      next == NextActivity(a, st, scene[p].id, scene[p].storage)
      accepted == /\ valid
                  /\ Active(a) => SameTask(a, scene[p].id, scene[p].storage)
                  /\ Room(p, next)
  IN /\ Attended(p)
     /\ scene[p].id # 0
     /\ st # "active" => ~working[p] /\ ~granted[p]
     /\ activities' = IF accepted THEN [activities EXCEPT ![p] = next] ELSE activities
     /\ granted' = IF accepted /\ ~Active(a) THEN [granted EXCEPT ![p] = st = "active"] ELSE granted
     /\ UNCHANGED <<lease, depth, scene, runtime, working>>

\* SET_ACTIVITY or another message that breaks the protocol, CLOSE, end of file.
CloseSession(p) ==
  /\ runtime[p] \in {"running", "exited"}
  /\ runtime' = [runtime EXCEPT ![p] = "closed"]
  /\ UNCHANGED <<activities, lease, depth, scene, granted, working>>

\* SET_ACTIVITY_FILE for a package that lies in s.
SetActivityFile(p, i, s) ==
  /\ Attended(p)
  /\ Active(activities[p]) /\ activities[p].id = i
  /\ activities[p].storage # NoStorage /\ s = activities[p].storage
  /\ activities' = [activities EXCEPT ![p].file = s]
  /\ UNCHANGED <<lease, depth, scene, runtime, granted, working>>

\* CancelGenericPluginActivity.
Cancel(p) ==
  /\ runtime[p] \in {"running", "exited"}
  /\ Active(activities[p])
  /\ activities' = [activities EXCEPT ![p].cancelling = TRUE]
  /\ UNCHANGED <<lease, depth, scene, runtime, granted, working>>
-----------------------------------------------------------------------------
(* The plugin process (external). *)

BeginWork(p) ==
  /\ runtime[p] = "running" /\ granted[p]
  /\ working' = [working EXCEPT ![p] = TRUE]
  /\ granted' = [granted EXCEPT ![p] = FALSE]
  /\ UNCHANGED <<activities, lease, depth, scene, runtime>>
EndWork(p) ==
  /\ working[p]
  /\ working' = [working EXCEPT ![p] = FALSE]
  /\ UNCHANGED <<activities, lease, depth, scene, runtime, granted>>
Exit(p) ==
  /\ runtime[p] = "running"
  /\ runtime' = [runtime EXCEPT ![p] = "exited"]
  /\ UNCHANGED <<activities, lease, depth, scene, granted, working>>
-----------------------------------------------------------------------------
(* Stopping a runtime: PollRuntime, StopGenericPluginRuntime, ~GenericScene. *)

\* Mutant: the helpers of the plugin are left alone.
StopProcessOnly(p) ==
  /\ Attended(p)
  /\ runtime' = [runtime EXCEPT ![p] = "stopping"]
  /\ UNCHANGED <<activities, lease, depth, scene, granted, working>>
\* process.Stop() kills the process group.  PollRuntime comes here when the
\* session is closed or the process has exited; the user, an uninstallation
\* or the end of the scene at any time.
StopProcess(p) ==
  /\ Attended(p)
  /\ runtime' = [runtime EXCEPT ![p] = "stopping"]
  /\ working' = [working EXCEPT ![p] = FALSE]
  /\ UNCHANGED <<activities, lease, depth, scene, granted>>

\* Mutant: the entry stays.
RemoveActivityForgotten(p) ==
  /\ runtime[p] = "stopping"
  /\ runtime' = [runtime EXCEPT ![p] = "stopped"]
  /\ granted' = [granted EXCEPT ![p] = FALSE]
  /\ UNCHANGED <<activities, lease, depth, scene, working>>
RemoveActivity(p) ==
  /\ runtime[p] = "stopping"
  /\ activities' = [activities EXCEPT ![p] = NoActivity]
  /\ runtime' = [runtime EXCEPT ![p] = "stopped"]
  /\ granted' = [granted EXCEPT ![p] = FALSE]
  /\ UNCHANGED <<lease, depth, scene, working>>

\* The plugin is opened again: a new scene with a new process.
Launch(p) ==
  /\ runtime[p] = "stopped"
  /\ runtime' = [runtime EXCEPT ![p] = "running"]
  /\ scene' = [scene EXCEPT ![p] = NewScene]
  /\ UNCHANGED <<activities, lease, depth, granted, working>>

\* Activities() drops a finished entry after 8 seconds; the banner's button at once.
Dismiss(p) ==
  /\ activities[p].state \in {"complete", "failed"}
  /\ activities' = [activities EXCEPT ![p] = NoActivity]
  /\ UNCHANGED <<lease, depth, scene, runtime, granted, working>>
-----------------------------------------------------------------------------
(* Worker threads. *)

Acquirable(t) == depth[t] > 0 \/ (~lease /\ ~StorageBusyLocked)
Acquire(t) ==
  /\ depth[t] < MaxDepth
  /\ Acquirable(t)
  /\ depth' = [depth EXCEPT ![t] = @ + 1]
  /\ lease' = TRUE
  /\ UNCHANGED <<activities, scene, runtime, granted, working>>

\* Mutant: an inner lease gives up the outer one.
FreeAlways(t) == FALSE
FreeOutermost(t) == depth[t] > 1
Release(t) ==
  /\ depth[t] > 0
  /\ depth' = [depth EXCEPT ![t] = @ - 1]
  /\ lease' = FreeOutermost(t)
  /\ UNCHANGED <<activities, scene, runtime, granted, working>>

PluginStep(p) ==
  \/ \E i \in Ids, s \in Storages : SetActivityStorage(p, i, s) \/ SetActivityFile(p, i, s)
  \/ \E st \in States \ {"none"}, valid \in BOOLEAN : SetActivity(p, st, valid)
  \/ CloseSession(p) \/ Cancel(p) \/ BeginWork(p) \/ EndWork(p) \/ Exit(p)
  \/ Launch(p) \/ Dismiss(p)
HostStep(p) == StopProcess(p) \/ RemoveActivity(p)
Next ==
  \/ \E p \in Plugins : PluginStep(p) \/ HostStep(p)
  \/ \E t \in Threads : Acquire(t) \/ Release(t)
Spec == Init /\ [][Next]_vars

\* The UI thread polls every runtime (PollGenericPluginRuntimes in each frame).
Fairness == \A p \in Plugins :
  /\ WF_vars(runtime[p] # "running" /\ StopProcess(p))
  /\ WF_vars(RemoveActivity(p))
FairSpec == Spec /\ Fairness
-----------------------------------------------------------------------------
(* No plugin, nor a helper it left behind, works on a mounted storage while *)
(* a recovery operation holds the lease: "preventing a download/start-      *)
(* format race" (activity.hpp).  The claim is given up only after the       *)
(* processes are gone.                                                      *)
ExclusiveStorage ==
  \A p \in Plugins : working[p] /\ activities[p].storage \notin Exempt => ~lease

(* The lease has one owner, which keeps it until its outermost scope ends.  *)
OneOwner ==
  /\ \A t, u \in Threads : depth[t] > 0 /\ depth[u] > 0 => t = u
  /\ lease <=> \E t \in Threads : depth[t] > 0

(* A plugin that works on files has an active activity, so PluginStorageBusy *)
(* answers for it and the user can see and stop it.                         *)
WorkIsShown == \A p \in Plugins : working[p] => Active(activities[p])

(* The storage of an active task never changes ("The claim cannot change    *)
(* while active", features/plugin_api/README.md:128).                       *)
ClaimKept ==
  \A p \in Plugins : Active(activities[p]) /\ Active(activities'[p]) =>
    /\ activities'[p].storage = activities[p].storage
    /\ activities'[p].id = activities[p].id
ClaimIsFixed == [][ClaimKept]_vars

(* There are never more entries than the limit.                             *)
Bounded == Cardinality({p \in Plugins : activities[p].state # "none"}) <= MaxActivities

(* The claim of a runtime that ended is given back, so that recovery        *)
(* operations are not refused for good.                                     *)
ClaimReturned ==
  \A p \in Plugins : runtime[p] \in {"exited", "closed", "stopping"} ~> ~Active(activities[p])
=============================================================================
