------------------------------ MODULE FlashLog ------------------------------
(***************************************************************************)
(* The flash and diagnostic recordings: aera_flash_log.cpp, with the roots *)
(* and the archiver of aera_flash_log_platform.cpp.                        *)
(*                                                                         *)
(* A recording collects its logs in a raw directory of the work root       *)
(* (/tmp) and ends as a ZIP in the persistent root, or in the work root    *)
(* when that one cannot be written.  A recording without an end is packed  *)
(* as "_INCOMPLETE" by the next caller.  Two reports are kept.  Recorder   *)
(* and readers (UI, browser) run on threads of their own and share only    *)
(* the files, one flock per root and the flag `active`; the process may be *)
(* killed and the phone may lose power between any two steps.              *)
(*                                                                         *)
(* The recordings here are the manual ones, with their Quick Settings      *)
(* switch.  Those of flash jobs run the same code in their own roots,      *)
(* called directly; a nested one finds `active` set and does nothing.      *)
(***************************************************************************)
EXTENDS Naturals, FiniteSets

CONSTANTS Readers,         \* threads that call Reports()
          MaxRecordings,   \* bound on recordings
          MaxCrashes,      \* bound on killed processes and lost power
          MaxMounts        \* bound on mounts and unmounts of the persistent root

ASSUME BoundsAssumption ==
  /\ MaxRecordings \in Nat /\ MaxCrashes \in Nat /\ MaxMounts \in Nat
  /\ "worker" \notin Readers /\ "free" \notin Readers

Ids == 1..MaxRecordings
Roots == {"saved", "work"}
Suffixes == {"_SUCCESS", "_INCOMPLETE"}
Archives == Roots \X Ids \X Suffixes
Items == Archives \cup ({"work"} \X Ids \X {"raw"})
Threads == {"worker"} \cup Readers
NoPath == <<"work", 0, "raw">>
\* Between two steps a thread is in Package, or at a point of Reports or of the worker.
Packing == {"archive", "rename", "date", "sync", "remove"}
ReaderPoints == {"idle", "first", "second", "check", "recover", "list", "choose", "delete"} \cup Packing
WorkerPoints == {"idle", "enter", "lock", "recover", "make", "own", "list", "choose", "delete", "up",
                 "finish", "close", "closed"} \cup Packing

VARIABLES
  raw,       \* raw directory of each recording: "no", "bare" (no .owner yet), "owned"
  zip,       \* finished archives: "no", "loose" (directory not synced), "kept"
  parts,     \* the .zip.part files
  mtime,     \* their modification times
  date,      \* when each recording started: the time of its .owner
  clock,
  mounted,   \* the persistent root is mounted, decrypted and has room
  active,    \* active[manual]
  lock,      \* the holder of each root's .capture.lock, or "free"
  live,      \* the recording of the current Session, or 0
  status,    \* ManualStatus::state
  path,      \* the report last shown as saved (ManualStatus::path), or NoPath
  misdated,  \* observer: between a rename and its utimensat somebody listed the reports,
             \* the process ended or the files went away
  newest,    \* observer: the last recording that began, unless power was lost since
  pc, todo, job, seen, victims,
             \* per thread: control point, raw directories still to recover, what
             \* Package works on, what PruneAll has listed and what it will delete
  count, crashes, mounts   \* bounds

files == <<raw, zip, parts, mtime, date>>
session == <<active, lock, live>>
manual == <<status, path, misdated, newest>>
threads == <<pc, todo, job, seen, victims>>
bounds == <<count, crashes, mounts>>
vars == <<files, clock, mounted, session, manual, threads, bounds>>

FilesOK ==
  /\ raw \in [Ids -> {"no", "bare", "owned"}]
  /\ zip \in [Archives -> {"no", "loose", "kept"}] /\ parts \subseteq Archives
  /\ mtime \in [Archives -> Nat] /\ date \in [Ids -> Nat]
ManualOK ==
  /\ lock \in [Roots -> Threads \cup {"free"}] /\ live \in 0..MaxRecordings
  /\ status \in {"idle", "starting", "recording", "saving", "failed"}
  /\ path \in Archives \cup {NoPath} /\ newest \in 0..MaxRecordings
BoundsOK == clock \in Nat /\ count \in 0..MaxRecordings /\ crashes \in Nat /\ mounts \in Nat
PointsOK ==
  /\ pc \in [Threads -> ReaderPoints \cup WorkerPoints]
  /\ pc["worker"] \in WorkerPoints /\ \A t \in Readers : pc[t] \in ReaderPoints
WorkOK == todo \in [Threads -> SUBSET Ids] /\ job \in [Threads -> Archives \cup {NoPath}]
ListsOK == seen \in [Threads -> SUBSET (Items \X Nat)] /\ victims \in [Threads -> SUBSET Items]
FlagsOK == mounted \in BOOLEAN /\ active \in BOOLEAN /\ misdated \in BOOLEAN
TypeOK == FilesOK /\ ManualOK /\ BoundsOK /\ PointsOK /\ WorkOK /\ ListsOK /\ FlagsOK

NoThreads ==
  /\ pc = [t \in Threads |-> "idle"] /\ todo = [t \in Threads |-> {}]
  /\ job = [t \in Threads |-> NoPath]
  /\ seen = [t \in Threads |-> {}] /\ victims = [t \in Threads |-> {}]

Init ==
  /\ raw = [i \in Ids |-> "no"] /\ zip = [k \in Archives |-> "no"] /\ parts = {}
  /\ mtime = [k \in Archives |-> 0] /\ date = [i \in Ids |-> 0]
  /\ clock = 0 /\ mounted \in BOOLEAN
  /\ active = FALSE /\ lock = [r \in Roots |-> "free"] /\ live = 0
  /\ status = "idle" /\ path = NoPath /\ newest = 0 /\ misdated = FALSE
  /\ NoThreads
  /\ count = 0 /\ crashes = 0 /\ mounts = 0

Undated == \E t \in Threads : pc[t] = "date"
At(t, from, to) == pc[t] = from /\ pc' = [pc EXCEPT ![t] = to]
-----------------------------------------------------------------------------
(* Entries and their order. *)

Readable(root) == root = "work" \/ mounted
Entries(root) ==
  {e \in Items : /\ e[1] = root /\ Readable(root)
                 /\ IF e[3] = "raw" THEN raw[e[2]] = "owned" ELSE zip[e] # "no"}
\* A time of its own for each start, and one after it for what is written later;
\* the logs are created in the directory after its .owner.
StartTime(i) == 2 * date[i]
Now == 2 * clock + 1
Time(e) == IF e[3] = "raw" THEN StartTime(e[2]) + 1 ELSE mtime[e]
\* By modification time, then by name; the sort is stable and lists the persistent
\* root first.
NameRank(e) == CASE e[3] = "_SUCCESS" -> 2 [] e[3] = "_INCOMPLETE" -> 1 [] e[3] = "raw" -> 0
\* Mutant: the oldest come first.
OldestFirst(x, y) == x[2] < y[2]
Newer(x, y) ==
  LET e == x[1] f == y[1] IN
  \/ x[2] > y[2]
  \/ /\ x[2] = y[2]
     /\ \/ date[e[2]] > date[f[2]]
        \/ date[e[2]] = date[f[2]] /\ NameRank(e) > NameRank(f)
        \/ date[e[2]] = date[f[2]] /\ NameRank(e) = NameRank(f) /\ e[1] = "saved" /\ f[1] = "work"
\* What a listing shows: the entries of a root with their times.
Listed(root) == {<<e, Time(e)>> : e \in Entries(root)}
Beyond(S, keep) == {x[1] : x \in {y \in S : Cardinality({z \in S : Newer(z, y)}) >= keep}}

\* RemoveRaw: nothing unless owned; the .part files of the recording go too.
RemoveRaw(i) ==
  IF raw[i] # "owned" THEN UNCHANGED <<raw, parts>>
  ELSE /\ raw' = [raw EXCEPT ![i] = "no"]
       /\ parts' = {k \in parts : k[2] # i \/ ~Readable(k[1])}
-----------------------------------------------------------------------------
(* Recover and Package, on thread t. *)

\* Lock: not blocking.
Taken(root, t) == lock[root] = "free" /\ lock' = [lock EXCEPT ![root] = t]

\* The owned directories that Recover has found; it takes the newest first.
Orphans == {i \in Ids : raw[i] = "owned"}
RecoverOne(t) ==
  /\ pc[t] = "recover" /\ todo[t] # {}
  /\ \E i \in todo[t] :
       /\ \A j \in todo[t] : date[j] <= date[i]
       /\ todo' = [todo EXCEPT ![t] = @ \ {i}]
       /\ IF raw[i] = "owned"
            THEN \E root \in {"work"} \cup (IF mounted THEN {"saved"} ELSE {}) :
                   /\ job' = [job EXCEPT ![t] = <<root, i, "_INCOMPLETE">>]
                   /\ pc' = [pc EXCEPT ![t] = "archive"]
            ELSE UNCHANGED <<job, pc>>
  /\ UNCHANGED <<files, clock, mounted, session, manual, seen, victims, bounds>>

\* What follows a Package: Recover goes on; Finish tries the work root, then prunes.
Afterwards(t, packed) ==
  CASE job[t][3] = "_INCOMPLETE" -> <<"recover", NoPath>>
    [] job[t][3] = "_SUCCESS" /\ packed -> <<"list", job[t]>>
    [] job[t][3] = "_SUCCESS" /\ ~packed /\ job[t][1] = "saved" -> <<"archive", <<"work", job[t][2], "_SUCCESS">> >>
    [] job[t][3] = "_SUCCESS" /\ ~packed /\ job[t][1] = "work" -> <<"list", NoPath>>
AfterPackage(t, packed) ==
  /\ pc' = [pc EXCEPT ![t] = Afterwards(t, packed)[1]]
  /\ job' = [job EXCEPT ![t] = Afterwards(t, packed)[2]]

\* Archive writes and syncs the .part; the logs that are gone are left out.
Archive(t) ==
  /\ pc[t] = "archive"
  /\ \/ /\ Readable(job[t][1])
        /\ parts' = parts \cup {job[t]}
        /\ pc' = [pc EXCEPT ![t] = "rename"] /\ UNCHANGED job
     \/ /\ parts' = IF Readable(job[t][1]) THEN parts \ {job[t]} ELSE parts
        /\ AfterPackage(t, FALSE)
  /\ UNCHANGED <<raw, zip, mtime, date, clock, mounted, session, manual, todo, seen, victims, bounds>>

\* The report is dated when its archive was written until the next step.
Rename(t) ==
  /\ pc[t] = "rename"
  /\ IF job[t] \in parts /\ Readable(job[t][1])
       THEN /\ zip' = [zip EXCEPT ![job[t]] = "loose"] /\ parts' = parts \ {job[t]}
            /\ mtime' = [mtime EXCEPT ![job[t]] = Now]
            /\ pc' = [pc EXCEPT ![t] = "date"] /\ UNCHANGED job
       ELSE AfterPackage(t, FALSE) /\ UNCHANGED <<zip, parts, mtime>>
  /\ UNCHANGED <<raw, date, clock, mounted, session, manual, todo, seen, victims, bounds>>

\* utimensat with the time of .owner, if there is one.
Date(t) ==
  /\ At(t, "date", "sync")
  /\ IF raw[job[t][2]] = "owned" /\ Readable(job[t][1]) /\ zip[job[t]] # "no"
       THEN mtime' = [mtime EXCEPT ![job[t]] = StartTime(job[t][2])] /\ UNCHANGED misdated
       ELSE misdated' = TRUE /\ UNCHANGED mtime
  /\ UNCHANGED <<raw, zip, parts, date, clock, mounted, session, status, path, newest, todo, job, seen, victims, bounds>>

\* Mutant: the directory is not synced.
Unsynced(k) == zip
\* fsync of the directory.
Synced(k) == IF zip[k] = "loose" /\ Readable(k[1]) THEN [zip EXCEPT ![k] = "kept"] ELSE zip
Sync(t) ==
  /\ At(t, "sync", "remove")
  /\ zip' = Synced(job[t])
  /\ UNCHANGED <<raw, parts, mtime, date, clock, mounted, session, manual, todo, job, seen, victims, bounds>>

Remove(t) ==
  /\ pc[t] = "remove"
  /\ RemoveRaw(job[t][2]) /\ AfterPackage(t, TRUE)
  /\ UNCHANGED <<zip, mtime, date, clock, mounted, session, manual, todo, seen, victims, bounds>>
-----------------------------------------------------------------------------
(* Prune and PruneAll: list, then delete one by one. *)

\* Prune of one root ends Recover.
Prune(t, root) ==
  /\ pc[t] = "recover" /\ todo[t] = {} /\ lock[root] = t
  /\ victims' = [victims EXCEPT ![t] = Beyond(Listed(root), 2)]
  /\ pc' = [pc EXCEPT ![t] = "delete"]
  /\ UNCHANGED <<files, clock, mounted, session, manual, todo, job, seen, bounds>>

\* PruneAll: Entries of the persistent root, then of the work root; the worker's
\* constructor protects its own directory and keeps one other.
List(t) ==
  /\ At(t, "list", "choose")
  /\ seen' = [seen EXCEPT ![t] = Listed("saved")]
  /\ misdated' = (misdated \/ Undated)
  /\ UNCHANGED <<files, clock, mounted, session, status, path, newest, todo, job, victims, bounds>>
Protects(t) == t = "worker" /\ status = "starting"
Choose(t) ==
  /\ At(t, "choose", "delete")
  /\ LET all == {x \in seen[t] \cup Listed("work") : ~Protects(t) \/ x[1] # <<"work", live, "raw">>}
     IN victims' = [victims EXCEPT ![t] = Beyond(all, IF Protects(t) THEN 1 ELSE 2)]
  /\ seen' = [seen EXCEPT ![t] = {}]
  /\ misdated' = (misdated \/ Undated)
  /\ UNCHANGED <<files, clock, mounted, session, status, path, newest, todo, job, bounds>>

Delete(t) ==
  /\ pc[t] = "delete"
  /\ \E e \in victims[t] :
       /\ victims' = [victims EXCEPT ![t] = @ \ {e}]
       /\ IF e[3] = "raw" THEN RemoveRaw(e[2]) /\ UNCHANGED zip
          ELSE zip' = (IF Readable(e[1]) THEN [zip EXCEPT ![e] = "no"] ELSE zip) /\ UNCHANGED <<raw, parts>>
  /\ UNCHANGED <<mtime, date, clock, mounted, session, manual, pc, todo, job, seen, bounds>>
-----------------------------------------------------------------------------
(* Recording and ToggleManual: the worker. *)

\* ToggleManual ignores a press while the worker starts or saves.
ToggleStart ==
  /\ status \in {"idle", "failed"} /\ count < MaxRecordings
  /\ status' = "starting" /\ At("worker", "idle", "enter")
  /\ UNCHANGED <<files, clock, mounted, session, path, misdated, newest, todo, job, seen, victims, bounds>>
ToggleStop ==
  /\ status = "recording"
  /\ status' = "saving" /\ At("worker", "idle", "finish")
  /\ UNCHANGED <<files, clock, mounted, session, path, misdated, newest, todo, job, seen, victims, bounds>>

\* The constructor: compare_exchange on `active`, then the lock of the work root.
Enter ==
  /\ At("worker", "enter", "lock") /\ active' = TRUE
  /\ UNCHANGED <<files, clock, mounted, lock, live, manual, todo, job, seen, victims, bounds>>

\* ~Session and the worker's last block, after a constructor that gave up or a
\* recording that did not start.
GiveUp ==
  /\ active' = FALSE /\ live' = 0
  /\ lock' = [r \in Roots |-> IF lock[r] = "worker" THEN "free" ELSE lock[r]]
  /\ status' = "failed" /\ pc' = [pc EXCEPT !["worker"] = "idle"]
  /\ UNCHANGED <<files, clock, mounted, path, misdated, newest, todo, job, seen, victims, bounds>>
LockOrGiveUp ==
  /\ pc["worker"] = "lock"
  /\ \/ /\ Taken("work", "worker")
        /\ todo' = [todo EXCEPT !["worker"] = Orphans] /\ pc' = [pc EXCEPT !["worker"] = "recover"]
        /\ UNCHANGED <<files, clock, mounted, active, live, manual, job, seen, victims, bounds>>
     \/ lock["work"] # "free" /\ GiveUp

\* mkdtemp; a path shown before belongs to an earlier recording from here on.
MakeDirectory ==
  /\ At("worker", "make", "own")
  /\ count' = count + 1 /\ live' = count + 1 /\ clock' = clock + 1
  /\ raw' = [raw EXCEPT ![count + 1] = "bare"] /\ date' = [date EXCEPT ![count + 1] = clock + 1]
  /\ path' = NoPath /\ newest' = 0
  /\ UNCHANGED <<zip, parts, mtime, mounted, active, lock, status, misdated, todo, job, seen, victims, crashes, mounts>>
WriteOwner ==
  /\ At("worker", "own", "list")
  /\ raw' = [raw EXCEPT ![live] = "owned"] /\ newest' = live
  /\ UNCHANGED <<zip, parts, mtime, date, clock, mounted, session, status, path, misdated, todo, job, seen, victims, bounds>>
\* mkdtemp or .owner fails, or Started() finds no logcat or thread.
StartFails == pc["worker"] \in {"make", "own", "up"} /\ GiveUp
StartSucceeds ==
  /\ At("worker", "up", "idle") /\ status' = "recording"
  /\ UNCHANGED <<files, clock, mounted, session, path, misdated, newest, todo, job, seen, victims, bounds>>

\* Finish resolves the persistent root again.
Finish ==
  /\ At("worker", "finish", "archive")
  /\ \E root \in {"work"} \cup (IF mounted THEN {"saved"} ELSE {}) :
       job' = [job EXCEPT !["worker"] = <<root, live, "_SUCCESS">>]
  /\ UNCHANGED <<files, clock, mounted, session, manual, todo, seen, victims, bounds>>
\* ~Session closes the lock, then clears `active`; the worker shows the result.
Unlock ==
  /\ At("worker", "close", "closed")
  /\ lock' = [lock EXCEPT !["work"] = "free"]
  /\ UNCHANGED <<files, clock, mounted, active, live, manual, todo, job, seen, victims, bounds>>
Close ==
  /\ At("worker", "closed", "idle")
  /\ active' = FALSE /\ live' = 0
  /\ status' = IF job["worker"] = NoPath THEN "failed" ELSE "idle"
  /\ path' = job["worker"] /\ job' = [job EXCEPT !["worker"] = NoPath]
  /\ UNCHANGED <<files, clock, mounted, lock, misdated, newest, todo, seen, victims, bounds>>

\* Where the worker goes when a Prune or PruneAll has deleted its last victim.
WorkerDeleted ==
  /\ victims["worker"] = {}
  /\ At("worker", "delete", IF live = 0 THEN "make" ELSE IF status = "starting" THEN "up" ELSE "close")
  /\ UNCHANGED <<files, clock, mounted, session, manual, todo, job, seen, victims, bounds>>
-----------------------------------------------------------------------------
(* Reports, on thread t: Recover in each root whose lock is free, then PruneAll
   unless a recording is active. *)

Report(t) ==
  /\ At(t, "idle", "first")
  /\ UNCHANGED <<files, clock, mounted, session, manual, todo, job, seen, victims, bounds>>

\* Mutant: the lock is not asked for.
Unlocked(root, t) == lock' = [lock EXCEPT ![root] = IF @ = "free" THEN t ELSE @]
ReadersLock(root, t) == Taken(root, t)

EnterSaved(t) ==
  /\ pc[t] = "first"
  /\ \/ /\ mounted /\ ReadersLock("saved", t)
        /\ pc' = [pc EXCEPT ![t] = "recover"]      \* there are no raw directories
     \/ /\ ~mounted \/ lock["saved"] # "free"
        /\ pc' = [pc EXCEPT ![t] = "second"] /\ UNCHANGED lock
  /\ UNCHANGED <<files, clock, mounted, active, live, manual, todo, job, seen, victims, bounds>>
EnterWork(t) ==
  /\ pc[t] = "second"
  /\ \/ /\ ReadersLock("work", t)
        /\ todo' = [todo EXCEPT ![t] = Orphans] /\ pc' = [pc EXCEPT ![t] = "recover"]
     \/ /\ lock["work"] # "free"
        /\ pc' = [pc EXCEPT ![t] = "check"] /\ UNCHANGED <<lock, todo>>
  /\ UNCHANGED <<files, clock, mounted, active, live, manual, job, seen, victims, bounds>>
ReaderDeleted(t) ==
  /\ victims[t] = {}
  /\ At(t, "delete", IF lock["saved"] = t THEN "second" ELSE IF lock["work"] = t THEN "check" ELSE "idle")
  /\ lock' = [r \in Roots |-> IF lock[r] = t THEN "free" ELSE lock[r]]
  /\ UNCHANGED <<files, clock, mounted, active, live, manual, todo, job, seen, victims, bounds>>
Check(t) ==
  /\ At(t, "check", IF active THEN "idle" ELSE "list")
  /\ UNCHANGED <<files, clock, mounted, session, manual, todo, job, seen, victims, bounds>>
-----------------------------------------------------------------------------
(* The environment. *)

ProcessGone ==
  /\ crashes < MaxCrashes /\ crashes' = crashes + 1
  /\ active' = FALSE /\ lock' = [r \in Roots |-> "free"] /\ live' = 0 /\ status' = "idle"
  /\ misdated' = (misdated \/ Undated)
  /\ pc' = [t \in Threads |-> "idle"] /\ todo' = [t \in Threads |-> {}]
  /\ job' = [t \in Threads |-> NoPath]
  /\ seen' = [t \in Threads |-> {}] /\ victims' = [t \in Threads |-> {}]
\* The process is killed and started again: the files stay.
Crash ==
  /\ ProcessGone
  /\ UNCHANGED <<files, clock, mounted, path, newest, count, mounts>>
\* Power is lost: the work root is gone, and what was not synced may be.
PowerLoss ==
  /\ ProcessGone
  /\ raw' = [i \in Ids |-> "no"]
  /\ \E lost \in SUBSET {k \in Archives : zip[k] = "loose"} :
       zip' = [k \in Archives |-> IF k[1] = "work" \/ k \in lost THEN "no" ELSE zip[k]]
  /\ parts' = {k \in parts : k[1] = "saved"}
  /\ path' = IF path[1] = "work" THEN NoPath ELSE path
  /\ newest' = 0
  /\ UNCHANGED <<mtime, date, clock, mounted, count, mounts>>

\* The persistent root is unmounted, which syncs it, or mounted.
Mount ==
  /\ mounts < MaxMounts /\ mounts' = mounts + 1
  /\ mounted' = ~mounted
  /\ zip' = [k \in Archives |-> IF k[1] = "saved" /\ zip[k] = "loose" THEN "kept" ELSE zip[k]]
  /\ UNCHANGED <<raw, parts, mtime, date, clock, session, manual, threads, count, crashes>>
-----------------------------------------------------------------------------
Files(t) ==
  \/ RecoverOne(t) \/ Archive(t) \/ Rename(t) \/ Date(t) \/ Sync(t) \/ Remove(t)
  \/ (\E root \in Roots : Prune(t, root)) \/ List(t) \/ Choose(t) \/ Delete(t)
Worker ==
  \/ ToggleStart \/ ToggleStop \/ Enter \/ LockOrGiveUp \/ MakeDirectory \/ WriteOwner
  \/ StartFails \/ StartSucceeds \/ Finish \/ Unlock \/ Close \/ WorkerDeleted \/ Files("worker")
Reader(t) == Report(t) \/ EnterSaved(t) \/ EnterWork(t) \/ ReaderDeleted(t) \/ Check(t) \/ Files(t)
Next == Worker \/ (\E t \in Readers : Reader(t)) \/ Crash \/ PowerLoss \/ Mount

Spec == Init /\ [][Next]_vars
-----------------------------------------------------------------------------
\* The directory of a running recording is neither packed nor removed by somebody
\* else: `.capture.lock` keeps Recover away, its age keeps PruneAll away.
LiveIsKept ==
  status = "recording" =>
    /\ raw[live] = "owned"
    /\ \A t \in Readers : pc[t] \in Packing => job[t][2] # live

\* The report shown as saved exists until the next recording begins, also after
\* the process was killed, and after power was lost if it is not in /tmp.
SavedIsKept == path # NoPath /\ ~misdated => zip[path] # "no"

\* The last recording exists as a directory or a report, whatever failed on the
\* way and wherever the process was killed, until the next one begins.
NewestIsKept ==
  newest # 0 /\ ~misdated => raw[newest] = "owned" \/ \E k \in Archives : k[2] = newest /\ zip[k] # "no"
=============================================================================
