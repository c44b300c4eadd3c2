--------------------------- MODULE FlashLogProofs ---------------------------
(***************************************************************************)
(* Proofs about FlashLog for any number of readers and recordings: the     *)
(* running recording, the report shown as saved and the newest recording   *)
(* are kept, whatever readers, crashes and mounts do meanwhile.            *)
(***************************************************************************)
EXTENDS FlashLog, FiniteSetTheorems, TLAPS

(* .capture.lock of the work root covers Recover and Package, and the        *)
(* worker from its constructor to its destructor; that of the persistent     *)
(* root covers the Prune of one reader.  Readers pack what they recover.     *)
PackInv ==
  \A t \in Threads :
    /\ pc[t] \in Packing \/ todo[t] # {} => lock["work"] = t
    /\ todo[t] # {} => pc[t] = "recover" \/ (pc[t] \in Packing /\ job[t][3] = "_INCOMPLETE")
ReaderInv ==
  \A t \in Readers : /\ pc[t] \in Packing => job[t] \in Archives /\ job[t][3] = "_INCOMPLETE"
                     /\ lock["work"] = t => pc[t] \in {"recover", "delete"} \cup Packing
PruneInv ==
  \A t \in Threads : lock["saved"] = t =>
    t \in Readers /\ pc[t] \in {"recover", "delete"} /\ lock["work"] # t
LockInv == PackInv /\ ReaderInv /\ PruneInv

(* Where the worker is in each state of the switch, what it packs (first     *)
(* what it recovered, at the end its own recording), and when it holds the   *)
(* lock.                                                                     *)
SwitchInv ==
  /\ status \in {"idle", "failed"} => pc["worker"] = "idle" /\ live = 0
  /\ status = "recording" => pc["worker"] = "idle" /\ live # 0
  /\ status = "starting" /\ live = 0 =>
       pc["worker"] \in {"enter", "lock", "recover", "make", "delete"} \cup Packing /\ count < MaxRecordings
  /\ status = "starting" /\ live # 0 => pc["worker"] \in {"own", "list", "choose", "delete", "up"}
  /\ status = "saving" =>
       live # 0 /\ pc["worker"] \in {"finish", "list", "choose", "delete", "close", "closed"} \cup Packing
  /\ live # 0 => live = count
Own(k) == k \in Archives /\ k[2] = live /\ k[3] = "_SUCCESS"
OwnJobInv ==
  /\ status = "starting" /\ pc["worker"] \in Packing =>
       job["worker"] \in Archives /\ job["worker"][3] = "_INCOMPLETE"
  /\ status = "saving" /\ pc["worker"] # "finish" =>
       Own(job["worker"]) \/ (job["worker"] = NoPath /\ pc["worker"] \notin Packing)
OwnLockInv ==
  lock["work"] = "worker" <=>
    \/ live # 0 /\ pc["worker"] # "closed"
    \/ live = 0 /\ pc["worker"] \in {"recover", "make", "delete"} \cup Packing
WorkerInv == SwitchInv /\ OwnJobInv /\ OwnLockInv

(* Recordings start at times of their own, in the order of their numbers,    *)
(* and nothing exists or is listed of one that did not start.                *)
StartsInv == clock = count /\ \A i \in Ids : i <= count => date[i] = i
FilesInv ==
  /\ \A i \in Ids : raw[i] # "no" => i <= count
  /\ \A k \in Archives : zip[k] # "no" => k[2] <= count
TodoInv ==
  /\ \A t \in Threads : job[t][2] <= count
  /\ \A t \in Threads : \A i \in todo[t] : i <= count
SeenInv ==
  /\ \A t \in Threads : \A x \in seen[t] : x[1] \in Archives /\ x[1][1] = "saved" /\ x[1][2] <= count
  /\ \A t \in Threads : \A e \in victims[t] : e[2] <= count
CountInv == StartsInv /\ FilesInv /\ TodoInv /\ SeenInv

(* A report is dated between the start of its recording and now.             *)
TimeInv ==
  /\ \A k \in Archives : mtime[k] <= 2 * count + 1
  /\ \A k \in Archives : zip[k] # "no" => mtime[k] >= 2 * k[2]
  /\ \A t \in Threads : \A x \in seen[t] : x[2] <= 2 * count + 1

(* Of the recording in progress there is the directory and nothing else,     *)
(* and nobody is about to delete it.                                         *)
InProgress == live # 0 /\ (status # "saving" \/ pc["worker"] \in {"finish", "archive", "rename"})
LiveInv ==
  InProgress =>
    /\ \A k \in Archives : k[2] = live => zip[k] = "no"
    /\ \A t \in Threads : \A x \in seen[t] : x[1][2] # live
    /\ \A t \in Threads : \A e \in victims[t] : e[2] # live
    /\ raw[live] = IF pc["worker"] = "own" THEN "bare" ELSE "owned"

(* Unless somebody saw or lost the window between rename and utimensat, a    *)
(* report has the time of its recording, and had it when it was listed.      *)
DateInv ==
  ~misdated =>
    /\ \A k \in Archives : zip[k] # "no" =>
         mtime[k] = 2 * k[2] \/ \E t \in Threads : pc[t] = "date" /\ job[t] = k
    /\ \A t \in Threads : \A x \in seen[t] : x[2] = 2 * x[1][2]

(* Unmounting syncs.                                                         *)
LooseInv == \A k \in Archives : k[1] = "saved" /\ zip[k] = "loose" => mounted

(* Of the last recording there is at most one complete report, and nobody is *)
(* about to delete it or the directory.  A recovered report may be deleted   *)
(* beside the complete one, or, in the work root, beside a recovered report  *)
(* in the persistent root.                                                   *)
CompleteAt(k) == k[2] = count /\ k[3] = "_SUCCESS" /\ zip[k] # "no"
Complete == \E k \in Archives : CompleteAt(k)
Recovered == \E k \in Archives : k[1] = "saved" /\ k[2] = count /\ k[3] = "_INCOMPLETE" /\ zip[k] # "no"
OneComplete == \A k, m \in Archives : CompleteAt(k) /\ CompleteAt(m) => k = m
Spared(e) ==
  e[2] = count => /\ e[3] = "_INCOMPLETE" /\ (Complete \/ Recovered)
                  /\ e[1] = "saved" => Complete
VictimInv ==
  /\ OneComplete
  /\ ~misdated => \A t \in Threads : \A e \in victims[t] : Spared(e)
  /\ ~misdated => \A t \in Threads : \A x \in seen[t] :
       x[1][2] = count => zip[x[1]] # "no" \/ (x[1][3] = "_INCOMPLETE" /\ Complete)

(* The newest recording is a directory or a report, and a report as soon as  *)
(* its directory is about to go.                                             *)
Reported == \E k \in Archives : k[2] = count /\ zip[k] # "no"
NewestInv ==
  /\ newest \in {0, count}
  /\ newest # 0 /\ ~misdated => raw[newest] = "owned" \/ Reported
  /\ newest # 0 /\ ~misdated =>
       \A t \in Threads : pc[t] \in {"date", "sync", "remove"} /\ job[t][2] = count => Reported

(* The report shown as saved, and the one about to be shown, are synced.     *)
PathInv ==
  /\ path # NoPath => path \in Archives /\ path[2] = count /\ path[3] = "_SUCCESS" /\ live = 0
  /\ path # NoPath /\ ~misdated => zip[path] = "kept"
  /\ status = "saving" /\ Own(job["worker"]) /\ ~misdated =>
       /\ pc["worker"] \in {"date", "sync"} => zip[job["worker"]] # "no"
       /\ pc["worker"] \in {"remove", "list", "choose", "delete", "close", "closed"} => zip[job["worker"]] = "kept"

Inv ==
  /\ LockInv /\ WorkerInv /\ CountInv /\ TimeInv /\ LiveInv /\ DateInv /\ LooseInv
  /\ VictimInv /\ NewestInv /\ PathInv
IInv == TypeOK /\ Inv

(* A thread that moves on leaves the others where they are.                  *)
LEMMA Moved ==
  ASSUME TypeOK, NEW t \in Threads, NEW from, NEW to, At(t, from, to)
  PROVE  pc[t] = from /\ pc'[t] = to /\ \A u \in Threads : u # t => pc'[u] = pc[u]
BY Zenon DEF At, TypeOK, PointsOK

(* The worker is one of the threads.                                         *)
LEMMA WorkerIsThread == "worker" \in Threads
BY DEF Threads

(* So is every reader, and no reader is the worker.                          *)
LEMMA ReaderIsThread == ASSUME NEW t \in Readers PROVE t \in Threads /\ t # "worker"
BY BoundsAssumption, Zenon DEF Threads

(* Listing what a root keeps moves the thread on and touches no file.        *)
LEMMA Pruning ==
  ASSUME NEW t \in Threads, NEW root \in Roots, Prune(t, root)
  PROVE  /\ At(t, "recover", "delete")
         /\ UNCHANGED <<raw, zip, mtime, path, misdated, newest, count, job, seen, lock, status, live>>
BY Zenon DEF Prune, At, files, session, manual, bounds

(* Of the recording to be started next nothing exists or is listed.          *)
LEMMA NothingYet ==
  ASSUME CountInv, count \in Nat
  PROVE  /\ \A k \in Archives : k[2] = count + 1 => zip[k] = "no"
         /\ \A t \in Threads : \A x \in seen[t] : x[1][2] # count + 1
         /\ \A t \in Threads : \A e \in victims[t] : e[2] # count + 1
<1>1. ~(count + 1 <= count)
  OBVIOUS
<1> QED
  BY <1>1, Zenon DEF CountInv, FilesInv, SeenInv

(* What Recover does with one directory: it is taken off the list, and packed *)
(* as incomplete if it is still there.                                        *)
Recovering(t) ==
  /\ pc[t] = "recover" /\ todo[t] # {} /\ pc' = [pc EXCEPT ![t] = pc'[t]]
  /\ todo' \in [Threads -> SUBSET Ids] /\ todo'[t] \subseteq todo[t]
  /\ job' \in [Threads -> Archives \cup {NoPath}]
  /\ \A u \in Threads : u # t => pc'[u] = pc[u] /\ job'[u] = job[u] /\ todo'[u] = todo[u]
  /\ \/ pc'[t] = "recover" /\ job'[t] = job[t]
     \/ pc'[t] = "archive" /\ job'[t] \in Archives /\ job'[t][3] = "_INCOMPLETE" /\ job'[t][2] \in todo[t]
  /\ UNCHANGED <<lock, status, live, count, raw, zip, mtime, seen, victims, path, newest, misdated>>

(* A step of Recover takes the next directory, or passes over one that is    *)
(* gone.                                                                     *)
LEMMA RecoverStep ==
  ASSUME TypeOK, NEW t \in Threads, RecoverOne(t)
  PROVE  Recovering(t)
<1> USE DEF Recovering
<1>1. PICK i \in todo[t] :
        /\ todo' = [todo EXCEPT ![t] = @ \ {i}]
        /\ IF raw[i] = "owned"
             THEN \E root \in {"work"} \cup (IF mounted THEN {"saved"} ELSE {}) :
                    /\ job' = [job EXCEPT ![t] = <<root, i, "_INCOMPLETE">>]
                    /\ pc' = [pc EXCEPT ![t] = "archive"]
             ELSE UNCHANGED <<job, pc>>
  BY Zenon DEF RecoverOne
<1>2. i \in Ids
  BY Zenon DEF TypeOK, WorkOK
<1>3. CASE raw[i] = "owned"
  <2>1. PICK root \in Roots :
          /\ job' = [job EXCEPT ![t] = <<root, i, "_INCOMPLETE">>]
          /\ pc' = [pc EXCEPT ![t] = "archive"]
    BY <1>1, <1>3, Zenon DEF Roots
  <2>2. <<root, i, "_INCOMPLETE">> \in Archives
    BY <1>2, Zenon DEF Archives, Suffixes
  <2> QED
    BY <2>1, <2>2, Zenon DEF TypeOK, WorkOK, PointsOK, RecoverOne, files, session, manual, bounds
<1>4. CASE raw[i] # "owned"
  BY <1>1, <1>4, Zenon DEF TypeOK, WorkOK, PointsOK, RecoverOne, files, session, manual, bounds
<1> QED
  BY <1>3, <1>4, Zenon

(* Where a thread goes after Package, and what it then works on.             *)
LEMMA Resumed ==
  ASSUME TypeOK, NEW t \in Threads, NEW packed \in BOOLEAN, job[t] \in Archives, AfterPackage(t, packed)
  PROVE  /\ \A u \in Threads : u # t => pc'[u] = pc[u] /\ job'[u] = job[u]
         /\ job' \in [Threads -> Archives \cup {NoPath}] /\ pc' = [pc EXCEPT ![t] = pc'[t]]
         /\ job[t][3] = "_INCOMPLETE" => pc'[t] = "recover" /\ job'[t] = NoPath
         /\ job[t][3] = "_SUCCESS" /\ packed => pc'[t] = "list" /\ job'[t] = job[t]
         /\ job[t][3] = "_SUCCESS" /\ ~packed /\ job[t][1] = "saved" =>
              pc'[t] = "archive" /\ job'[t] = <<"work", job[t][2], "_SUCCESS">>
         /\ job[t][3] = "_SUCCESS" /\ ~packed /\ job[t][1] = "work" => pc'[t] = "list" /\ job'[t] = NoPath
         /\ job'[t] \in Archives \cup {NoPath}
         /\ job'[t] # NoPath => job'[t][2] = job[t][2] /\ job'[t][3] = job[t][3]
<1>1. job[t][1] \in Roots /\ job[t][2] \in Ids /\ job[t][3] \in Suffixes
  BY Zenon DEF Archives
<1>2. <<"work", job[t][2], "_SUCCESS">> \in Archives
  BY Zenon DEF Archives, Roots, Suffixes
<1>3. CASE job[t][3] = "_INCOMPLETE"
  <2>1. Afterwards(t, packed) = <<"recover", NoPath>>
    BY <1>3, Zenon DEF Afterwards
  <2> QED
    BY <1>3, <2>1 DEF AfterPackage, TypeOK, WorkOK, PointsOK
<1>4. CASE job[t][3] = "_SUCCESS" /\ packed
  <2>1. Afterwards(t, packed) = <<"list", job[t]>>
    BY <1>4, Zenon DEF Afterwards
  <2>2. pc' = [pc EXCEPT ![t] = "list"] /\ job' = [job EXCEPT ![t] = job[t]]
    BY <2>1 DEF AfterPackage
  <2> QED
    BY <1>4, <2>2, Zenon DEF TypeOK, WorkOK, PointsOK
<1>5. CASE job[t][3] = "_SUCCESS" /\ ~packed /\ job[t][1] = "saved"
  <2>1. Afterwards(t, packed) = <<"archive", <<"work", job[t][2], "_SUCCESS">> >>
    BY <1>5, Zenon DEF Afterwards
  <2> QED
    BY <1>5, <2>1, <1>2 DEF AfterPackage, TypeOK, WorkOK, PointsOK
<1>6. CASE job[t][3] = "_SUCCESS" /\ ~packed /\ job[t][1] = "work"
  <2>1. Afterwards(t, packed) = <<"list", NoPath>>
    BY <1>6, Zenon DEF Afterwards
  <2> QED
    BY <1>6, <2>1 DEF AfterPackage, TypeOK, WorkOK, PointsOK
<1> QED
  BY <1>1, <1>3, <1>4, <1>5, <1>6, Zenon DEF Suffixes, Roots

(* Who is left out of a listing that keeps two has two newer entries there.   *)
LEMMA TwoNewer ==
  ASSUME NEW S, NEW e \in Beyond(S, 2)
  PROVE  \E x, y, z \in S : x[1] = e /\ Newer(y, x) /\ Newer(z, x) /\ y # z
<1>1. PICK x \in S : x[1] = e /\ Cardinality({z \in S : Newer(z, x)}) >= 2
  BY Zenon DEF Beyond
<1> DEFINE N == {z \in S : Newer(z, x)}
<1>2. N # {}
  BY <1>1, FS_EmptySet
<1>3. PICK y \in N : TRUE
  BY <1>2, Zenon
<1>4. N # {y}
  BY <1>1, FS_Singleton
<1>5. PICK z \in N : z # y
  BY <1>4, Zenon
<1> QED
  BY <1>1, <1>5, Zenon

(* Two entries with the same place, number and suffix are one.               *)
LEMMA SameItem ==
  ASSUME NEW e \in Items, NEW f \in Items, e[1] = f[1], e[2] = f[2], e[3] = f[3]
  PROVE  e = f
BY DEF Items, Archives

(* Entries are a root, the number of a recording and what it is.             *)
LEMMA ItemParts ==
  ASSUME NEW e \in Items
  PROVE  /\ e[1] \in Roots /\ e[2] \in Ids /\ e[3] \in Suffixes \cup {"raw"}
         /\ e[3] # "raw" <=> e \in Archives
         /\ e[3] = "raw" => e[1] = "work"
BY Zenon DEF Items, Archives, Roots, Suffixes

(* An archive of a root, a recording and a suffix.                           *)
LEMMA ArchiveParts ==
  ASSUME NEW k \in Archives
  PROVE  k[1] \in Roots /\ k[2] \in Ids /\ k[3] \in Suffixes /\ k \in Items /\ k # NoPath
BY DEF Archives, Items, NoPath, Suffixes

(* What a listing of a root shows.                                           *)
LEMMA ListedParts ==
  ASSUME TypeOK, NEW root \in Roots, NEW x \in Listed(root)
  PROVE  /\ x[1] \in Items /\ x[2] = Time(x[1]) /\ x[1][1] = root /\ x = <<x[1], x[2]>>
         /\ x[1][3] = "raw" => raw[x[1][2]] = "owned"
         /\ x[1][3] # "raw" => zip[x[1]] # "no"
BY DEF Listed, Entries

(* A thread in Package packs an archive and holds the lock.                  *)
Packs(t) ==
  /\ job[t] \in Archives /\ lock["work"] = t
  /\ \A u \in Threads : pc[u] \in Packing \/ todo[u] # {} => u = t
  /\ job[t][3] = "_SUCCESS" => t = "worker" /\ status = "saving" /\ Own(job[t])
  /\ job[t][3] # "_SUCCESS" => job[t][3] = "_INCOMPLETE" /\ (t = "worker" => status = "starting" /\ live = 0)

(* Whoever is in Package packs an archive of its own under the lock, alone.  *)
LEMMA InPackage ==
  ASSUME TypeOK, LockInv, WorkerInv, NEW t \in Threads, pc[t] \in Packing
  PROVE  Packs(t)
<1> USE DEF Packs
<1>1. lock["work"] = t /\ \A u \in Threads : pc[u] \in Packing \/ todo[u] # {} => u = t
  BY Zenon DEF LockInv, PackInv
<1>2. CASE t \in Readers
  BY <1>1, <1>2, BoundsAssumption, Zenon DEF LockInv, ReaderInv
<1>3. CASE t = "worker"
  <2>1. status \in {"starting", "saving"}
    BY <1>3, Zenon DEF TypeOK, ManualOK, WorkerInv, SwitchInv, Packing
  <2>2. status = "starting" => live = 0
    BY <1>3, Zenon DEF WorkerInv, SwitchInv, Packing
  <2>3. status = "saving" => Own(job[t])
    BY <1>3, Zenon DEF WorkerInv, OwnJobInv, Packing
  <2>4. status = "starting" => job[t] \in Archives /\ job[t][3] = "_INCOMPLETE"
    BY <1>3, Zenon DEF WorkerInv, OwnJobInv
  <2> QED
    BY <1>1, <1>3, <2>1, <2>2, <2>3, <2>4, Zenon DEF Own
<1> QED
  BY <1>2, <1>3, Zenon DEF Threads

(* The steps of Package that may end it.                                     *)
Packaging(t) ==
  /\ pc[t] \in Packing /\ pc' = [pc EXCEPT ![t] = pc'[t]] /\ job' \in [Threads -> Archives \cup {NoPath}]
  /\ \A u \in Threads : u # t => pc'[u] = pc[u] /\ job'[u] = job[u]
  /\ \/ pc'[t] = "rename" /\ job'[t] = job[t] /\ pc[t] = "archive"
     \/ pc'[t] = "date" /\ job' = job /\ Rename(t) /\ zip' = [zip EXCEPT ![job[t]] = "loose"]
     \/ pc'[t] = "recover" /\ job'[t] = NoPath /\ job[t][3] = "_INCOMPLETE"
     \/ pc'[t] = "list" /\ job'[t] = job[t] /\ job[t][3] = "_SUCCESS" /\ Remove(t)
     \/ pc'[t] = "list" /\ job'[t] = NoPath /\ job[t][3] = "_SUCCESS"
     \/ /\ pc'[t] = "archive" /\ job[t][3] = "_SUCCESS" /\ pc[t] \in {"archive", "rename"}
        /\ job'[t] = <<"work", job[t][2], "_SUCCESS">> /\ job'[t] \in Archives
  /\ UNCHANGED <<todo, lock, status, live, count, seen, victims, clock, date, mounted, path, newest, misdated>>

(* A step of Package is one of these, whatever fails in it.                  *)
LEMMA PackageStep ==
  ASSUME TypeOK, LockInv, WorkerInv, NEW t \in Threads, Archive(t) \/ Rename(t) \/ Remove(t)
  PROVE  Packaging(t)
<1> USE DEF Packaging
<1>1. pc[t] \in Packing
  BY Zenon DEF Archive, Rename, Remove, Packing
<1>2. job[t] \in Archives /\ job[t][1] \in Roots /\ job[t][3] \in Suffixes
  BY <1>1, InPackage, ArchiveParts, Zenon DEF Packs
<1>3. UNCHANGED <<todo, lock, status, live, count, seen, victims, clock, date, mounted, path, newest, misdated>>
  BY Zenon DEF Archive, Rename, Remove, session, manual, bounds
<1>4. <<"work", job[t][2], "_SUCCESS">> \in Archives
  BY <1>2, Zenon DEF Archives, Roots, Suffixes
<1>5. CASE AfterPackage(t, FALSE) /\ pc[t] \in {"archive", "rename"}
  BY <1>1, <1>2, <1>3, <1>4, <1>5, Resumed, Zenon DEF Roots, Suffixes
<1>6. CASE Remove(t)
  <2>1. AfterPackage(t, TRUE)
    BY <1>6, Zenon DEF Remove
  <2> QED
    BY <1>1, <1>2, <1>3, <1>6, <2>1, Resumed, Zenon DEF Suffixes
<1>7. CASE pc[t] = "archive" /\ pc' = [pc EXCEPT ![t] = "rename"] /\ UNCHANGED job
  BY <1>1, <1>3, <1>7, Zenon DEF TypeOK, WorkOK, PointsOK
<1>8. CASE /\ Rename(t) /\ pc' = [pc EXCEPT ![t] = "date"] /\ UNCHANGED job
            /\ zip' = [zip EXCEPT ![job[t]] = "loose"]
  BY <1>1, <1>3, <1>8, Zenon DEF TypeOK, WorkOK, PointsOK
<1> QED
  BY <1>5, <1>6, <1>7, <1>8, Zenon DEF Archive, Rename

(* What is left out of a listing was in it.                                  *)
LEMMA BeyondListed ==
  ASSUME NEW S, NEW n, NEW e \in Beyond(S, n)
  PROVE  \E x \in S : x[1] = e
BY Zenon DEF Beyond

(* A listing shows recordings that started.                                  *)
LEMMA ListedCount ==
  ASSUME TypeOK, CountInv, NEW root \in Roots, NEW x \in Listed(root)
  PROVE  x[1] \in Items /\ x[1][2] \in 1..count /\ (root = "saved" => x[1] \in Archives) /\ x[1][1] = root
<1>1. x[1] \in Items /\ x[1][1] = root /\ x[1][2] \in Ids
  BY ListedParts, ItemParts, Zenon
<1>2. x[1][2] <= count
  BY ListedParts, ItemParts, Zenon DEF CountInv, FilesInv
<1>3. root = "saved" => x[1] \in Archives
  BY <1>1, ItemParts, Zenon
<1> QED
  BY <1>1, <1>2, <1>3 DEF Ids

(* A listing of the persistent root shows reports.                           *)
LEMMA ListedReports ==
  ASSUME TypeOK, NEW x \in Listed("saved")
  PROVE  x[1] \in Archives /\ x[1][1] = "saved" /\ zip[x[1]] # "no" /\ x[2] = mtime[x[1]]
<1>1. x[1] \in Items /\ x[1][1] = "saved" /\ x[2] = Time(x[1]) /\ (x[1][3] # "raw" => zip[x[1]] # "no")
  BY ListedParts, Zenon DEF Roots
<1>2. x[1][3] # "raw" /\ x[1] \in Archives
  BY <1>1, ItemParts, Zenon
<1> QED
  BY <1>1, <1>2, Zenon DEF Time

(* The times of entries are natural numbers.                                 *)
LEMMA ListedTyped ==
  ASSUME TypeOK, NEW root \in Roots
  PROVE  Listed(root) \subseteq Items \X Nat
<1>1. \A e \in Items : Time(e) \in Nat
  BY ItemParts DEF Time, StartTime, TypeOK, FilesOK
<1> QED
  BY <1>1 DEF Listed, Entries

(* Where a recording may start there is a number for it.                     *)
LEMMA NextNumber ==
  ASSUME TypeOK, WorkerInv, pc["worker"] = "make"
  PROVE  count \in Nat /\ count + 1 \in Ids /\ count + 1 \in 0..MaxRecordings /\ live = 0 /\ status = "starting"
<1>1. live = 0 /\ status = "starting"
  BY Zenon DEF TypeOK, ManualOK, WorkerInv, SwitchInv, Packing
<1>2. count < MaxRecordings
  BY <1>1, Zenon DEF WorkerInv, SwitchInv
<1> QED
  BY <1>1, <1>2, BoundsAssumption DEF TypeOK, BoundsOK, Ids

(* The report that Finish makes has a place.                                 *)
LEMMA Finishes ==
  ASSUME TypeOK, WorkerInv, Finish
  PROVE  /\ status = "saving" /\ live # 0
         /\ \E k \in Archives : Own(k) /\ job' = [job EXCEPT !["worker"] = k]
<1>1. PICK root \in Roots : job' = [job EXCEPT !["worker"] = <<root, live, "_SUCCESS">>]
  BY Zenon DEF Finish, Roots
<1>2. status = "saving" /\ live # 0
  BY Zenon DEF Finish, At, TypeOK, ManualOK, WorkerInv, SwitchInv, Packing
<1>3. <<root, live, "_SUCCESS">> \in Archives
  BY <1>2 DEF Archives, Suffixes, Ids, TypeOK, ManualOK
<1> QED
  BY <1>1, <1>2, <1>3, Zenon DEF Own

(* While a recording is in progress its worker holds the lock, and packs it  *)
(* or nothing.                                                               *)
LEMMA Alone ==
  ASSUME TypeOK, LockInv, WorkerInv, InProgress
  PROVE  /\ lock["work"] = "worker" /\ live = count /\ live \in Ids
         /\ \A u \in Threads : pc[u] \in Packing =>
              u = "worker" /\ status = "saving" /\ pc[u] \in {"archive", "rename"}
<1>1. lock["work"] = "worker" /\ live = count
  BY Zenon DEF WorkerInv, OwnLockInv, SwitchInv, InProgress, TypeOK, ManualOK
<1>2. live \in Ids
  BY DEF InProgress, TypeOK, ManualOK, Ids
<1>3. \A u \in Threads : pc[u] \in Packing => u = "worker"
  BY <1>1, Zenon DEF LockInv, PackInv
<1>4. pc["worker"] \in Packing => status = "saving"
  BY Zenon DEF InProgress, TypeOK, ManualOK, WorkerInv, SwitchInv, Packing
<1> QED
  BY <1>1, <1>2, <1>3, <1>4, Zenon DEF InProgress, Packing

(* Nothing is newer than the directory of the last recording, except a       *)
(* report of it.                                                             *)
LEMMA DirectoryIsNewest ==
  ASSUME TypeOK, CountInv, NEW y, NEW x, x[1] \in Items, x[1][2] = count, x[1][3] = "raw", x[2] = 2 * count + 1,
         y[1] \in Items, y[1][2] \in 1..count, y[2] \in Nat, y[2] <= 2 * count + 1, Newer(y, x)
  PROVE  y[1] \in Archives /\ y[1][2] = count
<1>1. count \in Ids /\ y[1][2] \in Ids /\ count \in Nat
  BY ItemParts DEF Ids
<1>2. date[count] = count /\ date[y[1][2]] = y[1][2]
  BY <1>1 DEF CountInv, StartsInv
<1>3. x[1][1] = "work" /\ NameRank(x[1]) = 0
  BY ItemParts, Zenon DEF NameRank
<1>4. y[2] = 2 * count + 1 /\ y[1][2] = count
  BY <1>1, <1>2 DEF Newer
<1>5. CASE y[1][3] = "raw"
  <2>1. y[1][1] = "work" /\ NameRank(y[1]) = 0
    BY <1>5, ItemParts, Zenon DEF NameRank
  <2> QED
    BY <1>2, <1>3, <1>4, <2>1 DEF Newer
<1> QED
  BY <1>4, <1>5, ItemParts, Zenon

(* The directory of the recording in progress is not chosen: the worker's    *)
(* constructor protects it, and nothing is newer for the readers.            *)
LEMMA ChosenIsNotLive ==
  ASSUME TypeOK, LockInv, WorkerInv, CountInv, TimeInv, LiveInv, InProgress, NEW t \in Threads, Choose(t),
         NEW e \in victims'[t]
  PROVE  e[2] # live
<1> DEFINE shown == seen[t] \cup Listed("work")
           all == {x \in shown : ~Protects(t) \/ x[1] # <<"work", live, "raw">>}
<1>1. e \in Beyond(all, IF Protects(t) THEN 1 ELSE 2)
  BY Zenon DEF Choose, TypeOK, ListsOK
<1>2. live = count /\ live \in Ids
  BY Alone, Zenon
<1>3. ASSUME NEW x \in shown
      PROVE  /\ x[1] \in Items /\ x[1][2] \in 1..count /\ x[2] \in Nat /\ x[2] <= 2 * count + 1
             /\ x[1][2] = live => x[1] = <<"work", live, "raw">> /\ x[2] = 2 * count + 1
  <2>1. CASE x \in seen[t]
    <3>1. x \in Items \X Nat
      BY <2>1, Zenon DEF TypeOK, ListsOK
    <3>2. x[1] \in Items /\ x[2] \in Nat /\ x[1][2] \in Ids
      BY <3>1, ItemParts, Zenon
    <3> QED
      BY <2>1, <3>2 DEF CountInv, SeenInv, TimeInv, LiveInv, Ids
  <2>2. CASE x \in Listed("work")
    <3>1. x[1] \in Items /\ x[1][2] \in 1..count /\ x[1][1] = "work" /\ x[2] = Time(x[1])
      BY <2>2, ListedCount, ListedParts, Zenon DEF Roots
    <3>2. CASE x[1][3] = "raw"
      <4>1. x[2] = 2 * x[1][2] + 1
        BY <3>1, <3>2, ItemParts DEF Time, StartTime, CountInv, StartsInv
      <4>2. x[1] = <<"work", x[1][2], "raw">>
        BY <3>1, <3>2 DEF Items, Archives
      <4> QED
        BY <1>2, <3>1, <4>1, <4>2 DEF TypeOK, BoundsOK
    <3>3. CASE x[1][3] # "raw"
      <4>1. x[1] \in Archives /\ zip[x[1]] # "no"
        BY <2>2, <3>1, <3>3, ItemParts, ListedParts, Zenon
      <4> QED
        BY <3>1, <3>3, <4>1, Zenon DEF Time, TimeInv, LiveInv, TypeOK, FilesOK
    <3> QED
      BY <3>2, <3>3, Zenon
  <2> QED
    BY <2>1, <2>2, Zenon
<1> HIDE DEF shown
<1>4. CASE Protects(t)
  <2>1. PICK x \in all : x[1] = e
    BY <1>1, BeyondListed, Zenon
  <2> QED
    BY <1>3, <1>4, <2>1, Zenon
<1>5. CASE ~Protects(t)
  <2>1. PICK x, y, z \in all : x[1] = e /\ Newer(y, x)
    BY <1>1, <1>5, TwoNewer, Zenon
  <2>2. e[2] = live => FALSE
    <3> SUFFICES ASSUME e[2] = live PROVE FALSE
      OBVIOUS
    <3>1. x[1][3] = "raw" /\ x[2] = 2 * count + 1 /\ x[1] \in Items /\ x[1][2] = count
      BY <1>2, <1>3, <2>1
    <3>2. y[1] \in Archives /\ y[1][2] = count
      BY <1>3, <2>1, <3>1, DirectoryIsNewest, Zenon
    <3>3. y[1] = <<"work", live, "raw">>
      BY <1>2, <1>3, <3>2, Zenon
    <3> QED
      BY <3>2, <3>3, ArchiveParts DEF Suffixes
  <2> QED
    BY <2>2, Zenon
<1> QED
  BY <1>4, <1>5, Zenon

(* The order of what has its proper time, beside something of the last       *)
(* recording.                                                                *)
Dated(y) == y[2] = 2 * y[1][2] + (IF y[1][3] = "raw" THEN 1 ELSE 0)
Before(y, x) ==
  /\ y[1][2] = count /\ x[1][3] # "raw"
  /\ \/ y[1][3] = "raw"
     \/ y[1][3] = "_SUCCESS" /\ (x[1][3] = "_INCOMPLETE" \/ (y[1][1] = "saved" /\ x[1][1] = "work"))
     \/ y[1][3] = "_INCOMPLETE" /\ x[1][3] = "_INCOMPLETE" /\ y[1][1] = "saved" /\ x[1][1] = "work"

(* With dated entries, whatever is newer than an entry of the last recording *)
(* is of the last recording, and comes before it.                            *)
LEMMA DatedOrder ==
  ASSUME TypeOK, CountInv, NEW x, NEW y, x[1] \in Items, y[1] \in Items, x[1][2] = count, y[1][2] \in 1..count,
         x[2] \in Nat, x[2] >= 2 * count, x[1][3] = "raw" => x[2] = 2 * count + 1, Dated(y), Newer(y, x)
  PROVE  Before(y, x)
<1>1. count \in Ids /\ y[1][2] \in Ids /\ count \in Nat
  BY ItemParts DEF Ids
<1>2. date[count] = count /\ date[y[1][2]] = y[1][2]
  BY <1>1 DEF CountInv, StartsInv
<1>3. y[1][3] \in {"raw", "_SUCCESS", "_INCOMPLETE"} /\ x[1][3] \in {"raw", "_SUCCESS", "_INCOMPLETE"}
  BY ItemParts, Zenon DEF Suffixes
<1>4. y[1][2] = count
  BY <1>1 DEF Dated, Newer
<1>5. y[2] = x[2] => NameRank(y[1]) > NameRank(x[1]) \/
                     (NameRank(y[1]) = NameRank(x[1]) /\ y[1][1] = "saved" /\ x[1][1] = "work")
  BY <1>2, <1>4 DEF Newer
<1>6. y[2] >= x[2] /\ y[2] = 2 * count + (IF y[1][3] = "raw" THEN 1 ELSE 0)
  BY <1>4 DEF Newer, Dated
<1>7. CASE y[1][3] = "raw"
  <2>1. y[1][1] = "work" /\ NameRank(y[1]) = 0
    BY <1>7, ItemParts, Zenon DEF NameRank
  <2>2. x[1][3] # "raw"
    <3>1. SUFFICES ASSUME x[1][3] = "raw" PROVE FALSE
      OBVIOUS
    <3>2. y[2] = x[2] /\ NameRank(x[1]) = 0
      BY <1>6, <1>7, <3>1, Zenon DEF NameRank
    <3> QED
      BY <1>5, <2>1, <3>2
  <2> QED
    BY <1>4, <1>7, <2>2, Zenon DEF Before
<1>8. CASE y[1][3] # "raw"
  <2>1. y[2] = x[2] /\ x[1][3] # "raw"
    BY <1>1, <1>6, <1>8
  <2> QED
    BY <1>3, <1>4, <1>5, <2>1 DEF Before, NameRank
<1> QED
  BY <1>7, <1>8, Zenon

(* What PruneAll, and Prune of the work root, choose of the last recording   *)
(* when no report waits for its date.                                        *)
LEMMA ChosenIsSpared ==
  ASSUME TypeOK, CountInv, TimeInv, DateInv, VictimInv, ~misdated, ~Undated, NEW t \in Threads,
         NEW S \in SUBSET (seen[t] \cup Listed("work")), NEW e \in Beyond(S, 2)
  PROVE  Spared(e)
<1>1. ASSUME NEW x \in S
      PROVE  /\ x[1] \in Items /\ x[1][2] \in 1..count /\ Dated(x) /\ x = <<x[1], x[2]>> /\ x[2] \in Nat
             /\ x[1][1] = "work" /\ x[1][3] # "raw" => zip[x[1]] # "no"
             /\ x[1][2] = count /\ x[1][3] # "raw" => zip[x[1]] # "no" \/ (x[1][3] = "_INCOMPLETE" /\ Complete)
  <2>1. CASE x \in seen[t]
    <3>1. x \in Items \X Nat
      BY <2>1, Zenon DEF TypeOK, ListsOK
    <3>2. x[1] \in Items /\ x[2] \in Nat /\ x[1][2] \in Ids /\ x = <<x[1], x[2]>>
      BY <3>1, ItemParts
    <3>3. x[1][3] # "raw" /\ x[1][1] = "saved" /\ x[1][2] <= count
      BY <2>1, <3>2, ItemParts, Zenon DEF CountInv, SeenInv
    <3> QED
      BY <2>1, <3>2, <3>3 DEF DateInv, VictimInv, Dated, Ids
  <2>2. CASE x \in Listed("work")
    <3>1. /\ x[1] \in Items /\ x[1][2] \in 1..count /\ x[2] = Time(x[1]) /\ x = <<x[1], x[2]>>
          /\ x[1][3] # "raw" => zip[x[1]] # "no"
      BY <2>2, ListedCount, ListedParts, Zenon DEF Roots
    <3>2. x[1][3] = "raw" => x[2] = 2 * x[1][2] + 1
      BY <3>1, ItemParts DEF Time, StartTime, CountInv, StartsInv
    <3>3. x[1][3] # "raw" => x[2] = 2 * x[1][2]
      BY <3>1, ItemParts, Zenon DEF Time, DateInv, Undated
    <3> QED
      BY <3>1, <3>2, <3>3 DEF Dated
  <2> QED
    BY <2>1, <2>2, Zenon
<1>2. PICK x, y, z \in S : x[1] = e /\ Newer(y, x) /\ Newer(z, x) /\ y # z
  BY TwoNewer, Zenon
<1>3. SUFFICES ASSUME e[2] = count PROVE Spared(e)
  BY Zenon DEF Spared
<1>4. Before(y, x) /\ Before(z, x)
  <2>1. x[2] >= 2 * count /\ (x[1][3] = "raw" => x[2] = 2 * count + 1)
    BY <1>1, <1>2, <1>3 DEF Dated
  <2> QED
    BY <1>1, <1>2, <1>3, <2>1, DatedOrder, Zenon
<1>5. y[1] # z[1]
  BY <1>1, <1>2, Zenon DEF Dated
<1>6. PICK v \in {y, z} : v[1][3] # "raw"
  <2>1. ~(y[1][3] = "raw" /\ z[1][3] = "raw")
    BY <1>1, <1>4, <1>5, ItemParts, SameItem DEF Before
  <2> QED
    BY <2>1, Zenon
<1>7. v \in S /\ Before(v, x) /\ v[1] \in Archives
  BY <1>1, <1>4, <1>6, ItemParts
<1>8. CASE v[1][3] = "_SUCCESS"
  <2>1. CompleteAt(v[1])
    BY <1>1, <1>7, <1>8, Zenon DEF CompleteAt, Before
  <2>2. x[1][3] = "_INCOMPLETE"
    <3>1. SUFFICES ASSUME x[1][3] # "_INCOMPLETE" PROVE FALSE
      OBVIOUS
    <3>2. x[1][3] = "_SUCCESS" /\ v[1][1] = "saved" /\ x[1][1] = "work" /\ x[1] \in Archives
      BY <1>1, <1>7, <3>1, ItemParts, Zenon DEF Before, Suffixes
    <3>3. CompleteAt(x[1])
      BY <1>1, <1>2, <1>3, <3>2, Zenon DEF CompleteAt
    <3> QED
      BY <1>7, <2>1, <3>2, <3>3, Zenon DEF VictimInv, OneComplete
  <2> QED
    BY <1>2, <1>7, <2>1, <2>2, Zenon DEF Spared, Complete
<1>9. CASE v[1][3] # "_SUCCESS"
  <2>1. v[1][3] = "_INCOMPLETE" /\ x[1][3] = "_INCOMPLETE" /\ v[1][1] = "saved" /\ x[1][1] = "work" /\ v[1][2] = count
    BY <1>6, <1>7, <1>9, Zenon DEF Before
  <2>2. Complete \/ Recovered
    BY <1>1, <1>7, <2>1, Zenon DEF Recovered
  <2> QED
    BY <1>2, <2>1, <2>2, Zenon DEF Spared
<1> QED
  BY <1>8, <1>9, Zenon

(* What Prune of the persistent root chooses of the last recording, although *)
(* one report may wait for its date.                                         *)
LEMMA PrunedIsSpared ==
  ASSUME TypeOK, LockInv, CountInv, TimeInv, DateInv, ~misdated, NEW e \in Beyond(Listed("saved"), 2)
  PROVE  Spared(e)
<1>1. PICK x, y, z \in Listed("saved") : x[1] = e /\ Newer(y, x) /\ Newer(z, x) /\ y # z
  BY TwoNewer, Zenon
<1>2. SUFFICES ASSUME e[2] = count PROVE Spared(e)
  BY Zenon DEF Spared
<1>3. \A w \in Listed("saved") :
        /\ w[1] \in Archives /\ w[1] \in Items /\ w[1][1] = "saved" /\ zip[w[1]] # "no" /\ w[2] = mtime[w[1]]
        /\ w[1][2] \in 1..count /\ w = <<w[1], w[2]>> /\ w[1][3] \in Suffixes
  BY ListedReports, ListedCount, ListedParts, ArchiveParts, Zenon DEF Roots
<1>4. \A w \in Listed("saved") : Dated(w) \/ \E u \in Threads : pc[u] = "date" /\ job[u] = w[1]
  BY <1>3 DEF DateInv, Dated, Suffixes
<1>5. PICK v \in {y, z} : Dated(v)
  <2>1. \A u, w \in Threads : pc[u] = "date" /\ pc[w] = "date" => u = w
    BY Zenon DEF LockInv, PackInv, Packing
  <2>2. y[1] # z[1]
    BY <1>1, <1>3
  <2> QED
    BY <1>4, <2>1, <2>2, Zenon
<1>6. Before(v, x)
  <2>1. x[2] \in Nat /\ x[2] >= 2 * count /\ x[1][3] # "raw"
    BY <1>1, <1>2, <1>3, Zenon DEF TimeInv, TypeOK, FilesOK, Suffixes
  <2> QED
    BY <1>1, <1>2, <1>3, <1>5, <2>1, DatedOrder, Zenon
<1>7. v[1][3] = "_SUCCESS" /\ x[1][3] = "_INCOMPLETE" /\ v[1][2] = count
  BY <1>3, <1>6, Zenon DEF Before, Suffixes
<1> QED
  BY <1>1, <1>3, <1>7, Zenon DEF Spared, Complete, CompleteAt

(* The steps of the worker outside Recover, Package and PruneAll leave the   *)
(* archives alone.                                                           *)
LEMMA WorkerFrame ==
  ASSUME Worker, ~Files("worker")
  PROVE  UNCHANGED <<zip, parts, mtime, mounted, misdated, seen, victims, crashes, mounts>>
<1> USE DEF files, session, manual, threads, bounds
<1>1. CASE ToggleStart \/ ToggleStop \/ Enter \/ StartSucceeds \/ Finish \/ Unlock
  BY <1>1, Zenon DEF ToggleStart, ToggleStop, Enter, StartSucceeds, Finish, Unlock
<1>2. CASE LockOrGiveUp \/ StartFails
  BY <1>2, Zenon DEF LockOrGiveUp, StartFails, GiveUp
<1>3. CASE MakeDirectory \/ WriteOwner \/ Close \/ WorkerDeleted
  BY <1>3, Zenon DEF MakeDirectory, WriteOwner, Close, WorkerDeleted
<1> QED
  BY <1>1, <1>2, <1>3, Zenon DEF Worker

(* The steps of a reader outside them only move it and its locks, and list   *)
(* what is to be recovered.                                                  *)
LEMMA ReaderFrame ==
  ASSUME NEW t \in Readers, Reader(t), ~Files(t)
  PROVE  UNCHANGED <<raw, zip, parts, mtime, date, clock, mounted, active, live, status, path,
                     misdated, newest, job, seen, victims, count, crashes, mounts>>
BY Zenon DEF Reader, Report, EnterSaved, EnterWork, ReaderDeleted, Check, files, session, manual,
   bounds

(* Every step keeps the types of the files (Package, RemoveRaw, mkdtemp).    *)
LEMMA FilesTyped ==
  ASSUME TypeOK, LockInv, WorkerInv, Next
  PROVE  FilesOK'
<1> USE DEF files, session, manual, threads, bounds
<1>1. ASSUME NEW t \in Threads, Files(t) PROVE FilesOK'
  <2>1. CASE Archive(t)
    <3>1. Packs(t)
      BY <2>1, InPackage, Zenon DEF Archive, Packing
    <3> QED
      BY <2>1, <3>1, Zenon DEF Archive, Packs, TypeOK, FilesOK
  <2>2. CASE Rename(t)
    <3>1. job[t] \in Archives
      BY <2>2, InPackage, Zenon DEF Rename, Packing, Packs
    <3>2. Now \in Nat
      BY DEF Now, TypeOK, BoundsOK
    <3> QED
      BY <2>2, <3>2, Zenon DEF Rename, TypeOK, FilesOK
  <2>3. CASE Date(t)
    <3>1. Packs(t)
      BY <2>3, InPackage, Zenon DEF Date, At, Packing
    <3>2. StartTime(job[t][2]) \in Nat
      BY <3>1, ArchiveParts DEF Packs, StartTime, TypeOK, FilesOK
    <3> QED
      BY <2>3, <3>2, Zenon DEF Date, TypeOK, FilesOK
  <2>4. CASE Sync(t)
    BY <2>4, Zenon DEF Sync, Synced, TypeOK, FilesOK
  <2>5. CASE Remove(t)
    BY <2>5, Zenon DEF Remove, RemoveRaw, TypeOK, FilesOK
  <2>6. CASE Delete(t)
    BY <2>6, Zenon DEF Delete, RemoveRaw, TypeOK, FilesOK
  <2>7. CASE RecoverOne(t) \/ (\E root \in Roots : Prune(t, root)) \/ List(t) \/ Choose(t)
    <3>1. UNCHANGED <<raw, zip, parts, mtime, date>>
      BY <2>7, Zenon DEF RecoverOne, Prune, List, Choose
    <3> QED
      BY <3>1, Zenon DEF FilesOK, TypeOK
  <2> QED
    BY <1>1, <2>1, <2>2, <2>3, <2>4, <2>5, <2>6, <2>7, Zenon DEF Files
<1>2. ASSUME Worker, ~Files("worker") PROVE FilesOK'
  <2>1. CASE MakeDirectory
    <3>1. count + 1 \in Ids
      BY <2>1, NextNumber, Zenon DEF MakeDirectory, At
    <3> QED
      BY <2>1, <3>1 DEF MakeDirectory, TypeOK, FilesOK, BoundsOK
  <2>2. CASE WriteOwner
    BY <2>2, Zenon DEF WriteOwner, TypeOK, FilesOK
  <2>3. CASE ToggleStart \/ ToggleStop \/ Enter \/ LockOrGiveUp \/ StartFails \/ StartSucceeds
          \/ Finish \/ Unlock \/ Close \/ WorkerDeleted
    <3>1. UNCHANGED <<raw, zip, parts, mtime, date>>
      BY <2>3, Zenon DEF ToggleStart, ToggleStop, Enter, LockOrGiveUp, GiveUp, StartFails,
         StartSucceeds, Finish, Unlock, Close, WorkerDeleted
    <3> QED
      BY <3>1, Zenon DEF FilesOK, TypeOK
  <2> QED
    BY <1>2, <2>1, <2>2, <2>3, Zenon DEF Worker
<1>3. ASSUME NEW t \in Readers, Reader(t), ~Files(t) PROVE FilesOK'
  BY <1>3, ReaderFrame, Zenon DEF FilesOK, TypeOK
<1>4. CASE Crash
  BY <1>4, Zenon DEF Crash, TypeOK, FilesOK
<1>5. CASE PowerLoss
  BY <1>5, Zenon DEF PowerLoss, TypeOK, FilesOK
<1>6. CASE Mount
  BY <1>6, Zenon DEF Mount, TypeOK, FilesOK
<1> QED
  BY <1>1, <1>2, <1>3, <1>4, <1>5, <1>6, Zenon DEF Next, Threads

(* Every step keeps the types of the locks, of the switch and of what it     *)
(* shows (ToggleManual, Lock).                                               *)
LEMMA ManualTyped ==
  ASSUME TypeOK, LockInv, WorkerInv, Next
  PROVE  ManualOK'
<1> USE DEF files, session, manual, threads, bounds
<1>1. ASSUME NEW t \in Threads, Files(t) PROVE ManualOK'
  <2>1. CASE RecoverOne(t) \/ Archive(t) \/ Rename(t) \/ Date(t) \/ Sync(t) \/ Remove(t)
          \/ (\E root \in Roots : Prune(t, root)) \/ List(t) \/ Choose(t) \/ Delete(t)
    <3>1. UNCHANGED <<lock, live, status, path, newest>>
      BY <2>1, Zenon DEF RecoverOne, Archive, Rename, Date, Sync, Remove, Prune, List, Choose,
         Delete
    <3> QED
      BY <3>1, Zenon DEF ManualOK, TypeOK
  <2> QED
    BY <1>1, <2>1, Zenon DEF Files
<1>2. ASSUME Worker, ~Files("worker") PROVE ManualOK'
  <2>1. CASE ToggleStart
    BY <2>1, Zenon DEF ToggleStart, TypeOK, ManualOK
  <2>2. CASE ToggleStop
    BY <2>2, Zenon DEF ToggleStop, TypeOK, ManualOK
  <2>3. CASE LockOrGiveUp
    BY <2>3, BoundsAssumption DEF LockOrGiveUp, Taken, GiveUp, TypeOK, ManualOK, Threads
  <2>4. CASE MakeDirectory
    <3>1. count + 1 \in 0..MaxRecordings
      BY <2>4, NextNumber, Zenon DEF MakeDirectory, At
    <3> QED
      BY <2>4, <3>1, BoundsAssumption DEF MakeDirectory, TypeOK, ManualOK
  <2>5. CASE WriteOwner
    BY <2>5, Zenon DEF WriteOwner, TypeOK, ManualOK
  <2>6. CASE StartFails
    BY <2>6, BoundsAssumption DEF StartFails, GiveUp, TypeOK, ManualOK
  <2>7. CASE StartSucceeds
    BY <2>7, Zenon DEF StartSucceeds, TypeOK, ManualOK
  <2>8. CASE Unlock
    BY <2>8, Zenon DEF Unlock, TypeOK, ManualOK, Roots
  <2>9. CASE Close
    BY <2>9, BoundsAssumption DEF Close, TypeOK, ManualOK, WorkOK, Threads
  <2>10. CASE Enter \/ Finish \/ WorkerDeleted
    <3>1. UNCHANGED <<lock, live, status, path, newest>>
      BY <2>10, Zenon DEF Enter, Finish, WorkerDeleted
    <3> QED
      BY <3>1, Zenon DEF ManualOK, TypeOK
  <2> QED
    BY <1>2, <2>1, <2>2, <2>3, <2>4, <2>5, <2>6, <2>7, <2>8, <2>9, <2>10, Zenon DEF Worker
<1>3. ASSUME NEW t \in Readers, Reader(t), ~Files(t) PROVE ManualOK'
  <2>1. CASE EnterSaved(t)
    BY <2>1, Zenon DEF EnterSaved, ReadersLock, Taken, TypeOK, ManualOK, Threads
  <2>2. CASE EnterWork(t)
    BY <2>2, Zenon DEF EnterWork, ReadersLock, Taken, TypeOK, ManualOK, Threads
  <2>3. CASE ReaderDeleted(t)
    BY <2>3, Zenon DEF ReaderDeleted, TypeOK, ManualOK
  <2>4. CASE Report(t) \/ Check(t)
    <3>1. UNCHANGED <<lock, live, status, path, newest>>
      BY <2>4, Zenon DEF Report, Check
    <3> QED
      BY <3>1, Zenon DEF ManualOK, TypeOK
  <2> QED
    BY <1>3, <2>1, <2>2, <2>3, <2>4, Zenon DEF Reader
<1>4. CASE Crash
  BY <1>4, BoundsAssumption DEF Crash, ProcessGone, TypeOK, ManualOK
<1>5. CASE PowerLoss
  BY <1>5, BoundsAssumption DEF PowerLoss, ProcessGone, TypeOK, ManualOK
<1>6. CASE Mount
  BY <1>6, Zenon DEF Mount, TypeOK, ManualOK
<1> QED
  BY <1>1, <1>2, <1>3, <1>4, <1>5, <1>6, Zenon DEF Next, Threads

(* Every step keeps the types of clock and counters: a recording starts only *)
(* below the bound.                                                          *)
LEMMA BoundsTyped ==
  ASSUME TypeOK, WorkerInv, Next
  PROVE  BoundsOK'
<1> USE DEF files, session, manual, threads, bounds
<1>1. ASSUME NEW t \in Threads, Files(t) PROVE BoundsOK'
  <2>1. CASE RecoverOne(t) \/ Archive(t) \/ Rename(t) \/ Date(t) \/ Sync(t) \/ Remove(t)
          \/ (\E root \in Roots : Prune(t, root)) \/ List(t) \/ Choose(t) \/ Delete(t)
    <3>1. UNCHANGED <<clock, count, crashes, mounts>>
      BY <2>1, Zenon DEF RecoverOne, Archive, Rename, Date, Sync, Remove, Prune, List, Choose,
         Delete
    <3> QED
      BY <3>1, Zenon DEF BoundsOK, TypeOK
  <2> QED
    BY <1>1, <2>1, Zenon DEF Files
<1>2. ASSUME Worker, ~Files("worker") PROVE BoundsOK'
  <2>1. CASE MakeDirectory
    <3>1. count + 1 \in 0..MaxRecordings
      BY <2>1, NextNumber, Zenon DEF MakeDirectory, At
    <3> QED
      BY <2>1, <3>1 DEF MakeDirectory, TypeOK, BoundsOK
  <2>2. CASE ToggleStart \/ ToggleStop \/ Enter \/ LockOrGiveUp \/ WriteOwner \/ StartFails
          \/ StartSucceeds \/ Finish \/ Unlock \/ Close \/ WorkerDeleted
    <3>1. UNCHANGED <<clock, count, crashes, mounts>>
      BY <2>2, Zenon DEF ToggleStart, ToggleStop, Enter, LockOrGiveUp, GiveUp, WriteOwner,
         StartFails, StartSucceeds, Finish, Unlock, Close, WorkerDeleted
    <3> QED
      BY <3>1, Zenon DEF BoundsOK, TypeOK
  <2> QED
    BY <1>2, <2>1, <2>2, Zenon DEF Worker
<1>3. ASSUME NEW t \in Readers, Reader(t), ~Files(t) PROVE BoundsOK'
  BY <1>3, ReaderFrame, Zenon DEF BoundsOK, TypeOK
<1>4. CASE Crash
  BY <1>4 DEF Crash, ProcessGone, TypeOK, BoundsOK
<1>5. CASE PowerLoss
  BY <1>5 DEF PowerLoss, ProcessGone, TypeOK, BoundsOK
<1>6. CASE Mount
  BY <1>6 DEF Mount, TypeOK, BoundsOK
<1> QED
  BY <1>1, <1>2, <1>3, <1>4, <1>5, <1>6, Zenon DEF Next, Threads

(* Every step takes a thread to a point of its own program (Reports, or      *)
(* Recording and ToggleManual).                                              *)
LEMMA PointsTyped ==
  ASSUME TypeOK, LockInv, WorkerInv, Next
  PROVE  PointsOK'
<1> USE DEF files, session, manual, threads, bounds
<1>1. ASSUME NEW t \in Threads, Files(t) PROVE PointsOK'
  <2>1. CASE Archive(t) \/ Rename(t) \/ Remove(t)
    <3>1. /\ pc' = [pc EXCEPT ![t] = pc'[t]]
          /\ pc'[t] \in {"rename", "date", "recover", "list", "archive"}
      BY <2>1, PackageStep, Zenon DEF Packaging
    <3> QED
      BY <3>1, Zenon DEF TypeOK, PointsOK, ReaderPoints, WorkerPoints, Packing, Threads
  <2>2. CASE RecoverOne(t)
    <3>1. pc' = [pc EXCEPT ![t] = pc'[t]] /\ pc'[t] \in {"recover", "archive"}
      BY <2>2, RecoverStep, Zenon DEF Recovering
    <3> QED
      BY <3>1, Zenon DEF TypeOK, PointsOK, ReaderPoints, WorkerPoints, Packing, Threads
  <2>3. CASE Date(t)
    BY <2>3, Zenon DEF Date, At, TypeOK, PointsOK, ReaderPoints, WorkerPoints, Packing, Threads
  <2>4. CASE Sync(t)
    BY <2>4, Zenon DEF Sync, At, TypeOK, PointsOK, ReaderPoints, WorkerPoints, Packing, Threads
  <2>5. CASE \E root \in Roots : Prune(t, root)
    BY <2>5, WorkerIsThread, ReaderIsThread, Zenon DEF Prune, TypeOK, PointsOK, ReaderPoints,
       WorkerPoints
  <2>6. CASE List(t)
    BY <2>6, Zenon DEF List, At, TypeOK, PointsOK, ReaderPoints, WorkerPoints, Threads
  <2>7. CASE Choose(t)
    BY <2>7, Zenon DEF Choose, At, TypeOK, PointsOK, ReaderPoints, WorkerPoints, Threads
  <2>8. CASE Delete(t)
    <3>1. UNCHANGED <<pc>>
      BY <2>8, Zenon DEF Delete
    <3> QED
      BY <3>1, Zenon DEF PointsOK, TypeOK
  <2> QED
    BY <1>1, <2>1, <2>2, <2>3, <2>4, <2>5, <2>6, <2>7, <2>8, Zenon DEF Files
<1>2. ASSUME Worker, ~Files("worker") PROVE PointsOK'
  <2>1. CASE ToggleStart
    BY <2>1, BoundsAssumption, Zenon DEF ToggleStart, At, TypeOK, PointsOK, WorkerPoints, Threads
  <2>2. CASE ToggleStop
    BY <2>2, BoundsAssumption, Zenon DEF ToggleStop, At, TypeOK, PointsOK, WorkerPoints, Threads
  <2>3. CASE Enter
    BY <2>3, BoundsAssumption, Zenon DEF Enter, At, TypeOK, PointsOK, WorkerPoints, Threads
  <2>4. CASE LockOrGiveUp
    BY <2>4, BoundsAssumption, Zenon DEF LockOrGiveUp, GiveUp, TypeOK, PointsOK, WorkerPoints,
       Threads
  <2>5. CASE MakeDirectory
    BY <2>5, BoundsAssumption, Zenon DEF MakeDirectory, At, TypeOK, PointsOK, WorkerPoints,
       Threads
  <2>6. CASE WriteOwner
    BY <2>6, BoundsAssumption, Zenon DEF WriteOwner, At, TypeOK, PointsOK, WorkerPoints, Threads
  <2>7. CASE StartFails
    BY <2>7, BoundsAssumption, Zenon DEF StartFails, GiveUp, TypeOK, PointsOK, WorkerPoints,
       Threads
  <2>8. CASE StartSucceeds
    BY <2>8, BoundsAssumption, Zenon DEF StartSucceeds, At, TypeOK, PointsOK, WorkerPoints,
       Threads
  <2>9. CASE Finish
    BY <2>9, BoundsAssumption, Zenon DEF Finish, At, TypeOK, PointsOK, WorkerPoints, Packing,
       Threads
  <2>10. CASE Unlock
    BY <2>10, BoundsAssumption, Zenon DEF Unlock, At, TypeOK, PointsOK, WorkerPoints, Threads
  <2>11. CASE Close
    BY <2>11, BoundsAssumption, Zenon DEF Close, At, TypeOK, PointsOK, WorkerPoints, Threads
  <2>12. CASE WorkerDeleted
    BY <2>12, BoundsAssumption, Zenon DEF WorkerDeleted, At, TypeOK, PointsOK, WorkerPoints,
       Threads
  <2> QED
    BY <1>2, <2>1, <2>2, <2>3, <2>4, <2>5, <2>6, <2>7, <2>8, <2>9, <2>10, <2>11, <2>12, Zenon DEF
       Worker
<1>3. ASSUME NEW t \in Readers, Reader(t), ~Files(t) PROVE PointsOK'
  <2>1. CASE Report(t)
    BY <2>1, BoundsAssumption, Zenon DEF Report, At, TypeOK, PointsOK, ReaderPoints, Threads
  <2>2. CASE EnterSaved(t)
    BY <2>2, BoundsAssumption, Zenon DEF EnterSaved, TypeOK, PointsOK, ReaderPoints, Threads
  <2>3. CASE EnterWork(t)
    BY <2>3, BoundsAssumption, Zenon DEF EnterWork, TypeOK, PointsOK, ReaderPoints, Threads
  <2>4. CASE ReaderDeleted(t)
    BY <2>4, BoundsAssumption, Zenon DEF ReaderDeleted, At, TypeOK, PointsOK, ReaderPoints,
       Threads
  <2>5. CASE Check(t)
    BY <2>5, BoundsAssumption, Zenon DEF Check, At, TypeOK, PointsOK, ReaderPoints, Threads
  <2> QED
    BY <1>3, <2>1, <2>2, <2>3, <2>4, <2>5, Zenon DEF Reader
<1>4. CASE Crash
  BY <1>4, Zenon DEF Crash, ProcessGone, PointsOK, ReaderPoints, WorkerPoints, Threads
<1>5. CASE PowerLoss
  BY <1>5, Zenon DEF PowerLoss, ProcessGone, PointsOK, ReaderPoints, WorkerPoints, Threads
<1>6. CASE Mount
  BY <1>6, Zenon DEF Mount, TypeOK, PointsOK
<1> QED
  BY <1>1, <1>2, <1>3, <1>4, <1>5, <1>6, Zenon DEF Next, Threads

(* Every step keeps the types of what threads recover and pack (Recover,     *)
(* Finish).                                                                  *)
LEMMA WorkTyped ==
  ASSUME TypeOK, LockInv, WorkerInv, Next
  PROVE  WorkOK'
<1> USE DEF files, session, manual, threads, bounds
<1>1. ASSUME NEW t \in Threads, Files(t) PROVE WorkOK'
  <2>1. CASE Archive(t) \/ Rename(t) \/ Remove(t)
    <3>1. Packaging(t)
      BY <2>1, PackageStep, Zenon
    <3>2. Packs(t)
      BY <3>1, InPackage, Zenon DEF Packaging
    <3> QED
      BY <3>1, Zenon DEF Packaging, TypeOK, WorkOK
  <2>2. CASE RecoverOne(t)
    <3>1. Recovering(t)
      BY <2>2, RecoverStep, Zenon
    <3> QED
      BY <3>1, Zenon DEF Recovering, WorkOK
  <2>3. CASE Date(t) \/ Sync(t) \/ (\E root \in Roots : Prune(t, root)) \/ List(t) \/ Choose(t)
          \/ Delete(t)
    <3>1. UNCHANGED <<todo, job>>
      BY <2>3, Zenon DEF Date, Sync, Prune, List, Choose, Delete
    <3> QED
      BY <3>1, Zenon DEF WorkOK, TypeOK
  <2> QED
    BY <1>1, <2>1, <2>2, <2>3, Zenon DEF Files
<1>2. ASSUME Worker, ~Files("worker") PROVE WorkOK'
  <2>1. CASE LockOrGiveUp
    BY <2>1, Zenon DEF LockOrGiveUp, GiveUp, TypeOK, WorkOK, Orphans
  <2>2. CASE Finish
    BY <2>2, Finishes, Zenon DEF Finish, TypeOK, WorkOK
  <2>3. CASE Close
    BY <2>3, Zenon DEF Close, TypeOK, WorkOK, Threads
  <2>4. CASE ToggleStart \/ ToggleStop \/ Enter \/ MakeDirectory \/ WriteOwner \/ StartFails
          \/ StartSucceeds \/ Unlock \/ WorkerDeleted
    <3>1. UNCHANGED <<todo, job>>
      BY <2>4, Zenon DEF ToggleStart, ToggleStop, Enter, MakeDirectory, WriteOwner, StartFails,
         GiveUp, StartSucceeds, Unlock, WorkerDeleted
    <3> QED
      BY <3>1, Zenon DEF WorkOK, TypeOK
  <2> QED
    BY <1>2, <2>1, <2>2, <2>3, <2>4, Zenon DEF Worker
<1>3. ASSUME NEW t \in Readers, Reader(t), ~Files(t) PROVE WorkOK'
  <2>1. CASE EnterWork(t)
    BY <2>1, Zenon DEF EnterWork, TypeOK, WorkOK, Orphans
  <2>2. CASE Report(t) \/ EnterSaved(t) \/ ReaderDeleted(t) \/ Check(t)
    <3>1. UNCHANGED <<todo, job>>
      BY <2>2, Zenon DEF Report, EnterSaved, ReaderDeleted, Check
    <3> QED
      BY <3>1, Zenon DEF WorkOK, TypeOK
  <2> QED
    BY <1>3, <2>1, <2>2, Zenon DEF Reader
<1>4. CASE Crash
  BY <1>4, Zenon DEF Crash, ProcessGone, WorkOK
<1>5. CASE PowerLoss
  BY <1>5, Zenon DEF PowerLoss, ProcessGone, WorkOK
<1>6. CASE Mount
  BY <1>6, Zenon DEF Mount, TypeOK, WorkOK
<1> QED
  BY <1>1, <1>2, <1>3, <1>4, <1>5, <1>6, Zenon DEF Next, Threads

(* Every step keeps the types of what threads have listed and will delete    *)
(* (Prune, PruneAll).                                                        *)
LEMMA ListsTyped ==
  ASSUME TypeOK, Next
  PROVE  ListsOK'
<1> USE DEF files, session, manual, threads, bounds
<1>1. ASSUME NEW t \in Threads, Files(t) PROVE ListsOK'
  <2>1. CASE \E root \in Roots : Prune(t, root)
    <3>1. PICK root \in Roots : Prune(t, root)
      BY <2>1, Zenon
    <3>2. Beyond(Listed(root), 2) \subseteq Items
      BY BeyondListed, ListedParts
    <3> QED
      BY <3>1, <3>2, Zenon DEF Prune, TypeOK, ListsOK
  <2>2. CASE List(t)
    BY <2>2, ListedTyped, Zenon DEF List, Roots, TypeOK, ListsOK
  <2>3. CASE Choose(t)
    <3>1. \A S, n : S \subseteq seen[t] \cup Listed("work") => Beyond(S, n) \subseteq Items
      BY BeyondListed, ListedParts DEF Roots, TypeOK, ListsOK
    <3> DEFINE all == {x \in seen[t] \cup Listed("work") : ~Protects(t) \/ x[1] # <<"work", live, "raw">>}
    <3>2. victims' = [victims EXCEPT ![t] = Beyond(all, IF Protects(t) THEN 1 ELSE 2)]
      BY <2>3, Zenon DEF Choose
    <3>3. Beyond(all, IF Protects(t) THEN 1 ELSE 2) \subseteq Items
      BY <3>1, Zenon
    <3> HIDE DEF all
    <3> QED
      BY <2>3, <3>2, <3>3, Zenon DEF Choose, TypeOK, ListsOK
  <2>4. CASE Delete(t)
    BY <2>4, Zenon DEF Delete, TypeOK, ListsOK
  <2>5. CASE RecoverOne(t) \/ Archive(t) \/ Rename(t) \/ Date(t) \/ Sync(t) \/ Remove(t)
    <3>1. UNCHANGED <<seen, victims>>
      BY <2>5, Zenon DEF RecoverOne, Archive, AfterPackage, Afterwards, Rename, Date, Sync,
         Remove
    <3> QED
      BY <3>1, Zenon DEF ListsOK, TypeOK
  <2> QED
    BY <1>1, <2>1, <2>2, <2>3, <2>4, <2>5, Zenon DEF Files
<1>2. ASSUME Worker, ~Files("worker") PROVE ListsOK'
  BY <1>2, WorkerFrame, Zenon DEF ListsOK, TypeOK
<1>3. ASSUME NEW t \in Readers, Reader(t), ~Files(t) PROVE ListsOK'
  BY <1>3, ReaderFrame, Zenon DEF ListsOK, TypeOK
<1>4. CASE Crash
  BY <1>4, Zenon DEF Crash, ProcessGone, ListsOK
<1>5. CASE PowerLoss
  BY <1>5, Zenon DEF PowerLoss, ProcessGone, ListsOK
<1>6. CASE Mount
  BY <1>6, Zenon DEF Mount, TypeOK, ListsOK
<1> QED
  BY <1>1, <1>2, <1>3, <1>4, <1>5, <1>6, Zenon DEF Next, Threads

(* Every step keeps the types of the flags.                                  *)
LEMMA FlagsTyped ==
  ASSUME TypeOK, Next
  PROVE  FlagsOK'
<1> USE DEF files, session, manual, threads, bounds
<1>1. ASSUME NEW t \in Threads, Files(t) PROVE FlagsOK'
  <2>1. CASE Date(t)
    BY <2>1, Zenon DEF Date, TypeOK, FlagsOK
  <2>2. CASE List(t)
    BY <2>2, Zenon DEF List, TypeOK, FlagsOK
  <2>3. CASE Choose(t)
    BY <2>3, Zenon DEF Choose, TypeOK, FlagsOK
  <2>4. CASE RecoverOne(t) \/ Archive(t) \/ Rename(t) \/ Sync(t) \/ Remove(t)
          \/ (\E root \in Roots : Prune(t, root)) \/ Delete(t)
    <3>1. UNCHANGED <<mounted, active, misdated>>
      BY <2>4, Zenon DEF RecoverOne, Archive, AfterPackage, Afterwards, Rename, Sync, Remove,
         Prune, Delete
    <3> QED
      BY <3>1, Zenon DEF FlagsOK, TypeOK
  <2> QED
    BY <1>1, <2>1, <2>2, <2>3, <2>4, Zenon DEF Files
<1>2. ASSUME Worker, ~Files("worker") PROVE FlagsOK'
  <2>1. CASE Enter
    BY <2>1, Zenon DEF Enter, TypeOK, FlagsOK
  <2>2. CASE LockOrGiveUp
    BY <2>2, Zenon DEF LockOrGiveUp, GiveUp, TypeOK, FlagsOK
  <2>3. CASE StartFails
    BY <2>3, Zenon DEF StartFails, GiveUp, TypeOK, FlagsOK
  <2>4. CASE Close
    BY <2>4, Zenon DEF Close, TypeOK, FlagsOK
  <2>5. CASE ToggleStart \/ ToggleStop \/ MakeDirectory \/ WriteOwner \/ StartSucceeds \/ Finish
          \/ Unlock \/ WorkerDeleted
    <3>1. UNCHANGED <<mounted, active, misdated>>
      BY <2>5, Zenon DEF ToggleStart, ToggleStop, MakeDirectory, WriteOwner, StartSucceeds,
         Finish, Unlock, WorkerDeleted
    <3> QED
      BY <3>1, Zenon DEF FlagsOK, TypeOK
  <2> QED
    BY <1>2, <2>1, <2>2, <2>3, <2>4, <2>5, Zenon DEF Worker
<1>3. ASSUME NEW t \in Readers, Reader(t), ~Files(t) PROVE FlagsOK'
  BY <1>3, ReaderFrame, Zenon DEF FlagsOK, TypeOK
<1>4. CASE Crash
  BY <1>4, Zenon DEF Crash, ProcessGone, TypeOK, FlagsOK
<1>5. CASE PowerLoss
  BY <1>5, Zenon DEF PowerLoss, ProcessGone, TypeOK, FlagsOK
<1>6. CASE Mount
  BY <1>6, Zenon DEF Mount, TypeOK, FlagsOK
<1> QED
  BY <1>1, <1>2, <1>3, <1>4, <1>5, <1>6, Zenon DEF Next, Threads

(* Only the holder of the work root's .capture.lock recovers and packs.      *)
LEMMA PackKeeps ==
  ASSUME TypeOK, LockInv, WorkerInv, Next
  PROVE  PackInv'
<1> USE DEF files, session, manual, threads, bounds
<1>1. ASSUME NEW t \in Threads, Files(t) PROVE PackInv'
  <2>1. CASE Archive(t) \/ Rename(t) \/ Remove(t)
    <3>1. Packaging(t)
      BY <2>1, PackageStep, Zenon
    <3>2. Packs(t)
      BY <3>1, InPackage, Zenon DEF Packaging
    <3> QED
      BY <3>1 DEF Packaging, PackInv, LockInv, Packing
  <2>2. CASE RecoverOne(t)
    <3>1. Recovering(t)
      BY <2>2, RecoverStep, Zenon
    <3> QED
      BY <3>1, Zenon DEF Recovering, PackInv, LockInv, Packing
  <2>3. CASE Date(t)
    BY <2>3, Zenon DEF Date, At, PackInv, LockInv, Packing, TypeOK, PointsOK
  <2>4. CASE Sync(t)
    BY <2>4, Zenon DEF Sync, At, PackInv, LockInv, Packing, TypeOK, PointsOK
  <2>5. CASE \E root \in Roots : Prune(t, root)
    BY <2>5, Zenon DEF Prune, PackInv, LockInv, Packing, TypeOK, PointsOK
  <2>6. CASE List(t)
    BY <2>6, Zenon DEF List, At, PackInv, LockInv, Packing, TypeOK, PointsOK
  <2>7. CASE Choose(t)
    BY <2>7, Zenon DEF Choose, At, PackInv, LockInv, Packing, TypeOK, PointsOK
  <2>8. CASE Delete(t)
    <3>1. UNCHANGED <<pc, todo, lock, job>>
      BY <2>8, Zenon DEF Delete
    <3> QED
      BY <3>1, Zenon DEF PackInv, LockInv
  <2> QED
    BY <1>1, <2>1, <2>2, <2>3, <2>4, <2>5, <2>6, <2>7, <2>8, Zenon DEF Files
<1>2. ASSUME Worker, ~Files("worker") PROVE PackInv'
  <2>1. CASE ToggleStart
    BY <2>1, Zenon DEF ToggleStart, At, PackInv, LockInv, Packing, TypeOK, PointsOK
  <2>2. CASE ToggleStop
    BY <2>2, Zenon DEF ToggleStop, At, PackInv, LockInv, Packing, TypeOK, PointsOK
  <2>3. CASE Enter
    BY <2>3, Zenon DEF Enter, At, PackInv, LockInv, Packing, TypeOK, PointsOK
  <2>4. CASE LockOrGiveUp
    BY <2>4, BoundsAssumption, Zenon DEF LockOrGiveUp, Taken, GiveUp, TypeOK, PointsOK, WorkOK,
       ManualOK, PackInv, LockInv, Packing, Threads, Roots
  <2>5. CASE MakeDirectory
    BY <2>5, Zenon DEF MakeDirectory, At, PackInv, LockInv, Packing, TypeOK, PointsOK
  <2>6. CASE WriteOwner
    BY <2>6, Zenon DEF WriteOwner, At, PackInv, LockInv, Packing, TypeOK, PointsOK
  <2>7. CASE StartFails
    BY <2>7, Zenon DEF StartFails, GiveUp, TypeOK, ManualOK, PackInv, LockInv, WorkerInv,
       OwnLockInv, SwitchInv, Packing, PointsOK
  <2>8. CASE StartSucceeds
    BY <2>8, Zenon DEF StartSucceeds, At, PackInv, LockInv, Packing, TypeOK, PointsOK
  <2>9. CASE Finish
    BY <2>9, Zenon DEF Finish, At, TypeOK, ManualOK, PackInv, LockInv, WorkerInv, OwnLockInv,
       SwitchInv, Packing, PointsOK
  <2>10. CASE Unlock
    BY <2>10, Zenon DEF Unlock, At, TypeOK, ManualOK, PackInv, LockInv, WorkerInv, OwnLockInv,
       SwitchInv, Packing, PointsOK
  <2>11. CASE Close
    BY <2>11, Zenon DEF Close, At, PackInv, LockInv, Packing, TypeOK, PointsOK, WorkOK
  <2>12. CASE WorkerDeleted
    BY <2>12, Zenon DEF WorkerDeleted, At, PackInv, LockInv, Packing, TypeOK, PointsOK
  <2> QED
    BY <1>2, <2>1, <2>2, <2>3, <2>4, <2>5, <2>6, <2>7, <2>8, <2>9, <2>10, <2>11, <2>12, Zenon DEF
       Worker
<1>3. ASSUME NEW t \in Readers, Reader(t), ~Files(t) PROVE PackInv'
  <2>1. CASE Report(t)
    BY <2>1, Zenon DEF Report, At, PackInv, LockInv, Packing, TypeOK, PointsOK
  <2>2. CASE EnterSaved(t)
    BY <2>2, Zenon DEF EnterSaved, ReadersLock, Taken, TypeOK, PointsOK, ManualOK, PackInv,
       LockInv, Packing, Roots
  <2>3. CASE EnterWork(t)
    BY <2>3, BoundsAssumption, Zenon DEF EnterWork, ReadersLock, Taken, TypeOK, PointsOK, WorkOK,
       ManualOK, PackInv, LockInv, Packing, Threads, Roots
  <2>4. CASE ReaderDeleted(t)
    BY <2>4, Zenon DEF ReaderDeleted, At, PackInv, LockInv, Packing, Roots, TypeOK, PointsOK
  <2>5. CASE Check(t)
    BY <2>5, Zenon DEF Check, At, PackInv, LockInv, Packing, TypeOK, PointsOK
  <2> QED
    BY <1>3, <2>1, <2>2, <2>3, <2>4, <2>5, Zenon DEF Reader
<1>4. CASE Crash
  BY <1>4, Zenon DEF Crash, ProcessGone, PackInv, Packing
<1>5. CASE PowerLoss
  BY <1>5, Zenon DEF PowerLoss, ProcessGone, PackInv, Packing
<1>6. CASE Mount
  BY <1>6, Zenon DEF Mount, PackInv, LockInv
<1> QED
  BY <1>1, <1>2, <1>3, <1>4, <1>5, <1>6, Zenon DEF Next, Threads

(* Readers pack only what Recover found, and hold the lock only meanwhile    *)
(* and for its Prune.                                                        *)
LEMMA ReaderKeeps ==
  ASSUME TypeOK, LockInv, WorkerInv, Next
  PROVE  ReaderInv'
<1> USE DEF files, session, manual, threads, bounds
<1>1. ASSUME NEW t \in Threads, Files(t) PROVE ReaderInv'
  <2>1. CASE Archive(t) \/ Rename(t) \/ Remove(t)
    <3>1. Packaging(t)
      BY <2>1, PackageStep, Zenon
    <3>2. Packs(t)
      BY <3>1, InPackage, Zenon DEF Packaging
    <3> QED
      BY <3>1, <3>2, BoundsAssumption, Zenon DEF Packaging, Packs, ReaderInv, Packing, Threads
  <2>2. CASE RecoverOne(t)
    <3>1. Recovering(t)
      BY <2>2, RecoverStep, Zenon
    <3> QED
      BY <3>1, BoundsAssumption, Zenon DEF Recovering, TypeOK, ManualOK, ReaderInv, LockInv,
         PackInv, Packing, Threads
  <2>3. CASE Date(t)
    BY <2>3, Zenon DEF Date, At, ReaderInv, LockInv, Packing, TypeOK, PointsOK, Threads
  <2>4. CASE Sync(t)
    BY <2>4, Zenon DEF Sync, At, ReaderInv, LockInv, Packing, TypeOK, PointsOK, Threads
  <2>5. CASE \E root \in Roots : Prune(t, root)
    <3>1. At(t, "recover", "delete") /\ UNCHANGED <<lock, job>>
      BY <2>5, Pruning, Zenon
    <3>2. pc'[t] = "delete" /\ \A u \in Threads : u # t => pc'[u] = pc[u]
      BY <3>1, Moved, Zenon
    <3> QED
      BY <3>1, <3>2, ReaderIsThread, Zenon DEF At, ReaderInv, LockInv, Packing
  <2>6. CASE List(t)
    BY <2>6, Zenon DEF List, At, ReaderInv, LockInv, Packing, TypeOK, PointsOK, Threads
  <2>7. CASE Choose(t)
    BY <2>7, Zenon DEF Choose, At, ReaderInv, LockInv, Packing, TypeOK, PointsOK, Threads
  <2>8. CASE Delete(t)
    <3>1. UNCHANGED <<pc, lock, job>>
      BY <2>8, Zenon DEF Delete
    <3> QED
      BY <3>1, Zenon DEF ReaderInv, LockInv
  <2> QED
    BY <1>1, <2>1, <2>2, <2>3, <2>4, <2>5, <2>6, <2>7, <2>8, Zenon DEF Files
<1>2. ASSUME Worker, ~Files("worker") PROVE ReaderInv'
  <2>1. CASE ToggleStart
    BY <2>1, BoundsAssumption, Zenon DEF ToggleStart, At, ReaderInv, LockInv, TypeOK, PointsOK,
       Threads
  <2>2. CASE ToggleStop
    BY <2>2, BoundsAssumption, Zenon DEF ToggleStop, At, ReaderInv, LockInv, TypeOK, PointsOK,
       Threads
  <2>3. CASE Enter
    BY <2>3, BoundsAssumption, Zenon DEF Enter, At, ReaderInv, LockInv, TypeOK, PointsOK, Threads
  <2>4. CASE LockOrGiveUp
    <3>1. \A u \in Readers : pc'[u] = pc[u] /\ job'[u] = job[u]
      BY <2>4, BoundsAssumption, Zenon DEF LockOrGiveUp, GiveUp, TypeOK, PointsOK, Threads
    <3>2. \A u \in Readers : lock'["work"] = u => lock["work"] = u
      BY <2>4, BoundsAssumption, Zenon DEF LockOrGiveUp, GiveUp, Taken, TypeOK, ManualOK, Roots
    <3> QED
      BY <3>1, <3>2, Zenon DEF ReaderInv, LockInv
  <2>5. CASE MakeDirectory
    BY <2>5, BoundsAssumption, Zenon DEF MakeDirectory, At, ReaderInv, LockInv, TypeOK, PointsOK,
       Threads
  <2>6. CASE WriteOwner
    BY <2>6, BoundsAssumption, Zenon DEF WriteOwner, At, ReaderInv, LockInv, TypeOK, PointsOK,
       Threads
  <2>7. CASE StartFails
    BY <2>7, BoundsAssumption, ReaderIsThread, Zenon DEF StartFails, GiveUp, ReaderInv, LockInv,
       Roots, TypeOK, PointsOK
  <2>8. CASE StartSucceeds
    BY <2>8, BoundsAssumption, Zenon DEF StartSucceeds, At, ReaderInv, LockInv, TypeOK, PointsOK,
       Threads
  <2>9. CASE Finish
    BY <2>9, ReaderIsThread, Zenon DEF Finish, At, ReaderInv, LockInv, TypeOK, PointsOK, WorkOK
  <2>10. CASE Unlock
    BY <2>10, ReaderIsThread, BoundsAssumption, Zenon DEF Unlock, At, ReaderInv, LockInv, TypeOK,
       PointsOK, ManualOK
  <2>11. CASE Close
    BY <2>11, ReaderIsThread, Zenon DEF Close, At, ReaderInv, LockInv, TypeOK, PointsOK, WorkOK
  <2>12. CASE WorkerDeleted
    BY <2>12, BoundsAssumption, Zenon DEF WorkerDeleted, At, ReaderInv, LockInv, TypeOK,
       PointsOK, Threads
  <2> QED
    BY <1>2, <2>1, <2>2, <2>3, <2>4, <2>5, <2>6, <2>7, <2>8, <2>9, <2>10, <2>11, <2>12, Zenon DEF
       Worker
<1>3. ASSUME NEW t \in Readers, Reader(t), ~Files(t) PROVE ReaderInv'
  <2>1. CASE Report(t)
    BY <2>1, Zenon DEF Report, At, ReaderInv, LockInv, Packing, TypeOK, PointsOK, Threads
  <2>2. CASE EnterSaved(t)
    BY <2>2, Zenon DEF EnterSaved, ReadersLock, Taken, TypeOK, PointsOK, ManualOK, ReaderInv,
       LockInv, Packing, Threads, Roots
  <2>3. CASE EnterWork(t)
    <3>1. \A u \in Readers : u # t => pc'[u] = pc[u] /\ (lock'["work"] = u => lock["work"] = u)
      BY <2>3, Zenon DEF EnterWork, ReadersLock, Taken, TypeOK, ManualOK, PointsOK, Threads
    <3>2. pc'[t] \in {"recover", "check"} /\ (lock'["work"] = t /\ lock["work"] # t => pc'[t] = "recover")
      BY <2>3, Zenon DEF EnterWork, TypeOK, PointsOK, Threads
    <3>3. lock["work"] # t /\ job' = job
      BY <2>3, Zenon DEF EnterWork, ReaderInv, LockInv, Packing
    <3> QED
      BY <3>1, <3>2, <3>3, Zenon DEF ReaderInv, LockInv, Packing
  <2>4. CASE ReaderDeleted(t)
    BY <2>4, BoundsAssumption, Zenon DEF ReaderDeleted, At, ReaderInv, LockInv, Packing, Roots,
       TypeOK, PointsOK, Threads
  <2>5. CASE Check(t)
    BY <2>5, Zenon DEF Check, At, ReaderInv, LockInv, Packing, TypeOK, PointsOK, Threads
  <2> QED
    BY <1>3, <2>1, <2>2, <2>3, <2>4, <2>5, Zenon DEF Reader
<1>4. CASE Crash
  BY <1>4, BoundsAssumption, Zenon DEF Crash, ProcessGone, ReaderInv, Packing, Threads, Roots
<1>5. CASE PowerLoss
  BY <1>5, BoundsAssumption, Zenon DEF PowerLoss, ProcessGone, ReaderInv, Packing, Threads, Roots
<1>6. CASE Mount
  BY <1>6, Zenon DEF Mount, ReaderInv, LockInv
<1> QED
  BY <1>1, <1>2, <1>3, <1>4, <1>5, <1>6, Zenon DEF Next, Threads

(* The lock of the persistent root is held only by a reader, for its Prune.  *)
LEMMA PruneKeeps ==
  ASSUME TypeOK, LockInv, WorkerInv, Next
  PROVE  PruneInv'
<1> USE DEF files, session, manual, threads, bounds
<1>1. ASSUME NEW t \in Threads, Files(t) PROVE PruneInv'
  <2>1. CASE Archive(t) \/ Rename(t) \/ Remove(t)
    <3>1. Packaging(t)
      BY <2>1, PackageStep, Zenon
    <3>2. Packs(t)
      BY <3>1, InPackage, Zenon DEF Packaging
    <3> QED
      BY <3>1, <3>2, Zenon DEF Packaging, Packs, PruneInv, LockInv
  <2>2. CASE RecoverOne(t)
    <3>1. Recovering(t)
      BY <2>2, RecoverStep, Zenon
    <3> QED
      BY <3>1, Zenon DEF Recovering, PruneInv, LockInv, PackInv
  <2>3. CASE Date(t)
    BY <2>3, Zenon DEF Date, At, PruneInv, LockInv, TypeOK, PointsOK
  <2>4. CASE Sync(t)
    BY <2>4, Zenon DEF Sync, At, PruneInv, LockInv, TypeOK, PointsOK
  <2>5. CASE \E root \in Roots : Prune(t, root)
    BY <2>5, Zenon DEF Prune, PruneInv, LockInv, TypeOK, PointsOK
  <2>6. CASE List(t)
    BY <2>6, Zenon DEF List, At, PruneInv, LockInv, TypeOK, PointsOK
  <2>7. CASE Choose(t)
    BY <2>7, Moved, Zenon DEF Choose, PruneInv, LockInv
  <2>8. CASE Delete(t)
    <3>1. UNCHANGED <<pc, lock>>
      BY <2>8, Zenon DEF Delete
    <3> QED
      BY <3>1, Zenon DEF PruneInv, LockInv
  <2> QED
    BY <1>1, <2>1, <2>2, <2>3, <2>4, <2>5, <2>6, <2>7, <2>8, Zenon DEF Files
<1>2. ASSUME Worker, ~Files("worker") PROVE PruneInv'
  <2>1. CASE ToggleStart
    BY <2>1, Moved, WorkerIsThread, ReaderIsThread, Zenon DEF ToggleStart, PruneInv, LockInv
  <2>2. CASE ToggleStop
    BY <2>2, Moved, WorkerIsThread, ReaderIsThread, Zenon DEF ToggleStop, PruneInv, LockInv
  <2>3. CASE Enter
    BY <2>3, Moved, WorkerIsThread, ReaderIsThread, Zenon DEF Enter, PruneInv, LockInv
  <2>4. CASE LockOrGiveUp
    BY <2>4, BoundsAssumption DEF LockOrGiveUp, Taken, GiveUp, TypeOK, PointsOK, ManualOK,
       PruneInv, LockInv, Roots
  <2>5. CASE MakeDirectory
    BY <2>5, Moved, WorkerIsThread, ReaderIsThread, Zenon DEF MakeDirectory, PruneInv, LockInv
  <2>6. CASE WriteOwner
    BY <2>6, Moved, WorkerIsThread, ReaderIsThread, Zenon DEF WriteOwner, PruneInv, LockInv
  <2>7. CASE StartFails
    BY <2>7, BoundsAssumption, Zenon DEF StartFails, GiveUp, PruneInv, LockInv, Threads, Roots,
       TypeOK, PointsOK
  <2>8. CASE StartSucceeds
    BY <2>8, Moved, WorkerIsThread, ReaderIsThread, Zenon DEF StartSucceeds, PruneInv, LockInv
  <2>9. CASE Finish
    BY <2>9, Moved, WorkerIsThread, ReaderIsThread, Zenon DEF Finish, PruneInv, LockInv
  <2>10. CASE Unlock
    BY <2>10, BoundsAssumption, Zenon DEF Unlock, At, PruneInv, LockInv, TypeOK, PointsOK,
       ManualOK, Roots
  <2>11. CASE Close
    BY <2>11, Moved, WorkerIsThread, ReaderIsThread, Zenon DEF Close, PruneInv, LockInv
  <2>12. CASE WorkerDeleted
    BY <2>12, Moved, WorkerIsThread, ReaderIsThread, Zenon DEF WorkerDeleted, PruneInv, LockInv
  <2> QED
    BY <1>2, <2>1, <2>2, <2>3, <2>4, <2>5, <2>6, <2>7, <2>8, <2>9, <2>10, <2>11, <2>12, Zenon DEF
       Worker
<1>3. ASSUME NEW t \in Readers, Reader(t), ~Files(t) PROVE PruneInv'
  <2>1. CASE Report(t)
    BY <2>1, Zenon DEF Report, At, PruneInv, LockInv, TypeOK, PointsOK
  <2>2. CASE EnterSaved(t)
    BY <2>2 DEF EnterSaved, ReadersLock, Taken, TypeOK, PointsOK, ManualOK, PruneInv, LockInv,
       ReaderInv, Packing, Roots
  <2>3. CASE EnterWork(t)
    BY <2>3, Zenon DEF EnterWork, ReadersLock, Taken, TypeOK, PointsOK, ManualOK, PruneInv,
       LockInv, Roots
  <2>4. CASE ReaderDeleted(t)
    BY <2>4, BoundsAssumption, Zenon DEF ReaderDeleted, At, PruneInv, LockInv, Threads, Roots,
       TypeOK, PointsOK
  <2>5. CASE Check(t)
    BY <2>5, Zenon DEF Check, At, PruneInv, LockInv, TypeOK, PointsOK
  <2> QED
    BY <1>3, <2>1, <2>2, <2>3, <2>4, <2>5, Zenon DEF Reader
<1>4. CASE Crash
  BY <1>4, BoundsAssumption, Zenon DEF Crash, ProcessGone, PruneInv, Threads, Roots
<1>5. CASE PowerLoss
  BY <1>5, BoundsAssumption, Zenon DEF PowerLoss, ProcessGone, PruneInv, Threads, Roots
<1>6. CASE Mount
  BY <1>6, Zenon DEF Mount, PruneInv, LockInv
<1> QED
  BY <1>1, <1>2, <1>3, <1>4, <1>5, <1>6, Zenon DEF Next, Threads

(* The state of the switch and the point of the worker agree (ToggleManual,  *)
(* Recording).                                                               *)
LEMMA SwitchKeeps ==
  ASSUME TypeOK, LockInv, WorkerInv, Next
  PROVE  SwitchInv'
<1> USE DEF files, session, manual, threads, bounds
<1>1. ASSUME NEW t \in Threads, Files(t) PROVE SwitchInv'
  <2>1. CASE Archive(t) \/ Rename(t) \/ Remove(t)
    <3>1. Packaging(t)
      BY <2>1, PackageStep, Zenon
    <3>2. Packs(t)
      BY <3>1, InPackage, Zenon DEF Packaging
    <3> QED
      BY <3>1, Zenon DEF Packaging, WorkerInv, SwitchInv, OwnJobInv, Packing, Threads, Own
  <2>2. CASE RecoverOne(t)
    <3>1. Recovering(t)
      BY <2>2, RecoverStep, Zenon
    <3> QED
      BY <3>1, Zenon DEF Recovering, WorkerInv, SwitchInv, Packing, Threads
  <2>3. CASE Date(t)
    BY <2>3, Zenon DEF Date, At, WorkerInv, SwitchInv, Packing, TypeOK, PointsOK, Threads
  <2>4. CASE Sync(t)
    BY <2>4, Zenon DEF Sync, At, WorkerInv, SwitchInv, Packing, TypeOK, PointsOK, Threads
  <2>5. CASE \E root \in Roots : Prune(t, root)
    BY <2>5, WorkerIsThread, Zenon DEF Prune, WorkerInv, SwitchInv, TypeOK, PointsOK
  <2>6. CASE List(t)
    BY <2>6, Zenon DEF List, At, WorkerInv, SwitchInv, Packing, TypeOK, PointsOK, Threads
  <2>7. CASE Choose(t)
    BY <2>7, Moved, WorkerIsThread, ReaderIsThread, Zenon DEF Choose, WorkerInv, SwitchInv
  <2>8. CASE Delete(t)
    <3>1. UNCHANGED <<pc, status, live, count>>
      BY <2>8, Zenon DEF Delete
    <3> QED
      BY <3>1, Zenon DEF SwitchInv, WorkerInv
  <2> QED
    BY <1>1, <2>1, <2>2, <2>3, <2>4, <2>5, <2>6, <2>7, <2>8, Zenon DEF Files
<1>2. ASSUME Worker, ~Files("worker") PROVE SwitchInv'
  <2>1. CASE ToggleStart
    BY <2>1, Zenon DEF ToggleStart, At, TypeOK, PointsOK, WorkerInv, SwitchInv, Threads
  <2>2. CASE ToggleStop
    BY <2>2, Zenon DEF ToggleStop, At, TypeOK, PointsOK, WorkerInv, SwitchInv, Threads
  <2>3. CASE Enter
    BY <2>3, Zenon DEF Enter, At, WorkerInv, SwitchInv, Packing, TypeOK, PointsOK
  <2>4. CASE LockOrGiveUp
    BY <2>4, Zenon DEF LockOrGiveUp, GiveUp, TypeOK, PointsOK, WorkerInv, SwitchInv, Packing,
       Threads
  <2>5. CASE MakeDirectory
    BY <2>5 DEF MakeDirectory, At, TypeOK, PointsOK, BoundsOK, WorkerInv, SwitchInv, Packing,
       Threads
  <2>6. CASE WriteOwner
    BY <2>6, Zenon DEF WriteOwner, At, WorkerInv, SwitchInv, Packing, TypeOK, PointsOK
  <2>7. CASE StartFails
    BY <2>7, Zenon DEF StartFails, GiveUp, TypeOK, PointsOK, SwitchInv, Threads
  <2>8. CASE StartSucceeds
    BY <2>8, Zenon DEF StartSucceeds, At, TypeOK, PointsOK, ManualOK, WorkerInv, SwitchInv,
       Packing, Threads
  <2>9. CASE Finish
    BY <2>9, Zenon DEF Finish, At, WorkerInv, SwitchInv, Packing, TypeOK, PointsOK
  <2>10. CASE Unlock
    BY <2>10, Zenon DEF Unlock, At, WorkerInv, SwitchInv, Packing, TypeOK, PointsOK
  <2>11. CASE Close
    BY <2>11, Zenon DEF Close, At, TypeOK, PointsOK, SwitchInv, Threads
  <2>12. CASE WorkerDeleted
    BY <2>12, Zenon DEF WorkerDeleted, At, WorkerInv, SwitchInv, TypeOK, PointsOK
  <2> QED
    BY <1>2, <2>1, <2>2, <2>3, <2>4, <2>5, <2>6, <2>7, <2>8, <2>9, <2>10, <2>11, <2>12, Zenon DEF
       Worker
<1>3. ASSUME NEW t \in Readers, Reader(t), ~Files(t) PROVE SwitchInv'
  <2>1. CASE Report(t)
    BY <2>1, Moved, WorkerIsThread, ReaderIsThread, Zenon DEF Report, WorkerInv, SwitchInv
  <2>2. CASE EnterSaved(t)
    BY <2>2, BoundsAssumption, Zenon DEF EnterSaved, TypeOK, PointsOK, WorkerInv, SwitchInv,
       Threads
  <2>3. CASE EnterWork(t)
    BY <2>3, BoundsAssumption, Zenon DEF EnterWork, TypeOK, PointsOK, WorkerInv, SwitchInv,
       Threads
  <2>4. CASE ReaderDeleted(t)
    BY <2>4, Moved, WorkerIsThread, ReaderIsThread, Zenon DEF ReaderDeleted, WorkerInv, SwitchInv
  <2>5. CASE Check(t)
    BY <2>5, Moved, WorkerIsThread, ReaderIsThread, Zenon DEF Check, WorkerInv, SwitchInv
  <2> QED
    BY <1>3, <2>1, <2>2, <2>3, <2>4, <2>5, Zenon DEF Reader
<1>4. CASE Crash
  BY <1>4, Zenon DEF Crash, ProcessGone, SwitchInv, Threads
<1>5. CASE PowerLoss
  BY <1>5, Zenon DEF PowerLoss, ProcessGone, SwitchInv, Threads
<1>6. CASE Mount
  BY <1>6, Zenon DEF Mount, WorkerInv, SwitchInv
<1> QED
  BY <1>1, <1>2, <1>3, <1>4, <1>5, <1>6, Zenon DEF Next, Threads

(* The worker packs what it recovered while it starts, and its own recording *)
(* when it saves.                                                            *)
LEMMA OwnJobKeeps ==
  ASSUME TypeOK, LockInv, WorkerInv, Next
  PROVE  OwnJobInv'
<1> USE DEF files, session, manual, threads, bounds
<1>1. ASSUME NEW t \in Threads, Files(t) PROVE OwnJobInv'
  <2>1. CASE Archive(t) \/ Rename(t) \/ Remove(t)
    <3>1. Packaging(t)
      BY <2>1, PackageStep, Zenon
    <3>2. Packs(t)
      BY <3>1, InPackage, Zenon DEF Packaging
    <3> QED
      BY <3>1 DEF Packaging, WorkerInv, OwnJobInv, Packing, Threads, Own
  <2>2. CASE RecoverOne(t)
    <3>1. Recovering(t)
      BY <2>2, RecoverStep, Zenon
    <3> QED
      BY <3>1, Zenon DEF Recovering, WorkerInv, SwitchInv, OwnJobInv, Packing, Threads, Own
  <2>3. CASE Date(t)
    BY <2>3, Zenon DEF Date, At, WorkerInv, OwnJobInv, Packing, Own, TypeOK, PointsOK, Threads
  <2>4. CASE Sync(t)
    BY <2>4, Zenon DEF Sync, At, WorkerInv, OwnJobInv, Packing, Own, TypeOK, PointsOK, Threads
  <2>5. CASE \E root \in Roots : Prune(t, root)
    BY <2>5, WorkerIsThread, Zenon DEF Prune, WorkerInv, OwnJobInv, Packing, Own, TypeOK,
       PointsOK
  <2>6. CASE List(t)
    BY <2>6, Zenon DEF List, At, WorkerInv, OwnJobInv, Packing, Own, TypeOK, PointsOK, Threads
  <2>7. CASE Choose(t)
    BY <2>7, Zenon DEF Choose, At, WorkerInv, OwnJobInv, Packing, Own, TypeOK, PointsOK, Threads
  <2>8. CASE Delete(t)
    <3>1. UNCHANGED <<pc, status, job, live>>
      BY <2>8, Zenon DEF Delete
    <3> QED
      BY <3>1, Zenon DEF OwnJobInv, Own, WorkerInv
  <2> QED
    BY <1>1, <2>1, <2>2, <2>3, <2>4, <2>5, <2>6, <2>7, <2>8, Zenon DEF Files
<1>2. ASSUME Worker, ~Files("worker") PROVE OwnJobInv'
  <2>1. CASE ToggleStart
    BY <2>1, Zenon DEF ToggleStart, At, OwnJobInv, Packing, TypeOK, PointsOK
  <2>2. CASE ToggleStop
    BY <2>2, Zenon DEF ToggleStop, At, TypeOK, PointsOK, OwnJobInv, Threads
  <2>3. CASE Enter
    BY <2>3, Zenon DEF Enter, At, WorkerInv, OwnJobInv, Packing, Own, TypeOK, PointsOK
  <2>4. CASE LockOrGiveUp
    BY <2>4, Zenon DEF LockOrGiveUp, GiveUp, TypeOK, PointsOK, WorkerInv, SwitchInv, OwnJobInv,
       Packing
  <2>5. CASE MakeDirectory
    BY <2>5, Zenon DEF MakeDirectory, At, WorkerInv, SwitchInv, OwnJobInv, Packing, TypeOK,
       PointsOK
  <2>6. CASE WriteOwner
    BY <2>6, Zenon DEF WriteOwner, At, WorkerInv, OwnJobInv, Packing, Own, TypeOK, PointsOK
  <2>7. CASE StartFails
    BY <2>7, Zenon DEF StartFails, GiveUp, OwnJobInv
  <2>8. CASE StartSucceeds
    BY <2>8, Zenon DEF StartSucceeds, OwnJobInv
  <2>9. CASE Finish
    <3>1. status = "saving"
      BY <2>9, Finishes, Zenon
    <3>2. PICK k \in Archives : Own(k) /\ job' = [job EXCEPT !["worker"] = k]
      BY <2>9, Finishes, Zenon
    <3>3. Own(job["worker"])'
      BY <2>9, <3>2, Zenon DEF Finish, Own, TypeOK, WorkOK, Threads
    <3> QED
      BY <2>9, <3>1, <3>3, Zenon DEF Finish, OwnJobInv
  <2>10. CASE Unlock
    BY <2>10, Zenon DEF Unlock, At, WorkerInv, OwnJobInv, Packing, Own, TypeOK, PointsOK
  <2>11. CASE Close
    BY <2>11, Zenon DEF Close, OwnJobInv
  <2>12. CASE WorkerDeleted
    BY <2>12, Zenon DEF WorkerDeleted, At, WorkerInv, OwnJobInv, Packing, Own, TypeOK, PointsOK
  <2> QED
    BY <1>2, <2>1, <2>2, <2>3, <2>4, <2>5, <2>6, <2>7, <2>8, <2>9, <2>10, <2>11, <2>12, Zenon DEF
       Worker
<1>3. ASSUME NEW t \in Readers, Reader(t), ~Files(t) PROVE OwnJobInv'
  <2>1. CASE Report(t)
    BY <2>1, BoundsAssumption, Moved, WorkerIsThread, ReaderIsThread, Zenon DEF Report,
       WorkerInv, OwnJobInv, Own
  <2>2. CASE EnterSaved(t)
    BY <2>2, BoundsAssumption, Zenon DEF EnterSaved, TypeOK, PointsOK, WorkerInv, OwnJobInv,
       Threads, Own
  <2>3. CASE EnterWork(t)
    BY <2>3, BoundsAssumption, Zenon DEF EnterWork, TypeOK, PointsOK, WorkerInv, OwnJobInv,
       Threads, Own
  <2>4. CASE ReaderDeleted(t)
    BY <2>4, BoundsAssumption, Zenon DEF ReaderDeleted, At, WorkerInv, OwnJobInv, Own, TypeOK,
       PointsOK, Threads
  <2>5. CASE Check(t)
    BY <2>5, BoundsAssumption, Moved, WorkerIsThread, ReaderIsThread, Zenon DEF Check, WorkerInv,
       OwnJobInv, Own
  <2> QED
    BY <1>3, <2>1, <2>2, <2>3, <2>4, <2>5, Zenon DEF Reader
<1>4. CASE Crash
  BY <1>4, Zenon DEF Crash, ProcessGone, OwnJobInv
<1>5. CASE PowerLoss
  BY <1>5, Zenon DEF PowerLoss, ProcessGone, OwnJobInv
<1>6. CASE Mount
  BY <1>6, Zenon DEF Mount, WorkerInv, OwnJobInv, Own
<1> QED
  BY <1>1, <1>2, <1>3, <1>4, <1>5, <1>6, Zenon DEF Next, Threads

(* The worker holds the lock from its constructor to its destructor          *)
(* (Session).                                                                *)
LEMMA OwnLockKeeps ==
  ASSUME TypeOK, LockInv, WorkerInv, Next
  PROVE  OwnLockInv'
<1> USE DEF files, session, manual, threads, bounds
<1>1. ASSUME NEW t \in Threads, Files(t) PROVE OwnLockInv'
  <2>1. CASE Archive(t) \/ Rename(t) \/ Remove(t)
    <3>1. Packaging(t)
      BY <2>1, PackageStep, Zenon
    <3>2. Packs(t)
      BY <3>1, InPackage, Zenon DEF Packaging
    <3> QED
      BY <3>1, <3>2, Zenon DEF Packaging, Packs, WorkerInv, OwnLockInv, SwitchInv, Packing,
         Threads
  <2>2. CASE RecoverOne(t)
    <3>1. Recovering(t)
      BY <2>2, RecoverStep, Zenon
    <3> QED
      BY <3>1, Zenon DEF Recovering, WorkerInv, OwnLockInv, Packing, Threads
  <2>3. CASE Date(t)
    BY <2>3, Moved, WorkerIsThread, Zenon DEF Date, WorkerInv, OwnLockInv, Packing
  <2>4. CASE Sync(t)
    BY <2>4, Moved, WorkerIsThread, Zenon DEF Sync, WorkerInv, OwnLockInv, Packing
  <2>5. CASE \E root \in Roots : Prune(t, root)
    BY <2>5, WorkerIsThread, Zenon DEF Prune, WorkerInv, OwnLockInv, TypeOK, PointsOK
  <2>6. CASE List(t)
    BY <2>6, Zenon DEF List, At, WorkerInv, OwnLockInv, Packing, TypeOK, PointsOK, Threads
  <2>7. CASE Choose(t)
    BY <2>7, Zenon DEF Choose, At, TypeOK, ManualOK, WorkerInv, OwnLockInv, SwitchInv, PointsOK,
       Threads
  <2>8. CASE Delete(t)
    <3>1. UNCHANGED <<pc, status, lock, live>>
      BY <2>8, Zenon DEF Delete
    <3> QED
      BY <3>1, Zenon DEF OwnLockInv, WorkerInv
  <2> QED
    BY <1>1, <2>1, <2>2, <2>3, <2>4, <2>5, <2>6, <2>7, <2>8, Zenon DEF Files
<1>2. ASSUME Worker, ~Files("worker") PROVE OwnLockInv'
  <2>1. CASE ToggleStart
    BY <2>1, Zenon DEF ToggleStart, At, WorkerInv, OwnLockInv, Packing, TypeOK, PointsOK
  <2>2. CASE ToggleStop
    BY <2>2, Zenon DEF ToggleStop, At, WorkerInv, OwnLockInv, Packing, TypeOK, PointsOK
  <2>3. CASE Enter
    BY <2>3, Zenon DEF Enter, At, WorkerInv, OwnLockInv, Packing, TypeOK, PointsOK
  <2>4. CASE LockOrGiveUp
    BY <2>4, Zenon DEF LockOrGiveUp, Taken, GiveUp, TypeOK, PointsOK, ManualOK, OwnLockInv,
       Packing, Threads, Roots
  <2>5. CASE MakeDirectory
    BY <2>5 DEF MakeDirectory, At, TypeOK, BoundsOK, WorkerInv, OwnLockInv
  <2>6. CASE WriteOwner
    BY <2>6, Zenon DEF WriteOwner, At, WorkerInv, OwnLockInv, Packing, TypeOK, PointsOK
  <2>7. CASE StartFails
    BY <2>7, Zenon DEF StartFails, GiveUp, TypeOK, PointsOK, OwnLockInv, Packing, Threads, Roots
  <2>8. CASE StartSucceeds
    BY <2>8, Zenon DEF StartSucceeds, At, WorkerInv, OwnLockInv, Packing, TypeOK, PointsOK
  <2>9. CASE Finish
    BY <2>9, Zenon DEF Finish, At, TypeOK, ManualOK, WorkerInv, OwnLockInv, SwitchInv, Packing,
       PointsOK
  <2>10. CASE Unlock
    BY <2>10, Zenon DEF Unlock, At, TypeOK, PointsOK, ManualOK, OwnLockInv, Packing, Threads,
       Roots
  <2>11. CASE Close
    BY <2>11, Zenon DEF Close, At, WorkerInv, OwnLockInv, Packing, TypeOK, PointsOK
  <2>12. CASE WorkerDeleted
    BY <2>12, Zenon DEF WorkerDeleted, At, WorkerInv, OwnLockInv, TypeOK, PointsOK
  <2> QED
    BY <1>2, <2>1, <2>2, <2>3, <2>4, <2>5, <2>6, <2>7, <2>8, <2>9, <2>10, <2>11, <2>12, Zenon DEF
       Worker
<1>3. ASSUME NEW t \in Readers, Reader(t), ~Files(t) PROVE OwnLockInv'
  <2>1. CASE Report(t)
    BY <2>1, Moved, WorkerIsThread, ReaderIsThread, Zenon DEF Report, WorkerInv, OwnLockInv
  <2>2. CASE EnterSaved(t)
    BY <2>2, BoundsAssumption, Zenon DEF EnterSaved, ReadersLock, Taken, TypeOK, PointsOK,
       ManualOK, WorkerInv, OwnLockInv, Threads, Roots
  <2>3. CASE EnterWork(t)
    BY <2>3, BoundsAssumption, Zenon DEF EnterWork, ReadersLock, Taken, TypeOK, PointsOK,
       ManualOK, WorkerInv, OwnLockInv, Threads, Roots
  <2>4. CASE ReaderDeleted(t)
    BY <2>4, Moved, WorkerIsThread, ReaderIsThread, Zenon DEF ReaderDeleted, WorkerInv,
       OwnLockInv, Roots
  <2>5. CASE Check(t)
    BY <2>5, Moved, WorkerIsThread, ReaderIsThread, Zenon DEF Check, WorkerInv, OwnLockInv
  <2> QED
    BY <1>3, <2>1, <2>2, <2>3, <2>4, <2>5, Zenon DEF Reader
<1>4. CASE Crash
  BY <1>4, Zenon DEF Crash, ProcessGone, OwnLockInv, Packing, Threads, Roots
<1>5. CASE PowerLoss
  BY <1>5, Zenon DEF PowerLoss, ProcessGone, OwnLockInv, Packing, Threads, Roots
<1>6. CASE Mount
  BY <1>6, Zenon DEF Mount, WorkerInv, OwnLockInv
<1> QED
  BY <1>1, <1>2, <1>3, <1>4, <1>5, <1>6, Zenon DEF Next, Threads

(* Recordings start one after the other, each at a time of its own (.owner). *)
LEMMA StartsKeep ==
  ASSUME TypeOK, WorkerInv, CountInv, Next
  PROVE  StartsInv'
<1> USE DEF files, session, manual, threads, bounds
<1>1. ASSUME NEW t \in Threads, Files(t) PROVE StartsInv'
  <2>1. CASE RecoverOne(t) \/ Archive(t) \/ Rename(t) \/ Date(t) \/ Sync(t) \/ Remove(t)
          \/ (\E root \in Roots : Prune(t, root)) \/ List(t) \/ Choose(t) \/ Delete(t)
    <3>1. UNCHANGED <<clock, count, date>>
      BY <2>1, Zenon DEF RecoverOne, Archive, Rename, Date, Sync, Remove, Prune, List, Choose,
         Delete
    <3> QED
      BY <3>1, Zenon DEF StartsInv, CountInv
  <2> QED
    BY <1>1, <2>1, Zenon DEF Files
<1>2. ASSUME Worker, ~Files("worker") PROVE StartsInv'
  <2>1. CASE MakeDirectory
    BY <2>1 DEF MakeDirectory, TypeOK, FilesOK, BoundsOK, StartsInv, CountInv, Ids
  <2>2. CASE ToggleStart \/ ToggleStop \/ Enter \/ LockOrGiveUp \/ WriteOwner \/ StartFails
          \/ StartSucceeds \/ Finish \/ Unlock \/ Close \/ WorkerDeleted
    <3>1. UNCHANGED <<clock, count, date>>
      BY <2>2, Zenon DEF ToggleStart, ToggleStop, Enter, LockOrGiveUp, GiveUp, WriteOwner,
         StartFails, StartSucceeds, Finish, Unlock, Close, WorkerDeleted
    <3> QED
      BY <3>1, Zenon DEF StartsInv, CountInv
  <2> QED
    BY <1>2, <2>1, <2>2, Zenon DEF Worker
<1>3. ASSUME NEW t \in Readers, Reader(t), ~Files(t) PROVE StartsInv'
  BY <1>3, ReaderFrame, Zenon DEF StartsInv, CountInv
<1>4. CASE Crash
  BY <1>4, Zenon DEF Crash, StartsInv, CountInv
<1>5. CASE PowerLoss
  BY <1>5, Zenon DEF PowerLoss, StartsInv, CountInv
<1>6. CASE Mount
  BY <1>6, Zenon DEF Mount, StartsInv, CountInv
<1> QED
  BY <1>1, <1>2, <1>3, <1>4, <1>5, <1>6, Zenon DEF Next, Threads

(* Only recordings that started have directories and reports.                *)
LEMMA FilesKeep ==
  ASSUME TypeOK, WorkerInv, LockInv, CountInv, Next
  PROVE  FilesInv'
<1> USE DEF files, session, manual, threads, bounds
<1>1. ASSUME NEW t \in Threads, Files(t) PROVE FilesInv'
  <2>1. CASE Rename(t)
    BY <2>1, Zenon DEF Rename, AfterPackage, Afterwards, TypeOK, FilesOK, FilesInv, TodoInv,
       CountInv
  <2>2. CASE Sync(t)
    BY <2>2, Zenon DEF Sync, Synced, FilesInv, CountInv, TypeOK, FilesOK
  <2>3. CASE Remove(t)
    BY <2>3, Zenon DEF Remove, RemoveRaw, TypeOK, FilesOK, FilesInv, CountInv
  <2>4. CASE Delete(t)
    BY <2>4, Zenon DEF Delete, RemoveRaw, TypeOK, FilesOK, FilesInv, CountInv
  <2>5. CASE RecoverOne(t) \/ Archive(t) \/ Date(t) \/ (\E root \in Roots : Prune(t, root))
          \/ List(t) \/ Choose(t)
    <3>1. UNCHANGED <<count, raw, zip>>
      BY <2>5, Zenon DEF RecoverOne, Archive, AfterPackage, Afterwards, Date, Prune, List, Choose
    <3> QED
      BY <3>1, Zenon DEF FilesInv, CountInv
  <2> QED
    BY <1>1, <2>1, <2>2, <2>3, <2>4, <2>5, Zenon DEF Files
<1>2. ASSUME Worker, ~Files("worker") PROVE FilesInv'
  <2>1. CASE MakeDirectory
    <3>1. count' = count + 1 /\ zip' = zip /\ count \in Nat
      BY <2>1 DEF MakeDirectory, TypeOK, BoundsOK
    <3>2. \A k \in Archives : k[2] \in Nat
      BY ArchiveParts DEF Ids
    <3>3. ASSUME NEW i \in Ids, raw'[i] # "no" PROVE i <= count + 1
      BY <2>1, <3>1, <3>3 DEF MakeDirectory, FilesInv, CountInv, Ids
    <3> QED
      BY <3>1, <3>2, <3>3 DEF FilesInv, CountInv
  <2>2. CASE WriteOwner
    BY <2>2 DEF WriteOwner, FilesInv, CountInv, WorkerInv, SwitchInv, Ids
  <2>3. CASE ToggleStart \/ ToggleStop \/ Enter \/ LockOrGiveUp \/ StartFails \/ StartSucceeds
          \/ Finish \/ Unlock \/ Close \/ WorkerDeleted
    <3>1. UNCHANGED <<count, raw, zip>>
      BY <2>3, Zenon DEF ToggleStart, ToggleStop, Enter, LockOrGiveUp, GiveUp, StartFails,
         StartSucceeds, Finish, Unlock, Close, WorkerDeleted
    <3> QED
      BY <3>1, Zenon DEF FilesInv, CountInv
  <2> QED
    BY <1>2, <2>1, <2>2, <2>3, Zenon DEF Worker
<1>3. ASSUME NEW t \in Readers, Reader(t), ~Files(t) PROVE FilesInv'
  BY <1>3, ReaderFrame, Zenon DEF FilesInv, CountInv
<1>4. CASE Crash
  BY <1>4, Zenon DEF Crash, FilesInv, CountInv
<1>5. CASE PowerLoss
  BY <1>5, Zenon DEF PowerLoss, FilesInv, CountInv
<1>6. CASE Mount
  BY <1>6, Zenon DEF Mount, FilesInv, CountInv
<1> QED
  BY <1>1, <1>2, <1>3, <1>4, <1>5, <1>6, Zenon DEF Next, Threads

(* Only recordings that started are recovered and packed.                    *)
LEMMA TodoKeeps ==
  ASSUME TypeOK, WorkerInv, LockInv, CountInv, Next
  PROVE  TodoInv'
<1> USE DEF files, session, manual, threads, bounds
<1>1. ASSUME NEW t \in Threads, Files(t) PROVE TodoInv'
  <2>1. CASE Archive(t) \/ Rename(t) \/ Remove(t)
    <3>1. Packaging(t)
      BY <2>1, PackageStep, Zenon
    <3>2. Packs(t)
      BY <3>1, InPackage, Zenon DEF Packaging
    <3> QED
      BY <3>1 DEF Packaging, TypeOK, BoundsOK, TodoInv, CountInv, NoPath
  <2>2. CASE RecoverOne(t)
    <3>1. Recovering(t)
      BY <2>2, RecoverStep, Zenon
    <3> QED
      BY <3>1, Zenon DEF Recovering, TodoInv, CountInv
  <2>3. CASE Date(t) \/ Sync(t) \/ (\E root \in Roots : Prune(t, root)) \/ List(t) \/ Choose(t)
          \/ Delete(t)
    <3>1. UNCHANGED <<count, job, todo>>
      BY <2>3, Zenon DEF Date, Sync, Prune, List, Choose, Delete
    <3> QED
      BY <3>1, Zenon DEF TodoInv, CountInv
  <2> QED
    BY <1>1, <2>1, <2>2, <2>3, Zenon DEF Files
<1>2. ASSUME Worker, ~Files("worker") PROVE TodoInv'
  <2>1. CASE LockOrGiveUp
    BY <2>1, Zenon DEF LockOrGiveUp, GiveUp, TypeOK, WorkOK, FilesInv, TodoInv, CountInv, Orphans
  <2>2. CASE MakeDirectory
    <3>1. count' = count + 1 /\ job' = job /\ todo' = todo /\ count \in Nat
      BY <2>2 DEF MakeDirectory, TypeOK, BoundsOK
    <3>2. \A t \in Threads : job[t][2] \in Nat /\ todo[t] \subseteq Nat
      BY ArchiveParts DEF Ids, TypeOK, WorkOK, NoPath
    <3> QED
      BY <3>1, <3>2 DEF TodoInv, CountInv
  <2>3. CASE Finish
    BY <2>3 DEF Finish, TypeOK, BoundsOK, TodoInv, CountInv, WorkerInv, SwitchInv
  <2>4. CASE Close
    BY <2>4 DEF Close, TypeOK, BoundsOK, TodoInv, CountInv, NoPath
  <2>5. CASE ToggleStart \/ ToggleStop \/ Enter \/ WriteOwner \/ StartFails \/ StartSucceeds
          \/ Unlock \/ WorkerDeleted
    <3>1. UNCHANGED <<count, job, todo>>
      BY <2>5, Zenon DEF ToggleStart, ToggleStop, Enter, WriteOwner, StartFails, GiveUp,
         StartSucceeds, Unlock, WorkerDeleted
    <3> QED
      BY <3>1, Zenon DEF TodoInv, CountInv
  <2> QED
    BY <1>2, <2>1, <2>2, <2>3, <2>4, <2>5, Zenon DEF Worker
<1>3. ASSUME NEW t \in Readers, Reader(t), ~Files(t) PROVE TodoInv'
  <2>1. CASE EnterWork(t)
    BY <2>1, Zenon DEF EnterWork, TypeOK, WorkOK, FilesInv, TodoInv, CountInv, Orphans
  <2>2. CASE Report(t) \/ EnterSaved(t) \/ ReaderDeleted(t) \/ Check(t)
    <3>1. UNCHANGED <<count, job, todo>>
      BY <2>2, Zenon DEF Report, EnterSaved, ReaderDeleted, Check
    <3> QED
      BY <3>1, Zenon DEF TodoInv, CountInv
  <2> QED
    BY <1>3, <2>1, <2>2, Zenon DEF Reader
<1>4. CASE Crash
  <2>1. count \in Nat /\ count' = count /\ \A t \in Threads : job'[t] = NoPath /\ todo'[t] = {}
    BY <1>4 DEF Crash, ProcessGone, TypeOK, BoundsOK
  <2> QED
    BY <2>1 DEF TodoInv, NoPath
<1>5. CASE PowerLoss
  <2>1. count \in Nat /\ count' = count /\ \A t \in Threads : job'[t] = NoPath /\ todo'[t] = {}
    BY <1>5 DEF PowerLoss, ProcessGone, TypeOK, BoundsOK
  <2> QED
    BY <2>1 DEF TodoInv, NoPath
<1>6. CASE Mount
  BY <1>6, Zenon DEF Mount, TodoInv, CountInv
<1> QED
  BY <1>1, <1>2, <1>3, <1>4, <1>5, <1>6, Zenon DEF Next, Threads

(* Only recordings that started are listed, and the persistent root lists    *)
(* reports only.                                                             *)
LEMMA SeenKeeps ==
  ASSUME TypeOK, CountInv, Next
  PROVE  SeenInv'
<1> USE DEF files, session, manual, threads, bounds
<1>1. ASSUME NEW t \in Threads, Files(t) PROVE SeenInv'
  <2>1. CASE \E root \in Roots : Prune(t, root)
    <3>1. PICK root \in Roots : Prune(t, root)
      BY <2>1, Zenon
    <3>2. ASSUME NEW e \in victims'[t] PROVE e[2] <= count
      <4>1. e \in Beyond(Listed(root), 2)
        BY <3>1, Zenon DEF Prune, TypeOK, ListsOK
      <4> QED
        BY <4>1, BeyondListed, ListedCount
    <3>3. \A u \in Threads : u # t => victims'[u] = victims[u]
      BY <3>1, Zenon DEF Prune, TypeOK, ListsOK
    <3> QED
      BY <3>1, <3>2, Zenon DEF Prune, SeenInv, CountInv, TypeOK, ListsOK
  <2>2. CASE List(t)
    <3>1. \A u \in Threads : seen'[u] = IF u = t THEN Listed("saved") ELSE seen[u]
      BY <2>2, Zenon DEF List, TypeOK, ListsOK
    <3>2. \A x \in Listed("saved") : x[1] \in Archives /\ x[1][1] = "saved" /\ x[1][2] <= count
      BY ListedCount DEF Roots
    <3> QED
      BY <2>2, <3>2, Zenon DEF List, SeenInv, CountInv, TypeOK, ListsOK
  <2>3. CASE Choose(t)
    <3>1. ASSUME NEW e \in victims'[t] PROVE e[2] <= count
      <4>1. \E S, n : S \subseteq seen[t] \cup Listed("work") /\ e \in Beyond(S, n)
        BY <2>3, Zenon DEF Choose, TypeOK, ListsOK
      <4>2. PICK x \in seen[t] \cup Listed("work") : x[1] = e
        BY <4>1, BeyondListed
      <4> QED
        BY <4>2, ListedCount DEF SeenInv, CountInv, Roots
    <3>2. \A u \in Threads : u # t => victims'[u] = victims[u] /\ seen'[u] = seen[u]
      BY <2>3, Zenon DEF Choose, TypeOK, ListsOK
    <3>3. seen'[t] = {}
      BY <2>3, Zenon DEF Choose, TypeOK, ListsOK
    <3> QED
      BY <2>3, <3>1, <3>2, <3>3, Zenon DEF Choose, SeenInv, CountInv
  <2>4. CASE Delete(t)
    BY <2>4 DEF Delete, SeenInv, CountInv
  <2>5. CASE RecoverOne(t) \/ Archive(t) \/ Rename(t) \/ Date(t) \/ Sync(t) \/ Remove(t)
    <3>1. UNCHANGED <<count, seen, victims>>
      BY <2>5, Zenon DEF RecoverOne, Archive, AfterPackage, Afterwards, Rename, Date, Sync,
         Remove
    <3> QED
      BY <3>1, Zenon DEF SeenInv, CountInv
  <2> QED
    BY <1>1, <2>1, <2>2, <2>3, <2>4, <2>5, Zenon DEF Files
<1>2. ASSUME Worker, ~Files("worker") PROVE SeenInv'
  <2>1. CASE MakeDirectory
    <3>1. count' = count + 1 /\ seen' = seen /\ victims' = victims /\ count \in Nat
      BY <2>1 DEF MakeDirectory, TypeOK, BoundsOK
    <3>2. \A t \in Threads : \A x \in seen[t] : x[1] \in Archives => x[1][2] \in Nat
      BY ArchiveParts DEF Ids
    <3>3. \A t \in Threads : \A e \in victims[t] : e[2] \in Nat
      BY ItemParts DEF Ids, TypeOK, ListsOK
    <3> QED
      BY <3>1, <3>2, <3>3 DEF SeenInv, CountInv
  <2>2. CASE ToggleStart \/ ToggleStop \/ Enter \/ LockOrGiveUp \/ WriteOwner \/ StartFails
          \/ StartSucceeds \/ Finish \/ Unlock \/ Close \/ WorkerDeleted
    <3>1. UNCHANGED <<count, seen, victims>>
      BY <2>2, Zenon DEF ToggleStart, ToggleStop, Enter, LockOrGiveUp, GiveUp, WriteOwner,
         StartFails, StartSucceeds, Finish, Unlock, Close, WorkerDeleted
    <3> QED
      BY <3>1, Zenon DEF SeenInv, CountInv
  <2> QED
    BY <1>2, <2>1, <2>2, Zenon DEF Worker
<1>3. ASSUME NEW t \in Readers, Reader(t), ~Files(t) PROVE SeenInv'
  BY <1>3, ReaderFrame, Zenon DEF SeenInv, CountInv
<1>4. CASE Crash
  BY <1>4, Zenon DEF Crash, ProcessGone, SeenInv
<1>5. CASE PowerLoss
  BY <1>5, Zenon DEF PowerLoss, ProcessGone, SeenInv
<1>6. CASE Mount
  BY <1>6, Zenon DEF Mount, SeenInv, CountInv
<1> QED
  BY <1>1, <1>2, <1>3, <1>4, <1>5, <1>6, Zenon DEF Next, Threads

(* The time of a report lies between the start of its recording and now      *)
(* (rename, utimensat).                                                      *)
LEMMA TimeKeeps ==
  ASSUME TypeOK, WorkerInv, LockInv, CountInv, TimeInv, Next
  PROVE  TimeInv'
<1> USE DEF files, session, manual, threads, bounds
<1>1. ASSUME NEW t \in Threads, Files(t) PROVE TimeInv'
  <2>1. CASE Rename(t)
    <3>1. Packs(t)
      BY <2>1, InPackage, Zenon DEF Rename, Packing
    <3>2. job[t][2] \in Nat /\ job[t][2] <= count /\ clock = count /\ count \in Nat
      BY <3>1, ArchiveParts, Zenon DEF Packs, Ids, CountInv, StartsInv, TodoInv, TypeOK,
         BoundsOK, FilesOK
    <3>3. UNCHANGED <<count, seen>>
      BY <2>1, Zenon DEF Rename
    <3>4. CASE UNCHANGED <<zip, mtime>>
      BY <3>3, <3>4, Zenon DEF TimeInv
    <3>5. CASE zip' = [zip EXCEPT ![job[t]] = "loose"] /\ mtime' = [mtime EXCEPT ![job[t]] = 2 * count + 1]
      BY <3>2, <3>3, <3>5 DEF TimeInv, TypeOK, FilesOK
    <3> QED
      BY <2>1, <3>2, <3>4, <3>5, Zenon DEF Rename, Now
  <2>2. CASE Date(t)
    <3>1. Packs(t)
      BY <2>2, InPackage, Zenon DEF Date, At, Packing
    <3>2. job[t][2] \in Nat /\ job[t][2] <= count /\ date[job[t][2]] = job[t][2] /\ count \in Nat
      BY <3>1, ArchiveParts, Zenon DEF Packs, Ids, CountInv, StartsInv, TodoInv, TypeOK,
         BoundsOK, FilesOK
    <3>3. UNCHANGED <<count, seen, zip>>
      BY <2>2, Zenon DEF Date
    <3>4. CASE UNCHANGED mtime
      BY <3>3, <3>4, Zenon DEF TimeInv
    <3>5. CASE mtime' = [mtime EXCEPT ![job[t]] = 2 * job[t][2]]
      BY <3>2, <3>3, <3>5 DEF TimeInv
    <3> QED
      BY <2>2, <3>2, <3>4, <3>5, Zenon DEF Date, StartTime
  <2>3. CASE Sync(t)
    BY <2>3, Zenon DEF Sync, Synced, TimeInv, TypeOK, FilesOK
  <2>4. CASE List(t)
    <3>1. \A u \in Threads : seen'[u] = IF u = t THEN Listed("saved") ELSE seen[u]
      BY <2>4, Zenon DEF List, TypeOK, ListsOK
    <3>2. \A x \in Listed("saved") : x[2] <= 2 * count + 1
      BY ListedParts, ItemParts, Zenon DEF Roots, Time, TimeInv
    <3> QED
      BY <2>4, <3>2, Zenon DEF List, TimeInv, TypeOK, ListsOK
  <2>5. CASE Choose(t)
    BY <2>5, Zenon DEF Choose, TimeInv, TypeOK, ListsOK
  <2>6. CASE Delete(t)
    BY <2>6, Zenon DEF Delete, TypeOK, FilesOK, TimeInv
  <2>7. CASE RecoverOne(t) \/ Archive(t) \/ Remove(t) \/ (\E root \in Roots : Prune(t, root))
    <3>1. UNCHANGED <<count, zip, mtime, seen>>
      BY <2>7, Zenon DEF RecoverOne, Archive, AfterPackage, Afterwards, Remove, Prune
    <3> QED
      BY <3>1, Zenon DEF TimeInv
  <2> QED
    BY <1>1, <2>1, <2>2, <2>3, <2>4, <2>5, <2>6, <2>7, Zenon DEF Files
<1>2. ASSUME Worker, ~Files("worker") PROVE TimeInv'
  <2>1. CASE MakeDirectory
    BY <2>1 DEF MakeDirectory, TypeOK, FilesOK, ListsOK, BoundsOK, TimeInv
  <2>2. CASE ToggleStart \/ ToggleStop \/ Enter \/ LockOrGiveUp \/ WriteOwner \/ StartFails
          \/ StartSucceeds \/ Finish \/ Unlock \/ Close \/ WorkerDeleted
    <3>1. UNCHANGED <<count, zip, mtime, seen>>
      BY <2>2, Zenon DEF ToggleStart, At, ToggleStop, Enter, LockOrGiveUp, Taken, GiveUp,
         WriteOwner, StartFails, StartSucceeds, Finish, Unlock, Close, WorkerDeleted
    <3> QED
      BY <3>1, Zenon DEF TimeInv
  <2> QED
    BY <1>2, <2>1, <2>2, Zenon DEF Worker
<1>3. ASSUME NEW t \in Readers, Reader(t), ~Files(t) PROVE TimeInv'
  BY <1>3, ReaderFrame, Zenon DEF TimeInv
<1>4. CASE Crash
  BY <1>4, Zenon DEF Crash, ProcessGone, TimeInv
<1>5. CASE PowerLoss
  BY <1>5, Zenon DEF PowerLoss, ProcessGone, TimeInv
<1>6. CASE Mount
  BY <1>6, Zenon DEF Mount, TimeInv
<1> QED
  BY <1>1, <1>2, <1>3, <1>4, <1>5, <1>6, Zenon DEF Next, Threads

(* A report in the persistent root that is not synced is on a mounted file   *)
(* system.                                                                   *)
LEMMA LooseKeeps ==
  ASSUME TypeOK, LooseInv, Next
  PROVE  LooseInv'
<1> USE DEF files, session, manual, threads, bounds
<1>1. ASSUME NEW t \in Threads, Files(t) PROVE LooseInv'
  <2>1. CASE Rename(t)
    BY <2>1, Zenon DEF Rename, AfterPackage, Afterwards, Readable, TypeOK, FilesOK, LooseInv
  <2>2. CASE Sync(t)
    BY <2>2, Zenon DEF Sync, Synced, LooseInv, TypeOK, FilesOK
  <2>3. CASE Delete(t)
    BY <2>3, Zenon DEF Delete, TypeOK, FilesOK, LooseInv
  <2>4. CASE RecoverOne(t) \/ Archive(t) \/ Date(t) \/ Remove(t)
          \/ (\E root \in Roots : Prune(t, root)) \/ List(t) \/ Choose(t)
    <3>1. UNCHANGED <<zip, mounted>>
      BY <2>4, Zenon DEF RecoverOne, Archive, AfterPackage, Afterwards, Date, At, StartTime,
         Remove, Prune, List, Undated, Choose
    <3> QED
      BY <3>1, Zenon DEF LooseInv
  <2> QED
    BY <1>1, <2>1, <2>2, <2>3, <2>4, Zenon DEF Files
<1>2. ASSUME Worker, ~Files("worker") PROVE LooseInv'
  <2>1. UNCHANGED <<zip, mounted>>
    BY <1>2, WorkerFrame, Zenon
  <2> QED
    BY <2>1, Zenon DEF LooseInv
<1>3. ASSUME NEW t \in Readers, Reader(t), ~Files(t) PROVE LooseInv'
  <2>1. UNCHANGED <<zip, mounted>>
    BY <1>3, ReaderFrame, Zenon
  <2> QED
    BY <2>1, Zenon DEF LooseInv
<1>4. CASE Crash
  BY <1>4, Zenon DEF Crash, LooseInv
<1>5. CASE PowerLoss
  BY <1>5, Zenon DEF PowerLoss, LooseInv
<1>6. CASE Mount
  BY <1>6, Zenon DEF Mount, LooseInv
<1> QED
  BY <1>1, <1>2, <1>3, <1>4, <1>5, <1>6, Zenon DEF Next, Threads

(* Nobody packs, lists as a report or chooses for deletion the recording in  *)
(* progress.                                                                 *)
LEMMA LiveKeeps ==
  ASSUME TypeOK, LockInv, WorkerInv, CountInv, TimeInv, LiveInv, Next
  PROVE  LiveInv'
<1> USE DEF files, session, manual, threads, bounds
<1>1. ASSUME NEW t \in Threads, Files(t) PROVE LiveInv'
  <2>1. CASE RecoverOne(t)
    <3>1. Recovering(t)
      BY <2>1, RecoverStep, Zenon
    <3>2. InProgress' => InProgress /\ pc'["worker"] = pc["worker"]
      BY <3>1, Zenon DEF Recovering, InProgress, WorkerInv, SwitchInv, TypeOK, ManualOK, Packing,
         Threads
    <3> QED
      BY <3>1, <3>2, Zenon DEF Recovering, LiveInv
  <2>2. CASE Archive(t)
    BY <2>2, Zenon DEF Archive, AfterPackage, Afterwards, TypeOK, ManualOK, PointsOK, WorkerInv,
       SwitchInv, LiveInv, InProgress, Threads
  <2>3. CASE Rename(t)
    <3>1. Packaging(t) /\ UNCHANGED raw /\ pc[t] = "rename"
      BY <2>3, PackageStep, Zenon DEF Rename
    <3>2. InProgress => t = "worker" /\ status = "saving"
      BY <3>1, Alone, Zenon DEF Packing
    <3>3. InProgress' => InProgress /\ pc'[t] # "date"
      BY <3>1, <3>2, Zenon DEF Packaging, InProgress, Threads
    <3>4. pc'[t] # "date" => zip' = zip
      BY <2>3, Zenon DEF Rename, TypeOK, PointsOK
    <3> QED
      BY <3>1, <3>2, <3>3, <3>4, Zenon DEF LiveInv, Packaging
  <2>4. CASE Date(t)
    BY <2>4, Zenon DEF Date, At, LiveInv, InProgress, TypeOK, PointsOK, Threads
  <2>5. CASE Sync(t)
    BY <2>5, WorkerIsThread, Zenon DEF Sync, At, Synced, LiveInv, InProgress, TypeOK, PointsOK,
       FilesOK
  <2>6. CASE Remove(t)
    <3>1. Packaging(t) /\ pc[t] = "remove"
      BY <2>6, PackageStep, Zenon DEF Remove
    <3>2. ~InProgress
      BY <3>1, Alone, Zenon DEF Packing
    <3>3. ~InProgress'
      BY <3>1, <3>2, Zenon DEF Packaging, InProgress, Threads
    <3> QED
      BY <3>3, Zenon DEF LiveInv
  <2>7. CASE \E root \in Roots : Prune(t, root)
    <3>1. PICK root \in Roots : Prune(t, root)
      BY <2>7, Zenon
    <3>2. SUFFICES ASSUME InProgress' PROVE LiveInv'
      BY Zenon DEF LiveInv
    <3>3. t # "worker" /\ pc'["worker"] = pc["worker"]
      BY <3>1, <3>2, WorkerIsThread, Zenon DEF Prune, InProgress, WorkerInv, SwitchInv, TypeOK,
         ManualOK, PointsOK
    <3>4. InProgress /\ live' = live
      BY <3>1, <3>2, WorkerIsThread, Zenon DEF Prune, InProgress, TypeOK, PointsOK
    <3>5. root = "saved"
      BY <3>1, <3>3, <3>4, Alone, Zenon DEF Prune, Roots
    <3>6. ASSUME NEW e \in Beyond(Listed("saved"), 2) PROVE e[2] # live
      BY <3>4, BeyondListed, ListedReports DEF LiveInv
    <3> QED
      BY <3>1, <3>4, <3>5, <3>6, WorkerIsThread, Zenon DEF Prune, LiveInv, TypeOK, PointsOK,
         ListsOK
  <2>8. CASE List(t)
    <3>1. InProgress' => InProgress /\ UNCHANGED <<live, raw, zip, victims>>
      BY <2>8, Moved, WorkerIsThread, ReaderIsThread, Zenon DEF List, InProgress
    <3>2. InProgress => \A x \in Listed("saved") : x[1][2] # live
      BY ListedReports, Zenon DEF LiveInv
    <3>3. \A u \in Threads : seen'[u] = IF u = t THEN Listed("saved") ELSE seen[u]
      BY <2>8, Zenon DEF List, TypeOK, ListsOK
    <3>4. pc'["worker"] = "own" <=> pc["worker"] = "own"
      BY <2>8, Moved, WorkerIsThread, Zenon DEF List
    <3> QED
      BY <3>1, <3>2, <3>3, <3>4, Zenon DEF LiveInv
  <2>9. CASE Choose(t)
    <3>1. InProgress' => InProgress /\ UNCHANGED <<live, raw, zip>>
      BY <2>9, Moved, WorkerIsThread, ReaderIsThread, Zenon DEF Choose, InProgress
    <3>2. \A u \in Threads : seen'[u] = IF u = t THEN {} ELSE seen[u]
      BY <2>9, Zenon DEF Choose, TypeOK, ListsOK
    <3>3. pc'["worker"] = "own" <=> pc["worker"] = "own"
      BY <2>9, Moved, WorkerIsThread, Zenon DEF Choose
    <3>4. \A u \in Threads : u # t => victims'[u] = victims[u]
      BY <2>9, Zenon DEF Choose, TypeOK, ListsOK
    <3>5. ASSUME InProgress', NEW e \in victims'[t] PROVE e[2] # live
      BY <2>9, <3>1, <3>5, ChosenIsNotLive, Zenon
    <3> QED
      BY <3>1, <3>2, <3>3, <3>4, <3>5, Zenon DEF LiveInv
  <2>10. CASE Delete(t)
    <3>1. PICK e \in victims[t] :
            /\ victims' = [victims EXCEPT ![t] = @ \ {e}]
            /\ \A k \in Archives : k # e => zip'[k] = zip[k]
            /\ \A i \in Ids : i # e[2] => raw'[i] = raw[i]
            /\ UNCHANGED <<live, status, pc, seen>>
            /\ \A k \in Archives : zip[k] = "no" => zip'[k] = "no"
      BY <2>10, Zenon DEF Delete, RemoveRaw, TypeOK, FilesOK
    <3>2. InProgress' => InProgress
      BY <3>1, Zenon DEF InProgress
    <3>3. InProgress => e[2] # live /\ live \in Ids
      BY Alone, Zenon DEF LiveInv
    <3> QED
      BY <3>1, <3>2, <3>3, Zenon DEF LiveInv, TypeOK, ListsOK
  <2> QED
    BY <1>1, <2>1, <2>2, <2>3, <2>4, <2>5, <2>6, <2>7, <2>8, <2>9, <2>10, Zenon DEF Files
<1>2. ASSUME Worker, ~Files("worker") PROVE LiveInv'
  <2>1. CASE ToggleStart
    BY <2>1, Zenon DEF ToggleStart, At, LiveInv, InProgress, TypeOK, PointsOK
  <2>2. CASE ToggleStop
    BY <2>2, Zenon DEF ToggleStop, At, LiveInv, InProgress
  <2>3. CASE Enter
    BY <2>3, Zenon DEF Enter, At, LiveInv, InProgress, TypeOK, PointsOK
  <2>4. CASE LockOrGiveUp
    BY <2>4, Zenon DEF LockOrGiveUp, GiveUp, TypeOK, PointsOK, LiveInv, InProgress
  <2>5. CASE MakeDirectory
    <3>1. count \in Nat /\ count + 1 \in Ids
      BY <2>5, NextNumber, Zenon DEF MakeDirectory, At
    <3>2. /\ live' = count + 1 /\ raw'[count + 1] = "bare" /\ pc'["worker"] = "own"
          /\ UNCHANGED <<zip, seen, victims>>
      BY <2>5, <3>1, Zenon DEF MakeDirectory, At, TypeOK, FilesOK, PointsOK, Threads
    <3> QED
      BY <3>1, <3>2, NothingYet, Zenon DEF LiveInv
  <2>6. CASE WriteOwner
    <3>1. InProgress /\ live \in Ids
      BY <2>6, Alone, Zenon DEF WriteOwner, At, InProgress, WorkerInv, SwitchInv, TypeOK,
         ManualOK, Packing
    <3>2. raw'[live] = "owned" /\ pc'["worker"] = "list" /\ UNCHANGED <<zip, seen, victims, live>>
      BY <2>6, <3>1, Zenon DEF WriteOwner, At, TypeOK, FilesOK, PointsOK, Threads
    <3> QED
      BY <3>1, <3>2, Zenon DEF LiveInv
  <2>7. CASE StartFails
    BY <2>7, Zenon DEF StartFails, GiveUp, LiveInv, InProgress
  <2>8. CASE StartSucceeds
    <3>1. InProgress /\ pc["worker"] = "up"
      BY <2>8, Zenon DEF StartSucceeds, At, InProgress, WorkerInv, SwitchInv, TypeOK, ManualOK,
         Packing
    <3>2. pc'["worker"] = "idle" /\ UNCHANGED <<zip, raw, seen, victims, live>>
      BY <2>8, Zenon DEF StartSucceeds, At, TypeOK, PointsOK, Threads
    <3> QED
      BY <3>1, <3>2, Zenon DEF LiveInv
  <2>9. CASE Finish
    BY <2>9, Zenon DEF Finish, At, LiveInv, InProgress, TypeOK, PointsOK
  <2>10. CASE Unlock
    BY <2>10, Zenon DEF Unlock, At, LiveInv, InProgress, TypeOK, PointsOK
  <2>11. CASE Close
    BY <2>11, Zenon DEF Close, LiveInv, InProgress
  <2>12. CASE WorkerDeleted
    BY <2>12, Zenon DEF WorkerDeleted, At, LiveInv, InProgress, TypeOK, PointsOK
  <2> QED
    BY <1>2, <2>1, <2>2, <2>3, <2>4, <2>5, <2>6, <2>7, <2>8, <2>9, <2>10, <2>11, <2>12, Zenon DEF
       Worker
<1>3. ASSUME NEW t \in Readers, Reader(t), ~Files(t) PROVE LiveInv'
  <2>1. CASE Report(t)
    BY <2>1, Zenon DEF Report, At, LiveInv, InProgress, TypeOK, PointsOK, Threads
  <2>2. CASE EnterSaved(t)
    BY <2>2, Zenon DEF EnterSaved, TypeOK, PointsOK, LiveInv, InProgress, Threads
  <2>3. CASE EnterWork(t)
    BY <2>3, Zenon DEF EnterWork, TypeOK, PointsOK, LiveInv, InProgress, Threads
  <2>4. CASE ReaderDeleted(t)
    BY <2>4, Zenon DEF ReaderDeleted, At, LiveInv, InProgress, TypeOK, PointsOK, Threads
  <2>5. CASE Check(t)
    BY <2>5, Zenon DEF Check, At, LiveInv, InProgress, TypeOK, PointsOK, Threads
  <2> QED
    BY <1>3, <2>1, <2>2, <2>3, <2>4, <2>5, Zenon DEF Reader
<1>4. CASE Crash
  BY <1>4, Zenon DEF Crash, ProcessGone, LiveInv, InProgress
<1>5. CASE PowerLoss
  BY <1>5, Zenon DEF PowerLoss, ProcessGone, LiveInv, InProgress
<1>6. CASE Mount
  BY <1>6, Zenon DEF Mount, LiveInv, InProgress
<1> QED
  BY <1>1, <1>2, <1>3, <1>4, <1>5, <1>6, Zenon DEF Next, Threads

(* A report carries the time of its recording once utimensat was called,     *)
(* unless misdated.                                                          *)
LEMMA DateKeeps ==
  ASSUME TypeOK, LockInv, WorkerInv, CountInv, DateInv, Next
  PROVE  DateInv'
<1> USE DEF files, session, manual, threads, bounds
<1>1. ASSUME NEW t \in Threads, Files(t) PROVE DateInv'
  <2>1. CASE RecoverOne(t)
    <3>1. Recovering(t)
      BY <2>1, RecoverStep, Zenon
    <3> QED
      BY <3>1 DEF Recovering, DateInv
  <2>2. CASE Archive(t)
    BY <2>2 DEF Archive, AfterPackage, Afterwards, TypeOK, PointsOK, WorkOK, DateInv
  <2>3. CASE Rename(t)
    BY <2>3 DEF Rename, AfterPackage, Afterwards, TypeOK, FilesOK, PointsOK, WorkOK, DateInv
  <2>4. CASE Date(t)
    <3>1. job[t] \in Archives
      BY <2>4, InPackage, Zenon DEF Date, At, Packing, Packs
    <3>2. StartTime(job[t][2]) = 2 * job[t][2]
      BY <3>1, ArchiveParts, Zenon DEF StartTime, CountInv, StartsInv, TodoInv
    <3>3. /\ zip' = zip /\ seen' = seen /\ job' = job
          /\ \A u \in Threads : u # t => pc'[u] = pc[u]
      BY <2>4, Moved, Zenon DEF Date
    <3>4. ~misdated' => ~misdated /\ (zip[job[t]] # "no" => mtime' = [mtime EXCEPT ![job[t]] = 2 * job[t][2]])
      BY <2>4, <3>2, Zenon DEF Date
    <3>5. ~misdated' => zip[job[t]] # "no"
      BY <2>4, Zenon DEF Date
    <3> QED
      BY <3>3, <3>4, <3>5 DEF DateInv, TypeOK, FilesOK
  <2>5. CASE Sync(t)
    BY <2>5 DEF Sync, At, Synced, DateInv
  <2>6. CASE Remove(t)
    BY <2>6, Zenon DEF Remove, AfterPackage, DateInv, TypeOK, PointsOK, WorkOK
  <2>7. CASE \E root \in Roots : Prune(t, root)
    <3>1. At(t, "recover", "delete") /\ UNCHANGED <<misdated, zip, mtime, job, seen>>
      BY <2>7, Pruning, Zenon
    <3>2. pc'[t] = "delete" /\ \A u \in Threads : u # t => pc'[u] = pc[u]
      BY <3>1, Moved, Zenon
    <3>3. \A u \in Threads : pc[u] = "date" => pc'[u] = "date"
      BY <3>1, <3>2, Zenon DEF At
    <3> QED
      BY <3>1, <3>3, Zenon DEF DateInv
  <2>8. CASE List(t)
    <3>1. \A u \in Threads : seen'[u] = IF u = t THEN Listed("saved") ELSE seen[u]
      BY <2>8, Zenon DEF List, TypeOK, ListsOK
    <3>2. ~misdated' => ~misdated /\ ~Undated
      BY <2>8, Zenon DEF List
    <3>3. UNCHANGED <<zip, mtime, job>> /\ \A u \in Threads : pc[u] = "date" => pc'[u] = "date"
      BY <2>8, Moved, Zenon DEF List
    <3>4. ~misdated /\ ~Undated => \A x \in Listed("saved") : x[2] = 2 * x[1][2]
      BY ListedParts, ItemParts DEF DateInv, Undated, Time, Roots
    <3> QED
      BY <3>1, <3>2, <3>3, <3>4, Zenon DEF DateInv
  <2>9. CASE Choose(t)
    BY <2>9, Zenon DEF Choose, Undated, TypeOK, ListsOK, DateInv
  <2>10. CASE Delete(t)
    BY <2>10 DEF Delete, TypeOK, FilesOK, DateInv
  <2> QED
    BY <1>1, <2>1, <2>2, <2>3, <2>4, <2>5, <2>6, <2>7, <2>8, <2>9, <2>10, Zenon DEF Files
<1>2. ASSUME Worker, ~Files("worker") PROVE DateInv'
  <2>1. CASE ToggleStart
    BY <2>1, Zenon DEF ToggleStart, At, DateInv, TypeOK, PointsOK
  <2>2. CASE ToggleStop
    BY <2>2, Zenon DEF ToggleStop, At, DateInv, TypeOK, PointsOK
  <2>3. CASE Enter
    BY <2>3, Zenon DEF Enter, At, DateInv, TypeOK, PointsOK
  <2>4. CASE LockOrGiveUp
    BY <2>4 DEF LockOrGiveUp, GiveUp, TypeOK, PointsOK, DateInv
  <2>5. CASE MakeDirectory
    BY <2>5, Zenon DEF MakeDirectory, At, DateInv, TypeOK, PointsOK
  <2>6. CASE WriteOwner
    BY <2>6, Zenon DEF WriteOwner, At, DateInv, TypeOK, PointsOK
  <2>7. CASE StartFails
    BY <2>7, Zenon DEF StartFails, GiveUp, DateInv, TypeOK, PointsOK
  <2>8. CASE StartSucceeds
    BY <2>8, Zenon DEF StartSucceeds, At, DateInv, TypeOK, PointsOK
  <2>9. CASE Finish
    BY <2>9 DEF Finish, At, DateInv
  <2>10. CASE Unlock
    BY <2>10, Zenon DEF Unlock, At, DateInv, TypeOK, PointsOK
  <2>11. CASE Close
    BY <2>11, Zenon DEF Close, At, DateInv, TypeOK, PointsOK, WorkOK
  <2>12. CASE WorkerDeleted
    BY <2>12, Zenon DEF WorkerDeleted, At, DateInv, TypeOK, PointsOK
  <2> QED
    BY <1>2, <2>1, <2>2, <2>3, <2>4, <2>5, <2>6, <2>7, <2>8, <2>9, <2>10, <2>11, <2>12, Zenon DEF
       Worker
<1>3. ASSUME NEW t \in Readers, Reader(t), ~Files(t) PROVE DateInv'
  <2>1. CASE Report(t)
    BY <2>1, Zenon DEF Report, At, DateInv, TypeOK, PointsOK
  <2>2. CASE EnterSaved(t)
    BY <2>2 DEF EnterSaved, TypeOK, PointsOK, DateInv
  <2>3. CASE EnterWork(t)
    BY <2>3 DEF EnterWork, TypeOK, PointsOK, DateInv
  <2>4. CASE ReaderDeleted(t)
    BY <2>4, Zenon DEF ReaderDeleted, At, DateInv, TypeOK, PointsOK
  <2>5. CASE Check(t)
    BY <2>5, Zenon DEF Check, At, DateInv, TypeOK, PointsOK
  <2> QED
    BY <1>3, <2>1, <2>2, <2>3, <2>4, <2>5, Zenon DEF Reader
<1>4. CASE Crash
  BY <1>4, Zenon DEF Crash, ProcessGone, Undated, DateInv
<1>5. CASE PowerLoss
  <2>1. ~misdated' => ~misdated /\ ~Undated
    BY <1>5, Zenon DEF PowerLoss, ProcessGone
  <2>2. mtime' = mtime /\ \A t \in Threads : seen'[t] = {}
    BY <1>5, Zenon DEF PowerLoss, ProcessGone
  <2>3. \A k \in Archives : zip'[k] # "no" => zip[k] # "no"
    BY <1>5, Zenon DEF PowerLoss
  <2> QED
    BY <2>1, <2>2, <2>3, Zenon DEF DateInv, Undated
<1>6. CASE Mount
  BY <1>6, Zenon DEF Mount, DateInv
<1> QED
  BY <1>1, <1>2, <1>3, <1>4, <1>5, <1>6, Zenon DEF Next, Threads

(* Prune and PruneAll spare the last recording: its directory and complete   *)
(* report always, a recovered report while it is the only one.               *)
LEMMA VictimsKeep ==
  ASSUME TypeOK, LockInv, WorkerInv, CountInv, TimeInv, LiveInv, DateInv, VictimInv, Next
  PROVE  VictimInv'
<1> USE DEF files, session, manual, threads, bounds
<1>1. ASSUME NEW t \in Threads, Files(t) PROVE VictimInv'
  <2>1. CASE Rename(t)
    <3>1. Packs(t) /\ pc[t] = "rename"
      BY <2>1, InPackage, Zenon DEF Rename, Packing
    <3>2. UNCHANGED <<count, misdated, seen, victims>>
      BY <2>1, Zenon DEF Rename
    <3>3. CASE zip' = zip
      BY <3>2, <3>3, Zenon DEF VictimInv, OneComplete, CompleteAt, Complete, Recovered, Spared
    <3>4. CASE zip' = [zip EXCEPT ![job[t]] = "loose"]
      <4>1. \A k \in Archives : (zip[k] # "no" => zip'[k] # "no") /\ (k # job[t] => zip'[k] = zip[k])
        BY <3>4, Zenon DEF TypeOK, FilesOK
      <4>2. (Complete => Complete') /\ (Recovered => Recovered')
        BY <3>2, <4>1, Zenon DEF Complete, CompleteAt, Recovered
      <4>3. job[t][3] = "_SUCCESS" => \A k \in Archives : ~CompleteAt(k)
        <5>1. SUFFICES ASSUME job[t][3] = "_SUCCESS" PROVE \A k \in Archives : ~CompleteAt(k)
          OBVIOUS
        <5>2. InProgress
          BY <3>1, <5>1, Zenon DEF Packs, InProgress, WorkerInv, SwitchInv
        <5> QED
          BY <5>2, Alone, Zenon DEF LiveInv, CompleteAt
      <4>4. OneComplete'
        BY <3>2, <4>1, <4>3, Zenon DEF VictimInv, OneComplete, CompleteAt
      <4> QED
        BY <3>2, <4>1, <4>2, <4>4, Zenon DEF VictimInv, Spared, CountInv, SeenInv
    <3> QED
      BY <2>1, <3>3, <3>4, Zenon DEF Rename
  <2>2. CASE Date(t)
    BY <2>2, Zenon DEF Date, VictimInv, OneComplete, CompleteAt, Complete, Recovered, Spared
  <2>3. CASE Sync(t)
    BY <2>3 DEF Sync, Synced, VictimInv, OneComplete, CompleteAt, Complete, Recovered, Spared
  <2>4. CASE \E root \in Roots : Prune(t, root)
    <3>1. PICK root \in Roots : Prune(t, root)
      BY <2>4, Zenon
    <3>2. /\ UNCHANGED <<count, misdated, seen, zip>> /\ victims'[t] = Beyond(Listed(root), 2)
          /\ \A u \in Threads : u # t => victims'[u] = victims[u]
      BY <3>1, Zenon DEF Prune, TypeOK, ListsOK
    <3>3. ASSUME ~misdated, NEW e \in Beyond(Listed(root), 2) PROVE Spared(e)
      <4>1. CASE root = "saved"
        BY <3>3, <4>1, PrunedIsSpared, Zenon
      <4>2. CASE root = "work"
        <5>1. ~Undated
          BY <3>1, <4>2, Zenon DEF Prune, Undated, LockInv, PackInv, Packing
        <5> QED
          BY <3>3, <4>2, <5>1, ChosenIsSpared, Zenon
      <4> QED
        BY <4>1, <4>2, Zenon DEF Roots
    <3>4. ASSUME NEW e, Spared(e) PROVE Spared(e)'
      BY <3>2, <3>4, Zenon DEF Spared, Complete, CompleteAt, Recovered
    <3>5. OneComplete' /\ (Complete' <=> Complete)
      BY <3>2, Zenon DEF VictimInv, OneComplete, CompleteAt, Complete
    <3> QED
      BY <3>2, <3>3, <3>4, <3>5, Zenon DEF VictimInv
  <2>5. CASE List(t)
    <3>1. \A u \in Threads : seen'[u] = IF u = t THEN Listed("saved") ELSE seen[u]
      BY <2>5, Zenon DEF List, TypeOK, ListsOK
    <3>2. UNCHANGED <<count, zip, victims>> /\ (~misdated' => ~misdated)
      BY <2>5, Zenon DEF List
    <3>3. \A x \in Listed("saved") : zip[x[1]] # "no"
      BY ListedReports, Zenon
    <3>4. OneComplete' /\ (Complete' <=> Complete) /\ \A e : Spared(e) => Spared(e)'
      BY <3>2, Zenon DEF VictimInv, OneComplete, CompleteAt, Complete, Recovered, Spared
    <3> QED
      BY <3>1, <3>2, <3>3, <3>4, Zenon DEF VictimInv
  <2>6. CASE Choose(t)
    <3>1. /\ \A u \in Threads : u # t => victims'[u] = victims[u] /\ seen'[u] = seen[u]
          /\ seen'[t] = {} /\ UNCHANGED <<count, zip>> /\ (~misdated' => ~misdated /\ ~Undated)
      BY <2>6, Zenon DEF Choose, TypeOK, ListsOK
    <3>2. ASSUME ~misdated', NEW e \in victims'[t] PROVE Spared(e)
      <4>1. CASE Protects(t)
        <5>1. InProgress /\ live = count
          BY <2>6, <4>1, Zenon DEF Protects, Choose, At, InProgress, WorkerInv, SwitchInv,
             Packing
        <5> QED
          BY <2>6, <5>1, ChosenIsNotLive, Zenon DEF Spared
      <4>2. CASE ~Protects(t)
        <5>1. PICK S \in SUBSET (seen[t] \cup Listed("work")) : e \in Beyond(S, 2)
          BY <2>6, <4>2, Zenon DEF Choose, TypeOK, ListsOK
        <5> QED
          BY <3>1, <3>2, <5>1, ChosenIsSpared, Zenon
      <4> QED
        BY <4>1, <4>2, Zenon
    <3>3. OneComplete' /\ (Complete' <=> Complete) /\ \A e : Spared(e) => Spared(e)'
      BY <3>1, Zenon DEF VictimInv, OneComplete, CompleteAt, Complete, Recovered, Spared
    <3> QED
      BY <3>1, <3>2, <3>3, Zenon DEF VictimInv
  <2>7. CASE Delete(t)
    <3>1. PICK e \in victims[t] :
            /\ victims' = [victims EXCEPT ![t] = @ \ {e}]
            /\ \A k \in Archives : k # e => zip'[k] = zip[k]
            /\ \A k \in Archives : zip[k] = "no" => zip'[k] = "no"
            /\ UNCHANGED <<count, misdated, seen>>
      BY <2>7, Zenon DEF Delete, TypeOK, FilesOK
    <3>2. OneComplete'
      BY <3>1, Zenon DEF VictimInv, OneComplete, CompleteAt
    <3>3. SUFFICES ASSUME ~misdated PROVE VictimInv'
      BY <3>1, <3>2, Zenon DEF VictimInv
    <3>4. Spared(e)
      BY <3>3, Zenon DEF VictimInv
    <3>5. Complete' <=> Complete
      BY <3>1, <3>4, Zenon DEF Complete, CompleteAt, Spared
    <3>6. Complete \/ Recovered => Complete' \/ Recovered'
      BY <3>1, <3>4, <3>5, Zenon DEF Recovered, Spared
    <3>7. \A f : Spared(f) => Spared(f)'
      BY <3>1, <3>5, <3>6, Zenon DEF Spared
    <3>8. \A u \in Threads : victims'[u] \subseteq victims[u]
      BY <3>1, Zenon DEF TypeOK, ListsOK
    <3> QED
      <4>1. \A u \in Threads : \A f \in victims'[u] : Spared(f)'
        BY <3>3, <3>7, <3>8, Zenon DEF VictimInv
      <4>2. ASSUME NEW u \in Threads, NEW x \in seen'[u], x[1][2] = count'
            PROVE  (zip[x[1]] # "no")' \/ (x[1][3] = "_INCOMPLETE" /\ Complete')
        <5>1. x[1] \in Archives /\ x[1][1] = "saved" /\ x[1][2] = count
          BY <3>1, <4>2, Zenon DEF CountInv, SeenInv
        <5>2. zip[x[1]] # "no" \/ (x[1][3] = "_INCOMPLETE" /\ Complete)
          BY <3>1, <3>3, <4>2, Zenon DEF VictimInv
        <5> QED
          BY <3>1, <3>4, <3>5, <5>1, <5>2, Zenon DEF Spared
      <4> QED
        BY <3>2, <4>1, <4>2, Zenon DEF VictimInv
  <2>8. CASE RecoverOne(t) \/ Archive(t) \/ Remove(t)
    <3>1. UNCHANGED <<count, zip, misdated, victims, seen>>
      BY <2>8, Zenon DEF RecoverOne, Archive, AfterPackage, Afterwards, Readable, Remove
    <3> QED
      BY <3>1, Zenon DEF VictimInv, OneComplete, CompleteAt, Complete, Recovered, Spared
  <2> QED
    BY <1>1, <2>1, <2>2, <2>3, <2>4, <2>5, <2>6, <2>7, <2>8, Zenon DEF Files
<1>2. ASSUME Worker, ~Files("worker") PROVE VictimInv'
  <2>1. CASE MakeDirectory
    <3>1. count \in Nat /\ count' = count + 1 /\ UNCHANGED <<zip, seen, victims, misdated>>
      BY <2>1, NextNumber, Zenon DEF MakeDirectory, At
    <3>2. \A k \in Archives : k[2] = count + 1 => zip[k] = "no"
      BY <3>1, NothingYet, Zenon
    <3>3. \A u \in Threads : (\A x \in seen[u] : x[1][2] # count + 1) /\ (\A e \in victims[u] : e[2] # count + 1)
      BY <3>1, NothingYet, Zenon
    <3> QED
      BY <3>1, <3>2, <3>3, Zenon DEF VictimInv, OneComplete, CompleteAt, Spared
  <2>2. CASE ToggleStart \/ ToggleStop \/ Enter \/ LockOrGiveUp \/ WriteOwner \/ StartFails
          \/ StartSucceeds \/ Finish \/ Unlock \/ Close \/ WorkerDeleted
    <3>1. UNCHANGED <<count, zip, misdated, victims, seen>>
      BY <2>2, Zenon DEF ToggleStart, ToggleStop, Enter, LockOrGiveUp, GiveUp, WriteOwner,
         StartFails, StartSucceeds, Finish, Unlock, Close, WorkerDeleted
    <3> QED
      BY <3>1, Zenon DEF VictimInv, OneComplete, CompleteAt, Complete, Recovered, Spared
  <2> QED
    BY <1>2, <2>1, <2>2, Zenon DEF Worker
<1>3. ASSUME NEW t \in Readers, Reader(t), ~Files(t) PROVE VictimInv'
  <2>1. UNCHANGED <<count, zip, misdated, victims, seen>>
    BY <1>3, ReaderFrame, Zenon
  <2> QED
    BY <2>1, Zenon DEF VictimInv, OneComplete, CompleteAt, Complete, Recovered, Spared
<1>4. CASE Crash
  BY <1>4, Zenon DEF Crash, ProcessGone, VictimInv, OneComplete, CompleteAt
<1>5. CASE PowerLoss
  <2>1. /\ \A u \in Threads : seen'[u] = {} /\ victims'[u] = {}
        /\ count' = count /\ \A k \in Archives : zip[k] = "no" => zip'[k] = "no"
    BY <1>5, Zenon DEF PowerLoss, ProcessGone
  <2> QED
    BY <2>1, Zenon DEF VictimInv, OneComplete, CompleteAt
<1>6. CASE Mount
  <2>1. UNCHANGED <<count, misdated, seen, victims>> /\ \A k \in Archives : zip'[k] # "no" <=> zip[k] # "no"
    BY <1>6, Zenon DEF Mount
  <2>2. OneComplete' /\ (Complete' <=> Complete) /\ (Recovered' <=> Recovered)
    BY <2>1, Zenon DEF VictimInv, OneComplete, CompleteAt, Complete, Recovered
  <2> QED
    BY <2>1, <2>2, Zenon DEF VictimInv, Spared, CountInv, SeenInv
<1> QED
  BY <1>1, <1>2, <1>3, <1>4, <1>5, <1>6, Zenon DEF Next, Threads

(* The last recording stays a directory or a report through Package, Recover *)
(* and pruning.                                                              *)
LEMMA NewestKeeps ==
  ASSUME TypeOK, LockInv, WorkerInv, CountInv, LiveInv, VictimInv, NewestInv, Next
  PROVE  NewestInv'
<1> USE DEF files, session, manual, threads, bounds
<1>1. ASSUME NEW t \in Threads, Files(t) PROVE NewestInv'
  <2>1. CASE RecoverOne(t)
    <3>1. Recovering(t)
      BY <2>1, RecoverStep, Zenon
    <3> QED
      BY <3>1, Zenon DEF Recovering, NewestInv, Reported
  <2>2. CASE Archive(t)
    <3>1. Packaging(t) /\ pc[t] = "archive" /\ UNCHANGED <<raw, zip>>
      BY <2>2, PackageStep, Zenon DEF Archive
    <3>2. pc'[t] \in {"rename", "recover", "list", "archive"}
      BY <3>1, Zenon DEF Packaging, Rename
    <3> QED
      BY <3>1, <3>2, Zenon DEF Packaging, NewestInv, Reported
  <2>3. CASE Rename(t)
    <3>1. Packaging(t) /\ pc[t] = "rename" /\ raw' = raw
      BY <2>3, PackageStep, Zenon DEF Rename
    <3>2. Packs(t)
      BY <3>1, InPackage, Zenon DEF Packing
    <3>3. \A k \in Archives : zip[k] # "no" => zip'[k] # "no"
      BY <2>3, Zenon DEF Rename, TypeOK, FilesOK
    <3>4. pc'[t] = "date" => zip'[job[t]] # "no" /\ job' = job
      BY <3>1, <3>2, Zenon DEF Packaging, Packs, TypeOK, FilesOK
    <3>5. Reported => Reported'
      BY <3>1, <3>3, Zenon DEF Packaging, Reported
    <3>6. pc'[t] = "date" /\ job[t][2] = count => Reported'
      BY <3>1, <3>2, <3>4, Zenon DEF Packs, Packaging, Reported
    <3>7. pc'[t] \in {"date", "recover", "list", "archive"}
      BY <3>1, Zenon DEF Packaging
    <3> QED
      BY <3>1, <3>5, <3>6, Zenon DEF Packaging, NewestInv
  <2>4. CASE Date(t)
    BY <2>4, Moved, Zenon DEF Date, NewestInv, Reported
  <2>5. CASE Sync(t)
    BY <2>5 DEF Sync, At, Synced, NewestInv, Reported
  <2>6. CASE Remove(t)
    <3>1. Packaging(t) /\ pc[t] = "remove" /\ zip' = zip
      BY <2>6, PackageStep, Zenon DEF Remove
    <3>2. \A i \in Ids : i # job[t][2] => raw'[i] = raw[i]
      BY <2>6, Zenon DEF Remove, RemoveRaw, TypeOK, FilesOK
    <3>3. pc'[t] \in {"recover", "list"}
      BY <3>1, Zenon DEF Packaging, Rename
    <3>4. Reported' <=> Reported
      BY <3>1, Zenon DEF Packaging, Reported
    <3>5. newest # 0 => newest \in Ids
      BY DEF TypeOK, ManualOK, Ids
    <3> QED
      BY <3>1, <3>2, <3>4, <3>5, Zenon DEF Packaging, NewestInv
  <2>7. CASE \E root \in Roots : Prune(t, root)
    <3>1. At(t, "recover", "delete") /\ UNCHANGED <<newest, count, misdated, raw, zip, job>>
      BY <2>7, Pruning, Zenon
    <3>2. pc'[t] = "delete" /\ \A u \in Threads : u # t => pc'[u] = pc[u]
      BY <3>1, Moved, Zenon
    <3> QED
      BY <3>1, <3>2, Zenon DEF At, NewestInv, Reported
  <2>8. CASE List(t)
    BY <2>8, Zenon DEF List, At, TypeOK, PointsOK, NewestInv, Reported
  <2>9. CASE Choose(t)
    BY <2>9, Zenon DEF Choose, At, TypeOK, PointsOK, NewestInv, Reported
  <2>10. CASE Delete(t)
    <3>1. PICK e \in victims[t] :
            /\ \A k \in Archives : k # e => zip'[k] = zip[k]
            /\ \A i \in Ids : e[3] # "raw" \/ i # e[2] => raw'[i] = raw[i]
            /\ UNCHANGED <<newest, count, misdated, pc, job>>
      BY <2>10, Zenon DEF Delete, RemoveRaw, TypeOK, FilesOK
    <3>2. SUFFICES ASSUME newest # 0, ~misdated PROVE NewestInv'
      BY <3>1, Zenon DEF NewestInv
    <3>3. Spared(e) /\ newest \in Ids /\ newest = count
      BY <3>2 DEF VictimInv, NewestInv, TypeOK, ManualOK, Ids
    <3>4. raw'[newest] = raw[newest]
      BY <3>1, <3>3, Zenon DEF Spared
    <3>5. Reported => Reported'
      BY <3>1, <3>3, Zenon DEF Reported, Spared, Complete, CompleteAt, Recovered
    <3> QED
      BY <3>1, <3>4, <3>5, Zenon DEF NewestInv
  <2> QED
    BY <1>1, <2>1, <2>2, <2>3, <2>4, <2>5, <2>6, <2>7, <2>8, <2>9, <2>10, Zenon DEF Files
<1>2. ASSUME Worker, ~Files("worker") PROVE NewestInv'
  <2>1. CASE ToggleStart
    BY <2>1, Zenon DEF ToggleStart, At, NewestInv, Reported, TypeOK, PointsOK
  <2>2. CASE ToggleStop
    BY <2>2, Zenon DEF ToggleStop, At, NewestInv, Reported, TypeOK, PointsOK
  <2>3. CASE Enter
    BY <2>3, Zenon DEF Enter, At, NewestInv, Reported, TypeOK, PointsOK
  <2>4. CASE LockOrGiveUp
    BY <2>4, Zenon DEF LockOrGiveUp, GiveUp, TypeOK, PointsOK, NewestInv, Reported
  <2>5. CASE MakeDirectory
    BY <2>5, Zenon DEF MakeDirectory, NewestInv
  <2>6. CASE WriteOwner
    <3>1. InProgress
      BY <2>6, Zenon DEF WriteOwner, At, InProgress, WorkerInv, SwitchInv, TypeOK, ManualOK,
         Packing
    <3>2. live = count /\ live \in Ids /\ \A u \in Threads : pc[u] \notin {"date", "sync", "remove"}
      BY <3>1, Alone, Zenon DEF Packing
    <3>3. /\ newest' = live /\ raw'[live] = "owned" /\ count' = count
          /\ \A u \in Threads : pc'[u] \notin {"date", "sync", "remove"}
      BY <2>6, <3>2, Moved, WorkerIsThread, ReaderIsThread, Zenon DEF WriteOwner, TypeOK, FilesOK
    <3> QED
      BY <3>2, <3>3, Zenon DEF NewestInv
  <2>7. CASE StartFails
    BY <2>7, Zenon DEF StartFails, GiveUp, NewestInv, Reported, TypeOK, PointsOK
  <2>8. CASE StartSucceeds
    BY <2>8, Zenon DEF StartSucceeds, At, NewestInv, Reported, TypeOK, PointsOK
  <2>9. CASE Finish
    BY <2>9, Zenon DEF Finish, At, NewestInv, Reported, TypeOK, PointsOK, WorkOK
  <2>10. CASE Unlock
    BY <2>10, Zenon DEF Unlock, At, NewestInv, Reported, TypeOK, PointsOK
  <2>11. CASE Close
    BY <2>11, Zenon DEF Close, At, NewestInv, Reported, TypeOK, PointsOK, WorkOK
  <2>12. CASE WorkerDeleted
    BY <2>12, Zenon DEF WorkerDeleted, At, NewestInv, Reported, TypeOK, PointsOK
  <2> QED
    BY <1>2, <2>1, <2>2, <2>3, <2>4, <2>5, <2>6, <2>7, <2>8, <2>9, <2>10, <2>11, <2>12, Zenon DEF
       Worker
<1>3. ASSUME NEW t \in Readers, Reader(t), ~Files(t) PROVE NewestInv'
  <2>1. CASE Report(t)
    BY <2>1, Zenon DEF Report, At, NewestInv, Reported, TypeOK, PointsOK
  <2>2. CASE EnterSaved(t)
    BY <2>2, Zenon DEF EnterSaved, TypeOK, PointsOK, NewestInv, Reported
  <2>3. CASE EnterWork(t)
    BY <2>3, Zenon DEF EnterWork, TypeOK, PointsOK, NewestInv, Reported
  <2>4. CASE ReaderDeleted(t)
    BY <2>4, Zenon DEF ReaderDeleted, At, NewestInv, Reported, TypeOK, PointsOK
  <2>5. CASE Check(t)
    BY <2>5, Zenon DEF Check, At, NewestInv, Reported, TypeOK, PointsOK
  <2> QED
    BY <1>3, <2>1, <2>2, <2>3, <2>4, <2>5, Zenon DEF Reader
<1>4. CASE Crash
  BY <1>4, Zenon DEF Crash, ProcessGone, NewestInv, Reported
<1>5. CASE PowerLoss
  BY <1>5, Zenon DEF PowerLoss, NewestInv
<1>6. CASE Mount
  BY <1>6, Zenon DEF Mount, NewestInv, Reported
<1> QED
  BY <1>1, <1>2, <1>3, <1>4, <1>5, <1>6, Zenon DEF Next, Threads

(* The report of the worker is synced before its directory goes, and stays   *)
(* after it was shown.                                                       *)
LEMMA PathKeeps ==
  ASSUME TypeOK, LockInv, WorkerInv, CountInv, LooseInv, VictimInv, PathInv, Next
  PROVE  PathInv'
<1> USE DEF files, session, manual, threads, bounds
<1>1. ASSUME NEW t \in Threads, Files(t) PROVE PathInv'
  <2>1. CASE RecoverOne(t)
    <3>1. Recovering(t)
      BY <2>1, RecoverStep, Zenon
    <3> QED
      BY <3>1, Zenon DEF Recovering, PathInv, Own, Threads
  <2>2. CASE Archive(t)
    <3>1. Packaging(t) /\ pc[t] = "archive" /\ UNCHANGED zip
      BY <2>2, PackageStep, Zenon DEF Archive
    <3>2. \/ pc'[t] \in {"rename", "recover", "archive"}
          \/ pc'[t] = "list" /\ ~Own(job'[t])
      BY <3>1, ArchiveParts, Zenon DEF Packaging, Rename, Remove, Own
    <3> QED
      BY <3>1, <3>2, Zenon DEF Packaging, PathInv, Own, Threads
  <2>3. CASE Rename(t)
    <3>1. Packaging(t) /\ pc[t] = "rename"
      BY <2>3, PackageStep, Zenon DEF Rename
    <3>2. Packs(t)
      BY <3>1, InPackage, Zenon DEF Packing
    <3>3. \A k \in Archives : k # job[t] => zip'[k] = zip[k]
      BY <2>3, Zenon DEF Rename, TypeOK, FilesOK
    <3>4. path # NoPath => path # job[t]
      BY <3>2, Zenon DEF Packs, PathInv, WorkerInv, SwitchInv
    <3>5. CASE t = "worker"
      <4>1. \/ pc'[t] \in {"recover", "archive"}
            \/ pc'[t] = "list" /\ ~Own(job'[t])
            \/ pc'[t] = "date" /\ job' = job /\ zip'[job[t]] # "no"
        BY <3>1, <3>2, ArchiveParts, Zenon DEF Remove, Packaging, Packs, Own, TypeOK, FilesOK
      <4> QED
        BY <3>1, <3>3, <3>4, <3>5, <4>1, Zenon DEF Packaging, PathInv, Own
    <3>6. CASE t # "worker"
      <4>1. pc'["worker"] = pc["worker"] /\ job'["worker"] = job["worker"] /\ ~Own(job[t]) /\ job[t][3] # "_SUCCESS"
        BY <3>1, <3>2, <3>6, Zenon DEF Packaging, Packs, Own, Threads
      <4> QED
        BY <3>1, <3>3, <4>1, Zenon DEF Packaging, PathInv, Own, TypeOK, PointsOK, WorkOK
    <3> QED
      BY <3>5, <3>6, Zenon
  <2>4. CASE Date(t)
    BY <2>4, Zenon DEF Date, At, PathInv, Own, TypeOK, PointsOK, Threads
  <2>5. CASE Sync(t)
    <3>1. Packs(t) /\ pc[t] = "sync"
      BY <2>5, InPackage, Zenon DEF Sync, At, Packing
    <3>2. \A k \in Archives : (k # job[t] => zip'[k] = zip[k]) /\ (zip[k] = "kept" => zip'[k] = "kept")
      BY <2>5, Zenon DEF Sync, Synced, TypeOK, FilesOK
    <3>3. zip[job[t]] # "no" => zip'[job[t]] = "kept"
      BY <2>5, <3>1, ArchiveParts, Zenon DEF Sync, Synced, Readable, LooseInv, Packs, Roots,
         TypeOK, FilesOK
    <3>4. /\ \A u \in Threads : pc'[u] = IF u = t THEN "remove" ELSE pc[u]
          /\ UNCHANGED <<path, misdated, status, job, live, count>>
      BY <2>5, Zenon DEF Sync, At, TypeOK, PointsOK
    <3>5. path # NoPath /\ ~misdated => zip'[path] = "kept"
      BY <3>2, Zenon DEF PathInv
    <3>6. ASSUME status = "saving", Own(job["worker"]), ~misdated, t # "worker"
          PROVE  zip'[job["worker"]] = zip[job["worker"]]
      BY <3>1, <3>2, <3>6, Zenon DEF Packs, Own
    <3> QED
      BY <3>1, <3>3, <3>4, <3>5, <3>6, Zenon DEF PathInv, Own, Threads
  <2>6. CASE Remove(t)
    BY <2>6, WorkerIsThread, Zenon DEF Remove, AfterPackage, Afterwards, PathInv, WorkerInv,
       SwitchInv, OwnJobInv, Own, TypeOK, PointsOK, WorkOK
  <2>7. CASE \E root \in Roots : Prune(t, root)
    <3>1. At(t, "recover", "delete") /\ UNCHANGED <<path, count, live, misdated, zip, status, job>>
      BY <2>7, Pruning, Zenon
    <3>2. pc'[t] = "delete" /\ \A u \in Threads : u # t => pc'[u] = pc[u]
      BY <3>1, Moved, Zenon
    <3> QED
      BY <3>1, <3>2, WorkerIsThread, Zenon DEF At, PathInv, WorkerInv, SwitchInv, Own, Packing
  <2>8. CASE List(t)
    BY <2>8, Zenon DEF List, At, TypeOK, PointsOK, PathInv, Own, Threads
  <2>9. CASE Choose(t)
    BY <2>9, Zenon DEF Choose, At, TypeOK, PointsOK, PathInv, Own, Threads
  <2>10. CASE Delete(t)
    <3>1. PICK e \in victims[t] :
            /\ \A k \in Archives : k # e => zip'[k] = zip[k]
            /\ UNCHANGED <<path, misdated, status, job, pc, live, count>>
      BY <2>10, Zenon DEF Delete, TypeOK, FilesOK
    <3>2. ~misdated => (e[2] = count => e[3] = "_INCOMPLETE")
      BY Zenon DEF VictimInv, Spared
    <3>3. live # 0 => live = count
      BY Zenon DEF WorkerInv, SwitchInv
    <3>4. status = "saving" => live # 0
      BY Zenon DEF WorkerInv, SwitchInv
    <3> QED
      BY <3>1, <3>2, <3>3, <3>4, Zenon DEF PathInv, Own
  <2> QED
    BY <1>1, <2>1, <2>2, <2>3, <2>4, <2>5, <2>6, <2>7, <2>8, <2>9, <2>10, Zenon DEF Files
<1>2. ASSUME Worker, ~Files("worker") PROVE PathInv'
  <2>1. CASE ToggleStart
    BY <2>1, Zenon DEF ToggleStart, PathInv
  <2>2. CASE ToggleStop
    BY <2>2, Zenon DEF ToggleStop, At, PathInv, TypeOK, PointsOK
  <2>3. CASE Enter
    BY <2>3, Zenon DEF Enter, At, PathInv, TypeOK, PointsOK
  <2>4. CASE LockOrGiveUp
    BY <2>4, Zenon DEF LockOrGiveUp, GiveUp, PathInv, WorkerInv, SwitchInv, Packing
  <2>5. CASE MakeDirectory
    BY <2>5, Zenon DEF MakeDirectory, At, PathInv, TypeOK, PointsOK
  <2>6. CASE WriteOwner
    BY <2>6, Zenon DEF WriteOwner, At, PathInv, WorkerInv, SwitchInv, Packing
  <2>7. CASE StartFails
    BY <2>7, Zenon DEF StartFails, GiveUp, PathInv
  <2>8. CASE StartSucceeds
    BY <2>8, Zenon DEF StartSucceeds, PathInv
  <2>9. CASE Finish
    BY <2>9, Zenon DEF Finish, At, PathInv, TypeOK, PointsOK
  <2>10. CASE Unlock
    BY <2>10, Zenon DEF Unlock, At, PathInv, Own
  <2>11. CASE Close
    BY <2>11, Zenon DEF Close, At, TypeOK, ManualOK, PathInv, WorkerInv, SwitchInv, OwnJobInv,
       Own, Packing
  <2>12. CASE WorkerDeleted
    BY <2>12, Zenon DEF WorkerDeleted, At, PathInv, Own
  <2> QED
    BY <1>2, <2>1, <2>2, <2>3, <2>4, <2>5, <2>6, <2>7, <2>8, <2>9, <2>10, <2>11, <2>12, Zenon DEF
       Worker
<1>3. ASSUME NEW t \in Readers, Reader(t), ~Files(t) PROVE PathInv'
  <2>1. CASE Report(t)
    BY <2>1, Moved, WorkerIsThread, ReaderIsThread, Zenon DEF Report, PathInv, Own
  <2>2. CASE EnterSaved(t)
    BY <2>2, Zenon DEF EnterSaved, TypeOK, PointsOK, PathInv, Own, Threads
  <2>3. CASE EnterWork(t)
    BY <2>3, Zenon DEF EnterWork, TypeOK, PointsOK, PathInv, Own, Threads
  <2>4. CASE ReaderDeleted(t)
    BY <2>4, Moved, WorkerIsThread, ReaderIsThread, Zenon DEF ReaderDeleted, PathInv, Own
  <2>5. CASE Check(t)
    BY <2>5, Moved, WorkerIsThread, ReaderIsThread, Zenon DEF Check, PathInv, Own
  <2> QED
    BY <1>3, <2>1, <2>2, <2>3, <2>4, <2>5, Zenon DEF Reader
<1>4. CASE Crash
  BY <1>4, Zenon DEF Crash, ProcessGone, PathInv
<1>5. CASE PowerLoss
  BY <1>5, Zenon DEF PowerLoss, ProcessGone, Undated, PathInv
<1>6. CASE Mount
  BY <1>6, Zenon DEF Mount, PathInv, Own
<1> QED
  BY <1>1, <1>2, <1>3, <1>4, <1>5, <1>6, Zenon DEF Next, Threads

(* Nothing is recorded at the start.                                         *)
LEMMA InitIInv == Init => IInv
<1> SUFFICES ASSUME Init PROVE IInv
  OBVIOUS
<1>1. TypeOK
  <2>1. FilesOK /\ FlagsOK
    BY Zenon DEF Init, FilesOK, FlagsOK
  <2>2. ManualOK /\ BoundsOK
    BY BoundsAssumption DEF Init, ManualOK, BoundsOK
  <2>3. PointsOK
    BY Zenon DEF Init, NoThreads, PointsOK, Threads, ReaderPoints, WorkerPoints
  <2>4. WorkOK /\ ListsOK
    BY Zenon DEF Init, NoThreads, WorkOK, ListsOK
  <2> QED
    BY <2>1, <2>2, <2>3, <2>4, Zenon DEF TypeOK
<1>2. LockInv /\ WorkerInv
  BY BoundsAssumption, Zenon DEF Init, NoThreads, LockInv, PackInv, ReaderInv, PruneInv,
     WorkerInv, SwitchInv, OwnJobInv, OwnLockInv, Packing, Roots, Threads
<1>3. CountInv /\ TimeInv
  BY DEF Init, NoThreads, CountInv, StartsInv, FilesInv, TodoInv, SeenInv, TimeInv, Ids, NoPath
<1>4. LiveInv /\ DateInv /\ LooseInv
  BY Zenon DEF Init, NoThreads, LiveInv, InProgress, DateInv, LooseInv
<1>5. VictimInv /\ NewestInv /\ PathInv
  BY Zenon DEF Init, NoThreads, VictimInv, OneComplete, CompleteAt, NewestInv, PathInv
<1> QED
  BY <1>1, <1>2, <1>3, <1>4, <1>5, Zenon DEF IInv, Inv

(* IInv is an invariant.                                                     *)
LEMMA Invariance == Spec => []IInv
<1>1. IInv /\ Next => IInv'
  <2> SUFFICES ASSUME IInv, Next PROVE IInv'
    OBVIOUS
  <2> USE DEF IInv, Inv
  <2>1. TypeOK'
    BY FilesTyped, ManualTyped, BoundsTyped, PointsTyped, WorkTyped, ListsTyped, FlagsTyped,
       Zenon DEF TypeOK
  <2>2. LockInv'
    BY PackKeeps, ReaderKeeps, PruneKeeps, Zenon DEF LockInv
  <2>3. WorkerInv'
    BY SwitchKeeps, OwnJobKeeps, OwnLockKeeps, Zenon DEF WorkerInv
  <2>4. CountInv' /\ TimeInv'
    BY StartsKeep, FilesKeep, TodoKeeps, SeenKeeps, TimeKeeps, Zenon DEF CountInv
  <2>5. LiveInv' /\ DateInv' /\ LooseInv'
    BY LiveKeeps, DateKeeps, LooseKeeps, Zenon
  <2>6. VictimInv' /\ NewestInv' /\ PathInv'
    BY VictimsKeep, NewestKeeps, PathKeeps, Zenon
  <2> QED
    BY <2>1, <2>2, <2>3, <2>4, <2>5, <2>6, Zenon
<1>2. IInv /\ UNCHANGED vars => IInv'
  <2> SUFFICES ASSUME IInv, UNCHANGED vars PROVE IInv'
    OBVIOUS
  <2> USE DEF IInv, Inv, vars, files, session, manual, threads, bounds
  <2>1. TypeOK'
    BY Zenon DEF TypeOK, FilesOK, ManualOK, BoundsOK, PointsOK, WorkOK, ListsOK, FlagsOK
  <2>2. LockInv' /\ WorkerInv'
    BY Zenon DEF LockInv, PackInv, ReaderInv, PruneInv, WorkerInv, SwitchInv, OwnJobInv,
       OwnLockInv, Own
  <2>3. CountInv' /\ TimeInv'
    BY Zenon DEF CountInv, StartsInv, FilesInv, TodoInv, SeenInv, TimeInv
  <2>4. LiveInv' /\ DateInv' /\ LooseInv'
    BY Zenon DEF LiveInv, InProgress, DateInv, LooseInv
  <2>5. VictimInv' /\ NewestInv' /\ PathInv'
    BY Zenon DEF VictimInv, OneComplete, CompleteAt, Complete, Recovered, Spared, NewestInv,
       Reported, PathInv, Own
  <2> QED
    BY <2>1, <2>2, <2>3, <2>4, <2>5, Zenon
<1> QED
  BY <1>1, <1>2, InitIInv, PTL DEF Spec
-----------------------------------------------------------------------------
(* The variables of the recorder keep their types.                           *)
THEOREM TypeCorrect == Spec => []TypeOK
<1>1. IInv => TypeOK
  BY Zenon DEF IInv
<1> QED
  BY <1>1, Invariance, PTL

(* The directory of a running recording stays, and no reader packs it         *)
(* (Recover under .capture.lock, PruneAll by age).                            *)
THEOREM RunningIsKept == Spec => []LiveIsKept
<1>1. IInv => LiveIsKept
  <2> SUFFICES ASSUME IInv, status = "recording" PROVE LiveIsKept
    BY Zenon DEF LiveIsKept
  <2>1. InProgress /\ pc["worker"] = "idle"
    BY Zenon DEF IInv, Inv, WorkerInv, SwitchInv, InProgress
  <2>2. raw[live] = "owned"
    BY <2>1, Zenon DEF IInv, Inv, LiveInv
  <2>3. \A t \in Readers : pc[t] \notin Packing
    BY <2>1, Alone, Zenon DEF IInv, Inv, Threads
  <2> QED
    BY <2>2, <2>3, Zenon DEF LiveIsKept
<1> QED
  BY <1>1, Invariance, PTL

(* The report shown as saved exists until the next recording (Finish, Sync,   *)
(* Prune and PruneAll), unless a report was listed or lost before it had its  *)
(* date.                                                                      *)
THEOREM ShownIsKept == Spec => []SavedIsKept
<1>1. IInv => SavedIsKept
  BY Zenon DEF IInv, Inv, PathInv, SavedIsKept
<1> QED
  BY <1>1, Invariance, PTL

(* The last recording exists as a directory or a report (Package, Recover,    *)
(* Prune and PruneAll), under the same condition.                             *)
THEOREM LastIsKept == Spec => []NewestIsKept
<1>1. IInv => NewestIsKept
  BY Zenon DEF IInv, Inv, NewestInv, Reported, NewestIsKept
<1> QED
  BY <1>1, Invariance, PTL
=============================================================================
