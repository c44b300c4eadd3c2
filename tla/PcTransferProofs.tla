-------------------------- MODULE PcTransferProofs --------------------------
(***************************************************************************)
(* Proofs about PcTransfer for any number of connection handlers, transfers*)
(* and switches of the service, and any set of requests: what transfers    *)
(* leave on storage, what may be installed, and which result is reported.  *)
(***************************************************************************)
EXTENDS PcTransfer, TLAPS

UploadPoints == {"open", "receive", "settle", "finish"}
FilePoints == {"select", "review"}

FileSets == [Ids -> SUBSET {"dir", "part", "payload"}]

(* Files on storage: only the current transfer has a directory, apart from    *)
(* one that is being removed and, after a late download, one whose removal    *)
(* was overtaken; a partial file lies in a directory, a complete file in a    *)
(* directory was verified, and a transfer with a directory has its complete   *)
(* file there.  A transfer whose directory is being removed is over.          *)
FilesInv ==
  /\ t.id = last
  /\ \A i \in Ids : i > last => files[i] = {}
  /\ "dir" \notin files[0]
  /\ \A i \in Ids : "dir" \in files[i] => \/ i = t.id /\ HasDirectory(t.kind)
                                          \/ i = removing
                                          \/ lateFetch /\ i \in overtaken
  /\ \A i \in Ids : "part" \in files[i] => "dir" \in files[i]
  /\ \A i \in Ids : "dir" \in files[i] /\ "payload" \in files[i] => i \in verified
  /\ HasDirectory(t.kind) /\ "payload" \in files[t.id] => "dir" \in files[t.id]
  /\ removing # 0 => /\ "dir" \in files[removing]
                     /\ removing = t.id => HasDirectory(t.kind) /\ TerminalPhase(t.phase)

(* The handlers of uploads: their transfer is one, no other handler receives  *)
(* it, and what they are about to keep was verified.                          *)
UploadInv ==
  \A h \in Handlers :
    /\ handler[h].pc \in UploadPoints =>
         /\ handler[h].id <= last
         /\ handler[h].id = t.id => t.kind \in {"upload", "save"} /\ t.phase # "prepared"
         /\ \A g \in Handlers : handler[g].pc \in UploadPoints /\ handler[g].id = handler[h].id => g = h
    /\ handler[h].pc = "settle" /\ handler[h].ok => handler[h].id \in verified

(* The same for the download thread.                                         *)
FetchInv ==
  fetch.pc # "none" =>
    /\ fetch.id <= last /\ fetch.gen <= generation
    /\ fetch.id = t.id => fetch.kind = t.kind
    /\ ~lateFetch => fetch.kind = "url"
    /\ fetch.pc \in {"settle", "rename"} /\ fetch.ok => fetch.id \in verified
    /\ HasDirectory(fetch.kind) /\ "payload" \in files[fetch.id] => "dir" \in files[fetch.id]

(* The service while it is being switched off.                               *)
ServiceInv ==
  /\ ui \in {"joining", "clearing"} => ~running
  /\ ~running => generation > 0

(* One FileCommand at a time; the transfer it will replace is over.          *)
SelectInv ==
  /\ \A h \in Handlers : handler[h].pc \in FilePoints => fileBusy
  /\ \A h, g \in Handlers : handler[h].pc \in FilePoints /\ handler[g].pc \in FilePoints => g = h
  /\ ~lateFetch => \A h \in Handlers : handler[h].pc = "select" => TerminalPhase(t.phase)

(* Unless a download was started late, the current transfer waits for its    *)
(* download, or was settled by the end of the service, which the download    *)
(* will notice.                                                              *)
Stale == ~(running /\ generation = fetch.gen)
LateInv ==
  ~lateFetch /\ fetch.pc # "none" /\ fetch.id = t.id =>
    t.phase = "uploading" \/ (TerminalPhase(t.phase) /\ Stale)

(* pc_job_id_ names the job that is running or deferred.                     *)
JobInv ==
  /\ ui = "taken" => job.state = "none"
  /\ ~dropped /\ pcJob # 0 => job.state # "none" /\ job.id = pcJob

(* The way to the computer's storage is open for a backup only.              *)
ChannelInv ==
  ~lateFetch /\ channel => t.kind = "backup" /\ t.phase \in {"queued", "installing"}

Inv ==
  /\ FilesInv /\ UploadInv /\ FetchInv /\ ServiceInv /\ SelectInv /\ LateInv /\ JobInv
  /\ ChannelInv /\ ResultIsOwn

(* A worker that waits to open the partial file of a transfer whose directory *)
(* is still there works on the current transfer, which is being received or   *)
(* removed.                                                                   *)
Awaited(i) == i = t.id /\ (t.phase = "uploading" \/ removing = i)
OpenInv ==
  /\ \A h \in Handlers :
       handler[h].pc = "open" /\ "dir" \in files[handler[h].id] => Awaited(handler[h].id)
  /\ fetch.pc = "open" /\ "dir" \in files[fetch.id] => Awaited(fetch.id)

(* Between unlink and rmdir: what is in the directory was created by the      *)
(* worker that has just opened it, and a transfer that replaces the removed   *)
(* one is a new one.                                                          *)
Opened(i) ==
  \/ \E h \in Handlers : handler[h].id = i /\ handler[h].pc = "receive"
  \/ fetch.id = i /\ fetch.pc = "receive"
RemovingInv ==
  removing # 0 =>
    /\ "payload" \notin files[removing]
    /\ "part" \in files[removing] => removing = t.id /\ Opened(removing)
    /\ removing = t.id \/ ~TerminalPhase(t.phase)

(* While there is a partial file of the current transfer, nobody takes the    *)
(* transfer for received, and no download renames a file that was given up.   *)
PartInv ==
  "part" \in files[t.id] =>
    /\ TerminalPhase(t.phase) \/ t.phase = "uploading"
    /\ \A h \in Handlers : handler[h].pc = "finish" /\ handler[h].id = t.id => ~handler[h].ok
    /\ fetch.id = t.id /\ (fetch.pc = "finish" \/ (fetch.pc = "rename" /\ TerminalPhase(t.phase)))
         => ~fetch.ok

(* What a finished transfer still has on storage.                             *)
RestInv ==
  TerminalPhase(t.phase) /\ "dir" \in files[t.id] /\ LockFree =>
    /\ t.phase = "failed" \/ t.id \in overtaken
    /\ "payload" \notin files[t.id]
    /\ "part" \in files[t.id] => Working(t.id)

Clean == OpenInv /\ RemovingInv /\ PartInv /\ RestInv
IInv == TypeOK /\ Inv /\ (~lateFetch => Clean)

(* What a handler moves on with stays in the range of handlers.               *)
LEMMA Advance ==
  ASSUME TypeOK, NEW h \in Handlers, NEW p \in Points, NEW b \in BOOLEAN
  PROVE  [handler EXCEPT ![h].pc = p, ![h].ok = b] \in [Handlers -> Worker]
BY Zenon DEF TypeOK, Worker

(* RemoveTransferFiles takes away all but the directory of a transfer with a *)
(* directory, which is then about to be removed, and nothing else.            *)
LEMMA Removal ==
  ASSUME removing = 0, NEW f \in FileSets, NEW i \in Ids, NEW k, RemoveTransferFiles(i, k, f)
  PROVE  /\ files' \in FileSets
         /\ \A j \in Ids : files'[j] = IF j = i /\ HasDirectory(k) THEN f[j] \cap {"dir"} ELSE f[j]
         /\ removing' = IF HasDirectory(k) /\ "dir" \in f[i] THEN i ELSE 0
<1>1. CASE HasDirectory(k)
  <2>1. files' = [f EXCEPT ![i] = @ \cap {"dir"}] /\ removing' = IF "dir" \in f[i] THEN i ELSE 0
    BY <1>1, Zenon DEF RemoveTransferFiles, Unlink
  <2> QED
    BY <1>1, <2>1, Zenon DEF FileSets
<1>2. CASE ~HasDirectory(k)
  BY <1>2, Zenon DEF RemoveTransferFiles
<1> QED
  BY <1>1, <1>2, Zenon

(* The variables it changes keep their types.                                 *)
LEMMA RemovalTypes ==
  ASSUME TypeOK, removing = 0, NEW i \in Ids, NEW k, RemoveTransferFiles(i, k, files)
  PROVE  files' \in FileSets /\ removing' \in Ids
<1>1. files \in FileSets /\ 0 \in Ids
  BY BoundAssumption DEF TypeOK, FileSets, Ids
<1> QED
  BY <1>1, Removal, Zenon

(* What a step keeps that leaves the transfer and the files alone.            *)
LEMMA Untouched ==
  ASSUME Inv,
         UNCHANGED <<t, last, storage, observed, running, generation, fetch, lateFetch, channel, ui,
                     succeeded, dropped>>
  PROVE  /\ FilesInv' /\ FetchInv' /\ ServiceInv' /\ LateInv' /\ ChannelInv' /\ ResultIsOwn'
         /\ UNCHANGED <<handler, fileBusy>> => UploadInv' /\ SelectInv'
         /\ UNCHANGED <<job, pcJob>> => JobInv'
<1> USE DEF storage, observed
<1>1. FilesInv' /\ FetchInv' /\ ServiceInv'
  BY Zenon DEF Inv, FilesInv, FetchInv, ServiceInv
<1>2. LateInv'
  BY Zenon DEF Inv, LateInv, Stale
<1>3. ChannelInv' /\ ResultIsOwn'
  BY Zenon DEF Inv, ChannelInv, ResultIsOwn
<1>4. ASSUME UNCHANGED <<handler, fileBusy>> PROVE UploadInv' /\ SelectInv'
  BY <1>4, Zenon DEF Inv, UploadInv, SelectInv
<1>5. ASSUME UNCHANGED <<job, pcJob>> PROVE JobInv'
  BY <1>5, Zenon DEF Inv, JobInv
<1> QED
  BY <1>1, <1>2, <1>3, <1>4, <1>5, Zenon

(* A file outside the directories of transfers survives it.                   *)
LEMMA RemovalKeepsOwnFile ==
  ASSUME files \in FileSets, removing = 0, NEW i \in Ids, files[i] = {"payload"}, NEW j \in Ids,
         NEW k, HasDirectory(k) /\ "payload" \in files[j] => "dir" \in files[j],
         RemoveTransferFiles(j, k, files)
  PROVE  files'[i] # {}
<1>1. files'[i] = IF i = j /\ HasDirectory(k) THEN files[i] \cap {"dir"} ELSE files[i]
  BY Removal, Zenon
<1>2. ~(i = j /\ HasDirectory(k))
  OBVIOUS
<1> QED
  BY <1>1, <1>2, Zenon

(* What g_transfer and the files are after g_transfer was replaced.           *)
LEMMA Replacement ==
  ASSUME TypeOK, removing = 0, t.id = last, NEW k \in Kinds, NEW p \in Phases, Replace(k, p)
  PROVE  /\ last' \in Ids /\ t' \in Transfers /\ files' \in FileSets /\ removing' \in Ids
         /\ last' = last + 1 /\ t'.id = last + 1 /\ t'.kind = k /\ t'.phase = p /\ t'.cancel = FALSE
         /\ files'[last + 1] = FilesAfter(k)
         /\ \A j \in Ids : j # last + 1 =>
              files'[j] = IF j = t.id /\ HasDirectory(t.kind) THEN files[j] \cap {"dir"} ELSE files[j]
         /\ removing' = IF HasDirectory(t.kind) /\ "dir" \in files[t.id] THEN t.id ELSE 0
<1> DEFINE f == [files EXCEPT ![last + 1] = FilesAfter(k)]
<1> USE BoundAssumption
<1>1. last \in Nat /\ last + 1 \in Ids /\ last' = last + 1 /\ last # last + 1 /\ 0 \in Ids
  BY DEF TypeOK, Ids, Replace
<1>2. t' \in Transfers /\ t'.id = last + 1 /\ t'.kind = k /\ t'.phase = p /\ t'.cancel = FALSE
  BY <1>1, Zenon DEF NewTransfer, Transfers, Replace
<1>3. FilesAfter(k) \in SUBSET {"dir", "part", "payload"}
  BY Zenon DEF FilesAfter
<1>4. t.id \in Ids /\ files \in FileSets
  BY Zenon DEF TypeOK, Transfers, FileSets
<1>5. /\ f \in FileSets /\ f[last + 1] = FilesAfter(k)
      /\ \A j \in Ids : j # last + 1 => f[j] = files[j]
  BY <1>1, <1>3, <1>4, Zenon DEF FileSets
<1>6. RemoveTransferFiles(t.id, t.kind, f)
  BY Zenon DEF Replace
<1> HIDE DEF f
<1>7. /\ files' \in FileSets
      /\ \A j \in Ids : files'[j] = IF j = t.id /\ HasDirectory(t.kind) THEN f[j] \cap {"dir"} ELSE f[j]
      /\ removing' = IF HasDirectory(t.kind) /\ "dir" \in f[t.id] THEN t.id ELSE 0
  BY <1>4, <1>5, <1>6, Removal, Zenon
<1>8. t.id # last + 1
  BY <1>1
<1>9. removing' = IF HasDirectory(t.kind) /\ "dir" \in files[t.id] THEN t.id ELSE 0
  BY <1>4, <1>5, <1>7, <1>8, Zenon
<1>10. removing' \in Ids
  BY <1>1, <1>4, <1>9, Zenon
<1>11. files'[last + 1] = FilesAfter(k)
  BY <1>1, <1>5, <1>7, <1>8, Zenon
<1>12. \A j \in Ids : j # last + 1 =>
         files'[j] = IF j = t.id /\ HasDirectory(t.kind) THEN files[j] \cap {"dir"} ELSE files[j]
  BY <1>5, <1>7, Zenon
<1> QED
  BY <1>1, <1>2, <1>7, <1>9, <1>10, <1>11, <1>12, Zenon

(* A replaced transfer leaves its directory at most, and that is about to be  *)
(* removed.                                                                   *)
LEMMA ReplacementFiles ==
  ASSUME TypeOK, FilesInv, removing = 0, NEW k \in Kinds, NEW p \in Phases, Replace(k, p),
         UNCHANGED <<verified, overtaken, lateFetch>>
  PROVE  FilesInv'
<1>0. last \in Nat /\ t.id = last /\ t.id \in Ids /\ last + 1 # 0 /\ 0 \in Ids
  BY BoundAssumption DEF TypeOK, Ids, FilesInv, Transfers
<1>1. \A j \in Ids : j # last + 1 =>
        files'[j] = IF j = t.id /\ HasDirectory(t.kind) THEN files[j] \cap {"dir"} ELSE files[j]
  BY <1>0, Replacement, Zenon
<1>2. /\ last' = last + 1 /\ t'.id = last + 1 /\ t'.kind = k
      /\ files'[last + 1] = FilesAfter(k)
      /\ removing' = IF HasDirectory(t.kind) /\ "dir" \in files[t.id] THEN t.id ELSE 0
  BY <1>0, Replacement, Zenon
<1>3. /\ "part" \notin FilesAfter(k)
      /\ "dir" \in FilesAfter(k) <=> HasDirectory(k)
      /\ "payload" \in FilesAfter(k) => k = "existing"
  BY Zenon DEF FilesAfter, HasDirectory
<1>4. \A j \in Ids : j # last + 1 =>
        /\ "dir" \in files'[j] => "dir" \in files[j]
        /\ "part" \in files'[j] => "part" \in files[j] /\ ~(j = t.id /\ HasDirectory(t.kind))
        /\ "payload" \in files'[j] => "payload" \in files[j] /\ ~(j = t.id /\ HasDirectory(t.kind))
        /\ "dir" \in files[j] => "dir" \in files'[j]
  <2> TAKE j \in Ids
  <2> HAVE j # last + 1
  <2>1. CASE j = t.id /\ HasDirectory(t.kind)
    <3>1. files'[j] = files[j] \cap {"dir"}
      BY <1>1, <2>1, Zenon
    <3> QED
      BY <2>1, <3>1
  <2>2. CASE ~(j = t.id /\ HasDirectory(t.kind))
    BY <1>1, <2>2, Zenon
  <2> QED
    BY <2>1, <2>2, Zenon
<1>5. \A j \in Ids : j > last + 1 => files'[j] = {}
  <2> SUFFICES ASSUME NEW j \in Ids, j > last + 1 PROVE files'[j] = {}
    OBVIOUS
  <2>1. j > last /\ j # last + 1 /\ j # t.id
    BY <1>0 DEF Ids
  <2> QED
    BY <2>1, <1>1, Zenon DEF FilesInv
<1>6. ~("dir" \in FilesAfter(k) /\ "payload" \in FilesAfter(k))
  BY <1>3, Zenon DEF HasDirectory
<1>7. \A j \in Ids : "dir" \in files'[j] => \/ j = t'.id /\ HasDirectory(t'.kind)
                                            \/ j = removing'
                                            \/ lateFetch' /\ j \in overtaken'
  <2> SUFFICES ASSUME NEW j \in Ids, "dir" \in files'[j]
               PROVE  \/ j = t'.id /\ HasDirectory(t'.kind)
                      \/ j = removing'
                      \/ lateFetch' /\ j \in overtaken'
    OBVIOUS
  <2>1. CASE j = last + 1
    BY <2>1, <1>2, <1>3, Zenon
  <2>2. CASE j # last + 1
    <3>1. "dir" \in files[j]
      BY <2>2, <1>4, Zenon
    <3>2. CASE j = 0
      BY <3>1, <3>2, Zenon DEF FilesInv
    <3>3. CASE j # 0
      BY <3>1, <3>3, <1>2, Zenon DEF FilesInv
    <3> QED
      BY <3>2, <3>3
  <2> QED
    BY <2>1, <2>2
<1>8. \A j \in Ids : "part" \in files'[j] => "dir" \in files'[j]
  BY <1>2, <1>3, <1>4, Zenon DEF FilesInv
<1>9. \A j \in Ids : "dir" \in files'[j] /\ "payload" \in files'[j] => j \in verified'
  BY <1>2, <1>4, <1>6 DEF FilesInv
<1>10. HasDirectory(t'.kind) /\ "payload" \in files'[t'.id] => "dir" \in files'[t'.id]
  BY <1>2, <1>3, Zenon
<1>11. removing' # 0 => "dir" \in files'[removing'] /\ removing' # t'.id
  BY <1>0, <1>2, <1>4
<1>12. "dir" \notin files'[0]
  BY <1>0, <1>4, Zenon DEF FilesInv
<1> QED
  BY <1>2, <1>5, <1>7, <1>8, <1>9, <1>10, <1>11, <1>12, Zenon DEF FilesInv

(* The removal of a transfer's files keeps the files in order.                *)
LEMMA RemovalFiles ==
  ASSUME TypeOK, FilesInv, removing = 0, NEW i \in Ids, NEW k, i = t.id => k = t.kind,
         RemoveTransferFiles(i, k, files), i = t.id => TerminalPhase(t'.phase),
         t'.id = t.id, t'.kind = t.kind, UNCHANGED <<last, verified, overtaken, lateFetch>>
  PROVE  FilesInv'
<1>0. files \in FileSets /\ t.id \in Ids /\ 0 \in Ids
  BY BoundAssumption DEF TypeOK, FileSets, Transfers, Ids
<1>1. \A j \in Ids : files'[j] = IF j = i /\ HasDirectory(k) THEN files[j] \cap {"dir"} ELSE files[j]
  BY <1>0, Removal, Zenon
<1>2. removing' = IF HasDirectory(k) /\ "dir" \in files[i] THEN i ELSE 0
  BY <1>0, Removal, Zenon
<1>3. \A j \in Ids :
        /\ "dir" \in files'[j] <=> "dir" \in files[j]
        /\ "part" \in files'[j] => "part" \in files[j]
        /\ "payload" \in files'[j] => "payload" \in files[j] /\ ~(j = i /\ HasDirectory(k))
        /\ files[j] = {} => files'[j] = {}
  <2> TAKE j \in Ids
  <2>1. CASE j = i /\ HasDirectory(k)
    <3>1. files'[j] = files[j] \cap {"dir"}
      BY <1>1, <2>1, Zenon
    <3> QED
      BY <2>1, <3>1
  <2>2. CASE ~(j = i /\ HasDirectory(k))
    BY <1>1, <2>2, Zenon
  <2> QED
    BY <2>1, <2>2, Zenon
<1>4. \A j \in Ids : "dir" \in files[j] => j # 0 /\ (\/ j = t.id /\ HasDirectory(t.kind)
                                                     \/ lateFetch /\ j \in overtaken)
  BY Zenon DEF FilesInv
<1>5. removing' # 0 => /\ "dir" \in files'[removing']
                       /\ removing' = t'.id => HasDirectory(t'.kind) /\ TerminalPhase(t'.phase)
  BY <1>2, <1>3, Zenon
<1> QED
  BY <1>0, <1>3, <1>4, <1>5, Zenon DEF FilesInv

(* A change of its phase or flags keeps them in order too.                    *)
LEMMA SameFiles ==
  ASSUME FilesInv, removing = 0, UNCHANGED <<files, removing, last, verified, overtaken, lateFetch>>,
         t'.id = t.id, t'.kind = t.kind
  PROVE  FilesInv'
BY Zenon DEF FilesInv

(* So does the rename of a verified partial file.                             *)
LEMMA RenamedFiles ==
  ASSUME TypeOK, FilesInv, NEW i \in Ids, i \in verified, "part" \in files[i],
         files' = Renamed(i), UNCHANGED <<t, last, verified, overtaken, lateFetch, removing>>
  PROVE  FilesInv'
<1>0. files \in FileSets /\ t.id \in Ids /\ 0 \in Ids /\ removing \in Ids
  BY BoundAssumption DEF TypeOK, FileSets, Transfers, Ids
<1>1. "dir" \in files[i] /\ files[i] # {}
  BY Zenon DEF FilesInv
<1>2. /\ \A j \in Ids : j # i => files'[j] = files[j]
      /\ files'[i] = (files[i] \ {"part"}) \cup {"payload"}
  BY Zenon DEF Renamed, TypeOK
<1>3. \A j \in Ids : j > last => files'[j] = {}
  BY <1>1, <1>2, Zenon DEF FilesInv
<1>4. \A j \in Ids : /\ "dir" \in files'[j] <=> "dir" \in files[j]
                     /\ "part" \in files'[j] => "part" \in files[j]
                     /\ j # i => ("payload" \in files'[j] <=> "payload" \in files[j])
  BY <1>2
<1> QED
  BY <1>0, <1>1, <1>3, <1>4, Zenon DEF FilesInv

(* What the download thread relies on survives the removal and the            *)
(* replacement of a transfer.                                                 *)
LEMMA RemovalFetch ==
  ASSUME TypeOK, FetchInv, removing = 0, NEW i \in Ids, NEW k, RemoveTransferFiles(i, k, files),
         t'.id = t.id, t'.kind = t.kind, UNCHANGED <<last, verified, generation, fetchVars>>
  PROVE  FetchInv'
<1>0. files \in FileSets /\ fetch.id \in Ids
  BY Zenon DEF TypeOK, FileSets, Fetches
<1>1. files'[fetch.id] = files[fetch.id] \/ files'[fetch.id] = files[fetch.id] \cap {"dir"}
  BY <1>0, Removal, Zenon
<1>2. "payload" \notin files[fetch.id] \cap {"dir"}
  OBVIOUS
<1>3. \/ "payload" \notin files'[fetch.id]
      \/ files'[fetch.id] = files[fetch.id]
  BY <1>1, <1>2, Zenon
<1> QED
  BY <1>3, Zenon DEF FetchInv, fetchVars

LEMMA ReplacementFetch ==
  ASSUME TypeOK, FetchInv, removing = 0, t.id = last, NEW k \in Kinds, NEW p \in Phases,
         Replace(k, p), UNCHANGED <<verified, generation, fetchVars>>
  PROVE  FetchInv'
<1> USE DEF fetchVars
<1> SUFFICES ASSUME fetch.pc # "none" PROVE FetchInv'
  BY Zenon DEF FetchInv
<1>0. fetch.id \in Ids /\ fetch.id <= last /\ fetch.gen <= generation
  BY Zenon DEF TypeOK, Fetches, FetchInv
<1>1. last' = last + 1 /\ t'.id = last + 1
  BY Replacement, Zenon
<1>2. fetch.id # last + 1 /\ fetch.id <= last'
  BY <1>0, <1>1 DEF TypeOK, Ids
<1>3. files'[fetch.id] = files[fetch.id] \/ files'[fetch.id] = files[fetch.id] \cap {"dir"}
  BY <1>0, <1>2, Replacement, Zenon
<1>4. "payload" \notin files[fetch.id] \cap {"dir"}
  OBVIOUS
<1>5. "payload" \notin files'[fetch.id] \/ files'[fetch.id] = files[fetch.id]
  BY <1>3, <1>4, Zenon
<1> QED
  BY <1>0, <1>1, <1>2, <1>5, Zenon DEF FetchInv

(* What the handlers of uploads rely on survives steps that start no upload.  *)
LEMMA MovedUpload ==
  ASSUME UploadInv, t'.id = t.id, t'.kind = t.kind, UNCHANGED last,
         verified \subseteq verified', t'.phase = "prepared" => t.phase = "prepared",
         \A g \in Handlers : handler'[g].pc \in UploadPoints =>
                               handler[g].pc \in UploadPoints /\ handler'[g].id = handler[g].id,
         \A g \in Handlers : handler'[g].pc = "settle" /\ handler'[g].ok =>
                               handler'[g] = handler[g] \/ handler'[g].id \in verified'
  PROVE  UploadInv'
BY Zenon DEF UploadInv

(* Nothing is transferred or queued at the start. *)
LEMMA InitIInv == Init => IInv
<1> SUFFICES ASSUME Init PROVE IInv
  OBVIOUS
<1> USE BoundAssumption DEF Init
<1>1. t \in Transfers /\ last \in Ids
  BY DEF Transfers, Ids, Kinds, Phases
<1>2. handler \in [Handlers -> Worker] /\ fetch \in Fetches /\ job \in Jobs
  BY DEF NoWorker, NoFetch, Worker, Fetches, Jobs, Points, Ids, Kinds
<1>3. FlagsOK
  BY Zenon DEF FlagsOK
<1>4. TypeOK
  BY <1>1, <1>2, <1>3 DEF TypeOK
<1>5. FilesInv /\ ChannelInv /\ ResultIsOwn
  BY DEF FilesInv, ChannelInv, ResultIsOwn, Ids
<1>6. UploadInv /\ FetchInv /\ ServiceInv /\ SelectInv /\ LateInv /\ JobInv
  BY Zenon DEF UploadInv, FetchInv, ServiceInv, SelectInv, LateInv, JobInv, UploadPoints,
     FilePoints, NoWorker, NoFetch
<1>7. Clean
  BY DEF Clean, OpenInv, RemovingInv, PartInv, RestInv, NoWorker, NoFetch, Ids
<1> QED
  BY <1>4, <1>5, <1>6, <1>7, Zenon DEF IInv, Inv

(* The requests that are one block under g_lock keep the types. *)
LEMMA RequestTypes ==
  ASSUME TypeOK, t.id = last,
         \/ \E h \in Handlers, k \in Kinds : Prepare(h, k)
         \/ \E k \in Kinds : Queue(k)
         \/ Install
         \/ Save
         \/ CancelTransfer
         \/ CancelBackup
         \/ Reboot
         \/ ExternalChange
  PROVE  TypeOK'
<1> USE BoundAssumption DEF service, flags, uiVars, fetchVars, storage, observed, LockFree
<1>1. ASSUME NEW h \in Handlers, NEW k \in Kinds, Prepare(h, k) PROVE TypeOK'
  <2>1. last' \in Ids
    <3>1. (IF k = "url" THEN "uploading" ELSE "prepared") \in Phases
      BY Zenon DEF Phases
    <3> QED
      BY <1>1, <3>1, Replacement, Zenon DEF Prepare
  <2>2. t' \in Transfers
    <3>1. (IF k = "url" THEN "uploading" ELSE "prepared") \in Phases
      BY Zenon DEF Phases
    <3> QED
      BY <1>1, <3>1, Replacement, Zenon DEF Prepare
  <2>3. files' \in FileSets /\ removing' \in Ids
    <3>1. (IF k = "url" THEN "uploading" ELSE "prepared") \in Phases
      BY Zenon DEF Phases
    <3> QED
      BY <1>1, <3>1, Replacement, Zenon DEF Prepare
  <2>4. handler' \in [Handlers -> Worker]
    <3>1. UNCHANGED handler \/ handler' = [handler EXCEPT ![h].pc = "spawn"]
      BY <1>1, Zenon DEF Prepare, Go
    <3> QED
      BY <3>1 DEF TypeOK, Worker, Points
  <2> QED
    BY <1>1, <2>1, <2>2, <2>3, <2>4, Zenon DEF TypeOK, FlagsOK, FileSets, Prepare
<1>2. ASSUME NEW k \in Kinds, Queue(k) PROVE TypeOK'
  <2>1. last' \in Ids
    <3>1. "queued" \in Phases
      BY Zenon DEF Phases
    <3> QED
      BY <1>2, <3>1, Replacement, Zenon DEF Queue
  <2>2. t' \in Transfers
    <3>1. "queued" \in Phases
      BY Zenon DEF Phases
    <3> QED
      BY <1>2, <3>1, Replacement, Zenon DEF Queue
  <2>3. files' \in FileSets /\ removing' \in Ids
    <3>1. "queued" \in Phases
      BY Zenon DEF Phases
    <3> QED
      BY <1>2, <3>1, Replacement, Zenon DEF Queue
  <2>4. FlagsOK'
    BY <1>2, Zenon DEF TypeOK, FlagsOK, Queue
  <2> QED
    BY <1>2, <2>1, <2>2, <2>3, <2>4, Zenon DEF TypeOK, FileSets, Queue
<1>3. CASE Install
  <2>1. t' \in Transfers
    BY <1>3, Zenon DEF TypeOK, Transfers, Phases, Ids, Kinds, Install
  <2> QED
    BY <1>3, <2>1, Zenon DEF TypeOK, FlagsOK, Install
<1>4. CASE Save
  <2>1. t' \in Transfers
    BY <1>4, Zenon DEF TypeOK, Transfers, Phases, Save
  <2>2. files' \in FileSets /\ removing' \in Ids
    <3>1. removing = 0 /\ files \in FileSets /\ removing \in Ids /\ t.id \in Ids
      BY <1>4, Zenon DEF TypeOK, FileSets, Transfers, Save
    <3>2. CASE RemoveTransferFiles(t.id, t.kind, files)
      BY <3>1, <3>2, RemovalTypes, Zenon
    <3> QED
      BY <1>4, <3>2, Zenon DEF Save
  <2> QED
    BY <1>4, <2>1, <2>2, Zenon DEF TypeOK, FlagsOK, FileSets, Save
<1>5. CASE CancelTransfer
  <2>1. t' \in Transfers
    BY <1>5, Zenon DEF TypeOK, Transfers, Phases, Ids, Kinds, CancelTransfer, Cancellable,
       ChannelJob, RemoveTransferFiles
  <2>2. files' \in FileSets /\ removing' \in Ids
    <3>1. removing = 0 /\ files \in FileSets /\ removing \in Ids /\ t.id \in Ids
      BY <1>5, Zenon DEF TypeOK, FileSets, Transfers, CancelTransfer
    <3>2. CASE RemoveTransferFiles(t.id, t.kind, files)
      BY <3>1, <3>2, RemovalTypes, Zenon
    <3>3. CASE UNCHANGED storage
      BY <3>1, <3>3, Zenon
    <3> QED
      BY <1>5, <3>2, <3>3, Zenon DEF CancelTransfer
  <2>3. FlagsOK'
    BY <1>5, Zenon DEF TypeOK, FlagsOK, CancelTransfer, Cancellable, ChannelJob,
       RemoveTransferFiles
  <2> QED
    BY <1>5, <2>1, <2>2, <2>3, Zenon DEF TypeOK, FileSets, CancelTransfer
<1>6. CASE CancelBackup
  <2>1. t' \in Transfers
    BY <1>6, Zenon DEF TypeOK, Transfers, Phases, Ids, Kinds, CancelBackup
  <2>2. FlagsOK'
    BY <1>6, Zenon DEF TypeOK, FlagsOK, CancelBackup
  <2> QED
    BY <1>6, <2>1, <2>2, Zenon DEF TypeOK, CancelBackup
<1>7. CASE Reboot
  <2>1. FlagsOK'
    BY <1>7, Zenon DEF TypeOK, FlagsOK, Reboot
  <2> QED
    BY <1>7, <2>1, Zenon DEF TypeOK, Reboot
<1>8. CASE ExternalChange
  <2>1. files' \in FileSets
    BY <1>8, Zenon DEF TypeOK, FileSets, ExternalChange
  <2> QED
    BY <1>8, <2>1, Zenon DEF TypeOK, FlagsOK, FileSets, ExternalChange
<1> QED
  BY <1>1, <1>2, <1>3, <1>4, <1>5, <1>6, <1>7, <1>8, Zenon

(* So do the steps of an upload, *)
LEMMA UploadTypes ==
  ASSUME TypeOK, ServiceInv,
         \/ \E h \in Handlers : UploadAccept(h)
         \/ \E h \in Handlers : UploadOpen(h)
         \/ \E h \in Handlers, good \in BOOLEAN : UploadReceive(h, good)
         \/ \E h \in Handlers : UploadSettle(h)
         \/ \E h \in Handlers : UploadFinish(h)
  PROVE  TypeOK'
<1> USE BoundAssumption DEF service, flags, uiVars, fetchVars, storage, observed, LockFree
<1>1. ASSUME NEW h \in Handlers, UploadAccept(h) PROVE TypeOK'
  <2>1. t' \in Transfers
    BY <1>1, Zenon DEF TypeOK, Transfers, Phases, Ids, Kinds, UploadAccept, Idle,
       ConnectionGeneration
  <2>2. handler' \in [Handlers -> Worker]
    <3>1. ConnectionGeneration \in 0..MaxToggles
      BY DEF ConnectionGeneration, ServiceInv, TypeOK
    <3> QED
      BY <1>1, <3>1, Zenon DEF TypeOK, UploadAccept, Worker, Points, Transfers
  <2> QED
    BY <1>1, <2>1, <2>2, Zenon DEF TypeOK, FlagsOK, UploadAccept
<1>2. ASSUME NEW h \in Handlers, UploadOpen(h) PROVE TypeOK'
  <2>1. files' \in FileSets
    BY <1>2, Zenon DEF TypeOK, FileSets, UploadOpen, Creatable
  <2>2. handler' \in [Handlers -> Worker]
    <3>1. Creatable(handler[h].id) \in BOOLEAN
      BY Zenon DEF Creatable
    <3>2. handler' = [handler EXCEPT ![h].pc = "receive", ![h].ok = Creatable(handler[h].id)]
      BY <1>2, Zenon DEF UploadOpen
    <3> QED
      BY <3>1, <3>2, Advance, Zenon DEF Points
  <2> QED
    BY <1>2, <2>1, <2>2, Zenon DEF TypeOK, FlagsOK, FileSets, UploadOpen
<1>3. ASSUME NEW h \in Handlers, NEW good \in BOOLEAN, UploadReceive(h, good) PROVE TypeOK'
  <2>1. handler' \in [Handlers -> Worker]
    BY <1>3 DEF TypeOK, Worker, Points, UploadReceive
  <2>2. verified' \subseteq Ids
    BY <1>3, Zenon DEF TypeOK, Worker, UploadReceive
  <2> QED
    BY <1>3, <2>1, <2>2, Zenon DEF TypeOK, FlagsOK, UploadReceive
<1>4. ASSUME NEW h \in Handlers, UploadSettle(h) PROVE TypeOK'
  <2>1. files' \in FileSets
    BY <1>4 DEF TypeOK, FileSets, UploadSettle, Renamed, Abandoned
  <2>2. handler' \in [Handlers -> Worker]
    <3>1. CASE Leave(h)
      BY <3>1 DEF Leave, NoWorker, TypeOK, Worker, Points, Ids
    <3>2. CASE handler' = [handler EXCEPT ![h].pc = "finish", ![h].ok = Keeps(handler[h])]
      <4>1. Keeps(handler[h]) \in BOOLEAN
        BY Zenon DEF Keeps
      <4> QED
        BY <3>2, <4>1, Advance, Zenon DEF Points
    <3> QED
      BY <1>4, <3>1, <3>2, Zenon DEF UploadSettle
  <2> QED
    BY <1>4, <2>1, <2>2, Zenon DEF TypeOK, FlagsOK, FileSets, UploadSettle
<1>5. ASSUME NEW h \in Handlers, UploadFinish(h) PROVE TypeOK'
  <2>1. t' \in Transfers
    BY <1>5 DEF TypeOK, Transfers, Phases, UploadFinish, Outcome
  <2>2. files' \in FileSets /\ removing' \in Ids
    <3>1. removing = 0 /\ files \in FileSets /\ removing \in Ids /\ t.id \in Ids
      BY <1>5, Zenon DEF TypeOK, FileSets, Transfers, UploadFinish
    <3>2. CASE RemoveTransferFiles(t.id, t.kind, files)
      BY <3>1, <3>2, RemovalTypes, Zenon
    <3>3. CASE UNCHANGED storage
      BY <3>1, <3>3, Zenon
    <3> QED
      BY <1>5, <3>2, <3>3, Zenon DEF UploadFinish, Live
  <2>3. handler' \in [Handlers -> Worker]
    BY <1>5 DEF TypeOK, UploadFinish, Leave, NoWorker, Worker, Points, Ids
  <2> QED
    BY <1>5, <2>1, <2>2, <2>3, Zenon DEF TypeOK, FlagsOK, FileSets, UploadFinish
<1> QED
  BY <1>1, <1>2, <1>3, <1>4, <1>5, Zenon

(* of a file command, *)
LEMMA FileTypes ==
  ASSUME TypeOK, t.id = last,
         \/ \E h \in Handlers : FileAccess(h)
         \/ \E h \in Handlers : FileDone(h)
         \/ \E h \in Handlers : SelectExisting(h)
         \/ \E h \in Handlers : ReviewExisting(h)
  PROVE  TypeOK'
<1> USE BoundAssumption DEF service, flags, uiVars, fetchVars, storage, observed, LockFree
<1>1. ASSUME NEW h \in Handlers, FileAccess(h) PROVE TypeOK'
  <2>1. handler' \in [Handlers -> Worker]
    <3>1. handler' = [handler EXCEPT ![h].pc = "select"] /\ "select" \in Points
      BY <1>1, Zenon DEF FileAccess, Go, Points
    <3> QED
      BY <3>1, Zenon DEF TypeOK, Worker
  <2>2. FlagsOK'
    BY <1>1, Zenon DEF TypeOK, FlagsOK, FileAccess
  <2> QED
    BY <1>1, <2>1, <2>2, Zenon DEF TypeOK, FileAccess
<1>2. ASSUME NEW h \in Handlers, FileDone(h) PROVE TypeOK'
  <2>1. handler' \in [Handlers -> Worker]
    BY <1>2 DEF TypeOK, Worker, Points, Ids, FileDone, Leave, NoWorker
  <2>2. FlagsOK'
    BY <1>2, Zenon DEF TypeOK, FlagsOK, FileDone, Leave, NoWorker
  <2> QED
    BY <1>2, <2>1, <2>2, Zenon DEF TypeOK, FileDone
<1>3. ASSUME NEW h \in Handlers, SelectExisting(h) PROVE TypeOK'
  <2>1. last' \in Ids
    <3>1. "prepared" \in Phases
      BY Zenon DEF Phases
    <3> QED
      BY <1>3, <3>1, Replacement, Zenon DEF SelectExisting, Kinds
  <2>2. t' \in Transfers
    <3>1. "prepared" \in Phases
      BY Zenon DEF Phases
    <3> QED
      BY <1>3, <3>1, Replacement, Zenon DEF SelectExisting, Kinds
  <2>3. files' \in FileSets /\ removing' \in Ids
    <3>1. "prepared" \in Phases
      BY Zenon DEF Phases
    <3> QED
      BY <1>3, <3>1, Replacement, Zenon DEF SelectExisting, Kinds
  <2>4. handler' \in [Handlers -> Worker]
    <3>1. last + 1 \in Ids
      BY <1>3 DEF TypeOK, Ids, SelectExisting, Replace
    <3> QED
      BY <1>3, <3>1 DEF TypeOK, SelectExisting, Worker, Points
  <2> QED
    BY <1>3, <2>1, <2>2, <2>3, <2>4, Zenon DEF TypeOK, FlagsOK, FileSets, SelectExisting
<1>4. ASSUME NEW h \in Handlers, ReviewExisting(h) PROVE TypeOK'
  <2>1. t' \in Transfers
    BY <1>4, Zenon DEF TypeOK, Transfers, Phases, Ids, Kinds, ReviewExisting, Leave, NoWorker
  <2>2. handler' \in [Handlers -> Worker]
    BY <1>4 DEF TypeOK, Worker, Points, Ids, ReviewExisting, Leave, NoWorker
  <2>3. FlagsOK'
    BY <1>4, Zenon DEF TypeOK, FlagsOK, ReviewExisting, Leave, NoWorker
  <2> QED
    BY <1>4, <2>1, <2>2, <2>3, Zenon DEF TypeOK, ReviewExisting
<1> QED
  BY <1>1, <1>2, <1>3, <1>4, Zenon

(* of a download, *)
LEMMA FetchTypes ==
  ASSUME TypeOK,
         \/ \E h \in Handlers : Spawn(h)
         \/ FetchOpen
         \/ \E good \in BOOLEAN : FetchReceive(good)
         \/ FetchSettle
         \/ FetchRename
         \/ FetchFinish
  PROVE  TypeOK'
<1> USE BoundAssumption DEF service, flags, uiVars, fetchVars, storage, observed, LockFree
<1>1. ASSUME NEW h \in Handlers, Spawn(h) PROVE TypeOK'
  <2>1. handler' \in [Handlers -> Worker]
    BY <1>1 DEF TypeOK, Worker, Points, Ids, Spawn, Leave, NoWorker
  <2>2. fetch' \in Fetches
    BY <1>1, Zenon DEF TypeOK, Fetches, Points, Transfers, Spawn
  <2>3. FlagsOK'
    BY <1>1, Zenon DEF TypeOK, FlagsOK, Spawn
  <2> QED
    BY <1>1, <2>1, <2>2, <2>3, Zenon DEF TypeOK, Spawn
<1>2. CASE FetchOpen
  <2>1. files' \in FileSets
    BY <1>2, Zenon DEF TypeOK, FileSets, FetchOpen, Creatable
  <2>2. fetch' \in Fetches
    BY <1>2, Zenon DEF TypeOK, Fetches, Points, Ids, Kinds, Transfers, FetchOpen, Creatable
  <2> QED
    BY <1>2, <2>1, <2>2, Zenon DEF TypeOK, FlagsOK, FileSets, FetchOpen
<1>3. ASSUME NEW good \in BOOLEAN, FetchReceive(good) PROVE TypeOK'
  <2>1. fetch' \in Fetches
    BY <1>3, Zenon DEF TypeOK, Fetches, Points, Ids, Kinds, Transfers, FetchReceive, Current,
       Live
  <2>2. verified' \subseteq Ids
    BY <1>3, Zenon DEF TypeOK, Worker, Fetches, FetchReceive, Current, Live
  <2> QED
    BY <1>3, <2>1, <2>2, Zenon DEF TypeOK, FlagsOK, FileSets, FetchReceive
<1>4. CASE FetchSettle
  <2>1. fetch' \in Fetches
    BY <1>4, Zenon DEF TypeOK, Fetches, Points, Ids, Kinds, Transfers, FetchSettle, Current, Live
  <2> QED
    BY <1>4, <2>1, Zenon DEF TypeOK, FlagsOK, FetchSettle
<1>5. CASE FetchRename
  <2>1. files' \in FileSets
    BY <1>5, Zenon DEF TypeOK, FileSets, FetchRename, Renamed
  <2>2. fetch' \in Fetches
    BY <1>5, Zenon DEF TypeOK, Fetches, Points, Ids, Kinds, Transfers, FetchRename, Renamed
  <2> QED
    BY <1>5, <2>1, <2>2, Zenon DEF TypeOK, FlagsOK, FileSets, FetchRename
<1>6. CASE FetchFinish
  <2>1. t' \in Transfers
    BY <1>6, Zenon DEF TypeOK, Transfers, Phases, FetchFinish, Outcome
  <2>2. files' \in FileSets /\ removing' \in Ids
    <3>1. removing = 0 /\ files \in FileSets /\ removing \in Ids /\ fetch.id \in Ids
      BY <1>6, Zenon DEF TypeOK, FileSets, Fetches, FetchFinish
    <3>2. CASE RemoveTransferFiles(fetch.id, fetch.kind, files)
      BY <3>1, <3>2, RemovalTypes, Zenon
    <3>3. CASE UNCHANGED storage
      BY <3>1, <3>3, Zenon
    <3> QED
      BY <1>6, <3>2, <3>3, Zenon DEF FetchFinish
  <2>3. fetch' \in Fetches
    BY <1>6 DEF Fetches, Points, Ids, Kinds, FetchFinish, NoFetch
  <2> QED
    BY <1>6, <2>1, <2>2, <2>3, Zenon DEF TypeOK, FlagsOK, FileSets, FetchFinish
<1> QED
  BY <1>1, <1>2, <1>3, <1>4, <1>5, <1>6, Zenon

(* of the UI thread around jobs, *)
LEMMA UiTypes ==
  ASSUME TypeOK,
         \/ \E b \in BOOLEAN : Poll(b)
         \/ TakeReboot
         \/ TakeInstall
         \/ \E s \in {"running", "deferred"} : BeginInstall(s)
         \/ \E b \in BOOLEAN : Resume(b)
         \/ LocalJob
         \/ \E b \in BOOLEAN : JobDone(b)
  PROVE  TypeOK'
<1> USE BoundAssumption DEF service, flags, uiVars, fetchVars, storage, observed, LockFree
<1>1. ASSUME NEW b \in BOOLEAN, Poll(b) PROVE TypeOK'
  <2>1. FlagsOK'
    BY <1>1, Zenon DEF TypeOK, FlagsOK, Poll
  <2> QED
    BY <1>1, <2>1, Zenon DEF TypeOK, Poll
<1>2. CASE TakeReboot
  <2>1. FlagsOK'
    BY <1>2, Zenon DEF TypeOK, FlagsOK, TakeReboot
  <2> QED
    BY <1>2, <2>1, Zenon DEF TypeOK, TakeReboot
<1>3. CASE TakeInstall
  <2>1. t' \in Transfers
    BY <1>3, Zenon DEF TypeOK, Transfers, Phases, Ids, Kinds, TakeInstall, PollFree
  <2>2. ui' \in {"idle", "taken", "joining", "clearing"}
    BY <1>3, Zenon DEF TakeInstall
  <2>3. taken' \in Ids
    BY <1>3, Zenon DEF TypeOK, Transfers, TakeInstall
  <2> QED
    BY <1>3, <2>1, <2>3, Zenon DEF TypeOK, FlagsOK, TakeInstall
<1>4. ASSUME NEW s \in {"running", "deferred"}, BeginInstall(s) PROVE TypeOK'
  <2>1. t' \in Transfers
    BY <1>4, Zenon DEF TypeOK, Transfers, Phases, BeginInstall
  <2>2. ui' \in {"idle", "taken", "joining", "clearing"}
    BY <1>4, Zenon DEF BeginInstall
  <2>3. taken' \in Ids
    BY <1>4 DEF BeginInstall, Ids
  <2>4. job' \in Jobs /\ pcJob' \in Ids
    BY <1>4 DEF TypeOK, Jobs, BeginInstall, Start
  <2> QED
    BY <1>4, <2>1, <2>3, <2>4, Zenon DEF TypeOK, FlagsOK, BeginInstall
<1>5. ASSUME NEW b \in BOOLEAN, Resume(b) PROVE TypeOK'
  <2>1. job' \in Jobs /\ pcJob' \in Ids
    BY <1>5 DEF TypeOK, Jobs, Ids, Resume
  <2>2. FlagsOK'
    BY <1>5, Zenon DEF TypeOK, FlagsOK, Resume
  <2> QED
    BY <1>5, <2>1, <2>2, Zenon DEF TypeOK, Resume
<1>6. CASE LocalJob
  <2>1. job' \in Jobs /\ pcJob' \in Ids
    BY <1>6 DEF TypeOK, Jobs, Ids, LocalJob
  <2> QED
    BY <1>6, <2>1, Zenon DEF TypeOK, FlagsOK, LocalJob
<1>7. ASSUME NEW b \in BOOLEAN, JobDone(b) PROVE TypeOK'
  <2>1. t' \in Transfers
    BY <1>7, Zenon DEF TypeOK, Transfers, Phases, JobDone
  <2>2. files' \in FileSets /\ removing' \in Ids
    <3>1. removing = 0 /\ files \in FileSets /\ removing \in Ids /\ t.id \in Ids
      BY <1>7, Zenon DEF TypeOK, FileSets, Transfers, JobDone
    <3>2. CASE RemoveTransferFiles(t.id, t.kind, files)
      BY <3>1, <3>2, RemovalTypes, Zenon
    <3>3. CASE UNCHANGED storage
      BY <3>1, <3>3, Zenon
    <3> QED
      BY <1>7, <3>2, <3>3, Zenon DEF JobDone
  <2>3. job' \in Jobs /\ pcJob' \in Ids
    BY <1>7 DEF Jobs, Ids, JobDone
  <2>4. succeeded' \subseteq Ids
    BY <1>7, Zenon DEF TypeOK, Jobs, JobDone
  <2>5. FlagsOK'
    BY <1>7, Zenon DEF TypeOK, FlagsOK, JobDone, ChannelJob, RemoveTransferFiles
  <2> QED
    BY <1>7, <2>1, <2>2, <2>3, <2>4, <2>5, Zenon DEF TypeOK, FileSets, JobDone
<1> QED
  BY <1>1, <1>2, <1>3, <1>4, <1>5, <1>6, <1>7, Zenon

(* and of switching the service. *)
LEMMA SwitchTypes ==
  ASSUME TypeOK,
         \/ Disable
         \/ DisableJoin
         \/ DisableClear
         \/ Enable
  PROVE  TypeOK'
<1> USE BoundAssumption DEF service, flags, uiVars, fetchVars, storage, observed, LockFree
<1>1. CASE Disable
  <2>1. generation' \in 0..MaxToggles
    BY <1>1 DEF TypeOK, Disable
  <2>2. ui' \in {"idle", "taken", "joining", "clearing"}
    BY <1>1, Zenon DEF Disable
  <2>3. FlagsOK'
    BY <1>1, Zenon DEF TypeOK, FlagsOK, Disable
  <2> QED
    BY <1>1, <2>3 DEF TypeOK, Disable
<1>2. CASE DisableJoin
  <2>1. ui' \in {"idle", "taken", "joining", "clearing"}
    BY <1>2, Zenon DEF DisableJoin
  <2> QED
    BY <1>2, Zenon DEF TypeOK, FlagsOK, DisableJoin
<1>3. CASE DisableClear
  <2>1. t' \in Transfers
    BY <1>3, Zenon DEF TypeOK, Transfers, Phases, DisableClear
  <2>2. files' \in FileSets /\ removing' \in Ids
    <3>1. removing = 0 /\ files \in FileSets /\ removing \in Ids /\ t.id \in Ids
      BY <1>3, Zenon DEF TypeOK, FileSets, Transfers, DisableClear
    <3>2. CASE RemoveTransferFiles(t.id, t.kind, files)
      BY <3>1, <3>2, RemovalTypes, Zenon
    <3>3. CASE UNCHANGED storage
      BY <3>1, <3>3, Zenon
    <3> QED
      BY <1>3, <3>2, <3>3, Zenon DEF DisableClear
  <2>3. ui' \in {"idle", "taken", "joining", "clearing"}
    BY <1>3, Zenon DEF DisableClear
  <2>4. FlagsOK'
    BY <1>3, Zenon DEF TypeOK, FlagsOK, DisableClear, Settled, RemoveTransferFiles
  <2> QED
    BY <1>3, <2>1, <2>2, <2>4, Zenon DEF TypeOK, FileSets, DisableClear
<1>4. CASE Enable
  <2>1. generation' \in 0..MaxToggles
    BY <1>4 DEF TypeOK, Enable
  <2>2. FlagsOK'
    BY <1>4, Zenon DEF TypeOK, FlagsOK, Enable
  <2> QED
    BY <1>4, <2>2 DEF TypeOK, Enable
<1> QED
  BY <1>1, <1>2, <1>3, <1>4, Zenon

(* The requests that are one block under g_lock keep the rest of the invariant. *)
LEMMA RequestKeeps ==
  ASSUME IInv,
         \/ \E h \in Handlers, k \in Kinds : Prepare(h, k)
         \/ \E k \in Kinds : Queue(k)
         \/ Install
         \/ Save
         \/ CancelTransfer
         \/ CancelBackup
         \/ Reboot
         \/ ExternalChange
  PROVE  Inv'
<1> USE BoundAssumption DEF service, flags, uiVars, fetchVars, storage, observed, LockFree
<1>1. ASSUME NEW h \in Handlers, NEW k \in Kinds, Prepare(h, k) PROVE Inv'
  <2>1. ServiceInv' /\ JobInv'
    BY <1>1, Zenon DEF IInv, Inv, ServiceInv, JobInv, Prepare
  <2>2. FilesInv'
    <3>1. (IF k = "url" THEN "uploading" ELSE "prepared") \in Phases
      BY Zenon DEF Phases
    <3> QED
      BY <1>1, <3>1, ReplacementFiles, Zenon DEF IInv, Inv, Prepare
  <2>3. UploadInv'
    <3>0. (IF k = "url" THEN "uploading" ELSE "prepared") \in Phases
      BY Zenon DEF Phases
    <3>1. /\ last' = last + 1 /\ t'.id = last + 1 /\ t'.kind = k
          /\ t'.phase = IF k = "url" THEN "uploading" ELSE "prepared"
      BY <1>1, <3>0, Replacement, Zenon DEF IInv, Inv, FilesInv, Prepare
    <3>2. /\ handler \in [Handlers -> Worker] /\ handler[h].pc = "none"
          /\ UNCHANGED <<verified, fileBusy, lateFetch>> /\ ~fileBusy
      BY <1>1, Zenon DEF IInv, TypeOK, Prepare, Idle, Free
    <3>3. /\ handler'[h].pc \in {"none", "spawn"}
          /\ \A g \in Handlers : g # h => handler'[g] = handler[g]
      BY <1>1, <3>2, Zenon DEF Prepare, Go, Worker
    <3> QED
      <4>1. \A g \in Handlers : handler'[g].pc \in UploadPoints => handler'[g] = handler[g]
        BY <3>3, Zenon DEF UploadPoints
      <4>2. \A g \in Handlers : handler[g].pc \in UploadPoints =>
              handler[g].id <= last' /\ handler[g].id # t'.id
        BY <3>1, <3>2 DEF IInv, Inv, TypeOK, UploadInv, Worker, Ids
      <4>3. \A g \in Handlers : handler'[g].pc = "settle" => handler'[g].pc \in UploadPoints
        BY Zenon DEF UploadPoints
      <4> QED
        BY <3>2, <4>1, <4>2, <4>3, Zenon DEF IInv, Inv, UploadInv
  <2>4. FetchInv'
    <3>1. (IF k = "url" THEN "uploading" ELSE "prepared") \in Phases
      BY Zenon DEF Phases
    <3> QED
      BY <1>1, <3>1, ReplacementFetch, Zenon DEF IInv, Inv, FilesInv, Prepare
  <2>5. SelectInv'
    <3>0. (IF k = "url" THEN "uploading" ELSE "prepared") \in Phases
      BY Zenon DEF Phases
    <3>1. /\ last' = last + 1 /\ t'.id = last + 1 /\ t'.kind = k
          /\ t'.phase = IF k = "url" THEN "uploading" ELSE "prepared"
      BY <1>1, <3>0, Replacement, Zenon DEF IInv, Inv, FilesInv, Prepare
    <3>2. /\ handler \in [Handlers -> Worker] /\ handler[h].pc = "none"
          /\ UNCHANGED <<verified, fileBusy, lateFetch>> /\ ~fileBusy
      BY <1>1, Zenon DEF IInv, TypeOK, Prepare, Idle, Free
    <3>3. /\ handler'[h].pc \in {"none", "spawn"}
          /\ \A g \in Handlers : g # h => handler'[g] = handler[g]
      BY <1>1, <3>2, Zenon DEF Prepare, Go, Worker
    <3> QED
      BY <3>2, <3>3, Zenon DEF IInv, Inv, SelectInv, FilePoints
  <2>6. LateInv'
    BY <1>1 DEF IInv, Inv, TypeOK, FetchInv, LateInv, UploadPoints, Ids, Prepare, Idle, Replace,
       NewTransfer
  <2>7. ChannelInv'
    BY <1>1, Zenon DEF IInv, Inv, ChannelInv, TerminalPhase, Prepare, Free, Replace,
       NewTransfer
  <2>8. ResultIsOwn'
    BY <1>1, Zenon DEF ResultIsOwn, Prepare, Replace, NewTransfer
  <2> QED
    BY <2>1, <2>2, <2>3, <2>4, <2>5, <2>6, <2>7, <2>8, Zenon DEF Inv
<1>2. ASSUME NEW k \in Kinds, Queue(k) PROVE Inv'
  <2>1. ServiceInv' /\ JobInv'
    BY <1>2, Zenon DEF IInv, Inv, ServiceInv, JobInv, Queue
  <2>2. FilesInv'
    <3>1. "queued" \in Phases
      BY Zenon DEF Phases
    <3> QED
      BY <1>2, <3>1, ReplacementFiles, Zenon DEF IInv, Inv, Queue
  <2>3. UploadInv'
    BY <1>2 DEF IInv, Inv, TypeOK, UploadInv, Worker, Ids, Queue, Replace, NewTransfer
  <2>4. FetchInv'
    <3>1. "queued" \in Phases
      BY Zenon DEF Phases
    <3> QED
      BY <1>2, <3>1, ReplacementFetch, Zenon DEF IInv, Inv, FilesInv, Queue
  <2>5. SelectInv'
    BY <1>2, Zenon DEF IInv, Inv, SelectInv, FilePoints, Queue, Free
  <2>6. LateInv'
    BY <1>2 DEF IInv, Inv, TypeOK, FetchInv, LateInv, Ids, Queue, Replace, NewTransfer
  <2>7. ChannelInv'
    BY <1>2, Zenon DEF IInv, Inv, TypeOK, FlagsOK, ChannelInv, TerminalPhase, Queue, Free,
       Replace, NewTransfer
  <2>8. ResultIsOwn'
    BY <1>2, Zenon DEF ResultIsOwn, Queue, Replace, NewTransfer
  <2> QED
    BY <2>1, <2>2, <2>3, <2>4, <2>5, <2>6, <2>7, <2>8, Zenon DEF Inv
<1>3. CASE Install
  <2>1. ServiceInv' /\ JobInv'
    BY <1>3, Zenon DEF IInv, Inv, ServiceInv, JobInv, Install
  <2>2. FilesInv'
    BY <1>3 DEF IInv, Inv, FilesInv, Install
  <2>3. UploadInv'
    BY <1>3 DEF IInv, Inv, UploadInv, Install
  <2>4. FetchInv'
    BY <1>3 DEF IInv, Inv, FetchInv, Install
  <2>5. SelectInv'
    BY <1>3, Zenon DEF IInv, Inv, SelectInv, TerminalPhase, Install
  <2>6. LateInv'
    BY <1>3 DEF IInv, Inv, LateInv, TerminalPhase, Install
  <2>7. ChannelInv'
    BY <1>3 DEF IInv, Inv, ChannelInv, TerminalPhase, Install
  <2>8. ResultIsOwn'
    BY <1>3 DEF ResultIsOwn, Install
  <2> QED
    BY <2>1, <2>2, <2>3, <2>4, <2>5, <2>6, <2>7, <2>8, Zenon DEF Inv
<1>4. CASE Save
  <2>1. ServiceInv' /\ JobInv'
    BY <1>4, Zenon DEF IInv, Inv, ServiceInv, JobInv, Save
  <2>2. FilesInv'
    <3>1. TypeOK /\ FilesInv /\ t.id \in Ids
      BY Zenon DEF IInv, Inv, TypeOK, Transfers
    <3>2. /\ t'.id = t.id /\ t'.kind = t.kind /\ removing = 0 /\ TerminalPhase(t'.phase)
          /\ UNCHANGED <<last, verified, overtaken, lateFetch>>
      BY <1>4, Zenon DEF Save, TerminalPhase, IInv, TypeOK, Transfers
    <3> QED
      BY <1>4, <3>1, <3>2, RemovalFiles, Zenon DEF Save
  <2>3. UploadInv'
    BY <1>4 DEF IInv, Inv, UploadInv, Save
  <2>4. FetchInv'
    <3>1. TypeOK /\ FetchInv /\ t.id \in Ids
      BY Zenon DEF IInv, Inv, TypeOK, Transfers
    <3>2. /\ t'.id = t.id /\ t'.kind = t.kind /\ removing = 0
          /\ UNCHANGED <<last, verified, generation, fetchVars>>
      BY <1>4, Zenon DEF Save, IInv, TypeOK, Transfers
    <3>3. CASE RemoveTransferFiles(t.id, t.kind, files)
      BY <3>1, <3>2, <3>3, RemovalFetch, Zenon
    <3> QED
      BY <1>4, <3>3, Zenon DEF Save
  <2>5. SelectInv'
    BY <1>4, Zenon DEF IInv, Inv, SelectInv, FilePoints, Save
  <2>6. LateInv'
    BY <1>4 DEF IInv, Inv, FetchInv, LateInv, Save
  <2>7. ChannelInv'
    BY <1>4 DEF IInv, Inv, TypeOK, FilesInv, ChannelInv, Save, RemoveTransferFiles
  <2>8. ResultIsOwn'
    BY <1>4 DEF ResultIsOwn, Save
  <2> QED
    BY <2>1, <2>2, <2>3, <2>4, <2>5, <2>6, <2>7, <2>8, Zenon DEF Inv
<1>5. CASE CancelTransfer
  <2>1. ServiceInv' /\ JobInv'
    BY <1>5, Zenon DEF IInv, Inv, ServiceInv, JobInv, CancelTransfer
  <2>2. FilesInv'
    <3>0. TypeOK /\ FilesInv /\ t.id \in Ids
      BY Zenon DEF IInv, Inv, TypeOK, Transfers
    <3>1. /\ t'.id = t.id /\ t'.kind = t.kind /\ removing = 0
          /\ UNCHANGED <<last, verified, overtaken, lateFetch>>
      BY <1>5, Zenon DEF CancelTransfer, IInv, TypeOK, Transfers
    <3>2. CASE UNCHANGED storage
      BY <3>0, <3>1, <3>2, SameFiles, Zenon
    <3>3. CASE TerminalPhase(t'.phase) /\ RemoveTransferFiles(t.id, t.kind, files)
      BY <3>0, <3>1, <3>3, RemovalFiles, Zenon
    <3> QED
      BY <1>5, <3>2, <3>3, <3>1, Zenon DEF CancelTransfer, TerminalPhase, Outcome, IInv, TypeOK, Transfers
  <2>3. UploadInv'
    BY <1>5, Zenon DEF IInv, Inv, TypeOK, UploadInv, Transfers, CancelTransfer
  <2>4. FetchInv'
    <3>1. TypeOK /\ FetchInv /\ t.id \in Ids
      BY Zenon DEF IInv, Inv, TypeOK, Transfers
    <3>2. /\ t'.id = t.id /\ t'.kind = t.kind /\ removing = 0
          /\ UNCHANGED <<last, verified, generation, fetchVars>>
      BY <1>5, Zenon DEF CancelTransfer, IInv, TypeOK, Transfers
    <3>3. CASE RemoveTransferFiles(t.id, t.kind, files)
      BY <3>1, <3>2, <3>3, RemovalFetch, Zenon
    <3>4. CASE UNCHANGED storage
      BY <3>1, <3>2, <3>4, Zenon DEF FetchInv
    <3> QED
      BY <1>5, <3>3, <3>4, Zenon DEF CancelTransfer
  <2>5. SelectInv'
    BY <1>5, Zenon DEF IInv, Inv, SelectInv, CancelTransfer, Cancellable
  <2>6. LateInv'
    BY <1>5, Zenon DEF IInv, Inv, TypeOK, LateInv, Transfers, CancelTransfer, Cancellable
  <2>7. ChannelInv'
    BY <1>5 DEF IInv, Inv, TypeOK, FlagsOK, FilesInv, ChannelInv, Transfers, CancelTransfer,
       ChannelJob, RemoveTransferFiles
  <2>8. ResultIsOwn'
    BY <1>5, Zenon DEF IInv, TypeOK, ResultIsOwn, Transfers, CancelTransfer
  <2> QED
    BY <2>1, <2>2, <2>3, <2>4, <2>5, <2>6, <2>7, <2>8, Zenon DEF Inv
<1>6. CASE CancelBackup
  <2>1. ServiceInv' /\ JobInv'
    BY <1>6, Zenon DEF IInv, Inv, ServiceInv, JobInv, CancelBackup
  <2>2. FilesInv'
    BY <1>6 DEF IInv, Inv, FilesInv, CancelBackup
  <2>3. UploadInv'
    BY <1>6 DEF IInv, Inv, UploadInv, CancelBackup
  <2>4. FetchInv'
    BY <1>6 DEF IInv, Inv, FetchInv, CancelBackup
  <2>5. SelectInv'
    BY <1>6, Zenon DEF IInv, Inv, SelectInv, TerminalPhase, CancelBackup
  <2>6. LateInv'
    BY <1>6 DEF IInv, Inv, FetchInv, LateInv, CancelBackup
  <2>7. ChannelInv'
    BY <1>6 DEF IInv, Inv, TypeOK, FilesInv, ChannelInv, HasDirectory, CancelBackup
  <2>8. ResultIsOwn'
    BY <1>6 DEF ResultIsOwn, CancelBackup
  <2> QED
    BY <2>1, <2>2, <2>3, <2>4, <2>5, <2>6, <2>7, <2>8, Zenon DEF Inv
<1>7. CASE Reboot
  <2>1. /\ UNCHANGED <<t, last, storage, observed, running, generation, fetch, lateFetch, channel, ui,
                      succeeded, dropped>>
        /\ UNCHANGED <<handler, fileBusy, job, pcJob>>
    BY <1>7, Zenon DEF Reboot
  <2> QED
    BY <2>1, Untouched, Zenon DEF IInv, Inv
<1>8. CASE ExternalChange
  <2>1. UploadInv' /\ ServiceInv' /\ SelectInv' /\ JobInv' /\ ResultIsOwn'
    BY <1>8, Zenon DEF IInv, Inv, UploadInv, ServiceInv, SelectInv, JobInv, ResultIsOwn,
       ExternalChange
  <2>2. FilesInv'
    BY <1>8 DEF IInv, Inv, FilesInv, ExternalChange
  <2>3. FetchInv'
    BY <1>8 DEF IInv, Inv, FetchInv, ExternalChange
  <2>4. LateInv'
    <3>1. /\ UNCHANGED <<t, fetch, lateFetch, running, generation>>
          /\ "dir" \in files'[t.id] => "dir" \in files[t.id]
      BY <1>8 DEF ExternalChange, IInv, TypeOK
    <3> QED
      BY <3>1, Zenon DEF IInv, Inv, LateInv, Stale
  <2>5. ChannelInv'
    BY <1>8 DEF IInv, Inv, ChannelInv, ExternalChange
  <2> QED
    BY <2>1, <2>2, <2>3, <2>4, <2>5, Zenon DEF Inv
<1> QED
  BY <1>1, <1>2, <1>3, <1>4, <1>5, <1>6, <1>7, <1>8, Zenon

(* The steps of an upload keep the rest of the invariant. *)
LEMMA UploadKeeps ==
  ASSUME IInv,
         \/ \E h \in Handlers : UploadAccept(h)
         \/ \E h \in Handlers : UploadOpen(h)
         \/ \E h \in Handlers, good \in BOOLEAN : UploadReceive(h, good)
         \/ \E h \in Handlers : UploadSettle(h)
         \/ \E h \in Handlers : UploadFinish(h)
  PROVE  Inv'
<1> USE BoundAssumption DEF service, flags, uiVars, fetchVars, storage, observed, LockFree
<1>1. ASSUME NEW h \in Handlers, UploadAccept(h) PROVE Inv'
  <2>1. ServiceInv' /\ JobInv'
    BY <1>1, Zenon DEF IInv, Inv, ServiceInv, JobInv, UploadAccept
  <2>2. FilesInv'
    BY <1>1 DEF IInv, Inv, FilesInv, UploadAccept
  <2>3. UploadInv'
    BY <1>1 DEF IInv, Inv, TypeOK, FilesInv, UploadInv, Ids, UploadAccept
  <2>4. FetchInv'
    BY <1>1 DEF IInv, Inv, FetchInv, UploadAccept
  <2>5. SelectInv'
    BY <1>1 DEF IInv, Inv, SelectInv, TerminalPhase, FilePoints, UploadAccept
  <2>6. LateInv'
    BY <1>1 DEF LateInv, UploadAccept
  <2>7. ChannelInv'
    BY <1>1 DEF IInv, Inv, ChannelInv, TerminalPhase, UploadAccept
  <2>8. ResultIsOwn'
    BY <1>1 DEF ResultIsOwn, UploadAccept
  <2> QED
    BY <2>1, <2>2, <2>3, <2>4, <2>5, <2>6, <2>7, <2>8, Zenon DEF Inv
<1>2. ASSUME NEW h \in Handlers, UploadOpen(h) PROVE Inv'
  <2>1. ServiceInv' /\ JobInv' /\ ResultIsOwn'
    BY <1>2, Zenon DEF IInv, Inv, ServiceInv, JobInv, ResultIsOwn, UploadOpen
  <2>2. FilesInv'
    <3> DEFINE i == handler[h].id
    <3>1. /\ UNCHANGED <<t, last, removing, verified, overtaken, lateFetch>>
          /\ files' = IF Creatable(i) THEN [files EXCEPT ![i] = @ \cup {"part"}] ELSE files
      BY <1>2, Zenon DEF UploadOpen
    <3>2. files \in FileSets /\ i \in Ids
      BY Zenon DEF IInv, TypeOK, Worker, FileSets
    <3>3. \A j \in Ids : \/ files'[j] = files[j]
                         \/ files'[j] = files[j] \cup {"part"} /\ "dir" \in files[j]
      BY <3>1, <3>2, Zenon DEF Creatable, FileSets
    <3>4. t.id \in Ids
      BY Zenon DEF IInv, TypeOK, Transfers
    <3> QED
      BY <3>1, <3>3, <3>4 DEF IInv, Inv, FilesInv
  <2>3. UploadInv'
    BY <1>2 DEF IInv, Inv, TypeOK, UploadInv, UploadPoints, UploadOpen
  <2>4. FetchInv'
    BY <1>2 DEF IInv, Inv, FetchInv, UploadOpen
  <2>5. SelectInv'
    BY <1>2 DEF IInv, Inv, TypeOK, SelectInv, FilePoints, UploadOpen
  <2>6. LateInv'
    BY <1>2 DEF IInv, Inv, LateInv, Stale, UploadOpen
  <2>7. ChannelInv'
    BY <1>2 DEF IInv, Inv, ChannelInv, UploadOpen
  <2> QED
    BY <2>1, <2>2, <2>3, <2>4, <2>5, <2>6, <2>7, Zenon DEF Inv
<1>3. ASSUME NEW h \in Handlers, NEW good \in BOOLEAN, UploadReceive(h, good) PROVE Inv'
  <2>1. ServiceInv' /\ LateInv' /\ JobInv' /\ ChannelInv' /\ ResultIsOwn'
    BY <1>3, Zenon DEF IInv, Inv, ServiceInv, LateInv, JobInv, ChannelInv, ResultIsOwn,
       UploadReceive, Stale
  <2>2. FilesInv'
    BY <1>3, Zenon DEF IInv, Inv, FilesInv, UploadReceive
  <2>3. UploadInv'
    BY <1>3 DEF IInv, Inv, TypeOK, UploadInv, UploadPoints, UploadReceive
  <2>4. FetchInv'
    BY <1>3, Zenon DEF IInv, Inv, FetchInv, UploadReceive
  <2>5. SelectInv'
    BY <1>3 DEF IInv, Inv, TypeOK, SelectInv, FilePoints, UploadReceive
  <2> QED
    BY <2>1, <2>2, <2>3, <2>4, <2>5, Zenon DEF Inv
<1>4. ASSUME NEW h \in Handlers, UploadSettle(h) PROVE Inv'
  <2>1. ServiceInv' /\ JobInv' /\ ResultIsOwn'
    BY <1>4, Zenon DEF IInv, Inv, ServiceInv, JobInv, ResultIsOwn, UploadSettle
  <2>2. FilesInv'
    <3>0. UNCHANGED <<t, last, removing, verified, overtaken, lateFetch>> /\ files \in FileSets /\ handler[h].id \in Ids
      BY <1>4, Zenon DEF UploadSettle, IInv, TypeOK, FileSets, Worker
    <3>1. CASE files' = files
      BY <1>4, <3>0, <3>1, SameFiles, Zenon DEF IInv, Inv, UploadSettle
    <3>2. CASE Keeps(handler[h]) /\ files' = Renamed(handler[h].id)
      <4>1. handler[h].id \in verified /\ "part" \in files[handler[h].id]
        BY <1>4, <3>2, Zenon DEF Keeps, UploadSettle, IInv, Inv, UploadInv
      <4> QED
        BY <3>0, <3>2, <4>1, RenamedFiles, Zenon DEF IInv, Inv
    <3>3. CASE files' = Abandoned(handler[h].id)
      <4>1. /\ \A j \in Ids : j # handler[h].id => files'[j] = files[j]
            /\ files'[handler[h].id] = files[handler[h].id] \ {"part"}
        BY <3>0, <3>3, Zenon DEF FileSets, Abandoned
      <4>2. \A j \in Ids : /\ files[j] = {} => files'[j] = {}
                           /\ "dir" \in files'[j] <=> "dir" \in files[j]
                           /\ "payload" \in files'[j] <=> "payload" \in files[j]
                           /\ "part" \in files'[j] => "part" \in files[j]
        BY <4>1, Zenon
      <4>3. FilesInv /\ t.id \in Ids /\ removing = 0 /\ 0 \in Ids
        BY <1>4 DEF IInv, Inv, TypeOK, Transfers, Ids, UploadSettle
      <4> QED
        BY <3>0, <4>2, <4>3, Zenon DEF FilesInv
    <3> QED
      BY <1>4, <3>1, <3>2, <3>3, Zenon DEF UploadSettle
  <2>3. UploadInv'
    <3>0. /\ handler \in [Handlers -> Worker] /\ handler[h].pc = "settle" /\ handler[h].id \in Ids
          /\ UNCHANGED <<t, last, verified, fileBusy, lateFetch>>
      BY <1>4, Zenon DEF IInv, TypeOK, Worker, UploadSettle
    <3>1. handler'[h].pc \in {"finish", "none"} /\ (handler'[h].pc = "finish" => handler'[h].id = handler[h].id)
      BY <1>4, <3>0 DEF UploadSettle, Leave, NoWorker, Worker
    <3>2. \A g \in Handlers : g # h => handler'[g] = handler[g]
      BY <1>4, <3>0, Zenon DEF UploadSettle, Leave
    <3>3. \A g \in Handlers : handler'[g].pc \in UploadPoints =>
            handler[g].pc \in UploadPoints /\ handler'[g].id = handler[g].id
      BY <3>0, <3>1, <3>2, Zenon DEF UploadPoints
    <3>4. \A g \in Handlers : handler'[g].pc = "settle" /\ handler'[g].ok => handler'[g] = handler[g]
      BY <3>1, <3>2, Zenon
    <3> QED
      BY <3>0, <3>3, <3>4, MovedUpload, Zenon DEF IInv, Inv
  <2>4. FetchInv'
    <3>1. UNCHANGED <<t, last, verified, generation, fetchVars>>
      BY <1>4, Zenon DEF UploadSettle
    <3>2. files \in FileSets /\ handler[h].id \in Ids /\ fetch.id \in Ids
      BY Zenon DEF IInv, TypeOK, FileSets, Worker, Fetches
    <3>3. CASE files' = files
      BY <3>1, <3>3, Zenon DEF IInv, Inv, FetchInv
    <3>4. CASE files' = Abandoned(handler[h].id)
      <4>1. \A j \in Ids : /\ "dir" \in files'[j] <=> "dir" \in files[j]
                           /\ "payload" \in files'[j] <=> "payload" \in files[j]
        BY <3>2, <3>4 DEF FileSets, Abandoned
      <4> QED
        BY <3>1, <3>2, <4>1, Zenon DEF IInv, Inv, FetchInv
    <3>5. CASE Keeps(handler[h]) /\ files' = Renamed(handler[h].id)
      <4>1. "dir" \in files[handler[h].id]
        BY <3>2, <3>5, Zenon DEF Keeps, IInv, Inv, FilesInv
      <4>2. \A j \in Ids : /\ "dir" \in files'[j] <=> "dir" \in files[j]
                           /\ j # handler[h].id => ("payload" \in files'[j] <=> "payload" \in files[j])
        BY <3>2, <3>5 DEF FileSets, Renamed
      <4> QED
        BY <3>1, <3>2, <4>1, <4>2, Zenon DEF IInv, Inv, FetchInv
    <3> QED
      BY <1>4, <3>3, <3>4, <3>5, Zenon DEF UploadSettle
  <2>5. SelectInv'
    <3>0. /\ handler \in [Handlers -> Worker] /\ handler[h].pc = "settle" /\ handler[h].id \in Ids
          /\ UNCHANGED <<t, last, verified, fileBusy, lateFetch>>
      BY <1>4, Zenon DEF IInv, TypeOK, Worker, UploadSettle
    <3>1. handler'[h].pc \in {"finish", "none"} /\ (handler'[h].pc = "finish" => handler'[h].id = handler[h].id)
      BY <1>4, <3>0 DEF UploadSettle, Leave, NoWorker, Worker
    <3>2. \A g \in Handlers : g # h => handler'[g] = handler[g]
      BY <1>4, <3>0, Zenon DEF UploadSettle, Leave
    <3> QED
      BY <3>0, <3>1, <3>2, Zenon DEF IInv, Inv, SelectInv, FilePoints
  <2>6. LateInv'
    BY <1>4 DEF IInv, Inv, TypeOK, FilesInv, LateInv, Stale, UploadSettle, Live
  <2>7. ChannelInv'
    BY <1>4 DEF IInv, Inv, TypeOK, FilesInv, ChannelInv, TerminalPhase, UploadSettle, Live
  <2> QED
    BY <2>1, <2>2, <2>3, <2>4, <2>5, <2>6, <2>7, Zenon DEF Inv
<1>5. ASSUME NEW h \in Handlers, UploadFinish(h) PROVE Inv'
  <2>1. ServiceInv' /\ JobInv'
    BY <1>5, Zenon DEF IInv, Inv, ServiceInv, JobInv, UploadFinish
  <2>2. FilesInv'
    <3>0. TypeOK /\ FilesInv /\ t.id \in Ids
      BY Zenon DEF IInv, Inv, TypeOK, Transfers
    <3>1. /\ t'.id = t.id /\ t'.kind = t.kind /\ removing = 0
          /\ UNCHANGED <<last, verified, overtaken, lateFetch>>
      BY <1>5, Zenon DEF UploadFinish, IInv, TypeOK, Transfers
    <3>2. CASE UNCHANGED storage
      BY <3>0, <3>1, <3>2, SameFiles, Zenon
    <3>3. CASE TerminalPhase(t'.phase) /\ RemoveTransferFiles(t.id, t.kind, files)
      BY <3>0, <3>1, <3>3, RemovalFiles, Zenon
    <3> QED
      BY <1>5, <3>2, <3>3, <3>1, Zenon DEF UploadFinish, Live, TerminalPhase, Outcome, IInv, TypeOK, Transfers
  <2>3. UploadInv'
    <3>1. /\ t'.id = t.id /\ t'.kind = t.kind
          /\ t'.phase # "prepared" \/ t'.phase = t.phase
          /\ UNCHANGED <<last, verified>>
      BY <1>5, Zenon DEF UploadFinish, Outcome, IInv, TypeOK, Transfers
    <3>2. \A g \in Handlers : handler'[g] = handler[g] \/ handler'[g] = NoWorker
      BY <1>5, Zenon DEF UploadFinish, Leave, IInv, TypeOK
    <3>3. NoWorker.pc \notin UploadPoints /\ NoWorker.pc # "settle"
      BY Zenon DEF UploadPoints, NoWorker
    <3> QED
      BY <3>1, <3>2, <3>3, MovedUpload, Zenon DEF IInv, Inv
  <2>4. FetchInv'
    <3>1. TypeOK /\ FetchInv /\ t.id \in Ids
      BY Zenon DEF IInv, Inv, TypeOK, Transfers
    <3>2. /\ t'.id = t.id /\ t'.kind = t.kind /\ removing = 0
          /\ UNCHANGED <<last, verified, generation, fetchVars>>
      BY <1>5, Zenon DEF UploadFinish, IInv, TypeOK, Transfers
    <3>3. CASE RemoveTransferFiles(t.id, t.kind, files)
      BY <3>1, <3>2, <3>3, RemovalFetch, Zenon
    <3>4. CASE UNCHANGED storage
      BY <3>1, <3>2, <3>4, Zenon DEF FetchInv
    <3> QED
      BY <1>5, <3>3, <3>4, Zenon DEF UploadFinish, Live
  <2>5. SelectInv'
    BY <1>5 DEF IInv, Inv, SelectInv, TerminalPhase, FilePoints, UploadFinish, Live, Leave,
       NoWorker
  <2>6. LateInv'
    <3>0. files \in FileSets /\ t \in Transfers /\ t.id \in Ids
      BY Zenon DEF IInv, TypeOK, FileSets, Transfers
    <3>1. CASE ~Live(handler[h])
      BY <1>5, <3>1, Zenon DEF UploadFinish, IInv, Inv, LateInv, Stale
    <3>2. CASE Live(handler[h])
      <4>1. t.kind # "url" /\ t.phase = "uploading"
        BY <1>5, <3>2, Zenon DEF UploadFinish, Live, IInv, Inv, UploadInv, UploadPoints
      <4>2. t'.id = t.id /\ UNCHANGED <<fetch, lateFetch>>
        BY <1>5, <3>0, Zenon DEF UploadFinish, Transfers
      <4> QED
        BY <4>1, <4>2, Zenon DEF IInv, Inv, LateInv, FetchInv
    <3> QED
      BY <3>1, <3>2, Zenon
  <2>7. ChannelInv'
    BY <1>5 DEF IInv, Inv, TypeOK, FilesInv, ChannelInv, TerminalPhase, Transfers,
       UploadFinish, Live, Outcome, RemoveTransferFiles
  <2>8. ResultIsOwn'
    BY <1>5, Zenon DEF IInv, Inv, TypeOK, ResultIsOwn, Transfers, UploadFinish, Outcome
  <2> QED
    BY <2>1, <2>2, <2>3, <2>4, <2>5, <2>6, <2>7, <2>8, Zenon DEF Inv
<1> QED
  BY <1>1, <1>2, <1>3, <1>4, <1>5, Zenon

(* The steps of a file command keep the rest of the invariant. *)
LEMMA FileKeeps ==
  ASSUME IInv,
         \/ \E h \in Handlers : FileAccess(h)
         \/ \E h \in Handlers : FileDone(h)
         \/ \E h \in Handlers : SelectExisting(h)
         \/ \E h \in Handlers : ReviewExisting(h)
  PROVE  Inv'
<1> USE BoundAssumption DEF service, flags, uiVars, fetchVars, storage, observed, LockFree
<1>1. ASSUME NEW h \in Handlers, FileAccess(h) PROVE Inv'
  <2>1. FilesInv' /\ FetchInv' /\ ServiceInv' /\ LateInv' /\ JobInv' /\ ChannelInv' /\ ResultIsOwn'
    <3>1. /\ UNCHANGED <<t, last, storage, observed, running, generation, fetch, lateFetch, channel, ui,
                      succeeded, dropped>>
          /\ UNCHANGED <<job, pcJob>>
      BY <1>1, Zenon DEF FileAccess
    <3> QED
      BY <3>1, Untouched, Zenon DEF IInv
  <2>2. UploadInv'
    BY <1>1 DEF IInv, Inv, UploadInv, UploadPoints, FileAccess, Go
  <2>3. SelectInv'
    BY <1>1 DEF IInv, Inv, SelectInv, FileAccess, Free, Go
  <2> QED
    BY <2>1, <2>2, <2>3, Zenon DEF Inv
<1>2. ASSUME NEW h \in Handlers, FileDone(h) PROVE Inv'
  <2>1. FilesInv' /\ FetchInv' /\ ServiceInv' /\ LateInv' /\ JobInv' /\ ChannelInv' /\ ResultIsOwn'
    <3>1. /\ UNCHANGED <<t, last, storage, observed, running, generation, fetch, lateFetch, channel, ui,
                      succeeded, dropped>>
          /\ UNCHANGED <<job, pcJob>>
      BY <1>2, Zenon DEF FileDone
    <3> QED
      BY <3>1, Untouched, Zenon DEF IInv
  <2>2. UploadInv'
    BY <1>2 DEF IInv, Inv, UploadInv, UploadPoints, FileDone, Leave, NoWorker
  <2>3. SelectInv'
    BY <1>2, Zenon DEF IInv, Inv, TypeOK, SelectInv, FilePoints, FileDone, Leave, NoWorker
  <2> QED
    BY <2>1, <2>2, <2>3, Zenon DEF Inv
<1>3. ASSUME NEW h \in Handlers, SelectExisting(h) PROVE Inv'
  <2>1. ServiceInv' /\ JobInv'
    BY <1>3, Zenon DEF IInv, Inv, ServiceInv, JobInv, SelectExisting
  <2>2. FilesInv'
    <3>1. "prepared" \in Phases
      BY Zenon DEF Phases
    <3> QED
      BY <1>3, <3>1, ReplacementFiles, Zenon DEF IInv, Inv, SelectExisting, Kinds
  <2>3. UploadInv'
    BY <1>3 DEF IInv, Inv, TypeOK, UploadInv, FetchInv, HasDirectory, TerminalPhase,
       UploadPoints, FilePoints, Worker, Ids, SelectExisting, Replace, NewTransfer
  <2>4. FetchInv'
    <3>1. "prepared" \in Phases
      BY Zenon DEF Phases
    <3> QED
      BY <1>3, <3>1, ReplacementFetch, Zenon DEF IInv, Inv, FilesInv, SelectExisting, Kinds
  <2>5. SelectInv'
    <3>1. /\ UNCHANGED <<fileBusy, lateFetch>> /\ handler[h].pc = "select"
          /\ \A g \in Handlers : handler'[g].pc = IF g = h THEN "review" ELSE handler[g].pc
      BY <1>3, Zenon DEF IInv, TypeOK, Worker, SelectExisting
    <3> QED
      BY <3>1, Zenon DEF IInv, Inv, SelectInv, FilePoints
  <2>6. LateInv'
    BY <1>3 DEF IInv, Inv, TypeOK, FetchInv, LateInv, Ids, SelectExisting, Replace, NewTransfer
  <2>7. ChannelInv'
    <3>1. t'.phase = "prepared" /\ UNCHANGED <<channel, lateFetch>> /\ handler[h].pc = "select"
      BY <1>3, Zenon DEF SelectExisting, Replace, NewTransfer
    <3>2. ~lateFetch => TerminalPhase(t.phase)
      BY <3>1, Zenon DEF IInv, Inv, SelectInv
    <3> QED
      BY <3>1, <3>2, Zenon DEF IInv, Inv, ChannelInv, TerminalPhase
  <2>8. ResultIsOwn'
    BY <1>3, Zenon DEF ResultIsOwn, SelectExisting, Replace, NewTransfer
  <2> QED
    BY <2>1, <2>2, <2>3, <2>4, <2>5, <2>6, <2>7, <2>8, Zenon DEF Inv
<1>4. ASSUME NEW h \in Handlers, ReviewExisting(h) PROVE Inv'
  <2>1. ServiceInv' /\ JobInv'
    BY <1>4, Zenon DEF IInv, Inv, ServiceInv, JobInv, ReviewExisting
  <2>2. FilesInv'
    BY <1>4 DEF IInv, Inv, FilesInv, ReviewExisting
  <2>3. UploadInv'
    BY <1>4 DEF IInv, Inv, UploadInv, UploadPoints, ReviewExisting, Leave, NoWorker
  <2>4. FetchInv'
    BY <1>4 DEF IInv, Inv, FetchInv, ReviewExisting
  <2>5. SelectInv'
    BY <1>4 DEF IInv, Inv, TypeOK, SelectInv, FilePoints, ReviewExisting, Leave, NoWorker
  <2>6. LateInv'
    BY <1>4 DEF IInv, Inv, LateInv, Stale, TerminalPhase, ReviewExisting
  <2>7. ChannelInv'
    BY <1>4 DEF IInv, Inv, ChannelInv, TerminalPhase, ReviewExisting
  <2>8. ResultIsOwn'
    BY <1>4 DEF IInv, Inv, ResultIsOwn, ReviewExisting
  <2> QED
    BY <2>1, <2>2, <2>3, <2>4, <2>5, <2>6, <2>7, <2>8, Zenon DEF Inv
<1> QED
  BY <1>1, <1>2, <1>3, <1>4, Zenon

(* The start and the steps of a download keep the rest of the invariant. *)
LEMMA FetchKeeps ==
  ASSUME IInv,
         \/ \E h \in Handlers : Spawn(h)
         \/ FetchOpen
         \/ \E good \in BOOLEAN : FetchReceive(good)
         \/ FetchSettle
         \/ FetchRename
         \/ FetchFinish
  PROVE  Inv'
<1> USE BoundAssumption DEF service, flags, uiVars, fetchVars, storage, observed, LockFree
<1>1. ASSUME NEW h \in Handlers, Spawn(h) PROVE Inv'
  <2>1. FilesInv' /\ ServiceInv' /\ JobInv' /\ ResultIsOwn'
    BY <1>1, Zenon DEF IInv, Inv, FilesInv, ServiceInv, JobInv, ResultIsOwn, Spawn
  <2>2. UploadInv'
    <3>1. /\ UNCHANGED <<t, last, verified>>
          /\ \A g \in Handlers : handler'[g] = handler[g] \/ handler'[g] = NoWorker
      BY <1>1, Zenon DEF Spawn, Leave, IInv, TypeOK
    <3>2. NoWorker.pc \notin UploadPoints /\ NoWorker.pc # "settle"
      BY Zenon DEF UploadPoints, NoWorker
    <3> QED
      BY <3>1, <3>2, MovedUpload, Zenon DEF IInv, Inv
  <2>3. FetchInv'
    <3>1. fetch' = [pc |-> "open", id |-> t.id, kind |-> t.kind, gen |-> generation, ok |-> TRUE]
      BY <1>1, Zenon DEF Spawn
    <3>2. UNCHANGED <<t, last, files, generation>> /\ (~lateFetch' => t.kind = "url")
      BY <1>1, Zenon DEF Spawn
    <3>3. t.id = last /\ (HasDirectory(t.kind) /\ "payload" \in files[t.id] => "dir" \in files[t.id])
      BY Zenon DEF IInv, Inv, FilesInv
    <3>4. last \in Nat /\ generation \in Nat
      BY DEF IInv, TypeOK, Ids
    <3>5. fetch'.pc = "open" /\ fetch'.id = t.id /\ fetch'.kind = t.kind /\ fetch'.gen = generation
      BY <3>1, Zenon
    <3>6. fetch'.id <= last' /\ fetch'.gen <= generation'
      BY <3>2, <3>3, <3>4, <3>5
    <3>7. fetch'.kind = t'.kind /\ (~lateFetch' => fetch'.kind = "url")
      BY <3>2, <3>5, Zenon
    <3>8. HasDirectory(fetch'.kind) /\ "payload" \in files'[fetch'.id] => "dir" \in files'[fetch'.id]
      BY <3>2, <3>3, <3>5, Zenon
    <3> QED
      BY <3>5, <3>6, <3>7, <3>8, Zenon DEF FetchInv
  <2>4. SelectInv'
    BY <1>1, Zenon DEF IInv, Inv, TypeOK, FlagsOK, SelectInv, FilePoints, Spawn, Leave, NoWorker
  <2>5. LateInv'
    BY <1>1, Zenon DEF IInv, Inv, TypeOK, FlagsOK, FilesInv, UploadInv, FetchInv, ServiceInv,
       SelectInv, LateInv, Stale, JobInv, ChannelInv, ResultIsOwn, HasDirectory,
       TerminalPhase, UploadPoints, FilePoints, Transfers, Worker, Fetches, Jobs, Ids, Kinds,
       Phases, Points, Spawn, Leave, NoWorker
  <2>6. ChannelInv'
    BY <1>1, Zenon DEF IInv, Inv, TypeOK, FlagsOK, ChannelInv, Spawn
  <2> QED
    BY <2>1, <2>2, <2>3, <2>4, <2>5, <2>6, Zenon DEF Inv
<1>2. CASE FetchOpen
  <2>1. UploadInv' /\ ServiceInv' /\ SelectInv' /\ JobInv' /\ ResultIsOwn'
    BY <1>2, Zenon DEF IInv, Inv, UploadInv, ServiceInv, SelectInv, JobInv, ResultIsOwn,
       FetchOpen
  <2>2. FilesInv'
    BY <1>2 DEF IInv, Inv, FilesInv, FetchOpen, Creatable
  <2>3. FetchInv'
    BY <1>2 DEF IInv, Inv, FetchInv, FetchOpen
  <2>4. LateInv'
    BY <1>2 DEF IInv, Inv, LateInv, Stale, FetchOpen
  <2>5. ChannelInv'
    BY <1>2 DEF IInv, Inv, ChannelInv, FetchOpen
  <2> QED
    BY <2>1, <2>2, <2>3, <2>4, <2>5, Zenon DEF Inv
<1>3. ASSUME NEW good \in BOOLEAN, FetchReceive(good) PROVE Inv'
  <2>1. ServiceInv' /\ SelectInv' /\ JobInv' /\ ChannelInv' /\ ResultIsOwn'
    BY <1>3, Zenon DEF IInv, Inv, ServiceInv, SelectInv, JobInv, ChannelInv, ResultIsOwn,
       FetchReceive
  <2>0. /\ UNCHANGED <<t, last, storage, overtaken, generation, running, lateFetch, handler>>
        /\ verified \subseteq verified'
        /\ fetch' = [fetch EXCEPT !.pc = "settle", !.ok = good]
        /\ good => fetch.id \in verified'
        /\ fetch.pc = "receive" /\ fetch \in Fetches
    BY <1>3, Zenon DEF FetchReceive, IInv, TypeOK
  <2>a. /\ fetch'.pc = "settle" /\ fetch'.id = fetch.id /\ fetch'.kind = fetch.kind
        /\ fetch'.gen = fetch.gen /\ fetch'.ok = good
    BY <2>0, Zenon DEF Fetches
  <2>2. FilesInv'
    BY <2>0, Zenon DEF IInv, Inv, FilesInv
  <2>3. UploadInv'
    BY <2>0, MovedUpload, Zenon DEF IInv, Inv
  <2>4. FetchInv'
    BY <2>0, <2>a, Zenon DEF IInv, Inv, FetchInv
  <2>5. LateInv'
    BY <2>0, <2>a, Zenon DEF IInv, Inv, LateInv, Stale
  <2> QED
    BY <2>1, <2>2, <2>3, <2>4, <2>5, Zenon DEF Inv
<1>4. CASE FetchSettle
  <2>1. FilesInv' /\ UploadInv' /\ ServiceInv' /\ SelectInv' /\ JobInv' /\ ChannelInv' /\ ResultIsOwn'
    BY <1>4, Zenon DEF IInv, Inv, FilesInv, UploadInv, ServiceInv, SelectInv, JobInv,
       ChannelInv, ResultIsOwn, FetchSettle
  <2>2. FetchInv'
    BY <1>4, Zenon DEF IInv, Inv, TypeOK, FetchInv, Fetches, FetchSettle
  <2>3. LateInv'
    BY <1>4 DEF IInv, Inv, LateInv, Stale, FetchSettle
  <2> QED
    BY <2>1, <2>2, <2>3, Zenon DEF Inv
<1>5. CASE FetchRename
  <2>1. UploadInv' /\ ServiceInv' /\ SelectInv' /\ JobInv' /\ ResultIsOwn'
    BY <1>5, Zenon DEF IInv, Inv, UploadInv, ServiceInv, SelectInv, JobInv, ResultIsOwn,
       FetchRename
  <2>2. FilesInv'
    <3>1. UNCHANGED <<t, last, removing, verified, overtaken, lateFetch>> /\ fetch.id \in Ids
      BY <1>5, Zenon DEF FetchRename, IInv, TypeOK, Fetches
    <3>2. CASE files' = files
      BY <3>1, <3>2, Zenon DEF IInv, Inv, FilesInv
    <3>3. CASE fetch.ok /\ "part" \in files[fetch.id] /\ files' = Renamed(fetch.id)
      <4>1. fetch.id \in verified
        BY <1>5, <3>3, Zenon DEF FetchRename, IInv, Inv, FetchInv
      <4> QED
        BY <3>1, <3>3, <4>1, RenamedFiles, Zenon DEF IInv, Inv
    <3> QED
      BY <1>5, <3>2, <3>3, Zenon DEF FetchRename
  <2>3. FetchInv'
    BY <1>5 DEF IInv, Inv, TypeOK, FilesInv, FetchInv, FetchRename, Renamed
  <2>4. LateInv'
    BY <1>5 DEF IInv, Inv, LateInv, Stale, FetchRename, Renamed
  <2>5. ChannelInv'
    BY <1>5 DEF IInv, Inv, LateInv, ChannelInv, FetchRename, Renamed
  <2> QED
    BY <2>1, <2>2, <2>3, <2>4, <2>5, Zenon DEF Inv
<1>6. CASE FetchFinish
  <2>1. ServiceInv' /\ JobInv'
    BY <1>6, Zenon DEF IInv, Inv, ServiceInv, JobInv, FetchFinish
  <2>2. FilesInv'
    <3>0. /\ TypeOK /\ FilesInv /\ fetch.id \in Ids
          /\ fetch.id = t.id => fetch.kind = t.kind
      BY <1>6, Zenon DEF IInv, Inv, TypeOK, Fetches, FetchInv, FetchFinish
    <3>1. /\ t'.id = t.id /\ t'.kind = t.kind /\ removing = 0
          /\ UNCHANGED <<last, verified, overtaken, lateFetch>>
      BY <1>6, Zenon DEF FetchFinish, IInv, TypeOK, Transfers
    <3>2. CASE UNCHANGED storage
      BY <3>0, <3>1, <3>2, SameFiles, Zenon
    <3>3. CASE (fetch.id = t.id => TerminalPhase(t'.phase)) /\ RemoveTransferFiles(fetch.id, fetch.kind, files)
      BY <3>0, <3>1, <3>3, RemovalFiles, Zenon
    <3> QED
      BY <1>6, <3>2, <3>3, <3>1, Zenon DEF FetchFinish, TerminalPhase, Outcome, IInv, TypeOK, Transfers
  <2>3. UploadInv'
    <3>1. /\ t'.id = t.id /\ t'.kind = t.kind
          /\ t'.phase # "prepared" \/ t'.phase = t.phase
          /\ UNCHANGED <<last, verified, handler>>
      BY <1>6, Zenon DEF FetchFinish, Outcome, IInv, TypeOK, Transfers
    <3> QED
      BY <3>1, MovedUpload, Zenon DEF IInv, Inv
  <2>4. FetchInv'
    BY <1>6, Zenon DEF FetchInv, FetchFinish, NoFetch
  <2>5. SelectInv'
    BY <1>6, Zenon DEF IInv, Inv, TypeOK, SelectInv, LateInv, Stale, TerminalPhase, Transfers,
       FetchFinish, Outcome
  <2>6. LateInv'
    BY <1>6, Zenon DEF LateInv, FetchFinish, NoFetch
  <2>7. ChannelInv'
    BY <1>6 DEF IInv, Inv, TypeOK, FetchInv, ChannelInv, HasDirectory, TerminalPhase,
       Transfers, FetchFinish, Outcome, RemoveTransferFiles
  <2>8. ResultIsOwn'
    BY <1>6, Zenon DEF IInv, Inv, TypeOK, ResultIsOwn, Transfers, FetchFinish, Outcome
  <2> QED
    BY <2>1, <2>2, <2>3, <2>4, <2>5, <2>6, <2>7, <2>8, Zenon DEF Inv
<1> QED
  BY <1>1, <1>2, <1>3, <1>4, <1>5, <1>6, Zenon

(* The steps of the UI thread around jobs keep the rest of the invariant. *)
LEMMA UiKeeps ==
  ASSUME IInv,
         \/ \E b \in BOOLEAN : Poll(b)
         \/ TakeReboot
         \/ TakeInstall
         \/ \E s \in {"running", "deferred"} : BeginInstall(s)
         \/ \E b \in BOOLEAN : Resume(b)
         \/ LocalJob
         \/ \E b \in BOOLEAN : JobDone(b)
  PROVE  Inv'
<1> USE BoundAssumption DEF service, flags, uiVars, fetchVars, storage, observed, LockFree
<1>1. ASSUME NEW b \in BOOLEAN, Poll(b) PROVE Inv'
  <2>1. /\ UNCHANGED <<t, last, storage, observed, running, generation, fetch, lateFetch, channel, ui,
                      succeeded, dropped>>
        /\ UNCHANGED <<handler, fileBusy, job, pcJob>>
    BY <1>1, Zenon DEF Poll
  <2> QED
    BY <2>1, Untouched, Zenon DEF IInv, Inv
<1>2. CASE TakeReboot
  <2>1. /\ UNCHANGED <<t, last, storage, observed, running, generation, fetch, lateFetch, channel, ui,
                      succeeded, dropped>>
        /\ UNCHANGED <<handler, fileBusy, job, pcJob>>
    BY <1>2, Zenon DEF TakeReboot
  <2> QED
    BY <2>1, Untouched, Zenon DEF IInv, Inv
<1>3. CASE TakeInstall
  <2>1. FilesInv'
    BY <1>3 DEF IInv, Inv, FilesInv, TakeInstall
  <2>2. UploadInv'
    BY <1>3 DEF IInv, Inv, UploadInv, TakeInstall
  <2>3. FetchInv'
    BY <1>3 DEF IInv, Inv, FetchInv, TakeInstall
  <2>4. ServiceInv'
    BY <1>3, Zenon DEF IInv, Inv, ServiceInv, TakeInstall
  <2>5. SelectInv'
    BY <1>3 DEF IInv, Inv, SelectInv, TakeInstall
  <2>6. LateInv'
    BY <1>3 DEF IInv, Inv, LateInv, Stale, TakeInstall
  <2>7. JobInv'
    BY <1>3, Zenon DEF IInv, Inv, JobInv, TakeInstall, PollFree
  <2>8. ChannelInv'
    BY <1>3 DEF IInv, Inv, ChannelInv, TakeInstall
  <2>9. ResultIsOwn'
    BY <1>3 DEF ResultIsOwn, TakeInstall
  <2> QED
    BY <2>1, <2>2, <2>3, <2>4, <2>5, <2>6, <2>7, <2>8, <2>9, Zenon DEF Inv
<1>4. ASSUME NEW s \in {"running", "deferred"}, BeginInstall(s) PROVE Inv'
  <2>1. FilesInv'
    BY <1>4 DEF IInv, Inv, TypeOK, FilesInv, Transfers, BeginInstall
  <2>2. UploadInv'
    BY <1>4, Zenon DEF IInv, Inv, TypeOK, UploadInv, Transfers, BeginInstall
  <2>3. FetchInv'
    BY <1>4, Zenon DEF IInv, Inv, TypeOK, FetchInv, Transfers, BeginInstall
  <2>4. ServiceInv'
    BY <1>4, Zenon DEF IInv, Inv, ServiceInv, BeginInstall
  <2>5. SelectInv'
    BY <1>4, Zenon DEF IInv, Inv, SelectInv, TerminalPhase, BeginInstall
  <2>6. LateInv'
    BY <1>4, Zenon DEF IInv, Inv, TypeOK, LateInv, Stale, TerminalPhase, Transfers, BeginInstall
  <2>7. JobInv'
    BY <1>4 DEF IInv, Inv, JobInv, BeginInstall, Start
  <2>8. ChannelInv'
    BY <1>4, Zenon DEF IInv, Inv, TypeOK, ChannelInv, TerminalPhase, Transfers,
       BeginInstall, Present
  <2>9. ResultIsOwn'
    BY <1>4, Zenon DEF IInv, Inv, TypeOK, ResultIsOwn, Transfers, BeginInstall
  <2> QED
    BY <2>1, <2>2, <2>3, <2>4, <2>5, <2>6, <2>7, <2>8, <2>9, Zenon DEF Inv
<1>5. ASSUME NEW b \in BOOLEAN, Resume(b) PROVE Inv'
  <2>1. FilesInv' /\ UploadInv' /\ FetchInv' /\ ServiceInv' /\ SelectInv' /\ LateInv' /\ ChannelInv'
    BY <1>5 DEF IInv, Inv, FilesInv, UploadInv, FetchInv, ServiceInv, SelectInv, LateInv,
       ChannelInv, Resume, Stale
  <2>2. JobInv'
    BY <1>5, Zenon DEF IInv, Inv, TypeOK, FlagsOK, FilesInv, UploadInv, FetchInv, ServiceInv,
       SelectInv, LateInv, Stale, JobInv, ChannelInv, ResultIsOwn, HasDirectory,
       TerminalPhase, UploadPoints, FilePoints, Transfers, Worker, Fetches, Jobs, Ids, Kinds,
       Phases, Points, Resume
  <2>3. ResultIsOwn'
    BY <1>5, Zenon DEF IInv, Inv, TypeOK, FlagsOK, ResultIsOwn, Resume
  <2> QED
    BY <2>1, <2>2, <2>3, Zenon DEF Inv
<1>6. CASE LocalJob
  <2>1. FilesInv' /\ UploadInv' /\ FetchInv' /\ ServiceInv' /\ SelectInv' /\ LateInv' /\ ChannelInv' /\ ResultIsOwn'
    <3>1. /\ UNCHANGED <<t, last, storage, observed, running, generation, fetch, lateFetch, channel, ui,
                      succeeded, dropped>>
          /\ UNCHANGED <<handler, fileBusy>>
      BY <1>6, Zenon DEF LocalJob
    <3> QED
      BY <3>1, Untouched, Zenon DEF IInv
  <2>2. JobInv'
    BY <1>6, Zenon DEF IInv, Inv, JobInv, LocalJob
  <2> QED
    BY <2>1, <2>2, Zenon DEF Inv
<1>7. ASSUME NEW b \in BOOLEAN, JobDone(b) PROVE Inv'
  <2>1. ServiceInv'
    BY <1>7, Zenon DEF IInv, Inv, ServiceInv, JobDone
  <2>2. FilesInv'
    <3>0. TypeOK /\ FilesInv /\ t.id \in Ids
      BY Zenon DEF IInv, Inv, TypeOK, Transfers
    <3>1. /\ t'.id = t.id /\ t'.kind = t.kind /\ removing = 0
          /\ UNCHANGED <<last, verified, overtaken, lateFetch>>
      BY <1>7, Zenon DEF JobDone, IInv, TypeOK, Transfers
    <3>2. CASE UNCHANGED storage
      BY <3>0, <3>1, <3>2, SameFiles, Zenon
    <3>3. CASE TerminalPhase(t'.phase) /\ RemoveTransferFiles(t.id, t.kind, files)
      BY <3>0, <3>1, <3>3, RemovalFiles, Zenon
    <3> QED
      BY <1>7, <3>2, <3>3, <3>1, Zenon DEF JobDone, TerminalPhase, Outcome, IInv, TypeOK, Transfers
  <2>3. UploadInv'
    BY <1>7, Zenon DEF IInv, Inv, TypeOK, UploadInv, Transfers, JobDone
  <2>4. FetchInv'
    <3>1. TypeOK /\ FetchInv /\ t.id \in Ids
      BY Zenon DEF IInv, Inv, TypeOK, Transfers
    <3>2. /\ t'.id = t.id /\ t'.kind = t.kind /\ removing = 0
          /\ UNCHANGED <<last, verified, generation, fetchVars>>
      BY <1>7, Zenon DEF JobDone, IInv, TypeOK, Transfers
    <3>3. CASE RemoveTransferFiles(t.id, t.kind, files)
      BY <3>1, <3>2, <3>3, RemovalFetch, Zenon
    <3>4. CASE UNCHANGED storage
      BY <3>1, <3>2, <3>4, Zenon DEF FetchInv
    <3> QED
      BY <1>7, <3>3, <3>4, Zenon DEF JobDone
  <2>5. SelectInv'
    BY <1>7, Zenon DEF IInv, Inv, SelectInv, TerminalPhase, JobDone
  <2>6. LateInv'
    BY <1>7, Zenon DEF IInv, Inv, TypeOK, LateInv, Stale, TerminalPhase, Transfers, JobDone
  <2>7. JobInv'
    BY <1>7, Zenon DEF JobInv, JobDone
  <2>8. ChannelInv'
    BY <1>7 DEF IInv, Inv, TypeOK, FlagsOK, FilesInv, ChannelInv, Transfers, JobDone,
       ChannelJob, RemoveTransferFiles
  <2>9. ResultIsOwn'
    <3>1. CASE t' = t
      BY <1>7, <3>1, Zenon DEF JobDone, IInv, Inv, ResultIsOwn
    <3>2. CASE t' # t
      <4>1. pcJob # 0 /\ t.id = pcJob /\ t.phase = "installing"
        BY <1>7, <3>2, Zenon DEF JobDone
      <4>2. t'.id = t.id /\ (t'.phase = "completed" => b)
        BY <1>7, <4>1, Zenon DEF JobDone, IInv, TypeOK, Transfers
      <4>3. ~dropped => job.id = t.id
        BY <4>1, Zenon DEF IInv, Inv, JobInv
      <4> QED
        BY <1>7, <4>1, <4>2, <4>3, Zenon DEF JobDone, ResultIsOwn
    <3> QED
      BY <3>1, <3>2, Zenon
  <2> QED
    BY <2>1, <2>2, <2>3, <2>4, <2>5, <2>6, <2>7, <2>8, <2>9, Zenon DEF Inv
<1> QED
  BY <1>1, <1>2, <1>3, <1>4, <1>5, <1>6, <1>7, Zenon

(* Switching the service keeps the rest of the invariant. *)
LEMMA SwitchKeeps ==
  ASSUME IInv,
         \/ Disable
         \/ DisableJoin
         \/ DisableClear
         \/ Enable
  PROVE  Inv'
<1> USE BoundAssumption DEF service, flags, uiVars, fetchVars, storage, observed, LockFree
<1>1. CASE Disable
  <2>1. FilesInv' /\ UploadInv' /\ SelectInv' /\ ResultIsOwn'
    BY <1>1, Zenon DEF IInv, Inv, FilesInv, UploadInv, SelectInv, ResultIsOwn, Disable
  <2>2. FetchInv'
    BY <1>1 DEF IInv, Inv, TypeOK, FetchInv, Fetches, Disable
  <2>3. ServiceInv'
    BY <1>1 DEF IInv, TypeOK, ServiceInv, Disable
  <2>4. LateInv'
    BY <1>1, Zenon DEF IInv, Inv, LateInv, Stale, Disable
  <2>5. JobInv'
    BY <1>1, Zenon DEF IInv, Inv, JobInv, Disable
  <2>6. ChannelInv'
    BY <1>1, Zenon DEF IInv, Inv, ChannelInv, Disable
  <2> QED
    BY <2>1, <2>2, <2>3, <2>4, <2>5, <2>6, Zenon DEF Inv
<1>2. CASE DisableJoin
  <2>1. FilesInv' /\ UploadInv' /\ FetchInv' /\ SelectInv' /\ LateInv' /\ ChannelInv' /\ ResultIsOwn'
    BY <1>2, Zenon DEF IInv, Inv, FilesInv, UploadInv, FetchInv, SelectInv, LateInv,
       ChannelInv, ResultIsOwn, DisableJoin
  <2>2. ServiceInv'
    BY <1>2, Zenon DEF IInv, Inv, ServiceInv, DisableJoin
  <2>3. JobInv'
    BY <1>2, Zenon DEF IInv, Inv, JobInv, DisableJoin
  <2> QED
    BY <2>1, <2>2, <2>3, Zenon DEF Inv
<1>3. CASE DisableClear
  <2>1. FilesInv'
    <3>0. TypeOK /\ FilesInv /\ t.id \in Ids
      BY Zenon DEF IInv, Inv, TypeOK, Transfers
    <3>1. /\ t'.id = t.id /\ t'.kind = t.kind /\ removing = 0
          /\ UNCHANGED <<last, verified, overtaken, lateFetch>>
      BY <1>3, Zenon DEF DisableClear, IInv, TypeOK, Transfers
    <3>2. CASE UNCHANGED storage
      BY <3>0, <3>1, <3>2, SameFiles, Zenon
    <3>3. CASE TerminalPhase(t'.phase) /\ RemoveTransferFiles(t.id, t.kind, files)
      BY <3>0, <3>1, <3>3, RemovalFiles, Zenon
    <3> QED
      BY <1>3, <3>2, <3>3, <3>1, Zenon DEF DisableClear, TerminalPhase, Outcome, IInv, TypeOK, Transfers
  <2>2. UploadInv'
    BY <1>3, Zenon DEF IInv, Inv, TypeOK, UploadInv, Transfers, DisableClear
  <2>3. FetchInv'
    <3>1. TypeOK /\ FetchInv /\ t.id \in Ids
      BY Zenon DEF IInv, Inv, TypeOK, Transfers
    <3>2. /\ t'.id = t.id /\ t'.kind = t.kind /\ removing = 0
          /\ UNCHANGED <<last, verified, generation, fetchVars>>
      BY <1>3, Zenon DEF DisableClear, IInv, TypeOK, Transfers
    <3>3. CASE RemoveTransferFiles(t.id, t.kind, files)
      BY <3>1, <3>2, <3>3, RemovalFetch, Zenon
    <3>4. CASE UNCHANGED storage
      BY <3>1, <3>2, <3>4, Zenon DEF FetchInv
    <3> QED
      BY <1>3, <3>3, <3>4, Zenon DEF DisableClear
  <2>4. ServiceInv'
    BY <1>3, Zenon DEF IInv, Inv, ServiceInv, DisableClear
  <2>5. SelectInv'
    BY <1>3, Zenon DEF IInv, Inv, TypeOK, SelectInv, Transfers, DisableClear
  <2>6. LateInv'
    BY <1>3, Zenon DEF IInv, Inv, TypeOK, FetchInv, ServiceInv, LateInv, Stale, HasDirectory,
       TerminalPhase, Transfers, DisableClear, RemoveTransferFiles
  <2>7. JobInv'
    BY <1>3, Zenon DEF IInv, Inv, JobInv, DisableClear
  <2>8. ChannelInv'
    <3>0. files \in FileSets /\ t \in Transfers /\ t.id \in Ids
      BY Zenon DEF IInv, TypeOK, FileSets, Transfers
    <3>1. CASE Settled
      BY <1>3, <3>1, Zenon DEF DisableClear, IInv, Inv, ChannelInv
    <3>2. CASE ~Settled
      <4>1. ~lateFetch => ~channel
        BY <3>2, Zenon DEF Settled, IInv, Inv, ChannelInv
      <4> QED
        BY <1>3, <4>1, Zenon DEF DisableClear, ChannelInv
    <3> QED
      BY <3>1, <3>2, Zenon
  <2>9. ResultIsOwn'
    BY <1>3, Zenon DEF IInv, Inv, TypeOK, ResultIsOwn, Transfers, DisableClear
  <2> QED
    BY <2>1, <2>2, <2>3, <2>4, <2>5, <2>6, <2>7, <2>8, <2>9, Zenon DEF Inv
<1>4. CASE Enable
  <2>1. FilesInv' /\ UploadInv' /\ SelectInv' /\ JobInv' /\ ChannelInv' /\ ResultIsOwn'
    BY <1>4, Zenon DEF IInv, Inv, FilesInv, UploadInv, SelectInv, JobInv, ChannelInv,
       ResultIsOwn, Enable
  <2>2. FetchInv'
    BY <1>4 DEF IInv, Inv, TypeOK, FetchInv, Fetches, Enable
  <2>3. ServiceInv'
    BY <1>4, Zenon DEF ServiceInv, Enable
  <2>4. LateInv'
    BY <1>4 DEF IInv, Inv, TypeOK, FetchInv, LateInv, Stale, Enable
  <2> QED
    BY <2>1, <2>2, <2>3, <2>4, Zenon DEF Inv
<1> QED
  BY <1>1, <1>2, <1>3, <1>4, Zenon

(* So does rmdir, whether it finds the directory empty or not.                *)
LEMMA DirectoryKeeps ==
  ASSUME IInv, RemoveDirectory
  PROVE  TypeOK' /\ Inv'
<1> USE DEF service, flags, uiVars, fetchVars
<1>0. /\ removing # 0 /\ removing' = 0 /\ removing \in Ids /\ files \in FileSets /\ overtaken \subseteq Ids
      /\ t.id \in Ids /\ fetch.id \in Ids
      /\ UNCHANGED <<service, t, last, flags, channel, handler, fetchVars, uiVars, verified>>
  BY Zenon DEF RemoveDirectory, IInv, TypeOK, FileSets, Transfers, Fetches
<1>z. 0 \in Ids
  BY BoundAssumption DEF Ids
<1>1. CASE files[removing] = {"dir"}
  <2>1. files' = [files EXCEPT ![removing] = {}] /\ overtaken' = overtaken
    BY <1>1, Zenon DEF RemoveDirectory
  <2>2. /\ files' \in FileSets /\ files'[removing] = {}
        /\ \A j \in Ids : j # removing => files'[j] = files[j]
    BY <1>0, <2>1, Zenon DEF FileSets
  <2>3. TypeOK'
    BY <1>0, <1>z, <2>1, <2>2, Zenon DEF IInv, TypeOK, FlagsOK, FileSets
  <2>4. FilesInv'
    BY <1>0, <1>z, <2>1, <2>2, Zenon DEF IInv, Inv, FilesInv
  <2>5. FetchInv'
    BY <1>0, <2>2, Zenon DEF IInv, Inv, FetchInv
  <2> QED
    BY <1>0, <2>3, <2>4, <2>5, Zenon DEF IInv, Inv, UploadInv, ServiceInv, SelectInv, LateInv, Stale,
       JobInv, ChannelInv, ResultIsOwn
<1>2. CASE files[removing] # {"dir"}
  <2>1. files' = files /\ overtaken' = overtaken \cup {removing}
    BY <1>2, Zenon DEF RemoveDirectory
  <2>2. TypeOK'
    BY <1>0, <1>z, <2>1, Zenon DEF IInv, TypeOK, FlagsOK
  <2>3. (removing = t.id /\ HasDirectory(t.kind)) \/ lateFetch
    <3>1. CASE ~lateFetch
      <4>1. "dir" \in files[removing] /\ files[removing] \subseteq {"dir", "part", "payload"}
        BY <1>0, Zenon DEF FileSets, IInv, Inv, FilesInv
      <4>2. "part" \in files[removing] \/ "payload" \in files[removing]
        BY <1>2, <4>1
      <4> QED
        BY <1>0, <3>1, <4>2, Zenon DEF IInv, Inv, FilesInv, Clean, RemovingInv
    <3> QED
      BY <3>1, Zenon
  <2>4. FilesInv'
    BY <1>0, <2>1, <2>3, Zenon DEF IInv, Inv, FilesInv
  <2>5. FetchInv'
    BY <1>0, <2>1, Zenon DEF IInv, Inv, FetchInv
  <2> QED
    BY <1>0, <2>2, <2>4, <2>5, Zenon DEF IInv, Inv, UploadInv, ServiceInv, SelectInv, LateInv, Stale,
       JobInv, ChannelInv, ResultIsOwn
<1> QED
  BY <1>1, <1>2, Zenon

(* Without a late download, what finished transfers have on storage: steps    *)
(* that leave storage and the download alone, and end no transfer that has    *)
(* more than its directory.                                                   *)
LEMMA CleanKept ==
  ASSUME IInv, ~lateFetch, removing = 0, UNCHANGED <<files, removing, overtaken, fetch>>, t'.id = t.id,
         t'.phase # t.phase =>
           /\ ~TerminalPhase(t.phase) /\ t.phase # "uploading"
           /\ TerminalPhase(t'.phase) /\ "dir" \in files[t.id] =>
                t'.phase = "failed" /\ "payload" \notin files[t.id],
         \A g \in Handlers :
           \/ handler'[g] = handler[g]
           \/ /\ handler[g].pc \notin {"receive", "settle"}
              /\ \/ handler'[g].pc \notin UploadPoints
                 \/ handler'[g].pc = "open" /\ handler'[g].id = t.id /\ t'.phase = "uploading"
  PROVE  Clean'
<1>0. OpenInv /\ PartInv /\ RestInv
  BY Zenon DEF IInv, Clean
<1>1. OpenInv'
  <2>1. ASSUME NEW h \in Handlers, handler'[h].pc = "open", "dir" \in files[handler'[h].id]
        PROVE  handler'[h].id = t.id /\ t'.phase = "uploading"
    <3>1. CASE handler'[h] = handler[h]
      <4>1. Awaited(handler[h].id)
        BY <1>0, <2>1, <3>1, Zenon DEF OpenInv
      <4>2. "dir" \in files[t.id] /\ handler[h].id = t.id
        BY <2>1, <3>1, <4>1, Zenon DEF Awaited
      <4>3. t.id # 0
        BY <4>2, Zenon DEF IInv, Inv, FilesInv
      <4> QED
        BY <3>1, <4>1, <4>2, <4>3, Zenon DEF Awaited
    <3>2. CASE handler'[h] # handler[h]
      BY <2>1, <3>2, Zenon DEF UploadPoints
    <3> QED
      BY <3>1, <3>2, Zenon
  <2>2. ASSUME fetch.pc = "open", "dir" \in files[fetch.id]
        PROVE  fetch.id = t.id /\ t'.phase = "uploading"
    <3>1. Awaited(fetch.id)
      BY <1>0, <2>2, Zenon DEF OpenInv
    <3>2. "dir" \in files[t.id] /\ fetch.id = t.id
      BY <2>2, <3>1, Zenon DEF Awaited
    <3>3. t.id # 0
      BY <3>2, Zenon DEF IInv, Inv, FilesInv
    <3> QED
      BY <3>1, <3>2, <3>3, Zenon DEF Awaited
  <2> QED
    BY <2>1, <2>2, Zenon DEF OpenInv, Awaited
<1>2. RemovingInv'
  BY Zenon DEF RemovingInv
<1>3. PartInv'
  <2>1. "part" \in files[t.id] => t'.phase = t.phase
    BY <1>0, Zenon DEF PartInv
  <2>2. \A g \in Handlers : handler'[g].pc = "finish" => handler'[g] = handler[g]
    BY Zenon DEF UploadPoints
  <2> QED
    BY <1>0, <2>1, <2>2, Zenon DEF PartInv
<1>4. RestInv'
  <2> SUFFICES ASSUME TerminalPhase(t'.phase), "dir" \in files[t.id]
               PROVE  /\ t'.phase = "failed" \/ t.id \in overtaken
                      /\ "payload" \notin files[t.id]
                      /\ "part" \in files[t.id] => Working(t.id)'
    BY Zenon DEF RestInv
  <2>1. CASE t'.phase = t.phase
    <3>1. Working(t.id) => Working(t.id)'
      BY Zenon DEF Working
    <3> QED
      BY <1>0, <2>1, <3>1, Zenon DEF RestInv, LockFree
  <2>2. CASE t'.phase # t.phase
    BY <1>0, <2>2, Zenon DEF PartInv
  <2> QED
    BY <2>1, <2>2, Zenon
<1> QED
  BY <1>1, <1>2, <1>3, <1>4, Zenon DEF Clean

(* The same for a step that ends the current transfer and removes its files:  *)
(* a worker that has yet to open its file finds the directory only until rmdir. *)
LEMMA CleanRemoved ==
  ASSUME IInv, ~lateFetch, removing = 0, RemoveTransferFiles(t.id, t.kind, files), t'.id = t.id,
         fetch' = fetch \/ fetch'.pc = "none",
         \A g \in Handlers : handler'[g] = handler[g] \/ handler'[g].pc = "none"
  PROVE  Clean'
<1>0. files \in FileSets /\ t.id \in Ids /\ fetch.id \in Ids /\ \A g \in Handlers : handler[g].id \in Ids
  BY Zenon DEF IInv, TypeOK, FileSets, Transfers, Fetches, Worker
<1>1. /\ \A j \in Ids : files'[j] =
           IF j = t.id /\ HasDirectory(t.kind) THEN files[j] \cap {"dir"} ELSE files[j]
      /\ removing' = IF HasDirectory(t.kind) /\ "dir" \in files[t.id] THEN t.id ELSE 0
  BY <1>0, Removal, Zenon
<1>2. \A j \in Ids : "dir" \in files[j] => j = t.id /\ HasDirectory(t.kind) /\ j # 0
  BY Zenon DEF IInv, Inv, FilesInv
<1>3. \A j \in Ids : "dir" \in files'[j] => "dir" \in files[j]
  BY <1>1, Zenon
<1>4. \A j \in Ids : "dir" \in files'[j] => j = t.id /\ removing' = t.id /\ t.id # 0
  BY <1>1, <1>2, <1>3, Zenon
<1>5. OpenInv'
  <2>1. ASSUME NEW h \in Handlers, handler'[h].pc = "open", "dir" \in files'[handler'[h].id]
        PROVE  handler'[h].id = t'.id /\ removing' = handler'[h].id
    <3>1. handler'[h] = handler[h]
      BY <2>1, Zenon
    <3> QED
      BY <1>0, <1>4, <2>1, <3>1, Zenon
  <2>2. ASSUME fetch'.pc = "open", "dir" \in files'[fetch'.id]
        PROVE  fetch'.id = t'.id /\ removing' = fetch'.id
    <3>1. fetch' = fetch
      BY <2>2, Zenon
    <3> QED
      BY <1>0, <1>4, <2>2, <3>1, Zenon
  <2> QED
    BY <2>1, <2>2, Zenon DEF OpenInv, Awaited
<1>6. "part" \notin files'[t.id] /\ ("dir" \in files'[t.id] => "payload" \notin files'[t.id])
  <2>1. CASE HasDirectory(t.kind)
    <3>1. files'[t.id] = files[t.id] \cap {"dir"}
      BY <1>0, <1>1, <2>1, Zenon
    <3> QED
      BY <3>1
  <2>2. CASE ~HasDirectory(t.kind)
    <3>1. "dir" \notin files[t.id] /\ files'[t.id] = files[t.id]
      BY <1>0, <1>1, <1>2, <2>2, Zenon
    <3> QED
      BY <1>0, <3>1, Zenon DEF IInv, Inv, FilesInv
  <2> QED
    BY <2>1, <2>2, Zenon
<1>7. RemovingInv'
  <2>1. removing' # 0 => removing' = t.id /\ HasDirectory(t.kind) /\ "dir" \in files[t.id]
    BY <1>1, Zenon
  <2>2. HasDirectory(t.kind) => "payload" \notin files'[t.id]
    <3> HAVE HasDirectory(t.kind)
    <3>1. files'[t.id] = files[t.id] \cap {"dir"}
      BY <1>0, <1>1, Zenon
    <3> QED
      BY <3>1
  <2> QED
    BY <1>6, <2>1, <2>2, Zenon DEF RemovingInv
<1>8. PartInv'
  BY <1>6, Zenon DEF PartInv
<1>9. RestInv'
  BY <1>0, <1>4, Zenon DEF RestInv, LockFree
<1> QED
  BY <1>5, <1>7, <1>8, <1>9, Zenon DEF Clean

(* The same for a step that replaces a finished transfer by a new one.        *)
LEMMA CleanReplaced ==
  ASSUME IInv, ~lateFetch, removing = 0, TerminalPhase(t.phase),
         NEW k \in Kinds, NEW p \in Phases, Replace(k, p), ~TerminalPhase(p), fetch' = fetch,
         \A g \in Handlers : handler'[g] = handler[g] \/ handler'[g].pc \notin UploadPoints
  PROVE  Clean'
<1>0. /\ files \in FileSets /\ t.id \in Ids /\ fetch.id \in Ids /\ t.id = last
      /\ \A g \in Handlers : handler[g].id \in Ids
  BY Zenon DEF IInv, Inv, FilesInv, TypeOK, FileSets, Transfers, Fetches, Worker
<1>1. /\ t'.id = last + 1 /\ t'.phase = p /\ files'[last + 1] = FilesAfter(k)
      /\ \A j \in Ids : j # last + 1 =>
           files'[j] = IF j = t.id /\ HasDirectory(t.kind) THEN files[j] \cap {"dir"} ELSE files[j]
      /\ removing' = IF HasDirectory(t.kind) /\ "dir" \in files[t.id] THEN t.id ELSE 0
  BY <1>0, Replacement, Zenon DEF IInv
<1>2. last \in Nat /\ t.id # last + 1
  BY <1>0 DEF IInv, TypeOK, Ids
<1>3. \A j \in Ids : j # last + 1 /\ "dir" \in files'[j] => "dir" \in files[j]
  BY <1>1, Zenon
<1>4. \A j \in Ids : "dir" \in files[j] => j # 0
  BY Zenon DEF IInv, Inv, FilesInv
<1>5. OpenInv'
  <2>1. ASSUME NEW h \in Handlers, handler'[h].pc = "open", "dir" \in files'[handler'[h].id]
        PROVE  FALSE
    <3>1. handler'[h] = handler[h]
      BY <2>1, Zenon DEF UploadPoints
    <3>2. handler[h].id <= last
      BY <2>1, <3>1, Zenon DEF IInv, Inv, UploadInv, UploadPoints
    <3>3. handler[h].id # last + 1
      BY <1>0, <1>2, <3>2 DEF Ids
    <3>4. "dir" \in files[handler[h].id]
      BY <1>0, <1>3, <2>1, <3>1, <3>3, Zenon
    <3>5. Awaited(handler[h].id)
      BY <2>1, <3>1, <3>4, Zenon DEF IInv, Clean, OpenInv
    <3> QED
      BY <1>0, <1>4, <3>4, <3>5, Zenon DEF Awaited, TerminalPhase
  <2>2. ASSUME fetch'.pc = "open", "dir" \in files'[fetch'.id]
        PROVE  FALSE
    <3>1. fetch.id <= last /\ fetch.pc = "open"
      BY <2>2, Zenon DEF IInv, Inv, FetchInv
    <3>2. fetch.id # last + 1
      BY <1>0, <1>2, <3>1 DEF Ids
    <3>3. "dir" \in files[fetch.id]
      BY <1>0, <1>3, <2>2, <3>2, Zenon
    <3>4. Awaited(fetch.id)
      BY <3>1, <3>3, Zenon DEF IInv, Clean, OpenInv
    <3> QED
      BY <1>0, <1>4, <3>3, <3>4, Zenon DEF Awaited, TerminalPhase
  <2> QED
    BY <2>1, <2>2, Zenon DEF OpenInv
<1>6. RemovingInv'
  <2> SUFFICES ASSUME removing' # 0 PROVE "payload" \notin files'[removing'] /\ "part" \notin files'[removing']
    BY <1>1, Zenon DEF RemovingInv
  <2>1. HasDirectory(t.kind) /\ removing' = t.id
    BY <1>1, Zenon
  <2>2. files'[t.id] = files[t.id] \cap {"dir"}
    BY <1>0, <1>1, <1>2, <2>1, Zenon
  <2> QED
    BY <2>1, <2>2
<1>7. PartInv'
  <2>1. "part" \notin FilesAfter(k)
    BY Zenon DEF FilesAfter
  <2> QED
    BY <1>1, <2>1, Zenon DEF PartInv
<1>8. RestInv'
  BY <1>1, Zenon DEF RestInv
<1> QED
  BY <1>5, <1>6, <1>7, <1>8, Zenon DEF Clean

(* The requests that are one block under g_lock keep it.                      *)
LEMMA RequestClean ==
  ASSUME IInv, ~lateFetch,
         \/ \E h \in Handlers, k \in Kinds : Prepare(h, k)
         \/ \E k \in Kinds : Queue(k)
         \/ Install
         \/ Save
         \/ CancelTransfer
         \/ CancelBackup
         \/ Reboot
         \/ ExternalChange
  PROVE  Clean'
<1> USE DEF service, flags, uiVars, fetchVars, storage, observed
<1>1. ASSUME NEW h \in Handlers, NEW k \in Kinds, Prepare(h, k) PROVE Clean'
  <2>1. /\ (IF k = "url" THEN "uploading" ELSE "prepared") \in Phases
        /\ ~TerminalPhase(IF k = "url" THEN "uploading" ELSE "prepared")
    BY Zenon DEF Phases, TerminalPhase
  <2>2. /\ removing = 0 /\ TerminalPhase(t.phase) /\ fetch' = fetch
        /\ Replace(k, IF k = "url" THEN "uploading" ELSE "prepared")
    BY <1>1, Zenon DEF Prepare, LockFree, Free
  <2>3. \A g \in Handlers : handler'[g] = handler[g] \/ handler'[g].pc \notin UploadPoints
    <3>1. handler \in [Handlers -> Worker] /\ (handler' = handler \/ handler' = [handler EXCEPT ![h].pc = "spawn"])
      BY <1>1, Zenon DEF Prepare, Go, IInv, TypeOK
    <3> QED
      BY <3>1, Zenon DEF UploadPoints, Worker
  <2> QED
    BY <2>1, <2>2, <2>3, CleanReplaced, Zenon
<1>2. ASSUME NEW k \in Kinds, Queue(k) PROVE Clean'
  <2>1. "queued" \in Phases /\ ~TerminalPhase("queued")
    BY Zenon DEF Phases, TerminalPhase
  <2>2. removing = 0 /\ TerminalPhase(t.phase) /\ fetch' = fetch /\ handler' = handler /\ Replace(k, "queued")
    BY <1>2, Zenon DEF Queue, LockFree, Free
  <2> QED
    BY <2>1, <2>2, CleanReplaced, Zenon
<1>3. CASE Install
  <2>1. /\ removing = 0 /\ UNCHANGED <<files, removing, overtaken, fetch, handler>>
        /\ t'.id = t.id /\ t'.phase = "queued" /\ t.phase = "ready"
    BY <1>3, Zenon DEF Install, LockFree, IInv, TypeOK, Transfers
  <2>2. ~TerminalPhase("ready") /\ ~TerminalPhase("queued")
    BY Zenon DEF TerminalPhase
  <2> QED
    BY <2>1, <2>2, CleanKept, Zenon
<1>4. CASE Save
  <2>1. /\ removing = 0 /\ UNCHANGED <<fetch, handler>> /\ t'.id = t.id
        /\ RemoveTransferFiles(t.id, t.kind, files)
    BY <1>4, Zenon DEF Save, LockFree, IInv, TypeOK, Transfers
  <2> QED
    BY <2>1, CleanRemoved, Zenon
<1>5. CASE CancelTransfer
  <2>1. removing = 0 /\ UNCHANGED <<overtaken, fetch, handler>> /\ t'.id = t.id
    BY <1>5, Zenon DEF CancelTransfer, LockFree, IInv, TypeOK, Transfers
  <2>2. CASE t.phase = "uploading"
    <3>1. t'.phase = t.phase /\ UNCHANGED storage
      BY <1>5, <2>2, Zenon DEF CancelTransfer, IInv, TypeOK, Transfers
    <3> QED
      BY <2>1, <3>1, CleanKept, Zenon
  <2>3. CASE t.phase # "uploading"
    <3>1. RemoveTransferFiles(t.id, t.kind, files)
      BY <1>5, <2>3, Zenon DEF CancelTransfer
    <3> QED
      BY <2>1, <3>1, CleanRemoved, Zenon
  <2> QED
    BY <2>2, <2>3, Zenon
<1>6. CASE CancelBackup
  <2>1. /\ removing = 0 /\ UNCHANGED <<files, removing, overtaken, fetch, handler>>
        /\ t'.id = t.id /\ t.phase \in {"queued", "installing"} /\ t.kind = "backup" /\ t.id \in Ids
    BY <1>6, Zenon DEF CancelBackup, LockFree, IInv, TypeOK, Transfers
  <2>2. ~TerminalPhase(t.phase) /\ t.phase # "uploading"
    BY <2>1, Zenon DEF TerminalPhase
  <2>3. "dir" \notin files[t.id]
    BY <2>1, Zenon DEF IInv, Inv, FilesInv, HasDirectory
  <2> QED
    BY <2>1, <2>2, <2>3, CleanKept, Zenon
<1>7. CASE Reboot
  <2>1. removing = 0 /\ UNCHANGED <<t, files, removing, overtaken, fetch, handler>>
    BY <1>7, Zenon DEF Reboot, LockFree
  <2> QED
    BY <2>1, CleanKept, Zenon
<1>8. CASE ExternalChange
  <2>1. /\ UNCHANGED <<removing, t, overtaken, fetch, handler>> /\ t.phase \in {"ready", "queued"}
        /\ files' = [files EXCEPT ![t.id] = @ \ {"payload"}]
        /\ files \in FileSets /\ t.id \in Ids /\ fetch.id \in Ids /\ removing \in Ids
        /\ \A g \in Handlers : handler[g].id \in Ids
    BY <1>8, Zenon DEF ExternalChange, IInv, TypeOK, FileSets, Transfers, Fetches, Worker
  <2>2. \A j \in Ids : /\ "dir" \in files'[j] <=> "dir" \in files[j]
                       /\ "part" \in files'[j] <=> "part" \in files[j]
                       /\ "payload" \in files'[j] => "payload" \in files[j]
    BY <2>1 DEF FileSets
  <2>3. OpenInv'
    BY <2>1, <2>2, Zenon DEF IInv, Clean, OpenInv, Awaited
  <2>4. RemovingInv'
    BY <2>1, <2>2, Zenon DEF IInv, Clean, RemovingInv, Opened
  <2>5. PartInv'
    BY <2>1, <2>2, Zenon DEF IInv, Clean, PartInv
  <2>6. RestInv'
    BY <2>1, Zenon DEF RestInv, TerminalPhase
  <2> QED
    BY <2>3, <2>4, <2>5, <2>6, Zenon DEF Clean
<1> QED
  BY <1>1, <1>2, <1>3, <1>4, <1>5, <1>6, <1>7, <1>8, Zenon

(* So do the steps of a file command,                                         *)
LEMMA FileClean ==
  ASSUME IInv, ~lateFetch,
         \/ \E h \in Handlers : FileAccess(h)
         \/ \E h \in Handlers : FileDone(h)
         \/ \E h \in Handlers : SelectExisting(h)
         \/ \E h \in Handlers : ReviewExisting(h)
  PROVE  Clean'
<1> USE DEF service, flags, uiVars, fetchVars, storage, observed
<1>0. handler \in [Handlers -> Worker]
  BY Zenon DEF IInv, TypeOK
<1>1. ASSUME NEW h \in Handlers, FileAccess(h) PROVE Clean'
  <2>1. /\ removing = 0 /\ UNCHANGED <<t, files, removing, overtaken, fetch>>
        /\ handler[h].pc = "none" /\ handler' = [handler EXCEPT ![h].pc = "select"]
    BY <1>1, Zenon DEF FileAccess, LockFree, Idle, Go
  <2>2. \A g \in Handlers :
          \/ handler'[g] = handler[g]
          \/ handler[g].pc \notin {"receive", "settle"} /\ handler'[g].pc \notin UploadPoints
    BY <1>0, <2>1, Zenon DEF UploadPoints, Worker
  <2> QED
    BY <2>1, <2>2, CleanKept, Zenon
<1>2. ASSUME NEW h \in Handlers, FileDone(h) PROVE Clean'
  <2>1. /\ removing = 0 /\ UNCHANGED <<t, files, removing, overtaken, fetch>>
        /\ handler[h].pc = "select" /\ handler' = [handler EXCEPT ![h] = NoWorker]
    BY <1>2, Zenon DEF FileDone, LockFree, Leave
  <2>2. \A g \in Handlers :
          \/ handler'[g] = handler[g]
          \/ handler[g].pc \notin {"receive", "settle"} /\ handler'[g].pc \notin UploadPoints
    BY <1>0, <2>1, Zenon DEF UploadPoints, NoWorker
  <2> QED
    BY <2>1, <2>2, CleanKept, Zenon
<1>3. ASSUME NEW h \in Handlers, SelectExisting(h) PROVE Clean'
  <2>1. /\ "prepared" \in Phases /\ ~TerminalPhase("prepared") /\ "existing" \in Kinds
        /\ removing = 0 /\ fetch' = fetch /\ Replace("existing", "prepared")
        /\ handler[h].pc = "select"
        /\ handler' = [handler EXCEPT ![h].pc = "review", ![h].id = last + 1]
    BY <1>3, Zenon DEF SelectExisting, LockFree, Phases, Kinds, TerminalPhase
  <2>2. TerminalPhase(t.phase)
    BY <2>1, Zenon DEF IInv, Inv, SelectInv
  <2>3. \A g \in Handlers : handler'[g] = handler[g] \/ handler'[g].pc \notin UploadPoints
    BY <1>0, <2>1, Zenon DEF UploadPoints, Worker
  <2> QED
    BY <2>1, <2>2, <2>3, CleanReplaced, Zenon
<1>4. ASSUME NEW h \in Handlers, ReviewExisting(h) PROVE Clean'
  <2>1. /\ removing = 0 /\ UNCHANGED <<files, removing, overtaken, fetch>>
        /\ handler[h].pc = "review" /\ handler' = [handler EXCEPT ![h] = NoWorker]
        /\ t'.id = t.id /\ (t'.phase = t.phase \/ (t.phase = "prepared" /\ t'.phase = "ready"))
    BY <1>4, Zenon DEF ReviewExisting, LockFree, Leave, IInv, TypeOK, Transfers
  <2>2. \A g \in Handlers :
          \/ handler'[g] = handler[g]
          \/ handler[g].pc \notin {"receive", "settle"} /\ handler'[g].pc \notin UploadPoints
    BY <1>0, <2>1, Zenon DEF UploadPoints, NoWorker
  <2>3. ~TerminalPhase("prepared") /\ ~TerminalPhase("ready")
    BY Zenon DEF TerminalPhase
  <2> QED
    BY <2>1, <2>2, <2>3, CleanKept, Zenon
<1> QED
  BY <1>1, <1>2, <1>3, <1>4, Zenon

(* of the UI thread around jobs,                                              *)
LEMMA UiClean ==
  ASSUME IInv, ~lateFetch,
         \/ \E b \in BOOLEAN : Poll(b)
         \/ TakeReboot
         \/ TakeInstall
         \/ \E s \in {"running", "deferred"} : BeginInstall(s)
         \/ \E b \in BOOLEAN : Resume(b)
         \/ LocalJob
         \/ \E b \in BOOLEAN : JobDone(b)
  PROVE  Clean'
<1> USE DEF service, flags, uiVars, fetchVars, storage, observed
<1>1. CASE (\E b \in BOOLEAN : Poll(b) \/ Resume(b)) \/ TakeReboot \/ TakeInstall \/ LocalJob
  <2>1. /\ removing = 0 /\ UNCHANGED <<files, removing, overtaken, fetch, handler>>
        /\ t'.id = t.id /\ t'.phase = t.phase
    BY <1>1, Zenon DEF Poll, Resume, TakeReboot, TakeInstall, LocalJob, LockFree, IInv, TypeOK, Transfers
  <2> QED
    BY <2>1, CleanKept, Zenon
<1>2. ASSUME NEW s \in {"running", "deferred"}, BeginInstall(s) PROVE Clean'
  <2>1. /\ removing = 0 /\ UNCHANGED <<files, removing, overtaken, fetch, handler>> /\ t'.id = t.id
        /\ \/ t'.phase = t.phase
           \/ t.phase = "queued" /\ t'.phase = "installing"
           \/ t.phase = "queued" /\ t'.phase = "failed" /\ "payload" \notin files[t.id]
    BY <1>2, Zenon DEF BeginInstall, LockFree, Present, IInv, TypeOK, Transfers
  <2>2. ~TerminalPhase("queued") /\ ~TerminalPhase("installing")
    BY Zenon DEF TerminalPhase
  <2> QED
    BY <2>1, <2>2, CleanKept, Zenon
<1>3. ASSUME NEW b \in BOOLEAN, JobDone(b) PROVE Clean'
  <2>1. removing = 0 /\ UNCHANGED <<overtaken, fetch, handler>> /\ t'.id = t.id
    BY <1>3, Zenon DEF JobDone, LockFree, IInv, TypeOK, Transfers
  <2>2. CASE UNCHANGED <<t, storage>>
    BY <2>1, <2>2, CleanKept, Zenon
  <2>3. CASE RemoveTransferFiles(t.id, t.kind, files)
    BY <2>1, <2>3, CleanRemoved, Zenon
  <2> QED
    BY <1>3, <2>2, <2>3, Zenon DEF JobDone
<1> QED
  BY <1>1, <1>2, <1>3, Zenon

(* and of switching the service.                                              *)
LEMMA SwitchClean ==
  ASSUME IInv, ~lateFetch,
         \/ Disable
         \/ DisableJoin
         \/ DisableClear
         \/ Enable
  PROVE  Clean'
<1> USE DEF service, flags, uiVars, fetchVars, storage, observed
<1>1. CASE Disable \/ DisableJoin \/ Enable
  <2>1. removing = 0 /\ UNCHANGED <<t, files, removing, overtaken, fetch, handler>>
    BY <1>1, Zenon DEF Disable, DisableJoin, Enable, LockFree
  <2> QED
    BY <2>1, CleanKept, Zenon
<1>2. CASE DisableClear
  <2>1. removing = 0 /\ UNCHANGED <<overtaken, fetch, handler>> /\ t'.id = t.id
    BY <1>2, Zenon DEF DisableClear, LockFree, IInv, TypeOK, Transfers
  <2>2. CASE UNCHANGED <<t, storage>>
    BY <2>1, <2>2, CleanKept, Zenon
  <2>3. CASE RemoveTransferFiles(t.id, t.kind, files)
    BY <2>1, <2>3, CleanRemoved, Zenon
  <2> QED
    BY <1>2, <2>2, <2>3, Zenon DEF DisableClear
<1> QED
  BY <1>1, <1>2, Zenon

(* The steps of an upload keep it: its handler is the only one that can open  *)
(* the partial file between unlink and rmdir, and gives it up later.          *)
LEMMA UploadClean ==
  ASSUME IInv, ~lateFetch,
         \/ \E h \in Handlers : UploadAccept(h)
         \/ \E h \in Handlers : UploadOpen(h)
         \/ \E h \in Handlers, good \in BOOLEAN : UploadReceive(h, good)
         \/ \E h \in Handlers : UploadSettle(h)
         \/ \E h \in Handlers : UploadFinish(h)
  PROVE  Clean'
<1> USE DEF service, flags, uiVars, fetchVars, storage, observed
<1>0. /\ handler \in [Handlers -> Worker] /\ files \in FileSets /\ t.id \in Ids /\ fetch.id \in Ids
      /\ removing \in Ids /\ \A g \in Handlers : handler[g].id \in Ids
      /\ OpenInv /\ RemovingInv /\ PartInv /\ RestInv
  BY Zenon DEF IInv, TypeOK, FileSets, Transfers, Fetches, Worker, Clean
<1>1. ASSUME NEW h \in Handlers, UploadAccept(h) PROVE Clean'
  <2>1. /\ removing = 0 /\ UNCHANGED <<files, removing, overtaken, fetch>>
        /\ handler[h].pc = "none" /\ t'.id = t.id /\ t.phase = "prepared" /\ t'.phase = "uploading"
        /\ handler' = [handler EXCEPT ![h] = [pc |-> "open", id |-> t.id, gen |-> ConnectionGeneration, ok |-> TRUE]]
    BY <1>1, Zenon DEF UploadAccept, LockFree, Idle, IInv, TypeOK, Transfers
  <2>2. \A g \in Handlers :
          \/ handler'[g] = handler[g]
          \/ handler[g].pc \notin {"receive", "settle"} /\ handler'[g].pc = "open" /\ handler'[g].id = t.id
    BY <1>0, <2>1, Zenon
  <2>3. ~TerminalPhase("prepared") /\ ~TerminalPhase("uploading")
    BY Zenon DEF TerminalPhase
  <2> QED
    BY <2>1, <2>2, <2>3, CleanKept, Zenon
<1>2. ASSUME NEW h \in Handlers, UploadOpen(h) PROVE Clean'
  <2> DEFINE i == handler[h].id
  <2>1. /\ handler[h].pc = "open" /\ UNCHANGED <<t, removing, overtaken, fetch>>
        /\ files' = IF Creatable(i) THEN [files EXCEPT ![i] = @ \cup {"part"}] ELSE files
        /\ handler' = [handler EXCEPT ![h].pc = "receive", ![h].ok = Creatable(i)]
    BY <1>2, Zenon DEF UploadOpen
  <2>2. /\ handler'[h].pc = "receive" /\ handler'[h].id = i /\ i \in Ids
        /\ \A g \in Handlers : g # h => handler'[g] = handler[g]
    BY <1>0, <2>1, Zenon DEF Worker
  <2>3. CASE ~Creatable(i)
    <3>1. files' = files
      BY <2>1, <2>3, Zenon
    <3>2. OpenInv'
      BY <1>0, <2>1, <2>2, <3>1, Zenon DEF OpenInv, Awaited
    <3>3. RemovingInv'
      BY <1>0, <2>1, <2>2, <3>1, Zenon DEF RemovingInv, Opened
    <3>4. PartInv'
      BY <1>0, <2>1, <2>2, <3>1, Zenon DEF PartInv
    <3>5. RestInv'
      <4>1. Working(t.id) => Working(t.id)'
        BY <2>1, <2>2, Zenon DEF Working
      <4> QED
        BY <1>0, <2>1, <3>1, <4>1, Zenon DEF RestInv, LockFree
    <3> QED
      BY <3>2, <3>3, <3>4, <3>5, Zenon DEF Clean
  <2>4. CASE Creatable(i)
    <3>1. /\ files'[i] = files[i] \cup {"part"} /\ \A j \in Ids : j # i => files'[j] = files[j]
      BY <1>0, <2>1, <2>2, <2>4, Zenon DEF FileSets
    <3>2. "dir" \in files[i]
      BY <2>4, Zenon DEF Creatable
    <3>3. i = t.id /\ (t.phase = "uploading" \/ removing = i)
      BY <1>0, <2>1, <3>2, Zenon DEF OpenInv, Awaited
    <3>4. /\ "dir" \in files'[t.id] /\ ("payload" \in files'[t.id] <=> "payload" \in files[t.id])
          /\ \A j \in Ids : "dir" \in files'[j] <=> "dir" \in files[j]
      BY <1>0, <3>1, <3>2, <3>3
    <3>5. t.kind # "url" /\ \A g \in Handlers : g # h /\ handler[g].pc \in UploadPoints => handler[g].id # t.id
      BY <2>1, <3>3, Zenon DEF IInv, Inv, UploadInv, UploadPoints
    <3>6. fetch.pc # "none" => fetch.id # t.id
      BY <3>5, Zenon DEF IInv, Inv, FetchInv
    <3>7. OpenInv'
      BY <1>0, <2>1, <2>2, <3>4, Zenon DEF OpenInv, Awaited
    <3>8. RemovingInv'
      <4> SUFFICES ASSUME removing # 0
                   PROVE  /\ "payload" \notin files'[removing]
                          /\ "part" \in files'[removing] => removing = t.id /\ Opened(removing)'
        BY <1>0, <2>1, Zenon DEF RemovingInv
      <4>1. CASE removing = i
        <5>1. Opened(removing)'
          BY <2>1, <2>2, <4>1, Zenon DEF Opened
        <5>2. "payload" \notin files[t.id] /\ removing = t.id
          BY <1>0, <3>3, <4>1, Zenon DEF RemovingInv
        <5> QED
          BY <3>4, <5>1, <5>2, Zenon
      <4>2. CASE removing # i
        <5>1. files'[removing] = files[removing]
          BY <1>0, <3>1, <4>2, Zenon
        <5> QED
          BY <1>0, <3>3, <4>2, <5>1, Zenon DEF RemovingInv
      <4> QED
        BY <4>1, <4>2, Zenon
    <3>9. PartInv'
      <4>1. TerminalPhase(t.phase) \/ t.phase = "uploading"
        BY <3>2, <3>3, Zenon DEF IInv, Inv, FilesInv
      <4>2. \A g \in Handlers : handler'[g].pc = "finish" => handler'[g].id # t.id
        BY <2>2, <3>5, Zenon DEF UploadPoints
      <4> QED
        BY <2>1, <3>6, <4>1, <4>2, Zenon DEF PartInv
    <3>10. RestInv'
      <4> SUFFICES ASSUME TerminalPhase(t.phase), removing = 0 PROVE FALSE
        BY <2>1, Zenon DEF RestInv, LockFree
      <4>1. removing = i /\ i = t.id
        BY <3>3, Zenon DEF TerminalPhase
      <4> QED
        BY <1>0, <3>2, <4>1, Zenon DEF IInv, Inv, FilesInv
    <3> QED
      BY <3>7, <3>8, <3>9, <3>10, Zenon DEF Clean
  <2> QED
    BY <2>3, <2>4, Zenon
<1>3. ASSUME NEW h \in Handlers, NEW good \in BOOLEAN, UploadReceive(h, good) PROVE Clean'
  <2>1. /\ removing = 0 /\ UNCHANGED <<t, files, removing, overtaken, fetch>>
        /\ handler' = [handler EXCEPT ![h].pc = "settle", ![h].ok = good]
    BY <1>3, Zenon DEF UploadReceive, LockFree
  <2>2. /\ handler'[h].pc = "settle" /\ handler'[h].id = handler[h].id
        /\ \A g \in Handlers : g # h => handler'[g] = handler[g]
    BY <1>0, <2>1, Zenon DEF Worker
  <2>3. OpenInv'
    BY <1>0, <2>1, <2>2, Zenon DEF OpenInv, Awaited
  <2>4. RemovingInv'
    BY <2>1, Zenon DEF RemovingInv
  <2>5. PartInv'
    BY <1>0, <2>1, <2>2, Zenon DEF PartInv
  <2>6. RestInv'
    <3>1. Working(t.id) => Working(t.id)'
      BY <2>1, <2>2, Zenon DEF Working
    <3> QED
      BY <1>0, <2>1, <3>1, Zenon DEF RestInv, LockFree
  <2> QED
    BY <2>3, <2>4, <2>5, <2>6, Zenon DEF Clean
<1>4. ASSUME NEW h \in Handlers, UploadSettle(h) PROVE Clean'
  <2> DEFINE i == handler[h].id
  <2>1. removing = 0 /\ handler[h].pc = "settle" /\ UNCHANGED <<t, removing, overtaken, fetch>> /\ i \in Ids
    BY <1>0, <1>4, Zenon DEF UploadSettle, LockFree
  <2>2. CASE Live(handler[h])
    <3>1. /\ i = t.id /\ t.phase = "uploading"
          /\ files' = IF Keeps(handler[h]) THEN Renamed(i) ELSE files
          /\ handler' = [handler EXCEPT ![h].pc = "finish", ![h].ok = Keeps(handler[h])]
      BY <1>4, <2>2, Zenon DEF UploadSettle, Live
    <3>2. /\ handler'[h].pc = "finish" /\ handler'[h].id = i /\ handler'[h].ok = Keeps(handler[h])
          /\ \A g \in Handlers : g # h => handler'[g] = handler[g]
      BY <1>0, <3>1, Zenon DEF Worker
    <3>3. /\ \A j \in Ids : "dir" \in files'[j] => "dir" \in files[j]
          /\ "part" \in files'[i] => "part" \in files[i] /\ ~Keeps(handler[h])
      <4>1. CASE Keeps(handler[h])
        <5>1. /\ files'[i] = (files[i] \ {"part"}) \cup {"payload"}
              /\ \A j \in Ids : j # i => files'[j] = files[j]
          BY <1>0, <2>1, <3>1, <4>1, Zenon DEF Renamed, FileSets
        <5> QED
          BY <5>1
      <4>2. CASE ~Keeps(handler[h])
        BY <3>1, <4>2, Zenon
      <4> QED
        BY <4>1, <4>2, Zenon
    <3>4. OpenInv'
      BY <1>0, <2>1, <3>2, <3>3, Zenon DEF OpenInv, Awaited
    <3>5. RemovingInv'
      BY <2>1, Zenon DEF RemovingInv
    <3>6. PartInv'
      <4>1. ~TerminalPhase(t.phase)
        BY <3>1, Zenon DEF TerminalPhase
      <4> QED
        BY <1>0, <2>1, <3>1, <3>2, <3>3, <4>1, Zenon DEF PartInv
    <3>7. RestInv'
      BY <2>1, <3>1, Zenon DEF RestInv, TerminalPhase
    <3> QED
      BY <3>4, <3>5, <3>6, <3>7, Zenon DEF Clean
  <2>3. CASE ~Live(handler[h])
    <3>1. files' = Abandoned(i) /\ handler' = [handler EXCEPT ![h] = NoWorker]
      BY <1>4, <2>3, Zenon DEF UploadSettle, Leave
    <3>2. /\ handler'[h].pc = "none"
          /\ \A g \in Handlers : g # h => handler'[g] = handler[g]
      BY <1>0, <3>1, Zenon DEF NoWorker
    <3>3. files'[i] = files[i] \ {"part"} /\ \A j \in Ids : j # i => files'[j] = files[j]
      BY <1>0, <2>1, <3>1, Zenon DEF Abandoned, FileSets
    <3>4. /\ \A j \in Ids : /\ "dir" \in files'[j] => "dir" \in files[j]
                            /\ "part" \in files'[j] => "part" \in files[j] /\ j # i
                            /\ "payload" \in files'[j] => "payload" \in files[j]
      BY <3>3
    <3>5. OpenInv'
      BY <1>0, <2>1, <3>2, <3>4, Zenon DEF OpenInv, Awaited
    <3>6. RemovingInv'
      BY <2>1, Zenon DEF RemovingInv
    <3>7. PartInv'
      BY <1>0, <2>1, <3>2, <3>4, Zenon DEF PartInv
    <3>8. RestInv'
      <4>1. i # t.id /\ Working(t.id) => Working(t.id)'
        BY <2>1, <3>2, Zenon DEF Working
      <4> QED
        BY <1>0, <2>1, <3>4, <4>1, Zenon DEF RestInv, LockFree
    <3> QED
      BY <3>5, <3>6, <3>7, <3>8, Zenon DEF Clean
  <2> QED
    BY <2>2, <2>3, Zenon
<1>5. ASSUME NEW h \in Handlers, UploadFinish(h) PROVE Clean'
  <2>1. /\ removing = 0 /\ handler[h].pc = "finish" /\ UNCHANGED <<overtaken, fetch>>
        /\ handler' = [handler EXCEPT ![h] = NoWorker]
    BY <1>5, Zenon DEF UploadFinish, LockFree, Leave
  <2>2. /\ handler'[h].pc = "none" /\ \A g \in Handlers : g # h => handler'[g] = handler[g]
    BY <1>0, <2>1, Zenon DEF NoWorker
  <2>3. CASE ~Live(handler[h])
    <3>1. UNCHANGED <<t, storage>>
      BY <1>5, <2>3, Zenon DEF UploadFinish
    <3>2. \A g \in Handlers :
            \/ handler'[g] = handler[g]
            \/ handler[g].pc \notin {"receive", "settle"} /\ handler'[g].pc \notin UploadPoints
      BY <2>1, <2>2, Zenon DEF UploadPoints
    <3> QED
      BY <2>1, <3>1, <3>2, CleanKept, Zenon
  <2>4. CASE Live(handler[h]) /\ ~(handler[h].ok /\ ~t.cancel)
    <3>1. RemoveTransferFiles(t.id, t.kind, files) /\ t'.id = t.id
      BY <1>5, <2>4, Zenon DEF UploadFinish, Live, IInv, TypeOK, Transfers
    <3> QED
      BY <2>1, <2>2, <3>1, CleanRemoved, Zenon
  <2>5. CASE Live(handler[h]) /\ handler[h].ok /\ ~t.cancel
    <3>1. UNCHANGED <<files, removing>> /\ t'.id = t.id /\ t'.phase = "ready" /\ handler[h].id = t.id
      BY <1>5, <2>5, Zenon DEF UploadFinish, Live, Outcome, IInv, TypeOK, Transfers
    <3>2. "part" \notin files[t.id]
      BY <1>0, <2>1, <2>5, <3>1, Zenon DEF PartInv
    <3>3. t.kind # "url" /\ \A g \in Handlers : g # h /\ handler[g].pc \in UploadPoints => handler[g].id # t.id
      BY <2>1, <3>1, Zenon DEF IInv, Inv, UploadInv, UploadPoints
    <3>4. fetch.pc # "none" => fetch.id # t.id
      BY <3>3, Zenon DEF IInv, Inv, FetchInv
    <3>5. OpenInv'
      <4>1. ASSUME NEW g \in Handlers, handler'[g].pc = "open", "dir" \in files[handler'[g].id] PROVE FALSE
        <5>1. g # h /\ handler'[g] = handler[g]
          BY <2>2, <4>1, Zenon
        <5>2. Awaited(handler[g].id)
          BY <1>0, <4>1, <5>1, Zenon DEF OpenInv
        <5> QED
          BY <3>3, <4>1, <5>1, <5>2, Zenon DEF Awaited, UploadPoints
      <4>2. ASSUME fetch.pc = "open", "dir" \in files[fetch.id] PROVE FALSE
        BY <1>0, <3>4, <4>2, Zenon DEF OpenInv, Awaited
      <4> QED
        BY <2>1, <3>1, <4>1, <4>2, Zenon DEF OpenInv
    <3>6. RemovingInv' /\ PartInv' /\ RestInv'
      BY <2>1, <3>1, <3>2, Zenon DEF RemovingInv, PartInv, RestInv, TerminalPhase
    <3> QED
      BY <3>5, <3>6, Zenon DEF Clean
  <2> QED
    BY <2>3, <2>4, <2>5, Zenon
<1> QED
  BY <1>1, <1>2, <1>3, <1>4, <1>5, Zenon

(* The start and the steps of a download keep it, and so does rmdir.          *)
LEMMA FetchClean ==
  ASSUME IInv, ~lateFetch', ~lateFetch,
         \/ \E h \in Handlers : Spawn(h)
         \/ FetchOpen
         \/ \E good \in BOOLEAN : FetchReceive(good)
         \/ FetchSettle
         \/ FetchRename
         \/ FetchFinish
  PROVE  Clean'
<1> USE DEF service, flags, uiVars, fetchVars, storage, observed
<1>0. /\ handler \in [Handlers -> Worker] /\ files \in FileSets /\ t.id \in Ids /\ fetch.id \in Ids
      /\ removing \in Ids /\ fetch \in Fetches /\ \A g \in Handlers : handler[g].id \in Ids
      /\ OpenInv /\ RemovingInv /\ PartInv /\ RestInv
  BY Zenon DEF IInv, TypeOK, FileSets, Transfers, Fetches, Worker, Clean
<1>a. fetch.pc # "none" /\ fetch.id = t.id =>
        /\ t.kind = "url"
        /\ \A g \in Handlers : handler[g].pc \in UploadPoints => handler[g].id # t.id
  BY Zenon DEF IInv, Inv, FetchInv, UploadInv
<1>1. ASSUME NEW h \in Handlers, Spawn(h) PROVE Clean'
  <2>1. /\ removing = 0 /\ UNCHANGED <<t, files, removing, overtaken>> /\ handler[h].pc = "spawn"
        /\ fetch.pc = "none" /\ t.phase = "uploading"
        /\ handler' = [handler EXCEPT ![h] = NoWorker]
        /\ fetch' = [pc |-> "open", id |-> t.id, kind |-> t.kind, gen |-> generation, ok |-> TRUE]
    BY <1>1, Zenon DEF Spawn, LockFree, Leave
  <2>2. /\ handler'[h].pc = "none" /\ \A g \in Handlers : g # h => handler'[g] = handler[g]
        /\ fetch'.pc = "open" /\ fetch'.id = t.id
    BY <1>0, <2>1, Zenon DEF NoWorker
  <2>3. OpenInv'
    BY <1>0, <2>1, <2>2, Zenon DEF OpenInv, Awaited
  <2>4. RemovingInv'
    BY <2>1, Zenon DEF RemovingInv
  <2>5. PartInv'
    BY <1>0, <2>1, <2>2, Zenon DEF PartInv
  <2>6. RestInv'
    BY <2>1, Zenon DEF RestInv, TerminalPhase
  <2> QED
    BY <2>3, <2>4, <2>5, <2>6, Zenon DEF Clean
<1>2. CASE FetchOpen
  <2>1. /\ fetch.pc = "open" /\ UNCHANGED <<t, removing, overtaken, handler>>
        /\ files' = IF Creatable(fetch.id) THEN [files EXCEPT ![fetch.id] = @ \cup {"part"}] ELSE files
        /\ fetch' = [fetch EXCEPT !.pc = "receive", !.ok = Creatable(fetch.id)]
    BY <1>2, Zenon DEF FetchOpen
  <2>2. fetch'.pc = "receive" /\ fetch'.id = fetch.id
    BY <1>0, <2>1, Zenon DEF Fetches
  <2>3. CASE ~Creatable(fetch.id)
    <3>1. files' = files
      BY <2>1, <2>3, Zenon
    <3>2. OpenInv'
      BY <1>0, <2>1, <2>2, <3>1, Zenon DEF OpenInv, Awaited
    <3>3. RemovingInv'
      BY <1>0, <2>1, <2>2, <3>1, Zenon DEF RemovingInv, Opened
    <3>4. PartInv'
      BY <1>0, <2>1, <2>2, <3>1, Zenon DEF PartInv
    <3>5. RestInv'
      <4>1. Working(t.id) => Working(t.id)'
        BY <2>1, <2>2, Zenon DEF Working
      <4> QED
        BY <1>0, <2>1, <3>1, <4>1, Zenon DEF RestInv, LockFree
    <3> QED
      BY <3>2, <3>3, <3>4, <3>5, Zenon DEF Clean
  <2>4. CASE Creatable(fetch.id)
    <3>1. /\ files'[fetch.id] = files[fetch.id] \cup {"part"}
          /\ \A j \in Ids : j # fetch.id => files'[j] = files[j]
      BY <1>0, <2>1, <2>4, Zenon DEF FileSets
    <3>2. "dir" \in files[fetch.id]
      BY <2>4, Zenon DEF Creatable
    <3>3. fetch.id = t.id /\ (t.phase = "uploading" \/ removing = t.id)
      BY <1>0, <2>1, <3>2, Zenon DEF OpenInv, Awaited
    <3>4. /\ "payload" \in files'[t.id] <=> "payload" \in files[t.id]
          /\ \A j \in Ids : "dir" \in files'[j] <=> "dir" \in files[j]
      BY <1>0, <3>1, <3>2, <3>3
    <3>5. OpenInv'
      BY <1>0, <2>1, <2>2, <3>4, Zenon DEF OpenInv, Awaited
    <3>6. RemovingInv'
      <4> SUFFICES ASSUME removing # 0
                   PROVE  /\ "payload" \notin files'[removing]
                          /\ "part" \in files'[removing] => removing = t.id /\ Opened(removing)'
        BY <1>0, <2>1, Zenon DEF RemovingInv
      <4>1. CASE removing = t.id
        <5>1. Opened(removing)'
          BY <2>1, <2>2, <3>3, <4>1, Zenon DEF Opened
        <5>2. "payload" \notin files[t.id]
          BY <1>0, <4>1, Zenon DEF RemovingInv
        <5> QED
          BY <3>4, <4>1, <5>1, <5>2, Zenon
      <4>2. CASE removing # t.id
        <5>1. files'[removing] = files[removing]
          BY <1>0, <3>1, <3>3, <4>2, Zenon
        <5> QED
          BY <1>0, <4>2, <5>1, Zenon DEF RemovingInv
      <4> QED
        BY <4>1, <4>2, Zenon
    <3>7. PartInv'
      <4>1. TerminalPhase(t.phase) \/ t.phase = "uploading"
        BY <3>2, <3>3, Zenon DEF IInv, Inv, FilesInv
      <4>2. \A g \in Handlers : handler[g].pc = "finish" => handler[g].id # t.id
        BY <1>a, <2>1, <3>3, Zenon DEF UploadPoints
      <4> QED
        BY <2>1, <2>2, <4>1, <4>2, Zenon DEF PartInv
    <3>8. RestInv'
      <4> SUFFICES ASSUME TerminalPhase(t.phase), removing = 0 PROVE FALSE
        BY <2>1, Zenon DEF RestInv, LockFree
      <4>1. removing = t.id
        BY <3>3, Zenon DEF TerminalPhase
      <4> QED
        BY <1>0, <3>2, <3>3, <4>1, Zenon DEF IInv, Inv, FilesInv
    <3> QED
      BY <3>5, <3>6, <3>7, <3>8, Zenon DEF Clean
  <2> QED
    BY <2>3, <2>4, Zenon
<1>3. ASSUME NEW good \in BOOLEAN, FetchReceive(good) PROVE Clean'
  <2>1. /\ removing = 0 /\ UNCHANGED <<t, files, removing, overtaken, handler>> /\ fetch.pc = "receive"
        /\ fetch' = [fetch EXCEPT !.pc = "settle", !.ok = good]
    BY <1>3, Zenon DEF FetchReceive, LockFree
  <2>2. fetch'.pc = "settle" /\ fetch'.id = fetch.id
    BY <1>0, <2>1, Zenon DEF Fetches
  <2>3. OpenInv' /\ RemovingInv'
    BY <1>0, <2>1, <2>2, Zenon DEF OpenInv, Awaited, RemovingInv
  <2>4. PartInv'
    BY <1>0, <2>1, <2>2, Zenon DEF PartInv
  <2>5. RestInv'
    <3>1. Working(t.id) => Working(t.id)'
      BY <2>1, <2>2, Zenon DEF Working
    <3> QED
      BY <1>0, <2>1, <3>1, Zenon DEF RestInv, LockFree
  <2> QED
    BY <2>3, <2>4, <2>5, Zenon DEF Clean
<1>4. CASE FetchSettle
  <2>1. /\ removing = 0 /\ UNCHANGED <<t, files, removing, overtaken, handler>> /\ fetch.pc = "settle"
        /\ fetch' = [fetch EXCEPT !.pc = "rename", !.ok = @ /\ Current]
    BY <1>4, Zenon DEF FetchSettle, LockFree
  <2>2. /\ fetch'.pc = "rename" /\ fetch'.id = fetch.id
        /\ fetch'.ok => Current
    BY <1>0, <2>1, Zenon DEF Fetches
  <2>3. OpenInv' /\ RemovingInv'
    BY <1>0, <2>1, <2>2, Zenon DEF OpenInv, Awaited, RemovingInv
  <2>4. PartInv'
    <3>1. fetch'.ok => t.phase = "uploading" /\ ~TerminalPhase(t.phase)
      BY <2>2, Zenon DEF Current, Live, TerminalPhase
    <3> QED
      BY <1>0, <2>1, <2>2, <3>1, Zenon DEF PartInv
  <2>5. RestInv'
    <3>1. Working(t.id) => Working(t.id)'
      BY <2>1, <2>2, Zenon DEF Working
    <3> QED
      BY <1>0, <2>1, <3>1, Zenon DEF RestInv, LockFree
  <2> QED
    BY <2>3, <2>4, <2>5, Zenon DEF Clean
<1>5. CASE FetchRename
  <2> DEFINE done == fetch.ok /\ "part" \in files[fetch.id]
  <2>1. /\ fetch.pc = "rename" /\ UNCHANGED <<t, removing, overtaken, handler>>
        /\ files' = IF done THEN Renamed(fetch.id) ELSE files
        /\ fetch' = [fetch EXCEPT !.pc = "finish", !.ok = done]
    BY <1>5, Zenon DEF FetchRename
  <2>2. fetch'.pc = "finish" /\ fetch'.id = fetch.id /\ fetch'.ok = done
    BY <1>0, <2>1, Zenon DEF Fetches
  <2>w. Working(t.id) => Working(t.id)'
    BY <2>1, <2>2, Zenon DEF Working
  <2>3. CASE ~done
    <3>1. files' = files
      BY <2>1, <2>3, Zenon
    <3>2. OpenInv'
      BY <1>0, <2>1, <2>2, <3>1, Zenon DEF OpenInv, Awaited
    <3>3. RemovingInv'
      BY <1>0, <2>1, <2>2, <3>1, Zenon DEF RemovingInv, Opened
    <3>4. PartInv'
      BY <1>0, <2>1, <2>2, <2>3, <3>1, Zenon DEF PartInv
    <3>5. RestInv'
      BY <1>0, <2>1, <2>w, <3>1, Zenon DEF RestInv, LockFree
    <3> QED
      BY <3>2, <3>3, <3>4, <3>5, Zenon DEF Clean
  <2>4. CASE done
    <3>1. "dir" \in files[fetch.id]
      BY <1>0, <2>4, Zenon DEF IInv, Inv, FilesInv
    <3>2. fetch.id # removing
      <4> SUFFICES ASSUME fetch.id = removing PROVE FALSE
        OBVIOUS
      <4>1. removing # 0
        BY <3>1, Zenon DEF IInv, Inv, FilesInv
      <4>2. fetch.id = t.id /\ TerminalPhase(t.phase)
        BY <1>0, <2>4, <4>1, Zenon DEF RemovingInv, IInv, Inv, FilesInv
      <4> QED
        BY <1>0, <2>1, <2>4, <4>2, Zenon DEF PartInv
    <3>3. fetch.id = t.id
      BY <1>0, <3>1, <3>2, Zenon DEF IInv, Inv, FilesInv
    <3>4. t.phase = "uploading" /\ ~TerminalPhase(t.phase)
      BY <1>0, <2>1, <2>4, <3>3, Zenon DEF PartInv, TerminalPhase
    <3>5. /\ files'[t.id] = (files[t.id] \ {"part"}) \cup {"payload"}
          /\ \A j \in Ids : j # t.id => files'[j] = files[j]
      BY <1>0, <2>1, <2>4, <3>3, Zenon DEF Renamed, FileSets
    <3>6. "part" \notin files'[t.id] /\ \A j \in Ids : "dir" \in files'[j] => "dir" \in files[j]
      BY <3>5
    <3>7. OpenInv'
      BY <1>0, <2>1, <2>2, <3>6, Zenon DEF OpenInv, Awaited
    <3>8. RemovingInv'
      <4>1. files'[removing] = files[removing]
        BY <1>0, <3>2, <3>3, <3>5, Zenon
      <4>2. Opened(removing) => Opened(removing)'
        BY <2>1, Zenon DEF Opened
      <4> QED
        BY <1>0, <2>1, <4>1, <4>2, Zenon DEF RemovingInv
    <3>9. PartInv' /\ RestInv'
      BY <2>1, <3>4, <3>6, Zenon DEF PartInv, RestInv
    <3> QED
      BY <3>7, <3>8, <3>9, Zenon DEF Clean
  <2> QED
    BY <2>3, <2>4, Zenon
<1>6. CASE FetchFinish
  <2> DEFINE ok == fetch.ok /\ ~t.cancel /\ running /\ generation = fetch.gen
  <2>1. removing = 0 /\ fetch.pc = "finish" /\ UNCHANGED <<overtaken, handler>> /\ fetch' = NoFetch
    BY <1>6, Zenon DEF FetchFinish, LockFree
  <2>2. fetch'.pc = "none"
    BY <2>1, Zenon DEF NoFetch
  <2>3. CASE t.id = fetch.id /\ ~ok
    <3>1. RemoveTransferFiles(fetch.id, fetch.kind, files) /\ t'.id = t.id
      BY <1>6, <2>3, Zenon DEF FetchFinish, IInv, TypeOK, Transfers
    <3>2. fetch.kind = t.kind
      BY <2>1, <2>3, Zenon DEF IInv, Inv, FetchInv
    <3>3. RemoveTransferFiles(t.id, t.kind, files)
      BY <2>3, <3>1, <3>2, Zenon
    <3> QED
      BY <2>1, <2>2, <3>1, <3>3, CleanRemoved, Zenon
  <2>4. CASE t.id = fetch.id /\ ok
    <3>1. UNCHANGED <<files, removing>> /\ t'.id = t.id /\ t'.phase = "ready"
      BY <1>6, <2>4, Zenon DEF FetchFinish, Outcome, IInv, TypeOK, Transfers
    <3>2. "part" \notin files[t.id]
      BY <1>0, <2>1, <2>4, Zenon DEF PartInv
    <3>3. OpenInv'
      <4>1. ASSUME NEW g \in Handlers, handler[g].pc = "open", "dir" \in files[handler[g].id] PROVE FALSE
        <5>1. Awaited(handler[g].id)
          BY <1>0, <4>1, Zenon DEF OpenInv
        <5> QED
          BY <1>a, <2>1, <2>4, <4>1, <5>1, Zenon DEF Awaited, UploadPoints
      <4> QED
        BY <2>1, <2>2, <3>1, <4>1, Zenon DEF OpenInv
    <3>4. RemovingInv' /\ PartInv' /\ RestInv'
      BY <2>1, <3>1, <3>2, Zenon DEF RemovingInv, PartInv, RestInv, TerminalPhase
    <3> QED
      BY <3>3, <3>4, Zenon DEF Clean
  <2>5. CASE t.id # fetch.id
    <3>1. RemoveTransferFiles(fetch.id, fetch.kind, files) /\ t' = t
      BY <1>6, <2>5, Zenon DEF FetchFinish
    <3>2. "dir" \notin files[fetch.id]
      BY <1>0, <2>1, <2>5, Zenon DEF IInv, Inv, FilesInv
    <3>3. removing' = 0
      BY <1>0, <2>1, <3>1, <3>2, Removal, Zenon
    <3>4. /\ \A j \in Ids : files'[j] = files[j] \/ files'[j] = files[j] \cap {"dir"}
          /\ files'[t.id] = files[t.id]
      BY <1>0, <2>1, <2>5, <3>1, Removal, Zenon
    <3>5. \A j \in Ids : "dir" \in files'[j] => "dir" \in files[j]
      BY <3>4, Zenon
    <3>6. OpenInv'
      BY <1>0, <2>1, <2>2, <3>1, <3>3, <3>5, Zenon DEF OpenInv, Awaited
    <3>7. RemovingInv'
      BY <3>3, Zenon DEF RemovingInv
    <3>8. PartInv'
      BY <1>0, <2>1, <2>2, <3>1, <3>4, Zenon DEF PartInv
    <3>9. RestInv'
      <4>1. Working(t.id) => Working(t.id)'
        BY <2>1, <2>5, <3>1, Zenon DEF Working
      <4> QED
        BY <1>0, <2>1, <3>1, <3>4, <4>1, Zenon DEF RestInv, LockFree
    <3> QED
      BY <3>6, <3>7, <3>8, <3>9, Zenon DEF Clean
  <2> QED
    BY <2>3, <2>4, <2>5, Zenon
<1> QED
  BY <1>1, <1>2, <1>3, <1>4, <1>5, <1>6, Zenon

LEMMA DirectoryClean ==
  ASSUME IInv, ~lateFetch, RemoveDirectory
  PROVE  Clean'
<1> USE DEF service, flags, uiVars, fetchVars, storage, observed
<1>0. /\ handler \in [Handlers -> Worker] /\ files \in FileSets /\ t.id \in Ids /\ fetch.id \in Ids
      /\ removing \in Ids /\ \A g \in Handlers : handler[g].id \in Ids
      /\ OpenInv /\ RemovingInv /\ PartInv /\ RestInv
  BY Zenon DEF IInv, TypeOK, FileSets, Transfers, Fetches, Worker, Clean
<1>1. /\ removing # 0 /\ removing' = 0 /\ UNCHANGED <<t, handler, fetch>>
      /\ "dir" \in files[removing] /\ (removing = t.id => TerminalPhase(t.phase))
  BY Zenon DEF RemoveDirectory, IInv, Inv, FilesInv
<1>2. RemovingInv'
  BY <1>1, Zenon DEF RemovingInv
<1>3. CASE files[removing] = {"dir"}
  <2>1. files' = [files EXCEPT ![removing] = {}] /\ overtaken' = overtaken
    BY <1>3, Zenon DEF RemoveDirectory
  <2>2. files'[removing] = {} /\ \A j \in Ids : j # removing => files'[j] = files[j]
    BY <1>0, <2>1, Zenon DEF FileSets
  <2>3. OpenInv'
    BY <1>0, <1>1, <2>2, Zenon DEF OpenInv, Awaited
  <2>4. PartInv'
    BY <1>0, <1>1, <2>2, Zenon DEF PartInv
  <2>5. RestInv'
    <3>1. CASE removing = t.id
      BY <1>1, <2>2, <3>1, Zenon DEF RestInv
    <3>2. CASE removing # t.id
      BY <1>0, <1>1, <3>2, Zenon DEF RemovingInv, RestInv
    <3> QED
      BY <3>1, <3>2, Zenon
  <2> QED
    BY <1>2, <2>3, <2>4, <2>5, Zenon DEF Clean
<1>4. CASE files[removing] # {"dir"}
  <2>1. files' = files /\ overtaken' = overtaken \cup {removing}
    BY <1>4, Zenon DEF RemoveDirectory
  <2>2. "part" \in files[removing] \/ "payload" \in files[removing]
    <3>1. files[removing] \subseteq {"dir", "part", "payload"}
      BY <1>0, Zenon DEF FileSets
    <3> QED
      BY <1>1, <1>4, <3>1
  <2>3. /\ removing = t.id /\ Opened(t.id) /\ "payload" \notin files[t.id]
    BY <1>0, <1>1, <2>2, Zenon DEF RemovingInv
  <2>4. /\ \A g \in Handlers : handler[g].pc = "open" => handler[g].id # t.id
        /\ fetch.pc = "open" => fetch.id # t.id
    <3>1. CASE \E h \in Handlers : handler[h].id = t.id /\ handler[h].pc = "receive"
      <4>1. PICK h \in Handlers : handler[h].id = t.id /\ handler[h].pc = "receive"
        BY <3>1, Zenon
      <4>2. t.kind # "url" /\ \A g \in Handlers : g # h /\ handler[g].pc \in UploadPoints => handler[g].id # t.id
        BY <4>1, Zenon DEF IInv, Inv, UploadInv, UploadPoints
      <4>3. fetch.pc # "none" => fetch.id # t.id
        BY <4>2, Zenon DEF IInv, Inv, FetchInv
      <4> QED
        BY <4>1, <4>2, <4>3, Zenon DEF UploadPoints
    <3>2. CASE fetch.id = t.id /\ fetch.pc = "receive"
      <4>1. t.kind = "url"
        BY <3>2, Zenon DEF IInv, Inv, FetchInv
      <4>2. \A g \in Handlers : handler[g].pc \in UploadPoints => handler[g].id # t.id
        BY <4>1, Zenon DEF IInv, Inv, UploadInv
      <4> QED
        BY <3>2, <4>2, Zenon DEF UploadPoints
    <3> QED
      BY <2>3, <3>1, <3>2, Zenon DEF Opened
  <2>5. OpenInv'
    BY <1>0, <1>1, <2>1, <2>4, Zenon DEF OpenInv, Awaited
  <2>6. PartInv'
    BY <1>0, <1>1, <2>1, Zenon DEF PartInv
  <2>7. RestInv'
    <3>1. Working(t.id)'
      BY <1>1, <2>3, Zenon DEF Opened, Working
    <3> QED
      BY <1>1, <2>1, <2>3, <3>1, Zenon DEF RestInv
  <2> QED
    BY <1>2, <2>5, <2>6, <2>7, Zenon DEF Clean
<1> QED
  BY <1>3, <1>4, Zenon

(* No step takes back that a download was started late.                      *)
LEMMA LateStays ==
  ASSUME Next, lateFetch
  PROVE  lateFetch'
BY Zenon DEF Next, HandlerStep, FetchStep, Prepare, UploadAccept, FileAccess, Queue, Install, Save,
     CancelTransfer, CancelBackup, Reboot, RemoveDirectory, UploadOpen, UploadReceive, UploadSettle,
     UploadFinish, FileDone, SelectExisting, ReviewExisting, Spawn, FetchOpen, FetchReceive,
     FetchSettle, FetchRename, FetchFinish, Poll, TakeReboot, TakeInstall, BeginInstall, Resume,
     LocalJob, JobDone, Disable, DisableJoin, DisableClear, Enable, ExternalChange, fetchVars

(* IInv is an invariant. *)
LEMMA Invariance == Spec => []IInv
<1>1. IInv /\ [Next]_vars => IInv'
  <2> SUFFICES ASSUME IInv, [Next]_vars PROVE IInv'
    OBVIOUS
  <2>0. TypeOK /\ ServiceInv /\ t.id = last
    BY Zenon DEF IInv, Inv, FilesInv
  <2>1. CASE UNCHANGED vars
    <3>1. TypeOK'
      BY <2>0, <2>1, Zenon DEF vars, TypeOK, FlagsOK
    <3>2. FilesInv' /\ UploadInv' /\ FetchInv'
      BY <2>1, Zenon DEF vars, IInv, Inv, FilesInv, UploadInv, FetchInv
    <3>3. ServiceInv' /\ SelectInv' /\ LateInv' /\ JobInv'
      BY <2>1, Zenon DEF vars, IInv, Inv, ServiceInv, SelectInv, LateInv, Stale, JobInv
    <3>4. ChannelInv' /\ ResultIsOwn'
      BY <2>1, Zenon DEF vars, IInv, Inv, ChannelInv, ResultIsOwn
    <3>5. ~lateFetch' => OpenInv' /\ RemovingInv'
      BY <2>1, Zenon DEF vars, IInv, Clean, OpenInv, Awaited, RemovingInv, Opened
    <3>6. ~lateFetch' => PartInv' /\ RestInv'
      BY <2>1, Zenon DEF vars, IInv, Clean, PartInv, RestInv, LockFree, Working
    <3> QED
      BY <3>1, <3>2, <3>3, <3>4, <3>5, <3>6, Zenon DEF IInv, Inv, Clean
  <2> SUFFICES ASSUME Next PROVE IInv'
    BY <2>1, Zenon
  <2>l. ~lateFetch' => ~lateFetch
    BY LateStays, Zenon
  <2>2. ASSUME NEW h \in Handlers, HandlerStep(h) PROVE IInv'
    <3>1. TypeOK'
      BY <2>0, <2>2, UploadTypes, FileTypes, FetchTypes, Zenon DEF HandlerStep
    <3>2. Inv'
      BY <2>2, UploadKeeps, FileKeeps, FetchKeeps, Zenon DEF HandlerStep
    <3>3. ~lateFetch' => Clean'
      BY <2>l, <2>2, UploadClean, FileClean, FetchClean, Zenon DEF HandlerStep
    <3> QED
      BY <3>1, <3>2, <3>3, Zenon DEF IInv
  <2>3. CASE FetchStep
    <3>1. TypeOK'
      BY <2>0, <2>3, FetchTypes, Zenon DEF FetchStep
    <3>2. Inv'
      BY <2>3, FetchKeeps, Zenon DEF FetchStep
    <3>3. ~lateFetch' => Clean'
      BY <2>l, <2>3, FetchClean, Zenon DEF FetchStep
    <3> QED
      BY <3>1, <3>2, <3>3, Zenon DEF IInv
  <2>4. CASE \/ \E h \in Handlers : (\E k \in Kinds : Prepare(h, k)) \/ UploadAccept(h) \/ FileAccess(h)
             \/ \E k \in Kinds : Queue(k)
             \/ Install \/ Save \/ CancelTransfer \/ CancelBackup \/ Reboot \/ ExternalChange
    <3>1. TypeOK'
      BY <2>0, <2>4, RequestTypes, UploadTypes, FileTypes, Zenon
    <3>2. Inv'
      BY <2>4, RequestKeeps, UploadKeeps, FileKeeps, Zenon
    <3>3. ~lateFetch' => Clean'
      BY <2>l, <2>4, RequestClean, UploadClean, FileClean, Zenon
    <3> QED
      BY <3>1, <3>2, <3>3, Zenon DEF IInv
  <2>5. CASE \/ \E b \in BOOLEAN : Poll(b) \/ Resume(b) \/ JobDone(b)
             \/ TakeReboot \/ TakeInstall \/ LocalJob
             \/ \E s \in {"running", "deferred"} : BeginInstall(s)
             \/ Disable \/ DisableJoin \/ DisableClear \/ Enable
    <3>1. TypeOK'
      BY <2>0, <2>5, UiTypes, SwitchTypes, Zenon
    <3>2. Inv'
      BY <2>5, UiKeeps, SwitchKeeps, Zenon
    <3>3. ~lateFetch' => Clean'
      BY <2>l, <2>5, UiClean, SwitchClean, Zenon
    <3> QED
      BY <3>1, <3>2, <3>3, Zenon DEF IInv
  <2>6. CASE RemoveDirectory
    BY <2>l, <2>6, DirectoryKeeps, DirectoryClean, Zenon DEF IInv
  <2> QED
    BY <2>2, <2>3, <2>4, <2>5, <2>6, Zenon DEF Next
<1> QED
  BY <1>1, InitIInv, PTL DEF Spec

(* Only BeginInstall makes a transfer "installing". *)
LEMMA InstallStarts ==
  ASSUME IInv, Next
  PROVE  (t'.phase = "installing" => t.phase = "installing")
           \/ \E s \in {"running", "deferred"} : BeginInstall(s)
<1> USE DEF service, flags, uiVars, fetchVars, storage, observed, LockFree
<1>1. ASSUME NEW h \in Handlers, NEW k \in Kinds, Prepare(h, k) PROVE t'.phase = "installing" => t.phase = "installing"
  <2>1. (IF k = "url" THEN "uploading" ELSE "prepared") \in Phases
    BY Zenon DEF Phases
  <2>2. removing = 0 /\ t.id = last /\ Replace(k, IF k = "url" THEN "uploading" ELSE "prepared")
    BY <1>1, Zenon DEF Prepare, IInv, Inv, FilesInv
  <2>3. t'.phase = IF k = "url" THEN "uploading" ELSE "prepared"
    BY <2>1, <2>2, Replacement, Zenon DEF IInv
  <2> QED
    BY <2>3, Zenon
<1>2. ASSUME NEW k \in Kinds, Queue(k) PROVE t'.phase = "installing" => t.phase = "installing"
  <2>1. "queued" \in Phases
    BY Zenon DEF Phases
  <2>2. removing = 0 /\ t.id = last /\ Replace(k, "queued")
    BY <1>2, Zenon DEF Queue, IInv, Inv, FilesInv
  <2>3. t'.phase = "queued"
    BY <2>1, <2>2, Replacement, Zenon DEF IInv
  <2> QED
    BY <2>3, Zenon
<1>3. ASSUME Install PROVE t'.phase = "installing" => t.phase = "installing"
  BY <1>3 DEF Install
<1>4. ASSUME Save PROVE t'.phase = "installing" => t.phase = "installing"
  BY <1>4 DEF Save
<1>5. ASSUME CancelTransfer PROVE t'.phase = "installing" => t.phase = "installing"
  BY <1>5, Zenon DEF IInv, TypeOK, Transfers, CancelTransfer
<1>6. ASSUME CancelBackup PROVE t'.phase = "installing" => t.phase = "installing"
  BY <1>6 DEF CancelBackup
<1>7. ASSUME NEW h \in Handlers, UploadAccept(h) PROVE t'.phase = "installing" => t.phase = "installing"
  BY <1>7 DEF UploadAccept
<1>8. ASSUME NEW h \in Handlers, UploadFinish(h) PROVE t'.phase = "installing" => t.phase = "installing"
  BY <1>8, Zenon DEF IInv, TypeOK, Transfers, UploadFinish, Outcome
<1>9. ASSUME NEW h \in Handlers, SelectExisting(h) PROVE t'.phase = "installing" => t.phase = "installing"
  <2>1. "prepared" \in Phases
    BY Zenon DEF Phases
  <2> QED
    BY <1>9, <2>1, Replacement, Zenon DEF IInv, Inv, FilesInv, SelectExisting, Kinds
<1>10. ASSUME NEW h \in Handlers, ReviewExisting(h) PROVE t'.phase = "installing" => t.phase = "installing"
  BY <1>10 DEF ReviewExisting
<1>11. ASSUME FetchFinish PROVE t'.phase = "installing" => t.phase = "installing"
  BY <1>11, Zenon DEF IInv, TypeOK, Transfers, FetchFinish, Outcome
<1>12. ASSUME TakeInstall PROVE t'.phase = "installing" => t.phase = "installing"
  BY <1>12 DEF TakeInstall
<1>13. ASSUME NEW b \in BOOLEAN, JobDone(b) PROVE t'.phase = "installing" => t.phase = "installing"
  BY <1>13, Zenon DEF JobDone
<1>14. ASSUME DisableClear PROVE t'.phase = "installing" => t.phase = "installing"
  BY <1>14, Zenon DEF IInv, TypeOK, Transfers, DisableClear
<1> QED
  BY <1>1, <1>2, <1>3, <1>4, <1>5, <1>6, <1>7, <1>8, <1>9, <1>10, <1>11, <1>12, <1>13, <1>14,
     Zenon DEF Next, HandlerStep, FetchStep, Reboot, ExternalChange, UploadOpen, UploadReceive,
     UploadSettle, FileAccess, FileDone, Spawn, FetchOpen, FetchReceive, FetchSettle,
     FetchRename, RemoveDirectory, Poll, TakeReboot, Resume, LocalJob, Disable, DisableJoin, Enable

(* BeginInstall takes a payload that was verified.                            *)
LEMMA InstallIsVerified ==
  ASSUME IInv, NEW s \in {"running", "deferred"}, BeginInstall(s),
         t'.phase = "installing", t.phase # "installing", HasDirectory(t'.kind)
  PROVE  t'.id \in verified /\ "payload" \in files'[t'.id]
<1>1. Present /\ t'.id = t.id /\ t'.kind = t.kind /\ files' = files
  BY Zenon DEF BeginInstall, storage, IInv, TypeOK, Transfers
<1>2. "payload" \in files[t.id] /\ t.id \in Ids
  BY <1>1, Zenon DEF Present, HasDirectory, IInv, TypeOK, Transfers
<1>3. t.id \in verified
  BY <1>1, <1>2, Zenon DEF IInv, Inv, FilesInv
<1> QED
  BY <1>1, <1>2, <1>3, Zenon

(* No step of the transfer machinery removes a file that lies outside its directories. *)
LEMMA OwnFileStays ==
  ASSUME IInv, Next, ~ExternalChange,
         NEW i \in Ids, files[i] = {"payload"}
  PROVE  files'[i] # {}
<1> USE DEF service, flags, uiVars, fetchVars, storage, observed, LockFree
<1>1. ASSUME NEW h \in Handlers, NEW k \in Kinds, Prepare(h, k) PROVE files'[i] # {}
  <2>1. (IF k = "url" THEN "uploading" ELSE "prepared") \in Phases
    BY Zenon DEF Phases
  <2>2. i # last + 1 =>
          files'[i] = IF i = t.id /\ HasDirectory(t.kind) THEN files[i] \cap {"dir"} ELSE files[i]
    BY <1>1, <2>1, Replacement, Zenon DEF IInv, Inv, FilesInv, Prepare, Kinds
  <2>3. HasDirectory(t.kind) /\ "payload" \in files[t.id] => "dir" \in files[t.id]
    BY Zenon DEF IInv, Inv, FilesInv
  <2>4. i = last + 1 => files[i] = {}
    BY DEF IInv, TypeOK, Inv, FilesInv
  <2> QED
    BY <2>2, <2>3, <2>4
<1>2. ASSUME NEW k \in Kinds, Queue(k) PROVE files'[i] # {}
  <2>1. "queued" \in Phases
    BY Zenon DEF Phases
  <2>2. i # last + 1 =>
          files'[i] = IF i = t.id /\ HasDirectory(t.kind) THEN files[i] \cap {"dir"} ELSE files[i]
    BY <1>2, <2>1, Replacement, Zenon DEF IInv, Inv, FilesInv, Queue, Kinds
  <2>3. HasDirectory(t.kind) /\ "payload" \in files[t.id] => "dir" \in files[t.id]
    BY Zenon DEF IInv, Inv, FilesInv
  <2>4. i = last + 1 => files[i] = {}
    BY DEF IInv, TypeOK, Inv, FilesInv
  <2> QED
    BY <2>2, <2>3, <2>4
<1>3. ASSUME Save PROVE files'[i] # {}
  <2>1. CASE files' = files
    BY <2>1, Zenon
  <2>2. CASE RemoveTransferFiles(t.id, t.kind, files)
    <3>1. files \in FileSets /\ t.id \in Ids
      BY Zenon DEF IInv, TypeOK, FileSets, Transfers
    <3>2. HasDirectory(t.kind) /\ "payload" \in files[t.id] => "dir" \in files[t.id]
      BY Zenon DEF IInv, Inv, FilesInv
    <3> QED
      BY <1>3, <2>2, <3>1, <3>2, RemovalKeepsOwnFile, Zenon DEF Save
  <2> QED
    BY <1>3, <2>2, Zenon DEF Save
<1>4. ASSUME CancelTransfer PROVE files'[i] # {}
  <2>1. CASE files' = files
    BY <2>1, Zenon
  <2>2. CASE RemoveTransferFiles(t.id, t.kind, files)
    <3>1. files \in FileSets /\ t.id \in Ids
      BY Zenon DEF IInv, TypeOK, FileSets, Transfers
    <3>2. HasDirectory(t.kind) /\ "payload" \in files[t.id] => "dir" \in files[t.id]
      BY Zenon DEF IInv, Inv, FilesInv
    <3> QED
      BY <1>4, <2>2, <3>1, <3>2, RemovalKeepsOwnFile, Zenon DEF CancelTransfer
  <2> QED
    BY <1>4, <2>2, Zenon DEF CancelTransfer
<1>5. ASSUME NEW h \in Handlers, UploadOpen(h) PROVE files'[i] # {}
  BY <1>5 DEF UploadOpen
<1>6. ASSUME NEW h \in Handlers, UploadSettle(h) PROVE files'[i] # {}
  BY <1>6, Zenon DEF IInv, TypeOK, UploadSettle, Renamed, Abandoned
<1>7. ASSUME NEW h \in Handlers, UploadFinish(h) PROVE files'[i] # {}
  <2>1. CASE files' = files
    BY <2>1, Zenon
  <2>2. CASE RemoveTransferFiles(t.id, t.kind, files)
    <3>1. files \in FileSets /\ t.id \in Ids
      BY Zenon DEF IInv, TypeOK, FileSets, Transfers
    <3>2. HasDirectory(t.kind) /\ "payload" \in files[t.id] => "dir" \in files[t.id]
      BY Zenon DEF IInv, Inv, FilesInv
    <3> QED
      BY <1>7, <2>2, <3>1, <3>2, RemovalKeepsOwnFile, Zenon DEF UploadFinish
  <2> QED
    BY <1>7, <2>2, Zenon DEF UploadFinish, Live
<1>8. ASSUME NEW h \in Handlers, SelectExisting(h) PROVE files'[i] # {}
  <2>1. "prepared" \in Phases
    BY Zenon DEF Phases
  <2>2. i # last + 1 =>
          files'[i] = IF i = t.id /\ HasDirectory(t.kind) THEN files[i] \cap {"dir"} ELSE files[i]
    BY <1>8, <2>1, Replacement, Zenon DEF IInv, Inv, FilesInv, SelectExisting, Kinds
  <2>3. HasDirectory(t.kind) /\ "payload" \in files[t.id] => "dir" \in files[t.id]
    BY Zenon DEF IInv, Inv, FilesInv
  <2>4. i = last + 1 => files[i] = {}
    BY DEF IInv, TypeOK, Inv, FilesInv
  <2> QED
    BY <2>2, <2>3, <2>4
<1>9. ASSUME FetchOpen PROVE files'[i] # {}
  BY <1>9 DEF FetchOpen
<1>10. ASSUME FetchRename PROVE files'[i] # {}
  BY <1>10 DEF FetchRename, Renamed
<1>11. ASSUME FetchFinish PROVE files'[i] # {}
  <2>1. CASE files' = files
    BY <2>1, Zenon
  <2>2. CASE RemoveTransferFiles(fetch.id, fetch.kind, files)
    <3>1. files \in FileSets /\ fetch.id \in Ids
      BY Zenon DEF IInv, TypeOK, FileSets, Fetches
    <3>2. HasDirectory(fetch.kind) /\ "payload" \in files[fetch.id] => "dir" \in files[fetch.id]
      BY <1>11, Zenon DEF IInv, Inv, FetchInv, FetchFinish
    <3> QED
      BY <1>11, <2>2, <3>1, <3>2, RemovalKeepsOwnFile, Zenon DEF FetchFinish
  <2> QED
    BY <1>11, <2>2, Zenon DEF FetchFinish
<1>12. ASSUME NEW b \in BOOLEAN, JobDone(b) PROVE files'[i] # {}
  <2>1. CASE files' = files
    BY <2>1, Zenon
  <2>2. CASE RemoveTransferFiles(t.id, t.kind, files)
    <3>1. files \in FileSets /\ t.id \in Ids
      BY Zenon DEF IInv, TypeOK, FileSets, Transfers
    <3>2. HasDirectory(t.kind) /\ "payload" \in files[t.id] => "dir" \in files[t.id]
      BY Zenon DEF IInv, Inv, FilesInv
    <3> QED
      BY <1>12, <2>2, <3>1, <3>2, RemovalKeepsOwnFile, Zenon DEF JobDone
  <2> QED
    BY <1>12, <2>2, Zenon DEF JobDone
<1>13. ASSUME DisableClear PROVE files'[i] # {}
  <2>1. CASE files' = files
    BY <2>1, Zenon
  <2>2. CASE RemoveTransferFiles(t.id, t.kind, files)
    <3>1. files \in FileSets /\ t.id \in Ids
      BY Zenon DEF IInv, TypeOK, FileSets, Transfers
    <3>2. HasDirectory(t.kind) /\ "payload" \in files[t.id] => "dir" \in files[t.id]
      BY Zenon DEF IInv, Inv, FilesInv
    <3> QED
      BY <1>13, <2>2, <3>1, <3>2, RemovalKeepsOwnFile, Zenon DEF DisableClear
  <2> QED
    BY <1>13, <2>2, Zenon DEF DisableClear
<1>14. ASSUME RemoveDirectory PROVE files'[i] # {}
  <2>0. "dir" \in files[removing]
    BY <1>14, Zenon DEF RemoveDirectory, IInv, Inv, FilesInv
  <2>1. i # removing
    BY <2>0
  <2>2. files' = files \/ files' = [files EXCEPT ![removing] = {}]
    BY <1>14, Zenon DEF RemoveDirectory
  <2> QED
    BY <2>1, <2>2, Zenon DEF IInv, TypeOK
<1> QED
  BY <1>1, <1>2, <1>3, <1>4, <1>5, <1>6, <1>7, <1>8, <1>9, <1>10, <1>11, <1>12, <1>13, <1>14, Zenon DEF
     Next, HandlerStep, FetchStep, Install, CancelBackup, Reboot, UploadAccept, UploadReceive,
     FileAccess, FileDone, ReviewExisting, Spawn, FetchReceive, FetchSettle, Poll, TakeReboot,
     TakeInstall, BeginInstall, Resume, LocalJob, Disable, DisableJoin, Enable

(* Unless a download was started late, a running installation ends with its worker. *)
LEMMA InstallStays ==
  ASSUME IInv, Next, ~lateFetch
  PROVE  ~InstallTakenBack
<1> USE DEF service, flags, uiVars, fetchVars, storage, observed, LockFree
<1>1. ASSUME NEW h \in Handlers, NEW k \in Kinds, Prepare(h, k) PROVE ~InstallTakenBack
  BY <1>1, Zenon DEF Prepare, Free, TerminalPhase, InstallTakenBack
<1>2. ASSUME NEW k \in Kinds, Queue(k) PROVE ~InstallTakenBack
  BY <1>2, Zenon DEF Queue, Free, TerminalPhase, InstallTakenBack
<1>3. ASSUME Install PROVE ~InstallTakenBack
  BY <1>3, Zenon DEF InstallTakenBack, Install
<1>4. ASSUME Save PROVE ~InstallTakenBack
  BY <1>4, Zenon DEF InstallTakenBack, Save
<1>5. ASSUME CancelTransfer PROVE ~InstallTakenBack
  BY <1>5, Zenon DEF InstallTakenBack, CancelTransfer, Cancellable
<1>6. ASSUME CancelBackup PROVE ~InstallTakenBack
  BY <1>6 DEF InstallTakenBack, CancelBackup
<1>7. ASSUME NEW h \in Handlers, UploadAccept(h) PROVE ~InstallTakenBack
  BY <1>7, Zenon DEF InstallTakenBack, UploadAccept
<1>8. ASSUME NEW h \in Handlers, UploadFinish(h) PROVE ~InstallTakenBack
  BY <1>8, Zenon DEF InstallTakenBack, UploadFinish, Live
<1>9. ASSUME NEW h \in Handlers, SelectExisting(h) PROVE ~InstallTakenBack
  BY <1>9, Zenon DEF SelectExisting, IInv, Inv, SelectInv, TerminalPhase, InstallTakenBack
<1>10. ASSUME NEW h \in Handlers, ReviewExisting(h) PROVE ~InstallTakenBack
  BY <1>10, Zenon DEF InstallTakenBack, ReviewExisting
<1>11. ASSUME FetchFinish PROVE ~InstallTakenBack
  BY <1>11, Zenon DEF IInv, InstallTakenBack, Inv, LateInv, TerminalPhase, FetchFinish
<1>12. ASSUME TakeInstall PROVE ~InstallTakenBack
  BY <1>12, Zenon DEF InstallTakenBack, TakeInstall
<1>13. ASSUME NEW s \in {"running", "deferred"}, BeginInstall(s) PROVE ~InstallTakenBack
  BY <1>13, Zenon DEF InstallTakenBack, BeginInstall
<1>14. ASSUME NEW b \in BOOLEAN, JobDone(b) PROVE ~InstallTakenBack
  BY <1>14, Zenon DEF InstallTakenBack, JobDone
<1>15. ASSUME DisableClear PROVE ~InstallTakenBack
  BY <1>15, Zenon DEF InstallTakenBack, DisableClear, Settled
<1> QED
  BY <1>1, <1>2, <1>3, <1>4, <1>5, <1>6, <1>7, <1>8, <1>9, <1>10, <1>11, <1>12, <1>13, <1>14,
     <1>15, Zenon DEF InstallTakenBack, Next, HandlerStep, FetchStep, Reboot, ExternalChange,
     UploadOpen, UploadReceive, UploadSettle, FileAccess, FileDone, Spawn, FetchOpen,
     FetchReceive, FetchSettle, FetchRename, Poll, TakeReboot, Resume, LocalJob, Disable,
     DisableJoin, Enable, RemoveDirectory

(* Every variable keeps its type (TypeOK), for any bounds and any requests.  *)
THEOREM TypeCorrect == Spec => []TypeOK
<1>1. IInv => TypeOK
  BY Zenon DEF IInv
<1> QED
  BY <1>1, Invariance, PTL

(* NoOrphans: only the current transfer has a directory on storage, or the    *)
(* one being removed, for any number of handlers and transfers                *)
(* (RemoveTransferFiles), unless a download was started late and the rmdir of *)
(* its transfer failed.                                                       *)
THEOREM FilesHaveAnOwner == Spec => []NoOrphans
<1>1. IInv => NoOrphans
  BY Zenon DEF IInv, Inv, FilesInv, NoOrphans
<1> QED
  BY <1>1, Invariance, PTL

(* FinishedIsClean: what a finished transfer may leave on storage is its      *)
(* directory, without a payload, when it failed or when its own worker        *)
(* created the partial file between unlink and rmdir, and the partial file    *)
(* while that worker has it open; and the channel is closed, unless a         *)
(* download was started late (RemoveTransferFiles, Upload, FetchTransfer,     *)
(* CancelTransfer, SetEnabled).                                               *)
THEOREM OnlyKnownLeftovers == Spec => []FinishedIsClean
<1>1. IInv => FinishedIsClean
  BY Zenon DEF IInv, Inv, ChannelInv, Clean, RestInv, FinishedIsClean
<1> QED
  BY <1>1, Invariance, PTL

(* ResultIsOwn: completed means that the transfer's own job returned 0        *)
(* (CompleteInstall), unless a deferred job was dropped.                      *)
THEOREM ResultsAreOwn == Spec => []ResultIsOwn
<1>1. IInv => ResultIsOwn
  BY Zenon DEF IInv, Inv
<1> QED
  BY <1>1, Invariance, PTL

(* InstallsVerified: what begins to be installed arrived complete and passed  *)
(* its checks, and is still there (BeginInstall).                             *)
THEOREM OnlyVerifiedIsInstalled == Spec => InstallsVerified
<1> DEFINE Step == t'.phase = "installing" /\ t.phase # "installing" /\ HasDirectory(t'.kind)
                     => t'.id \in verified /\ "payload" \in files'[t'.id]
<1>1. IInv /\ [Next]_vars => [Step]_vars
  BY InstallStarts, InstallIsVerified, Zenon
<1> QED
  BY <1>1, Invariance, PTL DEF Spec, InstallsVerified

(* UserFileKept: a file that was on the device before is removed by nobody    *)
(* but somebody else (RemoveTransferFiles and existing_file).                 *)
THEOREM UsersFileIsKept == Spec => UserFileKept
<1> DEFINE Step == (\E i \in Ids : files[i] = {"payload"} /\ files'[i] = {}) => ExternalChange
<1>1. IInv /\ [Next]_vars => [Step]_vars
  BY OwnFileStays, Zenon
<1> QED
  BY <1>1, Invariance, PTL DEF Spec, UserFileKept

(* InstallIsKept: a started installation leaves "installing" only when its    *)
(* worker returns, unless a download was started late (FetchTransfer,         *)
(* CancelTransfer, FileCommand, SetEnabled).                                  *)
THEOREM InstallationIsKept == Spec => InstallIsKept
<1>1. IInv /\ [Next]_vars => [InstallTakenBack => lateFetch]_vars
  BY InstallStays, Zenon
<1> QED
  BY <1>1, Invariance, PTL DEF Spec, InstallIsKept
=============================================================================
