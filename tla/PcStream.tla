------------------------------ MODULE PcStream ------------------------------
(***************************************************************************)
(* A computer backup end to end: the /pc file system's write combining and *)
(* read-ahead (aera_remote/pc_storage.cpp), the browser's asynchronous     *)
(* disk writer (aera_remote/client/pc/backups.js) and the completion test  *)
(* of RecoveryRunPcBackup (aeraui/platform/aera_backend.cpp).              *)
(*                                                                         *)
(* fuse_loop is one thread, so one file operation runs at a time.  `plan`  *)
(* holds the steps of the current operation that are still to do; a step   *)
(* that fails ends the operation.  A step that uses the bridge succeeds,   *)
(* is refused by the browser with an errno, or is failed by the bridge,    *)
(* which also ends the session (PcBridge: FailStop), after which what the  *)
(* browser makes of the last request no longer matters.                    *)
(*                                                                         *)
(* File contents are sequences of units; 0 is a hole.  The session is a    *)
(* writable one (a backup).                                                *)
(***************************************************************************)
EXTENDS Integers, Sequences, FiniteSets, FiniteSetsExt, SequencesExt

CONSTANTS Handles, Paths, None,
          Ops,        \* the file operations the engine uses
          Block,      \* kBlock, in units
          ReadBlock,  \* kReadBlock, in units
          SmallCap,   \* the 1024-byte capacity below which a buffer is kept
          MaxOffset,  \* bound: last offset written or read
          MaxWrites   \* bound: number of write operations

VARIABLES
  active,      \* the bridge session
  writeError,  \* write_error # 0
  file,        \* per handle: the OpenFile
  plan, cur,   \* the FUSE loop: remaining steps, and the operation they serve
  pump,        \* the browser's storage pump runs
  failure,     \* backups.writeFailure
  writer,      \* per path: the browser's open writable stream and its queue
  disk,        \* per path: the file in the chosen folder, or None
  snapshot,    \* per path: the File object in backups.readers, or None
  phase,       \* the backup job: running, unmarking, completed, failed
  \* observers
  ideal,       \* per path: content if every successful operation took effect at once
  writes,      \* write operations so far
  metaFailed,  \* a truncate, rename or unlink reported an error to the engine
  wrong        \* a read or stat answered something other than `ideal`, no write having failed

native == <<active, writeError, file, plan, cur>>
browser == <<pump, failure, writer, disk, snapshot>>
observers == <<ideal, writes, metaFailed, wrong>>
vars == <<native, browser, phase, observers>>

Closed == [status |-> "free", path |-> None, mode |-> "r", pending |-> <<>>, offset |-> 0,
           cap |-> 0, error |-> FALSE, readData |-> <<>>, readOffset |-> 0]
NoWriter == [open |-> FALSE, content |-> <<>>, size |-> 0, queue |-> <<>>, error |-> FALSE]
Idle == [op |-> "none"]

\* Data written at an offset of a content: overwrites, extends, leaves holes.
Put(content, offset, data) ==
  [i \in 1..Max({Len(content), offset + Len(data)}) |->
     IF i > offset /\ i <= offset + Len(data) THEN data[i - offset]
     ELSE IF i <= Len(content) THEN content[i] ELSE 0]
Cut(content, size) == [i \in 1..size |-> IF i <= Len(content) THEN content[i] ELSE 0]
At(content, offset) == IF offset < Len(content) THEN content[offset + 1] ELSE None

InUse == {h \in Handles : file[h].status # "free"}
On(p) == {h \in InUse : file[h].path = p}
Steps(kind, hs) == [i \in 1..Cardinality(hs) |-> [step |-> kind, h |-> SetToSeq(hs)[i]]]

TypeOK ==
  /\ {active, writeError, pump, failure, metaFailed, wrong} \subseteq BOOLEAN
  /\ \A h \in Handles :
       /\ file[h].status \in {"free", "open", "closing"}
       /\ file[h].status # "free" => file[h].path \in Paths
       /\ Len(file[h].pending) < Block \/ plan # <<>>
       /\ Len(file[h].readData) <= ReadBlock
  /\ \A p \in Paths : ~writer[p].open => writer[p] = NoWriter
  /\ writes \in 0..MaxWrites
  /\ phase \in {"running", "unmarking", "completed", "failed"}

Init ==
  /\ active = TRUE /\ writeError = FALSE
  /\ file = [h \in Handles |-> Closed]
  /\ plan = <<>> /\ cur = Idle
  /\ pump = TRUE /\ failure = FALSE
  /\ writer = [p \in Paths |-> NoWriter]
  /\ disk = [p \in Paths |-> None]
  /\ snapshot = [p \in Paths |-> None]
  /\ phase = "running"
  /\ ideal = [p \in Paths |-> None]
  /\ writes = 0 /\ metaFailed = FALSE /\ wrong = FALSE
-----------------------------------------------------------------------------
(* File operations: what each callback does first decides its steps. *)

Start(op, steps) ==
  /\ phase = "running" /\ op.op \in Ops
  /\ plan = <<>> /\ cur = Idle
  /\ cur' = op
  /\ plan' = steps
  /\ UNCHANGED <<active, writeError, file, browser, phase, ideal, metaFailed, wrong>>

Opened(h, p, mode) == [Closed EXCEPT !.status = "open", !.path = p, !.mode = mode]
\* The backup engine writes a file through one descriptor at a time.
MayWrite(p) == \A h \in On(p) : file[h].mode = "r" \/ file[h].status = "closing"

Open(h, p, mode) ==
  /\ phase = "running" /\ "open" \in Ops /\ plan = <<>> /\ cur = Idle
  /\ file[h].status = "free" /\ ideal[p] # None
  /\ mode = "w" => MayWrite(p)
  /\ file' = [file EXCEPT ![h] = Opened(h, p, mode)]
  /\ UNCHANGED <<active, writeError, plan, cur, browser, phase, observers>>

\* The kernel sends CREATE for names it found absent.
Create(h, p) ==
  /\ file[h].status = "free" /\ ideal[p] = None
  /\ Start([op |-> "create", h |-> h, p |-> p], <<[step |-> "create", p |-> p]>>)
  /\ UNCHANGED writes

\* Mutant: the read-ahead of the file's other descriptors is kept.
WriteStepsNoForget(h, offset, data) ==
  LET f == file[h]
      split == f.pending # <<>> /\ (offset # f.offset + Len(f.pending) \/ Len(data) > Block - Len(f.pending))
      length == IF split THEN Len(data) ELSE Len(f.pending) + Len(data)
  IN (IF split THEN Steps("flush", {h}) ELSE <<>>)
     \o <<[step |-> "append", h |-> h, offset |-> offset, data |-> data]>>
     \o (IF length = Block THEN Steps("flush", {h}) ELSE <<>>)

\* The steps of Write: make room in the other buffers, forget read-ahead of the
\* same file, flush what the new data does not continue, append, flush if full.
WriteSteps(h, offset, data) ==
  LET f == file[h]
      retained == MapThenSumSet(LAMBDA g : file[g].cap, InUse)
      evicted == IF retained + Len(data) > 2 * Block
                 THEN {g \in InUse \ {h} : file[g].cap > SmallCap} ELSE {}
      split == f.pending # <<>> /\ (offset # f.offset + Len(f.pending) \/ Len(data) > Block - Len(f.pending))
      length == IF split THEN Len(data) ELSE Len(f.pending) + Len(data)
  IN Steps("evict", evicted)
     \o <<[step |-> "forget", p |-> f.path]>>
     \o (IF split THEN Steps("flush", {h}) ELSE <<>>)
     \o <<[step |-> "append", h |-> h, offset |-> offset, data |-> data]>>
     \o (IF length = Block THEN Steps("flush", {h}) ELSE <<>>)

Write(h, offset, n) ==
  LET data == [i \in 1..n |-> writes + 1]
  IN /\ file[h].status = "open" /\ file[h].mode = "w"
     /\ active /\ ~file[h].error
     /\ writes < MaxWrites
     /\ offset + n <= MaxOffset + 1
     /\ writes' = writes + 1
     /\ Start([op |-> "write", h |-> h, offset |-> offset, data |-> data], WriteSteps(h, offset, data))

Read(h, offset) ==
  /\ file[h].status = "open"
  /\ Start([op |-> "read", h |-> h],
           Steps("flush", On(file[h].path)) \o <<[step |-> "fetch", h |-> h, offset |-> offset]>>)
  /\ UNCHANGED writes

Attributes(p) ==
  /\ ideal[p] # None
  /\ Start([op |-> "stat"], <<[step |-> "stat", p |-> p]>>)
  /\ UNCHANGED writes

\* Mutant: the browser is told to close before the last buffer is sent.
CloseStepsSwapped(h) == <<[step |-> "commit", p |-> file[h].path]>> \o Steps("flush", {h})
CloseSteps(h) == Steps("flush", {h}) \o <<[step |-> "commit", p |-> file[h].path]>>

Close(h) ==
  /\ file[h].status = "open"
  /\ Start([op |-> "close", h |-> h], CloseSteps(h))
  /\ UNCHANGED writes

Sync(h) ==
  /\ file[h].status = "open"
  /\ Start([op |-> "sync", h |-> h], CloseSteps(h))
  /\ UNCHANGED writes

\* The kernel sends RELEASE some time after the last close.
Release(h) ==
  /\ file[h].status = "closing"
  /\ Start([op |-> "release", h |-> h], CloseSteps(h))
  /\ UNCHANGED writes

\* The engine truncates through a descriptor: O_TRUNC or ftruncate.
Truncate(h, size) ==
  /\ file[h].status = "open" /\ file[h].mode = "w"
  /\ LET p == file[h].path
     IN Start([op |-> "truncate", p |-> p, size |-> size],
              Steps("drop", On(p)) \o <<[step |-> "truncate", p |-> p, size |-> size]>>)
  /\ UNCHANGED writes

\* libfuse first moves a target that is still open out of the way.
Rename(p, q) ==
  /\ p # q /\ ideal[p] # None /\ On(q) = {}
  /\ Start([op |-> "rename", p |-> p, q |-> q],
           Steps("flush", On(p)) \o <<[step |-> "rename", p |-> p, q |-> q]>>)
  /\ UNCHANGED writes

Unlink(p) ==
  /\ ideal[p] # None /\ On(p) = {}
  /\ Start([op |-> "unlink", p |-> p], <<[step |-> "unlink", p |-> p]>>)
  /\ UNCHANGED writes
-----------------------------------------------------------------------------
(* The end of an operation. *)

\* Success: the callback returns 0 or a size, and handles change state.
Finish ==
  /\ plan = <<>> /\ cur # Idle
  /\ cur' = Idle
  /\ file' =
       CASE cur.op = "create" -> [file EXCEPT ![cur.h] = Opened(cur.h, cur.p, "w")]
         [] cur.op = "close" -> [file EXCEPT ![cur.h].status = "closing"]
         [] cur.op = "release" -> [file EXCEPT ![cur.h] = Closed]
         [] cur.op = "rename" ->
              [h \in Handles |-> IF h \in On(cur.p) THEN [file[h] EXCEPT !.path = cur.q] ELSE file[h]]
         [] OTHER -> file
  /\ ideal' =
       CASE cur.op = "create" -> [ideal EXCEPT ![cur.p] = <<>>]
         [] cur.op = "write" -> [ideal EXCEPT ![file[cur.h].path] = Put(@, cur.offset, cur.data)]
         [] cur.op = "truncate" -> [ideal EXCEPT ![cur.p] = Cut(@, cur.size)]
         [] cur.op = "rename" -> [ideal EXCEPT ![cur.q] = ideal[cur.p], ![cur.p] = None]
         [] cur.op = "unlink" -> [ideal EXCEPT ![cur.p] = None]
         [] OTHER -> ideal
  /\ phase' = IF cur.op = "unmark" THEN "completed" ELSE phase
  /\ UNCHANGED <<active, writeError, plan, browser, writes, metaFailed, wrong>>

\* Failure of a step: the callback returns its error at once.  A descriptor is
\* closed or released even so.
Abort(files) ==
  /\ plan' = <<>> /\ cur' = Idle
  /\ file' = CASE cur.op = "close" -> [files EXCEPT ![cur.h].status = "closing"]
               [] cur.op = "release" -> [files EXCEPT ![cur.h] = Closed]
               [] OTHER -> files
  /\ metaFailed' = (metaFailed \/ cur.op \in {"create", "truncate", "rename", "unlink"})
  /\ phase' = IF cur.op = "unmark" THEN "failed" ELSE phase
  /\ UNCHANGED <<ideal, writes, wrong>>
-----------------------------------------------------------------------------
(* Steps that do not reach the browser. *)

Forget ==
  /\ plan # <<>> /\ Head(plan).step = "forget"
  /\ file' = [h \in Handles |-> IF h \in On(Head(plan).p) THEN [file[h] EXCEPT !.readData = <<>>] ELSE file[h]]
  /\ plan' = Tail(plan)
  /\ UNCHANGED <<active, writeError, cur, browser, phase, observers>>

Append_ ==
  /\ plan # <<>> /\ Head(plan).step = "append"
  /\ LET s == Head(plan)
         f == file[s.h]
         pending == f.pending \o s.data
     IN file' = [file EXCEPT ![s.h].offset = IF f.pending = <<>> THEN s.offset ELSE f.offset,
                             ![s.h].pending = pending,
                             ![s.h].cap = Max({f.cap, Len(pending)})]
  /\ plan' = Tail(plan)
  /\ UNCHANGED <<active, writeError, cur, browser, phase, observers>>

FlushKinds == {"flush", "evict", "drop"}
\* What follows a successful Flush(): nothing, the buffer's release in Write, or
\* read_data.clear() in Truncate.
AfterFlush(f, kind) ==
  CASE kind = "evict" -> [f EXCEPT !.pending = <<>>, !.cap = 0]
    [] kind = "drop" -> [f EXCEPT !.pending = <<>>, !.readData = <<>>]
    [] OTHER -> [f EXCEPT !.pending = <<>>]

\* Flush() with nothing pending answers the sticky error of the file.
FlushEmpty ==
  /\ plan # <<>> /\ Head(plan).step \in FlushKinds
  /\ LET s == Head(plan)
     IN /\ file[s.h].pending = <<>>
        /\ IF file[s.h].error
           THEN Abort(file)
           ELSE /\ file' = [file EXCEPT ![s.h] = AfterFlush(@, s.step)]
                /\ plan' = Tail(plan)
                /\ UNCHANGED <<cur, phase, observers>>
  /\ UNCHANGED <<active, writeError, browser>>

\* A read inside the read-ahead block is answered from it.
Cached(f, offset) == offset >= f.readOffset /\ offset < f.readOffset + Len(f.readData)
FetchCached ==
  /\ plan # <<>> /\ Head(plan).step = "fetch" /\ active
  /\ LET s == Head(plan)
         f == file[s.h]
     IN /\ Cached(f, s.offset)
        /\ wrong' = (wrong \/ (~writeError /\ f.readData[s.offset - f.readOffset + 1] # At(ideal[f.path], s.offset)))
  /\ plan' = Tail(plan)
  /\ UNCHANGED <<active, writeError, file, cur, browser, phase, ideal, writes, metaFailed>>
-----------------------------------------------------------------------------
(* The browser: pcOperation. *)

\* pcWriter: the open stream of a path, opened on demand over the existing file.
Opening(p) ==
  IF writer[p].open THEN writer[p]
  ELSE LET content == IF disk[p] = None THEN <<>> ELSE disk[p]
       IN [open |-> TRUE, content |-> content, size |-> Len(content), queue |-> <<>>, error |-> FALSE]

\* closePcFile succeeds: every queued write has finished, none with an error.
Closable(p) == writer[p].open => writer[p].queue = <<>> /\ ~writer[p].error
Committed(p) == IF writer[p].open THEN writer[p].content ELSE disk[p]

Queued == MapThenSumSet(LAMBDA p : FoldLeft(LAMBDA n, w : n + Len(w.data), 0, writer[p].queue), Paths)

\* The request at hand can be carried out.
Performs(s) ==
  CASE s.step = "stat" -> writer[s.p].open \/ disk[s.p] # None
    [] s.step = "create" -> TRUE
    [] s.step \in FlushKinds ->
         /\ writer[file[s.h].path].open \/ disk[file[s.h].path] # None
         /\ Queued + Len(file[s.h].pending) <= 2 * Block
    [] s.step = "fetch" -> Closable(file[s.h].path) /\ Committed(file[s.h].path) # None
    [] s.step = "commit" -> Closable(s.p)
    [] s.step = "truncate" -> (writer[s.p].open \/ disk[s.p] # None) /\ Closable(s.p)
    [] s.step = "rename" -> Closable(s.p) /\ Closable(s.q) /\ Committed(s.p) # None
    [] s.step = "unlink" -> disk[s.p] # None /\ (writer[s.p].open => writer[s.p].queue = <<>>)
    [] OTHER -> TRUE   \* unmark: the marker file is not one of Paths

\* What carrying it out does to the streams, the folder and the File objects.
WriterAfter(s) ==
  CASE s.step = "create" -> [writer EXCEPT ![s.p] = Opening(s.p)]
    [] s.step \in FlushKinds ->
         LET f == file[s.h]
         IN [writer EXCEPT ![f.path] =
               [Opening(f.path) EXCEPT
                  !.queue = Append(@, [offset |-> f.offset, data |-> f.pending]),
                  !.size = Max({@, f.offset + Len(f.pending)})]]
    [] s.step = "fetch" -> [writer EXCEPT ![file[s.h].path] = NoWriter]
    [] s.step \in {"commit", "unlink"} -> [writer EXCEPT ![s.p] = NoWriter]
    [] s.step = "truncate" ->
         [writer EXCEPT ![s.p] = [Opening(s.p) EXCEPT !.content = Cut(@, s.size), !.size = s.size]]
    [] s.step = "rename" -> [writer EXCEPT ![s.p] = NoWriter, ![s.q] = NoWriter]
    [] OTHER -> writer
DiskAfter(s) ==
  CASE s.step = "create" -> [disk EXCEPT ![s.p] = IF @ = None THEN <<>> ELSE @]
    [] s.step = "fetch" -> [disk EXCEPT ![file[s.h].path] = Committed(file[s.h].path)]
    [] s.step = "commit" -> [disk EXCEPT ![s.p] = Committed(s.p)]
    [] s.step = "rename" -> [disk EXCEPT ![s.q] = Committed(s.p), ![s.p] = None]
    [] s.step = "unlink" -> [disk EXCEPT ![s.p] = None]
    [] OTHER -> disk
Touched(s) ==
  CASE s.step \in FlushKinds -> IF writer[file[s.h].path].open THEN {} ELSE {file[s.h].path}
    [] s.step \in {"create", "truncate"} -> IF writer[s.p].open THEN {} ELSE {s.p}
    [] s.step = "commit" -> IF writer[s.p].open THEN {s.p} ELSE {}
    [] s.step = "rename" -> {s.p, s.q}
    [] s.step = "unlink" -> {s.p}
    [] OTHER -> {}
\* A read uses the kept File object unless a writer had to be closed first.
ReadSource(p) ==
  IF ~writer[p].open /\ snapshot[p] # None THEN snapshot[p] ELSE Committed(p)
SnapshotAfter(s) ==
  IF s.step = "fetch"
  THEN [snapshot EXCEPT ![file[s.h].path] = ReadSource(file[s.h].path)]
  ELSE [p \in Paths |-> IF p \in Touched(s) THEN None ELSE snapshot[p]]

\* The native side of an answered request.
FileAfter(s) ==
  CASE s.step \in FlushKinds -> [file EXCEPT ![s.h] = AfterFlush(@, s.step)]
    [] s.step = "fetch" ->
         LET source == ReadSource(file[s.h].path)
         IN [h \in Handles |->
               IF h = s.h
               THEN [file[h] EXCEPT
                       !.readData = SubSeq(source, s.offset + 1, Min({s.offset + ReadBlock, Len(source)})),
                       !.readOffset = s.offset]
               ELSE [file[h] EXCEPT !.readData = <<>>]]
    [] OTHER -> file
StatSize(p) ==
  Max({IF writer[p].open THEN writer[p].size ELSE Len(disk[p])}
      \cup {file[h].offset + Len(file[h].pending) : h \in {g \in On(p) : file[g].pending # <<>>}})

NeedsCall(s) ==
  CASE s.step \in FlushKinds -> file[s.h].pending # <<>>
    [] s.step = "fetch" -> ~active \/ ~Cached(file[s.h], s.offset)
    [] OTHER -> s.step \notin {"forget", "append"}

\* The answer to a read or stat differs from what the engine has written.
Misleads(s) ==
  CASE s.step = "fetch" -> At(ReadSource(file[s.h].path), s.offset) # At(ideal[file[s.h].path], s.offset)
    [] s.step = "stat" -> StatSize(s.p) # Len(ideal[s.p])
    [] OTHER -> FALSE

CallSucceeds ==
  /\ plan # <<>> /\ NeedsCall(Head(plan))
  /\ active /\ pump /\ ~failure
  /\ LET s == Head(plan)
     IN /\ Performs(s)
        /\ writer' = WriterAfter(s)
        /\ disk' = DiskAfter(s)
        /\ snapshot' = SnapshotAfter(s)
        /\ file' = FileAfter(s)
        /\ wrong' = (wrong \/ (~writeError /\ Misleads(s)))
  /\ plan' = Tail(plan)
  /\ UNCHANGED <<active, writeError, cur, pump, failure, phase, ideal, writes, metaFailed>>

\* Mutant: a failed flush is only remembered in its file.
FailFlushUnlatched(s) == writeError
\* A failed write or close is remembered for the whole backup.
FailLatch(s) == writeError \/ s.step \in FlushKinds \cup {"commit"}

FailedFiles(s) ==
  CASE s.step \in FlushKinds -> [file EXCEPT ![s.h].pending = <<>>, ![s.h].error = TRUE]
    [] s.step = "fetch" ->
         [h \in Handles |-> IF active /\ h # s.h THEN [file[h] EXCEPT !.readData = <<>>] ELSE file[h]]
    [] OTHER -> file

\* The browser answers with an errno, its own or that of an earlier queued
\* write (backups.writeFailure), or the bridge gives up and ends the session.
CallFails ==
  /\ plan # <<>> /\ NeedsCall(Head(plan))
  /\ active' \in (IF active /\ pump THEN {TRUE, FALSE} ELSE {FALSE})
  /\ writeError' = FailLatch(Head(plan))
  /\ Abort(FailedFiles(Head(plan)))
  /\ UNCHANGED browser

\* The stream of a path carries out, or fails, its oldest queued write.
DiskWrite(p) ==
  /\ writer[p].open /\ writer[p].queue # <<>>
  /\ LET w == Head(writer[p].queue)
     IN writer' = [writer EXCEPT ![p].queue = Tail(@),
                                 ![p].content = IF writer[p].error THEN @ ELSE Put(@, w.offset, w.data)]
  /\ UNCHANGED <<native, pump, failure, disk, snapshot, phase, observers>>
DiskWriteFails(p) ==
  /\ writer[p].open /\ writer[p].queue # <<>>
  /\ writer' = [writer EXCEPT ![p].queue = Tail(@), ![p].error = TRUE]
  /\ failure' = TRUE
  /\ UNCHANGED <<native, pump, disk, snapshot, phase, observers>>

\* The pump ends (page closed, connection lost, session over): open streams are
\* aborted, which discards what they had not committed.
PumpEnds ==
  /\ pump
  /\ pump' = FALSE /\ failure' = FALSE
  /\ writer' = [p \in Paths |-> NoWriter]
  /\ snapshot' = [p \in Paths |-> None]
  /\ UNCHANGED <<native, disk, phase, observers>>
-----------------------------------------------------------------------------
(* The job. *)

\* Cancelling, or disabling the PC connection, stops the bridge.
StopSession ==
  /\ active
  /\ active' = FALSE
  /\ UNCHANGED <<writeError, file, plan, cur, browser, phase, observers>>

\* complete == 1 and WriteError() == 0.  The engine's own success covers the
\* operations whose errors it sees; lost writes are write_error's business.
BackupOk == ~metaFailed /\ ~writeError

\* Run_Backup has returned: every descriptor was closed.
JobEnds ==
  /\ phase = "running" /\ plan = <<>> /\ cur = Idle
  /\ \A h \in Handles : file[h].status # "open"
  /\ IF BackupOk
     THEN /\ phase' = "unmarking"
          /\ cur' = [op |-> "unmark"]
          /\ plan' = <<[step |-> "unmark"]>>
     ELSE phase' = "failed" /\ UNCHANGED <<cur, plan>>
  /\ UNCHANGED <<active, writeError, file, browser, observers>>

Over == phase \in {"completed", "failed"} /\ UNCHANGED vars

Operation ==
  \/ \E h \in Handles, p \in Paths : Create(h, p) \/ \E mode \in {"r", "w"} : Open(h, p, mode)
  \/ \E h \in Handles, o \in 0..MaxOffset : Read(h, o) \/ \E n \in 1..Block : Write(h, o, n)
  \/ \E h \in Handles : Close(h) \/ Sync(h) \/ Release(h) \/ Truncate(h, 0)
  \/ \E p \in Paths : Attributes(p) \/ Unlink(p) \/ \E q \in Paths : Rename(p, q)
Loop == Forget \/ Append_ \/ FlushEmpty \/ FetchCached \/ CallSucceeds \/ CallFails \/ Finish

Next ==
  \/ Operation \/ Loop
  \/ \E p \in Paths : DiskWrite(p) \/ DiskWriteFails(p)
  \/ PumpEnds \/ StopSession \/ JobEnds \/ Over

Spec == Init /\ [][Next]_vars
-----------------------------------------------------------------------------
\* "Completion is never reported before all outstanding writes have been
\* delivered": when the job has completed and the marker is gone, the files in
\* the chosen folder are exactly what the engine wrote.
CompleteMeansCommitted ==
  phase = "completed" => \A p \in Paths : disk[p] = ideal[p]

\* "fsync/close must deliver every byte before succeeding": when close or fsync
\* of the writing descriptor is about to return 0, the file is committed in the
\* folder, unless an earlier failure is already latched for the whole job.
CloseDelivers ==
  /\ plan = <<>> /\ cur # Idle
  /\ cur.op \in {"close", "sync"} /\ file[cur.h].mode = "w"
  => \/ writeError
     \/ ~writer[file[cur.h].path].open /\ disk[file[cur.h].path] = ideal[file[cur.h].path]

\* Reads and stat sizes reflect every earlier successful write, whatever is
\* still buffered natively, cached, or queued in the browser, as long as no
\* write has failed (the job is then lost anyway).
ReadsAreCoherent == ~wrong
=============================================================================
