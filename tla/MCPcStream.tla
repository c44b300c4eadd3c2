----------------------------- MODULE MCPcStream -----------------------------
(* Two descriptors, and two kinds of behaviour.  In one a single file is opened,
   read, written, synced, truncated and removed, so that a writer and a reader of
   it interleave.  In the other two files are written at the same time and renamed
   over each other, with one write more. *)
EXTENDS PcStream, TLC
CONSTANTS h1, h2, p1, p2
TwoHandles == {h1, h2}
TwoPaths == {p1, p2}
FileOps == {"create", "open", "read", "write", "stat", "close", "sync", "release", "truncate", "unlink"}
TreeOps == {"create", "write", "close", "release", "rename"}
AllOps == FileOps \cup TreeOps
Symmetry == Permutations(TwoHandles) \cup Permutations(TwoPaths)

VARIABLE engine   \* "file" or "tree"
Used(p) == ideal[p] # None \/ disk[p] # None \/ writer[p].open \/ On(p) # {}
Bound ==
  engine = "file" => writes <= 2 /\ Cardinality({p \in Paths : Used(p)}) <= 1
Reopens(h) == file[h].status = "free" /\ file'[h].status = "open" /\ cur.op # "create"
MCInit == Init /\ engine \in {"file", "tree"}
MCNext ==
  /\ Next /\ UNCHANGED engine
  /\ cur'.op \in {"none", "unmark"} \cup (IF engine = "file" THEN FileOps ELSE TreeOps)
  /\ engine = "tree" => \A h \in Handles : ~Reopens(h)
MCSpec == MCInit /\ [][MCNext]_<<vars, engine>>
=============================================================================
