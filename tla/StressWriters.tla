--------------------------- MODULE StressWriters ---------------------------
(***************************************************************************)
(* The writer threads of `vindex stress` (CmdStress in main.cpp): they     *)
(* share a MemTable and the next id under one lock, the manifest under     *)
(* another, and the index that names the segment files under none.  They   *)
(* start in a directory that an earlier run may have left, with ids that   *)
(* are counted from the manifest named by --manifest, which need not be    *)
(* the one they append to.                                                 *)
(*                                                                         *)
(* A compaction worker runs beside them, and merges a level when the       *)
(* manifest lists more than MaxLevel0Segments of its segments.  The model  *)
(* is of the runs that do not get there (UnmergedAssumption), where a      *)
(* check only reads the manifest.  Beyond that the worker saves the        *)
(* manifest without the writers' lock, and merges segments that were not   *)
(* committed in the order of their ids: nothing is said of that here, and  *)
(* what is said here does not hold then.                                   *)
(*                                                                         *)
(* A vector is its index in write_pool, counted from 1.  A segment file is *)
(* the array of its first WriteBatch records, Blank where nothing was      *)
(* written and Foreign where an earlier run has written; writing one takes *)
(* a step per record, since two writers may be writing to one file.  A     *)
(* section under a lock is one step, but the manifest's is two, because    *)
(* the file it reads and replaces is outside the program.                  *)
(***************************************************************************)
EXTENDS Integers, FiniteSets, Sequences

CONSTANTS
  Writers,
  PoolSize,       \* write_pool.count()
  WriteBatch,     \* write_batch
  Truncate,       \* SyncIOBackend empties a file it opens, UringIOBackend does not
  EarlierLines,   \* what the output manifest lists when the run begins
  EarlierLevel0,  \* those of these lines in level 0 whose path is in the directory
  EarlierFiles,   \* the names of the segment files there are then
  FirstId,        \* ComputeNextId of the segments that --manifest lists
  MaxLevel0Segments   \* kMaxLevel0Segments, 4 in the code

ASSUME WritersAssumption == IsFiniteSet(Writers)
ASSUME SizesAssumption ==
  PoolSize \in Nat /\ WriteBatch \in Nat \ {0} /\ Truncate \in BOOLEAN

\* A line, the number of ids it was written for, and whether an earlier run has
\* written it.  A name is the index in stress_seg_<index>.vsg, or a number this
\* run does not reach for a name of another form.
Lines == [seg_path : Nat, id_offset : Nat, count : Nat, earlier : BOOLEAN]

ASSUME EarlierAssumption ==
  /\ EarlierLines \subseteq Lines /\ EarlierFiles \subseteq Nat /\ FirstId \in Nat
  /\ \A m \in EarlierLines : m.earlier /\ m.seg_path \in EarlierFiles

\* Level 0 is within its limit with all the batches of the run in it, and the earlier
\* run has left no other level beyond its own: no check of the compaction worker finds
\* anything to merge (compaction.cpp:82-84).
ASSUME UnmergedAssumption ==
  /\ MaxLevel0Segments \in Nat
  /\ EarlierLevel0 \subseteq EarlierLines /\ IsFiniteSet(EarlierLevel0)
  /\ Cardinality(EarlierLevel0) + PoolSize \div WriteBatch <= MaxLevel0Segments

VARIABLES
  stop, write_idx, memtable, next_write_id, batch_index,
  files,      \* index in the name of a segment file -> its records
  manifest,   \* set of lines
  total_writes,
  pc,         \* where each writer is
  vec, batch_vectors, base_id, seg_path, written, latest, index, \* its locals
  given,      \* history: vector -> the id it was given
  collided    \* history: the file names that a writer took when they were not free

shared == <<stop, write_idx, memtable, next_write_id, batch_index, files,
            manifest, total_writes>>
locals == <<vec, batch_vectors, base_id, seg_path, written, latest, index>>
vars == <<shared, pc, locals, given, collided>>

Vectors == 1..PoolSize
Blank == 0
Foreign == PoolSize + 1
Positions == 1..WriteBatch
BlankFile == [i \in Positions |-> Blank]

Init ==
  /\ stop = FALSE /\ write_idx = 0 /\ memtable = <<>>
  /\ next_write_id = FirstId /\ batch_index = 0
  /\ files = [k \in EarlierFiles |-> [i \in Positions |-> Foreign]]
  /\ manifest = EarlierLines /\ total_writes = 0
  /\ pc = [w \in Writers |-> "top"]
  /\ vec = [w \in Writers |-> 0] /\ batch_vectors = [w \in Writers |-> <<>>]
  /\ base_id = [w \in Writers |-> 0] /\ seg_path = [w \in Writers |-> 0]
  /\ written = [w \in Writers |-> 0] /\ latest = [w \in Writers |-> {}]
  /\ index = [w \in Writers |-> 0]
  /\ given = <<>> /\ collided = {}

Goto(w, from, to) == pc[w] = from /\ pc' = [pc EXCEPT ![w] = to]

-----------------------------------------------------------------------------
\* write_idx.fetch_add(1)
TakeVector(w) ==
  /\ ~stop /\ write_idx < PoolSize
  /\ Goto(w, "top", "add")
  /\ write_idx' = write_idx + 1
  /\ vec' = [vec EXCEPT ![w] = write_idx + 1]
  /\ UNCHANGED <<stop, memtable, next_write_id, batch_index, files, manifest,
                 total_writes, batch_vectors, base_id, seg_path, written, latest,
                 index, given, collided>>

Exit(w) ==
  /\ stop \/ write_idx >= PoolSize
  /\ Goto(w, "top", "exit")
  /\ UNCHANGED <<shared, locals, given, collided>>

\* memtable.Add, and the batch is not full yet.
Buffer(w) ==
  /\ Len(memtable) + 1 < WriteBatch
  /\ Goto(w, "add", "top")
  /\ memtable' = Append(memtable, vec[w])
  /\ UNCHANGED <<stop, write_idx, next_write_id, batch_index, files, manifest,
                 total_writes, locals, given, collided>>

\* Mutant: the ids are counted when the batch has been written.
TakeBatchKeepsId(w) ==
  LET batch == Append(memtable, vec[w]) IN
  /\ Len(batch) >= WriteBatch
  /\ Goto(w, "add", "build")
  /\ memtable' = <<>>
  /\ batch_vectors' = [batch_vectors EXCEPT ![w] = batch]
  /\ base_id' = [base_id EXCEPT ![w] = next_write_id]
  /\ given' = [v \in DOMAIN given \cup {batch[i] : i \in Positions} |->
                 IF v \in DOMAIN given THEN given[v]
                 ELSE next_write_id + (CHOOSE i \in Positions : batch[i] = v) - 1]
  /\ UNCHANGED <<stop, write_idx, next_write_id, batch_index, files, manifest,
                 total_writes, vec, seg_path, written, latest, index, collided>>

\* memtable.Add fills the batch: TakeValues and the ids, under the same lock.
TakeBatch(w) ==
  LET batch == Append(memtable, vec[w]) IN
  /\ Len(batch) >= WriteBatch
  /\ Goto(w, "add", "build")
  /\ memtable' = <<>>
  /\ batch_vectors' = [batch_vectors EXCEPT ![w] = batch]
  /\ base_id' = [base_id EXCEPT ![w] = next_write_id]
  /\ next_write_id' = next_write_id + Len(batch)
  /\ given' = [v \in DOMAIN given \cup {batch[i] : i \in Positions} |->
                 IF v \in DOMAIN given THEN given[v]
                 ELSE next_write_id + (CHOOSE i \in Positions : batch[i] = v) - 1]
  /\ UNCHANGED <<stop, write_idx, batch_index, files, manifest, total_writes,
                 vec, seg_path, written, latest, index, collided>>

\* BuildKnnGraph fails, or the segment cannot be opened, or a write fails: the
\* batch is dropped, and with it its ids.
DropBatch(w) ==
  /\ \/ Goto(w, "build", "top")
     \/ Goto(w, "write", "top")
  /\ UNCHANGED <<shared, locals, given, collided>>

\* Other writers hold the name, or the manifest lists it.
NameTaken(w, k) ==
  \/ \E u \in Writers \ {w} :
       pc[u] \in {"write", "load", "save", "count", "store"} /\ seg_path[u] = k
  \/ \E m \in manifest : m.seg_path = k

\* The path is made from batch_index, read without a lock, and opened.
OpenSegment(w) ==
  /\ Goto(w, "build", "write")
  /\ seg_path' = [seg_path EXCEPT ![w] = batch_index]
  /\ written' = [written EXCEPT ![w] = 0]
  /\ files' = [k \in DOMAIN files \cup {batch_index} |->
                 IF k # batch_index \/ (k \in DOMAIN files /\ ~Truncate)
                 THEN files[k] ELSE BlankFile]
  /\ collided' = IF NameTaken(w, batch_index) THEN collided \cup {batch_index} ELSE collided
  /\ UNCHANGED <<stop, write_idx, memtable, next_write_id, batch_index, manifest,
                 total_writes, vec, batch_vectors, base_id, latest, index, given>>

\* Mutant: every record goes where the next one should.
WriteRecordShifted(w) ==
  LET i == written[w] + 1 IN
  /\ i <= Len(batch_vectors[w])
  /\ Goto(w, "write", IF i = Len(batch_vectors[w]) THEN "load" ELSE "write")
  /\ files' = [files EXCEPT ![seg_path[w]][(i % WriteBatch) + 1] = batch_vectors[w][i]]
  /\ written' = [written EXCEPT ![w] = i]
  /\ UNCHANGED <<stop, write_idx, memtable, next_write_id, batch_index, manifest,
                 total_writes, vec, batch_vectors, base_id, seg_path, latest, index,
                 given, collided>>

WriteRecord(w) ==
  LET i == written[w] + 1 IN
  /\ i <= Len(batch_vectors[w])
  /\ Goto(w, "write", IF i = Len(batch_vectors[w]) THEN "load" ELSE "write")
  /\ files' = [files EXCEPT ![seg_path[w]][i] = batch_vectors[w][i]]
  /\ written' = [written EXCEPT ![w] = i]
  /\ UNCHANGED <<stop, write_idx, memtable, next_write_id, batch_index, manifest,
                 total_writes, vec, batch_vectors, base_id, seg_path, latest, index,
                 given, collided>>

\* Mutant: the manifest is read before the lock is taken.
LoadManifestUnlocked(w) ==
  /\ Goto(w, "load", "save")
  /\ latest' = [latest EXCEPT ![w] = manifest]
  /\ UNCHANGED <<shared, vec, batch_vectors, base_id, seg_path, written, index,
                 given, collided>>

\* The lock on manifest_mutex, held until SaveManifest.  A Load that fails leaves
\* no lines, and is not noticed.
LoadManifest(w) ==
  /\ \A u \in Writers : pc[u] # "save"
  /\ Goto(w, "load", "save")
  /\ \E lines \in {manifest, {}} : latest' = [latest EXCEPT ![w] = lines]
  /\ UNCHANGED <<shared, vec, batch_vectors, base_id, seg_path, written, index,
                 given, collided>>

NewLine(w) == [seg_path |-> seg_path[w], id_offset |-> base_id[w],
               count |-> Len(batch_vectors[w]), earlier |-> FALSE]

\* Add and Save; a Save that fails is not noticed.
SaveManifest(w) ==
  /\ Goto(w, "save", "count")
  /\ manifest' \in {manifest, latest[w] \cup {NewLine(w)}}
  /\ UNCHANGED <<stop, write_idx, memtable, next_write_id, batch_index, files,
                 total_writes, locals, given, collided>>

\* ++batch_index, not atomic ...
ReadIndex(w) ==
  /\ Goto(w, "count", "store")
  /\ index' = [index EXCEPT ![w] = batch_index]
  /\ UNCHANGED <<shared, vec, batch_vectors, base_id, seg_path, written, latest,
                 given, collided>>

\* ... and total_writes.fetch_add
StoreIndex(w) ==
  /\ Goto(w, "store", "top")
  /\ batch_index' = index[w] + 1
  /\ total_writes' = total_writes + Len(batch_vectors[w])
  /\ UNCHANGED <<stop, write_idx, memtable, next_write_id, files, manifest, locals,
                 given, collided>>

\* The duration is over.
Stop ==
  /\ ~stop
  /\ stop' = TRUE
  /\ UNCHANGED <<write_idx, memtable, next_write_id, batch_index, files, manifest,
                 total_writes, pc, locals, given, collided>>

Writer(w) ==
  \/ TakeVector(w) \/ Exit(w) \/ Buffer(w) \/ TakeBatch(w) \/ DropBatch(w)
  \/ OpenSegment(w) \/ WriteRecord(w) \/ LoadManifest(w) \/ SaveManifest(w)
  \/ ReadIndex(w) \/ StoreIndex(w)

\* All writers have been joined.
Joined == (\A w \in Writers : pc[w] = "exit") /\ UNCHANGED vars

Next == (\E w \in Writers : Writer(w)) \/ Stop \/ Joined

Spec == Init /\ [][Next]_vars

-----------------------------------------------------------------------------
\* Every variable stays within its type; a batch that is not dropped is full.
TypeOK ==
  /\ stop \in BOOLEAN /\ collided \subseteq Nat
  /\ write_idx \in 0..PoolSize /\ next_write_id \in Nat
  /\ batch_index \in Nat /\ total_writes \in Nat
  /\ memtable \in Seq(Vectors) /\ Len(memtable) < WriteBatch
  /\ DOMAIN files \subseteq Nat
  /\ \A k \in DOMAIN files : files[k] \in [Positions -> Vectors \cup {Blank, Foreign}]
  /\ manifest \subseteq Lines /\ latest \in [Writers -> SUBSET Lines]
  /\ pc \in [Writers -> {"top", "add", "build", "write", "load", "save", "count",
                         "store", "exit"}]
  /\ vec \in [Writers -> 0..PoolSize] /\ batch_vectors \in [Writers -> Seq(Vectors)]
  /\ base_id \in [Writers -> Nat] /\ seg_path \in [Writers -> Nat]
  /\ written \in [Writers -> 0..WriteBatch] /\ index \in [Writers -> Nat]
  /\ \A w \in Writers :
       pc[w] \in {"build", "write", "load", "save"} => Len(batch_vectors[w]) = WriteBatch
  /\ DOMAIN given \subseteq Vectors

\* A line of this run, or of a segment whose ids are taken, as those of the
\* segments in --manifest are.
Counted(m) == m.earlier => m.id_offset + m.count <= FirstId

\* No id that a line of this run serves is served by another one, although batches
\* are dropped and the writers commit in any order; only the lines of a run that
\* --manifest does not know of may serve it too (main.cpp:891, 929-936, 957-962).
IdRangesDisjoint ==
  \A m, n \in manifest : (m # n /\ ~m.earlier /\ Counted(n)) =>
    \/ m.id_offset + m.count <= n.id_offset
    \/ n.id_offset + n.count <= m.id_offset

\* Among themselves the writers never lose a line, except that one whose Load has
\* failed loses all of them (main.cpp:957-962).
LinesKept ==
  [][\/ manifest \subseteq manifest'
     \/ \E w \in Writers :
          /\ pc[w] = "save" /\ latest[w] = {}
          /\ manifest' = {NewLine(w)}]_vars

\* A listed segment whose name was free when it was taken serves each of its vectors
\* under the id the vector was given, and one of an earlier run whose name was not
\* taken has its own vectors still, whatever the writers do to other files
\* (main.cpp:932-960).
ListedServedRight ==
  \A m \in manifest, i \in Positions : m.seg_path \notin collided =>
    LET v == files[m.seg_path][i] IN
    IF m.earlier THEN v = Foreign
    ELSE v \in DOMAIN given /\ given[v] = m.id_offset + i - 1
=============================================================================
