------------------------ MODULE StressWritersProofs ------------------------
(***************************************************************************)
(* Theorems about StressWriters, for every number of writers, pool and     *)
(* batch, files that are truncated or not, and every directory that an     *)
(* earlier run may have left, as long as the lines of level 0 stay within  *)
(* the limit beyond which they are merged (UnmergedAssumption: the model   *)
(* is of such runs, the proofs need not cite it).                          *)
(*                                                                         *)
(* The ids of a batch belong to its writer until its line is in the        *)
(* manifest: IdsInv says that the ranges of the writers and of the lines   *)
(* are disjoint and below next_write_id, and that the lines a writer has   *)
(* loaded are still the manifest's when it saves.  VectorsInv says that a  *)
(* vector is in one batch, so that it keeps the id it is given; FilesInv   *)
(* that a file whose name was free when it was taken belongs to its writer *)
(* until its line is in the manifest, and to the line then.                *)
(***************************************************************************)
EXTENDS StressWriters, TLAPS

Batched == {"build", "write", "load", "save"}

TypesInv ==
  /\ TypeOK
  /\ \A w \in Writers : pc[w] = "add" => vec[w] \in Vectors

LEMMA InitTypes == Init => TypesInv
<1> SUFFICES ASSUME Init PROVE TypesInv
  OBVIOUS
<1>1. 0 \in 0..PoolSize /\ 0 \in 0..WriteBatch /\ 0 < WriteBatch
  BY SizesAssumption DEF SizesAssumption
<1>2. /\ memtable = <<>> /\ memtable \in Seq(Vectors) /\ Len(memtable) = 0
      /\ batch_vectors \in [Writers -> Seq(Vectors)]
  BY DEF Init
<1>3. /\ DOMAIN files = EarlierFiles /\ DOMAIN given = {} /\ manifest = EarlierLines
      /\ \A k \in DOMAIN files : files[k] \in [Positions -> Vectors \cup {Blank, Foreign}]
      /\ stop = FALSE /\ collided = {}
      /\ pc = [w \in Writers |-> "top"]
      /\ latest \in [Writers -> SUBSET Lines]
  BY DEF Init
<1>4. /\ write_idx \in 0..PoolSize /\ next_write_id \in Nat /\ batch_index \in Nat
      /\ total_writes \in Nat /\ vec \in [Writers -> 0..PoolSize]
      /\ base_id \in [Writers -> Nat] /\ seg_path \in [Writers -> Nat]
      /\ written \in [Writers -> 0..WriteBatch] /\ index \in [Writers -> Nat]
  BY <1>1, EarlierAssumption DEF EarlierAssumption, Init
<1> QED
  BY <1>1, <1>2, <1>3, <1>4, EarlierAssumption DEF EarlierAssumption, TypesInv, TypeOK

\* The batch that fills up is full, and its ids are drawn at once.
LEMMA BatchFills ==
  ASSUME TypesInv, NEW w \in Writers, TakeBatch(w)
  PROVE  LET batch == Append(memtable, vec[w]) IN
         /\ pc[w] = "add" /\ vec[w] \in Vectors
         /\ batch \in Seq(Vectors) /\ Len(batch) = WriteBatch
         /\ next_write_id' = next_write_id + WriteBatch
<1>1. pc[w] = "add" /\ vec[w] \in Vectors
  BY DEF TakeBatch, Goto, TypesInv
<1>2. /\ Len(Append(memtable, vec[w])) = Len(memtable) + 1
      /\ Append(memtable, vec[w]) \in Seq(Vectors)
  BY <1>1 DEF TypesInv, TypeOK
<1>3. Len(Append(memtable, vec[w])) = WriteBatch
  BY <1>2, SizesAssumption DEF TakeBatch, TypesInv, TypeOK, SizesAssumption
<1> QED
  BY <1>1, <1>2, <1>3 DEF TakeBatch

LEMMA StepTypes == TypesInv /\ [Next]_vars => TypesInv'
<1> SUFFICES ASSUME TypesInv, [Next]_vars PROVE TypesInv'
  OBVIOUS
<1> USE SizesAssumption DEF SizesAssumption, TypesInv, TypeOK, Goto, shared, locals
<1>1. ASSUME NEW w \in Writers, TakeVector(w) PROVE TypesInv'
  <2>1. write_idx + 1 \in Vectors /\ write_idx + 1 \in 0..PoolSize
    BY <1>1 DEF TakeVector, Vectors
  <2> QED
    BY <1>1, <2>1 DEF TakeVector
<1>2. ASSUME NEW w \in Writers, Buffer(w) PROVE TypesInv'
  <2>1. vec[w] \in Vectors
    BY <1>2 DEF Buffer
  <2>2. memtable' \in Seq(Vectors) /\ Len(memtable') < WriteBatch
    BY <1>2, <2>1 DEF Buffer
  <2> QED
    BY <1>2, <2>2 DEF Buffer
<1>3. ASSUME NEW w \in Writers, TakeBatch(w) PROVE TypesInv'
  <2>1. LET batch == Append(memtable, vec[w]) IN
        /\ batch \in Seq(Vectors) /\ Len(batch) = WriteBatch
        /\ next_write_id' \in Nat
    BY <1>3, BatchFills
  <2>2. DOMAIN given' \subseteq Vectors
    <3>1. \A i \in Positions : Append(memtable, vec[w])[i] \in Vectors
      BY <2>1 DEF Positions
    <3>2. DOMAIN given' = DOMAIN given \cup {Append(memtable, vec[w])[i] : i \in Positions}
      BY <1>3 DEF TakeBatch
    <3> HIDE DEF Positions
    <3> QED
      BY <3>1, <3>2
  <2>3. memtable' \in Seq(Vectors) /\ Len(memtable') < WriteBatch
    BY <1>3 DEF TakeBatch
  <2> QED
    BY <1>3, <2>1, <2>2, <2>3 DEF TakeBatch
<1>4. ASSUME NEW w \in Writers, OpenSegment(w) PROVE TypesInv'
  <2>1. BlankFile \in [Positions -> Vectors \cup {Blank, Foreign}]
    BY DEF BlankFile
  <2>2. DOMAIN files' \subseteq Nat
        /\ \A k \in DOMAIN files' : files'[k] \in [Positions -> Vectors \cup {Blank, Foreign}]
    BY <1>4, <2>1 DEF OpenSegment
  <2>3. collided' \subseteq Nat
    BY <1>4 DEF OpenSegment
  <2>4. seg_path' \in [Writers -> Nat] /\ written' \in [Writers -> 0..WriteBatch]
    BY <1>4 DEF OpenSegment
  <2>5. UNCHANGED <<stop, write_idx, memtable, next_write_id, batch_index, manifest,
                    total_writes, vec, batch_vectors, base_id, latest, index, given>>
    BY <1>4 DEF OpenSegment
  <2>6. /\ pc' = [pc EXCEPT ![w] = "write"] /\ pc[w] = "build"
    BY <1>4 DEF OpenSegment
  <2> QED
    BY <2>2, <2>3, <2>4, <2>5, <2>6
<1>5. ASSUME NEW w \in Writers, WriteRecord(w) PROVE TypesInv'
  <2>1. /\ Len(batch_vectors[w]) = WriteBatch /\ written[w] + 1 \in Positions
        /\ batch_vectors[w] \in Seq(Vectors)
    BY <1>5 DEF WriteRecord, Positions
  <2>2. batch_vectors[w][written[w] + 1] \in Vectors
    BY <2>1 DEF Positions
  <2>3. /\ DOMAIN files' \subseteq Nat
        /\ \A k \in DOMAIN files' : files'[k] \in [Positions -> Vectors \cup {Blank, Foreign}]
    BY <1>5, <2>1, <2>2 DEF WriteRecord
  <2>4. written' \in [Writers -> 0..WriteBatch]
    BY <1>5, <2>1 DEF WriteRecord, Positions
  <2> QED
    BY <1>5, <2>3, <2>4 DEF WriteRecord
<1>6. ASSUME NEW w \in Writers, LoadManifest(w) PROVE TypesInv'
  BY <1>6 DEF LoadManifest
<1>7. ASSUME NEW w \in Writers, SaveManifest(w) PROVE TypesInv'
  <2>1. pc[w] = "save" /\ Len(batch_vectors[w]) = WriteBatch
    BY <1>7 DEF SaveManifest
  <2>2. NewLine(w) \in Lines
    BY <2>1 DEF NewLine, Lines
  <2>3. manifest' \subseteq Lines
    BY <1>7, <2>2 DEF SaveManifest
  <2> QED
    BY <1>7, <2>3 DEF SaveManifest
<1>8. ASSUME NEW w \in Writers, Exit(w) \/ DropBatch(w) \/ ReadIndex(w) PROVE TypesInv'
  BY <1>8 DEF Exit, DropBatch, ReadIndex
<1>9. ASSUME NEW w \in Writers, StoreIndex(w) PROVE TypesInv'
  <2>1. batch_index' \in Nat /\ total_writes' \in Nat
    BY <1>9 DEF StoreIndex
  <2> QED
    BY <1>9, <2>1 DEF StoreIndex
<1>10. CASE Stop \/ UNCHANGED vars
  BY <1>10 DEF Stop, vars
<1> QED
  BY <1>1, <1>2, <1>3, <1>4, <1>5, <1>6, <1>7, <1>8, <1>9, <1>10 DEF Next, Writer, Joined

\* Type correctness: what the writers share and hold, and that a batch on its way to
\* a segment is full (main.cpp:876-990).
THEOREM TypeCorrect == Spec => []TypeOK
<1>1. TypesInv => TypeOK
  BY DEF TypesInv
<1> QED
  BY <1>1, InitTypes, StepTypes, PTL DEF Spec

-----------------------------------------------------------------------------
(***************************************************************************)
(* The ids, and the lock on the manifest.                                  *)
(***************************************************************************)

\* The batches that begin at the ids a and b have no id in common, nor has the one
\* that begins at a any that the line m serves.
Apart(a, b) == a + WriteBatch <= b \/ b + WriteBatch <= a
ApartFrom(a, m) == a + WriteBatch <= m.id_offset \/ m.id_offset + m.count <= a

\* Ids are drawn from below next_write_id, and belong to one writer or line.
RangesInv ==
  /\ \A m \in manifest : /\ Counted(m) => m.id_offset + m.count <= next_write_id
                         /\ m.earlier \/ m.count = WriteBatch
  /\ \A w \in Writers : pc[w] \in Batched => base_id[w] + WriteBatch <= next_write_id
  /\ \A w, u \in Writers :
       (w # u /\ pc[w] \in Batched /\ pc[u] \in Batched) => Apart(base_id[w], base_id[u])
  /\ \A w \in Writers, m \in manifest :
       (pc[w] \in Batched /\ Counted(m)) => ApartFrom(base_id[w], m)
  /\ IdRangesDisjoint

\* One writer has the lock, and what it has loaded is what it will replace.
LockInv ==
  /\ \A w, u \in Writers : pc[w] = "save" /\ pc[u] = "save" => w = u
  /\ \A w \in Writers : pc[w] = "save" => latest[w] \in {manifest, {}}

IdsInv == TypesInv /\ RangesInv /\ LockInv

LEMMA InitIds == Init => IdsInv
<1> SUFFICES ASSUME Init PROVE IdsInv
  OBVIOUS
<1>1. /\ manifest = EarlierLines /\ next_write_id = FirstId
      /\ \A w \in Writers : pc[w] = "top"
  BY DEF Init
<1>2. \A m \in manifest : m.earlier
  BY <1>1, EarlierAssumption DEF EarlierAssumption
<1> QED
  BY <1>1, <1>2, InitTypes DEF IdsInv, RangesInv, LockInv, IdRangesDisjoint, Counted, Batched

\* A step in which a writer goes on, or gives up, with the batch it has.
LEMMA SameBatches ==
  ASSUME RangesInv, UNCHANGED <<manifest, next_write_id, base_id>>,
         \A w \in Writers : pc'[w] \in Batched => pc[w] \in Batched
  PROVE  RangesInv'
BY DEF RangesInv, IdRangesDisjoint, Apart, ApartFrom, Counted

LEMMA StepRanges == IdsInv /\ [Next]_vars => RangesInv'
<1> SUFFICES ASSUME IdsInv, [Next]_vars PROVE RangesInv'
  OBVIOUS
<1> USE DEF IdsInv, TypesInv, TypeOK
<1>1. ASSUME NEW w \in Writers, TakeBatch(w) PROVE RangesInv'
  <2>1. /\ next_write_id' = next_write_id + WriteBatch
        /\ base_id' = [base_id EXCEPT ![w] = next_write_id]
        /\ pc' = [pc EXCEPT ![w] = "build"] /\ manifest' = manifest
    BY <1>1, BatchFills DEF TakeBatch, Goto
  <2>2. \A u \in Writers : u # w => pc'[u] = pc[u] /\ base_id'[u] = base_id[u]
    BY <2>1
  <2>3. pc'[w] \in Batched /\ base_id'[w] = next_write_id
    BY <2>1 DEF Batched
  <2>4. WriteBatch \in Nat /\ next_write_id \in Nat /\ \A u \in Writers : base_id[u] \in Nat
    BY SizesAssumption DEF SizesAssumption
  <2>5. \A m \in manifest : m.id_offset \in Nat /\ m.count \in Nat
    BY DEF Lines
  <2> HIDE DEF IdsInv, TypesInv, TypeOK
  <2>6. RangesInv
    BY DEF IdsInv
  <2>7. \A m \in manifest : /\ Counted(m) => m.id_offset + m.count <= next_write_id'
                            /\ m.earlier \/ m.count = WriteBatch
    BY <2>1, <2>4, <2>5, <2>6 DEF RangesInv
  <2>8. \A u \in Writers : pc'[u] \in Batched => base_id'[u] + WriteBatch <= next_write_id'
    <3> SUFFICES ASSUME NEW u \in Writers, pc'[u] \in Batched
                 PROVE  base_id'[u] + WriteBatch <= next_write_id'
      OBVIOUS
    <3>1. CASE u = w
      BY <2>1, <2>3, <2>4, <3>1
    <3>2. CASE u # w
      <4>1. base_id[u] + WriteBatch <= next_write_id
        BY <2>2, <2>6, <3>2 DEF RangesInv
      <4> QED
        BY <2>1, <2>2, <2>4, <3>2, <4>1
    <3> QED
      BY <3>1, <3>2
  <2>9. ASSUME NEW u \in Writers, u # w, pc'[u] \in Batched
        PROVE  Apart(base_id'[u], base_id'[w]) /\ Apart(base_id'[w], base_id'[u])
    BY <2>2, <2>3, <2>6, <2>9 DEF RangesInv, Apart
  <2>10. \A v, u \in Writers : (v # u /\ pc'[v] \in Batched /\ pc'[u] \in Batched)
                                => Apart(base_id'[v], base_id'[u])
    <3> SUFFICES ASSUME NEW v \in Writers, NEW u \in Writers, v # u, pc'[v] \in Batched,
                        pc'[u] \in Batched
                 PROVE  Apart(base_id'[v], base_id'[u])
      OBVIOUS
    <3>1. CASE v = w \/ u = w
      BY <2>9, <3>1
    <3>2. CASE v # w /\ u # w
      BY <2>2, <2>6, <3>2 DEF RangesInv
    <3> QED
      BY <3>1, <3>2
  <2>11. \A u \in Writers, m \in manifest :
           (pc'[u] \in Batched /\ Counted(m)) => ApartFrom(base_id'[u], m)
    <3> SUFFICES ASSUME NEW u \in Writers, NEW m \in manifest, pc'[u] \in Batched, Counted(m)
                 PROVE  ApartFrom(base_id'[u], m)
      OBVIOUS
    <3>1. CASE u = w
      BY <2>3, <2>6, <3>1 DEF RangesInv, ApartFrom
    <3>2. CASE u # w
      BY <2>2, <2>6, <3>2 DEF RangesInv
    <3> QED
      BY <3>1, <3>2
  <2>12. IdRangesDisjoint'
    BY <2>1, <2>6 DEF RangesInv, IdRangesDisjoint, Counted
  <2> QED
    BY <2>1, <2>7, <2>8, <2>10, <2>11, <2>12 DEF RangesInv, Counted
<1>2. ASSUME NEW w \in Writers, SaveManifest(w) PROVE RangesInv'
  <2> DEFINE line == NewLine(w)
  <2>1. /\ pc[w] \in Batched /\ pc[w] = "save"
        /\ \A u \in Writers : pc'[u] \in Batched => u # w /\ pc[u] \in Batched
        /\ UNCHANGED <<next_write_id, base_id>>
    BY <1>2 DEF SaveManifest, Goto, Batched, locals
  <2>2. latest[w] \subseteq manifest
    BY <2>1 DEF LockInv
  <2>3. manifest' \subseteq manifest \cup {line}
    BY <1>2, <2>2 DEF SaveManifest
  <2>4. line.id_offset = base_id[w] /\ line.count = WriteBatch /\ ~line.earlier /\ Counted(line)
    BY <2>1 DEF NewLine, Counted
  <2>5. /\ \A m \in manifest : Counted(m) => m.id_offset + m.count <= next_write_id
        /\ line.id_offset + line.count <= next_write_id
    BY <2>1, <2>4 DEF RangesInv
  <2>6. \A m \in manifest : Counted(m) => ApartFrom(line.id_offset, m)
    BY <2>1, <2>4 DEF RangesInv
  <2>7. \A u \in Writers : pc'[u] \in Batched => ApartFrom(base_id[u], line)
    <3>1. \A u \in Writers : pc'[u] \in Batched => Apart(base_id[u], base_id[w])
      BY <2>1 DEF RangesInv
    <3> QED
      BY <2>4, <3>1 DEF Apart, ApartFrom
  <2> HIDE DEF line, IdsInv, TypesInv, TypeOK
  <2>8. RangesInv
    BY DEF IdsInv
  <2>9. IdRangesDisjoint'
    <3> SUFFICES ASSUME NEW m \in manifest', NEW n \in manifest', m # n, ~m.earlier, Counted(n)
                 PROVE  \/ m.id_offset + m.count <= n.id_offset
                        \/ n.id_offset + n.count <= m.id_offset
      BY DEF IdRangesDisjoint, Counted
    <3>1. CASE m \in manifest /\ n \in manifest
      BY <2>8, <3>1 DEF RangesInv, IdRangesDisjoint
    <3>2. CASE m = line /\ n \in manifest
      BY <2>4, <2>6, <3>2 DEF ApartFrom
    <3>3. CASE n = line /\ m \in manifest
      <4>1. Counted(m)
        BY DEF Counted
      <4> QED
        BY <2>4, <2>6, <3>3, <4>1 DEF ApartFrom
    <3> QED
      BY <2>3, <3>1, <3>2, <3>3
  <2>10. \A u \in Writers, m \in manifest' :
           (pc'[u] \in Batched /\ Counted(m)) => ApartFrom(base_id[u], m)
    BY <2>1, <2>3, <2>7, <2>8 DEF RangesInv
  <2>11. \A m \in manifest' : m.earlier \/ m.count = WriteBatch
    BY <2>3, <2>4, <2>8 DEF RangesInv
  <2> QED
    BY <2>1, <2>3, <2>5, <2>8, <2>9, <2>10, <2>11 DEF RangesInv, Counted
<1> HIDE DEF IdsInv
<1>3. ASSUME UNCHANGED <<manifest, next_write_id, base_id>>,
             \A w \in Writers : pc'[w] \in Batched => pc[w] \in Batched
      PROVE  RangesInv'
  BY <1>3, SameBatches DEF IdsInv
<1>4. ASSUME NEW w \in Writers,
             \/ TakeVector(w) \/ Exit(w) \/ Buffer(w) \/ DropBatch(w) \/ OpenSegment(w)
             \/ WriteRecord(w) \/ LoadManifest(w) \/ ReadIndex(w) \/ StoreIndex(w)
      PROVE  RangesInv'
  <2>1. UNCHANGED <<manifest, next_write_id, base_id>>
    BY <1>4 DEF TakeVector, Exit, Buffer, DropBatch, OpenSegment, WriteRecord, LoadManifest,
                ReadIndex, StoreIndex, shared, locals
  <2>2. PICK from, to : /\ Goto(w, from, to) /\ (to \in Batched => from \in Batched)
    BY <1>4 DEF TakeVector, Exit, Buffer, DropBatch, OpenSegment, WriteRecord, LoadManifest,
                ReadIndex, StoreIndex, Batched
  <2>3. \A u \in Writers : pc'[u] \in Batched => pc[u] \in Batched
    BY <2>2 DEF Goto, IdsInv
  <2> QED
    BY <1>3, <2>1, <2>3
<1>5. CASE Stop \/ UNCHANGED vars
  BY <1>3, <1>5 DEF Stop, vars, shared, locals
<1> QED
  BY <1>1, <1>2, <1>4, <1>5 DEF Next, Writer, Joined

LEMMA StepLock == IdsInv /\ [Next]_vars => LockInv'
<1> SUFFICES ASSUME IdsInv, [Next]_vars PROVE LockInv'
  OBVIOUS
<1> USE DEF IdsInv, TypesInv, TypeOK, LockInv
<1>1. ASSUME NEW w \in Writers, LoadManifest(w) PROVE LockInv'
  <2>1. /\ \A u \in Writers : u # w => pc'[u] # "save"
        /\ latest'[w] \in {manifest, {}} /\ manifest' = manifest
    BY <1>1 DEF LoadManifest, Goto, shared
  <2> QED
    BY <2>1
<1>2. ASSUME NEW w \in Writers, SaveManifest(w) PROVE LockInv'
  <2>1. \A u \in Writers : pc'[u] # "save"
    BY <1>2 DEF SaveManifest, Goto
  <2> QED
    BY <2>1
<1>3. ASSUME UNCHANGED <<manifest, latest>>, \A u \in Writers : pc'[u] = "save" => pc[u] = "save"
      PROVE  LockInv'
  BY <1>3
<1>4. ASSUME NEW w \in Writers,
             \/ TakeVector(w) \/ Exit(w) \/ Buffer(w) \/ TakeBatch(w) \/ DropBatch(w)
             \/ OpenSegment(w) \/ WriteRecord(w) \/ ReadIndex(w) \/ StoreIndex(w)
      PROVE  LockInv'
  <2>1. UNCHANGED <<manifest, latest>>
    BY <1>4 DEF TakeVector, Exit, Buffer, TakeBatch, DropBatch, OpenSegment, WriteRecord,
                ReadIndex, StoreIndex, shared, locals
  <2>2. PICK from, to : Goto(w, from, to) /\ to # "save"
    BY <1>4 DEF TakeVector, Exit, Buffer, TakeBatch, DropBatch, OpenSegment, WriteRecord,
                ReadIndex, StoreIndex
  <2>3. \A u \in Writers : pc'[u] = "save" => pc[u] = "save"
    BY <2>2 DEF Goto
  <2> QED
    BY <1>3, <2>1, <2>3
<1>5. CASE Stop \/ UNCHANGED vars
  BY <1>5 DEF Stop, vars, shared, locals
<1> QED
  BY <1>1, <1>2, <1>4, <1>5 DEF Next, Writer, Joined

LEMMA StepIds == IdsInv /\ [Next]_vars => IdsInv'
  BY StepTypes, StepRanges, StepLock DEF IdsInv

\* No id that a line of this run serves is served by another line, of this run or of a
\* segment whose ids are taken, whichever batches are dropped and in whatever order the
\* writers commit (main.cpp:891, 929-936, 957-962).
THEOREM RangesDisjoint == Spec => []IdRangesDisjoint
<1>1. IdsInv => IdRangesDisjoint
  BY DEF IdsInv, RangesInv
<1> QED
  BY <1>1, InitIds, StepIds, PTL DEF Spec

\* A writer that commits keeps every line of the others, unless its Load has failed
\* (main.cpp:957-962).
THEOREM NoLineLost == Spec => LinesKept
<1> DEFINE Kept == \/ manifest \subseteq manifest'
                   \/ \E w \in Writers :
                        /\ pc[w] = "save" /\ latest[w] = {}
                        /\ manifest' = {NewLine(w)}
<1>1. IdsInv /\ [Next]_vars => [Kept]_vars
  <2> SUFFICES ASSUME IdsInv, Next PROVE Kept
    OBVIOUS
  <2>1. ASSUME NEW w \in Writers, SaveManifest(w) PROVE Kept
    <3>1. pc[w] = "save" /\ latest[w] \in {manifest, {}}
      BY <2>1 DEF SaveManifest, Goto, IdsInv, LockInv
    <3> QED
      BY <2>1, <3>1 DEF SaveManifest
  <2>2. ASSUME NEW w \in Writers, Writer(w), ~SaveManifest(w) PROVE manifest' = manifest
    BY <2>2 DEF Writer, TakeVector, Exit, Buffer, TakeBatch, DropBatch, OpenSegment, WriteRecord,
                LoadManifest, ReadIndex, StoreIndex, shared
  <2>3. CASE Stop \/ Joined
    BY <2>3 DEF Stop, Joined, vars, shared
  <2> QED
    BY <2>1, <2>2, <2>3 DEF Next, Writer
<1> QED
  BY <1>1, InitIds, StepIds, PTL DEF Spec, LinesKept

-----------------------------------------------------------------------------
(***************************************************************************)
(* The vectors and their ids.                                              *)
(***************************************************************************)

\* The vectors taken from the pool that are in no batch yet.
Fresh == (1..write_idx) \ DOMAIN given

VectorsInv ==
  /\ DOMAIN given \subseteq 1..write_idx
  /\ \A j \in 1..Len(memtable) : memtable[j] \in Fresh
  /\ \A j, k \in 1..Len(memtable) : memtable[j] = memtable[k] => j = k
  /\ \A w \in Writers : pc[w] = "add" =>
       vec[w] \in Fresh /\ \A j \in 1..Len(memtable) : memtable[j] # vec[w]
  /\ \A w, u \in Writers : (pc[w] = "add" /\ pc[u] = "add" /\ vec[w] = vec[u]) => w = u
  /\ \A w \in Writers : pc[w] \in Batched =>
       \A i \in Positions : /\ batch_vectors[w][i] \in DOMAIN given
                            /\ given[batch_vectors[w][i]] = base_id[w] + i - 1

LEMMA InitVectors == Init => VectorsInv
<1> SUFFICES ASSUME Init PROVE VectorsInv
  OBVIOUS
<1>1. 1..Len(memtable) = {} /\ DOMAIN given = {} /\ \A w \in Writers : pc[w] = "top"
  BY DEF Init
<1> QED
  BY <1>1 DEF VectorsInv, Batched

\* The batch that fills up holds fresh vectors, each once.
LEMMA BatchFresh ==
  ASSUME TypesInv, VectorsInv, NEW w \in Writers, TakeBatch(w)
  PROVE  LET batch == Append(memtable, vec[w]) IN
         /\ \A i \in Positions : batch[i] \in Fresh
         /\ \A i, k \in Positions : batch[i] = batch[k] => i = k
<1> DEFINE batch == Append(memtable, vec[w])
<1>1. /\ pc[w] = "add" /\ vec[w] \in Vectors /\ batch \in Seq(Vectors) /\ Len(batch) = WriteBatch
  BY BatchFills
<1>2. /\ memtable \in Seq(Vectors) /\ Len(memtable) \in Nat /\ Len(memtable) + 1 = WriteBatch
  BY <1>1 DEF TypesInv, TypeOK
<1>3. /\ \A i \in 1..Len(memtable) : batch[i] = memtable[i]
      /\ batch[WriteBatch] = vec[w]
      /\ \A i \in Positions : i \in 1..Len(memtable) \/ i = WriteBatch
  BY <1>1, <1>2 DEF Positions
<1>4. \A i \in Positions : batch[i] \in Fresh
  BY <1>1, <1>3 DEF VectorsInv
<1>5. \A i, k \in Positions : batch[i] = batch[k] => i = k
  BY <1>1, <1>3 DEF VectorsInv
<1> QED
  BY <1>4, <1>5

\* Its vectors get the ids from next_write_id on, and no other vector's changes.
LEMMA BatchGiven ==
  ASSUME TypesInv, VectorsInv, NEW w \in Writers, TakeBatch(w)
  PROVE  LET batch == Append(memtable, vec[w]) IN
         /\ DOMAIN given' = DOMAIN given \cup {batch[i] : i \in Positions}
         /\ \A v \in DOMAIN given : given'[v] = given[v]
         /\ \A i \in Positions : given'[batch[i]] = next_write_id + i - 1
<1> DEFINE batch == Append(memtable, vec[w])
<1>1. given' = [v \in DOMAIN given \cup {batch[i] : i \in Positions} |->
                 IF v \in DOMAIN given THEN given[v]
                 ELSE next_write_id + (CHOOSE i \in Positions : batch[i] = v) - 1]
  BY DEF TakeBatch
<1>2. /\ \A i \in Positions : batch[i] \in Fresh
      /\ \A i, k \in Positions : batch[i] = batch[k] => i = k
  BY BatchFresh
<1> HIDE DEF batch
<1>3. ASSUME NEW i \in Positions PROVE given'[batch[i]] = next_write_id + i - 1
  <2>1. (CHOOSE k \in Positions : batch[k] = batch[i]) = i
    BY <1>2
  <2> QED
    BY <1>1, <1>2, <2>1 DEF Fresh
<1>4. DOMAIN given' = DOMAIN given \cup {batch[i] : i \in Positions}
  BY <1>1
<1>5. \A v \in DOMAIN given : given'[v] = given[v]
  BY <1>1
<1> QED
  BY <1>3, <1>4, <1>5 DEF batch

LEMMA StepVectors == IdsInv /\ VectorsInv /\ [Next]_vars => VectorsInv'
<1> SUFFICES ASSUME IdsInv, TypesInv, VectorsInv, [Next]_vars PROVE VectorsInv'
  BY DEF IdsInv
<1>1. ASSUME NEW w \in Writers, TakeVector(w) PROVE VectorsInv'
  <2>1. /\ write_idx \in Nat /\ write_idx' = write_idx + 1
        /\ vec' = [vec EXCEPT ![w] = write_idx + 1] /\ vec \in [Writers -> 0..PoolSize]
        /\ pc[w] = "top" /\ pc' = [pc EXCEPT ![w] = "add"] /\ DOMAIN pc = Writers
        /\ UNCHANGED <<memtable, given, batch_vectors, base_id>>
    BY <1>1 DEF TakeVector, Goto, TypesInv, TypeOK
  <2>2. /\ \A v \in Fresh : v \in Fresh' /\ v # write_idx + 1
        /\ write_idx + 1 \in Fresh'
    BY <2>1 DEF Fresh, VectorsInv
  <2>3. /\ \A u \in Writers : u # w => pc'[u] = pc[u] /\ vec'[u] = vec[u]
        /\ pc'[w] = "add" /\ vec'[w] = write_idx + 1
    BY <2>1
  <2>4. \A u \in Writers : pc'[u] \in Batched => pc[u] \in Batched
    BY <2>3 DEF Batched
  <2>5. DOMAIN given' \subseteq 1..write_idx'
    BY <2>1 DEF VectorsInv
  <2>6. \A j \in 1..Len(memtable) : memtable[j] \in Fresh' /\ memtable[j] # write_idx + 1
    BY <2>1, <2>2 DEF VectorsInv
  <2>7. \A u \in Writers : pc'[u] = "add" =>
          vec'[u] \in Fresh' /\ \A j \in 1..Len(memtable) : memtable[j] # vec'[u]
    <3> SUFFICES ASSUME NEW u \in Writers, pc'[u] = "add"
                 PROVE  vec'[u] \in Fresh' /\ \A j \in 1..Len(memtable) : memtable[j] # vec'[u]
      OBVIOUS
    <3>1. CASE u = w
      BY <2>2, <2>3, <2>6, <3>1
    <3>2. CASE u # w
      BY <2>2, <2>3, <3>2 DEF VectorsInv
    <3> QED
      BY <3>1, <3>2
  <2>8. \A v, u \in Writers : (pc'[v] = "add" /\ pc'[u] = "add" /\ vec'[v] = vec'[u]) => v = u
    BY <2>2, <2>3 DEF VectorsInv
  <2> QED
    BY <2>1, <2>4, <2>5, <2>6, <2>7, <2>8 DEF VectorsInv
<1>2. ASSUME NEW w \in Writers, Buffer(w) PROVE VectorsInv'
  <2>1. /\ memtable \in Seq(Vectors) /\ vec[w] \in Vectors /\ Len(memtable) \in Nat
        /\ memtable' = Append(memtable, vec[w])
        /\ pc[w] = "add" /\ pc' = [pc EXCEPT ![w] = "top"] /\ DOMAIN pc = Writers
        /\ UNCHANGED <<write_idx, vec, given, batch_vectors, base_id>>
    BY <1>2 DEF Buffer, Goto, TypesInv, TypeOK, locals
  <2>2. /\ Len(memtable') = Len(memtable) + 1
        /\ \A j \in 1..Len(memtable) : memtable'[j] = memtable[j]
        /\ memtable'[Len(memtable) + 1] = vec[w]
        /\ \A j \in 1..Len(memtable') : j \in 1..Len(memtable) \/ j = Len(memtable) + 1
    BY <2>1
  <2>3. /\ vec[w] \in Fresh /\ \A j \in 1..Len(memtable) : memtable[j] \in Fresh /\ memtable[j] # vec[w]
        /\ Fresh' = Fresh
    BY <2>1 DEF VectorsInv, Fresh
  <2>4. \A u \in Writers : /\ pc'[u] = "add" => pc[u] = "add" /\ u # w
                           /\ pc'[u] \in Batched => pc[u] \in Batched
    BY <2>1 DEF Batched
  <2>5. \A u \in Writers : pc'[u] = "add" => vec[u] # vec[w]
    BY <2>1, <2>4 DEF VectorsInv
  <2>6. \A j \in 1..Len(memtable') : memtable'[j] \in Fresh'
    BY <2>2, <2>3
  <2>7. \A j, k \in 1..Len(memtable') : memtable'[j] = memtable'[k] => j = k
    BY <2>2, <2>3 DEF VectorsInv
  <2>8. \A u \in Writers : pc'[u] = "add" =>
          vec[u] \in Fresh' /\ \A j \in 1..Len(memtable') : memtable'[j] # vec[u]
    BY <2>2, <2>3, <2>4, <2>5 DEF VectorsInv
  <2> QED
    BY <2>1, <2>4, <2>6, <2>7, <2>8 DEF VectorsInv
<1>3. ASSUME NEW w \in Writers, TakeBatch(w) PROVE VectorsInv'
  <2> DEFINE batch == Append(memtable, vec[w])
  <2>1. /\ memtable' = <<>> /\ 1..Len(memtable') = {}
        /\ pc[w] = "add" /\ pc' = [pc EXCEPT ![w] = "build"] /\ DOMAIN pc = Writers
        /\ batch_vectors' = [batch_vectors EXCEPT ![w] = batch]
        /\ base_id' = [base_id EXCEPT ![w] = next_write_id]
        /\ DOMAIN batch_vectors = Writers /\ DOMAIN base_id = Writers
        /\ UNCHANGED <<write_idx, vec>>
    BY <1>3 DEF TakeBatch, Goto, TypesInv, TypeOK
  <2>2. /\ DOMAIN given' = DOMAIN given \cup {batch[i] : i \in Positions}
        /\ \A v \in DOMAIN given : given'[v] = given[v]
        /\ \A i \in Positions : given'[batch[i]] = next_write_id + i - 1
    BY <1>3, BatchGiven
  <2>3. /\ \A i \in Positions : batch[i] \in Fresh
    BY <1>3, BatchFresh
  <2>4. \A i \in Positions : (\E j \in 1..Len(memtable) : batch[i] = memtable[j]) \/ batch[i] = vec[w]
    <3>1. memtable \in Seq(Vectors) /\ vec[w] \in Vectors /\ Len(batch) = WriteBatch
      BY <1>3, BatchFills DEF TypesInv, TypeOK
    <3> QED
      BY <3>1 DEF Positions
  <2> HIDE DEF batch
  <2>5. \A u \in Writers : u # w => /\ pc'[u] = pc[u] /\ base_id'[u] = base_id[u]
                                   /\ batch_vectors'[u] = batch_vectors[u]
    BY <2>1
  <2>6. pc'[w] = "build" /\ batch_vectors'[w] = batch /\ base_id'[w] = next_write_id
    BY <2>1
  <2>7. DOMAIN given' \subseteq 1..write_idx'
    BY <2>1, <2>2, <2>3 DEF Fresh, VectorsInv
  <2>8. \A u \in Writers : pc'[u] = "add" => vec'[u] \in Fresh'
    <3> SUFFICES ASSUME NEW u \in Writers, pc'[u] = "add" PROVE vec[u] \in Fresh'
      BY <2>1
    <3>1. u # w /\ pc[u] = "add"
      BY <2>5, <2>6
    <3>2. vec[u] \in Fresh /\ vec[u] # vec[w] /\ \A j \in 1..Len(memtable) : memtable[j] # vec[u]
      BY <2>1, <3>1 DEF VectorsInv
    <3>3. \A i \in Positions : batch[i] # vec[u]
      BY <2>4, <3>2
    <3> QED
      BY <2>1, <2>2, <3>2, <3>3 DEF Fresh
  <2>9. \A u \in Writers : pc'[u] \in Batched =>
          \A i \in Positions : /\ batch_vectors'[u][i] \in DOMAIN given'
                               /\ given'[batch_vectors'[u][i]] = base_id'[u] + i - 1
    <3> SUFFICES ASSUME NEW u \in Writers, pc'[u] \in Batched, NEW i \in Positions
                 PROVE  /\ batch_vectors'[u][i] \in DOMAIN given'
                        /\ given'[batch_vectors'[u][i]] = base_id'[u] + i - 1
      OBVIOUS
    <3>1. CASE u = w
      BY <2>2, <2>6, <3>1
    <3>2. CASE u # w
      BY <2>2, <2>5, <3>2 DEF VectorsInv
    <3> QED
      BY <3>1, <3>2
  <2>10. \A v, u \in Writers : (pc'[v] = "add" /\ pc'[u] = "add" /\ vec'[v] = vec'[u]) => v = u
    BY <2>1, <2>5, <2>6 DEF VectorsInv
  <2> QED
    BY <2>1, <2>7, <2>8, <2>9, <2>10 DEF VectorsInv
<1>4. ASSUME UNCHANGED <<write_idx, memtable, vec, given, batch_vectors, base_id>>,
             \A u \in Writers : /\ pc'[u] = "add" => pc[u] = "add"
                                /\ pc'[u] \in Batched => pc[u] \in Batched
      PROVE  VectorsInv'
  BY <1>4 DEF VectorsInv, Fresh
<1>5. ASSUME NEW w \in Writers,
             \/ Exit(w) \/ DropBatch(w) \/ OpenSegment(w) \/ WriteRecord(w) \/ LoadManifest(w)
             \/ SaveManifest(w) \/ ReadIndex(w) \/ StoreIndex(w)
      PROVE  VectorsInv'
  <2>1. UNCHANGED <<write_idx, memtable, vec, given, batch_vectors, base_id>>
    BY <1>5 DEF Exit, DropBatch, OpenSegment, WriteRecord, LoadManifest, SaveManifest,
                ReadIndex, StoreIndex, shared, locals
  <2>2. PICK from, to : /\ Goto(w, from, to) /\ (to \in Batched => from \in Batched) /\ to # "add"
    BY <1>5 DEF Exit, DropBatch, OpenSegment, WriteRecord, LoadManifest, SaveManifest,
                ReadIndex, StoreIndex, Batched
  <2>3. \A u \in Writers : /\ pc'[u] = "add" => pc[u] = "add"
                           /\ pc'[u] \in Batched => pc[u] \in Batched
    BY <2>2 DEF Goto, TypesInv, TypeOK
  <2> QED
    BY <1>4, <2>1, <2>3
<1>6. CASE Stop \/ UNCHANGED vars
  BY <1>4, <1>6 DEF Stop, vars, shared, locals
<1> QED
  BY <1>1, <1>2, <1>3, <1>5, <1>6 DEF Next, Writer, Joined

-----------------------------------------------------------------------------
(***************************************************************************)
(* The segment files.                                                      *)
(***************************************************************************)

Writing == {"write", "load", "save"}

\* A file whose name was free whenever it was taken: while it is being written it has
\* one writer, is not listed, and holds the records written so far.
FilesInv ==
  /\ \A w \in Writers : (pc[w] \in Writing /\ seg_path[w] \notin collided) =>
       /\ seg_path[w] \in DOMAIN files
       /\ \A i \in 1..written[w] : files[seg_path[w]][i] = batch_vectors[w][i]
       /\ pc[w] # "write" => written[w] = WriteBatch
       /\ \A m \in manifest : m.seg_path # seg_path[w]
  /\ \A w, u \in Writers :
       (/\ pc[w] \in Writing /\ pc[u] \in Writing
        /\ seg_path[w] = seg_path[u] /\ seg_path[w] \notin collided) => w = u
  /\ \A m \in manifest : m.seg_path \notin collided => m.seg_path \in DOMAIN files

\* What ListedServedRight says of one line.
ServedRight(m) ==
  \A i \in Positions :
    IF m.earlier THEN files[m.seg_path][i] = Foreign
    ELSE /\ files[m.seg_path][i] \in DOMAIN given
         /\ given[files[m.seg_path][i]] = m.id_offset + i - 1

LinesServed == \A m \in manifest : m.seg_path \notin collided => ServedRight(m)

ServedInv == IdsInv /\ VectorsInv /\ FilesInv /\ LinesServed

LEMMA InitServed == Init => ServedInv
<1> SUFFICES ASSUME Init PROVE ServedInv
  OBVIOUS
<1>1. manifest = EarlierLines /\ \A w \in Writers : pc[w] = "top"
  BY DEF Init
<1>2. \A m \in manifest : m.earlier /\ m.seg_path \in DOMAIN files
  BY <1>1, EarlierAssumption DEF EarlierAssumption, Init
<1>3. \A m \in manifest : ServedRight(m)
  <2>1. \A k \in EarlierFiles, i \in Positions : files[k][i] = Foreign
    BY DEF Init
  <2>2. DOMAIN files = EarlierFiles
    BY DEF Init
  <2> QED
    BY <1>2, <2>1, <2>2 DEF ServedRight
<1> QED
  BY <1>1, <1>2, <1>3, InitIds, InitVectors DEF ServedInv, FilesInv, LinesServed, Writing

\* The parts of FilesInv and the lines it protects, in a step that leaves the files of
\* writers and lines alone.
LEMMA SameFiles ==
  ASSUME ServedInv, VectorsInv',
         UNCHANGED <<files, manifest, collided>>,
         \A v \in DOMAIN given : v \in DOMAIN given' /\ given'[v] = given[v],
         \A w \in Writers : pc'[w] \in Writing =>
           /\ pc[w] \in Writing /\ (pc'[w] # "write" => pc[w] # "write")
           /\ seg_path'[w] = seg_path[w] /\ written'[w] = written[w]
           /\ batch_vectors'[w] = batch_vectors[w]
  PROVE  FilesInv' /\ LinesServed'
<1>1. FilesInv'
  BY DEF ServedInv, FilesInv
<1>2. LinesServed'
  BY DEF ServedInv, LinesServed, ServedRight
<1> QED
  BY <1>1, <1>2

LEMMA OpenServed ==
  ASSUME ServedInv, NEW w \in Writers, OpenSegment(w)
  PROVE  FilesInv' /\ LinesServed'
<1>1. /\ collided \subseteq collided'
      /\ NameTaken(w, batch_index) => batch_index \in collided'
  BY DEF OpenSegment
<1>2. /\ \A u \in Writers \ {w} : (pc[u] \in Writing /\ seg_path[u] \notin collided')
                                    => seg_path[u] # batch_index
      /\ \A m \in manifest : m.seg_path \notin collided' => m.seg_path # batch_index
      /\ batch_index \notin collided' =>
           /\ \A u \in Writers \ {w} : pc[u] \in Writing => seg_path[u] # batch_index
           /\ \A m \in manifest : m.seg_path # batch_index
  BY <1>1 DEF NameTaken, Writing
<1>3. /\ pc' = [pc EXCEPT ![w] = "write"] /\ seg_path' = [seg_path EXCEPT ![w] = batch_index]
      /\ written' = [written EXCEPT ![w] = 0]
      /\ DOMAIN files' = DOMAIN files \cup {batch_index}
      /\ \A k \in DOMAIN files : k # batch_index => files'[k] = files[k]
      /\ UNCHANGED <<manifest, batch_vectors, given>>
  BY DEF OpenSegment, Goto
<1>4. /\ \A u \in Writers : u # w => pc'[u] = pc[u] /\ seg_path'[u] = seg_path[u]
                                   /\ written'[u] = written[u]
      /\ pc'[w] = "write" /\ seg_path'[w] = batch_index /\ written'[w] = 0
  BY <1>3 DEF ServedInv, IdsInv, TypesInv, TypeOK
<1>5. FilesInv
  BY DEF ServedInv
<1>6. ASSUME NEW u \in Writers, pc'[u] \in Writing, seg_path'[u] \notin collided'
      PROVE  /\ seg_path'[u] \in DOMAIN files'
             /\ \A i \in 1..written'[u] : files'[seg_path'[u]][i] = batch_vectors'[u][i]
             /\ pc'[u] # "write" => written'[u] = WriteBatch
             /\ \A m \in manifest' : m.seg_path # seg_path'[u]
  <2>1. CASE u = w
    BY <1>2, <1>3, <1>4, <1>6, <2>1
  <2>2. CASE u # w
    <3>1. pc[u] \in Writing /\ seg_path[u] \notin collided /\ seg_path[u] # batch_index
      BY <1>1, <1>2, <1>4, <1>6, <2>2
    <3>2. seg_path[u] \in DOMAIN files /\ files'[seg_path[u]] = files[seg_path[u]]
      BY <1>3, <1>5, <3>1 DEF FilesInv
    <3> QED
      BY <1>3, <1>4, <1>5, <2>2, <3>1, <3>2 DEF FilesInv
  <2> QED
    BY <2>1, <2>2
<1>7. \A v, u \in Writers :
        (/\ pc'[v] \in Writing /\ pc'[u] \in Writing
         /\ seg_path'[v] = seg_path'[u] /\ seg_path'[v] \notin collided') => v = u
  <2> SUFFICES ASSUME NEW v \in Writers, NEW u \in Writers,
                      pc'[v] \in Writing, pc'[u] \in Writing,
                      seg_path'[v] = seg_path'[u], seg_path'[v] \notin collided'
               PROVE  v = u
    OBVIOUS
  <2>1. CASE v = w \/ u = w
    BY <1>2, <1>4, <2>1
  <2>2. CASE v # w /\ u # w
    BY <1>1, <1>4, <1>5, <2>2 DEF FilesInv
  <2> QED
    BY <2>1, <2>2
<1>8. \A m \in manifest : m.seg_path \notin collided' =>
        m.seg_path \in DOMAIN files /\ files'[m.seg_path] = files[m.seg_path]
  BY <1>1, <1>2, <1>3, <1>5 DEF FilesInv
<1>9. LinesServed'
  BY <1>1, <1>3, <1>8 DEF ServedInv, LinesServed, ServedRight
<1> QED
  BY <1>3, <1>6, <1>7, <1>8, <1>9 DEF FilesInv

LEMMA WriteServed ==
  ASSUME ServedInv, NEW w \in Writers, WriteRecord(w)
  PROVE  FilesInv' /\ LinesServed'
<1> DEFINE i == written[w] + 1
<1>1. /\ pc[w] = "write" /\ i <= Len(batch_vectors[w])
      /\ pc' = [pc EXCEPT ![w] = IF i = Len(batch_vectors[w]) THEN "load" ELSE "write"]
      /\ files' = [files EXCEPT ![seg_path[w]][i] = batch_vectors[w][i]]
      /\ written' = [written EXCEPT ![w] = i]
      /\ UNCHANGED <<manifest, batch_vectors, given, seg_path, collided>>
  BY DEF WriteRecord, Goto
<1>2. Len(batch_vectors[w]) = WriteBatch /\ i \in Positions /\ written[w] \in Nat
  <2>1. Len(batch_vectors[w]) = WriteBatch /\ written[w] \in 0..WriteBatch
    BY <1>1 DEF ServedInv, IdsInv, TypesInv, TypeOK
  <2> QED
    BY <1>1, <2>1, SizesAssumption DEF Positions, SizesAssumption
<1>3. /\ \A u \in Writers : u # w => pc'[u] = pc[u] /\ written'[u] = written[u]
      /\ pc'[w] = (IF i = WriteBatch THEN "load" ELSE "write") /\ written'[w] = i
  BY <1>1, <1>2 DEF ServedInv, IdsInv, TypesInv, TypeOK
<1>4. FilesInv /\ (seg_path[w] \notin collided => seg_path[w] \in DOMAIN files)
  BY <1>1 DEF ServedInv, FilesInv, Writing
<1>5. /\ DOMAIN files' = DOMAIN files
      /\ \A k \in DOMAIN files : k # seg_path[w] => files'[k] = files[k]
      /\ seg_path[w] \notin collided =>
           \A k \in Positions : files'[seg_path[w]][k] =
             IF k = i THEN batch_vectors[w][i] ELSE files[seg_path[w]][k]
  <2>1. seg_path[w] \notin collided =>
          files[seg_path[w]] \in [Positions -> Vectors \cup {Blank, Foreign}]
    BY <1>4 DEF ServedInv, IdsInv, TypesInv, TypeOK
  <2> HIDE DEF i
  <2> QED
    BY <1>1, <1>4, <2>1
<1>6. \A k \in 1..i : k \in Positions /\ (k = i \/ k \in 1..written[w])
  BY <1>2 DEF Positions
<1>7. seg_path[w] \notin collided =>
        \A k \in 1..i : files'[seg_path[w]][k] = batch_vectors[w][k]
  <2>1. seg_path[w] \notin collided =>
          \A k \in 1..written[w] : files[seg_path[w]][k] = batch_vectors[w][k]
    BY <1>1, <1>4 DEF FilesInv, Writing
  <2> HIDE DEF i
  <2> QED
    BY <1>5, <1>6, <2>1
<1> HIDE DEF i
<1>8. ASSUME NEW u \in Writers, pc'[u] \in Writing, seg_path[u] \notin collided
      PROVE  /\ seg_path[u] \in DOMAIN files
             /\ \A k \in 1..written'[u] : files'[seg_path[u]][k] = batch_vectors[u][k]
             /\ pc'[u] # "write" => written'[u] = WriteBatch
             /\ \A m \in manifest : m.seg_path # seg_path[u]
  <2>1. CASE u = w
    <3>1. \A m \in manifest : m.seg_path # seg_path[w]
      BY <1>1, <1>4, <1>8, <2>1 DEF FilesInv, Writing
    <3>2. pc'[u] # "write" => written'[u] = WriteBatch
      BY <1>3, <2>1
    <3> QED
      BY <1>3, <1>4, <1>7, <1>8, <2>1, <3>1, <3>2
  <2>2. CASE u # w
    <3>1. pc[u] \in Writing /\ written'[u] = written[u] /\ pc'[u] = pc[u]
      BY <1>3, <1>8, <2>2
    <3>2. seg_path[u] # seg_path[w] /\ seg_path[u] \in DOMAIN files
      BY <1>1, <1>4, <1>8, <2>2, <3>1 DEF FilesInv, Writing
    <3>3. files'[seg_path[u]] = files[seg_path[u]]
      BY <1>5, <3>2
    <3> QED
      BY <1>4, <1>8, <3>1, <3>2, <3>3 DEF FilesInv
  <2> QED
    BY <2>1, <2>2
<1>9. \A v, u \in Writers :
        (/\ pc'[v] \in Writing /\ pc'[u] \in Writing
         /\ seg_path[v] = seg_path[u] /\ seg_path[v] \notin collided) => v = u
  <2>1. \A u \in Writers : pc'[u] \in Writing => pc[u] \in Writing
    BY <1>1, <1>3 DEF Writing
  <2> QED
    BY <1>4, <2>1 DEF FilesInv
<1>10. \A m \in manifest : m.seg_path \notin collided =>
         m.seg_path \in DOMAIN files /\ files'[m.seg_path] = files[m.seg_path]
  BY <1>1, <1>4, <1>5 DEF FilesInv, Writing
<1>11. LinesServed'
  BY <1>1, <1>10 DEF ServedInv, LinesServed, ServedRight
<1> QED
  BY <1>1, <1>5, <1>8, <1>9, <1>10, <1>11 DEF FilesInv

LEMMA SaveServed ==
  ASSUME ServedInv, NEW w \in Writers, SaveManifest(w)
  PROVE  FilesInv' /\ LinesServed'
<1> DEFINE line == NewLine(w)
<1>1. /\ pc[w] = "save" /\ pc' = [pc EXCEPT ![w] = "count"]
      /\ manifest' \in {manifest, latest[w] \cup {line}}
      /\ UNCHANGED <<files, batch_vectors, given, seg_path, written, collided>>
  BY DEF SaveManifest, Goto, locals
<1>2. /\ \A u \in Writers : pc'[u] \in Writing => u # w /\ pc[u] \in Writing /\ pc'[u] = pc[u]
  BY <1>1 DEF ServedInv, IdsInv, TypesInv, TypeOK, Writing
<1>3. manifest' \subseteq manifest \cup {line}
  BY <1>1 DEF ServedInv, IdsInv, LockInv
<1>4. FilesInv
  BY DEF ServedInv
<1>5. line.seg_path = seg_path[w] /\ line.id_offset = base_id[w] /\ ~line.earlier
  BY DEF NewLine
<1> HIDE DEF line
<1>6. ASSUME seg_path[w] \notin collided
      PROVE  /\ seg_path[w] \in DOMAIN files
             /\ \A i \in Positions : files[seg_path[w]][i] = batch_vectors[w][i]
             /\ \A u \in Writers : pc'[u] \in Writing => seg_path[u] # seg_path[w]
  BY <1>1, <1>2, <1>4, <1>6 DEF FilesInv, Writing, Positions
<1>7. seg_path[w] \notin collided => ServedRight(line)
  <2>1. \A i \in Positions : /\ batch_vectors[w][i] \in DOMAIN given
                             /\ given[batch_vectors[w][i]] = base_id[w] + i - 1
    BY <1>1 DEF ServedInv, VectorsInv, Batched
  <2> QED
    BY <1>5, <1>6, <2>1 DEF ServedRight
<1>8. FilesInv'
  <2>1. ASSUME NEW u \in Writers, pc'[u] \in Writing, seg_path[u] \notin collided
        PROVE  /\ seg_path[u] \in DOMAIN files
               /\ \A i \in 1..written[u] : files[seg_path[u]][i] = batch_vectors[u][i]
               /\ pc'[u] # "write" => written[u] = WriteBatch
               /\ \A m \in manifest' : m.seg_path # seg_path[u]
    <3>1. seg_path[u] # seg_path[w]
      BY <1>1, <1>2, <1>4, <2>1 DEF FilesInv, Writing
    <3> QED
      BY <1>2, <1>3, <1>4, <1>5, <2>1, <3>1 DEF FilesInv
  <2>2. \A v, u \in Writers :
          (/\ pc'[v] \in Writing /\ pc'[u] \in Writing
           /\ seg_path[v] = seg_path[u] /\ seg_path[v] \notin collided) => v = u
    BY <1>2, <1>4 DEF FilesInv
  <2>3. \A m \in manifest' : m.seg_path \notin collided => m.seg_path \in DOMAIN files
    BY <1>3, <1>4, <1>5, <1>6 DEF FilesInv
  <2> QED
    BY <1>1, <2>1, <2>2, <2>3 DEF FilesInv
<1>9. LinesServed'
  <2>1. \A m \in manifest' : m.seg_path \notin collided => ServedRight(m)
    BY <1>3, <1>5, <1>7 DEF ServedInv, LinesServed
  <2> QED
    BY <1>1, <2>1 DEF LinesServed, ServedRight
<1> QED
  BY <1>8, <1>9

LEMMA StepServed == ServedInv /\ [Next]_vars => ServedInv'
<1> SUFFICES ASSUME ServedInv, [Next]_vars
             PROVE  FilesInv' /\ LinesServed'
  BY StepIds, StepVectors DEF ServedInv
<1>1. VectorsInv' /\ TypesInv
  BY StepVectors DEF ServedInv, IdsInv
<1>2. ASSUME NEW w \in Writers, OpenSegment(w) \/ WriteRecord(w) \/ SaveManifest(w)
      PROVE  FilesInv' /\ LinesServed'
  BY <1>2, OpenServed, WriteServed, SaveServed
<1>3. ASSUME NEW w \in Writers, TakeBatch(w)
      PROVE  FilesInv' /\ LinesServed'
  <2>1. \A v \in DOMAIN given : v \in DOMAIN given' /\ given'[v] = given[v]
    BY <1>1, <1>3, BatchGiven DEF ServedInv
  <2>2. UNCHANGED <<files, manifest, collided, seg_path, written>>
    BY <1>3 DEF TakeBatch
  <2>3. \A u \in Writers : pc'[u] \in Writing =>
          pc[u] = pc'[u] /\ batch_vectors'[u] = batch_vectors[u]
    BY <1>1, <1>3 DEF TakeBatch, Goto, Writing, TypesInv, TypeOK
  <2> QED
    BY <1>1, <2>1, <2>2, <2>3, SameFiles
<1>4. ASSUME NEW w \in Writers,
             \/ TakeVector(w) \/ Exit(w) \/ Buffer(w) \/ DropBatch(w) \/ LoadManifest(w)
             \/ ReadIndex(w) \/ StoreIndex(w)
      PROVE  FilesInv' /\ LinesServed'
  <2>1. UNCHANGED <<files, manifest, collided, seg_path, written, batch_vectors, given>>
    BY <1>4 DEF TakeVector, Exit, Buffer, DropBatch, LoadManifest, ReadIndex, StoreIndex, shared,
                locals
  <2>2. PICK from, to : Goto(w, from, to) /\ (to \in Writing => from = "load" /\ to = "save")
    BY <1>4 DEF TakeVector, Exit, Buffer, DropBatch, LoadManifest, ReadIndex, StoreIndex, Writing
  <2>3. \A u \in Writers : pc'[u] \in Writing =>
          pc[u] \in Writing /\ (pc'[u] # "write" => pc[u] # "write")
    BY <1>1, <2>2 DEF Goto, Writing, TypesInv, TypeOK
  <2> QED
    BY <1>1, <2>1, <2>3, SameFiles
<1>5. CASE Stop \/ UNCHANGED vars
  <2>1. UNCHANGED <<files, manifest, collided, seg_path, written, batch_vectors, given, pc>>
    BY <1>5 DEF Stop, vars, shared, locals
  <2> QED
    BY <1>1, <2>1, SameFiles
<1> QED
  BY <1>2, <1>3, <1>4, <1>5 DEF Next, Writer, Joined

\* A listed segment whose name was free whenever it was taken serves each of its vectors
\* under the id it was given, and one of an earlier run keeps its vectors, whatever the
\* writers do to the other files meanwhile (main.cpp:932-960).
THEOREM ListedAlwaysServedRight == Spec => []ListedServedRight
<1>1. ServedInv => ListedServedRight
  <2> SUFFICES ASSUME ServedInv, NEW m \in manifest, m.seg_path \notin collided,
                      NEW i \in Positions
               PROVE  LET v == files[m.seg_path][i] IN
                      IF m.earlier THEN v = Foreign
                      ELSE v \in DOMAIN given /\ given[v] = m.id_offset + i - 1
    BY DEF ListedServedRight
  <2>1. ServedRight(m)
    BY DEF ServedInv, LinesServed
  <2> QED
    BY <2>1 DEF ServedRight
<1> QED
  BY <1>1, InitServed, StepServed, PTL DEF Spec
=============================================================================
