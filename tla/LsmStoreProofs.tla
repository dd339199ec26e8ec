--------------------------- MODULE LsmStoreProofs ---------------------------
(***************************************************************************)
(* Theorems about LsmStore, for every number of original segments and of   *)
(* flushed batches and every level limit.                                  *)
(*                                                                         *)
(* The argument.  Files are told apart by whether their name is settled: a *)
(* merged file is settled once its compaction number has been used up, or  *)
(* once the Save of its line has returned true.  Only unsettled names are  *)
(* ever written again: a retry after a failed write or after a Save that   *)
(* returned false writes the same name, and by then a manifest may name    *)
(* it, because another Save has installed the lines of the one that        *)
(* returned false.  But a file is deleted only behind the settled file     *)
(* that holds all of its vectors, so the settled files hold every flushed  *)
(* vector, whatever the two threads have done to <path>.tmp, to each       *)
(* other's manifest and to each other's answer.  That is IInv.             *)
(* DInv and EInv are about histories that are still clean: there the       *)
(* manifest names settled files only, every line can be opened, and the    *)
(* lines divide the committed ids into intervals.                          *)
(***************************************************************************)
EXTENDS LsmStore, FiniteSetTheorems, TLAPS

Settled(p) ==
  p.kind = "merged" =>
    \/ p.num < compaction_count_
    \/ cpc = "delete" /\ p = NewPath

Held(v) == \E p \in DOMAIN files : Settled(p) /\ v \in files[p]

\* Every copy of the manifest, on disk or in a thread.
Lines == manifest \cup tmp \cup out_manifest \cup snapshot \cup latest \cup sources

\* A copy of the manifest never names an insert file that is still to be written.
LinesNumbered ==
  \A m \in Lines : m.path.kind = "insert" => m.path.num < batch_index

\* While the process can still flush, every insert file has been counted, so
\* the name of the next one is fresh.
InsertsNumbered ==
  wpc \notin {"return", "join", "done"} =>
    \A p \in DOMAIN files : p.kind = "insert" => p.num < batch_index

\* While a segment is being committed, it has been counted.
FlushCounted == wpc \in {"load", "save"} => batch_index > 0 /\ next_id > 0

Merging == {"write", "reload", "swap", "delete"}

\* What is left of the sources is contained in the vectors of the merge.
SourcesCopied ==
  cpc \in Merging =>
    \A m \in sources :
      /\ Level(m) = level
      /\ m.path \in DOMAIN files => files[m.path] \subseteq merged

\* The vectors of the merge are held by settled files until the merged file
\* is complete, and from then on by that file.
MergedHeld ==
  /\ cpc = "write" => \A v \in merged : Held(v)
  /\ cpc \in {"reload", "swap", "delete"} =>
       NewPath \in DOMAIN files /\ files[NewPath] = merged

\* No vector lives in a file that may be rewritten only.
AllHeld == \A p \in DOMAIN files : \A v \in files[p] : Held(v)

\* Every vector ever flushed is held, and every acknowledged one was flushed.
FlushedHeld ==
  /\ \A v \in 0..next_id - 1 : Held(v)
  /\ Committed \subseteq 0..next_id - 1

\* The inductive invariant of the store: what every copy of the manifest, every
\* file and every merge under way guarantee together, clean or not.
IInv ==
  /\ TypeOK /\ FlushCounted /\ LinesNumbered /\ InsertsNumbered
  /\ SourcesCopied /\ MergedHeld /\ AllHeld /\ FlushedHeld

-----------------------------------------------------------------------------
(***************************************************************************)
(* Types.                                                                  *)
(***************************************************************************)

\* A Load, failed or not, leaves no lines that are not in the manifest.
LEMMA LoadedLines == \A lines \in Loaded : lines \subseteq manifest
BY DEF Loaded

\* The types hold initially.
LEMMA InitTypes == Init => TypeOK /\ FlushCounted
<1> SUFFICES ASSUME Init PROVE TypeOK /\ FlushCounted
  OBVIOUS
<1>1. \A i \in 0..NumBase - 1 : i \in Nat /\ BasePath(i) \in Paths
  BY NumbersAssumption DEF BasePath, Paths, Kinds
<1>2. DOMAIN files = {BasePath(i) : i \in 0..NumBase - 1}
  BY DEF Init
<1>3. \A p \in DOMAIN files : files[p] \subseteq Nat
  BY <1>1, <1>2 DEF Init, Paths
<1>4. manifest \subseteq SegmentMeta
  BY <1>1 DEF Init, SegmentMeta, Line
<1>5. tmp \subseteq SegmentMeta
  BY DEF Init, NoFile, Line, SegmentMeta, Paths, Kinds
<1> QED
  BY <1>1, <1>2, <1>3, <1>4, <1>5, NumbersAssumption DEF Init, TypeOK, FlushCounted

\* Until a Save succeeds it changes nothing but the temporary file and its own
\* place, and as long as the history stays clean it leaves the manifest alone.
LEMMA SavingStep ==
  Saving => /\ files' = files
            /\ wpc' = wpc /\ next_id' = next_id /\ batch_index' = batch_index
            /\ out_manifest' = out_manifest
            /\ cpc' = cpc /\ snapshot' = snapshot /\ levels' = levels /\ level' = level
            /\ sources' = sources /\ merged' = merged /\ latest' = latest
            /\ compaction_count_' = compaction_count_
            /\ pending_' = pending_ /\ stop_' = stop_ /\ acked' = acked
            /\ clean' => clean /\ manifest' = manifest
<1> SUFFICES ASSUME NEW t \in Threads,
                    \/ RemoveTmp(t) \/ OpenTmp(t) \/ WriteTmp(t)
                    \/ WriteTmpFails(t) \/ RenameFails(t)
             PROVE  SaveOnly /\ (clean' => clean /\ manifest' = manifest)
  BY DEF Saving, SaveOnly, inserterVars, compactorVars
<1>1. CASE RemoveTmp(t) \/ OpenTmp(t) \/ RenameFails(t)
  BY <1>1 DEF RemoveTmp, OpenTmp, RenameFails
<1>2. CASE WriteTmp(t) \/ WriteTmpFails(t)
  <2>1. SaveOnly /\ \E lines : WritesTo(t, lines)
    BY <1>2 DEF WriteTmp, WriteTmpFails
  <2> QED
    BY <2>1 DEF WritesTo
<1> QED
  BY <1>1, <1>2

\* Writing over a file leaves old lines, new lines and lines that name no file.
LEMMA OverlayLines ==
  ASSUME NEW old \in SUBSET SegmentMeta, NEW new \in SUBSET SegmentMeta,
         NEW lines \in Overlays(old, new)
  PROVE  /\ lines \subseteq SegmentMeta
         /\ \A m \in lines :
              m.path.kind = "insert" => \E n \in old \cup new : n.path = m.path
<1>1. CASE old = {}
  BY <1>1 DEF Overlays
<1>2. CASE old # {}
  <2>1. PICK rest \in Leftovers(old) :
          lines = {Copy(m, 2 * m.copy) : m \in new} \cup rest
    BY <1>2 DEF Overlays
  <2>2. \A l \in Nat : CutLine(l) \in SegmentMeta /\ CutLine(l).path.kind = "cut"
    BY DEF CutLine, Line, SegmentMeta, Paths, Kinds
  <2>3. \A m \in SegmentMeta, n \in Nat : Copy(m, n) \in SegmentMeta /\ Copy(m, n).path = m.path
    BY DEF SegmentMeta, Copy
  <2>4. \A m \in SegmentMeta : m.copy \in Nat /\ Level(m) \in Nat
    BY DEF SegmentMeta, Level, Paths
  <2>5. ASSUME NEW kept \in SUBSET {Copy(m, 2 * m.copy + 1) : m \in old}, NEW n \in kept
        PROVE  n \in SegmentMeta /\ \E m \in old : m.path = n.path
    <3>1. PICK m \in old : n = Copy(m, 2 * m.copy + 1)
      OBVIOUS
    <3>2. m \in SegmentMeta /\ 2 * m.copy + 1 \in Nat
      BY <2>4
    <3> QED
      BY <2>3, <3>1, <3>2
  <2>6. \A n \in rest : /\ n \in SegmentMeta
                        /\ n.path.kind # "cut" => \E m \in old : m.path = n.path
    <3>1. CASE rest \in SUBSET {Copy(m, 2 * m.copy + 1) : m \in old}
      BY <2>5, <3>1
    <3>2. CASE rest \notin SUBSET {Copy(m, 2 * m.copy + 1) : m \in old}
      <4>1. PICK l \in {0} \cup {Level(m) : m \in old} :
              rest \in {kept \cup {CutLine(l)} :
                         kept \in SUBSET {Copy(m, 2 * m.copy + 1) : m \in old}}
        BY <3>2 DEF Leftovers
      <4>2. PICK kept \in SUBSET {Copy(m, 2 * m.copy + 1) : m \in old} :
              rest = kept \cup {CutLine(l)}
        BY <4>1
      <4>3. l \in Nat
        BY <2>4
      <4> QED
        BY <2>2, <2>5, <4>2, <4>3
    <3> QED
      BY <3>1, <3>2
  <2>7. ASSUME NEW n \in {Copy(m, 2 * m.copy) : m \in new}
        PROVE  n \in SegmentMeta /\ \E m \in new : m.path = n.path
    <3>1. PICK m \in new : n = Copy(m, 2 * m.copy)
      OBVIOUS
    <3>2. m \in SegmentMeta /\ 2 * m.copy \in Nat
      BY <2>4
    <3> QED
      BY <2>3, <3>1, <3>2
  <2> QED
    BY <2>1, <2>6, <2>7
<1> QED
  BY <1>1, <1>2

\* The lines a Save is called with are well formed.
LEMMA SavedLinesTyped ==
  ASSUME TypeOK, FlushCounted, NEW t \in Threads, InSave(t), NEW lines \in SavedLines(t)
  PROVE  /\ lines \subseteq SegmentMeta
         /\ \A m \in lines :
              m.path.kind = "insert" =>
                \E n \in out_manifest \cup latest \cup {LastFlushed} : n.path = m.path
<1>1. CASE t = "inserter"
  <2>1. lines = out_manifest \cup {LastFlushed} /\ batch_index > 0 /\ next_id > 0
    BY <1>1 DEF SavedLines, InSave, FlushCounted
  <2>2. LastFlushed \in SegmentMeta
    BY <2>1 DEF LastFlushed, Line, InsertPath, SegmentMeta, Paths, Kinds, TypeOK
  <2> QED
    BY <2>1, <2>2 DEF TypeOK
<1>2. CASE t # "inserter"
  <2>1. PICK line \in MergedLines : lines = Swapped(latest, sources, line)
    BY <1>2 DEF SavedLines
  <2>2. line \in SegmentMeta /\ line.path.kind = "merged"
    BY DEF MergedLines, NewPath, MergedPath, Line, SegmentMeta, Paths, Kinds, TypeOK
  <2> QED
    BY <2>1, <2>2 DEF Swapped, TypeOK
<1> QED
  BY <1>1, <1>2

\* Every line of the manifest or the temporary file after a step of a Save was in
\* one of them before, is one of the lines being saved, or names no insert file.
LEMMA SavedLineSteps ==
  ASSUME TypeOK, FlushCounted, Saving
  PROVE  /\ manifest' \subseteq SegmentMeta /\ tmp' \subseteq SegmentMeta
         /\ \A m \in manifest' \cup tmp' :
              m.path.kind = "insert" =>
                \E n \in manifest \cup tmp \cup out_manifest \cup latest \cup {LastFlushed} :
                  n.path = m.path
<1>1. NoFile \subseteq SegmentMeta /\ \A m \in NoFile : m.path.kind = "none"
  BY DEF NoFile, Line, SegmentMeta, Paths, Kinds
<1>2. PICK t \in Threads : \/ RemoveTmp(t) \/ OpenTmp(t) \/ WriteTmp(t)
                           \/ WriteTmpFails(t) \/ RenameFails(t)
  BY DEF Saving
<1>3. CASE RemoveTmp(t)
  BY <1>1, <1>3 DEF RemoveTmp, RemovesTmp, TypeOK
<1>4. CASE OpenTmp(t) \/ RenameFails(t)
  BY <1>4 DEF OpenTmp, RenameFails, TypeOK
<1>5. CASE WriteTmp(t) \/ WriteTmpFails(t)
  <2>1. InSave(t)
    BY <1>5 DEF WriteTmp, WriteTmpFails, Goto
  <2>2. PICK lines \in SavedLines(t) \cup {{}} : WritesTo(t, lines)
    BY <1>5 DEF WriteTmp, WriteTmpFails
  <2>3. /\ lines \subseteq SegmentMeta
        /\ \A m \in lines :
             m.path.kind = "insert" =>
               \E n \in out_manifest \cup latest \cup {LastFlushed} : n.path = m.path
    BY <2>1, <2>2, SavedLinesTyped
  <2>4. tmp \in SUBSET SegmentMeta /\ manifest \in SUBSET SegmentMeta
    BY DEF TypeOK
  <2>5. /\ tmp' \subseteq SegmentMeta
        /\ \A m \in tmp' : m.path.kind = "insert" =>
                            \E n \in tmp \cup lines : n.path = m.path
    <3>1. tmp' = tmp \/ tmp' \in Overlays(tmp, lines)
      BY <2>2 DEF WritesTo
    <3> QED
      BY <2>3, <2>4, <3>1, OverlayLines
  <2>6. /\ manifest' \subseteq SegmentMeta
        /\ \A m \in manifest' : m.path.kind = "insert" =>
                                 \E n \in manifest \cup lines : n.path = m.path
    <3>1. manifest' = manifest \/ manifest' \in Overlays(manifest, lines)
      BY <2>2 DEF WritesTo
    <3> QED
      BY <2>3, <2>4, <3>1, OverlayLines
  <2>7. \A m \in manifest' \cup tmp' :
          m.path.kind = "insert" => \E n \in manifest \cup tmp \cup lines : n.path = m.path
    BY <2>5, <2>6
  <2>8. \A n \in lines : n.path.kind = "insert" =>
          \E k \in manifest \cup tmp \cup out_manifest \cup latest \cup {LastFlushed} :
            k.path = n.path
    BY <2>3
  <2> QED
    BY <2>5, <2>6, <2>7, <2>8
<1> QED
  BY <1>2, <1>3, <1>4, <1>5

\* A Save that succeeds puts the temporary file, whoever wrote it, in the place of
\* the manifest; in a clean history that makes the one change it was called for.
LEMMA SucceedStep ==
  ASSUME NEW t \in Threads, SaveSucceeds(t)
  PROVE  /\ manifest' = tmp /\ tmp' = NoFile
         /\ clean' => clean /\ manifest' \in UpdatedManifest(t)
BY DEF SaveSucceeds

LEMMA FailStep ==
  ASSUME NEW t \in Threads, SaveReturnsFalse(t)
  PROVE  manifest' = manifest /\ tmp' \in {tmp, NoFile} /\ clean' = clean
BY DEF SaveReturnsFalse, RemovesTmp

\* No step of a Save leaves the types of what the Saves share.
LEMMA SaveTypes ==
  ASSUME TypeOK, [Next]_vars
  PROVE  /\ stream' \in [Threads -> {"none", "tmp", "manifest", "gone"}]
         /\ spc' \in [Threads -> {"remove", "open", "write", "rename", "giveup"}]
         /\ clean' \in BOOLEAN
<1> USE DEF TypeOK, RemovesTmp, Goto
<1>1. CASE Saving
  BY <1>1 DEF Saving, RemoveTmp, OpenTmp, WriteTmp, WriteTmpFails, RenameFails, WritesTo
<1>2. CASE SaveManifest \/ Swap
  BY <1>2 DEF SaveManifest, Swap, SaveSucceeds, Threads
<1>3. CASE SaveFails \/ SwapFails
  BY <1>3 DEF SaveFails, SwapFails, SaveReturnsFalse, Threads
<1>4. CASE UNCHANGED <<saveVars, clean>>
  BY <1>4 DEF saveVars
<1> QED
  BY <1>1, <1>2, <1>3, <1>4, SavingStep DEF Next, Inserter, Compactor, Terminated, vars, Flush,
     FlushFails, LoadManifest, ScheduleCheck, FinalScheduleCheck, WaitIdle, Destroy,
     Join, WakeUp, Stopped, LoadSnapshot, ReadSources, CompactLevelFails, NothingToDo,
     WriteMerged, WriteMergedFails, Reload, DeleteSource, FinishCompaction

\* Every step preserves the types.
LEMMA StepTypes == TypeOK /\ FlushCounted /\ [Next]_vars => TypeOK' /\ FlushCounted'
<1> SUFFICES ASSUME TypeOK, FlushCounted, [Next]_vars
             PROVE  TypeOK' /\ FlushCounted'
  OBVIOUS
<1> USE DEF TypeOK, FlushCounted, inserterVars, compactorVars
<1>1. ASSUME NEW p \in Paths, NEW c \in SUBSET Nat
      PROVE  /\ DOMAIN FilesWith(p, c) \subseteq Paths
             /\ \A q \in DOMAIN FilesWith(p, c) : FilesWith(p, c)[q] \subseteq Nat
  BY DEF FilesWith
<1>2. ASSUME NEW k \in Nat PROVE InsertPath(k) \in Paths
  BY DEF InsertPath, Paths, Kinds
<1>3. NewPath \in Paths
  BY DEF NewPath, MergedPath, Paths, Kinds
<1>0. /\ stream' \in [Threads -> {"none", "tmp", "manifest", "gone"}]
      /\ spc' \in [Threads -> {"remove", "open", "write", "rename", "giveup"}]
      /\ clean' \in BOOLEAN /\ NoFile \subseteq SegmentMeta
  BY SaveTypes DEF NoFile, Line, SegmentMeta, Paths, Kinds
<1> USE <1>0
<1>4. CASE Flush
  <2>1. /\ InsertPath(batch_index) \in Paths /\ {next_id} \in SUBSET Nat
        /\ files' = FilesWith(InsertPath(batch_index), {next_id})
    BY <1>2, <1>4 DEF Flush
  <2>2. /\ DOMAIN files' \subseteq Paths
        /\ \A q \in DOMAIN files' : files'[q] \subseteq Nat
    BY <1>1, <2>1
  <2>3. FlushCounted'
    BY <1>4 DEF Flush
  <2>4. UNCHANGED <<manifest, tmp, out_manifest, snapshot, latest, sources, cpc,
                    compaction_count_, level, levels, merged, pending_, stop_,
                    clean, acked>>
    BY <1>4 DEF Flush, saveVars
  <2>5. wpc' = "load" /\ next_id' \in Nat /\ batch_index' \in Nat
    BY <1>4 DEF Flush
  <2> QED
    BY <2>2, <2>3, <2>4, <2>5
<1> USE DEF saveVars
<1>5. CASE FlushFails
  BY <1>1, <1>2, <1>5 DEF FlushFails
<1>6. CASE LoadManifest
  BY <1>6, LoadedLines DEF LoadManifest
<1>7. CASE SaveManifest
  <2>1. LastFlushed.id_offset \in Nat
    BY <1>7 DEF SaveManifest, LastFlushed, Line
  <2>2. manifest' \subseteq SegmentMeta /\ tmp' \subseteq SegmentMeta
    BY <1>7, SucceedStep DEF SaveManifest, Threads
  <2> QED
    BY <1>7, <2>1, <2>2 DEF SaveManifest
<1>17. CASE SaveFails
  BY <1>17, FailStep DEF SaveFails, Threads
<1>18. CASE Saving
  BY <1>18, SavingStep, SavedLineSteps
<1>8. CASE ScheduleCheck \/ FinalScheduleCheck \/ WaitIdle
           \/ Destroy \/ Join
  BY <1>8 DEF ScheduleCheck, FinalScheduleCheck, WaitIdle, Destroy, Join
<1>9. CASE WakeUp \/ Stopped \/ CompactLevelFails \/ NothingToDo
           \/ Reload \/ SwapFails \/ FinishCompaction
  <2>1. CASE WakeUp
    BY <2>1 DEF WakeUp
  <2>2. CASE Stopped
    BY <2>2 DEF Stopped
  <2>3. CASE CompactLevelFails
    BY <2>3 DEF CompactLevelFails
  <2>4. CASE NothingToDo
    BY <2>4 DEF NothingToDo
  <2>5. CASE Reload
    BY <2>5, LoadedLines DEF Reload
  <2>6. CASE SwapFails
    BY <2>6, FailStep DEF SwapFails, Threads
  <2>7. CASE FinishCompaction
    BY <2>7 DEF FinishCompaction
  <2> QED
    BY <1>9, <2>1, <2>2, <2>3, <2>4, <2>5, <2>6, <2>7
<1>10. CASE LoadSnapshot
  <2>1. snapshot' \subseteq SegmentMeta
    BY <1>10, LoadedLines DEF LoadSnapshot
  <2>2. levels' \subseteq Nat
    BY <1>10, <2>1 DEF LoadSnapshot, OverfullLevels, Level, SegmentMeta, Paths
  <2> QED
    BY <1>10, <2>1, <2>2 DEF LoadSnapshot
<1>11. CASE ReadSources
  <2>1. PICK l \in levels :
          /\ level' = l
          /\ sources' = {m \in snapshot : Level(m) = l}
          /\ \A m \in sources' : Readable(m.path)
          /\ merged' = UNION {files[m.path] : m \in sources'}
          /\ levels' = levels \ {l}
    BY <1>11 DEF ReadSources
  <2>2. merged' \subseteq Nat
    BY <2>1 DEF Readable
  <2> QED
    BY <1>11, <2>1, <2>2 DEF ReadSources
<1>12. CASE WriteMerged
  BY <1>1, <1>3, <1>12 DEF WriteMerged
<1>13. CASE WriteMergedFails
  BY <1>1, <1>3, <1>13 DEF WriteMergedFails
<1>14. CASE Swap
  BY <1>14, SucceedStep DEF Swap, Threads
<1>15. CASE DeleteSource
  BY <1>15 DEF DeleteSource, FilesWithout
<1>16. CASE UNCHANGED vars
  BY <1>16 DEF vars
<1> QED
  BY <1>4, <1>5, <1>6, <1>7, <1>8, <1>9, <1>10, <1>11, <1>12, <1>13, <1>14,
     <1>15, <1>16, <1>17, <1>18 DEF Next, Inserter, Compactor, Terminated

\* Every variable keeps its type in every behavior of the store.
THEOREM TypeCorrect == Spec => []TypeOK
BY InitTypes, StepTypes, PTL DEF Spec


-----------------------------------------------------------------------------
(***************************************************************************)
(* Settled names stay settled, held vectors stay held.                     *)
(***************************************************************************)

\* No step makes a settled name unsettled: compactions are only ever counted
\* up, and the name of the merge being finished is settled by its number.
LEMMA SettledGrows ==
  ASSUME TypeOK, [Next]_vars, NEW p \in Paths, Settled(p)
  PROVE  Settled(p)'
<1> USE DEF Settled, NewPath, MergedPath, TypeOK, Paths, inserterVars, compactorVars
<1>1. CASE FinishCompaction
  BY <1>1 DEF FinishCompaction
<1>2. CASE UNCHANGED <<cpc, level, compaction_count_>>
  BY <1>2
<1>3. CASE cpc # "delete" /\ UNCHANGED compaction_count_
  BY <1>3
<1>4. Inserter \/ Saving \/ Terminated \/ UNCHANGED vars => UNCHANGED <<cpc, level, compaction_count_>>
  BY SavingStep DEF Inserter, Terminated, vars, Flush, FlushFails, LoadManifest, SaveManifest,
         SaveFails, ScheduleCheck, FinalScheduleCheck, WaitIdle, Destroy, Join
<1>5. Compactor => \/ FinishCompaction
                   \/ UNCHANGED <<cpc, level, compaction_count_>>
                   \/ cpc # "delete" /\ UNCHANGED compaction_count_
  BY DEF Compactor, WakeUp, Stopped, LoadSnapshot, ReadSources, CompactLevelFails,
         NothingToDo, WriteMerged, WriteMergedFails, Reload, Swap, SwapFails,
         DeleteSource
<1> QED
  BY <1>1, <1>2, <1>3, <1>4, <1>5 DEF Next

\* The only files ever written are the fresh name of a flush and the unsettled
\* name of a merge; the only file ever deleted is a source.
LEMMA FileSteps ==
  ASSUME IInv, [Next]_vars
  PROVE  \/ UNCHANGED files
         \/ /\ wpc = "fill" /\ UNCHANGED <<cpc, level, compaction_count_, sources>>
            /\ InsertPath(batch_index) \notin DOMAIN files
            /\ \E c \in {{}, {next_id}} : files' = FilesWith(InsertPath(batch_index), c)
         \/ /\ cpc = "write" /\ ~Settled(NewPath)
            /\ \E c \in {{}, merged} : files' = FilesWith(NewPath, c)
         \/ /\ cpc = "delete" /\ UNCHANGED <<cpc, level, compaction_count_>>
            /\ \E m \in sources : files' = FilesWithout(m.path)
<1> USE DEF IInv, inserterVars, compactorVars
<1>1. CASE Flush \/ FlushFails
  <2>1. InsertPath(batch_index) \notin DOMAIN files
    BY <1>1 DEF Flush, FlushFails, InsertsNumbered, InsertPath, TypeOK
  <2> QED
    BY <1>1, <2>1 DEF Flush, FlushFails
<1>2. CASE WriteMerged \/ WriteMergedFails
  <2>1. cpc = "write" => ~Settled(NewPath)
    BY DEF Settled, NewPath, MergedPath, TypeOK
  <2> QED
    BY <1>2, <2>1 DEF WriteMerged, WriteMergedFails
<1>3. CASE DeleteSource
  BY <1>3 DEF DeleteSource
<1>4. \/ Flush \/ FlushFails \/ WriteMerged \/ WriteMergedFails \/ DeleteSource
      \/ UNCHANGED files
  BY SavingStep DEF Next, Inserter, Compactor, Terminated, vars, LoadManifest, SaveManifest,
         SaveFails, ScheduleCheck, FinalScheduleCheck, WaitIdle, Destroy, Join,
         WakeUp, Stopped, LoadSnapshot, ReadSources, CompactLevelFails,
         NothingToDo, Reload, Swap, SwapFails, FinishCompaction
<1> QED
  BY <1>1, <1>2, <1>3, <1>4

\* A held vector stays held, whatever either thread does.
LEMMA HeldGrows ==
  ASSUME IInv, [Next]_vars, NEW v, Held(v)
  PROVE  Held(v)'
<1>1. PICK p \in DOMAIN files : Settled(p) /\ v \in files[p]
  BY DEF Held
<1>2. p \in Paths /\ Settled(p)'
  BY <1>1, SettledGrows DEF IInv, TypeOK
<1>3. CASE UNCHANGED files
  BY <1>1, <1>2, <1>3 DEF Held
<1>4. ASSUME InsertPath(batch_index) \notin DOMAIN files, NEW c,
             files' = FilesWith(InsertPath(batch_index), c)
      PROVE  Held(v)'
  <2>1. p # InsertPath(batch_index)
    BY <1>4
  <2>2. p \in DOMAIN files' /\ files'[p] = files[p]
    BY <1>4, <2>1 DEF FilesWith
  <2> QED
    BY <1>1, <1>2, <2>2 DEF Held
<1>5. ASSUME ~Settled(NewPath), NEW c, files' = FilesWith(NewPath, c)
      PROVE  Held(v)'
  <2>1. p # NewPath
    BY <1>1, <1>5
  <2>2. p \in DOMAIN files' /\ files'[p] = files[p]
    BY <1>5, <2>1 DEF FilesWith
  <2> QED
    BY <1>1, <1>2, <2>2 DEF Held
<1>6. ASSUME cpc = "delete", UNCHANGED <<cpc, level, compaction_count_>>,
             NEW m \in sources, files' = FilesWithout(m.path)
      PROVE  Held(v)'
  <2>1. /\ NewPath \in DOMAIN files /\ files[NewPath] = merged
        /\ Level(m) = level /\ (m.path \in DOMAIN files => files[m.path] \subseteq merged)
    BY <1>6 DEF IInv, MergedHeld, SourcesCopied, Merging
  <2>2. m.path # NewPath
    BY <2>1 DEF Level, NewPath, MergedPath, IInv, TypeOK
  <2>3. Settled(NewPath)'
    BY <1>6 DEF Settled, NewPath
  <2>4. NewPath' = NewPath
    BY <1>6 DEF NewPath
  <2>5. CASE p = m.path
    BY <1>1, <1>6, <2>1, <2>2, <2>3, <2>4, <2>5 DEF Held, FilesWithout
  <2>6. CASE p # m.path
    BY <1>1, <1>2, <1>6, <2>6 DEF Held, FilesWithout
  <2> QED
    BY <2>5, <2>6
<1> QED
  BY <1>3, <1>4, <1>5, <1>6, FileSteps


-----------------------------------------------------------------------------
(***************************************************************************)
(* The invariant is inductive, one conjunct at a time.                     *)
(***************************************************************************)

\* The counter of flushes never goes back.
LEMMA BatchIndexGrows ==
  ASSUME TypeOK, [Next]_vars PROVE batch_index <= batch_index'
<1> USE DEF TypeOK, inserterVars, compactorVars
<1>1. CASE Inserter \/ Saving \/ Terminated \/ UNCHANGED vars
  BY <1>1, SavingStep DEF Inserter, Terminated, vars, Flush, FlushFails, LoadManifest,
     SaveManifest, SaveFails, ScheduleCheck, FinalScheduleCheck, WaitIdle, Destroy, Join
<1>2. CASE Compactor
  BY <1>2 DEF Compactor, WakeUp, Stopped, LoadSnapshot, ReadSources,
     CompactLevelFails, NothingToDo, WriteMerged, WriteMergedFails, Reload, Swap,
     SwapFails, DeleteSource, FinishCompaction
<1> QED
  BY <1>1, <1>2 DEF Next

\* A line enters a copy of the manifest from another copy, or as the segment just
\* flushed, which has been counted, or as a merged segment.
LEMMA LinesNumberedStep == ASSUME IInv, [Next]_vars PROVE LinesNumbered'
<1> SUFFICES ASSUME NEW m \in Lines', m.path.kind = "insert"
             PROVE  m.path.num < batch_index'
  BY DEF LinesNumbered
<1> USE DEF IInv, Lines, inserterVars, compactorVars, saveVars
<1>1. batch_index \in Nat /\ batch_index <= batch_index'
  BY BatchIndexGrows DEF TypeOK
<1>2. \A n \in Lines : n.path.kind = "insert" => n.path.num \in Nat /\ n.path.num < batch_index
  BY DEF LinesNumbered, TypeOK, SegmentMeta, Paths
<1>3. LastFlushed.path.num < batch_index /\ LastFlushed.path.num \in Int
  BY <1>1 DEF LastFlushed, Line, InsertPath
<1>4. \A n \in NoFile : n.path.kind = "none"
  BY DEF NoFile, Line
<1>5. CASE m \in Lines
  BY <1>1, <1>2, <1>5, StepTypes DEF TypeOK
<1>6. CASE m \notin Lines
  <2>1. CASE Saving
    <3>1. \E n \in Lines \cup {LastFlushed} : n.path = m.path
      BY <1>6, <2>1, SavingStep, SavedLineSteps
    <3> QED
      BY <1>1, <1>2, <1>3, <2>1, <3>1, SavingStep
  <2>2. CASE SaveManifest \/ Swap
    BY <1>4, <1>6, <2>2, SucceedStep DEF SaveManifest, Swap, Threads
  <2>3. CASE SaveFails \/ SwapFails
    BY <1>4, <1>6, <2>3, FailStep DEF SaveFails, SwapFails, Threads
  <2>4. CASE ReadSources
    BY <1>6, <2>4 DEF ReadSources
  <2> QED
    BY <1>6, <2>1, <2>2, <2>3, <2>4, LoadedLines, SavingStep DEF Next, Inserter, Compactor, Terminated,
       vars, Flush, FlushFails, LoadManifest, ScheduleCheck, FinalScheduleCheck, WaitIdle,
       Destroy, Join, WakeUp, Stopped, LoadSnapshot, CompactLevelFails, NothingToDo,
       WriteMerged, WriteMergedFails, Reload, DeleteSource, FinishCompaction
<1> QED
  BY <1>5, <1>6

\* The only insert file that can appear uncounted belongs to a flush that fails,
\* and then the process flushes no more.
LEMMA InsertsNumberedStep == ASSUME IInv, [Next]_vars PROVE InsertsNumbered'
<1> USE DEF IInv, inserterVars, compactorVars, InsertsNumbered
<1>1. NewPath.kind = "merged"
  BY DEF NewPath, MergedPath
<1>2. CASE Flush
  BY <1>2 DEF Flush, FilesWith, InsertPath, TypeOK, Paths
<1>3. CASE Inserter /\ ~Flush
  BY <1>3 DEF Inserter, FlushFails, LoadManifest, SaveManifest, SaveFails,
     ScheduleCheck, FinalScheduleCheck, WaitIdle, Destroy, Join
<1>4. CASE WriteMerged \/ WriteMergedFails
  BY <1>1, <1>4 DEF WriteMerged, WriteMergedFails, FilesWith
<1>5. CASE DeleteSource
  BY <1>5 DEF DeleteSource, FilesWithout
<1>6. CASE \/ Compactor /\ ~WriteMerged /\ ~WriteMergedFails /\ ~DeleteSource
           \/ Terminated \/ UNCHANGED vars
  BY <1>6, SavingStep DEF Compactor, Terminated, vars, WakeUp, Stopped, LoadSnapshot,
     ReadSources, CompactLevelFails, NothingToDo, Reload, Swap, SwapFails,
     FinishCompaction
<1>7. CASE Saving
  BY <1>7, SavingStep
<1> QED
  BY <1>2, <1>3, <1>4, <1>5, <1>6, <1>7 DEF Next

\* Sources are only ever dropped from the set, and their files do not change
\* while the merge runs, because their names are settled.
LEMMA SourcesCopiedStep == ASSUME IInv, [Next]_vars PROVE SourcesCopied'
<1> USE DEF IInv, inserterVars, compactorVars, Level
<1>1. CASE ReadSources
  <2>1. PICK l \in levels :
          /\ level' = l
          /\ sources' = {m \in snapshot : Level(m) = l}
          /\ \A m \in sources' : Readable(m.path)
          /\ merged' = UNION {files[m.path] : m \in sources'}
    BY <1>1 DEF ReadSources
  <2> QED
    BY <1>1, <2>1 DEF ReadSources, SourcesCopied
<1>2. CASE cpc \in Merging
  <2>1. CASE UNCHANGED files
    <3>1. sources' \subseteq sources /\ UNCHANGED <<level, merged>>
      BY <1>2, SavingStep DEF Next, Inserter, Compactor, Terminated, vars, Merging, Flush,
         FlushFails, LoadManifest, SaveManifest, SaveFails, ScheduleCheck,
         FinalScheduleCheck, WaitIdle, Destroy, Join, WakeUp, Stopped, LoadSnapshot,
         ReadSources, CompactLevelFails, NothingToDo, WriteMerged, WriteMergedFails,
         Reload, Swap, SwapFails, DeleteSource, FinishCompaction
    <3> QED
      BY <1>2, <2>1, <3>1 DEF SourcesCopied
  <2>2. ASSUME NEW p, NEW c, files' = FilesWith(p, c),
               UNCHANGED <<level, sources, merged>>,
               \A m \in sources : m.path # p
        PROVE  SourcesCopied'
    BY <1>2, <2>2 DEF SourcesCopied, FilesWith
  <2>3. CASE Flush \/ FlushFails
    <3>1. \A m \in sources : m.path # InsertPath(batch_index)
      BY DEF LinesNumbered, Lines, InsertPath, TypeOK
    <3>2. UNCHANGED files \/ \E c : files' = FilesWith(InsertPath(batch_index), c)
      BY <2>3 DEF Flush, FlushFails
    <3>3. UNCHANGED <<level, sources, merged>>
      BY <2>3 DEF Flush, FlushFails
    <3> QED
      BY <2>1, <2>2, <3>1, <3>2, <3>3
  <2>4. CASE WriteMerged \/ WriteMergedFails
    <3>1. \A m \in sources : m.path # NewPath
      BY <1>2 DEF SourcesCopied, NewPath, MergedPath, TypeOK
    <3>2. UNCHANGED files \/ \E c : files' = FilesWith(NewPath, c)
      BY <2>4 DEF WriteMerged, WriteMergedFails
    <3>3. UNCHANGED <<level, sources, merged>>
      BY <2>4 DEF WriteMerged, WriteMergedFails
    <3> QED
      BY <2>1, <2>2, <3>1, <3>2, <3>3
  <2>5. CASE DeleteSource
    BY <1>2, <2>5 DEF DeleteSource, FilesWithout, SourcesCopied
  <2>6. Flush \/ FlushFails \/ WriteMerged \/ WriteMergedFails \/ DeleteSource
        \/ UNCHANGED files
    BY SavingStep DEF Next, Inserter, Compactor, Terminated, vars, LoadManifest, SaveManifest,
       SaveFails, ScheduleCheck, FinalScheduleCheck, WaitIdle, Destroy, Join,
       WakeUp, Stopped, LoadSnapshot, ReadSources, CompactLevelFails,
       NothingToDo, Reload, Swap, SwapFails, FinishCompaction
  <2> QED
    BY <2>1, <2>3, <2>4, <2>5, <2>6
<1>3. CASE cpc \notin Merging /\ ~ReadSources
  <2>1. cpc' \notin Merging
    BY <1>3, SavingStep DEF Next, Inserter, Compactor, Terminated, vars, Merging, Flush,
       FlushFails, LoadManifest, SaveManifest, SaveFails, ScheduleCheck,
       FinalScheduleCheck, WaitIdle, Destroy, Join, WakeUp, Stopped, LoadSnapshot,
       CompactLevelFails, NothingToDo, WriteMerged, WriteMergedFails,
       Reload, Swap, SwapFails, DeleteSource, FinishCompaction
  <2> QED
    BY <2>1 DEF SourcesCopied
<1> QED
  BY <1>1, <1>2, <1>3

\* Until the merged file is written, the vectors it will hold stay in settled
\* files; from then on nothing writes its name until the compaction is counted.
LEMMA MergedHeldStep == ASSUME IInv, [Next]_vars PROVE MergedHeld'
<1> USE DEF IInv, inserterVars, compactorVars
<1>1. CASE ReadSources
  <2>1. PICK l \in levels :
          /\ sources' = {m \in snapshot : Level(m) = l}
          /\ \A m \in sources' : Readable(m.path)
          /\ merged' = UNION {files[m.path] : m \in sources'}
    BY <1>1 DEF ReadSources
  <2>2. \A v \in merged' : Held(v)
    BY <2>1 DEF Readable, AllHeld
  <2> QED
    BY <1>1, <2>2, HeldGrows DEF MergedHeld, ReadSources
<1>2. CASE WriteMerged
  <2>1. /\ files' = FilesWith(NewPath, merged) /\ cpc' = "reload"
        /\ UNCHANGED <<level, compaction_count_, merged>>
    BY <1>2 DEF WriteMerged
  <2>2. NewPath' = NewPath
    BY <2>1 DEF NewPath
  <2> QED
    BY <2>1, <2>2 DEF MergedHeld, FilesWith
<1>3. CASE Reload \/ Swap
  <2>1. /\ cpc' \in {"pick", "swap", "delete"} /\ cpc \in {"reload", "swap"}
        /\ UNCHANGED <<files, level, compaction_count_, merged>>
    BY <1>3 DEF Reload, Swap
  <2>2. NewPath' = NewPath
    BY <2>1 DEF NewPath
  <2> QED
    BY <2>1, <2>2 DEF MergedHeld
<1>4. CASE DeleteSource
  <2>1. /\ cpc' = "delete" /\ cpc = "delete"
        /\ UNCHANGED <<level, compaction_count_, merged>>
    BY <1>4 DEF DeleteSource
  <2>2. NewPath' = NewPath
    BY <2>1 DEF NewPath
  <2>3. \A m \in sources : m.path # NewPath
    BY <2>1 DEF SourcesCopied, Merging, NewPath, MergedPath, Level, TypeOK
  <2>4. NewPath \in DOMAIN files' /\ files'[NewPath] = files[NewPath]
    BY <1>4, <2>1, <2>3 DEF DeleteSource, FilesWithout, MergedHeld
  <2> QED
    BY <2>1, <2>2, <2>4 DEF MergedHeld
<1>5. CASE Inserter \/ Saving \/ Terminated \/ UNCHANGED vars
  <2>1. UNCHANGED <<cpc, level, compaction_count_, merged>>
    BY <1>5, SavingStep DEF Inserter, Terminated, vars, Flush, FlushFails, LoadManifest,
       SaveManifest, SaveFails, ScheduleCheck, FinalScheduleCheck, WaitIdle,
       Destroy, Join
  <2>2. NewPath' = NewPath
    BY <2>1 DEF NewPath
  <2>3. UNCHANGED files \/ \E c : files' = FilesWith(InsertPath(batch_index), c)
    BY <1>5, SavingStep DEF Inserter, Terminated, vars, Flush, FlushFails, LoadManifest,
       SaveManifest, SaveFails, ScheduleCheck, FinalScheduleCheck, WaitIdle,
       Destroy, Join
  <2>4. NewPath # InsertPath(batch_index)
    BY DEF NewPath, MergedPath, InsertPath
  <2>5. NewPath \in DOMAIN files =>
          NewPath \in DOMAIN files' /\ files'[NewPath] = files[NewPath]
    BY <2>3, <2>4 DEF FilesWith
  <2> QED
    BY <2>1, <2>2, <2>5, HeldGrows DEF MergedHeld
<1>6. CASE \/ WakeUp \/ Stopped \/ LoadSnapshot \/ CompactLevelFails \/ NothingToDo
           \/ WriteMergedFails \/ SwapFails \/ FinishCompaction
  <2>1. cpc' \notin Merging
    BY <1>6 DEF Merging, WakeUp, Stopped, LoadSnapshot, CompactLevelFails,
       NothingToDo, WriteMergedFails, SwapFails, FinishCompaction
  <2> QED
    BY <2>1 DEF MergedHeld, Merging
<1> QED
  BY <1>1, <1>2, <1>3, <1>4, <1>5, <1>6 DEF Next, Compactor


\* Whatever a step writes is held by a settled file afterwards: a flush writes a
\* settled name, and a merge writes vectors that settled files hold already.
LEMMA AllHeldStep == ASSUME IInv, [Next]_vars PROVE AllHeld'
<1> USE DEF IInv, inserterVars, compactorVars
<1>1. SUFFICES ASSUME NEW p \in DOMAIN files', NEW v \in files'[p]
               PROVE  Held(v) \/ Held(v)'
  BY HeldGrows DEF AllHeld
<1>2. CASE p \in DOMAIN files /\ v \in files[p]
  BY <1>2 DEF AllHeld
<1>3. CASE cpc = "write" /\ v \in merged
  BY <1>3 DEF MergedHeld
<1>4. CASE Flush /\ p = InsertPath(batch_index)
  BY <1>4 DEF Held, Settled, InsertPath
<1>5. ASSUME NEW q, NEW c, files' = FilesWith(q, c)
      PROVE  (p \in DOMAIN files /\ v \in files[p]) \/ (p = q /\ v \in c)
  BY <1>5 DEF FilesWith
<1>6. CASE Flush
  BY <1>2, <1>4, <1>5, <1>6 DEF Flush
<1>7. CASE FlushFails
  BY <1>2, <1>5, <1>7 DEF FlushFails
<1>8. CASE WriteMerged \/ WriteMergedFails
  BY <1>2, <1>3, <1>5, <1>8 DEF WriteMerged, WriteMergedFails
<1>9. CASE DeleteSource
  BY <1>2, <1>9 DEF DeleteSource, FilesWithout
<1>10. Flush \/ FlushFails \/ WriteMerged \/ WriteMergedFails \/ DeleteSource
       \/ UNCHANGED files
  BY SavingStep DEF Next, Inserter, Compactor, Terminated, vars, LoadManifest, SaveManifest,
     SaveFails, ScheduleCheck, FinalScheduleCheck, WaitIdle, Destroy, Join,
     WakeUp, Stopped, LoadSnapshot, ReadSources, CompactLevelFails,
     NothingToDo, Reload, Swap, SwapFails, FinishCompaction
<1> QED
  BY <1>2, <1>6, <1>7, <1>8, <1>9, <1>10

\* The id of a flush becomes held in the step that gives it out, and a vector is
\* acknowledged only after that.
LEMMA FlushedHeldStep == ASSUME IInv, [Next]_vars PROVE FlushedHeld'
<1> USE DEF IInv, FlushedHeld, Committed, BaseVectors, TypeOK, inserterVars, compactorVars
<1>1. \A v : Held(v) => Held(v)'
  BY HeldGrows
<1>2. CASE Flush
  <2>1. \A v : v = next_id => Held(v)'
    <3>1. InsertPath(batch_index) \in DOMAIN files'
          /\ files'[InsertPath(batch_index)] = {next_id}
      BY <1>2 DEF Flush, FilesWith
    <3> QED
      BY <3>1 DEF Held, Settled, InsertPath
  <2>2. next_id' = next_id + 1 /\ acked' = acked
    BY <1>2 DEF Flush
  <2>3. next_id \in Nat /\ next_id' - 1 = next_id
    BY <2>2
  <2>4. ASSUME NEW v \in 0..next_id PROVE Held(v)'
    <3>1. CASE v = next_id
      BY <2>1, <3>1
    <3>2. CASE v \in 0..next_id - 1
      BY <1>1, <3>2
    <3> QED
      BY <2>3, <3>1, <3>2
  <2>5. acked' \cup BaseVectors \subseteq 0..next_id
    BY <2>2, <2>3
  <2> QED
    BY <2>3, <2>4, <2>5
<1>3. CASE SaveManifest
  <2>1. next_id' = next_id /\ acked' = acked \cup {next_id - 1} /\ next_id > 0
    BY <1>3 DEF SaveManifest, LastFlushed, Line, FlushCounted
  <2>2. \A v \in 0..next_id' - 1 : Held(v)'
    BY <1>1, <2>1
  <2>3. acked' \subseteq 0..next_id' - 1
    BY <2>1
  <2>4. BaseVectors \subseteq 0..next_id' - 1
    BY <2>1
  <2> QED
    BY <2>2, <2>3, <2>4
<1>4. CASE UNCHANGED <<next_id, acked>>
  BY <1>1, <1>4
<1>5. Flush \/ SaveManifest \/ UNCHANGED <<next_id, acked>>
  BY SavingStep DEF Next, Inserter, Compactor, Terminated, vars, FlushFails, LoadManifest,
     SaveFails, ScheduleCheck, FinalScheduleCheck, WaitIdle, Destroy, Join,
     WakeUp, Stopped, LoadSnapshot, ReadSources, CompactLevelFails, NothingToDo,
     WriteMerged, WriteMergedFails, Reload, Swap, SwapFails, DeleteSource,
     FinishCompaction
<1> QED
  BY <1>2, <1>3, <1>4, <1>5

\* The invariant holds initially: only the original segments exist, and they
\* are settled.
LEMMA InitInv == Init => IInv
<1> SUFFICES ASSUME Init PROVE IInv
  OBVIOUS
<1> USE DEF Init
<1>1. TypeOK /\ FlushCounted
  BY InitTypes
<1>2. LinesNumbered
  BY DEF LinesNumbered, Lines, Line, NoFile, BasePath, Settled
<1>3. InsertsNumbered
  BY DEF InsertsNumbered, BasePath
<1>4. SourcesCopied /\ MergedHeld
  BY DEF SourcesCopied, MergedHeld, Merging
<1>5. AllHeld
  BY DEF AllHeld, Held, Settled, BasePath
<1>6. \A v \in 0..NumBase - 1 : BasePath(v) \in DOMAIN files /\ files[BasePath(v)] = {v}
  BY DEF BasePath
<1>7. FlushedHeld
  BY <1>6 DEF FlushedHeld, Held, Settled, BasePath, Committed, BaseVectors
<1> QED
  BY <1>1, <1>2, <1>3, <1>4, <1>5, <1>7 DEF IInv

\* The invariant is inductive.
LEMMA StepInv == IInv /\ [Next]_vars => IInv'
BY StepTypes, LinesNumberedStep, InsertsNumberedStep, SourcesCopiedStep,
   MergedHeldStep, AllHeldStep, FlushedHeldStep DEF IInv

-----------------------------------------------------------------------------
(***************************************************************************)
(* The theorems.                                                           *)
(***************************************************************************)

\* No vector whose commit was reported is ever gone from the disk.
THEOREM NoLoss == Spec => []NoVectorLost
<1>1. IInv => NoVectorLost
  BY DEF IInv, FlushedHeld, NoVectorLost, Held
<1> QED
  BY <1>1, InitInv, StepInv, PTL DEF Spec

\* The files of the store, together, are an append-only set of vectors: the
\* store with its merges, failed writes and crossing Saves implements VectorLog.
THEOREM Refinement == Spec => ImplementsVectorLog
<1> DEFINE disk == UNION {files[p] : p \in DOMAIN files}
<1>1. Init => Log!Init
  <2> SUFFICES ASSUME Init PROVE disk = 0..NumBase - 1 /\ next_id = NumBase
    BY DEF Log!Init
  <2>1. \A v \in 0..NumBase - 1 : BasePath(v) \in DOMAIN files /\ files[BasePath(v)] = {v}
    BY DEF Init, BasePath
  <2>2. \A p \in DOMAIN files : \E v \in 0..NumBase - 1 : files[p] = {v}
    BY DEF Init, BasePath
  <2>3. \A v \in disk : v \in 0..NumBase - 1
    BY <2>2
  <2>4. \A v \in 0..NumBase - 1 : v \in disk
    BY <2>1
  <2>5. next_id = NumBase
    BY DEF Init
  <2> QED
    BY <2>3, <2>4, <2>5
<1>2. IInv /\ IInv' /\ [Next]_vars => [Log!Append]_(Log!vars)
  <2> SUFFICES ASSUME IInv, IInv', [Next]_vars
               PROVE  \/ disk' = disk \cup {next_id} /\ next_id' = next_id + 1
                      \/ disk' = disk /\ next_id' = next_id
    BY DEF Log!Append, Log!vars
  <2> USE DEF inserterVars, compactorVars
  <2>1. \A v : v \in disk <=> Held(v)
    BY DEF IInv, AllHeld, Held
  <2>2. \A v : v \in disk' <=> Held(v)'
    BY DEF IInv, AllHeld, Held
  <2>3. disk \subseteq disk'
    BY <2>1, <2>2, HeldGrows
  <2>4. CASE Flush
    <3>1. files' = FilesWith(InsertPath(batch_index), {next_id})
          /\ next_id' = next_id + 1
      BY <2>4 DEF Flush
    <3>2. \A v : v = next_id => v \in disk'
      <4>1. InsertPath(batch_index) \in DOMAIN files'
            /\ files'[InsertPath(batch_index)] = {next_id}
        BY <3>1 DEF FilesWith
      <4> QED
        BY <4>1
    <3>3. \A v \in disk' : v \in disk \/ v = next_id
      BY <3>1 DEF FilesWith
    <3> QED
      BY <2>3, <3>1, <3>2, <3>3
  <2>5. CASE ~Flush
    <3>1. disk' \subseteq disk
      <4> SUFFICES ASSUME NEW p \in DOMAIN files', NEW v \in files'[p]
                   PROVE  v \in disk
        OBVIOUS
      <4>1. CASE FlushFails
        BY <4>1 DEF FlushFails, FilesWith
      <4>2. CASE WriteMerged \/ WriteMergedFails
        <5>1. cpc = "write" /\ (v \in merged \/ (p \in DOMAIN files /\ v \in files[p]))
          BY <4>2 DEF WriteMerged, WriteMergedFails, FilesWith
        <5> QED
          BY <5>1, <2>1 DEF IInv, MergedHeld
      <4>3. CASE DeleteSource
        BY <4>3 DEF DeleteSource, FilesWithout
      <4>4. FlushFails \/ WriteMerged \/ WriteMergedFails \/ DeleteSource
            \/ UNCHANGED files
        BY <2>5, SavingStep DEF Next, Inserter, Compactor, Terminated, vars, LoadManifest,
           SaveManifest, SaveFails, ScheduleCheck, FinalScheduleCheck, WaitIdle,
           Destroy, Join, WakeUp, Stopped, LoadSnapshot, ReadSources,
           CompactLevelFails, NothingToDo, Reload, Swap, SwapFails, FinishCompaction
      <4> QED
        BY <4>1, <4>2, <4>3, <4>4
    <3>2. next_id' = next_id
      BY <2>5, SavingStep DEF Next, Inserter, Compactor, Terminated, vars, FlushFails,
         LoadManifest, SaveManifest, SaveFails, ScheduleCheck, FinalScheduleCheck,
         WaitIdle, Destroy, Join, WakeUp, Stopped, LoadSnapshot, ReadSources,
         CompactLevelFails, NothingToDo, WriteMerged, WriteMergedFails, Reload,
         Swap, SwapFails, DeleteSource, FinishCompaction
    <3> QED
      BY <2>3, <3>1, <3>2
  <2> QED
    BY <2>4, <2>5
<1> QED
  BY <1>1, <1>2, InitInv, StepInv, PTL DEF Spec, ImplementsVectorLog, Log!Spec


-----------------------------------------------------------------------------
(***************************************************************************)
(* No dangling line.  While the history is clean, the manifest loses the   *)
(* sources of a merge before the disk does.                                *)
(***************************************************************************)

\* The manifest never names a file that may still be rewritten.
ListedSettled == clean => \A m \in manifest : Settled(m.path)

\* The segment being committed is complete and not yet listed.
CommittingReadable ==
  clean /\ wpc \in {"load", "save"} =>
    /\ Readable(LastFlushed.path)
    /\ \A m \in manifest \cup snapshot \cup sources : m.path # LastFlushed.path

\* Every level to be tried has a line, so a merge has at least one vector.
LevelsListed == \A l \in levels : \E m \in snapshot : Level(m) = l
MergedNonempty == cpc \in Merging => merged # {}

\* The sources being deleted are no longer listed.
SourcesUnlisted ==
  clean /\ cpc = "delete" => \A m \in manifest, s \in sources : m.path # s.path

\* The inductive invariant behind NoDanglingLine, relative to IInv.
DInv ==
  /\ ListedSettled /\ CommittingReadable /\ LevelsListed /\ MergedNonempty /\ SourcesUnlisted
  /\ NoDanglingLine


\* A history that has become unclean stays so.
LEMMA CleanStep == ASSUME [Next]_vars, clean' PROVE clean
<1>1. CASE SaveManifest \/ Swap
  BY <1>1, SucceedStep DEF SaveManifest, Swap, Threads
<1>2. CASE SaveFails \/ SwapFails
  BY <1>2, FailStep DEF SaveFails, SwapFails, Threads
<1> QED
  BY <1>1, <1>2, SavingStep DEF Next, Inserter, Compactor, Terminated, vars, Flush,
     FlushFails, LoadManifest, ScheduleCheck, FinalScheduleCheck, WaitIdle, Destroy,
     Join, WakeUp, Stopped, LoadSnapshot, ReadSources, CompactLevelFails, NothingToDo,
     WriteMerged, WriteMergedFails, Reload, DeleteSource, FinishCompaction

\* In a clean history a Save adds its line to the manifest as it is, or swaps its
\* sources in it.
LEMMA ManifestSteps ==
  ASSUME [Next]_vars, clean'
  PROVE  \/ UNCHANGED manifest /\ ~SaveManifest /\ ~Swap
         \/ SaveManifest /\ ~Swap /\ manifest' = manifest \cup {LastFlushed}
         \/ /\ Swap /\ ~SaveManifest
            /\ \E front \in sources :
                 /\ \A m \in sources : front.id_offset <= m.id_offset
                 /\ manifest' = Swapped(manifest, sources, Line(NewPath, front.id_offset))
<1>0. clean
  BY CleanStep
<1>1. SaveManifest => ~Swap /\ ~SwapFails
  BY DEF SaveManifest, Swap, SwapFails, inserterVars
<1>2. SaveFails \/ SwapFails => ~SaveManifest /\ ~Swap
  BY DEF SaveManifest, SaveFails, Swap, SwapFails, inserterVars
<1>3. CASE SaveManifest
  <2>1. manifest' \in UpdatedManifest("inserter")
    BY <1>3, SucceedStep DEF SaveManifest, Threads
  <2> QED
    BY <1>3, <1>1, <2>1 DEF UpdatedManifest
<1>4. CASE Swap
  <2>1. manifest' \in UpdatedManifest("worker")
    BY <1>4, SucceedStep DEF Swap, Threads
  <2>2. PICK line \in MergedLines : manifest' = Swapped(manifest, sources, line)
    BY <2>1 DEF UpdatedManifest
  <2>3. PICK front \in {s \in sources : clean => \A m \in sources : s.id_offset <= m.id_offset} :
          line = Line(NewPath, front.id_offset)
    BY <2>2 DEF MergedLines
  <2> QED
    BY <1>0, <1>4, <1>1, <2>2, <2>3
<1>5. CASE SaveFails \/ SwapFails
  BY <1>5, <1>2, FailStep DEF SaveFails, SwapFails, Threads
<1>6. CASE ~SaveManifest /\ ~Swap /\ ~SaveFails /\ ~SwapFails
  BY <1>6, SavingStep DEF Next, Inserter, Compactor, Terminated, vars, Flush, FlushFails,
     LoadManifest, ScheduleCheck, FinalScheduleCheck, WaitIdle, Destroy, Join, WakeUp,
     Stopped, LoadSnapshot, ReadSources, CompactLevelFails, NothingToDo, WriteMerged,
     WriteMergedFails, Reload, DeleteSource, FinishCompaction
<1> QED
  BY <1>3, <1>4, <1>5, <1>6

\* A file the manifest may name keeps its content as long as it is not deleted.
LEMMA ContentStays ==
  ASSUME IInv, [Next]_vars, NEW p \in Paths, Settled(p), Readable(p),
         cpc = "delete" => \A m \in sources : m.path # p
  PROVE  p \in DOMAIN files' /\ files'[p] = files[p]
<1>1. p \in DOMAIN files
  BY DEF Readable
<1>2. ASSUME NEW q, NEW c, files' = FilesWith(q, c), p # q
      PROVE  p \in DOMAIN files' /\ files'[p] = files[p]
  BY <1>1, <1>2 DEF FilesWith
<1>3. ASSUME NEW q, files' = FilesWithout(q), p # q
      PROVE  p \in DOMAIN files' /\ files'[p] = files[p]
  BY <1>1, <1>3 DEF FilesWithout
<1> QED
  BY <1>1, <1>2, <1>3, FileSteps

LEMMA ReadableStays ==
  ASSUME IInv, [Next]_vars, NEW p \in Paths, Settled(p), Readable(p),
         cpc = "delete" => \A m \in sources : m.path # p
  PROVE  Readable(p)'
BY ContentStays DEF Readable

\* A line enters the manifest with a settled path: an insert file always is, and
\* the Save that returns true settles the merged file.
LEMMA ListedSettledStep == ASSUME IInv, DInv, [Next]_vars PROVE ListedSettled'
<1> SUFFICES ASSUME clean', NEW m \in manifest' PROVE Settled(m.path)'
  BY DEF ListedSettled
<1>1. CASE m \in manifest
  <2>1. m.path \in Paths /\ Settled(m.path)
    BY <1>1, CleanStep DEF IInv, DInv, TypeOK, SegmentMeta, ListedSettled
  <2> QED
    BY <2>1, SettledGrows DEF IInv
<1>2. CASE m = LastFlushed
  BY <1>2 DEF LastFlushed, Line, InsertPath, Settled
<1>3. CASE Swap /\ m \notin manifest
  <2>1. PICK front \in sources :
          manifest' = Swapped(manifest, sources, Line(NewPath, front.id_offset))
    BY <1>3, ManifestSteps
  <2>2. m.path = NewPath
    BY <1>3, <2>1 DEF Swapped, Line
  <2>3. cpc' = "delete" /\ NewPath' = NewPath
    BY <1>3 DEF Swap, NewPath
  <2> QED
    BY <2>2, <2>3 DEF Settled
<1> QED
  BY <1>1, <1>2, <1>3, ManifestSteps

\* Between its flush and its Save a segment stays complete and unlisted.
LEMMA CommittingReadableStep == ASSUME IInv, DInv, [Next]_vars PROVE CommittingReadable'
<1> USE DEF IInv, DInv, inserterVars, compactorVars
<1> DEFINE named == manifest \cup snapshot \cup sources
<1> SUFFICES ASSUME clean', wpc' \in {"load", "save"}
             PROVE  /\ Readable(LastFlushed.path)'
                    /\ \A m \in named' : m.path # (LastFlushed.path)'
  BY DEF CommittingReadable
<1>1. clean
  BY CleanStep
<1>2. CASE Flush
  <2>1. (LastFlushed.path)' = InsertPath(batch_index)
    BY <1>2 DEF Flush, LastFlushed, Line, InsertPath, TypeOK
  <2>2. \A p : p = InsertPath(batch_index) => Readable(p)'
    BY <1>2 DEF Flush, FilesWith, Readable
  <2>3. \A m \in named' : m.path # InsertPath(batch_index)
    <3>1. named' = named
      BY <1>2 DEF Flush
    <3> QED
      BY <3>1 DEF LinesNumbered, Lines, InsertPath, TypeOK
  <2>4. \A p : p = (LastFlushed.path)' => Readable(p)'
    BY <2>1, <2>2
  <2>5. Readable(LastFlushed.path)'
    BY <2>4 DEF Readable
  <2> QED
    BY <2>1, <2>3, <2>5
<1>3. CASE ~Flush
  <2>1. wpc \in {"load", "save"} /\ UNCHANGED <<batch_index, next_id>>
    BY <1>3, SavingStep DEF Next, Inserter, Compactor, Terminated, vars, FlushFails,
       LoadManifest, SaveManifest, SaveFails, ScheduleCheck, FinalScheduleCheck,
       WaitIdle, Destroy, Join, WakeUp, Stopped, LoadSnapshot, ReadSources,
       CompactLevelFails, NothingToDo, WriteMerged, WriteMergedFails, Reload,
       Swap, SwapFails, DeleteSource, FinishCompaction
  <2>2. LastFlushed' = LastFlushed
    BY <2>1 DEF LastFlushed, Line, InsertPath
  <2>3. \A m \in named' : m \in named \/ m.path = NewPath
    <3>1. ~SaveManifest
      BY DEF SaveManifest
    <3>2. \A m \in manifest' : m \in manifest \/ m.path = NewPath
      BY <3>1, ManifestSteps DEF Swapped, Line
    <3>3. snapshot' \cup sources' \subseteq named
      BY LoadedLines, SavingStep DEF Next, Inserter, Compactor, Terminated, vars, Flush,
         FlushFails, LoadManifest, SaveManifest, SaveFails, ScheduleCheck,
         FinalScheduleCheck, WaitIdle, Destroy, Join, WakeUp, Stopped, LoadSnapshot,
         ReadSources, CompactLevelFails, NothingToDo, WriteMerged, WriteMergedFails,
         Reload, Swap, SwapFails, DeleteSource, FinishCompaction
    <3> QED
      BY <3>2, <3>3
  <2>4. \A m \in named' : m.path # LastFlushed.path
    <3>1. NewPath # LastFlushed.path
      BY DEF NewPath, MergedPath, LastFlushed, Line, InsertPath
    <3> QED
      BY <1>1, <2>1, <2>3, <3>1 DEF CommittingReadable
  <2>5. LastFlushed.path \in Paths /\ Settled(LastFlushed.path)
    BY <2>1 DEF LastFlushed, Line, InsertPath, Paths, Kinds, Settled, FlushCounted, TypeOK
  <2>6. \A m \in sources : m.path # LastFlushed.path
    BY <1>1, <2>1 DEF CommittingReadable
  <2>7. \A p : p = LastFlushed.path => Readable(p)'
    BY <1>1, <2>1, <2>5, <2>6, ReadableStays DEF CommittingReadable
  <2>8. Readable(LastFlushed.path)'
    BY <2>2, <2>7 DEF Readable
  <2> QED
    BY <2>2, <2>4, <2>8
<1> QED
  BY <1>2, <1>3

\* A merge is started only for a level that has lines, and every line read had
\* at least one vector.
LEMMA MergedNonemptyStep ==
  ASSUME IInv, DInv, [Next]_vars PROVE LevelsListed' /\ MergedNonempty'
<1> USE DEF DInv, inserterVars, compactorVars
<1>1. CASE LoadSnapshot
  BY <1>1 DEF LoadSnapshot, OverfullLevels, LevelsListed, MergedNonempty, Merging
<1>2. CASE ReadSources
  <2>1. PICK l \in levels :
          /\ sources' = {m \in snapshot : Level(m) = l}
          /\ \A m \in sources' : Readable(m.path)
          /\ merged' = UNION {files[m.path] : m \in sources'}
          /\ levels' = levels \ {l} /\ snapshot' = snapshot
    BY <1>2 DEF ReadSources
  <2>2. PICK m \in snapshot : Level(m) = l
    BY <2>1 DEF LevelsListed
  <2>3. m \in sources' /\ files[m.path] # {}
    BY <2>1, <2>2 DEF Readable
  <2>4. merged' # {}
    BY <2>1, <2>3
  <2> QED
    BY <2>1, <2>4 DEF LevelsListed, MergedNonempty
<1>3. CASE Compactor /\ ~LoadSnapshot /\ ~ReadSources
  BY <1>3 DEF Compactor, LevelsListed, MergedNonempty, Merging, WakeUp, Stopped,
     CompactLevelFails, NothingToDo, WriteMerged, WriteMergedFails, Reload, Swap,
     SwapFails, DeleteSource, FinishCompaction
<1>4. CASE Inserter \/ Saving \/ Terminated \/ UNCHANGED vars
  BY <1>4, SavingStep DEF Inserter, LevelsListed, MergedNonempty, Terminated, vars, Flush,
     FlushFails, LoadManifest, SaveManifest, SaveFails, ScheduleCheck,
     FinalScheduleCheck, WaitIdle, Destroy, Join
<1> QED
  BY <1>1, <1>2, <1>3, <1>4 DEF Next

\* A swap takes the sources out of the manifest, and nothing puts them back as
\* long as every Save replaces the manifest it has loaded.
LEMMA SourcesUnlistedStep == ASSUME IInv, DInv, [Next]_vars PROVE SourcesUnlisted'
<1> USE DEF IInv, DInv, inserterVars, compactorVars
<1> SUFFICES ASSUME clean', cpc' = "delete"
             PROVE  \A m \in manifest', s \in sources' : m.path # s.path
  BY DEF SourcesUnlisted
<1>1. clean
  BY CleanStep
<1>2. CASE Swap
  <2>1. PICK front \in sources :
          manifest' = Swapped(manifest, sources, Line(NewPath, front.id_offset))
    BY <1>2, ManifestSteps
  <2>2. \A s \in sources : s.path # NewPath
    BY <1>2 DEF Swap, SourcesCopied, Merging, Level, NewPath, MergedPath, TypeOK
  <2>3. \A m \in manifest', s \in sources : m.path # s.path
    BY <2>1, <2>2 DEF Swapped, Line
  <2> QED
    BY <1>2, <2>3 DEF Swap
<1>3. CASE SaveManifest
  <2>1. manifest' = manifest \cup {LastFlushed}
    BY <1>3, ManifestSteps
  <2>2. \A s \in sources : s.path # LastFlushed.path
    BY <1>1, <1>3 DEF SaveManifest, CommittingReadable
  <2> QED
    BY <1>1, <1>3, <2>1, <2>2 DEF SaveManifest, SourcesUnlisted
<1>4. CASE ~Swap /\ ~SaveManifest
  <2>1. manifest' = manifest
    BY <1>4, ManifestSteps
  <2>2. cpc = "delete" /\ sources' \subseteq sources
    BY <1>4, SavingStep DEF Next, Inserter, Compactor, Terminated, vars, Flush, FlushFails,
       LoadManifest, SaveFails, ScheduleCheck, FinalScheduleCheck, WaitIdle, Destroy,
       Join, WakeUp, Stopped, LoadSnapshot, ReadSources, CompactLevelFails, NothingToDo,
       WriteMerged, WriteMergedFails, Reload, SwapFails, DeleteSource, FinishCompaction
  <2> QED
    BY <1>1, <2>1, <2>2 DEF SourcesUnlisted
<1> QED
  BY <1>2, <1>3, <1>4

\* A step that deletes a file or replaces the manifest leaves no line without a
\* complete file, under the same condition.
LEMMA NoDanglingLineStep == ASSUME IInv, DInv, [Next]_vars PROVE NoDanglingLine'
<1> USE DEF IInv, DInv, inserterVars, compactorVars
<1> SUFFICES ASSUME clean', NEW m \in manifest' PROVE Readable(m.path)'
  BY DEF NoDanglingLine
<1>1. clean
  BY CleanStep
<1>2. CASE m \in manifest
  <2>1. m.path \in Paths /\ Settled(m.path) /\ Readable(m.path)
    BY <1>1, <1>2 DEF TypeOK, SegmentMeta, ListedSettled, NoDanglingLine
  <2>2. cpc = "delete" => \A s \in sources : s.path # m.path
    BY <1>1, <1>2 DEF SourcesUnlisted
  <2> QED
    BY <2>1, <2>2, ReadableStays
<1>3. CASE m \notin manifest /\ SaveManifest
  <2>1. m = LastFlushed
    BY <1>3, ManifestSteps
  <2>2. Readable(m.path) /\ files' = files
    BY <1>1, <1>3, <2>1 DEF SaveManifest, CommittingReadable
  <2> QED
    BY <2>2 DEF Readable
<1>4. CASE m \notin manifest /\ Swap
  <2>1. m.path = NewPath
    BY <1>4, ManifestSteps DEF Swapped, Line, SaveManifest, Swap
  <2>2. NewPath \in DOMAIN files /\ files[NewPath] # {} /\ files' = files
    BY <1>4 DEF Swap, MergedHeld, MergedNonempty, Merging
  <2> QED
    BY <2>1, <2>2 DEF Readable
<1> QED
  BY <1>2, <1>3, <1>4, ManifestSteps

LEMMA InitDInv == Init => DInv
<1> SUFFICES ASSUME Init PROVE DInv
  OBVIOUS
<1>1. wpc = "fill" /\ cpc = "wait" /\ levels = {}
  BY DEF Init
<1>2. CommittingReadable /\ LevelsListed /\ MergedNonempty /\ SourcesUnlisted
  BY <1>1 DEF CommittingReadable, LevelsListed, MergedNonempty, Merging, SourcesUnlisted
<1>4. ListedSettled
  BY DEF ListedSettled, Init, Line, BasePath, Settled
<1>3. ASSUME NEW m \in manifest PROVE Readable(m.path)
  <2>1. PICK i \in 0..NumBase - 1 : m = Line(BasePath(i), i)
    BY <1>3 DEF Init
  <2>2. m.path = BasePath(i)
    BY <2>1 DEF Line
  <2>3. BasePath(i) \in DOMAIN files /\ files[BasePath(i)] = {BasePath(i).num}
    BY DEF Init
  <2> QED
    BY <2>2, <2>3 DEF Readable
<1> QED
  BY <1>2, <1>3, <1>4 DEF DInv, NoDanglingLine

LEMMA StepDInv == IInv /\ DInv /\ [Next]_vars => DInv'
  BY ListedSettledStep, CommittingReadableStep, MergedNonemptyStep, SourcesUnlistedStep,
     NoDanglingLineStep DEF DInv

\* A segment that the manifest names is never written again: the segments that
\* were flushed whatever happens to the manifest, the merged ones while the
\* history is clean.
THEOREM Immutability == Spec => NamedSegmentsImmutable
<1> DEFINE Kept == \A m \in manifest :
                     (clean \/ m.path.kind # "merged") => ~Rewritten(m.path)
<1>1. IInv /\ DInv /\ [Next]_vars => [Kept]_vars
  <2> SUFFICES ASSUME IInv, DInv, [Next]_vars, NEW m \in manifest,
                      clean \/ m.path.kind # "merged", Readable(m.path),
                      m.path \in DOMAIN files'
               PROVE  files'[m.path] = files[m.path]
    BY DEF Rewritten
  <2>1. Settled(m.path) /\ m.path \in DOMAIN files
    BY DEF DInv, ListedSettled, Settled, Readable
  <2>2. ASSUME NEW p, NEW c, files' = FilesWith(p, c), m.path # p
        PROVE  files'[m.path] = files[m.path]
    BY <2>1, <2>2 DEF FilesWith
  <2>3. ASSUME NEW p, files' = FilesWithout(p)
        PROVE  files'[m.path] = files[m.path]
    BY <2>3 DEF FilesWithout
  <2> QED
    BY <2>1, <2>2, <2>3, FileSteps
<1> QED
  BY <1>1, InitInv, StepInv, InitDInv, StepDInv, PTL DEF Spec, NamedSegmentsImmutable

\* As long as the history is clean, a crash at any point leaves a manifest whose
\* every line can be opened.
THEOREM NoDangling == Spec => []NoDanglingLine
<1>1. DInv => NoDanglingLine
  BY DEF DInv
<1> QED
  BY <1>1, InitDInv, StepDInv, InitInv, StepInv, PTL DEF Spec

-----------------------------------------------------------------------------
(***************************************************************************)
(* Each vector is served once, under its id.  Under the same condition the *)
(* vectors of a line are an interval of ids that begins at its offset, and *)
(* the lines divide the committed ids among themselves.  A merge keeps     *)
(* that because its sources are neighbors: the older a line, the higher    *)
(* its level, and all lines of a level are merged at once, except those    *)
(* that are newer than every source.                                       *)
(***************************************************************************)

\* The committed ids have no gap, and end before the segment being committed.
CommittedNumbered ==
  /\ \A v \in Committed : 0..v \subseteq Committed
  /\ wpc \in {"fill", "schedule", "waitidle"} => Committed = 0..next_id - 1
  /\ wpc \in {"load", "save"} => Committed = 0..next_id - 2

\* The segment being committed holds the last id.
CommittingHolds ==
  clean /\ wpc \in {"load", "save"} =>
    LastFlushed.path \in DOMAIN files /\ files[LastFlushed.path] = {next_id - 1}

\* The vectors of a line follow its offset without a gap.
LineIsInterval(m) ==
  /\ m.id_offset \in files[m.path]
  /\ \A v \in files[m.path] : m.id_offset <= v /\ m.id_offset..v \subseteq files[m.path]

LinesDivide ==
  /\ \A m \in manifest : files[m.path] \subseteq Committed
  /\ \A v \in Committed : \E m \in manifest : v \in files[m.path]
  /\ \A m, n \in manifest : files[m.path] \cap files[n.path] # {} => m = n

OlderIsHigher ==
  \A m, n \in manifest : m.id_offset < n.id_offset => Level(n) <= Level(m)

ListedRight ==
  clean => (\A m \in manifest : LineIsInterval(m)) /\ LinesDivide /\ OlderIsHigher

\* Since the snapshot was taken, lines were only added behind all others.
SnapshotListed ==
  clean /\ cpc \in {"pick", "write", "reload", "swap"} =>
    /\ snapshot \subseteq manifest
    /\ \A m \in manifest \ snapshot, s \in snapshot : s.id_offset < m.id_offset

\* The merge is about all lines of its level in the snapshot.
MergeOfLevel ==
  clean /\ cpc \in {"write", "reload", "swap"} =>
    /\ sources = {m \in snapshot : Level(m) = level} /\ sources # {}
    /\ merged = UNION {files[m.path] : m \in sources}

\* The inductive invariant behind EachVectorServedOnce, relative to IInv and DInv.
EInv ==
  /\ CommittedNumbered /\ CommittingHolds
  /\ ListedRight /\ SnapshotListed /\ MergeOfLevel

\* While the history is clean, a line keeps its file, and the file its vectors.
LEMMA ListedStays ==
  ASSUME IInv, DInv, [Next]_vars, clean, NEW m \in manifest
  PROVE  /\ m.path \in DOMAIN files' /\ files'[m.path] = files[m.path]
         /\ m.path \in DOMAIN files /\ files[m.path] \subseteq Nat
<1>1. m.path \in Paths /\ Settled(m.path) /\ Readable(m.path)
  BY DEF IInv, TypeOK, SegmentMeta, DInv, ListedSettled, NoDanglingLine
<1>2. cpc = "delete" => \A s \in sources : s.path # m.path
  BY DEF DInv, SourcesUnlisted
<1>3. m.path \in DOMAIN files /\ files[m.path] \subseteq Nat
  BY <1>1 DEF Readable, IInv, TypeOK
<1> QED
  BY <1>1, <1>2, <1>3, ContentStays

\* What is committed changes by a Save of the inserting thread only.
LEMMA CommittedSteps ==
  ASSUME [Next]_vars
  PROVE  IF SaveManifest THEN Committed' = Committed \cup {next_id - 1}
                         ELSE Committed' = Committed
<1>1. CASE SaveManifest
  BY <1>1 DEF SaveManifest, LastFlushed, Line, Committed, BaseVectors
<1>2. CASE ~SaveManifest
  <2>1. acked' = acked
    BY <1>2, SavingStep DEF Next, Inserter, Compactor, Terminated, vars, Flush, FlushFails,
     LoadManifest, SaveFails, ScheduleCheck, FinalScheduleCheck, WaitIdle,
     Destroy, Join, WakeUp, Stopped, LoadSnapshot, ReadSources,
     CompactLevelFails, NothingToDo, WriteMerged, WriteMergedFails, Reload,
     Swap, SwapFails, DeleteSource, FinishCompaction, inserterVars,
     compactorVars
  <2> QED
    BY <1>2, <2>1 DEF Committed, BaseVectors
<1> QED
  BY <1>1, <1>2

LEMMA ListedNat ==
  ASSUME IInv, DInv, clean, NEW m \in manifest
  PROVE  files[m.path] \subseteq Nat
  BY DEF IInv, TypeOK, DInv, NoDanglingLine, Readable

LEMMA CommittedNumberedStep == ASSUME IInv, EInv, [Next]_vars PROVE CommittedNumbered'
<1> USE DEF EInv
<1>1. next_id \in Nat /\ (wpc \in {"load", "save"} => next_id > 0)
  BY DEF IInv, TypeOK, FlushCounted
<1>2. CASE SaveManifest
  <2>1. Committed = 0..next_id - 2 /\ Committed' = Committed \cup {next_id - 1}
    BY <1>2, CommittedSteps DEF SaveManifest, CommittedNumbered
  <2>2. Committed' = 0..next_id - 1
    BY <1>1, <1>2, <2>1 DEF SaveManifest
  <2>3. wpc' \in {"fill", "schedule"} /\ next_id' = next_id
    BY <1>2 DEF SaveManifest
  <2>4. \A v \in Committed' : 0..v \subseteq Committed'
    BY <1>1, <2>2
  <2> QED
    BY <2>2, <2>3, <2>4 DEF CommittedNumbered
<1>3. CASE Flush
  <2>1. Committed' = Committed
    BY <1>3, CommittedSteps DEF Flush, SaveManifest
  <2>2. wpc' = "load" /\ next_id' = next_id + 1 /\ Committed = 0..next_id - 1
    BY <1>3 DEF Flush, CommittedNumbered
  <2>3. 0..next_id' - 2 = 0..next_id - 1
    BY <1>1, <2>2
  <2> QED
    BY <2>1, <2>2, <2>3 DEF CommittedNumbered
<1>4. CASE ~SaveManifest /\ ~Flush
  <2>1. Committed' = Committed
    BY <1>4, CommittedSteps
  <2>2. /\ next_id' = next_id
        /\ wpc' \in {"fill", "schedule", "waitidle"} => wpc \in {"fill", "schedule", "waitidle"}
        /\ wpc' \in {"load", "save"} => wpc \in {"load", "save"}
    BY <1>4, SavingStep DEF Next, Inserter, Compactor, Terminated, vars, FlushFails, LoadManifest,
     SaveFails, ScheduleCheck, FinalScheduleCheck, WaitIdle, Destroy, Join,
     WakeUp, Stopped, LoadSnapshot, ReadSources, CompactLevelFails,
     NothingToDo, WriteMerged, WriteMergedFails, Reload, Swap, SwapFails,
     DeleteSource, FinishCompaction, inserterVars, compactorVars
  <2> QED
    BY <2>1, <2>2 DEF CommittedNumbered
<1> QED
  BY <1>2, <1>3, <1>4

LEMMA CommittingHoldsStep == ASSUME IInv, DInv, EInv, [Next]_vars PROVE CommittingHolds'
<1> SUFFICES ASSUME clean', wpc' \in {"load", "save"}
             PROVE  /\ (LastFlushed.path)' \in DOMAIN files'
                    /\ files'[(LastFlushed.path)'] = {next_id' - 1}
  BY DEF CommittingHolds
<1>c. clean
  BY CleanStep
<1> DEFINE p == InsertPath(batch_index - 1)
<1>a. next_id \in Nat /\ batch_index \in Nat
  BY DEF IInv, TypeOK
<1>1. CASE Flush
  <2>1. (LastFlushed.path)' = InsertPath(batch_index) /\ next_id' - 1 = next_id
    BY <1>1, <1>a DEF Flush, LastFlushed, Line, InsertPath
  <2>2. files' = FilesWith(InsertPath(batch_index), {next_id})
    BY <1>1 DEF Flush
  <2>3. InsertPath(batch_index) \in DOMAIN files' /\ files'[InsertPath(batch_index)] = {next_id}
    BY <2>2 DEF FilesWith
  <2> QED
    BY <2>1, <2>3
<1>2. CASE ~Flush
  <2>1. wpc \in {"load", "save"} /\ UNCHANGED <<batch_index, next_id>>
    BY <1>2, SavingStep DEF Next, Inserter, Compactor, Terminated, vars, FlushFails, LoadManifest,
     SaveManifest, SaveFails, ScheduleCheck, FinalScheduleCheck, WaitIdle,
     Destroy, Join, WakeUp, Stopped, LoadSnapshot, ReadSources,
     CompactLevelFails, NothingToDo, WriteMerged, WriteMergedFails, Reload,
     Swap, SwapFails, DeleteSource, FinishCompaction, inserterVars,
     compactorVars
  <2>2. LastFlushed.path = p /\ (LastFlushed.path)' = p
    BY <2>1 DEF LastFlushed, Line
  <2> HIDE DEF p
  <2>3. p \in Paths /\ Settled(p)
    BY <1>a, <2>1 DEF p, InsertPath, Paths, Kinds, Settled, IInv, FlushCounted
  <2>4. Readable(p) /\ \A m \in sources : m.path # p
    BY <1>c, <2>1, <2>2 DEF DInv, CommittingReadable
  <2>5. p \in DOMAIN files' /\ files'[p] = files[p]
    BY <2>3, <2>4, ContentStays
  <2>6. files[p] = {next_id - 1}
    BY <1>c, <2>1, <2>2 DEF EInv, CommittingHolds
  <2> QED
    BY <2>1, <2>2, <2>5, <2>6
<1> QED
  BY <1>1, <1>2

\* The offset of a line is the id of its first vector.
LEMMA OffsetCommitted ==
  ASSUME IInv, EInv, clean, NEW m \in manifest
  PROVE  m.id_offset \in Committed /\ m.id_offset \in Nat /\ Level(m) \in Nat
  BY DEF IInv, EInv, ListedRight, LinesDivide, LineIsInterval, TypeOK, SegmentMeta, Paths, Level

\* Saving the line of a new segment: its only vector is the next committed id.
LEMMA ListedRightSave ==
  ASSUME IInv, DInv, EInv, clean, SaveManifest, manifest' = manifest \cup {LastFlushed}
  PROVE  ((\A m \in manifest : LineIsInterval(m)) /\ LinesDivide /\ OlderIsHigher)'
<1> DEFINE new == LastFlushed
<1>1. /\ wpc = "save" /\ files' = files /\ next_id \in Nat /\ next_id > 0
      /\ Committed = 0..next_id - 2 /\ Committed' = Committed \cup {next_id - 1}
  BY CommittedSteps DEF IInv, TypeOK, FlushCounted, EInv, CommittedNumbered, SaveManifest, Next, Inserter
<1>2. files[new.path] = {next_id - 1} /\ new.id_offset = next_id - 1 /\ Level(new) = 0
  BY <1>1 DEF EInv, CommittingHolds, LastFlushed, Line, InsertPath, Level
<1>3. \A m \in manifest : LineIsInterval(m)
  BY DEF EInv, ListedRight
<1>4. LinesDivide /\ OlderIsHigher
  BY DEF EInv, ListedRight
<1>5. \A m \in manifest : m.id_offset \in 0..next_id - 2 /\ Level(m) \in Nat
  BY <1>1, OffsetCommitted
<1> HIDE DEF new
<1>6. (\A m \in manifest : LineIsInterval(m))'
  <2> SUFFICES ASSUME NEW m \in manifest \cup {new}
               PROVE  /\ m.id_offset \in files[m.path]
                      /\ \A v \in files[m.path] :
                           m.id_offset <= v /\ m.id_offset..v \subseteq files[m.path]
    BY <1>1 DEF LineIsInterval, new
  <2>1. CASE m = new
    BY <1>1, <1>2, <2>1
  <2>2. CASE m \in manifest
    BY <1>3, <2>2 DEF LineIsInterval
  <2> QED
    BY <2>1, <2>2
<1>7. LinesDivide'
  <2>1. \A m \in manifest' : files'[m.path] \subseteq Committed'
    BY <1>1, <1>2, <1>4 DEF LinesDivide, new
  <2>2. \A v \in Committed' : \E m \in manifest' : v \in files'[m.path]
    BY <1>1, <1>2, <1>4 DEF LinesDivide, new
  <2>3. \A m \in manifest : files[m.path] \cap files[new.path] = {}
    BY <1>1, <1>2, <1>4 DEF LinesDivide
  <2>4. \A m, n \in manifest' : files'[m.path] \cap files'[n.path] # {} => m = n
    BY <1>1, <1>4, <2>3 DEF LinesDivide, new
  <2> QED
    BY <2>1, <2>2, <2>4 DEF LinesDivide
<1>8. OlderIsHigher'
  <2> SUFFICES ASSUME NEW m \in manifest \cup {new}, NEW n \in manifest \cup {new},
                      m.id_offset < n.id_offset
               PROVE  Level(n) <= Level(m)
    BY DEF OlderIsHigher, Level, new
  <2>1. CASE n = new
    <3>1. m \in manifest
      BY <1>1, <1>2, <2>1
    <3> QED
      BY <1>2, <1>5, <2>1, <3>1
  <2>2. CASE n \in manifest /\ m = new
    BY <1>1, <1>2, <1>5, <2>2
  <2>3. CASE n \in manifest /\ m \in manifest
    BY <1>4, <2>3 DEF OlderIsHigher
  <2> QED
    BY <2>1, <2>2, <2>3
<1> QED
  BY <1>6, <1>7, <1>8

\* The sources of a merge are neighbors: between the first of them and any vector
\* of the merge there is no line but the sources.
LEMMA SourcesAdjacent ==
  ASSUME IInv, DInv, EInv, clean, cpc = "swap",
         NEW front \in sources, \A m \in sources : front.id_offset <= m.id_offset,
         NEW v \in merged, NEW w \in front.id_offset..v
  PROVE  w \in merged
<1>1. /\ sources = {m \in snapshot : Level(m) = level}
      /\ merged = UNION {files[m.path] : m \in sources}
      /\ snapshot \subseteq manifest
      /\ \A m \in manifest \ snapshot, s \in snapshot : s.id_offset < m.id_offset
  BY DEF EInv, MergeOfLevel, SnapshotListed
<1>2. /\ \A m \in manifest : LineIsInterval(m)
      /\ LinesDivide /\ OlderIsHigher /\ CommittedNumbered
  BY DEF EInv, ListedRight
<1>3. PICK s \in sources : v \in files[s.path]
  BY <1>1
<1>4. front \in manifest /\ s \in manifest /\ v \in Committed /\ v \in Nat
  BY <1>1, <1>2, <1>3, ListedNat DEF LinesDivide
<1>5. front.id_offset \in Nat /\ s.id_offset \in Nat /\ w \in Nat /\ w <= v
  BY <1>4, OffsetCommitted
<1>6. w \in Committed
  BY <1>2, <1>4, <1>5 DEF CommittedNumbered
<1>7. PICK k \in manifest : w \in files[k.path]
  BY <1>2, <1>6 DEF LinesDivide
<1>8. k.id_offset \in Nat /\ k.id_offset <= w /\ k.id_offset..w \subseteq files[k.path]
  BY <1>2, <1>7, OffsetCommitted DEF LineIsInterval
<1>9. \A m \in sources : Level(m) = level
  BY <1>1
<1>10. Level(k) \in Nat /\ level \in Nat
  BY OffsetCommitted DEF IInv, TypeOK
<1>11. CASE k.id_offset <= front.id_offset
  <2>1. front.id_offset \in files[k.path]
    BY <1>5, <1>8, <1>11
  <2>2. front.id_offset \in files[front.path]
    BY <1>2, <1>4 DEF LineIsInterval
  <2>3. k = front
    BY <1>2, <1>4, <2>1, <2>2 DEF LinesDivide
  <2> QED
    BY <1>1, <1>7, <2>3
<1>12. CASE front.id_offset < k.id_offset /\ s.id_offset <= k.id_offset
  <2>1. k.id_offset \in files[s.path]
    <3>1. s.id_offset..v \subseteq files[s.path]
      BY <1>2, <1>3, <1>4 DEF LineIsInterval
    <3> QED
      BY <1>4, <1>5, <1>8, <1>12, <3>1
  <2>2. k.id_offset \in files[k.path]
    BY <1>2 DEF LineIsInterval
  <2>3. k = s
    BY <1>2, <1>4, <2>1, <2>2 DEF LinesDivide
  <2> QED
    BY <1>1, <1>7, <2>3
<1>13. CASE front.id_offset < k.id_offset /\ k.id_offset < s.id_offset
  <2>1. Level(k) <= Level(front) /\ Level(s) <= Level(k)
    BY <1>2, <1>4, <1>13 DEF OlderIsHigher
  <2>2. Level(k) = level
    BY <1>3, <1>9, <1>10, <2>1
  <2>3. k \in snapshot
    BY <1>1, <1>3, <1>5, <1>8, <1>13
  <2>4. k \in sources
    BY <1>1, <2>2, <2>3
  <2> QED
    BY <1>1, <1>7, <2>4
<1> QED
  BY <1>5, <1>8, <1>11, <1>12, <1>13

\* Swapping the sources for the merged segment, which serves what they served.
LEMMA ListedRightSwap ==
  ASSUME IInv, DInv, EInv, clean, Swap, NEW front \in sources,
         \A m \in sources : front.id_offset <= m.id_offset,
         manifest' = Swapped(manifest, sources, Line(NewPath, front.id_offset))
  PROVE  ((\A m \in manifest : LineIsInterval(m)) /\ LinesDivide /\ OlderIsHigher)'
<1>1. /\ cpc = "swap" /\ files' = files /\ Committed' = Committed
      /\ files[NewPath] = merged
  BY DEF Swap, inserterVars, Committed, IInv, MergedHeld
<1> DEFINE new == Line(NewPath, front.id_offset)
<1>3. new.path = NewPath /\ new.id_offset = front.id_offset /\ Level(new) = level + 1
  BY DEF Level, Line, NewPath, MergedPath
<1>4. /\ sources = {m \in snapshot : Level(m) = level} /\ sources \subseteq manifest
      /\ merged = UNION {files[m.path] : m \in sources}
      /\ \A m \in manifest \ snapshot, s \in snapshot : s.id_offset < m.id_offset
  BY <1>1 DEF EInv, MergeOfLevel, SnapshotListed
<1>5. (\A m \in manifest : LineIsInterval(m)) /\ LinesDivide /\ OlderIsHigher
  BY DEF EInv, ListedRight
<1>6. \A m \in manifest, s \in sources : m.path = s.path => m = s
  BY <1>4, <1>5 DEF LinesDivide, LineIsInterval
<1>7. manifest' = (manifest \ sources) \cup {new}
  BY <1>4, <1>6 DEF Swapped
<1>8. \A m \in manifest : m.id_offset \in Nat /\ Level(m) \in Nat
  BY OffsetCommitted
<1>9. level \in Nat /\ front.id_offset \in Nat /\ \A m \in sources : Level(m) = level
  BY <1>4, <1>8 DEF IInv, TypeOK
<1> HIDE DEF new
<1>10. (\A m \in manifest : LineIsInterval(m))'
  <2> SUFFICES ASSUME NEW m \in (manifest \ sources) \cup {new}
               PROVE  /\ m.id_offset \in files[m.path]
                      /\ \A v \in files[m.path] :
                           m.id_offset <= v /\ m.id_offset..v \subseteq files[m.path]
    BY <1>1, <1>7 DEF LineIsInterval
  <2>1. CASE m \in manifest
    BY <1>5, <2>1 DEF LineIsInterval
  <2>2. CASE m = new
    <3>1. front.id_offset \in merged
      BY <1>4, <1>5 DEF LineIsInterval
    <3>2. ASSUME NEW v \in merged
          PROVE  front.id_offset <= v /\ front.id_offset..v \subseteq merged
      <4>1. PICK s \in sources : v \in files[s.path]
        BY <1>4
      <4>2. s \in manifest /\ s.id_offset <= v /\ v \in Nat
        BY <1>4, <1>5, <4>1, ListedNat DEF LineIsInterval
      <4>3. front.id_offset <= v
        BY <1>8, <1>9, <4>2
      <4> QED
        BY <1>1, <4>3, SourcesAdjacent
    <3> QED
      BY <1>1, <1>3, <2>2, <3>1, <3>2
  <2> QED
    BY <2>1, <2>2
<1>11. LinesDivide'
  <2>1. \A m \in manifest' : files'[m.path] \subseteq Committed'
    BY <1>1, <1>3, <1>4, <1>5, <1>7 DEF LinesDivide
  <2>2. \A v \in Committed' : \E m \in manifest' : v \in files'[m.path]
    <3> SUFFICES ASSUME NEW v \in Committed PROVE \E m \in manifest' : v \in files[m.path]
      BY <1>1
    <3>1. PICK m \in manifest : v \in files[m.path]
      BY <1>5 DEF LinesDivide
    <3>2. CASE m \in sources
      BY <1>1, <1>3, <1>4, <1>7, <3>1, <3>2
    <3>3. CASE m \notin sources
      BY <1>7, <3>1, <3>3
    <3> QED
      BY <3>2, <3>3
  <2>3. \A m \in manifest \ sources : files[m.path] \cap files[new.path] = {}
    BY <1>1, <1>3, <1>4, <1>5 DEF LinesDivide
  <2>4. \A m, n \in manifest' : files'[m.path] \cap files'[n.path] # {} => m = n
    BY <1>1, <1>5, <1>7, <2>3 DEF LinesDivide
  <2> QED
    BY <2>1, <2>2, <2>4 DEF LinesDivide
<1>12. OlderIsHigher'
  <2> SUFFICES ASSUME NEW m \in (manifest \ sources) \cup {new},
                      NEW n \in (manifest \ sources) \cup {new},
                      m.id_offset < n.id_offset
               PROVE  Level(n) <= Level(m)
    BY <1>7 DEF OlderIsHigher, Level
  <2>1. CASE m \in manifest /\ n \in manifest
    BY <1>5, <2>1 DEF OlderIsHigher
  <2>2. CASE m \in manifest \ sources /\ n = new
    <3>1. Level(front) <= Level(m)
      BY <1>3, <1>4, <1>5, <2>2 DEF OlderIsHigher
    <3>2. m \in snapshot
      BY <1>3, <1>4, <1>8, <1>9, <2>2
    <3>3. Level(m) # level
      BY <1>4, <2>2, <3>2
    <3> QED
      BY <1>3, <1>8, <1>9, <2>2, <3>1, <3>3
  <2>3. CASE m = new /\ n \in manifest
    <3>1. Level(n) <= Level(front)
      BY <1>3, <1>4, <1>5, <2>3 DEF OlderIsHigher
    <3> QED
      BY <1>3, <1>8, <1>9, <2>3, <3>1
  <2>4. ~(m = new /\ n = new)
    BY <1>3, <1>9
  <2> QED
    BY <2>1, <2>2, <2>3, <2>4
<1> QED
  BY <1>10, <1>11, <1>12

LEMMA ListedRightStep == ASSUME IInv, DInv, EInv, [Next]_vars PROVE ListedRight'
<1> SUFFICES ASSUME clean'
             PROVE  ((\A m \in manifest : LineIsInterval(m)) /\ LinesDivide /\ OlderIsHigher)'
  BY DEF ListedRight
<1>1. clean
  BY CleanStep
<1>2. CASE UNCHANGED manifest /\ ~SaveManifest
  <2>1. Committed' = Committed
    BY <1>2, CommittedSteps
  <2>2. \A m \in manifest : files'[m.path] = files[m.path]
    BY <1>1, ListedStays
  <2>3. (\A m \in manifest : LineIsInterval(m)) /\ LinesDivide /\ OlderIsHigher
    BY <1>1 DEF EInv, ListedRight
  <2>4. (\A m \in manifest : LineIsInterval(m))'
    BY <1>2, <2>2, <2>3 DEF LineIsInterval
  <2>5. LinesDivide'
    BY <1>2, <2>1, <2>2, <2>3 DEF LinesDivide
  <2>6. OlderIsHigher'
    BY <1>2, <2>3 DEF OlderIsHigher, Level
  <2> QED
    BY <2>4, <2>5, <2>6
<1> QED
  BY <1>1, <1>2, ManifestSteps, ListedRightSave, ListedRightSwap

LEMMA SnapshotListedStep == ASSUME IInv, DInv, EInv, [Next]_vars PROVE SnapshotListed'
<1> SUFFICES ASSUME clean', cpc' \in {"pick", "write", "reload", "swap"}
             PROVE  /\ snapshot' \subseteq manifest'
                    /\ \A m \in manifest' \ snapshot', s \in snapshot' : s.id_offset < m.id_offset
  BY DEF SnapshotListed
<1>1. clean
  BY CleanStep
<1>2. CASE LoadSnapshot
  BY <1>2 DEF LoadSnapshot, Loaded
<1>3. CASE ~LoadSnapshot
  <2>1. snapshot' = snapshot /\ cpc \in {"pick", "write", "reload", "swap"} /\ ~Swap
    BY <1>3, SavingStep DEF Next, Inserter, Compactor, Terminated, vars, Flush, FlushFails,
     LoadManifest, SaveManifest, SaveFails, ScheduleCheck,
     FinalScheduleCheck, WaitIdle, Destroy, Join, WakeUp, Stopped,
     ReadSources, CompactLevelFails, NothingToDo, WriteMerged,
     WriteMergedFails, Reload, Swap, SwapFails, DeleteSource,
     FinishCompaction, inserterVars, compactorVars
  <2>2. /\ snapshot \subseteq manifest
        /\ \A m \in manifest \ snapshot, s \in snapshot : s.id_offset < m.id_offset
    BY <1>1, <2>1 DEF EInv, SnapshotListed
  <2>3. CASE UNCHANGED manifest
    BY <2>1, <2>2, <2>3
  <2>4. CASE SaveManifest /\ manifest' = manifest \cup {LastFlushed}
    <3>1. LastFlushed.id_offset = next_id - 1 /\ next_id \in Nat
      BY DEF LastFlushed, Line, IInv, TypeOK
    <3>2. Committed = 0..next_id - 2
      BY <2>4 DEF SaveManifest, EInv, CommittedNumbered
    <3>3. \A s \in snapshot : s.id_offset < LastFlushed.id_offset
      BY <1>1, <2>2, <3>1, <3>2, OffsetCommitted
    <3> QED
      BY <2>1, <2>2, <2>4, <3>3
  <2> QED
    BY <2>1, <2>3, <2>4, ManifestSteps
<1> QED
  BY <1>2, <1>3

LEMMA MergeOfLevelStep == ASSUME IInv, DInv, EInv, [Next]_vars PROVE MergeOfLevel'
<1> SUFFICES ASSUME clean', cpc' \in {"write", "reload", "swap"}
             PROVE  /\ sources' = {m \in snapshot' : Level(m) = level'} /\ sources' # {}
                    /\ merged' = UNION {files'[m.path] : m \in sources'}
  BY DEF MergeOfLevel, Level
<1>1. clean
  BY CleanStep
<1>2. CASE ReadSources
  <2>1. PICK l \in levels :
          /\ level' = l
          /\ sources' = {m \in snapshot : Level(m) = l}
          /\ merged' = UNION {files[m.path] : m \in sources'}
          /\ snapshot' = snapshot /\ files' = files
    BY <1>2 DEF ReadSources
  <2>2. \E m \in snapshot : Level(m) = l
    BY DEF DInv, LevelsListed
  <2> QED
    BY <2>1, <2>2
<1>3. CASE ~ReadSources
  <2>1. /\ UNCHANGED <<snapshot, sources, level, merged>>
        /\ cpc \in {"write", "reload", "swap"}
    BY <1>3, SavingStep DEF Next, Inserter, Compactor, Terminated, vars, Flush, FlushFails,
     LoadManifest, SaveManifest, SaveFails, ScheduleCheck,
     FinalScheduleCheck, WaitIdle, Destroy, Join, WakeUp, Stopped,
     LoadSnapshot, CompactLevelFails, NothingToDo, WriteMerged,
     WriteMergedFails, Reload, Swap, SwapFails, DeleteSource,
     FinishCompaction, inserterVars, compactorVars
  <2>2. /\ sources = {m \in snapshot : Level(m) = level} /\ sources # {}
        /\ merged = UNION {files[m.path] : m \in sources}
        /\ snapshot \subseteq manifest
    BY <1>1, <2>1 DEF EInv, MergeOfLevel, SnapshotListed
  <2>3. \A m \in sources : files'[m.path] = files[m.path]
    BY <1>1, <2>2, ListedStays
  <2> QED
    BY <2>1, <2>2, <2>3
<1> QED
  BY <1>2, <1>3

LEMMA InitEInv == Init => EInv
<1> SUFFICES ASSUME Init PROVE EInv
  OBVIOUS
<1>1. /\ wpc = "fill" /\ cpc = "wait" /\ next_id = NumBase /\ acked = {} /\ NumBase \in Nat
      /\ Committed = 0..NumBase - 1
  BY NumbersAssumption DEF Init, Committed, BaseVectors, NumbersAssumption
<1>2. CommittedNumbered /\ CommittingHolds /\ SnapshotListed /\ MergeOfLevel
  BY <1>1 DEF CommittedNumbered, CommittingHolds, SnapshotListed, MergeOfLevel
<1>3. manifest = {Line(BasePath(i), i) : i \in 0..NumBase - 1}
  BY DEF Init
<1>4. \A i \in 0..NumBase - 1 : files[BasePath(i)] = {i}
  <2> SUFFICES ASSUME NEW i \in 0..NumBase - 1 PROVE files[BasePath(i)] = {i}
    OBVIOUS
  <2>1. files[BasePath(i)] = {BasePath(i).num}
    BY DEF Init
  <2> QED
    BY <2>1 DEF BasePath
<1>5. \A m \in manifest : /\ m.id_offset \in 0..NumBase - 1 /\ m = Line(BasePath(m.id_offset), m.id_offset)
                          /\ files[m.path] = {m.id_offset} /\ Level(m) = 0
  <2> SUFFICES ASSUME NEW i \in 0..NumBase - 1, NEW m, m = Line(BasePath(i), i)
               PROVE  /\ m.id_offset = i /\ m = Line(BasePath(i), i)
                      /\ files[m.path] = {i} /\ Level(m) = 0
    BY <1>3
  <2>1. m.path = BasePath(i) /\ m.id_offset = i
    BY DEF Line
  <2> QED
    BY <1>4, <2>1 DEF Level, BasePath
<1>6. \A m \in manifest : LineIsInterval(m)
  <2> SUFFICES ASSUME NEW m \in manifest PROVE LineIsInterval(m)
    OBVIOUS
  <2>1. m.id_offset \in Nat /\ files[m.path] = {m.id_offset}
    BY <1>1, <1>5
  <2> QED
    BY <2>1 DEF LineIsInterval
<1>7. LinesDivide
  <2>1. \A v \in Committed : \E m \in manifest : v \in files[m.path]
    <3> SUFFICES ASSUME NEW v \in 0..NumBase - 1 PROVE \E m \in manifest : v \in files[m.path]
      BY <1>1
    <3>1. Line(BasePath(v), v) \in manifest /\ Line(BasePath(v), v).path = BasePath(v)
      BY <1>3 DEF Line
    <3> QED
      BY <1>4, <3>1
  <2>2. \A m \in manifest : files[m.path] \subseteq Committed
    BY <1>1, <1>5
  <2>3. \A m, n \in manifest : files[m.path] \cap files[n.path] # {} => m = n
    BY <1>5
  <2> QED
    BY <2>1, <2>2, <2>3 DEF LinesDivide
<1>8. OlderIsHigher
  BY <1>5 DEF OlderIsHigher
<1> QED
  BY <1>2, <1>6, <1>7, <1>8 DEF EInv, ListedRight

LEMMA StepEInv == IInv /\ DInv /\ EInv /\ [Next]_vars => EInv'
<1>1. ASSUME IInv, DInv, EInv, [Next]_vars PROVE EInv'
  BY <1>1, CommittedNumberedStep, CommittingHoldsStep, ListedRightStep, SnapshotListedStep,
     MergeOfLevelStep DEF EInv
<1> QED
  BY <1>1

\* As long as the history is clean, a reader of the
\* manifest finds every committed vector in exactly one segment, and there under
\* its id: merged segments serve by position what was inserted one by one
\* (compaction.cpp:170-210, main.cpp:771-778).
THEOREM ServedOnce == Spec => []EachVectorServedOnce
<1>1. IInv /\ DInv /\ EInv => EachVectorServedOnce
  <2> SUFFICES ASSUME IInv, DInv, EInv, clean, NEW v \in Committed
               PROVE  /\ Cardinality(Serving(v)) = 1
                      /\ \A m \in Serving(v) : ServedId(m, v) = v
    BY DEF EachVectorServedOnce
  <2>1. (\A m \in manifest : LineIsInterval(m)) /\ LinesDivide
    BY DEF EInv, ListedRight
  <2>2. PICK m \in manifest : v \in files[m.path]
    BY <2>1 DEF LinesDivide
  <2>3. m.path \in DOMAIN files
    BY DEF DInv, NoDanglingLine, Readable
  <2>4. Serving(v) = {m}
    BY <2>1, <2>2, <2>3 DEF Serving, LinesDivide
  <2>5. ServedId(m, v) = v
    <3>1. files[m.path] \subseteq Nat /\ m.id_offset \in Nat
      BY ListedNat, OffsetCommitted
    <3>2. m.id_offset <= v /\ m.id_offset..v \subseteq files[m.path]
      BY <2>1, <2>2 DEF LineIsInterval
    <3>3. \A u \in files[m.path] : m.id_offset <= u
      BY <2>1 DEF LineIsInterval
    <3>4. v \in Nat
      BY <2>2, <3>1
    <3>5. {u \in files[m.path] : u < v} = m.id_offset..v - 1
      BY <3>1, <3>2, <3>3, <3>4
    <3>6. v - 1 \in Int /\ m.id_offset \in Int
      BY <3>1, <3>4
    <3>7. Cardinality(m.id_offset..v - 1) =
            IF m.id_offset > v - 1 THEN 0 ELSE v - 1 - m.id_offset + 1
      BY <3>6, FS_Interval
    <3>8. Cardinality(m.id_offset..v - 1) = v - m.id_offset
      BY <3>1, <3>2, <3>4, <3>7
    <3>9. ServedId(m, v) = m.id_offset + Cardinality(m.id_offset..v - 1)
      BY <3>5 DEF ServedId
    <3>10. \A a, b \in Nat : a + (b - a) = b
      OBVIOUS
    <3> QED
      BY <3>1, <3>4, <3>8, <3>9, <3>10
  <2> QED
    BY <2>4, <2>5, FS_Singleton
<1> QED
  BY <1>1, InitInv, StepInv, InitDInv, StepDInv, InitEInv, StepEInv, PTL DEF Spec

=============================================================================
