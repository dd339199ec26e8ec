------------------------------ MODULE LsmStore ------------------------------
(***************************************************************************)
(* The segment store of vindex while `vindex insert` runs: the inserting   *)
(* thread (CmdInsert in main.cpp) and the worker of CompactionScheduler    *)
(* (storage/compaction.cpp) share a directory of segment files and one     *)
(* manifest file, and no lock.                                             *)
(*                                                                         *)
(* Granularity.  Every Load of the manifest is a step of its own, and so   *)
(* is every call that Save makes on the temporary file, which the two      *)
(* threads share, every segment write and every deletion: these are the    *)
(* only points where the two threads meet.  Writing a segment is one step  *)
(* because no thread opens a file that is being written, and reading the   *)
(* sources of a merge is one step because only the reading thread ever     *)
(* deletes a file.  The lines of a Save fit into the buffer of a stream    *)
(* and reach the file in one write (ManifestSave has several).             *)
(*                                                                         *)
(* Data.  A flushed batch is one vector, and the vector is the id it got   *)
(* when it was flushed.  The content of a complete file is a nonempty set  *)
(* of vectors; {} is a file left behind by a failed write.  The lines of   *)
(* the manifest are a set, in which the copies of a repeated line are told *)
(* apart by a number.  As long as the Saves of the two threads do not      *)
(* cross, no line repeats and the lines of a level are in the order of     *)
(* their offsets, so that source_metas.front() is the source with the      *)
(* smallest one; after that (~clean) it may be any of them.                *)
(***************************************************************************)
EXTENDS Integers, FiniteSets

CONSTANTS
  NumBase,            \* segments the output manifest already lists (`build` ran there)
  BaseInDataDir,      \* their path starts with the scheduler's data_dir_
  NumBatches,         \* segments this run flushes
  HasTail,            \* the last one is the partial batch flushed after the loop
  MaxLevel0Segments,  \* kMaxLevel0Segments, 4 in the code
  MaxLevelNSegments,  \* kMaxLevelNSegments, 2 in the code
  LoadsMayFail        \* a Load of a manifest that is there may fail

ASSUME NumbersAssumption ==
  /\ NumBase \in Nat /\ NumBatches \in Nat
  /\ MaxLevel0Segments \in Nat /\ MaxLevelNSegments \in Nat
ASSUME FlagsAssumption ==
  BaseInDataDir \in BOOLEAN /\ HasTail \in BOOLEAN /\ LoadsMayFail \in BOOLEAN

VARIABLES
  files,        \* the segment files: path -> set of vectors
  manifest,     \* the lines of the manifest file, {} when there is no file
  tmp,          \* the lines of <path>.tmp, or NoFile
  stream,       \* what has become of the file that each thread's Save has opened
  spc,          \* where each thread is in Save
  wpc,          \* where the inserting thread is
  next_id, batch_index,
  out_manifest, \* the manifest as the inserting thread loaded it
  cpc,          \* where the compaction worker is
  snapshot,     \* `manifest` in WorkerLoop
  levels,       \* levels over their limit that WorkerLoop has still to try
  level, sources, merged,   \* locals of CompactLevel; merged is all_vectors
  latest,       \* the manifest as CompactLevel reloaded it
  pending_, stop_, compaction_count_,
  acked,        \* history: vectors whose manifest.Save succeeded
  clean         \* history: until now the manifest was only ever replaced by a
                \* manifest with the one change its Save was for, and no Save
                \* has written over what another had written

saveVars == <<tmp, stream, spc>>
inserterVars  == <<wpc, next_id, batch_index, out_manifest>>
compactorVars == <<cpc, snapshot, levels, level, sources, merged, latest,
                   compaction_count_>>
vars == <<files, manifest, saveVars, inserterVars, compactorVars, pending_,
          stop_, acked, clean>>

-----------------------------------------------------------------------------
Threads == {"inserter", "worker"}

Kinds == {"base", "insert", "merged", "cut", "none"}
Paths == [kind : Kinds, level : Nat, num : Nat]
SegmentMeta == [path : Paths, id_offset : Nat, copy : Nat]

BasePath(i)   == [kind |-> "base", level |-> 0, num |-> i]     \* segment_<i>.vsg
InsertPath(k) == [kind |-> "insert", level |-> 0, num |-> k]   \* segment_insert_<k>.vsg
MergedPath(l, n) == [kind |-> "merged", level |-> l, num |-> n] \* segment_L<l>_<n>.vsg

Line(p, offset) == [path |-> p, id_offset |-> offset, copy |-> 0]
Copy(m, n) == [path |-> m.path, id_offset |-> m.id_offset, copy |-> n]

\* What is left of a line whose beginning has been written over: its path names
\* no file, and the number read as its level is the level of the line or none.
CutLine(l) == Line([kind |-> "cut", level |-> l, num |-> 0], 0)

\* No Save writes this line: there is no temporary file.
NoFile == {Line([kind |-> "none", level |-> 0, num |-> 0], 0)}

\* The level written in a manifest line is the level its path was made for.
Level(m) == m.path.level

\* seg.path.rfind(data_dir_, 0) == 0
InDataDir(m) ==
  \/ m.path.kind \in {"insert", "merged"}
  \/ m.path.kind = "base" /\ BaseInDataDir

MaxAllowed(l) == IF l = 0 THEN MaxLevel0Segments ELSE MaxLevelNSegments

\* What Manifest::Load may leave in a Manifest: a Load that fails leaves it empty.
Loaded == {manifest} \cup (IF LoadsMayFail THEN {{}} ELSE {})

\* The size check of WorkerLoop, over the lines in the output directory only.
OverfullLevels(lines) ==
  {l \in {Level(m) : m \in lines} :
      Cardinality({m \in lines : Level(m) = l /\ InDataDir(m)}) > MaxAllowed(l)}

\* Mutant: the source lines are not removed.
SwappedKeepsSources(lines, removed, added) == lines \cup {added}

\* Manifest::Remove of each source path, then Manifest::Add.
Swapped(lines, removed, added) ==
  {m \in lines : \A s \in removed : m.path # s.path} \cup {added}

\* Truncate and write one file, remove one file.
FilesWith(p, content) ==
  [q \in DOMAIN files \cup {p} |-> IF q = p THEN content ELSE files[q]]
FilesWithout(p) == [q \in DOMAIN files \ {p} |-> files[q]]

\* SegmentReader::Open and ReadAllVectors can succeed on the file.
Readable(p) == p \in DOMAIN files /\ files[p] # {}

\* What a write of the lines `new` from the start of a file may leave in it: the
\* rest of the file stays, and may begin in the middle of a line.
Leftovers(old) ==
  LET wholeLines == SUBSET {Copy(m, 2 * m.copy + 1) : m \in old}
  IN  wholeLines \cup
      UNION {{rest \cup {CutLine(l)} : rest \in wholeLines} :
               l \in {0} \cup {Level(m) : m \in old}}
Overlays(old, new) ==
  IF old = {} THEN {new}
  ELSE {{Copy(m, 2 * m.copy) : m \in new} \cup rest : rest \in Leftovers(old)}

-----------------------------------------------------------------------------
Init ==
  /\ files = [p \in {BasePath(i) : i \in 0..NumBase - 1} |-> {p.num}]
  /\ manifest = {Line(BasePath(i), i) : i \in 0..NumBase - 1}
  /\ tmp = NoFile
  /\ stream = [t \in Threads |-> "none"] /\ spc = [t \in Threads |-> "remove"]
  /\ wpc = "fill"
  /\ next_id = NumBase      \* ComputeNextId
  /\ batch_index = 0
  /\ out_manifest = {}
  /\ cpc = "wait"
  /\ snapshot = {} /\ levels = {} /\ level = 0 /\ sources = {} /\ merged = {}
  /\ latest = {}
  /\ pending_ = FALSE /\ stop_ = FALSE
  /\ compaction_count_ = 0
  /\ acked = {} /\ clean = TRUE

(***************************************************************************)
(* Manifest::Save, called by the inserting thread (wpc = "save") and by    *)
(* the worker (cpc = "swap") on the same path.  It removes <path>.tmp,     *)
(* opens it, truncated, writes the lines, closes it and renames it over    *)
(* the manifest.  stream[t] follows the file that t has open: it is still  *)
(* <path>.tmp, another thread's rename has made it the manifest, or it has *)
(* no name any more.                                                       *)
(***************************************************************************)
InSave(t) == IF t = "inserter" THEN wpc = "save" ELSE cpc = "swap"

Goto(t, from, to) == InSave(t) /\ spc[t] = from /\ spc' = [spc EXCEPT ![t] = to]

LastFlushed == Line(InsertPath(batch_index - 1), next_id - 1)

\* Mutant: one file name per level.
NewPathPerLevel == MergedPath(level + 1, 0)

NewPath == MergedPath(level + 1, compaction_count_)

\* The line of the merged segment takes over the offset of the front source.
MergedLines ==
  {Line(NewPath, front.id_offset) :
     front \in {s \in sources : clean => \A m \in sources : s.id_offset <= m.id_offset}}

\* The lines that a thread's Save is called with: out_manifest.Add, and
\* latest.Remove and latest.Add.
SavedLines(t) ==
  IF t = "inserter" THEN {out_manifest \cup {LastFlushed}}
  ELSE {Swapped(latest, sources, line) : line \in MergedLines}

\* What its Save would leave if it changed nothing but what it was called for.
UpdatedManifest(t) ==
  IF t = "inserter" THEN {manifest \cup {LastFlushed}}
  ELSE {Swapped(manifest, sources, line) : line \in MergedLines}

\* std::filesystem::remove(temp, ec): the file loses its name, and stays where a
\* stream has it open.
RemovesTmp ==
  /\ tmp' = NoFile
  /\ stream' = [t \in Threads |-> IF stream[t] = "tmp" THEN "gone" ELSE stream[t]]

SaveOnly == UNCHANGED <<files, inserterVars, compactorVars, pending_, stop_, acked>>

RemoveTmp(t) ==
  /\ Goto(t, "remove", "open")
  /\ RemovesTmp
  /\ SaveOnly /\ UNCHANGED <<manifest, clean>>

\* std::ofstream stream(temp, std::ios::trunc): the file, if another Save has
\* made one meanwhile, is emptied and shared.
OpenTmp(t) ==
  /\ Goto(t, "open", "write")
  /\ tmp' = {}
  /\ stream' = [stream EXCEPT ![t] = "tmp"]
  /\ SaveOnly /\ UNCHANGED <<manifest, clean>>

\* The lines go to the file the stream has open, whatever its name is by now.
WritesTo(t, lines) ==
  /\ tmp' \in IF stream[t] = "tmp" THEN Overlays(tmp, lines) ELSE {tmp}
  /\ manifest' \in IF stream[t] = "manifest" THEN Overlays(manifest, lines) ELSE {manifest}
  /\ stream' = [stream EXCEPT ![t] = "none"]
  /\ clean' = (clean /\ stream[t] # "manifest" /\ (stream[t] = "tmp" => tmp = {}))

\* WriteManifest and close.
WriteTmp(t) ==
  /\ Goto(t, "write", "rename")
  /\ \E lines \in SavedLines(t) : WritesTo(t, lines)
  /\ SaveOnly

\* The write fails, with none of the lines in the file, or the close does, with
\* all of them.
WriteTmpFails(t) ==
  /\ Goto(t, "write", "giveup")
  /\ \E lines \in SavedLines(t) \cup {{}} : WritesTo(t, lines)
  /\ SaveOnly

\* The rename fails, as it must when the other thread's Save has taken the
\* file away.
RenameFails(t) ==
  /\ Goto(t, "rename", "giveup")
  /\ SaveOnly /\ UNCHANGED <<manifest, tmp, stream, clean>>

Saving ==
  \E t \in Threads : \/ RemoveTmp(t) \/ OpenTmp(t) \/ WriteTmp(t)
                     \/ WriteTmpFails(t) \/ RenameFails(t)

\* ReplaceFileAtomically succeeds and Save returns true, whoever wrote the file.
SaveSucceeds(t) ==
  /\ Goto(t, "rename", "remove")
  /\ tmp # NoFile
  /\ manifest' = tmp /\ tmp' = NoFile
  /\ stream' = [u \in Threads |-> CASE stream[u] = "tmp" -> "manifest"
                                   [] stream[u] = "manifest" -> "gone"
                                   [] OTHER -> stream[u]]
  /\ clean' = (clean /\ tmp \in UpdatedManifest(t))

\* Save returns false: the file could not be opened, or it is removed again.
SaveReturnsFalse(t) ==
  /\ \/ Goto(t, "open", "remove") /\ UNCHANGED <<tmp, stream>>
     \/ Goto(t, "giveup", "remove") /\ RemovesTmp
  /\ UNCHANGED <<manifest, clean>>

(***************************************************************************)
(* The inserting thread.                                                   *)
(***************************************************************************)

\* flush_buffer: TakeValues, BuildKnnGraph and WriteSegment all succeed.
Flush ==
  /\ wpc = "fill" /\ batch_index < NumBatches
  /\ files' = FilesWith(InsertPath(batch_index), {next_id})
  /\ next_id' = next_id + 1
  /\ batch_index' = batch_index + 1
  /\ wpc' = "load"
  /\ UNCHANGED <<manifest, saveVars, out_manifest, compactorVars, pending_,
                 stop_, acked, clean>>

\* flush_buffer fails, before the file is opened or halfway through it:
\* CmdInsert returns 1 and the scheduler is destroyed.
FlushFails ==
  /\ wpc = "fill" /\ batch_index < NumBatches
  /\ files' \in {files, FilesWith(InsertPath(batch_index), {})}
  /\ wpc' = "return"
  /\ UNCHANGED <<manifest, saveVars, next_id, batch_index, out_manifest,
                 compactorVars, pending_, stop_, acked, clean>>

\* out_manifest.Load, whose result is ignored: a missing file reads as no lines.
LoadManifest ==
  /\ wpc = "load"
  /\ out_manifest' \in Loaded
  /\ wpc' = "save"
  /\ UNCHANGED <<files, manifest, saveVars, next_id, batch_index,
                 compactorVars, pending_, stop_, acked, clean>>

\* Save returns true and the batch is inserted.  The tail is saved outside the
\* loop and goes straight on to the final ScheduleCheck.
SaveManifest ==
  /\ wpc = "save" /\ SaveSucceeds("inserter")
  /\ acked' = acked \cup {LastFlushed.id_offset}
  /\ wpc' = IF HasTail /\ batch_index = NumBatches THEN "fill" ELSE "schedule"
  /\ UNCHANGED <<files, next_id, batch_index, out_manifest, compactorVars,
                 pending_, stop_>>

SaveFails ==
  /\ wpc = "save" /\ SaveReturnsFalse("inserter")
  /\ wpc' = "return"
  /\ UNCHANGED <<files, next_id, batch_index, out_manifest, compactorVars,
                 pending_, stop_, acked>>

\* ScheduleCheck in the loop.
ScheduleCheck ==
  /\ wpc = "schedule"
  /\ pending_' = TRUE
  /\ wpc' = "fill"
  /\ UNCHANGED <<files, manifest, saveVars, next_id, batch_index,
                 out_manifest, compactorVars, stop_, acked, clean>>

\* ScheduleCheck after the loop.
FinalScheduleCheck ==
  /\ wpc = "fill" /\ batch_index = NumBatches
  /\ pending_' = TRUE
  /\ wpc' = "waitidle"
  /\ UNCHANGED <<files, manifest, saveVars, next_id, batch_index,
                 out_manifest, compactorVars, stop_, acked, clean>>

\* WaitIdle returns when it reads pending_ = false.
WaitIdle ==
  /\ wpc = "waitidle" /\ ~pending_
  /\ wpc' = "return"
  /\ UNCHANGED <<files, manifest, saveVars, next_id, batch_index,
                 out_manifest, compactorVars, pending_, stop_, acked, clean>>

\* ~CompactionScheduler, first half: stop_ is stored.
Destroy ==
  /\ wpc = "return"
  /\ stop_' = TRUE
  /\ wpc' = "join"
  /\ UNCHANGED <<files, manifest, saveVars, next_id, batch_index,
                 out_manifest, compactorVars, pending_, acked, clean>>

\* ~CompactionScheduler, second half: worker_.join().
Join ==
  /\ wpc = "join" /\ cpc = "stopped"
  /\ wpc' = "done"
  /\ UNCHANGED <<files, manifest, saveVars, next_id, batch_index,
                 out_manifest, compactorVars, pending_, stop_, acked, clean>>

Inserter ==
  \/ Flush \/ FlushFails \/ LoadManifest \/ SaveManifest \/ SaveFails
  \/ ScheduleCheck \/ FinalScheduleCheck \/ WaitIdle \/ Destroy \/ Join

(***************************************************************************)
(* The compaction worker.                                                  *)
(***************************************************************************)

\* The wait returns on a request, which is consumed before it is served.
\* (How the wait can miss a request is the subject of CompactionSignal.)
WakeUp ==
  /\ cpc = "wait" /\ pending_ /\ ~stop_
  /\ pending_' = FALSE
  /\ cpc' = "load"
  /\ UNCHANGED <<files, manifest, saveVars, inserterVars, snapshot, levels,
                 level, sources, merged, latest, compaction_count_, stop_,
                 acked, clean>>

Stopped ==
  /\ cpc = "wait" /\ stop_
  /\ cpc' = "stopped"
  /\ UNCHANGED <<files, manifest, saveVars, inserterVars, snapshot, levels,
                 level, sources, merged, latest, compaction_count_, pending_,
                 stop_, acked, clean>>

\* manifest.Load and the grouping by level.  With no lines to load (Load
\* returns false) there is no level over its limit either.
LoadSnapshot ==
  /\ cpc = "load"
  /\ snapshot' \in Loaded
  /\ levels' = OverfullLevels(snapshot')
  /\ cpc' = "pick"
  /\ UNCHANGED <<files, manifest, saveVars, inserterVars, level, sources,
                 merged, latest, compaction_count_, pending_, stop_, acked,
                 clean>>

Lowest(l) == l \in levels /\ \A k \in levels : l <= k

\* Mutant: the loop over the sources stops before the last one.
ReadSourcesButLast ==
  /\ cpc = "pick"
  /\ \E l \in levels :
       /\ Lowest(l)
       /\ level' = l
       /\ sources' = {m \in snapshot : Level(m) = l}
       /\ \A m \in sources' : Readable(m.path)
       /\ merged' = UNION {files[m.path] : m \in {s \in sources' :
                             \E t \in sources' : s.id_offset < t.id_offset}}
       /\ levels' = levels \ {l}
  /\ cpc' = "write"
  /\ UNCHANGED <<files, manifest, saveVars, inserterVars, snapshot, latest,
                 compaction_count_, pending_, stop_, acked, clean>>

\* CompactLevel up to the built graph: all lines of the level are sources,
\* wherever their files are.
ReadSources ==
  /\ cpc = "pick"
  /\ \E l \in levels :
       /\ Lowest(l)
       /\ level' = l
       /\ sources' = {m \in snapshot : Level(m) = l}
       /\ \A m \in sources' : Readable(m.path)
       /\ merged' = UNION {files[m.path] : m \in sources'}
       /\ levels' = levels \ {l}
  /\ cpc' = "write"
  /\ UNCHANGED <<files, manifest, saveVars, inserterVars, snapshot, latest,
                 compaction_count_, pending_, stop_, acked, clean>>

\* A source that cannot be opened or read, or a graph that cannot be built:
\* CompactLevel returns false and the loop goes on to the next level.
CompactLevelFails ==
  /\ cpc = "pick"
  /\ \E l \in levels : Lowest(l) /\ levels' = levels \ {l}
  /\ UNCHANGED <<files, manifest, saveVars, inserterVars, cpc, snapshot,
                 level, sources, merged, latest, compaction_count_, pending_,
                 stop_, acked, clean>>

\* did_work is false: back to the wait.
NothingToDo ==
  /\ cpc = "pick" /\ levels = {}
  /\ cpc' = "wait"
  /\ UNCHANGED <<files, manifest, saveVars, inserterVars, snapshot, levels,
                 level, sources, merged, latest, compaction_count_, pending_,
                 stop_, acked, clean>>

WriteMerged ==
  /\ cpc = "write"
  /\ files' = FilesWith(NewPath, merged)
  /\ cpc' = "reload"
  /\ UNCHANGED <<manifest, saveVars, inserterVars, snapshot, levels, level,
                 sources, merged, latest, compaction_count_, pending_, stop_,
                 acked, clean>>

WriteMergedFails ==
  /\ cpc = "write"
  /\ files' \in {files, FilesWith(NewPath, {})}
  /\ cpc' = "pick"
  /\ UNCHANGED <<manifest, saveVars, inserterVars, snapshot, levels, level,
                 sources, merged, latest, compaction_count_, pending_, stop_,
                 acked, clean>>

Reload ==
  /\ cpc = "reload"
  /\ latest' \in Loaded
  /\ cpc' = IF latest' = {} THEN "pick" ELSE "swap"
  /\ UNCHANGED <<files, manifest, saveVars, inserterVars, snapshot, levels,
                 level, sources, merged, compaction_count_, pending_, stop_,
                 acked, clean>>

\* Save returns true and the sources may go.
Swap ==
  /\ cpc = "swap" /\ SaveSucceeds("worker")
  /\ cpc' = "delete"
  /\ UNCHANGED <<files, inserterVars, snapshot, levels, level, sources, merged,
                 latest, compaction_count_, pending_, stop_, acked>>

\* Mutant: the sources are deleted although the manifest was not saved.
SwapFailsAndDeletes ==
  /\ cpc = "swap" /\ SaveReturnsFalse("worker")
  /\ cpc' = "delete"
  /\ UNCHANGED <<files, inserterVars, snapshot, levels, level, sources, merged,
                 latest, compaction_count_, pending_, stop_, acked>>

\* Save returns false, which says nothing of what is in the manifest by now.
SwapFails ==
  /\ cpc = "swap" /\ SaveReturnsFalse("worker")
  /\ cpc' = "pick"
  /\ UNCHANGED <<files, inserterVars, snapshot, levels, level, sources, merged,
                 latest, compaction_count_, pending_, stop_, acked>>

\* std::filesystem::remove of one source; its error is ignored.
DeleteSource ==
  /\ cpc = "delete"
  /\ \E m \in sources :
       /\ sources' = sources \ {m}
       /\ files' \in {files, FilesWithout(m.path)}
  /\ UNCHANGED <<manifest, saveVars, inserterVars, cpc, snapshot, levels,
                 level, merged, latest, compaction_count_, pending_, stop_,
                 acked, clean>>

\* Mutant: the compaction is not counted.
FinishUncounted ==
  /\ cpc = "delete" /\ sources = {}
  /\ pending_' = TRUE
  /\ cpc' = "wait"
  /\ UNCHANGED <<files, manifest, saveVars, inserterVars, snapshot, levels,
                 level, sources, merged, latest, compaction_count_, stop_,
                 acked, clean>>

\* did_work: count the compaction and ask for another check.
FinishCompaction ==
  /\ cpc = "delete" /\ sources = {}
  /\ compaction_count_' = compaction_count_ + 1
  /\ pending_' = TRUE
  /\ cpc' = "wait"
  /\ UNCHANGED <<files, manifest, saveVars, inserterVars, snapshot, levels,
                 level, sources, merged, latest, stop_, acked, clean>>

Compactor ==
  \/ WakeUp \/ Stopped \/ LoadSnapshot \/ ReadSources \/ CompactLevelFails
  \/ NothingToDo \/ WriteMerged \/ WriteMergedFails \/ Reload \/ Swap
  \/ SwapFails \/ DeleteSource \/ FinishCompaction

\* The process has ended.
Terminated == wpc = "done" /\ UNCHANGED vars

Next == Inserter \/ Compactor \/ Saving \/ Terminated

Spec == Init /\ [][Next]_vars
-----------------------------------------------------------------------------
(***************************************************************************)
(* What the store promises.                                                *)
(***************************************************************************)

\* Every variable stays within its type.
TypeOK ==
  /\ DOMAIN files \subseteq Paths
  /\ \A p \in DOMAIN files : files[p] \subseteq Nat
  /\ tmp \subseteq SegmentMeta
  /\ stream \in [Threads -> {"none", "tmp", "manifest", "gone"}]
  /\ spc \in [Threads -> {"remove", "open", "write", "rename", "giveup"}]
  /\ manifest \subseteq SegmentMeta /\ out_manifest \subseteq SegmentMeta
  /\ snapshot \subseteq SegmentMeta /\ latest \subseteq SegmentMeta
  /\ sources \subseteq SegmentMeta
  /\ wpc \in {"fill", "load", "save", "schedule", "waitidle", "return", "join",
              "done"}
  /\ cpc \in {"wait", "load", "pick", "write", "reload", "swap", "delete",
              "stopped"}
  /\ next_id \in Nat /\ batch_index \in Nat /\ compaction_count_ \in Nat
  /\ level \in Nat /\ levels \subseteq Nat /\ merged \subseteq Nat
  /\ pending_ \in BOOLEAN /\ stop_ \in BOOLEAN /\ clean \in BOOLEAN
  /\ acked \subseteq Nat

BaseVectors == 0..NumBase - 1
Committed == BaseVectors \cup acked

\* No vector whose commit was reported is ever gone from the disk, not even
\* after the two threads have overwritten each other's manifest: the sources
\* of a merge are deleted only behind a complete, never rewritten, copy
\* (compaction.cpp:176-216).
NoVectorLost == \A v \in Committed : \E p \in DOMAIN files : v \in files[p]

\* SegmentReader adds id_offset to the position of a vector in its file.
ServedId(m, v) == m.id_offset + Cardinality({u \in files[m.path] : u < v})
Serving(v) == {m \in manifest : m.path \in DOMAIN files /\ v \in files[m.path]}

\* As long as every rename so far has put in the manifest it replaced, with the
\* one change its Save was for, a reader of the manifest finds every committed
\* vector in exactly one segment, and there under the id it was given when it
\* was inserted, before, during and after every merge (compaction.cpp:170-210,
\* main.cpp:771-778), and whatever Saves of the two threads have failed or met
\* in <path>.tmp meanwhile.
EachVectorServedOnce ==
  clean => \A v \in Committed :
             /\ Cardinality(Serving(v)) = 1
             /\ \A m \in Serving(v) : ServedId(m, v) = v

\* Under the same condition every line of the manifest names a complete file:
\* a crash at any point leaves a manifest that LoadSegments can open.
NoDanglingLine == clean => \A m \in manifest : Readable(m.path)

Rewritten(p) == Readable(p) /\ p \in DOMAIN files' /\ files'[p] # files[p]

\* A segment the manifest names is never written again; it may only disappear.
\* For the segments that were flushed this holds whatever the two threads do to
\* the manifest; for a merged segment, whose name a failed compaction uses
\* again, under the same condition (compaction.cpp:171-173, main.cpp:739).
NamedSegmentsImmutable ==
  [][\A m \in manifest :
       (clean \/ m.path.kind # "merged") => ~Rewritten(m.path)]_vars

\* The disk as a whole implements an append-only set of vectors: flushing
\* appends, and compaction changes nothing a reader of all files could see.
Log == INSTANCE VectorLog WITH stored <- UNION {files[p] : p \in DOMAIN files},
                               next <- next_id
ImplementsVectorLog == Log!Spec

-----------------------------------------------------------------------------
(***************************************************************************)
(* What a comment promises and the code does not keep.                     *)
(***************************************************************************)

=============================================================================
