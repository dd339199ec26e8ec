------------------------------ MODULE Commands ------------------------------
(***************************************************************************)
(* The commands `vindex train-pq`, `build` and `query`, run one after the  *)
(* other over a codebook file, segment files and a manifest (main.cpp,     *)
(* storage/segment.cpp, pq/pq_trainer.cpp, and both I/O backends).  Any    *)
(* command may be killed, and any read or write may fail.  A build saves   *)
(* its manifest as ManifestSave says, and may write its segment over one   *)
(* that an earlier build left.                                             *)
(*                                                                         *)
(* All builds have vectors of one dimension, lists of one degree and       *)
(* codebooks of one shape; they differ in their number of vectors.         *)
(***************************************************************************)
EXTENDS ManifestSave, SegmentFile

CONSTANTS
  Paths,        \* --segment
  Counts,       \* vectors of a build
  MaxBuilds     \* builds that get as far as their segment file

ASSUME OneProcess == Cardinality(Savers) = 1
ASSUME CountsAssumption == Counts \subseteq Nat \ {0}
ASSUME MaxBuildsAssumption == MaxBuilds \in Nat /\ MaxBuilds <= MaxSaves

VARIABLES
  uring,        \* the program was built with VINDEX_IO_URING
  codebook,     \* the codebook file: "none", "short" or "whole"
  files,        \* path -> what is in the segment file
  builds,       \* the builds begun: [path, count, codebook]
  versions,     \* manifest version -> the build that its line is of
  cpc,          \* "idle", "write", "save", the kind a query reads, or "nodes"
  done,         \* blocks that the build has written
  segment,      \* of the query: path of the segment and its header
  stream,       \* of the query: "ok", "failed" or "out_of_step"
  got,          \* of the query: what it asked for last, and the block it got
  built         \* history: the build the manifest names, 0 if its file was opened since

fileVars == <<uring, codebook, files, builds, versions>>
queryVars == <<segment, stream, got>>
commandVars == <<vars, fileVars, queryVars, cpc, done, built>>

NoSegment == [path |-> "none", header |-> Unread]
Nothing == [asked |-> <<"none", 0>>, block |-> Unread]

CommandInit ==
  /\ Init      \* version 0: an empty manifest, which does not load
  /\ uring \in BOOLEAN
  /\ codebook = "none"
  /\ files = [p \in Paths |-> <<>>]
  /\ builds = <<>> /\ versions = <<>>
  /\ cpc = "idle" /\ done = 0
  /\ segment = NoSegment /\ stream = "ok" /\ got = Nothing
  /\ built = 0

-----------------------------------------------------------------------------
(***************************************************************************)
(* CmdTrainPq.                                                             *)
(***************************************************************************)

\* WriteFileAll truncates the file.  When the command is killed, a write fails, or
\* closing the stream fails, which nobody notices, the file is short.
SaveCodebook == codebook' \in {"short", "whole"}

TrainPq ==
  /\ cpc = "idle"
  /\ SaveCodebook
  /\ UNCHANGED <<vars, uring, files, builds, versions, queryVars, cpc, done, built>>

-----------------------------------------------------------------------------
(***************************************************************************)
(* CmdBuild.  A command that fails before it opens the segment file leaves *)
(* everything as it is.                                                    *)
(***************************************************************************)

Current == builds[Len(builds)]
LayoutOf(b) == Layout(b, builds[b].count, builds[b].codebook # "none")

\* The file must be as long as its header says.
LoadCodebook == codebook = "whole"

\* Mutant: the mode leaves out trunc.
SyncOpenedUntruncated(file) == file

\* What a file holds when it was opened for writing: an fstream truncates it, the
\* flags of open(2) do not.
SyncOpened(file) == <<>>

UringOpened(file) == file

Opened(file) == IF uring THEN UringOpened(file) ELSE SyncOpened(file)

\* The graph is there, the codebook fits, and WriteSegment opens the file.
OpenSegment ==
  /\ cpc = "idle" /\ Len(builds) < MaxBuilds
  /\ \E p \in Paths, n \in Counts, pq \in BOOLEAN :
       /\ pq => LoadCodebook
       /\ builds' = Append(builds, [path |-> p, count |-> n,
                                    codebook |-> IF pq THEN codebook ELSE "none"])
       /\ files' = [files EXCEPT ![p] = Opened(@)]
       /\ built' = IF built # 0 /\ builds[built].path = p THEN 0 ELSE built
  /\ cpc' = "write" /\ done' = 0
  /\ UNCHANGED <<vars, uring, codebook, versions, queryVars>>

\* One WriteAt of WriteSegment.
WriteBlock ==
  /\ cpc = "write" /\ done < Len(LayoutOf(Len(builds)))
  /\ done' = done + 1
  /\ files' = [files EXCEPT ![Current.path] =
                 WithBlock(@, done + 1, LayoutOf(Len(builds))[done + 1])]
  /\ UNCHANGED <<vars, uring, codebook, builds, versions, queryVars, cpc, built>>

\* Mutant: the result of WriteAt is dropped.
WriteBlockFailsUnnoticed ==
  /\ cpc = "write" /\ done < Len(files[Current.path]) /\ done < Len(LayoutOf(Len(builds)))
  /\ done' = done + 1
  /\ UNCHANGED <<vars, fileVars, queryVars, cpc, built>>

\* A WriteAt fails and WriteSegment returns false, or the build is killed: the block
\* was written or not, or, if one was there, in part.
WriteBlockFails ==
  /\ cpc = "write" /\ done < Len(LayoutOf(Len(builds)))
  /\ \/ UNCHANGED files
     \/ \E b \in {LayoutOf(Len(builds))[done + 1]}
                  \cup (IF done < Len(files[Current.path]) THEN {Torn} ELSE {}) :
          files' = [files EXCEPT ![Current.path] = WithBlock(@, done + 1, b)]
  /\ cpc' = "idle"
  /\ UNCHANGED <<vars, uring, codebook, builds, versions, queryVars, done, built>>

\* Flush, which does nothing for io_uring.
FlushSegment ==
  /\ cpc = "write" /\ done = Len(LayoutOf(Len(builds)))
  /\ cpc' = "save"
  /\ UNCHANGED <<vars, fileVars, queryVars, done, built>>

\* Flush fails, and what the stream still held is lost.
FlushSegmentFails ==
  /\ cpc = "write" /\ done = Len(LayoutOf(Len(builds))) /\ ~uring
  /\ files' = [files EXCEPT ![Current.path] = SubSeq(@, 1, Len(@) - 1)]
  /\ cpc' = "idle"
  /\ UNCHANGED <<vars, uring, codebook, builds, versions, queryVars, done, built>>

\* The manifest with the one line of this build is saved.
BeginSave ==
  /\ cpc = "save"
  /\ \E s \in Savers : pc[s] = "idle" /\ Begin(s)
  /\ versions' = Append(versions, Len(builds))
  /\ UNCHANGED <<uring, codebook, files, builds, queryVars, cpc, done, built>>

\* A step of Save; when it returns, the command ends, with 0 if Save succeeded.
SaveManifest ==
  /\ cpc = "save"
  /\ \E s \in Savers :
       /\ pc[s] # "idle" /\ Save(s)
       /\ IF pc'[s] # "idle" THEN UNCHANGED <<cpc, built>>
          ELSE /\ cpc' = "idle"
               /\ built' = IF result'[s] = "true" THEN Len(builds) ELSE built
  /\ UNCHANGED <<fileVars, queryVars, done>>

-----------------------------------------------------------------------------
(***************************************************************************)
(* CmdQuery: LoadManifest, LoadSegments, and a search in the segment.      *)
(***************************************************************************)

\* Manifest::Load finds a line, and the segment file opens.
LoadManifest ==
  /\ cpc = "idle"
  /\ \E v \in Version \ {0} :
       /\ Stored = Whole(v)
       /\ segment' = [path |-> builds[versions[v]].path, header |-> Unread]
  /\ cpc' = "header" /\ stream' = "ok" /\ got' = Nothing
  /\ UNCHANGED <<vars, fileVars, done, built>>

\* What the fields of a header say.
HasPQ(header) == builds[header.build].codebook # "none"
Count(header) == builds[header.build].count

FileRead == files[segment.path]

\* ReadHeader: the file has a header, and the magic is there.
ReadHeader ==
  /\ cpc = "header"
  /\ FileRead # <<>> /\ FileRead[1].kind = "header"
  /\ segment' = [segment EXCEPT !.header = FileRead[1]]
  /\ got' = [asked |-> <<"header", 0>>, block |-> FileRead[1]]
  /\ cpc' = NextKind("header", HasPQ(FileRead[1]))
  /\ UNCHANGED <<vars, fileVars, stream, done, built>>

\* ReadPQSection, one ReadAt after the other.  Only M and K are checked.
ReadPQSection ==
  /\ cpc \in {"pq_header", "centroids", "codes"}
  /\ LET offset == Offset(cpc, 0, Count(segment.header))
     IN /\ offset <= Len(FileRead)
        /\ cpc = "pq_header" => FileRead[offset].kind = "pq_header"
        /\ got' = [asked |-> <<cpc, 0>>, block |-> FileRead[offset]]
  /\ cpc' = NextKind(cpc, TRUE)
  /\ UNCHANGED <<vars, fileVars, segment, stream, done, built>>

\* ReadNode
ReadNode ==
  /\ cpc = "nodes" /\ stream = "ok"
  /\ \E i \in 1..Count(segment.header) :
       LET offset == Offset("record", i, Count(segment.header))
       IN /\ offset <= Len(FileRead)
          /\ got' = [asked |-> <<"record", i>>, block |-> FileRead[offset]]
  /\ UNCHANGED <<vars, fileVars, segment, cpc, stream, done, built>>

\* A read fails, and the search goes on.  An fstream keeps its fail bit, and no
\* later read succeeds.  A ring keeps the request that was not submitted, or not
\* waited for, and completes it in place of a later one.
ReadNodeFails ==
  /\ cpc = "nodes" /\ stream = "ok"
  /\ stream' = IF uring THEN "out_of_step" ELSE "failed"
  /\ got' = Nothing
  /\ UNCHANGED <<vars, fileVars, segment, cpc, done, built>>

\* The completion of an earlier request is taken for this one's, which may or may
\* not have filled the buffer.
ReadNodeOutOfStep ==
  /\ cpc = "nodes" /\ stream = "out_of_step"
  /\ \E i \in 1..Count(segment.header) :
       LET offset == Offset("record", i, Count(segment.header))
       IN \E b \in {Unread} \cup (IF offset <= Len(FileRead) THEN {FileRead[offset]} ELSE {}) :
            got' = [asked |-> <<"record", i>>, block |-> b]
  /\ UNCHANGED <<vars, fileVars, segment, cpc, stream, done, built>>

\* The query ends, also because the segment does not open, or it is killed.
EndQuery ==
  /\ cpc \notin {"idle", "write", "save"}
  /\ cpc' = "idle" /\ segment' = NoSegment /\ stream' = "ok" /\ got' = Nothing
  /\ UNCHANGED <<vars, fileVars, done, built>>

-----------------------------------------------------------------------------
\* A build is killed after it has written its segment.
Kill ==
  /\ cpc = "save"
  /\ Crash
  /\ cpc' = "idle"
  /\ UNCHANGED <<fileVars, queryVars, done, built>>

Build == OpenSegment \/ WriteBlock \/ WriteBlockFails \/ FlushSegment
         \/ FlushSegmentFails \/ BeginSave \/ SaveManifest \/ Kill

Query == LoadManifest \/ ReadHeader \/ ReadPQSection \/ ReadNode \/ ReadNodeFails
         \/ ReadNodeOutOfStep \/ EndQuery

CommandNext == TrainPq \/ Build \/ Query

CommandSpec == CommandInit /\ [][CommandNext]_commandVars

-----------------------------------------------------------------------------
\* Every variable stays within its type.
CommandTypeOK ==
  /\ TypeOK
  /\ uring \in BOOLEAN /\ codebook \in {"none", "short", "whole"}
  /\ builds \in Seq([path : Paths, count : Counts, codebook : {"none", "short", "whole"}])
  /\ versions \in Seq(DOMAIN builds) /\ Len(versions) = begun
  /\ \A p \in Paths : \A k \in DOMAIN files[p] : files[p][k].build \in 0..Len(builds)
  /\ cpc \in {"idle", "write", "save", "header", "pq_header", "centroids", "codes",
              "nodes"}
  /\ stream \in {"ok", "failed", "out_of_step"}
  /\ done \in Nat /\ built \in 0..Len(builds)

\* The last read was answered with what the given build wrote there.
GotFrom(b) == got.block = Block(b, got.asked[1], got.asked[2])

\* A query finds the build that the manifest names, header, codebook, codes and
\* records, and none of what an earlier or longer segment of that name left in the
\* file, from the moment Save has returned true until a build opens that file
\* again: through other builds that fail or are killed, and whatever happens to the
\* codebook file, which was whole when this build read it (main.cpp:201-221,
\* segment.cpp:230-311, 65-128, uring_io.cpp:42).  A reader that is out of step is
\* not covered.
BuiltIsServed ==
  (built # 0 /\ cpc \notin {"idle", "write", "save"}) =>
    /\ segment.path = builds[built].path
    /\ builds[built].codebook # "short"
    /\ (got # Nothing /\ stream = "ok") => GotFrom(built)

\* Where opening truncates, a reader never gets blocks of two builds, although it
\* checks no more than the magic and two numbers, and whatever failed or was killed
\* (sync_io.cpp:15-18, segment.cpp:65-128).
NoMixOnSync == (~uring /\ got # Nothing) => GotFrom(segment.header.build)
=============================================================================
