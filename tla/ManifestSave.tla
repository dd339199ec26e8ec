---------------------------- MODULE ManifestSave ----------------------------
(***************************************************************************)
(* Manifest::Save (storage/manifest.cpp) against the file system it runs   *)
(* on: remove <path>.tmp, create it, write the lines, close, rename it     *)
(* over <path>.  LsmStore has the same steps with the lines each thread    *)
(* writes, which it writes at once; this module looks at the bytes, and at *)
(* kills.  A saver is a thread of the process that calls Save on the path: *)
(* the inserting thread, the compaction worker.  The process may be killed *)
(* at any point and started again in the same directory.                   *)
(*                                                                         *)
(* The file system is modelled by what Save relies on: a name refers to a  *)
(* file, an open stream keeps its file whatever happens to the name,       *)
(* opening with trunc empties the file the name refers to or makes a new   *)
(* one, and rename moves a name in one step.  The lines reach the file in  *)
(* Chunks pieces, each at the stream's own offset.  A save writes a        *)
(* version of its own, numbered in the order in which the saves begin.     *)
(***************************************************************************)
EXTENDS Integers, FiniteSets

CONSTANTS
  Savers,
  MaxSaves,    \* saves begun
  MaxCrashes,
  Chunks       \* writes a version takes

ASSUME SaversAssumption == IsFiniteSet(Savers)
ASSUME BoundsAssumption ==
  MaxSaves \in Nat /\ MaxCrashes \in Nat /\ Chunks \in Nat \ {0}

VARIABLES
  names,    \* "manifest" and "tmp" -> the file each refers to, NoFile if none
  data,     \* file -> what has been written at each position, Blank if nothing
  pc, fd, written,   \* of each saver: position in Save, its stream, pieces written
  saving,   \* the version each saver is writing
  result,   \* what its last Save returned: "none", "true" or "false"
  begun, crashes

saverVars == <<pc, fd, written, saving, result>>
vars == <<names, data, saverVars, begun, crashes>>

NoFile == 0
Blank == -1
Files == 1..MaxSaves + 1
Version == 0..MaxSaves
Whole(v) == [i \in 1..Chunks |-> v]
Empty == Whole(Blank)

\* Only version 0 exists, in file 1.
Init ==
  /\ names = [manifest |-> 1, tmp |-> NoFile]
  /\ data = [f \in {1} |-> Whole(0)]
  /\ pc = [s \in Savers |-> "idle"]
  /\ fd = [s \in Savers |-> NoFile]
  /\ written = [s \in Savers |-> 0]
  /\ saving = [s \in Savers |-> 0]
  /\ result = [s \in Savers |-> "none"]
  /\ begun = 0 /\ crashes = 0

Goto(s, from, to) == pc[s] = from /\ pc' = [pc EXCEPT ![s] = to]

Begin(s) ==
  /\ begun < MaxSaves
  /\ Goto(s, "idle", "remove")
  /\ begun' = begun + 1
  /\ saving' = [saving EXCEPT ![s] = begun + 1]
  /\ result' = [result EXCEPT ![s] = "none"]
  /\ UNCHANGED <<names, data, fd, written, crashes>>

\* std::filesystem::remove(temp, ec)
RemoveTmp(s) ==
  /\ Goto(s, "remove", "open")
  /\ names' = [names EXCEPT !.tmp = NoFile]
  /\ UNCHANGED <<data, fd, written, saving, result, begun, crashes>>

\* Mutant: the lines are written into the manifest itself.
OpenTarget(s) ==
  /\ Goto(s, "open", "write")
  /\ data' = [data EXCEPT ![names.manifest] = Empty]
  /\ fd' = [fd EXCEPT ![s] = names.manifest]
  /\ written' = [written EXCEPT ![s] = 0]
  /\ UNCHANGED <<names, saving, result, begun, crashes>>

\* std::ofstream stream(temp, std::ios::trunc)
OpenTmp(s) ==
  /\ Goto(s, "open", "write")
  /\ LET f == IF names.tmp # NoFile THEN names.tmp
              ELSE Cardinality(DOMAIN data) + 1
     IN  /\ names' = [names EXCEPT !.tmp = f]
         /\ data' = [g \in DOMAIN data \cup {f} |-> IF g = f THEN Empty ELSE data[g]]
         /\ fd' = [fd EXCEPT ![s] = f]
  /\ written' = [written EXCEPT ![s] = 0]
  /\ UNCHANGED <<saving, result, begun, crashes>>

\* The stream does not open: Save returns false at once.
OpenFails(s) ==
  /\ Goto(s, "open", "idle")
  /\ result' = [result EXCEPT ![s] = "false"]
  /\ UNCHANGED <<names, data, fd, written, saving, begun, crashes>>

\* WriteManifest
Write(s) ==
  /\ pc[s] = "write" /\ written[s] < Chunks
  /\ data' = [data EXCEPT ![fd[s]][written[s] + 1] = saving[s]]
  /\ written' = [written EXCEPT ![s] = @ + 1]
  /\ UNCHANGED <<names, pc, fd, saving, result, begun, crashes>>

\* stream.close(), after the last write only.
Close(s) ==
  /\ written[s] = Chunks
  /\ Goto(s, "write", "rename")
  /\ fd' = [fd EXCEPT ![s] = NoFile]
  /\ UNCHANGED <<names, data, written, saving, result, begun, crashes>>

\* Mutant: a failed write is not noticed.
WriteFailsUnnoticed(s) ==
  /\ Goto(s, "write", "rename")
  /\ fd' = [fd EXCEPT ![s] = NoFile]
  /\ UNCHANGED <<names, data, written, saving, result, begun, crashes>>

\* A write or the close fails.
WriteFails(s) ==
  /\ Goto(s, "write", "give_up")
  /\ fd' = [fd EXCEPT ![s] = NoFile]
  /\ UNCHANGED <<names, data, written, saving, result, begun, crashes>>

\* ReplaceFileAtomically succeeds: there is a file to rename.
Rename(s) ==
  /\ names.tmp # NoFile
  /\ Goto(s, "rename", "idle")
  /\ names' = [manifest |-> names.tmp, tmp |-> NoFile]
  /\ result' = [result EXCEPT ![s] = "true"]
  /\ UNCHANGED <<data, fd, written, saving, begun, crashes>>

\* Mutant: the result of the rename is dropped.
RenameFailsUnnoticed(s) ==
  /\ Goto(s, "rename", "idle")
  /\ result' = [result EXCEPT ![s] = "true"]
  /\ UNCHANGED <<names, data, fd, written, saving, begun, crashes>>

\* The rename fails, which it must when another saver has taken the name away.
RenameFails(s) ==
  /\ Goto(s, "rename", "give_up")
  /\ UNCHANGED <<names, data, fd, written, saving, result, begun, crashes>>

\* std::filesystem::remove(temp, ec); return false
GiveUp(s) ==
  /\ Goto(s, "give_up", "idle")
  /\ names' = [names EXCEPT !.tmp = NoFile]
  /\ result' = [result EXCEPT ![s] = "false"]
  /\ UNCHANGED <<data, fd, written, saving, begun, crashes>>

\* The process is killed, and a later one finds the directory as it was left.
Crash ==
  /\ crashes < MaxCrashes
  /\ crashes' = crashes + 1
  /\ pc' = [s \in Savers |-> "idle"]
  /\ fd' = [s \in Savers |-> NoFile]
  /\ result' = [s \in Savers |-> "none"]
  /\ UNCHANGED <<names, data, written, saving, begun>>

Save(s) ==
  \/ Begin(s) \/ RemoveTmp(s) \/ OpenTmp(s) \/ OpenFails(s) \/ Write(s)
  \/ Close(s) \/ WriteFails(s) \/ Rename(s) \/ RenameFails(s) \/ GiveUp(s)

Next == (\E s \in Savers : Save(s)) \/ Crash

Spec == Init /\ [][Next]_vars

-----------------------------------------------------------------------------
\* Every variable stays within its type, and there is always a manifest.
TypeOK ==
  /\ DOMAIN data \subseteq Files
  /\ data \in [DOMAIN data -> [1..Chunks -> Version \cup {Blank}]]
  /\ names \in [manifest : DOMAIN data, tmp : DOMAIN data \cup {NoFile}]
  /\ pc \in [Savers -> {"idle", "remove", "open", "write", "rename", "give_up"}]
  /\ fd \in [Savers -> DOMAIN data \cup {NoFile}]
  /\ written \in [Savers -> 0..Chunks]
  /\ saving \in [Savers -> Version]
  /\ result \in [Savers -> {"none", "true", "false"}]
  /\ begun \in 0..MaxSaves /\ crashes \in 0..MaxCrashes

\* What a Load of the path would read.
Stored == data[names.manifest]

\* 报告大纲.md:244: at any time, whatever crashes, the manifest is an old or a
\* new version, never anything in between.
ManifestWhole == \E v \in Version : Stored = Whole(v)

\* A saver that is told its Save succeeded or failed is told the truth, until
\* it saves again: CmdInsert reports the batch as inserted, and the compaction
\* worker deletes the sources, on this answer alone.
ResultIsTrue ==
  \A s \in Savers :
    /\ result[s] = "true" => Stored = Whole(saving[s])
    /\ result[s] = "false" => Stored # Whole(saving[s])

\* With one saver, the steps of Save, its failures and the crashes implement a
\* file that jumps from version to version and never back.
File == INSTANCE ManifestFile WITH version <- Stored[1]
ImplementsManifestFile == File!Spec
=============================================================================
