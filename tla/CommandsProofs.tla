--------------------------- MODULE CommandsProofs ---------------------------
(***************************************************************************)
(* Theorems about Commands, and about ManifestSave with the one process    *)
(* that Commands assumes, for every number of saves, crashes, chunks,      *)
(* builds, paths and sizes.                                                *)
(*                                                                         *)
(* Until its rename the saver writes to a file that is not the manifest    *)
(* (SaverInv), and the version it writes is later than the one stored, so  *)
(* that what it is told about its Save is true.                            *)
(***************************************************************************)
EXTENDS Commands, FiniteSetTheorems, SequenceTheorems, TLAPS

\* There is one saver.
LEMMA Alone == /\ \A s, t \in Savers : s = t
               /\ \E s \in Savers : TRUE
<1>1. PICK x : Savers = {x}
  BY SaversAssumption, OneProcess, FS_Singleton DEF SaversAssumption, OneProcess
<1> QED
  BY <1>1

States == {"idle", "remove", "open", "write", "rename", "give_up"}
Texts == [1..Chunks -> Version \cup {Blank}]

\* How many files there have been; a new one gets the next number.
Files0 == Cardinality(DOMAIN data)

SaveTypes ==
  /\ TypeOK
  /\ DOMAIN data = 1..Files0 /\ Files0 \in Nat
  /\ Files0 <= begun + 1
  /\ \A s \in Savers : pc[s] \in {"remove", "open"} => Files0 <= begun

\* The manifest is whole, and of a version whose save has begun.
StoredInv == Stored = Whole(Stored[1]) /\ Stored[1] \in 0..begun

SaverInv ==
  /\ names.tmp # names.manifest
  /\ \A s \in Savers :
       /\ saving[s] <= begun
       /\ pc[s] # "idle" => result[s] = "none" /\ Stored[1] < saving[s]
       /\ pc[s] = "write" => /\ fd[s] = names.tmp /\ fd[s] # NoFile
                             /\ \A i \in 1..written[s] : data[fd[s]][i] = saving[s]
       /\ pc[s] = "rename" => names.tmp # NoFile /\ data[names.tmp] = Whole(saving[s])
       /\ result[s] = "true" => Stored[1] = saving[s]
       /\ result[s] = "false" => Stored[1] < saving[s]

SaveInv == SaveTypes /\ StoredInv /\ SaverInv

LEMMA WholeValue == \A v : Whole(v)[1] = v
  BY BoundsAssumption DEF BoundsAssumption, Whole

LEMMA InitSave == Init => SaveInv
<1> SUFFICES ASSUME Init PROVE SaveInv
  OBVIOUS
<1> USE BoundsAssumption DEF BoundsAssumption
<1>1. /\ DOMAIN data = {1} /\ data[1] = Whole(0) /\ names.manifest = 1 /\ names.tmp = NoFile
      /\ 1..1 = {1}
  BY DEF Init
<1>2. Files0 = 1
  BY <1>1, FS_Singleton DEF Files0
<1>3. Whole(0) \in Texts /\ Whole(0)[1] = 0 /\ Stored = Whole(0)
  BY <1>1, WholeValue DEF Whole, Texts, Version, Stored
<1>4. TypeOK
  <2>1. /\ 1 \in Files /\ begun \in 0..MaxSaves /\ crashes \in 0..MaxCrashes /\ 0 \in Version
        /\ 0 \in 0..Chunks
    BY DEF Init, Files, Version
  <2>2. data \in [DOMAIN data -> [1..Chunks -> Version \cup {Blank}]]
    BY <1>1, <1>3 DEF Texts, Init
  <2>3. names \in [manifest : DOMAIN data, tmp : DOMAIN data \cup {NoFile}]
    BY <1>1 DEF Init
  <2> QED
    BY <1>1, <2>1, <2>2, <2>3 DEF Init, TypeOK
<1>5. SaveTypes
  BY <1>1, <1>2, <1>4 DEF SaveTypes, Init
<1>6. StoredInv
  BY <1>3 DEF StoredInv, Init
<1>7. SaverInv
  BY <1>1 DEF SaverInv, Init, NoFile
<1> QED
  BY <1>5, <1>6, <1>7 DEF SaveInv

-----------------------------------------------------------------------------
(***************************************************************************)
(* The steps of Save.  All are of the one saver.                           *)
(***************************************************************************)

\* A step that leaves the files alone.
LEMMA QuietTypes ==
  ASSUME SaveTypes, UNCHANGED <<data, begun>>, TypeOK',
         \A s \in Savers : pc'[s] \in {"remove", "open"} => pc[s] \in {"remove", "open"}
  PROVE  SaveTypes'
BY DEF SaveTypes, Files0

LEMMA BeginInv ==
  ASSUME SaveInv, NEW s \in Savers, Begin(s)
  PROVE  SaveInv'
<1> USE DEF SaveInv
<1>1. /\ begun \in 0..MaxSaves /\ begun < MaxSaves /\ begun' = begun + 1 /\ pc[s] = "idle"
      /\ begun' \in Version
      /\ UNCHANGED <<names, data, fd, written, crashes>>
      /\ pc' = [pc EXCEPT ![s] = "remove"] /\ saving' = [saving EXCEPT ![s] = begun + 1]
      /\ result' = [result EXCEPT ![s] = "none"]
  BY BoundsAssumption DEF Begin, Goto, SaveTypes, TypeOK, Version, BoundsAssumption
<1>2. TypeOK'
  BY <1>1, BoundsAssumption DEF SaveTypes, TypeOK, BoundsAssumption
<1>3. SaveTypes'
  BY <1>1, <1>2 DEF SaveTypes, Files0
<1>4. StoredInv'
  BY <1>1 DEF StoredInv, Stored
<1>5. SaverInv'
  <2>1. /\ pc'[s] = "remove" /\ saving'[s] = begun' /\ result'[s] = "none"
    BY <1>1 DEF SaveTypes, TypeOK
  <2>2. Stored[1]' < saving'[s]
    BY <1>1, <2>1 DEF StoredInv, Stored
  <2> QED
    BY <1>1, <2>1, <2>2, Alone DEF SaverInv
<1> QED
  BY <1>3, <1>4, <1>5

LEMMA RemoveInv ==
  ASSUME SaveInv, NEW s \in Savers, RemoveTmp(s) \/ GiveUp(s) \/ OpenFails(s)
  PROVE  SaveInv'
<1> USE DEF SaveInv
<1>1. /\ UNCHANGED <<data, fd, written, saving, begun, crashes>>
      /\ names' = names \/ names' = [names EXCEPT !.tmp = NoFile]
      /\ pc[s] # "idle" /\ pc' = [pc EXCEPT ![s] = IF RemoveTmp(s) THEN "open" ELSE "idle"]
      /\ result' = (IF RemoveTmp(s) THEN result ELSE [result EXCEPT ![s] = "false"])
      /\ RemoveTmp(s) => pc[s] = "remove"
  BY DEF RemoveTmp, GiveUp, OpenFails, Goto
<1>2. /\ names'.manifest = names.manifest /\ names'.tmp # names'.manifest
      /\ names' \in [manifest : DOMAIN data, tmp : DOMAIN data \cup {NoFile}]
  <2>1. names.manifest \in 1..Files0 /\ names \in [manifest : DOMAIN data, tmp : DOMAIN data \cup {NoFile}]
    BY DEF SaveTypes, TypeOK
  <2> QED
    BY <1>1, <2>1 DEF SaverInv, NoFile, SaveTypes
<1>3. TypeOK'
  BY <1>1, <1>2 DEF SaveTypes, TypeOK
<1>4. SaveTypes'
  <2>1. \A t \in Savers : pc'[t] \in {"remove", "open"} => pc[t] \in {"remove", "open"}
    BY <1>1 DEF SaveTypes, TypeOK
  <2> QED
    BY <1>1, <1>3, <2>1, QuietTypes
<1>5. Stored' = Stored
  BY <1>1, <1>2 DEF Stored
<1>6. StoredInv'
  BY <1>1, <1>5 DEF StoredInv
<1>7. SaverInv'
  <2>1. CASE RemoveTmp(s)
    <3>1. pc'[s] = "open" /\ result' = result
      BY <1>1, <2>1 DEF SaveTypes, TypeOK
    <3> QED
      BY <1>1, <1>2, <1>5, <2>1, <3>1, Alone DEF SaverInv
  <2>2. CASE ~RemoveTmp(s)
    <3>1. pc'[s] = "idle" /\ result'[s] = "false"
      BY <1>1, <2>2 DEF SaveTypes, TypeOK
    <3> QED
      BY <1>1, <1>2, <1>5, <3>1, Alone DEF SaverInv
  <2> QED
    BY <2>1, <2>2
<1> QED
  BY <1>4, <1>6, <1>7

LEMMA OpenInv ==
  ASSUME SaveInv, NEW s \in Savers, OpenTmp(s)
  PROVE  SaveInv' /\ Stored' = Stored
<1> USE DEF SaveInv
<1> DEFINE f == IF names.tmp # NoFile THEN names.tmp ELSE Files0 + 1
<1>1. /\ names' = [names EXCEPT !.tmp = f]
      /\ data' = [g \in DOMAIN data \cup {f} |-> IF g = f THEN Empty ELSE data[g]]
      /\ fd' = [fd EXCEPT ![s] = f]
      /\ pc[s] = "open" /\ pc' = [pc EXCEPT ![s] = "write"]
      /\ written' = [written EXCEPT ![s] = 0]
      /\ UNCHANGED <<saving, result, begun, crashes>>
  BY DEF OpenTmp, Goto, Files0
<1>2. /\ DOMAIN data = 1..Files0 /\ Files0 \in Nat /\ Files0 <= begun
      /\ begun \in 0..MaxSaves /\ MaxSaves \in Nat
      /\ names.manifest \in 1..Files0 /\ names.tmp \in 1..Files0 \cup {NoFile}
  BY <1>1, BoundsAssumption DEF SaveTypes, TypeOK, BoundsAssumption
<1>3. f \in Nat \ {0} /\ f # names.manifest /\ f # NoFile /\ f <= Files0 + 1
  BY <1>2 DEF SaverInv, NoFile
<1>4. DOMAIN data' = IF names.tmp # NoFile THEN 1..Files0 ELSE 1..Files0 + 1
  BY <1>1, <1>2 DEF NoFile
<1> HIDE DEF f
<1>5. Files0' = IF names.tmp # NoFile THEN Files0 ELSE Files0 + 1
  <2>1. /\ Cardinality(1..Files0) = Files0
        /\ Cardinality(1..Files0 + 1) = Files0 + 1
    BY <1>2, FS_Interval
  <2> QED
    BY <1>4, <2>1 DEF Files0
<1>6. /\ DOMAIN data' = 1..Files0' /\ Files0' \in Nat /\ Files0' <= begun + 1
      /\ DOMAIN data' \subseteq Files
  BY <1>2, <1>4, <1>5 DEF Files
<1>7. /\ \A g \in DOMAIN data : g # f => data'[g] = data[g]
      /\ data'[f] = Empty /\ f \in DOMAIN data' /\ DOMAIN data \subseteq DOMAIN data'
  BY <1>1
<1>8. Empty \in [1..Chunks -> Version \cup {Blank}]
  BY DEF Empty, Whole
<1>9. data' \in [DOMAIN data' -> [1..Chunks -> Version \cup {Blank}]]
  BY <1>1, <1>8 DEF SaveTypes, TypeOK
<1>10. 0 \in 0..Chunks
  BY BoundsAssumption DEF BoundsAssumption
<1>11. TypeOK'
  <2>1. fd' \in [Savers -> DOMAIN data' \cup {NoFile}]
    BY <1>1, <1>7 DEF SaveTypes, TypeOK
  <2>2. names' \in [manifest : DOMAIN data', tmp : DOMAIN data' \cup {NoFile}]
    BY <1>1, <1>7 DEF SaveTypes, TypeOK
  <2> QED
    BY <1>1, <1>6, <1>9, <1>10, <2>1, <2>2 DEF SaveTypes, TypeOK
<1>12. \A t \in Savers : pc'[t] = "write"
  BY <1>1, Alone DEF SaveTypes, TypeOK
<1>13. SaveTypes'
  BY <1>1, <1>6, <1>11, <1>12 DEF SaveTypes
<1>14. Stored' = Stored /\ names'.manifest = names.manifest /\ names'.tmp = f
  BY <1>1, <1>2, <1>3, <1>7 DEF Stored, SaveTypes, TypeOK
<1>15. StoredInv'
  BY <1>1, <1>14 DEF StoredInv
<1>16. SaverInv'
  <2>1. /\ fd'[s] = f /\ written'[s] = 0 /\ 1..0 = {}
    BY <1>1 DEF SaveTypes, TypeOK
  <2> QED
    BY <1>1, <1>3, <1>12, <1>14, <2>1, Alone DEF SaverInv
<1> QED
  BY <1>13, <1>14, <1>15, <1>16

LEMMA WriteInv ==
  ASSUME SaveInv, NEW s \in Savers, Write(s)
  PROVE  SaveInv' /\ Stored' = Stored
<1> USE DEF SaveInv
<1>1. /\ pc[s] = "write" /\ written[s] < Chunks
      /\ data' = [data EXCEPT ![fd[s]][written[s] + 1] = saving[s]]
      /\ written' = [written EXCEPT ![s] = written[s] + 1]
      /\ UNCHANGED <<names, pc, fd, saving, result, begun, crashes>>
  BY DEF Write
<1>2. /\ fd[s] = names.tmp /\ fd[s] # NoFile /\ names.tmp # names.manifest
      /\ fd[s] \in DOMAIN data /\ names.manifest \in DOMAIN data
      /\ data \in [DOMAIN data -> [1..Chunks -> Version \cup {Blank}]]
      /\ written[s] \in Nat /\ written[s] + 1 \in 1..Chunks
      /\ saving[s] \in Version
  BY <1>1, BoundsAssumption DEF SaverInv, SaveTypes, TypeOK, BoundsAssumption
<1>3. /\ data' \in [DOMAIN data -> [1..Chunks -> Version \cup {Blank}]]
      /\ DOMAIN data' = DOMAIN data
  BY <1>1, <1>2
<1>4. /\ data'[names.manifest] = data[names.manifest]
      /\ \A i \in 1..Chunks : data'[fd[s]][i] = IF i = written[s] + 1 THEN saving[s] ELSE data[fd[s]][i]
  BY <1>1, <1>2
<1>5. TypeOK'
  <2>1. written' \in [Savers -> 0..Chunks]
    BY <1>1, <1>2 DEF SaveTypes, TypeOK
  <2> QED
    BY <1>1, <1>3, <2>1 DEF SaveTypes, TypeOK
<1>6. SaveTypes'
  BY <1>1, <1>3, <1>5 DEF SaveTypes, Files0
<1>7. Stored' = Stored
  BY <1>1, <1>4 DEF Stored
<1>8. StoredInv'
  BY <1>1, <1>7 DEF StoredInv
<1>9. SaverInv'
  <2>1. written'[s] = written[s] + 1
    BY <1>1 DEF SaveTypes, TypeOK
  <2>2. \A i \in 1..written'[s] : i \in 1..Chunks /\ (i = written[s] + 1 \/ i \in 1..written[s])
    BY <1>2, <2>1, BoundsAssumption DEF BoundsAssumption
  <2>3. \A i \in 1..written'[s] : data'[fd[s]][i] = saving[s]
    BY <1>1, <1>4, <2>2 DEF SaverInv
  <2> QED
    BY <1>1, <1>7, <2>3, Alone DEF SaverInv
<1> QED
  BY <1>6, <1>7, <1>8, <1>9

LEMMA CloseInv ==
  ASSUME SaveInv, NEW s \in Savers, Close(s) \/ WriteFails(s) \/ RenameFails(s)
  PROVE  SaveInv'
<1> USE DEF SaveInv
<1>1. /\ UNCHANGED <<names, data, written, saving, result, begun, crashes>>
      /\ pc[s] # "idle" /\ pc' = [pc EXCEPT ![s] = IF Close(s) THEN "rename" ELSE "give_up"]
      /\ fd' = fd \/ fd' = [fd EXCEPT ![s] = NoFile]
      /\ Close(s) => pc[s] = "write" /\ written[s] = Chunks
  BY DEF Close, WriteFails, RenameFails, Goto
<1>2. TypeOK'
  BY <1>1 DEF SaveTypes, TypeOK
<1>3. \A t \in Savers : pc'[t] = IF Close(s) THEN "rename" ELSE "give_up"
  BY <1>1, Alone DEF SaveTypes, TypeOK
<1>4. SaveTypes'
  BY <1>1, <1>2, <1>3, QuietTypes
<1>5. StoredInv' /\ Stored' = Stored
  BY <1>1 DEF StoredInv, Stored
<1>6. Close(s) => names.tmp # NoFile /\ data[names.tmp] = Whole(saving[s])
  <2> SUFFICES ASSUME Close(s) PROVE names.tmp # NoFile /\ data[names.tmp] = Whole(saving[s])
    OBVIOUS
  <2>1. /\ names.tmp # NoFile /\ \A i \in 1..Chunks : data[names.tmp][i] = saving[s]
    BY <1>1 DEF SaverInv
  <2>2. data[names.tmp] \in [1..Chunks -> Version \cup {Blank}]
    BY <2>1 DEF SaveTypes, TypeOK
  <2> QED
    BY <2>1, <2>2 DEF Whole
<1>7. SaverInv'
  BY <1>1, <1>3, <1>5, <1>6, Alone DEF SaverInv
<1> QED
  BY <1>4, <1>5, <1>7

LEMMA RenameInv ==
  ASSUME SaveInv, NEW s \in Savers, Rename(s)
  PROVE  /\ SaveInv'
         /\ Stored' = Whole(saving[s]) /\ Stored[1] < saving[s] /\ result'[s] = "true"
<1> USE DEF SaveInv
<1>1. /\ names.tmp # NoFile /\ pc[s] = "rename" /\ pc' = [pc EXCEPT ![s] = "idle"]
      /\ names' = [manifest |-> names.tmp, tmp |-> NoFile]
      /\ result' = [result EXCEPT ![s] = "true"]
      /\ UNCHANGED <<data, fd, written, saving, begun, crashes>>
  BY DEF Rename, Goto
<1>2. names.tmp \in DOMAIN data /\ NoFile \notin DOMAIN data
  BY <1>1 DEF SaveTypes, TypeOK, NoFile
<1>3. TypeOK'
  BY <1>1, <1>2 DEF SaveTypes, TypeOK
<1>4. /\ pc'[s] = "idle" /\ result'[s] = "true"
  BY <1>1 DEF SaveTypes, TypeOK
<1>5. SaveTypes'
  BY <1>1, <1>3, <1>4, Alone, QuietTypes
<1>6. /\ Stored' = Whole(saving[s]) /\ Stored[1]' = saving[s] /\ saving[s] \in 0..begun
      /\ Stored[1] < saving[s]
  <2>1. Stored' = Whole(saving[s])
    BY <1>1 DEF SaverInv, Stored
  <2>2. saving[s] \in 0..begun
    BY <1>1, BoundsAssumption DEF SaverInv, SaveTypes, TypeOK, Version, BoundsAssumption
  <2>3. Stored[1]' = saving[s]
    BY <2>1, WholeValue
  <2> QED
    BY <1>1, <2>1, <2>2, <2>3 DEF SaverInv
<1>7. StoredInv'
  BY <1>1, <1>6 DEF StoredInv
<1>8. SaverInv'
  BY <1>1, <1>2, <1>4, <1>6, Alone DEF SaverInv
<1> QED
  BY <1>4, <1>5, <1>6, <1>7, <1>8

LEMMA CrashInv ==
  ASSUME SaveInv, Crash
  PROVE  SaveInv'
<1> USE DEF SaveInv
<1>1. /\ \A s \in Savers : pc'[s] = "idle" /\ result'[s] = "none"
      /\ UNCHANGED <<names, data, written, saving, begun>>
  BY DEF Crash
<1>2. TypeOK'
  BY BoundsAssumption DEF Crash, SaveTypes, TypeOK, BoundsAssumption
<1>3. SaveTypes'
  BY <1>1, <1>2, QuietTypes
<1>4. StoredInv'
  BY <1>1 DEF StoredInv, Stored
<1>5. SaverInv'
  BY <1>1 DEF SaverInv
<1> QED
  BY <1>3, <1>4, <1>5

\* What a step of Save makes of the manifest: nothing, or the version being saved,
\* which is later, and Save returns true.
LEMMA SaveStep ==
  ASSUME SaveInv, NEW s \in Savers, Save(s)
  PROVE  /\ SaveInv'
         /\ \/ Stored' = Stored /\ ~(pc[s] # "idle" /\ pc'[s] = "idle" /\ result'[s] = "true")
            \/ /\ Stored' = Whole(saving[s]) /\ Stored[1] < saving[s]
               /\ pc[s] # "idle" /\ pc'[s] = "idle" /\ result'[s] = "true"
<1>1. CASE Begin(s)
  BY <1>1, BeginInv DEF Begin, Goto, Stored
<1>2. CASE RemoveTmp(s) \/ GiveUp(s) \/ OpenFails(s)
  <2>1. SaveInv' /\ data' = data /\ names'.manifest = names.manifest
    <3>1. names' = names \/ names' = [names EXCEPT !.tmp = NoFile]
      BY <1>2 DEF RemoveTmp, GiveUp, OpenFails
    <3>2. names \in [manifest : DOMAIN data, tmp : DOMAIN data \cup {NoFile}]
      BY DEF SaveInv, SaveTypes, TypeOK
    <3>3. names'.manifest = names.manifest
      BY <3>1, <3>2
    <3> QED
      BY <1>2, <3>3, RemoveInv DEF RemoveTmp, GiveUp, OpenFails
  <2>2. ~(pc[s] # "idle" /\ pc'[s] = "idle" /\ result'[s] = "true")
    BY <1>2 DEF RemoveTmp, GiveUp, OpenFails, Goto, SaveInv, SaveTypes, TypeOK
  <2> QED
    BY <2>1, <2>2 DEF Stored
<1>3. CASE OpenTmp(s)
  <2>1. pc'[s] = "write"
    BY <1>3 DEF OpenTmp, Goto, SaveInv, SaveTypes, TypeOK
  <2> QED
    BY <1>3, <2>1, OpenInv
<1>4. CASE Write(s)
  <2>1. pc'[s] = "write"
    BY <1>4 DEF Write
  <2> QED
    BY <1>4, <2>1, WriteInv
<1>5. CASE Close(s) \/ WriteFails(s) \/ RenameFails(s)
  <2>1. pc'[s] \in {"rename", "give_up"}
    BY <1>5 DEF Close, WriteFails, RenameFails, Goto, SaveInv, SaveTypes, TypeOK
  <2>2. UNCHANGED <<names, data>>
    BY <1>5 DEF Close, WriteFails, RenameFails
  <2> QED
    BY <1>5, <2>1, <2>2, CloseInv DEF Stored
<1>6. CASE Rename(s)
  <2>1. pc[s] = "rename" /\ pc'[s] = "idle"
    BY <1>6 DEF Rename, Goto, SaveInv, SaveTypes, TypeOK
  <2> QED
    BY <1>6, <2>1, RenameInv
<1> QED
  BY <1>1, <1>2, <1>3, <1>4, <1>5, <1>6 DEF Save

-----------------------------------------------------------------------------
(***************************************************************************)
(* The steps of the commands.                                              *)
(***************************************************************************)

\* What a command does to the manifest and to the saver.
LEMMA CommandStep ==
  ASSUME CommandNext
  PROVE  (\E s \in Savers : Save(s)) \/ Crash \/ UNCHANGED vars
<1>1. CASE TrainPq
  BY <1>1 DEF TrainPq
<1>2. CASE Build
  BY <1>2 DEF Build, OpenSegment, WriteBlock, WriteBlockFails, FlushSegment,
              FlushSegmentFails, BeginSave, SaveManifest, Kill, Save
<1>3. CASE Query
  BY <1>3 DEF Query, LoadManifest, ReadHeader, ReadPQSection, ReadNode, ReadNodeFails,
              ReadNodeOutOfStep, EndQuery
<1> QED
  BY <1>1, <1>2, <1>3 DEF CommandNext

LEMMA SaveStutters == SaveInv /\ UNCHANGED vars => SaveInv'
BY DEF SaveInv, SaveTypes, StoredInv, SaverInv, vars, saverVars, TypeOK, Stored, Files0

LEMMA SaveNext ==
  ASSUME SaveInv, [CommandNext]_commandVars
  PROVE  SaveInv' /\ (Stored' = Stored \/ Stored[1]' > Stored[1])
<1>1. CASE UNCHANGED vars
  BY <1>1, SaveStutters DEF vars, Stored
<1>2. ASSUME NEW s \in Savers, Save(s)
      PROVE  SaveInv' /\ (Stored' = Stored \/ Stored[1]' > Stored[1])
  <2>1. CASE Stored' = Whole(saving[s]) /\ Stored[1] < saving[s]
    <3>1. Stored[1]' = saving[s]
      BY <2>1, WholeValue
    <3>2. Stored[1] \in Nat /\ saving[s] \in Nat
      BY BoundsAssumption DEF SaveInv, StoredInv, SaveTypes, TypeOK, Version, BoundsAssumption
    <3> QED
      BY <1>2, <2>1, <3>1, <3>2, SaveStep
  <2> QED
    BY <1>2, <2>1, SaveStep
<1>3. CASE Crash
  BY <1>3, CrashInv DEF Crash, Stored
<1> QED
  BY <1>1, <1>2, <1>3, CommandStep DEF commandVars

LEMMA SaveAlways == CommandSpec => []SaveInv
<1>1. CommandInit => SaveInv
  BY InitSave DEF CommandInit
<1>2. SaveInv /\ [CommandNext]_commandVars => SaveInv'
  BY SaveNext
<1> QED
  BY <1>1, <1>2, PTL DEF CommandSpec

\* 报告大纲.md:244: whatever fails or is killed, and whenever, the manifest is a whole
\* version (manifest.cpp, Manifest::Save).
THEOREM ManifestAlwaysWhole == CommandSpec => []ManifestWhole
<1>1. SaveInv => ManifestWhole
  BY BoundsAssumption DEF SaveInv, StoredInv, ManifestWhole, SaveTypes, TypeOK, Version,
                          BoundsAssumption
<1> QED
  BY <1>1, SaveAlways, PTL

\* Save says the truth of whether the manifest is now the one it was given.
THEOREM SaveTellsTheTruth == CommandSpec => []ResultIsTrue
<1>1. SaveInv => ResultIsTrue
  <2> SUFFICES ASSUME SaveInv, NEW s \in Savers
               PROVE  /\ result[s] = "true" => Stored = Whole(saving[s])
                      /\ result[s] = "false" => Stored # Whole(saving[s])
    BY DEF ResultIsTrue
  <2>1. Stored[1] \in Nat /\ saving[s] \in Nat
    BY BoundsAssumption DEF SaveInv, StoredInv, SaveTypes, TypeOK, Version, BoundsAssumption
  <2>2. ASSUME Stored = Whole(saving[s]) PROVE Stored[1] = saving[s]
    BY <2>2, WholeValue
  <2> QED
    BY <2>1, <2>2 DEF SaveInv, StoredInv, SaverInv
<1> QED
  BY <1>1, SaveAlways, PTL

\* The steps of Save, and the kills between them, are to a reader one atomic
\* replacement by a later version, or nothing.
THEOREM SaveIsAtomic == CommandSpec => ImplementsManifestFile
<1>1. CommandInit => File!Init
  <2> SUFFICES ASSUME CommandInit PROVE Stored[1] = 0
    BY DEF File!Init
  <2>1. Stored = Whole(0)
    BY DEF CommandInit, Init, Stored
  <2> QED
    BY <2>1, WholeValue
<1>2. SaveInv /\ SaveInv' /\ [CommandNext]_commandVars => [File!Replace]_(Stored[1])
  <2> SUFFICES ASSUME SaveInv, SaveInv', [CommandNext]_commandVars
               PROVE  File!Replace \/ Stored[1]' = Stored[1]
    OBVIOUS
  <2>1. Stored[1]' \in Nat
    BY BoundsAssumption DEF SaveInv, StoredInv, SaveTypes, TypeOK, Version, BoundsAssumption
  <2>2. Stored' = Stored \/ Stored[1]' > Stored[1]
    BY SaveNext
  <2> QED
    BY <2>1, <2>2 DEF File!Replace
<1> QED
  BY <1>1, <1>2, SaveAlways, PTL DEF CommandSpec, ImplementsManifestFile, File!Spec
-----------------------------------------------------------------------------
(***************************************************************************)
(* The inductive invariant of the commands, beside SaveInv.                *)
(***************************************************************************)

Blocks == [build : Nat, index : Nat,
           kind : {"header", "record", "pq_header", "centroids", "codes", "torn", "unread"}]
BuildRecords == [path : Paths, count : Counts, codebook : {"none", "whole"}]
Building == cpc \in {"write", "save"}
PastHeader == cpc \in {"pq_header", "centroids", "codes", "nodes"}
Reading == cpc = "header" \/ PastHeader

\* A build that used a codebook read it whole.
DiskTypes ==
  /\ uring \in BOOLEAN
  /\ builds \in Seq(BuildRecords)
  /\ files \in [Paths -> Seq(Blocks)]
  /\ versions \in Seq(Nat)
  /\ Building \/ Reading \/ cpc = "idle"
  /\ done \in Nat /\ built \in 0..Len(builds)
  /\ Building => Len(builds) > 0
  /\ segment.path \in Paths \cup {"none"} /\ segment = [path |-> segment.path, header |-> segment.header]
  /\ Reading => segment.path \in Paths

\* The first n blocks of a file are those of the build.
HasFirst(file, b, n) ==
  /\ n <= Len(file) /\ n <= Len(LayoutOf(b))
  /\ \A k \in 1..n : file[k] = LayoutOf(b)[k]
FileOf(b) == files[builds[b].path]
Complete(b) == HasFirst(FileOf(b), b, Len(LayoutOf(b)))

\* A build writes block by block; it never has the file of the one that is served.
DiskInv ==
  /\ built # 0 => Complete(built)
  /\ Building /\ built # 0 => builds[built].path # Current.path
  /\ cpc = "write" => HasFirst(FileOf(Len(builds)), Len(builds), done)
  /\ cpc = "save" => Complete(Len(builds))

\* A save is of the last build; the manifest names the build that is served.
VersionInv ==
  /\ Len(versions) = begun
  /\ \A v \in 1..begun : versions[v] \in 1..Len(builds)
  /\ \A s \in Savers : pc[s] # "idle" =>
       cpc = "save" /\ saving[s] = begun /\ begun > 0 /\ versions[begun] = Len(builds)
  /\ built # 0 => Stored[1] # 0 /\ versions[Stored[1]] = built

\* Where opening truncates, a file holds the beginning of one build.
SyncInv ==
  ~uring =>
    /\ \A p \in Paths : files[p] = <<>>
                        \/ \E b \in 1..Len(builds) : HasFirst(files[p], b, Len(files[p]))
    /\ cpc = "write" => Len(FileOf(Len(builds))) = done
    /\ stream # "out_of_step"

ReadInv ==
  /\ got # Nothing => Reading
  /\ Reading /\ built # 0 => segment.path = builds[built].path
  /\ PastHeader => /\ FileRead # <<>> /\ segment.header = FileRead[1]
                   /\ segment.header.kind = "header"
  /\ cpc \in {"pq_header", "centroids", "codes"} => HasPQ(segment.header)
  /\ NoMixOnSync
  /\ (built # 0 /\ got # Nothing /\ stream = "ok") => GotFrom(built)

CommandInv == SaveInv /\ DiskTypes /\ DiskInv /\ VersionInv /\ SyncInv /\ ReadInv

-----------------------------------------------------------------------------
(***************************************************************************)
(* The layout of a segment file.                                           *)
(***************************************************************************)

\* Which blocks a build writes.
Written(n, has_pq, kind, i) ==
  \/ kind = "header" /\ i = 0
  \/ kind = "record" /\ i \in 1..n
  \/ has_pq /\ kind \in {"pq_header", "centroids", "codes"} /\ i = 0

\* Offset finds every block of a build where Layout puts it.
LEMMA LayoutShape ==
  ASSUME NEW b \in Nat, NEW n \in Nat \ {0}, NEW has_pq \in BOOLEAN
  PROVE  /\ Layout(b, n, has_pq) \in Seq(Blocks)
         /\ Len(Layout(b, n, has_pq)) = n + (IF has_pq THEN 4 ELSE 1)
         /\ \A kind, i : Written(n, has_pq, kind, i) =>
              /\ Offset(kind, i, n) \in 1..Len(Layout(b, n, has_pq))
              /\ Layout(b, n, has_pq)[Offset(kind, i, n)] = Block(b, kind, i)
<1> DEFINE header  == <<Block(b, "header", 0)>>
           records == [i \in 1..n |-> Block(b, "record", i)]
           section == IF has_pq THEN <<Block(b, "pq_header", 0), Block(b, "centroids", 0),
                                       Block(b, "codes", 0)>>
                      ELSE <<>>
           layout  == Layout(b, n, has_pq)
<1>1. /\ \A kind, i : i \in Nat /\ kind \in {"header", "record", "pq_header", "centroids", "codes"}
           => Block(b, kind, i) \in Blocks
  BY DEF Block, Blocks
<1>2. header \in Seq(Blocks) /\ Len(header) = 1 /\ header[1] = Block(b, "header", 0)
  BY <1>1
<1>3. records \in Seq(Blocks) /\ Len(records) = n /\ \A i \in 1..n : records[i] = Block(b, "record", i)
  BY <1>1
<1>4. section \in Seq(Blocks) /\ Len(section) = IF has_pq THEN 3 ELSE 0
  BY <1>1
<1>5. has_pq => /\ section[1] = Block(b, "pq_header", 0)
                /\ section[2] = Block(b, "centroids", 0)
                /\ section[3] = Block(b, "codes", 0)
  OBVIOUS
<1>6. layout = (header \o records) \o section
  BY DEF Layout
<1> HIDE DEF header, records, section, layout
<1>7. /\ header \o records \in Seq(Blocks) /\ Len(header \o records) = n + 1
      /\ \A i \in 1..n + 1 : (header \o records)[i] = IF i = 1 THEN header[1] ELSE records[i - 1]
  <2>1. /\ header \o records \in Seq(Blocks) /\ Len(header \o records) = Len(header) + Len(records)
        /\ \A i \in 1..Len(header) + Len(records) :
             (header \o records)[i] = IF i <= Len(header) THEN header[i] ELSE records[i - Len(header)]
    BY <1>2, <1>3, ConcatProperties
  <2>2. \A i \in 1..n + 1 : i <= 1 <=> i = 1
    OBVIOUS
  <2> QED
    BY <1>2, <1>3, <2>1, <2>2
<1>8. /\ layout \in Seq(Blocks) /\ Len(layout) = n + 1 + Len(section)
      /\ \A i \in 1..n + 1 + Len(section) :
           layout[i] = IF i <= n + 1 THEN (header \o records)[i] ELSE section[i - (n + 1)]
  <2> DEFINE head == header \o records
  <2>1. /\ head \o section \in Seq(Blocks) /\ Len(head \o section) = Len(head) + Len(section)
        /\ \A i \in 1..Len(head) + Len(section) :
             (head \o section)[i] = IF i <= Len(head) THEN head[i] ELSE section[i - Len(head)]
    <3>1. head \in Seq(Blocks) /\ section \in Seq(Blocks)
      BY <1>4, <1>7
    <3> HIDE DEF head
    <3> QED
      BY <3>1, ConcatProperties
  <2> QED
    BY <1>6, <1>7, <2>1
<1>9. Len(layout) = n + (IF has_pq THEN 4 ELSE 1)
  BY <1>4, <1>8
<1>10. ASSUME NEW kind, NEW i, Written(n, has_pq, kind, i)
       PROVE  /\ Offset(kind, i, n) \in 1..Len(layout)
              /\ layout[Offset(kind, i, n)] = Block(b, kind, i)
  <2>1. CASE kind = "header" /\ i = 0
    <3>1. Offset(kind, i, n) = 1 /\ 1 \in 1..Len(layout)
      BY <1>9, <2>1 DEF Offset
    <3>2. layout[1] = Block(b, "header", 0)
      <4>1. 1 \in 1..n + 1 /\ 1 \in 1..n + 1 + Len(section) /\ 1 <= n + 1
        BY <1>4
      <4> QED
        BY <1>2, <1>7, <1>8, <4>1
    <3> QED
      BY <2>1, <3>1, <3>2
  <2>2. CASE kind = "record" /\ i \in 1..n
    <3>1. Offset(kind, i, n) = 1 + i /\ 1 + i \in 1..Len(layout) /\ 1 + i \in 1..n + 1
      BY <1>9, <2>2 DEF Offset
    <3>2. layout[1 + i] = Block(b, "record", i)
      BY <1>3, <1>4, <1>7, <1>8, <2>2, <3>1
    <3> QED
      BY <2>2, <3>1, <3>2
  <2>3. CASE has_pq /\ kind \in {"pq_header", "centroids", "codes"} /\ i = 0
    <3> DEFINE k == IF kind = "pq_header" THEN 1 ELSE IF kind = "centroids" THEN 2 ELSE 3
    <3>1. Offset(kind, i, n) = n + 1 + k /\ n + 1 + k \in 1..Len(layout) /\ k \in 1..3
      BY <1>9, <2>3 DEF Offset
    <3>2. section[k] = Block(b, kind, 0)
      BY <1>5, <2>3
    <3>3. layout[n + 1 + k] = section[k]
      BY <1>4, <1>8, <2>3, <3>1
    <3> QED
      BY <2>3, <3>1, <3>2, <3>3
  <2> QED
    BY <1>10, <2>1, <2>2, <2>3 DEF Written
<1> QED
  BY <1>8, <1>9, <1>10 DEF layout

\* A block whose offset is within a build's layout is one that the build wrote.
LEMMA OffsetWithin ==
  ASSUME NEW n \in Nat \ {0}, NEW has_pq \in BOOLEAN, NEW kind, NEW i,
         \/ kind = "header" /\ i = 0
         \/ kind = "record" /\ i \in 1..n
         \/ kind \in {"pq_header", "centroids", "codes"} /\ i = 0,
         Offset(kind, i, n) <= n + (IF has_pq THEN 4 ELSE 1)
  PROVE  Written(n, has_pq, kind, i)
BY DEF Written, Offset

\* What one WriteAt does to the file.
LEMMA WithBlockShape ==
  ASSUME NEW file \in Seq(Blocks), NEW offset \in 1..Len(file) + 1, NEW block \in Blocks
  PROVE  /\ WithBlock(file, offset, block) \in Seq(Blocks)
         /\ Len(WithBlock(file, offset, block)) = IF offset <= Len(file) THEN Len(file) ELSE offset
         /\ WithBlock(file, offset, block)[offset] = block
         /\ \A k \in 1..Len(file) : k # offset => WithBlock(file, offset, block)[k] = file[k]
<1>1. CASE offset <= Len(file)
  <2>1. offset \in 1..Len(file)
    BY <1>1
  <2> QED
    BY <1>1, <2>1, ExceptSeq DEF WithBlock
<1>2. CASE ~(offset <= Len(file))
  <2>1. offset = Len(file) + 1
    BY <1>2
  <2>2. WithBlock(file, offset, block) = Append(file, block)
    BY <1>2 DEF WithBlock
  <2> QED
    BY <1>2, <2>1, <2>2, AppendProperties
<1> QED
  BY <1>1, <1>2

\* What is known of a build.
LEMMA BuildShape ==
  ASSUME DiskTypes, NEW b \in 1..Len(builds)
  PROVE  /\ b \in Nat /\ builds[b].path \in Paths /\ builds[b].count \in Nat \ {0}
         /\ builds[b].codebook \in {"none", "whole"}
         /\ FileOf(b) \in Seq(Blocks)
         /\ LayoutOf(b) \in Seq(Blocks)
         /\ Len(LayoutOf(b)) \in Nat /\ Len(LayoutOf(b)) > 1
         /\ Len(LayoutOf(b)) = builds[b].count + (IF builds[b].codebook # "none" THEN 4 ELSE 1)
         /\ \A kind, i : Written(builds[b].count, builds[b].codebook # "none", kind, i) =>
              /\ Offset(kind, i, builds[b].count) \in 1..Len(LayoutOf(b))
              /\ LayoutOf(b)[Offset(kind, i, builds[b].count)] = Block(b, kind, i)
<1>1. builds[b] \in BuildRecords /\ b \in Nat
  BY DEF DiskTypes
<1>2. /\ builds[b].path \in Paths /\ builds[b].count \in Nat \ {0}
      /\ builds[b].codebook \in {"none", "whole"}
  BY <1>1, CountsAssumption DEF BuildRecords, CountsAssumption
<1>3. FileOf(b) \in Seq(Blocks)
  BY <1>2 DEF DiskTypes, FileOf
<1> DEFINE n == builds[b].count
           has_pq == builds[b].codebook # "none"
<1>4. has_pq \in BOOLEAN /\ LayoutOf(b) = Layout(b, n, has_pq)
  BY DEF LayoutOf
<1>5. /\ LayoutOf(b) \in Seq(Blocks)
      /\ Len(LayoutOf(b)) = n + (IF has_pq THEN 4 ELSE 1)
      /\ \A kind, i : Written(n, has_pq, kind, i) =>
           /\ Offset(kind, i, n) \in 1..Len(LayoutOf(b))
           /\ LayoutOf(b)[Offset(kind, i, n)] = Block(b, kind, i)
  <2>1. n \in Nat \ {0} /\ b \in Nat
    BY <1>1, <1>2
  <2> HIDE DEF n, has_pq
  <2> QED
    BY <1>4, <2>1, LayoutShape
<1>6. Len(LayoutOf(b)) \in Nat /\ Len(LayoutOf(b)) > 1
  BY <1>2, <1>5
<1> QED
  BY <1>1, <1>2, <1>3, <1>5, <1>6

\* A file that starts with n blocks of a build is read as that build wrote it.
LEMMA ReadsOwn ==
  ASSUME DiskTypes, NEW b \in 1..Len(builds), NEW file, NEW n \in Nat, n > 0,
         HasFirst(file, b, n)
  PROVE  /\ file[1] = Block(b, "header", 0)
         /\ \A kind, i :
              /\ \/ kind = "record" /\ i \in 1..builds[b].count
                 \/ kind \in {"pq_header", "centroids", "codes"} /\ i = 0
              /\ Offset(kind, i, builds[b].count) <= n
              => file[Offset(kind, i, builds[b].count)] = Block(b, kind, i)
<1> DEFINE count  == builds[b].count
           has_pq == builds[b].codebook # "none"
           layout == LayoutOf(b)
<1>1. /\ count \in Nat \ {0} /\ has_pq \in BOOLEAN /\ Len(layout) \in Nat
      /\ Len(layout) = count + (IF has_pq THEN 4 ELSE 1)
      /\ \A kind, i : Written(count, has_pq, kind, i) =>
           /\ Offset(kind, i, count) \in 1..Len(layout)
           /\ layout[Offset(kind, i, count)] = Block(b, kind, i)
  BY BuildShape
<1>2. n <= Len(layout) /\ \A k \in 1..n : file[k] = layout[k]
  BY DEF HasFirst
<1> HIDE DEF count, has_pq, layout
<1>3. file[1] = Block(b, "header", 0)
  <2>1. Written(count, has_pq, "header", 0) /\ Offset("header", 0, count) = 1 /\ 1 \in 1..n
    BY DEF Written, Offset
  <2> QED
    BY <1>1, <1>2, <2>1
<1>4. ASSUME NEW kind, NEW i,
             \/ kind = "record" /\ i \in 1..count
             \/ kind \in {"pq_header", "centroids", "codes"} /\ i = 0,
             Offset(kind, i, count) <= n
      PROVE  file[Offset(kind, i, count)] = Block(b, kind, i)
  <2>1. Offset(kind, i, count) \in Nat \ {0}
    BY <1>1, <1>4 DEF Offset
  <2>2. Offset(kind, i, count) <= count + (IF has_pq THEN 4 ELSE 1)
    BY <1>1, <1>2, <1>4, <2>1
  <2>3. Written(count, has_pq, kind, i)
    BY <1>1, <1>4, <2>2, OffsetWithin
  <2>4. Offset(kind, i, count) \in 1..n
    BY <1>4, <2>1
  <2> QED
    BY <1>1, <1>2, <2>3, <2>4
<1> QED
  BY <1>3, <1>4 DEF count

-----------------------------------------------------------------------------
(***************************************************************************)
(* The steps of a query.                                                   *)
(***************************************************************************)

\* The part of the invariant that SaveNext does not show.
FileInv == DiskTypes /\ DiskInv /\ VersionInv /\ SyncInv /\ ReadInv

\* An open segment is read as its build wrote it, on either backend.
LEMMA GoodRead ==
  ASSUME CommandInv, PastHeader, NEW kind, NEW i,
         \/ kind = "record" /\ i \in 1..Count(segment.header)
         \/ kind = cpc /\ cpc \in {"pq_header", "centroids", "codes"} /\ i = 0,
         Offset(kind, i, Count(segment.header)) <= Len(FileRead)
  PROVE  \A b : (b = segment.header.build /\ ~uring) \/ (b = built /\ built # 0)
           => FileRead[Offset(kind, i, Count(segment.header))] = Block(b, kind, i)
<1> DEFINE header == segment.header
           offset == Offset(kind, i, Count(header))
<1> USE DEF CommandInv
<1>1. /\ FileRead # <<>> /\ header = FileRead[1] /\ segment.path \in Paths
      /\ FileRead \in Seq(Blocks) /\ Len(FileRead) \in Nat /\ Len(FileRead) > 0
  <2>1. FileRead # <<>> /\ header = FileRead[1] /\ segment.path \in Paths
    BY DEF ReadInv, DiskTypes, Reading
  <2>2. FileRead \in Seq(Blocks)
    BY <2>1 DEF DiskTypes, FileRead
  <2> QED
    BY <2>1, <2>2, EmptySeq
<1>2. CASE ~uring
  <2>1. PICK b \in 1..Len(builds) : HasFirst(FileRead, b, Len(FileRead))
    BY <1>1, <1>2 DEF SyncInv, FileRead
  <2>2. FileRead[1] = Block(b, "header", 0)
    BY <1>1, <2>1, ReadsOwn
  <2>3. header.build = b /\ Count(header) = builds[b].count
    BY <1>1, <2>2 DEF Block, Count
  <2>4. FileRead[offset] = Block(b, kind, i)
    <3>1. \/ kind = "record" /\ i \in 1..builds[b].count
          \/ kind \in {"pq_header", "centroids", "codes"} /\ i = 0
      BY <2>3
    <3>2. Offset(kind, i, builds[b].count) <= Len(FileRead)
      BY <2>3
    <3> QED
      BY <1>1, <2>1, <2>3, <3>1, <3>2, ReadsOwn
  <2>5. built # 0 => built = b
    <3> SUFFICES ASSUME built # 0 PROVE built = b
      OBVIOUS
    <3>1. built \in 1..Len(builds) /\ FileRead = FileOf(built)
      BY DEF DiskTypes, ReadInv, Reading, FileRead, FileOf
    <3>2. HasFirst(FileRead, built, Len(LayoutOf(built)))
      BY <3>1 DEF DiskInv, Complete
    <3>3. FileRead[1] = Block(built, "header", 0)
      BY <3>1, <3>2, ReadsOwn, BuildShape
    <3> QED
      BY <2>2, <3>3 DEF Block
  <2> QED
    BY <2>3, <2>4, <2>5
<1>3. CASE uring /\ built # 0
  <2>1. built \in 1..Len(builds) /\ FileRead = FileOf(built)
    BY <1>3 DEF DiskTypes, ReadInv, Reading, FileRead, FileOf
  <2>2. HasFirst(FileRead, built, Len(LayoutOf(built)))
    BY <1>3, <2>1 DEF DiskInv, Complete
  <2>3. FileRead[1] = Block(built, "header", 0)
    BY <2>1, <2>2, ReadsOwn, BuildShape
  <2>4. header.build = built /\ Count(header) = builds[built].count
    BY <1>1, <2>3 DEF Block, Count
  <2>5. \/ kind = "record" /\ i \in 1..builds[built].count
        \/ kind \in {"pq_header", "centroids", "codes"} /\ i = 0
    BY <2>4
  <2>6. Written(builds[built].count, builds[built].codebook # "none", kind, i)
    BY <2>4, <2>5 DEF Written, ReadInv, HasPQ
  <2>7. offset \in 1..Len(LayoutOf(built)) /\ LayoutOf(built)[offset] = Block(built, kind, i)
    <3>1. /\ Offset(kind, i, builds[built].count) \in 1..Len(LayoutOf(built))
          /\ LayoutOf(built)[Offset(kind, i, builds[built].count)] = Block(built, kind, i)
      BY <2>1, <2>6, BuildShape
    <3> QED
      BY <2>4, <3>1
  <2>8. FileRead[offset] = Block(built, kind, i)
    BY <2>2, <2>7 DEF HasFirst
  <2> QED
    BY <1>3, <2>8
<1> QED
  BY <1>2, <1>3

\* A step that changes no file, no build and nothing of a save, and that no build takes.
LEMMA QueryFrame ==
  ASSUME CommandInv, ~Building,
         UNCHANGED <<vars, uring, files, builds, versions, done, built>>,
         cpc' = "idle" \/ Reading',
         segment'.path \in Paths \cup {"none"},
         segment' = [path |-> segment'.path, header |-> segment'.header],
         Reading' => segment'.path \in Paths,
         ~uring => stream' # "out_of_step"
  PROVE  DiskTypes' /\ DiskInv' /\ VersionInv' /\ SyncInv'
<1> USE DEF CommandInv
<1>1. ~Building'
  BY DEF Building, Reading, PastHeader
<1>2. DiskTypes'
  BY <1>1 DEF DiskTypes
<1>3. \A file, b, n : HasFirst(file, b, n)' <=> HasFirst(file, b, n)
  BY DEF HasFirst, LayoutOf
<1>4. Complete(built)' <=> Complete(built)
  BY DEF Complete, HasFirst, LayoutOf, FileOf
<1>5. DiskInv'
  BY <1>1, <1>4 DEF DiskInv, Building
<1>6. VersionInv'
  BY <1>1 DEF VersionInv, Building, Stored, vars, saverVars
<1>7. SyncInv'
  BY <1>1, <1>3 DEF SyncInv, Building
<1> QED
  BY <1>2, <1>5, <1>6, <1>7

LEMMA TrainInv ==
  ASSUME CommandInv, TrainPq
  PROVE  FileInv'
<1> USE DEF CommandInv
<1>1. /\ UNCHANGED <<vars, uring, files, builds, versions, done, built, segment, stream, got, cpc>>
      /\ cpc = "idle"
  BY DEF TrainPq, queryVars
<1>2. ~Building /\ cpc' = "idle" /\ ~PastHeader /\ ~Reading
  BY <1>1 DEF Building, PastHeader, Reading
<1>3. DiskTypes' /\ DiskInv' /\ VersionInv' /\ SyncInv'
  BY <1>1, <1>2, QueryFrame DEF DiskTypes, Reading, PastHeader, SyncInv
<1>4. ReadInv'
  BY <1>1, <1>2 DEF ReadInv, Reading, PastHeader, NoMixOnSync
<1> QED
  BY <1>3, <1>4 DEF FileInv

\* The manifest names a build, whose file has the path that the query opens.
LEMMA LoadManifestInv ==
  ASSUME CommandInv, LoadManifest
  PROVE  FileInv'
<1> USE DEF CommandInv
<1>1. PICK v \in Version \ {0} :
        /\ Stored = Whole(v)
        /\ segment' = [path |-> builds[versions[v]].path, header |-> Unread]
  BY DEF LoadManifest
<1>2. /\ UNCHANGED <<vars, uring, files, builds, versions, done, built>>
      /\ cpc = "idle" /\ cpc' = "header" /\ stream' = "ok" /\ got' = Nothing
  BY DEF LoadManifest, fileVars
<1>3. ~Building /\ Reading' /\ ~PastHeader'
  BY <1>2 DEF Building, Reading, PastHeader
<1>4. v = Stored[1] /\ v \in 1..begun
  <2>1. v = Stored[1]
    BY <1>1, WholeValue
  <2> QED
    BY <1>1, <2>1, BoundsAssumption DEF SaveInv, StoredInv, Version, BoundsAssumption, SaveTypes, TypeOK
<1>5. versions[v] \in 1..Len(builds) /\ segment'.path = builds[versions[v]].path
  BY <1>1, <1>4 DEF VersionInv
<1>6. segment'.path \in Paths /\ segment' = [path |-> segment'.path, header |-> segment'.header]
  BY <1>1, <1>5, BuildShape
<1>7. DiskTypes' /\ DiskInv' /\ VersionInv' /\ SyncInv'
  BY <1>2, <1>3, <1>6, QueryFrame
<1>8. ReadInv'
  <2>1. built # 0 => segment'.path = builds[built].path
    BY <1>4, <1>5 DEF VersionInv
  <2> QED
    BY <1>2, <1>3, <2>1 DEF ReadInv, NoMixOnSync, PastHeader
<1> QED
  BY <1>7, <1>8 DEF FileInv

LEMMA ReadHeaderInv ==
  ASSUME CommandInv, ReadHeader
  PROVE  FileInv'
<1> USE DEF CommandInv
<1>1. /\ UNCHANGED <<vars, uring, files, builds, versions, stream, done, built>>
      /\ cpc = "header" /\ FileRead # <<>> /\ FileRead[1].kind = "header"
      /\ segment' = [segment EXCEPT !.header = FileRead[1]]
      /\ got' = [asked |-> <<"header", 0>>, block |-> FileRead[1]]
      /\ cpc' = IF HasPQ(FileRead[1]) THEN "pq_header" ELSE "nodes"
  BY DEF ReadHeader, fileVars, NextKind
<1>2. ~Building /\ Reading /\ ~PastHeader /\ Reading' /\ PastHeader'
  BY <1>1 DEF Building, Reading, PastHeader
<1>3. /\ segment'.path = segment.path /\ segment.path \in Paths
      /\ segment'.header = FileRead[1]
      /\ segment' = [path |-> segment'.path, header |-> segment'.header]
  BY <1>1, <1>2 DEF DiskTypes
<1>4. DiskTypes' /\ DiskInv' /\ VersionInv' /\ SyncInv'
  BY <1>1, <1>2, <1>3, QueryFrame DEF SyncInv
<1>5. FileRead' = FileRead
  BY <1>1, <1>3 DEF FileRead
<1>6. FileRead \in Seq(Blocks) /\ Len(FileRead) \in Nat /\ Len(FileRead) > 0
  <2>1. FileRead \in Seq(Blocks)
    BY <1>3 DEF FileRead, DiskTypes
  <2> QED
    BY <1>1, <2>1, EmptySeq
<1>7. \A b \in 1..Len(builds) : FileRead[1] = Block(b, "header", 0) =>
        FileRead[1].build = b /\ got'.block = Block(b, got'.asked[1], got'.asked[2])
  BY <1>1 DEF Block
<1>8. ~uring => GotFrom(FileRead[1].build)'
  <2> SUFFICES ASSUME ~uring PROVE GotFrom(FileRead[1].build)'
    OBVIOUS
  <2>1. PICK b \in 1..Len(builds) : HasFirst(FileRead, b, Len(FileRead))
    BY <1>1, <1>3 DEF SyncInv, FileRead
  <2>2. FileRead[1] = Block(b, "header", 0)
    BY <1>6, <2>1, ReadsOwn
  <2> QED
    BY <1>5, <1>7, <2>2 DEF GotFrom
<1>9. built # 0 => GotFrom(built)'
  <2> SUFFICES ASSUME built # 0 PROVE GotFrom(built)'
    OBVIOUS
  <2>1. built \in 1..Len(builds) /\ FileRead = FileOf(built)
    BY <1>2 DEF DiskTypes, ReadInv, FileRead, FileOf
  <2>2. HasFirst(FileRead, built, Len(LayoutOf(built)))
    BY <2>1 DEF DiskInv, Complete
  <2>3. FileRead[1] = Block(built, "header", 0)
    BY <2>1, <2>2, ReadsOwn, BuildShape
  <2> QED
    BY <1>1, <1>7, <2>1, <2>3 DEF GotFrom
<1>10. ReadInv'
  <2>1. NoMixOnSync'
    BY <1>1, <1>3, <1>5, <1>8 DEF NoMixOnSync, GotFrom
  <2>3. built' # 0 => GotFrom(built)'
    BY <1>1, <1>9
  <2>4. cpc' \in {"pq_header", "centroids", "codes"} => HasPQ(segment.header)'
    BY <1>1, <1>3 DEF HasPQ
  <2>5. Reading' /\ built' # 0 => segment'.path = builds'[built'].path
    BY <1>1, <1>2, <1>3 DEF ReadInv
  <2>6. FileRead' # <<>> /\ segment'.header = FileRead[1]' /\ segment'.header.kind = "header"
    BY <1>1, <1>3, <1>5
  <2> QED
    BY <1>2, <2>1, <2>3, <2>4, <2>5, <2>6 DEF ReadInv
<1> QED
  BY <1>4, <1>10 DEF FileInv

\* A read at the offset of a block, in a segment that is open.
LEMMA ReadInvKept ==
  ASSUME CommandInv, PastHeader, PastHeader',
         UNCHANGED <<vars, uring, files, builds, versions, done, built, segment>>,
         cpc' \in {"pq_header", "centroids", "codes"} => HasPQ(segment.header),
         got' # Nothing => (~uring => GotFrom(segment.header.build)')
                           /\ (built # 0 /\ stream' = "ok" => GotFrom(built)'),
         ~uring => stream' # "out_of_step"
  PROVE  FileInv'
<1> USE DEF CommandInv
<1>1. ~Building /\ Reading /\ Reading'
  BY DEF PastHeader, Building, Reading
<1>2. DiskTypes' /\ DiskInv' /\ VersionInv' /\ SyncInv'
  BY <1>1, QueryFrame DEF DiskTypes
<1>3. FileRead' = FileRead /\ HasPQ(segment.header)' = HasPQ(segment.header)
  BY DEF FileRead, HasPQ
<1>4. NoMixOnSync'
  BY DEF NoMixOnSync, GotFrom
<1>5. ReadInv'
  <2>1. (built' # 0 /\ got' # Nothing /\ stream' = "ok") => GotFrom(built)'
    OBVIOUS
  <2> QED
    BY <1>1, <1>3, <1>4, <2>1 DEF ReadInv
<1> QED
  BY <1>2, <1>5 DEF FileInv

LEMMA ReadPQSectionInv ==
  ASSUME CommandInv, ReadPQSection
  PROVE  FileInv'
<1> USE DEF CommandInv
<1> DEFINE offset == Offset(cpc, 0, Count(segment.header))
<1>1. /\ UNCHANGED <<vars, uring, files, builds, versions, done, built, segment, stream>>
      /\ cpc \in {"pq_header", "centroids", "codes"} /\ offset <= Len(FileRead)
      /\ got' = [asked |-> <<cpc, 0>>, block |-> FileRead[offset]]
      /\ cpc' = NextKind(cpc, TRUE)
  BY DEF ReadPQSection, fileVars
<1>2. PastHeader /\ PastHeader'
  BY <1>1 DEF PastHeader, NextKind
<1>3. \A b : (b = segment.header.build /\ ~uring) \/ (b = built /\ built # 0)
        => FileRead[offset] = Block(b, cpc, 0)
  BY <1>1, <1>2, GoodRead
<1>4. HasPQ(segment.header)
  BY <1>1 DEF ReadInv
<1>5. got'.block = FileRead[offset] /\ got'.asked[1] = cpc /\ got'.asked[2] = 0
  BY <1>1
<1>6. ~uring => GotFrom(segment.header.build)'
  BY <1>1, <1>3, <1>5 DEF GotFrom
<1>7. built # 0 => GotFrom(built)'
  BY <1>1, <1>3, <1>5 DEF GotFrom
<1> QED
  BY <1>1, <1>2, <1>4, <1>6, <1>7, ReadInvKept DEF SyncInv

LEMMA ReadNodeInv ==
  ASSUME CommandInv, ReadNode \/ ReadNodeFails \/ ReadNodeOutOfStep
  PROVE  FileInv'
<1> USE DEF CommandInv
<1>1. /\ UNCHANGED <<vars, uring, files, builds, versions, done, built, segment, cpc>>
      /\ cpc = "nodes" /\ PastHeader /\ PastHeader'
  BY DEF ReadNode, ReadNodeFails, ReadNodeOutOfStep, fileVars, PastHeader
<1>2. CASE ReadNode
  <2> DEFINE count == Count(segment.header)
  <2>1. PICK i \in 1..count :
          /\ Offset("record", i, count) <= Len(FileRead)
          /\ got' = [asked |-> <<"record", i>>, block |-> FileRead[Offset("record", i, count)]]
    BY <1>2 DEF ReadNode
  <2>2. \A b : (b = segment.header.build /\ ~uring) \/ (b = built /\ built # 0)
          => FileRead[Offset("record", i, count)] = Block(b, "record", i)
    BY <1>1, <2>1, GoodRead
  <2> HIDE DEF count
  <2>3. got'.asked[1] = "record" /\ got'.asked[2] = i
        /\ got'.block = FileRead[Offset("record", i, count)]
    BY <2>1
  <2>4. ~uring => GotFrom(segment.header.build)'
    BY <1>1, <2>2, <2>3 DEF GotFrom
  <2>5. built # 0 => GotFrom(built)'
    BY <1>1, <2>2, <2>3 DEF GotFrom
  <2>6. ~uring => stream' # "out_of_step"
    BY <1>2 DEF ReadNode, SyncInv
  <2> QED
    BY <1>1, <2>4, <2>5, <2>6, ReadInvKept
<1>3. CASE ReadNodeFails
  <2>1. got' = Nothing /\ (~uring => stream' # "out_of_step")
    BY <1>3 DEF ReadNodeFails
  <2> QED
    BY <1>1, <2>1, ReadInvKept
<1>4. CASE ReadNodeOutOfStep
  <2>1. uring /\ stream' # "ok"
    BY <1>4 DEF ReadNodeOutOfStep, SyncInv
  <2> QED
    BY <1>1, <2>1, ReadInvKept
<1> QED
  BY <1>2, <1>3, <1>4

LEMMA EndQueryInv ==
  ASSUME CommandInv, EndQuery
  PROVE  FileInv'
<1> USE DEF CommandInv
<1>1. /\ UNCHANGED <<vars, uring, files, builds, versions, done, built>>
      /\ cpc \notin {"idle", "write", "save"} /\ cpc' = "idle"
      /\ segment' = NoSegment /\ stream' = "ok" /\ got' = Nothing
  BY DEF EndQuery, fileVars
<1>2. ~Building /\ ~Reading' /\ ~PastHeader'
  BY <1>1 DEF Building, Reading, PastHeader
<1>3. segment'.path = "none" /\ segment' = [path |-> segment'.path, header |-> segment'.header]
  BY <1>1 DEF NoSegment
<1>4. DiskTypes' /\ DiskInv' /\ VersionInv' /\ SyncInv'
  BY <1>1, <1>2, <1>3, QueryFrame
<1>5. ReadInv'
  BY <1>1, <1>2 DEF ReadInv, NoMixOnSync, PastHeader
<1> QED
  BY <1>4, <1>5 DEF FileInv

-----------------------------------------------------------------------------
(***************************************************************************)
(* The steps of a build.                                                   *)
(***************************************************************************)

\* While a build runs there is no query, and no save before the segment is written.
LEMMA NoQuery ==
  ASSUME CommandInv, ~Reading
  PROVE  got = Nothing /\ ~PastHeader /\ cpc \notin {"pq_header", "centroids", "codes"}
BY DEF CommandInv, ReadInv, Reading, PastHeader

LEMMA QuietRead ==
  ASSUME CommandInv, UNCHANGED <<got, uring>>, ~Reading, ~Reading'
  PROVE  ReadInv'
<1>1. got' = Nothing /\ ~PastHeader' /\ cpc' \notin {"pq_header", "centroids", "codes"}
  BY NoQuery DEF Reading, PastHeader
<1> QED
  BY <1>1 DEF ReadInv, NoMixOnSync

LEMMA OpenSegmentInv ==
  ASSUME CommandInv, OpenSegment
  PROVE  FileInv'
<1> USE DEF CommandInv
<1>1. PICK p \in Paths, n \in Counts, pq \in BOOLEAN :
        /\ pq => LoadCodebook
        /\ builds' = Append(builds, [path |-> p, count |-> n,
                                     codebook |-> IF pq THEN codebook ELSE "none"])
        /\ files' = [files EXCEPT ![p] = Opened(files[p])]
        /\ built' = IF built # 0 /\ builds[built].path = p THEN 0 ELSE built
  BY DEF OpenSegment
<1>2. /\ UNCHANGED <<vars, uring, versions, segment, stream, got>>
      /\ cpc = "idle" /\ cpc' = "write" /\ done' = 0
  BY DEF OpenSegment, queryVars
<1> DEFINE b0 == [path |-> p, count |-> n, codebook |-> IF pq THEN codebook ELSE "none"]
           last == Len(builds) + 1
<1>3. b0 \in BuildRecords
  BY <1>1 DEF LoadCodebook, BuildRecords
<1>4. /\ builds' \in Seq(BuildRecords) /\ Len(builds') = last /\ builds'[last] = b0
      /\ Len(builds) \in Nat /\ \A b \in 1..Len(builds) : builds'[b] = builds[b]
  <2>1. builds \in Seq(BuildRecords) /\ builds' = Append(builds, b0)
    BY <1>1 DEF DiskTypes
  <2> HIDE DEF b0
  <2> QED
    BY <1>3, <2>1, AppendProperties, LenProperties
<1>5. b0.path = p /\ b0.count = n /\ (b0.codebook # "none") \in BOOLEAN /\ n \in Nat \ {0}
  BY CountsAssumption DEF CountsAssumption
<1> HIDE DEF b0
<1>6. /\ Opened(files[p]) \in Seq(Blocks) /\ (~uring => Opened(files[p]) = <<>>)
      /\ files' \in [Paths -> Seq(Blocks)]
      /\ files'[p] = Opened(files[p]) /\ \A q \in Paths : q # p => files'[q] = files[q]
  BY <1>1 DEF DiskTypes, Opened, UringOpened, SyncOpened
<1>7. ~Reading /\ ~Reading' /\ ~Building /\ Building'
  BY <1>2 DEF Reading, PastHeader, Building
<1>8. \A b \in 1..Len(builds) : LayoutOf(b)' = LayoutOf(b) /\ builds'[b].path = builds[b].path
  BY <1>4 DEF LayoutOf
<1>9. built' \in 0..Len(builds) /\ (built' # 0 => built' = built /\ builds[built].path # p)
  BY <1>1 DEF DiskTypes
<1>10. DiskTypes'
  BY <1>2, <1>4, <1>6, <1>7, <1>9 DEF DiskTypes
<1>11. \A b \in 1..Len(builds) : \A file, k : HasFirst(file, b, k) => HasFirst(file, b, k)'
  BY <1>8 DEF HasFirst
<1>12. HasFirst(FileOf(Len(builds)), Len(builds), done)'
  <2>1. FileOf(Len(builds))' = Opened(files[p])
    BY <1>4, <1>5, <1>6 DEF FileOf
  <2>2. Len(LayoutOf(Len(builds)))' >= 0
    <3>1. LayoutOf(Len(builds))' = Layout(last, n, b0.codebook # "none")
      BY <1>4, <1>5 DEF LayoutOf
    <3>2. Len(Layout(last, n, b0.codebook # "none")) \in Nat
      BY <1>4, <1>5, LayoutShape
    <3> QED
      BY <3>1, <3>2
  <2>3. Len(Opened(files[p])) >= 0
    BY <1>6, LenProperties
  <2> QED
    BY <1>2, <2>1, <2>2, <2>3 DEF HasFirst
<1>13. built' # 0 => Complete(built)'
  <2> SUFFICES ASSUME built' # 0 PROVE Complete(built)'
    OBVIOUS
  <2>1. built' = built /\ built \in 1..Len(builds) /\ builds[built].path # p
    BY <1>9 DEF DiskTypes
  <2>2. FileOf(built)' = FileOf(built) /\ LayoutOf(built)' = LayoutOf(built)
    <3>1. builds[built].path \in Paths
      BY <2>1, BuildShape
    <3>2. builds'[built] = builds[built]
      BY <1>4, <2>1
    <3> QED
      BY <1>6, <2>1, <3>1, <3>2 DEF FileOf, LayoutOf
  <2> QED
    BY <2>1, <2>2 DEF DiskInv, Complete, HasFirst
<1>14. built' # 0 => builds'[built'].path # Current.path'
  BY <1>4, <1>5, <1>8, <1>9 DEF Current
<1>15. DiskInv'
  BY <1>2, <1>12, <1>13, <1>14 DEF DiskInv
<1>16. VersionInv'
  BY <1>2, <1>4, <1>7, <1>9 DEF VersionInv, vars, saverVars, Stored, Building
<1>17. SyncInv'
  <2> SUFFICES ASSUME ~uring
               PROVE  /\ \A q \in Paths : files'[q] = <<>>
                           \/ \E b \in 1..Len(builds') : HasFirst(files[q], b, Len(files[q]))'
                      /\ Len(FileOf(Len(builds)))' = done'
                      /\ stream' # "out_of_step"
    BY <1>2 DEF SyncInv
  <2>1. files'[p] = <<>>
    BY <1>6
  <2>2. FileOf(Len(builds))' = <<>>
    BY <1>4, <1>5, <2>1 DEF FileOf
  <2>3. ASSUME NEW q \in Paths, q # p
        PROVE  files'[q] = <<>> \/ \E b \in 1..Len(builds') : HasFirst(files[q], b, Len(files[q]))'
    <3>1. CASE files[q] = <<>>
      BY <1>6, <2>3, <3>1
    <3>2. CASE files[q] # <<>>
      <4>1. PICK b \in 1..Len(builds) : HasFirst(files[q], b, Len(files[q]))
        BY <3>2 DEF SyncInv
      <4>2. HasFirst(files[q], b, Len(files[q]))'
        BY <1>6, <1>8, <2>3, <4>1 DEF HasFirst
      <4>3. b \in 1..Len(builds')
        BY <1>4
      <4> QED
        BY <4>2, <4>3
    <3> QED
      BY <3>1, <3>2
  <2> QED
    BY <1>2, <2>1, <2>2, <2>3 DEF SyncInv
<1>18. ReadInv'
  BY <1>2, <1>7, QuietRead
<1> QED
  BY <1>10, <1>15, <1>16, <1>17, <1>18 DEF FileInv

\* A step that changes the file of the build in progress, and what it must leave there.
LEMMA FileChanged ==
  ASSUME CommandInv, cpc = "write", cpc' \in {"write", "idle"},
         UNCHANGED <<vars, uring, builds, versions, segment, stream, got, built>>,
         NEW file \in Seq(Blocks), files' = [files EXCEPT ![Current.path] = file],
         done' \in Nat,
         cpc' = "write" => HasFirst(file, Len(builds), done'),
         ~uring => HasFirst(file, Len(builds), Len(file))
                   /\ (cpc' = "write" => Len(file) = done')
  PROVE  FileInv'
<1> USE DEF CommandInv
<1>1. ~Reading /\ ~Reading' /\ Building /\ (Building' => cpc' = "write")
  BY DEF Reading, PastHeader, Building
<1>2. Len(builds) \in 1..Len(builds) /\ Current.path \in Paths
      /\ Current.path = builds[Len(builds)].path
  <2>1. Len(builds) \in Nat /\ Len(builds) > 0
    BY <1>1 DEF DiskTypes
  <2>2. Len(builds) \in 1..Len(builds)
    BY <2>1
  <2> QED
    BY <2>2, BuildShape DEF Current
<1>3. /\ files' \in [Paths -> Seq(Blocks)]
      /\ files'[Current.path] = file /\ \A q \in Paths : q # Current.path => files'[q] = files[q]
  BY <1>2 DEF DiskTypes
<1>4. \A b, f, k : HasFirst(f, b, k)' <=> HasFirst(f, b, k)
  BY DEF HasFirst, LayoutOf
<1>5. FileOf(Len(builds))' = file
  BY <1>2, <1>3 DEF FileOf
<1>6. DiskTypes'
  BY <1>1, <1>3 DEF DiskTypes, Building
<1>7. built' # 0 => Complete(built)'
  <2> SUFFICES ASSUME built # 0 PROVE Complete(built)'
    OBVIOUS
  <2>1. built \in 1..Len(builds) /\ builds[built].path # Current.path
    BY <1>1 DEF DiskTypes, DiskInv
  <2>2. FileOf(built)' = FileOf(built)
    BY <1>3, <2>1, BuildShape DEF FileOf
  <2> QED
    BY <2>2 DEF DiskInv, Complete, HasFirst, LayoutOf
<1>8. DiskInv'
  <2>1. built' # 0 => builds'[built'].path # Current.path'
    BY <1>1 DEF DiskInv, Current
  <2>2. cpc' = "write" => HasFirst(FileOf(Len(builds)), Len(builds), done)'
    BY <1>5 DEF HasFirst, LayoutOf
  <2> QED
    BY <1>1, <1>7, <2>1, <2>2 DEF DiskInv
<1>9. VersionInv'
  BY <1>1 DEF VersionInv, vars, saverVars, Stored
<1>10. SyncInv'
  <2> SUFFICES ASSUME ~uring
               PROVE  /\ \A q \in Paths : files'[q] = <<>>
                           \/ \E b \in 1..Len(builds) : HasFirst(files[q], b, Len(files[q]))'
                      /\ cpc' = "write" => Len(FileOf(Len(builds)))' = done'
                      /\ stream' # "out_of_step"
    BY DEF SyncInv
  <2>1. ASSUME NEW q \in Paths
        PROVE  files'[q] = <<>> \/ \E b \in 1..Len(builds) : HasFirst(files[q], b, Len(files[q]))'
    <3>1. CASE q = Current.path
      BY <1>2, <1>3, <3>1 DEF HasFirst, LayoutOf
    <3>2. CASE q # Current.path
      BY <1>3, <3>2 DEF SyncInv, HasFirst, LayoutOf
    <3> QED
      BY <3>1, <3>2
  <2> QED
    BY <1>5, <2>1 DEF SyncInv
<1>11. ReadInv'
  BY <1>1, QuietRead
<1> QED
  BY <1>6, <1>8, <1>9, <1>10, <1>11 DEF FileInv

\* The block that a build writes next.
LEMMA NextBlock ==
  ASSUME CommandInv, cpc = "write", done < Len(LayoutOf(Len(builds)))
  PROVE  LET file == files[Current.path]
             last == Len(builds)
         IN  /\ file \in Seq(Blocks) /\ Len(file) \in Nat /\ done \in Nat
             /\ HasFirst(file, last, done) /\ done + 1 \in 1..Len(file) + 1
             /\ LayoutOf(last)[done + 1] \in Blocks
             /\ ~uring => Len(file) = done
             /\ LET g == WithBlock(file, done + 1, LayoutOf(last)[done + 1])
                IN  /\ g \in Seq(Blocks)
                    /\ HasFirst(g, last, done + 1)
                    /\ ~uring => Len(g) = done + 1
<1> USE DEF CommandInv
<1> DEFINE file == files[Current.path]
           last == Len(builds)
           layout == LayoutOf(last)
           g == WithBlock(file, done + 1, layout[done + 1])
<1>1. last \in 1..Len(builds) /\ file = FileOf(last)
  <2>1. Len(builds) \in Nat /\ Len(builds) > 0
    BY DEF DiskTypes, Building
  <2> QED
    BY <2>1 DEF Current, FileOf
<1>2. file \in Seq(Blocks) /\ layout \in Seq(Blocks) /\ Len(layout) \in Nat /\ done \in Nat
  BY <1>1, BuildShape DEF DiskTypes
<1>3. HasFirst(file, last, done) /\ (~uring => Len(file) = done)
  BY <1>1 DEF DiskInv, SyncInv
<1> HIDE DEF file, last, layout
<1>4. Len(file) \in Nat /\ layout \in [1..Len(layout) -> Blocks]
  BY <1>2, LenProperties
<1>5. done <= Len(file) /\ done + 1 \in 1..Len(file) + 1 /\ done + 1 \in 1..Len(layout)
      /\ \A k \in 1..done : file[k] = layout[k]
  BY <1>2, <1>3, <1>4 DEF HasFirst, last, layout
<1>6. layout[done + 1] \in Blocks
  BY <1>4, <1>5
<1>7. /\ g \in Seq(Blocks) /\ Len(g) = (IF done + 1 <= Len(file) THEN Len(file) ELSE done + 1)
      /\ g[done + 1] = layout[done + 1] /\ \A k \in 1..Len(file) : k # done + 1 => g[k] = file[k]
  BY <1>2, <1>5, <1>6, WithBlockShape
<1> HIDE DEF g
<1>8. HasFirst(g, last, done + 1)
  <2>1. done + 1 <= Len(g) /\ done + 1 <= Len(layout)
    BY <1>2, <1>4, <1>5, <1>7
  <2>2. ASSUME NEW k \in 1..done + 1 PROVE g[k] = layout[k]
    <3>1. k = done + 1 \/ (k \in 1..done /\ k \in 1..Len(file) /\ k # done + 1)
      BY <1>2, <1>4, <1>5
    <3> QED
      BY <1>5, <1>7, <3>1
  <2> QED
    BY <2>1, <2>2 DEF HasFirst, layout
<1>9. ~uring => Len(g) = done + 1
  BY <1>2, <1>3, <1>7
<1> QED
  BY <1>2, <1>3, <1>4, <1>5, <1>6, <1>7, <1>8, <1>9 DEF file, last, layout, g

LEMMA WriteBlockInv ==
  ASSUME CommandInv, WriteBlock
  PROVE  FileInv'
<1> DEFINE g == WithBlock(files[Current.path], done + 1, LayoutOf(Len(builds))[done + 1])
<1>1. /\ UNCHANGED <<vars, uring, builds, versions, segment, stream, got, built>>
      /\ cpc = "write" /\ cpc' = "write" /\ done < Len(LayoutOf(Len(builds)))
      /\ done' = done + 1 /\ files' = [files EXCEPT ![Current.path] = g]
  BY DEF WriteBlock, queryVars
<1>2. /\ g \in Seq(Blocks) /\ done \in Nat /\ HasFirst(g, Len(builds), done + 1)
      /\ ~uring => Len(g) = done + 1
  BY <1>1, NextBlock
<1> HIDE DEF g
<1>3. done' \in Nat /\ HasFirst(g, Len(builds), done')
  BY <1>1, <1>2
<1>4. ~uring => HasFirst(g, Len(builds), Len(g)) /\ Len(g) = done'
  BY <1>1, <1>2
<1> QED
  BY <1>1, <1>2, <1>3, <1>4, FileChanged

LEMMA WriteBlockFailsInv ==
  ASSUME CommandInv, WriteBlockFails
  PROVE  FileInv'
<1> DEFINE last  == Len(builds)
           file  == files[Current.path]
           block == LayoutOf(last)[done + 1]
<1>1. /\ UNCHANGED <<vars, uring, builds, versions, segment, stream, got, built, done>>
      /\ cpc = "write" /\ cpc' = "idle" /\ done < Len(LayoutOf(last))
  BY DEF WriteBlockFails, queryVars
<1>2. /\ file \in Seq(Blocks) /\ Len(file) \in Nat /\ done \in Nat
      /\ HasFirst(file, last, done) /\ done + 1 \in 1..Len(file) + 1
      /\ block \in Blocks
      /\ ~uring => Len(file) = done
      /\ WithBlock(file, done + 1, block) \in Seq(Blocks)
      /\ HasFirst(WithBlock(file, done + 1, block), last, done + 1)
      /\ ~uring => Len(WithBlock(file, done + 1, block)) = done + 1
  BY <1>1, NextBlock
<1>3. CASE UNCHANGED files
  <2>1. files' = [files EXCEPT ![Current.path] = file]
    BY <1>3 DEF CommandInv, DiskTypes
  <2>2. ~uring => HasFirst(file, last, Len(file))
    BY <1>2
  <2> QED
    BY <1>1, <1>2, <2>1, <2>2, FileChanged
<1>4. CASE \E b \in {block} \cup (IF done < Len(file) THEN {Torn} ELSE {}) :
             files' = [files EXCEPT ![Current.path] = WithBlock(file, done + 1, b)]
  <2>1. PICK b \in {block} \cup (IF done < Len(file) THEN {Torn} ELSE {}) :
          files' = [files EXCEPT ![Current.path] = WithBlock(file, done + 1, b)]
    BY <1>4
  <2>2. Torn \in Blocks
    BY DEF Torn, Block, Blocks
  <2>3. b \in Blocks /\ (~uring => b = block)
    BY <1>2, <2>1, <2>2
  <2> DEFINE g == WithBlock(file, done + 1, b)
  <2>4. g \in Seq(Blocks)
    BY <1>2, <2>3, WithBlockShape
  <2>5. ~uring => HasFirst(g, last, Len(g))
    BY <1>2, <2>3
  <2>6. files' = [files EXCEPT ![Current.path] = g]
    BY <2>1
  <2> HIDE DEF g
  <2> QED
    BY <1>1, <1>2, <2>4, <2>5, <2>6, FileChanged
<1> QED
  BY <1>3, <1>4 DEF WriteBlockFails

LEMMA FlushFailsInv ==
  ASSUME CommandInv, FlushSegmentFails
  PROVE  FileInv'
<1> DEFINE last == Len(builds)
           file == files[Current.path]
           g    == SubSeq(file, 1, Len(file) - 1)
<1>1. /\ UNCHANGED <<vars, uring, builds, versions, segment, stream, got, built, done>>
      /\ cpc = "write" /\ cpc' = "idle" /\ ~uring
      /\ files' = [files EXCEPT ![Current.path] = g]
  BY DEF FlushSegmentFails, queryVars
<1>2. last \in 1..Len(builds) /\ file = FileOf(last)
  <2>1. Len(builds) \in Nat /\ Len(builds) > 0
    BY <1>1 DEF CommandInv, DiskTypes, Building
  <2> QED
    BY <2>1 DEF Current, FileOf
<1>3. /\ file \in Seq(Blocks) /\ done \in Nat
      /\ HasFirst(file, last, done) /\ Len(file) = done
  BY <1>1, <1>2, BuildShape DEF CommandInv, DiskTypes, DiskInv, SyncInv
<1>4. Len(LayoutOf(last)) \in Nat /\ Len(LayoutOf(last)) > 1 /\ done = Len(LayoutOf(last))
  BY <1>2, BuildShape DEF FlushSegmentFails, CommandInv
<1> HIDE DEF file, last
<1>5. \A i \in 1..Len(file) - 1 : i \in 1..Len(file)
  BY <1>3
<1>6. \A i \in 1..Len(file) - 1 : file[i] \in Blocks
  BY <1>3, <1>5, ElementOfSeq
<1>7. /\ g \in Seq(Blocks) /\ Len(g) = Len(file) - 1
      /\ \A i \in 1..Len(file) - 1 : g[i] = file[i]
  <2>1. /\ SubSeq(file, 1, Len(file) - 1) \in Seq(Blocks)
        /\ Len(SubSeq(file, 1, Len(file) - 1)) =
             (IF 1 <= Len(file) - 1 THEN Len(file) - 1 - 1 + 1 ELSE 0)
        /\ \A i \in 1..Len(file) - 1 - 1 + 1 : SubSeq(file, 1, Len(file) - 1)[i] = file[1 + i - 1]
    <3>1. 1 \in Int /\ Len(file) - 1 \in Int
      BY <1>3
    <3> QED
      BY <1>6, <3>1, SubSeqProperties
  <2>2. /\ Len(file) - 1 - 1 + 1 = Len(file) - 1 /\ 1 <= Len(file) - 1
        /\ \A i \in 1..Len(file) - 1 : 1 + i - 1 = i
    BY <1>3, <1>4
  <2> QED
    BY <2>1, <2>2
<1> HIDE DEF g
<1>8. HasFirst(g, last, Len(g))
  BY <1>3, <1>4, <1>5, <1>7 DEF HasFirst
<1> QED
  BY <1>1, <1>3, <1>7, <1>8, FileChanged DEF last, file

\* A step that changes neither files nor builds, and that no query takes.
LEMMA BuildFrame ==
  ASSUME CommandInv, ~Reading, cpc' \in {"idle", "save"},
         UNCHANGED <<uring, files, builds, segment, stream, got, done>>,
         versions' \in Seq(Nat), VersionInv',
         \/ /\ built' = built
            /\ built # 0 /\ cpc' = "save" => builds[built].path # Current.path
         \/ built' = Len(builds) /\ cpc' = "idle" /\ Complete(Len(builds)),
         cpc' = "save" => Complete(Len(builds)) /\ Len(builds) > 0
  PROVE  FileInv'
<1> USE DEF CommandInv
<1>1. ~Reading' /\ cpc' # "write" /\ (Building' <=> cpc' = "save")
  BY DEF Reading, PastHeader, Building
<1>2. Len(builds) \in 0..Len(builds)
  BY DEF DiskTypes
<1>3. DiskTypes'
  BY <1>1, <1>2 DEF DiskTypes
<1>4. \A b : /\ Complete(b)' <=> Complete(b)
             /\ \A f, k : HasFirst(f, b, k)' <=> HasFirst(f, b, k)
  BY DEF Complete, HasFirst, LayoutOf, FileOf
<1>5. DiskInv'
  <2>1. built' # 0 => Complete(built)'
    BY DEF DiskInv, Complete, HasFirst, LayoutOf, FileOf
  <2>2. cpc' = "save" => Complete(Len(builds))'
    BY DEF Complete, HasFirst, LayoutOf, FileOf
  <2>3. Building' /\ built' # 0 => builds'[built'].path # Current.path'
    BY <1>1 DEF Current
  <2> QED
    BY <1>1, <2>1, <2>2, <2>3 DEF DiskInv
<1>6. SyncInv'
  BY <1>1, <1>4 DEF SyncInv
<1>7. ReadInv'
  BY <1>1, QuietRead
<1> QED
  BY <1>3, <1>5, <1>6, <1>7 DEF FileInv

LEMMA FlushInv ==
  ASSUME CommandInv, FlushSegment
  PROVE  FileInv'
<1>1. /\ UNCHANGED <<vars, uring, files, builds, versions, segment, stream, got, done, built>>
      /\ cpc = "write" /\ cpc' = "save" /\ done = Len(LayoutOf(Len(builds)))
  BY DEF FlushSegment, fileVars, queryVars
<1>2. ~Reading /\ Building
  BY <1>1 DEF Reading, PastHeader, Building
<1>3. VersionInv' /\ versions' \in Seq(Nat)
  BY <1>1 DEF CommandInv, VersionInv, vars, saverVars, Stored, DiskTypes
<1>4. Complete(Len(builds)) /\ Len(builds) > 0
  BY <1>1, <1>2 DEF CommandInv, DiskInv, Complete, DiskTypes
<1>5. built # 0 => builds[built].path # Current.path
  BY <1>2 DEF CommandInv, DiskInv
<1> QED
  BY <1>1, <1>2, <1>3, <1>4, <1>5, BuildFrame

LEMMA BeginSaveInv ==
  ASSUME CommandInv, BeginSave
  PROVE  FileInv'
<1>1. PICK s \in Savers : pc[s] = "idle" /\ Begin(s)
  BY DEF BeginSave
<1>2. /\ UNCHANGED <<uring, files, builds, segment, stream, got, done, built, cpc>>
      /\ cpc = "save" /\ versions' = Append(versions, Len(builds))
  BY DEF BeginSave, queryVars
<1>3. /\ begun' = begun + 1 /\ begun \in Nat /\ UNCHANGED <<names, data>>
      /\ pc' = [pc EXCEPT ![s] = "remove"] /\ saving' = [saving EXCEPT ![s] = begun + 1]
  BY <1>1 DEF CommandInv, Begin, Goto, SaveInv, SaveTypes, TypeOK
<1>4. ~Reading /\ Building
  BY <1>2 DEF Reading, PastHeader, Building
<1>5. Len(builds) \in Nat /\ Len(builds) > 0 /\ Complete(Len(builds))
      /\ (built # 0 => builds[built].path # Current.path)
  BY <1>2, <1>4 DEF CommandInv, DiskTypes, DiskInv
<1>6. /\ versions' \in Seq(Nat) /\ Len(versions') = begun'
      /\ versions'[begun'] = Len(builds) /\ \A v \in 1..begun : versions'[v] = versions[v]
  <2>1. versions \in Seq(Nat) /\ Len(versions) = begun
    BY DEF CommandInv, DiskTypes, VersionInv
  <2> QED
    BY <1>2, <1>3, <1>5, <2>1, AppendProperties
<1>7. VersionInv'
  <2>1. \A v \in 1..begun' : versions'[v] \in 1..Len(builds)
    <3>1. \A v \in 1..begun' : v = begun' \/ v \in 1..begun
      BY <1>3
    <3> QED
      BY <1>3, <1>5, <1>6, <3>1 DEF CommandInv, VersionInv
  <2>2. \A t \in Savers : saving'[t] = begun'
    BY <1>3, Alone DEF CommandInv, SaveInv, SaveTypes, TypeOK
  <2>3. built' # 0 => Stored[1]' # 0 /\ versions'[Stored[1]'] = built'
    <3>1. Stored' = Stored /\ Stored[1] \in 0..begun
      BY <1>3 DEF CommandInv, Stored, SaveInv, StoredInv
    <3>2. Stored[1] # 0 => Stored[1] \in 1..begun
      BY <1>3, <3>1
    <3> QED
      BY <1>2, <1>6, <3>1, <3>2 DEF CommandInv, VersionInv
  <2>4. begun' > 0
    BY <1>3
  <2> QED
    BY <1>2, <1>6, <2>1, <2>2, <2>3, <2>4 DEF CommandInv, VersionInv
<1> QED
  BY <1>2, <1>4, <1>5, <1>6, <1>7, BuildFrame

LEMMA SaveManifestInv ==
  ASSUME CommandInv, SaveManifest
  PROVE  FileInv'
<1>1. PICK s \in Savers :
        /\ pc[s] # "idle" /\ Save(s)
        /\ IF pc'[s] # "idle" THEN UNCHANGED <<cpc, built>>
           ELSE /\ cpc' = "idle"
                /\ built' = IF result'[s] = "true" THEN Len(builds) ELSE built
  BY DEF SaveManifest
<1>2. /\ UNCHANGED <<uring, files, builds, versions, segment, stream, got, done>>
      /\ cpc = "save"
  BY DEF SaveManifest, fileVars, queryVars
<1>3. UNCHANGED <<begun, saving>>
  BY <1>1 DEF Save, Begin, Goto, RemoveTmp, OpenTmp, OpenFails, Write, Close, WriteFails,
              Rename, RenameFails, GiveUp
<1>4. ~Reading /\ Building /\ cpc' \in {"idle", "save"} /\ (pc'[s] # "idle" => cpc' = "save")
  BY <1>1, <1>2 DEF Reading, PastHeader, Building
<1>5. /\ Len(builds) > 0 /\ Complete(Len(builds))
      /\ (built # 0 => builds[built].path # Current.path)
  BY <1>2, <1>4 DEF CommandInv, DiskTypes, DiskInv
<1>6. saving[s] = begun /\ begun > 0 /\ versions[begun] = Len(builds)
  BY <1>1 DEF CommandInv, VersionInv
<1>7. \/ Stored' = Stored /\ built' = built
      \/ Stored' = Whole(begun) /\ built' = Len(builds) /\ cpc' = "idle"
  <2>1. \/ Stored' = Stored /\ ~(pc'[s] = "idle" /\ result'[s] = "true")
        \/ Stored' = Whole(begun) /\ pc'[s] = "idle" /\ result'[s] = "true"
    BY <1>1, <1>6, SaveStep DEF CommandInv
  <2> QED
    BY <1>1, <2>1
<1>8. VersionInv'
  <2>1. built' # 0 => Stored[1]' # 0 /\ versions[Stored[1]'] = built'
    <3>1. CASE Stored' = Stored /\ built' = built
      BY <3>1 DEF CommandInv, VersionInv
    <3>2. CASE Stored' = Whole(begun) /\ built' = Len(builds)
      <4>1. Stored[1]' = begun
        BY <3>2, WholeValue
      <4> QED
        BY <1>6, <3>2, <4>1
    <3> QED
      BY <1>7, <3>1, <3>2
  <2>2. \A t \in Savers : pc'[t] # "idle" => cpc' = "save" /\ saving'[t] = begun'
    BY <1>3, <1>4, <1>6, Alone
  <2> QED
    BY <1>2, <1>3, <1>6, <2>1, <2>2 DEF CommandInv, VersionInv
<1>9. versions' \in Seq(Nat)
  BY <1>2 DEF CommandInv, DiskTypes
<1> QED
  BY <1>2, <1>4, <1>5, <1>7, <1>8, <1>9, BuildFrame

LEMMA KillInv ==
  ASSUME CommandInv, Kill
  PROVE  FileInv'
<1>1. /\ UNCHANGED <<uring, files, builds, versions, segment, stream, got, done, built>>
      /\ cpc = "save" /\ cpc' = "idle" /\ UNCHANGED <<names, data, begun, saving>>
      /\ \A s \in Savers : pc'[s] = "idle"
  BY DEF Kill, Crash, fileVars, queryVars
<1>2. ~Reading
  BY <1>1 DEF Reading, PastHeader
<1>3. VersionInv' /\ versions' \in Seq(Nat)
  BY <1>1 DEF CommandInv, VersionInv, Stored, DiskTypes
<1> QED
  BY <1>1, <1>2, <1>3, BuildFrame

-----------------------------------------------------------------------------
(***************************************************************************)
(* The invariant, and what follows from it.                                *)
(***************************************************************************)

LEMMA InitFiles == CommandInit => FileInv
<1> SUFFICES ASSUME CommandInit PROVE FileInv
  OBVIOUS
<1>1. /\ uring \in BOOLEAN /\ files = [p \in Paths |-> <<>>]
      /\ builds = <<>> /\ versions = <<>> /\ cpc = "idle" /\ done = 0 /\ segment = NoSegment
      /\ stream = "ok" /\ got = Nothing /\ built = 0 /\ begun = 0
      /\ \A s \in Savers : pc[s] = "idle"
  BY DEF CommandInit, Init
<1>2. ~Building /\ ~Reading /\ ~PastHeader
  BY <1>1 DEF Building, Reading, PastHeader
<1>3. <<>> \in Seq(BuildRecords) /\ <<>> \in Seq(Blocks) /\ <<>> \in Seq(Nat) /\ Len(<<>>) = 0
  OBVIOUS
<1>4. DiskTypes
  BY <1>1, <1>2, <1>3 DEF DiskTypes, NoSegment
<1>5. DiskInv /\ SyncInv
  BY <1>1, <1>2 DEF DiskInv, SyncInv
<1>6. VersionInv
  BY <1>1, <1>3 DEF VersionInv
<1>7. ReadInv
  BY <1>1, <1>2 DEF ReadInv, NoMixOnSync, PastHeader
<1> QED
  BY <1>4, <1>5, <1>6, <1>7 DEF FileInv

LEMMA FileStutters ==
  ASSUME CommandInv, UNCHANGED commandVars
  PROVE  FileInv'
<1>1. UNCHANGED <<vars, uring, codebook, files, builds, versions, segment, stream, got, cpc,
                  done, built>>
  BY DEF commandVars, fileVars, queryVars
<1>2. DiskTypes'
  BY <1>1 DEF CommandInv, DiskTypes, Building, Reading, PastHeader
<1>3. DiskInv'
  BY <1>1 DEF CommandInv, DiskInv, Building, Complete, HasFirst, LayoutOf, FileOf, Current
<1>4. VersionInv'
  BY <1>1 DEF CommandInv, VersionInv, vars, saverVars, Stored
<1>5. SyncInv'
  BY <1>1 DEF CommandInv, SyncInv, HasFirst, LayoutOf, FileOf
<1>6. ReadInv'
  BY <1>1 DEF CommandInv, ReadInv, Reading, PastHeader, NoMixOnSync, GotFrom, HasPQ, FileRead
<1> QED
  BY <1>2, <1>3, <1>4, <1>5, <1>6 DEF FileInv

LEMMA CommandAlways == CommandSpec => []CommandInv
<1>1. CommandInit => CommandInv
  BY InitSave, InitFiles DEF CommandInit, CommandInv, FileInv
<1>2. CommandInv /\ [CommandNext]_commandVars => CommandInv'
  <2> SUFFICES ASSUME CommandInv, [CommandNext]_commandVars PROVE FileInv'
    BY SaveNext DEF CommandInv, FileInv
  <2>1. CASE Build
    BY <2>1, OpenSegmentInv, WriteBlockInv, WriteBlockFailsInv, FlushInv, FlushFailsInv,
       BeginSaveInv, SaveManifestInv, KillInv DEF Build
  <2>2. CASE Query
    BY <2>2, LoadManifestInv, ReadHeaderInv, ReadPQSectionInv, ReadNodeInv, EndQueryInv
       DEF Query
  <2> QED
    BY <2>1, <2>2, TrainInv, FileStutters DEF CommandNext
<1> QED
  BY <1>1, <1>2, PTL DEF CommandSpec

\* Once Save has returned true, and until a build opens that file again, a query finds
\* the build, its codebook whole, and reads its blocks and none that an earlier or a
\* longer segment left in the file.
THEOREM BuiltIsAlwaysServed == CommandSpec => []BuiltIsServed
<1>1. CommandInv => BuiltIsServed
  <2> SUFFICES ASSUME CommandInv, built # 0, cpc \notin {"idle", "write", "save"}
               PROVE  /\ segment.path = builds[built].path
                      /\ builds[built].codebook # "short"
                      /\ (got # Nothing /\ stream = "ok") => GotFrom(built)
    BY DEF BuiltIsServed
  <2>1. Reading /\ built \in 1..Len(builds)
    BY DEF CommandInv, DiskTypes, Building
  <2> QED
    BY <2>1, BuildShape DEF CommandInv, ReadInv
<1> QED
  BY <1>1, CommandAlways, PTL

\* Where opening truncates, a reader never gets blocks of two builds.
THEOREM SyncNeverMixes == CommandSpec => []NoMixOnSync
<1>1. CommandInv => NoMixOnSync
  BY DEF CommandInv, ReadInv
<1> QED
  BY <1>1, CommandAlways, PTL

-----------------------------------------------------------------------------
(***************************************************************************)
(* The rest of the types.                                                  *)
(***************************************************************************)

\* No file has a block of a build that has not begun.
KnownIn(file, n) == \A k \in 1..Len(file) : file[k].build \in 0..n

RestInv ==
  /\ codebook \in {"none", "short", "whole"} /\ stream \in {"ok", "failed", "out_of_step"}
  /\ \A p \in Paths : KnownIn(files[p], Len(builds))

\* All blocks of a build bear its number.
LEMMA LayoutBuild ==
  ASSUME DiskTypes, NEW b \in 1..Len(builds), NEW k \in 1..Len(LayoutOf(b))
  PROVE  LayoutOf(b)[k].build = b
<1> DEFINE n == builds[b].count
           has_pq == builds[b].codebook # "none"
           layout == LayoutOf(b)
<1>1. /\ n \in Nat \ {0} /\ Len(layout) = n + (IF has_pq THEN 4 ELSE 1)
      /\ \A kind, i : Written(n, has_pq, kind, i) => layout[Offset(kind, i, n)] = Block(b, kind, i)
  BY BuildShape
<1> HIDE DEF n, has_pq, layout
<1>2. \E kind, i : Written(n, has_pq, kind, i) /\ Offset(kind, i, n) = k
  <2>1. k \in 1..Len(layout)
    BY DEF layout
  <2>2. CASE k = 1
    BY <2>2 DEF Written, Offset
  <2>3. CASE k \in 2..n + 1
    <3>1. k - 1 \in 1..n /\ 1 + (k - 1) = k
      BY <1>1, <2>3
    <3>2. Written(n, has_pq, "record", k - 1) /\ Offset("record", k - 1, n) = k
      BY <3>1 DEF Written, Offset
    <3> QED
      BY <3>2
  <2>4. CASE has_pq /\ k \in {n + 2, n + 3, n + 4}
    <3>1. /\ Written(n, has_pq, "pq_header", 0) /\ Offset("pq_header", 0, n) = n + 2
          /\ Written(n, has_pq, "centroids", 0) /\ Offset("centroids", 0, n) = n + 3
          /\ Written(n, has_pq, "codes", 0) /\ Offset("codes", 0, n) = n + 4
      BY <2>4 DEF Written, Offset
    <3> QED
      BY <2>4, <3>1
  <2>5. k = 1 \/ k \in 2..n + 1 \/ (has_pq /\ k \in {n + 2, n + 3, n + 4})
    BY <1>1, <2>1
  <2> QED
    BY <2>2, <2>3, <2>4, <2>5
<1>3. layout[k].build = b
  <2>1. PICK kind, i : Written(n, has_pq, kind, i) /\ Offset(kind, i, n) = k
    BY <1>2
  <2>2. layout[k] = Block(b, kind, i)
    BY <1>1, <2>1
  <2> QED
    BY <2>2 DEF Block
<1> QED
  BY <1>3 DEF layout

\* A block of a known build leaves a file of known builds.
LEMMA KnownWithBlock ==
  ASSUME NEW n, NEW file \in Seq(Blocks), NEW offset \in 1..Len(file) + 1,
         NEW block \in Blocks, KnownIn(file, n), block.build \in 0..n
  PROVE  KnownIn(WithBlock(file, offset, block), n)
<1> DEFINE g == WithBlock(file, offset, block)
<1>1. /\ Len(g) = (IF offset <= Len(file) THEN Len(file) ELSE offset) /\ g[offset] = block
      /\ \A k \in 1..Len(file) : k # offset => g[k] = file[k]
  BY WithBlockShape
<1> HIDE DEF g
<1>2. \A k \in 1..Len(g) : k = offset \/ (k \in 1..Len(file) /\ k # offset)
  BY <1>1
<1> QED
  BY <1>1, <1>2 DEF KnownIn, g

\* What a step may do to the file of the build in progress.
LEMMA KnownChanged ==
  ASSUME CommandInv, RestInv, cpc = "write",
         UNCHANGED <<builds, codebook, stream>>,
         NEW file, KnownIn(file, Len(builds)),
         files' = [files EXCEPT ![Current.path] = file]
  PROVE  RestInv'
<1>1. files \in [Paths -> Seq(Blocks)]
  BY DEF CommandInv, DiskTypes
<1>2. \A q \in Paths : files'[q] = file \/ files'[q] = files[q]
  BY <1>1
<1> QED
  BY <1>2 DEF RestInv, KnownIn

LEMMA StepRest ==
  ASSUME CommandInv, RestInv, [CommandNext]_commandVars
  PROVE  RestInv'
<1> DEFINE last  == Len(builds)
           file  == files[Current.path]
           block == LayoutOf(last)[done + 1]
<1>1. ASSUME UNCHANGED <<files, builds>>, codebook' \in {"none", "short", "whole"},
             stream' \in {"ok", "failed", "out_of_step"}
      PROVE  RestInv'
  BY <1>1 DEF RestInv, KnownIn
<1>2. ASSUME cpc = "write"
      PROVE  last \in 1..Len(builds) /\ Current.path \in Paths /\ KnownIn(file, last)
  <2>1. Len(builds) \in Nat /\ Len(builds) > 0
    BY <1>2 DEF CommandInv, DiskTypes, Building
  <2> QED
    BY <2>1, BuildShape DEF CommandInv, Current, RestInv
<1>3. ASSUME cpc = "write", done < Len(LayoutOf(last)),
             NEW b \in {block} \cup (IF done < Len(file) THEN {Torn} ELSE {})
      PROVE  KnownIn(WithBlock(file, done + 1, b), last)
  <2>1. /\ file \in Seq(Blocks) /\ done + 1 \in 1..Len(file) + 1 /\ done \in Nat
        /\ block \in Blocks
    BY <1>3, NextBlock
  <2>2. Torn \in Blocks /\ Torn.build = 0
    BY DEF Torn, Block, Blocks
  <2>3. block.build = last /\ last \in 0..last /\ 0 \in 0..last
    <3>1. Len(LayoutOf(last)) \in Nat
      BY <1>2, <1>3, BuildShape DEF CommandInv
    <3>2. done + 1 \in 1..Len(LayoutOf(last))
      BY <1>3, <2>1, <3>1
    <3> QED
      BY <1>2, <1>3, <3>2, LayoutBuild DEF CommandInv
  <2>4. b \in Blocks /\ b.build \in 0..last
    BY <1>3, <2>1, <2>2, <2>3
  <2> HIDE DEF file, block, last
  <2> QED
    BY <1>2, <1>3, <2>1, <2>4, KnownWithBlock
<1>4. CASE TrainPq
  BY <1>1, <1>4 DEF TrainPq, SaveCodebook, queryVars, RestInv
<1>5. CASE OpenSegment
  <2>1. /\ UNCHANGED <<codebook, stream>>
        /\ \E p \in Paths : files' = [files EXCEPT ![p] = Opened(files[p])]
        /\ \E b \in BuildRecords : builds' = Append(builds, b)
    <3>1. PICK p \in Paths, n \in Counts, pq \in BOOLEAN :
            /\ pq => LoadCodebook
            /\ builds' = Append(builds, [path |-> p, count |-> n,
                                         codebook |-> IF pq THEN codebook ELSE "none"])
            /\ files' = [files EXCEPT ![p] = Opened(files[p])]
      BY <1>5 DEF OpenSegment
    <3>2. [path |-> p, count |-> n, codebook |-> IF pq THEN codebook ELSE "none"]
            \in BuildRecords
      BY <3>1 DEF LoadCodebook, BuildRecords
    <3> QED
      BY <1>5, <3>1, <3>2 DEF OpenSegment, queryVars
  <2>2. Len(builds') = Len(builds) + 1 /\ Len(builds) \in Nat
    BY <2>1, AppendProperties DEF CommandInv, DiskTypes
  <2>3. files \in [Paths -> Seq(Blocks)]
    BY DEF CommandInv, DiskTypes
  <2>4. \A q \in Paths : files'[q] = <<>> \/ files'[q] = files[q]
    BY <2>1, <2>3 DEF Opened, UringOpened, SyncOpened
  <2>5. \A m : m \in 0..Len(builds) => m \in 0..Len(builds')
    BY <2>2
  <2> QED
    BY <2>1, <2>4, <2>5 DEF RestInv, KnownIn
<1>6. CASE WriteBlock
  <2>1. /\ cpc = "write" /\ done < Len(LayoutOf(last)) /\ UNCHANGED <<builds, codebook, stream>>
        /\ files' = [files EXCEPT ![Current.path] = WithBlock(file, done + 1, block)]
    BY <1>6 DEF WriteBlock, queryVars
  <2>2. KnownIn(WithBlock(file, done + 1, block), last)
    BY <1>3, <2>1
  <2> QED
    BY <2>1, <2>2, KnownChanged
<1>7. CASE WriteBlockFails
  <2>1. /\ cpc = "write" /\ done < Len(LayoutOf(last)) /\ UNCHANGED <<builds, codebook, stream>>
        /\ \/ UNCHANGED files
           \/ \E b \in {block} \cup (IF done < Len(file) THEN {Torn} ELSE {}) :
                files' = [files EXCEPT ![Current.path] = WithBlock(file, done + 1, b)]
    BY <1>7 DEF WriteBlockFails, queryVars
  <2>2. CASE UNCHANGED files
    BY <1>1, <2>1, <2>2 DEF RestInv
  <2>3. CASE ~UNCHANGED files
    <3>1. PICK b \in {block} \cup (IF done < Len(file) THEN {Torn} ELSE {}) :
            files' = [files EXCEPT ![Current.path] = WithBlock(file, done + 1, b)]
      BY <2>1, <2>3
    <3>2. KnownIn(WithBlock(file, done + 1, b), last)
      BY <1>3, <2>1
    <3> QED
      BY <2>1, <3>1, <3>2, KnownChanged
  <2> QED
    BY <2>2, <2>3
<1>8. CASE FlushSegmentFails
  <2>1. /\ cpc = "write" /\ UNCHANGED <<builds, codebook, stream>>
        /\ files' = [files EXCEPT ![Current.path] = SubSeq(file, 1, Len(file) - 1)]
    BY <1>8 DEF FlushSegmentFails, queryVars
  <2>2. file \in Seq(Blocks)
    BY <1>2, <2>1 DEF CommandInv, DiskTypes
  <2>3. KnownIn(SubSeq(file, 1, Len(file) - 1), last)
    <3>1. KnownIn(file, last)
      BY <1>2, <2>1
    <3> HIDE DEF file, last
    <3> QED
      BY <2>2, <3>1 DEF KnownIn
  <2> QED
    BY <2>1, <2>3, KnownChanged
<1>9. CASE FlushSegment \/ BeginSave \/ SaveManifest \/ Kill
  BY <1>1, <1>9 DEF FlushSegment, BeginSave, SaveManifest, Kill, fileVars, queryVars, RestInv
<1>10. CASE Query
  BY <1>1, <1>10 DEF Query, LoadManifest, ReadHeader, ReadPQSection, ReadNode, ReadNodeFails,
     ReadNodeOutOfStep, EndQuery, fileVars, RestInv
<1>11. CASE UNCHANGED commandVars
  BY <1>1, <1>11 DEF commandVars, fileVars, queryVars, RestInv
<1> QED
  BY <1>4, <1>5, <1>6, <1>7, <1>8, <1>9, <1>10, <1>11 DEF CommandNext, Build

\* A sequence over a set is one over any larger set.
LEMMA SeqMonotone ==
  ASSUME NEW S, NEW T, S \subseteq T, NEW seq \in Seq(S)
  PROVE  seq \in Seq(T)
<1>1. Len(seq) \in Nat /\ seq \in [1..Len(seq) -> S]
  BY LenProperties
<1>2. seq \in [1..Len(seq) -> T]
  BY <1>1
<1> QED
  BY <1>1, <1>2

\* Every variable of the commands stays within its type; among others, a saved version
\* is of a build that has begun, and no file has a block of one that has not.
THEOREM TypeCorrect == CommandSpec => []CommandTypeOK
<1>1. CommandInit => RestInv
  <2> SUFFICES ASSUME CommandInit PROVE RestInv
    OBVIOUS
  <2>1. \A p \in Paths : files[p] = <<>>
    BY DEF CommandInit
  <2> QED
    BY <2>1 DEF CommandInit, RestInv, KnownIn
<1>2. CommandInv /\ RestInv /\ [CommandNext]_commandVars => RestInv'
  BY StepRest
<1>3. CommandInv /\ RestInv => CommandTypeOK
  <2> SUFFICES ASSUME CommandInv, RestInv PROVE CommandTypeOK
    OBVIOUS
  <2>1. builds \in Seq([path : Paths, count : Counts, codebook : {"none", "short", "whole"}])
    <3>1. /\ builds \in Seq(BuildRecords)
          /\ BuildRecords \subseteq [path : Paths, count : Counts,
                                     codebook : {"none", "short", "whole"}]
      BY DEF CommandInv, DiskTypes, BuildRecords
    <3> QED
      BY <3>1, SeqMonotone
  <2>2. versions \in Seq(DOMAIN builds) /\ Len(versions) = begun
    <3>1. /\ versions \in Seq(Nat) /\ Len(versions) = begun /\ begun \in Nat
          /\ \A v \in 1..begun : versions[v] \in 1..Len(builds)
      BY BoundsAssumption
         DEF CommandInv, DiskTypes, VersionInv, SaveInv, SaveTypes, TypeOK, BoundsAssumption
    <3>2. versions \in [1..begun -> 1..Len(builds)] /\ DOMAIN builds = 1..Len(builds)
      BY <3>1, <2>1
    <3> QED
      BY <3>1, <3>2
  <2>3. \A p \in Paths : \A k \in DOMAIN files[p] : files[p][k].build \in 0..Len(builds)
    <3>1. \A p \in Paths : files[p] \in Seq(Blocks) /\ DOMAIN files[p] = 1..Len(files[p])
      BY DEF CommandInv, DiskTypes
    <3> QED
      BY <3>1 DEF RestInv, KnownIn
  <2> QED
    BY <2>1, <2>2, <2>3
       DEF CommandInv, SaveInv, SaveTypes, DiskTypes, RestInv, CommandTypeOK, Building,
           Reading, PastHeader
<1> QED
  BY <1>1, <1>2, <1>3, CommandAlways, PTL DEF CommandSpec
=============================================================================
