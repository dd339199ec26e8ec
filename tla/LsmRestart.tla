----------------------------- MODULE LsmRestart -----------------------------
(***************************************************************************)
(* The segment store over several runs of `vindex insert` in one           *)
(* directory: --manifest names the manifest that an earlier run left in    *)
(* --output, as in the examples of readme.md.  A run may be killed at any  *)
(* point.  What is in the directory stays, and everything the process kept *)
(* in memory starts again, the counters that name its files included.      *)
(***************************************************************************)
EXTENDS LsmStore, FiniteSetsExt

CONSTANT MaxRuns    \* runs of the command, at least one

VARIABLE runs

restartVars == <<vars, runs>>

\* A line serves the ids from its offset on, one for each vector of its file.
EndOfIds(m) == m.id_offset + Cardinality(files[m.path])

\* ComputeNextId, over the segments that LoadSegments has opened.
ComputeNextId == Max({EndOfIds(m) : m \in manifest})

\* The process has ended, or is killed, and `vindex insert` is started again.
Restart ==
  /\ runs < MaxRuns
  /\ runs' = runs + 1
  \* Manifest::Load and LoadSegments: a run that cannot open a segment ends here.
  /\ manifest # {} /\ \A m \in manifest : Readable(m.path)
  /\ next_id' = ComputeNextId
  /\ batch_index' = 0 /\ compaction_count_' = 0
  \* The kernel closes the streams; <path>.tmp, if there is one, stays.
  /\ stream' = [t \in Threads |-> "none"] /\ spc' = [t \in Threads |-> "remove"]
  /\ wpc' = "fill" /\ out_manifest' = {}
  /\ cpc' = "wait"
  /\ snapshot' = {} /\ levels' = {} /\ level' = 0 /\ sources' = {} /\ merged' = {}
  /\ latest' = {}
  /\ pending_' = FALSE /\ stop_' = FALSE
  /\ UNCHANGED <<files, manifest, tmp, acked, clean>>

RestartInit == Init /\ runs = 1

RestartNext == (Next /\ UNCHANGED runs) \/ Restart

RestartSpec == RestartInit /\ [][RestartNext]_restartVars
=============================================================================
