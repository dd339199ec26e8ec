-------------------------- MODULE CompactionSignal --------------------------
(***************************************************************************)
(* The flags and the condition variable of CompactionScheduler             *)
(* (storage/compaction.cpp): how a request for a check, a pause and the    *)
(* destruction of the scheduler reach its worker.  What a check does with  *)
(* the segments is LsmStore's; here a check sees the commits made so far,  *)
(* if its Load succeeds, and may or may not find something to merge.       *)
(*                                                                         *)
(* The flags are atomics that are stored without mutex_, so a store and    *)
(* its notify can both fall between the worker's evaluation of the wait's  *)
(* predicate (step Evaluate) and its going to sleep (step FallAsleep), and *)
(* such a notify wakes nobody.  Nobody but the worker ever takes mutex_,   *)
(* which is therefore left out.  The wait may also return for no reason    *)
(* (SpuriousWakeup), but nothing may rely on it: it gets no fairness.      *)
(***************************************************************************)
EXTENDS Integers, FiniteSets

CONSTANTS
  Callers,         \* threads that commit a segment and call ScheduleCheck
  MaxPauses,       \* Pause/Resume pairs called before WaitIdle
  MaxFailedLoads,  \* Loads of the manifest that fail
  MaxCompactions   \* checks that find a level over its limit

ASSUME CallersAssumption == IsFiniteSet(Callers)
ASSUME BoundsAssumption ==
  MaxPauses \in Nat /\ MaxFailedLoads \in Nat /\ MaxCompactions \in Nat

VARIABLES
  pending_, stop_, paused_,
  compaction_count_,
  worker,        \* where WorkerLoop is
  caller,        \* where each caller is
  owner,         \* where the thread that owns the scheduler is
  pauses,        \* pauses it has made
  failed_loads,  \* Loads that have failed
  unseen,        \* history: a commit is not in any manifest WorkerLoop loaded
  swallowed,     \* history: a Load has failed when no request was pending, and
                 \* there has been no request and no other Load since
  missed         \* history: a notify fell before the worker was asleep

workerVars == <<worker, compaction_count_, failed_loads>>
seenVars == <<unseen, swallowed>>
ownerVars  == <<owner, pauses>>
vars == <<pending_, stop_, paused_, workerVars, caller, ownerVars, seenVars,
          missed>>

Init ==
  /\ pending_ = FALSE /\ stop_ = FALSE /\ paused_ = FALSE
  /\ compaction_count_ = 0 /\ failed_loads = 0
  /\ worker = "top"
  /\ caller = [c \in Callers |-> "commit"]
  /\ owner = "run" /\ pauses = 0
  /\ unseen = FALSE /\ swallowed = FALSE /\ missed = FALSE

\* Mutant: the flag is stored but nobody is notified.
NotifyNobody == worker' = worker /\ missed' = missed

\* notify_one and notify_all: the worker is the only thread that ever waits.
Notify ==
  /\ worker' = IF worker = "asleep" THEN "evaluate" ELSE worker
  /\ missed' = (missed \/ worker = "sleepy")

-----------------------------------------------------------------------------
(***************************************************************************)
(* A thread that commits segments, as many as it likes: manifest.Save,     *)
(* then ScheduleCheck.                                                     *)
(***************************************************************************)

Commit(c) ==
  /\ caller[c] = "commit"
  /\ unseen' = TRUE
  /\ caller' = [caller EXCEPT ![c] = "store"]
  /\ UNCHANGED <<pending_, stop_, paused_, workerVars, ownerVars, swallowed, missed>>

StorePending(c) ==
  /\ caller[c] = "store"
  /\ pending_' = TRUE /\ swallowed' = FALSE
  /\ caller' = [caller EXCEPT ![c] = "notify"]
  /\ UNCHANGED <<stop_, paused_, workerVars, ownerVars, unseen, missed>>

NotifyPending(c) ==
  /\ caller[c] = "notify"
  /\ Notify
  /\ caller' = [caller EXCEPT ![c] = "commit"]
  /\ UNCHANGED <<pending_, stop_, paused_, compaction_count_, failed_loads,
                 ownerVars, seenVars>>

Caller(c) == Commit(c) \/ StorePending(c) \/ NotifyPending(c)

\* The input is used up, or the duration of the run is over.
Finish(c) ==
  /\ caller[c] = "commit"
  /\ caller' = [caller EXCEPT ![c] = "finished"]
  /\ UNCHANGED <<pending_, stop_, paused_, workerVars, ownerVars, seenVars, missed>>

CallersDone == \A c \in Callers : caller[c] = "finished"

-----------------------------------------------------------------------------
(***************************************************************************)
(* The owner: Pause and Resume while the callers run, then WaitIdle, then  *)
(* the destructor.                                                         *)
(***************************************************************************)

Pause ==
  /\ owner = "run" /\ pauses < MaxPauses
  /\ paused_' = TRUE
  /\ pauses' = pauses + 1
  /\ owner' = "resume"
  /\ UNCHANGED <<pending_, stop_, workerVars, caller, seenVars, missed>>

Resume ==
  /\ owner = "resume"
  /\ paused_' = FALSE
  /\ owner' = "notify_resume"
  /\ UNCHANGED <<pending_, stop_, workerVars, caller, pauses, seenVars, missed>>

NotifyResume ==
  /\ owner = "notify_resume"
  /\ Notify
  /\ owner' = "run"
  /\ UNCHANGED <<pending_, stop_, paused_, compaction_count_, failed_loads,
                 caller, pauses, seenVars>>

\* The callers have ended (the loop of CmdInsert, the writers' join of
\* CmdStress): the owner calls WaitIdle, or returns early on an error.
FinishRun ==
  /\ owner = "run" /\ CallersDone
  /\ owner' \in {"waitidle", "destroy"}
  /\ UNCHANGED <<pending_, stop_, paused_, workerVars, caller, pauses, seenVars, missed>>

WaitIdle ==
  /\ owner = "waitidle" /\ ~pending_
  /\ owner' = "destroy"
  /\ UNCHANGED <<pending_, stop_, paused_, workerVars, caller, pauses, seenVars, missed>>

Destroy ==
  /\ owner = "destroy"
  /\ stop_' = TRUE
  /\ owner' = "notify_all"
  /\ UNCHANGED <<pending_, paused_, workerVars, caller, pauses, seenVars, missed>>

NotifyAll ==
  /\ owner = "notify_all"
  /\ Notify
  /\ owner' = "join"
  /\ UNCHANGED <<pending_, stop_, paused_, compaction_count_, failed_loads,
                 caller, pauses, seenVars>>

Join ==
  /\ owner = "join" /\ worker = "stopped"
  /\ owner' = "done"
  /\ UNCHANGED <<pending_, stop_, paused_, workerVars, caller, pauses, seenVars, missed>>

Owner ==
  \/ Pause \/ Resume \/ NotifyResume \/ FinishRun
  \/ WaitIdle \/ Destroy \/ NotifyAll \/ Join

-----------------------------------------------------------------------------
(***************************************************************************)
(* The worker.                                                             *)
(***************************************************************************)

WorkerStep(from, to) == worker = from /\ worker' = to

OthersUnchanged == UNCHANGED <<stop_, paused_, caller, ownerVars, missed>>

\* while (!stop_), and the wait's predicate is evaluated for the first time.
LoopTop ==
  /\ WorkerStep("top", IF stop_ THEN "stopped" ELSE "evaluate")
  /\ OthersUnchanged /\ UNCHANGED <<pending_, compaction_count_, failed_loads, seenVars>>

\* Mutant: the predicate forgets stop_.
EvaluatePendingOnly ==
  /\ WorkerStep("evaluate", IF pending_ THEN "woken" ELSE "sleepy")
  /\ OthersUnchanged /\ UNCHANGED <<pending_, compaction_count_, failed_loads, seenVars>>

Evaluate ==
  /\ WorkerStep("evaluate", IF pending_ \/ stop_ THEN "woken" ELSE "sleepy")
  /\ OthersUnchanged /\ UNCHANGED <<pending_, compaction_count_, failed_loads, seenVars>>

FallAsleep ==
  /\ WorkerStep("sleepy", "asleep")
  /\ OthersUnchanged /\ UNCHANGED <<pending_, compaction_count_, failed_loads, seenVars>>

SpuriousWakeup ==
  /\ WorkerStep("asleep", "evaluate")
  /\ OthersUnchanged /\ UNCHANGED <<pending_, compaction_count_, failed_loads, seenVars>>

\* stop_ ends the loop; a paused worker sleeps 100 ms and goes round again,
\* leaving the request pending.
CheckFlags ==
  /\ WorkerStep("woken", IF stop_ THEN "stopped" ELSE IF paused_ THEN "top" ELSE "clear")
  /\ OthersUnchanged /\ UNCHANGED <<pending_, compaction_count_, failed_loads, seenVars>>

ClearPending ==
  /\ WorkerStep("clear", "load")
  /\ pending_' = FALSE
  /\ OthersUnchanged /\ UNCHANGED <<compaction_count_, failed_loads, seenVars>>

\* manifest.Load: every commit made so far is in what the check looks at.
LoadManifest ==
  /\ WorkerStep("load", "compact")
  /\ unseen' = FALSE /\ swallowed' = FALSE
  /\ OthersUnchanged /\ UNCHANGED <<pending_, compaction_count_, failed_loads>>

\* manifest.Load fails, or finds no line: the worker goes back to its wait, and
\* the request that woke it has been reset.
LoadFails ==
  /\ failed_loads < MaxFailedLoads
  /\ WorkerStep("load", "top")
  /\ failed_loads' = failed_loads + 1
  /\ swallowed' = ~pending_
  /\ OthersUnchanged /\ UNCHANGED <<pending_, compaction_count_, unseen>>

\* Mutant: the request is reset once it has been served.
NothingMergedResets ==
  /\ WorkerStep("compact", "top")
  /\ pending_' = FALSE
  /\ OthersUnchanged /\ UNCHANGED <<compaction_count_, failed_loads, seenVars>>

NothingMerged ==
  /\ WorkerStep("compact", "top")
  /\ OthersUnchanged /\ UNCHANGED <<pending_, compaction_count_, failed_loads, seenVars>>

\* CompactLevel succeeds: count it, ask for another check; the notify that
\* follows is the worker's own and finds nobody waiting.
Merged ==
  /\ compaction_count_ < MaxCompactions
  /\ WorkerStep("compact", "top")
  /\ compaction_count_' = compaction_count_ + 1
  /\ pending_' = TRUE
  /\ OthersUnchanged /\ UNCHANGED <<failed_loads, seenVars>>

Work ==
  \/ LoopTop \/ Evaluate \/ FallAsleep \/ CheckFlags \/ ClearPending
  \/ LoadManifest \/ LoadFails \/ NothingMerged \/ Merged

Done == owner = "done" /\ UNCHANGED vars

Next ==
  \/ \E c \in Callers : Caller(c) \/ Finish(c)
  \/ Owner \/ Work \/ SpuriousWakeup \/ Done

\* Every running thread is scheduled.  When a caller finishes, if ever, and when
\* the owner pauses is open, but a pause once made is ended.
Spec ==
  /\ Init /\ [][Next]_vars
  /\ WF_vars(Work)
  /\ \A c \in Callers : WF_vars(Caller(c))
  /\ WF_vars(Resume \/ NotifyResume \/ FinishRun \/ WaitIdle \/ Destroy
             \/ NotifyAll \/ Join)

-----------------------------------------------------------------------------
\* Every variable stays within its type.
TypeOK ==
  /\ pending_ \in BOOLEAN /\ stop_ \in BOOLEAN /\ paused_ \in BOOLEAN
  /\ unseen \in BOOLEAN /\ swallowed \in BOOLEAN /\ missed \in BOOLEAN
  /\ failed_loads \in 0..MaxFailedLoads
  /\ compaction_count_ \in 0..MaxCompactions
  /\ worker \in {"top", "evaluate", "sleepy", "asleep", "woken", "clear", "load",
                 "compact", "stopped"}
  /\ caller \in [Callers -> {"commit", "store", "notify", "finished"}]
  /\ owner \in {"run", "resume", "notify_resume", "waitidle", "destroy",
                "notify_all", "join", "done"}
  /\ pauses \in 0..MaxPauses

\* Requests may be merged, but nothing except a Load that fails swallows one, and
\* that only until the next one: a commit no check has seen is still requested,
\* about to be requested, or about to be looked at, or a Load has failed on it and
\* nothing has been requested since.  This is why the worker resets pending_
\* before it loads the manifest, and this is what it costs (compaction.cpp:68-71).
NoRequestSwallowed ==
  unseen => \/ pending_
            \/ worker = "load"
            \/ \E c \in Callers : caller[c] = "store"
            \/ swallowed

\* A lost wakeup or a failed Load delays a check only until a later commit: while
\* segments keep being committed, pauses or not, and Loads do not fail forever,
\* every commit is eventually looked at (compaction.cpp:33-36, 53-71).
CommitsKeepBeingSeen == unseen ~> (~unseen \/ CallersDone)

\* A notify that falls between the evaluation of the predicate and the sleep is
\* the only thing that can hang the scheduler: once the callers have finished,
\* whatever was merged, paused or requested meanwhile, WaitIdle returns and the
\* destructor's join comes back (compaction.cpp:25-31, 42-51).
EndsUnlessNotifyMissed == CallersDone ~> (owner = "done" \/ missed)
=============================================================================
