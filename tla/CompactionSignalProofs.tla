----------------------- MODULE CompactionSignalProofs -----------------------
(***************************************************************************)
(* Theorems about CompactionSignal, for every number of callers, pauses    *)
(* and compactions.                                                        *)
(*                                                                         *)
(* That only a failed Load swallows a request is inductive as it stands: a *)
(* flag that is reset hands the request over to the step that loads the    *)
(* manifest, and this to the next request if it fails.  That               *)
(* a sleeping worker is owed a notify is the safety core of                *)
(* EndsUnlessNotifyMissed, whose liveness part stays with TLC.             *)
(***************************************************************************)
EXTENDS CompactionSignal, TLAPS

\* Type correctness: the flags and counters of the scheduler, and where its
\* threads are (compaction.h, compaction.cpp:15-90).
THEOREM TypeCorrect == Spec => []TypeOK
<1>1. Init => TypeOK
  <2> SUFFICES ASSUME Init PROVE TypeOK
    OBVIOUS
  <2>1. /\ compaction_count_ \in 0..MaxCompactions /\ pauses \in 0..MaxPauses
        /\ failed_loads \in 0..MaxFailedLoads
    BY BoundsAssumption DEF BoundsAssumption, Init
  <2> QED
    BY <2>1 DEF Init, TypeOK
<1>2. TypeOK /\ [Next]_vars => TypeOK'
  <2> SUFFICES ASSUME TypeOK, [Next]_vars PROVE TypeOK'
    OBVIOUS
  <2> USE DEF TypeOK
  <2>1. ASSUME NEW c \in Callers, Caller(c) PROVE TypeOK'
    <3>1. CASE Commit(c)
      BY <3>1 DEF Commit, workerVars, ownerVars
    <3>2. CASE StorePending(c)
      BY <3>2 DEF StorePending, workerVars, ownerVars
    <3>3. CASE NotifyPending(c)
      BY <3>3 DEF NotifyPending, Notify, ownerVars, seenVars
    <3> QED
      BY <2>1, <3>1, <3>2, <3>3 DEF Caller
  <2>2. ASSUME NEW c \in Callers, Finish(c) PROVE TypeOK'
    BY <2>2 DEF Finish, workerVars, ownerVars, seenVars
  <2>3. CASE Owner
    <3>1. CASE Pause
      BY <3>1, BoundsAssumption DEF BoundsAssumption, Pause, workerVars, seenVars
    <3>2. CASE Resume \/ NotifyResume \/ FinishRun \/ WaitIdle
      BY <3>2 DEF Resume, NotifyResume, FinishRun, WaitIdle, Notify, workerVars, seenVars
    <3>3. CASE Destroy \/ NotifyAll \/ Join
      BY <3>3 DEF Destroy, NotifyAll, Join, Notify, workerVars, seenVars
    <3> QED
      BY <2>3, <3>1, <3>2, <3>3 DEF Owner
  <2>4. CASE Work \/ SpuriousWakeup
    <3> USE DEF WorkerStep, OthersUnchanged, ownerVars, seenVars
    <3>1. CASE Merged
      BY <3>1, BoundsAssumption DEF BoundsAssumption, Merged
    <3>2. CASE LoadFails
      <4>1. swallowed' \in BOOLEAN
        BY <3>2, Zenon DEF LoadFails
      <4> QED
        BY <3>2, <4>1, BoundsAssumption DEF BoundsAssumption, LoadFails
    <3>3. CASE LoopTop \/ Evaluate \/ FallAsleep \/ SpuriousWakeup
      BY <3>3 DEF LoopTop, Evaluate, FallAsleep, SpuriousWakeup
    <3>4. CASE CheckFlags \/ ClearPending \/ LoadManifest \/ NothingMerged
      BY <3>4 DEF CheckFlags, ClearPending, LoadManifest, NothingMerged
    <3> QED
      BY <2>4, <3>1, <3>2, <3>3, <3>4 DEF Work
  <2>5. CASE Done \/ UNCHANGED vars
    BY <2>5 DEF Done, vars, workerVars, ownerVars, seenVars
  <2> QED
    BY <2>1, <2>2, <2>3, <2>4, <2>5 DEF Next
<1> QED
  BY <1>1, <1>2, PTL DEF Spec

\* A commit that no check has seen is still requested, about to be requested, or
\* about to be looked at, or a Load has failed on it and nothing has been requested
\* since: the worker resets pending_ before it loads the manifest, and not after
\* (compaction.cpp:68-71).
THEOREM NothingSwallowed == Spec => []NoRequestSwallowed
<1>1. Init => NoRequestSwallowed
  BY DEF Init, NoRequestSwallowed
<1>2. TypeOK /\ NoRequestSwallowed /\ [Next]_vars => NoRequestSwallowed'
  <2> SUFFICES ASSUME TypeOK, NoRequestSwallowed, [Next]_vars, unseen'
               PROVE  \/ pending_' \/ worker' = "load" \/ swallowed'
                      \/ \E c \in Callers : caller'[c] = "store"
    BY DEF NoRequestSwallowed
  <2> USE DEF TypeOK
  <2>1. ASSUME NEW c \in Callers, Commit(c) PROVE caller'[c] = "store"
    BY <2>1 DEF Commit
  <2>2. ASSUME NEW c \in Callers, StorePending(c) PROVE pending_'
    BY <2>2 DEF StorePending
  <2>3. CASE ClearPending
    BY <2>3 DEF ClearPending, WorkerStep
  <2>4. CASE LoadManifest
    BY <2>4 DEF LoadManifest
  <2>5. CASE Merged
    BY <2>5 DEF Merged
  <2>9. CASE LoadFails
    BY <2>9 DEF LoadFails
  <2>6. ASSUME NEW c \in Callers, NotifyPending(c) \/ Finish(c)
        PROVE  \/ pending_' \/ worker' = "load" \/ swallowed'
               \/ \E d \in Callers : caller'[d] = "store"
    <3>1. /\ unseen /\ UNCHANGED <<pending_, swallowed>>
          /\ worker = "load" => worker' = "load"
      BY <2>6 DEF NotifyPending, Finish, Notify, workerVars, seenVars
    <3>2. ASSUME NEW d \in Callers, caller[d] = "store" PROVE caller'[d] = "store"
      BY <2>6, <3>2 DEF NotifyPending, Finish
    <3> QED
      BY <3>1, <3>2 DEF NoRequestSwallowed
  <2>7. CASE Owner \/ Done \/ UNCHANGED vars
    <3>1. /\ unseen /\ UNCHANGED <<pending_, caller, swallowed>>
          /\ worker = "load" => worker' = "load"
      BY <2>7 DEF Owner, Pause, Resume, NotifyResume, FinishRun, WaitIdle, Destroy,
                  NotifyAll, Join, Notify, Done, vars, workerVars, seenVars
    <3> QED
      BY <3>1 DEF NoRequestSwallowed
  <2>8. CASE LoopTop \/ Evaluate \/ FallAsleep \/ SpuriousWakeup \/ CheckFlags
             \/ NothingMerged
    <3>1. unseen /\ UNCHANGED <<pending_, caller, swallowed>> /\ worker # "load"
      BY <2>8 DEF LoopTop, Evaluate, FallAsleep, SpuriousWakeup, CheckFlags,
                  NothingMerged, WorkerStep, OthersUnchanged, seenVars
    <3> QED
      BY <3>1 DEF NoRequestSwallowed
  <2> QED
    BY <2>1, <2>2, <2>3, <2>4, <2>5, <2>6, <2>7, <2>8, <2>9 DEF Next, Caller, Work
<1> QED
  BY <1>1, <1>2, TypeCorrect, PTL DEF Spec

\* A worker that sleeps, or is about to, although it has been asked for something is
\* owed a notify that is still to come, or a notify has been missed.
NotifyOwed ==
  worker \in {"sleepy", "asleep"} =>
    /\ pending_ => missed \/ \E c \in Callers : caller[c] = "notify"
    /\ stop_ => missed \/ owner = "notify_all"

\* The destructor's join finds the worker asleep, or WaitIdle a request that nobody
\* will serve, only if a notify fell between the evaluation of the predicate and the
\* sleep: the flags are stored without the mutex (compaction.cpp:25-51).
THEOREM SleeperIsOwedNotify == Spec => []NotifyOwed
<1>1. Init => NotifyOwed
  BY DEF Init, NotifyOwed
<1>2. TypeOK /\ NotifyOwed /\ [Next]_vars => NotifyOwed'
  <2> SUFFICES ASSUME TypeOK, NotifyOwed, [Next]_vars PROVE NotifyOwed'
    OBVIOUS
  <2> USE DEF TypeOK, NotifyOwed
  <2>1. ASSUME NEW c \in Callers, Commit(c) \/ Finish(c) PROVE NotifyOwed'
    <3>1. \A d \in Callers : caller[d] = "notify" => caller'[d] = "notify"
      BY <2>1 DEF Commit, Finish
    <3> QED
      BY <2>1, <3>1 DEF Commit, Finish, workerVars, ownerVars
  <2>2. ASSUME NEW c \in Callers, StorePending(c) PROVE NotifyOwed'
    <3>1. caller'[c] = "notify" /\ UNCHANGED <<worker, stop_, owner, missed>>
      BY <2>2 DEF StorePending, workerVars, ownerVars
    <3> QED
      BY <3>1
  <2>3. ASSUME NEW c \in Callers, NotifyPending(c) PROVE NotifyOwed'
    BY <2>3 DEF NotifyPending, Notify
  <2>4. CASE Owner
    <3>1. CASE NotifyResume \/ NotifyAll
      BY <3>1 DEF NotifyResume, NotifyAll, Notify
    <3>2. CASE Destroy
      BY <3>2 DEF Destroy, workerVars
    <3>3. CASE Pause \/ Resume \/ FinishRun \/ WaitIdle \/ Join
      BY <3>3 DEF Pause, Resume, FinishRun, WaitIdle, Join, workerVars
    <3> QED
      BY <2>4, <3>1, <3>2, <3>3 DEF Owner
  <2>5. CASE Evaluate \/ FallAsleep
    BY <2>5 DEF Evaluate, FallAsleep, WorkerStep, OthersUnchanged, ownerVars
  <2>6. CASE LoopTop \/ CheckFlags \/ ClearPending \/ LoadManifest \/ LoadFails
             \/ NothingMerged \/ Merged \/ SpuriousWakeup
    BY <2>6 DEF LoopTop, CheckFlags, ClearPending, LoadManifest, LoadFails, NothingMerged,
                Merged, SpuriousWakeup, WorkerStep
  <2>7. CASE Done \/ UNCHANGED vars
    BY <2>7 DEF Done, vars, workerVars, ownerVars
  <2> QED
    BY <2>1, <2>2, <2>3, <2>4, <2>5, <2>6, <2>7 DEF Next, Caller, Work
<1> QED
  BY <1>1, <1>2, TypeCorrect, PTL DEF Spec
=============================================================================
