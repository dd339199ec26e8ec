----------------------------- MODULE QueryPool -----------------------------
(***************************************************************************)
(* ThreadPool (util/thread_pool.h, thread_pool.cpp) and the commands that  *)
(* use it: CmdQuery submits one task for each query, CmdEval one range of  *)
(* queries for each thread; both wait for all futures and then destroy the *)
(* pool.  Without a pool (one thread) the commands are sequential and not  *)
(* modelled.                                                               *)
(*                                                                         *)
(* A section under mutex_ is one step, and so is the section under         *)
(* result_mutex of CmdEval.  The wait is two steps, because the destructor *)
(* stores stop_ without the mutex: from the evaluation of the predicate    *)
(* until it sleeps a worker holds the mutex (LockFree).  The search of a   *)
(* query is in GraphSearch; here a query is answered.                      *)
(***************************************************************************)
EXTENDS Integers, Sequences, FiniteSets

CONSTANTS
  Workers,      \* the pool's threads; num_threads of them
  MaxQueries    \* queries in the input, at most

ASSUME WorkersAssumption == IsFiniteSet(Workers) /\ Workers # {}
ASSUME MaxQueriesAssumption == MaxQueries \in Nat

VARIABLES
  command,      \* "query" or "eval"
  queries,      \* queries.count()
  main,         \* where the command is: "run", "notify", then the destructor
  submitted,    \* futures.size()
  collected,    \* futures whose get has returned
  tasks,        \* tasks_: the submitted tasks by number
  ready,        \* tasks whose future is ready
  stop_,
  worker,       \* where each WorkerLoop is
  task,         \* the task that each worker executes, 0 if none
  qi,           \* the next query of its range
  answered,     \* query -> how often it was answered
  total,        \* queries that the totals account for
  missed        \* history: the destructor's notify fell before a worker slept

inputVars  == <<command, queries>>
mainVars   == <<main, submitted, collected>>
workerVars == <<worker, task, qi>>
vars == <<inputVars, mainVars, tasks, ready, stop_, workerVars, answered, total, missed>>

-----------------------------------------------------------------------------
\* CmdQuery: a task for each query.
Singles(n) == [i \in 1..n |-> [start |-> i - 1, end |-> i]]

\* Mutant: the division is not rounded up.
RangesRoundedDown(n) ==
  LET batch == n \div Cardinality(Workers)
  IN [t \in 1..Cardinality(Workers) |-> [start |-> (t - 1) * batch, end |-> t * batch]]

\* CmdEval: a range for each thread, until the first that would be empty.
Ranges(n) ==
  LET threads  == Cardinality(Workers)
      batch    == (n + threads - 1) \div threads
      start(t) == (t - 1) * batch
      end(t)   == IF start(t) + batch < n THEN start(t) + batch ELSE n
  IN [t \in {u \in 1..threads : start(u) < end(u)} |-> [start |-> start(t), end |-> end(t)]]

work == IF command = "query" THEN Singles(queries) ELSE Ranges(queries)

Init ==
  /\ command \in {"query", "eval"} /\ queries \in 0..MaxQueries
  /\ main = "run" /\ submitted = 0 /\ collected = 0
  /\ tasks = <<>> /\ ready = {} /\ stop_ = FALSE
  /\ worker = [w \in Workers |-> "top"]
  /\ task = [w \in Workers |-> 0] /\ qi = [w \in Workers |-> 0]
  /\ answered = [q \in 0..MaxQueries - 1 |-> 0]
  /\ total = 0 /\ missed = FALSE

LockFree == \A w \in Workers : worker[w] # "sleepy"
Sleepers == {w \in Workers : worker[w] = "asleep"}

Go(w, place) == worker' = [worker EXCEPT ![w] = place]

\* The workers in W leave the wait and evaluate its predicate again.
Wake(W) == worker' = [w \in Workers |-> IF w \in W THEN "evaluate" ELSE worker[w]]

-----------------------------------------------------------------------------
(***************************************************************************)
(* The command.                                                            *)
(***************************************************************************)

\* The locked section of Submit.
Push ==
  /\ main = "run" /\ submitted < Len(work) /\ LockFree
  /\ submitted' = submitted + 1
  /\ tasks' = Append(tasks, submitted')
  /\ main' = "notify"
  /\ UNCHANGED <<inputVars, collected, ready, stop_, workerVars, answered, total, missed>>

\* Mutant: nobody is notified.
NotifyNobody ==
  /\ main = "notify" /\ main' = "run"
  /\ UNCHANGED <<inputVars, submitted, collected, tasks, ready, stop_, workerVars,
                 answered, total, missed>>

\* cv_.notify_one(); return result
NotifyOne ==
  /\ main = "notify" /\ main' = "run"
  /\ IF Sleepers = {} THEN UNCHANGED worker
     ELSE \E w \in Sleepers : Wake({w})
  /\ UNCHANGED <<inputVars, submitted, collected, tasks, ready, stop_, task, qi,
                 answered, total, missed>>

\* Mutant: the future is not waited for.
GetNotWaited ==
  /\ main = "run" /\ submitted = Len(work) /\ collected < submitted
  /\ collected' = collected + 1
  /\ total' = IF command = "query" THEN total + 1 ELSE total
  /\ UNCHANGED <<inputVars, main, submitted, tasks, ready, stop_, workerVars,
                 answered, missed>>

\* futures[i].get(), in the order of submission.  CmdQuery adds up here.
Get ==
  /\ main = "run" /\ submitted = Len(work) /\ collected < submitted
  /\ collected + 1 \in ready
  /\ collected' = collected + 1
  /\ total' = IF command = "query" THEN total + 1 ELSE total
  /\ UNCHANGED <<inputVars, main, submitted, tasks, ready, stop_, workerVars,
                 answered, missed>>

\* The command ends and the pool is destroyed: stop_.store(true).
Destroy ==
  /\ main = "run" /\ submitted = Len(work) /\ collected = submitted
  /\ stop_' = TRUE
  /\ main' = "notify_all"
  /\ UNCHANGED <<inputVars, submitted, collected, tasks, ready, workerVars, answered,
                 total, missed>>

NotifyAll ==
  /\ main = "notify_all" /\ main' = "join"
  /\ Wake(Sleepers)
  /\ missed' = ~LockFree
  /\ UNCHANGED <<inputVars, submitted, collected, tasks, ready, stop_, task, qi,
                 answered, total>>

Join ==
  /\ main = "join" /\ \A w \in Workers : worker[w] = "returned"
  /\ main' = "done"
  /\ UNCHANGED <<inputVars, submitted, collected, tasks, ready, stop_, workerVars,
                 answered, total, missed>>

Main == Push \/ NotifyOne \/ Get \/ Destroy \/ NotifyAll \/ Join

-----------------------------------------------------------------------------
(***************************************************************************)
(* WorkerLoop.                                                             *)
(***************************************************************************)

\* while (!stop_.load())
LoopTop(w) ==
  /\ worker[w] = "top"
  /\ Go(w, IF stop_ THEN "returned" ELSE "evaluate")
  /\ UNCHANGED <<inputVars, mainVars, tasks, ready, stop_, task, qi, answered, total, missed>>

\* Mutant: the predicate does not look at stop_.
EvaluateTasksOnly(w) ==
  /\ worker[w] = "evaluate" /\ LockFree /\ tasks = <<>>
  /\ Go(w, "sleepy")
  /\ UNCHANGED <<inputVars, mainVars, tasks, ready, stop_, task, qi, answered, total, missed>>

\* The predicate is false.
Evaluate(w) ==
  /\ worker[w] = "evaluate" /\ LockFree /\ tasks = <<>> /\ ~stop_
  /\ Go(w, "sleepy")
  /\ UNCHANGED <<inputVars, mainVars, tasks, ready, stop_, task, qi, answered, total, missed>>

FallAsleep(w) ==
  /\ worker[w] = "sleepy"
  /\ Go(w, "asleep")
  /\ UNCHANGED <<inputVars, mainVars, tasks, ready, stop_, task, qi, answered, total, missed>>

\* if (stop_.load() && tasks_.empty()) return;
Stopped(w) ==
  /\ worker[w] = "evaluate" /\ LockFree /\ tasks = <<>> /\ stop_
  /\ Go(w, "returned")
  /\ UNCHANGED <<inputVars, mainVars, tasks, ready, stop_, task, qi, answered, total, missed>>

\* The front task is moved out of the queue.
Pop(w) ==
  /\ worker[w] = "evaluate" /\ LockFree /\ tasks # <<>>
  /\ tasks' = Tail(tasks)
  /\ task' = [task EXCEPT ![w] = Head(tasks)]
  /\ qi' = [qi EXCEPT ![w] = work[Head(tasks)].start]
  /\ Go(w, "run")
  /\ UNCHANGED <<inputVars, mainVars, ready, stop_, answered, total, missed>>

\* One query of the task: searched, and in CmdEval added to the totals.
Answer(w) ==
  /\ worker[w] = "run" /\ qi[w] < work[task[w]].end
  /\ answered' = [answered EXCEPT ![qi[w]] = @ + 1]
  /\ total' = IF command = "eval" THEN total + 1 ELSE total
  /\ qi' = [qi EXCEPT ![w] = @ + 1]
  /\ UNCHANGED <<inputVars, mainVars, tasks, ready, stop_, worker, task, missed>>

\* The task returns: its future is ready.
Finish(w) ==
  /\ worker[w] = "run" /\ qi[w] = work[task[w]].end
  /\ ready' = ready \cup {task[w]}
  /\ task' = [task EXCEPT ![w] = 0]
  /\ qi' = [qi EXCEPT ![w] = 0]
  /\ Go(w, "top")
  /\ UNCHANGED <<inputVars, mainVars, tasks, stop_, answered, total, missed>>

WorkerLoop(w) ==
  LoopTop(w) \/ Evaluate(w) \/ FallAsleep(w) \/ Stopped(w) \/ Pop(w) \/ Answer(w) \/ Finish(w)

Next == Main \/ \E w \in Workers : WorkerLoop(w)

\* Every thread is scheduled; main's steps and each worker's follow one another.
Spec ==
  /\ Init /\ [][Next]_vars
  /\ WF_vars(Main)
  /\ \A w \in Workers : WF_vars(WorkerLoop(w))

-----------------------------------------------------------------------------
\* Every variable stays within its type; a worker has a task while it runs one.
TypeOK ==
  /\ command \in {"query", "eval"} /\ queries \in 0..MaxQueries
  /\ main \in {"run", "notify", "notify_all", "join", "done"}
  /\ submitted \in 0..Len(work) /\ collected \in 0..submitted
  /\ tasks \in Seq(1..submitted) /\ ready \subseteq 1..submitted
  /\ stop_ \in BOOLEAN /\ missed \in BOOLEAN
  /\ worker \in [Workers -> {"top", "evaluate", "sleepy", "asleep", "run", "returned"}]
  /\ task \in [Workers -> 0..submitted]
  /\ \A w \in Workers : task[w] # 0 <=> worker[w] = "run"
  /\ qi \in [Workers -> 0..MaxQueries]
  /\ answered \in [0..MaxQueries - 1 -> Nat] /\ total \in Nat

\* When the last future has been waited for, every query of the input has been
\* answered once and is in the totals once: the ranges leave none out and do
\* not overlap, and no task is executed twice (main.cpp:340-350, 528-553).
EachQueryOnce ==
  (submitted = Len(work) /\ collected = submitted) =>
    /\ \A q \in 0..queries - 1 : answered[q] = 1
    /\ total = queries

\* The pool is destroyed only when it has nothing left to do: its workers leave
\* the loop without a look at the queue (thread_pool.cpp:26-27).
NothingDropped ==
  stop_ => tasks = <<>> /\ \A w \in Workers : task[w] = 0

\* What was submitted is executed, although notify_one may find no sleeper and
\* wakes one only (thread_pool.h:50-54).
FuturesBecomeReady == \A i \in 1..MaxQueries : submitted >= i ~> i \in ready

\* The destructor's joins come back, unless its notify fell between a worker's
\* predicate and its sleep: stop_ is stored without the mutex
\* (thread_pool.cpp:16-24, 31-36).
DestructorReturnsUnlessMissed == main = "join" ~> (main = "done" \/ missed)
=============================================================================
