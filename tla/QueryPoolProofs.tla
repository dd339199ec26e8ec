-------------------------- MODULE QueryPoolProofs --------------------------
(***************************************************************************)
(* Theorems about QueryPool, for every number of threads and queries.      *)
(*                                                                         *)
(* The tasks divide the queries (Partition): for CmdEval this is what the  *)
(* rounded-up division of main.cpp:541-546 is for.  A submitted task is in *)
(* the queue, with one worker, or ready, and the queue is in order of      *)
(* submission (PoolInv); so a query has been answered once if its task is  *)
(* ready or has come past it, and not at all otherwise (AnswerInv).        *)
(* A worker goes to sleep holding the mutex that a new task needs, so that *)
(* no task is forgotten (WakeInv).                                         *)
(***************************************************************************)
EXTENDS QueryPool, FiniteSetTheorems, SequenceTheorems, TLAPS

Threads == Cardinality(Workers)

LEMMA SomeThreads == Threads \in Nat \ {0}
BY WorkersAssumption, FS_CardinalityType, FS_EmptySet DEF WorkersAssumption, Threads

-----------------------------------------------------------------------------
(***************************************************************************)
(* How the queries are divided.                                            *)
(***************************************************************************)

\* The tasks are ranges of the n queries, every query is in one and in no other.
Partition(tasks_of, n) ==
  /\ DOMAIN tasks_of = 1..Len(tasks_of) /\ Len(tasks_of) \in 0..n
  /\ \A i \in 1..Len(tasks_of) :
       /\ tasks_of[i].start \in 0..n /\ tasks_of[i].end \in 0..n
       /\ tasks_of[i].start < tasks_of[i].end
  /\ \A q \in 0..n - 1 : \E i \in 1..Len(tasks_of) :
       tasks_of[i].start <= q /\ q < tasks_of[i].end
  /\ \A i, j \in 1..Len(tasks_of) : i < j => tasks_of[i].end <= tasks_of[j].start

LEMMA SinglesDivide == \A n \in Nat : Partition(Singles(n), n)
<1> SUFFICES ASSUME NEW n \in Nat PROVE Partition(Singles(n), n)
  OBVIOUS
<1>1. /\ DOMAIN Singles(n) = 1..n /\ Len(Singles(n)) = n
      /\ \A i \in 1..n : Singles(n)[i].start = i - 1 /\ Singles(n)[i].end = i
  BY DEF Singles
<1>2. ASSUME NEW q \in 0..n - 1
      PROVE  q + 1 \in 1..n /\ Singles(n)[q + 1].start <= q /\ q < Singles(n)[q + 1].end
  BY <1>1
<1>3. \A q \in 0..n - 1 : \E i \in 1..n : Singles(n)[i].start <= q /\ q < Singles(n)[i].end
  BY <1>2
<1>4. \A i, j \in 1..n : i < j => Singles(n)[i].end <= Singles(n)[j].start
  BY <1>1
<1>5. \A i \in 1..n : /\ Singles(n)[i].start \in 0..n /\ Singles(n)[i].end \in 0..n
                     /\ Singles(n)[i].start < Singles(n)[i].end
  BY <1>1
<1>6. n \in 0..n
  OBVIOUS
<1> DEFINE singles == Singles(n)
<1>7. /\ DOMAIN singles = 1..n /\ Len(singles) = n
      /\ \A i \in 1..n : /\ singles[i].start \in 0..n /\ singles[i].end \in 0..n
                       /\ singles[i].start < singles[i].end
      /\ \A q \in 0..n - 1 : \E i \in 1..n : singles[i].start <= q /\ q < singles[i].end
      /\ \A i, j \in 1..n : i < j => singles[i].end <= singles[j].start
  BY <1>1, <1>3, <1>4, <1>5
<1> HIDE DEF singles
<1>8. Partition(singles, n)
  BY <1>6, <1>7 DEF Partition
<1> QED
  BY <1>8 DEF singles

\* Multiplication preserves the order.
LEMMA Times == \A a, b, c \in Nat : a <= b => a * c <= b * c
OBVIOUS

LEMMA Division ==
  ASSUME NEW a \in Nat, NEW d \in Nat \ {0}
  PROVE  a \div d \in Nat /\ (a \div d) * d <= a /\ a < (a \div d + 1) * d
OBVIOUS

\* The batch is large enough, and not zero if there is a query.
LEMMA BatchLarge ==
  ASSUME NEW n \in Nat, NEW d \in Nat \ {0}
  PROVE  LET batch == (n + d - 1) \div d
         IN batch \in Nat /\ n <= batch * d /\ (n > 0 => batch > 0) /\ (n = 0 => batch = 0)
<1> DEFINE batch == (n + d - 1) \div d
<1>1. n + d - 1 \in Nat
  OBVIOUS
<1>2. batch \in Nat /\ batch * d <= n + d - 1 /\ n + d - 1 < (batch + 1) * d
  BY <1>1, Division
<1> HIDE DEF batch
<1>3. (batch + 1) * d = batch * d + d /\ batch * d \in Nat
  BY <1>2
<1>4. n <= batch * d
  BY <1>2, <1>3
<1>5. n > 0 => batch > 0
  BY <1>2, <1>4
<1>6. n = 0 => batch = 0
  <2> SUFFICES ASSUME n = 0, batch >= 1 PROVE FALSE
    BY <1>2
  <2>1. 1 * d <= batch * d
    BY <1>2, Times
  <2> QED
    BY <1>2, <2>1
<1> QED
  BY <1>2, <1>4, <1>5, <1>6 DEF batch

\* CmdEval's ranges: min and break make the last one end at n.
LEMMA RangesDivide == \A n \in Nat : Partition(Ranges(n), n)
<1> SUFFICES ASSUME NEW n \in Nat PROVE Partition(Ranges(n), n)
  OBVIOUS
<1> DEFINE batch == (n + Threads - 1) \div Threads
           start(t) == (t - 1) * batch
           end(t) == IF start(t) + batch < n THEN start(t) + batch ELSE n
           full == {t \in 1..Threads : start(t) < end(t)}
           m == IF n = 0 THEN 0 ELSE (n - 1) \div batch + 1
<1>1. Ranges(n) = [t \in full |-> [start |-> start(t), end |-> end(t)]]
  BY DEF Ranges, Threads
<1>2. /\ Threads \in Nat \ {0} /\ batch \in Nat /\ n <= batch * Threads
      /\ (n > 0 => batch > 0) /\ (n = 0 => batch = 0)
  BY SomeThreads, BatchLarge
<1> HIDE DEF batch
\* m is the first range whose end is n.
<1>3. m \in 0..n /\ m \in 0..Threads /\ n <= m * batch /\ (n > 0 => m > 0 /\ (m - 1) * batch < n)
  <2>1. CASE n = 0
    BY <1>2, <2>1
  <2>2. CASE n > 0
    <3> DEFINE k == (n - 1) \div batch
    <3>1. k \in Nat /\ k * batch <= n - 1 /\ n - 1 < (k + 1) * batch
      BY <1>2, <2>2, Division
    <3> HIDE DEF k
    <3>2. k < Threads
      <4> SUFFICES ASSUME Threads <= k PROVE FALSE
        BY <1>2, <3>1
      <4>1. Threads * batch <= k * batch
        BY <1>2, <3>1, Times
      <4>2. Threads * batch = batch * Threads
        BY <1>2
      <4> QED
        BY <1>2, <3>1, <4>1, <4>2
    <3>3. k <= n - 1
      <4>1. k * 1 <= k * batch
        BY <1>2, <2>2, <3>1
      <4> QED
        BY <3>1, <4>1, <1>2
    <3>4. m = k + 1
      BY <2>2 DEF k
    <3> HIDE DEF m
    <3> QED
      BY <1>2, <2>2, <3>1, <3>2, <3>3, <3>4
  <2> QED
    BY <2>1, <2>2
<1> HIDE DEF m
<1>4. \A t \in Nat \ {0} : /\ start(t) \in Nat /\ start(t) + batch = t * batch
                           /\ end(t) \in 0..n
  BY <1>2
<1>5. \A t \in 1..m : start(t) < n
  <2> SUFFICES ASSUME NEW t \in 1..m PROVE start(t) < n
    OBVIOUS
  <2>1. (t - 1) * batch <= (m - 1) * batch
    <3>1. t - 1 \in Nat /\ m - 1 \in Nat /\ t - 1 <= m - 1
      BY <1>3
    <3> QED
      BY <1>2, <3>1, Times
  <2>2. n > 0 /\ (m - 1) * batch \in Nat
    BY <1>2, <1>3
  <2> QED
    BY <1>2, <1>3, <1>4, <2>1, <2>2
<1>6. \A t \in 1..m : start(t) < end(t)
  BY <1>2, <1>3, <1>4, <1>5
<1>7. \A t \in Nat : t > m => start(t) >= n
  <2> SUFFICES ASSUME NEW t \in Nat, t > m PROVE start(t) >= n
    OBVIOUS
  <2>1. m * batch <= (t - 1) * batch
    <3>1. t - 1 \in Nat /\ m \in Nat /\ m <= t - 1
      BY <1>3
    <3> QED
      BY <1>2, <3>1, Times
  <2> QED
    BY <1>2, <1>3, <1>4, <2>1
<1>8. full = 1..m
  BY <1>2, <1>3, <1>4, <1>6, <1>7
<1> HIDE DEF full, start, end
<1>9. /\ DOMAIN Ranges(n) = 1..m /\ Len(Ranges(n)) = m /\ m \in 0..n
      /\ \A t \in 1..m : Ranges(n)[t].start = start(t) /\ Ranges(n)[t].end = end(t)
  BY <1>1, <1>3, <1>8
<1>10. \A t \in 1..m : t \in Nat \ {0}
  BY <1>3
<1>11. \A t \in 1..m : start(t) \in 0..n /\ end(t) \in 0..n
  BY <1>4, <1>5, <1>10
<1>12. ASSUME NEW q \in 0..n - 1
       PROVE  \E t \in 1..m : start(t) <= q /\ q < end(t)
  <2> DEFINE k == q \div batch
  <2>1. q \in Nat /\ n > 0 /\ batch \in Nat \ {0}
    BY <1>2
  <2>2. k \in Nat /\ k * batch <= q /\ q < (k + 1) * batch
    BY <2>1, Division
  <2> HIDE DEF k
  <2>3. k + 1 <= m
    <3> SUFFICES ASSUME m <= k PROVE FALSE
      BY <1>3, <2>2
    <3>1. m * batch <= k * batch
      BY <1>3, <2>1, <2>2, Times
    <3> QED
      BY <1>3, <2>1, <2>2, <3>1
  <2>4. k + 1 \in 1..m /\ start(k + 1) = k * batch
    BY <2>2, <2>3, <1>3 DEF start
  <2>5. q < end(k + 1)
    BY <1>4, <2>2, <2>4 DEF end
  <2> QED
    BY <2>2, <2>4, <2>5
<1>13. ASSUME NEW t \in 1..m, NEW u \in 1..m, t < u
       PROVE  end(t) <= start(u)
  <2>1. t * batch <= (u - 1) * batch
    <3>1. t \in Nat /\ u - 1 \in Nat /\ t <= u - 1
      BY <1>3, <1>13
    <3> QED
      BY <1>2, <3>1, Times
  <2>2. end(t) <= start(t) + batch /\ start(t) + batch = t * batch
    BY <1>2, <1>4, <1>10 DEF end
  <2>3. start(u) = (u - 1) * batch /\ start(u) \in Nat /\ t * batch \in Nat /\ end(t) \in Nat
    BY <1>2, <1>4, <1>10 DEF start
  <2> QED
    BY <2>1, <2>2, <2>3
<1> QED
  BY <1>6, <1>9, <1>11, <1>12, <1>13 DEF Partition

LEMMA WorkDivides == queries \in Nat => Partition(work, queries)
BY SinglesDivide, RangesDivide DEF work

-----------------------------------------------------------------------------
(***************************************************************************)
(* The inductive invariant.                                                *)
(***************************************************************************)

\* Tasks that workers have taken.
Popped == submitted - Len(tasks)

PoolTypes ==
  /\ command \in {"query", "eval"} /\ queries \in 0..MaxQueries /\ queries \in Nat
  /\ main \in {"run", "notify", "notify_all", "join", "done"}
  /\ submitted \in 0..Len(work) /\ collected \in 0..submitted
  /\ tasks \in Seq(Nat) /\ Len(tasks) <= submitted /\ ready \subseteq Nat
  /\ stop_ \in BOOLEAN /\ missed \in BOOLEAN
  /\ worker \in [Workers -> {"top", "evaluate", "sleepy", "asleep", "run", "returned"}]
  /\ task \in [Workers -> Nat] /\ qi \in [Workers -> Nat]
  /\ answered \in [0..MaxQueries - 1 -> Nat] /\ total \in Nat

\* The queue holds the last tasks submitted, in order; a task that a worker has is not
\* ready and no other worker's; a future is waited for only when it is ready.
PoolInv ==
  /\ \A i \in 1..Len(tasks) : tasks[i] = Popped + i
  /\ ready \subseteq 1..Popped
  /\ \A w \in Workers :
       IF worker[w] = "run"
       THEN /\ task[w] \in 1..Popped /\ task[w] \notin ready
            /\ work[task[w]].start <= qi[w] /\ qi[w] <= work[task[w]].end
       ELSE task[w] = 0 /\ qi[w] = 0
  /\ \A v, w \in Workers : v # w /\ worker[v] = "run" => task[v] # task[w]
  /\ 1..collected \subseteq ready
  /\ stop_ \/ main \notin {"run", "notify"} => submitted = Len(work) /\ collected = submitted

InRange(q, i) == work[i].start <= q /\ q < work[i].end

\* The task is ready, or a worker has it and is past the query.
Past(q, i) ==
  i \in ready \/ \E w \in Workers : worker[w] = "run" /\ task[w] = i /\ q < qi[w]

AnsweredSet == {q \in 0..queries - 1 : answered[q] # 0}

\* A query has been answered once if the task it belongs to is past it, and counted when
\* CmdEval answers it or CmdQuery collects it.
AnswerInv ==
  /\ \A q \in 0..queries - 1, i \in 1..Len(work) :
       InRange(q, i) => answered[q] = IF Past(q, i) THEN 1 ELSE 0
  /\ total = IF command = "query" THEN collected ELSE Cardinality(AnsweredSet)

QueryInv == PoolTypes /\ PoolInv /\ AnswerInv

LEMMA InitInv == Init => QueryInv
<1> SUFFICES ASSUME Init PROVE QueryInv
  OBVIOUS
<1>1. /\ queries \in Nat /\ queries \in 0..MaxQueries
      /\ Len(work) \in Nat
      /\ \A q \in 0..queries - 1 : q \in 0..MaxQueries - 1
  <2>1. queries \in Nat /\ queries \in 0..MaxQueries /\ MaxQueries \in Nat
    BY MaxQueriesAssumption DEF Init, MaxQueriesAssumption
  <2>2. Len(work) \in Nat
    BY <2>1, WorkDivides DEF Partition
  <2> QED
    BY <2>1, <2>2
<1>2. PoolTypes
  <2>1. tasks = <<>> /\ tasks \in Seq(Nat) /\ Len(tasks) = 0 /\ submitted = 0 /\ collected = 0
    BY DEF Init
  <2>2. submitted \in 0..Len(work) /\ collected \in 0..submitted /\ Len(tasks) <= submitted
    BY <1>1, <2>1
  <2>3. /\ task \in [Workers -> Nat] /\ qi \in [Workers -> Nat]
        /\ answered \in [0..MaxQueries - 1 -> Nat]
    BY DEF Init
  <2>4. worker \in [Workers -> {"top", "evaluate", "sleepy", "asleep", "run", "returned"}]
    BY DEF Init
  <2> QED
    BY <1>1, <2>1, <2>2, <2>3, <2>4 DEF Init, PoolTypes
<1>3. PoolInv
  BY DEF Init, PoolInv, Popped
<1>4. \A q \in 0..queries - 1 : answered[q] = 0
  BY <1>1 DEF Init
<1>5. AnsweredSet = {}
  BY <1>4 DEF AnsweredSet
<1>6. AnswerInv
  BY <1>4, <1>5, FS_EmptySet DEF Init, AnswerInv, Past
<1> QED
  BY <1>2, <1>3, <1>6 DEF QueryInv

\* A step of main or of a worker that moves no task.
LEMMA Frame ==
  ASSUME QueryInv, UNCHANGED <<command, queries, submitted, collected, tasks, ready, task, qi,
                               answered, total>>,
         main' \in {"run", "notify", "notify_all", "join", "done"},
         stop_' \in BOOLEAN, missed' \in BOOLEAN,
         worker' \in [Workers -> {"top", "evaluate", "sleepy", "asleep", "run", "returned"}],
         \A w \in Workers : worker'[w] = "run" <=> worker[w] = "run",
         stop_' \/ main' \notin {"run", "notify"} => submitted = Len(work) /\ collected = submitted
  PROVE  QueryInv'
<1> USE DEF QueryInv
<1>1. work' = work /\ Popped' = Popped
  BY DEF work, Popped
<1>2. PoolTypes'
  BY <1>1 DEF PoolTypes
<1>3. PoolInv'
  BY <1>1 DEF PoolInv
<1>4. \A q, i : Past(q, i)' <=> Past(q, i)
  BY DEF Past
<1>5. AnswerInv'
  BY <1>1, <1>4 DEF AnswerInv, InRange, AnsweredSet
<1> QED
  BY <1>2, <1>3, <1>5

LEMMA PushInv ==
  ASSUME QueryInv, Push
  PROVE  QueryInv'
<1> USE DEF QueryInv
<1>1. /\ UNCHANGED <<command, queries, collected, ready, stop_, worker, task, qi, answered, total, missed>>
      /\ main = "run" /\ main' = "notify" /\ submitted < Len(work)
      /\ submitted' = submitted + 1 /\ tasks' = Append(tasks, submitted + 1)
  BY DEF Push, inputVars, workerVars
<1>2. work' = work
  BY <1>1 DEF work
<1>3. /\ submitted \in Nat /\ tasks \in Seq(Nat) /\ Len(tasks) \in Nat /\ Len(work) \in Nat
      /\ collected \in 0..submitted
  BY WorkDivides DEF PoolTypes, Partition
<1>4. /\ tasks' \in Seq(Nat) /\ Len(tasks') = Len(tasks) + 1
      /\ tasks'[Len(tasks) + 1] = submitted + 1 /\ \A i \in 1..Len(tasks) : tasks'[i] = tasks[i]
  BY <1>1, <1>3, AppendProperties
<1>5. Popped' = Popped /\ submitted' = Popped + Len(tasks) + 1 /\ Popped \in Int
  BY <1>1, <1>3, <1>4 DEF Popped
<1>6. PoolTypes'
  BY <1>1, <1>2, <1>3, <1>4 DEF PoolTypes
<1>7. PoolInv'
  <2>1. \A i \in 1..Len(tasks') : tasks'[i] = Popped + i
    BY <1>1, <1>3, <1>4, <1>5 DEF PoolInv
  <2>2. ~stop_
    BY <1>1, <1>3 DEF PoolInv
  <2> QED
    BY <1>1, <1>2, <1>5, <2>1, <2>2 DEF PoolInv
<1>8. \A q, i : Past(q, i)' <=> Past(q, i)
  BY <1>1 DEF Past
<1>9. AnswerInv'
  BY <1>1, <1>2, <1>8 DEF AnswerInv, InRange, AnsweredSet
<1> QED
  BY <1>6, <1>7, <1>9

LEMMA GetInv ==
  ASSUME QueryInv, Get
  PROVE  QueryInv'
<1> USE DEF QueryInv
<1>1. /\ UNCHANGED <<command, queries, main, submitted, tasks, ready, stop_, worker, task, qi, answered, missed>>
      /\ main = "run" /\ submitted = Len(work) /\ collected < submitted
      /\ collected + 1 \in ready /\ collected' = collected + 1
      /\ total' = IF command = "query" THEN total + 1 ELSE total
  BY DEF Get, inputVars, workerVars
<1>2. work' = work /\ Popped' = Popped
  BY <1>1 DEF work, Popped
<1>3. submitted \in Nat /\ collected \in 0..submitted
  BY WorkDivides DEF PoolTypes, Partition
<1>4. PoolTypes'
  BY <1>1, <1>2, <1>3 DEF PoolTypes
<1>5. 1..collected' \subseteq ready
  <2>1. \A i \in 1..collected' : i \in 1..collected \/ i = collected + 1
    BY <1>1, <1>3
  <2> QED
    BY <1>1, <2>1 DEF PoolInv
<1>6. ~stop_
  BY <1>1, <1>3 DEF PoolInv
<1>7. PoolInv'
  BY <1>1, <1>2, <1>5, <1>6 DEF PoolInv
<1>8. \A q, i : Past(q, i)' <=> Past(q, i)
  BY <1>1 DEF Past
<1>9. AnswerInv'
  BY <1>1, <1>2, <1>8 DEF AnswerInv, InRange, AnsweredSet
<1> QED
  BY <1>4, <1>7, <1>9

\* The steps that move no task: wake-ups, the destructor, the loop and the wait.
LEMMA QuietInv ==
  ASSUME QueryInv,
         \/ NotifyOne \/ Destroy \/ NotifyAll \/ Join
         \/ \E w \in Workers : LoopTop(w) \/ Evaluate(w) \/ FallAsleep(w) \/ Stopped(w)
  PROVE  QueryInv'
<1> USE DEF QueryInv
<1>1. \A W \in SUBSET Sleepers : Wake(W) =>
        /\ worker' \in [Workers -> {"top", "evaluate", "sleepy", "asleep", "run", "returned"}]
        /\ \A w \in Workers : worker'[w] = "run" <=> worker[w] = "run"
  BY DEF PoolTypes, Wake, Sleepers
<1>2. CASE NotifyOne
  <2>1. /\ UNCHANGED <<command, queries, submitted, collected, tasks, ready, task, qi,
                       answered, total, stop_, missed>>
        /\ main = "notify" /\ main' = "run"
    BY <1>2 DEF NotifyOne, inputVars
  <2>2. /\ worker' \in [Workers -> {"top", "evaluate", "sleepy", "asleep", "run", "returned"}]
        /\ \A w \in Workers : worker'[w] = "run" <=> worker[w] = "run"
    <3>1. CASE Sleepers = {}
      BY <1>2, <3>1 DEF NotifyOne, PoolTypes
    <3>2. CASE Sleepers # {}
      <4>1. PICK w \in Sleepers : Wake({w})
        BY <1>2, <3>2 DEF NotifyOne
      <4>2. {w} \in SUBSET Sleepers
        OBVIOUS
      <4> QED
        BY <1>1, <4>1, <4>2
    <3> QED
      BY <3>1, <3>2
  <2>3. stop_' \in BOOLEAN /\ missed' \in BOOLEAN
        /\ (stop_' => submitted = Len(work) /\ collected = submitted)
    BY <2>1 DEF PoolTypes, PoolInv
  <2> QED
    BY <2>1, <2>2, <2>3, Frame
<1>3. CASE Destroy
  <2>1. /\ UNCHANGED <<command, queries, submitted, collected, tasks, ready, worker, task, qi,
                       answered, total, missed>>
        /\ main' = "notify_all" /\ stop_' = TRUE /\ submitted = Len(work) /\ collected = submitted
    BY <1>3 DEF Destroy, inputVars, workerVars
  <2> QED
    BY <2>1, Frame DEF PoolTypes
<1>4. CASE NotifyAll
  <2>1. /\ UNCHANGED <<command, queries, submitted, collected, tasks, ready, task, qi,
                       answered, total, stop_>>
        /\ main = "notify_all" /\ main' = "join" /\ Wake(Sleepers) /\ missed' = ~LockFree
    BY <1>4 DEF NotifyAll, inputVars
  <2>2. Sleepers \in SUBSET Sleepers
    OBVIOUS
  <2>3. stop_' \in BOOLEAN /\ missed' \in BOOLEAN
        /\ submitted = Len(work) /\ collected = submitted
    BY <2>1 DEF PoolTypes, PoolInv, LockFree
  <2> QED
    BY <1>1, <2>1, <2>2, <2>3, Frame
<1>5. CASE Join
  <2>1. /\ UNCHANGED <<command, queries, submitted, collected, tasks, ready, worker, task, qi,
                       answered, total, stop_, missed>>
        /\ main = "join" /\ main' = "done"
    BY <1>5 DEF Join, inputVars, workerVars
  <2>2. stop_' \in BOOLEAN /\ missed' \in BOOLEAN
        /\ submitted = Len(work) /\ collected = submitted
    BY <2>1 DEF PoolTypes, PoolInv
  <2> QED
    BY <2>1, <2>2, Frame DEF PoolTypes
<1>6. ASSUME NEW w \in Workers, LoopTop(w) \/ Evaluate(w) \/ FallAsleep(w) \/ Stopped(w)
      PROVE  QueryInv'
  <2>1. /\ UNCHANGED <<command, queries, main, submitted, collected, tasks, ready, stop_, task,
                       qi, answered, total, missed>>
        /\ worker[w] # "run"
        /\ \E place \in {"returned", "evaluate", "sleepy", "asleep"} : Go(w, place)
    BY <1>6 DEF LoopTop, Evaluate, FallAsleep, Stopped, inputVars, mainVars
  <2>2. /\ worker' \in [Workers -> {"top", "evaluate", "sleepy", "asleep", "run", "returned"}]
        /\ \A v \in Workers : worker'[v] = "run" <=> worker[v] = "run"
    BY <2>1 DEF Go, PoolTypes
  <2>3. main' \in {"run", "notify", "notify_all", "join", "done"}
        /\ stop_' \in BOOLEAN /\ missed' \in BOOLEAN
    BY <2>1 DEF PoolTypes
  <2>4. stop_' \/ main' \notin {"run", "notify"} => submitted = Len(work) /\ collected = submitted
    BY <2>1 DEF PoolInv
  <2> QED
    BY <2>1, <2>2, <2>3, <2>4, Frame
<1> QED
  BY <1>2, <1>3, <1>4, <1>5, <1>6

\* The task at the head of the queue is with nobody yet, and none of it is answered.
LEMMA PopInv ==
  ASSUME QueryInv, NEW w \in Workers, Pop(w)
  PROVE  QueryInv'
<1> USE DEF QueryInv
<1> DEFINE i0 == Popped + 1
<1>1. /\ UNCHANGED <<command, queries, main, submitted, collected, ready, stop_, answered, total, missed>>
      /\ worker[w] = "evaluate" /\ tasks # <<>> /\ tasks' = Tail(tasks)
      /\ task' = [task EXCEPT ![w] = Head(tasks)]
      /\ qi' = [qi EXCEPT ![w] = work[Head(tasks)].start]
      /\ worker' = [worker EXCEPT ![w] = "run"]
  BY DEF Pop, inputVars, mainVars, Go
<1>2. work' = work
  BY <1>1 DEF work
<1>3. /\ submitted \in 0..Len(work) /\ tasks \in Seq(Nat) /\ Len(tasks) \in Nat
      /\ Len(tasks) > 0 /\ Len(tasks) <= submitted /\ Len(work) \in Nat
  BY <1>1, WorkDivides, LenProperties, EmptySeq DEF PoolTypes, Partition
<1>4. /\ tasks' \in Seq(Nat) /\ Len(tasks') = Len(tasks) - 1
      /\ \A i \in 1..Len(tasks') : tasks'[i] = tasks[i + 1]
      /\ Head(tasks) = tasks[1]
  BY <1>1, <1>3, HeadTailProperties
<1>5. /\ Popped \in Nat /\ Popped' = i0 /\ i0 \in 1..Len(work) /\ Head(tasks) = i0
      /\ 1..Popped \subseteq 1..i0
  <2>1. tasks[1] = Popped + 1
    BY <1>3 DEF PoolInv
  <2> QED
    BY <1>1, <1>3, <1>4, <2>1 DEF Popped
<1>6. /\ work[i0].start \in Nat /\ work[i0].end \in Nat /\ work[i0].start < work[i0].end
  BY <1>5, WorkDivides DEF PoolTypes, Partition
<1> HIDE DEF i0
<1>7. /\ worker'[w] = "run" /\ task'[w] = i0 /\ qi'[w] = work[i0].start
      /\ \A v \in Workers : v # w =>
           worker'[v] = worker[v] /\ task'[v] = task[v] /\ qi'[v] = qi[v]
  BY <1>1, <1>5 DEF PoolTypes
<1>8. i0 \notin ready /\ \A v \in Workers : task[v] # i0
  <2>1. i0 \notin 1..Popped /\ i0 # 0
    BY <1>5 DEF i0
  <2> QED
    BY <2>1 DEF PoolInv
<1>9. PoolTypes'
  <2>1. task' \in [Workers -> Nat] /\ qi' \in [Workers -> Nat]
        /\ worker' \in [Workers -> {"top", "evaluate", "sleepy", "asleep", "run", "returned"}]
    BY <1>1, <1>5, <1>6 DEF PoolTypes
  <2>2. Len(tasks') <= submitted
    BY <1>3, <1>4
  <2> QED
    BY <1>1, <1>2, <1>4, <2>1, <2>2 DEF PoolTypes
<1>10. PoolInv'
  <2>1. \A i \in 1..Len(tasks') : tasks'[i] = Popped' + i
    <3> SUFFICES ASSUME NEW i \in 1..Len(tasks') PROVE tasks'[i] = Popped' + i
      OBVIOUS
    <3>1. i + 1 \in 1..Len(tasks)
      BY <1>3, <1>4
    <3>2. tasks[i + 1] = Popped + (i + 1)
      BY <3>1 DEF PoolInv
    <3> QED
      BY <1>4, <1>5, <3>2 DEF i0
  <2>2. ready \subseteq 1..Popped'
    BY <1>5 DEF PoolInv
  <2>3. ASSUME NEW v \in Workers
        PROVE  IF worker'[v] = "run"
               THEN /\ task'[v] \in 1..Popped' /\ task'[v] \notin ready
                    /\ work[task'[v]].start <= qi'[v] /\ qi'[v] <= work[task'[v]].end
               ELSE task'[v] = 0 /\ qi'[v] = 0
    <3>1. CASE v = w
      <4>1. i0 \in 1..Popped' /\ work[i0].start <= work[i0].end /\ work[i0].start <= work[i0].start
        BY <1>5, <1>6
      <4> QED
        BY <1>7, <1>8, <3>1, <4>1
    <3>2. CASE v # w
      BY <1>5, <1>7, <3>2 DEF PoolInv
    <3> QED
      BY <3>1, <3>2
  <2>4. \A u, v \in Workers : u # v /\ worker'[u] = "run" => task'[u] # task'[v]
    BY <1>7, <1>8 DEF PoolInv
  <2> QED
    BY <1>1, <1>2, <2>1, <2>2, <2>3, <2>4 DEF PoolInv
<1>11. ASSUME NEW q \in 0..queries - 1, NEW i \in 1..Len(work), InRange(q, i)
       PROVE  Past(q, i)' <=> Past(q, i)
  <2>1. worker[w] # "run"
    BY <1>1
  <2>2. ~(task'[w] = i /\ q < qi'[w])
    <3>1. q \in Nat /\ (i = i0 => ~(q < work[i0].start))
      BY <1>6, <1>11 DEF InRange
    <3> QED
      BY <1>7, <3>1
  <2> QED
    BY <1>1, <1>7, <2>1, <2>2 DEF Past
<1>12. AnswerInv'
  BY <1>1, <1>2, <1>11 DEF AnswerInv, InRange, AnsweredSet
<1> QED
  BY <1>9, <1>10, <1>12

\* The next query of a range had not been answered: its task is with this worker alone.
LEMMA AnswerInvKept ==
  ASSUME QueryInv, NEW w \in Workers, Answer(w)
  PROVE  QueryInv'
<1> USE DEF QueryInv
<1> DEFINE i0 == task[w]
           x == qi[w]
<1>1. /\ UNCHANGED <<command, queries, main, submitted, collected, tasks, ready, stop_, worker, task, missed>>
      /\ worker[w] = "run" /\ x < work[i0].end
      /\ answered' = [answered EXCEPT ![x] = answered[x] + 1]
      /\ total' = IF command = "eval" THEN total + 1 ELSE total
      /\ qi' = [qi EXCEPT ![w] = x + 1]
  BY DEF Answer, inputVars, mainVars
<1>2. work' = work /\ Popped' = Popped
  BY <1>1 DEF work, Popped
<1>3. /\ Partition(work, queries) /\ queries \in 0..MaxQueries /\ queries \in Nat
      /\ submitted \in 0..Len(work) /\ Len(tasks) \in Nat /\ Len(work) \in Nat
      /\ MaxQueries \in Nat
  <2>1. tasks \in Seq(Nat) /\ queries \in 0..MaxQueries /\ queries \in Nat
        /\ submitted \in 0..Len(work)
    BY DEF PoolTypes
  <2>2. Partition(work, queries)
    BY <2>1, WorkDivides
  <2>3. Len(work) \in Nat
    BY <2>1, <2>2 DEF Partition
  <2> QED
    BY <2>1, <2>2, <2>3, LenProperties, MaxQueriesAssumption DEF MaxQueriesAssumption
<1>4. /\ i0 \in 1..Popped /\ i0 \notin ready /\ work[i0].start <= x /\ x \in Nat
  BY <1>1 DEF PoolInv, PoolTypes
<1>5. i0 \in 1..Len(work)
  BY <1>3, <1>4 DEF Popped
<1>6. /\ work[i0].start \in 0..queries /\ work[i0].end \in 0..queries
  BY <1>3, <1>5 DEF Partition
<1>7. x \in 0..queries - 1 /\ x \in 0..MaxQueries - 1 /\ InRange(x, i0) /\ x + 1 <= work[i0].end
      /\ work[i0].start <= x + 1
  BY <1>1, <1>3, <1>4, <1>6 DEF InRange
<1>8. ~Past(x, i0)
  <2>1. \A v \in Workers : worker[v] = "run" /\ task[v] = i0 => v = w
    BY <1>1 DEF PoolInv
  <2>2. ~(x < qi[w])
    BY <1>4
  <2> QED
    BY <1>4, <2>1, <2>2 DEF Past
<1>9. answered[x] = 0
  BY <1>5, <1>7, <1>8 DEF AnswerInv
<1> HIDE DEF i0, x
<1>10. /\ qi'[w] = x + 1 /\ \A v \in Workers : v # w => qi'[v] = qi[v]
       /\ answered'[x] = 1 /\ \A q \in 0..queries - 1 : q # x => answered'[q] = answered[q]
  <2>1. \A q \in 0..queries - 1 : q \in 0..MaxQueries - 1
    BY <1>3
  <2> QED
    BY <1>1, <1>7, <1>9, <2>1 DEF PoolTypes
<1>11. PoolTypes'
  <2>1. qi' \in [Workers -> Nat] /\ total' \in Nat
    BY <1>1, <1>4 DEF PoolTypes, x
  <2>2. answered' \in [0..MaxQueries - 1 -> Nat]
    BY <1>1, <1>7, <1>9 DEF PoolTypes
  <2> QED
    BY <1>1, <1>2, <2>1, <2>2 DEF PoolTypes
<1>12. PoolInv'
  <2>1. ASSUME NEW v \in Workers
        PROVE  IF worker[v] = "run"
               THEN /\ task[v] \in 1..Popped /\ task[v] \notin ready
                    /\ work[task[v]].start <= qi'[v] /\ qi'[v] <= work[task[v]].end
               ELSE task[v] = 0 /\ qi'[v] = 0
    <3>1. CASE v = w
      BY <1>1, <1>4, <1>7, <1>10, <3>1 DEF i0
    <3>2. CASE v # w
      BY <1>10, <3>2 DEF PoolInv
    <3> QED
      BY <3>1, <3>2
  <2> QED
    BY <1>1, <1>2, <2>1 DEF PoolInv
<1>13. ASSUME NEW q \in 0..queries - 1, NEW i \in 1..Len(work), InRange(q, i)
       PROVE  answered'[q] = IF Past(q, i)' THEN 1 ELSE 0
  <2>1. CASE q = x
    <3>1. i = i0
      <4>1. work[i].start \in Nat /\ work[i].end \in Nat /\ work[i0].start \in Nat /\ work[i0].end \in Nat
        BY <1>3, <1>5 DEF Partition
      <4>2. i < i0 => work[i].end <= work[i0].start
        BY <1>3, <1>5 DEF Partition
      <4>3. i0 < i => work[i0].end <= work[i].start
        BY <1>3, <1>5 DEF Partition
      <4>4. work[i].start <= x /\ x < work[i].end /\ work[i0].start <= x /\ x < work[i0].end
        BY <1>7, <1>13, <2>1 DEF InRange
      <4>5. i \in Nat /\ i0 \in Nat /\ x \in Nat
        BY <1>4, <1>5
      <4> QED
        BY <4>1, <4>2, <4>3, <4>4, <4>5
    <3>2. x < qi'[w]
      BY <1>4, <1>10
    <3>3. Past(q, i)'
      BY <1>1, <2>1, <3>1, <3>2 DEF Past, i0
    <3> QED
      BY <1>10, <2>1, <3>3
  <2>2. CASE q # x
    <3>1. q < x + 1 <=> q < x
      BY <1>4, <2>2
    <3>2. Past(q, i)' <=> Past(q, i)
      BY <1>1, <1>10, <3>1 DEF Past, x
    <3>3. answered'[q] = answered[q]
      BY <1>10, <2>2
    <3>4. answered[q] = IF Past(q, i) THEN 1 ELSE 0
      BY <1>13 DEF AnswerInv
    <3> QED
      BY <3>2, <3>3, <3>4
  <2> QED
    BY <2>1, <2>2
<1>14. AnsweredSet' = AnsweredSet \cup {x} /\ x \notin AnsweredSet
  BY <1>1, <1>7, <1>9, <1>10 DEF AnsweredSet
<1>15. Cardinality(AnsweredSet)' = Cardinality(AnsweredSet) + 1
  <2>1. IsFiniteSet(0..queries - 1) /\ AnsweredSet \subseteq 0..queries - 1
    <3>1. 0 \in Int /\ queries - 1 \in Int
      BY <1>3
    <3> QED
      BY <3>1, FS_Interval DEF AnsweredSet
  <2>2. IsFiniteSet(AnsweredSet)
    BY <2>1, FS_Subset
  <2> QED
    BY <1>14, <2>2, FS_AddElement
<1>16. AnswerInv'
  <2>1. command = "query" \/ command = "eval"
    BY DEF PoolTypes
  <2>2. total' = IF command = "query" THEN collected ELSE Cardinality(AnsweredSet)'
    BY <1>1, <1>15, <2>1 DEF AnswerInv
  <2> QED
    BY <1>1, <1>2, <1>13, <2>2 DEF AnswerInv, InRange
<1> QED
  BY <1>11, <1>12, <1>16

\* A worker is past the whole range when its task returns.
LEMMA FinishInv ==
  ASSUME QueryInv, NEW w \in Workers, Finish(w)
  PROVE  QueryInv'
<1> USE DEF QueryInv
<1> DEFINE i0 == task[w]
<1>1. /\ UNCHANGED <<command, queries, main, submitted, collected, tasks, stop_, answered, total, missed>>
      /\ worker[w] = "run" /\ qi[w] = work[i0].end
      /\ ready' = ready \cup {i0}
      /\ task' = [task EXCEPT ![w] = 0] /\ qi' = [qi EXCEPT ![w] = 0]
      /\ worker' = [worker EXCEPT ![w] = "top"]
  BY DEF Finish, inputVars, mainVars, Go
<1>2. work' = work /\ Popped' = Popped
  BY <1>1 DEF work, Popped
<1>3. i0 \in 1..Popped /\ i0 \in Nat
  BY <1>1 DEF PoolInv, PoolTypes
<1>4. \A v \in Workers : v # w => task[v] # i0
  BY <1>1 DEF PoolInv
<1>5. /\ worker'[w] = "top" /\ task'[w] = 0 /\ qi'[w] = 0
      /\ \A v \in Workers : v # w =>
           worker'[v] = worker[v] /\ task'[v] = task[v] /\ qi'[v] = qi[v]
  BY <1>1 DEF PoolTypes
<1>6. PoolTypes'
  BY <1>1, <1>2, <1>3 DEF PoolTypes
<1>7. PoolInv'
  <2>1. \A v \in Workers :
          IF worker'[v] = "run"
          THEN /\ task'[v] \in 1..Popped /\ task'[v] \notin ready'
               /\ work[task'[v]].start <= qi'[v] /\ qi'[v] <= work[task'[v]].end
          ELSE task'[v] = 0 /\ qi'[v] = 0
    BY <1>1, <1>4, <1>5 DEF PoolInv
  <2>2. \A u, v \in Workers : u # v /\ worker'[u] = "run" => task'[u] # task'[v]
    <3> SUFFICES ASSUME NEW u \in Workers, NEW v \in Workers, u # v, worker'[u] = "run"
                 PROVE  task'[u] # task'[v]
      OBVIOUS
    <3>1. u # w /\ worker[u] = "run" /\ task'[u] = task[u]
      BY <1>5
    <3>2. task[u] # 0
      BY <3>1 DEF PoolInv
    <3> QED
      BY <1>5, <3>1, <3>2 DEF PoolInv
  <2>3. ready' \subseteq 1..Popped
    BY <1>1, <1>3 DEF PoolInv
  <2> QED
    BY <1>1, <1>2, <2>1, <2>2, <2>3 DEF PoolInv
<1>8. ASSUME NEW q \in 0..queries - 1, NEW i \in 1..Len(work), InRange(q, i)
      PROVE  Past(q, i)' <=> Past(q, i)
  <2>1. CASE i = i0
    <3>1. q < qi[w]
      BY <1>1, <1>8, <2>1 DEF InRange
    <3> QED
      BY <1>1, <2>1, <3>1 DEF Past
  <2>2. CASE i # i0
    BY <1>1, <1>5, <2>2 DEF Past
  <2> QED
    BY <2>1, <2>2
<1>9. AnswerInv'
  BY <1>1, <1>2, <1>8 DEF AnswerInv, InRange, AnsweredSet
<1> QED
  BY <1>6, <1>7, <1>9

LEMMA NextInv ==
  ASSUME QueryInv, [Next]_vars
  PROVE  QueryInv'
<1>1. CASE UNCHANGED vars
  BY <1>1, Frame DEF vars, inputVars, mainVars, workerVars, QueryInv, PoolTypes, PoolInv
<1>2. CASE Main
  BY <1>2, PushInv, GetInv, QuietInv DEF Main
<1>3. ASSUME NEW w \in Workers, WorkerLoop(w) PROVE QueryInv'
  BY <1>3, PopInv, AnswerInvKept, FinishInv, QuietInv DEF WorkerLoop
<1> QED
  BY <1>1, <1>2, <1>3 DEF Next

LEMMA QueryAlways == Spec => []QueryInv
BY InitInv, NextInv, PTL DEF Spec

-----------------------------------------------------------------------------
(***************************************************************************)
(* The theorems.                                                           *)
(***************************************************************************)

\* A task that is ready is not in the queue and with no worker.
LEMMA AllReady ==
  ASSUME QueryInv, submitted = Len(work), collected = submitted
  PROVE  tasks = <<>> /\ ready = 1..Len(work) /\ \A w \in Workers : worker[w] # "run"
<1> USE DEF QueryInv
<1>1. /\ submitted \in Nat /\ tasks \in Seq(Nat) /\ Len(tasks) \in Nat /\ Len(tasks) <= submitted
  <2>1. queries \in Nat /\ tasks \in Seq(Nat) /\ Len(tasks) <= submitted
    BY DEF PoolTypes
  <2> QED
    BY <2>1, WorkDivides, LenProperties DEF Partition
<1>2. 1..submitted \subseteq 1..Popped /\ ready \subseteq 1..Popped /\ 1..submitted \subseteq ready
  BY DEF PoolInv
<1>3. Popped = submitted /\ Len(tasks) = 0
  <2>1. CASE submitted = 0
    BY <1>1, <2>1 DEF Popped
  <2>2. CASE submitted > 0
    <3>1. submitted \in 1..Popped
      BY <1>1, <1>2, <2>2
    <3> QED
      BY <1>1, <3>1 DEF Popped
  <2> QED
    BY <1>1, <2>1, <2>2
<1>4. tasks = <<>>
  BY <1>1, <1>3, EmptySeq
<1>5. ready = 1..Len(work)
  BY <1>2, <1>3
<1>6. \A w \in Workers : worker[w] # "run"
  BY <1>3, <1>5 DEF PoolInv
<1> QED
  BY <1>4, <1>5, <1>6

\* Every variable stays within its type, and a worker has a task while it runs one.
THEOREM TypeCorrect == Spec => []TypeOK
<1>1. QueryInv => TypeOK
  <2> SUFFICES ASSUME QueryInv PROVE TypeOK
    OBVIOUS
  <2> USE DEF QueryInv
  <2>1. /\ submitted \in Nat /\ tasks \in Seq(Nat) /\ Len(tasks) \in Nat /\ Len(tasks) <= submitted
        /\ queries \in 0..MaxQueries /\ MaxQueries \in Nat /\ Partition(work, queries)
    <3>1. queries \in 0..MaxQueries /\ queries \in Nat /\ tasks \in Seq(Nat) /\ Len(tasks) <= submitted
      BY DEF PoolTypes
    <3>2. Partition(work, queries)
      BY <3>1, WorkDivides
    <3>3. submitted \in Nat
      BY <3>1, <3>2 DEF Partition, PoolTypes
    <3> QED
      BY <3>1, <3>2, <3>3, LenProperties, MaxQueriesAssumption DEF MaxQueriesAssumption
  <2>2. \A i \in 1..Len(tasks) : tasks[i] \in 1..submitted
    BY <2>1 DEF PoolInv, Popped
  <2>3. tasks \in Seq(1..submitted)
    <3>1. tasks \in [1..Len(tasks) -> 1..submitted]
      BY <2>1, <2>2, LenProperties
    <3> QED
      BY <2>1, <3>1
  <2>4. 1..Popped \subseteq 1..submitted /\ ready \subseteq 1..submitted
    BY <2>1 DEF PoolInv, Popped
  <2>5. ASSUME NEW w \in Workers
        PROVE  task[w] \in 0..submitted /\ (task[w] # 0 <=> worker[w] = "run")
    BY <2>1, <2>4 DEF PoolInv
  <2>6. ASSUME NEW w \in Workers PROVE qi[w] \in 0..MaxQueries
    <3>1. CASE worker[w] = "run"
      <4>1. task[w] \in 1..Len(work) /\ qi[w] <= work[task[w]].end /\ qi[w] \in Nat
        <5>1. task[w] \in 1..submitted /\ qi[w] <= work[task[w]].end
          BY <2>4, <3>1 DEF PoolInv
        <5>2. submitted \in 0..Len(work) /\ Len(work) \in Nat
          BY <2>1 DEF PoolTypes, Partition
        <5> QED
          BY <5>1, <5>2 DEF PoolTypes
      <4>2. work[task[w]].end \in 0..queries
        BY <2>1, <4>1 DEF Partition
      <4> QED
        BY <2>1, <4>1, <4>2
    <3>2. CASE worker[w] # "run"
      BY <2>1, <3>2 DEF PoolInv
    <3> QED
      BY <3>1, <3>2
  <2>7. task \in [Workers -> 0..submitted] /\ qi \in [Workers -> 0..MaxQueries]
    BY <2>5, <2>6 DEF PoolTypes
  <2> QED
    BY <2>3, <2>4, <2>5, <2>7 DEF TypeOK, PoolTypes
<1> QED
  BY <1>1, QueryAlways, PTL

\* thread_pool.cpp:26-27: when the destructor has told them to stop, the workers leave
\* without a look at the queue; by then it is empty, and no task is running.
THEOREM NothingEverDropped == Spec => []NothingDropped
<1>1. QueryInv => NothingDropped
  BY AllReady DEF QueryInv, PoolInv, NothingDropped
<1> QED
  BY <1>1, QueryAlways, PTL

\* main.cpp:340-350, 541-553: when all futures have been waited for, every query has been
\* answered and counted once, whatever the numbers of threads and queries.
THEOREM EveryQueryOnce == Spec => []EachQueryOnce
<1>1. QueryInv => EachQueryOnce
  <2> SUFFICES ASSUME QueryInv, submitted = Len(work), collected = submitted
               PROVE  /\ \A q \in 0..queries - 1 : answered[q] = 1
                      /\ total = queries
    BY DEF EachQueryOnce
  <2>1. queries \in Nat /\ Partition(work, queries)
    BY WorkDivides DEF QueryInv, PoolTypes
  <2>2. \A q \in 0..queries - 1 : answered[q] = 1
    <3> SUFFICES ASSUME NEW q \in 0..queries - 1 PROVE answered[q] = 1
      OBVIOUS
    <3>1. PICK i \in 1..Len(work) : InRange(q, i)
      BY <2>1 DEF Partition, InRange
    <3>2. Past(q, i)
      BY AllReady DEF Past
    <3> QED
      BY <3>1, <3>2 DEF QueryInv, AnswerInv
  <2>3. total = queries
    <3>1. CASE command = "query"
      <4>1. Len(work) = queries
        BY <2>1, <3>1 DEF work, Singles
      <4> QED
        BY <3>1, <4>1 DEF QueryInv, AnswerInv
    <3>2. CASE command # "query"
      <4>1. AnsweredSet = 0..queries - 1
        BY <2>2 DEF AnsweredSet
      <4>2. Cardinality(0..queries - 1) = queries
        <5>1. 0 \in Int /\ queries - 1 \in Int
          BY <2>1
        <5>2. Cardinality(0..queries - 1) = IF 0 > queries - 1 THEN 0 ELSE queries - 1 - 0 + 1
          BY <5>1, FS_Interval
        <5> QED
          BY <2>1, <5>2
      <4> QED
        BY <3>2, <4>1, <4>2 DEF QueryInv, AnswerInv
    <3> QED
      BY <3>1, <3>2
  <2> QED
    BY <2>2, <2>3
<1> QED
  BY <1>1, QueryAlways, PTL

-----------------------------------------------------------------------------
(***************************************************************************)
(* What is safe about the wake-ups.                                        *)
(***************************************************************************)

\* No task waits for a worker that nobody wakes.
TaskWillBeTaken ==
  tasks # <<>> /\ main # "notify" => \E w \in Workers : worker[w] \in {"top", "evaluate", "run"}

\* No worker waits that will not be told to stop.
WorkersAreTold ==
  \A w \in Workers :
    stop_ /\ worker[w] \in {"sleepy", "asleep"} => missed \/ main = "notify_all"

\* A worker on its way to sleep has seen an empty queue, and holds the mutex that the next
\* task needs; one that has returned was told to stop.
WakeInv ==
  /\ TaskWillBeTaken /\ WorkersAreTold
  /\ \A w \in Workers : worker[w] = "sleepy" => tasks = <<>>
  /\ \A w \in Workers : worker[w] = "returned" => stop_

LEMMA StepWake ==
  ASSUME QueryInv, NothingDropped, WakeInv, [Next]_vars
  PROVE  WakeInv'
<1> USE DEF WakeInv
<1>1. worker \in [Workers -> {"top", "evaluate", "sleepy", "asleep", "run", "returned"}]
  BY DEF QueryInv, PoolTypes
<1>2. CASE UNCHANGED vars
  BY <1>2 DEF vars, mainVars, workerVars, TaskWillBeTaken, WorkersAreTold
<1>3. CASE Push
  <2>1. UNCHANGED <<stop_, worker, missed>> /\ main' = "notify" /\ LockFree /\ main = "run"
    BY <1>3 DEF Push, workerVars
  <2> QED
    BY <2>1 DEF LockFree, TaskWillBeTaken, WorkersAreTold
<1>4. CASE NotifyOne
  <2>1. UNCHANGED <<tasks, stop_, missed>> /\ main' = "run" /\ main = "notify"
    BY <1>4 DEF NotifyOne
  <2>2. CASE Sleepers = {}
    <3>1. worker' = worker
      BY <1>4, <2>2 DEF NotifyOne
    <3>2. PICK w \in Workers : TRUE
      BY WorkersAssumption DEF WorkersAssumption
    <3>3. tasks # <<>> => worker[w] \in {"top", "evaluate", "run"}
      BY <1>1, <2>2 DEF Sleepers, NothingDropped
    <3> QED
      BY <2>1, <3>1, <3>3 DEF TaskWillBeTaken, WorkersAreTold
  <2>3. CASE Sleepers # {}
    <3>1. PICK w \in Sleepers : Wake({w})
      BY <1>4, <2>3 DEF NotifyOne
    <3>2. w \in Workers /\ worker'[w] = "evaluate"
          /\ \A v \in Workers : v # w => worker'[v] = worker[v]
      BY <3>1 DEF Sleepers, Wake
    <3> QED
      BY <2>1, <3>2 DEF TaskWillBeTaken, WorkersAreTold
  <2> QED
    BY <2>2, <2>3
<1>5. CASE Get \/ Join
  <2>1. UNCHANGED <<tasks, stop_, worker, missed>> /\ main \in {"run", "join"} /\ main' # "notify_all"
    BY <1>5 DEF Get, Join, workerVars
  <2> QED
    BY <2>1 DEF TaskWillBeTaken, WorkersAreTold
<1>6. CASE Destroy
  <2>1. UNCHANGED <<tasks, worker, missed>> /\ main = "run" /\ main' = "notify_all" /\ stop_' = TRUE
    BY <1>6 DEF Destroy, workerVars
  <2> QED
    BY <2>1 DEF TaskWillBeTaken, WorkersAreTold
<1>7. CASE NotifyAll
  <2>1. /\ UNCHANGED <<tasks, stop_>> /\ main = "notify_all" /\ missed' = ~LockFree
        /\ \A w \in Workers : worker'[w] = IF worker[w] = "asleep" THEN "evaluate" ELSE worker[w]
    BY <1>7 DEF NotifyAll, Wake, Sleepers
  <2>2. WorkersAreTold'
    BY <2>1 DEF WorkersAreTold, LockFree
  <2>3. TaskWillBeTaken'
    BY <2>1 DEF TaskWillBeTaken
  <2> QED
    BY <2>1, <2>2, <2>3
<1>8. ASSUME NEW w \in Workers, WorkerLoop(w)
      PROVE  WakeInv'
  <2>1. CASE Answer(w)
    <3>1. UNCHANGED <<tasks, stop_, worker, missed, main>>
      BY <2>1 DEF Answer, mainVars
    <3> QED
      BY <3>1 DEF TaskWillBeTaken, WorkersAreTold
  <2>2. CASE LoopTop(w) \/ Evaluate(w) \/ FallAsleep(w) \/ Stopped(w)
    <3>1. /\ UNCHANGED <<tasks, stop_, missed, main>> /\ worker[w] \in {"top", "evaluate", "sleepy"}
          /\ \A v \in Workers : v # w => worker'[v] = worker[v]
          /\ \/ worker'[w] = "evaluate"
             \/ worker'[w] = "returned" /\ stop_
             \/ worker'[w] = "sleepy" /\ tasks = <<>> /\ ~stop_
             \/ worker'[w] = "asleep" /\ worker[w] = "sleepy"
      BY <1>1, <2>2 DEF LoopTop, Evaluate, FallAsleep, Stopped, Go, mainVars
    <3>2. tasks = <<>> \/ worker'[w] = "evaluate"
      BY <3>1 DEF NothingDropped
    <3>3. TaskWillBeTaken'
      BY <3>1, <3>2 DEF TaskWillBeTaken
    <3>4. WorkersAreTold'
      BY <3>1 DEF WorkersAreTold
    <3> QED
      BY <3>1, <3>3, <3>4
  <2>3. CASE Pop(w) \/ Finish(w)
    <3>1. /\ UNCHANGED <<stop_, missed, main>>
          /\ \A v \in Workers : v # w => worker'[v] = worker[v]
          /\ worker'[w] \in {"run", "top"}
          /\ tasks' = tasks \/ LockFree
      BY <1>1, <2>3 DEF Pop, Finish, Go, mainVars
    <3>2. TaskWillBeTaken'
      BY <3>1 DEF TaskWillBeTaken
    <3>3. WorkersAreTold'
      BY <3>1 DEF WorkersAreTold
    <3> QED
      BY <3>1, <3>2, <3>3 DEF LockFree
  <2> QED
    BY <1>8, <2>1, <2>2, <2>3 DEF WorkerLoop
<1> QED
  BY <1>2, <1>3, <1>4, <1>5, <1>6, <1>7, <1>8 DEF Next, Main

LEMMA WakeAlways == Spec => []WakeInv
<1>1. Init => WakeInv
  BY DEF Init, WakeInv, TaskWillBeTaken, WorkersAreTold
<1>2. QueryInv /\ NothingDropped /\ WakeInv /\ [Next]_vars => WakeInv'
  BY StepWake
<1> QED
  BY <1>1, <1>2, QueryAlways, NothingEverDropped, PTL DEF Spec

\* thread_pool.h:50-54: the notify of Submit wakes one worker or finds none that sleeps,
\* and wakes nobody for the tasks before; still, while a task is in the queue and no
\* notify is to come, a worker is awake that will look at the queue again.
THEOREM TasksNotForgotten == Spec => []TaskWillBeTaken
BY WakeAlways, PTL DEF WakeInv

\* thread_pool.cpp:16-24, 31-36: when the pool is being destroyed, a worker that waits is
\* still to be notified, unless the notify fell between its predicate and its sleep.
THEOREM SleepersAreNotified == Spec => []WorkersAreTold
BY WakeAlways, PTL DEF WakeInv
=============================================================================
