------------------------- MODULE PrefetchScheduler -------------------------
(***************************************************************************)
(* PrefetchScheduler (io/prefetch_scheduler.cpp): search threads submit    *)
(* reads, one worker serves them in order, and a search takes the data     *)
(* when it gets to the node (TryGet), or waits for it (WaitGet).           *)
(*                                                                         *)
(* A section under mutex_ is one step.  The worker's wait is two, because  *)
(* the destructor stores stop_ without the mutex: from the evaluation of   *)
(* the predicate until it sleeps the worker holds the mutex (LockFree).    *)
(* One condition variable serves the worker and the WaitGet callers, so a  *)
(* notify_one may pick any of them.  All requests are for one file; what   *)
(* was read is "node" if it is the bytes asked for and "garbage" if not.   *)
(***************************************************************************)
EXTENDS Integers, Sequences, FiniteSets

CONSTANTS
  Clients,       \* search threads sharing the scheduler
  MaxInFlight,   \* max_in_flight_, the beam width in the code
  MaxRequests    \* requests submitted

ASSUME ClientsAssumption == IsFiniteSet(Clients) /\ Clients # {}
ASSUME LimitsAssumption == MaxInFlight \in Nat /\ MaxRequests \in Nat

VARIABLES
  in_flight_, next_id_, pending_, completed_, stop_,
  stream,    \* the worker's cached handle: "closed", "open" or "failed"
  worker,    \* where WorkerLoop is
  reading,   \* the id of its request, 0 if none
  sleepers,  \* threads asleep on cv_
  client,    \* where each client is
  current,   \* the id it is submitting or waiting for
  known,     \* ids it has been given and may still ask for
  taken,     \* history: id -> what was handed out for it
  owner,     \* where the thread that destroys the scheduler is
  missed     \* history: the destructor's notify fell before the worker slept

queueVars  == <<in_flight_, next_id_, pending_>>
workerVars == <<worker, reading, stream>>
clientVars == <<client, current, known>>
ownerVars  == <<owner, missed>>
vars == <<queueVars, completed_, stop_, workerVars, sleepers, clientVars, taken,
          ownerVars>>

Ids == 1..MaxRequests
Worker == "worker"

ASSUME WorkerAssumption == Worker \notin Clients

Init ==
  /\ in_flight_ = 0 /\ next_id_ = 1 /\ pending_ = <<>>
  /\ completed_ = <<>>
  /\ stop_ = FALSE
  /\ stream = "closed" /\ worker = "top" /\ reading = 0
  /\ sleepers = {}
  /\ client = [c \in Clients |-> "idle"]
  /\ current = [c \in Clients |-> 0]
  /\ known = [c \in Clients |-> {}]
  /\ taken = <<>>
  /\ owner = "run" /\ missed = FALSE

LockFree == worker # "sleepy"

\* The threads in W leave the wait and evaluate its predicate again.
Wake(W) ==
  /\ sleepers' = sleepers \ W
  /\ worker' = IF Worker \in W THEN "evaluate" ELSE worker
  /\ client' = [c \in Clients |-> IF c \in W THEN "waitget" ELSE client[c]]

With(f, id, x) == [i \in DOMAIN f \cup {id} |-> IF i = id THEN x ELSE f[i]]
Without(f, id) == [i \in DOMAIN f \ {id} |-> f[i]]

-----------------------------------------------------------------------------
(***************************************************************************)
(* The search threads.                                                     *)
(***************************************************************************)

\* SubmitPrefetch finds room and draws an id.  (When there is none it returns
\* 0 and has done nothing.)
FindRoom(c) ==
  /\ client[c] = "idle" /\ owner = "run"
  /\ in_flight_ < MaxInFlight
  /\ next_id_ <= MaxRequests
  /\ next_id_' = next_id_ + 1
  /\ client' = [client EXCEPT ![c] = "push"]
  /\ current' = [current EXCEPT ![c] = next_id_]
  /\ UNCHANGED <<in_flight_, pending_, completed_, stop_, workerVars, sleepers,
                 known, taken, ownerVars>>

\* Mutant: the size is taken before the request is in the queue.
PushCountsBefore(c) ==
  /\ client[c] = "push" /\ LockFree
  /\ pending_' = Append(pending_, current[c])
  /\ in_flight_' = Len(pending_)
  /\ client' = [client EXCEPT ![c] = "notify"]
  /\ UNCHANGED <<next_id_, completed_, stop_, workerVars, sleepers, current,
                 known, taken, ownerVars>>

\* The locked section of SubmitPrefetch.
Push(c) ==
  /\ client[c] = "push" /\ LockFree
  /\ pending_' = Append(pending_, current[c])
  /\ in_flight_' = Len(pending_')
  /\ client' = [client EXCEPT ![c] = "notify"]
  /\ UNCHANGED <<next_id_, completed_, stop_, workerVars, sleepers, current,
                 known, taken, ownerVars>>

\* Mutant: nobody is notified.
NotifySubmitNobody(c) ==
  /\ client[c] = "notify"
  /\ known' = [known EXCEPT ![c] = @ \cup {current[c]}]
  /\ client' = [client EXCEPT ![c] = "idle"]
  /\ UNCHANGED <<queueVars, completed_, stop_, workerVars, sleepers, current,
                 taken, ownerVars>>

\* cv_.notify_one(); return rid
NotifySubmit(c) ==
  /\ client[c] = "notify"
  /\ known' = [known EXCEPT ![c] = @ \cup {current[c]}]
  /\ \E W \in {{t} : t \in sleepers} \cup {{}} :
       /\ W = {} => sleepers = {}
       /\ sleepers' = sleepers \ W
       /\ worker' = IF Worker \in W THEN "evaluate" ELSE worker
       /\ client' = [t \in Clients |-> IF t = c THEN "idle"
                                       ELSE IF t \in W THEN "waitget" ELSE client[t]]
  /\ UNCHANGED <<queueVars, completed_, stop_, stream, reading, current, taken,
                 ownerVars>>

\* Mutant: the entry stays in completed_.
TakeCopy(id) ==
  /\ taken' = With(taken, id, completed_[id])
  /\ UNCHANGED completed_

\* The entry's data are moved out and the entry is erased; its ok is not read.
Take(id) ==
  /\ taken' = With(taken, id, completed_[id])
  /\ completed_' = Without(completed_, id)

\* TryGet, when the data are there; when they are not it changes nothing and
\* the search reads the node itself.
TryGet(c) ==
  /\ client[c] = "idle" /\ owner = "run" /\ LockFree
  /\ \E id \in known[c] \cap DOMAIN completed_ :
       /\ Take(id)
       /\ known' = [known EXCEPT ![c] = @ \ {id}]
  /\ UNCHANGED <<queueVars, stop_, workerVars, sleepers, client, current, ownerVars>>

\* WaitGet of a request that has not been taken yet.
CallWaitGet(c) ==
  /\ client[c] = "idle" /\ owner = "run"
  /\ \E id \in known[c] : current' = [current EXCEPT ![c] = id]
  /\ client' = [client EXCEPT ![c] = "waitget"]
  /\ UNCHANGED <<queueVars, completed_, stop_, workerVars, sleepers, known,
                 taken, ownerVars>>

\* Its predicate is true.
WaitGetReturns(c) ==
  /\ client[c] = "waitget" /\ LockFree
  /\ current[c] \in DOMAIN completed_
  /\ Take(current[c])
  /\ known' = [known EXCEPT ![c] = @ \ {current[c]}]
  /\ client' = [client EXCEPT ![c] = "idle"]
  /\ UNCHANGED <<queueVars, stop_, workerVars, sleepers, current, ownerVars>>

\* Its predicate is false.
WaitGetSleeps(c) ==
  /\ client[c] = "waitget" /\ LockFree
  /\ current[c] \notin DOMAIN completed_ /\ ~stop_
  /\ client' = [client EXCEPT ![c] = "asleep"]
  /\ sleepers' = sleepers \cup {c}
  /\ UNCHANGED <<queueVars, completed_, stop_, workerVars, current, known, taken,
                 ownerVars>>

\* The search that made the requests ends: prefetch_requests goes out of scope
\* and what it did not take stays in completed_ for good.
EndSearch(c) ==
  /\ client[c] = "idle" /\ known[c] # {}
  /\ known' = [known EXCEPT ![c] = {}]
  /\ UNCHANGED <<queueVars, completed_, stop_, workerVars, sleepers, client,
                 current, taken, ownerVars>>

Client(c) ==
  \/ FindRoom(c) \/ Push(c) \/ NotifySubmit(c) \/ TryGet(c) \/ CallWaitGet(c)
  \/ WaitGetReturns(c) \/ WaitGetSleeps(c) \/ EndSearch(c)

-----------------------------------------------------------------------------
(***************************************************************************)
(* The worker.                                                             *)
(***************************************************************************)

LoopTop ==
  /\ worker = "top"
  /\ worker' = IF stop_ THEN "stopped" ELSE "evaluate"
  /\ UNCHANGED <<queueVars, completed_, stop_, stream, reading, sleepers,
                 clientVars, taken, ownerVars>>

\* The predicate is true and the first request is popped.
Pop ==
  /\ worker = "evaluate" /\ pending_ # <<>>
  /\ reading' = Head(pending_)
  /\ pending_' = Tail(pending_)
  /\ in_flight_' = Len(pending_')
  /\ worker' = "read"
  /\ UNCHANGED <<next_id_, completed_, stop_, stream, sleepers, clientVars, taken,
                 ownerVars>>

\* stop_ with nothing pending ends the loop.
StopWorker ==
  /\ worker = "evaluate" /\ pending_ = <<>> /\ stop_
  /\ worker' = "stopped"
  /\ UNCHANGED <<queueVars, completed_, stop_, stream, reading, sleepers,
                 clientVars, taken, ownerVars>>

\* Mutant: the predicate forgets stop_.
EvaluatePendingOnly ==
  /\ worker = "evaluate" /\ pending_ = <<>>
  /\ worker' = "sleepy"
  /\ UNCHANGED <<queueVars, completed_, stop_, stream, reading, sleepers,
                 clientVars, taken, ownerVars>>

\* The predicate is false.
Evaluate ==
  /\ worker = "evaluate" /\ pending_ = <<>> /\ ~stop_
  /\ worker' = "sleepy"
  /\ UNCHANGED <<queueVars, completed_, stop_, stream, reading, sleepers,
                 clientVars, taken, ownerVars>>

FallAsleep ==
  /\ worker = "sleepy"
  /\ worker' = "asleep"
  /\ sleepers' = sleepers \cup {Worker}
  /\ UNCHANGED <<queueVars, completed_, stop_, stream, reading, clientVars, taken,
                 ownerVars>>

\* Open the file if need be and read.  A short read leaves the cached stream
\* failed, and seekg does not revive it.
Read ==
  /\ worker = "read"
  /\ worker' \in {"complete", "complete_failed"}
  /\ stream' = IF worker' = "complete" THEN "open"
               ELSE IF stream = "closed" THEN "closed" ELSE "failed"
  /\ stream = "failed" => worker' = "complete_failed"
  /\ UNCHANGED <<queueVars, completed_, stop_, reading, sleepers, clientVars,
                 taken, ownerVars>>

\* completed_[rid] = req, whether it is ok or not.
Complete ==
  /\ worker \in {"complete", "complete_failed"}
  /\ completed_' = With(completed_, reading,
                        IF worker = "complete" THEN "node" ELSE "garbage")
  /\ reading' = 0
  /\ worker' = "notify_all"
  /\ UNCHANGED <<queueVars, stop_, stream, sleepers, clientVars, taken, ownerVars>>

\* Mutant: only one of the threads that wait is told.
NotifyOneComplete ==
  /\ worker = "notify_all"
  /\ \E W \in {{t} : t \in sleepers} \cup {{}} :
       /\ W = {} => sleepers = {}
       /\ sleepers' = sleepers \ W
       /\ client' = [c \in Clients |-> IF c \in W THEN "waitget" ELSE client[c]]
  /\ worker' = "top"
  /\ UNCHANGED <<queueVars, completed_, stop_, stream, reading, current, known,
                 taken, ownerVars>>

\* cv_.notify_all()
NotifyComplete ==
  /\ worker = "notify_all"
  /\ sleepers' = {}
  /\ client' = [c \in Clients |-> IF c \in sleepers THEN "waitget" ELSE client[c]]
  /\ worker' = "top"
  /\ UNCHANGED <<queueVars, completed_, stop_, stream, reading, current, known,
                 taken, ownerVars>>

Work ==
  \/ LoopTop \/ Pop \/ StopWorker \/ Evaluate \/ FallAsleep \/ Read \/ Complete
  \/ NotifyComplete

-----------------------------------------------------------------------------
(***************************************************************************)
(* The destructor, called when the search threads have ended.              *)
(***************************************************************************)

Destroy ==
  /\ owner = "run" /\ \A c \in Clients : client[c] = "idle"
  /\ stop_' = TRUE
  /\ owner' = "notify_all"
  /\ UNCHANGED <<queueVars, completed_, workerVars, sleepers, clientVars, taken,
                 missed>>

NotifyDestroy ==
  /\ owner = "notify_all"
  /\ Wake(sleepers)
  /\ missed' = (worker = "sleepy")
  /\ owner' = "join"
  /\ UNCHANGED <<queueVars, completed_, stop_, stream, reading, current, known, taken>>

Join ==
  /\ owner = "join" /\ worker = "stopped"
  /\ owner' = "done"
  /\ UNCHANGED <<queueVars, completed_, stop_, workerVars, sleepers, clientVars, taken,
                 missed>>

Next == (\E c \in Clients : Client(c)) \/ Work \/ Destroy \/ NotifyDestroy \/ Join

\* The worker runs, and a thread inside a call or the destructor runs; whether a
\* client calls at all, and whether the scheduler is ever destroyed, is left open.
Spec ==
  /\ Init /\ [][Next]_vars
  /\ WF_vars(Work)
  /\ \A c \in Clients :
       WF_vars(Push(c) \/ NotifySubmit(c) \/ WaitGetReturns(c) \/ WaitGetSleeps(c))
  /\ WF_vars(NotifyDestroy \/ Join)

-----------------------------------------------------------------------------
Contents == {"node", "garbage"}

\* Every variable stays within its type; the keys of completed_ are ids.
TypeOK ==
  /\ in_flight_ \in Nat /\ next_id_ \in 1..MaxRequests + 1
  /\ pending_ \in Seq(Ids)
  /\ DOMAIN completed_ \subseteq Ids /\ DOMAIN taken \subseteq Ids
  /\ \A i \in DOMAIN completed_ : completed_[i] \in Contents
  /\ \A i \in DOMAIN taken : taken[i] \in Contents
  /\ stop_ \in BOOLEAN /\ stream \in {"closed", "open", "failed"}
  /\ worker \in {"top", "evaluate", "sleepy", "asleep", "read", "complete",
                 "complete_failed", "notify_all", "stopped"}
  /\ reading \in Ids \cup {0}
  /\ sleepers \subseteq Clients \cup {Worker}
  /\ client \in [Clients -> {"idle", "push", "notify", "waitget", "asleep"}]
  /\ current \in [Clients -> Ids \cup {0}]
  /\ known \in [Clients -> SUBSET Ids]
  /\ owner \in {"run", "notify_all", "join", "done"} /\ missed \in BOOLEAN

\* Where a request can be: being pushed, pending, being read, completed, taken.
Places(id) ==
  Cardinality({c \in Clients : client[c] = "push" /\ current[c] = id})
  + Cardinality({i \in 1..Len(pending_) : pending_[i] = id})
  + (IF reading = id THEN 1 ELSE 0)
  + (IF id \in DOMAIN completed_ THEN 1 ELSE 0)
  + (IF id \in DOMAIN taken THEN 1 ELSE 0)

\* A request whose id was drawn is in exactly one place at any time: none is
\* dropped, read twice or handed out twice.
RequestInOnePlace == \A id \in 1..next_id_ - 1 : Places(id) = 1

\* The check for room is not made under the lock, so each of the other clients
\* can overshoot the limit by one request, and no more than that.
QueueBounded == Len(pending_) <= MaxInFlight + Cardinality(Clients) - 1

\* A WaitGet for a request of one's own comes back, although the worker and
\* all waiting clients share one condition variable.
WaitGetComesBack ==
  \A c \in Clients : client[c] = "waitget" ~> client[c] = "idle"

\* A pending request is read, unless the scheduler is destroyed first.
PendingIsServed ==
  \A id \in Ids :
    (\E i \in 1..Len(pending_) : pending_[i] = id)
      ~> (id \in DOMAIN completed_ \cup DOMAIN taken \/ stop_)

\* The destructor's join comes back, whatever is pending or being read, unless
\* its notify fell between the worker's predicate and its sleep: stop_ is stored
\* without the mutex (prefetch_scheduler.cpp:24-30, 92-98).
DestructorReturnsUnlessMissed == owner = "join" ~> (owner = "done" \/ missed)

-----------------------------------------------------------------------------
\* 技术路线.md:106: a failed prefetch does not matter, the search reads the node
\* itself; so what a failed read left in the buffer is never handed out.
FailedReadNotHandedOut == \A id \in DOMAIN taken : taken[id] = "node"
=============================================================================
