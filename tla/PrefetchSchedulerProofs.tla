---------------------- MODULE PrefetchSchedulerProofs ----------------------
(***************************************************************************)
(* Theorems about PrefetchScheduler, for every number of clients and of    *)
(* requests and every limit.                                               *)
(*                                                                         *)
(* RequestInOnePlace counts the places of a request.  The inductive        *)
(* invariant says the same without numbers: a place holds a request once   *)
(* (Once), two places never hold the same one (Apart), nothing is held     *)
(* whose id was not drawn (Drawn), and every drawn id is held (NoneLost).  *)
(* QueueBounded holds because in_flight_ is exact whenever a client reads  *)
(* it, and a client that has found room is one of those that may overshoot *)
(* until it has pushed.  Of the liveness properties, which stay with TLC,  *)
(* the safety cores are proved: that the destructor owes the worker a      *)
(* notify (WorkerIsTold), and that no notify goes to a thread that has no  *)
(* use for it while another needs it (WaitInv): while the worker sleeps no *)
(* caller of WaitGet does, since each waits for a request of its own only. *)
(***************************************************************************)
EXTENDS PrefetchScheduler, FiniteSetTheorems, TLAPS

ReadingStates == {"read", "complete", "complete_failed"}

\* The worker has a request while it reads one, and only then.
HasRequest == reading # 0 <=> worker \in ReadingStates

\* The threads asleep on cv_ are those that are at their wait.
SleepersAsleep ==
  /\ Worker \in sleepers <=> worker = "asleep"
  /\ \A c \in Clients : c \in sleepers <=> client[c] = "asleep"

Pushing(c) == client[c] = "push"

\* What TypeOK needs to be inductive: a request that is pushed or read is one.
TypesInv ==
  /\ TypeOK /\ HasRequest /\ SleepersAsleep
  /\ \A c \in Clients : client[c] \in {"push", "notify"} => current[c] # 0

Queued(id) == \E k \in 1..Len(pending_) : pending_[k] = id

Once ==
  /\ \A c, d \in Clients : Pushing(c) /\ Pushing(d) /\ current[c] = current[d] => c = d
  /\ \A j, k \in 1..Len(pending_) : pending_[j] = pending_[k] => j = k

Apart ==
  /\ \A c \in Clients : Pushing(c) =>
       /\ ~Queued(current[c]) /\ reading # current[c]
       /\ current[c] \notin DOMAIN completed_ \cup DOMAIN taken
  /\ \A k \in 1..Len(pending_) :
       pending_[k] # reading /\ pending_[k] \notin DOMAIN completed_ \cup DOMAIN taken
  /\ reading \notin DOMAIN completed_ \cup DOMAIN taken
  /\ DOMAIN completed_ \cap DOMAIN taken = {}

Drawn ==
  /\ \A c \in Clients : Pushing(c) => current[c] \in 1..next_id_ - 1
  /\ \A k \in 1..Len(pending_) : pending_[k] < next_id_
  /\ reading < next_id_
  /\ \A id \in DOMAIN completed_ \cup DOMAIN taken : id < next_id_

Held(id) ==
  \/ \E c \in Clients : Pushing(c) /\ current[c] = id
  \/ Queued(id)
  \/ reading = id
  \/ id \in DOMAIN completed_ \cup DOMAIN taken

NoneLost == \A id \in 1..next_id_ - 1 : Held(id)

InOnePlace == Once /\ Apart /\ Drawn /\ NoneLost
PlacesInv == TypesInv /\ InOnePlace

-----------------------------------------------------------------------------
LEMMA InitTypes == Init => TypesInv
<1> SUFFICES ASSUME Init PROVE TypesInv
  OBVIOUS
<1>1. next_id_ \in 1..MaxRequests + 1 /\ in_flight_ \in Nat
  BY LimitsAssumption DEF Init, LimitsAssumption
<1>2. pending_ \in Seq(Ids) /\ DOMAIN completed_ = {} /\ DOMAIN taken = {}
  BY DEF Init
<1>3. TypeOK
  BY <1>1, <1>2 DEF Init, TypeOK
<1> QED
  BY <1>3 DEF Init, TypesInv, HasRequest, SleepersAsleep, ReadingStates, Pushing

LEMMA StepTypes == TypesInv /\ [Next]_vars => TypesInv'
<1> SUFFICES ASSUME TypesInv, [Next]_vars PROVE TypesInv'
  OBVIOUS
<1> USE WorkerAssumption DEF WorkerAssumption, TypesInv, TypeOK, HasRequest, SleepersAsleep, ReadingStates,
            Pushing, queueVars, workerVars,
            clientVars, ownerVars
<1>1. ASSUME NEW c \in Clients, FindRoom(c) PROVE TypesInv'
  <2>1. next_id_ \in Ids /\ next_id_' \in 1..MaxRequests + 1
    BY <1>1, LimitsAssumption DEF FindRoom, Ids, LimitsAssumption
  <2> QED
    BY <1>1, <2>1 DEF FindRoom, Ids
<1>2. ASSUME NEW c \in Clients, Push(c) PROVE TypesInv'
  <2>1. current[c] \in Ids
    BY <1>2 DEF Push
  <2>2. pending_' \in Seq(Ids) /\ in_flight_' \in Nat
    BY <1>2, <2>1 DEF Push
  <2> QED
    BY <1>2, <2>2 DEF Push
<1>3. ASSUME NEW c \in Clients, NotifySubmit(c) PROVE TypesInv'
  <2>1. PICK W \in {{t} : t \in sleepers} \cup {{}} :
          /\ sleepers' = sleepers \ W
          /\ worker' = IF Worker \in W THEN "evaluate" ELSE worker
          /\ client' = [t \in Clients |-> IF t = c THEN "idle"
                                          ELSE IF t \in W THEN "waitget" ELSE client[t]]
    BY <1>3 DEF NotifySubmit
  <2>2. /\ W \subseteq sleepers /\ c \notin W
        /\ Worker \in W => worker = "asleep"
        /\ \A t \in Clients : t \in W => client[t] = "asleep"
    BY <1>3 DEF NotifySubmit
  <2>3. UNCHANGED <<in_flight_, next_id_, pending_, completed_, taken, stop_, stream, reading,
                    current, owner, missed>>
    BY <1>3 DEF NotifySubmit
  <2>4. HasRequest'
    BY <2>1, <2>2, <2>3
  <2>5. \A t \in Clients : client'[t] \in {"push", "notify"} => client[t] = client'[t]
    BY <2>1, <2>2
  <2>6a. Worker \in sleepers' <=> worker' = "asleep"
    BY <2>1, <2>2
  <2>6b. \A t \in Clients : t \in sleepers' <=> client'[t] = "asleep"
    <3> SUFFICES ASSUME NEW t \in Clients PROVE t \in sleepers' <=> client'[t] = "asleep"
      OBVIOUS
    <3>1. client[c] = "notify"
      BY <1>3 DEF NotifySubmit
    <3>2. CASE t = c
      BY <2>1, <2>2, <3>1, <3>2
    <3>3. CASE t # c
      BY <2>1, <2>2, <3>3
    <3> QED
      BY <3>2, <3>3
  <2>6. known' \in [Clients -> SUBSET Ids]
    <3>1. current[c] \in Ids \cup {0} /\ client[c] = "notify"
      BY <1>3 DEF NotifySubmit
    <3> QED
      BY <1>3, <3>1 DEF NotifySubmit
  <2>7. TypeOK'
    BY <2>1, <2>2, <2>3, <2>6
  <2> QED
    BY <2>3, <2>4, <2>5, <2>6a, <2>6b, <2>7
<1>4. ASSUME NEW c \in Clients, TryGet(c) PROVE TypesInv'
  BY <1>4 DEF TryGet, Take, With, Without
<1>5. ASSUME NEW c \in Clients, WaitGetReturns(c) PROVE TypesInv'
  BY <1>5 DEF WaitGetReturns, Take, With, Without
<1>6. ASSUME NEW c \in Clients, CallWaitGet(c) \/ WaitGetSleeps(c) \/ EndSearch(c)
      PROVE TypesInv'
  BY <1>6 DEF CallWaitGet, WaitGetSleeps, EndSearch
<1>7. CASE Pop
  <2>1. Head(pending_) \in Ids /\ Tail(pending_) \in Seq(Ids) /\ Len(Tail(pending_)) \in Nat
    BY <1>7 DEF Pop
  <2>2. Head(pending_) # 0
    BY <2>1 DEF Ids
  <2> QED
    BY <1>7, <2>1, <2>2 DEF Pop
<1>8. CASE Complete
  BY <1>8 DEF Complete, With, Contents
<1>9. CASE LoopTop \/ StopWorker \/ Evaluate \/ FallAsleep \/ Read \/ NotifyComplete
  BY <1>9 DEF LoopTop, StopWorker, Evaluate, FallAsleep, Read, NotifyComplete
<1>10. CASE Destroy \/ NotifyDestroy \/ Join
  BY <1>10 DEF Destroy, NotifyDestroy, Wake, Join
<1>11. CASE UNCHANGED vars
  BY <1>11 DEF vars
<1> QED
  BY <1>1, <1>2, <1>3, <1>4, <1>5, <1>6, <1>7, <1>8, <1>9, <1>10, <1>11
     DEF Next, Client, Work

\* Type correctness: what the queue, the map of completed reads and the threads of
\* the scheduler can be (prefetch_scheduler.h, prefetch_scheduler.cpp:32-125).
THEOREM TypeCorrect == Spec => []TypeOK
<1>1. TypesInv => TypeOK
  BY DEF TypesInv
<1> QED
  BY <1>1, InitTypes, StepTypes, PTL DEF Spec

-----------------------------------------------------------------------------
\* A step that moves no request.
Unmoved ==
  /\ UNCHANGED <<pending_, reading, next_id_, DOMAIN completed_, DOMAIN taken>>
  /\ \A c \in Clients : Pushing(c)' = Pushing(c) /\ (Pushing(c) => current'[c] = current[c])

LEMMA UnmovedKeeps == InOnePlace /\ Unmoved => InOnePlace'
<1> SUFFICES ASSUME InOnePlace, Unmoved PROVE InOnePlace'
  OBVIOUS
<1> USE DEF InOnePlace, Unmoved, Queued
<1>1. Once'
  BY DEF Once
<1>2. Apart'
  BY DEF Apart
<1>3. Drawn'
  BY DEF Drawn
<1>4. NoneLost'
  BY DEF NoneLost, Held
<1> QED
  BY <1>1, <1>2, <1>3, <1>4

\* What is pending are ids, none of them 0.
LEMMA PendingIds == TypesInv => \A k \in 1..Len(pending_) : pending_[k] \in Ids
<1>1. ASSUME NEW s \in Seq(Ids), NEW k \in 1..Len(s) PROVE s[k] \in Ids
  OBVIOUS
<1> QED
  BY <1>1 DEF TypesInv, TypeOK

\* A client that finds room draws an id nobody holds.
LEMMA FindRoomPlaces ==
  ASSUME PlacesInv, NEW c \in Clients, FindRoom(c)
  PROVE  InOnePlace'
<1> USE DEF PlacesInv, TypesInv, TypeOK, InOnePlace, FindRoom, queueVars, workerVars, ownerVars
<1>1. /\ next_id_ \in Nat /\ next_id_' = next_id_ + 1 /\ ~Pushing(c)
      /\ UNCHANGED <<pending_, reading, DOMAIN completed_, DOMAIN taken>>
      /\ Pushing(c)' /\ current'[c] = next_id_
      /\ \A d \in Clients : d # c => Pushing(d)' = Pushing(d) /\ current'[d] = current[d]
  BY DEF Pushing
<1>2. /\ \A d \in Clients : Pushing(d) => current[d] # next_id_
      /\ \A k \in 1..Len(pending_) : pending_[k] # next_id_
      /\ reading # next_id_
      /\ next_id_ \notin DOMAIN completed_ \cup DOMAIN taken
  BY DEF Drawn
<1> HIDE DEF FindRoom
<1>3. Once'
  BY <1>1, <1>2 DEF Once
<1>4. Apart'
  BY <1>1, <1>2 DEF Apart, Queued
<1>5. Drawn'
  <2>1. /\ \A k \in 1..Len(pending_) : pending_[k] \in Nat
        /\ reading \in Nat /\ \A id \in DOMAIN completed_ \cup DOMAIN taken : id \in Nat
    BY PendingIds DEF Ids
  <2> QED
    BY <1>1, <2>1 DEF Drawn
<1>6. NoneLost'
  <2> SUFFICES ASSUME NEW id \in 1..next_id_' - 1 PROVE Held(id)'
    BY DEF NoneLost
  <2>1. CASE id = next_id_
    BY <1>1, <2>1 DEF Held
  <2>2. CASE id # next_id_
    <3>1. Held(id)
      BY <1>1, <2>2 DEF NoneLost
    <3> QED
      BY <1>1, <3>1 DEF Held, Queued
  <2> QED
    BY <2>1, <2>2
<1> QED
  BY <1>3, <1>4, <1>5, <1>6

\* A push moves a request from its client to the end of the queue.
LEMMA PushPlaces ==
  ASSUME PlacesInv, NEW c \in Clients, Push(c)
  PROVE  InOnePlace'
<1> USE DEF PlacesInv, TypesInv, TypeOK, InOnePlace
<1>1. /\ current[c] \in Ids /\ Pushing(c) /\ ~Pushing(c)'
      /\ UNCHANGED <<reading, next_id_, completed_, taken, current>>
      /\ \A d \in Clients : d # c => Pushing(d)' = Pushing(d)
  BY DEF Push, Pushing, workerVars, ownerVars
<1>2. /\ pending_' = Append(pending_, current[c])
      /\ Len(pending_) \in Nat /\ Len(pending_') = Len(pending_) + 1
      /\ \A k \in 1..Len(pending_) : pending_'[k] = pending_[k]
      /\ pending_'[Len(pending_) + 1] = current[c]
  BY <1>1 DEF Push
<1>3. \A k \in 1..Len(pending_') : k \in 1..Len(pending_) \/ k = Len(pending_) + 1
  BY <1>2
<1>4. \A id : Queued(id)' <=> Queued(id) \/ id = current[c]
  <2>1. \A id : Queued(id) => Queued(id)'
    BY <1>2 DEF Queued
  <2>2. Queued(current[c])'
    <3>1. Len(pending_) + 1 \in 1..Len(pending_')
      BY <1>2
    <3> QED
      BY <1>1, <1>2, <3>1 DEF Queued
  <2>3. \A id : Queued(id)' => Queued(id) \/ id = current[c]
    BY <1>2, <1>3 DEF Queued
  <2> QED
    BY <1>1, <2>1, <2>2, <2>3
<1>5. /\ ~Queued(current[c]) /\ reading # current[c]
      /\ current[c] \notin DOMAIN completed_ \cup DOMAIN taken
  BY <1>1 DEF Apart
<1>6. Once'
  <2>1. \A j, k \in 1..Len(pending_') : pending_'[j] = pending_'[k] => j = k
    BY <1>2, <1>3, <1>5 DEF Once, Queued
  <2> QED
    BY <1>1, <2>1 DEF Once
<1>7. Apart'
  <2>1. \A d \in Clients : Pushing(d)' => Pushing(d) /\ current[d] # current[c]
    BY <1>1 DEF Once
  <2>2. \A k \in 1..Len(pending_') :
          pending_'[k] # reading /\ pending_'[k] \notin DOMAIN completed_ \cup DOMAIN taken
    BY <1>2, <1>3, <1>5 DEF Apart
  <2> QED
    BY <1>1, <1>4, <2>1, <2>2 DEF Apart
<1>8. Drawn'
  <2>1. \A k \in 1..Len(pending_') : pending_'[k] < next_id_
    <3>1. current[c] < next_id_
      BY <1>1 DEF Drawn, Ids
    <3> QED
      BY <1>2, <1>3, <3>1 DEF Drawn
  <2>2. \A d \in Clients : Pushing(d)' => Pushing(d)
    BY <1>1
  <2> QED
    BY <1>1, <2>1, <2>2 DEF Drawn
<1>9. NoneLost'
  BY <1>1, <1>4 DEF NoneLost, Held
<1> QED
  BY <1>6, <1>7, <1>8, <1>9

\* The worker takes the first request out of the queue.
LEMMA PopPlaces ==
  ASSUME PlacesInv, Pop
  PROVE  InOnePlace'
<1> USE DEF PlacesInv, TypesInv, TypeOK, InOnePlace
<1>1. /\ UNCHANGED <<next_id_, completed_, taken, current, client>>
      /\ \A d \in Clients : Pushing(d)' = Pushing(d)
      /\ reading = 0 /\ reading' = pending_[1]
  BY DEF Pop, Pushing, clientVars, ownerVars, HasRequest, ReadingStates
<1>2. /\ Len(pending_) \in Nat \ {0} /\ Len(pending_') = Len(pending_) - 1
      /\ \A k \in 1..Len(pending_') : pending_'[k] = pending_[k + 1]
  BY DEF Pop
<1>3. /\ 1 \in 1..Len(pending_)
      /\ \A k \in 1..Len(pending_') : k \in Nat /\ k + 1 \in 1..Len(pending_) /\ k + 1 # 1
      /\ \A k \in 1..Len(pending_) : k # 1 => k - 1 \in 1..Len(pending_') /\ k = (k - 1) + 1
  BY <1>2
<1>4. \A id : Queued(id) <=> Queued(id)' \/ id = reading'
  <2>1. \A id : Queued(id)' => Queued(id)
    BY <1>2, <1>3 DEF Queued
  <2>2. Queued(reading')
    BY <1>1, <1>3 DEF Queued
  <2>3. \A id : Queued(id) => Queued(id)' \/ id = reading'
    <3> TAKE id
    <3> SUFFICES ASSUME NEW k \in 1..Len(pending_), pending_[k] = id PROVE Queued(id)' \/ id = reading'
      BY DEF Queued
    <3>1. CASE k = 1
      BY <1>1, <3>1
    <3>2. CASE k # 1
      <4>1. k - 1 \in 1..Len(pending_') /\ pending_'[k - 1] = pending_[k]
        BY <1>2, <1>3, <3>2
      <4> QED
        BY <4>1 DEF Queued
    <3> QED
      BY <3>1, <3>2
  <2> QED
    BY <2>1, <2>2, <2>3
<1>5. Once'
  <2>1. ASSUME NEW j \in 1..Len(pending_'), NEW k \in 1..Len(pending_'), pending_'[j] = pending_'[k]
        PROVE j = k
    <3>1. pending_[j + 1] = pending_[k + 1]
      BY <1>2, <2>1
    <3>2. j + 1 = k + 1
      BY <1>3, <3>1 DEF Once
    <3> QED
      BY <1>3, <3>2
  <2> QED
    BY <1>1, <2>1 DEF Once
<1>6. Apart'
  <2>1. \A k \in 1..Len(pending_') : pending_'[k] # reading'
    <3> SUFFICES ASSUME NEW k \in 1..Len(pending_') PROVE pending_[k + 1] # pending_[1]
      BY <1>1, <1>2
    <3>1. k + 1 \in 1..Len(pending_) /\ 1 \in 1..Len(pending_) /\ k + 1 # 1
      BY <1>3
    <3> QED
      BY <3>1 DEF Once
  <2>2. \A k \in 1..Len(pending_') : pending_'[k] \notin DOMAIN completed_ \cup DOMAIN taken
    BY <1>2, <1>3 DEF Apart
  <2>3. reading' \notin DOMAIN completed_ \cup DOMAIN taken
    BY <1>1, <1>3 DEF Apart
  <2>4. \A d \in Clients : Pushing(d) => ~Queued(current[d])' /\ reading' # current[d]
    BY <1>1, <1>4 DEF Apart
  <2> QED
    BY <1>1, <2>1, <2>2, <2>3, <2>4 DEF Apart
<1>7. Drawn'
  BY <1>1, <1>2, <1>3 DEF Drawn
<1>8. NoneLost'
  <2>1. \A id \in 1..next_id_ - 1 : Held(id)'
    BY <1>1, <1>4 DEF NoneLost, Held
  <2> QED
    BY <1>1, <2>1 DEF NoneLost
<1> QED
  BY <1>5, <1>6, <1>7, <1>8

\* A finished read is filed; what was filed is taken.
LEMMA CompletePlaces ==
  ASSUME PlacesInv, Complete
  PROVE  InOnePlace'
<1> USE DEF PlacesInv, TypesInv, TypeOK, InOnePlace
<1>1. /\ UNCHANGED <<pending_, next_id_, taken, current, client>>
      /\ \A d \in Clients : Pushing(d)' = Pushing(d)
      /\ reading \in Ids /\ reading' = 0
      /\ DOMAIN completed_' = DOMAIN completed_ \cup {reading}
  BY DEF Complete, With, Pushing, clientVars, ownerVars, queueVars, HasRequest, ReadingStates
<1>2. 0 \notin DOMAIN completed_' /\ 0 \notin DOMAIN taken
  BY <1>1 DEF Ids
<1>3. \A k \in 1..Len(pending_) : pending_[k] # 0
  BY PendingIds DEF Ids
<1>4. Once'
  BY <1>1 DEF Once
<1>5. Apart'
  <2>1. \A d \in Clients : Pushing(d) => current[d] # 0
    BY DEF Pushing
  <2> QED
    BY <1>1, <1>2, <1>3, <2>1 DEF Apart, Queued
<1>6. Drawn'
  <2>1. 0 < next_id_
    OBVIOUS
  <2> QED
    BY <1>1, <2>1 DEF Drawn
<1>7. NoneLost'
  BY <1>1 DEF NoneLost, Held, Queued
<1> QED
  BY <1>4, <1>5, <1>6, <1>7

LEMMA TakePlaces ==
  ASSUME PlacesInv, NEW id \in DOMAIN completed_, Take(id),
         UNCHANGED <<pending_, reading, next_id_, current>>,
         \A c \in Clients : Pushing(c)' = Pushing(c)
  PROVE  InOnePlace'
<1> USE DEF PlacesInv, InOnePlace
<1>1. /\ DOMAIN completed_' = DOMAIN completed_ \ {id}
      /\ DOMAIN taken' = DOMAIN taken \cup {id}
  BY DEF Take, With, Without
<1>2. Once'
  BY DEF Once
<1>3. Apart'
  BY <1>1 DEF Apart, Queued
<1>4. Drawn'
  BY <1>1 DEF Drawn
<1>5. NoneLost'
  BY <1>1 DEF NoneLost, Held, Queued
<1> QED
  BY <1>2, <1>3, <1>4, <1>5

LEMMA InitPlaces == Init => PlacesInv
<1> SUFFICES ASSUME Init PROVE InOnePlace
  BY InitTypes DEF PlacesInv
<1>1. /\ \A c \in Clients : ~Pushing(c)
      /\ pending_ = <<>> /\ Len(pending_) = 0 /\ 1..Len(pending_) = {}
      /\ reading = 0 /\ next_id_ = 1 /\ DOMAIN completed_ = {} /\ DOMAIN taken = {}
  BY DEF Init, Pushing
<1> QED
  BY <1>1 DEF InOnePlace, Once, Apart, Drawn, NoneLost

LEMMA StepPlaces == PlacesInv /\ [Next]_vars => PlacesInv'
<1> SUFFICES ASSUME PlacesInv, [Next]_vars PROVE InOnePlace'
  BY StepTypes DEF PlacesInv
<1> USE DEF queueVars, workerVars, clientVars, ownerVars
<1>1. ASSUME NEW c \in Clients, FindRoom(c) PROVE InOnePlace'
  BY <1>1, FindRoomPlaces
<1>2. ASSUME NEW c \in Clients, Push(c) PROVE InOnePlace'
  BY <1>2, PushPlaces
<1>3. CASE Pop
  BY <1>3, PopPlaces
<1>4. CASE Complete
  BY <1>4, CompletePlaces
<1>5. ASSUME NEW c \in Clients, TryGet(c) PROVE InOnePlace'
  <2>1. PICK id \in DOMAIN completed_ : Take(id)
    BY <1>5 DEF TryGet
  <2>2. /\ UNCHANGED <<pending_, reading, next_id_, current>>
        /\ \A d \in Clients : Pushing(d)' = Pushing(d)
    BY <1>5 DEF TryGet, Pushing
  <2> QED
    BY <2>1, <2>2, TakePlaces
<1>6. ASSUME NEW c \in Clients, WaitGetReturns(c) PROVE InOnePlace'
  <2>1. current[c] \in DOMAIN completed_ /\ Take(current[c])
    BY <1>6 DEF WaitGetReturns
  <2>2. /\ UNCHANGED <<pending_, reading, next_id_, current>>
        /\ \A d \in Clients : Pushing(d)' = Pushing(d)
    BY <1>6 DEF WaitGetReturns, Pushing, PlacesInv, TypesInv, TypeOK
  <2> QED
    BY <2>1, <2>2, TakePlaces
<1>7. ASSUME Unmoved PROVE InOnePlace'
  BY <1>7, UnmovedKeeps DEF PlacesInv
<1> USE DEF PlacesInv, TypesInv, TypeOK, SleepersAsleep
<1>8. ASSUME NEW c \in Clients, NotifySubmit(c) PROVE Unmoved
  <2>1. PICK W \in {{t} : t \in sleepers} \cup {{}} :
          client' = [t \in Clients |-> IF t = c THEN "idle"
                                        ELSE IF t \in W THEN "waitget" ELSE client[t]]
    BY <1>8 DEF NotifySubmit
  <2>2. client[c] = "notify" /\ \A t \in Clients : t \in W => client[t] = "asleep"
    BY <1>8 DEF NotifySubmit
  <2>3. \A t \in Clients : Pushing(t)' = Pushing(t)
    BY <2>1, <2>2 DEF Pushing
  <2> QED
    BY <1>8, <2>3 DEF NotifySubmit, Unmoved
<1>9. ASSUME NEW c \in Clients, CallWaitGet(c) \/ WaitGetSleeps(c) \/ EndSearch(c)
      PROVE Unmoved
  BY <1>9 DEF CallWaitGet, WaitGetSleeps, EndSearch, Unmoved, Pushing
<1>10. CASE NotifyComplete \/ NotifyDestroy
  <2>1. client' = [t \in Clients |-> IF t \in sleepers THEN "waitget" ELSE client[t]]
    BY <1>10 DEF NotifyComplete, NotifyDestroy, Wake
  <2>2. \A t \in Clients : Pushing(t)' = Pushing(t)
    BY <2>1 DEF Pushing
  <2>3. Unmoved
    BY <1>10, <2>2 DEF NotifyComplete, NotifyDestroy, Unmoved
  <2> QED
    BY <1>7, <2>3
<1>11. CASE LoopTop \/ StopWorker \/ Evaluate \/ FallAsleep \/ Read
  <2>1. Unmoved
    BY <1>11 DEF LoopTop, StopWorker, Evaluate, FallAsleep, Read, Unmoved, Pushing
  <2> QED
    BY <1>7, <2>1
<1>12. CASE Destroy \/ Join \/ UNCHANGED vars
  <2>1. Unmoved
    BY <1>12 DEF Destroy, Join, vars, Unmoved, Pushing
  <2> QED
    BY <1>7, <2>1
<1> QED
  BY <1>1, <1>2, <1>3, <1>4, <1>5, <1>6, <1>7, <1>8, <1>9, <1>10, <1>11, <1>12
     DEF Next, Client, Work

\* A set with no two members counts one, or none if it is empty.
LEMMA CountsOne ==
  ASSUME NEW S, \A x, y \in S : x = y
  PROVE  Cardinality(S) = IF S = {} THEN 0 ELSE 1
<1>1. CASE S = {}
  BY <1>1, FS_EmptySet
<1>2. CASE S # {}
  <2>1. PICK x \in S : TRUE
    BY <1>2
  <2>2. S = {x}
    BY <2>1
  <2> QED
    BY <1>2, <2>2, FS_Singleton
<1> QED
  BY <1>1, <1>2

\* A request whose id was drawn is in exactly one place at any time: the queue, the
\* worker and the map of completed reads hand it over without dropping it, reading
\* it twice or giving it out twice (prefetch_scheduler.cpp:32-125).
THEOREM EveryRequestInOnePlace == Spec => []RequestInOnePlace
<1>1. ASSUME PlacesInv PROVE RequestInOnePlace
  <2> SUFFICES ASSUME NEW id \in 1..next_id_ - 1 PROVE Places(id) = 1
    BY DEF RequestInOnePlace
  <2> DEFINE Pushers == {c \in Clients : client[c] = "push" /\ current[c] = id}
             Slots == {k \in 1..Len(pending_) : pending_[k] = id}
  <2> USE <1>1 DEF PlacesInv, InOnePlace
  <2>1. Cardinality(Pushers) = IF Pushers = {} THEN 0 ELSE 1
    <3>1. \A c, d \in Pushers : c = d
      BY DEF Once, Pushing
    <3> QED
      BY <3>1, CountsOne
  <2>2. Cardinality(Slots) = IF Slots = {} THEN 0 ELSE 1
    <3>1. \A j, k \in Slots : j = k
      BY DEF Once
    <3> QED
      BY <3>1, CountsOne
  <2>3. Held(id)
    BY DEF NoneLost
  <2>4. Pushers # {} => /\ Slots = {} /\ reading # id
                        /\ id \notin DOMAIN completed_ \cup DOMAIN taken
    BY DEF Apart, Pushing, Queued
  <2>5. Slots # {} => reading # id /\ id \notin DOMAIN completed_ \cup DOMAIN taken
    BY DEF Apart
  <2>6. reading = id => id \notin DOMAIN completed_ \cup DOMAIN taken
    BY DEF Apart
  <2>7. ~(id \in DOMAIN completed_ /\ id \in DOMAIN taken)
    BY DEF Apart
  <2>8. \/ Pushers # {} \/ Slots # {} \/ reading = id
        \/ id \in DOMAIN completed_ \/ id \in DOMAIN taken
    BY <2>3 DEF Held, Queued, Pushing
  <2>9. Places(id) = (IF Pushers = {} THEN 0 ELSE 1) + (IF Slots = {} THEN 0 ELSE 1)
                     + (IF reading = id THEN 1 ELSE 0)
                     + (IF id \in DOMAIN completed_ THEN 1 ELSE 0)
                     + (IF id \in DOMAIN taken THEN 1 ELSE 0)
    BY <2>1, <2>2 DEF Places
  <2> HIDE DEF Pushers, Slots
  <2> QED
    BY <2>4, <2>5, <2>6, <2>7, <2>8, <2>9
<1> QED
  BY <1>1, InitPlaces, StepPlaces, PTL DEF Spec

-----------------------------------------------------------------------------
Pushers == {c \in Clients : Pushing(c)}

\* in_flight_ is exact, and the clients that have found room but not pushed yet
\* are within what the limit may be overshot by.
RoomInv ==
  /\ TypesInv
  /\ in_flight_ = Len(pending_)
  /\ Len(pending_) + Cardinality(Pushers) <= MaxInFlight + Cardinality(Clients) - 1

LEMMA PushersFinite ==
  /\ Cardinality(Clients) \in Nat \ {0}
  /\ IsFiniteSet(Pushers) /\ Cardinality(Pushers) \in Nat
  /\ Cardinality(Pushers) <= Cardinality(Clients)
<1>1. IsFiniteSet(Clients) /\ Clients # {} /\ Pushers \subseteq Clients
  BY ClientsAssumption DEF ClientsAssumption, Pushers
<1> QED
  BY <1>1, FS_Subset, FS_CardinalityType, FS_EmptySet

\* The submissions that are under way do not exceed the limit by more than one per
\* client after the first, although the check for room is made without the lock
\* (prefetch_scheduler.cpp:32-52).
THEOREM QueueWithinBound == Spec => []QueueBounded
<1>1. Init => RoomInv
  <2> SUFFICES ASSUME Init PROVE RoomInv
    OBVIOUS
  <2>1. Pushers = {} /\ Len(pending_) = 0 /\ in_flight_ = 0
    BY DEF Init, Pushers, Pushing
  <2>2. Cardinality(Pushers) = 0
    BY <2>1, FS_EmptySet
  <2> QED
    BY <2>1, <2>2, InitTypes, PushersFinite, LimitsAssumption DEF RoomInv, LimitsAssumption
<1>2. RoomInv /\ [Next]_vars => RoomInv'
  <2> SUFFICES ASSUME RoomInv, [Next]_vars PROVE RoomInv'
    OBVIOUS
  <2>1. TypesInv /\ TypesInv' /\ Len(pending_) \in Nat
    BY StepTypes DEF RoomInv, TypesInv, TypeOK
  <2>2. Cardinality(Pushers)' \in Nat /\ IsFiniteSet(Pushers)'
    <3>1. Pushers' \subseteq Clients
      BY DEF Pushers
    <3> QED
      BY <3>1, ClientsAssumption, FS_Subset, FS_CardinalityType DEF ClientsAssumption
  <2> USE DEF queueVars, workerVars, clientVars, ownerVars
  <2>3. ASSUME NEW c \in Clients, FindRoom(c) PROVE RoomInv'
    <3>1. Cardinality(Pushers)' <= Cardinality(Clients)
      <4>1. Pushers' \subseteq Clients
        BY DEF Pushers
      <4> QED
        BY <4>1, ClientsAssumption, FS_Subset DEF ClientsAssumption
    <3>2. Len(pending_) <= MaxInFlight - 1 /\ UNCHANGED <<pending_, in_flight_>>
      BY <2>1, <2>3, LimitsAssumption DEF FindRoom, RoomInv, LimitsAssumption
    <3> QED
      BY <2>1, <2>2, <3>1, <3>2, PushersFinite, LimitsAssumption DEF RoomInv, LimitsAssumption
  <2>4. ASSUME NEW c \in Clients, Push(c) PROVE RoomInv'
    <3>1. c \in Pushers /\ Pushers' = Pushers \ {c}
      BY <2>1, <2>4 DEF Push, Pushers, Pushing, TypesInv, TypeOK
    <3>2. Cardinality(Pushers') = Cardinality(Pushers) - 1
      BY <3>1, PushersFinite, FS_RemoveElement
    <3>3. Len(pending_') = Len(pending_) + 1 /\ in_flight_' = Len(pending_')
      BY <2>1, <2>4 DEF Push, TypesInv, TypeOK
    <3> QED
      BY <2>1, <3>2, <3>3, PushersFinite, LimitsAssumption DEF RoomInv, LimitsAssumption
  <2>5. CASE Pop
    <3>1. Pushers' = Pushers
      BY <2>5 DEF Pop, Pushers, Pushing
    <3>2. Len(pending_') = Len(pending_) - 1 /\ in_flight_' = Len(pending_')
      BY <2>1, <2>5 DEF Pop, TypesInv, TypeOK
    <3> QED
      BY <2>1, <3>1, <3>2, PushersFinite, LimitsAssumption DEF RoomInv, LimitsAssumption
  <2>6. ASSUME UNCHANGED <<pending_, in_flight_, Pushers>> PROVE RoomInv'
    BY <2>1, <2>6 DEF RoomInv
  <2>7. ASSUME NEW c \in Clients, NotifySubmit(c) PROVE UNCHANGED <<pending_, in_flight_, Pushers>>
    <3>1. PICK W \in {{t} : t \in sleepers} \cup {{}} :
            client' = [t \in Clients |-> IF t = c THEN "idle"
                                          ELSE IF t \in W THEN "waitget" ELSE client[t]]
      BY <2>7 DEF NotifySubmit
    <3>2. client[c] = "notify" /\ \A t \in Clients : t \in W => client[t] = "asleep"
      BY <2>1, <2>7 DEF NotifySubmit, TypesInv, SleepersAsleep
    <3> QED
      BY <2>7, <3>1, <3>2 DEF NotifySubmit, Pushers, Pushing
  <2>8. ASSUME NEW c \in Clients,
               \/ TryGet(c) \/ WaitGetReturns(c) \/ CallWaitGet(c) \/ WaitGetSleeps(c)
               \/ EndSearch(c)
        PROVE UNCHANGED <<pending_, in_flight_, Pushers>>
    BY <2>1, <2>8 DEF TryGet, WaitGetReturns, CallWaitGet, WaitGetSleeps, EndSearch, Pushers,
                      Pushing, TypesInv, TypeOK
  <2>9. CASE NotifyComplete \/ NotifyDestroy
    <3>1. client' = [t \in Clients |-> IF t \in sleepers THEN "waitget" ELSE client[t]]
      BY <2>9 DEF NotifyComplete, NotifyDestroy, Wake
    <3>2. Pushers' = Pushers
      BY <2>1, <3>1 DEF Pushers, Pushing, TypesInv, SleepersAsleep
    <3> QED
      BY <2>6, <2>9, <3>2 DEF NotifyComplete, NotifyDestroy
  <2>10. CASE LoopTop \/ StopWorker \/ Evaluate \/ FallAsleep \/ Read \/ Complete
    BY <2>6, <2>10 DEF LoopTop, StopWorker, Evaluate, FallAsleep, Read, Complete, Pushers, Pushing
  <2>11. CASE Destroy \/ Join \/ UNCHANGED vars
    BY <2>6, <2>11 DEF Destroy, Join, vars, Pushers, Pushing
  <2> QED
    BY <2>3, <2>4, <2>5, <2>6, <2>7, <2>8, <2>9, <2>10, <2>11 DEF Next, Client, Work
<1>3. RoomInv => QueueBounded
  <2> SUFFICES ASSUME RoomInv PROVE QueueBounded
    OBVIOUS
  <2>1. Len(pending_) \in Nat
    BY DEF RoomInv, TypesInv, TypeOK
  <2> QED
    BY <2>1, PushersFinite, LimitsAssumption DEF RoomInv, QueueBounded, LimitsAssumption
<1> QED
  BY <1>1, <1>2, <1>3, PTL DEF Spec

-----------------------------------------------------------------------------
WorkerIsTold ==
  stop_ /\ worker \in {"sleepy", "asleep"} => missed \/ owner = "notify_all"

\* When the scheduler is being destroyed, a worker that waits is still to be notified,
\* unless the notify fell between its predicate and its sleep
\* (prefetch_scheduler.cpp:24-30, 92-98).
THEOREM SleeperIsNotified == Spec => []WorkerIsTold
<1> DEFINE Inv == TypesInv /\ WorkerIsTold
<1>1. Init => Inv
  BY InitTypes DEF Init, WorkerIsTold
<1>2. Inv /\ [Next]_vars => Inv'
  <2> SUFFICES ASSUME Inv, [Next]_vars PROVE WorkerIsTold'
    BY StepTypes
  <2> USE DEF WorkerIsTold, queueVars, workerVars, clientVars, ownerVars
  <2>1. ASSUME NEW c \in Clients, Client(c), ~NotifySubmit(c) PROVE WorkerIsTold'
    <3>1. CASE FindRoom(c) \/ Push(c) \/ CallWaitGet(c) \/ WaitGetSleeps(c)
      BY <3>1 DEF FindRoom, Push, CallWaitGet, WaitGetSleeps
    <3>2. CASE TryGet(c) \/ WaitGetReturns(c) \/ EndSearch(c)
      BY <3>2 DEF TryGet, WaitGetReturns, EndSearch
    <3> QED
      BY <2>1, <3>1, <3>2 DEF Client
  <2>2. ASSUME NEW c \in Clients, NotifySubmit(c) PROVE WorkerIsTold'
    BY <2>2 DEF NotifySubmit
  <2>3. CASE LoopTop \/ Pop \/ StopWorker \/ Evaluate \/ FallAsleep
    BY <2>3 DEF LoopTop, Pop, StopWorker, Evaluate, FallAsleep
  <2>4. CASE Read \/ Complete \/ NotifyComplete
    BY <2>4 DEF Read, Complete, NotifyComplete
  <2>5. CASE NotifyDestroy
    <3>1. Worker \in sleepers <=> worker = "asleep"
      BY DEF TypesInv, SleepersAsleep
    <3> QED
      BY <2>5, <3>1 DEF NotifyDestroy, Wake
  <2>6. CASE Destroy \/ Join \/ UNCHANGED vars
    BY <2>6 DEF Destroy, Join, vars
  <2> QED
    BY <2>1, <2>2, <2>3, <2>4, <2>5, <2>6 DEF Next, Work
<1> QED
  BY <1>1, <1>2, PTL DEF Spec

-----------------------------------------------------------------------------
(***************************************************************************)
(* What is safe about the waits: the worker and the callers of WaitGet     *)
(* share a condition variable, and the notify for a new request wakes one  *)
(* of them.                                                                *)
(***************************************************************************)

\* The requests of a client: those it may ask for, and the one it is submitting.
Ours(c) == known[c] \cup {id \in {current[c]} : client[c] \in {"push", "notify"}}

OneOwner == \A c, d \in Clients : c # d => Ours(c) \cap Ours(d) = {}

NotTaken == \A c \in Clients : \A id \in Ours(c) : id < next_id_ /\ id \notin DOMAIN taken

OnlyOurs ==
  \A c \in Clients :
    /\ client[c] \in {"push", "notify"} => current[c] \notin known[c]
    /\ client[c] \in {"waitget", "asleep"} => current[c] \in known[c]

\* The scheduler is destroyed when nobody is in a call.
StopsLast ==
  /\ \A c \in Clients : client[c] # "idle" => owner = "run"
  /\ stop_ => owner # "run"
  /\ worker = "stopped" => stop_

\* A request has one owner, and only that one waits for it or takes it.
OwnInv == OneOwner /\ NotTaken /\ OnlyOurs /\ StopsLast

\* Data that a caller sleeps on are there only until the worker's notify.
ToldOfData ==
  \A c \in Clients :
    client[c] = "asleep" /\ current[c] \in DOMAIN completed_ => worker = "notify_all"

\* A worker that sleeps does so alone, so that the notify for a new request is for it.
SleepsAlone ==
  /\ worker \in {"sleepy", "asleep"} =>
       /\ \A c \in Clients : client[c] # "asleep"
       /\ \A id \in Ids : Queued(id) =>
            \E c \in Clients : client[c] = "notify" /\ current[c] = id
  /\ worker = "sleepy" => pending_ = <<>>

WaitInv == ToldOfData /\ SleepsAlone

\* Nobody sleeps on a request that no one works on.
WaiterIsServed ==
  \A c \in Clients : client[c] = "asleep" =>
    /\ worker \notin {"sleepy", "asleep", "stopped"}
    /\ \/ Queued(current[c]) \/ reading = current[c]
       \/ current[c] \in DOMAIN completed_ /\ worker = "notify_all"

\* The worker does not sleep on a request, unless a notify is to come.
RequestNotForgotten ==
  pending_ # <<>> /\ worker \in {"sleepy", "asleep"} => \E c \in Clients : client[c] = "notify"

\* A step that gives no client a request, and takes away what it hands out.
LEMMA OwnersKept ==
  ASSUME OwnInv, next_id_' = next_id_, \A c \in Clients : Ours(c)' \subseteq Ours(c),
         \A c \in Clients : \A id \in Ours(c)' : id \in DOMAIN taken' => id \in DOMAIN taken
  PROVE  OneOwner' /\ NotTaken'
<1>1. OneOwner'
  BY DEF OwnInv, OneOwner
<1>2. NotTaken'
  BY DEF OwnInv, NotTaken
<1> QED
  BY <1>1, <1>2

\* The one who wakes changes its place only.
LEMMA WokenKeepsOwn ==
  ASSUME TypesInv, OwnInv, NEW W, \A c \in Clients \cap W : client[c] = "asleep",
         client' = [c \in Clients |-> IF c \in W THEN "waitget" ELSE client[c]],
         UNCHANGED <<current, known, next_id_, taken>>
  PROVE  OneOwner' /\ NotTaken' /\ OnlyOurs'
<1>1. \A c \in Clients : Ours(c)' = Ours(c)
  BY DEF Ours
<1>2. OneOwner' /\ NotTaken'
  BY <1>1, OwnersKept
<1>3. OnlyOurs'
  BY DEF OwnInv, OnlyOurs
<1> QED
  BY <1>2, <1>3

LEMMA StepOwn ==
  ASSUME PlacesInv, OwnInv, [Next]_vars
  PROVE  OwnInv'
<1> USE DEF queueVars, workerVars, clientVars, ownerVars
<1>1. /\ client \in [Clients -> {"idle", "push", "notify", "waitget", "asleep"}]
      /\ current \in [Clients -> Ids \cup {0}] /\ known \in [Clients -> SUBSET Ids]
      /\ next_id_ \in Nat
      /\ \A c \in Clients : c \in sleepers <=> client[c] = "asleep"
  BY DEF PlacesInv, TypesInv, TypeOK, SleepersAsleep
<1>2. ASSUME NEW c \in Clients, FindRoom(c) PROVE OwnInv'
  <2>1. /\ client[c] = "idle" /\ owner = "run" /\ next_id_' = next_id_ + 1
        /\ client' = [client EXCEPT ![c] = "push"]
        /\ current' = [current EXCEPT ![c] = next_id_]
        /\ UNCHANGED <<known, taken, stop_, worker, owner>>
    BY <1>2 DEF FindRoom
  <2>2. /\ Ours(c)' = Ours(c) \cup {next_id_}
        /\ \A d \in Clients : d # c => Ours(d)' = Ours(d)
    BY <1>1, <2>1 DEF Ours
  <2>3. \A d \in Clients : next_id_ \notin Ours(d) /\ \A id \in Ours(d) : id \in Nat
    BY <1>1 DEF OwnInv, NotTaken, Ours, Ids
  <2>4. next_id_ \notin DOMAIN taken
    BY <1>1 DEF PlacesInv, InOnePlace, Drawn
  <2>5. OneOwner'
    BY <2>2, <2>3 DEF OwnInv, OneOwner
  <2>6. NotTaken'
    BY <1>1, <2>1, <2>2, <2>3, <2>4 DEF OwnInv, NotTaken
  <2>7. OnlyOurs'
    <3>1. next_id_ \notin known[c]
      BY <2>3 DEF Ours
    <3> QED
      BY <1>1, <2>1, <3>1 DEF OwnInv, OnlyOurs
  <2>8. StopsLast'
    BY <1>1, <2>1 DEF OwnInv, StopsLast
  <2> QED
    BY <2>5, <2>6, <2>7, <2>8 DEF OwnInv
<1>3. ASSUME NEW c \in Clients, Push(c) PROVE OwnInv'
  <2>1. /\ client[c] = "push" /\ client' = [client EXCEPT ![c] = "notify"]
        /\ UNCHANGED <<next_id_, current, known, taken, stop_, worker, owner>>
    BY <1>3 DEF Push
  <2>2. \A d \in Clients : Ours(d)' = Ours(d)
    BY <1>1, <2>1 DEF Ours
  <2>3. OneOwner' /\ NotTaken'
    BY <2>1, <2>2, OwnersKept
  <2>4. OnlyOurs' /\ StopsLast'
    BY <1>1, <2>1 DEF OwnInv, OnlyOurs, StopsLast
  <2> QED
    BY <2>3, <2>4 DEF OwnInv
<1>4. ASSUME NEW c \in Clients, NotifySubmit(c) PROVE OwnInv'
  <2>1. PICK W \in {{t} : t \in sleepers} \cup {{}} :
          /\ worker' = IF Worker \in W THEN "evaluate" ELSE worker
          /\ client' = [t \in Clients |-> IF t = c THEN "idle"
                                          ELSE IF t \in W THEN "waitget" ELSE client[t]]
    BY <1>4 DEF NotifySubmit
  <2>2. /\ client[c] = "notify" /\ \A t \in Clients : t \in W => client[t] = "asleep"
        /\ known' = [known EXCEPT ![c] = known[c] \cup {current[c]}]
        /\ UNCHANGED <<next_id_, current, taken, stop_, owner>>
    BY <1>1, <1>4 DEF NotifySubmit
  <2>3. \A d \in Clients : Ours(d)' \subseteq Ours(d)
    <3> SUFFICES ASSUME NEW d \in Clients PROVE Ours(d)' \subseteq Ours(d)
      OBVIOUS
    <3>1. CASE d = c
      BY <1>1, <2>1, <2>2, <3>1 DEF Ours
    <3>2. CASE d # c
      BY <1>1, <2>1, <2>2, <3>2 DEF Ours
    <3> QED
      BY <3>1, <3>2
  <2>4. OneOwner' /\ NotTaken'
    BY <2>2, <2>3, OwnersKept
  <2>5. OnlyOurs'
    <3> SUFFICES ASSUME NEW d \in Clients
                 PROVE  /\ client'[d] \in {"push", "notify"} => current'[d] \notin known'[d]
                        /\ client'[d] \in {"waitget", "asleep"} => current'[d] \in known'[d]
      BY DEF OnlyOurs
    <3>1. CASE d = c
      BY <2>1, <2>2, <3>1
    <3>2. CASE d # c
      BY <1>1, <2>1, <2>2, <3>2 DEF OwnInv, OnlyOurs
    <3> QED
      BY <3>1, <3>2
  <2>6. StopsLast'
    <3>1. \A d \in Clients : client'[d] # "idle" => client[d] # "idle"
      BY <2>1, <2>2
    <3>2. worker' # "stopped" \/ worker = "stopped"
      BY <2>1
    <3> QED
      BY <2>2, <3>1, <3>2 DEF OwnInv, StopsLast
  <2> QED
    BY <2>4, <2>5, <2>6 DEF OwnInv
<1>5. ASSUME NEW c \in Clients, TryGet(c) \/ WaitGetReturns(c) PROVE OwnInv'
  <2>1. PICK id \in known[c] :
          /\ known' = [known EXCEPT ![c] = known[c] \ {id}]
          /\ Take(id)
          /\ client[c] \in {"idle", "waitget"} /\ client' = [client EXCEPT ![c] = "idle"]
          /\ UNCHANGED <<next_id_, current, stop_, worker, owner>>
    <3>1. CASE TryGet(c)
      <4>1. client' = [client EXCEPT ![c] = "idle"]
        BY <1>1, <3>1 DEF TryGet
      <4> QED
        BY <3>1, <4>1 DEF TryGet
    <3>2. CASE WaitGetReturns(c)
      BY <3>2 DEF WaitGetReturns, OwnInv, OnlyOurs
    <3> QED
      BY <1>5, <3>1, <3>2
  <2>2. DOMAIN taken' = DOMAIN taken \cup {id}
    BY <2>1 DEF Take, With
  <2>3. \A d \in Clients : Ours(d)' \subseteq Ours(d) /\ id \notin Ours(d)'
    <3> SUFFICES ASSUME NEW d \in Clients
                 PROVE  Ours(d)' \subseteq Ours(d) /\ id \notin Ours(d)'
      OBVIOUS
    <3>1. CASE d = c
      BY <1>1, <2>1, <3>1 DEF Ours
    <3>2. CASE d # c
      <4>1. id \in Ours(c) /\ id \notin Ours(d)
        BY <2>1, <3>2 DEF Ours, OwnInv, OneOwner
      <4>2. Ours(d)' = Ours(d)
        BY <1>1, <2>1, <3>2 DEF Ours
      <4> QED
        BY <4>1, <4>2
    <3> QED
      BY <3>1, <3>2
  <2>4. OneOwner' /\ NotTaken'
    BY <2>1, <2>2, <2>3, OwnersKept
  <2>5. OnlyOurs' /\ StopsLast'
    BY <1>1, <2>1 DEF OwnInv, OnlyOurs, StopsLast
  <2> QED
    BY <2>4, <2>5 DEF OwnInv
<1>6. ASSUME NEW c \in Clients, CallWaitGet(c) \/ WaitGetSleeps(c) \/ EndSearch(c)
      PROVE  OwnInv'
  <2>1. /\ client[c] \in {"idle", "waitget"} /\ client'[c] \in {"idle", "waitget", "asleep"}
        /\ known'[c] \subseteq known[c]
        /\ client'[c] # "idle" => current'[c] \in known'[c] /\ owner = "run"
        /\ \A d \in Clients : d # c =>
             client'[d] = client[d] /\ current'[d] = current[d] /\ known'[d] = known[d]
        /\ UNCHANGED <<next_id_, taken, stop_, worker, owner>>
    <3>1. CASE CallWaitGet(c)
      BY <1>1, <3>1 DEF CallWaitGet
    <3>2. CASE WaitGetSleeps(c)
      BY <1>1, <3>2 DEF WaitGetSleeps, OwnInv, OnlyOurs, StopsLast
    <3>3. CASE EndSearch(c)
      BY <1>1, <3>3 DEF EndSearch
    <3> QED
      BY <1>6, <3>1, <3>2, <3>3
  <2>2. \A d \in Clients : Ours(d)' \subseteq Ours(d)
    BY <2>1 DEF Ours
  <2>3. OneOwner' /\ NotTaken'
    BY <2>1, <2>2, OwnersKept
  <2>4. OnlyOurs' /\ StopsLast'
    BY <2>1 DEF OwnInv, OnlyOurs, StopsLast
  <2> QED
    BY <2>3, <2>4 DEF OwnInv
<1>7. CASE NotifyComplete \/ NotifyDestroy
  <2>1. /\ client' = [c \in Clients |-> IF c \in sleepers THEN "waitget" ELSE client[c]]
        /\ UNCHANGED <<current, known, next_id_, taken, stop_>>
        /\ worker' = "stopped" => worker = "stopped"
        /\ owner' = owner \/ (owner = "notify_all" /\ owner' = "join")
    <3>1. CASE NotifyComplete
      BY <3>1 DEF NotifyComplete
    <3>2. CASE NotifyDestroy
      BY <3>2 DEF NotifyDestroy, Wake
    <3> QED
      BY <1>7, <3>1, <3>2
  <2>2. OneOwner' /\ NotTaken' /\ OnlyOurs'
    BY <1>1, <2>1, WokenKeepsOwn DEF PlacesInv
  <2>3. StopsLast'
    BY <1>1, <2>1 DEF OwnInv, StopsLast
  <2> QED
    BY <2>2, <2>3 DEF OwnInv
<1>8. CASE LoopTop \/ Pop \/ StopWorker \/ Evaluate \/ FallAsleep \/ Read \/ Complete
           \/ Destroy \/ Join \/ UNCHANGED vars
  <2>1. UNCHANGED <<client, current, known, next_id_, taken>>
    BY <1>8 DEF LoopTop, Pop, StopWorker, Evaluate, FallAsleep, Read, Complete, Destroy, Join, vars
  <2>2. OneOwner' /\ NotTaken' /\ OnlyOurs'
    BY <2>1 DEF OwnInv, OneOwner, NotTaken, OnlyOurs, Ours
  <2>3. StopsLast'
    BY <1>8, <2>1 DEF OwnInv, StopsLast, LoopTop, Pop, StopWorker, Evaluate, FallAsleep, Read,
       Complete, Destroy, Join, vars
  <2> QED
    BY <2>2, <2>3 DEF OwnInv
<1> QED
  BY <1>2, <1>3, <1>4, <1>5, <1>6, <1>7, <1>8 DEF Next, Client, Work

\* A request that a client may ask for is queued, being read, or there.
LEMMA KnownPlace ==
  ASSUME PlacesInv, OwnInv, NEW c \in Clients, NEW id \in known[c]
  PROVE  /\ id \in Ids /\ (Queued(id) \/ reading = id \/ id \in DOMAIN completed_)
         /\ \A d \in Clients : client[d] = "notify" => current[d] # id
<1>1. id \in Ids /\ id \in Ours(c) /\ next_id_ \in Nat
  BY DEF PlacesInv, TypesInv, TypeOK, Ours
<1>2. id \in 1..next_id_ - 1 /\ id \notin DOMAIN taken
  BY <1>1 DEF OwnInv, NotTaken, Ids
<1>3. \A d \in Clients : client[d] \in {"push", "notify"} => current[d] # id
  <2> SUFFICES ASSUME NEW d \in Clients, client[d] \in {"push", "notify"}, current[d] = id
               PROVE  FALSE
    OBVIOUS
  <2>1. id \in Ours(d)
    BY DEF Ours
  <2> QED
    BY <1>1, <2>1 DEF OwnInv, OneOwner, OnlyOurs
<1>4. Held(id)
  BY <1>2 DEF PlacesInv, InOnePlace, NoneLost
<1> QED
  BY <1>1, <1>2, <1>3, <1>4 DEF Held, Pushing

\* What each step does to those who sleep.
LEMMA StepWait ==
  ASSUME PlacesInv, OwnInv, WaitInv, [Next]_vars
  PROVE  WaitInv'
<1> USE DEF queueVars, workerVars, clientVars, ownerVars
<1>1. /\ client \in [Clients -> {"idle", "push", "notify", "waitget", "asleep"}]
      /\ current \in [Clients -> Ids \cup {0}] /\ known \in [Clients -> SUBSET Ids]
      /\ \A c \in Clients : c \in sleepers <=> client[c] = "asleep"
      /\ Worker \in sleepers <=> worker = "asleep"
      /\ sleepers \subseteq Clients \cup {Worker}
      /\ reading # 0 <=> worker \in ReadingStates
      /\ pending_ \in Seq(Ids)
  BY DEF PlacesInv, TypesInv, TypeOK, SleepersAsleep, HasRequest
\* A step of a client that pushes nothing.
<1>2. ASSUME NEW c \in Clients, FindRoom(c) \/ CallWaitGet(c) \/ EndSearch(c)
      PROVE  WaitInv'
  <2>1. /\ client[c] = "idle" /\ client'[c] \in {"idle", "push", "waitget"}
        /\ \A d \in Clients : d # c => client'[d] = client[d] /\ current'[d] = current[d]
        /\ UNCHANGED <<pending_, completed_, worker>>
    BY <1>1, <1>2 DEF FindRoom, CallWaitGet, EndSearch
  <2>2. ToldOfData'
    BY <2>1 DEF WaitInv, ToldOfData
  <2>3. SleepsAlone'
    BY <2>1 DEF WaitInv, SleepsAlone, Queued
  <2> QED
    BY <2>2, <2>3 DEF WaitInv
<1>3. ASSUME NEW c \in Clients, Push(c) PROVE WaitInv'
  <2>1. /\ client[c] = "push" /\ client' = [client EXCEPT ![c] = "notify"] /\ worker # "sleepy"
        /\ pending_' = Append(pending_, current[c])
        /\ UNCHANGED <<current, completed_, worker>>
    BY <1>3 DEF Push, LockFree
  <2>2. current[c] \in Ids
    BY <1>1, <2>1 DEF PlacesInv, TypesInv, Ids
  <2>3. \A id : Queued(id)' => Queued(id) \/ id = current[c]
    BY <1>1, <2>1, <2>2 DEF Queued
  <2>4. ToldOfData'
    BY <1>1, <2>1 DEF WaitInv, ToldOfData
  <2>5. SleepsAlone'
    BY <1>1, <2>1, <2>3 DEF WaitInv, SleepsAlone
  <2> QED
    BY <2>4, <2>5 DEF WaitInv
\* When the worker sleeps, it is the one that is woken.
<1>4. ASSUME NEW c \in Clients, NotifySubmit(c) PROVE WaitInv'
  <2>1. PICK W \in {{t} : t \in sleepers} \cup {{}} :
          /\ W = {} => sleepers = {}
          /\ worker' = IF Worker \in W THEN "evaluate" ELSE worker
          /\ client' = [t \in Clients |-> IF t = c THEN "idle"
                                          ELSE IF t \in W THEN "waitget" ELSE client[t]]
    BY <1>4 DEF NotifySubmit
  <2>2. UNCHANGED <<pending_, completed_, current>>
    BY <1>4 DEF NotifySubmit
  <2>3. \A d \in Clients : client'[d] = "asleep" => client[d] = "asleep"
    BY <2>1
  <2>4. worker' = worker \/ worker = "asleep"
    BY <1>1, <2>1
  <2>5. ToldOfData'
    BY <2>2, <2>3, <2>4 DEF WaitInv, ToldOfData
  <2>6. worker' # "asleep"
    <3> SUFFICES ASSUME worker = "asleep" PROVE Worker \in W
      BY <2>1
    <3>1. sleepers = {Worker}
      BY <1>1 DEF WaitInv, SleepsAlone
    <3> QED
      BY <2>1, <3>1
  <2>7. SleepsAlone'
    <3>1. worker' = "sleepy" => worker = "sleepy" /\ pending_ = <<>>
      BY <2>1 DEF WaitInv, SleepsAlone
    <3>2. pending_' = <<>> => \A id : ~Queued(id)'
      BY DEF Queued
    <3> QED
      BY <2>2, <2>3, <2>6, <3>1, <3>2 DEF WaitInv, SleepsAlone
  <2> QED
    BY <2>5, <2>7 DEF WaitInv
<1>5. ASSUME NEW c \in Clients, TryGet(c) \/ WaitGetReturns(c) PROVE WaitInv'
  <2>1. /\ client[c] \in {"idle", "waitget"} /\ client'[c] = "idle"
        /\ \A d \in Clients : d # c => client'[d] = client[d]
        /\ DOMAIN completed_' \subseteq DOMAIN completed_
        /\ UNCHANGED <<pending_, current, worker>>
    BY <1>1, <1>5 DEF TryGet, WaitGetReturns, Take, Without
  <2>2. ToldOfData'
    BY <2>1 DEF WaitInv, ToldOfData
  <2>3. SleepsAlone'
    BY <2>1 DEF WaitInv, SleepsAlone, Queued
  <2> QED
    BY <2>2, <2>3 DEF WaitInv
\* A caller goes to sleep only while the worker is awake, or will be notified.
<1>6. ASSUME NEW c \in Clients, WaitGetSleeps(c) PROVE WaitInv'
  <2>1. /\ client[c] = "waitget" /\ current[c] \notin DOMAIN completed_ /\ worker # "sleepy"
        /\ \A d \in Clients : d # c => client'[d] = client[d]
        /\ UNCHANGED <<pending_, completed_, current, worker>>
    BY <1>1, <1>6 DEF WaitGetSleeps, LockFree
  <2>2. ToldOfData'
    BY <2>1 DEF WaitInv, ToldOfData
  <2>3. current[c] \in known[c]
    BY <2>1 DEF OwnInv, OnlyOurs
  <2>4. worker # "asleep"
    <3> SUFFICES ASSUME worker = "asleep" PROVE FALSE
      OBVIOUS
    <3>1. reading = 0
      BY <1>1 DEF ReadingStates
    <3>2. current[c] \in Ids /\ Queued(current[c])
      BY <2>1, <2>3, <3>1, KnownPlace DEF Ids
    <3> QED
      BY <2>3, <3>2, KnownPlace DEF WaitInv, SleepsAlone
  <2>5. SleepsAlone'
    BY <2>1, <2>4 DEF SleepsAlone
  <2> QED
    BY <2>2, <2>5 DEF WaitInv
<1>7. CASE NotifyComplete \/ NotifyDestroy
  <2>1. /\ \A c \in Clients : client'[c] # "asleep" /\ (client[c] = "notify" => client'[c] = "notify")
        /\ worker' \in {"sleepy", "asleep"} => worker' = worker
        /\ UNCHANGED <<pending_, completed_, current>>
    <3>1. CASE NotifyComplete
      BY <1>1, <3>1 DEF NotifyComplete
    <3>2. CASE NotifyDestroy
      BY <1>1, <3>2 DEF NotifyDestroy, Wake
    <3> QED
      BY <1>7, <3>1, <3>2
  <2>2. ToldOfData'
    BY <2>1 DEF ToldOfData
  <2>3. SleepsAlone'
    BY <2>1 DEF WaitInv, SleepsAlone, Queued
  <2> QED
    BY <2>2, <2>3 DEF WaitInv
\* What the worker sleeps on is an empty queue, and then there is nobody to serve.
<1>8. CASE Evaluate
  <2>1. /\ worker = "evaluate" /\ pending_ = <<>> /\ worker' = "sleepy"
        /\ UNCHANGED <<client, current, completed_, pending_>>
    BY <1>8 DEF Evaluate
  <2>2. \A id : ~Queued(id)
    BY <2>1 DEF Queued
  <2>3. ASSUME NEW c \in Clients, client[c] = "asleep" PROVE FALSE
    <3>1. reading = 0
      BY <1>1, <2>1 DEF ReadingStates
    <3>2. current[c] \in known[c]
      BY <2>3 DEF OwnInv, OnlyOurs
    <3>3. current[c] \in DOMAIN completed_
      BY <2>2, <3>1, <3>2, KnownPlace DEF Ids
    <3> QED
      BY <2>1, <2>3, <3>3 DEF WaitInv, ToldOfData
  <2>4. ToldOfData'
    BY <2>1, <2>3 DEF ToldOfData
  <2>5. SleepsAlone'
    BY <2>1, <2>2, <2>3 DEF SleepsAlone, Queued
  <2> QED
    BY <2>4, <2>5 DEF WaitInv
<1>9. CASE FallAsleep
  <2>1. worker = "sleepy" /\ worker' = "asleep" /\ UNCHANGED <<client, current, completed_, pending_>>
    BY <1>9 DEF FallAsleep
  <2>2. ToldOfData'
    BY <2>1 DEF WaitInv, ToldOfData
  <2>3. SleepsAlone'
    BY <2>1 DEF WaitInv, SleepsAlone, Queued
  <2> QED
    BY <2>2, <2>3 DEF WaitInv
<1>10. CASE LoopTop \/ Pop \/ StopWorker \/ Read \/ Complete
  <2>1. /\ UNCHANGED <<client, current>> /\ worker' \notin {"sleepy", "asleep"}
        /\ worker # "notify_all"
        /\ worker' = "notify_all" \/ completed_' = completed_
    BY <1>10 DEF LoopTop, Pop, StopWorker, Read, Complete
  <2> QED
    BY <2>1 DEF WaitInv, ToldOfData, SleepsAlone
<1>11. CASE Destroy \/ Join \/ UNCHANGED vars
  <2>1. UNCHANGED <<client, current, completed_, pending_, worker>>
    BY <1>11 DEF Destroy, Join, vars
  <2> QED
    BY <2>1 DEF WaitInv, ToldOfData, SleepsAlone, Queued
<1> QED
  BY <1>2, <1>3, <1>4, <1>5, <1>6, <1>7, <1>8, <1>9, <1>10, <1>11 DEF Next, Client, Work

WaitFacts == PlacesInv /\ OwnInv /\ WaitInv

LEMMA WaitFactsHold == Spec => []WaitFacts
<1>1. Init => WaitFacts
  <2> SUFFICES ASSUME Init PROVE OwnInv /\ WaitInv
    BY InitPlaces DEF WaitFacts
  <2>1. \A c \in Clients : Ours(c) = {}
    BY DEF Init, Ours
  <2>2. OwnInv
    BY <2>1 DEF Init, OwnInv, OneOwner, NotTaken, OnlyOurs, StopsLast
  <2>3. WaitInv
    BY DEF Init, WaitInv, ToldOfData, SleepsAlone
  <2> QED
    BY <2>2, <2>3
<1>2. WaitFacts /\ [Next]_vars => WaitFacts'
  BY StepPlaces, StepOwn, StepWait DEF WaitFacts
<1> QED
  BY <1>1, <1>2, PTL DEF Spec

\* A caller of WaitGet sleeps on a request that is queued or being read, or whose data
\* are there and the worker about to notify all, and the worker is awake: although the
\* notify of SubmitPrefetch wakes one of the threads that share the condition variable,
\* whichever it is (prefetch_scheduler.cpp:32-90).
THEOREM WaitersAreServed == Spec => []WaiterIsServed
<1>1. WaitFacts => WaiterIsServed
  <2> SUFFICES ASSUME WaitFacts, NEW c \in Clients, client[c] = "asleep"
               PROVE  /\ worker \notin {"sleepy", "asleep", "stopped"}
                      /\ \/ Queued(current[c]) \/ reading = current[c]
                         \/ current[c] \in DOMAIN completed_ /\ worker = "notify_all"
    BY DEF WaiterIsServed
  <2>1. worker \notin {"sleepy", "asleep"}
    BY DEF WaitFacts, WaitInv, SleepsAlone
  <2>2. worker # "stopped"
    BY DEF WaitFacts, OwnInv, StopsLast
  <2>3. current[c] \in known[c]
    BY DEF WaitFacts, OwnInv, OnlyOurs
  <2>4. Queued(current[c]) \/ reading = current[c] \/ current[c] \in DOMAIN completed_
    BY <2>3, KnownPlace DEF WaitFacts
  <2> QED
    BY <2>1, <2>2, <2>4 DEF WaitFacts, WaitInv, ToldOfData
<1> QED
  BY <1>1, WaitFactsHold, PTL

\* When the worker sleeps, or is about to, a request is in the queue only if the notify
\* for it is still to come: no other thread can have taken it
\* (prefetch_scheduler.cpp:43-50, 92-98).
THEOREM NoRequestForgotten == Spec => []RequestNotForgotten
<1>1. WaitFacts => RequestNotForgotten
  <2> SUFFICES ASSUME WaitFacts, pending_ # <<>>, worker \in {"sleepy", "asleep"}
               PROVE  \E c \in Clients : client[c] = "notify"
    BY DEF RequestNotForgotten
  <2>1. 1 \in 1..Len(pending_) /\ pending_[1] \in Ids
    <3>1. pending_ \in Seq(Ids)
      BY DEF WaitFacts, PlacesInv, TypesInv, TypeOK
    <3> QED
      BY <3>1
  <2>2. Queued(pending_[1])
    BY <2>1 DEF Queued
  <2> QED
    BY <2>1, <2>2 DEF WaitFacts, WaitInv, SleepsAlone
<1> QED
  BY <1>1, WaitFactsHold, PTL
=============================================================================
