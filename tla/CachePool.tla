----------------------------- MODULE CachePool -----------------------------
(***************************************************************************)
(* The user-space cache (cache/cache_pool.cpp) and the backend that puts   *)
(* it in front of a file (io/cached_io.cpp).  Threads have a backend each  *)
(* and share one pool, which is guarded by a reader-writer lock: a section *)
(* under the exclusive lock is one step, except the loop of evictions; a   *)
(* lookup that hits is two, because access_count is incremented under the  *)
(* shared lock only and two threads may read the same old value.           *)
(*                                                                         *)
(* A block is a file and an offset; its content is the number of the       *)
(* WriteAt that wrote it.  Numbers are scaled: MaxCount stands for 999,    *)
(* HotCount for 5, DecayPeriod for 10000, MemoryMod for 2^64.              *)
(***************************************************************************)
EXTENDS Integers, FiniteSets

CONSTANTS
  Threads, Segments, Offsets,
  Sizes,         \* bytes a ReadAt or a Put may ask for
  Watermark,     \* watermark_
  MaxCount, HotCount, DecayPeriod, MemoryMod,
  MaxWrites,     \* calls of WriteAt
  MaxPuts        \* calls of Put

ASSUME SetsAssumption ==
  IsFiniteSet(Threads) /\ IsFiniteSet(Segments) /\ IsFiniteSet(Offsets)
ASSUME NumbersAssumption ==
  /\ Watermark \in Nat /\ MaxWrites \in Nat /\ MaxPuts \in Nat
  /\ MaxCount \in Nat /\ HotCount \in 0..MaxCount
  /\ DecayPeriod \in Nat \ {0} /\ MemoryMod \in Nat \ {0}
\* The watermark is not within two blocks of the counter's range.
ASSUME SizesAssumption ==
  /\ Sizes \subseteq Nat \ {0}
  /\ \A size1, size2 \in Sizes : Watermark + size1 + size2 < MemoryMod

VARIABLES
  cache_,            \* block -> [version, size, access_count, is_metadata]
  current_memory,    \* stats_.current_memory
  access_epoch_,     \* modulo DecayPeriod
  disk,              \* block -> version in the file
  writes, puts,      \* WriteAt and Put calls so far
  pc, req, buf,      \* per thread: where it is, its call, the bytes it holds
  floor,             \* history: what was on disk when its ReadAt began
  raced,             \* history: a WriteAt and another call have overlapped
  resized            \* history: a Put has given an entry another size

poolVars == <<cache_, current_memory, access_epoch_>>
putVars == <<puts, resized>>
vars == <<poolVars, disk, writes, pc, req, buf, floor, raced, putVars>>

Keys == Segments \X Offsets
NoRequest == [key |-> <<>>, size |-> 0, meta |-> FALSE]

Init ==
  /\ cache_ = <<>> /\ current_memory = 0 /\ access_epoch_ = 0
  /\ disk = [k \in Keys |-> 0] /\ writes = 0
  /\ pc = [t \in Threads |-> "idle"]
  /\ req = [t \in Threads |-> NoRequest]
  /\ buf = [t \in Threads |-> 0]
  /\ floor = [t \in Threads |-> 0]
  /\ raced = FALSE
  /\ puts = 0 /\ resized = FALSE

Goto(t, from, to) == pc[t] = from /\ pc' = [pc EXCEPT ![t] = to]

WriteUnderWay == \E s \in Threads : pc[s] = "write"

\* A call returns: nothing of it is left.
Return(t) ==
  /\ req' = [req EXCEPT ![t] = NoRequest]
  /\ buf' = [buf EXCEPT ![t] = 0]
  /\ floor' = [floor EXCEPT ![t] = 0]

\* What lock() and lock_shared() wait for.
NoneExclusive == \A t \in Threads : pc[t] \notin {"evict", "insert"}
NoneInside == \A t \in Threads : pc[t] \notin {"evict", "insert", "count"}

Cached(k) == k \in DOMAIN cache_
Entry(v, size, meta) ==
  [version |-> v, size |-> size, access_count |-> 0, is_metadata |-> meta]

\* The memory that the entries of K take: a unit for each of their bytes.
MemoryOf(K) == Cardinality(UNION {{k} \X (1..cache_[k].size) : k \in K})

\* current + size
WithNew(size) == (current_memory + size) % MemoryMod

\* cache_[key] = entry, and the memory it takes.
Insert(k, e) ==
  /\ cache_' = [j \in DOMAIN cache_ \cup {k} |-> IF j = k THEN e ELSE cache_[j]]
  /\ current_memory' = WithNew(e.size)

EraseAll(K) ==
  /\ cache_' = [j \in DOMAIN cache_ \ K |-> cache_[j]]
  /\ current_memory' = (current_memory - MemoryOf(K)) % MemoryMod

-----------------------------------------------------------------------------
(***************************************************************************)
(* CachedIOBackend::ReadAt.                                                *)
(***************************************************************************)

CallReadAt(t) ==
  /\ Goto(t, "idle", "get")
  /\ \E k \in Keys, size \in Sizes :
       /\ req' = [req EXCEPT ![t] = [key |-> k, size |-> size, meta |-> FALSE]]
       /\ floor' = [floor EXCEPT ![t] = disk[k]]
  /\ raced' = (raced \/ WriteUnderWay)
  /\ UNCHANGED <<poolVars, disk, writes, buf>>

\* The entry is there and long enough: the bytes are copied out, and the count
\* is read.  The shared lock is kept.
Hit(t) ==
  /\ Goto(t, "get", "count")
  /\ NoneExclusive
  /\ Cached(req[t].key) /\ cache_[req[t].key].size >= req[t].size
  /\ buf' = [buf EXCEPT ![t] = cache_[req[t].key].version]
  /\ UNCHANGED <<poolVars, disk, writes, req, floor, raced>>

\* access_count++ and its cap.  Another thread that read the same old value
\* may undo the increment.
Count(t) ==
  /\ Goto(t, "count", "age")
  /\ \E lost \in BOOLEAN :
       /\ lost => \E s \in Threads \ {t} : pc[s] = "count" /\ req[s].key = req[t].key
       /\ ~lost => cache_' = [cache_ EXCEPT ![req[t].key].access_count =
                                IF @ < MaxCount THEN @ + 1 ELSE MaxCount]
       /\ lost => UNCHANGED cache_
  /\ UNCHANGED <<current_memory, access_epoch_, disk, writes, req, buf, floor, raced>>

\* access_epoch_.fetch_add(1) % 10000 == 9999
Age(t) ==
  /\ Goto(t, "age", IF access_epoch_ = DecayPeriod - 1 THEN "decay" ELSE "idle")
  /\ access_epoch_' = (access_epoch_ + 1) % DecayPeriod
  /\ IF pc'[t] = "idle" THEN Return(t) ELSE UNCHANGED <<req, buf, floor>>
  /\ UNCHANGED <<cache_, current_memory, disk, writes, raced>>

DecayAll(t) ==
  /\ Goto(t, "decay", "idle")
  /\ NoneInside
  /\ cache_' = [k \in DOMAIN cache_ |->
                  [cache_[k] EXCEPT !.access_count = @ \div 2]]
  /\ Return(t)
  /\ UNCHANGED <<current_memory, access_epoch_, disk, writes, raced>>

\* No entry, or one that is too short.
Miss(t) ==
  /\ Goto(t, "get", "disk")
  /\ NoneExclusive
  /\ Cached(req[t].key) => cache_[req[t].key].size < req[t].size
  /\ UNCHANGED <<poolVars, disk, writes, req, buf, floor, raced>>

ReadDisk(t) ==
  /\ Goto(t, "disk", "room")
  /\ buf' = [buf EXCEPT ![t] = disk[req[t].key]]
  /\ UNCHANGED <<poolVars, disk, writes, req, floor, raced>>

ReadDiskFails(t) ==
  /\ Goto(t, "disk", "idle")
  /\ Return(t)
  /\ UNCHANGED <<poolVars, disk, writes, raced>>

\* HasRoom, read without a lock.
HasRoom(t) ==
  /\ Goto(t, "room", IF current_memory < (Watermark * 9) \div 10
                     THEN "backfill" ELSE "idle")
  /\ IF pc'[t] = "idle" THEN Return(t) ELSE UNCHANGED <<req, buf, floor>>
  /\ UNCHANGED <<poolVars, disk, writes, raced>>

\* Mutant: HasRoom is trusted, the room is not checked again under the lock.
PutIfRoomUnchecked(t) ==
  /\ Goto(t, "backfill", "idle")
  /\ NoneInside
  /\ IF ~Cached(req[t].key)
     THEN Insert(req[t].key, Entry(buf[t], req[t].size, FALSE))
     ELSE UNCHANGED <<cache_, current_memory>>
  /\ Return(t)
  /\ UNCHANGED <<access_epoch_, disk, writes, raced>>

\* A block that is already cached, even as a shorter entry, stays as it is.
PutIfRoom(t) ==
  /\ Goto(t, "backfill", "idle")
  /\ NoneInside
  /\ IF WithNew(req[t].size) <= Watermark /\ ~Cached(req[t].key)
     THEN Insert(req[t].key, Entry(buf[t], req[t].size, FALSE))
     ELSE UNCHANGED <<cache_, current_memory>>
  /\ Return(t)
  /\ UNCHANGED <<access_epoch_, disk, writes, raced>>

ReadAt(t) ==
  /\ \/ CallReadAt(t) \/ Hit(t) \/ Count(t) \/ Age(t) \/ DecayAll(t) \/ Miss(t)
     \/ ReadDisk(t) \/ ReadDiskFails(t) \/ HasRoom(t) \/ PutIfRoom(t)
  /\ UNCHANGED putVars

-----------------------------------------------------------------------------
(***************************************************************************)
(* CachedIOBackend::WriteAt: the file's entries go first, then it is       *)
(* written.                                                                *)
(***************************************************************************)

\* Mutant: the entries stay.
InvalidateNothing(t) ==
  /\ Goto(t, "idle", "write")
  /\ NoneInside
  /\ writes < MaxWrites
  /\ writes' = writes + 1
  /\ \E k \in Keys : req' = [req EXCEPT ![t] = [NoRequest EXCEPT !.key = k]]
  /\ raced' = (raced \/ \E s \in Threads : pc[s] # "idle")
  /\ UNCHANGED <<poolVars, disk, buf, floor>>

InvalidateSegment(t) ==
  /\ Goto(t, "idle", "write")
  /\ NoneInside
  /\ writes < MaxWrites
  /\ writes' = writes + 1
  /\ \E k \in Keys :
       /\ req' = [req EXCEPT ![t] = [NoRequest EXCEPT !.key = k]]
       /\ EraseAll({j \in DOMAIN cache_ : j[1] = k[1]})
  /\ raced' = (raced \/ \E s \in Threads : pc[s] # "idle")
  /\ UNCHANGED <<access_epoch_, disk, buf, floor>>

WriteDisk(t) ==
  /\ Goto(t, "write", "idle")
  /\ disk' \in {disk, [disk EXCEPT ![req[t].key] = writes]}
  /\ Return(t)
  /\ UNCHANGED <<poolVars, writes, raced>>

-----------------------------------------------------------------------------
(***************************************************************************)
(* CachePool::Put, with the block as it is on disk.                        *)
(***************************************************************************)

\* An existing entry gets the new bytes; its memory is not counted again.
PutExisting(t) ==
  /\ pc[t] = "idle" /\ NoneInside
  /\ puts < MaxPuts /\ puts' = puts + 1
  /\ \E k \in DOMAIN cache_, size \in Sizes :
       /\ cache_' = [cache_ EXCEPT ![k].version = disk[k], ![k].size = size]
       /\ resized' = (resized \/ cache_[k].size # size)
  /\ raced' = (raced \/ WriteUnderWay)
  /\ UNCHANGED <<current_memory, access_epoch_, disk, writes, pc, req, buf, floor>>

PutNew(t) ==
  /\ NoneInside
  /\ puts < MaxPuts /\ puts' = puts + 1
  /\ \E k \in Keys \ DOMAIN cache_, size \in Sizes, meta \in BOOLEAN :
       /\ req' = [req EXCEPT ![t] = [key |-> k, size |-> size, meta |-> meta]]
       /\ buf' = [buf EXCEPT ![t] = disk[k]]
       /\ Goto(t, "idle", IF WithNew(size) > Watermark THEN "evict" ELSE "insert")
  /\ raced' = (raced \/ WriteUnderWay)
  /\ UNCHANGED <<poolVars, disk, writes, floor, resized>>

\* Mutant: the counts are not capped where the weight is made.
UncappedWeight(e) ==
  (IF e.is_metadata THEN 3 ELSE IF e.access_count >= HotCount THEN 2 ELSE 1)
    * HotCount + e.access_count

ComputeWeight(e) ==
  (IF e.is_metadata THEN 3 ELSE IF e.access_count >= HotCount THEN 2 ELSE 1)
    * (MaxCount + 1) + e.access_count

EvictLoopGoesOn == current_memory > Watermark /\ DOMAIN cache_ # {}

\* Mutant: the memory of the evicted entry is not given back.
EvictOneUncounted(t) ==
  /\ pc[t] = "evict" /\ EvictLoopGoesOn
  /\ \E k \in DOMAIN cache_ :
       /\ \A j \in DOMAIN cache_ : ComputeWeight(cache_[k]) <= ComputeWeight(cache_[j])
       /\ cache_' = [j \in DOMAIN cache_ \ {k} |-> cache_[j]]
  /\ UNCHANGED <<current_memory, access_epoch_, disk, writes, pc, req, buf, floor,
                 raced, putVars>>

\* One round of EvictToWatermark, under the exclusive lock.
EvictOne(t) ==
  /\ pc[t] = "evict" /\ EvictLoopGoesOn
  /\ \E k \in DOMAIN cache_ :
       /\ \A j \in DOMAIN cache_ : ComputeWeight(cache_[k]) <= ComputeWeight(cache_[j])
       /\ EraseAll({k})
  /\ UNCHANGED <<access_epoch_, disk, writes, pc, req, buf, floor, raced, putVars>>

\* Mutant: nothing is evicted before the entry goes in.
PutInsertUnevicted(t) ==
  /\ pc[t] \in {"evict", "insert"}
  /\ pc' = [pc EXCEPT ![t] = "idle"]
  /\ Insert(req[t].key, Entry(buf[t], req[t].size, req[t].meta))
  /\ Return(t)
  /\ UNCHANGED <<access_epoch_, disk, writes, raced, putVars>>

PutInsert(t) ==
  /\ pc[t] = "insert" \/ (pc[t] = "evict" /\ ~EvictLoopGoesOn)
  /\ pc' = [pc EXCEPT ![t] = "idle"]
  /\ Insert(req[t].key, Entry(buf[t], req[t].size, req[t].meta))
  /\ Return(t)
  /\ UNCHANGED <<access_epoch_, disk, writes, raced, putVars>>

WriteAt(t) == (InvalidateSegment(t) \/ WriteDisk(t)) /\ UNCHANGED putVars

Next == \E t \in Threads :
  \/ ReadAt(t) \/ WriteAt(t)
  \/ PutExisting(t) \/ PutNew(t) \/ EvictOne(t) \/ PutInsert(t)

Spec == Init /\ [][Next]_vars

-----------------------------------------------------------------------------
\* Every variable stays within its type; the counts stay below the step between
\* two priorities, whatever increments are lost.
TypeOK ==
  /\ DOMAIN cache_ \subseteq Keys
  /\ \A k \in DOMAIN cache_ :
       cache_[k] \in [version : 0..MaxWrites, size : Sizes,
                      access_count : 0..MaxCount, is_metadata : BOOLEAN]
  /\ current_memory \in 0..MemoryMod - 1 /\ access_epoch_ \in 0..DecayPeriod - 1
  /\ disk \in [Keys -> 0..MaxWrites] /\ writes \in 0..MaxWrites
  /\ pc \in [Threads -> {"idle", "get", "count", "age", "decay", "disk", "room",
                         "backfill", "write", "evict", "insert"}]
  /\ req \in [Threads -> [key : Keys \cup {<<>>}, size : Sizes \cup {0}, meta : BOOLEAN]]
  /\ buf \in [Threads -> 0..MaxWrites] /\ floor \in [Threads -> 0..MaxWrites]
  /\ raced \in BOOLEAN /\ resized \in BOOLEAN /\ puts \in 0..MaxPuts

\* The counter is the memory the entries take, whatever was inserted,
\* invalidated and evicted in whatever order (cache_pool.cpp:67, 95, 105, 141),
\* as long as no Put gives an entry another size (cache_pool.cpp:48-51).
MemoryIsSum == ~resized => current_memory = MemoryOf(DOMAIN cache_)

\* Threads that passed HasRoom together do not overfill the pool: PutIfRoom
\* checks again under the lock (cache_pool.h:43, cache_pool.cpp:78-81).
BackfillKeepsWatermark ==
  [][(\E t \in Threads : pc[t] = "backfill" /\ pc'[t] = "idle")
       => current_memory' \in 0..Watermark \cup {current_memory}]_vars

\* Put overshoots the watermark by at most the entry it inserts: it evicts until
\* the memory is within the watermark, then inserts (cache_pool.cpp:54-69).
OvershootOneEntry ==
  ~resized => \/ current_memory <= Watermark
              \/ \E size \in Sizes : current_memory <= Watermark + size

HoldsData(t) == pc[t] \in {"count", "age", "decay", "room", "backfill"}
ReadsCurrent == \A t \in Threads : HoldsData(t) => buf[t] >= floor[t]

\* As long as no WriteAt overlaps another call, a ReadAt never hands out what was
\* on disk before it began: the entries of a file go before it is written
\* (cached_io.cpp:41-46).
ReadsCurrentUnlessRaced == ~raced => ReadsCurrent

\* An eviction takes a metadata entry only when nothing else is left, however
\* often the others were read since the last decay (cache_pool.cpp:113-121).
MetadataEvictedLast ==
  [][\A t \in Threads : pc[t] = "evict" =>
       \A k \in DOMAIN cache_ \ DOMAIN cache_' :
         cache_[k].is_metadata => \A j \in DOMAIN cache_ : cache_[j].is_metadata]_vars

=============================================================================
