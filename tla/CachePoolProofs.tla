--------------------------- MODULE CachePoolProofs ---------------------------
(***************************************************************************)
(* Theorems about CachePool, for any threads, files, sizes and limits.     *)
(*                                                                         *)
(* The lock is not a variable of the model: what it protects has to be     *)
(* said of the threads.  LockInv is mutual exclusion (a Put that evicts is *)
(* alone, and the entry that a lookup counts stays), and that the block a  *)
(* Put has found missing is missing until it is in.  MemoryInv is the      *)
(* accounting; it needs OvershootOneEntry, because the unsigned counter is *)
(* right only as long as no sum leaves its range.  FreshInv says that      *)
(* without a race every entry and every buffer is what is on disk, and     *)
(* that a writer is alone with no entry of its file left.                  *)
(***************************************************************************)
EXTENDS CachePool, FiniteSetTheorems, TLAPS

Exclusive == {"evict", "insert"}
Reading == {"get", "count", "age", "decay", "disk", "room", "backfill"}
Holding == {"count", "age", "decay", "room", "backfill"} \cup Exclusive

\* A call that has begun is about a block.
CallsInv == \A t \in Threads :
  /\ pc[t] \in Reading \cup Exclusive \cup {"write"} => req[t].key \in Keys
  /\ pc[t] \in Reading \cup Exclusive => req[t].size \in Sizes

LockInv ==
  /\ \A t \in Threads : pc[t] \in Exclusive =>
       /\ ~Cached(req[t].key)
       /\ \A s \in Threads \ {t} : pc[s] \notin Exclusive \cup {"count"}
  /\ \A t \in Threads : pc[t] = "count" => Cached(req[t].key)

Entries == [version : 0..MaxWrites, size : Sizes,
            access_count : 0..MaxCount, is_metadata : BOOLEAN]
Requests == [key : Keys \cup {<<>>}, size : Sizes \cup {0}, meta : BOOLEAN]

\* TypeOK in four parts.
CacheTypes == DOMAIN cache_ \subseteq Keys /\ \A k \in DOMAIN cache_ : cache_[k] \in Entries
NumberTypes ==
  current_memory \in 0..MemoryMod - 1 /\ access_epoch_ \in 0..DecayPeriod - 1
DiskTypes ==
  /\ disk \in [Keys -> 0..MaxWrites] /\ writes \in 0..MaxWrites /\ puts \in 0..MaxPuts
  /\ raced \in BOOLEAN /\ resized \in BOOLEAN
ThreadTypes ==
  /\ pc \in [Threads -> {"idle", "get", "count", "age", "decay", "disk", "room",
                         "backfill", "write", "evict", "insert"}]
  /\ req \in [Threads -> Requests]
  /\ buf \in [Threads -> 0..MaxWrites] /\ floor \in [Threads -> 0..MaxWrites]

AccessInv == CacheTypes /\ NumberTypes /\ DiskTypes /\ ThreadTypes /\ CallsInv /\ LockInv

MemoryInv ==
  /\ MemoryIsSum
  /\ OvershootOneEntry
  /\ \A t \in Threads : pc[t] = "insert" => WithNew(req[t].size) <= Watermark

CacheFresh == \A k \in DOMAIN cache_ : cache_[k].version = disk[k]
BuffersFresh == \A t \in Threads : pc[t] \in Holding => buf[t] = disk[req[t].key]
FloorsFresh == \A t \in Threads : pc[t] \in Reading => floor[t] = disk[req[t].key]
WriterAlone == \A t \in Threads : pc[t] = "write" =>
  /\ \A s \in Threads \ {t} : pc[s] = "idle"
  /\ \A k \in DOMAIN cache_ : k[1] # req[t].key[1]

FreshInv == ~raced => CacheFresh /\ BuffersFresh /\ FloorsFresh /\ WriterAlone

-----------------------------------------------------------------------------
LEMMA ModRange ==
  ASSUME NEW a \in Int, NEW m \in Nat \ {0}
  PROVE  /\ a % m \in 0..m - 1
         /\ a \in 0..m - 1 => a % m = a
  OBVIOUS

\* The bytes of the entries of K, as MemoryOf counts them.
BytesOf(f, K) == UNION {{k} \X (1..f[k].size) : k \in K}

LEMMA BytesFinite ==
  ASSUME NEW f, NEW K \in SUBSET Keys, \A k \in K : f[k].size \in Sizes
  PROVE  IsFiniteSet(BytesOf(f, K)) /\ Cardinality(BytesOf(f, K)) \in Nat
<1>1. IsFiniteSet(Keys)
  BY SetsAssumption, FS_Product DEF Keys, SetsAssumption
<1>2. IsFiniteSet(1..MemoryMod)
  <2>1. 1 \in Int /\ MemoryMod \in Int
    BY NumbersAssumption DEF NumbersAssumption
  <2> QED
    BY <2>1, FS_Interval
<1>3. IsFiniteSet(Keys \X (1..MemoryMod))
  BY <1>1, <1>2, FS_Product
<1>4. \A size \in Sizes : size \in Nat /\ size <= MemoryMod
  BY SizesAssumption, NumbersAssumption DEF SizesAssumption, NumbersAssumption
<1>5. BytesOf(f, K) \in SUBSET (Keys \X (1..MemoryMod))
  <2> SUFFICES ASSUME NEW k \in K, NEW b \in {k} \X (1..f[k].size)
               PROVE  b \in Keys \X (1..MemoryMod)
    BY DEF BytesOf
  <2>1. b = <<b[1], b[2]>> /\ b[1] = k /\ b[2] \in 1..f[k].size
    OBVIOUS
  <2>2. b[2] \in 1..MemoryMod
    BY <2>1, <1>4, NumbersAssumption DEF NumbersAssumption
  <2> QED
    BY <2>1, <2>2
<1>6. IsFiniteSet(BytesOf(f, K))
  BY <1>3, <1>5, FS_Subset
<1> QED
  BY <1>6, FS_CardinalityType

LEMMA BytesOfOne ==
  ASSUME NEW f, NEW k, NEW n \in Nat, f[k].size = n
  PROVE  Cardinality(BytesOf(f, {k})) = n
<1>1. BytesOf(f, {k}) = {k} \X (1..n)
  BY DEF BytesOf
<1>2. 1 \in Int /\ n \in Int
  OBVIOUS
<1>3. IsFiniteSet(1..n) /\ Cardinality(1..n) = n
  BY <1>2, FS_Interval
<1>4. IsFiniteSet({k}) /\ Cardinality({k}) = 1
  BY FS_Singleton
<1>5. Cardinality({k} \X (1..n)) = Cardinality({k}) * Cardinality(1..n)
  BY <1>3, <1>4, FS_Product
<1>6. 1 * n = n
  OBVIOUS
<1> QED
  BY <1>1, <1>3, <1>4, <1>5, <1>6

\* Memory is additive over disjoint sets of entries.
LEMMA BytesAdd ==
  ASSUME NEW f, NEW K \in SUBSET Keys, NEW L \in SUBSET Keys, K \cap L = {},
         \A k \in K \cup L : f[k].size \in Sizes
  PROVE  Cardinality(BytesOf(f, K \cup L)) =
           Cardinality(BytesOf(f, K)) + Cardinality(BytesOf(f, L))
<1>1. BytesOf(f, K \cup L) = BytesOf(f, K) \cup BytesOf(f, L)
  BY DEF BytesOf
<1>2. BytesOf(f, K) \cap BytesOf(f, L) = {}
  <2> SUFFICES ASSUME NEW b \in BytesOf(f, K), b \in BytesOf(f, L) PROVE FALSE
    OBVIOUS
  <2>1. b[1] \in K /\ b[1] \in L
    BY DEF BytesOf
  <2> QED
    BY <2>1
<1>3. /\ IsFiniteSet(BytesOf(f, K)) /\ Cardinality(BytesOf(f, K)) \in Nat
      /\ IsFiniteSet(BytesOf(f, L)) /\ Cardinality(BytesOf(f, L)) \in Nat
  BY BytesFinite
<1>4. Cardinality(BytesOf(f, K) \cap BytesOf(f, L)) = 0
  BY <1>2, FS_EmptySet
<1>5. Cardinality(BytesOf(f, K) \cup BytesOf(f, L)) =
        Cardinality(BytesOf(f, K)) + Cardinality(BytesOf(f, L))
          - Cardinality(BytesOf(f, K) \cap BytesOf(f, L))
  BY <1>3, FS_Union
<1>6. \A a, b \in Nat : a + b - 0 = a + b
  OBVIOUS
<1> QED
  BY <1>1, <1>3, <1>4, <1>5, <1>6

\* Only the sizes count.
LEMMA BytesSame ==
  ASSUME NEW f, NEW g, NEW K, \A k \in K : f[k].size = g[k].size
  PROVE  BytesOf(f, K) = BytesOf(g, K)
  BY DEF BytesOf

-----------------------------------------------------------------------------
LEMMA TypesMeanTypeOK == CacheTypes /\ NumberTypes /\ DiskTypes /\ ThreadTypes => TypeOK
  BY DEF CacheTypes, NumberTypes, DiskTypes, ThreadTypes, TypeOK, Entries, Requests

LEMMA InitAccess == Init => AccessInv
<1> SUFFICES ASSUME Init PROVE AccessInv
  OBVIOUS
<1>1. /\ 0 \in 0..MemoryMod - 1 /\ 0 \in 0..DecayPeriod - 1
      /\ 0 \in 0..MaxWrites /\ 0 \in 0..MaxPuts
  BY NumbersAssumption DEF NumbersAssumption
<1>2. NoRequest \in Requests
  BY DEF NoRequest, Requests
<1>3. DOMAIN cache_ = {}
  BY DEF Init
<1> QED
  BY <1>1, <1>2, <1>3 DEF Init, AccessInv, CacheTypes, NumberTypes, DiskTypes, ThreadTypes,
                          CallsInv, LockInv, Reading, Exclusive

LEMMA ZeroFits == NoRequest \in Requests /\ 0 \in 0..MaxWrites /\ 0 \in 0..MaxCount
  BY NumbersAssumption DEF NumbersAssumption, NoRequest, Requests

LEMMA WithNewRange ==
  ASSUME NumberTypes, NEW size \in Sizes
  PROVE  WithNew(size) \in 0..MemoryMod - 1
<1>1. current_memory + size \in Int /\ MemoryMod \in Nat \ {0}
  BY NumbersAssumption, SizesAssumption DEF NumbersAssumption, SizesAssumption, NumberTypes
<1> QED
  BY <1>1, ModRange DEF WithNew

\* The memory of some of the entries.
LEMMA MemoryFinite ==
  ASSUME CacheTypes, NEW K \in SUBSET DOMAIN cache_
  PROVE  MemoryOf(K) \in Nat
<1>1. K \in SUBSET Keys /\ \A k \in K : cache_[k].size \in Sizes
  BY DEF CacheTypes, Entries
<1>2. MemoryOf(K) = Cardinality(BytesOf(cache_, K))
  BY DEF MemoryOf, BytesOf
<1> QED
  BY <1>1, <1>2, BytesFinite

LEMMA EraseRange ==
  ASSUME CacheTypes, NumberTypes, NEW K, K \subseteq DOMAIN cache_, EraseAll(K)
  PROVE  current_memory' \in 0..MemoryMod - 1
<1>1. MemoryOf(K) \in Nat
  BY MemoryFinite
<1>2. current_memory - MemoryOf(K) \in Int /\ MemoryMod \in Nat \ {0}
  BY <1>1, NumbersAssumption DEF NumbersAssumption, NumberTypes
<1> QED
  BY <1>2, ModRange DEF EraseAll

LEMMA StepAccess == AccessInv /\ [Next]_vars => AccessInv'
<1> SUFFICES ASSUME AccessInv, [Next]_vars PROVE AccessInv'
  OBVIOUS
<1> USE DEF AccessInv, Goto, Return, NoRequest, Cached, poolVars, putVars, Reading, Exclusive
<1>1. ASSUME NEW t \in Threads, CallReadAt(t), UNCHANGED putVars PROVE AccessInv'
  <2>1. PICK k \in Keys, size \in Sizes :
          /\ req' = [req EXCEPT ![t] = [key |-> k, size |-> size, meta |-> FALSE]]
          /\ floor' = [floor EXCEPT ![t] = disk[k]]
    BY <1>1 DEF CallReadAt
  <2>2. pc' = [pc EXCEPT ![t] = "get"] /\ UNCHANGED <<cache_, buf>>
    BY <1>1 DEF CallReadAt
  <2>10. CacheTypes'
    BY <1>1 DEF CallReadAt, CacheTypes
  <2>11. NumberTypes'
    BY <1>1 DEF CallReadAt, NumberTypes
  <2>12. DiskTypes'
    BY <1>1, <2>1 DEF CallReadAt, DiskTypes, WriteUnderWay
  <2>13. ThreadTypes'
    <3>1. [key |-> k, size |-> size, meta |-> FALSE] \in Requests /\ disk[k] \in 0..MaxWrites
      BY DEF Requests, DiskTypes
    <3> QED
      BY <2>1, <2>2, <3>1 DEF ThreadTypes
  <2>14. CallsInv'
    BY <2>1, <2>2 DEF ThreadTypes, CallsInv
  <2>15. LockInv'
    BY <2>1, <2>2 DEF ThreadTypes, LockInv
  <2> QED
    BY <2>10, <2>11, <2>12, <2>13, <2>14, <2>15
<1>2. ASSUME NEW t \in Threads, Hit(t), UNCHANGED putVars PROVE AccessInv'
  <2>1. /\ NoneExclusive /\ req[t].key \in DOMAIN cache_ /\ UNCHANGED <<cache_, req, floor>>
        /\ pc' = [pc EXCEPT ![t] = "count"] /\ pc[t] = "get"
        /\ buf' = [buf EXCEPT ![t] = cache_[req[t].key].version]
    BY <1>2 DEF Hit
  <2>10. CacheTypes'
    BY <1>2 DEF Hit, CacheTypes
  <2>11. NumberTypes'
    BY <1>2 DEF Hit, NumberTypes
  <2>12. DiskTypes'
    BY <1>2 DEF Hit, DiskTypes
  <2>13. ThreadTypes'
    <3>1. cache_[req[t].key].version \in 0..MaxWrites
      BY <2>1 DEF CacheTypes, Entries
    <3> QED
      BY <2>1, <3>1 DEF ThreadTypes
  <2>14. CallsInv'
    BY <2>1 DEF ThreadTypes, CallsInv
  <2>15. LockInv'
    BY <2>1 DEF ThreadTypes, LockInv, NoneExclusive
  <2> QED
    BY <2>10, <2>11, <2>12, <2>13, <2>14, <2>15
<1>3. ASSUME NEW t \in Threads, Count(t), UNCHANGED putVars PROVE AccessInv'
  <2>1. DOMAIN cache_' = DOMAIN cache_
    BY <1>3 DEF Count
  <2>10. CacheTypes'
    <3>1. PICK lost \in BOOLEAN :
            /\ ~lost => cache_' = [cache_ EXCEPT ![req[t].key].access_count =
                                     IF @ < MaxCount THEN @ + 1 ELSE MaxCount]
            /\ lost => UNCHANGED cache_
      BY <1>3 DEF Count
    <3>2. CASE lost
      BY <3>1, <3>2 DEF CacheTypes
    <3>3. CASE ~lost
      <4> SUFFICES ASSUME NEW k \in DOMAIN cache_ PROVE cache_'[k] \in Entries
        BY <2>1 DEF CacheTypes
      <4> DEFINE next == IF cache_[k].access_count < MaxCount
                         THEN cache_[k].access_count + 1 ELSE MaxCount
      <4>1. cache_[k] \in Entries
        BY DEF CacheTypes
      <4>2. next \in 0..MaxCount
        BY <4>1, NumbersAssumption DEF Entries, NumbersAssumption
      <4>3. \/ cache_'[k] = cache_[k]
            \/ cache_'[k] = [cache_[k] EXCEPT !.access_count = next]
        BY <3>1, <3>3
      <4> HIDE DEF next
      <4> QED
        BY <4>1, <4>2, <4>3 DEF Entries
    <3> QED
      BY <3>2, <3>3
  <2>11. NumberTypes'
    BY <1>3 DEF Count, NumberTypes
  <2>12. DiskTypes'
    BY <1>3 DEF Count, DiskTypes
  <2>13. ThreadTypes'
    BY <1>3, ZeroFits DEF Count, ThreadTypes
  <2>14. CallsInv'
    BY <1>3 DEF Count, ThreadTypes, CallsInv
  <2>15. LockInv'
    BY <1>3 DEF Count, ThreadTypes, LockInv
  <2> QED
    BY <2>10, <2>11, <2>12, <2>13, <2>14, <2>15
<1>4. ASSUME NEW t \in Threads, Age(t), UNCHANGED putVars PROVE AccessInv'
  <2>1. \/ pc' = [pc EXCEPT ![t] = "decay"] /\ UNCHANGED <<req, buf, floor>>
        \/ pc' = [pc EXCEPT ![t] = "idle"] /\ Return(t)
    BY <1>4 DEF Age, ThreadTypes
  <2>10. CacheTypes'
    BY <1>4 DEF Age, CacheTypes
  <2>11. NumberTypes'
    BY <1>4, ModRange, NumbersAssumption DEF Age, NumberTypes, NumbersAssumption
  <2>12. DiskTypes'
    BY <1>4 DEF Age, DiskTypes
  <2>13. ThreadTypes'
    BY <2>1, ZeroFits DEF ThreadTypes
  <2>14. CallsInv'
    BY <1>4, <2>1 DEF Age, ThreadTypes, CallsInv
  <2>15. LockInv'
    BY <1>4, <2>1 DEF Age, ThreadTypes, LockInv
  <2> QED
    BY <2>10, <2>11, <2>12, <2>13, <2>14, <2>15
<1>5. ASSUME NEW t \in Threads, DecayAll(t), UNCHANGED putVars PROVE AccessInv'
  <2>1. DOMAIN cache_' = DOMAIN cache_
    BY <1>5 DEF DecayAll
  <2>10. CacheTypes'
    <3> SUFFICES ASSUME NEW k \in DOMAIN cache_ PROVE cache_'[k] \in Entries
      BY <2>1 DEF CacheTypes
    <3>1. cache_'[k] = [cache_[k] EXCEPT !.access_count = @ \div 2]
      BY <1>5 DEF DecayAll
    <3>2. cache_[k] \in Entries
      BY DEF CacheTypes
    <3>3. cache_[k].access_count \div 2 \in 0..MaxCount
      BY <3>2, NumbersAssumption DEF Entries, NumbersAssumption
    <3> QED
      BY <3>1, <3>2, <3>3 DEF Entries
  <2>11. NumberTypes'
    BY <1>5 DEF DecayAll, NumberTypes
  <2>12. DiskTypes'
    BY <1>5 DEF DecayAll, DiskTypes
  <2>13. ThreadTypes'
    BY <1>5, ZeroFits DEF DecayAll, ThreadTypes
  <2>14. CallsInv'
    BY <1>5 DEF DecayAll, ThreadTypes, CallsInv
  <2>15. LockInv'
    BY <1>5 DEF DecayAll, ThreadTypes, LockInv
  <2> QED
    BY <2>10, <2>11, <2>12, <2>13, <2>14, <2>15
<1>6. ASSUME NEW t \in Threads, Miss(t), UNCHANGED putVars PROVE AccessInv'
  <2>10. CacheTypes'
    BY <1>6 DEF Miss, CacheTypes
  <2>11. NumberTypes'
    BY <1>6 DEF Miss, NumberTypes
  <2>12. DiskTypes'
    BY <1>6 DEF Miss, DiskTypes
  <2>13. ThreadTypes'
    BY <1>6, ZeroFits DEF Miss, ThreadTypes
  <2>14. CallsInv'
    BY <1>6 DEF Miss, ThreadTypes, CallsInv
  <2>15. LockInv'
    BY <1>6 DEF Miss, ThreadTypes, LockInv, NoneExclusive
  <2> QED
    BY <2>10, <2>11, <2>12, <2>13, <2>14, <2>15
<1>7. ASSUME NEW t \in Threads, ReadDisk(t), UNCHANGED putVars PROVE AccessInv'
  <2>10. CacheTypes'
    BY <1>7 DEF ReadDisk, CacheTypes
  <2>11. NumberTypes'
    BY <1>7 DEF ReadDisk, NumberTypes
  <2>12. DiskTypes'
    BY <1>7 DEF ReadDisk, DiskTypes
  <2>13. ThreadTypes'
    <3>1. req[t].key \in Keys /\ disk[req[t].key] \in 0..MaxWrites
      BY <1>7 DEF ReadDisk, CallsInv, DiskTypes
    <3> QED
      BY <1>7, <3>1 DEF ReadDisk, ThreadTypes
  <2>14. CallsInv'
    BY <1>7 DEF ReadDisk, ThreadTypes, CallsInv
  <2>15. LockInv'
    BY <1>7 DEF ReadDisk, ThreadTypes, LockInv
  <2> QED
    BY <2>10, <2>11, <2>12, <2>13, <2>14, <2>15
<1>8. ASSUME NEW t \in Threads, ReadDiskFails(t), UNCHANGED putVars PROVE AccessInv'
  <2>10. CacheTypes'
    BY <1>8 DEF ReadDiskFails, CacheTypes
  <2>11. NumberTypes'
    BY <1>8 DEF ReadDiskFails, NumberTypes
  <2>12. DiskTypes'
    BY <1>8 DEF ReadDiskFails, DiskTypes
  <2>13. ThreadTypes'
    BY <1>8, ZeroFits DEF ReadDiskFails, ThreadTypes
  <2>14. CallsInv'
    BY <1>8 DEF ReadDiskFails, ThreadTypes, CallsInv
  <2>15. LockInv'
    BY <1>8 DEF ReadDiskFails, ThreadTypes, LockInv
  <2> QED
    BY <2>10, <2>11, <2>12, <2>13, <2>14, <2>15
<1>9. ASSUME NEW t \in Threads, HasRoom(t), UNCHANGED putVars PROVE AccessInv'
  <2>1. \/ pc' = [pc EXCEPT ![t] = "backfill"] /\ UNCHANGED <<req, buf, floor>>
        \/ pc' = [pc EXCEPT ![t] = "idle"] /\ Return(t)
    BY <1>9 DEF HasRoom, ThreadTypes
  <2>10. CacheTypes'
    BY <1>9 DEF HasRoom, CacheTypes
  <2>11. NumberTypes'
    BY <1>9 DEF HasRoom, NumberTypes
  <2>12. DiskTypes'
    BY <1>9 DEF HasRoom, DiskTypes
  <2>13. ThreadTypes'
    BY <2>1, ZeroFits DEF ThreadTypes
  <2>14. CallsInv'
    BY <1>9, <2>1 DEF HasRoom, ThreadTypes, CallsInv
  <2>15. LockInv'
    BY <1>9, <2>1 DEF HasRoom, ThreadTypes, LockInv
  <2> QED
    BY <2>10, <2>11, <2>12, <2>13, <2>14, <2>15
<1>10. ASSUME NEW t \in Threads, PutIfRoom(t), UNCHANGED putVars PROVE AccessInv'
  <2>1. req[t].key \in Keys /\ req[t].size \in Sizes
    BY <1>10 DEF PutIfRoom, CallsInv
  <2>2. Entry(buf[t], req[t].size, FALSE) \in Entries
    BY <2>1, ZeroFits DEF ThreadTypes, Requests, Entries, Entry
  <2>3. NoneInside /\ pc' = [pc EXCEPT ![t] = "idle"] /\ Return(t)
    BY <1>10 DEF PutIfRoom
  <2>10. CacheTypes'
    <3>1. CASE Insert(req[t].key, Entry(buf[t], req[t].size, FALSE))
      BY <2>1, <2>2, <3>1 DEF Insert, CacheTypes
    <3>2. CASE UNCHANGED cache_
      BY <3>2 DEF CacheTypes
    <3> QED
      BY <1>10, <3>1, <3>2 DEF PutIfRoom
  <2>11. NumberTypes'
    <3>1. WithNew(req[t].size) \in 0..MemoryMod - 1
      BY <2>1, WithNewRange
    <3> QED
      BY <1>10, <3>1 DEF PutIfRoom, Insert, Entry, NumberTypes
  <2>12. DiskTypes'
    BY <1>10 DEF PutIfRoom, DiskTypes
  <2>13. ThreadTypes'
    BY <1>10, ZeroFits DEF PutIfRoom, ThreadTypes
  <2>14. CallsInv'
    BY <1>10 DEF PutIfRoom, ThreadTypes, CallsInv
  <2>15. LockInv'
    BY <2>3 DEF ThreadTypes, LockInv, NoneInside
  <2> QED
    BY <2>10, <2>11, <2>12, <2>13, <2>14, <2>15
<1>11. ASSUME NEW t \in Threads, InvalidateSegment(t), UNCHANGED putVars PROVE AccessInv'
  <2>1. PICK k \in Keys :
          /\ req' = [req EXCEPT ![t] = [NoRequest EXCEPT !.key = k]]
          /\ EraseAll({j \in DOMAIN cache_ : j[1] = k[1]})
    BY <1>11 DEF InvalidateSegment
  <2>2. NoneInside /\ pc' = [pc EXCEPT ![t] = "write"] /\ UNCHANGED <<buf, floor>>
    BY <1>11 DEF InvalidateSegment
  <2>10. CacheTypes'
    BY <2>1 DEF EraseAll, CacheTypes
  <2>11. NumberTypes'
    <3>1. {j \in DOMAIN cache_ : j[1] = k[1]} \subseteq DOMAIN cache_
      OBVIOUS
    <3> QED
      BY <1>11, <2>1, <3>1, EraseRange DEF InvalidateSegment, NumberTypes
  <2>12. DiskTypes'
    BY <1>11, NumbersAssumption DEF InvalidateSegment, DiskTypes, NumbersAssumption
  <2>13. ThreadTypes'
    <3>1. [NoRequest EXCEPT !.key = k] \in Requests
      BY DEF Requests
    <3> QED
      BY <2>1, <2>2, <3>1 DEF ThreadTypes
  <2>14. CallsInv'
    BY <2>1, <2>2 DEF ThreadTypes, CallsInv
  <2>15. LockInv'
    BY <2>2 DEF ThreadTypes, LockInv, NoneInside
  <2> QED
    BY <2>10, <2>11, <2>12, <2>13, <2>14, <2>15
<1>12. ASSUME NEW t \in Threads, WriteDisk(t), UNCHANGED putVars PROVE AccessInv'
  <2>1. pc' = [pc EXCEPT ![t] = "idle"] /\ pc[t] = "write" /\ Return(t) /\ UNCHANGED cache_
    BY <1>12 DEF WriteDisk
  <2>10. CacheTypes'
    BY <1>12 DEF WriteDisk, CacheTypes
  <2>11. NumberTypes'
    BY <1>12 DEF WriteDisk, NumberTypes
  <2>12. DiskTypes'
    <3>1. disk' \in [Keys -> 0..MaxWrites]
      BY <1>12 DEF WriteDisk, DiskTypes
    <3> QED
      BY <1>12, <3>1 DEF WriteDisk, DiskTypes
  <2>13. ThreadTypes'
    BY <2>1, ZeroFits DEF ThreadTypes
  <2>14. CallsInv'
    BY <2>1 DEF ThreadTypes, CallsInv
  <2>15. LockInv'
    BY <2>1 DEF ThreadTypes, LockInv
  <2> QED
    BY <2>10, <2>11, <2>12, <2>13, <2>14, <2>15
<1>13. ASSUME NEW t \in Threads, PutExisting(t) PROVE AccessInv'
  <2>1. PICK k \in DOMAIN cache_, size \in Sizes :
          /\ cache_' = [cache_ EXCEPT ![k].version = disk[k], ![k].size = size]
          /\ resized' = (resized \/ cache_[k].size # size)
    BY <1>13 DEF PutExisting
  <2>2. DOMAIN cache_' = DOMAIN cache_ /\ UNCHANGED <<pc, req>>
    BY <1>13, <2>1 DEF PutExisting
  <2>10. CacheTypes'
    <3> SUFFICES ASSUME NEW j \in DOMAIN cache_ PROVE cache_'[j] \in Entries
      BY <2>2 DEF CacheTypes
    <3>1. cache_[j] \in Entries /\ disk[k] \in 0..MaxWrites
      BY DEF CacheTypes, DiskTypes
    <3>2. \/ cache_'[j] = cache_[j]
          \/ cache_'[j] = [cache_[j] EXCEPT !.version = disk[k], !.size = size]
      BY <2>1
    <3> QED
      BY <3>1, <3>2 DEF Entries
  <2>11. NumberTypes'
    BY <1>13 DEF PutExisting, NumberTypes
  <2>12. DiskTypes'
    BY <1>13, <2>1, NumbersAssumption DEF PutExisting, DiskTypes, NumbersAssumption
  <2>13. ThreadTypes'
    BY <1>13, ZeroFits DEF PutExisting, ThreadTypes
  <2>14. CallsInv'
    BY <1>13 DEF PutExisting, ThreadTypes, CallsInv
  <2>15. LockInv'
    BY <2>2 DEF LockInv
  <2> QED
    BY <2>10, <2>11, <2>12, <2>13, <2>14, <2>15
<1>14. ASSUME NEW t \in Threads, PutNew(t) PROVE AccessInv'
  <2>1. PICK k \in Keys \ DOMAIN cache_, size \in Sizes, meta \in BOOLEAN :
          /\ req' = [req EXCEPT ![t] = [key |-> k, size |-> size, meta |-> meta]]
          /\ buf' = [buf EXCEPT ![t] = disk[k]]
          /\ Goto(t, "idle", IF WithNew(size) > Watermark THEN "evict" ELSE "insert")
    BY <1>14 DEF PutNew
  <2>2. \/ pc' = [pc EXCEPT ![t] = "evict"]
        \/ pc' = [pc EXCEPT ![t] = "insert"]
    BY <2>1
  <2>3. NoneInside /\ UNCHANGED <<cache_, floor>>
    BY <1>14 DEF PutNew
  <2>10. CacheTypes'
    BY <1>14 DEF PutNew, CacheTypes
  <2>11. NumberTypes'
    BY <1>14 DEF PutNew, NumberTypes
  <2>12. DiskTypes'
    BY <1>14, NumbersAssumption DEF PutNew, DiskTypes, NumbersAssumption
  <2>13. ThreadTypes'
    <3>1. [key |-> k, size |-> size, meta |-> meta] \in Requests /\ disk[k] \in 0..MaxWrites
      BY DEF Requests, DiskTypes
    <3> QED
      BY <2>1, <2>2, <2>3, <3>1 DEF ThreadTypes
  <2>14. CallsInv'
    BY <2>1, <2>2 DEF ThreadTypes, CallsInv
  <2>15. LockInv'
    BY <2>1, <2>2, <2>3 DEF ThreadTypes, LockInv, NoneInside
  <2> QED
    BY <2>10, <2>11, <2>12, <2>13, <2>14, <2>15
<1>15. ASSUME NEW t \in Threads, EvictOne(t) PROVE AccessInv'
  <2>1. PICK k \in DOMAIN cache_ : EraseAll({k})
    BY <1>15 DEF EvictOne
  <2>2. pc[t] = "evict" /\ UNCHANGED <<pc, req>>
    BY <1>15 DEF EvictOne
  <2>10. CacheTypes'
    BY <2>1 DEF EraseAll, CacheTypes
  <2>11. NumberTypes'
    <3>1. {k} \subseteq DOMAIN cache_
      OBVIOUS
    <3> QED
      BY <1>15, <2>1, <3>1, EraseRange DEF EvictOne, NumberTypes
  <2>12. DiskTypes'
    BY <1>15 DEF EvictOne, DiskTypes
  <2>13. ThreadTypes'
    BY <1>15, ZeroFits DEF EvictOne, ThreadTypes
  <2>14. CallsInv'
    BY <1>15 DEF EvictOne, ThreadTypes, CallsInv
  <2>15. LockInv'
    BY <2>1, <2>2 DEF EraseAll, ThreadTypes, LockInv
  <2> QED
    BY <2>10, <2>11, <2>12, <2>13, <2>14, <2>15
<1>16. ASSUME NEW t \in Threads, PutInsert(t) PROVE AccessInv'
  <2>1. req[t].key \in Keys /\ req[t].size \in Sizes
    BY <1>16 DEF PutInsert, CallsInv
  <2>2. Entry(buf[t], req[t].size, req[t].meta) \in Entries
    BY <2>1, ZeroFits DEF ThreadTypes, Requests, Entries, Entry
  <2>3. pc[t] \in Exclusive /\ pc' = [pc EXCEPT ![t] = "idle"] /\ Return(t)
    BY <1>16 DEF PutInsert
  <2>4. DOMAIN cache_' = DOMAIN cache_ \cup {req[t].key}
    BY <1>16 DEF PutInsert, Insert
  <2>10. CacheTypes'
    BY <1>16, <2>1, <2>2 DEF PutInsert, Insert, CacheTypes
  <2>11. NumberTypes'
    <3>1. WithNew(req[t].size) \in 0..MemoryMod - 1
      BY <2>1, WithNewRange
    <3> QED
      BY <1>16, <3>1 DEF PutInsert, Insert, Entry, NumberTypes
  <2>12. DiskTypes'
    BY <1>16 DEF PutInsert, DiskTypes
  <2>13. ThreadTypes'
    BY <1>16, ZeroFits DEF PutInsert, ThreadTypes
  <2>14. CallsInv'
    BY <1>16 DEF PutInsert, ThreadTypes, CallsInv
  <2>15. LockInv'
    BY <2>3, <2>4 DEF ThreadTypes, LockInv
  <2> QED
    BY <2>10, <2>11, <2>12, <2>13, <2>14, <2>15
<1>17. CASE UNCHANGED vars
  BY <1>17 DEF vars, CacheTypes, NumberTypes, DiskTypes, ThreadTypes, CallsInv, LockInv
<1> HIDE DEF AccessInv
<1> QED
  BY <1>1, <1>2, <1>3, <1>4, <1>5, <1>6, <1>7, <1>8, <1>9, <1>10, <1>11, <1>12, <1>13, <1>14, <1>15, <1>16, <1>17 DEF Next, ReadAt, WriteAt

-----------------------------------------------------------------------------
LEMMA InsertAdds ==
  ASSUME CacheTypes, NEW k \in Keys \ DOMAIN cache_, NEW e \in Entries, Insert(k, e)
  PROVE  MemoryOf(DOMAIN cache_)' = MemoryOf(DOMAIN cache_) + e.size
<1> DEFINE D == DOMAIN cache_
<1>1. /\ DOMAIN cache_' = D \cup {k}
      /\ cache_'[k] = e
      /\ \A j \in D : cache_'[j] = cache_[j]
  BY DEF Insert
<1>2. e.size \in Sizes /\ e.size \in Nat
  BY SizesAssumption DEF SizesAssumption, Entries
<1>3. \A j \in D : cache_[j].size \in Sizes
  BY DEF CacheTypes, Entries
<1>4. D \in SUBSET Keys /\ {k} \in SUBSET Keys /\ D \cap {k} = {}
  BY DEF CacheTypes
<1>5. /\ MemoryOf(DOMAIN cache_)' = Cardinality(BytesOf(cache_', DOMAIN cache_'))
      /\ MemoryOf(DOMAIN cache_) = Cardinality(BytesOf(cache_, D))
  BY DEF MemoryOf, BytesOf
<1>6. \A j \in D \cup {k} : cache_'[j].size \in Sizes
  BY <1>1, <1>2, <1>3
<1> HIDE DEF D
<1>7. Cardinality(BytesOf(cache_', D \cup {k})) =
        Cardinality(BytesOf(cache_', D)) + Cardinality(BytesOf(cache_', {k}))
  BY <1>4, <1>6, BytesAdd
<1>8. BytesOf(cache_', D) = BytesOf(cache_, D)
  BY <1>1, BytesSame
<1>9. Cardinality(BytesOf(cache_', {k})) = e.size
  BY <1>1, <1>2, BytesOfOne
<1> QED
  BY <1>1, <1>5, <1>7, <1>8, <1>9

LEMMA EraseSubtracts ==
  ASSUME CacheTypes, NEW K, K \subseteq DOMAIN cache_, EraseAll(K)
  PROVE  /\ MemoryOf(K) \in Nat
         /\ MemoryOf(DOMAIN cache_)' \in Nat
         /\ MemoryOf(DOMAIN cache_) = MemoryOf(DOMAIN cache_)' + MemoryOf(K)
<1> DEFINE Rest == DOMAIN cache_ \ K
<1>1. DOMAIN cache_' = Rest /\ \A j \in Rest : cache_'[j] = cache_[j]
  BY DEF EraseAll
<1>2. /\ DOMAIN cache_ = Rest \cup K /\ Rest \cap K = {}
      /\ Rest \in SUBSET Keys /\ K \in SUBSET Keys
  BY DEF CacheTypes
<1>3. \A j \in Rest \cup K : cache_[j].size \in Sizes
  BY <1>2 DEF CacheTypes, Entries
<1>4. /\ MemoryOf(DOMAIN cache_)' = Cardinality(BytesOf(cache_', DOMAIN cache_'))
      /\ MemoryOf(DOMAIN cache_) = Cardinality(BytesOf(cache_, DOMAIN cache_))
      /\ MemoryOf(K) = Cardinality(BytesOf(cache_, K))
  BY DEF MemoryOf, BytesOf
<1> HIDE DEF Rest
<1>5. Cardinality(BytesOf(cache_, Rest \cup K)) =
        Cardinality(BytesOf(cache_, Rest)) + Cardinality(BytesOf(cache_, K))
  BY <1>2, <1>3, BytesAdd
<1>6. BytesOf(cache_', Rest) = BytesOf(cache_, Rest)
  BY <1>1, BytesSame
<1>7. Cardinality(BytesOf(cache_, Rest)) \in Nat /\ Cardinality(BytesOf(cache_, K)) \in Nat
  BY <1>2, <1>3, BytesFinite
<1> QED
  BY <1>1, <1>2, <1>4, <1>5, <1>6, <1>7

LEMMA SizesKeepMemory ==
  ASSUME DOMAIN cache_' = DOMAIN cache_,
         \A k \in DOMAIN cache_ : cache_'[k].size = cache_[k].size
  PROVE  MemoryOf(DOMAIN cache_)' = MemoryOf(DOMAIN cache_)
<1>1. /\ MemoryOf(DOMAIN cache_)' = Cardinality(BytesOf(cache_', DOMAIN cache_'))
      /\ MemoryOf(DOMAIN cache_) = Cardinality(BytesOf(cache_, DOMAIN cache_))
  BY DEF MemoryOf, BytesOf
<1> QED
  BY <1>1, BytesSame

\* Within the watermark and one entry, the unsigned sum does not wrap.
LEMMA NoWrap ==
  ASSUME NumberTypes, OvershootOneEntry, ~resized, NEW size \in Sizes
  PROVE  WithNew(size) = current_memory + size
<1>1. /\ current_memory \in Nat /\ Watermark \in Nat /\ MemoryMod \in Nat \ {0}
      /\ \A s \in Sizes : s \in Nat \ {0}
  BY NumbersAssumption, SizesAssumption DEF NumbersAssumption, SizesAssumption, NumberTypes
<1>2. PICK other \in Sizes : current_memory <= Watermark + other
  BY <1>1 DEF OvershootOneEntry
<1>3. Watermark + other + size < MemoryMod
  BY SizesAssumption DEF SizesAssumption
<1>4. current_memory + size \in 0..MemoryMod - 1
  BY <1>1, <1>2, <1>3
<1>5. current_memory + size \in Int
  BY <1>1
<1>6. (current_memory + size) % MemoryMod = current_memory + size
  BY <1>1, <1>4, <1>5, ModRange
<1> QED
  BY <1>6 DEF WithNew

\* A step that changes no size, and brings no Put to its insertion.
LEMMA KeepsMemory ==
  ASSUME MemoryInv, UNCHANGED <<current_memory, resized>>,
         MemoryOf(DOMAIN cache_)' = MemoryOf(DOMAIN cache_),
         \A s \in Threads : pc'[s] = "insert" => pc[s] = "insert" /\ req'[s] = req[s]
  PROVE  MemoryInv'
<1>1. MemoryIsSum' /\ OvershootOneEntry'
  BY DEF MemoryInv, MemoryIsSum, OvershootOneEntry
<1>2. \A s \in Threads : pc'[s] = "insert" => WithNew(req[s].size)' <= Watermark
  BY DEF MemoryInv, WithNew
<1> QED
  BY <1>1, <1>2 DEF MemoryInv

\* A step that changes the memory while no Put is about to insert.
LEMMA ChangesMemory ==
  ASSUME MemoryIsSum', OvershootOneEntry', \A s \in Threads : pc'[s] # "insert"
  PROVE  MemoryInv'
  BY DEF MemoryInv

LEMMA InitMemory == Init => MemoryInv
<1> SUFFICES ASSUME Init PROVE MemoryInv
  OBVIOUS
<1>1. DOMAIN cache_ = {}
  BY DEF Init
<1>2. MemoryOf({}) = 0
  BY FS_EmptySet DEF MemoryOf
<1>3. current_memory = 0 /\ 0 <= Watermark
  BY NumbersAssumption DEF Init, NumbersAssumption
<1> QED
  BY <1>1, <1>2, <1>3 DEF Init, MemoryInv, MemoryIsSum, OvershootOneEntry

LEMMA StepMemory == AccessInv /\ MemoryInv /\ [Next]_vars => MemoryInv'
<1> SUFFICES ASSUME AccessInv, MemoryInv, [Next]_vars PROVE MemoryInv'
  OBVIOUS
<1> USE DEF Goto, poolVars, putVars
<1>a. CacheTypes /\ NumberTypes /\ ThreadTypes /\ CallsInv /\ LockInv
  BY DEF AccessInv
<1>b. pc \in [Threads -> {"idle", "get", "count", "age", "decay", "disk", "room",
                         "backfill", "write", "evict", "insert"}]
  BY <1>a DEF ThreadTypes
<1>c. DOMAIN req = Threads
  BY <1>a DEF ThreadTypes
<1>1. ASSUME NEW t \in Threads, CallReadAt(t), UNCHANGED putVars PROVE MemoryInv'
  <2>1. UNCHANGED <<cache_, current_memory, resized>>
    BY <1>1 DEF CallReadAt
  <2>2. \A s \in Threads : pc'[s] = "insert" => pc[s] = "insert" /\ req'[s] = req[s]
    BY <1>1, <1>b, <1>c DEF CallReadAt, Return
  <2>3. MemoryOf(DOMAIN cache_)' = MemoryOf(DOMAIN cache_)
    BY <2>1 DEF MemoryOf
  <2> QED
    BY <2>1, <2>2, <2>3, KeepsMemory
<1>2. ASSUME NEW t \in Threads, Hit(t), UNCHANGED putVars PROVE MemoryInv'
  <2>1. UNCHANGED <<cache_, current_memory, resized>>
    BY <1>2 DEF Hit
  <2>2. \A s \in Threads : pc'[s] = "insert" => pc[s] = "insert" /\ req'[s] = req[s]
    BY <1>2, <1>b, <1>c DEF Hit, Return
  <2>3. MemoryOf(DOMAIN cache_)' = MemoryOf(DOMAIN cache_)
    BY <2>1 DEF MemoryOf
  <2> QED
    BY <2>1, <2>2, <2>3, KeepsMemory
<1>3. ASSUME NEW t \in Threads, Count(t), UNCHANGED putVars PROVE MemoryInv'
  <2>1. UNCHANGED <<current_memory, resized>>
    BY <1>3 DEF Count
  <2>2. \A s \in Threads : pc'[s] = "insert" => pc[s] = "insert" /\ req'[s] = req[s]
    BY <1>3, <1>b, <1>c DEF Count, Return
  <2>3. DOMAIN cache_' = DOMAIN cache_
    BY <1>3 DEF Count
  <2>4. \A k \in DOMAIN cache_ : cache_[k] \in Entries
    BY <1>a DEF CacheTypes
  <2>5. \A k \in DOMAIN cache_ : cache_'[k].size = cache_[k].size
    BY <1>3, <2>4 DEF Count, Entries
  <2> QED
    BY <2>1, <2>2, <2>3, <2>5, SizesKeepMemory, KeepsMemory
<1>4. ASSUME NEW t \in Threads, Age(t), UNCHANGED putVars PROVE MemoryInv'
  <2>1. UNCHANGED <<cache_, current_memory, resized>>
    BY <1>4 DEF Age
  <2>2. \A s \in Threads : pc'[s] = "insert" => pc[s] = "insert" /\ req'[s] = req[s]
    BY <1>4, <1>b, <1>c DEF Age, Return
  <2>3. MemoryOf(DOMAIN cache_)' = MemoryOf(DOMAIN cache_)
    BY <2>1 DEF MemoryOf
  <2> QED
    BY <2>1, <2>2, <2>3, KeepsMemory
<1>5. ASSUME NEW t \in Threads, DecayAll(t), UNCHANGED putVars PROVE MemoryInv'
  <2>1. UNCHANGED <<current_memory, resized>>
    BY <1>5 DEF DecayAll
  <2>2. \A s \in Threads : pc'[s] = "insert" => pc[s] = "insert" /\ req'[s] = req[s]
    BY <1>5, <1>b, <1>c DEF DecayAll, Return
  <2>3. DOMAIN cache_' = DOMAIN cache_
    BY <1>5 DEF DecayAll
  <2>4. \A k \in DOMAIN cache_ : cache_[k] \in Entries
    BY <1>a DEF CacheTypes
  <2>5. \A k \in DOMAIN cache_ : cache_'[k].size = cache_[k].size
    BY <1>5, <2>4 DEF DecayAll, Entries
  <2> QED
    BY <2>1, <2>2, <2>3, <2>5, SizesKeepMemory, KeepsMemory
<1>6. ASSUME NEW t \in Threads, Miss(t), UNCHANGED putVars PROVE MemoryInv'
  <2>1. UNCHANGED <<cache_, current_memory, resized>>
    BY <1>6 DEF Miss
  <2>2. \A s \in Threads : pc'[s] = "insert" => pc[s] = "insert" /\ req'[s] = req[s]
    BY <1>6, <1>b, <1>c DEF Miss, Return
  <2>3. MemoryOf(DOMAIN cache_)' = MemoryOf(DOMAIN cache_)
    BY <2>1 DEF MemoryOf
  <2> QED
    BY <2>1, <2>2, <2>3, KeepsMemory
<1>7. ASSUME NEW t \in Threads, ReadDisk(t), UNCHANGED putVars PROVE MemoryInv'
  <2>1. UNCHANGED <<cache_, current_memory, resized>>
    BY <1>7 DEF ReadDisk
  <2>2. \A s \in Threads : pc'[s] = "insert" => pc[s] = "insert" /\ req'[s] = req[s]
    BY <1>7, <1>b, <1>c DEF ReadDisk, Return
  <2>3. MemoryOf(DOMAIN cache_)' = MemoryOf(DOMAIN cache_)
    BY <2>1 DEF MemoryOf
  <2> QED
    BY <2>1, <2>2, <2>3, KeepsMemory
<1>8. ASSUME NEW t \in Threads, ReadDiskFails(t), UNCHANGED putVars PROVE MemoryInv'
  <2>1. UNCHANGED <<cache_, current_memory, resized>>
    BY <1>8 DEF ReadDiskFails
  <2>2. \A s \in Threads : pc'[s] = "insert" => pc[s] = "insert" /\ req'[s] = req[s]
    BY <1>8, <1>b, <1>c DEF ReadDiskFails, Return
  <2>3. MemoryOf(DOMAIN cache_)' = MemoryOf(DOMAIN cache_)
    BY <2>1 DEF MemoryOf
  <2> QED
    BY <2>1, <2>2, <2>3, KeepsMemory
<1>9. ASSUME NEW t \in Threads, HasRoom(t), UNCHANGED putVars PROVE MemoryInv'
  <2>1. UNCHANGED <<cache_, current_memory, resized>>
    BY <1>9 DEF HasRoom
  <2>2. \A s \in Threads : pc'[s] = "insert" => pc[s] = "insert" /\ req'[s] = req[s]
    BY <1>9, <1>b, <1>c DEF HasRoom, Return
  <2>3. MemoryOf(DOMAIN cache_)' = MemoryOf(DOMAIN cache_)
    BY <2>1 DEF MemoryOf
  <2> QED
    BY <2>1, <2>2, <2>3, KeepsMemory
<1>10. ASSUME NEW t \in Threads, PutIfRoom(t), UNCHANGED putVars PROVE MemoryInv'
  <2>1. CASE UNCHANGED <<cache_, current_memory>>
    <3>1. \A s \in Threads : pc'[s] = "insert" => pc[s] = "insert" /\ req'[s] = req[s]
      BY <1>10, <1>b, <1>c DEF PutIfRoom, Return
    <3>2. MemoryOf(DOMAIN cache_)' = MemoryOf(DOMAIN cache_)
      BY <2>1 DEF MemoryOf
    <3> QED
      BY <1>10, <2>1, <3>1, <3>2, KeepsMemory
  <2>2. CASE /\ WithNew(req[t].size) <= Watermark /\ ~Cached(req[t].key)
             /\ Insert(req[t].key, Entry(buf[t], req[t].size, FALSE))
    <3>1. req[t].key \in Keys \ DOMAIN cache_ /\ req[t].size \in Sizes
      BY <1>10, <2>2, <1>a DEF PutIfRoom, CallsInv, Reading, Cached
    <3>2. /\ Entry(buf[t], req[t].size, FALSE) \in Entries
          /\ Entry(buf[t], req[t].size, FALSE).size = req[t].size
      BY <1>a, <3>1, ZeroFits DEF ThreadTypes, Entries, Entry
    <3>3. MemoryOf(DOMAIN cache_)' = MemoryOf(DOMAIN cache_) + req[t].size
      BY <1>a, <2>2, <3>1, <3>2, InsertAdds
    <3>4. current_memory' = WithNew(req[t].size) /\ UNCHANGED resized
      BY <1>10, <2>2, <3>2 DEF Insert
    <3>5. MemoryIsSum'
      <4> SUFFICES ASSUME ~resized PROVE current_memory' = MemoryOf(DOMAIN cache_)'
        BY <3>4 DEF MemoryIsSum
      <4>1. current_memory = MemoryOf(DOMAIN cache_) /\ OvershootOneEntry
        BY DEF MemoryInv, MemoryIsSum
      <4> QED
        BY <1>a, <3>1, <3>3, <3>4, <4>1, NoWrap
    <3>6. OvershootOneEntry'
      BY <2>2, <3>4 DEF OvershootOneEntry
    <3>7. \A s \in Threads : pc'[s] # "insert"
      BY <1>10, <1>b DEF PutIfRoom, NoneInside
    <3> QED
      BY <3>5, <3>6, <3>7, ChangesMemory
  <2> QED
    BY <1>10, <2>1, <2>2 DEF PutIfRoom
<1>11. ASSUME NEW t \in Threads, InvalidateSegment(t), UNCHANGED putVars PROVE MemoryInv'
  <2>0. PICK k \in Keys : EraseAll({j \in DOMAIN cache_ : j[1] = k[1]})
    BY <1>11 DEF InvalidateSegment
  <2> DEFINE K == {j \in DOMAIN cache_ : j[1] = k[1]}
  <2>1. K \subseteq DOMAIN cache_ /\ EraseAll(K)
    BY <2>0
  <2> HIDE DEF K
  <2>2. UNCHANGED resized
    BY <1>11
  <2>3. \A s \in Threads : pc'[s] # "insert"
    BY <1>11, <1>b DEF InvalidateSegment, NoneInside
  <2>10. /\ MemoryOf(K) \in Nat /\ MemoryOf(DOMAIN cache_)' \in Nat
         /\ MemoryOf(DOMAIN cache_) = MemoryOf(DOMAIN cache_)' + MemoryOf(K)
    BY <1>a, <2>1, EraseSubtracts
  <2>11. ASSUME ~resized
         PROVE  current_memory' = MemoryOf(DOMAIN cache_)' /\ current_memory' <= current_memory
    <3>1. current_memory = MemoryOf(DOMAIN cache_)
      BY <2>11 DEF MemoryInv, MemoryIsSum
    <3>2. current_memory - MemoryOf(K) = MemoryOf(DOMAIN cache_)' /\ current_memory - MemoryOf(K) \in Int
      BY <2>10, <3>1
    <3>3. MemoryMod \in Nat \ {0} /\ current_memory \in 0..MemoryMod - 1
      BY <1>a, NumbersAssumption DEF NumbersAssumption, NumberTypes
    <3>4. current_memory - MemoryOf(K) \in 0..MemoryMod - 1
      BY <2>10, <3>1, <3>2, <3>3
    <3>5. (current_memory - MemoryOf(K)) % MemoryMod = current_memory - MemoryOf(K)
      BY <3>2, <3>3, <3>4, ModRange
    <3>6. current_memory' = (current_memory - MemoryOf(K)) % MemoryMod
      BY <2>1 DEF EraseAll
    <3> QED
      BY <2>10, <3>1, <3>2, <3>5, <3>6
  <2>12. MemoryIsSum'
    BY <2>2, <2>11 DEF MemoryIsSum
  <2>13. OvershootOneEntry'
    <3> SUFFICES ASSUME ~resized
                 PROVE  \/ current_memory' <= Watermark
                        \/ \E size \in Sizes : current_memory' <= Watermark + size
      BY <2>2 DEF OvershootOneEntry
    <3>1. OvershootOneEntry /\ current_memory' <= current_memory
      BY <2>11 DEF MemoryInv
    <3>2. current_memory \in Int /\ current_memory' \in Int
      BY <1>a, <2>10, <2>11 DEF NumberTypes
    <3>3. Watermark \in Int /\ \A size \in Sizes : size \in Int
      BY NumbersAssumption, SizesAssumption DEF NumbersAssumption, SizesAssumption
    <3> QED
      BY <3>1, <3>2, <3>3 DEF OvershootOneEntry
  <2> QED
    BY <2>3, <2>12, <2>13, ChangesMemory
<1>12. ASSUME NEW t \in Threads, WriteDisk(t), UNCHANGED putVars PROVE MemoryInv'
  <2>1. UNCHANGED <<cache_, current_memory, resized>>
    BY <1>12 DEF WriteDisk
  <2>2. \A s \in Threads : pc'[s] = "insert" => pc[s] = "insert" /\ req'[s] = req[s]
    BY <1>12, <1>b, <1>c DEF WriteDisk, Return
  <2>3. MemoryOf(DOMAIN cache_)' = MemoryOf(DOMAIN cache_)
    BY <2>1 DEF MemoryOf
  <2> QED
    BY <2>1, <2>2, <2>3, KeepsMemory
<1>13. ASSUME NEW t \in Threads, PutExisting(t) PROVE MemoryInv'
  <2>1. PICK k \in DOMAIN cache_, size \in Sizes :
          /\ cache_' = [cache_ EXCEPT ![k].version = disk[k], ![k].size = size]
          /\ resized' = (resized \/ cache_[k].size # size)
    BY <1>13 DEF PutExisting
  <2>2. UNCHANGED <<current_memory, pc, req>> /\ resized \in BOOLEAN
    BY <1>13 DEF PutExisting, AccessInv, DiskTypes
  <2>3. DOMAIN cache_' = DOMAIN cache_
    BY <2>1
  <2>4. CASE resized'
    BY <2>2, <2>4 DEF MemoryInv, MemoryIsSum, OvershootOneEntry, WithNew
  <2>5. CASE ~resized'
    <3>1. ~resized /\ cache_[k].size = size
      BY <2>1, <2>5
    <3>2. \A j \in DOMAIN cache_ : cache_[j] \in Entries
      BY <1>a DEF CacheTypes
    <3>3. \A j \in DOMAIN cache_ : cache_'[j].size = cache_[j].size
      BY <2>1, <3>1, <3>2 DEF Entries
    <3>4. \A s \in Threads : pc'[s] = "insert" => pc[s] = "insert" /\ req'[s] = req[s]
      BY <2>2
    <3>5. resized = FALSE /\ (cache_[k].size # size) = FALSE
      BY <2>2, <3>1
    <3>6. UNCHANGED <<current_memory, resized>>
      BY <2>1, <2>2, <3>5
    <3> QED
      BY <2>3, <3>3, <3>4, <3>6, SizesKeepMemory, KeepsMemory
  <2> QED
    BY <2>4, <2>5
<1>14. ASSUME NEW t \in Threads, PutNew(t) PROVE MemoryInv'
  <2>1. PICK k \in Keys \ DOMAIN cache_, size \in Sizes, meta \in BOOLEAN :
          /\ req' = [req EXCEPT ![t] = [key |-> k, size |-> size, meta |-> meta]]
          /\ buf' = [buf EXCEPT ![t] = disk[k]]
          /\ Goto(t, "idle", IF WithNew(size) > Watermark THEN "evict" ELSE "insert")
    BY <1>14 DEF PutNew
  <2>2. UNCHANGED <<cache_, current_memory, resized>> /\ NoneInside
    BY <1>14 DEF PutNew
  <2>3. MemoryIsSum' /\ OvershootOneEntry'
    BY <2>2 DEF MemoryInv, MemoryIsSum, OvershootOneEntry, MemoryOf
  <2>4. ASSUME NEW s \in Threads, pc'[s] = "insert" PROVE WithNew(req[s].size)' <= Watermark
    <3>1. s = t
      BY <1>b, <2>1, <2>2, <2>4 DEF NoneInside
    <3>2. req'[s].size = size
      BY <1>c, <2>1, <3>1
    <3>3. ~(WithNew(size) > Watermark)
      BY <1>b, <2>1, <2>4, <3>1
    <3>4. WithNew(size) \in Int /\ Watermark \in Int
      BY <1>a, WithNewRange, NumbersAssumption DEF NumbersAssumption
    <3>5. WithNew(req[s].size)' = WithNew(size)
      BY <2>2, <3>2 DEF WithNew
    <3> QED
      BY <3>3, <3>4, <3>5
  <2> QED
    BY <2>3, <2>4 DEF MemoryInv
<1>15. ASSUME NEW t \in Threads, EvictOne(t) PROVE MemoryInv'
  <2>0. PICK k \in DOMAIN cache_ : EraseAll({k})
    BY <1>15 DEF EvictOne
  <2> DEFINE K == {k}
  <2>1. K \subseteq DOMAIN cache_ /\ EraseAll(K)
    BY <2>0
  <2> HIDE DEF K
  <2>2. UNCHANGED resized
    BY <1>15 DEF EvictOne
  <2>3. \A s \in Threads : pc'[s] # "insert"
    BY <1>15, <1>a, <1>b DEF EvictOne, LockInv, Exclusive
  <2>10. /\ MemoryOf(K) \in Nat /\ MemoryOf(DOMAIN cache_)' \in Nat
         /\ MemoryOf(DOMAIN cache_) = MemoryOf(DOMAIN cache_)' + MemoryOf(K)
    BY <1>a, <2>1, EraseSubtracts
  <2>11. ASSUME ~resized
         PROVE  current_memory' = MemoryOf(DOMAIN cache_)' /\ current_memory' <= current_memory
    <3>1. current_memory = MemoryOf(DOMAIN cache_)
      BY <2>11 DEF MemoryInv, MemoryIsSum
    <3>2. current_memory - MemoryOf(K) = MemoryOf(DOMAIN cache_)' /\ current_memory - MemoryOf(K) \in Int
      BY <2>10, <3>1
    <3>3. MemoryMod \in Nat \ {0} /\ current_memory \in 0..MemoryMod - 1
      BY <1>a, NumbersAssumption DEF NumbersAssumption, NumberTypes
    <3>4. current_memory - MemoryOf(K) \in 0..MemoryMod - 1
      BY <2>10, <3>1, <3>2, <3>3
    <3>5. (current_memory - MemoryOf(K)) % MemoryMod = current_memory - MemoryOf(K)
      BY <3>2, <3>3, <3>4, ModRange
    <3>6. current_memory' = (current_memory - MemoryOf(K)) % MemoryMod
      BY <2>1 DEF EraseAll
    <3> QED
      BY <2>10, <3>1, <3>2, <3>5, <3>6
  <2>12. MemoryIsSum'
    BY <2>2, <2>11 DEF MemoryIsSum
  <2>13. OvershootOneEntry'
    <3> SUFFICES ASSUME ~resized
                 PROVE  \/ current_memory' <= Watermark
                        \/ \E size \in Sizes : current_memory' <= Watermark + size
      BY <2>2 DEF OvershootOneEntry
    <3>1. OvershootOneEntry /\ current_memory' <= current_memory
      BY <2>11 DEF MemoryInv
    <3>2. current_memory \in Int /\ current_memory' \in Int
      BY <1>a, <2>10, <2>11 DEF NumberTypes
    <3>3. Watermark \in Int /\ \A size \in Sizes : size \in Int
      BY NumbersAssumption, SizesAssumption DEF NumbersAssumption, SizesAssumption
    <3> QED
      BY <3>1, <3>2, <3>3 DEF OvershootOneEntry
  <2> QED
    BY <2>3, <2>12, <2>13, ChangesMemory
<1>16. ASSUME NEW t \in Threads, PutInsert(t) PROVE MemoryInv'
  <2>1. req[t].key \in Keys \ DOMAIN cache_ /\ req[t].size \in Sizes
    BY <1>16, <1>a DEF PutInsert, CallsInv, LockInv, Exclusive, Cached
  <2>2. /\ Entry(buf[t], req[t].size, req[t].meta) \in Entries
        /\ Entry(buf[t], req[t].size, req[t].meta).size = req[t].size
    BY <1>a, <2>1, ZeroFits DEF ThreadTypes, Requests, Entries, Entry
  <2>3. MemoryOf(DOMAIN cache_)' = MemoryOf(DOMAIN cache_) + req[t].size
    BY <1>16, <1>a, <2>1, <2>2, InsertAdds DEF PutInsert
  <2>4. current_memory' = WithNew(req[t].size) /\ UNCHANGED resized
    BY <1>16, <2>2 DEF PutInsert, Insert
  <2>5. MemoryIsSum'
    <3> SUFFICES ASSUME ~resized PROVE current_memory' = MemoryOf(DOMAIN cache_)'
      BY <2>4 DEF MemoryIsSum
    <3>1. current_memory = MemoryOf(DOMAIN cache_) /\ OvershootOneEntry
      BY DEF MemoryInv, MemoryIsSum
    <3> QED
      BY <1>a, <2>1, <2>3, <2>4, <3>1, NoWrap
  <2>6. OvershootOneEntry'
    <3> SUFFICES ASSUME ~resized
                 PROVE  \/ current_memory' <= Watermark
                        \/ \E size \in Sizes : current_memory' <= Watermark + size
      BY <2>4 DEF OvershootOneEntry
    <3>1. current_memory' = current_memory + req[t].size
      BY <1>a, <2>1, <2>4, NoWrap DEF MemoryInv
    <3>2. /\ current_memory \in Nat /\ req[t].size \in Nat /\ Watermark \in Nat
      <4>1. current_memory \in Nat /\ Watermark \in Nat
        BY <1>a, NumbersAssumption DEF NumbersAssumption, NumberTypes
      <4>2. req[t].size \in Nat
        BY <2>1, SizesAssumption DEF SizesAssumption
      <4> QED
        BY <4>1, <4>2
    <3>3. CASE pc[t] = "insert"
      BY <2>4, <3>3 DEF MemoryInv
    <3>4. CASE pc[t] = "evict" /\ ~EvictLoopGoesOn
      <4>1. CASE current_memory <= Watermark
        BY <2>1, <3>1, <3>2, <4>1
      <4>2. CASE DOMAIN cache_ = {}
        <5>1. MemoryOf({}) = 0
          BY FS_EmptySet DEF MemoryOf
        <5>2. current_memory = 0
          BY <4>2, <5>1 DEF MemoryInv, MemoryIsSum
        <5> QED
          BY <2>1, <3>1, <3>2, <5>2
      <4>3. ~(current_memory > Watermark) => current_memory <= Watermark
        BY <3>2
      <4> QED
        BY <3>4, <4>1, <4>2, <4>3 DEF EvictLoopGoesOn
    <3> QED
      BY <1>16, <3>3, <3>4 DEF PutInsert
  <2>7. \A s \in Threads : pc'[s] # "insert"
    BY <1>16, <1>a, <1>b DEF PutInsert, LockInv, Exclusive
  <2> QED
    BY <2>5, <2>6, <2>7, ChangesMemory
<1>17. CASE UNCHANGED vars
  BY <1>17 DEF vars, MemoryInv, MemoryIsSum, OvershootOneEntry, MemoryOf, WithNew
<1> QED
  BY <1>1, <1>2, <1>3, <1>4, <1>5, <1>6, <1>7, <1>8, <1>9, <1>10, <1>11, <1>12, <1>13, <1>14, <1>15, <1>16, <1>17 DEF Next, ReadAt, WriteAt

-----------------------------------------------------------------------------
LEMMA InitFresh == Init => FreshInv
  BY DEF Init, FreshInv, CacheFresh, BuffersFresh, FloorsFresh, WriterAlone, Holding, Reading, Exclusive

LEMMA StepFresh == AccessInv /\ FreshInv /\ [Next]_vars => FreshInv'
<1> SUFFICES ASSUME AccessInv, FreshInv, [Next]_vars PROVE FreshInv'
  OBVIOUS
<1> USE DEF Goto, Return, poolVars, putVars, Holding, Reading, Exclusive
<1>a. /\ pc \in [Threads -> {"idle", "get", "count", "age", "decay", "disk", "room",
                            "backfill", "write", "evict", "insert"}]
      /\ DOMAIN req = Threads /\ DOMAIN buf = Threads /\ DOMAIN floor = Threads
      /\ DOMAIN disk = Keys
  BY DEF AccessInv, ThreadTypes, DiskTypes
<1>b. CacheTypes /\ CallsInv /\ LockInv
  BY DEF AccessInv
<1>1. ASSUME NEW t \in Threads, CallReadAt(t), UNCHANGED putVars PROVE FreshInv'
  <2> SUFFICES ASSUME ~raced' PROVE (CacheFresh /\ BuffersFresh /\ FloorsFresh /\ WriterAlone)'
    BY DEF FreshInv
  <2>1. ~raced /\ CacheFresh /\ BuffersFresh /\ FloorsFresh /\ WriterAlone
    BY <1>1 DEF CallReadAt, FreshInv
  <2>10. CacheFresh'
    BY <1>1, <1>a, <1>b, <2>1 DEF CallReadAt, WriteUnderWay, CacheFresh
  <2>11. BuffersFresh'
    BY <1>1, <1>a, <1>b, <2>1 DEF CallReadAt, WriteUnderWay, BuffersFresh
  <2>12. FloorsFresh'
    BY <1>1, <1>a, <1>b, <2>1 DEF CallReadAt, WriteUnderWay, FloorsFresh
  <2>13. WriterAlone'
    BY <1>1, <1>a, <1>b, <2>1 DEF CallReadAt, WriteUnderWay, WriterAlone
  <2> QED
    BY <2>10, <2>11, <2>12, <2>13
<1>2. ASSUME NEW t \in Threads, Hit(t), UNCHANGED putVars PROVE FreshInv'
  <2> SUFFICES ASSUME ~raced' PROVE (CacheFresh /\ BuffersFresh /\ FloorsFresh /\ WriterAlone)'
    BY DEF FreshInv
  <2>1. ~raced /\ CacheFresh /\ BuffersFresh /\ FloorsFresh /\ WriterAlone
    BY <1>2 DEF Hit, FreshInv
  <2>10. CacheFresh'
    BY <1>2, <1>a, <1>b, <2>1 DEF Hit, Cached, NoneExclusive, CacheFresh
  <2>11. BuffersFresh'
    BY <1>2, <1>a, <1>b, <2>1 DEF Hit, Cached, NoneExclusive, BuffersFresh, CacheFresh
  <2>12. FloorsFresh'
    BY <1>2, <1>a, <1>b, <2>1 DEF Hit, Cached, NoneExclusive, FloorsFresh
  <2>13. WriterAlone'
    BY <1>2, <1>a, <1>b, <2>1 DEF Hit, Cached, NoneExclusive, WriterAlone
  <2> QED
    BY <2>10, <2>11, <2>12, <2>13
<1>3. ASSUME NEW t \in Threads, Count(t), UNCHANGED putVars PROVE FreshInv'
  <2> SUFFICES ASSUME ~raced' PROVE (CacheFresh /\ BuffersFresh /\ FloorsFresh /\ WriterAlone)'
    BY DEF FreshInv
  <2>1. ~raced /\ CacheFresh /\ BuffersFresh /\ FloorsFresh /\ WriterAlone
    BY <1>3 DEF Count, FreshInv
  <2>10. CacheFresh'
    <3>1. DOMAIN cache_' = DOMAIN cache_ /\ UNCHANGED disk
      BY <1>3 DEF Count
    <3>2. \A k \in DOMAIN cache_ : cache_[k] \in Entries
      BY <1>b DEF CacheTypes
    <3>3. \A k \in DOMAIN cache_ : cache_'[k].version = cache_[k].version
      BY <1>3, <3>2 DEF Count, Entries
    <3> QED
      BY <2>1, <3>1, <3>3 DEF CacheFresh
  <2>11. BuffersFresh'
    BY <1>3, <1>a, <1>b, <2>1 DEF Count, BuffersFresh
  <2>12. FloorsFresh'
    BY <1>3, <1>a, <1>b, <2>1 DEF Count, FloorsFresh
  <2>13. WriterAlone'
    BY <1>3, <1>a, <1>b, <2>1 DEF Count, WriterAlone
  <2> QED
    BY <2>10, <2>11, <2>12, <2>13
<1>4. ASSUME NEW t \in Threads, Age(t), UNCHANGED putVars PROVE FreshInv'
  <2> SUFFICES ASSUME ~raced' PROVE (CacheFresh /\ BuffersFresh /\ FloorsFresh /\ WriterAlone)'
    BY DEF FreshInv
  <2>1. ~raced /\ CacheFresh /\ BuffersFresh /\ FloorsFresh /\ WriterAlone
    BY <1>4 DEF Age, FreshInv
  <2>10. CacheFresh'
    BY <1>4, <1>a, <1>b, <2>1 DEF Age, CacheFresh
  <2>11. BuffersFresh'
    BY <1>4, <1>a, <1>b, <2>1 DEF Age, BuffersFresh
  <2>12. FloorsFresh'
    BY <1>4, <1>a, <1>b, <2>1 DEF Age, FloorsFresh
  <2>13. WriterAlone'
    BY <1>4, <1>a, <1>b, <2>1 DEF Age, WriterAlone
  <2> QED
    BY <2>10, <2>11, <2>12, <2>13
<1>5. ASSUME NEW t \in Threads, DecayAll(t), UNCHANGED putVars PROVE FreshInv'
  <2> SUFFICES ASSUME ~raced' PROVE (CacheFresh /\ BuffersFresh /\ FloorsFresh /\ WriterAlone)'
    BY DEF FreshInv
  <2>1. ~raced /\ CacheFresh /\ BuffersFresh /\ FloorsFresh /\ WriterAlone
    BY <1>5 DEF DecayAll, FreshInv
  <2>10. CacheFresh'
    <3>1. DOMAIN cache_' = DOMAIN cache_ /\ UNCHANGED disk
      BY <1>5 DEF DecayAll
    <3>2. \A k \in DOMAIN cache_ : cache_[k] \in Entries
      BY <1>b DEF CacheTypes
    <3>3. \A k \in DOMAIN cache_ : cache_'[k].version = cache_[k].version
      BY <1>5, <3>2 DEF DecayAll, Entries
    <3> QED
      BY <2>1, <3>1, <3>3 DEF CacheFresh
  <2>11. BuffersFresh'
    BY <1>5, <1>a, <1>b, <2>1 DEF DecayAll, BuffersFresh
  <2>12. FloorsFresh'
    BY <1>5, <1>a, <1>b, <2>1 DEF DecayAll, FloorsFresh
  <2>13. WriterAlone'
    BY <1>5, <1>a, <1>b, <2>1 DEF DecayAll, WriterAlone
  <2> QED
    BY <2>10, <2>11, <2>12, <2>13
<1>6. ASSUME NEW t \in Threads, Miss(t), UNCHANGED putVars PROVE FreshInv'
  <2> SUFFICES ASSUME ~raced' PROVE (CacheFresh /\ BuffersFresh /\ FloorsFresh /\ WriterAlone)'
    BY DEF FreshInv
  <2>1. ~raced /\ CacheFresh /\ BuffersFresh /\ FloorsFresh /\ WriterAlone
    BY <1>6 DEF Miss, FreshInv
  <2>10. CacheFresh'
    BY <1>6, <1>a, <1>b, <2>1 DEF Miss, CacheFresh
  <2>11. BuffersFresh'
    BY <1>6, <1>a, <1>b, <2>1 DEF Miss, BuffersFresh
  <2>12. FloorsFresh'
    BY <1>6, <1>a, <1>b, <2>1 DEF Miss, FloorsFresh
  <2>13. WriterAlone'
    BY <1>6, <1>a, <1>b, <2>1 DEF Miss, WriterAlone
  <2> QED
    BY <2>10, <2>11, <2>12, <2>13
<1>7. ASSUME NEW t \in Threads, ReadDisk(t), UNCHANGED putVars PROVE FreshInv'
  <2> SUFFICES ASSUME ~raced' PROVE (CacheFresh /\ BuffersFresh /\ FloorsFresh /\ WriterAlone)'
    BY DEF FreshInv
  <2>1. ~raced /\ CacheFresh /\ BuffersFresh /\ FloorsFresh /\ WriterAlone
    BY <1>7 DEF ReadDisk, FreshInv
  <2>10. CacheFresh'
    BY <1>7, <1>a, <1>b, <2>1 DEF ReadDisk, CacheFresh
  <2>11. BuffersFresh'
    BY <1>7, <1>a, <1>b, <2>1 DEF ReadDisk, BuffersFresh
  <2>12. FloorsFresh'
    BY <1>7, <1>a, <1>b, <2>1 DEF ReadDisk, FloorsFresh
  <2>13. WriterAlone'
    BY <1>7, <1>a, <1>b, <2>1 DEF ReadDisk, WriterAlone
  <2> QED
    BY <2>10, <2>11, <2>12, <2>13
<1>8. ASSUME NEW t \in Threads, ReadDiskFails(t), UNCHANGED putVars PROVE FreshInv'
  <2> SUFFICES ASSUME ~raced' PROVE (CacheFresh /\ BuffersFresh /\ FloorsFresh /\ WriterAlone)'
    BY DEF FreshInv
  <2>1. ~raced /\ CacheFresh /\ BuffersFresh /\ FloorsFresh /\ WriterAlone
    BY <1>8 DEF ReadDiskFails, FreshInv
  <2>10. CacheFresh'
    BY <1>8, <1>a, <1>b, <2>1 DEF ReadDiskFails, CacheFresh
  <2>11. BuffersFresh'
    BY <1>8, <1>a, <1>b, <2>1 DEF ReadDiskFails, BuffersFresh
  <2>12. FloorsFresh'
    BY <1>8, <1>a, <1>b, <2>1 DEF ReadDiskFails, FloorsFresh
  <2>13. WriterAlone'
    BY <1>8, <1>a, <1>b, <2>1 DEF ReadDiskFails, WriterAlone
  <2> QED
    BY <2>10, <2>11, <2>12, <2>13
<1>9. ASSUME NEW t \in Threads, HasRoom(t), UNCHANGED putVars PROVE FreshInv'
  <2> SUFFICES ASSUME ~raced' PROVE (CacheFresh /\ BuffersFresh /\ FloorsFresh /\ WriterAlone)'
    BY DEF FreshInv
  <2>1. ~raced /\ CacheFresh /\ BuffersFresh /\ FloorsFresh /\ WriterAlone
    BY <1>9 DEF HasRoom, FreshInv
  <2>10. CacheFresh'
    BY <1>9, <1>a, <1>b, <2>1 DEF HasRoom, CacheFresh
  <2>11. BuffersFresh'
    BY <1>9, <1>a, <1>b, <2>1 DEF HasRoom, BuffersFresh
  <2>12. FloorsFresh'
    BY <1>9, <1>a, <1>b, <2>1 DEF HasRoom, FloorsFresh
  <2>13. WriterAlone'
    BY <1>9, <1>a, <1>b, <2>1 DEF HasRoom, WriterAlone
  <2> QED
    BY <2>10, <2>11, <2>12, <2>13
<1>10. ASSUME NEW t \in Threads, PutIfRoom(t), UNCHANGED putVars PROVE FreshInv'
  <2> SUFFICES ASSUME ~raced' PROVE (CacheFresh /\ BuffersFresh /\ FloorsFresh /\ WriterAlone)'
    BY DEF FreshInv
  <2>1. ~raced /\ CacheFresh /\ BuffersFresh /\ FloorsFresh /\ WriterAlone
    BY <1>10 DEF PutIfRoom, FreshInv
  <2>10. CacheFresh'
    BY <1>10, <1>a, <1>b, <2>1 DEF PutIfRoom, Insert, Entry, Cached, NoneInside, CacheFresh, BuffersFresh
  <2>11. BuffersFresh'
    BY <1>10, <1>a, <1>b, <2>1 DEF PutIfRoom, Insert, Entry, Cached, NoneInside, BuffersFresh
  <2>12. FloorsFresh'
    BY <1>10, <1>a, <1>b, <2>1 DEF PutIfRoom, Insert, Entry, Cached, NoneInside, FloorsFresh
  <2>13. WriterAlone'
    BY <1>10, <1>a, <1>b, <2>1 DEF PutIfRoom, Insert, Entry, Cached, NoneInside, WriterAlone
  <2> QED
    BY <2>10, <2>11, <2>12, <2>13
<1>11. ASSUME NEW t \in Threads, InvalidateSegment(t), UNCHANGED putVars PROVE FreshInv'
  <2> SUFFICES ASSUME ~raced' PROVE (CacheFresh /\ BuffersFresh /\ FloorsFresh /\ WriterAlone)'
    BY DEF FreshInv
  <2>1. ~raced /\ CacheFresh /\ BuffersFresh /\ FloorsFresh /\ WriterAlone
    BY <1>11 DEF InvalidateSegment, FreshInv
  <2>10. CacheFresh'
    BY <1>11, <1>a, <1>b, <2>1 DEF InvalidateSegment, EraseAll, NoneInside, CacheFresh
  <2>11. BuffersFresh'
    BY <1>11, <1>a, <1>b, <2>1 DEF InvalidateSegment, EraseAll, NoneInside, BuffersFresh
  <2>12. FloorsFresh'
    BY <1>11, <1>a, <1>b, <2>1 DEF InvalidateSegment, EraseAll, NoneInside, FloorsFresh
  <2>13. WriterAlone'
    <3>1. PICK k \in Keys :
            /\ req' = [req EXCEPT ![t] = [NoRequest EXCEPT !.key = k]]
            /\ EraseAll({j \in DOMAIN cache_ : j[1] = k[1]})
      BY <1>11 DEF InvalidateSegment
    <3>2. req'[t].key = k /\ \A j \in DOMAIN cache_' : j[1] # k[1]
      BY <1>a, <3>1 DEF EraseAll, NoRequest
    <3>3. \A s \in Threads : pc[s] = "idle"
      BY <1>11 DEF InvalidateSegment
    <3>4. \A s \in Threads \ {t} : pc'[s] = "idle"
      BY <1>11, <1>a, <3>3 DEF InvalidateSegment
    <3> QED
      BY <3>2, <3>4 DEF WriterAlone
  <2> QED
    BY <2>10, <2>11, <2>12, <2>13
<1>12. ASSUME NEW t \in Threads, WriteDisk(t), UNCHANGED putVars PROVE FreshInv'
  <2> SUFFICES ASSUME ~raced' PROVE (CacheFresh /\ BuffersFresh /\ FloorsFresh /\ WriterAlone)'
    BY DEF FreshInv
  <2>1. ~raced /\ CacheFresh /\ BuffersFresh /\ FloorsFresh /\ WriterAlone
    BY <1>12 DEF WriteDisk, FreshInv
  <2>10. CacheFresh'
    <3>1. UNCHANGED cache_ /\ disk' \in {disk, [disk EXCEPT ![req[t].key] = writes]}
      BY <1>12 DEF WriteDisk
    <3>2. \A k \in DOMAIN cache_ : k # req[t].key
      BY <1>12, <2>1 DEF WriteDisk, WriterAlone
    <3>3. \A k \in DOMAIN cache_ : disk'[k] = disk[k]
      BY <1>a, <1>b, <3>1, <3>2 DEF CacheTypes
    <3> QED
      BY <2>1, <3>1, <3>3 DEF CacheFresh
  <2>11. BuffersFresh'
    BY <1>12, <1>a, <1>b, <2>1 DEF WriteDisk, BuffersFresh, WriterAlone
  <2>12. FloorsFresh'
    BY <1>12, <1>a, <1>b, <2>1 DEF WriteDisk, FloorsFresh, WriterAlone
  <2>13. WriterAlone'
    BY <1>12, <1>a, <1>b, <2>1 DEF WriteDisk, WriterAlone
  <2> QED
    BY <2>10, <2>11, <2>12, <2>13
<1>13. ASSUME NEW t \in Threads, PutExisting(t) PROVE FreshInv'
  <2> SUFFICES ASSUME ~raced' PROVE (CacheFresh /\ BuffersFresh /\ FloorsFresh /\ WriterAlone)'
    BY DEF FreshInv
  <2>1. ~raced /\ CacheFresh /\ BuffersFresh /\ FloorsFresh /\ WriterAlone
    BY <1>13 DEF PutExisting, FreshInv
  <2>10. CacheFresh'
    BY <1>13, <1>a, <1>b, <2>1 DEF PutExisting, WriteUnderWay, NoneInside, CacheFresh
  <2>11. BuffersFresh'
    BY <1>13, <1>a, <1>b, <2>1 DEF PutExisting, WriteUnderWay, NoneInside, BuffersFresh
  <2>12. FloorsFresh'
    BY <1>13, <1>a, <1>b, <2>1 DEF PutExisting, WriteUnderWay, NoneInside, FloorsFresh
  <2>13. WriterAlone'
    BY <1>13, <1>a, <1>b, <2>1 DEF PutExisting, WriteUnderWay, NoneInside, WriterAlone
  <2> QED
    BY <2>10, <2>11, <2>12, <2>13
<1>14. ASSUME NEW t \in Threads, PutNew(t) PROVE FreshInv'
  <2> SUFFICES ASSUME ~raced' PROVE (CacheFresh /\ BuffersFresh /\ FloorsFresh /\ WriterAlone)'
    BY DEF FreshInv
  <2>1. ~raced /\ CacheFresh /\ BuffersFresh /\ FloorsFresh /\ WriterAlone
    BY <1>14 DEF PutNew, FreshInv
  <2>10. CacheFresh'
    BY <1>14, <1>a, <1>b, <2>1 DEF PutNew, WriteUnderWay, NoneInside, CacheFresh
  <2>11. BuffersFresh'
    BY <1>14, <1>a, <1>b, <2>1 DEF PutNew, WriteUnderWay, NoneInside, BuffersFresh
  <2>12. FloorsFresh'
    BY <1>14, <1>a, <1>b, <2>1 DEF PutNew, WriteUnderWay, NoneInside, FloorsFresh
  <2>13. WriterAlone'
    <3>1. \A s \in Threads : pc[s] # "write"
      BY <1>14 DEF PutNew, WriteUnderWay
    <3>2. \A s \in Threads : pc'[s] # "write"
      BY <1>14, <1>a, <3>1 DEF PutNew
    <3> QED
      BY <3>2 DEF WriterAlone
  <2> QED
    BY <2>10, <2>11, <2>12, <2>13
<1>15. ASSUME NEW t \in Threads, EvictOne(t) PROVE FreshInv'
  <2> SUFFICES ASSUME ~raced' PROVE (CacheFresh /\ BuffersFresh /\ FloorsFresh /\ WriterAlone)'
    BY DEF FreshInv
  <2>1. ~raced /\ CacheFresh /\ BuffersFresh /\ FloorsFresh /\ WriterAlone
    BY <1>15 DEF EvictOne, FreshInv
  <2>10. CacheFresh'
    BY <1>15, <1>a, <1>b, <2>1 DEF EvictOne, EraseAll, CacheFresh
  <2>11. BuffersFresh'
    BY <1>15, <1>a, <1>b, <2>1 DEF EvictOne, EraseAll, BuffersFresh
  <2>12. FloorsFresh'
    BY <1>15, <1>a, <1>b, <2>1 DEF EvictOne, EraseAll, FloorsFresh
  <2>13. WriterAlone'
    BY <1>15, <1>a, <1>b, <2>1 DEF EvictOne, EraseAll, WriterAlone
  <2> QED
    BY <2>10, <2>11, <2>12, <2>13
<1>16. ASSUME NEW t \in Threads, PutInsert(t) PROVE FreshInv'
  <2> SUFFICES ASSUME ~raced' PROVE (CacheFresh /\ BuffersFresh /\ FloorsFresh /\ WriterAlone)'
    BY DEF FreshInv
  <2>1. ~raced /\ CacheFresh /\ BuffersFresh /\ FloorsFresh /\ WriterAlone
    BY <1>16 DEF PutInsert, FreshInv
  <2>10. CacheFresh'
    BY <1>16, <1>a, <1>b, <2>1 DEF PutInsert, Insert, Entry, CacheFresh, BuffersFresh
  <2>11. BuffersFresh'
    BY <1>16, <1>a, <1>b, <2>1 DEF PutInsert, Insert, Entry, BuffersFresh
  <2>12. FloorsFresh'
    BY <1>16, <1>a, <1>b, <2>1 DEF PutInsert, Insert, Entry, FloorsFresh
  <2>13. WriterAlone'
    BY <1>16, <1>a, <1>b, <2>1 DEF PutInsert, Insert, Entry, WriterAlone
  <2> QED
    BY <2>10, <2>11, <2>12, <2>13
<1>17. CASE UNCHANGED vars
  BY <1>17 DEF vars, FreshInv, CacheFresh, BuffersFresh, FloorsFresh, WriterAlone
<1> QED
  BY <1>1, <1>2, <1>3, <1>4, <1>5, <1>6, <1>7, <1>8, <1>9, <1>10, <1>11, <1>12, <1>13, <1>14, <1>15, <1>16, <1>17 DEF Next, ReadAt, WriteAt

-----------------------------------------------------------------------------
CacheInv == AccessInv /\ MemoryInv /\ FreshInv

THEOREM Invariant == Spec => []CacheInv
<1>1. Init => CacheInv
  BY InitAccess, InitMemory, InitFresh DEF CacheInv
<1>2. CacheInv /\ [Next]_vars => CacheInv'
  BY StepAccess, StepMemory, StepFresh DEF CacheInv
<1> QED
  BY <1>1, <1>2, PTL DEF Spec

\* Every variable stays within its type, whatever counts are lost: no access
\* count leaves 0..MaxCount, and no request is ever about a block that is none.
THEOREM TypeCorrect == Spec => []TypeOK
<1>1. CacheInv => TypeOK
  BY TypesMeanTypeOK DEF CacheInv, AccessInv
<1> QED
  BY <1>1, Invariant, PTL

\* stats_.current_memory is the sum of the entries' sizes after any interleaving
\* of lookups, backfills, evictions and invalidations (cache_pool.cpp:67, 95,
\* 105, 141), as long as no Put has given an entry another size.
THEOREM MemoryAlwaysSum == Spec => []MemoryIsSum
<1>1. CacheInv => MemoryIsSum
  BY DEF CacheInv, MemoryInv
<1> QED
  BY <1>1, Invariant, PTL

\* Put overshoots the watermark by at most one entry (cache_pool.cpp:54-69).
THEOREM OneEntryOver == Spec => []OvershootOneEntry
<1>1. CacheInv => OvershootOneEntry
  BY DEF CacheInv, MemoryInv
<1> QED
  BY <1>1, Invariant, PTL

\* Without an overlapping WriteAt, a ReadAt hands out nothing older than what
\* was on disk when it began (cached_io.cpp:41-46).
THEOREM NoStaleReads == Spec => []ReadsCurrentUnlessRaced
<1>1. CacheInv => ReadsCurrentUnlessRaced
  <2> SUFFICES ASSUME CacheInv, ~raced, NEW t \in Threads, HoldsData(t)
               PROVE  buf[t] >= floor[t]
    BY DEF ReadsCurrentUnlessRaced, ReadsCurrent
  <2>1. pc[t] \in Holding /\ pc[t] \in Reading
    BY DEF HoldsData, Holding, Reading
  <2>2. buf[t] = floor[t]
    BY <2>1 DEF CacheInv, FreshInv, BuffersFresh, FloorsFresh
  <2>3. buf[t] \in Int
    BY NumbersAssumption DEF CacheInv, AccessInv, ThreadTypes, NumbersAssumption
  <2> QED
    BY <2>2, <2>3
<1> QED
  BY <1>1, Invariant, PTL

\* The second check of the room, under the lock, holds for any number of threads
\* that passed the first (cache_pool.h:43, cache_pool.cpp:78-81).
THEOREM BackfillFits == Spec => BackfillKeepsWatermark
<1> DEFINE Fits ==
      (\E t \in Threads : pc[t] = "backfill" /\ pc'[t] = "idle")
        => current_memory' \in 0..Watermark \cup {current_memory}
<1>1. CacheInv /\ [Next]_vars => [Fits]_vars
  <2> SUFFICES ASSUME CacheInv, Next, NEW t \in Threads, pc[t] = "backfill", pc'[t] = "idle"
               PROVE  current_memory' \in 0..Watermark \cup {current_memory}
    BY DEF vars
  <2>1. DOMAIN pc = Threads /\ NumberTypes /\ CallsInv
    BY DEF CacheInv, AccessInv, ThreadTypes
  <2>2. PutIfRoom(t)
    <3>1. PICK s \in Threads :
            ReadAt(s) \/ WriteAt(s) \/ PutExisting(s) \/ PutNew(s) \/ EvictOne(s) \/ PutInsert(s)
      BY DEF Next
    <3>2. CASE ReadAt(s)
      BY <2>1, <3>2 DEF ReadAt, CallReadAt, Hit, Count, Age, DecayAll, Miss, ReadDisk, ReadDiskFails,
                        HasRoom, PutIfRoom, Goto
    <3>3. CASE WriteAt(s)
      BY <2>1, <3>3 DEF WriteAt, InvalidateSegment, WriteDisk, Goto
    <3>4. CASE PutExisting(s) \/ PutNew(s)
      BY <2>1, <3>4 DEF PutExisting, PutNew, Goto
    <3>5. CASE EvictOne(s) \/ PutInsert(s)
      BY <2>1, <3>5 DEF EvictOne, PutInsert
    <3> QED
      BY <3>1, <3>2, <3>3, <3>4, <3>5
  <2>3. req[t].size \in Sizes
    BY <2>1 DEF CallsInv, Reading
  <2>4. WithNew(req[t].size) \in 0..MemoryMod - 1
    BY <2>1, <2>3, WithNewRange
  <2>5. \/ current_memory' = WithNew(req[t].size) /\ WithNew(req[t].size) <= Watermark
        \/ current_memory' = current_memory
    BY <2>2 DEF PutIfRoom, Insert, Entry
  <2>6. MemoryMod \in Nat /\ Watermark \in Nat
    BY NumbersAssumption DEF NumbersAssumption
  <2> QED
    BY <2>4, <2>5, <2>6
<1> QED
  BY <1>1, Invariant, PTL DEF Spec, BackfillKeepsWatermark

\* The step between two priorities is wider than any count.
LEMMA WeightsApart ==
  ASSUME NEW e \in Entries, NEW f \in Entries, e.is_metadata, ~f.is_metadata
  PROVE  ComputeWeight(f) < ComputeWeight(e)
<1>1. /\ e.access_count \in Nat /\ f.access_count \in Nat /\ f.access_count <= MaxCount
      /\ MaxCount \in Nat
  BY NumbersAssumption DEF Entries, NumbersAssumption
<1>2. ComputeWeight(e) = 3 * (MaxCount + 1) + e.access_count
  BY DEF ComputeWeight
<1>3. \/ ComputeWeight(f) = 2 * (MaxCount + 1) + f.access_count
      \/ ComputeWeight(f) = 1 * (MaxCount + 1) + f.access_count
  BY DEF ComputeWeight
<1> QED
  BY <1>1, <1>2, <1>3

\* An eviction takes metadata only when nothing else is left
\* (cache_pool.cpp:113-121).
THEOREM MetadataGoesLast == Spec => MetadataEvictedLast
<1> DEFINE Last ==
      \A t \in Threads : pc[t] = "evict" =>
        \A k \in DOMAIN cache_ \ DOMAIN cache_' :
          cache_[k].is_metadata => \A j \in DOMAIN cache_ : cache_[j].is_metadata
<1>1. CacheInv /\ [Next]_vars => [Last]_vars
  <2> SUFFICES ASSUME CacheInv, Next, NEW t \in Threads, pc[t] = "evict",
                      NEW k \in DOMAIN cache_ \ DOMAIN cache_', cache_[k].is_metadata,
                      NEW j \in DOMAIN cache_, ~cache_[j].is_metadata
               PROVE  FALSE
    BY DEF vars
  <2>1. \A i \in DOMAIN cache_ : cache_[i] \in Entries
    BY DEF CacheInv, AccessInv, CacheTypes
  <2>2. PICK s \in Threads : EvictOne(s)
    <3>1. PICK s \in Threads :
            ReadAt(s) \/ WriteAt(s) \/ PutExisting(s) \/ PutNew(s) \/ EvictOne(s) \/ PutInsert(s)
      BY DEF Next
    <3>2. CASE ReadAt(s)
      BY <3>2 DEF ReadAt, CallReadAt, Hit, Count, Age, DecayAll, Miss, ReadDisk, ReadDiskFails,
                  HasRoom, PutIfRoom, Insert, poolVars
    <3>3. CASE WriteAt(s)
      BY <3>3 DEF WriteAt, InvalidateSegment, WriteDisk, NoneInside, poolVars
    <3>4. CASE PutExisting(s) \/ PutNew(s)
      BY <3>4 DEF PutExisting, PutNew, poolVars
    <3>5. CASE PutInsert(s)
      BY <3>5 DEF PutInsert, Insert
    <3> QED
      BY <3>1, <3>2, <3>3, <3>4, <3>5
  <2>3. PICK i \in DOMAIN cache_ :
          /\ \A m \in DOMAIN cache_ : ComputeWeight(cache_[i]) <= ComputeWeight(cache_[m])
          /\ EraseAll({i})
    BY <2>2 DEF EvictOne
  <2>4. i = k
    BY <2>3 DEF EraseAll
  <2>5. ComputeWeight(cache_[k]) <= ComputeWeight(cache_[j])
    BY <2>3, <2>4
  <2>6. ComputeWeight(cache_[j]) < ComputeWeight(cache_[k])
    BY <2>1, WeightsApart
  <2>7. \A e \in Entries : ComputeWeight(e) \in Int
    BY NumbersAssumption DEF ComputeWeight, Entries, NumbersAssumption
  <2> QED
    BY <2>1, <2>5, <2>6, <2>7
<1> QED
  BY <1>1, Invariant, PTL DEF Spec, MetadataEvictedLast

=============================================================================
