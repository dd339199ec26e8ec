---------------------------- MODULE IndexProofs ----------------------------
(***************************************************************************)
(* Theorems about Index, for every number of nodes, every metric and       *)
(* configuration, every query, beam and budget: first the search of a      *)
(* built segment, whatever its graph is, then the construction, and last   *)
(* what the one does for the other.                                        *)
(*                                                                         *)
(* The search: the invariant for a narrow beam (Nearby) says that whatever *)
(* the beam cut off, or will cut off, something at least as close was      *)
(* visited or is still in the frontier.  It holds until a read fails; what *)
(* does not depend on distances (VisitsCounted) or says only what they     *)
(* were read to be (ResultsAlwaysBest) holds after that too.               *)
(*                                                                         *)
(* The construction: RobustPrune chooses the entries to keep and           *)
(* GreedySearch is a recursive function, so what they give is first shown  *)
(* to exist, and then bounded; both by the least number at which it would  *)
(* fail (LeastNumber).  ListsInv is what holds of the lists of any         *)
(* configuration, PathsInv what holds of those that are not cut short:     *)
(* from every improved node each other node is a neighbor or has one that  *)
(* is closer, and the lists of the others are still complete.              *)
(***************************************************************************)
EXTENDS Index, FiniteSetTheorems, SequenceTheorems, WellFoundedInduction, TLAPS

BuildPhases == {"start", "improve", "fill", "brute", "built"}

\* A search has not begun: none of its variables has been touched.
Untouched ==
  /\ frontier = [n \in Nodes |-> 0]
  /\ visited = {} /\ visited_count = 0 /\ heap = {} /\ scored = {}
  /\ prefetch_requests = {} /\ pending = {} /\ completed = {}
  /\ blank = {} /\ misplaced = {} /\ ~faulty

\* The metric is one until the query, and what the query brings is typed.
TypesInv ==
  /\ SearchTypeOK
  /\ phase \in BuildPhases \cup {"searched"}
  /\ phase \in BuildPhases => L2Squared \in Metrics
  /\ pc \in {"idle", "start"} => Untouched

-----------------------------------------------------------------------------
(***************************************************************************)
(* Finite sets and sequences.                                              *)
(***************************************************************************)

\* The least-number principle, for a set: what induction over a number rests on.
LEMMA LeastNumber ==
  ASSUME NEW T, T \subseteq Nat, T # {}
  PROVE  \E x \in T : \A y \in T : x <= y
<1> DEFINE Less == OpToRel(<, Nat)
<1>1. IsWellFoundedOn(Less, Nat)
  BY NatLessThanWellFounded
<1>2. \A x, y \in Nat : x < y => <<x, y>> \in Less
  BY DEF OpToRel
<1> HIDE DEF Less
<1>3. PICK x \in T : \A y \in T : ~ (<<y, x>> \in Less)
  BY <1>1, WFMin
<1>4. \A y \in T : y \in Nat /\ ~ (y < x)
  BY <1>2, <1>3
<1>5. \A a, b \in Nat : ~ (a < b) => b <= a
  OBVIOUS
<1> QED
  BY <1>4, <1>5

\* A finite set has an element that no other follows in a given order.
LEMMA LastElement ==
  ASSUME NEW A, IsFiniteSet(A), A # {}, NEW R,
         \A x \in A : <<x, x>> \notin R,
         \A x, y, z \in A : <<x, y>> \in R /\ <<y, z>> \in R => <<x, z>> \in R
  PROVE  \E x \in A : \A y \in A : <<x, y>> \notin R
<1> DEFINE After(x) == {y \in A : <<x, y>> \in R}
           sizes == {Cardinality(After(x)) : x \in A}
<1>1. \A x \in A : IsFiniteSet(After(x)) /\ Cardinality(After(x)) \in Nat
  BY FS_Subset, FS_CardinalityType
<1> HIDE DEF After
<1>2. PICK x \in A : \A y \in A : Cardinality(After(x)) <= Cardinality(After(y))
  <2>1. \A n \in sizes : n \in Nat
    BY <1>1
  <2>2. PICK x0 \in A : TRUE
    OBVIOUS
  <2>3. Cardinality(After(x0)) \in sizes
    OBVIOUS
  <2>4. sizes \subseteq Nat /\ sizes # {}
    BY <2>1, <2>3
  <2>5. PICK n \in sizes : \A m \in sizes : n <= m
    <3> HIDE DEF sizes
    <3> QED
      BY <2>4, LeastNumber
  <2>6. PICK x \in A : n = Cardinality(After(x))
    BY <2>5
  <2>7. \A y \in A : Cardinality(After(y)) \in sizes
    OBVIOUS
  <2> QED
    BY <2>5, <2>6, <2>7
<1>3. ASSUME NEW y \in A, <<x, y>> \in R PROVE FALSE
  <2>1. After(y) \in SUBSET After(x) /\ y \in After(x) /\ y \notin After(y)
    BY <1>3 DEF After
  <2>2. Cardinality(After(y)) <= Cardinality(After(x)) /\ Cardinality(After(x)) # Cardinality(After(y))
    BY <1>1, <2>1, FS_Subset
  <2> QED
    BY <1>1, <1>2, <2>2
<1> QED
  BY <1>3

\* What SetToSeq returns: every element, once.
LEMMA Enumerated ==
  ASSUME NEW S, IsFiniteSet(S)
  PROVE  /\ SetToSeq(S) \in Seq(S) /\ Len(SetToSeq(S)) = Cardinality(S)
         /\ ToSet(SetToSeq(S)) = S
         /\ IsInjective(SetToSeq(S))
<1> DEFINE D == 1..Cardinality(S)
           f == SetToSeq(S)
<1>1. Cardinality(S) \in Nat /\ ExistsBijection(D, S)
  BY FS_CardinalityType
<1>2. \E g \in [D -> S] : IsInjective(g)
  BY <1>1 DEF ExistsBijection, Bijection, Injection
<1>3. f \in [D -> S] /\ IsInjective(f)
  BY <1>2 DEF SetToSeq
<1>4. f \in Injection(D, S)
  BY <1>3 DEF Injection
<1>5. IsFiniteSet(D) /\ Cardinality(D) = Cardinality(S)
  BY <1>1, FS_Interval
<1>6. f \in Surjection(D, S)
  BY <1>4, <1>5, FS_Injection
<1>7. ToSet(f) = S
  BY <1>3, <1>6 DEF Surjection, ToSet
<1> QED
  BY <1>1, <1>3, <1>7 DEF IsInjective

\* The entries of a list are at most as many as its places, and as many if none is
\* there twice.
LEMMA ListEntries ==
  ASSUME NEW S, NEW list \in Seq(S)
  PROVE  /\ IsFiniteSet(ToSet(list)) /\ Cardinality(ToSet(list)) \in Nat
         /\ Cardinality(ToSet(list)) <= Len(list)
         /\ Cardinality(ToSet(list)) = Len(list) <=> IsInjective(list)
<1> DEFINE D == 1..Len(list)
<1>1. Len(list) \in Nat /\ list \in [D -> S] /\ DOMAIN list = D
  BY LenProperties
<1>2. ToSet(list) = {list[k] : k \in D}
  BY <1>1 DEF ToSet
<1>3. list \in [D -> ToSet(list)]
  BY <1>1, <1>2
<1>4. list \in Surjection(D, ToSet(list))
  BY <1>2, <1>3 DEF Surjection
<1>5. IsFiniteSet(D) /\ Cardinality(D) = Len(list)
  BY <1>1, FS_Interval
<1>6. list \in Injection(D, ToSet(list)) <=> IsInjective(list)
  BY <1>1, <1>3 DEF Injection, IsInjective
<1> QED
  BY <1>4, <1>5, <1>6, FS_Surjection, FS_CardinalityType

LEMMA NodesFinite == IsFiniteSet(Nodes) /\ Cardinality(Nodes) = Count
<1>1. Count \in Int /\ Count - 1 \in Int /\ 0 <= Count - 1
  BY CountAssumption DEF CountAssumption
<1> QED
  BY <1>1, FS_Interval DEF Nodes

-----------------------------------------------------------------------------
(***************************************************************************)
(* TopK.                                                                   *)
(***************************************************************************)

LEMMA EmptyIsBest == ASSUME NEW k \in Nat PROVE IsBest({}, k, {})
  BY FS_EmptySet DEF IsBest

\* A result that is added to the best k of some results leaves the best k of these
\* and itself.
LEMMA AddedIsBest ==
  ASSUME NEW heap0, NEW offered, NEW k \in Nat, NEW r,
         IsFiniteSet(offered), r \notin offered, r.distance \in Int,
         \A s \in offered : s.distance \in Int,
         IsBest(heap0, k, offered)
  PROVE  \A heap1 \in Added(heap0, k, r) : IsBest(heap1, k, offered \cup {r})
<1>1. /\ IsFiniteSet(heap0) /\ Cardinality(heap0) \in Nat
      /\ Cardinality(offered) \in Nat /\ Cardinality(heap0) <= Cardinality(offered)
      /\ Cardinality(offered \cup {r}) = Cardinality(offered) + 1
      /\ heap0 \subseteq offered
      /\ Cardinality(heap0) = Cardinality(offered) => heap0 = offered
  BY FS_Subset, FS_CardinalityType, FS_AddElement DEF IsBest
<1>2. Cardinality(heap0) = IF Cardinality(offered) < k THEN Cardinality(offered) ELSE k
  BY DEF IsBest
<1>3. CASE k = 0
  <2>1. Cardinality(heap0) = 0
    BY <1>1, <1>2, <1>3
  <2>2. heap0 = {}
    BY <1>1, <2>1, FS_EmptySet
  <2>3. IsBest({}, k, offered \cup {r})
    BY <1>1, <1>3, FS_EmptySet DEF IsBest
  <2> QED
    BY <1>3, <2>2, <2>3 DEF Added
<1>4. CASE k # 0 /\ Cardinality(heap0) < k
  <2>1. heap0 = offered
    BY <1>1, <1>2, <1>4
  <2>2. IsBest(offered \cup {r}, k, offered \cup {r})
    BY <1>1, <1>4, <2>1 DEF IsBest
  <2> QED
    BY <1>4, <2>1, <2>2 DEF Added
<1>5. CASE k # 0 /\ ~(Cardinality(heap0) < k)
  <2>1. Cardinality(heap0) = k /\ Cardinality(offered) >= k
    BY <1>1, <1>2, <1>5
  <2>2. ~(Cardinality(offered \cup {r}) < k)
    BY <1>1, <2>1
  <2>3. \A x \in heap0, s \in offered \ heap0 : x.distance <= s.distance
    BY DEF IsBest
  <2> SUFFICES ASSUME NEW w \in Worst(heap0)
               PROVE  IsBest(IF r.distance < w.distance THEN (heap0 \ {w}) \cup {r} ELSE heap0,
                             k, offered \cup {r})
    BY <1>5 DEF Added
  <2>4. w \in heap0 /\ w.distance \in Int /\ \A x \in heap0 : x.distance <= w.distance
    BY <1>1 DEF Worst
  <2>5. CASE r.distance < w.distance
    <3> DEFINE new == (heap0 \ {w}) \cup {r}
    <3>1. Cardinality(new) = k /\ new \subseteq offered \cup {r}
      <4>1. /\ IsFiniteSet(heap0 \ {w}) /\ Cardinality(heap0 \ {w}) = k - 1
            /\ r \notin heap0 \ {w}
        BY <1>1, <2>1, <2>4, FS_RemoveElement
      <4>2. Cardinality(new) = Cardinality(heap0 \ {w}) + 1
        BY <4>1, FS_AddElement
      <4> QED
        BY <1>1, <4>1, <4>2
    <3>2. ASSUME NEW x \in new, NEW s \in (offered \cup {r}) \ new
          PROVE x.distance <= s.distance
      <4>1. (s \in offered /\ s \notin heap0) \/ s = w
        BY <3>2
      <4>2. w.distance <= s.distance
        BY <2>3, <2>4, <4>1
      <4>3. x \in heap0 \/ x = r
        OBVIOUS
      <4>4. s.distance \in Int /\ x.distance \in Int
        BY <1>1, <4>1, <4>3, <2>4
      <4> QED
        BY <2>4, <2>5, <4>2, <4>3, <4>4
    <3> QED
      BY <2>2, <2>5, <3>1, <3>2 DEF IsBest
  <2>6. CASE ~(r.distance < w.distance)
    <3>1. ASSUME NEW x \in heap0, NEW s \in (offered \cup {r}) \ heap0
          PROVE x.distance <= s.distance
      <4>1. CASE s = r
        BY <1>1, <2>4, <2>6, <4>1
      <4>2. CASE s # r
        BY <2>3, <4>2
      <4> QED
        BY <4>1, <4>2
    <3> QED
      BY <1>1, <2>1, <2>2, <2>6, <3>1 DEF IsBest
  <2> QED
    BY <2>5, <2>6
<1> QED
  BY <1>3, <1>4, <1>5

-----------------------------------------------------------------------------
(***************************************************************************)
(* The types of a search.                                                  *)
(***************************************************************************)

LEMMA InitTypes == Init => TypesInv
<1> SUFFICES ASSUME Init PROVE TypesInv
  OBVIOUS
<1>1. [n \in Nodes |-> 0] \in [Nodes -> Nat]
  OBVIOUS
<1> QED
  BY <1>1 DEF Init, BuildInit, SearchInit, TypesInv, SearchTypeOK, Untouched, BuildPhases

LEMMA BuildTypes ==
  ASSUME TypesInv, Build, UNCHANGED searchVars
  PROVE  TypesInv'
<1>1. /\ phase \in BuildPhases /\ phase' \in BuildPhases
      /\ UNCHANGED L2Squared
  BY DEF Build, BruteForce, RandomGraph, Improve, Fill, BuildPhases, buildInput
<1>2. SearchTypeOK'
  BY DEF TypesInv, SearchTypeOK, searchVars, searchInput, Result
<1>3. pc' \in {"idle", "start"} => Untouched'
  BY DEF TypesInv, Untouched, searchVars, searchInput
<1> QED
  BY <1>1, <1>2, <1>3 DEF TypesInv

LEMMA QueryTypes ==
  ASSUME TypesInv, Query
  PROVE  TypesInv'
<1>1. /\ phase' = "searched" /\ pc' = "start" /\ pc = "idle"
      /\ UNCHANGED <<frontier, visited, visited_count, heap, prefetch_requests, pending,
                     completed, blank, misplaced, scored, faulty>>
      /\ params' \in Params /\ prefetching' \in BOOLEAN
  BY DEF Query, Call
<1>2. L2Squared \in [Nodes -> [Nodes -> Nat]]
  BY MetricsAssumption DEF Query, TypesInv, MetricsAssumption, BuildPhases
<1>3. \A q \in Nodes : L2Squared[q] \in [Nodes -> Nat]
  BY <1>2
<1>4. exact' \in [Nodes -> Nat] /\ approx' \in [Nodes -> Nat] /\ use_pq' \in BOOLEAN
  <2>1. CASE \E q \in Queried : Call(Record, L2Squared[q], FALSE, L2Squared[q])
    BY <1>3, <2>1, QueriedAssumption DEF Call, QueriedAssumption
  <2>2. CASE \E d, a \in Distances, pq \in BOOLEAN : Call(Record, d, pq, a)
    BY <2>2, DistancesAssumption DEF Call, DistancesAssumption
  <2> QED
    BY <2>1, <2>2 DEF Query
<1>5. params' \in [top_k : Nat, beam_width : Nat, max_visits : Nat]
  BY <1>1, ParamsAssumption DEF ParamsAssumption
<1>6. Untouched /\ Untouched'
  BY <1>1 DEF TypesInv, Untouched
<1>7. SearchTypeOK'
  BY <1>1, <1>4, <1>5, <1>6 DEF TypesInv, SearchTypeOK, Untouched
<1> QED
  BY <1>1, <1>6, <1>7 DEF TypesInv, BuildPhases

\* What trimming leaves is a frontier, and no more of any node than there was.
LEMMA TrimmedTypes ==
  ASSUME NEW f \in [Nodes -> Nat], params.beam_width \in Nat, NEW g \in Trimmed(f)
  PROVE  g \in [Nodes -> Nat] /\ \A n \in Nodes : g[n] <= f[n]
BY DEF Trimmed, Cut

LEMMA AddedSubset ==
  ASSUME NEW h, NEW k, NEW r, NEW h2 \in Added(h, k, r)
  PROVE  h2 \subseteq h \cup {r}
BY DEF Added

\* The frontier that Visit trims, when n is visited and the nodes in pushed are pushed.
Grown(n, pushed) ==
  [m \in Nodes |-> Erased(frontier, n)[m] + (IF m \in pushed THEN 1 ELSE 0)]

LEMMA ErasedTypes ==
  ASSUME SearchTypeOK, NEW n \in NextCandidates
  PROVE  /\ Erased(frontier, n) \in [Nodes -> Nat]
         /\ \A pushed : Grown(n, pushed) \in [Nodes -> Nat]
<1>1. n \in Nodes /\ frontier \in [Nodes -> Nat] /\ frontier[n] > 0
  BY DEF NextCandidates, InFrontier, SearchTypeOK
<1>2. Erased(frontier, n) \in [Nodes -> Nat]
  BY <1>1 DEF Erased
<1> QED
  BY <1>2 DEF Grown

\* Node n is visited as one at the distance d with the neighbors links, of which those in
\* unread cannot be read.
VisitedAs(n, d, links, unread) ==
  /\ unread \subseteq links \ (visited \cup {n})
  /\ faulty' \in BOOLEAN /\ (~faulty' => ~faulty /\ unread = {} /\ n \notin blank)
  /\ visited' = visited \cup {n}
  /\ scored' = scored \cup {[id |-> n, distance |-> d]}
  /\ heap' \in Added(heap, params.top_k, [id |-> n, distance |-> d])
  /\ completed' \subseteq completed /\ blank' \subseteq blank
  /\ misplaced' \subseteq misplaced \cup blank
  /\ misplaced' # misplaced => faulty'
  /\ frontier' \in Trimmed(Grown(n, (links \ (visited \cup {n})) \ unread))

LEMMA ExpandParts ==
  ASSUME SearchTypeOK, NEW n \in NextCandidates, NEW d, NEW links \in SUBSET Nodes,
         Expand(n, d, links)
  PROVE  \E unread \in SUBSET Nodes : VisitedAs(n, d, links, unread)
<1> DEFINE next == links \ (visited \cup {n})
           to_read == IF use_pq THEN {} ELSE next \ completed
           taken == {n} \cup (IF use_pq THEN {} ELSE next \cap completed)
<1>1. /\ visited' = visited \cup {n}
      /\ scored' = scored \cup {[id |-> n, distance |-> d]}
      /\ heap' \in Added(heap, params.top_k, [id |-> n, distance |-> d])
      /\ completed' = completed \ taken
      /\ blank' = blank \ taken
      /\ misplaced' = misplaced \cup ((taken \cap blank) \ {n})
      /\ \E unread \in SUBSET to_read :
           /\ faulty' = (faulty \/ unread # {} \/ taken \cap blank # {})
           /\ frontier' \in Trimmed(Grown(n, next \ unread))
  BY DEF Expand, Grown
<1>2. PICK unread \in SUBSET to_read :
           /\ faulty' = (faulty \/ unread # {} \/ taken \cap blank # {})
           /\ frontier' \in Trimmed(Grown(n, next \ unread))
  BY <1>1
<1>3. unread \in SUBSET next /\ unread \in SUBSET Nodes
  OBVIOUS
<1>4. n \in taken
  OBVIOUS
<1>5. faulty \in BOOLEAN
  BY DEF SearchTypeOK
<1> HIDE DEF to_read, taken
<1>6. faulty' \in BOOLEAN /\ (~faulty' => ~faulty /\ unread = {} /\ n \notin blank)
  BY <1>2, <1>4, <1>5
<1>7. misplaced' # misplaced => faulty'
  BY <1>1, <1>2
<1>8. misplaced' \subseteq misplaced \cup blank
  BY <1>1
<1>9. VisitedAs(n, d, links, unread)
  BY <1>1, <1>2, <1>3, <1>6, <1>7, <1>8 DEF VisitedAs
<1> QED
  BY <1>3, <1>9

\* A visit, with its choices named: unless something has failed, the node is as it is
\* in the segment.
LEMMA VisitParts ==
  ASSUME SearchTypeOK, Visit
  PROVE  \E n \in NextCandidates, d \in Nat, links \in SUBSET Nodes, unread \in SUBSET Nodes :
           /\ n \in Nodes /\ n \notin visited
           /\ ~faulty' => d = exact[n] /\ links = Neighbors(n)
           /\ VisitedAs(n, d, links, unread)
<1>1. PICK n \in NextCandidates :
        /\ Fresh(n)
        /\ IF n \in blank
           THEN \E d \in Misread, part \in SUBSET Neighbors(n) : Expand(n, d, part \cup {0})
           ELSE Expand(n, exact[n], Neighbors(n))
  BY DEF Visit
<1>2. n \in Nodes /\ n \notin visited /\ 0 \in Nodes
  BY <1>1, CountAssumption DEF NextCandidates, InFrontier, Fresh, Nodes, CountAssumption
<1>3. CASE n \in blank
  <2>1. PICK d \in Misread, part \in SUBSET Neighbors(n) : Expand(n, d, part \cup {0})
    BY <1>1, <1>3
  <2>2. d \in Nat /\ part \cup {0} \in SUBSET Nodes
    BY <1>2, MisreadAssumption DEF MisreadAssumption, Neighbors
  <2>3. PICK unread \in SUBSET Nodes : VisitedAs(n, d, part \cup {0}, unread)
    BY <2>1, <2>2, ExpandParts
  <2>4. faulty'
    BY <1>3, <2>3 DEF VisitedAs
  <2> QED
    BY <1>2, <2>2, <2>3, <2>4
<1>4. CASE n \notin blank
  <2>1. exact[n] \in Nat /\ Neighbors(n) \in SUBSET Nodes
    BY <1>2 DEF SearchTypeOK, Neighbors
  <2>2. PICK unread \in SUBSET Nodes : VisitedAs(n, exact[n], Neighbors(n), unread)
    BY <1>1, <1>4, <2>1, ExpandParts
  <2> QED
    BY <1>2, <2>1, <2>2
<1> QED
  BY <1>3, <1>4

LEMMA PrefetchTypes ==
  ASSUME SearchTypeOK, SubmitPrefetches
  PROVE  \E R \in SUBSET Nodes :
           /\ R \cap prefetch_requests = {}
           /\ prefetch_requests' = prefetch_requests \cup R
           /\ pending' = pending \cup R
<1>1. CASE ~prefetching
  <2>1. /\ {} \in SUBSET Nodes /\ {} \cap prefetch_requests = {}
        /\ prefetch_requests' = prefetch_requests \cup {} /\ pending' = pending \cup {}
    BY <1>1 DEF SubmitPrefetches
  <2> QED
    BY <2>1
<1>2. CASE prefetching
  BY <1>2 DEF SubmitPrefetches
<1> QED
  BY <1>1, <1>2

LEMMA SearchTypes ==
  ASSUME TypesInv, Search \/ Arrive, UNCHANGED buildVars
  PROVE  TypesInv'
<1> SUFFICES SearchTypeOK' /\ (pc' \in {"idle", "start"} => Untouched')
  BY DEF TypesInv, buildVars, buildInput
<1> USE DEF TypesInv
<1>1. CASE Start
  <2>1. frontier' \in [Nodes -> Nat]
    BY <1>1 DEF Start, SearchTypeOK
  <2> QED
    BY <1>1, <2>1 DEF Start, SearchTypeOK, searchInput, Result
<1>2. CASE StartFails
  BY <1>2 DEF StartFails, SearchTypeOK, searchInput, Result
<1>3. CASE SkipVisited
  <2>1. frontier' \in [Nodes -> Nat]
    BY <1>3, ErasedTypes DEF SkipVisited
  <2> QED
    BY <1>3, <2>1 DEF SkipVisited, SearchTypeOK, searchInput, Result
<1>4. CASE VisitFails
  <2>1. PICK n \in NextCandidates :
          frontier' = Erased(frontier, n) /\ visited' = visited \cup {n}
    BY <1>4 DEF VisitFails
  <2>2. frontier' \in [Nodes -> Nat] /\ n \in Nodes
    BY <2>1, ErasedTypes DEF NextCandidates, InFrontier
  <2> QED
    BY <1>4, <2>1, <2>2 DEF VisitFails, SearchTypeOK, searchInput, Result
<1>5. CASE Visit
  <2>1. PICK n \in NextCandidates, d \in Nat, pushed \in SUBSET Nodes :
           /\ n \in Nodes
           /\ visited' = visited \cup {n}
           /\ scored' = scored \cup {[id |-> n, distance |-> d]}
           /\ heap' \in Added(heap, params.top_k, [id |-> n, distance |-> d])
           /\ completed' \subseteq completed /\ blank' \subseteq blank
           /\ misplaced' \subseteq misplaced \cup blank
           /\ misplaced' # misplaced => faulty'
           /\ faulty' \in BOOLEAN /\ (~faulty' => ~faulty)
           /\ frontier' \in Trimmed(Grown(n, pushed))
    <3>1. PICK n \in NextCandidates, d \in Nat, links \in SUBSET Nodes, unread \in SUBSET Nodes :
            n \in Nodes /\ VisitedAs(n, d, links, unread)
      BY <1>5, VisitParts
    <3>2. (links \ (visited \cup {n})) \ unread \in SUBSET Nodes
      OBVIOUS
    <3> QED
      BY <3>1, <3>2 DEF VisitedAs
  <2>2. frontier' \in [Nodes -> Nat]
    <3>1. Grown(n, pushed) \in [Nodes -> Nat] /\ params.beam_width \in Nat
      BY ErasedTypes DEF SearchTypeOK
    <3> QED
      BY <2>1, <3>1, TrimmedTypes
  <2>3. heap' \subseteq heap \cup {[id |-> n, distance |-> d]}
    BY <2>1, AddedSubset
  <2>4. PICK R \in SUBSET Nodes : prefetch_requests' = prefetch_requests \cup R
                                  /\ pending' = pending \cup R
    BY <1>5, PrefetchTypes DEF Visit
  <2>5. UNCHANGED <<searchInput, pc>> /\ visited_count' = visited_count + 1 /\ pc = "loop"
    BY <1>5 DEF Visit
  <2>6. heap' \subseteq scored' /\ scored' \subseteq [id : visited', distance : Nat]
    <3>1. heap \subseteq scored /\ scored \subseteq [id : visited, distance : Nat]
      BY DEF SearchTypeOK
    <3>2. [id |-> n, distance |-> d] \in [id : visited', distance : Nat]
      BY <2>1
    <3>3. [id : visited, distance : Nat] \subseteq [id : visited', distance : Nat]
      BY <2>1
    <3> QED
      BY <2>1, <2>3, <3>1, <3>2, <3>3
  <2>7. misplaced' \subseteq Nodes /\ (misplaced' # {} => faulty')
    BY <2>1 DEF SearchTypeOK
  <2> QED
    BY <2>1, <2>2, <2>4, <2>5, <2>6, <2>7 DEF SearchTypeOK, searchInput
<1>8. CASE ParseNothing
  BY <1>8 DEF ParseNothing, SearchTypeOK, searchInput
<1>6. CASE Finish
  BY <1>6 DEF Finish, SearchTypeOK, searchInput, Result
<1>7. CASE Arrive
  BY <1>7 DEF Arrive, SearchTypeOK, searchInput, Result, Untouched
<1> QED
  BY <1>1, <1>2, <1>3, <1>4, <1>5, <1>6, <1>7, <1>8 DEF Search

LEMMA StepTypes == TypesInv /\ [Next]_vars => TypesInv'
<1> SUFFICES ASSUME TypesInv, [Next]_vars PROVE TypesInv'
  OBVIOUS
<1>1. CASE Build /\ UNCHANGED <<searchVars, stored>>
  BY <1>1, BuildTypes
<1>2. CASE Query
  BY <1>2, QueryTypes
<1>3. CASE (Search \/ Arrive) /\ UNCHANGED <<buildVars, stored>>
  BY <1>3, SearchTypes
<1>4. CASE UNCHANGED vars
  BY <1>4 DEF vars, buildVars, buildInput, searchVars, searchInput, TypesInv, SearchTypeOK,
              Untouched, Result
<1> QED
  BY <1>1, <1>2, <1>3, <1>4 DEF Next, Returned

\* Type correctness of a search: its frontier, its results and the requests of its
\* prefetches (graph_search.cpp:18-52).
THEOREM SearchTypeCorrect == Spec => []SearchTypeOK
<1>1. TypesInv => SearchTypeOK
  BY DEF TypesInv
<1> QED
  BY <1>1, InitTypes, StepTypes, PTL DEF Spec

-----------------------------------------------------------------------------
(***************************************************************************)
(* The safety of a search.                                                 *)
(***************************************************************************)

\* A step of Index, for what is said about the search.
LEMMA Steps ==
  ASSUME [Next]_vars
  PROVE  UNCHANGED searchVars \/ Query \/ Search \/ Arrive
BY DEF Next, Returned, vars

\* A query finds the variables of the search as they were at the beginning.
LEMMA QueryStarts ==
  ASSUME TypesInv, Query
  PROVE  Untouched /\ Untouched' /\ pc' = "start"
<1>1. /\ pc' = "start" /\ pc = "idle"
      /\ UNCHANGED <<frontier, visited, visited_count, heap, prefetch_requests, pending,
                     completed, blank, misplaced, scored, faulty>>
  BY DEF Query, Call
<1> QED
  BY <1>1 DEF TypesInv, Untouched

\* The heap holds the best of all results offered to it, in whatever order they come
\* and whatever is worst when it is full (topk.h:14-27, graph_search.cpp:93).
THEOREM ResultsAlwaysBest == Spec => []ResultsAreBest
<1> DEFINE Inv == TypesInv /\ IsFiniteSet(scored) /\ ResultsAreBest
<1>1. Init => Inv
  BY InitTypes, EmptyIsBest, FS_EmptySet DEF Init, SearchInit, ResultsAreBest
<1>2. Inv /\ [Next]_vars => Inv'
  <2> SUFFICES ASSUME TypesInv, IsFiniteSet(scored), ResultsAreBest, [Next]_vars
               PROVE  IsFiniteSet(scored)' /\ ResultsAreBest'
    BY StepTypes
  <2>1. CASE Visit
    <3>1. PICK n \in Nodes, d \in Nat :
            /\ n \notin visited
            /\ scored' = scored \cup {[id |-> n, distance |-> d]}
            /\ heap' \in Added(heap, params.top_k, [id |-> n, distance |-> d])
      BY <2>1, VisitParts DEF TypesInv, VisitedAs
    <3> DEFINE result == [id |-> n, distance |-> d]
    <3>2. /\ result \notin scored /\ result.distance \in Int
          /\ \A s \in scored : s.distance \in Int
      BY <3>1 DEF TypesInv, SearchTypeOK
    <3>3. params.top_k \in Nat
      BY DEF TypesInv, SearchTypeOK
    <3>4. IsBest(heap', params.top_k, scored \cup {result})
      BY <3>1, <3>2, <3>3, AddedIsBest DEF ResultsAreBest
    <3>5. params' = params
      BY <2>1 DEF Visit, searchInput
    <3> QED
      BY <3>1, <3>4, <3>5, FS_AddElement DEF ResultsAreBest
  <2>2. CASE Query
    <3>1. heap' = {} /\ scored' = {} /\ params'.top_k \in Nat
      BY <2>2, QueryStarts, StepTypes DEF Untouched, TypesInv, SearchTypeOK
    <3> QED
      BY <3>1, EmptyIsBest, FS_EmptySet DEF ResultsAreBest
  <2>3. CASE UNCHANGED <<params, heap, scored>>
    BY <2>3 DEF ResultsAreBest
  <2>4. CASE UNCHANGED searchVars
    BY <2>3, <2>4 DEF searchVars, searchInput
  <2>5. CASE \/ Start \/ StartFails \/ SkipVisited \/ VisitFails \/ ParseNothing
             \/ Finish \/ Arrive
    BY <2>3, <2>5 DEF Start, StartFails, SkipVisited, VisitFails, ParseNothing, Finish, Arrive,
                      searchInput
  <2> QED
    BY <2>1, <2>2, <2>4, <2>5, Steps DEF Search
<1> QED
  BY <1>1, <1>2, PTL DEF Spec

\* The count that ends a search is the number of nodes it has visited, copies in the
\* frontier or not, and it does not exceed the budget (graph_search.cpp:54, 64-68).
THEOREM VisitsCounted == Spec => []EachVisitCounted
<1> DEFINE Inv == TypesInv /\ IsFiniteSet(visited) /\ EachVisitCounted
<1>1. Init => Inv
  BY InitTypes, FS_EmptySet DEF Init, SearchInit, EachVisitCounted
<1>2. Inv /\ [Next]_vars => Inv'
  <2> SUFFICES ASSUME TypesInv, IsFiniteSet(visited), EachVisitCounted, [Next]_vars
               PROVE  IsFiniteSet(visited)' /\ EachVisitCounted'
    BY StepTypes
  <2>1. CASE Visit \/ VisitFails
    <3>1. \E n \in Nodes : n \notin visited /\ visited' = visited \cup {n}
      <4>1. CASE Visit
        BY <4>1, VisitParts DEF TypesInv, VisitedAs
      <4>2. CASE VisitFails
        BY <4>2 DEF VisitFails, NextCandidates, InFrontier, Fresh
      <4> QED
        BY <2>1, <4>1, <4>2
    <3>2. /\ visited_count' = visited_count + 1 /\ visited_count < params.max_visits
          /\ params' = params /\ params.max_visits \in Nat /\ visited_count \in Nat
      BY <2>1 DEF Visit, VisitFails, GoesOn, searchInput, TypesInv, SearchTypeOK
    <3>3. IsFiniteSet(visited') /\ Cardinality(visited') = Cardinality(visited) + 1
      BY <3>1, FS_AddElement
    <3> QED
      BY <3>2, <3>3 DEF EachVisitCounted
  <2>2. CASE Query
    <3>1. visited' = {} /\ visited_count' = 0 /\ params'.max_visits \in Nat
      BY <2>2, QueryStarts, StepTypes DEF Untouched, TypesInv, SearchTypeOK
    <3> QED
      BY <3>1, FS_EmptySet DEF EachVisitCounted
  <2>3. CASE UNCHANGED <<params, visited, visited_count>>
    BY <2>3 DEF EachVisitCounted
  <2>4. CASE UNCHANGED searchVars
    BY <2>3, <2>4 DEF searchVars, searchInput
  <2>5. CASE Start \/ StartFails \/ SkipVisited \/ ParseNothing \/ Finish \/ Arrive
    BY <2>3, <2>5 DEF Start, StartFails, SkipVisited, ParseNothing, Finish, Arrive, searchInput
  <2> QED
    BY <2>1, <2>2, <2>4, <2>5, Steps DEF Search
<1> QED
  BY <1>1, <1>2, PTL DEF Spec

-----------------------------------------------------------------------------
(***************************************************************************)
(* What a search reaches.                                                  *)
(***************************************************************************)

Known == visited \cup InFrontier

\* Unless a read has failed, a neighbor of a visited node has been visited or waits,
\* if there is no beam; with one, something as close as it has been or does.
Reached ==
  pc \in {"loop", "done"} /\ ~faulty /\ params.beam_width = 0 =>
    entry \in Known /\ \A n \in visited : Neighbors(n) \subseteq Known

Nearby ==
  pc \in {"loop", "done"} /\ ~faulty =>
    \A n \in visited : \A m \in Neighbors(n) : \E x \in Known : Dist(x) <= Dist(m)

LEMMA DistType == ASSUME SearchTypeOK, NEW n \in Nodes PROVE Dist(n) \in Nat
  BY DEF Dist, SearchTypeOK

\* The step of a search that takes one copy of a visited node out of the frontier.
LEMMA SkipKnown ==
  ASSUME SearchTypeOK, SkipVisited
  PROVE  /\ Known' = Known /\ UNCHANGED <<searchInput, visited, pc, faulty>>
<1>1. PICK n \in NextCandidates : n \in visited /\ frontier' = Erased(frontier, n)
  BY DEF SkipVisited, Fresh
<1>2. \A m \in Nodes : m # n => frontier'[m] = frontier[m]
  BY <1>1 DEF Erased
<1>3. UNCHANGED <<searchInput, visited, pc, faulty>>
  BY DEF SkipVisited
<1> QED
  BY <1>1, <1>2, <1>3 DEF Known, InFrontier

\* What is in the frontier that Visit trims: the old one but for the visited node, and
\* what is pushed.
LEMMA GrownKnown ==
  ASSUME SearchTypeOK, NEW n \in NextCandidates, NEW pushed \in SUBSET Nodes, NEW m \in Nodes,
         m \in pushed \/ (m \in InFrontier /\ m # n)
  PROVE  Grown(n, pushed)[m] > 0
<1>1. frontier[m] \in Nat /\ n \in Nodes /\ frontier[n] \in Nat /\ frontier[n] > 0
  BY DEF SearchTypeOK, NextCandidates, InFrontier
<1>2. Erased(frontier, n)[m] \in Nat /\ (m # n => Erased(frontier, n)[m] = frontier[m])
  BY <1>1 DEF Erased
<1>3. Grown(n, pushed)[m] = Erased(frontier, n)[m] + (IF m \in pushed THEN 1 ELSE 0)
  BY DEF Grown
<1> QED
  BY <1>1, <1>2, <1>3 DEF InFrontier

\* A frontier that is not empty holds a node.
LEMMA SizeHolds ==
  ASSUME NEW g \in [Nodes -> Nat], Size(g) > 0
  PROVE  \E n \in Nodes : g[n] > 0
<1> SUFFICES ASSUME \A n \in Nodes : ~(g[n] > 0) PROVE Size(g) = 0
  OBVIOUS
<1>1. \A n \in Nodes : 1..g[n] = {}
  OBVIOUS
<1>2. UNION {{n} \X (1..g[n]) : n \in Nodes} = {}
  BY <1>1
<1> QED
  BY <1>2, FS_EmptySet DEF Size

\* Trimming leaves a candidate as it was, or something at least as close.
LEMMA TrimmedNearby ==
  ASSUME SearchTypeOK, misplaced' = {}, NEW f \in [Nodes -> Nat], NEW g \in Trimmed(f),
         NEW m \in Nodes, f[m] > 0
  PROVE  /\ params.beam_width = 0 => g[m] > 0
         /\ \E x \in Nodes : g[x] > 0 /\ Dist(x) <= Dist(m)
<1>1. CASE g = f
  BY <1>1, DistType
<1>2. CASE g # f
  <2>1. params.beam_width \in Nat \ {0}
    BY <1>2 DEF Trimmed, SearchTypeOK
  <2>2. /\ g \in [Nodes -> Nat] /\ Size(g) = params.beam_width
        /\ \A k \in Nodes : g[k] <= f[k]
        /\ \A n, k \in Nodes : (g[n] > 0 /\ g[k] < f[k]) =>
              [j \in Nodes |-> Dist(j)][n] <= [j \in Nodes |-> Dist(j)][k]
    BY <1>2, <2>1 DEF Trimmed, Cut
  <2>3. CASE g[m] > 0
    BY <2>1, <2>3, DistType
  <2>4. CASE ~(g[m] > 0)
    <3>1. PICK x \in Nodes : g[x] > 0
      BY <2>1, <2>2, SizeHolds
    <3>2. g[m] < f[m]
      BY <2>2, <2>4
    <3> QED
      BY <2>1, <2>2, <3>1, <3>2
  <2> QED
    BY <2>3, <2>4
<1> QED
  BY <1>1, <1>2

\* A visit in which nothing fails leaves all that was known, and the neighbors of the
\* visited node, as it was, or something at least as close.
LEMMA VisitKnown ==
  ASSUME SearchTypeOK, Visit, ~faulty'
  PROVE  \E n \in Nodes :
           /\ visited' = visited \cup {n}
           /\ \A m \in Known \cup Neighbors(n) :
                /\ params.beam_width = 0 => m \in Known'
                /\ \E x \in Known' : Dist(x) <= Dist(m)
<1> DEFINE pushed(n) == Neighbors(n) \ (visited \cup {n})
<1>1. PICK n \in NextCandidates :
        /\ n \in Nodes /\ visited' = visited \cup {n} /\ misplaced' = {}
        /\ frontier' \in Trimmed(Grown(n, pushed(n)))
  <2>1. PICK n \in NextCandidates :
          /\ n \in Nodes /\ visited' = visited \cup {n}
          /\ ~faulty /\ misplaced' = misplaced
          /\ frontier' \in Trimmed(Grown(n, pushed(n) \ {}))
    BY VisitParts DEF VisitedAs
  <2>3. pushed(n) \ {} = pushed(n)
    OBVIOUS
  <2>4. misplaced' = {}
    BY <2>1 DEF SearchTypeOK
  <2> QED
    BY <2>1, <2>3, <2>4
<1>2. /\ Grown(n, pushed(n)) \in [Nodes -> Nat] /\ pushed(n) \in SUBSET Nodes
      /\ visited \subseteq Nodes /\ Neighbors(n) \subseteq Nodes
  BY ErasedTypes DEF Neighbors, SearchTypeOK
<1>3. ASSUME NEW m \in Known \cup Neighbors(n)
      PROVE  /\ params.beam_width = 0 => m \in Known'
             /\ \E x \in Known' : Dist(x) <= Dist(m)
  <2>1. m \in Nodes
    BY <1>2 DEF Known, InFrontier
  <2>2. CASE m \in visited'
    BY <2>1, <2>2, DistType DEF Known
  <2>3. CASE m \notin visited'
    <3>1. m \in pushed(n) \/ (m \in InFrontier /\ m # n)
      BY <1>1, <2>3 DEF Known
    <3>2. Grown(n, pushed(n))[m] > 0
      BY <1>2, <2>1, <3>1, GrownKnown
    <3>3. /\ params.beam_width = 0 => frontier'[m] > 0
          /\ \E x \in Nodes : frontier'[x] > 0 /\ Dist(x) <= Dist(m)
      BY <1>1, <1>2, <2>1, <3>2, TrimmedNearby
    <3> QED
      BY <2>1, <3>3 DEF Known, InFrontier
  <2> QED
    BY <2>2, <2>3
<1> QED
  BY <1>1, <1>3

KnownInv == TypesInv /\ Reached /\ Nearby

LEMMA InitKnown == Init => KnownInv
  BY InitTypes DEF Init, SearchInit, KnownInv, Reached, Nearby

LEMMA StepKnown == KnownInv /\ [Next]_vars => KnownInv'
<1> SUFFICES ASSUME KnownInv, [Next]_vars PROVE Reached' /\ Nearby'
  BY StepTypes DEF KnownInv
<1> USE DEF KnownInv, TypesInv
<1>1. CASE Start
  <2>1. /\ visited' = {} /\ entry \in Nodes /\ frontier' = [frontier EXCEPT ![entry] = 1]
        /\ frontier \in [Nodes -> Nat]
    BY <1>1, CountAssumption DEF Start, Untouched, SearchTypeOK, entry, Nodes, CountAssumption
  <2>2. frontier'[entry] = 1
    BY <2>1
  <2>3. entry \in Known'
    BY <2>1, <2>2 DEF Known, InFrontier
  <2> QED
    BY <2>1, <2>3 DEF Reached, Nearby
<1>2. CASE StartFails \/ VisitFails
  <2>1. faulty'
    BY <1>2 DEF StartFails, VisitFails
  <2> QED
    BY <2>1 DEF Reached, Nearby
<1>3. ASSUME UNCHANGED <<searchInput, visited, faulty, Known>>, pc = "loop" \/ pc' = pc
      PROVE  Reached' /\ Nearby'
  <2>1. /\ \A n : Neighbors(n)' = Neighbors(n) /\ Dist(n)' = Dist(n)
        /\ params' = params
    BY <1>3 DEF Neighbors, Dist, searchInput
  <2>2. pc' \in {"loop", "done"} => pc \in {"loop", "done"}
    BY <1>3
  <2>3. Reached'
    BY <1>3, <2>1, <2>2 DEF Reached
  <2>4. Nearby'
    BY <1>3, <2>1, <2>2 DEF Nearby
  <2> QED
    BY <2>3, <2>4
<1>4. CASE SkipVisited
  BY <1>3, <1>4, SkipKnown
<1>5. CASE Visit
  <2> SUFFICES ASSUME ~faulty' PROVE Reached' /\ Nearby'
    BY DEF Reached, Nearby
  <2>1. PICK n \in Nodes :
          /\ visited' = visited \cup {n}
          /\ \A m \in Known \cup Neighbors(n) :
               /\ params.beam_width = 0 => m \in Known'
               /\ \E x \in Known' : Dist(x) <= Dist(m)
    BY <1>5, VisitKnown
  <2>2. /\ \A k : Neighbors(k)' = Neighbors(k) /\ Dist(k)' = Dist(k)
        /\ params' = params
    BY <1>5 DEF Visit, Neighbors, Dist, searchInput
  <2>3. pc = "loop" /\ ~faulty
    <3>1. faulty => faulty'
      BY <1>5, VisitParts DEF VisitedAs
    <3> QED
      BY <1>5, <3>1 DEF Visit
  <2>4. Reached'
    BY <2>1, <2>2, <2>3 DEF Reached
  <2>5. Nearby'
    <3> SUFFICES ASSUME NEW k \in visited', NEW m \in Neighbors(k)
                 PROVE  \E x \in Known' : Dist(x) <= Dist(m)
      BY <2>2 DEF Nearby
    <3>1. CASE k = n
      BY <2>1, <3>1
    <3>2. CASE k # n
      <4>1. PICK x \in Known : Dist(x) <= Dist(m)
        BY <2>1, <2>3, <3>2 DEF Nearby
      <4>2. PICK y \in Known' : Dist(y) <= Dist(x)
        BY <2>1, <4>1
      <4>3. m \in Nodes /\ x \in Nodes /\ y \in Nodes
        BY <2>1, <4>1, <4>2 DEF Neighbors, Known, InFrontier, SearchTypeOK
      <4>4. Dist(m) \in Nat /\ Dist(x) \in Nat /\ Dist(y) \in Nat
        BY <4>3, DistType
      <4> QED
        BY <4>1, <4>2, <4>4
    <3> QED
      BY <3>1, <3>2
  <2> QED
    BY <2>4, <2>5
<1>6. CASE Finish \/ Arrive \/ ParseNothing \/ UNCHANGED searchVars
  BY <1>3, <1>6 DEF Finish, Arrive, ParseNothing, searchVars, Known, InFrontier
<1>7. CASE Query
  BY <1>7, QueryStarts DEF Reached, Nearby
<1> QED
  BY <1>1, <1>2, <1>4, <1>5, <1>6, <1>7, Steps DEF Search

\* However narrow the beam, a search whose frontier runs empty ends where no neighbor
\* of the closest visited node is closer: what the beam cuts off, copies of visited
\* nodes in it or not, never was the last way down (graph_search.cpp:135-142).
THEOREM SearchEndsInLocalMinimum == Spec => []EndsInLocalMinimum
<1>1. KnownInv => EndsInLocalMinimum
  <2> SUFFICES ASSUME KnownInv, Exhausted, NEW n \in visited,
                      \A m \in visited : Dist(n) <= Dist(m), NEW m \in Neighbors(n)
               PROVE  Dist(n) <= Dist(m)
    BY DEF EndsInLocalMinimum
  <2>1. PICK x \in visited : Dist(x) <= Dist(m)
    BY DEF KnownInv, Nearby, Exhausted, Known
  <2>2. n \in Nodes /\ m \in Nodes /\ x \in Nodes
    BY DEF KnownInv, TypesInv, SearchTypeOK, Neighbors
  <2>3. Dist(n) \in Nat /\ Dist(m) \in Nat /\ Dist(x) \in Nat
    BY <2>2, DistType DEF KnownInv, TypesInv
  <2> QED
    BY <2>1, <2>3
<1> QED
  BY <1>1, InitKnown, StepKnown, PTL DEF Spec

\* Without a beam a search that is not cut short by its budget has visited all that
\* the entry leads to (graph_search.cpp:54, 135).
THEOREM UnboundedReachesAll == Spec => []UnboundedBeamReachesAll
<1>1. KnownInv => UnboundedBeamReachesAll
  BY DEF KnownInv, Reached, Known, Exhausted, UnboundedBeamReachesAll
<1> QED
  BY <1>1, InitKnown, StepKnown, PTL DEF Spec

-----------------------------------------------------------------------------
(***************************************************************************)
(* RobustPrune.                                                            *)
(***************************************************************************)

\* The order of RobustPrune on distances, numbers and places, which are numbers here;
\* what has the same number has the same distance.
Lexical(d1, u1, j1, d2, u2, j2) ==
  \/ d1 < d2
  \/ d1 = d2 /\ u1 < u2
  \/ u1 = u2 /\ j1 < j2

LEMMA LexicalOrder ==
  ASSUME NEW d1 \in Int, NEW u1 \in Int, NEW j1 \in Int,
         NEW d2 \in Int, NEW u2 \in Int, NEW j2 \in Int,
         u1 = u2 => d1 = d2
  PROVE  /\ ~Lexical(d1, u1, j1, d1, u1, j1)
         /\ ~(Lexical(d1, u1, j1, d2, u2, j2) /\ Lexical(d2, u2, j2, d1, u1, j1))
         /\ j1 # j2 => Lexical(d1, u1, j1, d2, u2, j2) \/ Lexical(d2, u2, j2, d1, u1, j1)
<1>1. ~Lexical(d1, u1, j1, d1, u1, j1)
  BY DEF Lexical
<1>2. ~(Lexical(d1, u1, j1, d2, u2, j2) /\ Lexical(d2, u2, j2, d1, u1, j1))
  BY DEF Lexical
<1>3. j1 # j2 => Lexical(d1, u1, j1, d2, u2, j2) \/ Lexical(d2, u2, j2, d1, u1, j1)
  BY DEF Lexical
<1> QED
  BY <1>1, <1>2, <1>3

LEMMA LexicalTransitive ==
  ASSUME NEW d1 \in Int, NEW u1 \in Int, NEW j1 \in Int,
         NEW d2 \in Int, NEW u2 \in Int, NEW j2 \in Int,
         NEW d3 \in Int, NEW u3 \in Int, NEW j3 \in Int,
         u1 = u2 => d1 = d2, u2 = u3 => d2 = d3,
         Lexical(d1, u1, j1, d2, u2, j2), Lexical(d2, u2, j2, d3, u3, j3)
  PROVE  Lexical(d1, u1, j1, d3, u3, j3)
BY DEF Lexical

\* Distances, numbers and places order the entries of a list.
LEMMA SoonerIsOrder ==
  ASSUME L2Squared \in [Nodes -> [Nodes -> Nat]], NEW p \in Nodes, NEW list \in Seq(Nodes),
         NEW j \in DOMAIN list, NEW k \in DOMAIN list
  PROVE  /\ ~Sooner(p, list, j, j)
         /\ j # k => Sooner(p, list, j, k) \/ Sooner(p, list, k, j)
         /\ ~(Sooner(p, list, j, k) /\ Sooner(p, list, k, j))
         /\ \A l \in DOMAIN list : Sooner(p, list, j, k) /\ Sooner(p, list, k, l)
                                     => Sooner(p, list, j, l)
<1>1. \A l \in DOMAIN list : l \in Int /\ list[l] \in Nodes
  OBVIOUS
<1>2. \A n \in Nodes : n \in Int
  BY DEF Nodes
<1>3. \A n \in Nodes : L2Squared[p][n] \in Int
  OBVIOUS
<1>4. \A l \in DOMAIN list : list[l] \in Int /\ L2Squared[p][list[l]] \in Int
  BY <1>1, <1>2, <1>3
<1> DEFINE d(l) == L2Squared[p][list[l]]
<1>5. \A l, m \in DOMAIN list :
        Sooner(p, list, l, m) <=> Lexical(d(l), list[l], l, d(m), list[m], m)
  BY DEF Sooner, Before, Lexical
<1>6. \A l, m \in DOMAIN list : list[l] = list[m] => d(l) = d(m)
  OBVIOUS
<1>7. \A l \in DOMAIN list : d(l) \in Int /\ list[l] \in Int /\ l \in Int
  BY <1>1, <1>4
<1> HIDE DEF d
<1>8. ASSUME NEW l \in DOMAIN list, Sooner(p, list, j, k), Sooner(p, list, k, l)
       PROVE  Sooner(p, list, j, l)
  <2>1. /\ Lexical(d(j), list[j], j, d(k), list[k], k)
        /\ Lexical(d(k), list[k], k, d(l), list[l], l)
    BY <1>5, <1>8
  <2>2. /\ list[j] = list[k] => d(j) = d(k)
        /\ list[k] = list[l] => d(k) = d(l)
        /\ d(j) \in Int /\ list[j] \in Int /\ j \in Int
        /\ d(k) \in Int /\ list[k] \in Int /\ k \in Int
        /\ d(l) \in Int /\ list[l] \in Int /\ l \in Int
    BY <1>6, <1>7
  <2>3. Lexical(d(j), list[j], j, d(l), list[l], l)
    BY <2>1, <2>2, LexicalTransitive
  <2> QED
    BY <1>5, <2>3
<1> QED
  BY <1>5, <1>6, <1>7, <1>8, LexicalOrder

\* Any entries of a list have a first one and a last one in that order.
LEMMA FirstAndLast ==
  ASSUME L2Squared \in [Nodes -> [Nodes -> Nat]], NEW p \in Nodes, NEW list \in Seq(Nodes),
         NEW A \in SUBSET DOMAIN list, A # {}
  PROVE  /\ \E a \in A : \A k \in A \ {a} : Sooner(p, list, a, k)
         /\ \E a \in A : \A k \in A \ {a} : Sooner(p, list, k, a)
<1> DEFINE D == DOMAIN list
           R == {e \in D \X D : Sooner(p, list, e[1], e[2])}
           Q == {e \in D \X D : Sooner(p, list, e[2], e[1])}
<1>1. IsFiniteSet(A)
  <2>1. D = 1..Len(list) /\ Len(list) \in Int
    OBVIOUS
  <2>2. IsFiniteSet(D)
    BY <2>1, FS_Interval
  <2> QED
    BY <2>2, FS_Subset
<1>2. \A x, y \in A : /\ <<x, y>> \in R <=> Sooner(p, list, x, y)
                      /\ <<x, y>> \in Q <=> Sooner(p, list, y, x)
  OBVIOUS
<1>3. \A x, y, z \in A :
        /\ ~Sooner(p, list, x, x)
        /\ Sooner(p, list, x, y) /\ Sooner(p, list, y, z) => Sooner(p, list, x, z)
        /\ x # y => Sooner(p, list, x, y) \/ Sooner(p, list, y, x)
  BY SoonerIsOrder
<1> HIDE DEF R, Q
<1>4. PICK a \in A : \A k \in A : <<a, k>> \notin R
  BY <1>1, <1>2, <1>3, LastElement
<1>5. PICK b \in A : \A k \in A : <<b, k>> \notin Q
  BY <1>1, <1>2, <1>3, LastElement
<1> QED
  BY <1>2, <1>3, <1>4, <1>5

\* The decisions about the entries of A are made; A has every entry that comes
\* sooner than one of its own.
Decided(p, list, A) ==
  /\ \A a \in A, k \in DOMAIN list : Sooner(p, list, k, a) => k \in A
  /\ \E K \in SUBSET A : \A k \in A : k \in K <=> Kept(p, list, K, k)

\* One more decision.
LEMMA DecidesNext ==
  ASSUME L2Squared \in [Nodes -> [Nodes -> Nat]], NEW p \in Nodes, NEW list \in Seq(Nodes),
         NEW A \in SUBSET DOMAIN list, Decided(p, list, A), A # DOMAIN list
  PROVE  \E a \in DOMAIN list \ A : Decided(p, list, A \cup {a})
<1>1. DOMAIN list \ A \in SUBSET DOMAIN list /\ DOMAIN list \ A # {}
  OBVIOUS
<1>2. PICK a \in DOMAIN list \ A : \A k \in (DOMAIN list \ A) \ {a} : Sooner(p, list, a, k)
  BY <1>1, FirstAndLast
<1>3. \A j, k \in DOMAIN list : ~(Sooner(p, list, j, k) /\ Sooner(p, list, k, j))
  BY SoonerIsOrder
<1>4. \A k \in DOMAIN list : Sooner(p, list, k, a) => k \in A
  BY <1>2, <1>3
<1>5. \A k \in A : ~Sooner(p, list, a, k)
  BY DEF Decided
<1>6. ~Sooner(p, list, a, a)
  BY <1>3
<1>7. \A b \in A \cup {a}, k \in DOMAIN list : Sooner(p, list, k, b) => k \in A \cup {a}
  BY <1>4 DEF Decided
<1>8. PICK K \in SUBSET A : \A k \in A : k \in K <=> Kept(p, list, K, k)
  BY DEF Decided
<1> DEFINE L == IF Kept(p, list, K, a) THEN K \cup {a} ELSE K
<1>9. \A k \in A \cup {a} : {j \in L : Sooner(p, list, j, k)} = {j \in K : Sooner(p, list, j, k)}
  BY <1>5, <1>6
<1>10. \A k \in A \cup {a} : Kept(p, list, L, k) <=> Kept(p, list, K, k)
  BY <1>9 DEF Kept
<1>11. L \in SUBSET (A \cup {a}) /\ (\A k \in A : k \in L <=> k \in K)
       /\ (a \in L <=> Kept(p, list, K, a))
  BY <1>2, <1>8
<1> HIDE DEF L
<1>12. \A k \in A \cup {a} : k \in L <=> Kept(p, list, L, k)
  BY <1>8, <1>10, <1>11
<1>13. \E M \in SUBSET (A \cup {a}) : \A k \in A \cup {a} : k \in M <=> Kept(p, list, M, k)
  BY <1>11, <1>12
<1> QED
  BY <1>2, <1>7, <1>13 DEF Decided

\* So all decisions can be made: the entries to keep exist.
LEMMA KeepsExists ==
  ASSUME L2Squared \in [Nodes -> [Nodes -> Nat]], NEW p \in Nodes, NEW list \in Seq(Nodes)
  PROVE  \E K \in SUBSET DOMAIN list : Keeps(p, list, K)
<1> DEFINE D == DOMAIN list
           Sets == {A \in SUBSET D : Decided(p, list, A)}
           Rests == {Cardinality(D \ A) : A \in Sets}
<1>1. IsFiniteSet(D)
  <2>1. D = 1..Len(list) /\ Len(list) \in Int
    OBVIOUS
  <2> QED
    BY <2>1, FS_Interval
<1>2. \A A \in SUBSET D : IsFiniteSet(D \ A) /\ Cardinality(D \ A) \in Nat
  BY <1>1, FS_Subset, FS_CardinalityType
<1>3. {} \in Sets
  BY DEF Decided
<1>4. \A A \in Sets : Cardinality(D \ A) \in Rests
  OBVIOUS
<1>5. Rests \subseteq Nat /\ Rests # {}
  BY <1>2, <1>3, <1>4
<1>6. PICK n \in Rests : \A m \in Rests : n <= m
  <2> HIDE DEF Rests
  <2> QED
    BY <1>5, LeastNumber
<1>7. PICK A \in Sets : n = Cardinality(D \ A)
  BY <1>6
<1>8. CASE A = D
  <2>1. PICK K \in SUBSET D : \A k \in D : k \in K <=> Kept(p, list, K, k)
    BY <1>7, <1>8 DEF Decided
  <2> QED
    BY <2>1 DEF Keeps
<1>9. CASE A # D
  <2>1. PICK a \in D \ A : Decided(p, list, A \cup {a})
    BY <1>7, <1>9, DecidesNext
  <2>2. A \cup {a} \in Sets
    BY <2>1, <1>7
  <2>3. D \ (A \cup {a}) \in SUBSET (D \ A) /\ D \ (A \cup {a}) # D \ A
    BY <2>1
  <2>4. /\ Cardinality(D \ (A \cup {a})) <= Cardinality(D \ A)
        /\ Cardinality(D \ (A \cup {a})) # Cardinality(D \ A)
    BY <1>2, <1>7, <2>3, FS_Subset
  <2>5. n <= Cardinality(D \ (A \cup {a}))
    BY <1>4, <1>6, <2>2
  <2>6. Cardinality(D \ (A \cup {a})) \in Nat /\ Cardinality(D \ A) \in Nat
    BY <1>2, <1>7, <2>2
  <2> QED
    BY <1>7, <2>4, <2>5, <2>6
<1> QED
  BY <1>8, <1>9

\* What is kept: not more than the degree, and the first entry that may be.
LEMMA KeepsBounds ==
  ASSUME L2Squared \in [Nodes -> [Nodes -> Nat]], cfg.degree \in Nat \ {0},
         NEW p \in Nodes, NEW list \in Seq(Nodes),
         NEW K \in SUBSET DOMAIN list, Keeps(p, list, K)
  PROVE  /\ IsFiniteSet(K) /\ Cardinality(K) \in Nat /\ Cardinality(K) <= cfg.degree
         /\ \A k \in DOMAIN list :
              list[k] # p => \E j \in K : j = k \/ Sooner(p, list, j, k)
<1>1. IsFiniteSet(K) /\ Cardinality(K) \in Nat
  <2>1. DOMAIN list = 1..Len(list) /\ Len(list) \in Int
    OBVIOUS
  <2>2. IsFiniteSet(DOMAIN list)
    BY <2>1, FS_Interval
  <2> QED
    BY <2>2, FS_Subset, FS_CardinalityType
<1>2. Cardinality(K) <= cfg.degree
  <2>1. CASE K = {}
    BY <2>1, FS_EmptySet
  <2>2. CASE K # {}
    <3>1. PICK b \in K : \A k \in K \ {b} : Sooner(p, list, k, b)
      BY <2>2, FirstAndLast
    <3>2. ~Sooner(p, list, b, b)
      BY SoonerIsOrder
    <3>3. {j \in K : Sooner(p, list, j, b)} = K \ {b}
      BY <3>1, <3>2
    <3>4. Cardinality(K \ {b}) < cfg.degree
      BY <3>1, <3>3 DEF Keeps, Kept
    <3>5. Cardinality(K \ {b}) = Cardinality(K) - 1
      BY <1>1, <3>1, FS_RemoveElement
    <3>6. \A c, d \in Nat : c - 1 < d => c <= d
      OBVIOUS
    <3> QED
      BY <1>1, <3>4, <3>5, <3>6
  <2> QED
    BY <2>1, <2>2
<1>3. ASSUME NEW k \in DOMAIN list, list[k] # p
      PROVE  \E j \in K : j = k \/ Sooner(p, list, j, k)
  <2> DEFINE B == {j \in K : Sooner(p, list, j, k)}
  <2>1. CASE B = {}
    <3>1. Cardinality(B) = 0
      BY <2>1, FS_EmptySet
    <3>2. Kept(p, list, K, k)
      BY <1>3, <2>1, <3>1 DEF Kept
    <3> QED
      BY <3>2 DEF Keeps
  <2>2. CASE B # {}
    BY <2>2
  <2> QED
    BY <2>1, <2>2
<1> QED
  BY <1>1, <1>2, <1>3

\* The list at some of its places, in another order.
Selection(list, f) == [k \in DOMAIN f |-> list[f[k]]]

\* g has the entries of the list at the places K, each of these once.
Selects(list, K, g) ==
  /\ ToSet(g) = {list[k] : k \in K}
  /\ \A l, m \in DOMAIN g :
       l # m => \E j, k \in K : j # k /\ g[l] = list[j] /\ g[m] = list[k]

LEMMA Selected ==
  ASSUME NEW S, NEW list \in Seq(S), NEW K \in SUBSET DOMAIN list,
         NEW f \in Seq(K), K = ToSet(f), IsInjective(f)
  PROVE  /\ Selection(list, f) \in Seq(S) /\ Len(Selection(list, f)) = Len(f)
         /\ Selects(list, K, Selection(list, f))
<1> DEFINE g == Selection(list, f)
<1>1. PICK n \in Nat : n = Len(f)
  OBVIOUS
<1>2. f \in [1..n -> K] /\ DOMAIN f = 1..n
  BY <1>1
<1>3. \A l \in 1..n : f[l] \in K /\ list[f[l]] \in S
  BY <1>2
<1>4. g \in [1..n -> S] /\ \A l \in 1..n : g[l] = list[f[l]]
  BY <1>2, <1>3 DEF Selection
<1> HIDE DEF g
<1>5. g \in Seq(S) /\ Len(g) = n /\ DOMAIN g = 1..n
  BY <1>4
<1>6. ToSet(g) = {list[k] : k \in K}
  <2>1. ToSet(g) = {g[l] : l \in 1..n}
    BY <1>5 DEF ToSet
  <2>2. \A k \in K : \E l \in 1..n : k = f[l]
    BY <1>2 DEF ToSet
  <2>3. \A k \in K : list[k] \in ToSet(g)
    <3> SUFFICES ASSUME NEW k \in K PROVE list[k] \in ToSet(g)
      OBVIOUS
    <3>1. PICK l \in 1..n : k = f[l]
      BY <2>2
    <3> QED
      BY <1>4, <2>1, <3>1
  <2>4. \A x \in ToSet(g) : \E k \in K : x = list[k]
    BY <1>3, <1>4, <2>1
  <2> QED
    BY <2>3, <2>4
<1>7. ASSUME NEW l \in 1..n, NEW m \in 1..n, l # m
      PROVE  \E j, k \in K : j # k /\ g[l] = list[j] /\ g[m] = list[k]
  <2> f[l] \in K /\ f[m] \in K
    BY <1>2
  <2> WITNESS f[l] \in K, f[m] \in K
  <2> QED
    BY <1>2, <1>4, <1>7 DEF IsInjective
<1> QED
  BY <1>1, <1>5, <1>6, <1>7 DEF g, Selects

\* What RobustPrune returns: the entries that are kept, each once.
LEMMA Pruned ==
  ASSUME L2Squared \in [Nodes -> [Nodes -> Nat]], cfg.degree \in Nat \ {0},
         NEW p \in Nodes, NEW list \in Seq(Nodes)
  PROVE  LET pruned == RobustPrune(p, list)
         IN \E K \in SUBSET DOMAIN list :
              /\ Keeps(p, list, K)
              /\ pruned \in Seq(Nodes) /\ Len(pruned) = Cardinality(K)
              /\ Len(pruned) <= cfg.degree
              /\ p \notin ToSet(pruned)
              /\ Selects(list, K, pruned)
<1> DEFINE K == CHOOSE K \in SUBSET DOMAIN list : Keeps(p, list, K)
           kept == SetToSeq(K)
           pruned == RobustPrune(p, list)
<1>1. K \in SUBSET DOMAIN list /\ Keeps(p, list, K)
  BY KeepsExists
<1>2. pruned = [k \in DOMAIN kept |-> list[kept[k]]]
  BY DEF RobustPrune
<1> HIDE DEF K
<1>3. IsFiniteSet(K) /\ Cardinality(K) \in Nat /\ Cardinality(K) <= cfg.degree
  BY <1>1, KeepsBounds
<1>4. kept \in Seq(K) /\ Len(kept) = Cardinality(K) /\ ToSet(kept) = K /\ IsInjective(kept)
  BY <1>3, Enumerated
<1> HIDE DEF kept, pruned
<1>5. pruned = Selection(list, kept)
  BY <1>2 DEF Selection
<1>6. /\ pruned \in Seq(Nodes) /\ Len(pruned) = Cardinality(K)
      /\ Selects(list, K, pruned)
  BY <1>1, <1>4, <1>5, Selected
<1>7. p \notin ToSet(pruned)
  <2>1. \A k \in K : Kept(p, list, K, k)
    BY <1>1 DEF Keeps
  <2>2. \A k \in K : list[k] # p
    BY <2>1 DEF Kept
  <2> QED
    BY <1>6, <2>2 DEF Selects
<1> QED
  BY <1>1, <1>3, <1>6, <1>7 DEF pruned

-----------------------------------------------------------------------------
(***************************************************************************)
(* GreedySearch.                                                           *)
(***************************************************************************)

LEMMA ListedNodes ==
  ASSUME out_neighbors \in [Nodes -> Seq(Nodes)], NEW n \in Nodes
  PROVE  Listed(n) \subseteq Nodes
BY DEF Listed, ToSet

\* GreedySearch before its first visit.
Begin == {[expanded |-> {}, frontier |-> {medoid}]}

\* f gives the states of GreedySearch after its first m visits.
Run(query, m, f) ==
  f = [n \in 0..m |-> IF n = 0 THEN Begin
                      ELSE UNION {Visits(query, s) : s \in f[n - 1]}]

\* The recursive function exists, for every number of visits.
LEMMA RunExists ==
  ASSUME NEW query, NEW m \in Nat
  PROVE  \E f : Run(query, m, f)
<1> DEFINE Bad == {n \in Nat : ~ \E f : Run(query, n, f)}
<1> SUFFICES ASSUME Bad # {} PROVE FALSE
  OBVIOUS
<1>1. PICK b \in Bad : \A y \in Bad : b <= y
  BY LeastNumber
<1>2. CASE b = 0
  <2>1. \A n \in 0..0 : n = 0
    OBVIOUS
  <2>2. Run(query, 0, [n \in 0..0 |-> Begin])
    BY <2>1 DEF Run
  <2> QED
    BY <1>2, <2>2
<1>3. CASE b # 0
  <2>1. b - 1 \in Nat /\ ~(b <= b - 1) /\ b \in Nat
    BY <1>3
  <2>2. b - 1 \notin Bad
    BY <1>1, <2>1
  <2>3. PICK f : Run(query, b - 1, f)
    BY <2>1, <2>2
  <2> DEFINE Next1(n) == UNION {Visits(query, s) : s \in f[n - 1]}
             g == [n \in 0..b |-> IF n = b THEN Next1(b) ELSE f[n]]
  <2>4. \A n \in 0..b - 1 : f[n] = IF n = 0 THEN Begin ELSE Next1(n)
    BY <2>3 DEF Run
  <2> HIDE DEF Next1
  <2>5. \A n \in 0..b : n # b => n \in 0..b - 1
    BY <2>1
  <2>6. g = [n \in 0..b |-> IF n = 0 THEN Begin ELSE Next1(n)]
    BY <1>3, <2>1, <2>4, <2>5
  <2>7. \A n \in 0..b : n # 0 => n - 1 \in 0..b - 1 /\ n - 1 \in 0..b /\ n - 1 # b
    BY <2>1
  <2>8. \A n \in 0..b : n # 0 => g[n - 1] = f[n - 1]
    BY <2>7
  <2> HIDE DEF g
  <2>9. \A n \in 0..b : n # 0 => Next1(n) = UNION {Visits(query, s) : s \in g[n - 1]}
    BY <2>8 DEF Next1
  <2>10. Run(query, b, g)
    BY <2>6, <2>9 DEF Run
  <2> QED
    BY <1>1, <2>10
<1> QED
  BY <1>2, <1>3

\* It is the one that Expanded chooses.
LEMMA ExpandedByRun ==
  ASSUME NEW query, cfg.max_visits \in Nat
  PROVE  \E f : /\ Run(query, cfg.max_visits, f)
                /\ Expanded(query) = {s.expanded : s \in f[cfg.max_visits]}
<1> DEFINE after == CHOOSE f : Run(query, cfg.max_visits, f)
<1>1. Run(query, cfg.max_visits, after)
  BY RunExists
<1>2. Expanded(query) = {s.expanded : s \in after[cfg.max_visits]}
  BY DEF Expanded, Run, Begin
<1> QED
  BY <1>1, <1>2

\* A state of GreedySearch after n visits: what was expanded has all its neighbors
\* expanded or in the frontier.
Searched(s, n) ==
  /\ s.expanded \subseteq Nodes /\ s.frontier \subseteq Nodes
  /\ s.expanded \cap s.frontier = {}
  /\ medoid \in s.expanded \cup s.frontier
  /\ \A e \in s.expanded : Listed(e) \subseteq s.expanded \cup s.frontier
  /\ s.frontier = {} \/ Cardinality(s.expanded) = n

LEMMA VisitsSearched ==
  ASSUME out_neighbors \in [Nodes -> Seq(Nodes)], NEW query, NEW n \in Nat,
         NEW s, Searched(s, n), NEW t \in Visits(query, s)
  PROVE  Searched(t, n + 1)
<1>1. CASE s.frontier = {}
  BY <1>1 DEF Visits, Searched
<1>2. CASE s.frontier # {}
  <2>1. PICK c \in s.frontier :
          t = [expanded |-> s.expanded \cup {c},
               frontier |-> (s.frontier \cup Listed(c)) \ (s.expanded \cup {c})]
    BY <1>2 DEF Visits
  <2>2. c \in Nodes /\ c \notin s.expanded
    BY DEF Searched
  <2>3. Listed(c) \subseteq Nodes
    BY <2>2, ListedNodes
  <2>4. Cardinality(t.expanded) = n + 1
    <3>1. IsFiniteSet(s.expanded)
      BY NodesFinite, FS_Subset DEF Searched
    <3> QED
      BY <1>2, <2>1, <2>2, <3>1, FS_AddElement DEF Searched
  <2>5. t.expanded = s.expanded \cup {c}
        /\ t.frontier = (s.frontier \cup Listed(c)) \ (s.expanded \cup {c})
    BY <2>1
  <2>6. \A e \in t.expanded : Listed(e) \subseteq t.expanded \cup t.frontier
    BY <2>5 DEF Searched
  <2> QED
    BY <2>2, <2>3, <2>4, <2>5, <2>6 DEF Searched
<1> QED
  BY <1>1, <1>2

\* Every state of a run is one of a search.
LEMMA RunSearched ==
  ASSUME out_neighbors \in [Nodes -> Seq(Nodes)], medoid \in Nodes,
         NEW query, NEW N \in Nat, NEW f, Run(query, N, f)
  PROVE  \A n \in 0..N : \A s \in f[n] : Searched(s, n)
<1> DEFINE Bad == {n \in 0..N : \E s \in f[n] : ~Searched(s, n)}
<1> SUFFICES ASSUME Bad # {} PROVE FALSE
  OBVIOUS
<1>1. Bad \subseteq Nat
  OBVIOUS
<1>2. PICK b \in Bad : \A y \in Bad : b <= y
  BY <1>1, LeastNumber
<1>3. b \in 0..N /\ b \in Nat
  OBVIOUS
<1>4. f[b] = IF b = 0 THEN Begin ELSE UNION {Visits(query, s) : s \in f[b - 1]}
  BY <1>3 DEF Run
<1>5. CASE b = 0
  <2>1. Searched([expanded |-> {}, frontier |-> {medoid}], 0)
    BY FS_EmptySet DEF Searched
  <2> QED
    BY <1>4, <1>5, <2>1 DEF Begin
<1>6. CASE b # 0
  <2>1. b - 1 \in 0..N /\ b - 1 \in Nat /\ ~(b <= b - 1) /\ (b - 1) + 1 = b
    BY <1>3, <1>6
  <2>2. \A s \in f[b - 1] : Searched(s, b - 1)
    BY <1>2, <2>1
  <2>3. \A s \in f[b - 1] : \A t \in Visits(query, s) : Searched(t, b)
    <3> SUFFICES ASSUME NEW s \in f[b - 1], NEW t \in Visits(query, s)
                 PROVE  Searched(t, b)
      OBVIOUS
    <3>1. Searched(t, (b - 1) + 1)
      BY <2>1, <2>2, VisitsSearched
    <3> QED
      BY <2>1, <3>1
  <2> QED
    BY <1>4, <1>6, <2>3
<1> QED
  BY <1>5, <1>6

\* What GreedySearch has expanded when it ends: all that can be reached, or as many
\* nodes as it may visit.
LEMMA ExpandedNodes ==
  ASSUME out_neighbors \in [Nodes -> Seq(Nodes)], medoid \in Nodes,
         cfg.max_visits \in Nat, NEW query, NEW E \in Expanded(query)
  PROVE  \E s : s.expanded = E /\ Searched(s, cfg.max_visits)
<1>1. PICK f : /\ Run(query, cfg.max_visits, f)
               /\ Expanded(query) = {s.expanded : s \in f[cfg.max_visits]}
  BY ExpandedByRun
<1>2. cfg.max_visits \in 0..cfg.max_visits
  OBVIOUS
<1>3. \A s \in f[cfg.max_visits] : Searched(s, cfg.max_visits)
  BY <1>1, <1>2, RunSearched
<1> QED
  BY <1>1, <1>3

\* The candidates are nodes that were expanded, as many as the beam takes.
LEMMA CandidateNodes ==
  ASSUME out_neighbors \in [Nodes -> Seq(Nodes)], medoid \in Nodes,
         cfg.max_visits \in Nat, NEW query, NEW S \in GreedySearch(query)
  PROVE  \E E \in Expanded(query) :
           /\ S \subseteq E /\ E \subseteq Nodes
           /\ Cardinality(S) = Lesser(cfg.beam_width, Cardinality(E))
<1>1. PICK E \in Expanded(query) :
        S \subseteq E /\ Cardinality(S) = Lesser(cfg.beam_width, Cardinality(E))
  BY DEF GreedySearch
<1>2. E \subseteq Nodes
  BY ExpandedNodes DEF Searched
<1> QED
  BY <1>1, <1>2

-----------------------------------------------------------------------------
(***************************************************************************)
(* The lists.                                                              *)
(***************************************************************************)

\* No entry but n itself is in the list twice.
Single(n, list) ==
  \A j, k \in DOMAIN list : j # k /\ list[j] = list[k] => list[j] = n

\* A list that is padded: it has the degree, and nothing new but the padding.
LEMMA FilledList ==
  ASSUME cfg.degree \in Nat, NEW n \in Nodes, NEW list \in Seq(Nodes)
  PROVE  /\ Filled(list, n) \in Seq(Nodes)
         /\ Len(list) <= cfg.degree => Len(Filled(list, n)) = cfg.degree
         /\ Len(list) <= cfg.degree => SubSeq(Filled(list, n), 1, cfg.degree) = Filled(list, n)
         /\ ToSet(list) \subseteq ToSet(Filled(list, n))
         /\ ToSet(Filled(list, n)) \subseteq ToSet(list) \cup {n}
         /\ Single(n, list) => Single(n, Filled(list, n))
<1> DEFINE d == cfg.degree
           pad == [k \in 1..d - Len(list) |-> n]
           filled == Filled(list, n)
<1> PICK len \in Nat : len = Len(list)
  OBVIOUS
<1>1. CASE ~(len <= d)
  <2>1. 1..d - len = {}
    BY <1>1
  <2>2. pad = <<>>
    BY <2>1
  <2>3. filled = list \o pad
    BY DEF Filled
  <2>4. filled = list
    BY <2>2, <2>3, ConcatEmptySeq
  <2> QED
    BY <1>1, <2>4
<1>2. CASE len <= d
  <2>1. d - len \in Nat
    BY <1>2
  <2>2. pad \in Seq(Nodes) /\ Len(pad) = d - len /\ \A k \in 1..d - len : pad[k] = n
    BY <2>1
  <2> HIDE DEF pad
  <2>3. filled = list \o pad
    BY DEF Filled, pad
  <2>4. filled \in Seq(Nodes) /\ Len(filled) = d
    <3>1. \A q, r \in Seq(Nodes) : q \o r \in Seq(Nodes) /\ Len(q \o r) = Len(q) + Len(r)
      OBVIOUS
    <3>2. d \in Nat /\ len + (d - len) = d
      OBVIOUS
    <3> QED
      BY <2>2, <2>3, <3>1, <3>2
  <2>5. \A k \in 1..d : filled[k] = IF k <= len THEN list[k] ELSE n
    BY <1>2, <2>2, <2>3
  <2> HIDE DEF filled
  <2>6. DOMAIN filled = 1..d /\ DOMAIN list = 1..len
    BY <2>4
  <2>7. SubSeq(filled, 1, d) = filled
    BY <2>4
  <2>8. \A k \in 1..len : k \in 1..d /\ filled[k] = list[k]
    BY <1>2, <2>5
  <2>9. \A k \in 1..d : filled[k] = n \/ k \in 1..len
    BY <1>2, <2>5
  <2>10. ToSet(list) \subseteq ToSet(filled) /\ ToSet(filled) \subseteq ToSet(list) \cup {n}
    BY <2>6, <2>8, <2>9 DEF ToSet
  <2>11. Single(n, list) => Single(n, filled)
    BY <2>6, <2>8, <2>9 DEF Single
  <2> QED
    BY <2>4, <2>7, <2>10, <2>11 DEF filled
<1> QED
  BY <1>1, <1>2

\* What comes sooner is not farther.
LEMMA SoonerCloser ==
  ASSUME L2Squared \in [Nodes -> [Nodes -> Nat]], NEW p \in Nodes, NEW list \in Seq(Nodes),
         NEW j \in DOMAIN list, NEW k \in DOMAIN list, j = k \/ Sooner(p, list, j, k)
  PROVE  L2Squared[p][list[j]] <= L2Squared[p][list[k]]
<1>1. list[j] \in Nodes /\ list[k] \in Nodes
  OBVIOUS
<1>2. L2Squared[p][list[j]] \in Nat /\ L2Squared[p][list[k]] \in Nat
  BY <1>1
<1>3. CASE list[j] = list[k]
  BY <1>2, <1>3
<1>4. CASE list[j] # list[k]
  <2>1. L2Squared[p][list[j]] < L2Squared[p][list[k]] \/ L2Squared[p][list[j]] = L2Squared[p][list[k]]
    BY <1>4 DEF Sooner, Before
  <2>2. \A a, b \in Nat : a < b \/ a = b => a <= b
    OBVIOUS
  <2> QED
    BY <1>2, <2>1, <2>2
<1> QED
  BY <1>3, <1>4

\* A pruned list, and the closest neighbor that it keeps.
LEMMA PrunedList ==
  ASSUME L2Squared \in [Nodes -> [Nodes -> Nat]], cfg.degree \in Nat \ {0},
         NEW p \in Nodes, NEW list \in Seq(Nodes), Single(p, list)
  PROVE  LET pruned == RobustPrune(p, list)
         IN /\ pruned \in Seq(Nodes) /\ Len(pruned) <= cfg.degree
            /\ IsInjective(pruned)
            /\ ToSet(pruned) \subseteq ToSet(list) \ {p}
            /\ \A x \in ToSet(list) \ {p} :
                 \E v \in ToSet(pruned) : L2Squared[p][v] <= L2Squared[p][x]
<1> DEFINE pruned == RobustPrune(p, list)
<1>1. PICK K \in SUBSET DOMAIN list :
        /\ Keeps(p, list, K)
        /\ pruned \in Seq(Nodes) /\ Len(pruned) = Cardinality(K)
        /\ Len(pruned) <= cfg.degree
        /\ p \notin ToSet(pruned)
        /\ Selects(list, K, pruned)
  BY Pruned
<1> HIDE DEF pruned
<1>2. ToSet(pruned) = {list[k] : k \in K}
  BY <1>1 DEF Selects
<1>3. ToSet(pruned) \subseteq ToSet(list) \ {p}
  BY <1>1, <1>2 DEF ToSet
<1>4. IsInjective(pruned)
  <2>1. ASSUME NEW l \in DOMAIN pruned, NEW m \in DOMAIN pruned, l # m, pruned[l] = pruned[m]
        PROVE  FALSE
    <3>1. PICK j \in K, k \in K : j # k /\ pruned[l] = list[j] /\ pruned[m] = list[k]
      BY <1>1, <2>1 DEF Selects
    <3>2. list[j] = p
      BY <2>1, <3>1 DEF Single
    <3> QED
      BY <1>1, <1>2, <3>1, <3>2
  <2> QED
    BY <2>1 DEF IsInjective
<1>5. ASSUME NEW x \in ToSet(list) \ {p}
      PROVE  \E v \in ToSet(pruned) : L2Squared[p][v] <= L2Squared[p][x]
  <2>1. PICK k \in DOMAIN list : list[k] = x
    BY <1>5 DEF ToSet
  <2>2. PICK j \in K : j = k \/ Sooner(p, list, j, k)
    BY <1>1, <1>5, <2>1, KeepsBounds
  <2>3. L2Squared[p][list[j]] <= L2Squared[p][x]
    BY <2>1, <2>2, SoonerCloser
  <2> QED
    BY <1>2, <2>3
<1> QED
  BY <1>1, <1>3, <1>4, <1>5 DEF pruned

LEMMA InjectiveSingle ==
  ASSUME NEW list, IsInjective(list), NEW n
  PROVE  Single(n, list)
BY DEF IsInjective, Single

\* A list with another edge.
LEMMA EdgeList ==
  ASSUME L2Squared \in [Nodes -> [Nodes -> Nat]], cfg.degree \in Nat \ {0},
         out_neighbors \in [Nodes -> Seq(Nodes)], NEW u \in Nodes, NEW n \in Nodes, u # n,
         Len(out_neighbors[u]) <= cfg.degree, Single(u, out_neighbors[u])
  PROVE  LET list == WithEdge(u, n)
         IN /\ list \in Seq(Nodes) /\ Len(list) <= cfg.degree
            /\ Single(u, list)
            /\ \A x \in Listed(u) \ {u} :
                 \E v \in ToSet(list) \ {u} : L2Squared[u][v] <= L2Squared[u][x]
            /\ (n \in Listed(u) \/ Len(out_neighbors[u]) < cfg.degree) =>
                 Listed(u) \subseteq ToSet(list) /\ ToSet(list) \subseteq Listed(u) \cup {n}
<1> DEFINE old == out_neighbors[u]
           longer == Append(old, n)
<1>1. old \in Seq(Nodes) /\ Len(old) \in Nat
  OBVIOUS
<1>2. \A x \in Nodes : L2Squared[u][x] <= L2Squared[u][x]
  OBVIOUS
<1>3. Listed(u) \subseteq Nodes /\ Listed(u) = ToSet(old)
  BY ListedNodes DEF Listed
<1>4. CASE n \in Listed(u)
  BY <1>1, <1>2, <1>3, <1>4 DEF WithEdge
<1>5. CASE n \notin Listed(u)
  <2>1. /\ longer \in Seq(Nodes) /\ Len(longer) = Len(old) + 1
        /\ \A k \in 1..Len(old) : longer[k] = old[k]
        /\ longer[Len(old) + 1] = n
    BY <1>1, AppendProperties
  <2>2. DOMAIN longer = 1..Len(old) + 1 /\ DOMAIN old = 1..Len(old)
    BY <1>1, <2>1
  <2> HIDE DEF longer, old
  <2>3. \A k \in DOMAIN longer : k \in DOMAIN old \/ k = Len(old) + 1
    <3>1. \A l \in Nat : \A k \in 1..l + 1 : k \in 1..l \/ k = l + 1
      OBVIOUS
    <3> QED
      BY <1>1, <2>2, <3>1
  <2>4. DOMAIN old \subseteq DOMAIN longer /\ Len(old) + 1 \in DOMAIN longer
    <3>1. \A l \in Nat : 1..l \subseteq 1..l + 1 /\ l + 1 \in 1..l + 1
      OBVIOUS
    <3> QED
      BY <1>1, <2>2, <3>1
  <2>5. ToSet(longer) = ToSet(old) \cup {n}
    BY <2>1, <2>2, <2>3, <2>4 DEF ToSet
  <2>6. \A k \in DOMAIN old : old[k] # n
    BY <1>3, <1>5 DEF ToSet
  <2>7. Single(u, longer)
    <3>1. Single(u, old)
      BY DEF old
    <3>2. \A k \in DOMAIN old : longer[k] = old[k]
      BY <2>1, <2>2
    <3> QED
      BY <2>1, <2>3, <2>6, <3>1, <3>2 DEF Single
  <2>8. WithEdge(u, n) = IF Len(longer) <= cfg.degree THEN longer ELSE RobustPrune(u, longer)
    BY <1>5 DEF WithEdge, longer, old
  <2>9. CASE Len(longer) <= cfg.degree
    BY <1>2, <1>3, <2>1, <2>5, <2>7, <2>8, <2>9
  <2>10. CASE ~(Len(longer) <= cfg.degree)
    <3>1. /\ RobustPrune(u, longer) \in Seq(Nodes) /\ Len(RobustPrune(u, longer)) <= cfg.degree
          /\ IsInjective(RobustPrune(u, longer))
          /\ ToSet(RobustPrune(u, longer)) \subseteq ToSet(longer) \ {u}
          /\ \A x \in ToSet(longer) \ {u} :
               \E v \in ToSet(RobustPrune(u, longer)) : L2Squared[u][v] <= L2Squared[u][x]
      BY <2>1, <2>7, PrunedList
    <3>2. ~(Len(old) < cfg.degree)
      <4>1. \A a, d \in Nat : ~(a + 1 <= d) => ~(a < d)
        OBVIOUS
      <4> QED
        BY <1>1, <2>1, <2>10, <4>1
    <3>3. Single(u, RobustPrune(u, longer))
      BY <3>1, InjectiveSingle
    <3> QED
      BY <1>3, <1>5, <2>5, <2>8, <2>10, <3>1, <3>2, <3>3 DEF old
  <2> QED
    BY <2>9, <2>10
<1> QED
  BY <1>4, <1>5

\* The lists: their types, their lengths and their entries, in every phase.
ListsInv ==
  /\ cfg \in Configs /\ use_vamana \in BOOLEAN /\ medoid \in Nodes /\ i \in 0..Count
  /\ out_neighbors \in [Nodes -> Seq(Nodes)]
  /\ phase \in {"start", "improve", "brute"} => i \in Nodes
  /\ phase = "start" => \A n \in Nodes : out_neighbors[n] = <<>>
  /\ \A n \in Nodes :
       /\ Len(out_neighbors[n]) <= cfg.degree
       /\ Single(n, out_neighbors[n])
       /\ phase = "built" \/ (phase = "brute" /\ n < i) => Len(out_neighbors[n]) = cfg.degree

LEMMA CfgTypes ==
  ASSUME cfg \in Configs
  PROVE  /\ cfg.degree \in Nat \ {0} /\ cfg.degree \in Nat /\ cfg.beam_width \in Nat
         /\ cfg.alpha \in Nat /\ cfg.max_visits \in Nat
BY ConfigsAssumption DEF ConfigsAssumption

LEMMA MetricTypes ==
  ASSUME TypesInv, phase \in BuildPhases
  PROVE  /\ L2Squared \in [Nodes -> [Nodes -> Nat]]
         /\ \A p, q \in Nodes : L2Squared[p][q] = L2Squared[q][p] /\ L2Squared[p][p] = 0
BY MetricsAssumption DEF TypesInv, MetricsAssumption

LEMMA NextNode ==
  ASSUME NEW j \in Nodes
  PROVE  /\ j + 1 # Count => j + 1 \in Nodes
         /\ j + 1 \in 0..Count
         /\ 0 \in Nodes
         /\ \A n \in Nodes : n < j + 1 => n < j \/ n = j
         /\ j + 1 = Count => \A n \in Nodes : n < j \/ n = j
BY CountAssumption DEF CountAssumption, Nodes

LEMMA InitLists == Init => ListsInv
<1> SUFFICES ASSUME Init PROVE ListsInv
  OBVIOUS
<1>1. 0 \in Nodes /\ 0 \in 0..Count
  BY CountAssumption DEF CountAssumption, Nodes
<1>2. cfg \in Configs /\ use_vamana \in BOOLEAN /\ medoid = 0 /\ i = 0
      /\ out_neighbors = [n \in Nodes |-> <<>>] /\ phase \in {"start", "brute"}
  BY DEF Init, BuildInit
<1>3. \A n \in Nodes : out_neighbors[n] = <<>> /\ ~(n < 0)
  BY <1>2 DEF Nodes
<1>4. \A n \in Nodes : Single(n, <<>>)
  BY DEF Single
<1> QED
  BY <1>1, <1>2, <1>3, <1>4, CfgTypes DEF ListsInv

LEMMA BruteForceLists ==
  ASSUME ListsInv, BruteForce
  PROVE  ListsInv'
<1>1. /\ phase = "brute" /\ i \in Nodes /\ i' = i + 1
      /\ phase' = IF i' = Count THEN "built" ELSE "brute"
      /\ UNCHANGED <<cfg, use_vamana, medoid>>
  BY DEF BruteForce, ListsInv, buildInput
<1>2. PICK S \in Nearest(i) :
        out_neighbors' = [out_neighbors EXCEPT ![i] = Filled(SetToSeq(S), i)]
  BY DEF BruteForce
<1> DEFINE list == SetToSeq(S)
<1>3. S \subseteq Nodes \ {i} /\ Cardinality(S) = Lesser(cfg.degree, Count - 1)
  BY <1>2 DEF Nearest
<1>4. IsFiniteSet(S)
  BY <1>3, NodesFinite, FS_Subset
<1>5. list \in Seq(S) /\ Len(list) = Cardinality(S) /\ IsInjective(list)
  BY <1>4, Enumerated
<1>6. list \in Seq(Nodes)
  BY <1>3, <1>5
<1>7. Len(list) <= cfg.degree
  BY <1>3, <1>5, CfgTypes, CountAssumption DEF Lesser, ListsInv, CountAssumption
<1>8. Single(i, list)
  BY <1>5, InjectiveSingle
<1> HIDE DEF list
<1>9. /\ Filled(list, i) \in Seq(Nodes) /\ Len(Filled(list, i)) = cfg.degree
      /\ Single(i, Filled(list, i))
  BY <1>1, <1>6, <1>7, <1>8, CfgTypes, FilledList DEF ListsInv
<1>10. out_neighbors' = [out_neighbors EXCEPT ![i] = Filled(list, i)]
  BY <1>2 DEF list
<1>11. \A n \in Nodes : out_neighbors'[n] = IF n = i THEN Filled(list, i) ELSE out_neighbors[n]
  BY <1>10 DEF ListsInv
<1>12. out_neighbors' \in [Nodes -> Seq(Nodes)]
  BY <1>9, <1>10 DEF ListsInv
<1>13. /\ i' \in Nodes \/ phase' = "built"
       /\ i' \in 0..Count
       /\ \A n \in Nodes : phase' = "built" \/ (phase' = "brute" /\ n < i') => n < i \/ n = i
  BY <1>1, NextNode
<1>14. cfg.degree <= cfg.degree
  BY CfgTypes DEF ListsInv
<1>15. ASSUME NEW n \in Nodes
       PROVE  /\ Len(out_neighbors'[n]) <= cfg.degree
              /\ Single(n, out_neighbors'[n])
              /\ phase' = "built" \/ (phase' = "brute" /\ n < i')
                   => Len(out_neighbors'[n]) = cfg.degree
  <2>1. CASE n = i
    BY <1>9, <1>11, <1>14, <2>1
  <2>2. CASE n # i
    BY <1>1, <1>11, <1>13, <2>2 DEF ListsInv
  <2> QED
    BY <2>1, <2>2
<1>16. phase' \in {"built", "brute"}
  BY <1>1
<1> QED
  BY <1>1, <1>12, <1>13, <1>15, <1>16 DEF ListsInv

LEMMA RandomGraphLists ==
  ASSUME ListsInv, RandomGraph
  PROVE  /\ ListsInv'
         /\ \E g \in [Nodes -> SUBSET Nodes] :
              \A n \in Nodes :
                /\ n \notin g[n] /\ Cardinality(g[n]) = Lesser(cfg.degree, Count - 1)
                /\ g[n] \subseteq ToSet(out_neighbors[n])'
<1>1. /\ phase = "start" /\ phase' = "improve" /\ medoid' \in Nodes /\ i' = i /\ i \in Nodes
      /\ UNCHANGED <<cfg, use_vamana>>
  BY DEF RandomGraph, ListsInv, buildInput
<1>2. PICK g \in [Nodes -> {S \in SUBSET Nodes : Cardinality(S) = Lesser(cfg.degree, Count - 1)}] :
        /\ \A n \in Nodes : n \notin g[n]
        /\ out_neighbors' = [n \in Nodes |-> Filled(SetToSeq(g[n]), n)]
  BY DEF RandomGraph
<1> DEFINE list(n) == SetToSeq(g[n])
<1>3. ASSUME NEW n \in Nodes
      PROVE  /\ Filled(list(n), n) \in Seq(Nodes)
             /\ Len(Filled(list(n), n)) = cfg.degree
             /\ Single(n, Filled(list(n), n))
             /\ g[n] \subseteq ToSet(Filled(list(n), n))
  <2>1. g[n] \subseteq Nodes /\ Cardinality(g[n]) = Lesser(cfg.degree, Count - 1)
    OBVIOUS
  <2>2. IsFiniteSet(g[n])
    BY <2>1, NodesFinite, FS_Subset
  <2>3. list(n) \in Seq(g[n]) /\ Len(list(n)) = Cardinality(g[n]) /\ IsInjective(list(n))
        /\ ToSet(list(n)) = g[n]
    BY <2>2, Enumerated
  <2> HIDE DEF list
  <2>4. list(n) \in Seq(Nodes)
    BY <2>1, <2>3
  <2>5. Len(list(n)) <= cfg.degree
    BY <2>1, <2>3, CfgTypes, CountAssumption DEF Lesser, ListsInv, CountAssumption
  <2>6. Single(n, list(n))
    BY <2>3, InjectiveSingle
  <2>7. cfg.degree \in Nat
    BY CfgTypes DEF ListsInv
  <2>8. ToSet(list(n)) \subseteq ToSet(Filled(list(n), n))
    BY <2>4, <2>7, FilledList
  <2> QED
    BY <2>3, <2>4, <2>5, <2>6, <2>7, <2>8, FilledList
<1>4. out_neighbors' = [n \in Nodes |-> Filled(list(n), n)]
  BY <1>2
<1> HIDE DEF list
<1>5. out_neighbors' \in [Nodes -> Seq(Nodes)]
  BY <1>3, <1>4
<1>6. \A n \in Nodes : out_neighbors'[n] = Filled(list(n), n)
  BY <1>4
<1>7. cfg.degree <= cfg.degree
  BY CfgTypes DEF ListsInv
<1>8. ListsInv'
  BY <1>1, <1>3, <1>5, <1>6, <1>7 DEF ListsInv
<1>9. g \in [Nodes -> SUBSET Nodes]
  BY <1>2
<1>10. \A n \in Nodes : /\ n \notin g[n] /\ Cardinality(g[n]) = Lesser(cfg.degree, Count - 1)
                        /\ g[n] \subseteq ToSet(out_neighbors'[n])
  BY <1>2, <1>3, <1>6
<1> QED
  BY <1>8, <1>9, <1>10

\* A step of Improve, with its choice named.
LEMMA ImproveParts ==
  ASSUME ListsInv, L2Squared \in [Nodes -> [Nodes -> Nat]], Improve
  PROVE  \E candidates \in GreedySearch(i), pruned \in Seq(Nodes) :
           /\ phase = "improve" /\ phase' \in {"improve", "fill"} /\ i \in Nodes /\ i' = i + 1
           /\ phase' = "improve" => i' \in Nodes
           /\ phase' = "fill" => i' = Count
           /\ i' \in 0..Count
           /\ UNCHANGED <<L2Squared, cfg, use_vamana, medoid>>
           /\ candidates \subseteq Nodes
           /\ pruned = RobustPrune(i, SetToSeq(candidates))
           /\ Len(pruned) <= cfg.degree /\ IsInjective(pruned)
           /\ ToSet(pruned) \subseteq candidates \ {i}
           /\ out_neighbors' = [n \in Nodes |-> IF n = i THEN pruned
                                               ELSE IF n \in ToSet(pruned) THEN WithEdge(n, i)
                                               ELSE out_neighbors[n]]
<1>1. /\ phase = "improve" /\ i \in Nodes /\ i' = i + 1
      /\ phase' = IF i' = Count THEN "fill" ELSE "improve"
      /\ UNCHANGED <<L2Squared, cfg, use_vamana, medoid>>
  BY DEF Improve, ListsInv, buildInput
<1>2. PICK candidates \in GreedySearch(i) :
        out_neighbors' = [n \in Nodes |->
          IF n = i THEN RobustPrune(i, SetToSeq(candidates))
          ELSE IF n \in ToSet(RobustPrune(i, SetToSeq(candidates))) THEN WithEdge(n, i)
          ELSE out_neighbors[n]]
  BY DEF Improve
<1>3. (phase' = "improve" => i' \in Nodes) /\ i' \in 0..Count
  BY <1>1, NextNode
<1>4. candidates \subseteq Nodes
  BY CandidateNodes, CfgTypes DEF ListsInv
<1>5. IsFiniteSet(candidates)
  BY <1>4, NodesFinite, FS_Subset
<1>6. /\ SetToSeq(candidates) \in Seq(candidates) /\ IsInjective(SetToSeq(candidates))
      /\ ToSet(SetToSeq(candidates)) = candidates
  BY <1>5, Enumerated
<1>7. SetToSeq(candidates) \in Seq(Nodes) /\ Single(i, SetToSeq(candidates))
  BY <1>4, <1>6, InjectiveSingle
<1> DEFINE pruned == RobustPrune(i, SetToSeq(candidates))
<1>8. cfg.degree \in Nat \ {0}
  BY CfgTypes DEF ListsInv
<1>9. /\ pruned \in Seq(Nodes) /\ Len(pruned) <= cfg.degree /\ IsInjective(pruned)
      /\ ToSet(pruned) \subseteq candidates \ {i}
  BY <1>1, <1>6, <1>7, <1>8, PrunedList
<1> QED
  BY <1>1, <1>2, <1>3, <1>4, <1>9

LEMMA ImproveLists ==
  ASSUME ListsInv, L2Squared \in [Nodes -> [Nodes -> Nat]], Improve
  PROVE  /\ ListsInv'
         /\ \A n \in Nodes \ {i} : \A u \in Listed(n) \ {n} :
              \E v \in ToSet(out_neighbors'[n]) \ {n} : L2Squared[n][v] <= L2Squared[n][u]
<1>1. PICK candidates \in GreedySearch(i), pruned \in Seq(Nodes) :
           /\ phase = "improve" /\ phase' \in {"improve", "fill"} /\ i \in Nodes
           /\ phase' = "improve" => i' \in Nodes
           /\ i' \in 0..Count
           /\ UNCHANGED <<cfg, use_vamana, medoid>>
           /\ Len(pruned) <= cfg.degree /\ IsInjective(pruned)
           /\ out_neighbors' = [n \in Nodes |-> IF n = i THEN pruned
                                               ELSE IF n \in ToSet(pruned) THEN WithEdge(n, i)
                                               ELSE out_neighbors[n]]
  BY ImproveParts
<1>2. cfg.degree \in Nat \ {0}
  BY CfgTypes DEF ListsInv
<1>3. \A n \in Nodes \ {i} : \A u \in Listed(n) : L2Squared[n][u] <= L2Squared[n][u]
  <2>1. \A n \in Nodes : Listed(n) \subseteq Nodes
    BY ListedNodes DEF ListsInv
  <2>2. \A n, u \in Nodes : L2Squared[n][u] <= L2Squared[n][u]
    OBVIOUS
  <2> QED
    BY <2>1, <2>2
<1>4. ASSUME NEW n \in Nodes
      PROVE  /\ out_neighbors'[n] \in Seq(Nodes) /\ Len(out_neighbors'[n]) <= cfg.degree
             /\ Single(n, out_neighbors'[n])
             /\ n # i => \A u \in Listed(n) \ {n} :
                  \E v \in ToSet(out_neighbors'[n]) \ {n} : L2Squared[n][v] <= L2Squared[n][u]
  <2>1. CASE n = i
    BY <1>1, <2>1, InjectiveSingle
  <2>2. CASE n # i /\ n \in ToSet(pruned)
    <3>1. out_neighbors'[n] = WithEdge(n, i)
      BY <1>1, <2>2
    <3>2. out_neighbors \in [Nodes -> Seq(Nodes)] /\ Len(out_neighbors[n]) <= cfg.degree
          /\ Single(n, out_neighbors[n])
      BY DEF ListsInv
    <3> QED
      BY <1>1, <1>2, <2>2, <3>1, <3>2, EdgeList
  <2>3. CASE n # i /\ n \notin ToSet(pruned)
    <3>1. out_neighbors'[n] = out_neighbors[n]
      BY <1>1, <2>3
    <3>2. out_neighbors[n] \in Seq(Nodes) /\ Len(out_neighbors[n]) <= cfg.degree
          /\ Single(n, out_neighbors[n])
      BY DEF ListsInv
    <3> QED
      BY <1>3, <2>3, <3>1, <3>2 DEF Listed
  <2> QED
    BY <2>1, <2>2, <2>3
<1>5. out_neighbors' \in [Nodes -> Seq(Nodes)]
  <2>1. DOMAIN out_neighbors' = Nodes
    BY <1>1
  <2> QED
    BY <1>1, <1>4, <2>1
<1>6. ListsInv'
  BY <1>1, <1>4, <1>5 DEF ListsInv
<1> QED
  BY <1>4, <1>6

LEMMA FillLists ==
  ASSUME ListsInv, Fill
  PROVE  /\ ListsInv'
         /\ \A n \in Nodes : /\ Listed(n) \subseteq ToSet(out_neighbors'[n])
                             /\ ToSet(out_neighbors'[n]) \subseteq Listed(n) \cup {n}
<1>1. phase' = "built" /\ UNCHANGED <<cfg, use_vamana, medoid, i>>
      /\ out_neighbors' = [n \in Nodes |-> SubSeq(Filled(out_neighbors[n], n), 1, cfg.degree)]
  BY DEF Fill, buildInput
<1>2. cfg.degree \in Nat /\ cfg.degree <= cfg.degree
  BY CfgTypes DEF ListsInv
<1>3. ASSUME NEW n \in Nodes
      PROVE  LET list == out_neighbors[n]
             IN /\ out_neighbors'[n] = Filled(list, n)
                /\ Filled(list, n) \in Seq(Nodes) /\ Len(Filled(list, n)) = cfg.degree
                /\ Single(n, Filled(list, n))
                /\ ToSet(list) \subseteq ToSet(Filled(list, n))
                /\ ToSet(Filled(list, n)) \subseteq ToSet(list) \cup {n}
  <2>1. out_neighbors[n] \in Seq(Nodes) /\ Len(out_neighbors[n]) <= cfg.degree
        /\ Single(n, out_neighbors[n])
    BY DEF ListsInv
  <2>2. out_neighbors'[n] = SubSeq(Filled(out_neighbors[n], n), 1, cfg.degree)
    BY <1>1
  <2> QED
    BY <1>2, <2>1, <2>2, FilledList
<1>4. out_neighbors' \in [Nodes -> Seq(Nodes)]
  <2>1. DOMAIN out_neighbors' = Nodes
    BY <1>1
  <2>2. \A n \in Nodes : out_neighbors'[n] \in Seq(Nodes)
    BY <1>3
  <2> QED
    BY <1>1, <2>1, <2>2
<1>5. ListsInv'
  BY <1>1, <1>2, <1>3, <1>4 DEF ListsInv
<1>6. \A n \in Nodes : /\ Listed(n) \subseteq ToSet(out_neighbors'[n])
                       /\ ToSet(out_neighbors'[n]) \subseteq Listed(n) \cup {n}
  BY <1>3 DEF Listed
<1> QED
  BY <1>5, <1>6

LEMMA QueryLists ==
  ASSUME ListsInv, Query
  PROVE  /\ ListsInv'
         /\ \A n \in Nodes : ToSet(out_neighbors'[n]) = Listed(n) \ {n}
<1>1. phase' = "searched" /\ UNCHANGED <<cfg, use_vamana>> /\ medoid' = 0 /\ i' = 0
      /\ out_neighbors' = [n \in Nodes |-> SetToSeq(Record[n])]
  BY DEF Query
<1>2. 0 \in Nodes /\ 0 \in 0..Count
  BY CountAssumption DEF CountAssumption, Nodes
<1>3. ASSUME NEW n \in Nodes
      PROVE  /\ out_neighbors'[n] \in Seq(Nodes) /\ Len(out_neighbors'[n]) <= cfg.degree
             /\ Single(n, out_neighbors'[n])
             /\ ToSet(out_neighbors'[n]) = Listed(n) \ {n}
  <2>1. out_neighbors[n] \in Seq(Nodes) /\ Len(out_neighbors[n]) <= cfg.degree
    BY DEF ListsInv
  <2>2. /\ IsFiniteSet(Listed(n)) /\ Cardinality(Listed(n)) \in Nat
        /\ Cardinality(Listed(n)) <= Len(out_neighbors[n])
    BY <2>1, ListEntries DEF Listed
  <2>3. /\ IsFiniteSet(Listed(n) \ {n})
        /\ Cardinality(Listed(n) \ {n}) <= Cardinality(Listed(n))
        /\ Cardinality(Listed(n) \ {n}) \in Nat
    BY <2>2, FS_Subset, FS_CardinalityType
  <2>4. Listed(n) \subseteq Nodes
    BY ListedNodes DEF ListsInv
  <2>5. /\ SetToSeq(Listed(n) \ {n}) \in Seq(Listed(n) \ {n})
        /\ Len(SetToSeq(Listed(n) \ {n})) = Cardinality(Listed(n) \ {n})
        /\ IsInjective(SetToSeq(Listed(n) \ {n}))
        /\ ToSet(SetToSeq(Listed(n) \ {n})) = Listed(n) \ {n}
    BY <2>3, Enumerated
  <2>6. out_neighbors'[n] = SetToSeq(Listed(n) \ {n})
    BY <1>1 DEF Record
  <2>7. \A a, b, c, d \in Nat : a <= b /\ b <= c /\ c <= d => a <= d
    OBVIOUS
  <2>8. cfg.degree \in Nat /\ Len(out_neighbors[n]) \in Nat
    BY <2>1, CfgTypes DEF ListsInv
  <2>9. Len(out_neighbors'[n]) <= cfg.degree
    BY <2>1, <2>2, <2>3, <2>5, <2>6, <2>7, <2>8
  <2>10. out_neighbors'[n] \in Seq(Nodes)
    BY <2>4, <2>5, <2>6
  <2> QED
    BY <2>5, <2>6, <2>9, <2>10, InjectiveSingle
<1>4. out_neighbors' \in [Nodes -> Seq(Nodes)]
  <2>1. DOMAIN out_neighbors' = Nodes
    BY <1>1
  <2> QED
    BY <1>1, <1>3, <2>1
<1>5. ListsInv'
  BY <1>1, <1>2, <1>3, <1>4 DEF ListsInv
<1> QED
  BY <1>3, <1>5

LEMMA StepLists == TypesInv /\ ListsInv /\ [Next]_vars => ListsInv'
<1> SUFFICES ASSUME TypesInv, ListsInv, [Next]_vars PROVE ListsInv'
  OBVIOUS
<1>1. CASE Build
  <2>1. phase \in BuildPhases
    BY <1>1 DEF Build, BruteForce, RandomGraph, Improve, Fill, BuildPhases
  <2> QED
    BY <1>1, <2>1, MetricTypes, BruteForceLists, RandomGraphLists, ImproveLists, FillLists DEF Build
<1>2. CASE Query
  BY <1>2, QueryLists
<1>3. CASE UNCHANGED buildVars
  BY <1>3 DEF ListsInv, buildVars, buildInput
<1> QED
  BY <1>1, <1>2, <1>3 DEF Next, Returned, vars

ListFacts == TypesInv /\ ListsInv

LEMMA ListFactsHold == Spec => []ListFacts
<1>1. Init => ListFacts
  BY InitTypes, InitLists DEF ListFacts
<1>2. ListFacts /\ [Next]_vars => ListFacts'
  BY StepTypes, StepLists DEF ListFacts
<1> QED
  BY <1>1, <1>2, PTL DEF Spec

\* Type correctness of the builder, until the search that follows it
\* (graph_builder.cpp:61-92).
THEOREM BuildTypeCorrect == Spec => [](phase # "searched" => BuildTypeOK)
<1>1. ListFacts => (phase # "searched" => BuildTypeOK)
  BY DEF ListFacts, TypesInv, ListsInv, BuildTypeOK, BuildPhases
<1> QED
  BY <1>1, ListFactsHold, PTL

\* A list never has more entries than a record has room for, and a built one has
\* exactly as many (vamana_builder.cpp:187, 195-204, segment.cpp:272).
THEOREM ListsAlwaysFit == Spec => []ListsFit
<1>1. ListFacts => ListsFit
  BY DEF ListFacts, ListsInv, ListsFit
<1> QED
  BY <1>1, ListFactsHold, PTL

\* No list has an entry twice, its padding apart (vamana_builder.cpp:178-192).
THEOREM NeverNeighborTwice == Spec => []NoNeighborTwice
<1>1. ASSUME ListFacts, NEW n \in Nodes, NEW j \in 1..cfg.degree + 1, NEW k \in 1..cfg.degree + 1,
             j < k, k <= Len(out_neighbors[n]), out_neighbors[n][j] = out_neighbors[n][k]
      PROVE  out_neighbors[n][j] = n
  <2>1. out_neighbors[n] \in Seq(Nodes) /\ Single(n, out_neighbors[n])
    BY <1>1 DEF ListFacts, ListsInv
  <2>2. cfg.degree \in Nat
    BY <1>1, CfgTypes DEF ListFacts, ListsInv
  <2>3. \A len \in Nat : j < k /\ k <= len => j \in 1..len /\ k \in 1..len /\ j # k
    BY <2>2
  <2>4. Len(out_neighbors[n]) \in Nat /\ DOMAIN out_neighbors[n] = 1..Len(out_neighbors[n])
    BY <2>1
  <2>5. j \in DOMAIN out_neighbors[n] /\ k \in DOMAIN out_neighbors[n] /\ j # k
    BY <1>1, <2>3, <2>4
  <2> QED
    BY <1>1, <2>1, <2>5 DEF Single
<1>2. ListFacts => NoNeighborTwice
  BY <1>1 DEF NoNeighborTwice
<1> QED
  BY <1>2, ListFactsHold, PTL

\* Improving a node takes no other node's closest neighbor away, although a full
\* list is pruned (vamana_builder.cpp:83-108, 187-190).
THEOREM ClosestKept == Spec => ClosestNeighborKept
<1> DEFINE Kept1 == \A n \in Nodes \ {i} : \A u \in Listed(n) \ {n} :
                      \E v \in Listed(n)' \ {n} : L2Squared[n][v] <= L2Squared[n][u]
<1>1. ASSUME ListFacts, [Next]_vars PROVE Kept1 \/ UNCHANGED buildVars
  <2> USE <1>1 DEF ListFacts
  <2>1. CASE BruteForce \/ RandomGraph \/ Fill \/ Query
    <3>1. phase \in BuildPhases
      BY <2>1 DEF BruteForce, RandomGraph, Fill, Query, BuildPhases
    <3>2. ASSUME NEW n \in Nodes \ {i}, NEW u \in Listed(n) \ {n}
          PROVE  u \in Listed(n)' /\ L2Squared[n][u] <= L2Squared[n][u]
      <4>1. Listed(n) \subseteq Nodes
        BY ListedNodes DEF ListsInv
      <4>2. L2Squared[n][u] \in Nat
        BY <3>1, <4>1, MetricTypes
      <4>3. u \in Listed(n)'
        <5>1. CASE BruteForce
          <6>1. out_neighbors'[n] = out_neighbors[n]
            BY <5>1 DEF BruteForce, ListsInv
          <6> QED
            BY <6>1 DEF Listed
        <5>2. CASE RandomGraph
          BY <5>2 DEF RandomGraph, ListsInv, Listed, ToSet
        <5>3. CASE Fill
          BY <5>3, FillLists DEF Listed
        <5>4. CASE Query
          BY <5>4, QueryLists DEF Listed
        <5> QED
          BY <2>1, <5>1, <5>2, <5>3, <5>4
      <4> QED
        BY <4>2, <4>3
    <3> QED
      BY <3>2
  <2>2. CASE Improve
    <3>1. phase \in BuildPhases
      BY <2>2 DEF Improve, BuildPhases
    <3> QED
      BY <2>2, <3>1, MetricTypes, ImproveLists DEF Listed
  <2>3. CASE UNCHANGED buildVars
    BY <2>3
  <2> QED
    BY <2>1, <2>2, <2>3 DEF Next, Build, Returned, vars
<1>2. ListFacts /\ [Next]_vars => [Kept1]_buildVars
  BY <1>1
<1>3. [][Kept1]_buildVars <=> ClosestNeighborKept
  BY DEF ClosestNeighborKept
<1> QED
  BY <1>2, <1>3, ListFactsHold, PTL DEF Spec

-----------------------------------------------------------------------------
(***************************************************************************)
(* What the lists lead to.                                                 *)
(***************************************************************************)

\* From n, with the neighbors L, every other node t is reached at once or through
\* one that is closer to it.
Leads(n, L) ==
  \A t \in Nodes \ {n} : t \in L \/ \E m \in L : L2Squared[m][t] < L2Squared[n][t]

Complete(n, L) == Nodes \ {n} \subseteq L

\* The lists of a construction that cuts nothing short.
PathsInv ==
  /\ phase \in {"start", "improve", "fill"} => use_vamana
  /\ phase = "start" => i = 0
  /\ phase = "brute" /\ Uncut => \A n \in Nodes : n < i => Leads(n, Listed(n))
  /\ phase \in {"fill", "built"} /\ Uncut => \A n \in Nodes : Leads(n, Listed(n))
  /\ phase = "improve" /\ Uncut =>
       \A n \in Nodes :
         IF n < i THEN Leads(n, Listed(n)) /\ n \notin Listed(n)
         ELSE Complete(n, Listed(n))

LEMMA CompleteLeads ==
  ASSUME NEW n, NEW L, Complete(n, L)
  PROVE  Leads(n, L)
BY DEF Complete, Leads

\* What Uncut says of the sizes of lists, candidates and searches.
LEMMA UncutTypes ==
  ASSUME cfg \in Configs, Uncut
  PROVE  /\ Lesser(cfg.degree, Count - 1) = Count - 1
         /\ Count - 1 <= cfg.degree
         /\ use_vamana => /\ cfg.alpha <= 10 /\ Count <= cfg.max_visits
                          /\ Lesser(cfg.beam_width, Count) = Count
<1>1. Count \in Nat \ {0} /\ cfg.degree \in Nat /\ cfg.beam_width \in Nat
      /\ cfg.max_visits \in Nat
  BY CfgTypes, CountAssumption DEF CountAssumption
<1>2. cfg.degree >= Count - 1
  BY DEF Uncut
<1>3. use_vamana => cfg.alpha <= 10 /\ cfg.beam_width >= Count /\ cfg.max_visits >= Count
  BY DEF Uncut
<1>4. \A d, c \in Int : d >= c => c <= d /\ Lesser(d, c) = c
  BY DEF Lesser
<1> QED
  BY <1>1, <1>2, <1>3, <1>4

\* All nodes but one: as many as a list takes from.
LEMMA AllOthers ==
  ASSUME NEW n \in Nodes, NEW S \in SUBSET Nodes, n \notin S, Cardinality(S) = Count - 1
  PROVE  S = Nodes \ {n}
<1>1. IsFiniteSet(Nodes) /\ Cardinality(Nodes \ {n}) = Count - 1
  BY NodesFinite, FS_RemoveElement
<1>2. IsFiniteSet(Nodes \ {n}) /\ S \in SUBSET (Nodes \ {n})
  BY <1>1, FS_Subset
<1> QED
  BY <1>1, <1>2, FS_Subset

\* A node is closer to t than it would have to be to keep t, with alpha at most one.
LEMMA CloseIsCloser ==
  ASSUME NEW a \in Nat, a <= 10, NEW d \in Nat, NEW e \in Nat, a * d > 10 * e
  PROVE  e < d
<1>1. \/ a = 0 \/ a = 1 \/ a = 2 \/ a = 3 \/ a = 4 \/ a = 5 \/ a = 6 \/ a = 7 \/ a = 8
      \/ a = 9 \/ a = 10
  OBVIOUS
<1> QED
  BY <1>1

\* GreedySearch for a node that is not improved yet reaches all nodes.
LEMMA AllExpanded ==
  ASSUME TypesInv, ListsInv, PathsInv, Uncut, phase = "improve", NEW E \in Expanded(i)
  PROVE  E = Nodes
<1>1. use_vamana /\ Count <= cfg.max_visits /\ cfg.max_visits \in Nat
  BY UncutTypes, CfgTypes DEF PathsInv, ListsInv
<1>2. i \in Nodes /\ out_neighbors \in [Nodes -> Seq(Nodes)] /\ medoid \in Nodes
  BY DEF ListsInv
<1>3. PICK s : s.expanded = E /\ Searched(s, cfg.max_visits)
  BY <1>1, <1>2, ExpandedNodes
<1>4. E \subseteq Nodes /\ IsFiniteSet(E)
  BY <1>3, NodesFinite, FS_Subset DEF Searched
<1>5. s.frontier = {}
  <2>1. CASE Cardinality(E) = cfg.max_visits
    <3>1. Cardinality(E) <= Count /\ (Cardinality(E) = Count => E = Nodes)
      BY <1>4, NodesFinite, FS_Subset
    <3>2. Count \in Nat
      BY CountAssumption DEF CountAssumption
    <3>3. E = Nodes
      BY <1>1, <2>1, <3>1, <3>2
    <3> QED
      BY <1>3, <3>3 DEF Searched
  <2> QED
    BY <1>3, <2>1 DEF Searched
<1>6. medoid \in E /\ \A e \in E : Listed(e) \subseteq E
  BY <1>3, <1>5 DEF Searched
<1>7. CASE \E n \in E : ~(n < i)
  <2>1. PICK n \in E : ~(n < i)
    BY <1>7
  <2>2. Complete(n, Listed(n))
    BY <1>4, <2>1 DEF PathsInv
  <2> QED
    BY <1>4, <1>6, <2>1, <2>2 DEF Complete
<1>8. CASE \A n \in E : n < i
  <2> DEFINE dist == {L2Squared[n][i] : n \in E}
  <2>1. \A n \in Nodes : L2Squared[n][i] \in Nat
    BY <1>2, MetricTypes DEF BuildPhases
  <2>2. dist \subseteq Nat /\ dist # {}
    BY <1>4, <1>6, <2>1
  <2>3. PICK d \in dist : \A y \in dist : d <= y
    <3> HIDE DEF dist
    <3> QED
      BY <2>2, LeastNumber
  <2>4. PICK n \in E : d = L2Squared[n][i]
    BY <2>3
  <2>5. \A m \in E : L2Squared[n][i] <= L2Squared[m][i]
    BY <2>3, <2>4
  <2>6. Leads(n, Listed(n)) /\ n < i
    BY <1>4, <1>8, <2>4 DEF PathsInv
  <2>7. i \notin E
    BY <1>2, <1>8 DEF Nodes
  <2>8. PICK m \in Listed(n) : L2Squared[m][i] < L2Squared[n][i]
    BY <1>2, <1>6, <2>4, <2>6, <2>7 DEF Leads
  <2>9. m \in E /\ m \in Nodes /\ n \in Nodes
    BY <1>4, <1>6, <2>4, <2>8
  <2> QED
    BY <2>1, <2>5, <2>8, <2>9
<1> QED
  BY <1>7, <1>8

\* What RobustPrune leaves of all nodes leads to each of them.
LEMMA PrunedLeads ==
  ASSUME L2Squared \in [Nodes -> [Nodes -> Nat]],
         \A p, q \in Nodes : L2Squared[p][q] = L2Squared[q][p],
         cfg \in Configs, Uncut, use_vamana,
         NEW p \in Nodes
  PROVE  Leads(p, ToSet(RobustPrune(p, SetToSeq(Nodes))))
<1> DEFINE list == SetToSeq(Nodes)
           pruned == RobustPrune(p, list)
<1>1. list \in Seq(Nodes) /\ Len(list) = Count /\ ToSet(list) = Nodes
  BY NodesFinite, Enumerated
<1>2. cfg.degree \in Nat \ {0} /\ Count - 1 <= cfg.degree /\ cfg.alpha \in Nat /\ cfg.alpha <= 10
  BY CfgTypes, UncutTypes
<1> HIDE DEF list
<1>3. PICK K \in SUBSET DOMAIN list : Keeps(p, list, K) /\ Selects(list, K, pruned)
  BY <1>1, <1>2, Pruned
<1>4. ToSet(pruned) = {list[k] : k \in K}
  BY <1>3 DEF Selects
<1> HIDE DEF pruned
<1> SUFFICES ASSUME NEW t \in Nodes \ {p}, t \notin ToSet(pruned)
             PROVE  \E m \in ToSet(pruned) : L2Squared[m][t] < L2Squared[p][t]
  BY DEF Leads, pruned, list
<1>5. PICK k \in DOMAIN list : list[k] = t
  BY <1>1 DEF ToSet
<1>6. PICK kp \in DOMAIN list : list[kp] = p
  BY <1>1 DEF ToSet
<1>7. k \notin K /\ kp # k
  BY <1>4, <1>5, <1>6
<1>8. kp \notin K
  BY <1>3, <1>6 DEF Keeps, Kept
<1> DEFINE before == {j \in K : Sooner(p, list, j, k)}
<1>9. Cardinality(before) < cfg.degree
  <2>1. DOMAIN list = 1..Count
    BY <1>1
  <2>2. Count \in Nat
    BY CountAssumption DEF CountAssumption
  <2>3. IsFiniteSet(DOMAIN list) /\ Cardinality(DOMAIN list) = Count
    BY <2>1, <2>2, FS_Interval
  <2>4. IsFiniteSet(DOMAIN list \ {k}) /\ Cardinality(DOMAIN list \ {k}) = Count - 1
    BY <2>3, FS_RemoveElement
  <2>5. /\ IsFiniteSet((DOMAIN list \ {k}) \ {kp})
        /\ Cardinality((DOMAIN list \ {k}) \ {kp}) = Count - 1 - 1
    BY <1>7, <2>4, FS_RemoveElement
  <2>6. before \in SUBSET ((DOMAIN list \ {k}) \ {kp})
    BY <1>7, <1>8
  <2>7. IsFiniteSet(before) /\ Cardinality(before) <= Count - 1 - 1
    BY <2>5, <2>6, FS_Subset
  <2>8. Cardinality(before) \in Nat
    BY <2>7, FS_CardinalityType
  <2> QED
    BY <1>2, <2>2, <2>7, <2>8
<1>10. PICK j \in before : Close(p, t, list[j])
  BY <1>3, <1>5, <1>7, <1>9 DEF Keeps, Kept
<1>11. list[j] \in Nodes /\ list[j] \in ToSet(pruned)
  BY <1>1, <1>4
<1>12. L2Squared[p][t] \in Nat /\ L2Squared[t][list[j]] \in Nat
       /\ L2Squared[t][list[j]] = L2Squared[list[j]][t]
  BY <1>11
<1>13. cfg.alpha * L2Squared[p][t] > 10 * L2Squared[t][list[j]]
  BY <1>10 DEF Close
<1>14. L2Squared[t][list[j]] < L2Squared[p][t]
  BY <1>2, <1>12, <1>13, CloseIsCloser
<1> QED
  BY <1>11, <1>12, <1>14

\* More neighbors, at the same distances, lead at least as far.
LEMMA LeadsMore ==
  ASSUME NEW n \in Nodes, NEW L, NEW M, L \subseteq M, Leads(n, L)
  PROVE  Leads(n, M)
BY DEF Leads

LEMMA UncutSame == UNCHANGED <<cfg, use_vamana>> => Uncut' = Uncut
BY DEF Uncut

LEMMA BruteForcePaths ==
  ASSUME TypesInv, ListsInv, PathsInv, BruteForce
  PROVE  PathsInv'
<1>1. /\ phase = "brute" /\ i \in Nodes /\ i' = i + 1 /\ phase' \in {"built", "brute"}
      /\ phase' = "built" => i' = Count
      /\ UNCHANGED <<L2Squared, cfg, use_vamana>>
  BY DEF BruteForce, ListsInv, buildInput
<1>2. PICK S \in Nearest(i) :
        out_neighbors' = [out_neighbors EXCEPT ![i] = Filled(SetToSeq(S), i)]
  BY DEF BruteForce
<1>3. S \in SUBSET Nodes /\ i \notin S /\ Cardinality(S) = Lesser(cfg.degree, Count - 1)
  BY <1>2 DEF Nearest
<1>4. IsFiniteSet(S)
  BY <1>3, NodesFinite, FS_Subset
<1>5. SetToSeq(S) \in Seq(S) /\ ToSet(SetToSeq(S)) = S
  BY <1>4, Enumerated
<1>6. SetToSeq(S) \in Seq(Nodes)
  BY <1>3, <1>5
<1>7. S \subseteq ToSet(Filled(SetToSeq(S), i))
  BY <1>1, <1>5, <1>6, CfgTypes, FilledList DEF ListsInv
<1>8. out_neighbors'[i] = Filled(SetToSeq(S), i)
      /\ \A n \in Nodes : n # i => out_neighbors'[n] = out_neighbors[n]
  BY <1>1, <1>2 DEF ListsInv
<1>9. ASSUME Uncut, NEW n \in Nodes, n < i \/ n = i
      PROVE  Leads(n, ToSet(out_neighbors'[n]))
  <2>1. CASE n = i
    <3>1. Lesser(cfg.degree, Count - 1) = Count - 1
      BY <1>9, UncutTypes DEF ListsInv
    <3>2. S = Nodes \ {i}
      BY <1>1, <1>3, <3>1, AllOthers
    <3>3. Complete(n, ToSet(out_neighbors'[n]))
      BY <1>7, <1>8, <2>1, <3>2 DEF Complete
    <3> QED
      BY <3>3, CompleteLeads
  <2>2. CASE n # i
    BY <1>1, <1>8, <1>9, <2>2 DEF PathsInv, Listed
  <2> QED
    BY <2>1, <2>2
<1>10. \A n \in Nodes : Uncut /\ (n < i \/ n = i) => Leads(n, Listed(n))'
  BY <1>1, <1>9 DEF Leads, Listed
<1>11. Uncut' = Uncut
  BY <1>1, UncutSame
<1>12. \A n \in Nodes : (n < i' => n < i \/ n = i) /\ (phase' = "built" => n < i \/ n = i)
  BY <1>1, NextNode
<1> QED
  BY <1>1, <1>10, <1>11, <1>12 DEF PathsInv

LEMMA RandomGraphPaths ==
  ASSUME TypesInv, ListsInv, PathsInv, RandomGraph
  PROVE  PathsInv'
<1>1. phase = "start" /\ phase' = "improve" /\ UNCHANGED <<cfg, use_vamana, i>> /\ i = 0
      /\ use_vamana
  BY DEF RandomGraph, buildInput, PathsInv
<1>2. PICK g \in [Nodes -> SUBSET Nodes] :
        \A n \in Nodes : /\ n \notin g[n] /\ Cardinality(g[n]) = Lesser(cfg.degree, Count - 1)
                         /\ g[n] \subseteq ToSet(out_neighbors[n])'
  BY RandomGraphLists
<1>3. ASSUME Uncut, NEW n \in Nodes
      PROVE  Complete(n, Listed(n)')
  <2>1. g[n] \in SUBSET Nodes /\ n \notin g[n]
        /\ Cardinality(g[n]) = Lesser(cfg.degree, Count - 1)
    BY <1>2
  <2>2. Lesser(cfg.degree, Count - 1) = Count - 1
    BY <1>3, UncutTypes DEF ListsInv
  <2>3. g[n] = Nodes \ {n}
    BY <2>1, <2>2, AllOthers
  <2> QED
    BY <1>2, <2>3 DEF Complete, Listed
<1>4. \A n \in Nodes : ~(n < i')
  BY <1>1 DEF Nodes
<1>5. \A n \in Nodes : Complete(n, Listed(n))' <=> Complete(n, Listed(n)')
  BY DEF Complete
<1>6. Uncut' = Uncut
  BY <1>1, UncutSame
<1> QED
  BY <1>1, <1>3, <1>4, <1>5, <1>6 DEF PathsInv

LEMMA ImprovePaths ==
  ASSUME TypesInv, ListsInv, PathsInv, Improve
  PROVE  PathsInv'
<1>1. /\ L2Squared \in [Nodes -> [Nodes -> Nat]]
      /\ \A p, q \in Nodes : L2Squared[p][q] = L2Squared[q][p]
  <2>1. phase \in BuildPhases
    BY DEF Improve, BuildPhases
  <2> QED
    BY <2>1, MetricTypes
<1>2. PICK candidates \in GreedySearch(i), pruned \in Seq(Nodes) :
           /\ phase = "improve" /\ phase' \in {"improve", "fill"} /\ i \in Nodes /\ i' = i + 1
           /\ phase' = "fill" => i' = Count
           /\ UNCHANGED <<L2Squared, cfg, use_vamana, medoid>>
           /\ candidates \subseteq Nodes
           /\ pruned = RobustPrune(i, SetToSeq(candidates))
           /\ ToSet(pruned) \subseteq candidates \ {i}
           /\ out_neighbors' = [n \in Nodes |-> IF n = i THEN pruned
                                               ELSE IF n \in ToSet(pruned) THEN WithEdge(n, i)
                                               ELSE out_neighbors[n]]
  BY <1>1, ImproveParts
<1>3. use_vamana /\ cfg \in Configs /\ Uncut' = Uncut
  BY <1>2, UncutSame DEF PathsInv, ListsInv
<1>4. ASSUME Uncut, NEW n \in Nodes
      PROVE  /\ n < i \/ n = i => Leads(n, ToSet(out_neighbors'[n])) /\ n \notin ToSet(out_neighbors'[n])
             /\ ~(n < i \/ n = i) => Complete(n, ToSet(out_neighbors'[n]))
  <2>1. CASE n = i
    <3>1. PICK E \in Expanded(i) :
            candidates \subseteq E /\ Cardinality(candidates) = Lesser(cfg.beam_width, Cardinality(E))
      BY <1>3, CandidateNodes, CfgTypes DEF ListsInv
    <3>2. E = Nodes
      BY <1>2, <1>4, AllExpanded
    <3>3. Cardinality(candidates) = Count
      BY <1>3, <1>4, <3>1, <3>2, NodesFinite, UncutTypes
    <3>4. candidates = Nodes
      BY <1>2, <3>3, NodesFinite, FS_Subset
    <3>5. Leads(i, ToSet(pruned))
      BY <1>1, <1>2, <1>3, <1>4, <3>4, PrunedLeads
    <3>6. out_neighbors'[n] = pruned
      BY <1>2, <2>1
    <3> QED
      BY <1>2, <2>1, <3>5, <3>6 DEF Nodes
  <2>2. CASE n # i
    <3>1. out_neighbors'[n] \in {out_neighbors[n], WithEdge(n, i)}
      BY <1>2, <2>2
    <3>2. /\ out_neighbors \in [Nodes -> Seq(Nodes)] /\ Len(out_neighbors[n]) <= cfg.degree
          /\ Single(n, out_neighbors[n]) /\ cfg.degree \in Nat \ {0}
      BY CfgTypes DEF ListsInv
    <3>3. CASE n < i
      <4>1. Leads(n, Listed(n)) /\ n \notin Listed(n)
        BY <1>2, <1>4, <3>3 DEF PathsInv
      <4>2. IsInjective(out_neighbors[n])
        BY <3>2, <4>1 DEF Single, IsInjective, Listed, ToSet
      <4>3. i \in Listed(n) \/ Len(out_neighbors[n]) < cfg.degree
        <5>1. CASE i \notin Listed(n)
          <6>1. Listed(n) \in SUBSET ((Nodes \ {n}) \ {i})
            BY <3>2, <4>1, <5>1, ListedNodes
          <6>2. IsFiniteSet(Nodes \ {n}) /\ Cardinality(Nodes \ {n}) = Count - 1
            BY NodesFinite, FS_RemoveElement
          <6>3. /\ IsFiniteSet((Nodes \ {n}) \ {i})
                /\ Cardinality((Nodes \ {n}) \ {i}) = Count - 1 - 1
            BY <1>2, <2>2, <6>2, FS_RemoveElement
          <6>4. Cardinality(Listed(n)) <= Count - 1 - 1
            BY <6>1, <6>3, FS_Subset
          <6>5. Cardinality(Listed(n)) = Len(out_neighbors[n])
            BY <3>2, <4>2, ListEntries DEF Listed
          <6>6. Len(out_neighbors[n]) \in Nat /\ Count \in Nat /\ Count - 1 <= cfg.degree
            BY <1>3, <1>4, <3>2, UncutTypes, CountAssumption DEF CountAssumption
          <6>7. \A l, c, d \in Nat : l <= c - 1 - 1 /\ c - 1 <= d => l < d
            OBVIOUS
          <6> QED
            BY <3>2, <6>4, <6>5, <6>6, <6>7
        <5> QED
          BY <5>1
      <4>4. /\ Listed(n) \subseteq ToSet(WithEdge(n, i))
            /\ ToSet(WithEdge(n, i)) \subseteq Listed(n) \cup {i}
        BY <1>1, <1>2, <2>2, <3>2, <4>3, EdgeList
      <4>5. /\ Listed(n) \subseteq ToSet(out_neighbors'[n])
            /\ ToSet(out_neighbors'[n]) \subseteq Listed(n) \cup {i}
        BY <3>1, <4>4 DEF Listed
      <4> QED
        BY <2>2, <3>3, <4>1, <4>5, LeadsMore
    <3>4. CASE ~(n < i)
      <4>1. Complete(n, Listed(n))
        BY <1>2, <1>4, <3>4 DEF PathsInv
      <4>2. i \in Listed(n)
        BY <1>2, <2>2, <4>1 DEF Complete
      <4>3. out_neighbors'[n] = out_neighbors[n]
        BY <3>1, <4>2 DEF WithEdge
      <4> QED
        BY <2>2, <3>4, <4>1, <4>3 DEF Listed
    <3> QED
      BY <3>3, <3>4
  <2> QED
    BY <2>1, <2>2
<1>5. \A n \in Nodes : /\ n < i' <=> n < i \/ n = i
                       /\ phase' = "fill" => n < i \/ n = i
  <2>1. \A n \in Nodes : n < i \/ n = i => n < i + 1
    BY <1>2 DEF Nodes
  <2> QED
    BY <1>2, <2>1, NextNode
<1>6. \A n \in Nodes : /\ Leads(n, Listed(n))' <=> Leads(n, ToSet(out_neighbors'[n]))
                       /\ Complete(n, Listed(n))' <=> Complete(n, ToSet(out_neighbors'[n]))
                       /\ Listed(n)' = ToSet(out_neighbors'[n])
  BY <1>2 DEF Leads, Complete, Listed
<1> QED
  BY <1>2, <1>3, <1>4, <1>5, <1>6 DEF PathsInv

LEMMA FillPaths ==
  ASSUME TypesInv, ListsInv, PathsInv, Fill
  PROVE  PathsInv'
<1>1. phase = "fill" /\ phase' = "built" /\ UNCHANGED <<L2Squared, cfg, use_vamana>>
  BY DEF Fill, buildInput
<1>2. Uncut' = Uncut
  BY <1>1, UncutSame
<1>3. ASSUME Uncut, NEW n \in Nodes PROVE Leads(n, Listed(n))'
  <2>1. Leads(n, Listed(n))
    BY <1>1, <1>3 DEF PathsInv
  <2>2. Listed(n) \subseteq Listed(n)'
    BY FillLists DEF Listed
  <2>3. Leads(n, Listed(n)')
    BY <2>1, <2>2, LeadsMore
  <2> QED
    BY <1>1, <2>3 DEF Leads
<1> QED
  BY <1>1, <1>2, <1>3 DEF PathsInv

LEMMA InitPaths == Init => PathsInv
<1> SUFFICES ASSUME Init PROVE PathsInv
  OBVIOUS
<1>1. phase = IF use_vamana THEN "start" ELSE "brute"
  BY DEF Init, BuildInit
<1>2. i = 0 /\ phase \in {"start", "brute"} /\ (phase = "start" => use_vamana)
  BY <1>1 DEF Init, BuildInit
<1>3. \A n \in Nodes : ~(n < 0)
  BY DEF Nodes
<1> QED
  BY <1>2, <1>3 DEF PathsInv

LEMMA StepPaths == TypesInv /\ ListsInv /\ PathsInv /\ [Next]_vars => PathsInv'
<1> SUFFICES ASSUME TypesInv, ListsInv, PathsInv, [Next]_vars PROVE PathsInv'
  OBVIOUS
<1>1. CASE Build
  BY <1>1, BruteForcePaths, RandomGraphPaths, ImprovePaths, FillPaths DEF Build
<1>2. CASE Query
  BY <1>2 DEF Query, PathsInv
<1>3. CASE UNCHANGED buildVars
  <2>1. UNCHANGED <<L2Squared, cfg, use_vamana, out_neighbors, phase, i>>
    BY <1>3 DEF buildVars, buildInput
  <2>2. Uncut' = Uncut
    BY <2>1, UncutSame
  <2>3. \A n \in Nodes : /\ Listed(n)' = Listed(n)
                         /\ Leads(n, Listed(n))' <=> Leads(n, Listed(n))
                         /\ Complete(n, Listed(n))' <=> Complete(n, Listed(n))
    BY <2>1 DEF Listed, Leads, Complete
  <2> QED
    BY <2>1, <2>2, <2>3 DEF PathsInv
<1> QED
  BY <1>1, <1>2, <1>3 DEF Next, Returned, vars

-----------------------------------------------------------------------------
\* In the graph of a stored vector that was not cut, every node is at the query or has
\* a neighbor that is closer to it.
Downhill ==
  stored /\ Uncut =>
    \A n \in Nodes : exact[n] > 0 => \E m \in Neighbors(n) : exact[m] < exact[n]

\* Unless a read has failed, the visited nodes are those that were scored.
ScoredInv ==
  /\ IsFiniteSet(scored)
  /\ ~faulty => scored = {Result(n) : n \in visited}
  /\ pc \in {"loop", "done"} /\ ~faulty => Known # {}

LEMMA QueryDownhill ==
  ASSUME TypesInv, ListsInv, PathsInv, Query
  PROVE  Downhill'
<1>1. phase = "built" /\ UNCHANGED <<cfg, use_vamana>>
  BY DEF Query
<1>2. Uncut' = Uncut
  BY <1>1, UncutSame
<1>3. /\ L2Squared \in [Nodes -> [Nodes -> Nat]]
      /\ \A p, q \in Nodes : L2Squared[p][q] = L2Squared[q][p] /\ L2Squared[p][p] = 0
  <2>1. phase \in BuildPhases
    BY <1>1 DEF BuildPhases
  <2> QED
    BY <2>1, MetricTypes
<1> SUFFICES ASSUME stored', Uncut, NEW n \in Nodes, exact'[n] > 0
             PROVE  \E m \in Neighbors(n)' : exact'[m] < exact'[n]
  BY <1>2 DEF Downhill
<1>4. PICK q \in Queried : Call(Record, L2Squared[q], FALSE, L2Squared[q])
  BY DEF Query
<1>5. q \in Nodes /\ graph' = Record /\ exact' = L2Squared[q]
  BY <1>4, QueriedAssumption DEF Call, QueriedAssumption
<1>6. Listed(n) \subseteq Nodes
  BY ListedNodes DEF ListsInv
<1>7. Neighbors(n)' = Listed(n) \ {n}
  BY <1>5, <1>6 DEF Neighbors, Record
<1>8. q # n
  BY <1>3, <1>5
<1>9. Leads(n, Listed(n))
  BY <1>1 DEF PathsInv
<1>10. CASE q \in Listed(n)
  BY <1>3, <1>5, <1>7, <1>8, <1>10
<1>11. CASE q \notin Listed(n)
  <2>1. PICK m \in Listed(n) : L2Squared[m][q] < L2Squared[n][q]
    BY <1>5, <1>8, <1>9, <1>11 DEF Leads
  <2>2. m \in Nodes /\ L2Squared[q][m] = L2Squared[m][q] /\ L2Squared[q][n] = L2Squared[n][q]
        /\ L2Squared[n][q] \in Nat
    BY <1>3, <1>5, <1>6
  <2>3. exact'[m] < exact'[n] /\ m # n
    BY <1>5, <2>1, <2>2
  <2> QED
    BY <1>7, <2>1, <2>3
<1> QED
  BY <1>10, <1>11

LEMMA StepDownhill ==
  ASSUME TypesInv, ListsInv, PathsInv, Downhill, [Next]_vars
  PROVE  Downhill'
<1>1. CASE Query
  BY <1>1, QueryDownhill
<1>2. CASE ~Query
  <2>1. UNCHANGED <<cfg, use_vamana, stored, searchInput>>
    BY <1>2 DEF Next, Returned, vars, buildVars, buildInput, searchVars, Build, BruteForce,
                RandomGraph, Improve, Fill, Search, Start, StartFails, SkipVisited, VisitFails,
                ParseNothing, Visit, Finish, Arrive
  <2>2. Uncut' = Uncut
    BY <2>1, UncutSame
  <2>3. exact' = exact /\ \A n : Neighbors(n)' = Neighbors(n)
    BY <2>1 DEF searchInput, Neighbors
  <2> QED
    BY <2>1, <2>2, <2>3 DEF Downhill
<1> QED
  BY <1>1, <1>2

LEMMA StepScored ==
  ASSUME TypesInv, ScoredInv, [Next]_vars
  PROVE  ScoredInv'
<1>1. SearchTypeOK
  BY DEF TypesInv
<1>2. CASE Start
  <2>1. entry \in Nodes /\ frontier' = [frontier EXCEPT ![entry] = 1] /\ frontier \in [Nodes -> Nat]
    BY <1>1, <1>2, CountAssumption DEF Start, SearchTypeOK, entry, Nodes, CountAssumption
  <2>2. frontier'[entry] = 1
    BY <2>1
  <2>3. entry \in Known'
    BY <2>1, <2>2 DEF Known, InFrontier
  <2> QED
    BY <1>2, <2>3 DEF Start, ScoredInv, Result, searchInput
<1>3. CASE StartFails \/ VisitFails
  BY <1>3 DEF StartFails, VisitFails, ScoredInv
<1>4. CASE SkipVisited
  BY <1>1, <1>4, SkipKnown DEF SkipVisited, ScoredInv, Result, searchInput
<1>5. CASE Visit
  <2>1. PICK n \in Nodes, d \in Nat :
          /\ visited' = visited \cup {n}
          /\ scored' = scored \cup {[id |-> n, distance |-> d]}
          /\ ~faulty' => ~faulty /\ d = exact[n]
    BY <1>1, <1>5, VisitParts DEF VisitedAs
  <2>2. \A m : Result(m)' = Result(m)
    BY <1>5 DEF Visit, Result, searchInput
  <2>3. IsFiniteSet(scored')
    BY <2>1, FS_AddElement DEF ScoredInv
  <2>4. Known' # {}
    BY <2>1 DEF Known
  <2>5. ASSUME ~faulty' PROVE scored' = {Result(m) : m \in visited'}
    <3>1. scored = {Result(m) : m \in visited} /\ scored' = scored \cup {Result(n)}
      BY <2>1, <2>5 DEF ScoredInv, Result
    <3> QED
      BY <2>1, <3>1
  <2> QED
    BY <2>2, <2>3, <2>4, <2>5 DEF ScoredInv
<1>6. CASE Finish \/ Arrive \/ ParseNothing
  BY <1>6 DEF Finish, Arrive, ParseNothing, ScoredInv, Known, InFrontier, Result, searchInput
<1>7. CASE Query
  BY <1>7, QueryStarts, FS_EmptySet DEF Untouched, ScoredInv
<1>8. CASE UNCHANGED searchVars
  BY <1>8 DEF searchVars, searchInput, ScoredInv, Known, InFrontier, Result
<1> QED
  BY <1>2, <1>3, <1>4, <1>5, <1>6, <1>7, <1>8, Steps DEF Search

\* All of it: the search knows enough, and its graph leads downhill.
FoundInv == KnownInv /\ ListsInv /\ PathsInv /\ Downhill /\ ScoredInv

LEMMA InitFound == Init => FoundInv
<1> SUFFICES ASSUME Init PROVE FoundInv
  OBVIOUS
<1>1. Downhill /\ ScoredInv
  BY FS_EmptySet DEF Init, SearchInit, Downhill, ScoredInv
<1> QED
  BY <1>1, InitKnown, InitLists, InitPaths DEF FoundInv

LEMMA StepFound == FoundInv /\ [Next]_vars => FoundInv'
BY StepKnown, StepLists, StepPaths, StepDownhill, StepScored DEF FoundInv, KnownInv

\* The closest node that was visited is at the query, or it would have a neighbor
\* that is closer; and the results are the best.
LEMMA BestIsFound ==
  ASSUME FoundInv, ResultsAreBest, EndsInLocalMinimum,
         stored, Uncut, Exhausted, ~use_pq, params.top_k > 0
  PROVE  \E r \in heap : r.distance = 0
<1>1. SearchTypeOK
  BY DEF FoundInv, KnownInv, TypesInv
<1>2. visited \subseteq Nodes /\ visited # {} /\ scored = {Result(n) : n \in visited}
  BY <1>1 DEF FoundInv, ScoredInv, Exhausted, Known, SearchTypeOK
<1>3. \A n \in Nodes : Dist(n) = exact[n] /\ exact[n] \in Nat
  BY <1>1 DEF Dist, SearchTypeOK
<1> DEFINE dist == {Dist(n) : n \in visited}
<1>4. dist \subseteq Nat /\ dist # {}
  BY <1>2, <1>3
<1>5. PICK d \in dist : \A y \in dist : d <= y
  <2> HIDE DEF dist
  <2> QED
    BY <1>4, LeastNumber
<1>6. PICK n \in visited : d = Dist(n)
  BY <1>5
<1>7. \A m \in visited : Dist(n) <= Dist(m)
  BY <1>5, <1>6
<1>8. \A m \in Neighbors(n) : m \in Nodes /\ Dist(n) <= Dist(m)
  BY <1>6, <1>7 DEF EndsInLocalMinimum, Neighbors
<1>9. ~(exact[n] > 0)
  <2> SUFFICES ASSUME exact[n] > 0 PROVE FALSE
    OBVIOUS
  <2>1. PICK m \in Neighbors(n) : exact[m] < exact[n]
    BY <1>2 DEF FoundInv, Downhill
  <2>2. exact[n] <= exact[m] /\ exact[n] \in Nat /\ exact[m] \in Nat
    BY <1>2, <1>3, <1>8
  <2> QED
    BY <2>1, <2>2
<1>10. exact[n] = 0 /\ Result(n) \in scored /\ Result(n).distance = 0
  BY <1>2, <1>3, <1>9 DEF Result
<1>11. CASE Result(n) \in heap
  BY <1>10, <1>11
<1>12. CASE Result(n) \notin heap
  <2>1. heap \subseteq scored /\ IsFiniteSet(scored)
    BY DEF ResultsAreBest, IsBest, FoundInv, ScoredInv
  <2>2. heap # {}
    <3>1. Cardinality(scored) \in Nat /\ Cardinality(scored) # 0
      BY <1>10, <2>1, FS_CardinalityType, FS_EmptySet
    <3>2. Cardinality(heap) # 0
      BY <3>1 DEF ResultsAreBest, IsBest
    <3> QED
      BY <3>2, FS_EmptySet
  <2>3. PICK r \in heap : TRUE
    BY <2>2
  <2>4. r.distance <= 0
    BY <1>10, <1>12 DEF ResultsAreBest, IsBest
  <2>5. r.distance \in Nat
    BY <1>2, <1>3, <2>1 DEF Result
  <2> QED
    BY <2>4, <2>5
<1> QED
  BY <1>11, <1>12

\* In a graph that was not cut a search for a stored vector finds it, whatever the
\* random graph, the medoid, the ties, the beam and the prefetches were, although it
\* starts at node 0 (main.cpp:208, vamana_builder.cpp:97-102, 165-193).
THEOREM StoredAlwaysFound == Spec => []StoredVectorFound
<1>1. FoundInv /\ ResultsAreBest /\ EndsInLocalMinimum => StoredVectorFound
  BY BestIsFound DEF StoredVectorFound
<1>2. Spec => []FoundInv
  BY InitFound, StepFound, PTL DEF Spec
<1> QED
  BY <1>1, <1>2, ResultsAlwaysBest, SearchEndsInLocalMinimum, PTL
=============================================================================
