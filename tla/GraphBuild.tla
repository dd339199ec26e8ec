----------------------------- MODULE GraphBuild -----------------------------
(***************************************************************************)
(* BuildKnnGraph (index/graph_builder.cpp, vamana_builder.cpp): the graph  *)
(* of one segment, by brute force or by the Vamana algorithm.              *)
(*                                                                         *)
(* The vectors are given by their distances to each other.  One node of    *)
(* the outer loops is one step.  The random graph and the sampled medoid   *)
(* that Vamana starts from may be any.  A neighbor list is a sequence, so  *)
(* that an entry can be in it twice; its order means nothing, neither to a *)
(* search nor to the builder, which sorts what it prunes.                  *)
(***************************************************************************)
EXTENDS SegmentNodes, Sequences, FiniteSets, SequencesExt

CONSTANTS
  Metrics,    \* the distances: node -> node -> number, symmetric
  Configs     \* GraphBuildConfig: [degree, beam_width, alpha (in tenths), max_visits]

ASSUME MetricsAssumption ==
  /\ Metrics \subseteq [Nodes -> [Nodes -> Nat]]
  /\ \A m \in Metrics, p, q \in Nodes : m[p][q] = m[q][p] /\ m[p][p] = 0
ASSUME ConfigsAssumption ==
  Configs \subseteq [degree : Nat \ {0}, beam_width : Nat, alpha : Nat, max_visits : Nat]

VARIABLES
  L2Squared, cfg, use_vamana,   \* the input
  out_neighbors,                \* node -> its neighbor list
  medoid,
  phase,                        \* "start", "improve", "fill", "brute" or "built"
  i                             \* the next node of the loop

buildInput == <<L2Squared, cfg, use_vamana>>
buildVars == <<buildInput, out_neighbors, medoid, phase, i>>

BuildInit ==
  /\ L2Squared \in Metrics /\ cfg \in Configs /\ use_vamana \in BOOLEAN
  /\ out_neighbors = [n \in Nodes |-> <<>>]
  /\ medoid = 0
  /\ phase = IF use_vamana THEN "start" ELSE "brute"
  /\ i = 0

-----------------------------------------------------------------------------
Lesser(a, b) == IF a < b THEN a ELSE b

Listed(n) == ToSet(out_neighbors[n])

\* push_back(n) until the list has the full degree: the padding.
Filled(list, n) == list \o [k \in 1..cfg.degree - Len(list) |-> n]

\* Pairs of distance and number in their order, for the distances from p.
Before(p, u, v) ==
  L2Squared[p][u] < L2Squared[p][v] \/ (L2Squared[p][u] = L2Squared[p][v] /\ u < v)

-----------------------------------------------------------------------------
(***************************************************************************)
(* BuildKnnGraphBruteForce.                                                *)
(***************************************************************************)

\* What nth_element may leave of the other nodes: the nearest ones.
Nearest(n) ==
  {S \in SUBSET (Nodes \ {n}) :
     /\ Cardinality(S) = Lesser(cfg.degree, Count - 1)
     /\ \A u \in S, v \in Nodes \ (S \cup {n}) : L2Squared[n][u] <= L2Squared[n][v]}

BruteForce ==
  /\ phase = "brute"
  /\ \E S \in Nearest(i) :
       out_neighbors' = [out_neighbors EXCEPT ![i] = Filled(SetToSeq(S), i)]
  /\ i' = i + 1
  /\ phase' = IF i' = Count THEN "built" ELSE "brute"
  /\ UNCHANGED <<buildInput, medoid>>

-----------------------------------------------------------------------------
(***************************************************************************)
(* BuildVamanaGraph.                                                       *)
(***************************************************************************)

\* The random graph, and the medoid found by sampling.
RandomGraph ==
  /\ phase = "start"
  /\ \E g \in [Nodes -> {S \in SUBSET Nodes :
                           Cardinality(S) = Lesser(cfg.degree, Count - 1)}] :
       /\ \A n \in Nodes : n \notin g[n]
       /\ out_neighbors' = [n \in Nodes |-> Filled(SetToSeq(g[n]), n)]
  /\ medoid' \in Nodes
  /\ phase' = "improve"
  /\ UNCHANGED <<buildInput, i>>

\* GreedySearch(query): one visit takes any of the closest nodes off the heap
\* and pushes its neighbors that were never in it.
Visits(query, s) ==
  IF s.frontier = {} THEN {s}
  ELSE {[expanded |-> s.expanded \cup {n},
         frontier |-> (s.frontier \cup Listed(n)) \ (s.expanded \cup {n})] :
          n \in {c \in s.frontier :
                   \A d \in s.frontier : L2Squared[query][c] <= L2Squared[query][d]}}

\* What GreedySearch may have expanded when it ends.
Expanded(query) ==
  LET after[n \in 0..cfg.max_visits] ==
        IF n = 0 THEN {[expanded |-> {}, frontier |-> {medoid}]}
        ELSE UNION {Visits(query, s) : s \in after[n - 1]}
  IN {s.expanded : s \in after[cfg.max_visits]}

\* The candidates it returns: the first beam_width of them.
GreedySearch(query) ==
  UNION {{S \in SUBSET expanded :
            /\ Cardinality(S) = Lesser(cfg.beam_width, Cardinality(expanded))
            /\ \A u \in S, v \in expanded \ S : Before(query, u, v)} :
           expanded \in Expanded(query)}

\* Mutant: the candidates come as they are.
SoonerAsListed(p, list, j, k) == j < k

\* The order in which RobustPrune looks at the entries of a list.
Sooner(p, list, j, k) == Before(p, list[j], list[k]) \/ (list[j] = list[k] /\ j < k)

\* Mutant: a tie prunes.
CloseTie(p, v, u) == cfg.alpha * L2Squared[p][v] >= 10 * L2Squared[v][u]

\* u is so close to v that v is not needed: alpha * dist_v > duv.
Close(p, v, u) == cfg.alpha * L2Squared[p][v] > 10 * L2Squared[v][u]

\* Entry k is kept, for the entries K that are kept before it: unless the list is
\* full, or one of them is close to it.
Kept(p, list, K, k) ==
  LET before == {j \in K : Sooner(p, list, j, k)}
  IN /\ list[k] # p
     /\ Cardinality(before) < cfg.degree
     /\ \A j \in before : ~Close(p, list[k], list[j])

Keeps(p, list, K) == \A k \in DOMAIN list : k \in K <=> Kept(p, list, K, k)

RobustPrune(p, list) ==
  LET kept == SetToSeq(CHOOSE K \in SUBSET DOMAIN list : Keeps(p, list, K))
  IN [k \in DOMAIN kept |-> list[kept[k]]]

\* Mutant: an edge that is there is added again.
WithEdgeTwice(u, n) ==
  LET list == Append(out_neighbors[u], n)
  IN IF Len(list) <= cfg.degree THEN list ELSE RobustPrune(u, list)

\* Mutant: the list may grow by one beyond the degree.
WithEdgeUnpruned(u, n) ==
  LET list == Append(out_neighbors[u], n)
  IN IF n \in Listed(u) THEN out_neighbors[u]
     ELSE IF Len(list) <= cfg.degree + 1 THEN list ELSE RobustPrune(u, list)

\* The list of u with an edge to n; a list that overflows is pruned.
WithEdge(u, n) ==
  LET list == Append(out_neighbors[u], n)
  IN IF n \in Listed(u) THEN out_neighbors[u]
     ELSE IF Len(list) <= cfg.degree THEN list ELSE RobustPrune(u, list)

\* One node is improved: searched for, pruned, and linked back.
Improve ==
  /\ phase = "improve"
  /\ \E candidates \in GreedySearch(i) :
       LET pruned == RobustPrune(i, SetToSeq(candidates))
       IN out_neighbors' = [n \in Nodes |-> IF n = i THEN pruned
                                           ELSE IF n \in ToSet(pruned) THEN WithEdge(n, i)
                                           ELSE out_neighbors[n]]
  /\ i' = i + 1
  /\ phase' = IF i' = Count THEN "fill" ELSE "improve"
  /\ UNCHANGED <<buildInput, medoid>>

\* Every list gets the full degree.
Fill ==
  /\ phase = "fill"
  /\ out_neighbors' = [n \in Nodes |->
       LET list == out_neighbors[n]
       IN SubSeq(Filled(list, n), 1, cfg.degree)]
  /\ phase' = "built"
  /\ UNCHANGED <<buildInput, medoid, i>>

Build == BruteForce \/ RandomGraph \/ Improve \/ Fill

BuildSpec == BuildInit /\ [][Build]_buildVars

-----------------------------------------------------------------------------
\* Every variable stays within its type.
BuildTypeOK ==
  /\ L2Squared \in Metrics /\ cfg \in Configs /\ use_vamana \in BOOLEAN
  /\ out_neighbors \in [Nodes -> Seq(Nodes)]
  /\ medoid \in Nodes /\ i \in 0..Count
  /\ phase \in {"start", "improve", "fill", "brute", "built"}

\* A list never has more entries than a record of the segment has room for, and
\* a built one has exactly as many, or WriteSegment refuses the segment
\* (vamana_builder.cpp:187, 195-204, segment.cpp:272).
ListsFit ==
  \A n \in Nodes :
    /\ Len(out_neighbors[n]) <= cfg.degree
    /\ phase = "built" => Len(out_neighbors[n]) = cfg.degree

\* No list has an entry twice, the padding apart: back edges, prunes and the
\* padding never spend two places on one neighbor (vamana_builder.cpp:178-192).
NoNeighborTwice ==
  \A n \in Nodes, j, k \in 1..cfg.degree + 1 :
    (j < k /\ k <= Len(out_neighbors[n]) /\ out_neighbors[n][j] = out_neighbors[n][k])
      => out_neighbors[n][j] = n

\* Improving a node takes no other node's closest neighbor away, although it
\* adds edges to full lists (vamana_builder.cpp:83-108, 187-190).
ClosestNeighborKept ==
  [][\A n \in Nodes \ {i} : \A u \in Listed(n) \ {n} :
       \E v \in Listed(n)' \ {n} : L2Squared[n][v] <= L2Squared[n][u]]_buildVars
=============================================================================
