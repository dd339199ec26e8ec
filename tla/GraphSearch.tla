---------------------------- MODULE GraphSearch ----------------------------
(***************************************************************************)
(* GraphSearcher::Search (index/graph_search.cpp): best-first search of    *)
(* the proximity graph of one segment, with a bounded frontier, and with   *)
(* prefetching by a PrefetchScheduler that works meanwhile.  The graph     *)
(* comes from GraphBuild, in the module Index.                             *)
(*                                                                         *)
(* One round of the search loop is one step.  The query is fixed, so a     *)
(* distance is a number per node: the exact one, and the one the product   *)
(* quantizer gives (approx).  The frontier is a bag, because a node is     *)
(* pushed by every neighbor that is visited before it; it is sorted when   *)
(* it is read and its order means nothing else.  A neighbor list is a set, *)
(* without the padding of a node with itself, which is always skipped.     *)
(* The scheduler is reduced to the requests it holds and those it has      *)
(* completed; it may refuse any request.  A request whose read has failed  *)
(* is completed like the others, and the search takes its buffer for the   *)
(* node (blank): zeros, or the part that could be read and zeros, or, if   *)
(* the file could not be opened, no buffer at all.  The buffer makes a     *)
(* neighbor a candidate at a wrong distance (misplaced); where in the      *)
(* frontier it stands then is left open.                                   *)
(***************************************************************************)
EXTENDS SegmentNodes, TopK

CONSTANTS
  Params,     \* SearchParams: [top_k, beam_width, max_visits]
  Misread     \* distances of the query from what a failed read leaves in a buffer

entry == 0      \* segment_.entry(): what every caller of WriteSegment passes

ASSUME ParamsAssumption ==
  Params \subseteq [top_k : Nat, beam_width : Nat, max_visits : Nat]
ASSUME MisreadAssumption == Misread \subseteq Nat

VARIABLES
  graph, exact, approx, use_pq, params, prefetching,   \* the input
  pc,
  frontier,             \* node -> how often it is in the frontier
  visited, visited_count,
  heap,                 \* topk
  prefetch_requests,    \* nodes with a request id
  pending, completed,   \* the requests that the scheduler holds
  blank,                \* those completed by a read that failed
  misplaced,            \* candidates that were pushed with a wrong distance
  scored,               \* history: the results offered to topk
  faulty                \* history: a read that the search needed has failed

searchInput == <<graph, exact, approx, use_pq, params, prefetching>>
searchVars == <<searchInput, pc, frontier, visited, visited_count, heap, prefetch_requests,
                pending, completed, blank, misplaced, scored, faulty>>

SearchInit ==
  /\ graph = [n \in Nodes |-> {}]
  /\ exact = [n \in Nodes |-> 0] /\ approx = exact
  /\ params = [top_k |-> 0, beam_width |-> 0, max_visits |-> 0]
  /\ use_pq = FALSE /\ prefetching = FALSE
  /\ pc = "idle"
  /\ frontier = [n \in Nodes |-> 0]
  /\ visited = {} /\ visited_count = 0
  /\ heap = {} /\ scored = {}
  /\ prefetch_requests = {} /\ pending = {} /\ completed = {}
  /\ blank = {} /\ misplaced = {}
  /\ faulty = FALSE

\* Search is called, for a query at the distances d from the vectors of a segment
\* with the graph g, and at the distances a from their codes if it has them (pq).
Call(g, d, pq, a) ==
  /\ pc = "idle" /\ pc' = "start"
  /\ graph' = g
  /\ exact' = d
  /\ use_pq' = pq /\ approx' = IF pq THEN a ELSE d
  /\ params' \in Params
  /\ prefetching' \in BOOLEAN
  /\ UNCHANGED <<frontier, visited, visited_count, heap, prefetch_requests, pending,
                 completed, blank, misplaced, scored, faulty>>

-----------------------------------------------------------------------------
\* The distance by which the frontier is ordered.
Dist(n) == IF use_pq THEN approx[n] ELSE exact[n]

Result(n) == [id |-> n, distance |-> exact[n]]

\* The entry is read and pushed.
Start ==
  /\ pc = "start"
  /\ frontier' = [frontier EXCEPT ![entry] = 1]
  /\ pc' = "loop"
  /\ UNCHANGED <<searchInput, visited, visited_count, heap, prefetch_requests, pending,
                 completed, blank, misplaced, scored, faulty>>

\* The entry cannot be read: no results.
StartFails ==
  /\ pc = "start"
  /\ pc' = "done"
  /\ faulty' = TRUE
  /\ UNCHANGED <<searchInput, frontier, visited, visited_count, heap,
                 prefetch_requests, pending, completed, blank, misplaced, scored>>

InFrontier == {n \in Nodes : frontier[n] > 0}
GoesOn == InFrontier # {} /\ visited_count < params.max_visits

\* The candidates that sorting may bring to the front.
NextCandidates ==
  {n \in InFrontier : \A m \in InFrontier : Dist(n) <= Dist(m) \/ {n, m} \cap misplaced # {}}

\* Mutant: the front candidate is not erased.
NotErased(f, n) == f

Erased(f, n) == [m \in Nodes |-> IF m = n THEN f[m] - 1 ELSE f[m]]

\* Mutant: every candidate counts as new.
AlwaysFresh(n) == TRUE

Fresh(n) == n \notin visited

\* A candidate that was visited since it was pushed.
SkipVisited ==
  /\ pc = "loop" /\ GoesOn
  /\ \E n \in NextCandidates : ~Fresh(n) /\ frontier' = Erased(frontier, n)
  /\ UNCHANGED <<searchInput, pc, visited, visited_count, heap, prefetch_requests,
                 pending, completed, blank, misplaced, scored, faulty>>

\* The node was not prefetched and cannot be read: `continue`, but it stays
\* visited and counted.
VisitFails ==
  /\ pc = "loop" /\ GoesOn
  /\ \E n \in NextCandidates :
       /\ Fresh(n) /\ n \notin completed
       /\ frontier' = Erased(frontier, n)
       /\ visited' = visited \cup {n}
  /\ visited_count' = visited_count + 1
  /\ faulty' = TRUE
  /\ UNCHANGED <<searchInput, pc, heap, prefetch_requests, pending, completed, blank,
                 misplaced, scored>>

\* The buffer of the candidate, or of a neighbor, is empty, and ParseNode copies
\* from it: nothing is defined from here on, and what becomes of it is the end.
ParseNothing ==
  /\ pc = "loop" /\ GoesOn
  /\ \E n \in NextCandidates :
       /\ Fresh(n)
       /\ n \in blank \/ (~use_pq /\ (graph[n] \cap blank) \ visited # {})
  /\ pc' = "crashed"
  /\ UNCHANGED <<searchInput, frontier, visited, visited_count, heap, prefetch_requests,
                 pending, completed, blank, misplaced, scored, faulty>>

\* The neighbors that the search looks at: a number beyond the segment is skipped.
Neighbors(n) == graph[n] \cap Nodes

\* Candidates in the frontier f.
Size(f) == Cardinality(UNION {{n} \X (1..f[n]) : n \in Nodes})

\* nth_element and resize: the frontiers of beam_width candidates of f none of which
\* is, by the distance d, farther than one that was cut off, as far as their distances
\* are known.
Cut(f, d) ==
  IF Size(f) <= params.beam_width THEN {f}
  ELSE {g \in [Nodes -> 0..params.beam_width] :
          /\ \A n \in Nodes : g[n] <= f[n]
          /\ Size(g) = params.beam_width
          /\ \A n, m \in Nodes : (g[n] > 0 /\ g[m] < f[m]) =>
               d[n] <= d[m] \/ {n, m} \cap misplaced' # {}}

\* Mutant: everything beyond the beam goes, also when there is no beam.
TrimmedAlways(f) == Cut(f, [n \in Nodes |-> Dist(n)])

\* Mutant: nth_element with the comparison reversed.
TrimmedBest(f) ==
  IF params.beam_width = 0 THEN {f} ELSE Cut(f, [n \in Nodes |-> 0 - Dist(n)])

\* A frontier is cut to the beam, if there is one.
Trimmed(f) == IF params.beam_width = 0 THEN {f} ELSE Cut(f, [n \in Nodes |-> Dist(n)])

\* Some of the frontier that has not been requested, at most a beam of it; a copy of a
\* visited node is requested like any other.
SubmitPrefetches ==
  IF ~prefetching THEN UNCHANGED <<prefetch_requests, pending>>
  ELSE \E R \in SUBSET {n \in Nodes : frontier'[n] > 0 /\ n \notin prefetch_requests} :
         /\ Cardinality(R) <= params.beam_width
         /\ prefetch_requests' = prefetch_requests \cup R
         /\ pending' = pending \cup R

\* The node n is scored with the distance d, and those of links that were not visited
\* are pushed with their distances: those of the codes, or exact ones, for which each
\* neighbor is taken from the scheduler or read.  One that cannot be read is left out.
Expand(n, d, links) ==
  LET seen    == visited \cup {n}
      next    == links \ seen
      to_read == IF use_pq THEN {} ELSE next \ completed
      taken   == {n} \cup (IF use_pq THEN {} ELSE next \cap completed)
  IN /\ visited' = seen
     /\ scored' = scored \cup {[id |-> n, distance |-> d]}
     /\ heap' \in Added(heap, params.top_k, [id |-> n, distance |-> d])
     /\ completed' = completed \ taken
     /\ blank' = blank \ taken
     /\ misplaced' = misplaced \cup ((taken \cap blank) \ {n})
     /\ \E unread \in SUBSET to_read :
          /\ faulty' = (faulty \/ unread # {} \/ taken \cap blank # {})
          /\ frontier' \in Trimmed([m \in Nodes |->
                             Erased(frontier, n)[m]
                             + (IF m \in next \ unread THEN 1 ELSE 0)])

\* A node is visited, as it is in the segment or as the buffer of a failed prefetch
\* has it: at any distance, with the part of its neighbors that was read and 0.
Visit ==
  /\ pc = "loop" /\ GoesOn
  /\ \E n \in NextCandidates :
       /\ Fresh(n)
       /\ IF n \in blank
          THEN \E d \in Misread, part \in SUBSET Neighbors(n) : Expand(n, d, part \cup {0})
          ELSE Expand(n, exact[n], Neighbors(n))
  /\ visited_count' = visited_count + 1
  /\ SubmitPrefetches
  /\ UNCHANGED <<searchInput, pc>>

Finish ==
  /\ pc = "loop" /\ ~GoesOn
  /\ pc' = "done"
  /\ UNCHANGED <<searchInput, frontier, visited, visited_count, heap,
                 prefetch_requests, pending, completed, blank, misplaced, scored, faulty>>

\* The scheduler's worker has read a node, or has failed to.
Arrive ==
  /\ \E n \in pending :
       /\ pending' = pending \ {n}
       /\ completed' = completed \cup {n}
       /\ blank' \in {blank, blank \cup {n}}
  /\ UNCHANGED <<searchInput, pc, frontier, visited, visited_count, heap,
                 prefetch_requests, misplaced, scored, faulty>>

Search ==
  \/ Start \/ StartFails \/ SkipVisited \/ VisitFails \/ ParseNothing \/ Visit
  \/ Finish

-----------------------------------------------------------------------------
\* Every variable stays within its type.
SearchTypeOK ==
  /\ exact \in [Nodes -> Nat] /\ approx \in [Nodes -> Nat]
  /\ params \in [top_k : Nat, beam_width : Nat, max_visits : Nat]
  /\ use_pq \in BOOLEAN /\ prefetching \in BOOLEAN /\ faulty \in BOOLEAN
  /\ pc \in {"idle", "start", "loop", "done", "crashed"}
  /\ frontier \in [Nodes -> Nat]
  /\ visited \subseteq Nodes /\ visited_count \in Nat
  /\ heap \subseteq scored /\ scored \subseteq [id : visited, distance : Nat]
  /\ prefetch_requests \subseteq Nodes
  /\ pending \subseteq Nodes /\ completed \subseteq Nodes /\ blank \subseteq Nodes
  /\ misplaced \subseteq Nodes /\ (misplaced # {} => faulty)

\* The results are the best of all that was scored, as it was read, whatever the order
\* in which it was met (topk.h:14-27, graph_search.cpp:93).
ResultsAreBest == IsBest(heap, params.top_k, scored)

\* No node is read and scored twice although the frontier holds it several
\* times, and the search keeps to its budget (graph_search.cpp:54, 64-68).
EachVisitCounted ==
  visited_count = Cardinality(visited) /\ visited_count <= params.max_visits

Exhausted == pc = "done" /\ ~faulty /\ InFrontier = {}

\* A search that ends because its frontier is empty ends in a local minimum,
\* however narrow the beam: no neighbor of the closest node it visited is
\* closer still.  Copies of visited nodes in the frontier must not push a closer
\* node out of the beam (graph_search.cpp:135-142).
EndsInLocalMinimum ==
  Exhausted =>
    \A n \in visited :
      (\A m \in visited : Dist(n) <= Dist(m))
        => \A m \in Neighbors(n) : Dist(n) <= Dist(m)

\* Without a beam and within its budget the search visits all that can be
\* reached, so its results are exact (graph_search.cpp:54, 135).
UnboundedBeamReachesAll ==
  Exhausted /\ params.beam_width = 0 =>
    entry \in visited /\ \A n \in visited : Neighbors(n) \subseteq visited

\* The search ends, whatever the graph, the distances and neighbors that failed reads
\* leave, and the reads that are given up; the end is that of the program only if a
\* prefetch has left no buffer (graph_search.cpp:54-68, 76-90).
Terminates == pc = "start" ~> (pc = "done" \/ (pc = "crashed" /\ blank # {}))
=============================================================================
