------------------------------- MODULE Index -------------------------------
(***************************************************************************)
(* The index of one segment from its construction to a search:             *)
(* BuildKnnGraph (GraphBuild) leaves its neighbor lists in the records of  *)
(* the segment, and GraphSearcher::Search (GraphSearch) walks them from    *)
(* the entry that the segment was written with, which is not the medoid    *)
(* that the builder searched from.                                         *)
(***************************************************************************)
EXTENDS GraphBuild, GraphSearch

CONSTANTS
  Queried,      \* nodes whose vectors are queries
  Distances     \* the distances of queries that are not stored vectors

ASSUME QueriedAssumption == Queried \subseteq Nodes
ASSUME DistancesAssumption == Distances \subseteq [Nodes -> Nat]

VARIABLE stored       \* the query is the vector of one of the nodes

vars == <<buildVars, searchVars, stored>>

Init == BuildInit /\ SearchInit /\ stored = FALSE

\* What a search makes of a record: the padding is the node itself, and is skipped.
Record == [n \in Nodes |-> Listed(n) \ {n}]

\* A query for the built segment, with the vector of a node or, in a
\* segment with or without codes, another one.  The builder's variables
\* have ended with its command; their values are made the same for equal graphs.
Query ==
  /\ phase = "built"
  /\ \/ /\ \E q \in Queried : Call(Record, L2Squared[q], FALSE, L2Squared[q])
        /\ stored' = TRUE
     \/ /\ \E d, a \in Distances, pq \in BOOLEAN : Call(Record, d, pq, a)
        /\ stored' = FALSE
  /\ L2Squared' = [p \in Nodes |-> [q \in Nodes |-> 0]]
  /\ out_neighbors' = [n \in Nodes |-> SetToSeq(Record[n])]
  /\ medoid' = 0 /\ i' = 0
  /\ phase' = "searched"
  /\ UNCHANGED <<cfg, use_vamana>>

Returned == pc \in {"done", "crashed"} /\ UNCHANGED vars

Next ==
  \/ Build /\ UNCHANGED <<searchVars, stored>>
  \/ Query
  \/ (Search \/ Arrive) /\ UNCHANGED <<buildVars, stored>>
  \/ Returned

Spec == Init /\ [][Next]_vars /\ WF_vars(Search /\ UNCHANGED <<buildVars, stored>>)

-----------------------------------------------------------------------------
\* The configuration cuts no list short and prunes an edge only for a node that is
\* closer to where it leads.
Uncut ==
  /\ cfg.degree >= Count - 1
  /\ use_vamana => /\ cfg.alpha <= 10
                   /\ cfg.beam_width >= Count /\ cfg.max_visits >= Count

\* In such a graph a search for a stored vector finds it, whatever the random graph
\* and the medoid were, and however narrow the beam, although it starts at node 0
\* and not at the medoid (main.cpp:208, vamana_builder.cpp:97-102, 165-193).
StoredVectorFound ==
  (stored /\ Uncut /\ Exhausted /\ ~use_pq /\ params.top_k > 0) =>
    \E r \in heap : r.distance = 0
=============================================================================
