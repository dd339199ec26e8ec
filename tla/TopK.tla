-------------------------------- MODULE TopK --------------------------------
(***************************************************************************)
(* TopK (core/topk.h): the k results with the smallest distances among     *)
(* those added, kept in a heap whose top is the worst of them.  A result   *)
(* is a record with fields id and distance; the results of one search have *)
(* different ids, so the heap is a set.                                    *)
(***************************************************************************)
EXTENDS Integers, FiniteSets

\* heap_.top(): any of the results with the greatest distance.
Worst(heap) == {w \in heap : \A r \in heap : r.distance <= w.distance}

\* Mutant: a full heap takes any result.
AddedUncompared(heap, k, r) ==
  IF k = 0 THEN {heap}
  ELSE IF Cardinality(heap) < k THEN {heap \cup {r}}
  ELSE {(heap \ {w}) \cup {r} : w \in Worst(heap)}

\* The heaps that Add(r) can leave behind.
Added(heap, k, r) ==
  IF k = 0 THEN {heap}
  ELSE IF Cardinality(heap) < k THEN {heap \cup {r}}
  ELSE {IF r.distance < w.distance THEN (heap \ {w}) \cup {r} ELSE heap :
          w \in Worst(heap)}

\* What a heap is meant to be: k of the results offered, or all of them if
\* there are fewer, none of which is worse than one left out.
IsBest(heap, k, offered) ==
  /\ heap \subseteq offered
  /\ Cardinality(heap) = IF Cardinality(offered) < k THEN Cardinality(offered) ELSE k
  /\ \A r \in heap, s \in offered \ heap : r.distance <= s.distance
=============================================================================
