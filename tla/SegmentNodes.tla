---------------------------- MODULE SegmentNodes ----------------------------
(***************************************************************************)
(* The nodes of one segment, as its builder and its searches number them.  *)
(***************************************************************************)
EXTENDS Integers

CONSTANT Count      \* vectors of the segment, SegmentReader::count()

ASSUME CountAssumption == Count \in Nat \ {0}

Nodes == 0..Count - 1
=============================================================================
