---------------------------- MODULE SegmentFile ----------------------------
(***************************************************************************)
(* The layout of a segment file (storage/segment.cpp): the header, a       *)
(* record per vector, and if there is a codebook the PQ section, which is  *)
(* a header of its own, the centroids and the codes.                       *)
(*                                                                         *)
(* A file is the sequence of its blocks; a block is what one WriteAt       *)
(* writes, or one ReadAt reads, except that records are written in batches *)
(* of kBatchNodes.  It is known by the build that wrote it, its kind and   *)
(* its number.  Blocks have one size: where blocks of two builds overlap   *)
(* in part, the model has the later one there.                             *)
(***************************************************************************)
EXTENDS Naturals, Sequences

Block(build, kind, index) == [build |-> build, kind |-> kind, index |-> index]

\* A block of which a part was overwritten, and a buffer that was not filled.
Torn == Block(0, "torn", 0)
Unread == Block(0, "unread", 0)

\* What WriteSegment writes for a build of count vectors, in its order.
Layout(build, count, has_pq) ==
  <<Block(build, "header", 0)>>
  \o [i \in 1..count |-> Block(build, "record", i)]
  \o IF has_pq THEN <<Block(build, "pq_header", 0), Block(build, "centroids", 0),
                      Block(build, "codes", 0)>>
     ELSE <<>>

\* Where a reader looks for a block, after the header told it the count.
Offset(kind, index, count) ==
  CASE kind = "header"    -> 1
    [] kind = "record"    -> 1 + index
    [] kind = "pq_header" -> count + 2
    [] kind = "centroids" -> count + 3
    [] kind = "codes"     -> count + 4

\* The file after the block at offset was written: files grow at their end.
WithBlock(file, offset, block) ==
  IF offset <= Len(file) THEN [file EXCEPT ![offset] = block] ELSE Append(file, block)

\* What ReadSection reads after each block, and "nodes" when the segment is open.
NextKind(kind, has_pq) ==
  CASE kind = "header"    -> IF has_pq THEN "pq_header" ELSE "nodes"
    [] kind = "pq_header" -> "centroids"
    [] kind = "centroids" -> "codes"
    [] kind = "codes"     -> "nodes"
=============================================================================
