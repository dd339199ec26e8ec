-------------------------- MODULE MCStressWriters --------------------------
\* StressWriters in the directory of an earlier run: a segment that --manifest lists
\* too, elsewhere, one of the directory that it does not list, named like the second
\* of this run, and a file named like the first that nobody lists.
EXTENDS StressWriters

Line(path, offset, count) ==
  [seg_path |-> path, id_offset |-> offset, count |-> count, earlier |-> TRUE]

MCEarlierLevel0 == {Line(1, 3, 2)}
MCEarlierLines == {Line(8, 0, 2)} \cup MCEarlierLevel0
MCEarlierFiles == {0, 1, 8}
=============================================================================
