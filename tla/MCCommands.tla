---------------------------- MODULE MCCommands ----------------------------
\* Commands for TLC.
EXTENDS Commands, TLC

\* Nothing tells one path from another.
Symmetry == Permutations(Paths)
=============================================================================
