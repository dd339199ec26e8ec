---------------------------- MODULE MCCachePool ----------------------------
\* CachePool for TLC: threads, and the blocks of one file, are interchangeable.
EXTENDS CachePool, TLC

Symmetry == Permutations(Threads) \cup Permutations(Offsets)
=============================================================================
