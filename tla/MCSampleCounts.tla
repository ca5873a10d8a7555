--------------------------- MODULE MCSampleCounts ---------------------------
(* An atom of a direct predicate, one of another predicate, two threads.   *)
EXTENDS SampleCounts, TLC

CONSTANTS f, p, t1, t2

(* The threads are told apart by nothing but their counts.                 *)
MCSymmetry == Permutations(Threads)
=============================================================================
