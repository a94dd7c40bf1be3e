--------------------------- MODULE MCParallelSweep ---------------------------
(***************************************************************************)
(* Small calls: at most three threads, a thread is worth two slots.        *)
(***************************************************************************)
EXTENDS ParallelSweepProps

\* Every index from 0 up, in order: what executeSweeps handles as documented.
MCRequests == {[k \in 1..n |-> k - 1] : n \in {0, 1, 3, 4, 5, 7}}

\* The second half of a sweep of four, and a sweep backwards.
DocRequests == {<<2, 3>>, <<3, 2, 1, 0>>}

\* Two parameters, of 6, 8 and 1 combinations; without combinations because a
\* count is 0, or because 8 * 2 wraps.
MCCounts == {<<2, 3>>, <<2, 4>>, <<1, 1>>, <<0, 3>>, <<8, 2>>}
=============================================================================
