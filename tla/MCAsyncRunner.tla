---------------------------- MODULE MCAsyncRunner ----------------------------
(***************************************************************************)
(* A thread pool and a strand over the same threads.                       *)
(***************************************************************************)
EXTENDS AsyncRunner, TLC

CONSTANTS r1, r2, r3, t1, t2, pool, strand

MCRunners == {r1, r2, r3}
MCThreads == {t1, t2}
MCSchedulers == {pool, strand}
MCThreadsOf == [s \in MCSchedulers |-> MCThreads]

Symmetry == Permutations(MCThreads) \cup Permutations({r1, r3})

=============================================================================
