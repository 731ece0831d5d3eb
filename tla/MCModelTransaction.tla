-------------------------- MODULE MCModelTransaction --------------------------
(* Two processes change the models of two Threads.                          *)
EXTENDS ModelTransaction, TLC
CONSTANTS p1, p2, t1, t2, m1, m2

MCProcs == {p1, p2}
MCThreads == {t1, t2}
MCModels == {m1, m2}
Symmetry == Permutations(MCProcs) \cup Permutations(MCThreads) \cup Permutations(MCModels)

=============================================================================
