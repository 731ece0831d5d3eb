-------------------------- MODULE MCConversations --------------------------
(* Two callers of different processes and two Threads for TLC.              *)
EXTENDS Conversations, TLC
CONSTANTS t1, t2, c1, c2

MCThreads == {t1, t2}
MCCallers == {c1, c2}
MCSymmetry == Permutations(MCThreads) \cup Permutations(MCCallers)

=============================================================================
