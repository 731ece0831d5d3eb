--------------------------- MODULE MCTurnLifecycle ---------------------------
EXTENDS TurnLifecycle, TLC
CONSTANTS t1, t2, t3

\* t1 and t2 share a Thread, t3 has its own.
MCThreadOf == (t1 :> "main") @@ (t2 :> "main") @@ (t3 :> "other")
MCSymmetry == Permutations({t1, t2})

=============================================================================
