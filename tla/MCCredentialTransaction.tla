------------------------ MODULE MCCredentialTransaction ------------------------
(* Two processes of one user, two services of which one is exported.        *)
EXTENDS CredentialTransaction, TLC

Symm == Permutations(Procs) \cup Permutations(Keys)
=============================================================================
