--------------------------- MODULE MCChangeJournal ---------------------------
(* Two paths, two ChangeSets and three contents for TLC.                   *)
EXTENDS ChangeJournal, TLC
CONSTANTS p1, p2, c1, c2, x

MCPaths == {p1, p2}
MCChangeSets == {c1, c2}
MCContents == {Absent, Original, x}
MCSymmetry == Permutations(MCPaths) \cup Permutations(MCChangeSets)

=============================================================================
