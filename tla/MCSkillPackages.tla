-------------------------- MODULE MCSkillPackages --------------------------
(* Three operations on one package name for TLC.                            *)
EXTENDS SkillPackages
=============================================================================
