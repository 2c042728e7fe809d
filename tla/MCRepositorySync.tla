------------------------- MODULE MCRepositorySync -------------------------
(* Instances of RepositorySync for TLC: one or two workers.                *)
EXTENDS RepositorySync

CONSTANTS s1, s2
=============================================================================
