-------------------------- MODULE MCResearchRequest --------------------------
(* Instances of ResearchRequest for TLC: two workers.                       *)
EXTENDS ResearchRequest

CONSTANTS s1, s2
=============================================================================
