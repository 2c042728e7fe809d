-------------------------- MODULE MCResearchSession --------------------------
(* Instances of ResearchSession for TLC: two runners and a canceller.  The  *)
(* runners are interchangeable, in the safety runs.                         *)
EXTENDS ResearchSession, TLC

CONSTANTS r1, r2, c1

AnyRunner == Permutations(Runner)
=============================================================================
