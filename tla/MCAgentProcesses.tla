------------------------- MODULE MCAgentProcesses -------------------------
(* Instances of AgentProcesses for TLC. *)
EXTENDS AgentProcesses, TLC

CONSTANTS t1, t2, f1, f2, p1, p2

Symmetry == Permutations(Tabs) \cup Permutations(Profiles)
===========================================================================
