------------------------- MODULE MCResidentAgents -------------------------
(* Instances of ResidentAgents for TLC. *)
EXTENDS ResidentAgents, TLC
===========================================================================
