---------------------- MODULE MCScheduledTaskManager ----------------------
(* Instances of ScheduledTaskManager for TLC. *)
EXTENDS ScheduledTaskManager

CONSTANT r1

OneTask == {r1}
===========================================================================
