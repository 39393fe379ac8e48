--------------------- MODULE MCSupervisorOrchestrator ---------------------
(* Instances of SupervisorOrchestrator for TLC. *)
EXTENDS SupervisorOrchestrator, TLC

CONSTANTS t1, t2, k1

OneTicket == {t1}
TwoTickets == {t1, t2}
OneTick == {k1}

AllWorktree == [t \in Tickets |-> "worktree"]
AllDefault == [t \in Tickets |-> "default"]

NoLimits == [c \in {} |-> 0]

TicketSymmetry == Permutations(Tickets)
===========================================================================
