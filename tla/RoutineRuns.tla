----------------------------- MODULE RoutineRuns -----------------------------
(***************************************************************************)
(* What the routines promise the reader of their histories, whatever the   *)
(* bridge, the renderer, the timers and the user do: the runs of a task    *)
(* are numbered, one is under way at a time, a run is shown as unfinished  *)
(* at most once and only after it was launched, and it never comes back.   *)
(***************************************************************************)
EXTENDS Naturals

CONSTANT Tasks

VARIABLES
    number,     \* the newest run of a task
    launching,  \* it has been launched and is not shown yet
    open        \* the unfinished rows shown of a task

vars == <<number, launching, open>>

Statuses == {"running", "waiting_for_approval"}
Row(t, s) == [run |-> number[t], status |-> s]

Init ==
    /\ number = [t \in Tasks |-> 0]
    /\ launching = [t \in Tasks |-> FALSE]
    /\ open = [t \in Tasks |-> {}]

Launch(t) ==
    /\ ~launching[t] /\ open[t] = {}
    /\ number'[t] = number[t] + 1 /\ launching'[t] /\ open'[t] = {}

Begin(t) ==
    /\ launching[t] /\ open[t] = {}
    /\ ~launching'[t] /\ open'[t] = {Row(t, "running")} /\ number'[t] = number[t]

Turn(t) ==
    /\ ~launching[t] /\ \E s \in Statuses : open[t] = {Row(t, s)}
    /\ ~launching'[t] /\ \E s \in Statuses : open'[t] = {Row(t, s)}
    /\ number'[t] = number[t]

End(t) ==
    ~launching'[t] /\ open'[t] = {} /\ number'[t] = number[t]

Rest(t) ==
    number'[t] = number[t] /\ launching'[t] = launching[t] /\ open'[t] = open[t]

\* A tick and a restart move several tasks at once.
Next == \A t \in Tasks : Launch(t) \/ Begin(t) \/ Turn(t) \/ End(t) \/ Rest(t)

Spec == Init /\ [][Next]_vars
==============================================================================
