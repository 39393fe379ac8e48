------------------------ MODULE ScheduledTaskManager ------------------------
(***************************************************************************)
(* Routines: the ScheduledTaskManager of the main process, its             *)
(* RoutineBridge, and the actor registry of the renderer that serves it.   *)
(*                                                                         *)
(* A fire of a task is an async call: it asks the renderer to ensure a     *)
(* column for a fresh session, then to start the run, and main learns how  *)
(* the run ended from forwarded events that name the task alone.  One fire *)
(* of a task is in flight at most (`launching`); fire[t] says at which     *)
(* await.  A run of a task and the session made for it share one id.       *)
(*                                                                         *)
(* Time is abstract: TimePasses makes a task due, an interval tick may     *)
(* come at any moment, and whether the missed time is still within the     *)
(* catch-up window is a choice.                                            *)
(***************************************************************************)
EXTENDS Integers, Sequences, FiniteSets

CONSTANTS
    Tasks,          \* scheduled task ids
    HistoryLimit,   \* rows kept of a task's history
    MaxRuns,        \* bound: runs ever launched of a task
    MaxUserRuns     \* bound: runs of the user live at once in a task's columns

ASSUME RoutineAssumption ==
    /\ IsFiniteSet(Tasks)
    /\ HistoryLimit \in Nat \ {0} /\ MaxRuns \in Nat /\ MaxUserRuns \in Nat

VARIABLES
    task,        \* the persisted tasks
    runs,        \* runs launched so far, which numbers them
    fire,        \* the fireTask in flight: the await it is at, and its run
    active,      \* activeRuns: the run events of the task are routed to, 0 if none
    waits,       \* the fires the tick in progress waits for; ticking when not empty
    ready,       \* rendererReady
    dispatches,  \* bridge requests on their way to the renderer or served there
    tabs,        \* the sessions that have a Code tab bound to the task
    actor,       \* the renderer's actor of the task: its column's session, 0 if none
    live         \* the agent runs in the task's columns; run 0 is the user's

vars == <<task, runs, fire, active, waits, ready, dispatches, tabs, actor, live>>
renderer == <<ready, tabs, actor, live>>

RunIds == 1..MaxRuns
Idle == [at |-> "off", run |-> 0]
NewTask == [exists |-> TRUE, enabled |-> TRUE, due |-> FALSE, session |-> 0, history |-> <<>>]
Gone == [NewTask EXCEPT !.exists = FALSE]
Unfinished == {"running", "waiting_for_approval"}

---------------------------------------------------------------------------
(* Rows of a task's history, newest first *)

PrependUncut(h, r, s) == <<[run |-> r, status |-> s]>> \o h  \* a slip: no limit

\* prependHistory
Prepend(h, r, s) ==
    LET longer == <<[run |-> r, status |-> s]>> \o h
    IN  SubSeq(longer, 1, IF Len(longer) < HistoryLimit THEN Len(longer) ELSE HistoryLimit)

Recorded(h, r) == \E i \in DOMAIN h : h[i].run = r

\* The history with the row of run r, if it is there, in status s.
Marked(h, r, s) == [i \in DOMAIN h |-> IF h[i].run = r THEN [h[i] EXCEPT !.status = s] ELSE h[i]]

---------------------------------------------------------------------------
(* Launching a run *)

HasFire(t) == fire[t].at # "off"  \* a slip: the running session is not looked at

HasActiveRun(t) == fire[t].at # "off" \/ task[t].session # 0

SkippedStillDue(t) == [task[t] EXCEPT !.history = Prepend(@, 0, "skipped")]  \* a slip

\* recordSkipped, of a fire that found an active run.
Skipped(t) == [task[t] EXCEPT !.due = FALSE, !.history = Prepend(@, 0, "skipped")]

\* The patch of fireTask before its first await.
Launched(t) == [task[t] EXCEPT !.due = FALSE, !.session = runs[t] + 1]

Request(t, kind, r) ==
    [task |-> t, kind |-> kind, run |-> r, at |-> IF ready THEN "sent" ELSE "queued"]

\* The fires of the tasks in `fired`, up to the await of ensureColumn; `noted`
\* only get a skipped row.
FireAll(fired, noted) ==
    /\ task' = [t \in Tasks |-> IF t \in fired THEN Launched(t)
                                ELSE IF t \in noted THEN Skipped(t) ELSE task[t]]
    /\ runs' = [t \in Tasks |-> IF t \in fired THEN runs[t] + 1 ELSE runs[t]]
    /\ fire' = [t \in Tasks |->
                  IF t \in fired THEN [at |-> "column", run |-> runs[t] + 1] ELSE fire[t]]
    /\ dispatches' = dispatches \union {Request(t, "column", runs[t] + 1) : t \in fired}
    /\ UNCHANGED <<active, renderer>>

MayLaunch(t) == HasActiveRun(t) \/ runs[t] < MaxRuns
Due == {t \in Tasks : task[t].exists /\ task[t].enabled /\ task[t].due /\ MayLaunch(t)}

RunNow(t) ==
    /\ task[t].exists /\ MayLaunch(t)
    /\ FireAll({u \in {t} : ~HasActiveRun(u)}, {t})
    /\ UNCHANGED waits

\* One pass over the tasks, when no earlier pass is still waiting for its fires
\* (`ticking`); `missed` are the ones whose time is too long past.
Tick ==
    /\ waits = {} /\ Due # {}
    /\ \E missed \in SUBSET Due :
          LET fired == {t \in Due \ missed : ~HasActiveRun(t)}
          IN  FireAll(fired, Due) /\ waits' = fired

---------------------------------------------------------------------------
(* How a fire ends *)

\* fireTask's finally, and the tick that waited for it.
Settle(t) ==
    /\ fire' = [fire EXCEPT ![t] = Idle]
    /\ waits' = waits \ {t}

\* fireTask's catch; for a deleted task it throws before the row is written.
Fails(t) ==
    /\ Settle(t)
    /\ active' = [active EXCEPT ![t] = 0]
    /\ task' = IF task[t].exists
               THEN [task EXCEPT ![t].session = 0,
                                 ![t].history = Prepend(@, fire[t].run, "failed")]
               ELSE task

\* The start was acknowledged: the row is written, unless the task is deleted.
Acknowledged(t) ==
    /\ Settle(t)
    /\ IF task[t].exists
       THEN /\ task' = [task EXCEPT ![t].session = fire[t].run,
                                    ![t].history = Prepend(@, fire[t].run, "running")]
            /\ UNCHANGED active
       ELSE active' = [active EXCEPT ![t] = 0] /\ UNCHANGED task

\* A slip: finishRun without forgetting the active run.
FinishAgain(t, s) ==
    /\ UNCHANGED active
    /\ task' = IF active[t] # 0 /\ task[t].exists
               THEN [task EXCEPT ![t].history = Marked(@, active[t], s)] ELSE task

\* finishRun, for the active run of t.
FinishRun(t, s) ==
    LET r == active[t]
        cleared == Recorded(task[t].history, r) /\ task[t].session = r
    IN  IF r = 0 THEN UNCHANGED <<active, task>>
        ELSE /\ active' = [active EXCEPT ![t] = 0]
             /\ task' = IF task[t].exists
                        THEN [task EXCEPT ![t].session = IF cleared THEN 0 ELSE @,
                                          ![t].history = Marked(@, r, s)]
                        ELSE task

---------------------------------------------------------------------------
(* The bridge and the renderer *)

Awaited(d) == fire[d.task].at = d.kind /\ fire[d.task].run = d.run

\* routine:renderer-ready flushes the queue.
RendererReady ==
    /\ ~ready
    /\ ready' = TRUE
    /\ dispatches' = {[d EXCEPT !.at = IF @ = "queued" THEN "sent" ELSE @] : d \in dispatches}
    /\ UNCHANGED <<task, runs, fire, active, waits, tabs, actor, live>>

\* routine:claim-dispatch: a settled request can no longer be claimed.
Claim(d) ==
    /\ d.at = "sent"
    /\ dispatches' = (dispatches \ {d}) \union
                     (IF Awaited(d) THEN {[d EXCEPT !.at = "served"]} ELSE {})
    /\ UNCHANGED <<task, runs, fire, active, waits, renderer>>

\* The renderer made the tab: main records the active run and asks for the start.
ColumnEnsured(d) ==
    /\ d.at = "served" /\ d.kind = "column"
    /\ tabs' = [tabs EXCEPT ![d.task] = @ \union {d.run}]
    /\ IF Awaited(d)
       THEN /\ active' = [active EXCEPT ![d.task] = d.run]
            /\ fire' = [fire EXCEPT ![d.task].at = "run"]
            /\ dispatches' = (dispatches \ {d}) \union {Request(d.task, "run", d.run)}
       ELSE dispatches' = dispatches \ {d} /\ UNCHANGED <<active, fire>>
    /\ UNCHANGED <<task, runs, waits, ready, actor, live>>

Busy(t, s) == \E l \in live : l.task = t /\ l.session = s

\* The task's actor, once its column is idle, submits the prompt and answers.
RunStarted(d) ==
    /\ d.at = "served" /\ d.kind = "run"
    /\ actor[d.task] # 0 /\ ~Busy(d.task, actor[d.task])
    /\ live' = live \union {[task |-> d.task, run |-> d.run, session |-> actor[d.task]]}
    /\ dispatches' = dispatches \ {d}
    /\ IF Awaited(d) THEN Acknowledged(d.task) ELSE UNCHANGED <<task, fire, active, waits>>
    /\ UNCHANGED <<runs, ready, tabs, actor>>

\* No workspace, no actor within 90 s, a busy column or a refused start.
DispatchFails(d) ==
    /\ d.at = "served"
    /\ dispatches' = dispatches \ {d}
    /\ IF Awaited(d) THEN Fails(d.task) ELSE UNCHANGED <<task, fire, active, waits>>
    /\ UNCHANGED <<runs, renderer>>

\* The request's 120 s timer: a queued request is withdrawn, a served one is not.
BridgeTimesOut(t) ==
    /\ fire[t].at # "off"
    /\ dispatches' = {d \in dispatches : ~(d.at = "queued" /\ Awaited(d) /\ d.task = t)}
    /\ Fails(t)
    /\ UNCHANGED <<runs, renderer>>

\* A column of the task mounts, or its effect runs again: the last one wins.
RegisterActor(t, s) ==
    /\ s \in tabs[t] /\ actor[t] # s
    /\ actor' = [actor EXCEPT ![t] = s]
    /\ UNCHANGED <<task, runs, fire, active, waits, ready, dispatches, tabs, live>>

\* The registered column unmounts; its tab, and the runs in it, may go with it.
Unregister(t) ==
    /\ actor[t] # 0
    /\ actor' = [actor EXCEPT ![t] = 0]
    /\ \/ UNCHANGED <<tabs, live>>
       \/ /\ tabs' = [tabs EXCEPT ![t] = @ \ {actor[t]}]
          /\ live' = {l \in live : ~(l.task = t /\ l.session = actor[t])}
    /\ FinishRun(t, "failed")
    /\ UNCHANGED <<runs, fire, waits, ready, dispatches>>

\* The window reloads: its registry and the requests it served are gone.
RendererReloads ==
    /\ ready
    /\ actor' = [t \in Tasks |-> 0]
    /\ dispatches' = {}
    /\ UNCHANGED <<task, runs, fire, active, waits, ready, tabs, live>>

\* The user sends a message in an idle column of the task.
UserRun(t, s) ==
    /\ s \in tabs[t] /\ ~Busy(t, s)
    /\ Cardinality({l \in live : l.task = t /\ l.run = 0}) < MaxUserRuns
    /\ live' = live \union {[task |-> t, run |-> 0, session |-> s]}
    /\ UNCHANGED <<task, runs, fire, active, waits, ready, dispatches, tabs, actor>>

\* A run ends and its column forwards run-end; the forward is best effort.
RunEnds(l) ==
    /\ live' = live \ {l}
    /\ \/ \E s \in {"completed", "failed"} : FinishRun(l.task, s)
       \/ UNCHANGED <<task, active>>
    /\ UNCHANGED <<runs, fire, waits, ready, dispatches, tabs, actor>>

\* updateRunStatus, for an approval a run in a column of the task asked for or got.
Approval(l, s) ==
    LET t == l.task
        open == {i \in DOMAIN task[t].history :
                    /\ task[t].history[i].run = active[t]
                    /\ task[t].history[i].status \in Unfinished}
    IN  /\ active[t] # 0 /\ task[t].exists /\ open # {}
        /\ task' = [task EXCEPT ![t].history =
                      [i \in DOMAIN @ |-> IF i \in open THEN [@[i] EXCEPT !.status = s] ELSE @[i]]]
        /\ UNCHANGED <<runs, fire, active, waits, dispatches, renderer>>

---------------------------------------------------------------------------
(* The user's edits, the clock, and restarts *)

Create(t) ==
    /\ ~task[t].exists /\ runs[t] = 0
    /\ task' = [task EXCEPT ![t] = NewTask]
    /\ UNCHANGED <<runs, fire, active, waits, dispatches, renderer>>

\* Any edit recomputes nextRunAt from now.
Update(t) ==
    /\ task[t].exists
    /\ \E on \in BOOLEAN : task' = [task EXCEPT ![t].enabled = on, ![t].due = FALSE]
    /\ UNCHANGED <<runs, fire, active, waits, dispatches, renderer>>

Delete(t) ==
    /\ task[t].exists
    /\ task' = [task EXCEPT ![t] = Gone]
    /\ UNCHANGED <<runs, fire, active, waits, dispatches, renderer>>

\* nextRunAt passes; a manual task is one that is not enabled.
TimePasses(t) ==
    /\ task[t].exists /\ task[t].enabled /\ ~task[t].due
    /\ task' = [task EXCEPT ![t].due = TRUE]
    /\ UNCHANGED <<runs, fire, active, waits, dispatches, renderer>>

ReconciledFlagOnly(r) == [r EXCEPT !.session = 0]  \* a slip: the rows are left

\* reconcileInterruptedRuns
Reconciled(r) ==
    [r EXCEPT !.session = 0,
              !.history = [i \in DOMAIN @ |->
                  IF @[i].status \in Unfinished THEN [@[i] EXCEPT !.status = "failed"] ELSE @[i]]]

\* The application ends and starts again: tasks and tabs are what is persisted.
Restart ==
    /\ task' = [t \in Tasks |-> Reconciled(task[t])]
    /\ fire' = [t \in Tasks |-> Idle]
    /\ active' = [t \in Tasks |-> 0]
    /\ waits' = {}
    /\ ready' = FALSE /\ dispatches' = {}
    /\ actor' = [t \in Tasks |-> 0] /\ live' = {}
    /\ UNCHANGED <<runs, tabs>>

---------------------------------------------------------------------------
(* The specification *)

Init ==
    /\ task \in [Tasks -> {NewTask, Gone}]
    /\ runs = [t \in Tasks |-> 0]
    /\ fire = [t \in Tasks |-> Idle]
    /\ active = [t \in Tasks |-> 0]
    /\ waits = {}
    /\ ready = FALSE /\ dispatches = {}
    /\ tabs = [t \in Tasks |-> {}]
    /\ actor = [t \in Tasks |-> 0]
    /\ live = {}

Next ==
    \/ Tick \/ RendererReady \/ RendererReloads \/ Restart
    \/ \E d \in dispatches :
          Claim(d) \/ ColumnEnsured(d) \/ RunStarted(d) \/ DispatchFails(d)
    \/ \E l \in live : RunEnds(l) \/ \E s \in Unfinished : Approval(l, s)
    \/ \E t \in Tasks :
          \/ RunNow(t) \/ BridgeTimesOut(t) \/ Unregister(t)
          \/ Create(t) \/ Update(t) \/ Delete(t) \/ TimePasses(t)
          \/ \E s \in RunIds : RegisterActor(t, s) \/ UserRun(t, s)

Spec == Init /\ [][Next]_vars

\* The interval timer keeps ticking and every bridge request has a timer.
Fairness == WF_vars(Tick) /\ \A t \in Tasks : WF_vars(BridgeTimesOut(t))
FairSpec == Spec /\ Fairness

---------------------------------------------------------------------------
(* Properties *)

Statuses == {"running", "waiting_for_approval", "completed", "failed", "skipped"}
Rows == [run : 0..MaxRuns, status : Statuses]
TaskRows == [exists : BOOLEAN, enabled : BOOLEAN, due : BOOLEAN, session : 0..MaxRuns,
             history : Seq(Rows)]

\* Every variable has its type, and no history is longer than its limit.
TypeOK ==
    /\ task \in [Tasks -> TaskRows]
    /\ \A t \in Tasks : Len(task[t].history) <= HistoryLimit
    /\ runs \in [Tasks -> 0..MaxRuns]
    /\ fire \in [Tasks -> [at : {"off", "column", "run"}, run : 0..MaxRuns]]
    /\ active \in [Tasks -> 0..MaxRuns]
    /\ waits \subseteq Tasks
    /\ ready \in BOOLEAN
    /\ dispatches \subseteq [task : Tasks, kind : {"column", "run"}, run : RunIds,
                             at : {"queued", "sent", "served"}]
    /\ tabs \in [Tasks -> SUBSET RunIds]
    /\ actor \in [Tasks -> 0..MaxRuns]
    /\ live \subseteq [task : Tasks, run : 0..MaxRuns, session : RunIds]

\* A row shown as running or waiting belongs to the one session the task is
\* locked on: no second run is launched beside it, and no crash, timeout, late
\* answer or stray event leaves a second row running.
UnfinishedRowIsCurrent ==
    \A t \in Tasks : \A i \in DOMAIN task[t].history :
        task[t].history[i].status \in Unfinished => task[t].history[i].run = task[t].session

\* A finished row keeps its outcome: late and duplicated events change no history.
FinishedRowsStay ==
    [][\A t \in Tasks : \A i \in DOMAIN task[t].history, j \in DOMAIN task'[t].history :
          LET a == task[t].history[i] b == task'[t].history[j]
          IN  (a.run = b.run /\ a.run # 0 /\ a.status \notin Unfinished) => b.status = a.status]_vars

OpenRows(t) ==
    LET h == task[t].history
    IN  {h[i] : i \in {j \in DOMAIN h : h[j].status \in Unfinished}}

Promise == INSTANCE RoutineRuns WITH
    number <- runs,
    launching <- [t \in Tasks |-> fire[t].at # "off"],
    open <- [t \in Tasks |-> OpenRows(t)]

\* Routines keep their promise: one run of a task at a time, each shown as
\* unfinished once, after its launch and before the next one.
KeepsPromise == Promise!Spec

\* A due task is fired, or recorded as skipped, unless it is edited first.
DueHandled ==
    \A t \in Tasks : (t \in Due) ~> (t \notin Due)

\* What the proofs add: a fire holds the newest run and no row of it, and runs
\* the rows, the active run and the session of a task agree on.
Coherent(t) ==
    LET h == task[t].history
    IN  /\ \A i \in DOMAIN h : h[i].run <= runs[t]
        /\ \A i \in DOMAIN h : h[i].status \in Unfinished =>
              h[i].run = task[t].session /\ h[i].run # 0
        /\ fire[t].at # "off" =>
              /\ fire[t].run = runs[t] /\ runs[t] # 0
              /\ \A i \in DOMAIN h : h[i].status \notin Unfinished /\ h[i].run # fire[t].run
        /\ active[t] # 0 => \A i \in DOMAIN h : h[i].run = active[t] => h[i].status \in Unfinished
        /\ \A i, j \in DOMAIN h : (h[i].run = h[j].run /\ h[i].run # 0) => h[i].status = h[j].status

IInv == TypeOK /\ \A t \in Tasks : Coherent(t)

---------------------------------------------------------------------------
(* What the code's comments and tests say of it *)

\* "marks the run completed and clears the running session on run-end": when the
\* active run of a task whose start was acknowledged ends, the task is free again.
RunEndClears ==
    [][\A t \in Tasks :
          (active[t] # 0 /\ fire[t].at = "off" /\ active'[t] = 0 /\ task'[t].exists)
             => task'[t].session # active[t]]_vars
=============================================================================
