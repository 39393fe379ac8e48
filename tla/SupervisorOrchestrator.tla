---------------------- MODULE SupervisorOrchestrator ----------------------
(***************************************************************************)
(* The supervisor lifecycle of tickets: SupervisorOrchestrator and         *)
(* SupervisorState of the main process, with the column moves of           *)
(* ProjectManager that stop and clean up supervisors.                      *)
(*                                                                         *)
(* The main process is one JavaScript thread, so code between two awaits   *)
(* is one action.  Work on a ticket runs under that ticket's promise-chain *)
(* lock (withTicketLock): queue[t] is the chain, its head is the job that  *)
(* holds the lock, and pc[t] is the await the head is suspended at.        *)
(* cleanupTicketWorkspace also runs outside the lock ("free") and a sweep  *)
(* of it runs at boot ("boot"): each is a lane of its own.                 *)
(*                                                                         *)
(* The renderer, the agent and git are the environment.  A bridge request  *)
(* is answered or times out; the user owns the ticket's column and may     *)
(* type a message or a /goal in it, so a run or goal event may arrive at   *)
(* any time after the column's entry is registered.                        *)
(***************************************************************************)
EXTENDS Integers, Sequences, FiniteSets

CONSTANTS
    Tickets,        \* ticket ids
    Mode,           \* Mode[t]: the ticket's useWorktree flag, see Modes
    Columns, FirstColumn, DispatchColumn, TerminalColumns, GatedColumns,
    ColumnLimit,    \* maxConcurrent of the columns that set it
    MaxConcurrent,  \* MAX_CONCURRENT_SUPERVISORS
    WipLimit,       \* getWipLimit(), paces the dispatcher only
    Ticks,          \* auto-dispatch ticks that may be in flight at once
    Requests,       \* the IPC requests a run exercises, a subset of Kinds
    MaxWorktrees,   \* bound: worktree names a ticket may use
    MaxQueue,       \* bound: jobs on a ticket's lock
    MaxGoalReqs,    \* bound: unanswered goal-start requests of a ticket
    NoTick          \* the requester of a job no tick waits for

\* useWorktree is true, false or undefined (SupervisorOrchestrator reads all three).
Modes == {"worktree", "direct", "default"}
Kinds == {"start", "stop", "ensure", "send", "reset", "workspace", "finalize", "terminal"}
Phases == {"idle", "provisioning", "connecting", "session_creating",
           "ready", "running", "error", "completed"}
Lanes == {"locked", "free", "boot"}
WorktreeIds == 1..MaxWorktrees

ASSUME ColumnAssumption ==
    /\ FirstColumn \in Columns /\ DispatchColumn \in Columns
    /\ TerminalColumns \subseteq Columns /\ GatedColumns \subseteq Columns
    /\ FirstColumn \notin TerminalColumns /\ DispatchColumn \notin TerminalColumns
    /\ DOMAIN ColumnLimit \subseteq Columns

ASSUME BoundAssumption ==
    /\ IsFiniteSet(Tickets) /\ Mode \in [Tickets -> Modes]
    /\ Requests \subseteq Kinds \ {"terminal"} /\ NoTick \notin Ticks
    /\ MaxConcurrent \in Nat /\ WipLimit \in Nat /\ MaxWorktrees \in Nat
    /\ MaxQueue \in Nat /\ MaxGoalReqs \in Nat

VARIABLES
    row,       \* the persisted ticket rows
    disk,      \* disk[t][w]: the worktree w of ticket t on disk
    machines,  \* machines[t]: the ticket has an entry in `machines`
    phase,     \* phase of the ticket's newest SupervisorState
    queue, pc, \* the ticket lock: jobs, and where the head is suspended
    goalReqs,  \* unanswered startGoal requests of the newest SupervisorState
    lane,      \* lane[l][t]: a cleanupTicketWorkspace (or boot sweep) under way
    ticking    \* dispatch ticks waiting for a startSupervisor

vars == <<row, disk, machines, phase, queue, pc, goalReqs, lane, ticking>>

---------------------------------------------------------------------------
(* Phases (ticket-phase.ts) *)

Transitions ==
    [idle |-> {"provisioning", "connecting"},
     provisioning |-> {"connecting", "error", "idle"},
     connecting |-> {"session_creating", "error", "idle"},
     session_creating |-> {"ready", "error", "idle"},
     ready |-> {"running", "idle"},
     running |-> {"completed", "idle", "error"},
     error |-> {"provisioning", "idle"},
     completed |-> {"idle", "provisioning"}]

IsActive(p) == p \notin {"idle", "error", "completed"}

TransitionUnchecked(p, to) == to  \* a slip: no table lookup

\* transition(): an invalid move is logged and ignored.
Transition(p, to) == IF to \in Transitions[p] THEN to ELSE p

\* A slip: the state changes phase without its callback.
SetPhaseSilently(t, p) == phase' = [phase EXCEPT ![t] = p] /\ UNCHANGED row

\* The phase after a move to p, mirrored on the row by onPhaseChange.
SetPhase(t, p) ==
    /\ phase' = [phase EXCEPT ![t] = p]
    /\ row' = [row EXCEPT ![t].phase = p]

---------------------------------------------------------------------------
(* Capacity and workspaces *)

ActiveTickets == {u \in Tickets : machines[u] /\ IsActive(phase[u])}

CanStart(c) ==
    /\ Cardinality(ActiveTickets) < MaxConcurrent
    /\ c \in DOMAIN ColumnLimit =>
         Cardinality({u \in ActiveTickets : row[u].column = c}) < ColumnLimit[c]

\* resolveWorkspaceClaim: the path a ticket claims, <<>> when it claims none.
Claim(t) ==
    IF Mode[t] = "direct" THEN <<"workspaceDir">>
    ELSE IF row[t].worktree # 0 THEN <<"worktree", t, row[t].worktree>>
    ELSE <<>>

Collides(t) == \E u \in ActiveTickets \ {t} : Claim(u) = Claim(t) /\ Claim(t) # <<>>

Preflight(t) ==
    /\ row[t].column \notin TerminalColumns
    /\ machines[t] => phase[t] \in {"idle", "ready", "error", "completed"}
    /\ CanStart(row[t].column)
    /\ ~Collides(t)

Present(t, w) == disk[t][w] # "absent"
WorktreeLive(t) == row[t].worktree # 0 /\ Present(t, row[t].worktree)

\* decideWorktreeAction, for a ticket with an effective branch.
WorktreeAction(t) ==
    IF Mode[t] = "direct" THEN "none"
    ELSE IF WorktreeLive(t) THEN "reuse"
    ELSE IF Mode[t] = "worktree" THEN "create"
    ELSE "none"

---------------------------------------------------------------------------
(* The ticket lock *)

Job(kind, k) == [kind |-> kind, tick |-> k, live |-> TRUE]

Holds(t, kinds, at) ==
    /\ queue[t] # <<>>
    /\ Head(queue[t]).kind \in kinds
    /\ pc[t] = at

Suspend(t, at) ==
    /\ pc' = [pc EXCEPT ![t] = at]
    /\ UNCHANGED <<queue, ticking>>

Finish(t) ==
    /\ queue' = [queue EXCEPT ![t] = Tail(@)]
    /\ pc' = [pc EXCEPT ![t] = "begin"]
    /\ ticking' = ticking \ {Head(queue[t]).tick}

\* moveTicketToColumn: leaving a terminal column reopens the ticket.
MovedRow(r, c) ==
    [r EXCEPT !.column = c,
              !.pending = @ /\ ~(r.column \in TerminalColumns /\ c \notin TerminalColumns)]

\* The jobs the move queues: they exist only when the ticket has an entry.
MoveJobs(t, c) ==
    IF ~machines[t] THEN <<>>
    ELSE (IF c \in TerminalColumns THEN <<Job("terminal", NoTick)>> ELSE <<>>)
         \o (IF c = FirstColumn THEN <<Job("stop", NoTick)>> ELSE <<>>)
         \o (IF c \in GatedColumns THEN <<Job("stop", NoTick)>> ELSE <<>>)

\* The job throws, leaving row r; a dispatch tick that waited for it moves the
\* ticket back to the column it took it from.
Reject(t, r) ==
    LET k == Head(queue[t]).tick
        reverts == k \in Ticks /\ FirstColumn # DispatchColumn
    IN  /\ row' = [row EXCEPT ![t] = IF reverts THEN MovedRow(r, FirstColumn) ELSE r]
        /\ queue' = [queue EXCEPT ![t] =
                        Tail(@) \o (IF reverts THEN MoveJobs(t, FirstColumn) ELSE <<>>)]
        /\ pc' = [pc EXCEPT ![t] = "begin"]
        /\ ticking' = ticking \ {k}

---------------------------------------------------------------------------
(* cleanupTicketWorkspace, in a lane of its own *)

Off == [pc |-> "off", wt |-> 0, pending |-> FALSE, auto |-> FALSE, cur |-> FALSE]

\* What a cleanup keeps of the row r it read, as far as a later step reads it;
\* cur: the entry it captured before bridge.dispose holds the newest state.
Snapshot(r, at) ==
    [pc |-> at, wt |-> r.worktree, pending |-> r.pending /\ at # "remove",
     auto |-> r.autopilot /\ r.worktree = 0, cur |-> at = "dispose"]

\* The last update of a cleanup that has no worktree to remove.
ClearedRow(r, s) ==
    IF s.pending THEN [r EXCEPT !.pending = FALSE, !.autopilot = FALSE]
    ELSE IF s.auto THEN [r EXCEPT !.autopilot = FALSE]
    ELSE r

\* Called on row r: up to its first await, or to its end when it has none.
CleanupAwaits(t, r) == r.worktree # 0 \/ machines[t]
CleanupLane(t, r) ==
    IF r.worktree # 0 THEN Snapshot(r, "check")
    ELSE IF machines[t] THEN Snapshot(r, "dispose")
    ELSE Off
CleanupRow(t, r) == IF CleanupAwaits(t, r) THEN r ELSE ClearedRow(r, Snapshot(r, "check"))

SetLane(l, t, s) == lane' = [lane EXCEPT ![l][t] = s]

\* A lane ends: the locked one releases the ticket's lock.
LaneEnds(l, t) ==
    IF l = "locked" THEN Finish(t) ELSE UNCHANGED <<queue, pc, ticking>>

\* isWorktreeDirty found changes, or could not look: cleanup is deferred.
CheckDirty(l, t) ==
    /\ lane[l][t].pc = "check"
    /\ disk[t][lane[l][t].wt] # "clean"
    /\ row' = [row EXCEPT ![t].pending = @ \/ ~lane[l][t].pending]
    /\ SetLane(l, t, Off) /\ LaneEnds(l, t)
    /\ UNCHANGED <<disk, machines, phase, goalReqs>>

CheckClean(l, t) ==
    /\ lane[l][t].pc = "check"
    /\ disk[t][lane[l][t].wt] = "clean"
    /\ SetLane(l, t, [lane[l][t] EXCEPT !.pc = IF machines[t] THEN "dispose" ELSE "remove",
                                        !.pending = FALSE, !.cur = machines[t]])
    /\ UNCHANGED <<row, disk, machines, phase, queue, pc, goalReqs, ticking>>

DisposedPhaseKept(t, s) == phase[t]  \* a slip: the entry goes, its state stays

\* SupervisorState.dispose, on the state the cleanup captured.
DisposedPhase(t, s) == IF s.cur THEN "idle" ELSE phase[t]

\* bridge.dispose answered or failed: the captured entry's state is disposed,
\* and whatever entry the ticket has by now is deleted.
Dispose(l, t) ==
    LET s == lane[l][t]
        p == DisposedPhase(t, s)
        r == IF s.cur THEN [row[t] EXCEPT !.phase = p] ELSE row[t]
    IN  /\ s.pc = "dispose"
        /\ phase' = [phase EXCEPT ![t] = p]
        /\ machines' = [machines EXCEPT ![t] = FALSE]
        /\ IF s.wt # 0
           THEN /\ row' = [row EXCEPT ![t] = r]
                /\ SetLane(l, t, [s EXCEPT !.pc = "remove", !.cur = FALSE])
                /\ UNCHANGED <<queue, pc, ticking>>
           ELSE /\ row' = [row EXCEPT ![t] = ClearedRow(r, s)]
                /\ SetLane(l, t, Off) /\ LaneEnds(l, t)
        /\ UNCHANGED <<disk, goalReqs>>

\* git worktree remove --force; a failure is logged and the cleanup goes on.
RemoveWorktree(l, t) ==
    /\ lane[l][t].pc = "remove"
    /\ \E d \in {"absent", disk[t][lane[l][t].wt]} :
          disk' = [disk EXCEPT ![t][lane[l][t].wt] = d]
    /\ SetLane(l, t, [lane[l][t] EXCEPT !.pc = "record"])
    /\ UNCHANGED <<row, machines, phase, queue, pc, goalReqs, ticking>>

\* The update after removeWorktree: the boot sweep clears the worktree alone.
RecordRemoval(l, t) ==
    /\ lane[l][t].pc = "record"
    /\ row' = [row EXCEPT ![t] =
                  IF l = "boot" THEN [@ EXCEPT !.worktree = 0]
                  ELSE [@ EXCEPT !.worktree = 0, !.pending = FALSE, !.autopilot = FALSE]]
    /\ SetLane(l, t, Off) /\ LaneEnds(l, t)
    /\ UNCHANGED <<disk, machines, phase, goalReqs>>

CleanupStep(l, t) ==
    \/ CheckDirty(l, t) \/ CheckClean(l, t) \/ Dispose(l, t)
    \/ RemoveWorktree(l, t) \/ RecordRemoval(l, t)

---------------------------------------------------------------------------
(* Jobs: the handlers that run under the ticket lock *)

BeginStart(t) ==
    /\ Holds(t, {"start"}, "begin")
    /\ IF Preflight(t)
       THEN Suspend(t, "workspace") /\ UNCHANGED row
       ELSE Reject(t, row[t])
    /\ UNCHANGED <<disk, machines, phase, goalReqs, lane>>

\* ensureSupervisorInfraLocked and getTicketWorkspaceLocked check nothing.
BeginEnsure(t) ==
    /\ Holds(t, {"ensure", "workspace"}, "begin")
    /\ Suspend(t, "workspace")
    /\ UNCHANGED <<row, disk, machines, phase, goalReqs, lane>>

BeginSend(t) ==
    /\ Holds(t, {"send"}, "begin")
    /\ IF machines[t] THEN Suspend(t, "reply") /\ UNCHANGED row
       ELSE IF CanStart(row[t].column) /\ ~Collides(t)
            THEN Suspend(t, "workspace") /\ UNCHANGED row
            ELSE Reject(t, row[t])
    /\ UNCHANGED <<disk, machines, phase, goalReqs, lane>>

BeginStop(t) ==
    /\ Holds(t, {"stop"}, "begin")
    /\ row' = [row EXCEPT ![t].autopilot = FALSE]
    /\ IF machines[t] THEN Suspend(t, "stopGoal") ELSE Finish(t)
    /\ UNCHANGED <<disk, machines, phase, goalReqs, lane>>

\* resetSupervisorSession, and the job a move to a terminal column queues.
BeginHalt(t) ==
    /\ Holds(t, {"reset", "terminal"}, "begin")
    /\ Suspend(t, "stop")
    /\ UNCHANGED <<row, disk, machines, phase, goalReqs, lane>>

BeginFinalize(t) ==
    /\ Holds(t, {"finalize"}, "begin")
    /\ SetLane("locked", t, CleanupLane(t, row[t]))
    /\ row' = [row EXCEPT ![t] = CleanupRow(t, @)]
    /\ IF CleanupAwaits(t, row[t]) THEN Suspend(t, "cleanup") ELSE Finish(t)
    /\ UNCHANGED <<disk, machines, phase, goalReqs>>

\* ensureColumn after resolveTicketWorkspace left row r: a ticket without an
\* entry gets a new SupervisorState, which closures over an older one never reach.
EnsureColumn(t, r) ==
    IF Head(queue[t]).kind = "workspace"
    THEN /\ row' = [row EXCEPT ![t] = r]
         /\ Finish(t)
         /\ UNCHANGED <<phase, goalReqs, lane>>
    ELSE IF machines[t]
    THEN /\ row' = [row EXCEPT ![t] = r]
         /\ Suspend(t, "columnOld")
         /\ UNCHANGED <<phase, goalReqs, lane>>
    ELSE /\ row' = [row EXCEPT ![t] = [r EXCEPT !.phase = "provisioning"]]
         /\ phase' = [phase EXCEPT ![t] = "provisioning"]
         /\ goalReqs' = [goalReqs EXCEPT ![t] = 0]
         /\ lane' = [lane EXCEPT !["free"][t].cur = FALSE]
         /\ queue' = [queue EXCEPT ![t] = [i \in DOMAIN @ |-> [@[i] EXCEPT !.live = FALSE]]]
         /\ pc' = [pc EXCEPT ![t] = "columnNew"]
         /\ UNCHANGED ticking

ResolveWorkspace(t) ==
    /\ Holds(t, Kinds, "workspace")
    /\ \/ /\ WorktreeAction(t) # "create"
          /\ EnsureColumn(t, row[t])
          /\ UNCHANGED disk
       \/ /\ WorktreeAction(t) = "create"
          /\ \E w \in WorktreeIds :
                /\ ~Present(t, w)
                /\ disk' = [disk EXCEPT ![t][w] = "clean"]
                /\ EnsureColumn(t, [row[t] EXCEPT !.worktree = w])
       \/ /\ WorktreeAction(t) = "create"  \* git worktree add failed
          /\ Reject(t, row[t])
          /\ UNCHANGED <<disk, phase, goalReqs, lane>>
    /\ UNCHANGED machines

\* The column acknowledged: the entry is registered, and a provisioned state is ready.
Registered(p) == IF p = "provisioning" THEN "ready" ELSE p

StartedWithoutRearm(p) == Transition(Registered(p), "running")  \* a slip

\* startSupervisor from there: re-arm, then startMachineRun's transition.
Started(p) ==
    LET q == Registered(p)
    IN  Transition(IF q \in {"idle", "error", "completed"} THEN "ready" ELSE q, "running")

ColumnAck(t) ==
    /\ \/ Holds(t, {"start", "ensure", "send"}, "columnOld")
       \/ Holds(t, {"start", "ensure", "send"}, "columnNew")
    /\ machines' = [machines EXCEPT ![t] = TRUE]
    /\ IF Head(queue[t]).kind = "start"
       THEN /\ goalReqs[t] < MaxGoalReqs
            /\ phase' = [phase EXCEPT ![t] = Started(@)]
            /\ row' = [row EXCEPT ![t].phase = Started(phase[t]), ![t].autopilot = TRUE]
            /\ goalReqs' = [goalReqs EXCEPT ![t] = @ + 1]
       ELSE SetPhase(t, Registered(phase[t])) /\ UNCHANGED goalReqs
    /\ IF Head(queue[t]).kind = "send" THEN Suspend(t, "reply") ELSE Finish(t)
    /\ UNCHANGED <<disk, lane>>

\* The request failed or timed out: the state is forced to error and the job throws.
ColumnFail(t) ==
    /\ \/ Holds(t, {"start", "ensure", "send"}, "columnOld")
       \/ Holds(t, {"start", "ensure", "send"}, "columnNew")
    /\ phase' = [phase EXCEPT ![t] = "error"]
    /\ Reject(t, [row[t] EXCEPT !.phase = "error"])
    /\ UNCHANGED <<disk, machines, goalReqs, lane>>

\* A slip: nothing settles the reply of a reset.
MessageDoneNoTimeout(t) ==
    /\ Holds(t, {"send"}, "reply")
    /\ Finish(t)
    /\ UNCHANGED <<row, disk, machines, phase, goalReqs, lane>>

\* bridge.send, bridge.run and bridge.reset: answered or failed, the job is over.
MessageDone(t) ==
    /\ Holds(t, {"send", "reset"}, "reply")
    /\ Finish(t)
    /\ UNCHANGED <<row, disk, machines, phase, goalReqs, lane>>

StoppedOnlyRuns(p) == IF p = "running" THEN "idle" ELSE p  \* a slip: a run only

\* The phase a stop forces, whatever the bridge answered.
Stopped(p) == "idle"

StopGoalDone(t) ==
    /\ Holds(t, {"stop"}, "stopGoal")
    /\ SetPhase(t, Stopped(phase[t]))
    /\ Finish(t)
    /\ UNCHANGED <<disk, machines, goalReqs, lane>>

\* bridge.stop answered or failed, for a reset.
ResetStopped(t) ==
    /\ Holds(t, {"reset"}, "stop")
    /\ IF machines[t] THEN SetPhase(t, Stopped(phase[t])) ELSE UNCHANGED <<phase, row>>
    /\ Suspend(t, "reply")
    /\ UNCHANGED <<disk, machines, goalReqs, lane>>

\* bridge.stop answered or failed, for a move to a terminal column: the entry
\* captured at the move goes idle and the workspace is cleaned up.
TerminalStopped(t) ==
    LET live == Head(queue[t]).live
        p == IF live THEN Stopped(phase[t]) ELSE phase[t]
        r == IF live THEN [row[t] EXCEPT !.phase = p] ELSE row[t]
    IN  /\ Holds(t, {"terminal"}, "stop")
        /\ phase' = [phase EXCEPT ![t] = p]
        /\ row' = [row EXCEPT ![t] = CleanupRow(t, r)]
        /\ SetLane("locked", t, CleanupLane(t, r))
        /\ IF CleanupAwaits(t, r) THEN Suspend(t, "cleanup") ELSE Finish(t)
        /\ UNCHANGED <<disk, machines, goalReqs>>

Serve(t) ==
    \/ BeginStart(t) \/ BeginEnsure(t) \/ BeginSend(t) \/ BeginStop(t)
    \/ BeginHalt(t) \/ BeginFinalize(t)
    \/ ResolveWorkspace(t) \/ ColumnAck(t) \/ ColumnFail(t)
    \/ MessageDone(t) \/ StopGoalDone(t) \/ ResetStopped(t) \/ TerminalStopped(t)
    \/ CleanupStep("locked", t)

---------------------------------------------------------------------------
(* Requests, moves and the dispatcher *)

Request(t, kind) ==
    /\ Len(queue[t]) < MaxQueue
    /\ queue' = [queue EXCEPT ![t] = Append(@, Job(kind, NoTick))]
    /\ UNCHANGED <<row, disk, machines, phase, pc, goalReqs, lane, ticking>>

\* A move to a terminal column of a ticket without an entry cleans up at once,
\* outside the lock (bound: one such cleanup of a ticket at a time).
MoveTicketToColumn(t, c) ==
    LET r == MovedRow(row[t], c)
        cleansHere == c \in TerminalColumns /\ ~machines[t]
    IN  /\ Len(queue[t]) < MaxQueue
        /\ cleansHere => lane["free"][t].pc = "off"
        /\ queue' = [queue EXCEPT ![t] = @ \o MoveJobs(t, c)]
        /\ IF cleansHere
           THEN SetLane("free", t, CleanupLane(t, r)) /\ row' = [row EXCEPT ![t] = CleanupRow(t, r)]
           ELSE UNCHANGED lane /\ row' = [row EXCEPT ![t] = r]
        /\ UNCHANGED <<disk, machines, phase, pc, goalReqs, ticking>>

ActiveWip == {u \in Tickets : IsActive(row[u].phase)}
WipRoomOneMore == Cardinality(ActiveWip) <= WipLimit  \* a slip: off by one
WipRoom == Cardinality(ActiveWip) < WipLimit

\* autoDispatchTick up to its await of startSupervisor, for a project with
\* auto-dispatch on; the ticket's priority and blockers are abstracted.
AutoDispatchTick(k, t) ==
    /\ k \notin ticking
    /\ Cardinality(ActiveTickets) < MaxConcurrent
    /\ WipRoom
    /\ row[t].column = FirstColumn
    /\ t \notin ActiveTickets
    /\ CanStart(DispatchColumn)
    /\ Len(queue[t]) < MaxQueue
    /\ row' = [row EXCEPT ![t] = MovedRow(@, DispatchColumn)]
    /\ queue' = [queue EXCEPT ![t] = (@ \o MoveJobs(t, DispatchColumn)) \o <<Job("start", k)>>]
    /\ ticking' = ticking \union {k}
    /\ UNCHANGED <<disk, machines, phase, pc, goalReqs, lane>>

---------------------------------------------------------------------------
(* Events forwarded by the column, and answers to goal-start *)

Event(t, p) ==
    /\ machines[t] /\ p # phase[t]
    /\ SetPhase(t, p)
    /\ UNCHANGED <<disk, machines, queue, pc, goalReqs, lane, ticking>>

RunStarted(t) == phase[t] # "running" /\ Event(t, Transition(phase[t], "running"))
Disconnected(t) == phase[t] = "running" /\ Event(t, "idle")
GoalActive(t) ==
    IsActive(phase[t]) /\ phase[t] # "running" /\ Event(t, Transition(phase[t], "running"))
GoalCompleted(t) == Event(t, Transition(phase[t], "completed"))
GoalCancelled(t) == phase[t] # "error" /\ Event(t, "idle")
GoalTornDown(t) == phase[t] # "completed" /\ Event(t, "idle")

\* A slip: an answer is counted for a request that was already settled.
GoalStartAnsweredTwice(t) ==
    /\ machines[t]
    /\ goalReqs' = [goalReqs EXCEPT ![t] = @ - 1]
    /\ UNCHANGED <<row, disk, machines, phase, queue, pc, lane, ticking>>

\* goal-start answered, or rejected after its timeout: a rejection forces the
\* state it was sent for to error while that state is active.
GoalStartAnswered(t) ==
    /\ goalReqs[t] > 0
    /\ goalReqs' = [goalReqs EXCEPT ![t] = @ - 1]
    /\ UNCHANGED <<row, disk, machines, phase, queue, pc, lane, ticking>>

GoalStartRejected(t) ==
    /\ goalReqs[t] > 0
    /\ goalReqs' = [goalReqs EXCEPT ![t] = @ - 1]
    /\ IF IsActive(phase[t]) THEN SetPhase(t, "error") ELSE UNCHANGED <<phase, row>>
    /\ UNCHANGED <<disk, machines, queue, pc, lane, ticking>>

---------------------------------------------------------------------------
(* The files of a worktree, and restarts *)

Edit(t, w) ==
    /\ disk[t][w] = "clean"
    /\ disk' = [disk EXCEPT ![t][w] = "dirty"]
    /\ UNCHANGED <<row, machines, phase, queue, pc, goalReqs, lane, ticking>>

Commit(t, w) ==
    /\ disk[t][w] = "dirty"
    /\ disk' = [disk EXCEPT ![t][w] = "clean"]
    /\ UNCHANGED <<row, machines, phase, queue, pc, goalReqs, lane, ticking>>

\* The process ends, however it ends, and boots again: memory is empty, phases
\* other than idle and completed are reset, and startupTerminalCleanup starts on
\* the rows of tickets in a terminal column as they are now.
Restart ==
    LET booted == [t \in Tickets |->
                     [row[t] EXCEPT !.phase = IF @ = "completed" THEN @ ELSE "idle"]]
        swept(t) == row[t].column \in TerminalColumns /\ row[t].worktree # 0
    IN  /\ row' = booted
        /\ machines' = [t \in Tickets |-> FALSE]
        /\ phase' = [t \in Tickets |-> "idle"]
        /\ queue' = [t \in Tickets |-> <<>>]
        /\ pc' = [t \in Tickets |-> "begin"]
        /\ goalReqs' = [t \in Tickets |-> 0]
        /\ ticking' = {}
        /\ lane' = [l \in Lanes |-> [t \in Tickets |->
                      IF l = "boot" /\ swept(t) THEN Snapshot(row[t], "remove") ELSE Off]]
        /\ UNCHANGED disk

---------------------------------------------------------------------------
(* The specification *)

NewRow == [column |-> FirstColumn, phase |-> "idle", autopilot |-> FALSE,
           pending |-> FALSE, worktree |-> 0]

Init ==
    /\ row = [t \in Tickets |-> NewRow]
    /\ disk = [t \in Tickets |-> [w \in WorktreeIds |-> "absent"]]
    /\ machines = [t \in Tickets |-> FALSE]
    /\ phase = [t \in Tickets |-> "idle"]
    /\ queue = [t \in Tickets |-> <<>>]
    /\ pc = [t \in Tickets |-> "begin"]
    /\ goalReqs = [t \in Tickets |-> 0]
    /\ lane = [l \in Lanes |-> [t \in Tickets |-> Off]]
    /\ ticking = {}

User(t) ==
    \/ \E kind \in Requests : Request(t, kind)
    \/ \E c \in Columns : MoveTicketToColumn(t, c)
    \/ \E w \in WorktreeIds : Edit(t, w) \/ Commit(t, w)

Column(t) ==
    \/ RunStarted(t) \/ Disconnected(t)
    \/ GoalActive(t) \/ GoalCompleted(t) \/ GoalCancelled(t) \/ GoalTornDown(t)
    \/ GoalStartAnswered(t) \/ GoalStartRejected(t)

Running ==
    \E t \in Tickets :
         \/ Serve(t) \/ User(t) \/ Column(t)
         \/ CleanupStep("free", t) \/ CleanupStep("boot", t)
         \/ \E k \in Ticks : AutoDispatchTick(k, t)

Next == Running \/ Restart

Spec == Init /\ [][Next]_vars

\* Every promise the orchestrator awaits settles: the bridge rejects a request
\* after 120 s and git commands run under a timeout.
Fairness == \A t \in Tickets : WF_vars(Serve(t)) /\ WF_vars(CleanupStep("free", t))
FairSpec == Spec /\ Fairness

---------------------------------------------------------------------------
(* Types *)

Rows == [column : Columns, phase : Phases, autopilot : BOOLEAN, pending : BOOLEAN,
         worktree : 0..MaxWorktrees]
Jobs == [kind : Kinds, tick : Ticks \union {NoTick}, live : BOOLEAN]
Points == {"begin", "workspace", "columnOld", "columnNew", "stop", "stopGoal",
           "reply", "cleanup"}
Cleanups == [pc : {"off", "check", "dispose", "remove", "record"}, wt : 0..MaxWorktrees,
             pending : BOOLEAN, auto : BOOLEAN, cur : BOOLEAN]

\* Every variable has its type.
TypeOK ==
    /\ row \in [Tickets -> Rows]
    /\ disk \in [Tickets -> [WorktreeIds -> {"absent", "clean", "dirty"}]]
    /\ machines \in [Tickets -> BOOLEAN]
    /\ phase \in [Tickets -> Phases]
    /\ queue \in [Tickets -> Seq(Jobs)]
    /\ pc \in [Tickets -> Points]
    /\ goalReqs \in [Tickets -> 0..MaxGoalReqs]
    /\ lane \in [Lanes -> [Tickets -> Cleanups]]
    /\ ticking \subseteq Ticks

---------------------------------------------------------------------------
(* The inductive invariant of the proofs *)

\* A suspended job is on its queue, and the locked lane is that job's cleanup.
LockHeld ==
    \A t \in Tickets :
        /\ pc[t] # "begin" => queue[t] # <<>>
        /\ lane["locked"][t].pc # "off" => pc[t] = "cleanup"

\* The table's two connection phases are never entered.
PhasesUsed == \A t \in Tickets : phase[t] \notin {"connecting", "session_creating"}

\* A row follows its state while the entry exists and while a column is awaited.
RowFollows ==
    \A t \in Tickets :
        (machines[t] \/ pc[t] \in {"columnOld", "columnNew"}) => row[t].phase = phase[t]

\* Under the lock no entry replaces the captured one; the boot sweep has none.
CapturedEntry ==
    \A t \in Tickets :
        /\ lane["locked"][t].pc = "dispose" => lane["locked"][t].cur
        /\ lane["boot"][t].pc \in {"off", "remove", "record"}

IInv == TypeOK /\ LockHeld /\ PhasesUsed /\ RowFollows /\ CapturedEntry

---------------------------------------------------------------------------
(* Safety *)

\* The capacity count reads `machines` and the WIP count reads rows: an entry
\* that leaves `machines` while the process runs must leave its ticket inactive.
\* It does, except when a cleanup outside the lock deletes an entry that
\* replaced the one it had captured before its await.
EntryLeavesInactive ==
    [][\A t \in Tickets :
          (machines[t] /\ ~machines'[t] /\ IsActive(row'[t].phase)) =>
              lane["free"][t].pc = "dispose" /\ ~lane["free"][t].cur]_vars

\* A row says what the live SupervisorState says.
RowMirrorsEntry == \A t \in Tickets : machines[t] => row[t].phase = phase[t]

\* transition() ignores an invalid move without telling its caller, so
\* startMachineRun may not take effect.  It does: a start whose column was
\* acknowledged leaves the supervisor running, whatever events arrived meanwhile.
StartTakesEffect ==
    [][\A t \in Tickets :
          goalReqs'[t] > goalReqs[t] =>
             machines'[t] /\ phase'[t] = "running" /\ row'[t].phase = "running"]_vars

\* A supervisor that stopped, failed or completed becomes active again only in
\* a job that holds its lock and asked for its column: no late run-started or
\* goal-update event revives it.
NoRevival ==
    [][\A t \in Tickets :
          (machines[t] /\ ~IsActive(phase[t]) /\ IsActive(phase'[t])) =>
             pc[t] \in {"columnOld", "columnNew"} /\ Head(queue[t]).kind = "start"]_vars

---------------------------------------------------------------------------
(* What the code's comments say of it *)

\* "autopilot won't push the active-ticket count past" wipLimit.
WipPaced == Cardinality(ActiveWip) <= WipLimit

---------------------------------------------------------------------------
(* Liveness *)

\* A stop whose turn has come ends with no active supervisor, even when the
\* renderer never answers.
StopServed ==
    \A t \in Tickets :
        (queue[t] # <<>> /\ Head(queue[t]).kind = "stop") ~> t \notin ActiveTickets

\* No job keeps a ticket's lock: whatever it awaits, the next job gets its turn.
LockReleased == \A t \in Tickets : []<>(pc[t] = "begin")
===========================================================================
