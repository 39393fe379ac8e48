------------------- MODULE SupervisorOrchestrator_proofs -------------------
(* Proofs about SupervisorOrchestrator, for every set of tickets, columns   *)
(* and ticks and every value of the limits.                                 *)
EXTENDS SupervisorOrchestrator, FiniteSetTheorems, TLAPS

---------------------------------------------------------------------------
(* Operators on rows, jobs and phases *)

\* A move leaves a row a row.
LEMMA MovedRowType ==
    ASSUME NEW r \in Rows, NEW c \in Columns
    PROVE  MovedRow(r, c) \in Rows
BY DEF MovedRow, Rows

\* The jobs a move queues are jobs.
LEMMA MoveJobsType ==
    ASSUME NEW t \in Tickets, NEW c \in Columns
    PROVE  MoveJobs(t, c) \in Seq(Jobs)
<1>1. \A k \in {"terminal", "stop"} : Job(k, NoTick) \in Jobs
  BY DEF Job, Jobs, Kinds
<1>2. <<Job("terminal", NoTick)>> \in Seq(Jobs) /\ <<Job("stop", NoTick)>> \in Seq(Jobs)
      /\ <<>> \in Seq(Jobs)
  BY <1>1
<1>. DEFINE A == IF c \in TerminalColumns THEN <<Job("terminal", NoTick)>> ELSE <<>>
            B == IF c = FirstColumn THEN <<Job("stop", NoTick)>> ELSE <<>>
            C == IF c \in GatedColumns THEN <<Job("stop", NoTick)>> ELSE <<>>
<1>3. A \in Seq(Jobs) /\ B \in Seq(Jobs) /\ C \in Seq(Jobs)
  BY <1>2
<1>. HIDE DEF A, B, C
<1>4. (A \o B) \o C \in Seq(Jobs)
  BY <1>3
<1>. USE DEF A, B, C
<1>. QED
  BY <1>2, <1>4 DEF MoveJobs

\* A cleanup reads a row into a lane record.
LEMMA SnapshotType ==
    ASSUME NEW r \in Rows, NEW at \in {"check", "dispose", "remove"}
    PROVE  Snapshot(r, at) \in Cleanups
BY BoundAssumption DEF Snapshot, Rows, Cleanups

LEMMA CleanupTypes ==
    ASSUME TypeOK, NEW t \in Tickets, NEW r \in Rows
    PROVE  /\ CleanupLane(t, r) \in Cleanups
           /\ CleanupRow(t, r) \in Rows
<1>1. Off \in Cleanups
  BY BoundAssumption DEF Off, Cleanups
<1>2. Snapshot(r, "check") \in Cleanups /\ Snapshot(r, "dispose") \in Cleanups
  BY SnapshotType
<1>3. ClearedRow(r, Snapshot(r, "check")) \in Rows
  BY DEF ClearedRow, Rows
<1>. QED
  BY <1>1, <1>2, <1>3 DEF CleanupLane, CleanupRow

\* A transition of a phase leaves a phase.
LEMMA TransitionType ==
    ASSUME NEW p \in Phases, NEW q \in Phases
    PROVE  Transition(p, q) \in Phases
BY DEF Transition

---------------------------------------------------------------------------
(* The queue *)

\* A job that ends leaves the rest of the queue.
LEMMA FinishType ==
    ASSUME TypeOK, NEW t \in Tickets, queue[t] # <<>>, Finish(t)
    PROVE  /\ queue' \in [Tickets -> Seq(Jobs)]
           /\ pc' \in [Tickets -> Points]
           /\ ticking' \subseteq Ticks
<1>1. Tail(queue[t]) \in Seq(Jobs)
  BY DEF TypeOK
<1>. QED
  BY <1>1 DEF TypeOK, Finish, Points

LEMMA RejectType ==
    ASSUME TypeOK, NEW t \in Tickets, queue[t] # <<>>, NEW r \in Rows, Reject(t, r)
    PROVE  /\ row' \in [Tickets -> Rows]
           /\ queue' \in [Tickets -> Seq(Jobs)]
           /\ pc' \in [Tickets -> Points]
           /\ ticking' \subseteq Ticks
<1>. DEFINE more == IF Head(queue[t]).tick \in Ticks /\ FirstColumn # DispatchColumn
                    THEN MoveJobs(t, FirstColumn) ELSE <<>>
<1>1. MovedRow(r, FirstColumn) \in Rows /\ MoveJobs(t, FirstColumn) \in Seq(Jobs)
  BY MovedRowType, MoveJobsType, ColumnAssumption
<1>2. Tail(queue[t]) \in Seq(Jobs)
  BY DEF TypeOK
<1>3. more \in Seq(Jobs)
  BY <1>1
<1>. HIDE DEF more
<1>4. Tail(queue[t]) \o more \in Seq(Jobs)
  BY <1>2, <1>3
<1>. USE DEF more
<1>5. queue' = [queue EXCEPT ![t] = Tail(queue[t]) \o more]
  BY DEF Reject
<1>6. queue' \in [Tickets -> Seq(Jobs)]
  BY <1>4, <1>5 DEF TypeOK
<1>7. row' \in [Tickets -> Rows]
  BY <1>1 DEF Reject, TypeOK
<1>. QED
  BY <1>6, <1>7 DEF Reject, TypeOK, Points

---------------------------------------------------------------------------
(* Type correctness, one lemma per group of actions *)

LEMMA LaneEndsType ==
    ASSUME TypeOK, NEW l \in Lanes, NEW t \in Tickets, LaneEnds(l, t),
           l = "locked" => queue[t] # <<>>
    PROVE  /\ queue' \in [Tickets -> Seq(Jobs)]
           /\ pc' \in [Tickets -> Points]
           /\ ticking' \subseteq Ticks
<1>1. CASE l = "locked"
  BY <1>1, FinishType DEF LaneEnds
<1>2. CASE l # "locked"
  BY <1>2 DEF LaneEnds, TypeOK
<1>. QED
  BY <1>1, <1>2

LEMMA SetLaneType ==
    ASSUME TypeOK, NEW l \in Lanes, NEW t \in Tickets, NEW s \in Cleanups, SetLane(l, t, s)
    PROVE  lane' \in [Lanes -> [Tickets -> Cleanups]]
BY DEF SetLane, TypeOK

LEMMA CleanupStepType ==
    ASSUME TypeOK, NEW l \in Lanes, NEW t \in Tickets, CleanupStep(l, t),
           (l = "locked" /\ lane[l][t].pc # "off") => queue[t] # <<>>
    PROVE  TypeOK'
<1>0. lane[l][t] \in Cleanups /\ row[t] \in Rows /\ Off \in Cleanups
  BY BoundAssumption DEF TypeOK, Off, Cleanups
<1>1. CASE CheckDirty(l, t)
  <2>1. row' \in [Tickets -> Rows]
    BY <1>1 DEF CheckDirty, TypeOK, Rows
  <2>2. lane' \in [Lanes -> [Tickets -> Cleanups]]
    BY <1>0, <1>1, SetLaneType DEF CheckDirty
  <2>3. /\ queue' \in [Tickets -> Seq(Jobs)] /\ pc' \in [Tickets -> Points]
        /\ ticking' \subseteq Ticks
    BY <1>1, LaneEndsType DEF CheckDirty
  <2>. QED
    BY <1>1, <2>1, <2>2, <2>3 DEF CheckDirty, TypeOK
<1>2. CASE CheckClean(l, t)
  <2>1. \A p \in {"dispose", "remove"}, b \in BOOLEAN :
           [lane[l][t] EXCEPT !.pc = p, !.pending = FALSE, !.cur = b] \in Cleanups
    BY <1>0 DEF Cleanups
  <2>2. lane' \in [Lanes -> [Tickets -> Cleanups]]
    BY <1>2, <2>1, SetLaneType DEF CheckClean, TypeOK
  <2>. QED
    BY <1>2, <2>2 DEF CheckClean, TypeOK
<1>3. CASE Dispose(l, t)
  <2>. DEFINE s == lane[l][t]
              p == DisposedPhase(t, s)
              r == IF s.cur THEN [row[t] EXCEPT !.phase = p] ELSE row[t]
  <2>1. p \in Phases
    BY DEF DisposedPhase, TypeOK, Phases
  <2>2. r \in Rows /\ ClearedRow(r, s) \in Rows
    BY <1>0, <2>1 DEF Rows, ClearedRow
  <2>3. [s EXCEPT !.pc = "remove", !.cur = FALSE] \in Cleanups
    BY <1>0 DEF Cleanups
  <2>4. row' \in [Tickets -> Rows] /\ lane' \in [Lanes -> [Tickets -> Cleanups]]
    <3>1. CASE s.wt # 0
      BY <1>3, <2>2, <2>3, <3>1, SetLaneType DEF Dispose, TypeOK
    <3>2. CASE s.wt = 0
      BY <1>0, <1>3, <2>2, <3>2, SetLaneType DEF Dispose, TypeOK
    <3>. QED
      BY <3>1, <3>2
  <2>5. /\ queue' \in [Tickets -> Seq(Jobs)] /\ pc' \in [Tickets -> Points]
        /\ ticking' \subseteq Ticks
    <3>1. CASE s.wt # 0
      BY <1>3, <3>1 DEF Dispose, TypeOK
    <3>2. CASE s.wt = 0
      BY <1>3, <3>2, LaneEndsType DEF Dispose
    <3>. QED
      BY <3>1, <3>2
  <2>6. phase' \in [Tickets -> Phases] /\ machines' \in [Tickets -> BOOLEAN]
    BY <1>3, <2>1 DEF Dispose, TypeOK
  <2>. QED
    BY <1>3, <2>4, <2>5, <2>6 DEF Dispose, TypeOK
<1>4. CASE RemoveWorktree(l, t)
  <2>1. [lane[l][t] EXCEPT !.pc = "record"] \in Cleanups
    BY <1>0 DEF Cleanups
  <2>2. lane' \in [Lanes -> [Tickets -> Cleanups]]
    BY <1>4, <2>1, SetLaneType DEF RemoveWorktree
  <2>. DEFINE w == lane[l][t].wt
              contents == {"absent", "clean", "dirty"}
  <2>3. disk' \in [Tickets -> [WorktreeIds -> contents]]
    <3>1. PICK d \in {"absent", disk[t][w]} : disk' = [disk EXCEPT ![t][w] = d]
      BY <1>4 DEF RemoveWorktree
    <3>2. CASE w \in WorktreeIds
      <4>1. d \in contents
        <5>1. disk[t] \in [WorktreeIds -> contents]
          BY DEF TypeOK
        <5>. HIDE DEF w
        <5>2. disk[t][w] \in contents
          BY <3>2, <5>1
        <5>. QED
          BY <3>1, <5>2
      <4>. QED
        BY <3>1, <4>1 DEF TypeOK
    <3>3. CASE w \notin WorktreeIds
      BY <3>1, <3>3 DEF TypeOK
    <3>. QED
      BY <3>2, <3>3
  <2>. QED
    BY <1>4, <2>2, <2>3 DEF RemoveWorktree, TypeOK
<1>5. CASE RecordRemoval(l, t)
  <2>. DEFINE bare == [row[t] EXCEPT !.worktree = 0]
              cleared == [row[t] EXCEPT !.worktree = 0, !.pending = FALSE, !.autopilot = FALSE]
  <2>z. 0 \in 0..MaxWorktrees
    BY BoundAssumption
  <2>0. bare \in Rows /\ cleared \in Rows
    BY <1>0, <2>z DEF Rows
  <2>1. row' \in [Tickets -> Rows]
    <3>1. row' = [row EXCEPT ![t] = IF l = "boot" THEN bare ELSE cleared]
      BY <1>5 DEF RecordRemoval
    <3>. HIDE DEF bare, cleared
    <3>. QED
      BY <2>0, <3>1 DEF TypeOK
  <2>2. lane' \in [Lanes -> [Tickets -> Cleanups]]
    BY <1>0, <1>5, SetLaneType DEF RecordRemoval
  <2>3. /\ queue' \in [Tickets -> Seq(Jobs)] /\ pc' \in [Tickets -> Points]
        /\ ticking' \subseteq Ticks
    BY <1>5, LaneEndsType DEF RecordRemoval
  <2>. QED
    BY <1>5, <2>1, <2>2, <2>3 DEF RecordRemoval, TypeOK
<1>. QED
  BY <1>1, <1>2, <1>3, <1>4, <1>5 DEF CleanupStep

LEMMA SuspendType ==
    ASSUME TypeOK, NEW t \in Tickets, NEW at \in Points, Suspend(t, at)
    PROVE  /\ queue' \in [Tickets -> Seq(Jobs)]
           /\ pc' \in [Tickets -> Points]
           /\ ticking' \subseteq Ticks
BY DEF TypeOK, Suspend

\* Appending the jobs of a request or a move.
LEMMA QueueType ==
    ASSUME TypeOK, NEW t \in Tickets, NEW more \in Seq(Jobs)
    PROVE  [queue EXCEPT ![t] = @ \o more] \in [Tickets -> Seq(Jobs)]
<1>1. queue[t] \o more \in Seq(Jobs)
  BY DEF TypeOK
<1>. QED
  BY <1>1 DEF TypeOK

\* The jobs that begin, and the workspace step.
LEMMA BeginType ==
    ASSUME TypeOK, NEW t \in Tickets,
           \/ BeginStart(t) \/ BeginEnsure(t) \/ BeginSend(t)
           \/ BeginStop(t) \/ BeginHalt(t) \/ BeginFinalize(t)
    PROVE  TypeOK'
<1>0. row[t] \in Rows /\ {"workspace", "reply", "stopGoal", "stop", "cleanup"} \subseteq Points
  BY DEF TypeOK, Points
<1>1. CASE BeginStart(t)
  <2>1. queue[t] # <<>>
    BY <1>1 DEF BeginStart, Holds
  <2>2. CASE Preflight(t)
    BY <1>0, <1>1, <2>2, SuspendType DEF BeginStart, TypeOK
  <2>3. CASE ~Preflight(t)
    BY <1>0, <1>1, <2>1, <2>3, RejectType DEF BeginStart, TypeOK
  <2>. QED
    BY <2>2, <2>3
<1>2. CASE BeginEnsure(t)
  BY <1>0, <1>2, SuspendType DEF BeginEnsure, TypeOK
<1>3. CASE BeginSend(t)
  <2>1. queue[t] # <<>>
    BY <1>3 DEF BeginSend, Holds
  <2>2. CASE Suspend(t, "reply") /\ UNCHANGED row
    BY <1>0, <1>3, <2>2, SuspendType DEF BeginSend, TypeOK
  <2>3. CASE Suspend(t, "workspace") /\ UNCHANGED row
    BY <1>0, <1>3, <2>3, SuspendType DEF BeginSend, TypeOK
  <2>4. CASE Reject(t, row[t])
    BY <1>0, <1>3, <2>1, <2>4, RejectType DEF BeginSend, TypeOK
  <2>. QED
    BY <1>3, <2>2, <2>3, <2>4 DEF BeginSend
<1>4. CASE BeginStop(t)
  <2>1. queue[t] # <<>>
    BY <1>4 DEF BeginStop, Holds
  <2>2. row' \in [Tickets -> Rows]
    BY <1>4 DEF BeginStop, TypeOK, Rows
  <2>3. /\ queue' \in [Tickets -> Seq(Jobs)] /\ pc' \in [Tickets -> Points]
        /\ ticking' \subseteq Ticks
    BY <1>0, <1>4, <2>1, SuspendType, FinishType DEF BeginStop
  <2>. QED
    BY <1>4, <2>2, <2>3 DEF BeginStop, TypeOK
<1>5. CASE BeginHalt(t)
  BY <1>0, <1>5, SuspendType DEF BeginHalt, TypeOK
<1>6. CASE BeginFinalize(t)
  <2>1. queue[t] # <<>>
    BY <1>6 DEF BeginFinalize, Holds
  <2>2. row' \in [Tickets -> Rows] /\ lane' \in [Lanes -> [Tickets -> Cleanups]]
    BY <1>0, <1>6, CleanupTypes, SetLaneType DEF BeginFinalize, TypeOK, Lanes
  <2>3. /\ queue' \in [Tickets -> Seq(Jobs)] /\ pc' \in [Tickets -> Points]
        /\ ticking' \subseteq Ticks
    BY <1>0, <1>6, <2>1, SuspendType, FinishType DEF BeginFinalize
  <2>. QED
    BY <1>6, <2>2, <2>3 DEF BeginFinalize, TypeOK
<1>. QED
  BY <1>1, <1>2, <1>3, <1>4, <1>5, <1>6

LEMMA EnsureColumnType ==
    ASSUME TypeOK, NEW t \in Tickets, queue[t] # <<>>, NEW r \in Rows, EnsureColumn(t, r)
    PROVE  /\ row' \in [Tickets -> Rows]
           /\ phase' \in [Tickets -> Phases]
           /\ goalReqs' \in [Tickets -> 0..MaxGoalReqs]
           /\ lane' \in [Lanes -> [Tickets -> Cleanups]]
           /\ queue' \in [Tickets -> Seq(Jobs)]
           /\ pc' \in [Tickets -> Points]
           /\ ticking' \subseteq Ticks
<1>1. CASE Head(queue[t]).kind = "workspace"
  BY <1>1, FinishType DEF EnsureColumn, TypeOK
<1>2. CASE Head(queue[t]).kind # "workspace" /\ machines[t]
  BY <1>2, SuspendType DEF EnsureColumn, TypeOK, Points
<1>3. CASE Head(queue[t]).kind # "workspace" /\ ~machines[t]
  <2>. DEFINE old == [i \in DOMAIN queue[t] |-> [queue[t][i] EXCEPT !.live = FALSE]]
              cell == [lane["free"][t] EXCEPT !.cur = FALSE]
  <2>1. row' \in [Tickets -> Rows]
    <3>1. [r EXCEPT !.phase = "provisioning"] \in Rows
      BY DEF Rows, Phases
    <3>. QED
      BY <1>3, <3>1 DEF EnsureColumn, TypeOK
  <2>2. phase' \in [Tickets -> Phases] /\ goalReqs' \in [Tickets -> 0..MaxGoalReqs]
    <3>1. "provisioning" \in Phases /\ 0 \in 0..MaxGoalReqs
      BY BoundAssumption DEF Phases
    <3>. QED
      BY <1>3, <3>1 DEF EnsureColumn, TypeOK
  <2>3. lane' \in [Lanes -> [Tickets -> Cleanups]]
    <3>1. lane["free"][t] \in Cleanups
      BY DEF TypeOK, Lanes
    <3>2. cell \in Cleanups
      BY <3>1 DEF Cleanups
    <3>3. lane' = [lane EXCEPT !["free"][t] = cell]
      BY <1>3 DEF EnsureColumn, TypeOK, Lanes, Cleanups
    <3>. HIDE DEF cell
    <3>. QED
      BY <3>2, <3>3 DEF TypeOK
  <2>4. queue' \in [Tickets -> Seq(Jobs)]
    <3>1. queue[t] \in Seq(Jobs)
      BY DEF TypeOK
    <3>2. ASSUME NEW i \in DOMAIN queue[t]
          PROVE  [queue[t][i] EXCEPT !.live = FALSE] \in Jobs
      <4>1. queue[t][i] \in Jobs
        BY <3>1
      <4>. QED
        BY <4>1 DEF Jobs
    <3>3. old \in Seq(Jobs)
      BY <3>1, <3>2
    <3>4. queue' = [queue EXCEPT ![t] = old]
      BY <1>3 DEF EnsureColumn, TypeOK
    <3>. HIDE DEF old
    <3>. QED
      BY <3>3, <3>4 DEF TypeOK
  <2>. QED
    BY <1>3, <2>1, <2>2, <2>3, <2>4 DEF EnsureColumn, TypeOK, Points
<1>. QED
  BY <1>1, <1>2, <1>3

LEMMA ResolveWorkspaceType ==
    ASSUME TypeOK, NEW t \in Tickets, ResolveWorkspace(t)
    PROVE  TypeOK'
<1>0. row[t] \in Rows /\ queue[t] # <<>>
  BY DEF TypeOK, ResolveWorkspace, Holds
<1>1. CASE WorktreeAction(t) # "create" /\ EnsureColumn(t, row[t]) /\ UNCHANGED disk
  BY <1>0, <1>1, EnsureColumnType DEF ResolveWorkspace, TypeOK
<1>2. CASE \E w \in WorktreeIds :
             /\ disk' = [disk EXCEPT ![t][w] = "clean"]
             /\ EnsureColumn(t, [row[t] EXCEPT !.worktree = w])
  <2>1. PICK w \in WorktreeIds :
             /\ disk' = [disk EXCEPT ![t][w] = "clean"]
             /\ EnsureColumn(t, [row[t] EXCEPT !.worktree = w])
    BY <1>2
  <2>2. [row[t] EXCEPT !.worktree = w] \in Rows
    <3>1. w \in 0..MaxWorktrees
      BY BoundAssumption DEF WorktreeIds
    <3>. QED
      BY <1>0, <3>1 DEF Rows
  <2>3. disk' \in [Tickets -> [WorktreeIds -> {"absent", "clean", "dirty"}]]
    BY <2>1 DEF TypeOK
  <2>. QED
    BY <1>0, <2>1, <2>2, <2>3, EnsureColumnType DEF ResolveWorkspace, TypeOK
<1>3. CASE Reject(t, row[t]) /\ UNCHANGED <<disk, phase, goalReqs, lane>>
  BY <1>0, <1>3, RejectType DEF ResolveWorkspace, TypeOK
<1>. QED
  BY <1>1, <1>2, <1>3 DEF ResolveWorkspace

\* Setting a phase on both sides keeps the types.
LEMMA SetPhaseType ==
    ASSUME TypeOK, NEW t \in Tickets, NEW p \in Phases, SetPhase(t, p)
    PROVE  row' \in [Tickets -> Rows] /\ phase' \in [Tickets -> Phases]
<1>1. [row[t] EXCEPT !.phase = p] \in Rows
  BY DEF TypeOK, Rows
<1>. QED
  BY <1>1 DEF TypeOK, SetPhase

LEMMA StartedType ==
    ASSUME NEW p \in Phases
    PROVE  Registered(p) \in Phases /\ Started(p) \in Phases
BY DEF Registered, Started, Transition, Phases

LEMMA AnswerType ==
    ASSUME TypeOK, NEW t \in Tickets,
           \/ ColumnAck(t) \/ ColumnFail(t) \/ MessageDone(t)
           \/ StopGoalDone(t) \/ ResetStopped(t) \/ TerminalStopped(t)
    PROVE  TypeOK'
<1>0. /\ row[t] \in Rows /\ phase[t] \in Phases /\ {"reply", "cleanup"} \subseteq Points
      /\ {"idle", "error"} \subseteq Phases /\ Stopped(phase[t]) \in Phases
      /\ "locked" \in Lanes /\ queue[t] # <<>>
  BY DEF TypeOK, Points, Phases, Stopped, Lanes, Holds, ColumnAck, ColumnFail, MessageDone,
         StopGoalDone, ResetStopped, TerminalStopped
<1>1. CASE ColumnAck(t)
  <2>1. row' \in [Tickets -> Rows] /\ phase' \in [Tickets -> Phases]
    <3>1. CASE Head(queue[t]).kind = "start"
      <4>1. [row[t] EXCEPT !.phase = Started(phase[t]), !.autopilot = TRUE] \in Rows
        BY <1>0, StartedType DEF Rows
      <4>2. row' = [row EXCEPT ![t] =
                      [row[t] EXCEPT !.phase = Started(phase[t]), !.autopilot = TRUE]]
        BY <1>1, <3>1 DEF ColumnAck, TypeOK, Rows
      <4>. QED
        BY <1>0, <1>1, <3>1, <4>1, <4>2, StartedType DEF ColumnAck, TypeOK
    <3>2. CASE Head(queue[t]).kind # "start"
      BY <1>0, <1>1, <3>2, StartedType, SetPhaseType DEF ColumnAck
    <3>. QED
      BY <3>1, <3>2
  <2>2. goalReqs' \in [Tickets -> 0..MaxGoalReqs]
    <3>1. CASE Head(queue[t]).kind = "start"
      <4>1. goalReqs[t] + 1 \in 0..MaxGoalReqs
        BY <1>1, <3>1, BoundAssumption DEF ColumnAck, TypeOK
      <4>2. goalReqs' = [goalReqs EXCEPT ![t] = goalReqs[t] + 1]
        BY <1>1, <3>1 DEF ColumnAck
      <4>. QED
        BY <4>1, <4>2 DEF TypeOK
    <3>2. CASE Head(queue[t]).kind # "start"
      BY <1>1, <3>2 DEF ColumnAck, TypeOK
    <3>. QED
      BY <3>1, <3>2
  <2>3. /\ queue' \in [Tickets -> Seq(Jobs)] /\ pc' \in [Tickets -> Points]
        /\ ticking' \subseteq Ticks
    BY <1>0, <1>1, SuspendType, FinishType DEF ColumnAck
  <2>. QED
    BY <1>1, <2>1, <2>2, <2>3 DEF ColumnAck, TypeOK
<1>2. CASE ColumnFail(t)
  <2>1. [row[t] EXCEPT !.phase = "error"] \in Rows
    BY <1>0 DEF Rows
  <2>. QED
    BY <1>0, <1>2, <2>1, RejectType DEF ColumnFail, TypeOK
<1>3. CASE MessageDone(t)
  BY <1>0, <1>3, FinishType DEF MessageDone, TypeOK
<1>4. CASE StopGoalDone(t)
  BY <1>0, <1>4, SetPhaseType, FinishType DEF StopGoalDone, TypeOK
<1>5. CASE ResetStopped(t)
  <2>1. row' \in [Tickets -> Rows] /\ phase' \in [Tickets -> Phases]
    BY <1>0, <1>5, SetPhaseType DEF ResetStopped, TypeOK
  <2>. QED
    BY <1>0, <1>5, <2>1, SuspendType DEF ResetStopped, TypeOK
<1>6. CASE TerminalStopped(t)
  <2>. DEFINE live == Head(queue[t]).live
              p == IF live THEN Stopped(phase[t]) ELSE phase[t]
              r == IF live THEN [row[t] EXCEPT !.phase = p] ELSE row[t]
  <2>1. p \in Phases /\ r \in Rows
    BY <1>0 DEF Rows
  <2>2. phase' \in [Tickets -> Phases]
    BY <1>6, <2>1 DEF TerminalStopped, TypeOK
  <2>. HIDE DEF p, r
  <2>3. CleanupLane(t, r) \in Cleanups /\ CleanupRow(t, r) \in Rows
    BY <2>1, CleanupTypes
  <2>4. /\ row' = [row EXCEPT ![t] = CleanupRow(t, r)]
        /\ SetLane("locked", t, CleanupLane(t, r))
        /\ IF CleanupAwaits(t, r) THEN Suspend(t, "cleanup") ELSE Finish(t)
    BY <1>6 DEF TerminalStopped, p, r
  <2>5. row' \in [Tickets -> Rows] /\ lane' \in [Lanes -> [Tickets -> Cleanups]]
    BY <1>0, <2>3, <2>4, SetLaneType DEF TypeOK
  <2>6. /\ queue' \in [Tickets -> Seq(Jobs)] /\ pc' \in [Tickets -> Points]
        /\ ticking' \subseteq Ticks
    BY <1>0, <2>4, SuspendType, FinishType
  <2>. QED
    BY <1>6, <2>2, <2>5, <2>6 DEF TerminalStopped, TypeOK
<1>. QED
  BY <1>1, <1>2, <1>3, <1>4, <1>5, <1>6

LEMMA RequestType ==
    ASSUME TypeOK, NEW t \in Tickets,
           \/ \E kind \in Requests : Request(t, kind)
           \/ \E c \in Columns : MoveTicketToColumn(t, c)
           \/ \E k \in Ticks : AutoDispatchTick(k, t)
    PROVE  TypeOK'
<1>0. row[t] \in Rows
  BY DEF TypeOK
<1>1. ASSUME NEW kind \in Requests, Request(t, kind)
      PROVE  TypeOK'
  <2>1. Job(kind, NoTick) \in Jobs
    BY BoundAssumption DEF Job, Jobs
  <2>2. queue' \in [Tickets -> Seq(Jobs)]
    BY <1>1, <2>1 DEF Request, TypeOK
  <2>. QED
    BY <1>1, <2>2 DEF Request, TypeOK
<1>2. ASSUME NEW c \in Columns, MoveTicketToColumn(t, c)
      PROVE  TypeOK'
  <2>. DEFINE r == MovedRow(row[t], c)
  <2>1. r \in Rows
    BY <1>0, MovedRowType
  <2>2. queue' \in [Tickets -> Seq(Jobs)]
    BY <1>2, MoveJobsType, QueueType DEF MoveTicketToColumn
  <2>. HIDE DEF r
  <2>3. CleanupLane(t, r) \in Cleanups /\ CleanupRow(t, r) \in Rows
    BY <2>1, CleanupTypes
  <2>4. \/ /\ SetLane("free", t, CleanupLane(t, r))
           /\ row' = [row EXCEPT ![t] = CleanupRow(t, r)]
        \/ UNCHANGED lane /\ row' = [row EXCEPT ![t] = r]
    BY <1>2 DEF MoveTicketToColumn, r
  <2>5. row' \in [Tickets -> Rows] /\ lane' \in [Lanes -> [Tickets -> Cleanups]]
    <3>1. "free" \in Lanes
      BY DEF Lanes
    <3>. QED
      BY <2>1, <2>3, <2>4, <3>1, SetLaneType DEF TypeOK
  <2>. QED
    BY <1>2, <2>2, <2>5 DEF MoveTicketToColumn, TypeOK
<1>3. ASSUME NEW k \in Ticks, AutoDispatchTick(k, t)
      PROVE  TypeOK'
  <2>. DEFINE moved == queue[t] \o MoveJobs(t, DispatchColumn)
  <2>1. Job("start", k) \in Jobs
    BY DEF Job, Jobs, Kinds
  <2>2. moved \in Seq(Jobs)
    BY MoveJobsType, ColumnAssumption DEF TypeOK
  <2>. HIDE DEF moved
  <2>3. moved \o <<Job("start", k)>> \in Seq(Jobs)
    BY <2>1, <2>2
  <2>4. queue' = [queue EXCEPT ![t] = moved \o <<Job("start", k)>>]
    BY <1>3 DEF AutoDispatchTick, TypeOK, moved
  <2>5. queue' \in [Tickets -> Seq(Jobs)]
    BY <2>3, <2>4 DEF TypeOK
  <2>6. row' \in [Tickets -> Rows]
    BY <1>0, <1>3, MovedRowType, ColumnAssumption DEF AutoDispatchTick, TypeOK
  <2>. QED
    BY <1>3, <2>5, <2>6 DEF AutoDispatchTick, TypeOK
<1>. QED
  BY <1>1, <1>2, <1>3

LEMMA ColumnType ==
    ASSUME TypeOK, NEW t \in Tickets, Column(t)
    PROVE  TypeOK'
<1>0. phase[t] \in Phases /\ {"idle", "error", "running", "completed"} \subseteq Phases
  BY DEF TypeOK, Phases
<1>1. ASSUME NEW p \in Phases, Event(t, p)
      PROVE  TypeOK'
  BY <1>1, SetPhaseType DEF Event, TypeOK
<1>2. CASE \/ RunStarted(t) \/ Disconnected(t) \/ GoalActive(t)
           \/ GoalCompleted(t) \/ GoalCancelled(t) \/ GoalTornDown(t)
  BY <1>0, <1>1, <1>2, TransitionType DEF RunStarted, Disconnected, GoalActive,
     GoalCompleted, GoalCancelled, GoalTornDown
<1>3. CASE GoalStartAnswered(t)
  BY <1>3, BoundAssumption DEF GoalStartAnswered, TypeOK
<1>4. CASE GoalStartRejected(t)
  <2>1. row' \in [Tickets -> Rows] /\ phase' \in [Tickets -> Phases]
    BY <1>0, <1>4, SetPhaseType DEF GoalStartRejected, TypeOK
  <2>2. goalReqs' \in [Tickets -> 0..MaxGoalReqs]
    BY <1>4, BoundAssumption DEF GoalStartRejected, TypeOK
  <2>. QED
    BY <1>4, <2>1, <2>2 DEF GoalStartRejected, TypeOK
<1>. QED
  BY <1>2, <1>3, <1>4 DEF Column

LEMMA OtherType ==
    ASSUME TypeOK,
           \/ \E t \in Tickets, w \in WorktreeIds : Edit(t, w) \/ Commit(t, w)
           \/ Restart
    PROVE  TypeOK'
<1>1. ASSUME NEW t \in Tickets, NEW w \in WorktreeIds, Edit(t, w) \/ Commit(t, w)
      PROVE  TypeOK'
  <2>. DEFINE contents == {"absent", "clean", "dirty"}
  <2>1. PICK d \in contents : disk' = [disk EXCEPT ![t][w] = d]
    BY <1>1 DEF Edit, Commit
  <2>2. disk' \in [Tickets -> [WorktreeIds -> contents]]
    BY <2>1 DEF TypeOK
  <2>. QED
    BY <1>1, <2>2 DEF Edit, Commit, TypeOK
<1>2. CASE Restart
  <2>1. 0 \in 0..MaxGoalReqs /\ Off \in Cleanups /\ "idle" \in Phases
    BY BoundAssumption DEF Off, Cleanups, Phases
  <2>2. ASSUME NEW t \in Tickets
        PROVE  /\ [row[t] EXCEPT !.phase = IF @ = "completed" THEN @ ELSE "idle"] \in Rows
               /\ Snapshot(row[t], "remove") \in Cleanups
    <3>1. row[t] \in Rows
      BY DEF TypeOK
    <3>. QED
      BY <2>1, <3>1, SnapshotType DEF Rows
  <2>3. row' \in [Tickets -> Rows]
    BY <1>2, <2>2 DEF Restart
  <2>4. lane' \in [Lanes -> [Tickets -> Cleanups]]
    BY <1>2, <2>1, <2>2 DEF Restart
  <2>5. phase' \in [Tickets -> Phases] /\ goalReqs' \in [Tickets -> 0..MaxGoalReqs]
    BY <1>2, <2>1 DEF Restart
  <2>6. queue' \in [Tickets -> Seq(Jobs)] /\ pc' \in [Tickets -> Points]
    BY <1>2 DEF Restart, Points
  <2>. QED
    BY <1>2, <2>3, <2>4, <2>5, <2>6 DEF Restart, TypeOK
<1>. QED
  BY <1>1, <1>2

LEMMA InitType == Init => TypeOK
<1>. SUFFICES ASSUME Init PROVE TypeOK
  OBVIOUS
<1>1. NewRow \in Rows
  BY ColumnAssumption, BoundAssumption DEF NewRow, Rows, Phases
<1>2. 0 \in 0..MaxGoalReqs /\ Off \in Cleanups /\ "idle" \in Phases
  BY BoundAssumption DEF Off, Cleanups, Phases
<1>. QED
  BY <1>1, <1>2 DEF Init, TypeOK, Points

LEMMA NextType ==
    ASSUME TypeOK, LockHeld, Next
    PROVE  TypeOK'
<1>1. ASSUME NEW t \in Tickets, CleanupStep("locked", t)
      PROVE  TypeOK'
  <2>1. "locked" \in Lanes /\ (lane["locked"][t].pc # "off" => queue[t] # <<>>)
    BY DEF Lanes, LockHeld
  <2>. QED
    BY <1>1, <2>1, CleanupStepType
<1>2. ASSUME NEW t \in Tickets, Serve(t)
      PROVE  TypeOK'
  BY <1>1, <1>2, BeginType, ResolveWorkspaceType, AnswerType DEF Serve
<1>3. ASSUME NEW t \in Tickets, User(t)
      PROVE  TypeOK'
  BY <1>3, RequestType, OtherType DEF User
<1>4. ASSUME NEW t \in Tickets, CleanupStep("free", t) \/ CleanupStep("boot", t)
      PROVE  TypeOK'
  <2>1. {"free", "boot"} \subseteq Lanes
    BY DEF Lanes
  <2>. QED
    BY <1>4, <2>1, CleanupStepType
<1>5. ASSUME NEW t \in Tickets, NEW k \in Ticks, AutoDispatchTick(k, t)
      PROVE  TypeOK'
  BY <1>5, RequestType
<1>. QED
  BY <1>2, <1>3, <1>4, <1>5, ColumnType, OtherType DEF Next, Running

---------------------------------------------------------------------------
(* What the steps of a job and of a cleanup do to the queue, pc and lanes *)

\* A step of t's lock leaves the other tickets' locks alone.
LEMMA FinishEffect ==
    ASSUME TypeOK, NEW t \in Tickets, Finish(t), NEW u \in Tickets
    PROVE  /\ pc'[u] = IF u = t THEN "begin" ELSE pc[u]
           /\ u # t => queue'[u] = queue[u]
BY DEF Finish, TypeOK

LEMMA SuspendEffect ==
    ASSUME TypeOK, NEW t \in Tickets, NEW at, Suspend(t, at), NEW u \in Tickets
    PROVE  /\ pc'[u] = IF u = t THEN at ELSE pc[u]
           /\ queue'[u] = queue[u]
BY DEF Suspend, TypeOK

\* A rejection moves the row to another column at most: its phase is r's.
LEMMA RejectEffect ==
    ASSUME TypeOK, NEW t \in Tickets, NEW r \in Rows, Reject(t, r), NEW u \in Tickets
    PROVE  /\ pc'[u] = IF u = t THEN "begin" ELSE pc[u]
           /\ u # t => queue'[u] = queue[u]
           /\ row'[u].phase = IF u = t THEN r.phase ELSE row[u].phase
<1>1. MovedRow(r, FirstColumn).phase = r.phase
  BY DEF MovedRow, Rows
<1>. QED
  BY <1>1 DEF Reject, TypeOK

LEMMA LaneEndsEffect ==
    ASSUME TypeOK, NEW l \in Lanes, NEW t \in Tickets, LaneEnds(l, t), NEW u \in Tickets
    PROVE  /\ pc'[u] = IF l = "locked" /\ u = t THEN "begin" ELSE pc[u]
           /\ u # t => queue'[u] = queue[u]
           /\ l # "locked" => queue'[u] = queue[u]
<1>1. CASE l = "locked"
  BY <1>1, FinishEffect DEF LaneEnds
<1>2. CASE l # "locked"
  BY <1>2 DEF LaneEnds
<1>. QED
  BY <1>1, <1>2

LEMMA SetLaneEffect ==
    ASSUME TypeOK, NEW l \in Lanes, NEW t \in Tickets, NEW s, SetLane(l, t, s),
           NEW m \in Lanes, NEW u \in Tickets
    PROVE  lane'[m][u] = IF m = l /\ u = t THEN s ELSE lane[m][u]
BY DEF SetLane, TypeOK

\* ensureColumn keeps the job at the head and mirrors a state it creates.
LEMMA EnsureColumnEffect ==
    ASSUME TypeOK, NEW t \in Tickets, queue[t] # <<>>, NEW r \in Rows, r.phase = row[t].phase,
           EnsureColumn(t, r), NEW u \in Tickets
    PROVE  /\ u # t => pc'[u] = pc[u] /\ queue'[u] = queue[u] /\ phase'[u] = phase[u]
                       /\ row'[u] = row[u]
           /\ \A l \in Lanes : lane'[l][u].pc = lane[l][u].pc
           /\ \A l \in {"locked", "boot"} : lane'[l][u] = lane[l][u]
           /\ pc'[t] # "begin" => queue'[t] # <<>>
           /\ \/ /\ pc'[t] = "begin" \/ (machines[t] /\ pc'[t] = "columnOld")
                 /\ phase'[t] = phase[t] /\ row'[t].phase = row[t].phase
              \/ pc'[t] = "columnNew" /\ phase'[t] = "provisioning" /\ row'[t].phase = "provisioning"
<1>0. {"locked", "boot", "free"} \subseteq Lanes /\ row \in [Tickets -> Rows]
  BY DEF Lanes, TypeOK
<1>1. CASE Head(queue[t]).kind = "workspace"
  <2>1. UNCHANGED <<phase, lane>> /\ Finish(t) /\ row' = [row EXCEPT ![t] = r]
    BY <1>1 DEF EnsureColumn
  <2>. QED
    BY <1>0, <2>1, FinishEffect
<1>2. CASE Head(queue[t]).kind # "workspace" /\ machines[t]
  <2>1. UNCHANGED <<phase, lane>> /\ Suspend(t, "columnOld") /\ row' = [row EXCEPT ![t] = r]
    BY <1>2 DEF EnsureColumn
  <2>. QED
    BY <1>0, <1>2, <2>1, SuspendEffect
<1>3. CASE Head(queue[t]).kind # "workspace" /\ ~machines[t]
  <2>. DEFINE old == [i \in DOMAIN queue[t] |-> [queue[t][i] EXCEPT !.live = FALSE]]
  <2>1. /\ row' = [row EXCEPT ![t] = [r EXCEPT !.phase = "provisioning"]]
        /\ phase' = [phase EXCEPT ![t] = "provisioning"]
        /\ lane' = [lane EXCEPT !["free"][t].cur = FALSE]
        /\ queue' = [queue EXCEPT ![t] = old]
        /\ pc' = [pc EXCEPT ![t] = "columnNew"]
    BY <1>3 DEF EnsureColumn
  <2>2. old # <<>>
    <3>1. queue[t] \in Seq(Jobs) /\ 1 \in DOMAIN queue[t]
      BY DEF TypeOK
    <3>2. DOMAIN old = DOMAIN queue[t]
      OBVIOUS
    <3>3. 1 \in DOMAIN old
      BY <3>1, <3>2
    <3>. HIDE DEF old
    <3>. QED
      BY <3>3
  <2>3. [r EXCEPT !.phase = "provisioning"].phase = "provisioning"
    BY DEF Rows
  <2>4. lane \in [Lanes -> [Tickets -> Cleanups]]
    BY DEF TypeOK
  <2>5. /\ \A l \in {"locked", "boot"} : lane'[l][u] = lane[l][u]
        /\ lane'["free"][u].pc = lane["free"][u].pc
    BY <1>0, <2>1, <2>4 DEF Cleanups
  <2>6. \A l \in Lanes : lane'[l][u].pc = lane[l][u].pc
    BY <2>5 DEF Lanes
  <2>. HIDE DEF old
  <2>. QED
    BY <1>0, <2>1, <2>2, <2>3, <2>5, <2>6 DEF TypeOK
<1>. QED
  BY <1>1, <1>2, <1>3

---------------------------------------------------------------------------
(* The parts of the inductive invariant *)

\* A cleanup step keeps its lane until the lane, and the job it belongs to, end.
LEMMA CleanupLockHeld ==
    ASSUME TypeOK, LockHeld, NEW l \in Lanes, NEW t \in Tickets, CleanupStep(l, t)
    PROVE  LockHeld'
<1>0. "locked" \in Lanes /\ lane[l][t].pc # "off"
  BY DEF Lanes, CleanupStep, CheckDirty, CheckClean, Dispose, RemoveWorktree, RecordRemoval
<1>1. ASSUME NEW s, SetLane(l, t, s), UNCHANGED <<queue, pc>>
      PROVE  LockHeld'
  BY <1>0, <1>1, SetLaneEffect DEF LockHeld
<1>2. ASSUME SetLane(l, t, Off), LaneEnds(l, t)
      PROVE  LockHeld'
  BY <1>0, <1>2, SetLaneEffect, LaneEndsEffect DEF LockHeld, Off
<1>3. CASE Dispose(l, t)
  BY <1>1, <1>2, <1>3 DEF Dispose
<1>. QED
  BY <1>1, <1>2, <1>3 DEF CleanupStep, CheckDirty, CheckClean, RemoveWorktree, RecordRemoval

\* Only the two jobs that clean up suspend with the locked lane on.
LEMMA ServeLockHeld ==
    ASSUME TypeOK, LockHeld, NEW t \in Tickets, Serve(t)
    PROVE  LockHeld'
<1>0. "locked" \in Lanes /\ "free" \in Lanes /\ row[t] \in Rows /\ phase[t] \in Phases
  BY DEF Lanes, TypeOK
<1>1. ASSUME NEW at \in Points, at # "cleanup", pc[t] # "cleanup", queue[t] # <<>>,
             Suspend(t, at), UNCHANGED lane
      PROVE  LockHeld'
  BY <1>0, <1>1, SuspendEffect DEF LockHeld
<1>2. ASSUME pc[t] # "cleanup", Finish(t), UNCHANGED lane
      PROVE  LockHeld'
  BY <1>0, <1>2, FinishEffect DEF LockHeld
<1>3. ASSUME pc[t] # "cleanup", NEW r \in Rows, Reject(t, r), UNCHANGED lane
      PROVE  LockHeld'
  BY <1>0, <1>3, RejectEffect DEF LockHeld
<1>4. ASSUME NEW r \in Rows, queue[t] # <<>>, SetLane("locked", t, CleanupLane(t, r)),
             IF CleanupAwaits(t, r) THEN Suspend(t, "cleanup") ELSE Finish(t)
      PROVE  LockHeld'
  <2>1. CASE CleanupAwaits(t, r)
    BY <1>0, <1>4, <2>1, SetLaneEffect, SuspendEffect DEF LockHeld
  <2>2. CASE ~CleanupAwaits(t, r)
    <3>1. CleanupLane(t, r).pc = "off"
      BY <2>2 DEF CleanupAwaits, CleanupLane, Off
    <3>. QED
      BY <1>0, <1>4, <2>2, <3>1, SetLaneEffect, FinishEffect DEF LockHeld
  <2>. QED
    BY <2>1, <2>2
<1>5. ASSUME NEW r \in Rows, r.phase = row[t].phase, pc[t] # "cleanup", queue[t] # <<>>,
             EnsureColumn(t, r)
      PROVE  LockHeld'
  BY <1>0, <1>5, EnsureColumnEffect DEF LockHeld
<1>6. {"workspace", "columnOld", "columnNew", "stop", "stopGoal", "reply"} \subseteq Points
  BY DEF Points
<1>7. CASE BeginStart(t) \/ BeginEnsure(t) \/ BeginSend(t) \/ BeginStop(t) \/ BeginHalt(t)
  BY <1>0, <1>1, <1>2, <1>3, <1>6, <1>7
     DEF BeginStart, BeginEnsure, BeginSend, BeginStop, BeginHalt, Holds
<1>8. CASE BeginFinalize(t)
  BY <1>0, <1>4, <1>8 DEF BeginFinalize, Holds
<1>9. CASE ResolveWorkspace(t)
  <2>1. \A w \in WorktreeIds : /\ [row[t] EXCEPT !.worktree = w] \in Rows
                               /\ [row[t] EXCEPT !.worktree = w].phase = row[t].phase
    <3>1. \A w \in WorktreeIds : w \in 0..MaxWorktrees
      BY BoundAssumption DEF WorktreeIds
    <3>. QED
      BY <1>0, <3>1 DEF Rows
  <2>2. pc[t] # "cleanup" /\ queue[t] # <<>>
    BY <1>9 DEF ResolveWorkspace, Holds
  <2>3. CASE EnsureColumn(t, row[t])
    BY <1>0, <1>5, <2>2, <2>3
  <2>4. CASE \E w \in WorktreeIds : EnsureColumn(t, [row[t] EXCEPT !.worktree = w])
    BY <1>5, <2>1, <2>2, <2>4
  <2>5. CASE Reject(t, row[t]) /\ UNCHANGED lane
    BY <1>0, <1>3, <2>2, <2>5
  <2>. QED
    BY <1>9, <2>3, <2>4, <2>5 DEF ResolveWorkspace
<1>10. CASE ColumnAck(t) \/ MessageDone(t) \/ StopGoalDone(t) \/ ResetStopped(t)
  BY <1>0, <1>1, <1>2, <1>6, <1>10 DEF ColumnAck, MessageDone, StopGoalDone, ResetStopped, Holds
<1>11. CASE ColumnFail(t)
  <2>1. [row[t] EXCEPT !.phase = "error"] \in Rows
    BY <1>0 DEF Rows, Phases
  <2>. QED
    BY <1>3, <1>11, <2>1 DEF ColumnFail, Holds
<1>12. CASE TerminalStopped(t)
  <2>. DEFINE p == Stopped(phase[t])
  <2>1. row[t] \in Rows /\ [row[t] EXCEPT !.phase = p] \in Rows
    BY <1>0 DEF Rows, Phases, Stopped
  <2>2. \E r \in Rows : /\ SetLane("locked", t, CleanupLane(t, r))
                        /\ IF CleanupAwaits(t, r) THEN Suspend(t, "cleanup") ELSE Finish(t)
    BY <1>12, <2>1 DEF TerminalStopped
  <2>. QED
    BY <1>4, <1>12, <2>2 DEF TerminalStopped, Holds
<1>13. CASE CleanupStep("locked", t)
  BY <1>0, <1>13, CleanupLockHeld
<1>. QED
  BY <1>7, <1>8, <1>9, <1>10, <1>11, <1>12, <1>13 DEF Serve

\* Requests, moves and dispatches only lengthen queues; events touch none.
LEMMA OtherLockHeld ==
    ASSUME TypeOK, LockHeld,
           \/ \E t \in Tickets : User(t) \/ Column(t) \/ \E k \in Ticks : AutoDispatchTick(k, t)
           \/ Restart
    PROVE  LockHeld'
<1>0. "locked" \in Lanes /\ "free" \in Lanes /\ "locked" # "free"
  BY DEF Lanes
<1>1. ASSUME NEW t \in Tickets, NEW more \in Seq(Jobs), UNCHANGED pc,
             queue' = [queue EXCEPT ![t] = @ \o more],
             \A u \in Tickets : lane'["locked"][u] = lane["locked"][u]
      PROVE  LockHeld'
  <2>1. queue[t] \in Seq(Jobs)
    BY DEF TypeOK
  <2>2. queue[t] # <<>> => queue[t] \o more # <<>>
    BY <2>1
  <2>3. queue'[t] = queue[t] \o more /\ \A u \in Tickets \ {t} : queue'[u] = queue[u]
    BY <1>1 DEF TypeOK
  <2>. QED
    BY <1>1, <2>2, <2>3 DEF LockHeld
<1>2. ASSUME NEW t \in Tickets, NEW kind \in Requests, Request(t, kind)
      PROVE  LockHeld'
  <2>1. queue'[t] # <<>> /\ \A u \in Tickets \ {t} : queue'[u] = queue[u]
    BY <1>2 DEF Request, TypeOK
  <2>. QED
    BY <1>2, <2>1 DEF Request, LockHeld
<1>3. ASSUME NEW t \in Tickets, NEW c \in Columns, MoveTicketToColumn(t, c)
      PROVE  LockHeld'
  <2>1. \A u \in Tickets : lane'["locked"][u] = lane["locked"][u]
    BY <1>0, <1>3, SetLaneEffect DEF MoveTicketToColumn
  <2>. QED
    BY <1>1, <1>3, <2>1, MoveJobsType DEF MoveTicketToColumn
<1>4. ASSUME NEW t \in Tickets, NEW k \in Ticks, AutoDispatchTick(k, t)
      PROVE  LockHeld'
  <2>1. queue[t] \in Seq(Jobs) /\ MoveJobs(t, DispatchColumn) \in Seq(Jobs)
    BY MoveJobsType, ColumnAssumption DEF TypeOK
  <2>2. Job("start", k) \in Jobs
    BY DEF Job, Jobs, Kinds
  <2>. DEFINE moved == queue[t] \o MoveJobs(t, DispatchColumn)
  <2>3. moved \in Seq(Jobs)
    BY <2>1
  <2>4. queue' = [queue EXCEPT ![t] = moved \o <<Job("start", k)>>]
    BY <1>4 DEF AutoDispatchTick
  <2>. HIDE DEF moved
  <2>5. moved \o <<Job("start", k)>> # <<>>
    BY <2>2, <2>3
  <2>6. queue'[t] # <<>> /\ \A u \in Tickets \ {t} : queue'[u] = queue[u]
    BY <2>4, <2>5 DEF TypeOK
  <2>. QED
    BY <1>4, <2>6 DEF AutoDispatchTick, LockHeld
<1>5. CASE \E t \in Tickets :
              Column(t) \/ \E w \in WorktreeIds : Edit(t, w) \/ Commit(t, w)
  <2>1. UNCHANGED <<queue, pc, lane>>
    BY <1>5 DEF Column, Event, RunStarted, Disconnected, GoalActive, GoalCompleted,
       GoalCancelled, GoalTornDown, GoalStartAnswered, GoalStartRejected, Edit, Commit
  <2>. QED
    BY <2>1 DEF LockHeld
<1>6. CASE Restart
  BY <1>0, <1>6 DEF Restart, LockHeld, Off
<1>. QED
  BY <1>2, <1>3, <1>4, <1>5, <1>6 DEF User

LEMMA NextLockHeld ==
    ASSUME TypeOK, LockHeld, Next
    PROVE  LockHeld'
<1>1. {"free", "boot"} \subseteq Lanes
  BY DEF Lanes
<1>. QED
  BY <1>1, ServeLockHeld, OtherLockHeld, CleanupLockHeld DEF Next, Running

\* A phase set on both sides stays mirrored.
LEMMA SetPhaseEffect ==
    ASSUME TypeOK, NEW t \in Tickets, NEW p \in Phases, SetPhase(t, p), NEW u \in Tickets
    PROVE  /\ phase'[u] = IF u = t THEN p ELSE phase[u]
           /\ row'[u].phase = IF u = t THEN p ELSE row[u].phase
           /\ \A f \in {"column", "worktree"} : row'[u][f] = row[u][f]
<1>1. row[t] \in Rows
  BY DEF TypeOK
<1>2. /\ [row[t] EXCEPT !.phase = p].phase = p
      /\ \A f \in {"column", "worktree"} : [row[t] EXCEPT !.phase = p][f] = row[t][f]
  BY <1>1 DEF Rows
<1>. QED
  BY <1>2 DEF SetPhase, TypeOK

\* The rows a cleanup writes keep their phase.
LEMMA CleanupRowPhase ==
    ASSUME NEW t \in Tickets, NEW r \in Rows, NEW s \in Cleanups
    PROVE  ClearedRow(r, s).phase = r.phase /\ CleanupRow(t, r).phase = r.phase
BY DEF ClearedRow, CleanupRow, Rows

\* A table move from a phase in use, to one in use, stays in use.
LEMMA PhaseInUse ==
    ASSUME NEW p \in Phases \ {"connecting", "session_creating"}, NEW q \in {"running", "completed"}
    PROVE  /\ Transition(p, q) \in Phases \ {"connecting", "session_creating"}
           /\ Registered(p) \in Phases \ {"connecting", "session_creating"}
           /\ Started(p) = "running"
BY DEF Transition, Transitions, Registered, Started, Phases

\* The phase an event or an answer sets, mirrored.
LEMMA ColumnFollows ==
    ASSUME TypeOK, PhasesUsed, RowFollows, NEW t \in Tickets, Column(t)
    PROVE  PhasesUsed' /\ RowFollows'
<1>. DEFINE used == Phases \ {"connecting", "session_creating"}
<1>0. phase[t] \in used /\ {"idle", "error", "running", "completed"} \subseteq used
  BY DEF TypeOK, PhasesUsed, Phases
<1>1. ASSUME NEW p \in used, SetPhase(t, p), UNCHANGED <<machines, pc>>
      PROVE  PhasesUsed' /\ RowFollows'
  BY <1>1, SetPhaseEffect DEF PhasesUsed, RowFollows
<1>2. ASSUME NEW p \in used, Event(t, p)
      PROVE  PhasesUsed' /\ RowFollows'
  BY <1>1, <1>2 DEF Event
<1>3. Transition(phase[t], "running") \in used /\ Transition(phase[t], "completed") \in used
  BY <1>0, PhaseInUse
<1>4. CASE \/ RunStarted(t) \/ Disconnected(t) \/ GoalActive(t)
           \/ GoalCompleted(t) \/ GoalCancelled(t) \/ GoalTornDown(t)
  BY <1>0, <1>2, <1>3, <1>4 DEF RunStarted, Disconnected, GoalActive, GoalCompleted,
     GoalCancelled, GoalTornDown
<1>5. CASE GoalStartAnswered(t)
  BY <1>5 DEF GoalStartAnswered, PhasesUsed, RowFollows
<1>6. CASE GoalStartRejected(t)
  <2>1. CASE IsActive(phase[t])
    BY <1>0, <1>1, <1>6, <2>1 DEF GoalStartRejected
  <2>2. CASE ~IsActive(phase[t])
    BY <1>6, <2>2 DEF GoalStartRejected, PhasesUsed, RowFollows
  <2>. QED
    BY <2>1, <2>2
<1>. QED
  BY <1>4, <1>5, <1>6 DEF Column

LEMMA CleanupFollows ==
    ASSUME TypeOK, PhasesUsed, RowFollows, NEW l \in Lanes, NEW t \in Tickets, CleanupStep(l, t)
    PROVE  PhasesUsed' /\ RowFollows'
<1>0. row[t] \in Rows /\ lane[l][t] \in Cleanups /\ "idle" \in Phases
  BY DEF TypeOK, Phases
<1>1. \A u \in Tickets : pc'[u] = pc[u] \/ pc'[u] = "begin"
  BY LaneEndsEffect DEF CleanupStep, CheckDirty, CheckClean, Dispose, RemoveWorktree, RecordRemoval
<1>2. CASE ~Dispose(l, t)
  <2>1. UNCHANGED <<machines, phase>>
    BY <1>2 DEF CleanupStep, CheckDirty, CheckClean, RemoveWorktree, RecordRemoval
  <2>2. \A u \in Tickets : row'[u].phase = row[u].phase
    <3>1. CASE UNCHANGED row
      BY <3>1
    <3>2. CASE \E r \in Rows : r.phase = row[t].phase /\ row' = [row EXCEPT ![t] = r]
      BY <3>2 DEF TypeOK
    <3>3. CASE CheckDirty(l, t)
      <4>. DEFINE r == [row[t] EXCEPT !.pending = @ \/ ~lane[l][t].pending]
      <4>1. r \in Rows /\ r.phase = row[t].phase
        BY <1>0 DEF Rows
      <4>2. row' = [row EXCEPT ![t] = r]
        BY <3>3 DEF CheckDirty
      <4>. HIDE DEF r
      <4>. QED
        BY <3>2, <4>1, <4>2
    <3>4. CASE RecordRemoval(l, t)
      <4>. DEFINE bare == [row[t] EXCEPT !.worktree = 0]
                  cleared == [row[t] EXCEPT !.worktree = 0, !.pending = FALSE, !.autopilot = FALSE]
      <4>1. 0 \in 0..MaxWorktrees
        BY BoundAssumption
      <4>2. /\ bare \in Rows /\ bare.phase = row[t].phase
            /\ cleared \in Rows /\ cleared.phase = row[t].phase
        BY <1>0, <4>1 DEF Rows
      <4>3. row' = [row EXCEPT ![t] = IF l = "boot" THEN bare ELSE cleared]
        BY <3>4 DEF RecordRemoval
      <4>. HIDE DEF bare, cleared
      <4>. QED
        BY <3>2, <4>2, <4>3
    <3>. QED
      BY <1>2, <3>1, <3>3, <3>4 DEF CleanupStep, CheckClean, RemoveWorktree
  <2>. QED
    BY <1>1, <2>1, <2>2 DEF PhasesUsed, RowFollows
<1>3. CASE Dispose(l, t)
  <2>. DEFINE s == lane[l][t]
              p == DisposedPhase(t, s)
              r == IF s.cur THEN [row[t] EXCEPT !.phase = p] ELSE row[t]
  <2>1. p \in Phases /\ p \in {"idle", phase[t]}
    BY <1>0 DEF DisposedPhase, TypeOK
  <2>2. r \in Rows /\ r.phase = IF s.cur THEN p ELSE row[t].phase
    BY <1>0, <2>1 DEF Rows
  <2>3. phase' = [phase EXCEPT ![t] = p] /\ machines' = [machines EXCEPT ![t] = FALSE]
    BY <1>3 DEF Dispose
  <2>4. row' = [row EXCEPT ![t] = r] \/ row' = [row EXCEPT ![t] = ClearedRow(r, s)]
    BY <1>3 DEF Dispose
  <2>5. p = phase[t] \/ s.cur
    BY DEF DisposedPhase
  <2>. HIDE DEF p, r
  <2>6. ClearedRow(r, s).phase = r.phase
    BY <1>0, <2>2, CleanupRowPhase
  <2>. HIDE DEF s
  <2>7. \A u \in Tickets : row'[u].phase = IF u = t THEN r.phase ELSE row[u].phase
    BY <2>4, <2>6 DEF TypeOK
  <2>8. \A u \in Tickets : phase'[u] = IF u = t THEN p ELSE phase[u]
    BY <2>3 DEF TypeOK
  <2>9. \A u \in Tickets : machines'[u] => machines[u]
    BY <2>3 DEF TypeOK
  <2>10. PhasesUsed'
    BY <2>1, <2>8 DEF PhasesUsed
  <2>11. RowFollows'
    BY <1>1, <2>2, <2>5, <2>7, <2>8, <2>9 DEF RowFollows
  <2>. QED
    BY <2>10, <2>11
<1>. QED
  BY <1>2, <1>3

LEMMA ServeFollows ==
    ASSUME TypeOK, PhasesUsed, RowFollows, NEW t \in Tickets, Serve(t)
    PROVE  PhasesUsed' /\ RowFollows'
<1>. DEFINE used == Phases \ {"connecting", "session_creating"}
            awaits == {"columnOld", "columnNew"}
<1>0. /\ row[t] \in Rows /\ phase[t] \in used /\ "locked" \in Lanes
      /\ {"idle", "error", "provisioning"} \subseteq used /\ Stopped(phase[t]) \in used
  BY DEF TypeOK, PhasesUsed, Phases, Lanes, Stopped
<1>1. ASSUME UNCHANGED <<machines, phase>>,
             \A u \in Tickets : row'[u].phase = row[u].phase,
             \A u \in Tickets : pc'[u] \in awaits => pc[u] \in awaits
      PROVE  PhasesUsed' /\ RowFollows'
  BY <1>1 DEF PhasesUsed, RowFollows
<1>2. ASSUME NEW p \in used,
             \A u \in Tickets : /\ phase'[u] = IF u = t THEN p ELSE phase[u]
                                /\ row'[u].phase = IF u = t THEN p ELSE row[u].phase
                                /\ u # t => machines'[u] = machines[u] /\ pc'[u] = pc[u]
      PROVE  PhasesUsed' /\ RowFollows'
  BY <1>2 DEF PhasesUsed, RowFollows
<1>3. CASE BeginStart(t) \/ BeginEnsure(t) \/ BeginSend(t) \/ BeginHalt(t)
  <2>1. UNCHANGED <<machines, phase>>
    BY <1>3 DEF BeginStart, BeginEnsure, BeginSend, BeginHalt
  <2>2. \/ UNCHANGED row /\ \E at \in {"workspace", "reply", "stop"} : Suspend(t, at)
        \/ Reject(t, row[t])
    BY <1>3 DEF BeginStart, BeginEnsure, BeginSend, BeginHalt
  <2>3. CASE UNCHANGED row /\ \E at \in {"workspace", "reply", "stop"} : Suspend(t, at)
    BY <1>1, <2>1, <2>3, SuspendEffect
  <2>4. CASE Reject(t, row[t])
    BY <1>0, <1>1, <2>1, <2>4, RejectEffect
  <2>. QED
    BY <2>2, <2>3, <2>4
<1>4. CASE BeginStop(t)
  <2>1. \A u \in Tickets : row'[u].phase = row[u].phase
    BY <1>4 DEF BeginStop, TypeOK, Rows
  <2>2. Suspend(t, "stopGoal") \/ Finish(t)
    BY <1>4 DEF BeginStop
  <2>3. \A u \in Tickets : pc'[u] \in awaits => pc[u] \in awaits
    BY <2>2, SuspendEffect, FinishEffect
  <2>. QED
    BY <1>1, <1>4, <2>1, <2>3 DEF BeginStop
<1>5. CASE BeginFinalize(t)
  <2>1. \A u \in Tickets : row'[u].phase = row[u].phase
    <3>1. CleanupRow(t, row[t]).phase = row[t].phase
      BY <1>0, SnapshotType, CleanupRowPhase DEF CleanupRow, ClearedRow, Rows
    <3>. QED
      BY <1>5, <3>1 DEF BeginFinalize, TypeOK
  <2>2. Suspend(t, "cleanup") \/ Finish(t)
    BY <1>5 DEF BeginFinalize
  <2>3. \A u \in Tickets : pc'[u] \in awaits => pc[u] \in awaits
    BY <2>2, SuspendEffect, FinishEffect
  <2>. QED
    BY <1>1, <1>5, <2>1, <2>3 DEF BeginFinalize
<1>6. CASE ResolveWorkspace(t)
  <2>1. UNCHANGED machines /\ queue[t] # <<>>
    BY <1>6 DEF ResolveWorkspace, Holds
  <2>2. ASSUME NEW r \in Rows, r.phase = row[t].phase, EnsureColumn(t, r)
        PROVE  PhasesUsed' /\ RowFollows'
    <3>1. CASE /\ pc'[t] = "begin" \/ (machines[t] /\ pc'[t] = "columnOld")
               /\ phase'[t] = phase[t] /\ row'[t].phase = row[t].phase
      BY <2>1, <2>2, <3>1, EnsureColumnEffect DEF PhasesUsed, RowFollows
    <3>2. CASE phase'[t] = "provisioning" /\ row'[t].phase = "provisioning"
      BY <1>0, <2>1, <2>2, <3>2, EnsureColumnEffect DEF PhasesUsed, RowFollows
    <3>. QED
      BY <2>1, <2>2, <3>1, <3>2, EnsureColumnEffect
  <2>3. \A w \in WorktreeIds : /\ [row[t] EXCEPT !.worktree = w] \in Rows
                               /\ [row[t] EXCEPT !.worktree = w].phase = row[t].phase
    <3>1. \A w \in WorktreeIds : w \in 0..MaxWorktrees
      BY BoundAssumption DEF WorktreeIds
    <3>. QED
      BY <1>0, <3>1 DEF Rows
  <2>4. CASE EnsureColumn(t, row[t])
    BY <1>0, <2>2, <2>4
  <2>5. CASE \E w \in WorktreeIds : EnsureColumn(t, [row[t] EXCEPT !.worktree = w])
    BY <2>2, <2>3, <2>5
  <2>6. CASE Reject(t, row[t]) /\ UNCHANGED phase
    BY <1>0, <1>1, <2>1, <2>6, RejectEffect
  <2>. QED
    BY <1>6, <2>4, <2>5, <2>6 DEF ResolveWorkspace
<1>7. CASE ColumnAck(t)
  <2>1. phase[t] = row[t].phase
    BY <1>7 DEF ColumnAck, Holds, RowFollows
  <2>2. Registered(phase[t]) \in used /\ Started(phase[t]) = "running" /\ "running" \in used
    BY <1>0, PhaseInUse DEF Phases
  <2>3. \A u \in Tickets : u # t => machines'[u] = machines[u] /\ pc'[u] = pc[u]
    BY <1>7, SuspendEffect, FinishEffect DEF ColumnAck, TypeOK
  <2>4. CASE Head(queue[t]).kind = "start"
    <3>. DEFINE r == [row[t] EXCEPT !.phase = Started(phase[t]), !.autopilot = TRUE]
    <3>1. r \in Rows /\ r.phase = "running"
      BY <1>0, <2>2 DEF Rows
    <3>2. row' = [row EXCEPT ![t] = r] /\ phase' = [phase EXCEPT ![t] = "running"]
      BY <1>7, <2>2, <2>4 DEF ColumnAck, TypeOK, Rows
    <3>. HIDE DEF r
    <3>3. \A u \in Tickets : /\ phase'[u] = IF u = t THEN "running" ELSE phase[u]
                             /\ row'[u].phase = IF u = t THEN "running" ELSE row[u].phase
      BY <3>1, <3>2 DEF TypeOK
    <3>. QED
      BY <1>2, <2>2, <2>3, <3>3
  <2>5. CASE Head(queue[t]).kind # "start"
    <3>. DEFINE q == Registered(phase[t])
    <3>1. SetPhase(t, q)
      BY <1>7, <2>5 DEF ColumnAck
    <3>2. q \in used
      BY <2>2
    <3>. HIDE DEF q
    <3>3. \A u \in Tickets : /\ phase'[u] = IF u = t THEN q ELSE phase[u]
                             /\ row'[u].phase = IF u = t THEN q ELSE row[u].phase
      BY <3>1, <3>2, SetPhaseEffect
    <3>. QED
      BY <1>2, <2>3, <3>2, <3>3
  <2>. QED
    BY <2>4, <2>5
<1>8. CASE ColumnFail(t)
  <2>1. /\ [row[t] EXCEPT !.phase = "error"] \in Rows
        /\ [row[t] EXCEPT !.phase = "error"].phase = "error"
    BY <1>0 DEF Rows
  <2>2. phase' = [phase EXCEPT ![t] = "error"] /\ UNCHANGED machines
    BY <1>8 DEF ColumnFail
  <2>3. \A u \in Tickets : /\ row'[u].phase = IF u = t THEN "error" ELSE row[u].phase
                           /\ u # t => pc'[u] = pc[u]
    BY <1>8, <2>1, RejectEffect DEF ColumnFail
  <2>. QED
    BY <1>0, <1>2, <2>2, <2>3 DEF TypeOK
<1>9. CASE MessageDone(t)
  BY <1>1, <1>9, FinishEffect DEF MessageDone
<1>10. CASE StopGoalDone(t)
  BY <1>0, <1>2, <1>10, SetPhaseEffect, FinishEffect DEF StopGoalDone
<1>11. CASE ResetStopped(t)
  <2>1. CASE machines[t]
    BY <1>0, <1>2, <1>11, <2>1, SetPhaseEffect, SuspendEffect DEF ResetStopped
  <2>2. CASE ~machines[t]
    BY <1>1, <1>11, <2>2, SuspendEffect DEF ResetStopped
  <2>. QED
    BY <2>1, <2>2
<1>12. CASE TerminalStopped(t)
  <2>. DEFINE live == Head(queue[t]).live
              p == IF live THEN Stopped(phase[t]) ELSE phase[t]
              r == IF live THEN [row[t] EXCEPT !.phase = p] ELSE row[t]
  <2>1. /\ p \in used /\ r \in Rows
        /\ (p = phase[t] /\ r.phase = row[t].phase) \/ r.phase = p
    BY <1>0 DEF Rows
  <2>2. /\ phase' = [phase EXCEPT ![t] = p] /\ UNCHANGED machines
        /\ row' = [row EXCEPT ![t] = CleanupRow(t, r)]
        /\ Suspend(t, "cleanup") \/ Finish(t)
    BY <1>12 DEF TerminalStopped
  <2>. HIDE DEF p, r
  <2>3. CleanupRow(t, r).phase = r.phase
    BY <2>1 DEF CleanupRow, ClearedRow, Rows
  <2>4. \A u \in Tickets : /\ phase'[u] = IF u = t THEN p ELSE phase[u]
                           /\ row'[u].phase = IF u = t THEN r.phase ELSE row[u].phase
    BY <2>2, <2>3 DEF TypeOK
  <2>5. \A u \in Tickets : pc'[u] = pc[u] \/ (u = t /\ pc'[u] \notin awaits)
    BY <2>2, SuspendEffect, FinishEffect
  <2>. QED
    BY <2>1, <2>2, <2>4, <2>5 DEF PhasesUsed, RowFollows
<1>13. CASE CleanupStep("locked", t)
  BY <1>0, <1>13, CleanupFollows
<1>. QED
  BY <1>3, <1>4, <1>5, <1>6, <1>7, <1>8, <1>9, <1>10, <1>11, <1>12, <1>13 DEF Serve

\* A user's move keeps the phase of the row; a restart empties `machines`.
LEMMA OtherFollows ==
    ASSUME TypeOK, PhasesUsed, RowFollows,
           \/ \E t \in Tickets : User(t) \/ \E k \in Ticks : AutoDispatchTick(k, t)
           \/ Restart
    PROVE  PhasesUsed' /\ RowFollows'
<1>1. ASSUME UNCHANGED <<machines, phase, pc>>,
             \A u \in Tickets : row'[u].phase = row[u].phase
      PROVE  PhasesUsed' /\ RowFollows'
  BY <1>1 DEF PhasesUsed, RowFollows
<1>2. ASSUME NEW t \in Tickets, NEW c \in Columns
      PROVE  /\ MovedRow(row[t], c) \in Rows /\ MovedRow(row[t], c).phase = row[t].phase
             /\ CleanupRow(t, MovedRow(row[t], c)).phase = row[t].phase
  <2>1. row[t] \in Rows
    BY DEF TypeOK
  <2>2. MovedRow(row[t], c) \in Rows /\ MovedRow(row[t], c).phase = row[t].phase
    BY <2>1, MovedRowType DEF MovedRow, Rows
  <2>. QED
    BY <2>2 DEF CleanupRow, ClearedRow, Rows
<1>3. ASSUME NEW t \in Tickets, NEW c \in Columns, MoveTicketToColumn(t, c)
      PROVE  PhasesUsed' /\ RowFollows'
  <2>1. \/ row' = [row EXCEPT ![t] = MovedRow(row[t], c)]
        \/ row' = [row EXCEPT ![t] = CleanupRow(t, MovedRow(row[t], c))]
    BY <1>3 DEF MoveTicketToColumn
  <2>2. \A u \in Tickets : row'[u].phase = row[u].phase
    BY <1>2, <2>1 DEF TypeOK
  <2>. QED
    BY <1>1, <1>3, <2>2 DEF MoveTicketToColumn
<1>4. ASSUME NEW t \in Tickets, NEW k \in Ticks, AutoDispatchTick(k, t)
      PROVE  PhasesUsed' /\ RowFollows'
  <2>1. row' = [row EXCEPT ![t] = MovedRow(row[t], DispatchColumn)]
    BY <1>4 DEF AutoDispatchTick
  <2>2. \A u \in Tickets : row'[u].phase = row[u].phase
    BY <1>2, <2>1, ColumnAssumption DEF TypeOK
  <2>. QED
    BY <1>1, <1>4, <2>2 DEF AutoDispatchTick
<1>5. ASSUME NEW t \in Tickets,
             \/ \E kind \in Requests : Request(t, kind)
             \/ \E w \in WorktreeIds : Edit(t, w) \/ Commit(t, w)
      PROVE  PhasesUsed' /\ RowFollows'
  BY <1>1, <1>5 DEF Request, Edit, Commit
<1>6. CASE Restart
  BY <1>6 DEF Restart, PhasesUsed, RowFollows
<1>. QED
  BY <1>3, <1>4, <1>5, <1>6 DEF User

LEMMA NextFollows ==
    ASSUME TypeOK, PhasesUsed, RowFollows, Next
    PROVE  PhasesUsed' /\ RowFollows'
<1>1. {"free", "boot"} \subseteq Lanes
  BY DEF Lanes
<1>. QED
  BY <1>1, ServeFollows, OtherFollows, ColumnFollows, CleanupFollows DEF Next, Running

\* The entry a cleanup captured, through every step that touches a lane.
LEMMA CleanupCaptured ==
    ASSUME TypeOK, CapturedEntry, NEW l \in Lanes, NEW t \in Tickets, CleanupStep(l, t)
    PROVE  CapturedEntry'
<1>0. {"locked", "boot"} \subseteq Lanes /\ lane[l][t] \in Cleanups
  BY DEF Lanes, TypeOK
<1>1. ASSUME NEW s, SetLane(l, t, s), l = "locked" => (s.pc = "dispose" => s.cur),
             l = "boot" => s.pc \in {"off", "remove", "record"}
      PROVE  CapturedEntry'
  BY <1>0, <1>1, SetLaneEffect DEF CapturedEntry
<1>2. ASSUME SetLane(l, t, Off)
      PROVE  CapturedEntry'
  BY <1>1, <1>2 DEF Off
<1>3. CASE CheckClean(l, t)
  <2>. DEFINE s == [lane[l][t] EXCEPT !.pc = IF machines[t] THEN "dispose" ELSE "remove",
                                      !.pending = FALSE, !.cur = machines[t]]
  <2>1. s.pc = (IF machines[t] THEN "dispose" ELSE "remove") /\ s.cur = machines[t]
    BY <1>0 DEF Cleanups
  <2>2. l # "boot"
    BY <1>3 DEF CheckClean, CapturedEntry
  <2>3. SetLane(l, t, s)
    BY <1>3 DEF CheckClean
  <2>. HIDE DEF s
  <2>. QED
    BY <1>1, <2>1, <2>2, <2>3
<1>4. CASE Dispose(l, t)
  <2>1. CASE SetLane(l, t, [lane[l][t] EXCEPT !.pc = "remove", !.cur = FALSE])
    BY <1>0, <1>1, <2>1 DEF Cleanups
  <2>. QED
    BY <1>2, <1>4, <2>1 DEF Dispose
<1>5. CASE RemoveWorktree(l, t)
  BY <1>0, <1>1, <1>5 DEF RemoveWorktree, Cleanups
<1>. QED
  BY <1>2, <1>3, <1>4, <1>5 DEF CleanupStep, CheckDirty, RecordRemoval

LEMMA NextCaptured ==
    ASSUME TypeOK, CapturedEntry, Next
    PROVE  CapturedEntry'
<1>0. Lanes = {"locked", "free", "boot"}
  BY DEF Lanes
<1>1. ASSUME UNCHANGED lane
      PROVE  CapturedEntry'
  BY <1>1 DEF CapturedEntry
<1>2. ASSUME NEW t \in Tickets, NEW r \in Rows, NEW l \in {"locked", "free"},
             SetLane(l, t, CleanupLane(t, r))
      PROVE  CapturedEntry'
  <2>1. CleanupLane(t, r).pc = "dispose" => CleanupLane(t, r).cur
    BY DEF CleanupLane, Snapshot, Off
  <2>. QED
    BY <1>0, <1>2, <2>1, SetLaneEffect DEF CapturedEntry
<1>3. ASSUME NEW t \in Tickets, ResolveWorkspace(t)
      PROVE  CapturedEntry'
  <2>1. row[t] \in Rows /\ queue[t] # <<>>
    BY <1>3 DEF TypeOK, ResolveWorkspace, Holds
  <2>2. \A w \in WorktreeIds : /\ [row[t] EXCEPT !.worktree = w] \in Rows
                               /\ [row[t] EXCEPT !.worktree = w].phase = row[t].phase
    <3>1. \A w \in WorktreeIds : w \in 0..MaxWorktrees
      BY BoundAssumption DEF WorktreeIds
    <3>. QED
      BY <2>1, <3>1 DEF Rows
  <2>3. ASSUME NEW r \in Rows, r.phase = row[t].phase, EnsureColumn(t, r)
        PROVE  CapturedEntry'
    BY <2>1, <2>3, EnsureColumnEffect DEF CapturedEntry
  <2>. QED
    BY <1>1, <1>3, <2>1, <2>2, <2>3 DEF ResolveWorkspace
<1>4. ASSUME NEW t \in Tickets, BeginFinalize(t) \/ TerminalStopped(t)
      PROVE  CapturedEntry'
  <2>1. row[t] \in Rows /\ [row[t] EXCEPT !.phase = Stopped(phase[t])] \in Rows
    BY DEF TypeOK, Rows, Phases, Stopped
  <2>2. \E r \in Rows : SetLane("locked", t, CleanupLane(t, r))
    BY <1>4, <2>1 DEF BeginFinalize, TerminalStopped
  <2>. QED
    BY <1>2, <2>2
<1>5. ASSUME NEW t \in Tickets, Serve(t)
      PROVE  CapturedEntry'
  <2>1. CASE CleanupStep("locked", t)
    BY <1>0, <2>1, CleanupCaptured
  <2>2. CASE \/ BeginStart(t) \/ BeginEnsure(t) \/ BeginSend(t) \/ BeginStop(t) \/ BeginHalt(t)
             \/ ColumnAck(t) \/ ColumnFail(t) \/ MessageDone(t) \/ StopGoalDone(t)
             \/ ResetStopped(t)
    BY <1>1, <2>2 DEF BeginStart, BeginEnsure, BeginSend, BeginStop, BeginHalt, ColumnAck,
       ColumnFail, MessageDone, StopGoalDone, ResetStopped
  <2>. QED
    BY <1>3, <1>4, <1>5, <2>1, <2>2 DEF Serve
<1>6. ASSUME NEW t \in Tickets, NEW c \in Columns, MoveTicketToColumn(t, c)
      PROVE  CapturedEntry'
  <2>1. MovedRow(row[t], c) \in Rows
    BY MovedRowType DEF TypeOK
  <2>. QED
    BY <1>1, <1>2, <1>6, <2>1 DEF MoveTicketToColumn
<1>7. ASSUME NEW t \in Tickets,
             \/ Column(t) \/ \E kind \in Requests : Request(t, kind)
             \/ \E w \in WorktreeIds : Edit(t, w) \/ Commit(t, w)
             \/ \E k \in Ticks : AutoDispatchTick(k, t)
      PROVE  CapturedEntry'
  BY <1>1, <1>7 DEF Column, Event, RunStarted, Disconnected, GoalActive, GoalCompleted,
     GoalCancelled, GoalTornDown, GoalStartAnswered, GoalStartRejected, Request, Edit, Commit,
     AutoDispatchTick
<1>8. ASSUME Restart
      PROVE  CapturedEntry'
  <2>1. \A t \in Tickets : lane'["locked"][t] = Off
    BY <1>0, <1>8 DEF Restart
  <2>2. \A t \in Tickets : lane'["boot"][t].pc \in {"off", "remove"}
    BY <1>0, <1>8 DEF Restart, Snapshot, Off
  <2>. QED
    BY <2>1, <2>2 DEF CapturedEntry, Off
<1>. QED
  BY <1>0, <1>5, <1>6, <1>7, <1>8, CleanupCaptured DEF Next, Running, User

---------------------------------------------------------------------------
(* The theorems *)

\* The five facts together are preserved by every step.
LEMMA Inductive ==
    /\ Init => IInv
    /\ IInv /\ [Next]_vars => IInv'
<1>1. ASSUME Init PROVE IInv
  <2>1. Lanes = {"locked", "free", "boot"}
    BY DEF Lanes
  <2>. QED
    BY <1>1, <2>1, InitType DEF Init, IInv, LockHeld, PhasesUsed, RowFollows, CapturedEntry, Off
<1>2. ASSUME IInv, Next PROVE IInv'
  BY <1>2, NextType, NextLockHeld, NextFollows, NextCaptured DEF IInv
<1>3. ASSUME IInv, UNCHANGED vars PROVE IInv'
  BY <1>3 DEF vars, IInv, TypeOK, LockHeld, PhasesUsed, RowFollows, CapturedEntry
<1>. QED
  BY <1>1, <1>2, <1>3

LEMMA Invariance == Spec => []IInv
BY Inductive, PTL DEF Spec

\* Type correctness.
THEOREM TypeCorrect == Spec => []TypeOK
<1>1. IInv => TypeOK
  BY DEF IInv
<1>. QED
  BY <1>1, Invariance, PTL

\* The row of a ticket with an entry always says its supervisor's phase, which
\* is why the WIP count may read rows and the capacity count the entries.
THEOREM RowsMirrorEntries == Spec => []RowMirrorsEntry
<1>1. IInv => RowMirrorsEntry
  BY DEF IInv, RowFollows, RowMirrorsEntry
<1>. QED
  BY <1>1, Invariance, PTL

\* Only an acknowledged start adds a goal-start request.
LEMMA StartStep ==
    ASSUME IInv, [Next]_vars, NEW t \in Tickets, goalReqs'[t] > goalReqs[t]
    PROVE  machines'[t] /\ phase'[t] = "running" /\ row'[t].phase = "running"
<1>0. goalReqs[t] \in Nat /\ goalReqs'[t] > goalReqs[t] /\ row[t] \in Rows
  BY BoundAssumption DEF IInv, TypeOK
<1>1. goalReqs' # goalReqs
  BY <1>0
<1>2. ASSUME NEW u \in Tickets, ColumnAck(u)
      PROVE  machines'[t] /\ phase'[t] = "running" /\ row'[t].phase = "running"
  <2>1. Head(queue[u]).kind = "start" /\ goalReqs' = [goalReqs EXCEPT ![u] = @ + 1]
    BY <1>1, <1>2 DEF ColumnAck
  <2>2. u = t
    BY <1>0, <2>1 DEF IInv, TypeOK
  <2>3. Started(phase[t]) = "running"
    BY PhaseInUse DEF IInv, TypeOK, PhasesUsed
  <2>4. [row[t] EXCEPT !.phase = "running", !.autopilot = TRUE].phase = "running"
    BY <1>0 DEF Rows
  <2>5. /\ machines' = [machines EXCEPT ![t] = TRUE]
        /\ phase' = [phase EXCEPT ![t] = "running"]
        /\ row' = [row EXCEPT ![t] = [row[t] EXCEPT !.phase = "running", !.autopilot = TRUE]]
    BY <1>0, <1>2, <2>1, <2>2, <2>3 DEF ColumnAck, IInv, TypeOK, Rows
  <2>. QED
    BY <2>4, <2>5 DEF IInv, TypeOK
<1>3. ASSUME NEW u \in Tickets, NEW r \in Rows, EnsureColumn(u, r)
      PROVE  FALSE
  <2>1. goalReqs' = [goalReqs EXCEPT ![u] = 0]
    BY <1>1, <1>3 DEF EnsureColumn
  <2>. QED
    BY <1>0, <2>1 DEF IInv, TypeOK
<1>4. ASSUME NEW u \in Tickets, ResolveWorkspace(u)
      PROVE  FALSE
  <2>1. row[u] \in Rows /\ \A w \in WorktreeIds : [row[u] EXCEPT !.worktree = w] \in Rows
    <3>1. \A w \in WorktreeIds : w \in 0..MaxWorktrees
      BY BoundAssumption DEF WorktreeIds
    <3>. QED
      BY <3>1 DEF IInv, TypeOK, Rows
  <2>. QED
    BY <1>1, <1>3, <1>4, <2>1 DEF ResolveWorkspace
<1>5. ASSUME NEW u \in Tickets, GoalStartAnswered(u) \/ GoalStartRejected(u)
      PROVE  FALSE
  <2>1. goalReqs' = [goalReqs EXCEPT ![u] = goalReqs[u] - 1]
    BY <1>5 DEF GoalStartAnswered, GoalStartRejected
  <2>2. goalReqs'[t] = IF u = t THEN goalReqs[t] - 1 ELSE goalReqs[t]
    BY <2>1 DEF IInv, TypeOK
  <2>. QED
    BY <1>0, <2>2
<1>6. ~Restart
  BY <1>0 DEF Restart
<1>7. ASSUME NEW u \in Tickets, NEW l \in Lanes, CleanupStep(l, u)
      PROVE  FALSE
  BY <1>1, <1>7 DEF CleanupStep, CheckDirty, CheckClean, Dispose, RemoveWorktree, RecordRemoval
<1>8. PICK u \in Tickets :
         Serve(u) \/ User(u) \/ Column(u) \/ CleanupStep("free", u) \/ CleanupStep("boot", u)
         \/ \E k \in Ticks : AutoDispatchTick(k, u)
  BY <1>1, <1>6 DEF Next, Running, vars
<1>9. CASE Serve(u)
  <2>1. ~CleanupStep("locked", u)
    BY <1>7 DEF Lanes
  <2>. QED
    BY <1>1, <1>2, <1>4, <1>9, <2>1 DEF Serve, BeginStart, BeginEnsure, BeginSend, BeginStop, BeginHalt,
       BeginFinalize, ColumnFail, MessageDone, StopGoalDone, ResetStopped, TerminalStopped
<1>10. ~(CleanupStep("free", u) \/ CleanupStep("boot", u))
  BY <1>7 DEF Lanes
<1>11. ~(User(u) \/ \E k \in Ticks : AutoDispatchTick(k, u))
  BY <1>1 DEF User, Request, MoveTicketToColumn, Edit, Commit, AutoDispatchTick
<1>12. ~Column(u)
  BY <1>1, <1>5 DEF Column, RunStarted, Disconnected, GoalActive, GoalCompleted, GoalCancelled,
     GoalTornDown, Event
<1>. QED
  BY <1>8, <1>9, <1>10, <1>11, <1>12

\* A start whose column was acknowledged takes effect.
THEOREM StartsTakeEffect == Spec => StartTakesEffect
<1>1. IInv /\ [Next]_vars =>
        [\A t \in Tickets : goalReqs'[t] > goalReqs[t] =>
            machines'[t] /\ phase'[t] = "running" /\ row'[t].phase = "running"]_vars
  BY StartStep
<1>. QED
  BY <1>1, Invariance, PTL DEF Spec, StartTakesEffect

\* The phase of a live entry leaves an inactive one in one action alone.
LEMMA RevivalStep ==
    ASSUME TypeOK, [Next]_vars, NEW t \in Tickets,
           machines[t], ~IsActive(phase[t]), IsActive(phase'[t])
    PROVE  pc[t] \in {"columnOld", "columnNew"} /\ Head(queue[t]).kind = "start"
<1>. DEFINE Goal == pc[t] \in {"columnOld", "columnNew"} /\ Head(queue[t]).kind = "start"
<1>0. phase[t] \in {"idle", "error", "completed"} /\ phase'[t] # phase[t]
  BY DEF IsActive, TypeOK
<1>1. ASSUME NEW u \in Tickets, NEW p, p = phase[u] \/ p \in {"idle", "error", "completed"},
             phase' = [phase EXCEPT ![u] = p]
      PROVE  FALSE
  BY <1>0, <1>1 DEF IsActive, TypeOK
<1>2. ASSUME NEW u \in Tickets, ColumnAck(u)
      PROVE  Goal
  <2>1. u = t
    BY <1>0, <1>2 DEF ColumnAck, SetPhase, TypeOK
  <2>2. Registered(phase[t]) = phase[t]
    BY <1>0 DEF Registered
  <2>3. Head(queue[t]).kind = "start"
    BY <1>0, <1>2, <2>1, <2>2 DEF ColumnAck, SetPhase, TypeOK
  <2>. QED
    BY <1>2, <2>1, <2>3 DEF ColumnAck, Holds
<1>3. ASSUME NEW u \in Tickets, NEW r, EnsureColumn(u, r)
      PROVE  FALSE
  <2>1. ~machines[u] /\ phase' = [phase EXCEPT ![u] = "provisioning"]
    BY <1>0, <1>3 DEF EnsureColumn
  <2>. QED
    BY <1>0, <2>1 DEF TypeOK
<1>4. ASSUME NEW u \in Tickets, Column(u)
      PROVE  FALSE
  <2>1. ASSUME NEW p, Event(u, p) PROVE phase' = [phase EXCEPT ![u] = p]
    BY <2>1 DEF Event, SetPhase
  <2>2. GoalActive(u) \/ RunStarted(u) => phase' = [phase EXCEPT ![u] = Transition(phase[u], "running")]
    BY <2>1 DEF GoalActive, RunStarted
  <2>3. CASE GoalActive(u) \/ RunStarted(u)
    <3>1. u = t
      BY <1>0, <2>2, <2>3 DEF TypeOK
    <3>2. Transition(phase[t], "running") = phase[t]
      BY <1>0 DEF Transition, Transitions
    <3>. QED
      BY <1>1, <2>2, <2>3, <3>1, <3>2
  <2>4. CASE GoalCompleted(u)
    <3>1. Transition(phase[u], "completed") \in {phase[u], "completed"}
      BY DEF Transition
    <3>. QED
      BY <1>1, <2>1, <2>4, <3>1 DEF GoalCompleted
  <2>5. CASE Disconnected(u) \/ GoalCancelled(u) \/ GoalTornDown(u)
    BY <1>1, <2>1, <2>5 DEF Disconnected, GoalCancelled, GoalTornDown
  <2>6. CASE GoalStartAnswered(u) \/ GoalStartRejected(u)
    BY <1>0, <1>1, <2>6 DEF GoalStartAnswered, GoalStartRejected, SetPhase
  <2>. QED
    BY <1>4, <2>3, <2>4, <2>5, <2>6 DEF Column
<1>5. ASSUME NEW u \in Tickets, NEW l, CleanupStep(l, u)
      PROVE  FALSE
  <2>1. Dispose(l, u)
    BY <1>0, <1>5 DEF CleanupStep, CheckDirty, CheckClean, RemoveWorktree, RecordRemoval
  <2>. QED
    BY <1>1, <2>1 DEF Dispose, DisposedPhase
<1>6. ASSUME NEW u \in Tickets, Serve(u)
      PROVE  Goal
  <2>1. ~(\/ BeginStart(u) \/ BeginEnsure(u) \/ BeginSend(u) \/ BeginStop(u) \/ BeginHalt(u)
          \/ BeginFinalize(u) \/ MessageDone(u))
    BY <1>0 DEF BeginStart, BeginEnsure, BeginSend, BeginStop, BeginHalt, BeginFinalize, MessageDone
  <2>2. ~ResolveWorkspace(u)
    BY <1>0, <1>3 DEF ResolveWorkspace
  <2>3. ~(ColumnFail(u) \/ StopGoalDone(u) \/ ResetStopped(u) \/ TerminalStopped(u))
    BY <1>0, <1>1 DEF ColumnFail, StopGoalDone, ResetStopped, TerminalStopped, SetPhase, Stopped
  <2>. QED
    BY <1>2, <1>5, <1>6, <2>1, <2>2, <2>3 DEF Serve
<1>7. ~Restart
  BY DEF Restart, IsActive
<1>8. PICK u \in Tickets :
         Serve(u) \/ User(u) \/ Column(u) \/ CleanupStep("free", u) \/ CleanupStep("boot", u)
         \/ \E k \in Ticks : AutoDispatchTick(k, u)
  BY <1>0, <1>7 DEF Next, Running, vars
<1>9. ~(User(u) \/ \E k \in Ticks : AutoDispatchTick(k, u))
  BY <1>0 DEF User, Request, MoveTicketToColumn, Edit, Commit, AutoDispatchTick
<1>. QED
  BY <1>4, <1>5, <1>6, <1>8, <1>9

\* No late event revives a supervisor: only a start that was asked for does.
THEOREM NoneRevived == Spec => NoRevival
<1>1. IInv => TypeOK
  BY DEF IInv
<1>2. TypeOK /\ [Next]_vars =>
        [\A t \in Tickets : (machines[t] /\ ~IsActive(phase[t]) /\ IsActive(phase'[t])) =>
            pc[t] \in {"columnOld", "columnNew"} /\ Head(queue[t]).kind = "start"]_vars
  BY RevivalStep
<1>. QED
  BY <1>1, <1>2, Invariance, PTL DEF Spec, NoRevival

\* An entry leaves `machines` at the end of a cleanup or at a restart.
LEMMA LeavingStep ==
    ASSUME IInv, [Next]_vars, NEW t \in Tickets,
           machines[t], ~machines'[t], IsActive(row'[t].phase)
    PROVE  lane["free"][t].pc = "dispose" /\ ~lane["free"][t].cur
<1>0. machines' # machines /\ row[t] \in Rows
  BY DEF IInv, TypeOK
<1>1. ASSUME NEW l \in Lanes, NEW u \in Tickets, CleanupStep(l, u)
      PROVE  lane["free"][t].pc = "dispose" /\ ~lane["free"][t].cur
  <2>1. Dispose(l, u)
    BY <1>0, <1>1 DEF CleanupStep, CheckDirty, CheckClean, RemoveWorktree, RecordRemoval
  <2>2. u = t
    BY <2>1 DEF Dispose, IInv, TypeOK
  <2>3. ~lane[l][t].cur
    <3>1. SUFFICES ASSUME lane[l][t].cur PROVE row'[t].phase = "idle"
      BY DEF IsActive
    <3>. DEFINE r == [row[t] EXCEPT !.phase = "idle"]
    <3>2. row' = [row EXCEPT ![t] = r] \/ row' = [row EXCEPT ![t] = ClearedRow(r, lane[l][t])]
      BY <2>1, <2>2, <3>1 DEF Dispose, DisposedPhase
    <3>3. r \in Rows /\ r.phase = "idle" /\ lane[l][t] \in Cleanups
      BY <1>0 DEF Rows, Phases, IInv, TypeOK
    <3>. HIDE DEF r
    <3>4. ClearedRow(r, lane[l][t]).phase = "idle"
      BY <3>3, CleanupRowPhase
    <3>. QED
      BY <3>2, <3>3, <3>4 DEF IInv, TypeOK
  <2>4. lane[l][t].pc = "dispose"
    BY <2>1, <2>2 DEF Dispose
  <2>5. l = "free"
    BY <2>3, <2>4 DEF IInv, CapturedEntry, Lanes
  <2>. QED
    BY <2>3, <2>4, <2>5
<1>2. ~Restart
  <2>1. ASSUME Restart PROVE row'[t].phase \in {"idle", "completed"}
    BY <1>0, <2>1 DEF Restart, Rows
  <2>. QED
    BY <2>1 DEF IsActive
<1>3. PICK u \in Tickets :
         Serve(u) \/ User(u) \/ Column(u) \/ CleanupStep("free", u) \/ CleanupStep("boot", u)
         \/ \E k \in Ticks : AutoDispatchTick(k, u)
  BY <1>0, <1>2 DEF Next, Running, vars
<1>4. ~ColumnAck(u)
  BY DEF ColumnAck, IInv, TypeOK
<1>5. ~(User(u) \/ Column(u) \/ \E k \in Ticks : AutoDispatchTick(k, u))
  BY <1>0 DEF User, Request, MoveTicketToColumn, Edit, Commit, AutoDispatchTick, Column, Event,
     RunStarted, Disconnected, GoalActive, GoalCompleted, GoalCancelled, GoalTornDown,
     GoalStartAnswered, GoalStartRejected
<1>6. CleanupStep("locked", u) \/ CleanupStep("free", u) \/ CleanupStep("boot", u)
  BY <1>0, <1>3, <1>4, <1>5 DEF Serve, BeginStart, BeginEnsure, BeginSend, BeginStop, BeginHalt,
     BeginFinalize, ResolveWorkspace, ColumnFail, MessageDone, StopGoalDone, ResetStopped,
     TerminalStopped
<1>. QED
  BY <1>1, <1>6 DEF Lanes

\* An entry leaves with its ticket inactive, but for the unlocked cleanup.
THEOREM EntriesLeaveInactive == Spec => EntryLeavesInactive
<1>1. IInv /\ [Next]_vars =>
        [\A t \in Tickets : (machines[t] /\ ~machines'[t] /\ IsActive(row'[t].phase)) =>
            lane["free"][t].pc = "dispose" /\ ~lane["free"][t].cur]_vars
  BY LeavingStep
<1>. QED
  BY <1>1, Invariance, PTL DEF Spec, EntryLeavesInactive

---------------------------------------------------------------------------
(* The WIP limit of a dispatcher that starts alone and one tick at a time *)

\* The requests of the runs without other starters: a job is started by a tick.
Starters == {"start", "ensure", "send"}
Askers == Starters \union {"workspace"}

\* A job no tick waits for, and that asks for no column.
Plain(j) == j.kind \notin Starters /\ j.tick = NoTick

IsStart(t, i) == queue[t][i].kind = "start"

\* The tickets whose lock has a start to serve.
Coming == {t \in Tickets : \E i \in DOMAIN queue[t] : IsStart(t, i)}

\* The tickets that count for the WIP limit, or may come to count.
Load == ActiveWip \union Coming

\* Each start queued has its tick waiting for it, and there is one at most.
StartsPaced ==
    /\ \A t \in Tickets : \A i \in DOMAIN queue[t] :
          \/ Plain(queue[t][i])
          \/ IsStart(t, i) /\ queue[t][i].tick \in ticking
    /\ \A t, u \in Tickets : \A i \in DOMAIN queue[t], j \in DOMAIN queue[u] :
          IsStart(t, i) /\ IsStart(u, j) => t = u /\ i = j

\* The job that resolves a workspace is one that asks for it.
Asked == \A t \in Tickets : pc[t] = "workspace" => queue[t][1].kind \in Askers

PacedInv == StartsPaced /\ Asked /\ Cardinality(Load) <= WipLimit

\* A step of t's lock that takes its head off (d = 1) or leaves it there (d = 0),
\* and adds no start.
LockStep(t, d) ==
    /\ \A u \in Tickets : u # t => queue'[u] = queue[u] /\ pc'[u] = pc[u]
    /\ \A i \in DOMAIN queue'[t] :
          \/ Plain(queue'[t][i])
          \/ /\ i + d \in DOMAIN queue[t]
             /\ queue'[t][i].kind = queue[t][i + d].kind
             /\ queue'[t][i].tick = queue[t][i + d].tick
    /\ d = 1 => /\ pc'[t] # "workspace" /\ queue[t] # <<>>
                /\ ticking' = ticking \ {queue[t][1].tick}
    /\ d = 0 => /\ ticking' = ticking
                /\ pc'[t] = "workspace" =>
                      /\ queue'[t][1].kind = queue[t][1].kind
                      /\ pc[t] = "workspace" \/ queue[t][1].kind \in Askers

\* The jobs of a queue by their index.
LEMMA QueueFacts ==
    ASSUME TypeOK, NEW t \in Tickets
    PROVE  /\ queue[t] \in Seq(Jobs)
           /\ DOMAIN queue[t] = 1..Len(queue[t]) /\ Len(queue[t]) \in Nat
           /\ queue[t] # <<>> => Head(queue[t]) = queue[t][1] /\ 1 \in DOMAIN queue[t]
           /\ \A i \in DOMAIN queue[t] : queue[t][i] \in Jobs
BY DEF TypeOK

\* Such a step may only end the start that was coming.
LEMMA LockStepPaced ==
    ASSUME TypeOK, TypeOK', StartsPaced, Asked,
           NEW t \in Tickets, NEW d \in {0, 1}, LockStep(t, d)
    PROVE  StartsPaced' /\ Asked' /\ Coming' \subseteq Coming
<1>. DEFINE from(u, i) == IF u = t THEN i + d ELSE i
<1>1. ASSUME NEW u \in Tickets, NEW i \in DOMAIN queue'[u], ~Plain(queue'[u][i])
      PROVE  /\ from(u, i) \in DOMAIN queue[u]
             /\ queue'[u][i].kind = queue[u][from(u, i)].kind
             /\ queue'[u][i].tick = queue[u][from(u, i)].tick
  BY <1>1 DEF LockStep
<1>2. ASSUME NEW u \in Tickets, NEW i \in DOMAIN queue'[u], ~Plain(queue'[u][i])
      PROVE  /\ from(u, i) \in DOMAIN queue[u]
             /\ IsStart(u, from(u, i)) /\ queue[u][from(u, i)].tick \in ticking
             /\ queue'[u][i].kind = "start"
             /\ queue'[u][i].tick = queue[u][from(u, i)].tick
  <2>. DEFINE j == from(u, i)
  <2>1. /\ j \in DOMAIN queue[u]
        /\ queue'[u][i].kind = queue[u][j].kind
        /\ queue'[u][i].tick = queue[u][j].tick
    BY <1>1, <1>2
  <2>. HIDE DEF j
  <2>2. ~Plain(queue[u][j])
    BY <1>2, <2>1 DEF Plain
  <2>. QED
    BY <2>1, <2>2 DEF StartsPaced, IsStart, j
<1>3. ASSUME NEW u \in Tickets, NEW i \in DOMAIN queue'[u], queue'[u][i].kind = "start"
      PROVE  ~Plain(queue'[u][i])
  BY <1>3 DEF Plain, Starters
<1>4. ASSUME NEW u \in Tickets, NEW i \in DOMAIN queue'[u], ~Plain(queue'[u][i])
      PROVE  queue'[u][i].tick \in ticking'
  <2>. DEFINE j == from(u, i)
  <2>1. /\ j \in DOMAIN queue[u] /\ IsStart(u, j) /\ queue[u][j].tick \in ticking
        /\ queue'[u][i].tick = queue[u][j].tick
    BY <1>2, <1>4
  <2>2. CASE d = 0
    BY <2>1, <2>2 DEF LockStep
  <2>3. CASE d = 1
    <3>1. queue[t] # <<>> /\ ticking' = ticking \ {queue[t][1].tick} /\ 1 \in DOMAIN queue[t]
      BY <2>3, QueueFacts DEF LockStep
    <3>2. CASE Plain(queue[t][1])
      <4>1. queue[u][j].tick # NoTick
        BY <2>1, BoundAssumption DEF TypeOK
      <4>. HIDE DEF j
      <4>. QED
        BY <2>1, <3>1, <3>2, <4>1 DEF Plain
    <3>3. CASE IsStart(t, 1)
      <4>1. u = t /\ j = 1
        BY <2>1, <3>1, <3>3 DEF StartsPaced
      <4>2. i \in Nat /\ i > 0
        <5>1. queue'[u] \in Seq(Jobs)
          BY DEF TypeOK
        <5>. QED
          BY <5>1
      <4>. QED
        BY <2>3, <4>1, <4>2
    <3>. QED
      BY <3>1, <3>2, <3>3 DEF StartsPaced
  <2>. QED
    BY <2>2, <2>3
<1>5. ASSUME NEW u \in Tickets, NEW v \in Tickets,
             NEW i \in DOMAIN queue'[u], NEW j \in DOMAIN queue'[v],
             queue'[u][i].kind = "start", queue'[v][j].kind = "start"
      PROVE  u = v /\ i = j
  <2>1. /\ from(u, i) \in DOMAIN queue[u] /\ IsStart(u, from(u, i))
        /\ from(v, j) \in DOMAIN queue[v] /\ IsStart(v, from(v, j))
    BY <1>2, <1>3, <1>5
  <2>2. u = v /\ from(u, i) = from(v, j)
    BY <2>1 DEF StartsPaced
  <2>3. i \in Nat /\ j \in Nat
    <3>1. queue'[u] \in Seq(Jobs) /\ queue'[v] \in Seq(Jobs)
      BY DEF TypeOK
    <3>. QED
      BY <3>1
  <2>. QED
    BY <2>2, <2>3
<1>6. StartsPaced'
  BY <1>2, <1>4, <1>5 DEF StartsPaced, IsStart
<1>7. Asked'
  BY DEF LockStep, Asked
<1>8. Coming' \subseteq Coming
  BY <1>2, <1>3 DEF Coming, IsStart
<1>. QED
  BY <1>6, <1>7, <1>8

\* The jobs of a move are no starts.
LEMMA MoveJobsPlain ==
    ASSUME NEW t \in Tickets, NEW c \in Columns
    PROVE  /\ MoveJobs(t, c) \in Seq(Jobs)
           /\ \A i \in DOMAIN MoveJobs(t, c) : Plain(MoveJobs(t, c)[i])
<1>. DEFINE plain == {Job("terminal", NoTick), Job("stop", NoTick)}
            A == IF c \in TerminalColumns THEN <<Job("terminal", NoTick)>> ELSE <<>>
            B == IF c = FirstColumn THEN <<Job("stop", NoTick)>> ELSE <<>>
            C == IF c \in GatedColumns THEN <<Job("stop", NoTick)>> ELSE <<>>
<1>1. <<Job("terminal", NoTick)>> \in Seq(plain) /\ <<Job("stop", NoTick)>> \in Seq(plain)
      /\ <<>> \in Seq(plain)
  OBVIOUS
<1>2. \A j \in plain : Plain(j)
  BY DEF Plain, Job, Starters
<1>. HIDE DEF plain
<1>3. A \in Seq(plain) /\ B \in Seq(plain) /\ C \in Seq(plain)
  BY <1>1
<1>. HIDE DEF A, B, C
<1>4. (A \o B) \o C \in Seq(plain)
  BY <1>3
<1>5. MoveJobs(t, c) \in Seq(plain)
  BY <1>1, <1>4 DEF MoveJobs, A, B, C
<1>6. \A i \in DOMAIN MoveJobs(t, c) : MoveJobs(t, c)[i] \in plain
  BY <1>5
<1>. QED
  BY <1>2, <1>6, MoveJobsType

\* The steps of a lock, by what they do to it.
LEMMA SameLock ==
    ASSUME TypeOK, NEW t \in Tickets, UNCHANGED <<queue, pc, ticking>>
    PROVE  LockStep(t, 0)
<1>1. \A i \in DOMAIN queue[t] : i + 0 = i
  BY QueueFacts
<1>. QED
  BY <1>1 DEF LockStep

LEMMA SuspendLock ==
    ASSUME TypeOK, NEW t \in Tickets, NEW at, Suspend(t, at),
           at = "workspace" => queue[t][1].kind \in Askers
    PROVE  LockStep(t, 0)
<1>1. \A i \in DOMAIN queue[t] : i + 0 = i
  BY QueueFacts
<1>2. \A u \in Tickets : pc'[u] = (IF u = t THEN at ELSE pc[u]) /\ queue'[u] = queue[u]
  BY SuspendEffect
<1>. QED
  BY <1>1, <1>2 DEF LockStep, Suspend

LEMMA TailLock ==
    ASSUME TypeOK, NEW t \in Tickets, queue[t] # <<>>, NEW js \in Seq(Jobs),
           \A i \in DOMAIN js : Plain(js[i]),
           queue' = [queue EXCEPT ![t] = Tail(@) \o js],
           pc' = [pc EXCEPT ![t] = "begin"],
           ticking' = ticking \ {Head(queue[t]).tick}
    PROVE  LockStep(t, 1)
<1>. DEFINE q == queue[t]
            new == Tail(q) \o js
<1>1. /\ q \in Seq(Jobs) /\ Len(q) \in Nat /\ Len(q) > 0 /\ Tail(q) \in Seq(Jobs)
      /\ Len(Tail(q)) = Len(q) - 1 /\ Head(q) = q[1] /\ DOMAIN q = 1..Len(q)
  BY QueueFacts
<1>2. \A u \in Tickets : /\ queue'[u] = (IF u = t THEN new ELSE queue[u])
                         /\ pc'[u] = (IF u = t THEN "begin" ELSE pc[u])
  BY DEF TypeOK
<1>3. ASSUME NEW i \in DOMAIN new
      PROVE  Plain(new[i]) \/ (i + 1 \in DOMAIN q /\ new[i] = q[i + 1])
  <2>1. DOMAIN new = 1..(Len(q) - 1 + Len(js)) /\ Len(js) \in Nat /\ DOMAIN js = 1..Len(js)
    BY <1>1
  <2>2. CASE i < Len(q)
    <3>1. i \in 1..Len(Tail(q)) /\ new[i] = Tail(q)[i]
      BY <1>1, <2>1, <2>2
    <3>2. Tail(q)[i] = q[i + 1] /\ i + 1 \in 1..Len(q)
      BY <1>1, <3>1
    <3>. QED
      BY <1>1, <3>1, <3>2
  <2>3. CASE i >= Len(q)
    <3>1. i - Len(Tail(q)) \in DOMAIN js /\ new[i] = js[i - Len(Tail(q))]
      BY <1>1, <2>1, <2>3
    <3>. QED
      BY <3>1
  <2>. QED
    BY <1>1, <2>1, <2>2, <2>3
<1>. HIDE DEF q, new
<1>4. queue'[t] = new /\ pc'[t] = "begin"
  BY <1>2
<1>5. ticking' = ticking \ {q[1].tick}
  BY <1>1 DEF q
<1>. QED
  BY <1>2, <1>3, <1>4, <1>5 DEF LockStep, q

LEMMA FinishLock ==
    ASSUME TypeOK, NEW t \in Tickets, queue[t] # <<>>, Finish(t)
    PROVE  LockStep(t, 1)
<1>. DEFINE none == <<>>
<1>1. none \in Seq(Jobs) /\ \A i \in DOMAIN none : Plain(none[i])
  OBVIOUS
<1>2. Tail(queue[t]) \o none = Tail(queue[t])
  BY QueueFacts
<1>3. /\ queue' = [queue EXCEPT ![t] = Tail(queue[t]) \o none]
      /\ pc' = [pc EXCEPT ![t] = "begin"]
      /\ ticking' = ticking \ {Head(queue[t]).tick}
  BY <1>2 DEF Finish
<1>. HIDE DEF none
<1>. QED
  BY <1>1, <1>3, TailLock

LEMMA RejectLock ==
    ASSUME TypeOK, NEW t \in Tickets, queue[t] # <<>>, NEW r, Reject(t, r)
    PROVE  LockStep(t, 1)
<1>. DEFINE reverts == Head(queue[t]).tick \in Ticks /\ FirstColumn # DispatchColumn
            js == IF reverts THEN MoveJobs(t, FirstColumn) ELSE <<>>
<1>1. js \in Seq(Jobs) /\ \A i \in DOMAIN js : Plain(js[i])
  BY MoveJobsPlain, ColumnAssumption
<1>2. /\ queue' = [queue EXCEPT ![t] = Tail(@) \o js]
      /\ pc' = [pc EXCEPT ![t] = "begin"]
      /\ ticking' = ticking \ {Head(queue[t]).tick}
  BY DEF Reject
<1>. HIDE DEF js
<1>. QED
  BY <1>1, <1>2, TailLock

LEMMA LaneEndsLock ==
    ASSUME TypeOK, NEW t \in Tickets, NEW l \in Lanes, LaneEnds(l, t),
           l = "locked" => queue[t] # <<>>
    PROVE  \E d \in {0, 1} : LockStep(t, d)
BY FinishLock, SameLock DEF LaneEnds

LEMMA GrowLock ==
    ASSUME TypeOK, LockHeld, NEW t \in Tickets, NEW js \in Seq(Jobs),
           \A i \in DOMAIN js : Plain(js[i]),
           queue' = [queue EXCEPT ![t] = @ \o js], UNCHANGED <<pc, ticking>>
    PROVE  LockStep(t, 0)
<1>. DEFINE q == queue[t]
            new == q \o js
<1>1. q \in Seq(Jobs) /\ Len(q) \in Nat /\ DOMAIN q = 1..Len(q)
  BY QueueFacts
<1>2. \A u \in Tickets : queue'[u] = (IF u = t THEN new ELSE queue[u])
  BY DEF TypeOK
<1>3. ASSUME NEW i \in DOMAIN new
      PROVE  Plain(new[i]) \/ (i + 0 \in DOMAIN q /\ new[i] = q[i + 0])
  <2>1. DOMAIN new = 1..(Len(q) + Len(js)) /\ Len(js) \in Nat /\ DOMAIN js = 1..Len(js)
    BY <1>1
  <2>2. CASE i <= Len(q)
    BY <1>1, <2>1, <2>2
  <2>3. CASE i > Len(q)
    <3>1. i - Len(q) \in DOMAIN js /\ new[i] = js[i - Len(q)]
      BY <1>1, <2>1, <2>3
    <3>. QED
      BY <3>1
  <2>. QED
    BY <1>1, <2>1, <2>2, <2>3
<1>4. pc[t] = "workspace" => new[1] = q[1]
  BY <1>1 DEF LockHeld
<1>. HIDE DEF q, new
<1>5. queue'[t] = new /\ pc' = pc /\ ticking' = ticking
  BY <1>2
<1>6. \A i \in DOMAIN queue'[t] :
         \/ Plain(queue'[t][i])
         \/ /\ i + 0 \in DOMAIN queue[t]
            /\ queue'[t][i].kind = queue[t][i + 0].kind
            /\ queue'[t][i].tick = queue[t][i + 0].tick
  BY <1>3, <1>5 DEF q
<1>7. pc'[t] = "workspace" =>
         /\ queue'[t][1].kind = queue[t][1].kind
         /\ pc[t] = "workspace"
  BY <1>4, <1>5 DEF q
<1>8. \A u \in Tickets : u # t => queue'[u] = queue[u] /\ pc'[u] = pc[u]
  BY <1>2, <1>5
<1>9. ticking' = ticking /\ 0 # 1
  BY <1>5
<1>. QED
  BY <1>6, <1>7, <1>8, <1>9, Zenon DEF LockStep

\* A row becomes active only where a start is coming.
NoneWakes ==
    \A u \in Tickets : IsActive(row'[u].phase) => IsActive(row[u].phase) \/ u \in Coming

\* A step of t sets the phase of t's row to p, as far as it sets one.
LEMMA PhaseWakes ==
    ASSUME NEW t \in Tickets, NEW p,
           \A u \in Tickets : row'[u].phase = IF u = t THEN p ELSE row[u].phase,
           IsActive(p) => IsActive(row[t].phase) \/ t \in Coming
    PROVE  NoneWakes
BY DEF NoneWakes

LEMMA RowWakes ==
    ASSUME TypeOK, NEW t \in Tickets, NEW r, row' = [row EXCEPT ![t] = r],
           IsActive(r.phase) => IsActive(row[t].phase) \/ t \in Coming
    PROVE  NoneWakes
<1>1. \A u \in Tickets : row'[u] = IF u = t THEN r ELSE row[u]
  BY DEF TypeOK
<1>. QED
  BY <1>1 DEF NoneWakes

\* A start at the head of a lock is coming.
LEMMA HeadComing ==
    ASSUME TypeOK, StartsPaced, NEW t \in Tickets, queue[t] # <<>>,
           Head(queue[t]).kind \in Starters
    PROVE  Head(queue[t]).kind = "start" /\ t \in Coming
<1>1. Head(queue[t]) = queue[t][1] /\ 1 \in DOMAIN queue[t]
  BY QueueFacts
<1>2. IsStart(t, 1)
  BY <1>1 DEF StartsPaced, Plain
<1>. QED
  BY <1>1, <1>2 DEF Coming, IsStart

LEMMA CleanupPaced ==
    ASSUME TypeOK, LockHeld, NEW l \in Lanes, NEW t \in Tickets, CleanupStep(l, t)
    PROVE  NoneWakes /\ \E d \in {0, 1} : LockStep(t, d)
<1>0. /\ row[t] \in Rows /\ lane[l][t] \in Cleanups /\ "idle" \in Phases
      /\ lane[l][t].pc # "off" => (l = "locked" => queue[t] # <<>>)
  BY DEF TypeOK, Phases, LockHeld
<1>1. LaneEnds(l, t) \/ UNCHANGED <<queue, pc, ticking>>
  BY DEF CleanupStep, CheckDirty, CheckClean, Dispose, RemoveWorktree, RecordRemoval
<1>2. lane[l][t].pc # "off"
  BY DEF CleanupStep, CheckDirty, CheckClean, Dispose, RemoveWorktree, RecordRemoval
<1>3. \E d \in {0, 1} : LockStep(t, d)
  BY <1>0, <1>1, <1>2, LaneEndsLock, SameLock
<1>4. CASE UNCHANGED row
  BY <1>3, <1>4 DEF NoneWakes
<1>5. CASE CheckDirty(l, t)
  <2>. DEFINE r == [row[t] EXCEPT !.pending = @ \/ ~lane[l][t].pending]
  <2>1. r.phase = row[t].phase
    BY <1>0 DEF Rows
  <2>2. row' = [row EXCEPT ![t] = r]
    BY <1>5 DEF CheckDirty
  <2>. HIDE DEF r
  <2>. QED
    BY <1>3, <2>1, <2>2, RowWakes
<1>6. CASE RecordRemoval(l, t)
  <2>. DEFINE bare == [row[t] EXCEPT !.worktree = 0]
              cleared == [row[t] EXCEPT !.worktree = 0, !.pending = FALSE, !.autopilot = FALSE]
              r == IF l = "boot" THEN bare ELSE cleared
  <2>1. r.phase = row[t].phase
    BY <1>0 DEF Rows
  <2>2. row' = [row EXCEPT ![t] = r]
    BY <1>6 DEF RecordRemoval
  <2>. HIDE DEF r
  <2>. QED
    BY <1>3, <2>1, <2>2, RowWakes
<1>7. CASE Dispose(l, t)
  <2>. DEFINE s == lane[l][t]
              p == DisposedPhase(t, s)
              r == IF s.cur THEN [row[t] EXCEPT !.phase = p] ELSE row[t]
  <2>1. s.cur => p = "idle"
    BY DEF DisposedPhase
  <2>2. r \in Rows /\ (r.phase = "idle" \/ r.phase = row[t].phase)
    BY <1>0, <2>1 DEF Rows
  <2>3. row' = [row EXCEPT ![t] = r] \/ row' = [row EXCEPT ![t] = ClearedRow(r, s)]
    BY <1>7 DEF Dispose
  <2>. HIDE DEF p, r
  <2>4. ClearedRow(r, s).phase = r.phase
    BY <1>0, <2>2, CleanupRowPhase
  <2>5. IsActive(r.phase) => IsActive(row[t].phase)
    BY <2>2 DEF IsActive
  <2>. HIDE DEF s
  <2>. QED
    BY <1>3, <2>3, <2>4, <2>5, RowWakes
<1>. QED
  BY <1>4, <1>5, <1>6, <1>7 DEF CleanupStep, CheckClean, RemoveWorktree

\* Of the jobs left only a start asks for a column.
LEMMA EnsurePaced ==
    ASSUME TypeOK, StartsPaced, Asked, NEW t \in Tickets, queue[t] # <<>>, pc[t] = "workspace",
           NEW r \in Rows, r.phase = row[t].phase, EnsureColumn(t, r)
    PROVE  NoneWakes /\ \E d \in {0, 1} : LockStep(t, d)
<1>1. CASE Head(queue[t]).kind = "workspace"
  <2>1. Finish(t) /\ row' = [row EXCEPT ![t] = r]
    BY <1>1 DEF EnsureColumn
  <2>. QED
    BY <2>1, FinishLock, RowWakes
<1>2. CASE Head(queue[t]).kind # "workspace" /\ machines[t]
  <2>1. Suspend(t, "columnOld") /\ row' = [row EXCEPT ![t] = r]
    BY <1>2 DEF EnsureColumn
  <2>2. LockStep(t, 0)
    BY <2>1, SuspendLock
  <2>3. NoneWakes
    BY <2>1, RowWakes
  <2>. QED
    BY <2>2, <2>3
<1>3. CASE Head(queue[t]).kind # "workspace" /\ ~machines[t]
  <2>. DEFINE q == queue[t]
              old == [i \in DOMAIN q |-> [q[i] EXCEPT !.live = FALSE]]
              new == [r EXCEPT !.phase = "provisioning"]
  <2>1. /\ row' = [row EXCEPT ![t] = new]
        /\ queue' = [queue EXCEPT ![t] = old]
        /\ pc' = [pc EXCEPT ![t] = "columnNew"]
        /\ ticking' = ticking
    BY <1>3 DEF EnsureColumn
  <2>2. t \in Coming
    <3>1. Head(q).kind \in Starters
      BY <1>3, QueueFacts DEF Asked, Askers
    <3>. QED
      BY <3>1, HeadComing
  <2>3. \A i \in DOMAIN old : i + 0 \in DOMAIN q /\ old[i].kind = q[i + 0].kind
                                                /\ old[i].tick = q[i + 0].tick
    BY QueueFacts DEF Jobs
  <2>. HIDE DEF old, new
  <2>4. /\ \A u \in Tickets : u # t => queue'[u] = queue[u] /\ pc'[u] = pc[u]
        /\ queue'[t] = old /\ pc'[t] = "columnNew"
    BY <2>1 DEF TypeOK
  <2>5. LockStep(t, 0)
    BY <2>1, <2>3, <2>4 DEF LockStep, q
  <2>6. NoneWakes
    BY <2>1, <2>2, RowWakes
  <2>. QED
    BY <2>5, <2>6
<1>. QED
  BY <1>1, <1>2, <1>3

LEMMA ServePaced ==
    ASSUME TypeOK, LockHeld, PhasesUsed, StartsPaced, Asked, RowFollows,
           NEW t \in Tickets, Serve(t)
    PROVE  NoneWakes /\ \E d \in {0, 1} : LockStep(t, d)
<1>0. /\ row[t] \in Rows /\ phase[t] \in Phases
      /\ queue[t] # <<>> => Head(queue[t]) = queue[t][1]
  BY QueueFacts DEF TypeOK
<1>1. ASSUME UNCHANGED row PROVE NoneWakes
  BY <1>1 DEF NoneWakes
<1>2. CASE BeginStart(t) \/ BeginEnsure(t) \/ BeginSend(t) \/ BeginHalt(t)
  <2>1. queue[t] # <<>>
    BY <1>2 DEF BeginStart, BeginEnsure, BeginSend, BeginHalt, Holds
  <2>2. CASE Reject(t, row[t])
    <3>1. \A u \in Tickets : row'[u].phase = row[u].phase
      BY <1>0, <2>2, RejectEffect
    <3>2. NoneWakes
      BY <3>1 DEF NoneWakes
    <3>. QED
      BY <2>1, <2>2, <3>2, RejectLock
  <2>3. CASE UNCHANGED row /\ \E at \in {"reply", "stop"} : Suspend(t, at)
    BY <1>1, <2>3, SuspendLock
  <2>4. CASE UNCHANGED row /\ Suspend(t, "workspace") /\ Head(queue[t]).kind \in Askers
    BY <1>0, <1>1, <2>1, <2>4, SuspendLock
  <2>. QED
    BY <1>2, <2>2, <2>3, <2>4
       DEF BeginStart, BeginEnsure, BeginSend, BeginHalt, Holds, Askers, Starters
<1>3. CASE BeginStop(t)
  <2>1. row' = [row EXCEPT ![t] = [row[t] EXCEPT !.autopilot = FALSE]]
    BY <1>3 DEF BeginStop
  <2>2. [row[t] EXCEPT !.autopilot = FALSE].phase = row[t].phase
    BY <1>0 DEF Rows
  <2>3. NoneWakes
    BY <2>1, <2>2, RowWakes
  <2>4. queue[t] # <<>> /\ (Suspend(t, "stopGoal") \/ Finish(t))
    BY <1>3 DEF BeginStop, Holds
  <2>. QED
    BY <2>3, <2>4, SuspendLock, FinishLock
<1>4. CASE BeginFinalize(t)
  <2>1. row' = [row EXCEPT ![t] = CleanupRow(t, row[t])]
    BY <1>4 DEF BeginFinalize
  <2>2. CleanupRow(t, row[t]).phase = row[t].phase
    BY <1>0 DEF CleanupRow, ClearedRow, Rows
  <2>3. NoneWakes
    BY <2>1, <2>2, RowWakes
  <2>4. queue[t] # <<>> /\ (Suspend(t, "cleanup") \/ Finish(t))
    BY <1>4 DEF BeginFinalize, Holds
  <2>. QED
    BY <2>3, <2>4, SuspendLock, FinishLock
<1>5. CASE ResolveWorkspace(t)
  <2>1. queue[t] # <<>> /\ pc[t] = "workspace"
    BY <1>5 DEF ResolveWorkspace, Holds
  <2>2. \A w \in WorktreeIds : /\ [row[t] EXCEPT !.worktree = w] \in Rows
                               /\ [row[t] EXCEPT !.worktree = w].phase = row[t].phase
    <3>1. \A w \in WorktreeIds : w \in 0..MaxWorktrees
      BY BoundAssumption DEF WorktreeIds
    <3>. QED
      BY <1>0, <3>1 DEF Rows
  <2>3. CASE EnsureColumn(t, row[t])
    BY <1>0, <2>1, <2>3, EnsurePaced
  <2>4. CASE \E w \in WorktreeIds : EnsureColumn(t, [row[t] EXCEPT !.worktree = w])
    BY <2>1, <2>2, <2>4, EnsurePaced
  <2>5. CASE Reject(t, row[t])
    <3>1. \A u \in Tickets : row'[u].phase = row[u].phase
      BY <1>0, <2>5, RejectEffect
    <3>2. NoneWakes
      BY <3>1 DEF NoneWakes
    <3>. QED
      BY <2>1, <2>5, <3>2, RejectLock
  <2>. QED
    BY <1>5, <2>3, <2>4, <2>5 DEF ResolveWorkspace
<1>6. CASE ColumnAck(t)
  <2>1. queue[t] # <<>> /\ Head(queue[t]).kind \in Starters
    BY <1>6 DEF ColumnAck, Holds, Starters
  <2>2. Head(queue[t]).kind = "start" /\ t \in Coming
    BY <2>1, HeadComing
  <2>3. Finish(t) /\ row' = [row EXCEPT ![t].phase = Started(phase[t]), ![t].autopilot = TRUE]
    BY <1>6, <2>2 DEF ColumnAck
  <2>4. \A u \in Tickets : u # t => row'[u] = row[u]
    BY <2>3 DEF TypeOK
  <2>. QED
    BY <2>1, <2>2, <2>3, <2>4, FinishLock DEF NoneWakes
<1>7. CASE ColumnFail(t)
  <2>1. /\ [row[t] EXCEPT !.phase = "error"] \in Rows
        /\ [row[t] EXCEPT !.phase = "error"].phase = "error"
    BY <1>0 DEF Rows, Phases
  <2>2. queue[t] # <<>> /\ Reject(t, [row[t] EXCEPT !.phase = "error"])
    BY <1>7 DEF ColumnFail, Holds
  <2>3. \A u \in Tickets : row'[u].phase = IF u = t THEN "error" ELSE row[u].phase
    BY <2>1, <2>2, RejectEffect
  <2>4. NoneWakes
    BY <2>3, PhaseWakes DEF IsActive
  <2>. QED
    BY <2>2, <2>4, RejectLock
<1>8. CASE MessageDone(t)
  BY <1>1, <1>8, FinishLock DEF MessageDone, Holds
<1>9. CASE StopGoalDone(t)
  <2>1. queue[t] # <<>> /\ Finish(t) /\ SetPhase(t, "idle") /\ "idle" \in Phases
    BY <1>9 DEF StopGoalDone, Holds, Stopped, Phases
  <2>2. \A u \in Tickets : row'[u].phase = IF u = t THEN "idle" ELSE row[u].phase
    BY <2>1, SetPhaseEffect
  <2>3. NoneWakes
    BY <2>2, PhaseWakes DEF IsActive
  <2>. QED
    BY <2>1, <2>3, FinishLock
<1>10. CASE ResetStopped(t)
  <2>1. LockStep(t, 0)
    BY <1>10, SuspendLock DEF ResetStopped
  <2>2. CASE UNCHANGED row
    BY <1>1, <2>1, <2>2
  <2>3. CASE SetPhase(t, "idle")
    <3>1. \A u \in Tickets : row'[u].phase = IF u = t THEN "idle" ELSE row[u].phase
      BY <2>3, SetPhaseEffect DEF Phases
    <3>2. NoneWakes
      BY <3>1, PhaseWakes DEF IsActive
    <3>. QED
      BY <2>1, <3>2
  <2>. QED
    BY <1>10, <2>2, <2>3 DEF ResetStopped, Stopped
<1>11. CASE TerminalStopped(t)
  <2>. DEFINE live == Head(queue[t]).live
              p == IF live THEN Stopped(phase[t]) ELSE phase[t]
              r == IF live THEN [row[t] EXCEPT !.phase = p] ELSE row[t]
  <2>1. r \in Rows /\ (r.phase = "idle" \/ r.phase = row[t].phase)
    BY <1>0 DEF Rows, Stopped, Phases
  <2>2. /\ row' = [row EXCEPT ![t] = CleanupRow(t, r)]
        /\ Suspend(t, "cleanup") \/ Finish(t)
        /\ queue[t] # <<>>
    BY <1>11 DEF TerminalStopped, Holds
  <2>. HIDE DEF r
  <2>3. CleanupRow(t, r).phase = r.phase
    BY <2>1 DEF CleanupRow, ClearedRow, Rows
  <2>4. NoneWakes
    BY <2>1, <2>2, <2>3, RowWakes DEF IsActive
  <2>. QED
    BY <2>2, <2>4, SuspendLock, FinishLock
<1>12. CASE CleanupStep("locked", t)
  BY <1>12, CleanupPaced DEF Lanes
<1>. QED
  BY <1>2, <1>3, <1>4, <1>5, <1>6, <1>7, <1>8, <1>9, <1>10, <1>11, <1>12 DEF Serve

\* A user asks for no start, and no event wakes a supervisor.
LEMMA OtherPaced ==
    ASSUME TypeOK, LockHeld, PhasesUsed, RowFollows, Requests \intersect Starters = {},
           NEW t \in Tickets, User(t) \/ Column(t)
    PROVE  NoneWakes /\ LockStep(t, 0)
<1>1. ASSUME UNCHANGED row PROVE NoneWakes
  BY <1>1 DEF NoneWakes
<1>2. ASSUME NEW kind \in Requests, Request(t, kind)
      PROVE  NoneWakes /\ LockStep(t, 0)
  <2>. DEFINE js == <<Job(kind, NoTick)>>
  <2>1. Job(kind, NoTick) \in Jobs /\ Plain(Job(kind, NoTick))
    BY BoundAssumption DEF Job, Jobs, Plain
  <2>2. js \in Seq(Jobs) /\ \A i \in DOMAIN js : Plain(js[i])
    BY <2>1
  <2>3. queue' = [queue EXCEPT ![t] = @ \o js] /\ UNCHANGED <<row, pc, ticking>>
    <3>1. Append(queue[t], Job(kind, NoTick)) = queue[t] \o js
      BY <2>1, QueueFacts
    <3>. HIDE DEF js
    <3>. QED
      BY <1>2, <3>1 DEF Request
  <2>. HIDE DEF js
  <2>. QED
    BY <1>1, <2>2, <2>3, GrowLock
<1>3. ASSUME NEW c \in Columns, MoveTicketToColumn(t, c)
      PROVE  NoneWakes /\ LockStep(t, 0)
  <2>1. queue' = [queue EXCEPT ![t] = @ \o MoveJobs(t, c)] /\ UNCHANGED <<pc, ticking>>
    BY <1>3 DEF MoveTicketToColumn
  <2>2. LockStep(t, 0)
    BY <2>1, MoveJobsPlain, GrowLock
  <2>3. /\ MovedRow(row[t], c).phase = row[t].phase
        /\ CleanupRow(t, MovedRow(row[t], c)).phase = row[t].phase
    <3>1. row[t] \in Rows
      BY DEF TypeOK
    <3>2. MovedRow(row[t], c) \in Rows /\ MovedRow(row[t], c).phase = row[t].phase
      BY <3>1, MovedRowType DEF MovedRow, Rows
    <3>. QED
      BY <3>2 DEF CleanupRow, ClearedRow, Rows
  <2>4. \/ row' = [row EXCEPT ![t] = MovedRow(row[t], c)]
        \/ row' = [row EXCEPT ![t] = CleanupRow(t, MovedRow(row[t], c))]
    BY <1>3 DEF MoveTicketToColumn
  <2>5. NoneWakes
    BY <2>3, <2>4, RowWakes
  <2>. QED
    BY <2>2, <2>5
<1>4. ASSUME NEW w \in WorktreeIds, Edit(t, w) \/ Commit(t, w)
      PROVE  NoneWakes /\ LockStep(t, 0)
  BY <1>1, <1>4, SameLock DEF Edit, Commit
<1>5. ASSUME NEW p \in Phases, SetPhase(t, p), UNCHANGED <<queue, pc, ticking>>,
             IsActive(p) => IsActive(row[t].phase)
      PROVE  NoneWakes /\ LockStep(t, 0)
  <2>1. \A u \in Tickets : row'[u].phase = IF u = t THEN p ELSE row[u].phase
    BY <1>5, SetPhaseEffect
  <2>2. NoneWakes
    BY <1>5, <2>1, PhaseWakes
  <2>. QED
    BY <1>5, <2>2, SameLock
<1>6. phase[t] \in Phases \ {"connecting", "session_creating"}
  BY DEF TypeOK, PhasesUsed
<1>7. /\ {"idle", "error"} \subseteq Phases /\ ~IsActive("idle") /\ ~IsActive("error")
      /\ \A q \in {"running", "completed"} :
            /\ Transition(phase[t], q) \in Phases
            /\ IsActive(Transition(phase[t], q)) => IsActive(phase[t])
  BY <1>6 DEF Transition, Transitions, IsActive, Phases
<1>8. ASSUME NEW p \in Phases, Event(t, p), IsActive(p) => IsActive(phase[t])
      PROVE  NoneWakes /\ LockStep(t, 0)
  <2>1. row[t].phase = phase[t]
    BY <1>8 DEF Event, RowFollows
  <2>. QED
    BY <1>5, <1>8, <2>1 DEF Event
<1>9. CASE \/ RunStarted(t) \/ Disconnected(t) \/ GoalActive(t)
           \/ GoalCompleted(t) \/ GoalCancelled(t) \/ GoalTornDown(t)
  BY <1>7, <1>8, <1>9 DEF RunStarted, Disconnected, GoalActive, GoalCompleted, GoalCancelled,
     GoalTornDown
<1>10. CASE GoalStartAnswered(t)
  BY <1>1, <1>10, SameLock DEF GoalStartAnswered
<1>11. CASE GoalStartRejected(t)
  <2>1. CASE IsActive(phase[t])
    BY <1>5, <1>7, <1>11, <2>1 DEF GoalStartRejected
  <2>2. CASE ~IsActive(phase[t])
    BY <1>1, <1>11, <2>2, SameLock DEF GoalStartRejected
  <2>. QED
    BY <2>1, <2>2
<1>. QED
  BY <1>2, <1>3, <1>4, <1>9, <1>10, <1>11 DEF User, Column

\* Between two ticks no start is left, so a dispatch adds the only one.
LEMMA DispatchPaced ==
    ASSUME TypeOK, TypeOK', LockHeld, StartsPaced, Asked, \A j, k \in Ticks : j = k,
           NEW t \in Tickets, NEW k \in Ticks, AutoDispatchTick(k, t)
    PROVE  StartsPaced' /\ Asked' /\ Load' \subseteq ActiveWip \union {t}
<1>. DEFINE q == queue[t]
            old == q \o MoveJobs(t, DispatchColumn)
            new == old \o <<Job("start", k)>>
            n == Len(old) + 1
<1>1. ticking = {} /\ ticking' = {k}
  BY DEF AutoDispatchTick, TypeOK
<1>2. \A u \in Tickets : \A i \in DOMAIN queue[u] : Plain(queue[u][i])
  BY <1>1 DEF StartsPaced
<1>3. /\ MoveJobs(t, DispatchColumn) \in Seq(Jobs)
      /\ \A i \in DOMAIN MoveJobs(t, DispatchColumn) : Plain(MoveJobs(t, DispatchColumn)[i])
  BY MoveJobsPlain, ColumnAssumption
<1>4. /\ old \in Seq(Jobs) /\ Len(old) \in Nat /\ DOMAIN old = 1..Len(old)
      /\ \A i \in DOMAIN old : Plain(old[i])
  <2>. DEFINE js == MoveJobs(t, DispatchColumn)
  <2>1. q \in Seq(Jobs) /\ js \in Seq(Jobs) /\ \A i \in DOMAIN js : Plain(js[i])
    BY <1>3, QueueFacts
  <2>2. \A i \in DOMAIN q : Plain(q[i])
    BY <1>2
  <2>. HIDE DEF q, js
  <2>3. q \o js \in Seq(Jobs) /\ Len(q \o js) = Len(q) + Len(js)
    BY <2>1
  <2>4. ASSUME NEW i \in DOMAIN (q \o js)
        PROVE  Plain((q \o js)[i])
    <3>1. CASE i <= Len(q)
      BY <2>1, <2>2, <2>3, <3>1
    <3>2. CASE i > Len(q)
      <4>1. i - Len(q) \in DOMAIN js /\ (q \o js)[i] = js[i - Len(q)]
        BY <2>1, <2>3, <3>2
      <4>. QED
        BY <2>1, <4>1
    <3>. QED
      BY <2>1, <2>3, <3>1, <3>2
  <2>. QED
    BY <2>3, <2>4 DEF js
<1>5. q # <<>> => new[1] = q[1]
  BY <1>3, <1>4, QueueFacts
<1>. HIDE DEF old
<1>6. DOMAIN new = 1..n /\ new[n] = Job("start", k) /\ \A i \in 1..Len(old) : new[i] = old[i]
  <2>1. Job("start", k) \in Jobs
    BY DEF Job, Jobs, Kinds
  <2>. QED
    BY <1>4, <2>1
<1>7. /\ \A u \in Tickets : queue'[u] = IF u = t THEN new ELSE queue[u]
      /\ pc' = pc
  BY DEF AutoDispatchTick, TypeOK, old
<1>. HIDE DEF new, q
<1>8. ASSUME NEW u \in Tickets, NEW i \in DOMAIN queue'[u]
      PROVE  Plain(queue'[u][i]) \/ (u = t /\ i = n /\ queue'[u][i] = Job("start", k))
  <2>1. CASE u = t /\ i = n
    BY <1>6, <1>7, <2>1
  <2>2. CASE u = t /\ i # n
    <3>1. i \in 1..Len(old)
      BY <1>4, <1>6, <1>7, <2>2
    <3>. QED
      BY <1>4, <1>6, <1>7, <2>2, <3>1
  <2>3. CASE u # t
    BY <1>2, <1>7, <2>3
  <2>. QED
    BY <2>1, <2>2, <2>3
<1>9. ASSUME NEW u \in Tickets, NEW i \in DOMAIN queue'[u], queue'[u][i].kind = "start"
      PROVE  u = t /\ i = n
  BY <1>8, <1>9 DEF Plain, Starters
<1>10. StartsPaced'
  BY <1>1, <1>8, <1>9 DEF StartsPaced, IsStart, Job
<1>11. Asked'
  BY <1>5, <1>7 DEF Asked, LockHeld, q
<1>12. Coming' \subseteq {t}
  BY <1>9 DEF Coming, IsStart
<1>13. ActiveWip' = ActiveWip
  <2>1. row[t] \in Rows /\ row' = [row EXCEPT ![t] = MovedRow(row[t], DispatchColumn)]
    BY DEF TypeOK, AutoDispatchTick
  <2>2. MovedRow(row[t], DispatchColumn).phase = row[t].phase
    BY <2>1 DEF MovedRow, Rows
  <2>3. \A u \in Tickets : row'[u].phase = row[u].phase
    BY <2>1, <2>2 DEF TypeOK
  <2>. QED
    BY <2>3 DEF ActiveWip
<1>. QED
  BY <1>10, <1>11, <1>12, <1>13 DEF Load

LEMMA PacedInductive ==
    ASSUME Requests \intersect Starters = {}, \A j, k \in Ticks : j = k
    PROVE  /\ Init => PacedInv
           /\ IInv /\ PacedInv /\ [Next]_vars => PacedInv'
<1>0. /\ IsFiniteSet(Tickets) /\ WipLimit \in Nat
      /\ \A S \in SUBSET Tickets : IsFiniteSet(S) /\ Cardinality(S) \in Nat
  BY BoundAssumption, FS_Subset, FS_CardinalityType
<1>1. ASSUME Init PROVE PacedInv
  <2>1. StartsPaced /\ Asked /\ Coming = {}
    BY <1>1 DEF Init, StartsPaced, Asked, Coming
  <2>2. ActiveWip = {}
    BY <1>1 DEF Init, ActiveWip, IsActive, NewRow
  <2>. QED
    BY <1>0, <2>1, <2>2, FS_EmptySet DEF PacedInv, Load
<1>2. ASSUME IInv, PacedInv, Next PROVE PacedInv'
  <2>1. TypeOK' /\ Load \in SUBSET Tickets /\ Cardinality(Load) <= WipLimit
    BY <1>2, NextType DEF IInv, PacedInv, Load, ActiveWip, Coming
  <2>2. ASSUME NEW t \in Tickets, NEW d \in {0, 1}, LockStep(t, d), NoneWakes
        PROVE  PacedInv'
    <3>1. StartsPaced' /\ Asked' /\ Coming' \subseteq Coming
      BY <1>2, <2>1, <2>2, LockStepPaced DEF IInv, PacedInv
    <3>2. Load' \in SUBSET Load
      BY <2>2, <3>1 DEF NoneWakes, Load, ActiveWip
    <3>3. Cardinality(Load') <= Cardinality(Load) /\ Cardinality(Load') \in Nat
      <4>. DEFINE S == Load
                  T == Load'
      <4>1. IsFiniteSet(S) /\ T \in SUBSET S /\ T \in SUBSET Tickets
        BY <1>0, <2>1, <3>2
      <4>. HIDE DEF S, T
      <4>2. Cardinality(T) <= Cardinality(S) /\ Cardinality(T) \in Nat
        BY <1>0, <4>1, FS_Subset
      <4>. QED
        BY <4>2 DEF S, T
    <3>4. Cardinality(Load') <= WipLimit
      BY <1>0, <2>1, <3>3
    <3>. QED
      BY <3>1, <3>4 DEF PacedInv
  <2>3. ASSUME NEW t \in Tickets, NEW k \in Ticks, AutoDispatchTick(k, t)
        PROVE  PacedInv'
    <3>1. StartsPaced' /\ Asked' /\ Load' \subseteq ActiveWip \union {t}
      BY <1>2, <2>1, <2>3, DispatchPaced DEF IInv, PacedInv
    <3>2. Cardinality(ActiveWip) < WipLimit /\ ActiveWip \in SUBSET Tickets
      BY <2>3 DEF AutoDispatchTick, WipRoom, ActiveWip
    <3>3. Cardinality(Load') <= WipLimit
      <4>. DEFINE S == ActiveWip
                  T == Load'
      <4>1. /\ IsFiniteSet(S) /\ Cardinality(S) \in Nat /\ Cardinality(S) < WipLimit
            /\ T \in SUBSET (S \union {t}) /\ T \in SUBSET Tickets
        BY <1>0, <3>1, <3>2
      <4>. HIDE DEF S, T
      <4>. DEFINE U == S \union {t}
      <4>0. /\ IsFiniteSet(U)
            /\ Cardinality(U) = IF t \in S THEN Cardinality(S) ELSE Cardinality(S) + 1
        BY <4>1, FS_AddElement
      <4>. HIDE DEF U
      <4>2. Cardinality(U) <= WipLimit /\ Cardinality(U) \in Nat
        BY <1>0, <4>0, <4>1
      <4>3. Cardinality(T) <= Cardinality(U) /\ Cardinality(T) \in Nat
        BY <1>0, <4>0, <4>1, FS_Subset DEF U
      <4>4. Cardinality(T) <= WipLimit
        BY <1>0, <4>2, <4>3
      <4>. QED
        BY <4>4 DEF T
    <3>. QED
      BY <3>1, <3>3 DEF PacedInv
  <2>4. ASSUME Restart PROVE PacedInv'
    <3>1. StartsPaced' /\ Asked' /\ Coming' = {}
      BY <2>4 DEF Restart, StartsPaced, Asked, Coming
    <3>2. ActiveWip' = {}
      BY <1>2, <2>4 DEF Restart, ActiveWip, IsActive, IInv, TypeOK, Rows
    <3>3. Load' = {}
      BY <3>1, <3>2 DEF Load
    <3>. QED
      BY <1>0, <3>1, <3>3, FS_EmptySet DEF PacedInv
  <2>5. {"free", "boot"} \subseteq Lanes
    BY DEF Lanes
  <2>6. ASSUME NEW t \in Tickets,
               Serve(t) \/ CleanupStep("free", t) \/ CleanupStep("boot", t)
        PROVE  PacedInv'
    BY <1>2, <2>2, <2>5, <2>6, ServePaced, CleanupPaced DEF IInv, PacedInv
  <2>7. ASSUME NEW t \in Tickets, User(t) \/ Column(t)
        PROVE  PacedInv'
    BY <1>2, <2>2, <2>7, OtherPaced DEF IInv, PacedInv
  <2>. QED
    BY <1>2, <2>3, <2>4, <2>6, <2>7 DEF Next, Running
<1>3. ASSUME PacedInv, UNCHANGED vars PROVE PacedInv'
  BY <1>3 DEF vars, PacedInv, StartsPaced, Asked, IsStart, Load, ActiveWip, Coming
<1>. QED
  BY <1>1, <1>2, <1>3

\* While the dispatcher alone starts supervisors and its ticks do not overlap, the
\* tickets at work never exceed the WIP limit, although a start that was counted
\* as nothing becomes active only awaits later: the comment at wipLimit.
THEOREM DispatcherPaced ==
    ASSUME Requests \intersect Starters = {}, \A j, k \in Ticks : j = k
    PROVE  Spec => []WipPaced
<1>1. PacedInv => WipPaced
  <2>1. ASSUME PacedInv PROVE WipPaced
    <3>. DEFINE S == Load
                T == ActiveWip
    <3>1. IsFiniteSet(S) /\ T \in SUBSET S /\ IsFiniteSet(T)
      BY BoundAssumption, FS_Subset DEF Load, ActiveWip, Coming
    <3>. HIDE DEF S, T
    <3>2. Cardinality(T) <= Cardinality(S) /\ Cardinality(T) \in Nat /\ Cardinality(S) \in Nat
      BY <3>1, FS_Subset, FS_CardinalityType
    <3>3. Cardinality(S) <= WipLimit /\ WipLimit \in Nat
      BY <2>1, BoundAssumption DEF PacedInv, S
    <3>4. Cardinality(T) <= WipLimit
      BY <3>2, <3>3
    <3>. QED
      BY <3>4 DEF WipPaced, T
  <2>. QED
    BY <2>1
<1>2. /\ Init => PacedInv
      /\ IInv /\ PacedInv /\ [Next]_vars => PacedInv'
  BY PacedInductive
<1>. QED
  BY <1>1, <1>2, Invariance, PTL DEF Spec

===========================================================================
