-------------------------- MODULE ResidentAgents --------------------------
(***************************************************************************)
(* One resident agent: its AgentRuntime in ResidentAgentManager, its lane  *)
(* (the promise chain that runs its deliveries, reflections and parks one  *)
(* at a time), the ResidentWatcher on its serve process, and that process. *)
(*                                                                         *)
(* Agents share nothing but the channel log, so one agent is the system.   *)
(* A step is the code between two awaits; lane[1] is the task under way    *)
(* and job says where it is suspended.  Timers, socket events, the user's  *)
(* requests and the serve process interleave with it.  A day is a number,  *)
(* 0 stands for the code's null.  Rows of the log the agent may not read   *)
(* are left out: they only advance the cursor.                             *)
(***************************************************************************)
EXTENDS Integers, Sequences, FiniteSets

CONSTANTS
    MaxDay,      \* bound: days 1..MaxDay, the agent is created on day 1
    MaxRow,      \* bound: rows the channel log may hold
    MaxLane,     \* bound: tasks in the lane
    MaxBacklog,  \* bound: pings serve holds for later runs
    MaxFaults,   \* bound: crashes, lost sockets and refused calls
    Requests     \* what users and teammates do in a run, a subset of Kinds

Kinds == {"direct", "plain", "quiet", "wake", "open", "talk", "toggle",
          "reconfigure", "delete", "restart", "midnight"}

ASSUME ResidentAssumption ==
    /\ MaxDay \in Nat \ {0} /\ MaxRow \in Nat /\ MaxLane \in Nat \ {0}
    /\ MaxBacklog \in Nat \ {0} /\ MaxFaults \in Nat
    /\ Requests \subseteq Kinds

Days == 1..MaxDay
Rows == 1..MaxRow
Tasks == {"deliver", "reflect", "idle", "park", "drop", "open"}

VARIABLES
    agent,   \* the roster entry: "on", "off" or "gone"
    today,   \* dayKey(now)
    log,     \* the newest row of the channel log
    rt,      \* the AgentRuntime
    lane,    \* its promise chain
    job,     \* the suspended task: the head of the lane
    watch,   \* the ResidentWatcher and its socket
    serve,   \* the agent process: up or not, its run and queued pings
    kept,    \* what outlives the process: the beat record and the sessions
    faults   \* faults so far

vars == <<agent, today, log, rt, lane, job, watch, serve, kept, faults>>

---------------------------------------------------------------------------
(* Events and the runtime *)

Event(kind, row) == [kind |-> kind, row |-> row]
Beat == Event("day_start", 0)
CatchUp == Event("catch_up", 0)
Events == [kind : {"direct", "plain", "wake", "day_start", "catch_up"}, row : 0..MaxRow]

\* isWakeNow: every kind but channel_post, here "plain".
WakeNow(e) == e.kind # "plain"
WakePending(r) == \E e \in r.pending : WakeNow(e)

FreshRuntime(cursor) ==
    [pending |-> {}, cursor |-> cursor, beatQueued |-> 0, day |-> 0, st |-> "parked",
     thinking |-> FALSE, deliverTimer |-> FALSE, parkTimer |-> FALSE]

NoJob == [at |-> "queued", part |-> "main", day |-> 0, target |-> 0,
          batch |-> {}, sent |-> FALSE, waiting |-> FALSE]

NoWatch == [sock |-> "none", attached |-> {}, heard |-> 0,
            waiter |-> [d \in Days |-> "none"], orphan |-> [d \in Days |-> FALSE]]

NoServe == [proc |-> "off", run |-> 0, backlog |-> <<>>]

\* dispatchEvent with scheduleDelivery, on runtime r.
Dispatched(r, e) ==
    IF agent # "on" THEN r
    ELSE [r EXCEPT !.pending = @ \cup {e}, !.deliverTimer = @ \/ WakeNow(e)]

\* A slip: the next batch is left to the next event.
SettledNoRetry(r) ==
    [r EXCEPT !.thinking = FALSE, !.st = IF @ = "parked" THEN @ ELSE "idle",
              !.parkTimer = TRUE]

\* The end of deliver, also after a failure: what queued meanwhile is next.
Settled(r) ==
    [r EXCEPT !.thinking = FALSE, !.st = IF @ = "parked" THEN @ ELSE "idle",
              !.parkTimer = TRUE, !.deliverTimer = @ \/ WakePending(r)]

Heard(d) == watch.sock = "open" /\ d \in watch.attached

---------------------------------------------------------------------------
(* The lane *)

Chained(task) == Len(lane) < MaxLane /\ lane' = Append(lane, task)

\* The bounded lane keeps a place for the debounce timer and the day tick.
Requested(task) == Len(lane) < MaxLane - 1 /\ Chained(task)

Starts(tasks) == lane # <<>> /\ Head(lane) \in tasks /\ job.at = "queued"
On(task) == lane # <<>> /\ Head(lane) = task
At(places) == lane # <<>> /\ job.at \in places

EndTask(r) == lane' = Tail(lane) /\ job' = NoJob /\ rt' = r

ToAttachSameDay(r, part) ==  \* a slip: a parked agent goes on in the session of its last day
    job' = [job EXCEPT !.at = "attach", !.part = part, !.day = r.day] /\ rt' = r

\* Past ensureRunning: deliver and ensureSession take today's session.
ToAttach(r, part) ==
    /\ job' = [job EXCEPT !.at = "attach", !.part = part,
                          !.day = IF part = "main" THEN today ELSE r.day]
    /\ rt' = IF part = "reflect" THEN r
             ELSE [r EXCEPT !.day = IF On("deliver") \/ @ = 0 THEN today ELSE @]

\* ensureRunning: a deleted agent throws, a running process returns at once.
EnsureRunning(r, part) ==
    CASE agent = "gone" -> /\ job' = [job EXCEPT !.at = "failing", !.part = part]
                           /\ rt' = r
      [] agent # "gone" /\ serve.proc = "on" -> ToAttach(r, part)
      [] OTHER -> /\ job' = [job EXCEPT !.at = "boot", !.part = part]
                  /\ rt' = [r EXCEPT !.st = "starting"]

DayRolled(r) == r.day # 0 /\ r.day # today /\ agent # "gone"

\* reflectIfDayRolled of yesterday's session, before the task's own work.
Reflect(r) ==
    IF serve.proc = "on"
    THEN /\ job' = [job EXCEPT !.at = "attach", !.part = "reflect", !.day = r.day, !.target = today]
         /\ rt' = [r EXCEPT !.st = "reflecting"]
    ELSE /\ job' = [job EXCEPT !.at = "boot", !.part = "reflect", !.target = today]
         /\ rt' = [r EXCEPT !.st = "starting"]

\* park, up to its await of processManager.stop; also the watcher's close().
Park(r) ==
    /\ watch' = NoWatch
    /\ rt' = [r EXCEPT !.parkTimer = FALSE]
    /\ job' = [NoJob EXCEPT !.at = "stop"]
    /\ UNCHANGED lane

\* After reflectIfDayRolled: the day is over even when the reflection failed.
Reflected ==
    LET r == [rt EXCEPT !.day = job.target, !.st = "idle"] IN
    CASE On("reflect") -> EndTask(r) /\ UNCHANGED watch
      [] On("idle") -> Park(r)
      [] OTHER -> EnsureRunning(r, "main") /\ UNCHANGED <<lane, watch>>

\* deliver: the guards before its first await.
DeliverStarts ==
    /\ Starts({"deliver"})
    /\ IF agent # "on" THEN EndTask([rt EXCEPT !.pending = {}])
       ELSE IF ~WakePending(rt) THEN EndTask(rt)
       ELSE /\ IF DayRolled(rt) THEN Reflect(rt) ELSE EnsureRunning(rt, "main")
            /\ UNCHANGED lane
    /\ UNCHANGED <<agent, today, log, watch, serve, kept, faults>>

ReflectStarts ==
    /\ Starts({"reflect"})
    /\ IF DayRolled(rt) THEN Reflect(rt) /\ UNCHANGED lane ELSE EndTask(rt)
    /\ UNCHANGED <<agent, today, log, watch, serve, kept, faults>>

\* ensureSession, off its fast path.
OpenStarts ==
    /\ Starts({"open"})
    /\ LET r == [rt EXCEPT !.parkTimer = FALSE] IN
         IF DayRolled(r) THEN Reflect(r) ELSE EnsureRunning(r, "main")
    /\ UNCHANGED <<agent, today, log, lane, watch, serve, kept, faults>>

\* The idle park timer's task: a busy agent is looked at again later.
IdleStarts ==
    /\ Starts({"idle"})
    /\ IF rt.pending # {} \/ rt.thinking
       THEN EndTask([rt EXCEPT !.parkTimer = TRUE]) /\ UNCHANGED watch
       ELSE IF DayRolled(rt) THEN Reflect(rt) /\ UNCHANGED <<lane, watch>>
       ELSE Park(rt)
    /\ UNCHANGED <<agent, today, log, serve, kept, faults>>

\* Disabling, rescoping and deleting park without reflecting.
ParkStarts ==
    /\ Starts({"park", "drop"})
    /\ Park(rt)
    /\ UNCHANGED <<agent, today, log, serve, kept, faults>>

\* processManager.stop is over; a deleted agent's runtime is dropped.
Parked ==
    /\ At({"stop"})
    /\ serve' = NoServe
    /\ EndTask(IF On("drop") THEN FreshRuntime(0)
               ELSE [rt EXCEPT !.thinking = FALSE, !.st = "parked"])
    /\ UNCHANGED <<agent, today, log, watch, kept, faults>>

---------------------------------------------------------------------------
(* From a process to a ping in the session *)

ProcessUp ==
    /\ At({"boot"})
    /\ serve' = [serve EXCEPT !.proc = "on"]
    /\ ToAttach(rt, job.part)
    /\ UNCHANGED <<agent, today, log, lane, watch, kept, faults>>

Fault == faults < MaxFaults /\ faults' = faults + 1

BootFails ==
    /\ At({"boot"}) /\ Fault
    /\ job' = [job EXCEPT !.at = "failing"]
    /\ UNCHANGED <<agent, today, log, rt, lane, watch, serve, kept>>

\* ensureWatcher connects, and asks for a run already in flight today.
Connected ==
    /\ At({"attach"}) /\ watch.sock = "none" /\ serve.proc = "on"
    /\ watch' = [NoWatch EXCEPT !.sock = "open", !.attached = {today}]
    /\ rt' = IF serve.run = today
             THEN [rt EXCEPT !.thinking = TRUE, !.st = IF @ = "idle" THEN "thinking" ELSE @]
             ELSE rt
    /\ UNCHANGED <<agent, today, log, lane, job, serve, kept, faults>>

\* A wait for the end of the session's next run, and the message that starts it.
Attached(d) ==
    [watch EXCEPT !.attached = @ \cup {d}, !.waiter[d] = "mine"]

\* deliver has its session: it takes the batch and the unread rows (the cursor
\* passes them), and sends.
Taken ==
    /\ At({"attach"}) /\ On("deliver") /\ job.part = "main" /\ watch.sock = "open"
    /\ job' = [job EXCEPT !.at = "send", !.batch = rt.pending,
                          !.sent = FALSE, !.waiting = TRUE]
    /\ rt' = [rt EXCEPT !.pending = {}, !.cursor = log, !.thinking = TRUE, !.st = "thinking"]
    /\ watch' = Attached(job.day)
    /\ UNCHANGED <<agent, today, log, lane, serve, kept, faults>>

ReflectionSent ==
    /\ At({"attach"}) /\ job.part = "reflect" /\ watch.sock = "open"
    /\ job' = [job EXCEPT !.at = "send", !.waiting = TRUE]
    /\ watch' = Attached(job.day)
    /\ UNCHANGED <<agent, today, log, rt, lane, serve, kept, faults>>

SessionOpened ==
    /\ At({"attach"}) /\ On("open") /\ job.part = "main" /\ watch.sock = "open"
    /\ watch' = [watch EXCEPT !.attached = @ \cup {job.day}]
    /\ EndTask([rt EXCEPT !.st = IF @ \in {"starting", "parked"} THEN "idle" ELSE @])
    /\ UNCHANGED <<agent, today, log, serve, kept, faults>>

\* enqueue_message reaches serve: the ping is in the session for good.
Landed ==
    /\ At({"send"}) /\ ~job.sent /\ watch.sock = "open" /\ serve.proc = "on"
    /\ Len(serve.backlog) < MaxBacklog
    /\ serve' = [serve EXCEPT !.backlog = Append(@, job.day)]
    /\ job' = [job EXCEPT !.sent = TRUE]
    /\ kept' = [kept EXCEPT !.beats = @ \cup (IF Beat \in job.batch THEN {job.day} ELSE {})]
    /\ UNCHANGED <<agent, today, log, rt, lane, watch, faults>>

MarkedAlways(k) == [k EXCEPT !.marked = job.day]  \* a slip: whatever the batch held

\* The beat is recorded as delivered once the ping is acknowledged.
Marked(k) == IF Beat \in job.batch THEN [k EXCEPT !.marked = job.day] ELSE k

Acked ==
    /\ At({"send"}) /\ job.sent /\ watch.sock = "open"
    /\ job' = [job EXCEPT !.at = "wait"]
    /\ kept' = Marked(kept)
    /\ UNCHANGED <<agent, today, log, rt, lane, watch, serve, faults>>

\* A failed send leaves its wait in the watcher with nobody awaiting it.
Abandoned ==
    IF ~job.waiting THEN watch
    ELSE [watch EXCEPT !.waiter[job.day] = IF @ = "mine" THEN "orphan" ELSE @,
                       !.orphan[job.day] = watch.sock # "none"]

SendRefused ==
    /\ At({"send"}) /\ ~job.sent /\ watch.sock = "open" /\ Fault
    /\ job' = [job EXCEPT !.at = "failing", !.waiting = FALSE]
    /\ watch' = Abandoned
    /\ UNCHANGED <<agent, today, log, rt, lane, serve, kept>>

\* A call on a socket that is not open rejects, and so does a failed connect.
CallCut ==
    /\ \/ At({"send"}) /\ watch.sock # "open"
       \/ At({"attach"}) /\ watch.sock = "cut"
       \/ At({"attach"}) /\ watch.sock = "none" /\ serve.proc = "off"
    /\ job' = [job EXCEPT !.at = "failing", !.waiting = FALSE]
    /\ watch' = Abandoned
    /\ UNCHANGED <<agent, today, log, rt, lane, serve, kept, faults>>

\* The catch of the task: a beat that was not delivered may be queued again.
Caught ==
    /\ At({"failing"})
    /\ \/ job.part = "reflect" /\ Reflected
       \/ /\ job.part = "main" /\ On("deliver") /\ UNCHANGED watch
          /\ EndTask(Settled([rt EXCEPT !.beatQueued = IF Beat \in job.batch THEN 0 ELSE @]))
       \/ job.part = "main" /\ On("open") /\ EndTask(rt) /\ UNCHANGED watch
    /\ UNCHANGED <<agent, today, log, serve, kept, faults>>

\* The run end was heard, or the wait failed: either way the task goes on.
WaitOver ==
    /\ At({"wait"}) /\ ~job.waiting
    /\ \/ job.part = "reflect" /\ Reflected
       \/ job.part = "main" /\ EndTask(Settled(rt)) /\ UNCHANGED watch
    /\ UNCHANGED <<agent, today, log, serve, kept, faults>>

---------------------------------------------------------------------------
(* Waits for run ends *)

\* RUN_END_WAIT_MS and REFLECT_TIMEOUT_MS.
WaitTimesOut ==
    /\ lane # <<>> /\ job.waiting
    /\ job' = [job EXCEPT !.waiting = FALSE]
    /\ watch' = [watch EXCEPT !.waiter[job.day] = "none"]
    /\ UNCHANGED <<agent, today, log, rt, lane, serve, kept, faults>>

\* The timer of an abandoned wait deletes the session's entry, whoever's it is.
OrphanTimesOut(d) ==
    /\ watch.orphan[d]
    /\ watch' = [watch EXCEPT !.orphan[d] = FALSE, !.waiter[d] = "none"]
    /\ UNCHANGED <<agent, today, log, rt, lane, job, serve, kept, faults>>

\* Serve starts the next queued run; an attached watcher hears run_started.
RunStarts ==
    /\ serve.proc = "on" /\ serve.run = 0 /\ serve.backlog # <<>>
    /\ LET d == Head(serve.backlog) IN
         /\ serve' = [serve EXCEPT !.run = d, !.backlog = Tail(@)]
         /\ IF Heard(d)
            THEN /\ watch' = [watch EXCEPT !.heard = d]
                 /\ rt' = [rt EXCEPT !.thinking = TRUE, !.st = IF @ = "idle" THEN "thinking" ELSE @]
            ELSE UNCHANGED <<watch, rt>>
    /\ UNCHANGED <<agent, today, log, lane, job, kept, faults>>

\* run_end settles the wait of the session whose run_started was heard.
RunEnds ==
    /\ serve.run # 0
    /\ serve' = [serve EXCEPT !.run = 0]
    /\ IF Heard(serve.run)
       THEN /\ rt' = [rt EXCEPT !.thinking = FALSE, !.parkTimer = TRUE,
                                !.st = IF @ = "thinking" THEN "idle" ELSE @]
            /\ IF watch.heard = 0 THEN UNCHANGED <<watch, job>>
               ELSE LET d == watch.heard IN
                    /\ watch' = [watch EXCEPT !.heard = 0, !.waiter[d] = "none",
                                   !.orphan[d] = @ /\ watch.waiter[d] # "orphan"]
                    /\ job' = [job EXCEPT !.waiting = @ /\ watch.waiter[d] # "mine"]
       ELSE UNCHANGED <<rt, watch, job>>
    /\ UNCHANGED <<agent, today, log, lane, kept, faults>>

UnthinkNot(r) == r  \* a slip: the run in flight is still awaited

\* A closed socket can never deliver run_end: thinking ends with it.
Unthink(r) ==
    IF r.thinking \/ r.st = "thinking"
    THEN [r EXCEPT !.thinking = FALSE, !.st = IF @ = "thinking" THEN "idle" ELSE @, !.parkTimer = TRUE]
    ELSE r

\* The watcher's close event fails every wait in its map.
Closed ==
    /\ watch.sock = "cut"
    /\ watch' = NoWatch
    /\ job' = [job EXCEPT !.waiting = @ /\ \A d \in Days : watch.waiter[d] # "mine"]
    /\ rt' = Unthink(rt)
    /\ UNCHANGED <<agent, today, log, lane, serve, kept, faults>>

SocketLost ==
    /\ watch.sock = "open" /\ Fault
    /\ watch' = [watch EXCEPT !.sock = "cut"]
    /\ UNCHANGED <<agent, today, log, rt, lane, job, serve, kept>>

ProcessDies ==
    /\ serve.proc = "on" /\ Fault
    /\ serve' = NoServe
    /\ watch' = [watch EXCEPT !.sock = IF @ = "open" THEN "cut" ELSE @]
    /\ UNCHANGED <<agent, today, log, rt, lane, job, kept>>

---------------------------------------------------------------------------
(* Timers *)

\* DELIVERY_DEBOUNCE_MS
DeliverTimer ==
    /\ rt.deliverTimer
    /\ rt' = [rt EXCEPT !.deliverTimer = FALSE]
    /\ Chained("deliver")
    /\ UNCHANGED <<agent, today, log, job, watch, serve, kept, faults>>

\* PARK_IDLE_MS
ParkTimer ==
    /\ rt.parkTimer
    /\ rt' = [rt EXCEPT !.parkTimer = FALSE]
    /\ Requested("idle")
    /\ UNCHANGED <<agent, today, log, job, watch, serve, kept, faults>>

SweptBeat(r) ==
    IF agent = "on" /\ kept.marked # today /\ r.beatQueued # today /\ Beat \notin r.pending
    THEN Dispatched([r EXCEPT !.beatQueued = today], Beat)
    ELSE r

Overlooked(r) ==
    agent = "on" /\ ~r.thinking /\ ~r.deliverTimer /\ r.pending = {} /\ r.cursor < log

\* A slip: a parked agent is left alone.
SweptStaleAwake(r) == IF Overlooked(r) /\ r.st # "parked" THEN Dispatched(r, CatchUp) ELSE r

SweptStale(r) == IF Overlooked(r) THEN Dispatched(r, CatchUp) ELSE r

\* The five-minute tick: past the morning hour or not, the unread stale or not.
DayTick(past, stale) ==
    /\ agent # "gone"
    /\ IF rt.st # "parked" /\ DayRolled(rt) THEN Chained("reflect") ELSE UNCHANGED lane
    /\ LET r == IF past THEN SweptBeat(rt) ELSE rt IN
         rt' = IF stale THEN SweptStale(r) ELSE r
    /\ UNCHANGED <<agent, today, log, job, watch, serve, kept, faults>>

Midnight ==
    /\ "midnight" \in Requests /\ today < MaxDay
    /\ today' = today + 1
    /\ UNCHANGED <<agent, log, rt, lane, job, watch, serve, kept, faults>>

---------------------------------------------------------------------------
(* Users and teammates *)

\* A row for the agent: with an event that wakes it, a channel_post, or none.
Post(kind) ==
    /\ kind \in Requests \cap {"direct", "plain", "quiet"} /\ log < MaxRow
    /\ log' = log + 1
    /\ rt' = IF kind = "quiet" THEN rt ELSE Dispatched(rt, Event(kind, log + 1))
    /\ UNCHANGED <<agent, today, lane, job, watch, serve, kept, faults>>

\* wake, an assignment, an alarm or a column's end: an event without a row.
Wake ==
    /\ "wake" \in Requests
    /\ rt' = Dispatched(rt, Event("wake", 0))
    /\ UNCHANGED <<agent, today, log, lane, job, watch, serve, kept, faults>>

\* resident:ensure-session; a thinking agent is shown without queueing.
Open ==
    /\ "open" \in Requests /\ agent # "gone"
    /\ IF rt.thinking /\ watch.sock # "none" /\ rt.day = today /\ serve.proc = "on"
       THEN rt' = [rt EXCEPT !.parkTimer = FALSE] /\ UNCHANGED lane
       ELSE Requested("open") /\ UNCHANGED rt
    /\ UNCHANGED <<agent, today, log, job, watch, serve, kept, faults>>

\* The user writes in the agent's open day session.
Talk ==
    /\ "talk" \in Requests /\ serve.proc = "on" /\ serve.backlog = <<>>
    /\ serve' = [serve EXCEPT !.backlog = <<today>>]
    /\ UNCHANGED <<agent, today, log, rt, lane, job, watch, kept, faults>>

Toggle ==
    /\ "toggle" \in Requests
    /\ \/ agent = "on" /\ agent' = "off" /\ Requested("park")
       \/ agent = "off" /\ agent' = "on" /\ UNCHANGED lane
    /\ UNCHANGED <<today, log, rt, job, watch, serve, kept, faults>>

\* update with another scope or sandbox profile.
Reconfigure ==
    /\ "reconfigure" \in Requests /\ agent # "gone"
    /\ Requested("park")
    /\ UNCHANGED <<agent, today, log, rt, job, watch, serve, kept, faults>>

DeleteNow ==  \* a slip: the runtime is dropped beside the lane
    /\ agent # "gone"
    /\ agent' = "gone"
    /\ rt' = FreshRuntime(0)
    /\ watch' = NoWatch
    /\ serve' = NoServe
    /\ UNCHANGED <<today, log, lane, job, kept, faults>>

\* delete: off the roster at once, stopped and dropped on the lane.
Delete ==
    /\ "delete" \in Requests /\ agent # "gone"
    /\ agent' = "gone"
    /\ Requested("drop")
    /\ kept' = [kept EXCEPT !.marked = 0]
    /\ UNCHANGED <<today, log, rt, job, watch, serve, faults>>

\* The launcher ends and starts again: cursors start at the tail of the log.
Restart ==
    /\ "restart" \in Requests
    /\ rt' = FreshRuntime(IF agent = "gone" THEN 0 ELSE log)
    /\ lane' = <<>> /\ job' = NoJob /\ watch' = NoWatch /\ serve' = NoServe
    /\ UNCHANGED <<agent, today, log, kept, faults>>

---------------------------------------------------------------------------
Init ==
    /\ agent = "on" /\ today = 1 /\ log = 0
    /\ rt = FreshRuntime(0) /\ lane = <<>> /\ job = NoJob
    /\ watch = NoWatch /\ serve = NoServe
    /\ kept = [marked |-> 1, beats |-> {}]
    /\ faults = 0

LaneStep ==
    \/ DeliverStarts \/ ReflectStarts \/ OpenStarts \/ IdleStarts \/ ParkStarts
    \/ Parked \/ ProcessUp \/ Connected \/ Taken \/ ReflectionSent
    \/ SessionOpened \/ Landed \/ Acked \/ CallCut \/ Caught \/ WaitOver

Next ==
    \/ LaneStep \/ BootFails \/ SendRefused \/ WaitTimesOut
    \/ \E d \in Days : OrphanTimesOut(d)
    \/ RunStarts \/ RunEnds \/ Closed \/ SocketLost \/ ProcessDies
    \/ DeliverTimer \/ ParkTimer \/ Midnight
    \/ \E past, stale \in BOOLEAN : DayTick(past, stale)
    \/ \E kind \in Kinds : Post(kind)
    \/ Wake \/ Open \/ Talk \/ Toggle \/ Reconfigure \/ Delete \/ Restart

\* The event loop runs what is ready, timers fire, serve works through its
\* queue, a lost socket is noticed, and the day tick meets stale rows.
Fairness ==
    /\ WF_vars(LaneStep) /\ WF_vars(WaitTimesOut)
    /\ WF_vars(RunStarts) /\ WF_vars(RunEnds) /\ WF_vars(Closed)
    /\ WF_vars(DeliverTimer) /\ WF_vars(DayTick(TRUE, TRUE))

Spec == Init /\ [][Next]_vars /\ Fairness

---------------------------------------------------------------------------
(* Properties *)

RuntimeType ==
    [pending : SUBSET Events, cursor : 0..MaxRow, beatQueued : 0..MaxDay, day : 0..MaxDay,
     st : {"parked", "starting", "idle", "thinking", "reflecting"},
     thinking : BOOLEAN, deliverTimer : BOOLEAN, parkTimer : BOOLEAN]

\* Every variable has its type; the lane's head alone may be suspended, and a
\* task under way has the session it needs.
TypeOK ==
    /\ agent \in {"on", "off", "gone"} /\ today \in Days /\ log \in 0..MaxRow
    /\ rt \in RuntimeType
    /\ lane \in Seq(Tasks) /\ Len(lane) <= MaxLane
    /\ job \in [at : {"queued", "boot", "attach", "send", "wait", "failing", "stop"},
                part : {"main", "reflect"}, day : 0..MaxDay, target : 0..MaxDay,
                batch : SUBSET Events, sent : BOOLEAN, waiting : BOOLEAN]
    /\ watch \in [sock : {"none", "open", "cut"}, attached : SUBSET Days, heard : 0..MaxDay,
                  waiter : [Days -> {"none", "mine", "orphan"}], orphan : [Days -> BOOLEAN]]
    /\ serve \in [proc : {"on", "off"}, run : 0..MaxDay, backlog : Seq(Days)]
    /\ Len(serve.backlog) <= MaxBacklog
    /\ kept \in [marked : 0..MaxDay, beats : SUBSET Days]
    /\ faults \in 0..MaxFaults
    /\ job.at # "queued" => lane # <<>>
    /\ job.at \in {"attach", "send", "wait"} => job.day # 0

\* No wake-up is lost: while an enabled agent has a pending event that wakes it,
\* a delivery is under way or queued, or the debounce timer that queues one runs.
WakeScheduled ==
    agent = "on" /\ WakePending(rt) =>
        rt.deliverTimer \/ \E i \in 1..Len(lane) : lane[i] = "deliver"

\* The day's morning beat counts as delivered only when the session holds it
\* (the comments of sweepMorningBeat and deliver).
MarkedBeatDelivered == kept.marked > 1 => kept.marked \in kept.beats

\* An agent is never "thinking" without a watcher that can tell it the end:
\* otherwise its idle park would be put off for ever (the comment of onClosed).
ThinkingIsWatched == rt.thinking => watch.sock # "none" \/ job.at = "stop"

\* A deleted agent leaves nothing behind: once its lane is empty the process is
\* stopped and the watcher closed.
GoneIsStopped == agent = "gone" /\ lane = <<>> => serve.proc = "off" /\ watch.sock = "none"

\* Whatever wakes an enabled agent reaches it: the pending events are taken.
WakeServed == agent = "on" /\ WakePending(rt) ~> agent # "on" \/ ~WakePending(rt)

\* The eventual-delivery guarantee: an unread row is digested some day.
UnreadServed == \A r \in Rows : agent = "on" /\ rt.cursor < r /\ r <= log ~> agent # "on" \/ rt.cursor >= r

===========================================================================
