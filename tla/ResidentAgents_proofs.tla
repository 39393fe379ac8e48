----------------------- MODULE ResidentAgents_proofs -----------------------
(* Proofs about ResidentAgents, for every bound and every set of requests. *)
EXTENDS ResidentAgents, SequenceTheorems, TLAPS

Stages == {"queued", "boot", "attach", "send", "wait", "failing", "stop"}
Parts == {"main", "reflect"}

JobType ==
    [at : Stages, part : Parts, day : 0..MaxDay, target : 0..MaxDay,
     batch : SUBSET Events, sent : BOOLEAN, waiting : BOOLEAN]
WatchType ==
    [sock : {"none", "open", "cut"}, attached : SUBSET Days, heard : 0..MaxDay,
     waiter : [Days -> {"none", "mine", "orphan"}], orphan : [Days -> BOOLEAN]]
ServeType == [proc : {"on", "off"}, run : 0..MaxDay, backlog : Seq(Days)]
KeptType == [marked : 0..MaxDay, beats : SUBSET Days]

---------------------------------------------------------------------------
(* The inductive invariant *)

Queued(s, task) == \E i \in 1..Len(s) : s[i] = task

WorldTyped ==
    agent \in {"on", "off", "gone"} /\ today \in Days /\ log \in 0..MaxRow /\ faults \in 0..MaxFaults
LaneTyped == lane \in Seq(Tasks) /\ Len(lane) <= MaxLane
ServeTyped == serve \in ServeType /\ Len(serve.backlog) <= MaxBacklog

\* The variables' types: TypeOK without its statements about the job.
Typed ==
    /\ WorldTyped /\ rt \in RuntimeType /\ LaneTyped /\ job \in JobType
    /\ watch \in WatchType /\ ServeTyped /\ kept \in KeptType

\* A suspended task is the head of the lane; it has a session once it is past
\* ensureRunning, and a reflection about to start has one to reflect on.
HasSession ==
    /\ job.at # "queued" => lane # <<>>
    /\ job.at \in {"attach", "send", "wait"} => job.day # 0
    /\ job.part = "reflect" /\ job.at = "boot" => rt.day # 0

\* WakeScheduled, also of a disabled agent.
Wakes == WakePending(rt) => rt.deliverTimer \/ Queued(lane, "deliver")

\* Only a park stops the process, after it closed the watcher, and a park that
\* was asked for does nothing else.
Stopping == job.at = "stop" => Head(lane) \in {"idle", "park", "drop"} /\ watch.sock = "none"
Parking == lane # <<>> /\ Head(lane) \in {"park", "drop"} => job.at \in {"queued", "stop"}

\* The batch is held from the send to the end of the delivery, and its beat is
\* in the session of the ping once that landed.
Batched == job.batch # {} => job.part = "main" /\ job.at \in {"send", "wait", "failing"}
Sent == Beat \in job.batch /\ job.sent => job.day \in kept.beats

\* Past the drop of a deleted agent nothing starts its process again.
Gone ==
    agent = "gone" /\ ~Queued(lane, "drop") =>
        serve.proc = "off" /\ watch.sock = "none" /\ job.at \in {"queued", "failing", "stop"}

Safe ==
    /\ Wakes /\ Stopping /\ Parking /\ Batched /\ Sent /\ Gone
    /\ MarkedBeatDelivered /\ ThinkingIsWatched

IInv == Typed /\ HasSession /\ Safe

---------------------------------------------------------------------------
(* The lane *)

LEMMA Popped ==
    ASSUME NEW s \in Seq(Tasks), s # <<>>
    PROVE  /\ Tail(s) \in Seq(Tasks) /\ Len(Tail(s)) = Len(s) - 1
           /\ Head(s) \in Tasks
           /\ \A task : Queued(s, task) => Head(s) = task \/ Queued(Tail(s), task)
<1>1. /\ Tail(s) \in Seq(Tasks) /\ Len(Tail(s)) = Len(s) - 1
      /\ Head(s) \in Tasks /\ Head(s) = s[1] /\ Len(s) \in Nat
      /\ \A i \in 1..Len(Tail(s)) : Tail(s)[i] = s[i + 1]
  BY HeadTailProperties
<1>2. ASSUME NEW task, NEW i \in 1..Len(s), s[i] = task, i # 1
      PROVE  Queued(Tail(s), task)
  <2>1. i - 1 \in 1..Len(Tail(s)) /\ Tail(s)[i - 1] = s[i]
    BY <1>1, <1>2
  <2>. QED
    BY <1>2, <2>1 DEF Queued
<1>. QED
  BY <1>1, <1>2 DEF Queued

LEMMA Pushed ==
    ASSUME NEW s \in Seq(Tasks), NEW task \in Tasks
    PROVE  /\ Append(s, task) \in Seq(Tasks) /\ Len(Append(s, task)) = Len(s) + 1
           /\ Append(s, task) # <<>>
           /\ Head(Append(s, task)) = IF s = <<>> THEN task ELSE Head(s)
           /\ Queued(Append(s, task), task)
           /\ \A other : Queued(s, other) => Queued(Append(s, task), other)
<1>. DEFINE t == Append(s, task)
<1>1. /\ t \in Seq(Tasks) /\ Len(t) = Len(s) + 1 /\ Len(s) \in Nat
      /\ \A i \in 1..Len(s) : t[i] = s[i]
      /\ t[Len(s) + 1] = task
  BY AppendProperties
<1>. HIDE DEF t
<1>2. t # <<>> /\ Head(t) = t[1]
  BY <1>1
<1>3. Head(t) = IF s = <<>> THEN task ELSE Head(s)
  BY <1>1, <1>2
<1>4. Queued(t, task) /\ \A other : Queued(s, other) => Queued(t, other)
  BY <1>1 DEF Queued
<1>. QED
  BY <1>1, <1>2, <1>3, <1>4 DEF t

LEMMA NothingQueued == \A task : ~Queued(<<>>, task)
  BY DEF Queued

---------------------------------------------------------------------------
(* The runtime *)

LEMMA FreshTyped ==
    ASSUME NEW cursor \in 0..MaxRow
    PROVE  FreshRuntime(cursor) \in RuntimeType /\ ~WakePending(FreshRuntime(cursor))
           /\ FreshRuntime(cursor).thinking = FALSE
  BY ResidentAssumption DEF FreshRuntime, RuntimeType, WakePending

LEMMA JobOfNobody == NoJob \in JobType
  BY ResidentAssumption DEF NoJob, JobType, Stages, Parts

LEMMA WatchOfNobody == NoWatch \in WatchType /\ NoWatch.sock = "none"
<1>1. 0 \in 0..MaxDay
  BY ResidentAssumption
<1>. QED
  BY <1>1, ZenonT(30) DEF NoWatch, WatchType

LEMMA ServeOfNobody == NoServe \in ServeType /\ NoServe.proc = "off" /\ Len(NoServe.backlog) <= MaxBacklog
  BY ResidentAssumption DEF NoServe, ServeType, Days

\* scheduleDelivery runs for every event that wakes the agent.
LEMMA DispatchedTyped ==
    ASSUME NEW r \in RuntimeType, NEW e \in Events
    PROVE  /\ Dispatched(r, e) \in RuntimeType
           /\ Dispatched(r, e).thinking = r.thinking /\ Dispatched(r, e).day = r.day
           /\ r.deliverTimer => Dispatched(r, e).deliverTimer
           /\ WakePending(Dispatched(r, e)) => WakePending(r) \/ Dispatched(r, e).deliverTimer
<1>. DEFINE d == [r EXCEPT !.pending = r.pending \cup {e}, !.deliverTimer = r.deliverTimer \/ WakeNow(e)]
<1>1. WakeNow(e) \in BOOLEAN /\ r.deliverTimer \in BOOLEAN
  BY DEF WakeNow, RuntimeType
<1>2. d \in RuntimeType
  BY <1>1, ZenonT(30) DEF RuntimeType
<1>3. /\ d.pending = r.pending \cup {e} /\ d.thinking = r.thinking /\ d.day = r.day
      /\ d.deliverTimer = (r.deliverTimer \/ WakeNow(e))
  BY ZenonT(30) DEF RuntimeType
<1>. HIDE DEF d
<1>4. WakePending(d) => WakePending(r) \/ d.deliverTimer
  BY <1>3, ZenonT(30) DEF WakePending
<1>5. Dispatched(r, e) = IF agent # "on" THEN r ELSE d
  BY DEF Dispatched, d
<1>. QED
  BY <1>1, <1>2, <1>3, <1>4, <1>5, ZenonT(30)

LEMMA SettledTyped ==
    ASSUME NEW r \in RuntimeType
    PROVE  /\ Settled(r) \in RuntimeType /\ Settled(r).thinking = FALSE
           /\ Settled(r).day = r.day
           /\ WakePending(Settled(r)) => Settled(r).deliverTimer
<1>1. WakePending(r) \in BOOLEAN
  BY DEF WakePending
<1>2. Settled(r) \in RuntimeType /\ Settled(r).thinking = FALSE
      /\ Settled(r).pending = r.pending /\ Settled(r).day = r.day
      /\ Settled(r).deliverTimer = (r.deliverTimer \/ WakePending(r))
  BY <1>1, ZenonT(30) DEF RuntimeType, Settled
<1>. QED
  BY <1>2, ZenonT(30) DEF WakePending

LEMMA UnthinkTyped ==
    ASSUME NEW r \in RuntimeType
    PROVE  /\ Unthink(r) \in RuntimeType /\ Unthink(r).thinking = FALSE
           /\ Unthink(r).pending = r.pending /\ Unthink(r).deliverTimer = r.deliverTimer
           /\ Unthink(r).day = r.day
  BY ZenonT(30) DEF RuntimeType, Unthink

\* The two digests of the day tick dispatch an event or leave the runtime alone.
LEMMA SweptTyped ==
    ASSUME WorldTyped, NEW r \in RuntimeType
    PROVE  \A q \in {SweptBeat(r), SweptStale(r)} :
              /\ q \in RuntimeType /\ q.thinking = r.thinking /\ q.day = r.day
              /\ r.deliverTimer => q.deliverTimer
              /\ WakePending(q) => WakePending(r) \/ q.deliverTimer
<1>. DEFINE b == [r EXCEPT !.beatQueued = today]
<1>1. today \in 0..MaxDay
  BY ResidentAssumption DEF WorldTyped, Days
<1>2. b \in RuntimeType /\ b.pending = r.pending /\ b.thinking = r.thinking
      /\ b.deliverTimer = r.deliverTimer /\ b.day = r.day
  BY <1>1, ZenonT(30) DEF RuntimeType
<1>3. WakePending(b) <=> WakePending(r)
  BY <1>2, ZenonT(30) DEF WakePending
<1>4. Beat \in Events /\ CatchUp \in Events
  BY ResidentAssumption DEF Beat, CatchUp, Event, Events
<1>5. SweptBeat(r) \in {r, Dispatched(b, Beat)} /\ SweptStale(r) \in {r, Dispatched(r, CatchUp)}
  BY DEF SweptBeat, SweptStale
<1>. HIDE DEF b
<1>. QED
  BY <1>2, <1>3, <1>4, <1>5, DispatchedTyped, ZenonT(60)

---------------------------------------------------------------------------
(* What a task on the lane does to the runtime and to the job *)

\* The runtime a task works on: typed, with the events and the timer of rt.
Like(r) ==
    /\ r \in RuntimeType
    /\ r.pending = rt.pending /\ r.deliverTimer = rt.deliverTimer /\ r.thinking = rt.thinking

\* A task that goes on: a later stage, the same batch, the lane as it was.
GoesOn ==
    /\ job' \in JobType /\ job'.batch = job.batch
    /\ job'.at \in {"failing", "boot", "attach"}
    /\ agent = "gone" => job'.at = "failing" \/ Queued(lane, "drop")
    /\ job'.at = "attach" => job'.day # 0
    /\ job'.part = "reflect" /\ job'.at = "boot" => rt'.day # 0

LEMMA ToAttachGoesOn ==
    ASSUME WorldTyped, job \in JobType, agent = "gone" => Queued(lane, "drop"), NEW r, Like(r),
           NEW part \in Parts, part = "reflect" => r.day # 0,
           ToAttach(r, part)
    PROVE  Like(rt') /\ GoesOn
<1>1. today \in 0..MaxDay /\ today # 0 /\ r \in RuntimeType /\ r.day \in 0..MaxDay
  BY DEF WorldTyped, Days, Like, RuntimeType
<1>2. /\ job' \in JobType /\ job'.batch = job.batch /\ job'.at = "attach"
      /\ job'.day = IF part = "main" THEN today ELSE r.day
  BY <1>1, ZenonT(30) DEF ToAttach, JobType, Stages
<1>3. /\ rt' \in RuntimeType /\ rt'.pending = r.pending
      /\ rt'.deliverTimer = r.deliverTimer /\ rt'.thinking = r.thinking
  BY <1>1, ZenonT(30) DEF ToAttach, RuntimeType
<1>4. Like(rt')
  BY <1>3 DEF Like
<1>. QED
  BY <1>1, <1>2, <1>4 DEF GoesOn, Parts

LEMMA EnsureRunningGoesOn ==
    ASSUME WorldTyped, job \in JobType, NEW r, Like(r), EnsureRunning(r, "main")
    PROVE  Like(rt') /\ GoesOn
<1>1. CASE agent # "gone" /\ serve.proc = "on"
  BY <1>1, ToAttachGoesOn DEF EnsureRunning, Parts
<1>2. CASE agent = "gone"
  <2>1. job' \in JobType /\ job'.batch = job.batch /\ job'.at = "failing" /\ rt' = r
    BY <1>2, ZenonT(30) DEF EnsureRunning, JobType, Stages, Parts
  <2>. QED
    BY <1>2, <2>1 DEF GoesOn
<1>3. CASE agent # "gone" /\ serve.proc # "on"
  <2>1. /\ job' \in JobType /\ job'.batch = job.batch /\ job'.at = "boot" /\ job'.part = "main"
        /\ rt' = [r EXCEPT !.st = "starting"]
    BY <1>3, ZenonT(30) DEF EnsureRunning, JobType, Stages, Parts
  <2>2. Like(rt')
    BY <2>1, ZenonT(30) DEF Like, RuntimeType
  <2>. QED
    BY <1>3, <2>1, <2>2 DEF GoesOn
<1>. QED
  BY <1>1, <1>2, <1>3

LEMMA ReflectGoesOn ==
    ASSUME WorldTyped, job \in JobType, NEW r, Like(r), DayRolled(r), Reflect(r)
    PROVE  Like(rt') /\ GoesOn
<1>1. /\ today \in 0..MaxDay /\ r \in RuntimeType
      /\ r.day \in 0..MaxDay /\ r.day # 0 /\ agent # "gone"
  BY DEF WorldTyped, Days, Like, RuntimeType, DayRolled
<1>2. /\ job' \in JobType /\ job'.batch = job.batch /\ job'.at \in {"attach", "boot"}
      /\ job'.at = "attach" => job'.day = r.day
  BY <1>1, ZenonT(30) DEF Reflect, JobType, Stages, Parts
<1>3. Like(rt') /\ rt'.day = r.day
  BY <1>1, ZenonT(30) DEF Reflect, Like, RuntimeType
<1>. QED
  BY <1>1, <1>2, <1>3 DEF GoesOn

---------------------------------------------------------------------------
(* The three ways a lane step may end *)

Others == <<agent, today, log, kept, faults>>

LEMMA GoesOnSafe ==
    ASSUME IInv, Like(rt'), GoesOn, job.batch = {}, job.at # "stop",
           lane # <<>>, Head(lane) \notin {"park", "drop"},
           UNCHANGED Others, UNCHANGED <<lane, watch>>,
           UNCHANGED serve \/ (ServeTyped' /\ (agent = "gone" => Queued(lane, "drop")))
    PROVE  IInv'
<1>1. Typed'
  BY DEF IInv, Typed, WorldTyped, LaneTyped, ServeTyped, Like, GoesOn, Others
<1>2. HasSession'
  BY DEF HasSession, GoesOn
<1>3. WakePending(rt') <=> WakePending(rt)
  BY DEF Like, WakePending
<1>4. Wakes'
  BY <1>3 DEF IInv, Safe, Wakes, Like
<1>5. Stopping' /\ Parking' /\ Batched' /\ Sent'
  BY DEF Stopping, Parking, Batched, Sent, GoesOn
<1>6. Gone'
  BY DEF IInv, Safe, Gone, GoesOn, Others
<1>7. MarkedBeatDelivered' /\ ThinkingIsWatched'
  BY DEF IInv, Safe, MarkedBeatDelivered, ThinkingIsWatched, GoesOn, Like, Others
<1>. QED
  BY <1>1, <1>2, <1>4, <1>5, <1>6, <1>7 DEF IInv, Safe

LEMMA EndTaskSafe ==
    ASSUME IInv, lane # <<>>, NEW r \in RuntimeType, EndTask(r),
           WakePending(r) => r.deliverTimer \/ Queued(Tail(lane), "deliver"),
           r.thinking => watch'.sock # "none",
           agent = "gone" /\ ~Queued(Tail(lane), "drop") =>
               serve'.proc = "off" /\ watch'.sock = "none",
           watch' \in WatchType, ServeTyped', UNCHANGED Others
    PROVE  IInv'
<1>1. lane' \in Seq(Tasks) /\ Len(lane') = Len(lane) - 1 /\ Len(lane) \in Nat /\ Len(lane) <= MaxLane
  BY Popped DEF EndTask, IInv, Typed, LaneTyped
<1>2. LaneTyped'
  BY <1>1, ResidentAssumption DEF LaneTyped
<1>3. Typed'
  BY <1>2, JobOfNobody DEF IInv, Typed, WorldTyped, EndTask, Others
<1>4. /\ job'.at = "queued" /\ job'.batch = {} /\ rt' = r /\ lane' = Tail(lane)
  BY DEF EndTask, NoJob
<1>5. HasSession' /\ Stopping' /\ Parking' /\ Batched' /\ Sent'
  BY <1>4 DEF HasSession, Stopping, Parking, Batched, Sent
<1>6. Wakes' /\ Gone'
  BY <1>4 DEF Wakes, Gone, Others
<1>7. MarkedBeatDelivered' /\ ThinkingIsWatched'
  BY <1>4 DEF IInv, Safe, MarkedBeatDelivered, ThinkingIsWatched, Others
<1>. QED
  BY <1>3, <1>5, <1>6, <1>7 DEF IInv, Safe

\* A task that only looked at the runtime leaves its events to the next one.
LEMMA EndTaskSame ==
    ASSUME IInv, lane # <<>>, NEW r, Like(r), EndTask(r), job.at # "stop",
           Head(lane) \notin {"deliver", "drop"},
           UNCHANGED Others, UNCHANGED <<watch, serve>>
    PROVE  IInv'
<1>1. \A task : Queued(lane, task) => Head(lane) = task \/ Queued(Tail(lane), task)
  BY Popped DEF IInv, Typed, LaneTyped
<1>2. WakePending(r) => r.deliverTimer \/ Queued(Tail(lane), "deliver")
  BY <1>1 DEF IInv, Safe, Wakes, Like, WakePending
<1>3. r.thinking => watch'.sock # "none"
  BY DEF IInv, Safe, ThinkingIsWatched, Like
<1>4. agent = "gone" /\ ~Queued(Tail(lane), "drop") => serve'.proc = "off" /\ watch'.sock = "none"
  BY <1>1 DEF IInv, Safe, Gone
<1>5. r \in RuntimeType /\ watch' \in WatchType /\ ServeTyped'
  BY DEF IInv, Typed, ServeTyped, Like
<1>. QED
  BY <1>2, <1>3, <1>4, <1>5, EndTaskSafe

LEMMA ParkSafe ==
    ASSUME IInv, NEW r, Like(r), Park(r), lane # <<>>, Head(lane) \in {"idle", "park", "drop"},
           UNCHANGED Others, UNCHANGED serve
    PROVE  IInv'
<1>1. /\ rt' = [r EXCEPT !.parkTimer = FALSE] /\ lane' = lane /\ watch' = NoWatch
      /\ job' = [NoJob EXCEPT !.at = "stop"]
  BY DEF Park
<1>2. Like(rt')
  BY <1>1, ZenonT(30) DEF Like, RuntimeType
<1>3. job' \in JobType /\ job'.at = "stop" /\ job'.batch = {}
  <2>1. job' \in JobType /\ job'.at = "stop" /\ job'.batch = NoJob.batch
    BY <1>1, JobOfNobody, ZenonT(30) DEF JobType, Stages
  <2>. QED
    BY <2>1 DEF NoJob
<1>4. watch' \in WatchType /\ watch'.sock = "none"
  BY <1>1, WatchOfNobody
<1>5. Typed'
  BY <1>1, <1>2, <1>3, <1>4 DEF IInv, Typed, WorldTyped, LaneTyped, ServeTyped, Like, Others
<1>6. Wakes'
  BY <1>1, <1>2 DEF IInv, Safe, Wakes, Like, WakePending
<1>7. HasSession' /\ Stopping' /\ Parking' /\ Batched' /\ Sent'
  BY <1>1, <1>3, <1>4 DEF HasSession, Stopping, Parking, Batched, Sent
<1>8. Gone'
  BY <1>1, <1>3, <1>4 DEF IInv, Safe, Gone, Others
<1>9. MarkedBeatDelivered' /\ ThinkingIsWatched'
  BY <1>3 DEF IInv, Safe, MarkedBeatDelivered, ThinkingIsWatched, Others
<1>. QED
  BY <1>5, <1>6, <1>7, <1>8, <1>9 DEF IInv, Safe

LEMMA ReflectedSafe ==
    ASSUME IInv, Reflected, job.part = "reflect", job.at \in {"failing", "wait"}, lane # <<>>,
           UNCHANGED Others, UNCHANGED serve
    PROVE  IInv'
<1>. DEFINE r == [rt EXCEPT !.day = job.target, !.st = "idle"]
<1>1. WorldTyped /\ rt \in RuntimeType /\ job \in JobType /\ lane \in Seq(Tasks)
  BY DEF IInv, Typed, LaneTyped
<1>2. job.target \in 0..MaxDay
  BY <1>1 DEF JobType
<1>3. Like(r)
  BY <1>1, <1>2, ZenonT(30) DEF Like, RuntimeType
<1>4. job.batch = {} /\ job.at # "stop" /\ Head(lane) \notin {"park", "drop"}
  BY DEF IInv, Safe, Batched, Parking
<1>5. CASE On("reflect")
  <2>1. EndTask(r) /\ UNCHANGED watch
    BY <1>5 DEF Reflected, On
  <2>2. Head(lane) = "reflect"
    BY <1>5 DEF On
  <2>. HIDE DEF r
  <2>. QED
    BY <1>3, <1>4, <2>1, <2>2, EndTaskSame
<1>6. CASE On("idle")
  <2>1. Park(r) /\ Head(lane) = "idle"
    BY <1>6 DEF Reflected, On
  <2>. HIDE DEF r
  <2>. QED
    BY <1>3, <2>1, ParkSafe
<1>7. CASE ~On("reflect") /\ ~On("idle")
  <2>1. EnsureRunning(r, "main") /\ UNCHANGED <<lane, watch>>
    BY <1>7 DEF Reflected
  <2>. HIDE DEF r
  <2>2. Like(rt') /\ GoesOn
    BY <1>1, <1>3, <2>1, EnsureRunningGoesOn
  <2>. QED
    BY <1>4, <2>1, <2>2, GoesOnSafe
<1>. QED
  BY <1>5, <1>6, <1>7

---------------------------------------------------------------------------
(* The steps of the lane *)

LEMMA QueuedTask ==
    ASSUME IInv, NEW tasks, Starts(tasks)
    PROVE  /\ lane # <<>> /\ Head(lane) \in tasks /\ job.at = "queued" /\ job.batch = {}
           /\ Like(rt) /\ WorldTyped /\ job \in JobType /\ rt \in RuntimeType
           /\ lane \in Seq(Tasks)
  BY DEF IInv, Safe, Typed, LaneTyped, Batched, Starts, Like

LEMMA DeliverStartsSafe == IInv /\ DeliverStarts => IInv'
<1>. SUFFICES ASSUME IInv, DeliverStarts PROVE IInv'
  OBVIOUS
<1>1. /\ lane # <<>> /\ Head(lane) = "deliver" /\ job.at = "queued" /\ job.batch = {}
      /\ Like(rt) /\ WorldTyped /\ job \in JobType /\ rt \in RuntimeType /\ lane \in Seq(Tasks)
      /\ UNCHANGED Others /\ UNCHANGED <<watch, serve>>
  BY QueuedTask DEF DeliverStarts, Others
<1>2. /\ rt.thinking => watch.sock # "none"
      /\ agent = "gone" /\ ~Queued(Tail(lane), "drop") => serve.proc = "off" /\ watch.sock = "none"
      /\ watch \in WatchType /\ ServeTyped
  BY <1>1, Popped DEF IInv, Typed, Safe, ThinkingIsWatched, Gone
<1>3. CASE agent # "on"
  <2>. DEFINE r == [rt EXCEPT !.pending = {}]
  <2>1. r \in RuntimeType /\ r.pending = {} /\ r.thinking = rt.thinking
    BY <1>1, ZenonT(30) DEF RuntimeType
  <2>2. EndTask(r)
    BY <1>3 DEF DeliverStarts
  <2>. HIDE DEF r
  <2>3. ~WakePending(r)
    BY <2>1 DEF WakePending
  <2>. QED
    BY <1>1, <1>2, <2>1, <2>2, <2>3, EndTaskSafe DEF ServeTyped
<1>4. CASE agent = "on" /\ ~WakePending(rt)
  <2>1. EndTask(rt)
    BY <1>4 DEF DeliverStarts
  <2>. QED
    BY <1>1, <1>2, <1>4, <2>1, EndTaskSafe DEF ServeTyped
<1>5. CASE agent = "on" /\ WakePending(rt)
  <2>1. UNCHANGED lane /\ IF DayRolled(rt) THEN Reflect(rt) ELSE EnsureRunning(rt, "main")
    BY <1>5 DEF DeliverStarts
  <2>2. Like(rt') /\ GoesOn
    BY <1>1, <2>1, ReflectGoesOn, EnsureRunningGoesOn
  <2>. QED
    BY <1>1, <2>1, <2>2, GoesOnSafe
<1>. QED
  BY <1>3, <1>4, <1>5

LEMMA ReflectStartsSafe == IInv /\ ReflectStarts => IInv'
<1>. SUFFICES ASSUME IInv, ReflectStarts PROVE IInv'
  OBVIOUS
<1>1. /\ lane # <<>> /\ Head(lane) = "reflect" /\ job.at = "queued" /\ job.batch = {}
      /\ Like(rt) /\ WorldTyped /\ job \in JobType
      /\ UNCHANGED Others /\ UNCHANGED <<watch, serve>>
  BY QueuedTask DEF ReflectStarts, Others
<1>2. CASE DayRolled(rt)
  <2>1. Reflect(rt) /\ UNCHANGED lane
    BY <1>2 DEF ReflectStarts
  <2>. QED
    BY <1>1, <1>2, <2>1, ReflectGoesOn, GoesOnSafe
<1>3. CASE ~DayRolled(rt)
  BY <1>1, <1>3, EndTaskSame DEF ReflectStarts
<1>. QED
  BY <1>2, <1>3

LEMMA OpenStartsSafe == IInv /\ OpenStarts => IInv'
<1>. SUFFICES ASSUME IInv, OpenStarts PROVE IInv'
  OBVIOUS
<1>. DEFINE r == [rt EXCEPT !.parkTimer = FALSE]
<1>1. /\ lane # <<>> /\ Head(lane) = "open" /\ job.at = "queued" /\ job.batch = {}
      /\ rt \in RuntimeType /\ WorldTyped /\ job \in JobType
      /\ UNCHANGED Others /\ UNCHANGED <<lane, watch, serve>>
  BY QueuedTask DEF OpenStarts, Others
<1>2. Like(r)
  BY <1>1, ZenonT(30) DEF Like, RuntimeType
<1>3. IF DayRolled(r) THEN Reflect(r) ELSE EnsureRunning(r, "main")
  BY DEF OpenStarts
<1>. HIDE DEF r
<1>4. Like(rt') /\ GoesOn
  BY <1>1, <1>2, <1>3, ReflectGoesOn, EnsureRunningGoesOn
<1>. QED
  BY <1>1, <1>4, GoesOnSafe

LEMMA IdleStartsSafe == IInv /\ IdleStarts => IInv'
<1>. SUFFICES ASSUME IInv, IdleStarts PROVE IInv'
  OBVIOUS
<1>1. /\ lane # <<>> /\ Head(lane) = "idle" /\ job.at = "queued" /\ job.batch = {}
      /\ Like(rt) /\ rt \in RuntimeType /\ WorldTyped /\ job \in JobType
      /\ UNCHANGED Others /\ UNCHANGED serve
  BY QueuedTask DEF IdleStarts, Others
<1>2. CASE rt.pending # {} \/ rt.thinking
  <2>. DEFINE r == [rt EXCEPT !.parkTimer = TRUE]
  <2>1. Like(r)
    BY <1>1, ZenonT(30) DEF Like, RuntimeType
  <2>2. EndTask(r) /\ UNCHANGED watch
    BY <1>2 DEF IdleStarts
  <2>. HIDE DEF r
  <2>. QED
    BY <1>1, <2>1, <2>2, EndTaskSame
<1>3. CASE ~(rt.pending # {} \/ rt.thinking) /\ DayRolled(rt)
  <2>1. Reflect(rt) /\ UNCHANGED <<lane, watch>>
    BY <1>3 DEF IdleStarts
  <2>. QED
    BY <1>1, <1>3, <2>1, ReflectGoesOn, GoesOnSafe
<1>4. CASE ~(rt.pending # {} \/ rt.thinking) /\ ~DayRolled(rt)
  BY <1>1, <1>4, ParkSafe DEF IdleStarts
<1>. QED
  BY <1>2, <1>3, <1>4

LEMMA ParkStartsSafe == IInv /\ ParkStarts => IInv'
  BY QueuedTask, ParkSafe DEF ParkStarts, Others

LEMMA ParkedSafe == IInv /\ Parked => IInv'
<1>. SUFFICES ASSUME IInv, Parked PROVE IInv'
  OBVIOUS
<1>. DEFINE r == [rt EXCEPT !.thinking = FALSE, !.st = "parked"]
<1>1. /\ lane # <<>> /\ Head(lane) \in {"idle", "park", "drop"} /\ watch.sock = "none"
      /\ rt \in RuntimeType /\ lane \in Seq(Tasks)
      /\ serve' = NoServe /\ UNCHANGED Others /\ UNCHANGED watch
      /\ watch \in WatchType /\ ServeTyped'
  BY ServeOfNobody DEF Parked, At, IInv, Typed, LaneTyped, Safe, Stopping, Others, ServeTyped
<1>2. serve'.proc = "off"
  BY <1>1, ServeOfNobody
<1>3. r \in RuntimeType /\ r.thinking = FALSE /\ r.pending = rt.pending
      /\ r.deliverTimer = rt.deliverTimer
  BY <1>1, ZenonT(30) DEF RuntimeType
<1>4. PICK q \in {r, FreshRuntime(0)} : EndTask(q)
  BY DEF Parked
<1>5. WakePending(r) => WakePending(rt)
  BY <1>3 DEF WakePending
<1>. HIDE DEF r
<1>6. Queued(lane, "deliver") => Queued(Tail(lane), "deliver")
  BY <1>1, Popped
<1>7. WakePending(r) => r.deliverTimer \/ Queued(Tail(lane), "deliver")
  BY <1>3, <1>5, <1>6 DEF IInv, Safe, Wakes
<1>8. 0 \in 0..MaxRow
  BY ResidentAssumption
<1>9. FreshRuntime(0) \in RuntimeType /\ ~WakePending(FreshRuntime(0))
      /\ FreshRuntime(0).thinking = FALSE
  BY <1>8, FreshTyped
<1>. QED
  BY <1>1, <1>2, <1>3, <1>4, <1>7, <1>9, EndTaskSafe

LEMMA ProcessUpSafe == IInv /\ ProcessUp => IInv'
<1>. SUFFICES ASSUME IInv, ProcessUp PROVE IInv'
  OBVIOUS
<1>1. /\ lane # <<>> /\ job.at = "boot" /\ job.batch = {} /\ Head(lane) \notin {"park", "drop"}
      /\ agent = "gone" => Queued(lane, "drop")
      /\ job.part = "reflect" => rt.day # 0
  BY DEF ProcessUp, At, IInv, Safe, HasSession, Batched, Parking, Gone
<1>2. /\ WorldTyped /\ job \in JobType /\ job.part \in Parts /\ Like(rt) /\ serve \in ServeType
      /\ UNCHANGED Others /\ UNCHANGED <<lane, watch>>
  BY DEF ProcessUp, IInv, Typed, Others, Like, JobType, ServeTyped
<1>3. ServeTyped'
  BY <1>2, ZenonT(30) DEF ProcessUp, IInv, Typed, ServeTyped, ServeType
<1>4. Like(rt') /\ GoesOn
  BY <1>1, <1>2, ToAttachGoesOn DEF ProcessUp
<1>. QED
  BY <1>1, <1>2, <1>3, <1>4, GoesOnSafe

LEMMA BootFailsSafe == IInv /\ BootFails => IInv'
<1>. SUFFICES ASSUME IInv, BootFails PROVE IInv'
  OBVIOUS
<1>1. /\ lane # <<>> /\ job.at = "boot" /\ job.batch = {} /\ Head(lane) \notin {"park", "drop"}
      /\ job \in JobType /\ faults \in Nat /\ faults' \in 0..MaxFaults
      /\ UNCHANGED <<agent, today, log, rt, lane, watch, serve, kept>>
  BY ResidentAssumption DEF BootFails, Fault, At, IInv, Typed, WorldTyped, Safe, Batched, Parking
<1>2. job' \in JobType /\ job'.at = "failing" /\ job'.batch = job.batch
  BY <1>1, ZenonT(30) DEF BootFails, JobType, Stages
<1>3. Typed' /\ HasSession'
  BY <1>1, <1>2 DEF IInv, Typed, WorldTyped, LaneTyped, ServeTyped, HasSession
<1>4. Safe'
  BY <1>1, <1>2 DEF IInv, Safe, Wakes, WakePending, Stopping, Parking, Batched, Sent, Gone,
                    MarkedBeatDelivered, ThinkingIsWatched
<1>. QED
  BY <1>3, <1>4 DEF IInv

\* A run that started on the session lets the runtime show it.
LEMMA ShownTyped ==
    ASSUME NEW r \in RuntimeType
    PROVE  LET q == [r EXCEPT !.thinking = TRUE, !.st = IF @ = "idle" THEN "thinking" ELSE @] IN
           /\ q \in RuntimeType /\ q.pending = r.pending /\ q.deliverTimer = r.deliverTimer
           /\ q.day = r.day
  BY ZenonT(30) DEF RuntimeType

LEMMA ConnectedSafe == IInv /\ Connected => IInv'
<1>. SUFFICES ASSUME IInv, Connected PROVE IInv'
  OBVIOUS
<1>1. /\ lane # <<>> /\ job.at = "attach" /\ rt \in RuntimeType /\ today \in Days
      /\ UNCHANGED <<agent, today, log, lane, job, serve, kept, faults>>
      /\ agent = "gone" => Queued(lane, "drop")
  BY DEF Connected, At, IInv, Typed, WorldTyped, Safe, Gone
<1>2. watch' \in WatchType /\ watch'.sock = "open"
  BY <1>1, WatchOfNobody, ZenonT(30) DEF Connected, WatchType
<1>3. rt' \in RuntimeType /\ rt'.pending = rt.pending /\ rt'.deliverTimer = rt.deliverTimer
      /\ rt'.day = rt.day
  BY <1>1, ShownTyped DEF Connected
<1>4. Typed' /\ HasSession'
  BY <1>1, <1>2, <1>3 DEF IInv, Typed, WorldTyped, LaneTyped, ServeTyped, HasSession
<1>5. Safe'
  BY <1>1, <1>2, <1>3 DEF IInv, Safe, Wakes, WakePending, Stopping, Parking, Batched, Sent, Gone,
                    MarkedBeatDelivered, ThinkingIsWatched
<1>. QED
  BY <1>4, <1>5 DEF IInv

\* The watcher with the wait of a send.
LEMMA AttachedTyped ==
    ASSUME watch \in WatchType, NEW d \in Days
    PROVE  Attached(d) \in WatchType /\ Attached(d).sock = watch.sock
  BY ZenonT(30) DEF Attached, WatchType

LEMMA TakenSafe == IInv /\ Taken => IInv'
<1>. SUFFICES ASSUME IInv, Taken PROVE IInv'
  OBVIOUS
<1>1. /\ lane # <<>> /\ Head(lane) = "deliver" /\ job.at = "attach" /\ job.part = "main"
      /\ watch.sock = "open" /\ job.day # 0 /\ job \in JobType /\ rt \in RuntimeType
      /\ log \in 0..MaxRow /\ watch \in WatchType
      /\ UNCHANGED <<agent, today, log, lane, serve, kept, faults>>
      /\ agent = "gone" => Queued(lane, "drop")
  BY DEF Taken, At, On, IInv, Typed, WorldTyped, HasSession, Safe, Gone
<1>2. job.day \in Days /\ rt.pending \in SUBSET Events /\ rt.cursor \in 0..MaxRow
  BY <1>1, ResidentAssumption DEF JobType, Days, RuntimeType
<1>4. watch' \in WatchType /\ watch'.sock = "open"
  BY <1>1, <1>2, AttachedTyped DEF Taken
<1>5. rt' \in RuntimeType /\ rt'.pending = {} /\ rt'.day = rt.day
  BY <1>1, ZenonT(30) DEF Taken, RuntimeType
<1>6. /\ job' \in JobType /\ job'.at = "send" /\ job'.part = "main" /\ job'.day = job.day
      /\ job'.sent = FALSE
  BY <1>1, <1>2, ZenonT(30) DEF Taken, JobType, Stages, Parts
<1>7. Typed' /\ HasSession'
  BY <1>1, <1>4, <1>5, <1>6 DEF IInv, Typed, WorldTyped, LaneTyped, ServeTyped, HasSession
<1>8. ~WakePending(rt')
  BY <1>5 DEF WakePending
<1>9. Safe'
  BY <1>1, <1>4, <1>6, <1>8 DEF IInv, Safe, Wakes, Stopping, Parking, Batched, Sent, Gone,
                    MarkedBeatDelivered, ThinkingIsWatched
<1>. QED
  BY <1>7, <1>9 DEF IInv

LEMMA ReflectionSentSafe == IInv /\ ReflectionSent => IInv'
<1>. SUFFICES ASSUME IInv, ReflectionSent PROVE IInv'
  OBVIOUS
<1>1. /\ lane # <<>> /\ job.at = "attach" /\ job.part = "reflect"
      /\ watch.sock = "open" /\ job.day # 0 /\ job \in JobType
      /\ watch \in WatchType /\ Head(lane) \notin {"park", "drop"} /\ job.batch = {}
      /\ UNCHANGED <<agent, today, log, rt, lane, serve, kept, faults>>
      /\ agent = "gone" => Queued(lane, "drop")
  BY DEF ReflectionSent, At, IInv, Typed, HasSession, Safe, Gone, Batched, Parking
<1>2. job.day \in Days
  BY <1>1, ResidentAssumption DEF JobType, Days
<1>3. watch' \in WatchType /\ watch'.sock = "open"
  BY <1>1, <1>2, AttachedTyped DEF ReflectionSent
<1>4. /\ job' \in JobType /\ job'.at = "send" /\ job'.day = job.day /\ job'.batch = {}
  BY <1>1, ZenonT(30) DEF ReflectionSent, JobType, Stages
<1>5. Typed' /\ HasSession'
  BY <1>1, <1>3, <1>4 DEF IInv, Typed, WorldTyped, LaneTyped, ServeTyped, HasSession
<1>6. Safe'
  BY <1>1, <1>3, <1>4 DEF IInv, Safe, Wakes, WakePending, Stopping, Parking, Batched, Sent, Gone,
                    MarkedBeatDelivered, ThinkingIsWatched
<1>. QED
  BY <1>5, <1>6 DEF IInv

LEMMA SessionOpenedSafe == IInv /\ SessionOpened => IInv'
<1>. SUFFICES ASSUME IInv, SessionOpened PROVE IInv'
  OBVIOUS
<1>. DEFINE r == [rt EXCEPT !.st = IF @ \in {"starting", "parked"} THEN "idle" ELSE @]
<1>1. /\ lane # <<>> /\ lane \in Seq(Tasks) /\ Head(lane) = "open" /\ job.at = "attach"
      /\ watch.sock = "open" /\ job.day # 0 /\ job \in JobType /\ rt \in RuntimeType
      /\ watch \in WatchType /\ ServeTyped /\ UNCHANGED Others /\ UNCHANGED serve
      /\ EndTask(r) /\ (agent = "gone" => Queued(lane, "drop"))
  BY DEF SessionOpened, At, On, IInv, Typed, LaneTyped, HasSession, Safe, Gone, Others
<1>2. job.day \in Days
  BY <1>1, ResidentAssumption DEF JobType, Days
<1>3. watch' \in WatchType /\ watch'.sock = "open"
  BY <1>1, <1>2, ZenonT(30) DEF SessionOpened, WatchType
<1>4. r \in RuntimeType /\ r.pending = rt.pending /\ r.deliverTimer = rt.deliverTimer
  BY <1>1, ZenonT(30) DEF RuntimeType
<1>5. WakePending(r) => WakePending(rt)
  BY <1>4 DEF WakePending
<1>6. Queued(lane, "deliver") => Queued(Tail(lane), "deliver")
  BY <1>1, Popped
<1>7. Queued(lane, "drop") => Queued(Tail(lane), "drop")
  BY <1>1, Popped
<1>8. EndTask(r) /\ ServeTyped'
  BY <1>1 DEF ServeTyped, SessionOpened
<1>. HIDE DEF r
<1>9. WakePending(r) => r.deliverTimer \/ Queued(Tail(lane), "deliver")
  BY <1>4, <1>5, <1>6 DEF IInv, Safe, Wakes
<1>. QED
  BY <1>1, <1>3, <1>4, <1>7, <1>8, <1>9, EndTaskSafe

LEMMA LandedSafe == IInv /\ Landed => IInv'
<1>. SUFFICES ASSUME IInv, Landed PROVE IInv'
  OBVIOUS
<1>. DEFINE beats == IF Beat \in job.batch THEN {job.day} ELSE {}
<1>1. /\ lane # <<>> /\ job.at = "send" /\ job.day # 0 /\ job \in JobType
      /\ serve \in ServeType /\ serve.proc = "on" /\ Len(serve.backlog) < MaxBacklog
      /\ kept \in KeptType
      /\ UNCHANGED <<agent, today, log, rt, lane, watch, faults>>
  BY DEF Landed, At, IInv, Typed, ServeTyped, HasSession
<1>2. job.day \in Days 
  BY <1>1, ResidentAssumption DEF JobType, Days
<1>4. beats \in SUBSET Days
  BY <1>2
<1>5. /\ kept' = [kept EXCEPT !.beats = @ \cup beats]
      /\ Beat \in job.batch => job.day \in beats
  BY DEF Landed
<1>. HIDE DEF beats
<1>6. kept' \in KeptType /\ kept'.marked = kept.marked /\ kept'.beats = kept.beats \cup beats
  BY <1>1, <1>4, <1>5, ZenonT(30) DEF KeptType
<1>7. serve.backlog \in Seq(Days)
  BY <1>1 DEF ServeType
<1>8. /\ Append(serve.backlog, job.day) \in Seq(Days)
      /\ Len(Append(serve.backlog, job.day)) = Len(serve.backlog) + 1
      /\ Len(serve.backlog) \in Nat
  BY <1>2, <1>7, AppendProperties
<1>9. /\ serve' \in ServeType /\ serve'.backlog = Append(serve.backlog, job.day)
      /\ serve'.proc = serve.proc
  BY <1>1, <1>8, ZenonT(30) DEF Landed, ServeType
<1>10. ServeTyped'
  BY <1>1, <1>8, <1>9, ResidentAssumption DEF ServeTyped
<1>11. /\ job' \in JobType /\ job'.at = job.at /\ job'.part = job.part /\ job'.day = job.day
       /\ job'.batch = job.batch
  BY <1>1, ZenonT(30) DEF Landed, JobType
<1>12. Typed' /\ HasSession'
  BY <1>1, <1>6, <1>10, <1>11 DEF IInv, Typed, WorldTyped, LaneTyped, HasSession
<1>13. Safe'
  BY <1>1, <1>5, <1>6, <1>9, <1>11 DEF IInv, Safe, Wakes, WakePending, Stopping, Parking, Batched,
        Sent, Gone, MarkedBeatDelivered, ThinkingIsWatched
<1>. QED
  BY <1>12, <1>13 DEF IInv

LEMMA AckedSafe == IInv /\ Acked => IInv'
<1>. SUFFICES ASSUME IInv, Acked PROVE IInv'
  OBVIOUS
<1>1. /\ lane # <<>> /\ job.at = "send" /\ job.sent /\ job.day # 0 /\ job \in JobType
      /\ kept \in KeptType /\ Head(lane) \notin {"park", "drop"}
      /\ agent = "gone" => Queued(lane, "drop")
      /\ UNCHANGED <<agent, today, log, rt, lane, watch, serve, faults>>
  BY DEF Acked, At, IInv, Typed, HasSession, Safe, Gone, Parking
<1>2. job.day \in 0..MaxDay
  BY <1>1 DEF JobType
<1>3. kept' \in KeptType /\ kept'.beats = kept.beats
      /\ kept'.marked = IF Beat \in job.batch THEN job.day ELSE kept.marked
  BY <1>1, <1>2, ZenonT(30) DEF Acked, Marked, KeptType
<1>4. /\ job' \in JobType /\ job'.at = "wait" /\ job'.part = job.part /\ job'.day = job.day
      /\ job'.batch = job.batch /\ job'.sent = job.sent
  BY <1>1, ZenonT(30) DEF Acked, JobType, Stages
<1>5. Typed' /\ HasSession'
  BY <1>1, <1>3, <1>4 DEF IInv, Typed, WorldTyped, LaneTyped, ServeTyped, HasSession
<1>6. MarkedBeatDelivered'
  BY <1>1, <1>3 DEF IInv, Safe, Sent, MarkedBeatDelivered
<1>7. Safe'
  BY <1>1, <1>3, <1>4, <1>6 DEF IInv, Safe, Wakes, WakePending, Stopping, Parking, Batched, Sent,
        Gone, ThinkingIsWatched
<1>. QED
  BY <1>5, <1>7 DEF IInv

LEMMA AbandonedTyped ==
    ASSUME watch \in WatchType
    PROVE  Abandoned \in WatchType /\ Abandoned.sock = watch.sock
  BY ZenonT(60) DEF Abandoned, WatchType

\* A task whose call failed: the job alone has moved.
LEMMA FailingSafe ==
    ASSUME IInv, At({"send", "attach"}),
           job' = [job EXCEPT !.at = "failing", !.waiting = FALSE], watch' = Abandoned,
           faults' \in 0..MaxFaults,
           UNCHANGED <<agent, today, log, rt, lane, serve, kept>>
    PROVE  IInv'
<1>1. /\ lane # <<>> /\ job.at \in {"send", "attach"} /\ job \in JobType /\ watch \in WatchType
      /\ Head(lane) \notin {"park", "drop"} /\ (agent = "gone" => Queued(lane, "drop"))
  BY DEF At, IInv, Typed, Safe, Parking, Gone
<1>2. watch' \in WatchType /\ watch'.sock = watch.sock
  BY <1>1, AbandonedTyped
<1>3. /\ job' \in JobType /\ job'.at = "failing" /\ job'.part = job.part /\ job'.day = job.day
      /\ job'.batch = job.batch /\ job'.sent = job.sent
  BY <1>1, ZenonT(30) DEF JobType, Stages
<1>4. Typed' /\ HasSession'
  BY <1>1, <1>2, <1>3 DEF IInv, Typed, WorldTyped, LaneTyped, ServeTyped, HasSession
<1>5. Safe'
  BY <1>1, <1>2, <1>3 DEF IInv, Safe, Wakes, WakePending, Stopping, Parking, Batched, Sent,
        Gone, MarkedBeatDelivered, ThinkingIsWatched
<1>. QED
  BY <1>4, <1>5 DEF IInv

LEMMA Faulty == IInv /\ Fault => faults' \in 0..MaxFaults
  BY ResidentAssumption DEF IInv, Typed, WorldTyped, Fault

LEMMA SendRefusedSafe == IInv /\ SendRefused => IInv'
  BY FailingSafe, Faulty DEF SendRefused, At

LEMMA CallCutSafe == IInv /\ CallCut => IInv'
<1>. SUFFICES ASSUME IInv, CallCut PROVE IInv'
  OBVIOUS
<1>1. At({"send", "attach"}) /\ faults' \in 0..MaxFaults
  BY DEF CallCut, At, IInv, Typed, WorldTyped
<1>. QED
  BY <1>1, FailingSafe DEF CallCut

\* A delivery that is over leaves its timer set when something woke the agent
\* meanwhile.
LEMMA SettledSafe ==
    ASSUME IInv, NEW r \in RuntimeType, lane # <<>>, job.at # "stop", Head(lane) # "drop",
           EndTask(Settled(r)), UNCHANGED Others, UNCHANGED <<watch, serve>>
    PROVE  IInv'
<1>1. /\ Settled(r) \in RuntimeType /\ Settled(r).thinking = FALSE
      /\ WakePending(Settled(r)) => Settled(r).deliverTimer
  BY SettledTyped
<1>2. agent = "gone" /\ ~Queued(Tail(lane), "drop") => serve'.proc = "off" /\ watch'.sock = "none"
  BY Popped DEF IInv, Typed, LaneTyped, Safe, Gone
<1>3. watch' \in WatchType /\ ServeTyped'
  BY DEF IInv, Typed, ServeTyped
<1>. QED
  BY <1>1, <1>2, <1>3, EndTaskSafe

LEMMA CaughtSafe == IInv /\ Caught => IInv'
<1>. SUFFICES ASSUME IInv, Caught PROVE IInv'
  OBVIOUS
<1>1. /\ lane # <<>> /\ job.at = "failing" /\ rt \in RuntimeType /\ Like(rt)
      /\ UNCHANGED Others /\ UNCHANGED serve
  BY DEF Caught, At, IInv, Typed, Others, Like
<1>2. CASE job.part = "reflect" /\ Reflected
  BY <1>1, <1>2, ReflectedSafe
<1>3. CASE On("deliver") /\ UNCHANGED watch
           /\ EndTask(Settled([rt EXCEPT !.beatQueued = IF Beat \in job.batch THEN 0 ELSE @]))
  <2>. DEFINE r == [rt EXCEPT !.beatQueued = IF Beat \in job.batch THEN 0 ELSE @]
  <2>1. 0 \in 0..MaxDay
    BY ResidentAssumption
  <2>2. r \in RuntimeType
    BY <1>1, <2>1, ZenonT(30) DEF RuntimeType
  <2>3. EndTask(Settled(r)) /\ Head(lane) = "deliver"
    BY <1>3 DEF On
  <2>. HIDE DEF r
  <2>. QED
    BY <1>1, <1>3, <2>2, <2>3, SettledSafe
<1>4. CASE On("open") /\ EndTask(rt) /\ UNCHANGED watch
  BY <1>1, <1>4, EndTaskSame DEF On
<1>. QED
  BY <1>2, <1>3, <1>4 DEF Caught

LEMMA WaitOverSafe == IInv /\ WaitOver => IInv'
<1>. SUFFICES ASSUME IInv, WaitOver PROVE IInv'
  OBVIOUS
<1>1. /\ lane # <<>> /\ job.at = "wait" /\ rt \in RuntimeType /\ Head(lane) # "drop"
      /\ UNCHANGED Others /\ UNCHANGED serve
  BY DEF WaitOver, At, IInv, Typed, Others, Safe, Parking
<1>2. CASE job.part = "reflect" /\ Reflected
  BY <1>1, <1>2, ReflectedSafe
<1>3. CASE EndTask(Settled(rt)) /\ UNCHANGED watch
  BY <1>1, <1>3, SettledSafe
<1>. QED
  BY <1>2, <1>3 DEF WaitOver

---------------------------------------------------------------------------
(* The steps beside the lane *)

\* The task under way stays where it is.
Stays ==
    /\ job'.at = job.at /\ job'.part = job.part /\ job'.day = job.day
    /\ job'.batch = job.batch /\ job'.sent = job.sent

\* Nobody is left thinking without a watcher.
Attended == rt'.thinking => watch'.sock # "none" \/ (rt.thinking /\ watch'.sock = watch.sock)

LEMMA BesideSafe ==
    ASSUME IInv, Typed', Stays, rt'.day = rt.day,
           UNCHANGED lane \/ \E task \in Tasks : lane' = Append(lane, task),
           WakePending(rt') => WakePending(rt) \/ rt'.deliverTimer,
           rt.deliverTimer => rt'.deliverTimer \/ Queued(lane', "deliver"),
           Attended,
           (agent' = "gone" => agent = "gone") \/ Queued(lane', "drop"),
           kept'.beats = kept.beats, MarkedBeatDelivered',
           serve.proc = "off" => serve'.proc = "off",
           watch.sock = "none" => watch'.sock = "none"
    PROVE  IInv'
<1>1. \A task : Queued(lane, task) => Queued(lane', task)
  <2>1. lane \in Seq(Tasks)
    BY DEF IInv, Typed, LaneTyped
  <2>2. CASE UNCHANGED lane
    BY <2>2
  <2>3. CASE \E task \in Tasks : lane' = Append(lane, task)
    BY <2>1, <2>3, Pushed
  <2>. QED
    BY <2>2, <2>3
<1>2. /\ lane # <<>> => lane' # <<>> /\ Head(lane') = Head(lane)
      /\ lane = <<>> => job.at = "queued"
  BY Pushed DEF IInv, Typed, LaneTyped, HasSession
<1>3. HasSession'
  BY <1>2 DEF IInv, HasSession, Stays
<1>4. Wakes'
  BY <1>1 DEF IInv, Safe, Wakes
<1>5. Stopping' /\ Parking'
  BY <1>2 DEF IInv, Safe, Stopping, Parking, Stays
<1>6. Batched' /\ Sent'
  BY DEF IInv, Safe, Batched, Sent, Stays
<1>7. Gone'
  BY <1>1 DEF IInv, Safe, Gone, Stays
<1>8. ThinkingIsWatched'
  BY DEF IInv, Safe, ThinkingIsWatched, Stays, Attended
<1>. QED
  BY <1>3, <1>4, <1>5, <1>6, <1>7, <1>8 DEF IInv, Safe

\* The lane has a place for the task it is given.
LEMMA ChainedTyped ==
    ASSUME LaneTyped, NEW task \in Tasks, Chained(task)
    PROVE  LaneTyped' /\ lane' = Append(lane, task) /\ Queued(lane', task)
<1>1. lane' = Append(lane, task) /\ Len(lane) < MaxLane /\ lane \in Seq(Tasks)
  BY DEF Chained, LaneTyped
<1>2. Append(lane, task) \in Seq(Tasks) /\ Len(Append(lane, task)) = Len(lane) + 1
      /\ Queued(Append(lane, task), task)
  BY <1>1, Pushed
<1>. QED
  BY <1>1, <1>2, ResidentAssumption DEF LaneTyped

LEMMA WaitTimesOutSafe == IInv /\ WaitTimesOut => IInv'
<1>. SUFFICES ASSUME IInv, WaitTimesOut PROVE IInv'
  OBVIOUS
<1>1. job \in JobType /\ watch \in WatchType
  BY DEF IInv, Typed
<1>2. job' \in JobType /\ Stays
  BY <1>1, ZenonT(30) DEF WaitTimesOut, JobType, Stays
<1>3. watch' \in WatchType /\ watch'.sock = watch.sock
  BY <1>1, ZenonT(30) DEF WaitTimesOut, WatchType
<1>4. Typed' /\ MarkedBeatDelivered'
  BY <1>2, <1>3 DEF WaitTimesOut, IInv, Typed, WorldTyped, LaneTyped, ServeTyped, Safe,
                    MarkedBeatDelivered
<1>. QED
  BY <1>2, <1>3, <1>4, BesideSafe DEF WaitTimesOut, Attended

LEMMA OrphanTimesOutSafe == ASSUME NEW d \in Days PROVE IInv /\ OrphanTimesOut(d) => IInv'
<1>. SUFFICES ASSUME IInv, OrphanTimesOut(d) PROVE IInv'
  OBVIOUS
<1>1. watch \in WatchType
  BY DEF IInv, Typed
<1>2. watch' \in WatchType /\ watch'.sock = watch.sock
  BY <1>1, ZenonT(30) DEF OrphanTimesOut, WatchType
<1>3. Typed' /\ MarkedBeatDelivered' /\ Stays
  BY <1>2 DEF OrphanTimesOut, IInv, Typed, WorldTyped, LaneTyped, ServeTyped, Safe,
              MarkedBeatDelivered, Stays
<1>. QED
  BY <1>2, <1>3, BesideSafe DEF OrphanTimesOut, Attended

LEMMA RunStartsSafe == IInv /\ RunStarts => IInv'
<1>. SUFFICES ASSUME IInv, RunStarts PROVE IInv'
  OBVIOUS
<1>. DEFINE d == Head(serve.backlog)
<1>1. /\ watch \in WatchType /\ rt \in RuntimeType /\ serve \in ServeType
      /\ serve.backlog \in Seq(Days) /\ serve.backlog # <<>> /\ Len(serve.backlog) <= MaxBacklog
  BY DEF IInv, Typed, ServeTyped, ServeType, RunStarts
<1>2. /\ d \in Days /\ Tail(serve.backlog) \in Seq(Days)
      /\ Len(Tail(serve.backlog)) = Len(serve.backlog) - 1 /\ Len(serve.backlog) \in Nat
  BY <1>1, HeadTailProperties
<1>3. d \in 0..MaxDay /\ Len(Tail(serve.backlog)) <= MaxBacklog
  BY <1>1, <1>2, ResidentAssumption DEF Days
<1>. HIDE DEF d
<1>4. /\ serve' = [serve EXCEPT !.run = d, !.backlog = Tail(@)]
      /\ IF Heard(d)
         THEN /\ watch' = [watch EXCEPT !.heard = d]
              /\ rt' = [rt EXCEPT !.thinking = TRUE, !.st = IF @ = "idle" THEN "thinking" ELSE @]
         ELSE UNCHANGED <<watch, rt>>
  BY DEF RunStarts, d
<1>5. serve' \in ServeType /\ serve'.backlog = Tail(serve.backlog) /\ serve'.proc = serve.proc
  BY <1>1, <1>2, <1>3, <1>4, ZenonT(30) DEF ServeType
<1>6. /\ watch' \in WatchType /\ watch'.sock = watch.sock
      /\ ~Heard(d) => UNCHANGED rt
  BY <1>1, <1>3, <1>4, ZenonT(30) DEF WatchType
<1>7. /\ rt' \in RuntimeType /\ rt'.pending = rt.pending /\ rt'.deliverTimer = rt.deliverTimer
      /\ rt'.day = rt.day
  BY <1>1, <1>4, ShownTyped
<1>8. Typed' /\ MarkedBeatDelivered' /\ Stays
  BY <1>3, <1>5, <1>6, <1>7 DEF RunStarts, IInv, Typed, WorldTyped, LaneTyped, ServeTyped, Safe,
              MarkedBeatDelivered, Stays
<1>9. (WakePending(rt') => WakePending(rt)) /\ Attended
  BY <1>6, <1>7 DEF WakePending, Heard, Attended
<1>. QED
  BY <1>5, <1>6, <1>7, <1>8, <1>9, BesideSafe DEF RunStarts

LEMMA RunEndsSafe == IInv /\ RunEnds => IInv'
<1>. SUFFICES ASSUME IInv, RunEnds PROVE IInv'
  OBVIOUS
<1>1. /\ watch \in WatchType /\ rt \in RuntimeType /\ serve \in ServeType /\ job \in JobType
      /\ Len(serve.backlog) <= MaxBacklog /\ 0 \in 0..MaxDay
  BY ResidentAssumption DEF IInv, Typed, ServeTyped
<1>2. serve' \in ServeType /\ serve'.backlog = serve.backlog /\ serve'.proc = serve.proc
  BY <1>1, ZenonT(30) DEF RunEnds, ServeType
<1>3. /\ rt' \in RuntimeType /\ rt'.pending = rt.pending /\ rt'.deliverTimer = rt.deliverTimer
      /\ rt'.day = rt.day
      /\ rt'.thinking => rt.thinking
  <2>1. CASE Heard(serve.run)
    BY <1>1, <2>1, ZenonT(30) DEF RunEnds, RuntimeType
  <2>2. CASE ~Heard(serve.run)
    BY <1>1, <2>2 DEF RunEnds
  <2>. QED
    BY <2>1, <2>2
<1>4. watch' \in WatchType /\ watch'.sock = watch.sock
  <2>1. CASE UNCHANGED watch
    BY <1>1, <2>1
  <2>2. CASE \E d \in 0..MaxDay :
               watch' = [watch EXCEPT !.heard = 0, !.waiter[d] = "none",
                           !.orphan[d] = @ /\ watch.waiter[d] # "orphan"]
    <3>1. PICK d \in 0..MaxDay :
               watch' = [watch EXCEPT !.heard = 0, !.waiter[d] = "none",
                           !.orphan[d] = @ /\ watch.waiter[d] # "orphan"]
      BY <2>2
    <3>. DEFINE left == watch.orphan[d] /\ watch.waiter[d] # "orphan"
    <3>2. left \in BOOLEAN
      OBVIOUS
    <3>3. watch' = [watch EXCEPT !.heard = 0, !.waiter[d] = "none", !.orphan[d] = left]
      BY <3>1
    <3>. HIDE DEF left
    <3>. QED
      BY <1>1, <3>2, <3>3, ZenonT(30) DEF WatchType
  <2>3. watch.heard \in 0..MaxDay
    BY <1>1 DEF WatchType
  <2>. QED
    BY <2>1, <2>2, <2>3 DEF RunEnds
<1>5. job' \in JobType /\ Stays
  <2>1. CASE UNCHANGED job
    BY <1>1, <2>1 DEF Stays
  <2>2. CASE \E d : job' = [job EXCEPT !.waiting = @ /\ watch.waiter[d] # "mine"]
    BY <1>1, <2>2, ZenonT(30) DEF JobType, Stays
  <2>. QED
    BY <2>1, <2>2 DEF RunEnds
<1>6. Typed' /\ MarkedBeatDelivered'
  BY <1>1, <1>2, <1>3, <1>4, <1>5 DEF RunEnds, IInv, Typed, WorldTyped, LaneTyped, ServeTyped, Safe,
              MarkedBeatDelivered
<1>7. (WakePending(rt') => WakePending(rt)) /\ Attended
  BY <1>3, <1>4 DEF WakePending, Attended
<1>8. UNCHANGED <<agent, lane, kept>>
  BY DEF RunEnds
<1>. QED
  BY <1>2, <1>3, <1>4, <1>5, <1>6, <1>7, <1>8, BesideSafe

LEMMA ClosedSafe == IInv /\ Closed => IInv'
<1>. SUFFICES ASSUME IInv, Closed PROVE IInv'
  OBVIOUS
<1>1. /\ rt \in RuntimeType /\ job \in JobType /\ watch' = NoWatch
      /\ watch' \in WatchType /\ watch'.sock = "none" /\ rt' = Unthink(rt)
  BY WatchOfNobody DEF IInv, Typed, Closed
<1>2. job' \in JobType /\ Stays
  BY <1>1, ZenonT(30) DEF Closed, JobType, Stays
<1>3. /\ rt' \in RuntimeType /\ rt'.pending = rt.pending /\ rt'.deliverTimer = rt.deliverTimer
      /\ rt'.day = rt.day /\ rt'.thinking = FALSE
  BY <1>1, UnthinkTyped
<1>4. Typed' /\ MarkedBeatDelivered'
  BY <1>1, <1>2, <1>3 DEF Closed, IInv, Typed, WorldTyped, LaneTyped, ServeTyped, Safe,
              MarkedBeatDelivered
<1>5. WakePending(rt') => WakePending(rt)
  BY <1>3 DEF WakePending
<1>. QED
  BY <1>1, <1>2, <1>3, <1>4, <1>5, BesideSafe DEF Closed, Attended

LEMMA SocketLostSafe == IInv /\ SocketLost => IInv'
<1>. SUFFICES ASSUME IInv, SocketLost PROVE IInv'
  OBVIOUS
<1>1. watch \in WatchType /\ faults' \in 0..MaxFaults
  BY Faulty DEF IInv, Typed, SocketLost
<1>2. watch' \in WatchType /\ watch'.sock = "cut"
  BY <1>1, ZenonT(30) DEF SocketLost, WatchType
<1>3. Typed' /\ MarkedBeatDelivered' /\ Stays
  BY <1>1, <1>2 DEF SocketLost, IInv, Typed, WorldTyped, LaneTyped, ServeTyped, Safe,
              MarkedBeatDelivered, Stays
<1>. QED
  BY <1>2, <1>3, BesideSafe DEF SocketLost, Attended

LEMMA ProcessDiesSafe == IInv /\ ProcessDies => IInv'
<1>. SUFFICES ASSUME IInv, ProcessDies PROVE IInv'
  OBVIOUS
<1>1. watch \in WatchType /\ faults' \in 0..MaxFaults /\ ServeTyped' /\ serve'.proc = "off"
  BY Faulty, ServeOfNobody DEF IInv, Typed, ProcessDies, ServeTyped
<1>2. watch' \in WatchType /\ (watch'.sock = "none" <=> watch.sock = "none")
  BY <1>1, ZenonT(30) DEF ProcessDies, WatchType
<1>3. Typed' /\ MarkedBeatDelivered' /\ Stays
  BY <1>1, <1>2 DEF ProcessDies, IInv, Typed, WorldTyped, LaneTyped, Safe,
              MarkedBeatDelivered, Stays
<1>4. Attended
  BY <1>2 DEF ProcessDies, Attended
<1>. QED
  BY <1>1, <1>2, <1>3, <1>4, BesideSafe DEF ProcessDies

---------------------------------------------------------------------------
(* Timers, users and teammates *)

\* A step that leaves the job, the watcher and the process alone.
LEMMA OutsideSafe ==
    ASSUME IInv, WorldTyped', rt' \in RuntimeType, LaneTyped', rt'.day = rt.day,
           UNCHANGED <<job, watch, serve>>, kept' \in KeptType, kept'.beats = kept.beats,
           kept'.marked \in {0, kept.marked},
           UNCHANGED lane \/ \E task \in Tasks : lane' = Append(lane, task),
           WakePending(rt') => WakePending(rt) \/ rt'.deliverTimer,
           rt.deliverTimer => rt'.deliverTimer \/ Queued(lane', "deliver"),
           rt'.thinking = rt.thinking,
           (agent' = "gone" => agent = "gone") \/ Queued(lane', "drop")
    PROVE  IInv'
<1>1. Typed' /\ Stays /\ Attended
  BY DEF IInv, Typed, ServeTyped, Stays, Attended
<1>2. MarkedBeatDelivered'
  BY DEF IInv, Safe, MarkedBeatDelivered
<1>. QED
  BY <1>1, <1>2, BesideSafe

LEMMA WorldFacts ==
    ASSUME IInv
    PROVE  /\ WorldTyped /\ rt \in RuntimeType /\ LaneTyped /\ kept \in KeptType
           /\ agent \in {"on", "off", "gone"} /\ today \in Days /\ log \in 0..MaxRow
           /\ faults \in 0..MaxFaults
  BY DEF IInv, Typed, WorldTyped

\* A request on the lane, and whatever the roster does with it.
LEMMA RequestSafe ==
    ASSUME IInv, NEW task \in Tasks, Requested(task), agent' \in {"on", "off", "gone"},
           agent' = "gone" => agent = "gone" \/ task = "drop",
           UNCHANGED <<today, log, rt, job, watch, serve, faults>>,
           kept' \in KeptType, kept'.beats = kept.beats, kept'.marked \in {0, kept.marked}
    PROVE  IInv'
<1>1. LaneTyped' /\ lane' = Append(lane, task) /\ Queued(lane', task)
  BY WorldFacts, ChainedTyped DEF Requested
<1>2. WorldTyped'
  BY WorldFacts DEF WorldTyped
<1>. QED
  BY <1>1, <1>2, WorldFacts, OutsideSafe

LEMMA DeliverTimerSafe == IInv /\ DeliverTimer => IInv'
<1>. SUFFICES ASSUME IInv, DeliverTimer PROVE IInv'
  OBVIOUS
<1>1. LaneTyped' /\ lane' = Append(lane, "deliver") /\ Queued(lane', "deliver")
  BY WorldFacts, ChainedTyped DEF DeliverTimer, Tasks
<1>2. /\ rt' \in RuntimeType /\ rt'.pending = rt.pending /\ rt'.day = rt.day
      /\ rt'.thinking = rt.thinking
  BY WorldFacts, ZenonT(30) DEF DeliverTimer, RuntimeType
<1>3. WorldTyped' /\ (WakePending(rt') => WakePending(rt))
  BY <1>2, WorldFacts DEF WakePending, WorldTyped, DeliverTimer
<1>. QED
  BY <1>1, <1>2, <1>3, WorldFacts, OutsideSafe DEF DeliverTimer, Tasks

LEMMA ParkTimerSafe == IInv /\ ParkTimer => IInv'
<1>. SUFFICES ASSUME IInv, ParkTimer PROVE IInv'
  OBVIOUS
<1>1. LaneTyped' /\ lane' = Append(lane, "idle")
  BY WorldFacts, ChainedTyped DEF ParkTimer, Requested, Tasks
<1>2. /\ rt' \in RuntimeType /\ rt'.pending = rt.pending /\ rt'.day = rt.day
      /\ rt'.thinking = rt.thinking /\ rt'.deliverTimer = rt.deliverTimer
  BY WorldFacts, ZenonT(30) DEF ParkTimer, RuntimeType
<1>3. (WakePending(rt') => WakePending(rt)) /\ WorldTyped'
  BY <1>2, WorldFacts DEF WakePending, WorldTyped, ParkTimer
<1>. QED
  BY <1>1, <1>2, <1>3, WorldFacts, OutsideSafe DEF ParkTimer, Tasks

LEMMA MidnightSafe == IInv /\ Midnight => IInv'
<1>. SUFFICES ASSUME IInv, Midnight PROVE IInv'
  OBVIOUS
<1>1. WorldTyped' /\ LaneTyped'
  BY WorldFacts, ResidentAssumption DEF WorldTyped, LaneTyped, Days, Midnight
<1>. QED
  BY <1>1, WorldFacts, OutsideSafe DEF Midnight

LEMMA DayTickSafe ==
    ASSUME NEW past \in BOOLEAN, NEW stale \in BOOLEAN
    PROVE  IInv /\ DayTick(past, stale) => IInv'
<1>. SUFFICES ASSUME IInv, DayTick(past, stale) PROVE IInv'
  OBVIOUS
<1>. DEFINE r == IF past THEN SweptBeat(rt) ELSE rt
            Good(q) == /\ q \in RuntimeType /\ q.thinking = rt.thinking /\ q.day = rt.day
                       /\ rt.deliverTimer => q.deliverTimer
                       /\ WakePending(q) => WakePending(rt) \/ q.deliverTimer
<1>1. Good(r)
  BY WorldFacts, SweptTyped
<1>2. rt' = IF stale THEN SweptStale(r) ELSE r
  BY DEF DayTick
<1>3. Good(rt')
  <2>. HIDE DEF r
  <2>. QED
    BY <1>1, <1>2, WorldFacts, SweptTyped
<1>4. UNCHANGED lane \/ Chained("reflect")
  BY DEF DayTick
<1>5. LaneTyped' /\ (UNCHANGED lane \/ \E task \in Tasks : lane' = Append(lane, task))
  <2>1. CASE UNCHANGED lane
    BY <2>1, WorldFacts DEF LaneTyped
  <2>2. CASE Chained("reflect")
    BY <2>2, WorldFacts, ChainedTyped DEF Tasks
  <2>. QED
    BY <1>4, <2>1, <2>2
<1>6. WorldTyped' /\ UNCHANGED <<agent, job, watch, serve, kept>>
  BY WorldFacts DEF DayTick, WorldTyped
<1>. HIDE DEF r
<1>. QED
  BY <1>3, <1>5, <1>6, WorldFacts, OutsideSafe

\* Dispatching is a step beside the lane.
LEMMA DispatchSafe ==
    ASSUME IInv, NEW e \in Events, rt' \in {rt, Dispatched(rt, e)}, log' \in 0..MaxRow,
           UNCHANGED <<agent, today, lane, job, watch, serve, kept, faults>>
    PROVE  IInv'
<1>1. WorldTyped' /\ LaneTyped'
  BY WorldFacts DEF WorldTyped, LaneTyped
<1>2. /\ rt' \in RuntimeType /\ rt'.thinking = rt.thinking /\ rt'.day = rt.day
      /\ rt.deliverTimer => rt'.deliverTimer
      /\ WakePending(rt') => WakePending(rt) \/ rt'.deliverTimer
  BY WorldFacts, DispatchedTyped
<1>. QED
  BY <1>1, <1>2, WorldFacts, OutsideSafe

LEMMA PostSafe == ASSUME NEW kind \in Kinds PROVE IInv /\ Post(kind) => IInv'
<1>. SUFFICES ASSUME IInv, Post(kind) PROVE IInv'
  OBVIOUS
<1>1. log' \in 0..MaxRow /\ log' = log + 1
  BY WorldFacts, ResidentAssumption DEF Post
<1>2. CASE kind = "quiet"
  <2>1. Beat \in Events
    BY ResidentAssumption DEF Beat, Event, Events
  <2>. QED
    BY <1>1, <1>2, <2>1, DispatchSafe DEF Post
<1>3. CASE kind # "quiet"
  <2>1. kind \in {"direct", "plain"}
    BY <1>3 DEF Post
  <2>2. Event(kind, log + 1) \in Events
    BY <1>1, <2>1 DEF Event, Events
  <2>. QED
    BY <1>1, <1>3, <2>2, DispatchSafe DEF Post
<1>. QED
  BY <1>2, <1>3

LEMMA WakeSafe == IInv /\ Wake => IInv'
<1>1. Event("wake", 0) \in Events
  BY ResidentAssumption DEF Event, Events
<1>. QED
  BY <1>1, WorldFacts, DispatchSafe DEF Wake

LEMMA OpenSafe == IInv /\ Open => IInv'
<1>. SUFFICES ASSUME IInv, Open PROVE IInv'
  OBVIOUS
<1>1. CASE Requested("open") /\ UNCHANGED rt
  BY <1>1, WorldFacts, RequestSafe DEF Open, Tasks
<1>2. CASE rt' = [rt EXCEPT !.parkTimer = FALSE] /\ UNCHANGED lane
  <2>1. /\ rt' \in RuntimeType /\ rt'.pending = rt.pending /\ rt'.day = rt.day
        /\ rt'.thinking = rt.thinking /\ rt'.deliverTimer = rt.deliverTimer
    BY <1>2, WorldFacts, ZenonT(30) DEF RuntimeType
  <2>2. (WakePending(rt') => WakePending(rt)) /\ WorldTyped' /\ LaneTyped'
    BY <1>2, <2>1, WorldFacts DEF WakePending, WorldTyped, LaneTyped, Open
  <2>. QED
    BY <1>2, <2>1, <2>2, WorldFacts, OutsideSafe DEF Open
<1>. QED
  BY <1>1, <1>2 DEF Open

LEMMA TalkSafe == IInv /\ Talk => IInv'
<1>. SUFFICES ASSUME IInv, Talk PROVE IInv'
  OBVIOUS
<1>1. serve \in ServeType /\ <<today>> \in Seq(Days) /\ Len(<<today>>) = 1
  BY WorldFacts DEF IInv, Typed, ServeTyped
<1>2. serve' \in ServeType /\ serve'.backlog = <<today>> /\ serve'.proc = serve.proc
  BY <1>1, ZenonT(30) DEF Talk, ServeType
<1>3. ServeTyped'
  BY <1>1, <1>2, ResidentAssumption DEF ServeTyped
<1>4. Typed' /\ MarkedBeatDelivered' /\ Stays /\ Attended
  BY <1>3 DEF Talk, IInv, Typed, WorldTyped, LaneTyped, Safe, MarkedBeatDelivered, Stays, Attended
<1>. QED
  BY <1>2, <1>4, BesideSafe DEF Talk, WakePending

LEMMA ToggleSafe == IInv /\ Toggle => IInv'
<1>. SUFFICES ASSUME IInv, Toggle PROVE IInv'
  OBVIOUS
<1>1. CASE agent' = "off" /\ Requested("park")
  BY <1>1, WorldFacts, RequestSafe DEF Toggle, Tasks
<1>2. CASE agent' = "on" /\ UNCHANGED lane
  <2>1. WorldTyped' /\ LaneTyped'
    BY <1>2, WorldFacts DEF WorldTyped, LaneTyped, Toggle
  <2>. QED
    BY <1>2, <2>1, WorldFacts, OutsideSafe DEF Toggle, WakePending
<1>. QED
  BY <1>1, <1>2 DEF Toggle

LEMMA ReconfigureSafe == IInv /\ Reconfigure => IInv'
  BY WorldFacts, RequestSafe DEF Reconfigure, Tasks

LEMMA DeleteSafe == IInv /\ Delete => IInv'
<1>. SUFFICES ASSUME IInv, Delete PROVE IInv'
  OBVIOUS
<1>1. 0 \in 0..MaxDay
  BY ResidentAssumption
<1>2. kept' \in KeptType /\ kept'.beats = kept.beats /\ kept'.marked = 0
  BY <1>1, WorldFacts, ZenonT(30) DEF Delete, KeptType
<1>. QED
  BY <1>2, WorldFacts, RequestSafe DEF Delete, Tasks

\* What a launcher that has just started looks like.
Started ==
    /\ WorldTyped /\ kept \in KeptType /\ MarkedBeatDelivered
    /\ rt \in {FreshRuntime(cursor) : cursor \in 0..MaxRow}
    /\ lane = <<>> /\ job = NoJob /\ watch = NoWatch /\ serve = NoServe

LEMMA StartedSafe == Started => IInv
<1>. SUFFICES ASSUME Started PROVE IInv
  OBVIOUS
<1>1. LaneTyped
  BY ResidentAssumption DEF LaneTyped, Started
<1>2. Typed
  BY <1>1, FreshTyped, JobOfNobody, WatchOfNobody, ServeOfNobody DEF Typed, ServeTyped, Started
<1>3. job.at = "queued" /\ job.batch = {}
  BY DEF NoJob, Started
<1>4. HasSession /\ Stopping /\ Parking /\ Batched /\ Sent
  BY <1>3 DEF HasSession, Stopping, Parking, Batched, Sent, Started
<1>5. Wakes /\ ThinkingIsWatched
  BY FreshTyped DEF Wakes, ThinkingIsWatched, Started
<1>6. Gone
  BY <1>3, ServeOfNobody, WatchOfNobody DEF Gone, Started
<1>. QED
  BY <1>2, <1>4, <1>5, <1>6 DEF IInv, Safe, Started

LEMMA RestartSafe == IInv /\ Restart => IInv'
<1>1. ASSUME IInv, Restart PROVE Started'
  <2>1. (IF agent = "gone" THEN 0 ELSE log) \in 0..MaxRow
    BY <1>1, WorldFacts, ResidentAssumption
  <2>2. WorldTyped' /\ kept' \in KeptType /\ MarkedBeatDelivered'
    BY <1>1, WorldFacts DEF Restart, WorldTyped, IInv, Safe, MarkedBeatDelivered
  <2>. QED
    BY <1>1, <2>1, <2>2 DEF Restart, Started
<1>2. Started' => IInv'
  BY StartedSafe, PTL
<1>. QED
  BY <1>1, <1>2

---------------------------------------------------------------------------
(* The theorems *)

LEMMA InitSafe == Init => IInv
<1>. SUFFICES ASSUME Init PROVE IInv
  OBVIOUS
<1>1. WorldTyped /\ 1 \in 0..MaxDay /\ 0 \in 0..MaxRow
  BY ResidentAssumption DEF Init, WorldTyped, Days
<1>2. kept \in KeptType /\ MarkedBeatDelivered
  <2>1. kept = [marked |-> 1, beats |-> {}] /\ kept.marked = 1
    BY DEF Init
  <2>. QED
    BY <1>1, <2>1 DEF KeptType, MarkedBeatDelivered
<1>. QED
  BY <1>1, <1>2, StartedSafe DEF Init, Started

LEMMA StutterSafe == IInv /\ UNCHANGED vars => IInv'
  BY DEF vars, IInv, Typed, WorldTyped, LaneTyped, ServeTyped, HasSession, Safe, Wakes, WakePending,
         Stopping, Parking, Batched, Sent, Gone, MarkedBeatDelivered, ThinkingIsWatched

LEMMA LaneStepSafe == IInv /\ LaneStep => IInv'
  BY DeliverStartsSafe, ReflectStartsSafe, OpenStartsSafe, IdleStartsSafe, ParkStartsSafe,
     ParkedSafe, ProcessUpSafe, ConnectedSafe, TakenSafe, ReflectionSentSafe, SessionOpenedSafe,
     LandedSafe, AckedSafe, CallCutSafe, CaughtSafe, WaitOverSafe DEF LaneStep

LEMMA NextSafe == IInv /\ Next => IInv'
<1>. SUFFICES ASSUME IInv, Next PROVE IInv'
  OBVIOUS
<1>1. CASE LaneStep \/ BootFails \/ SendRefused \/ WaitTimesOut
  BY <1>1, LaneStepSafe, BootFailsSafe, SendRefusedSafe, WaitTimesOutSafe
<1>2. CASE \E d \in Days : OrphanTimesOut(d)
  BY <1>2, OrphanTimesOutSafe
<1>3. CASE RunStarts \/ RunEnds \/ Closed \/ SocketLost \/ ProcessDies
  BY <1>3, RunStartsSafe, RunEndsSafe, ClosedSafe, SocketLostSafe, ProcessDiesSafe
<1>4. CASE DeliverTimer \/ ParkTimer \/ Midnight \/ Wake
  BY <1>4, DeliverTimerSafe, ParkTimerSafe, MidnightSafe, WakeSafe
<1>5. CASE \E past, stale \in BOOLEAN : DayTick(past, stale)
  BY <1>5, DayTickSafe
<1>6. CASE \E kind \in Kinds : Post(kind)
  BY <1>6, PostSafe
<1>7. CASE Open \/ Talk \/ Toggle \/ Reconfigure \/ Delete \/ Restart
  BY <1>7, OpenSafe, TalkSafe, ToggleSafe, ReconfigureSafe, DeleteSafe, RestartSafe
<1>. QED
  BY <1>1, <1>2, <1>3, <1>4, <1>5, <1>6, <1>7 DEF Next

\* The inductive invariant holds in every reachable state.
THEOREM Invariance == Spec => []IInv
<1>1. Init => IInv
  BY InitSafe
<1>2. IInv /\ [Next]_vars => IInv'
  BY NextSafe, StutterSafe
<1>. QED
  BY <1>1, <1>2, PTL DEF Spec

\* Every variable has its type, and a task under way the session it needs.
THEOREM TypeCorrect == Spec => []TypeOK
<1>1. IInv => TypeOK
  BY DEF IInv, Typed, HasSession, WorldTyped, LaneTyped, ServeTyped, TypeOK,
         JobType, WatchType, ServeType, KeptType, Stages, Parts
<1>. QED
  BY <1>1, Invariance, PTL

\* No wake-up of an enabled agent is lost between dispatchEvent and deliver.
THEOREM WakesScheduled == Spec => []WakeScheduled
<1>1. IInv => WakeScheduled
  BY DEF IInv, Safe, Wakes, Queued, WakeScheduled
<1>. QED
  BY <1>1, Invariance, PTL

\* The morning beat is only recorded as delivered on a day whose session holds it.
THEOREM BeatsDelivered == Spec => []MarkedBeatDelivered
<1>1. IInv => MarkedBeatDelivered
  BY DEF IInv, Safe
<1>. QED
  BY <1>1, Invariance, PTL

\* An agent that shows as thinking has a watcher that can tell it the end.
THEOREM ThinkersWatched == Spec => []ThinkingIsWatched
<1>1. IInv => ThinkingIsWatched
  BY DEF IInv, Safe
<1>. QED
  BY <1>1, Invariance, PTL

\* Once a deleted agent's lane is empty nothing of it runs.
THEOREM GoneStopped == Spec => []GoneIsStopped
<1>1. IInv => GoneIsStopped
  BY NothingQueued DEF IInv, Safe, Gone, GoneIsStopped
<1>. QED
  BY <1>1, Invariance, PTL

===========================================================================
