-------------------- MODULE ScheduledTaskManager_proofs --------------------
(* Proofs about ScheduledTaskManager, for every set of tasks and every limit. *)
EXTENDS ScheduledTaskManager, SequenceTheorems, TLAPS

---------------------------------------------------------------------------
(* Histories *)

\* prependHistory keeps the limit, and its rows are the new one and old ones.
LEMMA PrependRows ==
    ASSUME NEW h \in Seq(Rows), NEW r \in 0..MaxRuns, NEW s \in Statuses
    PROVE  /\ Prepend(h, r, s) \in Seq(Rows)
           /\ Len(Prepend(h, r, s)) <= HistoryLimit
           /\ \A i \in DOMAIN Prepend(h, r, s) :
                 \/ Prepend(h, r, s)[i] = [run |-> r, status |-> s]
                 \/ \E j \in DOMAIN h : Prepend(h, r, s)[i] = h[j]
<1>. DEFINE new == [run |-> r, status |-> s]
            longer == <<new>> \o h
            n == IF Len(longer) < HistoryLimit THEN Len(longer) ELSE HistoryLimit
<1>1. new \in Rows /\ HistoryLimit \in Nat
  BY RoutineAssumption DEF Rows
<1>. HIDE DEF new
<1>2. longer \in Seq(Rows) /\ Len(longer) = Len(h) + 1
  BY <1>1
<1>3. \A i \in 1..Len(longer) : longer[i] = new \/ \E j \in DOMAIN h : longer[i] = h[j]
  BY <1>1, ConcatProperties
<1>. HIDE DEF longer
<1>4. n \in Nat /\ n <= Len(longer) /\ n <= HistoryLimit
  BY <1>1, <1>2
<1>. HIDE DEF n
<1>5. \A i \in 1..n : longer[i] \in Rows
  BY <1>2, <1>4
<1>6. /\ SubSeq(longer, 1, n) \in Seq(Rows)
      /\ Len(SubSeq(longer, 1, n)) = n
      /\ \A i \in 1..n : SubSeq(longer, 1, n)[i] = longer[i]
  BY <1>4, <1>5, SubSeqProperties
<1>7. Prepend(h, r, s) = SubSeq(longer, 1, n)
  BY DEF Prepend, longer, n, new
<1>. QED
  BY <1>2, <1>3, <1>4, <1>6, <1>7 DEF new

\* Marking rows changes statuses only.
LEMMA MarkedRows ==
    ASSUME NEW h \in Seq(Rows), NEW r, NEW s \in Statuses
    PROVE  /\ Marked(h, r, s) \in Seq(Rows)
           /\ Len(Marked(h, r, s)) = Len(h) /\ DOMAIN Marked(h, r, s) = DOMAIN h
           /\ \A i \in DOMAIN h : /\ Marked(h, r, s)[i].run = h[i].run
                                  /\ Marked(h, r, s)[i].status =
                                        IF h[i].run = r THEN s ELSE h[i].status
<1>. DEFINE m == Marked(h, r, s)
<1>1. DOMAIN m = 1..Len(h) /\ DOMAIN h = 1..Len(h) /\ Len(h) \in Nat
  BY DEF Marked
<1>2. ASSUME NEW i \in 1..Len(h)
      PROVE  m[i] \in Rows /\ m[i].run = h[i].run
             /\ m[i].status = IF h[i].run = r THEN s ELSE h[i].status
  <2>1. h[i] \in Rows
    OBVIOUS
  <2>2. m[i] = IF h[i].run = r THEN [h[i] EXCEPT !.status = s] ELSE h[i]
    BY <1>1 DEF Marked
  <2>. QED
    BY <2>1, <2>2 DEF Rows
<1>. HIDE DEF m
<1>3. m \in Seq(Rows) /\ Len(m) = Len(h)
  <2>1. m = [i \in 1..Len(h) |-> m[i]]
    BY <1>1 DEF m, Marked
  <2>. QED
    BY <1>1, <1>2, <2>1
<1>. QED
  BY <1>1, <1>2, <1>3 DEF m

---------------------------------------------------------------------------
(* Coherence of one task *)

\* Coherent(t), of a history, a session, a run count, a fire and an active run.
Agree(h, s, n, f, a) ==
    /\ \A i \in DOMAIN h : h[i].run <= n
    /\ \A i \in DOMAIN h : h[i].status \in Unfinished => h[i].run = s /\ h[i].run # 0
    /\ f.at # "off" =>
          /\ f.run = n /\ n # 0
          /\ \A i \in DOMAIN h : h[i].status \notin Unfinished /\ h[i].run # f.run
    /\ a # 0 => \A i \in DOMAIN h : h[i].run = a => h[i].status \in Unfinished
    /\ \A i, j \in DOMAIN h : (h[i].run = h[j].run /\ h[i].run # 0) => h[i].status = h[j].status

LEMMA AgreeIsCoherent ==
    ASSUME NEW t \in Tasks
    PROVE  Coherent(t) <=> Agree(task[t].history, task[t].session, runs[t], fire[t], active[t])
  BY DEF Coherent, Agree

LEMMA LaunchAgrees ==
    ASSUME NEW h \in Seq(Rows), NEW n \in Nat, NEW f, NEW a,
           f.at = "off", Agree(h, 0, n, f, a)
    PROVE  Agree(h, n + 1, n + 1, [at |-> "column", run |-> n + 1], a)
<1>1. ASSUME NEW i \in DOMAIN h PROVE h[i].run \in Int
  <2>1. h[i] \in Rows
    OBVIOUS
  <2>. QED
    BY <2>1, RoutineAssumption DEF Rows
<1>. QED
  BY <1>1 DEF Agree

LEMMA SkipAgrees ==
    ASSUME NEW h \in Seq(Rows), NEW s, NEW n \in Nat, NEW f, NEW a, Agree(h, s, n, f, a)
    PROVE  Agree(Prepend(h, 0, "skipped"), s, n, f, a)
<1>. DEFINE p == Prepend(h, 0, "skipped")
<1>1. \A i \in DOMAIN p : p[i] = [run |-> 0, status |-> "skipped"] \/ \E j \in DOMAIN h : p[i] = h[j]
  BY PrependRows, RoutineAssumption DEF Statuses
<1>. HIDE DEF p
<1>2. \A i \in DOMAIN p : (p[i].run = 0 /\ p[i].status = "skipped") \/ \E j \in DOMAIN h : p[i] = h[j]
  BY <1>1
<1>. QED
  <2>1. \A i \in DOMAIN p : p[i].run <= n
    BY <1>2 DEF Agree
  <2>2. \A i \in DOMAIN p : p[i].status \in Unfinished => p[i].run = s /\ p[i].run # 0
    BY <1>2 DEF Agree, Unfinished
  <2>3. f.at # "off" => \A i \in DOMAIN p : p[i].status \notin Unfinished /\ p[i].run # f.run
    BY <1>2 DEF Agree, Unfinished
  <2>4. a # 0 => \A i \in DOMAIN p : p[i].run = a => p[i].status \in Unfinished
    BY <1>2 DEF Agree
  <2>5. \A i, j \in DOMAIN p : (p[i].run = p[j].run /\ p[i].run # 0) => p[i].status = p[j].status
    BY <1>2 DEF Agree
  <2>. QED
    BY <2>1, <2>2, <2>3, <2>4, <2>5 DEF Agree, p

\* A fire ends with a row of its run, failed or running.
LEMMA EndAgrees ==
    ASSUME NEW h \in Seq(Rows), NEW s, NEW n \in 0..MaxRuns, NEW f, NEW a, NEW st \in Statuses,
           NEW s2, NEW a2,
           f.at # "off", Agree(h, s, n, f, a),
           \/ st = "failed" /\ a2 = 0
           \/ st = "running" /\ s2 = f.run /\ a2 = a
    PROVE  Agree(Prepend(h, f.run, st), s2, n, Idle, a2)
<1>. DEFINE p == Prepend(h, f.run, st)
<1>0. f.run = n /\ n # 0 /\ \A j \in DOMAIN h : h[j].status \notin Unfinished /\ h[j].run # n
  BY DEF Agree
<1>1. \A i \in DOMAIN p : p[i] = [run |-> n, status |-> st] \/ \E j \in DOMAIN h : p[i] = h[j]
  BY <1>0, PrependRows
<1>. HIDE DEF p
<1>2. \A i \in DOMAIN p : (p[i].run = n /\ p[i].status = st) \/ \E j \in DOMAIN h : p[i] = h[j]
  BY <1>1
<1>3. \A i \in DOMAIN p : p[i].run <= n
  BY <1>2 DEF Agree
<1>4. \A i \in DOMAIN p : p[i].status \in Unfinished => p[i].run = s2 /\ p[i].run # 0
  BY <1>0, <1>2 DEF Unfinished
<1>5. a2 # 0 => \A i \in DOMAIN p : p[i].run = a2 => p[i].status \in Unfinished
  BY <1>0, <1>2 DEF Agree, Unfinished
<1>6. \A i, j \in DOMAIN p : (p[i].run = p[j].run /\ p[i].run # 0) => p[i].status = p[j].status
  BY <1>0, <1>2 DEF Agree
<1>. QED
  BY <1>3, <1>4, <1>5, <1>6 DEF Agree, p, Idle

\* The active run ends: its rows are finished and the session may be cleared.
LEMMA FinishAgrees ==
    ASSUME NEW h \in Seq(Rows), NEW s, NEW n, NEW f, NEW a, NEW st \in {"completed", "failed"},
           a # 0, Agree(h, s, n, f, a)
    PROVE  Agree(Marked(h, a, st), IF Recorded(h, a) /\ s = a THEN 0 ELSE s, n, f, 0)
<1>. DEFINE p == Marked(h, a, st)
<1>1. /\ DOMAIN p = DOMAIN h
      /\ \A i \in DOMAIN h : /\ p[i].run = h[i].run
                             /\ p[i].status = IF h[i].run = a THEN st ELSE h[i].status
  BY MarkedRows DEF Statuses
<1>. HIDE DEF p
<1>2. \A i \in DOMAIN p : p[i].status \in Unfinished =>
         p[i].run = (IF Recorded(h, a) /\ s = a THEN 0 ELSE s) /\ p[i].run # 0
  BY <1>1 DEF Agree, Unfinished
<1>3. f.at # "off" => \A i \in DOMAIN p : p[i].status \notin Unfinished /\ p[i].run # f.run
  BY <1>1 DEF Agree, Unfinished
<1>4. \A i, j \in DOMAIN p : (p[i].run = p[j].run /\ p[i].run # 0) => p[i].status = p[j].status
  BY <1>1 DEF Agree
<1>. QED
  BY <1>1, <1>2, <1>3, <1>4 DEF Agree, p

\* Rows that change in place leave a history a history.
LEMMA RowsInPlace ==
    ASSUME NEW h \in Seq(Rows), NEW m, m = [i \in DOMAIN h |-> m[i]],
           \A i \in DOMAIN h : m[i] \in Rows
    PROVE  m \in Seq(Rows) /\ Len(m) = Len(h) /\ DOMAIN m = DOMAIN h
<1>1. DOMAIN h = 1..Len(h) /\ Len(h) \in Nat
  OBVIOUS
<1>2. m = [i \in 1..Len(h) |-> m[i]]
  BY <1>1
<1>. QED
  BY <1>1, <1>2

\* An approval of the active run is asked for or given.
Approved(h, a, st) ==
    [i \in DOMAIN h |-> IF h[i].run = a /\ h[i].status \in Unfinished
                        THEN [h[i] EXCEPT !.status = st] ELSE h[i]]

LEMMA ApproveAgrees ==
    ASSUME NEW h \in Seq(Rows), NEW s, NEW n, NEW f, NEW a, NEW st \in Unfinished,
           Agree(h, s, n, f, a)
    PROVE  /\ Approved(h, a, st) \in Seq(Rows) /\ Len(Approved(h, a, st)) = Len(h)
           /\ Agree(Approved(h, a, st), s, n, f, a)
<1>. DEFINE m == Approved(h, a, st)
<1>1. ASSUME NEW i \in DOMAIN h
      PROVE  /\ m[i] \in Rows /\ m[i].run = h[i].run
             /\ m[i].status = IF h[i].run = a /\ h[i].status \in Unfinished
                              THEN st ELSE h[i].status
  <2>1. h[i] \in Rows
    OBVIOUS
  <2>2. m[i] = IF h[i].run = a /\ h[i].status \in Unfinished
               THEN [h[i] EXCEPT !.status = st] ELSE h[i]
    BY DEF Approved
  <2>. QED
    BY <2>1, <2>2 DEF Rows, Unfinished, Statuses
<1>2. m \in Seq(Rows) /\ Len(m) = Len(h) /\ DOMAIN m = DOMAIN h
  <2>1. m = [i \in DOMAIN h |-> m[i]]
    BY DEF Approved
  <2>. HIDE DEF m
  <2>. QED
    BY <1>1, <2>1, RowsInPlace
<1>3. \A i \in DOMAIN m : m[i].status \in Unfinished <=> h[i].status \in Unfinished
  BY <1>1, <1>2
<1>4. \A i, j \in DOMAIN m : (m[i].run = m[j].run /\ m[i].run # 0) => m[i].status = m[j].status
  BY <1>1, <1>2 DEF Agree
<1>5. \A i \in DOMAIN m : m[i].run = h[i].run
  BY <1>1, <1>2
<1>. HIDE DEF m
<1>. QED
  BY <1>2, <1>3, <1>4, <1>5 DEF Agree, m

\* Boot reconciliation fails the unfinished rows and frees the task.
LEMMA ReconcileAgrees ==
    ASSUME NEW r \in TaskRows, Len(r.history) <= HistoryLimit,
           NEW n, NEW f, NEW a, Agree(r.history, r.session, n, f, a)
    PROVE  /\ Reconciled(r) \in TaskRows /\ Len(Reconciled(r).history) <= HistoryLimit
           /\ Agree(Reconciled(r).history, Reconciled(r).session, n, Idle, 0)
<1>. DEFINE h == r.history
            m == [i \in DOMAIN h |->
                    IF h[i].status \in Unfinished THEN [h[i] EXCEPT !.status = "failed"] ELSE h[i]]
            q == [r EXCEPT !.session = 0, !.history = m]
<1>1. h \in Seq(Rows) /\ 0 \in 0..MaxRuns
  BY RoutineAssumption DEF TaskRows
<1>2. Reconciled(r) = q
  BY DEF Reconciled, TaskRows
<1>3. ASSUME NEW i \in DOMAIN h
      PROVE  /\ m[i] \in Rows /\ m[i].run = h[i].run
             /\ m[i].status = IF h[i].status \in Unfinished THEN "failed" ELSE h[i].status
  <2>1. h[i] \in Rows
    BY <1>1
  <2>. QED
    BY <2>1 DEF Rows, Statuses
<1>4. m \in Seq(Rows) /\ Len(m) = Len(h) /\ DOMAIN m = DOMAIN h
  <2>1. m = [i \in DOMAIN h |-> m[i]]
    OBVIOUS
  <2>. HIDE DEF m, h
  <2>. QED
    BY <1>1, <1>3, <2>1, RowsInPlace
<1>. HIDE DEF m
<1>5. q \in TaskRows /\ Len(q.history) <= HistoryLimit /\ q.history = m /\ q.session = 0
  <2>1. Len(m) <= HistoryLimit
    BY <1>4
  <2>2. q.history = m /\ q.session = 0 /\ q \in TaskRows
    <3>. HIDE DEF h
    <3>. QED
      BY <1>1, <1>4 DEF TaskRows
  <2>. QED
    BY <2>1, <2>2
<1>6. Agree(m, 0, n, Idle, 0)
  <2>1. \A i \in DOMAIN m : m[i].run <= n /\ m[i].status \notin Unfinished
    BY <1>3, <1>4 DEF Agree, Unfinished
  <2>2. \A i, j \in DOMAIN m : (m[i].run = m[j].run /\ m[i].run # 0) => m[i].status = m[j].status
    BY <1>3, <1>4 DEF Agree
  <2>. QED
    BY <2>1, <2>2 DEF Agree, Idle
<1>. QED
  BY <1>2, <1>5, <1>6

---------------------------------------------------------------------------
(* The invariant in two parts: what the manager keeps of a task, and the rest *)

TaskOK(r) == r \in TaskRows /\ Len(r.history) <= HistoryLimit
FireOK(f) == f \in [at : {"off", "column", "run"}, run : 0..MaxRuns]

Managed ==
    /\ DOMAIN task = Tasks /\ task = [t \in Tasks |-> task[t]]
    /\ runs \in [Tasks -> 0..MaxRuns]
    /\ fire = [t \in Tasks |-> fire[t]]
    /\ active \in [Tasks -> 0..MaxRuns]
    /\ waits \subseteq Tasks
    /\ \A t \in Tasks : TaskOK(task[t]) /\ FireOK(fire[t])
    /\ \A t \in Tasks : Agree(task[t].history, task[t].session, runs[t], fire[t], active[t])

Surroundings ==
    /\ ready \in BOOLEAN
    /\ dispatches \subseteq [task : Tasks, kind : {"column", "run"}, run : RunIds,
                             at : {"queued", "sent", "served"}]
    /\ tabs \in [Tasks -> SUBSET RunIds]
    /\ actor \in [Tasks -> 0..MaxRuns]
    /\ live \subseteq [task : Tasks, run : 0..MaxRuns, session : RunIds]

LEMMA TwoParts == IInv <=> Managed /\ Surroundings
<1>1. IInv => Managed /\ Surroundings
  <2>. SUFFICES ASSUME IInv PROVE Managed /\ Surroundings
    OBVIOUS
  <2>1. Surroundings
    BY DEF IInv, TypeOK, Surroundings
  <2>2. \A t \in Tasks : TaskOK(task[t]) /\ FireOK(fire[t])
    BY DEF IInv, TypeOK, TaskOK, FireOK
  <2>3. \A t \in Tasks : Agree(task[t].history, task[t].session, runs[t], fire[t], active[t])
    BY AgreeIsCoherent DEF IInv
  <2>. QED
    BY <2>1, <2>2, <2>3 DEF IInv, TypeOK, Managed
<1>2. Managed /\ Surroundings => IInv
  <2>. SUFFICES ASSUME Managed, Surroundings PROVE IInv
    OBVIOUS
  <2>1. \A t \in Tasks : Coherent(t)
    BY AgreeIsCoherent DEF Managed
  <2>2. /\ task \in [Tasks -> TaskRows] /\ \A t \in Tasks : Len(task[t].history) <= HistoryLimit
        /\ fire \in [Tasks -> [at : {"off", "column", "run"}, run : 0..MaxRuns]]
    BY DEF Managed, TaskOK, FireOK
  <2>. QED
    BY <2>1, <2>2 DEF IInv, TypeOK, Managed, Surroundings
<1>. QED
  BY <1>1, <1>2

\* One task changes and its part of the invariant holds again.
LEMMA OneTask ==
    ASSUME Managed, NEW t \in Tasks, NEW r, NEW n \in 0..MaxRuns, NEW f, NEW a \in 0..MaxRuns,
           task' = [task EXCEPT ![t] = r], runs' = [runs EXCEPT ![t] = n],
           fire' = [fire EXCEPT ![t] = f], active' = [active EXCEPT ![t] = a],
           waits' \subseteq Tasks,
           TaskOK(r), FireOK(f), Agree(r.history, r.session, n, f, a)
    PROVE  Managed'
<1>1. ASSUME NEW u \in Tasks
      PROVE  /\ TaskOK(task'[u]) /\ FireOK(fire'[u])
             /\ Agree(task'[u].history, task'[u].session, runs'[u], fire'[u], active'[u])
  <2>1. CASE u = t
    BY <2>1 DEF Managed
  <2>2. CASE u # t
    BY <2>2 DEF Managed
  <2>. QED
    BY <2>1, <2>2
<1>2. /\ DOMAIN task' = Tasks /\ task' = [u \in Tasks |-> task'[u]]
      /\ runs' \in [Tasks -> 0..MaxRuns] /\ fire' = [u \in Tasks |-> fire'[u]]
      /\ active' \in [Tasks -> 0..MaxRuns]
  BY DEF Managed
<1>. QED
  BY <1>1, <1>2 DEF Managed

LEMMA FireKeeps ==
    ASSUME Managed, NEW fired, NEW noted, noted \subseteq Tasks, fired \subseteq Tasks,
           \A t \in fired : ~HasActiveRun(t) /\ runs[t] < MaxRuns,
           FireAll(fired, noted), waits' \subseteq Tasks
    PROVE  Managed'
<1>. MaxRuns \in Nat
  BY RoutineAssumption
<1>1. ASSUME NEW u \in Tasks
      PROVE  /\ TaskOK(task'[u]) /\ FireOK(fire'[u]) /\ runs'[u] \in 0..MaxRuns
             /\ Agree(task'[u].history, task'[u].session, runs'[u], fire'[u], active'[u])
  <2>0. /\ TaskOK(task[u]) /\ FireOK(fire[u]) /\ runs[u] \in 0..MaxRuns /\ active[u] \in 0..MaxRuns
        /\ Agree(task[u].history, task[u].session, runs[u], fire[u], active[u])
    BY DEF Managed
  <2>1. CASE u \in fired
    <3>1. task'[u] = Launched(u) /\ runs'[u] = runs[u] + 1
          /\ fire'[u] = [at |-> "column", run |-> runs[u] + 1] /\ active'[u] = active[u]
      BY <2>1 DEF FireAll
    <3>2. fire[u].at = "off" /\ task[u].session = 0 /\ runs[u] < MaxRuns
      BY <2>1 DEF HasActiveRun
    <3>3. /\ Launched(u) \in TaskRows /\ Launched(u).history = task[u].history
          /\ Launched(u).session = runs[u] + 1
      <4>1. runs[u] + 1 \in 0..MaxRuns /\ task[u] \in TaskRows
        BY <2>0, <3>2 DEF TaskOK
      <4>. QED
        BY <4>1 DEF Launched, TaskRows
    <3>4. Agree(task[u].history, runs[u] + 1, runs[u] + 1, fire'[u], active[u])
      BY <2>0, <3>1, <3>2, LaunchAgrees DEF TaskOK, TaskRows
    <3>. QED
      BY <2>0, <3>1, <3>2, <3>3, <3>4 DEF TaskOK, FireOK
  <2>2. CASE u \notin fired /\ u \in noted
    <3>1. task'[u] = Skipped(u) /\ runs'[u] = runs[u] /\ fire'[u] = fire[u] /\ active'[u] = active[u]
      BY <2>2 DEF FireAll
    <3>2. /\ Prepend(task[u].history, 0, "skipped") \in Seq(Rows)
          /\ Len(Prepend(task[u].history, 0, "skipped")) <= HistoryLimit
      <4>1. task[u].history \in Seq(Rows) /\ 0 \in 0..MaxRuns /\ "skipped" \in Statuses
        BY <2>0 DEF TaskOK, TaskRows, Statuses
      <4>. QED
        BY <4>1, PrependRows
    <3>3. /\ Skipped(u) \in TaskRows /\ Skipped(u).session = task[u].session
          /\ Skipped(u).history = Prepend(task[u].history, 0, "skipped")
      BY <2>0, <3>2 DEF Skipped, TaskOK, TaskRows
    <3>4. Agree(Prepend(task[u].history, 0, "skipped"), task[u].session, runs[u], fire[u], active[u])
      BY <2>0, SkipAgrees DEF TaskOK, TaskRows
    <3>. QED
      BY <2>0, <3>1, <3>2, <3>3, <3>4 DEF TaskOK
  <2>3. CASE u \notin fired /\ u \notin noted
    BY <2>0, <2>3 DEF FireAll
  <2>. QED
    BY <2>1, <2>2, <2>3
<1>2. /\ DOMAIN task' = Tasks /\ task' = [u \in Tasks |-> task'[u]]
      /\ runs' = [u \in Tasks |-> runs'[u]]
      /\ fire' = [u \in Tasks |-> fire'[u]] /\ active' = active
  BY DEF FireAll
<1>. QED
  BY <1>1, <1>2 DEF Managed

\* What the invariant says of one task, for the leaves below.
LEMMA OfTask ==
    ASSUME Managed, NEW t \in Tasks
    PROVE  /\ task[t] \in TaskRows /\ Len(task[t].history) <= HistoryLimit
           /\ task[t].history \in Seq(Rows) /\ task[t].session \in 0..MaxRuns
           /\ FireOK(fire[t]) /\ runs[t] \in 0..MaxRuns /\ active[t] \in 0..MaxRuns
           /\ Agree(task[t].history, task[t].session, runs[t], fire[t], active[t])
           /\ 0 \in 0..MaxRuns /\ FireOK(Idle)
  BY RoutineAssumption DEF Managed, TaskOK, TaskRows, FireOK, Idle

\* A fire ends without a task: nothing is written, and the active run is forgotten.
LEMMA GoneKeeps ==
    ASSUME Managed, NEW t \in Tasks, Settle(t), UNCHANGED <<task, runs>>,
           active' = [active EXCEPT ![t] = 0]
    PROVE  Managed'
<1>1. Agree(task[t].history, task[t].session, runs[t], Idle, 0)
  BY OfTask DEF Agree, Idle
<1>2. /\ task' = [task EXCEPT ![t] = task[t]] /\ runs' = [runs EXCEPT ![t] = runs[t]]
      /\ waits' \subseteq Tasks /\ TaskOK(task[t])
  BY DEF Managed, Settle
<1>. QED
  BY <1>1, <1>2, OfTask, OneTask DEF Settle

LEMMA FailsKeeps ==
    ASSUME Managed, NEW t \in Tasks, fire[t].at # "off", Fails(t), UNCHANGED runs
    PROVE  Managed'
<1>1. CASE ~task[t].exists
  BY <1>1, GoneKeeps DEF Fails
<1>2. CASE task[t].exists
  <2>. DEFINE h == Prepend(task[t].history, fire[t].run, "failed")
              r == [task[t] EXCEPT !.session = 0, !.history = h]
  <2>1. h \in Seq(Rows) /\ Len(h) <= HistoryLimit
    BY OfTask, PrependRows DEF FireOK, Statuses
  <2>2. Agree(h, 0, runs[t], Idle, 0)
    BY OfTask, EndAgrees DEF Statuses
  <2>3. task' = [task EXCEPT ![t].session = 0, ![t].history = h]
    BY <1>2 DEF Fails, Managed
  <2>. HIDE DEF h
  <2>4. task' = [task EXCEPT ![t] = r] /\ TaskOK(r) /\ r.session = 0 /\ r.history = h
    <3>1. task[t] \in TaskRows /\ 0 \in 0..MaxRuns
      BY OfTask
    <3>2. r \in TaskRows /\ r.session = 0 /\ r.history = h
      BY <2>1, <3>1 DEF TaskRows
    <3>3. task' = [task EXCEPT ![t] = r]
      BY <2>3 DEF Managed
    <3>. QED
      BY <2>1, <3>2, <3>3 DEF TaskOK
  <2>5. runs' = [runs EXCEPT ![t] = runs[t]] /\ waits' \subseteq Tasks
    BY DEF Managed, Fails, Settle
  <2>6. fire' = [fire EXCEPT ![t] = Idle] /\ active' = [active EXCEPT ![t] = 0]
    BY DEF Fails, Settle
  <2>. HIDE DEF r
  <2>. QED
    BY <2>2, <2>4, <2>5, <2>6, OfTask, OneTask
<1>. QED
  BY <1>1, <1>2

LEMMA AcknowledgedKeeps ==
    ASSUME Managed, NEW t \in Tasks, fire[t].at # "off", Acknowledged(t), UNCHANGED runs
    PROVE  Managed'
<1>1. CASE ~task[t].exists
  BY <1>1, GoneKeeps DEF Acknowledged
<1>2. CASE task[t].exists
  <2>. DEFINE h == Prepend(task[t].history, fire[t].run, "running")
              r == [task[t] EXCEPT !.session = fire[t].run, !.history = h]
  <2>0. fire[t].run \in 0..MaxRuns
    BY OfTask DEF FireOK
  <2>1. h \in Seq(Rows) /\ Len(h) <= HistoryLimit
    BY <2>0, OfTask, PrependRows DEF Statuses
  <2>2. Agree(h, fire[t].run, runs[t], Idle, active[t])
    BY OfTask, EndAgrees DEF Statuses
  <2>3. task' = [task EXCEPT ![t].session = fire[t].run, ![t].history = h]
    BY <1>2 DEF Acknowledged, Managed
  <2>. HIDE DEF h
  <2>4. task' = [task EXCEPT ![t] = r] /\ TaskOK(r) /\ r.session = fire[t].run /\ r.history = h
    <3>1. task[t] \in TaskRows /\ 0 \in 0..MaxRuns
      BY OfTask
    <3>2. r \in TaskRows /\ r.session = fire[t].run /\ r.history = h
      BY <2>0, <2>1, <3>1 DEF TaskRows
    <3>3. task' = [task EXCEPT ![t] = r]
      BY <2>3 DEF Managed
    <3>. QED
      BY <2>1, <3>2, <3>3 DEF TaskOK
  <2>5. /\ runs' = [runs EXCEPT ![t] = runs[t]] /\ waits' \subseteq Tasks
        /\ active' = [active EXCEPT ![t] = active[t]]
    BY <1>2 DEF Managed, Acknowledged, Settle
  <2>6. fire' = [fire EXCEPT ![t] = Idle]
    BY DEF Acknowledged, Settle
  <2>. HIDE DEF r
  <2>. QED
    BY <2>2, <2>4, <2>5, <2>6, OfTask, OneTask
<1>. QED
  BY <1>1, <1>2

LEMMA FinishKeeps ==
    ASSUME Managed, NEW t \in Tasks, NEW s \in {"completed", "failed"}, FinishRun(t, s),
           UNCHANGED <<runs, fire, waits>>
    PROVE  Managed'
<1>0. /\ runs' = [runs EXCEPT ![t] = runs[t]] /\ fire' = [fire EXCEPT ![t] = fire[t]]
      /\ waits' \subseteq Tasks
  BY DEF Managed
<1>1. CASE active[t] = 0
  BY <1>1 DEF FinishRun, Managed
<1>2. CASE active[t] # 0 /\ ~task[t].exists
  <2>1. Agree(task[t].history, task[t].session, runs[t], fire[t], 0)
    BY OfTask DEF Agree
  <2>2. task' = [task EXCEPT ![t] = task[t]] /\ active' = [active EXCEPT ![t] = 0] /\ TaskOK(task[t])
    BY <1>2 DEF FinishRun, Managed
  <2>. QED
    BY <1>0, <2>1, <2>2, OfTask, OneTask
<1>3. CASE active[t] # 0 /\ task[t].exists
  <2>. DEFINE h == Marked(task[t].history, active[t], s)
              n == IF Recorded(task[t].history, active[t]) /\ task[t].session = active[t]
                   THEN 0 ELSE task[t].session
              r == [task[t] EXCEPT !.session = n, !.history = h]
  <2>1. h \in Seq(Rows) /\ Len(h) <= HistoryLimit /\ n \in 0..MaxRuns
    BY OfTask, MarkedRows DEF Statuses
  <2>2. Agree(h, n, runs[t], fire[t], 0)
    BY <1>3, OfTask, FinishAgrees
  <2>3. task' = [task EXCEPT ![t].session = n, ![t].history = h]
        /\ active' = [active EXCEPT ![t] = 0]
    BY <1>3 DEF FinishRun, Managed
  <2>. HIDE DEF h, n
  <2>4. task' = [task EXCEPT ![t] = r] /\ TaskOK(r) /\ r.session = n /\ r.history = h
    <3>1. task[t] \in TaskRows /\ 0 \in 0..MaxRuns
      BY OfTask
    <3>2. r \in TaskRows /\ r.session = n /\ r.history = h
      BY <2>1, <3>1 DEF TaskRows
    <3>3. task' = [task EXCEPT ![t] = r]
      BY <2>3 DEF Managed
    <3>. QED
      BY <2>1, <3>2, <3>3 DEF TaskOK
  <2>. HIDE DEF r
  <2>. QED
    BY <1>0, <2>2, <2>3, <2>4, OfTask, OneTask
<1>. QED
  BY <1>1, <1>2, <1>3

\* Steps that leave what the manager keeps of its tasks alone.
LEMMA OthersKeep ==
    ASSUME Managed, UNCHANGED <<task, runs, fire, active>>, waits' \subseteq Tasks
    PROVE  Managed'
  BY DEF Managed

LEMMA ColumnEnsuredKeeps ==
    ASSUME Managed, Surroundings, NEW d \in dispatches, ColumnEnsured(d)
    PROVE  Managed'
<1>. DEFINE t == d.task
            f == [fire[t] EXCEPT !.at = "run"]
<1>0. t \in Tasks /\ d.kind = "column" /\ d.run \in 0..MaxRuns
  BY DEF Surroundings, ColumnEnsured, RunIds
<1>1. CASE Awaited(d)
  <2>1. fire[t].at = "column" /\ fire[t].run = d.run
    BY <1>0, <1>1 DEF Awaited
  <2>2. FireOK(f) /\ f.run = d.run /\ f.at = "run"
    BY <1>0, <2>1, OfTask DEF FireOK
  <2>3. Agree(task[t].history, task[t].session, runs[t], f, d.run)
    <3>. HIDE DEF f
    <3>1. /\ Agree(task[t].history, task[t].session, runs[t], fire[t], active[t])
          /\ TaskOK(task[t])
      BY <1>0, OfTask DEF Managed
    <3>. QED
      BY <2>1, <2>2, <3>1 DEF Agree
  <2>4. /\ task' = [task EXCEPT ![t] = task[t]] /\ runs' = [runs EXCEPT ![t] = runs[t]]
        /\ waits' \subseteq Tasks /\ TaskOK(task[t]) /\ runs[t] \in 0..MaxRuns
    BY <1>0, <1>1 DEF ColumnEnsured, Managed
  <2>5. fire' = [fire EXCEPT ![t] = f] /\ active' = [active EXCEPT ![t] = d.run]
    BY <1>1 DEF ColumnEnsured
  <2>. HIDE DEF f, t
  <2>. QED
    BY <1>0, <2>2, <2>3, <2>4, <2>5, OneTask
<1>2. CASE ~Awaited(d)
  BY <1>2, OthersKeep DEF ColumnEnsured, Managed
<1>. QED
  BY <1>1, <1>2

LEMMA ApprovalKeeps ==
    ASSUME Managed, Surroundings, NEW l \in live, NEW s \in Unfinished, Approval(l, s)
    PROVE  Managed'
<1>. DEFINE t == l.task
            h == task[t].history
            m == Approved(h, active[t], s)
            r == [task[t] EXCEPT !.history = m]
<1>0. t \in Tasks
  BY DEF Surroundings
<1>1. m \in Seq(Rows) /\ Len(m) = Len(h) /\ Agree(m, task[t].session, runs[t], fire[t], active[t])
  <2>1. /\ h \in Seq(Rows)
        /\ Agree(h, task[t].session, runs[t], fire[t], active[t])
    BY <1>0, OfTask
  <2>. HIDE DEF h
  <2>. QED
    BY <2>1, ApproveAgrees
<1>2. task' = [task EXCEPT ![t].history = m]
  BY <1>0 DEF Approval, Approved, Managed
<1>3. task' = [task EXCEPT ![t] = r] /\ TaskOK(r) /\ r.session = task[t].session /\ r.history = m
  <2>1. task[t] \in TaskRows /\ Len(h) <= HistoryLimit
    BY <1>0, OfTask
  <2>. HIDE DEF m
  <2>2. r \in TaskRows /\ r.session = task[t].session /\ r.history = m
    BY <1>1, <2>1 DEF TaskRows
  <2>3. task' = [task EXCEPT ![t] = r]
    BY <1>0, <1>2 DEF Managed
  <2>. QED
    BY <1>1, <2>1, <2>2, <2>3 DEF TaskOK
<1>4. /\ runs' = [runs EXCEPT ![t] = runs[t]] /\ fire' = [fire EXCEPT ![t] = fire[t]]
      /\ active' = [active EXCEPT ![t] = active[t]] /\ waits' \subseteq Tasks
  BY <1>0 DEF Approval, Managed
<1>. HIDE DEF m, r, t
<1>. QED
  BY <1>0, <1>1, <1>3, <1>4, OfTask, OneTask

LEMMA EmptyTasks ==
    ASSUME NEW r \in {NewTask, Gone}
    PROVE  r \in TaskRows /\ r.session = 0 /\ r.history = <<>>
<1>1. CASE r = NewTask
  BY <1>1, RoutineAssumption DEF NewTask, TaskRows
<1>2. CASE r = Gone
  <2>1. NewTask \in TaskRows /\ NewTask.session = 0 /\ NewTask.history = <<>>
    BY RoutineAssumption DEF NewTask, TaskRows
  <2>. QED
    BY <1>2, <2>1 DEF Gone, TaskRows
<1>. QED
  BY <1>1, <1>2

\* The user's edits and the clock: no history but an empty one is new.
LEMMA EditsKeep ==
    ASSUME Managed, NEW t \in Tasks, Create(t) \/ Update(t) \/ Delete(t) \/ TimePasses(t)
    PROVE  Managed'
<1>0. /\ runs' = [runs EXCEPT ![t] = runs[t]] /\ fire' = [fire EXCEPT ![t] = fire[t]]
      /\ active' = [active EXCEPT ![t] = active[t]] /\ waits' \subseteq Tasks
  BY DEF Create, Update, Delete, TimePasses, Managed
<1>1. ASSUME NEW r \in {NewTask, Gone}
      PROVE  TaskOK(r) /\ Agree(r.history, r.session, runs[t], fire[t], active[t])
  <2>1. r \in TaskRows /\ r.session = 0 /\ r.history = <<>>
    BY EmptyTasks
  <2>2. TaskOK(r)
    BY <2>1, RoutineAssumption DEF TaskOK
  <2>3. Agree(<<>>, 0, runs[t], fire[t], active[t])
    BY OfTask DEF Agree
  <2>. QED
    BY <2>1, <2>2, <2>3
<1>2. ASSUME NEW on \in BOOLEAN, NEW due \in BOOLEAN
      PROVE  LET r == [task[t] EXCEPT !.enabled = on, !.due = due]
             IN  TaskOK(r) /\ Agree(r.history, r.session, runs[t], fire[t], active[t])
  <2>. DEFINE r == [task[t] EXCEPT !.enabled = on, !.due = due]
  <2>1. task[t] \in TaskRows
    BY OfTask
  <2>2. r \in TaskRows /\ r.session = task[t].session /\ r.history = task[t].history
    BY <2>1 DEF TaskRows
  <2>. HIDE DEF r
  <2>. QED
    BY <2>2, OfTask DEF TaskOK, r
<1>3. PICK r : /\ task' = [task EXCEPT ![t] = r] /\ TaskOK(r)
               /\ Agree(r.history, r.session, runs[t], fire[t], active[t])
  <2>1. CASE Create(t)
    BY <1>1, <2>1 DEF Create
  <2>2. CASE Delete(t)
    BY <1>1, <2>2 DEF Delete
  <2>3. CASE Update(t)
    <3>1. PICK on \in BOOLEAN : task' = [task EXCEPT ![t].enabled = on, ![t].due = FALSE]
      BY <2>3 DEF Update
    <3>2. task' = [task EXCEPT ![t] = [task[t] EXCEPT !.enabled = on, !.due = FALSE]]
      BY <3>1 DEF Managed
    <3>. QED
      BY <1>2, <3>2
  <2>4. CASE TimePasses(t)
    <3>1. task[t] \in TaskRows /\ task[t].enabled = TRUE
      BY <2>4, OfTask DEF TimePasses, TaskRows
    <3>2. [task[t] EXCEPT !.due = TRUE] = [task[t] EXCEPT !.enabled = TRUE, !.due = TRUE]
      BY <3>1 DEF TaskRows
    <3>3. task' = [task EXCEPT ![t] = [task[t] EXCEPT !.enabled = TRUE, !.due = TRUE]]
      BY <2>4, <3>2 DEF TimePasses, Managed
    <3>. QED
      BY <1>2, <3>3
  <2>. QED
    BY <2>1, <2>2, <2>3, <2>4
<1>. QED
  BY <1>0, <1>3, OfTask, OneTask

LEMMA RestartKeeps ==
    ASSUME Managed, Restart
    PROVE  Managed'
<1>1. ASSUME NEW u \in Tasks
      PROVE  /\ TaskOK(task'[u]) /\ FireOK(fire'[u])
             /\ Agree(task'[u].history, task'[u].session, runs'[u], fire'[u], active'[u])
  <2>1. /\ task'[u] = Reconciled(task[u]) /\ fire'[u] = Idle /\ active'[u] = 0
        /\ runs'[u] = runs[u]
    BY DEF Restart
  <2>. QED
    BY <2>1, OfTask, ReconcileAgrees DEF TaskOK
<1>2. /\ DOMAIN task' = Tasks /\ task' = [t \in Tasks |-> task'[t]]
      /\ fire' = [t \in Tasks |-> fire'[t]] /\ active' \in [Tasks -> 0..MaxRuns]
      /\ runs' = runs /\ waits' = {}
  BY RoutineAssumption DEF Restart
<1>. QED
  BY <1>1, <1>2 DEF Managed

---------------------------------------------------------------------------
(* The invariant is inductive *)

LEMMA Initially == Init => IInv
<1>. SUFFICES ASSUME Init PROVE Managed /\ Surroundings
  BY TwoParts
<1>1. ASSUME NEW t \in Tasks
      PROVE  /\ TaskOK(task[t]) /\ FireOK(fire[t])
             /\ Agree(task[t].history, task[t].session, runs[t], fire[t], active[t])
  <2>1. task[t] \in {NewTask, Gone} /\ fire[t] = Idle /\ active[t] = 0
    BY DEF Init
  <2>2. task[t] \in TaskRows /\ task[t].session = 0 /\ task[t].history = <<>>
    BY <2>1, EmptyTasks
  <2>3. TaskOK(task[t]) /\ FireOK(fire[t])
    BY <2>1, <2>2, RoutineAssumption DEF TaskOK, FireOK, Idle
  <2>4. Agree(<<>>, 0, runs[t], fire[t], active[t])
    BY <2>1 DEF Agree, Idle
  <2>. QED
    BY <2>2, <2>3, <2>4
<1>2. Managed
  BY <1>1, RoutineAssumption DEF Init, Managed
<1>3. Surroundings
  <2>1. 0 \in 0..MaxRuns
    BY RoutineAssumption
  <2>2. actor \in [Tasks -> 0..MaxRuns] /\ tabs \in [Tasks -> SUBSET RunIds]
    BY <2>1 DEF Init
  <2>. QED
    BY <2>2 DEF Init, Surroundings
<1>. QED
  BY <1>2, <1>3

\* A fire awaited by a request is under way.
LEMMA AwaitedFires ==
    ASSUME Surroundings, NEW d \in dispatches
    PROVE  d.task \in Tasks /\ (Awaited(d) => fire[d.task].at # "off")
  BY DEF Surroundings, Awaited

LEMMA ManagedStep == Managed /\ Surroundings /\ [Next]_vars => Managed'
<1>. SUFFICES ASSUME Managed, Surroundings, [Next]_vars PROVE Managed'
  OBVIOUS
<1>1. CASE UNCHANGED vars
  BY <1>1, OthersKeep DEF vars, Managed
<1>2. CASE Tick
  <2>1. PICK missed \in SUBSET Due :
           /\ FireAll({t \in Due \ missed : ~HasActiveRun(t)}, Due)
           /\ waits' = {t \in Due \ missed : ~HasActiveRun(t)}
    BY <1>2 DEF Tick
  <2>. DEFINE fired == {t \in Due \ missed : ~HasActiveRun(t)}
  <2>2. Due \subseteq Tasks /\ fired \subseteq Tasks
    BY DEF Due
  <2>3. \A t \in fired : ~HasActiveRun(t) /\ runs[t] < MaxRuns
    BY DEF Due, MayLaunch
  <2>4. FireAll(fired, Due) /\ waits' \subseteq Tasks
    BY <2>1, <2>2
  <2>. HIDE DEF fired
  <2>. QED
    BY <2>2, <2>3, <2>4, FireKeeps
<1>3. CASE RendererReady \/ RendererReloads
  BY <1>3, OthersKeep DEF RendererReady, RendererReloads, Managed
<1>4. CASE Restart
  BY <1>4, RestartKeeps
<1>5. ASSUME NEW d \in dispatches,
             Claim(d) \/ ColumnEnsured(d) \/ RunStarted(d) \/ DispatchFails(d)
      PROVE  Managed'
  <2>1. CASE Claim(d)
    BY <2>1, OthersKeep DEF Claim, Managed
  <2>2. CASE ColumnEnsured(d)
    BY <2>2, ColumnEnsuredKeeps
  <2>3. CASE RunStarted(d) \/ DispatchFails(d)
    <3>1. CASE Awaited(d)
      BY <2>3, <3>1, AwaitedFires, AcknowledgedKeeps, FailsKeeps DEF RunStarted, DispatchFails
    <3>2. CASE ~Awaited(d)
      BY <2>3, <3>2, OthersKeep DEF RunStarted, DispatchFails, Managed
    <3>. QED
      BY <3>1, <3>2
  <2>. QED
    BY <1>5, <2>1, <2>2, <2>3
<1>6. ASSUME NEW l \in live, RunEnds(l) \/ \E s \in Unfinished : Approval(l, s)
      PROVE  Managed'
  <2>1. CASE RunEnds(l)
    <3>1. CASE UNCHANGED <<task, active>>
      BY <2>1, <3>1, OthersKeep DEF RunEnds, Managed
    <3>2. CASE \E s \in {"completed", "failed"} : FinishRun(l.task, s)
      <4>1. l.task \in Tasks
        BY DEF Surroundings
      <4>. QED
        BY <2>1, <3>2, <4>1, FinishKeeps DEF RunEnds
    <3>. QED
      BY <2>1, <3>1, <3>2 DEF RunEnds
  <2>. QED
    BY <1>6, <2>1, ApprovalKeeps
<1>7. ASSUME NEW t \in Tasks,
             \/ RunNow(t) \/ BridgeTimesOut(t) \/ Unregister(t)
             \/ Create(t) \/ Update(t) \/ Delete(t) \/ TimePasses(t)
             \/ \E s \in RunIds : RegisterActor(t, s) \/ UserRun(t, s)
      PROVE  Managed'
  <2>1. CASE RunNow(t)
    <3>. DEFINE fired == {u \in {t} : ~HasActiveRun(u)}
    <3>1. fired \subseteq Tasks /\ \A u \in fired : ~HasActiveRun(u) /\ runs[u] < MaxRuns
      BY <2>1 DEF RunNow, MayLaunch
    <3>2. FireAll(fired, {t}) /\ waits' \subseteq Tasks
      BY <2>1 DEF RunNow, Managed
    <3>. HIDE DEF fired
    <3>. QED
      BY <3>1, <3>2, FireKeeps
  <2>2. CASE BridgeTimesOut(t)
    BY <2>2, FailsKeeps DEF BridgeTimesOut
  <2>3. CASE Unregister(t)
    BY <2>3, FinishKeeps DEF Unregister
  <2>4. CASE \E s \in RunIds : RegisterActor(t, s) \/ UserRun(t, s)
    BY <2>4, OthersKeep DEF RegisterActor, UserRun, Managed
  <2>. QED
    BY <1>7, <2>1, <2>2, <2>3, <2>4, EditsKeep
<1>. QED
  BY <1>1, <1>2, <1>3, <1>4, <1>5, <1>6, <1>7 DEF Next

Requests == [task : Tasks, kind : {"column", "run"}, run : RunIds,
             at : {"queued", "sent", "served"}]
Runs == [task : Tasks, run : 0..MaxRuns, session : RunIds]

\* The types of what a launch leaves to the bridge and the renderer.
LEMMA FireSurroundings ==
    ASSUME Managed, Surroundings, NEW fired, NEW noted, fired \subseteq Tasks,
           \A t \in fired : runs[t] < MaxRuns,
           FireAll(fired, noted)
    PROVE  Surroundings'
<1>1. \A t \in fired : runs[t] + 1 \in RunIds
  BY RoutineAssumption DEF Managed, RunIds
<1>2. \A t \in fired : Request(t, "column", runs[t] + 1) \in Requests
  BY <1>1 DEF Request, Requests
<1>. QED
  BY <1>2 DEF FireAll, Surroundings, Requests, renderer

LEMMA SurroundingsStep == Managed /\ Surroundings /\ [Next]_vars => Surroundings'
<1>. SUFFICES ASSUME Managed, Surroundings, [Next]_vars PROVE Surroundings'
  OBVIOUS
<1>1. CASE UNCHANGED vars
  BY <1>1 DEF vars, Surroundings
<1>2. CASE Tick
  <2>1. PICK missed \in SUBSET Due :
           FireAll({t \in Due \ missed : ~HasActiveRun(t)}, Due)
    BY <1>2 DEF Tick
  <2>. DEFINE fired == {t \in Due \ missed : ~HasActiveRun(t)}
  <2>2. fired \subseteq Tasks /\ \A t \in fired : runs[t] < MaxRuns
    BY DEF Due, MayLaunch
  <2>3. FireAll(fired, Due)
    BY <2>1
  <2>. HIDE DEF fired
  <2>. QED
    BY <2>2, <2>3, FireSurroundings
<1>4. CASE RendererReady
  <2>1. \A d \in dispatches : [d EXCEPT !.at = IF @ = "queued" THEN "sent" ELSE @] \in Requests
    BY DEF Surroundings, Requests
  <2>. QED
    BY <1>4, <2>1 DEF RendererReady, Surroundings, Requests
<1>5. CASE RendererReloads \/ Restart
  <2>1. 0 \in 0..MaxRuns
    BY RoutineAssumption
  <2>2. actor' \in [Tasks -> 0..MaxRuns]
    BY <1>5, <2>1 DEF RendererReloads, Restart, Surroundings
  <2>3. live' \subseteq live /\ dispatches' = {} /\ tabs' = tabs /\ ready' \in BOOLEAN
    BY <1>5 DEF RendererReloads, Restart, Surroundings
  <2>. QED
    BY <2>2, <2>3 DEF Surroundings
<1>6. ASSUME NEW d \in dispatches,
             Claim(d) \/ ColumnEnsured(d) \/ RunStarted(d) \/ DispatchFails(d)
      PROVE  Surroundings'
  <2>0. d \in Requests
    BY DEF Surroundings, Requests
  <2>1. CASE Claim(d)
    <3>1. [d EXCEPT !.at = "served"] \in Requests
      BY <2>0 DEF Requests
    <3>. QED
      BY <2>1, <3>1 DEF Claim, Surroundings, Requests, renderer
  <2>2. CASE ColumnEnsured(d)
    <3>1. d.task \in Tasks /\ d.run \in RunIds /\ Request(d.task, "run", d.run) \in Requests
      BY <2>0 DEF Request, Requests
    <3>2. dispatches' \subseteq Requests
      BY <2>2, <3>1 DEF ColumnEnsured, Surroundings, Requests
    <3>3. tabs' \in [Tasks -> SUBSET RunIds]
      <4>1. tabs[d.task] \union {d.run} \in SUBSET RunIds
        BY <3>1 DEF Surroundings
      <4>. QED
        BY <2>2, <4>1 DEF ColumnEnsured, Surroundings
    <3>. QED
      BY <2>2, <3>2, <3>3 DEF ColumnEnsured, Surroundings, Requests
  <2>3. CASE RunStarted(d)
    <3>1. actor[d.task] \in RunIds /\ d.run \in 0..MaxRuns
      BY <2>0, <2>3, RoutineAssumption DEF RunStarted, Surroundings, Requests, RunIds
    <3>2. [task |-> d.task, run |-> d.run, session |-> actor[d.task]] \in Runs
      BY <2>0, <3>1 DEF Requests, Runs
    <3>. QED
      BY <2>3, <3>2 DEF RunStarted, Surroundings, Runs
  <2>4. CASE DispatchFails(d)
    BY <2>4 DEF DispatchFails, Surroundings, renderer
  <2>. QED
    BY <1>6, <2>1, <2>2, <2>3, <2>4
<1>7. ASSUME NEW l \in live, RunEnds(l) \/ \E s \in Unfinished : Approval(l, s)
      PROVE  Surroundings'
  <2>1. CASE RunEnds(l)
    BY <2>1 DEF RunEnds, Surroundings
  <2>2. ASSUME NEW s \in Unfinished, Approval(l, s) PROVE Surroundings'
    BY <2>2 DEF Approval, Surroundings, renderer
  <2>. QED
    BY <1>7, <2>1, <2>2
<1>8. ASSUME NEW t \in Tasks,
             \/ RunNow(t) \/ BridgeTimesOut(t) \/ Unregister(t)
             \/ Create(t) \/ Update(t) \/ Delete(t) \/ TimePasses(t)
             \/ \E s \in RunIds : RegisterActor(t, s) \/ UserRun(t, s)
      PROVE  Surroundings'
  <2>1. CASE RunNow(t)
    <3>. DEFINE fired == {u \in {t} : ~HasActiveRun(u)}
    <3>1. fired \subseteq Tasks /\ \A u \in fired : runs[u] < MaxRuns
      BY <2>1 DEF RunNow, MayLaunch
    <3>2. FireAll(fired, {t})
      BY <2>1 DEF RunNow
    <3>. HIDE DEF fired
    <3>. QED
      BY <3>1, <3>2, FireSurroundings
  <2>2. CASE BridgeTimesOut(t)
    BY <2>2 DEF BridgeTimesOut, Surroundings, renderer
  <2>3. CASE Unregister(t)
    <3>1. tabs' \in [Tasks -> SUBSET RunIds] /\ live' \subseteq live
      BY <2>3 DEF Unregister, Surroundings
    <3>2. actor' \in [Tasks -> 0..MaxRuns]
      BY <2>3, RoutineAssumption DEF Unregister, Surroundings
    <3>. QED
      BY <2>3, <3>1, <3>2 DEF Unregister, Surroundings
  <2>4. CASE Create(t) \/ Update(t) \/ Delete(t) \/ TimePasses(t)
    BY <2>4 DEF Create, Update, Delete, TimePasses, Surroundings, renderer
  <2>5. ASSUME NEW s \in RunIds, RegisterActor(t, s) PROVE Surroundings'
    BY <2>5, RoutineAssumption DEF RegisterActor, Surroundings, RunIds
  <2>6. ASSUME NEW s \in RunIds, UserRun(t, s) PROVE Surroundings'
    <3>1. [task |-> t, run |-> 0, session |-> s] \in Runs
      BY RoutineAssumption DEF Runs
    <3>. QED
      BY <2>6, <3>1 DEF UserRun, Surroundings, Runs
  <2>. QED
    BY <1>8, <2>1, <2>2, <2>3, <2>4, <2>5, <2>6
<1>. QED
  BY <1>1, <1>2, <1>4, <1>5, <1>6, <1>7, <1>8 DEF Next

LEMMA Inductive == IInv /\ [Next]_vars => IInv'
<1>1. (Managed /\ Surroundings)' => IInv'
  BY TwoParts, PTL
<1>. QED
  BY <1>1, TwoParts, ManagedStep, SurroundingsStep

THEOREM Invariance == Spec => []IInv
  BY Initially, Inductive, PTL DEF Spec

\* Every variable keeps its type and no history outgrows its limit.
THEOREM TypesCorrect == Spec => []TypeOK
<1>1. IInv => TypeOK
  BY DEF IInv
<1>. QED
  BY <1>1, Invariance, PTL

\* A row shown as running or waiting is the one its task is locked on, whatever
\* crashes, timeouts, late answers and stray events came between.
THEOREM OnlyCurrentUnfinished == Spec => []UnfinishedRowIsCurrent
<1>1. IInv => UnfinishedRowIsCurrent
  BY DEF IInv, Coherent, UnfinishedRowIsCurrent
<1>. QED
  BY <1>1, Invariance, PTL

---------------------------------------------------------------------------
(* Finished rows stay *)

\* Where the rows of a task's next history g come from: h has a row of the same run
\* that is as it was or not finished, or the row is a skipped one or ends the fire f.
Origin(h, g, f) ==
    \A j \in DOMAIN g :
        \/ g[j].run = 0
        \/ f.at # "off" /\ g[j].run = f.run /\ g[j].status \in {"failed", "running"}
        \/ \E k \in DOMAIN h : /\ g[j].run = h[k].run
                               /\ g[j].status = h[k].status \/ h[k].status \in Unfinished

Grown(t) == Origin(task[t].history, task'[t].history, fire[t])

LEMMA SameOrigin ==
    ASSUME NEW h, NEW f PROVE Origin(h, h, f)
  BY DEF Origin

LEMMA PrependOrigin ==
    ASSUME NEW h \in Seq(Rows), NEW f, NEW r \in 0..MaxRuns, NEW s \in Statuses,
           r = 0 \/ (f.at # "off" /\ r = f.run /\ s \in {"failed", "running"})
    PROVE  Origin(h, Prepend(h, r, s), f)
<1>. DEFINE g == Prepend(h, r, s)
<1>1. \A j \in DOMAIN g : g[j] = [run |-> r, status |-> s] \/ \E k \in DOMAIN h : g[j] = h[k]
  BY PrependRows
<1>. HIDE DEF g
<1>2. \A j \in DOMAIN g : (g[j].run = r /\ g[j].status = s) \/ \E k \in DOMAIN h : g[j] = h[k]
  BY <1>1
<1>. QED
  BY <1>2 DEF Origin, g

\* The unfinished rows of h change in place.
LEMMA InPlaceOrigin ==
    ASSUME NEW h, NEW g, NEW f, DOMAIN g = DOMAIN h,
           \A i \in DOMAIN h : /\ g[i].run = h[i].run
                               /\ g[i].status = h[i].status \/ h[i].status \in Unfinished
    PROVE  Origin(h, g, f)
  BY DEF Origin

LEMMA FinishGrows ==
    ASSUME Managed, NEW t \in Tasks, NEW s \in {"completed", "failed"}, FinishRun(t, s)
    PROVE  \A u \in Tasks : Grown(u)
<1>. DEFINE g == Marked(task[t].history, active[t], s)
<1>1. CASE active[t] = 0 \/ ~task[t].exists
  BY <1>1, SameOrigin DEF FinishRun, Grown
<1>2. CASE active[t] # 0 /\ task[t].exists
  <2>1. \A i \in DOMAIN task[t].history : /\ g[i].run = task[t].history[i].run
                                          /\ \/ g[i].status = task[t].history[i].status
                                             \/ task[t].history[i].status \in Unfinished
    BY <1>2, OfTask, MarkedRows DEF Statuses, Agree
  <2>2. DOMAIN g = DOMAIN task[t].history
    BY DEF Marked
  <2>3. task'[t].history = g /\ \A u \in Tasks \ {t} : task'[u] = task[u]
    <3>. DEFINE n == IF Recorded(task[t].history, active[t]) /\ task[t].session = active[t]
                     THEN 0 ELSE task[t].session
    <3>1. task' = [task EXCEPT ![t].session = n, ![t].history = g]
      BY <1>2 DEF FinishRun
    <3>. HIDE DEF g, n
    <3>2. /\ task'[t] = [task[t] EXCEPT !.session = n, !.history = g]
          /\ \A u \in Tasks \ {t} : task'[u] = task[u]
      BY <3>1 DEF Managed
    <3>. QED
      BY <3>2, OfTask DEF TaskRows
  <2>. HIDE DEF g
  <2>4. Origin(task[t].history, g, fire[t])
    BY <2>1, <2>2, InPlaceOrigin
  <2>. QED
    BY <2>3, <2>4, SameOrigin DEF Grown
<1>. QED
  BY <1>1, <1>2

LEMMA EndGrows ==
    ASSUME Managed, NEW t \in Tasks, fire[t].at # "off", Fails(t) \/ Acknowledged(t)
    PROVE  \A u \in Tasks : Grown(u)
<1>1. CASE ~task[t].exists
  BY <1>1, SameOrigin DEF Fails, Acknowledged, Grown
<1>2. CASE task[t].exists
  <2>1. PICK s \in {"failed", "running"} :
           task'[t].history = Prepend(task[t].history, fire[t].run, s)
    <3>1. ASSUME NEW n, NEW g, task' = [task EXCEPT ![t].session = n, ![t].history = g]
          PROVE  task'[t].history = g
      <4>1. task'[t] = [task[t] EXCEPT !.session = n, !.history = g]
        BY <3>1 DEF Managed
      <4>. QED
        BY <4>1, OfTask DEF TaskRows
    <3>2. CASE Fails(t)
      <4>1. task' = [task EXCEPT ![t].session = 0,
                                 ![t].history = Prepend(task[t].history, fire[t].run, "failed")]
        BY <1>2, <3>2 DEF Fails, Managed
      <4>. QED
        BY <3>1, <4>1
    <3>3. CASE Acknowledged(t)
      <4>1. task' = [task EXCEPT ![t].session = fire[t].run,
                                 ![t].history = Prepend(task[t].history, fire[t].run, "running")]
        BY <1>2, <3>3 DEF Acknowledged, Managed
      <4>. QED
        BY <3>1, <4>1
    <3>. QED
      BY <3>2, <3>3
  <2>2. \A u \in Tasks \ {t} : task'[u] = task[u]
    BY <1>2 DEF Fails, Acknowledged, Managed
  <2>3. Origin(task[t].history, Prepend(task[t].history, fire[t].run, s), fire[t])
    BY OfTask, PrependOrigin DEF FireOK, Statuses
  <2>. QED
    BY <2>1, <2>2, <2>3, SameOrigin DEF Grown
<1>. QED
  BY <1>1, <1>2

LEMMA FireGrows ==
    ASSUME Managed, NEW fired, NEW noted, FireAll(fired, noted)
    PROVE  \A u \in Tasks : Grown(u)
<1>. SUFFICES ASSUME NEW u \in Tasks PROVE Grown(u)
  OBVIOUS
<1>1. /\ task[u] \in TaskRows /\ task[u].history \in Seq(Rows)
      /\ 0 \in 0..MaxRuns /\ "skipped" \in Statuses
  BY OfTask DEF Statuses
<1>2. task'[u].history \in {task[u].history, Prepend(task[u].history, 0, "skipped")}
  BY <1>1 DEF FireAll, Launched, Skipped, TaskRows
<1>3. Origin(task[u].history, Prepend(task[u].history, 0, "skipped"), fire[u])
  BY <1>1, PrependOrigin
<1>. QED
  BY <1>2, <1>3, SameOrigin DEF Grown

LEMMA ApprovalGrows ==
    ASSUME Managed, NEW t \in Tasks, NEW l, l.task = t, NEW s \in Unfinished, Approval(l, s)
    PROVE  \A u \in Tasks : Grown(u)
<1>. DEFINE h == task[t].history
            g == Approved(h, active[t], s)
<1>1. task'[t].history = g /\ \A u \in Tasks \ {t} : task'[u] = task[u]
  <2>1. task' = [task EXCEPT ![t].history = g]
    BY DEF Approval, Approved, Managed
  <2>. HIDE DEF g
  <2>. QED
    <3>1. task'[t] = [task[t] EXCEPT !.history = g] /\ \A u \in Tasks \ {t} : task'[u] = task[u]
      BY <2>1 DEF Managed
    <3>. QED
      BY <3>1, OfTask DEF TaskRows
<1>2. h \in Seq(Rows)
  BY OfTask
<1>. HIDE DEF h
<1>3. DOMAIN g = DOMAIN h
  BY DEF Approved
<1>4. ASSUME NEW i \in DOMAIN h
      PROVE  g[i].run = h[i].run /\ (g[i].status = h[i].status \/ h[i].status \in Unfinished)
  <2>1. h[i] \in Rows
    BY <1>2
  <2>. QED
    BY <2>1 DEF Approved, Rows
<1>. HIDE DEF g
<1>5. Origin(h, g, fire[t])
  BY <1>3, <1>4, InPlaceOrigin
<1>. QED
  BY <1>1, <1>5, SameOrigin DEF Grown, h

LEMMA EditsGrow ==
    ASSUME Managed, NEW t \in Tasks, Create(t) \/ Update(t) \/ Delete(t) \/ TimePasses(t)
    PROVE  \A u \in Tasks : Grown(u)
<1>1. \A u \in Tasks \ {t} : task'[u] = task[u]
  BY DEF Create, Update, Delete, TimePasses, Managed
<1>2. task'[t].history \in {task[t].history, <<>>}
  <2>1. NewTask.history = <<>> /\ Gone.history = <<>>
    BY EmptyTasks
  <2>2. CASE Create(t) \/ Delete(t)
    BY <2>1, <2>2 DEF Create, Delete, Managed
  <2>3. CASE Update(t)
    <3>1. PICK on \in BOOLEAN : task'[t] = [task[t] EXCEPT !.enabled = on, !.due = FALSE]
      BY <2>3 DEF Update, Managed
    <3>. QED
      BY <3>1, OfTask DEF TaskRows
  <2>4. CASE TimePasses(t)
    <3>1. task'[t] = [task[t] EXCEPT !.due = TRUE]
      BY <2>4 DEF TimePasses, Managed
    <3>. QED
      BY <3>1, OfTask DEF TaskRows
  <2>. QED
    BY <2>2, <2>3, <2>4
<1>3. Origin(task[t].history, <<>>, fire[t])
  BY DEF Origin
<1>. QED
  BY <1>1, <1>2, <1>3, SameOrigin DEF Grown

LEMMA RestartGrows ==
    ASSUME Managed, Restart
    PROVE  \A u \in Tasks : Grown(u)
<1>. SUFFICES ASSUME NEW u \in Tasks PROVE Grown(u)
  OBVIOUS
<1>. DEFINE h == task[u].history
            g == [i \in DOMAIN h |->
                    IF h[i].status \in Unfinished THEN [h[i] EXCEPT !.status = "failed"] ELSE h[i]]
<1>1. task'[u].history = g
  BY OfTask DEF Restart, Reconciled, TaskRows
<1>2. h \in Seq(Rows)
  BY OfTask
<1>. HIDE DEF h
<1>3. ASSUME NEW i \in DOMAIN h
      PROVE  g[i].run = h[i].run /\ (g[i].status = h[i].status \/ h[i].status \in Unfinished)
  <2>1. h[i] \in Rows
    BY <1>2
  <2>. QED
    BY <2>1 DEF Rows
<1>4. DOMAIN g = DOMAIN h
  OBVIOUS
<1>. HIDE DEF g
<1>. QED
  BY <1>1, <1>3, <1>4, InPlaceOrigin DEF Grown, h

LEMMA StepGrows ==
    ASSUME Managed, Surroundings, [Next]_vars
    PROVE  \A u \in Tasks : Grown(u)
<1>0. UNCHANGED task => \A u \in Tasks : Grown(u)
  BY SameOrigin DEF Grown
<1>1. CASE UNCHANGED vars
  BY <1>0, <1>1 DEF vars
<1>2. CASE Tick
  BY <1>2, FireGrows DEF Tick
<1>3. CASE RendererReady \/ RendererReloads
  BY <1>0, <1>3 DEF RendererReady, RendererReloads
<1>4. CASE Restart
  BY <1>4, RestartGrows
<1>5. ASSUME NEW d \in dispatches,
             Claim(d) \/ ColumnEnsured(d) \/ RunStarted(d) \/ DispatchFails(d)
      PROVE  \A u \in Tasks : Grown(u)
  <2>1. CASE UNCHANGED task
    BY <1>0, <2>1
  <2>2. CASE Awaited(d) /\ (Acknowledged(d.task) \/ Fails(d.task))
    BY <2>2, AwaitedFires, EndGrows
  <2>. QED
    BY <1>5, <2>1, <2>2 DEF Claim, ColumnEnsured, RunStarted, DispatchFails
<1>6. ASSUME NEW l \in live, RunEnds(l) \/ \E s \in Unfinished : Approval(l, s)
      PROVE  \A u \in Tasks : Grown(u)
  <2>1. l.task \in Tasks
    BY DEF Surroundings
  <2>2. CASE RunEnds(l)
    BY <1>0, <2>1, <2>2, FinishGrows DEF RunEnds
  <2>. QED
    BY <1>6, <2>1, <2>2, ApprovalGrows
<1>7. ASSUME NEW t \in Tasks,
             \/ RunNow(t) \/ BridgeTimesOut(t) \/ Unregister(t)
             \/ Create(t) \/ Update(t) \/ Delete(t) \/ TimePasses(t)
             \/ \E s \in RunIds : RegisterActor(t, s) \/ UserRun(t, s)
      PROVE  \A u \in Tasks : Grown(u)
  <2>1. CASE RunNow(t)
    BY <2>1, FireGrows DEF RunNow
  <2>2. CASE BridgeTimesOut(t)
    BY <2>2, EndGrows DEF BridgeTimesOut
  <2>3. CASE Unregister(t)
    BY <2>3, FinishGrows DEF Unregister
  <2>4. CASE \E s \in RunIds : RegisterActor(t, s) \/ UserRun(t, s)
    BY <1>0, <2>4 DEF RegisterActor, UserRun
  <2>. QED
    BY <1>7, <2>1, <2>2, <2>3, <2>4, EditsGrow
<1>. QED
  BY <1>1, <1>2, <1>3, <1>4, <1>5, <1>6, <1>7 DEF Next

\* A finished row keeps its outcome: no late, stray or repeated event, restart or
\* new run of the task ever shows another status for a run that has finished.
THEOREM FinishedForGood == Spec => FinishedRowsStay
<1>. DEFINE Stays ==
       \A t \in Tasks : \A i \in DOMAIN task[t].history, j \in DOMAIN task'[t].history :
          LET a == task[t].history[i] b == task'[t].history[j]
          IN  (a.run = b.run /\ a.run # 0 /\ a.status \notin Unfinished) => b.status = a.status
<1>1. IInv /\ [Next]_vars => Stays
  <2>. SUFFICES ASSUME IInv, [Next]_vars,
                       NEW t \in Tasks,
                       NEW i \in DOMAIN task[t].history, NEW j \in DOMAIN task'[t].history,
                       task[t].history[i].run = task'[t].history[j].run,
                       task[t].history[i].run # 0, task[t].history[i].status \notin Unfinished
                PROVE  task'[t].history[j].status = task[t].history[i].status
    OBVIOUS
  <2>1. Managed /\ Surroundings
    BY TwoParts
  <2>2. Origin(task[t].history, task'[t].history, fire[t])
    BY <2>1, StepGrows DEF Grown
  <2>3. Agree(task[t].history, task[t].session, runs[t], fire[t], active[t])
    BY <2>1, OfTask
  <2>. QED
    BY <2>2, <2>3 DEF Origin, Agree
<1>2. IInv /\ [Next]_vars => [Stays]_vars
  BY <1>1
<1>. QED
  BY <1>2, Invariance, PTL DEF Spec, FinishedRowsStay

---------------------------------------------------------------------------
(* The promise of RoutineRuns is kept *)

\* A task is locked on its newest run, if on any.
Newest == \A t \in Tasks : task[t].session \in {0, runs[t]}

\* What a step does to the run count, the fire and the lock of a task.
Shape(u) ==
    \/ /\ runs'[u] = runs[u] + 1 /\ fire[u].at = "off" /\ task[u].session = 0
       /\ fire'[u].at # "off" /\ task'[u].session = runs[u] + 1
    \/ /\ runs'[u] = runs[u]
       /\ fire[u].at = "off" => fire'[u].at = "off"
       /\ \/ task'[u].session \in {0, task[u].session}
          \/ fire[u].at # "off" /\ task'[u].session = fire[u].run

LEMMA StillShape ==
    ASSUME UNCHANGED <<task, runs>>, NEW u \in Tasks, fire[u].at = "off" => fire'[u].at = "off"
    PROVE  Shape(u)
  BY DEF Shape

LEMMA FireShape ==
    ASSUME Managed, NEW fired, NEW noted, FireAll(fired, noted),
           \A t \in fired : ~HasActiveRun(t), NEW u \in Tasks
    PROVE  Shape(u)
<1>0. task[u] \in TaskRows /\ task[u] = [task[u] EXCEPT !.due = task[u].due]
  BY OfTask DEF TaskRows
<1>1. CASE u \in fired
  <2>1. /\ task'[u] = Launched(u) /\ runs'[u] = runs[u] + 1
        /\ fire'[u] = [at |-> "column", run |-> runs[u] + 1]
    BY <1>1 DEF FireAll
  <2>2. fire[u].at = "off" /\ task[u].session = 0
    BY <1>1 DEF HasActiveRun
  <2>3. Launched(u).session = runs[u] + 1
    BY <1>0 DEF Launched, TaskRows
  <2>. QED
    BY <2>1, <2>2, <2>3 DEF Shape
<1>2. CASE u \notin fired
  <2>1. /\ runs'[u] = runs[u] /\ fire'[u] = fire[u]
        /\ task'[u] = task[u] \/ task'[u] = Skipped(u)
    BY <1>2 DEF FireAll
  <2>2. Skipped(u).session = task[u].session
    BY <1>0 DEF Skipped, TaskRows
  <2>. QED
    BY <2>1, <2>2 DEF Shape
<1>. QED
  BY <1>1, <1>2

\* One task's lock and history change, beside its fire.
LEMMA PatchShape ==
    ASSUME Managed, NEW t \in Tasks, NEW s, NEW h,
           task' = [task EXCEPT ![t].session = s, ![t].history = h]
    PROVE  task'[t].session = s /\ \A u \in Tasks \ {t} : task'[u] = task[u]
<1>1. /\ task'[t] = [task[t] EXCEPT !.session = s, !.history = h]
      /\ \A u \in Tasks \ {t} : task'[u] = task[u]
  BY DEF Managed
<1>. QED
  BY <1>1, OfTask DEF TaskRows

LEMMA EndShape ==
    ASSUME Managed, NEW t \in Tasks, fire[t].at # "off", Fails(t) \/ Acknowledged(t),
           UNCHANGED runs, NEW u \in Tasks
    PROVE  Shape(u)
<1>0. fire'[u] = IF u = t THEN Idle ELSE fire[u]
  BY DEF Fails, Acknowledged, Settle, Managed
<1>1. CASE ~task[t].exists
  BY <1>0, <1>1, StillShape DEF Fails, Acknowledged, Idle
<1>2. CASE task[t].exists /\ Fails(t)
  <2>1. task' = [task EXCEPT ![t].session = 0,
                             ![t].history = Prepend(task[t].history, fire[t].run, "failed")]
    BY <1>2 DEF Fails, Managed
  <2>2. task'[t].session = 0 /\ \A v \in Tasks \ {t} : task'[v] = task[v]
    BY <2>1, PatchShape
  <2>. QED
    BY <1>0, <2>2 DEF Shape, Idle
<1>3. CASE task[t].exists /\ Acknowledged(t)
  <2>1. task' = [task EXCEPT ![t].session = fire[t].run,
                             ![t].history = Prepend(task[t].history, fire[t].run, "running")]
    BY <1>3 DEF Acknowledged, Managed
  <2>2. task'[t].session = fire[t].run /\ \A v \in Tasks \ {t} : task'[v] = task[v]
    BY <2>1, PatchShape
  <2>. QED
    BY <1>0, <2>2 DEF Shape, Idle
<1>. QED
  BY <1>1, <1>2, <1>3

LEMMA FinishShape ==
    ASSUME Managed, NEW t \in Tasks, NEW s, FinishRun(t, s), UNCHANGED <<runs, fire>>,
           NEW u \in Tasks
    PROVE  Shape(u)
<1>1. CASE active[t] = 0 \/ ~task[t].exists
  BY <1>1, StillShape DEF FinishRun
<1>2. CASE active[t] # 0 /\ task[t].exists
  <2>. DEFINE n == IF Recorded(task[t].history, active[t]) /\ task[t].session = active[t]
                   THEN 0 ELSE task[t].session
  <2>1. task' = [task EXCEPT ![t].session = n, ![t].history = Marked(task[t].history, active[t], s)]
    BY <1>2 DEF FinishRun
  <2>2. n \in {0, task[t].session}
    OBVIOUS
  <2>. HIDE DEF n
  <2>3. task'[t].session = n /\ \A v \in Tasks \ {t} : task'[v] = task[v]
    BY <2>1, PatchShape
  <2>. QED
    BY <2>2, <2>3 DEF Shape
<1>. QED
  BY <1>1, <1>2

LEMMA EditsShape ==
    ASSUME Managed, NEW t \in Tasks, Create(t) \/ Update(t) \/ Delete(t) \/ TimePasses(t),
           NEW u \in Tasks
    PROVE  Shape(u)
<1>1. UNCHANGED <<runs, fire>>
  BY DEF Create, Update, Delete, TimePasses
<1>2. u # t => task'[u] = task[u]
  BY DEF Create, Update, Delete, TimePasses, Managed
<1>3. task'[t].session \in {0, task[t].session}
  <2>1. CASE Create(t) \/ Delete(t)
    BY <2>1, EmptyTasks DEF Create, Delete, Managed
  <2>2. CASE Update(t)
    <3>1. PICK on \in BOOLEAN : task'[t] = [task[t] EXCEPT !.enabled = on, !.due = FALSE]
      BY <2>2 DEF Update, Managed
    <3>. QED
      BY <3>1, OfTask DEF TaskRows
  <2>3. CASE TimePasses(t)
    <3>1. task'[t] = [task[t] EXCEPT !.due = TRUE]
      BY <2>3 DEF TimePasses, Managed
    <3>. QED
      BY <3>1, OfTask DEF TaskRows
  <2>. QED
    BY <2>1, <2>2, <2>3
<1>. QED
  BY <1>1, <1>2, <1>3 DEF Shape

LEMMA ApprovalShape ==
    ASSUME Managed, NEW l, l.task \in Tasks, NEW s, Approval(l, s), NEW u \in Tasks
    PROVE  Shape(u)
<1>1. PICK h : task' = [task EXCEPT ![l.task].history = h]
  BY DEF Approval
<1>2. task'[u] = task[u] \/ task'[u] = [task[u] EXCEPT !.history = h]
  BY <1>1 DEF Managed
<1>3. task'[u].session = task[u].session
  BY <1>2, OfTask DEF TaskRows
<1>. QED
  BY <1>3 DEF Approval, Shape

LEMMA StepShape ==
    ASSUME Managed, Surroundings, [Next]_vars
    PROVE  \A u \in Tasks : Shape(u)
<1>. SUFFICES ASSUME NEW u \in Tasks PROVE Shape(u)
  OBVIOUS
<1>1. CASE UNCHANGED vars
  BY <1>1, StillShape DEF vars
<1>2. CASE Tick
  <2>1. PICK missed \in SUBSET Due :
           FireAll({t \in Due \ missed : ~HasActiveRun(t)}, Due)
    BY <1>2 DEF Tick
  <2>. QED
    BY <2>1, FireShape
<1>3. CASE RendererReady \/ RendererReloads
  BY <1>3, StillShape DEF RendererReady, RendererReloads
<1>4. CASE Restart
  <2>1. /\ task'[u] = Reconciled(task[u]) /\ fire'[u] = Idle /\ runs'[u] = runs[u]
    BY <1>4 DEF Restart
  <2>2. Reconciled(task[u]).session = 0
    BY OfTask DEF Reconciled, TaskRows
  <2>. QED
    BY <2>1, <2>2 DEF Shape, Idle
<1>5. ASSUME NEW d \in dispatches,
             Claim(d) \/ ColumnEnsured(d) \/ RunStarted(d) \/ DispatchFails(d)
      PROVE  Shape(u)
  <2>1. CASE Claim(d)
    BY <2>1, StillShape DEF Claim
  <2>2. CASE ColumnEnsured(d)
    <3>1. fire[u].at = "off" => fire'[u].at = "off"
      <4>1. Awaited(d) => fire[d.task].at # "off"
        BY AwaitedFires
      <4>2. CASE Awaited(d)
        <5>1. fire' = [fire EXCEPT ![d.task].at = "run"]
          BY <2>2, <4>2 DEF ColumnEnsured
        <5>. QED
          BY <4>1, <4>2, <5>1 DEF Managed
      <4>3. CASE ~Awaited(d)
        BY <2>2, <4>3 DEF ColumnEnsured
      <4>. QED
        BY <4>2, <4>3
    <3>. QED
      BY <2>2, <3>1, StillShape DEF ColumnEnsured
  <2>3. CASE RunStarted(d) \/ DispatchFails(d)
    <3>1. CASE Awaited(d)
      BY <2>3, <3>1, AwaitedFires, EndShape DEF RunStarted, DispatchFails
    <3>2. CASE ~Awaited(d)
      BY <2>3, <3>2, StillShape DEF RunStarted, DispatchFails
    <3>. QED
      BY <3>1, <3>2
  <2>. QED
    BY <1>5, <2>1, <2>2, <2>3
<1>6. ASSUME NEW l \in live, RunEnds(l) \/ \E s \in Unfinished : Approval(l, s)
      PROVE  Shape(u)
  <2>1. l.task \in Tasks
    BY DEF Surroundings
  <2>2. CASE RunEnds(l)
    <3>1. CASE UNCHANGED <<task, active>>
      BY <2>2, <3>1, StillShape DEF RunEnds
    <3>2. CASE \E s \in {"completed", "failed"} : FinishRun(l.task, s)
      BY <2>1, <2>2, <3>2, FinishShape DEF RunEnds
    <3>. QED
      BY <2>2, <3>1, <3>2 DEF RunEnds
  <2>. QED
    BY <1>6, <2>1, <2>2, ApprovalShape
<1>7. ASSUME NEW t \in Tasks,
             \/ RunNow(t) \/ BridgeTimesOut(t) \/ Unregister(t)
             \/ Create(t) \/ Update(t) \/ Delete(t) \/ TimePasses(t)
             \/ \E s \in RunIds : RegisterActor(t, s) \/ UserRun(t, s)
      PROVE  Shape(u)
  <2>1. CASE RunNow(t)
    BY <2>1, FireShape DEF RunNow
  <2>2. CASE BridgeTimesOut(t)
    BY <2>2, EndShape DEF BridgeTimesOut
  <2>3. CASE Unregister(t)
    BY <2>3, FinishShape DEF Unregister
  <2>4. CASE \E s \in RunIds : RegisterActor(t, s) \/ UserRun(t, s)
    BY <2>4, StillShape DEF RegisterActor, UserRun
  <2>. QED
    BY <1>7, <2>1, <2>2, <2>3, <2>4, EditsShape
<1>. QED
  BY <1>1, <1>2, <1>3, <1>4, <1>5, <1>6, <1>7 DEF Next

LEMMA NewestInductive == Managed /\ Surroundings /\ Newest /\ [Next]_vars => Newest'
<1>. SUFFICES ASSUME Managed, Surroundings, Newest, [Next]_vars, NEW t \in Tasks
              PROVE  task'[t].session \in {0, runs'[t]}
  BY DEF Newest
<1>1. Shape(t) /\ task[t].session \in {0, runs[t]}
  BY StepShape DEF Newest
<1>2. fire[t].at # "off" => fire[t].run = runs[t]
  BY OfTask DEF Agree
<1>. QED
  BY <1>1, <1>2 DEF Shape

THEOREM LockedOnNewest == Spec => []Newest
<1>1. Init => Newest
  <2>. SUFFICES ASSUME Init, NEW t \in Tasks PROVE task[t].session = 0
    BY DEF Newest
  <2>. QED
    BY EmptyTasks DEF Init
<1>2. IInv /\ Newest /\ [Next]_vars => Newest'
  BY TwoParts, NewestInductive
<1>. QED
  BY <1>1, <1>2, Invariance, PTL DEF Spec

\* The unfinished rows of a history.
Opens(h) == {h[i] : i \in {j \in DOMAIN h : h[j].status \in Unfinished}}

\* A task shows one unfinished row at most, of its newest run, and none while
\* that run is being launched.
LEMMA OneOpen ==
    ASSUME NEW h \in Seq(Rows), NEW n, NEW s \in {0, n}, NEW f, NEW a, Agree(h, s, n, f, a)
    PROVE  /\ Opens(h) = {} \/ \E x \in Unfinished : Opens(h) = {[run |-> n, status |-> x]}
           /\ f.at # "off" \/ s = 0 => Opens(h) = {}
<1>1. ASSUME NEW i \in DOMAIN h, h[i].status \in Unfinished
      PROVE  h[i] = [run |-> n, status |-> h[i].status] /\ s # 0 /\ f.at = "off" /\ h[i].run # 0
  <2>1. h[i] \in Rows
    OBVIOUS
  <2>2. h[i].run = n /\ s # 0 /\ f.at = "off" /\ h[i].run # 0
    BY <1>1 DEF Agree
  <2>. QED
    BY <2>1, <2>2 DEF Rows
<1>2. CASE \E i \in DOMAIN h : h[i].status \in Unfinished
  <2>1. PICK i \in DOMAIN h : h[i].status \in Unfinished
    BY <1>2
  <2>2. ASSUME NEW j \in DOMAIN h, h[j].status \in Unfinished PROVE h[j] = h[i]
    <3>1. /\ h[i] = [run |-> n, status |-> h[i].status]
          /\ h[j] = [run |-> n, status |-> h[j].status]
          /\ h[i].run # 0
      BY <1>1, <2>1, <2>2
    <3>2. h[i].run = h[j].run
      BY <3>1
    <3>3. h[i].status = h[j].status
      BY <3>1, <3>2 DEF Agree
    <3>. QED
      BY <3>1, <3>3
  <2>3. Opens(h) = {h[i]}
    BY <2>1, <2>2 DEF Opens
  <2>. QED
    BY <1>1, <2>1, <2>3
<1>3. CASE \A i \in DOMAIN h : h[i].status \notin Unfinished
  BY <1>3 DEF Opens
<1>. QED
  BY <1>2, <1>3

\* What a step shows unfinished was unfinished, or has just been launched.
LEMMA OpensGrow ==
    ASSUME NEW h \in Seq(Rows), NEW n, NEW s, NEW f, NEW a, Agree(h, s, n, f, a),
           NEW g, NEW s2, NEW n2, NEW f2, NEW a2, Agree(g, s2, n2, f2, a2), Origin(h, g, f)
    PROVE  /\ f.at = "off" /\ Opens(g) # {} => Opens(h) # {}
           /\ f.at # "off" => \A row \in Opens(g) : row.status = "running"
<1>1. ASSUME NEW j \in DOMAIN g, g[j].status \in Unfinished
      PROVE  /\ f.at = "off" => \E k \in DOMAIN h : h[k].status \in Unfinished
             /\ f.at # "off" => g[j].status = "running"
  <2>1. g[j].run # 0
    BY <1>1 DEF Agree
  <2>2. \/ f.at # "off" /\ g[j].status \in {"failed", "running"}
        \/ \E k \in DOMAIN h : g[j].status = h[k].status \/ h[k].status \in Unfinished
    BY <2>1 DEF Origin
  <2>. QED
    BY <1>1, <2>2 DEF Unfinished, Agree
<1>. QED
  BY <1>1 DEF Opens

LEMMA KeptStep == IInv /\ IInv' /\ Newest /\ Newest' /\ [Next]_vars => [Promise!Next]_(Promise!vars)
<1>. SUFFICES ASSUME IInv, IInv', Newest, Newest', [Next]_vars, NEW t \in Tasks
              PROVE  \/ Promise!Launch(t) \/ Promise!Begin(t) \/ Promise!Turn(t)
                     \/ Promise!End(t) \/ Promise!Rest(t)
  BY DEF Promise!Next
<1>. DEFINE h == task[t].history
            g == task'[t].history
<1>0. Managed /\ Surroundings /\ Managed'
  BY TwoParts, PTL
<1>1. /\ h \in Seq(Rows) /\ task[t].session \in {0, runs[t]}
      /\ Agree(h, task[t].session, runs[t], fire[t], active[t])
  BY <1>0, OfTask DEF Newest
<1>2. /\ g \in Seq(Rows) /\ task'[t].session \in {0, runs'[t]}
      /\ Agree(g, task'[t].session, runs'[t], fire'[t], active'[t])
  BY <1>0 DEF Newest, Managed, TaskOK, TaskRows
<1>3. Shape(t) /\ Origin(h, g, fire[t])
  BY <1>0, StepShape, StepGrows DEF Grown
<1>. HIDE DEF h, g
<1>4. /\ Opens(h) = {} \/ \E x \in Unfinished : Opens(h) = {[run |-> runs[t], status |-> x]}
      /\ fire[t].at # "off" \/ task[t].session = 0 => Opens(h) = {}
  BY <1>1, OneOpen
<1>5. /\ Opens(g) = {} \/ \E x \in Unfinished : Opens(g) = {[run |-> runs'[t], status |-> x]}
      /\ fire'[t].at # "off" => Opens(g) = {}
  BY <1>2, OneOpen
<1>6. /\ fire[t].at = "off" /\ Opens(g) # {} => Opens(h) # {}
      /\ fire[t].at # "off" => \A row \in Opens(g) : row.status = "running"
  BY <1>1, <1>2, <1>3, OpensGrow
<1>7. OpenRows(t) = Opens(h) /\ (OpenRows(t))' = Opens(g)
  BY DEF OpenRows, Opens, h, g
<1>8. CASE runs'[t] # runs[t]
  <2>1. /\ runs'[t] = runs[t] + 1 /\ fire[t].at = "off" /\ task[t].session = 0
        /\ fire'[t].at # "off"
    BY <1>3, <1>8 DEF Shape
  <2>. QED
    BY <1>4, <1>5, <1>7, <2>1 DEF Promise!Launch
<1>9. CASE runs'[t] = runs[t] /\ fire'[t].at # "off"
  <2>1. fire[t].at # "off"
    <3>1. runs[t] + 1 # runs[t]
      BY <1>0, RoutineAssumption DEF Managed
    <3>. QED
      BY <1>3, <1>9, <3>1 DEF Shape
  <2>. QED
    BY <1>4, <1>5, <1>7, <1>9, <2>1 DEF Promise!Rest
<1>10. CASE runs'[t] = runs[t] /\ fire'[t].at = "off" /\ Opens(g) = {}
  BY <1>7, <1>10 DEF Promise!End
<1>11. CASE runs'[t] = runs[t] /\ fire'[t].at = "off" /\ Opens(g) # {}
  <2>1. PICK y \in Unfinished : Opens(g) = {[run |-> runs[t], status |-> y]}
    BY <1>5, <1>11
  <2>2. CASE fire[t].at # "off"
    <3>1. y = "running" /\ Opens(h) = {}
      BY <1>4, <1>6, <2>1, <2>2
    <3>. QED
      BY <1>7, <1>11, <2>1, <2>2, <3>1 DEF Promise!Begin, Promise!Row
  <2>3. CASE fire[t].at = "off"
    <3>1. PICK x \in Unfinished : Opens(h) = {[run |-> runs[t], status |-> x]}
      BY <1>4, <1>6, <1>11, <2>3
    <3>. QED
      BY <1>7, <1>11, <2>1, <2>3, <3>1
      DEF Promise!Turn, Promise!Row, Promise!Statuses, Unfinished
  <2>. QED
    BY <2>2, <2>3
<1>. QED
  BY <1>8, <1>9, <1>10, <1>11

\* Whatever the bridge, the renderer, the timers and the user do, the runs of a
\* routine keep the promise of RoutineRuns.
THEOREM RoutinesKeepPromise == Spec => KeepsPromise
<1>1. Init => Promise!Init
  <2>. SUFFICES ASSUME Init PROVE Promise!Init
    OBVIOUS
  <2>1. ASSUME NEW t \in Tasks PROVE fire[t].at = "off" /\ OpenRows(t) = {}
    <3>1. task[t].history = <<>> /\ fire[t] = Idle
      BY EmptyTasks DEF Init
    <3>. QED
      BY <3>1 DEF OpenRows, Idle
  <2>. QED
    BY <2>1 DEF Init, Promise!Init
<1>. QED
  BY <1>1, KeptStep, Invariance, LockedOnNewest, PTL DEF Spec, KeepsPromise, Promise!Spec
===========================================================================
