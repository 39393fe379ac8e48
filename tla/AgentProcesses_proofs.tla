------------------------ MODULE AgentProcesses_proofs ------------------------
(* Proofs about AgentProcesses, for all consumers, hosts and bounds. *)
EXTENDS AgentProcesses, FiniteSetTheorems, SequenceTheorems, TLAPS

---------------------------------------------------------------------------
(* The inductive invariant behind the types.  A calm client's requests run *)
(* one at a time, the first of its queue.                                  *)

Fitting(op) ==
    /\ op.kind = "start" => op.at \in {"waiting", "preparing", "booting", "configuring", "swapping",
                                       "unstaging", "retiring"}
    /\ op.kind = "stop" => op.at \in {"waiting", "unbinding", "halting"}
    /\ op.kind = "resume" => op.at \in {"waiting", "withdrawing", "configuring"}
    /\ op.kind = "switch" => op.at \in {"waiting", "configuring", "swapping"}
    /\ op.kind # "stop" => op.launch \in Launches
    /\ op.at \notin {"waiting", "preparing"} => op.host # 0
    /\ op.at \in {"configuring", "withdrawing"} => op.ws # 0

Queued(s) ==
    /\ \A i \in 1..Len(s) : Fitting(s[i])
    /\ \A i \in 1..Len(s) : i > 1 => s[i].at = "waiting" /\ s[i].kind \in {"start", "stop"}
    /\ \A i \in 1..Len(s) : i < Len(s) => s[i].kind = "start"

\* What the request that runs believes of its consumer.
Believes(op, t) ==
    /\ op.at = "waiting" /\ op.kind \in {"resume", "switch"} => (t.proc = 0 <=> t.ws = 0)
    /\ op.kind = "start" /\ op.at \in {"booting", "configuring"} => t.att \in {0, op.host}
    /\ op.at \in {"halting", "unbinding"} => t.att = 0

Agree(t, s) ==
    /\ t.att # 0 => t.att = t.proc
    /\ s # <<>> => Believes(s[1], t)

Queues == {s \in Seq(OpType) : Len(s) <= MaxOps /\ Queued(s)}

Typed ==
    /\ tab \in [Tabs -> TabType]
    /\ host \in [Hosts -> HostType]
    /\ ops \in [Tabs -> Queues]
    /\ want \in [Tabs -> Launches \cup {None, Failed}]
    /\ quit \in {"no", "draining", "exiting", "done"}
    /\ faults \in 0..MaxFaults

TInv == Typed /\ \A c \in Tabs : Agree(tab[c], ops[c])

---------------------------------------------------------------------------
(* Queues of requests                                                      *)

LEMMA QueueIs ==
    ASSUME NEW s \in Queues
    PROVE  /\ s \in Seq(OpType) /\ Len(s) \in Nat /\ Len(s) <= MaxOps /\ Queued(s)
           /\ \A i \in 1..Len(s) : s[i] \in OpType /\ Fitting(s[i])
           /\ s # <<>> <=> Len(s) > 0
           /\ s # <<>> => 1 \in 1..Len(s) /\ s[1] \in OpType /\ Fitting(s[1])
  BY DEF Queues, Queued

LEMMA WithoutFirst ==
    ASSUME NEW S, NEW s \in Seq(S), Len(s) > 0
    PROVE  /\ RemoveAt(s, 1) \in Seq(S) /\ Len(RemoveAt(s, 1)) = Len(s) - 1
           /\ \A i \in 1..Len(RemoveAt(s, 1)) : RemoveAt(s, 1)[i] = s[i + 1] /\ i + 1 \in 1..Len(s)
<1>1. s # <<>> /\ Len(s) \in Nat
  OBVIOUS
<1>2. SubSeq(s, 1, 0) = <<>>
  OBVIOUS
<1>3. RemoveAt(s, 1) = SubSeq(s, 1, 0) \o SubSeq(s, 2, Len(s))
  BY <1>1 DEF RemoveAt
<1>4. SubSeq(s, 2, Len(s)) = Tail(s)
  BY <1>1, TailIsSubSeq
<1>5. /\ Tail(s) \in Seq(S) /\ Len(Tail(s)) = Len(s) - 1
      /\ \A i \in 1..Len(Tail(s)) : Tail(s)[i] = s[i + 1]
  BY <1>1, HeadTailProperties
<1>6. RemoveAt(s, 1) = Tail(s)
  BY <1>2, <1>3, <1>4, <1>5
<1>7. \A i \in 1..(Len(s) - 1) : i + 1 \in 1..Len(s)
  BY <1>1
<1>8. \A i \in 1..Len(Tail(s)) : Tail(s)[i] = s[i + 1] /\ i + 1 \in 1..Len(s)
  BY <1>5, <1>7
<1>. QED
  BY <1>5, <1>6, <1>8

\* What a consumer's step does to its queue: the first request goes on or settles.
LEMMA QueueGoes ==
    ASSUME NEW s \in Queues, s # <<>>, NEW op \in OpType, op.kind = s[1].kind, Fitting(op)
    PROVE  [s EXCEPT ![1] = op] \in Queues /\ [s EXCEPT ![1] = op] # <<>> /\ [s EXCEPT ![1] = op][1] = op
<1>. DEFINE r == [s EXCEPT ![1] = op]
<1>1. s \in Seq(OpType) /\ Len(s) \in Nat /\ Len(s) > 0 /\ Len(s) <= MaxOps /\ Queued(s)
  BY QueueIs
<1>2. /\ r \in Seq(OpType) /\ Len(r) = Len(s) /\ r[1] = op
      /\ \A i \in 1..Len(s) : i # 1 => r[i] = s[i]
  BY <1>1
<1>. HIDE DEF r
<1>3. Queued(r)
  BY <1>1, <1>2 DEF Queued
<1>4. r # <<>>
  BY <1>1, <1>2
<1>. QED
  BY <1>1, <1>2, <1>3, <1>4 DEF Queues, r

LEMMA QueueSettles ==
    ASSUME NEW s \in Queues, s # <<>>
    PROVE  /\ RemoveAt(s, 1) \in Queues /\ Len(RemoveAt(s, 1)) = Len(s) - 1
           /\ \A i \in 1..Len(RemoveAt(s, 1)) : RemoveAt(s, 1)[i] = s[i + 1] /\ i + 1 \in 1..Len(s)
           /\ RemoveAt(s, 1) # <<>> => RemoveAt(s, 1)[1].at = "waiting" /\ RemoveAt(s, 1)[1].kind \in {"start", "stop"}
<1>. DEFINE r == RemoveAt(s, 1)
<1>1. s \in Seq(OpType) /\ Len(s) \in Nat /\ Len(s) > 0 /\ Len(s) <= MaxOps /\ Queued(s)
  BY QueueIs
<1>2. /\ r \in Seq(OpType) /\ Len(r) = Len(s) - 1
      /\ \A i \in 1..Len(r) : r[i] = s[i + 1] /\ i + 1 \in 1..Len(s)
  BY <1>1, WithoutFirst
<1>. HIDE DEF r
<1>3. Len(r) \in Nat /\ Len(r) < Len(s)
  BY <1>1, <1>2
<1>4. \A i \in 1..Len(r) : Fitting(r[i]) /\ r[i].at = "waiting" /\ r[i].kind \in {"start", "stop"}
  <2>1. SUFFICES ASSUME NEW i \in 1..Len(r)
                 PROVE  Fitting(r[i]) /\ r[i].at = "waiting" /\ r[i].kind \in {"start", "stop"}
    OBVIOUS
  <2>2. r[i] = s[i + 1] /\ i + 1 \in 1..Len(s) /\ i + 1 > 1
    BY <1>2, <1>3
  <2>. QED
    BY <1>1, <2>2 DEF Queued
<1>5. \A i \in 1..Len(r) : i < Len(r) => r[i].kind = "start"
  <2>1. SUFFICES ASSUME NEW i \in 1..Len(r), i < Len(r) PROVE r[i].kind = "start"
    OBVIOUS
  <2>2. r[i] = s[i + 1] /\ i + 1 \in 1..Len(s) /\ i + 1 < Len(s)
    BY <1>2, <1>3, <2>1
  <2>. QED
    BY <1>1, <2>2 DEF Queued
<1>6. Queued(r)
  BY <1>4, <1>5 DEF Queued
<1>7. (r # <<>> => 1 \in 1..Len(r)) /\ Len(r) <= MaxOps
  BY <1>1, <1>2, <1>3, ProcessAssumption
<1>. QED
  BY <1>1, <1>2, <1>3, <1>4, <1>6, <1>7 DEF Queues, r

LEMMA QueueAsked ==
    ASSUME NEW s \in Queues, Len(s) < MaxOps, NEW op \in OpType, Fitting(op), op.at = "waiting",
           \A i \in 1..Len(s) : s[i].kind = "start",
           op.kind \in {"start", "stop"} \/ s = <<>>
    PROVE  /\ Append(s, op) \in Queues /\ Append(s, op) # <<>> /\ Len(Append(s, op)) = Len(s) + 1
           /\ Append(s, op)[Len(s) + 1] = op /\ \A i \in 1..Len(s) : Append(s, op)[i] = s[i]
<1>. DEFINE r == Append(s, op)
<1>1. s \in Seq(OpType) /\ Len(s) \in Nat /\ Queued(s) /\ MaxOps \in Nat
  BY QueueIs, ProcessAssumption
<1>2. /\ r \in Seq(OpType) /\ Len(r) = Len(s) + 1 /\ r[Len(s) + 1] = op
      /\ \A i \in 1..Len(s) : r[i] = s[i]
  BY <1>1
<1>. HIDE DEF r
<1>3. \A i \in 1..Len(r) : i \in 1..Len(s) \/ i = Len(s) + 1
  BY <1>1, <1>2
<1>4. \A i \in 1..Len(r) : Fitting(r[i])
  BY <1>1, <1>2, <1>3 DEF Queued
<1>5. \A i \in 1..Len(r) : i < Len(r) => r[i].kind = "start"
  BY <1>1, <1>2, <1>3
<1>6. \A i \in 1..Len(r) : i > 1 => r[i].at = "waiting" /\ r[i].kind \in {"start", "stop"}
  <2>1. SUFFICES ASSUME NEW i \in 1..Len(r), i > 1 PROVE r[i].at = "waiting" /\ r[i].kind \in {"start", "stop"}
    OBVIOUS
  <2>2. CASE i \in 1..Len(s)
    BY <1>1, <1>2, <2>1, <2>2 DEF Queued
  <2>3. CASE i = Len(s) + 1
    <3>1. s # <<>>
      BY <1>1, <2>1, <2>3
    <3>. QED
      BY <1>2, <2>3, <3>1
  <2>. QED
    BY <1>3, <2>2, <2>3
<1>7. r # <<>> /\ Len(r) <= MaxOps
  BY <1>1, <1>2
<1>. QED
  BY <1>1, <1>2, <1>4, <1>5, <1>6, <1>7 DEF Queues, Queued, r

\* Losing the epoch changes nothing else of a request.
SameButCurrent(a, b) ==
    /\ a.kind = b.kind /\ a.launch = b.launch /\ a.at = b.at /\ a.host = b.host /\ a.live = b.live
    /\ a.prev = b.prev /\ a.ws = b.ws /\ a.folder = b.folder /\ a.env = b.env

LEMMA QueueSuperseded ==
    ASSUME Typed, NEW c \in Tabs
    PROVE  /\ Superseded(c) \in Queues /\ Len(Superseded(c)) = Len(ops[c])
           /\ \A i \in 1..Len(ops[c]) : SameButCurrent(Superseded(c)[i], ops[c][i]) /\ ~Superseded(c)[i].current
           /\ Superseded(c) # <<>> <=> ops[c] # <<>>
<1>. DEFINE s == ops[c]
            r == Superseded(c)
<1>1. s \in Seq(OpType) /\ Len(s) \in Nat /\ Len(s) <= MaxOps /\ Queued(s) /\ (s # <<>> <=> Len(s) > 0)
      /\ \A i \in 1..Len(s) : s[i] \in OpType
  BY QueueIs DEF Typed
<1>2. r = [i \in 1..Len(s) |-> [s[i] EXCEPT !.current = FALSE]]
  BY DEF Superseded
<1>. HIDE DEF s, r
<1>3. \A i \in 1..Len(s) : [s[i] EXCEPT !.current = FALSE] \in OpType
  BY <1>1 DEF OpType
<1>4. r \in Seq(OpType) /\ Len(r) = Len(s)
  BY <1>1, <1>2, <1>3
<1>5. \A i \in 1..Len(s) : SameButCurrent(r[i], s[i]) /\ ~r[i].current
  <2>1. SUFFICES ASSUME NEW i \in 1..Len(s) PROVE SameButCurrent(r[i], s[i]) /\ ~r[i].current
    OBVIOUS
  <2>2. r[i] = [s[i] EXCEPT !.current = FALSE]
    BY <1>2
  <2>. QED
    BY <1>1, <2>2 DEF OpType, SameButCurrent
<1>6. Queued(r)
  BY <1>1, <1>4, <1>5 DEF Queued, Fitting, SameButCurrent
<1>7. r # <<>> <=> Len(r) > 0
  BY <1>4
<1>. QED
  BY <1>1, <1>4, <1>5, <1>6, <1>7 DEF Queues, s, r

---------------------------------------------------------------------------
(* Records and hosts                                                       *)

LEMMA OpFields ==
    ASSUME NEW op \in OpType
    PROVE  /\ op.kind \in Kinds /\ op.launch \in Launches \cup {None} /\ op.at \in Places
           /\ op.current \in BOOLEAN /\ op.host \in 0..MaxHosts /\ op.live \in 0..MaxHosts
           /\ op.prev \in Envs \cup {None} /\ op.ws \in 0..MaxWs /\ op.folder \in Folders \cup {None}
           /\ op.env \in Envs \cup {None}
           /\ op.host # 0 => op.host \in Hosts
           /\ op.ws # 0 => op.ws \in 1..MaxWs
  BY ProcessAssumption DEF OpType, Hosts

LEMMA TabFields ==
    ASSUME NEW t \in TabType
    PROVE  /\ t.proc \in 0..MaxHosts /\ t.att \in 0..MaxHosts /\ t.env \in Envs \cup {None}
           /\ t.ws \in 0..MaxWs /\ t.folder \in Folders \cup {None} /\ t.last \in Launches \cup {None}
           /\ t.proc # 0 => t.proc \in Hosts
           /\ t.att # 0 => t.att \in Hosts
  BY ProcessAssumption DEF TabType, Hosts

LEMMA NobodyTyped == NoTab \in TabType /\ NoTab.att = 0 /\ NoTab.proc = 0 /\ NoTab.env = None /\ NoTab.ws = 0
  BY ProcessAssumption DEF NoTab, TabType

LEMMA LaunchFields ==
    ASSUME NEW l \in Launches PROVE l.folder \in Folders /\ l.profile \in Profiles
  BY DEF Launches

AllHosts == [Hosts -> HostType]

\* A host that differs from another in its status alone.
SameButStatus(a, b) == a.key = b.key /\ a.child = b.child /\ a.boot = b.boot /\ a.envs = b.envs

LEMMA HaltedIs ==
    ASSUME NEW hs \in AllHosts, NEW h \in Hosts
    PROVE  /\ Halted(hs, h) \in AllHosts
           /\ \A g \in Hosts : g # h => Halted(hs, h)[g] = hs[g]
           /\ SameButStatus(Halted(hs, h)[h], hs[h])
           /\ Halted(hs, h)[h].st = IF hs[h].child THEN "stopping" ELSE hs[h].st
<1>1. hs[h] \in HostType
  BY DEF AllHosts
<1>2. [hs[h] EXCEPT !.st = "stopping"] \in HostType /\ SameButStatus([hs[h] EXCEPT !.st = "stopping"], hs[h])
      /\ [hs[h] EXCEPT !.st = "stopping"].st = "stopping"
  BY <1>1 DEF HostType, SameButStatus
<1>3. CASE hs[h].child
  BY <1>2, <1>3 DEF Halted, AllHosts
<1>4. CASE ~hs[h].child
  BY <1>4 DEF Halted, SameButStatus
<1>. QED
  BY <1>3, <1>4

LEMMA BootIs ==
    ASSUME NEW hs \in AllHosts, NEW h \in Hosts
    PROVE  /\ Boot(hs, h) \in AllHosts
           /\ \A g \in Hosts : g # h => Boot(hs, h)[g] = hs[g]
           /\ Boot(hs, h)[h].st = "starting" /\ Boot(hs, h)[h].boot
           /\ Boot(hs, h)[h].child = hs[h].child /\ Boot(hs, h)[h].envs = hs[h].envs /\ Boot(hs, h)[h].key = hs[h].key
<1>. DEFINE x == [hs[h] EXCEPT !.st = "starting", !.boot = TRUE]
<1>1. hs[h] \in HostType
  BY DEF AllHosts
<1>2. x \in HostType /\ x.st = "starting" /\ x.boot /\ x.child = hs[h].child /\ x.envs = hs[h].envs /\ x.key = hs[h].key
  BY <1>1 DEF HostType
<1>3. Boot(hs, h) = [hs EXCEPT ![h] = x]
  BY DEF Boot, AllHosts
<1>. HIDE DEF x
<1>. QED
  BY <1>2, <1>3 DEF AllHosts

\* A host that differs from another in its environments alone.
SameButEnvs(a, b) == a.key = b.key /\ a.child = b.child /\ a.boot = b.boot /\ a.st = b.st

LEMMA EnvStoppedIs ==
    ASSUME NEW hs \in AllHosts, NEW h \in Hosts, NEW e
    PROVE  /\ EnvStopped(hs, h, e) \in AllHosts
           /\ \A g \in Hosts : g # h => EnvStopped(hs, h, e)[g] = hs[g]
           /\ SameButEnvs(EnvStopped(hs, h, e)[h], hs[h])
           /\ EnvStopped(hs, h, e)[h].envs = hs[h].envs \ {e}
<1>. DEFINE x == [hs[h] EXCEPT !.envs = @ \ {e}]
<1>1. hs[h] \in HostType
  BY DEF AllHosts
<1>2. x \in HostType /\ SameButEnvs(x, hs[h]) /\ x.envs = hs[h].envs \ {e}
  BY <1>1 DEF HostType, SameButEnvs
<1>3. EnvStopped(hs, h, e) = [hs EXCEPT ![h] = x]
  BY DEF EnvStopped, AllHosts
<1>. HIDE DEF x
<1>. QED
  BY <1>2, <1>3 DEF AllHosts

LEMMA MaterializedIs ==
    ASSUME host \in AllHosts, NEW op \in OpType, op.host # 0, op.ws # 0, op.launch \in Launches
    PROVE  /\ Target(op) \in Envs
           /\ Materialized(op) \in AllHosts
           /\ \A g \in Hosts : g # op.host => Materialized(op)[g] = host[g]
           /\ SameButEnvs(Materialized(op)[op.host], host[op.host])
           /\ Materialized(op)[op.host].envs = host[op.host].envs \cup {Target(op)}
<1>. DEFINE h == op.host
            x == [host[h] EXCEPT !.envs = @ \cup {Target(op)}]
<1>0. Target(op) \in Envs
  BY OpFields, LaunchFields DEF Target, Envs
<1>1. host[h] \in HostType /\ h \in Hosts
  BY OpFields DEF AllHosts
<1>2. x \in HostType /\ SameButEnvs(x, host[h]) /\ x.envs = host[h].envs \cup {Target(op)}
  BY <1>0, <1>1 DEF HostType, SameButEnvs
<1>3. Materialized(op) = [host EXCEPT ![h] = x]
  BY <1>1 DEF Materialized, AllHosts
<1>. HIDE DEF x
<1>. QED
  BY <1>0, <1>1, <1>2, <1>3 DEF AllHosts

LEMMA KeyIs == ASSUME NEW c \in Tabs, NEW l PROVE KeyOf(c, l) \in Tabs \cup {Shared} /\ KeyOf(c, l) # None
  BY ProcessAssumption DEF KeyOf

LEMMA NewHostIs ==
    ASSUME NEW k \in Tabs \cup {Shared, None}, NEW x, x = [NoHost EXCEPT !.key = k]
    PROVE  x \in HostType /\ x.key = k /\ x.st = "off" /\ ~x.child /\ ~x.boot /\ x.envs = {}
<1>1. {} \in SUBSET Envs
  OBVIOUS
<1>2. NoHost \in HostType /\ NoHost.st = "off" /\ ~NoHost.child /\ ~NoHost.boot /\ NoHost.envs = {}
  BY <1>1 DEF NoHost, HostType
<1>. QED
  BY <1>2 DEF HostType

LEMMA AttachedIs ==
    ASSUME Typed, NEW c \in Tabs, NEW key \in Tabs \cup {Shared}, NEW h \in Hosts
    PROVE  /\ AttachedHosts(c, key, h) \in AllHosts
           /\ \A g \in Hosts : g # h /\ (g = tab[c].att => tab[c].att = h \/ ~LastOf(c)) => AttachedHosts(c, key, h)[g] = host[g]
           /\ tab[c].att # h /\ LastOf(c) =>
                tab[c].att \in Hosts /\ AttachedHosts(c, key, h)[tab[c].att] = Halted(host, tab[c].att)[tab[c].att]
           /\ AttachedHosts(c, key, h)[h] =
                IF Consumers(h) = {} THEN [NoHost EXCEPT !.key = key] ELSE host[h]
<1>. DEFINE left == IF tab[c].att # h /\ LastOf(c) THEN Halted(host, tab[c].att) ELSE host
<1>1. host \in AllHosts /\ tab[c] \in TabType
  BY DEF Typed, AllHosts
<1>2. tab[c].att # 0 => tab[c].att \in Hosts
  BY <1>1, TabFields
<1>3. LastOf(c) => tab[c].att # 0
  BY DEF LastOf
<1>4. /\ left \in AllHosts
      /\ \A g \in Hosts : g # h /\ (g = tab[c].att => tab[c].att = h \/ ~LastOf(c)) => left[g] = host[g]
      /\ tab[c].att # h /\ LastOf(c) => left[tab[c].att] = Halted(host, tab[c].att)[tab[c].att]
      /\ left[h] = host[h]
  <2>1. CASE tab[c].att # h /\ LastOf(c)
    <3>1. left = Halted(host, tab[c].att) /\ tab[c].att \in Hosts
      BY <1>2, <1>3, <2>1
    <3>. QED
      BY <1>1, <2>1, <3>1, HaltedIs
  <2>2. CASE ~(tab[c].att # h /\ LastOf(c))
    BY <1>1, <2>2
  <2>. QED
    BY <2>1, <2>2
<1>5. AttachedHosts(c, key, h) = IF Consumers(h) = {} THEN [left EXCEPT ![h] = [NoHost EXCEPT !.key = key]] ELSE left
  BY DEF AttachedHosts
<1>. HIDE DEF left
<1>6. [NoHost EXCEPT !.key = key] \in HostType
  BY NewHostIs
<1>7. \A g \in Hosts : g # h => AttachedHosts(c, key, h)[g] = left[g]
  BY <1>4, <1>5 DEF AllHosts
<1>8. AttachedHosts(c, key, h) \in AllHosts
  BY <1>4, <1>5, <1>6 DEF AllHosts
<1>9. AttachedHosts(c, key, h)[h] = IF Consumers(h) = {} THEN [NoHost EXCEPT !.key = key] ELSE host[h]
  BY <1>4, <1>5 DEF AllHosts
<1>. QED
  BY <1>2, <1>3, <1>4, <1>7, <1>8, <1>9

---------------------------------------------------------------------------
(* Steps of one consumer                                                   *)

LEMMA Now ==
    ASSUME TInv, NEW c \in Tabs
    PROVE  /\ ops[c] \in Queues /\ tab[c] \in TabType /\ Agree(tab[c], ops[c]) /\ host \in AllHosts
           /\ want[c] \in Launches \cup {None, Failed}
           /\ tab[c].att # 0 => tab[c].att = tab[c].proc /\ tab[c].att \in Hosts
           /\ tab[c].proc # 0 => tab[c].proc \in Hosts
<1>1. ops[c] \in Queues /\ tab[c] \in TabType /\ Agree(tab[c], ops[c]) /\ host \in AllHosts
      /\ want[c] \in Launches \cup {None, Failed}
  BY DEF TInv, Typed, AllHosts
<1>. QED
  BY <1>1, TabFields DEF Agree

OthersTyped ==
    /\ host \in AllHosts /\ want \in [Tabs -> Launches \cup {None, Failed}]
    /\ quit \in {"no", "draining", "exiting", "done"} /\ faults \in 0..MaxFaults

LEMMA LocalTyped ==
    ASSUME TInv, NEW c \in Tabs, NEW t \in TabType, NEW s \in Queues, Agree(t, s),
           tab' = [tab EXCEPT ![c] = t], ops' = [ops EXCEPT ![c] = s], OthersTyped'
    PROVE  TInv'
<1>1. tab \in [Tabs -> TabType] /\ ops \in [Tabs -> Queues]
  BY DEF TInv, Typed
<1>2. tab' \in [Tabs -> TabType] /\ ops' \in [Tabs -> Queues]
  BY <1>1
<1>3. \A d \in Tabs : Agree(tab'[d], ops'[d])
  BY <1>1 DEF TInv
<1>. QED
  BY <1>2, <1>3 DEF TInv, Typed, OthersTyped, AllHosts

\* A step of consumer c settles its first request or takes it further.
Proceeds(c) == \/ Settles(c, 1)
               \/ \E op \in OpType : Goes(c, 1, op) /\ op.kind = ops[c][1].kind

LEMMA SettlesTyped ==
    ASSUME TInv, NEW c \in Tabs, ops[c] # <<>>, NEW t \in TabType, t.att # 0 => t.att = t.proc,
           tab' = [tab EXCEPT ![c] = t], Settles(c, 1), OthersTyped'
    PROVE  TInv' /\ Proceeds(c)
<1>. DEFINE s == RemoveAt(ops[c], 1)
<1>1. s \in Queues /\ (s # <<>> => s[1].at = "waiting" /\ s[1].kind \in {"start", "stop"})
  BY Now, QueueSettles
<1>2. ops' = [ops EXCEPT ![c] = s]
  BY DEF Settles
<1>. HIDE DEF s
<1>3. Agree(t, s)
  BY <1>1 DEF Agree, Believes
<1>. QED
  BY <1>1, <1>2, <1>3, LocalTyped DEF Proceeds

LEMMA SettlesSame ==
    ASSUME TInv, NEW c \in Tabs, ops[c] # <<>>, UNCHANGED tab, Settles(c, 1), OthersTyped'
    PROVE  TInv' /\ Proceeds(c)
<1>1. tab' = [tab EXCEPT ![c] = tab[c]]
  BY DEF TInv, Typed
<1>. QED
  BY <1>1, Now, SettlesTyped

LEMMA GoesTyped ==
    ASSUME TInv, NEW c \in Tabs, ops[c] # <<>>, NEW t \in TabType, t.att # 0 => t.att = t.proc,
           NEW op \in OpType, op.kind = ops[c][1].kind, Fitting(op), Believes(op, t),
           tab' = [tab EXCEPT ![c] = t], Goes(c, 1, op), OthersTyped'
    PROVE  TInv' /\ Proceeds(c)
<1>. DEFINE s == [ops[c] EXCEPT ![1] = op]
<1>1. s \in Queues /\ s # <<>> /\ s[1] = op
  BY Now, QueueGoes
<1>2. ops' = [ops EXCEPT ![c] = s]
  BY DEF Goes
<1>. HIDE DEF s
<1>3. Agree(t, s)
  BY <1>1 DEF Agree
<1>. QED
  BY <1>1, <1>2, <1>3, LocalTyped DEF Proceeds

LEMMA GoesSame ==
    ASSUME TInv, NEW c \in Tabs, ops[c] # <<>>,
           NEW op \in OpType, op.kind = ops[c][1].kind, Fitting(op), Believes(op, tab[c]),
           UNCHANGED tab, Goes(c, 1, op), OthersTyped'
    PROVE  TInv' /\ Proceeds(c)
<1>1. tab' = [tab EXCEPT ![c] = tab[c]]
  BY DEF TInv, Typed
<1>. QED
  BY <1>1, Now, GoesTyped

\* The request that makes a step is the first of its queue.
LEMMA FirstAt ==
    ASSUME TInv, NEW c \in Tabs, NEW i, NEW kinds, NEW place, At(c, i, kinds, place),
           \/ place # "waiting" \/ kinds = {"resume"} \/ kinds = {"switch"}
           \/ ~ \E j \in Pending(c, "start") : j < i
    PROVE  /\ i = 1 /\ ops[c] # <<>> /\ ops[c][1] \in OpType /\ Fitting(ops[c][1])
           /\ Believes(ops[c][1], tab[c]) /\ ops[c][1].kind \in kinds /\ ops[c][1].at = place
<1>1. i \in 1..Len(ops[c]) /\ ops[c][i].kind \in kinds /\ ops[c][i].at = place
  BY DEF At
<1>2. ops[c] \in Queues /\ Len(ops[c]) \in Nat /\ Queued(ops[c]) /\ Agree(tab[c], ops[c])
  BY Now, QueueIs
<1>3. i = 1
  <2>1. SUFFICES ASSUME i > 1 PROVE FALSE
    BY <1>1, <1>2
  <2>2. ops[c][i].at = "waiting" /\ ops[c][i].kind \in {"start", "stop"}
    BY <1>1, <1>2, <2>1 DEF Queued
  <2>3. 1 \in 1..Len(ops[c]) /\ 1 < Len(ops[c]) /\ ops[c][1].kind = "start"
    BY <1>1, <1>2, <2>1 DEF Queued
  <2>4. 1 \in Pending(c, "start")
    BY <2>3 DEF Pending
  <2>. QED
    BY <1>1, <2>1, <2>2, <2>4
<1>4. ops[c] # <<>>
  BY <1>1, <1>2
<1>5. ops[c][1] \in OpType /\ Fitting(ops[c][1])
  BY <1>2, <1>4, QueueIs
<1>. QED
  BY <1>1, <1>2, <1>3, <1>4, <1>5 DEF Agree

\* What a step leaves alone keeps its type.
LEMMA OthersStay ==
    ASSUME TInv
    PROVE  /\ OthersTyped
           /\ UNCHANGED <<host, want, quit, faults>> => OthersTyped'
           /\ UNCHANGED <<want, quit, faults>> /\ host' \in AllHosts => OthersTyped'
           /\ UNCHANGED <<want, quit>> /\ host' \in AllHosts /\ faults' \in 0..MaxFaults => OthersTyped'
<1>1. OthersTyped
  BY DEF TInv, Typed, OthersTyped, AllHosts
<1>. QED
  BY <1>1 DEF OthersTyped

LEMMA FaultTyped == ASSUME TInv, Fault PROVE faults' \in 0..MaxFaults
  BY ProcessAssumption DEF Fault, TInv, Typed

LEMMA RejectsTyped ==
    ASSUME TInv, NEW c \in Tabs, Rejects(c, 1)
    PROVE  want' \in [Tabs -> Launches \cup {None, Failed}] /\ Settles(c, 1)
  BY DEF Rejects, TInv, Typed

---------------------------------------------------------------------------
(* Requests                                                                *)

LEMMA StillTyped == ASSUME TInv, UNCHANGED <<tab, ops>>, OthersTyped' PROVE TInv'
  BY DEF TInv, Typed, OthersTyped, AllHosts

LEMMA SupersededBelieves ==
    ASSUME TInv, NEW c \in Tabs, NEW t, Agree(t, ops[c]) PROVE Agree(t, Superseded(c))
<1>1. ops[c] # <<>> => 1 \in 1..Len(ops[c])
  BY Now, QueueIs
<1>2. Superseded(c) # <<>> => ops[c] # <<>> /\ SameButCurrent(Superseded(c)[1], ops[c][1])
  BY <1>1, QueueSuperseded DEF TInv
<1>. QED
  BY <1>2 DEF Agree, Believes, SameButCurrent

LEMMA NewRequest ==
    ASSUME NEW kind \in Kinds, NEW l \in Launches \cup {None}, kind # "stop" => l \in Launches
    PROVE  /\ Op(kind, l) \in OpType /\ Fitting(Op(kind, l)) /\ Op(kind, l).at = "waiting" /\ Op(kind, l).kind = kind
           /\ Op(kind, l).launch = l /\ Op(kind, l).current
  BY ProcessAssumption DEF Op, OpType, Fitting, Places, Kinds

LEMMA AskedTyped ==
    ASSUME TInv, NEW c \in Tabs, NEW kind \in Kinds, NEW l \in Launches \cup {None},
           kind # "stop" => l \in Launches, Asked(c, kind, l),
           \A i \in 1..Len(ops[c]) : ops[c][i].kind = "start", kind \in {"start", "stop"} \/ ops[c] = <<>>,
           kind \in {"resume", "switch"} => (tab[c].proc = 0 <=> tab[c].ws = 0),
           UNCHANGED tab, OthersTyped'
    PROVE  TInv'
<1>. DEFINE q == IF kind \in {"start", "stop"} THEN Superseded(c) ELSE ops[c]
            r == Op(kind, l)
<1>1. ops[c] \in Queues /\ Len(ops[c]) \in Nat /\ tab[c] \in TabType /\ Agree(tab[c], ops[c])
  BY Now, QueueIs
<1>2. /\ q \in Queues /\ Len(q) = Len(ops[c]) /\ (\A i \in 1..Len(q) : q[i].kind = "start")
      /\ Agree(tab[c], q)
  <2>1. CASE kind \in {"start", "stop"}
    <3>1. q = Superseded(c)
      BY <2>1
    <3>2. q \in Queues /\ Len(q) = Len(ops[c]) /\ \A i \in 1..Len(ops[c]) : SameButCurrent(q[i], ops[c][i])
      BY <3>1, QueueSuperseded DEF TInv
    <3>3. Agree(tab[c], q)
      BY <1>1, <3>1, SupersededBelieves
    <3>. QED
      BY <3>2, <3>3 DEF SameButCurrent
  <2>2. CASE kind \notin {"start", "stop"}
    BY <1>1, <2>2
  <2>. QED
    BY <2>1, <2>2
<1>3. r \in OpType /\ Fitting(r) /\ r.at = "waiting" /\ r.kind = kind
  BY NewRequest
<1>4. Len(ops[c]) < MaxOps /\ ops' = [ops EXCEPT ![c] = Append(q, r)]
  BY DEF Asked, TInv, Typed
<1>5. r.kind \in {"start", "stop"} \/ q = <<>>
  BY <1>3
<1>. HIDE DEF q, r
<1>6. /\ Append(q, r) \in Queues /\ Append(q, r) # <<>> /\ Append(q, r)[Len(q) + 1] = r
      /\ \A i \in 1..Len(q) : Append(q, r)[i] = q[i]
  BY <1>2, <1>3, <1>4, <1>5, QueueAsked
<1>7. Agree(tab[c], Append(q, r))
  <2>1. CASE q = <<>>
    <3>1. Append(q, r)[1] = r
      BY <1>6, <2>1
    <3>2. Believes(r, tab[c])
      BY <1>3 DEF Believes
    <3>. QED
      BY <1>1, <3>1, <3>2 DEF Agree
  <2>2. CASE q # <<>>
    <3>1. 1 \in 1..Len(q)
      BY <1>2, <2>2, QueueIs
    <3>. QED
      BY <1>2, <1>6, <2>2, <3>1 DEF Agree
  <2>. QED
    BY <2>1, <2>2
<1>8. tab' = [tab EXCEPT ![c] = tab[c]]
  BY DEF TInv, Typed
<1>. QED
  BY <1>1, <1>4, <1>6, <1>7, <1>8, LocalTyped

LEMMA StartTyped == ASSUME Calm, TInv, NEW c \in Tabs, NEW l \in Launches, Start(c, l) PROVE TInv'
<1>1. UNCHANGED <<tab, host, quit, faults>> /\ want' = [want EXCEPT ![c] = l]
      /\ (UNCHANGED ops \/ Asked(c, "start", l)) /\ Pending(c, "start") = 1..Len(ops[c])
  BY DEF Start
<1>2. OthersTyped'
  BY <1>1, OthersStay DEF OthersTyped
<1>3. \A i \in 1..Len(ops[c]) : ops[c][i].kind = "start"
  BY <1>1 DEF Pending
<1>. QED
  BY <1>1, <1>2, <1>3, StillTyped, AskedTyped DEF Kinds

LEMMA StopTyped == ASSUME Calm, TInv, NEW c \in Tabs, Stop(c) PROVE TInv'
<1>1. UNCHANGED <<tab, host, quit, faults>> /\ want' = [want EXCEPT ![c] = None]
      /\ (UNCHANGED ops \/ (Asked(c, "stop", None) /\ Pending(c, "stop") = {}))
      /\ Pending(c, "start") \cup Pending(c, "stop") = 1..Len(ops[c])
  BY DEF Stop
<1>2. OthersTyped'
  BY <1>1, OthersStay DEF OthersTyped
<1>3. Asked(c, "stop", None) /\ Pending(c, "stop") = {} => \A i \in 1..Len(ops[c]) : ops[c][i].kind = "start"
  BY <1>1 DEF Pending
<1>. QED
  BY <1>1, <1>2, <1>3, StillTyped, AskedTyped DEF Kinds

LEMMA ResumeTyped == ASSUME TInv, NEW c \in Tabs, Resume(c) PROVE TInv'
<1>1. ops[c] = <<>> /\ tab[c].proc # 0 /\ tab[c].last # None /\ tab[c].ws # 0
      /\ Asked(c, "resume", tab[c].last) /\ UNCHANGED <<tab, host, want, quit, faults>>
  BY DEF Resume, Rests
<1>2. tab[c].last \in Launches
  BY <1>1, Now, TabFields
<1>3. OthersTyped'
  BY <1>1, OthersStay
<1>4. \A i \in 1..Len(ops[c]) : ops[c][i].kind = "start"
  BY <1>1
<1>. QED
  BY <1>1, <1>2, <1>3, <1>4, AskedTyped DEF Kinds

LEMMA SwitchTyped == ASSUME TInv, NEW c \in Tabs, NEW p \in Profiles, Switch(c, p) PROVE TInv'
<1>1. ops[c] = <<>> /\ tab[c].proc # 0 /\ tab[c].last # None /\ tab[c].ws # 0
      /\ Asked(c, "switch", [tab[c].last EXCEPT !.profile = p]) /\ UNCHANGED <<tab, host, want, quit, faults>>
  BY DEF Switch, Rests
<1>2. [tab[c].last EXCEPT !.profile = p] \in Launches
  BY <1>1, Now, TabFields DEF Launches
<1>3. OthersTyped'
  BY <1>1, OthersStay
<1>4. \A i \in 1..Len(ops[c]) : ops[c][i].kind = "start"
  BY <1>1
<1>. QED
  BY <1>1, <1>2, <1>3, <1>4, AskedTyped DEF Kinds

---------------------------------------------------------------------------
(* Starting a consumer                                                     *)

LEMMA StartBeginsTyped == ASSUME TInv, NEW c \in Tabs, NEW i, StartBegins(c, i) PROVE TInv' /\ Proceeds(c)
<1>1. At(c, i, {"start"}, "waiting") /\ ~ \E j \in Pending(c, "start") : j < i
  BY DEF StartBegins
<1>2. i = 1 /\ ops[c] # <<>> /\ ops[c][1] \in OpType /\ Fitting(ops[c][1]) /\ ops[c][1].kind = "start"
  BY <1>1, FirstAt
<1>3. PICK op \in OpType : op = ops[c][1]
  BY <1>2
<1>. DEFINE r == [op EXCEPT !.at = "preparing", !.prev = tab[c].env, !.live = tab[c].proc,
                           !.ws = tab[c].ws, !.folder = tab[c].folder]
<1>4. (Settles(c, 1) \/ Goes(c, 1, r)) /\ UNCHANGED <<tab, host, want, quit, faults>>
  BY <1>2, <1>3 DEF StartBegins
<1>5. r \in OpType /\ r.kind = "start" /\ r.at = "preparing" /\ r.launch = op.launch
  BY <1>2, <1>3, Now, TabFields DEF OpType, Places
<1>6. Fitting(r) /\ Believes(r, tab[c])
  BY <1>2, <1>3, <1>5 DEF Fitting, Believes
<1>7. OthersTyped'
  BY <1>4, OthersStay
<1>. HIDE DEF r
<1>. QED
  BY <1>2, <1>3, <1>4, <1>5, <1>6, <1>7, SettlesSame, GoesSame

LEMMA FreshWsIs == ASSUME WsLeft PROVE FreshWs \in 1..MaxWs /\ ~UsedWs(FreshWs)
  BY DEF WsLeft, FreshWs

LEMMA ConfiguringIs ==
    ASSUME WsLeft, NEW op \in OpType, op.launch \in Launches
    PROVE  /\ ConfiguringIn(op) \in OpType /\ ConfiguringIn(op).ws # 0 /\ ConfiguringIn(op).at = "configuring"
           /\ ConfiguringIn(op).ws = IF op.ws # 0 /\ op.folder = op.launch.folder THEN op.ws ELSE FreshWs
           /\ ConfiguringIn(op).kind = op.kind /\ ConfiguringIn(op).launch = op.launch
           /\ ConfiguringIn(op).current = op.current /\ ConfiguringIn(op).host = op.host
           /\ ConfiguringIn(op).live = op.live /\ ConfiguringIn(op).prev = op.prev /\ ConfiguringIn(op).env = op.env
<1>. DEFINE w == IF op.ws # 0 /\ op.folder = op.launch.folder THEN op.ws ELSE FreshWs
<1>1. w \in 0..MaxWs /\ w # 0
  BY FreshWsIs, OpFields, ProcessAssumption
<1>2. ConfiguringIn(op) = [op EXCEPT !.at = "configuring", !.ws = w]
  BY DEF ConfiguringIn
<1>3. "configuring" \in Places
  BY DEF Places
<1>. HIDE DEF w
<1>4. [op EXCEPT !.at = "configuring", !.ws = w] \in OpType
  BY <1>1, <1>3 DEF OpType
<1>. QED
  BY <1>1, <1>2, <1>4 DEF OpType, w

\* Where a start attaches, the host is the one its tab gets.
LEMMA AttachesIs ==
    ASSUME TInv, NEW c \in Tabs, NEW key, NEW h \in Hosts, Attaches(c, key, h)
    PROVE  \/ h = tab[c].att
           \/ Consumers(h) # {}
           \/ Fresh(h)
  BY DEF Attaches, Compatible

LEMMA StartPreparedTyped == ASSUME TInv, NEW c \in Tabs, NEW i, StartPrepared(c, i) PROVE TInv' /\ Proceeds(c)
<1>1. At(c, i, {"start"}, "preparing") /\ WsLeft /\ UNCHANGED <<want, quit, faults>>
  BY DEF StartPrepared
<1>2. /\ i = 1 /\ ops[c] # <<>> /\ ops[c][1] \in OpType /\ Fitting(ops[c][1]) /\ ops[c][1].kind = "start"
      /\ ops[c][1].at = "preparing"
  BY <1>1, FirstAt
<1>3. PICK op \in OpType : op = ops[c][1]
  BY <1>2
<1>4. CASE ~op.current
  <2>1. Settles(c, 1) /\ UNCHANGED <<tab, host>>
    BY <1>2, <1>3, <1>4 DEF StartPrepared
  <2>. QED
    BY <1>1, <1>2, <2>1, OthersStay, SettlesSame
<1>5. CASE op.current
  <2>. DEFINE key == KeyOf(c, op.launch)
              hs(h) == AttachedHosts(c, key, h)
              a(h) == [op EXCEPT !.host = h]
              b(h) == [op EXCEPT !.host = h, !.at = "booting"]
  <2>1. PICK h \in Hosts : /\ Attaches(c, key, h)
                           /\ tab' = [tab EXCEPT ![c].proc = h, ![c].att = h]
                           /\ \/ host' = hs(h) /\ Goes(c, 1, ConfiguringIn(a(h)))
                              \/ host' = Boot(hs(h), h) /\ Goes(c, 1, b(h))
    BY <1>2, <1>3, <1>5 DEF StartPrepared
  <2>2. hs(h) \in AllHosts
    BY KeyIs, AttachedIs DEF TInv
  <2>3. host' \in AllHosts
    BY <2>1, <2>2, BootIs
  <2>4. PICK t \in TabType : t = [tab[c] EXCEPT !.proc = h, !.att = h]
    <3>1. h \in 0..MaxHosts
      BY DEF Hosts
    <3>. QED
      BY <3>1, Now DEF TabType
  <2>5. tab' = [tab EXCEPT ![c] = t] /\ t.att = t.proc /\ t.att = h
    BY <2>1, <2>4, Now DEF TInv, Typed, TabType
  <2>6. h \in 0..MaxHosts /\ h # 0 /\ "booting" \in Places
    BY DEF Hosts, Places
  <2>7. op.kind = "start" /\ op.launch \in Launches
    BY <1>2, <1>3 DEF Fitting
  <2>8. a(h) \in OpType /\ a(h).host = h /\ a(h).kind = "start" /\ a(h).launch = op.launch
    BY <2>6, <2>7 DEF OpType
  <2>9. b(h) \in OpType /\ b(h).host = h /\ b(h).kind = "start" /\ b(h).launch = op.launch /\ b(h).at = "booting"
    BY <2>6, <2>7 DEF OpType
  <2>10. PICK r \in OpType : Goes(c, 1, r) /\ r.kind = "start" /\ r.launch = op.launch /\ r.host = h
                             /\ (r.at = "booting" \/ (r.at = "configuring" /\ r.ws # 0))
    <3>. HIDE DEF a, b, hs
    <3>1. CASE Goes(c, 1, ConfiguringIn(a(h)))
      <4>1. PICK x \in OpType : x = a(h)
        BY <2>8
      <4>2. x.launch \in Launches /\ x.host = h /\ x.kind = "start" /\ x.launch = op.launch
        BY <2>7, <2>8, <4>1
      <4>3. /\ ConfiguringIn(x) \in OpType /\ ConfiguringIn(x).ws # 0 /\ ConfiguringIn(x).at = "configuring"
            /\ ConfiguringIn(x).kind = x.kind /\ ConfiguringIn(x).launch = x.launch /\ ConfiguringIn(x).host = x.host
        BY <1>1, <4>2, ConfiguringIs
      <4>4. Goes(c, 1, ConfiguringIn(x))
        BY <3>1, <4>1
      <4>. QED
        BY <4>2, <4>3, <4>4
    <3>2. CASE Goes(c, 1, b(h))
      BY <2>9, <3>2
    <3>. QED
      BY <2>1, <3>1, <3>2
  <2>11. Fitting(r) /\ Believes(r, t)
    BY <2>5, <2>6, <2>7, <2>10 DEF Fitting, Believes
  <2>12. OthersTyped'
    BY <1>1, <2>3, OthersStay
  <2>. QED
    BY <1>2, <1>3, <2>5, <2>7, <2>10, <2>11, <2>12, GoesTyped
<1>. QED
  BY <1>4, <1>5

\* retireStaleStart, as its callers use it.
LEMMA RetireTyped ==
    ASSUME TInv, NEW c \in Tabs, ops[c] # <<>>, ops[c][1].kind = "start", ops[c][1].host # 0,
           NEW hs \in AllHosts, Retire(c, 1, hs), UNCHANGED <<want, quit, faults>>
    PROVE  TInv' /\ Proceeds(c)
<1>1. ops[c][1] \in OpType /\ Fitting(ops[c][1])
  BY Now, QueueIs
<1>2. PICK op \in OpType : op = ops[c][1]
  BY <1>1
<1>3. CASE op.prev # None \/ tab[c].proc # op.host
  <2>1. Settles(c, 1) /\ host' = hs /\ UNCHANGED tab
    BY <1>2, <1>3 DEF Retire
  <2>. QED
    BY <2>1, OthersStay, SettlesSame
<1>4. CASE ~(op.prev # None \/ tab[c].proc # op.host)
  <2>. DEFINE t == [tab[c] EXCEPT !.proc = 0, !.att = 0]
              r == [op EXCEPT !.at = "retiring"]
  <2>1. /\ tab' = [tab EXCEPT ![c].proc = 0, ![c].att = 0]
        /\ \/ LastOf(c) /\ host' = Halted(hs, tab[c].att) /\ Goes(c, 1, r)
           \/ host' = hs /\ Settles(c, 1)
    BY <1>2, <1>4 DEF Retire
  <2>2. t \in TabType /\ t.att = 0 /\ t.proc = 0
    <3>1. tab[c] \in TabType /\ 0 \in 0..MaxHosts
      BY Now, ProcessAssumption
    <3>. QED
      BY <3>1 DEF TabType
  <2>3. tab' = [tab EXCEPT ![c] = t]
    BY <2>1 DEF TInv, Typed
  <2>4. r \in OpType /\ r.kind = "start" /\ r.at = "retiring" /\ r.launch = op.launch /\ r.host = op.host
    BY <1>2 DEF OpType, Places
  <2>5. Fitting(r) /\ Believes(r, t)
    BY <1>1, <1>2, <2>2, <2>4 DEF Fitting, Believes
  <2>6. host' \in AllHosts
    BY <2>1, Now, HaltedIs DEF LastOf
  <2>7. OthersTyped'
    BY <2>6, OthersStay
  <2>. HIDE DEF t, r
  <2>. QED
    BY <1>2, <2>1, <2>2, <2>3, <2>4, <2>5, <2>7, GoesTyped, SettlesTyped
<1>. QED
  BY <1>3, <1>4

LEMMA StartBootedTyped == ASSUME TInv, NEW c \in Tabs, NEW i, StartBooted(c, i) PROVE TInv' /\ Proceeds(c)
<1>1. At(c, i, {"start"}, "booting") /\ WsLeft /\ UNCHANGED <<want, quit, faults>>
  BY DEF StartBooted
<1>2. /\ i = 1 /\ ops[c] # <<>> /\ ops[c][1] \in OpType /\ Fitting(ops[c][1]) /\ ops[c][1].kind = "start"
      /\ ops[c][1].at = "booting" /\ Believes(ops[c][1], tab[c])
  BY <1>1, FirstAt
<1>3. PICK op \in OpType : op = ops[c][1]
  BY <1>2
<1>4. op.launch \in Launches /\ op.host # 0
  BY <1>2, <1>3 DEF Fitting
<1>5. CASE op.current
  <2>1. Goes(c, 1, ConfiguringIn(op)) /\ UNCHANGED <<tab, host>>
    BY <1>2, <1>3, <1>5 DEF StartBooted
  <2>2. PICK r \in OpType : /\ r = ConfiguringIn(op) /\ r.kind = "start" /\ r.at = "configuring" /\ r.ws # 0
                            /\ r.launch = op.launch /\ r.host = op.host
    BY <1>1, <1>2, <1>3, <1>4, ConfiguringIs
  <2>3. Fitting(r) /\ Believes(r, tab[c])
    BY <1>2, <1>3, <1>4, <2>2 DEF Fitting, Believes
  <2>. QED
    BY <1>1, <1>2, <1>3, <2>1, <2>2, <2>3, OthersStay, GoesSame
<1>6. CASE ~op.current
  <2>1. Retire(c, 1, host)
    BY <1>2, <1>3, <1>6 DEF StartBooted
  <2>. QED
    BY <1>1, <1>2, <1>3, <1>4, <2>1, Now, RetireTyped
<1>. QED
  BY <1>5, <1>6

\* What a bound tab is.
LEMMA BoundIs ==
    ASSUME tab \in [Tabs -> TabType], NEW c \in Tabs, NEW op \in OpType, op.host # 0, op.ws # 0, op.launch \in Launches
    PROVE  \E t \in TabType :
             /\ Bound(c, op) = [tab EXCEPT ![c] = t]
             /\ t.proc = tab[c].proc /\ t.att = tab[c].att /\ t.env = Target(op) /\ t.ws = op.ws
             /\ t.folder = op.launch.folder /\ t.last = tab[c].last
<1>. DEFINE t == [tab[c] EXCEPT !.env = Target(op), !.ws = op.ws, !.folder = op.launch.folder]
<1>1. Target(op) \in Envs /\ op.launch.folder \in Folders /\ op.ws \in 0..MaxWs
  BY OpFields, LaunchFields DEF Target, Envs
<1>2. /\ t \in TabType /\ t.proc = tab[c].proc /\ t.att = tab[c].att /\ t.env = Target(op) /\ t.ws = op.ws
      /\ t.folder = op.launch.folder /\ t.last = tab[c].last
  BY <1>1 DEF TabType
<1>3. Bound(c, op) = [tab EXCEPT ![c] = t]
  BY DEF Bound
<1>. QED
  BY <1>2, <1>3

\* ... and a tab that is bound for good.
Kept(c, op) == [Bound(c, op) EXCEPT ![c].last = op.launch]

LEMMA KeptIs ==
    ASSUME tab \in [Tabs -> TabType], NEW c \in Tabs, NEW op \in OpType, op.host # 0, op.ws # 0, op.launch \in Launches
    PROVE  \E t \in TabType :
             /\ Kept(c, op) = [tab EXCEPT ![c] = t]
             /\ t.proc = tab[c].proc /\ t.att = tab[c].att /\ t.env = Target(op) /\ t.ws = op.ws
             /\ t.folder = op.launch.folder /\ t.last = op.launch
<1>1. PICK u \in TabType :
             /\ Bound(c, op) = [tab EXCEPT ![c] = u]
             /\ u.proc = tab[c].proc /\ u.att = tab[c].att /\ u.env = Target(op) /\ u.ws = op.ws
             /\ u.folder = op.launch.folder /\ u.last = tab[c].last
  BY BoundIs
<1>. DEFINE t == [u EXCEPT !.last = op.launch]
<1>2. t \in TabType /\ t.proc = u.proc /\ t.att = u.att /\ t.env = u.env /\ t.ws = u.ws /\ t.folder = u.folder
      /\ t.last = op.launch
  BY DEF TabType
<1>3. Kept(c, op) = [tab EXCEPT ![c] = t]
  BY <1>1 DEF Kept
<1>. QED
  BY <1>1, <1>2, <1>3

LEMMA StartConfiguredTyped == ASSUME TInv, NEW c \in Tabs, NEW i, StartConfigured(c, i) PROVE TInv' /\ Proceeds(c)
<1>1. At(c, i, {"start"}, "configuring") /\ UNCHANGED <<want, quit, faults>>
  BY DEF StartConfigured
<1>2. /\ i = 1 /\ ops[c] # <<>> /\ ops[c][1] \in OpType /\ Fitting(ops[c][1]) /\ ops[c][1].kind = "start"
      /\ ops[c][1].at = "configuring" /\ Believes(ops[c][1], tab[c])
  BY <1>1, FirstAt
<1>3. PICK op \in OpType : op = ops[c][1]
  BY <1>2
<1>4. op.launch \in Launches /\ op.host # 0 /\ op.ws # 0
  BY <1>2, <1>3 DEF Fitting
<1>5. Materialized(op) \in AllHosts /\ Target(op) \in Envs
  BY <1>4, Now, MaterializedIs
<1>6. tab \in [Tabs -> TabType] /\ tab[c] \in TabType /\ (tab[c].att # 0 => tab[c].att = tab[c].proc)
  BY Now DEF TInv, Typed
<1>7. CASE ~op.current /\ Retire(c, 1, Materialized(op))
  BY <1>1, <1>2, <1>3, <1>4, <1>5, <1>7, RetireTyped
<1>. DEFINE r == [op EXCEPT !.at = "unstaging", !.env = Target(op)]
            q == [op EXCEPT !.at = "swapping"]
<1>8. CASE Goes(c, 1, r) /\ host' = Materialized(op) /\ UNCHANGED tab
  <2>1. r \in OpType /\ r.kind = "start" /\ r.at = "unstaging" /\ r.launch = op.launch /\ r.host = op.host
    BY <1>2, <1>3, <1>5 DEF OpType, Places
  <2>2. Fitting(r) /\ Believes(r, tab[c])
    BY <1>4, <2>1 DEF Fitting, Believes
  <2>. HIDE DEF r
  <2>. QED
    BY <1>1, <1>2, <1>3, <1>5, <1>8, <2>1, <2>2, OthersStay, GoesSame
<1>9. CASE host' = Materialized(op) /\ tab' = Bound(c, op) /\ Goes(c, 1, q)
  <2>1. q \in OpType /\ q.kind = "start" /\ q.at = "swapping" /\ q.launch = op.launch /\ q.host = op.host
    BY <1>2, <1>3 DEF OpType, Places
  <2>2. PICK t \in TabType : Bound(c, op) = [tab EXCEPT ![c] = t] /\ t.proc = tab[c].proc /\ t.att = tab[c].att
    BY <1>4, <1>6, BoundIs
  <2>3. Fitting(q) /\ Believes(q, t)
    BY <1>4, <2>1 DEF Fitting, Believes
  <2>. HIDE DEF q
  <2>. QED
    BY <1>1, <1>2, <1>3, <1>5, <1>6, <1>9, <2>1, <2>2, <2>3, OthersStay, GoesTyped
<1>10. CASE host' = Materialized(op) /\ tab' = Kept(c, op) /\ Settles(c, 1)
  <2>1. PICK t \in TabType : /\ Kept(c, op) = [tab EXCEPT ![c] = t]
                             /\ t.proc = tab[c].proc /\ t.att = tab[c].att
    BY <1>4, <1>6, KeptIs
  <2>. QED
    BY <1>1, <1>2, <1>5, <1>6, <1>10, <2>1, OthersStay, SettlesTyped
<1>. QED
  BY <1>2, <1>3, <1>7, <1>8, <1>9, <1>10 DEF StartConfigured, Kept

LEMMA UnstagedTyped == ASSUME TInv, NEW c \in Tabs, NEW i, Unstaged(c, i) PROVE TInv' /\ Proceeds(c)
<1>1. At(c, i, {"start"}, "unstaging") /\ UNCHANGED <<want, quit, faults>>
  BY DEF Unstaged
<1>2. /\ i = 1 /\ ops[c] # <<>> /\ ops[c][1] \in OpType /\ Fitting(ops[c][1]) /\ ops[c][1].kind = "start"
      /\ ops[c][1].at = "unstaging"
  BY <1>1, FirstAt
<1>3. ops[c][1].host # 0 /\ ops[c][1].host \in Hosts
  BY <1>2, OpFields DEF Fitting
<1>4. Retire(c, 1, EnvStopped(host, ops[c][1].host, ops[c][1].env))
  BY <1>2 DEF Unstaged
<1>5. EnvStopped(host, ops[c][1].host, ops[c][1].env) \in AllHosts
  BY <1>3, Now, EnvStoppedIs
<1>. QED
  BY <1>1, <1>2, <1>3, <1>4, <1>5, RetireTyped

LEMMA SwappedTyped == ASSUME TInv, NEW c \in Tabs, NEW i, Swapped(c, i) PROVE TInv' /\ Proceeds(c)
<1>1. At(c, i, {"start", "switch"}, "swapping") /\ UNCHANGED <<want, quit, faults>>
  BY DEF Swapped
<1>2. /\ i = 1 /\ ops[c] # <<>> /\ ops[c][1] \in OpType /\ Fitting(ops[c][1])
      /\ ops[c][1].kind \in {"start", "switch"} /\ ops[c][1].at = "swapping"
  BY <1>1, FirstAt
<1>3. ops[c][1].host # 0 /\ ops[c][1].host \in Hosts /\ ops[c][1].launch \in Launches
  BY <1>2, OpFields DEF Fitting
<1>4. /\ host' = EnvStopped(host, ops[c][1].host, ops[c][1].prev)
      /\ tab' = [tab EXCEPT ![c].last = ops[c][1].launch] /\ Settles(c, 1)
  BY <1>2 DEF Swapped
<1>5. host' \in AllHosts
  BY <1>3, <1>4, Now, EnvStoppedIs
<1>. DEFINE t == [tab[c] EXCEPT !.last = ops[c][1].launch]
<1>6. t \in TabType /\ t.proc = tab[c].proc /\ t.att = tab[c].att
  BY <1>3, Now DEF TabType
<1>7. tab' = [tab EXCEPT ![c] = t]
  BY <1>4 DEF TInv, Typed
<1>. HIDE DEF t
<1>. QED
  BY <1>1, <1>2, <1>4, <1>5, <1>6, <1>7, Now, OthersStay, SettlesTyped

LEMMA StartFailsTyped == ASSUME TInv, NEW c \in Tabs, NEW i, StartFails(c, i) PROVE TInv' /\ Proceeds(c)
<1>1. At(c, i, {"start"}, "configuring") /\ UNCHANGED quit
  BY DEF StartFails
<1>2. /\ i = 1 /\ ops[c] # <<>> /\ ops[c][1] \in OpType /\ Fitting(ops[c][1]) /\ ops[c][1].kind = "start"
      /\ ops[c][1].at = "configuring"
  BY <1>1, FirstAt
<1>3. PICK op \in OpType : op = ops[c][1]
  BY <1>2
<1>4. op.launch \in Launches /\ op.host # 0 /\ op.host \in Hosts
  BY <1>2, <1>3, OpFields DEF Fitting
<1>5. faults' \in 0..MaxFaults
  <2>1. Fault \/ UNCHANGED faults
    BY <1>2, <1>3 DEF StartFails
  <2>. QED
    BY <2>1, FaultTyped DEF TInv, Typed
<1>6. Rejects(c, 1) => Settles(c, 1) /\ want' \in [Tabs -> Launches \cup {None, Failed}]
  BY RejectsTyped
<1>. DEFINE r == [op EXCEPT !.at = "retiring"]
<1>7. \/ Rejects(c, 1) /\ UNCHANGED <<tab, host>>
      \/ /\ tab' = [tab EXCEPT ![c] = NoTab]
         /\ \/ host' = Halted(host, op.host) /\ Goes(c, 1, r) /\ UNCHANGED want
            \/ Rejects(c, 1) /\ UNCHANGED host
  BY <1>2, <1>3 DEF StartFails
<1>8. r \in OpType /\ r.kind = "start" /\ r.at = "retiring" /\ r.launch = op.launch /\ r.host = op.host
  BY <1>2, <1>3 DEF OpType, Places
<1>9. Fitting(r) /\ Believes(r, NoTab)
  BY <1>4, <1>8, NobodyTyped DEF Fitting, Believes
<1>10. host' \in AllHosts
  BY <1>4, <1>7, Now, HaltedIs
<1>11. OthersTyped'
  BY <1>1, <1>5, <1>6, <1>7, <1>10 DEF OthersTyped, TInv, Typed
<1>. HIDE DEF r
<1>. QED
  BY <1>2, <1>3, <1>6, <1>7, <1>8, <1>9, <1>11, NobodyTyped, GoesTyped, SettlesTyped, SettlesSame

LEMMA RetiredTyped == ASSUME TInv, NEW c \in Tabs, NEW i, Retired(c, i) PROVE TInv' /\ Proceeds(c)
<1>1. At(c, i, {"start"}, "retiring") /\ UNCHANGED <<tab, host, quit, faults>>
  BY DEF Retired
<1>2. i = 1 /\ ops[c] # <<>>
  BY <1>1, FirstAt
<1>3. Rejects(c, 1)
  BY <1>2 DEF Retired
<1>4. Settles(c, 1) /\ OthersTyped'
  BY <1>1, <1>3, RejectsTyped, OthersStay DEF OthersTyped
<1>. QED
  BY <1>1, <1>2, <1>4, SettlesSame

---------------------------------------------------------------------------
(* Stopping, rebuilding and switching a consumer                           *)

LEMMA StopBeginsTyped == ASSUME TInv, NEW c \in Tabs, NEW i, StopBegins(c, i) PROVE TInv' /\ Proceeds(c)
<1>1. /\ At(c, i, {"stop"}, "waiting") /\ UNCHANGED <<want, quit, faults>>
      /\ ~ \E j \in Pending(c, "start") : j < i
  BY DEF StopBegins
<1>2. i = 1 /\ ops[c] # <<>> /\ ops[c][1] \in OpType /\ Fitting(ops[c][1]) /\ ops[c][1].kind = "stop"
  BY <1>1, FirstAt
<1>3. PICK op \in OpType : op = ops[c][1]
  BY <1>2
<1>. DEFINE r == [op EXCEPT !.host = tab[c].proc, !.prev = tab[c].env]
            goes(place) == [r EXCEPT !.at = place]
            t == [tab[c] EXCEPT !.att = 0]
            u == [NoTab EXCEPT !.last = tab[c].last]
<1>4. tab[c] \in TabType /\ host \in AllHosts /\ 0 \in 0..MaxHosts
  BY Now, ProcessAssumption
<1>5. t \in TabType /\ t.att = 0 /\ [tab EXCEPT ![c].att = 0] = [tab EXCEPT ![c] = t]
  BY <1>4 DEF TabType
<1>6. u \in TabType /\ u.att = 0
  BY <1>4, NobodyTyped, TabFields DEF TabType
<1>7. \/ Settles(c, 1) /\ UNCHANGED <<tab, host>>
      \/ /\ tab[c].proc # 0 /\ tab' = [tab EXCEPT ![c].att = 0] /\ host' = Halted(host, r.host)
         /\ Goes(c, 1, goes("halting"))
      \/ tab[c].proc # 0 /\ tab' = [tab EXCEPT ![c].att = 0] /\ Goes(c, 1, goes("unbinding")) /\ UNCHANGED host
      \/ tab' = [tab EXCEPT ![c] = u] /\ Settles(c, 1) /\ UNCHANGED host
  BY <1>2, <1>3 DEF StopBegins
<1>8. r \in OpType /\ r.host = tab[c].proc /\ r.kind = "stop"
  BY <1>2, <1>3, <1>4, TabFields DEF OpType
<1>. HIDE DEF r, t, u
<1>9. \A p \in {"halting", "unbinding"} : tab[c].proc # 0 =>
        goes(p) \in OpType /\ goes(p).kind = "stop" /\ Fitting(goes(p)) /\ Believes(goes(p), t)
  <2>1. SUFFICES ASSUME NEW p \in {"halting", "unbinding"}, tab[c].proc # 0
                 PROVE  goes(p) \in OpType /\ goes(p).kind = "stop" /\ Fitting(goes(p)) /\ Believes(goes(p), t)
    OBVIOUS
  <2>2. goes(p) \in OpType /\ goes(p).kind = "stop" /\ goes(p).at = p /\ goes(p).host = r.host
    BY <1>8 DEF OpType, Places
  <2>. HIDE DEF goes
  <2>. QED
    BY <1>5, <1>8, <2>1, <2>2 DEF Fitting, Believes
<1>10. host' \in AllHosts
  <2>1. tab[c].proc # 0 => r.host \in Hosts
    BY <1>4, <1>8, TabFields
  <2>. QED
    BY <1>4, <1>7, <2>1, HaltedIs
<1>11. OthersTyped'
  BY <1>1, <1>10, OthersStay
<1>. HIDE DEF goes
<1>12. CASE Settles(c, 1) /\ UNCHANGED <<tab, host>>
  BY <1>2, <1>11, <1>12, SettlesSame
<1>13. CASE tab' = [tab EXCEPT ![c] = u] /\ Settles(c, 1)
  BY <1>2, <1>6, <1>11, <1>13, SettlesTyped
<1>14. ASSUME NEW p \in {"halting", "unbinding"}, tab[c].proc # 0, tab' = [tab EXCEPT ![c].att = 0],
              Goes(c, 1, goes(p))
       PROVE  TInv' /\ Proceeds(c)
  <2>1. goes(p) \in OpType /\ goes(p).kind = ops[c][1].kind /\ Fitting(goes(p)) /\ Believes(goes(p), t)
    BY <1>2, <1>9, <1>14
  <2>. QED
    BY <1>2, <1>5, <1>11, <1>14, <2>1, GoesTyped
<1>. QED
  BY <1>7, <1>12, <1>13, <1>14

LEMMA StopEndsTyped == ASSUME TInv, NEW c \in Tabs, NEW i, StopEnds(c, i) PROVE TInv' /\ Proceeds(c)
<1>1. /\ At(c, i, {"stop"}, "halting") \/ At(c, i, {"stop"}, "unbinding")
      /\ UNCHANGED <<want, quit, faults>>
  BY DEF StopEnds
<1>2. i = 1 /\ ops[c] # <<>> /\ ops[c][1] \in OpType /\ Fitting(ops[c][1]) /\ Believes(ops[c][1], tab[c])
      /\ ops[c][1].at \in {"halting", "unbinding"}
  BY <1>1, FirstAt
<1>3. ops[c][1].host \in Hosts /\ tab[c].att = 0
  BY <1>2, OpFields DEF Fitting, Believes
<1>4. /\ UNCHANGED host \/ host' = EnvStopped(host, ops[c][1].host, ops[c][1].prev)
      /\ tab' = [tab EXCEPT ![c].proc = 0, ![c].env = None, ![c].ws = 0, ![c].folder = None]
      /\ Settles(c, 1)
  BY <1>2 DEF StopEnds
<1>5. host' \in AllHosts
  BY <1>3, <1>4, Now, EnvStoppedIs
<1>. DEFINE t == [tab[c] EXCEPT !.proc = 0, !.env = None, !.ws = 0, !.folder = None]
<1>6. tab[c] \in TabType /\ 0 \in 0..MaxHosts /\ 0 \in 0..MaxWs
  BY Now, ProcessAssumption
<1>7. t \in TabType /\ t.att = 0
  BY <1>3, <1>6 DEF TabType
<1>8. tab' = [tab EXCEPT ![c] = t]
  BY <1>4 DEF TInv, Typed
<1>. HIDE DEF t
<1>. QED
  BY <1>1, <1>2, <1>4, <1>5, <1>7, <1>8, OthersStay, SettlesTyped

LEMMA ResumePreparedTyped == ASSUME TInv, NEW c \in Tabs, NEW i, ResumePrepared(c, i) PROVE TInv' /\ Proceeds(c)
<1>1. At(c, i, {"resume"}, "waiting") /\ UNCHANGED <<want, quit, faults>>
  BY DEF ResumePrepared
<1>2. /\ i = 1 /\ ops[c] # <<>> /\ ops[c][1] \in OpType /\ Fitting(ops[c][1]) /\ Believes(ops[c][1], tab[c])
      /\ ops[c][1].kind = "resume" /\ ops[c][1].at = "waiting"
  BY <1>1, FirstAt
<1>3. PICK op \in OpType : op = ops[c][1]
  BY <1>2
<1>4. tab[c] \in TabType /\ host \in AllHosts /\ op.launch \in Launches /\ (tab[c].proc = 0 <=> tab[c].ws = 0)
  BY <1>2, <1>3, Now DEF Fitting, Believes
<1>. DEFINE r == [op EXCEPT !.host = tab[c].proc, !.prev = tab[c].env, !.ws = tab[c].ws]
            goes(place) == [r EXCEPT !.at = place]
            key == KeyOf(c, r.launch)
            t == [tab[c] EXCEPT !.env = None]
<1>5. /\ r \in OpType /\ r.host = tab[c].proc /\ r.ws = tab[c].ws /\ r.kind = "resume" /\ r.launch = op.launch
      /\ r.prev = tab[c].env
  BY <1>2, <1>3, <1>4, TabFields DEF OpType
<1>6. CASE /\ tab[c].proc # 0 /\ tab' = [tab EXCEPT ![c].env = None]
           /\ Goes(c, 1, goes(IF r.prev # None THEN "withdrawing" ELSE "configuring"))
           /\ UNCHANGED host
  <2>1. t \in TabType /\ t.proc = tab[c].proc /\ t.att = tab[c].att /\ tab' = [tab EXCEPT ![c] = t]
    BY <1>4, <1>6 DEF TabType, TInv, Typed
  <2>. HIDE DEF r, t
  <2>2. PICK p \in {"withdrawing", "configuring"} : Goes(c, 1, goes(p))
    BY <1>6
  <2>3. goes(p) \in OpType /\ goes(p).kind = "resume" /\ goes(p).at = p /\ goes(p).host = r.host
        /\ goes(p).ws = r.ws /\ goes(p).launch = r.launch
    BY <1>5 DEF OpType, Places
  <2>. HIDE DEF goes
  <2>4. Fitting(goes(p)) /\ Believes(goes(p), t)
    BY <1>4, <1>5, <1>6, <2>3 DEF Fitting, Believes
  <2>. QED
    BY <1>1, <1>2, <1>6, <2>1, <2>2, <2>3, <2>4, Now, OthersStay, GoesTyped
<1>7. ASSUME NEW h \in Hosts,
             tab' = [tab EXCEPT ![c].proc = h, ![c].att = h],
             host' = IF Consumers(h) = {} THEN Boot(AttachedHosts(c, key, h), h) ELSE host,
             Settles(c, 1)
      PROVE  TInv' /\ Proceeds(c)
  <2>. DEFINE v == [tab[c] EXCEPT !.proc = h, !.att = h]
  <2>1. h \in 0..MaxHosts
    BY DEF Hosts
  <2>2. v \in TabType /\ v.att = v.proc /\ tab' = [tab EXCEPT ![c] = v]
    BY <1>4, <1>7, <2>1 DEF TabType, TInv, Typed
  <2>. HIDE DEF r, v
  <2>3. AttachedHosts(c, key, h) \in AllHosts
    BY KeyIs, AttachedIs DEF TInv
  <2>. HIDE DEF key
  <2>4. host' \in AllHosts
    BY <1>4, <1>7, <2>3, BootIs
  <2>. QED
    BY <1>1, <1>2, <1>7, <2>2, <2>4, OthersStay, SettlesTyped
<1>. QED
  BY <1>2, <1>3, <1>5, <1>6, <1>7 DEF ResumePrepared

LEMMA WithdrawnTyped == ASSUME TInv, NEW c \in Tabs, NEW i, Withdrawn(c, i) PROVE TInv' /\ Proceeds(c)
<1>1. At(c, i, {"resume"}, "withdrawing") /\ UNCHANGED <<tab, want, quit, faults>>
  BY DEF Withdrawn
<1>2. /\ i = 1 /\ ops[c] # <<>> /\ ops[c][1] \in OpType /\ Fitting(ops[c][1]) /\ Believes(ops[c][1], tab[c])
      /\ ops[c][1].kind = "resume" /\ ops[c][1].at = "withdrawing"
  BY <1>1, FirstAt
<1>3. PICK op \in OpType : op = ops[c][1]
  BY <1>2
<1>4. op.host # 0 /\ op.host \in Hosts /\ op.ws # 0 /\ op.launch \in Launches
  BY <1>2, <1>3, OpFields DEF Fitting
<1>. DEFINE r == [op EXCEPT !.at = "configuring"]
<1>5. host' = EnvStopped(host, op.host, op.prev) /\ Goes(c, 1, r)
  BY <1>2, <1>3 DEF Withdrawn
<1>6. r \in OpType /\ r.kind = "resume" /\ r.at = "configuring" /\ r.host = op.host /\ r.ws = op.ws
      /\ r.launch = op.launch
  BY <1>2, <1>3 DEF OpType, Places
<1>. HIDE DEF r
<1>7. Fitting(r) /\ Believes(r, tab[c])
  BY <1>4, <1>6 DEF Fitting, Believes
<1>8. host' \in AllHosts
  BY <1>4, <1>5, Now, EnvStoppedIs
<1>. QED
  BY <1>1, <1>2, <1>5, <1>6, <1>7, <1>8, OthersStay, GoesSame

LEMMA SwitchPreparedTyped == ASSUME TInv, NEW c \in Tabs, NEW i, SwitchPrepared(c, i) PROVE TInv' /\ Proceeds(c)
<1>1. At(c, i, {"switch"}, "waiting") /\ UNCHANGED <<tab, host, want, quit, faults>>
  BY DEF SwitchPrepared
<1>2. /\ i = 1 /\ ops[c] # <<>> /\ ops[c][1] \in OpType /\ Fitting(ops[c][1]) /\ Believes(ops[c][1], tab[c])
      /\ ops[c][1].kind = "switch" /\ ops[c][1].at = "waiting"
  BY <1>1, FirstAt
<1>3. PICK op \in OpType : op = ops[c][1]
  BY <1>2
<1>4. tab[c] \in TabType /\ op.launch \in Launches /\ (tab[c].proc = 0 <=> tab[c].ws = 0)
  BY <1>2, <1>3, Now DEF Fitting, Believes
<1>. DEFINE r == [op EXCEPT !.at = "configuring", !.host = tab[c].proc, !.prev = tab[c].env, !.ws = tab[c].ws]
<1>5. Settles(c, 1) \/ (tab[c].ws # 0 /\ Goes(c, 1, r))
  BY <1>2, <1>3 DEF SwitchPrepared
<1>6. r \in OpType /\ r.kind = "switch" /\ r.at = "configuring" /\ r.host = tab[c].proc /\ r.ws = tab[c].ws
      /\ r.launch = op.launch
  BY <1>2, <1>3, <1>4, TabFields DEF OpType, Places
<1>. HIDE DEF r
<1>7. tab[c].ws # 0 => Fitting(r) /\ Believes(r, tab[c])
  BY <1>4, <1>6 DEF Fitting, Believes
<1>. QED
  BY <1>1, <1>2, <1>5, <1>6, <1>7, OthersStay, GoesSame, SettlesSame

LEMMA ReboundTyped == ASSUME TInv, NEW c \in Tabs, NEW i, Rebound(c, i) PROVE TInv' /\ Proceeds(c)
<1>1. At(c, i, {"resume", "switch"}, "configuring") /\ UNCHANGED <<quit, faults>>
  BY DEF Rebound
<1>2. /\ i = 1 /\ ops[c] # <<>> /\ ops[c][1] \in OpType /\ Fitting(ops[c][1]) /\ Believes(ops[c][1], tab[c])
      /\ ops[c][1].kind \in {"resume", "switch"} /\ ops[c][1].at = "configuring"
  BY <1>1, FirstAt
<1>3. PICK op \in OpType : op = ops[c][1]
  BY <1>2
<1>4. op.host # 0 /\ op.host \in Hosts /\ op.ws # 0 /\ op.launch \in Launches
  BY <1>2, <1>3, OpFields DEF Fitting
<1>. DEFINE q == [op EXCEPT !.at = "swapping"]
<1>5. /\ host' = Materialized(op)
      /\ \/ op.kind = "switch" /\ tab' = Bound(c, op) /\ Goes(c, 1, q)
         \/ tab' = Kept(c, op) /\ Settles(c, 1)
      /\ want' = IF want[c] \in Launches THEN [want EXCEPT ![c] = op.launch] ELSE want
  BY <1>2, <1>3 DEF Rebound, Kept
<1>6. host' \in AllHosts
  BY <1>4, <1>5, Now, MaterializedIs
<1>7. want' \in [Tabs -> Launches \cup {None, Failed}]
  BY <1>4, <1>5 DEF TInv, Typed
<1>8. OthersTyped'
  BY <1>1, <1>6, <1>7, OthersStay DEF OthersTyped
<1>9. tab \in [Tabs -> TabType] /\ (tab[c].att # 0 => tab[c].att = tab[c].proc)
  BY Now DEF TInv, Typed
<1>10. CASE op.kind = "switch" /\ tab' = Bound(c, op) /\ Goes(c, 1, q)
  <2>1. q \in OpType /\ q.kind = "switch" /\ q.at = "swapping" /\ q.launch = op.launch /\ q.host = op.host
    BY <1>3, <1>10 DEF OpType, Places
  <2>2. PICK t \in TabType : Bound(c, op) = [tab EXCEPT ![c] = t] /\ t.proc = tab[c].proc /\ t.att = tab[c].att
    BY <1>4, <1>9, BoundIs
  <2>3. Fitting(q) /\ Believes(q, t)
    BY <1>4, <2>1 DEF Fitting, Believes
  <2>. HIDE DEF q
  <2>. QED
    BY <1>2, <1>3, <1>8, <1>9, <1>10, <2>1, <2>2, <2>3, GoesTyped
<1>11. CASE tab' = Kept(c, op) /\ Settles(c, 1)
  <2>1. PICK t \in TabType : Kept(c, op) = [tab EXCEPT ![c] = t] /\ t.proc = tab[c].proc /\ t.att = tab[c].att
    BY <1>4, <1>9, KeptIs
  <2>. QED
    BY <1>2, <1>8, <1>9, <1>11, <2>1, SettlesTyped
<1>. QED
  BY <1>5, <1>10, <1>11

LEMMA RebindFailsTyped == ASSUME TInv, NEW c \in Tabs, NEW i, RebindFails(c, i) PROVE TInv' /\ Proceeds(c)
<1>1. At(c, i, {"resume", "switch"}, "configuring") /\ UNCHANGED <<tab, host, quit>>
      /\ want' = [want EXCEPT ![c] = IF @ = None THEN @ ELSE Failed] /\ (Fault \/ UNCHANGED faults)
  BY DEF RebindFails
<1>2. i = 1 /\ ops[c] # <<>>
  BY <1>1, FirstAt
<1>3. Settles(c, 1)
  BY <1>2 DEF RebindFails
<1>4. faults' \in 0..MaxFaults /\ want' \in [Tabs -> Launches \cup {None, Failed}]
  BY <1>1, FaultTyped DEF TInv, Typed
<1>5. OthersTyped'
  BY <1>1, <1>4, OthersStay DEF OthersTyped
<1>. QED
  BY <1>1, <1>2, <1>3, <1>5, SettlesSame

---------------------------------------------------------------------------
(* Hosts and cleanup                                                       *)

LEMMA HostStepTyped ==
    ASSUME TInv, NEW h \in Hosts, HostStep(h) \/ SpawnFails(h) \/ NeverReady(h) \/ HostDies(h)
    PROVE  TInv'
<1>1. UNCHANGED <<tab, ops, want, quit>> /\ (UNCHANGED faults \/ Fault)
  BY DEF HostStep, Spawned, Ready, Killed, SpawnFails, NeverReady, HostDies
<1>2. host \in [Hosts -> HostType] /\ host[h] \in HostType
  BY DEF TInv, Typed
<1>3. host' \in AllHosts
  <2>1. \A x \in HostType : [host EXCEPT ![h] = x] \in AllHosts
    BY <1>2 DEF AllHosts
  <2>. DEFINE a == [host[h] EXCEPT !.boot = FALSE, !.child = TRUE, !.st = "starting"]
              b == [host[h] EXCEPT !.st = "running"]
              d == [host[h] EXCEPT !.child = FALSE, !.st = "exited", !.envs = {}]
              e == [host[h] EXCEPT !.boot = FALSE, !.st = "error"]
              f == [host[h] EXCEPT !.st = "error"]
              g == [host[h] EXCEPT !.child = FALSE, !.st = "error", !.envs = {}]
  <2>2. a \in HostType /\ b \in HostType /\ e \in HostType /\ f \in HostType
    BY <1>2 DEF HostType
  <2>3. d \in HostType /\ g \in HostType
    <3>1. {} \in SUBSET Envs
      OBVIOUS
    <3>. QED
      BY <1>2, <3>1 DEF HostType
  <2>4. \E x \in {a, b, d, e, f, g} : host' = [host EXCEPT ![h] = x]
    <3>1. Spawned(h) => host' = [host EXCEPT ![h] = a]
      BY <1>2 DEF Spawned
    <3>2. Ready(h) => host' = [host EXCEPT ![h] = b]
      BY <1>2 DEF Ready
    <3>3. Killed(h) => host' = [host EXCEPT ![h] = d]
      BY <1>2 DEF Killed
    <3>4. SpawnFails(h) => host' = [host EXCEPT ![h] = e]
      BY <1>2 DEF SpawnFails
    <3>5. NeverReady(h) => host' = [host EXCEPT ![h] = f]
      BY <1>2 DEF NeverReady
    <3>6. HostDies(h) => host' = [host EXCEPT ![h] = g]
      BY <1>2 DEF HostDies
    <3>. HIDE DEF a, b, d, e, f, g
    <3>. QED
      BY <3>1, <3>2, <3>3, <3>4, <3>5, <3>6 DEF HostStep
  <2>. HIDE DEF a, b, d, e, f, g
  <2>. QED
    BY <2>1, <2>2, <2>3, <2>4
<1>4. faults' \in 0..MaxFaults
  BY <1>1, FaultTyped DEF TInv, Typed
<1>. QED
  BY <1>1, <1>3, <1>4, OthersStay, StillTyped

LEMMA NobodyAgrees == ASSUME NEW t, NEW s, Agree(t, s) PROVE Agree(NoTab, s)
  BY NobodyTyped DEF Agree, Believes

LEMMA EvictTyped == ASSUME TInv, NEW h \in Hosts, Evict(h) PROVE TInv'
<1>1. /\ Fault /\ host' = Halted(host, h) /\ UNCHANGED quit
      /\ tab' = [c \in Tabs |-> IF tab[c].att = h THEN NoTab ELSE tab[c]]
      /\ ops' = [c \in Tabs |-> IF tab[c].att = h THEN Superseded(c) ELSE ops[c]]
      /\ want' = [c \in Tabs |-> IF tab[c].att = h /\ want[c] # None THEN Failed ELSE want[c]]
  BY DEF Evict
<1>2. \A c \in Tabs : /\ tab[c] \in TabType /\ ops[c] \in Queues /\ Agree(tab[c], ops[c])
                      /\ want[c] \in Launches \cup {None, Failed} /\ Superseded(c) \in Queues
  BY Now, QueueSuperseded DEF TInv
<1>3. \A c \in Tabs : Agree(NoTab, Superseded(c)) /\ Agree(tab[c], ops[c])
  BY <1>2, NobodyAgrees, SupersededBelieves
<1>4. tab' \in [Tabs -> TabType] /\ ops' \in [Tabs -> Queues] /\ want' \in [Tabs -> Launches \cup {None, Failed}]
  BY <1>1, <1>2, NobodyTyped
<1>5. \A c \in Tabs : Agree(tab'[c], ops'[c])
  BY <1>1, <1>3
<1>6. host' \in AllHosts /\ faults' \in 0..MaxFaults
  BY <1>1, HaltedIs, FaultTyped DEF TInv, Typed, AllHosts
<1>. QED
  BY <1>1, <1>4, <1>5, <1>6 DEF TInv, Typed, AllHosts

LEMMA CleanupTyped == ASSUME TInv, Cleanup PROVE TInv'
<1>1. /\ quit' = "draining" /\ UNCHANGED <<tab, host, want, faults>>
      /\ ops' = [c \in Tabs |-> IF Pending(c, "start") # {} THEN Superseded(c) ELSE ops[c]]
  BY DEF Cleanup
<1>2. \A c \in Tabs : /\ ops[c] \in Queues /\ Agree(tab[c], ops[c]) /\ Superseded(c) \in Queues
                      /\ Agree(tab[c], Superseded(c))
  BY Now, QueueSuperseded, SupersededBelieves DEF TInv
<1>3. ops' \in [Tabs -> Queues]
  BY <1>1, <1>2
<1>4. \A c \in Tabs : Agree(tab'[c], ops'[c])
  BY <1>1, <1>2
<1>. QED
  BY <1>1, <1>3, <1>4 DEF TInv, Typed

LEMMA DrainedTyped == ASSUME TInv, Drained PROVE TInv'
<1>1. /\ quit' = "exiting" /\ UNCHANGED <<ops, want, faults>>
      /\ host' = [h \in Hosts |-> IF Consumers(h) # {} THEN Halted(host, h)[h] ELSE host[h]]
      /\ tab' = [c \in Tabs |-> [tab[c] EXCEPT !.att = 0]]
  BY DEF Drained
<1>2. host' \in [Hosts -> HostType]
  <2>1. \A h \in Hosts : Halted(host, h)[h] \in HostType /\ host[h] \in HostType
    BY HaltedIs DEF TInv, Typed, AllHosts
  <2>. QED
    BY <1>1, <2>1
<1>3. \A c \in Tabs : /\ [tab[c] EXCEPT !.att = 0] \in TabType
                      /\ Agree([tab[c] EXCEPT !.att = 0], ops[c])
  <2>1. SUFFICES ASSUME NEW c \in Tabs
                 PROVE  [tab[c] EXCEPT !.att = 0] \in TabType /\ Agree([tab[c] EXCEPT !.att = 0], ops[c])
    OBVIOUS
  <2>2. tab[c] \in TabType /\ Agree(tab[c], ops[c]) /\ 0 \in 0..MaxHosts
    BY Now, ProcessAssumption
  <2>. DEFINE t == [tab[c] EXCEPT !.att = 0]
  <2>3. t \in TabType /\ t.att = 0 /\ t.proc = tab[c].proc /\ t.ws = tab[c].ws
    BY <2>2 DEF TabType
  <2>. HIDE DEF t
  <2>4. Agree(t, ops[c])
    BY <2>2, <2>3 DEF Agree, Believes
  <2>. QED
    BY <2>3, <2>4 DEF t
<1>4. tab' \in [Tabs -> TabType] /\ \A c \in Tabs : Agree(tab'[c], ops'[c])
  BY <1>1, <1>3
<1>. QED
  BY <1>1, <1>2, <1>4 DEF TInv, Typed

LEMMA CleanedTyped == ASSUME TInv, Cleaned PROVE TInv'
<1>1. quit' = "done" /\ tab' = [c \in Tabs |-> NoTab] /\ UNCHANGED <<host, ops, want, faults>>
  BY DEF Cleaned
<1>2. \A c \in Tabs : Agree(NoTab, ops[c])
  BY NobodyAgrees DEF TInv
<1>. QED
  BY <1>1, <1>2, NobodyTyped DEF TInv, Typed

LEMMA InitTyped == ASSUME Init PROVE TInv
<1>1. <<>> \in Queues
  BY ProcessAssumption DEF Queues, Queued
<1>2. NoHost \in HostType
  <2>1. {} \in SUBSET Envs
    OBVIOUS
  <2>. QED
    BY <2>1 DEF NoHost, HostType
<1>3. Typed
  BY <1>1, <1>2, NobodyTyped, ProcessAssumption DEF Init, Typed
<1>4. \A c \in Tabs : Agree(tab[c], ops[c])
  BY NobodyTyped DEF Init, Agree
<1>. QED
  BY <1>3, <1>4 DEF TInv

LEMMA OpStepTyped == ASSUME TInv, NEW c \in Tabs, NEW i, OpStep(c, i) PROVE TInv' /\ Proceeds(c)
  BY StartBeginsTyped, StartPreparedTyped, StartBootedTyped, StartConfiguredTyped, UnstagedTyped, SwappedTyped,
     StartFailsTyped, RetiredTyped, StopBeginsTyped, StopEndsTyped, ResumePreparedTyped, WithdrawnTyped,
     SwitchPreparedTyped, ReboundTyped, RebindFailsTyped DEF OpStep

LEMMA StepTyped == ASSUME Calm, TInv, [Next]_vars PROVE TInv'
<1>1. CASE UNCHANGED vars
  BY <1>1 DEF vars, TInv, Typed, Agree
<1>2. CASE Next
  BY <1>2, StartTyped, StopTyped, ResumeTyped, SwitchTyped, OpStepTyped, HostStepTyped, EvictTyped,
     CleanupTyped, DrainedTyped, CleanedTyped DEF Next, CleanupStep
<1>. QED
  BY <1>1, <1>2

LEMMA Types == ASSUME Calm PROVE Spec => []TInv
<1>1. Init => TInv
  BY InitTyped
<1>2. TInv /\ [Next]_vars => TInv'
  BY StepTyped
<1>. QED
  BY <1>1, <1>2, PTL DEF Spec

\* For clients that start again only when what superseded a request has settled,
\* and whatever they ask for and whichever hosts fail: a stop of a consumer is
\* never queued behind another stop (stopPromises joins them), and no operation
\* works in a host or with a workspace it does not have.
THEOREM Typing == ASSUME Calm PROVE Spec => []TypeOK
<1>1. TInv => TypeOK
  <2>1. SUFFICES ASSUME TInv, NEW c \in Tabs
                 PROVE  Len(ops[c]) <= MaxOps /\ Cardinality(Pending(c, "stop")) <= 1 /\ ops[c] \in Seq(OpType)
    BY DEF TypeOK, TInv, Typed
  <2>2. ops[c] \in Seq(OpType) /\ Len(ops[c]) \in Nat /\ Len(ops[c]) <= MaxOps /\ Queued(ops[c])
    BY <2>1, Now, QueueIs
  <2>3. \A i \in Pending(c, "stop") : i = Len(ops[c])
    BY <2>2 DEF Pending, Queued
  <2>4. Pending(c, "stop") = {} \/ Pending(c, "stop") = {Len(ops[c])}
    BY <2>3, Zenon
  <2>5. Cardinality(Pending(c, "stop")) \in {0, 1}
    BY <2>4, FS_EmptySet, FS_Singleton
  <2>. QED
    BY <2>2, <2>5
<1>. QED
  BY <1>1, Types, PTL

---------------------------------------------------------------------------
(* What one consumer's step does to the hosts                              *)

SameLife(a, b) == a.st = b.st /\ a.child = b.child /\ a.boot = b.boot

\* The consumer keeps the host, or leaves it to others, or joins others.
Stays(c, t, g) ==
    /\ SameLife(host'[g], host[g])
    /\ tab[c].att = g => t.att = g \/ ~LastOf(c)
    /\ t.att = g => Consumers(g) # {}

\* The last consumer leaves the host.
Leaves(c, t, g) ==
    /\ tab[c].att = g /\ t.att # g /\ LastOf(c)
    /\ host'[g].child = host[g].child /\ host'[g].boot = host[g].boot
    /\ host'[g].st = IF host[g].child THEN "stopping" ELSE host[g].st

\* A start that awaits the boot of its host.
Awaits(c, h) == /\ ops[c] # <<>> /\ ops[c][1].kind = "start"
                /\ ops[c][1].at = "booting" /\ ops[c][1].host = h

\* The consumer has the host booted; nobody but a rebuild does so without waiting.
Boots(c, t, g) ==
    /\ t.att = g /\ host'[g].boot /\ host'[g].st = "starting"
    /\ ops[c][1].kind # "resume" => Awaits(c, g)'

LEMMA GoesFirst ==
    ASSUME TInv, NEW c \in Tabs, ops[c] # <<>>, NEW op \in OpType, Goes(c, 1, op)
    PROVE  /\ ops'[c] # <<>> /\ ops'[c][1] = op /\ Len(ops'[c]) = Len(ops[c])
           /\ \A i \in 1..Len(ops[c]) : i # 1 => ops'[c][i] = ops[c][i]
           /\ \A d \in Tabs : d # c => ops'[d] = ops[d]
<1>1. ops[c] \in Seq(OpType) /\ Len(ops[c]) \in Nat /\ Len(ops[c]) > 0
  BY Now, QueueIs
<1>2. ops'[c] = [ops[c] EXCEPT ![1] = op] /\ \A d \in Tabs : d # c => ops'[d] = ops[d]
  BY DEF Goes, TInv, Typed
<1>. QED
  BY <1>1, <1>2

LEMMA SettlesFirst ==
    ASSUME TInv, NEW c \in Tabs, ops[c] # <<>>, Settles(c, 1)
    PROVE  /\ Len(ops'[c]) = Len(ops[c]) - 1
           /\ \A i \in 1..Len(ops'[c]) : ops'[c][i] = ops[c][i + 1] /\ i + 1 \in 1..Len(ops[c])
           /\ ops'[c] # <<>> => ops'[c][1].at = "waiting"
           /\ \A d \in Tabs : d # c => ops'[d] = ops[d]
<1>1. ops'[c] = RemoveAt(ops[c], 1) /\ \A d \in Tabs : d # c => ops'[d] = ops[d]
  BY DEF Settles, TInv, Typed
<1>. QED
  BY <1>1, Now, QueueSettles

Moves(c) ==
    \E t \in TabType :
        /\ tab' = [tab EXCEPT ![c] = t]
        /\ \A g \in Hosts : Stays(c, t, g) \/ Leaves(c, t, g) \/ Boots(c, t, g)

LEMMA KeepMoves ==
    ASSUME TInv, NEW c \in Tabs, NEW t \in TabType, t.att = tab[c].att, tab' = [tab EXCEPT ![c] = t],
           \A g \in Hosts : SameLife(host'[g], host[g])
    PROVE  Moves(c)
<1>1. \A g \in Hosts : tab[c].att = g => c \in Consumers(g)
  BY DEF Consumers
<1>2. \A g \in Hosts : Stays(c, t, g)
  BY <1>1 DEF Stays
<1>. QED
  BY <1>2 DEF Moves

LEMMA RestMoves ==
    ASSUME TInv, NEW c \in Tabs, UNCHANGED tab, \A g \in Hosts : SameLife(host'[g], host[g])
    PROVE  Moves(c)
<1>1. tab' = [tab EXCEPT ![c] = tab[c]] /\ tab[c] \in TabType
  BY Now DEF TInv, Typed
<1>. QED
  BY <1>1, KeepMoves

LEMMA LeaveMoves ==
    ASSUME TInv, NEW c \in Tabs, NEW t \in TabType, t.att = 0, tab' = [tab EXCEPT ![c] = t],
           NEW hs \in AllHosts, \A g \in Hosts : SameLife(hs[g], host[g]),
           host' = IF LastOf(c) THEN Halted(hs, tab[c].att) ELSE hs
    PROVE  Moves(c)
<1>1. \A g \in Hosts : g # 0
  BY DEF Hosts
<1>2. CASE ~LastOf(c)
  <2>1. \A g \in Hosts : Stays(c, t, g)
    BY <1>1, <1>2 DEF Stays
  <2>. QED
    BY <2>1 DEF Moves
<1>3. CASE LastOf(c)
  <2>1. tab[c].att \in Hosts
    BY <1>3, Now DEF LastOf
  <2>2. ASSUME NEW g \in Hosts, g # tab[c].att PROVE Stays(c, t, g)
    <3>1. host'[g] = hs[g]
      BY <1>3, <2>1, <2>2, HaltedIs
    <3>. QED
      BY <1>1, <2>2, <3>1 DEF Stays
  <2>3. Leaves(c, t, tab[c].att)
    <3>1. host' = Halted(hs, tab[c].att)
      BY <1>3
    <3>2. /\ SameButStatus(host'[tab[c].att], hs[tab[c].att])
          /\ host'[tab[c].att].st = IF hs[tab[c].att].child THEN "stopping" ELSE hs[tab[c].att].st
      BY <2>1, <3>1, HaltedIs
    <3>3. SameLife(hs[tab[c].att], host[tab[c].att])
      BY <2>1
    <3>. QED
      BY <1>1, <1>3, <2>1, <3>2, <3>3 DEF Leaves, SameButStatus, SameLife
  <2>. QED
    BY <2>2, <2>3 DEF Moves
<1>. QED
  BY <1>2, <1>3

LEMMA JoinMoves ==
    ASSUME TInv, NEW c \in Tabs, NEW h \in Hosts, NEW t \in TabType, t.att = h, tab' = [tab EXCEPT ![c] = t],
           NEW key \in Tabs \cup {Shared},
           \/ host' = AttachedHosts(c, key, h) /\ Consumers(h) # {}
           \/ /\ host' = Boot(AttachedHosts(c, key, h), h)
              /\ ops[c][1].kind # "resume" => Awaits(c, h)'
    PROVE  Moves(c)
<1>. DEFINE hs == AttachedHosts(c, key, h)
<1>1. /\ hs \in AllHosts
      /\ \A g \in Hosts : g # h /\ (g = tab[c].att => tab[c].att = h \/ ~LastOf(c)) => hs[g] = host[g]
      /\ tab[c].att # h /\ LastOf(c) => tab[c].att \in Hosts /\ hs[tab[c].att] = Halted(host, tab[c].att)[tab[c].att]
      /\ hs[h] = IF Consumers(h) = {} THEN [NoHost EXCEPT !.key = key] ELSE host[h]
  BY AttachedIs DEF TInv
<1>2. \/ host' = hs /\ Consumers(h) # {}
      \/ host' = Boot(hs, h) /\ (ops[c][1].kind # "resume" => Awaits(c, h)')
  OBVIOUS
<1>. HIDE DEF hs
<1>3. \A g \in Hosts : g # h => host'[g] = hs[g]
  BY <1>1, <1>2, BootIs
<1>4. Stays(c, t, h) \/ Boots(c, t, h)
  <2>1. CASE host' = hs /\ Consumers(h) # {}
    BY <1>1, <2>1 DEF Stays, SameLife
  <2>2. CASE host' = Boot(hs, h) /\ (ops[c][1].kind # "resume" => Awaits(c, h)')
    BY <1>1, <2>2, BootIs DEF Boots
  <2>. QED
    BY <1>2, <2>1, <2>2
<1>5. ASSUME NEW g \in Hosts, g # h PROVE Stays(c, t, g) \/ Leaves(c, t, g)
  <2>1. CASE g = tab[c].att /\ LastOf(c)
    <3>1. host'[g] = Halted(host, g)[g]
      BY <1>1, <1>3, <1>5, <2>1
    <3>2. SameButStatus(host'[g], host[g]) /\ host'[g].st = IF host[g].child THEN "stopping" ELSE host[g].st
      BY <3>1, Now, HaltedIs
    <3>. QED
      BY <1>5, <2>1, <3>2 DEF Leaves, SameButStatus
  <2>2. CASE ~(g = tab[c].att /\ LastOf(c))
    <3>1. host'[g] = host[g]
      BY <1>1, <1>3, <1>5, <2>2
    <3>. QED
      BY <1>5, <2>2, <3>1 DEF Stays, SameLife
  <2>. QED
    BY <2>1, <2>2
<1>. QED
  BY <1>4, <1>5 DEF Moves

LEMMA SameLives ==
    ASSUME TInv, NEW h \in Hosts
    PROVE  /\ \A g \in Hosts : SameLife(host[g], host[g])
           /\ \A e : \A g \in Hosts : SameLife(EnvStopped(host, h, e)[g], host[g])
           /\ \A e : EnvStopped(host, h, e) \in AllHosts
           /\ \A op \in OpType : op.host = h /\ op.ws # 0 /\ op.launch \in Launches =>
                /\ Materialized(op) \in AllHosts
                /\ \A g \in Hosts : SameLife(Materialized(op)[g], host[g])
<1>1. host \in AllHosts /\ h # 0
  BY DEF TInv, Typed, AllHosts, Hosts
<1>2. \A e : EnvStopped(host, h, e) \in AllHosts /\ \A g \in Hosts : SameLife(EnvStopped(host, h, e)[g], host[g])
  <2>1. SUFFICES ASSUME NEW e, NEW g \in Hosts
                 PROVE  EnvStopped(host, h, e) \in AllHosts /\ SameLife(EnvStopped(host, h, e)[g], host[g])
    BY <1>1, EnvStoppedIs
  <2>2. CASE g = h
    BY <1>1, <2>2, EnvStoppedIs DEF SameLife, SameButEnvs
  <2>3. CASE g # h
    <3>1. EnvStopped(host, h, e)[g] = host[g]
      BY <1>1, <2>3, EnvStoppedIs
    <3>. QED
      BY <1>1, <3>1, EnvStoppedIs DEF SameLife
  <2>. QED
    BY <2>2, <2>3
<1>3. ASSUME NEW op \in OpType, op.host = h, op.ws # 0, op.launch \in Launches
      PROVE  Materialized(op) \in AllHosts /\ \A g \in Hosts : SameLife(Materialized(op)[g], host[g])
  BY <1>1, <1>3, MaterializedIs DEF SameLife, SameButEnvs
<1>. QED
  BY <1>2, <1>3 DEF SameLife

LEMMA RetireMoves ==
    ASSUME TInv, NEW c \in Tabs, NEW hs \in AllHosts, \A g \in Hosts : SameLife(hs[g], host[g]), Retire(c, 1, hs)
    PROVE  Moves(c)
<1>1. CASE host' = hs /\ UNCHANGED tab
  BY <1>1, RestMoves
<1>. DEFINE t == [tab[c] EXCEPT !.proc = 0, !.att = 0]
<1>2. CASE /\ tab' = [tab EXCEPT ![c].proc = 0, ![c].att = 0]
           /\ host' = IF LastOf(c) THEN Halted(hs, tab[c].att) ELSE hs
  <2>1. tab[c] \in TabType /\ 0 \in 0..MaxHosts
    BY Now, ProcessAssumption
  <2>2. t \in TabType /\ t.att = 0 /\ tab' = [tab EXCEPT ![c] = t]
    BY <1>2, <2>1 DEF TabType, TInv, Typed
  <2>. HIDE DEF t
  <2>. QED
    BY <1>2, <2>2, LeaveMoves
<1>. QED
  BY <1>1, <1>2 DEF Retire

LEMMA StartBeginsMoves == ASSUME TInv, NEW c \in Tabs, NEW i, StartBegins(c, i) PROVE Moves(c)
  BY RestMoves DEF StartBegins, SameLife

LEMMA StartPreparedMoves == ASSUME TInv, NEW c \in Tabs, NEW i, StartPrepared(c, i) PROVE Moves(c)
<1>0. At(c, i, {"start"}, "preparing")
  BY DEF StartPrepared
<1>1. i = 1 /\ ops[c] # <<>> /\ ops[c][1] \in OpType /\ ops[c][1].kind = "start"
  BY <1>0, FirstAt
<1>4. PICK op \in OpType : op = ops[c][1]
  BY <1>1
<1>. DEFINE key == KeyOf(c, op.launch)
            hs(h) == AttachedHosts(c, key, h)
            b(h) == [op EXCEPT !.host = h, !.at = "booting"]
<1>2. CASE UNCHANGED <<tab, host>>
  BY <1>2, RestMoves DEF SameLife
<1>3. ASSUME NEW h \in Hosts,
             tab' = [tab EXCEPT ![c].proc = h, ![c].att = h],
             IF hs(h)[h].st \in Live THEN host' = hs(h) ELSE host' = Boot(hs(h), h) /\ Goes(c, 1, b(h))
      PROVE  Moves(c)
  <2>. DEFINE t == [tab[c] EXCEPT !.proc = h, !.att = h]
  <2>1. tab[c] \in TabType /\ h \in 0..MaxHosts /\ key \in Tabs \cup {Shared}
    BY Now, KeyIs DEF Hosts
  <2>2. t \in TabType /\ t.att = h /\ tab' = [tab EXCEPT ![c] = t]
    BY <1>3, <2>1 DEF TabType, TInv, Typed
  <2>3. hs(h)[h] = IF Consumers(h) = {} THEN [NoHost EXCEPT !.key = key] ELSE host[h]
    BY <2>1, AttachedIs DEF TInv
  <2>4. hs(h)[h].st \in Live => Consumers(h) # {}
    BY <2>1, <2>3, NewHostIs DEF Live
  <2>5. Goes(c, 1, b(h)) => Awaits(c, h)'
    <3>1. b(h) \in OpType /\ b(h).host = h /\ b(h).at = "booting" /\ b(h).kind = "start"
      BY <1>1, <1>4, <2>1 DEF OpType, Places
    <3>. HIDE DEF b
    <3>. QED
      BY <1>1, <3>1, GoesFirst DEF Awaits
  <2>. HIDE DEF t, key, b
  <2>. QED
    BY <1>3, <2>1, <2>2, <2>4, <2>5, JoinMoves
<1>. QED
  BY <1>1, <1>2, <1>3, <1>4 DEF StartPrepared

LEMMA StartBootedMoves == ASSUME TInv, NEW c \in Tabs, NEW i, StartBooted(c, i) PROVE Moves(c)
<1>1. i = 1
  BY FirstAt DEF StartBooted
<1>2. UNCHANGED <<tab, host>> \/ Retire(c, 1, host)
  BY <1>1 DEF StartBooted
<1>. QED
  BY <1>2, RestMoves, RetireMoves, Now DEF SameLife

LEMMA StartConfiguredMoves == ASSUME TInv, NEW c \in Tabs, NEW i, StartConfigured(c, i) PROVE Moves(c)
<1>1. At(c, i, {"start"}, "configuring")
  BY DEF StartConfigured
<1>2. i = 1 /\ ops[c][1] \in OpType /\ Fitting(ops[c][1]) /\ ops[c][1].at = "configuring" /\ ops[c][1].kind = "start"
  BY <1>1, FirstAt
<1>3. PICK op \in OpType : op = ops[c][1]
  BY <1>2
<1>4. op.launch \in Launches /\ op.host # 0 /\ op.ws # 0 /\ op.host \in Hosts
  BY <1>2, <1>3, OpFields DEF Fitting
<1>5. Materialized(op) \in AllHosts /\ \A g \in Hosts : SameLife(Materialized(op)[g], host[g])
  BY <1>4, SameLives
<1>6. tab \in [Tabs -> TabType]
  BY DEF TInv, Typed
<1>7. \/ Retire(c, 1, Materialized(op))
      \/ host' = Materialized(op) /\ (UNCHANGED tab \/ tab' = Bound(c, op) \/ tab' = Kept(c, op))
  BY <1>2, <1>3 DEF StartConfigured, Kept
<1>. QED
  BY <1>4, <1>5, <1>6, <1>7, RetireMoves, RestMoves, KeepMoves, BoundIs, KeptIs

LEMMA UnstagedMoves == ASSUME TInv, NEW c \in Tabs, NEW i, Unstaged(c, i) PROVE Moves(c)
<1>1. At(c, i, {"start"}, "unstaging")
  BY DEF Unstaged
<1>2. i = 1 /\ ops[c][1] \in OpType /\ Fitting(ops[c][1]) /\ ops[c][1].at = "unstaging"
  BY <1>1, FirstAt
<1>3. ops[c][1].host \in Hosts
  BY <1>2, OpFields DEF Fitting
<1>. QED
  BY <1>2, <1>3, SameLives, RetireMoves DEF Unstaged

LEMMA SwappedMoves == ASSUME TInv, NEW c \in Tabs, NEW i, Swapped(c, i) PROVE Moves(c)
<1>1. At(c, i, {"start", "switch"}, "swapping")
  BY DEF Swapped
<1>2. i = 1 /\ ops[c][1] \in OpType /\ Fitting(ops[c][1]) /\ ops[c][1].at = "swapping"
      /\ ops[c][1].kind \in {"start", "switch"}
  BY <1>1, FirstAt
<1>3. ops[c][1].host \in Hosts /\ ops[c][1].launch \in Launches
  BY <1>2, OpFields DEF Fitting
<1>. DEFINE t == [tab[c] EXCEPT !.last = ops[c][1].launch]
<1>4. t \in TabType /\ t.att = tab[c].att
  BY <1>3, Now DEF TabType
<1>5. tab' = [tab EXCEPT ![c] = t] /\ host' = EnvStopped(host, ops[c][1].host, ops[c][1].prev)
  BY <1>2 DEF Swapped, TInv, Typed
<1>. HIDE DEF t
<1>. QED
  BY <1>3, <1>4, <1>5, SameLives, KeepMoves

LEMMA StartFailsMoves == ASSUME TInv, NEW c \in Tabs, NEW i, StartFails(c, i) PROVE Moves(c)
<1>1. At(c, i, {"start"}, "configuring")
  BY DEF StartFails
<1>2. i = 1 /\ Believes(ops[c][1], tab[c]) /\ ops[c][1].kind = "start" /\ ops[c][1].at = "configuring"
  BY <1>1, FirstAt
<1>3. tab[c].att \in {0, ops[c][1].host}
  BY <1>2 DEF Believes
<1>4. CASE UNCHANGED <<tab, host>>
  BY <1>4, RestMoves DEF SameLife
<1>5. CASE tab' = [tab EXCEPT ![c] = NoTab] /\ host' = IF LastOf(c) THEN Halted(host, ops[c][1].host) ELSE host
  <2>1. host' = IF LastOf(c) THEN Halted(host, tab[c].att) ELSE host
    BY <1>3, <1>5 DEF LastOf
  <2>. QED
    BY <1>5, <2>1, NobodyTyped, LeaveMoves, Now DEF SameLife
<1>. QED
  BY <1>2, <1>4, <1>5 DEF StartFails

LEMMA StopBeginsMoves == ASSUME TInv, NEW c \in Tabs, NEW i, StopBegins(c, i) PROVE Moves(c)
<1>1. CASE UNCHANGED <<tab, host>>
  BY <1>1, RestMoves DEF SameLife
<1>. DEFINE t == [tab[c] EXCEPT !.att = 0]
            u == [NoTab EXCEPT !.last = tab[c].last]
<1>2. tab[c] \in TabType /\ 0 \in 0..MaxHosts
  BY Now, ProcessAssumption
<1>3. t \in TabType /\ t.att = 0 /\ [tab EXCEPT ![c].att = 0] = [tab EXCEPT ![c] = t]
  BY <1>2 DEF TabType
<1>4. u \in TabType /\ u.att = 0
  BY <1>2, NobodyTyped, TabFields DEF TabType
<1>5. [ops[c][i] EXCEPT !.host = tab[c].proc, !.prev = tab[c].env].host = tab[c].proc
  <2>1. i = 1 /\ ops[c][1] \in OpType
    BY FirstAt DEF StopBegins
  <2>. QED
    BY <2>1 DEF OpType
<1>6. CASE LastOf(c) /\ tab' = [tab EXCEPT ![c].att = 0] /\ host' = Halted(host, tab[c].proc)
  <2>1. host' = IF LastOf(c) THEN Halted(host, tab[c].att) ELSE host
    BY <1>6, Now DEF LastOf
  <2>. HIDE DEF t
  <2>. QED
    BY <1>3, <1>6, <2>1, LeaveMoves, Now DEF SameLife
<1>7. CASE ~LastOf(c) /\ (tab' = [tab EXCEPT ![c].att = 0] \/ tab' = [tab EXCEPT ![c] = u]) /\ UNCHANGED host
  <2>1. host' = IF LastOf(c) THEN Halted(host, tab[c].att) ELSE host
    BY <1>7
  <2>. HIDE DEF t, u
  <2>2. PICK x \in TabType : x.att = 0 /\ tab' = [tab EXCEPT ![c] = x]
    BY <1>3, <1>4, <1>7
  <2>. QED
    BY <2>1, <2>2, LeaveMoves, Now DEF SameLife
<1>. QED
  BY <1>1, <1>5, <1>6, <1>7 DEF StopBegins

LEMMA StopEndsMoves == ASSUME TInv, NEW c \in Tabs, NEW i, StopEnds(c, i) PROVE Moves(c)
<1>1. At(c, i, {"stop"}, "halting") \/ At(c, i, {"stop"}, "unbinding")
  BY DEF StopEnds
<1>2. i = 1 /\ ops[c][1] \in OpType /\ Fitting(ops[c][1]) /\ ops[c][1].at \in {"halting", "unbinding"}
  BY <1>1, FirstAt
<1>3. ops[c][1].host \in Hosts
  BY <1>2, OpFields DEF Fitting
<1>. DEFINE t == [tab[c] EXCEPT !.proc = 0, !.env = None, !.ws = 0, !.folder = None]
<1>4. tab[c] \in TabType /\ 0 \in 0..MaxHosts /\ 0 \in 0..MaxWs
  BY Now, ProcessAssumption
<1>5. t \in TabType /\ t.att = tab[c].att
  BY <1>4 DEF TabType
<1>6. /\ tab' = [tab EXCEPT ![c] = t]
      /\ UNCHANGED host \/ host' = EnvStopped(host, ops[c][1].host, ops[c][1].prev)
  BY <1>2 DEF StopEnds, TInv, Typed
<1>. HIDE DEF t
<1>. QED
  BY <1>3, <1>5, <1>6, SameLives, KeepMoves

LEMMA ResumePreparedMoves == ASSUME TInv, NEW c \in Tabs, NEW i, ResumePrepared(c, i) PROVE Moves(c)
<1>1. i = 1 /\ ops[c][1] \in OpType /\ ops[c][1].kind = "resume"
  BY FirstAt DEF ResumePrepared
<1>2. tab[c] \in TabType
  BY Now
<1>3. PICK op : op = [ops[c][1] EXCEPT !.host = tab[c].proc, !.prev = tab[c].env, !.ws = tab[c].ws]
  OBVIOUS
<1>4. op.host = tab[c].proc
  BY <1>1, <1>3 DEF OpType
<1>5. CASE tab' = [tab EXCEPT ![c].env = None] /\ UNCHANGED host
  <2>. DEFINE t == [tab[c] EXCEPT !.env = None]
  <2>1. t \in TabType /\ t.att = tab[c].att /\ tab' = [tab EXCEPT ![c] = t]
    BY <1>2, <1>5 DEF TabType, TInv, Typed
  <2>. HIDE DEF t
  <2>. QED
    BY <1>5, <2>1, KeepMoves DEF SameLife
<1>. DEFINE key == KeyOf(c, op.launch)
<1>6. ASSUME tab[c].proc = 0, NEW h \in Hosts,
             tab' = [tab EXCEPT ![c].proc = h, ![c].att = h],
             host' = IF Consumers(h) = {} THEN Boot(AttachedHosts(c, key, h), h) ELSE host
      PROVE  Moves(c)
  <2>. DEFINE t == [tab[c] EXCEPT !.proc = h, !.att = h]
  <2>1. h \in 0..MaxHosts /\ key \in Tabs \cup {Shared} /\ h # 0
    BY KeyIs DEF Hosts
  <2>2. t \in TabType /\ t.att = h /\ tab' = [tab EXCEPT ![c] = t]
    BY <1>2, <1>6, <2>1 DEF TabType, TInv, Typed
  <2>3. tab[c].att = 0
    BY <1>6, <2>1, Now
  <2>. HIDE DEF t, key
  <2>4. CASE Consumers(h) = {}
    BY <1>1, <1>6, <2>1, <2>2, <2>4, JoinMoves
  <2>5. CASE Consumers(h) # {}
    <3>1. \A g \in Hosts : g # 0
      BY DEF Hosts
    <3>2. \A g \in Hosts : Stays(c, t, g)
      BY <1>6, <2>2, <2>3, <2>5, <3>1 DEF Stays, SameLife
    <3>. QED
      BY <2>2, <3>2 DEF Moves
  <2>. QED
    BY <2>4, <2>5
<1>. QED
  BY <1>1, <1>3, <1>4, <1>5, <1>6 DEF ResumePrepared

LEMMA WithdrawnMoves == ASSUME TInv, NEW c \in Tabs, NEW i, Withdrawn(c, i) PROVE Moves(c)
<1>1. At(c, i, {"resume"}, "withdrawing")
  BY DEF Withdrawn
<1>2. i = 1 /\ ops[c][1] \in OpType /\ Fitting(ops[c][1]) /\ ops[c][1].at = "withdrawing"
  BY <1>1, FirstAt
<1>3. ops[c][1].host \in Hosts
  BY <1>2, OpFields DEF Fitting
<1>. QED
  BY <1>2, <1>3, SameLives, RestMoves DEF Withdrawn

LEMMA ReboundMoves == ASSUME TInv, NEW c \in Tabs, NEW i, Rebound(c, i) PROVE Moves(c)
<1>1. At(c, i, {"resume", "switch"}, "configuring")
  BY DEF Rebound
<1>2. i = 1 /\ ops[c][1] \in OpType /\ Fitting(ops[c][1]) /\ ops[c][1].at = "configuring"
      /\ ops[c][1].kind \in {"resume", "switch"}
  BY <1>1, FirstAt
<1>3. PICK op \in OpType : op = ops[c][1]
  BY <1>2
<1>4. op.launch \in Launches /\ op.host # 0 /\ op.ws # 0 /\ op.host \in Hosts
  BY <1>2, <1>3, OpFields DEF Fitting
<1>5. \A g \in Hosts : SameLife(Materialized(op)[g], host[g])
  BY <1>4, SameLives
<1>6. host' = Materialized(op) /\ (tab' = Bound(c, op) \/ tab' = Kept(c, op))
  BY <1>2, <1>3 DEF Rebound, Kept
<1>7. tab \in [Tabs -> TabType]
  BY DEF TInv, Typed
<1>. QED
  BY <1>4, <1>5, <1>6, <1>7, KeepMoves, BoundIs, KeptIs

LEMMA OpStepMoves == ASSUME TInv, NEW c \in Tabs, NEW i, OpStep(c, i) PROVE Moves(c)
<1>1. Retired(c, i) \/ SwitchPrepared(c, i) \/ RebindFails(c, i) => Moves(c)
  BY RestMoves DEF Retired, SwitchPrepared, RebindFails, SameLife
<1>. QED
  BY <1>1, StartBeginsMoves, StartPreparedMoves, StartBootedMoves, StartConfiguredMoves, UnstagedMoves,
     SwappedMoves, StartFailsMoves, StopBeginsMoves, StopEndsMoves, ResumePreparedMoves, WithdrawnMoves,
     ReboundMoves DEF OpStep

---------------------------------------------------------------------------
(* Who stops a host                                                        *)

Forsaken(h) == host'[h].st = "stopping" /\ host[h].st # "stopping" => \A d \in Tabs : tab'[d].att # h

LEMMA MovesForsakes == ASSUME TInv, NEW c \in Tabs, Moves(c), NEW h \in Hosts PROVE Forsaken(h)
<1>1. PICK t \in TabType : /\ tab' = [tab EXCEPT ![c] = t]
                           /\ Stays(c, t, h) \/ Leaves(c, t, h) \/ Boots(c, t, h)
  BY DEF Moves
<1>2. CASE Stays(c, t, h) \/ Boots(c, t, h)
  BY <1>2 DEF Stays, SameLife, Boots, Forsaken
<1>3. CASE Leaves(c, t, h)
  <2>1. Consumers(h) = {c} /\ t.att # h
    BY <1>3 DEF Leaves, LastOf
  <2>2. \A d \in Tabs : d # c => tab[d].att # h
    BY <2>1 DEF Consumers
  <2>. QED
    BY <1>1, <2>1, <2>2 DEF Forsaken, TInv, Typed
<1>. QED
  BY <1>1, <1>2, <1>3

LEMMA HostStepForsakes ==
    ASSUME TInv, NEW h \in Hosts, HostStep(h) \/ SpawnFails(h) \/ NeverReady(h) \/ HostDies(h), NEW g \in Hosts
    PROVE  Forsaken(g)
  BY DEF HostStep, Spawned, Ready, Killed, SpawnFails, NeverReady, HostDies, Forsaken, TInv, Typed, HostType

LEMMA EvictForsakes == ASSUME TInv, NEW h \in Hosts, Evict(h), NEW g \in Hosts PROVE Forsaken(g)
<1>1. host' = Halted(host, h) /\ tab' = [d \in Tabs |-> IF tab[d].att = h THEN NoTab ELSE tab[d]]
  BY DEF Evict
<1>2. g # h => host'[g] = host[g]
  BY <1>1, HaltedIs DEF TInv, Typed, AllHosts
<1>3. \A d \in Tabs : tab'[d].att # h
  BY <1>1, NobodyTyped DEF Hosts
<1>. QED
  BY <1>2, <1>3 DEF Forsaken

LEMMA DrainedForsakes == ASSUME TInv, Drained, NEW g \in Hosts PROVE Forsaken(g)
<1>1. \A d \in Tabs : tab'[d] = [tab[d] EXCEPT !.att = 0] /\ tab[d] \in TabType
  BY Now DEF Drained
<1>2. \A d \in Tabs : tab'[d].att = 0
  BY <1>1 DEF TabType
<1>. QED
  BY <1>2 DEF Forsaken, Hosts

\* A host is stopped only once its last consumer has left it: no stop, no
\* superseded or failed start, no eviction, no move to another host and no
\* cleanup takes a host away from a consumer that still uses it.
THEOREM Survival == ASSUME Calm PROVE Spec => SharedSurvives
<1>1. TInv /\ [Next]_vars => [\A h \in Hosts : host'[h].st = "stopping" /\ host[h].st # "stopping" =>
                                 \A d \in Tabs : tab'[d].att # h]_vars
  <2>1. SUFFICES ASSUME TInv, Next, NEW h \in Hosts PROVE Forsaken(h)
    BY DEF Forsaken
  <2>2. ASSUME UNCHANGED host PROVE Forsaken(h)
    BY <2>2 DEF Forsaken
  <2>3. ASSUME NEW c \in Tabs, NEW i, OpStep(c, i) PROVE Forsaken(h)
    BY <2>1, <2>3, OpStepMoves, MovesForsakes
  <2>. QED
    BY <2>1, <2>2, <2>3, HostStepForsakes, EvictForsakes, DrainedForsakes
       DEF Next, Start, Stop, Resume, Switch, Cleanup, CleanupStep, Cleaned
<1>. QED
  BY <1>1, Types, PTL DEF Spec, SharedSurvives

---------------------------------------------------------------------------
(* Hosts and those who answer for them, without rebuilds                   *)

Witness(c, h) == Awaits(c, h) /\ tab[c].att = h

Healthy(h) ==
    /\ host[h].boot => host[h].st \in {"starting", "error"} /\ \E c \in Tabs : Witness(c, h)
    /\ host[h].st = "stopping" => host[h].child /\ Consumers(h) = {}
    /\ host[h].st = "running" => host[h].child
    /\ (host[h].child \/ host[h].boot) /\ Consumers(h) = {} => host[h].st = "stopping"

Leaving ==
    /\ quit \in {"exiting", "done"} =>
         \A c \in Tabs : /\ tab[c].att = 0
                         /\ \A i \in 1..Len(ops[c]) : ops[c][i].kind \notin {"start", "stop"}
    /\ quit = "done" => \A h \in Hosts : ~host[h].child /\ ~host[h].boot

NoResume == \A c \in Tabs : \A i \in 1..Len(ops[c]) : ops[c][i].kind # "resume"

LInv == (\A h \in Hosts : Healthy(h)) /\ Leaving /\ NoResume

LEMMA OpStepFirst ==
    ASSUME TInv, NEW c \in Tabs, NEW i, OpStep(c, i)
    PROVE  /\ ops[c] # <<>> /\ 1 \in 1..Len(ops[c]) /\ UNCHANGED quit
           /\ \A h \in Hosts : host[h].boot => ~Awaits(c, h)
<1>1. PICK kinds, place : At(c, i, kinds, place)
  BY DEF OpStep, StartBegins, StartPrepared, StartBooted, StartConfigured, Unstaged, Swapped, StartFails, Retired,
         StopBegins, StopEnds, ResumePrepared, Withdrawn, SwitchPrepared, Rebound, RebindFails
<1>2. ops[c] # <<>> /\ 1 \in 1..Len(ops[c])
  BY <1>1, Now, QueueIs DEF At
<1>3. UNCHANGED quit
  BY DEF OpStep, StartBegins, StartPrepared, StartBooted, StartConfigured, Unstaged, Swapped, StartFails, Retired,
         StopBegins, StopEnds, ResumePrepared, Withdrawn, SwitchPrepared, Rebound, RebindFails
<1>4. ASSUME NEW p, ops[c][1].at = p, p # "booting" PROVE \A h \in Hosts : ~Awaits(c, h)
  BY <1>4 DEF Awaits
<1>5. StartBegins(c, i) => ops[c][1].at = "waiting"
  BY FirstAt DEF StartBegins
<1>6. StopBegins(c, i) => ops[c][1].at = "waiting"
  BY FirstAt DEF StopBegins
<1>7. ResumePrepared(c, i) \/ SwitchPrepared(c, i) => ops[c][1].at = "waiting"
  BY FirstAt DEF ResumePrepared, SwitchPrepared
<1>8. StartPrepared(c, i) => ops[c][1].at = "preparing"
  BY FirstAt DEF StartPrepared
<1>9. StartConfigured(c, i) \/ StartFails(c, i) => ops[c][1].at = "configuring"
  BY FirstAt DEF StartConfigured, StartFails
<1>10. Rebound(c, i) \/ RebindFails(c, i) => ops[c][1].at = "configuring"
  BY FirstAt DEF Rebound, RebindFails
<1>11. /\ Unstaged(c, i) => ops[c][1].at = "unstaging"
       /\ Swapped(c, i) => ops[c][1].at = "swapping"
       /\ Retired(c, i) => ops[c][1].at = "retiring"
       /\ StopEnds(c, i) => ops[c][1].at \in {"halting", "unbinding"}
       /\ Withdrawn(c, i) => ops[c][1].at = "withdrawing"
  BY FirstAt DEF Unstaged, Swapped, Retired, StopEnds, Withdrawn
<1>12. StartBooted(c, i) => ~host[ops[c][1].host].boot
  BY FirstAt DEF StartBooted
<1>13. StartBooted(c, i) => \A h \in Hosts : host[h].boot => ~Awaits(c, h)
  BY <1>12 DEF Awaits
<1>. QED
  BY <1>2, <1>3, <1>4, <1>5, <1>6, <1>7, <1>8, <1>9, <1>10, <1>11, <1>13 DEF OpStep

LEMMA ProceedsKinds ==
    ASSUME TInv, NEW c \in Tabs, ops[c] # <<>>, Proceeds(c)
    PROVE  /\ \A d \in Tabs : d # c => ops'[d] = ops[d]
           /\ \A i \in 1..Len(ops'[c]) : \E j \in 1..Len(ops[c]) : ops'[c][i].kind = ops[c][j].kind
           /\ ops'[c] # <<>> => 1 \in 1..Len(ops'[c])
<1>0. Len(ops[c]) \in Nat /\ Len(ops[c]) > 0 /\ ops[c] \in Seq(OpType)
  BY Now, QueueIs
<1>1. CASE Settles(c, 1)
  <2>1. ops'[c] = RemoveAt(ops[c], 1) /\ ops'[c] \in Seq(OpType)
    BY <1>0, <1>1, WithoutFirst DEF Settles, TInv, Typed
  <2>2. ops'[c] # <<>> => 1 \in 1..Len(ops'[c])
    BY <2>1
  <2>. QED
    BY <1>1, <2>2, SettlesFirst
<1>2. CASE \E op \in OpType : Goes(c, 1, op) /\ op.kind = ops[c][1].kind
  <2>1. PICK op \in OpType : Goes(c, 1, op) /\ op.kind = ops[c][1].kind
    BY <1>2
  <2>2. /\ ops'[c][1] = op /\ Len(ops'[c]) = Len(ops[c])
        /\ \A i \in 1..Len(ops[c]) : i # 1 => ops'[c][i] = ops[c][i]
        /\ \A d \in Tabs : d # c => ops'[d] = ops[d]
    BY <2>1, GoesFirst
  <2>3. \A i \in 1..Len(ops[c]) : ops'[c][i].kind = ops[c][i].kind
    BY <2>1, <2>2
  <2>. QED
    BY <1>0, <2>2, <2>3
<1>. QED
  BY <1>1, <1>2 DEF Proceeds

LEMMA OpStepHealthy ==
    ASSUME TInv, LInv, NEW c \in Tabs, NEW i, OpStep(c, i) PROVE LInv'
<1>1. PICK t \in TabType : /\ tab' = [tab EXCEPT ![c] = t]
                           /\ \A g \in Hosts : Stays(c, t, g) \/ Leaves(c, t, g) \/ Boots(c, t, g)
  BY OpStepMoves DEF Moves
<1>2. /\ ops[c] # <<>> /\ 1 \in 1..Len(ops[c]) /\ UNCHANGED quit
      /\ \A h \in Hosts : host[h].boot => ~Awaits(c, h)
  BY OpStepFirst
<1>3. /\ \A d \in Tabs : d # c => ops'[d] = ops[d]
      /\ \A j \in 1..Len(ops'[c]) : \E k \in 1..Len(ops[c]) : ops'[c][j].kind = ops[c][k].kind
      /\ ops'[c] # <<>> => 1 \in 1..Len(ops'[c])
  BY <1>2, OpStepTyped, ProceedsKinds
<1>4. tab'[c] = t /\ \A d \in Tabs : d # c => tab'[d] = tab[d]
  BY <1>1 DEF TInv, Typed
<1>5. NoResume'
  BY <1>3 DEF LInv, NoResume
<1>6. ops[c][1].kind # "resume"
  BY <1>2 DEF LInv, NoResume
<1>7. ASSUME NEW g \in Hosts PROVE Healthy(g)'
  <2>0. Healthy(g) /\ g # 0
    BY DEF LInv, Hosts
  <2>1. \A d \in Tabs : d # c => (Witness(d, g) => Witness(d, g)')
    BY <1>3, <1>4 DEF Witness, Awaits
  <2>2. CASE Stays(c, t, g)
    <3>1. host[g].boot => \E d \in Tabs : Witness(d, g)'
      BY <1>2, <2>0, <2>1 DEF Healthy, Witness
    <3>2. Consumers(g)' = {} <=> Consumers(g) = {}
      BY <1>4, <2>0, <2>2 DEF Stays, Consumers, LastOf
    <3>. QED
      BY <2>0, <2>2, <3>1, <3>2 DEF Healthy, Stays, SameLife
  <2>3. CASE Leaves(c, t, g)
    <3>1. Consumers(g) = {c} /\ Consumers(g)' = {}
      BY <1>4, <2>3 DEF Leaves, LastOf, Consumers
    <3>2. ~host[g].boot
      BY <1>2, <2>0, <3>1 DEF Healthy, Witness, Consumers
    <3>. QED
      BY <2>0, <2>3, <3>1, <3>2 DEF Healthy, Leaves
  <2>4. CASE Boots(c, t, g)
    <3>1. Witness(c, g)'
      BY <1>4, <1>6, <2>4 DEF Boots, Witness
    <3>2. c \in Consumers(g)'
      BY <1>4, <2>4 DEF Boots, Consumers
    <3>. QED
      BY <2>4, <3>1, <3>2 DEF Healthy, Boots
  <2>. QED
    BY <1>1, <2>2, <2>3, <2>4
<1>8. Leaving'
  <2>1. SUFFICES ASSUME quit \in {"exiting", "done"} PROVE Leaving'
    BY <1>2 DEF Leaving
  <2>2. \A d \in Tabs : tab[d].att = 0 /\ \A j \in 1..Len(ops[d]) : ops[d][j].kind \notin {"start", "stop"}
    BY <2>1 DEF LInv, Leaving
  <2>3. \A d \in Tabs : \A j \in 1..Len(ops'[d]) : ops'[d][j].kind \notin {"start", "stop"}
    BY <1>3, <2>2
  <2>4. \A g \in Hosts : Consumers(g) = {} /\ g # 0
    BY <2>2 DEF Consumers, Hosts
  <2>5. \A g \in Hosts : ~Awaits(c, g)'
    BY <1>3, <2>3 DEF Awaits
  <2>6. \A g \in Hosts : Stays(c, t, g) /\ t.att # g
    BY <1>1, <1>6, <2>2, <2>4, <2>5 DEF Stays, Leaves, Boots
  <2>7. t.att = 0
    BY <2>6, TabFields
  <2>8. \A d \in Tabs : tab'[d].att = 0
    BY <1>4, <2>2, <2>7
  <2>9. quit = "done" => \A h \in Hosts : ~host'[h].child /\ ~host'[h].boot
    BY <2>6 DEF LInv, Leaving, Stays, SameLife
  <2>. QED
    BY <1>2, <2>3, <2>8, <2>9 DEF Leaving
<1>. QED
  BY <1>5, <1>7, <1>8 DEF LInv

\* Superseding requests does not take a witness away.
LEMMA SupersededFirst ==
    ASSUME TInv, NEW c \in Tabs
    PROVE  /\ Len(Superseded(c)) = Len(ops[c]) /\ (Superseded(c) # <<>> <=> ops[c] # <<>>)
           /\ ops[c] # <<>> => SameButCurrent(Superseded(c)[1], ops[c][1])
           /\ \A i \in 1..Len(ops[c]) : Superseded(c)[i].kind = ops[c][i].kind
<1>1. ops[c] # <<>> => 1 \in 1..Len(ops[c])
  BY Now, QueueIs
<1>. QED
  BY <1>1, QueueSuperseded DEF TInv, SameButCurrent

LEMMA AskedFirst ==
    ASSUME TInv, NEW c \in Tabs, NEW kind \in Kinds, NEW l, Asked(c, kind, l)
    PROVE  /\ \A d \in Tabs : d # c => ops'[d] = ops[d]
           /\ ops[c] # <<>> => ops'[c] # <<>> /\ SameButCurrent(ops'[c][1], ops[c][1])
           /\ \A i \in 1..Len(ops'[c]) : ops'[c][i].kind = kind \/ \E j \in 1..Len(ops[c]) : ops'[c][i].kind = ops[c][j].kind
<1>. DEFINE q == IF kind \in {"start", "stop"} THEN Superseded(c) ELSE ops[c]
            r == Op(kind, l)
<1>1. ops[c] \in Queues /\ Len(ops[c]) \in Nat /\ (ops[c] # <<>> => 1 \in 1..Len(ops[c]))
  BY Now, QueueIs
<1>2. ops'[c] = Append(q, r) /\ \A d \in Tabs : d # c => ops'[d] = ops[d]
  BY DEF Asked, TInv, Typed
<1>3. /\ q \in Seq(OpType) /\ Len(q) = Len(ops[c])
      /\ ops[c] # <<>> => SameButCurrent(q[1], ops[c][1])
      /\ \A i \in 1..Len(ops[c]) : q[i].kind = ops[c][i].kind
  <2>1. Superseded(c) \in Seq(OpType) /\ ops[c] \in Seq(OpType)
    BY <1>1, QueueSuperseded, QueueIs DEF TInv
  <2>. QED
    BY <2>1, SupersededFirst DEF SameButCurrent
<1>4. r.kind = kind
  BY DEF Op
<1>. HIDE DEF q, r
<1>5. Len(Append(q, r)) = Len(q) + 1 /\ Append(q, r)[Len(q) + 1] = r /\ Append(q, r) # <<>>
      /\ \A i \in 1..Len(q) : Append(q, r)[i] = q[i]
  <2>1. PICK S : S = OpType \cup {r}
    OBVIOUS
  <2>2. Len(q) \in Nat /\ \A i \in 1..Len(q) : q[i] \in S
    BY <1>3, <2>1
  <2>3. q \in Seq(S) /\ r \in S
    BY <1>3, <2>1, <2>2
  <2>. QED
    BY <2>3
<1>6. \A i \in 1..(Len(q) + 1) : i \in 1..Len(q) \/ i = Len(q) + 1
  BY <1>1, <1>3
<1>7. ops[c] # <<>> => ops'[c] # <<>> /\ SameButCurrent(ops'[c][1], ops[c][1])
  BY <1>1, <1>2, <1>3, <1>5
<1>8. ASSUME NEW i \in 1..Len(ops'[c])
      PROVE  ops'[c][i].kind = kind \/ \E j \in 1..Len(ops[c]) : ops'[c][i].kind = ops[c][j].kind
  BY <1>2, <1>3, <1>4, <1>5, <1>6, <1>8
<1>. QED
  BY <1>2, <1>7, <1>8

LEMMA AskedHealthy ==
    ASSUME TInv, LInv, NEW c \in Tabs, NEW kind \in Kinds, kind # "resume", NEW l, Asked(c, kind, l),
           UNCHANGED <<tab, host, quit>>
    PROVE  LInv'
<1>1. /\ \A d \in Tabs : d # c => ops'[d] = ops[d]
      /\ ops[c] # <<>> => ops'[c] # <<>> /\ SameButCurrent(ops'[c][1], ops[c][1])
      /\ \A i \in 1..Len(ops'[c]) : ops'[c][i].kind = kind \/ \E j \in 1..Len(ops[c]) : ops'[c][i].kind = ops[c][j].kind
  BY AskedFirst
<1>2. \A g \in Hosts, d \in Tabs : Witness(d, g) => Witness(d, g)'
  BY <1>1 DEF Witness, Awaits, SameButCurrent
<1>3. \A g \in Hosts : Healthy(g)'
  BY <1>2 DEF LInv, Healthy, Consumers
<1>4. NoResume'
  BY <1>1 DEF LInv, NoResume
<1>5. Leaving'
  BY DEF Asked, Leaving
<1>. QED
  BY <1>3, <1>4, <1>5 DEF LInv

LEMMA HostStepHealthy ==
    ASSUME TInv, LInv, NEW h \in Hosts, HostStep(h) \/ SpawnFails(h) \/ NeverReady(h) \/ HostDies(h)
    PROVE  LInv'
<1>1. UNCHANGED <<tab, ops, quit>>
  BY DEF HostStep, Spawned, Ready, Killed, SpawnFails, NeverReady, HostDies
<1>2. host \in [Hosts -> HostType] /\ host[h] \in HostType
  BY DEF TInv, Typed
<1>3. \A g \in Hosts : g # h => host'[g] = host[g]
  BY <1>2 DEF HostStep, Spawned, Ready, Killed, SpawnFails, NeverReady, HostDies
<1>4. \A g \in Hosts : Consumers(g)' = Consumers(g) /\ \A d \in Tabs : Witness(d, g)' <=> Witness(d, g)
  BY <1>1 DEF Consumers, Witness, Awaits
<1>5. Healthy(h) /\ (host[h].boot => Consumers(h) # {})
  BY DEF LInv, Healthy, Witness, Consumers
<1>6. /\ host'[h].boot => host[h].boot /\ host'[h].st \in {"starting", "error"}
      /\ host'[h].st # "stopping" /\ (host'[h].st = "running" => host'[h].child)
      /\ (host'[h].child \/ host'[h].boot) => Consumers(h) # {}
  <2>1. CASE Spawned(h)
    BY <1>2, <1>5, <2>1 DEF Spawned, HostType
  <2>2. CASE Ready(h)
    BY <1>2, <1>5, <2>2 DEF Ready, HostType, Healthy
  <2>3. CASE Killed(h)
    BY <1>2, <1>5, <2>3 DEF Killed, HostType, Healthy
  <2>4. CASE SpawnFails(h)
    BY <1>2, <1>5, <2>4 DEF SpawnFails, HostType
  <2>5. CASE NeverReady(h)
    BY <1>2, <1>5, <2>5 DEF NeverReady, HostType, Healthy
  <2>6. CASE HostDies(h)
    BY <1>2, <1>5, <2>6 DEF HostDies, HostType, Healthy, Live
  <2>. QED
    BY <2>1, <2>2, <2>3, <2>4, <2>5, <2>6 DEF HostStep
<1>7. Healthy(h)'
  BY <1>4, <1>5, <1>6 DEF Healthy
<1>8. \A g \in Hosts : g # h => Healthy(g)'
  BY <1>3, <1>4 DEF LInv, Healthy
<1>9. host[h].child \/ host[h].boot
  BY <1>5 DEF Healthy, HostStep, Spawned, Ready, Killed, SpawnFails, NeverReady, HostDies
<1>10. Leaving'
  BY <1>1, <1>9 DEF LInv, Leaving
<1>. QED
  BY <1>1, <1>7, <1>8, <1>10 DEF LInv, NoResume

LEMMA EvictHealthy == ASSUME TInv, LInv, NEW h \in Hosts, Evict(h) PROVE LInv'
<1>1. /\ host[h].st = "running" /\ Consumers(h) # {} /\ host' = Halted(host, h) /\ UNCHANGED quit
      /\ tab' = [c \in Tabs |-> IF tab[c].att = h THEN NoTab ELSE tab[c]]
      /\ ops' = [c \in Tabs |-> IF tab[c].att = h THEN Superseded(c) ELSE ops[c]]
  BY DEF Evict
<1>2. host[h].child /\ ~host[h].boot
  BY <1>1 DEF LInv, Healthy
<1>3. /\ \A g \in Hosts : g # h => host'[g] = host[g]
      /\ host'[h].st = "stopping" /\ host'[h].child /\ ~host'[h].boot
  BY <1>1, <1>2, HaltedIs DEF TInv, Typed, AllHosts, SameButStatus
<1>4. Consumers(h)' = {}
  BY <1>1, NobodyTyped DEF Consumers, Hosts
<1>5. Healthy(h)'
  BY <1>3, <1>4 DEF Healthy
<1>6. ASSUME NEW g \in Hosts, g # h PROVE Healthy(g)'
  <2>1. \A d \in Tabs : Witness(d, g)' <=> Witness(d, g)
    BY <1>1, <1>6, NobodyTyped DEF Witness, Awaits, Hosts
  <2>2. Consumers(g)' = Consumers(g)
    BY <1>1, <1>6, NobodyTyped DEF Consumers, Hosts
  <2>. QED
    BY <1>3, <1>6, <2>1, <2>2 DEF LInv, Healthy
<1>7. NoResume'
  <2>1. \A c \in Tabs : \A i \in 1..Len(Superseded(c)) : Superseded(c)[i].kind # "resume"
    BY SupersededFirst DEF LInv, NoResume
  <2>. QED
    BY <1>1, <2>1 DEF LInv, NoResume
<1>8. Leaving'
  <2>1. quit \notin {"exiting", "done"}
    BY <1>1 DEF LInv, Leaving, Consumers, Hosts
  <2>. QED
    BY <1>1, <2>1 DEF Leaving
<1>. QED
  BY <1>5, <1>6, <1>7, <1>8 DEF LInv

LEMMA CleanupHealthy == ASSUME TInv, LInv, Cleanup PROVE LInv'
<1>1. /\ quit' = "draining" /\ UNCHANGED <<tab, host>>
      /\ ops' = [c \in Tabs |-> IF Pending(c, "start") # {} THEN Superseded(c) ELSE ops[c]]
  BY DEF Cleanup
<1>2. \A g \in Hosts, d \in Tabs : Witness(d, g) => Witness(d, g)'
  BY <1>1, SupersededFirst DEF Witness, Awaits, SameButCurrent
<1>3. \A g \in Hosts : Healthy(g)'
  BY <1>1, <1>2 DEF LInv, Healthy, Consumers
<1>4. NoResume'
  <2>1. \A c \in Tabs : \A i \in 1..Len(Superseded(c)) : Superseded(c)[i].kind # "resume"
    BY SupersededFirst DEF LInv, NoResume
  <2>. QED
    BY <1>1, <2>1 DEF LInv, NoResume
<1>. QED
  BY <1>1, <1>3, <1>4 DEF LInv, Leaving

LEMMA DrainedHealthy == ASSUME TInv, LInv, Drained PROVE LInv'
<1>1. /\ quit' = "exiting" /\ UNCHANGED ops
      /\ \A c \in Tabs : Pending(c, "start") = {} /\ Pending(c, "stop") = {}
      /\ host' = [h \in Hosts |-> IF Consumers(h) # {} THEN Halted(host, h)[h] ELSE host[h]]
      /\ tab' = [c \in Tabs |-> [tab[c] EXCEPT !.att = 0]]
  BY DEF Drained
<1>2. \A c \in Tabs : tab'[c].att = 0
  BY <1>1, Now DEF TabType
<1>3. \A c \in Tabs : \A i \in 1..Len(ops[c]) : ops[c][i].kind \notin {"start", "stop"}
  BY <1>1 DEF Pending
<1>4. \A c \in Tabs, h \in Hosts : ~Awaits(c, h)
  <2>1. \A c \in Tabs : ops[c] # <<>> => 1 \in 1..Len(ops[c])
    BY Now, QueueIs
  <2>. QED
    BY <1>3, <2>1 DEF Awaits
<1>5. ASSUME NEW h \in Hosts PROVE Healthy(h)'
  <2>1. Healthy(h) /\ ~host[h].boot
    BY <1>4 DEF LInv, Healthy, Witness
  <2>2. Consumers(h)' = {}
    BY <1>2 DEF Consumers, Hosts
  <2>3. CASE Consumers(h) # {}
    <3>1. /\ SameButStatus(host'[h], host[h])
          /\ host'[h].st = IF host[h].child THEN "stopping" ELSE host[h].st
      BY <1>1, <2>3, HaltedIs DEF TInv, Typed, AllHosts
    <3>. QED
      BY <2>1, <2>2, <3>1 DEF Healthy, SameButStatus
  <2>4. CASE Consumers(h) = {}
    <3>1. host'[h] = host[h]
      BY <1>1, <2>4
    <3>. QED
      BY <2>1, <2>2, <2>4, <3>1 DEF Healthy
  <2>. QED
    BY <2>3, <2>4
<1>. QED
  BY <1>1, <1>2, <1>3, <1>5 DEF LInv, Leaving, NoResume

LEMMA CleanedHealthy == ASSUME TInv, LInv, Cleaned PROVE LInv'
<1>1. /\ quit = "exiting" /\ quit' = "done" /\ \A h \in Hosts : host[h].st # "stopping"
      /\ tab' = [c \in Tabs |-> NoTab] /\ UNCHANGED <<host, ops>>
  BY DEF Cleaned
<1>2. \A c \in Tabs : tab[c].att = 0 /\ tab'[c].att = 0 /\ \A i \in 1..Len(ops[c]) : ops[c][i].kind \notin {"start", "stop"}
  BY <1>1, NobodyTyped DEF LInv, Leaving
<1>3. \A h \in Hosts : Consumers(h) = {} /\ Consumers(h)' = {}
  BY <1>2 DEF Consumers, Hosts
<1>4. \A h \in Hosts : ~host[h].child /\ ~host[h].boot
  BY <1>1, <1>3 DEF LInv, Healthy
<1>5. \A h \in Hosts : Healthy(h)'
  BY <1>1, <1>3, <1>4 DEF LInv, Healthy
<1>. QED
  BY <1>1, <1>2, <1>4, <1>5 DEF LInv, Leaving, NoResume

LEMMA InitHealthy == ASSUME Init PROVE LInv
<1>1. \A h \in Hosts : Healthy(h)
  BY DEF Init, Healthy, NoHost
<1>. QED
  BY <1>1 DEF Init, LInv, Leaving, NoResume

LEMMA StepHealthy == ASSUME "resume" \notin Requests, TInv, LInv, [Next]_vars PROVE LInv'
<1>1. CASE UNCHANGED <<tab, host, ops, quit>>
  BY <1>1 DEF LInv, Healthy, Leaving, NoResume, Consumers, Witness, Awaits
<1>2. ASSUME NEW c \in Tabs, NEW l, Start(c, l) PROVE LInv'
  <2>1. UNCHANGED <<tab, host, quit>> /\ (UNCHANGED ops \/ Asked(c, "start", l))
    BY <1>2 DEF Start
  <2>. QED
    BY <1>1, <2>1, AskedHealthy DEF Kinds
<1>3. ASSUME NEW c \in Tabs, Stop(c) PROVE LInv'
  <2>1. UNCHANGED <<tab, host, quit>> /\ (UNCHANGED ops \/ Asked(c, "stop", None))
    BY <1>3 DEF Stop
  <2>. QED
    BY <1>1, <2>1, AskedHealthy DEF Kinds
<1>4. ASSUME NEW c \in Tabs, NEW p \in Profiles, Switch(c, p) PROVE LInv'
  <2>1. UNCHANGED <<tab, host, quit>> /\ Asked(c, "switch", [tab[c].last EXCEPT !.profile = p])
    BY <1>4 DEF Switch
  <2>. QED
    BY <2>1, AskedHealthy DEF Kinds
<1>5. ASSUME NEW c \in Tabs PROVE ~Resume(c)
  BY DEF Resume, Asked
<1>6. CASE UNCHANGED vars
  BY <1>1, <1>6 DEF vars
<1>. QED
  BY <1>2, <1>3, <1>4, <1>5, <1>6, OpStepHealthy, HostStepHealthy, EvictHealthy, CleanupHealthy, DrainedHealthy,
     CleanedHealthy DEF Next, CleanupStep

LEMMA Health == ASSUME Calm, "resume" \notin Requests PROVE Spec => []LInv
<1>1. Init => LInv
  BY InitHealthy
<1>2. TInv /\ LInv /\ [Next]_vars => LInv'
  BY StepHealthy
<1>. QED
  BY <1>1, <1>2, Types, PTL DEF Spec

\* Without rebuilds no host process is left running, or about to be spawned,
\* that has no consumer and that nobody stops: whoever leaves last stops the
\* child, and there is one, since a consumer leaves a host that boots only
\* when the boot is over.
THEOREM Ownership == ASSUME Calm, "resume" \notin Requests PROVE Spec => []HostOwned
<1>1. LInv => HostOwned
  BY DEF LInv, Healthy, HostOwned
<1>. QED
  BY <1>1, Health, PTL

\* Without rebuilds cleanup leaves no child process and none about to be
\* spawned, whatever was under way when it began.
THEOREM Quitting == ASSUME Calm, "resume" \notin Requests PROVE Spec => []QuitLeavesNothing
<1>1. LInv => QuitLeavesNothing
  BY DEF LInv, Leaving, QuitLeavesNothing
<1>. QED
  BY <1>1, Health, PTL

---------------------------------------------------------------------------
(* What each step does to a consumer, its first request and its host       *)

Done(c, t) == tab' = [tab EXCEPT ![c] = t] /\ Settles(c, 1)
On(c, t, r) == tab' = [tab EXCEPT ![c] = t] /\ Goes(c, 1, r)

SameAims(r, op) == r.kind = op.kind /\ r.launch = op.launch /\ r.current = op.current

Moved(r, op, place) ==
    /\ SameAims(r, op) /\ r.at = place /\ r.host = op.host /\ r.live = op.live /\ r.prev = op.prev
    /\ r.ws = op.ws /\ r.folder = op.folder /\ r.env = op.env

\* The first request of a consumer, at a place where only the first can be.
First(c, op, kinds, place) ==
    /\ ops[c] # <<>> /\ op = ops[c][1] /\ op \in OpType /\ Fitting(op) /\ Believes(op, tab[c])
    /\ op.kind \in kinds /\ op.at = place

LEMMA Itself == ASSUME TInv, NEW c \in Tabs, UNCHANGED tab PROVE tab' = [tab EXCEPT ![c] = tab[c]] /\ tab[c] \in TabType
  BY Now DEF TInv, Typed

RetireOutcome(c, op, hs) ==
    \/ (op.prev # None \/ tab[c].proc # op.host) /\ Done(c, tab[c]) /\ host' = hs
    \/ /\ op.prev = None /\ tab[c].proc = op.host
       /\ \E t \in TabType :
            /\ t.proc = 0 /\ t.att = 0 /\ t.env = tab[c].env /\ t.ws = tab[c].ws /\ t.folder = tab[c].folder
            /\ t.last = tab[c].last
            /\ \/ /\ LastOf(c) /\ host' = Halted(hs, tab[c].att)
                  /\ \E r \in OpType : On(c, t, r) /\ Moved(r, op, "retiring")
               \/ ~LastOf(c) /\ host' = hs /\ Done(c, t)

LEMMA RetireDoes ==
    ASSUME TInv, NEW c \in Tabs, NEW op \in OpType, op = ops[c][1], NEW hs, Retire(c, 1, hs)
    PROVE  RetireOutcome(c, op, hs)
<1>. DEFINE t == [tab[c] EXCEPT !.proc = 0, !.att = 0]
            r == [op EXCEPT !.at = "retiring"]
<1>1. CASE (op.prev # None \/ tab[c].proc # op.host) /\ Settles(c, 1) /\ host' = hs /\ UNCHANGED tab
  BY <1>1, Itself DEF RetireOutcome, Done
<1>2. CASE /\ op.prev = None /\ tab[c].proc = op.host /\ tab' = [tab EXCEPT ![c].proc = 0, ![c].att = 0]
           /\ \/ LastOf(c) /\ host' = Halted(hs, tab[c].att) /\ Goes(c, 1, r)
              \/ ~LastOf(c) /\ host' = hs /\ Settles(c, 1)
  <2>1. tab[c] \in TabType /\ 0 \in 0..MaxHosts
    BY Now, ProcessAssumption
  <2>2. /\ t \in TabType /\ t.proc = 0 /\ t.att = 0 /\ t.env = tab[c].env /\ t.ws = tab[c].ws
        /\ t.folder = tab[c].folder /\ t.last = tab[c].last
    BY <2>1 DEF TabType
  <2>3. tab' = [tab EXCEPT ![c] = t]
    BY <1>2 DEF TInv, Typed
  <2>4. r \in OpType /\ Moved(r, op, "retiring")
    BY DEF OpType, Places, Moved, SameAims
  <2>. HIDE DEF t, r
  <2>. QED
    BY <1>2, <2>2, <2>3, <2>4 DEF RetireOutcome, Done, On
<1>. QED
  BY <1>1, <1>2 DEF Retire

LEMMA StartBeginsDoes ==
    ASSUME TInv, NEW c \in Tabs, NEW i, StartBegins(c, i)
    PROVE  \E op : /\ First(c, op, {"start"}, "waiting") /\ UNCHANGED <<host, want, quit>>
                   /\ \/ (~op.current \/ Adopted(c, op.launch)) /\ Done(c, tab[c])
                      \/ /\ op.current
                         /\ \E r \in OpType : /\ On(c, tab[c], r) /\ SameAims(r, op) /\ r.at = "preparing"
                                              /\ r.host = op.host /\ r.env = op.env /\ r.prev = tab[c].env
                                              /\ r.live = tab[c].proc /\ r.ws = tab[c].ws /\ r.folder = tab[c].folder
<1>1. At(c, i, {"start"}, "waiting") /\ UNCHANGED <<tab, host, want, quit>>
  BY DEF StartBegins
<1>2. i = 1 /\ First(c, ops[c][1], {"start"}, "waiting")
  BY FirstAt DEF StartBegins, First
<1>3. PICK op : op = ops[c][1] /\ First(c, op, {"start"}, "waiting")
  BY <1>2
<1>. DEFINE r == [op EXCEPT !.at = "preparing", !.prev = tab[c].env, !.live = tab[c].proc,
                           !.ws = tab[c].ws, !.folder = tab[c].folder]
<1>4. /\ r \in OpType /\ SameAims(r, op) /\ r.at = "preparing" /\ r.host = op.host /\ r.env = op.env
      /\ r.prev = tab[c].env /\ r.live = tab[c].proc /\ r.ws = tab[c].ws /\ r.folder = tab[c].folder
  BY <1>3, Now, TabFields DEF OpType, Places, SameAims, First
<1>5. \/ (~op.current \/ Adopted(c, op.launch)) /\ Settles(c, 1)
      \/ op.current /\ Goes(c, 1, r)
  BY <1>2, <1>3 DEF StartBegins
<1>. HIDE DEF r
<1>. QED
  BY <1>1, <1>3, <1>4, <1>5, Itself DEF Done, On

LEMMA StartPreparedDoes ==
    ASSUME TInv, NEW c \in Tabs, NEW i, StartPrepared(c, i)
    PROVE  \E op : /\ First(c, op, {"start"}, "preparing") /\ UNCHANGED <<want, quit>>
                   /\ \/ ~op.current /\ Done(c, tab[c]) /\ UNCHANGED host
                      \/ /\ op.current
                         /\ \E h \in Hosts, t \in TabType, r \in OpType :
                              /\ Attaches(c, KeyOf(c, op.launch), h)
                              /\ \/ /\ host' = AttachedHosts(c, KeyOf(c, op.launch), h)
                                    /\ host'[h].st \in Live /\ r.at = "configuring"
                                    /\ r.ws = IF op.ws # 0 /\ op.folder = op.launch.folder THEN op.ws ELSE FreshWs
                                 \/ /\ host' = Boot(AttachedHosts(c, KeyOf(c, op.launch), h), h)
                                    /\ r.at = "booting" /\ r.ws = op.ws
                              /\ On(c, t, r) /\ SameAims(r, op) /\ r.host = h
                              /\ r.live = op.live /\ r.prev = op.prev /\ r.env = op.env
                              /\ t.proc = h /\ t.att = h /\ t.env = tab[c].env /\ t.ws = tab[c].ws
                              /\ t.folder = tab[c].folder /\ t.last = tab[c].last
<1>1. At(c, i, {"start"}, "preparing") /\ WsLeft /\ UNCHANGED <<want, quit>>
  BY DEF StartPrepared
<1>2. i = 1 /\ First(c, ops[c][1], {"start"}, "preparing")
  BY <1>1, FirstAt DEF First
<1>3. PICK op : op = ops[c][1] /\ First(c, op, {"start"}, "preparing")
  BY <1>2
<1>4. CASE ~op.current
  <2>1. Settles(c, 1) /\ UNCHANGED <<tab, host>>
    BY <1>2, <1>3, <1>4 DEF StartPrepared
  <2>. QED
    BY <1>1, <1>3, <1>4, <2>1, Itself DEF Done
<1>5. CASE op.current
  <2>. DEFINE key == KeyOf(c, op.launch)
              hs(h) == AttachedHosts(c, key, h)
              a(h) == [op EXCEPT !.host = h]
              b(h) == [op EXCEPT !.host = h, !.at = "booting"]
  <2>1. PICK h \in Hosts : /\ Attaches(c, key, h)
                           /\ tab' = [tab EXCEPT ![c].proc = h, ![c].att = h]
                           /\ \/ hs(h)[h].st \in Live /\ host' = hs(h) /\ Goes(c, 1, ConfiguringIn(a(h)))
                              \/ host' = Boot(hs(h), h) /\ Goes(c, 1, b(h))
    BY <1>2, <1>3, <1>5 DEF StartPrepared
  <2>2. h \in 0..MaxHosts /\ h # 0 /\ op \in OpType /\ op.launch \in Launches
    BY <1>3 DEF Hosts, First, Fitting
  <2>. DEFINE u == [tab[c] EXCEPT !.proc = h, !.att = h]
  <2>3. /\ u \in TabType /\ u.proc = h /\ u.att = h /\ u.env = tab[c].env /\ u.ws = tab[c].ws
        /\ u.folder = tab[c].folder /\ u.last = tab[c].last /\ tab' = [tab EXCEPT ![c] = u]
    BY <2>1, <2>2, Now DEF TInv, Typed, TabType
  <2>4. PICK t \in TabType : /\ t.proc = h /\ t.att = h /\ t.env = tab[c].env /\ t.ws = tab[c].ws
                             /\ t.folder = tab[c].folder /\ t.last = tab[c].last /\ tab' = [tab EXCEPT ![c] = t]
    BY <2>3
  <2>5. CASE hs(h)[h].st \in Live /\ host' = hs(h) /\ Goes(c, 1, ConfiguringIn(a(h)))
    <3>0. /\ a(h) \in OpType /\ SameAims(a(h), op) /\ a(h).host = h /\ a(h).live = op.live /\ a(h).prev = op.prev
          /\ a(h).env = op.env /\ a(h).ws = op.ws /\ a(h).folder = op.folder
      BY <2>2 DEF OpType, SameAims
    <3>1. PICK x \in OpType : /\ x = a(h) /\ SameAims(x, op) /\ x.host = h /\ x.live = op.live /\ x.prev = op.prev
                              /\ x.env = op.env /\ x.ws = op.ws /\ x.folder = op.folder
      BY <3>0
    <3>. HIDE DEF a, u, hs
    <3>2. PICK r \in OpType : /\ r = ConfiguringIn(x) /\ SameAims(r, op) /\ r.host = h /\ r.at = "configuring"
                              /\ r.live = op.live /\ r.prev = op.prev /\ r.env = op.env
                              /\ r.ws = IF op.ws # 0 /\ op.folder = op.launch.folder THEN op.ws ELSE FreshWs
      BY <1>1, <2>2, <3>1, ConfiguringIs DEF SameAims
    <3>3. On(c, t, r)
      BY <2>4, <2>5, <3>1, <3>2 DEF On
    <3>. QED
      BY <1>1, <1>3, <1>5, <2>1, <2>4, <2>5, <3>2, <3>3 DEF hs
  <2>6. CASE host' = Boot(hs(h), h) /\ Goes(c, 1, b(h))
    <3>0. /\ b(h) \in OpType /\ SameAims(b(h), op) /\ b(h).host = h /\ b(h).live = op.live /\ b(h).prev = op.prev
          /\ b(h).env = op.env /\ b(h).ws = op.ws /\ b(h).at = "booting"
      BY <2>2 DEF OpType, SameAims, Places
    <3>1. PICK r \in OpType : /\ r = b(h) /\ SameAims(r, op) /\ r.host = h /\ r.live = op.live /\ r.prev = op.prev
                              /\ r.env = op.env /\ r.ws = op.ws /\ r.at = "booting"
      BY <3>0
    <3>. HIDE DEF b, u, a, hs
    <3>2. On(c, t, r)
      BY <2>4, <2>6, <3>1 DEF On
    <3>. QED
      BY <1>1, <1>3, <1>5, <2>1, <2>4, <2>6, <3>1, <3>2 DEF hs
  <2>. QED
    BY <2>1, <2>5, <2>6
<1>. QED
  BY <1>4, <1>5

LEMMA StartBootedDoes ==
    ASSUME TInv, NEW c \in Tabs, NEW i, StartBooted(c, i)
    PROVE  \E op : /\ First(c, op, {"start"}, "booting") /\ UNCHANGED <<want, quit>> /\ ~host[op.host].boot
                   /\ \/ /\ op.current /\ UNCHANGED host
                         /\ \E r \in OpType :
                              /\ On(c, tab[c], r) /\ SameAims(r, op) /\ r.at = "configuring" /\ r.host = op.host
                              /\ r.live = op.live /\ r.prev = op.prev /\ r.env = op.env
                              /\ r.ws = IF op.ws # 0 /\ op.folder = op.launch.folder THEN op.ws ELSE FreshWs
                      \/ ~op.current /\ RetireOutcome(c, op, host)
<1>1. At(c, i, {"start"}, "booting") /\ WsLeft /\ UNCHANGED <<want, quit>>
  BY DEF StartBooted
<1>2. i = 1 /\ First(c, ops[c][1], {"start"}, "booting")
  BY <1>1, FirstAt DEF First
<1>3. PICK op \in OpType : op = ops[c][1] /\ First(c, op, {"start"}, "booting")
  BY <1>2 DEF First
<1>4. op.launch \in Launches /\ ~host[op.host].boot
  BY <1>2, <1>3 DEF First, Fitting, StartBooted
<1>5. CASE op.current
  <2>1. PICK r \in OpType : /\ r = ConfiguringIn(op) /\ SameAims(r, op) /\ r.host = op.host /\ r.at = "configuring"
                            /\ r.live = op.live /\ r.prev = op.prev /\ r.env = op.env
                            /\ r.ws = IF op.ws # 0 /\ op.folder = op.launch.folder THEN op.ws ELSE FreshWs
    BY <1>1, <1>4, ConfiguringIs DEF SameAims
  <2>2. Goes(c, 1, r) /\ UNCHANGED <<tab, host>>
    BY <1>2, <1>3, <1>5, <2>1 DEF StartBooted
  <2>3. On(c, tab[c], r)
    BY <2>2, Itself DEF On
  <2>. QED
    BY <1>1, <1>3, <1>4, <1>5, <2>1, <2>2, <2>3
<1>6. CASE ~op.current
  <2>1. Retire(c, 1, host)
    BY <1>2, <1>3, <1>6 DEF StartBooted
  <2>. QED
    BY <1>1, <1>3, <1>4, <1>6, <2>1, RetireDoes
<1>. QED
  BY <1>5, <1>6

\* A tab that is bound to the environment of a request.
BoundTo(t, u, op) ==
    /\ t.proc = u.proc /\ t.att = u.att /\ t.env = Target(op) /\ t.ws = op.ws /\ t.folder = op.launch.folder

LEMMA StartConfiguredDoes ==
    ASSUME TInv, NEW c \in Tabs, NEW i, StartConfigured(c, i)
    PROVE  \E op : /\ First(c, op, {"start"}, "configuring") /\ UNCHANGED <<want, quit>>
                   /\ host[op.host].st = "running"
                   /\ \/ ~op.current /\ op.prev = Target(op) /\ RetireOutcome(c, op, Materialized(op))
                      \/ /\ ~op.current /\ host' = Materialized(op)
                         /\ \E r \in OpType :
                              /\ On(c, tab[c], r) /\ SameAims(r, op) /\ r.at = "unstaging" /\ r.host = op.host
                              /\ r.prev = op.prev /\ r.live = op.live /\ r.env = Target(op)
                      \/ /\ op.current /\ host' = Materialized(op)
                         /\ \E t \in TabType :
                              /\ BoundTo(t, tab[c], op)
                              /\ \/ \E r \in OpType : On(c, t, r) /\ Moved(r, op, "swapping")
                                 \/ op.prev \in {None, Target(op)} /\ t.last = op.launch /\ Done(c, t)
<1>1. At(c, i, {"start"}, "configuring") /\ UNCHANGED <<want, quit>>
  BY DEF StartConfigured
<1>2. i = 1 /\ First(c, ops[c][1], {"start"}, "configuring")
  BY <1>1, FirstAt DEF First
<1>3. PICK op \in OpType : op = ops[c][1] /\ First(c, op, {"start"}, "configuring")
  BY <1>2 DEF First
<1>4. op.launch \in Launches /\ op.host # 0 /\ op.ws # 0 /\ host[op.host].st = "running"
  BY <1>2, <1>3 DEF First, Fitting, StartConfigured
<1>5. Target(op) \in Envs
  BY <1>4, Now, MaterializedIs
<1>6. tab \in [Tabs -> TabType]
  BY DEF TInv, Typed
<1>. DEFINE r == [op EXCEPT !.at = "unstaging", !.env = Target(op)]
            q == [op EXCEPT !.at = "swapping"]
<1>7. r \in OpType /\ SameAims(r, op) /\ r.at = "unstaging" /\ r.host = op.host /\ r.prev = op.prev
      /\ r.live = op.live /\ r.env = Target(op)
  BY <1>5 DEF OpType, Places, SameAims
<1>8. q \in OpType /\ Moved(q, op, "swapping")
  BY DEF OpType, Places, SameAims, Moved
<1>9. \/ ~op.current /\ op.prev = Target(op) /\ Retire(c, 1, Materialized(op))
      \/ ~op.current /\ host' = Materialized(op) /\ Goes(c, 1, r) /\ UNCHANGED tab
      \/ op.current /\ host' = Materialized(op) /\ tab' = Bound(c, op) /\ Goes(c, 1, q)
      \/ /\ op.current /\ host' = Materialized(op) /\ tab' = Kept(c, op) /\ Settles(c, 1)
         /\ op.prev \in {None, Target(op)}
  BY <1>2, <1>3 DEF StartConfigured, Kept
<1>. HIDE DEF r, q
<1>10. CASE ~op.current /\ op.prev = Target(op) /\ Retire(c, 1, Materialized(op))
  BY <1>1, <1>3, <1>4, <1>10, RetireDoes
<1>11. CASE ~op.current /\ host' = Materialized(op) /\ Goes(c, 1, r) /\ UNCHANGED tab
  BY <1>1, <1>3, <1>4, <1>7, <1>11, Itself DEF On
<1>12. CASE op.current /\ host' = Materialized(op) /\ tab' = Bound(c, op) /\ Goes(c, 1, q)
  <2>1. PICK t \in TabType : tab' = [tab EXCEPT ![c] = t] /\ BoundTo(t, tab[c], op)
    BY <1>4, <1>6, <1>12, BoundIs DEF BoundTo
  <2>2. On(c, t, q)
    BY <1>12, <2>1 DEF On
  <2>. QED
    BY <1>1, <1>3, <1>4, <1>8, <1>12, <2>1, <2>2
<1>13. CASE /\ op.current /\ host' = Materialized(op) /\ tab' = Kept(c, op) /\ Settles(c, 1)
            /\ op.prev \in {None, Target(op)}
  <2>1. PICK t \in TabType : tab' = [tab EXCEPT ![c] = t] /\ BoundTo(t, tab[c], op) /\ t.last = op.launch
    BY <1>4, <1>6, <1>13, KeptIs DEF BoundTo
  <2>2. Done(c, t)
    BY <1>13, <2>1 DEF Done
  <2>. QED
    BY <1>1, <1>3, <1>4, <1>13, <2>1, <2>2
<1>. QED
  BY <1>9, <1>10, <1>11, <1>12, <1>13

LEMMA UnstagedDoes ==
    ASSUME TInv, NEW c \in Tabs, NEW i, Unstaged(c, i)
    PROVE  \E op : /\ First(c, op, {"start"}, "unstaging") /\ UNCHANGED <<want, quit>>
                   /\ RetireOutcome(c, op, EnvStopped(host, op.host, op.env))
<1>1. At(c, i, {"start"}, "unstaging") /\ UNCHANGED <<want, quit>>
  BY DEF Unstaged
<1>2. i = 1 /\ First(c, ops[c][1], {"start"}, "unstaging")
  BY <1>1, FirstAt DEF First
<1>3. PICK op \in OpType : op = ops[c][1] /\ First(c, op, {"start"}, "unstaging")
  BY <1>2 DEF First
<1>4. Retire(c, 1, EnvStopped(host, op.host, op.env))
  BY <1>2, <1>3 DEF Unstaged
<1>. QED
  BY <1>1, <1>3, <1>4, RetireDoes

LEMMA SwappedDoes ==
    ASSUME TInv, NEW c \in Tabs, NEW i, Swapped(c, i)
    PROVE  \E op, t : /\ First(c, op, {"start", "switch"}, "swapping") /\ UNCHANGED <<want, quit>>
                      /\ host' = EnvStopped(host, op.host, op.prev) /\ t \in TabType /\ Done(c, t)
                      /\ t.proc = tab[c].proc /\ t.att = tab[c].att /\ t.env = tab[c].env /\ t.ws = tab[c].ws
                      /\ t.folder = tab[c].folder /\ t.last = op.launch
<1>1. At(c, i, {"start", "switch"}, "swapping") /\ UNCHANGED <<want, quit>>
  BY DEF Swapped
<1>2. i = 1 /\ First(c, ops[c][1], {"start", "switch"}, "swapping")
  BY <1>1, FirstAt DEF First
<1>3. PICK op \in OpType : op = ops[c][1] /\ First(c, op, {"start", "switch"}, "swapping")
  BY <1>2 DEF First
<1>4. op.launch \in Launches
  BY <1>3 DEF First, Fitting
<1>. DEFINE t == [tab[c] EXCEPT !.last = op.launch]
<1>5. /\ t \in TabType /\ t.proc = tab[c].proc /\ t.att = tab[c].att /\ t.env = tab[c].env /\ t.ws = tab[c].ws
      /\ t.folder = tab[c].folder /\ t.last = op.launch
  BY <1>4, Now DEF TabType
<1>6. tab' = [tab EXCEPT ![c] = t] /\ Settles(c, 1) /\ host' = EnvStopped(host, op.host, op.prev)
  BY <1>2, <1>3 DEF Swapped, TInv, Typed
<1>. HIDE DEF t
<1>7. Done(c, t)
  BY <1>6 DEF Done
<1>. QED
  BY <1>1, <1>3, <1>5, <1>6, <1>7

LEMMA StartFailsDoes ==
    ASSUME TInv, NEW c \in Tabs, NEW i, StartFails(c, i)
    PROVE  \E op : /\ First(c, op, {"start"}, "configuring") /\ UNCHANGED quit
                   /\ \/ op.live = op.host /\ Done(c, tab[c]) /\ Rejects(c, 1) /\ UNCHANGED host
                      \/ /\ op.live # op.host /\ ~LastOf(c) /\ Done(c, NoTab) /\ Rejects(c, 1) /\ UNCHANGED host
                      \/ /\ op.live # op.host /\ LastOf(c) /\ host' = Halted(host, op.host) /\ UNCHANGED want
                         /\ \E r \in OpType : On(c, NoTab, r) /\ Moved(r, op, "retiring")
<1>1. At(c, i, {"start"}, "configuring") /\ UNCHANGED quit
  BY DEF StartFails
<1>2. i = 1 /\ First(c, ops[c][1], {"start"}, "configuring")
  BY <1>1, FirstAt DEF First
<1>3. PICK op \in OpType : op = ops[c][1] /\ First(c, op, {"start"}, "configuring")
  BY <1>2 DEF First
<1>. DEFINE r == [op EXCEPT !.at = "retiring"]
<1>4. r \in OpType /\ Moved(r, op, "retiring")
  BY DEF OpType, Places, SameAims, Moved
<1>5. \/ op.live = op.host /\ Rejects(c, 1) /\ UNCHANGED <<tab, host>>
      \/ op.live # op.host /\ tab' = [tab EXCEPT ![c] = NoTab] /\ ~LastOf(c) /\ Rejects(c, 1) /\ UNCHANGED host
      \/ /\ op.live # op.host /\ tab' = [tab EXCEPT ![c] = NoTab] /\ LastOf(c) /\ host' = Halted(host, op.host)
         /\ Goes(c, 1, r) /\ UNCHANGED want
  BY <1>2, <1>3 DEF StartFails
<1>6. Rejects(c, 1) => Settles(c, 1)
  BY DEF Rejects
<1>. HIDE DEF r
<1>. QED
  BY <1>1, <1>3, <1>4, <1>5, <1>6, Itself DEF Done, On

LEMMA RetiredDoes ==
    ASSUME TInv, NEW c \in Tabs, NEW i, Retired(c, i)
    PROVE  \E op : /\ First(c, op, {"start"}, "retiring") /\ UNCHANGED <<host, quit>>
                   /\ host[op.host].st # "stopping" /\ Done(c, tab[c]) /\ Rejects(c, 1)
<1>1. At(c, i, {"start"}, "retiring") /\ UNCHANGED <<tab, host, quit>>
  BY DEF Retired
<1>2. i = 1 /\ First(c, ops[c][1], {"start"}, "retiring")
  BY <1>1, FirstAt DEF First
<1>3. Rejects(c, 1) /\ host[ops[c][1].host].st # "stopping"
  BY <1>2 DEF Retired
<1>. QED
  BY <1>1, <1>2, <1>3, Itself DEF Done, Rejects

BareAs(t, l) == t.proc = 0 /\ t.att = 0 /\ t.env = None /\ t.ws = 0 /\ t.folder = None /\ t.last = l

LEMMA StopBeginsDoes ==
    ASSUME TInv, NEW c \in Tabs, NEW i, StopBegins(c, i)
    PROVE  \E op : /\ First(c, op, {"stop"}, "waiting") /\ UNCHANGED <<want, quit>>
                   /\ \/ (~op.current \/ tab[c].proc = 0) /\ Done(c, tab[c]) /\ UNCHANGED host
                      \/ /\ op.current /\ tab[c].proc # 0
                         /\ \E t \in TabType, r \in OpType :
                              /\ t.proc = tab[c].proc /\ t.att = 0 /\ t.env = tab[c].env /\ t.ws = tab[c].ws
                              /\ t.folder = tab[c].folder /\ t.last = tab[c].last
                              /\ On(c, t, r) /\ SameAims(r, op) /\ r.host = tab[c].proc /\ r.prev = tab[c].env
                              /\ r.env = op.env
                              /\ \/ LastOf(c) /\ host' = Halted(host, tab[c].proc) /\ r.at = "halting"
                                 \/ ~LastOf(c) /\ UNCHANGED host /\ r.at = "unbinding"
                      \/ /\ op.current /\ tab[c].proc # 0 /\ ~LastOf(c) /\ UNCHANGED host
                         /\ tab[c].att = 0 \/ tab[c].env = None
                         /\ \E t \in TabType : BareAs(t, tab[c].last) /\ Done(c, t)
<1>1. At(c, i, {"stop"}, "waiting") /\ UNCHANGED <<want, quit>>
  BY DEF StopBegins
<1>2. i = 1 /\ First(c, ops[c][1], {"stop"}, "waiting")
  BY FirstAt DEF First, StopBegins
<1>3. PICK op \in OpType : op = ops[c][1] /\ First(c, op, {"stop"}, "waiting")
  BY <1>2 DEF First
<1>. DEFINE x == [op EXCEPT !.host = tab[c].proc, !.prev = tab[c].env]
            a == [x EXCEPT !.at = "halting"]
            b == [x EXCEPT !.at = "unbinding"]
            t == [tab[c] EXCEPT !.att = 0]
            u == [NoTab EXCEPT !.last = tab[c].last]
<1>4. tab[c] \in TabType /\ 0 \in 0..MaxHosts
  BY Now, ProcessAssumption
<1>5. /\ t \in TabType /\ t.proc = tab[c].proc /\ t.att = 0 /\ t.env = tab[c].env /\ t.ws = tab[c].ws
      /\ t.folder = tab[c].folder /\ t.last = tab[c].last /\ [tab EXCEPT ![c].att = 0] = [tab EXCEPT ![c] = t]
  BY <1>4 DEF TabType, TInv, Typed
<1>6. u \in TabType /\ BareAs(u, tab[c].last)
  BY <1>4, NobodyTyped, TabFields DEF TabType, BareAs, NoTab
<1>7. x \in OpType /\ SameAims(x, op) /\ x.host = tab[c].proc /\ x.prev = tab[c].env /\ x.env = op.env
  BY <1>4, TabFields DEF OpType, SameAims
<1>8. \/ (~x.current \/ tab[c].proc = 0) /\ Settles(c, 1) /\ UNCHANGED <<tab, host>>
      \/ /\ x.current /\ tab[c].proc # 0 /\ LastOf(c) /\ tab' = [tab EXCEPT ![c].att = 0]
         /\ host' = Halted(host, x.host) /\ Goes(c, 1, a)
      \/ /\ x.current /\ tab[c].proc # 0 /\ ~LastOf(c) /\ tab' = [tab EXCEPT ![c].att = 0] /\ Goes(c, 1, b)
         /\ UNCHANGED host
      \/ /\ x.current /\ tab[c].proc # 0 /\ ~LastOf(c) /\ (tab[c].att = 0 \/ tab[c].env = None)
         /\ tab' = [tab EXCEPT ![c] = u] /\ Settles(c, 1) /\ UNCHANGED host
  BY <1>2, <1>3 DEF StopBegins
<1>. HIDE DEF x, t, u
<1>9. /\ a \in OpType /\ SameAims(a, op) /\ a.host = tab[c].proc /\ a.prev = tab[c].env /\ a.env = op.env /\ a.at = "halting"
      /\ b \in OpType /\ SameAims(b, op) /\ b.host = tab[c].proc /\ b.prev = tab[c].env /\ b.env = op.env /\ b.at = "unbinding"
  BY <1>7 DEF OpType, Places, SameAims
<1>. HIDE DEF a, b
<1>10. CASE (~x.current \/ tab[c].proc = 0) /\ Settles(c, 1) /\ UNCHANGED <<tab, host>>
  BY <1>1, <1>3, <1>7, <1>10, Itself DEF Done, SameAims
<1>11. CASE /\ x.current /\ tab[c].proc # 0 /\ LastOf(c) /\ tab' = [tab EXCEPT ![c].att = 0]
            /\ host' = Halted(host, x.host) /\ Goes(c, 1, a)
  <2>1. On(c, t, a) /\ op.current
    BY <1>5, <1>7, <1>11 DEF On, SameAims
  <2>. QED
    BY <1>1, <1>3, <1>5, <1>7, <1>9, <1>11, <2>1
<1>12. CASE /\ x.current /\ tab[c].proc # 0 /\ ~LastOf(c) /\ tab' = [tab EXCEPT ![c].att = 0] /\ Goes(c, 1, b)
            /\ UNCHANGED host
  <2>1. On(c, t, b) /\ op.current
    BY <1>5, <1>7, <1>12 DEF On, SameAims
  <2>. QED
    BY <1>1, <1>3, <1>5, <1>9, <1>12, <2>1
<1>13. CASE /\ x.current /\ tab[c].proc # 0 /\ ~LastOf(c) /\ (tab[c].att = 0 \/ tab[c].env = None)
            /\ tab' = [tab EXCEPT ![c] = u] /\ Settles(c, 1) /\ UNCHANGED host
  <2>1. Done(c, u) /\ op.current
    BY <1>7, <1>13 DEF Done, SameAims
  <2>. QED
    BY <1>1, <1>3, <1>6, <1>13, <2>1
<1>. QED
  BY <1>8, <1>10, <1>11, <1>12, <1>13

LEMMA StopEndsDoes ==
    ASSUME TInv, NEW c \in Tabs, NEW i, StopEnds(c, i)
    PROVE  \E op, t : /\ \/ First(c, op, {"stop"}, "halting") /\ host[op.host].st # "stopping" /\ UNCHANGED host
                         \/ First(c, op, {"stop"}, "unbinding") /\ host' = EnvStopped(host, op.host, op.prev)
                      /\ UNCHANGED <<want, quit>>
                      /\ t \in TabType /\ BareAs(t, tab[c].last) /\ Done(c, t)
<1>1. At(c, i, {"stop"}, "halting") \/ At(c, i, {"stop"}, "unbinding")
  BY DEF StopEnds
<1>2. i = 1 /\ (First(c, ops[c][1], {"stop"}, "halting") \/ First(c, ops[c][1], {"stop"}, "unbinding"))
  BY <1>1, FirstAt DEF First
<1>. DEFINE t == [tab[c] EXCEPT !.proc = 0, !.env = None, !.ws = 0, !.folder = None]
<1>3. tab[c] \in TabType /\ 0 \in 0..MaxHosts /\ 0 \in 0..MaxWs
  BY Now, ProcessAssumption
<1>4. tab[c].att = 0
  BY <1>2 DEF First, Believes
<1>5. t \in TabType /\ BareAs(t, tab[c].last)
  BY <1>3, <1>4 DEF TabType, BareAs
<1>6. /\ \/ At(c, 1, {"stop"}, "halting") /\ host[ops[c][1].host].st # "stopping" /\ UNCHANGED host
         \/ At(c, 1, {"stop"}, "unbinding") /\ host' = EnvStopped(host, ops[c][1].host, ops[c][1].prev)
      /\ tab' = [tab EXCEPT ![c] = t] /\ Settles(c, 1) /\ UNCHANGED <<want, quit>>
  BY <1>2 DEF StopEnds, TInv, Typed
<1>7. /\ At(c, 1, {"stop"}, "halting") => First(c, ops[c][1], {"stop"}, "halting")
      /\ At(c, 1, {"stop"}, "unbinding") => First(c, ops[c][1], {"stop"}, "unbinding")
  BY <1>2 DEF First, At
<1>. HIDE DEF t
<1>8. Done(c, t)
  BY <1>6 DEF Done
<1>. QED
  BY <1>5, <1>6, <1>7, <1>8

LEMMA SwitchPreparedDoes ==
    ASSUME TInv, NEW c \in Tabs, NEW i, SwitchPrepared(c, i)
    PROVE  \E op : /\ First(c, op, {"switch"}, "waiting") /\ UNCHANGED <<host, want, quit>>
                   /\ \/ tab[c].ws = 0 /\ Done(c, tab[c])
                      \/ /\ tab[c].ws # 0 /\ tab[c].proc # 0
                         /\ \E r \in OpType : /\ On(c, tab[c], r) /\ SameAims(r, op) /\ r.at = "configuring"
                                              /\ r.host = tab[c].proc /\ r.prev = tab[c].env /\ r.env = op.env
                                              /\ r.ws = tab[c].ws
<1>1. At(c, i, {"switch"}, "waiting") /\ UNCHANGED <<tab, host, want, quit>>
  BY DEF SwitchPrepared
<1>2. i = 1 /\ First(c, ops[c][1], {"switch"}, "waiting")
  BY <1>1, FirstAt DEF First
<1>3. PICK op \in OpType : op = ops[c][1] /\ First(c, op, {"switch"}, "waiting")
  BY <1>2 DEF First
<1>. DEFINE r == [op EXCEPT !.at = "configuring", !.host = tab[c].proc, !.prev = tab[c].env, !.ws = tab[c].ws]
<1>4. r \in OpType /\ SameAims(r, op) /\ r.at = "configuring" /\ r.host = tab[c].proc /\ r.prev = tab[c].env
      /\ r.env = op.env /\ r.ws = tab[c].ws
  BY Now, TabFields DEF OpType, Places, SameAims
<1>5. \/ tab[c].ws = 0 /\ Settles(c, 1)
      \/ tab[c].ws # 0 /\ Goes(c, 1, r)
  BY <1>2, <1>3 DEF SwitchPrepared
<1>6. tab[c].ws # 0 => tab[c].proc # 0
  BY <1>3 DEF First, Believes
<1>. HIDE DEF r
<1>. QED
  BY <1>1, <1>3, <1>4, <1>5, <1>6, Itself DEF Done, On

LEMMA ReboundDoes ==
    ASSUME TInv, NoResume, NEW c \in Tabs, NEW i, Rebound(c, i)
    PROVE  \E op : /\ First(c, op, {"switch"}, "configuring") /\ UNCHANGED quit /\ host[op.host].st = "running"
                   /\ host' = Materialized(op)
                   /\ want' = IF want[c] \in Launches THEN [want EXCEPT ![c] = op.launch] ELSE want
                   /\ \E t \in TabType :
                        /\ BoundTo(t, tab[c], op)
                        /\ \/ \E r \in OpType : On(c, t, r) /\ Moved(r, op, "swapping")
                           \/ op.prev \in {None, Target(op)} /\ t.last = op.launch /\ Done(c, t)
<1>1. At(c, i, {"resume", "switch"}, "configuring") /\ UNCHANGED quit
  BY DEF Rebound
<1>2. i = 1 /\ First(c, ops[c][1], {"resume", "switch"}, "configuring")
  BY <1>1, FirstAt DEF First
<1>3. 1 \in 1..Len(ops[c])
  BY <1>1, <1>2 DEF At
<1>4. PICK op \in OpType : op = ops[c][1] /\ First(c, op, {"switch"}, "configuring")
  BY <1>2, <1>3 DEF First, NoResume
<1>5. op.launch \in Launches /\ op.host # 0 /\ op.ws # 0 /\ host[op.host].st = "running" /\ op.kind = "switch"
  BY <1>2, <1>4 DEF First, Fitting, Rebound
<1>6. tab \in [Tabs -> TabType]
  BY DEF TInv, Typed
<1>. DEFINE q == [op EXCEPT !.at = "swapping"]
<1>7. q \in OpType /\ Moved(q, op, "swapping")
  BY DEF OpType, Places, SameAims, Moved
<1>8. /\ host' = Materialized(op)
      /\ want' = IF want[c] \in Launches THEN [want EXCEPT ![c] = op.launch] ELSE want
      /\ \/ tab' = Bound(c, op) /\ Goes(c, 1, q)
         \/ tab' = Kept(c, op) /\ Settles(c, 1) /\ op.prev \in {None, Target(op)}
  BY <1>2, <1>4, <1>5 DEF Rebound, Kept
<1>. HIDE DEF q
<1>9. CASE tab' = Bound(c, op) /\ Goes(c, 1, q)
  <2>1. PICK t \in TabType : tab' = [tab EXCEPT ![c] = t] /\ BoundTo(t, tab[c], op)
    BY <1>5, <1>6, <1>9, BoundIs DEF BoundTo
  <2>2. On(c, t, q)
    BY <1>9, <2>1 DEF On
  <2>. QED
    BY <1>1, <1>4, <1>5, <1>7, <1>8, <2>1, <2>2
<1>10. CASE tab' = Kept(c, op) /\ Settles(c, 1) /\ op.prev \in {None, Target(op)}
  <2>1. PICK t \in TabType : tab' = [tab EXCEPT ![c] = t] /\ BoundTo(t, tab[c], op) /\ t.last = op.launch
    BY <1>5, <1>6, <1>10, KeptIs DEF BoundTo
  <2>2. Done(c, t)
    BY <1>10, <2>1 DEF Done
  <2>. QED
    BY <1>1, <1>4, <1>5, <1>8, <1>10, <2>1, <2>2
<1>. QED
  BY <1>8, <1>9, <1>10

LEMMA RebindFailsDoes ==
    ASSUME TInv, NoResume, NEW c \in Tabs, NEW i, RebindFails(c, i)
    PROVE  \E op : /\ First(c, op, {"switch"}, "configuring") /\ UNCHANGED <<host, quit>>
                   /\ want' = [want EXCEPT ![c] = IF @ = None THEN @ ELSE Failed] /\ Done(c, tab[c])
<1>1. /\ At(c, i, {"resume", "switch"}, "configuring") /\ UNCHANGED <<tab, host, quit>>
      /\ want' = [want EXCEPT ![c] = IF @ = None THEN @ ELSE Failed] /\ Settles(c, i)
  BY DEF RebindFails
<1>2. i = 1 /\ First(c, ops[c][1], {"resume", "switch"}, "configuring")
  BY <1>1, FirstAt DEF First
<1>3. 1 \in 1..Len(ops[c])
  BY <1>1, <1>2 DEF At
<1>4. First(c, ops[c][1], {"switch"}, "configuring")
  BY <1>2, <1>3 DEF First, NoResume
<1>. QED
  BY <1>1, <1>2, <1>4, Itself DEF Done

---------------------------------------------------------------------------
(* What a request knows of its consumer's host and environment             *)

Loose(op) ==
    /\ op.at \in {"waiting", "preparing"} => op.host = 0
    /\ op.at \notin {"unstaging", "retiring"} => op.env = None

\* A consumer taken from its request lost its host, or was forgotten.
Traced(op, t) ==
    /\ op.at = "preparing" => \/ op.prev = t.env /\ op.live = t.proc
                              \/ t.proc = 0 /\ ~op.current
    /\ op.at \in {"booting", "configuring", "unstaging"} =>
         \/ t.proc = op.host /\ t.env = op.prev
         \/ t.proc = 0 /\ (op.kind = "start" => ~op.current)
    /\ op.at \in {"halting", "unbinding"} => t.proc = op.host /\ t.env = op.prev
    /\ op.at = "retiring" => t.proc = 0

Gone(c) ==
    ops[c] # <<>> /\ ops[c][1].at \in {"booting", "configuring", "unstaging"} /\ tab[c].proc = 0 =>
        Consumers(ops[c][1].host) = {}

Tracks(c) ==
    /\ \A i \in 1..Len(ops[c]) : Loose(ops[c][i])
    /\ tab[c].proc = 0 => tab[c].env = None
    /\ quit \in {"no", "draining"} /\ (ops[c] # <<>> => ops[c][1].at \notin {"halting", "unbinding"}) =>
         tab[c].att = tab[c].proc
    /\ ops[c] # <<>> => Traced(ops[c][1], tab[c])
    /\ Gone(c)

LEMMA DoneTracks ==
    ASSUME TInv, NEW c \in Tabs, Tracks(c), ops[c] # <<>>, NEW t \in TabType, Done(c, t), UNCHANGED quit,
           t.proc = 0 => t.env = None, quit \in {"no", "draining"} => t.att = t.proc
    PROVE  Tracks(c)'
<1>1. tab'[c] = t
  BY DEF Done, TInv, Typed
<1>2. /\ \A i \in 1..Len(ops'[c]) : ops'[c][i] = ops[c][i + 1] /\ i + 1 \in 1..Len(ops[c])
      /\ ops'[c] # <<>> => ops'[c][1].at = "waiting"
  BY SettlesFirst DEF Done
<1>3. \A i \in 1..Len(ops'[c]) : Loose(ops'[c][i])
  BY <1>2 DEF Tracks
<1>4. ops'[c] # <<>> => Traced(ops'[c][1], t)
  BY <1>2 DEF Traced
<1>5. Gone(c)'
  BY <1>2 DEF Gone
<1>. QED
  BY <1>1, <1>3, <1>4, <1>5 DEF Tracks

LEMMA OnTracks ==
    ASSUME TInv, NEW c \in Tabs, Tracks(c), ops[c] # <<>>, NEW t \in TabType, NEW r \in OpType, On(c, t, r),
           UNCHANGED quit, t.proc = 0 => t.env = None, Loose(r), Traced(r, t),
           quit \in {"no", "draining"} /\ r.at \notin {"halting", "unbinding"} => t.att = t.proc,
           r.at \in {"booting", "configuring", "unstaging"} /\ t.proc = 0 => Consumers(r.host)' = {}
    PROVE  Tracks(c)'
<1>1. tab'[c] = t
  BY DEF On, TInv, Typed
<1>2. /\ ops'[c] # <<>> /\ ops'[c][1] = r /\ Len(ops'[c]) = Len(ops[c])
      /\ \A i \in 1..Len(ops[c]) : i # 1 => ops'[c][i] = ops[c][i]
  BY GoesFirst DEF On
<1>3. \A i \in 1..Len(ops'[c]) : Loose(ops'[c][i])
  BY <1>2 DEF Tracks
<1>4. Gone(c)'
  BY <1>1, <1>2 DEF Gone
<1>. QED
  BY <1>1, <1>2, <1>3, <1>4 DEF Tracks

LEMMA FirstTracks ==
    ASSUME TInv, NEW c \in Tabs, Tracks(c), NEW op, NEW kinds, NEW place, First(c, op, kinds, place)
    PROVE  /\ op \in OpType /\ Fitting(op) /\ op.kind \in kinds /\ op.at = place /\ ops[c] # <<>> /\ op = ops[c][1]
           /\ Loose(op) /\ Traced(op, tab[c]) /\ tab[c] \in TabType
           /\ place \in {"booting", "configuring", "unstaging"} /\ tab[c].proc = 0 => Consumers(op.host) = {}
           /\ op.at \notin {"waiting", "preparing"} => op.host # 0 /\ op.host \in Hosts
           /\ tab[c].proc = 0 => tab[c].env = None
           /\ quit \in {"no", "draining"} /\ place \notin {"halting", "unbinding"} => tab[c].att = tab[c].proc
<1>1. ops[c] # <<>> => 1 \in 1..Len(ops[c])
  BY Now, QueueIs
<1>2. op.at \notin {"waiting", "preparing"} => op.host # 0 /\ op.host \in Hosts
  BY OpFields DEF First, Fitting
<1>. QED
  BY <1>1, <1>2, Now DEF First, Tracks, Gone

LEMMA RetireTracks ==
    ASSUME TInv, NEW c \in Tabs, Tracks(c), NEW op,
           NEW place \in {"booting", "configuring", "unstaging"}, First(c, op, {"start"}, place),
           NEW hs, RetireOutcome(c, op, hs), UNCHANGED quit
    PROVE  Tracks(c)' /\ (tab'[c] = tab[c] \/ tab'[c].att = 0)
<1>1. /\ op \in OpType /\ op.kind = "start" /\ op.at = place /\ ops[c] # <<>> /\ Traced(op, tab[c])
      /\ tab[c] \in TabType /\ op.host # 0 /\ (tab[c].proc = 0 => tab[c].env = None)
      /\ quit \in {"no", "draining"} => tab[c].att = tab[c].proc
  BY FirstTracks
<1>2. CASE Done(c, tab[c])
  <2>1. tab'[c] = tab[c]
    BY <1>2 DEF Done, TInv, Typed
  <2>. QED
    BY <1>1, <1>2, <2>1, DoneTracks
<1>3. ASSUME NEW t \in TabType, op.prev = None, tab[c].proc = op.host, t.proc = 0, t.att = 0, t.env = tab[c].env,
             \/ Done(c, t)
             \/ \E r \in OpType : On(c, t, r) /\ Moved(r, op, "retiring")
      PROVE  Tracks(c)' /\ tab'[c].att = 0
  <2>1. t.env = None
    BY <1>1, <1>3 DEF Traced
  <2>2. CASE Done(c, t)
    BY <1>1, <1>3, <2>1, <2>2, DoneTracks DEF Done, TInv, Typed
  <2>3. ASSUME NEW r \in OpType, On(c, t, r), Moved(r, op, "retiring") PROVE Tracks(c)' /\ tab'[c].att = 0
    <3>1. Loose(r) /\ Traced(r, t)
      BY <1>3, <2>3 DEF Moved, Loose, Traced
    <3>2. tab'[c] = t
      BY <2>3 DEF On, TInv, Typed
    <3>. QED
      BY <1>1, <1>3, <2>1, <2>3, <3>1, <3>2, OnTracks DEF Moved
  <2>. QED
    BY <1>3, <2>2, <2>3
<1>. QED
  BY <1>2, <1>3 DEF RetireOutcome, Done, TInv, Typed

LEMMA StartBeginsTracks == ASSUME TInv, NEW c \in Tabs, Tracks(c), NEW i, StartBegins(c, i) PROVE Tracks(c)'
<1>1. PICK op : /\ First(c, op, {"start"}, "waiting") /\ UNCHANGED quit
                /\ \/ Done(c, tab[c])
                   \/ \E r \in OpType : /\ On(c, tab[c], r) /\ r.at = "preparing" /\ r.host = op.host
                                        /\ r.env = op.env /\ r.prev = tab[c].env /\ r.live = tab[c].proc
  BY StartBeginsDoes
<1>2. /\ ops[c] # <<>> /\ op.at = "waiting" /\ Loose(op) /\ tab[c] \in TabType /\ (tab[c].proc = 0 => tab[c].env = None)
      /\ quit \in {"no", "draining"} => tab[c].att = tab[c].proc
  BY <1>1, FirstTracks
<1>3. CASE Done(c, tab[c])
  BY <1>1, <1>2, <1>3, DoneTracks
<1>4. ASSUME NEW r \in OpType, On(c, tab[c], r), r.at = "preparing", r.host = op.host,
             r.env = op.env, r.prev = tab[c].env, r.live = tab[c].proc
      PROVE  Tracks(c)'
  <2>1. Loose(r) /\ Traced(r, tab[c])
    BY <1>2, <1>4 DEF Loose, Traced
  <2>. QED
    BY <1>1, <1>2, <1>4, <2>1, OnTracks
<1>. QED
  BY <1>1, <1>3, <1>4

LEMMA StartPreparedTracks == ASSUME TInv, NEW c \in Tabs, Tracks(c), NEW i, StartPrepared(c, i) PROVE Tracks(c)'
<1>1. PICK op : /\ First(c, op, {"start"}, "preparing") /\ UNCHANGED quit
                /\ \/ Done(c, tab[c])
                   \/ op.current /\ \E h \in Hosts, t \in TabType, r \in OpType :
                        /\ On(c, t, r) /\ r.at \in {"booting", "configuring"} /\ r.host = h
                        /\ r.prev = op.prev /\ r.env = op.env /\ t.proc = h /\ t.att = h /\ t.env = tab[c].env
  BY StartPreparedDoes
<1>2. /\ ops[c] # <<>> /\ op.at = "preparing" /\ Loose(op) /\ Traced(op, tab[c]) /\ tab[c] \in TabType
      /\ (tab[c].proc = 0 => tab[c].env = None)
      /\ quit \in {"no", "draining"} => tab[c].att = tab[c].proc
  BY <1>1, FirstTracks
<1>3. CASE Done(c, tab[c])
  BY <1>1, <1>2, <1>3, DoneTracks
<1>4. ASSUME NEW h \in Hosts, NEW t \in TabType, NEW r \in OpType, op.current,
             On(c, t, r), r.at \in {"booting", "configuring"}, r.host = h,
             r.prev = op.prev, r.env = op.env, t.proc = h, t.att = h, t.env = tab[c].env
      PROVE  Tracks(c)'
  <2>1. h # 0
    BY DEF Hosts
  <2>2. Loose(r) /\ Traced(r, t)
    BY <1>2, <1>4, <2>1 DEF Loose, Traced
  <2>. QED
    BY <1>1, <1>2, <1>4, <2>1, <2>2, OnTracks
<1>. QED
  BY <1>1, <1>3, <1>4

\* The consumers of a host are those of before while nobody moves.
LEMMA SameConsumers ==
    ASSUME TInv, NEW c \in Tabs, NEW t \in TabType, tab' = [tab EXCEPT ![c] = t], t.att = tab[c].att, NEW h
    PROVE  Consumers(h)' = Consumers(h)
  BY DEF Consumers, TInv, Typed

LEMMA StartBootedTracks == ASSUME TInv, NEW c \in Tabs, Tracks(c), NEW i, StartBooted(c, i) PROVE Tracks(c)'
<1>1. PICK op : /\ First(c, op, {"start"}, "booting") /\ UNCHANGED quit
                /\ \/ \E r \in OpType : /\ On(c, tab[c], r) /\ SameAims(r, op) /\ r.at = "configuring" /\ r.host = op.host
                                        /\ r.prev = op.prev /\ r.env = op.env
                   \/ RetireOutcome(c, op, host)
  BY StartBootedDoes
<1>2. /\ ops[c] # <<>> /\ op.at = "booting" /\ Loose(op) /\ Traced(op, tab[c]) /\ tab[c] \in TabType
      /\ (tab[c].proc = 0 => tab[c].env = None /\ Consumers(op.host) = {})
      /\ quit \in {"no", "draining"} => tab[c].att = tab[c].proc
  BY <1>1, FirstTracks
<1>3. CASE RetireOutcome(c, op, host)
  BY <1>1, <1>3, RetireTracks
<1>4. ASSUME NEW r \in OpType, On(c, tab[c], r), SameAims(r, op), r.at = "configuring", r.host = op.host,
             r.prev = op.prev, r.env = op.env
      PROVE  Tracks(c)'
  <2>1. Loose(r) /\ Traced(r, tab[c])
    BY <1>2, <1>4 DEF Loose, Traced, SameAims
  <2>2. Consumers(op.host)' = Consumers(op.host)
    BY <1>2, <1>4, SameConsumers DEF On
  <2>. QED
    BY <1>1, <1>2, <1>4, <2>1, <2>2, OnTracks
<1>. QED
  BY <1>1, <1>3, <1>4

LEMMA StartConfiguredTracks == ASSUME TInv, NEW c \in Tabs, Tracks(c), NEW i, StartConfigured(c, i) PROVE Tracks(c)'
<1>1. PICK op : /\ First(c, op, {"start"}, "configuring") /\ UNCHANGED quit
                /\ \/ RetireOutcome(c, op, Materialized(op))
                   \/ \E r \in OpType : /\ On(c, tab[c], r) /\ SameAims(r, op) /\ r.at = "unstaging" /\ r.host = op.host
                                        /\ r.prev = op.prev
                   \/ op.current /\ \E t \in TabType :
                        /\ BoundTo(t, tab[c], op)
                        /\ (\E r \in OpType : On(c, t, r) /\ Moved(r, op, "swapping")) \/ Done(c, t)
  BY StartConfiguredDoes
<1>0. First(c, op, {"start"}, "configuring")
  BY <1>1
<1>2. /\ ops[c] # <<>> /\ op.at = "configuring" /\ op.kind = "start" /\ Loose(op) /\ Traced(op, tab[c]) /\ tab[c] \in TabType
      /\ (tab[c].proc = 0 => tab[c].env = None /\ Consumers(op.host) = {}) /\ op.host # 0
      /\ quit \in {"no", "draining"} => tab[c].att = tab[c].proc
  BY <1>0, FirstTracks
<1>3. CASE RetireOutcome(c, op, Materialized(op))
  BY <1>1, <1>3, RetireTracks
<1>4. ASSUME NEW r \in OpType, On(c, tab[c], r), SameAims(r, op), r.at = "unstaging", r.host = op.host, r.prev = op.prev
      PROVE  Tracks(c)'
  <2>1. Loose(r) /\ Traced(r, tab[c])
    BY <1>2, <1>4 DEF Loose, Traced, SameAims
  <2>2. Consumers(op.host)' = Consumers(op.host)
    BY <1>2, <1>4, SameConsumers DEF On
  <2>. QED
    BY <1>1, <1>2, <1>4, <2>1, <2>2, OnTracks
<1>5. ASSUME op.current, NEW t \in TabType, BoundTo(t, tab[c], op) PROVE
        /\ Done(c, t) => Tracks(c)'
        /\ \A r \in OpType : On(c, t, r) /\ Moved(r, op, "swapping") => Tracks(c)'
  <2>1. t.proc # 0 /\ (quit \in {"no", "draining"} => t.att = t.proc)
    BY <1>2, <1>5 DEF Traced, BoundTo
  <2>2. Done(c, t) => Tracks(c)'
    BY <1>1, <1>2, <2>1, DoneTracks
  <2>3. ASSUME NEW r \in OpType, On(c, t, r), Moved(r, op, "swapping") PROVE Tracks(c)'
    <3>1. Loose(r) /\ Traced(r, t)
      BY <1>2, <2>3 DEF Moved, Loose, Traced
    <3>. QED
      BY <1>1, <1>2, <2>1, <2>3, <3>1, OnTracks DEF Moved
  <2>. QED
    BY <2>2, <2>3
<1>. QED
  BY <1>1, <1>3, <1>4, <1>5

LEMMA UnstagedTracks == ASSUME TInv, NEW c \in Tabs, Tracks(c), NEW i, Unstaged(c, i) PROVE Tracks(c)'
<1>1. PICK op : First(c, op, {"start"}, "unstaging") /\ UNCHANGED quit /\ RetireOutcome(c, op, EnvStopped(host, op.host, op.env))
  BY UnstagedDoes
<1>. QED
  BY <1>1, RetireTracks

LEMMA SettledTracks ==
    ASSUME TInv, NEW c \in Tabs, Tracks(c), NEW op, NEW kinds, NEW place, place \notin {"halting", "unbinding"},
           First(c, op, kinds, place), UNCHANGED quit,
           NEW t \in TabType, Done(c, t),
           \/ t.proc = tab[c].proc /\ t.att = tab[c].att /\ t.env = tab[c].env
           \/ t.proc = 0 /\ t.att = 0 /\ t.env = None
    PROVE  Tracks(c)'
<1>1. /\ ops[c] # <<>> /\ (tab[c].proc = 0 => tab[c].env = None)
      /\ quit \in {"no", "draining"} => tab[c].att = tab[c].proc
  BY FirstTracks
<1>. QED
  BY <1>1, DoneTracks

LEMMA SwappedTracks == ASSUME TInv, NEW c \in Tabs, Tracks(c), NEW i, Swapped(c, i) PROVE Tracks(c)'
<1>1. PICK op, t : /\ First(c, op, {"start", "switch"}, "swapping") /\ UNCHANGED quit /\ t \in TabType /\ Done(c, t)
                   /\ t.proc = tab[c].proc /\ t.att = tab[c].att /\ t.env = tab[c].env
  BY SwappedDoes
<1>. QED
  BY <1>1, SettledTracks

LEMMA StartFailsTracks == ASSUME TInv, NEW c \in Tabs, Tracks(c), NEW i, StartFails(c, i) PROVE Tracks(c)'
<1>1. PICK op : /\ First(c, op, {"start"}, "configuring") /\ UNCHANGED quit
                /\ \/ Done(c, tab[c]) \/ Done(c, NoTab)
                   \/ \E r \in OpType : On(c, NoTab, r) /\ Moved(r, op, "retiring")
  BY StartFailsDoes
<1>2. tab[c] \in TabType /\ NoTab \in TabType /\ NoTab.att = 0 /\ NoTab.proc = 0 /\ NoTab.env = None
  BY Now, NobodyTyped
<1>3. ASSUME NEW r \in OpType, On(c, NoTab, r), Moved(r, op, "retiring") PROVE Tracks(c)'
  <2>1. Loose(r) /\ Traced(r, NoTab) /\ ops[c] # <<>>
    BY <1>2, <1>3, <1>1, FirstTracks DEF Loose, Traced, Moved
  <2>. QED
    BY <1>1, <1>2, <1>3, <2>1, OnTracks DEF Moved
<1>. QED
  BY <1>1, <1>2, <1>3, SettledTracks

LEMMA RetiredTracks == ASSUME TInv, NEW c \in Tabs, Tracks(c), NEW i, Retired(c, i) PROVE Tracks(c)'
<1>1. PICK op : First(c, op, {"start"}, "retiring") /\ UNCHANGED quit /\ Done(c, tab[c])
  BY RetiredDoes
<1>. QED
  BY <1>1, Now, SettledTracks

LEMMA StopBeginsTracks == ASSUME TInv, NEW c \in Tabs, Tracks(c), NEW i, StopBegins(c, i) PROVE Tracks(c)'
<1>1. PICK op : /\ First(c, op, {"stop"}, "waiting") /\ UNCHANGED quit
                /\ \/ Done(c, tab[c])
                   \/ /\ tab[c].proc # 0
                      /\ \E t \in TabType, r \in OpType :
                           /\ t.proc = tab[c].proc /\ t.att = 0 /\ t.env = tab[c].env
                           /\ On(c, t, r) /\ r.host = tab[c].proc /\ r.prev = tab[c].env
                           /\ r.env = op.env /\ r.at \in {"halting", "unbinding"}
                   \/ \E t \in TabType : BareAs(t, tab[c].last) /\ Done(c, t)
  BY StopBeginsDoes
<1>2. ops[c] # <<>> /\ op.at = "waiting" /\ Loose(op) /\ tab[c] \in TabType
  BY <1>1, FirstTracks
<1>3. ASSUME tab[c].proc # 0, NEW t \in TabType, NEW r \in OpType,
             t.proc = tab[c].proc, t.att = 0, t.env = tab[c].env,
             On(c, t, r), r.host = tab[c].proc, r.prev = tab[c].env,
             r.env = op.env, r.at \in {"halting", "unbinding"}
      PROVE  Tracks(c)'
  <2>1. Loose(r) /\ Traced(r, t)
    BY <1>2, <1>3 DEF Loose, Traced
  <2>. QED
    BY <1>1, <1>2, <1>3, <2>1, OnTracks
<1>4. CASE Done(c, tab[c])
  BY <1>1, <1>2, <1>4, SettledTracks
<1>5. ASSUME NEW t \in TabType, BareAs(t, tab[c].last), Done(c, t) PROVE Tracks(c)'
  BY <1>1, <1>2, <1>5, SettledTracks DEF BareAs
<1>. QED
  BY <1>1, <1>3, <1>4, <1>5

LEMMA StopEndsTracks == ASSUME TInv, NEW c \in Tabs, Tracks(c), NEW i, StopEnds(c, i) PROVE Tracks(c)'
<1>1. PICK op, t : /\ ops[c] # <<>> /\ UNCHANGED quit /\ t \in TabType /\ BareAs(t, tab[c].last) /\ Done(c, t)
  BY StopEndsDoes DEF First
<1>. QED
  BY <1>1, DoneTracks DEF BareAs

LEMMA SwitchPreparedTracks == ASSUME TInv, NEW c \in Tabs, Tracks(c), NEW i, SwitchPrepared(c, i) PROVE Tracks(c)'
<1>1. PICK op : /\ First(c, op, {"switch"}, "waiting") /\ UNCHANGED quit
                /\ \/ Done(c, tab[c])
                   \/ /\ tab[c].proc # 0
                      /\ \E r \in OpType : /\ On(c, tab[c], r) /\ r.at = "configuring"
                                           /\ r.host = tab[c].proc /\ r.prev = tab[c].env /\ r.env = op.env
  BY SwitchPreparedDoes
<1>2. /\ ops[c] # <<>> /\ op.at = "waiting" /\ Loose(op) /\ tab[c] \in TabType
      /\ quit \in {"no", "draining"} => tab[c].att = tab[c].proc
  BY <1>1, FirstTracks
<1>3. ASSUME tab[c].proc # 0, NEW r \in OpType, On(c, tab[c], r), r.at = "configuring", r.host = tab[c].proc,
             r.prev = tab[c].env, r.env = op.env
      PROVE  Tracks(c)'
  <2>1. Loose(r) /\ Traced(r, tab[c])
    BY <1>2, <1>3 DEF Loose, Traced
  <2>. QED
    BY <1>1, <1>2, <1>3, <2>1, OnTracks
<1>4. CASE Done(c, tab[c])
  BY <1>1, <1>2, <1>4, SettledTracks
<1>. QED
  BY <1>1, <1>3, <1>4

\* A host that answers a request of its consumer still has that consumer.
LEMMA AnswersOwn ==
    ASSUME TInv, LInv, NEW c \in Tabs, Tracks(c), NEW op, NEW kinds, First(c, op, kinds, "configuring"),
           host[op.host].st = "running"
    PROVE  tab[c].proc # 0 /\ tab[c].proc = op.host /\ tab[c].env = op.prev
<1>1. /\ op.at = "configuring" /\ Traced(op, tab[c]) /\ op.host # 0 /\ op.host \in Hosts
      /\ tab[c].proc = 0 => Consumers(op.host) = {}
  BY FirstTracks
<1>2. Consumers(op.host) # {}
  BY <1>1 DEF LInv, Healthy
<1>. QED
  BY <1>1, <1>2 DEF Traced

LEMMA ReboundTracks == ASSUME TInv, LInv, NEW c \in Tabs, Tracks(c), NEW i, Rebound(c, i) PROVE Tracks(c)'
<1>1. PICK op : /\ First(c, op, {"switch"}, "configuring") /\ UNCHANGED quit /\ host[op.host].st = "running"
                /\ \E t \in TabType :
                     /\ BoundTo(t, tab[c], op)
                     /\ (\E r \in OpType : On(c, t, r) /\ Moved(r, op, "swapping")) \/ Done(c, t)
  BY ReboundDoes DEF LInv
<1>2. /\ ops[c] # <<>> /\ op.at = "configuring" /\ Loose(op)
      /\ quit \in {"no", "draining"} => tab[c].att = tab[c].proc
  BY <1>1, FirstTracks
<1>3. tab[c].proc # 0
  BY <1>1, AnswersOwn
<1>4. PICK t \in TabType : /\ BoundTo(t, tab[c], op)
                           /\ (\E r \in OpType : On(c, t, r) /\ Moved(r, op, "swapping")) \/ Done(c, t)
  BY <1>1
<1>5. t.proc # 0 /\ (quit \in {"no", "draining"} => t.att = t.proc)
  BY <1>2, <1>3, <1>4 DEF BoundTo
<1>6. CASE Done(c, t)
  BY <1>1, <1>2, <1>5, <1>6, DoneTracks
<1>7. ASSUME NEW r \in OpType, On(c, t, r), Moved(r, op, "swapping") PROVE Tracks(c)'
  <2>1. Loose(r) /\ Traced(r, t)
    BY <1>2, <1>7 DEF Moved, Loose, Traced
  <2>. QED
    BY <1>1, <1>2, <1>5, <1>7, <2>1, OnTracks DEF Moved
<1>. QED
  BY <1>4, <1>6, <1>7

LEMMA RebindFailsTracks == ASSUME TInv, LInv, NEW c \in Tabs, Tracks(c), NEW i, RebindFails(c, i) PROVE Tracks(c)'
<1>1. PICK op : First(c, op, {"switch"}, "configuring") /\ UNCHANGED quit /\ Done(c, tab[c])
  BY RebindFailsDoes DEF LInv
<1>. QED
  BY <1>1, Now, SettledTracks

LEMMA OpStepTracks == ASSUME TInv, LInv, NEW c \in Tabs, Tracks(c), NEW i, OpStep(c, i) PROVE Tracks(c)'
<1>1. ~ResumePrepared(c, i) /\ ~Withdrawn(c, i)
  BY DEF LInv, NoResume, ResumePrepared, Withdrawn, At
<1>. QED
  BY <1>1, StartBeginsTracks, StartPreparedTracks, StartBootedTracks, StartConfiguredTracks, UnstagedTracks,
     SwappedTracks, StartFailsTracks, RetiredTracks, StopBeginsTracks, StopEndsTracks, SwitchPreparedTracks,
     ReboundTracks, RebindFailsTracks DEF OpStep

\* No step but the end of a start's preparation has a consumer join a host,
\* and a host that nobody uses is one that no request knows of.
Keeps(c) == \E t \in TabType : tab' = [tab EXCEPT ![c] = t] /\ t.att \in {tab[c].att, 0}

LEMMA RetireKeeps == ASSUME TInv, NEW c \in Tabs, NEW op, NEW hs, RetireOutcome(c, op, hs) PROVE Keeps(c)
  BY Now DEF RetireOutcome, Keeps, Done, On

LEMMA OpStepKeeps ==
    ASSUME TInv, NoResume, NEW c \in Tabs, NEW i, OpStep(c, i), ~StartPrepared(c, i) PROVE Keeps(c)
<1>1. ~ResumePrepared(c, i) /\ ~Withdrawn(c, i)
  BY DEF NoResume, ResumePrepared, Withdrawn, At
<1>2. tab[c] \in TabType /\ NoTab \in TabType /\ NoTab.att = 0
  BY Now, NobodyTyped
<1>3. StartBegins(c, i) => Keeps(c)
  BY <1>2, StartBeginsDoes DEF Keeps, Done, On
<1>4. StartBooted(c, i) => Keeps(c)
  BY <1>2, StartBootedDoes, RetireKeeps DEF Keeps, Done, On
<1>5. StartConfigured(c, i) => Keeps(c)
  BY <1>2, StartConfiguredDoes, RetireKeeps DEF Keeps, Done, On, BoundTo
<1>6. Unstaged(c, i) => Keeps(c)
  BY UnstagedDoes, RetireKeeps
<1>7. Swapped(c, i) => Keeps(c)
  BY SwappedDoes DEF Keeps, Done
<1>8. StartFails(c, i) => Keeps(c)
  BY <1>2, StartFailsDoes DEF Keeps, Done, On
<1>9. Retired(c, i) => Keeps(c)
  BY <1>2, RetiredDoes DEF Keeps, Done
<1>10. StopBegins(c, i) => Keeps(c)
  BY <1>2, StopBeginsDoes DEF Keeps, Done, On, BareAs
<1>11. StopEnds(c, i) => Keeps(c)
  BY StopEndsDoes DEF Keeps, Done, BareAs
<1>12. SwitchPrepared(c, i) => Keeps(c)
  BY <1>2, SwitchPreparedDoes DEF Keeps, Done, On
<1>13. Rebound(c, i) => Keeps(c)
  BY ReboundDoes DEF Keeps, Done, On, BoundTo
<1>14. RebindFails(c, i) => Keeps(c)
  BY <1>2, RebindFailsDoes DEF Keeps, Done
<1>. QED
  BY <1>1, <1>3, <1>4, <1>5, <1>6, <1>7, <1>8, <1>9, <1>10, <1>11, <1>12, <1>13, <1>14 DEF OpStep

LEMMA OpStepOthers ==
    ASSUME TInv, NEW c \in Tabs, NEW i, OpStep(c, i)
    PROVE  /\ UNCHANGED quit /\ tab'[c] \in TabType
           /\ \A d \in Tabs : d # c => tab'[d] = tab[d] /\ ops'[d] = ops[d]
<1>1. PICK t \in TabType : tab' = [tab EXCEPT ![c] = t]
  BY OpStepMoves DEF Moves
<1>2. UNCHANGED quit /\ \A d \in Tabs : d # c => ops'[d] = ops[d]
  BY OpStepFirst, OpStepTyped, ProceedsKinds
<1>. QED
  BY <1>1, <1>2 DEF TInv, Typed

LEMMA JoinsFresh ==
    ASSUME TInv, NoResume, NEW c \in Tabs, NEW i, OpStep(c, i), NEW g \in Hosts, Consumers(g) = {}
    PROVE  Consumers(g)' = {} \/ Fresh(g)
<1>1. CASE StartPrepared(c, i)
  <2>1. PICK op : /\ First(c, op, {"start"}, "preparing")
                  /\ \/ Done(c, tab[c])
                     \/ \E h \in Hosts, t \in TabType, r \in OpType :
                          Attaches(c, KeyOf(c, op.launch), h) /\ On(c, t, r) /\ t.att = h
    BY <1>1, StartPreparedDoes
  <2>2. CASE Done(c, tab[c])
    BY <2>2 DEF Done, Consumers, TInv, Typed
  <2>3. ASSUME NEW h \in Hosts, NEW t \in TabType, NEW r \in OpType,
               Attaches(c, KeyOf(c, op.launch), h), On(c, t, r), t.att = h
        PROVE  Consumers(g)' = {} \/ Fresh(g)
    <3>1. \/ h = tab[c].att \/ Consumers(h) # {} \/ Fresh(h)
      BY <2>3, AttachesIs
    <3>2. \A d \in Tabs : tab'[d] = IF d = c THEN t ELSE tab[d]
      BY <2>3 DEF On, TInv, Typed
    <3>. QED
      BY <2>3, <3>1, <3>2 DEF Consumers
  <2>. QED
    BY <2>1, <2>2, <2>3
<1>2. CASE ~StartPrepared(c, i)
  <2>1. PICK t \in TabType : tab' = [tab EXCEPT ![c] = t] /\ t.att \in {tab[c].att, 0}
    BY <1>2, OpStepKeeps DEF Keeps
  <2>2. g # 0
    BY DEF Hosts
  <2>. QED
    BY <2>1, <2>2 DEF Consumers, TInv, Typed
<1>. QED
  BY <1>1, <1>2

TrInv == \A c \in Tabs : Tracks(c)

LEMMA OpStepTracksAll ==
    ASSUME TInv, LInv, TrInv, NEW c \in Tabs, NEW i, OpStep(c, i) PROVE TrInv'
<1>1. /\ UNCHANGED quit
      /\ \A d \in Tabs : d # c => tab'[d] = tab[d] /\ ops'[d] = ops[d]
  BY OpStepOthers
<1>2. ASSUME NEW d \in Tabs, d # c PROVE Tracks(d)'
  <2>1. tab'[d] = tab[d] /\ ops'[d] = ops[d] /\ Tracks(d)
    BY <1>1, <1>2 DEF TrInv
  <2>2. Gone(d)'
    <3>1. PICK op : op = ops[d][1]
      OBVIOUS
    <3>2. SUFFICES ASSUME ops[d] # <<>>, op.at \in {"booting", "configuring", "unstaging"}, tab[d].proc = 0
                   PROVE  Consumers(op.host)' = {}
      BY <2>1, <3>1 DEF Gone
    <3>3. Consumers(op.host) = {}
      BY <2>1, <3>1, <3>2 DEF Tracks, Gone
    <3>4. 1 \in 1..Len(ops[d]) /\ op \in OpType /\ Fitting(op)
      BY <3>1, <3>2, Now, QueueIs
    <3>5. op.host \in Hosts /\ ~Fresh(op.host)
      BY <3>1, <3>2, <3>4, OpFields DEF Fitting, Fresh, Used
    <3>. QED
      BY <3>3, <3>5, JoinsFresh DEF LInv
  <2>. QED
    BY <1>1, <2>1, <2>2 DEF Tracks
<1>3. Tracks(c)'
  BY OpStepTracks DEF TrInv
<1>. QED
  BY <1>2, <1>3 DEF TrInv

LEMMA AskedIs ==
    ASSUME TInv, NEW c \in Tabs, NEW kind \in Kinds, NEW l, Asked(c, kind, l)
    PROVE  /\ \A d \in Tabs : d # c => ops'[d] = ops[d]
           /\ ops'[c] # <<>> /\ Len(ops'[c]) = Len(ops[c]) + 1 /\ ops'[c][Len(ops[c]) + 1] = Op(kind, l)
           /\ \A i \in 1..Len(ops[c]) :
                /\ SameButCurrent(ops'[c][i], ops[c][i])
                /\ IF kind \in {"start", "stop"} THEN ~ops'[c][i].current ELSE ops'[c][i].current = ops[c][i].current
<1>. DEFINE q == IF kind \in {"start", "stop"} THEN Superseded(c) ELSE ops[c]
            r == Op(kind, l)
<1>1. ops[c] \in Queues /\ Len(ops[c]) \in Nat /\ ops[c] \in Seq(OpType)
  BY Now, QueueIs
<1>2. ops'[c] = Append(q, r) /\ \A d \in Tabs : d # c => ops'[d] = ops[d]
  BY DEF Asked, TInv, Typed
<1>3. /\ q \in Seq(OpType) /\ Len(q) = Len(ops[c])
      /\ \A i \in 1..Len(ops[c]) :
           /\ SameButCurrent(q[i], ops[c][i])
           /\ IF kind \in {"start", "stop"} THEN ~q[i].current ELSE q[i].current = ops[c][i].current
  <2>1. Superseded(c) \in Seq(OpType) /\ Len(Superseded(c)) = Len(ops[c])
        /\ \A i \in 1..Len(ops[c]) : SameButCurrent(Superseded(c)[i], ops[c][i]) /\ ~Superseded(c)[i].current
    BY <1>1, QueueSuperseded, QueueIs DEF TInv
  <2>2. \A i \in 1..Len(ops[c]) : SameButCurrent(ops[c][i], ops[c][i])
    BY DEF SameButCurrent
  <2>3. CASE kind \in {"start", "stop"}
    <3>1. q = Superseded(c)
      BY <2>3
    <3>. QED
      BY <2>1, <2>3, <3>1
  <2>4. CASE kind \notin {"start", "stop"}
    <3>1. q = ops[c]
      BY <2>4
    <3>. QED
      BY <1>1, <2>2, <2>4, <3>1
  <2>. QED
    BY <2>3, <2>4
<1>. HIDE DEF q, r
<1>5. Len(Append(q, r)) = Len(q) + 1 /\ Append(q, r)[Len(q) + 1] = r /\ Append(q, r) # <<>>
      /\ \A i \in 1..Len(q) : Append(q, r)[i] = q[i]
  <2>1. PICK S : S = OpType \cup {r}
    OBVIOUS
  <2>2. Len(q) \in Nat /\ \A i \in 1..Len(q) : q[i] \in S
    BY <1>3, <2>1
  <2>3. q \in Seq(S) /\ r \in S
    BY <1>3, <2>1, <2>2
  <2>. QED
    BY <2>3
<1>6. \A i \in 1..Len(ops[c]) : ops'[c][i] = q[i]
  BY <1>2, <1>3, <1>5
<1>7. ops'[c] # <<>> /\ Len(ops'[c]) = Len(ops[c]) + 1 /\ ops'[c][Len(ops[c]) + 1] = r
  BY <1>2, <1>3, <1>5
<1>8. r = Op(kind, l)
  BY DEF r
<1>9. \A i \in 1..Len(ops[c]) :
        /\ SameButCurrent(ops'[c][i], ops[c][i])
        /\ IF kind \in {"start", "stop"} THEN ~ops'[c][i].current ELSE ops'[c][i].current = ops[c][i].current
  BY <1>3, <1>6
<1>. QED
  BY <1>2, <1>7, <1>8, <1>9

LEMMA NewOp == ASSUME NEW kind, NEW l PROVE /\ Op(kind, l).kind = kind /\ Op(kind, l).launch = l /\ Op(kind, l).at = "waiting"
                                            /\ Op(kind, l).current /\ Op(kind, l).host = 0 /\ Op(kind, l).env = None
  BY DEF Op

\* A queue that differs in what is still current tracks its consumer no worse.
Weaker(s, z) ==
    /\ Len(s) = Len(z) /\ (s # <<>> <=> z # <<>>)
    /\ \A i \in 1..Len(z) : SameButCurrent(s[i], z[i]) /\ (s[i].current => z[i].current)
    /\ z # <<>> => 1 \in 1..Len(z)

LEMMA WeakerTraces ==
    ASSUME NEW r, NEW op, SameButCurrent(r, op), r.current => op.current, NEW t
    PROVE  (Loose(op) => Loose(r)) /\ (Traced(op, t) => Traced(r, t))
  BY DEF SameButCurrent, Loose, Traced

LEMMA WeakerTracks ==
    ASSUME TInv, NEW c \in Tabs, Tracks(c), tab'[c] = tab[c], Weaker(ops'[c], ops[c]),
           quit' \in {"no", "draining"} => quit \in {"no", "draining"},
           NEW h, ops[c] # <<>> => h = ops[c][1].host, Consumers(h) = {} => Consumers(h)' = {}
    PROVE  Tracks(c)'
<1>1. \A i \in 1..Len(ops'[c]) : Loose(ops'[c][i])
  BY WeakerTraces DEF Tracks, Weaker
<1>2. ops'[c] # <<>> => /\ ops[c] # <<>> /\ SameButCurrent(ops'[c][1], ops[c][1])
                        /\ (ops'[c][1].current => ops[c][1].current)
  BY DEF Weaker
<1>3. ops'[c] # <<>> => Traced(ops'[c][1], tab[c])
  BY <1>2, WeakerTraces DEF Tracks
<1>4. Gone(c)'
  BY <1>2 DEF Tracks, Gone, SameButCurrent
<1>5. quit' \in {"no", "draining"} /\ (ops'[c] # <<>> => ops'[c][1].at \notin {"halting", "unbinding"}) =>
        tab[c].att = tab[c].proc
  BY <1>2 DEF Tracks, SameButCurrent, Weaker
<1>. QED
  BY <1>1, <1>3, <1>4, <1>5 DEF Tracks

LEMMA SupersededWeaker == ASSUME TInv, NEW c \in Tabs PROVE Weaker(Superseded(c), ops[c]) /\ Weaker(ops[c], ops[c])
<1>1. ops[c] # <<>> => 1 \in 1..Len(ops[c])
  BY Now, QueueIs
<1>. QED
  BY <1>1, QueueSuperseded DEF TInv, Weaker, SameButCurrent

LEMMA AskedTracks ==
    ASSUME TInv, TrInv, NEW c \in Tabs, NEW kind \in Kinds, NEW l, Asked(c, kind, l), UNCHANGED <<tab, quit>>
    PROVE  TrInv'
<1>1. ASSUME NEW d \in Tabs, d # c PROVE Tracks(d)'
  <2>1. ops'[d] = ops[d]
    BY <1>1, AskedIs
  <2>2. \A h : Consumers(h)' = Consumers(h)
    BY DEF Consumers
  <2>. QED
    BY <1>1, <2>1, <2>2, SupersededWeaker, WeakerTracks DEF TrInv
<1>2. Tracks(c)'
  <2>1. /\ ops'[c] # <<>> /\ Len(ops'[c]) = Len(ops[c]) + 1 /\ ops'[c][Len(ops[c]) + 1] = Op(kind, l)
        /\ \A i \in 1..Len(ops[c]) : /\ SameButCurrent(ops'[c][i], ops[c][i])
                                     /\ (ops'[c][i].current => ops[c][i].current)
    BY AskedIs
  <2>2. Tracks(c) /\ Len(ops[c]) \in Nat /\ (ops[c] # <<>> <=> Len(ops[c]) > 0)
    BY Now, QueueIs DEF TrInv
  <2>3. \A i \in 1..Len(ops[c]) : Loose(ops'[c][i])
    BY <2>1, <2>2, WeakerTraces DEF Tracks
  <2>4. Loose(Op(kind, l)) /\ Traced(Op(kind, l), tab[c])
    BY NewOp DEF Loose, Traced
  <2>5. \A i \in 1..Len(ops'[c]) : i \in 1..Len(ops[c]) \/ i = Len(ops[c]) + 1
    BY <2>1, <2>2
  <2>6. \A i \in 1..Len(ops'[c]) : Loose(ops'[c][i])
    BY <2>1, <2>3, <2>4, <2>5
  <2>7. CASE ops[c] = <<>>
    <3>1. ops'[c][1].at = "waiting" /\ Traced(ops'[c][1], tab[c])
      BY <2>1, <2>2, <2>4, <2>7, NewOp
    <3>. QED
      BY <2>1, <2>2, <2>6, <2>7, <3>1 DEF Tracks, Gone
  <2>8. CASE ops[c] # <<>>
    <3>1. SameButCurrent(ops'[c][1], ops[c][1]) /\ (ops'[c][1].current => ops[c][1].current)
      BY <2>1, <2>2, <2>8
    <3>2. Traced(ops'[c][1], tab[c])
      BY <2>2, <2>8, <3>1, WeakerTraces DEF Tracks
    <3>3. Gone(c)'
      BY <2>2, <2>8, <3>1 DEF Tracks, Gone, SameButCurrent, Consumers
    <3>. QED
      BY <2>1, <2>2, <2>6, <2>8, <3>1, <3>2, <3>3 DEF Tracks, SameButCurrent
  <2>. QED
    BY <2>7, <2>8
<1>. QED
  BY <1>1, <1>2 DEF TrInv

LEMMA EvictTracks == ASSUME TInv, TrInv, NEW h \in Hosts, Evict(h) PROVE TrInv'
<1>1. /\ tab' = [c \in Tabs |-> IF tab[c].att = h THEN NoTab ELSE tab[c]]
      /\ ops' = [c \in Tabs |-> IF tab[c].att = h THEN Superseded(c) ELSE ops[c]]
      /\ UNCHANGED quit
  BY DEF Evict
<1>2. h # 0 /\ NoTab.att = 0 /\ NoTab.proc = 0 /\ NoTab.env = None
  BY NobodyTyped DEF Hosts
<1>3. \A g : Consumers(g) = {} => Consumers(g)' = {} \/ g = 0
  BY <1>1, <1>2 DEF Consumers
<1>4. Consumers(h)' = {}
  BY <1>1, <1>2 DEF Consumers
<1>5. ASSUME NEW c \in Tabs, tab[c].att # h PROVE Tracks(c)'
  <2>1. PICK g : ops[c] # <<>> => g = ops[c][1].host
    OBVIOUS
  <2>2. Gone(c)'
    <3>1. SUFFICES ASSUME ops[c] # <<>>, ops[c][1].at \in {"booting", "configuring", "unstaging"}, tab[c].proc = 0
                   PROVE  Consumers(g)' = {}
      BY <1>1, <1>5, <2>1 DEF Gone
    <3>2. Consumers(g) = {} /\ g # 0
      BY <2>1, <3>1, Now, QueueIs DEF TrInv, Tracks, Gone, Fitting
    <3>. QED
      BY <1>3, <3>2
  <2>. QED
    BY <1>1, <1>5, <2>2 DEF TrInv, Tracks
<1>6. ASSUME NEW c \in Tabs, tab[c].att = h PROVE Tracks(c)'
  <2>1. tab'[c] = NoTab /\ Weaker(ops'[c], ops[c]) /\ tab[c].proc = h
    BY <1>1, <1>2, <1>6, SupersededWeaker, Now
  <2>2. \A i \in 1..Len(ops'[c]) : Loose(ops'[c][i])
    BY <2>1, WeakerTraces DEF TrInv, Tracks, Weaker
  <2>3. CASE ops[c] = <<>>
    BY <1>2, <2>1, <2>2, <2>3 DEF Tracks, Weaker, Gone
  <2>4. CASE ops[c] # <<>>
    <3>1. PICK op, r : op = ops[c][1] /\ r = ops'[c][1]
      OBVIOUS
    <3>2. SameButCurrent(r, op) /\ ~r.current
      BY <1>1, <1>6, <2>1, <2>4, <3>1, QueueSuperseded DEF Weaker, TInv
    <3>3. Traced(op, tab[c]) /\ Believes(op, tab[c])
      BY <2>4, <3>1, Now DEF TrInv, Tracks, Agree
    <3>4. op.at \notin {"halting", "unbinding"}
      BY <1>2, <1>6, <3>3 DEF Believes
    <3>5. Traced(r, NoTab)
      BY <1>2, <3>2, <3>4 DEF Traced, SameButCurrent
    <3>6. r.at \in {"booting", "configuring", "unstaging"} => r.host = h
      BY <1>2, <2>1, <3>2, <3>3 DEF Traced, SameButCurrent
    <3>7. Gone(c)'
      BY <1>4, <3>1, <3>6 DEF Gone
    <3>. QED
      BY <1>2, <2>1, <2>2, <3>1, <3>5, <3>7 DEF Tracks
  <2>. QED
    BY <2>3, <2>4
<1>. QED
  BY <1>5, <1>6 DEF TrInv

LEMMA CleanupTracks == ASSUME TInv, TrInv, Cleanup PROVE TrInv'
<1>1. /\ quit = "no" /\ UNCHANGED tab
      /\ ops' = [c \in Tabs |-> IF Pending(c, "start") # {} THEN Superseded(c) ELSE ops[c]]
  BY DEF Cleanup
<1>2. SUFFICES ASSUME NEW c \in Tabs PROVE Tracks(c)'
  BY DEF TrInv
<1>3. Weaker(ops'[c], ops[c]) /\ tab'[c] = tab[c]
  BY <1>1, SupersededWeaker
<1>4. \A g : Consumers(g)' = Consumers(g)
  BY <1>1 DEF Consumers
<1>. QED
  BY <1>1, <1>3, <1>4, WeakerTracks DEF TrInv

\* Once cleanup has drained the starts and stops, only switches are left.
LEMMA DrainedTracks == ASSUME TInv, TrInv, Drained PROVE TrInv'
<1>1. /\ quit' = "exiting" /\ UNCHANGED ops
      /\ \A c \in Tabs : Pending(c, "start") = {} /\ Pending(c, "stop") = {}
      /\ tab' = [c \in Tabs |-> [tab[c] EXCEPT !.att = 0]]
  BY DEF Drained
<1>2. SUFFICES ASSUME NEW c \in Tabs PROVE Tracks(c)'
  BY DEF TrInv
<1>3. tab'[c].proc = tab[c].proc /\ tab'[c].env = tab[c].env /\ \A d \in Tabs : tab'[d].att = 0
  BY <1>1, Now DEF TabType
<1>4. ops[c] # <<>> => Traced(ops[c][1], tab[c])
  BY DEF TrInv, Tracks
<1>5. ops[c] # <<>> => Traced(ops[c][1], tab'[c])
  BY <1>3, <1>4 DEF Traced
<1>6. Gone(c)'
  <2>1. SUFFICES ASSUME ops[c] # <<>>, NEW g, g = ops[c][1].host, ops[c][1].at \in {"booting", "configuring", "unstaging"}
                 PROVE  Consumers(g)' = {}
    BY <1>1 DEF Gone
  <2>2. g # 0
    BY <2>1, Now, QueueIs DEF Fitting
  <2>. QED
    BY <1>3, <2>2 DEF Consumers
<1>. QED
  BY <1>1, <1>3, <1>5, <1>6 DEF TrInv, Tracks

LEMMA CleanedTracks == ASSUME TInv, LInv, TrInv, Cleaned PROVE TrInv'
<1>1. quit = "exiting" /\ quit' = "done" /\ tab' = [c \in Tabs |-> NoTab] /\ UNCHANGED ops
  BY DEF Cleaned
<1>2. SUFFICES ASSUME NEW c \in Tabs PROVE Tracks(c)'
  BY DEF TrInv
<1>3. tab'[c].proc = 0 /\ tab'[c].env = None /\ \A d \in Tabs : tab'[d].att = 0
  BY <1>1, NobodyTyped
<1>4. ops[c] # <<>> => /\ 1 \in 1..Len(ops[c]) /\ Fitting(ops[c][1]) /\ ops[c][1] \in OpType
                       /\ ops[c][1].kind \in Kinds \ {"start", "stop"}
  BY <1>1, Now, QueueIs, OpFields DEF LInv, Leaving
<1>5. ops[c] # <<>> => Traced(ops[c][1], tab'[c])
  BY <1>3, <1>4 DEF Traced, Fitting, Kinds
<1>6. Gone(c)'
  <2>1. SUFFICES ASSUME ops[c] # <<>>, NEW g, g = ops[c][1].host, ops[c][1].at \in {"booting", "configuring", "unstaging"}
                 PROVE  Consumers(g)' = {}
    BY <1>1 DEF Gone
  <2>2. g # 0
    BY <1>4, <2>1 DEF Fitting
  <2>. QED
    BY <1>3, <2>2 DEF Consumers
<1>. QED
  BY <1>1, <1>3, <1>5, <1>6 DEF TrInv, Tracks

LEMMA InitTracks == ASSUME Init PROVE TrInv
  BY NobodyTyped DEF Init, TrInv, Tracks, Gone

LEMMA StepTracks == ASSUME "resume" \notin Requests, TInv, LInv, TrInv, [Next]_vars PROVE TrInv'
<1>1. CASE UNCHANGED <<tab, ops, quit>>
  <2>1. \A g : Consumers(g)' = Consumers(g)
    BY <1>1 DEF Consumers
  <2>2. ASSUME NEW c \in Tabs PROVE Gone(c)'
    BY <1>1 DEF TrInv, Tracks, Gone, Consumers
  <2>. QED
    BY <1>1, <2>2 DEF TrInv, Tracks
<1>2. ASSUME NEW c \in Tabs, NEW l, Start(c, l) PROVE TrInv'
  <2>1. UNCHANGED <<tab, quit>> /\ (UNCHANGED ops \/ Asked(c, "start", l))
    BY <1>2 DEF Start
  <2>. QED
    BY <1>1, <2>1, AskedTracks DEF Kinds
<1>3. ASSUME NEW c \in Tabs, Stop(c) PROVE TrInv'
  <2>1. UNCHANGED <<tab, quit>> /\ (UNCHANGED ops \/ Asked(c, "stop", None))
    BY <1>3 DEF Stop
  <2>. QED
    BY <1>1, <2>1, AskedTracks DEF Kinds
<1>4. ASSUME NEW c \in Tabs, NEW p \in Profiles, Switch(c, p) PROVE TrInv'
  <2>1. UNCHANGED <<tab, quit>> /\ Asked(c, "switch", [tab[c].last EXCEPT !.profile = p])
    BY <1>4 DEF Switch
  <2>. QED
    BY <2>1, AskedTracks DEF Kinds
<1>5. ASSUME NEW c \in Tabs PROVE ~Resume(c)
  BY DEF Resume, Asked
<1>6. CASE UNCHANGED vars
  BY <1>1, <1>6 DEF vars
<1>7. ASSUME NEW h \in Hosts, HostStep(h) \/ SpawnFails(h) \/ NeverReady(h) \/ HostDies(h) PROVE TrInv'
  BY <1>1, <1>7 DEF HostStep, Spawned, Ready, Killed, SpawnFails, NeverReady, HostDies
<1>. QED
  BY <1>2, <1>3, <1>4, <1>5, <1>6, <1>7, OpStepTracksAll, EvictTracks, CleanupTracks, DrainedTracks,
     CleanedTracks DEF Next, CleanupStep

LEMMA Tracking == ASSUME Calm, "resume" \notin Requests PROVE Spec => []TrInv
<1>1. Init => TrInv
  BY InitTracks
<1>2. TInv /\ LInv /\ TrInv /\ [Next]_vars => TrInv'
  BY StepTracks
<1>. QED
  BY <1>1, <1>2, Types, Health, PTL DEF Spec

---------------------------------------------------------------------------
(* What a consumer's newest request has come to, without rebuilds          *)

Unbound(t) == t.env = None /\ t.ws = 0 /\ t.folder = None
Bare(t) == t.proc = 0 /\ t.att = 0 /\ Unbound(t)

\* The consumer runs launch l in its own environment of its own host.
Has(t, l) ==
    /\ t.proc # 0 /\ t.att = t.proc /\ t.ws # 0 /\ t.folder = l.folder
    /\ t.env = [ws |-> t.ws, profile |-> l.profile]

Coherent(t) == Bare(t) \/ (t.last \in Launches /\ Has(t, t.last))

Settled(t, w) ==
    /\ Coherent(t)
    /\ w = None => Bare(t)
    /\ w \in Launches => t.last = w /\ ~Bare(t)

\* What holds of the consumer where its running request is suspended.
Placed(op, t) ==
    /\ op.at \in {"waiting", "preparing", "retiring"} \/ (op.kind = "switch" /\ op.at = "configuring") => Coherent(t)
    /\ op.at \in {"booting", "configuring", "unstaging"} => Coherent(t) \/ Unbound(t)
    /\ op.at = "swapping" => Bare(t) \/ Has(t, op.launch)
    /\ op.at = "unstaging" \/ (op.kind = "start" /\ op.at = "swapping" /\ Bare(t)) => ~op.current
    /\ op.kind = "start" /\ op.at \in {"preparing", "booting", "configuring"} /\ op.prev = None => op.live = 0

\* What the newest request says of what is wanted.
Newest(op, t, w) ==
    /\ op.kind = "start" => w = IF op.current THEN op.launch ELSE Failed
    /\ op.kind = "stop" => w = None /\ (~op.current => Bare(t))
    /\ op.kind = "switch" =>
         /\ w # None
         /\ w \in Launches => ~Bare(t) /\ IF op.at = "swapping" THEN w = op.launch ELSE t.last = w /\ Coherent(t)

Intends(c) ==
    /\ \A i \in 1..Len(ops[c]) : i < Len(ops[c]) => ~ops[c][i].current
    /\ ops[c] = <<>> => Settled(tab[c], want[c])
    /\ ops[c] # <<>> => Placed(ops[c][1], tab[c]) /\ Newest(ops[c][Len(ops[c])], tab[c], want[c])

LEMMA HasEnv ==
    ASSUME NEW t \in TabType, NEW l \in Launches, Has(t, l)
    PROVE  t.env # None /\ ~Bare(t) /\ ~Unbound(t)
<1>1. t.ws \in 1..MaxWs /\ l.profile \in Profiles
  BY TabFields, LaunchFields, ProcessAssumption DEF Has
<1>2. t.env \in Envs
  BY <1>1 DEF Has, Envs
<1>. QED
  BY <1>2, ProcessAssumption DEF Bare, Unbound

LEMMA CoherentIs ==
    ASSUME NEW t \in TabType, Coherent(t)
    PROVE  /\ t.env = None <=> Bare(t)
           /\ t.proc = 0 <=> Bare(t)
           /\ ~Bare(t) => t.last \in Launches /\ Has(t, t.last)
  BY HasEnv DEF Coherent, Bare, Unbound, Has

\* The same tab but for its last launch, or with its host given up.
LEMMA BareLike ==
    ASSUME NEW t, NEW u, Bare(t), u.proc = t.proc \/ u.proc = 0, u.att = t.att \/ u.att = 0,
           u.env = t.env, u.ws = t.ws, u.folder = t.folder
    PROVE  Bare(u)
  BY DEF Bare, Unbound

LEMMA QueueEnds ==
    ASSUME TInv, NEW c \in Tabs, Intends(c), ops[c] # <<>>
    PROVE  /\ Len(ops[c]) \in Nat \ {0} /\ Len(ops[c]) \in 1..Len(ops[c]) /\ 1 \in 1..Len(ops[c])
           /\ Len(ops[c]) # 1 => /\ ops[c][1].kind = "start" /\ ~ops[c][1].current
                                 /\ ops[c][Len(ops[c])].kind \in {"start", "stop"}
           /\ Len(ops[c]) = 1 => Newest(ops[c][1], tab[c], want[c])
<1>1. Len(ops[c]) \in Nat /\ Len(ops[c]) > 0 /\ Queued(ops[c])
  BY Now, QueueIs
<1>2. Len(ops[c]) \in 1..Len(ops[c]) /\ 1 \in 1..Len(ops[c])
  BY <1>1
<1>3. ASSUME Len(ops[c]) # 1
      PROVE  /\ ops[c][1].kind = "start" /\ ~ops[c][1].current
             /\ ops[c][Len(ops[c])].kind \in {"start", "stop"}
  <2>1. \A n \in Nat : n > 0 /\ n # 1 => 1 < n
    OBVIOUS
  <2>2. 1 < Len(ops[c])
    BY <1>1, <1>3, <2>1
  <2>. QED
    BY <1>1, <1>2, <2>2 DEF Queued, Intends
<1>4. Len(ops[c]) = 1 => Newest(ops[c][1], tab[c], want[c])
  BY <1>1 DEF Intends
<1>. QED
  BY <1>1, <1>2, <1>3, <1>4

LEMMA DoneIntends ==
    ASSUME TInv, NEW c \in Tabs, Intends(c), ops[c] # <<>>, NEW t \in TabType, Done(c, t), Coherent(t),
           Len(ops[c]) = 1 => Settled(t, want'[c]),
           Len(ops[c]) # 1 => want'[c] = want[c] /\ (Bare(tab[c]) => Bare(t))
    PROVE  Intends(c)'
<1>1. tab'[c] = t
  BY DEF Done, TInv, Typed
<1>2. /\ Len(ops'[c]) = Len(ops[c]) - 1
      /\ \A i \in 1..Len(ops'[c]) : ops'[c][i] = ops[c][i + 1] /\ i + 1 \in 1..Len(ops[c])
      /\ ops'[c] # <<>> => ops'[c][1].at = "waiting"
  BY SettlesFirst DEF Done
<1>3. /\ Len(ops[c]) \in Nat \ {0}
      /\ Len(ops[c]) # 1 => ops[c][Len(ops[c])].kind \in {"start", "stop"}
  BY QueueEnds
<1>4. ops' \in [Tabs -> Queues] /\ ops'[c] \in Queues
  <2>1. RemoveAt(ops[c], 1) \in Queues
    BY Now, QueueSettles
  <2>. QED
    BY <2>1 DEF Done, Settles, TInv, Typed
<1>5. ops'[c] = <<>> <=> Len(ops[c]) = 1
  <2>1. ops'[c] = <<>> <=> ~(Len(ops'[c]) > 0)
    BY <1>4, QueueIs
  <2>2. \A m, n \in Nat : n # 0 /\ m = n - 1 => (~(m > 0) <=> n = 1)
    OBVIOUS
  <2>3. Len(ops'[c]) \in Nat
    BY <1>4, QueueIs
  <2>. QED
    BY <1>2, <1>3, <2>1, <2>2, <2>3
<1>6. \A i \in 1..Len(ops'[c]) : i < Len(ops'[c]) => ~ops'[c][i].current
  BY <1>2, <1>3 DEF Intends
<1>7. CASE ops'[c] = <<>>
  BY <1>1, <1>5, <1>6, <1>7 DEF Intends
<1>8. CASE ops'[c] # <<>>
  <2>1. Len(ops'[c]) \in 1..Len(ops'[c]) /\ ops'[c][Len(ops'[c])] = ops[c][Len(ops[c])]
    BY <1>2, <1>3, <1>5, <1>8
  <2>2. Placed(ops'[c][1], t)
    BY <1>2, <1>8 DEF Placed
  <2>3. Newest(ops[c][Len(ops[c])], t, want[c])
    BY <1>3, <1>5, <1>8 DEF Intends, Newest
  <2>. QED
    BY <1>1, <1>5, <1>6, <1>8, <2>1, <2>2, <2>3 DEF Intends
<1>. QED
  BY <1>7, <1>8

LEMMA OnIntends ==
    ASSUME TInv, NEW c \in Tabs, Intends(c), ops[c] # <<>>, NEW t \in TabType, NEW r \in OpType, On(c, t, r),
           r.current = ops[c][1].current, Placed(r, t),
           Len(ops[c]) = 1 => Newest(r, t, want'[c]),
           Len(ops[c]) # 1 => want'[c] = want[c] /\ (Bare(tab[c]) => Bare(t))
    PROVE  Intends(c)'
<1>1. tab'[c] = t
  BY DEF On, TInv, Typed
<1>2. /\ ops'[c] # <<>> /\ ops'[c][1] = r /\ Len(ops'[c]) = Len(ops[c])
      /\ \A i \in 1..Len(ops[c]) : i # 1 => ops'[c][i] = ops[c][i]
  BY GoesFirst DEF On
<1>3. /\ Len(ops[c]) \in Nat \ {0} /\ Len(ops[c]) \in 1..Len(ops[c])
      /\ Len(ops[c]) # 1 => ops[c][Len(ops[c])].kind \in {"start", "stop"}
  BY QueueEnds
<1>4. \A i \in 1..Len(ops'[c]) : i < Len(ops'[c]) => ~ops'[c][i].current
  BY <1>2 DEF Intends
<1>5. Newest(ops'[c][Len(ops'[c])], t, want'[c])
  <2>1. CASE Len(ops[c]) = 1
    BY <1>2, <2>1
  <2>2. CASE Len(ops[c]) # 1
    BY <1>2, <1>3, <2>2 DEF Intends, Newest
  <2>. QED
    BY <2>1, <2>2
<1>. QED
  BY <1>1, <1>2, <1>4, <1>5 DEF Intends

LEMMA FirstIntends ==
    ASSUME TInv, NEW c \in Tabs, Tracks(c), Intends(c), quit = "no", NEW op, NEW kinds, NEW place,
           First(c, op, kinds, place)
    PROVE  /\ ops[c] # <<>> /\ op = ops[c][1] /\ op \in OpType /\ tab[c] \in TabType /\ op.at = place /\ op.kind \in kinds
           /\ Placed(op, tab[c]) /\ Traced(op, tab[c])
           /\ op.kind # "stop" => op.launch \in Launches
           /\ op.at \notin {"waiting", "preparing"} => op.host # 0
           /\ op.at \in {"configuring"} => op.ws # 0
           /\ place \notin {"halting", "unbinding"} => tab[c].att = tab[c].proc
           /\ Len(ops[c]) = 1 => Newest(op, tab[c], want[c])
           /\ Len(ops[c]) # 1 => op.kind = "start" /\ ~op.current
<1>1. /\ op \in OpType /\ ops[c] # <<>> /\ op = ops[c][1] /\ op.at = place /\ op.kind \in kinds /\ Fitting(op)
      /\ Traced(op, tab[c]) /\ tab[c] \in TabType
      /\ place \notin {"halting", "unbinding"} => tab[c].att = tab[c].proc
  BY FirstTracks
<1>2. Placed(op, tab[c])
  BY <1>1 DEF Intends
<1>3. /\ Len(ops[c]) = 1 => Newest(op, tab[c], want[c])
      /\ Len(ops[c]) # 1 => op.kind = "start" /\ ~op.current
  BY <1>1, QueueEnds
<1>. QED
  BY <1>1, <1>2, <1>3 DEF Fitting

LEMMA Wanted == /\ None \notin Launches /\ Failed \notin Launches /\ Failed # None
  BY ProcessAssumption

\* A superseded start that retires leaves its consumer bound as before, or
\* with nothing.
LEMMA RetireIntends ==
    ASSUME TInv, NEW c \in Tabs, Tracks(c), Intends(c), quit = "no", NEW op,
           NEW place \in {"booting", "configuring", "unstaging"}, First(c, op, {"start"}, place), ~op.current,
           NEW hs, RetireOutcome(c, op, hs), UNCHANGED want
    PROVE  Intends(c)'
<1>1. /\ ops[c] # <<>> /\ op = ops[c][1] /\ op \in OpType /\ tab[c] \in TabType /\ op.at = place /\ op.kind = "start"
      /\ Placed(op, tab[c]) /\ Traced(op, tab[c]) /\ op.host # 0 /\ tab[c].att = tab[c].proc
      /\ Len(ops[c]) = 1 => Newest(op, tab[c], want[c])
  BY FirstIntends
<1>2. \/ tab[c].proc = op.host /\ tab[c].env = op.prev
      \/ tab[c].proc = 0 /\ tab[c].env = None
  BY <1>1 DEF Traced, Tracks
<1>3. Coherent(tab[c]) \/ Unbound(tab[c])
  BY <1>1 DEF Placed
<1>4. \A t : Coherent(t) => (Len(ops[c]) = 1 => Settled(t, want'[c]))
  BY <1>1, Wanted DEF Newest, Settled
<1>5. CASE Done(c, tab[c]) /\ (op.prev # None \/ tab[c].proc # op.host)
  <2>1. Coherent(tab[c])
    BY <1>1, <1>2, <1>3, <1>5 DEF Coherent, Bare, Unbound
  <2>. QED
    BY <1>1, <1>4, <1>5, <2>1, DoneIntends
<1>6. ASSUME NEW t \in TabType, op.prev = None, tab[c].proc = op.host,
             t.proc = 0, t.att = 0, t.env = tab[c].env, t.ws = tab[c].ws, t.folder = tab[c].folder
      PROVE  /\ Done(c, t) => Intends(c)'
             /\ \A r \in OpType : On(c, t, r) /\ Moved(r, op, "retiring") => Intends(c)'
  <2>1. Unbound(tab[c])
    BY <1>1, <1>2, <1>3, <1>6, CoherentIs DEF Bare
  <2>2. Bare(t) /\ Coherent(t)
    BY <1>6, <2>1 DEF Coherent, Bare, Unbound
  <2>3. Done(c, t) => Intends(c)'
    BY <1>1, <1>4, <2>2, DoneIntends
  <2>4. ASSUME NEW r \in OpType, On(c, t, r), Moved(r, op, "retiring") PROVE Intends(c)'
    <3>1. r.current = op.current /\ Placed(r, t)
      BY <1>1, <2>2, <2>4 DEF Moved, SameAims, Placed
    <3>2. Len(ops[c]) = 1 => Newest(r, t, want'[c])
      BY <1>1, <2>4 DEF Moved, SameAims, Newest
    <3>. QED
      BY <1>1, <2>2, <2>4, <3>1, <3>2, OnIntends
  <2>. QED
    BY <2>3, <2>4
<1>. QED
  BY <1>5, <1>6 DEF RetireOutcome

LEMMA StartBeginsIntends ==
    ASSUME TInv, NEW c \in Tabs, Tracks(c), Intends(c), quit = "no", NEW i, StartBegins(c, i) PROVE Intends(c)'
<1>1. PICK op : /\ First(c, op, {"start"}, "waiting") /\ UNCHANGED want
                /\ \/ (~op.current \/ Adopted(c, op.launch)) /\ Done(c, tab[c])
                   \/ op.current /\ \E r \in OpType :
                         /\ On(c, tab[c], r) /\ SameAims(r, op) /\ r.at = "preparing"
                         /\ r.prev = tab[c].env /\ r.live = tab[c].proc
  BY StartBeginsDoes
<1>2. /\ ops[c] # <<>> /\ op = ops[c][1] /\ op \in OpType /\ tab[c] \in TabType /\ op.at = "waiting" /\ op.kind = "start"
      /\ Placed(op, tab[c]) /\ op.launch \in Launches
      /\ Len(ops[c]) = 1 => Newest(op, tab[c], want[c])
  BY <1>1, FirstIntends
<1>3. Coherent(tab[c])
  BY <1>2 DEF Placed
<1>4. CASE (~op.current \/ Adopted(c, op.launch)) /\ Done(c, tab[c])
  <2>1. Adopted(c, op.launch) => tab[c].last = op.launch /\ ~Bare(tab[c])
    BY DEF Adopted, Bare
  <2>2. Len(ops[c]) = 1 => Settled(tab[c], want'[c])
    BY <1>1, <1>2, <1>3, <1>4, <2>1, Wanted DEF Newest, Settled
  <2>. QED
    BY <1>1, <1>2, <1>3, <1>4, <2>2, DoneIntends
<1>5. ASSUME NEW r \in OpType, On(c, tab[c], r), SameAims(r, op), r.at = "preparing",
             r.prev = tab[c].env, r.live = tab[c].proc
      PROVE  Intends(c)'
  <2>1. Placed(r, tab[c])
    BY <1>2, <1>3, <1>5, CoherentIs DEF Placed, SameAims
  <2>2. Len(ops[c]) = 1 => Newest(r, tab[c], want'[c])
    BY <1>1, <1>2, <1>5 DEF Newest, SameAims
  <2>. QED
    BY <1>1, <1>2, <1>5, <2>1, <2>2, OnIntends DEF SameAims
<1>. QED
  BY <1>1, <1>4, <1>5

LEMMA StartPreparedIntends ==
    ASSUME TInv, NEW c \in Tabs, Tracks(c), Intends(c), quit = "no", NEW i, StartPrepared(c, i) PROVE Intends(c)'
<1>1. PICK op : /\ First(c, op, {"start"}, "preparing") /\ UNCHANGED want
                /\ \/ ~op.current /\ Done(c, tab[c])
                   \/ op.current /\ \E h \in Hosts, t \in TabType, r \in OpType :
                        /\ On(c, t, r) /\ SameAims(r, op) /\ r.at \in {"booting", "configuring"}
                        /\ r.live = op.live /\ r.prev = op.prev /\ t.proc = h /\ t.att = h /\ t.env = tab[c].env
                        /\ t.ws = tab[c].ws /\ t.folder = tab[c].folder /\ t.last = tab[c].last
  BY StartPreparedDoes
<1>2. /\ ops[c] # <<>> /\ op = ops[c][1] /\ op \in OpType /\ tab[c] \in TabType /\ op.at = "preparing" /\ op.kind = "start"
      /\ Placed(op, tab[c]) /\ op.launch \in Launches
      /\ Len(ops[c]) = 1 => Newest(op, tab[c], want[c])
      /\ Len(ops[c]) # 1 => ~op.current
  BY <1>1, FirstIntends
<1>3. Coherent(tab[c])
  BY <1>2 DEF Placed
<1>4. CASE ~op.current /\ Done(c, tab[c])
  <2>1. Len(ops[c]) = 1 => Settled(tab[c], want'[c])
    BY <1>1, <1>2, <1>3, <1>4, Wanted DEF Newest, Settled
  <2>. QED
    BY <1>1, <1>2, <1>3, <1>4, <2>1, DoneIntends
<1>5. ASSUME op.current, NEW h \in Hosts, NEW t \in TabType, NEW r \in OpType,
             On(c, t, r), SameAims(r, op), r.at \in {"booting", "configuring"},
             r.live = op.live, r.prev = op.prev, t.proc = h, t.att = h, t.env = tab[c].env,
             t.ws = tab[c].ws, t.folder = tab[c].folder, t.last = tab[c].last
      PROVE  Intends(c)'
  <2>1. h # 0
    BY DEF Hosts
  <2>2. Coherent(t) \/ Unbound(t)
    BY <1>3, <1>5, <2>1 DEF Coherent, Bare, Unbound, Has
  <2>3. Placed(r, t)
    BY <1>2, <1>5, <2>2 DEF Placed, SameAims
  <2>4. Len(ops[c]) = 1 /\ Newest(r, t, want'[c])
    BY <1>1, <1>2, <1>5 DEF Newest, SameAims
  <2>. QED
    BY <1>2, <1>5, <2>3, <2>4, OnIntends DEF SameAims
<1>. QED
  BY <1>1, <1>4, <1>5

LEMMA StartBootedIntends ==
    ASSUME TInv, NEW c \in Tabs, Tracks(c), Intends(c), quit = "no", NEW i, StartBooted(c, i) PROVE Intends(c)'
<1>1. PICK op : /\ First(c, op, {"start"}, "booting") /\ UNCHANGED want
                /\ \/ op.current /\ \E r \in OpType :
                         On(c, tab[c], r) /\ SameAims(r, op) /\ r.at = "configuring" /\ r.live = op.live /\ r.prev = op.prev
                   \/ ~op.current /\ RetireOutcome(c, op, host)
  BY StartBootedDoes
<1>2. /\ ops[c] # <<>> /\ op = ops[c][1] /\ op \in OpType /\ tab[c] \in TabType /\ op.at = "booting" /\ op.kind = "start"
      /\ Placed(op, tab[c]) /\ (Len(ops[c]) = 1 => Newest(op, tab[c], want[c]))
  BY <1>1, FirstIntends
<1>3. CASE ~op.current /\ RetireOutcome(c, op, host)
  BY <1>1, <1>3, RetireIntends
<1>4. ASSUME NEW r \in OpType, On(c, tab[c], r), SameAims(r, op), r.at = "configuring", r.live = op.live, r.prev = op.prev
      PROVE  Intends(c)'
  <2>1. Placed(r, tab[c])
    BY <1>2, <1>4 DEF Placed, SameAims
  <2>2. Len(ops[c]) = 1 => Newest(r, tab[c], want'[c])
    BY <1>1, <1>2, <1>4 DEF Newest, SameAims
  <2>. QED
    BY <1>1, <1>2, <1>4, <2>1, <2>2, OnIntends DEF SameAims
<1>. QED
  BY <1>1, <1>3, <1>4

LEMMA StartConfiguredIntends ==
    ASSUME TInv, NEW c \in Tabs, Tracks(c), Intends(c), quit = "no", NEW i, StartConfigured(c, i) PROVE Intends(c)'
<1>1. PICK op : /\ First(c, op, {"start"}, "configuring") /\ UNCHANGED want
                /\ \/ ~op.current /\ RetireOutcome(c, op, Materialized(op))
                   \/ ~op.current /\ \E r \in OpType : On(c, tab[c], r) /\ SameAims(r, op) /\ r.at = "unstaging"
                   \/ op.current /\ \E t \in TabType :
                        /\ BoundTo(t, tab[c], op)
                        /\ \/ \E r \in OpType : On(c, t, r) /\ Moved(r, op, "swapping")
                           \/ t.last = op.launch /\ Done(c, t)
  BY StartConfiguredDoes
<1>0. First(c, op, {"start"}, "configuring")
  BY <1>1
<1>2. /\ ops[c] # <<>> /\ op = ops[c][1] /\ op \in OpType /\ tab[c] \in TabType /\ op.at = "configuring" /\ op.kind = "start"
      /\ Placed(op, tab[c]) /\ Traced(op, tab[c]) /\ op.launch \in Launches /\ op.host # 0 /\ op.ws # 0
      /\ tab[c].att = tab[c].proc
      /\ Len(ops[c]) = 1 => Newest(op, tab[c], want[c])
      /\ Len(ops[c]) # 1 => ~op.current
  BY <1>0, FirstIntends
<1>3. CASE ~op.current /\ RetireOutcome(c, op, Materialized(op))
  BY <1>1, <1>3, RetireIntends
<1>4. ASSUME ~op.current, NEW r \in OpType, On(c, tab[c], r), SameAims(r, op), r.at = "unstaging" PROVE Intends(c)'
  <2>1. Placed(r, tab[c])
    BY <1>2, <1>4 DEF Placed, SameAims
  <2>2. Len(ops[c]) = 1 => Newest(r, tab[c], want'[c])
    BY <1>1, <1>2, <1>4 DEF Newest, SameAims
  <2>. QED
    BY <1>1, <1>2, <1>4, <2>1, <2>2, OnIntends DEF SameAims
<1>5. ASSUME op.current, NEW t \in TabType, BoundTo(t, tab[c], op)
      PROVE  /\ \A r \in OpType : On(c, t, r) /\ Moved(r, op, "swapping") => Intends(c)'
             /\ t.last = op.launch /\ Done(c, t) => Intends(c)'
  <2>1. Has(t, op.launch)
    BY <1>2, <1>5 DEF Traced, BoundTo, Has, Target
  <2>2. ~Bare(t) /\ Len(ops[c]) = 1
    BY <1>2, <1>5, <2>1, HasEnv
  <2>3. ASSUME NEW r \in OpType, On(c, t, r), Moved(r, op, "swapping") PROVE Intends(c)'
    <3>1. Placed(r, t) /\ Newest(r, t, want'[c]) /\ r.current = ops[c][1].current
      BY <1>1, <1>2, <2>1, <2>2, <2>3 DEF Placed, Newest, Moved, SameAims
    <3>. QED
      BY <1>2, <2>2, <2>3, <3>1, OnIntends
  <2>4. ASSUME t.last = op.launch, Done(c, t) PROVE Intends(c)'
    <3>1. Coherent(t) /\ Settled(t, want'[c])
      BY <1>1, <1>2, <1>5, <2>1, <2>2, <2>4, Wanted DEF Coherent, Settled, Newest
    <3>. QED
      BY <1>2, <2>2, <2>4, <3>1, DoneIntends
  <2>. QED
    BY <2>3, <2>4
<1>. QED
  BY <1>1, <1>3, <1>4, <1>5

LEMMA UnstagedIntends ==
    ASSUME TInv, NEW c \in Tabs, Tracks(c), Intends(c), quit = "no", NEW i, Unstaged(c, i) PROVE Intends(c)'
<1>1. PICK op : /\ First(c, op, {"start"}, "unstaging") /\ UNCHANGED want
                /\ RetireOutcome(c, op, EnvStopped(host, op.host, op.env))
  BY UnstagedDoes
<1>2. ~op.current
  BY <1>1, FirstIntends DEF Placed
<1>. QED
  BY <1>1, <1>2, RetireIntends

LEMMA SwappedIntends ==
    ASSUME TInv, NEW c \in Tabs, Tracks(c), Intends(c), quit = "no", NEW i, Swapped(c, i) PROVE Intends(c)'
<1>1. PICK op, t : /\ First(c, op, {"start", "switch"}, "swapping") /\ UNCHANGED want
                   /\ t \in TabType /\ Done(c, t)
                   /\ t.proc = tab[c].proc /\ t.att = tab[c].att /\ t.env = tab[c].env /\ t.ws = tab[c].ws
                   /\ t.folder = tab[c].folder /\ t.last = op.launch
  BY SwappedDoes
<1>0. First(c, op, {"start", "switch"}, "swapping")
  BY <1>1
<1>2. /\ ops[c] # <<>> /\ op = ops[c][1] /\ op \in OpType /\ tab[c] \in TabType /\ op.at = "swapping"
      /\ op.kind \in {"start", "switch"} /\ Placed(op, tab[c]) /\ op.launch \in Launches
      /\ Len(ops[c]) = 1 => Newest(op, tab[c], want[c])
  BY <1>0, FirstIntends
<1>3. Bare(t) <=> Bare(tab[c])
  BY <1>1 DEF Bare, Unbound
<1>4. Bare(t) \/ Has(t, op.launch)
  BY <1>1, <1>2, <1>3 DEF Placed, Has
<1>5. Coherent(t)
  BY <1>1, <1>2, <1>4 DEF Coherent
<1>6. Len(ops[c]) = 1 => Settled(t, want'[c])
  BY <1>1, <1>2, <1>3, <1>5, Wanted DEF Settled, Newest, Placed
<1>. QED
  BY <1>1, <1>2, <1>3, <1>5, <1>6, DoneIntends

\* A request that fails leaves its consumer with what it had, or with nothing.
LEMMA RejectedIs ==
    ASSUME TInv, NEW c \in Tabs, Rejects(c, 1)
    PROVE  want'[c] = IF ops[c][1].current THEN Failed ELSE want[c]
  BY DEF Rejects, TInv, Typed

LEMMA RejectedIntends ==
    ASSUME TInv, NEW c \in Tabs, Tracks(c), Intends(c), quit = "no", NEW op, NEW place, First(c, op, {"start"}, place),
           place \notin {"halting", "unbinding"}, Rejects(c, 1),
           NEW t \in TabType, Done(c, t), Coherent(t), t = tab[c] \/ Bare(t)
    PROVE  Intends(c)'
<1>1. /\ ops[c] # <<>> /\ op = ops[c][1] /\ op.kind = "start" /\ op.launch \in Launches
      /\ Len(ops[c]) = 1 => Newest(op, tab[c], want[c])
      /\ Len(ops[c]) # 1 => ~op.current
  BY FirstIntends
<1>2. want'[c] = IF op.current THEN Failed ELSE want[c]
  BY <1>1, RejectedIs
<1>3. Len(ops[c]) = 1 => Settled(t, want'[c])
  BY <1>1, <1>2, Wanted DEF Settled, Newest
<1>. QED
  BY <1>1, <1>2, <1>3, DoneIntends

LEMMA StartFailsIntends ==
    ASSUME TInv, NEW c \in Tabs, Tracks(c), Intends(c), quit = "no", NEW i, StartFails(c, i) PROVE Intends(c)'
<1>1. PICK op : /\ First(c, op, {"start"}, "configuring")
                /\ \/ op.live = op.host /\ Done(c, tab[c]) /\ Rejects(c, 1)
                   \/ Done(c, NoTab) /\ Rejects(c, 1)
                   \/ UNCHANGED want /\ \E r \in OpType : On(c, NoTab, r) /\ Moved(r, op, "retiring")
  BY StartFailsDoes
<1>2. /\ ops[c] # <<>> /\ op = ops[c][1] /\ op \in OpType /\ tab[c] \in TabType /\ op.at = "configuring" /\ op.kind = "start"
      /\ Placed(op, tab[c]) /\ Traced(op, tab[c]) /\ op.host # 0 /\ tab[c].att = tab[c].proc
      /\ Len(ops[c]) = 1 => Newest(op, tab[c], want[c])
  BY <1>1, FirstIntends
<1>3. NoTab \in TabType /\ Bare(NoTab) /\ Coherent(NoTab)
  BY NobodyTyped DEF NoTab, Bare, Unbound, Coherent
<1>4. CASE Done(c, NoTab) /\ Rejects(c, 1)
  BY <1>1, <1>3, <1>4, RejectedIntends
<1>5. CASE op.live = op.host /\ Done(c, tab[c]) /\ Rejects(c, 1)
  <2>1. Coherent(tab[c])
    BY <1>2, <1>5 DEF Placed, Traced, Coherent, Unbound, Bare
  <2>. QED
    BY <1>1, <1>2, <1>5, <2>1, RejectedIntends
<1>6. ASSUME UNCHANGED want, NEW r \in OpType, On(c, NoTab, r), Moved(r, op, "retiring") PROVE Intends(c)'
  <2>1. Placed(r, NoTab) /\ r.current = ops[c][1].current
    BY <1>2, <1>3, <1>6 DEF Placed, Moved, SameAims
  <2>2. Len(ops[c]) = 1 => Newest(r, NoTab, want'[c])
    BY <1>2, <1>6 DEF Newest, Moved, SameAims
  <2>. QED
    BY <1>2, <1>3, <1>6, <2>1, <2>2, OnIntends
<1>. QED
  BY <1>1, <1>4, <1>5, <1>6

LEMMA RetiredIntends ==
    ASSUME TInv, NEW c \in Tabs, Tracks(c), Intends(c), quit = "no", NEW i, Retired(c, i) PROVE Intends(c)'
<1>1. PICK op : First(c, op, {"start"}, "retiring") /\ Done(c, tab[c]) /\ Rejects(c, 1)
  BY RetiredDoes
<1>2. tab[c] \in TabType /\ Coherent(tab[c])
  BY <1>1, FirstIntends DEF Placed
<1>. QED
  BY <1>1, <1>2, RejectedIntends

LEMMA StopBeginsIntends ==
    ASSUME TInv, NEW c \in Tabs, Tracks(c), Intends(c), quit = "no", NEW i, StopBegins(c, i) PROVE Intends(c)'
<1>1. PICK op : /\ First(c, op, {"stop"}, "waiting") /\ UNCHANGED want
                /\ \/ (~op.current \/ tab[c].proc = 0) /\ Done(c, tab[c])
                   \/ \E t \in TabType, r \in OpType :
                        op.current /\ On(c, t, r) /\ SameAims(r, op) /\ r.at \in {"halting", "unbinding"}
                   \/ \E t \in TabType : BareAs(t, tab[c].last) /\ Done(c, t)
  BY StopBeginsDoes
<1>2. /\ ops[c] # <<>> /\ op = ops[c][1] /\ op \in OpType /\ tab[c] \in TabType /\ op.at = "waiting" /\ op.kind = "stop"
      /\ Placed(op, tab[c]) /\ Len(ops[c]) = 1 /\ Newest(op, tab[c], want[c])
  BY <1>1, FirstIntends
<1>3. Coherent(tab[c])
  BY <1>2 DEF Placed
<1>4. CASE (~op.current \/ tab[c].proc = 0) /\ Done(c, tab[c])
  <2>1. Bare(tab[c])
    BY <1>2, <1>3, <1>4, CoherentIs DEF Newest
  <2>2. Settled(tab[c], want'[c])
    BY <1>1, <1>2, <1>3, <2>1, Wanted DEF Newest, Settled
  <2>. QED
    BY <1>2, <1>3, <1>4, <2>2, DoneIntends
<1>5. ASSUME NEW t \in TabType, NEW r \in OpType, op.current, On(c, t, r), SameAims(r, op), r.at \in {"halting", "unbinding"}
      PROVE  Intends(c)'
  <2>1. Placed(r, t) /\ Newest(r, t, want'[c]) /\ r.current = ops[c][1].current
    BY <1>1, <1>2, <1>5 DEF Placed, Newest, SameAims
  <2>. QED
    BY <1>2, <1>5, <2>1, OnIntends
<1>6. ASSUME NEW t \in TabType, BareAs(t, tab[c].last), Done(c, t) PROVE Intends(c)'
  <2>1. Coherent(t) /\ Settled(t, want'[c])
    BY <1>1, <1>2, <1>6, Wanted DEF BareAs, Coherent, Bare, Unbound, Newest, Settled
  <2>. QED
    BY <1>2, <1>6, <2>1, DoneIntends
<1>. QED
  BY <1>1, <1>4, <1>5, <1>6

LEMMA StopEndsIntends ==
    ASSUME TInv, NEW c \in Tabs, Tracks(c), Intends(c), quit = "no", NEW i, StopEnds(c, i) PROVE Intends(c)'
<1>1. PICK op, t : /\ First(c, op, {"stop"}, "halting") \/ First(c, op, {"stop"}, "unbinding")
                   /\ UNCHANGED want /\ t \in TabType /\ BareAs(t, tab[c].last) /\ Done(c, t)
  BY StopEndsDoes
<1>2. ops[c] # <<>> /\ op.kind = "stop" /\ Len(ops[c]) = 1 /\ Newest(op, tab[c], want[c])
  BY <1>1, FirstIntends
<1>3. Coherent(t) /\ Settled(t, want'[c])
  BY <1>1, <1>2, Wanted DEF BareAs, Coherent, Bare, Unbound, Newest, Settled
<1>. QED
  BY <1>1, <1>2, <1>3, DoneIntends

LEMMA SwitchPreparedIntends ==
    ASSUME TInv, NEW c \in Tabs, Tracks(c), Intends(c), quit = "no", NEW i, SwitchPrepared(c, i) PROVE Intends(c)'
<1>1. PICK op : /\ First(c, op, {"switch"}, "waiting") /\ UNCHANGED want
                /\ \/ Done(c, tab[c])
                   \/ \E r \in OpType : On(c, tab[c], r) /\ SameAims(r, op) /\ r.at = "configuring"
  BY SwitchPreparedDoes
<1>2. /\ ops[c] # <<>> /\ op = ops[c][1] /\ op \in OpType /\ tab[c] \in TabType /\ op.at = "waiting" /\ op.kind = "switch"
      /\ Placed(op, tab[c]) /\ Len(ops[c]) = 1 /\ Newest(op, tab[c], want[c])
  BY <1>1, FirstIntends
<1>3. Coherent(tab[c])
  BY <1>2 DEF Placed
<1>4. CASE Done(c, tab[c])
  <2>1. Settled(tab[c], want'[c])
    BY <1>1, <1>2, <1>3 DEF Newest, Settled
  <2>. QED
    BY <1>2, <1>3, <1>4, <2>1, DoneIntends
<1>5. ASSUME NEW r \in OpType, On(c, tab[c], r), SameAims(r, op), r.at = "configuring" PROVE Intends(c)'
  <2>1. Placed(r, tab[c]) /\ Newest(r, tab[c], want'[c]) /\ r.current = ops[c][1].current
    BY <1>1, <1>2, <1>3, <1>5 DEF Placed, Newest, SameAims
  <2>. QED
    BY <1>2, <1>5, <2>1, OnIntends
<1>. QED
  BY <1>1, <1>4, <1>5

LEMMA ReboundIntends ==
    ASSUME TInv, LInv, NEW c \in Tabs, Tracks(c), Intends(c), quit = "no", NEW i, Rebound(c, i) PROVE Intends(c)'
<1>1. PICK op : /\ First(c, op, {"switch"}, "configuring") /\ host[op.host].st = "running"
                /\ want' = IF want[c] \in Launches THEN [want EXCEPT ![c] = op.launch] ELSE want
                /\ \E t \in TabType :
                     /\ BoundTo(t, tab[c], op)
                     /\ \/ \E r \in OpType : On(c, t, r) /\ Moved(r, op, "swapping")
                        \/ t.last = op.launch /\ Done(c, t)
  BY ReboundDoes DEF LInv
<1>2. /\ ops[c] # <<>> /\ op = ops[c][1] /\ op \in OpType /\ tab[c] \in TabType /\ op.at = "configuring"
      /\ op.kind = "switch" /\ op.launch \in Launches /\ op.ws # 0 /\ tab[c].att = tab[c].proc
      /\ Len(ops[c]) = 1 /\ Newest(op, tab[c], want[c])
  BY <1>1, FirstIntends
<1>3. tab[c].proc # 0
  BY <1>1, AnswersOwn
<1>4. PICK t \in TabType : /\ BoundTo(t, tab[c], op)
                           /\ \/ \E r \in OpType : On(c, t, r) /\ Moved(r, op, "swapping")
                              \/ t.last = op.launch /\ Done(c, t)
  BY <1>1
<1>5. Has(t, op.launch)
  BY <1>2, <1>3, <1>4 DEF BoundTo, Has, Target
<1>6. ~Bare(t)
  BY <1>2, <1>5, HasEnv
<1>7. want'[c] = IF want[c] \in Launches THEN op.launch ELSE want[c]
  BY <1>1 DEF TInv, Typed
<1>8. CASE t.last = op.launch /\ Done(c, t)
  <2>1. Coherent(t) /\ Settled(t, want'[c])
    BY <1>2, <1>5, <1>6, <1>7, <1>8, Wanted DEF Coherent, Settled, Newest
  <2>. QED
    BY <1>2, <1>8, <2>1, DoneIntends
<1>9. ASSUME NEW r \in OpType, On(c, t, r), Moved(r, op, "swapping") PROVE Intends(c)'
  <2>1. Placed(r, t) /\ Newest(r, t, want'[c]) /\ r.current = ops[c][1].current
    BY <1>2, <1>5, <1>6, <1>7, <1>9, Wanted DEF Placed, Newest, Moved, SameAims
  <2>. QED
    BY <1>2, <1>9, <2>1, OnIntends
<1>. QED
  BY <1>4, <1>8, <1>9

LEMMA RebindFailsIntends ==
    ASSUME TInv, LInv, NEW c \in Tabs, Tracks(c), Intends(c), quit = "no", NEW i, RebindFails(c, i) PROVE Intends(c)'
<1>1. PICK op : /\ First(c, op, {"switch"}, "configuring")
                /\ want' = [want EXCEPT ![c] = IF @ = None THEN @ ELSE Failed] /\ Done(c, tab[c])
  BY RebindFailsDoes DEF LInv
<1>2. /\ ops[c] # <<>> /\ op = ops[c][1] /\ tab[c] \in TabType /\ op.at = "configuring" /\ op.kind = "switch"
      /\ Placed(op, tab[c]) /\ Len(ops[c]) = 1 /\ Newest(op, tab[c], want[c])
  BY <1>1, FirstIntends
<1>3. Coherent(tab[c])
  BY <1>2 DEF Placed
<1>4. want'[c] = Failed
  BY <1>1, <1>2 DEF Newest, TInv, Typed
<1>5. Settled(tab[c], want'[c])
  BY <1>3, <1>4, Wanted DEF Settled
<1>. QED
  BY <1>1, <1>2, <1>3, <1>5, DoneIntends

LEMMA OpStepIntends ==
    ASSUME TInv, LInv, NEW c \in Tabs, Tracks(c), Intends(c), quit = "no", NEW i, OpStep(c, i) PROVE Intends(c)'
<1>1. ~ResumePrepared(c, i) /\ ~Withdrawn(c, i)
  BY DEF LInv, NoResume, ResumePrepared, Withdrawn, At
<1>. QED
  BY <1>1, StartBeginsIntends, StartPreparedIntends, StartBootedIntends, StartConfiguredIntends, UnstagedIntends,
     SwappedIntends, StartFailsIntends, RetiredIntends, StopBeginsIntends, StopEndsIntends, SwitchPreparedIntends,
     ReboundIntends, RebindFailsIntends DEF OpStep

NInv == quit = "no" => \A c \in Tabs : Intends(c)

LEMMA WantOthers ==
    ASSUME TInv, NEW c \in Tabs, NEW i, OpStep(c, i), NEW d \in Tabs, d # c PROVE want'[d] = want[d]
<1>1. want \in [Tabs -> Launches \cup {None, Failed}]
  BY DEF TInv, Typed
<1>. QED
  BY <1>1 DEF OpStep, StartBegins, StartPrepared, StartBooted, StartConfigured, Unstaged, Swapped, StartFails, Retired,
         StopBegins, StopEnds, ResumePrepared, Withdrawn, SwitchPrepared, Rebound, RebindFails, Rejects

LEMMA OpStepIntendsAll == ASSUME TInv, LInv, TrInv, NInv, NEW c \in Tabs, NEW i, OpStep(c, i) PROVE NInv'
<1>1. UNCHANGED quit /\ \A d \in Tabs : d # c => tab'[d] = tab[d] /\ ops'[d] = ops[d] /\ want'[d] = want[d]
  BY OpStepOthers, WantOthers
<1>2. SUFFICES ASSUME quit = "no", NEW d \in Tabs PROVE Intends(d)'
  BY <1>1 DEF NInv
<1>3. CASE d = c
  BY <1>2, <1>3, OpStepIntends DEF NInv, TrInv
<1>4. CASE d # c
  BY <1>1, <1>2, <1>4 DEF NInv, Intends
<1>. QED
  BY <1>3, <1>4

LEMMA WeakerPlaced ==
    ASSUME NEW r, NEW op, SameButCurrent(r, op), r.current => op.current, NEW t, Placed(op, t)
    PROVE  Placed(r, t)
  BY DEF SameButCurrent, Placed

\* A request joins the end of the queue.
LEMMA AskedIntends ==
    ASSUME TInv, NEW c \in Tabs, Intends(c), NEW kind \in Kinds, NEW l, Asked(c, kind, l), UNCHANGED tab,
           kind \in {"start", "stop"} \/ ops[c] = <<>>,
           Newest(Op(kind, l), tab[c], want'[c])
    PROVE  Intends(c)'
<1>1. /\ ops'[c] # <<>> /\ Len(ops'[c]) = Len(ops[c]) + 1 /\ ops'[c][Len(ops[c]) + 1] = Op(kind, l)
      /\ \A i \in 1..Len(ops[c]) : /\ SameButCurrent(ops'[c][i], ops[c][i])
                                   /\ (ops'[c][i].current => ops[c][i].current)
                                   /\ (kind \in {"start", "stop"} => ~ops'[c][i].current)
  BY AskedIs
<1>2. Len(ops[c]) \in Nat /\ (ops[c] # <<>> <=> Len(ops[c]) > 0)
  BY Now, QueueIs
<1>3. \A i \in 1..Len(ops'[c]) : i < Len(ops'[c]) => ~ops'[c][i].current
  <2>1. SUFFICES ASSUME NEW i \in 1..Len(ops'[c]), i < Len(ops'[c]) PROVE ~ops'[c][i].current
    OBVIOUS
  <2>2. i \in 1..Len(ops[c]) /\ ops[c] # <<>>
    BY <1>1, <1>2, <2>1
  <2>. QED
    BY <1>1, <2>2
<1>4. Newest(ops'[c][Len(ops'[c])], tab[c], want'[c])
  BY <1>1
<1>5. Placed(ops'[c][1], tab[c])
  <2>1. CASE ops[c] = <<>>
    <3>1. ops'[c][1] = Op(kind, l) /\ Coherent(tab[c])
      BY <1>1, <1>2, <2>1 DEF Intends, Settled
    <3>. QED
      BY <3>1, NewOp DEF Placed
  <2>2. CASE ops[c] # <<>>
    <3>1. 1 \in 1..Len(ops[c]) /\ Placed(ops[c][1], tab[c])
      BY <1>2, <2>2 DEF Intends
    <3>. QED
      BY <1>1, <3>1, WeakerPlaced
  <2>. QED
    BY <2>1, <2>2
<1>. QED
  BY <1>1, <1>3, <1>4, <1>5 DEF Intends

LEMMA StartIntends ==
    ASSUME Calm, TInv, NInv, NEW c \in Tabs, NEW l \in Launches, Start(c, l) PROVE NInv'
<1>1. /\ quit = "no" /\ UNCHANGED <<tab, quit>> /\ want' = [want EXCEPT ![c] = l]
      /\ Pending(c, "start") = 1..Len(ops[c])
      /\ ops[c] # <<>> => Last(ops[c]).current
      /\ \/ UNCHANGED ops /\ Pending(c, "start") # {}
            /\ ops[c][CHOOSE i \in Pending(c, "start") : \A j \in Pending(c, "start") : j <= i].launch = l
         \/ Asked(c, "start", l)
  BY DEF Start
<1>2. want'[c] = l /\ \A d \in Tabs : d # c => want'[d] = want[d]
  BY <1>1 DEF TInv, Typed
<1>3. Intends(c)
  BY <1>1 DEF NInv
<1>4. CASE UNCHANGED ops /\ Pending(c, "start") # {}
           /\ ops[c][CHOOSE i \in Pending(c, "start") : \A j \in Pending(c, "start") : j <= i].launch = l
  <2>1. Len(ops[c]) \in Nat /\ (ops[c] # <<>> <=> Len(ops[c]) > 0)
    BY Now, QueueIs
  <2>2. Len(ops[c]) > 0
    BY <1>1, <1>4, <2>1
  <2>3. Len(ops[c]) \in 1..Len(ops[c]) /\ \A j \in 1..Len(ops[c]) : j <= Len(ops[c])
    BY <2>1, <2>2
  <2>4. PICK n : n = CHOOSE i \in 1..Len(ops[c]) : \A j \in 1..Len(ops[c]) : j <= i
    OBVIOUS
  <2>5. n \in 1..Len(ops[c]) /\ \A j \in 1..Len(ops[c]) : j <= n
    BY <2>3, <2>4
  <2>6. n = Len(ops[c])
    BY <2>1, <2>3, <2>5
  <2>7. PICK o : o = ops[c][Len(ops[c])]
    OBVIOUS
  <2>8. o.launch = l /\ o.current /\ o.kind = "start"
    <3>1. o.launch = l
      BY <1>1, <1>4, <2>4, <2>6, <2>7
    <3>2. o.current
      BY <1>1, <2>1, <2>2, <2>7 DEF Last
    <3>3. o.kind = "start"
      BY <1>1, <2>3, <2>7 DEF Pending
    <3>. QED
      BY <3>1, <3>2, <3>3
  <2>9. Intends(c)'
    BY <1>1, <1>2, <1>3, <1>4, <2>1, <2>2, <2>7, <2>8 DEF Intends, Newest
  <2>10. \A d \in Tabs : d # c => Intends(d)'
    BY <1>1, <1>2, <1>4 DEF NInv, Intends
  <2>. QED
    BY <2>9, <2>10 DEF NInv
<1>5. CASE Asked(c, "start", l)
  <2>1. Newest(Op("start", l), tab[c], want'[c])
    BY <1>2, NewOp DEF Newest
  <2>2. Intends(c)'
    BY <1>1, <1>3, <1>5, <2>1, AskedIntends DEF Kinds
  <2>3. \A d \in Tabs : d # c => ops'[d] = ops[d]
    BY <1>5, AskedIs DEF Kinds
  <2>4. \A d \in Tabs : d # c => Intends(d)'
    BY <1>1, <1>2, <2>3 DEF NInv, Intends
  <2>. QED
    BY <2>2, <2>4 DEF NInv
<1>. QED
  BY <1>1, <1>4, <1>5

LEMMA StopIntends == ASSUME Calm, TInv, NInv, NEW c \in Tabs, Stop(c) PROVE NInv'
<1>1. /\ quit = "no" /\ UNCHANGED <<tab, quit>> /\ want' = [want EXCEPT ![c] = None]
      /\ \/ UNCHANGED ops /\ Pending(c, "stop") # {}
         \/ Asked(c, "stop", None)
  BY DEF Stop
<1>2. want'[c] = None /\ \A d \in Tabs : d # c => want'[d] = want[d]
  BY <1>1 DEF TInv, Typed
<1>3. Intends(c)
  BY <1>1 DEF NInv
<1>4. CASE UNCHANGED ops /\ Pending(c, "stop") # {}
  <2>1. PICK i \in 1..Len(ops[c]) : ops[c][i].kind = "stop"
    BY <1>4 DEF Pending
  <2>2. Len(ops[c]) \in Nat /\ (ops[c] # <<>> <=> Len(ops[c]) > 0) /\ Queued(ops[c])
    BY Now, QueueIs
  <2>3. i = Len(ops[c]) /\ ops[c] # <<>>
    BY <2>1, <2>2 DEF Queued
  <2>4. Intends(c)'
    BY <1>1, <1>2, <1>3, <1>4, <2>1, <2>3 DEF Intends, Newest
  <2>5. \A d \in Tabs : d # c => Intends(d)'
    BY <1>1, <1>2, <1>4 DEF NInv, Intends
  <2>. QED
    BY <2>4, <2>5 DEF NInv
<1>5. CASE Asked(c, "stop", None)
  <2>1. Newest(Op("stop", None), tab[c], want'[c])
    BY <1>2, NewOp DEF Newest
  <2>2. Intends(c)'
    BY <1>1, <1>3, <1>5, <2>1, AskedIntends DEF Kinds
  <2>3. \A d \in Tabs : d # c => ops'[d] = ops[d]
    BY <1>5, AskedIs DEF Kinds
  <2>4. \A d \in Tabs : d # c => Intends(d)'
    BY <1>1, <1>2, <2>3 DEF NInv, Intends
  <2>. QED
    BY <2>2, <2>4 DEF NInv
<1>. QED
  BY <1>1, <1>4, <1>5

LEMMA SwitchIntends == ASSUME TInv, NInv, NEW c \in Tabs, NEW p \in Profiles, Switch(c, p) PROVE NInv'
<1>1. PICK l : Asked(c, "switch", l)
  BY DEF Switch
<1>2. quit = "no" /\ ops[c] = <<>> /\ tab[c].proc # 0 /\ UNCHANGED <<tab, want, quit>>
  BY DEF Switch, Rests, Asked
<1>3. Intends(c)
  BY <1>2 DEF NInv
<1>4. Newest(Op("switch", l), tab[c], want'[c])
  BY <1>2, <1>3, NewOp DEF Newest, Intends, Settled, Bare
<1>5. Intends(c)'
  BY <1>1, <1>2, <1>3, <1>4, AskedIntends DEF Kinds
<1>6. \A d \in Tabs : d # c => ops'[d] = ops[d]
  BY <1>1, AskedIs DEF Kinds
<1>7. \A d \in Tabs : d # c => Intends(d)'
  BY <1>2, <1>6 DEF NInv, Intends
<1>. QED
  BY <1>5, <1>7 DEF NInv

\* An eviction takes all from a consumer, and its newest request is known to
\* have failed.
LEMMA EvictIntends == ASSUME TInv, NInv, NEW h \in Hosts, Evict(h) PROVE NInv'
<1>1. /\ tab' = [c \in Tabs |-> IF tab[c].att = h THEN NoTab ELSE tab[c]]
      /\ ops' = [c \in Tabs |-> IF tab[c].att = h THEN Superseded(c) ELSE ops[c]]
      /\ want' = [c \in Tabs |-> IF tab[c].att = h /\ want[c] # None THEN Failed ELSE want[c]]
      /\ UNCHANGED quit
  BY DEF Evict
<1>2. SUFFICES ASSUME quit = "no", NEW c \in Tabs PROVE Intends(c)'
  BY <1>1 DEF NInv
<1>3. Intends(c)
  BY <1>2 DEF NInv
<1>4. CASE tab[c].att # h
  BY <1>1, <1>3, <1>4 DEF Intends
<1>5. CASE tab[c].att = h
  <2>1. tab'[c] = NoTab /\ want'[c] = IF want[c] # None THEN Failed ELSE None
    BY <1>1, <1>5
  <2>2. Bare(NoTab) /\ Coherent(NoTab)
    BY NobodyTyped DEF NoTab, Bare, Unbound, Coherent
  <2>3. Weaker(ops'[c], ops[c]) /\ \A i \in 1..Len(ops[c]) : ~ops'[c][i].current
    BY <1>1, <1>5, SupersededWeaker, QueueSuperseded DEF TInv
  <2>4. CASE ops[c] = <<>>
    <3>1. ops'[c] = <<>> /\ Len(ops'[c]) = Len(ops[c])
      BY <2>3, <2>4 DEF Weaker
    <3>. QED
      BY <1>3, <2>1, <2>2, <2>4, <3>1, Wanted DEF Intends, Settled
  <2>5. CASE ops[c] # <<>>
    <3>1. /\ Len(ops[c]) \in 1..Len(ops[c]) /\ 1 \in 1..Len(ops[c]) /\ Len(ops'[c]) = Len(ops[c]) /\ ops'[c] # <<>>
      BY <1>3, <2>3, <2>5, QueueEnds DEF Weaker
    <3>2. PICK n : n = Len(ops[c])
      OBVIOUS
    <3>3. PICK o, s, op, r : o = ops[c][n] /\ s = ops'[c][n] /\ op = ops[c][1] /\ r = ops'[c][1]
      OBVIOUS
    <3>4. /\ SameButCurrent(s, o) /\ ~s.current /\ SameButCurrent(r, op) /\ ~r.current
          /\ Fitting(o) /\ Placed(op, tab[c]) /\ Newest(o, tab[c], want[c])
      BY <1>3, <2>3, <2>5, <3>1, <3>2, <3>3, Now, QueueIs DEF Weaker, Intends
    <3>5. Placed(r, NoTab)
      BY <2>2, <3>4 DEF Placed, SameButCurrent
    <3>6. Newest(s, NoTab, want'[c])
      BY <2>1, <2>2, <3>4, Wanted DEF Newest, SameButCurrent, Fitting
    <3>7. \A i \in 1..Len(ops'[c]) : i < Len(ops'[c]) => ~ops'[c][i].current
      BY <2>3, <3>1
    <3>. QED
      BY <2>1, <3>1, <3>2, <3>3, <3>5, <3>6, <3>7 DEF Intends
  <2>. QED
    BY <2>4, <2>5
<1>. QED
  BY <1>4, <1>5

LEMMA InitIntends == ASSUME Init PROVE NInv
<1>1. Bare(NoTab) /\ Coherent(NoTab)
  BY NobodyTyped DEF NoTab, Bare, Unbound, Coherent
<1>. QED
  BY <1>1, Wanted DEF Init, NInv, Intends, Settled

LEMMA StepIntends ==
    ASSUME Calm, "resume" \notin Requests, TInv, LInv, TrInv, NInv, [Next]_vars PROVE NInv'
<1>1. CASE UNCHANGED <<tab, ops, want, quit>>
  BY <1>1 DEF NInv, Intends
<1>2. CASE quit' # "no"
  BY <1>2 DEF NInv
<1>3. ASSUME NEW c \in Tabs PROVE ~Resume(c)
  BY DEF Resume, Asked
<1>4. CASE UNCHANGED vars
  BY <1>1, <1>4 DEF vars
<1>5. ASSUME NEW h \in Hosts, HostStep(h) \/ SpawnFails(h) \/ NeverReady(h) \/ HostDies(h) PROVE NInv'
  BY <1>1, <1>5 DEF HostStep, Spawned, Ready, Killed, SpawnFails, NeverReady, HostDies
<1>6. CASE Cleanup \/ CleanupStep
  BY <1>2, <1>6 DEF Cleanup, CleanupStep, Drained, Cleaned
<1>. QED
  BY <1>3, <1>4, <1>5, <1>6, StartIntends, StopIntends, SwitchIntends, OpStepIntendsAll, EvictIntends DEF Next

\* Once the requests of a consumer have settled, the newest of them has taken
\* effect unless it failed: a consumer that asked for a launch has a host, an
\* environment and a workspace of that launch, and one that asked to stop has
\* nothing, whatever was superseded, evicted or refused on the way.
THEOREM Intention == ASSUME Calm, "resume" \notin Requests PROVE Spec => []NewestIntent
<1>1. Init => NInv
  BY InitIntends
<1>2. TInv /\ LInv /\ TrInv /\ NInv /\ [Next]_vars => NInv'
  BY StepIntends
<1>3. TInv /\ NInv => NewestIntent
  <2>1. SUFFICES ASSUME TInv, NInv, NEW c \in Tabs, quit = "no", ops[c] = <<>>
                 PROVE  /\ want[c] = None => tab[c] = [NoTab EXCEPT !.last = tab[c].last]
                        /\ want[c] \in Launches =>
                             /\ tab[c].proc # 0 /\ tab[c].att = tab[c].proc
                             /\ tab[c].last = want[c] /\ tab[c].folder = want[c].folder
                             /\ tab[c].env = [ws |-> tab[c].ws, profile |-> want[c].profile]
    BY DEF NewestIntent
  <2>2. Settled(tab[c], want[c]) /\ tab[c] \in TabType
    BY <2>1, Now DEF NInv, Intends
  <2>3. Bare(tab[c]) => tab[c] = [NoTab EXCEPT !.last = tab[c].last]
    BY <2>2 DEF Bare, Unbound, NoTab, TabType
  <2>. QED
    BY <2>2, <2>3 DEF Settled, Coherent, Has
<1>. QED
  BY <1>1, <1>2, <1>3, Types, Health, Tracking, PTL DEF Spec

---------------------------------------------------------------------------
(* Whose an environment is, without rebuilds and credentials               *)

Dead(h) == Consumers(h) = {} /\ (host[h].st = "stopping" \/ host[h].envs = {})

ByRequest(op, e, h) == op.host = h /\ e \in {op.env, op.prev}

Claims(c, e, h) ==
    \/ tab[c].env = e /\ tab[c].proc = h
    \/ ops[c] # <<>> /\ ByRequest(ops[c][1], e, h)

\* A consumer without a host, or one that retires or halts it, leaves nothing
\* in the host of its request; a start with an environment stays in its host.
Buried(op, t) ==
    /\ op.at \in {"booting", "configuring", "unstaging"} /\ t.proc = 0 => Dead(op.host)
    /\ op.at \in {"retiring", "halting"} => Dead(op.host)

StaysPut(op) == op.kind = "start" /\ op.at \in {"booting", "configuring"} => op.live = op.host \/ op.prev = None

Buries(c) == ops[c] # <<>> => Buried(ops[c][1], tab[c]) /\ StaysPut(ops[c][1])

Housed(h) ==
    /\ host[h].child \/ host[h].envs = {}
    /\ Consumers(h) # {} => host[h].key = Shared

EInv ==
    /\ \A h \in Hosts : Housed(h)
    /\ \A c \in Tabs : Buries(c)
    /\ \A h \in Hosts : \A e \in host[h].envs : host[h].st = "stopping" \/ \E c \in Tabs : Claims(c, e, h)

\* Hosts only lose environments or begin to stop, but for those in X that the
\* running host h gets.
Changes(h, X) ==
    /\ X # {} => host[h].st = "running"
    /\ \A g \in Hosts :
         /\ host'[g].key = host[g].key /\ host'[g].child = host[g].child
         /\ host'[g].st = host[g].st \/ host'[g].st = "stopping"
         /\ \A e \in host'[g].envs : e \in host[g].envs \/ (g = h /\ e \in X)

Local(c, g) ==
    \A e \in host'[g].envs :
        \/ host'[g].st = "stopping" \/ Claims(c, e, g)'
        \/ (e \in host[g].envs /\ host[g].st # "stopping" /\ ~Claims(c, e, g))

Owns(c) ==
    /\ \A g \in Hosts : Housed(g)' /\ (Dead(g) => Dead(g)' \/ Fresh(g)) /\ Local(c, g)
    /\ Buries(c)'

LEMMA ChangesHosts ==
    ASSUME TInv, LInv, EInv, NEW c \in Tabs, NEW t \in TabType, tab' = [tab EXCEPT ![c] = t], t.att \in {tab[c].att, 0},
           NEW h, NEW X, Changes(h, X), NEW g \in Hosts
    PROVE  Housed(g)' /\ (Dead(g) => Dead(g)')
<1>1. g # 0 /\ \A d \in Tabs : tab'[d].att = g => tab[d].att = g
  BY DEF Hosts, TInv, Typed
<1>2. Consumers(g) = {} => Consumers(g)' = {}
  BY <1>1 DEF Consumers
<1>3. host[g].st = "running" => host[g].child /\ Consumers(g) # {}
  BY DEF LInv, Healthy
<1>4. Housed(g)'
  BY <1>2, <1>3 DEF EInv, Housed, Changes
<1>5. Dead(g) => Dead(g)'
  BY <1>2, <1>3 DEF Dead, Changes
<1>. QED
  BY <1>4, <1>5

LEMMA DoneOwns ==
    ASSUME TInv, LInv, EInv, NEW c \in Tabs, Tracks(c), ops[c] # <<>>, NEW t \in TabType, Done(c, t), t.att \in {tab[c].att, 0},
           NEW h, NEW X, Changes(h, X),
           \A g \in Hosts : \A e \in host'[g].envs :
               Claims(c, e, g) \/ (g = h /\ e \in X) => (t.env = e /\ t.proc = g) \/ host'[g].st = "stopping"
    PROVE  Owns(c)
<1>1. tab' = [tab EXCEPT ![c] = t] /\ tab'[c] = t
  BY DEF Done, TInv, Typed
<1>2. ops'[c] # <<>> => ops'[c][1].at = "waiting"
  BY SettlesFirst DEF Done
<1>3. Buries(c)'
  <2>1. PICK r : r = ops'[c][1]
    OBVIOUS
  <2>2. ops'[c] # <<>> => r.at = "waiting"
    BY <1>2, <2>1
  <2>. QED
    BY <2>1, <2>2 DEF Buries, Buried, StaysPut
<1>4. \A g \in Hosts : Local(c, g)
  BY <1>1 DEF Local, Claims, Changes
<1>. QED
  BY <1>1, <1>3, <1>4, ChangesHosts DEF Owns

LEMMA OnOwns ==
    ASSUME TInv, LInv, EInv, NEW c \in Tabs, Tracks(c), ops[c] # <<>>, NEW t \in TabType, NEW r \in OpType, On(c, t, r),
           t.att \in {tab[c].att, 0}, NEW h, NEW X, Changes(h, X), StaysPut(r),
           r.at \in {"booting", "configuring", "unstaging"} /\ t.proc = 0 => Dead(r.host) \/ Dead(r.host)',
           r.at \in {"retiring", "halting"} => Dead(r.host)', r.at # "waiting" => r.host \in Hosts \/ r.at = "preparing",
           \A g \in Hosts : \A e \in host'[g].envs :
               Claims(c, e, g) \/ (g = h /\ e \in X) =>
                   (t.env = e /\ t.proc = g) \/ ByRequest(r, e, g) \/ host'[g].st = "stopping"
    PROVE  Owns(c)
<1>1. tab' = [tab EXCEPT ![c] = t] /\ tab'[c] = t
  BY DEF On, TInv, Typed
<1>2. ops'[c] # <<>> /\ ops'[c][1] = r
  BY GoesFirst DEF On
<1>3. \A g \in Hosts : Housed(g)' /\ (Dead(g) => Dead(g)')
  BY <1>1, ChangesHosts
<1>4. Buried(r, t)'
  BY <1>3 DEF Buried
<1>5. Buries(c)'
  BY <1>1, <1>2, <1>4 DEF Buries, Buried, StaysPut
<1>6. \A g \in Hosts : Local(c, g)
  BY <1>1, <1>2 DEF Local, Claims, Changes
<1>. QED
  BY <1>3, <1>5, <1>6 DEF Owns

\* The host changes of the steps.
Fades(hs, h, X) ==
    /\ X # {} => host[h].st = "running"
    /\ \A g \in Hosts :
         /\ hs[g].key = host[g].key /\ hs[g].child = host[g].child
         /\ hs[g].st = host[g].st \/ hs[g].st = "stopping"
         /\ \A e \in hs[g].envs : e \in host[g].envs \/ (g = h /\ e \in X)

LEMMA FadesSame == ASSUME NEW h PROVE Fades(host, h, {})
  BY DEF Fades

LEMMA FadesStopped ==
    ASSUME TInv, NEW h \in Hosts, NEW e
    PROVE  /\ EnvStopped(host, h, e) \in AllHosts /\ Fades(EnvStopped(host, h, e), h, {})
           /\ e \notin EnvStopped(host, h, e)[h].envs
<1>1. host \in AllHosts
  BY DEF TInv, Typed, AllHosts
<1>. QED
  BY <1>1, EnvStoppedIs DEF Fades, SameButEnvs

LEMMA FadesMaterialized ==
    ASSUME TInv, NEW op \in OpType, op.host # 0, op.ws # 0, op.launch \in Launches, host[op.host].st = "running"
    PROVE  /\ Materialized(op) \in AllHosts /\ Fades(Materialized(op), op.host, {Target(op)})
           /\ Target(op) \in Envs /\ Target(op) # None
<1>1. host \in AllHosts
  BY DEF TInv, Typed, AllHosts
<1>2. Target(op) # None
  BY <1>1, MaterializedIs, ProcessAssumption
<1>. QED
  BY <1>1, <1>2, MaterializedIs DEF Fades, SameButEnvs

LEMMA FadesHalted ==
    ASSUME NEW hs \in AllHosts, NEW h, NEW X, Fades(hs, h, X), NEW k \in Hosts
    PROVE  Fades(Halted(hs, k), h, X)
  BY HaltedIs DEF Fades, SameButStatus

LEMMA FadesChanges ==
    ASSUME NEW hs, NEW h, NEW X, Fades(hs, h, X), host' = hs PROVE Changes(h, X)
  BY DEF Fades, Changes

\* A host that is halted by its last consumer keeps nothing.
LEMMA HaltedDead ==
    ASSUME TInv, EInv, NEW hs \in AllHosts, NEW h, Fades(hs, h, {}), NEW k \in Hosts, host' = Halted(hs, k), Consumers(k)' = {}
    PROVE  Dead(k)'
<1>1. host[k].child \/ host[k].envs = {}
  BY DEF EInv, Housed
<1>. QED
  BY <1>1, HaltedIs DEF Fades, SameButStatus, Dead

LEMMA LastLeaves ==
    ASSUME TInv, NEW c \in Tabs, LastOf(c), NEW t \in TabType, t.att = 0, tab' = [tab EXCEPT ![c] = t], NEW k, k = tab[c].att
    PROVE  k \in Hosts /\ k = tab[c].proc /\ Consumers(k)' = {}
<1>1. k \in Hosts /\ k = tab[c].proc /\ Consumers(k) = {c} /\ k # 0
  BY Now DEF LastOf
<1>2. \A d \in Tabs : tab'[d] = IF d = c THEN t ELSE tab[d]
  BY DEF TInv, Typed
<1>. QED
  BY <1>1, <1>2 DEF Consumers

LEMMA EnvIs == ASSUME TInv, NEW g \in Hosts, NEW e \in host[g].envs PROVE e \in Envs /\ e # None
<1>1. host[g] \in HostType
  BY DEF TInv, Typed
<1>. QED
  BY <1>1, ProcessAssumption DEF HostType

\* The claims of a consumer by its first request.
LEMMA ClaimsFirst ==
    ASSUME TInv, NEW c \in Tabs, NEW op, NEW kinds, NEW place, First(c, op, kinds, place), NEW e, NEW g
    PROVE  Claims(c, e, g) <=> (tab[c].env = e /\ tab[c].proc = g) \/ ByRequest(op, e, g)
  BY DEF First, Claims

LEMMA FirstOwns ==
    ASSUME TInv, LInv, EInv, NEW c \in Tabs, Tracks(c), NEW op, NEW kinds, NEW place, First(c, op, kinds, place)
    PROVE  /\ ops[c] # <<>> /\ op \in OpType /\ op.kind \in kinds /\ op.at = place /\ tab[c] \in TabType
           /\ Loose(op) /\ Traced(op, tab[c]) /\ Buried(op, tab[c]) /\ StaysPut(op)
           /\ op.at \notin {"waiting", "preparing"} => op.host # 0 /\ op.host \in Hosts
           /\ op.at \in {"configuring"} => op.ws # 0
           /\ op.kind # "stop" => op.launch \in Launches
           /\ tab[c].proc = 0 => tab[c].env = None
           /\ op.kind \in {"start", "stop"} /\ place \notin {"halting", "unbinding"} => tab[c].att = tab[c].proc
<1>1. /\ ops[c] # <<>> /\ op \in OpType /\ op.kind \in kinds /\ op.at = place /\ tab[c] \in TabType /\ op = ops[c][1]
      /\ Loose(op) /\ Traced(op, tab[c]) /\ Fitting(op) /\ (tab[c].proc = 0 => tab[c].env = None)
      /\ op.at \notin {"waiting", "preparing"} => op.host # 0 /\ op.host \in Hosts
      /\ quit \in {"no", "draining"} /\ place \notin {"halting", "unbinding"} => tab[c].att = tab[c].proc
  BY FirstTracks
<1>2. Buried(op, tab[c]) /\ StaysPut(op)
  BY <1>1 DEF EInv, Buries
<1>3. op.kind \in {"start", "stop"} => quit \in {"no", "draining"}
  <2>1. 1 \in 1..Len(ops[c])
    BY <1>1, Now, QueueIs
  <2>2. quit \in {"no", "draining", "exiting", "done"}
    BY DEF TInv, Typed
  <2>. QED
    BY <1>1, <2>1, <2>2 DEF LInv, Leaving
<1>. QED
  BY <1>1, <1>2, <1>3 DEF Fitting

LEMMA RetireOwns ==
    ASSUME TInv, LInv, EInv, NEW c \in Tabs, Tracks(c), NEW op, NEW place \in {"booting", "configuring", "unstaging"},
           First(c, op, {"start"}, place), NEW hs \in AllHosts, NEW X, Fades(hs, op.host, X), RetireOutcome(c, op, hs),
           op.env \notin hs[op.host].envs,
           X = {} \/ (X = {op.prev} /\ op.prev # None /\ tab[c].proc = op.host /\ tab[c].env = op.prev)
    PROVE  Owns(c)
<1>1. /\ ops[c] # <<>> /\ op \in OpType /\ op.kind = "start" /\ op.at = place /\ tab[c] \in TabType
      /\ Traced(op, tab[c]) /\ Buried(op, tab[c]) /\ op.host # 0 /\ op.host \in Hosts
      /\ tab[c].proc = 0 => tab[c].env = None
      /\ tab[c].att = tab[c].proc
  BY FirstOwns
<1>2. \/ tab[c].proc = op.host /\ tab[c].env = op.prev
      \/ tab[c].proc = 0 /\ tab[c].env = None /\ Dead(op.host)
  BY <1>1 DEF Traced, Buried
<1>3. \A g \in Hosts : \A e \in hs[g].envs : e # None
  BY ProcessAssumption DEF AllHosts, HostType
<1>4. CASE (op.prev # None \/ tab[c].proc # op.host) /\ Done(c, tab[c]) /\ host' = hs
  <2>1. Changes(op.host, X)
    BY <1>4, FadesChanges
  <2>2. ASSUME NEW g \in Hosts, NEW e \in host'[g].envs, Claims(c, e, g) \/ (g = op.host /\ e \in X)
        PROVE  (tab[c].env = e /\ tab[c].proc = g) \/ host'[g].st = "stopping"
    <3>1. e # None /\ (g = op.host => e # op.env) /\ g # 0
      BY <1>3, <1>4, <2>2 DEF Hosts
    <3>2. (tab[c].env = e /\ tab[c].proc = g) \/ (g = op.host /\ e = op.prev)
      BY <2>2, <3>1, ClaimsFirst DEF ByRequest
    <3>3. CASE g = op.host /\ e = op.prev /\ tab[c].proc = 0
      <4>1. Dead(op.host)'
        BY <1>1, <1>2, <1>4, <2>1, <3>3, Itself, ChangesHosts DEF Done
      <4>. QED
        BY <2>2, <3>3, <4>1 DEF Dead
    <3>. QED
      BY <1>1, <1>2, <3>2, <3>3
  <2>. QED
    BY <1>1, <1>4, <2>1, <2>2, DoneOwns
<1>5. ASSUME NEW t \in TabType, op.prev = None, tab[c].proc = op.host, t.proc = 0, t.att = 0, t.env = tab[c].env
      PROVE  /\ ~LastOf(c) /\ host' = hs /\ Done(c, t) => Owns(c)
             /\ \A r \in OpType : LastOf(c) /\ host' = Halted(hs, tab[c].att) /\ On(c, t, r) /\ Moved(r, op, "retiring") => Owns(c)
  <2>1. X = {} /\ tab[c].env = None /\ tab[c].att = op.host
    BY <1>1, <1>2, <1>5
  <2>2. ASSUME NEW g \in Hosts, NEW e \in hs[g].envs, Claims(c, e, g) \/ (g = op.host /\ e \in X) PROVE FALSE
    <3>1. e # None /\ (g = op.host => e # op.env)
      BY <1>3, <2>2
    <3>. QED
      BY <1>5, <2>1, <2>2, <3>1, ClaimsFirst DEF ByRequest
  <2>3. ASSUME host' = hs, Done(c, t) PROVE Owns(c)
    <3>1. Changes(op.host, X)
      BY <2>3, FadesChanges
    <3>. QED
      BY <1>1, <1>5, <2>2, <2>3, <3>1, DoneOwns
  <2>4. ASSUME NEW r \in OpType, LastOf(c), host' = Halted(hs, tab[c].att), On(c, t, r), Moved(r, op, "retiring") PROVE Owns(c)
    <3>1. host' = Halted(hs, op.host) /\ Changes(op.host, X)
      BY <1>1, <2>1, <2>4, FadesHalted, FadesChanges
    <3>2. Dead(op.host)'
      <4>1. Consumers(op.host)' = {}
        BY <1>5, <2>1, <2>4, LastLeaves DEF On
      <4>. QED
        BY <1>1, <2>1, <3>1, <4>1, HaltedDead
    <3>3. \A g \in Hosts : host'[g].envs = hs[g].envs
      BY <1>1, <3>1, HaltedIs DEF SameButStatus
    <3>4. StaysPut(r) /\ r.at = "retiring" /\ r.host = op.host
      BY <2>4 DEF Moved, StaysPut
    <3>5. \A g \in Hosts : \A e \in host'[g].envs : ~(Claims(c, e, g) \/ (g = op.host /\ e \in X))
      BY <2>2, <3>3
    <3>. QED
      BY <1>1, <1>5, <2>4, <3>1, <3>2, <3>4, <3>5, OnOwns
  <2>. QED
    BY <2>3, <2>4
<1>. QED
  BY <1>4, <1>5 DEF RetireOutcome

\* A step that leaves the hosts alone and keeps the consumer's host and environment.
LEMMA KeptOwns ==
    ASSUME TInv, LInv, EInv, NEW c \in Tabs, Tracks(c), NEW op, NEW kinds, NEW place, First(c, op, kinds, place), UNCHANGED host,
           op.host = 0 \/ place \in {"booting", "configuring", "retiring"},
           Done(c, tab[c])
    PROVE  Owns(c)
<1>1. /\ ops[c] # <<>> /\ op \in OpType /\ op.at = place /\ tab[c] \in TabType
      /\ Traced(op, tab[c]) /\ Buried(op, tab[c]) /\ Loose(op)
  BY FirstOwns
<1>2. Changes(op.host, {})
  BY FadesSame, FadesChanges
<1>3. ASSUME NEW g \in Hosts, NEW e \in host[g].envs, Claims(c, e, g)
      PROVE  (tab[c].env = e /\ tab[c].proc = g) \/ host[g].st = "stopping"
  <2>1. e # None /\ g # 0
    BY <1>3, EnvIs DEF Hosts
  <2>2. CASE ByRequest(op, e, g)
    <3>1. g = op.host /\ (place = "retiring" \/ (e = op.prev /\ place \in {"booting", "configuring"}))
      BY <1>1, <2>1, <2>2 DEF ByRequest, Loose
    <3>2. (tab[c].proc = op.host /\ tab[c].env = op.prev /\ e = op.prev) \/ Dead(op.host)
      BY <1>1, <3>1 DEF Traced, Buried
    <3>. QED
      BY <1>3, <3>1, <3>2 DEF Dead
  <2>. QED
    BY <1>3, <2>2, ClaimsFirst
<1>. QED
  BY <1>1, <1>2, <1>3, DoneOwns

LEMMA StartBeginsOwns ==
    ASSUME TInv, LInv, EInv, NEW c \in Tabs, Tracks(c), NEW i, StartBegins(c, i) PROVE Owns(c)
<1>1. PICK op : /\ First(c, op, {"start"}, "waiting") /\ UNCHANGED host
                /\ \/ Done(c, tab[c])
                   \/ \E r \in OpType : On(c, tab[c], r) /\ r.at = "preparing" /\ r.host = op.host /\ r.env = op.env
  BY StartBeginsDoes
<1>2. ops[c] # <<>> /\ Loose(op) /\ op.at = "waiting" /\ tab[c] \in TabType
  BY <1>1, FirstOwns
<1>3. CASE Done(c, tab[c])
  BY <1>1, <1>2, <1>3, KeptOwns DEF Loose
<1>4. ASSUME NEW r \in OpType, On(c, tab[c], r), r.at = "preparing" PROVE Owns(c)
  <2>1. Changes(0, {})
    BY <1>1, FadesSame, FadesChanges
  <2>2. ASSUME NEW g \in Hosts, NEW e, Claims(c, e, g) PROVE tab[c].env = e /\ tab[c].proc = g
    BY <1>1, <1>2, <2>2, ClaimsFirst DEF ByRequest, Loose, Hosts
  <2>3. StaysPut(r)
    BY <1>4 DEF StaysPut
  <2>. QED
    BY <1>2, <1>4, <2>1, <2>2, <2>3, OnOwns
<1>. QED
  BY <1>1, <1>3, <1>4

LEMMA StartBootedOwns ==
    ASSUME TInv, LInv, EInv, NEW c \in Tabs, Tracks(c), NEW i, StartBooted(c, i) PROVE Owns(c)
<1>1. PICK op : /\ First(c, op, {"start"}, "booting")
                /\ \/ UNCHANGED host /\ \E r \in OpType :
                         /\ On(c, tab[c], r) /\ SameAims(r, op) /\ r.at = "configuring" /\ r.host = op.host
                         /\ r.live = op.live /\ r.prev = op.prev /\ r.env = op.env
                   \/ RetireOutcome(c, op, host)
  BY StartBootedDoes
<1>2. /\ ops[c] # <<>> /\ op \in OpType /\ op.at = "booting" /\ op.kind = "start" /\ tab[c] \in TabType
      /\ Loose(op) /\ Buried(op, tab[c]) /\ StaysPut(op) /\ op.host # 0 /\ op.host \in Hosts
  BY <1>1, FirstOwns
<1>3. CASE RetireOutcome(c, op, host)
  <2>1. host \in AllHosts
    BY DEF TInv, Typed, AllHosts
  <2>2. op.env \notin host[op.host].envs
    BY <1>2, EnvIs DEF Loose
  <2>. QED
    BY <1>1, <1>3, <2>1, <2>2, FadesSame, RetireOwns
<1>4. ASSUME UNCHANGED host, NEW r \in OpType, On(c, tab[c], r), SameAims(r, op), r.at = "configuring", r.host = op.host,
             r.live = op.live, r.prev = op.prev, r.env = op.env
      PROVE  Owns(c)
  <2>1. Changes(0, {})
    BY <1>4, FadesSame, FadesChanges
  <2>2. ASSUME NEW g \in Hosts, NEW e, Claims(c, e, g) PROVE (tab[c].env = e /\ tab[c].proc = g) \/ ByRequest(r, e, g)
    BY <1>1, <1>4, <2>2, ClaimsFirst DEF ByRequest
  <2>3. StaysPut(r) /\ (tab[c].proc = 0 => Dead(r.host)) /\ r.host \in Hosts
    BY <1>2, <1>4 DEF StaysPut, Buried, SameAims
  <2>. QED
    BY <1>2, <1>4, <2>1, <2>2, <2>3, OnOwns
<1>. QED
  BY <1>1, <1>3, <1>4

\* A consumer is bound to the environment its request made in its host.
LEMMA BindsOwns ==
    ASSUME TInv, LInv, EInv, NEW c \in Tabs, Tracks(c), NEW op, NEW kinds, First(c, op, kinds, "configuring"),
           host[op.host].st = "running", host' = Materialized(op), op.launch \in Launches,
           NEW t \in TabType, BoundTo(t, tab[c], op),
           \/ \E r \in OpType : On(c, t, r) /\ Moved(r, op, "swapping")
           \/ op.prev \in {None, Target(op)} /\ Done(c, t)
    PROVE  Owns(c)
<1>1. /\ ops[c] # <<>> /\ op \in OpType /\ op.at = "configuring" /\ tab[c] \in TabType
      /\ Loose(op) /\ op.host # 0 /\ op.host \in Hosts /\ op.ws # 0
  BY FirstOwns
<1>2. tab[c].proc = op.host /\ tab[c].env = op.prev
  BY AnswersOwn
<1>3. Changes(op.host, {Target(op)})
  BY <1>1, FadesMaterialized, FadesChanges
<1>4. t.proc = op.host /\ t.env = Target(op) /\ t.att = tab[c].att
  BY <1>2 DEF BoundTo
<1>5. ASSUME NEW g \in Hosts, NEW e \in host'[g].envs, Claims(c, e, g) \/ (g = op.host /\ e \in {Target(op)})
      PROVE  g = op.host /\ e # None /\ (e = op.prev \/ e = Target(op))
  <2>1. e # None
    BY <1>1, <1>3, <1>5, FadesMaterialized, EnvIs DEF Changes
  <2>2. Claims(c, e, g) => g = op.host /\ e \in {op.env, op.prev}
    BY <1>2, ClaimsFirst DEF ByRequest
  <2>. QED
    BY <1>1, <1>5, <2>1, <2>2 DEF Loose
<1>6. CASE op.prev \in {None, Target(op)} /\ Done(c, t)
  BY <1>1, <1>3, <1>4, <1>5, <1>6, DoneOwns
<1>7. ASSUME NEW r \in OpType, On(c, t, r), Moved(r, op, "swapping") PROVE Owns(c)
  <2>1. r.at = "swapping" /\ r.host = op.host /\ r.prev = op.prev /\ StaysPut(r)
    BY <1>7 DEF Moved, StaysPut
  <2>2. \A g \in Hosts : \A e \in host'[g].envs :
          Claims(c, e, g) \/ (g = op.host /\ e \in {Target(op)}) => (t.env = e /\ t.proc = g) \/ ByRequest(r, e, g)
    BY <1>4, <1>5, <2>1 DEF ByRequest
  <2>. QED
    BY <1>1, <1>3, <1>4, <1>7, <2>1, <2>2, OnOwns
<1>. QED
  BY <1>6, <1>7

LEMMA StartConfiguredOwns ==
    ASSUME TInv, LInv, EInv, NEW c \in Tabs, Tracks(c), NEW i, StartConfigured(c, i) PROVE Owns(c)
<1>1. PICK op : /\ First(c, op, {"start"}, "configuring") /\ host[op.host].st = "running"
                /\ \/ op.prev = Target(op) /\ RetireOutcome(c, op, Materialized(op))
                   \/ /\ host' = Materialized(op)
                      /\ \E r \in OpType : /\ On(c, tab[c], r) /\ SameAims(r, op) /\ r.at = "unstaging" /\ r.host = op.host
                                           /\ r.prev = op.prev /\ r.live = op.live /\ r.env = Target(op)
                   \/ /\ host' = Materialized(op)
                      /\ \E t \in TabType : /\ BoundTo(t, tab[c], op)
                                            /\ \/ \E r \in OpType : On(c, t, r) /\ Moved(r, op, "swapping")
                                               \/ op.prev \in {None, Target(op)} /\ Done(c, t)
  BY StartConfiguredDoes
<1>0. First(c, op, {"start"}, "configuring") /\ host[op.host].st = "running"
  BY <1>1
<1>2. /\ ops[c] # <<>> /\ op \in OpType /\ op.at = "configuring" /\ op.kind = "start" /\ tab[c] \in TabType
      /\ Loose(op) /\ op.host # 0 /\ op.host \in Hosts /\ op.ws # 0 /\ op.launch \in Launches
  BY <1>0, FirstOwns
<1>3. tab[c].proc = op.host /\ tab[c].env = op.prev
  BY <1>0, AnswersOwn
<1>4. /\ Materialized(op) \in AllHosts /\ Fades(Materialized(op), op.host, {Target(op)})
      /\ Target(op) # None
  BY <1>0, <1>2, FadesMaterialized
<1>5. CASE op.prev = Target(op) /\ RetireOutcome(c, op, Materialized(op))
  <2>1. op.env \notin Materialized(op)[op.host].envs
    BY <1>2, <1>4, EnvIs DEF Loose, Fades
  <2>. QED
    BY <1>0, <1>3, <1>4, <1>5, <2>1, RetireOwns
<1>6. ASSUME host' = Materialized(op), NEW r \in OpType, On(c, tab[c], r), SameAims(r, op), r.at = "unstaging", r.host = op.host,
             r.prev = op.prev, r.live = op.live, r.env = Target(op)
      PROVE  Owns(c)
  <2>1. Changes(op.host, {Target(op)})
    BY <1>4, <1>6, FadesChanges
  <2>2. ASSUME NEW g \in Hosts, NEW e \in host'[g].envs, Claims(c, e, g) \/ (g = op.host /\ e \in {Target(op)})
        PROVE  (tab[c].env = e /\ tab[c].proc = g) \/ ByRequest(r, e, g)
    <3>1. e # None
      BY <1>4, <2>1, <2>2, EnvIs DEF Changes
    <3>. QED
      BY <1>0, <1>2, <1>6, <2>2, <3>1, ClaimsFirst DEF ByRequest, Loose
  <2>3. StaysPut(r) /\ tab[c].proc # 0
    BY <1>2, <1>3, <1>6 DEF StaysPut
  <2>. QED
    BY <1>2, <1>6, <2>1, <2>2, <2>3, OnOwns
<1>7. ASSUME host' = Materialized(op), NEW t \in TabType, BoundTo(t, tab[c], op),
             \/ \E r \in OpType : On(c, t, r) /\ Moved(r, op, "swapping")
             \/ op.prev \in {None, Target(op)} /\ Done(c, t)
      PROVE  Owns(c)
  BY <1>0, <1>2, <1>7, BindsOwns
<1>. QED
  BY <1>1, <1>5, <1>6, <1>7

LEMMA UnstagedOwns ==
    ASSUME TInv, LInv, EInv, NEW c \in Tabs, Tracks(c), NEW i, Unstaged(c, i) PROVE Owns(c)
<1>1. PICK op : First(c, op, {"start"}, "unstaging") /\ RetireOutcome(c, op, EnvStopped(host, op.host, op.env))
  BY UnstagedDoes
<1>2. op.host \in Hosts
  BY <1>1, FirstOwns
<1>. QED
  BY <1>1, <1>2, FadesStopped, RetireOwns

LEMMA SwappedOwns ==
    ASSUME TInv, LInv, EInv, NEW c \in Tabs, Tracks(c), NEW i, Swapped(c, i) PROVE Owns(c)
<1>1. PICK op, t : /\ First(c, op, {"start", "switch"}, "swapping") /\ host' = EnvStopped(host, op.host, op.prev)
                   /\ t \in TabType /\ Done(c, t)
                   /\ t.proc = tab[c].proc /\ t.att = tab[c].att /\ t.env = tab[c].env
  BY SwappedDoes
<1>0. First(c, op, {"start", "switch"}, "swapping")
  BY <1>1
<1>2. ops[c] # <<>> /\ Loose(op) /\ op.host \in Hosts /\ op.at = "swapping"
  BY <1>0, FirstOwns
<1>3. Changes(op.host, {}) /\ op.prev \notin host'[op.host].envs
  BY <1>1, <1>2, FadesStopped, FadesChanges
<1>4. ASSUME NEW g \in Hosts, NEW e \in host'[g].envs, Claims(c, e, g) PROVE t.env = e /\ t.proc = g
  <2>1. e # None /\ (g = op.host => e # op.prev)
    BY <1>3, <1>4, EnvIs DEF Changes
  <2>. QED
    BY <1>0, <1>1, <1>2, <1>4, <2>1, ClaimsFirst DEF ByRequest, Loose
<1>. QED
  BY <1>1, <1>2, <1>3, <1>4, DoneOwns

LEMMA StartFailsOwns ==
    ASSUME TInv, LInv, EInv, NEW c \in Tabs, Tracks(c), NEW i, StartFails(c, i) PROVE Owns(c)
<1>1. PICK op : /\ First(c, op, {"start"}, "configuring")
                /\ \/ Done(c, tab[c]) /\ UNCHANGED host
                   \/ op.live # op.host /\ Done(c, NoTab) /\ UNCHANGED host
                   \/ /\ op.live # op.host /\ LastOf(c) /\ host' = Halted(host, op.host)
                      /\ \E r \in OpType : On(c, NoTab, r) /\ Moved(r, op, "retiring")
  BY StartFailsDoes
<1>0. First(c, op, {"start"}, "configuring")
  BY <1>1
<1>2. /\ ops[c] # <<>> /\ op \in OpType /\ op.at = "configuring" /\ op.kind = "start" /\ tab[c] \in TabType
      /\ Loose(op) /\ Traced(op, tab[c]) /\ StaysPut(op) /\ op.host # 0 /\ op.host \in Hosts
      /\ (tab[c].proc = 0 => tab[c].env = None) /\ tab[c].att = tab[c].proc
  BY <1>0, FirstOwns
<1>3. NoTab \in TabType /\ NoTab.att = 0 /\ NoTab.proc = 0
  BY NobodyTyped
<1>4. ASSUME op.live # op.host, NEW g \in Hosts, NEW e \in host[g].envs, Claims(c, e, g) PROVE FALSE
  <2>1. e # None
    BY <1>4, EnvIs
  <2>. QED
    BY <1>0, <1>2, <1>4, <2>1, ClaimsFirst DEF ByRequest, Loose, StaysPut, Traced
<1>5. CASE Done(c, tab[c]) /\ UNCHANGED host
  BY <1>0, <1>5, KeptOwns
<1>6. CASE op.live # op.host /\ Done(c, NoTab) /\ UNCHANGED host
  <2>1. Changes(0, {})
    BY <1>6, FadesSame, FadesChanges
  <2>. QED
    BY <1>2, <1>3, <1>4, <1>6, <2>1, DoneOwns
<1>7. ASSUME op.live # op.host, LastOf(c), host' = Halted(host, op.host),
             NEW r \in OpType, On(c, NoTab, r), Moved(r, op, "retiring")
      PROVE  Owns(c)
  <2>1. host \in AllHosts
    BY DEF TInv, Typed, AllHosts
  <2>7. Changes(0, {})
    BY <1>2, <1>7, <2>1, FadesSame, FadesHalted, FadesChanges
  <2>8. \A g \in Hosts : host'[g].envs = host[g].envs
    BY <1>2, <1>7, <2>1, HaltedIs DEF SameButStatus
  <2>2. Changes(0, {}) /\ \A g \in Hosts : host'[g].envs = host[g].envs
    BY <2>7, <2>8
  <2>3. tab[c].att = op.host
    BY <1>2, <1>7 DEF LastOf, Traced
  <2>4. Dead(op.host)'
    BY <1>2, <1>3, <1>7, <2>1, <2>3, FadesSame, LastLeaves, HaltedDead DEF On
  <2>5. r.at = "retiring" /\ r.host = op.host /\ StaysPut(r)
    BY <1>7 DEF Moved, StaysPut
  <2>6. \A g \in Hosts : \A e \in host'[g].envs : ~Claims(c, e, g)
    BY <1>4, <1>7, <2>2
  <2>. QED
    BY <1>2, <1>3, <1>7, <2>2, <2>4, <2>5, <2>6, OnOwns
<1>. QED
  BY <1>1, <1>5, <1>6, <1>7

LEMMA RetiredOwns ==
    ASSUME TInv, LInv, EInv, NEW c \in Tabs, Tracks(c), NEW i, Retired(c, i) PROVE Owns(c)
<1>1. PICK op : First(c, op, {"start"}, "retiring") /\ Done(c, tab[c]) /\ UNCHANGED host
  BY RetiredDoes
<1>. QED
  BY <1>1, KeptOwns

LEMMA StopBeginsOwns ==
    ASSUME TInv, LInv, EInv, NEW c \in Tabs, Tracks(c), NEW i, StopBegins(c, i) PROVE Owns(c)
<1>1. PICK op : /\ First(c, op, {"stop"}, "waiting")
                /\ \/ Done(c, tab[c]) /\ UNCHANGED host
                   \/ /\ tab[c].proc # 0
                      /\ \E t \in TabType, r \in OpType :
                           /\ t.proc = tab[c].proc /\ t.att = 0 /\ t.env = tab[c].env /\ On(c, t, r) /\ SameAims(r, op)
                           /\ r.host = tab[c].proc /\ r.prev = tab[c].env
                           /\ \/ LastOf(c) /\ host' = Halted(host, tab[c].proc) /\ r.at = "halting"
                              \/ UNCHANGED host /\ r.at = "unbinding"
                   \/ /\ tab[c].proc # 0 /\ UNCHANGED host /\ (tab[c].att = 0 \/ tab[c].env = None)
                      /\ \E t \in TabType : BareAs(t, tab[c].last) /\ Done(c, t)
  BY StopBeginsDoes
<1>0. First(c, op, {"stop"}, "waiting")
  BY <1>1
<1>2. /\ ops[c] # <<>> /\ op \in OpType /\ op.at = "waiting" /\ op.kind = "stop" /\ tab[c] \in TabType
      /\ Loose(op) /\ tab[c].att = tab[c].proc
  BY <1>0, FirstOwns
<1>3. \A g \in Hosts : \A e : Claims(c, e, g) => tab[c].env = e /\ tab[c].proc = g
  BY <1>0, <1>2, ClaimsFirst DEF ByRequest, Loose, Hosts
<1>4. CASE Done(c, tab[c]) /\ UNCHANGED host
  BY <1>0, <1>2, <1>4, KeptOwns DEF Loose
<1>5. ASSUME UNCHANGED host, tab[c].proc # 0, tab[c].att = 0 \/ tab[c].env = None, NEW t \in TabType,
             BareAs(t, tab[c].last), Done(c, t)
      PROVE  Owns(c)
  <2>1. Changes(0, {})
    BY <1>5, FadesSame, FadesChanges
  <2>2. ASSUME NEW g \in Hosts, NEW e \in host[g].envs PROVE ~Claims(c, e, g)
    BY <1>2, <1>3, <1>5, <2>2, EnvIs
  <2>. QED
    BY <1>2, <1>5, <2>1, <2>2, DoneOwns DEF BareAs
<1>6. ASSUME tab[c].proc # 0, NEW t \in TabType, NEW r \in OpType, t.proc = tab[c].proc, t.att = 0, t.env = tab[c].env,
             On(c, t, r), SameAims(r, op), r.host = tab[c].proc, r.prev = tab[c].env,
             \/ LastOf(c) /\ host' = Halted(host, tab[c].proc) /\ r.at = "halting"
             \/ UNCHANGED host /\ r.at = "unbinding"
      PROVE  Owns(c)
  <2>1. host \in AllHosts /\ tab[c].proc \in Hosts
    BY <1>6, Now
  <2>2. Changes(0, {})
    BY <1>6, <2>1, FadesSame, FadesHalted, FadesChanges
  <2>3. r.at = "halting" => Dead(r.host)'
    <3>1. SUFFICES ASSUME LastOf(c), host' = Halted(host, tab[c].proc) PROVE Dead(r.host)'
      BY <1>6
    <3>2. PICK k : k = tab[c].proc
      OBVIOUS
    <3>3. Consumers(k)' = {}
      BY <1>2, <1>6, <3>1, <3>2, LastLeaves DEF On
    <3>. QED
      BY <1>6, <2>1, <3>1, <3>2, <3>3, FadesSame, HaltedDead
  <2>4. StaysPut(r) /\ \A g \in Hosts : \A e : Claims(c, e, g) => t.env = e /\ t.proc = g
    BY <1>2, <1>3, <1>6 DEF StaysPut, SameAims
  <2>. QED
    BY <1>2, <1>6, <2>1, <2>2, <2>3, <2>4, OnOwns
<1>. QED
  BY <1>1, <1>4, <1>5, <1>6

LEMMA StopEndsOwns ==
    ASSUME TInv, LInv, EInv, NEW c \in Tabs, Tracks(c), NEW i, StopEnds(c, i) PROVE Owns(c)
<1>1. PICK op, t : /\ \/ First(c, op, {"stop"}, "halting") /\ host[op.host].st # "stopping" /\ UNCHANGED host
                      \/ First(c, op, {"stop"}, "unbinding") /\ host' = EnvStopped(host, op.host, op.prev)
                   /\ t \in TabType /\ BareAs(t, tab[c].last) /\ Done(c, t)
  BY StopEndsDoes
<1>2. \E place \in {"halting", "unbinding"} : First(c, op, {"stop"}, place)
  BY <1>1
<1>3. PICK place \in {"halting", "unbinding"} : First(c, op, {"stop"}, place)
  BY <1>2
<1>4. /\ ops[c] # <<>> /\ op \in OpType /\ op.at = place /\ Loose(op) /\ Traced(op, tab[c]) /\ Buried(op, tab[c])
      /\ op.host \in Hosts
  BY <1>3, FirstOwns
<1>5. Changes(op.host, {})
  BY <1>1, <1>4, FadesSame, FadesStopped, FadesChanges
<1>6. op.prev \notin host'[op.host].envs
  <2>1. CASE First(c, op, {"stop"}, "halting") /\ host[op.host].st # "stopping" /\ UNCHANGED host
    BY <1>4, <2>1 DEF Buried, Dead, First
  <2>2. CASE host' = EnvStopped(host, op.host, op.prev)
    BY <1>4, <2>2, FadesStopped
  <2>. QED
    BY <1>1, <2>1, <2>2
<1>7. ASSUME NEW g \in Hosts, NEW e \in host'[g].envs PROVE ~Claims(c, e, g)
  <2>1. e # None /\ (g = op.host => e # op.prev)
    BY <1>5, <1>6, <1>7, EnvIs DEF Changes
  <2>2. tab[c].proc = op.host /\ tab[c].env = op.prev /\ op.env = None
    BY <1>4 DEF Traced, Loose
  <2>. QED
    BY <1>3, <2>1, <2>2, ClaimsFirst DEF ByRequest
<1>. QED
  BY <1>1, <1>4, <1>5, <1>7, DoneOwns DEF BareAs

LEMMA SwitchPreparedOwns ==
    ASSUME TInv, LInv, EInv, NEW c \in Tabs, Tracks(c), NEW i, SwitchPrepared(c, i) PROVE Owns(c)
<1>1. PICK op : /\ First(c, op, {"switch"}, "waiting") /\ UNCHANGED host
                /\ \/ Done(c, tab[c])
                   \/ /\ tab[c].proc # 0
                      /\ \E r \in OpType : /\ On(c, tab[c], r) /\ SameAims(r, op) /\ r.at = "configuring"
                                           /\ r.host = tab[c].proc /\ r.prev = tab[c].env /\ r.env = op.env
  BY SwitchPreparedDoes
<1>0. First(c, op, {"switch"}, "waiting")
  BY <1>1
<1>2. ops[c] # <<>> /\ Loose(op) /\ op.at = "waiting" /\ op.kind = "switch" /\ tab[c] \in TabType
  BY <1>0, FirstOwns
<1>3. CASE Done(c, tab[c])
  BY <1>0, <1>1, <1>2, <1>3, KeptOwns DEF Loose
<1>4. ASSUME tab[c].proc # 0, NEW r \in OpType, On(c, tab[c], r), SameAims(r, op), r.at = "configuring",
             r.host = tab[c].proc
      PROVE  Owns(c)
  <2>1. Changes(0, {})
    BY <1>1, FadesSame, FadesChanges
  <2>2. ASSUME NEW g \in Hosts, NEW e, Claims(c, e, g) PROVE tab[c].env = e /\ tab[c].proc = g
    BY <1>0, <1>2, <2>2, ClaimsFirst DEF ByRequest, Loose, Hosts
  <2>3. StaysPut(r) /\ r.host \in Hosts
    BY <1>2, <1>4, Now DEF StaysPut, SameAims
  <2>. QED
    BY <1>2, <1>4, <2>1, <2>2, <2>3, OnOwns
<1>. QED
  BY <1>1, <1>3, <1>4

LEMMA ReboundOwns ==
    ASSUME TInv, LInv, EInv, NEW c \in Tabs, Tracks(c), NEW i, Rebound(c, i) PROVE Owns(c)
<1>1. PICK op : /\ First(c, op, {"switch"}, "configuring") /\ host[op.host].st = "running"
                /\ host' = Materialized(op)
                /\ \E t \in TabType :
                     /\ BoundTo(t, tab[c], op)
                     /\ \/ \E r \in OpType : On(c, t, r) /\ Moved(r, op, "swapping")
                        \/ op.prev \in {None, Target(op)} /\ Done(c, t)
  BY ReboundDoes DEF LInv
<1>0. First(c, op, {"switch"}, "configuring")
  BY <1>1
<1>2. op.launch \in Launches
  BY <1>0 DEF First, Fitting
<1>. QED
  BY <1>0, <1>1, <1>2, BindsOwns

LEMMA RebindFailsOwns ==
    ASSUME TInv, LInv, EInv, NEW c \in Tabs, Tracks(c), NEW i, RebindFails(c, i) PROVE Owns(c)
<1>1. PICK op : First(c, op, {"switch"}, "configuring") /\ UNCHANGED host /\ Done(c, tab[c])
  BY RebindFailsDoes DEF LInv
<1>. QED
  BY <1>1, KeptOwns

\* Without credentials every consumer shares one key: a start stays in the host
\* of its consumer, or joins others, or makes a host where there is none.
LEMMA AttachesOwn ==
    ASSUME TInv, LInv, EInv, Credentialed = {}, NEW c \in Tabs, tab[c].att = tab[c].proc, NEW l, NEW h \in Hosts,
           Attaches(c, KeyOf(c, l), h),
           \/ host' = AttachedHosts(c, KeyOf(c, l), h)
           \/ host' = Boot(AttachedHosts(c, KeyOf(c, l), h), h)
    PROVE  /\ \A g \in Hosts : g # h => host'[g] = host[g]
           /\ \/ tab[c].proc = h
              \/ tab[c].proc = 0 /\ (Consumers(h) # {} \/ Fresh(h))
           /\ Consumers(h) # {} => /\ host'[h].envs = host[h].envs /\ host'[h].child = host[h].child
                                   /\ host'[h].key = host[h].key
           /\ Consumers(h) = {} => host'[h].envs = {} /\ host'[h].key = Shared
<1>1. KeyOf(c, l) = Shared
  BY DEF KeyOf
<1>2. tab[c].att # 0 => h = tab[c].att
  <2>1. SUFFICES ASSUME tab[c].att # 0 PROVE h = tab[c].att
    OBVIOUS
  <2>2. tab[c].att \in Hosts /\ c \in Consumers(tab[c].att)
    BY <2>1, Now DEF Consumers
  <2>3. host[tab[c].att].key = Shared
    BY <2>2 DEF EInv, Housed
  <2>. QED
    BY <1>1, <2>1, <2>3 DEF Attaches
<1>3. tab[c].proc = h \/ (tab[c].proc = 0 /\ (Consumers(h) # {} \/ Fresh(h)))
  BY <1>1, <1>2, AttachesIs DEF Hosts
<1>4. Shared \in Tabs \cup {Shared} /\ Typed
  BY DEF TInv
<1>5. PICK hs : hs = AttachedHosts(c, Shared, h)
  OBVIOUS
<1>6. /\ hs \in AllHosts
      /\ \A g \in Hosts : g # h => hs[g] = host[g]
      /\ hs[h] = IF Consumers(h) = {} THEN [NoHost EXCEPT !.key = Shared] ELSE host[h]
  <2>1. tab[c].att = h \/ ~LastOf(c)
    BY <1>2 DEF LastOf
  <2>. QED
    BY <1>4, <1>5, <2>1, AttachedIs
<1>7. PICK x : x = [NoHost EXCEPT !.key = Shared]
  OBVIOUS
<1>8. x.envs = {} /\ x.key = Shared
  BY <1>7, NewHostIs
<1>9. host' = hs \/ host' = Boot(hs, h)
  BY <1>1, <1>5
<1>10. /\ \A g \in Hosts : g # h => host'[g] = hs[g]
       /\ host'[h].envs = hs[h].envs /\ host'[h].child = hs[h].child /\ host'[h].key = hs[h].key
  <2>1. CASE host' = hs
    BY <2>1
  <2>2. CASE host' = Boot(hs, h)
    BY <1>6, <2>2, BootIs
  <2>. QED
    BY <1>9, <2>1, <2>2
<1>. QED
  BY <1>3, <1>6, <1>7, <1>8, <1>10

LEMMA StartPreparedOwns ==
    ASSUME TInv, LInv, EInv, Credentialed = {}, NEW c \in Tabs, Tracks(c), NEW i, StartPrepared(c, i) PROVE Owns(c)
<1>1. PICK op : /\ First(c, op, {"start"}, "preparing")
                /\ \/ Done(c, tab[c]) /\ UNCHANGED host
                   \/ /\ op.current
                      /\ \E h \in Hosts, t \in TabType, r \in OpType :
                           /\ Attaches(c, KeyOf(c, op.launch), h)
                           /\ \/ host' = AttachedHosts(c, KeyOf(c, op.launch), h) /\ r.at = "configuring"
                              \/ host' = Boot(AttachedHosts(c, KeyOf(c, op.launch), h), h) /\ r.at = "booting"
                           /\ On(c, t, r) /\ SameAims(r, op) /\ r.host = h
                           /\ r.live = op.live /\ r.prev = op.prev /\ r.env = op.env
                           /\ t.proc = h /\ t.att = h /\ t.env = tab[c].env
  BY StartPreparedDoes
<1>0. First(c, op, {"start"}, "preparing")
  BY <1>1
<1>2. /\ ops[c] # <<>> /\ op \in OpType /\ op.at = "preparing" /\ op.kind = "start" /\ tab[c] \in TabType
      /\ Loose(op) /\ Traced(op, tab[c]) /\ tab[c].att = tab[c].proc /\ (tab[c].proc = 0 => tab[c].env = None)
  BY <1>0, FirstOwns
<1>3. CASE Done(c, tab[c]) /\ UNCHANGED host
  BY <1>0, <1>2, <1>3, KeptOwns DEF Loose
<1>4. ASSUME op.current, NEW h \in Hosts, NEW t \in TabType, NEW r \in OpType,
             Attaches(c, KeyOf(c, op.launch), h),
             \/ host' = AttachedHosts(c, KeyOf(c, op.launch), h) /\ r.at = "configuring"
             \/ host' = Boot(AttachedHosts(c, KeyOf(c, op.launch), h), h) /\ r.at = "booting",
             On(c, t, r), SameAims(r, op), r.host = h, r.live = op.live, r.prev = op.prev, r.env = op.env,
             t.proc = h, t.att = h, t.env = tab[c].env
      PROVE  Owns(c)
  <2>1. /\ \A g \in Hosts : g # h => host'[g] = host[g]
        /\ \/ tab[c].proc = h
           \/ tab[c].proc = 0 /\ (Consumers(h) # {} \/ Fresh(h))
        /\ Consumers(h) # {} => /\ host'[h].envs = host[h].envs /\ host'[h].child = host[h].child
                                /\ host'[h].key = host[h].key
        /\ Consumers(h) = {} => host'[h].envs = {} /\ host'[h].key = Shared
    BY <1>2, <1>4, AttachesOwn
  <2>2. op.prev = tab[c].env /\ op.live = tab[c].proc /\ op.env = None /\ op.host = 0
    BY <1>2, <1>4 DEF Traced, Loose
  <2>3. StaysPut(r)
    BY <1>2, <1>4, <2>1, <2>2 DEF StaysPut
  <2>4. tab' = [tab EXCEPT ![c] = t] /\ tab'[c] = t /\ \A d \in Tabs : d # c => tab'[d] = tab[d]
    BY <1>4 DEF On, TInv, Typed
  <2>5. ops'[c] # <<>> /\ ops'[c][1] = r
    BY <1>2, <1>4, GoesFirst DEF On
  <2>6. h # 0 /\ 0 \notin Hosts
    BY DEF Hosts
  <2>7. Buries(c)'
    <3>1. r.at \in {"booting", "configuring"}
      BY <1>4
    <3>2. Buried(r, t)' /\ StaysPut(r)'
      BY <1>4, <2>3, <2>6, <3>1 DEF Buried, StaysPut
    <3>. QED
      BY <2>4, <2>5, <3>1, <2>3, <1>4, <2>6 DEF Buries, Buried, StaysPut
  <2>8. ASSUME NEW g \in Hosts PROVE Housed(g)' /\ (Dead(g) => Dead(g)' \/ Fresh(g)) /\ Local(c, g)
    <3>1. tab[c].att \in {0, h}
      BY <1>2, <2>1
    <3>2. g # h => host'[g] = host[g] /\ Consumers(g)' = Consumers(g)
      BY <1>4, <2>1, <2>4, <2>6, <3>1 DEF Consumers
    <3>3. Consumers(h) = {} => Fresh(h)
      <4>1. tab[c].proc = h => c \in Consumers(h)
        BY <1>2 DEF Consumers
      <4>. QED
        BY <2>1, <4>1
    <3>4. Housed(g)'
      BY <2>1, <3>2 DEF EInv, Housed
    <3>5. Dead(g) => Dead(g)' \/ Fresh(g)
      BY <3>2, <3>3 DEF Dead
    <3>6. ASSUME NEW e \in host'[g].envs
          PROVE  host'[g].st = "stopping" \/ Claims(c, e, g)' \/ (e \in host[g].envs /\ host[g].st # "stopping" /\ ~Claims(c, e, g))
      <4>1. e \in host[g].envs /\ e # None
        BY <2>1, <3>2, <3>6, EnvIs
      <4>2. host[g].st = "stopping" => host'[g].st = "stopping"
        BY <2>1, <3>2, <3>6 DEF LInv, Healthy
      <4>3. Claims(c, e, g) => Claims(c, e, g)'
        <5>1. Claims(c, e, g) => tab[c].env = e /\ tab[c].proc = g
          BY <1>0, <2>2, <2>6, ClaimsFirst DEF ByRequest
        <5>2. tab[c].env = e /\ tab[c].proc = g => t.env = e /\ t.proc = g
          BY <1>2, <1>4, <2>1, <4>1
        <5>. QED
          BY <2>4, <5>1, <5>2 DEF Claims
      <4>. QED
        BY <4>1, <4>2, <4>3
    <3>. QED
      BY <3>4, <3>5, <3>6 DEF Local
  <2>. QED
    BY <2>7, <2>8 DEF Owns
<1>. QED
  BY <1>1, <1>3, <1>4

LEMMA OpStepOwns == ASSUME TInv, LInv, EInv, Credentialed = {}, NEW c \in Tabs, Tracks(c), NEW i, OpStep(c, i) PROVE Owns(c)
<1>1. ~ResumePrepared(c, i) /\ ~Withdrawn(c, i)
  BY DEF LInv, NoResume, ResumePrepared, Withdrawn, At
<1>. QED
  BY <1>1, StartBeginsOwns, StartPreparedOwns, StartBootedOwns, StartConfiguredOwns, UnstagedOwns, SwappedOwns,
     StartFailsOwns, RetiredOwns, StopBeginsOwns, StopEndsOwns, SwitchPreparedOwns, ReboundOwns, RebindFailsOwns
  DEF OpStep

LEMMA OpStepOwnsAll ==
    ASSUME TInv, LInv, TrInv, EInv, Credentialed = {}, NEW c \in Tabs, NEW i, OpStep(c, i) PROVE EInv'
<1>1. \A d \in Tabs : d # c => tab'[d] = tab[d] /\ ops'[d] = ops[d]
  BY OpStepOthers
<1>2. Owns(c)
  BY OpStepOwns DEF TrInv
<1>3. ASSUME NEW d \in Tabs, d # c PROVE Buries(d)'
  <2>1. PICK op : op = ops[d][1]
    OBVIOUS
  <2>2. SUFFICES ASSUME ops[d] # <<>> PROVE Buried(op, tab[d])' /\ StaysPut(op)
    BY <1>1, <1>3, <2>1 DEF Buries, StaysPut
  <2>3. Buried(op, tab[d]) /\ StaysPut(op)
    BY <2>1, <2>2 DEF EInv, Buries
  <2>4. 1 \in 1..Len(ops[d]) /\ op \in OpType /\ Fitting(op)
    BY <2>1, <2>2, Now, QueueIs
  <2>5. op.at \notin {"waiting", "preparing"} => op.host \in Hosts /\ ~Fresh(op.host)
    BY <2>1, <2>4, OpFields DEF Fitting, Fresh, Used
  <2>6. op.at \notin {"waiting", "preparing"} /\ Dead(op.host) => Dead(op.host)'
    BY <1>2, <2>5 DEF Owns
  <2>. QED
    BY <1>1, <1>3, <2>3, <2>6 DEF Buried
<1>4. ASSUME NEW g \in Hosts, NEW e \in host'[g].envs PROVE host'[g].st = "stopping" \/ \E d \in Tabs : Claims(d, e, g)'
  <2>1. \/ host'[g].st = "stopping" \/ Claims(c, e, g)'
        \/ (e \in host[g].envs /\ host[g].st # "stopping" /\ ~Claims(c, e, g))
    BY <1>2, <1>4 DEF Owns, Local
  <2>2. CASE e \in host[g].envs /\ host[g].st # "stopping" /\ ~Claims(c, e, g)
    <3>1. PICK d \in Tabs : Claims(d, e, g)
      BY <2>2 DEF EInv
    <3>2. d # c
      BY <2>2, <3>1
    <3>3. Claims(d, e, g)'
      BY <1>1, <3>1, <3>2 DEF Claims
    <3>. QED
      BY <3>3
  <2>. QED
    BY <2>1, <2>2
<1>5. Buries(c)' /\ \A g \in Hosts : Housed(g)'
  BY <1>2 DEF Owns
<1>. QED
  BY <1>3, <1>4, <1>5 DEF EInv

\* The steps of everybody else leave each first request where it is, and take a
\* host from its consumer only with all its environments.
FirstKept(c) ==
    /\ ops[c] # <<>> => ops'[c] # <<>> /\ SameButCurrent(ops'[c][1], ops[c][1])
    /\ ops[c] = <<>> /\ ops'[c] # <<>> => ops'[c][1].at = "waiting"

Bereft(c) ==
    \/ tab'[c].proc = tab[c].proc /\ tab'[c].env = tab[c].env
    \/ tab'[c].proc = 0 /\ \A k \in Hosts : tab[c].proc = k => Dead(k)'

Aged(g) ==
    /\ Housed(g)' /\ (Dead(g) => Dead(g)') /\ host'[g].envs \subseteq host[g].envs
    /\ host[g].st = "stopping" => host'[g].st = "stopping" \/ host'[g].envs = {}

LEMMA StillOwns ==
    ASSUME TInv, TrInv, EInv, \A c \in Tabs : FirstKept(c) /\ Bereft(c), \A g \in Hosts : Aged(g) PROVE EInv'
<1>1. ASSUME NEW c \in Tabs PROVE Buries(c)'
  <2>1. PICK op, r, t, u : op = ops[c][1] /\ r = ops'[c][1] /\ t = tab[c] /\ u = tab'[c]
    OBVIOUS
  <2>2. SUFFICES ASSUME ops'[c] # <<>>, r.at # "waiting" PROVE Buried(r, u)' /\ StaysPut(r)
    BY <2>1 DEF Buries, Buried, StaysPut
  <2>3. ops[c] # <<>> /\ SameButCurrent(r, op)
    BY <2>1, <2>2 DEF FirstKept
  <2>4. Buried(op, t) /\ StaysPut(op) /\ Traced(op, t)
    BY <2>1, <2>3 DEF EInv, Buries, TrInv, Tracks
  <2>5. op.at \notin {"waiting", "preparing"} => op.host \in Hosts
    BY <2>1, <2>3, Now, QueueIs, OpFields DEF Fitting
  <2>6. op.at \notin {"waiting", "preparing"} /\ Dead(op.host) => Dead(op.host)'
    BY <2>5 DEF Aged
  <2>7. op.at \in {"booting", "configuring", "unstaging"} /\ u.proc = 0 => Dead(op.host)'
    <3>1. CASE t.proc = 0
      BY <2>4, <2>6, <3>1 DEF Buried
    <3>2. ASSUME t.proc # 0, u.proc = 0, op.at \in {"booting", "configuring", "unstaging"} PROVE Dead(op.host)'
      <4>1. PICK k : k = tab[c].proc
        OBVIOUS
      <4>3. k = op.host /\ k \in Hosts
        BY <2>1, <2>4, <2>5, <3>2, <4>1 DEF Traced
      <4>2. Dead(k)'
        BY <2>1, <3>2, <4>1, <4>3 DEF Bereft
      <4>. QED
        BY <4>2, <4>3
    <3>. QED
      BY <3>1, <3>2
  <2>8. op.at \in {"retiring", "halting"} => Dead(op.host)'
    BY <2>4, <2>6 DEF Buried
  <2>9. Buried(r, u)'
    BY <2>3, <2>7, <2>8 DEF Buried, SameButCurrent
  <2>. QED
    BY <2>3, <2>4, <2>9 DEF StaysPut, SameButCurrent
<1>2. ASSUME NEW g \in Hosts, NEW e \in host'[g].envs PROVE host'[g].st = "stopping" \/ \E c \in Tabs : Claims(c, e, g)'
  <2>1. e \in host[g].envs /\ (host[g].st = "stopping" => host'[g].st = "stopping")
    BY <1>2 DEF Aged
  <2>2. SUFFICES ASSUME NEW c \in Tabs, Claims(c, e, g) PROVE host'[g].st = "stopping" \/ Claims(c, e, g)'
    BY <2>1 DEF EInv
  <2>3. CASE ops[c] # <<>> /\ ByRequest(ops[c][1], e, g)
    BY <2>3 DEF FirstKept, SameButCurrent, ByRequest, Claims
  <2>4. CASE tab[c].env = e /\ tab[c].proc = g
    <3>1. g # 0
      BY DEF Hosts
    <3>3. (tab'[c].proc = g /\ tab'[c].env = e) \/ Dead(g)'
      BY <2>4, <3>1 DEF Bereft
    <3>. QED
      BY <1>2, <2>4, <3>3 DEF Claims, Dead
  <2>. QED
    BY <2>2, <2>3, <2>4 DEF Claims
<1>. QED
  BY <1>1, <1>2 DEF EInv, Aged

LEMMA SameFirst == ASSUME NEW c, ops'[c] = ops[c] PROVE FirstKept(c)
  BY DEF FirstKept, SameButCurrent

LEMMA SameAged == ASSUME EInv, NEW g \in Hosts, host'[g] = host[g], Consumers(g)' = Consumers(g) PROVE Aged(g)
  BY DEF EInv, Housed, Aged, Dead

LEMMA AskedOwns ==
    ASSUME TInv, TrInv, EInv, NEW c \in Tabs, NEW kind \in Kinds, NEW l, Asked(c, kind, l), UNCHANGED <<tab, host>>
    PROVE  EInv'
<1>1. \A g \in Hosts : Aged(g)
  BY SameAged DEF Consumers
<1>2. \A d \in Tabs : Bereft(d)
  BY DEF Bereft
<1>3. \A d \in Tabs : d # c => FirstKept(d)
  BY AskedIs, SameFirst
<1>4. FirstKept(c)
  <2>1. ops[c] = <<>> => Len(ops[c]) = 0
    OBVIOUS
  <2>2. Op(kind, l).at = "waiting"
    BY NewOp
  <2>3. ops'[c][Len(ops[c]) + 1] = Op(kind, l)
    BY AskedIs
  <2>4. ops[c] = <<>> => ops'[c][1].at = "waiting"
    BY <2>1, <2>2, <2>3
  <2>. QED
    BY <2>4, AskedFirst DEF FirstKept
<1>. QED
  BY <1>1, <1>2, <1>3, <1>4, StillOwns

LEMMA HostStepOwns ==
    ASSUME TInv, LInv, TrInv, EInv, NEW h \in Hosts, HostStep(h) \/ SpawnFails(h) \/ NeverReady(h) \/ HostDies(h)
    PROVE  EInv'
<1>1. UNCHANGED <<tab, ops>>
  BY DEF HostStep, Spawned, Ready, Killed, SpawnFails, NeverReady, HostDies
<1>2. \A g : Consumers(g)' = Consumers(g)
  BY <1>1 DEF Consumers
<1>3. PICK x : host' = [host EXCEPT ![h] = x] /\ x.key = host[h].key /\ x.envs \subseteq host[h].envs
               /\ (x.child \/ x.envs = {} \/ x.child = host[h].child)
               /\ \/ x.envs = {}
                  \/ host[h].st # "stopping" /\ (Consumers(h) # {} \/ host[h].st = "starting")
  <2>1. host[h] \in HostType /\ host \in AllHosts
    BY DEF TInv, Typed, AllHosts
  <2>2. host[h].boot => host[h].st # "stopping" /\ Consumers(h) # {}
    BY DEF LInv, Healthy, Witness, Consumers
  <2>3. CASE Spawned(h)
    <3>. DEFINE x == [host[h] EXCEPT !.boot = FALSE, !.child = TRUE, !.st = "starting"]
    <3>1. host' = [host EXCEPT ![h] = x] /\ x.key = host[h].key /\ x.envs = host[h].envs /\ x.child
      BY <2>1, <2>3 DEF Spawned, AllHosts, HostType
    <3>. HIDE DEF x
    <3>. QED
      BY <2>2, <2>3, <3>1 DEF Spawned
  <2>4. CASE SpawnFails(h)
    <3>. DEFINE x == [host[h] EXCEPT !.boot = FALSE, !.st = "error"]
    <3>1. host' = [host EXCEPT ![h] = x] /\ x.key = host[h].key /\ x.envs = host[h].envs /\ x.child = host[h].child
      BY <2>1, <2>4 DEF SpawnFails, AllHosts, HostType
    <3>. HIDE DEF x
    <3>. QED
      BY <2>2, <2>4, <3>1 DEF SpawnFails
  <2>5. CASE Ready(h) \/ NeverReady(h)
    <3>1. PICK s : host' = [host EXCEPT ![h].st = s]
      BY <2>5 DEF Ready, NeverReady
    <3>. DEFINE x == [host[h] EXCEPT !.st = s]
    <3>2. host' = [host EXCEPT ![h] = x] /\ x.key = host[h].key /\ x.envs = host[h].envs /\ x.child = host[h].child
      BY <2>1, <3>1 DEF AllHosts, HostType
    <3>3. host[h].st = "starting"
      BY <2>5 DEF Ready, NeverReady
    <3>. HIDE DEF x
    <3>. QED
      BY <3>2, <3>3
  <2>6. CASE Killed(h) \/ HostDies(h)
    <3>1. PICK s : host' = [host EXCEPT ![h].child = FALSE, ![h].st = s, ![h].envs = {}]
      BY <2>6 DEF Killed, HostDies
    <3>. DEFINE x == [host[h] EXCEPT !.child = FALSE, !.st = s, !.envs = {}]
    <3>2. host' = [host EXCEPT ![h] = x] /\ x.key = host[h].key /\ x.envs = {}
      BY <2>1, <3>1 DEF AllHosts, HostType
    <3>. HIDE DEF x
    <3>. QED
      BY <3>2
  <2>. QED
    BY <2>3, <2>4, <2>5, <2>6 DEF HostStep
<1>4. \A g \in Hosts : g # h => Aged(g)
  BY <1>2, <1>3, SameAged
<1>5. host'[h] = x
  BY <1>3 DEF TInv, Typed
<1>6. Housed(h)'
  BY <1>2, <1>3, <1>5 DEF EInv, Housed
<1>7. Dead(h) => Dead(h)'
  BY <1>2, <1>3, <1>5 DEF Dead
<1>8. Aged(h)
  BY <1>3, <1>5, <1>6, <1>7 DEF Aged
<1>. QED
  BY <1>1, <1>4, <1>8, SameFirst, StillOwns DEF Bereft

LEMMA EvictOwns == ASSUME TInv, LInv, TrInv, EInv, NEW h \in Hosts, Evict(h) PROVE EInv'
<1>1. /\ tab' = [c \in Tabs |-> IF tab[c].att = h THEN NoTab ELSE tab[c]]
      /\ ops' = [c \in Tabs |-> IF tab[c].att = h THEN Superseded(c) ELSE ops[c]]
      /\ host' = Halted(host, h) /\ host[h].st = "running" /\ Consumers(h) # {}
  BY DEF Evict
<1>2. h # 0 /\ NoTab.att = 0 /\ NoTab.proc = 0 /\ NoTab.env = None /\ 0 \notin Hosts
  BY NobodyTyped DEF Hosts
<1>3. /\ \A g \in Hosts : g # h => host'[g] = host[g]
      /\ SameButStatus(host'[h], host[h]) /\ host'[h].st = "stopping"
  <2>1. host \in AllHosts /\ host[h].child
    BY <1>1 DEF TInv, Typed, AllHosts, LInv, Healthy
  <2>. QED
    BY <1>1, <2>1, HaltedIs
<1>4. Consumers(h)' = {} /\ \A g \in Hosts : g # h => Consumers(g)' = Consumers(g)
  BY <1>1, <1>2 DEF Consumers
<1>5. \A g \in Hosts : g # h => Aged(g)
  BY <1>3, <1>4, SameAged
<1>6. Dead(h)'
  BY <1>3, <1>4 DEF Dead
<1>7. Aged(h)
  BY <1>3, <1>4, <1>6 DEF Aged, EInv, Housed, SameButStatus
<1>8. ASSUME NEW c \in Tabs PROVE FirstKept(c) /\ Bereft(c)
  <2>1. CASE tab[c].att = h
    <3>1. ops'[c] = Superseded(c) /\ tab'[c] = NoTab /\ tab[c].proc = h
      BY <1>1, <1>2, <2>1, Now
    <3>. QED
      BY <1>2, <1>6, <3>1, SupersededFirst DEF FirstKept, Bereft
  <2>2. CASE tab[c].att # h
    BY <1>1, <2>2, SameFirst DEF Bereft
  <2>. QED
    BY <2>1, <2>2
<1>. QED
  BY <1>5, <1>7, <1>8, StillOwns

LEMMA CleanupOwns == ASSUME TInv, TrInv, EInv, Cleanup PROVE EInv'
<1>1. /\ ops' = [c \in Tabs |-> IF Pending(c, "start") # {} THEN Superseded(c) ELSE ops[c]]
      /\ UNCHANGED <<tab, host>>
  BY DEF Cleanup
<1>2. \A g \in Hosts : Aged(g)
  BY <1>1, SameAged DEF Consumers
<1>3. ASSUME NEW c \in Tabs PROVE FirstKept(c) /\ Bereft(c)
  <2>1. ops'[c] = Superseded(c) \/ ops'[c] = ops[c]
    BY <1>1
  <2>2. ops'[c] = Superseded(c) => FirstKept(c)
    BY SupersededFirst DEF FirstKept
  <2>. QED
    BY <1>1, <2>1, <2>2, SameFirst DEF Bereft
<1>. QED
  BY <1>2, <1>3, StillOwns

LEMMA DrainedOwns == ASSUME TInv, LInv, TrInv, EInv, Drained PROVE EInv'
<1>1. /\ UNCHANGED ops
      /\ host' = [h \in Hosts |-> IF Consumers(h) # {} THEN Halted(host, h)[h] ELSE host[h]]
      /\ tab' = [c \in Tabs |-> [tab[c] EXCEPT !.att = 0]]
  BY DEF Drained
<1>2. \A c \in Tabs : tab'[c].att = 0 /\ tab'[c].proc = tab[c].proc /\ tab'[c].env = tab[c].env
  BY <1>1, Now DEF TabType
<1>3. \A g \in Hosts : Consumers(g)' = {}
  BY <1>2 DEF Consumers, Hosts
<1>4. ASSUME NEW g \in Hosts PROVE Aged(g)
  <2>1. CASE Consumers(g) = {}
    <3>1. host'[g] = host[g]
      BY <1>1, <2>1
    <3>. QED
      BY <1>3, <2>1, <3>1, SameAged
  <2>2. CASE Consumers(g) # {}
    <3>1. SameButStatus(host'[g], host[g]) /\ host'[g].st = IF host[g].child THEN "stopping" ELSE host[g].st
      BY <1>1, <2>2, HaltedIs DEF TInv, Typed, AllHosts
    <3>. QED
      BY <1>3, <2>2, <3>1 DEF Aged, EInv, Housed, SameButStatus, Dead
  <2>. QED
    BY <2>1, <2>2
<1>. QED
  BY <1>1, <1>2, <1>4, SameFirst, StillOwns DEF Bereft

LEMMA CleanedOwns == ASSUME TInv, LInv, TrInv, EInv, Cleaned PROVE EInv'
<1>1. /\ quit = "exiting" /\ \A h \in Hosts : host[h].st # "stopping"
      /\ tab' = [c \in Tabs |-> NoTab] /\ UNCHANGED <<host, ops>>
  BY DEF Cleaned
<1>2. \A c \in Tabs : tab[c].att = 0 /\ tab'[c].att = 0 /\ tab'[c].proc = 0
  BY <1>1, NobodyTyped DEF LInv, Leaving
<1>3. \A g \in Hosts : Consumers(g) = {} /\ Consumers(g)' = {}
  BY <1>2 DEF Consumers, Hosts
<1>4. \A g \in Hosts : host[g].envs = {}
  BY <1>1, <1>3 DEF LInv, Healthy, EInv, Housed
<1>5. \A g \in Hosts : Dead(g)'
  BY <1>1, <1>3, <1>4 DEF Dead
<1>6. \A g \in Hosts : Aged(g)
  BY <1>1, <1>3, SameAged
<1>. QED
  BY <1>1, <1>2, <1>5, <1>6, SameFirst, StillOwns DEF Bereft

LEMMA InitOwns == ASSUME Init PROVE EInv
<1>1. \A c \in Tabs : tab[c].att = 0 /\ ops[c] = <<>>
  BY NobodyTyped DEF Init
<1>2. \A g \in Hosts : Consumers(g) = {} /\ host[g].envs = {}
  BY <1>1 DEF Init, NoHost, Consumers, Hosts
<1>. QED
  BY <1>1, <1>2 DEF EInv, Housed, Buries

LEMMA StepOwns ==
    ASSUME "resume" \notin Requests, Credentialed = {}, TInv, LInv, TrInv, EInv, [Next]_vars PROVE EInv'
<1>1. CASE UNCHANGED <<tab, host, ops>>
  <2>1. \A g \in Hosts : Aged(g)
    BY <1>1, SameAged DEF Consumers
  <2>. QED
    BY <1>1, <2>1, SameFirst, StillOwns DEF Bereft
<1>2. ASSUME NEW c \in Tabs, NEW l, Start(c, l) PROVE EInv'
  <2>1. UNCHANGED <<tab, host>> /\ (UNCHANGED ops \/ Asked(c, "start", l))
    BY <1>2 DEF Start
  <2>. QED
    BY <1>1, <2>1, AskedOwns DEF Kinds
<1>3. ASSUME NEW c \in Tabs, Stop(c) PROVE EInv'
  <2>1. UNCHANGED <<tab, host>> /\ (UNCHANGED ops \/ Asked(c, "stop", None))
    BY <1>3 DEF Stop
  <2>. QED
    BY <1>1, <2>1, AskedOwns DEF Kinds
<1>4. ASSUME NEW c \in Tabs, NEW p \in Profiles, Switch(c, p) PROVE EInv'
  <2>1. UNCHANGED <<tab, host>> /\ Asked(c, "switch", [tab[c].last EXCEPT !.profile = p])
    BY <1>4 DEF Switch
  <2>. QED
    BY <2>1, AskedOwns DEF Kinds
<1>5. ASSUME NEW c \in Tabs PROVE ~Resume(c)
  BY DEF Resume, Asked
<1>6. CASE UNCHANGED vars
  BY <1>1, <1>6 DEF vars
<1>. QED
  BY <1>2, <1>3, <1>4, <1>5, <1>6, OpStepOwnsAll, HostStepOwns, EvictOwns, CleanupOwns, DrainedOwns,
     CleanedOwns DEF Next, CleanupStep

\* No environment is left in a host that lives on but the one of a consumer or
\* one that a request under way will stop: every start, stop and switch that
\* replaces an environment, in whatever order they meet evictions, crashes and
\* superseding requests, takes the old one away.  No consumer has git
\* credentials of its own: a start that moves between two hosts loses sight of
\* the environment in the first.
THEOREM Environments == ASSUME Calm, "resume" \notin Requests, Credentialed = {} PROVE Spec => []EnvOwned
<1>1. Init => EInv
  BY InitOwns
<1>2. TInv /\ LInv /\ TrInv /\ EInv /\ [Next]_vars => EInv'
  BY StepOwns
<1>3. TInv /\ EInv => EnvOwned
  <2>1. SUFFICES ASSUME TInv, EInv, NEW h \in Hosts, NEW e \in host[h].envs
                 PROVE  \/ \E c \in Tabs : tab[c].env = e /\ tab[c].proc = h
                        \/ Handled(e, h) \/ host[h].st = "stopping"
    BY DEF EnvOwned
  <2>2. ASSUME NEW c \in Tabs, ops[c] # <<>>, ByRequest(ops[c][1], e, h) PROVE Handled(e, h)
    <3>1. 1 \in 1..Len(ops[c])
      BY <2>1, <2>2, Now, QueueIs
    <3>. QED
      BY <2>2, <3>1 DEF Handled, ByRequest
  <2>. QED
    BY <2>1, <2>2 DEF EInv, Claims
<1>. QED
  BY <1>1, <1>2, <1>3, Types, Health, Tracking, PTL DEF Spec
=============================================================================
