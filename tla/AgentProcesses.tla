--------------------------- MODULE AgentProcesses --------------------------
(***************************************************************************)
(* ProcessManager, AgentHostManager and the AgentProcess of each host: the *)
(* consumers of agent processes (tabs, residents) attach to AgentHosts     *)
(* shared by compatibility key, and each has an environment of its own in  *)
(* its host.                                                               *)
(*                                                                         *)
(* ops[c] are the requests of consumer c that have not settled, in order   *)
(* of issue; a start waits for the earlier starts and a stop for the       *)
(* starts issued before it, while a resume and a switch wait for nothing.  *)
(* A step is the code between two awaits, and `at` says where an operation *)
(* is suspended.  An epoch is only ever compared with the newest one, so   *)
(* an operation carries whether it is still current.  Serve mode only.     *)
(***************************************************************************)
EXTENDS Naturals, Sequences, FiniteSets, SequencesExt

CONSTANTS
    Tabs,          \* consumers
    Folders,       \* what a workspace identity distinguishes
    Profiles,      \* sandbox profiles of one security boundary
    Credentialed,  \* folders whose projects carry git credentials
    Shared,        \* the compatibility key of every other folder
    None,          \* no launch, no environment, no key
    Failed,        \* what a consumer gets when its request failed
    MaxHosts, MaxWs,  \* bounds: hosts and workspace ids alive at a time
    MaxOps,        \* bound: unsettled requests of a consumer
    MaxFaults,     \* bound: crashes, failed boots, bindings and reloads
    Requests,      \* what consumers ask for in a run, a subset of Kinds
    Calm           \* clients start again only when what superseded a request has settled

Kinds == {"start", "stop", "resume", "switch"}

Hosts == 1..MaxHosts
Launches == [folder : Folders, profile : Profiles]
Envs == [ws : 1..MaxWs, profile : Profiles]

ASSUME ProcessAssumption ==
    /\ Requests \subseteq Kinds
    /\ Credentialed \subseteq Folders
    /\ Shared \notin Tabs /\ None \notin Tabs \cup {Shared} \cup Launches \cup Envs
    /\ Failed \notin Launches \cup {None}
    /\ MaxHosts \in Nat \ {0} /\ MaxWs \in Nat \ {0} /\ MaxOps \in Nat \ {0}
    /\ MaxFaults \in Nat /\ Calm \in BOOLEAN

VARIABLES
    tab,    \* per consumer: processes, agentHosts, runtimes, workspace ids, last launch
    host,   \* the AgentProcess of each host
    ops,    \* unsettled requests
    want,   \* what a consumer's newest request asked for
    quit,   \* cleanup
    faults  \* faults so far

vars == <<tab, host, ops, want, quit, faults>>

---------------------------------------------------------------------------
(* Consumers and hosts *)

NoTab == [proc |-> 0, att |-> 0, env |-> None, ws |-> 0, folder |-> None, last |-> None]
NoHost == [key |-> None, st |-> "off", child |-> FALSE, boot |-> FALSE, envs |-> {}]

Live == {"starting", "running"}

KeyOf(c, l) == IF l.folder \in Credentialed THEN c ELSE Shared

Consumers(h) == {d \in Tabs : tab[d].att = h}
LastOfAny(c) == tab[c].att # 0  \* a slip: whoever leaves takes the host along

LastOf(c) == tab[c].att # 0 /\ Consumers(tab[c].att) = {c}

\* A host is in hostsByKey exactly while it has consumers.
Compatible(c, key) ==
    {h \in Hosts : host[h].key = key /\ Consumers(h) \ {c} # {}}

Used(h) ==
    \/ host[h].child \/ host[h].boot
    \/ \E c \in Tabs : tab[c].att = h \/ tab[c].proc = h
                       \/ \E i \in 1..Len(ops[c]) : h = ops[c][i].host

Fresh(h) == ~Used(h) /\ \A g \in Hosts : g < h => Used(g)

UsedWs(w) ==
    \/ \E h \in Hosts : \E e \in host[h].envs : e.ws = w
    \/ \E c \in Tabs : \/ tab[c].ws = w
                       \/ tab[c].env # None /\ tab[c].env.ws = w
                       \/ \E i \in 1..Len(ops[c]) : ops[c][i].ws = w

WsLeft == \E w \in 1..MaxWs : ~UsedWs(w)
FreshWs == CHOOSE w \in 1..MaxWs : ~UsedWs(w)

\* AgentProcess.stop and exit: without a child there is nothing to kill.
Halted(hs, h) == IF hs[h].child THEN [hs EXCEPT ![h].st = "stopping"] ELSE hs

\* AgentProcess.start of a host that is not live.
Boot(hs, h) == [hs EXCEPT ![h].st = "starting", ![h].boot = TRUE]

\* stopConsumerEnvironment; a host that is gone has no environments left.
EnvStopped(hs, h, e) == [hs EXCEPT ![h].envs = @ \ {e}]

---------------------------------------------------------------------------
(* Operations *)

Places == {"waiting", "preparing", "booting", "configuring", "swapping", "unstaging",
           "withdrawing", "unbinding", "halting", "retiring"}

Op(kind, l) == [kind |-> kind, launch |-> l, at |-> "waiting", current |-> TRUE, host |-> 0,
                live |-> 0, prev |-> None, ws |-> 0, folder |-> None, env |-> None]

Goes(c, i, op) == ops' = [ops EXCEPT ![c][i] = op]
Settles(c, i) == ops' = [ops EXCEPT ![c] = RemoveAt(@, i)]

\* A rejected request that nothing has superseded is known to have failed.
Rejects(c, i) ==
    /\ Settles(c, i)
    /\ want' = IF ops[c][i].current THEN [want EXCEPT ![c] = Failed] ELSE want

At(c, i, kinds, place) ==
    i \in 1..Len(ops[c]) /\ ops[c][i].kind \in kinds /\ ops[c][i].at = place

Pending(c, kind) == {i \in 1..Len(ops[c]) : ops[c][i].kind = kind}

\* advanceConsumerEpoch: whatever is under way is no longer current.
Superseded(c) == [i \in 1..Len(ops[c]) |-> [ops[c][i] EXCEPT !.current = FALSE]]

Asked(c, kind, l) ==
    /\ kind \in Requests /\ quit = "no" /\ Len(ops[c]) < MaxOps
    /\ ops' = [ops EXCEPT ![c] = Append(IF kind \in {"start", "stop"} THEN Superseded(c) ELSE @, Op(kind, l))]

\* start: a pending start of the same launch is joined.
Start(c, l) ==
    /\ Calm => /\ Pending(c, "start") = 1..Len(ops[c])
               /\ ops[c] # <<>> => Last(ops[c]).current
    /\ quit = "no"
    /\ LET starts == Pending(c, "start") IN
         IF starts # {} /\ ops[c][CHOOSE i \in starts : \A j \in starts : j <= i].launch = l
         THEN UNCHANGED ops
         ELSE Asked(c, "start", l)
    /\ want' = [want EXCEPT ![c] = l]
    /\ UNCHANGED <<tab, host, quit, faults>>

StopAgain(c) ==  \* a slip: every stop is one of its own
    /\ quit = "no" /\ Asked(c, "stop", None)
    /\ want' = [want EXCEPT ![c] = None]
    /\ UNCHANGED <<tab, host, quit, faults>>

\* stop: a pending stop is joined.
Stop(c) ==
    /\ quit = "no"
    /\ Calm => Pending(c, "start") \cup Pending(c, "stop") = 1..Len(ops[c])
    /\ IF Pending(c, "stop") # {} THEN UNCHANGED ops ELSE Asked(c, "stop", None)
    /\ want' = [want EXCEPT ![c] = None]
    /\ UNCHANGED <<tab, host, quit, faults>>

\* Resumes and switches take no lock; here they meet a consumer at rest.
Rests(c) == ops[c] = <<>> /\ tab[c].proc # 0 /\ tab[c].last # None /\ tab[c].ws # 0

\* resumeOnReconnect: rebuilds a consumer that is not starting.
Resume(c) ==
    /\ Rests(c)
    /\ host[tab[c].proc].st # "starting"
    /\ host[tab[c].proc].st = "running" => tab[c].env # None
    /\ Asked(c, "resume", tab[c].last)
    /\ UNCHANGED <<tab, host, want, quit, faults>>

\* switchSandbox within one security boundary.
Switch(c, p) ==
    /\ Rests(c) /\ tab[c].last.profile # p
    /\ Asked(c, "switch", [tab[c].last EXCEPT !.profile = p])
    /\ UNCHANGED <<tab, host, want, quit, faults>>

---------------------------------------------------------------------------
(* Starting a consumer *)

\* A live process of the same launch is adopted, not restarted.
Adopted(c, l) ==
    tab[c].proc # 0 /\ tab[c].last = l /\ host[tab[c].proc].st \in Live

ConfiguringIn(op) ==
    [op EXCEPT !.at = "configuring",
               !.ws = IF op.ws # 0 /\ op.folder = op.launch.folder THEN op.ws ELSE FreshWs]

StartAtOnce(c, i) ==  \* a slip: beside an earlier start
    /\ At(c, i, {"start"}, "waiting")
    /\ LET op == ops[c][i] IN
         IF ~op.current \/ Adopted(c, op.launch) THEN Settles(c, i)
         ELSE Goes(c, i, [op EXCEPT !.at = "preparing", !.prev = tab[c].env, !.live = tab[c].proc,
                                    !.ws = tab[c].ws, !.folder = tab[c].folder])
    /\ UNCHANGED <<tab, host, want, quit, faults>>

StartBegins(c, i) ==
    /\ At(c, i, {"start"}, "waiting")
    /\ ~ \E j \in Pending(c, "start") : j < i
    /\ LET op == ops[c][i] IN
         IF ~op.current \/ Adopted(c, op.launch) THEN Settles(c, i)
         ELSE Goes(c, i, [op EXCEPT !.at = "preparing", !.prev = tab[c].env, !.live = tab[c].proc,
                                    !.ws = tab[c].ws, !.folder = tab[c].folder])
    /\ UNCHANGED <<tab, host, want, quit, faults>>

\* getOrCreate: the consumer's own host, a compatible one, or a new one; a
\* host left by its last consumer exits.
Attaches(c, key, h) ==
    \/ tab[c].att # 0 /\ host[tab[c].att].key = key /\ h = tab[c].att
    \/ /\ ~ (tab[c].att # 0 /\ host[tab[c].att].key = key)
       /\ IF Compatible(c, key) # {} THEN h \in Compatible(c, key)
          ELSE Fresh(h)

AttachedHosts(c, key, h) ==
    LET left == IF tab[c].att # h /\ LastOf(c) THEN Halted(host, tab[c].att) ELSE host
    IN  IF Consumers(h) = {} THEN [left EXCEPT ![h] = [NoHost EXCEPT !.key = key]] ELSE left

\* Past buildStartArg, prepareHostBridge and waitForRuntimeInstall.
StartPrepared(c, i) ==
    /\ At(c, i, {"start"}, "preparing") /\ WsLeft
    /\ LET op == ops[c][i] IN
         IF ~op.current THEN Settles(c, i) /\ UNCHANGED <<tab, host>>
         ELSE \E h \in Hosts :
                LET key == KeyOf(c, op.launch)
                    hs == AttachedHosts(c, key, h)
                IN  /\ Attaches(c, key, h)
                    /\ tab' = [tab EXCEPT ![c].proc = h, ![c].att = h]
                    /\ IF hs[h].st \in Live
                       THEN host' = hs /\ Goes(c, i, ConfiguringIn([op EXCEPT !.host = h]))
                       ELSE host' = Boot(hs, h) /\ Goes(c, i, [op EXCEPT !.host = h, !.at = "booting"])
    /\ UNCHANGED <<want, quit, faults>>

RetireDetached(c, i, hs) ==  \* a slip: the host is not stopped
    /\ tab' = IF tab[c].proc # ops[c][i].host THEN tab
              ELSE [tab EXCEPT ![c].proc = 0, ![c].att = 0, ![c].env = None]
    /\ host' = hs /\ Settles(c, i)

\* retireStaleStart leaves an earlier binding, and whatever took over, alone.
Retire(c, i, hs) ==
    LET op == ops[c][i] IN
    IF op.prev # None \/ tab[c].proc # op.host
    THEN Settles(c, i) /\ host' = hs /\ UNCHANGED tab
    ELSE /\ tab' = [tab EXCEPT ![c].proc = 0, ![c].att = 0]
         /\ IF LastOf(c)
            THEN host' = Halted(hs, tab[c].att) /\ Goes(c, i, [op EXCEPT !.at = "retiring"])
            ELSE host' = hs /\ Settles(c, i)

StartBooted(c, i) ==
    /\ At(c, i, {"start"}, "booting") /\ ~host[ops[c][i].host].boot /\ WsLeft
    /\ IF ops[c][i].current
       THEN Goes(c, i, ConfiguringIn(ops[c][i])) /\ UNCHANGED <<tab, host>>
       ELSE Retire(c, i, host)
    /\ UNCHANGED <<want, quit, faults>>

Target(op) == [ws |-> op.ws, profile |-> op.launch.profile]
Materialized(op) == [host EXCEPT ![op.host].envs = @ \cup {Target(op)}]

Bound(c, op) == [tab EXCEPT ![c].env = Target(op), ![c].ws = op.ws, ![c].folder = op.launch.folder]

StartConfiguredLate(c, i) ==  \* a slip: a stale start retires without its environment
    /\ At(c, i, {"start"}, "configuring") /\ host[ops[c][i].host].st = "running"
    /\ LET op == ops[c][i] IN
         IF ~op.current THEN Retire(c, i, Materialized(op))
         ELSE /\ host' = Materialized(op)
              /\ IF op.prev # None /\ op.prev # Target(op)
                 THEN tab' = Bound(c, op) /\ Goes(c, i, [op EXCEPT !.at = "swapping"])
                 ELSE tab' = [Bound(c, op) EXCEPT ![c].last = op.launch] /\ Settles(c, i)
    /\ UNCHANGED <<want, quit, faults>>

\* configureConsumer of a start has come back.
StartConfigured(c, i) ==
    /\ At(c, i, {"start"}, "configuring") /\ host[ops[c][i].host].st = "running"
    /\ LET op == ops[c][i]
           env == Target(op)
       IN  IF ~op.current
           THEN IF op.prev = env THEN Retire(c, i, Materialized(op))
                ELSE /\ Goes(c, i, [op EXCEPT !.at = "unstaging", !.env = env])
                     /\ host' = Materialized(op) /\ UNCHANGED tab
           ELSE /\ host' = Materialized(op)
                /\ IF op.prev # None /\ op.prev # env
                   THEN tab' = Bound(c, op) /\ Goes(c, i, [op EXCEPT !.at = "swapping"])
                   ELSE tab' = [Bound(c, op) EXCEPT ![c].last = op.launch] /\ Settles(c, i)
    /\ UNCHANGED <<want, quit, faults>>

\* The environment of a superseded start is stopped before the start retires.
Unstaged(c, i) ==
    /\ At(c, i, {"start"}, "unstaging")
    /\ Retire(c, i, EnvStopped(host, ops[c][i].host, ops[c][i].env))
    /\ UNCHANGED <<want, quit, faults>>

\* The environment that was replaced is stopped.
Swapped(c, i) ==
    /\ At(c, i, {"start", "switch"}, "swapping")
    /\ host' = EnvStopped(host, ops[c][i].host, ops[c][i].prev)
    /\ tab' = [tab EXCEPT ![c].last = ops[c][i].launch]
    /\ Settles(c, i)
    /\ UNCHANGED <<want, quit, faults>>

Fault == faults < MaxFaults /\ faults' = faults + 1

StartFailsAlive(c, i) ==  \* a slip: nobody tells the start that its host is gone
    /\ At(c, i, {"start"}, "configuring")
    /\ host[ops[c][i].host].st = "running" /\ Fault
    /\ Rejects(c, i)
    /\ UNCHANGED <<tab, host, quit>>

\* The catch of startConsumer: a rebind in the same host keeps what it had.
StartFails(c, i) ==
    /\ At(c, i, {"start"}, "configuring")
    /\ LET op == ops[c][i] IN
         /\ IF host[op.host].st \in Live THEN host[op.host].st = "running" /\ Fault ELSE UNCHANGED faults
         /\ IF op.live = op.host THEN Rejects(c, i) /\ UNCHANGED <<tab, host>>
            ELSE /\ tab' = [tab EXCEPT ![c] = NoTab]
                 /\ IF LastOf(c)
                    THEN /\ host' = Halted(host, op.host)
                         /\ Goes(c, i, [op EXCEPT !.at = "retiring"])
                         /\ UNCHANGED want
                    ELSE Rejects(c, i) /\ UNCHANGED host
    /\ UNCHANGED quit

Retired(c, i) ==
    /\ At(c, i, {"start"}, "retiring") /\ host[ops[c][i].host].st # "stopping"
    /\ Rejects(c, i)
    /\ UNCHANGED <<tab, host, quit, faults>>

---------------------------------------------------------------------------
(* Stopping a consumer *)

\* stopConsumer up to its await; its finally forgets all but the last launch.
StopBegins(c, i) ==
    /\ At(c, i, {"stop"}, "waiting")
    /\ ~ \E j \in Pending(c, "start") : j < i
    /\ LET op == [ops[c][i] EXCEPT !.host = tab[c].proc, !.prev = tab[c].env]
           detached == [tab EXCEPT ![c].att = 0]
       IN  IF ~op.current \/ tab[c].proc = 0 THEN Settles(c, i) /\ UNCHANGED <<tab, host>>
           ELSE IF LastOf(c)
           THEN tab' = detached /\ host' = Halted(host, op.host) /\ Goes(c, i, [op EXCEPT !.at = "halting"])
           ELSE IF tab[c].att # 0 /\ tab[c].env # None
           THEN tab' = detached /\ Goes(c, i, [op EXCEPT !.at = "unbinding"]) /\ UNCHANGED host
           ELSE tab' = [tab EXCEPT ![c] = [NoTab EXCEPT !.last = tab[c].last]] /\ Settles(c, i) /\ UNCHANGED host
    /\ UNCHANGED <<want, quit, faults>>

StopEnds(c, i) ==
    /\ \/ At(c, i, {"stop"}, "halting") /\ host[ops[c][i].host].st # "stopping" /\ UNCHANGED host
       \/ At(c, i, {"stop"}, "unbinding") /\ host' = EnvStopped(host, ops[c][i].host, ops[c][i].prev)
    /\ tab' = [tab EXCEPT ![c].proc = 0, ![c].env = None, ![c].ws = 0, ![c].folder = None]
    /\ Settles(c, i)
    /\ UNCHANGED <<want, quit, faults>>

---------------------------------------------------------------------------
(* Rebuilding and switching: no epoch, no lock *)

\* rebuild: the environment is withdrawn before it is stopped and made anew;
\* for a consumer that cleanup has forgotten a host is started again.
ResumePrepared(c, i) ==
    /\ At(c, i, {"resume"}, "waiting")
    /\ LET op == [ops[c][i] EXCEPT !.host = tab[c].proc, !.prev = tab[c].env, !.ws = tab[c].ws]
           key == KeyOf(c, op.launch)
       IN  \/ /\ op.host # 0
              /\ tab' = [tab EXCEPT ![c].env = None]
              /\ Goes(c, i, [op EXCEPT !.at = IF op.prev # None THEN "withdrawing" ELSE "configuring"])
              /\ UNCHANGED host
           \/ /\ op.host = 0
              /\ \E h \in Hosts :
                   /\ Attaches(c, key, h)
                   /\ tab' = [tab EXCEPT ![c].proc = h, ![c].att = h]
                   /\ host' = IF Consumers(h) = {} THEN Boot(AttachedHosts(c, key, h), h) ELSE host
              /\ Settles(c, i)
    /\ UNCHANGED <<want, quit, faults>>

Withdrawn(c, i) ==
    /\ At(c, i, {"resume"}, "withdrawing")
    /\ host' = EnvStopped(host, ops[c][i].host, ops[c][i].prev)
    /\ Goes(c, i, [ops[c][i] EXCEPT !.at = "configuring"])
    /\ UNCHANGED <<tab, want, quit, faults>>

SwitchPrepared(c, i) ==
    /\ At(c, i, {"switch"}, "waiting")
    /\ IF tab[c].ws = 0 THEN Settles(c, i)
       ELSE Goes(c, i, [ops[c][i] EXCEPT !.at = "configuring", !.host = tab[c].proc,
                                         !.prev = tab[c].env, !.ws = tab[c].ws])
    /\ UNCHANGED <<tab, host, want, quit, faults>>

Rebound(c, i) ==
    /\ At(c, i, {"resume", "switch"}, "configuring") /\ host[ops[c][i].host].st = "running"
    /\ LET op == ops[c][i] IN
         /\ host' = Materialized(op)
         /\ IF op.kind = "switch" /\ op.prev # None /\ op.prev # Target(op)
            THEN tab' = Bound(c, op) /\ Goes(c, i, [op EXCEPT !.at = "swapping"])
            ELSE tab' = [Bound(c, op) EXCEPT ![c].last = op.launch] /\ Settles(c, i)
         /\ want' = IF want[c] \in Launches THEN [want EXCEPT ![c] = op.launch] ELSE want
    /\ UNCHANGED <<quit, faults>>

RebindFails(c, i) ==
    /\ At(c, i, {"resume", "switch"}, "configuring")
    /\ IF host[ops[c][i].host].st \in Live
       THEN host[ops[c][i].host].st = "running" /\ Fault ELSE UNCHANGED faults
    /\ want' = [want EXCEPT ![c] = IF @ = None THEN @ ELSE Failed]
    /\ Settles(c, i)
    /\ UNCHANGED <<tab, host, quit>>

---------------------------------------------------------------------------
(* Hosts *)

\* startServeSession: the child is spawned after its own awaits.
Spawned(h) ==
    /\ host[h].boot
    /\ host' = [host EXCEPT ![h].boot = FALSE, ![h].child = TRUE, ![h].st = "starting"]
    /\ UNCHANGED <<tab, ops, want, quit, faults>>

SpawnFails(h) ==
    /\ host[h].boot /\ Fault
    /\ host' = [host EXCEPT ![h].boot = FALSE, ![h].st = "error"]
    /\ UNCHANGED <<tab, ops, want, quit>>

\* waitForReady
Ready(h) ==
    /\ host[h].child /\ ~host[h].boot /\ host[h].st = "starting"
    /\ host' = [host EXCEPT ![h].st = "running"]
    /\ UNCHANGED <<tab, ops, want, quit, faults>>

NeverReady(h) ==
    /\ host[h].child /\ ~host[h].boot /\ host[h].st = "starting" /\ Fault
    /\ host' = [host EXCEPT ![h].st = "error"]
    /\ UNCHANGED <<tab, ops, want, quit>>

Killed(h) ==
    /\ host[h].st = "stopping"
    /\ host' = [host EXCEPT ![h].child = FALSE, ![h].st = "exited", ![h].envs = {}]
    /\ UNCHANGED <<tab, ops, want, quit, faults>>

HostDies(h) ==
    /\ host[h].child /\ host[h].st \in Live /\ Fault
    /\ host' = [host EXCEPT ![h].child = FALSE, ![h].st = "error", ![h].envs = {}]
    /\ UNCHANGED <<tab, ops, want, quit>>

\* evictStaleMcpHost: a host that cannot reload its MCP servers is stopped
\* under its consumers, whose starts and stops are no longer current.
Evict(h) ==
    /\ host[h].st = "running" /\ Consumers(h) # {} /\ Fault
    /\ host' = Halted(host, h)
    /\ tab' = [c \in Tabs |-> IF tab[c].att = h THEN NoTab ELSE tab[c]]
    /\ ops' = [c \in Tabs |-> IF tab[c].att = h THEN Superseded(c) ELSE ops[c]]
    /\ want' = [c \in Tabs |-> IF tab[c].att = h /\ want[c] # None THEN Failed ELSE want[c]]
    /\ UNCHANGED quit

---------------------------------------------------------------------------
(* cleanup: no start in flight may take effect, then every host exits *)

Cleanup ==
    /\ quit = "no" /\ quit' = "draining"
    /\ ops' = [c \in Tabs |-> IF Pending(c, "start") # {} THEN Superseded(c) ELSE ops[c]]
    /\ UNCHANGED <<tab, host, want, faults>>

DrainedAtOnce ==  \* a slip: the starts under way are left to themselves
    /\ quit = "draining" /\ quit' = "exiting"
    /\ host' = [h \in Hosts |-> IF Consumers(h) # {} THEN Halted(host, h)[h] ELSE host[h]]
    /\ tab' = [c \in Tabs |-> [tab[c] EXCEPT !.att = 0]]
    /\ UNCHANGED <<ops, want, faults>>

Drained ==
    /\ quit = "draining" /\ quit' = "exiting"
    /\ \A c \in Tabs : Pending(c, "start") = {} /\ Pending(c, "stop") = {}
    /\ host' = [h \in Hosts |-> IF Consumers(h) # {} THEN Halted(host, h)[h] ELSE host[h]]
    /\ tab' = [c \in Tabs |-> [tab[c] EXCEPT !.att = 0]]
    /\ UNCHANGED <<ops, want, faults>>

Cleaned ==
    /\ quit = "exiting" /\ quit' = "done"
    /\ \A h \in Hosts : host[h].st # "stopping"
    /\ tab' = [c \in Tabs |-> NoTab]
    /\ UNCHANGED <<host, ops, want, faults>>

---------------------------------------------------------------------------
Init ==
    /\ tab = [c \in Tabs |-> NoTab]
    /\ host = [h \in Hosts |-> NoHost]
    /\ ops = [c \in Tabs |-> <<>>]
    /\ want = [c \in Tabs |-> None]
    /\ quit = "no" /\ faults = 0

OpStep(c, i) ==
    \/ StartBegins(c, i) \/ StartPrepared(c, i) \/ StartBooted(c, i) \/ StartConfigured(c, i)
    \/ Unstaged(c, i) \/ Swapped(c, i) \/ StartFails(c, i) \/ Retired(c, i)
    \/ StopBegins(c, i) \/ StopEnds(c, i)
    \/ ResumePrepared(c, i) \/ Withdrawn(c, i)
    \/ SwitchPrepared(c, i) \/ Rebound(c, i) \/ RebindFails(c, i)

HostStep(h) == Spawned(h) \/ Ready(h) \/ Killed(h)

CleanupStep == Drained \/ Cleaned

Next ==
    \/ \E c \in Tabs : \/ \E l \in Launches : Start(c, l)
                       \/ Stop(c) \/ Resume(c)
                       \/ \E p \in Profiles : Switch(c, p)
                       \/ \E i \in 1..MaxOps : OpStep(c, i)
    \/ \E h \in Hosts : HostStep(h) \/ SpawnFails(h) \/ NeverReady(h) \/ HostDies(h) \/ Evict(h)
    \/ Cleanup \/ CleanupStep

\* Awaits come back, children exit when killed, hosts become ready or fail.
Fairness ==
    /\ \A c \in Tabs, i \in 1..MaxOps : WF_vars(OpStep(c, i))
    /\ \A h \in Hosts : WF_vars(HostStep(h))
    /\ WF_vars(CleanupStep)

Spec == Init /\ [][Next]_vars /\ Fairness

---------------------------------------------------------------------------
(* Properties *)

TabType == [proc : 0..MaxHosts, att : 0..MaxHosts, env : Envs \cup {None}, ws : 0..MaxWs,
            folder : Folders \cup {None}, last : Launches \cup {None}]

HostType == [key : Tabs \cup {Shared, None}, child : BOOLEAN, boot : BOOLEAN, envs : SUBSET Envs,
             st : {"off", "starting", "running", "stopping", "exited", "error"}]

OpType == [kind : Kinds, launch : Launches \cup {None}, at : Places, current : BOOLEAN,
           host : 0..MaxHosts, live : 0..MaxHosts, prev : Envs \cup {None}, ws : 0..MaxWs,
           folder : Folders \cup {None}, env : Envs \cup {None}]

\* Every variable has its type, and no consumer has more than one stop pending.
TypeOK ==
    /\ tab \in [Tabs -> TabType]
    /\ host \in [Hosts -> HostType]
    /\ ops \in [Tabs -> Seq(OpType)]
    /\ \A c \in Tabs : Len(ops[c]) <= MaxOps /\ Cardinality(Pending(c, "stop")) <= 1
    /\ want \in [Tabs -> Launches \cup {None, Failed}]
    /\ quit \in {"no", "draining", "exiting", "done"}
    /\ faults \in 0..MaxFaults

\* No host process is left running that nobody uses and nobody is stopping.
HostOwned ==
    \A h \in Hosts : host[h].child \/ host[h].boot => Consumers(h) # {} \/ host[h].st = "stopping"

Handled(e, h) ==
    \E c \in Tabs : \E i \in 1..Len(ops[c]) :
        ops[c][i].host = h /\ e \in {ops[c][i].env, ops[c][i].prev}

\* No environment is left in a running host that is neither a consumer's own
\* nor about to be stopped by the operation that replaced it.
EnvOwned ==
    \A h \in Hosts : \A e \in host[h].envs :
        \/ \E c \in Tabs : tab[c].env = e /\ tab[c].proc = h
        \/ Handled(e, h) \/ host[h].st = "stopping"

\* Once a consumer's requests have settled, the newest of them has taken effect
\* unless it failed.
NewestIntent ==
    \A c \in Tabs : quit = "no" /\ ops[c] = <<>> =>
        /\ want[c] = None => tab[c] = [NoTab EXCEPT !.last = tab[c].last]
        /\ want[c] \in Launches =>
             /\ tab[c].proc # 0 /\ tab[c].att = tab[c].proc
             /\ tab[c].last = want[c] /\ tab[c].folder = want[c].folder
             /\ tab[c].env = [ws |-> tab[c].ws, profile |-> want[c].profile]

\* After cleanup no child process is left.
QuitLeavesNothing == quit = "done" => \A h \in Hosts : ~host[h].child /\ ~host[h].boot

\* A consumer is never the owner of its host: a host is stopped only when the
\* last consumer has left it.
SharedSurvives ==
    [][\A h \in Hosts : host'[h].st = "stopping" /\ host[h].st # "stopping" =>
          \A d \in Tabs : tab'[d].att # h]_vars

\* Every stop returns.
StopReturns == \A c \in Tabs : Pending(c, "stop") # {} ~> Pending(c, "stop") = {}

\* cleanup returns.
QuitReturns == quit # "no" ~> quit = "done"

===========================================================================
