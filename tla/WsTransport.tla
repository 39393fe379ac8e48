---------------------------- MODULE WsTransport ----------------------------
(***************************************************************************)
(* The WebSocket between a renderer and a launcher server: the emitter     *)
(* WsTransportEmitter with its reconnect policy, WsHandler with the        *)
(* client's session, and the MachineRegistry that remembers which socket   *)
(* reaches the client's machine.  The client calls the server (invoke) and *)
(* the server calls the client (reverse-invoke) over the socket of now.    *)
(*                                                                         *)
(* Sockets are numbered in the order they are dialled.  What is under way  *)
(* on a socket is a set: nothing here depends on the order of its frames.  *)
(* The same id is used again for a registration only when no trace of the  *)
(* earlier one is left, so an id stands for the code's running number.     *)
(***************************************************************************)
EXTENDS Integers, FiniteSets

CONSTANTS
    Calls,         \* what the application asks of the server, once each
    Regs,          \* numbers for calls of machine:register
    Reverses,      \* what the server asks of the client's machine, once each
    None,          \* no socket's number, no call
    MaxFaults,     \* bound: cuts, refusals, failures, timeouts and restarts
    MaxRestarts,   \* bound: restarts of the server among them
    Budget,        \* reconnectMaxAttempts
    Remote,        \* a remote backend: the budget and close codes are final
    InOrder        \* sockets are passed to addClient as dialled, and before they close

ASSUME TransportAssumption ==
    /\ Regs \subseteq Nat /\ Reverses \subseteq Nat
    /\ Calls \cap Regs = {} /\ None \notin Calls \cup Regs \cup Reverses
    /\ MaxFaults \in Nat /\ MaxRestarts \in Nat /\ Budget \in Nat \ {0}
    /\ Remote \in BOOLEAN /\ InOrder \in BOOLEAN

Sockets == 1..(MaxFaults + 1)
Ids == Calls \cup Regs

VARIABLES
    conn,      \* connectionState
    dial,      \* connect(): the step it is suspended at
    ws,        \* the emitter's socket, 0 for null
    attempts,  \* of the ReconnectController
    queue,     \* messageQueue
    call,      \* pending: which calls wait for an answer
    reg,       \* initMachines and the retry timer of registerOnce
    serving,   \* reverse calls the client's handlers work on
    sock,      \* the sockets
    session,   \* PersistentSession.ws, 0 for null
    routed,    \* wsSessions
    bound,     \* the machine's active socket, 0 for none
    back,      \* byWs
    rev,       \* pendingReverse, by call
    nextRev,   \* nextReverseId
    dials,     \* sockets dialled so far
    faults, restarts

client == <<conn, dial, ws, attempts, queue, call, reg, serving>>
server == <<session, routed, bound, back, rev, nextRev>>
spent  == <<dials, faults, restarts>>
vars   == <<client, sock, server, spent>>

\* of: the call that a reverse frame is about, which the wire does not carry.
Frame(kind, id, of) == [kind |-> kind, id |-> id, of |-> of]
Invocation(i) == Frame("invoke", i, None)
Response(i)   == Frame("response", i, None)
Error(i)      == Frame("error", i, None)

\* cl: the client's readyState, sv: the server's end, up: frames still pass,
\* refused: closed with a permanent code, resolving: not yet passed to addClient.
NoSocket == [cl |-> "none", sv |-> "none", up |-> FALSE, refused |-> FALSE,
             resolving |-> FALSE, c2s |-> {}, s2c |-> {}, work |-> {}]
NewSocket == [NoSocket EXCEPT !.cl = "dialing", !.sv = "open", !.up = TRUE, !.resolving = TRUE]

Sent(k, s, fs)     == IF k[s].up THEN [k EXCEPT ![s].c2s = @ \cup fs] ELSE k
Replied(k, s, f)   == IF k[s].up /\ k[s].sv = "open" THEN [k EXCEPT ![s].s2c = @ \cup {f}] ELSE k
IsOpen(s)          == s # 0 /\ sock[s].cl = "open"
Waiting(i)         == call[i] = "waiting"
Fault              == faults < MaxFaults /\ faults' = faults + 1

\* Where call i is under way, and on which socket.
Traces(i) ==
    {<<"sent", s>> : s \in {z \in Sockets : Invocation(i) \in sock[z].c2s}} \cup
    {<<"at", s>> : s \in {z \in Sockets : i \in sock[z].work}} \cup
    {<<"answered", s>> : s \in {z \in Sockets : {Response(i), Error(i)} \cap sock[z].s2c # {}}}
Traceless(i) == ~Waiting(i) /\ i \notin queue /\ Traces(i) = {}

\* The number of a new registration.
FreshRegs == {r \in Regs : Traceless(r) /\ \A q \in Regs : q < r => ~Traceless(q)}

---------------------------------------------------------------------------
(* The client: calls *)

\* invoke and send: over an open socket, into the queue, or refused for good.
Invokes(i) ==
    /\ call' = [call EXCEPT ![i] = IF conn = "closed" THEN "settled" ELSE "waiting"]
    /\ queue' = IF conn = "closed" \/ IsOpen(ws) THEN queue ELSE queue \cup {i}
    /\ sock' = IF conn # "closed" /\ IsOpen(ws) THEN Sent(sock, ws, {Invocation(i)}) ELSE sock

Invoke(i) ==
    /\ i \in Calls /\ call[i] = "new"
    /\ Invokes(i)
    /\ UNCHANGED <<conn, dial, ws, attempts, reg, serving, server, spent>>

\* registerOnce; when the transport is closed for good the timer is set again.
RegisterOnce(r, boot) ==
    /\ Invokes(r)
    /\ reg' = [boot |-> boot, timer |-> conn = "closed",
                first |-> IF boot = "first" THEN r ELSE None]
    /\ UNCHANGED <<conn, dial, ws, attempts, serving, server, spent>>

\* initMachines, up to the await of its own registration.
InitMachines == Remote /\ reg.boot = "off" /\ \E r \in FreshRegs : RegisterOnce(r, "first")

\* Past that await it subscribes, and the listener fires at once when connected.
Subscribe ==
    /\ reg.boot = "first" /\ ~Waiting(reg.first)
    /\ IF IsOpen(ws)
       THEN /\ \E r \in FreshRegs : Invokes(r)
            /\ reg' = [reg EXCEPT !.boot = "on", !.first = None]
       ELSE reg' = [reg EXCEPT !.boot = "on", !.first = None] /\ UNCHANGED <<queue, call, sock>>
    /\ UNCHANGED <<conn, dial, ws, attempts, serving, server, spent>>

\* The two seconds after a failed registration are over.
RegisterAgain == reg.boot = "on" /\ reg.timer /\ \E r \in FreshRegs : RegisterOnce(r, "on")

---------------------------------------------------------------------------
(* The client: connections *)

RejectedAll(keep) ==  \* a slip: the queued calls are rejected, too, and sent later
    [i \in Ids |-> IF Waiting(i) THEN "settled" ELSE call[i]]

RejectedSent(keep) ==  \* a slip: the end of the transport forgets the queued calls
    [i \in Ids |-> IF Waiting(i) /\ i \notin queue THEN "settled" ELSE call[i]]

\* rejectPending: every waiting call but those that are kept.
Rejected(keep) ==
    [i \in Ids |-> IF Waiting(i) /\ i \notin keep THEN "settled" ELSE call[i]]

\* A rejected registration sets its timer.
Retried(calls) ==
    [reg EXCEPT !.timer = @ \/ \E r \in Regs : Waiting(r) /\ calls[r] = "settled"]

Terminal(permanent) == Remote /\ (permanent \/ attempts + 1 >= Budget)

\* handleConnectionFailure and enterTerminalState.
Failure(permanent) ==
    /\ attempts' = IF attempts < Budget THEN attempts + 1 ELSE attempts
    /\ LET final == Terminal(permanent)
           calls == Rejected(IF final THEN {} ELSE queue)
       IN  /\ conn' = IF final THEN "closed" ELSE "reconnecting"
           /\ dial' = IF final THEN "over" ELSE "timer"
           /\ queue' = IF final THEN {} ELSE queue
           /\ call' = calls /\ reg' = Retried(calls)

\* The backoff is over, connect asks for a token.
Reconnect ==
    /\ dial = "timer" /\ dial' = "token"
    /\ UNCHANGED <<conn, ws, attempts, queue, call, reg, serving, sock, server, spent>>

TokenFails ==
    /\ dial = "token" /\ Fault /\ Failure(FALSE)
    /\ UNCHANGED <<ws, serving, sock, server, dials, restarts>>

\* The token is there: a new WebSocket.
Dial ==
    /\ dial = "token" /\ dials + 1 \in Sockets
    /\ dial' = "socket" /\ dials' = dials + 1
    /\ sock' = [sock EXCEPT ![dials + 1] = NewSocket]
    /\ UNCHANGED <<conn, ws, attempts, queue, call, reg, serving, server, faults, restarts>>

OpenUnregistered(s) ==  \* a slip: the registration is not replayed
    /\ sock[s].cl = "dialing"
    /\ ws' = s /\ attempts' = 0 /\ conn' = "connected" /\ dial' = "none" /\ queue' = {}
    /\ sock' = Sent([sock EXCEPT ![s].cl = "open"], s, {Invocation(i) : i \in queue})
    /\ UNCHANGED <<call, reg, serving, server, spent>>

\* onopen: flush the queue, then the connect listeners, one of which registers.
Open(s) ==
    /\ sock[s].cl = "dialing"
    /\ ws' = s /\ attempts' = 0 /\ conn' = "connected" /\ dial' = "none" /\ queue' = {}
    /\ LET opened == [sock EXCEPT ![s].cl = "open"]
           frames(more) == {Invocation(i) : i \in queue \cup more}
       IN  IF reg.boot = "on"
           THEN \E r \in FreshRegs :
                                /\ call' = [call EXCEPT ![r] = "waiting"]
                                /\ sock' = Sent(opened, s, frames({r}))
           ELSE sock' = Sent(opened, s, frames({})) /\ UNCHANGED call
    /\ UNCHANGED <<reg, serving, server, spent>>

\* The socket is closing: no longer open, and onclose is still to come.
Closing(s) ==
    /\ sock[s].cl = "open" /\ ~sock[s].up
    /\ sock' = [sock EXCEPT ![s].cl = "closing"]
    /\ UNCHANGED <<client, server, spent>>

ClosedKept(s) ==  \* a slip: the emitter keeps its closed socket
    /\ sock[s].cl \in {"dialing", "open", "closing"} /\ ~sock[s].up
    /\ sock' = [sock EXCEPT ![s] = [@ EXCEPT !.cl = "closed", !.s2c = {}]]
    /\ Failure(sock[s].refused /\ sock[s].cl # "dialing")
    /\ UNCHANGED <<ws, serving, server, spent>>

\* onclose, also of a dial that failed, which has no code; nothing arrives after it.
Closed(s) ==
    /\ sock[s].cl \in {"dialing", "open", "closing"} /\ ~sock[s].up
    /\ sock' = [sock EXCEPT ![s] = [@ EXCEPT !.cl = "closed", !.s2c = {}]]
    /\ ws' = 0 /\ Failure(sock[s].refused /\ sock[s].cl # "dialing")
    /\ UNCHANGED <<serving, server, spent>>

\* onmessage.
Receive(s) ==
    /\ sock[s].cl = "open"
    /\ \E f \in sock[s].s2c :
         /\ sock' = [sock EXCEPT ![s].s2c = @ \ {f}]
         /\ IF f.kind = "reverse"
            THEN serving' = serving \cup {f} /\ UNCHANGED <<call, reg>>
            ELSE /\ call' = [call EXCEPT ![f.id] = IF @ = "waiting" THEN "settled" ELSE @]
                 /\ reg' = IF f.kind = "error" /\ Waiting(f.id)
                           THEN [reg EXCEPT !.timer = TRUE] ELSE reg
                 /\ UNCHANGED serving
    /\ UNCHANGED <<conn, dial, ws, attempts, queue, server, spent>>

\* A handler of dispatchReverseInvoke is done: it answers on the socket of now.
Served ==
    /\ \E f \in serving :
         /\ serving' = serving \ {f}
         /\ sock' = IF IsOpen(ws) THEN Sent(sock, ws, {Frame("answer", f.id, f.of)}) ELSE sock
    /\ UNCHANGED <<conn, dial, ws, attempts, queue, call, reg, server, spent>>

---------------------------------------------------------------------------
(* The server *)

AcceptBeside(s) ==  \* a slip: the earlier socket stays in wsSessions
    /\ sock[s].resolving
    /\ InOrder => \A z \in Sockets : z < s => ~sock[z].resolving
    /\ sock' = [sock EXCEPT ![s].resolving = FALSE]
    /\ session' = s /\ routed' = routed \cup {s}
    /\ UNCHANGED <<client, bound, back, rev, nextRev, spent>>

\* addClient, with the session's socket replaced when there is one.
Accept(s) ==
    /\ sock[s].resolving
    /\ InOrder => \A z \in Sockets : z < s => ~sock[z].resolving
    /\ sock' = [sock EXCEPT ![s].resolving = FALSE]
    /\ session' = s /\ routed' = (routed \ {session}) \cup {s}
    /\ UNCHANGED <<client, bound, back, rev, nextRev, spent>>

\* A bad token, a team the user is not in (permanent), or a failing lookup.
Refuse(s, permanent) ==
    /\ sock[s].resolving /\ sock[s].sv = "open" /\ Fault
    /\ sock' = [sock EXCEPT ![s] = [@ EXCEPT !.sv = "closed", !.up = FALSE, !.refused = permanent,
                                            !.resolving = FALSE, !.c2s = {}]]
    /\ UNCHANGED <<client, server, dials, restarts>>

\* handleMessage of a frame; a frame held back until the tenant is ready is
\* handled although its socket may have closed since.
HandleInvoke(s) ==
    /\ sock[s].cl # "none" /\ ~sock[s].resolving
    /\ \E f \in sock[s].c2s :
         /\ f.kind = "invoke"
         /\ sock' = [sock EXCEPT ![s] = [sock[s] EXCEPT !.c2s = @ \ {f}, !.work = @ \cup {f.id}]]
    /\ UNCHANGED <<client, server, spent>>

\* reverse-response: the call the socket's map has under this id.
Answered(s, f) ==
    [c \in Reverses |->
        IF rev[c].st = "waiting" /\ rev[c].ws = s /\ rev[c].id = f.id
        THEN [rev[c] EXCEPT !.st = "answered", !.by = f.of] ELSE rev[c]]

HandleAnswer(s) ==
    /\ ~sock[s].resolving
    /\ \E f \in sock[s].c2s :
         /\ f.kind = "answer"
         /\ sock' = [sock EXCEPT ![s].c2s = @ \ {f}]
         /\ rev' = Answered(s, f)
    /\ UNCHANGED <<client, session, routed, bound, back, nextRev, spent>>

\* A handler returns or throws; the response goes to the socket of the call.
Finish(s) ==
    /\ \E i \in sock[s].work \cap Calls :
          sock' = Replied([sock EXCEPT ![s].work = @ \ {i}], s, Response(i))
    /\ UNCHANGED <<client, server, spent>>

\* A registration is under way on the socket.
Registers(s) == \E r \in Regs : r \in sock[s].work \/ Invocation(r) \in sock[s].c2s

\* The answer to a registration on the socket; earlier sockets have theirs.
Registered(s, kind) ==
    /\ InOrder => \A z \in Sockets : z < s => ~Registers(z)
    /\ \E r \in sock[s].work \cap Regs :
          sock' = Replied([sock EXCEPT ![s].work = @ \ {r}], s, Frame(kind, r, None))

\* bindFromWs, past its await of the machine's row.
Bind(s) ==
    /\ Registered(s, "response")
    /\ bound' = s /\ back' = (back \ {bound}) \cup {s}
    /\ UNCHANGED <<client, session, routed, rev, nextRev, spent>>

\* The row cannot be written, and the client tries again.
BindFails(s) ==
    /\ Registered(s, "error") /\ Fault
    /\ UNCHANGED <<client, server, dials, restarts>>

\* invokeOnWs on the socket getActiveWs names; it refuses one that is not open.
PerSocketId ==  \* a slip: every socket numbers its own calls
    1 + Cardinality({c \in Reverses : rev[c].ws = bound})

ReverseId == nextRev

Dispatch(c) ==
    /\ rev[c].st = "new" /\ \A b \in Reverses : b < c => rev[b].st # "new"
    /\ bound # 0
    /\ IF sock[bound].sv = "open"
       THEN /\ rev' = [rev EXCEPT ![c] =
                           [st |-> "waiting", ws |-> bound, id |-> ReverseId, by |-> None]]
            /\ sock' = Replied(sock, bound, Frame("reverse", ReverseId, c))
            /\ nextRev' = nextRev + 1
       ELSE rev' = [rev EXCEPT ![c].st = "failed"] /\ UNCHANGED <<sock, nextRev>>
    /\ UNCHANGED <<client, session, routed, bound, back, spent>>

TimesOut(c) ==
    /\ rev[c].st = "waiting" /\ Fault
    /\ rev' = [rev EXCEPT ![c].st = "failed"]
    /\ UNCHANGED <<client, sock, session, routed, bound, back, nextRev, dials, restarts>>

Failed(ss) ==
    [c \in Reverses |-> IF rev[c].st = "waiting" /\ rev[c].ws \in ss
                        THEN [rev[c] EXCEPT !.st = "failed"] ELSE rev[c]]

\* The close event: releaseWs, then the handler addClient has set.
ServerClosed(s) ==
    /\ sock[s].sv = "open" /\ ~sock[s].up
    /\ InOrder => ~sock[s].resolving
    /\ sock' = [sock EXCEPT ![s].sv = "closed"]
    /\ back' = back \ {s}
    /\ bound' = IF s \in back /\ bound = s THEN 0 ELSE bound
    /\ IF sock[s].resolving THEN UNCHANGED <<session, routed, rev>>
       ELSE /\ rev' = Failed({s})
            /\ session' = IF s \in routed /\ session = s THEN 0 ELSE session
            /\ routed' = routed \ {s}
    /\ UNCHANGED <<client, nextRev, spent>>

---------------------------------------------------------------------------
(* Faults *)

\* The connection breaks: what has not arrived by then is lost.
Cut(s) ==
    /\ sock[s].up /\ Fault
    /\ \E c2s \in SUBSET sock[s].c2s, s2c \in SUBSET sock[s].s2c :
          sock' = [sock EXCEPT ![s] = [@ EXCEPT !.up = FALSE, !.c2s = c2s, !.s2c = s2c]]
    /\ UNCHANGED <<client, server, dials, restarts>>

\* The server process ends and a new one starts.
Restart ==
    /\ restarts < MaxRestarts /\ restarts' = restarts + 1 /\ Fault
    /\ sock' = [s \in Sockets |->
                  IF sock[s].cl = "none" THEN sock[s]
                  ELSE [sock[s] EXCEPT !.sv = "closed", !.up = FALSE, !.resolving = FALSE,
                                       !.c2s = {}, !.work = {}]]
    /\ session' = 0 /\ routed' = {} /\ bound' = 0 /\ back' = {}
    /\ rev' = Failed(Sockets) /\ nextRev' = 1
    /\ UNCHANGED <<client, dials>>

---------------------------------------------------------------------------
Init ==
    /\ conn = "connecting" /\ dial = "token" /\ ws = 0 /\ attempts = 0
    /\ queue = {} /\ call = [i \in Ids |-> "new"] /\ serving = {}
    /\ reg = [boot |-> "off", timer |-> FALSE, first |-> None]
    /\ sock = [s \in Sockets |-> NoSocket]
    /\ session = 0 /\ routed = {} /\ bound = 0 /\ back = {} /\ nextRev = 1
    /\ rev = [c \in Reverses |-> [st |-> "new", ws |-> 0, id |-> 0, by |-> None]]
    /\ dials = 0 /\ faults = 0 /\ restarts = 0

SocketStep(s) ==
    \/ Open(s) \/ Closing(s) \/ Closed(s) \/ Receive(s)
    \/ Accept(s) \/ HandleInvoke(s) \/ HandleAnswer(s) \/ Finish(s) \/ Bind(s)
    \/ BindFails(s) \/ ServerClosed(s) \/ Cut(s) \/ \E permanent \in BOOLEAN : Refuse(s, permanent)

Next ==
    \/ \E i \in Calls : Invoke(i)
    \/ InitMachines \/ Subscribe \/ RegisterAgain
    \/ Reconnect \/ TokenFails \/ Dial \/ Served
    \/ \E s \in Sockets : SocketStep(s)
    \/ \E c \in Reverses : Dispatch(c) \/ TimesOut(c)
    \/ Restart

Spec == Init /\ [][Next]_vars

---------------------------------------------------------------------------
(* Properties *)

Frames(kinds, ids, ofs) == [kind : kinds, id : ids, of : ofs]

ClientFrames == Frames({"invoke"}, Ids, {None}) \cup Frames({"answer"}, Nat, Reverses)
ServerFrames == Frames({"response", "error"}, Ids, {None}) \cup Frames({"reverse"}, Nat, Reverses)

SocketType ==
    [cl : {"none", "dialing", "open", "closing", "closed"}, sv : {"none", "open", "closed"},
     up : BOOLEAN, refused : BOOLEAN, resolving : BOOLEAN, work : SUBSET Ids,
     c2s : SUBSET ClientFrames, s2c : SUBSET ServerFrames]

Types ==
    /\ conn \in {"connecting", "connected", "reconnecting", "closed"}
    /\ dial \in {"timer", "token", "socket", "none", "over"}
    /\ ws \in {0} \cup Sockets /\ attempts \in 0..Budget
    /\ queue \subseteq Ids /\ call \in [Ids -> {"new", "waiting", "settled"}]
    /\ reg \in [boot : {"off", "first", "on"}, timer : BOOLEAN, first : Regs \cup {None}]
    /\ serving \subseteq Frames({"reverse"}, Nat, Reverses)
    /\ sock \in [Sockets -> SocketType]
    /\ session \in {0} \cup Sockets /\ routed \subseteq Sockets
    /\ bound \in {0} \cup Sockets /\ back \subseteq Sockets
    /\ rev \in [Reverses -> [st : {"new", "waiting", "answered", "failed"}, ws : {0} \cup Sockets,
                             id : Nat, by : Reverses \cup {None}]]
    /\ nextRev \in Nat /\ dials \in 0..(MaxFaults + 1)
    /\ faults \in 0..MaxFaults /\ restarts \in 0..MaxRestarts

\* The emitter's socket is the newest one and the only one the client has not
\* seen closed.
OneSocket ==
    /\ conn = "connected" <=> ws # 0
    /\ \A s \in Sockets : sock[s].cl \in {"open", "closing"} => s = ws /\ s = dials

\* Every variable has its type, and the client has one socket.
TypeOK == Types /\ OneSocket

\* A call runs at most once, and never after its caller was told that it had
\* failed before it was sent: what is queued is awaited and nowhere else, and
\* what a waiting call has under way is there once.
SentOnce ==
    /\ \A i \in queue : Waiting(i) /\ Traces(i) = {}
    /\ \A i \in Ids : Waiting(i) => \A t, u \in Traces(i) : t = u

\* A reverse call is settled by the client's answer to that very call, however
\* many sockets the handler outlived, while the server does not restart: then
\* it counts from one again, and a handler may still answer the earlier one.
OwnAnswer == \A c \in Reverses : rev[c].st = "answered" /\ restarts = 0 => rev[c].by = c

\* What the server sends to the session reaches the client, once: the socket
\* the client listens on is the session's and the only one routed to it, so no
\* older socket's close takes it away and none makes a broadcast double.
SessionFollows ==
    ws # 0 /\ sock[ws].sv = "open" /\ ~sock[ws].resolving => session = ws /\ routed = {ws}

\* Nothing may remain unresolved: a call that waits is queued behind a dial that
\* goes on, or under way on the client's socket, or that socket's close, which
\* rejects it, is still to come.
Accounted ==
    \A i \in Ids : Waiting(i) =>
        \/ i \in queue /\ (ws = 0 => dial \in {"timer", "token", "socket"})
        \/ ws # 0 /\ (~sock[ws].up \/ \E t \in Traces(i) : t[2] = ws)

\* Whatever socket the client ends up on, its machine is reachable there or is
\* about to be: no registration, release or late close leaves it unbound.
MachineReachable ==
    IsOpen(ws) /\ sock[ws].up /\ reg.boot = "on" =>
        \/ bound = ws \/ Registers(ws) \/ reg.timer
        \/ \E r \in Regs : Waiting(r) /\ Error(r) \in sock[ws].s2c
===========================================================================
