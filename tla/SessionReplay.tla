---------------------------- MODULE SessionReplay ----------------------------
(***************************************************************************)
(* The client's side of the durable event stream of one session: the       *)
(* cursor of renderer/omniagents-ui/rpc/replay.ts (ReplayTracker,          *)
(* SessionReplayCoordinator), the connection of rpc/client.ts that feeds   *)
(* it, and the transcript loads of hooks/use-chat-session.ts that repair   *)
(* what it cannot.  The agent server, which is not part of the repository, *)
(* is modelled from the calls and answers the client exchanges with it.    *)
(*                                                                         *)
(* An event is the pair of its stream epoch and its sequence number.  The  *)
(* server numbers the events of an epoch from 1; epoch 0 stands for the    *)
(* null stream id of a fresh cursor.                                       *)
(***************************************************************************)
EXTENDS Naturals, FiniteSets, Sequences, SequencesExt

CONSTANTS
    Watched,       \* the event whose fate the liveness properties follow
    Lengths,       \* how many events the server emits in each stream epoch
    MaxDrops,      \* how often the socket may close
    MaxLost,       \* how many live notifications may never arrive
    MaxTimeouts,   \* how many calls may run into RPC_CALL_TIMEOUT_MS
    InOrder,       \* the server works on one call at a time, in the order of the calls
    LosesFirst,    \* an epoch's first notification may be among the lost ones
    Calm           \* the user leaves no session whose backfill is under way

ASSUME ReplayAssumption ==
    /\ Lengths \in Seq(Nat) /\ Lengths # <<>>
    /\ {MaxDrops, MaxLost, MaxTimeouts} \subseteq Nat
    /\ {InOrder, LosesFirst, Calm} \subseteq BOOLEAN

VARIABLES
    \* the agent server
    epoch,         \* the epoch of the session's stream
    ends,          \* the last sequence number of each epoch
    floor,         \* what the journal of this epoch has compacted away
    attached,      \* live events go to this client's channel
    \* the connection
    sock,          \* "down", "opening" (resuming before WS_OPEN) or "up"
    calls,         \* requests the server has not looked at
    answers,       \* answers the server has not sent
    wire,          \* what it has sent, in order
    \* the client
    rc,            \* the coordinator's entries for the session
    flight,        \* the runResume that is awaiting its answer
    acking,        \* the ack timer is set
    load,          \* the loadSession that is current
    ui,            \* the session as the chat machine shows it
    \* bookkeeping
    known,         \* every event delivered or contained in a transcript
    drops, lost, timeouts

server == <<epoch, ends, floor, attached>>
pipes  == <<calls, answers, wire>>
spent  == <<drops, lost, timeouts>>
vars   == <<server, sock, pipes, rc, flight, acking, load, ui, known, spent>>

Epochs   == DOMAIN Lengths
Emitted  == UNION {{n} \X (1..ends[n]) : n \in Epochs}
NoFlight == [id |-> 0, own |-> FALSE, stream |-> 0, last |-> 0, live |-> FALSE]
NoLoad   == [phase |-> "none", auth |-> FALSE, id |-> 0]

-----------------------------------------------------------------------------
(* The coordinator: what it keeps for one session and its methods.          *)

Fresh == [stream |-> 0, last |-> 0, registered |-> FALSE, resuming |-> FALSE,
          retry |-> FALSE, quarantined |-> FALSE, holding |-> FALSE,
          held |-> <<>>, named |-> <<0, 0>>, applied |-> <<>>]

Deliver(c, e) == [c EXCEPT !.applied = Append(@, e)]
Hold(c, hs) == [c EXCEPT !.holding = TRUE, !.held = hs]
NoHold(c) == [c EXCEPT !.holding = FALSE, !.held = <<>>]
RequireResync(c) ==
    IF c.quarantined THEN c
    ELSE [NoHold(c) EXCEPT !.quarantined = TRUE, !.retry = FALSE]

Advance(c, e) == [c EXCEPT !.stream = e[1], !.last = e[2]]

\* ReplayTracker.observe and what handle makes of each verdict.
Foreign(c, e) == c.stream \notin {0, e[1]}
DuplicateBelow(c, e) == c.stream = e[1] /\ e[2] < c.last  \* a slip: the cursor's own event is new
Duplicate(c, e) == c.stream = e[1] /\ e[2] <= c.last
GapOfTwo(c, e) == c.stream = e[1] /\ c.last > 0 /\ e[2] > c.last + 2  \* a slip: one lost event is none
Gap(c, e) == c.stream = e[1] /\ c.last > 0 /\ e[2] > c.last + 1
Observe(c, e) ==
    CASE Foreign(c, e)   -> RequireResync(Advance(c, e))
      [] Duplicate(c, e) -> c
      [] Gap(c, e)       -> [Hold(c, <<e>>) EXCEPT !.resuming = TRUE]
      [] OTHER           -> Deliver(Advance(c, e), e)

\* A live event that finds a backfill in flight is held; when no list was set
\* up for it the push throws and the event is gone.
Handle(c, e) ==
    CASE c.quarantined            -> c
      [] ~c.quarantined /\ c.resuming /\ c.holding  -> Hold(c, Append(c.held, e))
      [] ~c.quarantined /\ c.resuming /\ ~c.holding -> c
      [] OTHER                    -> Observe(c, e)

\* resumeAll, for this session.
Resumable(c) == ~c.resuming /\ ~c.quarantined /\ (c.stream # 0 \/ c.registered)
ResumeAllBare(c) ==  \* a slip: no list for the events that overtake the answer
    IF Resumable(c) THEN [c EXCEPT !.resuming = TRUE] ELSE c
ResumeAll(c) ==
    IF Resumable(c)
    THEN [(IF c.retry THEN c ELSE Hold(c, <<>>)) EXCEPT !.resuming = TRUE]
    ELSE c

\* completeResync without an epoch: the cursor the server named, or none.
CompleteResyncBare(c) ==  \* a slip: the cursor the server named is not used
    [NoHold(c) EXCEPT !.stream = 0, !.last = 0, !.named = <<0, 0>>,
                      !.quarantined = FALSE, !.retry = FALSE, !.applied = <<>>]
CompleteResync(c) ==
    [NoHold(c) EXCEPT !.stream = c.named[1], !.last = c.named[2], !.named = <<0, 0>>,
                      !.quarantined = FALSE, !.retry = FALSE, !.applied = <<>>]

\* unregisterSession: everything but the mark of a backfill in flight.
Unregister(c) == [Fresh EXCEPT !.resuming = c.resuming]

\* applyResume: the replayed events past the cursor, then the advertised tail.
First(a, last) == IF last > a.from THEN last + 1 ELSE a.from + 1
ApplyResume(c, a, last) ==
    [c EXCEPT !.applied = @ \o [i \in 1..(a.upto + 1 - First(a, last)) |->
                                   <<a.stream, First(a, last) + i - 1>>]]
Moved(c, a) ==
    [c EXCEPT !.stream = a.stream, !.last = IF a.upto > @ THEN a.upto ELSE @]

\* The end of runResume: forget the flight, flush what was held.
Landing(c) == [NoHold(c) EXCEPT !.resuming = FALSE, !.retry = FALSE]
Flush(c) ==
    LET after[n \in 0..Len(c.held)] ==
          IF n = 0 THEN Landing(c) ELSE Handle(after[n - 1], c.held[n])
    IN  after[Len(c.held)]

-----------------------------------------------------------------------------
(* Calls of the client.                                                     *)

Ids(kinds) == {m.id : m \in {x \in ToSet(calls \o answers \o wire) : x.kind \in kinds}}
Unused(kinds) == CHOOSE i \in 0..Cardinality(Ids(kinds)) : i \notin Ids(kinds)

ResumeId  == Unused({"resume", "resumed", "refused"})
HistoryId == Unused({"history", "transcript"})

ResumeCall(c) == [kind |-> "resume", id |-> ResumeId, stream |-> c.stream, from |-> c.last]
HistoryCall   == [kind |-> "history", id |-> HistoryId]
AckCall(c)    == [kind |-> "ack", id |-> 0, stream |-> c.stream]

\* The coordinator becomes c.  `asks` says whether c has started a backfill,
\* `fetch` which history request the current load sends.
Become(c, asks, fetch) ==
    /\ rc' = c
    /\ known' = known \cup ToSet(c.applied)
    /\ calls' = calls \o (IF asks THEN <<ResumeCall(c)>> ELSE <<>>) \o fetch
    /\ flight' = IF asks THEN [id |-> ResumeId, own |-> TRUE, stream |-> 0, last |-> 0, live |-> TRUE]
                 ELSE IF c.resuming THEN flight ELSE NoFlight

Fetching(auth) == [phase |-> "fetching", auth |-> auth, id |-> HistoryId]

\* loadSession of a known session over an open socket: select, register, and
\* either wait for the backfill registerSession starts or read the transcript.
Select(c, auth) ==
    LET r == [c EXCEPT !.registered = TRUE]
        s == IF sock = "up" THEN ResumeAll(r) ELSE r
        asks == s.resuming /\ ~c.resuming
    IN  /\ ui' = "initializing"
        /\ load' = IF asks THEN [phase |-> "attaching", auth |-> auth, id |-> 0]
                   ELSE Fetching(auth)
        /\ Become(s, asks, IF asks THEN <<>> ELSE <<HistoryCall>>)

\* The coordinator becomes c in the handling of a message; a quarantine that
\* begins is reported, and the bound session reloads its transcript.
Settle(c, asks) ==
    IF c.quarantined /\ ~rc.quarantined /\ c.registered
    THEN Select(c, TRUE)
    ELSE Become(c, asks, <<>>) /\ UNCHANGED <<load, ui>>

-----------------------------------------------------------------------------
(* The agent server.                                                        *)

Emit ==
    /\ ends[epoch] < Lengths[epoch]
    /\ ends' = [ends EXCEPT ![epoch] = @ + 1]
    /\ \/ /\ attached
          /\ wire' = Append(wire, [kind |-> "event", id |-> 0, event |-> <<epoch, ends'[epoch]>>])
          /\ UNCHANGED lost
       \/ /\ attached /\ lost < MaxLost /\ (LosesFirst \/ ends[epoch] > 0)
          /\ lost' = lost + 1
          /\ UNCHANGED wire
       \/ /\ ~attached
          /\ UNCHANGED <<wire, lost>>
    /\ UNCHANGED <<epoch, floor, attached, sock, calls, answers, rc, flight, acking,
                   load, ui, known, drops, timeouts>>

NewEpoch ==
    /\ epoch < Len(Lengths)
    /\ epoch' = epoch + 1
    /\ floor' = 0
    /\ UNCHANGED <<ends, attached, sock, pipes, rc, flight, acking, load, ui, known, spent>>

Compact ==
    /\ floor < ends[epoch]
    /\ floor' = ends[epoch]
    /\ UNCHANGED <<epoch, ends, attached, sock, pipes, rc, flight, acking, load, ui, known, spent>>

\* resume_session is refused (-32030) when the cursor cannot be served.
Servable(m) == m.stream \in {0, epoch} /\ floor <= m.from /\ m.from <= ends[epoch]

Reply(m) ==
    CASE m.kind = "history" ->
            <<[kind |-> "transcript", id |-> m.id, seen |-> Emitted]>>
      [] m.kind = "resume" /\ Servable(m) ->
            <<[kind |-> "resumed", id |-> m.id, stream |-> epoch, from |-> m.from, upto |-> ends[epoch]]>>
      [] m.kind = "resume" /\ ~Servable(m) ->
            <<[kind |-> "refused", id |-> m.id, stream |-> epoch, upto |-> ends[epoch]]>>
      [] m.kind = "ack" ->
            IF m.stream = epoch THEN <<>> ELSE <<[kind |-> "ackRefused", id |-> 0]>>

\* A resumed channel gets live events from here on; they may overtake the
\* answer, which is sent when the handler returns.
Serve(i) ==
    /\ InOrder => i = 1
    /\ calls' = RemoveAt(calls, i)
    /\ attached' = (attached \/ (calls[i].kind = "resume" /\ Servable(calls[i])))
    /\ answers' = answers \o Reply(calls[i])
    /\ UNCHANGED <<epoch, ends, floor, sock, wire, rc, flight, acking, load, ui, known, spent>>

SendAnswer(i) ==
    /\ InOrder => i = 1
    /\ answers' = RemoveAt(answers, i)
    /\ wire' = Append(wire, answers[i])
    /\ UNCHANGED <<server, sock, calls, rc, flight, acking, load, ui, known, spent>>

-----------------------------------------------------------------------------
(* Messages the client receives, in the order of the socket.                *)

\* Delivering an event starts the ack timer when none is running.
AckTimer(c) == acking' = (acking \/ Len(c.applied) > Len(rc.applied))

ReceiveEvent ==
    /\ wire # <<>> /\ Head(wire).kind = "event"
    /\ LET c == Handle(rc, Head(wire).event)
       IN  /\ Settle(c, c.resuming /\ ~rc.resuming)
           /\ AckTimer(c)
    /\ wire' = Tail(wire)
    /\ UNCHANGED <<server, sock, answers, spent>>

\* The awaits behind a backfill: WS_OPEN after the reconnect's resumeAll, and
\* the transcript after registerSession's.
Opened == IF sock = "opening" THEN "up" ELSE sock

\* runResume continues with an answer.  A cursor the user has dropped since
\* is the flight's own; the coordinator's entry is left alone.
Landed(a) ==
    LET last == IF flight.own THEN rc.last ELSE flight.last
        c    == ApplyResume(rc, a, last)
    IN  Flush(IF flight.own THEN Moved(c, a) ELSE c)

ResumeSucceeds ==
    /\ wire # <<>> /\ Head(wire).kind = "resumed"
    /\ flight.live /\ flight.id = Head(wire).id
    /\ LET c == Landed(Head(wire))
       IN  /\ AckTimer(c)
           /\ IF c.quarantined /\ ~rc.quarantined /\ c.registered
              THEN Select(c, TRUE)
              ELSE IF load.phase = "attaching"
              THEN /\ load' = Fetching(load.auth)
                   /\ Become(c, c.resuming, <<HistoryCall>>)
                   /\ UNCHANGED ui
              ELSE /\ Become(c, c.resuming, <<>>)
                   /\ UNCHANGED <<load, ui>>
    /\ sock' = Opened
    /\ wire' = Tail(wire)
    /\ UNCHANGED <<server, answers, spent>>

Refused(a) ==
    [NoHold(RequireResync([rc EXCEPT !.named = <<a.stream, a.upto>>])) EXCEPT !.resuming = FALSE]

ResumeRefused ==
    /\ wire # <<>> /\ Head(wire).kind = "refused"
    /\ flight.live /\ flight.id = Head(wire).id
    /\ Settle(Refused(Head(wire)), FALSE)
    /\ sock' = Opened
    /\ wire' = Tail(wire)
    /\ UNCHANGED <<server, answers, acking, spent>>

\* HISTORY_LOADED; the durable thread state is then recovered before a resync
\* is declared complete.
TranscriptLoads ==
    /\ wire # <<>> /\ Head(wire).kind = "transcript"
    /\ load.phase = "fetching" /\ load.id = Head(wire).id
    /\ known' = known \cup Head(wire).seen
    /\ ui' = "ready"
    /\ load' = IF load.auth THEN [load EXCEPT !.phase = "recovering", !.id = 0] ELSE NoLoad
    /\ wire' = Tail(wire)
    /\ UNCHANGED <<server, sock, calls, answers, rc, flight, acking, spent>>

AckRefused ==
    /\ wire # <<>> /\ Head(wire).kind = "ackRefused"
    /\ Settle(RequireResync(rc), FALSE)
    /\ wire' = Tail(wire)
    /\ UNCHANGED <<server, sock, answers, acking, spent>>

\* The answer of a call that is no longer pending.
Unexpected(m) ==
    \/ m.kind \in {"resumed", "refused"} /\ ~(flight.live /\ flight.id = m.id)
    \/ m.kind = "transcript" /\ ~(load.phase = "fetching" /\ load.id = m.id)

LateAnswer ==
    /\ wire # <<>> /\ Unexpected(Head(wire))
    /\ wire' = Tail(wire)
    /\ UNCHANGED <<server, sock, calls, answers, rc, flight, acking, load, ui, known, spent>>

Receive ==
    \/ ReceiveEvent \/ ResumeSucceeds \/ ResumeRefused
    \/ TranscriptLoads \/ AckRefused \/ LateAnswer

-----------------------------------------------------------------------------
(* Timers, the host and the user.                                           *)

AckFires ==
    /\ acking
    /\ acking' = FALSE
    /\ calls' = IF sock # "down" /\ rc.stream # 0 /\ rc.last > 0 THEN Append(calls, AckCall(rc)) ELSE calls
    /\ UNCHANGED <<server, sock, answers, wire, rc, flight, load, ui, known, spent>>

\* The outcome of a backfill whose call failed: the cursor and what was held
\* are kept for the next reconnect.
RetryResuming(c) == [c EXCEPT !.retry = TRUE]  \* a slip: the backfill stays marked
Retry(c) == [c EXCEPT !.retry = TRUE, !.resuming = FALSE]

\* completeSessionResync after an authoritative load.
ResyncCompletes ==
    /\ load.phase = "recovering"
    /\ LET c == CompleteResync(rc)
           s == IF sock = "up" THEN ResumeAll(c) ELSE c
       IN  Become(s, s.resuming /\ ~rc.resuming, <<>>)
    /\ load' = NoLoad
    /\ UNCHANGED <<server, sock, answers, wire, acking, ui, spent>>

\* A call that outlives RPC_CALL_TIMEOUT_MS is given up; the server may
\* still work on it.
ResumeTimesOut ==
    /\ timeouts < MaxTimeouts
    /\ sock = "up" /\ flight.live
    /\ timeouts' = timeouts + 1
    /\ IF load.phase = "attaching"
       THEN load' = Fetching(load.auth) /\ Become(Retry(rc), FALSE, <<HistoryCall>>)
       ELSE Become(Retry(rc), FALSE, <<>>) /\ UNCHANGED load
    /\ UNCHANGED <<server, sock, answers, wire, acking, ui, drops, lost>>

HistoryTimesOut ==
    /\ timeouts < MaxTimeouts
    /\ sock = "up" /\ load.phase = "fetching"
    /\ timeouts' = timeouts + 1
    /\ load' = NoLoad
    /\ ui' = "error"
    /\ UNCHANGED <<server, sock, pipes, rc, flight, acking, known, drops, lost>>

\* The socket closes: every pending call is rejected, a backfill is left for
\* the reconnect, and a load that has not read its transcript fails.
Drop ==
    /\ sock # "down" /\ drops < MaxDrops
    /\ drops' = drops + 1
    /\ sock' = "down" /\ attached' = FALSE
    /\ calls' = <<>> /\ answers' = <<>> /\ wire' = <<>>
    /\ rc' = IF flight.live THEN Retry(rc) ELSE rc
    /\ flight' = NoFlight
    /\ IF load.phase \in {"attaching", "fetching"}
       THEN load' = NoLoad /\ ui' = "error"
       ELSE UNCHANGED <<load, ui>>
    /\ UNCHANGED <<epoch, ends, floor, acking, known, lost, timeouts>>

\* connectAttempt: socket, handshake, resumeAll, and WS_OPEN when the
\* backfills it started have settled.
DialBare ==  \* a slip: the sessions are not resumed
    /\ sock = "down" /\ sock' = "up"
    /\ UNCHANGED <<server, pipes, rc, flight, acking, load, ui, known, spent>>
Dial ==
    /\ sock = "down"
    /\ LET c == ResumeAll(rc)
           asks == c.resuming /\ ~rc.resuming
       IN  /\ Become(c, asks, <<>>)
           /\ sock' = IF asks THEN "opening" ELSE "up"
    /\ UNCHANGED <<server, answers, wire, acking, load, ui, spent>>

\* The user opens the session, or opens it again.
Open ==
    /\ Calm => ~(rc.registered /\ (load.auth \/ rc.resuming))
    /\ load.phase \in {"none", "recovering"}
    /\ \/ /\ sock # "down"
          /\ Select(rc, FALSE)
       \/ /\ sock = "down"
          /\ rc' = [rc EXCEPT !.registered = TRUE]
          /\ ui' = "error" /\ load' = NoLoad
          /\ UNCHANGED <<calls, flight, known>>
    /\ UNCHANGED <<server, sock, answers, wire, acking, spent>>

\* The user turns to another session, or the chat column closes.
Leave ==
    /\ rc.registered
    /\ Calm => ~rc.resuming
    /\ rc' = Unregister(rc)
    /\ flight' = IF flight.live /\ flight.own
                 THEN [flight EXCEPT !.own = FALSE, !.stream = rc.stream, !.last = rc.last]
                 ELSE flight
    /\ acking' = FALSE
    /\ load' = NoLoad
    /\ ui' = "none"
    /\ UNCHANGED <<server, sock, pipes, known, spent>>

-----------------------------------------------------------------------------
Init ==
    /\ epoch = 1 /\ ends = [n \in Epochs |-> 0] /\ floor = 0 /\ attached = FALSE
    /\ sock = "down" /\ calls = <<>> /\ answers = <<>> /\ wire = <<>>
    /\ rc = Fresh /\ flight = NoFlight /\ acking = FALSE
    /\ load = NoLoad /\ ui = "none" /\ known = {}
    /\ drops = 0 /\ lost = 0 /\ timeouts = 0

Next ==
    \/ Emit \/ NewEpoch \/ Compact
    \/ \E i \in DOMAIN calls : Serve(i)
    \/ \E i \in DOMAIN answers : SendAnswer(i)
    \/ Receive
    \/ AckFires \/ ResyncCompletes
    \/ ResumeTimesOut \/ HistoryTimesOut \/ Drop \/ Dial
    \/ Open \/ Leave

\* The server answers what it is asked, messages are handled, the reconnect
\* loop of rpcClientMachine never gives up, awaited continuations run.
Fairness ==
    /\ WF_vars(\E i \in DOMAIN calls : Serve(i))
    /\ WF_vars(\E i \in DOMAIN answers : SendAnswer(i))
    /\ WF_vars(Receive)
    /\ WF_vars(Dial)
    /\ WF_vars(ResyncCompletes)

Spec == Init /\ [][Next]_vars /\ Fairness

-----------------------------------------------------------------------------
(* Properties.                                                              *)

\* The cursor names events the server has emitted, a call in flight is one the
\* tracker waits for, and nothing is known that was never sent.
TypeOK ==
    /\ epoch \in Epochs /\ (\A n \in Epochs : ends[n] \in 0..Lengths[n]) /\ floor \in 0..ends[epoch]
    /\ attached \in BOOLEAN /\ sock \in {"down", "opening", "up"}
    /\ rc.stream \in 0..epoch /\ (rc.stream # 0 => rc.last \in 0..ends[rc.stream])
    /\ flight.live <=> (rc.resuming /\ sock # "down")
    /\ load.phase \in {"none", "attaching", "fetching", "recovering"}
    /\ ui \in {"none", "initializing", "ready", "error"}
    /\ known \subseteq Emitted

\* A backfill in flight has a list that holds the live events that overtake
\* its answer: handle() pushes to it without looking whether it is there.
HoldReady ==
    rc.registered /\ rc.resuming /\ ~rc.quarantined => rc.holding

\* Between two resets of the cursor every event reaches the listeners at most
\* once and an epoch's events reach them in order, whichever of the socket,
\* a backfill and the list of held events they come from.
AppliedInOrder ==
    \A i, j \in DOMAIN rc.applied :
        i < j /\ rc.applied[i][1] = rc.applied[j][1] => rc.applied[i][2] < rc.applied[j][2]

\* The cursor never runs ahead of the user: for a session that is shown and
\* not quarantined, every event up to the cursor was delivered or is part of
\* a transcript that was loaded.
CursorCovers ==
    (rc.registered /\ ui = "ready" /\ load = NoLoad /\ ~rc.quarantined)
        => \A e \in Emitted : e[1] = rc.stream /\ e[2] <= rc.last => e \in known

\* What the stream the cursor is on brings while the connection is down is
\* caught up after it.
CaughtUp ==
    (Watched \in Emitted /\ rc.registered /\ rc.stream = Watched[1] /\ sock = "down")
        ~> (Watched \in known \/ rc.quarantined \/ ~rc.registered \/ ui = "error")

\* A quarantine of the session the user looks at comes to rest: the session is
\* resumed from a cursor the server can serve, and not sent round the loop of
\* reload and refusal again, unless the user leaves or is shown the failure.
QuarantineEnds ==
    (rc.quarantined /\ load.auth)
        ~> ((~rc.quarantined /\ ~rc.resuming) \/ ui = "error" \/ ~rc.registered)
=============================================================================
