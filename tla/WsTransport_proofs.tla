------------------------ MODULE WsTransport_proofs ------------------------
(* Proofs about WsTransport, for all calls, bounds and policies. *)
EXTENDS WsTransport, TLAPS

LEMMA FrameTypes ==
    /\ \A i \in Ids : Invocation(i) \in ClientFrames
    /\ \A i \in Ids : Response(i) \in ServerFrames /\ Error(i) \in ServerFrames
    /\ \A n \in Nat, c \in Reverses : Frame("reverse", n, c) \in ServerFrames
    /\ \A n \in Nat, c \in Reverses : Frame("answer", n, c) \in ClientFrames
  BY DEF Invocation, Response, Error, Frame, Frames, ClientFrames, ServerFrames

\* A table of sockets stays one when a field of one socket changes.
LEMMA SentType ==
    ASSUME NEW k \in [Sockets -> SocketType], NEW s \in Sockets, NEW fs \in SUBSET ClientFrames
    PROVE  Sent(k, s, fs) \in [Sockets -> SocketType]
<1>1. k[s] \in SocketType
  OBVIOUS
<1>2. [k[s] EXCEPT !.c2s = @ \cup fs] \in SocketType
  BY <1>1 DEF SocketType
<1>. QED
  BY <1>2 DEF Sent

LEMMA RepliedType ==
    ASSUME NEW k \in [Sockets -> SocketType], NEW s \in Sockets, NEW f \in ServerFrames
    PROVE  Replied(k, s, f) \in [Sockets -> SocketType]
<1>1. k[s] \in SocketType
  OBVIOUS
<1>2. [k[s] EXCEPT !.s2c = @ \cup {f}] \in SocketType
  BY <1>1 DEF SocketType
<1>. QED
  BY <1>2 DEF Replied

\* The table of reverse calls stays one when calls are given up or answered.
RevRecord == [st : {"new", "waiting", "answered", "failed"}, ws : {0} \cup Sockets,
              id : Nat, by : Reverses \cup {None}]
RevTables == [Reverses -> RevRecord]

LEMMA RevType == Types => rev \in RevTables
  BY DEF Types, RevTables, RevRecord

LEMMA FailedType == ASSUME Types, NEW ss PROVE Failed(ss) \in RevTables
<1>1. \A c \in Reverses : rev[c] \in RevRecord
  BY RevType DEF RevTables
<1>2. \A c \in Reverses : [rev[c] EXCEPT !.st = "failed"] \in RevRecord
  BY <1>1 DEF RevRecord
<1>. QED
  BY <1>1, <1>2 DEF Failed, RevTables

LEMMA AnsweredType ==
    ASSUME Types, NEW s, NEW f, f.of \in Reverses PROVE Answered(s, f) \in RevTables
<1>1. \A c \in Reverses : rev[c] \in RevRecord
  BY RevType DEF RevTables
<1>2. \A c \in Reverses : [rev[c] EXCEPT !.st = "answered", !.by = f.of] \in RevRecord
  BY <1>1 DEF RevRecord
<1>. QED
  BY <1>1, <1>2 DEF Answered, RevTables

LEMMA OnlySockets ==
    ASSUME Types, sock' \in [Sockets -> SocketType], UNCHANGED <<client, server, spent>>
    PROVE  Types'
  BY DEF Types, client, server, spent


LEMMA InitTypes == Init => Types
<1>. SUFFICES ASSUME Init PROVE Types
  OBVIOUS
<1>1. NoSocket \in SocketType
  BY DEF NoSocket, SocketType
<1>2. sock \in [Sockets -> SocketType]
  BY <1>1 DEF Init
<1>3. call \in [Ids -> {"new", "waiting", "settled"}] /\ rev \in [Reverses ->
         [st : {"new", "waiting", "answered", "failed"}, ws : {0} \cup Sockets,
          id : Nat, by : Reverses \cup {None}]]
  BY DEF Init
<1>4. reg \in [boot : {"off", "first", "on"}, timer : BOOLEAN, first : Regs \cup {None}]
  BY DEF Init
<1>. QED
  BY <1>2, <1>3, <1>4, TransportAssumption DEF Init, Types

LEMMA InvokesTypes ==
    ASSUME Types, NEW i \in Ids, Invokes(i)
    PROVE  /\ call' \in [Ids -> {"new", "waiting", "settled"}]
           /\ queue' \subseteq Ids
           /\ sock' \in [Sockets -> SocketType]
<1>1. sock \in [Sockets -> SocketType] /\ ws \in {0} \cup Sockets
  BY DEF Types
<1>2. {Invocation(i)} \in SUBSET ClientFrames
  BY FrameTypes
<1>3. ASSUME IsOpen(ws) PROVE Sent(sock, ws, {Invocation(i)}) \in [Sockets -> SocketType]
  BY <1>1, <1>2, <1>3, SentType DEF IsOpen
<1>4. sock' \in [Sockets -> SocketType]
  BY <1>1, <1>3 DEF Invokes
<1>. QED
  BY <1>4 DEF Invokes, Types

LEMMA FailureTypes ==
    ASSUME Types, NEW permanent \in BOOLEAN, Failure(permanent)
    PROVE  /\ conn' \in {"connecting", "connected", "reconnecting", "closed"}
           /\ dial' \in {"timer", "token", "socket", "none", "over"}
           /\ attempts' \in 0..Budget /\ queue' \subseteq Ids
           /\ call' \in [Ids -> {"new", "waiting", "settled"}]
           /\ reg' \in [boot : {"off", "first", "on"}, timer : BOOLEAN, first : Regs \cup {None}]
<1>1. attempts \in 0..Budget /\ queue \subseteq Ids
      /\ call \in [Ids -> {"new", "waiting", "settled"}]
      /\ reg \in [boot : {"off", "first", "on"}, timer : BOOLEAN, first : Regs \cup {None}]
  BY DEF Types
<1>2. \A keep : Rejected(keep) \in [Ids -> {"new", "waiting", "settled"}]
  BY <1>1 DEF Rejected
<1>3. \A c : (\E r \in Regs : Waiting(r) /\ c[r] = "settled") \in BOOLEAN
  OBVIOUS
<1>4. \A c : Retried(c) \in [boot : {"off", "first", "on"}, timer : BOOLEAN, first : Regs \cup {None}]
  BY <1>1 DEF Retried
<1>. QED
  BY <1>1, <1>2, <1>4, TransportAssumption DEF Failure

LEMMA TypesStep == Types /\ [Next]_vars => Types'
<1>. SUFFICES ASSUME Types, [Next]_vars PROVE Types'
  OBVIOUS
<1>. USE TransportAssumption
<1>s. sock \in [Sockets -> SocketType]
  BY DEF Types
<1>r. Frames({"reverse"}, Nat, Reverses) \subseteq ServerFrames
  BY DEF ServerFrames
<1>1. ASSUME NEW i \in Calls, Invoke(i) PROVE Types'
  <2>1. i \in Ids /\ Invokes(i)
    BY <1>1 DEF Invoke, Ids
  <2>. QED
    BY <1>1, <2>1, InvokesTypes DEF Invoke, Types, server, spent
<1>2. ASSUME NEW r \in FreshRegs, NEW b \in {"first", "on"}, RegisterOnce(r, b) PROVE Types'
  <2>1. r \in Ids /\ r \in Regs /\ Invokes(r)
    BY <1>2 DEF FreshRegs, Ids, RegisterOnce
  <2>2. (conn = "closed") \in BOOLEAN
    OBVIOUS
  <2>3. reg' \in [boot : {"off", "first", "on"}, timer : BOOLEAN, first : Regs \cup {None}]
    BY <1>2, <2>1, <2>2 DEF RegisterOnce
  <2>. QED
    BY <1>2, <2>1, <2>3, InvokesTypes DEF RegisterOnce, Types, server, spent
<1>3. CASE InitMachines
  BY <1>2, <1>3 DEF InitMachines
<1>4. CASE RegisterAgain
  BY <1>2, <1>4 DEF RegisterAgain
<1>5. CASE Subscribe
  <2>0. reg' = [reg EXCEPT !.boot = "on", !.first = None]
    BY <1>5 DEF Subscribe
  <2>1. reg' \in [boot : {"off", "first", "on"}, timer : BOOLEAN, first : Regs \cup {None}]
    BY <2>0 DEF Types
  <2>2. CASE IsOpen(ws)
    <3>1. PICK r \in Ids : Invokes(r)
      BY <1>5, <2>2 DEF Subscribe, FreshRegs, Ids
    <3>. QED
      BY <1>5, <2>1, <3>1, InvokesTypes DEF Subscribe, Types, server, spent
  <2>. QED
    BY <1>5, <2>1, <2>2 DEF Subscribe, Types, server, spent
<1>6. CASE Reconnect
  BY <1>6 DEF Reconnect, Types, server, spent
<1>7. CASE TokenFails
  <2>1. Failure(FALSE)
    BY <1>7 DEF TokenFails
  <2>2. Fault
    BY <1>7 DEF TokenFails
  <2>3. faults' \in 0..MaxFaults
    BY <2>2 DEF Fault, Types
  <2>4. UNCHANGED <<ws, serving, sock, server, dials, restarts>>
    BY <1>7 DEF TokenFails
  <2>. QED
    BY <2>1, <2>3, <2>4, FailureTypes DEF Types, server
<1>8. CASE Dial
  <2>1. NewSocket \in SocketType
    BY DEF NewSocket, NoSocket, SocketType
  <2>2. sock' \in [Sockets -> SocketType]
    BY <1>8, <2>1, <1>s DEF Dial
  <2>. QED
    BY <1>8, <2>2 DEF Dial, Types, server, spent, Sockets
<1>9. CASE Served
  <2>1. PICK f \in serving : /\ serving' = serving \ {f}
         /\ sock' = IF IsOpen(ws) THEN Sent(sock, ws, {Frame("answer", f.id, f.of)}) ELSE sock
    BY <1>9 DEF Served
  <2>2. f.id \in Nat /\ f.of \in Reverses
    BY DEF Types, Frames
  <2>3. {Frame("answer", f.id, f.of)} \in SUBSET ClientFrames
    BY <2>2, FrameTypes
  <2>4. IsOpen(ws) => ws \in Sockets
    BY DEF IsOpen, Types
  <2>5. sock' \in [Sockets -> SocketType]
    BY <2>1, <2>3, <2>4, <1>s, SentType
  <2>. QED
    <3>1. serving' \subseteq Frames({"reverse"}, Nat, Reverses)
      BY <2>1 DEF Types
    <3>2. UNCHANGED <<conn, dial, ws, attempts, queue, call, reg, server, spent>>
      BY <1>9 DEF Served
    <3>. QED
      BY <2>5, <3>1, <3>2 DEF Types, server, spent
<1>10. ASSUME NEW s \in Sockets, Open(s) PROVE Types'
  <2>1. [sock EXCEPT ![s].cl = "open"] \in [Sockets -> SocketType]
    BY <1>s DEF SocketType
  <2>2. \A m \in SUBSET Ids : {Invocation(i) : i \in queue \cup m} \in SUBSET ClientFrames
    BY FrameTypes DEF Types
  <2>3. \A m \in SUBSET Ids : Sent([sock EXCEPT ![s].cl = "open"], s, {Invocation(i) : i \in queue \cup m})
                                 \in [Sockets -> SocketType]
    BY <2>1, <2>2, SentType
  <2>4. \A r \in FreshRegs : r \in Ids
    BY DEF FreshRegs, Ids
  <2>5. sock' \in [Sockets -> SocketType]
    BY <1>10, <2>3, <2>4 DEF Open
  <2>6. call' \in [Ids -> {"new", "waiting", "settled"}]
    BY <1>10, <2>4 DEF Open, Types
  <2>. QED
    BY <1>10, <2>5, <2>6 DEF Open, Types, server, spent
<1>11. ASSUME NEW s \in Sockets, Closing(s) PROVE Types'
  <2>1. sock' \in [Sockets -> SocketType]
    BY <1>11, <1>s DEF Closing, SocketType
  <2>. QED
    BY <1>11, <2>1, OnlySockets DEF Closing
<1>12. ASSUME NEW s \in Sockets, Closed(s) PROVE Types'
  <2> DEFINE n == [sock[s] EXCEPT !.cl = "closed", !.s2c = {}]
  <2>0. sock' = [sock EXCEPT ![s] = n]
    BY <1>12 DEF Closed
  <2>r. sock[s] \in SocketType
    BY <1>s
  <2>t. n \in SocketType
    BY <2>r DEF SocketType
  <2>1. sock' \in [Sockets -> SocketType]
    BY <2>0, <2>t, <1>s
  <2>2. (sock[s].refused /\ sock[s].cl # "dialing") \in BOOLEAN
    OBVIOUS
  <2>3. Failure(sock[s].refused /\ sock[s].cl # "dialing")
    BY <1>12 DEF Closed
  <2>. QED
    BY <1>12, <2>1, <2>2, <2>3, FailureTypes DEF Closed, Types, server, spent
<1>13. ASSUME NEW s \in Sockets, Receive(s) PROVE Types'
  <2>1. PICK f \in sock[s].s2c : Receive(s)!2!(f)
    BY <1>13 DEF Receive
  <2>2. f \in ServerFrames /\ sock[s] \in SocketType
    BY <1>s DEF SocketType
  <2>3. sock' \in [Sockets -> SocketType]
    BY <2>1, <1>s DEF SocketType
  <2>4. call' \in [Ids -> {"new", "waiting", "settled"}]
    BY <2>1, <2>2 DEF Types
  <2>5. serving' \subseteq Frames({"reverse"}, Nat, Reverses)
    BY <2>1, <2>2 DEF Types, ServerFrames, Frames
  <2>6. reg' \in [boot : {"off", "first", "on"}, timer : BOOLEAN, first : Regs \cup {None}]
    BY <2>1 DEF Types
  <2>. QED
    BY <1>13, <2>3, <2>4, <2>5, <2>6 DEF Receive, Types, server, spent
<1>14. ASSUME NEW s \in Sockets, Accept(s) PROVE Types'
  <2> DEFINE n == [sock[s] EXCEPT !.resolving = FALSE]
  <2>0. sock' = [sock EXCEPT ![s] = n]
    BY <1>14 DEF Accept
  <2>r. sock[s] \in SocketType
    BY <1>s
  <2>t. n \in SocketType
    BY <2>r DEF SocketType
  <2>1. sock' \in [Sockets -> SocketType]
    BY <2>0, <2>t, <1>s
  <2>. QED
    BY <1>14, <2>1 DEF Accept, Types, client, spent
<1>15. ASSUME NEW s \in Sockets, NEW permanent \in BOOLEAN, Refuse(s, permanent) PROVE Types'
  <2> DEFINE n == [sock[s] EXCEPT !.sv = "closed", !.up = FALSE, !.refused = permanent,
                              !.resolving = FALSE, !.c2s = {}]
  <2>0. sock' = [sock EXCEPT ![s] = n]
    BY <1>15 DEF Refuse
  <2>r. sock[s] \in SocketType
    BY <1>s
  <2>t. n \in SocketType
    BY <2>r DEF SocketType
  <2>1. sock' \in [Sockets -> SocketType]
    BY <2>0, <2>t, <1>s
  <2>. QED
    BY <1>15, <2>1 DEF Refuse, Fault, Types, client, server
<1>16. ASSUME NEW s \in Sockets, HandleInvoke(s) PROVE Types'
  <2>1. PICK f \in sock[s].c2s : f.kind = "invoke" /\
           sock' = [sock EXCEPT ![s] = [sock[s] EXCEPT !.c2s = @ \ {f}, !.work = @ \cup {f.id}]]
    BY <1>16 DEF HandleInvoke
  <2>2. f \in ClientFrames /\ sock[s] \in SocketType
    BY <1>s DEF SocketType
  <2>3. f.id \in Ids
    BY <2>1, <2>2 DEF ClientFrames, Frames
  <2> DEFINE n == [sock[s] EXCEPT !.c2s = @ \ {f}, !.work = @ \cup {f.id}]
  <2>5. n \in SocketType
    BY <2>2, <2>3 DEF SocketType
  <2>6. sock' = [sock EXCEPT ![s] = n]
    BY <2>1, Zenon
  <2>4. sock' \in [Sockets -> SocketType]
    <3> HIDE DEF n
    <3>. QED
      BY <2>5, <2>6, <1>s
  <2>. QED
    BY <1>16, <2>4, OnlySockets DEF HandleInvoke
<1>17. ASSUME NEW s \in Sockets, HandleAnswer(s) PROVE Types'
  <2>1. PICK f \in sock[s].c2s : f.kind = "answer" /\
           sock' = [sock EXCEPT ![s].c2s = @ \ {f}] /\ rev' = Answered(s, f)
    BY <1>17 DEF HandleAnswer
  <2>2. f \in ClientFrames /\ sock[s] \in SocketType
    BY <1>s DEF SocketType
  <2>3. f.of \in Reverses
    BY <2>1, <2>2 DEF ClientFrames, Frames
  <2>6. [sock[s] EXCEPT !.c2s = @ \ {f}] \in SocketType
    BY <1>s DEF SocketType
  <2>7. sock' = [sock EXCEPT ![s] = [sock[s] EXCEPT !.c2s = @ \ {f}]]
    BY <2>1
  <2>4. sock' \in [Sockets -> SocketType]
    BY <2>6, <2>7, <1>s
  <2>5. rev' \in RevTables
    BY <2>1, <2>3, AnsweredType
  <2>. QED
    BY <1>17, <2>4, <2>5 DEF HandleAnswer, Types, RevTables, RevRecord, client, spent
<1>18. ASSUME NEW s \in Sockets, Finish(s) PROVE Types'
  <2>1. PICK i \in sock[s].work \cap Calls :
            sock' = Replied([sock EXCEPT ![s].work = @ \ {i}], s, Response(i))
    BY <1>18 DEF Finish
  <2>2. [sock EXCEPT ![s].work = @ \ {i}] \in [Sockets -> SocketType]
    BY <1>s DEF SocketType
  <2>3. Response(i) \in ServerFrames
    BY FrameTypes DEF Ids
  <2>4. sock' \in [Sockets -> SocketType]
    BY <2>1, <2>2, <2>3, RepliedType
  <2>. QED
    BY <1>18, <2>4, OnlySockets DEF Finish
<1>19. ASSUME NEW s \in Sockets, NEW k \in {"response", "error"}, Registered(s, k)
       PROVE  sock' \in [Sockets -> SocketType]
  <2>1. PICK r \in sock[s].work \cap Regs :
            sock' = Replied([sock EXCEPT ![s].work = @ \ {r}], s, Frame(k, r, None))
    BY <1>19 DEF Registered
  <2>2. [sock EXCEPT ![s].work = @ \ {r}] \in [Sockets -> SocketType]
    BY <1>s DEF SocketType
  <2>3. Frame(k, r, None) \in ServerFrames
    BY DEF Ids, Frame, Frames, ServerFrames
  <2>. QED
    BY <2>1, <2>2, <2>3, RepliedType
<1>20. ASSUME NEW s \in Sockets, Bind(s) PROVE Types'
  BY <1>19, <1>20 DEF Bind, Types, client, spent
<1>21. ASSUME NEW s \in Sockets, BindFails(s) PROVE Types'
  BY <1>19, <1>21 DEF BindFails, Fault, Types, client, server
<1>22. ASSUME NEW s \in Sockets, ServerClosed(s) PROVE Types'
  <2> DEFINE n == [sock[s] EXCEPT !.sv = "closed"]
  <2>0. sock' = [sock EXCEPT ![s] = n]
    BY <1>22 DEF ServerClosed
  <2>r. sock[s] \in SocketType
    BY <1>s
  <2>t. n \in SocketType
    BY <2>r DEF SocketType
  <2>1. sock' \in [Sockets -> SocketType]
    BY <2>0, <2>t, <1>s
  <2>2. rev' \in RevTables
    BY <1>22, RevType, FailedType DEF ServerClosed
  <2>. QED
    BY <1>22, <2>1, <2>2 DEF ServerClosed, Types, RevTables, RevRecord, client, spent
<1>23. ASSUME NEW s \in Sockets, Cut(s) PROVE Types'
  <2>2. PICK c2s \in SUBSET sock[s].c2s, s2c \in SUBSET sock[s].s2c :
           sock' = [sock EXCEPT ![s] = [@ EXCEPT !.up = FALSE, !.c2s = c2s, !.s2c = s2c]]
    BY <1>23 DEF Cut
  <2> DEFINE n == [sock[s] EXCEPT !.up = FALSE, !.c2s = c2s, !.s2c = s2c]
  <2>3. sock[s] \in SocketType /\ c2s \in SUBSET ClientFrames /\ s2c \in SUBSET ServerFrames
    BY <1>s DEF SocketType
  <2>4. n \in SocketType
    BY <2>3 DEF SocketType
  <2>5. sock' = [sock EXCEPT ![s] = n]
    BY <2>2
  <2>1. sock' \in [Sockets -> SocketType]
    <3> HIDE DEF n
    <3>. QED
      BY <2>4, <2>5, <1>s
  <2>. QED
    BY <1>23, <2>1 DEF Cut, Fault, Types, client, server
<1>24. ASSUME NEW c \in Reverses, Dispatch(c) PROVE Types'
  <2>1. bound \in Sockets /\ nextRev \in Nat
    BY <1>24 DEF Dispatch, Types
  <2>2. Replied(sock, bound, Frame("reverse", nextRev, c)) \in [Sockets -> SocketType]
    BY <2>1, <1>s, FrameTypes, RepliedType
  <2>3. sock' \in [Sockets -> SocketType]
    BY <1>24, <2>2, <1>s DEF Dispatch, ReverseId
  <2>4. rev' \in RevTables
    BY <1>24, <2>1, RevType DEF Dispatch, ReverseId, RevTables, RevRecord
  <2>. QED
    BY <1>24, <2>1, <2>3, <2>4 DEF Dispatch, Types, RevTables, RevRecord, client, spent
<1>25. ASSUME NEW c \in Reverses, TimesOut(c) PROVE Types'
  <2>1. rev' \in RevTables
    BY <1>25, RevType DEF TimesOut, RevTables, RevRecord
  <2>. QED
    BY <1>25, <2>1 DEF TimesOut, Fault, Types, RevTables, RevRecord, client
<1>26. CASE Restart
  <2>3. ASSUME NEW s \in Sockets
        PROVE  [sock[s] EXCEPT !.sv = "closed", !.up = FALSE, !.resolving = FALSE,
                               !.c2s = {}, !.work = {}] \in SocketType
    <3>1. sock[s] \in SocketType
      BY <1>s
    <3>. QED
      BY <3>1 DEF SocketType
  <2>1. sock' \in [Sockets -> SocketType]
    BY <1>26, <1>s, <2>3 DEF Restart
  <2>2. rev' \in RevTables
    BY <1>26, FailedType DEF Restart
  <2>6. faults < MaxFaults /\ faults' = faults + 1 /\ restarts < MaxRestarts
        /\ restarts' = restarts + 1
    BY <1>26 DEF Restart, Fault
  <2>7. faults \in 0..MaxFaults /\ restarts \in 0..MaxRestarts
    BY DEF Types
  <2>4. faults' \in 0..MaxFaults /\ restarts' \in 0..MaxRestarts
    BY <2>6, <2>7
  <2>5. session' \in {0} \cup Sockets /\ routed' \subseteq Sockets /\ bound' \in {0} \cup Sockets
        /\ back' \subseteq Sockets /\ nextRev' \in Nat /\ UNCHANGED <<client, dials>>
    BY <1>26 DEF Restart
  <2>. QED
    BY <2>1, <2>2, <2>4, <2>5 DEF Types, RevTables, RevRecord, client
<1>27. CASE UNCHANGED vars
  BY <1>27 DEF vars, client, server, spent, Types
<1>. QED
  BY <1>1, <1>3, <1>4, <1>5, <1>6, <1>7, <1>8, <1>9, <1>10, <1>11, <1>12, <1>13, <1>14, <1>15,
     <1>16, <1>17, <1>18, <1>20, <1>21, <1>22, <1>23, <1>24, <1>25, <1>26, <1>27
     DEF Next, SocketStep

\* What a send or a reply leaves alone.
LEMMA SentKeeps ==
    ASSUME NEW k \in [Sockets -> SocketType], NEW s \in Sockets, NEW fs \in SUBSET ClientFrames,
           NEW z \in Sockets
    PROVE  /\ Sent(k, s, fs)[z].cl = k[z].cl /\ Sent(k, s, fs)[z].s2c = k[z].s2c
           /\ Sent(k, s, fs)[z].c2s \subseteq k[z].c2s \cup fs
<1>1. k[s] \in SocketType /\ k[z] \in SocketType
  OBVIOUS
<1>2. Sent(k, s, fs)[z] = IF k[s].up /\ z = s THEN [k[z] EXCEPT !.c2s = @ \cup fs] ELSE k[z]
  BY DEF Sent
<1>. QED
  BY <1>1, <1>2 DEF SocketType

LEMMA RepliedKeeps ==
    ASSUME NEW k \in [Sockets -> SocketType], NEW s \in Sockets, NEW f \in ServerFrames,
           NEW z \in Sockets
    PROVE  /\ Replied(k, s, f)[z].cl = k[z].cl /\ Replied(k, s, f)[z].c2s = k[z].c2s
           /\ Replied(k, s, f)[z].s2c \subseteq k[z].s2c \cup {f}
<1>1. k[s] \in SocketType /\ k[z] \in SocketType
  OBVIOUS
<1>2. Replied(k, s, f)[z] =
         IF k[s].up /\ k[s].sv = "open" /\ z = s THEN [k[z] EXCEPT !.s2c = @ \cup {f}] ELSE k[z]
  BY DEF Replied
<1>. QED
  BY <1>1, <1>2 DEF SocketType

\* A call, sent or queued, leaves the client's sockets as they are.
LEMMA InvokesKeeps ==
    ASSUME Types, NEW i \in Ids, Invokes(i), NEW z \in Sockets
    PROVE  /\ sock'[z].cl = sock[z].cl /\ sock'[z].s2c = sock[z].s2c
           /\ sock'[z].c2s \subseteq sock[z].c2s \cup {Invocation(i)}
<1>1. sock \in [Sockets -> SocketType] /\ ws \in {0} \cup Sockets
  BY DEF Types
<1>2. {Invocation(i)} \in SUBSET ClientFrames
  BY FrameTypes
<1>3. CASE sock' = sock
  BY <1>3
<1>4. CASE IsOpen(ws) /\ sock' = Sent(sock, ws, {Invocation(i)})
  BY <1>1, <1>2, <1>4, SentKeeps DEF IsOpen
<1>. QED
  BY <1>3, <1>4 DEF Invokes

---------------------------------------------------------------------------
(* One socket *)

\* Only the newest socket is ever dialled, and only without another one.
Shape ==
    /\ \A s \in Sockets : sock[s].cl = "none" <=> s > dials
    /\ \A s \in Sockets : sock[s].cl = "dialing" => s = dials /\ dial = "socket" /\ ws = 0
    /\ \A s \in Sockets : sock[s].cl \in {"open", "closing"} => s = ws
    /\ ws # 0 => ws = dials /\ dial = "none"
    /\ conn = "connected" <=> ws # 0

LEMMA ShapeIsOne == Types /\ Shape => OneSocket
  BY DEF Shape, OneSocket, Types, Sockets

LEMMA ShapeKept ==
    ASSUME Types, Shape, UNCHANGED <<conn, dial, ws, dials>>,
           \A z \in Sockets : sock'[z].cl = sock[z].cl
    PROVE  Shape'
  BY DEF Shape

LEMMA ShapeStep == Types /\ Shape /\ [Next]_vars => Shape'
<1>. SUFFICES ASSUME Types, Shape, [Next]_vars PROVE Shape'
  OBVIOUS
<1>. USE TransportAssumption
<1>s. sock \in [Sockets -> SocketType] /\ ws \in {0} \cup Sockets /\ dials \in 0..(MaxFaults + 1)
  BY DEF Types
<1>t. \A s \in Sockets : sock[s] \in SocketType
  BY <1>s
<1>1. ASSUME NEW i \in Calls, Invoke(i) PROVE Shape'
  <2>1. i \in Ids /\ Invokes(i)
    BY <1>1 DEF Invoke, Ids
  <2>. QED
    BY <1>1, <2>1, InvokesKeeps, ShapeKept DEF Invoke, spent
<1>2. ASSUME NEW r \in FreshRegs, NEW b \in {"first", "on"}, RegisterOnce(r, b) PROVE Shape'
  <2>1. r \in Ids /\ Invokes(r)
    BY <1>2 DEF FreshRegs, Ids, RegisterOnce
  <2>. QED
    BY <1>2, <2>1, InvokesKeeps, ShapeKept DEF RegisterOnce, spent
<1>3. CASE InitMachines
  BY <1>2, <1>3 DEF InitMachines
<1>4. CASE RegisterAgain
  BY <1>2, <1>4 DEF RegisterAgain
<1>5. CASE Subscribe
  <2>1. CASE IsOpen(ws)
    <3>1. PICK r \in Ids : Invokes(r)
      BY <1>5, <2>1 DEF Subscribe, FreshRegs, Ids
    <3>. QED
      BY <1>5, <3>1, InvokesKeeps, ShapeKept DEF Subscribe, spent
  <2>. QED
    BY <1>5, <2>1, ShapeKept DEF Subscribe, spent
<1>6. CASE Reconnect
  BY <1>6 DEF Reconnect, Shape, spent
<1>7. CASE TokenFails
  <2>1. dial = "token" /\ ws' = ws /\ sock' = sock /\ dials' = dials
    BY <1>7 DEF TokenFails
  <2>2. conn' # "connected" /\ dial' \in {"over", "timer"}
    BY <1>7 DEF TokenFails, Failure
  <2>. QED
    BY <2>1, <2>2 DEF Shape
<1>8. CASE Dial
  <2>1. dial = "token" /\ dials + 1 \in Sockets /\ dial' = "socket" /\ dials' = dials + 1
        /\ ws' = ws /\ conn' = conn
    BY <1>8 DEF Dial
  <2>2. NewSocket.cl = "dialing"
    BY DEF NewSocket, NoSocket
  <2>3. \A z \in Sockets : sock'[z].cl = IF z = dials + 1 THEN "dialing" ELSE sock[z].cl
    BY <1>8, <2>2, <1>s DEF Dial
  <2>4. ws = 0 /\ \A z \in Sockets : sock[z].cl \notin {"dialing", "open", "closing"}
    BY <2>1, <1>s DEF Shape, Sockets
  <2>5. \A z \in Sockets : z > dials + 1 <=> z > dials /\ z # dials + 1
    BY <1>s DEF Sockets
  <2>. QED
    BY <2>1, <2>3, <2>4, <2>5, <1>s DEF Shape, Sockets
<1>9. CASE Served
  <2>1. PICK f \in serving : /\ serving' = serving \ {f}
         /\ sock' = IF IsOpen(ws) THEN Sent(sock, ws, {Frame("answer", f.id, f.of)}) ELSE sock
    BY <1>9 DEF Served
  <2>2. f.id \in Nat /\ f.of \in Reverses
    BY DEF Types, Frames
  <2>3. {Frame("answer", f.id, f.of)} \in SUBSET ClientFrames
    BY <2>2, FrameTypes
  <2>4. IsOpen(ws) => ws \in Sockets
    BY <1>s DEF IsOpen
  <2>5. \A z \in Sockets : sock'[z].cl = sock[z].cl
    BY <2>1, <2>3, <2>4, <1>s, SentKeeps
  <2>. QED
    BY <1>9, <2>5, ShapeKept DEF Served, spent
<1>10. ASSUME NEW s \in Sockets, Open(s) PROVE Shape'
  <2> DEFINE k == [sock EXCEPT ![s].cl = "open"]
  <2>1. k \in [Sockets -> SocketType]
    BY <1>s DEF SocketType
  <2>2. \A m \in SUBSET Ids : {Invocation(i) : i \in queue \cup m} \in SUBSET ClientFrames
    BY FrameTypes DEF Types
  <2>k. \A z \in Sockets : k[z].cl = IF z = s THEN "open" ELSE sock[z].cl
    BY <1>s, <1>t DEF SocketType
  <2>3. \A m \in SUBSET Ids, z \in Sockets :
           Sent(k, s, {Invocation(i) : i \in queue \cup m})[z].cl = k[z].cl
    <3> HIDE DEF k
    <3>. QED
      BY <2>1, <2>2, SentKeeps
  <2>4. \A r \in FreshRegs : r \in Ids
    BY DEF FreshRegs, Ids
  <2>5. \E m \in SUBSET Ids : sock' = Sent(k, s, {Invocation(i) : i \in queue \cup m})
    BY <1>10, <2>4 DEF Open
  <2>6. \A z \in Sockets : sock'[z].cl = IF z = s THEN "open" ELSE sock[z].cl
    <3>1. PICK m \in SUBSET Ids : sock' = Sent(k, s, {Invocation(i) : i \in queue \cup m})
      BY <2>5
    <3> DEFINE fs == {Invocation(i) : i \in queue \cup m}
    <3>2. sock' = Sent(k, s, fs) /\ \A z \in Sockets : Sent(k, s, fs)[z].cl = k[z].cl
      BY <2>3, <3>1
    <3> HIDE DEF k, fs
    <3>. QED
      BY <2>k, <3>2
  <2>7. sock[s].cl = "dialing" /\ ws' = s /\ conn' = "connected" /\ dial' = "none" /\ dials' = dials
    BY <1>10 DEF Open, spent
  <2>. QED
    BY <2>6, <2>7, <1>s DEF Shape, Sockets
<1>11. ASSUME NEW s \in Sockets, Closing(s) PROVE Shape'
  <2>1. \A z \in Sockets : sock'[z].cl = IF z = s THEN "closing" ELSE sock[z].cl
    BY <1>11, <1>s, <1>t DEF Closing, SocketType
  <2>2. sock[s].cl = "open" /\ UNCHANGED <<conn, dial, ws, dials>>
    BY <1>11 DEF Closing, client, spent
  <2>. QED
    BY <2>1, <2>2 DEF Shape
<1>12. ASSUME NEW s \in Sockets, Closed(s) PROVE Shape'
  <2> DEFINE n == [sock[s] EXCEPT !.cl = "closed", !.s2c = {}]
  <2>1. n.cl = "closed"
    BY <1>t DEF SocketType
  <2>2. sock' = [sock EXCEPT ![s] = n]
    BY <1>12 DEF Closed
  <2>3. \A z \in Sockets : sock'[z].cl = IF z = s THEN "closed" ELSE sock[z].cl
    <3> HIDE DEF n
    <3>. QED
      BY <2>1, <2>2, <1>s
  <2>4. conn' # "connected" /\ dial' \in {"over", "timer"} /\ ws' = 0 /\ dials' = dials
        /\ sock[s].cl \in {"dialing", "open", "closing"}
    BY <1>12 DEF Closed, Failure, spent
  <2>. QED
    BY <2>3, <2>4, <1>s DEF Shape, Sockets
<1>13. ASSUME NEW s \in Sockets, Receive(s) PROVE Shape'
  <2>0. PICK f : sock' = [sock EXCEPT ![s].s2c = @ \ {f}]
    BY <1>13 DEF Receive
  <2>1. \A z \in Sockets : sock'[z].cl = sock[z].cl
    BY <2>0, <1>s, <1>t DEF SocketType
  <2>. QED
    BY <1>13, <2>1, ShapeKept DEF Receive, spent
<1>14. ASSUME NEW s \in Sockets, Accept(s) PROVE Shape'
  <2>1. \A z \in Sockets : sock'[z].cl = sock[z].cl
    BY <1>14, <1>s, <1>t DEF Accept, SocketType
  <2>. QED
    BY <1>14, <2>1, ShapeKept DEF Accept, client, spent
<1>15. ASSUME NEW s \in Sockets, NEW permanent \in BOOLEAN, Refuse(s, permanent) PROVE Shape'
  <2> DEFINE n == [sock[s] EXCEPT !.sv = "closed", !.up = FALSE, !.refused = permanent,
                              !.resolving = FALSE, !.c2s = {}]
  <2>1. n.cl = sock[s].cl
    BY <1>t DEF SocketType
  <2>2. sock' = [sock EXCEPT ![s] = n]
    BY <1>15 DEF Refuse
  <2>3. \A z \in Sockets : sock'[z].cl = sock[z].cl
    <3> HIDE DEF n
    <3>. QED
      BY <2>1, <2>2, <1>s
  <2>. QED
    BY <1>15, <2>3, ShapeKept DEF Refuse, client, server
<1>16. ASSUME NEW s \in Sockets, HandleInvoke(s) PROVE Shape'
  <2>1. PICK f \in sock[s].c2s : f.kind = "invoke" /\
           sock' = [sock EXCEPT ![s] = [sock[s] EXCEPT !.c2s = @ \ {f}, !.work = @ \cup {f.id}]]
    BY <1>16 DEF HandleInvoke
  <2>2. [sock[s] EXCEPT !.c2s = @ \ {f}, !.work = @ \cup {f.id}].cl = sock[s].cl
    BY <1>t DEF SocketType
  <2>3. \A z \in Sockets : sock'[z].cl = sock[z].cl
    BY <2>1, <2>2, <1>s
  <2>. QED
    BY <1>16, <2>3, ShapeKept DEF HandleInvoke, client, spent
<1>17. ASSUME NEW s \in Sockets, HandleAnswer(s) PROVE Shape'
  <2>1. \A z \in Sockets : sock'[z].cl = sock[z].cl
    BY <1>17, <1>s, <1>t DEF HandleAnswer, SocketType
  <2>. QED
    BY <1>17, <2>1, ShapeKept DEF HandleAnswer, client, spent
<1>18. ASSUME NEW s \in Sockets, NEW i \in Ids, NEW f \in ServerFrames,
              sock' = Replied([sock EXCEPT ![s].work = @ \ {i}], s, f)
       PROVE  \A z \in Sockets : sock'[z].cl = sock[z].cl
  <2> DEFINE k == [sock EXCEPT ![s].work = @ \ {i}]
  <2>1. k \in [Sockets -> SocketType] /\ \A z \in Sockets : k[z].cl = sock[z].cl
    BY <1>s, <1>t DEF SocketType
  <2>2. sock' = Replied(k, s, f)
    BY <1>18
  <2> HIDE DEF k
  <2>. QED
    BY <2>1, <2>2, RepliedKeeps
<1>19. ASSUME NEW s \in Sockets, Finish(s) PROVE Shape'
  <2>1. \A i \in Calls : i \in Ids /\ Response(i) \in ServerFrames
    BY FrameTypes DEF Ids
  <2>2. \A z \in Sockets : sock'[z].cl = sock[z].cl
    BY <1>18, <1>19, <2>1 DEF Finish
  <2>. QED
    BY <1>19, <2>2, ShapeKept DEF Finish, client, spent
<1>20. ASSUME NEW s \in Sockets, NEW k \in {"response", "error"}, Registered(s, k)
       PROVE  \A z \in Sockets : sock'[z].cl = sock[z].cl
  <2>1. \A r \in Regs : r \in Ids /\ Frame(k, r, None) \in ServerFrames
    BY DEF Ids, Frame, Frames, ServerFrames
  <2>. QED
    BY <1>18, <1>20, <2>1 DEF Registered
<1>21. ASSUME NEW s \in Sockets, Bind(s) PROVE Shape'
  BY <1>20, <1>21, ShapeKept DEF Bind, client, spent
<1>22. ASSUME NEW s \in Sockets, BindFails(s) PROVE Shape'
  BY <1>20, <1>22, ShapeKept DEF BindFails, client, server
<1>23. ASSUME NEW s \in Sockets, ServerClosed(s) PROVE Shape'
  <2>1. \A z \in Sockets : sock'[z].cl = sock[z].cl
    BY <1>23, <1>s, <1>t DEF ServerClosed, SocketType
  <2>. QED
    BY <1>23, <2>1, ShapeKept DEF ServerClosed, client, spent
<1>24. ASSUME NEW s \in Sockets, Cut(s) PROVE Shape'
  <2>1. PICK c2s \in SUBSET sock[s].c2s, s2c \in SUBSET sock[s].s2c :
           sock' = [sock EXCEPT ![s] = [@ EXCEPT !.up = FALSE, !.c2s = c2s, !.s2c = s2c]]
    BY <1>24 DEF Cut
  <2>2. [sock[s] EXCEPT !.up = FALSE, !.c2s = c2s, !.s2c = s2c].cl = sock[s].cl
    BY <1>t DEF SocketType
  <2>3. \A z \in Sockets : sock'[z].cl = sock[z].cl
    BY <2>1, <2>2, <1>s
  <2>. QED
    BY <1>24, <2>3, ShapeKept DEF Cut, client, server
<1>25. ASSUME NEW c \in Reverses, Dispatch(c) PROVE Shape'
  <2>1. bound \in Sockets /\ nextRev \in Nat
    BY <1>25 DEF Dispatch, Types
  <2>2. \A z \in Sockets :
           Replied(sock, bound, Frame("reverse", nextRev, c))[z].cl = sock[z].cl
    BY <2>1, <1>s, FrameTypes, RepliedKeeps
  <2>3. \A z \in Sockets : sock'[z].cl = sock[z].cl
    BY <1>25, <2>2 DEF Dispatch, ReverseId
  <2>. QED
    BY <1>25, <2>3, ShapeKept DEF Dispatch, client, spent
<1>26. ASSUME NEW c \in Reverses, TimesOut(c) PROVE Shape'
  BY <1>26, ShapeKept DEF TimesOut, client
<1>27. CASE Restart
  <2>1. \A s \in Sockets : [sock[s] EXCEPT !.sv = "closed", !.up = FALSE, !.resolving = FALSE,
                                       !.c2s = {}, !.work = {}].cl = sock[s].cl
    BY <1>t DEF SocketType
  <2>2. \A z \in Sockets : sock'[z].cl = sock[z].cl
    BY <1>27, <2>1 DEF Restart
  <2>. QED
    BY <1>27, <2>2, ShapeKept DEF Restart, client
<1>28. CASE UNCHANGED vars
  BY <1>28, ShapeKept DEF vars, client, spent
<1>. QED
  BY <1>1, <1>3, <1>4, <1>5, <1>6, <1>7, <1>8, <1>9, <1>10, <1>11, <1>12, <1>13, <1>14, <1>15,
     <1>16, <1>17, <1>19, <1>21, <1>22, <1>23, <1>24, <1>25, <1>26, <1>27, <1>28
     DEF Next, SocketStep

\* Every variable keeps its type, and the client never has a socket besides its
\* newest: the close of one is handled before the next is dialled.
THEOREM TransportTypeCorrect == Spec => []TypeOK
<1>1. Init => Types /\ Shape
  <2>1. Init => \A s \in Sockets : sock[s].cl = "none" /\ s > dials
    BY DEF Init, NoSocket, Sockets
  <2>. QED
    BY <2>1, InitTypes DEF Init, Shape
<1>2. Types /\ Shape /\ [Next]_vars => (Types /\ Shape)'
  BY TypesStep, ShapeStep
<1>3. Types /\ Shape => TypeOK
  BY ShapeIsOne DEF TypeOK
<1>. QED
  BY <1>1, <1>2, <1>3, PTL DEF Spec

---------------------------------------------------------------------------
(* Own answers *)

ReverseFrames == Frames({"reverse", "answer"}, Nat, Reverses)

\* A reverse call on its way to the client, with its handler, or coming back.
Abroad(f) == f \in serving \/ \E s \in Sockets : f \in sock[s].s2c \/ f \in sock[s].c2s

\* As long as the server counts on, the id of a frame under way is that of no
\* other call that still waits.
RevInv == restarts = 0 =>
    /\ \A f \in ReverseFrames : Abroad(f) =>
          f.id < nextRev /\ \A c \in Reverses : rev[c].st = "waiting" /\ rev[c].id = f.id => f.of = c
    /\ \A c \in Reverses : rev[c].st = "waiting" => rev[c].id < nextRev
    /\ \A c \in Reverses : rev[c].st = "answered" => rev[c].by = c

\* A step that sends no reverse call and no answer.
Quiet == \A z \in Sockets, f \in ReverseFrames :
            /\ f \in sock'[z].c2s => f \in sock[z].c2s
            /\ f \in sock'[z].s2c => f \in sock[z].s2c

\* A step that only gives up on calls.
GivesUp == \A c \in Reverses : rev'[c] = rev[c] \/ rev'[c].st = "failed"

LEMMA NoReverseFrames ==
    ASSUME NEW f \in ReverseFrames
    PROVE  /\ \A i : f # Invocation(i) /\ f # Response(i) /\ f # Error(i)
           /\ \A i : \A k \in {"response", "error"} : f # Frame(k, i, None)
  BY DEF ReverseFrames, Frames, Frame, Invocation, Response, Error

LEMMA RevKept ==
    ASSUME Types, RevInv, UNCHANGED <<nextRev, restarts>>, GivesUp,
           \A f \in ReverseFrames : Abroad(f)' =>
              \E g \in ReverseFrames : Abroad(g) /\ g.id = f.id /\ g.of = f.of
    PROVE  RevInv'
<1>. SUFFICES ASSUME restarts = 0 PROVE RevInv'
  BY DEF RevInv
<1>. DEFINE Abroad1(f) == Abroad(f)'
<1>1. ASSUME NEW f \in ReverseFrames, Abroad(f)'
      PROVE  f.id < nextRev' /\ \A c \in Reverses : rev'[c].st = "waiting" /\ rev'[c].id = f.id => f.of = c
  <2>1. PICK g \in ReverseFrames : Abroad(g) /\ g.id = f.id /\ g.of = f.of
    BY <1>1
  <2>2. g.id < nextRev /\ \A c \in Reverses : rev[c].st = "waiting" /\ rev[c].id = g.id => g.of = c
    BY <2>1 DEF RevInv
  <2>. QED
    BY <2>1, <2>2 DEF GivesUp
<1>2. \A c \in Reverses : rev'[c].st = "waiting" => rev'[c].id < nextRev'
  BY DEF RevInv, GivesUp
<1>3. \A c \in Reverses : rev'[c].st = "answered" => rev'[c].by = c
  BY DEF RevInv, GivesUp
<1>. QED
  BY <1>1, <1>2, <1>3 DEF RevInv

LEMMA QuietKept ==
    ASSUME Types, RevInv, UNCHANGED <<nextRev, restarts>>, GivesUp, Quiet, serving' \subseteq serving
    PROVE  RevInv'
<1>1. \A f \in ReverseFrames : Abroad(f)' => Abroad(f)
  BY DEF Quiet, Abroad
<1>. QED
  BY <1>1, RevKept

LEMMA InvokesQuiet ==
    ASSUME Types, NEW i \in Ids, Invokes(i)
    PROVE  Quiet
  BY InvokesKeeps, NoReverseFrames DEF Quiet

LEMMA FinishQuiet ==
    ASSUME Types, NEW s \in Sockets, NEW i \in Ids, NEW f \in ServerFrames \ ReverseFrames,
           sock' = Replied([sock EXCEPT ![s].work = @ \ {i}], s, f)
    PROVE  Quiet
<1>. DEFINE k == [sock EXCEPT ![s].work = @ \ {i}]
<1>s. sock \in [Sockets -> SocketType]
  BY DEF Types
<1>1. k \in [Sockets -> SocketType] /\ \A z \in Sockets : k[z].c2s = sock[z].c2s /\ k[z].s2c = sock[z].s2c
  BY <1>s DEF SocketType
<1>2. sock' = Replied(k, s, f) /\ f \in ServerFrames /\ f \notin ReverseFrames
  OBVIOUS
<1>. HIDE DEF k
<1>4. k \in [Sockets -> SocketType]
  BY <1>1
<1>5. \A z \in Sockets : /\ Replied(k, s, f)[z].c2s = k[z].c2s
                         /\ Replied(k, s, f)[z].s2c \subseteq k[z].s2c \cup {f}
  BY <1>2, <1>4, RepliedKeeps
<1>3. \A z \in Sockets : sock'[z].c2s = sock[z].c2s /\ sock'[z].s2c \subseteq sock[z].s2c \cup {f}
  BY <1>1, <1>2, <1>5
<1>. QED
  BY <1>2, <1>3 DEF Quiet

LEMMA RevStep == Types /\ RevInv /\ [Next]_vars => RevInv'
<1>. SUFFICES ASSUME Types, RevInv, [Next]_vars PROVE RevInv'
  OBVIOUS
<1>. USE TransportAssumption
<1>s. sock \in [Sockets -> SocketType] /\ ws \in {0} \cup Sockets
  BY DEF Types
<1>t. \A s \in Sockets : sock[s] \in SocketType
  BY <1>s
<1>v. rev \in [Reverses -> [st : {"new", "waiting", "answered", "failed"}, ws : {0} \cup Sockets,
                            id : Nat, by : Reverses \cup {None}]]
  BY DEF Types
<1>g. rev' = rev => GivesUp
  BY DEF GivesUp
<1>q. sock' = sock => Quiet
  BY DEF Quiet
<1>1. ASSUME NEW i \in Calls, Invoke(i) PROVE RevInv'
  <2>1. i \in Ids /\ Invokes(i)
    BY <1>1 DEF Invoke, Ids
  <2>. QED
    BY <1>1, <2>1, <1>g, InvokesQuiet, QuietKept DEF Invoke, server, spent
<1>2. ASSUME NEW r \in FreshRegs, NEW b \in {"first", "on"}, RegisterOnce(r, b) PROVE RevInv'
  <2>1. r \in Ids /\ Invokes(r)
    BY <1>2 DEF FreshRegs, Ids, RegisterOnce
  <2>. QED
    BY <1>2, <2>1, <1>g, InvokesQuiet, QuietKept DEF RegisterOnce, server, spent
<1>3. CASE InitMachines
  BY <1>2, <1>3 DEF InitMachines
<1>4. CASE RegisterAgain
  BY <1>2, <1>4 DEF RegisterAgain
<1>5. CASE Subscribe
  <2>1. Quiet
    <3>1. CASE IsOpen(ws)
      <4>1. PICK r \in Ids : Invokes(r)
        BY <1>5, <3>1 DEF Subscribe, FreshRegs, Ids
      <4>. QED
        BY <4>1, InvokesQuiet
    <3>. QED
      BY <1>5, <3>1, <1>q DEF Subscribe
  <2>. QED
    BY <1>5, <2>1, <1>g, QuietKept DEF Subscribe, server, spent
<1>6. CASE Reconnect
  BY <1>6, <1>g, <1>q, QuietKept DEF Reconnect, server, spent
<1>7. CASE TokenFails
  BY <1>7, <1>g, <1>q, QuietKept DEF TokenFails, server
<1>8. CASE Dial
  <2>1. NewSocket.c2s = {} /\ NewSocket.s2c = {}
    BY DEF NewSocket, NoSocket
  <2>2. \A z \in Sockets : sock'[z].c2s \subseteq sock[z].c2s /\ sock'[z].s2c \subseteq sock[z].s2c
    BY <1>8, <2>1, <1>s DEF Dial
  <2>3. Quiet
    BY <2>2 DEF Quiet
  <2>. QED
    BY <1>8, <2>3, <1>g, QuietKept DEF Dial, server
<1>9. CASE Served
  <2>1. PICK f \in serving : /\ serving' = serving \ {f}
         /\ sock' = IF IsOpen(ws) THEN Sent(sock, ws, {Frame("answer", f.id, f.of)}) ELSE sock
    BY <1>9 DEF Served
  <2>2. f \in ReverseFrames /\ f.id \in Nat /\ f.of \in Reverses
    BY DEF Types, Frames, ReverseFrames
  <2> DEFINE a == Frame("answer", f.id, f.of)
  <2>3. {a} \in SUBSET ClientFrames
    BY <2>2, FrameTypes
  <2>a. a.id = f.id /\ a.of = f.of
    BY DEF Frame
  <2>4. IsOpen(ws) => ws \in Sockets
    BY <1>s DEF IsOpen
  <2> HIDE DEF a
  <2>5. \A z \in Sockets : sock'[z].s2c = sock[z].s2c /\ sock'[z].c2s \subseteq sock[z].c2s \cup {a}
    BY <2>1, <2>3, <2>4, <1>s, SentKeeps DEF a
  <2>6. Abroad(f)
    BY DEF Abroad
  <2>7. \A g \in ReverseFrames : Abroad(g)' => Abroad(g) \/ g = a
    BY <2>1, <2>5 DEF Abroad
  <2>8. \A g \in ReverseFrames : Abroad(g)' =>
              \E h \in ReverseFrames : Abroad(h) /\ h.id = g.id /\ h.of = g.of
    BY <2>2, <2>6, <2>7, <2>a
  <2>. QED
    BY <1>9, <2>8, <1>g, RevKept DEF Served, server, spent
<1>10. ASSUME NEW s \in Sockets, Open(s) PROVE RevInv'
  <2> DEFINE k == [sock EXCEPT ![s].cl = "open"]
  <2>1. k \in [Sockets -> SocketType]
        /\ \A z \in Sockets : k[z].c2s = sock[z].c2s /\ k[z].s2c = sock[z].s2c
    BY <1>s, <1>t DEF SocketType
  <2>4. \A r \in FreshRegs : r \in Ids
    BY DEF FreshRegs, Ids
  <2>5. PICK m \in SUBSET Ids : sock' = Sent(k, s, {Invocation(i) : i \in queue \cup m})
    BY <1>10, <2>4 DEF Open
  <2> DEFINE fs == {Invocation(i) : i \in queue \cup m}
  <2>6. fs \in SUBSET ClientFrames
    BY FrameTypes DEF Types
  <2>7. \A f \in ReverseFrames : f \notin fs
    BY NoReverseFrames
  <2> HIDE DEF k, fs
  <2>8. \A z \in Sockets : sock'[z].s2c = sock[z].s2c /\ sock'[z].c2s \subseteq sock[z].c2s \cup fs
    BY <2>1, <2>5, <2>6, SentKeeps DEF fs
  <2>9. Quiet
    BY <2>7, <2>8 DEF Quiet
  <2>. QED
    BY <1>10, <2>9, <1>g, QuietKept DEF Open, server, spent
<1>11. ASSUME NEW s \in Sockets, Closing(s) PROVE RevInv'
  <2>1. \A z \in Sockets : sock'[z].c2s = sock[z].c2s /\ sock'[z].s2c = sock[z].s2c
    BY <1>11, <1>s, <1>t DEF Closing, SocketType
  <2>2. Quiet
    BY <2>1 DEF Quiet
  <2>. QED
    BY <1>11, <2>2, <1>g, QuietKept DEF Closing, client, server, spent
\* One socket's record is replaced by one whose frames are among its own.
<1>n. ASSUME NEW s \in Sockets, NEW n, sock' = [sock EXCEPT ![s] = n],
             n.c2s \subseteq sock[s].c2s, n.s2c \subseteq sock[s].s2c
      PROVE  Quiet
  <2>1. \A z \in Sockets : sock'[z] = IF z = s THEN n ELSE sock[z]
    BY <1>n, <1>s
  <2>. QED
    BY <1>n, <2>1 DEF Quiet
<1>12. ASSUME NEW s \in Sockets, Closed(s) PROVE RevInv'
  <2> DEFINE n == [sock[s] EXCEPT !.cl = "closed", !.s2c = {}]
  <2>1. n.c2s \subseteq sock[s].c2s /\ n.s2c \subseteq sock[s].s2c
    BY <1>t DEF SocketType
  <2>2. sock' = [sock EXCEPT ![s] = n]
    BY <1>12 DEF Closed
  <2> HIDE DEF n
  <2>3. Quiet
    BY <2>1, <2>2, <1>n
  <2>. QED
    BY <1>12, <2>3, <1>g, QuietKept DEF Closed, server, spent
<1>13. ASSUME NEW s \in Sockets, Receive(s) PROVE RevInv'
  <2>1. PICK f \in sock[s].s2c :
           /\ sock' = [sock EXCEPT ![s].s2c = @ \ {f}]
           /\ f.kind = "reverse" => serving' = serving \cup {f}
           /\ f.kind # "reverse" => serving' = serving
    BY <1>13 DEF Receive
  <2>2. \A z \in Sockets : sock'[z].c2s = sock[z].c2s /\ sock'[z].s2c \subseteq sock[z].s2c
    BY <2>1, <1>s, <1>t DEF SocketType
  <2>3. \A g \in ReverseFrames : Abroad(g)' => Abroad(g)
    BY <2>1, <2>2 DEF Abroad
  <2>. QED
    BY <1>13, <2>3, <1>g, RevKept DEF Receive, server, spent
<1>14. ASSUME NEW s \in Sockets, Accept(s) PROVE RevInv'
  <2> DEFINE n == [sock[s] EXCEPT !.resolving = FALSE]
  <2>1. n.c2s \subseteq sock[s].c2s /\ n.s2c \subseteq sock[s].s2c
    BY <1>t DEF SocketType
  <2>2. sock' = [sock EXCEPT ![s] = n]
    BY <1>14 DEF Accept
  <2> HIDE DEF n
  <2>3. Quiet
    BY <2>1, <2>2, <1>n
  <2>. QED
    BY <1>14, <2>3, <1>g, QuietKept DEF Accept, client, spent
<1>15. ASSUME NEW s \in Sockets, NEW permanent \in BOOLEAN, Refuse(s, permanent) PROVE RevInv'
  <2> DEFINE n == [sock[s] EXCEPT !.sv = "closed", !.up = FALSE, !.refused = permanent,
                              !.resolving = FALSE, !.c2s = {}]
  <2>1. n.c2s \subseteq sock[s].c2s /\ n.s2c \subseteq sock[s].s2c
    BY <1>t DEF SocketType
  <2>2. sock' = [sock EXCEPT ![s] = n]
    BY <1>15 DEF Refuse
  <2> HIDE DEF n
  <2>3. Quiet
    BY <2>1, <2>2, <1>n
  <2>. QED
    BY <1>15, <2>3, <1>g, QuietKept DEF Refuse, client, server
<1>16. ASSUME NEW s \in Sockets, HandleInvoke(s) PROVE RevInv'
  <2>0. PICK f \in sock[s].c2s : f.kind = "invoke" /\
           sock' = [sock EXCEPT ![s] = [sock[s] EXCEPT !.c2s = @ \ {f}, !.work = @ \cup {f.id}]]
    BY <1>16 DEF HandleInvoke
  <2> DEFINE n == [sock[s] EXCEPT !.c2s = @ \ {f}, !.work = @ \cup {f.id}]
  <2>1. n.c2s \subseteq sock[s].c2s /\ n.s2c \subseteq sock[s].s2c
    BY <1>t DEF SocketType
  <2>2. sock' = [sock EXCEPT ![s] = n]
    BY <2>0
  <2> HIDE DEF n
  <2>3. Quiet
    BY <2>1, <2>2, <1>n
  <2>. QED
    BY <1>16, <2>3, <1>g, QuietKept DEF HandleInvoke, client, server, spent
<1>17. ASSUME NEW s \in Sockets, HandleAnswer(s) PROVE RevInv'
  <2>0. PICK f \in sock[s].c2s : /\ f.kind = "answer"
                                 /\ sock' = [sock EXCEPT ![s].c2s = @ \ {f}]
                                 /\ rev' = Answered(s, f)
    BY <1>17 DEF HandleAnswer
  <2>1. f \in ClientFrames
    BY <1>t DEF SocketType
  <2>2. f \in ReverseFrames
    BY <2>0, <2>1 DEF ClientFrames, Frames, ReverseFrames
  <2>3. \A z \in Sockets : sock'[z].c2s \subseteq sock[z].c2s /\ sock'[z].s2c = sock[z].s2c
    BY <2>0, <1>s, <1>t DEF SocketType
  <2>4. nextRev' = nextRev /\ restarts' = restarts /\ serving' = serving
    BY <1>17 DEF HandleAnswer, client, spent
  <2>5. SUFFICES ASSUME restarts = 0 PROVE RevInv'
    BY <2>4 DEF RevInv
  <2>6. Abroad(f)
    BY DEF Abroad
  <2>7. \A g \in ReverseFrames : Abroad(g)' => Abroad(g)
    BY <2>3, <2>4 DEF Abroad
  <2>8. \A c \in Reverses : rev'[c] = rev[c] \/
           (/\ rev[c].st = "waiting" /\ rev[c].id = f.id
            /\ rev'[c].st = "answered" /\ rev'[c].by = f.of)
    BY <2>0, <1>v DEF Answered
  <2>9. \A c \in Reverses : rev'[c] = rev[c] \/ (rev'[c].st = "answered" /\ rev'[c].by = c)
    BY <2>2, <2>5, <2>6, <2>8 DEF RevInv
  <2>10. \A c \in Reverses : rev'[c].st = "answered" => rev'[c].by = c
    BY <2>5, <2>9 DEF RevInv
  <2>11. \A c \in Reverses : rev'[c].st = "waiting" => rev'[c] = rev[c]
    BY <2>9
  <2>. QED
    BY <2>4, <2>5, <2>7, <2>10, <2>11 DEF RevInv
<1>18. ASSUME NEW s \in Sockets, Finish(s) PROVE RevInv'
  <2>1. \A i \in Calls : i \in Ids /\ Response(i) \in ServerFrames \ ReverseFrames
    BY FrameTypes, NoReverseFrames DEF Ids
  <2>2. Quiet
    BY <1>18, <2>1, FinishQuiet DEF Finish
  <2>. QED
    BY <1>18, <2>2, <1>g, QuietKept DEF Finish, client, server, spent
<1>19. ASSUME NEW s \in Sockets, NEW k \in {"response", "error"}, Registered(s, k)
       PROVE  Quiet
  <2>1. \A r \in Regs : r \in Ids /\ Frame(k, r, None) \in ServerFrames
    BY DEF Ids, Frame, Frames, ServerFrames
  <2>2. \A r \in Regs : Frame(k, r, None) \notin ReverseFrames
    BY NoReverseFrames
  <2>. QED
    BY <1>19, <2>1, <2>2, FinishQuiet DEF Registered
<1>20. ASSUME NEW s \in Sockets, Bind(s) PROVE RevInv'
  BY <1>19, <1>20, <1>g, QuietKept DEF Bind, client, spent
<1>21. ASSUME NEW s \in Sockets, BindFails(s) PROVE RevInv'
  BY <1>19, <1>21, <1>g, QuietKept DEF BindFails, client, server
<1>22. ASSUME NEW s \in Sockets, ServerClosed(s) PROVE RevInv'
  <2> DEFINE n == [sock[s] EXCEPT !.sv = "closed"]
  <2>1. n.c2s \subseteq sock[s].c2s /\ n.s2c \subseteq sock[s].s2c
    BY <1>t DEF SocketType
  <2>2. sock' = [sock EXCEPT ![s] = n]
    BY <1>22 DEF ServerClosed
  <2> HIDE DEF n
  <2>3. Quiet
    BY <2>1, <2>2, <1>n
  <2>4. GivesUp
    BY <1>22, <1>v DEF ServerClosed, Failed, GivesUp
  <2>. QED
    BY <1>22, <2>3, <2>4, QuietKept DEF ServerClosed, client, spent
<1>23. ASSUME NEW s \in Sockets, Cut(s) PROVE RevInv'
  <2>0. PICK c2s \in SUBSET sock[s].c2s, s2c \in SUBSET sock[s].s2c :
           sock' = [sock EXCEPT ![s] = [@ EXCEPT !.up = FALSE, !.c2s = c2s, !.s2c = s2c]]
    BY <1>23 DEF Cut
  <2> DEFINE n == [sock[s] EXCEPT !.up = FALSE, !.c2s = c2s, !.s2c = s2c]
  <2>1. n.c2s \subseteq sock[s].c2s /\ n.s2c \subseteq sock[s].s2c
    BY <1>t DEF SocketType
  <2>2. sock' = [sock EXCEPT ![s] = n]
    BY <2>0
  <2> HIDE DEF n
  <2>3. Quiet
    BY <2>1, <2>2, <1>n
  <2>. QED
    BY <1>23, <2>3, <1>g, QuietKept DEF Cut, client, server
<1>24. ASSUME NEW c \in Reverses, Dispatch(c) PROVE RevInv'
  <2>0. serving' = serving /\ restarts' = restarts
    BY <1>24 DEF Dispatch, client, spent
  <2>1. CASE sock[bound].sv # "open"
    <3>1. sock' = sock /\ nextRev' = nextRev /\ rev' = [rev EXCEPT ![c].st = "failed"]
      BY <1>24, <2>1 DEF Dispatch
    <3>2. GivesUp
      BY <3>1, <1>v DEF GivesUp
    <3>. QED
      BY <2>0, <3>1, <3>2, <1>q, QuietKept
  <2>2. CASE sock[bound].sv = "open"
    <3> DEFINE a == Frame("reverse", nextRev, c)
               w == [st |-> "waiting", ws |-> bound, id |-> nextRev, by |-> None]
    <3>1. rev' = [rev EXCEPT ![c] = w] /\ sock' = Replied(sock, bound, a) /\ nextRev' = nextRev + 1
      BY <1>24, <2>2 DEF Dispatch, ReverseId
    <3>2. bound \in Sockets /\ nextRev \in Nat
      BY <1>24 DEF Dispatch, Types
    <3>3. a \in ServerFrames /\ a.id = nextRev /\ a.of = c
      BY <3>2, FrameTypes DEF Frame
    <3>4. w.st = "waiting" /\ w.id = nextRev
      OBVIOUS
    <3> HIDE DEF a, w
    <3>5. \A z \in Sockets : sock'[z].c2s = sock[z].c2s /\ sock'[z].s2c \subseteq sock[z].s2c \cup {a}
      BY <3>1, <3>2, <3>3, <1>s, RepliedKeeps
    <3>6. \A g \in ReverseFrames : Abroad(g)' => Abroad(g) \/ g = a
      BY <2>0, <3>5 DEF Abroad
    <3>7. \A b \in Reverses : rev'[b] = IF b = c THEN w ELSE rev[b]
      BY <3>1, <1>v
    <3>8. SUFFICES ASSUME restarts = 0 PROVE RevInv'
      BY <2>0 DEF RevInv
    <3>9. \A b \in Reverses : rev'[b].st = "waiting" => rev'[b].id < nextRev'
      BY <3>1, <3>2, <3>4, <3>7, <3>8, <1>v DEF RevInv
    <3>10. \A b \in Reverses : rev'[b].st = "answered" => rev'[b].by = b
      BY <3>4, <3>7, <3>8 DEF RevInv
    <3>11. ASSUME NEW g \in ReverseFrames, Abroad(g)'
           PROVE  g.id < nextRev' /\ \A b \in Reverses : rev'[b].st = "waiting" /\ rev'[b].id = g.id => g.of = b
      <4>0. g.id \in Nat
        BY DEF ReverseFrames, Frames
      <4>1. CASE Abroad(g)
        <5>1. g.id < nextRev /\ \A b \in Reverses : rev[b].st = "waiting" /\ rev[b].id = g.id => g.of = b
          BY <4>1, <3>8 DEF RevInv
        <5>. QED
          BY <5>1, <4>0, <3>1, <3>2, <3>4, <3>7
      <4>2. CASE g = a
        <5>1. \A b \in Reverses : b # c /\ rev'[b].st = "waiting" => rev'[b].id # nextRev
          BY <3>2, <3>7, <3>8, <1>v DEF RevInv
        <5>. QED
          BY <5>1, <4>2, <3>1, <3>2, <3>3
      <4>. QED
        BY <3>6, <3>11, <4>1, <4>2
    <3>. QED
      BY <3>9, <3>10, <3>11 DEF RevInv
  <2>. QED
    BY <2>1, <2>2
<1>25. ASSUME NEW c \in Reverses, TimesOut(c) PROVE RevInv'
  <2>1. GivesUp
    BY <1>25, <1>v DEF TimesOut, GivesUp
  <2>. QED
    BY <1>25, <2>1, <1>q, QuietKept DEF TimesOut, client
<1>26. CASE Restart
  <2>1. restarts' = restarts + 1
    BY <1>26 DEF Restart
  <2>2. restarts \in 0..MaxRestarts
    BY DEF Types
  <2>3. restarts' # 0
    BY <2>1, <2>2
  <2>. QED
    BY <2>3 DEF RevInv
<1>27. CASE UNCHANGED vars
  BY <1>27, <1>g, <1>q, QuietKept DEF vars, client, server, spent
<1>. QED
  BY <1>1, <1>3, <1>4, <1>5, <1>6, <1>7, <1>8, <1>9, <1>10, <1>11, <1>12, <1>13, <1>14, <1>15,
     <1>16, <1>17, <1>18, <1>20, <1>21, <1>22, <1>23, <1>24, <1>25, <1>26, <1>27
     DEF Next, SocketStep

\* While the server counts on, a reverse call is settled by the answer to that
\* very call: the ids are never used twice, across sockets and reconnections.
THEOREM AnswersAreOwn == Spec => []OwnAnswer
<1>1. Init => Types /\ RevInv
  <2>1. Init => \A s \in Sockets : sock[s].s2c = {} /\ sock[s].c2s = {}
    BY DEF Init, NoSocket
  <2>2. Init => \A c \in Reverses : rev[c].st = "new"
    BY DEF Init
  <2>. QED
    BY <2>1, <2>2, InitTypes DEF Init, RevInv, Abroad
<1>2. Types /\ RevInv /\ [Next]_vars => (Types /\ RevInv)'
  BY TypesStep, RevStep
<1>3. Types /\ RevInv => OwnAnswer
  BY DEF RevInv, OwnAnswer
<1>. QED
  BY <1>1, <1>2, <1>3, PTL DEF Spec

---------------------------------------------------------------------------
(* What each action does to the sockets *)

LEMMA SentFields ==
    ASSUME NEW k \in [Sockets -> SocketType], NEW s \in Sockets, NEW fs \in SUBSET ClientFrames,
           NEW z \in Sockets, NEW n, n = Sent(k, s, fs)[z]
    PROVE  /\ n.cl = k[z].cl /\ n.sv = k[z].sv /\ n.up = k[z].up /\ n.resolving = k[z].resolving
           /\ n.s2c = k[z].s2c /\ n.work = k[z].work
           /\ n.c2s = IF z = s /\ k[z].up THEN k[z].c2s \cup fs ELSE k[z].c2s
<1>1. k[s] \in SocketType /\ k[z] \in SocketType
  OBVIOUS
<1>2. Sent(k, s, fs)[z] = IF k[s].up /\ z = s THEN [k[z] EXCEPT !.c2s = @ \cup fs] ELSE k[z]
  BY DEF Sent
<1>. QED
  BY <1>1, <1>2 DEF SocketType

LEMMA AllSent ==
    ASSUME NEW k \in [Sockets -> SocketType], NEW s \in Sockets, NEW fs \in SUBSET ClientFrames,
           sock' = Sent(k, s, fs)
    PROVE  \A z \in Sockets :
              /\ sock'[z].cl = k[z].cl /\ sock'[z].sv = k[z].sv /\ sock'[z].up = k[z].up
              /\ sock'[z].resolving = k[z].resolving
              /\ sock'[z].s2c = k[z].s2c /\ sock'[z].work = k[z].work
              /\ sock'[z].c2s = IF z = s /\ k[z].up THEN k[z].c2s \cup fs ELSE k[z].c2s
<1>. TAKE z \in Sockets
<1>. DEFINE n == sock'[z]
<1>1. n = Sent(k, s, fs)[z]
  OBVIOUS
<1>. HIDE DEF n
<1>2. /\ n.cl = k[z].cl /\ n.sv = k[z].sv /\ n.up = k[z].up /\ n.resolving = k[z].resolving
      /\ n.s2c = k[z].s2c /\ n.work = k[z].work
      /\ n.c2s = IF z = s /\ k[z].up THEN k[z].c2s \cup fs ELSE k[z].c2s
  BY <1>1, SentFields
<1>. QED
  BY <1>2 DEF n

LEMMA RepliedFields ==
    ASSUME NEW k \in [Sockets -> SocketType], NEW s \in Sockets, NEW f \in ServerFrames,
           NEW z \in Sockets, NEW n, n = Replied(k, s, f)[z]
    PROVE  /\ n.cl = k[z].cl /\ n.sv = k[z].sv /\ n.up = k[z].up /\ n.resolving = k[z].resolving
           /\ n.c2s = k[z].c2s /\ n.work = k[z].work
           /\ n.s2c = IF z = s /\ k[z].up /\ k[z].sv = "open" THEN k[z].s2c \cup {f} ELSE k[z].s2c
<1>1. k[s] \in SocketType /\ k[z] \in SocketType
  OBVIOUS
<1>2. Replied(k, s, f)[z] =
         IF k[s].up /\ k[s].sv = "open" /\ z = s THEN [k[z] EXCEPT !.s2c = @ \cup {f}] ELSE k[z]
  BY DEF Replied
<1>. QED
  BY <1>1, <1>2 DEF SocketType

\* The client's end, the server's end and the frames of a socket.
SameEnds(z) ==
    /\ sock'[z].cl = sock[z].cl /\ sock'[z].sv = sock[z].sv /\ sock'[z].up = sock[z].up
    /\ sock'[z].resolving = sock[z].resolving
SameLoad(z) ==
    sock'[z].c2s = sock[z].c2s /\ sock'[z].s2c = sock[z].s2c /\ sock'[z].work = sock[z].work

LEMMA Unchanged == sock' = sock => \A z \in Sockets : SameEnds(z) /\ SameLoad(z)
  BY DEF SameEnds, SameLoad

LEMMA InvokesFields ==
    ASSUME Types, NEW i \in Ids, Invokes(i), NEW z \in Sockets
    PROVE  /\ SameEnds(z) /\ sock'[z].s2c = sock[z].s2c /\ sock'[z].work = sock[z].work
           /\ sock'[z].c2s = IF conn # "closed" /\ IsOpen(ws) /\ z = ws /\ sock[z].up
                             THEN sock[z].c2s \cup {Invocation(i)} ELSE sock[z].c2s
<1>1. sock \in [Sockets -> SocketType] /\ ws \in {0} \cup Sockets
  BY DEF Types
<1>2. {Invocation(i)} \in SUBSET ClientFrames
  BY FrameTypes
<1>3. CASE conn # "closed" /\ IsOpen(ws)
  <2>1. sock' = Sent(sock, ws, {Invocation(i)}) /\ ws \in Sockets
    BY <1>1, <1>3 DEF Invokes, IsOpen
  <2>. QED
    <3>1. \A fs \in SUBSET ClientFrames : sock' = Sent(sock, ws, fs) =>
            /\ SameEnds(z) /\ sock'[z].s2c = sock[z].s2c /\ sock'[z].work = sock[z].work
            /\ sock'[z].c2s = IF z = ws /\ sock[z].up THEN sock[z].c2s \cup fs ELSE sock[z].c2s
      <4> TAKE fs \in SUBSET ClientFrames
      <4> HAVE sock' = Sent(sock, ws, fs)
      <4> DEFINE n == sock'[z]
      <4>1. n = Sent(sock, ws, fs)[z]
        OBVIOUS
      <4> HIDE DEF n
      <4>2. /\ n.cl = sock[z].cl /\ n.sv = sock[z].sv /\ n.up = sock[z].up
            /\ n.resolving = sock[z].resolving /\ n.s2c = sock[z].s2c /\ n.work = sock[z].work
            /\ n.c2s = IF z = ws /\ sock[z].up THEN sock[z].c2s \cup fs ELSE sock[z].c2s
        BY <1>1, <2>1, <4>1, SentFields
      <4>. QED
        BY <4>2 DEF n, SameEnds
    <3>. QED
      BY <1>2, <1>3, <2>1, <3>1
<1>4. CASE ~(conn # "closed" /\ IsOpen(ws))
  BY <1>4 DEF Invokes, SameEnds
<1>. QED
  BY <1>3, <1>4

LEMMA DialFields ==
    ASSUME Types, Dial, NEW z \in Sockets
    PROVE  /\ z # dials + 1 => SameEnds(z) /\ SameLoad(z)
           /\ z = dials + 1 =>
                 /\ sock'[z].cl = "dialing" /\ sock'[z].sv = "open" /\ sock'[z].up
                 /\ sock'[z].resolving
                 /\ sock'[z].c2s = {} /\ sock'[z].s2c = {} /\ sock'[z].work = {}
<1>1. sock \in [Sockets -> SocketType] /\ sock' = [sock EXCEPT ![dials + 1] = NewSocket]
      /\ dials + 1 \in Sockets
  BY DEF Types, Dial
<1>2. sock'[z] = IF z = dials + 1 THEN NewSocket ELSE sock[z]
  BY <1>1
<1>. QED
  BY <1>2 DEF NewSocket, NoSocket, SameEnds, SameLoad

\* Socket s opens, and with the queue the registrations m are sent.
OpenEffect(s, m) ==
    /\ reg.boot # "on" => m = {} /\ call' = call
    /\ reg.boot = "on" => \E r \in FreshRegs :
          m = {r} /\ call' = [call EXCEPT ![r] = "waiting"]
    /\ \A z \in Sockets :
         /\ sock'[z].cl = IF z = s THEN "open" ELSE sock[z].cl
         /\ sock'[z].sv = sock[z].sv /\ sock'[z].up = sock[z].up
         /\ sock'[z].resolving = sock[z].resolving
         /\ sock'[z].s2c = sock[z].s2c /\ sock'[z].work = sock[z].work
         /\ sock'[z].c2s = IF z = s /\ sock[z].up
                           THEN sock[z].c2s \cup {Invocation(i) : i \in queue \cup m}
                           ELSE sock[z].c2s

LEMMA OpenFields ==
    ASSUME Types, NEW s \in Sockets, Open(s)
    PROVE  \E m \in SUBSET Regs : OpenEffect(s, m)
<1>s. sock \in [Sockets -> SocketType] /\ queue \subseteq Ids
  BY DEF Types
<1>. DEFINE k == [sock EXCEPT ![s].cl = "open"]
<1>1. k \in [Sockets -> SocketType]
  BY <1>s DEF SocketType
<1>2. \A z \in Sockets :
         /\ k[z].cl = IF z = s THEN "open" ELSE sock[z].cl
         /\ k[z].sv = sock[z].sv /\ k[z].up = sock[z].up /\ k[z].resolving = sock[z].resolving
         /\ k[z].s2c = sock[z].s2c /\ k[z].c2s = sock[z].c2s /\ k[z].work = sock[z].work
  BY <1>s DEF SocketType
<1>3. PICK m \in SUBSET Regs :
         /\ reg.boot # "on" => m = {} /\ call' = call
         /\ reg.boot = "on" => \E r \in FreshRegs :
               m = {r} /\ call' = [call EXCEPT ![r] = "waiting"]
         /\ sock' = Sent(k, s, {Invocation(i) : i \in queue \cup m})
  <2>1. CASE reg.boot = "on"
    <3>1. PICK r \in FreshRegs : /\ call' = [call EXCEPT ![r] = "waiting"]
                                 /\ sock' = Sent(k, s, {Invocation(i) : i \in queue \cup {r}})
      BY <2>1 DEF Open
    <3>2. {r} \in SUBSET Regs
      BY DEF FreshRegs
    <3> HIDE DEF k
    <3>. QED
      BY <2>1, <3>1, <3>2
  <2>2. CASE reg.boot # "on"
    <3>1. sock' = Sent(k, s, {Invocation(i) : i \in queue \cup {}}) /\ call' = call
      BY <2>2 DEF Open
    <3> HIDE DEF k
    <3>. QED
      BY <2>2, <3>1
  <2>. QED
    BY <2>1, <2>2
<1>. DEFINE fs == {Invocation(i) : i \in queue \cup m}
<1>4. fs \in SUBSET ClientFrames
  BY <1>s, FrameTypes DEF Ids
<1>5. sock' = Sent(k, s, fs)
  BY <1>3
<1>6. \A z \in Sockets :
         /\ sock'[z].cl = k[z].cl /\ sock'[z].sv = k[z].sv /\ sock'[z].up = k[z].up
         /\ sock'[z].resolving = k[z].resolving
         /\ sock'[z].s2c = k[z].s2c /\ sock'[z].work = k[z].work
         /\ sock'[z].c2s = IF z = s /\ k[z].up THEN k[z].c2s \cup fs ELSE k[z].c2s
  <2> HIDE DEF k, fs
  <2>. QED
    BY <1>1, <1>4, <1>5, AllSent
<1>7. \A z \in Sockets :
         /\ sock'[z].cl = IF z = s THEN "open" ELSE sock[z].cl
         /\ sock'[z].sv = sock[z].sv /\ sock'[z].up = sock[z].up
         /\ sock'[z].resolving = sock[z].resolving
         /\ sock'[z].s2c = sock[z].s2c /\ sock'[z].work = sock[z].work
         /\ sock'[z].c2s = IF z = s /\ sock[z].up THEN sock[z].c2s \cup fs ELSE sock[z].c2s
  <2> HIDE DEF k, fs
  <2>. QED
    BY <1>2, <1>6
<1>. QED
  BY <1>3, <1>7 DEF OpenEffect

\* One socket's record is replaced.
LEMMA Replaced ==
    ASSUME Types, NEW s \in Sockets, NEW n, sock' = [sock EXCEPT ![s] = n]
    PROVE  /\ sock'[s] = n
           /\ \A z \in Sockets : z # s => SameEnds(z) /\ SameLoad(z)
<1>1. sock \in [Sockets -> SocketType]
  BY DEF Types
<1>. QED
  BY <1>1 DEF SameEnds, SameLoad

LEMMA RecordType == Types => \A s \in Sockets : sock[s] \in SocketType
  BY DEF Types

LEMMA ClosingFields ==
    ASSUME Types, NEW s \in Sockets, Closing(s)
    PROVE  /\ \A z \in Sockets : SameLoad(z) /\ (z # s => SameEnds(z))
           /\ sock'[s].cl = "closing" /\ sock'[s].sv = sock[s].sv /\ sock'[s].up = sock[s].up
           /\ sock'[s].resolving = sock[s].resolving
<1>. DEFINE n == [sock[s] EXCEPT !.cl = "closing"]
<1>1. sock' = [sock EXCEPT ![s] = n]
  BY DEF Closing
<1>2. /\ n.cl = "closing" /\ n.sv = sock[s].sv /\ n.up = sock[s].up /\ n.resolving = sock[s].resolving
      /\ n.c2s = sock[s].c2s /\ n.s2c = sock[s].s2c /\ n.work = sock[s].work
  BY RecordType DEF SocketType
<1>. HIDE DEF n
<1>3. sock'[s] = n /\ \A z \in Sockets : z # s => SameEnds(z) /\ SameLoad(z)
  BY <1>1, Replaced
<1>. QED
  BY <1>2, <1>3 DEF SameLoad

LEMMA ClosedFields ==
    ASSUME Types, NEW s \in Sockets, Closed(s)
    PROVE  /\ \A z \in Sockets : z # s => SameEnds(z) /\ SameLoad(z)
           /\ sock'[s].cl = "closed" /\ sock'[s].sv = sock[s].sv /\ sock'[s].up = sock[s].up
           /\ sock'[s].resolving = sock[s].resolving
           /\ sock'[s].c2s = sock[s].c2s /\ sock'[s].s2c = {} /\ sock'[s].work = sock[s].work
<1>. DEFINE n == [sock[s] EXCEPT !.cl = "closed", !.s2c = {}]
<1>1. sock' = [sock EXCEPT ![s] = n]
  BY DEF Closed
<1>2. /\ n.cl = "closed" /\ n.sv = sock[s].sv /\ n.up = sock[s].up /\ n.resolving = sock[s].resolving
      /\ n.c2s = sock[s].c2s /\ n.s2c = {} /\ n.work = sock[s].work
  BY RecordType DEF SocketType
<1>. HIDE DEF n
<1>3. sock'[s] = n /\ \A z \in Sockets : z # s => SameEnds(z) /\ SameLoad(z)
  BY <1>1, Replaced
<1>. QED
  BY <1>2, <1>3

LEMMA ReceiveFields ==
    ASSUME Types, NEW s \in Sockets, NEW f, sock' = [sock EXCEPT ![s].s2c = @ \ {f}]
    PROVE  /\ \A z \in Sockets : SameEnds(z) /\ sock'[z].c2s = sock[z].c2s /\ sock'[z].work = sock[z].work
           /\ \A z \in Sockets : z # s => sock'[z].s2c = sock[z].s2c
           /\ sock'[s].s2c = sock[s].s2c \ {f}
<1>. DEFINE n == [sock[s] EXCEPT !.s2c = @ \ {f}]
<1>1. sock' = [sock EXCEPT ![s] = n]
  OBVIOUS
<1>2. /\ n.cl = sock[s].cl /\ n.sv = sock[s].sv /\ n.up = sock[s].up /\ n.resolving = sock[s].resolving
      /\ n.c2s = sock[s].c2s /\ n.s2c = sock[s].s2c \ {f} /\ n.work = sock[s].work
  BY RecordType DEF SocketType
<1>. HIDE DEF n
<1>3. sock'[s] = n /\ \A z \in Sockets : z # s => SameEnds(z) /\ SameLoad(z)
  BY <1>1, Replaced
<1>. QED
  BY <1>2, <1>3 DEF SameEnds, SameLoad

LEMMA ServedFields ==
    ASSUME Types, Served, NEW z \in Sockets
    PROVE  /\ SameEnds(z) /\ sock'[z].s2c = sock[z].s2c /\ sock'[z].work = sock[z].work
           /\ \A i : Invocation(i) \in sock'[z].c2s <=> Invocation(i) \in sock[z].c2s
<1>1. sock \in [Sockets -> SocketType] /\ ws \in {0} \cup Sockets
  BY DEF Types
<1>2. PICK f \in serving :
         sock' = IF IsOpen(ws) THEN Sent(sock, ws, {Frame("answer", f.id, f.of)}) ELSE sock
  BY DEF Served
<1>. DEFINE a == Frame("answer", f.id, f.of)
<1>3. f.id \in Nat /\ f.of \in Reverses
  BY DEF Types, Frames
<1>4. {a} \in SUBSET ClientFrames
  BY <1>3, FrameTypes
<1>5. \A i : Invocation(i) # a
  BY DEF Invocation, Frame
<1>. HIDE DEF a
<1>6. CASE IsOpen(ws)
  <2>1. sock' = Sent(sock, ws, {a}) /\ ws \in Sockets
    BY <1>1, <1>2, <1>6 DEF a, IsOpen
  <2>2. /\ SameEnds(z) /\ sock'[z].s2c = sock[z].s2c /\ sock'[z].work = sock[z].work
        /\ sock'[z].c2s = IF z = ws /\ sock[z].up THEN sock[z].c2s \cup {a} ELSE sock[z].c2s
    BY <1>1, <1>4, <2>1, SentFields DEF SameEnds
  <2>. QED
    BY <1>5, <2>2
<1>7. CASE ~IsOpen(ws)
  BY <1>2, <1>7 DEF SameEnds
<1>. QED
  BY <1>6, <1>7

LEMMA AcceptFields ==
    ASSUME Types, NEW s \in Sockets, Accept(s)
    PROVE  /\ \A z \in Sockets : SameLoad(z) /\ (z # s => SameEnds(z))
           /\ sock'[s].cl = sock[s].cl /\ sock'[s].sv = sock[s].sv /\ sock'[s].up = sock[s].up
           /\ ~sock'[s].resolving
<1>. DEFINE n == [sock[s] EXCEPT !.resolving = FALSE]
<1>1. sock' = [sock EXCEPT ![s] = n]
  BY DEF Accept
<1>2. /\ n.cl = sock[s].cl /\ n.sv = sock[s].sv /\ n.up = sock[s].up /\ ~n.resolving
      /\ n.c2s = sock[s].c2s /\ n.s2c = sock[s].s2c /\ n.work = sock[s].work
  BY RecordType DEF SocketType
<1>. HIDE DEF n
<1>3. sock'[s] = n /\ \A z \in Sockets : z # s => SameEnds(z) /\ SameLoad(z)
  BY <1>1, Replaced
<1>. QED
  BY <1>2, <1>3 DEF SameLoad

LEMMA RefuseFields ==
    ASSUME Types, NEW s \in Sockets, NEW permanent \in BOOLEAN, Refuse(s, permanent)
    PROVE  /\ \A z \in Sockets : z # s => SameEnds(z) /\ SameLoad(z)
           /\ sock'[s].cl = sock[s].cl /\ sock'[s].sv = "closed" /\ ~sock'[s].up /\ ~sock'[s].resolving
           /\ sock'[s].c2s = {} /\ sock'[s].s2c = sock[s].s2c /\ sock'[s].work = sock[s].work
<1>. DEFINE n == [sock[s] EXCEPT !.sv = "closed", !.up = FALSE, !.refused = permanent,
                                 !.resolving = FALSE, !.c2s = {}]
<1>1. sock' = [sock EXCEPT ![s] = n]
  BY DEF Refuse
<1>2. /\ n.cl = sock[s].cl /\ n.sv = "closed" /\ ~n.up /\ ~n.resolving
      /\ n.c2s = {} /\ n.s2c = sock[s].s2c /\ n.work = sock[s].work
  BY RecordType DEF SocketType
<1>. HIDE DEF n
<1>3. sock'[s] = n /\ \A z \in Sockets : z # s => SameEnds(z) /\ SameLoad(z)
  BY <1>1, Replaced
<1>. QED
  BY <1>2, <1>3

LEMMA HandleInvokeFields ==
    ASSUME Types, NEW s \in Sockets, HandleInvoke(s)
    PROVE  \E i \in Ids :
             /\ Invocation(i) \in sock[s].c2s
             /\ \A z \in Sockets : SameEnds(z) /\ (z # s => SameLoad(z))
             /\ sock'[s].c2s = sock[s].c2s \ {Invocation(i)} /\ sock'[s].s2c = sock[s].s2c
             /\ sock'[s].work = sock[s].work \cup {i}
<1>1. PICK f \in sock[s].c2s : f.kind = "invoke" /\
         sock' = [sock EXCEPT ![s] = [sock[s] EXCEPT !.c2s = @ \ {f}, !.work = @ \cup {f.id}]]
  BY DEF HandleInvoke
<1>2. f \in ClientFrames
  BY RecordType DEF SocketType
<1>3. f.id \in Ids /\ f = Invocation(f.id)
  BY <1>1, <1>2 DEF ClientFrames, Frames, Invocation, Frame
<1>. DEFINE n == [sock[s] EXCEPT !.c2s = @ \ {f}, !.work = @ \cup {f.id}]
<1>4. sock' = [sock EXCEPT ![s] = n]
  BY <1>1
<1>5. /\ n.cl = sock[s].cl /\ n.sv = sock[s].sv /\ n.up = sock[s].up /\ n.resolving = sock[s].resolving
      /\ n.c2s = sock[s].c2s \ {f} /\ n.s2c = sock[s].s2c /\ n.work = sock[s].work \cup {f.id}
  BY RecordType DEF SocketType
<1>. HIDE DEF n
<1>6. sock'[s] = n /\ \A z \in Sockets : z # s => SameEnds(z) /\ SameLoad(z)
  BY <1>4, Replaced
<1>7. \A z \in Sockets : SameEnds(z) /\ (z # s => SameLoad(z))
  BY <1>5, <1>6 DEF SameEnds
<1>. QED
  BY <1>3, <1>5, <1>6, <1>7

LEMMA HandleAnswerFields ==
    ASSUME Types, NEW s \in Sockets, HandleAnswer(s), NEW z \in Sockets
    PROVE  /\ SameEnds(z) /\ sock'[z].s2c = sock[z].s2c /\ sock'[z].work = sock[z].work
           /\ \A i : Invocation(i) \in sock'[z].c2s <=> Invocation(i) \in sock[z].c2s
<1>1. PICK f \in sock[s].c2s : f.kind = "answer" /\ sock' = [sock EXCEPT ![s].c2s = @ \ {f}]
  BY DEF HandleAnswer
<1>2. \A i : Invocation(i) # f
  BY <1>1 DEF Invocation, Frame
<1>. DEFINE n == [sock[s] EXCEPT !.c2s = @ \ {f}]
<1>3. sock' = [sock EXCEPT ![s] = n]
  BY <1>1
<1>4. /\ n.cl = sock[s].cl /\ n.sv = sock[s].sv /\ n.up = sock[s].up /\ n.resolving = sock[s].resolving
      /\ n.c2s = sock[s].c2s \ {f} /\ n.s2c = sock[s].s2c /\ n.work = sock[s].work
  BY RecordType DEF SocketType
<1>. HIDE DEF n
<1>5. sock'[s] = n /\ \A y \in Sockets : y # s => SameEnds(y) /\ SameLoad(y)
  BY <1>3, Replaced
<1>. QED
  BY <1>2, <1>4, <1>5 DEF SameEnds, SameLoad

LEMMA AnsweredFields ==
    ASSUME Types, NEW s \in Sockets, NEW i \in Ids, NEW f \in ServerFrames,
           sock' = Replied([sock EXCEPT ![s].work = @ \ {i}], s, f)
    PROVE  /\ \A z \in Sockets : SameEnds(z) /\ (z # s => SameLoad(z))
           /\ sock'[s].c2s = sock[s].c2s /\ sock'[s].work = sock[s].work \ {i}
           /\ sock'[s].s2c = IF sock[s].up /\ sock[s].sv = "open" THEN sock[s].s2c \cup {f} ELSE sock[s].s2c
<1>. DEFINE k == [sock EXCEPT ![s].work = @ \ {i}]
<1>s. sock \in [Sockets -> SocketType]
  BY DEF Types
<1>1. k \in [Sockets -> SocketType]
  BY <1>s DEF SocketType
<1>2. \A z \in Sockets :
         /\ k[z].cl = sock[z].cl /\ k[z].sv = sock[z].sv /\ k[z].up = sock[z].up
         /\ k[z].resolving = sock[z].resolving
         /\ k[z].s2c = sock[z].s2c /\ k[z].c2s = sock[z].c2s
         /\ k[z].work = IF z = s THEN sock[z].work \ {i} ELSE sock[z].work
  BY <1>s DEF SocketType
<1>3. sock' = Replied(k, s, f) /\ f \in ServerFrames
  OBVIOUS
<1>. HIDE DEF k
<1>4. \A z \in Sockets :
         /\ sock'[z].cl = k[z].cl /\ sock'[z].sv = k[z].sv /\ sock'[z].up = k[z].up
         /\ sock'[z].resolving = k[z].resolving
         /\ sock'[z].c2s = k[z].c2s /\ sock'[z].work = k[z].work
         /\ sock'[z].s2c = IF z = s /\ k[z].up /\ k[z].sv = "open" THEN k[z].s2c \cup {f} ELSE k[z].s2c
  <2> TAKE z \in Sockets
  <2> DEFINE n == sock'[z]
  <2>1. n = Replied(k, s, f)[z]
    BY <1>3
  <2> HIDE DEF n
  <2>2. /\ n.cl = k[z].cl /\ n.sv = k[z].sv /\ n.up = k[z].up /\ n.resolving = k[z].resolving
        /\ n.c2s = k[z].c2s /\ n.work = k[z].work
        /\ n.s2c = IF z = s /\ k[z].up /\ k[z].sv = "open" THEN k[z].s2c \cup {f} ELSE k[z].s2c
    BY <1>1, <1>3, <2>1, RepliedFields
  <2>. QED
    BY <2>2 DEF n
<1>5. \A z \in Sockets : SameEnds(z) /\ (z # s => SameLoad(z))
  <2> TAKE z \in Sockets
  <2>3. /\ k[z].cl = sock[z].cl /\ k[z].sv = sock[z].sv /\ k[z].up = sock[z].up
        /\ k[z].resolving = sock[z].resolving
    BY <1>2
  <2>4. /\ sock'[z].cl = k[z].cl /\ sock'[z].sv = k[z].sv /\ sock'[z].up = k[z].up
        /\ sock'[z].resolving = k[z].resolving
    BY <1>4
  <2>1. SameEnds(z)
    BY <2>3, <2>4 DEF SameEnds
  <2>5. z # s => k[z].s2c = sock[z].s2c /\ k[z].c2s = sock[z].c2s /\ k[z].work = sock[z].work
    BY <1>2
  <2>6. z # s => sock'[z].c2s = k[z].c2s /\ sock'[z].work = k[z].work /\ sock'[z].s2c = k[z].s2c
    BY <1>4
  <2>2. z # s => SameLoad(z)
    BY <2>5, <2>6 DEF SameLoad
  <2>. QED
    BY <2>1, <2>2
<1>6. /\ k[s].c2s = sock[s].c2s /\ k[s].s2c = sock[s].s2c /\ k[s].work = sock[s].work \ {i}
      /\ k[s].up = sock[s].up /\ k[s].sv = sock[s].sv
  BY <1>2
<1>7. /\ sock'[s].c2s = k[s].c2s /\ sock'[s].work = k[s].work
      /\ sock'[s].s2c = IF k[s].up /\ k[s].sv = "open" THEN k[s].s2c \cup {f} ELSE k[s].s2c
  BY <1>4
<1>. QED
  BY <1>5, <1>6, <1>7

LEMMA ServerClosedFields ==
    ASSUME Types, NEW s \in Sockets, ServerClosed(s)
    PROVE  /\ \A z \in Sockets : SameLoad(z) /\ (z # s => SameEnds(z))
           /\ sock'[s].cl = sock[s].cl /\ sock'[s].sv = "closed" /\ sock'[s].up = sock[s].up
           /\ sock'[s].resolving = sock[s].resolving
<1>. DEFINE n == [sock[s] EXCEPT !.sv = "closed"]
<1>1. sock' = [sock EXCEPT ![s] = n]
  BY DEF ServerClosed
<1>2. /\ n.cl = sock[s].cl /\ n.sv = "closed" /\ n.up = sock[s].up /\ n.resolving = sock[s].resolving
      /\ n.c2s = sock[s].c2s /\ n.s2c = sock[s].s2c /\ n.work = sock[s].work
  BY RecordType DEF SocketType
<1>. HIDE DEF n
<1>3. sock'[s] = n /\ \A z \in Sockets : z # s => SameEnds(z) /\ SameLoad(z)
  BY <1>1, Replaced
<1>. QED
  BY <1>2, <1>3 DEF SameLoad

LEMMA CutFields ==
    ASSUME Types, NEW s \in Sockets, Cut(s)
    PROVE  /\ \A z \in Sockets : z # s => SameEnds(z) /\ SameLoad(z)
           /\ sock'[s].cl = sock[s].cl /\ sock'[s].sv = sock[s].sv /\ ~sock'[s].up
           /\ sock'[s].resolving = sock[s].resolving
           /\ sock'[s].c2s \subseteq sock[s].c2s /\ sock'[s].s2c \subseteq sock[s].s2c
           /\ sock'[s].work = sock[s].work
<1>1. PICK c2s \in SUBSET sock[s].c2s, s2c \in SUBSET sock[s].s2c :
         sock' = [sock EXCEPT ![s] = [@ EXCEPT !.up = FALSE, !.c2s = c2s, !.s2c = s2c]]
  BY DEF Cut
<1>. DEFINE n == [sock[s] EXCEPT !.up = FALSE, !.c2s = c2s, !.s2c = s2c]
<1>2. sock' = [sock EXCEPT ![s] = n]
  BY <1>1
<1>3. /\ n.cl = sock[s].cl /\ n.sv = sock[s].sv /\ ~n.up /\ n.resolving = sock[s].resolving
      /\ n.c2s = c2s /\ n.s2c = s2c /\ n.work = sock[s].work
  BY RecordType DEF SocketType
<1>. HIDE DEF n
<1>4. sock'[s] = n /\ \A z \in Sockets : z # s => SameEnds(z) /\ SameLoad(z)
  BY <1>2, Replaced
<1>. QED
  BY <1>3, <1>4

LEMMA DispatchFields ==
    ASSUME Types, NEW c \in Reverses, Dispatch(c), NEW z \in Sockets
    PROVE  /\ SameEnds(z) /\ sock'[z].c2s = sock[z].c2s /\ sock'[z].work = sock[z].work
           /\ \A i : /\ Response(i) \in sock'[z].s2c <=> Response(i) \in sock[z].s2c
                     /\ Error(i) \in sock'[z].s2c <=> Error(i) \in sock[z].s2c
<1>1. sock \in [Sockets -> SocketType] /\ bound \in Sockets /\ nextRev \in Nat
  BY DEF Types, Dispatch
<1>. DEFINE a == Frame("reverse", nextRev, c)
<1>2. a \in ServerFrames
  BY <1>1, FrameTypes
<1>3. \A i : Response(i) # a /\ Error(i) # a
  BY DEF Response, Error, Frame
<1>4. sock' = sock \/ sock' = Replied(sock, bound, a)
  BY DEF Dispatch, ReverseId
<1>. HIDE DEF a
<1>5. CASE sock' = Replied(sock, bound, a)
  <2> DEFINE n == sock'[z]
  <2>2. n = Replied(sock, bound, a)[z]
    BY <1>5
  <2> HIDE DEF n
  <2>3. /\ n.cl = sock[z].cl /\ n.sv = sock[z].sv /\ n.up = sock[z].up /\ n.resolving = sock[z].resolving
        /\ n.c2s = sock[z].c2s /\ n.work = sock[z].work
        /\ n.s2c = IF z = bound /\ sock[z].up /\ sock[z].sv = "open"
                   THEN sock[z].s2c \cup {a} ELSE sock[z].s2c
    <3>1. sock \in [Sockets -> SocketType] /\ bound \in Sockets /\ a \in ServerFrames
      BY <1>1, <1>2
    <3>. QED
      BY <2>2, <3>1, RepliedFields, SMTT(30)
  <2>1. /\ SameEnds(z) /\ sock'[z].c2s = sock[z].c2s /\ sock'[z].work = sock[z].work
        /\ sock'[z].s2c \subseteq sock[z].s2c \cup {a} /\ sock[z].s2c \subseteq sock'[z].s2c
    BY <2>3 DEF n, SameEnds
  <2>. QED
    BY <1>3, <2>1
<1>. QED
  BY <1>4, <1>5 DEF SameEnds

LEMMA RestartFields ==
    ASSUME Types, Restart, NEW z \in Sockets
    PROVE  /\ sock[z].cl = "none" => SameEnds(z) /\ SameLoad(z)
           /\ sock[z].cl # "none" =>
                /\ sock'[z].cl = sock[z].cl /\ sock'[z].sv = "closed" /\ ~sock'[z].up
                /\ ~sock'[z].resolving
                /\ sock'[z].c2s = {} /\ sock'[z].s2c = sock[z].s2c /\ sock'[z].work = {}
<1>. DEFINE n == [sock[z] EXCEPT !.sv = "closed", !.up = FALSE, !.resolving = FALSE,
                                 !.c2s = {}, !.work = {}]
<1>1. sock'[z] = IF sock[z].cl = "none" THEN sock[z] ELSE n
  BY DEF Restart
<1>2. /\ n.cl = sock[z].cl /\ n.sv = "closed" /\ ~n.up /\ ~n.resolving
      /\ n.c2s = {} /\ n.s2c = sock[z].s2c /\ n.work = {}
  BY RecordType DEF SocketType
<1>. HIDE DEF n
<1>. QED
  BY <1>1, <1>2 DEF SameEnds, SameLoad

---------------------------------------------------------------------------
(* At most once *)

Legs == {"sent", "at", "response", "error"}

\* Call i is on this leg of its way, on socket s.
On(i, k, s) ==
    \/ k = "sent" /\ Invocation(i) \in sock[s].c2s
    \/ k = "at" /\ i \in sock[s].work
    \/ k = "response" /\ Response(i) \in sock[s].s2c
    \/ k = "error" /\ Error(i) \in sock[s].s2c

Nowhere(i) == \A k \in Legs, s \in Sockets : ~On(i, k, s)
OnePlace(i) == \A k, l \in Legs, s, z \in Sockets : On(i, k, s) /\ On(i, l, z) => k = l /\ s = z

\* A call is nowhere before it is made and while it is queued, and in one
\* place at most while its caller waits.
Ledger(i) ==
    /\ call[i] = "new" => i \notin queue /\ Nowhere(i)
    /\ i \in queue => Waiting(i) /\ Nowhere(i)
    /\ Waiting(i) => OnePlace(i)

OnceInv == \A i \in Ids : Ledger(i)

LEMMA NoTraces == \A i : Traces(i) = {} <=> Nowhere(i)
<1>. SUFFICES ASSUME NEW i PROVE Traces(i) = {} <=> Nowhere(i)
  OBVIOUS
<1>1. ASSUME NEW s \in Sockets
      PROVE  /\ On(i, "sent", s) => <<"sent", s>> \in Traces(i)
             /\ On(i, "at", s) => <<"at", s>> \in Traces(i)
             /\ On(i, "response", s) => <<"answered", s>> \in Traces(i)
             /\ On(i, "error", s) => <<"answered", s>> \in Traces(i)
  BY DEF On, Traces
<1>2. ASSUME NEW t \in Traces(i)
      PROVE  \E k \in Legs, s \in Sockets : On(i, k, s)
  BY DEF On, Traces, Legs
<1>3. Traces(i) = {} => Nowhere(i)
  BY <1>1 DEF Nowhere, Legs, On
<1>. QED
  BY <1>2, <1>3 DEF Nowhere

LEMMA OneTrace == \A i : OnePlace(i) => \A t, u \in Traces(i) : t = u
<1>. SUFFICES ASSUME NEW i, OnePlace(i), NEW t \in Traces(i), NEW u \in Traces(i) PROVE t = u
  OBVIOUS
<1>. DEFINE Place(v, k, s) ==
        \/ v = <<"sent", s>> /\ k = "sent"
        \/ v = <<"at", s>> /\ k = "at"
        \/ v = <<"answered", s>> /\ k \in {"response", "error"}
<1>1. \A v \in Traces(i) : \E k \in Legs, s \in Sockets : Place(v, k, s) /\ On(i, k, s)
  BY DEF Traces, On, Legs
<1>2. PICK k \in Legs, s \in Sockets : Place(t, k, s) /\ On(i, k, s)
  BY <1>1
<1>3. PICK l \in Legs, z \in Sockets : Place(u, l, z) /\ On(i, l, z)
  BY <1>1
<1>4. k = l /\ s = z
  BY <1>2, <1>3 DEF OnePlace
<1>. QED
  BY <1>2, <1>3, <1>4

LEMMA OnceIsSent == Types /\ OnceInv => SentOnce
  BY NoTraces, OneTrace DEF OnceInv, Ledger, SentOnce, Types

\* Nothing new of the call is under way, and it waits on or is settled.
LEMMA LedgerShrinks ==
    ASSUME NEW i, Ledger(i), \A k \in Legs, s \in Sockets : On(i, k, s)' => On(i, k, s),
           i \in queue' => i \in queue, call'[i] = call[i] \/ (call'[i] = "settled" /\ i \notin queue')
    PROVE  Ledger(i)'
<1>1. Nowhere(i) => Nowhere(i)'
  BY DEF Nowhere
<1>2. OnePlace(i) => OnePlace(i)'
  BY DEF OnePlace
<1>. QED
  BY <1>1, <1>2 DEF Ledger, Waiting

\* The call goes on to its next leg.
LEMMA LedgerMoves ==
    ASSUME NEW i, Ledger(i), NEW k \in Legs, NEW s \in Sockets, On(i, k, s), NEW l \in Legs,
           \A m \in Legs, z \in Sockets :
              On(i, m, z)' => (On(i, m, z) /\ ~(m = k /\ z = s)) \/ (m = l /\ z = s),
           queue' = queue, call' = call
    PROVE  Ledger(i)'
<1>1. call[i] # "new" /\ i \notin queue
  BY DEF Ledger, Nowhere
<1>2. Waiting(i) => \A m \in Legs, z \in Sockets : On(i, m, z)' => m = l /\ z = s
  BY DEF Ledger, OnePlace
<1>3. Waiting(i) => OnePlace(i)'
  BY <1>2 DEF OnePlace
<1>. QED
  BY <1>1, <1>3 DEF Ledger, Waiting

\* The call is queued, sent on one socket, or refused.
LEMMA LedgerStarts ==
    ASSUME NEW i, Nowhere(i), call'[i] \in {"waiting", "settled"}, NEW s,
           \A m \in Legs, z \in Sockets : On(i, m, z)' => m = "sent" /\ z = s,
           i \in queue' => call'[i] = "waiting" /\ Nowhere(i)'
    PROVE  Ledger(i)'
<1>1. OnePlace(i)'
  BY DEF OnePlace
<1>. QED
  BY <1>1 DEF Ledger, Waiting

\* Frames are told apart by their kind and call.
LEMMA Distinct ==
    /\ \A i, j : Invocation(i) = Invocation(j) => i = j
    /\ \A i, j : Response(i) = Response(j) => i = j
    /\ \A i, j : Error(i) = Error(j) => i = j
    /\ \A i, j : Response(i) # Error(j)
  BY DEF Invocation, Response, Error, Frame

LEMMA SameOn == \A z : SameLoad(z) => \A i, k : On(i, k, z)' <=> On(i, k, z)
  BY DEF SameLoad, On

LEMMA FreshNowhere == \A r \in FreshRegs : Nowhere(r) /\ r \notin queue /\ ~Waiting(r)
  BY NoTraces DEF FreshRegs, Traceless

LEMMA InvokesLedger ==
    ASSUME Types, OnceInv, NEW j \in Ids, Invokes(j), Nowhere(j), j \notin queue
    PROVE  OnceInv'
<1>. SUFFICES ASSUME NEW i \in Ids PROVE Ledger(i)'
  BY DEF OnceInv
<1>f. \A z \in Sockets :
         /\ sock'[z].s2c = sock[z].s2c /\ sock'[z].work = sock[z].work
         /\ sock'[z].c2s = IF conn # "closed" /\ IsOpen(ws) /\ z = ws /\ sock[z].up
                           THEN sock[z].c2s \cup {Invocation(j)} ELSE sock[z].c2s
  BY InvokesFields
<1>c. call \in [Ids -> {"new", "waiting", "settled"}]
  BY DEF Types
<1>1. CASE i = j
  <2>1. call'[i] \in {"waiting", "settled"}
    BY <1>1, <1>c DEF Invokes
  <2>2. \A m \in Legs, z \in Sockets : On(i, m, z)' => m = "sent" /\ z = ws /\ conn # "closed" /\ IsOpen(ws)
    BY <1>1, <1>f DEF On, Nowhere
  <2>3. i \in queue' => conn # "closed" /\ ~IsOpen(ws)
    BY <1>1 DEF Invokes
  <2>4. i \in queue' => call'[i] = "waiting" /\ Nowhere(i)'
    BY <1>1, <1>c, <2>2, <2>3 DEF Invokes, Nowhere
  <2>. QED
    BY <1>1, <2>1, <2>2, <2>4, LedgerStarts
<1>2. CASE i # j
  <2>1. call'[i] = call[i] /\ (i \in queue' => i \in queue)
    BY <1>2, <1>c DEF Invokes
  <2>3. Invocation(i) # Invocation(j)
    BY <1>2, Distinct
  <2>2. ASSUME NEW k \in Legs, NEW s \in Sockets, On(i, k, s)' PROVE On(i, k, s)
    BY <1>f, <2>2, <2>3 DEF On
  <2>. QED
    BY <2>1, <2>2, LedgerShrinks DEF OnceInv
<1>. QED
  BY <1>1, <1>2

\* A step after which nothing new is under way and no call has been made.
LEMMA OnceShrinks ==
    ASSUME OnceInv, queue' = queue, call' = call,
           \A i \in Ids, k \in Legs, s \in Sockets : On(i, k, s)' => On(i, k, s)
    PROVE  OnceInv'
  BY LedgerShrinks DEF OnceInv

\* The handler of call j answers.
LEMMA AnsweredLedger ==
    ASSUME Types, OnceInv, NEW s \in Sockets, NEW j \in Ids, j \in sock[s].work,
           NEW k \in {"response", "error"},
           sock' = Replied([sock EXCEPT ![s].work = @ \ {j}], s, Frame(k, j, None)),
           queue' = queue, call' = call
    PROVE  OnceInv'
<1>. SUFFICES ASSUME NEW i \in Ids PROVE Ledger(i)'
  BY DEF OnceInv
<1>. DEFINE f == Frame(k, j, None)
<1>1. f \in ServerFrames /\ f \in {Response(j), Error(j)}
  BY DEF Ids, Frame, Frames, ServerFrames, Response, Error
<1>2. k = "response" => f = Response(j)
  BY DEF Response
<1>3. k = "error" => f = Error(j)
  BY DEF Error
<1>g. sock' = Replied([sock EXCEPT ![s].work = @ \ {j}], s, f)
  OBVIOUS
<1>. HIDE DEF f
<1>4. /\ \A z \in Sockets : z # s => SameLoad(z)
      /\ sock'[s].c2s = sock[s].c2s /\ sock'[s].work = sock[s].work \ {j}
      /\ sock'[s].s2c \subseteq sock[s].s2c \cup {f}
  <2>1. sock'[s].s2c = IF sock[s].up /\ sock[s].sv = "open" THEN sock[s].s2c \cup {f} ELSE sock[s].s2c
    BY <1>1, <1>g, AnsweredFields
  <2>. QED
    BY <1>1, <1>g, <2>1, AnsweredFields
<1>5. CASE i = j
  <2>1. On(i, "at", s)
    BY <1>5 DEF On
  <2>2. \A m \in Legs, z \in Sockets :
           On(i, m, z)' => (On(i, m, z) /\ ~(m = "at" /\ z = s)) \/ (m = k /\ z = s)
    <3> SUFFICES ASSUME NEW m \in Legs, NEW z \in Sockets, On(i, m, z)'
                 PROVE  (On(i, m, z) /\ ~(m = "at" /\ z = s)) \/ (m = k /\ z = s)
      OBVIOUS
    <3>1. CASE z # s
      BY <1>4, <3>1, SameOn
    <3>2. CASE z = s
      BY <1>2, <1>3, <1>4, <1>5, <3>2, Distinct DEF On, Legs
    <3>. QED
      BY <3>1, <3>2
  <2>3. Ledger(i) /\ k \in Legs /\ "at" \in Legs
    BY DEF OnceInv, Legs
  <2>. QED
    BY <2>1, <2>2, <2>3, LedgerMoves
<1>6. CASE i # j
  <2>1. ASSUME NEW m \in Legs, NEW z \in Sockets, On(i, m, z)' PROVE On(i, m, z)
    <3>1. CASE z # s
      BY <1>4, <2>1, <3>1, SameOn
    <3>2. CASE z = s
      BY <1>1, <1>4, <1>6, <2>1, <3>2, Distinct DEF On, Legs
    <3>. QED
      BY <3>1, <3>2
  <2>. QED
    BY <2>1, LedgerShrinks DEF OnceInv
<1>. QED
  BY <1>5, <1>6

LEMMA FailureLedger ==
    ASSUME Types, OnceInv, NEW permanent \in BOOLEAN, Failure(permanent),
           \A i \in Ids, k \in Legs, s \in Sockets : On(i, k, s)' => On(i, k, s)
    PROVE  OnceInv'
<1>1. ASSUME NEW i \in Ids
      PROVE  /\ i \in queue' => i \in queue
             /\ call'[i] = call[i] \/ (call'[i] = "settled" /\ i \notin queue')
  BY DEF Failure, Rejected, Types
<1>. QED
  BY <1>1, LedgerShrinks DEF OnceInv

LEMMA OnceStep == Types /\ Shape /\ OnceInv /\ [Next]_vars => OnceInv'
<1>. SUFFICES ASSUME Types, Shape, OnceInv, [Next]_vars PROVE OnceInv'
  OBVIOUS
<1>. USE TransportAssumption
<1>q. queue \subseteq Ids /\ call \in [Ids -> {"new", "waiting", "settled"}]
  BY DEF Types
\* A step that leaves all calls and sockets to themselves.
<1>u. (UNCHANGED <<queue, call, sock>>) => OnceInv'
  BY Unchanged, SameOn, OnceShrinks
<1>1. ASSUME NEW i \in Calls, Invoke(i) PROVE OnceInv'
  <2>1. i \in Ids /\ Invokes(i) /\ call[i] = "new"
    BY <1>1 DEF Invoke, Ids
  <2>2. Nowhere(i) /\ i \notin queue
    BY <2>1 DEF OnceInv, Ledger
  <2>. QED
    BY <2>1, <2>2, InvokesLedger
<1>2. ASSUME NEW r \in FreshRegs, Invokes(r) PROVE OnceInv'
  BY <1>2, FreshNowhere, InvokesLedger DEF FreshRegs, Ids
<1>3. CASE InitMachines
  BY <1>2, <1>3 DEF InitMachines, RegisterOnce
<1>4. CASE RegisterAgain
  BY <1>2, <1>4 DEF RegisterAgain, RegisterOnce
<1>5. CASE Subscribe
  BY <1>2, <1>5, <1>u DEF Subscribe
<1>6. CASE Reconnect
  BY <1>6, <1>u DEF Reconnect
<1>7. CASE TokenFails
  <2>1. \A i \in Ids, k \in Legs, s \in Sockets : On(i, k, s)' => On(i, k, s)
    BY <1>7, Unchanged, SameOn DEF TokenFails
  <2>. QED
    BY <1>7, <2>1, FailureLedger DEF TokenFails
<1>8. CASE Dial
  <2>1. ASSUME NEW i \in Ids, NEW k \in Legs, NEW s \in Sockets, On(i, k, s)' PROVE On(i, k, s)
    BY <1>8, <2>1, DialFields, SameOn DEF On
  <2>. QED
    BY <1>8, <2>1, OnceShrinks DEF Dial
<1>9. CASE Served
  <2>1. \A i \in Ids, k \in Legs, s \in Sockets : On(i, k, s)' => On(i, k, s)
    BY <1>9, ServedFields DEF On
  <2>. QED
    BY <1>9, <2>1, OnceShrinks DEF Served
<1>10. ASSUME NEW s \in Sockets, Open(s) PROVE OnceInv'
  <2>1. PICK m \in SUBSET Regs : OpenEffect(s, m)
    BY <1>10, OpenFields
  <2>2. queue' = {}
    BY <1>10 DEF Open
  <2>3. \A r \in m : Nowhere(r)
    BY <2>1, FreshNowhere DEF OpenEffect
  <2>4. \A i \in Ids : call'[i] = IF i \in m THEN "waiting" ELSE call[i]
    BY <2>1, <1>q DEF OpenEffect, FreshRegs, Ids
  <2> SUFFICES ASSUME NEW i \in Ids PROVE Ledger(i)'
    BY DEF OnceInv
  <2>5. CASE i \in queue \cup m
    <3>1. Nowhere(i) /\ call'[i] = "waiting"
      BY <2>3, <2>4, <2>5 DEF OnceInv, Ledger, Waiting
    <3>2. \A k \in Legs, z \in Sockets : On(i, k, z)' => k = "sent" /\ z = s
      BY <2>1, <3>1 DEF OpenEffect, On, Nowhere
    <3>. QED
      BY <2>2, <3>1, <3>2, LedgerStarts
  <2>6. CASE i \notin queue \cup m
    <3>1. Invocation(i) \notin {Invocation(j) : j \in queue \cup m}
      BY <2>6, Distinct
    <3>2. \A k \in Legs, z \in Sockets : On(i, k, z)' => On(i, k, z)
      BY <2>1, <3>1 DEF OpenEffect, On
    <3>3. call'[i] = call[i]
      BY <2>4, <2>6
    <3>. QED
      BY <2>2, <3>2, <3>3, LedgerShrinks DEF OnceInv
  <2>. QED
    BY <2>5, <2>6
<1>11. ASSUME NEW s \in Sockets, Closing(s) PROVE OnceInv'
  BY <1>11, ClosingFields, SameOn, OnceShrinks DEF Closing, client
<1>12. ASSUME NEW s \in Sockets, Closed(s) PROVE OnceInv'
  <2>1. ASSUME NEW i \in Ids, NEW k \in Legs, NEW z \in Sockets, On(i, k, z)' PROVE On(i, k, z)
    BY <1>12, <2>1, ClosedFields, SameOn DEF On
  <2>2. (sock[s].refused /\ sock[s].cl # "dialing") \in BOOLEAN
    OBVIOUS
  <2>. QED
    BY <1>12, <2>1, <2>2, FailureLedger DEF Closed
<1>13. ASSUME NEW s \in Sockets, Receive(s) PROVE OnceInv'
  <2>1. PICK f \in sock[s].s2c :
           /\ sock' = [sock EXCEPT ![s].s2c = @ \ {f}]
           /\ f.kind = "reverse" => call' = call
           /\ f.kind # "reverse" => call' = [call EXCEPT ![f.id] = IF @ = "waiting" THEN "settled" ELSE @]
    BY <1>13 DEF Receive
  <2>2. queue' = queue
    BY <1>13 DEF Receive
  <2>3. \A i \in Ids, k \in Legs, z \in Sockets : On(i, k, z)' => On(i, k, z)
    BY <2>1, ReceiveFields DEF On
  <2> SUFFICES ASSUME NEW i \in Ids PROVE Ledger(i)'
    BY DEF OnceInv
  <2>4. CASE call'[i] = call[i]
    BY <2>2, <2>3, <2>4, LedgerShrinks DEF OnceInv
  <2>5. CASE call'[i] # call[i]
    <3>1. f.kind # "reverse" /\ f.id = i /\ call'[i] = "settled"
      BY <2>1, <2>5, <1>q
    <3>2. f \in ServerFrames
      BY RecordType DEF SocketType
    <3>3. f = Response(i) \/ f = Error(i)
      BY <3>1, <3>2 DEF ServerFrames, Frames, Response, Error, Frame
    <3>4. ~Nowhere(i)
      BY <3>3 DEF Nowhere, On, Legs
    <3>5. i \notin queue'
      BY <2>2, <3>4 DEF OnceInv, Ledger
    <3>. QED
      BY <2>2, <2>3, <3>1, <3>5, LedgerShrinks DEF OnceInv
  <2>. QED
    BY <2>4, <2>5
<1>14. ASSUME NEW s \in Sockets, Accept(s) PROVE OnceInv'
  BY <1>14, AcceptFields, SameOn, OnceShrinks DEF Accept, client
<1>15. ASSUME NEW s \in Sockets, NEW permanent \in BOOLEAN, Refuse(s, permanent) PROVE OnceInv'
  <2>1. ASSUME NEW i \in Ids, NEW k \in Legs, NEW z \in Sockets, On(i, k, z)' PROVE On(i, k, z)
    BY <1>15, <2>1, RefuseFields, SameOn DEF On
  <2>. QED
    BY <1>15, <2>1, OnceShrinks DEF Refuse, client
<1>16. ASSUME NEW s \in Sockets, HandleInvoke(s) PROVE OnceInv'
  <2>1. PICK j \in Ids :
             /\ Invocation(j) \in sock[s].c2s
             /\ \A z \in Sockets : SameEnds(z) /\ (z # s => SameLoad(z))
             /\ sock'[s].c2s = sock[s].c2s \ {Invocation(j)} /\ sock'[s].s2c = sock[s].s2c
             /\ sock'[s].work = sock[s].work \cup {j}
    BY <1>16, HandleInvokeFields
  <2>2. queue' = queue /\ call' = call
    BY <1>16 DEF HandleInvoke, client
  <2> SUFFICES ASSUME NEW i \in Ids PROVE Ledger(i)'
    BY DEF OnceInv
  <2>3. CASE i = j
    <3>1. On(i, "sent", s) /\ "sent" \in Legs /\ "at" \in Legs
      BY <2>1, <2>3 DEF On, Legs
    <3>2. ASSUME NEW m \in Legs, NEW z \in Sockets, On(i, m, z)'
          PROVE  (On(i, m, z) /\ ~(m = "sent" /\ z = s)) \/ (m = "at" /\ z = s)
      <4>1. CASE z # s
        BY <2>1, <3>2, <4>1, SameOn
      <4>2. CASE z = s
        BY <2>1, <2>3, <3>2, <4>2 DEF On, Legs
      <4>. QED
        BY <4>1, <4>2
    <3>. QED
      BY <2>2, <3>1, <3>2, LedgerMoves DEF OnceInv
  <2>4. CASE i # j
    <3>1. ASSUME NEW m \in Legs, NEW z \in Sockets, On(i, m, z)' PROVE On(i, m, z)
      <4>1. CASE z # s
        BY <2>1, <3>1, <4>1, SameOn
      <4>2. CASE z = s
        BY <2>1, <2>4, <3>1, <4>2 DEF On, Legs
      <4>. QED
        BY <4>1, <4>2
    <3>. QED
      BY <2>2, <3>1, LedgerShrinks DEF OnceInv
  <2>. QED
    BY <2>3, <2>4
<1>17. ASSUME NEW s \in Sockets, HandleAnswer(s) PROVE OnceInv'
  <2>1. \A i \in Ids, k \in Legs, z \in Sockets : On(i, k, z)' => On(i, k, z)
    BY <1>17, HandleAnswerFields DEF On
  <2>. QED
    BY <1>17, <2>1, OnceShrinks DEF HandleAnswer, client
<1>18. ASSUME NEW s \in Sockets, Finish(s) PROVE OnceInv'
  <2>1. PICK j \in sock[s].work \cap Calls :
            sock' = Replied([sock EXCEPT ![s].work = @ \ {j}], s, Frame("response", j, None))
    BY <1>18 DEF Finish, Response
  <2>. QED
    BY <1>18, <2>1, AnsweredLedger DEF Finish, client, Ids
<1>19. ASSUME NEW s \in Sockets, NEW k \in {"response", "error"}, Registered(s, k),
              queue' = queue, call' = call
       PROVE  OnceInv'
  <2>1. PICK r \in sock[s].work \cap Regs :
            sock' = Replied([sock EXCEPT ![s].work = @ \ {r}], s, Frame(k, r, None))
    BY <1>19 DEF Registered
  <2>. QED
    BY <1>19, <2>1, AnsweredLedger DEF Ids
<1>20. ASSUME NEW s \in Sockets, Bind(s) PROVE OnceInv'
  BY <1>19, <1>20 DEF Bind, client
<1>21. ASSUME NEW s \in Sockets, BindFails(s) PROVE OnceInv'
  BY <1>19, <1>21 DEF BindFails, client
<1>22. ASSUME NEW s \in Sockets, ServerClosed(s) PROVE OnceInv'
  BY <1>22, ServerClosedFields, SameOn, OnceShrinks DEF ServerClosed, client
<1>23. ASSUME NEW s \in Sockets, Cut(s) PROVE OnceInv'
  <2>1. ASSUME NEW i \in Ids, NEW k \in Legs, NEW z \in Sockets, On(i, k, z)' PROVE On(i, k, z)
    BY <1>23, <2>1, CutFields, SameOn DEF On
  <2>. QED
    BY <1>23, <2>1, OnceShrinks DEF Cut, client
<1>24. ASSUME NEW c \in Reverses, Dispatch(c) PROVE OnceInv'
  <2>1. \A i \in Ids, k \in Legs, z \in Sockets : On(i, k, z)' => On(i, k, z)
    BY <1>24, DispatchFields DEF On
  <2>. QED
    BY <1>24, <2>1, OnceShrinks DEF Dispatch, client
<1>25. ASSUME NEW c \in Reverses, TimesOut(c) PROVE OnceInv'
  BY <1>25, <1>u DEF TimesOut, client
<1>26. CASE Restart
  <2>1. ASSUME NEW i \in Ids, NEW k \in Legs, NEW z \in Sockets, On(i, k, z)' PROVE On(i, k, z)
    BY <1>26, <2>1, RestartFields, SameOn DEF On
  <2>. QED
    BY <1>26, <2>1, OnceShrinks DEF Restart, client
<1>27. CASE UNCHANGED vars
  BY <1>27, <1>u DEF vars, client
<1>. QED
  BY <1>1, <1>3, <1>4, <1>5, <1>6, <1>7, <1>8, <1>9, <1>10, <1>11, <1>12, <1>13, <1>14, <1>15,
     <1>16, <1>17, <1>18, <1>20, <1>21, <1>22, <1>23, <1>24, <1>25, <1>26, <1>27
     DEF Next, SocketStep

\* A call runs at most once, and a queued one nowhere: what is sent when a
\* connection opens was never sent before, and its caller still waits.
THEOREM CallsRunOnce == Spec => []SentOnce
<1>1. Init => Types /\ Shape /\ OnceInv
  <2>1. Init => \A s \in Sockets : sock[s].cl = "none" /\ s > dials
    BY DEF Init, NoSocket, Sockets
  <2>2. Init => \A s \in Sockets : sock[s].s2c = {} /\ sock[s].c2s = {} /\ sock[s].work = {}
    BY DEF Init, NoSocket
  <2>3. Init => \A i \in Ids : i \notin queue /\ call[i] = "new"
    BY DEF Init
  <2>4. Init => OnceInv
    BY <2>2, <2>3 DEF OnceInv, Ledger, Nowhere, On, Waiting
  <2>. QED
    BY <2>1, <2>4, InitTypes DEF Init, Shape
<1>2. Types /\ Shape /\ OnceInv /\ [Next]_vars => (Types /\ Shape /\ OnceInv)'
  BY TypesStep, ShapeStep, OnceStep
<1>3. Types /\ Shape /\ OnceInv => SentOnce
  BY OnceIsSent
<1>. QED
  BY <1>1, <1>2, <1>3, PTL DEF Spec

---------------------------------------------------------------------------
(* Every call is accounted for *)

\* Frames pass only while the server's end is open, and the client is without
\* a socket only while it dials or has given up for good.
Link ==
    /\ \A s \in Sockets : sock[s].up => sock[s].sv = "open"
    /\ ws = 0 => dial # "none"
    /\ dial = "over" => conn = "closed"

Account(i) ==
    \/ i \in queue /\ (ws = 0 => dial # "over")
    \/ \E z \in Sockets : z = ws /\ (~sock[z].up \/ \E k \in Legs : On(i, k, z))

AccountInv == \A i \in Ids : Waiting(i) => Account(i)

LEMMA LegTraces ==
    ASSUME NEW i, NEW s \in Sockets, NEW k \in Legs, On(i, k, s)
    PROVE  \E t \in Traces(i) : t[2] = s
<1>1. \/ k = "sent" /\ <<"sent", s>> \in Traces(i)
      \/ k = "at" /\ <<"at", s>> \in Traces(i)
      \/ <<"answered", s>> \in Traces(i)
  BY DEF On, Traces
<1>2. <<"sent", s>>[2] = s /\ <<"at", s>>[2] = s /\ <<"answered", s>>[2] = s
  OBVIOUS
<1>. QED
  BY <1>1, <1>2

LEMMA AccountIsAccounted == Types /\ Link /\ AccountInv => Accounted
<1>. SUFFICES ASSUME Types, Link, AccountInv, NEW i \in Ids, Waiting(i)
              PROVE  \/ i \in queue /\ (ws = 0 => dial \in {"timer", "token", "socket"})
                     \/ ws # 0 /\ (~sock[ws].up \/ \E t \in Traces(i) : t[2] = ws)
  BY DEF Accounted
<1>1. Account(i)
  BY DEF AccountInv
<1>2. dial \in {"timer", "token", "socket", "none", "over"} /\ ws \in {0} \cup Sockets
  BY DEF Types
<1>3. CASE i \in queue /\ (ws = 0 => dial # "over")
  BY <1>2, <1>3 DEF Link
<1>4. CASE \E z \in Sockets : z = ws /\ (~sock[z].up \/ \E k \in Legs : On(i, k, z))
  BY <1>2, <1>4, LegTraces DEF Sockets
<1>. QED
  BY <1>1, <1>3, <1>4 DEF Account

LEMMA LinkKept ==
    ASSUME Link, UNCHANGED <<ws, dial, conn>>,
           \A z \in Sockets : sock'[z].up => sock[z].up /\ sock'[z].sv = sock[z].sv
    PROVE  Link'
  BY DEF Link

LEMMA SameLink == \A z : SameEnds(z) => (sock'[z].up => sock[z].up /\ sock'[z].sv = sock[z].sv)
  BY DEF SameEnds

\* No call is made, and none leaves the client's socket unless that breaks.
LEMMA AccountKept ==
    ASSUME AccountInv, UNCHANGED <<ws, queue>>, dial' = "over" => dial = "over",
           \A i \in Ids : call'[i] = "waiting" => call[i] = "waiting",
           \A z \in Sockets : sock'[z].up => sock[z].up,
           \A i \in Ids, k \in Legs, z \in Sockets :
              call'[i] = "waiting" /\ sock'[z].up /\ On(i, k, z) => \E l \in Legs : On(i, l, z)'
    PROVE  AccountInv'
<1>. SUFFICES ASSUME NEW i \in Ids, call'[i] = "waiting" PROVE Account(i)'
  BY DEF AccountInv, Waiting
<1>1. Account(i)
  BY DEF AccountInv, Waiting
<1>2. CASE i \in queue /\ (ws = 0 => dial # "over")
  BY <1>2 DEF Account
<1>3. CASE \E z \in Sockets : z = ws /\ (~sock[z].up \/ \E k \in Legs : On(i, k, z))
  <2>1. PICK z \in Sockets : z = ws /\ (~sock[z].up \/ \E k \in Legs : On(i, k, z))
    BY <1>3
  <2>2. ~sock'[z].up \/ \E l \in Legs : On(i, l, z)'
    BY <2>1
  <2>. QED
    BY <2>1, <2>2 DEF Account
<1>. QED
  BY <1>1, <1>2, <1>3 DEF Account

LEMMA SameAccount ==
    ASSUME NEW z, SameLoad(z)
    PROVE  \A i \in Ids, k \in Legs : On(i, k, z) => \E l \in Legs : On(i, l, z)'
  BY SameOn

\* Nothing of the calls, the sockets' loads and the connection changes.
LEMMA AccountSame ==
    ASSUME AccountInv, UNCHANGED <<ws, dial, queue, call>>,
           \A z \in Sockets : SameLoad(z) /\ (sock'[z].up => sock[z].up)
    PROVE  AccountInv'
  BY SameAccount, AccountKept

LEMMA InvokesAccount ==
    ASSUME Types, Shape, Link, AccountInv, NEW j \in Ids, Invokes(j), UNCHANGED <<ws, dial, conn>>
    PROVE  AccountInv' /\ Link'
<1>f. \A z \in Sockets :
         /\ SameEnds(z) /\ sock'[z].s2c = sock[z].s2c /\ sock'[z].work = sock[z].work
         /\ sock'[z].c2s = IF conn # "closed" /\ IsOpen(ws) /\ z = ws /\ sock[z].up
                           THEN sock[z].c2s \cup {Invocation(j)} ELSE sock[z].c2s
  BY InvokesFields
<1>c. call \in [Ids -> {"new", "waiting", "settled"}] /\ ws \in {0} \cup Sockets
  BY DEF Types
<1>1. Link'
  BY <1>f, SameLink, LinkKept
<1>2. \A i, z, k : z \in Sockets /\ On(i, k, z) => On(i, k, z)'
  BY <1>f DEF On
<1>3. ASSUME NEW i \in Ids, call'[i] = "waiting" PROVE Account(i)'
  <2>1. CASE i # j
    <3>1. Account(i)
      BY <1>3, <1>c, <2>1 DEF Invokes, AccountInv, Waiting
    <3>2. i \in queue => i \in queue'
      BY DEF Invokes
    <3>3. CASE i \in queue /\ (ws = 0 => dial # "over")
      BY <3>2, <3>3 DEF Account
    <3>4. CASE \E z \in Sockets : z = ws /\ (~sock[z].up \/ \E k \in Legs : On(i, k, z))
      <4>1. PICK z \in Sockets : z = ws /\ (~sock[z].up \/ \E k \in Legs : On(i, k, z))
        BY <3>4
      <4>2. ~sock'[z].up \/ \E k \in Legs : On(i, k, z)'
        BY <4>1, <1>2, <1>f DEF SameEnds
      <4>. QED
        BY <4>1, <4>2 DEF Account
    <3>. QED
      BY <3>1, <3>3, <3>4 DEF Account
  <2>2. CASE i = j
    <3>1. conn # "closed"
      BY <1>3, <1>c, <2>2 DEF Invokes
    <3>2. CASE IsOpen(ws)
      <4>1. ws \in Sockets
        BY <1>c, <3>2 DEF IsOpen
      <4> DEFINE z == ws
      <4>2. ~sock'[ws].up \/ Invocation(i) \in sock'[ws].c2s
        BY <1>f, <2>2, <3>1, <3>2, <4>1 DEF SameEnds
      <4>3. ws' \in Sockets /\ (~sock'[ws'].up \/ Invocation(i) \in sock'[ws'].c2s)
        BY <4>1, <4>2
      <4>4. PICK y \in Sockets : y = ws' /\ (~sock'[y].up \/ Invocation(i) \in sock'[y].c2s)
        BY <4>3
      <4>5. Invocation(i) \in sock'[y].c2s => On(i, "sent", y)'
        BY DEF On
      <4>. QED
        BY <4>4, <4>5 DEF Account, Legs
    <3>3. CASE ~IsOpen(ws)
      <4>1. i \in queue'
        BY <2>2, <3>1, <3>3 DEF Invokes
      <4>2. dial' # "over"
        BY <3>1 DEF Link
      <4>. QED
        BY <4>1, <4>2 DEF Account
    <3>. QED
      BY <3>2, <3>3
  <2>. QED
    BY <2>1, <2>2
<1>. QED
  BY <1>1, <1>3 DEF AccountInv, Waiting

LEMMA FailureAccount ==
    ASSUME Types, AccountInv, Link, NEW permanent \in BOOLEAN, Failure(permanent), ws' = 0,
           \A z \in Sockets : sock'[z].up => sock[z].up /\ sock'[z].sv = sock[z].sv
    PROVE  AccountInv' /\ Link'
<1>1. Link'
  BY DEF Link, Failure
<1>2. ASSUME NEW i \in Ids, call'[i] = "waiting" PROVE i \in queue' /\ dial' = "timer"
  <2>1. call' = Rejected(IF Terminal(permanent) THEN {} ELSE queue)
    BY DEF Failure
  <2>2. i \in (IF Terminal(permanent) THEN {} ELSE queue)
    BY <1>2, <2>1 DEF Rejected, Waiting
  <2>. QED
    BY <2>2 DEF Failure
<1>. QED
  BY <1>1, <1>2 DEF AccountInv, Account, Waiting

\* The handler of call j answers on the socket it came from.
LEMMA AnsweredAccount ==
    ASSUME Types, Link, AccountInv, NEW s \in Sockets, NEW j \in Ids, NEW k \in {"response", "error"},
           sock' = Replied([sock EXCEPT ![s].work = @ \ {j}], s, Frame(k, j, None)),
           UNCHANGED <<ws, dial, conn, queue, call>>
    PROVE  AccountInv' /\ Link'
<1>. DEFINE f == Frame(k, j, None)
<1>1. f \in ServerFrames /\ (k = "response" => f = Response(j)) /\ (k = "error" => f = Error(j))
  BY DEF Ids, Frame, Frames, ServerFrames, Response, Error
<1>g. sock' = Replied([sock EXCEPT ![s].work = @ \ {j}], s, f)
  OBVIOUS
<1>. HIDE DEF f
<1>2. \A z \in Sockets : SameEnds(z) /\ (z # s => SameLoad(z))
  BY <1>1, <1>g, AnsweredFields
<1>3. /\ sock'[s].c2s = sock[s].c2s /\ sock'[s].work = sock[s].work \ {j}
      /\ sock'[s].s2c = IF sock[s].up /\ sock[s].sv = "open" THEN sock[s].s2c \cup {f} ELSE sock[s].s2c
  BY <1>1, <1>g, AnsweredFields
<1>4. Link'
  BY <1>2, SameLink, LinkKept
<1>5. ASSUME NEW i \in Ids, NEW m \in Legs, sock'[s].up, On(i, m, s)
      PROVE  \E l \in Legs : On(i, l, s)'
  <2>1. sock[s].up /\ sock[s].sv = "open"
    BY <1>2, <1>5 DEF SameEnds, Link
  <2>2. sock'[s].s2c = sock[s].s2c \cup {f}
    BY <1>3, <2>1
  <2>3. CASE m = "at" /\ i = j
    BY <1>1, <2>2, <2>3 DEF On, Legs
  <2>4. CASE ~(m = "at" /\ i = j)
    <3>1. On(i, m, s)'
      BY <1>3, <1>5, <2>2, <2>4 DEF On
    <3>. QED
      BY <3>1
  <2>. QED
    BY <2>3, <2>4
<1>6. ASSUME NEW i \in Ids, NEW m \in Legs, NEW z \in Sockets, sock'[z].up, On(i, m, z)
      PROVE  \E l \in Legs : On(i, l, z)'
  <2>1. CASE z = s
    BY <1>5, <1>6, <2>1
  <2>2. CASE z # s
    BY <1>2, <1>6, <2>2, SameAccount
  <2>. QED
    BY <2>1, <2>2
<1>. QED
  BY <1>2, <1>4, <1>6, AccountKept DEF SameEnds

LEMMA AccountStep == Types /\ Shape /\ Link /\ AccountInv /\ [Next]_vars => AccountInv' /\ Link'
<1>. SUFFICES ASSUME Types, Shape, Link, AccountInv, [Next]_vars PROVE AccountInv' /\ Link'
  OBVIOUS
<1>. USE TransportAssumption
<1>q. queue \subseteq Ids /\ call \in [Ids -> {"new", "waiting", "settled"}] /\ ws \in {0} \cup Sockets
      /\ dials \in 0..(MaxFaults + 1)
  BY DEF Types
\* A step that leaves the calls, the connection and the sockets' loads alone.
<1>u. ASSUME UNCHANGED <<ws, dial, conn, queue, call>>,
             \A z \in Sockets : SameLoad(z) /\ (sock'[z].up => sock[z].up /\ sock'[z].sv = sock[z].sv)
      PROVE  AccountInv' /\ Link'
  BY <1>u, AccountSame, LinkKept
<1>v. sock' = sock => \A z \in Sockets : SameLoad(z) /\ (sock'[z].up => sock[z].up /\ sock'[z].sv = sock[z].sv)
  BY Unchanged, SameLink
\* A step that keeps every socket's ends and what the calls have under way.
<1>w. ASSUME UNCHANGED <<ws, dial, conn, queue, call>>, \A z \in Sockets : SameEnds(z),
             \A i \in Ids, k \in Legs, z \in Sockets : On(i, k, z) => On(i, k, z)'
      PROVE  AccountInv' /\ Link'
  <2>1. \A z \in Sockets : sock'[z].up => sock[z].up /\ sock'[z].sv = sock[z].sv
    BY <1>w, SameLink
  <2>. QED
    BY <1>w, <2>1, AccountKept, LinkKept
<1>1. ASSUME NEW i \in Calls, Invoke(i) PROVE AccountInv' /\ Link'
  BY <1>1, InvokesAccount DEF Invoke, Ids
<1>2. ASSUME NEW r \in FreshRegs, Invokes(r), UNCHANGED <<ws, dial, conn>> PROVE AccountInv' /\ Link'
  BY <1>2, InvokesAccount DEF FreshRegs, Ids
<1>3. CASE InitMachines
  BY <1>2, <1>3 DEF InitMachines, RegisterOnce
<1>4. CASE RegisterAgain
  BY <1>2, <1>4 DEF RegisterAgain, RegisterOnce
<1>5. CASE Subscribe
  BY <1>2, <1>5, <1>u, <1>v DEF Subscribe
<1>6. CASE Reconnect
  <2>1. sock' = sock /\ UNCHANGED <<ws, conn, queue, call>> /\ dial' = "token" /\ dial = "timer"
    BY <1>6 DEF Reconnect
  <2>2. AccountInv'
    BY <2>1, <1>v, SameAccount, AccountKept
  <2>. QED
    BY <2>1, <2>2 DEF Link
<1>7. CASE TokenFails
  <2>1. ws = 0
    BY <1>7 DEF TokenFails, Shape
  <2>. QED
    BY <1>7, <1>v, <2>1, FailureAccount DEF TokenFails
<1>8. CASE Dial
  <2>1. /\ UNCHANGED <<ws, conn, queue, call>> /\ dial' = "socket" /\ dial = "token"
        /\ dials + 1 \in Sockets
    BY <1>8 DEF Dial
  <2>2. ws = 0
    BY <2>1 DEF Shape
  <2>3. Link'
    BY <1>8, <2>1, DialFields DEF Link, SameEnds
  <2>4. \A i \in Ids : call'[i] = "waiting" => i \in queue'
    BY <2>1, <2>2 DEF AccountInv, Account, Waiting, Sockets
  <2>. QED
    BY <2>1, <2>3, <2>4 DEF AccountInv, Account, Waiting
<1>9. CASE Served
  <2>1. \A z \in Sockets : SameEnds(z) /\ \A i \in Ids, k \in Legs : On(i, k, z) => On(i, k, z)'
    BY <1>9, ServedFields DEF On
  <2>. QED
    BY <1>9, <2>1, <1>w DEF Served
<1>10. ASSUME NEW s \in Sockets, Open(s) PROVE AccountInv' /\ Link'
  <2>1. PICK m \in SUBSET Regs : OpenEffect(s, m)
    BY <1>10, OpenFields
  <2>2. sock[s].cl = "dialing" /\ ws' = s /\ dial' = "none" /\ s # 0
    BY <1>10 DEF Open, Sockets
  <2>3. ws = 0
    BY <2>2 DEF Shape
  <2>4. Link'
    BY <2>1, <2>2 DEF Link, OpenEffect
  <2>5. \A i \in Ids : call'[i] = IF i \in m THEN "waiting" ELSE call[i]
    BY <2>1, <1>q DEF OpenEffect, FreshRegs, Ids
  <2>6. ASSUME NEW i \in Ids, call'[i] = "waiting" PROVE Account(i)'
    <3>1. i \in queue \cup m
      BY <2>3, <2>5, <2>6 DEF AccountInv, Account, Waiting, Sockets
    <3>2. ~sock'[s].up \/ Invocation(i) \in sock'[s].c2s
      BY <2>1, <3>1 DEF OpenEffect
    <3>3. Invocation(i) \in sock'[s].c2s => On(i, "sent", s)'
      BY DEF On
    <3>. QED
      BY <2>2, <3>2, <3>3 DEF Account, Legs
  <2>. QED
    BY <2>4, <2>6 DEF AccountInv, Waiting
<1>11. ASSUME NEW s \in Sockets, Closing(s) PROVE AccountInv' /\ Link'
  <2>1. \A z \in Sockets : SameLoad(z) /\ (sock'[z].up => sock[z].up /\ sock'[z].sv = sock[z].sv)
    BY <1>11, ClosingFields DEF SameEnds
  <2>. QED
    BY <1>11, <2>1, <1>u DEF Closing, client
<1>12. ASSUME NEW s \in Sockets, Closed(s) PROVE AccountInv' /\ Link'
  <2>1. \A z \in Sockets : sock'[z].up => sock[z].up /\ sock'[z].sv = sock[z].sv
    BY <1>12, ClosedFields DEF SameEnds
  <2>2. (sock[s].refused /\ sock[s].cl # "dialing") \in BOOLEAN
    OBVIOUS
  <2>. QED
    BY <1>12, <2>1, <2>2, FailureAccount DEF Closed
<1>13. ASSUME NEW s \in Sockets, Receive(s) PROVE AccountInv' /\ Link'
  <2>1. PICK f \in sock[s].s2c :
           /\ sock' = [sock EXCEPT ![s].s2c = @ \ {f}]
           /\ f.kind = "reverse" => call' = call
           /\ f.kind # "reverse" => call' = [call EXCEPT ![f.id] = IF @ = "waiting" THEN "settled" ELSE @]
    BY <1>13 DEF Receive
  <2>2. UNCHANGED <<ws, dial, conn, queue>>
    BY <1>13 DEF Receive
  <2>3. \A i \in Ids : call'[i] = "waiting" => call[i] = "waiting"
    BY <2>1, <1>q
  <2>4. ASSUME NEW i \in Ids, NEW k \in Legs, NEW z \in Sockets, call'[i] = "waiting", On(i, k, z)
        PROVE  On(i, k, z)'
    <3>1. f = Response(i) \/ f = Error(i) => f.kind # "reverse" /\ f.id = i
      BY DEF Response, Error, Frame
    <3>2. f # Response(i) /\ f # Error(i)
      BY <2>1, <2>4, <3>1, <1>q
    <3>. QED
      BY <2>1, <2>4, <3>2, ReceiveFields DEF On
  <2>5. \A z \in Sockets : sock'[z].up => sock[z].up /\ sock'[z].sv = sock[z].sv
    BY <2>1, ReceiveFields, SameLink
  <2>6. Link'
    BY <2>2, <2>5, LinkKept
  <2>. QED
    BY <2>2, <2>3, <2>4, <2>5, <2>6, AccountKept
<1>14. ASSUME NEW s \in Sockets, Accept(s) PROVE AccountInv' /\ Link'
  <2>1. \A z \in Sockets : SameLoad(z) /\ (sock'[z].up => sock[z].up /\ sock'[z].sv = sock[z].sv)
    BY <1>14, AcceptFields DEF SameEnds
  <2>. QED
    BY <1>14, <2>1, <1>u DEF Accept, client
\* A step after which one socket is broken and the others are as before.
<1>x. ASSUME NEW s \in Sockets, UNCHANGED <<ws, dial, conn, queue, call>>, ~sock'[s].up,
             \A z \in Sockets : z # s => SameEnds(z) /\ SameLoad(z)
      PROVE  AccountInv' /\ Link'
  <2>1. \A z \in Sockets : sock'[z].up => sock[z].up /\ sock'[z].sv = sock[z].sv
    BY <1>x, SameLink
  <2>2. \A i \in Ids, k \in Legs, z \in Sockets :
           sock'[z].up /\ On(i, k, z) => \E l \in Legs : On(i, l, z)'
    BY <1>x, SameAccount
  <2>. QED
    BY <1>x, <2>1, <2>2, AccountKept, LinkKept
<1>15. ASSUME NEW s \in Sockets, NEW permanent \in BOOLEAN, Refuse(s, permanent)
       PROVE  AccountInv' /\ Link'
  BY <1>15, <1>x, RefuseFields DEF Refuse, client
<1>16. ASSUME NEW s \in Sockets, HandleInvoke(s) PROVE AccountInv' /\ Link'
  <2>1. PICK j \in Ids :
             /\ Invocation(j) \in sock[s].c2s
             /\ \A z \in Sockets : SameEnds(z) /\ (z # s => SameLoad(z))
             /\ sock'[s].c2s = sock[s].c2s \ {Invocation(j)} /\ sock'[s].s2c = sock[s].s2c
             /\ sock'[s].work = sock[s].work \cup {j}
    BY <1>16, HandleInvokeFields
  <2>2. UNCHANGED <<ws, dial, conn, queue, call>>
    BY <1>16 DEF HandleInvoke, client
  <2>3. ASSUME NEW i \in Ids, NEW k \in Legs, On(i, k, s) PROVE \E l \in Legs : On(i, l, s)'
    <3>1. CASE i = j
      BY <2>1, <3>1 DEF On, Legs
    <3>2. CASE i # j
      <4>1. Invocation(i) # Invocation(j)
        BY <3>2, Distinct
      <4>2. On(i, k, s)'
        BY <2>1, <2>3, <4>1 DEF On
      <4>. QED
        BY <4>2
    <3>. QED
      BY <3>1, <3>2
  <2>4. \A i \in Ids, k \in Legs, z \in Sockets : On(i, k, z) => \E l \in Legs : On(i, l, z)'
    BY <2>1, <2>3, SameAccount
  <2>5. \A z \in Sockets : sock'[z].up => sock[z].up /\ sock'[z].sv = sock[z].sv
    BY <2>1, SameLink
  <2>. QED
    BY <2>2, <2>4, <2>5, AccountKept, LinkKept
<1>17. ASSUME NEW s \in Sockets, HandleAnswer(s) PROVE AccountInv' /\ Link'
  <2>1. \A z \in Sockets : SameEnds(z) /\ \A i \in Ids, k \in Legs : On(i, k, z) => On(i, k, z)'
    BY <1>17, HandleAnswerFields DEF On
  <2>. QED
    BY <1>17, <2>1, <1>w DEF HandleAnswer, client
<1>18. ASSUME NEW s \in Sockets, Finish(s) PROVE AccountInv' /\ Link'
  <2>1. PICK j \in Calls :
            sock' = Replied([sock EXCEPT ![s].work = @ \ {j}], s, Frame("response", j, None))
    BY <1>18 DEF Finish, Response
  <2>. QED
    BY <1>18, <2>1, AnsweredAccount DEF Finish, client, Ids
<1>19. ASSUME NEW s \in Sockets, NEW k \in {"response", "error"}, Registered(s, k), UNCHANGED client
       PROVE  AccountInv' /\ Link'
  <2>1. PICK r \in Regs :
            sock' = Replied([sock EXCEPT ![s].work = @ \ {r}], s, Frame(k, r, None))
    BY <1>19 DEF Registered
  <2>. QED
    BY <1>19, <2>1, AnsweredAccount DEF client, Ids
<1>20. ASSUME NEW s \in Sockets, Bind(s) PROVE AccountInv' /\ Link'
  BY <1>19, <1>20 DEF Bind
<1>21. ASSUME NEW s \in Sockets, BindFails(s) PROVE AccountInv' /\ Link'
  BY <1>19, <1>21 DEF BindFails
<1>22. ASSUME NEW s \in Sockets, ServerClosed(s) PROVE AccountInv' /\ Link'
  <2>1. \A z \in Sockets : z # s => SameEnds(z) /\ SameLoad(z)
    BY <1>22, ServerClosedFields
  <2>2. ~sock'[s].up
    BY <1>22, ServerClosedFields DEF ServerClosed
  <2>. QED
    BY <1>22, <2>1, <2>2, <1>x DEF ServerClosed, client
<1>23. ASSUME NEW s \in Sockets, Cut(s) PROVE AccountInv' /\ Link'
  BY <1>23, <1>x, CutFields DEF Cut, client
<1>24. ASSUME NEW c \in Reverses, Dispatch(c) PROVE AccountInv' /\ Link'
  <2>1. \A z \in Sockets : SameEnds(z) /\ \A i \in Ids, k \in Legs : On(i, k, z) => On(i, k, z)'
    BY <1>24, DispatchFields DEF On
  <2>. QED
    BY <1>24, <2>1, <1>w DEF Dispatch, client
<1>25. ASSUME NEW c \in Reverses, TimesOut(c) PROVE AccountInv' /\ Link'
  BY <1>25, <1>u, <1>v DEF TimesOut, client
<1>26. CASE Restart
  <2>1. UNCHANGED <<ws, dial, conn, queue, call, dials>>
    BY <1>26 DEF Restart, client
  <2>2. \A z \in Sockets : sock[z].cl # "none" => ~sock'[z].up
    BY <1>26, RestartFields
  <2>3. \A z \in Sockets : sock'[z].up => SameEnds(z) /\ SameLoad(z)
    BY <1>26, RestartFields
  <2>4. \A z \in Sockets : sock'[z].up => sock[z].up /\ sock'[z].sv = sock[z].sv
    BY <2>3, SameLink
  <2>5. \A i \in Ids, k \in Legs, z \in Sockets :
           sock'[z].up /\ On(i, k, z) => \E l \in Legs : On(i, l, z)'
    BY <2>3, SameAccount
  <2>. QED
    BY <2>1, <2>4, <2>5, AccountKept, LinkKept
<1>27. CASE UNCHANGED vars
  BY <1>27, <1>u, <1>v DEF vars, client
<1>. QED
  BY <1>1, <1>3, <1>4, <1>5, <1>6, <1>7, <1>8, <1>9, <1>10, <1>11, <1>12, <1>13, <1>14, <1>15,
     <1>16, <1>17, <1>18, <1>20, <1>21, <1>22, <1>23, <1>24, <1>25, <1>26, <1>27
     DEF Next, SocketStep

\* Nothing may remain unresolved, whatever becomes of the connection.
THEOREM CallsAreAccounted == Spec => []Accounted
<1>1. Init => Types /\ Shape /\ Link /\ AccountInv
  <2>1. Init => \A s \in Sockets : sock[s].cl = "none" /\ ~sock[s].up /\ s > dials
    BY DEF Init, NoSocket, Sockets
  <2>2. Init => AccountInv /\ Link
    BY <2>1 DEF Init, AccountInv, Waiting, Link
  <2>. QED
    BY <2>1, <2>2, InitTypes DEF Init, Shape
<1>2. Types /\ Shape /\ Link /\ AccountInv /\ [Next]_vars => (Types /\ Shape /\ Link /\ AccountInv)'
  BY TypesStep, ShapeStep, AccountStep
<1>3. Types /\ Shape /\ Link /\ AccountInv => Accounted
  BY AccountIsAccounted
<1>. QED
  BY <1>1, <1>2, <1>3, PTL DEF Spec

---------------------------------------------------------------------------
(* The session follows the newest socket *)

\* Sockets are accepted as dialled: behind an accepted one none is resolved
\* any more, and the session is on the newest once that is accepted.
Follow ==
    /\ \A s \in routed : s = session
    /\ \A s \in Sockets : s > dials => sock[s].sv = "none" /\ ~sock[s].resolving
    /\ \A s \in Sockets : sock[s].sv = "open" /\ ~sock[s].resolving =>
          /\ \A z \in Sockets : z < s => ~sock[z].resolving
          /\ s = dials => session = s /\ routed = {s}

LEMMA FollowKept ==
    ASSUME Follow, UNCHANGED <<session, routed, dials>>,
           \A z \in Sockets :
              \/ sock'[z].sv = sock[z].sv /\ sock'[z].resolving = sock[z].resolving
              \/ sock[z].sv # "none" /\ sock'[z].sv = "closed" /\ ~sock'[z].resolving
    PROVE  Follow'
  BY DEF Follow

LEMMA FollowAnswered ==
    ASSUME Types, Follow, UNCHANGED <<session, routed, dials>>,
           NEW s \in Sockets, NEW i \in Ids, NEW f \in ServerFrames,
           sock' = Replied([sock EXCEPT ![s].work = @ \ {i}], s, f)
    PROVE  Follow'
<1>1. \A z \in Sockets : SameEnds(z)
  BY AnsweredFields
<1>. QED
  BY <1>1, FollowKept DEF SameEnds

LEMMA FollowStep ==
    ASSUME InOrder PROVE Types /\ Shape /\ Follow /\ [Next]_vars => Follow'
<1>. SUFFICES ASSUME Types, Shape, Follow, [Next]_vars PROVE Follow'
  OBVIOUS
<1>. USE TransportAssumption
<1>q. dials \in 0..(MaxFaults + 1)
  BY DEF Types
<1>u. ASSUME UNCHANGED <<session, routed, dials>>, \A z \in Sockets : SameEnds(z) PROVE Follow'
  BY <1>u, FollowKept DEF SameEnds
<1>1. ASSUME NEW i \in Calls, Invoke(i) PROVE Follow'
  BY <1>1, <1>u, InvokesFields DEF Invoke, Ids, server, spent
<1>2. ASSUME NEW r \in FreshRegs, Invokes(r), UNCHANGED <<session, routed, dials>> PROVE Follow'
  BY <1>2, <1>u, InvokesFields DEF FreshRegs, Ids
<1>3. CASE InitMachines
  BY <1>2, <1>3 DEF InitMachines, RegisterOnce, server, spent
<1>4. CASE RegisterAgain
  BY <1>2, <1>4 DEF RegisterAgain, RegisterOnce, server, spent
<1>5. CASE Subscribe
  BY <1>2, <1>5, <1>u, Unchanged DEF Subscribe, server, spent
<1>6. CASE Reconnect
  BY <1>6, <1>u, Unchanged DEF Reconnect, server, spent
<1>7. CASE TokenFails
  BY <1>7, <1>u, Unchanged DEF TokenFails, server
<1>8. CASE Dial
  <2>1. /\ dials' = dials + 1 /\ UNCHANGED <<session, routed>>
        /\ \A z \in Sockets : /\ z # dials + 1 => sock'[z].sv = sock[z].sv /\ sock'[z].resolving = sock[z].resolving
                              /\ z = dials + 1 => sock'[z].sv = "open" /\ sock'[z].resolving
    BY <1>8, DialFields DEF Dial, server, SameEnds
  <2>2. \A s \in Sockets : s > dials + 1 => s > dials
    BY <1>q DEF Sockets
  <2>3. ASSUME NEW s \in Sockets, sock'[s].sv = "open", ~sock'[s].resolving
        PROVE  (\A z \in Sockets : z < s => ~sock'[z].resolving) /\ s # dials'
    <3>1. s # dials + 1 /\ sock[s].sv = "open" /\ ~sock[s].resolving
      BY <2>1, <2>3
    <3>2. ~(s > dials)
      BY <3>1 DEF Follow
    <3>3. \A z \in Sockets : z < s => z # dials + 1
      BY <3>2, <1>q DEF Sockets
    <3>. QED
      BY <2>1, <3>1, <3>3 DEF Follow
  <2>4. \A s \in Sockets : s > dials' => sock'[s].sv = "none" /\ ~sock'[s].resolving
    BY <2>1, <2>2, <1>q DEF Follow, Sockets
  <2>. QED
    BY <2>1, <2>3, <2>4 DEF Follow
<1>9. CASE Served
  BY <1>9, <1>u, ServedFields DEF Served, server, spent
<1>10. ASSUME NEW s \in Sockets, Open(s) PROVE Follow'
  <2>1. PICK m \in SUBSET Regs : OpenEffect(s, m)
    BY <1>10, OpenFields
  <2>. QED
    BY <1>10, <2>1, FollowKept DEF Open, OpenEffect, server, spent
<1>11. ASSUME NEW s \in Sockets, Closing(s) PROVE Follow'
  BY <1>11, ClosingFields, FollowKept DEF Closing, server, spent, SameEnds
<1>12. ASSUME NEW s \in Sockets, Closed(s) PROVE Follow'
  <2>1. \A z \in Sockets : sock'[z].sv = sock[z].sv /\ sock'[z].resolving = sock[z].resolving
    BY <1>12, ClosedFields DEF SameEnds
  <2>2. UNCHANGED <<session, routed, dials>>
    BY <1>12 DEF Closed, server, spent
  <2>. QED
    BY <2>1, <2>2, FollowKept
<1>13. ASSUME NEW s \in Sockets, Receive(s) PROVE Follow'
  <2>1. PICK f : sock' = [sock EXCEPT ![s].s2c = @ \ {f}]
    BY <1>13 DEF Receive
  <2>. QED
    BY <1>13, <2>1, <1>u, ReceiveFields DEF Receive, server, spent
<1>14. ASSUME NEW s \in Sockets, Accept(s) PROVE Follow'
  <2>1. /\ sock[s].resolving /\ \A z \in Sockets : z < s => ~sock[z].resolving
        /\ session' = s /\ routed' = (routed \ {session}) \cup {s} /\ dials' = dials
    BY <1>14 DEF Accept, spent
  <2>2. routed' = {s}
    BY <2>1 DEF Follow
  <2>3. \A z \in Sockets : /\ sock'[z].sv = sock[z].sv
                           /\ sock'[z].resolving => sock[z].resolving
                           /\ z # s => sock'[z].resolving = sock[z].resolving
    BY <1>14, AcceptFields DEF SameEnds
  <2>4. s <= dials /\ s \in Int
    BY <2>1, <1>q DEF Follow, Sockets
  <2>5. ASSUME NEW y \in Sockets, sock'[y].sv = "open", ~sock'[y].resolving
        PROVE  /\ \A z \in Sockets : z < y => ~sock'[z].resolving
               /\ y = dials' => session' = y /\ routed' = {y}
    <3>1. CASE y = s
      BY <2>1, <2>2, <2>3, <3>1
    <3>2. CASE y # s
      <4>1. sock[y].sv = "open" /\ ~sock[y].resolving
        BY <2>3, <2>5, <3>2
      <4>2. \A z \in Sockets : z < y => ~sock[z].resolving
        BY <4>1 DEF Follow
      <4>3. ~(s < y)
        BY <2>1, <4>2
      <4>4. y # dials
        BY <2>4, <3>2, <4>3, <1>q
      <4>. QED
        BY <2>1, <2>3, <4>2, <4>4
    <3>. QED
      BY <3>1, <3>2
  <2>. QED
    BY <2>1, <2>2, <2>3, <2>5 DEF Follow
<1>15. ASSUME NEW s \in Sockets, NEW permanent \in BOOLEAN, Refuse(s, permanent) PROVE Follow'
  <2>1. \A z \in Sockets :
          \/ sock'[z].sv = sock[z].sv /\ sock'[z].resolving = sock[z].resolving
          \/ sock[z].sv # "none" /\ sock'[z].sv = "closed" /\ ~sock'[z].resolving
    <3>1. \A z \in Sockets : z # s => SameEnds(z)
      BY <1>15, RefuseFields
    <3>2. sock[s].sv # "none" /\ sock'[s].sv = "closed" /\ ~sock'[s].resolving
      BY <1>15, RefuseFields DEF Refuse
    <3>. QED
      BY <3>1, <3>2 DEF SameEnds
  <2>2. UNCHANGED <<session, routed, dials>>
    BY <1>15 DEF Refuse, server
  <2>. QED
    BY <2>1, <2>2, FollowKept
<1>16. ASSUME NEW s \in Sockets, HandleInvoke(s) PROVE Follow'
  BY <1>16, <1>u, HandleInvokeFields DEF HandleInvoke, server, spent
<1>17. ASSUME NEW s \in Sockets, HandleAnswer(s) PROVE Follow'
  BY <1>17, <1>u, HandleAnswerFields DEF HandleAnswer, spent
<1>18. ASSUME NEW s \in Sockets, NEW i \in Ids, NEW f \in ServerFrames,
              sock' = Replied([sock EXCEPT ![s].work = @ \ {i}], s, f), UNCHANGED <<session, routed, dials>>
       PROVE  Follow'
  BY <1>18, FollowAnswered
<1>19. ASSUME NEW s \in Sockets, Finish(s) PROVE Follow'
  <2>1. PICK i \in Calls : sock' = Replied([sock EXCEPT ![s].work = @ \ {i}], s, Response(i))
    BY <1>19 DEF Finish
  <2>. QED
    BY <1>18, <1>19, <2>1, FrameTypes DEF Finish, Ids, server, spent
<1>20. ASSUME NEW s \in Sockets, NEW k \in {"response", "error"}, Registered(s, k),
              UNCHANGED <<session, routed, dials>>
       PROVE  Follow'
  <2>1. PICK r \in Regs : sock' = Replied([sock EXCEPT ![s].work = @ \ {r}], s, Frame(k, r, None))
    BY <1>20 DEF Registered
  <2>2. r \in Ids /\ Frame(k, r, None) \in ServerFrames
    BY DEF Ids, Frame, Frames, ServerFrames
  <2>. QED
    BY <1>18, <1>20, <2>1, <2>2
<1>21. ASSUME NEW s \in Sockets, Bind(s) PROVE Follow'
  BY <1>20, <1>21 DEF Bind, spent
<1>22. ASSUME NEW s \in Sockets, BindFails(s) PROVE Follow'
  BY <1>20, <1>22 DEF BindFails, server
<1>23. ASSUME NEW s \in Sockets, ServerClosed(s) PROVE Follow'
  <2>1. /\ sock[s].sv = "open" /\ ~sock[s].resolving /\ dials' = dials
        /\ session' = (IF s \in routed /\ session = s THEN 0 ELSE session)
        /\ routed' = routed \ {s}
    BY <1>23 DEF ServerClosed, spent
  <2>2. \A z \in Sockets : /\ sock'[z].resolving = sock[z].resolving
                           /\ z # s => sock'[z].sv = sock[z].sv
                           /\ z = s => sock'[z].sv = "closed"
    BY <1>23, ServerClosedFields DEF SameEnds
  <2>. QED
    BY <2>1, <2>2 DEF Follow
<1>24. ASSUME NEW s \in Sockets, Cut(s) PROVE Follow'
  BY <1>24, CutFields, FollowKept DEF Cut, server, SameEnds
<1>25. ASSUME NEW c \in Reverses, Dispatch(c) PROVE Follow'
  BY <1>25, <1>u, DispatchFields DEF Dispatch, spent
<1>26. ASSUME NEW c \in Reverses, TimesOut(c) PROVE Follow'
  BY <1>26, <1>u, Unchanged DEF TimesOut
<1>27. CASE Restart
  <2>1. session' = 0 /\ routed' = {} /\ dials' = dials
    BY <1>27 DEF Restart
  <2>2. \A z \in Sockets : /\ sock[z].cl = "none" => sock'[z].sv = sock[z].sv /\ sock'[z].resolving = sock[z].resolving
                           /\ sock[z].cl # "none" => sock'[z].sv = "closed" /\ ~sock'[z].resolving
    BY <1>27, RestartFields DEF SameEnds
  <2>3. \A z \in Sockets : z > dials => sock'[z].sv = "none" /\ ~sock'[z].resolving
    BY <2>2 DEF Follow, Shape
  <2>4. \A z \in Sockets : sock'[z].sv # "open"
    BY <2>2, <2>3 DEF Shape
  <2>. QED
    BY <2>1, <2>3, <2>4 DEF Follow
<1>28. CASE UNCHANGED vars
  BY <1>28, <1>u, Unchanged DEF vars, server, spent
<1>. QED
  BY <1>1, <1>3, <1>4, <1>5, <1>6, <1>7, <1>8, <1>9, <1>10, <1>11, <1>12, <1>13, <1>14, <1>15,
     <1>16, <1>17, <1>19, <1>21, <1>22, <1>23, <1>24, <1>25, <1>26, <1>27, <1>28
     DEF Next, SocketStep

\* What the server sends to the session reaches the client, once, when sockets
\* are accepted as dialled.
THEOREM SessionFollowsNewest == ASSUME InOrder PROVE Spec => []SessionFollows
<1>1. Init => Types /\ Shape /\ Follow
  <2>1. Init => \A s \in Sockets : sock[s].cl = "none" /\ sock[s].sv = "none" /\ ~sock[s].resolving /\ s > dials
    BY DEF Init, NoSocket, Sockets
  <2>2. Init => Shape
    BY <2>1 DEF Init, Shape
  <2>3. Init => Follow
    BY <2>1 DEF Init, Follow
  <2>. QED
    BY <2>2, <2>3, InitTypes
<1>2. Types /\ Shape /\ Follow /\ [Next]_vars => (Types /\ Shape /\ Follow)'
  BY TypesStep, ShapeStep, FollowStep
<1>3. Types /\ Shape /\ Follow => SessionFollows
  BY DEF Types, Shape, Follow, SessionFollows
<1>. QED
  BY <1>1, <1>2, <1>3, PTL DEF Spec

---------------------------------------------------------------------------
(* The machine is reachable *)

\* A registration on socket z is under way, or its failure is.
UnderWay(z) == Registers(z) \/ \E r \in Regs : On(r, "error", z)

\* Nothing is under way on a socket that has not opened.
Untouched == \A z \in Sockets : sock[z].cl \in {"none", "dialing"} =>
                \A i \in Ids, k \in Legs : ~On(i, k, z)

\* What is under way on the client's socket, the client awaits.
Awaited == \A z \in Sockets, i \in Ids, k \in Legs : z = ws /\ On(i, k, z) => Waiting(i)

\* Behind the bound socket no registration is left that could bind an older one.
Latest == \A b \in Sockets : b = bound =>
             /\ ~(b > dials)
             /\ \A z \in Sockets : z < b => ~Registers(z)

Reaches(z) == bound = z \/ UnderWay(z) \/ reg.timer

\* The client's open socket is bound, or a registration will see to it.
Reach == \A z \in Sockets :
            z = ws /\ sock[z].cl = "open" /\ sock[z].up /\ reg.boot = "on" => Reaches(z)

ReachInv == Untouched /\ Awaited /\ Latest /\ Reach

LEMMA RegistersOn ==
    /\ \A z : Registers(z) <=> \E r \in Regs : On(r, "at", z) \/ On(r, "sent", z)
    /\ \A z : Registers(z)' <=> \E r \in Regs : On(r, "at", z)' \/ On(r, "sent", z)'
  BY DEF Registers, On

LEMMA SameUnderWay == ASSUME NEW z, SameLoad(z)
                      PROVE  (Registers(z)' <=> Registers(z)) /\ (UnderWay(z)' <=> UnderWay(z))
  BY DEF SameLoad, Registers, UnderWay, On

LEMMA ReachIsReachable == Types /\ Awaited /\ Reach => MachineReachable
<1>. SUFFICES ASSUME Types, Awaited, Reach, IsOpen(ws), sock[ws].up, reg.boot = "on"
              PROVE  \/ bound = ws \/ Registers(ws) \/ reg.timer
                     \/ \E r \in Regs : Waiting(r) /\ Error(r) \in sock[ws].s2c
  BY DEF MachineReachable
<1>1. ws \in Sockets /\ sock[ws].cl = "open"
  BY DEF IsOpen, Types
<1>2. PICK z \in Sockets : z = ws
  BY <1>1
<1>3. Reaches(z)
  BY <1>1, <1>2 DEF Reach
<1>4. ASSUME NEW r \in Regs, On(r, "error", z) PROVE Waiting(r) /\ Error(r) \in sock[z].s2c
  BY <1>2, <1>4 DEF Awaited, Legs, Ids, On
<1>. QED
  BY <1>2, <1>3, <1>4 DEF Reaches, UnderWay

\* Nothing new is under way, and no call is settled whose way is not over.
LEMMA TrailKept ==
    ASSUME Untouched, Awaited, ws' = ws,
           \A z \in Sockets : sock'[z].cl \in {"none", "dialing"} => sock[z].cl \in {"none", "dialing"},
           \A i \in Ids, k \in Legs, z \in Sockets : On(i, k, z)' => \E l \in Legs : On(i, l, z),
           call' = call
    PROVE  Untouched' /\ Awaited'
<1>1. Untouched'
  BY DEF Untouched
<1>2. Awaited'
  <2>. SUFFICES ASSUME NEW z \in Sockets, NEW i \in Ids, NEW k \in Legs, z = ws, On(i, k, z)'
                PROVE  Waiting(i)'
    BY DEF Awaited
  <2>1. \E l \in Legs : On(i, l, z)
    OBVIOUS
  <2>. QED
    BY <2>1 DEF Awaited, Waiting
<1>. QED
  BY <1>1, <1>2

\* The bound socket stays bound or breaks, and no registration is lost on a
\* socket that still works.
LEMMA ReachKept ==
    ASSUME Types, Latest, Reach, UNCHANGED <<ws, reg, dials>>,
           bound' # 0 => bound' = bound,
           \A z \in Sockets : z = bound /\ sock'[z].up => bound' = bound,
           \A z \in Sockets : sock'[z].cl = "open" => sock[z].cl = "open",
           \A z \in Sockets : sock'[z].up => sock[z].up,
           \A z \in Sockets : Registers(z)' => Registers(z),
           \A z \in Sockets : sock'[z].up /\ UnderWay(z) => UnderWay(z)'
    PROVE  Latest' /\ Reach'
<1>1. Latest'
  <2>. SUFFICES ASSUME NEW b \in Sockets, b = bound'
                PROVE  ~(b > dials) /\ \A z \in Sockets : z < b => ~Registers(z)'
    BY DEF Latest
  <2>1. b = bound
    BY DEF Sockets
  <2>. QED
    BY <2>1 DEF Latest
<1>2. Reach'
  <2>. SUFFICES ASSUME NEW z \in Sockets, z = ws, sock'[z].cl = "open", sock'[z].up, reg.boot = "on"
                PROVE  Reaches(z)'
    BY DEF Reach
  <2>1. Reaches(z)
    BY DEF Reach
  <2>. QED
    BY <2>1 DEF Reaches
<1>. QED
  BY <1>1, <1>2

\* Nothing but what the server and the client's handlers hold changes.
LEMMA ReachSame ==
    ASSUME Types, ReachInv, UNCHANGED <<ws, reg, dials, call, bound>>,
           \A z \in Sockets : /\ sock'[z].cl = sock[z].cl
                              /\ sock'[z].up => sock[z].up,
           \A i \in Ids, k \in Legs, z \in Sockets : On(i, k, z)' => On(i, k, z),
           \A i \in Ids, k \in Legs, z \in Sockets : sock'[z].up /\ On(i, k, z) => On(i, k, z)'
    PROVE  ReachInv'
<1>1. \A r \in Regs : r \in Ids
  BY DEF Ids
<1>l. "sent" \in Legs /\ "at" \in Legs /\ "error" \in Legs
  BY DEF Legs
<1>2. \A z \in Sockets : Registers(z)' => Registers(z)
  BY <1>1, <1>l, RegistersOn
<1>3. \A z \in Sockets : sock'[z].up /\ UnderWay(z) => UnderWay(z)'
  BY <1>1, <1>l, RegistersOn DEF UnderWay
<1>4. Untouched' /\ Awaited'
  BY TrailKept DEF ReachInv
<1>5. Latest' /\ Reach'
  BY <1>2, <1>3, ReachKept DEF ReachInv
<1>. QED
  BY <1>4, <1>5 DEF ReachInv

\* A call is sent on the client's socket, the newest, or queued.
LEMMA InvokesReach ==
    ASSUME Types, Shape, ReachInv, NEW j \in Ids, Invokes(j), UNCHANGED <<ws, dials, bound>>
    PROVE  /\ Untouched' /\ Awaited' /\ Latest'
           /\ \A z \in Sockets : /\ sock'[z].cl = sock[z].cl /\ sock'[z].up = sock[z].up
                                 /\ UnderWay(z) => UnderWay(z)'
                                 /\ j \in Regs /\ z = ws /\ sock[z].cl = "open" /\ sock[z].up => UnderWay(z)'
<1>f. \A z \in Sockets :
         /\ SameEnds(z) /\ sock'[z].s2c = sock[z].s2c /\ sock'[z].work = sock[z].work
         /\ sock'[z].c2s = IF conn # "closed" /\ IsOpen(ws) /\ z = ws /\ sock[z].up
                           THEN sock[z].c2s \cup {Invocation(j)} ELSE sock[z].c2s
  BY InvokesFields
<1>c. /\ call \in [Ids -> {"new", "waiting", "settled"}] /\ ws \in {0} \cup Sockets
      /\ dials \in 0..(MaxFaults + 1)
  BY DEF Types
<1>e. \A z \in Sockets : sock'[z].cl = sock[z].cl /\ sock'[z].up = sock[z].up
  BY <1>f DEF SameEnds
<1>n. \A i, k, z : z \in Sockets /\ On(i, k, z)' =>
         \/ On(i, k, z)
         \/ i = j /\ k = "sent" /\ z = ws /\ conn # "closed" /\ sock[z].cl = "open"
  <2>. SUFFICES ASSUME NEW i, NEW k, NEW z, z \in Sockets, On(i, k, z)', ~On(i, k, z)
                PROVE  i = j /\ k = "sent" /\ z = ws /\ conn # "closed" /\ sock[z].cl = "open"
    OBVIOUS
  <2>1. k = "sent" /\ Invocation(i) \in sock'[z].c2s /\ Invocation(i) \notin sock[z].c2s
    BY <1>f DEF On
  <2>2. conn # "closed" /\ IsOpen(ws) /\ z = ws /\ Invocation(i) = Invocation(j)
    BY <1>f, <2>1
  <2>3. i = j
    BY <2>2, Distinct
  <2>. QED
    BY <2>1, <2>2, <2>3 DEF IsOpen
<1>k. \A i, k, z : z \in Sockets /\ On(i, k, z) => On(i, k, z)'
  BY <1>f DEF On
<1>1. Untouched'
  <2>. SUFFICES ASSUME NEW z \in Sockets, sock'[z].cl \in {"none", "dialing"}, NEW i \in Ids, NEW k \in Legs,
                       On(i, k, z)'
                PROVE  FALSE
    BY DEF Untouched
  <2>1. sock[z].cl \in {"none", "dialing"} /\ sock[z].cl # "open"
    BY <1>e
  <2>2. On(i, k, z)
    BY <1>n, <2>1
  <2>. QED
    BY <2>1, <2>2 DEF ReachInv, Untouched
<1>2. Awaited'
  <2>. SUFFICES ASSUME NEW z \in Sockets, NEW i \in Ids, NEW k \in Legs, z = ws, On(i, k, z)'
                PROVE  call'[i] = "waiting"
    BY DEF Awaited, Waiting
  <2>1. conn # "closed"
    BY <1>c DEF Shape, Sockets
  <2>2. CASE i = j
    BY <1>c, <2>1, <2>2 DEF Invokes
  <2>3. CASE i # j
    <3>1. On(i, k, z)
      BY <1>n, <2>3
    <3>2. call[i] = "waiting"
      BY <3>1 DEF ReachInv, Awaited, Waiting
    <3>. QED
      BY <1>c, <2>3, <3>2 DEF Invokes
  <2>. QED
    BY <2>2, <2>3
<1>3. Latest'
  <2>. SUFFICES ASSUME NEW b \in Sockets, b = bound, NEW z \in Sockets, z < b, Registers(z)'
                PROVE  FALSE
    BY DEF Latest, ReachInv
  <2>1. ~(b > dials) /\ ~Registers(z)
    BY DEF ReachInv, Latest
  <2>2. PICK r \in Regs, k \in {"at", "sent"} : On(r, k, z)'
    BY RegistersOn
  <2>3. z = ws
    BY <1>n, <2>1, <2>2, RegistersOn
  <2>4. z = dials
    BY <2>3 DEF Shape, Sockets
  <2>. QED
    BY <1>c, <2>1, <2>4 DEF Sockets
<1>4. ASSUME NEW z \in Sockets, UnderWay(z) PROVE UnderWay(z)'
  <2>1. CASE Registers(z)
    <3>1. PICK r \in Regs, k \in {"at", "sent"} : On(r, k, z)
      BY <2>1, RegistersOn
    <3>2. On(r, k, z)'
      BY <1>k, <3>1
    <3>. QED
      BY <3>2, RegistersOn DEF UnderWay
  <2>2. CASE \E r \in Regs : On(r, "error", z)
    BY <1>k, <2>2 DEF UnderWay
  <2>. QED
    BY <1>4, <2>1, <2>2 DEF UnderWay
<1>5. ASSUME NEW z \in Sockets, j \in Regs, z = ws, sock[z].cl = "open", sock[z].up PROVE UnderWay(z)'
  <2>1. conn # "closed" /\ IsOpen(ws)
    BY <1>c, <1>5 DEF Shape, Sockets, IsOpen
  <2>2. Invocation(j) \in sock'[z].c2s
    BY <1>f, <1>5, <2>1
  <2>3. On(j, "sent", z)'
    BY <2>2 DEF On
  <2>. QED
    BY <1>5, <2>3, RegistersOn DEF UnderWay
<1>. QED
  BY <1>1, <1>2, <1>3, <1>4, <1>5, <1>e

\* The handler of call j answers on the socket it came from.
LEMMA AnsweredTrail ==
    ASSUME Types, Link, ReachInv, NEW s \in Sockets, NEW j \in Ids, j \in sock[s].work,
           NEW k \in {"response", "error"},
           sock' = Replied([sock EXCEPT ![s].work = @ \ {j}], s, Frame(k, j, None)),
           UNCHANGED <<ws, call>>
    PROVE  /\ Untouched' /\ Awaited'
           /\ \A z \in Sockets : /\ SameEnds(z) /\ (z # s => SameLoad(z))
                                 /\ Registers(z)' => Registers(z)
           /\ k = "error" /\ sock[s].up => On(j, "error", s)'
           /\ \A i \in Ids, m \in Legs : On(i, m, s) /\ ~(i = j /\ m = "at") => On(i, m, s)'
<1>. DEFINE f == Frame(k, j, None)
<1>1. f \in ServerFrames /\ (k = "response" => f = Response(j)) /\ (k = "error" => f = Error(j))
  BY DEF Ids, Frame, Frames, ServerFrames, Response, Error
<1>g. sock' = Replied([sock EXCEPT ![s].work = @ \ {j}], s, f)
  OBVIOUS
<1>. HIDE DEF f
<1>2. \A z \in Sockets : SameEnds(z) /\ (z # s => SameLoad(z))
  BY <1>1, <1>g, AnsweredFields
<1>3. /\ sock'[s].c2s = sock[s].c2s /\ sock'[s].work = sock[s].work \ {j}
      /\ sock'[s].s2c = IF sock[s].up /\ sock[s].sv = "open" THEN sock[s].s2c \cup {f} ELSE sock[s].s2c
  BY <1>1, <1>g, AnsweredFields
<1>4. ASSUME NEW i \in Ids, NEW m \in Legs, NEW z \in Sockets, On(i, m, z)'
      PROVE  \E l \in Legs : On(i, l, z)
  <2>1. CASE z # s
    BY <1>2, <1>4, <2>1, SameOn
  <2>2. CASE z = s /\ i # j
    <3>1. f \in {Response(j), Error(j)}
      BY <1>1
    <3>2. Response(i) # f /\ Error(i) # f
      BY <2>2, <3>1, Distinct
    <3>3. sock'[s].s2c \subseteq sock[s].s2c \cup {f}
      BY <1>3
    <3>4. On(i, m, s)
      BY <1>3, <1>4, <2>2, <3>2, <3>3 DEF On
    <3>. QED
      BY <2>2, <3>4
  <2>3. CASE z = s /\ i = j
    <3>1. On(i, "at", z) /\ "at" \in Legs
      BY <2>3 DEF On, Legs
    <3>. QED
      BY <3>1
  <2>. QED
    BY <2>1, <2>2, <2>3
<1>5. Untouched' /\ Awaited'
  BY <1>2, <1>4, TrailKept DEF ReachInv, SameEnds
<1>6. ASSUME NEW z \in Sockets, Registers(z)' PROVE Registers(z)
  <2>1. CASE z # s
    BY <1>2, <1>6, <2>1, SameUnderWay
  <2>2. CASE z = s
    BY <1>3, <1>6, <2>2 DEF Registers
  <2>. QED
    BY <2>1, <2>2
<1>7. ASSUME k = "error", sock[s].up PROVE On(j, "error", s)'
  BY <1>1, <1>3, <1>7 DEF On, Link
<1>8. ASSUME NEW i \in Ids, NEW m \in Legs, On(i, m, s), ~(i = j /\ m = "at") PROVE On(i, m, s)'
  <2>1. sock[s].s2c \subseteq sock'[s].s2c
    BY <1>3
  <2>. QED
    BY <1>3, <1>8, <2>1 DEF On
<1>. QED
  BY <1>2, <1>5, <1>6, <1>7, <1>8

\* The answer to a call leaves what there is of registrations on a working
\* socket, but for the one it answers well.
LEMMA AnsweredReach ==
    ASSUME Types, Link, ReachInv, NEW s \in Sockets, NEW j \in Ids, j \in sock[s].work,
           NEW k \in {"response", "error"}, k = "error" \/ j \notin Regs,
           sock' = Replied([sock EXCEPT ![s].work = @ \ {j}], s, Frame(k, j, None)),
           UNCHANGED <<ws, reg, dials, call, bound>>
    PROVE  ReachInv'
<1>1. /\ Untouched' /\ Awaited'
      /\ \A z \in Sockets : /\ SameEnds(z) /\ (z # s => SameLoad(z))
                            /\ Registers(z)' => Registers(z)
      /\ k = "error" /\ sock[s].up => On(j, "error", s)'
      /\ \A i \in Ids, m \in Legs : On(i, m, s) /\ ~(i = j /\ m = "at") => On(i, m, s)'
  BY AnsweredTrail
<1>2. ASSUME NEW z \in Sockets, sock'[z].up, UnderWay(z) PROVE UnderWay(z)'
  <2>1. CASE z # s
    BY <1>1, <1>2, <2>1, SameUnderWay
  <2>2. CASE z = s
    <3>1. PICK r \in Regs, m \in {"at", "sent", "error"} : On(r, m, s)
      BY <1>2, <2>2, RegistersOn DEF UnderWay
    <3>2. r \in Ids /\ m \in Legs
      BY DEF Ids, Legs
    <3>3. CASE r = j /\ m = "at"
      <4>1. k = "error" /\ sock[s].up
        BY <1>1, <1>2, <2>2, <3>3 DEF SameEnds
      <4>2. On(r, "error", s)'
        BY <1>1, <3>3, <4>1
      <4>. QED
        BY <2>2, <4>2 DEF UnderWay
    <3>4. CASE ~(r = j /\ m = "at")
      <4>1. On(r, m, s)'
        BY <1>1, <3>1, <3>2, <3>4
      <4>. QED
        BY <2>2, <4>1, RegistersOn DEF UnderWay
    <3>. QED
      BY <3>3, <3>4
  <2>. QED
    BY <2>1, <2>2
<1>3. Latest' /\ Reach'
  BY <1>1, <1>2, ReachKept DEF ReachInv, SameEnds
<1>. QED
  BY <1>1, <1>3 DEF ReachInv

LEMMA ReachStep ==
    ASSUME InOrder
    PROVE  Types /\ Shape /\ OnceInv /\ Link /\ ReachInv /\ [Next]_vars => ReachInv'
<1>. SUFFICES ASSUME Types, Shape, OnceInv, Link, ReachInv, [Next]_vars PROVE ReachInv'
  OBVIOUS
<1>. USE TransportAssumption
<1>q. /\ call \in [Ids -> {"new", "waiting", "settled"}] /\ ws \in {0} \cup Sockets
      /\ bound \in {0} \cup Sockets /\ dials \in 0..(MaxFaults + 1)
      /\ reg \in [boot : {"off", "first", "on"}, timer : BOOLEAN, first : Regs \cup {None}]
  BY DEF Types
<1>r. \A r \in Regs : r \in Ids
  BY DEF Ids
\* A step that leaves the calls and the sockets to themselves.
<1>u. ASSUME UNCHANGED <<ws, reg, dials, call, bound, sock>> PROVE ReachInv'
  <2>1. \A i \in Ids, k \in Legs, z \in Sockets : On(i, k, z)' <=> On(i, k, z)
    BY <1>u, Unchanged, SameOn
  <2>. QED
    BY <1>u, <2>1, ReachSame
<1>1. ASSUME NEW i \in Calls, Invoke(i) PROVE ReachInv'
  <2>1. i \in Ids /\ Invokes(i) /\ UNCHANGED <<ws, dials, bound, reg>>
    BY <1>1 DEF Invoke, Ids, server, spent
  <2>2. /\ Untouched' /\ Awaited' /\ Latest'
        /\ \A z \in Sockets : sock'[z].cl = sock[z].cl /\ sock'[z].up = sock[z].up /\ (UnderWay(z) => UnderWay(z)')
    BY <2>1, InvokesReach
  <2>3. \A z \in Sockets : Reaches(z) => Reaches(z)'
    BY <2>1, <2>2 DEF Reaches
  <2>4. Reach'
    BY <2>1, <2>2, <2>3 DEF ReachInv, Reach
  <2>. QED
    BY <2>2, <2>4 DEF ReachInv
\* A registration is made, and its timer is off.
<1>2. ASSUME NEW r \in FreshRegs, Invokes(r), UNCHANGED <<ws, dials, bound>> PROVE ReachInv'
  <2>1. r \in Regs /\ r \in Ids
    BY DEF FreshRegs, Ids
  <2>2. /\ Untouched' /\ Awaited' /\ Latest'
        /\ \A z \in Sockets : /\ sock'[z].cl = sock[z].cl /\ sock'[z].up = sock[z].up
                              /\ r \in Regs /\ z = ws /\ sock[z].cl = "open" /\ sock[z].up => UnderWay(z)'
    BY <1>2, <2>1, InvokesReach
  <2>3. Reach'
    BY <1>2, <2>1, <2>2 DEF Reach, Reaches
  <2>. QED
    BY <2>2, <2>3 DEF ReachInv
<1>3. CASE InitMachines
  BY <1>2, <1>3 DEF InitMachines, RegisterOnce, server, spent
<1>4. CASE RegisterAgain
  BY <1>2, <1>4 DEF RegisterAgain, RegisterOnce, server, spent
<1>5. CASE Subscribe
  <2>1. UNCHANGED <<ws, dials, bound>>
    BY <1>5 DEF Subscribe, server, spent
  <2>2. CASE IsOpen(ws)
    BY <1>2, <1>5, <2>1, <2>2 DEF Subscribe
  <2>3. CASE ~IsOpen(ws)
    <3>1. sock' = sock /\ call' = call
      BY <1>5, <2>3 DEF Subscribe
    <3>2. Untouched' /\ Awaited'
      BY <2>1, <3>1 DEF ReachInv, Untouched, Awaited, On, Waiting
    <3>3. Latest'
      BY <2>1, <3>1 DEF ReachInv, Latest, Registers
    <3>4. \A z \in Sockets : z = ws => sock[z].cl # "open"
      BY <2>3 DEF IsOpen, Sockets
    <3>5. Reach'
      BY <2>1, <3>1, <3>4 DEF Reach
    <3>. QED
      BY <3>2, <3>3, <3>5 DEF ReachInv
  <2>. QED
    BY <2>2, <2>3
<1>6. CASE Reconnect
  BY <1>6, <1>u DEF Reconnect, server, spent
\* The client is without a socket.
<1>f. ASSUME ws' = 0, dials' = dials, bound' = bound,
             \A z \in Sockets : sock'[z].cl \in {"none", "dialing"} => sock[z].cl \in {"none", "dialing"},
             \A i \in Ids, k \in Legs, z \in Sockets : On(i, k, z)' => On(i, k, z)
      PROVE  ReachInv'
  <2>1. Untouched'
    BY <1>f DEF ReachInv, Untouched
  <2>2. \A z \in Sockets : z # ws'
    BY <1>f DEF Sockets
  <2>3. Awaited' /\ Reach'
    BY <2>2 DEF Awaited, Reach
  <2>4. \A z \in Sockets : Registers(z)' => Registers(z)
    BY <1>f, <1>r, RegistersOn DEF Legs
  <2>5. Latest'
    BY <1>f, <2>4 DEF ReachInv, Latest
  <2>. QED
    BY <2>1, <2>3, <2>5 DEF ReachInv
<1>7. CASE TokenFails
  <2>1. ws' = 0 /\ dials' = dials /\ bound' = bound /\ sock' = sock
    BY <1>7 DEF TokenFails, Shape, server
  <2>2. \A i \in Ids, k \in Legs, z \in Sockets : On(i, k, z)' => On(i, k, z)
    BY <2>1, Unchanged, SameOn
  <2>. QED
    BY <1>f, <2>1, <2>2
<1>8. CASE Dial
  <2>1. dial = "token" /\ dials' = dials + 1 /\ bound' = bound /\ ws' = ws
    BY <1>8 DEF Dial, server
  <2>2. ws' = 0
    BY <2>1 DEF Shape
  <2>3. \A z \in Sockets : z # ws'
    BY <2>2 DEF Sockets
  <2>4. Awaited' /\ Reach'
    BY <2>3 DEF Awaited, Reach
  <2>5. ASSUME NEW i, NEW k, NEW z \in Sockets, On(i, k, z)'
        PROVE  On(i, k, z) /\ z # dials + 1
    BY <1>8, <2>5, DialFields, SameOn DEF On
  <2>6. Untouched'
    <3>1. \A z \in Sockets : z # dials + 1 => sock'[z].cl = sock[z].cl
      BY <1>8, DialFields DEF SameEnds
    <3>. QED
      BY <2>5, <3>1 DEF ReachInv, Untouched
  <2>7. \A z \in Sockets : Registers(z)' => Registers(z)
    BY <2>5, RegistersOn
  <2>8. Latest'
    BY <2>1, <2>7, <1>q DEF ReachInv, Latest, Sockets
  <2>. QED
    BY <2>4, <2>6, <2>8 DEF ReachInv
<1>9. CASE Served
  <2>1. \A z \in Sockets : /\ SameEnds(z) /\ sock'[z].s2c = sock[z].s2c /\ sock'[z].work = sock[z].work
                           /\ \A i : Invocation(i) \in sock'[z].c2s <=> Invocation(i) \in sock[z].c2s
    BY <1>9, ServedFields
  <2>2. \A i \in Ids, k \in Legs, z \in Sockets : On(i, k, z)' <=> On(i, k, z)
    BY <2>1 DEF On
  <2>3. UNCHANGED <<ws, reg, dials, call, bound>>
    BY <1>9 DEF Served, server, spent
  <2>. QED
    BY <2>1, <2>2, <2>3, ReachSame DEF SameEnds
<1>10. ASSUME NEW s \in Sockets, Open(s) PROVE ReachInv'
  <2>1. PICK m \in SUBSET Regs : OpenEffect(s, m)
    BY <1>10, OpenFields
  <2>2. sock[s].cl = "dialing" /\ ws' = s /\ UNCHANGED <<reg, dials, bound>>
    BY <1>10 DEF Open, server, spent
  <2>3. s = dials
    BY <2>2 DEF Shape
  <2>4. \A z \in Sockets : z # s => sock'[z].cl = sock[z].cl /\ SameLoad(z)
    BY <2>1 DEF OpenEffect, SameLoad
  <2>5. sock'[s].cl = "open" /\ sock'[s].up = sock[s].up
    BY <2>1 DEF OpenEffect
  <2>6. Untouched'
    BY <2>4, <2>5, SameOn DEF ReachInv, Untouched
  <2>7. ASSUME NEW i \in Ids, NEW k \in Legs, On(i, k, s)' PROVE call'[i] = "waiting"
    <3>1. ~On(i, k, s)
      BY <2>2 DEF ReachInv, Untouched
    <3>2. Invocation(i) \in sock'[s].c2s /\ Invocation(i) \notin sock[s].c2s
      <4>1. sock'[s].s2c = sock[s].s2c /\ sock'[s].work = sock[s].work
        BY <2>1 DEF OpenEffect
      <4>2. "sent" \in Legs
        BY DEF Legs
      <4>3. ~On(i, "sent", s)
        BY <2>2, <4>2 DEF ReachInv, Untouched
      <4>. QED
        BY <2>7, <3>1, <4>1, <4>3 DEF On
    <3>3. sock'[s].c2s \subseteq sock[s].c2s \cup {Invocation(j) : j \in queue \cup m}
      BY <2>1 DEF OpenEffect
    <3>4. PICK j \in queue \cup m : Invocation(i) = Invocation(j)
      BY <3>2, <3>3
    <3>5. i \in queue \cup m
      BY <3>4, Distinct
    <3>6. i \in queue => call[i] = "waiting"
      BY DEF OnceInv, Ledger, Waiting
    <3>. QED
      BY <2>1, <3>5, <3>6, <1>q DEF OpenEffect
  <2>8. Awaited'
    BY <2>2, <2>7 DEF Awaited, Waiting
  <2>9. Latest'
    <3>1. \A z \in Sockets : z # s => (Registers(z)' => Registers(z))
      BY <2>4, SameUnderWay
    <3>2. \A b \in Sockets : b = bound => ~(b > dials)
      BY DEF ReachInv, Latest
    <3>3. \A b \in Sockets : b = bound => ~(s < b)
      BY <2>3, <3>2, <1>q DEF Sockets
    <3>. QED
      BY <2>2, <3>1, <3>2, <3>3 DEF ReachInv, Latest
  <2>10. ASSUME sock'[s].up, reg.boot = "on" PROVE UnderWay(s)'
    <3>1. PICK r \in FreshRegs : m = {r}
      BY <2>1, <2>10 DEF OpenEffect
    <3>2. Invocation(r) \in sock'[s].c2s
      BY <2>1, <2>5, <2>10, <3>1 DEF OpenEffect
    <3>3. r \in Regs /\ On(r, "sent", s)'
      BY <3>2 DEF FreshRegs, On
    <3>. QED
      BY <3>3, RegistersOn DEF UnderWay
  <2>11. Reach'
    BY <2>2, <2>10 DEF Reach, Reaches
  <2>. QED
    BY <2>6, <2>8, <2>9, <2>11 DEF ReachInv
<1>11. ASSUME NEW s \in Sockets, Closing(s) PROVE ReachInv'
  <2>1. /\ \A z \in Sockets : SameLoad(z) /\ (z # s => SameEnds(z))
        /\ sock[s].cl = "open" /\ sock'[s].cl = "closing" /\ sock'[s].up = sock[s].up
    BY <1>11, ClosingFields DEF Closing
  <2>2. UNCHANGED <<ws, reg, dials, call, bound>>
    BY <1>11 DEF Closing, client, server, spent
  <2>3. Untouched' /\ Awaited'
    <3>1. \A i \in Ids, k \in Legs, z \in Sockets : On(i, k, z)' => On(i, k, z)
      BY <2>1, SameOn
    <3>. QED
      BY <2>1, <2>2, <3>1, TrailKept DEF ReachInv, SameEnds
  <2>4. Latest' /\ Reach'
    BY <2>1, <2>2, SameUnderWay, ReachKept DEF ReachInv, SameEnds
  <2>. QED
    BY <2>3, <2>4 DEF ReachInv
<1>12. ASSUME NEW s \in Sockets, Closed(s) PROVE ReachInv'
  <2>1. ASSUME NEW i \in Ids, NEW k \in Legs, NEW z \in Sockets, On(i, k, z)' PROVE On(i, k, z)
    BY <1>12, <2>1, ClosedFields, SameOn DEF On
  <2>2. ws' = 0 /\ dials' = dials /\ bound' = bound
    BY <1>12 DEF Closed, server, spent
  <2>3. \A z \in Sockets : sock'[z].cl \in {"none", "dialing"} => sock[z].cl \in {"none", "dialing"}
    BY <1>12, ClosedFields DEF SameEnds
  <2>. QED
    BY <1>f, <2>1, <2>2, <2>3
<1>13. ASSUME NEW s \in Sockets, Receive(s) PROVE ReachInv'
  <2>1. PICK f \in sock[s].s2c :
           /\ sock' = [sock EXCEPT ![s].s2c = @ \ {f}]
           /\ f.kind = "reverse" => call' = call /\ reg' = reg
           /\ f.kind # "reverse" =>
                /\ call' = [call EXCEPT ![f.id] = IF @ = "waiting" THEN "settled" ELSE @]
                /\ reg' = IF f.kind = "error" /\ Waiting(f.id) THEN [reg EXCEPT !.timer = TRUE] ELSE reg
    BY <1>13 DEF Receive
  <2>2. sock[s].cl = "open" /\ UNCHANGED <<ws, dials, bound>>
    BY <1>13 DEF Receive, server, spent
  <2>3. s = ws
    BY <2>2 DEF Shape
  <2>4. /\ \A z \in Sockets : SameEnds(z) /\ sock'[z].c2s = sock[z].c2s /\ sock'[z].work = sock[z].work
        /\ \A z \in Sockets : z # s => sock'[z].s2c = sock[z].s2c
        /\ sock'[s].s2c = sock[s].s2c \ {f}
    BY <2>1, ReceiveFields
  <2>5. \A i \in Ids, k \in Legs, z \in Sockets : On(i, k, z)' => On(i, k, z)
    BY <2>4 DEF On
  <2>6. Untouched'
    BY <2>4, <2>5 DEF ReachInv, Untouched, SameEnds
  <2>7. f \in ServerFrames
    BY RecordType DEF SocketType
  <2>8. Awaited'
    <3>. SUFFICES ASSUME NEW z \in Sockets, NEW i \in Ids, NEW k \in Legs, z = ws, On(i, k, z)'
                  PROVE  call'[i] = "waiting"
      BY <2>2 DEF Awaited, Waiting
    <3>1. On(i, k, z) /\ call[i] = "waiting"
      BY <2>5 DEF ReachInv, Awaited, Waiting
    <3>2. ASSUME call'[i] # call[i] PROVE FALSE
      <4>1. f.kind # "reverse" /\ f.id = i
        BY <2>1, <3>2, <1>q
      <4>2. f = Response(i) \/ f = Error(i)
        BY <4>1, <2>7 DEF ServerFrames, Frames, Response, Error, Frame
      <4>3. PICK l \in {"response", "error"} : /\ On(i, l, s) /\ ~On(i, l, s)'
        BY <2>4, <4>2 DEF On
      <4>4. l \in Legs
        BY DEF Legs
      <4>5. OnePlace(i)
        BY <3>1 DEF OnceInv, Ledger, Waiting
      <4>6. k = l
        BY <2>3, <3>1, <4>3, <4>4, <4>5 DEF OnePlace
      <4>. QED
        BY <2>3, <4>3, <4>6
    <3>. QED
      BY <3>1, <3>2
  <2>9. \A z \in Sockets : Registers(z)' => Registers(z)
    BY <2>4 DEF Registers
  <2>10. Latest'
    BY <2>2, <2>9 DEF ReachInv, Latest
  <2>11. Reach'
    <3>1. reg'.boot = reg.boot /\ (reg.timer => reg'.timer)
      BY <2>1, <1>q
    <3>. SUFFICES ASSUME NEW z \in Sockets, z = ws, sock[z].cl = "open", sock[z].up, reg.boot = "on"
                  PROVE  Reaches(z)'
      BY <2>2, <2>4, <3>1 DEF Reach, SameEnds
    <3>2. Reaches(z)
      BY DEF ReachInv, Reach
    <3>3. CASE bound = z \/ reg.timer
      BY <2>2, <3>1, <3>3 DEF Reaches
    <3>4. CASE Registers(z)
      <4>1. Registers(z)'
        BY <2>4, <3>4 DEF Registers
      <4>. QED
        BY <4>1 DEF Reaches, UnderWay
    <3>5. CASE \E r \in Regs : On(r, "error", z)
      <4>1. PICK r \in Regs : On(r, "error", z)
        BY <3>5
      <4>2. CASE f = Error(r)
        <5>1. call[r] = "waiting"
          BY <4>1, <1>r DEF ReachInv, Awaited, Waiting, Legs
        <5>2. f.kind = "error" /\ f.id = r
          BY <4>2 DEF Error, Frame
        <5>3. reg'.timer
          BY <2>1, <5>1, <5>2, <1>q DEF Waiting
        <5>. QED
          BY <5>3 DEF Reaches
      <4>3. CASE f # Error(r)
        <5>1. On(r, "error", z)'
          BY <2>4, <4>1, <4>3 DEF On
        <5>. QED
          BY <5>1 DEF Reaches, UnderWay
      <4>. QED
        BY <4>2, <4>3
    <3>. QED
      BY <3>2, <3>3, <3>4, <3>5 DEF Reaches, UnderWay
  <2>. QED
    BY <2>6, <2>8, <2>10, <2>11 DEF ReachInv
<1>14. ASSUME NEW s \in Sockets, Accept(s) PROVE ReachInv'
  <2>1. \A z \in Sockets : SameLoad(z) /\ sock'[z].cl = sock[z].cl /\ sock'[z].up = sock[z].up
    BY <1>14, AcceptFields DEF SameEnds
  <2>2. UNCHANGED <<ws, reg, dials, call, bound>>
    BY <1>14 DEF Accept, client, spent
  <2>. QED
    BY <2>1, <2>2, SameOn, ReachSame
<1>15. ASSUME NEW s \in Sockets, NEW permanent \in BOOLEAN, Refuse(s, permanent) PROVE ReachInv'
  <2>1. /\ \A z \in Sockets : z # s => SameEnds(z) /\ SameLoad(z)
        /\ sock'[s].cl = sock[s].cl /\ ~sock'[s].up
        /\ sock'[s].c2s = {} /\ sock'[s].s2c = sock[s].s2c /\ sock'[s].work = sock[s].work
    BY <1>15, RefuseFields
  <2>2. UNCHANGED <<ws, reg, dials, call, bound>>
    BY <1>15 DEF Refuse, client, server, spent
  <2>3. ASSUME NEW i \in Ids, NEW k \in Legs, NEW z \in Sockets
        PROVE  /\ On(i, k, z)' => On(i, k, z)
               /\ sock'[z].up /\ On(i, k, z) => On(i, k, z)'
    BY <2>1, SameOn DEF On
  <2>4. \A z \in Sockets : sock'[z].cl = sock[z].cl /\ (sock'[z].up => sock[z].up)
    BY <2>1 DEF SameEnds
  <2>. QED
    BY <2>2, <2>3, <2>4, ReachSame
<1>16. ASSUME NEW s \in Sockets, HandleInvoke(s) PROVE ReachInv'
  <2>1. PICK j \in Ids :
             /\ Invocation(j) \in sock[s].c2s
             /\ \A z \in Sockets : SameEnds(z) /\ (z # s => SameLoad(z))
             /\ sock'[s].c2s = sock[s].c2s \ {Invocation(j)} /\ sock'[s].s2c = sock[s].s2c
             /\ sock'[s].work = sock[s].work \cup {j}
    BY <1>16, HandleInvokeFields
  <2>2. UNCHANGED <<ws, reg, dials, call, bound>>
    BY <1>16 DEF HandleInvoke, client, server, spent
  <2>3. ASSUME NEW i \in Ids, NEW k \in Legs, NEW z \in Sockets, On(i, k, z)'
        PROVE  \E l \in Legs : On(i, l, z)
    <3>1. CASE z # s
      BY <2>1, <2>3, <3>1, SameOn
    <3>2. CASE z = s /\ i = j
      <4>1. On(i, "sent", z) /\ "sent" \in Legs
        BY <2>1, <3>2 DEF On, Legs
      <4>. QED
        BY <4>1
    <3>3. CASE z = s /\ i # j
      <4>1. On(i, k, z)
        BY <2>1, <2>3, <3>3 DEF On
      <4>. QED
        BY <4>1
    <3>. QED
      BY <3>1, <3>2, <3>3
  <2>4. Untouched' /\ Awaited'
    BY <2>1, <2>2, <2>3, TrailKept DEF ReachInv, SameEnds
  <2>5. Registers(s)' <=> Registers(s)
    <3>1. \A r \in Regs : Invocation(r) \in sock'[s].c2s <=> Invocation(r) \in sock[s].c2s /\ r # j
      BY <2>1, Distinct
    <3>2. \A r \in Regs : r \in sock'[s].work <=> r \in sock[s].work \/ r = j
      BY <2>1
    <3>. QED
      BY <2>1, <3>1, <3>2 DEF Registers
  <2>6. \A z \in Sockets : (Registers(z)' <=> Registers(z)) /\ (UnderWay(z) => UnderWay(z)')
    <3>1. UnderWay(s) => UnderWay(s)'
      BY <2>1, <2>5 DEF UnderWay, On
    <3>. QED
      BY <2>1, <2>5, <3>1, SameUnderWay
  <2>7. Latest' /\ Reach'
    BY <2>1, <2>2, <2>6, ReachKept DEF ReachInv, SameEnds
  <2>. QED
    BY <2>4, <2>7 DEF ReachInv
<1>17. ASSUME NEW s \in Sockets, HandleAnswer(s) PROVE ReachInv'
  <2>1. \A z \in Sockets : /\ SameEnds(z) /\ sock'[z].s2c = sock[z].s2c /\ sock'[z].work = sock[z].work
                           /\ \A i : Invocation(i) \in sock'[z].c2s <=> Invocation(i) \in sock[z].c2s
    BY <1>17, HandleAnswerFields
  <2>2. \A i \in Ids, k \in Legs, z \in Sockets : On(i, k, z)' <=> On(i, k, z)
    BY <2>1 DEF On
  <2>3. UNCHANGED <<ws, reg, dials, call, bound>>
    BY <1>17 DEF HandleAnswer, client, spent
  <2>. QED
    BY <2>1, <2>2, <2>3, ReachSame DEF SameEnds
<1>18. ASSUME NEW s \in Sockets, Finish(s) PROVE ReachInv'
  <2>1. PICK j \in sock[s].work \cap Calls :
            sock' = Replied([sock EXCEPT ![s].work = @ \ {j}], s, Frame("response", j, None))
    BY <1>18 DEF Finish, Response
  <2>2. j \in Ids /\ j \notin Regs
    BY DEF Ids
  <2>3. UNCHANGED <<ws, reg, dials, call, bound>>
    BY <1>18 DEF Finish, client, server, spent
  <2>. QED
    BY <2>1, <2>2, <2>3, AnsweredReach
<1>20. ASSUME NEW s \in Sockets, Bind(s) PROVE ReachInv'
  <2>1. Registered(s, "response") /\ bound' = s /\ UNCHANGED <<ws, reg, dials, call>>
    BY <1>20 DEF Bind, client, spent
  <2>2. PICK r \in sock[s].work \cap Regs :
            sock' = Replied([sock EXCEPT ![s].work = @ \ {r}], s, Frame("response", r, None))
    BY <2>1 DEF Registered
  <2>3. /\ Untouched' /\ Awaited'
        /\ \A z \in Sockets : /\ SameEnds(z) /\ (z # s => SameLoad(z))
                              /\ Registers(z)' => Registers(z)
    BY <1>r, <2>1, <2>2, AnsweredTrail
  <2>4. Registers(s) /\ On(r, "at", s)
    BY <2>2 DEF Registers, On
  <2>5. ~(s > dials)
    <3>1. sock[s].cl # "none"
      BY <1>r, <2>4 DEF ReachInv, Untouched, Legs
    <3>. QED
      BY <3>1 DEF Shape
  <2>6. \A z \in Sockets : z < s => ~Registers(z)
    BY <2>1 DEF Registered
  <2>7. Latest'
    BY <2>1, <2>3, <2>5, <2>6 DEF Latest
  <2>8. Reach'
    <3>. SUFFICES ASSUME NEW z \in Sockets, z = ws, sock[z].cl = "open", sock[z].up, reg.boot = "on"
                  PROVE  Reaches(z)'
      BY <2>1, <2>3 DEF Reach, SameEnds
    <3>1. Reaches(z)
      BY DEF ReachInv, Reach
    <3>2. CASE z = s
      BY <2>1, <3>2 DEF Reaches
    <3>3. CASE z # s
      <4>1. z = dials
        BY DEF Shape, Sockets
      <4>2. s < z
        BY <2>5, <3>3, <4>1, <1>q DEF Sockets
      <4>3. bound # z
        BY <2>4, <4>2 DEF ReachInv, Latest
      <4>4. UnderWay(z)' <=> UnderWay(z)
        BY <2>3, <3>3, SameUnderWay
      <4>. QED
        BY <2>1, <3>1, <4>3, <4>4 DEF Reaches
    <3>. QED
      BY <3>2, <3>3
  <2>. QED
    BY <2>3, <2>7, <2>8 DEF ReachInv
<1>21. ASSUME NEW s \in Sockets, BindFails(s) PROVE ReachInv'
  <2>1. Registered(s, "error") /\ UNCHANGED <<ws, reg, dials, call, bound>>
    BY <1>21 DEF BindFails, client, server
  <2>2. PICK r \in sock[s].work \cap Regs :
            sock' = Replied([sock EXCEPT ![s].work = @ \ {r}], s, Frame("error", r, None))
    BY <2>1 DEF Registered
  <2>. QED
    BY <1>r, <2>1, <2>2, AnsweredReach
\* The server's bindings go, and with them the connections they were on.
<1>b. ASSUME UNCHANGED <<ws, reg, dials, call>>, bound' # 0 => bound' = bound,
             \A z \in Sockets : z = bound /\ sock'[z].up => bound' = bound,
             \A z \in Sockets : sock'[z].cl = sock[z].cl /\ (sock'[z].up => sock[z].up),
             \A i \in Ids, k \in Legs, z \in Sockets : On(i, k, z)' => On(i, k, z),
             \A i \in Ids, k \in Legs, z \in Sockets : sock'[z].up /\ On(i, k, z) => On(i, k, z)'
      PROVE  ReachInv'
  <2>1. Untouched' /\ Awaited'
    BY <1>b, TrailKept DEF ReachInv
  <2>2. "sent" \in Legs /\ "at" \in Legs /\ "error" \in Legs
    BY DEF Legs
  <2>3. \A z \in Sockets : Registers(z)' => Registers(z)
    BY <1>b, <1>r, <2>2, RegistersOn
  <2>4. \A z \in Sockets : sock'[z].up /\ UnderWay(z) => UnderWay(z)'
    BY <1>b, <1>r, <2>2, RegistersOn DEF UnderWay
  <2>5. Latest' /\ Reach'
    BY <1>b, <2>3, <2>4, ReachKept DEF ReachInv
  <2>. QED
    BY <2>1, <2>5 DEF ReachInv
<1>22. ASSUME NEW s \in Sockets, ServerClosed(s) PROVE ReachInv'
  <2>1. /\ \A z \in Sockets : SameLoad(z) /\ (z # s => SameEnds(z))
        /\ sock'[s].cl = sock[s].cl /\ sock'[s].up = sock[s].up /\ ~sock[s].up
    BY <1>22, ServerClosedFields DEF ServerClosed
  <2>2. UNCHANGED <<ws, reg, dials, call>> /\ bound' = (IF s \in back /\ bound = s THEN 0 ELSE bound)
    BY <1>22 DEF ServerClosed, client, spent
  <2>3. \A i \in Ids, k \in Legs, z \in Sockets : On(i, k, z)' <=> On(i, k, z)
    BY <2>1, SameOn
  <2>4. \A z \in Sockets : sock'[z].cl = sock[z].cl /\ (sock'[z].up => sock[z].up)
    BY <2>1 DEF SameEnds
  <2>5. \A z \in Sockets : z = bound /\ sock'[z].up => bound' = bound
    BY <2>1, <2>2
  <2>6. bound' # 0 => bound' = bound
    BY <2>2
  <2>. QED
    BY <1>b, <2>2, <2>3, <2>4, <2>5, <2>6
<1>23. ASSUME NEW s \in Sockets, Cut(s) PROVE ReachInv'
  <2>1. /\ \A z \in Sockets : z # s => SameEnds(z) /\ SameLoad(z)
        /\ sock'[s].cl = sock[s].cl /\ ~sock'[s].up
        /\ sock'[s].c2s \subseteq sock[s].c2s /\ sock'[s].s2c \subseteq sock[s].s2c
        /\ sock'[s].work = sock[s].work
    BY <1>23, CutFields
  <2>2. UNCHANGED <<ws, reg, dials, call, bound>>
    BY <1>23 DEF Cut, client, server, spent
  <2>3. ASSUME NEW i \in Ids, NEW k \in Legs, NEW z \in Sockets
        PROVE  /\ On(i, k, z)' => On(i, k, z)
               /\ sock'[z].up /\ On(i, k, z) => On(i, k, z)'
    BY <2>1, SameOn DEF On
  <2>4. \A z \in Sockets : sock'[z].cl = sock[z].cl /\ (sock'[z].up => sock[z].up)
    BY <2>1 DEF SameEnds
  <2>. QED
    BY <2>2, <2>3, <2>4, ReachSame
<1>24. ASSUME NEW c \in Reverses, Dispatch(c) PROVE ReachInv'
  <2>1. \A z \in Sockets : /\ SameEnds(z) /\ sock'[z].c2s = sock[z].c2s /\ sock'[z].work = sock[z].work
                           /\ \A i : /\ Response(i) \in sock'[z].s2c <=> Response(i) \in sock[z].s2c
                                     /\ Error(i) \in sock'[z].s2c <=> Error(i) \in sock[z].s2c
    BY <1>24, DispatchFields
  <2>2. \A i \in Ids, k \in Legs, z \in Sockets : On(i, k, z)' <=> On(i, k, z)
    BY <2>1 DEF On
  <2>3. UNCHANGED <<ws, reg, dials, call, bound>>
    BY <1>24 DEF Dispatch, client, spent
  <2>. QED
    BY <2>1, <2>2, <2>3, ReachSame DEF SameEnds
<1>25. ASSUME NEW c \in Reverses, TimesOut(c) PROVE ReachInv'
  BY <1>25, <1>u DEF TimesOut, client
<1>26. CASE Restart
  <2>1. \A z \in Sockets :
           /\ sock[z].cl = "none" => SameEnds(z) /\ SameLoad(z)
           /\ sock[z].cl # "none" =>
                /\ sock'[z].cl = sock[z].cl /\ ~sock'[z].up
                /\ sock'[z].c2s = {} /\ sock'[z].s2c = sock[z].s2c /\ sock'[z].work = {}
    BY <1>26, RestartFields
  <2>2. UNCHANGED <<ws, reg, dials, call>> /\ bound' = 0
    BY <1>26 DEF Restart, client
  <2>3. ASSUME NEW i \in Ids, NEW k \in Legs, NEW z \in Sockets
        PROVE  /\ On(i, k, z)' => On(i, k, z)
               /\ sock'[z].up /\ On(i, k, z) => On(i, k, z)'
    BY <2>1, SameOn DEF On
  <2>4. ASSUME NEW z \in Sockets
        PROVE  sock'[z].cl = sock[z].cl /\ (sock'[z].up => sock[z].up)
    BY <2>1 DEF SameEnds
  <2>5. \A z \in Sockets : ~(z = bound /\ sock'[z].up)
    <3>. SUFFICES ASSUME NEW z \in Sockets, z = bound, sock'[z].up PROVE FALSE
      OBVIOUS
    <3>1. sock[z].cl = "none"
      BY <2>1
    <3>2. z > dials
      BY <3>1 DEF Shape
    <3>. QED
      BY <3>2 DEF ReachInv, Latest
  <2>. QED
    BY <1>b, <2>2, <2>3, <2>4, <2>5
<1>27. CASE UNCHANGED vars
  BY <1>27, <1>u DEF vars, client, server, spent
<1>. QED
  BY <1>1, <1>3, <1>4, <1>5, <1>6, <1>7, <1>8, <1>9, <1>10, <1>11, <1>12, <1>13, <1>14, <1>15,
     <1>16, <1>17, <1>18, <1>20, <1>21, <1>22, <1>23, <1>24, <1>25, <1>26, <1>27
     DEF Next, SocketStep

\* On whatever socket the client ends up, its machine is bound there, or a
\* registration that will bind it, or its failure, is on its way, when sockets
\* are accepted as dialled.
THEOREM MachineStaysReachable == ASSUME InOrder PROVE Spec => []MachineReachable
<1>1. Init => Types /\ Shape /\ OnceInv /\ Link /\ AccountInv /\ ReachInv
  <2>1. Init => \A s \in Sockets : /\ sock[s].cl = "none" /\ s > dials /\ ~sock[s].up
                                   /\ sock[s].s2c = {} /\ sock[s].c2s = {} /\ sock[s].work = {}
    BY DEF Init, NoSocket, Sockets
  <2>2. Init => \A i \in Ids : i \notin queue /\ call[i] = "new"
    BY DEF Init
  <2>3. Init => Shape
    BY <2>1 DEF Init, Shape
  <2>4. Init => OnceInv /\ AccountInv
    BY <2>1, <2>2 DEF OnceInv, Ledger, Nowhere, On, Waiting, AccountInv
  <2>5. Init => Link
    BY <2>1 DEF Init, Link
  <2>6. Init => ReachInv
    <3>1. Init => \A i, k : \A z \in Sockets : ~On(i, k, z)
      BY <2>1 DEF On
    <3>2. Init => \A z \in Sockets : z # ws /\ z # bound
      BY DEF Init, Sockets
    <3>. QED
      BY <3>1, <3>2 DEF ReachInv, Untouched, Awaited, Latest, Reach
  <2>. QED
    BY <2>3, <2>4, <2>5, <2>6, InitTypes
<1>2. Types /\ Shape /\ OnceInv /\ Link /\ AccountInv /\ ReachInv /\ [Next]_vars
      => (Types /\ Shape /\ OnceInv /\ Link /\ AccountInv /\ ReachInv)'
  BY TypesStep, ShapeStep, OnceStep, AccountStep, ReachStep
<1>3. Types /\ ReachInv => MachineReachable
  BY ReachIsReachable DEF ReachInv
<1>. QED
  BY <1>1, <1>2, <1>3, PTL DEF Spec
===========================================================================
