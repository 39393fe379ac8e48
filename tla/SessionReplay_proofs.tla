------------------------ MODULE SessionReplay_proofs ------------------------
(* Proofs about SessionReplay, for all streams, bounds and policies. *)
EXTENDS SessionReplay, SequenceTheorems, FiniteSetTheorems, TLAPS

Pairs == Epochs \X Nat

\* What the client may hear, and what it may ask.
Heard ==
    [kind : {"event"}, id : {0}, event : Pairs]
    \cup [kind : {"resumed"}, id : Nat, stream : Epochs, from : Nat, upto : Nat]
    \cup [kind : {"refused"}, id : Nat, stream : Epochs, upto : Nat]
    \cup [kind : {"transcript"}, id : Nat, seen : SUBSET Pairs]
    \cup [kind : {"ackRefused"}, id : {0}]
Asked ==
    [kind : {"resume"}, id : Nat, stream : Nat, from : Nat]
    \cup [kind : {"history"}, id : Nat]
    \cup [kind : {"ack"}, id : {0}, stream : Nat]

Backfills == {"resume", "resumed", "refused"}
Readings == {"history", "transcript"}

Coordinators ==
    [stream : Nat, last : Nat, registered : BOOLEAN, resuming : BOOLEAN, retry : BOOLEAN,
     quarantined : BOOLEAN, holding : BOOLEAN, held : Seq(Pairs), named : Nat \X Nat,
     applied : Seq(Pairs)]

Flights == [id : Nat, own : BOOLEAN, stream : Nat, last : Nat, live : BOOLEAN]
Loads == [phase : {"none", "attaching", "fetching", "recovering"}, auth : BOOLEAN, id : Nat]

Traffic == ToSet(wire) \cup ToSet(answers) \cup ToSet(calls)

---------------------------------------------------------------------------
(* The inductive invariant behind the types *)

ServerTyped ==
    /\ epoch \in Epochs /\ ends \in [Epochs -> Nat] /\ floor \in 0..ends[epoch]
    /\ \A n \in Epochs : ends[n] <= Lengths[n] /\ (n > epoch => ends[n] = 0)
    /\ attached \in BOOLEAN

PipesTyped == wire \in Seq(Heard) /\ answers \in Seq(Heard) /\ calls \in Seq(Asked)

ClientTyped ==
    /\ sock \in {"down", "opening", "up"}
    /\ rc \in Coordinators /\ flight \in Flights /\ load \in Loads
    /\ acking \in BOOLEAN /\ ui \in {"none", "initializing", "ready", "error"}
    /\ drops \in Nat /\ lost \in Nat /\ timeouts \in Nat

\* A place in a stream that the server has reached; 0 is no stream.
Reached(s, n) == s \in 0..epoch /\ n \in Nat /\ IF s = 0 THEN n = 0 ELSE n <= ends[s]

Sound(c) ==
    /\ Reached(c.stream, c.last) /\ Reached(c.named[1], c.named[2])
    /\ \A i \in 1..Len(c.held) : c.held[i] \in Emitted
    /\ \A i \in 1..Len(c.applied) : c.applied[i] \in Emitted

Truthful(m) ==
    /\ m.kind = "event" => m.event \in Emitted
    /\ m.kind \in {"resumed", "refused"} => m.stream <= epoch /\ m.upto <= ends[m.stream]
    /\ m.kind = "transcript" => m.seen \subseteq Emitted
    /\ m.kind = "resume" => m.stream <= epoch

\* A backfill in flight is the one the tracker waits for, and a cursor the
\* server named is kept only for a quarantine whose backfill has ended.
Flying ==
    /\ rc.resuming <=> flight.live
    /\ flight.live => sock # "down"
    /\ rc.resuming \/ ~rc.quarantined => rc.named = <<0, 0>>

\* A closed socket carries nothing.
Quiet == sock = "down" => Traffic = {} /\ ~attached

\* The cursor of a backfill in flight stays where it was asked from, or is dropped.
Matching ==
    flight.live /\ flight.own =>
        \A m \in Traffic : m.id = flight.id =>
            /\ m.kind = "resume" => rc.stream \in {0, m.stream}
            /\ m.kind = "resumed" => rc.stream \in {0, m.stream}

Honest == Sound(rc) /\ (\A m \in Traffic : Truthful(m)) /\ known \subseteq Emitted

Typed == ServerTyped /\ PipesTyped /\ ClientTyped
TInv == Typed /\ Honest /\ Flying /\ Quiet /\ Matching

---------------------------------------------------------------------------
(* The inductive invariants of a calm user *)

Increasing(s) ==
    \A i, j \in 1..Len(s) : i < j /\ s[i][1] = s[j][1] => s[i][2] < s[j][2]

Below(s, c) == \A i \in 1..Len(s) : s[i][1] = c.stream /\ s[i][2] <= c.last

\* What was applied is of the cursor's stream and not past it, unless a
\* quarantine has left the cursor elsewhere.
Applied(c) ==
    /\ Increasing(c.applied)
    /\ c.resuming \/ ~c.quarantined => Below(c.applied, c)

OInv == Applied(rc) /\ (flight.live => flight.own)

\* x is ahead of y on the way to the client.
Follows(s, x, y) == \E i, j \in 1..Len(s) : i < j /\ s[i] = x /\ s[j] = y
Ahead(x, y) ==
    \/ Follows(wire, x, y) \/ Follows(answers, x, y) \/ Follows(calls, x, y)
    \/ x \in ToSet(wire) /\ y \in ToSet(answers) \cup ToSet(calls)
    \/ x \in ToSet(answers) /\ y \in ToSet(calls)

OfFlight(m) == m.kind \in Backfills /\ flight.live /\ m.id = flight.id
OfLoad(m) == m.kind \in Readings /\ load.phase = "fetching" /\ m.id = load.id

HInv ==
    /\ rc.quarantined \/ (rc.resuming \/ rc.retry => rc.holding)
    /\ load.auth => rc.quarantined /\ rc.registered
    /\ load.phase = "recovering" => load.auth /\ ~rc.resuming
    /\ load.phase = "attaching" => ~load.auth
    /\ flight.live => \E m \in Traffic : OfFlight(m)
    /\ load.auth => \A x, y \in Traffic : OfLoad(x) /\ OfFlight(y) => ~Ahead(x, y)

---------------------------------------------------------------------------
(* Induction over numbers, in the form of a statement about sets           *)

LEMMA LeastNatural ==
    ASSUME NEW S \in SUBSET Nat, S # {} PROVE \E n \in S : \A m \in S : n <= m
<1>. DEFINE R == OpToRel(<, Nat)
<1>1. IsWellFoundedOn(R, Nat)
  BY NatLessThanWellFounded, Zenon
<1>2. PICK n \in S : \A m \in S : <<m, n>> \notin R
  <2>. HIDE DEF R
  <2>. QED
    BY <1>1, WFMin
<1>3. \A m \in S : ~ (m < n)
  BY <1>2, Zenon DEF OpToRel
<1>. QED
  BY <1>3

LEMMA Induction ==
    ASSUME NEW S, 0 \in S, \A n \in Nat : n \in S => n + 1 \in S PROVE Nat \subseteq S
<1>. SUFFICES ASSUME Nat \ S # {} PROVE FALSE
  OBVIOUS
<1>1. PICK n \in Nat \ S : \A m \in Nat \ S : n <= m
  BY LeastNatural
<1>2. n # 0 /\ n - 1 \in Nat
  BY <1>1
<1>3. n - 1 \in S
  BY <1>1, <1>2
<1>. QED
  BY <1>1, <1>2, <1>3

\* The states Flush goes through: the recursive function has the values its
\* definition asks for.
After(c, f) ==
    f = [n \in 0..Len(c.held) |-> IF n = 0 THEN Landing(c) ELSE Handle(f[n - 1], c.held[n])]

LEMMA FlushUnfolds ==
    ASSUME NEW c, Len(c.held) \in Nat
    PROVE  \E f : After(c, f) /\ Flush(c) = f[Len(c.held)]
<1>. DEFINE N == Len(c.held)
            F(k) == \E f : f = [n \in 0..k |-> IF n = 0 THEN Landing(c)
                                               ELSE Handle(f[n - 1], c.held[n])]
<1>1. F(0)
  <2>. DEFINE f == [n \in 0..0 |-> Landing(c)]
  <2>1. f = [n \in 0..0 |-> IF n = 0 THEN Landing(c) ELSE Handle(f[n - 1], c.held[n])]
    OBVIOUS
  <2>. QED
    BY <2>1
<1>2. ASSUME NEW k \in Nat, F(k) PROVE F(k + 1)
  <2>1. PICK f : f = [n \in 0..k |-> IF n = 0 THEN Landing(c) ELSE Handle(f[n - 1], c.held[n])]
    BY <1>2
  <2>. DEFINE g == [n \in 0..(k + 1) |-> IF n = k + 1 THEN Handle(f[k], c.held[k + 1]) ELSE f[n]]
  <2>2. g = [n \in 0..(k + 1) |-> IF n = 0 THEN Landing(c) ELSE Handle(g[n - 1], c.held[n])]
    BY <2>1
  <2>. QED
    BY <2>2
<1>3. F(N)
  <2>. DEFINE S == {k \in Nat : F(k)}
  <2>. HIDE DEF F
  <2>1. 0 \in S /\ \A n \in Nat : n \in S => n + 1 \in S
    BY <1>1, <1>2
  <2>2. Nat \subseteq S
    BY <2>1, Induction
  <2>. QED
    BY <2>2
<1>. DEFINE G(f) == f = [n \in 0..N |-> IF n = 0 THEN Landing(c) ELSE Handle(f[n - 1], c.held[n])]
<1>4. G(CHOOSE f : G(f))
  <2>1. \E f : G(f)
    BY <1>3
  <2>. HIDE DEF G
  <2>. QED
    BY <2>1
<1>5. Flush(c) = (CHOOSE f : G(f))[N]
  BY Zenon DEF Flush
<1>. QED
  BY <1>4, <1>5, Zenon DEF After

\* What the landed coordinator is and every handled event preserves, at the
\* place of the event in the list, is true of the flushed coordinator.
LEMMA FlushPreserves ==
    ASSUME NEW c, Len(c.held) \in Nat, NEW S,
           <<0, Landing(c)>> \in S,
           \A i \in 1..Len(c.held) : \A x : <<i - 1, x>> \in S => <<i, Handle(x, c.held[i])>> \in S
    PROVE  <<Len(c.held), Flush(c)>> \in S
<1>1. PICK f : After(c, f) /\ Flush(c) = f[Len(c.held)]
  BY FlushUnfolds
<1>. DEFINE T == {k \in Nat : k <= Len(c.held) => <<k, f[k]>> \in S}
<1>a. \A k \in 0..Len(c.held) : f[k] = IF k = 0 THEN Landing(c) ELSE Handle(f[k - 1], c.held[k])
  BY <1>1, Zenon DEF After
<1>2. f[0] = Landing(c) /\ \A k \in 1..Len(c.held) : f[k] = Handle(f[k - 1], c.held[k])
  BY <1>a
<1>3. 0 \in T
  BY <1>2
<1>4. ASSUME NEW n \in Nat, n \in T PROVE n + 1 \in T
  <2>1. CASE n + 1 <= Len(c.held)
    <3>1. n + 1 \in 1..Len(c.held) /\ (n + 1) - 1 = n
      BY <2>1
    <3>2. <<n, f[n]>> \in S
      BY <1>4, <2>1
    <3>. QED
      BY <1>2, <3>1, <3>2
  <2>. QED
    BY <2>1
<1>5. Nat \subseteq T
  BY <1>3, <1>4, Induction
<1>. QED
  BY <1>1, <1>5

---------------------------------------------------------------------------
(* Sequences and the sets of their elements                                *)

LEMMA Elements ==
    ASSUME NEW S, NEW s \in Seq(S)
    PROVE  \A x : x \in ToSet(s) <=> \E i \in 1..Len(s) : s[i] = x
  BY DEF ToSet

LEMMA SetOfAppended ==
    ASSUME NEW S, NEW s \in Seq(S), NEW x \in S
    PROVE  Append(s, x) \in Seq(S) /\ ToSet(Append(s, x)) = ToSet(s) \cup {x}
<1>1. /\ Append(s, x) \in Seq(S) /\ Len(Append(s, x)) = Len(s) + 1 /\ Append(s, x)[Len(s) + 1] = x
      /\ \A i \in 1..Len(s) : Append(s, x)[i] = s[i]
  OBVIOUS
<1>2. \A y : y \in ToSet(s) <=> \E i \in 1..Len(s) : s[i] = y
  BY Elements
<1>3. \A y : y \in ToSet(Append(s, x)) <=> \E i \in 1..(Len(s) + 1) : Append(s, x)[i] = y
  <2>1. \A y : y \in ToSet(Append(s, x)) <=> \E i \in 1..Len(Append(s, x)) : Append(s, x)[i] = y
    BY <1>1, Elements
  <2>. QED
    BY <1>1, <2>1
<1>4. 1..(Len(s) + 1) = (1..Len(s)) \cup {Len(s) + 1}
  OBVIOUS
<1>5. \A y : y \in ToSet(Append(s, x)) <=> y \in ToSet(s) \cup {x}
  BY <1>1, <1>2, <1>3, <1>4, Zenon
<1>. QED
  BY <1>1, <1>5

LEMMA SetOfConcatenated ==
    ASSUME NEW S, NEW s \in Seq(S), NEW t \in Seq(S)
    PROVE  s \o t \in Seq(S) /\ ToSet(s \o t) = ToSet(s) \cup ToSet(t)
<1>1. Len(s \o t) = Len(s) + Len(t) /\ s \o t \in Seq(S)
  BY ConcatProperties
<1>2. \A i \in 1..Len(s) : (s \o t)[i] = s[i] /\ i \in 1..Len(s \o t)
  BY <1>1
<1>3. \A i \in 1..Len(t) : (s \o t)[Len(s) + i] = t[i] /\ Len(s) + i \in 1..Len(s \o t)
  BY <1>1
<1>4. \A i \in 1..Len(s \o t) : i \in 1..Len(s) \/ (i - Len(s) \in 1..Len(t) /\ (s \o t)[i] = t[i - Len(s)])
  BY <1>1
<1>5. \A y : y \in ToSet(s) <=> \E i \in 1..Len(s) : s[i] = y
  BY Elements
<1>6. \A y : y \in ToSet(t) <=> \E i \in 1..Len(t) : t[i] = y
  BY Elements
<1>7. \A y : y \in ToSet(s \o t) <=> \E i \in 1..Len(s \o t) : (s \o t)[i] = y
  BY <1>1, Elements
<1>8. \A y : y \in ToSet(s \o t) <=> y \in ToSet(s) \cup ToSet(t)
  <2>1. ASSUME NEW y \in ToSet(s \o t) PROVE y \in ToSet(s) \cup ToSet(t)
    <3>1. PICK i \in 1..Len(s \o t) : (s \o t)[i] = y
      BY <1>7
    <3>2. CASE i \in 1..Len(s)
      BY <1>2, <1>5, <3>1, <3>2, Zenon
    <3>3. CASE i - Len(s) \in 1..Len(t) /\ (s \o t)[i] = t[i - Len(s)]
      BY <1>6, <3>1, <3>3, Zenon
    <3>. QED
      BY <1>4, <3>2, <3>3, Zenon
  <2>2. \A y : y \in ToSet(s) => y \in ToSet(s \o t)
    BY <1>2, <1>5, <1>7, Zenon
  <2>3. \A y : y \in ToSet(t) => y \in ToSet(s \o t)
    BY <1>3, <1>6, <1>7, Zenon
  <2>. QED
    BY <2>1, <2>2, <2>3
<1>. QED
  BY <1>1, <1>8

LEMMA SetOfTail ==
    ASSUME NEW S, NEW s \in Seq(S), s # <<>>
    PROVE  /\ Tail(s) \in Seq(S) /\ Head(s) \in S /\ Head(s) \in ToSet(s)
           /\ ToSet(Tail(s)) \subseteq ToSet(s)
           /\ ToSet(s) = ToSet(Tail(s)) \cup {Head(s)}
<1>1. /\ Head(s) = s[1] /\ Tail(s) \in Seq(S) /\ Len(Tail(s)) = Len(s) - 1 /\ 1 \in 1..Len(s)
      /\ \A i \in 1..Len(Tail(s)) : Tail(s)[i] = s[i + 1] /\ i + 1 \in 1..Len(s)
  OBVIOUS
<1>2. \A i \in 1..Len(s) : i = 1 \/ (i - 1 \in 1..Len(Tail(s)) /\ Tail(s)[i - 1] = s[i])
  BY <1>1
<1>3. \A y : y \in ToSet(s) <=> \E i \in 1..Len(s) : s[i] = y
  BY Elements
<1>4. \A y : y \in ToSet(Tail(s)) <=> \E i \in 1..Len(Tail(s)) : Tail(s)[i] = y
  BY <1>1, Elements
<1>5. \A y : y \in ToSet(s) <=> y \in ToSet(Tail(s)) \cup {Head(s)}
  BY <1>1, <1>2, <1>3, <1>4, Zenon
<1>6. Head(s) \in S
  BY <1>1, ElementOfSeq
<1>. QED
  BY <1>1, <1>5, <1>6

LEMMA SetOfRemoved ==
    ASSUME NEW S, NEW s \in Seq(S), NEW i \in 1..Len(s)
    PROVE  /\ RemoveAt(s, i) \in Seq(S) /\ s[i] \in S
           /\ ToSet(RemoveAt(s, i)) \subseteq ToSet(s) /\ s[i] \in ToSet(s)
           /\ i = 1 => RemoveAt(s, i) = Tail(s)
<1>. DEFINE a == SubSeq(s, 1, i - 1)
            b == SubSeq(s, i + 1, Len(s))
<1>1. /\ a \in Seq(S) /\ Len(a) = i - 1 /\ (\A j \in 1..Len(a) : a[j] = s[j])
  OBVIOUS
<1>2. /\ b \in Seq(S) /\ Len(b) = Len(s) - i /\ (\A j \in 1..Len(b) : b[j] = s[i + j])
  OBVIOUS
<1>3. ToSet(a) \subseteq ToSet(s) /\ ToSet(b) \subseteq ToSet(s)
  BY <1>1, <1>2 DEF ToSet
<1>c. RemoveAt(s, i) = a \o b
  BY DEF RemoveAt
<1>. HIDE DEF a, b
<1>4. RemoveAt(s, i) \in Seq(S) /\ ToSet(RemoveAt(s, i)) = ToSet(a) \cup ToSet(b)
  BY <1>1, <1>2, <1>c, SetOfConcatenated
<1>. USE DEF a, b
<1>5. ASSUME i = 1 PROVE RemoveAt(s, i) = Tail(s)
  <2>1. a = <<>> /\ b = Tail(s)
    BY <1>5, TailIsSubSeq
  <2>. QED
    BY <1>2, <2>1, ConcatEmptySeq DEF RemoveAt
<1>6. s[i] \in S /\ s[i] \in ToSet(s)
  BY Elements
<1>. QED
  BY <1>3, <1>4, <1>5, <1>6

LEMMA SetOfNothing == ToSet(<<>>) = {} /\ \A S : <<>> \in Seq(S)
  BY DEF ToSet

LEMMA SetOfOne == ASSUME NEW S, NEW x \in S PROVE <<x>> \in Seq(S) /\ ToSet(<<x>>) = {x}
  BY DEF ToSet

LEMMA LoneElement ==
    ASSUME NEW S, NEW s \in Seq(S), s # <<>>, Len(s) <= 1 PROVE s = <<s[1]>> /\ s[1] \in S
<1>1. Len(s) = 1
  <2>1. Len(s) \in Nat
    BY LenProperties
  <2>2. Len(s) # 0
    BY EmptySeq, Zenon
  <2>. QED
    BY <2>1, <2>2
<1>2. s[1] \in S
  BY <1>1, ElementOfSeq
<1>. QED
  BY <1>1, <1>2

---------------------------------------------------------------------------
(* Messages                                                                *)

LEMMA StreamsAreNumbered == Epochs = 1..Len(Lengths) /\ Len(Lengths) \in Nat
  BY ReplayAssumption DEF Epochs

\* The fields a message has are those of its kind.
LEMMA HeardFields ==
    ASSUME NEW m \in Heard
    PROVE  /\ m.kind \in {"event", "resumed", "refused", "transcript", "ackRefused"} /\ m.id \in Nat
           /\ m.kind = "event" => m.event \in Pairs
           /\ m.kind \in {"resumed", "refused"} => m.stream \in Epochs /\ m.upto \in Nat
           /\ m.kind = "resumed" => m.from \in Nat
           /\ m.kind = "transcript" => m.seen \subseteq Pairs
  BY DEF Heard

LEMMA AskedFields ==
    ASSUME NEW m \in Asked
    PROVE  /\ m.kind \in {"resume", "history", "ack"} /\ m.id \in Nat
           /\ m.kind = "resume" => m.stream \in Nat /\ m.from \in Nat
           /\ m.kind = "ack" => m.stream \in Nat
  BY DEF Asked

LEMMA EmittedIs ==
    ASSUME ServerTyped
    PROVE  /\ Emitted \subseteq Pairs
           /\ \A e \in Pairs : e \in Emitted <=> 1 <= e[2] /\ e[2] <= ends[e[1]]
           /\ \A e \in Emitted : e = <<e[1], e[2]>> /\ e[1] \in Epochs /\ e[1] <= epoch /\ e[2] \in Nat
<1>1. \A n \in Epochs : ends[n] \in Nat /\ n \in Nat /\ epoch \in Nat /\ (n > epoch => ends[n] = 0)
  BY StreamsAreNumbered DEF ServerTyped
<1>2. ASSUME NEW e, e \in Emitted
      PROVE  /\ e \in Pairs /\ 1 <= e[2] /\ e[2] <= ends[e[1]] /\ e = <<e[1], e[2]>>
             /\ e[1] \in Epochs /\ e[1] <= epoch /\ e[2] \in Nat
  <2>1. PICK n \in Epochs : e \in {n} \X (1..ends[n])
    BY <1>2 DEF Emitted
  <2>. QED
    BY <1>1, <2>1 DEF Pairs
<1>3. ASSUME NEW e \in Pairs, 1 <= e[2], e[2] <= ends[e[1]] PROVE e \in Emitted
  <2>1. e \in {e[1]} \X (1..ends[e[1]]) /\ e[1] \in Epochs
    BY <1>1, <1>3 DEF Pairs
  <2>. QED
    BY <2>1 DEF Emitted
<1>. QED
  BY <1>2, <1>3

\* A number that no message of some kinds has is chosen for the next one.
LEMMA UnusedIsFresh ==
    ASSUME PipesTyped, NEW kinds
    PROVE  Unused(kinds) \in Nat /\ \A m \in Traffic : m.kind \in kinds => m.id # Unused(kinds)
<1>. DEFINE all == calls \o answers \o wire
            S == Heard \cup Asked
<1>1. wire \in Seq(S) /\ answers \in Seq(S) /\ calls \in Seq(S)
  BY SeqMonotonic DEF PipesTyped
<1>2. calls \o answers \in Seq(S) /\ ToSet(calls \o answers) = ToSet(calls) \cup ToSet(answers)
  BY <1>1, SetOfConcatenated
<1>3. all \in Seq(S) /\ ToSet(all) = Traffic
  <2>. DEFINE u == calls \o answers
  <2>. HIDE DEF S, u
  <2>1. u \o wire \in Seq(S) /\ ToSet(u \o wire) = ToSet(u) \cup ToSet(wire)
    <3>1. u \in Seq(S)
      BY <1>2 DEF u
    <3>. QED
      BY <1>1, <3>1, SetOfConcatenated
  <2>. QED
    BY <1>2, <2>1 DEF Traffic, u
<1>4. Ids(kinds) = {m.id : m \in {x \in Traffic : x.kind \in kinds}}
  BY <1>3, Zenon DEF Ids
<1>5. IsFiniteSet(Ids(kinds)) /\ Cardinality(Ids(kinds)) \in Nat
  <2>. DEFINE used == {i \in 1..Len(all) : all[i].kind \in kinds}
              f == [i \in used |-> all[i].id]
  <2>1. Len(all) \in Nat
    BY <1>3
  <2>2. IsFiniteSet(used)
    <3>1. IsFiniteSet(1..Len(all))
      BY <2>1, FS_Interval
    <3>. QED
      BY <3>1, FS_Subset
  <2>3. f \in Surjection(used, Ids(kinds))
    <3>1. \A x : x \in Traffic <=> \E i \in 1..Len(all) : all[i] = x
      BY <1>3, Elements
    <3>2. \A i \in used : f[i] \in Ids(kinds)
      BY <1>4, <3>1
    <3>3. \A y \in Ids(kinds) : \E i \in used : f[i] = y
      BY <1>4, <3>1
    <3>. QED
      BY <3>2, <3>3 DEF Surjection
  <2>4. IsFiniteSet(Ids(kinds))
    <3>. HIDE DEF f, used
    <3>. QED
      BY <2>2, <2>3, FS_Surjection
  <2>. QED
    BY <2>4, FS_CardinalityType
<1>6. \E i \in 0..Cardinality(Ids(kinds)) : i \notin Ids(kinds)
  <2>. DEFINE n == Cardinality(Ids(kinds))
  <2>1. SUFFICES ASSUME 0..n \subseteq Ids(kinds) PROVE FALSE
    OBVIOUS
  <2>2. Cardinality(0..n) = n + 1
    BY <1>5, FS_Interval
  <2>3. Cardinality(0..n) <= n
    BY <1>5, <2>1, FS_Subset
  <2>. QED
    BY <1>5, <2>2, <2>3
<1>7. Unused(kinds) \in 0..Cardinality(Ids(kinds)) /\ Unused(kinds) \notin Ids(kinds)
  BY <1>6, Zenon DEF Unused
<1>. QED
  BY <1>4, <1>5, <1>7

---------------------------------------------------------------------------
(* The coordinator                                                         *)

LEMMA FreshSound ==
    ASSUME ServerTyped PROVE Fresh \in Coordinators /\ Sound(Fresh) /\ Applied(Fresh)
<1>1. epoch \in Nat
  BY StreamsAreNumbered DEF ServerTyped
<1>. QED
  BY <1>1 DEF Fresh, Coordinators, Sound, Reached, Applied, Increasing, Below

LEMMA CoordinatorFields ==
    ASSUME NEW c \in Coordinators
    PROVE  /\ c.stream \in Nat /\ c.last \in Nat /\ c.held \in Seq(Pairs) /\ c.applied \in Seq(Pairs)
           /\ c.named \in Nat \X Nat
           /\ c.registered \in BOOLEAN /\ c.resuming \in BOOLEAN /\ c.retry \in BOOLEAN
           /\ c.quarantined \in BOOLEAN /\ c.holding \in BOOLEAN
           /\ Len(c.held) \in Nat /\ Len(c.applied) \in Nat
  BY DEF Coordinators

\* A list that is longer by one element at its end.
LEMMA Grown ==
    ASSUME NEW s \in Seq(Pairs), NEW e \in Pairs
    PROVE  /\ Append(s, e) \in Seq(Pairs) /\ Len(Append(s, e)) = Len(s) + 1
           /\ \A i \in 1..(Len(s) + 1) : Append(s, e)[i] = IF i = Len(s) + 1 THEN e ELSE s[i]
  OBVIOUS

\* Nothing is lost or waits without a list, outside a quarantine.
Listed(c) == c.quarantined \/ (c.resuming \/ c.retry => c.holding)

\* What the handling of one event leaves alone.
SameBut(c, d) == d.registered = c.registered /\ d.named = c.named
Idle(c) == ~c.resuming /\ ~c.quarantined

LEMMA AdvanceSound ==
    ASSUME ServerTyped, NEW c \in Coordinators, Sound(c), NEW e \in Emitted
    PROVE  /\ Advance(c, e) \in Coordinators /\ Sound(Advance(c, e)) /\ SameBut(c, Advance(c, e))
           /\ Advance(c, e).stream = e[1] /\ Advance(c, e).last = e[2]
           /\ Advance(c, e).resuming = c.resuming /\ Advance(c, e).quarantined = c.quarantined
           /\ Advance(c, e).retry = c.retry /\ Advance(c, e).holding = c.holding
           /\ Advance(c, e).applied = c.applied /\ Advance(c, e).held = c.held
<1>1. e \in Pairs /\ e[1] \in Epochs /\ e[1] <= epoch /\ e[2] \in Nat /\ e[2] <= ends[e[1]]
  BY EmittedIs
<1>2. e[1] \in Nat /\ e[1] # 0 /\ epoch \in Nat
  BY <1>1, StreamsAreNumbered DEF ServerTyped
<1>3. Advance(c, e) = [c EXCEPT !.stream = e[1], !.last = e[2]]
  BY DEF Advance
<1>. DEFINE d == Advance(c, e)
<1>4. /\ d \in Coordinators /\ d.stream = e[1] /\ d.last = e[2] /\ d.named = c.named
      /\ d.registered = c.registered /\ d.resuming = c.resuming /\ d.quarantined = c.quarantined
      /\ d.retry = c.retry /\ d.holding = c.holding /\ d.applied = c.applied /\ d.held = c.held
  BY <1>1, <1>2, <1>3 DEF Coordinators
<1>5. Reached(d.stream, d.last)
  BY <1>1, <1>2, <1>4 DEF Reached
<1>6. Sound(d)
  <2>. HIDE DEF d
  <2>. QED
    BY <1>4, <1>5 DEF Sound
<1>. QED
  BY <1>4, <1>6 DEF SameBut

LEMMA DeliverSound ==
    ASSUME ServerTyped, NEW c \in Coordinators, Sound(c), NEW e \in Emitted
    PROVE  /\ Deliver(c, e) \in Coordinators /\ Sound(Deliver(c, e)) /\ SameBut(c, Deliver(c, e))
           /\ Deliver(c, e).stream = c.stream /\ Deliver(c, e).last = c.last
           /\ Deliver(c, e).resuming = c.resuming /\ Deliver(c, e).quarantined = c.quarantined
           /\ Deliver(c, e).retry = c.retry /\ Deliver(c, e).holding = c.holding
           /\ Deliver(c, e).applied = Append(c.applied, e) /\ Deliver(c, e).held = c.held
<1>1. e \in Pairs
  BY EmittedIs
<1>2. c.applied \in Seq(Pairs) /\ Append(c.applied, e) \in Seq(Pairs)
      /\ Len(Append(c.applied, e)) = Len(c.applied) + 1 /\ Len(c.applied) \in Nat
      /\ \A i \in 1..(Len(c.applied) + 1) :
           Append(c.applied, e)[i] = IF i = Len(c.applied) + 1 THEN e ELSE c.applied[i]
  BY <1>1, Grown, CoordinatorFields
<1>3. \A i \in 1..Len(Append(c.applied, e)) : Append(c.applied, e)[i] \in Emitted
  BY <1>2 DEF Sound
<1>4. Deliver(c, e) = [c EXCEPT !.applied = Append(c.applied, e)]
  BY DEF Deliver
<1>5. Deliver(c, e) \in Coordinators
  BY <1>2, <1>4 DEF Coordinators
<1>. QED
  BY <1>3, <1>4, <1>5 DEF Coordinators, Sound, SameBut

LEMMA HoldSound ==
    ASSUME NEW c \in Coordinators, Sound(c), NEW hs \in Seq(Pairs),
           \A i \in 1..Len(hs) : hs[i] \in Emitted
    PROVE  /\ Hold(c, hs) \in Coordinators /\ Sound(Hold(c, hs)) /\ SameBut(c, Hold(c, hs))
           /\ Hold(c, hs).stream = c.stream /\ Hold(c, hs).last = c.last
           /\ Hold(c, hs).resuming = c.resuming /\ Hold(c, hs).quarantined = c.quarantined
           /\ Hold(c, hs).retry = c.retry /\ Hold(c, hs).holding
           /\ Hold(c, hs).applied = c.applied /\ Hold(c, hs).held = hs
  BY DEF Hold, Coordinators, Sound, SameBut

LEMMA NoHoldSound ==
    ASSUME NEW c \in Coordinators, Sound(c)
    PROVE  /\ NoHold(c) \in Coordinators /\ Sound(NoHold(c)) /\ SameBut(c, NoHold(c))
           /\ NoHold(c).stream = c.stream /\ NoHold(c).last = c.last
           /\ NoHold(c).resuming = c.resuming /\ NoHold(c).quarantined = c.quarantined
           /\ NoHold(c).retry = c.retry /\ ~NoHold(c).holding
           /\ NoHold(c).applied = c.applied /\ NoHold(c).held = <<>>
<1>. DEFINE d == NoHold(c)
<1>1. d = [c EXCEPT !.holding = FALSE, !.held = <<>>]
  BY DEF NoHold
<1>2. <<>> \in Seq(Pairs)
  OBVIOUS
<1>3. /\ d \in Coordinators /\ d.stream = c.stream /\ d.last = c.last /\ d.named = c.named
      /\ d.registered = c.registered /\ d.resuming = c.resuming /\ d.quarantined = c.quarantined
      /\ d.retry = c.retry /\ ~d.holding /\ d.applied = c.applied /\ d.held = <<>>
  BY <1>1, <1>2 DEF Coordinators
<1>4. Sound(d)
  <2>. HIDE DEF d
  <2>. QED
    BY <1>3 DEF Sound
<1>. QED
  BY <1>3, <1>4 DEF SameBut

LEMMA RequireResyncSound ==
    ASSUME NEW c \in Coordinators, Sound(c)
    PROVE  /\ RequireResync(c) \in Coordinators /\ Sound(RequireResync(c))
           /\ SameBut(c, RequireResync(c))
           /\ RequireResync(c).stream = c.stream /\ RequireResync(c).last = c.last
           /\ RequireResync(c).resuming = c.resuming /\ RequireResync(c).quarantined
           /\ RequireResync(c).applied = c.applied
           /\ c.quarantined => RequireResync(c) = c
<1>1. CASE c.quarantined
  BY <1>1 DEF RequireResync, SameBut
<1>2. CASE ~c.quarantined
  <2>. DEFINE d == RequireResync(c)
              n == NoHold(c)
  <2>1. d = [n EXCEPT !.quarantined = TRUE, !.retry = FALSE]
    BY <1>2 DEF RequireResync
  <2>. HIDE DEF n
  <2>2. n \in Coordinators /\ Sound(n) /\ SameBut(c, n) /\ n.stream = c.stream /\ n.last = c.last
        /\ n.resuming = c.resuming /\ n.applied = c.applied
    BY NoHoldSound DEF n
  <2>3. /\ d \in Coordinators /\ d.stream = n.stream /\ d.last = n.last /\ d.named = n.named
        /\ d.registered = n.registered /\ d.resuming = n.resuming /\ d.quarantined
        /\ d.applied = n.applied /\ d.held = n.held
    BY <2>1, <2>2 DEF Coordinators
  <2>4. Sound(d)
    <3>. HIDE DEF d
    <3>. QED
      BY <2>2, <2>3 DEF Sound
  <2>. QED
    BY <1>2, <2>2, <2>3, <2>4 DEF SameBut
<1>. QED
  BY <1>1, <1>2

\* One event that meets no backfill.
LEMMA ObserveSound ==
    ASSUME ServerTyped, NEW c \in Coordinators, Sound(c), NEW e \in Emitted, Idle(c)
    PROVE  /\ Observe(c, e) \in Coordinators /\ Sound(Observe(c, e)) /\ SameBut(c, Observe(c, e))
           /\ ~Observe(c, e).resuming \/ ~Observe(c, e).quarantined
           /\ Applied(c) => Applied(Observe(c, e))
           /\ Listed(c) => Listed(Observe(c, e))
<1>. DEFINE d == Observe(c, e)
<1>e. e \in Pairs /\ e[1] \in Nat /\ e[1] # 0 /\ e[2] \in Nat
  BY EmittedIs, StreamsAreNumbered
<1>c. c.stream \in Nat /\ c.last \in Nat /\ c.applied \in Seq(Pairs) /\ Len(c.applied) \in Nat
      /\ (c.stream = 0 => c.last = 0)
  BY CoordinatorFields DEF Sound, Reached
<1>a. Advance(c, e) \in Coordinators /\ Sound(Advance(c, e)) /\ SameBut(c, Advance(c, e))
      /\ Advance(c, e).resuming = c.resuming /\ Advance(c, e).applied = c.applied
      /\ Advance(c, e).quarantined = c.quarantined
  BY AdvanceSound
<1>1. CASE Foreign(c, e)
  <2>1. d = RequireResync(Advance(c, e))
    BY <1>1, <1>c, <1>e DEF Observe, Foreign, Duplicate, Gap
  <2>2. d \in Coordinators /\ Sound(d) /\ SameBut(c, d) /\ ~d.resuming /\ d.quarantined
        /\ d.applied = c.applied
    BY <1>a, <2>1, RequireResyncSound DEF SameBut, Idle
  <2>. QED
    BY <2>2 DEF Applied, Listed
<1>2. CASE Duplicate(c, e)
  <2>1. d = c
    BY <1>2, <1>c, <1>e DEF Observe, Foreign, Duplicate, Gap
  <2>. QED
    BY <2>1 DEF SameBut, Idle
<1>3. CASE Gap(c, e)
  <2>1. d = [Hold(c, <<e>>) EXCEPT !.resuming = TRUE]
    BY <1>3, <1>c, <1>e DEF Observe, Foreign, Duplicate, Gap
  <2>2. <<e>> \in Seq(Pairs) /\ \A i \in 1..Len(<<e>>) : <<e>>[i] \in Emitted
    BY <1>e
  <2>3. /\ Hold(c, <<e>>) \in Coordinators /\ Sound(Hold(c, <<e>>)) /\ SameBut(c, Hold(c, <<e>>))
        /\ Hold(c, <<e>>).stream = c.stream /\ Hold(c, <<e>>).last = c.last
        /\ Hold(c, <<e>>).quarantined = c.quarantined
        /\ Hold(c, <<e>>).holding /\ Hold(c, <<e>>).applied = c.applied
    BY <2>2, HoldSound
  <2>4. d \in Coordinators /\ Sound(d) /\ SameBut(c, d) /\ ~d.quarantined /\ d.holding
        /\ d.stream = c.stream /\ d.last = c.last /\ d.applied = c.applied
    BY <2>1, <2>3 DEF Coordinators, Sound, SameBut, Idle
  <2>. QED
    BY <2>4 DEF Applied, Listed, Below, Idle
<1>4. CASE ~Foreign(c, e) /\ ~Duplicate(c, e) /\ ~Gap(c, e)
  <2>1. d = Deliver(Advance(c, e), e)
    BY <1>4 DEF Observe
  <2>2. d \in Coordinators /\ Sound(d) /\ SameBut(c, d) /\ ~d.quarantined /\ ~d.resuming
        /\ d.stream = e[1] /\ d.last = e[2] /\ d.applied = Append(c.applied, e)
        /\ d.retry = c.retry /\ d.holding = c.holding
    <3>. DEFINE a == Advance(c, e)
    <3>1. /\ a \in Coordinators /\ Sound(a) /\ SameBut(c, a) /\ a.stream = e[1] /\ a.last = e[2]
          /\ a.resuming = c.resuming /\ a.quarantined = c.quarantined
          /\ a.retry = c.retry /\ a.holding = c.holding /\ a.applied = c.applied
      BY AdvanceSound
    <3>. HIDE DEF a
    <3>2. d = Deliver(a, e)
      BY <2>1 DEF a
    <3>. HIDE DEF d
    <3>. QED
      BY <3>1, <3>2, DeliverSound DEF SameBut, Idle
  <2>3. c.stream = 0 \/ (c.stream = e[1] /\ e[2] > c.last)
    BY <1>4, <1>c, <1>e DEF Foreign, Duplicate
  <2>4. ASSUME Applied(c) PROVE Applied(d)
    <3>1. Below(c.applied, c) /\ Increasing(c.applied)
      BY <2>4 DEF Applied, Idle
    <3>2. \A i \in 1..Len(c.applied) : c.applied[i] \in Emitted /\ c.applied[i][1] # 0 /\ c.applied[i][2] \in Nat
      BY EmittedIs, StreamsAreNumbered DEF Sound
    <3>3. \A i \in 1..Len(c.applied) : c.applied[i][1] = e[1] /\ c.applied[i][2] < e[2]
      <4>1. SUFFICES ASSUME NEW i \in 1..Len(c.applied)
                     PROVE  c.applied[i][1] = e[1] /\ c.applied[i][2] < e[2]
        OBVIOUS
      <4>2. c.applied[i][1] = c.stream /\ c.applied[i][2] <= c.last /\ c.applied[i][1] # 0 /\ c.applied[i][2] \in Nat
        BY <3>1, <3>2 DEF Below
      <4>3. c.stream = e[1] /\ e[2] > c.last
        BY <2>3, <4>2
      <4>. QED
        BY <1>c, <1>e, <4>2, <4>3
    <3>4. /\ Len(d.applied) = Len(c.applied) + 1
          /\ \A i \in 1..(Len(c.applied) + 1) :
               d.applied[i] = IF i = Len(c.applied) + 1 THEN e ELSE c.applied[i]
      BY <2>2, <1>c, <1>e, Grown
    <3>. HIDE DEF d
    <3>5. Increasing(d.applied)
      <4>1. SUFFICES ASSUME NEW i \in 1..Len(d.applied), NEW j \in 1..Len(d.applied),
                            i < j, d.applied[i][1] = d.applied[j][1]
                     PROVE  d.applied[i][2] < d.applied[j][2]
        BY DEF Increasing
      <4>2. i \in 1..Len(c.applied) /\ d.applied[i] = c.applied[i]
        BY <3>4, <4>1, <1>c
      <4>3. CASE j = Len(c.applied) + 1
        BY <3>3, <3>4, <4>2, <4>3, <1>c
      <4>4. CASE j # Len(c.applied) + 1
        <5>1. j \in 1..Len(c.applied) /\ d.applied[j] = c.applied[j]
          BY <3>4, <4>4, <1>c
        <5>. QED
          BY <3>1, <4>1, <4>2, <5>1 DEF Increasing
      <4>. QED
        BY <4>3, <4>4
    <3>6. ASSUME NEW i \in 1..Len(d.applied) PROVE d.applied[i][1] = d.stream /\ d.applied[i][2] <= d.last
      <4>1. CASE i = Len(c.applied) + 1
        BY <2>2, <3>4, <4>1, <1>c, <1>e
      <4>2. CASE i # Len(c.applied) + 1
        <5>1. i \in 1..Len(c.applied) /\ d.applied[i] = c.applied[i]
          BY <3>4, <4>2, <1>c
        <5>2. c.applied[i][1] = e[1] /\ c.applied[i][2] < e[2] /\ c.applied[i][2] \in Nat
          BY <3>2, <3>3, <5>1
        <5>. QED
          BY <2>2, <5>1, <5>2, <1>e
      <4>. QED
        BY <4>1, <4>2
    <3>. QED
      BY <3>5, <3>6 DEF Applied, Below
  <2>. QED
    BY <2>2, <2>4 DEF Listed, Idle
<1>. QED
  BY <1>1, <1>2, <1>3, <1>4

LEMMA HandleSound ==
    ASSUME ServerTyped, NEW c \in Coordinators, Sound(c), NEW e \in Emitted
    PROVE  /\ Handle(c, e) \in Coordinators /\ Sound(Handle(c, e)) /\ SameBut(c, Handle(c, e))
           /\ c.quarantined => Handle(c, e) = c
           /\ c.resuming => /\ Handle(c, e).resuming /\ Handle(c, e).quarantined = c.quarantined
                            /\ Handle(c, e).stream = c.stream /\ Handle(c, e).last = c.last
                            /\ Handle(c, e).applied = c.applied /\ Handle(c, e).holding = c.holding
           /\ ~c.resuming \/ ~c.quarantined => ~Handle(c, e).resuming \/ ~Handle(c, e).quarantined
           /\ Applied(c) => Applied(Handle(c, e))
           /\ Listed(c) => Listed(Handle(c, e))
<1>. DEFINE d == Handle(c, e)
<1>1. CASE c.quarantined
  BY <1>1 DEF Handle, SameBut
<1>2. CASE ~c.quarantined /\ c.resuming /\ c.holding
  <2>1. d = Hold(c, Append(c.held, e))
    BY <1>2 DEF Handle
  <2>2. /\ Append(c.held, e) \in Seq(Pairs)
        /\ \A i \in 1..Len(Append(c.held, e)) : Append(c.held, e)[i] \in Emitted
    BY CoordinatorFields, EmittedIs, Grown DEF Sound
  <2>3. d \in Coordinators /\ Sound(d) /\ SameBut(c, d) /\ d.stream = c.stream /\ d.last = c.last
        /\ d.resuming = c.resuming /\ d.quarantined = c.quarantined /\ d.holding /\ d.applied = c.applied
    <3>. DEFINE hs == Append(c.held, e)
    <3>. HIDE DEF hs
    <3>1. d = Hold(c, hs) /\ hs \in Seq(Pairs) /\ \A i \in 1..Len(hs) : hs[i] \in Emitted
      BY <2>1, <2>2 DEF hs
    <3>. QED
      BY <3>1, HoldSound
  <2>. QED
    BY <1>2, <2>3 DEF Applied, Listed, Below
<1>3. CASE ~c.quarantined /\ c.resuming /\ ~c.holding
  BY <1>3 DEF Handle, SameBut
<1>4. CASE ~c.quarantined /\ ~c.resuming
  <2>1. d = Observe(c, e)
    BY <1>4 DEF Handle
  <2>. QED
    BY <1>4, <2>1, ObserveSound DEF Idle
<1>. QED
  BY <1>1, <1>2, <1>3, <1>4, CoordinatorFields

\* The flush of a list of emitted events.
LEMMA FlushSound ==
    ASSUME ServerTyped, NEW c \in Coordinators, Sound(c)
    PROVE  /\ Flush(c) \in Coordinators /\ Sound(Flush(c)) /\ SameBut(c, Flush(c))
           /\ ~Flush(c).resuming \/ ~Flush(c).quarantined
           /\ c.quarantined => Flush(c).quarantined
           /\ Applied(Landing(c)) => Applied(Flush(c))
           /\ Listed(Flush(c))
<1>. DEFINE Fine(x) ==
              /\ x \in Coordinators /\ Sound(x) /\ SameBut(c, x)
              /\ ~x.resuming \/ ~x.quarantined
              /\ c.quarantined => x.quarantined
              /\ Applied(Landing(c)) => Applied(x)
              /\ Listed(x)
            S == {p \in Nat \X Coordinators : Fine(p[2])}
<1>1. Fine(Landing(c))
  <2>1. Landing(c) = [NoHold(c) EXCEPT !.resuming = FALSE, !.retry = FALSE]
    BY DEF Landing
  <2>2. Landing(c) \in Coordinators /\ Sound(Landing(c)) /\ SameBut(c, Landing(c))
        /\ ~Landing(c).resuming /\ ~Landing(c).retry /\ Landing(c).quarantined = c.quarantined
    <3>. DEFINE n == NoHold(c)
                d == Landing(c)
    <3>1. n \in Coordinators /\ Sound(n) /\ SameBut(c, n) /\ n.quarantined = c.quarantined
      BY NoHoldSound
    <3>2. d = [n EXCEPT !.resuming = FALSE, !.retry = FALSE]
      BY DEF Landing
    <3>. HIDE DEF n, d
    <3>3. /\ d \in Coordinators /\ d.stream = n.stream /\ d.last = n.last /\ d.named = n.named
          /\ d.registered = n.registered /\ ~d.resuming /\ d.quarantined = n.quarantined
          /\ ~d.retry /\ d.applied = n.applied /\ d.held = n.held
      BY <3>1, <3>2 DEF Coordinators
    <3>4. Sound(d)
      BY <3>1, <3>3 DEF Sound
    <3>. QED
      BY <3>1, <3>3, <3>4 DEF SameBut, d
  <2>. QED
    BY <2>2 DEF Listed
<1>2. Len(c.held) \in Nat /\ \A i \in 1..Len(c.held) : c.held[i] \in Emitted
  BY CoordinatorFields DEF Sound
<1>3. ASSUME NEW e \in Emitted, NEW x, Fine(x) PROVE Fine(Handle(x, e))
  BY <1>3, HandleSound DEF SameBut
<1>. HIDE DEF Fine
<1>4. <<0, Landing(c)>> \in S
  <2>1. Landing(c) \in Coordinators
    BY <1>1 DEF Fine
  <2>. QED
    BY <1>1, <2>1
<1>5. ASSUME NEW i \in 1..Len(c.held), NEW x, <<i - 1, x>> \in S PROVE <<i, Handle(x, c.held[i])>> \in S
  <2>1. Fine(x)
    BY <1>5
  <2>2. Fine(Handle(x, c.held[i]))
    BY <2>1, <1>2, <1>3
  <2>3. Handle(x, c.held[i]) \in Coordinators
    BY <2>2 DEF Fine
  <2>. QED
    BY <2>2, <2>3
<1>6. <<Len(c.held), Flush(c)>> \in S
  <2>. HIDE DEF S
  <2>. QED
    BY <1>2, <1>4, <1>5, FlushPreserves
<1>7. Fine(Flush(c))
  BY <1>6
<1>. QED
  BY <1>7 DEF Fine

LEMMA ResumeAllSound ==
    ASSUME NEW c \in Coordinators, Sound(c)
    PROVE  /\ ResumeAll(c) \in Coordinators /\ Sound(ResumeAll(c)) /\ SameBut(c, ResumeAll(c))
           /\ ResumeAll(c).stream = c.stream /\ ResumeAll(c).last = c.last
           /\ ResumeAll(c).quarantined = c.quarantined /\ ResumeAll(c).applied = c.applied
           /\ c.resuming => ResumeAll(c) = c
           /\ ~c.resuming /\ ResumeAll(c).resuming => ~c.quarantined
           /\ ~Resumable(c) => ResumeAll(c) = c
           /\ Resumable(c) => ResumeAll(c).resuming
           /\ Applied(c) => Applied(ResumeAll(c))
           /\ Listed(c) => Listed(ResumeAll(c))
<1>. DEFINE d == ResumeAll(c)
<1>1. CASE ~Resumable(c)
  BY <1>1, CoordinatorFields DEF ResumeAll, Resumable, SameBut
<1>2. CASE Resumable(c)
  <2>. DEFINE h == Hold(c, <<>>)
  <2>1. <<>> \in Seq(Pairs) /\ \A i \in 1..Len(<<>>) : <<>>[i] \in Emitted
    OBVIOUS
  <2>2. /\ h \in Coordinators /\ Sound(h) /\ SameBut(c, h) /\ h.stream = c.stream /\ h.last = c.last
        /\ h.resuming = c.resuming /\ h.quarantined = c.quarantined /\ h.holding
        /\ h.applied = c.applied
    BY <2>1, HoldSound
  <2>3. d = [(IF c.retry THEN c ELSE h) EXCEPT !.resuming = TRUE]
    BY <1>2 DEF ResumeAll
  <2>. HIDE DEF h, d
  <2>4. PICK b \in {c, h} : b = IF c.retry THEN c ELSE h
    OBVIOUS
  <2>5. /\ b \in Coordinators /\ Sound(b) /\ SameBut(c, b) /\ b.stream = c.stream /\ b.last = c.last
        /\ b.quarantined = c.quarantined /\ b.applied = c.applied
        /\ b.holding \/ (c.retry /\ b.holding = c.holding)
    BY <2>2, <2>4 DEF SameBut
  <2>6. /\ d \in Coordinators /\ d.stream = b.stream /\ d.last = b.last /\ d.named = b.named
        /\ d.registered = b.registered /\ d.resuming /\ d.quarantined = b.quarantined
        /\ d.retry = b.retry /\ d.applied = b.applied /\ d.held = b.held /\ d.holding = b.holding
    BY <2>3, <2>4, <2>5 DEF Coordinators
  <2>7. Sound(d)
    BY <2>5, <2>6 DEF Sound
  <2>8. d \in Coordinators /\ Sound(d) /\ SameBut(c, d) /\ d.stream = c.stream /\ d.last = c.last
        /\ d.quarantined = c.quarantined /\ d.applied = c.applied /\ d.resuming
        /\ (d.holding \/ (c.retry /\ d.holding = c.holding))
    BY <2>5, <2>6, <2>7 DEF SameBut
  <2>9. ~c.resuming /\ ~c.quarantined
    BY <1>2 DEF Resumable
  <2>10. Applied(c) => Applied(d)
    BY <2>8, <2>9 DEF Applied, Below
  <2>11. Listed(c) => Listed(d)
    BY <2>8, <2>9 DEF Listed
  <2>. QED
    BY <1>2, <2>8, <2>9, <2>10, <2>11 DEF d
<1>. QED
  BY <1>1, <1>2

LEMMA CompleteResyncSound ==
    ASSUME ServerTyped, NEW c \in Coordinators, Sound(c)
    PROVE  /\ CompleteResync(c) \in Coordinators /\ Sound(CompleteResync(c))
           /\ CompleteResync(c).stream = c.named[1] /\ CompleteResync(c).last = c.named[2]
           /\ CompleteResync(c).named = <<0, 0>> /\ CompleteResync(c).registered = c.registered
           /\ CompleteResync(c).resuming = c.resuming /\ ~CompleteResync(c).quarantined
           /\ ~CompleteResync(c).retry /\ CompleteResync(c).applied = <<>>
           /\ Applied(CompleteResync(c))
           /\ ~c.resuming => Listed(CompleteResync(c))
<1>. DEFINE n == NoHold(c)
            d == CompleteResync(c)
<1>1. n \in Coordinators /\ Sound(n) /\ SameBut(c, n) /\ n.resuming = c.resuming
      /\ ~n.holding /\ n.held = <<>>
  BY NoHoldSound
<1>2. d = [n EXCEPT !.stream = c.named[1], !.last = c.named[2], !.named = <<0, 0>>,
                    !.quarantined = FALSE, !.retry = FALSE, !.applied = <<>>]
  BY DEF CompleteResync
<1>. HIDE DEF n, d
<1>3. c.named[1] \in Nat /\ c.named[2] \in Nat /\ <<>> \in Seq(Pairs) /\ <<0, 0>> \in Nat \X Nat
  BY CoordinatorFields
<1>4. /\ d \in Coordinators /\ d.stream = c.named[1] /\ d.last = c.named[2] /\ d.named = <<0, 0>>
      /\ d.registered = n.registered /\ d.resuming = n.resuming /\ ~d.quarantined
      /\ ~d.retry /\ d.applied = <<>> /\ d.held = n.held /\ d.holding = n.holding
  BY <1>1, <1>2, <1>3 DEF Coordinators
<1>5. Reached(0, 0)
  BY StreamsAreNumbered DEF ServerTyped, Reached
<1>6. Sound(d)
  BY <1>1, <1>4, <1>5 DEF Sound
<1>. QED
  BY <1>1, <1>4, <1>6 DEF d, SameBut, Applied, Increasing, Below, Listed

LEMMA UnregisterSound ==
    ASSUME ServerTyped, NEW c \in Coordinators
    PROVE  /\ Unregister(c) \in Coordinators /\ Sound(Unregister(c)) /\ Applied(Unregister(c))
           /\ Unregister(c).stream = 0 /\ Unregister(c).last = 0
           /\ Unregister(c).resuming = c.resuming /\ ~Unregister(c).registered
           /\ Unregister(c).named = <<0, 0>> /\ ~Unregister(c).quarantined
           /\ ~c.resuming => Listed(Unregister(c))
<1>. DEFINE d == Unregister(c)
<1>1. d = [Fresh EXCEPT !.resuming = c.resuming]
  BY DEF Unregister
<1>2. /\ d \in Coordinators /\ d.stream = 0 /\ d.last = 0 /\ d.named = <<0, 0>> /\ d.held = <<>>
      /\ d.applied = <<>> /\ d.resuming = c.resuming /\ ~d.registered /\ ~d.quarantined /\ ~d.retry
  BY <1>1, CoordinatorFields, FreshSound DEF Fresh, Coordinators
<1>3. Reached(0, 0)
  BY FreshSound DEF Sound, Fresh
<1>4. Sound(d)
  <2>. HIDE DEF d
  <2>. QED
    BY <1>2, <1>3 DEF Sound
<1>. QED
  BY <1>2, <1>4 DEF Applied, Increasing, Below, Listed

LEMMA RetrySound ==
    ASSUME NEW c \in Coordinators, Sound(c)
    PROVE  /\ Retry(c) \in Coordinators /\ Sound(Retry(c)) /\ SameBut(c, Retry(c))
           /\ Retry(c).stream = c.stream /\ Retry(c).last = c.last
           /\ Retry(c).quarantined = c.quarantined /\ Retry(c).applied = c.applied
           /\ ~Retry(c).resuming /\ Retry(c).retry /\ Retry(c).holding = c.holding
           /\ Applied(c) /\ (c.resuming \/ ~c.quarantined) => Applied(Retry(c))
           /\ Listed(c) /\ c.resuming => Listed(Retry(c))
<1>. DEFINE d == Retry(c)
<1>1. d = [c EXCEPT !.retry = TRUE, !.resuming = FALSE]
  BY DEF Retry
<1>2. /\ d \in Coordinators /\ d.stream = c.stream /\ d.last = c.last /\ d.named = c.named
      /\ d.registered = c.registered /\ ~d.resuming /\ d.quarantined = c.quarantined
      /\ d.retry /\ d.applied = c.applied /\ d.held = c.held /\ d.holding = c.holding
  BY <1>1 DEF Coordinators
<1>. HIDE DEF d
<1>3. Sound(d)
  BY <1>2 DEF Sound
<1>4. Applied(c) /\ (c.resuming \/ ~c.quarantined) => Applied(d)
  BY <1>2 DEF Applied, Below
<1>. QED
  BY <1>2, <1>3, <1>4 DEF d, SameBut, Listed

LEMMA RegisteredSound ==
    ASSUME NEW c \in Coordinators, Sound(c)
    PROVE  LET d == [c EXCEPT !.registered = TRUE]
           IN  /\ d \in Coordinators /\ Sound(d) /\ d.registered
               /\ d.stream = c.stream /\ d.last = c.last /\ d.named = c.named
               /\ d.quarantined = c.quarantined /\ d.resuming = c.resuming /\ d.applied = c.applied
               /\ d.retry = c.retry /\ d.holding = c.holding /\ d.held = c.held
               /\ Applied(c) => Applied(d)
               /\ Listed(c) => Listed(d)
<1>. DEFINE d == [c EXCEPT !.registered = TRUE]
<1>2. /\ d \in Coordinators /\ d.stream = c.stream /\ d.last = c.last /\ d.named = c.named
      /\ d.registered /\ d.resuming = c.resuming /\ d.quarantined = c.quarantined
      /\ d.retry = c.retry /\ d.applied = c.applied /\ d.held = c.held /\ d.holding = c.holding
  BY DEF Coordinators
<1>. HIDE DEF d
<1>3. Sound(d)
  BY <1>2 DEF Sound
<1>4. Applied(c) => Applied(d)
  BY <1>2 DEF Applied, Below
<1>. QED
  BY <1>2, <1>3, <1>4 DEF d, Listed

\* The answer of a backfill: what it adds, and where the cursor goes.
Replayed(a, last) ==
    [i \in 1..(a.upto + 1 - First(a, last)) |-> <<a.stream, First(a, last) + i - 1>>]

LEMMA ReplayedIs ==
    ASSUME ServerTyped, NEW a \in Heard, a.kind = "resumed", Truthful(a), NEW last \in Nat
    PROVE  /\ Replayed(a, last) \in Seq(Pairs) /\ Len(Replayed(a, last)) \in Nat
           /\ \A i \in 1..Len(Replayed(a, last)) :
                /\ Replayed(a, last)[i] \in Emitted
                /\ Replayed(a, last)[i][1] = a.stream
                /\ Replayed(a, last)[i][2] = First(a, last) + i - 1
                /\ Replayed(a, last)[i][2] > last /\ Replayed(a, last)[i][2] <= a.upto
           /\ Increasing(Replayed(a, last))
<1>1. a.stream \in Epochs /\ a.upto \in Nat /\ a.from \in Nat /\ a.upto <= ends[a.stream]
  BY HeardFields DEF Truthful
<1>. DEFINE f == First(a, last)
            n == a.upto + 1 - f
            s == Replayed(a, last)
<1>2. f \in Nat /\ f > last /\ f > a.from
  BY <1>1 DEF First
<1>3. s = [i \in 1..n |-> <<a.stream, f + i - 1>>] /\ n \in Int
  BY <1>1, <1>2 DEF Replayed
<1>. HIDE DEF f, s
<1>4. \A i \in 1..n : f + i - 1 \in Nat /\ f + i - 1 > last /\ f + i - 1 <= a.upto /\ <<a.stream, f + i - 1>> \in Pairs
  BY <1>1, <1>2 DEF Pairs
<1>5. s \in Seq(Pairs) /\ Len(s) = (IF n >= 0 THEN n ELSE 0) /\ \A i \in 1..Len(s) : i \in 1..n /\ s[i] = <<a.stream, f + i - 1>>
  <2>1. CASE n >= 0
    BY <1>3, <1>4, <2>1
  <2>2. CASE ~(n >= 0)
    <3>1. s = <<>>
      BY <1>3, <2>2
    <3>. QED
      BY <3>1, <2>2
  <2>. QED
    BY <2>1, <2>2
<1>6. Len(s) \in Nat
  BY <1>5, LenProperties
<1>7. ASSUME NEW i \in 1..Len(s)
      PROVE  s[i] \in Emitted /\ s[i][1] = a.stream /\ s[i][2] = f + i - 1 /\ s[i][2] > last /\ s[i][2] <= a.upto
  <2>1. i \in 1..n /\ s[i] = <<a.stream, f + i - 1>>
    BY <1>5
  <2>2. s[i] \in Pairs /\ s[i][1] = a.stream /\ s[i][2] = f + i - 1 /\ s[i][2] > last /\ s[i][2] <= a.upto
    BY <1>4, <2>1
  <2>c. ends[a.stream] \in Nat /\ a.upto \in Nat /\ a.upto <= ends[a.stream] /\ f \in Nat /\ f >= 1
    BY <1>1, <1>2 DEF ServerTyped
  <2>3. 1 <= s[i][2] /\ s[i][2] <= ends[s[i][1]] /\ ends[a.stream] \in Nat
    BY <2>c, <2>2
  <2>. QED
    BY <2>2, <2>3, EmittedIs
<1>8. Increasing(s)
  BY <1>2, <1>5, <1>6 DEF Increasing
<1>. QED
  BY <1>5, <1>6, <1>7, <1>8 DEF f, s


LEMMA Joined ==
    ASSUME NEW s \in Seq(Pairs), NEW t \in Seq(Pairs)
    PROVE  /\ s \o t \in Seq(Pairs) /\ Len(s \o t) = Len(s) + Len(t) /\ Len(s) \in Nat /\ Len(t) \in Nat
           /\ \A i \in 1..Len(s) : (s \o t)[i] = s[i]
           /\ \A i \in 1..Len(s \o t) : i > Len(s) => i - Len(s) \in 1..Len(t) /\ (s \o t)[i] = t[i - Len(s)]
  BY ConcatProperties, LenProperties

\* The answer of a backfill is of the cursor's stream, or the cursor is dropped.
Fits(a) == flight.own => rc.stream \in {0, a.stream}

\* The coordinator that the flush starts from.
Replaying(a) ==
    LET c == ApplyResume(rc, a, IF flight.own THEN rc.last ELSE flight.last)
    IN  IF flight.own THEN Moved(c, a) ELSE c

LEMMA ReplayingSound ==
    ASSUME Typed, Sound(rc), NEW a \in Heard, a.kind = "resumed", Truthful(a), Fits(a)
    PROVE  /\ Replaying(a) \in Coordinators /\ Sound(Replaying(a)) /\ SameBut(rc, Replaying(a))
           /\ Replaying(a).resuming = rc.resuming /\ Replaying(a).quarantined = rc.quarantined
           /\ Replaying(a).held = rc.held /\ Replaying(a).holding = rc.holding
           /\ flight.own => /\ Replaying(a).stream = a.stream
                            /\ Replaying(a).last = IF a.upto > rc.last THEN a.upto ELSE rc.last
           /\ ~flight.own => Replaying(a).stream = rc.stream /\ Replaying(a).last = rc.last
           /\ Replaying(a).applied =
                rc.applied \o Replayed(a, IF flight.own THEN rc.last ELSE flight.last)
<1>. DEFINE last == IF flight.own THEN rc.last ELSE flight.last
            more == Replayed(a, last)
            d == Replaying(a)
<1>1. a.stream \in Epochs /\ a.upto \in Nat /\ a.stream <= epoch /\ a.upto <= ends[a.stream]
      /\ a.stream \in Nat /\ a.stream # 0 /\ epoch \in Nat
  BY HeardFields, StreamsAreNumbered DEF Truthful, Typed, ServerTyped
<1>2. ServerTyped /\ rc \in Coordinators /\ flight \in Flights
  BY DEF Typed, ClientTyped
<1>3. last \in Nat
  BY <1>2, CoordinatorFields DEF Flights
<1>4. more \in Seq(Pairs) /\ (\A i \in 1..Len(more) : more[i] \in Emitted)
  BY <1>2, <1>3, ReplayedIs
<1>5. d = [rc EXCEPT !.applied = rc.applied \o more,
                     !.stream = IF flight.own THEN a.stream ELSE rc.stream,
                     !.last = IF flight.own /\ a.upto > rc.last THEN a.upto ELSE rc.last]
  BY <1>2 DEF Replaying, ApplyResume, Moved, Replayed, Coordinators
<1>6. rc.applied \in Seq(Pairs) /\ rc.applied \o more \in Seq(Pairs)
      /\ \A i \in 1..Len(rc.applied \o more) : (rc.applied \o more)[i] \in Emitted
  <2>1. rc.applied \in Seq(Pairs) /\ \A i \in 1..Len(rc.applied) : rc.applied[i] \in Emitted
    BY <1>2, CoordinatorFields DEF Sound
  <2>. HIDE DEF more
  <2>. QED
    BY <1>4, <2>1, Joined
<1>. HIDE DEF d
<1>7. /\ d \in Coordinators /\ d.named = rc.named /\ d.registered = rc.registered
      /\ d.resuming = rc.resuming /\ d.quarantined = rc.quarantined
      /\ d.held = rc.held /\ d.holding = rc.holding /\ d.applied = rc.applied \o more
      /\ d.stream = (IF flight.own THEN a.stream ELSE rc.stream)
      /\ d.last = (IF flight.own /\ a.upto > rc.last THEN a.upto ELSE rc.last)
  <2>. HIDE DEF more
  <2>. QED
    BY <1>1, <1>2, <1>5, <1>6 DEF Coordinators
<1>8. Reached(d.stream, d.last)
  <2>1. CASE flight.own
    <3>1. rc.last \in Nat /\ rc.last <= ends[a.stream] /\ ends[a.stream] \in Nat
      <4>1. rc.stream = 0 => rc.last = 0
        BY DEF Sound, Reached
      <4>2. rc.stream # 0 => rc.last <= ends[rc.stream]
        BY DEF Sound, Reached
      <4>3. rc.last \in Nat /\ ends[a.stream] \in Nat
        BY <1>1, <1>2, CoordinatorFields DEF ServerTyped
      <4>. QED
        BY <2>1, <4>1, <4>2, <4>3 DEF Fits
    <3>. QED
      BY <1>1, <1>7, <2>1, <3>1 DEF Reached
  <2>2. CASE ~flight.own
    BY <1>7, <2>2 DEF Sound
  <2>. QED
    BY <2>1, <2>2
<1>9. Sound(d)
  <2>. HIDE DEF more
  <2>. QED
    BY <1>6, <1>7, <1>8 DEF Sound
<1>. QED
  BY <1>7, <1>9 DEF d, SameBut

\* What an own backfill adds is past what was applied before it.
LEMMA ReplayingApplied ==
    ASSUME Typed, Sound(rc), NEW a \in Heard, a.kind = "resumed", Truthful(a), Fits(a),
           flight.own, rc.resuming, Applied(rc)
    PROVE  Increasing(Replaying(a).applied) /\ Below(Replaying(a).applied, Replaying(a))
<1>. DEFINE more == Replayed(a, rc.last)
            d == Replaying(a)
            old == rc.applied
<1>1. d.applied = old \o more /\ d.stream = a.stream
      /\ d.last = IF a.upto > rc.last THEN a.upto ELSE rc.last
  BY ReplayingSound
<1>2. rc \in Coordinators /\ ServerTyped /\ old \in Seq(Pairs) /\ rc.last \in Nat /\ a.upto \in Nat
  BY CoordinatorFields, HeardFields DEF Typed, ClientTyped
<1>3. /\ more \in Seq(Pairs) /\ Increasing(more)
      /\ \A i \in 1..Len(more) : more[i][1] = a.stream /\ more[i][2] > rc.last /\ more[i][2] <= a.upto
  BY <1>2, ReplayedIs
<1>4. Increasing(old) /\ \A i \in 1..Len(old) : old[i][1] = a.stream /\ old[i][2] <= rc.last
  <2>1. Increasing(old) /\ \A i \in 1..Len(old) : old[i][1] = rc.stream /\ old[i][2] <= rc.last
    BY DEF Applied, Below
  <2>2. \A i \in 1..Len(old) : old[i][1] # 0
    BY <1>2, EmittedIs, StreamsAreNumbered DEF Sound
  <2>. QED
    BY <2>1, <2>2 DEF Fits
<1>5. /\ Len(old) \in Nat /\ Len(d.applied) = Len(old) + Len(more) /\ Len(more) \in Nat
      /\ \A i \in 1..Len(old) : d.applied[i] = old[i]
      /\ \A i \in 1..Len(d.applied) : i > Len(old) =>
           i - Len(old) \in 1..Len(more) /\ d.applied[i] = more[i - Len(old)]
  <2>. HIDE DEF more, old, d
  <2>. QED
    BY <1>1, <1>2, <1>3, Joined
<1>6. \A i \in 1..Len(old) : old[i][2] \in Nat
  BY <1>2, EmittedIs DEF Sound
<1>7. \A i \in 1..Len(more) : more[i][2] \in Nat
  BY <1>2, <1>3, ReplayedIs, EmittedIs
<1>. HIDE DEF d, old, more
<1>8. \A i \in 1..Len(d.applied) : d.applied[i][1] = d.stream /\ d.applied[i][2] <= d.last
  <2>1. SUFFICES ASSUME NEW i \in 1..Len(d.applied)
                 PROVE  d.applied[i][1] = d.stream /\ d.applied[i][2] <= d.last
    OBVIOUS
  <2>2. CASE i <= Len(old)
    <3>1. i \in 1..Len(old) /\ d.applied[i] = old[i] /\ old[i][2] \in Nat
      BY <1>5, <1>6, <2>2
    <3>. QED
      BY <1>1, <1>2, <1>4, <3>1
  <2>3. CASE i > Len(old)
    <3>1. i - Len(old) \in 1..Len(more) /\ d.applied[i] = more[i - Len(old)]
      BY <1>5, <2>3
    <3>2. more[i - Len(old)][2] \in Nat
      BY <1>7, <3>1
    <3>. QED
      BY <1>1, <1>2, <1>3, <3>1, <3>2
  <2>. QED
    BY <1>5, <2>2, <2>3
<1>9. Increasing(d.applied)
  <2>1. SUFFICES ASSUME NEW i \in 1..Len(d.applied), NEW j \in 1..Len(d.applied), i < j,
                        d.applied[i][1] = d.applied[j][1]
                 PROVE  d.applied[i][2] < d.applied[j][2]
    BY DEF Increasing
  <2>2. CASE j <= Len(old)
    <3>1. i \in 1..Len(old) /\ j \in 1..Len(old) /\ d.applied[i] = old[i] /\ d.applied[j] = old[j]
      BY <1>5, <2>1, <2>2
    <3>. QED
      BY <1>4, <2>1, <3>1 DEF Increasing
  <2>3. CASE i <= Len(old) /\ j > Len(old)
    <3>1. i \in 1..Len(old) /\ d.applied[i] = old[i] /\ old[i][2] \in Nat
      BY <1>5, <1>6, <2>3
    <3>2. j - Len(old) \in 1..Len(more) /\ d.applied[j] = more[j - Len(old)]
      BY <1>5, <2>3
    <3>3. more[j - Len(old)][2] \in Nat /\ more[j - Len(old)][2] > rc.last
      BY <1>3, <1>7, <3>2
    <3>4. old[i][2] <= rc.last
      BY <1>3, <1>4, <3>1
    <3>. QED
      BY <1>2, <3>1, <3>2, <3>3, <3>4
  <2>4. CASE i > Len(old)
    <3>1. i - Len(old) \in 1..Len(more) /\ d.applied[i] = more[i - Len(old)]
      BY <1>5, <2>4
    <3>2. j - Len(old) \in 1..Len(more) /\ d.applied[j] = more[j - Len(old)]
      BY <1>5, <2>1, <2>4
    <3>3. i - Len(old) < j - Len(old)
      BY <1>5, <2>1
    <3>. QED
      BY <1>3, <2>1, <3>1, <3>2, <3>3 DEF Increasing
  <2>. QED
    BY <1>5, <2>2, <2>3, <2>4
<1>. QED
  BY <1>8, <1>9 DEF Below, d

LEMMA LandedSound ==
    ASSUME Typed, Sound(rc), NEW a \in Heard, a.kind = "resumed", Truthful(a), Fits(a), rc.resuming
    PROVE  /\ Landed(a) \in Coordinators /\ Sound(Landed(a)) /\ SameBut(rc, Landed(a))
           /\ ~Landed(a).resuming \/ ~Landed(a).quarantined
           /\ rc.quarantined => Landed(a).quarantined
           /\ flight.own /\ Applied(rc) => Applied(Landed(a))
           /\ Listed(Landed(a))
<1>. DEFINE d == Replaying(a)
<1>1. Landed(a) = Flush(d)
  BY DEF Landed, Replaying
<1>2. d \in Coordinators /\ Sound(d) /\ SameBut(rc, d) /\ d.quarantined = rc.quarantined
  BY ReplayingSound
<1>3. ASSUME flight.own, Applied(rc) PROVE Applied(Landing(d))
  <2>1. Increasing(d.applied) /\ Below(d.applied, d)
    BY <1>3, ReplayingApplied
  <2>. HIDE DEF d
  <2>2. Landing(d).applied = d.applied /\ Landing(d).stream = d.stream /\ Landing(d).last = d.last
    BY <1>2 DEF Landing, NoHold, Coordinators
  <2>. QED
    BY <2>1, <2>2 DEF Applied, Below
<1>. HIDE DEF d
<1>4. /\ Flush(d) \in Coordinators /\ Sound(Flush(d)) /\ SameBut(d, Flush(d))
      /\ ~Flush(d).resuming \/ ~Flush(d).quarantined
      /\ d.quarantined => Flush(d).quarantined
      /\ Applied(Landing(d)) => Applied(Flush(d))
      /\ Listed(Flush(d))
  BY <1>2, FlushSound DEF Typed
<1>. QED
  BY <1>1, <1>2, <1>3, <1>4 DEF SameBut

LEMMA RefusedSound ==
    ASSUME Typed, Sound(rc), NEW a \in Heard, a.kind = "refused", Truthful(a)
    PROVE  /\ Refused(a) \in Coordinators /\ Sound(Refused(a))
           /\ Refused(a).registered = rc.registered /\ ~Refused(a).resuming
           /\ Refused(a).quarantined /\ Refused(a).named = <<a.stream, a.upto>>
           /\ Refused(a).applied = rc.applied
           /\ Applied(rc) => Applied(Refused(a))
           /\ Listed(Refused(a))
<1>. DEFINE b == [rc EXCEPT !.named = <<a.stream, a.upto>>]
            q == RequireResync(b)
            n == NoHold(q)
            d == Refused(a)
<1>1. a.stream \in Epochs /\ a.upto \in Nat /\ a.stream <= epoch /\ a.upto <= ends[a.stream]
      /\ a.stream \in Nat /\ a.stream # 0 /\ epoch \in Nat
  BY HeardFields, StreamsAreNumbered DEF Truthful, Typed, ServerTyped
<1>2. rc \in Coordinators
  BY DEF Typed, ClientTyped
<1>3. /\ b \in Coordinators /\ b.named = <<a.stream, a.upto>> /\ b.registered = rc.registered
      /\ b.stream = rc.stream /\ b.last = rc.last /\ b.held = rc.held /\ b.applied = rc.applied
  BY <1>1, <1>2 DEF Coordinators
<1>. HIDE DEF b
<1>4. Sound(b)
  BY <1>1, <1>3 DEF Sound, Reached
<1>5. q \in Coordinators /\ Sound(q) /\ SameBut(b, q) /\ q.quarantined /\ q.applied = b.applied
  BY <1>3, <1>4, RequireResyncSound
<1>. HIDE DEF q
<1>6. n \in Coordinators /\ Sound(n) /\ SameBut(q, n) /\ n.quarantined = q.quarantined
      /\ n.applied = q.applied
  BY <1>5, NoHoldSound
<1>7. d = [n EXCEPT !.resuming = FALSE]
  BY DEF Refused, b, q
<1>. HIDE DEF n, d
<1>8. /\ d \in Coordinators /\ d.stream = n.stream /\ d.last = n.last /\ d.named = n.named
      /\ d.registered = n.registered /\ ~d.resuming /\ d.quarantined = n.quarantined
      /\ d.applied = n.applied /\ d.held = n.held
  BY <1>6, <1>7 DEF Coordinators
<1>9. Sound(d)
  BY <1>6, <1>8 DEF Sound
<1>. QED
  BY <1>3, <1>5, <1>6, <1>8, <1>9 DEF SameBut, Applied, Listed, d

---------------------------------------------------------------------------
(* The types are kept                                                      *)

\* A server that only gets further takes nothing back.
LEMMA ServerGrows ==
    ASSUME ServerTyped, ServerTyped', epoch <= epoch', \A n \in Epochs : ends[n] <= ends'[n]
    PROVE  /\ Emitted \subseteq Emitted'
           /\ \A s, n : Reached(s, n) => Reached(s, n)'
           /\ \A m \in Heard \cup Asked : Truthful(m) => Truthful(m)'
<1>1. /\ epoch \in Nat /\ epoch' \in Nat /\ epoch \in Epochs /\ epoch' \in Epochs
      /\ \A n \in Epochs : ends[n] \in Nat /\ ends'[n] \in Nat
  BY StreamsAreNumbered DEF ServerTyped
<1>2. Emitted \subseteq Emitted'
  <2>1. \A n \in Epochs : 1..ends[n] \subseteq 1..ends'[n]
    BY <1>1
  <2>. QED
    BY <2>1 DEF Emitted
<1>3. \A s, n : Reached(s, n) => Reached(s, n)'
  <2>1. SUFFICES ASSUME NEW s, NEW n, Reached(s, n) PROVE Reached(s, n)'
    BY Zenon
  <2>2. s \in 0..epoch' /\ n \in Nat
    BY <1>1, <2>1 DEF Reached
  <2>3. CASE s = 0
    BY <2>1, <2>2, <2>3 DEF Reached
  <2>4. CASE s # 0
    <3>1. s \in Epochs /\ n <= ends[s]
      BY <1>1, <2>1, <2>4, StreamsAreNumbered DEF Reached
    <3>. QED
      BY <1>1, <2>2, <2>4, <3>1 DEF Reached
  <2>. QED
    BY <2>3, <2>4
<1>4. \A m \in Heard \cup Asked : Truthful(m) => Truthful(m)'
  <2>1. SUFFICES ASSUME NEW m \in Heard \cup Asked, Truthful(m) PROVE Truthful(m)'
    BY Zenon
  <2>2. m.kind = "event" => m.event \in Emitted'
    BY <1>2, <2>1 DEF Truthful
  <2>3. m.kind = "transcript" => m.seen \subseteq Emitted'
    BY <1>2, <2>1 DEF Truthful
  <2>4. m.kind \in {"resumed", "refused"} => m.stream <= epoch' /\ m.upto <= ends'[m.stream]
    <3>1. SUFFICES ASSUME m.kind \in {"resumed", "refused"}
                   PROVE  m.stream <= epoch' /\ m.upto <= ends'[m.stream]
      OBVIOUS
    <3>2. m \in Heard
      BY <3>1, AskedFields
    <3>3. m.stream \in Epochs /\ m.upto \in Nat /\ m.stream \in Nat
      BY <3>1, <3>2, HeardFields, StreamsAreNumbered
    <3>4. m.stream <= epoch /\ m.upto <= ends[m.stream]
      BY <2>1, <3>1 DEF Truthful
    <3>. QED
      BY <1>1, <3>3, <3>4
  <2>5. m.kind = "resume" => m.stream <= epoch'
    <3>1. SUFFICES ASSUME m.kind = "resume" PROVE m.stream <= epoch'
      OBVIOUS
    <3>2. m.stream \in Nat
      BY <3>1, HeardFields, AskedFields
    <3>. QED
      BY <1>1, <2>1, <3>1, <3>2 DEF Truthful
  <2>. QED
    BY <2>2, <2>3, <2>4, <2>5 DEF Truthful
<1>. QED
  BY <1>2, <1>3, <1>4

LEMMA ClientKeepsItsWord ==
    ASSUME TInv, ServerTyped', epoch <= epoch', \A n \in Epochs : ends[n] <= ends'[n],
           UNCHANGED <<rc, known>>
    PROVE  Sound(rc)' /\ known' \subseteq Emitted' /\ \A m \in Traffic : Truthful(m)'
<1>1. /\ Emitted \subseteq Emitted'
      /\ \A s, n : Reached(s, n) => Reached(s, n)'
      /\ \A m \in Heard \cup Asked : Truthful(m) => Truthful(m)'
  BY ServerGrows DEF TInv, Typed
<1>2. Reached(rc.stream, rc.last)' /\ Reached(rc.named[1], rc.named[2])'
  <2>1. Reached(rc.stream, rc.last) /\ Reached(rc.named[1], rc.named[2])
    BY DEF TInv, Honest, Sound
  <2>. QED
    BY <1>1, <2>1 DEF Reached
<1>3. Sound(rc)'
  BY <1>1, <1>2 DEF Sound, TInv, Honest
<1>4. \A m \in Traffic : m \in Heard \cup Asked
  BY Elements DEF Traffic, TInv, Typed, PipesTyped
<1>. QED
  BY <1>1, <1>3, <1>4 DEF TInv, Honest

\* Every message on its way is of its kind.
LEMMA TrafficTyped == ASSUME PipesTyped PROVE Traffic \subseteq Heard \cup Asked
<1>1. /\ \A m \in ToSet(wire) : m \in Heard
      /\ \A m \in ToSet(answers) : m \in Heard
      /\ \A m \in ToSet(calls) : m \in Asked
  BY Elements DEF PipesTyped
<1>. QED
  BY <1>1 DEF Traffic

LEMMA EmitTyped == ASSUME TInv, Emit PROVE TInv'
<1>1. /\ epoch \in Epochs /\ ends \in [Epochs -> Nat] /\ ends[epoch] < Lengths[epoch]
      /\ ends' = [ends EXCEPT ![epoch] = @ + 1]
      /\ UNCHANGED <<epoch, floor, attached, sock, calls, answers, rc, flight, acking,
                     load, ui, known, drops, timeouts>>
  BY DEF Emit, TInv, Typed, ServerTyped
<1>l. \A n \in Epochs : Lengths[n] \in Nat
  BY ReplayAssumption DEF Epochs
<1>2. ServerTyped' /\ \A n \in Epochs : ends[n] <= ends'[n]
  <2>1. epoch \in Nat /\ \A n \in Epochs : n \in Nat
    BY <1>1, StreamsAreNumbered
  <2>. QED
    BY <1>1, <1>l, <2>1 DEF TInv, Typed, ServerTyped
<1>3. <<epoch, ends'[epoch]>> \in Emitted' /\ <<epoch, ends'[epoch]>> \in Pairs
  <2>1. ends'[epoch] \in Nat /\ ends'[epoch] >= 1
    BY <1>1
  <2>2. <<epoch, ends'[epoch]>> \in {epoch} \X (1..ends'[epoch])
    BY <2>1
  <2>. QED
    BY <1>1, <2>1, <2>2 DEF Emitted, Pairs
<1>4. PICK m \in Heard : /\ m.kind = "event" /\ m.event \in Emitted'
                         /\ wire' = Append(wire, m) \/ wire' = wire
  <2>. DEFINE t == [kind |-> "event", id |-> 0, event |-> <<epoch, ends'[epoch]>>]
  <2>1. t \in Heard
    BY <1>3 DEF Heard
  <2>2. wire' = Append(wire, t) \/ wire' = wire
    BY DEF Emit
  <2>. QED
    BY <1>3, <2>1, <2>2
<1>5. lost' \in Nat
  <2>1. lost \in Nat /\ (lost' = lost \/ lost' = lost + 1)
    BY DEF Emit, TInv, Typed, ClientTyped
  <2>. QED
    BY <2>1
<1>6. wire' \in Seq(Heard) /\ ToSet(wire') \subseteq ToSet(wire) \cup {m}
  <2>1. wire \in Seq(Heard)
    BY DEF TInv, Typed, PipesTyped
  <2>2. Append(wire, m) \in Seq(Heard) /\ ToSet(Append(wire, m)) = ToSet(wire) \cup {m}
    BY <2>1, SetOfAppended
  <2>. QED
    BY <1>4, <2>1, <2>2, Zenon
<1>7. Sound(rc)' /\ known' \subseteq Emitted' /\ \A x \in Traffic : Truthful(x)'
  <2>1. epoch <= epoch'
    BY <1>1, StreamsAreNumbered
  <2>. QED
    BY <1>1, <1>2, <2>1, ClientKeepsItsWord
<1>8. \A x \in Traffic' : x \in Traffic \/ x = m
  BY <1>1, <1>6 DEF Traffic
<1>9. Honest'
  <2>1. Truthful(m)'
    BY <1>4 DEF Truthful
  <2>. QED
    BY <1>7, <1>8, <2>1 DEF Honest
<1>10. Matching'
  BY <1>1, <1>4, <1>8 DEF TInv, Matching
<1>11. Flying'
  BY <1>1 DEF TInv, Flying
<1>12. Quiet'
  <2>1. attached \/ wire' = wire
    BY DEF Emit
  <2>2. wire' = wire => Traffic' = Traffic
    BY <1>1 DEF Traffic
  <2>. QED
    BY <1>1, <2>1, <2>2 DEF TInv, Quiet
<1>. QED
  BY <1>1, <1>2, <1>5, <1>6, <1>9, <1>10, <1>11, <1>12 DEF TInv, Typed, PipesTyped, ClientTyped

LEMMA NewEpochTyped == ASSUME TInv, NewEpoch PROVE TInv'
<1>1. /\ epoch \in Epochs /\ epoch' \in Epochs /\ epoch <= epoch' /\ epoch' = epoch + 1 /\ epoch \in Nat
      /\ floor' = 0
      /\ UNCHANGED <<ends, attached, sock, pipes, rc, flight, acking, load, ui, known, spent>>
  BY StreamsAreNumbered DEF NewEpoch, TInv, Typed, ServerTyped
<1>2. ServerTyped' /\ \A n \in Epochs : ends[n] <= ends'[n]
  <2>1. ends \in [Epochs -> Nat] /\ \A n \in Epochs : n \in Nat
    BY StreamsAreNumbered DEF TInv, Typed, ServerTyped
  <2>. QED
    BY <1>1, <2>1 DEF TInv, Typed, ServerTyped
<1>3. Sound(rc)' /\ known' \subseteq Emitted' /\ \A x \in Traffic : Truthful(x)'
  BY <1>1, <1>2, ClientKeepsItsWord
<1>4. Traffic' = Traffic
  BY <1>1 DEF Traffic, pipes
<1>. QED
  BY <1>1, <1>2, <1>3, <1>4
     DEF TInv, Typed, PipesTyped, ClientTyped, Honest, Flying, Quiet, Matching, pipes, spent

LEMMA CompactTyped == ASSUME TInv, Compact PROVE TInv'
<1>1. /\ UNCHANGED <<epoch, ends, attached, sock, pipes, rc, flight, acking, load, ui, known, spent>>
      /\ floor' = ends[epoch]
  BY DEF Compact
<1>2. ServerTyped' /\ epoch \in Nat /\ \A n \in Epochs : ends[n] <= ends'[n]
  BY <1>1, StreamsAreNumbered DEF TInv, Typed, ServerTyped
<1>3. Sound(rc)' /\ known' \subseteq Emitted' /\ \A x \in Traffic : Truthful(x)'
  BY <1>1, <1>2, ClientKeepsItsWord
<1>4. Traffic' = Traffic
  BY <1>1 DEF Traffic, pipes
<1>. QED
  BY <1>1, <1>2, <1>3, <1>4
     DEF TInv, Typed, PipesTyped, ClientTyped, Honest, Flying, Quiet, Matching, pipes, spent

\* What a call is answered with.
LEMMA ReplyTyped ==
    ASSUME Typed, NEW m \in Asked, Truthful(m)
    PROVE  /\ Reply(m) \in Seq(Heard) /\ Len(Reply(m)) <= 1
           /\ \A x \in ToSet(Reply(m)) :
                /\ Truthful(x)
                /\ x.kind = "transcript" /\ m.kind = "history" => x.id = m.id
                /\ x.kind = "transcript" => m.kind = "history" /\ x.id = m.id /\ x.seen = Emitted
                /\ x.kind \in {"resumed", "refused"} => m.kind = "resume" /\ x.id = m.id
                /\ x.kind \in {"resumed", "refused"} => x.stream = epoch /\ x.upto = ends[epoch]
                /\ x.kind = "resumed" => Servable(m) /\ x.from = m.from
                /\ x.kind # "event"
<1>1. m.kind \in {"resume", "history", "ack"} /\ m.id \in Nat
      /\ (m.kind = "resume" => m.stream \in Nat /\ m.from \in Nat)
  BY AskedFields
<1>2. epoch \in Epochs /\ epoch \in Nat /\ ends[epoch] \in Nat /\ Emitted \subseteq Pairs
  BY EmittedIs, StreamsAreNumbered DEF Typed, ServerTyped
<1>3. CASE m.kind = "history"
  <2>. DEFINE t == [kind |-> "transcript", id |-> m.id, seen |-> Emitted]
  <2>1. Reply(m) = <<t>>
    BY <1>3 DEF Reply
  <2>2. t \in Heard /\ Truthful(t)
    BY <1>1, <1>2 DEF Heard, Truthful
  <2>. QED
    BY <1>3, <2>1, <2>2, SetOfOne
<1>4. CASE m.kind = "resume" /\ Servable(m)
  <2>. DEFINE t == [kind |-> "resumed", id |-> m.id, stream |-> epoch, from |-> m.from, upto |-> ends[epoch]]
  <2>1. Reply(m) = <<t>>
    BY <1>4 DEF Reply
  <2>2. t \in Heard /\ Truthful(t)
    BY <1>1, <1>2, <1>4 DEF Heard, Truthful
  <2>. QED
    BY <1>4, <2>1, <2>2, SetOfOne
<1>5. CASE m.kind = "resume" /\ ~Servable(m)
  <2>. DEFINE t == [kind |-> "refused", id |-> m.id, stream |-> epoch, upto |-> ends[epoch]]
  <2>1. Reply(m) = <<t>>
    BY <1>5 DEF Reply
  <2>2. t \in Heard /\ Truthful(t)
    BY <1>1, <1>2, <1>5 DEF Heard, Truthful
  <2>. QED
    BY <1>5, <2>1, <2>2, SetOfOne
<1>6. CASE m.kind = "ack"
  <2>. DEFINE t == [kind |-> "ackRefused", id |-> 0]
  <2>1. t \in Heard /\ Truthful(t)
    BY DEF Heard, Truthful
  <2>2. CASE Reply(m) = <<>>
    BY <2>2, SetOfNothing
  <2>3. CASE Reply(m) = <<t>>
    BY <2>1, <2>3, SetOfOne
  <2>. QED
    BY <1>6, <2>2, <2>3 DEF Reply
<1>. QED
  BY <1>1, <1>3, <1>4, <1>5, <1>6

\* A step that only takes messages away or answers them, and touches neither
\* the server's stream nor the client.
LEMMA PipesKept ==
    ASSUME TInv, ServerTyped', PipesTyped', Quiet', UNCHANGED <<epoch, ends, sock, rc, flight, acking, load, ui, known, spent>>,
           \A m \in Traffic' : m \in Traffic \/
             (/\ Truthful(m)
              /\ m.kind = "resumed" =>
                   \E x \in Traffic : x.kind = "resume" /\ x.id = m.id /\ x.stream \in {0, m.stream}
              /\ m.kind # "resume")
    PROVE  TInv'
<1>1. Sound(rc)' /\ known' \subseteq Emitted' /\ \A m : Truthful(m) => Truthful(m)'
  BY DEF TInv, Honest, Sound, Reached, Truthful, Emitted
<1>2. \A m \in Traffic' : Truthful(m)'
  BY <1>1 DEF TInv, Honest
<1>3. Matching'
  <2>1. SUFFICES ASSUME flight.live, flight.own, NEW m \in Traffic', m.id = flight.id,
                        m.kind \in {"resume", "resumed"}
                 PROVE  rc.stream \in {0, m.stream}
    BY DEF Matching
  <2>2. CASE m \in Traffic
    BY <2>1, <2>2 DEF TInv, Matching
  <2>3. CASE m \notin Traffic
    <3>1. PICK x \in Traffic : x.kind = "resume" /\ x.id = m.id /\ x.stream \in {0, m.stream}
      BY <2>1, <2>3
    <3>2. rc.stream \in {0, x.stream}
      BY <2>1, <3>1 DEF TInv, Matching
    <3>. QED
      BY <3>1, <3>2
  <2>. QED
    BY <2>2, <2>3
<1>. QED
  BY <1>1, <1>2, <1>3 DEF TInv, Typed, ClientTyped, Honest, Flying, spent

LEMMA ServeTyped == ASSUME TInv, NEW i \in DOMAIN calls, Serve(i) PROVE TInv'
<1>. DEFINE m == calls[i]
            r == Reply(m)
<1>1. calls \in Seq(Asked) /\ answers \in Seq(Heard) /\ i \in 1..Len(calls)
  BY DEF TInv, Typed, PipesTyped
<1>2. RemoveAt(calls, i) \in Seq(Asked) /\ ToSet(RemoveAt(calls, i)) \subseteq ToSet(calls)
      /\ m \in Asked /\ m \in ToSet(calls)
  BY <1>1, SetOfRemoved
<1>3. m \in Traffic /\ Truthful(m)
  BY <1>2 DEF Traffic, TInv, Honest
<1>4. r \in Seq(Heard) /\ \A x \in ToSet(r) :
        /\ Truthful(x)
        /\ x.kind \in {"resumed", "refused"} => m.kind = "resume" /\ x.id = m.id
        /\ x.kind \in {"resumed", "refused"} => x.stream = epoch
        /\ x.kind = "resumed" => Servable(m)
  BY <1>2, <1>3, ReplyTyped DEF TInv
<1>5. answers \o r \in Seq(Heard) /\ ToSet(answers \o r) = ToSet(answers) \cup ToSet(r)
  <2>. HIDE DEF r
  <2>. QED
    BY <1>1, <1>4, SetOfConcatenated
<1>6. /\ calls' = RemoveAt(calls, i) /\ answers' = answers \o r
      /\ attached' = (attached \/ (m.kind = "resume" /\ Servable(m)))
      /\ UNCHANGED <<epoch, ends, floor, sock, wire, rc, flight, acking, load, ui, known, spent>>
  BY DEF Serve
<1>7. ServerTyped' /\ PipesTyped'
  BY <1>2, <1>5, <1>6 DEF TInv, Typed, ServerTyped, PipesTyped
<1>11. Quiet'
  <2>1. sock # "down"
    BY <1>3 DEF TInv, Quiet
  <2>. QED
    BY <1>6, <2>1 DEF Quiet
<1>. HIDE DEF m, r
<1>8. \A x \in Traffic' : x \in Traffic \/ x \in ToSet(r)
  BY <1>2, <1>5, <1>6 DEF Traffic
<1>9. \A x \in ToSet(r) : x \in Heard
  BY <1>4, Elements
<1>10. \A x \in ToSet(r) :
         /\ Truthful(x)
         /\ x.kind = "resumed" =>
              \E y \in Traffic : y.kind = "resume" /\ y.id = x.id /\ y.stream \in {0, x.stream}
         /\ x.kind # "resume"
  BY <1>3, <1>4, <1>9, HeardFields DEF Servable
<1>. QED
  BY <1>6, <1>7, <1>8, <1>10, <1>11, PipesKept

LEMMA SendAnswerTyped == ASSUME TInv, NEW i \in DOMAIN answers, SendAnswer(i) PROVE TInv'
<1>1. wire \in Seq(Heard) /\ answers \in Seq(Heard) /\ i \in 1..Len(answers)
  BY DEF TInv, Typed, PipesTyped
<1>2. RemoveAt(answers, i) \in Seq(Heard) /\ ToSet(RemoveAt(answers, i)) \subseteq ToSet(answers)
      /\ answers[i] \in Heard /\ answers[i] \in ToSet(answers)
  BY <1>1, SetOfRemoved
<1>3. Append(wire, answers[i]) \in Seq(Heard)
      /\ ToSet(Append(wire, answers[i])) = ToSet(wire) \cup {answers[i]}
  BY <1>1, <1>2, SetOfAppended
<1>4. /\ answers' = RemoveAt(answers, i) /\ wire' = Append(wire, answers[i])
      /\ UNCHANGED <<server, sock, calls, rc, flight, acking, load, ui, known, spent>>
  BY DEF SendAnswer
<1>5. ServerTyped' /\ PipesTyped'
  BY <1>2, <1>3, <1>4 DEF TInv, Typed, ServerTyped, PipesTyped, server
<1>6. \A x \in Traffic' : x \in Traffic
  BY <1>2, <1>3, <1>4 DEF Traffic
<1>7. Quiet'
  BY <1>4, <1>6 DEF TInv, Quiet, server
<1>. QED
  BY <1>4, <1>5, <1>6, <1>7, PipesKept DEF server

\* A message is taken from the wire, and nothing else reacts.
LEMMA Dropped ==
    ASSUME PipesTyped, wire # <<>>, wire' = Tail(wire)
    PROVE  /\ wire' \in Seq(Heard) /\ ToSet(wire') \subseteq ToSet(wire)
           /\ Head(wire) \in Heard /\ Head(wire) \in ToSet(wire) /\ Head(wire) \in Traffic
           /\ ToSet(wire) = ToSet(wire') \cup {Head(wire)}
  BY SetOfTail DEF PipesTyped, Traffic

LEMMA LateAnswerTyped == ASSUME TInv, LateAnswer PROVE TInv'
<1>1. /\ wire # <<>> /\ wire' = Tail(wire)
      /\ UNCHANGED <<server, sock, calls, answers, rc, flight, acking, load, ui, known, spent>>
  BY DEF LateAnswer
<1>2. wire' \in Seq(Heard) /\ ToSet(wire') \subseteq ToSet(wire)
  BY <1>1, Dropped DEF TInv, Typed
<1>3. ServerTyped' /\ PipesTyped' /\ \A x \in Traffic' : x \in Traffic
  BY <1>1, <1>2 DEF TInv, Typed, ServerTyped, PipesTyped, Traffic, server
<1>4. Quiet'
  BY <1>1, <1>3 DEF TInv, Quiet, server
<1>. QED
  BY <1>1, <1>3, <1>4, PipesKept DEF server

\* What Become adds to the calls.
LEMMA BecomeAsks ==
    ASSUME Typed, NEW c \in Coordinators, NEW asks \in BOOLEAN, NEW fetch \in {<<>>, <<HistoryCall>>},
           Become(c, asks, fetch)
    PROVE  /\ calls' \in Seq(Asked)
           /\ \A m \in ToSet(calls') :
                \/ m \in ToSet(calls)
                \/ asks /\ m = ResumeCall(c)
                \/ fetch # <<>> /\ m = HistoryCall
           /\ ToSet(calls) \subseteq ToSet(calls')
           /\ asks => ResumeCall(c) \in ToSet(calls')
           /\ ResumeId \in Nat /\ \A m \in Traffic : m.kind \in Backfills => m.id # ResumeId
           /\ HistoryId \in Nat /\ \A m \in Traffic : m.kind \in Readings => m.id # HistoryId
<1>1. /\ ResumeId \in Nat /\ \A m \in Traffic : m.kind \in Backfills => m.id # ResumeId
      /\ HistoryId \in Nat /\ \A m \in Traffic : m.kind \in Readings => m.id # HistoryId
  BY UnusedIsFresh DEF Typed, ResumeId, HistoryId, Backfills, Readings
<1>. DEFINE more == IF asks THEN <<ResumeCall(c)>> ELSE <<>>
<1>2. ResumeCall(c) \in Asked /\ HistoryCall \in Asked
  BY <1>1, CoordinatorFields DEF ResumeCall, HistoryCall, Asked
<1>3. more \in Seq(Asked) /\ ToSet(more) = IF asks THEN {ResumeCall(c)} ELSE {}
  BY <1>2, SetOfOne, SetOfNothing
<1>4. fetch \in Seq(Asked) /\ ToSet(fetch) \subseteq (IF fetch # <<>> THEN {HistoryCall} ELSE {})
  BY <1>2, SetOfOne, SetOfNothing
<1>5. calls \in Seq(Asked)
  BY DEF Typed, PipesTyped
<1>6. calls' = (calls \o more) \o fetch
  BY DEF Become
<1>. HIDE DEF more
<1>7. calls \o more \in Seq(Asked) /\ ToSet(calls \o more) = ToSet(calls) \cup ToSet(more)
  BY <1>3, <1>5, SetOfConcatenated
<1>8. calls' \in Seq(Asked) /\ ToSet(calls') = ToSet(calls) \cup ToSet(more) \cup ToSet(fetch)
  <2>. DEFINE u == calls \o more
  <2>. HIDE DEF u
  <2>1. u \o fetch \in Seq(Asked) /\ ToSet(u \o fetch) = ToSet(u) \cup ToSet(fetch)
    <3>1. u \in Seq(Asked)
      BY <1>7 DEF u
    <3>. QED
      BY <1>4, <3>1, SetOfConcatenated
  <2>. QED
    BY <1>6, <1>7, <2>1 DEF u
<1>. QED
  BY <1>1, <1>3, <1>4, <1>8

\* The step from one coordinator to the next.
LEMMA BecomeTyped ==
    ASSUME TInv, NEW c \in Coordinators, NEW asks \in BOOLEAN, NEW fetch \in {<<>>, <<HistoryCall>>},
           Become(c, asks, fetch), Sound(c), UNCHANGED <<epoch, ends, floor, attached>>,
           wire' \in Seq(Heard), ToSet(wire') \subseteq ToSet(wire), answers' = answers,
           sock' \in {"down", "opening", "up"}, load' \in Loads, acking' \in BOOLEAN,
           ui' \in {"none", "initializing", "ready", "error"},
           drops' \in Nat, lost' \in Nat, timeouts' \in Nat,
           sock' = "down" => sock = "down" /\ ~asks /\ fetch = <<>>,
           asks => c.resuming, c.resuming => asks \/ flight.live, c.resuming => sock' # "down",
           c.resuming \/ ~c.quarantined => c.named = <<0, 0>>,
           c.resuming /\ ~asks => c.stream \in {rc.stream, 0}
    PROVE  TInv'
<1>1. /\ calls' \in Seq(Asked)
      /\ \A m \in ToSet(calls') :
           m \in ToSet(calls) \/ (asks /\ m = ResumeCall(c)) \/ m = HistoryCall
      /\ ResumeId \in Nat /\ \A m \in Traffic : m.kind \in Backfills => m.id # ResumeId
  BY BecomeAsks DEF TInv
<1>2. rc' = c /\ known' = known \cup ToSet(c.applied)
      /\ flight' = IF asks THEN [id |-> ResumeId, own |-> TRUE, stream |-> 0, last |-> 0, live |-> TRUE]
                   ELSE IF c.resuming THEN flight ELSE NoFlight
  BY DEF Become
<1>3. flight' \in Flights
  BY <1>1, <1>2 DEF Flights, NoFlight, TInv, Typed, ClientTyped
<1>4. Typed'
  BY <1>1, <1>2, <1>3 DEF TInv, Typed, ServerTyped, PipesTyped, ClientTyped
<1>5. Flying'
  <2>1. c.resuming \in BOOLEAN
    BY CoordinatorFields
  <2>. QED
    BY <1>2, <2>1 DEF Flying, NoFlight
<1>6. \A m \in Traffic' : m \in Traffic \/ (asks /\ m = ResumeCall(c)) \/ m = HistoryCall
  BY <1>1 DEF Traffic
<1>9. Quiet'
  <2>1. SUFFICES ASSUME sock' = "down" PROVE Traffic' = {} /\ ~attached'
    BY DEF Quiet
  <2>2. calls' = calls \o <<>> \o <<>>
    BY <2>1 DEF Become
  <2>3. calls' = calls
    BY <2>2, ConcatEmptySeq DEF TInv, Typed, PipesTyped
  <2>. QED
    BY <2>1, <2>3 DEF TInv, Quiet, Traffic
<1>7. Honest'
  <2>1. Sound(rc)' /\ \A m : Truthful(m) => Truthful(m)'
    BY <1>2 DEF Sound, Reached, Truthful, Emitted
  <2>2. known' \subseteq Emitted'
    <3>1. \A e \in ToSet(c.applied) : e \in Emitted
      <4>1. c.applied \in Seq(Pairs)
        BY CoordinatorFields
      <4>2. \A e : e \in ToSet(c.applied) <=> \E i \in 1..Len(c.applied) : c.applied[i] = e
        BY <4>1, Elements
      <4>. QED
        BY <4>2 DEF Sound
    <3>2. Emitted' = Emitted
      BY DEF Emitted
    <3>. QED
      BY <1>2, <3>1, <3>2 DEF TInv, Honest
  <2>3. Truthful(ResumeCall(c)) /\ Truthful(HistoryCall)
    <3>1. c.stream <= epoch
      <4>1. epoch \in Nat
        BY StreamsAreNumbered DEF TInv, Typed, ServerTyped
      <4>. QED
        BY <4>1 DEF Sound, Reached
    <3>. QED
      BY <3>1 DEF Truthful, ResumeCall, HistoryCall
  <2>. QED
    BY <1>6, <2>1, <2>2, <2>3 DEF TInv, Honest
<1>8. Matching'
  <2>1. SUFFICES ASSUME flight'.live, flight'.own, NEW m \in Traffic', m.id = flight'.id,
                        m.kind \in {"resume", "resumed"}
                 PROVE  c.stream \in {0, m.stream}
    BY <1>2 DEF Matching
  <2>2. m # HistoryCall
    BY <2>1 DEF HistoryCall
  <2>3. CASE asks
    <3>1. m.id = ResumeId
      BY <1>2, <2>1, <2>3
    <3>2. m = ResumeCall(c)
      BY <1>1, <1>6, <2>1, <2>2, <3>1 DEF Backfills
    <3>. QED
      BY <3>2 DEF ResumeCall
  <2>4. CASE ~asks
    <3>1. c.resuming /\ flight' = flight
      BY <1>2, <2>1, <2>4 DEF NoFlight
    <3>2. m \in Traffic
      BY <1>6, <2>2, <2>4
    <3>3. rc.stream \in {0, m.stream}
      BY <2>1, <3>1, <3>2 DEF TInv, Matching
    <3>. QED
      BY <2>4, <3>1, <3>3
  <2>. QED
    BY <2>3, <2>4
<1>. QED
  BY <1>4, <1>5, <1>7, <1>8, <1>9 DEF TInv

LEMMA SelectTyped ==
    ASSUME TInv, NEW c \in Coordinators, NEW auth \in BOOLEAN, Select(c, auth), Sound(c),
           UNCHANGED <<epoch, ends, floor, attached>>,
           wire' \in Seq(Heard), ToSet(wire') \subseteq ToSet(wire), answers' = answers,
           sock' \in {"down", "opening", "up"}, acking' \in BOOLEAN,
           drops' \in Nat, lost' \in Nat, timeouts' \in Nat,
           sock' # "down",
           c.resuming => flight.live,
           c.resuming \/ ~c.quarantined => c.named = <<0, 0>>,
           c.resuming => c.stream \in {rc.stream, 0}
    PROVE  TInv'
<1>. DEFINE r == [c EXCEPT !.registered = TRUE]
            s == IF sock = "up" THEN ResumeAll(r) ELSE r
            asks == s.resuming /\ ~c.resuming
            fetch == IF asks THEN <<>> ELSE <<HistoryCall>>
<1>1. /\ r \in Coordinators /\ Sound(r) /\ r.stream = c.stream /\ r.named = c.named
      /\ r.quarantined = c.quarantined /\ r.resuming = c.resuming
  BY RegisteredSound
<1>. HIDE DEF r
<1>2. /\ ResumeAll(r) \in Coordinators /\ Sound(ResumeAll(r)) /\ SameBut(r, ResumeAll(r))
      /\ ResumeAll(r).stream = r.stream /\ ResumeAll(r).quarantined = r.quarantined
      /\ r.resuming => ResumeAll(r) = r
      /\ ~r.resuming /\ ResumeAll(r).resuming => ~r.quarantined
  BY <1>1, ResumeAllSound
<1>3. /\ s \in Coordinators /\ Sound(s) /\ s.stream = c.stream /\ s.named = c.named
      /\ s.quarantined = c.quarantined
      /\ s.resuming => c.resuming \/ (sock = "up" /\ ~c.quarantined)
      /\ c.resuming => s.resuming
  BY <1>1, <1>2 DEF SameBut
<1>4. /\ ui' = "initializing" /\ Become(s, asks, fetch)
      /\ load' = IF asks THEN [phase |-> "attaching", auth |-> auth, id |-> 0] ELSE Fetching(auth)
  BY DEF Select, r
<1>. HIDE DEF s
<1>5. asks \in BOOLEAN /\ fetch \in {<<>>, <<HistoryCall>>}
  BY <1>3, CoordinatorFields
<1>. HIDE DEF asks, fetch
<1>6. load' \in Loads
  <2>1. HistoryId \in Nat
    BY UnusedIsFresh DEF HistoryId, TInv, Typed
  <2>. QED
    BY <1>4, <2>1 DEF Loads, Fetching
<1>7. /\ asks => s.resuming
      /\ s.resuming => asks \/ flight.live
      /\ s.resuming \/ ~s.quarantined => s.named = <<0, 0>>
      /\ s.resuming /\ ~asks => s.stream \in {rc.stream, 0}
  BY <1>3 DEF asks
<1>. QED
  BY <1>3, <1>4, <1>5, <1>6, <1>7, BecomeTyped

LEMMA SettleTyped ==
    ASSUME TInv, NEW c \in Coordinators, NEW asks \in BOOLEAN, Settle(c, asks), Sound(c),
           UNCHANGED <<epoch, ends, floor, attached>>,
           wire' \in Seq(Heard), ToSet(wire') \subseteq ToSet(wire), answers' = answers,
           sock' \in {"down", "opening", "up"}, acking' \in BOOLEAN,
           drops' \in Nat, lost' \in Nat, timeouts' \in Nat,
           sock' # "down",
           asks => c.resuming /\ ~c.quarantined,
           c.resuming => asks \/ flight.live,
           c.resuming \/ ~c.quarantined => c.named = <<0, 0>>,
           c.resuming /\ ~asks => c.stream \in {rc.stream, 0}
    PROVE  TInv'
<1>1. CASE c.quarantined /\ ~rc.quarantined /\ c.registered
  <2>1. Select(c, TRUE)
    BY <1>1 DEF Settle
  <2>2. c.resuming => flight.live /\ c.stream \in {rc.stream, 0}
    BY <1>1
  <2>. QED
    BY <2>1, <2>2, SelectTyped
<1>2. CASE ~(c.quarantined /\ ~rc.quarantined /\ c.registered)
  <2>1. Become(c, asks, <<>>) /\ UNCHANGED <<load, ui>>
    BY <1>2 DEF Settle
  <2>2. load' \in Loads /\ ui' \in {"none", "initializing", "ready", "error"}
    BY <2>1 DEF TInv, Typed, ClientTyped
  <2>. QED
    BY <2>1, <2>2, BecomeTyped
<1>. QED
  BY <1>1, <1>2

\* Facts that hold of the coordinator now.
LEMMA TrackerNow ==
    ASSUME TInv
    PROVE  /\ rc \in Coordinators /\ Sound(rc) /\ ServerTyped /\ PipesTyped /\ Typed
           /\ rc.resuming \in BOOLEAN /\ rc.quarantined \in BOOLEAN /\ rc.registered \in BOOLEAN
           /\ rc.resuming => flight.live /\ sock # "down"
           /\ flight.live => rc.resuming
           /\ rc.resuming \/ ~rc.quarantined => rc.named = <<0, 0>>
           /\ sock \in {"down", "opening", "up"} /\ acking \in BOOLEAN
           /\ drops \in Nat /\ lost \in Nat /\ timeouts \in Nat /\ load \in Loads
           /\ ui \in {"none", "initializing", "ready", "error"}
  BY CoordinatorFields DEF TInv, Typed, ClientTyped, Honest, Flying

LEMMA ReceiveEventTyped == ASSUME TInv, ReceiveEvent PROVE TInv'
<1>. DEFINE e == Head(wire).event
            c == Handle(rc, e)
            asks == c.resuming /\ ~rc.resuming
<1>1. /\ wire # <<>> /\ Head(wire).kind = "event" /\ wire' = Tail(wire)
      /\ Settle(c, asks) /\ AckTimer(c) /\ UNCHANGED <<server, sock, answers, spent>>
  BY DEF ReceiveEvent
<1>2. wire' \in Seq(Heard) /\ ToSet(wire') \subseteq ToSet(wire) /\ Head(wire) \in Traffic
  BY <1>1, Dropped, TrackerNow
<1>3. e \in Emitted
  BY <1>1, <1>2 DEF TInv, Honest, Truthful
<1>. HIDE DEF e
<1>4. /\ c \in Coordinators /\ Sound(c) /\ SameBut(rc, c)
      /\ rc.resuming => c.stream = rc.stream /\ c.quarantined = rc.quarantined
      /\ ~rc.resuming \/ ~rc.quarantined => ~c.resuming \/ ~c.quarantined
      /\ rc.quarantined => c = rc
  BY <1>3, HandleSound, TrackerNow
<1>. HIDE DEF c
<1>5. acking' \in BOOLEAN
  <2>1. acking \in BOOLEAN
    BY TrackerNow
  <2>. QED
    BY <1>1, <2>1 DEF AckTimer
<1>6. asks \in BOOLEAN /\ c.resuming \in BOOLEAN /\ c.quarantined \in BOOLEAN
  BY <1>4, CoordinatorFields, TrackerNow
<1>7. rc.quarantined \/ c.named = <<0, 0>>
  BY <1>4, TrackerNow DEF SameBut
<1>8. /\ asks => c.resuming /\ ~c.quarantined
      /\ c.resuming => asks \/ flight.live
      /\ c.resuming \/ ~c.quarantined => c.named = <<0, 0>>
      /\ c.resuming /\ ~asks => c.stream \in {rc.stream, 0}
  BY <1>4, <1>6, <1>7, TrackerNow
<1>9. sock' # "down" /\ sock' \in {"down", "opening", "up"}
  BY <1>1, <1>2, TrackerNow DEF TInv, Quiet
<1>. QED
  BY <1>1, <1>2, <1>4, <1>5, <1>6, <1>8, <1>9, TrackerNow, SettleTyped DEF server, spent

LEMMA ResumeSucceedsTyped == ASSUME TInv, ResumeSucceeds PROVE TInv'
<1>. DEFINE a == Head(wire)
            c == Landed(a)
<1>1. /\ wire # <<>> /\ a.kind = "resumed" /\ flight.live /\ flight.id = a.id
      /\ AckTimer(c) /\ sock' = Opened /\ wire' = Tail(wire) /\ UNCHANGED <<server, answers, spent>>
  BY DEF ResumeSucceeds
<1>2. \/ c.quarantined /\ ~rc.quarantined /\ c.registered /\ Select(c, TRUE)
      \/ load' = Fetching(load.auth) /\ Become(c, c.resuming, <<HistoryCall>>) /\ UNCHANGED ui
      \/ Become(c, c.resuming, <<>>) /\ UNCHANGED <<load, ui>>
  BY DEF ResumeSucceeds
<1>3. wire' \in Seq(Heard) /\ ToSet(wire') \subseteq ToSet(wire) /\ a \in Traffic /\ a \in Heard
  BY <1>1, Dropped, TrackerNow
<1>. HIDE DEF a
<1>4. Truthful(a) /\ Fits(a) /\ rc.resuming
  BY <1>1, <1>3 DEF TInv, Honest, Matching, Flying, Fits
<1>5. /\ c \in Coordinators /\ Sound(c) /\ SameBut(rc, c)
      /\ ~c.resuming \/ ~c.quarantined
  BY <1>1, <1>3, <1>4, LandedSound, TrackerNow
<1>. HIDE DEF c
<1>6. acking' \in BOOLEAN
  <2>1. acking \in BOOLEAN
    BY TrackerNow
  <2>. QED
    BY <1>1, <2>1 DEF AckTimer
<1>7. c.resuming \in BOOLEAN /\ c.quarantined \in BOOLEAN /\ c.named = <<0, 0>>
  BY <1>4, <1>5, CoordinatorFields, TrackerNow DEF SameBut
<1>8. sock' # "down" /\ sock' \in {"down", "opening", "up"}
  BY <1>1, <1>4, TrackerNow DEF Opened
<1>9. Fetching(load.auth) \in Loads
  <2>1. HistoryId \in Nat /\ load \in Loads
    BY UnusedIsFresh, TrackerNow DEF HistoryId
  <2>. QED
    BY <2>1 DEF Loads, Fetching
<1>10. /\ UNCHANGED <<epoch, ends, floor, attached>> /\ answers' = answers
       /\ drops' \in Nat /\ lost' \in Nat /\ timeouts' \in Nat
  BY <1>1, TrackerNow DEF server, spent
<1>11. CASE c.quarantined /\ ~rc.quarantined /\ c.registered /\ Select(c, TRUE)
  <2>1. ~c.resuming
    BY <1>5, <1>11
  <2>. QED
    BY <1>3, <1>5, <1>6, <1>7, <1>8, <1>10, <1>11, <2>1, SelectTyped
<1>12. CASE load' = Fetching(load.auth) /\ Become(c, c.resuming, <<HistoryCall>>) /\ UNCHANGED ui
  <2>1. load' \in Loads /\ ui' \in {"none", "initializing", "ready", "error"}
    BY <1>9, <1>12, TrackerNow
  <2>. QED
    BY <1>3, <1>5, <1>6, <1>7, <1>8, <1>10, <1>12, <2>1, BecomeTyped
<1>13. CASE Become(c, c.resuming, <<>>) /\ UNCHANGED <<load, ui>>
  <2>1. load' \in Loads /\ ui' \in {"none", "initializing", "ready", "error"}
    BY <1>13, TrackerNow
  <2>. QED
    BY <1>3, <1>5, <1>6, <1>7, <1>8, <1>10, <1>13, <2>1, BecomeTyped
<1>. QED
  BY <1>2, <1>11, <1>12, <1>13

LEMMA ResumeRefusedTyped == ASSUME TInv, ResumeRefused PROVE TInv'
<1>. DEFINE a == Head(wire)
            c == Refused(a)
<1>1. /\ wire # <<>> /\ a.kind = "refused" /\ flight.live /\ flight.id = a.id
      /\ Settle(c, FALSE) /\ sock' = Opened /\ wire' = Tail(wire)
      /\ UNCHANGED <<server, answers, acking, spent>>
  BY DEF ResumeRefused
<1>3. wire' \in Seq(Heard) /\ ToSet(wire') \subseteq ToSet(wire) /\ a \in Traffic /\ a \in Heard
  BY <1>1, Dropped, TrackerNow
<1>. HIDE DEF a
<1>4. Truthful(a)
  BY <1>1, <1>3 DEF TInv, Honest
<1>5. c \in Coordinators /\ Sound(c) /\ ~c.resuming /\ c.quarantined
  BY <1>1, <1>3, <1>4, RefusedSound, TrackerNow
<1>. HIDE DEF c
<1>8. sock' # "down" /\ sock' \in {"down", "opening", "up"}
  BY <1>1, TrackerNow DEF Opened, TInv, Flying
<1>10. /\ UNCHANGED <<epoch, ends, floor, attached>> /\ answers' = answers /\ acking' \in BOOLEAN
       /\ drops' \in Nat /\ lost' \in Nat /\ timeouts' \in Nat
  BY <1>1, TrackerNow DEF server, spent
<1>. QED
  BY <1>1, <1>3, <1>5, <1>8, <1>10, SettleTyped

LEMMA AckRefusedTyped == ASSUME TInv, AckRefused PROVE TInv'
<1>. DEFINE c == RequireResync(rc)
<1>1. /\ wire # <<>> /\ Settle(c, FALSE) /\ wire' = Tail(wire)
      /\ UNCHANGED <<server, sock, answers, acking, spent>>
  BY DEF AckRefused
<1>3. wire' \in Seq(Heard) /\ ToSet(wire') \subseteq ToSet(wire) /\ Head(wire) \in Traffic
  BY <1>1, Dropped, TrackerNow
<1>5. c \in Coordinators /\ Sound(c) /\ SameBut(rc, c) /\ c.resuming = rc.resuming
      /\ c.quarantined /\ c.stream = rc.stream
  BY RequireResyncSound, TrackerNow
<1>. HIDE DEF c
<1>8. sock' # "down" /\ sock' \in {"down", "opening", "up"}
  BY <1>1, <1>3, TrackerNow DEF TInv, Quiet
<1>10. /\ UNCHANGED <<epoch, ends, floor, attached>> /\ answers' = answers /\ acking' \in BOOLEAN
       /\ drops' \in Nat /\ lost' \in Nat /\ timeouts' \in Nat
  BY <1>1, TrackerNow DEF server, spent
<1>11. /\ c.resuming => flight.live
       /\ c.resuming \/ ~c.quarantined => c.named = <<0, 0>>
  BY <1>5, TrackerNow DEF SameBut
<1>. QED
  BY <1>1, <1>3, <1>5, <1>8, <1>10, <1>11, SettleTyped

LEMMA TranscriptLoadsTyped == ASSUME TInv, TranscriptLoads PROVE TInv'
<1>. DEFINE t == Head(wire)
<1>1. /\ wire # <<>> /\ t.kind = "transcript" /\ load.phase = "fetching"
      /\ known' = known \cup t.seen /\ ui' = "ready"
      /\ load' = (IF load.auth THEN [load EXCEPT !.phase = "recovering", !.id = 0] ELSE NoLoad)
      /\ wire' = Tail(wire)
      /\ UNCHANGED <<server, sock, calls, answers, rc, flight, acking, spent>>
  BY DEF TranscriptLoads
<1>2. wire' \in Seq(Heard) /\ ToSet(wire') \subseteq ToSet(wire) /\ t \in Traffic /\ t \in Heard
  BY <1>1, Dropped, TrackerNow
<1>. HIDE DEF t
<1>3. t.seen \subseteq Emitted
  BY <1>1, <1>2 DEF TInv, Honest, Truthful
<1>4. load' \in Loads
  BY <1>1, TrackerNow DEF Loads, NoLoad
<1>5. Typed' /\ Flying'
  BY <1>1, <1>2, <1>4
     DEF TInv, Typed, ServerTyped, PipesTyped, ClientTyped, Flying, server, spent
<1>6. Traffic' \subseteq Traffic
  BY <1>1, <1>2 DEF Traffic
<1>7. Matching' /\ Quiet'
  BY <1>1, <1>6 DEF TInv, Matching, Quiet, server
<1>8. Honest'
  <2>1. Sound(rc)' /\ (\A m : Truthful(m) => Truthful(m)') /\ Emitted' = Emitted
    BY <1>1 DEF TInv, Honest, Sound, Reached, Truthful, Emitted, server
  <2>. QED
    BY <1>1, <1>3, <1>6, <2>1 DEF TInv, Honest
<1>. QED
  BY <1>5, <1>7, <1>8 DEF TInv

LEMMA AckFiresTyped == ASSUME TInv, AckFires PROVE TInv'
<1>1. /\ acking' = FALSE
      /\ calls' = IF sock # "down" /\ rc.stream # 0 /\ rc.last > 0 THEN Append(calls, AckCall(rc)) ELSE calls
      /\ UNCHANGED <<server, sock, answers, wire, rc, flight, load, ui, known, spent>>
  BY DEF AckFires
<1>. DEFINE m == AckCall(rc)
<1>2. m \in Asked /\ m.kind = "ack"
  BY CoordinatorFields, TrackerNow DEF AckCall, Asked
<1>. HIDE DEF m
<1>3. calls \in Seq(Asked) /\ Append(calls, m) \in Seq(Asked) /\ ToSet(Append(calls, m)) = ToSet(calls) \cup {m}
  BY <1>2, SetOfAppended DEF TInv, Typed, PipesTyped
<1>4. calls' \in Seq(Asked) /\ \A x \in ToSet(calls') : x \in ToSet(calls) \/ (x = m /\ sock # "down")
  BY <1>1, <1>3 DEF m
<1>5. \A x \in Traffic' : x \in Traffic \/ (x = m /\ sock # "down")
  BY <1>1, <1>4 DEF Traffic
<1>6. Typed' /\ Flying'
  BY <1>1, <1>4 DEF TInv, Typed, ServerTyped, PipesTyped, ClientTyped, Flying, server, spent
<1>7. Quiet' /\ Matching'
  BY <1>1, <1>2, <1>5 DEF TInv, Quiet, Matching, server
<1>8. Honest'
  <2>1. Sound(rc)' /\ (\A x : Truthful(x) => Truthful(x)') /\ Emitted' = Emitted
    BY <1>1 DEF TInv, Honest, Sound, Reached, Truthful, Emitted, server
  <2>2. Truthful(m)
    BY <1>2 DEF Truthful
  <2>. QED
    BY <1>1, <1>5, <2>1, <2>2 DEF TInv, Honest
<1>. QED
  BY <1>6, <1>7, <1>8 DEF TInv

LEMMA ResyncCompletesTyped == ASSUME TInv, ResyncCompletes PROVE TInv'
<1>. DEFINE c == CompleteResync(rc)
            s == IF sock = "up" THEN ResumeAll(c) ELSE c
            asks == s.resuming /\ ~rc.resuming
<1>1. /\ Become(s, asks, <<>>) /\ load' = NoLoad
      /\ UNCHANGED <<server, sock, answers, wire, acking, ui, spent>>
  BY DEF ResyncCompletes
<1>2. /\ c \in Coordinators /\ Sound(c) /\ c.stream = rc.named[1] /\ c.named = <<0, 0>>
      /\ c.resuming = rc.resuming
  BY CompleteResyncSound, TrackerNow
<1>. HIDE DEF c
<1>3. /\ ResumeAll(c) \in Coordinators /\ Sound(ResumeAll(c)) /\ SameBut(c, ResumeAll(c))
      /\ ResumeAll(c).stream = c.stream
      /\ c.resuming => ResumeAll(c) = c
  BY <1>2, ResumeAllSound
<1>4. /\ s \in Coordinators /\ Sound(s) /\ s.stream = rc.named[1] /\ s.named = <<0, 0>>
      /\ s.resuming => rc.resuming \/ sock = "up"
      /\ rc.resuming => s.resuming
  BY <1>2, <1>3 DEF SameBut
<1>. HIDE DEF s
<1>5. asks \in BOOLEAN
  BY <1>4, CoordinatorFields, TrackerNow
<1>6. /\ s.resuming => asks \/ flight.live
      /\ s.resuming => sock' # "down"
      /\ s.resuming /\ ~asks => s.stream \in {rc.stream, 0}
      /\ sock' = "down" => sock = "down" /\ ~asks
  BY <1>1, <1>4, TrackerNow
<1>7. load' \in Loads
  BY <1>1 DEF NoLoad, Loads
<1>8. /\ UNCHANGED <<epoch, ends, floor, attached>> /\ answers' = answers /\ acking' \in BOOLEAN
      /\ drops' \in Nat /\ lost' \in Nat /\ timeouts' \in Nat
      /\ wire' \in Seq(Heard) /\ ToSet(wire') \subseteq ToSet(wire)
      /\ sock' \in {"down", "opening", "up"} /\ ui' \in {"none", "initializing", "ready", "error"}
  BY <1>1, TrackerNow DEF server, spent, PipesTyped
<1>9. asks => s.resuming
  OBVIOUS
<1>. HIDE DEF asks
<1>. QED
  BY <1>1, <1>4, <1>5, <1>6, <1>7, <1>8, <1>9, BecomeTyped

LEMMA ResumeTimesOutTyped == ASSUME TInv, ResumeTimesOut PROVE TInv'
<1>. DEFINE c == Retry(rc)
<1>1. /\ sock = "up" /\ timeouts' = timeouts + 1 /\ flight.live
      /\ \/ load' = Fetching(load.auth) /\ Become(c, FALSE, <<HistoryCall>>)
         \/ Become(c, FALSE, <<>>) /\ UNCHANGED load
      /\ UNCHANGED <<server, sock, answers, wire, acking, ui, drops, lost>>
  BY DEF ResumeTimesOut
<1>2. c \in Coordinators /\ Sound(c) /\ SameBut(rc, c) /\ ~c.resuming
  BY RetrySound, TrackerNow
<1>. HIDE DEF c
<1>3. c.named = <<0, 0>>
  BY <1>1, <1>2, TrackerNow DEF SameBut
<1>4. Fetching(load.auth) \in Loads
  <2>1. HistoryId \in Nat /\ load \in Loads
    BY UnusedIsFresh, TrackerNow DEF HistoryId
  <2>. QED
    BY <2>1 DEF Loads, Fetching
<1>5. /\ UNCHANGED <<epoch, ends, floor, attached>> /\ answers' = answers /\ acking' \in BOOLEAN
      /\ drops' \in Nat /\ lost' \in Nat /\ timeouts' \in Nat
      /\ wire' \in Seq(Heard) /\ ToSet(wire') \subseteq ToSet(wire)
      /\ sock' \in {"down", "opening", "up"} /\ ui' \in {"none", "initializing", "ready", "error"}
      /\ sock' # "down"
  BY <1>1, TrackerNow DEF server, PipesTyped
<1>6. load' \in Loads
  BY <1>1, <1>4, TrackerNow
<1>7. PICK fetch \in {<<>>, <<HistoryCall>>} : Become(c, FALSE, fetch)
  BY <1>1
<1>. QED
  BY <1>2, <1>3, <1>5, <1>6, <1>7, BecomeTyped

LEMMA HistoryTimesOutTyped == ASSUME TInv, HistoryTimesOut PROVE TInv'
<1>1. /\ timeouts' = timeouts + 1 /\ load' = NoLoad /\ ui' = "error"
      /\ UNCHANGED <<server, sock, pipes, rc, flight, acking, known, drops, lost>>
  BY DEF HistoryTimesOut
<1>2. load' \in Loads /\ timeouts' \in Nat
  BY <1>1, TrackerNow DEF NoLoad, Loads
<1>3. Traffic' = Traffic
  BY <1>1 DEF Traffic, pipes
<1>4. Sound(rc)' /\ (\A x : Truthful(x) => Truthful(x)') /\ Emitted' = Emitted
  BY <1>1 DEF TInv, Honest, Sound, Reached, Truthful, Emitted, server
<1>. QED
  BY <1>1, <1>2, <1>3, <1>4
     DEF TInv, Typed, ServerTyped, PipesTyped, ClientTyped, Honest, Flying, Quiet, Matching,
         server, pipes

LEMMA DropTyped == ASSUME TInv, Drop PROVE TInv'
<1>1. /\ drops' = drops + 1 /\ sock' = "down" /\ attached' = FALSE
      /\ calls' = <<>> /\ answers' = <<>> /\ wire' = <<>>
      /\ rc' = (IF flight.live THEN Retry(rc) ELSE rc)
      /\ flight' = NoFlight
      /\ \/ load' = NoLoad /\ ui' = "error"
         \/ UNCHANGED <<load, ui>>
      /\ UNCHANGED <<epoch, ends, floor, acking, known, lost, timeouts>>
  BY DEF Drop
<1>2. /\ Retry(rc) \in Coordinators /\ Sound(Retry(rc)) /\ SameBut(rc, Retry(rc)) /\ ~Retry(rc).resuming
      /\ Retry(rc).quarantined = rc.quarantined
  BY RetrySound, TrackerNow
<1>3. rc' \in Coordinators /\ Sound(rc') /\ ~rc'.resuming
  BY <1>1, <1>2, TrackerNow
<1>4. ~rc'.quarantined => rc'.named = <<0, 0>>
  BY <1>1, <1>2, TrackerNow DEF SameBut
<1>5. load' \in Loads /\ flight' \in Flights /\ drops' \in Nat /\ ui' \in {"none", "initializing", "ready", "error"}
  <2>1. NoLoad \in Loads /\ NoFlight \in Flights
    BY DEF NoLoad, Loads, NoFlight, Flights
  <2>. QED
    BY <1>1, <2>1, TrackerNow
<1>6. Traffic' = {}
  BY <1>1, SetOfNothing DEF Traffic
<1>7. Typed'
  BY <1>1, <1>3, <1>5, SetOfNothing DEF TInv, Typed, ServerTyped, PipesTyped, ClientTyped
<1>8. Quiet' /\ Matching' /\ Flying'
  BY <1>1, <1>3, <1>4, <1>6 DEF Quiet, Matching, Flying, NoFlight
<1>9. Honest'
  <2>1. Emitted' = Emitted /\ Sound(rc)'
    BY <1>1, <1>3 DEF Sound, Reached, Emitted
  <2>. QED
    BY <1>1, <1>6, <2>1 DEF TInv, Honest
<1>. QED
  BY <1>7, <1>8, <1>9 DEF TInv

LEMMA DialTyped == ASSUME TInv, Dial PROVE TInv'
<1>. DEFINE c == ResumeAll(rc)
            asks == c.resuming /\ ~rc.resuming
<1>1. /\ sock = "down" /\ Become(c, asks, <<>>) /\ sock' = (IF asks THEN "opening" ELSE "up")
      /\ UNCHANGED <<server, answers, wire, acking, load, ui, spent>>
  BY DEF Dial
<1>2. /\ c \in Coordinators /\ Sound(c) /\ SameBut(rc, c) /\ c.stream = rc.stream
      /\ c.quarantined = rc.quarantined /\ ~rc.resuming
      /\ c.resuming => ~rc.quarantined
  BY <1>1, ResumeAllSound, TrackerNow
<1>. HIDE DEF c
<1>3. asks \in BOOLEAN
  BY <1>2, CoordinatorFields, TrackerNow
<1>4. /\ asks => c.resuming
      /\ c.resuming => asks \/ flight.live
      /\ c.resuming \/ ~c.quarantined => c.named = <<0, 0>>
      /\ c.resuming /\ ~asks => c.stream \in {rc.stream, 0}
      /\ sock' # "down" /\ sock' \in {"down", "opening", "up"}
  BY <1>1, <1>2, TrackerNow DEF SameBut
<1>. HIDE DEF asks
<1>5. /\ UNCHANGED <<epoch, ends, floor, attached>> /\ answers' = answers /\ acking' \in BOOLEAN
      /\ drops' \in Nat /\ lost' \in Nat /\ timeouts' \in Nat /\ load' \in Loads
      /\ wire' \in Seq(Heard) /\ ToSet(wire') \subseteq ToSet(wire)
      /\ ui' \in {"none", "initializing", "ready", "error"}
  BY <1>1, TrackerNow DEF server, spent, PipesTyped
<1>. QED
  BY <1>1, <1>2, <1>3, <1>4, <1>5, BecomeTyped

LEMMA OpenTyped == ASSUME TInv, Open PROVE TInv'
<1>1. UNCHANGED <<server, sock, answers, wire, acking, spent>>
  BY DEF Open
<1>2. CASE sock # "down" /\ Select(rc, FALSE)
  <2>1. /\ UNCHANGED <<epoch, ends, floor, attached>> /\ answers' = answers /\ acking' \in BOOLEAN
        /\ drops' \in Nat /\ lost' \in Nat /\ timeouts' \in Nat
        /\ wire' \in Seq(Heard) /\ ToSet(wire') \subseteq ToSet(wire)
        /\ sock' # "down" /\ sock' \in {"down", "opening", "up"}
    BY <1>1, <1>2, TrackerNow DEF server, spent, PipesTyped
  <2>. QED
    BY <1>2, <2>1, SelectTyped, TrackerNow
<1>3. CASE /\ sock = "down" /\ rc' = [rc EXCEPT !.registered = TRUE]
           /\ ui' = "error" /\ load' = NoLoad /\ UNCHANGED <<calls, flight, known>>
  <2>. DEFINE d == [rc EXCEPT !.registered = TRUE]
  <2>1. /\ d \in Coordinators /\ Sound(d) /\ d.resuming = rc.resuming /\ d.quarantined = rc.quarantined
        /\ d.named = rc.named /\ d.stream = rc.stream
    BY RegisteredSound, TrackerNow
  <2>. HIDE DEF d
  <2>2. rc' = d
    BY <1>3 DEF d
  <2>3. load' \in Loads /\ Traffic' = Traffic
    BY <1>1, <1>3 DEF NoLoad, Loads, Traffic
  <2>4. Typed'
    BY <1>1, <1>3, <2>1, <2>2, <2>3
       DEF TInv, Typed, ServerTyped, PipesTyped, ClientTyped, server, spent
  <2>5. Quiet' /\ Matching' /\ Flying'
    BY <1>1, <1>3, <2>1, <2>2, <2>3 DEF TInv, Quiet, Matching, Flying, server
  <2>6. Honest'
    <3>1. (\A x : Truthful(x) => Truthful(x)') /\ Emitted' = Emitted
      BY <1>1 DEF Truthful, Emitted, server
    <3>2. Sound(rc)'
      BY <1>1, <2>1, <2>2, <3>1 DEF Sound, Reached, server
    <3>. QED
      BY <3>2, <1>3, <2>3, <3>1 DEF TInv, Honest
  <2>. QED
    BY <2>4, <2>5, <2>6 DEF TInv
<1>. QED
  BY <1>2, <1>3 DEF Open

LEMMA LeaveTyped == ASSUME TInv, Leave PROVE TInv'
<1>1. /\ rc' = Unregister(rc)
      /\ flight' = (IF flight.live /\ flight.own
                    THEN [flight EXCEPT !.own = FALSE, !.stream = rc.stream, !.last = rc.last]
                    ELSE flight)
      /\ acking' = FALSE /\ load' = NoLoad /\ ui' = "none"
      /\ UNCHANGED <<server, sock, pipes, known, spent>>
  BY DEF Leave
<1>2. /\ Unregister(rc) \in Coordinators /\ Sound(Unregister(rc))
      /\ Unregister(rc).resuming = rc.resuming /\ Unregister(rc).named = <<0, 0>>
  BY UnregisterSound, TrackerNow
<1>3. flight \in Flights /\ rc.stream \in Nat /\ rc.last \in Nat
  BY CoordinatorFields, TrackerNow DEF TInv, Typed, ClientTyped
<1>4. flight' \in Flights /\ flight'.live = flight.live /\ (flight'.live => ~flight'.own)
  BY <1>1, <1>3 DEF Flights
<1>5. load' \in Loads /\ Traffic' = Traffic
  BY <1>1 DEF NoLoad, Loads, Traffic, pipes
<1>6. Typed'
  BY <1>1, <1>2, <1>4, <1>5
     DEF TInv, Typed, ServerTyped, PipesTyped, ClientTyped, server, spent, pipes
<1>7. Quiet' /\ Matching' /\ Flying'
  BY <1>1, <1>2, <1>4, <1>5 DEF TInv, Quiet, Matching, Flying, server
<1>8. Honest'
  <2>1. Sound(rc)' /\ (\A x : Truthful(x) => Truthful(x)') /\ Emitted' = Emitted
    BY <1>1, <1>2 DEF Sound, Reached, Truthful, Emitted, server
  <2>. QED
    BY <1>1, <1>5, <2>1 DEF TInv, Honest
<1>. QED
  BY <1>6, <1>7, <1>8 DEF TInv

LEMMA InitTyped == ASSUME Init PROVE TInv
<1>1. Len(Lengths) \in Nat /\ Len(Lengths) # 0 /\ Epochs = 1..Len(Lengths)
  BY ReplayAssumption DEF Epochs
<1>l. \A n \in Epochs : Lengths[n] \in Nat
  BY ReplayAssumption DEF Epochs
<1>2. ServerTyped
  <2>1. epoch = 1 /\ ends = [n \in Epochs |-> 0] /\ floor = 0 /\ attached = FALSE
    BY DEF Init
  <2>2. 1 \in Epochs
    BY <1>1
  <2>3. ends \in [Epochs -> Nat] /\ (\A n \in Epochs : ends[n] = 0) /\ floor \in 0..ends[epoch]
    BY <2>1, <2>2
  <2>4. \A n \in Epochs : ends[n] <= Lengths[n] /\ (n > epoch => ends[n] = 0)
    BY <1>l, <2>3
  <2>. QED
    BY <2>1, <2>2, <2>3, <2>4 DEF ServerTyped
<1>3. Traffic = {} /\ PipesTyped
  BY SetOfNothing DEF Init, Traffic, PipesTyped
<1>4. Fresh \in Coordinators /\ Sound(Fresh)
  BY <1>2, FreshSound
<1>5. ClientTyped
  BY <1>4 DEF Init, ClientTyped, NoFlight, Flights, NoLoad, Loads
<1>. QED
  BY <1>2, <1>3, <1>4, <1>5
     DEF Init, TInv, Typed, Honest, Flying, Quiet, Matching, NoFlight, Fresh

LEMMA StepTyped == ASSUME TInv, [Next]_vars PROVE TInv'
<1>1. CASE UNCHANGED vars
  BY <1>1
     DEF vars, server, pipes, spent, TInv, Typed, ServerTyped, PipesTyped, ClientTyped, Honest,
         Flying, Quiet, Matching, Traffic, Sound, Reached, Truthful, Emitted
<1>2. CASE Receive
  BY <1>2, ReceiveEventTyped, ResumeSucceedsTyped, ResumeRefusedTyped, TranscriptLoadsTyped,
     AckRefusedTyped, LateAnswerTyped DEF Receive
<1>. QED
  BY <1>1, <1>2, EmitTyped, NewEpochTyped, CompactTyped, ServeTyped, SendAnswerTyped, AckFiresTyped,
     ResyncCompletesTyped, ResumeTimesOutTyped, HistoryTimesOutTyped, DropTyped, DialTyped,
     OpenTyped, LeaveTyped DEF Next

LEMMA Types == Spec => []TInv
<1>1. Init => TInv
  BY InitTyped
<1>2. TInv /\ [Next]_vars => TInv'
  BY StepTyped
<1>. QED
  BY <1>1, <1>2, PTL DEF Spec

\* Whatever the server emits, loses and forgets, whatever times out and however
\* the user comes and goes: the cursor names what was emitted, the tracker waits
\* for exactly the backfill whose call is pending, and nothing is known that was
\* never sent.
THEOREM Typing == Spec => []TypeOK
<1>1. TInv => TypeOK
  <2>1. SUFFICES ASSUME TInv PROVE TypeOK
    OBVIOUS
  <2>2. \A n \in Epochs : n \in Nat /\ n # 0 /\ ends[n] \in Nat /\ Lengths[n] \in Nat /\ ends[n] <= Lengths[n]
    <3>1. \A n \in Epochs : n \in Nat /\ n # 0
      BY StreamsAreNumbered
    <3>2. \A n \in Epochs : Lengths[n] \in Nat
      BY ReplayAssumption DEF Epochs
    <3>3. \A n \in Epochs : ends[n] \in Nat /\ ends[n] <= Lengths[n]
      BY <2>1 DEF TInv, Typed, ServerTyped
    <3>. QED
      BY <3>1, <3>2, <3>3
  <2>3. epoch \in Epochs /\ floor \in 0..ends[epoch] /\ attached \in BOOLEAN
    BY <2>1 DEF TInv, Typed, ServerTyped
  <2>4. rc.stream \in 0..epoch /\ (rc.stream # 0 => rc.last \in 0..ends[rc.stream])
    <3>1. rc.last \in Nat /\ rc.stream \in 0..epoch /\ (rc.stream # 0 => rc.last <= ends[rc.stream])
      BY <2>1 DEF TInv, Honest, Sound, Reached
    <3>2. rc.stream # 0 => rc.stream \in Epochs
      BY <2>2, <2>3, <3>1, StreamsAreNumbered
    <3>. QED
      BY <2>2, <3>1, <3>2
  <2>5. flight.live <=> (rc.resuming /\ sock # "down")
    BY <2>1 DEF TInv, Flying
  <2>. QED
    BY <2>1, <2>2, <2>3, <2>4, <2>5 DEF TypeOK, TInv, Typed, ClientTyped, Loads, Honest
<1>. QED
  BY <1>1, Types, PTL

---------------------------------------------------------------------------
(* The order of what is applied                                            *)

LEMMA BecomeOrdered ==
    ASSUME OInv, NEW c, NEW asks, NEW fetch, Become(c, asks, fetch), Applied(c)
    PROVE  OInv'
<1>1. /\ rc' = c
      /\ flight' = IF asks THEN [id |-> ResumeId, own |-> TRUE, stream |-> 0, last |-> 0, live |-> TRUE]
                   ELSE IF c.resuming THEN flight ELSE NoFlight
  BY DEF Become
<1>2. Applied(rc)'
  BY <1>1 DEF Applied, Increasing, Below
<1>3. flight'.live => flight'.own
  BY <1>1 DEF OInv, NoFlight
<1>. QED
  BY <1>2, <1>3 DEF OInv

LEMMA SelectOrdered ==
    ASSUME OInv, NEW c \in Coordinators, Sound(c), Applied(c), NEW auth, Select(c, auth)
    PROVE  OInv'
<1>. DEFINE r == [c EXCEPT !.registered = TRUE]
            s == IF sock = "up" THEN ResumeAll(r) ELSE r
<1>1. r \in Coordinators /\ Sound(r) /\ Applied(r)
  BY RegisteredSound
<1>2. PICK asks, fetch : Become(s, asks, fetch)
  BY DEF Select
<1>. HIDE DEF r
<1>3. Applied(s)
  BY <1>1, ResumeAllSound
<1>. HIDE DEF s
<1>. QED
  BY <1>2, <1>3, BecomeOrdered

LEMMA SettleOrdered ==
    ASSUME OInv, NEW c \in Coordinators, Sound(c), Applied(c), NEW asks, Settle(c, asks)
    PROVE  OInv'
  BY SelectOrdered, BecomeOrdered DEF Settle

LEMMA StepOrdered == ASSUME Calm, TInv, OInv, [Next]_vars PROVE OInv'
<1>0. Applied(rc)
  BY DEF OInv
<1>s. ASSUME UNCHANGED <<rc, flight>> PROVE OInv'
  BY <1>s DEF OInv, Applied, Increasing, Below
<1>1. CASE UNCHANGED vars \/ Emit \/ NewEpoch \/ Compact
  BY <1>1, <1>s DEF vars, Emit, NewEpoch, Compact
<1>2. CASE \E i \in DOMAIN calls : Serve(i)
  BY <1>2, <1>s DEF Serve
<1>3. CASE \E i \in DOMAIN answers : SendAnswer(i)
  BY <1>3, <1>s DEF SendAnswer
<1>4. CASE AckFires \/ HistoryTimesOut \/ TranscriptLoads \/ LateAnswer
  BY <1>4, <1>s DEF AckFires, HistoryTimesOut, TranscriptLoads, LateAnswer
<1>5. CASE ReceiveEvent
  <2>. DEFINE e == Head(wire).event
              c == Handle(rc, e)
  <2>1. wire # <<>> /\ wire' = Tail(wire) /\ Head(wire).kind = "event" /\ \E asks : Settle(c, asks)
    BY <1>5 DEF ReceiveEvent
  <2>2. Head(wire) \in Traffic
    BY <2>1, Dropped, TrackerNow
  <2>3. e \in Emitted
    BY <2>1, <2>2 DEF TInv, Honest, Truthful
  <2>. HIDE DEF e
  <2>4. c \in Coordinators /\ Sound(c) /\ Applied(c)
    BY <1>0, <2>3, HandleSound, TrackerNow
  <2>. HIDE DEF c
  <2>. QED
    BY <2>1, <2>4, SettleOrdered
<1>6. CASE ResumeSucceeds
  <2>. DEFINE a == Head(wire)
              c == Landed(a)
  <2>1. /\ wire # <<>> /\ a.kind = "resumed" /\ flight.live /\ flight.id = a.id /\ wire' = Tail(wire)
        /\ Select(c, TRUE) \/ \E asks, fetch : Become(c, asks, fetch)
    BY <1>6 DEF ResumeSucceeds
  <2>2. a \in Traffic /\ a \in Heard
    BY <2>1, Dropped, TrackerNow
  <2>. HIDE DEF a
  <2>3. Truthful(a) /\ Fits(a) /\ rc.resuming /\ flight.own
    BY <2>1, <2>2 DEF TInv, Honest, Matching, Flying, Fits, OInv
  <2>4. c \in Coordinators /\ Sound(c) /\ Applied(c)
    BY <1>0, <2>1, <2>2, <2>3, LandedSound, TrackerNow
  <2>. HIDE DEF c
  <2>. QED
    BY <2>1, <2>4, SelectOrdered, BecomeOrdered
<1>7. CASE ResumeRefused
  <2>. DEFINE a == Head(wire)
              c == Refused(a)
  <2>1. wire # <<>> /\ a.kind = "refused" /\ wire' = Tail(wire) /\ Settle(c, FALSE)
    BY <1>7 DEF ResumeRefused
  <2>2. a \in Traffic /\ a \in Heard
    BY <2>1, Dropped, TrackerNow
  <2>. HIDE DEF a
  <2>3. Truthful(a)
    BY <2>1, <2>2 DEF TInv, Honest
  <2>4. c \in Coordinators /\ Sound(c) /\ Applied(c)
    BY <1>0, <2>1, <2>2, <2>3, RefusedSound, TrackerNow
  <2>. HIDE DEF c
  <2>. QED
    BY <2>1, <2>4, SettleOrdered
<1>8. CASE AckRefused
  <2>. DEFINE c == RequireResync(rc)
  <2>1. Settle(c, FALSE)
    BY <1>8 DEF AckRefused
  <2>2. /\ c \in Coordinators /\ Sound(c) /\ c.resuming = rc.resuming /\ c.quarantined
        /\ c.stream = rc.stream /\ c.last = rc.last /\ c.applied = rc.applied
    BY RequireResyncSound, TrackerNow
  <2>. HIDE DEF c
  <2>3. Applied(c)
    BY <1>0, <2>2 DEF Applied, Below
  <2>. QED
    BY <2>1, <2>2, <2>3, SettleOrdered
<1>9. CASE ResyncCompletes
  <2>. DEFINE c == CompleteResync(rc)
              s == IF sock = "up" THEN ResumeAll(c) ELSE c
  <2>1. \E asks : Become(s, asks, <<>>)
    BY <1>9 DEF ResyncCompletes
  <2>2. c \in Coordinators /\ Sound(c) /\ Applied(c)
    BY CompleteResyncSound, TrackerNow
  <2>. HIDE DEF c
  <2>3. Applied(s)
    BY <2>2, ResumeAllSound
  <2>. HIDE DEF s
  <2>. QED
    BY <2>1, <2>3, BecomeOrdered
<1>10. CASE ResumeTimesOut
  <2>1. flight.live /\ \E fetch : Become(Retry(rc), FALSE, fetch)
    BY <1>10 DEF ResumeTimesOut
  <2>2. Applied(Retry(rc))
    BY <1>0, <2>1, RetrySound, TrackerNow
  <2>. QED
    BY <2>1, <2>2, BecomeOrdered
<1>11. CASE Drop
  <2>1. flight' = NoFlight /\ rc' = IF flight.live THEN Retry(rc) ELSE rc
    BY <1>11 DEF Drop
  <2>2. flight.live => Applied(Retry(rc))
    BY <1>0, RetrySound, TrackerNow
  <2>3. Applied(rc')
    BY <1>0, <2>1, <2>2
  <2>. QED
    BY <2>1, <2>3 DEF OInv, Applied, Increasing, Below, NoFlight
<1>12. CASE Dial
  <2>1. \E asks : Become(ResumeAll(rc), asks, <<>>)
    BY <1>12 DEF Dial
  <2>2. Applied(ResumeAll(rc))
    BY <1>0, ResumeAllSound, TrackerNow
  <2>. QED
    BY <2>1, <2>2, BecomeOrdered
<1>13. CASE Open
  <2>1. CASE Select(rc, FALSE)
    BY <1>0, <2>1, SelectOrdered, TrackerNow
  <2>2. CASE rc' = [rc EXCEPT !.registered = TRUE] /\ flight' = flight
    <3>1. Applied(rc')
      BY <1>0, <2>2, RegisteredSound, TrackerNow
    <3>. QED
      BY <2>2, <3>1 DEF OInv, Applied, Increasing, Below
  <2>. QED
    BY <1>13, <2>1, <2>2 DEF Open
<1>14. CASE Leave
  <2>1. rc' = Unregister(rc) /\ ~rc.resuming
    BY <1>14 DEF Leave
  <2>2. ~flight.live
    BY <2>1, TrackerNow
  <2>3. flight' = flight
    BY <1>14, <2>2 DEF Leave
  <2>4. Applied(rc')
    BY <2>1, UnregisterSound, TrackerNow
  <2>. QED
    BY <2>2, <2>3, <2>4 DEF OInv, Applied, Increasing, Below
<1>. QED
  BY <1>1, <1>2, <1>3, <1>4, <1>5, <1>6, <1>7, <1>8, <1>9, <1>10, <1>11, <1>12, <1>13, <1>14
     DEF Next, Receive

LEMMA InitOrdered == ASSUME Init PROVE OInv
<1>1. Applied(Fresh)
  BY InitTyped, FreshSound DEF TInv, Typed
<1>. QED
  BY <1>1 DEF Init, OInv, NoFlight

\* As long as the user leaves no session whose backfill is under way, between
\* two resets of the cursor every event is applied at most once and in order,
\* whichever of the socket, the backfills and the lists of held events it
\* comes from, and whatever the server and the network do.
THEOREM Order == ASSUME Calm PROVE Spec => []AppliedInOrder
<1>1. Init => OInv
  BY InitOrdered
<1>2. TInv /\ OInv /\ [Next]_vars => OInv'
  BY StepOrdered
<1>3. TInv /\ OInv => AppliedInOrder
  <2>1. SUFFICES ASSUME TInv, OInv PROVE AppliedInOrder
    OBVIOUS
  <2>2. rc.applied \in Seq(Pairs)
    BY <2>1, CoordinatorFields, TrackerNow
  <2>3. DOMAIN rc.applied = 1..Len(rc.applied)
    BY <2>2
  <2>. QED
    BY <2>1, <2>3 DEF OInv, Applied, Increasing, AppliedInOrder
<1>. QED
  BY <1>1, <1>2, <1>3, Types, PTL DEF Spec

---------------------------------------------------------------------------
(* The order of messages on their way                                      *)

LEMMA FollowsTail ==
    ASSUME NEW S, NEW s \in Seq(S), s # <<>>, NEW x, NEW y, Follows(Tail(s), x, y)
    PROVE  Follows(s, x, y)
<1>1. PICK i, j \in 1..Len(Tail(s)) : i < j /\ Tail(s)[i] = x /\ Tail(s)[j] = y
  BY DEF Follows
<1>2. /\ Len(Tail(s)) = Len(s) - 1 /\ Len(s) \in Nat
      /\ \A k \in 1..Len(Tail(s)) : Tail(s)[k] = s[k + 1] /\ k + 1 \in 1..Len(s)
  OBVIOUS
<1>3. i + 1 \in 1..Len(s) /\ j + 1 \in 1..Len(s) /\ i + 1 < j + 1 /\ s[i + 1] = x /\ s[j + 1] = y
  BY <1>1, <1>2
<1>. QED
  BY <1>3 DEF Follows

LEMMA FollowsAppended ==
    ASSUME NEW S, NEW s \in Seq(S), NEW m \in S, NEW x, NEW y, Follows(Append(s, m), x, y)
    PROVE  Follows(s, x, y) \/ (y = m /\ x \in ToSet(s))
<1>1. PICK i, j \in 1..Len(Append(s, m)) : i < j /\ Append(s, m)[i] = x /\ Append(s, m)[j] = y
  BY DEF Follows
<1>2. /\ Len(Append(s, m)) = Len(s) + 1 /\ Len(s) \in Nat /\ Append(s, m)[Len(s) + 1] = m
      /\ \A k \in 1..Len(s) : Append(s, m)[k] = s[k]
  OBVIOUS
<1>3. i \in 1..Len(s) /\ s[i] = x
  BY <1>1, <1>2
<1>4. x \in ToSet(s)
  BY <1>3, Elements
<1>5. CASE j = Len(s) + 1
  BY <1>1, <1>2, <1>4, <1>5
<1>6. CASE j # Len(s) + 1
  <2>1. j \in 1..Len(s) /\ s[j] = y
    BY <1>1, <1>2, <1>6
  <2>. QED
    BY <1>1, <1>3, <2>1 DEF Follows
<1>. QED
  BY <1>5, <1>6

LEMMA FollowsHead ==
    ASSUME NEW S, NEW s \in Seq(S), s # <<>>, NEW y \in ToSet(Tail(s)) PROVE Follows(s, Head(s), y)
<1>1. /\ Tail(s) \in Seq(S) /\ Len(Tail(s)) = Len(s) - 1 /\ Len(s) \in Nat /\ Head(s) = s[1]
      /\ \A k \in 1..Len(Tail(s)) : Tail(s)[k] = s[k + 1] /\ k + 1 \in 1..Len(s)
  OBVIOUS
<1>e. \A z : z \in ToSet(Tail(s)) <=> \E k \in 1..Len(Tail(s)) : Tail(s)[k] = z
  BY <1>1, Elements
<1>2. PICK k \in 1..Len(Tail(s)) : Tail(s)[k] = y
  BY <1>e
<1>3. 1 \in 1..Len(s) /\ k + 1 \in 1..Len(s) /\ 1 < k + 1 /\ s[1] = Head(s) /\ s[k + 1] = y
  BY <1>1, <1>2
<1>. QED
  BY <1>3 DEF Follows

\* The head of the wire is ahead of everything else.
LEMMA HeadAhead ==
    ASSUME PipesTyped, wire # <<>>, NEW y \in Traffic, y # Head(wire) PROVE Ahead(Head(wire), y)
<1>1. wire \in Seq(Heard)
  BY DEF PipesTyped
<1>2. Head(wire) \in ToSet(wire) /\ ToSet(wire) = ToSet(Tail(wire)) \cup {Head(wire)}
  BY <1>1, SetOfTail
<1>3. y \in ToSet(Tail(wire)) => Follows(wire, Head(wire), y)
  BY <1>1, FollowsHead
<1>. QED
  BY <1>2, <1>3 DEF Ahead, Traffic

\* A message that is received is ahead of nothing any more; a call that is sent
\* is behind everything.
LEMMA AheadLater ==
    ASSUME PipesTyped, answers' = answers, NEW m \in Asked,
           \/ wire' = wire
           \/ wire # <<>> /\ wire' = Tail(wire),
           calls' = calls \/ calls' = Append(calls, m),
           NEW x, NEW y, Ahead(x, y)'
    PROVE  Ahead(x, y) \/ (y = m /\ calls' = Append(calls, m) /\ x \in Traffic)
<1>1. wire \in Seq(Heard) /\ calls \in Seq(Asked)
  BY DEF PipesTyped
<1>2. ToSet(wire') \subseteq ToSet(wire)
  BY <1>1, SetOfTail
<1>3. calls' = Append(calls, m) => ToSet(calls') = ToSet(calls) \cup {m}
  BY <1>1, SetOfAppended
<1>4. Follows(wire', x, y) => Follows(wire, x, y)
  BY <1>1, FollowsTail
<1>5. Follows(calls', x, y) => Follows(calls, x, y) \/ (y = m /\ calls' = Append(calls, m) /\ x \in ToSet(calls))
  <2>1. Follows(Append(calls, m), x, y) => Follows(calls, x, y) \/ (y = m /\ x \in ToSet(calls))
    BY <1>1, FollowsAppended
  <2>. QED
    BY <2>1
<1>6. \/ Follows(wire', x, y) \/ Follows(answers', x, y) \/ Follows(calls', x, y)
      \/ x \in ToSet(wire') /\ y \in ToSet(answers') \cup ToSet(calls')
      \/ x \in ToSet(answers') /\ y \in ToSet(calls')
  BY DEF Ahead, Follows
<1>. QED
  BY <1>2, <1>3, <1>4, <1>5, <1>6 DEF Ahead, Traffic

\* In the order of the calls: an answer is sent from the place it has.
LEMMA AheadSent ==
    ASSUME PipesTyped, answers # <<>>, answers' = Tail(answers), wire' = Append(wire, Head(answers)),
           calls' = calls, NEW x, NEW y, Ahead(x, y)'
    PROVE  Ahead(x, y)
<1>1. wire \in Seq(Heard) /\ answers \in Seq(Heard)
  BY DEF PipesTyped
<1>. DEFINE a == Head(answers)
<1>2. a \in Heard /\ a \in ToSet(answers) /\ ToSet(answers') \subseteq ToSet(answers)
  BY <1>1, SetOfTail
<1>3. \A z \in ToSet(answers') : Follows(answers, a, z)
  BY <1>1, FollowsHead
<1>. HIDE DEF a
<1>4. wire' = Append(wire, a)
  BY DEF a
<1>5. ToSet(wire') = ToSet(wire) \cup {a}
  BY <1>1, <1>2, <1>4, SetOfAppended
<1>6. Follows(wire', x, y) => Follows(wire, x, y) \/ (y = a /\ x \in ToSet(wire))
  BY <1>1, <1>2, <1>4, FollowsAppended
<1>7. Follows(answers', x, y) => Follows(answers, x, y)
  BY <1>1, FollowsTail
<1>8. \/ Follows(wire', x, y) \/ Follows(answers', x, y) \/ Follows(calls', x, y)
      \/ x \in ToSet(wire') /\ y \in ToSet(answers') \cup ToSet(calls')
      \/ x \in ToSet(answers') /\ y \in ToSet(calls')
  BY DEF Ahead, Follows
<1>. QED
  BY <1>2, <1>3, <1>5, <1>6, <1>7, <1>8 DEF Ahead

\* In the order of the calls: an answer has the place of its call.
LEMMA AheadServed ==
    ASSUME PipesTyped, calls # <<>>, calls' = Tail(calls), wire' = wire, NEW r \in Heard,
           answers' = Append(answers, r) \/ answers' = answers, NEW x, NEW y, Ahead(x, y)'
    PROVE  \/ Ahead(x, y)
           \/ answers' = Append(answers, r) /\ x = r /\ Ahead(Head(calls), y)
           \/ answers' = Append(answers, r) /\ y = r /\ Ahead(x, Head(calls))
<1>1. answers \in Seq(Heard) /\ calls \in Seq(Asked)
  BY DEF PipesTyped
<1>. DEFINE m == Head(calls)
<1>2. m \in ToSet(calls) /\ ToSet(calls') \subseteq ToSet(calls)
  BY <1>1, SetOfTail
<1>3. \A z \in ToSet(calls') : Follows(calls, m, z)
  BY <1>1, FollowsHead
<1>. HIDE DEF m
<1>4. answers' = Append(answers, r) => ToSet(answers') = ToSet(answers) \cup {r}
  BY <1>1, SetOfAppended
<1>5. Follows(answers', x, y) => Follows(answers, x, y) \/ (y = r /\ x \in ToSet(answers) /\ answers' = Append(answers, r))
  BY <1>1, FollowsAppended
<1>6. Follows(calls', x, y) => Follows(calls, x, y)
  BY <1>1, FollowsTail
<1>7. \/ Follows(wire', x, y) \/ Follows(answers', x, y) \/ Follows(calls', x, y)
      \/ x \in ToSet(wire') /\ y \in ToSet(answers') \cup ToSet(calls')
      \/ x \in ToSet(answers') /\ y \in ToSet(calls')
  BY DEF Ahead, Follows
<1>. QED
  BY <1>2, <1>3, <1>4, <1>5, <1>6, <1>7 DEF Ahead, m

\* A live event comes behind what is on the wire and ahead of what is not.
LEMMA AheadEmitted ==
    ASSUME PipesTyped, NEW m \in Heard, wire' = Append(wire, m) \/ wire' = wire,
           answers' = answers, calls' = calls, NEW x, NEW y, Ahead(x, y)'
    PROVE  Ahead(x, y) \/ x = m \/ y = m
<1>1. wire \in Seq(Heard)
  BY DEF PipesTyped
<1>2. wire' = Append(wire, m) => ToSet(wire') = ToSet(wire) \cup {m}
  BY <1>1, SetOfAppended
<1>3. Follows(wire', x, y) => Follows(wire, x, y) \/ y = m
  BY <1>1, FollowsAppended
<1>4. \/ Follows(wire', x, y) \/ Follows(answers', x, y) \/ Follows(calls', x, y)
      \/ x \in ToSet(wire') /\ y \in ToSet(answers') \cup ToSet(calls')
      \/ x \in ToSet(answers') /\ y \in ToSet(calls')
  BY DEF Ahead, Follows
<1>. QED
  BY <1>2, <1>3, <1>4 DEF Ahead

---------------------------------------------------------------------------
(* A backfill in flight has its list                                       *)

LEMMA BecomeHeld ==
    ASSUME TInv, HInv, NEW c \in Coordinators, NEW asks \in BOOLEAN,
           NEW fetch \in {<<>>, <<HistoryCall>>}, Become(c, asks, fetch), Listed(c),
           wire' = wire \/ (wire # <<>> /\ wire' = Tail(wire)), answers' = answers,
           asks => c.resuming,
           c.resuming /\ ~asks => flight.live /\ (wire' = wire \/ ~OfFlight(Head(wire))),
           load'.auth => /\ c.quarantined /\ c.registered /\ ~asks
                         /\ \/ load' = load /\ fetch = <<>>
                            \/ load' = Fetching(TRUE) /\ fetch = <<HistoryCall>>,
           load'.phase = "recovering" => load'.auth /\ ~c.resuming,
           load'.phase = "attaching" => ~load'.auth
    PROVE  HInv'
<1>1. /\ rc' = c
      /\ flight' = IF asks THEN [id |-> ResumeId, own |-> TRUE, stream |-> 0, last |-> 0, live |-> TRUE]
                   ELSE IF c.resuming THEN flight ELSE NoFlight
      /\ calls' = calls \o (IF asks THEN <<ResumeCall(c)>> ELSE <<>>) \o fetch
  BY DEF Become
<1>2. /\ asks => ResumeCall(c) \in ToSet(calls')
      /\ ToSet(calls) \subseteq ToSet(calls')
      /\ HistoryId \in Nat /\ \A m \in Traffic : m.kind \in Readings => m.id # HistoryId
  BY BecomeAsks, TrackerNow
<1>3. flight'.live => \E m \in Traffic' : OfFlight(m)'
  <2>1. CASE asks
    <3>1. ResumeCall(c) \in Traffic'
      BY <1>2, <2>1 DEF Traffic
    <3>2. PICK m \in Traffic' : m = ResumeCall(c)
      BY <3>1
    <3>3. m.kind = "resume" /\ m.id = ResumeId
      BY <3>2 DEF ResumeCall
    <3>4. flight'.live /\ flight'.id = ResumeId
      BY <1>1, <2>1
    <3>5. OfFlight(m)'
      BY <3>3, <3>4 DEF OfFlight, Backfills
    <3>. QED
      BY <3>5
  <2>2. CASE ~asks /\ c.resuming
    <3>1. PICK m \in Traffic : OfFlight(m)
      BY <2>2 DEF HInv
    <3>2. m \in Traffic'
      <4>1. \A x \in ToSet(wire) : x \in ToSet(wire') \/ x = Head(wire)
        <5>1. wire' = wire \/ ToSet(wire) = ToSet(wire') \cup {Head(wire)}
          BY Dropped, TrackerNow
        <5>. QED
          BY <5>1
      <4>. QED
        BY <1>2, <2>2, <3>1, <4>1 DEF Traffic
    <3>. QED
      BY <1>1, <2>2, <3>1, <3>2 DEF OfFlight
  <2>3. CASE ~asks /\ ~c.resuming
    BY <1>1, <2>3 DEF NoFlight
  <2>. QED
    BY <2>1, <2>2, <2>3
<1>4. load'.auth => \A x, y \in Traffic' : OfLoad(x)' /\ OfFlight(y)' => ~Ahead(x, y)'
  <2>1. SUFFICES ASSUME load'.auth, NEW x \in Traffic', NEW y \in Traffic', OfLoad(x)', OfFlight(y)',
                        Ahead(x, y)'
                 PROVE  FALSE
    BY Zenon
  <2>2. ~asks /\ c.resuming /\ flight' = flight
    BY <1>1, <2>1 DEF OfFlight, NoFlight
  <2>3. calls' = calls \/ calls' = Append(calls, HistoryCall)
    <3>1. calls \in Seq(Asked)
      BY TrackerNow DEF PipesTyped
    <3>2. calls' = calls \o <<>> \o fetch
      BY <1>1, <2>2
    <3>. QED
      BY <3>1, <3>2
  <2>4. HistoryCall \in Asked
    BY <1>2 DEF HistoryCall, Asked
  <2>5. OfFlight(y) /\ y # HistoryCall
    BY <2>1, <2>2 DEF OfFlight, HistoryCall, Backfills
  <2>6. Ahead(x, y)
    BY <2>1, <2>3, <2>4, <2>5, AheadLater, TrackerNow
  <2>7. x \in Traffic /\ y \in Traffic
    BY <2>6, Elements, TrackerNow DEF Ahead, Follows, Traffic, PipesTyped
  <2>8. CASE load' = load
    <3>1. OfLoad(x)
      BY <2>1, <2>8 DEF OfLoad
    <3>. QED
      BY <2>1, <2>5, <2>6, <2>7, <2>8, <3>1 DEF HInv
  <2>9. CASE load' = Fetching(TRUE)
    <3>1. x.kind \in Readings /\ x.id = HistoryId
      BY <2>1, <2>9 DEF OfLoad, Fetching
    <3>. QED
      BY <1>2, <2>7, <3>1
  <2>. QED
    BY <2>1, <2>8, <2>9
<1>. QED
  BY <1>1, <1>3, <1>4 DEF HInv, Listed

LEMMA SelectHeld ==
    ASSUME TInv, HInv, NEW c \in Coordinators, Sound(c), NEW auth \in BOOLEAN, Select(c, auth), Listed(c),
           wire' = wire \/ (wire # <<>> /\ wire' = Tail(wire)), answers' = answers,
           c.resuming => flight.live /\ (wire' = wire \/ ~OfFlight(Head(wire))),
           auth => c.quarantined
    PROVE  HInv'
<1>. DEFINE r == [c EXCEPT !.registered = TRUE]
            s == IF sock = "up" THEN ResumeAll(r) ELSE r
            asks == s.resuming /\ ~c.resuming
            fetch == IF asks THEN <<>> ELSE <<HistoryCall>>
<1>1. /\ r \in Coordinators /\ Sound(r) /\ r.registered /\ r.quarantined = c.quarantined
      /\ r.resuming = c.resuming /\ Listed(r)
  BY RegisteredSound
<1>. HIDE DEF r
<1>2. /\ ResumeAll(r) \in Coordinators /\ ResumeAll(r).registered = r.registered
      /\ ResumeAll(r).quarantined = r.quarantined /\ Listed(ResumeAll(r))
      /\ r.resuming => ResumeAll(r) = r
      /\ ~r.resuming /\ ResumeAll(r).resuming => ~r.quarantined
  BY <1>1, ResumeAllSound DEF SameBut
<1>3. /\ s \in Coordinators /\ s.registered /\ s.quarantined = c.quarantined /\ Listed(s)
      /\ s.resuming => c.resuming \/ ~c.quarantined
      /\ c.resuming => s.resuming
  BY <1>1, <1>2
<1>4. /\ Become(s, asks, fetch)
      /\ load' = IF asks THEN [phase |-> "attaching", auth |-> auth, id |-> 0] ELSE Fetching(auth)
  BY DEF Select, r
<1>. HIDE DEF s
<1>5. asks \in BOOLEAN /\ fetch \in {<<>>, <<HistoryCall>>}
  BY <1>3, CoordinatorFields
<1>6. /\ asks => s.resuming
      /\ s.resuming /\ ~asks => flight.live /\ (wire' = wire \/ ~OfFlight(Head(wire)))
      /\ asks => ~auth
  BY <1>3
<1>7. asks => load'.phase = "attaching" /\ ~load'.auth
  BY <1>4, <1>6
<1>8. ~asks => load' = Fetching(auth) /\ fetch = <<HistoryCall>> /\ load'.phase = "fetching" /\ load'.auth = auth
  BY <1>4 DEF Fetching
<1>9. /\ load'.auth => /\ s.quarantined /\ s.registered /\ ~asks
                       /\ \/ load' = load /\ fetch = <<>>
                          \/ load' = Fetching(TRUE) /\ fetch = <<HistoryCall>>
      /\ load'.phase = "recovering" => load'.auth /\ ~s.resuming
      /\ load'.phase = "attaching" => ~load'.auth
  BY <1>3, <1>7, <1>8
<1>. HIDE DEF asks, fetch
<1>. QED
  BY <1>3, <1>4, <1>5, <1>6, <1>9, BecomeHeld

LEMMA SettleHeld ==
    ASSUME TInv, HInv, NEW c \in Coordinators, Sound(c), NEW asks \in BOOLEAN, Settle(c, asks), Listed(c),
           wire' = wire \/ (wire # <<>> /\ wire' = Tail(wire)), answers' = answers,
           asks => c.resuming /\ ~c.quarantined,
           c.resuming /\ ~asks => flight.live /\ (wire' = wire \/ ~OfFlight(Head(wire))),
           rc.quarantined => c.quarantined /\ (c.resuming => rc.resuming), c.registered = rc.registered
    PROVE  HInv'
<1>1. CASE c.quarantined /\ ~rc.quarantined /\ c.registered
  <2>1. Select(c, TRUE)
    BY <1>1 DEF Settle
  <2>2. c.resuming => flight.live /\ (wire' = wire \/ ~OfFlight(Head(wire)))
    BY <1>1
  <2>. QED
    BY <1>1, <2>1, <2>2, SelectHeld
<1>2. CASE ~(c.quarantined /\ ~rc.quarantined /\ c.registered)
  <2>1. Become(c, asks, <<>>) /\ load' = load
    BY <1>2 DEF Settle
  <2>2. /\ load'.auth => c.quarantined /\ c.registered /\ ~asks /\ load' = load
        /\ load'.phase = "recovering" => load'.auth /\ ~c.resuming
        /\ load'.phase = "attaching" => ~load'.auth
    BY <2>1 DEF HInv
  <2>3. asks => c.resuming
    OBVIOUS
  <2>. QED
    BY <2>1, <2>2, <2>3, BecomeHeld
<1>. QED
  BY <1>1, <1>2

\* A step that leaves the client alone.
LEMMA ClientHeld ==
    ASSUME HInv, UNCHANGED <<rc, flight>>,
           flight.live => \E m \in Traffic' : OfFlight(m),
           load' = load \/ ~load'.auth,
           load'.phase \in {"recovering", "attaching"} => load' = load,
           load' = load /\ load.auth => \A x, y \in Traffic' : OfLoad(x) /\ OfFlight(y) => ~Ahead(x, y)'
    PROVE  HInv'
<1>1. \A m : OfFlight(m)' <=> OfFlight(m)
  BY DEF OfFlight
<1>2. load' = load => \A m : OfLoad(m)' <=> OfLoad(m)
  BY DEF OfLoad
<1>. QED
  BY <1>1, <1>2 DEF HInv

LEMMA ServeHeld == ASSUME InOrder, TInv, HInv, NEW i \in DOMAIN calls, Serve(i) PROVE HInv'
<1>. DEFINE m == Head(calls)
            r == Reply(m)
<1>1. calls \in Seq(Asked) /\ answers \in Seq(Heard) /\ i = 1 /\ calls # <<>> /\ 1 \in 1..Len(calls)
  BY DEF TInv, Typed, PipesTyped, Serve
<1>2. RemoveAt(calls, 1) = Tail(calls) /\ calls[1] = m
  BY <1>1, SetOfRemoved
<1>3. m \in Asked /\ m \in ToSet(calls) /\ ToSet(calls) = ToSet(Tail(calls)) \cup {m}
  BY <1>1, SetOfTail
<1>4. /\ calls' = Tail(calls) /\ answers' = answers \o r /\ wire' = wire
      /\ UNCHANGED <<rc, flight, load>>
  BY <1>1, <1>2 DEF Serve
<1>5. m \in Traffic /\ Truthful(m)
  BY <1>3 DEF Traffic, TInv, Honest
<1>6. r \in Seq(Heard) /\ Len(r) <= 1 /\ \A x \in ToSet(r) :
        /\ x.kind = "transcript" => m.kind = "history" /\ x.id = m.id
        /\ x.kind \in {"resumed", "refused"} => m.kind = "resume" /\ x.id = m.id
  BY <1>3, <1>5, ReplyTyped DEF TInv
<1>7. m.kind = "resume" => r # <<>> /\ \A x \in ToSet(r) : x.kind \in {"resumed", "refused"}
  <2>1. m.kind = "resume" => \/ r = <<[kind |-> "resumed", id |-> m.id, stream |-> epoch, from |-> m.from, upto |-> ends[epoch]]>>
                             \/ r = <<[kind |-> "refused", id |-> m.id, stream |-> epoch, upto |-> ends[epoch]]>>
    BY DEF Reply
  <2>. QED
    BY <2>1 DEF ToSet
<1>. HIDE DEF m
<1>8. \/ r = <<>> /\ answers' = answers
      \/ \E x \in Heard : r = <<x>> /\ answers' = Append(answers, x)
  <2>1. CASE r = <<>>
    BY <1>1, <1>4, <2>1
  <2>2. CASE r # <<>>
    <3>. HIDE DEF r
    <3>1. r = <<r[1]>> /\ r[1] \in Heard
      BY <1>6, <2>2, LoneElement
    <3>2. answers \o <<r[1]>> = Append(answers, r[1])
      BY <1>1, <3>1
    <3>. QED
      BY <1>4, <3>1, <3>2
  <2>. QED
    BY <2>1, <2>2
<1>. HIDE DEF r
<1>9. PICK z \in Heard : /\ answers' = answers \/ (r = <<z>> /\ answers' = Append(answers, z))
                         /\ r # <<>> => r = <<z>>
  <2>1. [kind |-> "ackRefused", id |-> 0] \in Heard
    BY DEF Heard
  <2>. QED
    BY <1>8, <2>1
<1>10. r = <<z>> => /\ z.kind = "transcript" => m.kind = "history" /\ z.id = m.id
                    /\ z.kind \in {"resumed", "refused"} => m.kind = "resume" /\ z.id = m.id
                    /\ m.kind = "resume" => z.kind \in {"resumed", "refused"}
  <2>1. ToSet(<<z>>) = {z}
    BY SetOfOne
  <2>. QED
    BY <1>6, <1>7, <2>1
<1>11. r = <<z>> => answers' = Append(answers, z)
  BY <1>8
<1>12. ToSet(answers) \subseteq ToSet(answers') /\ (r = <<z>> => z \in ToSet(answers'))
  <2>1. ToSet(Append(answers, z)) = ToSet(answers) \cup {z}
    BY <1>1, SetOfAppended
  <2>. QED
    BY <1>9, <1>11, <2>1
<1>13. flight.live => \E x \in Traffic' : OfFlight(x)
  <2>1. SUFFICES ASSUME flight.live PROVE \E x \in Traffic' : OfFlight(x)
    OBVIOUS
  <2>2. PICK y \in Traffic : OfFlight(y)
    BY <2>1 DEF HInv
  <2>3. CASE y = m
    <3>1. m.kind = "resume"
      BY <1>3, <2>2, <2>3, AskedFields DEF OfFlight, Backfills
    <3>2. r = <<z>> /\ OfFlight(z)
      BY <1>7, <1>9, <1>10, <2>2, <2>3, <3>1 DEF OfFlight, Backfills
    <3>. QED
      BY <1>12, <3>2 DEF Traffic
  <2>4. CASE y # m
    BY <1>3, <1>4, <1>12, <2>2, <2>4 DEF Traffic
  <2>. QED
    BY <2>3, <2>4
<1>14. ASSUME load.auth, NEW x \in Traffic', NEW y \in Traffic', OfLoad(x), OfFlight(y), Ahead(x, y)'
       PROVE  FALSE
  <2>1. \/ Ahead(x, y)
        \/ answers' = Append(answers, z) /\ x = z /\ Ahead(m, y)
        \/ answers' = Append(answers, z) /\ y = z /\ Ahead(x, m)
    BY <1>1, <1>4, <1>9, <1>14, AheadServed, TrackerNow DEF m
  <2>2. \A p, q : Ahead(p, q) => p \in Traffic /\ q \in Traffic
    BY Elements, TrackerNow DEF Ahead, Follows, Traffic, PipesTyped
  <2>3. answers' # answers => r = <<z>>
    BY <1>9
  <2>4. answers' = Append(answers, z) => r = <<z>>
    <3>1. Append(answers, z) # answers
      BY <1>1
    <3>. QED
      BY <2>3, <3>1
  <2>5. CASE Ahead(x, y)
    BY <1>14, <2>2, <2>5 DEF HInv
  <2>6. CASE r = <<z>> /\ x = z /\ Ahead(m, y)
    <3>1. z.kind = "transcript" /\ OfLoad(m)
      BY <1>9, <1>10, <1>14, <2>6, HeardFields DEF OfLoad, Readings
    <3>. QED
      BY <1>14, <2>2, <2>6, <3>1 DEF HInv
  <2>7. CASE r = <<z>> /\ y = z /\ Ahead(x, m)
    <3>1. z.kind \in {"resumed", "refused"} /\ OfFlight(m)
      BY <1>9, <1>10, <1>14, <2>7, HeardFields DEF OfFlight, Backfills
    <3>. QED
      BY <1>14, <2>2, <2>7, <3>1 DEF HInv
  <2>. QED
    BY <2>1, <2>4, <2>5, <2>6, <2>7
<1>15. load.auth => \A x, y \in Traffic' : OfLoad(x) /\ OfFlight(y) => ~Ahead(x, y)'
  BY <1>14, Zenon
<1>. QED
  BY <1>4, <1>13, <1>15, ClientHeld

LEMMA SendAnswerHeld == ASSUME InOrder, TInv, HInv, NEW i \in DOMAIN answers, SendAnswer(i) PROVE HInv'
<1>1. answers \in Seq(Heard) /\ wire \in Seq(Heard) /\ i = 1 /\ answers # <<>> /\ 1 \in 1..Len(answers)
  BY DEF TInv, Typed, PipesTyped, SendAnswer
<1>2. RemoveAt(answers, 1) = Tail(answers) /\ answers[1] = Head(answers)
  BY <1>1, SetOfRemoved
<1>3. /\ answers' = Tail(answers) /\ wire' = Append(wire, Head(answers)) /\ calls' = calls
      /\ UNCHANGED <<rc, flight, load>>
  BY <1>1, <1>2 DEF SendAnswer
<1>4. Head(answers) \in Heard /\ ToSet(answers) = ToSet(Tail(answers)) \cup {Head(answers)}
      /\ Tail(answers) \in Seq(Heard)
  BY <1>1, SetOfTail
<1>5. ToSet(Append(wire, Head(answers))) = ToSet(wire) \cup {Head(answers)}
  BY <1>1, <1>4, SetOfAppended
<1>6. Traffic' = Traffic
  BY <1>3, <1>4, <1>5 DEF Traffic
<1>7. \A x, y \in Traffic' : Ahead(x, y)' => Ahead(x, y)
  BY <1>1, <1>3, AheadSent, TrackerNow
<1>. QED
  BY <1>3, <1>6, <1>7, ClientHeld DEF HInv

LEMMA ReceiveEventHeld == ASSUME TInv, HInv, ReceiveEvent PROVE HInv'
<1>. DEFINE e == Head(wire).event
            c == Handle(rc, e)
            asks == c.resuming /\ ~rc.resuming
<1>1. wire # <<>> /\ wire' = Tail(wire) /\ Head(wire).kind = "event" /\ Settle(c, asks) /\ answers' = answers
  BY DEF ReceiveEvent
<1>2. Head(wire) \in Traffic /\ ~OfFlight(Head(wire))
  BY <1>1, Dropped, TrackerNow DEF OfFlight, Backfills
<1>3. e \in Emitted
  BY <1>1, <1>2 DEF TInv, Honest, Truthful
<1>. HIDE DEF e
<1>4. /\ c \in Coordinators /\ Sound(c) /\ SameBut(rc, c)
      /\ rc.resuming => c.quarantined = rc.quarantined
      /\ ~rc.resuming \/ ~rc.quarantined => ~c.resuming \/ ~c.quarantined
      /\ rc.quarantined => c = rc
      /\ Listed(rc) => Listed(c)
  BY <1>3, HandleSound, TrackerNow
<1>. HIDE DEF c
<1>5. asks \in BOOLEAN /\ Listed(c)
  BY <1>4, CoordinatorFields, TrackerNow DEF HInv, Listed
<1>6. /\ asks => c.resuming /\ ~c.quarantined
      /\ c.resuming /\ ~asks => flight.live
      /\ rc.quarantined => c.quarantined /\ (c.resuming => rc.resuming)
      /\ c.registered = rc.registered
  BY <1>4, TrackerNow DEF SameBut
<1>. HIDE DEF asks
<1>. QED
  BY <1>1, <1>2, <1>4, <1>5, <1>6, SettleHeld

LEMMA ResumeSucceedsHeld == ASSUME TInv, HInv, ResumeSucceeds PROVE HInv'
<1>. DEFINE a == Head(wire)
            c == Landed(a)
<1>1. /\ wire # <<>> /\ a.kind = "resumed" /\ flight.live /\ flight.id = a.id /\ wire' = Tail(wire)
      /\ answers' = answers
      /\ \/ c.quarantined /\ Select(c, TRUE)
         \/ ~(c.quarantined /\ ~rc.quarantined /\ c.registered) /\ load.phase = "attaching"
            /\ load' = Fetching(load.auth) /\ Become(c, c.resuming, <<HistoryCall>>)
         \/ ~(c.quarantined /\ ~rc.quarantined /\ c.registered)
            /\ load' = load /\ Become(c, c.resuming, <<>>)
  BY DEF ResumeSucceeds
<1>2. a \in Traffic /\ a \in Heard
  BY <1>1, Dropped, TrackerNow
<1>. HIDE DEF a
<1>3. Truthful(a) /\ Fits(a) /\ rc.resuming
  BY <1>1, <1>2 DEF TInv, Honest, Matching, Flying, Fits
<1>4. /\ c \in Coordinators /\ Sound(c) /\ SameBut(rc, c)
      /\ ~c.resuming \/ ~c.quarantined
      /\ rc.quarantined => c.quarantined
      /\ Listed(c)
  BY <1>1, <1>2, <1>3, LandedSound, TrackerNow
<1>. HIDE DEF c
<1>5. c.resuming \in BOOLEAN
  BY <1>4, CoordinatorFields
<1>6. CASE c.quarantined /\ Select(c, TRUE)
  <2>1. ~c.resuming
    BY <1>4, <1>6
  <2>. QED
    BY <1>1, <1>4, <1>6, <2>1, SelectHeld
<1>7. CASE load.phase = "attaching" /\ load' = Fetching(load.auth) /\ Become(c, c.resuming, <<HistoryCall>>)
  <2>1. ~load'.auth /\ load'.phase = "fetching"
    BY <1>7 DEF HInv, Fetching
  <2>. QED
    BY <1>1, <1>4, <1>5, <1>7, <2>1, BecomeHeld
<1>8. CASE load' = load /\ Become(c, c.resuming, <<>>)
  <2>1. load'.auth => c.quarantined /\ c.registered /\ ~c.resuming /\ load' = load
    BY <1>4, <1>8 DEF HInv, SameBut
  <2>2. /\ load'.phase = "recovering" => load'.auth /\ ~c.resuming
        /\ load'.phase = "attaching" => ~load'.auth
    BY <1>8, <2>1 DEF HInv
  <2>. QED
    BY <1>1, <1>4, <1>5, <1>8, <2>1, <2>2, BecomeHeld
<1>. QED
  BY <1>1, <1>6, <1>7, <1>8

LEMMA ResumeRefusedHeld == ASSUME TInv, HInv, ResumeRefused PROVE HInv'
<1>. DEFINE a == Head(wire)
            c == Refused(a)
<1>1. wire # <<>> /\ a.kind = "refused" /\ wire' = Tail(wire) /\ Settle(c, FALSE) /\ answers' = answers
  BY DEF ResumeRefused
<1>2. a \in Traffic /\ a \in Heard
  BY <1>1, Dropped, TrackerNow
<1>. HIDE DEF a
<1>3. Truthful(a)
  BY <1>1, <1>2 DEF TInv, Honest
<1>4. c \in Coordinators /\ Sound(c) /\ ~c.resuming /\ c.quarantined /\ c.registered = rc.registered
      /\ Listed(c)
  BY <1>1, <1>2, <1>3, RefusedSound, TrackerNow
<1>. HIDE DEF c
<1>. QED
  BY <1>1, <1>4, SettleHeld

LEMMA AckRefusedHeld == ASSUME TInv, HInv, AckRefused PROVE HInv'
<1>. DEFINE c == RequireResync(rc)
<1>1. wire # <<>> /\ wire' = Tail(wire) /\ Head(wire).kind = "ackRefused" /\ Settle(c, FALSE) /\ answers' = answers
  BY DEF AckRefused
<1>2. ~OfFlight(Head(wire))
  BY <1>1 DEF OfFlight, Backfills
<1>3. /\ c \in Coordinators /\ Sound(c) /\ SameBut(rc, c) /\ c.resuming = rc.resuming
      /\ c.quarantined
  BY RequireResyncSound, TrackerNow
<1>. HIDE DEF c
<1>4. /\ Listed(c) /\ (c.resuming => flight.live) /\ c.registered = rc.registered
  BY <1>3, TrackerNow DEF Listed, SameBut
<1>. QED
  BY <1>1, <1>2, <1>3, <1>4, SettleHeld

\* The head of the wire is taken, and the client's flight does not notice.
LEMMA OthersStay ==
    ASSUME TInv, HInv, wire # <<>>, wire' = Tail(wire), answers' = answers, calls' = calls,
           ~OfFlight(Head(wire))
    PROVE  /\ flight.live => \E m \in Traffic' : OfFlight(m)
           /\ load.auth => \A x, y \in Traffic' : OfLoad(x) /\ OfFlight(y) => ~Ahead(x, y)'
<1>1. ToSet(wire) = ToSet(wire') \cup {Head(wire)}
  BY Dropped, TrackerNow
<1>2. \A m \in Traffic : m \in Traffic' \/ m = Head(wire)
  BY <1>1 DEF Traffic
<1>3. Traffic' \subseteq Traffic
  BY <1>1 DEF Traffic
<1>4. \A x, y : Ahead(x, y)' => Ahead(x, y)
  <2>1. [kind |-> "history", id |-> 0] \in Asked
    BY DEF Asked
  <2>2. Append(calls, [kind |-> "history", id |-> 0]) # calls
    BY TrackerNow DEF PipesTyped
  <2>. QED
    BY <2>1, <2>2, AheadLater, TrackerNow
<1>. QED
  BY <1>2, <1>3, <1>4 DEF HInv

LEMMA TranscriptLoadsHeld == ASSUME TInv, HInv, TranscriptLoads PROVE HInv'
<1>. DEFINE t == Head(wire)
<1>1. /\ wire # <<>> /\ t.kind = "transcript" /\ load.phase = "fetching" /\ load.id = t.id
      /\ load' = (IF load.auth THEN [load EXCEPT !.phase = "recovering", !.id = 0] ELSE NoLoad)
      /\ wire' = Tail(wire)
      /\ UNCHANGED <<answers, calls, rc, flight>>
  BY DEF TranscriptLoads
<1>2. t \in Traffic /\ OfLoad(t) /\ ~OfFlight(t)
  BY <1>1, Dropped, TrackerNow DEF OfLoad, OfFlight, Readings, Backfills
<1>3. load.auth => ~rc.resuming
  <2>1. SUFFICES ASSUME load.auth, rc.resuming PROVE FALSE
    BY TrackerNow
  <2>2. PICK y \in Traffic : OfFlight(y)
    BY <2>1, TrackerNow DEF HInv
  <2>3. y # t
    BY <1>2, <2>2
  <2>4. Ahead(t, y)
    BY <1>1, <2>3, HeadAhead, TrackerNow
  <2>. QED
    BY <1>2, <2>1, <2>2, <2>4 DEF HInv
<1>. HIDE DEF t
<1>4. load \in Loads
  BY TrackerNow
<1>5. /\ load.auth => load'.phase = "recovering" /\ load'.auth
      /\ ~load.auth => load'.phase = "none" /\ ~load'.auth
  BY <1>1, <1>4 DEF Loads, NoLoad
<1>6. flight.live => \E m \in Traffic' : OfFlight(m)
  BY <1>1, <1>2, OthersStay DEF t
<1>7. \A m : (OfFlight(m)' <=> OfFlight(m)) /\ ~OfLoad(m)'
  BY <1>1, <1>5 DEF OfFlight, OfLoad
<1>. QED
  BY <1>1, <1>3, <1>5, <1>6, <1>7 DEF HInv

LEMMA LateAnswerHeld == ASSUME TInv, HInv, LateAnswer PROVE HInv'
<1>1. /\ wire # <<>> /\ wire' = Tail(wire) /\ Unexpected(Head(wire))
      /\ UNCHANGED <<answers, calls, rc, flight, load>>
  BY DEF LateAnswer
<1>2. ~OfFlight(Head(wire))
  BY <1>1 DEF Unexpected, OfFlight, Backfills
<1>. QED
  BY <1>1, <1>2, OthersStay, ClientHeld

LEMMA EmitHeld == ASSUME TInv, HInv, Emit PROVE HInv'
<1>1. UNCHANGED <<answers, calls, rc, flight, load>>
  BY DEF Emit
<1>2. PICK m \in Heard : m.kind = "event" /\ (wire' = Append(wire, m) \/ wire' = wire)
  <2>. DEFINE t == [kind |-> "event", id |-> 0, event |-> <<epoch, ends'[epoch]>>]
  <2>1. wire' = Append(wire, t) \/ wire' = wire
    BY DEF Emit
  <2>2. t \in Heard
    <3>1. epoch \in Epochs /\ ends'[epoch] \in Nat
      BY EmitTyped DEF TInv, Typed, ServerTyped, Emit
    <3>. QED
      BY <3>1 DEF Heard, Pairs
  <2>. QED
    BY <2>1, <2>2
<1>3. ToSet(Append(wire, m)) = ToSet(wire) \cup {m}
  BY SetOfAppended, TrackerNow DEF PipesTyped
<1>4. Traffic \subseteq Traffic' /\ \A x \in Traffic' : x \in Traffic \/ x = m
  BY <1>1, <1>2, <1>3 DEF Traffic
<1>5. ~OfFlight(m) /\ ~OfLoad(m)
  BY <1>2 DEF OfFlight, OfLoad, Backfills, Readings
<1>6. \A x, y : Ahead(x, y)' => Ahead(x, y) \/ x = m \/ y = m
  BY <1>1, <1>2, AheadEmitted, TrackerNow
<1>. QED
  BY <1>1, <1>4, <1>5, <1>6, ClientHeld DEF HInv

LEMMA AckFiresHeld == ASSUME TInv, HInv, AckFires PROVE HInv'
<1>. DEFINE a == AckCall(rc)
<1>1. UNCHANGED <<answers, wire, rc, flight, load>> /\ (calls' = Append(calls, a) \/ calls' = calls)
  BY DEF AckFires
<1>2. a \in Asked /\ a.kind = "ack"
  BY CoordinatorFields, TrackerNow DEF AckCall, Asked
<1>. HIDE DEF a
<1>3. ToSet(Append(calls, a)) = ToSet(calls) \cup {a}
  BY <1>2, SetOfAppended, TrackerNow DEF PipesTyped
<1>4. Traffic \subseteq Traffic' /\ \A x \in Traffic' : x \in Traffic \/ x = a
  BY <1>1, <1>3 DEF Traffic
<1>5. ~OfFlight(a) /\ ~OfLoad(a)
  BY <1>2 DEF OfFlight, OfLoad, Backfills, Readings
<1>6. \A x, y : Ahead(x, y)' => Ahead(x, y) \/ y = a
  BY <1>1, <1>2, AheadLater, TrackerNow
<1>. QED
  BY <1>1, <1>4, <1>5, <1>6, ClientHeld DEF HInv

LEMMA ResyncCompletesHeld == ASSUME TInv, HInv, ResyncCompletes PROVE HInv'
<1>. DEFINE c == CompleteResync(rc)
            s == IF sock = "up" THEN ResumeAll(c) ELSE c
            asks == s.resuming /\ ~rc.resuming
<1>1. load.phase = "recovering" /\ Become(s, asks, <<>>) /\ load' = NoLoad /\ UNCHANGED <<answers, wire>>
  BY DEF ResyncCompletes
<1>2. ~rc.resuming
  BY <1>1 DEF HInv
<1>3. c \in Coordinators /\ Sound(c) /\ Listed(c)
  BY <1>2, CompleteResyncSound, TrackerNow
<1>. HIDE DEF c
<1>4. s \in Coordinators /\ Listed(s)
  BY <1>3, ResumeAllSound
<1>. HIDE DEF s
<1>5. asks \in BOOLEAN /\ (asks => s.resuming) /\ (s.resuming => asks)
  BY <1>2, <1>4, CoordinatorFields, TrackerNow
<1>6. ~load'.auth /\ load'.phase = "none"
  BY <1>1 DEF NoLoad
<1>. HIDE DEF asks
<1>. QED
  BY <1>1, <1>4, <1>5, <1>6, BecomeHeld

LEMMA ResumeTimesOutHeld == ASSUME TInv, HInv, ResumeTimesOut PROVE HInv'
<1>. DEFINE c == Retry(rc)
<1>1. /\ flight.live /\ UNCHANGED <<answers, wire>>
      /\ \/ load.phase = "attaching" /\ load' = Fetching(load.auth) /\ Become(c, FALSE, <<HistoryCall>>)
         \/ Become(c, FALSE, <<>>) /\ load' = load
  BY DEF ResumeTimesOut
<1>2. /\ c \in Coordinators /\ SameBut(rc, c) /\ ~c.resuming /\ c.quarantined = rc.quarantined
      /\ Listed(c)
  BY <1>1, RetrySound, TrackerNow DEF HInv, Listed
<1>. HIDE DEF c
<1>3. CASE load.phase = "attaching" /\ load' = Fetching(load.auth) /\ Become(c, FALSE, <<HistoryCall>>)
  <2>1. ~load'.auth /\ load'.phase = "fetching"
    BY <1>3 DEF HInv, Fetching
  <2>. QED
    BY <1>1, <1>2, <1>3, <2>1, BecomeHeld
<1>4. CASE Become(c, FALSE, <<>>) /\ load' = load
  <2>1. /\ load'.auth => c.quarantined /\ c.registered
        /\ load'.phase = "recovering" => load'.auth
        /\ load'.phase = "attaching" => ~load'.auth
    BY <1>2, <1>4 DEF HInv, SameBut
  <2>. QED
    BY <1>1, <1>2, <1>4, <2>1, BecomeHeld
<1>. QED
  BY <1>1, <1>3, <1>4

LEMMA HistoryTimesOutHeld == ASSUME HInv, HistoryTimesOut PROVE HInv'
<1>1. /\ load' = NoLoad /\ UNCHANGED <<pipes, rc, flight>>
  BY DEF HistoryTimesOut
<1>2. Traffic' = Traffic
  BY <1>1 DEF Traffic, pipes
<1>3. ~load'.auth /\ load'.phase = "none"
  BY <1>1 DEF NoLoad
<1>4. \A x, y : Ahead(x, y)' <=> Ahead(x, y)
  BY <1>1 DEF Ahead, Follows, pipes
<1>. QED
  BY <1>1, <1>2, <1>3, <1>4, ClientHeld DEF HInv

LEMMA DropHeld == ASSUME TInv, HInv, Drop PROVE HInv'
<1>1. /\ rc' = (IF flight.live THEN Retry(rc) ELSE rc)
      /\ flight' = NoFlight
      /\ \/ load' = NoLoad
         \/ load.phase \notin {"attaching", "fetching"} /\ load' = load
  BY DEF Drop
<1>2. rc.resuming => /\ Listed(Retry(rc)) /\ SameBut(rc, Retry(rc))
                     /\ Retry(rc).quarantined = rc.quarantined /\ ~Retry(rc).resuming
  BY RetrySound, TrackerNow DEF HInv, Listed
<1>3. /\ Listed(rc') /\ rc'.quarantined = rc.quarantined /\ rc'.registered = rc.registered
      /\ ~rc'.resuming
  BY <1>1, <1>2, TrackerNow DEF HInv, Listed, SameBut
<1>4. \A m : ~OfFlight(m)'
  BY <1>1 DEF OfFlight, NoFlight
<1>5. /\ load'.auth => rc'.quarantined /\ rc'.registered
      /\ load'.phase = "recovering" => load'.auth
      /\ load'.phase = "attaching" => ~load'.auth
  BY <1>1, <1>3 DEF HInv, NoLoad
<1>. QED
  BY <1>1, <1>3, <1>4, <1>5 DEF HInv, Listed, NoFlight

LEMMA DialHeld == ASSUME TInv, HInv, Dial PROVE HInv'
<1>. DEFINE c == ResumeAll(rc)
            asks == c.resuming /\ ~rc.resuming
<1>1. sock = "down" /\ Become(c, asks, <<>>) /\ UNCHANGED <<answers, wire, load>>
  BY DEF Dial
<1>2. /\ c \in Coordinators /\ SameBut(rc, c) /\ c.quarantined = rc.quarantined /\ ~rc.resuming
      /\ c.resuming => ~rc.quarantined
      /\ Listed(c)
  BY <1>1, ResumeAllSound, TrackerNow DEF HInv, Listed
<1>. HIDE DEF c
<1>3. asks \in BOOLEAN /\ (asks => c.resuming) /\ (c.resuming => asks)
  BY <1>2, CoordinatorFields, TrackerNow
<1>. HIDE DEF asks
<1>4. /\ load'.auth => c.quarantined /\ c.registered /\ ~asks /\ load' = load
      /\ load'.phase = "recovering" => load'.auth /\ ~c.resuming
      /\ load'.phase = "attaching" => ~load'.auth
  BY <1>1, <1>2, <1>3 DEF HInv, SameBut
<1>. QED
  BY <1>1, <1>2, <1>3, <1>4, BecomeHeld

LEMMA OpenHeld == ASSUME Calm, TInv, HInv, Open PROVE HInv'
<1>0. rc \in Coordinators /\ Sound(rc) /\ Listed(rc) /\ (rc.resuming => flight.live)
  BY TrackerNow DEF HInv, Listed
<1>1. ~load.auth /\ UNCHANGED <<answers, wire>>
  BY DEF Open, HInv
<1>2. CASE Select(rc, FALSE)
  BY <1>0, <1>1, <1>2, SelectHeld
<1>3. CASE rc' = [rc EXCEPT !.registered = TRUE] /\ load' = NoLoad /\ UNCHANGED <<calls, flight>>
  <2>. DEFINE d == [rc EXCEPT !.registered = TRUE]
  <2>1. Listed(d)
    BY <1>0, RegisteredSound
  <2>. HIDE DEF d
  <2>2. rc' = d
    BY <1>3 DEF d
  <2>3. ~load'.auth /\ load'.phase = "none"
    BY <1>3 DEF NoLoad
  <2>4. Traffic' = Traffic /\ \A m : OfFlight(m)' <=> OfFlight(m)
    BY <1>1, <1>3 DEF Traffic, OfFlight
  <2>. QED
    BY <1>3, <2>1, <2>2, <2>3, <2>4 DEF HInv, Listed
<1>. QED
  BY <1>2, <1>3 DEF Open

LEMMA LeaveHeld == ASSUME Calm, TInv, HInv, Leave PROVE HInv'
<1>1. rc' = Unregister(rc) /\ ~rc.resuming /\ load' = NoLoad
  BY DEF Leave
<1>2. ~flight.live
  BY <1>1, TrackerNow
<1>3. flight' = flight
  BY <1>2 DEF Leave
<1>4. Listed(rc')
  BY <1>1, UnregisterSound, TrackerNow
<1>5. ~load'.auth /\ load'.phase = "none"
  BY <1>1 DEF NoLoad
<1>. QED
  BY <1>2, <1>3, <1>4, <1>5 DEF HInv, Listed

LEMMA StepHeld == ASSUME Calm, InOrder, TInv, HInv, [Next]_vars PROVE HInv'
<1>1. CASE UNCHANGED vars \/ NewEpoch \/ Compact
  <2>1. UNCHANGED <<pipes, rc, flight, load>>
    BY <1>1 DEF vars, NewEpoch, Compact
  <2>2. Traffic' = Traffic /\ \A x, y : Ahead(x, y)' <=> Ahead(x, y)
    BY <2>1 DEF Traffic, Ahead, Follows, pipes
  <2>. QED
    BY <2>1, <2>2, ClientHeld DEF HInv
<1>2. CASE Receive
  BY <1>2, ReceiveEventHeld, ResumeSucceedsHeld, ResumeRefusedHeld, TranscriptLoadsHeld,
     AckRefusedHeld, LateAnswerHeld DEF Receive
<1>. QED
  BY <1>1, <1>2, EmitHeld, ServeHeld, SendAnswerHeld, AckFiresHeld, ResyncCompletesHeld,
     ResumeTimesOutHeld, HistoryTimesOutHeld, DropHeld, DialHeld, OpenHeld, LeaveHeld DEF Next

\* With a server that answers in the order of the calls and a user who leaves no
\* backfill under way, handle() never pushes to a list that is not there: no event
\* that overtakes the answer of a backfill is lost.
THEOREM Holding == ASSUME Calm, InOrder PROVE Spec => []HoldReady
<1>1. Init => HInv
  BY DEF Init, HInv, Fresh, NoFlight, NoLoad
<1>2. TInv /\ HInv /\ [Next]_vars => HInv'
  BY StepHeld
<1>3. HInv => HoldReady
  BY DEF HInv, HoldReady
<1>. QED
  BY <1>1, <1>2, <1>3, Types, PTL DEF Spec

---------------------------------------------------------------------------
(* The inductive invariant behind the cursor                               *)

Past(s, n) == {e \in Emitted : e[1] = s /\ e[2] <= n}

\* What the user has not got of what the cursor has passed.
Missing(c) == Past(c.stream, c.last) \ (known \cup ToSet(c.applied))

Brings(m, e) == m.kind = "event" /\ m.event = e

\* Of stream n the client gets, from the list hs and then from the wire, the
\* first event before any other.
Led(n, hs) ==
    /\ n = epoch => /\ attached
                    /\ ends[n] = 0 \/ <<n, 1>> \in ToSet(hs) \/ \E m \in ToSet(wire) : Brings(m, <<n, 1>>)
    /\ \A i \in 1..Len(hs) :
         hs[i][1] = n /\ hs[i][2] # 1 => \E j \in 1..Len(hs) : j < i /\ hs[j] = <<n, 1>>
    /\ \A i \in 1..Len(wire) :
         wire[i].kind = "event" /\ wire[i].event[1] = n /\ wire[i].event[2] # 1 =>
           \/ <<n, 1>> \in ToSet(hs)
           \/ \E j \in 1..Len(wire) : j < i /\ Brings(wire[j], <<n, 1>>)

\* A backfill in flight asks for what follows the cursor.
Asking ==
    \A m \in Traffic : OfFlight(m) =>
        /\ m.kind = "resume" => m.stream = rc.stream /\ m.from = rc.last
        /\ m.kind = "resumed" => /\ rc.stream \in {0, m.stream} /\ m.from = rc.last /\ m.from <= m.upto
                                 /\ m.upto = 0 /\ ~rc.quarantined => Led(m.stream, rc.held)

\* A connected session that waits for no backfill is on a stream, and at its
\* beginning it will not miss the first event.
OnStream ==
    rc.registered /\ ~rc.quarantined /\ ~rc.resuming /\ sock # "down" =>
        rc.stream # 0 /\ (rc.last = 0 => Led(rc.stream, <<>>))

\* What is missing is in the transcript that is under way.
Repaired ==
    rc.registered /\ ~rc.quarantined =>
        /\ load = NoLoad /\ ui = "ready" => Missing(rc) = {}
        /\ \A t \in Traffic : OfLoad(t) /\ t.kind = "transcript" => Missing(rc) \subseteq t.seen

\* The cursor a refusal names, or will name, is covered by the transcript that
\* ends the quarantine.
NamedCovered ==
    load.auth =>
        /\ load.phase = "recovering" => Past(rc.named[1], rc.named[2]) \subseteq known
        /\ \A t \in Traffic : OfLoad(t) /\ t.kind = "transcript" =>
             /\ Past(rc.named[1], rc.named[2]) \subseteq t.seen
             /\ \A a \in Traffic : OfFlight(a) /\ a.kind = "refused" => Past(a.stream, a.upto) \subseteq t.seen

CInv ==
    /\ sock = "opening" => flight.live
    /\ ToSet(rc.applied) \subseteq known
    /\ Asking /\ OnStream /\ Repaired /\ NamedCovered

LEMMA PastIs ==
    ASSUME NEW s, NEW n, NEW e
    PROVE  e \in Past(s, n) <=> e \in Emitted /\ e[1] = s /\ e[2] <= n
  BY DEF Past

\* One event that the cursor is ready for covers what it passes.
LEMMA HandleCovers ==
    ASSUME ServerTyped, NEW c \in Coordinators, Sound(c), NEW e \in Emitted, ~c.quarantined,
           c.resuming \/ (c.stream # 0 /\ (c.last = 0 /\ e[1] = c.stream => e[2] = 1))
    PROVE  \/ Handle(c, e).quarantined
           \/ /\ Missing(Handle(c, e)) \subseteq Missing(c)
              /\ Handle(c, e).stream = c.stream
              /\ c.resuming => Handle(c, e).last = c.last /\ Handle(c, e).applied = c.applied
              /\ ~c.resuming => Handle(c, e).last > 0
<1>. DEFINE d == Handle(c, e)
<1>1. CASE c.resuming
  <2>1. d.stream = c.stream /\ d.last = c.last /\ d.applied = c.applied
    BY <1>1, HandleSound
  <2>2. Missing(d) = Missing(c)
    BY <2>1 DEF Missing
  <2>. QED
    BY <1>1, <2>1, <2>2
<1>2. CASE ~c.resuming
  <2>1. d = Observe(c, e)
    BY <1>2 DEF Handle
  <2>2. e \in Pairs /\ e[1] \in Nat /\ e[2] \in Nat /\ e[2] >= 1 /\ e = <<e[1], e[2]>>
        /\ c.stream \in Nat /\ c.last \in Nat /\ c.stream # 0
    BY <1>2, EmittedIs, StreamsAreNumbered, CoordinatorFields
  <2>3. CASE Foreign(c, e)
    <3>1. d = RequireResync(Advance(c, e))
      BY <2>1, <2>2, <2>3 DEF Observe, Foreign, Duplicate, Gap
    <3>2. d.quarantined
      BY <3>1, AdvanceSound, RequireResyncSound
    <3>. QED
      BY <3>2
  <2>4. CASE Duplicate(c, e)
    <3>1. d = c
      BY <2>1, <2>2, <2>4 DEF Observe, Foreign, Duplicate, Gap
    <3>2. c.last > 0
      BY <2>2, <2>4 DEF Duplicate
    <3>. QED
      BY <1>2, <3>1, <3>2
  <2>5. CASE Gap(c, e)
    <3>1. d = [Hold(c, <<e>>) EXCEPT !.resuming = TRUE]
      BY <2>1, <2>2, <2>5 DEF Observe, Foreign, Duplicate, Gap
    <3>2. d.stream = c.stream /\ d.last = c.last /\ d.applied = c.applied
      BY <3>1 DEF Hold, Coordinators
    <3>3. Missing(d) = Missing(c)
      BY <3>2 DEF Missing
    <3>. QED
      BY <1>2, <2>5, <3>2, <3>3 DEF Gap
  <2>6. CASE ~Foreign(c, e) /\ ~Duplicate(c, e) /\ ~Gap(c, e)
    <3>1. d = Deliver(Advance(c, e), e)
      BY <2>1, <2>6 DEF Observe
    <3>2. d.stream = e[1] /\ d.last = e[2] /\ d.applied = Append(c.applied, e)
      <4>1. PICK a \in Coordinators : a = Advance(c, e)
        BY AdvanceSound
      <4>2. Sound(a) /\ a.stream = e[1] /\ a.last = e[2] /\ a.applied = c.applied
        BY <4>1, AdvanceSound
      <4>3. d = Deliver(a, e)
        BY <3>1, <4>1
      <4>. HIDE DEF d
      <4>. QED
        BY <4>2, <4>3, DeliverSound
    <3>3. e[1] = c.stream /\ e[2] = c.last + 1
      BY <1>2, <2>2, <2>6 DEF Foreign, Duplicate, Gap
    <3>4. ToSet(d.applied) = ToSet(c.applied) \cup {e}
      BY <2>2, <3>2, SetOfAppended, CoordinatorFields
    <3>. HIDE DEF d
    <3>5. ASSUME NEW x \in Missing(d) PROVE x \in Missing(c)
      <4>1. x \in Emitted /\ x[1] = c.stream /\ x[2] <= e[2] /\ x \notin known /\ x \notin ToSet(c.applied) /\ x # e
        BY <3>2, <3>3, <3>4, <3>5 DEF Missing, Past
      <4>2. x[2] \in Nat /\ x = <<x[1], x[2]>>
        BY <4>1, EmittedIs
      <4>3. x[2] # e[2]
        BY <2>2, <3>3, <4>1, <4>2
      <4>4. x[2] <= c.last
        BY <2>2, <3>3, <4>1, <4>2, <4>3
      <4>. QED
        BY <4>1, <4>4 DEF Missing, Past
    <3>6. Missing(d) \subseteq Missing(c)
      BY <3>5
    <3>7. d.last > 0 /\ d.stream = c.stream
      BY <2>2, <3>2, <3>3
    <3>. QED
      BY <1>2, <3>6, <3>7 DEF d
  <2>. QED
    BY <2>3, <2>4, <2>5, <2>6
<1>. QED
  BY <1>1, <1>2, CoordinatorFields

\* So does the flush of a list whose first event is the one the cursor waits for.
LEMMA FlushCovers ==
    ASSUME ServerTyped, NEW c \in Coordinators, Sound(c), c.stream # 0,
           c.last = 0 /\ Len(c.held) > 0 /\ c.held[1][1] = c.stream => c.held[1][2] = 1
    PROVE  \/ Flush(c).quarantined
           \/ /\ Missing(Flush(c)) \subseteq Missing(c)
              /\ Flush(c).stream = c.stream
              /\ \/ Flush(c).last > 0
                 \/ Flush(c).last = c.last /\ Len(c.held) = 0
<1>. DEFINE Fine(i, x) ==
              /\ x \in Coordinators /\ Sound(x)
              /\ \/ x.quarantined
                 \/ /\ Missing(x) \subseteq Missing(c)
                    /\ x.stream = c.stream
                    /\ x.last > 0 \/ (x.last = c.last /\ i = 0 /\ ~x.resuming)
            S == {p \in Nat \X Coordinators : Fine(p[1], p[2])}
<1>0. c.last \in Nat /\ c.held \in Seq(Pairs) /\ Len(c.held) \in Nat
      /\ \A i \in 1..Len(c.held) : c.held[i] \in Emitted
  BY CoordinatorFields DEF Sound
<1>1. Fine(0, Landing(c))
  <2>1. PICK n \in Coordinators : n = NoHold(c)
    BY NoHoldSound
  <2>2. Sound(n) /\ n.stream = c.stream /\ n.last = c.last /\ n.applied = c.applied /\ n.held = <<>>
    BY <2>1, NoHoldSound
  <2>3. PICK d : d = [n EXCEPT !.resuming = FALSE, !.retry = FALSE]
    OBVIOUS
  <2>4. /\ d \in Coordinators /\ d.stream = n.stream /\ d.last = n.last /\ d.named = n.named
        /\ ~d.resuming /\ d.applied = n.applied /\ d.held = n.held
    BY <2>3 DEF Coordinators
  <2>5. Sound(d)
    BY <2>2, <2>4 DEF Sound
  <2>6. Missing(d) = Missing(c)
    BY <2>2, <2>4 DEF Missing
  <2>7. Landing(c) = d
    BY <2>1, <2>3 DEF Landing
  <2>. QED
    BY <2>2, <2>4, <2>5, <2>6, <2>7
<1>2. ASSUME NEW i \in 1..Len(c.held), NEW x, Fine(i - 1, x) PROVE Fine(i, Handle(x, c.held[i]))
  <2>. DEFINE e == c.held[i]
              y == Handle(x, e)
  <2>1. x \in Coordinators /\ Sound(x) /\ e \in Emitted
    BY <1>0, <1>2
  <2>. HIDE DEF e
  <2>2. y \in Coordinators /\ Sound(y) /\ (x.quarantined => y = x)
        /\ (x.resuming => y.last = x.last)
    BY <2>1, HandleSound
  <2>. HIDE DEF y
  <2>3. CASE x.quarantined
    <3>1. y = x
      BY <2>2, <2>3
    <3>. QED
      BY <2>2, <2>3, <3>1 DEF e, y
  <2>4. CASE ~x.quarantined
    <3>1. /\ Missing(x) \subseteq Missing(c) /\ x.stream = c.stream
          /\ x.last > 0 \/ (x.last = c.last /\ i - 1 = 0 /\ ~x.resuming)
      BY <1>2, <2>4
    <3>2. x.last = 0 /\ ~x.resuming /\ e[1] = x.stream => e[2] = 1
      <4>1. SUFFICES ASSUME x.last = 0, ~x.resuming, e[1] = x.stream PROVE e[2] = 1
        OBVIOUS
      <4>2. i = 1 /\ c.last = 0
        BY <3>1, <4>1
      <4>. QED
        BY <3>1, <4>1, <4>2, <1>0 DEF e
    <3>3. x.resuming => x.last > 0
      BY <3>1
    <3>4. x.resuming \/ (x.stream # 0 /\ (x.last = 0 /\ e[1] = x.stream => e[2] = 1))
      BY <3>1, <3>2
    <3>5. \/ y.quarantined
          \/ /\ Missing(y) \subseteq Missing(x) /\ y.stream = x.stream
             /\ x.resuming => y.last = x.last
             /\ ~x.resuming => y.last > 0
      BY <2>1, <2>4, <3>4, HandleCovers DEF y
    <3>6. CASE y.quarantined
      BY <2>2, <3>6 DEF e, y
    <3>7. CASE ~y.quarantined
      <4>1. Missing(y) \subseteq Missing(c) /\ y.stream = c.stream
        BY <3>1, <3>5, <3>7
      <4>2. y.last > 0
        BY <3>3, <3>5, <3>7
      <4>. QED
        BY <2>2, <4>1, <4>2 DEF e, y
    <3>. QED
      BY <3>6, <3>7
  <2>. QED
    BY <2>3, <2>4
<1>. HIDE DEF Fine
<1>3. <<0, Landing(c)>> \in S
  <2>1. Landing(c) \in Coordinators
    BY <1>1 DEF Fine
  <2>. QED
    BY <1>1, <2>1
<1>4. ASSUME NEW i \in 1..Len(c.held), NEW x, <<i - 1, x>> \in S PROVE <<i, Handle(x, c.held[i])>> \in S
  <2>1. Fine(i - 1, x)
    BY <1>4
  <2>2. Fine(i, Handle(x, c.held[i]))
    BY <2>1, <1>2
  <2>3. Handle(x, c.held[i]) \in Coordinators /\ i \in Nat
    BY <2>2 DEF Fine
  <2>. QED
    BY <2>2, <2>3
<1>5. <<Len(c.held), Flush(c)>> \in S
  <2>. HIDE DEF S
  <2>. QED
    BY <1>0, <1>3, <1>4, FlushPreserves
<1>6. Fine(Len(c.held), Flush(c))
  BY <1>5
<1>. QED
  BY <1>6 DEF Fine

---------------------------------------------------------------------------
(* Leading the first event of a stream                                     *)

LEMMA WireFields ==
    ASSUME PipesTyped
    PROVE  /\ wire \in Seq(Heard) /\ Len(wire) \in Nat
           /\ \A m : m \in ToSet(wire) <=> \E i \in 1..Len(wire) : wire[i] = m
  BY Elements, LenProperties DEF PipesTyped

\* A server that starts to send, or sends something else than an event.
LEMMA LedMore ==
    ASSUME PipesTyped, UNCHANGED <<epoch, ends>>, attached => attached', NEW m \in Heard,
           wire' = wire \/ (wire' = Append(wire, m) /\ m.kind # "event"),
           NEW n, NEW hs, Led(n, hs)
    PROVE  Led(n, hs)'
<1>1. CASE wire' = wire
  BY <1>1 DEF Led
<1>2. CASE wire' = Append(wire, m) /\ m.kind # "event"
  <2>1. /\ ToSet(wire') = ToSet(wire) \cup {m} /\ Len(wire') = Len(wire) + 1
        /\ \A i \in 1..Len(wire) : wire'[i] = wire[i]
        /\ wire'[Len(wire) + 1] = m /\ Len(wire) \in Nat
    BY <1>2, SetOfAppended, WireFields
  <2>2. \A i \in 1..Len(wire') : wire'[i].kind = "event" => i \in 1..Len(wire)
    BY <1>2, <2>1
  <2>3. n = epoch' => /\ attached'
                      /\ \/ ends'[n] = 0 \/ <<n, 1>> \in ToSet(hs)
                         \/ \E x \in ToSet(wire') : Brings(x, <<n, 1>>)
    BY <2>1 DEF Led
  <2>4. ASSUME NEW i \in 1..Len(wire'), wire'[i].kind = "event", wire'[i].event[1] = n, wire'[i].event[2] # 1
        PROVE  <<n, 1>> \in ToSet(hs) \/ \E j \in 1..Len(wire') : j < i /\ Brings(wire'[j], <<n, 1>>)
    <3>1. i \in 1..Len(wire) /\ wire'[i] = wire[i]
      BY <2>1, <2>2, <2>4
    <3>2. CASE <<n, 1>> \in ToSet(hs)
      BY <3>2
    <3>3. CASE \E j \in 1..Len(wire) : j < i /\ Brings(wire[j], <<n, 1>>)
      BY <2>1, <3>3
    <3>. QED
      BY <2>4, <3>1, <3>2, <3>3 DEF Led
  <2>5. \A i \in 1..Len(hs) :
          hs[i][1] = n /\ hs[i][2] # 1 => \E j \in 1..Len(hs) : j < i /\ hs[j] = <<n, 1>>
    BY DEF Led
  <2>6. \A x, e : Brings(x, e)' <=> Brings(x, e)
    BY DEF Brings
  <2>. QED
    BY <2>3, <2>4, <2>5, <2>6 DEF Led, Brings
<1>. QED
  BY <1>1, <1>2

\* Of what the client receives, an answer does not matter.
LEMMA LedTail ==
    ASSUME PipesTyped, UNCHANGED <<epoch, ends, attached>>, wire # <<>>, wire' = Tail(wire),
           Head(wire).kind # "event", NEW n, NEW hs, Led(n, hs)
    PROVE  Led(n, hs)'
<1>1. /\ ToSet(wire) = ToSet(wire') \cup {Head(wire)} /\ Head(wire) = wire[1]
      /\ Len(wire') = Len(wire) - 1 /\ Len(wire) \in Nat /\ Len(wire) > 0
      /\ \A i \in 1..Len(wire') : wire'[i] = wire[i + 1]
  BY SetOfTail, WireFields
<1>2. \A x, e : Brings(x, e) => x # Head(wire)
  BY DEF Brings
<1>3. n = epoch' => /\ attached'
                    /\ \/ ends'[n] = 0 \/ <<n, 1>> \in ToSet(hs)
                       \/ \E x \in ToSet(wire') : Brings(x, <<n, 1>>)
  BY <1>1, <1>2 DEF Led
<1>4. ASSUME NEW i \in 1..Len(wire'), wire'[i].kind = "event", wire'[i].event[1] = n, wire'[i].event[2] # 1
      PROVE  <<n, 1>> \in ToSet(hs) \/ \E j \in 1..Len(wire') : j < i /\ Brings(wire'[j], <<n, 1>>)
  <2>1. i + 1 \in 1..Len(wire) /\ wire'[i] = wire[i + 1]
    BY <1>1, <1>4
  <2>2. CASE <<n, 1>> \in ToSet(hs)
    BY <2>2
  <2>3. CASE \E j \in 1..Len(wire) : j < i + 1 /\ Brings(wire[j], <<n, 1>>)
    <3>1. PICK j \in 1..Len(wire) : j < i + 1 /\ Brings(wire[j], <<n, 1>>)
      BY <2>3
    <3>2. j # 1
      BY <1>1, <1>2, <3>1
    <3>3. j - 1 \in 1..Len(wire') /\ j - 1 < i /\ wire'[j - 1] = wire[j]
      BY <1>1, <3>1, <3>2
    <3>. QED
      BY <3>1, <3>3
  <2>. QED
    BY <1>4, <2>1, <2>2, <2>3 DEF Led
<1>5. \A i \in 1..Len(hs) :
        hs[i][1] = n /\ hs[i][2] # 1 => \E j \in 1..Len(hs) : j < i /\ hs[j] = <<n, 1>>
  BY DEF Led
<1>. QED
  BY <1>3, <1>4, <1>5 DEF Led, Brings

\* An event that is held stays in its place.
LEMMA LedHeld ==
    ASSUME PipesTyped, UNCHANGED <<epoch, ends, attached>>, wire # <<>>, wire' = Tail(wire),
           Head(wire).kind = "event", NEW e, Head(wire).event = e,
           NEW n \in Nat, NEW hs \in Seq(Pairs), Led(n, hs)
    PROVE  Led(n, Append(hs, e))'
<1>. DEFINE gs == Append(hs, e)
<1>1. /\ ToSet(wire) = ToSet(wire') \cup {Head(wire)} /\ Head(wire) = wire[1]
      /\ Len(wire') = Len(wire) - 1 /\ Len(wire) \in Nat /\ Len(wire) > 0
      /\ \A i \in 1..Len(wire') : wire'[i] = wire[i + 1]
      /\ Head(wire) \in Heard
  BY SetOfTail, WireFields
<1>2. e \in Pairs
  BY <1>1, HeardFields
<1>3. /\ gs \in Seq(Pairs) /\ ToSet(gs) = ToSet(hs) \cup {e} /\ Len(gs) = Len(hs) + 1 /\ Len(hs) \in Nat
      /\ \A i \in 1..Len(hs) : gs[i] = hs[i]
      /\ gs[Len(hs) + 1] = e
  BY <1>2, SetOfAppended, Grown, LenProperties
<1>4. \A p : p \in ToSet(hs) <=> \E i \in 1..Len(hs) : hs[i] = p
  BY Elements
<1>5. PICK g \in Seq(Pairs) : g = gs
  BY <1>3
<1>6. \A x : x \in ToSet(wire) /\ Brings(x, <<n, 1>>) => x \in ToSet(wire') \/ <<n, 1>> \in ToSet(g)
  BY <1>1, <1>3, <1>5 DEF Brings
<1>7. n = epoch' => /\ attached'
                    /\ \/ ends'[n] = 0 \/ <<n, 1>> \in ToSet(g)
                       \/ \E x \in ToSet(wire') : Brings(x, <<n, 1>>)
  BY <1>3, <1>5, <1>6 DEF Led
<1>8. ASSUME NEW i \in 1..Len(wire'), wire'[i].kind = "event", wire'[i].event[1] = n, wire'[i].event[2] # 1
      PROVE  <<n, 1>> \in ToSet(g) \/ \E j \in 1..Len(wire') : j < i /\ Brings(wire'[j], <<n, 1>>)
  <2>1. i + 1 \in 1..Len(wire) /\ wire'[i] = wire[i + 1]
    BY <1>1, <1>8
  <2>2. CASE <<n, 1>> \in ToSet(hs)
    BY <1>3, <1>5, <2>2
  <2>3. CASE \E j \in 1..Len(wire) : j < i + 1 /\ Brings(wire[j], <<n, 1>>)
    <3>1. PICK j \in 1..Len(wire) : j < i + 1 /\ Brings(wire[j], <<n, 1>>)
      BY <2>3
    <3>2. CASE j = 1
      <4>1. e = <<n, 1>>
        BY <1>1, <3>1, <3>2 DEF Brings
      <4>. QED
        BY <1>3, <1>5, <4>1
    <3>3. CASE j # 1
      <4>1. j - 1 \in 1..Len(wire') /\ j - 1 < i /\ wire'[j - 1] = wire[j]
        BY <1>1, <3>1, <3>3
      <4>. QED
        BY <3>1, <4>1
    <3>. QED
      BY <3>2, <3>3
  <2>. QED
    BY <1>8, <2>1, <2>2, <2>3 DEF Led
<1>9. ASSUME NEW i \in 1..Len(g), g[i][1] = n, g[i][2] # 1
      PROVE  \E j \in 1..Len(g) : j < i /\ g[j] = <<n, 1>>
  <2>1. CASE i \in 1..Len(hs)
    <3>1. hs[i] = g[i]
      BY <1>3, <1>5, <2>1
    <3>2. PICK j \in 1..Len(hs) : j < i /\ hs[j] = <<n, 1>>
      BY <1>9, <2>1, <3>1 DEF Led
    <3>3. j \in 1..Len(g) /\ g[j] = hs[j]
      BY <1>3, <1>5
    <3>. QED
      BY <3>2, <3>3
  <2>2. CASE i = Len(hs) + 1
    <3>1. wire[1].kind = "event" /\ wire[1].event[1] = n /\ wire[1].event[2] # 1 /\ 1 \in 1..Len(wire)
      BY <1>1, <1>3, <1>5, <1>9, <2>2
    <3>2. ~(\E j \in 1..Len(wire) : j < 1 /\ Brings(wire[j], <<n, 1>>))
      BY <1>1
    <3>3. <<n, 1>> \in ToSet(hs)
      BY <3>1, <3>2 DEF Led
    <3>4. PICK j \in 1..Len(hs) : hs[j] = <<n, 1>>
      BY <1>4, <3>3
    <3>5. j \in 1..Len(g) /\ g[j] = hs[j] /\ j < i
      BY <1>3, <1>5, <2>2
    <3>. QED
      BY <3>4, <3>5
  <2>3. Len(g) = Len(hs) + 1 /\ Len(hs) \in Nat
    BY <1>3, <1>5
  <2>4. i \in 1..Len(hs) \/ i = Len(hs) + 1
    BY <2>3
  <2>. QED
    BY <2>1, <2>2, <2>4
<1>10. Led(n, g)'
  BY <1>7, <1>8, <1>9 DEF Led, Brings
<1>. QED
  BY <1>5, <1>10

\* The server's next event follows the first one, unless that was lost.
LEMMA LedEmit ==
    ASSUME ~LosesFirst, TInv, Emit, NEW n, NEW hs, Led(n, hs)
    PROVE  Led(n, hs)'
<1>1. /\ ends' = [ends EXCEPT ![epoch] = @ + 1] /\ UNCHANGED <<epoch, attached>>
      /\ \/ attached /\ wire' = Append(wire, [kind |-> "event", id |-> 0, event |-> <<epoch, ends'[epoch]>>])
         \/ attached /\ ends[epoch] > 0 /\ wire' = wire
         \/ ~attached /\ wire' = wire
  BY DEF Emit
<1>2. /\ epoch \in Epochs /\ ends \in [Epochs -> Nat] /\ ends'[epoch] = ends[epoch] + 1 /\ ends[epoch] \in Nat
      /\ \A s : s # epoch => ends'[s] = ends[s]
  BY <1>1, TrackerNow DEF ServerTyped
<1>3. PipesTyped
  BY TrackerNow
<1>. DEFINE x == [kind |-> "event", id |-> 0, event |-> <<epoch, ends[epoch] + 1>>]
<1>4. x \in Heard /\ x.kind = "event" /\ x.event[1] = epoch /\ x.event[2] = ends[epoch] + 1
      /\ x.event = <<epoch, ends[epoch] + 1>>
  BY <1>2 DEF Heard, Pairs
<1>5. wire' = Append(wire, x) \/ (wire' = wire /\ (attached => ends[epoch] > 0))
  BY <1>1, <1>2
<1>. HIDE DEF x
<1>6. /\ ToSet(wire) \subseteq ToSet(wire') /\ Len(wire) \in Nat
      /\ \A i \in 1..Len(wire) : i \in 1..Len(wire') /\ wire'[i] = wire[i]
      /\ \A i \in 1..Len(wire') : i \in 1..Len(wire) \/ (i = Len(wire) + 1 /\ wire'[i] = x)
      /\ wire' = Append(wire, x) => x \in ToSet(wire')
  <2>1. CASE wire' = wire
    <3>1. Append(wire, x) # wire
      BY <1>3, <1>4, SetOfAppended, WireFields
    <3>. QED
      BY <1>3, <2>1, <3>1, WireFields
  <2>2. CASE wire' = Append(wire, x)
    BY <1>3, <1>4, <2>2, SetOfAppended, WireFields
  <2>. QED
    BY <1>5, <2>1, <2>2
<1>7. n = epoch' => /\ attached'
                    /\ \/ ends'[n] = 0 \/ <<n, 1>> \in ToSet(hs)
                       \/ \E m \in ToSet(wire') : Brings(m, <<n, 1>>)
  <2>1. SUFFICES ASSUME n = epoch PROVE attached /\ (<<n, 1>> \in ToSet(hs)
                                                      \/ \E m \in ToSet(wire') : Brings(m, <<n, 1>>))
    BY <1>1
  <2>2. attached /\ (ends[n] = 0 \/ <<n, 1>> \in ToSet(hs) \/ \E m \in ToSet(wire) : Brings(m, <<n, 1>>))
    BY <2>1 DEF Led
  <2>3. CASE ends[n] = 0
    <3>1. wire' = Append(wire, x) /\ x \in ToSet(wire')
      BY <1>2, <1>5, <1>6, <2>1, <2>2, <2>3
    <3>2. Brings(x, <<n, 1>>)
      BY <1>4, <2>1, <2>3 DEF Brings
    <3>. QED
      BY <2>2, <3>1, <3>2
  <2>. QED
    BY <1>6, <2>2, <2>3
<1>8. ASSUME NEW i \in 1..Len(wire'), wire'[i].kind = "event", wire'[i].event[1] = n, wire'[i].event[2] # 1
      PROVE  <<n, 1>> \in ToSet(hs) \/ \E j \in 1..Len(wire') : j < i /\ Brings(wire'[j], <<n, 1>>)
  <2>1. CASE i \in 1..Len(wire)
    <3>1. wire'[i] = wire[i]
      BY <1>6, <2>1
    <3>2. <<n, 1>> \in ToSet(hs) \/ \E j \in 1..Len(wire) : j < i /\ Brings(wire[j], <<n, 1>>)
      BY <1>8, <2>1, <3>1 DEF Led
    <3>. QED
      BY <1>6, <3>2
  <2>2. CASE i = Len(wire) + 1 /\ wire'[i] = x
    <3>1. n = epoch /\ ends[n] # 0
      BY <1>2, <1>4, <1>8, <2>2
    <3>2. <<n, 1>> \in ToSet(hs) \/ \E m \in ToSet(wire) : Brings(m, <<n, 1>>)
      BY <3>1 DEF Led
    <3>3. CASE \E m \in ToSet(wire) : Brings(m, <<n, 1>>)
      <4>1. PICK j \in 1..Len(wire) : Brings(wire[j], <<n, 1>>)
        BY <1>3, <3>3, WireFields
      <4>. QED
        BY <1>6, <2>2, <4>1
    <3>. QED
      BY <3>2, <3>3
  <2>. QED
    BY <1>6, <1>8, <2>1, <2>2
<1>9. \A i \in 1..Len(hs) :
        hs[i][1] = n /\ hs[i][2] # 1 => \E j \in 1..Len(hs) : j < i /\ hs[j] = <<n, 1>>
  BY DEF Led
<1>. QED
  BY <1>7, <1>8, <1>9 DEF Led, Brings

\* A backfill that finds an empty stream misses nothing of it.
LEMMA LedServed ==
    ASSUME TInv, ends[epoch] = 0, UNCHANGED <<epoch, ends, wire>>, attached', NEW hs \in Seq(Pairs),
           \A i \in 1..Len(hs) : hs[i] \in Emitted, NEW n, n = epoch
    PROVE  Led(n, hs)'
<1>1. PipesTyped /\ ServerTyped /\ epoch \in Epochs
  BY TrackerNow DEF ServerTyped
<1>2. \A e \in Emitted : e[1] # n
  <2>1. \A e \in Emitted : e \in Pairs /\ 1 <= e[2] /\ e[2] <= ends[e[1]] /\ e[2] \in Nat
    BY <1>1, EmittedIs
  <2>. QED
    BY <2>1
<1>3. \A i \in 1..Len(wire) : wire[i].kind = "event" => wire[i].event \in Emitted
  <2>1. \A i \in 1..Len(wire) : wire[i] \in Traffic
    BY <1>1, WireFields DEF Traffic
  <2>. QED
    BY <2>1 DEF TInv, Honest, Truthful
<1>. QED
  BY <1>2, <1>3 DEF Led, Brings

\* What was emitted of a stream up to a place that had been reached stays.
LEMMA PastKept ==
    ASSUME ServerTyped, ServerTyped', epoch <= epoch', \A n \in Epochs : ends[n] <= ends'[n],
           NEW s, NEW k, Reached(s, k)
    PROVE  Past(s, k)' = Past(s, k)
<1>1. Emitted \subseteq Emitted'
  BY ServerGrows
<1>2. ASSUME NEW e \in Emitted', e[1] = s, e[2] <= k PROVE e \in Emitted
  <2>1. e \in Pairs /\ 1 <= e[2] /\ e[2] \in Nat /\ e[1] \in Epochs
    <3>1. PICK n \in Epochs : e \in {n} \X (1..ends'[n])
      BY DEF Emitted
    <3>2. ends'[n] \in Nat
      BY DEF ServerTyped
    <3>. QED
      BY <3>1, <3>2 DEF Pairs
  <2>2. k <= ends[s]
    BY <1>2, <2>1, StreamsAreNumbered DEF Reached
  <2>3. k \in Nat /\ ends[s] \in Nat
    BY <1>2, <2>1 DEF Reached, ServerTyped
  <2>. QED
    BY <1>2, <2>1, <2>2, <2>3, EmittedIs
<1>. QED
  BY <1>1, <1>2, Zenon DEF Past

---------------------------------------------------------------------------
(* The cursor covers what it has passed: steps of the coordinator          *)

LEMMA BecomeCovers ==
    ASSUME TInv, CInv, NEW c \in Coordinators, NEW asks \in BOOLEAN,
           NEW fetch \in {<<>>, <<HistoryCall>>}, Become(c, asks, fetch),
           UNCHANGED <<epoch, ends>>, ToSet(wire') \subseteq ToSet(wire), answers' = answers,
           sock' = "opening" => c.resuming,
           asks => c.resuming,
           c.resuming /\ ~asks =>
             /\ flight.live /\ c.stream = rc.stream /\ c.last = rc.last
             /\ ~c.quarantined => ~rc.quarantined /\ \A n \in Nat : Led(n, rc.held) => Led(n, c.held)',
           c.registered /\ ~c.quarantined /\ ~c.resuming /\ sock' # "down" =>
             c.stream # 0 /\ (c.last = 0 => Led(c.stream, <<>>)'),
           c.registered /\ ~c.quarantined =>
             /\ load' = NoLoad /\ ui' = "ready" => Missing(c) = {}
             /\ \/ load'.phase # "fetching"
                \/ load'.id = HistoryId
                \/ load' = load /\ rc.registered /\ ~rc.quarantined /\ Missing(c) \subseteq Missing(rc),
           load'.auth =>
             \/ load'.phase = "fetching" /\ load'.id = HistoryId
             \/ /\ load' = load
                /\ \/ c.named = rc.named
                   \/ /\ load.phase # "recovering"
                      /\ \E a \in Traffic : OfFlight(a) /\ a.kind = "refused" /\ c.named = <<a.stream, a.upto>>
    PROVE  CInv'
<1>1. /\ rc' = c /\ known' = known \cup ToSet(c.applied)
      /\ flight' = IF asks THEN [id |-> ResumeId, own |-> TRUE, stream |-> 0, last |-> 0, live |-> TRUE]
                   ELSE IF c.resuming THEN flight ELSE NoFlight
  BY DEF Become
<1>2. /\ \A m \in ToSet(calls') : m \in ToSet(calls) \/ (asks /\ m = ResumeCall(c)) \/ m = HistoryCall
      /\ HistoryId \in Nat /\ \A m \in Traffic : m.kind \in Readings => m.id # HistoryId
      /\ ResumeId \in Nat /\ \A m \in Traffic : m.kind \in Backfills => m.id # ResumeId
  BY BecomeAsks, TrackerNow
<1>3. \A m \in Traffic' : m \in Traffic \/ (asks /\ m = ResumeCall(c)) \/ m = HistoryCall
  BY <1>2 DEF Traffic
<1>4. Emitted' = Emitted /\ \A s, n : Past(s, n)' = Past(s, n)
  BY DEF Emitted, Past
<1>5. Missing(rc)' = Missing(c)
  BY <1>1, <1>4 DEF Missing
<1>6. \A t \in Traffic' : t.kind \in {"transcript", "refused", "resumed"} => t \in Traffic
  BY <1>3 DEF ResumeCall, HistoryCall
<1>7. \A m \in Traffic' : OfFlight(m)' =>
         \/ asks /\ m = ResumeCall(c)
         \/ ~asks /\ c.resuming /\ flight' = flight /\ m \in Traffic /\ OfFlight(m)
  <2>1. SUFFICES ASSUME NEW m \in Traffic', OfFlight(m)'
                 PROVE  \/ asks /\ m = ResumeCall(c)
                        \/ ~asks /\ c.resuming /\ flight' = flight /\ m \in Traffic /\ OfFlight(m)
    BY Zenon
  <2>2. m.kind \in Backfills /\ flight'.live /\ m.id = flight'.id
    BY <2>1 DEF OfFlight
  <2>3. m # HistoryCall
    BY <2>2 DEF HistoryCall, Backfills
  <2>4. CASE asks
    BY <1>1, <1>2, <1>3, <2>2, <2>3, <2>4
  <2>5. CASE ~asks
    <3>1. c.resuming /\ flight' = flight
      BY <1>1, <2>2, <2>5 DEF NoFlight
    <3>. QED
      BY <1>3, <2>2, <2>3, <2>5, <3>1 DEF OfFlight
  <2>. QED
    BY <2>4, <2>5
<1>8. \A t \in Traffic' : OfLoad(t)' /\ t.kind = "transcript" =>
         t \in Traffic /\ load'.phase = "fetching" /\ t.id = load'.id /\ load'.id # HistoryId
  BY <1>2, <1>6 DEF OfLoad, Readings
<1>9. sock' = "opening" => flight'.live
  BY <1>1
<1>10. ToSet(rc'.applied) \subseteq known'
  BY <1>1
<1>11. Asking'
  <2>1. SUFFICES ASSUME NEW m \in Traffic', OfFlight(m)'
                 PROVE  /\ m.kind = "resume" => m.stream = c.stream /\ m.from = c.last
                        /\ m.kind = "resumed" => /\ c.stream \in {0, m.stream} /\ m.from = c.last
                                                 /\ m.from <= m.upto
                                                 /\ m.upto = 0 /\ ~c.quarantined => Led(m.stream, c.held)'
    BY <1>1 DEF Asking
  <2>2. CASE asks /\ m = ResumeCall(c)
    BY <2>2 DEF ResumeCall
  <2>3. CASE ~asks /\ c.resuming /\ m \in Traffic /\ OfFlight(m)
    <3>1. /\ m.kind = "resume" => m.stream = rc.stream /\ m.from = rc.last
          /\ m.kind = "resumed" => /\ rc.stream \in {0, m.stream} /\ m.from = rc.last /\ m.from <= m.upto
                                   /\ m.upto = 0 /\ ~rc.quarantined => Led(m.stream, rc.held)
      BY <2>3 DEF CInv, Asking
    <3>2. m.kind = "resumed" => m.stream \in Nat
      BY <2>3, TrafficTyped, TrackerNow, AskedFields, HeardFields, StreamsAreNumbered
    <3>. QED
      BY <2>3, <3>1, <3>2
  <2>. QED
    BY <1>7, <2>1, <2>2, <2>3
<1>12. OnStream'
  BY <1>1 DEF OnStream
<1>13. Repaired'
  <2>1. SUFFICES ASSUME c.registered, ~c.quarantined
                 PROVE  /\ load' = NoLoad /\ ui' = "ready" => Missing(c) = {}
                        /\ \A t \in Traffic' : OfLoad(t)' /\ t.kind = "transcript" => Missing(c) \subseteq t.seen
    BY <1>1, <1>5 DEF Repaired
  <2>2. ASSUME NEW t \in Traffic', OfLoad(t)', t.kind = "transcript" PROVE Missing(c) \subseteq t.seen
    <3>1. t \in Traffic /\ load'.phase = "fetching" /\ load'.id # HistoryId
      BY <1>8, <2>2
    <3>2. load' = load /\ rc.registered /\ ~rc.quarantined /\ Missing(c) \subseteq Missing(rc)
      BY <2>1, <3>1
    <3>3. OfLoad(t)
      BY <2>2, <3>2 DEF OfLoad
    <3>4. Missing(rc) \subseteq t.seen
      BY <2>2, <3>1, <3>2, <3>3 DEF CInv, Repaired
    <3>. QED
      BY <3>2, <3>4
  <2>. QED
    BY <2>1, <2>2
<1>14. NamedCovered'
  <2>1. SUFFICES ASSUME load'.auth
                 PROVE  /\ load'.phase = "recovering" => Past(c.named[1], c.named[2]) \subseteq known'
                        /\ \A t \in Traffic' : OfLoad(t)' /\ t.kind = "transcript" =>
                             /\ Past(c.named[1], c.named[2]) \subseteq t.seen
                             /\ \A a \in Traffic' : OfFlight(a)' /\ a.kind = "refused" =>
                                  Past(a.stream, a.upto) \subseteq t.seen
    BY <1>1, <1>4 DEF NamedCovered
  <2>2. load'.phase = "recovering" => Past(c.named[1], c.named[2]) \subseteq known'
    <3>1. SUFFICES ASSUME load'.phase = "recovering" PROVE Past(c.named[1], c.named[2]) \subseteq known'
      OBVIOUS
    <3>2. load' = load /\ c.named = rc.named /\ load.auth
      BY <2>1, <3>1
    <3>3. Past(rc.named[1], rc.named[2]) \subseteq known
      BY <3>1, <3>2 DEF CInv, NamedCovered
    <3>. QED
      BY <1>1, <3>2, <3>3
  <2>3. ASSUME NEW t \in Traffic', OfLoad(t)', t.kind = "transcript"
        PROVE  /\ Past(c.named[1], c.named[2]) \subseteq t.seen
               /\ \A a \in Traffic' : OfFlight(a)' /\ a.kind = "refused" => Past(a.stream, a.upto) \subseteq t.seen
    <3>1. t \in Traffic /\ load'.phase = "fetching" /\ load'.id # HistoryId
      BY <1>8, <2>3
    <3>2. /\ load' = load /\ load.auth
          /\ \/ c.named = rc.named
             \/ \E a \in Traffic : OfFlight(a) /\ a.kind = "refused" /\ c.named = <<a.stream, a.upto>>
      BY <2>1, <3>1
    <3>3. OfLoad(t)
      BY <2>3, <3>2 DEF OfLoad
    <3>4. /\ Past(rc.named[1], rc.named[2]) \subseteq t.seen
          /\ \A a \in Traffic : OfFlight(a) /\ a.kind = "refused" => Past(a.stream, a.upto) \subseteq t.seen
      BY <2>3, <3>1, <3>2, <3>3 DEF CInv, NamedCovered
    <3>5. Past(c.named[1], c.named[2]) \subseteq t.seen
      BY <3>2, <3>4
    <3>6. ASSUME NEW a \in Traffic', OfFlight(a)', a.kind = "refused" PROVE Past(a.stream, a.upto) \subseteq t.seen
      <4>1. a # ResumeCall(c)
        BY <3>6 DEF ResumeCall
      <4>2. a \in Traffic /\ OfFlight(a)
        BY <1>7, <3>6, <4>1
      <4>. QED
        BY <3>4, <3>6, <4>2
    <3>. QED
      BY <3>5, <3>6
  <2>. QED
    BY <2>1, <2>2, <2>3
<1>. QED
  BY <1>9, <1>10, <1>11, <1>12, <1>13, <1>14 DEF CInv

LEMMA SelectCovers ==
    ASSUME TInv, CInv, NEW c \in Coordinators, Sound(c), NEW auth \in BOOLEAN, Select(c, auth),
           UNCHANGED <<epoch, ends>>, ToSet(wire') \subseteq ToSet(wire), answers' = answers,
           sock' = "opening" => c.resuming,
           c.resuming =>
             /\ flight.live /\ c.stream = rc.stream /\ c.last = rc.last
             /\ ~c.quarantined => ~rc.quarantined /\ \A n \in Nat : Led(n, rc.held) => Led(n, c.held)',
           c.quarantined \/ c.resuming \/ sock = "up",
           auth => c.quarantined
    PROVE  CInv'
<1>. DEFINE r == [c EXCEPT !.registered = TRUE]
            s == IF sock = "up" THEN ResumeAll(r) ELSE r
            asks == s.resuming /\ ~c.resuming
            fetch == IF asks THEN <<>> ELSE <<HistoryCall>>
<1>1. /\ r \in Coordinators /\ Sound(r) /\ r.registered /\ r.quarantined = c.quarantined
      /\ r.resuming = c.resuming /\ r.stream = c.stream /\ r.last = c.last /\ r.held = c.held
  BY RegisteredSound
<1>. HIDE DEF r
<1>2. /\ ResumeAll(r) \in Coordinators /\ ResumeAll(r).registered = r.registered
      /\ ResumeAll(r).quarantined = r.quarantined
      /\ r.resuming => ResumeAll(r) = r
      /\ ~r.resuming /\ ResumeAll(r).resuming => ~r.quarantined
      /\ Resumable(r) => ResumeAll(r).resuming
  BY <1>1, ResumeAllSound DEF SameBut
<1>3. /\ s \in Coordinators /\ s.registered /\ s.quarantined = c.quarantined
      /\ c.resuming => s = r
      /\ s.resuming => c.resuming \/ ~c.quarantined
  BY <1>1, <1>2
<1>4. s.quarantined \/ s.resuming
  <2>1. SUFFICES ASSUME ~c.quarantined, ~c.resuming PROVE s.resuming
    BY <1>1, <1>3
  <2>2. Resumable(r)
    BY <1>1, <2>1 DEF Resumable
  <2>. QED
    BY <1>2, <2>1, <2>2
<1>5. /\ Become(s, asks, fetch)
      /\ load' = IF asks THEN [phase |-> "attaching", auth |-> auth, id |-> 0] ELSE Fetching(auth)
  BY DEF Select, r
<1>6. PICK z \in Coordinators : z = s
  BY <1>3
<1>. HIDE DEF s
<1>7. asks \in BOOLEAN /\ fetch \in {<<>>, <<HistoryCall>>}
  BY <1>3, CoordinatorFields
<1>8. asks => load'.phase = "attaching" /\ load'.auth = auth /\ load' # NoLoad /\ ~auth
  BY <1>3, <1>5 DEF NoLoad
<1>9. ~asks => load'.phase = "fetching" /\ load'.id = HistoryId /\ load' # NoLoad
  BY <1>5 DEF Fetching, NoLoad
<1>10. /\ Become(z, asks, fetch)
       /\ sock' = "opening" => z.resuming
       /\ asks => z.resuming
       /\ z.quarantined \/ z.resuming
  BY <1>1, <1>3, <1>4, <1>5, <1>6
<1>11. z.resuming /\ ~asks =>
          /\ flight.live /\ z.stream = rc.stream /\ z.last = rc.last
          /\ ~z.quarantined => ~rc.quarantined /\ \A n \in Nat : Led(n, rc.held) => Led(n, z.held)'
  <2>1. SUFFICES ASSUME z.resuming, ~asks
                 PROVE  /\ flight.live /\ z.stream = rc.stream /\ z.last = rc.last
                        /\ ~z.quarantined => ~rc.quarantined /\ \A n \in Nat : Led(n, rc.held) => Led(n, z.held)'
    OBVIOUS
  <2>2. c.resuming
    BY <1>6, <2>1
  <2>3. z.stream = c.stream /\ z.last = c.last /\ z.held = c.held /\ z.quarantined = c.quarantined
    BY <1>1, <1>3, <1>6, <2>2
  <2>. QED
    BY <2>2, <2>3
<1>12. load'.auth => load'.phase = "fetching" /\ load'.id = HistoryId
  BY <1>8, <1>9
<1>13. load' # NoLoad /\ (load'.phase # "fetching" \/ load'.id = HistoryId)
  BY <1>8, <1>9
<1>. HIDE DEF asks, fetch
<1>. QED
  BY <1>7, <1>10, <1>11, <1>12, <1>13, BecomeCovers

LEMMA SettleCovers ==
    ASSUME TInv, HInv, CInv, NEW c \in Coordinators, Sound(c), NEW asks \in BOOLEAN, Settle(c, asks),
           UNCHANGED <<epoch, ends>>, ToSet(wire') \subseteq ToSet(wire), answers' = answers,
           c.registered = rc.registered,
           sock' = "opening" => c.resuming,
           asks => c.resuming /\ ~c.quarantined,
           c.resuming /\ ~asks =>
             /\ flight.live /\ c.stream = rc.stream /\ c.last = rc.last
             /\ ~c.quarantined => ~rc.quarantined /\ \A n \in Nat : Led(n, rc.held) => Led(n, c.held)',
           c.registered /\ ~c.quarantined /\ ~c.resuming /\ sock' # "down" =>
             c.stream # 0 /\ (c.last = 0 => Led(c.stream, <<>>)'),
           c.registered /\ ~c.quarantined => ~rc.quarantined /\ Missing(c) \subseteq Missing(rc),
           load.auth =>
             \/ c.named = rc.named
             \/ /\ load.phase # "recovering"
                /\ \E a \in Traffic : OfFlight(a) /\ a.kind = "refused" /\ c.named = <<a.stream, a.upto>>
    PROVE  CInv'
<1>1. CASE c.quarantined /\ ~rc.quarantined /\ c.registered
  <2>1. Select(c, TRUE)
    BY <1>1 DEF Settle
  <2>2. c.resuming =>
          /\ flight.live /\ c.stream = rc.stream /\ c.last = rc.last
          /\ ~c.quarantined => ~rc.quarantined /\ \A n \in Nat : Led(n, rc.held) => Led(n, c.held)'
    BY <1>1
  <2>. QED
    BY <1>1, <2>1, <2>2, SelectCovers
<1>2. CASE ~(c.quarantined /\ ~rc.quarantined /\ c.registered)
  <2>1. Become(c, asks, <<>>) /\ load' = load /\ ui' = ui
    BY <1>2 DEF Settle
  <2>2. asks => c.resuming
    OBVIOUS
  <2>3. c.registered /\ ~c.quarantined =>
          /\ load' = NoLoad /\ ui' = "ready" => Missing(c) = {}
          /\ load' = load /\ rc.registered /\ ~rc.quarantined /\ Missing(c) \subseteq Missing(rc)
    <3>1. SUFFICES ASSUME c.registered, ~c.quarantined
                   PROVE  /\ load' = NoLoad /\ ui' = "ready" => Missing(c) = {}
                          /\ load' = load /\ rc.registered /\ ~rc.quarantined /\ Missing(c) \subseteq Missing(rc)
      OBVIOUS
    <3>2. load = NoLoad /\ ui = "ready" => Missing(rc) = {}
      BY <3>1 DEF CInv, Repaired
    <3>. QED
      BY <2>1, <3>1, <3>2
  <2>4. load'.auth =>
          /\ load' = load
          /\ \/ c.named = rc.named
             \/ /\ load.phase # "recovering"
                /\ \E a \in Traffic : OfFlight(a) /\ a.kind = "refused" /\ c.named = <<a.stream, a.upto>>
    BY <2>1
  <2>. QED
    BY <2>1, <2>2, <2>3, <2>4, BecomeCovers
<1>. QED
  BY <1>1, <1>2

\* The coordinator's next event.
LEMMA ReceiveEventCovers == ASSUME TInv, HInv, CInv, ReceiveEvent PROVE CInv'
<1>. DEFINE asks(d) == d.resuming /\ ~rc.resuming
<1>1. PICK e : e = Head(wire).event
  OBVIOUS
<1>2. /\ wire # <<>> /\ Head(wire).kind = "event" /\ wire' = Tail(wire)
      /\ Settle(Handle(rc, e), Handle(rc, e).resuming /\ ~rc.resuming)
      /\ UNCHANGED <<epoch, ends, attached, sock, answers>>
  BY <1>1 DEF ReceiveEvent, server
<1>3. /\ ToSet(wire') \subseteq ToSet(wire) /\ Head(wire) \in Traffic /\ sock # "down"
      /\ wire[1] = Head(wire) /\ 1 \in 1..Len(wire)
  BY <1>2, Dropped, WireFields, TrackerNow DEF TInv, Quiet
<1>4. e \in Emitted
  BY <1>1, <1>2, <1>3 DEF TInv, Honest, Truthful
<1>5. /\ Handle(rc, e) \in Coordinators /\ Sound(Handle(rc, e)) /\ SameBut(rc, Handle(rc, e))
      /\ rc.quarantined => Handle(rc, e) = rc
      /\ rc.resuming => /\ Handle(rc, e).resuming /\ Handle(rc, e).quarantined = rc.quarantined
                        /\ Handle(rc, e).stream = rc.stream /\ Handle(rc, e).last = rc.last
                        /\ ~rc.quarantined /\ rc.holding => Handle(rc, e).held = Append(rc.held, e)
  <2>1. rc.resuming /\ ~rc.quarantined /\ rc.holding => Handle(rc, e) = Hold(rc, Append(rc.held, e))
    BY DEF Handle
  <2>2. rc.resuming /\ ~rc.quarantined /\ rc.holding => Handle(rc, e).held = Append(rc.held, e)
    BY <2>1, TrackerNow DEF Hold, Coordinators
  <2>. QED
    BY <1>4, <2>2, HandleSound, TrackerNow
<1>6. PICK c \in Coordinators : c = Handle(rc, e)
  BY <1>5
<1>7. PICK hs \in Seq(Pairs) : hs = rc.held
  BY TrackerNow, CoordinatorFields
<1>8. /\ Sound(c) /\ c.registered = rc.registered /\ c.named = rc.named
      /\ rc.quarantined => c = rc
      /\ rc.resuming => /\ c.resuming /\ c.quarantined = rc.quarantined
                        /\ c.stream = rc.stream /\ c.last = rc.last
                        /\ ~rc.quarantined /\ rc.holding => c.held = Append(hs, e)
  BY <1>5, <1>6, <1>7 DEF SameBut
<1>9. Settle(c, asks(c))
  BY <1>2, <1>6
<1>10. /\ rc.resuming \in BOOLEAN /\ c.resuming \in BOOLEAN /\ rc.quarantined \in BOOLEAN
       /\ c.quarantined \in BOOLEAN /\ rc.registered \in BOOLEAN
  BY CoordinatorFields, TrackerNow
<1>11. rc.resuming => flight.live
  BY TrackerNow
<1>12. sock = "opening" => rc.resuming
  BY DEF CInv, TInv, Flying
<1>13. asks(c) => c.resuming /\ ~c.quarantined
  <2>1. ~rc.resuming \/ ~rc.quarantined => ~c.resuming \/ ~c.quarantined
    BY <1>4, <1>6, HandleSound, TrackerNow
  <2>. QED
    BY <2>1
<1>14. c.resuming /\ ~asks(c) =>
          /\ flight.live /\ c.stream = rc.stream /\ c.last = rc.last
          /\ ~c.quarantined => ~rc.quarantined /\ \A n \in Nat : Led(n, rc.held) => Led(n, c.held)'
  <2>1. SUFFICES ASSUME rc.resuming, ~c.quarantined, ~rc.quarantined, NEW n \in Nat, Led(n, rc.held)
                 PROVE  Led(n, c.held)'
    BY <1>8, <1>10, <1>11, Zenon
  <2>2. rc.holding
    BY <2>1 DEF HInv
  <2>3. c.held = Append(hs, e)
    BY <1>8, <2>1, <2>2
  <2>4. Led(n, Append(hs, e))'
    BY <1>1, <1>2, <1>7, <2>1, LedHeld, TrackerNow
  <2>. QED
    BY <2>3, <2>4
<1>15. rc.registered /\ ~rc.quarantined /\ ~rc.resuming =>
          rc.stream # 0 /\ (rc.last = 0 /\ e[1] = rc.stream => e[2] = 1)
  <2>1. SUFFICES ASSUME rc.registered, ~rc.quarantined, ~rc.resuming
                 PROVE  rc.stream # 0 /\ (rc.last = 0 /\ e[1] = rc.stream => e[2] = 1)
    OBVIOUS
  <2>2. rc.stream # 0 /\ (rc.last = 0 => Led(rc.stream, <<>>))
    BY <1>3, <2>1 DEF CInv, OnStream
  <2>3. Led(rc.stream, <<>>) /\ e[1] = rc.stream => e[2] = 1
    <3>1. ToSet(<<>>) = {}
      BY SetOfNothing
    <3>2. ~\E j \in 1..Len(wire) : j < 1 /\ Brings(wire[j], <<rc.stream, 1>>)
      OBVIOUS
    <3>. QED
      BY <1>1, <1>2, <1>3, <3>1, <3>2 DEF Led
  <2>. QED
    BY <2>2, <2>3
<1>16. c.registered /\ ~c.quarantined => ~rc.quarantined /\ Missing(c) \subseteq Missing(rc)
  <2>1. SUFFICES ASSUME c.registered, ~c.quarantined PROVE ~rc.quarantined /\ Missing(c) \subseteq Missing(rc)
    OBVIOUS
  <2>2. ~rc.quarantined /\ rc.registered
    BY <1>8, <2>1
  <2>3. rc.resuming \/ (rc.stream # 0 /\ (rc.last = 0 /\ e[1] = rc.stream => e[2] = 1))
    BY <1>15, <2>2
  <2>. QED
    BY <1>4, <1>6, <2>1, <2>2, <2>3, HandleCovers, TrackerNow
<1>17. c.registered /\ ~c.quarantined /\ ~c.resuming => c.stream # 0 /\ c.last > 0
  <2>1. SUFFICES ASSUME c.registered, ~c.quarantined, ~c.resuming PROVE c.stream # 0 /\ c.last > 0
    OBVIOUS
  <2>2. ~rc.quarantined /\ rc.registered /\ ~rc.resuming
    BY <1>8, <2>1
  <2>3. rc.stream # 0 /\ (rc.last = 0 /\ e[1] = rc.stream => e[2] = 1)
    BY <1>15, <2>2
  <2>. QED
    BY <1>4, <1>6, <2>1, <2>2, <2>3, HandleCovers, TrackerNow
<1>18. load.auth => c.named = rc.named
  BY <1>8
<1>19. /\ sock' = "opening" => c.resuming
       /\ c.registered /\ ~c.quarantined /\ ~c.resuming /\ sock' # "down" =>
             c.stream # 0 /\ (c.last = 0 => Led(c.stream, <<>>)')
  BY <1>2, <1>8, <1>12, <1>17
<1>20. asks(c) \in BOOLEAN
  BY <1>10
<1>. HIDE DEF asks
<1>. QED
  BY <1>2, <1>3, <1>8, <1>9, <1>13, <1>14, <1>16, <1>18, <1>19, <1>20, SettleCovers

\* What an answer brings closes the stretch it was asked for.
LEMMA ReplayingCovers ==
    ASSUME Typed, Sound(rc), NEW a \in Heard, a.kind = "resumed", Truthful(a), flight.own,
           rc.stream \in {0, a.stream}, a.from = rc.last
    PROVE  Missing(Replaying(a)) \subseteq Missing(rc)
<1>1. /\ rc \in Coordinators /\ rc.stream \in Nat /\ rc.last \in Nat /\ rc.applied \in Seq(Pairs)
      /\ ServerTyped
      /\ rc.stream = 0 => rc.last = 0
  BY CoordinatorFields DEF Typed, ClientTyped, Sound, Reached
<1>2. /\ Replaying(a).stream = a.stream
      /\ Replaying(a).last = IF a.upto > rc.last THEN a.upto ELSE rc.last
      /\ Replaying(a).applied = rc.applied \o Replayed(a, rc.last)
  BY ReplayingSound DEF Fits
<1>3. /\ Replayed(a, rc.last) \in Seq(Pairs)
      /\ ToSet(rc.applied \o Replayed(a, rc.last)) = ToSet(rc.applied) \cup ToSet(Replayed(a, rc.last))
  BY <1>1, ReplayedIs, SetOfConcatenated
<1>4. a.stream \in Epochs /\ a.stream \in Nat /\ a.stream # 0 /\ a.upto \in Nat /\ a.from \in Nat
  BY HeardFields, StreamsAreNumbered
<1>5. First(a, rc.last) = rc.last + 1
  BY <1>1, <1>4 DEF First
<1>6. ASSUME NEW x \in Missing(Replaying(a)) PROVE x \in Missing(rc)
  <2>1. /\ x \in Emitted /\ x[1] = a.stream /\ x[2] <= Replaying(a).last /\ x \notin known
        /\ x \notin ToSet(rc.applied) /\ x \notin ToSet(Replayed(a, rc.last))
    BY <1>2, <1>3, <1>6 DEF Missing, Past
  <2>2. x = <<a.stream, x[2]>> /\ x[2] \in Nat /\ x[2] >= 1
    BY <1>1, <2>1, EmittedIs
  <2>3. CASE x[2] <= rc.last
    <3>1. rc.stream = a.stream
      BY <1>1, <2>2, <2>3
    <3>. QED
      BY <2>1, <2>3, <3>1 DEF Missing, Past
  <2>4. CASE ~(x[2] <= rc.last)
    <3>1. x[2] <= a.upto
      BY <1>1, <1>2, <1>4, <2>1, <2>2, <2>4
    <3>. DEFINE i == x[2] - rc.last
    <3>5. PICK k \in Nat : k = x[2]
      BY <2>2
    <3>6. k > rc.last /\ k <= a.upto /\ rc.last \in Nat /\ a.upto \in Nat
      BY <1>1, <1>4, <2>4, <3>1, <3>5
    <3>7. (k - rc.last) \in 1..(a.upto + 1 - (rc.last + 1)) /\ rc.last + 1 + (k - rc.last) - 1 = k
      BY <3>6
    <3>2. i \in 1..(a.upto + 1 - First(a, rc.last)) /\ First(a, rc.last) + i - 1 = x[2]
      BY <1>5, <3>5, <3>7
    <3>3. Replayed(a, rc.last)[i] = x /\ i \in DOMAIN Replayed(a, rc.last)
      BY <2>2, <3>2 DEF Replayed
    <3>4. x \in ToSet(Replayed(a, rc.last))
      BY <3>3 DEF ToSet
    <3>. QED
      BY <2>1, <3>4
  <2>. QED
    BY <2>3, <2>4
<1>. QED
  BY <1>6

\* Where a backfill leaves the cursor, with the held events behind it.
LEMMA LandedCovers ==
    ASSUME Typed, Sound(rc), NEW a \in Heard, a.kind = "resumed", Truthful(a), flight.own,
           rc.stream \in {0, a.stream}, a.from = rc.last, a.from <= a.upto,
           a.upto = 0 => Led(a.stream, rc.held)
    PROVE  \/ Landed(a).quarantined
           \/ /\ Missing(Landed(a)) \subseteq Missing(rc)
              /\ Landed(a).stream = a.stream
              /\ \/ Landed(a).last > 0
                 \/ Landed(a).last = 0 /\ Led(a.stream, <<>>)
<1>. DEFINE d == Replaying(a)
<1>1. /\ d \in Coordinators /\ Sound(d) /\ d.held = rc.held /\ d.stream = a.stream
      /\ d.last = IF a.upto > rc.last THEN a.upto ELSE rc.last
  BY ReplayingSound DEF Fits
<1>2. Missing(d) \subseteq Missing(rc)
  BY ReplayingCovers
<1>3. Landed(a) = Flush(d)
  BY DEF Landed, Replaying
<1>4. /\ a.stream \in Nat /\ a.stream # 0 /\ a.upto \in Nat /\ rc.last \in Nat /\ ServerTyped
      /\ d.held \in Seq(Pairs) /\ Len(d.held) \in Nat
  BY <1>1, HeardFields, StreamsAreNumbered, CoordinatorFields DEF Typed, ClientTyped
<1>. HIDE DEF d
<1>5. d.last = a.upto
  BY <1>1, <1>4
<1>6. d.last = 0 /\ Len(d.held) > 0 /\ d.held[1][1] = d.stream => d.held[1][2] = 1
  <2>1. SUFFICES ASSUME d.last = 0, Len(d.held) > 0, d.held[1][1] = d.stream PROVE d.held[1][2] = 1
    OBVIOUS
  <2>2. Led(a.stream, d.held) /\ 1 \in 1..Len(d.held)
    BY <1>1, <1>4, <1>5, <2>1
  <2>3. ~\E j \in 1..Len(d.held) : j < 1 /\ d.held[j] = <<a.stream, 1>>
    OBVIOUS
  <2>. QED
    BY <1>1, <2>1, <2>2, <2>3 DEF Led
<1>7. \/ Flush(d).quarantined
      \/ /\ Missing(Flush(d)) \subseteq Missing(d)
         /\ Flush(d).stream = d.stream
         /\ Flush(d).last > 0 \/ (Flush(d).last = d.last /\ Len(d.held) = 0)
  BY <1>1, <1>4, <1>6, FlushCovers
<1>8. Len(d.held) = 0 => rc.held = <<>>
  BY <1>1, <1>4, EmptySeq
<1>9. d.last = 0 /\ Len(d.held) = 0 => Led(a.stream, <<>>)
  BY <1>5, <1>8
<1>10. d.last > 0 \/ d.last = 0
  BY <1>4, <1>5
<1>. QED
  BY <1>1, <1>2, <1>3, <1>7, <1>9, <1>10

LEMMA ResumeSucceedsCovers == ASSUME TInv, OInv, HInv, CInv, ResumeSucceeds PROVE CInv'
<1>1. PICK a : a = Head(wire)
  OBVIOUS
<1>2. /\ wire # <<>> /\ a.kind = "resumed" /\ flight.live /\ flight.id = a.id
      /\ sock' = Opened /\ wire' = Tail(wire)
      /\ UNCHANGED <<epoch, ends, attached, answers>>
  BY <1>1 DEF ResumeSucceeds, server
<1>3. /\ a \in Traffic /\ a \in Heard /\ ToSet(wire') \subseteq ToSet(wire) /\ sock' # "opening"
      /\ a.stream \in Nat /\ a.stream # 0
  BY <1>1, <1>2, Dropped, HeardFields, StreamsAreNumbered, TrackerNow DEF Opened
<1>4. Truthful(a) /\ OfFlight(a) /\ flight.own /\ Fits(a) /\ rc.resuming
  BY <1>2, <1>3 DEF TInv, Honest, Matching, Flying, OInv, OfFlight, Backfills, Fits
<1>5. /\ rc.stream \in {0, a.stream} /\ a.from = rc.last /\ a.from <= a.upto
      /\ a.upto = 0 /\ ~rc.quarantined => Led(a.stream, rc.held)
  BY <1>2, <1>3, <1>4 DEF CInv, Asking
<1>6. PICK c \in Coordinators : c = Landed(a)
  BY <1>2, <1>3, <1>4, LandedSound, TrackerNow
<1>7. /\ Sound(c) /\ c.registered = rc.registered /\ c.named = rc.named
      /\ ~c.resuming \/ ~c.quarantined
      /\ rc.quarantined => c.quarantined
  BY <1>2, <1>3, <1>4, <1>6, LandedSound, TrackerNow DEF SameBut
<1>8. ~c.quarantined => /\ ~rc.quarantined /\ Missing(c) \subseteq Missing(rc) /\ c.stream = a.stream
                        /\ c.last > 0 \/ (c.last = 0 /\ Led(c.stream, <<>>))
  BY <1>2, <1>3, <1>4, <1>5, <1>6, <1>7, LandedCovers, TrackerNow
<1>9. ~c.quarantined /\ c.last = 0 => Led(c.stream, <<>>)'
  <2>1. SUFFICES ASSUME ~c.quarantined, c.last = 0 PROVE Led(c.stream, <<>>)'
    OBVIOUS
  <2>2. Led(c.stream, <<>>)
    BY <1>8, <2>1
  <2>3. Head(wire).kind # "event"
    BY <1>1, <1>2
  <2>. QED
    BY <1>2, <2>2, <2>3, LedTail, TrackerNow
<1>10. c.resuming \in BOOLEAN
  BY CoordinatorFields
<1>11. c.registered /\ ~c.quarantined /\ ~c.resuming /\ sock' # "down" =>
          c.stream # 0 /\ (c.last = 0 => Led(c.stream, <<>>)')
  BY <1>3, <1>8, <1>9
<1>12. \/ c.quarantined /\ Select(c, TRUE)
       \/ load.phase = "attaching" /\ load' = Fetching(load.auth) /\ Become(c, c.resuming, <<HistoryCall>>)
       \/ load' = load /\ ui' = ui /\ Become(c, c.resuming, <<>>)
  BY <1>1, <1>6 DEF ResumeSucceeds
<1>13. CASE c.quarantined /\ Select(c, TRUE)
  <2>1. ~c.resuming
    BY <1>7, <1>13
  <2>. QED
    BY <1>2, <1>3, <1>7, <1>13, <2>1, SelectCovers
<1>14. CASE load.phase = "attaching" /\ load' = Fetching(load.auth) /\ Become(c, c.resuming, <<HistoryCall>>)
  <2>1. load' # NoLoad /\ load'.phase = "fetching" /\ load'.id = HistoryId
    BY <1>14 DEF Fetching, NoLoad
  <2>. QED
    BY <1>2, <1>3, <1>10, <1>11, <1>14, <2>1, BecomeCovers
<1>15. CASE load' = load /\ ui' = ui /\ Become(c, c.resuming, <<>>)
  <2>1. c.registered /\ ~c.quarantined =>
          /\ load' = NoLoad /\ ui' = "ready" => Missing(c) = {}
          /\ load' = load /\ rc.registered /\ ~rc.quarantined /\ Missing(c) \subseteq Missing(rc)
    <3>1. SUFFICES ASSUME c.registered, ~c.quarantined
                   PROVE  /\ load' = NoLoad /\ ui' = "ready" => Missing(c) = {}
                          /\ load' = load /\ rc.registered /\ ~rc.quarantined /\ Missing(c) \subseteq Missing(rc)
      OBVIOUS
    <3>2. rc.registered /\ ~rc.quarantined /\ Missing(c) \subseteq Missing(rc)
      BY <1>7, <1>8, <3>1
    <3>3. load = NoLoad /\ ui = "ready" => Missing(rc) = {}
      BY <3>2 DEF CInv, Repaired
    <3>. QED
      BY <1>15, <3>2, <3>3
  <2>2. load'.auth => load' = load /\ c.named = rc.named
    BY <1>7, <1>15
  <2>. QED
    BY <1>2, <1>3, <1>10, <1>11, <1>15, <2>1, <2>2, BecomeCovers
<1>. QED
  BY <1>12, <1>13, <1>14, <1>15

LEMMA ResumeRefusedCovers == ASSUME TInv, HInv, CInv, ResumeRefused PROVE CInv'
<1>1. PICK a : a = Head(wire)
  OBVIOUS
<1>2. /\ wire # <<>> /\ a.kind = "refused" /\ flight.live /\ flight.id = a.id
      /\ Settle(Refused(a), FALSE) /\ sock' = Opened /\ wire' = Tail(wire)
      /\ UNCHANGED <<epoch, ends, answers>>
  BY <1>1 DEF ResumeRefused, server
<1>3. a \in Traffic /\ a \in Heard /\ ToSet(wire') \subseteq ToSet(wire) /\ sock' # "opening"
  BY <1>1, <1>2, Dropped, TrackerNow DEF Opened
<1>4. Truthful(a) /\ OfFlight(a) /\ rc.resuming
  BY <1>2, <1>3 DEF TInv, Honest, Flying, OfFlight, Backfills
<1>5. PICK c \in Coordinators : c = Refused(a)
  BY <1>2, <1>3, <1>4, RefusedSound, TrackerNow
<1>6. /\ Sound(c) /\ ~c.resuming /\ c.quarantined /\ c.registered = rc.registered
      /\ c.named = <<a.stream, a.upto>>
  BY <1>2, <1>3, <1>4, <1>5, RefusedSound, TrackerNow
<1>7. load.phase # "recovering"
  BY <1>4 DEF HInv
<1>8. Settle(c, FALSE)
  BY <1>2, <1>5
<1>9. load.auth =>
        /\ load.phase # "recovering"
        /\ \E x \in Traffic : OfFlight(x) /\ x.kind = "refused" /\ c.named = <<x.stream, x.upto>>
  BY <1>2, <1>3, <1>4, <1>6, <1>7
<1>. QED
  BY <1>2, <1>3, <1>6, <1>8, <1>9, SettleCovers

LEMMA AckRefusedCovers == ASSUME TInv, HInv, CInv, AckRefused PROVE CInv'
<1>1. /\ wire # <<>> /\ wire' = Tail(wire) /\ Settle(RequireResync(rc), FALSE)
      /\ UNCHANGED <<epoch, ends, sock, answers>>
  BY DEF AckRefused, server
<1>2. ToSet(wire') \subseteq ToSet(wire)
  BY <1>1, Dropped, TrackerNow
<1>3. PICK c \in Coordinators : c = RequireResync(rc)
  BY RequireResyncSound, TrackerNow
<1>4. /\ Sound(c) /\ c.registered = rc.registered /\ c.named = rc.named
      /\ c.resuming = rc.resuming /\ c.quarantined /\ c.stream = rc.stream /\ c.last = rc.last
  BY <1>3, RequireResyncSound, TrackerNow DEF SameBut
<1>5. sock' = "opening" => c.resuming
  BY <1>1, <1>4 DEF CInv, TInv, Flying
<1>6. c.resuming => flight.live
  BY <1>4, TrackerNow
<1>7. Settle(c, FALSE)
  BY <1>1, <1>3
<1>. QED
  BY <1>1, <1>2, <1>4, <1>5, <1>6, <1>7, SettleCovers

---------------------------------------------------------------------------
(* Timers, the host and the user                                           *)

LEMMA ResyncCompletesCovers == ASSUME TInv, HInv, CInv, ResyncCompletes PROVE CInv'
<1>. DEFINE c == CompleteResync(rc)
            s == IF sock = "up" THEN ResumeAll(c) ELSE c
            asks == s.resuming /\ ~rc.resuming
<1>1. /\ load.phase = "recovering" /\ Become(s, asks, <<>>) /\ load' = NoLoad
      /\ UNCHANGED <<epoch, ends, sock, answers, wire>>
  BY DEF ResyncCompletes, server
<1>2. ~rc.resuming /\ sock # "opening" /\ load.auth
  BY <1>1 DEF HInv, CInv, TInv, Flying
<1>3. /\ c \in Coordinators /\ Sound(c) /\ ~c.quarantined /\ ~c.resuming /\ c.applied = <<>>
      /\ c.stream = rc.named[1] /\ c.last = rc.named[2]
  BY <1>2, CompleteResyncSound, TrackerNow
<1>. HIDE DEF c
<1>4. /\ s \in Coordinators /\ s.stream = c.stream /\ s.last = c.last /\ s.applied = c.applied
      /\ sock = "up" /\ s.registered => s.resuming
  BY <1>3, ResumeAllSound DEF SameBut, Resumable
<1>5. PICK z \in Coordinators : z = s
  BY <1>4
<1>. HIDE DEF s
<1>6. asks \in BOOLEAN /\ (asks => z.resuming) /\ (z.resuming => asks) /\ Become(z, asks, <<>>)
  BY <1>1, <1>2, <1>4, <1>5, CoordinatorFields, TrackerNow
<1>7. Missing(z) = {}
  <2>1. Past(rc.named[1], rc.named[2]) \subseteq known
    BY <1>1, <1>2 DEF CInv, NamedCovered
  <2>2. z.stream = rc.named[1] /\ z.last = rc.named[2]
    BY <1>3, <1>4, <1>5
  <2>. QED
    BY <2>1, <2>2 DEF Missing
<1>8. ~load'.auth /\ load'.phase # "fetching"
  BY <1>1 DEF NoLoad
<1>9. /\ sock' = "opening" => z.resuming
      /\ z.registered /\ ~z.quarantined /\ ~z.resuming /\ sock' # "down" =>
           z.stream # 0 /\ (z.last = 0 => Led(z.stream, <<>>)')
  <2>1. sock' = "up" \/ sock' = "down"
    BY <1>1, <1>2, TrackerNow
  <2>2. sock' = "up" /\ z.registered => z.resuming
    BY <1>1, <1>4, <1>5
  <2>. QED
    BY <2>1, <2>2
<1>10. ToSet(wire') \subseteq ToSet(wire)
  BY <1>1
<1>. HIDE DEF asks
<1>. QED
  BY <1>1, <1>6, <1>7, <1>8, <1>9, <1>10, BecomeCovers

LEMMA DialCovers == ASSUME TInv, HInv, CInv, Dial PROVE CInv'
<1>. DEFINE c == ResumeAll(rc)
            asks == c.resuming /\ ~rc.resuming
<1>1. /\ sock = "down" /\ Become(c, asks, <<>>) /\ sock' = (IF asks THEN "opening" ELSE "up")
      /\ UNCHANGED <<epoch, ends, answers, wire, load, ui>>
  BY DEF Dial, server
<1>2. /\ c \in Coordinators /\ SameBut(rc, c) /\ c.quarantined = rc.quarantined /\ ~rc.resuming
      /\ c.stream = rc.stream /\ c.last = rc.last /\ c.applied = rc.applied
      /\ Resumable(rc) => c.resuming
  BY <1>1, ResumeAllSound, TrackerNow
<1>3. PICK z \in Coordinators : z = c
  BY <1>2
<1>. HIDE DEF c
<1>4. asks \in BOOLEAN /\ (asks => z.resuming) /\ (z.resuming => asks) /\ Become(z, asks, <<>>)
  BY <1>1, <1>2, <1>3, CoordinatorFields
<1>5. Missing(z) = Missing(rc) /\ z.registered = rc.registered /\ z.named = rc.named
      /\ z.quarantined = rc.quarantined
  BY <1>2, <1>3 DEF Missing, SameBut
<1>6. z.registered /\ ~z.quarantined => z.resuming
  BY <1>2, <1>3, <1>5 DEF Resumable
<1>7. sock' = "opening" => z.resuming
  BY <1>1, <1>4
<1>8. z.registered /\ ~z.quarantined =>
        /\ load' = NoLoad /\ ui' = "ready" => Missing(z) = {}
        /\ load' = load /\ rc.registered /\ ~rc.quarantined /\ Missing(z) \subseteq Missing(rc)
  <2>1. SUFFICES ASSUME z.registered, ~z.quarantined
                 PROVE  /\ load' = NoLoad /\ ui' = "ready" => Missing(z) = {}
                        /\ load' = load /\ rc.registered /\ ~rc.quarantined /\ Missing(z) \subseteq Missing(rc)
    OBVIOUS
  <2>2. rc.registered /\ ~rc.quarantined
    BY <1>5, <2>1
  <2>3. load = NoLoad /\ ui = "ready" => Missing(rc) = {}
    BY <2>2 DEF CInv, Repaired
  <2>. QED
    BY <1>1, <1>5, <2>2, <2>3
<1>9. load'.auth => load' = load /\ z.named = rc.named
  BY <1>1, <1>5
<1>10. ToSet(wire') \subseteq ToSet(wire)
  BY <1>1
<1>. HIDE DEF asks
<1>. QED
  BY <1>1, <1>4, <1>6, <1>7, <1>8, <1>9, <1>10, BecomeCovers

LEMMA OpenCovers == ASSUME TInv, CInv, Open PROVE CInv'
<1>1. UNCHANGED <<epoch, ends, attached, sock, answers, wire>>
  BY DEF Open, server
<1>2. CASE sock # "down" /\ Select(rc, FALSE)
  <2>1. PICK c \in Coordinators : c = rc
    BY TrackerNow
  <2>2. Select(c, FALSE) /\ Sound(c)
    BY <1>2, <2>1, TrackerNow
  <2>3. c.resuming =>
          /\ flight.live /\ c.stream = rc.stream /\ c.last = rc.last
          /\ ~c.quarantined => ~rc.quarantined /\ \A n \in Nat : Led(n, rc.held) => Led(n, c.held)'
    <3>1. \A n, hs : Led(n, hs) => Led(n, hs)'
      BY <1>1 DEF Led, Brings
    <3>. QED
      BY <2>1, <3>1, TrackerNow
  <2>4. (sock' = "opening" => c.resuming) /\ (c.resuming \/ sock = "up")
    BY <1>1, <1>2, <2>1, TrackerNow DEF CInv
  <2>5. ToSet(wire') \subseteq ToSet(wire)
    BY <1>1
  <2>. QED
    BY <1>1, <2>2, <2>3, <2>4, <2>5, SelectCovers
<1>3. CASE sock = "down" /\ rc' = [rc EXCEPT !.registered = TRUE] /\ ui' = "error" /\ load' = NoLoad
           /\ UNCHANGED <<calls, flight, known>>
  <2>1. Traffic' = {}
    BY <1>1, <1>3 DEF TInv, Quiet, Traffic
  <2>2. rc'.applied = rc.applied /\ sock' = "down" /\ ui' = "error" /\ ~load'.auth
    BY <1>1, <1>3, TrackerNow DEF NoLoad, Coordinators
  <2>. QED
    BY <1>3, <2>1, <2>2 DEF CInv, Asking, OnStream, Repaired, NamedCovered
<1>. QED
  BY <1>2, <1>3 DEF Open

LEMMA DropCovers == ASSUME TInv, HInv, CInv, Drop PROVE CInv'
<1>1. /\ rc' = (IF flight.live THEN Retry(rc) ELSE rc)
      /\ sock' = "down" /\ calls' = <<>> /\ answers' = <<>> /\ wire' = <<>>
      /\ \/ load' = NoLoad /\ ui' = "error"
         \/ load.phase \notin {"attaching", "fetching"} /\ load' = load /\ ui' = ui
      /\ UNCHANGED <<ends, known>>
  BY DEF Drop
<1>2. /\ rc'.registered = rc.registered /\ rc'.named = rc.named /\ rc'.quarantined = rc.quarantined
      /\ rc'.stream = rc.stream /\ rc'.last = rc.last /\ rc'.applied = rc.applied
  BY <1>1, RetrySound, TrackerNow DEF SameBut
<1>3. Traffic' = {}
  BY <1>1 DEF Traffic, ToSet
<1>4. Emitted' = Emitted
  BY <1>1 DEF Emitted
<1>5. Missing(rc)' = Missing(rc) /\ \A s, n : Past(s, n)' = Past(s, n)
  BY <1>1, <1>2, <1>4 DEF Missing, Past
<1>6. Repaired'
  BY <1>1, <1>2, <1>3, <1>5 DEF CInv, Repaired
<1>7. NamedCovered'
  <2>1. SUFFICES ASSUME load'.auth, load'.phase = "recovering"
                 PROVE  Past(rc.named[1], rc.named[2]) \subseteq known
    BY <1>1, <1>2, <1>3, <1>5 DEF NamedCovered
  <2>2. load' = load
    BY <1>1, <2>1 DEF NoLoad
  <2>. QED
    BY <2>1, <2>2 DEF CInv, NamedCovered
<1>. QED
  BY <1>1, <1>2, <1>3, <1>6, <1>7 DEF CInv, Asking, OnStream

LEMMA LeaveCovers == ASSUME Calm, TInv, CInv, Leave PROVE CInv'
<1>1. ~rc.resuming /\ ~flight.live /\ sock # "opening"
  BY TrackerNow DEF Leave, CInv
<1>2. rc' = Unregister(rc) /\ flight' = flight /\ load' = NoLoad /\ sock' = sock
  BY <1>1 DEF Leave
<1>3. ~rc'.registered /\ rc'.applied = <<>>
  BY <1>2 DEF Unregister, Fresh
<1>4. ToSet(rc'.applied) = {}
  BY <1>3, SetOfNothing
<1>5. \A m : ~OfFlight(m)'
  BY <1>1, <1>2 DEF OfFlight
<1>. QED
  BY <1>1, <1>2, <1>3, <1>4, <1>5 DEF CInv, Asking, OnStream, Repaired, NamedCovered, NoLoad

---------------------------------------------------------------------------
(* Steps that leave the tracker alone                                      *)

LEMMA StillCovers ==
    ASSUME TInv, CInv, UNCHANGED <<rc, flight, sock, load, ui>>, known \subseteq known',
           \A s, n : Reached(s, n) => Past(s, n)' = Past(s, n),
           \A n \in 1..epoch : \A hs \in Seq(Pairs) : Led(n, hs) => Led(n, hs)',
           \A m \in Traffic' : m \in Traffic \/
             /\ m.kind # "resume"
             /\ OfFlight(m) /\ m.kind = "resumed" =>
                  /\ rc.stream \in {0, m.stream} /\ m.from = rc.last /\ m.from <= m.upto
                  /\ m.upto = 0 /\ ~rc.quarantined => Led(m.stream, rc.held)'
             /\ OfLoad(m) /\ m.kind = "transcript" => m.seen = Emitted
             /\ OfFlight(m) /\ m.kind = "refused" /\ load.auth =>
                  \A t \in Traffic' : ~(OfLoad(t) /\ t.kind = "transcript")
    PROVE  CInv'
<1>1. rc \in Coordinators /\ rc.held \in Seq(Pairs) /\ rc.stream \in Nat
  BY TrackerNow, CoordinatorFields
<1>2. /\ Past(rc.stream, rc.last)' = Past(rc.stream, rc.last)
      /\ Past(rc.named[1], rc.named[2])' = Past(rc.named[1], rc.named[2])
  <2>1. Reached(rc.stream, rc.last) /\ Reached(rc.named[1], rc.named[2])
    BY TrackerNow DEF Sound
  <2>. QED
    BY <2>1
<1>3. \A a \in Traffic : a.kind \in {"resumed", "refused"} =>
         a.stream \in 1..epoch /\ a.upto \in Nat /\ Reached(a.stream, a.upto)
  <2>1. SUFFICES ASSUME NEW a \in Traffic, a.kind \in {"resumed", "refused"}
                 PROVE  a.stream \in 1..epoch /\ a.upto \in Nat /\ Reached(a.stream, a.upto)
    OBVIOUS
  <2>2. a.stream \in Epochs /\ a.upto \in Nat /\ a.stream \in Nat /\ a.stream >= 1
    BY <2>1, TrafficTyped, TrackerNow, AskedFields, HeardFields, StreamsAreNumbered
  <2>3. a.stream <= epoch /\ a.upto <= ends[a.stream] /\ epoch \in Nat
    BY <2>1, StreamsAreNumbered DEF TInv, Honest, Truthful, Typed, ServerTyped
  <2>. QED
    BY <2>2, <2>3 DEF Reached
<1>4. Missing(rc)' \subseteq Missing(rc)
  BY <1>2 DEF Missing
<1>5. \A s, n : Past(s, n) \subseteq Emitted
  BY DEF Past
<1>6. Asking'
  <2>1. SUFFICES ASSUME NEW m \in Traffic', OfFlight(m)
                 PROVE  /\ m.kind = "resume" => m.stream = rc.stream /\ m.from = rc.last
                        /\ m.kind = "resumed" => /\ rc.stream \in {0, m.stream} /\ m.from = rc.last
                                                 /\ m.from <= m.upto
                                                 /\ m.upto = 0 /\ ~rc.quarantined => Led(m.stream, rc.held)'
    BY DEF Asking, OfFlight
  <2>2. CASE m \in Traffic
    <3>1. /\ m.kind = "resume" => m.stream = rc.stream /\ m.from = rc.last
          /\ m.kind = "resumed" => /\ rc.stream \in {0, m.stream} /\ m.from = rc.last /\ m.from <= m.upto
                                   /\ m.upto = 0 /\ ~rc.quarantined => Led(m.stream, rc.held)
      BY <2>1, <2>2 DEF CInv, Asking
    <3>2. m.kind = "resumed" => m.stream \in 1..epoch
      BY <1>3, <2>2
    <3>3. m.kind = "resumed" /\ Led(m.stream, rc.held) => Led(m.stream, rc.held)'
      BY <1>1, <3>2
    <3>. QED
      BY <3>1, <3>3
  <2>3. CASE m \notin Traffic
    BY <2>1, <2>3
  <2>. QED
    BY <2>2, <2>3
<1>7. OnStream'
  <2>1. SUFFICES ASSUME rc.registered, ~rc.quarantined, ~rc.resuming, sock # "down"
                 PROVE  rc.stream # 0 /\ (rc.last = 0 => Led(rc.stream, <<>>)')
    BY DEF OnStream
  <2>2. rc.stream # 0 /\ (rc.last = 0 => Led(rc.stream, <<>>))
    BY <2>1 DEF CInv, OnStream
  <2>3. rc.stream \in 1..epoch /\ <<>> \in Seq(Pairs)
    <3>1. rc.stream \in 0..epoch
      BY TrackerNow DEF Sound, Reached
    <3>. QED
      BY <1>1, <2>2, <3>1
  <2>. QED
    BY <2>2, <2>3
<1>8. Repaired'
  <2>1. SUFFICES ASSUME rc.registered, ~rc.quarantined
                 PROVE  /\ load = NoLoad /\ ui = "ready" => Missing(rc)' = {}
                        /\ \A t \in Traffic' : OfLoad(t) /\ t.kind = "transcript" => Missing(rc)' \subseteq t.seen
    BY DEF Repaired, OfLoad
  <2>2. /\ load = NoLoad /\ ui = "ready" => Missing(rc) = {}
        /\ \A t \in Traffic : OfLoad(t) /\ t.kind = "transcript" => Missing(rc) \subseteq t.seen
    BY <2>1 DEF CInv, Repaired
  <2>3. Missing(rc) \subseteq Emitted
    BY <1>5 DEF Missing
  <2>. QED
    BY <1>4, <2>2, <2>3
<1>9. NamedCovered'
  <2>1. SUFFICES ASSUME load.auth
                 PROVE  /\ load.phase = "recovering" => Past(rc.named[1], rc.named[2]) \subseteq known'
                        /\ \A t \in Traffic' : OfLoad(t) /\ t.kind = "transcript" =>
                             /\ Past(rc.named[1], rc.named[2]) \subseteq t.seen
                             /\ \A a \in Traffic' : OfFlight(a) /\ a.kind = "refused" =>
                                  Past(a.stream, a.upto)' \subseteq t.seen
    BY <1>2 DEF NamedCovered, OfLoad, OfFlight
  <2>2. /\ load.phase = "recovering" => Past(rc.named[1], rc.named[2]) \subseteq known
        /\ \A t \in Traffic : OfLoad(t) /\ t.kind = "transcript" =>
             /\ Past(rc.named[1], rc.named[2]) \subseteq t.seen
             /\ \A a \in Traffic : OfFlight(a) /\ a.kind = "refused" => Past(a.stream, a.upto) \subseteq t.seen
    BY <2>1 DEF CInv, NamedCovered
  <2>3. ASSUME NEW t \in Traffic', OfLoad(t), t.kind = "transcript"
        PROVE  /\ Past(rc.named[1], rc.named[2]) \subseteq t.seen
               /\ \A a \in Traffic' : OfFlight(a) /\ a.kind = "refused" => Past(a.stream, a.upto)' \subseteq t.seen
    <3>1. \A a \in Traffic' : OfFlight(a) /\ a.kind = "refused" => a \in Traffic
      BY <2>1, <2>3
    <3>2. \A a \in Traffic : a.kind = "refused" => Past(a.stream, a.upto)' = Past(a.stream, a.upto)
      BY <1>3
    <3>3. CASE t \in Traffic
      BY <2>2, <2>3, <3>1, <3>2, <3>3
    <3>4. CASE t \notin Traffic
      <4>1. t.seen = Emitted
        BY <2>3, <3>4
      <4>. QED
        BY <1>5, <3>1, <3>2, <4>1
    <3>. QED
      BY <3>3, <3>4
  <2>. QED
    BY <2>1, <2>2, <2>3
<1>10. (sock' = "opening" => flight'.live) /\ ToSet(rc'.applied) \subseteq known'
  BY DEF CInv
<1>. QED
  BY <1>6, <1>7, <1>8, <1>9, <1>10 DEF CInv

\* Live events do not wait among the answers.
Replies == \A m \in ToSet(answers) : m.kind # "event"

LEMMA StepReplies == ASSUME TInv, Replies, [Next]_vars PROVE Replies'
<1>1. CASE UNCHANGED answers
  BY <1>1 DEF Replies
<1>2. ASSUME NEW i \in DOMAIN calls, Serve(i) PROVE Replies'
  <2>1. /\ calls \in Seq(Asked) /\ answers \in Seq(Heard) /\ calls[i] \in Asked
        /\ calls[i] \in ToSet(calls)
    BY SetOfRemoved DEF TInv, Typed, PipesTyped
  <2>2. Truthful(calls[i])
    BY <2>1 DEF Traffic, TInv, Honest
  <2>3. Reply(calls[i]) \in Seq(Heard) /\ \A x \in ToSet(Reply(calls[i])) : x.kind # "event"
    BY <2>1, <2>2, ReplyTyped DEF TInv
  <2>4. ToSet(answers \o Reply(calls[i])) = ToSet(answers) \cup ToSet(Reply(calls[i]))
    BY <2>1, <2>3, SetOfConcatenated
  <2>. QED
    BY <1>2, <2>3, <2>4 DEF Replies, Serve
<1>3. ASSUME NEW i \in DOMAIN answers, SendAnswer(i) PROVE Replies'
  <2>0. answers \in Seq(Heard) /\ i \in 1..Len(answers)
    BY DEF TInv, Typed, PipesTyped
  <2>1. ToSet(RemoveAt(answers, i)) \subseteq ToSet(answers)
    BY <2>0, SetOfRemoved
  <2>. QED
    BY <1>3, <2>1 DEF Replies, SendAnswer
<1>4. CASE Drop
  BY <1>4, SetOfNothing DEF Drop, Replies
<1>5. CASE UNCHANGED vars \/ Emit \/ NewEpoch \/ Compact \/ Receive \/ AckFires \/ ResyncCompletes
           \/ ResumeTimesOut \/ HistoryTimesOut \/ Dial \/ Open \/ Leave
  <2>1. UNCHANGED answers
    BY <1>5 DEF vars, pipes, Emit, NewEpoch, Compact, Receive, ReceiveEvent, ResumeSucceeds, ResumeRefused,
       TranscriptLoads, AckRefused, LateAnswer, AckFires, ResyncCompletes, ResumeTimesOut, HistoryTimesOut,
       Dial, Open, Leave
  <2>. QED
    BY <1>1, <2>1
<1>. QED
  BY <1>2, <1>3, <1>4, <1>5 DEF Next

LEMMA EmitCovers == ASSUME ~LosesFirst, TInv, CInv, Emit PROVE CInv'
<1>1. /\ UNCHANGED <<epoch, sock, calls, answers, rc, flight, load, ui, known>>
      /\ ends' = [ends EXCEPT ![epoch] = @ + 1]
      /\ wire' = Append(wire, [kind |-> "event", id |-> 0, event |-> <<epoch, ends'[epoch]>>]) \/ wire' = wire
  BY DEF Emit
<1>2. ServerTyped /\ ServerTyped' /\ epoch \in Nat
  BY EmitTyped, TrackerNow, StreamsAreNumbered DEF TInv, Typed, ServerTyped
<1>3. \A n \in Epochs : ends[n] <= ends'[n]
  BY <1>1, <1>2 DEF ServerTyped
<1>4. \A s, n : Reached(s, n) => Past(s, n)' = Past(s, n)
  BY <1>1, <1>2, <1>3, PastKept
<1>5. \A n, hs : Led(n, hs) => Led(n, hs)'
  BY LedEmit
<1>6. \A m \in Traffic' : m \in Traffic \/ m.kind = "event"
  <2>. DEFINE x == [kind |-> "event", id |-> 0, event |-> <<epoch, ends'[epoch]>>]
  <2>1. x \in Heard /\ x.kind = "event"
    <3>1. epoch \in Epochs /\ ends'[epoch] \in Nat
      BY <1>1, <1>2 DEF ServerTyped
    <3>. QED
      BY <3>1 DEF Heard, Pairs
  <2>. HIDE DEF x
  <2>2. ToSet(Append(wire, x)) = ToSet(wire) \cup {x}
    BY <2>1, SetOfAppended, TrackerNow DEF PipesTyped
  <2>3. ToSet(wire') \subseteq ToSet(wire) \cup {x}
    BY <1>1, <2>2 DEF x
  <2>. QED
    BY <1>1, <2>1, <2>3 DEF Traffic
<1>. QED
  BY <1>1, <1>4, <1>5, <1>6, StillCovers

LEMMA NewEpochCovers == ASSUME TInv, CInv, NewEpoch PROVE CInv'
<1>1. /\ UNCHANGED <<ends, attached, sock, calls, answers, wire, rc, flight, load, ui, known>>
      /\ epoch' = epoch + 1
  BY DEF NewEpoch, pipes
<1>2. epoch \in Nat
  BY TrackerNow, StreamsAreNumbered DEF ServerTyped
<1>3. \A n \in 1..epoch : \A hs : Led(n, hs) => Led(n, hs)'
  <2>1. SUFFICES ASSUME NEW n \in 1..epoch, NEW hs, Led(n, hs) PROVE Led(n, hs)'
    BY Zenon
  <2>2. n # epoch + 1
    BY <1>2
  <2>3. \A m, e : Brings(m, e)' <=> Brings(m, e)
    BY DEF Brings
  <2>. QED
    BY <1>1, <2>1, <2>2, <2>3 DEF Led
<1>4. Traffic' = Traffic /\ Emitted' = Emitted
  BY <1>1 DEF Traffic, Emitted
<1>5. \A s, n : Past(s, n)' = Past(s, n)
  BY <1>4 DEF Past
<1>. QED
  BY <1>1, <1>3, <1>4, <1>5, StillCovers

LEMMA CompactCovers == ASSUME TInv, CInv, Compact PROVE CInv'
<1>1. UNCHANGED <<epoch, ends, attached, sock, calls, answers, wire, rc, flight, load, ui, known>>
  BY DEF Compact, pipes
<1>2. \A n, hs : Led(n, hs) => Led(n, hs)'
  BY <1>1 DEF Led, Brings
<1>3. Traffic' = Traffic /\ Emitted' = Emitted
  BY <1>1 DEF Traffic, Emitted
<1>4. \A s, n : Past(s, n)' = Past(s, n)
  BY <1>3 DEF Past
<1>. QED
  BY <1>1, <1>2, <1>3, <1>4, StillCovers

LEMMA SendAnswerCovers ==
    ASSUME TInv, Replies, CInv, NEW i \in DOMAIN answers, SendAnswer(i) PROVE CInv'
<1>1. /\ UNCHANGED <<epoch, ends, attached, sock, calls, rc, flight, load, ui, known>>
      /\ answers' = RemoveAt(answers, i) /\ wire' = Append(wire, answers[i])
  BY DEF SendAnswer, server
<1>2. /\ answers[i] \in Heard /\ answers[i] \in ToSet(answers)
      /\ ToSet(RemoveAt(answers, i)) \subseteq ToSet(answers)
  BY SetOfRemoved DEF TInv, Typed, PipesTyped
<1>3. answers[i].kind # "event"
  BY <1>2 DEF Replies
<1>4. ToSet(wire') = ToSet(wire) \cup {answers[i]}
  BY <1>1, <1>2, SetOfAppended, TrackerNow DEF PipesTyped
<1>5. Traffic' \subseteq Traffic
  BY <1>1, <1>2, <1>4 DEF Traffic
<1>6. PICK m \in Heard : m = answers[i]
  BY <1>2
<1>7. \A n, hs : Led(n, hs) => Led(n, hs)'
  BY <1>1, <1>3, <1>6, LedMore, TrackerNow
<1>8. Emitted' = Emitted
  BY <1>1 DEF Emitted
<1>9. \A s, n : Past(s, n)' = Past(s, n)
  BY <1>8 DEF Past
<1>. QED
  BY <1>1, <1>5, <1>7, <1>9, StillCovers

LEMMA ServeCovers == ASSUME InOrder, TInv, HInv, CInv, NEW i \in DOMAIN calls, Serve(i) PROVE CInv'
<1>. DEFINE r(m) == Reply(m)
<1>1. calls \in Seq(Asked) /\ answers \in Seq(Heard) /\ i \in 1..Len(calls)
  BY DEF TInv, Typed, PipesTyped
<1>2. PICK m \in Asked : m = calls[i]
  BY <1>1
<1>3. /\ m \in ToSet(calls) /\ m \in Traffic /\ Truthful(m) /\ ToSet(RemoveAt(calls, i)) \subseteq ToSet(calls)
  BY <1>1, <1>2, SetOfRemoved DEF Traffic, TInv, Honest
<1>4. /\ calls' = RemoveAt(calls, i) /\ answers' = answers \o Reply(m)
      /\ attached' = (attached \/ (m.kind = "resume" /\ Servable(m)))
      /\ UNCHANGED <<epoch, ends, sock, wire, rc, flight, load, ui, known>>
  BY <1>2 DEF Serve
<1>5. /\ Reply(m) \in Seq(Heard)
      /\ \A x \in ToSet(Reply(m)) :
           /\ x.kind = "transcript" => m.kind = "history" /\ x.seen = Emitted
           /\ x.kind \in {"resumed", "refused"} => m.kind = "resume" /\ x.id = m.id
           /\ x.kind \in {"resumed", "refused"} => x.stream = epoch /\ x.upto = ends[epoch]
           /\ x.kind = "resumed" => Servable(m) /\ x.from = m.from
  BY <1>3, ReplyTyped DEF TInv
<1>6. \A x \in ToSet(Reply(m)) : x \in Heard
  BY <1>5, Elements
<1>7. ToSet(answers') = ToSet(answers) \cup ToSet(Reply(m))
  BY <1>1, <1>4, <1>5, SetOfConcatenated
<1>8. \A x \in Traffic' : x \in Traffic \/ x \in ToSet(Reply(m))
  BY <1>3, <1>4, <1>7 DEF Traffic
<1>9. \A n, hs : Led(n, hs) => Led(n, hs)'
  <2>1. [kind |-> "ackRefused", id |-> 0] \in Heard
    BY DEF Heard
  <2>. QED
    BY <1>4, <2>1, LedMore, TrackerNow
<1>10. Emitted' = Emitted
  BY <1>4 DEF Emitted
<1>11. \A s, n : Past(s, n)' = Past(s, n)
  BY <1>10 DEF Past
<1>12. ASSUME NEW x \in ToSet(Reply(m)), OfFlight(x), x.kind = "resumed"
       PROVE  /\ rc.stream \in {0, x.stream} /\ x.from = rc.last /\ x.from <= x.upto
              /\ x.upto = 0 /\ ~rc.quarantined => Led(x.stream, rc.held)'
  <2>1. /\ m.kind = "resume" /\ x.id = m.id /\ x.stream = epoch /\ x.upto = ends[epoch] /\ x.from = m.from
        /\ m.stream \in {0, epoch} /\ m.from <= ends[epoch]
    BY <1>5, <1>12 DEF Servable
  <2>2. OfFlight(m)
    BY <1>12, <2>1 DEF OfFlight, Backfills
  <2>3. m.stream = rc.stream /\ m.from = rc.last
    BY <1>3, <2>1, <2>2 DEF CInv, Asking
  <2>4. PICK hs \in Seq(Pairs) : hs = rc.held
    BY TrackerNow, CoordinatorFields
  <2>5. \A j \in 1..Len(hs) : hs[j] \in Emitted
    BY <2>4, TrackerNow DEF Sound
  <2>6. attached'
    BY <1>4, <1>5, <1>12, <2>1
  <2>7. x.upto = 0 => Led(x.stream, hs)'
    BY <1>4, <2>1, <2>5, <2>6, LedServed
  <2>. QED
    BY <1>4, <2>1, <2>3, <2>4, <2>7
<1>13. ASSUME NEW x \in ToSet(Reply(m)), OfFlight(x), x.kind = "refused", load.auth,
              NEW t \in Traffic', OfLoad(t), t.kind = "transcript"
       PROVE  FALSE
  <2>1. m.kind = "resume" /\ OfFlight(m)
    BY <1>5, <1>13 DEF OfFlight, Backfills
  <2>2. t \in Traffic
    BY <1>5, <1>8, <1>13, <2>1
  <2>3. t \notin ToSet(calls)
    <3>1. \A y \in ToSet(calls) : y.kind # "transcript"
      BY <1>1, Elements, AskedFields
    <3>. QED
      BY <1>13, <3>1
  <2>4. t \in ToSet(wire) \/ t \in ToSet(answers)
    BY <2>2, <2>3 DEF Traffic
  <2>5. Ahead(t, m)
    BY <1>3, <2>4 DEF Ahead
  <2>. QED
    BY <1>3, <1>13, <2>1, <2>2, <2>5 DEF HInv
<1>14. \A x \in ToSet(Reply(m)) : x.kind # "resume"
  BY <1>6, HeardFields
<1>15. \A x \in Traffic' : x \in Traffic \/
         /\ x.kind # "resume"
         /\ OfFlight(x) /\ x.kind = "resumed" =>
              /\ rc.stream \in {0, x.stream} /\ x.from = rc.last /\ x.from <= x.upto
              /\ x.upto = 0 /\ ~rc.quarantined => Led(x.stream, rc.held)'
         /\ OfLoad(x) /\ x.kind = "transcript" => x.seen = Emitted
         /\ OfFlight(x) /\ x.kind = "refused" /\ load.auth =>
              \A t \in Traffic' : ~(OfLoad(t) /\ t.kind = "transcript")
  BY <1>5, <1>8, <1>12, <1>13, <1>14, Zenon
<1>. QED
  BY <1>4, <1>9, <1>11, <1>15, StillCovers

LEMMA LateAnswerCovers == ASSUME TInv, CInv, LateAnswer PROVE CInv'
<1>1. /\ wire # <<>> /\ wire' = Tail(wire) /\ Unexpected(Head(wire))
      /\ UNCHANGED <<epoch, ends, attached, answers, calls, rc, flight, sock, load, ui, known>>
  BY DEF LateAnswer, server
<1>2. Head(wire).kind # "event"
  BY <1>1 DEF Unexpected
<1>3. \A n, hs : Led(n, hs) => Led(n, hs)'
  BY <1>1, <1>2, LedTail, TrackerNow
<1>4. Traffic' \subseteq Traffic
  BY <1>1, SetOfTail, TrackerNow DEF Traffic, PipesTyped
<1>5. Emitted' = Emitted
  BY <1>1 DEF Emitted
<1>6. \A s, n : Past(s, n)' = Past(s, n)
  BY <1>5 DEF Past
<1>. QED
  BY <1>1, <1>3, <1>4, <1>6, StillCovers

LEMMA AckFiresCovers == ASSUME TInv, CInv, AckFires PROVE CInv'
<1>. DEFINE a == AckCall(rc)
<1>1. /\ UNCHANGED <<epoch, ends, attached, answers, wire, rc, flight, sock, load, ui, known>>
      /\ calls' = Append(calls, a) \/ calls' = calls
  BY DEF AckFires, server
<1>2. a \in Asked /\ a.kind = "ack"
  BY CoordinatorFields, TrackerNow DEF AckCall, Asked
<1>. HIDE DEF a
<1>3. ToSet(Append(calls, a)) = ToSet(calls) \cup {a}
  BY <1>2, SetOfAppended, TrackerNow DEF PipesTyped
<1>4. \A x \in Traffic' : x \in Traffic \/ x = a
  BY <1>1, <1>3 DEF Traffic
<1>5. \A n, hs : Led(n, hs) => Led(n, hs)'
  <2>1. \A m, e : Brings(m, e)' <=> Brings(m, e)
    BY DEF Brings
  <2>. QED
    BY <1>1, <2>1 DEF Led
<1>6. Emitted' = Emitted
  BY <1>1 DEF Emitted
<1>7. \A s, n : Past(s, n)' = Past(s, n)
  BY <1>6 DEF Past
<1>. QED
  BY <1>1, <1>2, <1>4, <1>5, <1>7, StillCovers

LEMMA TranscriptLoadsCovers == ASSUME TInv, HInv, CInv, TranscriptLoads PROVE CInv'
<1>. DEFINE t == Head(wire)
<1>1. /\ wire # <<>> /\ t.kind = "transcript" /\ load.phase = "fetching" /\ load.id = t.id
      /\ known' = known \cup t.seen
      /\ load' = (IF load.auth THEN [load EXCEPT !.phase = "recovering", !.id = 0] ELSE NoLoad)
      /\ wire' = Tail(wire)
      /\ UNCHANGED <<epoch, ends, attached, sock, answers, calls, rc, flight>>
  BY DEF TranscriptLoads, server
<1>2. t \in Traffic /\ OfLoad(t) /\ Traffic' \subseteq Traffic
  BY <1>1, SetOfTail, TrackerNow DEF Traffic, OfLoad, Readings, PipesTyped
<1>3. \A n, hs : Led(n, hs) => Led(n, hs)'
  BY <1>1, LedTail, TrackerNow
<1>4. Emitted' = Emitted
  BY <1>1 DEF Emitted
<1>5. \A s, n : Past(s, n)' = Past(s, n)
  BY <1>4 DEF Past
<1>6. load'.phase # "fetching"
  BY <1>1, TrackerNow DEF NoLoad, Loads
<1>7. (sock' = "opening" => flight'.live) /\ ToSet(rc'.applied) \subseteq known'
  BY <1>1 DEF CInv
<1>8. Asking'
  <2>1. SUFFICES ASSUME NEW m \in Traffic', OfFlight(m)
                 PROVE  /\ m.kind = "resume" => m.stream = rc.stream /\ m.from = rc.last
                        /\ m.kind = "resumed" => /\ rc.stream \in {0, m.stream} /\ m.from = rc.last
                                                 /\ m.from <= m.upto
                                                 /\ m.upto = 0 /\ ~rc.quarantined => Led(m.stream, rc.held)'
    BY <1>1 DEF Asking, OfFlight
  <2>2. /\ m.kind = "resume" => m.stream = rc.stream /\ m.from = rc.last
        /\ m.kind = "resumed" => /\ rc.stream \in {0, m.stream} /\ m.from = rc.last /\ m.from <= m.upto
                                 /\ m.upto = 0 /\ ~rc.quarantined => Led(m.stream, rc.held)
    BY <1>2, <2>1 DEF CInv, Asking
  <2>3. Led(m.stream, rc.held) => Led(m.stream, rc.held)'
    BY <1>1, <1>3
  <2>. QED
    BY <2>2, <2>3
<1>9. OnStream'
  <2>1. SUFFICES ASSUME rc.registered, ~rc.quarantined, ~rc.resuming, sock # "down"
                 PROVE  rc.stream # 0 /\ (rc.last = 0 => Led(rc.stream, <<>>)')
    BY <1>1 DEF OnStream
  <2>2. rc.stream # 0 /\ (rc.last = 0 => Led(rc.stream, <<>>))
    BY <2>1 DEF CInv, OnStream
  <2>3. Led(rc.stream, <<>>) => Led(rc.stream, <<>>)'
    BY <1>1, <1>3
  <2>. QED
    BY <2>2, <2>3
<1>10. Repaired'
  <2>1. SUFFICES ASSUME rc.registered, ~rc.quarantined PROVE Missing(rc)' = {}
    BY <1>1, <1>6 DEF Repaired, OfLoad
  <2>2. Missing(rc) \subseteq t.seen
    BY <1>1, <1>2, <2>1 DEF CInv, Repaired
  <2>. QED
    BY <1>1, <1>5, <2>2 DEF Missing
<1>11. NamedCovered'
  <2>1. SUFFICES ASSUME load'.auth PROVE Past(rc.named[1], rc.named[2])' \subseteq known'
    BY <1>1, <1>6 DEF NamedCovered, OfLoad
  <2>2. load.auth
    BY <1>1, <2>1 DEF NoLoad
  <2>3. Past(rc.named[1], rc.named[2]) \subseteq t.seen
    BY <1>1, <1>2, <2>2 DEF CInv, NamedCovered
  <2>. QED
    BY <1>1, <1>5, <2>3
<1>. QED
  BY <1>7, <1>8, <1>9, <1>10, <1>11 DEF CInv

---------------------------------------------------------------------------
(* The steps together                                                      *)

LEMMA InitCovers == ASSUME Init PROVE CInv /\ Replies
<1>1. ToSet(<<>>) = {}
  BY SetOfNothing
<1>2. Traffic = {} /\ sock = "down" /\ ~rc.registered /\ rc.applied = <<>> /\ ~load.auth /\ answers = <<>>
  BY <1>1 DEF Init, Traffic, Fresh, NoLoad
<1>. QED
  BY <1>1, <1>2 DEF CInv, Replies, Asking, OnStream, Repaired, NamedCovered

LEMMA StepCovers ==
    ASSUME Calm, InOrder, ~LosesFirst, MaxTimeouts = 0,
           TInv, OInv, HInv, Replies, CInv, [Next]_vars
    PROVE  CInv'
<1>1. CASE UNCHANGED vars
  <2>1. UNCHANGED <<epoch, ends, attached, sock, calls, answers, wire, rc, flight, load, ui, known>>
    BY <1>1 DEF vars, server, pipes
  <2>2. Traffic' = Traffic /\ Emitted' = Emitted
    BY <2>1 DEF Traffic, Emitted
  <2>3. \A s, n : Past(s, n)' = Past(s, n)
    BY <2>2 DEF Past
  <2>4. \A m, e : Brings(m, e)' <=> Brings(m, e)
    BY DEF Brings
  <2>5. \A n, hs : Led(n, hs) => Led(n, hs)'
    BY <2>1, <2>4 DEF Led
  <2>. QED
    BY <2>1, <2>2, <2>3, <2>5, StillCovers
<1>2. CASE Receive
  BY <1>2, ReceiveEventCovers, ResumeSucceedsCovers, ResumeRefusedCovers, TranscriptLoadsCovers,
     AckRefusedCovers, LateAnswerCovers DEF Receive
<1>3. ~ResumeTimesOut /\ ~HistoryTimesOut
  <2>1. timeouts \in Nat
    BY TrackerNow
  <2>2. ~(timeouts < MaxTimeouts)
    BY <2>1
  <2>. QED
    BY <2>2 DEF ResumeTimesOut, HistoryTimesOut
<1>. QED
  BY <1>1, <1>2, <1>3, EmitCovers, NewEpochCovers, CompactCovers, ServeCovers, SendAnswerCovers,
     AckFiresCovers, ResyncCompletesCovers, DropCovers, DialCovers, OpenCovers, LeaveCovers DEF Next

\* With a server that answers in the order of the calls, a user who leaves no
\* backfill under way and no call that times out, and unless the first event of
\* an epoch is the one that is lost, the cursor never runs ahead of the user: what it has
\* passed of the stream was applied, or is in the transcript the user was shown.
THEOREM Covering ==
    ASSUME Calm, InOrder, ~LosesFirst, MaxTimeouts = 0 PROVE Spec => []CursorCovers
<1>1. Init => TInv /\ OInv /\ HInv /\ CInv /\ Replies
  <2>1. Init => HInv
    BY DEF Init, HInv, Fresh, NoFlight, NoLoad
  <2>. QED
    BY <2>1, InitTyped, InitOrdered, InitCovers
<1>2. TInv /\ OInv /\ HInv /\ CInv /\ Replies /\ [Next]_vars => (TInv /\ OInv /\ HInv /\ CInv /\ Replies)'
  BY StepTyped, StepOrdered, StepHeld, StepReplies, StepCovers
<1>3. CInv => CursorCovers
  <2>1. SUFFICES ASSUME CInv, rc.registered, ui = "ready", load = NoLoad, ~rc.quarantined,
                        NEW e \in Emitted, e[1] = rc.stream, e[2] <= rc.last
                 PROVE  e \in known
    BY DEF CursorCovers
  <2>2. Missing(rc) = {} /\ ToSet(rc.applied) \subseteq known
    BY <2>1 DEF CInv, Repaired
  <2>. QED
    BY <2>1, <2>2 DEF Missing, Past
<1>. QED
  BY <1>1, <1>2, <1>3, PTL DEF Spec
=============================================================================
