---------------------------- MODULE ChatTurn_proofs ----------------------------
(***************************************************************************)
(* Theorems about chat turns, for any number of turns, pieces of an answer, *)
(* stops, departures and lost requests. The invariant is stated of the      *)
(* values that belong to one turn, so that an action is reasoned about as   *)
(* the values it leaves for its turn.                                       *)
(***************************************************************************)
EXTENDS ChatTurn, FiniteSetTheorems, TLAPS

USE BoundsAssumption, NoneAssumption

-------------------------------------------------------------------------------
(* What is on its way to the browser. *)

Events == {"started", "delta", "completed", "error"}

LEMMA DeltasFinite ==
  ASSUME NEW s \in Seq(Events)
  PROVE  /\ IsFiniteSet({i \in DOMAIN s : s[i] = "delta"})
         /\ Deltas(s) \in Nat
  <1>1. IsFiniteSet(1 .. Len(s))
    BY FS_Interval
  <1>2. {i \in DOMAIN s : s[i] = "delta"} \in SUBSET (1 .. Len(s))
    OBVIOUS
  <1>3. IsFiniteSet({i \in DOMAIN s : s[i] = "delta"})
    BY <1>1, <1>2, FS_Subset
  <1>4. QED
    BY <1>3, FS_CardinalityType DEF Deltas

LEMMA DeltasEmpty == Deltas(<<>>) = 0
  <1>1. {i \in DOMAIN << >> : << >>[i] = "delta"} = {}
    OBVIOUS
  <1>2. QED
    BY <1>1, FS_EmptySet DEF Deltas

LEMMA DeltasAppend ==
  ASSUME NEW s \in Seq(Events), NEW e \in Events
  PROVE  Deltas(Append(s, e)) = Deltas(s) + (IF e = "delta" THEN 1 ELSE 0)
  <1> DEFINE A == {i \in DOMAIN s : s[i] = "delta"}
             B == {i \in DOMAIN Append(s, e) : Append(s, e)[i] = "delta"}
  <1>1. /\ DOMAIN Append(s, e) = 1 .. Len(s) + 1 /\ DOMAIN s = 1 .. Len(s)
        /\ Append(s, e)[Len(s) + 1] = e /\ Len(s) \in Nat
        /\ \A i \in DOMAIN s : Append(s, e)[i] = s[i]
    OBVIOUS
  <1>2. IsFiniteSet(A)
    BY DeltasFinite
  <1>3. B = A \cup (IF e = "delta" THEN {Len(s) + 1} ELSE {}) /\ Len(s) + 1 \notin A
    BY <1>1
  <1>4. Deltas(s) = Cardinality(A) /\ Deltas(Append(s, e)) = Cardinality(B)
    BY DEF Deltas
  <1> HIDE DEF A, B
  <1>5. CASE e = "delta"
    BY <1>2, <1>3, <1>4, <1>5, FS_AddElement
  <1>6. CASE e # "delta"
    <2>1. B = A /\ Cardinality(A) \in Nat
      BY <1>2, <1>3, <1>6, FS_CardinalityType
    <2>2. QED
      BY <1>4, <1>6, <2>1
  <1>7. QED
    BY <1>5, <1>6

LEMMA DeltasTail ==
  ASSUME NEW s \in Seq(Events), s # <<>>
  PROVE  /\ Deltas(Tail(s)) \in Nat
         /\ Deltas(s) = Deltas(Tail(s)) + (IF Head(s) = "delta" THEN 1 ELSE 0)
  <1> DEFINE A == {i \in DOMAIN s : s[i] = "delta"}
             B == {i \in DOMAIN Tail(s) : Tail(s)[i] = "delta"}
             next == [i \in B |-> i + 1]
  <1>1. /\ DOMAIN s = 1 .. Len(s) /\ Len(s) \in Nat \ {0} /\ Tail(s) \in Seq(Events)
        /\ DOMAIN Tail(s) = 1 .. Len(s) - 1 /\ Head(s) = s[1]
        /\ \A i \in 1 .. Len(s) - 1 : Tail(s)[i] = s[i + 1]
    OBVIOUS
  <1>2. IsFiniteSet(A) /\ IsFiniteSet(B) /\ Deltas(Tail(s)) \in Nat
    BY <1>1, DeltasFinite
  <1>3. Cardinality(A \ {1}) = Cardinality(B)
    <2>1. \A i \in B : i \in 1 .. Len(s) - 1 /\ s[i + 1] = "delta"
      BY <1>1
    <2>2. next \in [B -> A \ {1}]
      BY <1>1, <2>1
    <2>3. \A i, j \in B : next[i] = next[j] => i = j
      BY <2>1
    <2>4. \A i \in A \ {1} : \E j \in B : next[j] = i
      <3> SUFFICES ASSUME NEW i \in A \ {1} PROVE i - 1 \in B /\ next[i - 1] = i
        OBVIOUS
      <3>1. i \in 2 .. Len(s) /\ s[i] = "delta" /\ i - 1 \in 1 .. Len(s) - 1
        BY <1>1
      <3>2. Tail(s)[i - 1] = s[i - 1 + 1] /\ i - 1 + 1 = i
        BY <1>1, <3>1
      <3>3. i - 1 \in B
        BY <1>1, <3>1, <3>2
      <3>4. QED
        BY <3>1, <3>3
    <2> HIDE DEF A, B, next
    <2>5. ExistsBijection(B, A \ {1})
      BY <2>2, <2>3, <2>4
      DEF ExistsBijection, Bijection, Injection, Surjection, IsInjective
    <2>6. QED
      BY <1>2, <2>5, FS_Bijection
  <1>4. 1 \in A <=> Head(s) = "delta"
    BY <1>1
  <1> HIDE DEF A, B
  <1>5. Cardinality(A \ {1}) = IF 1 \in A THEN Cardinality(A) - 1 ELSE Cardinality(A)
    BY <1>2, FS_RemoveElement
  <1>6. Cardinality(A) \in Nat
    BY <1>2, FS_CardinalityType
  <1>7. Cardinality(A) = Cardinality(B) + (IF Head(s) = "delta" THEN 1 ELSE 0)
    BY <1>3, <1>4, <1>5, <1>6
  <1>8. QED
    BY <1>2, <1>7 DEF A, B, Deltas

\* What the view takes from the link, and what is appended to it.
LEMMA TailRange ==
  ASSUME NEW s \in Seq(Events), s # <<>>
  PROVE  /\ Tail(s) \in Seq(Events) /\ Head(s) \in Events /\ Head(s) \in Range(s)
         /\ \A e \in Range(Tail(s)) : e \in Range(s)
  <1>1. /\ Tail(s) \in Seq(Events) /\ Head(s) = s[1] /\ 1 \in DOMAIN s
        /\ \A i \in DOMAIN Tail(s) : i + 1 \in DOMAIN s /\ Tail(s)[i] = s[i + 1]
    OBVIOUS
  <1>2. QED
    BY <1>1 DEF Range

LEMMA AppendRange ==
  ASSUME NEW s \in Seq(Events), NEW e \in Events
  PROVE  Append(s, e) \in Seq(Events) /\ Range(Append(s, e)) \subseteq Range(s) \cup {e}
  <1>1. /\ Append(s, e) \in Seq(Events)
        /\ DOMAIN Append(s, e) = DOMAIN s \cup {Len(s) + 1} /\ Append(s, e)[Len(s) + 1] = e
        /\ \A i \in DOMAIN s : Append(s, e)[i] = s[i]
    OBVIOUS
  <1>2. QED
    BY <1>1 DEF Range

-------------------------------------------------------------------------------
(* The invariant. *)

Routes == [pc: Pcs, local: BOOLEAN, msg: BOOLEAN, text: 0 .. MaxText, over: BOOLEAN,
           finalized: BOOLEAN, exit: {"closed", "broken"},
           cancel: {"idle", "settling", "done"}]
Links == [events: Seq(Events), end: {"open", "closed", "broken", "read"}]
Readings == [in: 0 .. 2, text: 0 .. MaxText]
CallPairs == [Threads -> Requests \union {None}]
TurnStates == {"none", "asked", "refused"} \union Started
Ended == {"completed", "stopped"}
Early == {"none", "model", "starting", "asking", "failing"}

\* Turn by turn: the main loop r, the link l, what the browser heard h, the requests c, the
\* row s and the stored answers a of a turn. A handler that has not asked for a stream has
\* sent nothing; while it streams, what was heard and what is on its way are what it has
\* forwarded; a completion is announced once the answer is stored, as the last event; a
\* request that was answered with "ok" settled the turn as it says.
TurnOK(r, l, h, c, s, a, open) ==
    /\ r.pc = "none" <=> ~open
    /\ ~open => h.in = 0
    /\ r.pc \in {"none", "model"} => s = "none"
    /\ r.pc \in {"asking", "failing", "reading", "saving", "settling"} => s \in Started
    /\ r.pc \in Early => r.text = 0 /\ l.events = <<>> /\ h.text = 0
    /\ r.pc = "reading" /\ ~r.msg => r.text = 0
    /\ r.pc = "reading" /\ ~r.msg /\ ~r.over => l.events = <<>> /\ h.text = 0
    /\ r.pc = "saving" => /\ r.over /\ r.msg /\ c["loop"] # None
                          /\ c["loop"].status = "completed" /\ c["loop"].text = r.text
    /\ r.pc \in {"reading", "saving"} /\ l.end # "read" => h.text + Deltas(l.events) = r.text
    /\ l.end = "read" => l.events = <<>>
    /\ h.text + Deltas(l.events) <= MaxText
    /\ \A i \in DOMAIN l.events : l.events[i] = "started" => i = 1 /\ h.text = 0
    /\ "completed" \in Range(l.events) =>
          /\ s = "completed" /\ a = {h.text + Deltas(l.events)}
          /\ (r.pc = "reading" /\ r.over) \/ r.pc \in {"settling", "done"}
    /\ \A k \in Threads : c[k] # None =>
          s \in Started /\ (c[k].phase = "ok" => s = c[k].status /\ (s \in Ended => a = {c[k].text}))

TurnInv(t) ==
    TurnOK(route[t], link[t], heard[t], call[t], status[t], Stored(t), t <= opened)

\* The row i of the log is an answer of turn t.
Answers1(i, t) == log[i].role = "assistant" /\ log[i].turn = t

LogInv ==
    /\ \A i \in DOMAIN log : log[i].turn <= opened
    /\ \A t \in Turns, i \in DOMAIN log : Answers1(i, t) => status[t] \in Ended
    /\ \A t \in Turns, i, j \in DOMAIN log : Answers1(i, t) /\ Answers1(j, t) => i = j

\* What a view shows of an answer it streams is what was heard of it. The page of the
\* conversation is opened once, and the view it mounts streams no earlier turn.
ViewInv ==
    /\ \A m \in shown : m.turn <= opened
    /\ \A m \in shown : m.role = "assistant" /\ Mounted(m.turn) => m.text = heard[m.turn].text
    /\ \A m \in page.log : m.turn <= opened
    /\ page.doing # "no" => persisted
    /\ view.instance = 2 \/ (\E t \in Turns : heard[t].in = 2) => persisted /\ page.doing = "no"

IInv == TypeOK /\ LogInv /\ ViewInv /\ \A t \in Turns : TurnInv(t)

LEMMA TypeMeans ==
  TypeOK <=>
    /\ view \in [instance: 0 .. 2, turn: {0} \union Turns, error: BOOLEAN, stopped: BOOLEAN]
    /\ shown \subseteq Messages /\ persisted \in BOOLEAN
    /\ heard \in [Turns -> Readings]
    /\ page \in [doing: {"no", "asked", "rendered"}, log: SUBSET Messages]
    /\ opened \in 0 .. MaxTurns
    /\ link \in [Turns -> Links] /\ gone \in [Turns -> {"no", "aborted", "noticed"}]
    /\ route \in [Turns -> Routes] /\ call \in [Turns -> CallPairs]
    /\ status \in [Turns -> TurnStates] /\ log \in Seq(Messages)
    /\ failures \in 0 .. MaxEvents
  BY DEF TypeOK, Readings, Links, Events, Routes, CallPairs, TurnStates

LEMMA FreshType == Fresh \in Routes /\ Fresh.pc = "none" /\ Fresh.text = 0
  BY DEF Fresh, Routes, Pcs

LEMMA InvInit == Init => IInv
  <1> SUFFICES ASSUME Init PROVE IInv
    OBVIOUS
  <1>1. Fresh \in Routes /\ Staying \in [doing: {"no", "asked", "rendered"}, log: SUBSET Messages]
    BY DEF Fresh, Routes, Pcs, Staying
  <1>2. TypeOK
    <2>1. view \in [instance: 0 .. 2, turn: {0} \union Turns, error: BOOLEAN, stopped: BOOLEAN]
      BY DEF Init
    <2>2. shown \subseteq Messages /\ opened \in 0 .. MaxTurns
          /\ log \in Seq(Messages) /\ failures \in 0 .. MaxEvents
      BY DEF Init
    <2>5. /\ persisted \in BOOLEAN
          /\ heard \in [Turns -> Readings] /\ link \in [Turns -> Links]
          /\ gone \in [Turns -> {"no", "aborted", "noticed"}]
      <3>1. [in |-> 0, text |-> 0] \in Readings /\ [events |-> <<>>, end |-> "open"] \in Links
        BY DEF Readings, Links
      <3>2. QED
        BY <3>1 DEF Init
    <2>3. page \in [doing: {"no", "asked", "rendered"}, log: SUBSET Messages]
          /\ route \in [Turns -> Routes] /\ call \in [Turns -> CallPairs]
          /\ status \in [Turns -> TurnStates]
      BY <1>1 DEF Init, CallPairs, TurnStates
    <2>4. QED
      BY <2>1, <2>2, <2>3, <2>5, TypeMeans
  <1>3. LogInv
    BY DEF Init, LogInv
  <1>4. ViewInv
    BY DEF Init, ViewInv, Staying
  <1>5. ASSUME NEW t \in Turns PROVE TurnInv(t)
    <2>1. /\ route[t].pc = "none" /\ route[t].text = 0
          /\ link[t].events = <<>> /\ link[t].end = "open"
          /\ heard[t].text = 0 /\ heard[t].in = 0 /\ status[t] = "none" /\ ~(t <= opened)
          /\ \A k \in Threads : call[t][k] = None
      BY DEF Init, Fresh, Turns
    <2>2. Range(link[t].events) = {} /\ DOMAIN link[t].events = {}
      BY <2>1 DEF Range
    <2>3. QED
      BY <2>1, <2>2, DeltasEmpty DEF TurnInv, TurnOK
  <1>6. QED
    BY <1>2, <1>3, <1>4, <1>5 DEF IInv

-------------------------------------------------------------------------------
(* The steps of the main loop, on the values of a turn. *)

\* The loop returns: what is on its way stays on its way.
LEMMA ReturnKeeps ==
  ASSUME NEW r \in Routes, NEW l \in Links, NEW h \in Readings, NEW c \in CallPairs,
         NEW s \in TurnStates, NEW a, NEW end \in {"closed", "broken"},
         NEW to \in {"idle", "settling"}, TurnOK(r, l, h, c, s, a, TRUE)
  PROVE  LET r2 == [Fresh EXCEPT !.pc = "done", !.cancel = to]
             l2 == [l EXCEPT !.end = IF @ = "open" THEN end ELSE @]
             c2 == [c EXCEPT !["loop"] = None]
         IN  /\ r2 \in Routes /\ l2 \in Links /\ c2 \in CallPairs
             /\ TurnOK(r2, l2, h, c2, s, a, TRUE)
  <1> DEFINE r1 == [Fresh EXCEPT !.pc = "done"]
             r2 == [r1 EXCEPT !.cancel = to]
             last == IF l.end = "open" THEN end ELSE l.end
             l2 == [l EXCEPT !.end = last]
             c2 == [c EXCEPT !["loop"] = None]
  <1>1. r2 \in Routes /\ r2.pc = "done"
    <2>1. r1 \in Routes /\ r1.pc = "done"
      BY FreshType DEF Routes, Pcs
    <2> HIDE DEF r1
    <2>2. QED
      BY <2>1 DEF Routes
  <1>2. /\ l2 \in Links /\ l2.events = l.events
        /\ l2.end = "read" => l.end = "read"
    BY DEF Links
  <1>3. /\ c2 \in CallPairs /\ c2["loop"] = None /\ c2["cancel"] = c["cancel"]
    BY DEF CallPairs, Threads
  <1> HIDE DEF r2, last, l2, c2
  <1>4. TurnOK(r2, l2, h, c2, s, a, TRUE)
    BY <1>1, <1>2, <1>3 DEF TurnOK, Early, Threads
  <1>5. QED
    BY <1>1, <1>2, <1>3, <1>4 DEF r2, r1, last, l2, c2

LEMMA InterruptedType ==
  ASSUME NEW r \in Routes
  PROVE  /\ Interrupted(r) \in Requests /\ Interrupted(r).phase = "sent"
         /\ Interrupted(r).text = (IF r.msg THEN r.text ELSE 0)
         /\ Interrupted(r).status = (IF r.msg /\ r.text > 0 THEN "stopped" ELSE "failed")
  BY DEF Interrupted, Call, Routes, Requests

\* The loop settles a turn that nobody has settled yet.
LEMMA SettleKeeps ==
  ASSUME NEW r \in Routes, NEW l \in Links, NEW h \in Readings, NEW c \in CallPairs,
         NEW s \in TurnStates, NEW a, NEW exit \in {"closed", "broken"},
         r.pc \in {"reading", "saving"}, TurnOK(r, l, h, c, s, a, TRUE),
         NEW q \in Routes
  PROVE  LET r2 == [q EXCEPT !.pc = "settling", !.finalized = TRUE, !.exit = exit]
             c2 == [c EXCEPT !["loop"] = Interrupted(q)]
         IN  r2 \in Routes /\ c2 \in CallPairs /\ TurnOK(r2, l, h, c2, s, a, TRUE)
  <1> DEFINE r0 == [q EXCEPT !.pc = "settling"]
             r1 == [r0 EXCEPT !.finalized = TRUE]
             r2 == [r1 EXCEPT !.exit = exit]
             i == Interrupted(q)
             c2 == [c EXCEPT !["loop"] = i]
  <1>1. r2 \in Routes /\ r2.pc = "settling"
    <2>1. r0 \in Routes /\ r0.pc = "settling"
      BY DEF Routes, Pcs
    <2> HIDE DEF r0
    <2>2. r1 \in Routes /\ r1.pc = "settling"
      BY <2>1 DEF Routes
    <2> HIDE DEF r1
    <2>3. QED
      BY <2>2 DEF Routes
  <1>2. i \in Requests /\ i.phase = "sent" /\ s \in Started
    BY InterruptedType DEF TurnOK
  <1> HIDE DEF r2, i
  <1>3. c2 \in CallPairs /\ c2["loop"] = i /\ c2["cancel"] = c["cancel"]
    BY <1>2 DEF CallPairs, Threads
  <1> HIDE DEF c2
  <1>4. TurnOK(r2, l, h, c2, s, a, TRUE)
    BY <1>1, <1>2, <1>3 DEF TurnOK, Early, Threads
  <1>5. QED
    BY <1>1, <1>3, <1>4 DEF r2, r1, r0, c2, i

\* An event is forwarded, unless the browser does not read any more.
Sent(l, e) == [l EXCEPT !.events = IF l.end = "read" THEN @ ELSE Append(@, e)]

LEMMA ForwardKeeps ==
  ASSUME NEW r \in Routes, NEW l \in Links, NEW h \in Readings, NEW c \in CallPairs,
         NEW s \in TurnStates, NEW a, TurnOK(r, l, h, c, s, a, TRUE),
         r.pc \in {"reading", "saving"}, r.pc = "reading" => ~r.over,
         NEW e \in Events, NEW q \in Routes, q.pc = "reading",
         q.text = r.text + (IF e = "delta" THEN 1 ELSE 0),
         r.pc = "saving" => q.over,
         e = "started" => ~r.msg /\ r.pc = "reading",
         e = "delta" => r.msg,
         e = "completed" => r.pc = "saving" /\ s = "completed" /\ a = {r.text},
         ~q.msg => ~r.msg /\ q.over
  PROVE  Sent(l, e) \in Links /\ TurnOK(q, Sent(l, e), h, c, s, a, TRUE)
  <1> DEFINE more == IF l.end = "read" THEN l.events ELSE Append(l.events, e)
             l2 == [l EXCEPT !.events = more]
  <1>1. l.events \in Seq(Events) /\ l.end \in {"open", "closed", "broken", "read"}
    BY DEF Links
  <1>2. more \in Seq(Events)
    BY <1>1, AppendRange
  <1>3. l2 \in Links /\ l2.events = more /\ l2.end = l.end /\ Sent(l, e) = l2
    BY <1>2 DEF Links, Sent
  <1>4. "completed" \notin Range(l.events)
    BY DEF TurnOK
  <1>5. ~q.msg => q.text = 0 /\ q.over
    BY DEF TurnOK, Routes
  <1>6. CASE l.end = "read"
    <2>1. more = <<>> /\ l.events = <<>>
      BY <1>6 DEF TurnOK
    <2>2. Range(l.events) = {} /\ DOMAIN l.events = {}
      BY <2>1 DEF Range
    <2> HIDE DEF l2, more
    <2>3. l2.events = l.events
      BY <1>3, <2>1
    <2>4. TurnOK(q, l2, h, c, s, a, TRUE)
      BY <1>3, <1>5, <1>6, <2>2, <2>3 DEF TurnOK, Early
    <2>5. QED
      BY <1>3, <2>4
  <1>7. CASE l.end # "read"
    <2>1. more = Append(l.events, e)
      BY <1>7
    <2> DEFINE old == l.events
    <2> old \in Seq(Events)
      BY <1>1
    <2> HIDE DEF old
    <2>0. /\ Deltas(Append(old, e)) = Deltas(old) + (IF e = "delta" THEN 1 ELSE 0)
          /\ Range(Append(old, e)) \subseteq Range(old) \cup {e}
          /\ Deltas(old) \in Nat
      BY DeltasAppend, AppendRange, DeltasFinite
    <2>2. /\ Deltas(more) = Deltas(l.events) + (IF e = "delta" THEN 1 ELSE 0)
          /\ Range(more) \subseteq Range(l.events) \cup {e}
          /\ Deltas(l.events) \in Nat
      BY <2>0, <2>1 DEF old
    <2>3. \A i \in DOMAIN more :
             \/ i \in DOMAIN l.events /\ more[i] = l.events[i]
             \/ i = Len(l.events) + 1 /\ more[i] = e
      BY <1>1, <2>1
    <2>4. h.text + Deltas(more) = q.text /\ h.text \in Nat /\ q.text <= MaxText
      BY <1>7, <2>2 DEF TurnOK, Routes, Readings
    <2>5. \A i \in DOMAIN more : more[i] = "started" => i = 1 /\ h.text = 0
      <3> SUFFICES ASSUME NEW i \in DOMAIN more, more[i] = "started"
                   PROVE  i = 1 /\ h.text = 0
        OBVIOUS
      <3>1. CASE i \in DOMAIN l.events /\ more[i] = l.events[i]
        BY <3>1 DEF TurnOK
      <3>2. CASE i = Len(l.events) + 1 /\ more[i] = e
        <4>1. l.events = <<>> /\ h.text = 0
          BY <3>2 DEF TurnOK
        <4>2. QED
          BY <3>2, <4>1
      <3>3. QED
        BY <2>3, <3>1, <3>2
    <2>6. "completed" \in Range(more) =>
            s = "completed" /\ a = {h.text + Deltas(more)} /\ q.over
      <3>1. "completed" \in Range(more) => e = "completed"
        BY <1>4, <2>2
      <3>2. e = "completed" => s = "completed" /\ a = {q.text} /\ q.over
        BY DEF Routes
      <3>3. q.text = h.text + Deltas(more)
        BY <2>4
      <3>4. QED
        BY <3>1, <3>2, <3>3
    <2> HIDE DEF l2, more
    <2>8. TurnOK(q, l2, h, c, s, a, TRUE)
      BY <1>3, <1>5, <1>7, <2>4, <2>5, <2>6 DEF TurnOK, Early
    <2>9. QED
      BY <1>3, <2>8
  <1>8. QED
    BY <1>6, <1>7

-------------------------------------------------------------------------------
(* The steps of the handler, on the whole state. *)

LEMMA RoomMeans == ASSUME TypeOK, Room PROVE failures + 1 \in 0 .. MaxEvents
  <1> DEFINE A == {t \in Turns : gone[t] # "no"}
  <1>1. IsFiniteSet(A)
    <2>1. IsFiniteSet(Turns) /\ A \subseteq Turns
      BY FS_Interval DEF Turns
    <2>2. QED
      BY <2>1, FS_Subset
  <1>2. Cardinality(A) \in Nat
    BY <1>1, FS_CardinalityType
  <1>3. /\ opened \in Nat /\ failures \in Nat
        /\ opened + failures + Cardinality(A) + (IF view.instance = 0 THEN 1 ELSE 0) < MaxEvents
    BY DEF TypeOK, Room
  <1> HIDE DEF A
  <1>4. QED
    BY <1>2, <1>3

\* What a step of the handler of turn t has to be shown to do.
LEMMA TurnStep ==
  ASSUME IInv, NEW t \in Turns, NEW r \in Routes, NEW l \in Links, NEW c \in CallPairs,
         NEW s \in TurnStates, status[t] \in Ended => s = status[t],
         UNCHANGED <<browser, log>>, failures' \in 0 .. MaxEvents,
         gone' \in [Turns -> {"no", "aborted", "noticed"}],
         route' = [route EXCEPT ![t] = r], link' = [link EXCEPT ![t] = l],
         call' = [call EXCEPT ![t] = c], status' = [status EXCEPT ![t] = s],
         TurnOK(r, l, heard[t], c, s, Stored(t), t <= opened)
  PROVE  IInv'
  <1>1. TypeOK
    BY DEF IInv
  <1>2. /\ route \in [Turns -> Routes] /\ link \in [Turns -> Links]
        /\ call \in [Turns -> CallPairs] /\ status \in [Turns -> TurnStates]
        /\ log \in Seq(Messages)
    BY <1>1, TypeMeans
  <1>3. /\ view' = view /\ shown' = shown /\ persisted' = persisted /\ heard' = heard
        /\ page' = page /\ opened' = opened /\ log' = log
    BY DEF browser
  <1>4. /\ route' \in [Turns -> Routes] /\ link' \in [Turns -> Links]
        /\ call' \in [Turns -> CallPairs] /\ status' \in [Turns -> TurnStates]
    BY <1>2
  <1>5. TypeOK'
    <2>1. TypeOK' <=>
            /\ view' \in [instance: 0 .. 2, turn: {0} \union Turns, error: BOOLEAN,
                          stopped: BOOLEAN]
            /\ shown' \subseteq Messages /\ persisted' \in BOOLEAN
            /\ heard' \in [Turns -> Readings]
            /\ page' \in [doing: {"no", "asked", "rendered"}, log: SUBSET Messages]
            /\ opened' \in 0 .. MaxTurns
            /\ link' \in [Turns -> Links] /\ gone' \in [Turns -> {"no", "aborted", "noticed"}]
            /\ route' \in [Turns -> Routes] /\ call' \in [Turns -> CallPairs]
            /\ status' \in [Turns -> TurnStates] /\ log' \in Seq(Messages)
            /\ failures' \in 0 .. MaxEvents
      BY DEF TypeOK, Readings, Links, Events, Routes, CallPairs, TurnStates
    <2>2. /\ view' \in [instance: 0 .. 2, turn: {0} \union Turns, error: BOOLEAN,
                        stopped: BOOLEAN]
          /\ shown' \subseteq Messages /\ persisted' \in BOOLEAN
          /\ heard' \in [Turns -> Readings]
          /\ page' \in [doing: {"no", "asked", "rendered"}, log: SUBSET Messages]
          /\ opened' \in 0 .. MaxTurns /\ log' \in Seq(Messages)
      BY <1>1, <1>3, TypeMeans
    <2>3. QED
      BY <1>4, <2>1, <2>2
  <1>6. LogInv'
    <2>1. \A u \in Turns : status[u] \in Ended => status'[u] \in Ended
      BY <1>2
    <2>2. LogInv
      BY DEF IInv
    <2>3. QED
      BY <1>3, <2>1, <2>2 DEF LogInv, Answers1
  <1>7. ViewInv'
    BY <1>3 DEF IInv, ViewInv, Mounted
  <1>8. ASSUME NEW u \in Turns PROVE TurnInv(u)'
    <2>1. Stored(u)' = Stored(u)
      BY <1>3 DEF Stored, Answers
    <2>2. CASE u = t
      <3>1. route'[u] = r /\ link'[u] = l /\ call'[u] = c /\ status'[u] = s
        BY <1>2, <2>2
      <3>2. QED
        BY <1>3, <2>1, <2>2, <3>1 DEF TurnInv
    <2>3. CASE u # t
      <3>1. /\ route'[u] = route[u] /\ link'[u] = link[u] /\ call'[u] = call[u]
            /\ status'[u] = status[u]
        BY <1>2, <2>3
      <3>2. TurnInv(u)
        BY DEF IInv
      <3>3. QED
        BY <1>3, <2>1, <3>1, <3>2 DEF TurnInv
    <2>4. QED
      BY <2>2, <2>3
  <1>9. QED
    BY <1>5, <1>6, <1>7, <1>8 DEF IInv

\* What the steps below know of their turn.
LEMMA TurnFacts ==
  ASSUME IInv, NEW t \in Turns
  PROVE  /\ route[t] \in Routes /\ link[t] \in Links /\ call[t] \in CallPairs
         /\ heard[t] \in Readings /\ status[t] \in TurnStates
         /\ route \in [Turns -> Routes] /\ link \in [Turns -> Links]
         /\ call \in [Turns -> CallPairs] /\ status \in [Turns -> TurnStates]
         /\ TurnOK(route[t], link[t], heard[t], call[t], status[t], Stored(t), t <= opened)
         /\ route[t].pc # "none" => t <= opened
  <1>1. TypeOK /\ TurnInv(t)
    BY DEF IInv
  <1>2. /\ route \in [Turns -> Routes] /\ link \in [Turns -> Links]
        /\ call \in [Turns -> CallPairs] /\ status \in [Turns -> TurnStates]
        /\ heard \in [Turns -> Readings]
    BY <1>1, TypeMeans
  <1>3. route[t].pc # "none" => t <= opened
    BY <1>1 DEF TurnInv, TurnOK
  <1>4. QED
    BY <1>1, <1>2, <1>3 DEF TurnInv

\* The steps that answer no question of Core and serve no request of it.
Silent == UNCHANGED <<browser, gone, core>> /\ failures' \in 0 .. MaxEvents

LEMMA SilentStep ==
  ASSUME IInv, NEW t \in Turns, NEW r \in Routes, NEW l \in Links, NEW c \in CallPairs, Silent,
         route' = [route EXCEPT ![t] = r], link' = [link EXCEPT ![t] = l],
         call' = [call EXCEPT ![t] = c],
         TurnOK(r, l, heard[t], c, status[t], Stored(t), t <= opened)
  PROVE  IInv'
  <1>1. status[t] \in TurnStates /\ status \in [Turns -> TurnStates]
    BY TurnFacts
  <1>2. status' = status /\ log' = log /\ gone' = gone /\ UNCHANGED browser
    BY DEF Silent, core
  <1>3. status' = [status EXCEPT ![t] = status[t]]
    BY <1>1, <1>2
  <1>4. gone' \in [Turns -> {"no", "aborted", "noticed"}]
    BY <1>2, TypeMeans DEF IInv
  <1>5. QED
    BY <1>1, <1>2, <1>3, <1>4, TurnStep DEF Silent

LEMMA ReturnStep ==
  ASSUME IInv, NEW t \in Turns, NEW end \in {"closed", "broken"}, ~At(t, "none"),
         Silent, Return(t, end)
  PROVE  IInv'
  <1> DEFINE to == IF Cancelled(t) /\ call[t].cancel # None THEN "settling" ELSE "idle"
             r2 == [Fresh EXCEPT !.pc = "done", !.cancel = to]
             l2 == [link[t] EXCEPT !.end = IF @ = "open" THEN end ELSE @]
             c2 == [call[t] EXCEPT !["loop"] = None]
  <1>1. /\ route' = [route EXCEPT ![t] = r2] /\ link' = [link EXCEPT ![t] = l2]
        /\ call' = [call EXCEPT ![t] = c2]
    BY DEF Return
  <1>2. t <= opened
    BY TurnFacts DEF At
  <1>3. TurnOK(route[t], link[t], heard[t], call[t], status[t], Stored(t), TRUE)
    BY <1>2, TurnFacts
  <1>4. to \in {"idle", "settling"}
    OBVIOUS
  <1> HIDE DEF to
  <1>5. /\ r2 \in Routes /\ l2 \in Links /\ c2 \in CallPairs
        /\ TurnOK(r2, l2, heard[t], c2, status[t], Stored(t), TRUE)
    BY <1>3, <1>4, TurnFacts, ReturnKeeps
  <1> HIDE DEF r2, l2, c2
  <1>6. TurnOK(r2, l2, heard[t], c2, status[t], Stored(t), t <= opened)
    BY <1>2, <1>5
  <1>7. QED
    BY <1>1, <1>5, <1>6, SilentStep

LEMMA SettleStep ==
  ASSUME IInv, NEW t \in Turns, NEW q \in Routes, NEW exit \in {"closed", "broken"},
         route[t].pc \in {"reading", "saving"}, Silent, Settle(t, q, exit)
  PROVE  IInv'
  <1>1. CASE q.finalized
    BY <1>1, ReturnStep DEF Settle, At
  <1>2. CASE ~q.finalized
    <2> DEFINE r2 == [q EXCEPT !.pc = "settling", !.finalized = TRUE, !.exit = exit]
               c2 == [call[t] EXCEPT !["loop"] = Interrupted(q)]
    <2>1. /\ route' = [route EXCEPT ![t] = r2] /\ link' = link
          /\ call' = [call EXCEPT ![t] = c2]
      BY <1>2 DEF Settle
    <2>2. t <= opened /\ link' = [link EXCEPT ![t] = link[t]]
      BY <2>1, TurnFacts
    <2>3. TurnOK(route[t], link[t], heard[t], call[t], status[t], Stored(t), TRUE)
      BY <2>2, TurnFacts
    <2>4. r2 \in Routes /\ c2 \in CallPairs
          /\ TurnOK(r2, link[t], heard[t], c2, status[t], Stored(t), TRUE)
      BY <2>3, TurnFacts, SettleKeeps
    <2> HIDE DEF r2, c2
    <2>5. TurnOK(r2, link[t], heard[t], c2, status[t], Stored(t), t <= opened)
      BY <2>2, <2>4
    <2>6. QED
      BY <2>1, <2>2, <2>4, <2>5, TurnFacts, SilentStep
  <1>3. QED
    BY <1>1, <1>2

LEMMA ForwardStep ==
  ASSUME IInv, NEW t \in Turns, NEW e \in Events, NEW q \in Routes,
         route[t].pc \in {"reading", "saving"}, At(t, "reading") => ~route[t].over,
         q.pc = "reading", q.text = route[t].text + (IF e = "delta" THEN 1 ELSE 0),
         At(t, "saving") => q.over,
         e = "started" => ~route[t].msg /\ At(t, "reading"),
         e = "delta" => route[t].msg,
         e = "completed" => At(t, "saving") /\ status[t] = "completed"
                            /\ Stored(t) = {route[t].text},
         ~q.msg => ~route[t].msg /\ q.over,
         Silent, Forward(t, q, e)
  PROVE  IInv'
  <1>1. CASE Cancelled(t)
    BY <1>1, SettleStep DEF Forward
  <1>2. CASE ~Cancelled(t)
    <2> DEFINE l2 == Sent(link[t], e)
    <2>1. /\ route' = [route EXCEPT ![t] = q] /\ call' = call
          /\ link' = [link EXCEPT ![t] = l2]
      BY <1>2 DEF Forward, Sent
    <2>2. t <= opened /\ call' = [call EXCEPT ![t] = call[t]]
      BY <2>1, TurnFacts
    <2>3. TurnOK(route[t], link[t], heard[t], call[t], status[t], Stored(t), TRUE)
      BY <2>2, TurnFacts
    <2>4. /\ route[t] \in Routes /\ link[t] \in Links /\ heard[t] \in Readings
          /\ call[t] \in CallPairs /\ status[t] \in TurnStates
      BY TurnFacts
    <2>5. l2 \in Links /\ TurnOK(q, l2, heard[t], call[t], status[t], Stored(t), TRUE)
      BY <2>3, <2>4, ForwardKeeps DEF At
    <2> HIDE DEF l2
    <2>6. TurnOK(q, l2, heard[t], call[t], status[t], Stored(t), t <= opened)
      BY <2>2, <2>5
    <2>7. QED
      BY <2>1, <2>2, <2>4, <2>5, <2>6, SilentStep
  <1>3. QED
    BY <1>1, <1>2

-------------------------------------------------------------------------------
(* The actions of the handler. *)

LEMMA LostRequest ==
  ASSUME TypeOK, NEW t \in Turns
  PROVE  /\ RequestFails(t) => failures' \in 0 .. MaxEvents
         /\ UNCHANGED failures => failures' \in 0 .. MaxEvents
         /\ Lose => failures' \in 0 .. MaxEvents
  BY RoomMeans DEF RequestFails, Lose, TypeOK

LEMMA CallType ==
  ASSUME NEW n \in 0 .. MaxText, NEW k \in {"completed", "stopped", "failed"}
  PROVE  /\ Call(k, n) \in Requests /\ Call(k, n).phase = "sent"
         /\ Call(k, n).status = k /\ Call(k, n).text = n
  BY DEF Call, Requests

\* The loop goes on to ask for a stream, or to report that there will be none.
LEMMA EarlyKeeps ==
  ASSUME NEW r \in Routes, NEW l \in Links, NEW h \in Readings, NEW c \in CallPairs,
         NEW s \in Started, NEW a, TurnOK(r, l, h, c, s, a, TRUE),
         r.pc \in {"starting", "asking"},
         NEW q \in Routes, q.pc \in {"asking", "reading", "failing"}, q.text = r.text
  PROVE  LET c2 == [c EXCEPT !["loop"] = Call("failed", 0)]
         IN  /\ TurnOK(q, l, h, c, s, a, TRUE)
             /\ c2 \in CallPairs /\ TurnOK(q, l, h, c2, s, a, TRUE)
  <1> DEFINE c2 == [c EXCEPT !["loop"] = Call("failed", 0)]
  <1>1. Call("failed", 0) \in Requests /\ Call("failed", 0).phase = "sent"
    BY CallType
  <1>2. c2 \in CallPairs /\ c2["loop"] = Call("failed", 0) /\ c2["cancel"] = c["cancel"]
    BY <1>1 DEF CallPairs, Threads
  <1>3. l.events = <<>> /\ h.text = 0 /\ r.text = 0
    BY DEF TurnOK, Early
  <1>4. Deltas(l.events) = 0 /\ Range(l.events) = {} /\ DOMAIN l.events = {}
    BY <1>3, DeltasEmpty DEF Range
  <1>5. TurnOK(q, l, h, c, s, a, TRUE)
    BY <1>3, <1>4 DEF TurnOK, Early
  <1> HIDE DEF c2
  <1>6. TurnOK(q, l, h, c2, s, a, TRUE)
    BY <1>1, <1>2, <1>3, <1>4, <1>5 DEF TurnOK, Early, Threads
  <1>7. QED
    BY <1>2, <1>5, <1>6 DEF c2

\* The complete answer is sent to Core.
LEMMA SavingKeeps ==
  ASSUME NEW r \in Routes, NEW l \in Links, NEW h \in Readings, NEW c \in CallPairs,
         NEW s \in TurnStates, NEW a, TurnOK(r, l, h, c, s, a, TRUE),
         r.pc = "reading", ~r.over, r.msg
  PROVE  LET q == [r EXCEPT !.over = TRUE, !.pc = "saving"]
             c2 == [c EXCEPT !["loop"] = Call("completed", r.text)]
         IN  q \in Routes /\ c2 \in CallPairs /\ TurnOK(q, l, h, c2, s, a, TRUE)
  <1> DEFINE q0 == [r EXCEPT !.over = TRUE]
             q == [q0 EXCEPT !.pc = "saving"]
             i == Call("completed", r.text)
             c2 == [c EXCEPT !["loop"] = i]
  <1>1. q0 \in Routes /\ q0.over /\ q0.msg /\ q0.text = r.text
    BY DEF Routes
  <1>2. q \in Routes /\ q.pc = "saving" /\ q.over /\ q.msg /\ q.text = r.text
    <2> HIDE DEF q0
    <2>1. QED
      BY <1>1 DEF Routes, Pcs
  <1>3. /\ i \in Requests /\ i.phase = "sent" /\ i.status = "completed"
        /\ i.text = r.text /\ i # None
    <2>1. r.text \in 0 .. MaxText
      BY DEF Routes
    <2>2. QED
      BY <2>1, CallType
  <1> HIDE DEF q, i
  <1>4. c2 \in CallPairs /\ c2["loop"] = i /\ c2["cancel"] = c["cancel"]
    BY <1>3 DEF CallPairs, Threads
  <1>5. "completed" \notin Range(l.events) /\ s \in Started
    BY DEF TurnOK
  <1> HIDE DEF c2
  <1>6. TurnOK(q, l, h, c2, s, a, TRUE)
    BY <1>2, <1>3, <1>4, <1>5 DEF TurnOK, Early, Threads
  <1>7. QED
    BY <1>2, <1>4, <1>6 DEF q, q0, i, c2

\* The cancel callback leaves the main loop alone.
LEMMA CancelKeeps ==
  ASSUME NEW r \in Routes, NEW l \in Links, NEW h \in Readings, NEW c \in CallPairs,
         NEW s \in TurnStates, NEW a, NEW open, TurnOK(r, l, h, c, s, a, open),
         NEW q \in Routes, q.pc = r.pc, q.msg = r.msg, q.text = r.text, q.over = r.over,
         NEW c2 \in CallPairs, c2["loop"] = c["loop"],
         \/ c2["cancel"] \in {None, c["cancel"]}
         \/ s \in Started /\ c2["cancel"].phase = "sent"
  PROVE  TurnOK(q, l, h, c2, s, a, open)
  BY DEF TurnOK, Early, Threads

LEMMA ResolveStep == ASSUME IInv, NEW t \in Turns, ResolveModel(t) PROVE IInv'
  <1>1. failures' \in 0 .. MaxEvents
    BY LostRequest DEF IInv, ResolveModel
  <1>2. CASE RespondError(t) /\ UNCHANGED status
    <2>1. Silent /\ Return(t, "broken") /\ ~At(t, "none")
      BY <1>1, <1>2 DEF Silent, core, ResolveModel, RespondError, At
    <2>2. QED
      BY <2>1, ReturnStep
  <1>3. CASE /\ Goto(t, "starting") /\ status' = [status EXCEPT ![t] = "asked"]
             /\ UNCHANGED <<link, call>>
    <2> DEFINE q == [route[t] EXCEPT !.pc = "starting"]
    <2>1. /\ route' = [route EXCEPT ![t] = q] /\ link' = [link EXCEPT ![t] = link[t]]
          /\ call' = [call EXCEPT ![t] = call[t]] /\ status' = [status EXCEPT ![t] = "asked"]
      BY <1>3, TurnFacts DEF Goto
    <2>2. q \in Routes /\ q.pc = "starting" /\ q.text = route[t].text
      BY TurnFacts DEF Routes, Pcs
    <2> HIDE DEF q
    <2>3. /\ status[t] = "none" /\ route[t].pc = "model" /\ t <= opened
          /\ TurnOK(route[t], link[t], heard[t], call[t], status[t], Stored(t), TRUE)
      <3>1. route[t].pc = "model"
        BY DEF At, ResolveModel
      <3>2. t <= opened
        BY <3>1, TurnFacts
      <3>3. TurnOK(route[t], link[t], heard[t], call[t], status[t], Stored(t), TRUE)
        BY <3>2, TurnFacts
      <3>4. status[t] = "none"
        BY <3>1, <3>3 DEF TurnOK
      <3>5. QED
        BY <3>1, <3>2, <3>3, <3>4
    <2>4. TurnOK(q, link[t], heard[t], call[t], "asked", Stored(t), TRUE)
      <3>1. \A k \in Threads : call[t][k] = None
        BY <2>3 DEF TurnOK, Started
      <3>2. link[t].events = <<>>
        BY <2>3 DEF TurnOK, Early
      <3>3. Range(link[t].events) = {}
        BY <3>2 DEF Range
      <3>4. QED
        BY <2>2, <2>3, <3>1, <3>3 DEF TurnOK, Early
    <2>5. "asked" \in TurnStates /\ ~(status[t] \in Ended)
      BY <2>3 DEF TurnStates, Ended
    <2>6. TurnOK(q, link[t], heard[t], call[t], "asked", Stored(t), t <= opened)
      BY <2>3, <2>4
    <2>7. UNCHANGED <<browser, log>> /\ gone' \in [Turns -> {"no", "aborted", "noticed"}]
      BY TypeMeans DEF IInv, ResolveModel
    <2>8. QED
      <3>1. link[t] \in Links /\ call[t] \in CallPairs
        BY TurnFacts
      <3>2. QED
        BY <1>1, <2>1, <2>2, <2>5, <2>6, <2>7, <3>1, TurnStep
  <1>4. QED
    BY <1>2, <1>3 DEF ResolveModel

LEMMA TurnStartsStep == ASSUME IInv, NEW t \in Turns, TurnStarts(t) PROVE IInv'
  <1>1. Silent
    BY LostRequest DEF TurnStarts, Silent, core, IInv
  <1>2. /\ route[t].pc = "starting" /\ status[t] \in Started /\ link' = link
        /\ t <= opened
    BY TurnFacts DEF TurnStarts, At
  <1>3. TurnOK(route[t], link[t], heard[t], call[t], status[t], Stored(t), TRUE)
    BY <1>2, TurnFacts
  <1>4. link' = [link EXCEPT ![t] = link[t]] /\ call = [call EXCEPT ![t] = call[t]]
    BY <1>2, TurnFacts
  <1> DEFINE c2 == [call[t] EXCEPT !["loop"] = Call("failed", 0)]
  <1>5. ASSUME NEW q \in Routes, q.pc \in {"asking", "reading", "failing"},
               q.text = route[t].text
        PROVE  /\ TurnOK(q, link[t], heard[t], call[t], status[t], Stored(t), t <= opened)
               /\ c2 \in CallPairs
               /\ TurnOK(q, link[t], heard[t], c2, status[t], Stored(t), t <= opened)
    BY <1>2, <1>3, <1>5, TurnFacts, EarlyKeeps
  <1>6. ASSUME NEW p \in {"asking", "failing", "reading"}
        PROVE  LET q == [route[t] EXCEPT !.pc = p]
               IN  q \in Routes /\ q.pc = p /\ q.text = route[t].text
    <2>1. route[t] \in Routes /\ p \in Pcs
      BY TurnFacts DEF Pcs
    <2>2. QED
      BY <2>1 DEF Routes
  <1>7. CASE Goto(t, "asking") /\ UNCHANGED call
    <2> DEFINE q == [route[t] EXCEPT !.pc = "asking"]
    <2>1. q \in Routes /\ q.pc = "asking" /\ q.text = route[t].text
      BY <1>6
    <2>2. route' = [route EXCEPT ![t] = q]
      BY <1>7 DEF Goto
    <2> HIDE DEF q
    <2>3. QED
      BY <1>1, <1>4, <1>5, <1>7, <2>1, <2>2, TurnFacts, SilentStep
  <1>8. CASE /\ route' = [route EXCEPT ![t].pc = "reading", ![t].local = TRUE]
             /\ UNCHANGED call
    <2> DEFINE q0 == [route[t] EXCEPT !.pc = "reading"]
               q == [q0 EXCEPT !.local = TRUE]
    <2>1. q0 \in Routes /\ q0.pc = "reading" /\ q0.text = route[t].text
      BY <1>6
    <2>2. route' = [route EXCEPT ![t] = q] /\ call' = call
      BY <1>8
    <2> HIDE DEF q0
    <2>3. q \in Routes /\ q.pc = "reading" /\ q.text = route[t].text
      BY <2>1 DEF Routes
    <2> HIDE DEF q
    <2>4. QED
      BY <1>1, <1>4, <1>5, <2>2, <2>3, TurnFacts, SilentStep
  <1>9. CASE Goto(t, "failing") /\ call' = [call EXCEPT ![t].loop = Call("failed", 0)]
    <2> DEFINE q == [route[t] EXCEPT !.pc = "failing"]
    <2>1. q \in Routes /\ q.pc = "failing" /\ q.text = route[t].text
      BY <1>6
    <2>2. route' = [route EXCEPT ![t] = q] /\ call' = [call EXCEPT ![t] = c2]
      BY <1>9 DEF Goto
    <2> HIDE DEF q, c2
    <2>3. QED
      BY <1>1, <1>4, <1>5, <2>1, <2>2, TurnFacts, SilentStep
  <1>10. QED
    BY <1>7, <1>8, <1>9 DEF TurnStarts, Interpreted

LEMMA AskModelStep == ASSUME IInv, NEW t \in Turns, AskModel(t) PROVE IInv'
  <1>1. Silent
    BY LostRequest DEF AskModel, Silent, core, IInv
  <1>2. route[t].pc = "asking" /\ link' = link /\ t <= opened
    BY TurnFacts DEF AskModel, At
  <1>3. TurnOK(route[t], link[t], heard[t], call[t], status[t], Stored(t), TRUE)
    BY <1>2, TurnFacts
  <1>4. status[t] \in Started
    BY <1>2, <1>3 DEF TurnOK
  <1>5. link' = [link EXCEPT ![t] = link[t]] /\ call = [call EXCEPT ![t] = call[t]]
    BY <1>2, TurnFacts
  <1> DEFINE c2 == [call[t] EXCEPT !["loop"] = Call("failed", 0)]
  <1>6. ASSUME NEW p \in {"failing", "reading"}
        PROVE  LET q == [route[t] EXCEPT !.pc = p]
               IN  /\ q \in Routes /\ c2 \in CallPairs
                   /\ TurnOK(q, link[t], heard[t], call[t], status[t], Stored(t), t <= opened)
                   /\ TurnOK(q, link[t], heard[t], c2, status[t], Stored(t), t <= opened)
    <2> DEFINE q == [route[t] EXCEPT !.pc = p]
    <2>1. q \in Routes /\ q.pc = p /\ q.text = route[t].text
      BY TurnFacts DEF Routes, Pcs
    <2> HIDE DEF q
    <2>2. /\ TurnOK(q, link[t], heard[t], call[t], status[t], Stored(t), TRUE)
          /\ c2 \in CallPairs
          /\ TurnOK(q, link[t], heard[t], c2, status[t], Stored(t), TRUE)
      BY <1>2, <1>3, <1>4, <2>1, TurnFacts, EarlyKeeps
    <2>3. QED
      BY <1>2, <2>1, <2>2 DEF q
  <1>7. CASE Goto(t, "reading") /\ UNCHANGED call
    <2> DEFINE q == [route[t] EXCEPT !.pc = "reading"]
    <2>1. route' = [route EXCEPT ![t] = q]
      BY <1>7 DEF Goto
    <2>2. /\ q \in Routes
          /\ TurnOK(q, link[t], heard[t], call[t], status[t], Stored(t), t <= opened)
      BY <1>6
    <2> HIDE DEF q
    <2>3. QED
      BY <1>1, <1>5, <1>7, <2>1, <2>2, TurnFacts, SilentStep
  <1>8. CASE Goto(t, "failing") /\ call' = [call EXCEPT ![t].loop = Call("failed", 0)]
    <2> DEFINE q == [route[t] EXCEPT !.pc = "failing"]
    <2>1. route' = [route EXCEPT ![t] = q] /\ call' = [call EXCEPT ![t] = c2]
      BY <1>8 DEF Goto
    <2>2. /\ q \in Routes /\ c2 \in CallPairs
          /\ TurnOK(q, link[t], heard[t], c2, status[t], Stored(t), t <= opened)
      BY <1>6
    <2> HIDE DEF q, c2
    <2>3. QED
      BY <1>1, <1>5, <2>1, <2>2, TurnFacts, SilentStep
  <1>9. QED
    BY <1>7, <1>8 DEF AskModel

\* The loop gives up before it streams, or is over once the turn is settled.
LEMMA ReturnSteps ==
  ASSUME IInv, NEW t \in Turns, TurnDoesNotStart(t) \/ TurnFailed(t) \/ LoopSettled(t)
  PROVE  IInv'
  <1>1. failures' \in 0 .. MaxEvents
    BY LostRequest DEF TurnDoesNotStart, TurnFailed, LoopSettled, IInv
  <1>2. Silent /\ ~At(t, "none")
    BY <1>1 DEF TurnDoesNotStart, TurnFailed, LoopSettled, At, Silent, core
  <1>3. route[t].exit \in {"closed", "broken"}
    BY TurnFacts DEF Routes
  <1>4. Return(t, "broken") \/ Return(t, route[t].exit)
    BY DEF TurnDoesNotStart, TurnFailed, LoopSettled, RespondError
  <1>5. QED
    BY <1>2, <1>3, <1>4, ReturnStep

LEMMA ForwardLineStep == ASSUME IInv, NEW t \in Turns, ForwardLine(t) PROVE IInv'
  <1> DEFINE r == route[t]
  <1>1. Silent
    BY LostRequest DEF ForwardLine, Silent, core, IInv
  <1>2. r.pc = "reading" /\ ~r.over /\ t <= opened /\ r \in Routes /\ r.text \in Nat
    BY TurnFacts DEF ForwardLine, At, Routes
  <1>3. CASE ~r.msg /\ Forward(t, [r EXCEPT !.msg = TRUE], "started")
    <2> DEFINE q == [r EXCEPT !.msg = TRUE]
    <2>1. q \in Routes /\ q.pc = "reading" /\ q.text = r.text /\ q.msg
      BY <1>2 DEF Routes
    <2>2. Forward(t, q, "started") /\ ~r.msg
      BY <1>3
    <2> HIDE DEF q
    <2>3. QED
      BY <1>1, <1>2, <2>1, <2>2, ForwardStep DEF At, Events
  <1>4. CASE /\ r.msg /\ r.text < (IF r.local THEN 1 ELSE MaxText)
             /\ Forward(t, [r EXCEPT !.text = @ + 1], "delta")
    <2> DEFINE n == r.text + 1
               q == [r EXCEPT !.text = n]
    <2>1. n \in 0 .. MaxText
      BY <1>2, <1>4
    <2>2. Forward(t, q, "delta") /\ r.msg
      BY <1>4
    <2> HIDE DEF n
    <2>3. q \in Routes /\ q.pc = "reading" /\ q.text = n /\ q.msg
      BY <1>2, <2>1, <2>2 DEF Routes
    <2>4. q.text = r.text + 1
      BY <2>3 DEF n
    <2> HIDE DEF q
    <2>5. QED
      BY <1>1, <1>2, <2>2, <2>3, <2>4, ForwardStep DEF At, Events
  <1>5. CASE /\ r.msg /\ r.text > 0
             /\ route' = [route EXCEPT ![t].over = TRUE, ![t].pc = "saving"]
             /\ call' = [call EXCEPT ![t].loop = Call("completed", r.text)]
             /\ UNCHANGED link
    <2> DEFINE q == [r EXCEPT !.over = TRUE, !.pc = "saving"]
               c2 == [call[t] EXCEPT !["loop"] = Call("completed", r.text)]
    <2>1. route' = [route EXCEPT ![t] = q] /\ call' = [call EXCEPT ![t] = c2]
      BY <1>5
    <2>2. link' = [link EXCEPT ![t] = link[t]] /\ r.msg
      BY <1>5, TurnFacts
    <2>3. TurnOK(route[t], link[t], heard[t], call[t], status[t], Stored(t), TRUE)
      BY <1>2, TurnFacts
    <2>4. /\ link[t] \in Links /\ heard[t] \in Readings /\ call[t] \in CallPairs
          /\ status[t] \in TurnStates
      BY TurnFacts
    <2>5. /\ q \in Routes /\ c2 \in CallPairs
          /\ TurnOK(q, link[t], heard[t], c2, status[t], Stored(t), TRUE)
      BY <1>2, <2>2, <2>3, <2>4, SavingKeeps
    <2> HIDE DEF q, c2
    <2>6. TurnOK(q, link[t], heard[t], c2, status[t], Stored(t), t <= opened)
      BY <1>2, <2>5
    <2>7. QED
      BY <1>1, <2>1, <2>2, <2>4, <2>5, <2>6, SilentStep
  <1>6. CASE Forward(t, [r EXCEPT !.over = TRUE], "error")
    <2> DEFINE q == [r EXCEPT !.over = TRUE]
    <2>1. q \in Routes /\ q.pc = "reading" /\ q.text = r.text /\ q.over /\ q.msg = r.msg
      BY <1>2 DEF Routes
    <2>2. Forward(t, q, "error")
      BY <1>6
    <2> HIDE DEF q
    <2>3. QED
      BY <1>1, <1>2, <2>1, <2>2, ForwardStep DEF At, Events
  <1>7. QED
    BY <1>3, <1>4, <1>5, <1>6 DEF ForwardLine

\* The answer is announced: as completed only if Core said that it is saved.
LEMMA AnswerSavedStep == ASSUME IInv, NEW t \in Turns, AnswerSaved(t) PROVE IInv'
  <1> DEFINE r == route[t]
             saved == call[t].loop.phase = "ok"
             e == IF saved THEN "completed" ELSE "error"
  <1>1. Silent
    BY LostRequest DEF AnswerSaved, Silent, core, IInv
  <1>2. /\ r.pc = "saving" /\ t <= opened /\ r \in Routes /\ call[t] \in CallPairs
        /\ TurnOK(r, link[t], heard[t], call[t], status[t], Stored(t), TRUE)
    <2>1. r.pc = "saving"
      BY DEF AnswerSaved, At
    <2>2. t <= opened
      BY <2>1, TurnFacts
    <2>3. QED
      BY <2>1, <2>2, TurnFacts
  <1> DEFINE q0 == [r EXCEPT !.pc = "reading"]
             q == [q0 EXCEPT !.finalized = saved]
  <1>3. Forward(t, q, e)
    BY DEF AnswerSaved
  <1>4. q0 \in Routes /\ q0.pc = "reading" /\ q0.text = r.text /\ q0.over = r.over
        /\ q0.msg = r.msg
    BY <1>2 DEF Routes, Pcs
  <1>5. saved \in BOOLEAN
    OBVIOUS
  <1>6. saved => status[t] = "completed" /\ Stored(t) = {r.text}
    BY <1>2 DEF TurnOK, Threads, Ended
  <1>7. e \in {"completed", "error"} /\ e \in Events
    BY DEF Events
  <1>8. e = "completed" => saved
    OBVIOUS
  <1> HIDE DEF q0, saved, e
  <1>9. /\ q \in Routes /\ q.pc = "reading" /\ q.text = r.text /\ q.over = r.over
        /\ q.msg = r.msg
    BY <1>4, <1>5 DEF Routes
  <1> HIDE DEF q
  <1>10. r.over /\ r.msg
    BY <1>2 DEF TurnOK
  <1>11. /\ q.text = r.text + (IF e = "delta" THEN 1 ELSE 0) /\ q.over /\ q.msg
         /\ e # "started" /\ e # "delta"
    BY <1>2, <1>7, <1>9, <1>10 DEF Routes
  <1>12. e = "completed" => At(t, "saving") /\ status[t] = "completed"
                            /\ Stored(t) = {route[t].text}
    BY <1>2, <1>6, <1>8 DEF At
  <1>13. /\ route[t].pc \in {"reading", "saving"}
         /\ At(t, "reading") => ~route[t].over
    BY <1>2 DEF At
  <1>14. QED
    BY <1>1, <1>3, <1>7, <1>9, <1>11, <1>12, <1>13, ForwardStep

LEMMA SourceStep ==
  ASSUME IInv, NEW t \in Turns, SourceEnds(t) \/ SourceBreaks(t) PROVE IInv'
  <1>1. failures' \in 0 .. MaxEvents
    BY LostRequest DEF SourceEnds, SourceBreaks, IInv
  <1>2. Silent /\ route[t].pc = "reading" /\ route[t] \in Routes
    BY <1>1, TurnFacts DEF SourceEnds, SourceBreaks, Silent, core, At
  <1>3. Settle(t, route[t], "closed") \/ Settle(t, route[t], "broken")
    BY DEF SourceEnds, SourceBreaks
  <1>4. QED
    BY <1>2, <1>3, SettleStep

LEMMA NoticeStep == ASSUME IInv, NEW t \in Turns, NoticeAbort(t) PROVE IInv'
  <1>1. /\ UNCHANGED <<browser, log>> /\ failures' \in 0 .. MaxEvents
        /\ gone' \in [Turns -> {"no", "aborted", "noticed"}]
    BY TypeMeans, LostRequest DEF NoticeAbort, IInv, core
  <1>2. route' = route /\ link' = link /\ call' = call /\ status' = status
    BY DEF NoticeAbort, core
  <1>3. /\ route' = [route EXCEPT ![t] = route[t]] /\ link' = [link EXCEPT ![t] = link[t]]
        /\ call' = [call EXCEPT ![t] = call[t]] /\ status' = [status EXCEPT ![t] = status[t]]
    BY <1>2, TurnFacts
  <1>4. QED
    BY <1>1, <1>3, TurnFacts, TurnStep

LEMMA CancelStep == ASSUME IInv, NEW t \in Turns, Cancel(t) PROVE IInv'
  <1> DEFINE r == route[t]
  <1>1. Silent
    BY LostRequest DEF Cancel, Silent, core, IInv
  <1>2. /\ r.pc \in {"reading", "saving", "settling"} /\ r \in Routes /\ call[t] \in CallPairs
        /\ TurnOK(r, link[t], heard[t], call[t], status[t], Stored(t), t <= opened)
        /\ link' = [link EXCEPT ![t] = link[t]]
    BY TurnFacts DEF Cancel
  <1>3. CASE route' = [route EXCEPT ![t].cancel = "done"] /\ UNCHANGED call
    <2> DEFINE q == [r EXCEPT !.cancel = "done"]
    <2>1. /\ q \in Routes /\ q.pc = r.pc /\ q.msg = r.msg /\ q.text = r.text
          /\ q.over = r.over
      BY <1>2 DEF Routes
    <2>2. route' = [route EXCEPT ![t] = q] /\ call' = [call EXCEPT ![t] = call[t]]
      BY <1>3, TurnFacts
    <2> HIDE DEF q
    <2>3. TurnOK(q, link[t], heard[t], call[t], status[t], Stored(t), t <= opened)
      BY <1>2, <2>1, TurnFacts, CancelKeeps
    <2>4. QED
      BY <1>1, <1>2, <2>1, <2>2, <2>3, TurnFacts, SilentStep
  <1>4. CASE /\ route' = [route EXCEPT ![t].cancel = "settling", ![t].finalized = TRUE]
             /\ call' = [call EXCEPT ![t].cancel = Interrupted(route[t])]
    <2> DEFINE q0 == [r EXCEPT !.cancel = "settling"]
               q == [q0 EXCEPT !.finalized = TRUE]
               i == Interrupted(r)
               c2 == [call[t] EXCEPT !["cancel"] = i]
    <2>1. route' = [route EXCEPT ![t] = q] /\ call' = [call EXCEPT ![t] = c2]
      BY <1>4
    <2>2. /\ q0 \in Routes /\ q0.pc = r.pc /\ q0.msg = r.msg /\ q0.text = r.text
          /\ q0.over = r.over
      BY <1>2 DEF Routes
    <2> HIDE DEF q0
    <2>3. /\ q \in Routes /\ q.pc = r.pc /\ q.msg = r.msg /\ q.text = r.text
          /\ q.over = r.over
      BY <2>2 DEF Routes
    <2>4. i \in Requests /\ i.phase = "sent"
      BY <1>2, InterruptedType
    <2> HIDE DEF q, i
    <2>5. c2 \in CallPairs /\ c2["loop"] = call[t]["loop"] /\ c2["cancel"] = i
      BY <1>2, <2>4 DEF CallPairs, Threads
    <2>6. status[t] \in Started
      BY <1>2 DEF TurnOK
    <2> HIDE DEF c2
    <2>7. TurnOK(q, link[t], heard[t], c2, status[t], Stored(t), t <= opened)
      BY <1>2, <2>3, <2>4, <2>5, <2>6, TurnFacts, CancelKeeps
    <2>8. QED
      BY <1>1, <1>2, <2>1, <2>3, <2>5, <2>7, TurnFacts, SilentStep
  <1>5. QED
    BY <1>3, <1>4 DEF Cancel

LEMMA CancelSettledStep == ASSUME IInv, NEW t \in Turns, CancelSettled(t) PROVE IInv'
  <1> DEFINE to == IF At(t, "done") THEN "idle" ELSE "done"
             q == [route[t] EXCEPT !.cancel = to]
             c2 == [call[t] EXCEPT !["cancel"] = None]
  <1>1. Silent
    BY LostRequest DEF CancelSettled, Silent, core, IInv
  <1>2. /\ route' = [route EXCEPT ![t] = q] /\ call' = [call EXCEPT ![t] = c2]
        /\ link' = [link EXCEPT ![t] = link[t]]
    BY TurnFacts DEF CancelSettled
  <1>3. to \in {"idle", "settling", "done"}
    OBVIOUS
  <1> HIDE DEF to
  <1>4. /\ q \in Routes /\ q.pc = route[t].pc /\ q.msg = route[t].msg
        /\ q.text = route[t].text /\ q.over = route[t].over
    BY <1>3, TurnFacts DEF Routes
  <1>5. c2 \in CallPairs /\ c2["loop"] = call[t]["loop"] /\ c2["cancel"] = None
    BY TurnFacts DEF CallPairs, Threads
  <1> HIDE DEF q, c2
  <1>6. TurnOK(q, link[t], heard[t], c2, status[t], Stored(t), t <= opened)
    BY <1>4, <1>5, TurnFacts, CancelKeeps
  <1>7. QED
    BY <1>1, <1>2, <1>4, <1>5, <1>6, TurnFacts, SilentStep

-------------------------------------------------------------------------------
(* The steps of Core. *)

LEMMA MessageType ==
  ASSUME NEW k \in {"user", "assistant"}, NEW t \in Turns, NEW n \in 0 .. MaxText
  PROVE  /\ Message(k, t, n) \in Messages /\ Message(k, t, n).role = k
         /\ Message(k, t, n).turn = t /\ Message(k, t, n).text = n
  BY DEF Message, Messages

LEMMA MessageIs ==
  ASSUME NEW m \in Messages
  PROVE  m = Message(m.role, m.turn, m.text)
  BY DEF Message, Messages

\* What a row of the log adds to the stored answers.
LEMMA LogAppend ==
  ASSUME log \in Seq(Messages), NEW m \in Messages, log' = Append(log, m), NEW u \in Turns
  PROVE  /\ m.role = "assistant" /\ m.turn = u => Stored(u)' = Stored(u) \cup {m.text}
         /\ ~(m.role = "assistant" /\ m.turn = u) => Stored(u)' = Stored(u)
  <1>1. Range(log') = Range(log) \cup {m}
    <2>1. /\ DOMAIN log' = DOMAIN log \cup {Len(log) + 1} /\ log'[Len(log) + 1] = m
          /\ \A i \in DOMAIN log : log'[i] = log[i]
      OBVIOUS
    <2>2. QED
      BY <2>1 DEF Range
  <1>2. /\ m.role \in {"user", "assistant"} /\ m.turn \in Turns /\ m.text \in 0 .. MaxText
        /\ m = Message(m.role, m.turn, m.text)
    BY MessageIs DEF Messages
  <1>3. \A n \in 0 .. MaxText :
           Message("assistant", u, n) = m <=> m.role = "assistant" /\ m.turn = u /\ m.text = n
    BY <1>2, MessageType
  <1>4. Stored(u)' = {n \in 0 .. MaxText : Message("assistant", u, n) \in Range(log')}
    BY DEF Stored, Answers
  <1>5. Stored(u) = {n \in 0 .. MaxText : Message("assistant", u, n) \in Range(log)}
    BY DEF Stored, Answers
  <1>6. QED
    BY <1>1, <1>2, <1>3, <1>4, <1>5

\* A turn that has not ended has no answer.
LEMMA NoAnswerYet ==
  ASSUME IInv, NEW t \in Turns, status[t] \notin Ended
  PROVE  Stored(t) = {}
  <1>1. \A i \in DOMAIN log : ~Answers1(i, t)
    BY DEF IInv, LogInv
  <1>2. ASSUME NEW n \in 0 .. MaxText, Message("assistant", t, n) \in Range(log) PROVE FALSE
    <2>1. PICK i \in DOMAIN log : log[i] = Message("assistant", t, n)
      BY <1>2 DEF Range
    <2>2. log[i].role = "assistant" /\ log[i].turn = t
      BY <2>1, MessageType
    <2>3. QED
      BY <1>1, <2>2 DEF Answers1
  <1>3. QED
    BY <1>2 DEF Stored, Answers

\* What a step of Core for turn t has to be shown to do.
LEMMA CoreStep ==
  ASSUME IInv, NEW t \in Turns, NEW c \in CallPairs, NEW s \in TurnStates,
         UNCHANGED <<browser, link, gone, route>>, failures' \in 0 .. MaxEvents, t <= opened,
         call' = [call EXCEPT ![t] = c], status' = [status EXCEPT ![t] = s],
         status[t] \in Ended => s \in Ended,
         \/ log' = log
         \/ \E m \in Messages :
              /\ log' = Append(log, m) /\ m.turn = t
              /\ m.role = "assistant" => s \in Ended /\ status[t] \notin Ended,
         TurnOK(route[t], link[t], heard[t], c, s, Stored(t)', TRUE)
  PROVE  IInv'
  <1>1. TypeOK /\ LogInv /\ ViewInv
    BY DEF IInv
  <1>2. /\ call \in [Turns -> CallPairs] /\ status \in [Turns -> TurnStates]
        /\ log \in Seq(Messages)
    BY <1>1, TypeMeans
  <1>3. /\ view' = view /\ shown' = shown /\ persisted' = persisted /\ heard' = heard
        /\ page' = page /\ opened' = opened /\ link' = link /\ gone' = gone /\ route' = route
    BY DEF browser
  <1>4. log' \in Seq(Messages)
    BY <1>2
  <1>5. TypeOK'
    <2>1. call' \in [Turns -> CallPairs] /\ status' \in [Turns -> TurnStates]
      BY <1>2
    <2>2. QED
      BY <1>1, <1>3, <1>4, <2>1 DEF TypeOK, CallPairs, TurnStates
  <1>6. LogInv' /\ \A u \in Turns \ {t} : Stored(u)' = Stored(u)
    <2>1. \A u \in Turns : status[u] \in Ended => status'[u] \in Ended
      BY <1>2
    <2>2. CASE log' = log
      BY <1>1, <1>3, <2>1, <2>2 DEF LogInv, Answers1, Stored, Answers
    <2>3. ASSUME NEW m \in Messages, log' = Append(log, m), m.turn = t,
                 m.role = "assistant" => s \in Ended /\ status[t] \notin Ended
          PROVE  LogInv' /\ \A u \in Turns \ {t} : Stored(u)' = Stored(u)
      <3>1. /\ DOMAIN log' = DOMAIN log \cup {Len(log) + 1} /\ log'[Len(log) + 1] = m
            /\ \A i \in DOMAIN log : log'[i] = log[i]
        BY <1>2, <2>3
      <3>2. \A u \in Turns \ {t} : Stored(u)' = Stored(u)
        BY <1>2, <2>3, LogAppend
      <3>3. \A i \in DOMAIN log' : log'[i].turn <= opened'
        BY <1>1, <1>3, <2>3, <3>1 DEF LogInv
      <3>4. \A i \in DOMAIN log, u \in Turns : Answers1(i, u)' <=> Answers1(i, u)
        BY <3>1 DEF Answers1
      <3>5. ASSUME NEW i, i = Len(log) + 1, NEW u \in Turns
            PROVE  Answers1(i, u)' <=> m.role = "assistant" /\ u = t
        BY <2>3, <3>1, <3>5 DEF Answers1
      <3>6. m.role = "assistant" => status'[t] \in Ended /\ \A i \in DOMAIN log : ~Answers1(i, t)
        BY <1>1, <1>2, <2>3 DEF LogInv
      <3>7. \A u \in Turns, i \in DOMAIN log' : Answers1(i, u)' => status'[u] \in Ended
        <4> SUFFICES ASSUME NEW u \in Turns, NEW i \in DOMAIN log', Answers1(i, u)'
                     PROVE  status'[u] \in Ended
          OBVIOUS
        <4>1. CASE i \in DOMAIN log
          BY <1>1, <2>1, <3>4, <4>1 DEF LogInv
        <4>2. CASE i = Len(log) + 1
          BY <3>5, <3>6, <4>2
        <4>3. QED
          BY <3>1, <4>1, <4>2
      <3>8. \A u \in Turns, i, j \in DOMAIN log' :
               Answers1(i, u)' /\ Answers1(j, u)' => i = j
        <4> SUFFICES ASSUME NEW u \in Turns, NEW i \in DOMAIN log', NEW j \in DOMAIN log',
                            Answers1(i, u)', Answers1(j, u)'
                     PROVE  i = j
          OBVIOUS
        <4>1. CASE i \in DOMAIN log /\ j \in DOMAIN log
          BY <1>1, <3>4, <4>1 DEF LogInv
        <4>2. CASE i \in DOMAIN log /\ j = Len(log) + 1
          BY <3>4, <3>5, <3>6, <4>2
        <4>3. CASE i = Len(log) + 1 /\ j \in DOMAIN log
          BY <3>4, <3>5, <3>6, <4>3
        <4>4. QED
          BY <3>1, <4>1, <4>2, <4>3
      <3>9. QED
        BY <3>2, <3>3, <3>7, <3>8 DEF LogInv, Answers1
    <2>4. QED
      BY <2>2, <2>3
  <1>7. ViewInv'
    BY <1>1, <1>3 DEF ViewInv, Mounted
  <1>8. ASSUME NEW u \in Turns PROVE TurnInv(u)'
    <2>1. CASE u = t
      <3>1. call'[u] = c /\ status'[u] = s
        BY <1>2, <2>1
      <3>2. TurnOK(route'[u], link'[u], heard'[u], call'[u], status'[u], Stored(u)', u <= opened')
        BY <1>3, <2>1, <3>1
      <3>3. QED
        BY <3>2 DEF TurnInv
    <2>2. CASE u # t
      <3>1. call'[u] = call[u] /\ status'[u] = status[u] /\ Stored(u)' = Stored(u)
        BY <1>2, <1>6, <2>2
      <3>2. TurnOK(route[u], link[u], heard[u], call[u], status[u], Stored(u), u <= opened)
        BY DEF IInv, TurnInv
      <3>3. TurnOK(route'[u], link'[u], heard'[u], call'[u], status'[u], Stored(u)', u <= opened')
        BY <1>3, <3>1, <3>2
      <3>4. QED
        BY <3>3 DEF TurnInv
    <2>3. QED
      BY <2>1, <2>2
  <1>9. QED
    BY <1>5, <1>6, <1>7, <1>8 DEF IInv

LEMMA CoreStartsStep == ASSUME IInv, NEW t \in Turns, CoreStarts(t) PROVE IInv'
  <1>1. status[t] = "asked"
    BY DEF CoreStarts
  <1>2. t <= opened /\ Stored(t) = {}
    <2>1. TurnOK(route[t], link[t], heard[t], call[t], status[t], Stored(t), t <= opened)
      BY TurnFacts
    <2>2. route[t].pc # "none"
      BY <1>1, <2>1 DEF TurnOK
    <2>3. QED
      BY <1>1, <2>2, TurnFacts, NoAnswerYet DEF Ended
  <1>3. TurnOK(route[t], link[t], heard[t], call[t], "asked", Stored(t), TRUE)
    BY <1>1, <1>2, TurnFacts
  <1>4. ASSUME NEW s \in {"started", "refused"}, NEW a
        PROVE  TurnOK(route[t], link[t], heard[t], call[t], s, a, TRUE)
    <2>1. \A k \in Threads : call[t][k] = None
      BY <1>3 DEF TurnOK, Started
    <2>2. route[t].pc \notin {"none", "model", "asking", "failing", "reading", "saving", "settling"}
      BY <1>3 DEF TurnOK, Started
    <2>3. "completed" \notin Range(link[t].events)
      BY <1>3 DEF TurnOK
    <2>4. QED
      BY <1>3, <2>1, <2>2, <2>3 DEF TurnOK, Early
  <1>5. /\ UNCHANGED <<browser, link, gone, route>> /\ failures' \in 0 .. MaxEvents
        /\ call' = [call EXCEPT ![t] = call[t]] /\ call[t] \in CallPairs
    BY LostRequest, TurnFacts DEF CoreStarts, IInv
  <1>6. CASE status' = [status EXCEPT ![t] = "started"] /\ log' = Append(log, Message("user", t, 0))
    <2> DEFINE m == Message("user", t, 0)
    <2>1. m \in Messages /\ m.turn = t /\ m.role = "user"
      BY MessageType
    <2>2. "started" \in TurnStates /\ "asked" \notin Ended
      BY DEF TurnStates, Started, Ended
    <2>3. TurnOK(route[t], link[t], heard[t], call[t], "started", Stored(t)', TRUE)
      BY <1>4
    <2>4. log' = Append(log, m) /\ status' = [status EXCEPT ![t] = "started"]
      BY <1>6
    <2> HIDE DEF m
    <2>5. \E mm \in Messages :
              /\ log' = Append(log, mm) /\ mm.turn = t
              /\ mm.role = "assistant" => "started" \in Ended /\ status[t] \notin Ended
      BY <2>1, <2>4
    <2>6. QED
      BY <1>1, <1>2, <1>5, <2>2, <2>3, <2>4, <2>5, CoreStep
  <1>7. CASE status' = [status EXCEPT ![t] = "refused"] /\ UNCHANGED log
    <2>1. "refused" \in TurnStates /\ "asked" \notin Ended
      BY DEF TurnStates, Ended
    <2>2. TurnOK(route[t], link[t], heard[t], call[t], "refused", Stored(t)', TRUE)
      BY <1>4
    <2>3. QED
      BY <1>1, <1>2, <1>5, <1>7, <2>1, <2>2, CoreStep
  <1>8. QED
    BY <1>6, <1>7 DEF CoreStarts

\* The requests c of a turn, once the one of thread k is answered or lost.
Answered(c, k, p) == [c EXCEPT ![k].phase = p]

LEMMA AnsweredType ==
  ASSUME NEW c \in CallPairs, NEW k \in Threads, c[k] # None,
         NEW p \in {"ok", "refused", "lost"}
  PROVE  LET c2 == Answered(c, k, p) IN
         /\ c2 \in CallPairs /\ c2[k].phase = p /\ c2[k] # None
         /\ c2[k].status = c[k].status /\ c2[k].text = c[k].text
         /\ \A j \in Threads : j # k => c2[j] = c[j]
  <1> DEFINE d == [c[k] EXCEPT !.phase = p]
             c2 == Answered(c, k, p)
  <1>1. c[k] \in Requests
    BY DEF CallPairs
  <1>2. d \in Requests /\ d.phase = p /\ d.status = c[k].status /\ d.text = c[k].text
    BY <1>1 DEF Requests
  <1>3. c2 = [c EXCEPT ![k] = d]
    BY DEF Answered
  <1> HIDE DEF d, c2
  <1>4. c2 \in CallPairs /\ c2[k] = d /\ \A j \in Threads : j # k => c2[j] = c[j]
    BY <1>2, <1>3 DEF CallPairs
  <1>5. d # None
    BY <1>2
  <1>6. QED
    BY <1>2, <1>4, <1>5 DEF c2

\* The request is refused or lost, and the turn is what it was.
LEMMA RefusedKeeps ==
  ASSUME NEW r \in Routes, NEW l \in Links, NEW h \in Readings, NEW c \in CallPairs,
         NEW s \in TurnStates, NEW a, TurnOK(r, l, h, c, s, a, TRUE),
         NEW k \in Threads, c[k] # None, NEW p \in {"ok", "refused", "lost"}, p # "ok"
  PROVE  /\ Answered(c, k, p) \in CallPairs
         /\ TurnOK(r, l, h, Answered(c, k, p), s, a, TRUE)
  <1> DEFINE c2 == Answered(c, k, p)
  <1>1. /\ c2 \in CallPairs /\ c2[k].phase = p /\ c2[k] # None
        /\ c2[k].status = c[k].status /\ c2[k].text = c[k].text
        /\ \A j \in Threads : j # k => c2[j] = c[j]
    BY AnsweredType
  <1> HIDE DEF c2
  <1>2. r.pc = "saving" => /\ r.over /\ r.msg /\ c2["loop"] # None
                           /\ c2["loop"].status = "completed" /\ c2["loop"].text = r.text
    BY <1>1 DEF TurnOK, Threads
  <1>3. \A j \in Threads : c2[j] # None =>
           s \in Started /\ (c2[j].phase = "ok" => s = c2[j].status
                                                    /\ (s \in Ended => a = {c2[j].text}))
    BY <1>1 DEF TurnOK
  <1>4. TurnOK(r, l, h, c2, s, a, TRUE)
    BY <1>2, <1>3 DEF TurnOK
  <1>5. QED
    BY <1>1, <1>4 DEF c2

\* The request ends the turn, which nothing has ended before.
LEMMA EndsKeeps ==
  ASSUME NEW r \in Routes, NEW l \in Links, NEW h \in Readings, NEW c \in CallPairs,
         NEW a, TurnOK(r, l, h, c, "started", a, TRUE),
         NEW k \in Threads, c[k] # None, NEW p \in {"ok", "refused", "lost"},
         NEW b, c[k].status \in Ended => b = {c[k].text}
  PROVE  /\ Answered(c, k, p) \in CallPairs
         /\ TurnOK(r, l, h, Answered(c, k, p), c[k].status, b, TRUE)
  <1> DEFINE s == c[k].status
             c2 == Answered(c, k, p)
  <1>1. /\ c2 \in CallPairs /\ c2[k].phase = p /\ c2[k] # None
        /\ c2[k].status = c[k].status /\ c2[k].text = c[k].text
        /\ \A j \in Threads : j # k => c2[j] = c[j]
    BY AnsweredType
  <1>2. s \in Started
    BY DEF CallPairs, Requests, Started
  <1> HIDE DEF c2
  <1>3. r.pc = "saving" => /\ r.over /\ r.msg /\ c2["loop"] # None
                           /\ c2["loop"].status = "completed" /\ c2["loop"].text = r.text
    BY <1>1 DEF TurnOK, Threads
  <1>4. \A j \in Threads : c[j] # None => c[j].phase # "ok"
    <2> SUFFICES ASSUME NEW j \in Threads, c[j] # None, c[j].phase = "ok" PROVE FALSE
      OBVIOUS
    <2>1. c[j] \in Requests
      BY DEF CallPairs
    <2>2. c[j].status = "started"
      BY DEF TurnOK
    <2>3. QED
      BY <2>1, <2>2 DEF Requests
  <1>5. \A j \in Threads : c2[j] # None =>
           s \in Started /\ (c2[j].phase = "ok" => s = c2[j].status
                                                    /\ (s \in Ended => b = {c2[j].text}))
    BY <1>1, <1>2, <1>4
  <1>6. "completed" \notin Range(l.events) /\ r.pc \notin {"none", "model"}
    BY DEF TurnOK
  <1> HIDE DEF s
  <1>7. TurnOK(r, l, h, c2, s, b, TRUE)
    BY <1>2, <1>3, <1>5, <1>6 DEF TurnOK
  <1>8. QED
    BY <1>1, <1>7 DEF s, c2

LEMMA CoreFinishesStep ==
  ASSUME IInv, NEW t \in Turns, NEW h \in Threads, CoreFinishes(t, h) PROVE IInv'
  <1> DEFINE c == call[t][h]
  <1>1. /\ c \in Requests /\ t <= opened /\ status[t] \in Started /\ log \in Seq(Messages)
        /\ TurnOK(route[t], link[t], heard[t], call[t], status[t], Stored(t), TRUE)
    <2>1. TurnOK(route[t], link[t], heard[t], call[t], status[t], Stored(t), t <= opened)
      BY TurnFacts
    <2>2. c # None /\ c \in Requests /\ log \in Seq(Messages)
      BY TurnFacts, TypeMeans DEF CoreFinishes, CallPairs, IInv
    <2>3. status[t] \in Started
      BY <2>1, <2>2 DEF TurnOK
    <2>4. t <= opened
      BY <2>1, <2>3 DEF TurnOK, Started
    <2>5. QED
      BY <2>1, <2>2, <2>3, <2>4
  <1>2. /\ UNCHANGED <<browser, link, gone, route>> /\ failures' \in 0 .. MaxEvents
        /\ c # None
    BY LostRequest DEF CoreFinishes, IInv
  <1>3. PICK p \in {"ok", "refused", "lost"} :
          /\ call' = [call EXCEPT ![t][h].phase = p]
          /\ \/ Finishes(t, c) /\ (p = "ok" => status[t] = "started")
             \/ UNCHANGED <<status, log>> /\ p = "lost"
    BY DEF CoreFinishes
  <1> DEFINE c2 == Answered(call[t], h, p)
  <1>4. call' = [call EXCEPT ![t] = c2]
    BY <1>3 DEF Answered
  <1> HIDE DEF c2
  <1>5. CASE UNCHANGED <<status, log>> /\ p # "ok"
    <2>1. Stored(t)' = Stored(t) /\ status' = [status EXCEPT ![t] = status[t]]
      BY <1>5, TurnFacts DEF Stored, Answers
    <2>2. /\ c2 \in CallPairs
          /\ TurnOK(route[t], link[t], heard[t], c2, status[t], Stored(t), TRUE)
      BY <1>1, <1>2, <1>5, TurnFacts, RefusedKeeps DEF c2
    <2>3. TurnOK(route[t], link[t], heard[t], c2, status[t], Stored(t)', TRUE)
      BY <2>1, <2>2
    <2>4. QED
      BY <1>1, <1>2, <1>4, <1>5, <2>1, <2>2, <2>3, TurnFacts, CoreStep
  <1>6. CASE Finishes(t, c) /\ status[t] = "started"
    <2>1. /\ status' = [status EXCEPT ![t] = c.status]
          /\ log' = IF c.status = "failed" THEN log
                    ELSE Append(log, Message("assistant", t, c.text))
      BY <1>6 DEF Finishes
    <2>2. /\ c.status \in {"completed", "stopped", "failed"} /\ c.text \in 0 .. MaxText
          /\ c.status \in TurnStates /\ Stored(t) = {}
      BY <1>1, <1>6, NoAnswerYet DEF Requests, TurnStates, Started, Ended
    <2> DEFINE m == Message("assistant", t, c.text)
    <2>3. m \in Messages /\ m.turn = t /\ m.role = "assistant" /\ m.text = c.text
      BY <2>2, MessageType
    <2>4. \/ log' = log
          \/ \E mm \in Messages :
              /\ log' = Append(log, mm) /\ mm.turn = t
              /\ mm.role = "assistant" => c.status \in Ended /\ status[t] \notin Ended
      BY <1>6, <2>1, <2>2, <2>3 DEF Ended
    <2>5. c.status \in Ended => Stored(t)' = {c.text}
      <3>1. c.status \in Ended => log' = Append(log, m)
        BY <2>1 DEF Ended
      <3> HIDE DEF m
      <3>2. QED
        BY <1>1, <2>2, <2>3, <3>1, LogAppend
    <2>6. /\ c2 \in CallPairs
          /\ TurnOK(route[t], link[t], heard[t], c2, c.status, Stored(t)', TRUE)
      <3> DEFINE a2 == Stored(t)'
      <3>1. /\ route[t] \in Routes /\ link[t] \in Links /\ heard[t] \in Readings
            /\ call[t] \in CallPairs
        BY TurnFacts
      <3>2. TurnOK(route[t], link[t], heard[t], call[t], "started", Stored(t), TRUE)
        BY <1>1, <1>6
      <3>3. /\ call[t][h] # None /\ call[t][h].status \in TurnStates
            /\ call[t][h].status \in Ended => a2 = {call[t][h].text}
        BY <1>2, <2>2, <2>5
      <3> HIDE DEF a2
      <3>4. /\ c2 \in CallPairs
            /\ TurnOK(route[t], link[t], heard[t], c2, call[t][h].status, a2, TRUE)
        BY <3>1, <3>2, <3>3, EndsKeeps DEF c2
      <3>5. QED
        BY <3>4 DEF a2
    <2> HIDE DEF m
    <2>7. status[t] \notin Ended
      BY <1>6 DEF Ended
    <2>8. QED
      BY <1>1, <1>2, <1>4, <2>1, <2>2, <2>4, <2>6, <2>7, CoreStep
  <1>7. CASE Finishes(t, c) /\ status[t] # "started"
    BY <1>3, <1>5, <1>7 DEF Finishes
  <1>8. QED
    BY <1>3, <1>5, <1>6, <1>7

-------------------------------------------------------------------------------
(* The steps of the browser. *)

Views == [instance: 0 .. 2, turn: {0} \union Turns, error: BOOLEAN, stopped: BOOLEAN]
Pages == [doing: {"no", "asked", "rendered"}, log: SUBSET Messages]
Aborts == {"no", "aborted", "noticed"}

\* What a step of the view has to be shown to do, if it leaves the turns alone.
LEMMA ViewOnly ==
  ASSUME IInv, UNCHANGED <<heard, opened, link, route, call, core, failures>>,
         view' \in Views, shown' \subseteq Messages, persisted' \in BOOLEAN,
         page' \in Pages, gone' \in [Turns -> Aborts], ViewInv'
  PROVE  IInv'
  <1>1. status' = status /\ log' = log
    BY DEF core
  <1>2. TypeOK'
    BY <1>1 DEF IInv, TypeOK, Views, Pages, Aborts
  <1>3. LogInv'
    BY <1>1 DEF IInv, LogInv, Answers1
  <1>4. ASSUME NEW u \in Turns PROVE TurnInv(u)'
    BY <1>1 DEF IInv, TurnInv, Stored, Answers
  <1>5. QED
    BY <1>2, <1>3, <1>4 DEF IInv

\* What a step of the submission of turn t has to be shown to do.
LEMMA ReadingStep ==
  ASSUME IInv, NEW t \in Turns, NEW l \in Links, NEW h \in Readings,
         UNCHANGED <<opened, gone, route, call, core, failures>>,
         link' = [link EXCEPT ![t] = l], heard' = [heard EXCEPT ![t] = h],
         view' \in Views, shown' \subseteq Messages, persisted' \in BOOLEAN, page' \in Pages,
         ViewInv', TurnOK(route[t], l, h, call[t], status[t], Stored(t), t <= opened)
  PROVE  IInv'
  <1>1. status' = status /\ log' = log
    BY DEF core
  <1>2. link \in [Turns -> Links] /\ heard \in [Turns -> Readings]
    BY TypeMeans DEF IInv
  <1>3. link' \in [Turns -> Links] /\ heard' \in [Turns -> Readings]
    BY <1>2
  <1>4. TypeOK'
    BY <1>1, <1>3 DEF IInv, TypeOK, Views, Pages, Links, Readings, Events
  <1>5. LogInv'
    BY <1>1 DEF IInv, LogInv, Answers1
  <1>6. ASSUME NEW u \in Turns PROVE TurnInv(u)'
    <2>1. Stored(u)' = Stored(u)
      BY <1>1 DEF Stored, Answers
    <2>2. CASE u = t
      <3>1. link'[u] = l /\ heard'[u] = h
        BY <1>2, <2>2
      <3>2. QED
        BY <1>1, <2>1, <2>2, <3>1 DEF TurnInv
    <2>3. CASE u # t
      <3>1. link'[u] = link[u] /\ heard'[u] = heard[u]
        BY <1>2, <2>3
      <3>2. TurnInv(u)
        BY DEF IInv
      <3>3. QED
        BY <1>1, <2>1, <3>1, <3>2 DEF TurnInv
    <2>4. QED
      BY <2>2, <2>3
  <1>7. QED
    BY <1>4, <1>5, <1>6 DEF IInv

LEMMA StopStep == ASSUME IInv, Stop PROVE IInv'
  <1>1. TypeOK /\ ViewInv
    BY DEF IInv
  <1>2. UNCHANGED <<heard, opened, link, route, call, core, failures>>
    BY DEF Stop
  <1>3. view' \in Views /\ view'.instance = view.instance
    BY <1>1 DEF Stop, TypeOK, Views
  <1>4. shown' \subseteq shown /\ persisted' = persisted /\ page' = page /\ heard' = heard
        /\ opened' = opened
    BY DEF Stop, WithoutEmptyAnswers
  <1>5. gone' \in [Turns -> Aborts]
    BY <1>1 DEF Stop, TypeOK, Aborts
  <1>6. ViewInv'
    BY <1>1, <1>3, <1>4 DEF ViewInv, Mounted
  <1>7. shown' \subseteq Messages /\ persisted' \in BOOLEAN /\ page' \in Pages
    BY <1>1, <1>4 DEF TypeOK, Pages
  <1>8. QED
    BY <1>2, <1>3, <1>5, <1>6, <1>7, ViewOnly

LEMMA LeaveStep == ASSUME IInv, Leave PROVE IInv'
  <1>1. TypeOK /\ ViewInv
    BY DEF IInv
  <1>2. /\ UNCHANGED <<heard, opened, link, route, call, core, failures>>
        /\ persisted' = persisted /\ gone' = gone /\ shown' = {}
    BY DEF Leave
  <1>3. view' \in Views /\ view'.instance = 0
    BY DEF Leave, Views
  <1>4. page' \in Pages /\ page'.doing = "no" /\ page'.log = {}
    BY DEF Leave, Staying, Pages
  <1>5. ViewInv'
    BY <1>1, <1>2, <1>3, <1>4 DEF ViewInv, Mounted
  <1>6. persisted' \in BOOLEAN /\ gone' \in [Turns -> Aborts]
    BY <1>1, <1>2 DEF TypeOK, Aborts
  <1>7. QED
    BY <1>2, <1>3, <1>4, <1>5, <1>6, ViewOnly

LEMMA RenderStep == ASSUME IInv, RenderPage PROVE IInv'
  <1>1. TypeOK /\ ViewInv /\ LogInv
    BY DEF IInv
  <1>2. /\ UNCHANGED <<heard, opened, link, route, call, core, failures>>
        /\ persisted' = persisted /\ gone' = gone /\ shown' = shown /\ view' = view
        /\ page.doing = "asked"
    BY DEF RenderPage
  <1>3. \A m \in Range(log) : m \in Messages /\ m.turn <= opened
    BY <1>1 DEF TypeOK, LogInv, Range
  <1>4. page' \in Pages /\ page'.doing = "rendered" /\ page'.log = Range(log)
    BY <1>3 DEF RenderPage, Pages
  <1>5. ViewInv'
    BY <1>1, <1>2, <1>3, <1>4 DEF ViewInv, Mounted
  <1>6. /\ persisted' \in BOOLEAN /\ gone' \in [Turns -> Aborts] /\ shown' \subseteq Messages
        /\ view' \in Views
    BY <1>1, <1>2 DEF TypeOK, Aborts, Views
  <1>7. QED
    BY <1>2, <1>4, <1>5, <1>6, ViewOnly

LEMMA MountStep == ASSUME IInv, MountPage PROVE IInv'
  <1>1. TypeOK /\ ViewInv
    BY DEF IInv
  <1>2. /\ UNCHANGED <<heard, opened, link, route, call, core, failures>>
        /\ persisted' = persisted /\ gone' = gone /\ shown' = page.log
        /\ page.doing = "rendered"
    BY DEF MountPage
  <1>3. view' \in Views /\ view'.instance = 2
    BY DEF MountPage, Views
  <1>4. page' \in Pages /\ page'.doing = "no" /\ page'.log = {}
    BY DEF MountPage, Staying, Pages
  <1>5. shown' \subseteq Messages
    BY <1>1, <1>2 DEF TypeOK
  <1>6. persisted /\ \A t \in Turns : heard[t].in # 2
    BY <1>1, <1>2 DEF ViewInv
  <1>7. \A m \in shown' : m.turn \in Turns
    BY <1>5 DEF Messages
  <1>8. ViewInv'
    BY <1>1, <1>2, <1>3, <1>4, <1>6, <1>7 DEF ViewInv, Mounted
  <1>9. persisted' \in BOOLEAN /\ gone' \in [Turns -> Aborts]
    BY <1>1, <1>2 DEF TypeOK, Aborts
  <1>10. QED
    BY <1>2, <1>3, <1>4, <1>5, <1>8, <1>9, ViewOnly

LEMMA SubmitStep == ASSUME IInv, Submit PROVE IInv'
  <1> DEFINE t == opened + 1
             h == [heard[t] EXCEPT !.in = view.instance]
             r == [route[t] EXCEPT !.pc = "model"]
  <1>1. TypeOK /\ ViewInv /\ LogInv
    BY DEF IInv
  <1>2. /\ opened \in Nat /\ t \in Turns /\ view.instance \in 1 .. 2
        /\ \A u \in Turns : u \in Nat
    <2>1. opened \in Nat /\ MaxTurns \in Nat /\ opened < MaxTurns
      BY <1>1 DEF Submit, TypeOK
    <2>2. t \in Turns /\ \A u \in Turns : u \in Nat
      BY <2>1 DEF Turns
    <2>3. view.instance \in 0 .. 2 /\ view.instance # 0
      BY <1>1 DEF Submit, ComposerOpen, TypeOK
    <2>4. QED
      BY <2>1, <2>2, <2>3
  <1>3. /\ opened' = t /\ heard' = [heard EXCEPT ![t] = h] /\ route' = [route EXCEPT ![t] = r]
        /\ shown' = shown \union {Message("user", t, 0)}
        /\ view' = [view EXCEPT !.turn = t, !.error = FALSE, !.stopped = FALSE]
        /\ persisted' = persisted /\ page' = page /\ link' = link /\ gone' = gone
        /\ call' = call /\ status' = status /\ log' = log /\ failures' = failures
    BY DEF Submit, core
  <1>4. /\ heard \in [Turns -> Readings] /\ route \in [Turns -> Routes]
        /\ TurnOK(route[t], link[t], heard[t], call[t], status[t], Stored(t), t <= opened)
    BY <1>1, <1>2, TypeMeans, TurnFacts
  <1>5. h \in Readings /\ h.text = heard[t].text /\ h.in = view.instance
    BY <1>2, <1>4 DEF Readings
  <1>6. r \in Routes /\ r.pc = "model" /\ r.text = route[t].text
    BY <1>2, <1>4 DEF Routes, Pcs
  <1> DEFINE m == Message("user", t, 0)
  <1>7. m \in Messages /\ m.turn = t /\ m.role = "user"
    BY <1>2, MessageType
  <1>8. view' \in Views /\ view'.instance = view.instance
    BY <1>1, <1>2, <1>3 DEF TypeOK, Views
  <1>9. ~(t <= opened)
    BY <1>2
  <1> HIDE DEF h, r, m
  <1>10. heard' \in [Turns -> Readings] /\ route' \in [Turns -> Routes] /\ opened' \in 0 .. MaxTurns
    BY <1>2, <1>3, <1>4, <1>5, <1>6 DEF Turns
  <1>11. TypeOK'
    <2>1. view' \in [instance: 0 .. 2, turn: {0} \union Turns, error: BOOLEAN, stopped: BOOLEAN]
      BY <1>8 DEF Views
    <2>2. shown' \subseteq Messages
      BY <1>1, <1>3, <1>7 DEF TypeOK, m
    <2>3. QED
      BY <1>1, <1>3, <1>10, <2>1, <2>2 DEF TypeOK, Readings, Routes
  <1>12. LogInv'
    <2>1. \A i \in DOMAIN log : log[i].turn \in Nat /\ log[i].turn <= opened
      <3>1. \A i \in DOMAIN log : log[i] \in Messages
        BY <1>1 DEF TypeOK
      <3>2. \A i \in DOMAIN log : log[i].turn \in Turns
        BY <3>1 DEF Messages
      <3>3. QED
        BY <1>1, <1>2, <3>2 DEF LogInv
    <2> HIDE DEF t
    <2>2. opened' = opened + 1
      BY <1>3 DEF t
    <2>3. \A i \in DOMAIN log : log[i].turn <= opened'
      BY <1>2, <2>1, <2>2
    <2>4. QED
      BY <1>1, <1>3, <2>3 DEF LogInv, Answers1
  <1>13. ViewInv'
    <2>1. \A k \in shown : k.turn \in Turns /\ k.turn <= opened /\ k.turn # t
      BY <1>1, <1>2, <1>9 DEF ViewInv, TypeOK, Messages
    <2>2. \A k \in page.log : k.turn \in Turns /\ k.turn <= opened
      BY <1>1 DEF ViewInv, TypeOK, Messages
    <2>3. \A u \in Turns : u <= opened => u <= opened'
      BY <1>2, <1>3
    <2>4. \A u \in Turns : u # t => heard'[u] = heard[u]
      BY <1>3, <1>4
    <2>5. heard'[t].in = view.instance
      BY <1>2, <1>3, <1>4, <1>5
    <2>6. shown' = shown \cup {m} /\ m.turn = opened'
      BY <1>3, <1>7 DEF m
    <2> HIDE DEF t
    <2>7. \A k \in shown' : k.turn <= opened'
      BY <1>2, <1>3, <1>10, <2>1, <2>3, <2>6
    <2>8. \A k \in shown' : k.role = "assistant" /\ Mounted(k.turn)' =>
             k.text = heard'[k.turn].text
      BY <1>1, <1>7, <1>8, <2>1, <2>4, <2>6 DEF ViewInv, Mounted
    <2>9. \A k \in page'.log : k.turn <= opened'
      BY <1>3, <2>2, <2>3
    <2>10. view'.instance = 2 \/ (\E u \in Turns : heard'[u].in = 2)
             => persisted' /\ page'.doing = "no"
      BY <1>1, <1>3, <1>8, <2>4, <2>5 DEF ViewInv
    <2>11. page'.doing # "no" => persisted'
      BY <1>1, <1>3 DEF ViewInv
    <2>12. QED
      BY <2>7, <2>8, <2>9, <2>10, <2>11 DEF ViewInv, Mounted
  <1>14. ASSUME NEW u \in Turns PROVE TurnInv(u)'
    <2>1. Stored(u)' = Stored(u)
      BY <1>3 DEF Stored, Answers
    <2>2. CASE u = t
      <3>1. route'[u] = r /\ heard'[u] = h
        BY <1>3, <1>4, <2>2
      <3>2. /\ route[t].pc = "none" /\ status[t] = "none" /\ route[t].text = 0
            /\ link[t].events = <<>> /\ heard[t].text = 0
        BY <1>4, <1>9 DEF TurnOK, Early
      <3>3. /\ Deltas(link[t].events) = 0 /\ Range(link[t].events) = {}
            /\ DOMAIN link[t].events = {}
        BY <3>2, DeltasEmpty DEF Range
      <3>4. TurnOK(r, link[t], h, call[t], status[t], Stored(t), TRUE)
        BY <1>4, <1>5, <1>6, <3>2, <3>3 DEF TurnOK, Early
      <3>5. u <= opened'
        BY <1>2, <1>3, <2>2
      <3>6. QED
        BY <1>3, <2>1, <2>2, <3>1, <3>4, <3>5 DEF TurnInv
    <2>3. CASE u # t
      <3>1. route'[u] = route[u] /\ heard'[u] = heard[u]
        BY <1>3, <1>4, <2>3
      <3>2. (u <= opened') = (u <= opened)
        BY <1>2, <1>3, <2>3
      <3>3. TurnInv(u)
        BY DEF IInv
      <3>4. QED
        BY <1>3, <2>1, <3>1, <3>2, <3>3 DEF TurnInv
    <2>4. QED
      BY <2>2, <2>3
  <1>15. QED
    BY <1>11, <1>12, <1>13, <1>14 DEF IInv

LEMMA ReceiveStep == ASSUME IInv, NEW t \in Turns, Receive(t) PROVE IInv'
  <1> DEFINE l == link[t]
             e == Head(l.events)
             rest == Tail(l.events)
             n == IF e = "delta" THEN heard[t].text + 1 ELSE heard[t].text
             h == [heard[t] EXCEPT !.text = n]
             l2 == [l EXCEPT !.events = rest]
  <1>1. TypeOK /\ ViewInv
    BY DEF IInv
  <1>2. /\ l \in Links /\ heard[t] \in Readings /\ route[t] \in Routes
        /\ call[t] \in CallPairs /\ status[t] \in TurnStates
        /\ heard \in [Turns -> Readings]
        /\ TurnOK(route[t], l, heard[t], call[t], status[t], Stored(t), t <= opened)
    BY <1>1, TurnFacts, TypeMeans
  <1>3. /\ l.events \in Seq(Events) /\ l.events # <<>>
    BY <1>2 DEF Receive, Links
  <1>4. /\ rest \in Seq(Events) /\ e \in Events /\ \A x \in Range(rest) : x \in Range(l.events)
        /\ Deltas(rest) \in Nat
        /\ Deltas(l.events) = Deltas(rest) + (IF e = "delta" THEN 1 ELSE 0)
    BY <1>3, TailRange, DeltasTail
  <1>5. \A i \in DOMAIN rest : i \in Nat \ {0} /\ i + 1 \in DOMAIN l.events
                               /\ rest[i] = l.events[i + 1]
    BY <1>3
  <1>6. /\ heard' = [heard EXCEPT ![t] = h] /\ link' = [link EXCEPT ![t] = l2]
        /\ UNCHANGED <<opened, gone, route, call, core, failures>>
        /\ persisted' = persisted /\ page' = page
    BY DEF Receive
  <1>7. CASE \/ ~Mounted(t) /\ UNCHANGED <<view, shown>>
             \/ /\ Mounted(t)
                /\ shown' = CASE e = "started" -> shown \union {Message("assistant", t, 0)}
                              [] e = "delta" -> AnswerGrows(t)
                              [] e = "error" -> WithoutEmptyAnswers(shown)
                              [] OTHER -> shown
                /\ view' = [view EXCEPT !.error = @ \/ e = "error"]
    <2>1. route[t].pc \notin Early /\ t <= opened
      BY <1>2, <1>3 DEF TurnOK, Early
    <2>2. heard[t].text \in Nat /\ heard[t].text + Deltas(l.events) <= MaxText
      BY <1>2 DEF TurnOK, Readings
    <2>3. n \in 0 .. MaxText /\ n + Deltas(rest) = heard[t].text + Deltas(l.events)
      <3>1. Deltas(l.events) = Deltas(rest) + (IF e = "delta" THEN 1 ELSE 0)
            /\ Deltas(rest) \in Nat
        BY <1>4
      <3> DEFINE m == heard[t].text
                 d == Deltas(rest)
                 k == Deltas(l.events)
      <3>2. m \in Nat /\ m + k <= MaxText /\ d \in Nat
        BY <2>2, <3>1
      <3>3. CASE e = "delta"
        <4>1. k = d + 1 /\ n = m + 1
          BY <3>1, <3>3
        <4> HIDE DEF m, d, k, n
        <4>2. n \in 0 .. MaxText /\ n + d = m + k
          BY <3>2, <4>1
        <4>3. QED
          BY <4>2 DEF m, d, k
      <3>4. CASE e # "delta"
        <4>1. k = d /\ n = m
          BY <3>1, <3>4
        <4> HIDE DEF m, d, k, n
        <4>2. n \in 0 .. MaxText /\ n + d = m + k
          BY <3>2, <4>1
        <4>3. QED
          BY <4>2 DEF m, d, k
      <3>5. QED
        BY <3>3, <3>4
    <2>4. e = "started" => n = 0 /\ heard[t].text = 0
      <3>1. 1 \in DOMAIN l.events /\ e = l.events[1]
        BY <1>3
      <3>2. QED
        BY <1>2, <3>1 DEF TurnOK
    <2>5. \A i \in DOMAIN rest : rest[i] # "started"
      <3> SUFFICES ASSUME NEW i \in DOMAIN rest, rest[i] = "started" PROVE FALSE
        OBVIOUS
      <3>1. i + 1 = 1
        BY <1>2, <1>5 DEF TurnOK
      <3>2. QED
        BY <1>5, <3>1
    <2>6. e = "delta" => n = heard[t].text + 1
      OBVIOUS
    <2>7. e # "delta" => n = heard[t].text
      OBVIOUS
    <2> HIDE DEF n, rest, e
    <2>8. h \in Readings /\ h.text = n /\ h.in = heard[t].in
      BY <1>2, <2>3 DEF Readings
    <2>9. l2 \in Links /\ l2.events = rest /\ l2.end = l.end
      BY <1>2, <1>4 DEF Links
    <2> HIDE DEF h, l2
    <2>10. TurnOK(route[t], l2, h, call[t], status[t], Stored(t), t <= opened)
      <3>1. l.end # "read"
        BY <1>2, <1>3 DEF TurnOK
      <3>2. ~(route[t].pc = "reading" /\ ~route[t].msg /\ ~route[t].over)
        BY <1>2, <1>3 DEF TurnOK
      <3>3. QED
        BY <1>2, <1>4, <2>1, <2>2, <2>3, <2>5, <2>8, <2>9, <3>1, <3>2 DEF TurnOK
    <2>11. \A u \in Turns : heard'[u].in = heard[u].in
      BY <1>2, <1>6, <2>8
    <2>12. heard'[t].text = n /\ \A u \in Turns \ {t} : heard'[u].text = heard[u].text
      BY <1>2, <1>6, <2>8
    <2>13. /\ view' \in Views /\ view'.instance = view.instance
      <3>1. CASE view' = view
        BY <1>1, <3>1 DEF TypeOK, Views
      <3>2. CASE view' = [view EXCEPT !.error = @ \/ e = "error"]
        <4> DEFINE b == view.error \/ e = "error"
        <4>1. b \in BOOLEAN /\ view' = [view EXCEPT !.error = b]
          BY <3>2
        <4> HIDE DEF b
        <4>2. QED
          BY <1>1, <4>1 DEF TypeOK, Views
      <3>3. QED
        BY <1>7, <3>1, <3>2
    <2>14. \A m \in shown : /\ m \in Messages /\ m.turn <= opened
                            /\ m.role = "assistant" /\ Mounted(m.turn)
                                 => m.text = heard[m.turn].text
      BY <1>1 DEF ViewInv, TypeOK
    <2>15. \A m \in Messages : m.turn \in Turns
      BY DEF Messages
    <2>16. \A m \in shown' : /\ m \in Messages /\ m.turn <= opened
                             /\ m.role = "assistant" /\ Mounted(m.turn)
                                  => m.text = heard'[m.turn].text
      <3>1. CASE ~Mounted(t) /\ UNCHANGED shown
        BY <2>12, <2>14, <2>15, <3>1
      <3>2. CASE shown' = shown /\ e # "delta"
        BY <2>7, <2>12, <2>14, <2>15, <3>2
      <3>3. CASE e = "started" /\ shown' = shown \union {Message("assistant", t, 0)}
        <4> DEFINE m1 == Message("assistant", t, 0)
        <4>1. m1 \in Messages /\ m1.turn = t /\ m1.text = 0
          BY MessageType
        <4>2. shown' = shown \union {m1}
          BY <3>3
        <4> HIDE DEF m1
        <4>3. QED
          BY <2>1, <2>4, <2>12, <2>14, <2>15, <3>3, <4>1, <4>2
      <3>4. CASE e = "error" /\ shown' = WithoutEmptyAnswers(shown)
        BY <2>7, <2>12, <2>14, <2>15, <3>4 DEF WithoutEmptyAnswers
      <3>5. CASE e = "delta" /\ Mounted(t) /\ shown' = AnswerGrows(t)
        <4> SUFFICES ASSUME NEW m \in shown'
                     PROVE  /\ m \in Messages /\ m.turn <= opened
                            /\ m.role = "assistant" /\ Mounted(m.turn)
                                 => m.text = heard'[m.turn].text
          OBVIOUS
        <4>1. PICK k \in shown :
                 m = IF k.role = "assistant" /\ k.turn = t
                     THEN [k EXCEPT !.text = k.text + 1] ELSE k
          BY <3>5 DEF AnswerGrows
        <4>2. k \in Messages /\ k.turn <= opened /\ k.turn \in Turns
          BY <2>14, <2>15
        <4>3. CASE k.role = "assistant" /\ k.turn = t
          <5>1. k.text = heard[t].text
            BY <2>14, <3>5, <4>3
          <5>2. k.text + 1 = n
            BY <2>6, <3>5, <5>1
          <5>3. m = [k EXCEPT !.text = n]
            BY <4>1, <4>3, <5>2
          <5>4. m \in Messages /\ m.turn = t /\ m.text = n
            BY <2>3, <4>2, <4>3, <5>3 DEF Messages
          <5>5. QED
            BY <2>1, <2>12, <5>4
        <4>4. CASE ~(k.role = "assistant" /\ k.turn = t)
          <5>1. m = k
            BY <4>1, <4>4
          <5>2. QED
            BY <2>12, <2>14, <4>2, <4>4, <5>1
        <4>5. QED
          BY <4>3, <4>4
      <3>6. QED
        BY <1>7, <3>1, <3>2, <3>3, <3>4, <3>5
    <2>17. ViewInv'
      <3>1. \A u : Mounted(u)' <=> heard'[u].in = view.instance
        BY <2>13 DEF Mounted
      <3>2. \A m \in shown' : Mounted(m.turn)' <=> Mounted(m.turn)
        BY <2>11, <2>15, <2>16, <3>1 DEF Mounted
      <3>3. opened' = opened
        BY <1>6
      <3>4. view.instance = 2 \/ (\E u \in Turns : heard[u].in = 2)
              => persisted /\ page.doing = "no"
        BY <1>1 DEF ViewInv
      <3>5. view'.instance = 2 \/ (\E u \in Turns : heard'[u].in = 2)
              => persisted' /\ page'.doing = "no"
        BY <1>6, <2>11, <2>13, <3>4
      <3>6. (\A m \in page'.log : m.turn <= opened') /\ (page'.doing # "no" => persisted')
        BY <1>1, <1>6 DEF ViewInv
      <3>7. \A m \in shown' : m.role = "assistant" /\ Mounted(m.turn)'
                                => m.text = heard'[m.turn].text
        BY <2>16, <3>2
      <3>8. \A m \in shown' : m.turn <= opened'
        BY <2>16, <3>3
      <3>9. QED
        BY <3>5, <3>6, <3>7, <3>8 DEF ViewInv, Mounted
    <2>18. shown' \subseteq Messages /\ persisted' \in BOOLEAN /\ page' \in Pages
      BY <1>1, <1>6, <2>16 DEF TypeOK, Pages
    <2>19. QED
      BY <1>6, <2>8, <2>9, <2>10, <2>13, <2>17, <2>18, ReadingStep
  <1>8. QED
    BY <1>7 DEF Receive

LEMMA EndStep == ASSUME IInv, NEW t \in Turns, EndOfStream(t) PROVE IInv'
  <1> DEFINE failed == gone[t] = "no" /\ link[t].end = "broken"
             answered == heard[t].text > 0
             l2 == [events |-> <<>>, end |-> "read"]
  <1>1. TypeOK /\ ViewInv
    BY DEF IInv
  <1>2. /\ heard[t] \in Readings /\ heard \in [Turns -> Readings]
        /\ TurnOK(route[t], link[t], heard[t], call[t], status[t], Stored(t), t <= opened)
        /\ heard[t].in # 0
    BY <1>1, TurnFacts, TypeMeans DEF EndOfStream
  <1>3. /\ link' = [link EXCEPT ![t] = l2] /\ heard' = heard
        /\ UNCHANGED <<opened, gone, route, call, core, failures>>
        /\ persisted' = (persisted \/ answered)
        /\ page' = IF answered /\ ~persisted THEN [page EXCEPT !.doing = "asked"] ELSE page
    BY DEF EndOfStream
  <1>4. \/ ~Mounted(t) /\ UNCHANGED <<view, shown>>
        \/ /\ view' = [view EXCEPT !.turn = 0, !.error = @ \/ failed]
           /\ shown' = IF failed THEN WithoutEmptyAnswers(shown) ELSE shown
    BY DEF EndOfStream
  <1>5. l2 \in Links /\ l2.events = <<>> /\ l2.end = "read"
    BY DEF Links
  <1>6. /\ Deltas(l2.events) = 0 /\ Range(l2.events) = {} /\ DOMAIN l2.events = {}
    BY <1>5, DeltasEmpty DEF Range
  <1> HIDE DEF l2, answered
  <1>7. TurnOK(route[t], l2, heard[t], call[t], status[t], Stored(t), t <= opened)
    BY <1>2, <1>5, <1>6 DEF TurnOK, Early, Readings
  <1>8. shown' \subseteq shown
    BY <1>4 DEF WithoutEmptyAnswers
  <1>9. view' \in Views /\ view'.instance = view.instance
    <2>1. CASE view' = view
      BY <1>1, <2>1 DEF TypeOK, Views
    <2>2. CASE view' = [view EXCEPT !.turn = 0, !.error = @ \/ failed]
      <3> DEFINE b == view.error \/ failed
                 v == [view EXCEPT !.turn = 0]
      <3>1. b \in BOOLEAN /\ view' = [v EXCEPT !.error = b]
        BY <2>2
      <3>2. v \in Views /\ v.instance = view.instance
        BY <1>1 DEF TypeOK, Views
      <3> HIDE DEF b, v
      <3>3. QED
        BY <3>1, <3>2 DEF Views
    <2>3. QED
      BY <1>4, <2>1, <2>2
  <1>10. persisted' \in BOOLEAN /\ page' \in Pages /\ page'.log = page.log
         /\ (page'.doing # "no" => persisted') /\ (persisted => persisted' /\ page' = page)
    <2>1. page \in Pages /\ persisted \in BOOLEAN /\ (page.doing # "no" => persisted)
      BY <1>1 DEF TypeOK, Pages, ViewInv
    <2>2. CASE answered /\ ~persisted
      <3>1. page' = [page EXCEPT !.doing = "asked"] /\ persisted'
        BY <1>3, <2>2
      <3>2. QED
        BY <1>3, <2>1, <2>2, <3>1 DEF Pages
    <2>3. CASE ~(answered /\ ~persisted)
      BY <1>3, <2>1, <2>3
    <2>4. QED
      BY <2>2, <2>3
  <1>11. ViewInv'
    <2>1. \A u : Mounted(u)' <=> Mounted(u)
      BY <1>3, <1>9 DEF Mounted
    <2>2. view'.instance = 2 \/ (\E u \in Turns : heard'[u].in = 2)
            => persisted' /\ page'.doing = "no"
      BY <1>1, <1>3, <1>9, <1>10 DEF ViewInv
    <2>3. opened' = opened
      BY <1>3
    <2>4. QED
      BY <1>1, <1>3, <1>8, <1>10, <2>1, <2>2, <2>3 DEF ViewInv, Mounted
  <1>12. shown' \subseteq Messages
    BY <1>1, <1>8 DEF TypeOK
  <1>13. heard' = [heard EXCEPT ![t] = heard[t]]
    BY <1>2, <1>3
  <1>14. QED
    BY <1>2, <1>3, <1>5, <1>7, <1>9, <1>10, <1>11, <1>12, <1>13, ReadingStep

-------------------------------------------------------------------------------
(* The invariant holds, and the properties follow. *)

LEMMA InvNext == IInv /\ [Next]_vars => IInv'
  <1> SUFFICES ASSUME IInv, [Next]_vars PROVE IInv'
    OBVIOUS
  <1>1. CASE Submit
    BY <1>1, SubmitStep
  <1>2. CASE Stop
    BY <1>2, StopStep
  <1>3. CASE Leave
    BY <1>3, LeaveStep
  <1>4. CASE ViewStep
    BY <1>4, RenderStep, MountStep, ReceiveStep, EndStep DEF ViewStep
  <1>5. ASSUME NEW t \in Turns, NoticeAbort(t) PROVE IInv'
    BY <1>5, NoticeStep
  <1>6. ASSUME NEW t \in Turns, HandlerStep(t) PROVE IInv'
    BY <1>6, ResolveStep, TurnStartsStep, AskModelStep, ReturnSteps, ForwardLineStep,
       AnswerSavedStep, SourceStep DEF HandlerStep
  <1>7. ASSUME NEW t \in Turns, Cancel(t) \/ CancelSettled(t) PROVE IInv'
    BY <1>7, CancelStep, CancelSettledStep
  <1>8. ASSUME NEW t \in Turns, CoreStarts(t) PROVE IInv'
    BY <1>8, CoreStartsStep
  <1>9. ASSUME NEW t \in Turns, NEW h \in Threads, CoreFinishes(t, h) PROVE IInv'
    BY <1>9, CoreFinishesStep
  <1>10. CASE UNCHANGED vars
    <2>1. /\ UNCHANGED <<heard, opened, link, route, call, core, failures>>
          /\ view' = view /\ shown' = shown /\ persisted' = persisted /\ page' = page
          /\ gone' = gone
      BY <1>10 DEF vars, browser
    <2>2. TypeOK /\ ViewInv
      BY DEF IInv
    <2>3. ViewInv'
      BY <2>1, <2>2 DEF ViewInv, Mounted
    <2>4. QED
      BY <2>1, <2>2, <2>3, ViewOnly DEF TypeOK, Views, Pages, Aborts
  <1>11. QED
    BY <1>1, <1>2, <1>3, <1>4, <1>5, <1>6, <1>7, <1>8, <1>9, <1>10 DEF Next

\* The variables keep their types.
THEOREM Typing == Spec => []TypeOK
  <1>1. IInv => TypeOK
    BY DEF IInv
  <1>2. QED
    BY <1>1, InvInit, InvNext, PTL DEF Spec

\* Whatever is stopped, left, lost or settled twice: the event that tells the browser that an
\* answer is complete is only on its way when Core has stored exactly what was forwarded.
THEOREM CompletionIsStored == Spec => []CompletionMeansStored
  <1>1. IInv => CompletionMeansStored
    BY DEF IInv, TurnInv, TurnOK, CompletionMeansStored
  <1>2. QED
    BY <1>1, InvInit, InvNext, PTL DEF Spec

\* The main loop and the cancel callback both try to settle a turn, and a request that was
\* given up may still be served: a settled turn keeps its status and its only answer.
THEOREM TurnsSettleOnce == Spec => SettledOnce
  <1> DEFINE Kept ==
        \A t \in Turns :
        /\ status[t] \in {"completed", "stopped", "failed"} => status'[t] = status[t]
        /\ Stored(t) # {} => Stored(t)' = Stored(t)
        /\ \A i, j \in DOMAIN log' :
             (/\ log'[i].role = "assistant" /\ log'[i].turn = t
              /\ log'[j].role = "assistant" /\ log'[j].turn = t) => i = j
  <1>1. ASSUME IInv, IInv', UNCHANGED core PROVE Kept
    BY <1>1 DEF core, IInv, LogInv, Answers1, Stored, Answers
  <1>2. ASSUME IInv, IInv', NEW u \in Turns, ResolveModel(u) PROVE Kept
    <2>1. TurnOK(route[u], link[u], heard[u], call[u], status[u], Stored(u), u <= opened)
      BY <1>2, TurnFacts
    <2>2. status[u] = "none" /\ status \in [Turns -> TurnStates]
      BY <1>2, <2>1, TurnFacts DEF TurnOK, ResolveModel, At
    <2>3. log' = log /\ \A t \in Turns : t = u \/ status'[t] = status[t]
      BY <1>2, <2>2 DEF ResolveModel
    <2>4. QED
      BY <1>2, <2>2, <2>3 DEF IInv, LogInv, Answers1, Stored, Answers
  <1>3. ASSUME IInv, IInv', NEW u \in Turns, status[u] \in {"asked", "started"},
               NEW s, status' = [status EXCEPT ![u] = s],
               \/ log' = log
               \/ \E m \in Messages : log' = Append(log, m) /\ m.turn = u
        PROVE  Kept
    <2>1. status \in [Turns -> TurnStates] /\ log \in Seq(Messages)
      BY <1>3, TypeMeans DEF IInv
    <2>2. status[u] \notin Ended
      BY <1>3 DEF Ended
    <2>3. Stored(u) = {} /\ \A t \in Turns : t # u => status'[t] = status[t]
      BY <1>3, <2>1, <2>2, NoAnswerYet
    <2>4. \A t \in Turns : t # u => Stored(t)' = Stored(t)
      <3>1. CASE log' = log
        BY <3>1 DEF Stored, Answers
      <3>2. ASSUME NEW m \in Messages, log' = Append(log, m), m.turn = u
            PROVE  \A t \in Turns : t # u => Stored(t)' = Stored(t)
        BY <2>1, <3>2, LogAppend
      <3>3. QED
        BY <1>3, <3>1, <3>2
    <2>5. \A t \in Turns, i, j \in DOMAIN log' :
             (/\ log'[i].role = "assistant" /\ log'[i].turn = t
              /\ log'[j].role = "assistant" /\ log'[j].turn = t) => i = j
      BY <1>3 DEF IInv, LogInv, Answers1
    <2>6. QED
      BY <1>3, <2>3, <2>4, <2>5
  <1>4. ASSUME IInv, IInv', NEW u \in Turns, CoreStarts(u) PROVE Kept
    <2>1. Message("user", u, 0) \in Messages /\ Message("user", u, 0).turn = u
      BY MessageType
    <2>2. QED
      BY <1>3, <1>4, <2>1 DEF CoreStarts
  <1>5. ASSUME IInv, IInv', NEW u \in Turns, NEW h \in Threads, CoreFinishes(u, h) PROVE Kept
    <2> DEFINE c == call[u][h]
    <2>1. CASE UNCHANGED <<status, log>>
      BY <1>1, <1>5, <2>1 DEF core
    <2>2. CASE /\ status[u] = "started" /\ status' = [status EXCEPT ![u] = c.status]
               /\ log' = IF c.status = "failed" THEN log
                         ELSE Append(log, Message("assistant", u, c.text))
      <3>1. c \in Requests
        BY <1>5, TurnFacts DEF CoreFinishes, CallPairs
      <3>2. c.text \in 0 .. MaxText
        BY <3>1 DEF Requests
      <3>3. /\ Message("assistant", u, c.text) \in Messages
            /\ Message("assistant", u, c.text).turn = u
        BY <3>2, MessageType
      <3>4. QED
        BY <1>3, <1>5, <2>2, <3>3
    <2>3. QED
      BY <1>5, <2>1, <2>2 DEF CoreFinishes, Finishes
  <1>6. ASSUME IInv, IInv', [Next]_vars PROVE Kept
    <2>1. CASE Submit \/ Stop \/ Leave \/ ViewStep \/ UNCHANGED vars
      <3>1. UNCHANGED core
        BY <2>1 DEF Submit, Stop, Leave, ViewStep, RenderPage, MountPage, Receive,
                    EndOfStream, vars
      <3>2. QED
        BY <1>1, <1>6, <3>1
    <2>2. ASSUME NEW t \in Turns, NoticeAbort(t) \/ Cancel(t) \/ CancelSettled(t)
                                  \/ (HandlerStep(t) /\ ~ResolveModel(t))
          PROVE  Kept
      <3>1. UNCHANGED core
        BY <2>2 DEF NoticeAbort, Cancel, CancelSettled, HandlerStep, TurnStarts,
                    TurnDoesNotStart, AskModel, TurnFailed, ForwardLine, AnswerSaved,
                    SourceEnds, SourceBreaks, LoopSettled
      <3>2. QED
        BY <1>1, <1>6, <3>1
    <2>3. QED
      BY <1>2, <1>4, <1>5, <1>6, <2>1, <2>2 DEF Next, HandlerStep
  <1>7. IInv /\ IInv' /\ [Next]_vars =>
          \A t \in Turns :
        /\ status[t] \in {"completed", "stopped", "failed"} => status'[t] = status[t]
        /\ Stored(t) # {} => Stored(t)' = Stored(t)
        /\ \A i, j \in DOMAIN log' :
             (/\ log'[i].role = "assistant" /\ log'[i].turn = t
              /\ log'[j].role = "assistant" /\ log'[j].turn = t) => i = j
    BY <1>6
  <1>8. QED
    BY <1>7, InvInit, InvNext, PTL DEF Spec, SettledOnce

-------------------------------------------------------------------------------
(* What is shown is stored, as long as no request is lost. *)

Final == {"completed", "stopped", "failed"}

\* What the browser has of an answer, or will read.
OnWay(l, h) == h.text + Deltas(l.events)

\* The handler has forwarded the last event of its stream.
Told(r) == r.pc \in {"settling", "done"} \/ (r.pc = "reading" /\ r.over)

Asked(c) == \E k \in Threads : c[k] # None /\ c[k].phase = "sent"

\* A request to settle the turn carries no less than the browser has of the answer and, if
\* the browser reads on, no more; none is lost, and the answer to one means that the turn is
\* settled.
CallsOK(n, c, s, g) ==
    \A k \in Threads : c[k] # None =>
        /\ c[k].phase # "lost"
        /\ c[k].status = "failed" <=> c[k].text = 0
        /\ c[k].phase = "sent" => n <= c[k].text /\ (g = "no" => c[k].text = n)
        /\ c[k].phase # "sent" => s \in Final

\* So does the stored answer.
RowOK(n, s, a, g) ==
    /\ s \in Ended => \E m \in a : a = {m} /\ m > 0 /\ n <= m /\ (g = "no" => n = m)
    /\ s = "failed" => n = 0

\* Whoever marks the turn as finalized has sent the request that settles it, and the handler
\* does not end with an answer before one is sent.
LoopOK(r, c, s, n) ==
    /\ r.finalized => s \in Final \/ Asked(c)
    /\ r.cancel = "settling" <=> c["cancel"] # None
    /\ r.pc \in Early => r.cancel = "idle"
    /\ r.pc \in Early \ {"failing"} =>
          c["loop"] = None /\ s \notin Final /\ ~r.msg /\ ~r.over
    /\ r.pc = "reading" /\ c["loop"] # None => r.over /\ c["loop"].phase # "sent"
    /\ r.pc = "reading" /\ ~r.over /\ r.cancel = "idle" => s \notin Final
    /\ r.pc \in {"reading", "saving"} => n <= r.text
    /\ r.pc = "settling" => c["loop"] # None /\ r.finalized
    /\ r.pc = "done" => c["loop"] = None /\ (n > 0 => s \in Final \/ Asked(c))

\* The stream ends with its handler, and an error or a completion is its last event.
LinkOK(r, l, g) ==
    /\ l.end \in {"closed", "broken"} => r.pc = "done"
    /\ g = "no" /\ r.pc # "done" => l.end = "open"
    /\ r.cancel # "idle" => g = "noticed"
    /\ \A i \in DOMAIN l.events :
          l.events[i] \in {"error", "completed"} => i = Len(l.events) /\ Told(r)

Settles(r, l, h, c, s, a, g) ==
    /\ CallsOK(OnWay(l, h), c, s, g) /\ RowOK(OnWay(l, h), s, a, g)
    /\ LoopOK(r, c, s, OnWay(l, h)) /\ LinkOK(r, l, g)

\* The answers X that a view shows of a turn it streams: what was heard of it, and three
\* dots only if something is still to come that replaces or removes them.
Shows(r, l, h, g, X) ==
    /\ g = "no" /\ h.text > 0 => h.text \in X
    /\ g = "no" /\ h.text = 0 /\ "started" \notin Range(l.events)
         /\ (Deltas(l.events) > 0 \/ (r.pc = "reading" /\ r.msg /\ ~r.over)) => 0 \in X
    /\ g = "no" /\ l.end \notin {"read", "broken"} /\ Told(r) /\ h.text = 0
         /\ (0 \in X \/ "started" \in Range(l.events)) =>
            Deltas(l.events) > 0 \/ "error" \in Range(l.events)
    /\ 0 \in X => g = "no" /\ l.end # "read"

StoresInv(t) ==
    Settles(route[t], link[t], heard[t], call[t], status[t], Stored(t), gone[t])

\* A view streams one turn at most.
ShowsInv(t) ==
    t <= opened /\ Mounted(t) =>
        /\ Shows(route[t], link[t], heard[t], gone[t], Answers(shown, t))
        /\ link[t].end # "read" => view.turn = t

\* What a view shows of other turns it has from the log.
ShownInv ==
    /\ \A t \in Turns : t <= opened => heard[t].in # 0
    /\ \A m \in shown : m.role = "assistant" => Mounted(m.turn) \/ m \in Range(log)
    /\ page.log \subseteq Range(log)

KeptInv == ShownInv /\ \A t \in Turns : StoresInv(t) /\ ShowsInv(t)

SInv == failures = 0 => KeptInv
-------------------------------------------------------------------------------
(* The steps of the handler, on the values of a turn. *)

Returned(to) == [Fresh EXCEPT !.pc = "done", !.cancel = to]
EndedLink(l, end) == [l EXCEPT !.end = IF @ = "open" THEN end ELSE @]
WithCall(c, k, q) == [c EXCEPT ![k] = q]
Settling(q, exit) == [q EXCEPT !.pc = "settling", !.finalized = TRUE, !.exit = exit]

LEMMA ReturnedIs ==
  ASSUME NEW to \in {"idle", "settling"}
  PROVE  /\ Returned(to).pc = "done" /\ Returned(to).cancel = to
         /\ ~Returned(to).finalized
  BY DEF Returned, Fresh

LEMMA EndedLinkIs ==
  ASSUME NEW l \in Links, NEW end
  PROVE  /\ EndedLink(l, end).events = l.events
         /\ EndedLink(l, end).end = (IF l.end = "open" THEN end ELSE l.end)
  BY DEF EndedLink, Links

LEMMA WithCallIs ==
  ASSUME NEW c \in CallPairs, NEW k \in Threads, NEW q
  PROVE  /\ WithCall(c, k, q)[k] = q
         /\ \A j \in Threads : j # k => WithCall(c, k, q)[j] = c[j]
  BY DEF WithCall, CallPairs

LEMMA SettlingIs ==
  ASSUME NEW q \in Routes, NEW exit
  PROVE  /\ Settling(q, exit).pc = "settling" /\ Settling(q, exit).finalized
         /\ Settling(q, exit).cancel = q.cancel
  BY DEF Settling, Routes

LEMMA OnWayType ==
  ASSUME NEW l \in Links, NEW h \in Readings
  PROVE  /\ OnWay(l, h) \in Nat /\ h.text \in Nat /\ Deltas(l.events) \in Nat
         /\ OnWay(l, h) = h.text + Deltas(l.events)
  <1>1. l.events \in Seq(Events) /\ h.text \in Nat
    BY DEF Links, Readings
  <1>2. Deltas(l.events) \in Nat
    BY <1>1, DeltasFinite
  <1>3. QED
    BY <1>1, <1>2 DEF OnWay

\* A view whose request is aborted shows no three dots, and goes on to show none.
LEMMA GoneShows ==
  ASSUME NEW r, NEW l, NEW h, NEW g, NEW X, NEW r2, NEW l2, NEW h2, NEW g2,
         g # "no", g2 # "no", Shows(r, l, h, g, X)
  PROVE  Shows(r2, l2, h2, g2, X)
  BY DEF Shows

\* The loop returns after the turn was settled, or before there was anything to settle.
LEMMA ReturnSettles ==
  ASSUME NEW r \in Routes, NEW l \in Links, NEW h \in Readings, NEW c \in CallPairs,
         NEW s \in TurnStates, NEW a, NEW g, NEW end \in {"closed", "broken"},
         NEW to \in {"idle", "settling"}, to = "settling" <=> c["cancel"] # None,
         Settles(r, l, h, c, s, a, g), r.pc # "done",
         OnWay(l, h) > 0 => s \in Final \/ (c["cancel"] # None /\ c["cancel"].phase = "sent"),
         g = "no" => Told(r) \/ end = "broken"
  PROVE  /\ Settles(Returned(to), EndedLink(l, end), h, WithCall(c, "loop", None), s, a, g)
         /\ \A X : Shows(r, l, h, g, X) => Shows(Returned(to), EndedLink(l, end), h, g, X)
  <1> DEFINE r2 == Returned(to)
             l2 == EndedLink(l, end)
             c2 == WithCall(c, "loop", None)
             n == OnWay(l, h)
  <1>1. r2.pc = "done" /\ r2.cancel = to /\ ~r2.finalized
    BY ReturnedIs
  <1>2. l2.events = l.events /\ l2.end = (IF l.end = "open" THEN end ELSE l.end)
    BY EndedLinkIs
  <1>3. c2["loop"] = None /\ c2["cancel"] = c["cancel"]
    BY WithCallIs DEF Threads
  <1>4. OnWay(l2, h) = n
    BY <1>2 DEF OnWay
  <1>5. /\ CallsOK(n, c, s, g) /\ RowOK(n, s, a, g) /\ LoopOK(r, c, s, n) /\ LinkOK(r, l, g)
    BY DEF Settles
  <1> HIDE DEF r2, l2, c2, n
  <1>6. CallsOK(n, c2, s, g)
    BY <1>3, <1>5 DEF CallsOK, Threads
  <1>7. LoopOK(r2, c2, s, n)
    <2>1. n > 0 => s \in Final \/ Asked(c2)
      BY <1>3 DEF Asked, Threads, n
    <2>2. to = "settling" <=> c2["cancel"] # None
      BY <1>3
    <2>3. QED
      BY <1>1, <1>3, <2>1, <2>2 DEF LoopOK, Early
  <1>8. LinkOK(r2, l2, g)
    <2>1. r2.cancel # "idle" => g = "noticed"
      BY <1>1, <1>5 DEF LoopOK, LinkOK
    <2>2. QED
      BY <1>1, <1>2, <1>5, <2>1 DEF LinkOK, Told
  <1>9. ASSUME NEW X, Shows(r, l, h, g, X) PROVE Shows(r2, l2, h, g, X)
    <2>1. CASE g # "no"
      BY <1>9, <2>1, GoneShows
    <2>2. CASE g = "no"
      <3>1. l.end = "open" /\ l2.end = end
        BY <1>2, <1>5, <2>2 DEF LinkOK
      <3>2. QED
        BY <1>1, <1>2, <1>9, <2>2, <3>1 DEF Shows
    <2>3. QED
      BY <2>1, <2>2
  <1>10. Settles(r2, l2, h, c2, s, a, g)
    BY <1>4, <1>5, <1>6, <1>7, <1>8 DEF Settles
  <1>11. QED
    BY <1>9, <1>10 DEF r2, l2, c2

\* The loop sends what it has of the answer.
LEMMA SettleSettles ==
  ASSUME NEW r \in Routes, NEW l \in Links, NEW h \in Readings, NEW c \in CallPairs,
         NEW s \in TurnStates, NEW a, NEW g, NEW exit \in {"closed", "broken"},
         TurnOK(r, l, h, c, s, a, TRUE), Settles(r, l, h, c, s, a, g),
         r.pc \in {"reading", "saving"}, NEW q \in Routes, q.text >= r.text, q.cancel = r.cancel,
         ~q.msg => r.pc = "reading" /\ ~r.msg,
         g = "no" => q.text = r.text /\ Told(r)
  PROVE  /\ Settles(Settling(q, exit), l, h, WithCall(c, "loop", Interrupted(q)), s, a, g)
         /\ \A X : Shows(r, l, h, g, X) => Shows(Settling(q, exit), l, h, g, X)
  <1> DEFINE r2 == Settling(q, exit)
             i == Interrupted(q)
             c2 == WithCall(c, "loop", i)
             n == OnWay(l, h)
  <1>1. r2.pc = "settling" /\ r2.cancel = r.cancel /\ r2.finalized
    BY SettlingIs
  <1>2. c2["loop"] = i /\ c2["cancel"] = c["cancel"]
    BY WithCallIs DEF Threads
  <1>3. /\ CallsOK(n, c, s, g) /\ RowOK(n, s, a, g) /\ LoopOK(r, c, s, n) /\ LinkOK(r, l, g)
    BY DEF Settles
  <1>4. /\ n \in Nat /\ q.text \in Nat /\ r.text \in Nat /\ n = h.text + Deltas(l.events)
        /\ h.text \in Nat
    BY OnWayType DEF Routes
  <1>5. /\ i \in Requests /\ i # None /\ i.phase = "sent"
        /\ i.text = (IF q.msg THEN q.text ELSE 0)
        /\ i.status = (IF q.msg /\ q.text > 0 THEN "stopped" ELSE "failed")
    BY InterruptedType
  <1> HIDE DEF n, i, r2, c2
  <1>6. n <= i.text
    <2>1. n <= r.text
      BY <1>3 DEF LoopOK
    <2>2. ~q.msg => r.text = 0
      BY DEF TurnOK
    <2>3. QED
      BY <1>4, <1>5, <2>1, <2>2
  <1>7. g = "no" => i.text = n
    <2> SUFFICES ASSUME g = "no" PROVE i.text = n
      OBVIOUS
    <2>1. l.end = "open"
      BY <1>3 DEF LinkOK
    <2>2. n = r.text
      BY <1>4, <2>1 DEF TurnOK
    <2>3. ~q.msg => r.text = 0
      BY DEF TurnOK
    <2>4. QED
      BY <1>5, <2>2, <2>3
  <1>8. CallsOK(n, c2, s, g)
    <2>1. i.status = "failed" <=> i.text = 0
      BY <1>4, <1>5
    <2>2. QED
      BY <1>2, <1>3, <1>5, <1>6, <1>7, <2>1 DEF CallsOK, Threads
  <1>9. LoopOK(r2, c2, s, n)
    <2>1. Asked(c2)
      BY <1>2, <1>5 DEF Asked, Threads
    <2>2. r2.cancel = "settling" <=> c2["cancel"] # None
      BY <1>1, <1>2, <1>3 DEF LoopOK
    <2>3. QED
      BY <1>1, <1>2, <1>5, <2>1, <2>2 DEF LoopOK, Early
  <1>10. LinkOK(r2, l, g)
    BY <1>1, <1>3 DEF LinkOK, Told
  <1>11. ASSUME NEW X, Shows(r, l, h, g, X) PROVE Shows(r2, l, h, g, X)
    <2>1. CASE g # "no"
      BY <1>11, <2>1, GoneShows
    <2>2. CASE g = "no"
      BY <1>1, <1>11, <2>2 DEF Shows
    <2>3. QED
      BY <2>1, <2>2
  <1>12. Settles(r2, l, h, c2, s, a, g)
    BY <1>3, <1>8, <1>9, <1>10 DEF Settles, n
  <1>13. QED
    BY <1>11, <1>12 DEF r2, c2, i
LEMMA SentIs ==
  ASSUME NEW l \in Links, NEW e \in Events
  PROVE  /\ Sent(l, e).end = l.end
         /\ l.end = "read" => Sent(l, e).events = l.events
         /\ l.end # "read" =>
              /\ Sent(l, e).events = Append(l.events, e)
              /\ Deltas(Sent(l, e).events) = Deltas(l.events) + (IF e = "delta" THEN 1 ELSE 0)
              /\ \A x : x \in Range(Sent(l, e).events) <=> x \in Range(l.events) \/ x = e
              /\ Len(Sent(l, e).events) = Len(l.events) + 1
              /\ \A i \in DOMAIN Sent(l, e).events :
                    \/ i \in DOMAIN l.events /\ Sent(l, e).events[i] = l.events[i]
                    \/ i = Len(l.events) + 1 /\ Sent(l, e).events[i] = e
  <1>1. l.events \in Seq(Events)
    BY DEF Links
  <1>2. /\ Sent(l, e).end = l.end
        /\ Sent(l, e).events = IF l.end = "read" THEN l.events ELSE Append(l.events, e)
    BY DEF Links, Sent
  <1> DEFINE old == l.events
             new == Append(old, e)
  <1>3. /\ Len(new) = Len(old) + 1 /\ DOMAIN new = DOMAIN old \cup {Len(old) + 1}
        /\ new[Len(old) + 1] = e /\ \A i \in DOMAIN old : new[i] = old[i]
    BY <1>1
  <1>4. Deltas(new) = Deltas(old) + (IF e = "delta" THEN 1 ELSE 0)
    BY <1>1, DeltasAppend
  <1> HIDE DEF new
  <1>5. \A x : x \in Range(new) <=> x \in Range(old) \/ x = e
    BY <1>3 DEF Range
  <1>6. QED
    BY <1>2, <1>3, <1>4, <1>5 DEF new

\* An event is forwarded to a browser that has not cancelled the stream.
LEMMA ForwardSettles ==
  ASSUME NEW r \in Routes, NEW l \in Links, NEW h \in Readings, NEW c \in CallPairs,
         NEW s \in TurnStates, NEW a, NEW g,
         TurnOK(r, l, h, c, s, a, TRUE), Settles(r, l, h, c, s, a, g),
         r.pc \in {"reading", "saving"}, r.pc = "reading" => ~r.over, r.cancel = "idle",
         NEW e \in Events, NEW q \in Routes, q.pc = "reading", q.cancel = "idle",
         q.text = r.text + (IF e = "delta" THEN 1 ELSE 0),
         q.over => e \in {"completed", "error"}, ~q.over => r.pc = "reading",
         e \in {"completed", "error"} => q.over,
         q.finalized => s \in Final \/ Asked(c),
         r.pc = "saving" => c["loop"].phase # "sent"
  PROVE  Settles(q, Sent(l, e), h, c, s, a, g)
  <1> DEFINE l2 == Sent(l, e)
             n == OnWay(l, h)
             n2 == OnWay(l2, h)
  <1>1. /\ CallsOK(n, c, s, g) /\ RowOK(n, s, a, g) /\ LoopOK(r, c, s, n) /\ LinkOK(r, l, g)
    BY DEF Settles
  <1>2. /\ n \in Nat /\ n = h.text + Deltas(l.events) /\ n2 = h.text + Deltas(l2.events)
        /\ h.text \in Nat /\ Deltas(l.events) \in Nat /\ q.text \in Nat /\ r.text \in Nat
    BY OnWayType DEF Routes, OnWay
  <1>3. \/ l.end = "read" /\ n2 = n /\ l2.events = <<>> /\ l2.end = "read"
        \/ l.end # "read" /\ n = r.text /\ n2 = n + (IF e = "delta" THEN 1 ELSE 0)
                          /\ l2.end = l.end
    <2>1. CASE l.end = "read"
      BY <1>2, <2>1, SentIs DEF TurnOK
    <2>2. CASE l.end # "read"
      <3>1. n = r.text
        BY <1>2, <2>2 DEF TurnOK
      <3>2. QED
        BY <1>2, <2>2, <3>1, SentIs
    <2>3. QED
      BY <2>1, <2>2
  <1>4. /\ c["cancel"] = None
        /\ c["loop"] # None => r.pc = "saving" /\ c["loop"].phase # "sent"
    BY <1>1 DEF LoopOK
  <1>5. e = "delta" => c["loop"] = None /\ s \notin Final
    <2>1. e = "delta" => r.pc = "reading" /\ ~r.over
      OBVIOUS
    <2>2. QED
      BY <1>1, <2>1 DEF LoopOK
  <1>6. n2 \in Nat /\ n <= n2 /\ n2 <= q.text /\ (e # "delta" => n2 = n)
    <2>1. n <= r.text
      BY <1>1 DEF LoopOK
    <2>2. QED
      BY <1>2, <1>3, <2>1
  <1> HIDE DEF n, n2
  <1>7. CallsOK(n2, c, s, g)
    <2>1. CASE e = "delta"
      BY <1>4, <1>5, <2>1 DEF CallsOK, Threads
    <2>2. CASE e # "delta"
      BY <1>1, <1>6, <2>2
    <2>3. QED
      BY <2>1, <2>2
  <1>8. RowOK(n2, s, a, g)
    <2>1. CASE e = "delta"
      BY <1>5, <2>1 DEF RowOK, Final, Ended
    <2>2. CASE e # "delta"
      BY <1>1, <1>6, <2>2
    <2>3. QED
      BY <2>1, <2>2
  <1>9. LoopOK(q, c, s, n2)
    <2>1. c["loop"] # None => q.over /\ c["loop"].phase # "sent"
      <3>1. r.pc = "saving" => q.over
        OBVIOUS
      <3>2. QED
        BY <1>4, <3>1
    <2>2. ~q.over => s \notin Final
      BY <1>1 DEF LoopOK
    <2>3. QED
      BY <1>4, <1>6, <2>1, <2>2 DEF LoopOK, Early
  <1>10. LinkOK(q, l2, g)
    <2>1. ~Told(r)
      BY DEF Told
    <2>2. \A i \in DOMAIN l.events : l.events[i] \notin {"error", "completed"}
      BY <1>1, <2>1 DEF LinkOK
    <2>3. e \in {"error", "completed"} => Told(q)
      BY DEF Told
    <2>4. ASSUME NEW i \in DOMAIN l2.events, l2.events[i] \in {"error", "completed"}
          PROVE  i = Len(l2.events) /\ Told(q)
      <3>1. CASE l.end = "read"
        <4>1. l2.events = l.events
          BY <3>1, SentIs
        <4>2. QED
          BY <2>2, <2>4, <4>1
      <3>2. CASE l.end # "read"
        <4>1. i = Len(l.events) + 1 /\ l2.events[i] = e
          BY <2>2, <2>4, <3>2, SentIs
        <4>2. QED
          BY <2>3, <2>4, <3>2, <4>1, SentIs
      <3>3. QED
        BY <3>1, <3>2
    <2>5. l2.end = l.end
      BY SentIs
    <2>6. l.end \notin {"closed", "broken"} /\ (g = "no" => l.end = "open")
      BY <1>1 DEF LinkOK
    <2> HIDE DEF l2
    <2>7. QED
      BY <2>4, <2>5, <2>6 DEF LinkOK
  <1>11. QED
    BY <1>7, <1>8, <1>9, <1>10 DEF Settles, n2

\* The view of a browser that reads on has to be told something still.
LEMMA ForwardShows ==
  ASSUME NEW r \in Routes, NEW l \in Links, NEW h \in Readings, NEW c \in CallPairs,
         NEW s \in TurnStates, NEW a, NEW g,
         TurnOK(r, l, h, c, s, a, TRUE), Settles(r, l, h, c, s, a, g),
         r.pc \in {"reading", "saving"}, r.pc = "reading" => ~r.over,
         NEW e \in Events, NEW q \in Routes, q.pc = "reading", q.msg \/ q.over,
         q.over <=> e \in {"completed", "error"}, ~q.over => r.pc = "reading",
         e = "completed" => r.pc = "saving", e = "delta" => r.msg,
         NEW X, Shows(r, l, h, g, X)
  PROVE  Shows(q, Sent(l, e), h, g, X)
  <1> DEFINE l2 == Sent(l, e)
  <1>1. CASE g # "no"
    BY <1>1, GoneShows
  <1>2. CASE g = "no"
    <2>1. l.end = "open"
      BY <1>2 DEF Settles, LinkOK
    <2>2. /\ Deltas(l.events) \in Nat /\ h.text \in Nat /\ r.text \in Nat
      BY OnWayType DEF Routes
    <2>3. /\ Deltas(l2.events) = Deltas(l.events) + (IF e = "delta" THEN 1 ELSE 0)
          /\ \A x : x \in Range(l2.events) <=> x \in Range(l.events) \/ x = e
          /\ l2.end = "open"
      BY <2>1, SentIs
    <2> HIDE DEF l2
    <2>4. h.text = 0 /\ "started" \notin Range(l2.events)
             /\ (Deltas(l2.events) > 0 \/ (q.msg /\ ~q.over)) => 0 \in X
      <3> SUFFICES ASSUME h.text = 0, "started" \notin Range(l2.events),
                          Deltas(l2.events) > 0 \/ (q.msg /\ ~q.over)
                   PROVE  0 \in X
        OBVIOUS
      <3>1. e # "started" /\ "started" \notin Range(l.events)
        BY <2>3
      <3>2. CASE Deltas(l.events) > 0
        BY <1>2, <3>1, <3>2 DEF Shows
      <3>3. CASE ~(Deltas(l.events) > 0)
        <4>1. e = "delta"
          BY <2>2, <2>3, <3>1, <3>3 DEF Events
        <4>2. r.pc = "reading" /\ r.msg /\ ~r.over
          BY <4>1
        <4>3. QED
          BY <1>2, <3>1, <4>2 DEF Shows
      <3>4. QED
        BY <3>2, <3>3
    <2>5. Told(q) /\ h.text = 0 => Deltas(l2.events) > 0 \/ "error" \in Range(l2.events)
      <3> SUFFICES ASSUME Told(q), h.text = 0, e # "error"
                   PROVE  Deltas(l2.events) > 0
        BY <2>3
      <3>1. e = "completed" /\ r.pc = "saving"
        BY DEF Told
      <3>2. /\ c["loop"] # None /\ c["loop"].status = "completed" /\ c["loop"].text = r.text
            /\ h.text + Deltas(l.events) = r.text
        BY <2>1, <3>1 DEF TurnOK
      <3>3. r.text # 0
        BY <3>2 DEF Settles, CallsOK, Threads
      <3>4. QED
        BY <2>2, <2>3, <3>1, <3>2, <3>3
    <2>6. 0 \in X => l2.end # "read"
      BY <2>3
    <2>7. QED
      BY <1>2, <2>4, <2>5, <2>6 DEF Shows, l2
  <1>3. QED
    BY <1>1, <1>2
\* The complete answer is sent to Core.
LEMMA SavingSettles ==
  ASSUME NEW r \in Routes, NEW l \in Links, NEW h \in Readings, NEW c \in CallPairs,
         NEW s \in TurnStates, NEW a, NEW g,
         TurnOK(r, l, h, c, s, a, TRUE), Settles(r, l, h, c, s, a, g),
         r.pc = "reading", ~r.over, r.text > 0,
         NEW q \in Routes, q.pc = "saving", q.text = r.text, q.cancel = r.cancel,
         q.finalized => r.finalized
  PROVE  /\ Settles(q, l, h, WithCall(c, "loop", Call("completed", r.text)), s, a, g)
         /\ \A X : Shows(r, l, h, g, X) => Shows(q, l, h, g, X)
  <1> DEFINE i == Call("completed", r.text)
             c2 == WithCall(c, "loop", i)
             n == OnWay(l, h)
  <1>1. /\ i \in Requests /\ i # None /\ i.phase = "sent" /\ i.status = "completed"
        /\ i.text = r.text /\ r.text \in Nat
    <2>1. r.text \in 0 .. MaxText
      BY DEF Routes
    <2>2. QED
      BY <2>1, CallType
  <1> HIDE DEF i
  <1>2. c2["loop"] = i /\ c2["cancel"] = c["cancel"]
    BY WithCallIs DEF Threads
  <1>3. /\ CallsOK(n, c, s, g) /\ RowOK(n, s, a, g) /\ LoopOK(r, c, s, n) /\ LinkOK(r, l, g)
    BY DEF Settles
  <1>4. n \in Nat /\ n = h.text + Deltas(l.events)
    BY OnWayType
  <1>5. n <= r.text /\ (g = "no" => r.text = n)
    <2>1. g = "no" => l.end = "open"
      BY <1>3 DEF LinkOK
    <2>2. l.end = "open" => n = r.text
      BY <1>4 DEF TurnOK
    <2>3. QED
      BY <1>3, <2>1, <2>2 DEF LoopOK
  <1> HIDE DEF n, c2
  <1>6. CallsOK(n, c2, s, g)
    BY <1>1, <1>2, <1>3, <1>5 DEF CallsOK, Threads
  <1>7. LoopOK(q, c2, s, n)
    <2>1. Asked(c2)
      BY <1>1, <1>2 DEF Asked, Threads
    <2>2. q.cancel = "settling" <=> c2["cancel"] # None
      BY <1>2, <1>3 DEF LoopOK
    <2>3. QED
      BY <1>5, <2>1, <2>2 DEF LoopOK, Early
  <1>8. LinkOK(q, l, g)
    BY <1>3 DEF LinkOK, Told
  <1>9. ASSUME NEW X, Shows(r, l, h, g, X) PROVE Shows(q, l, h, g, X)
    BY <1>9 DEF Shows, Told
  <1>10. QED
    BY <1>3, <1>6, <1>7, <1>8, <1>9 DEF Settles, n, c2, i

\* The loop goes on to ask for a stream, or to report that there will be none.
LEMMA EarlySettles ==
  ASSUME NEW r \in Routes, NEW l \in Links, NEW h \in Readings, NEW c \in CallPairs,
         NEW s \in TurnStates, NEW a, NEW g, NEW s2 \in TurnStates,
         TurnOK(r, l, h, c, s, a, TRUE), Settles(r, l, h, c, s, a, g),
         r.pc \in Early \ {"none", "failing"}, s2 \notin Final,
         NEW q \in Routes, q.pc \in {"starting", "asking", "reading", "failing"},
         q.text = r.text, q.cancel = r.cancel, q.msg => r.msg, q.over => r.over,
         q.finalized => r.finalized
  PROVE  /\ Settles(q, l, h, c, s2, a, g)
         /\ q.pc = "failing" =>
               Settles(q, l, h, WithCall(c, "loop", Call("failed", 0)), s2, a, g)
         /\ \A X : Shows(r, l, h, g, X) => Shows(q, l, h, g, X)
  <1> DEFINE i == Call("failed", 0)
             n == OnWay(l, h)
  <1>1. i \in Requests /\ i # None /\ i.phase = "sent" /\ i.status = "failed" /\ i.text = 0
    BY CallType
  <1>2. /\ CallsOK(n, c, s, g) /\ RowOK(n, s, a, g) /\ LoopOK(r, c, s, n) /\ LinkOK(r, l, g)
    BY DEF Settles
  <1>3. n = 0 /\ l.events = <<>> /\ h.text = 0 /\ r.text = 0 /\ Deltas(l.events) = 0
        /\ Range(l.events) = {} /\ DOMAIN l.events = {}
    <2>1. l.events = <<>> /\ h.text = 0 /\ r.text = 0
      BY DEF TurnOK
    <2>2. QED
      BY <2>1, DeltasEmpty DEF Range, OnWay
  <1>4. /\ c["loop"] = None /\ c["cancel"] = None /\ r.cancel = "idle" /\ s \notin Final
        /\ ~r.msg /\ ~r.over
    BY <1>2 DEF LoopOK, Early
  <1>5. ~r.finalized
    BY <1>2, <1>4 DEF LoopOK, Asked, Threads
  <1> HIDE DEF n
  <1>6. RowOK(n, s2, a, g)
    BY <1>3 DEF RowOK, Final, Ended
  <1>7. LinkOK(q, l, g)
    BY <1>2, <1>3, <1>4 DEF LinkOK, Early
  <1>8. ASSUME NEW c2, c2["cancel"] = None,
               c2["loop"] # None => q.pc = "failing" /\ c2["loop"] = i
        PROVE  Settles(q, l, h, c2, s2, a, g)
    <2> HIDE DEF i
    <2>1. CallsOK(n, c2, s2, g)
      BY <1>1, <1>3, <1>8 DEF CallsOK, Threads
    <2>2. LoopOK(q, c2, s2, n)
      BY <1>3, <1>4, <1>5, <1>8 DEF LoopOK, Early
    <2>3. QED
      BY <1>6, <1>7, <2>1, <2>2 DEF Settles, n
  <1>9. Settles(q, l, h, c, s2, a, g)
    BY <1>4, <1>8
  <1>10. WithCall(c, "loop", i)["loop"] = i /\ WithCall(c, "loop", i)["cancel"] = None
    BY <1>4, WithCallIs DEF Threads
  <1>11. q.pc = "failing" => Settles(q, l, h, WithCall(c, "loop", i), s2, a, g)
    <2> HIDE DEF i
    <2>1. QED
      BY <1>8, <1>10
  <1>12. ASSUME NEW X, Shows(r, l, h, g, X) PROVE Shows(q, l, h, g, X)
    BY <1>3, <1>4, <1>12 DEF Shows, Told
  <1>13. QED
    BY <1>9, <1>11, <1>12

\* The cancel callback starts, or learns what became of its request.
LEMMA CancelSettles ==
  ASSUME NEW r \in Routes, NEW l \in Links, NEW h \in Readings, NEW c \in CallPairs,
         NEW s \in TurnStates, NEW a, NEW g,
         TurnOK(r, l, h, c, s, a, TRUE), Settles(r, l, h, c, s, a, g),
         g = "noticed", r.pc \in {"reading", "saving", "settling"}, r.cancel = "idle",
         NEW q \in Routes, q.pc = r.pc, q.text = r.text, q.msg = r.msg, q.over = r.over,
         q.finalized, NEW c2 \in CallPairs,
         \/ r.finalized /\ q.cancel = "done" /\ c2 = c
         \/ ~r.finalized /\ q.cancel = "settling" /\ c2 = WithCall(c, "cancel", Interrupted(r))
  PROVE  Settles(q, l, h, c2, s, a, g)
  <1> DEFINE i == Interrupted(r)
             n == OnWay(l, h)
  <1>1. /\ CallsOK(n, c, s, g) /\ RowOK(n, s, a, g) /\ LoopOK(r, c, s, n) /\ LinkOK(r, l, g)
    BY DEF Settles
  <1>2. n \in Nat /\ r.text \in Nat
    BY OnWayType DEF Routes
  <1>3. /\ i # None /\ i.phase = "sent" /\ i.text = (IF r.msg THEN r.text ELSE 0)
        /\ i.status = (IF r.msg /\ r.text > 0 THEN "stopped" ELSE "failed")
    BY InterruptedType
  <1> HIDE DEF i, n
  <1>4. LinkOK(q, l, g)
    BY <1>1 DEF LinkOK, Told
  <1>5. CASE r.finalized /\ q.cancel = "done" /\ c2 = c
    <2>1. LoopOK(q, c2, s, n)
      BY <1>1, <1>5 DEF LoopOK, Early
    <2>2. QED
      BY <1>1, <1>4, <1>5, <2>1 DEF Settles, n
  <1>6. CASE /\ ~r.finalized /\ q.cancel = "settling"
             /\ c2 = WithCall(c, "cancel", Interrupted(r))
    <2>1. c2["cancel"] = i /\ c2["loop"] = c["loop"]
      BY <1>6, WithCallIs DEF Threads, i
    <2>2. r.pc \in {"reading", "saving"}
      BY <1>1, <1>6 DEF LoopOK
    <2>3. n <= i.text /\ (i.status = "failed" <=> i.text = 0)
      <3>1. n <= r.text
        BY <1>1, <2>2 DEF LoopOK
      <3>2. ~r.msg => r.text = 0
        BY <2>2 DEF TurnOK
      <3>3. QED
        BY <1>2, <1>3, <3>1, <3>2
    <2>4. CallsOK(n, c2, s, g)
      BY <1>1, <1>3, <2>1, <2>3 DEF CallsOK, Threads
    <2>5. Asked(c2)
      BY <1>3, <2>1 DEF Asked, Threads
    <2>6. LoopOK(q, c2, s, n)
      BY <1>1, <1>3, <1>6, <2>1, <2>2, <2>5 DEF LoopOK, Early
    <2>7. QED
      BY <1>1, <1>4, <2>4, <2>6 DEF Settles, n
  <1>7. QED
    BY <1>5, <1>6

LEMMA CancelOver ==
  ASSUME NEW r \in Routes, NEW l \in Links, NEW h \in Readings, NEW c \in CallPairs,
         NEW s \in TurnStates, NEW a, NEW g, Settles(r, l, h, c, s, a, g),
         r.cancel = "settling", c["cancel"].phase # "sent",
         NEW q \in Routes, q.pc = r.pc, q.text = r.text, q.msg = r.msg, q.over = r.over,
         q.finalized = r.finalized, q.cancel = (IF r.pc = "done" THEN "idle" ELSE "done")
  PROVE  Settles(q, l, h, WithCall(c, "cancel", None), s, a, g)
  <1> DEFINE n == OnWay(l, h)
             c2 == WithCall(c, "cancel", None)
  <1>1. /\ CallsOK(n, c, s, g) /\ RowOK(n, s, a, g) /\ LoopOK(r, c, s, n) /\ LinkOK(r, l, g)
    BY DEF Settles
  <1>2. c2["cancel"] = None /\ c2["loop"] = c["loop"]
    BY WithCallIs DEF Threads
  <1>3. c["cancel"] # None /\ s \in Final
    BY <1>1 DEF LoopOK, CallsOK, Threads
  <1> HIDE DEF n, c2
  <1>4. CallsOK(n, c2, s, g)
    BY <1>1, <1>2 DEF CallsOK, Threads
  <1>5. LoopOK(q, c2, s, n)
    BY <1>1, <1>2, <1>3 DEF LoopOK, Early
  <1>6. LinkOK(q, l, g)
    BY <1>1 DEF LinkOK, Told
  <1>7. QED
    BY <1>1, <1>4, <1>5, <1>6 DEF Settles, n, c2

\* The browser is gone, and the handler notices.
LEMMA NoticeSettles ==
  ASSUME NEW r, NEW l, NEW h, NEW c, NEW s, NEW a, NEW g, NEW g2,
         Settles(r, l, h, c, s, a, g), g2 # "no", g = "noticed" => g2 = "noticed"
  PROVE  Settles(r, l, h, c, s, a, g2)
  <1> DEFINE n == OnWay(l, h)
  <1>1. /\ CallsOK(n, c, s, g) /\ RowOK(n, s, a, g) /\ LoopOK(r, c, s, n) /\ LinkOK(r, l, g)
    BY DEF Settles
  <1> HIDE DEF n
  <1>2. CallsOK(n, c, s, g2) /\ RowOK(n, s, a, g2) /\ LinkOK(r, l, g2)
    BY <1>1 DEF CallsOK, RowOK, LinkOK
  <1>3. QED
    BY <1>1, <1>2 DEF Settles, n
\* Core starts the turn, or refuses to.
LEMMA StartSettles ==
  ASSUME NEW r \in Routes, NEW l \in Links, NEW h \in Readings, NEW c \in CallPairs,
         NEW a, NEW g, NEW open, TurnOK(r, l, h, c, "asked", a, open),
         Settles(r, l, h, c, "asked", a, g), NEW s2 \in {"started", "refused"}, NEW a2
  PROVE  Settles(r, l, h, c, s2, a2, g)
  <1> DEFINE n == OnWay(l, h)
  <1>1. /\ CallsOK(n, c, "asked", g) /\ LoopOK(r, c, "asked", n) /\ LinkOK(r, l, g)
    BY DEF Settles
  <1>2. \A k \in Threads : c[k] = None
    BY DEF TurnOK, Started
  <1> HIDE DEF n
  <1>3. CallsOK(n, c, s2, g) /\ RowOK(n, s2, a2, g)
    BY <1>2 DEF CallsOK, RowOK, Ended
  <1>4. LoopOK(r, c, s2, n)
    <2>1. "asked" \notin Final /\ s2 \notin Final
      BY DEF Final
    <2>2. QED
      BY <1>1, <2>1 DEF LoopOK
  <1>5. QED
    BY <1>1, <1>3, <1>4 DEF Settles, n

\* Core serves the request of thread k to settle the turn, and its answer arrives.
LEMMA AnswerSettles ==
  ASSUME NEW r \in Routes, NEW l \in Links, NEW h \in Readings, NEW c \in CallPairs,
         NEW s \in Started, NEW a, NEW g, Settles(r, l, h, c, s, a, g),
         NEW k \in Threads, c[k] # None, c[k].phase = "sent", NEW p \in {"ok", "refused"},
         NEW s2, NEW a2,
         \/ s # "started" /\ s2 = s /\ a2 = a
         \/ s = "started" /\ s2 = c[k].status /\ (s2 \in Ended => a2 = {c[k].text})
  PROVE  Settles(r, l, h, Answered(c, k, p), s2, a2, g)
  <1> DEFINE c2 == Answered(c, k, p)
             n == OnWay(l, h)
  <1>1. /\ CallsOK(n, c, s, g) /\ RowOK(n, s, a, g) /\ LoopOK(r, c, s, n) /\ LinkOK(r, l, g)
    BY DEF Settles
  <1>2. /\ c2 \in CallPairs /\ c2[k].phase = p /\ c2[k] # None
        /\ c2[k].status = c[k].status /\ c2[k].text = c[k].text
        /\ \A j \in Threads : j # k => c2[j] = c[j]
    BY AnsweredType
  <1>3. /\ c[k].status \in Final /\ c[k].text \in Nat
        /\ (c[k].status = "failed" <=> c[k].text = 0)
        /\ n <= c[k].text /\ (g = "no" => c[k].text = n)
    <2>1. c[k] \in Requests
      BY DEF CallPairs
    <2>2. c[k].status \in Final /\ c[k].text \in Nat
      BY <2>1 DEF Requests, Final
    <2>3. QED
      BY <1>1, <2>2 DEF CallsOK
  <1>4. n \in Nat
    BY OnWayType
  <1>5. s2 \in Final
    BY <1>3 DEF Started, Final
  <1> HIDE DEF n, c2
  <1>6. CallsOK(n, c2, s2, g)
    <2>1. ASSUME NEW j \in Threads, c2[j] # None
          PROVE  /\ c2[j].phase # "lost" /\ (c2[j].status = "failed" <=> c2[j].text = 0)
                 /\ c2[j].phase = "sent" => n <= c2[j].text /\ (g = "no" => c2[j].text = n)
      <3>1. CASE j = k
        BY <1>2, <1>3, <3>1
      <3>2. CASE j # k
        BY <1>1, <1>2, <2>1, <3>2 DEF CallsOK
      <3>3. QED
        BY <3>1, <3>2
    <2>2. QED
      BY <1>5, <2>1 DEF CallsOK
  <1>7. RowOK(n, s2, a2, g)
    <2>1. CASE s # "started" /\ s2 = s /\ a2 = a
      BY <1>1, <2>1
    <2>2. CASE s = "started" /\ s2 = c[k].status /\ (s2 \in Ended => a2 = {c[k].text})
      <3>1. s2 = "failed" => n = 0
        BY <1>3, <1>4, <2>2
      <3>2. s2 \in Ended => /\ a2 = {c[k].text} /\ c[k].text > 0 /\ n <= c[k].text
                            /\ (g = "no" => n = c[k].text)
        BY <1>3, <2>2 DEF Ended
      <3>3. QED
        BY <3>1, <3>2 DEF RowOK
    <2>3. QED
      BY <2>1, <2>2
  <1>8. LoopOK(r, c2, s2, n)
    <2>1. \A j \in Threads : c2[j] # None <=> c[j] # None
      BY <1>2
    <2>2. r.pc \notin Early \ {"failing"}
      <3>1. r.pc \in Early => c["cancel"] = None
        BY <1>1 DEF LoopOK
      <3>2. QED
        BY <1>1, <3>1 DEF LoopOK, Threads
    <2>3. r.pc = "reading" => k = "cancel" /\ r.cancel # "idle"
      BY <1>1 DEF LoopOK, Threads
    <2>4. r.pc = "reading" => c2["loop"] = c["loop"]
      BY <1>2, <2>3 DEF Threads
    <2>5. QED
      BY <1>1, <1>5, <2>1, <2>2, <2>3, <2>4 DEF LoopOK, Threads
  <1>9. QED
    BY <1>1, <1>6, <1>7, <1>8 DEF Settles, n, c2

-------------------------------------------------------------------------------
(* What a step of the handler or of Core for turn t has to be shown to do. *)

LEMMA KeptStep ==
  ASSUME IInv, KeptInv, NEW t \in Turns, UNCHANGED browser,
         \A u \in Turns \ {t} :
            /\ route'[u] = route[u] /\ link'[u] = link[u] /\ call'[u] = call[u]
            /\ status'[u] = status[u] /\ gone'[u] = gone[u] /\ Stored(u)' = Stored(u),
         Range(log) \subseteq Range(log'), StoresInv(t)',
         link'[t].end # "read" => link[t].end # "read",
         Shows(route[t], link[t], heard[t], gone[t], Answers(shown, t)) =>
            Shows(route'[t], link'[t], heard[t], gone'[t], Answers(shown, t))
  PROVE  KeptInv'
  <1>1. /\ view' = view /\ shown' = shown /\ heard' = heard /\ page' = page /\ opened' = opened
    BY DEF browser
  <1>2. \A u : Mounted(u)' <=> Mounted(u)
    BY <1>1 DEF Mounted
  <1>3. ShownInv'
    BY <1>1, <1>2 DEF KeptInv, ShownInv
  <1>4. ASSUME NEW u \in Turns PROVE StoresInv(u)' /\ ShowsInv(u)'
    <2>1. StoresInv(u) /\ ShowsInv(u) /\ Answers(shown, u)' = Answers(shown, u)
      BY <1>1 DEF KeptInv
    <2>2. CASE u = t
      <3>1. ShowsInv(t)'
        BY <1>1, <1>2, <2>1, <2>2 DEF ShowsInv
      <3>2. QED
        BY <2>2, <3>1
    <2>3. CASE u # t
      <3>1. StoresInv(u)'
        BY <1>1, <2>1, <2>3 DEF StoresInv
      <3>2. ShowsInv(u)'
        BY <1>1, <1>2, <2>1, <2>3 DEF ShowsInv
      <3>3. QED
        BY <3>1, <3>2
    <2>4. QED
      BY <2>2, <2>3
  <1>5. QED
    BY <1>3, <1>4 DEF KeptInv
\* What the steps below know of their turn.
LEMMA KeptFacts ==
  ASSUME IInv, KeptInv, NEW t \in Turns
  PROVE  /\ Settles(route[t], link[t], heard[t], call[t], status[t], Stored(t), gone[t])
         /\ gone[t] \in {"no", "aborted", "noticed"}
         /\ gone \in [Turns -> {"no", "aborted", "noticed"}]
  <1>1. gone \in [Turns -> {"no", "aborted", "noticed"}]
    BY TypeMeans DEF IInv
  <1>2. QED
    BY <1>1 DEF KeptInv, StoresInv

\* A step that leaves Core and the browser's side alone.
LEMMA LoopKept ==
  ASSUME IInv, KeptInv, NEW t \in Turns, NEW r, NEW l, NEW c, UNCHANGED <<browser, gone, core>>,
         route' = [route EXCEPT ![t] = r], link' = [link EXCEPT ![t] = l],
         call' = [call EXCEPT ![t] = c], l.end # "read" => link[t].end # "read",
         Settles(r, l, heard[t], c, status[t], Stored(t), gone[t]),
         \A X : Shows(route[t], link[t], heard[t], gone[t], X) =>
                Shows(r, l, heard[t], gone[t], X)
  PROVE  KeptInv'
  <1>1. /\ route \in [Turns -> Routes] /\ link \in [Turns -> Links]
        /\ call \in [Turns -> CallPairs]
    BY TurnFacts
  <1>2. /\ route'[t] = r /\ link'[t] = l /\ call'[t] = c
        /\ \A u \in Turns \ {t} :
             route'[u] = route[u] /\ link'[u] = link[u] /\ call'[u] = call[u]
    BY <1>1
  <1>3. status' = status /\ log' = log /\ gone' = gone /\ heard' = heard
    BY DEF core, browser
  <1>4. \A u \in Turns : Stored(u)' = Stored(u)
    BY <1>3 DEF Stored, Answers
  <1>5. StoresInv(t)'
    BY <1>2, <1>3, <1>4 DEF StoresInv
  <1>6. QED
    BY <1>2, <1>3, <1>4, <1>5, KeptStep

LEMMA ReturnKept ==
  ASSUME IInv, KeptInv, NEW t \in Turns, NEW end \in {"closed", "broken"},
         route[t].pc \notin {"none", "done"}, UNCHANGED <<browser, gone, core>>,
         Return(t, end), gone[t] = "no" => Told(route[t]) \/ end = "broken",
         OnWay(link[t], heard[t]) > 0 =>
            \/ status[t] \in Final
            \/ call[t]["cancel"] # None /\ call[t]["cancel"].phase = "sent"
  PROVE  KeptInv'
  <1> DEFINE to == IF Cancelled(t) /\ call[t].cancel # None THEN "settling" ELSE "idle"
  <1>1. /\ route[t] \in Routes /\ link[t] \in Links /\ heard[t] \in Readings
        /\ call[t] \in CallPairs /\ status[t] \in TurnStates
    BY TurnFacts
  <1>2. Settles(route[t], link[t], heard[t], call[t], status[t], Stored(t), gone[t])
    BY KeptFacts
  <1>3. to \in {"idle", "settling"} /\ (to = "settling" <=> call[t]["cancel"] # None)
    <2>1. route[t].cancel = "settling" <=> call[t]["cancel"] # None
      BY <1>2 DEF Settles, LoopOK
    <2>2. QED
      BY <2>1 DEF Cancelled
  <1>4. /\ route' = [route EXCEPT ![t] = Returned(to)]
        /\ link' = [link EXCEPT ![t] = EndedLink(link[t], end)]
        /\ call' = [call EXCEPT ![t] = WithCall(call[t], "loop", None)]
    BY DEF Return, Returned, EndedLink, WithCall
  <1> HIDE DEF to
  <1>5. /\ Settles(Returned(to), EndedLink(link[t], end), heard[t],
                   WithCall(call[t], "loop", None), status[t], Stored(t), gone[t])
        /\ \A X : Shows(route[t], link[t], heard[t], gone[t], X) =>
                  Shows(Returned(to), EndedLink(link[t], end), heard[t], gone[t], X)
    BY <1>1, <1>2, <1>3, ReturnSettles
  <1>6. EndedLink(link[t], end).end # "read" => link[t].end # "read"
    BY <1>1, EndedLinkIs
  <1>7. QED
    BY <1>4, <1>5, <1>6, LoopKept

\* The loop settles its turn with what the handler's state q says, unless that is done.
LEMMA SettleKept ==
  ASSUME IInv, KeptInv, NEW t \in Turns, NEW exit \in {"closed", "broken"},
         route[t].pc \in {"reading", "saving"}, UNCHANGED <<browser, gone, core>>,
         NEW q \in Routes, Settle(t, q, exit), q.text >= route[t].text,
         q.cancel = route[t].cancel,
         ~q.msg => route[t].pc = "reading" /\ ~route[t].msg,
         gone[t] = "no" => q.text = route[t].text /\ Told(route[t]),
         q.finalized => status[t] \in Final
                        \/ (call[t]["cancel"] # None /\ call[t]["cancel"].phase = "sent")
  PROVE  KeptInv'
  <1>1. CASE q.finalized
    BY <1>1, ReturnKept DEF Settle
  <1>2. CASE ~q.finalized
    <2>1. /\ route' = [route EXCEPT ![t] = Settling(q, exit)] /\ link' = link
          /\ call' = [call EXCEPT ![t] = WithCall(call[t], "loop", Interrupted(q))]
      BY <1>2 DEF Settle, Settling, WithCall
    <2>2. /\ route[t] \in Routes /\ link[t] \in Links /\ heard[t] \in Readings
          /\ call[t] \in CallPairs /\ status[t] \in TurnStates /\ t <= opened
          /\ link' = [link EXCEPT ![t] = link[t]]
      BY <2>1, TurnFacts
    <2>3. TurnOK(route[t], link[t], heard[t], call[t], status[t], Stored(t), TRUE)
      BY <2>2, TurnFacts
    <2>4. Settles(route[t], link[t], heard[t], call[t], status[t], Stored(t), gone[t])
      BY KeptFacts
    <2>5. /\ Settles(Settling(q, exit), link[t], heard[t],
                     WithCall(call[t], "loop", Interrupted(q)), status[t], Stored(t), gone[t])
          /\ \A X : Shows(route[t], link[t], heard[t], gone[t], X) =>
                    Shows(Settling(q, exit), link[t], heard[t], gone[t], X)
      BY <2>2, <2>3, <2>4, SettleSettles
    <2>6. QED
      BY <2>1, <2>2, <2>5, LoopKept
  <1>3. QED
    BY <1>1, <1>2

\* What is meant by a loop that finds its turn finalized.
LEMMA FinalizedMeans ==
  ASSUME IInv, KeptInv, NEW t \in Turns, route[t].pc = "reading", route[t].finalized
  PROVE  \/ status[t] \in Final
         \/ call[t]["cancel"] # None /\ call[t]["cancel"].phase = "sent"
  <1>1. Settles(route[t], link[t], heard[t], call[t], status[t], Stored(t), gone[t])
    BY KeptFacts
  <1>2. QED
    BY <1>1 DEF Settles, LoopOK, Asked, Threads

LEMMA ForwardKept ==
  ASSUME IInv, KeptInv, NEW t \in Turns, NEW e \in Events, NEW q \in Routes,
         route[t].pc \in {"reading", "saving"}, route[t].pc = "reading" => ~route[t].over,
         q.pc = "reading", q.cancel = route[t].cancel,
         q.text = route[t].text + (IF e = "delta" THEN 1 ELSE 0),
         q.over <=> e \in {"completed", "error"}, ~q.over => route[t].pc = "reading",
         q.msg \/ (q.over /\ route[t].pc = "reading" /\ ~route[t].msg),
         e = "completed" => route[t].pc = "saving", e = "delta" => route[t].msg,
         q.finalized => status[t] \in Final
                        \/ (call[t]["cancel"] # None /\ call[t]["cancel"].phase = "sent"),
         route[t].pc = "saving" => call[t]["loop"].phase # "sent",
         UNCHANGED <<browser, gone, core>>, Forward(t, q, e)
  PROVE  KeptInv'
  <1>1. /\ route[t] \in Routes /\ link[t] \in Links /\ heard[t] \in Readings
        /\ call[t] \in CallPairs /\ status[t] \in TurnStates /\ t <= opened
    BY TurnFacts
  <1>2. TurnOK(route[t], link[t], heard[t], call[t], status[t], Stored(t), TRUE)
    BY <1>1, TurnFacts
  <1>3. Settles(route[t], link[t], heard[t], call[t], status[t], Stored(t), gone[t])
    BY KeptFacts
  <1>4. CASE Cancelled(t)
    <2>1. Settle(t, q, "broken")
      BY <1>4 DEF Forward
    <2>2. gone[t] # "no"
      BY <1>3, <1>4 DEF Cancelled, Settles, LinkOK
    <2>3. q.text >= route[t].text
      BY <1>1 DEF Routes
    <2>4. QED
      BY <2>1, <2>2, <2>3, SettleKept
  <1>5. CASE ~Cancelled(t)
    <2> DEFINE l2 == Sent(link[t], e)
    <2>1. /\ route' = [route EXCEPT ![t] = q] /\ call' = [call EXCEPT ![t] = call[t]]
          /\ link' = [link EXCEPT ![t] = l2]
      BY <1>5, TurnFacts DEF Forward, Sent
    <2>2. route[t].cancel = "idle"
      BY <1>5 DEF Cancelled
    <2>3. q.finalized => status[t] \in Final \/ Asked(call[t])
      BY DEF Asked, Threads
    <2>4. Settles(q, l2, heard[t], call[t], status[t], Stored(t), gone[t])
      BY <1>1, <1>2, <1>3, <2>2, <2>3, ForwardSettles
    <2>5. \A X : Shows(route[t], link[t], heard[t], gone[t], X) =>
                 Shows(q, l2, heard[t], gone[t], X)
      BY <1>1, <1>2, <1>3, ForwardShows
    <2>6. l2.end = link[t].end
      BY <1>1, SentIs
    <2> HIDE DEF l2
    <2>7. QED
      BY <2>1, <2>4, <2>5, <2>6, LoopKept
  <1>6. QED
    BY <1>4, <1>5
-------------------------------------------------------------------------------
(* The actions of the handler. *)

\* Before the stream there is nothing of an answer.
LEMMA NothingEarly ==
  ASSUME IInv, NEW t \in Turns, route[t].pc \in Early
  PROVE  OnWay(link[t], heard[t]) = 0
  <1>1. link[t].events = <<>> /\ heard[t].text = 0
    BY TurnFacts DEF TurnOK
  <1>2. QED
    BY <1>1, DeltasEmpty DEF OnWay

LEMMA EarlyReturnKept ==
  ASSUME IInv, KeptInv, NEW t \in Turns, TurnDoesNotStart(t) \/ TurnFailed(t)
  PROVE  KeptInv'
  <1>1. route[t].pc \in Early \ {"none"}
    BY DEF TurnDoesNotStart, TurnFailed, At, Early
  <1>2. Return(t, "broken") /\ UNCHANGED <<browser, gone, core>>
    BY DEF TurnDoesNotStart, TurnFailed, RespondError, core
  <1>3. QED
    BY <1>1, <1>2, NothingEarly, ReturnKept DEF Early

LEMMA LoopSettledKept ==
  ASSUME IInv, KeptInv, NEW t \in Turns, LoopSettled(t)
  PROVE  KeptInv'
  <1>1. /\ route[t].pc = "settling" /\ call[t]["loop"].phase # "sent"
        /\ Return(t, route[t].exit) /\ UNCHANGED <<browser, gone, core>>
    BY DEF LoopSettled, At, core
  <1>2. route[t].exit \in {"closed", "broken"}
    BY TurnFacts DEF Routes
  <1>3. Settles(route[t], link[t], heard[t], call[t], status[t], Stored(t), gone[t])
    BY KeptFacts
  <1>4. call[t]["loop"] # None
    BY <1>1, <1>3 DEF Settles, LoopOK
  <1>5. status[t] \in Final
    BY <1>1, <1>3, <1>4 DEF Settles, CallsOK, Threads
  <1>6. QED
    BY <1>1, <1>2, <1>5, ReturnKept DEF Told

\* The steps between the loop's start and its first event.
LEMMA EarlyKept ==
  ASSUME IInv, KeptInv, NEW t \in Turns, route[t].pc \in {"starting", "asking"},
         UNCHANGED <<browser, gone, core, link>>,
         NEW q \in Routes, route' = [route EXCEPT ![t] = q],
         q.pc \in {"asking", "reading", "failing"},
         q.text = route[t].text, q.cancel = route[t].cancel, q.msg => route[t].msg,
         q.over => route[t].over, q.finalized => route[t].finalized,
         \/ UNCHANGED call
         \/ q.pc = "failing" /\ call' = [call EXCEPT ![t].loop = Call("failed", 0)]
  PROVE  KeptInv'
  <1>1. /\ route[t] \in Routes /\ link[t] \in Links /\ heard[t] \in Readings
        /\ call[t] \in CallPairs /\ status[t] \in TurnStates /\ t <= opened
        /\ link' = [link EXCEPT ![t] = link[t]]
    BY TurnFacts
  <1>2. TurnOK(route[t], link[t], heard[t], call[t], status[t], Stored(t), TRUE)
    BY <1>1, TurnFacts
  <1>3. Settles(route[t], link[t], heard[t], call[t], status[t], Stored(t), gone[t])
    BY KeptFacts
  <1>4. route[t].pc \in Early \ {"none", "failing"} /\ status[t] \notin Final
    BY <1>3 DEF Settles, LoopOK, Early
  <1> DEFINE c2 == WithCall(call[t], "loop", Call("failed", 0))
  <1>5. /\ Settles(q, link[t], heard[t], call[t], status[t], Stored(t), gone[t])
        /\ q.pc = "failing" =>
              Settles(q, link[t], heard[t], c2, status[t], Stored(t), gone[t])
        /\ \A X : Shows(route[t], link[t], heard[t], gone[t], X) =>
                  Shows(q, link[t], heard[t], gone[t], X)
    BY <1>1, <1>2, <1>3, <1>4, EarlySettles
  <1>6. CASE UNCHANGED call
    <2>1. call' = [call EXCEPT ![t] = call[t]]
      BY <1>6, TurnFacts
    <2>2. QED
      BY <1>1, <1>5, <2>1, LoopKept
  <1>7. CASE q.pc = "failing" /\ call' = [call EXCEPT ![t].loop = Call("failed", 0)]
    <2>1. call' = [call EXCEPT ![t] = c2]
      BY <1>7 DEF WithCall
    <2>2. Settles(q, link[t], heard[t], c2, status[t], Stored(t), gone[t])
      BY <1>5, <1>7
    <2> HIDE DEF c2
    <2>3. QED
      BY <1>1, <1>5, <2>1, <2>2, LoopKept
  <1>8. QED
    BY <1>6, <1>7

LEMMA StartsAsksKept ==
  ASSUME IInv, KeptInv, NEW t \in Turns, TurnStarts(t) \/ AskModel(t)
  PROVE  KeptInv'
  <1> DEFINE r == route[t]
  <1>1. /\ r \in Routes /\ route \in [Turns -> Routes] /\ r.pc \in {"starting", "asking"}
        /\ UNCHANGED <<browser, gone, core, link>>
    BY TurnFacts DEF TurnStarts, AskModel, At, core
  <1>2. ASSUME NEW p \in {"asking", "reading", "failing"}
        PROVE  LET q == [r EXCEPT !.pc = p] IN
               /\ q \in Routes /\ q.pc = p /\ q.text = r.text /\ q.cancel = r.cancel
               /\ q.msg = r.msg /\ q.over = r.over /\ q.finalized = r.finalized
    BY <1>1 DEF Routes, Pcs
  <1>3. CASE \E p \in {"asking", "reading"} : Goto(t, p) /\ UNCHANGED call
    <2>1. PICK p \in {"asking", "reading"} : Goto(t, p) /\ UNCHANGED call
      BY <1>3
    <2> DEFINE q == [r EXCEPT !.pc = p]
    <2>2. route' = [route EXCEPT ![t] = q]
      BY <2>1 DEF Goto
    <2>3. /\ q \in Routes /\ q.pc = p /\ q.text = r.text /\ q.cancel = r.cancel
          /\ q.msg = r.msg /\ q.over = r.over /\ q.finalized = r.finalized
      BY <1>2
    <2> HIDE DEF q
    <2>4. QED
      BY <1>1, <2>1, <2>2, <2>3, EarlyKept
  <1>4. CASE /\ route' = [route EXCEPT ![t].pc = "reading", ![t].local = TRUE]
             /\ UNCHANGED call
    <2> DEFINE q0 == [r EXCEPT !.pc = "reading"]
               q == [q0 EXCEPT !.local = TRUE]
    <2>1. route' = [route EXCEPT ![t] = q] /\ call' = call
      BY <1>4
    <2>2. /\ q0 \in Routes /\ q0.pc = "reading" /\ q0.text = r.text /\ q0.cancel = r.cancel
          /\ q0.msg = r.msg /\ q0.over = r.over /\ q0.finalized = r.finalized
      BY <1>2
    <2> HIDE DEF q0
    <2>3. /\ q \in Routes /\ q.pc = "reading" /\ q.text = r.text /\ q.cancel = r.cancel
          /\ q.msg = r.msg /\ q.over = r.over /\ q.finalized = r.finalized
      BY <2>2 DEF Routes
    <2> HIDE DEF q
    <2>4. QED
      BY <1>1, <2>1, <2>3, EarlyKept
  <1>5. CASE Goto(t, "failing") /\ call' = [call EXCEPT ![t].loop = Call("failed", 0)]
    <2> DEFINE q == [r EXCEPT !.pc = "failing"]
    <2>1. route' = [route EXCEPT ![t] = q]
      BY <1>5 DEF Goto
    <2>2. /\ q \in Routes /\ q.pc = "failing" /\ q.text = r.text /\ q.cancel = r.cancel
          /\ q.msg = r.msg /\ q.over = r.over /\ q.finalized = r.finalized
      BY <1>2
    <2> HIDE DEF q
    <2>3. QED
      BY <1>1, <1>5, <2>1, <2>2, EarlyKept
  <1>6. QED
    BY <1>3, <1>4, <1>5 DEF TurnStarts, AskModel, Interpreted

LEMMA ResolveKept == ASSUME IInv, KeptInv, NEW t \in Turns, ResolveModel(t) PROVE KeptInv'
  <1>1. route[t].pc = "model" /\ route[t].pc \in Early \ {"none", "failing"}
    BY DEF ResolveModel, At, Early
  <1>2. CASE RespondError(t) /\ UNCHANGED status
    <2>1. Return(t, "broken") /\ UNCHANGED <<browser, gone, core>>
      BY <1>2 DEF ResolveModel, RespondError, core
    <2>2. QED
      BY <1>1, <2>1, NothingEarly, ReturnKept
  <1>3. CASE /\ Goto(t, "starting") /\ status' = [status EXCEPT ![t] = "asked"]
             /\ UNCHANGED <<link, call>>
    <2> DEFINE q == [route[t] EXCEPT !.pc = "starting"]
    <2>1. /\ route' = [route EXCEPT ![t] = q] /\ status' = [status EXCEPT ![t] = "asked"]
          /\ link' = link /\ call' = call /\ gone' = gone /\ log' = log /\ UNCHANGED browser
      BY <1>3 DEF Goto, ResolveModel
    <2>2. /\ q \in Routes /\ q.pc = "starting" /\ q.text = route[t].text
          /\ q.cancel = route[t].cancel /\ q.msg = route[t].msg /\ q.over = route[t].over
          /\ q.finalized = route[t].finalized
      BY TurnFacts DEF Routes, Pcs
    <2>3. /\ route[t] \in Routes /\ link[t] \in Links /\ heard[t] \in Readings
          /\ call[t] \in CallPairs /\ status[t] \in TurnStates /\ t <= opened
          /\ route \in [Turns -> Routes] /\ status \in [Turns -> TurnStates]
      BY <1>1, TurnFacts
    <2>4. TurnOK(route[t], link[t], heard[t], call[t], status[t], Stored(t), TRUE)
      BY <2>3, TurnFacts
    <2>5. Settles(route[t], link[t], heard[t], call[t], status[t], Stored(t), gone[t])
      BY KeptFacts
    <2>6. "asked" \in TurnStates /\ "asked" \notin Final
      BY DEF TurnStates, Final
    <2> HIDE DEF q
    <2>7. /\ Settles(q, link[t], heard[t], call[t], "asked", Stored(t), gone[t])
          /\ \A X : Shows(route[t], link[t], heard[t], gone[t], X) =>
                    Shows(q, link[t], heard[t], gone[t], X)
      BY <1>1, <2>2, <2>3, <2>4, <2>5, <2>6, EarlySettles
    <2>8. /\ route'[t] = q /\ status'[t] = "asked" /\ heard' = heard
          /\ \A u \in Turns \ {t} : route'[u] = route[u] /\ status'[u] = status[u]
      BY <2>1, <2>3 DEF browser
    <2>9. \A u \in Turns : Stored(u)' = Stored(u)
      BY <2>1 DEF Stored, Answers
    <2>10. StoresInv(t)'
      BY <2>1, <2>7, <2>8, <2>9 DEF StoresInv
    <2>11. QED
      BY <2>1, <2>7, <2>8, <2>9, <2>10, KeptStep
  <1>4. QED
    BY <1>2, <1>3 DEF ResolveModel
LEMMA ForwardLineKept ==
  ASSUME IInv, KeptInv, NEW t \in Turns, ForwardLine(t)
  PROVE  KeptInv'
  <1> DEFINE r == route[t]
  <1>1. /\ r.pc = "reading" /\ ~r.over /\ t <= opened /\ r \in Routes /\ r.text \in Nat
        /\ UNCHANGED <<browser, gone, core>>
    BY TurnFacts DEF ForwardLine, At, Routes, core
  <1>2. r.finalized => \/ status[t] \in Final
                       \/ call[t]["cancel"] # None /\ call[t]["cancel"].phase = "sent"
    BY <1>1, FinalizedMeans
  <1>3. CASE ~r.msg /\ Forward(t, [r EXCEPT !.msg = TRUE], "started")
    <2> DEFINE q == [r EXCEPT !.msg = TRUE]
    <2>1. /\ q \in Routes /\ q.pc = "reading" /\ q.text = r.text /\ q.msg
          /\ q.cancel = r.cancel /\ q.over = r.over /\ q.finalized = r.finalized
      BY <1>1 DEF Routes
    <2>2. Forward(t, q, "started")
      BY <1>3
    <2> HIDE DEF q
    <2>3. q.finalized => \/ status[t] \in Final
                         \/ call[t]["cancel"] # None /\ call[t]["cancel"].phase = "sent"
      BY <1>2, <2>1
    <2>4. "started" \in Events /\ q.text = r.text + 0
      BY <1>1, <2>1 DEF Events
    <2>5. QED
      BY <1>1, <2>1, <2>2, <2>3, <2>4, ForwardKept
  <1>4. CASE /\ r.msg /\ r.text < (IF r.local THEN 1 ELSE MaxText)
             /\ Forward(t, [r EXCEPT !.text = @ + 1], "delta")
    <2> DEFINE n == r.text + 1
               q == [r EXCEPT !.text = n]
    <2>1. n \in 0 .. MaxText /\ r.msg
      BY <1>1, <1>4
    <2>2. Forward(t, q, "delta")
      BY <1>4
    <2> HIDE DEF n
    <2>3. /\ q \in Routes /\ q.pc = "reading" /\ q.text = n /\ q.msg
          /\ q.cancel = r.cancel /\ q.over = r.over /\ q.finalized = r.finalized
      BY <1>1, <2>1 DEF Routes
    <2> HIDE DEF q
    <2>4. q.finalized => \/ status[t] \in Final
                         \/ call[t]["cancel"] # None /\ call[t]["cancel"].phase = "sent"
      BY <1>2, <2>3
    <2>5. "delta" \in Events /\ q.text = r.text + 1
      BY <2>3 DEF Events, n
    <2>6. QED
      BY <1>1, <2>1, <2>2, <2>3, <2>4, <2>5, ForwardKept
  <1>5. CASE /\ r.msg /\ r.text > 0
             /\ route' = [route EXCEPT ![t].over = TRUE, ![t].pc = "saving"]
             /\ call' = [call EXCEPT ![t].loop = Call("completed", r.text)]
             /\ UNCHANGED link
    <2> DEFINE q0 == [r EXCEPT !.over = TRUE]
               q == [q0 EXCEPT !.pc = "saving"]
               c2 == WithCall(call[t], "loop", Call("completed", r.text))
    <2>1. /\ route' = [route EXCEPT ![t] = q] /\ call' = [call EXCEPT ![t] = c2]
          /\ link' = [link EXCEPT ![t] = link[t]]
      BY <1>5, TurnFacts DEF WithCall
    <2>2. /\ q0 \in Routes /\ q0.text = r.text /\ q0.cancel = r.cancel
          /\ q0.finalized = r.finalized
      BY <1>1 DEF Routes
    <2> HIDE DEF q0
    <2>3. /\ q \in Routes /\ q.pc = "saving" /\ q.text = r.text /\ q.cancel = r.cancel
          /\ q.finalized = r.finalized
      BY <2>2 DEF Routes, Pcs
    <2> HIDE DEF q
    <2>4. /\ link[t] \in Links /\ heard[t] \in Readings
          /\ call[t] \in CallPairs /\ status[t] \in TurnStates /\ r.text > 0
      BY <1>5, TurnFacts
    <2>5. TurnOK(r, link[t], heard[t], call[t], status[t], Stored(t), TRUE)
      BY <1>1, TurnFacts
    <2>6. Settles(r, link[t], heard[t], call[t], status[t], Stored(t), gone[t])
      BY KeptFacts
    <2>7. /\ Settles(q, link[t], heard[t], c2, status[t], Stored(t), gone[t])
          /\ \A X : Shows(r, link[t], heard[t], gone[t], X) =>
                    Shows(q, link[t], heard[t], gone[t], X)
      BY <1>1, <2>3, <2>4, <2>5, <2>6, SavingSettles
    <2> HIDE DEF c2
    <2>8. QED
      BY <1>1, <2>1, <2>7, LoopKept
  <1>6. CASE Forward(t, [r EXCEPT !.over = TRUE], "error")
    <2> DEFINE q == [r EXCEPT !.over = TRUE]
    <2>1. /\ q \in Routes /\ q.pc = "reading" /\ q.text = r.text /\ q.over /\ q.msg = r.msg
          /\ q.cancel = r.cancel /\ q.finalized = r.finalized
      BY <1>1 DEF Routes
    <2>2. Forward(t, q, "error")
      BY <1>6
    <2> HIDE DEF q
    <2>3. q.finalized => \/ status[t] \in Final
                         \/ call[t]["cancel"] # None /\ call[t]["cancel"].phase = "sent"
      BY <1>2, <2>1
    <2>4. "error" \in Events /\ q.text = r.text + 0
      BY <1>1, <2>1 DEF Events
    <2>5. q.msg \/ ~r.msg
      BY <2>1
    <2>6. QED
      BY <1>1, <2>1, <2>2, <2>3, <2>4, <2>5, ForwardKept
  <1>7. QED
    BY <1>3, <1>4, <1>5, <1>6 DEF ForwardLine

LEMMA AnswerSavedKept ==
  ASSUME IInv, KeptInv, NEW t \in Turns, AnswerSaved(t)
  PROVE  KeptInv'
  <1> DEFINE r == route[t]
             saved == call[t].loop.phase = "ok"
             e == IF saved THEN "completed" ELSE "error"
             q0 == [r EXCEPT !.pc = "reading"]
             q == [q0 EXCEPT !.finalized = saved]
  <1>1. /\ r.pc = "saving" /\ t <= opened /\ r \in Routes /\ r.text \in Nat
        /\ call[t]["loop"].phase # "sent" /\ UNCHANGED <<browser, gone, core>>
    BY TurnFacts DEF AnswerSaved, At, Routes, core
  <1>2. Forward(t, q, e)
    BY DEF AnswerSaved
  <1>3. /\ q0 \in Routes /\ q0.pc = "reading" /\ q0.text = r.text /\ q0.over = r.over
        /\ q0.msg = r.msg /\ q0.cancel = r.cancel
    BY <1>1 DEF Routes, Pcs
  <1>4. saved \in BOOLEAN /\ e \in {"completed", "error"} /\ e \in Events
    BY DEF Events
  <1> HIDE DEF q0, saved, e
  <1>5. /\ q \in Routes /\ q.pc = "reading" /\ q.text = r.text /\ q.over = r.over
        /\ q.msg = r.msg /\ q.cancel = r.cancel
    BY <1>3, <1>4 DEF Routes
  <1> HIDE DEF q
  <1>6. TurnOK(r, link[t], heard[t], call[t], status[t], Stored(t), TRUE)
    BY <1>1, TurnFacts
  <1>7. r.over /\ r.msg /\ call[t]["loop"] # None
    BY <1>1, <1>6 DEF TurnOK
  <1>8. status[t] \in Final
    <2>1. Settles(r, link[t], heard[t], call[t], status[t], Stored(t), gone[t])
      BY KeptFacts
    <2>2. QED
      BY <1>1, <1>7, <2>1 DEF Settles, CallsOK, Threads
  <1>9. q.text = r.text + (IF e = "delta" THEN 1 ELSE 0) /\ q.over /\ q.msg /\ e # "delta"
    BY <1>1, <1>4, <1>5, <1>7
  <1>10. QED
    BY <1>1, <1>2, <1>4, <1>5, <1>8, <1>9, ForwardKept

LEMMA SourceKept ==
  ASSUME IInv, KeptInv, NEW t \in Turns, ~Lose, SourceEnds(t) \/ SourceBreaks(t)
  PROVE  KeptInv'
  <1> DEFINE r == route[t]
  <1>1. r.pc = "reading" /\ r \in Routes /\ r.text \in Nat /\ UNCHANGED <<browser, gone, core>>
    BY TurnFacts DEF SourceEnds, SourceBreaks, At, Routes, core
  <1>2. Settles(r, link[t], heard[t], call[t], status[t], Stored(t), gone[t])
    BY KeptFacts
  <1>3. gone[t] = "no" => Told(r)
    <2>1. gone[t] = "no" => ~Cancelled(t)
      BY <1>2 DEF Settles, LinkOK, Cancelled
    <2>2. gone[t] = "no" => SourceEnds(t)
      BY DEF SourceBreaks, RequestFails, Noticed
    <2>3. QED
      BY <1>1, <2>1, <2>2 DEF SourceEnds, Told
  <1>4. PICK exit \in {"closed", "broken"} : Settle(t, r, exit)
    BY DEF SourceEnds, SourceBreaks
  <1>5. r.text >= r.text
    BY <1>1
  <1>6. r.finalized => \/ status[t] \in Final
                       \/ call[t]["cancel"] # None /\ call[t]["cancel"].phase = "sent"
    BY <1>1, FinalizedMeans
  <1>7. QED
    BY <1>1, <1>3, <1>4, <1>5, <1>6, SettleKept

LEMMA CancelKept == ASSUME IInv, KeptInv, NEW t \in Turns, Cancel(t) PROVE KeptInv'
  <1> DEFINE r == route[t]
             i == Interrupted(r)
             c2 == WithCall(call[t], "cancel", i)
  <1>1. /\ r.pc \in {"reading", "saving", "settling"} /\ r \in Routes /\ r.cancel = "idle"
        /\ gone[t] = "noticed" /\ UNCHANGED <<browser, gone, core>>
        /\ link' = [link EXCEPT ![t] = link[t]] /\ link[t] \in Links /\ heard[t] \in Readings
        /\ call[t] \in CallPairs /\ status[t] \in TurnStates /\ t <= opened
    BY TurnFacts DEF Cancel, Noticed, Cancelled, core
  <1>2. TurnOK(r, link[t], heard[t], call[t], status[t], Stored(t), TRUE)
    BY <1>1, TurnFacts
  <1>3. Settles(r, link[t], heard[t], call[t], status[t], Stored(t), gone[t])
    BY KeptFacts
  <1>4. CASE r.finalized /\ route' = [route EXCEPT ![t].cancel = "done"] /\ UNCHANGED call
    <2> DEFINE q == [r EXCEPT !.cancel = "done"]
    <2>1. route' = [route EXCEPT ![t] = q] /\ call' = [call EXCEPT ![t] = call[t]]
      BY <1>4, TurnFacts
    <2>2. /\ q \in Routes /\ q.pc = r.pc /\ q.text = r.text /\ q.msg = r.msg
          /\ q.over = r.over /\ q.finalized /\ q.cancel = "done"
      BY <1>1, <1>4 DEF Routes
    <2> HIDE DEF q
    <2>3. Settles(q, link[t], heard[t], call[t], status[t], Stored(t), gone[t])
      BY <1>1, <1>2, <1>3, <1>4, <2>2, CancelSettles
    <2>4. \A X : Shows(r, link[t], heard[t], gone[t], X) =>
                 Shows(q, link[t], heard[t], gone[t], X)
      BY <1>1, GoneShows
    <2>5. QED
      BY <1>1, <2>1, <2>3, <2>4, LoopKept
  <1>5. CASE /\ ~r.finalized
             /\ route' = [route EXCEPT ![t].cancel = "settling", ![t].finalized = TRUE]
             /\ call' = [call EXCEPT ![t].cancel = Interrupted(route[t])]
    <2> DEFINE q0 == [r EXCEPT !.cancel = "settling"]
               q == [q0 EXCEPT !.finalized = TRUE]
    <2>1. route' = [route EXCEPT ![t] = q] /\ call' = [call EXCEPT ![t] = c2]
      BY <1>5 DEF WithCall
    <2>2. /\ q0 \in Routes /\ q0.pc = r.pc /\ q0.text = r.text /\ q0.msg = r.msg
          /\ q0.over = r.over /\ q0.cancel = "settling"
      BY <1>1 DEF Routes
    <2> HIDE DEF q0
    <2>3. /\ q \in Routes /\ q.pc = r.pc /\ q.text = r.text /\ q.msg = r.msg
          /\ q.over = r.over /\ q.finalized /\ q.cancel = "settling"
      BY <2>2 DEF Routes
    <2>4. c2 \in CallPairs
      BY <1>1, InterruptedType DEF WithCall, CallPairs, Threads
    <2> HIDE DEF q
    <2>5. Settles(q, link[t], heard[t], c2, status[t], Stored(t), gone[t])
      BY <1>1, <1>2, <1>3, <1>5, <2>3, <2>4, CancelSettles
    <2>6. \A X : Shows(r, link[t], heard[t], gone[t], X) =>
                 Shows(q, link[t], heard[t], gone[t], X)
      BY <1>1, GoneShows
    <2> HIDE DEF c2
    <2>7. QED
      BY <1>1, <2>1, <2>5, <2>6, LoopKept
  <1>6. QED
    BY <1>4, <1>5 DEF Cancel

LEMMA CancelSettledKept ==
  ASSUME IInv, KeptInv, NEW t \in Turns, CancelSettled(t)
  PROVE  KeptInv'
  <1> DEFINE r == route[t]
             to == IF At(t, "done") THEN "idle" ELSE "done"
             q == [r EXCEPT !.cancel = to]
             c2 == WithCall(call[t], "cancel", None)
  <1>1. /\ r \in Routes /\ r.cancel = "settling" /\ call[t]["cancel"].phase # "sent"
        /\ UNCHANGED <<browser, gone, core>> /\ link[t] \in Links /\ heard[t] \in Readings
        /\ call[t] \in CallPairs /\ status[t] \in TurnStates
        /\ link' = [link EXCEPT ![t] = link[t]]
    BY TurnFacts DEF CancelSettled, core
  <1>2. route' = [route EXCEPT ![t] = q] /\ call' = [call EXCEPT ![t] = c2]
    BY DEF CancelSettled, WithCall
  <1>3. to \in {"idle", "done"} /\ to = (IF r.pc = "done" THEN "idle" ELSE "done")
    BY DEF At
  <1> HIDE DEF to
  <1>4. /\ q \in Routes /\ q.pc = r.pc /\ q.text = r.text /\ q.msg = r.msg
        /\ q.over = r.over /\ q.finalized = r.finalized /\ q.cancel = to
    BY <1>1, <1>3 DEF Routes
  <1> HIDE DEF q
  <1>5. Settles(r, link[t], heard[t], call[t], status[t], Stored(t), gone[t])
    BY KeptFacts
  <1>6. Settles(q, link[t], heard[t], c2, status[t], Stored(t), gone[t])
    BY <1>1, <1>3, <1>4, <1>5, CancelOver
  <1>7. gone[t] # "no"
    BY <1>1, <1>5 DEF Settles, LinkOK
  <1>8. \A X : Shows(r, link[t], heard[t], gone[t], X) =>
               Shows(q, link[t], heard[t], gone[t], X)
    BY <1>7, GoneShows
  <1> HIDE DEF c2
  <1>9. QED
    BY <1>1, <1>2, <1>6, <1>8, LoopKept
LEMMA NoticeKept == ASSUME IInv, KeptInv, NEW t \in Turns, NoticeAbort(t) PROVE KeptInv'
  <1>1. /\ UNCHANGED browser /\ route' = route /\ link' = link /\ call' = call
        /\ status' = status /\ log' = log /\ heard' = heard /\ gone[t] = "aborted"
        /\ gone' = [gone EXCEPT ![t] = "noticed"]
    BY DEF NoticeAbort, core, browser
  <1>2. gone'[t] = "noticed" /\ \A u \in Turns \ {t} : gone'[u] = gone[u]
    BY <1>1, KeptFacts
  <1>3. \A u \in Turns : Stored(u)' = Stored(u)
    BY <1>1 DEF Stored, Answers
  <1>4. Settles(route[t], link[t], heard[t], call[t], status[t], Stored(t), "noticed")
    BY <1>1, KeptFacts, NoticeSettles
  <1>5. StoresInv(t)'
    BY <1>1, <1>2, <1>3, <1>4 DEF StoresInv
  <1>6. Shows(route[t], link[t], heard[t], gone[t], Answers(shown, t)) =>
          Shows(route'[t], link'[t], heard[t], gone'[t], Answers(shown, t))
    BY <1>1, <1>2, GoneShows
  <1>7. QED
    BY <1>1, <1>2, <1>3, <1>5, <1>6, KeptStep

-------------------------------------------------------------------------------
(* The actions of Core. *)

LEMMA RangeAppend ==
  ASSUME log \in Seq(Messages), NEW m \in Messages, log' = Append(log, m)
  PROVE  Range(log') = Range(log) \cup {m}
  <1>1. /\ DOMAIN log' = DOMAIN log \cup {Len(log) + 1} /\ log'[Len(log) + 1] = m
        /\ \A i \in DOMAIN log : log'[i] = log[i]
    OBVIOUS
  <1>2. QED
    BY <1>1 DEF Range

LEMMA LogKept ==
  ASSUME IInv, NEW t \in Turns,
         log' = log \/ \E m \in Messages : log' = Append(log, m) /\ m.turn = t
  PROVE  /\ Range(log) \subseteq Range(log')
         /\ \A u \in Turns \ {t} : Stored(u)' = Stored(u)
  <1>1. log \in Seq(Messages)
    BY TypeMeans DEF IInv
  <1>2. CASE log' = log
    BY <1>2 DEF Stored, Answers
  <1>3. ASSUME NEW m \in Messages, log' = Append(log, m), m.turn = t
        PROVE  /\ Range(log) \subseteq Range(log')
               /\ \A u \in Turns \ {t} : Stored(u)' = Stored(u)
    BY <1>1, <1>3, RangeAppend, LogAppend
  <1>4. QED
    BY <1>2, <1>3

\* A step that leaves the browser and the handler's own state alone.
LEMMA CoreKept ==
  ASSUME IInv, KeptInv, NEW t \in Turns, NEW c, NEW s,
         UNCHANGED <<browser, link, gone, route>>,
         call' = [call EXCEPT ![t] = c], status' = [status EXCEPT ![t] = s],
         log' = log \/ \E m \in Messages : log' = Append(log, m) /\ m.turn = t,
         Settles(route[t], link[t], heard[t], c, s, Stored(t)', gone[t])
  PROVE  KeptInv'
  <1>1. call \in [Turns -> CallPairs] /\ status \in [Turns -> TurnStates]
    BY TurnFacts
  <1>2. /\ call'[t] = c /\ status'[t] = s
        /\ \A u \in Turns \ {t} : call'[u] = call[u] /\ status'[u] = status[u]
    BY <1>1
  <1>3. /\ UNCHANGED browser /\ route' = route /\ link' = link /\ gone' = gone /\ heard' = heard
    BY DEF browser
  <1>4. StoresInv(t)'
    BY <1>2, <1>3 DEF StoresInv
  <1>5. /\ Range(log) \subseteq Range(log')
        /\ \A u \in Turns \ {t} : Stored(u)' = Stored(u)
    BY LogKept
  <1>6. QED
    BY <1>2, <1>3, <1>4, <1>5, KeptStep

LEMMA CoreStartsKept == ASSUME IInv, KeptInv, NEW t \in Turns, CoreStarts(t) PROVE KeptInv'
  <1>1. /\ status[t] = "asked" /\ UNCHANGED <<browser, link, gone, route>>
        /\ call' = [call EXCEPT ![t] = call[t]]
    BY TurnFacts DEF CoreStarts
  <1>2. /\ route[t] \in Routes /\ link[t] \in Links /\ heard[t] \in Readings
        /\ call[t] \in CallPairs
        /\ TurnOK(route[t], link[t], heard[t], call[t], "asked", Stored(t), t <= opened)
        /\ Settles(route[t], link[t], heard[t], call[t], "asked", Stored(t), gone[t])
    BY <1>1, TurnFacts, KeptFacts
  <1> DEFINE a2 == Stored(t)'
  <1>3. ASSUME NEW s2 \in {"started", "refused"}
        PROVE  Settles(route[t], link[t], heard[t], call[t], s2, a2, gone[t])
    <2> HIDE DEF a2
    <2>1. QED
      BY <1>2, StartSettles
  <1>4. CASE status' = [status EXCEPT ![t] = "started"] /\ log' = Append(log, Message("user", t, 0))
    <2> DEFINE m == Message("user", t, 0)
    <2>1. m \in Messages /\ m.turn = t /\ log' = Append(log, m)
      BY <1>4, MessageType
    <2> HIDE DEF m
    <2>2. Settles(route[t], link[t], heard[t], call[t], "started", Stored(t)', gone[t])
      BY <1>3
    <2>3. QED
      BY <1>1, <1>4, <2>1, <2>2, CoreKept
  <1>5. CASE status' = [status EXCEPT ![t] = "refused"] /\ UNCHANGED log
    <2>1. Settles(route[t], link[t], heard[t], call[t], "refused", Stored(t)', gone[t])
      BY <1>3
    <2>2. QED
      BY <1>1, <1>5, <2>1, CoreKept
  <1>6. QED
    BY <1>4, <1>5 DEF CoreStarts

LEMMA CoreFinishesKept ==
  ASSUME IInv, KeptInv, NEW t \in Turns, NEW h \in Threads, ~Lose, CoreFinishes(t, h)
  PROVE  KeptInv'
  <1> DEFINE c == call[t][h]
             a2 == Stored(t)'
  <1>1. /\ route[t] \in Routes /\ link[t] \in Links /\ heard[t] \in Readings
        /\ call[t] \in CallPairs /\ log \in Seq(Messages)
        /\ TurnOK(route[t], link[t], heard[t], call[t], status[t], Stored(t), t <= opened)
        /\ Settles(route[t], link[t], heard[t], call[t], status[t], Stored(t), gone[t])
    BY TurnFacts, KeptFacts, TypeMeans DEF IInv
  <1>2. /\ c # None /\ c.phase = "sent" /\ UNCHANGED <<browser, link, gone, route>>
        /\ Finishes(t, c)
    BY DEF CoreFinishes
  <1>3. PICK p \in {"ok", "refused"} : call' = [call EXCEPT ![t][h].phase = p]
    BY DEF CoreFinishes
  <1>4. call' = [call EXCEPT ![t] = Answered(call[t], h, p)]
    BY <1>3 DEF Answered
  <1>5. status[t] \in Started
    BY <1>1, <1>2 DEF TurnOK
  <1>6. c.text \in 0 .. MaxText
    BY <1>1, <1>2 DEF CallPairs, Requests
  <1> DEFINE m == Message("assistant", t, c.text)
  <1>7. m \in Messages /\ m.turn = t /\ m.role = "assistant" /\ m.text = c.text
    BY <1>6, MessageType
  <1> HIDE DEF m
  <1>8. CASE status[t] = "started"
    <2>1. /\ status' = [status EXCEPT ![t] = c.status]
          /\ log' = IF c.status = "failed" THEN log ELSE Append(log, m)
      BY <1>2, <1>8 DEF Finishes, m
    <2>2. c.status \in Ended => a2 = {c.text}
      <3>1. Stored(t) = {}
        BY <1>8, NoAnswerYet DEF Ended
      <3>2. c.status \in Ended => log' = Append(log, m)
        BY <2>1 DEF Ended
      <3>3. QED
        BY <1>1, <1>7, <3>1, <3>2, LogAppend
    <2>3. Settles(route[t], link[t], heard[t], Answered(call[t], h, p), c.status, a2, gone[t])
      <3>1. call[t][h] # None /\ call[t][h].phase = "sent"
            /\ (c.status \in Ended => a2 = {call[t][h].text}) /\ c.status = call[t][h].status
        BY <1>2, <2>2
      <3> HIDE DEF a2, c
      <3>2. QED
        BY <1>1, <1>5, <1>8, <3>1, AnswerSettles
    <2>4. log' = log \/ \E k \in Messages : log' = Append(log, k) /\ k.turn = t
      BY <1>7, <2>1
    <2>5. QED
      BY <1>2, <1>4, <2>1, <2>3, <2>4, CoreKept
  <1>9. CASE status[t] # "started"
    <2>1. status' = status /\ log' = log
      BY <1>2, <1>9 DEF Finishes
    <2>2. status' = [status EXCEPT ![t] = status[t]] /\ Stored(t)' = Stored(t)
      BY <2>1, TurnFacts DEF Stored, Answers
    <2>3. Settles(route[t], link[t], heard[t], Answered(call[t], h, p), status[t],
                  Stored(t), gone[t])
      <3>1. call[t][h] # None /\ call[t][h].phase = "sent"
        BY <1>2
      <3>2. QED
        BY <1>1, <1>5, <1>9, <3>1, AnswerSettles
    <2>4. Settles(route[t], link[t], heard[t], Answered(call[t], h, p), status[t],
                  Stored(t)', gone[t])
      BY <2>2, <2>3
    <2>5. QED
      BY <1>2, <1>4, <2>1, <2>2, <2>4, CoreKept
  <1>10. QED
    BY <1>8, <1>9

-------------------------------------------------------------------------------
(* The actions of the browser. *)

LEMMA AnswersAre ==
  ASSUME NEW S \in SUBSET Messages, NEW u \in Turns
  PROVE  /\ \A m \in S : m.role = "assistant" /\ m.turn = u => m.text \in Answers(S, u)
         /\ \A n \in Answers(S, u) :
               \E m \in S : m.role = "assistant" /\ m.turn = u /\ m.text = n
         /\ Answers(S, u) \subseteq 0 .. MaxText
  <1>1. ASSUME NEW m \in S, m.role = "assistant", m.turn = u PROVE m.text \in Answers(S, u)
    <2>1. m = Message("assistant", u, m.text) /\ m.text \in 0 .. MaxText
      BY <1>1, MessageIs DEF Messages
    <2>2. QED
      BY <2>1 DEF Answers
  <1>2. ASSUME NEW n \in Answers(S, u)
        PROVE  \E m \in S : m.role = "assistant" /\ m.turn = u /\ m.text = n
    <2>1. n \in 0 .. MaxText /\ Message("assistant", u, n) \in S
      BY DEF Answers
    <2>2. QED
      BY <2>1, MessageType
  <1>3. QED
    BY <1>1, <1>2 DEF Answers

LEMMA AnswersAdded ==
  ASSUME NEW S \in SUBSET Messages, NEW m \in Messages, NEW u \in Turns
  PROVE  Answers(S \union {m}, u) =
           Answers(S, u) \union (IF m.role = "assistant" /\ m.turn = u THEN {m.text} ELSE {})
  <1>1. ASSUME NEW n \in 0 .. MaxText
        PROVE  Message("assistant", u, n) = m <=>
                  m.role = "assistant" /\ m.turn = u /\ m.text = n
    BY MessageType, MessageIs
  <1>2. m.text \in 0 .. MaxText
    BY DEF Messages
  <1>3. QED
    BY <1>1, <1>2 DEF Answers

\* Three dots are removed wherever they are.
LEMMA EmptiesRemoved ==
  ASSUME NEW S \in SUBSET Messages, NEW u \in Turns
  PROVE  Answers(WithoutEmptyAnswers(S), u) = Answers(S, u) \ {0}
  <1>1. ASSUME NEW n \in 0 .. MaxText
        PROVE  Spinner(Message("assistant", u, n)) <=> n = 0
    BY MessageType DEF Spinner
  <1>2. QED
    BY <1>1 DEF Answers, WithoutEmptyAnswers

\* A step of the browser that is about the stream of one turn.
LEMMA BrowserKept ==
  ASSUME IInv, KeptInv, NEW t \in Turns, UNCHANGED <<opened, route, call, core>>,
         view'.instance = view.instance, page'.log = page.log,
         \A u \in Turns : heard'[u].in = heard[u].in,
         \A u \in Turns \ {t} :
            heard'[u] = heard[u] /\ link'[u] = link[u] /\ gone'[u] = gone[u],
         \A u \in Turns \ {t} : u <= opened /\ Mounted(u) =>
            /\ link[u].end # "read" => view'.turn = u
            /\ \/ Answers(shown', u) = Answers(shown, u)
               \/ link[u].end = "read" /\ Answers(shown', u) = Answers(shown, u) \ {0},
         \A m \in shown' : m.role = "assistant" => m \in shown \/ Mounted(m.turn),
         \A m \in shown \union shown' : m.turn \in Turns,
         Settles(route[t], link'[t], heard'[t], call[t], status[t], Stored(t), gone'[t]),
         t <= opened /\ Mounted(t) =>
            /\ Shows(route[t], link'[t], heard'[t], gone'[t], Answers(shown', t))
            /\ link'[t].end # "read" => view'.turn = t
  PROVE  KeptInv'
  <1>1. /\ opened' = opened /\ route' = route /\ call' = call /\ status' = status /\ log' = log
    BY DEF core
  <1>2. \A u \in Turns : Mounted(u)' <=> Mounted(u)
    BY DEF Mounted
  <1>3. ShownInv'
    <2>1. ShownInv
      BY DEF KeptInv
    <2>2. ASSUME NEW m \in shown', m.role = "assistant"
          PROVE  Mounted(m.turn)' \/ m \in Range(log')
      BY <1>1, <1>2, <2>1, <2>2 DEF ShownInv
    <2>3. QED
      BY <1>1, <2>1, <2>2 DEF ShownInv
  <1>4. ASSUME NEW u \in Turns PROVE StoresInv(u)' /\ ShowsInv(u)'
    <2>1. StoresInv(u) /\ ShowsInv(u) /\ Stored(u)' = Stored(u)
      BY <1>1 DEF KeptInv, Stored, Answers
    <2>2. Answers(shown, u)' = Answers(shown', u)
      BY DEF Answers
    <2>3. CASE u = t
      <3>1. StoresInv(t)'
        BY <1>1, <2>1, <2>3 DEF StoresInv
      <3>2. ShowsInv(t)'
        BY <1>1, <1>2, <2>2, <2>3 DEF ShowsInv
      <3>3. QED
        BY <2>3, <3>1, <3>2
    <2>4. CASE u # t
      <3>1. StoresInv(u)'
        BY <1>1, <2>1, <2>4 DEF StoresInv
      <3>2. ASSUME u <= opened, Mounted(u)
            PROVE  Shows(route[u], link[u], heard[u], gone[u], Answers(shown', u))
        <4>1. Shows(route[u], link[u], heard[u], gone[u], Answers(shown, u))
          BY <2>1, <3>2 DEF ShowsInv
        <4>2. link[u].end = "read" => 0 \notin Answers(shown, u)
          BY <4>1 DEF Shows
        <4>3. Answers(shown', u) = Answers(shown, u)
          BY <2>4, <3>2, <4>2
        <4>4. QED
          BY <4>1, <4>3
      <3>3. ShowsInv(u)'
        BY <1>1, <1>2, <2>2, <2>4, <3>2 DEF ShowsInv
      <3>4. QED
        BY <3>1, <3>3
    <2>5. QED
      BY <2>3, <2>4
  <1>5. QED
    BY <1>3, <1>4 DEF KeptInv

LEMMA ShownMessages ==
  ASSUME IInv
  PROVE  /\ shown \in SUBSET Messages /\ \A m \in shown : m.turn \in Turns
         /\ \A u \in Turns : u \in Nat
  BY DEF IInv, TypeOK, Messages, Turns

\* While a turn streams, no other does.
LEMMA OneStream ==
  ASSUME IInv, KeptInv, NEW t \in Turns, view.turn = t
  PROVE  \A u \in Turns \ {t} : u <= opened /\ Mounted(u) => link[u].end = "read"
  BY DEF KeptInv, ShowsInv

LEMMA StopKept == ASSUME IInv, KeptInv, Stop PROVE KeptInv'
  <1> DEFINE t == view.turn
  <1>1. TypeOK
    BY DEF IInv
  <1>2. t \in Turns /\ gone[t] = "no"
    BY <1>1 DEF Stop, Streaming, TypeOK
  <1>3. /\ UNCHANGED <<opened, route, call, core>> /\ heard' = heard /\ link' = link
        /\ page' = page /\ shown' = WithoutEmptyAnswers(shown)
        /\ gone' = [gone EXCEPT ![t] = "aborted"]
    BY DEF Stop
  <1>4. view'.instance = view.instance /\ view'.turn = t
    BY <1>1 DEF Stop, TypeOK
  <1> HIDE DEF t
  <1>5. gone'[t] = "aborted" /\ \A u \in Turns \ {t} : gone'[u] = gone[u]
    BY <1>1, <1>2, <1>3 DEF TypeOK
  <1>6. \A u \in Turns : Answers(shown', u) = Answers(shown, u) \ {0}
    BY <1>3, ShownMessages, EmptiesRemoved
  <1>7. \A u \in Turns \ {t} : u <= opened /\ Mounted(u) => link[u].end = "read"
    BY <1>2, OneStream DEF t
  <1>8. shown' \subseteq shown
    BY <1>3 DEF WithoutEmptyAnswers
  <1>9. Settles(route[t], link[t], heard[t], call[t], status[t], Stored(t), "aborted")
    <2>1. Settles(route[t], link[t], heard[t], call[t], status[t], Stored(t), gone[t])
      BY <1>2, KeptFacts
    <2>2. QED
      BY <1>2, <2>1, NoticeSettles
  <1>10. Shows(route[t], link[t], heard[t], "aborted", Answers(shown', t))
    BY <1>2, <1>6 DEF Shows
  <1>11. \A m \in shown \union shown' : m.turn \in Turns
    BY <1>8, ShownMessages
  <1>12. QED
    BY <1>2, <1>3, <1>4, <1>5, <1>6, <1>7, <1>8, <1>9, <1>10, <1>11, BrowserKept

LEMMA LeaveKept == ASSUME IInv, KeptInv, Leave PROVE KeptInv'
  <1>1. /\ heard' = heard /\ opened' = opened /\ link' = link /\ gone' = gone /\ route' = route
        /\ call' = call /\ status' = status /\ log' = log
        /\ view'.instance = 0 /\ shown' = {} /\ page'.log = {}
    BY DEF Leave, core, Staying
  <1>2. \A u \in Turns : u <= opened => ~Mounted(u)'
    BY <1>1 DEF KeptInv, ShownInv, Mounted
  <1>3. ShownInv'
    BY <1>1 DEF KeptInv, ShownInv
  <1>4. ASSUME NEW u \in Turns PROVE StoresInv(u)' /\ ShowsInv(u)'
    <2>1. Stored(u)' = Stored(u)
      BY <1>1 DEF Stored, Answers
    <2>2. StoresInv(u)'
      BY <1>1, <2>1 DEF KeptInv, StoresInv
    <2>3. ShowsInv(u)'
      BY <1>1, <1>2 DEF ShowsInv
    <2>4. QED
      BY <2>2, <2>3
  <1>5. QED
    BY <1>3, <1>4 DEF KeptInv

LEMMA RenderKept == ASSUME IInv, KeptInv, RenderPage PROVE KeptInv'
  <1>1. /\ heard' = heard /\ opened' = opened /\ link' = link /\ gone' = gone /\ route' = route
        /\ call' = call /\ status' = status /\ log' = log /\ view' = view /\ shown' = shown
        /\ page'.log = Range(log)
    BY DEF RenderPage, core
  <1>2. \A u : Mounted(u)' <=> Mounted(u)
    BY <1>1 DEF Mounted
  <1>3. ShownInv'
    BY <1>1, <1>2 DEF KeptInv, ShownInv
  <1>4. ASSUME NEW u \in Turns PROVE StoresInv(u)' /\ ShowsInv(u)'
    <2>1. Stored(u)' = Stored(u) /\ Answers(shown, u)' = Answers(shown, u)
      BY <1>1 DEF Stored, Answers
    <2>2. StoresInv(u)'
      BY <1>1, <2>1 DEF KeptInv, StoresInv
    <2>3. ShowsInv(u)'
      BY <1>1, <1>2, <2>1 DEF KeptInv, ShowsInv
    <2>4. QED
      BY <2>2, <2>3
  <1>5. QED
    BY <1>3, <1>4 DEF KeptInv

LEMMA MountKept == ASSUME IInv, KeptInv, MountPage PROVE KeptInv'
  <1>1. /\ heard' = heard /\ opened' = opened /\ link' = link /\ gone' = gone /\ route' = route
        /\ call' = call /\ status' = status /\ log' = log
        /\ view'.instance = 2 /\ shown' = page.log /\ page'.log = {} /\ page.doing = "rendered"
    BY DEF MountPage, core, Staying
  <1>2. \A u \in Turns : ~Mounted(u)'
    BY <1>1 DEF IInv, ViewInv, Mounted
  <1>3. ShownInv'
    BY <1>1 DEF KeptInv, ShownInv
  <1>4. ASSUME NEW u \in Turns PROVE StoresInv(u)' /\ ShowsInv(u)'
    <2>1. Stored(u)' = Stored(u)
      BY <1>1 DEF Stored, Answers
    <2>2. StoresInv(u)'
      BY <1>1, <2>1 DEF KeptInv, StoresInv
    <2>3. ShowsInv(u)'
      BY <1>1, <1>2 DEF ShowsInv
    <2>4. QED
      BY <2>2, <2>3
  <1>5. QED
    BY <1>3, <1>4 DEF KeptInv

LEMMA SubmitSettles ==
  ASSUME NEW r \in Routes, NEW l \in Links, NEW h \in Readings, NEW c \in CallPairs,
         NEW s \in TurnStates, NEW a, NEW g, NEW open, ~open, TurnOK(r, l, h, c, s, a, open),
         Settles(r, l, h, c, s, a, g),
         NEW q \in Routes, q.pc = "model", q.text = r.text, q.cancel = r.cancel,
         q.finalized = r.finalized, q.msg = r.msg, q.over = r.over,
         NEW h2 \in Readings, h2.text = h.text
  PROVE  /\ Settles(q, l, h2, c, s, a, g)
         /\ \A X : 0 \notin X => Shows(q, l, h2, g, X)
  <1> DEFINE n == OnWay(l, h)
  <1>1. /\ CallsOK(n, c, s, g) /\ RowOK(n, s, a, g) /\ LoopOK(r, c, s, n) /\ LinkOK(r, l, g)
    BY DEF Settles
  <1>2. OnWay(l, h2) = n
    BY DEF OnWay
  <1>3. r.pc = "none" /\ l.events = <<>> /\ h.text = 0
    BY DEF TurnOK, Early
  <1>4. Deltas(l.events) = 0 /\ DOMAIN l.events = {}
    BY <1>3, DeltasEmpty
  <1> HIDE DEF n
  <1>5. LoopOK(q, c, s, n)
    BY <1>1, <1>3 DEF LoopOK, Early
  <1>6. LinkOK(q, l, g)
    BY <1>1, <1>3, <1>4 DEF LinkOK
  <1>7. ASSUME NEW X, 0 \notin X PROVE Shows(q, l, h2, g, X)
    BY <1>3, <1>4, <1>7 DEF Shows, Told
  <1>8. QED
    BY <1>1, <1>2, <1>5, <1>6, <1>7 DEF Settles, n

LEMMA SubmitKept == ASSUME IInv, KeptInv, Submit PROVE KeptInv'
  <1> DEFINE t == opened + 1
             h == [heard[t] EXCEPT !.in = view.instance]
             r == [route[t] EXCEPT !.pc = "model"]
             m == Message("user", t, 0)
  <1>1. TypeOK /\ ViewInv
    BY DEF IInv
  <1>2. /\ opened \in Nat /\ t \in Turns /\ view.instance \in 1 .. 2
        /\ \A u \in Turns : u \in Nat
    <2>1. opened \in Nat /\ MaxTurns \in Nat /\ opened < MaxTurns
      BY <1>1 DEF Submit, TypeOK
    <2>2. t \in Turns /\ \A u \in Turns : u \in Nat
      BY <2>1 DEF Turns
    <2>3. view.instance \in 0 .. 2 /\ view.instance # 0
      BY <1>1 DEF Submit, ComposerOpen, TypeOK
    <2>4. QED
      BY <2>1, <2>2, <2>3
  <1>3. /\ opened' = t /\ heard' = [heard EXCEPT ![t] = h] /\ route' = [route EXCEPT ![t] = r]
        /\ shown' = shown \union {m} /\ view.turn = 0
        /\ view' = [view EXCEPT !.turn = t, !.error = FALSE, !.stopped = FALSE]
        /\ page' = page /\ link' = link /\ gone' = gone
        /\ call' = call /\ status' = status /\ log' = log
    BY DEF Submit, core, ComposerOpen, Streaming
  <1>4. ~(t <= opened) /\ \A u \in Turns : u <= t <=> u <= opened \/ u = t
    BY <1>2
  <1>5. /\ heard \in [Turns -> Readings] /\ route \in [Turns -> Routes]
        /\ route[t] \in Routes /\ link[t] \in Links /\ heard[t] \in Readings
        /\ call[t] \in CallPairs /\ status[t] \in TurnStates
        /\ TurnOK(route[t], link[t], heard[t], call[t], status[t], Stored(t), t <= opened)
        /\ Settles(route[t], link[t], heard[t], call[t], status[t], Stored(t), gone[t])
    BY <1>1, <1>2, <1>4, TypeMeans, TurnFacts, KeptFacts
  <1>6. h \in Readings /\ h.text = heard[t].text /\ h.in = view.instance
    BY <1>2, <1>5 DEF Readings
  <1>7. /\ r \in Routes /\ r.pc = "model" /\ r.text = route[t].text
        /\ r.cancel = route[t].cancel /\ r.finalized = route[t].finalized
        /\ r.msg = route[t].msg /\ r.over = route[t].over
    BY <1>5 DEF Routes, Pcs
  <1>8. m \in Messages /\ m.turn = t /\ m.role = "user"
    BY <1>2, MessageType
  <1>9. view'.instance = view.instance /\ view'.turn = t
    BY <1>1, <1>3 DEF TypeOK
  <1>10. \A k \in shown : k.turn \in Turns /\ k.turn <= opened /\ k.turn # t
    BY <1>1, <1>4, ShownMessages DEF ViewInv
  <1> HIDE DEF h, r, m, t
  <1>11. /\ heard'[t] = h /\ route'[t] = r
         /\ \A u \in Turns \ {t} : heard'[u] = heard[u] /\ route'[u] = route[u]
    BY <1>2, <1>3, <1>5
  <1>12. \A u \in Turns \ {t} : Mounted(u)' <=> Mounted(u)
    BY <1>9, <1>11 DEF Mounted
  <1>13. \A u \in Turns : /\ Answers(shown, u)' = Answers(shown, u) /\ Stored(u)' = Stored(u)
    <2>1. \A u \in Turns : Answers(shown \union {m}, u) = Answers(shown, u) \union {}
      BY <1>8, ShownMessages, AnswersAdded
    <2>2. QED
      BY <1>3, <2>1 DEF Answers, Stored
  <1>14. /\ Settles(r, link[t], h, call[t], status[t], Stored(t), gone[t])
         /\ \A X : 0 \notin X => Shows(r, link[t], h, gone[t], X)
    <2> DEFINE open == t <= opened
    <2>1. ~open /\ TurnOK(route[t], link[t], heard[t], call[t], status[t], Stored(t), open)
      BY <1>4, <1>5
    <2> HIDE DEF open
    <2>2. QED
      BY <1>5, <1>6, <1>7, <2>1, SubmitSettles
  <1>15. 0 \notin Answers(shown, t)
    BY <1>2, <1>10, ShownMessages, AnswersAre
  <1>16. ShownInv'
    <2>1. \A u \in Turns : u <= opened' => heard'[u].in # 0
      <3>1. \A u \in Turns : u <= opened => heard[u].in # 0
        BY DEF KeptInv, ShownInv
      <3>2. h.in # 0
        BY <1>2, <1>6
      <3>3. QED
        BY <1>2, <1>3, <1>4, <1>11, <3>1, <3>2
    <2>2. ASSUME NEW k \in shown', k.role = "assistant"
          PROVE  Mounted(k.turn)' \/ k \in Range(log')
      <3>1. k \in shown
        BY <1>3, <1>8, <2>2
      <3>2. Mounted(k.turn) \/ k \in Range(log)
        BY <2>2, <3>1 DEF KeptInv, ShownInv
      <3>3. QED
        BY <1>3, <1>10, <1>12, <3>1, <3>2
    <2>3. page'.log \subseteq Range(log')
      BY <1>3 DEF KeptInv, ShownInv
    <2>4. QED
      BY <2>1, <2>2, <2>3 DEF ShownInv
  <1>17. ASSUME NEW u \in Turns PROVE StoresInv(u)' /\ ShowsInv(u)'
    <2>1. StoresInv(u) /\ ShowsInv(u)
      BY DEF KeptInv
    <2>2. CASE u = t
      <3>1. StoresInv(u)'
        BY <1>2, <1>3, <1>11, <1>13, <1>14, <2>2 DEF StoresInv
      <3>2. ShowsInv(u)'
        BY <1>2, <1>3, <1>9, <1>11, <1>13, <1>14, <1>15, <2>2 DEF ShowsInv
      <3>3. QED
        BY <3>1, <3>2
    <2>3. CASE u # t
      <3>1. StoresInv(u)'
        BY <1>3, <1>11, <1>13, <2>1, <2>3 DEF StoresInv
      <3>2. (u <= opened' <=> u <= opened) /\ u # 0
        BY <1>3, <1>4, <2>3 DEF Turns
      <3>3. u <= opened /\ Mounted(u) => link[u].end = "read"
        BY <1>3, <2>1, <3>2 DEF ShowsInv
      <3>4. ShowsInv(u)'
        BY <1>3, <1>11, <1>12, <1>13, <2>1, <2>3, <3>2, <3>3 DEF ShowsInv
      <3>5. QED
        BY <3>1, <3>4
    <2>4. QED
      BY <2>2, <2>3
  <1>18. QED
    BY <1>16, <1>17 DEF KeptInv

\* The browser stops reading, or has read to the end.
LEMMA ReadSettles ==
  ASSUME NEW r \in Routes, NEW l \in Links, NEW h \in Readings, NEW c \in CallPairs,
         NEW s \in TurnStates, NEW a \in SUBSET Nat, NEW g, Settles(r, l, h, c, s, a, g),
         NEW l2 \in Links, l2.events = <<>>, l2.end = "read",
         g # "no" \/ (l.events = <<>> /\ l.end \in {"closed", "broken"})
  PROVE  Settles(r, l2, h, c, s, a, g)
  <1> DEFINE n == OnWay(l, h)
             n2 == OnWay(l2, h)
  <1>1. /\ CallsOK(n, c, s, g) /\ RowOK(n, s, a, g) /\ LoopOK(r, c, s, n) /\ LinkOK(r, l, g)
    BY DEF Settles
  <1>2. n \in Nat /\ n2 \in Nat /\ n2 <= n /\ (g = "no" => n2 = n)
    <2>1. Deltas(l2.events) = 0
      BY DeltasEmpty
    <2>2. QED
      BY <2>1, OnWayType
  <1>3. DOMAIN l2.events = {}
    OBVIOUS
  <1>4. g = "no" => r.pc = "done"
    BY <1>1 DEF LinkOK
  <1>5. \A k \in Threads : c[k] # None => c[k].text \in Nat
    BY DEF CallPairs, Requests
  <1>6. r.text \in Nat
    BY DEF Routes
  <1> HIDE DEF n, n2
  <1>7. CallsOK(n2, c, s, g)
    BY <1>1, <1>2, <1>5 DEF CallsOK
  <1>8. RowOK(n2, s, a, g)
    <2>1. ASSUME s \in Ended
          PROVE  \E m \in a : a = {m} /\ m > 0 /\ n2 <= m /\ (g = "no" => n2 = m)
      <3>1. PICK m \in a : a = {m} /\ m > 0 /\ n <= m /\ (g = "no" => n = m)
        BY <1>1, <2>1 DEF RowOK
      <3>2. QED
        BY <1>2, <3>1
    <2>2. s = "failed" => n2 = 0
      BY <1>1, <1>2 DEF RowOK
    <2>3. QED
      BY <2>1, <2>2 DEF RowOK
  <1>9. LoopOK(r, c, s, n2)
    BY <1>1, <1>2, <1>6 DEF LoopOK
  <1>10. LinkOK(r, l2, g)
    BY <1>1, <1>3, <1>4 DEF LinkOK
  <1>11. QED
    BY <1>7, <1>8, <1>9, <1>10 DEF Settles, n2

\* A view that streams a turn shows no other answer of it than what it has heard.
LEMMA OwnAnswers ==
  ASSUME IInv, NEW t \in Turns, Mounted(t)
  PROVE  \A n \in Answers(shown, t) : n = heard[t].text
  <1>1. \A m \in shown : m.role = "assistant" /\ Mounted(m.turn) => m.text = heard[m.turn].text
    BY DEF IInv, ViewInv
  <1>2. shown \in SUBSET Messages
    BY ShownMessages
  <1>3. ASSUME NEW n \in Answers(shown, t)
        PROVE  \E m \in shown : m.role = "assistant" /\ m.turn = t /\ m.text = n
    BY <1>2, AnswersAre
  <1>4. QED
    BY <1>1, <1>3

LEMMA ReadShows ==
  ASSUME NEW r \in Routes, NEW l \in Links, NEW h \in Readings, NEW g, NEW l2 \in Links,
         NEW X, NEW X2, \A n \in X : n = h.text,
         LinkOK(r, l, g), Shows(r, l, h, g, X), l2.events = <<>>, l2.end = "read",
         g # "no" \/ (l.events = <<>> /\ l.end \in {"closed", "broken"}),
         X2 = IF g = "no" /\ l.end = "broken" THEN X \ {0} ELSE X
  PROVE  Shows(r, l2, h, g, X2)
  <1>1. Deltas(l2.events) = 0 /\ Range(l2.events) = {}
    BY DeltasEmpty DEF Range
  <1>2. g = "no" => r.pc = "done"
    BY DEF LinkOK
  <1>3. 0 \notin X2
    <2>1. CASE g # "no"
      BY <2>1 DEF Shows
    <2>2. CASE g = "no" /\ l.end = "broken"
      BY <2>2
    <2>3. CASE g = "no" /\ l.end = "closed"
      <3>1. Deltas(l.events) = 0 /\ Range(l.events) = {}
        BY <2>3, DeltasEmpty DEF Range
      <3>2. QED
        BY <1>2, <2>3, <3>1 DEF Shows, Told
    <2>4. QED
      BY <2>1, <2>2, <2>3
  <1>4. g = "no" /\ h.text > 0 => h.text \in X2
    BY DEF Shows, Readings
  <1>5. QED
    BY <1>1, <1>2, <1>3, <1>4 DEF Shows

LEMMA EndKept == ASSUME IInv, KeptInv, NEW t \in Turns, EndOfStream(t) PROVE KeptInv'
  <1> DEFINE failed == gone[t] = "no" /\ link[t].end = "broken"
             l2 == [events |-> <<>>, end |-> "read"]
             X == Answers(shown, t)
  <1>1. TypeOK /\ ViewInv
    BY DEF IInv
  <1>2. /\ route[t] \in Routes /\ link[t] \in Links /\ heard[t] \in Readings
        /\ call[t] \in CallPairs /\ status[t] \in TurnStates /\ link \in [Turns -> Links]
        /\ Settles(route[t], link[t], heard[t], call[t], status[t], Stored(t), gone[t])
    BY TurnFacts, KeptFacts
  <1>3. /\ link' = [link EXCEPT ![t] = l2] /\ heard' = heard /\ gone' = gone
        /\ UNCHANGED <<opened, route, call, core>>
        /\ gone[t] # "no" \/ (link[t].events = <<>> /\ link[t].end \in {"closed", "broken"})
        /\ page'.log = page.log /\ link[t].end # "read"
    <2>1. link[t].end \in {"open", "closed", "broken", "read"}
      BY <1>2 DEF Links
    <2>2. page'.log = page.log
      BY <1>1 DEF EndOfStream, TypeOK
    <2>3. QED
      BY <2>1, <2>2 DEF EndOfStream
  <1>4. \/ ~Mounted(t) /\ view' = view /\ shown' = shown
        \/ /\ Mounted(t) /\ view' = [view EXCEPT !.turn = 0, !.error = @ \/ failed]
           /\ shown' = IF failed THEN WithoutEmptyAnswers(shown) ELSE shown
    BY DEF EndOfStream
  <1>5. l2 \in Links /\ l2.events = <<>> /\ l2.end = "read"
    BY DEF Links
  <1> HIDE DEF l2
  <1>6. link'[t] = l2 /\ \A u \in Turns \ {t} : link'[u] = link[u]
    BY <1>2, <1>3
  <1>7. Settles(route[t], l2, heard[t], call[t], status[t], Stored(t), gone[t])
    <2>1. Stored(t) \in SUBSET Nat
      BY DEF Stored, Answers
    <2>2. QED
      BY <1>2, <1>3, <1>5, <2>1, ReadSettles
  <1>8. view'.instance = view.instance
    BY <1>1, <1>4 DEF TypeOK
  <1>9. shown' \subseteq shown
    BY <1>4 DEF WithoutEmptyAnswers
  <1>10. \A m \in shown \union shown' : m.turn \in Turns
    BY <1>9, ShownMessages
  <1>11. \A u \in Turns : Answers(WithoutEmptyAnswers(shown), u) = Answers(shown, u) \ {0}
    BY ShownMessages, EmptiesRemoved
  <1>12. \A u \in Turns \ {t} : u <= opened /\ Mounted(u) =>
            /\ link[u].end # "read" => view'.turn = u
            /\ \/ Answers(shown', u) = Answers(shown, u)
               \/ link[u].end = "read" /\ Answers(shown', u) = Answers(shown, u) \ {0}
    <2>1. CASE ~Mounted(t) /\ view' = view /\ shown' = shown
      BY <2>1 DEF KeptInv, ShowsInv
    <2>2. CASE /\ Mounted(t)
               /\ shown' = IF failed THEN WithoutEmptyAnswers(shown) ELSE shown
      <3>1. t <= opened
        <4>1. heard[t].in # 0
          BY DEF EndOfStream
        <4>2. QED
          BY <4>1, TurnFacts DEF TurnOK
      <3>2. view.turn = t
        BY <1>3, <2>2, <3>1 DEF KeptInv, ShowsInv
      <3>3. \A u \in Turns \ {t} : u <= opened /\ Mounted(u) => link[u].end = "read"
        BY <3>2, OneStream
      <3>4. QED
        BY <1>11, <2>2, <3>3
    <2>3. QED
      BY <1>4, <2>1, <2>2
  <1>13. ASSUME t <= opened, Mounted(t)
         PROVE  Shows(route[t], l2, heard[t], gone[t], Answers(shown', t))
    <2>1. Shows(route[t], link[t], heard[t], gone[t], X) /\ LinkOK(route[t], link[t], gone[t])
      BY <1>2, <1>13 DEF KeptInv, ShowsInv, Settles
    <2>2. Answers(shown', t) = IF failed THEN X \ {0} ELSE X
      BY <1>4, <1>11, <1>13
    <2>3. \A n \in X : n = heard[t].text
      BY <1>13, OwnAnswers
    <2> HIDE DEF X
    <2>4. QED
      BY <1>2, <1>3, <1>5, <2>1, <2>2, <2>3, ReadShows
  <1>14. QED
    BY <1>3, <1>5, <1>6, <1>7, <1>8, <1>9, <1>10, <1>12, <1>13, BrowserKept

\* One event of the stream is taken.
LEMMA TailLast ==
  ASSUME NEW s \in Seq(Events), s # <<>>
  PROVE  /\ \A x \in Range(s) : x = Head(s) \/ x \in Range(Tail(s))
         /\ \A i \in DOMAIN Tail(s) : i + 1 \in DOMAIN s /\ Tail(s)[i] = s[i + 1]
                                      /\ (i + 1 = Len(s) => i = Len(Tail(s)))
         /\ 1 \in DOMAIN s /\ s[1] = Head(s) /\ (Len(s) = 1 => Tail(s) = <<>>)
  <1>1. /\ Head(s) = s[1] /\ 1 \in DOMAIN s /\ Len(s) \in Nat \ {0}
        /\ Len(Tail(s)) = Len(s) - 1 /\ DOMAIN s = 1 .. Len(s)
        /\ DOMAIN Tail(s) = 1 .. Len(s) - 1
        /\ \A i \in 1 .. Len(s) - 1 : Tail(s)[i] = s[i + 1]
    OBVIOUS
  <1>2. ASSUME NEW x \in Range(s) PROVE x = Head(s) \/ x \in Range(Tail(s))
    <2>1. PICK i \in DOMAIN s : s[i] = x
      BY DEF Range
    <2>2. CASE i = 1
      BY <1>1, <2>1, <2>2
    <2>3. CASE i # 1
      <3>1. i - 1 \in 1 .. Len(s) - 1 /\ (i - 1) + 1 = i
        BY <1>1, <2>1, <2>3
      <3>2. Tail(s)[i - 1] = x /\ i - 1 \in DOMAIN Tail(s)
        BY <1>1, <2>1, <3>1
      <3>3. QED
        BY <3>2 DEF Range
    <2>4. QED
      BY <2>2, <2>3
  <1>3. Len(s) = 1 => Tail(s) = <<>>
    BY <1>1
  <1>4. QED
    BY <1>1, <1>2, <1>3

LEMMA TakenSettles ==
  ASSUME NEW r \in Routes, NEW l \in Links, NEW h \in Readings, NEW c \in CallPairs,
         NEW s \in TurnStates, NEW a, NEW g, Settles(r, l, h, c, s, a, g),
         l.events # <<>>, NEW l2 \in Links, NEW h2 \in Readings,
         l2.events = Tail(l.events), l2.end = l.end,
         h2.text = h.text + (IF Head(l.events) = "delta" THEN 1 ELSE 0)
  PROVE  Settles(r, l2, h2, c, s, a, g)
  <1> DEFINE n == OnWay(l, h)
  <1>1. /\ CallsOK(n, c, s, g) /\ RowOK(n, s, a, g) /\ LoopOK(r, c, s, n) /\ LinkOK(r, l, g)
    BY DEF Settles
  <1>2. l.events \in Seq(Events)
    BY DEF Links
  <1>3. OnWay(l2, h2) = n
    <2>1. /\ Deltas(l2.events) \in Nat
          /\ Deltas(l.events) = Deltas(l2.events) + (IF Head(l.events) = "delta" THEN 1 ELSE 0)
      BY <1>2, DeltasTail
    <2>2. h.text \in Nat
      BY DEF Readings
    <2>3. CASE Head(l.events) = "delta"
      BY <2>1, <2>2, <2>3 DEF OnWay
    <2>4. CASE Head(l.events) # "delta"
      BY <2>1, <2>2, <2>4 DEF OnWay
    <2>5. QED
      BY <2>3, <2>4
  <1>4. LinkOK(r, l2, g)
    <2>1. ASSUME NEW i \in DOMAIN l2.events, l2.events[i] \in {"error", "completed"}
          PROVE  i = Len(l2.events) /\ Told(r)
      <3>1. i + 1 \in DOMAIN l.events /\ l2.events[i] = l.events[i + 1]
            /\ (i + 1 = Len(l.events) => i = Len(l2.events))
        BY <1>2, TailLast
      <3>2. QED
        BY <1>1, <2>1, <3>1 DEF LinkOK
    <2>2. QED
      BY <1>1, <2>1 DEF LinkOK
  <1> HIDE DEF n
  <1>5. QED
    BY <1>1, <1>3, <1>4 DEF Settles, n

\* What a view shows of a turn, X, becomes X2 with the event e.
Takes(r, l, h, l2, h2, e, X, X2) ==
    /\ LinkOK(r, l, "no") /\ Shows(r, l, h, "no", X)
    /\ l.events # <<>> /\ l.end # "read" /\ e = Head(l.events)
    /\ l2.events = Tail(l.events) /\ l2.end = l.end
    /\ IF e = "delta" THEN h2.text = h.text + 1 ELSE h2.text = h.text
    /\ IF e = "started" THEN h.text = 0 ELSE "started" \notin Range(l.events)
    /\ e = "started" => 0 \in X2
    /\ e = "delta" => (h.text \in X => h2.text \in X2) /\ 0 \notin X2
    /\ e = "error" => (h.text \in X /\ h.text > 0 => h.text \in X2) /\ 0 \notin X2
    /\ e = "completed" => X2 = X

LEMMA TakenShows ==
  ASSUME NEW r \in Routes, NEW l \in Links, NEW h \in Readings, NEW l2 \in Links,
         NEW h2 \in Readings, NEW e, NEW X, NEW X2, Takes(r, l, h, l2, h2, e, X, X2)
  PROVE  Shows(r, l2, h2, "no", X2)
  <1>1. /\ l.events \in Seq(Events) /\ e \in Events /\ h.text \in Nat
        /\ Deltas(l2.events) \in Nat
        /\ Deltas(l.events) = Deltas(l2.events) + (IF e = "delta" THEN 1 ELSE 0)
    <2>1. l.events \in Seq(Events) /\ h.text \in Nat
      BY DEF Links, Readings
    <2>2. QED
      BY <2>1, DeltasTail, TailRange DEF Takes
  <1>2. l.end # "read"
    BY DEF Takes
  <1>3. /\ 1 \in DOMAIN l.events /\ l.events[1] = e
        /\ \A x \in Range(l.events) : x = e \/ x \in Range(l2.events)
        /\ e \in Range(l.events) /\ (Len(l.events) = 1 => l2.events = <<>>)
    BY <1>1, TailLast, TailRange DEF Takes
  <1>4. CASE e = "started"
    <2>1. h.text = 0 /\ h2.text = 0
      BY <1>1, <1>4 DEF Takes
    <2>2. Deltas(l.events) = Deltas(l2.events)
      BY <1>1, <1>4
    <2>3. "error" \in Range(l.events) => "error" \in Range(l2.events)
      BY <1>3, <1>4
    <2>4. 0 \in X2
      BY <1>4 DEF Takes
    <2>5. QED
      BY <1>2, <1>3, <1>4, <2>1, <2>2, <2>3, <2>4 DEF Shows, Takes
  <1>5. CASE e = "delta"
    <2>1. h2.text = h.text + 1 /\ Deltas(l.events) > 0
      BY <1>1, <1>5 DEF Takes
    <2>2. "started" \notin Range(l.events)
      BY <1>5 DEF Takes
    <2>3. h.text \in X
      BY <1>1, <2>1, <2>2 DEF Shows, Takes
    <2>4. h2.text \in X2 /\ 0 \notin X2 /\ h2.text > 0
      BY <1>1, <1>5, <2>1, <2>3 DEF Takes
    <2>5. QED
      BY <2>4 DEF Shows
  <1>6. CASE e \in {"error", "completed"}
    <2>1. Len(l.events) = 1 /\ Told(r)
      BY <1>3, <1>6 DEF LinkOK, Takes
    <2>2. l2.events = <<>>
      BY <1>3, <2>1
    <2>3. Deltas(l2.events) = 0 /\ Range(l2.events) = {}
      <3>1. Range(<<>>) = {}
        BY DEF Range
      <3>2. QED
        BY <2>2, <3>1, DeltasEmpty
    <2>4. h2.text = h.text /\ Deltas(l.events) = 0
      BY <1>1, <1>6, <2>3 DEF Takes
    <2>5. ~(r.pc = "reading" /\ r.msg /\ ~r.over)
      BY <2>1 DEF Told
    <2>6. CASE e = "error"
      <3>1. (h.text \in X /\ h.text > 0 => h.text \in X2) /\ 0 \notin X2
        BY <2>6 DEF Takes
      <3>2. QED
        BY <1>2, <2>3, <2>4, <2>5, <3>1 DEF Shows, Takes
    <2>7. CASE e = "completed"
      <3>1. X2 = X /\ "error" \notin Range(l.events)
        BY <1>3, <2>3, <2>7 DEF Takes
      <3>2. QED
        BY <1>2, <2>1, <2>3, <2>4, <2>5, <3>1 DEF Shows, Takes
    <2>8. QED
      BY <1>6, <2>6, <2>7
  <1>7. QED
    BY <1>1, <1>4, <1>5, <1>6 DEF Events

LEMMA GrownAnswers ==
  ASSUME IInv, NEW t \in Turns, Mounted(t), heard[t].text + 1 \in 0 .. MaxText
  PROVE  /\ AnswerGrows(t) \in SUBSET Messages
         /\ \A u \in Turns \ {t} : Answers(AnswerGrows(t), u) = Answers(shown, u)
         /\ heard[t].text \in Answers(shown, t) =>
               heard[t].text + 1 \in Answers(AnswerGrows(t), t)
         /\ 0 \notin Answers(AnswerGrows(t), t)
         /\ \A m \in AnswerGrows(t) : m.role = "assistant" => m \in shown \/ Mounted(m.turn)
  <1> DEFINE own(m) == m.role = "assistant" /\ m.turn = t
             n == heard[t].text + 1
             grown(m) == [m EXCEPT !.text = m.text + 1]
  <1>1. /\ shown \in SUBSET Messages
        /\ AnswerGrows(t) = {IF own(m) THEN grown(m) ELSE m : m \in shown}
    BY ShownMessages DEF AnswerGrows
  <1>2. ASSUME NEW m \in shown, own(m)
        PROVE  /\ m.text = heard[t].text /\ grown(m) \in Messages /\ grown(m).text = n
               /\ grown(m).role = "assistant" /\ grown(m).turn = t
    <2>1. m \in Messages /\ m.text \in Answers(shown, t)
      BY <1>1, <1>2, AnswersAre
    <2>2. m.text = heard[t].text
      BY <2>1, OwnAnswers
    <2>3. grown(m) = [m EXCEPT !.text = n] /\ n \in 0 .. MaxText
      BY <2>2
    <2> HIDE DEF n, grown
    <2>4. QED
      BY <1>2, <2>1, <2>2, <2>3 DEF Messages
  <1> HIDE DEF n, grown
  <1>3. \A k \in AnswerGrows(t) :
           \E m \in shown : \/ own(m) /\ k = grown(m)
                            \/ ~own(m) /\ k = m
    BY <1>1
  <1>4. \A m \in shown : /\ own(m) => grown(m) \in AnswerGrows(t)
                         /\ ~own(m) => m \in AnswerGrows(t)
    BY <1>1
  <1>5. AnswerGrows(t) \in SUBSET Messages
    BY <1>1, <1>2, <1>3
  <1>6. ASSUME NEW k \in AnswerGrows(t), own(k) PROVE k.text = n
    BY <1>2, <1>3, <1>6
  <1>7. ASSUME NEW k \in Messages, ~own(k) PROVE k \in AnswerGrows(t) <=> k \in shown
    BY <1>2, <1>3, <1>4, <1>7
  <1>8. ASSUME NEW u \in Turns \ {t} PROVE Answers(AnswerGrows(t), u) = Answers(shown, u)
    <2>1. \A j \in 0 .. MaxText : /\ Message("assistant", u, j) \in Messages
                                  /\ ~own(Message("assistant", u, j))
      BY MessageType
    <2> HIDE DEF own
    <2>2. QED
      BY <1>7, <2>1 DEF Answers
  <1>9. ASSUME heard[t].text \in Answers(shown, t) PROVE n \in Answers(AnswerGrows(t), t)
    <2>1. PICK m \in shown : own(m)
      BY <1>1, <1>9, AnswersAre
    <2>2. grown(m) \in AnswerGrows(t) /\ own(grown(m)) /\ grown(m).text = n
      BY <1>2, <1>4, <2>1
    <2>3. QED
      BY <1>5, <2>2, AnswersAre
  <1>10. 0 \notin Answers(AnswerGrows(t), t)
    <2>1. ASSUME 0 \in Answers(AnswerGrows(t), t) PROVE FALSE
      <3> HIDE DEF own
      <3> DEFINE A == AnswerGrows(t)
      <3>0. A \in SUBSET Messages /\ 0 \in Answers(A, t)
        BY <1>5, <2>1
      <3> HIDE DEF A
      <3>9. \E k \in A : k.role = "assistant" /\ k.turn = t /\ k.text = 0
        BY <3>0, AnswersAre
      <3>1. PICK k \in AnswerGrows(t) : own(k) /\ k.text = 0
        BY <3>9 DEF own, A
      <3>2. n = 0 /\ heard[t].text \in Nat
        BY <1>6, <3>1, TurnFacts DEF Readings
      <3>3. QED
        BY <3>2 DEF n
    <2>2. QED
      BY <2>1
  <1>11. ASSUME NEW k \in AnswerGrows(t) PROVE k \in shown \/ Mounted(k.turn)
    BY <1>2, <1>3, <1>11
  <1>12. QED
    BY <1>5, <1>8, <1>9, <1>10, <1>11 DEF n

LEMMA ReceiveKept == ASSUME IInv, KeptInv, NEW t \in Turns, Receive(t) PROVE KeptInv'
  <1> DEFINE l == link[t]
             e == Head(l.events)
             rest == Tail(l.events)
             n == IF e = "delta" THEN heard[t].text + 1 ELSE heard[t].text
             h == [heard[t] EXCEPT !.text = n]
             l2 == [l EXCEPT !.events = rest]
             X == Answers(shown, t)
  <1>1. TypeOK /\ ViewInv
    BY DEF IInv
  <1>2. /\ route[t] \in Routes /\ l \in Links /\ heard[t] \in Readings
        /\ call[t] \in CallPairs /\ status[t] \in TurnStates
        /\ link \in [Turns -> Links] /\ heard \in [Turns -> Readings]
        /\ TurnOK(route[t], l, heard[t], call[t], status[t], Stored(t), t <= opened)
        /\ Settles(route[t], l, heard[t], call[t], status[t], Stored(t), gone[t])
    BY <1>1, TurnFacts, KeptFacts, TypeMeans
  <1>3. /\ heard' = [heard EXCEPT ![t] = h] /\ link' = [link EXCEPT ![t] = l2]
        /\ UNCHANGED <<opened, route, call, core>> /\ gone' = gone
        /\ page' = page /\ gone[t] = "no" /\ l.events # <<>>
    BY DEF Receive
  <1>4. \/ ~Mounted(t) /\ view' = view /\ shown' = shown
        \/ /\ Mounted(t) /\ view' = [view EXCEPT !.error = @ \/ e = "error"]
           /\ e = "started" => shown' = shown \union {Message("assistant", t, 0)}
           /\ e = "delta" => shown' = AnswerGrows(t)
           /\ e = "error" => shown' = WithoutEmptyAnswers(shown)
           /\ e \notin {"started", "delta", "error"} => shown' = shown
    BY DEF Receive
  <1>5. /\ l.events \in Seq(Events) /\ e \in Events /\ rest \in Seq(Events)
        /\ heard[t].text \in Nat
    BY <1>2, <1>3, TailRange DEF Links, Readings
  <1>6. l.end # "read" /\ t <= opened
    BY <1>2, <1>3 DEF TurnOK, Early
  <1>7. n \in 0 .. MaxText /\ n = heard[t].text + (IF e = "delta" THEN 1 ELSE 0)
    <2>1. /\ Deltas(rest) \in Nat
          /\ Deltas(l.events) = Deltas(rest) + (IF e = "delta" THEN 1 ELSE 0)
      BY <1>3, <1>5, DeltasTail
    <2>2. heard[t].text + Deltas(l.events) <= MaxText /\ heard[t].text \in 0 .. MaxText
      BY <1>2 DEF TurnOK, Readings
    <2> HIDE DEF e, rest, l
    <2>3. CASE e = "delta"
      BY <1>5, <2>1, <2>2, <2>3
    <2>4. CASE e # "delta"
      BY <1>5, <2>2, <2>4
    <2>5. QED
      BY <2>3, <2>4
  <1> HIDE DEF n
  <1>8. h \in Readings /\ h.text = n /\ h.in = heard[t].in
    BY <1>2, <1>7 DEF Readings
  <1>9. l2 \in Links /\ l2.events = rest /\ l2.end = l.end
    BY <1>2, <1>5 DEF Links
  <1> HIDE DEF h, l2
  <1>10. /\ heard'[t] = h /\ link'[t] = l2
         /\ \A u \in Turns \ {t} : heard'[u] = heard[u] /\ link'[u] = link[u]
    BY <1>2, <1>3
  <1>11. Settles(route[t], l2, h, call[t], status[t], Stored(t), gone[t])
    <2> DEFINE a == Stored(t)
               g == gone[t]
    <2>1. Settles(route[t], l, heard[t], call[t], status[t], a, g)
      BY <1>2
    <2> HIDE DEF a, g
    <2>2. Settles(route[t], l2, h, call[t], status[t], a, g)
      BY <1>2, <1>3, <1>7, <1>8, <1>9, <2>1, TakenSettles
    <2>3. QED
      BY <2>2 DEF a, g
  <1>12. view'.instance = view.instance /\ view'.turn = view.turn
    BY <1>1, <1>4 DEF TypeOK
  <1>13. \A u \in Turns : heard'[u].in = heard[u].in
    BY <1>8, <1>10
  <1>14. ASSUME Mounted(t)
         PROVE  /\ shown' \in SUBSET Messages
                /\ \A m \in shown' : m.role = "assistant" => m \in shown \/ Mounted(m.turn)
                /\ \A u \in Turns \ {t} : \/ Answers(shown', u) = Answers(shown, u)
                                          \/ Answers(shown', u) = Answers(shown, u) \ {0}
                /\ e = "started" => Answers(shown', t) = X \union {0}
                /\ e = "delta" => (heard[t].text \in X => n \in Answers(shown', t))
                                  /\ 0 \notin Answers(shown', t)
                /\ e = "error" => Answers(shown', t) = X \ {0}
                /\ e = "completed" => Answers(shown', t) = X
    <2>1. shown \in SUBSET Messages
      BY ShownMessages
    <2>2. CASE e = "started"
      <3> DEFINE m1 == Message("assistant", t, 0)
      <3>1. m1 \in Messages /\ m1.turn = t /\ m1.text = 0 /\ m1.role = "assistant"
        BY MessageType
      <3>2. shown' = shown \union {m1}
        BY <1>4, <1>14, <2>2
      <3> HIDE DEF m1
      <3>3. \A u \in Turns : Answers(shown', u) = Answers(shown, u) \union (IF u = t THEN {0} ELSE {})
        BY <2>1, <3>1, <3>2, AnswersAdded
      <3>4. \A m \in shown' : m.role = "assistant" => m \in shown \/ Mounted(m.turn)
        BY <1>14, <3>1, <3>2
      <3>5. \A u \in Turns \ {t} : Answers(shown', u) = Answers(shown, u)
        BY <3>3
      <3>6. Answers(shown', t) = X \union {0} /\ shown' \in SUBSET Messages
        BY <2>1, <3>1, <3>2, <3>3
      <3> HIDE DEF e, X
      <3>7. QED
        BY <2>2, <3>4, <3>5, <3>6
    <2>3. CASE e = "delta"
      <3>1. shown' = AnswerGrows(t)
        BY <1>4, <1>14, <2>3
      <3>2. n = heard[t].text + 1
        BY <1>7, <2>3
      <3>3. heard[t].text + 1 \in 0 .. MaxText
        BY <1>7, <3>2
      <3> HIDE DEF e
      <3>4. QED
        BY <1>14, <2>3, <3>1, <3>2, <3>3, GrownAnswers
    <2>4. CASE e = "error"
      <3>1. shown' = WithoutEmptyAnswers(shown) /\ shown' \subseteq shown
        BY <1>4, <1>14, <2>4 DEF WithoutEmptyAnswers
      <3>2. \A u \in Turns : Answers(shown', u) = Answers(shown, u) \ {0}
        BY <2>1, <3>1, EmptiesRemoved
      <3> HIDE DEF e
      <3>3. QED
        BY <2>1, <2>4, <3>1, <3>2
    <2>5. CASE e = "completed"
      <3>1. shown' = shown
        BY <1>4, <1>14, <2>5
      <3> HIDE DEF e
      <3>2. QED
        BY <2>1, <2>5, <3>1
    <2>6. QED
      BY <1>5, <2>2, <2>3, <2>4, <2>5 DEF Events
  <1>15. /\ \A m \in shown' : m.role = "assistant" => m \in shown \/ Mounted(m.turn)
         /\ \A m \in shown \union shown' : m.turn \in Turns
    <2>1. \A m \in Messages : m.turn \in Turns
      BY DEF Messages
    <2>2. shown' = shown \/ shown' \in SUBSET Messages
      BY <1>4, <1>14
    <2>3. QED
      BY <1>4, <1>14, <2>1, <2>2, ShownMessages
  <1>16. ASSUME Mounted(t)
         PROVE  /\ Shows(route[t], l2, h, gone[t], Answers(shown', t))
                /\ view.turn = t
    <2>1. Shows(route[t], l, heard[t], "no", X) /\ LinkOK(route[t], l, "no")
      BY <1>2, <1>3, <1>6, <1>16 DEF KeptInv, ShowsInv, Settles
    <2>2. view.turn = t
      BY <1>6, <1>16 DEF KeptInv, ShowsInv
    <2> DEFINE X2 == Answers(shown', t)
    <2>3. /\ e = "started" => 0 \in X2
          /\ e = "delta" => (heard[t].text \in X => n \in X2) /\ 0 \notin X2
          /\ e = "error" => /\ heard[t].text \in X /\ heard[t].text > 0 => heard[t].text \in X2
                            /\ 0 \notin X2
          /\ e = "completed" => X2 = X
      BY <1>14, <1>16
    <2>4. /\ e = "started" => heard[t].text = 0
          /\ e # "started" => "started" \notin Range(l.events)
      <3>1. \A i \in DOMAIN l.events : l.events[i] = "started" => i = 1 /\ heard[t].text = 0
        BY <1>2 DEF TurnOK
      <3>2. 1 \in DOMAIN l.events /\ l.events[1] = e
        BY <1>3, <1>5, TailLast
      <3> HIDE DEF l, e
      <3>3. QED
        BY <3>1, <3>2 DEF Range
    <2>5. e = Head(l.events) /\ l2.events = Tail(l.events)
      BY <1>9
    <2> HIDE DEF X, X2, e
    <2>6. Shows(route[t], l2, h, "no", X2)
      <3>1. route[t] \in Routes /\ l \in Links /\ heard[t] \in Readings /\ l.events # <<>>
        BY <1>2, <1>3
      <3>2. /\ e = "delta" => h.text = heard[t].text + 1
            /\ e # "delta" => h.text = heard[t].text
        BY <1>5, <1>7, <1>8 DEF e
      <3>3. e = "delta" => (heard[t].text \in X => h.text \in X2) /\ 0 \notin X2
        BY <1>8, <2>3
      <3> HIDE DEF l
      <3>4. QED
        <4>1. Takes(route[t], l, heard[t], l2, h, e, X, X2)
          BY <1>6, <1>8, <1>9, <2>1, <2>3, <2>4, <2>5, <3>1, <3>2, <3>3 DEF Takes
        <4>2. QED
          BY <1>8, <1>9, <3>1, <4>1, TakenShows
    <2>7. QED
      BY <1>3, <2>2, <2>6 DEF X2
  <1>17. \A u \in Turns \ {t} : u <= opened /\ Mounted(u) =>
            /\ link[u].end # "read" => view'.turn = u
            /\ \/ Answers(shown', u) = Answers(shown, u)
               \/ link[u].end = "read" /\ Answers(shown', u) = Answers(shown, u) \ {0}
    <2>1. CASE ~Mounted(t)
      <3>1. view' = view /\ shown' = shown
        BY <1>4, <2>1
      <3>2. QED
        BY <3>1 DEF KeptInv, ShowsInv
    <2>2. CASE Mounted(t)
      <3>1. \A u \in Turns \ {t} : u <= opened /\ Mounted(u) => link[u].end = "read"
        BY <1>16, <2>2, OneStream
      <3>2. QED
        BY <1>14, <2>2, <3>1
    <2>3. QED
      BY <2>1, <2>2
  <1>18. page'.log = page.log /\ gone'[t] = gone[t] /\ \A u \in Turns \ {t} : gone'[u] = gone[u]
    BY <1>3
  <1>19. Settles(route[t], link'[t], heard'[t], call[t], status[t], Stored(t), gone'[t])
    BY <1>10, <1>11, <1>18
  <1>20. t <= opened /\ Mounted(t) =>
            /\ Shows(route[t], link'[t], heard'[t], gone'[t], Answers(shown', t))
            /\ link'[t].end # "read" => view'.turn = t
    BY <1>10, <1>12, <1>16, <1>18
  <1>21. QED
    BY <1>3, <1>10, <1>12, <1>13, <1>15, <1>17, <1>18, <1>19, <1>20, BrowserKept

-------------------------------------------------------------------------------
(* What is shown is stored: the invariant, and the property. *)

LEMMA KeptInit == Init => SInv
  <1> SUFFICES ASSUME Init PROVE KeptInv
    BY DEF SInv
  <1>1. ShownInv
    BY DEF Init, ShownInv, Staying, Turns
  <1>2. ASSUME NEW t \in Turns PROVE StoresInv(t) /\ ShowsInv(t)
    <2>1. /\ link[t].events = <<>> /\ link[t].end = "open" /\ heard[t].text = 0
          /\ gone[t] = "no" /\ status[t] = "none" /\ ~(t <= opened)
          /\ \A k \in Threads : call[t][k] = None
      BY DEF Init, Turns
    <2>2. /\ route[t].pc = "none" /\ route[t].cancel = "idle" /\ ~route[t].finalized
          /\ ~route[t].msg /\ ~route[t].over
      BY DEF Init, Fresh
    <2>3. OnWay(link[t], heard[t]) = 0 /\ DOMAIN link[t].events = {}
      BY <2>1, DeltasEmpty DEF OnWay
    <2>4. CallsOK(0, call[t], status[t], gone[t]) /\ RowOK(0, status[t], Stored(t), gone[t])
      BY <2>1 DEF CallsOK, RowOK, Ended
    <2>5. LoopOK(route[t], call[t], status[t], 0) /\ LinkOK(route[t], link[t], gone[t])
      BY <2>1, <2>2, <2>3 DEF LoopOK, LinkOK, Early, Final, Threads
    <2>6. QED
      BY <2>1, <2>3, <2>4, <2>5 DEF StoresInv, ShowsInv, Settles
  <1>3. QED
    BY <1>1, <1>2 DEF KeptInv

\* While no request is lost, none was.
LEMMA NoLoss ==
  ASSUME IInv, [Next]_vars, failures' = 0
  PROVE  failures = 0 /\ ~Lose
  <1>1. failures \in Nat
    BY DEF IInv, TypeOK
  <1>2. ~Lose
    BY <1>1 DEF Lose
  <1>3. ASSUME NEW t \in Turns, HandlerStep(t) PROVE failures' = failures
    BY <1>2, <1>3 DEF HandlerStep, ResolveModel, TurnStarts, TurnDoesNotStart, AskModel,
       TurnFailed, ForwardLine, AnswerSaved, SourceEnds, SourceBreaks, LoopSettled, RequestFails
  <1>4. ASSUME NEW t \in Turns,
               \/ NoticeAbort(t) \/ Cancel(t) \/ CancelSettled(t) \/ CoreStarts(t)
               \/ \E h \in Threads : CoreFinishes(t, h)
        PROVE  failures' = failures
    BY <1>2, <1>4 DEF NoticeAbort, Cancel, CancelSettled, CoreStarts, CoreFinishes
  <1>5. ASSUME Submit \/ Stop \/ Leave \/ ViewStep \/ UNCHANGED vars PROVE failures' = failures
    BY <1>5 DEF Submit, Stop, Leave, ViewStep, RenderPage, MountPage, Receive, EndOfStream, vars
  <1>6. failures' = failures
    BY <1>3, <1>4, <1>5 DEF Next
  <1>7. QED
    BY <1>2, <1>6

LEMMA KeptStutters == ASSUME KeptInv, UNCHANGED vars PROVE KeptInv'
  <1>1. /\ view' = view /\ shown' = shown /\ heard' = heard /\ page' = page /\ opened' = opened
        /\ link' = link /\ gone' = gone /\ route' = route /\ call' = call
        /\ status' = status /\ log' = log
    BY DEF vars, browser, core
  <1>2. \A u : Mounted(u)' <=> Mounted(u)
    BY <1>1 DEF Mounted
  <1>3. ShownInv'
    BY <1>1, <1>2 DEF KeptInv, ShownInv
  <1>4. ASSUME NEW u \in Turns PROVE StoresInv(u)' /\ ShowsInv(u)'
    <2>1. Stored(u)' = Stored(u) /\ Answers(shown, u)' = Answers(shown, u)
      BY <1>1 DEF Stored, Answers
    <2>2. StoresInv(u)'
      BY <1>1, <2>1 DEF KeptInv, StoresInv
    <2>3. ShowsInv(u)'
      BY <1>1, <1>2, <2>1 DEF KeptInv, ShowsInv
    <2>4. QED
      BY <2>2, <2>3
  <1>5. QED
    BY <1>3, <1>4 DEF KeptInv

LEMMA KeptNext == IInv /\ SInv /\ [Next]_vars => SInv'
  <1> SUFFICES ASSUME IInv, SInv, [Next]_vars, failures' = 0 PROVE KeptInv'
    BY DEF SInv
  <1>1. ~Lose /\ KeptInv
    BY NoLoss DEF SInv
  <1>2. CASE Submit \/ Stop \/ Leave
    BY <1>1, <1>2, SubmitKept, StopKept, LeaveKept
  <1>3. CASE ViewStep
    BY <1>1, <1>3, RenderKept, MountKept, ReceiveKept, EndKept DEF ViewStep
  <1>4. ASSUME NEW t \in Turns, HandlerStep(t) PROVE KeptInv'
    BY <1>1, <1>4, ResolveKept, StartsAsksKept, EarlyReturnKept, ForwardLineKept,
       AnswerSavedKept, SourceKept, LoopSettledKept DEF HandlerStep
  <1>5. ASSUME NEW t \in Turns, NoticeAbort(t) \/ Cancel(t) \/ CancelSettled(t)
        PROVE  KeptInv'
    BY <1>1, <1>5, NoticeKept, CancelKept, CancelSettledKept
  <1>6. ASSUME NEW t \in Turns, CoreStarts(t) PROVE KeptInv'
    BY <1>1, <1>6, CoreStartsKept
  <1>7. ASSUME NEW t \in Turns, NEW h \in Threads, CoreFinishes(t, h) PROVE KeptInv'
    BY <1>1, <1>7, CoreFinishesKept
  <1>8. CASE UNCHANGED vars
    BY <1>1, <1>8, KeptStutters
  <1>9. QED
    BY <1>2, <1>3, <1>4, <1>5, <1>6, <1>7, <1>8 DEF Next

\* Once a turn is quiet, Core has what the browser has received of the answer, or more.
LEMMA QuietIsSettled ==
  ASSUME IInv, KeptInv, NEW t \in Turns, Quiet(t)
  PROVE  /\ OnWay(link[t], heard[t]) = heard[t].text /\ heard[t].text \in Nat
         /\ heard[t].text > 0 => status[t] \in Ended
         /\ status[t] \in Ended =>
               \E m \in Stored(t) : /\ Stored(t) = {m} /\ m > 0 /\ heard[t].text <= m
                                    /\ gone[t] = "no" => m = heard[t].text
  <1> DEFINE n == heard[t].text
             r == route[t]
             c == call[t]
             s == status[t]
             a == Stored(t)
             g == gone[t]
  <1>1. /\ r.pc = "done" /\ r.cancel # "settling" /\ link[t].end = "read"
    BY DEF Quiet, At
  <1>2. OnWay(link[t], heard[t]) = n /\ n \in Nat
    <2>1. link[t].events = <<>> /\ link[t] \in Links /\ heard[t] \in Readings
      BY <1>1, TurnFacts DEF TurnOK
    <2>2. QED
      BY <2>1, DeltasEmpty, OnWayType
  <1>3. CallsOK(n, c, s, g) /\ RowOK(n, s, a, g) /\ LoopOK(r, c, s, n)
    BY <1>2, KeptFacts DEF Settles
  <1> HIDE DEF n, r, c, s, a, g
  <1>4. n > 0 => s \in Ended
    <2>1. c["loop"] = None /\ c["cancel"] = None
      BY <1>1, <1>3 DEF LoopOK
    <2>2. n > 0 => s \in Final
      BY <1>1, <1>3, <2>1 DEF LoopOK, Asked, Threads
    <2>3. QED
      BY <1>2, <1>3, <2>2 DEF Final, Ended, RowOK
  <1>5. s \in Ended => \E m \in a : a = {m} /\ m > 0 /\ n <= m /\ (g = "no" => n = m)
    BY <1>3 DEF RowOK
  <1>6. QED
    BY <1>2, <1>4, <1>5 DEF n, s, a, g

LEMMA KeptShows == IInv /\ SInv => ShownIsStored
  <1> SUFFICES ASSUME IInv, KeptInv, NEW t \in 1 .. opened, Quiet(t)
               PROVE  /\ \A n \in Answers(shown, t) : \E k \in Stored(t) : n <= k
                      /\ gone[t] = "no" /\ Mounted(t) => Answers(shown, t) = Stored(t)
    BY DEF SInv, ShownIsStored
  <1>1. t \in Turns /\ t <= opened
    BY BoundsAssumption DEF IInv, TypeOK, Turns
  <1> DEFINE n == heard[t].text
             X == Answers(shown, t)
  <1>2. /\ n \in Nat /\ (n > 0 => status[t] \in Ended)
        /\ status[t] \in Ended =>
              \E m \in Stored(t) : /\ Stored(t) = {m} /\ m > 0 /\ n <= m
                                   /\ gone[t] = "no" => m = n
    BY <1>1, QuietIsSettled
  <1>3. CASE Mounted(t)
    <2>1. link[t].end = "read"
      BY DEF Quiet
    <2>2. (gone[t] = "no" /\ n > 0 => n \in X) /\ 0 \notin X
      BY <1>1, <1>3, <2>1 DEF KeptInv, ShowsInv, Shows
    <2>3. \A k \in X : k = n
      BY <1>1, <1>3, OwnAnswers
    <2> HIDE DEF n, X
    <2>4. CASE n > 0
      <3>1. PICK m \in Stored(t) : /\ Stored(t) = {m} /\ n <= m
                                   /\ gone[t] = "no" => m = n
        BY <1>2, <2>4
      <3>2. \A k \in X : k <= m
        BY <2>3, <3>1
      <3>3. gone[t] = "no" => X = {n} /\ Stored(t) = {n}
        BY <2>2, <2>3, <2>4, <3>1
      <3>4. QED
        BY <3>1, <3>2, <3>3 DEF X
    <2>5. CASE n = 0
      <3>1. X = {}
        BY <2>2, <2>3, <2>5
      <3>2. gone[t] = "no" => Stored(t) = {}
        <4>1. status[t] \notin Ended => Stored(t) = {}
          BY <1>1, NoAnswerYet
        <4>2. QED
          BY <1>2, <2>5, <4>1
      <3>3. QED
        BY <3>1, <3>2 DEF X
    <2>6. QED
      BY <1>2, <2>4, <2>5
  <1>4. CASE ~Mounted(t)
    <2>1. X \subseteq 0 .. MaxText /\ \A k \in X :
             \E m \in shown : m.role = "assistant" /\ m.turn = t /\ m.text = k
      BY <1>1, ShownMessages, AnswersAre
    <2>2. ASSUME NEW k \in X PROVE k \in Stored(t)
      <3>1. PICK m \in shown : m.role = "assistant" /\ m.turn = t /\ m.text = k
        BY <2>1
      <3>2. m \in Range(log) /\ m \in Messages
        BY <1>4, <3>1, ShownMessages DEF KeptInv, ShownInv
      <3>3. m = Message("assistant", t, k)
        BY <3>1, <3>2, MessageIs
      <3>4. QED
        BY <2>1, <3>2, <3>3 DEF Stored, Answers
    <2>3. \A k \in X : k <= k
      BY <2>1
    <2> HIDE DEF X
    <2>4. QED
      BY <1>4, <2>2, <2>3 DEF X
  <1>5. QED
    BY <1>3, <1>4

\* What a view shows of an answer is not lost: once a turn is quiet, and unless a request was
\* lost, Core has stored at least what is shown of it, and exactly that if the browser has
\* read the stream to its end; whoever settles the turn, and however it is stopped or left.
THEOREM ShownIsKept == Spec => []ShownIsStored
  <1>1. Init => IInv /\ SInv
    BY InvInit, KeptInit
  <1>2. IInv /\ SInv /\ [Next]_vars => (IInv /\ SInv)'
    BY InvNext, KeptNext
  <1>3. IInv /\ SInv => ShownIsStored
    BY KeptShows
  <1>4. QED
    BY <1>1, <1>2, <1>3, PTL DEF Spec

===============================================================================
