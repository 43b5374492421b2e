------------------------- MODULE ActivityChain_proofs -------------------------
(***************************************************************************)
(* Theorems about ActivityChain for any number of writers, cleanups and     *)
(* verifiers, any retention window and any bound on the clock.              *)
(***************************************************************************)
EXTENDS ActivityChain, WellFoundedInduction, TLAPS

\* Between its reading of the clock and its end.
InProgress(a) == pc[a] \in {"begun", "locked", "headless"}

\* Whoever works behind the row lock holds it, and knows the row.
LockInv ==
    /\ \A a \in Actors : pc[a] = "locked" => lock = a
    /\ \A w \in Writers : pc[w] = "locked" => previous[w] = head.lastHash
    /\ \A w \in Writers : pc[w] # "headless"
    /\ \A c \in Cleaners : pc[c] = "locked" => head.exists

\* No operation outlasts the window, so a cleanup that found no chain finds
\* nothing to delete in the one that was started meanwhile.
TimeInv ==
    /\ \A a \in Actors : at[a] <= clock
    /\ \A a \in Actors : InProgress(a) => clock <= at[a] + Window
    /\ \A c \in Cleaners : pc[c] = "headless" =>
          \A i \in DOMAIN chain : ~Expired(chain[i], at[c])

\* What is left of the log are its last events.
Suffix == \A i \in DOMAIN chain : i..sequence \subseteq DOMAIN chain

\* The chain before its first event.
HeadInv == ~head.exists => head = NoHead

\* A verifier nobody disturbed compares with the row as it is.
VerifierInv ==
    \A v \in Verifiers :
        /\ vpc[v] = "read" /\ ~disturbed[v] => seen[v] = head
        /\ alarm[v] => disturbed[v]

IInv ==
    /\ TypeOK /\ LockInv /\ TimeInv /\ Suffix /\ HeadInv /\ VerifierInv
    /\ ChainVerifies /\ RecordedEventsStay

-------------------------------------------------------------------------------
USE BoundsAssumption, ActorsAssumption

\* The greatest and the least of a set of numbers that has them.
LEMMA MaxIs ==
  ASSUME NEW S \in SUBSET Int, NEW m \in S, \A x \in S : x <= m
  PROVE  Max(S) = m
  <1>1. \A y \in S : m >= y
    OBVIOUS
  <1>2. Max(S) \in S /\ \A y \in S : Max(S) >= y
    BY <1>1, Zenon DEF Max
  <1>3. \A k \in S : (\A y \in S : k >= y) => k = m
    OBVIOUS
  <1>4. QED
    BY <1>2, <1>3, Zenon

LEMMA MinIs ==
  ASSUME NEW S \in SUBSET Int, NEW m \in S, \A x \in S : m <= x
  PROVE  Min(S) = m
  <1>1. \A y \in S : m <= y
    OBVIOUS
  <1>2. Min(S) \in S /\ \A y \in S : Min(S) <= y
    BY <1>1, Zenon DEF Min
  <1>3. \A k \in S : (\A y \in S : k <= y) => k = m
    OBVIOUS
  <1>4. QED
    BY <1>2, <1>3, Zenon

\* What the verifier expects at n is the hash of the event numbered n - 1, if
\* there is one, and the anchor if no event is numbered below n.
LEMMA ExpectedIs ==
  ASSUME NEW h, NEW c, NEW n \in Nat, DOMAIN c \subseteq Nat
  PROVE  /\ n - 1 \in DOMAIN c => Expected(h, c, n) = Hash(c[n - 1])
         /\ (\A i \in DOMAIN c : i >= n) => Expected(h, c, n) = h.anchor
  <1> DEFINE passed == {i \in DOMAIN c : i < n}
  <1>1. ASSUME n - 1 \in DOMAIN c
        PROVE  Expected(h, c, n) = Hash(c[n - 1])
    <2>1. passed \in SUBSET Int /\ n - 1 \in passed /\ \A x \in passed : x <= n - 1
      BY <1>1
    <2>2. Max(passed) = n - 1
      BY <2>1, MaxIs
    <2>3. QED
      BY <2>1, <2>2 DEF Expected
  <1>2. ASSUME \A i \in DOMAIN c : i >= n
        PROVE  Expected(h, c, n) = h.anchor
    <2>1. passed = {}
      BY <1>2
    <2>2. QED
      BY <2>1 DEF Expected
  <1>3. QED
    BY <1>1, <1>2

\* The log links up: what the verifier checks of a chain that has a row, and
\* also true of the one that has none.
Linked ==
    /\ \A i \in DOMAIN chain : chain[i].prev = Expected(head, chain, i)
    /\ head.lastHash = Expected(head, chain, sequence + 1)

LEMMA VerifiesMeansLinked ==
  ASSUME TypeOK, HeadInv, ChainVerifies
  PROVE  Linked
  <1>1. CASE head.exists
    BY <1>1 DEF ChainVerifies, Verifies, Linked
  <1>2. CASE ~head.exists
    <2>1. DOMAIN chain = {} /\ head = NoHead
      BY <1>2 DEF ChainVerifies, Verifies, HeadInv
    <2>2. Expected(head, chain, sequence + 1) = head.anchor
      <3>1. sequence + 1 \in Nat
        BY DEF TypeOK
      <3>2. QED
        BY <2>1, <3>1, ExpectedIs
    <2>3. QED
      BY <2>1, <2>2 DEF Linked, NoHead
  <1>3. QED
    BY <1>1, <1>2

\* What the cleanup writes as the anchor when the rows K stay.
AnchorFor(K) ==
    IF K = DOMAIN chain THEN head.anchor
    ELSE IF K = {} THEN head.lastHash ELSE chain[Min(K)].prev

\* Deleting a prefix, moving the anchor to what stays and appending an event that
\* continues the chain gives a log that verifies and is a suffix again.
LEMMA InsertKeepsChain ==
  ASSUME TypeOK, Suffix, Linked, NEW K \in SUBSET (DOMAIN chain),
         \A i \in (DOMAIN chain) \ K, j \in K : i < j,
         NEW e, e.prev = head.lastHash, Insert(K, e),
         head'.exists, head'.lastHash = Hash(e), head'.anchor = AnchorFor(K)
  PROVE  ChainVerifies' /\ Suffix'
  <1> DEFINE n == sequence + 1
  <1>1. /\ n \in Nat /\ sequence' = n /\ sequence \in Nat
        /\ DOMAIN chain \subseteq 1..sequence
        /\ DOMAIN chain' = K \union {n} /\ DOMAIN chain' \subseteq 1..n
        /\ chain'[n] = e
        /\ \A i \in K : i \in 1..sequence /\ chain'[i] = chain[i]
    BY DEF TypeOK, Insert
  <1>2. \A i \in K : i..sequence \subseteq K
    BY <1>1 DEF Suffix
  <1>3. Suffix'
    BY <1>1, <1>2 DEF Suffix
  <1>4. ASSUME NEW i \in K
        PROVE  chain'[i].prev = Expected(head', chain', i)
    <2>1. i \in Nat /\ chain[i].prev = Expected(head, chain, i)
      BY <1>1 DEF Linked
    <2>2. CASE i - 1 \in K
      <3>1. Expected(head, chain, i) = Hash(chain[i - 1])
        BY <1>1, <2>1, <2>2, ExpectedIs
      <3>2. Expected(head', chain', i) = Hash(chain'[i - 1])
        BY <1>1, <2>1, <2>2, ExpectedIs
      <3>3. QED
        BY <1>1, <2>1, <2>2, <3>1, <3>2
    <2>3. CASE i - 1 \notin K
      <3>1. \A j \in K : i <= j
        <4>1. ASSUME NEW j \in K, j < i
              PROVE  FALSE
          BY <1>1, <1>2, <2>3, <4>1
        <4>2. QED
          BY <1>1, <2>1, <4>1
      <3>2. Expected(head', chain', i) = AnchorFor(K)
        <4>1. \A j \in DOMAIN chain' : j >= i
          BY <1>1, <3>1
        <4>2. DOMAIN chain' \subseteq Nat
          BY <1>1
        <4>3. QED
          BY <2>1, <4>1, <4>2, ExpectedIs
      <3>3. CASE K = DOMAIN chain
        <4>1. Expected(head, chain, i) = head.anchor
          BY <1>1, <2>1, <3>1, <3>3, ExpectedIs
        <4>2. QED
          BY <1>1, <2>1, <3>2, <3>3, <4>1 DEF AnchorFor
      <3>4. CASE K # DOMAIN chain
        <4>1. Min(K) = i
          BY <1>1, <3>1, MinIs
        <4>2. QED
          BY <1>1, <3>2, <3>4, <4>1 DEF AnchorFor
      <3>5. QED
        BY <3>3, <3>4
    <2>4. QED
      BY <2>2, <2>3
  <1>5. chain'[n].prev = Expected(head', chain', n)
    <2>1. chain'[n].prev = Expected(head, chain, n)
      BY <1>1 DEF Linked
    <2>2. CASE K = {}
      <3>1. Expected(head', chain', n) = AnchorFor(K)
        BY <1>1, <2>2, ExpectedIs
      <3>2. CASE DOMAIN chain = {}
        <4>1. Expected(head, chain, n) = head.anchor
          BY <1>1, <3>2, ExpectedIs
        <4>2. QED
          BY <2>1, <2>2, <3>1, <3>2, <4>1 DEF AnchorFor
      <3>3. CASE DOMAIN chain # {}
        BY <1>1, <2>2, <3>1, <3>3 DEF AnchorFor
      <3>4. QED
        BY <3>2, <3>3
    <2>3. CASE K # {}
      <3>1. n - 1 = sequence /\ sequence \in K
        BY <1>1, <1>2, <2>3
      <3>2. Expected(head, chain, n) = Hash(chain[n - 1])
        BY <1>1, <3>1, ExpectedIs
      <3>3. Expected(head', chain', n) = Hash(chain'[n - 1])
        BY <1>1, <3>1, ExpectedIs
      <3>4. QED
        BY <1>1, <2>1, <3>1, <3>2, <3>3
    <2>4. QED
      BY <2>2, <2>3
  <1>6. head'.lastHash = Expected(head', chain', sequence' + 1)
    <2>1. n + 1 \in Nat /\ (n + 1) - 1 = n /\ sequence' + 1 = n + 1
      BY <1>1
    <2>2. Expected(head', chain', sequence' + 1) = Hash(chain'[n])
      <3>1. DOMAIN chain' \subseteq Nat /\ n \in DOMAIN chain'
        BY <1>1
      <3>2. Expected(head', chain', n + 1) = Hash(chain'[(n + 1) - 1])
        BY <2>1, <3>1, ExpectedIs
      <3>3. QED
        BY <2>1, <3>2
    <2>3. QED
      BY <1>1, <2>2
  <1>7. QED
    BY <1>1, <1>3, <1>4, <1>5, <1>6 DEF ChainVerifies, Verifies

-------------------------------------------------------------------------------
\* The initial state satisfies the invariant.
LEMMA InvInit == Init => IInv
  <1> SUFFICES ASSUME Init PROVE IInv
    OBVIOUS
  <1>1. TypeOK /\ DOMAIN chain = {}
    BY DEF Init, TypeOK, HeadTypes, NoHead, NoHash, Actors
  <1>2. LockInv /\ TimeInv /\ HeadInv /\ VerifierInv
    BY <1>1 DEF Init, LockInv, TimeInv, InProgress, HeadInv, VerifierInv, Actors
  <1>3. Suffix /\ ChainVerifies /\ RecordedEventsStay
    BY <1>1 DEF Init, Suffix, ChainVerifies, Verifies, NoHead, RecordedEventsStay, Actors
  <1>4. QED
    BY <1>1, <1>2, <1>3 DEF IInv

\* A set of numbers has a least one.
LEMMA LeastExists ==
  ASSUME NEW S \in SUBSET Nat, S # {}
  PROVE  \E m \in S : \A x \in S : m <= x
  <1> DEFINE R == {p \in Nat \X Nat : p[1] < p[2]}
  <1>0. IsWellFoundedOn(R, Nat)
    BY NatLessThanWellFounded, Zenon DEF OpToRel
  <1> HIDE DEF R
  <1>1. \E m \in S : \A x \in S : ~ (<<x, m>> \in R)
    BY <1>0, WFMin
  <1>2. \A x, m \in S : <<x, m>> \notin R => m <= x
    BY DEF R
  <1>3. QED
    BY <1>1, <1>2

\* The anchor is one of the hashes at hand.
LEMMA AnchorType ==
  ASSUME TypeOK, NEW K \in SUBSET (DOMAIN chain)
  PROVE  AnchorFor(K) \in Seq(Actors)
  <1>1. head.anchor \in Seq(Actors) /\ head.lastHash \in Seq(Actors)
    BY DEF TypeOK, HeadTypes
  <1>2. ASSUME K # {} PROVE chain[Min(K)].prev \in Seq(Actors)
    <2>1. K \in SUBSET Nat /\ \A i \in K : chain[i] \in Events
      BY DEF TypeOK
    <2>2. PICK m \in K : \A x \in K : m <= x
      BY <1>2, <2>1, LeastExists
    <2>3. Min(K) = m
      BY <2>1, <2>2, MinIs
    <2>4. QED
      BY <2>1, <2>3 DEF Events
  <1>3. QED
    BY <1>1, <1>2 DEF AnchorFor

\* A sealed event has its type, and so do its hash and the table it goes into.
LEMMA SealedType ==
  ASSUME NEW a \in Actors, NEW t \in 0..MaxClock, NEW h \in Seq(Actors)
  PROVE  /\ Sealed(a, t, h) \in Events
         /\ Sealed(a, t, h).id = a /\ Sealed(a, t, h).at = t /\ Sealed(a, t, h).prev = h
  BY DEF Sealed, Events

LEMMA InsertTypes ==
  ASSUME TypeOK, NEW K \in SUBSET (DOMAIN chain), NEW e \in Events, Insert(K, e)
  PROVE  /\ sequence' \in Nat /\ DOMAIN chain' \subseteq 1..sequence'
         /\ chain' \in [DOMAIN chain' -> Events]
         /\ Hash(e) \in Seq(Actors)
  <1>1. /\ sequence \in Nat /\ DOMAIN chain \subseteq 1..sequence
        /\ \A i \in DOMAIN chain : chain[i] \in Events
    BY DEF TypeOK
  <1>2. /\ sequence' = sequence + 1
        /\ DOMAIN chain' = K \union {sequence + 1}
        /\ \A i \in DOMAIN chain' : chain'[i] \in Events
    BY <1>1 DEF Insert
  <1>3. chain' \in [DOMAIN chain' -> Events]
    BY <1>2 DEF Insert
  <1>4. Hash(e) \in Seq(Actors)
    BY DEF Hash, Events
  <1>5. QED
    BY <1>1, <1>2, <1>3, <1>4


-------------------------------------------------------------------------------
\* Steps that leave the log and the row alone.

LEMMA LogFrame ==
  ASSUME Suffix, HeadInv, ChainVerifies,
         chain' = chain, sequence' = sequence, head' = head
  PROVE  Suffix' /\ HeadInv' /\ ChainVerifies'
  BY DEF Suffix, HeadInv, NoHead, NoHash, ChainVerifies, Verifies, Expected, Hash

\* One actor moves to another stage.
LEMMA GoesEffect ==
  ASSUME TypeOK, NEW a \in Actors, NEW to, Goes(a, to)
  PROVE  \A b \in Actors : pc'[b] = IF b = a THEN to ELSE pc[b]
  BY DEF TypeOK, Goes

LEMMA BeginStep ==
  ASSUME IInv, NEW a \in Actors, Begin(a)
  PROVE  IInv'
  <1> USE DEF Begin
  <1>1. Suffix' /\ HeadInv' /\ ChainVerifies'
    BY LogFrame DEF IInv, log
  <1>2. TypeOK'
    BY DEF IInv, TypeOK, Goes, log, verifiers
  <1>3. \A b \in Actors : pc'[b] = IF b = a THEN "begun" ELSE pc[b]
    BY GoesEffect DEF IInv
  <1>4. \A b \in Actors : at'[b] = IF b = a THEN clock ELSE at[b]
    BY DEF IInv, TypeOK
  <1>5. clock \in Nat /\ at \in [Actors -> Nat]
    BY DEF IInv, TypeOK
  <1>6. LockInv'
    BY <1>3 DEF IInv, LockInv, Actors, log
  <1>7. TimeInv'
    <2>1. \A b \in Actors : at'[b] <= clock'
      BY <1>4, <1>5 DEF IInv, TimeInv
    <2>2. \A b \in Actors : InProgress(b)' => clock' <= at'[b] + Window
      BY <1>3, <1>4, <1>5 DEF IInv, TimeInv, InProgress
    <2>3. \A c \in Cleaners : pc'[c] = "headless" =>
              \A i \in DOMAIN chain' : ~Expired(chain[i], at[c])'
      BY <1>3, <1>4 DEF IInv, TimeInv, Expired, log, Actors
    <2>4. QED
      BY <2>1, <2>2, <2>3 DEF TimeInv, Expired
  <1>8. VerifierInv'
    BY DEF IInv, VerifierInv, log, verifiers
  <1>9. RecordedEventsStay'
    BY <1>3, <1>4 DEF IInv, RecordedEventsStay, log, Actors
  <1>10. QED
    BY <1>1, <1>2, <1>6, <1>7, <1>8, <1>9 DEF IInv

\* An actor that only changes its stage, and does not complete, keeps what is said
\* about times and recorded events.
LEMMA StageFrame ==
  ASSUME IInv, NEW a \in Actors, NEW to \in {"locked", "aborted", "refused"},
         Goes(a, to), InProgress(a), chain' = chain, at' = at, clock' = clock
  PROVE  TimeInv' /\ RecordedEventsStay'
  <1>1. \A b \in Actors : pc'[b] = IF b = a THEN to ELSE pc[b]
    BY GoesEffect DEF IInv
  <1>2. TimeInv'
    BY <1>1 DEF IInv, TimeInv, InProgress, Expired, Actors
  <1>3. RecordedEventsStay'
    BY <1>1 DEF IInv, RecordedEventsStay, Actors
  <1>4. QED
    BY <1>2, <1>3

LEMMA LockHeadStep ==
  ASSUME IInv, NEW w \in Writers, LockHead(w)
  PROVE  IInv'
  <1> USE DEF LockHead
  <1> w \in Actors
    BY DEF Actors
  <1>1. Suffix' /\ HeadInv' /\ ChainVerifies'
    BY LogFrame DEF IInv, log
  <1>2. TypeOK'
    BY DEF IInv, TypeOK, Goes, HeadTypes, log, verifiers
  <1>3. TimeInv' /\ RecordedEventsStay'
    BY StageFrame DEF InProgress, log
  <1>4. LockInv'
    <2>1. \A b \in Actors : pc'[b] = IF b = w THEN "locked" ELSE pc[b]
      BY GoesEffect DEF IInv
    <2>2. \A b \in Actors : previous'[b] = IF b = w THEN head.lastHash ELSE previous[b]
      BY DEF IInv, TypeOK
    <2>3. \A b \in Actors : pc[b] # "locked"
      BY DEF IInv, LockInv, Actors
    <2>4. QED
      BY <2>1, <2>2, <2>3 DEF IInv, LockInv, Actors, log
  <1>5. VerifierInv'
    BY DEF IInv, VerifierInv, log, verifiers
  <1>6. QED
    BY <1>1, <1>2, <1>3, <1>4, <1>5 DEF IInv

LEMMA LockForCleanupStep ==
  ASSUME IInv, NEW c \in Cleaners, LockForCleanup(c)
  PROVE  IInv'
  <1> USE DEF LockForCleanup
  <1> c \in Actors
    BY DEF Actors
  <1>1. Suffix' /\ HeadInv' /\ ChainVerifies'
    BY LogFrame DEF IInv, log
  <1>2. TypeOK'
    BY DEF IInv, TypeOK, Goes, log, verifiers
  <1>3. TimeInv' /\ RecordedEventsStay'
    BY StageFrame DEF InProgress, log
  <1>4. LockInv'
    <2>1. \A b \in Actors : pc'[b] = IF b = c THEN "locked" ELSE pc[b]
      BY GoesEffect DEF IInv
    <2>2. \A b \in Actors : pc[b] # "locked"
      BY DEF IInv, LockInv, Actors
    <2>3. QED
      BY <2>1, <2>2 DEF IInv, LockInv, Actors, log
  <1>5. VerifierInv'
    BY DEF IInv, VerifierInv, log, verifiers
  <1>6. QED
    BY <1>1, <1>2, <1>3, <1>4, <1>5 DEF IInv

\* A transaction that rolls back, whatever holds it, or is refused.
LEMMA AbortStep ==
  ASSUME IInv, NEW a \in Actors, Abort(a) \/ (a \in Cleaners /\ RefuseCleanup(a))
  PROVE  IInv'
  <1>1. /\ InProgress(a) /\ lock' = IF lock = a THEN None ELSE lock
        /\ \E to \in {"aborted", "refused"} : Goes(a, to)
        /\ UNCHANGED <<log, at, previous, verifiers, clock>>
    BY DEF Abort, RefuseCleanup, InProgress, IInv, LockInv
  <1>2. PICK to \in {"aborted", "refused"} : Goes(a, to)
    BY <1>1
  <1>3. Suffix' /\ HeadInv' /\ ChainVerifies'
    BY <1>1, LogFrame DEF IInv, log
  <1>4. TypeOK'
    BY <1>1, <1>2 DEF IInv, TypeOK, Goes, log, verifiers
  <1>5. TimeInv' /\ RecordedEventsStay'
    BY <1>1, <1>2, StageFrame DEF log
  <1>6. LockInv'
    <2>1. \A b \in Actors : pc'[b] = IF b = a THEN to ELSE pc[b]
      BY <1>2, GoesEffect DEF IInv
    <2>2. QED
      BY <1>1, <2>1 DEF IInv, LockInv, Actors, log
  <1>7. VerifierInv'
    BY <1>1 DEF IInv, VerifierInv, log, verifiers
  <1>8. QED
    BY <1>3, <1>4, <1>5, <1>6, <1>7 DEF IInv

LEMMA FindNoHeadStep ==
  ASSUME IInv, NEW c \in Cleaners, FindNoHead(c)
  PROVE  IInv'
  <1> USE DEF FindNoHead
  <1> c \in Actors /\ c \notin Writers
    BY DEF Actors
  <1>1. Suffix' /\ HeadInv' /\ ChainVerifies'
    BY LogFrame DEF IInv, log
  <1>2. TypeOK'
    BY DEF IInv, TypeOK, Goes, log, verifiers
  <1>3. \A b \in Actors : pc'[b] = IF b = c THEN "headless" ELSE pc[b]
    BY GoesEffect DEF IInv
  <1>4. DOMAIN chain = {}
    BY DEF IInv, ChainVerifies, Verifies
  <1>5. TimeInv'
    BY <1>3, <1>4 DEF IInv, TimeInv, InProgress, log
  <1>6. LockInv'
    BY <1>3 DEF IInv, LockInv, Actors, log
  <1>7. VerifierInv'
    BY DEF IInv, VerifierInv, log, verifiers
  <1>8. RecordedEventsStay'
    BY <1>3 DEF IInv, RecordedEventsStay, log, Actors
  <1>9. QED
    BY <1>1, <1>2, <1>5, <1>6, <1>7, <1>8 DEF IInv

LEMMA ReadHeadStep ==
  ASSUME IInv, NEW v \in Verifiers, ReadHead(v)
  PROVE  IInv'
  <1> USE DEF ReadHead
  <1>1. Suffix' /\ HeadInv' /\ ChainVerifies'
    BY LogFrame DEF IInv, log
  <1>2. TypeOK'
    BY DEF IInv, TypeOK, log
  <1>3. TimeInv' /\ LockInv' /\ RecordedEventsStay'
    BY DEF IInv, TimeInv, LockInv, RecordedEventsStay, InProgress, Expired, log, Actors
  <1>4. VerifierInv'
    BY DEF IInv, TypeOK, VerifierInv, log
  <1>5. QED
    BY <1>1, <1>2, <1>3, <1>4 DEF IInv

\* The comparison: a verifier that saw the row as it is finds that the log verifies.
LEMMA ReadEventsStep ==
  ASSUME IInv, NEW v \in Verifiers, ReadEvents(v)
  PROVE  IInv'
  <1> USE DEF ReadEvents
  <1>1. Suffix' /\ HeadInv' /\ ChainVerifies'
    BY LogFrame DEF IInv, log
  <1>2. TypeOK'
    <2>1. (~Verifies(seen[v], chain)) \in BOOLEAN
      OBVIOUS
    <2>2. alarm' \in [Verifiers -> BOOLEAN]
      BY <2>1 DEF IInv, TypeOK
    <2>3. QED
      BY <2>2 DEF IInv, TypeOK, log
  <1>3. TimeInv' /\ LockInv' /\ RecordedEventsStay'
    BY DEF IInv, TimeInv, LockInv, RecordedEventsStay, InProgress, Expired, log, Actors
  <1>4. VerifierInv'
    <2>1. ~disturbed[v] => Verifies(seen[v], chain)
      BY DEF IInv, VerifierInv, ChainVerifies
    <2>2. \A u \in Verifiers :
              alarm'[u] = IF u = v THEN ~Verifies(seen[v], chain) ELSE alarm[u]
      BY DEF IInv, TypeOK
    <2>3. \A u \in Verifiers : vpc'[u] = IF u = v THEN "done" ELSE vpc[u]
      BY DEF IInv, TypeOK
    <2>4. QED
      BY <2>1, <2>2, <2>3 DEF IInv, VerifierInv, log
  <1>5. QED
    BY <1>1, <1>2, <1>3, <1>4 DEF IInv

LEMMA TickStep ==
  ASSUME IInv, Tick
  PROVE  IInv'
  <1> USE DEF Tick
  <1>1. Suffix' /\ HeadInv' /\ ChainVerifies'
    BY LogFrame DEF IInv, log
  <1>2. TypeOK'
    BY DEF IInv, TypeOK, log, verifiers
  <1>3. clock \in Nat /\ clock' = clock + 1 /\ at' = at /\ at \in [Actors -> Nat]
    BY DEF IInv, TypeOK
  <1>4. TimeInv'
    <2>1. \A a \in Actors : at'[a] <= clock'
      BY <1>3 DEF IInv, TimeInv
    <2>2. \A a \in Actors : InProgress(a)' => clock' <= at'[a] + Window
      BY <1>3 DEF InProgress
    <2>3. QED
      BY <2>1, <2>2 DEF IInv, TimeInv, Expired, log
  <1>5. LockInv'
    BY DEF IInv, LockInv, log
  <1>6. VerifierInv'
    BY DEF IInv, VerifierInv, log, verifiers
  <1>7. RecordedEventsStay'
    <2>1. \A w \in Writers : at'[w] + Window >= clock' => at[w] + Window >= clock
      BY <1>3 DEF Actors
    <2>2. QED
      BY <2>1 DEF IInv, RecordedEventsStay, log
  <1>8. QED
    BY <1>1, <1>2, <1>4, <1>5, <1>6, <1>7 DEF IInv

-------------------------------------------------------------------------------
\* Steps that append an event.

\* What the three of them have in common: actor a ends, having deleted the rows
\* outside K, which had expired, and appended an event of the time t, during a.
Appends(a, K, t) ==
    /\ pc[a] \in {"locked", "headless"}
    /\ lock \in {None, a} /\ lock' = None
    /\ \A i \in (DOMAIN chain) \ K : chain[i].at + Window < clock
    /\ \A i \in (DOMAIN chain) \ K, j \in K : i < j
    /\ t <= clock /\ clock <= t + Window
    /\ a \in Writers => t = at[a]
    /\ Insert(K, Sealed(a, t, head.lastHash))
    /\ head' = [exists |-> TRUE, lastHash |-> Hash(Sealed(a, t, head.lastHash)),
                anchor |-> AnchorFor(K)]
    /\ Goes(a, "done")
    /\ Disturb
    /\ UNCHANGED <<at, previous, vpc, seen, alarm, clock>>

LEMMA AppendStep ==
  ASSUME IInv, NEW a \in Actors, NEW K \in SUBSET (DOMAIN chain),
         NEW t \in 0..MaxClock, Appends(a, K, t)
  PROVE  IInv'
  <1> DEFINE e == Sealed(a, t, head.lastHash)
             n == sequence + 1
  <1>1. TypeOK /\ head.lastHash \in Seq(Actors)
    BY DEF IInv, TypeOK, HeadTypes
  <1>2. e \in Events /\ e.id = a /\ e.at = t /\ e.prev = head.lastHash
    BY <1>1, SealedType
  <1>3. /\ Insert(K, e) /\ Goes(a, "done") /\ Disturb
        /\ at' = at /\ previous' = previous /\ clock' = clock
        /\ vpc' = vpc /\ seen' = seen /\ alarm' = alarm
        /\ head'.exists /\ head'.lastHash = Hash(e) /\ head'.anchor = AnchorFor(K)
    BY DEF Appends
  <1> HIDE DEF e
  <1>4. TypeOK'
    <2>1. /\ sequence' \in Nat /\ DOMAIN chain' \subseteq 1..sequence'
          /\ chain' \in [DOMAIN chain' -> Events] /\ Hash(e) \in Seq(Actors)
      BY <1>1, <1>2, <1>3, InsertTypes
    <2>2. head' \in HeadTypes
      <3>1. AnchorFor(K) \in Seq(Actors)
        BY <1>1, AnchorType
      <3>2. head' = [exists |-> TRUE, lastHash |-> Hash(e), anchor |-> AnchorFor(K)]
        BY DEF Appends, e
      <3>3. QED
        BY <2>1, <3>1, <3>2 DEF HeadTypes
    <2>3. disturbed' \in [Verifiers -> BOOLEAN]
      BY <1>1, <1>3 DEF Disturb, TypeOK
    <2>4. lock' \in Actors \union {None}
      BY DEF Appends
    <2>5. pc' \in [Actors -> {"idle", "begun", "locked", "headless", "done",
                              "aborted", "refused"}]
      BY <1>1, <1>3 DEF TypeOK, Goes
    <2>6. QED
      BY <1>1, <1>3, <2>1, <2>2, <2>3, <2>4, <2>5 DEF TypeOK
  <1>5. ChainVerifies' /\ Suffix'
    <2>1. Linked
      BY <1>1, VerifiesMeansLinked DEF IInv
    <2>2. \A i \in (DOMAIN chain) \ K, j \in K : i < j
      BY DEF Appends
    <2>3. QED
      BY <1>1, <1>2, <1>3, <2>1, <2>2, InsertKeepsChain DEF IInv
  <1>6. \A b \in Actors : pc'[b] = IF b = a THEN "done" ELSE pc[b]
    BY <1>1, <1>3, GoesEffect
  <1>7. /\ DOMAIN chain' = K \union {n} /\ chain'[n] = e
        /\ \A i \in K : chain'[i] = chain[i]
    BY <1>1, <1>3 DEF Insert, TypeOK
  <1>8. HeadInv'
    BY <1>3 DEF HeadInv
  <1>9. LockInv'
    <2>1. \A b \in Actors : pc'[b] # "locked"
      BY <1>6 DEF IInv, LockInv, Appends, Actors
    <2>2. QED
      BY <1>6, <2>1 DEF IInv, LockInv, Actors
  <1>10. TimeInv'
    <2>1. \A b \in Actors : at'[b] <= clock'
      BY <1>3 DEF IInv, TimeInv
    <2>2. \A b \in Actors : InProgress(b)' => clock' <= at'[b] + Window
      BY <1>3, <1>6 DEF IInv, TimeInv, InProgress
    <2>3. ASSUME NEW c \in Cleaners, pc'[c] = "headless", NEW i \in DOMAIN chain'
          PROVE  ~Expired(chain'[i], at'[c])
      <3>1. c \in Actors /\ pc[c] = "headless"
        BY <1>6, <2>3 DEF Actors
      <3>2. CASE i \in K
        BY <1>3, <1>7, <2>3, <3>1, <3>2 DEF IInv, TimeInv, Expired
      <3>3. CASE i = n
        <4>1. at[c] <= clock /\ clock <= t + Window /\ at[c] \in Nat /\ clock \in Nat
          BY <3>1 DEF IInv, TimeInv, Appends, TypeOK
        <4>2. chain'[i].at = t
          BY <1>2, <1>7, <3>3
        <4>3. QED
          BY <1>3, <4>1, <4>2 DEF Expired
      <3>4. QED
        BY <1>7, <3>2, <3>3
    <2>4. QED
      BY <2>1, <2>2, <2>3 DEF TimeInv, Expired
  <1>11. VerifierInv'
    <2>1. \A v \in Verifiers : disturbed'[v] = (disturbed[v] \/ vpc[v] = "read")
      BY <1>3 DEF Disturb
    <2>2. QED
      BY <1>1, <1>3, <2>1 DEF IInv, VerifierInv, TypeOK
  <1>12. RecordedEventsStay'
    <2>1. ASSUME NEW w \in Writers, pc'[w] = "done", at'[w] + Window >= clock'
          PROVE  \E i \in DOMAIN chain' : chain'[i].id = w /\ chain'[i].at = at'[w]
      <3>1. w \in Actors
        BY DEF Actors
      <3>2. CASE w = a
        <4>1. e.id = w /\ e.at = at'[w]
          BY <1>2, <1>3, <3>2 DEF Appends
        <4>2. QED
          BY <1>7, <4>1
      <3>3. CASE w # a
        <4>1. pc[w] = "done" /\ at[w] + Window >= clock
          BY <1>3, <1>6, <2>1, <3>1, <3>3
        <4>2. PICK i \in DOMAIN chain : chain[i].id = w /\ chain[i].at = at[w]
          BY <4>1 DEF IInv, RecordedEventsStay
        <4>3. at[w] \in Nat /\ clock \in Nat
          BY <1>1, <3>1 DEF TypeOK
        <4>4. i \in K
          BY <4>1, <4>2, <4>3 DEF Appends
        <4>5. QED
          BY <1>3, <1>7, <4>2, <4>4
      <3>4. QED
        BY <3>2, <3>3
    <2>2. QED
      BY <2>1 DEF RecordedEventsStay
  <1>13. QED
    BY <1>4, <1>5, <1>8, <1>9, <1>10, <1>11, <1>12 DEF IInv

LEMMA CommitAppendStep ==
  ASSUME IInv, NEW w \in Writers, CommitAppend(w)
  PROVE  IInv'
  <1> DEFINE K == DOMAIN chain
  <1>1. w \in Actors /\ TypeOK /\ at[w] \in 0..MaxClock /\ clock \in Nat
    BY DEF IInv, Actors, TypeOK
  <1>2. previous[w] = head.lastHash /\ lock = w
    BY <1>1 DEF CommitAppend, IInv, LockInv
  <1>3. at[w] <= clock /\ clock <= at[w] + Window
    BY <1>1 DEF CommitAppend, IInv, TimeInv, InProgress
  <1>4. head' = [exists |-> TRUE, lastHash |-> Hash(Sealed(w, at[w], head.lastHash)),
                 anchor |-> AnchorFor(K)]
    BY <1>2 DEF CommitAppend, AnchorFor
  <1>5. Appends(w, K, at[w])
    BY <1>1, <1>2, <1>3, <1>4 DEF Appends, CommitAppend
  <1>6. QED
    BY <1>1, <1>5, AppendStep

\* What a cleanup takes away has expired by its clock, and so by everybody's.
LEMMA OldHasExpired ==
  ASSUME IInv, NEW c \in Actors, NEW i \in (DOMAIN chain) \ Kept(c)
  PROVE  chain[i].at + Window < clock
  <1>1. chain[i].at \in Nat /\ at[c] \in Nat /\ clock \in Nat /\ at[c] <= clock
    BY DEF IInv, TypeOK, TimeInv, Events
  <1>2. chain[i].at + Window < at[c]
    BY DEF Kept, Old, Expired
  <1>3. QED
    BY <1>1, <1>2

LEMMA CommitCleanupStep ==
  ASSUME IInv, NEW c \in Cleaners, CommitCleanup(c)
  PROVE  IInv'
  <1> DEFINE K == Kept(c)
  <1>1. c \in Actors /\ c \notin Writers /\ TypeOK /\ clock \in 0..MaxClock
    BY DEF IInv, Actors, TypeOK
  <1>2. lock = c /\ head.exists
    BY <1>1 DEF CommitCleanup, IInv, LockInv
  <1>3. Anchor(c) = AnchorFor(K)
    <2>1. Old(c) = {} <=> K = DOMAIN chain
      BY DEF Kept, Old
    <2>2. QED
      BY <2>1 DEF Anchor, AnchorFor
  <1>4. head' = [exists |-> TRUE, lastHash |-> Hash(Sealed(c, clock, head.lastHash)),
                 anchor |-> AnchorFor(K)]
    BY <1>3 DEF CommitCleanup
  <1>5. \A i \in (DOMAIN chain) \ K, j \in K : i < j
    BY DEF CommitCleanup, IsPrefix, Kept
  <1>6. K \in SUBSET (DOMAIN chain)
    BY DEF Kept
  <1>7. \A i \in (DOMAIN chain) \ K : chain[i].at + Window < clock
    BY <1>1, OldHasExpired
  <1>8. Appends(c, K, clock)
    <2>1. clock <= clock /\ clock <= clock + Window
      BY <1>1
    <2>2. QED
      BY <1>1, <1>2, <1>4, <1>5, <1>7, <2>1 DEF Appends, CommitCleanup
  <1> HIDE DEF K
  <1>9. QED
    BY <1>1, <1>6, <1>8, AppendStep

\* A cleanup that found no chain deletes nothing of the one it now extends.
LEMMA CommitHeadlessStep ==
  ASSUME IInv, NEW c \in Cleaners, CommitHeadless(c)
  PROVE  IInv'
  <1> DEFINE K == DOMAIN chain
  <1>1. c \in Actors /\ c \notin Writers /\ TypeOK /\ clock \in 0..MaxClock
    BY DEF IInv, Actors, TypeOK
  <1>2. Kept(c) = K
    BY DEF CommitHeadless, IInv, TimeInv, Kept, Old
  <1>3. head' = [exists |-> TRUE, lastHash |-> Hash(Sealed(c, clock, head.lastHash)),
                 anchor |-> AnchorFor(K)]
    BY DEF CommitHeadless, AnchorFor
  <1>4. Appends(c, K, clock)
    <2>1. clock <= clock /\ clock <= clock + Window
      BY <1>1
    <2>2. QED
      BY <1>1, <1>2, <1>3, <2>1 DEF Appends, CommitHeadless
  <1>5. QED
    BY <1>1, <1>4, AppendStep

-------------------------------------------------------------------------------
\* Every step keeps the invariant.
LEMMA InvNext == IInv /\ [Next]_vars => IInv'
  <1> SUFFICES ASSUME IInv, [Next]_vars PROVE IInv'
    OBVIOUS
  <1>1. ASSUME NEW a \in Actors, Begin(a) \/ Abort(a) PROVE IInv'
    BY <1>1, BeginStep, AbortStep
  <1>2. ASSUME NEW w \in Writers, Write(w) PROVE IInv'
    BY <1>2, LockHeadStep, CommitAppendStep DEF Write
  <1>3. ASSUME NEW c \in Cleaners, Clean(c) PROVE IInv'
    BY <1>3, LockForCleanupStep, FindNoHeadStep, CommitCleanupStep, AbortStep,
       CommitHeadlessStep DEF Clean, Actors
  <1>4. ASSUME NEW v \in Verifiers, ReadHead(v) \/ ReadEvents(v) PROVE IInv'
    BY <1>4, ReadHeadStep, ReadEventsStep
  <1>5. CASE Tick
    BY <1>5, TickStep
  <1>6. CASE UNCHANGED vars
    <2> USE <1>6 DEF vars, log, verifiers
    <2>1. Suffix' /\ HeadInv' /\ ChainVerifies'
      BY LogFrame DEF IInv
    <2>2. TypeOK' /\ LockInv' /\ VerifierInv'
      BY DEF IInv, TypeOK, LockInv, VerifierInv
    <2>3. TimeInv' /\ RecordedEventsStay'
      BY DEF IInv, TimeInv, InProgress, Expired, RecordedEventsStay
    <2>4. QED
      BY <2>1, <2>2, <2>3 DEF IInv
  <1>7. QED
    BY <1>1, <1>2, <1>3, <1>4, <1>5, <1>6 DEF Next

THEOREM Invariant == Spec => []IInv
  BY InvInit, InvNext, PTL DEF Spec

\* Every variable has its type, for any owner's log.
THEOREM Typing == Spec => []TypeOK
  BY Invariant, PTL DEF IInv

\* However many services record events at the same time and however many cleanups
\* prune the log, what is committed verifies: the row lock keeps writers from
\* forking the chain, and the anchor of a cleanup is what the next link expects.
THEOREM ChainAlwaysVerifies == Spec => []ChainVerifies
  BY Invariant, PTL DEF IInv

\* An event whose record was acknowledged is in the log for as long as the owner's
\* retention policy says, whatever the cleanups do meanwhile.
THEOREM EventsAreRetained == Spec => []RecordedEventsStay
  BY Invariant, PTL DEF IInv

\* A verification during which nothing was committed raises no alarm, although the
\* verifier reads the row and the events without the lock.
THEOREM QuietVerification == Spec => []QuietVerificationIsRight
  <1>1. IInv => QuietVerificationIsRight
    BY DEF IInv, VerifierInv, QuietVerificationIsRight
  <1>2. QED
    BY <1>1, Invariant, PTL

===============================================================================
