----------------------------- MODULE ActivityChain -----------------------------
(***************************************************************************)
(* The audit log of one owner: a chain of sealed events.                    *)
(*                                                                         *)
(* Every event carries the hash of the one before it, and a row per chain   *)
(* (activity_integrity_chain) keeps the hash of the last event and the      *)
(* anchor from which the first remaining one continues.  Appending locks    *)
(* that row (JdbcActivityEventRepository), and so does the retention        *)
(* cleanup that removes old events (RetentionPolicyController.cleanup with   *)
(* ActivityIntegrityPruner).  The verifier (ActivityIntegrityVerifier)      *)
(* takes no lock: it reads the row, then the events.                        *)
(*                                                                         *)
(* The HMAC of an event is modelled as what it authenticates: the sequence  *)
(* of events up to it, so two hashes agree exactly when their histories do. *)
(***************************************************************************)
EXTENDS Integers, Sequences, FiniteSetsExt

CONSTANTS
    Writers,    \* calls of ActivityService.record, one event each
    Cleaners,   \* retention cleanups; each records an event of its own
    Verifiers,  \* calls of the integrity endpoint
    Window,     \* the owner's activity retention policy
    MaxClock,   \* bound on the clock
    None

ASSUME BoundsAssumption == Window \in Nat \ {0} /\ MaxClock \in Nat
ASSUME ActorsAssumption ==
    /\ Writers \intersect Cleaners = {}
    /\ None \notin Writers \union Cleaners \union Verifiers

VARIABLES
    chain,     \* the committed sealed events, by integrity_sequence
    sequence,  \* the last integrity_sequence given out
    head,      \* the committed activity_integrity_chain row
    lock,      \* the transaction that holds the row lock
    pc, at,    \* writers and cleaners: progress, and the time each took from the clock
    previous,  \* last_hash as a writer read it
    vpc, seen, alarm, \* verifiers: progress, head as read, reported issues?
    disturbed, \* history: something committed between a verifier's two reads
    clock

log == <<chain, sequence, head>>
verifiers == <<vpc, seen, alarm, disturbed>>
vars == <<log, lock, pc, at, previous, verifiers, clock>>

Actors == Writers \union Cleaners
NoHash == <<>>
Events == [id : Actors, at : 0..MaxClock, prev : Seq(Actors)]

\* eventHash: everything the event authenticates.
Hash(e) == Append(e.prev, e.id)

NoHead == [exists |-> FALSE, lastHash |-> NoHash, anchor |-> NoHash]

HeadTypes == [exists : BOOLEAN, lastHash : Seq(Actors), anchor : Seq(Actors)]

TypeOK ==
    /\ sequence \in Nat /\ DOMAIN chain \subseteq 1..sequence
    /\ chain \in [DOMAIN chain -> Events]
    /\ head \in HeadTypes
    /\ lock \in Actors \union {None}
    /\ pc \in [Actors -> {"idle", "begun", "locked", "headless", "done", "aborted", "refused"}]
    /\ at \in [Actors -> 0..MaxClock]
    /\ previous \in [Actors -> Seq(Actors)]
    /\ vpc \in [Verifiers -> {"idle", "read", "done"}]
    /\ seen \in [Verifiers -> HeadTypes]
    /\ alarm \in [Verifiers -> BOOLEAN]
    /\ disturbed \in [Verifiers -> BOOLEAN]
    /\ clock \in 0..MaxClock

Init ==
    /\ chain = <<>> /\ sequence = 0
    /\ head = NoHead
    /\ lock = None
    /\ pc = [a \in Actors |-> "idle"]
    /\ at = [a \in Actors |-> 0]
    /\ previous = [a \in Actors |-> NoHash]
    /\ vpc = [v \in Verifiers |-> "idle"]
    /\ seen = [v \in Verifiers |-> NoHead]
    /\ alarm = [v \in Verifiers |-> FALSE]
    /\ disturbed = [v \in Verifiers |-> FALSE]
    /\ clock = 0

Goes(a, to) == pc' = [pc EXCEPT ![a] = to]

\* A commit others can see.
Disturb == disturbed' = [v \in Verifiers |-> disturbed[v] \/ vpc[v] = "read"]

\* The clock is read before any lock is taken: occurredAt, or the cleanup's now.
Begin(a) ==
    /\ pc[a] = "idle"
    /\ Goes(a, "begun")
    /\ at' = [at EXCEPT ![a] = clock]
    /\ UNCHANGED <<log, lock, previous, verifiers, clock>>

-------------------------------------------------------------------------------
(* JdbcActivityEventRepository.append.                                      *)

\* Altered variants of the code stand before the definition they alter; no
\* specification uses them.
LockHeadWithoutWaiting(w) ==
    /\ pc[w] = "begun"
    /\ Goes(w, "locked")
    /\ previous' = [previous EXCEPT ![w] = head.lastHash]
    /\ UNCHANGED <<log, lock, at, verifiers, clock>>

\* INSERT ... ON CONFLICT DO NOTHING, then SELECT last_hash ... FOR UPDATE.
LockHead(w) ==
    /\ pc[w] = "begun"
    /\ lock = None
    /\ lock' = w
    /\ Goes(w, "locked")
    /\ previous' = [previous EXCEPT ![w] = head.lastHash]
    /\ UNCHANGED <<log, at, verifiers, clock>>

SealedUntilExpiry(a, time, prev) == [id |-> a, at |-> time + Window, prev |-> prev]

Sealed(a, time, prev) == [id |-> a, at |-> time, prev |-> prev]

\* INSERT INTO activity_event after DELETE left the rows of `kept`: the identity
\* column numbers the new row. (Numbers that other chains and rolled back inserts
\* take are not counted: nothing looks at the distance of two numbers.)
Insert(kept, e) ==
    /\ sequence' = sequence + 1
    /\ chain' = [i \in kept \union {sequence + 1} |->
                    IF i = sequence + 1 THEN e ELSE chain[i]]

\* The event and the new head become visible together.
CommitAppend(w) ==
    /\ pc[w] = "locked"
    /\ LET e == Sealed(w, at[w], previous[w]) IN
       /\ Insert(DOMAIN chain, e)
       /\ head' = [exists |-> TRUE, lastHash |-> Hash(e), anchor |-> head.anchor]
    /\ lock' = None
    /\ Goes(w, "done")
    /\ Disturb
    /\ UNCHANGED <<at, previous, vpc, seen, alarm, clock>>

\* The transaction around the append rolls back, or Core dies.
Abort(a) ==
    /\ pc[a] \in {"begun", "locked", "headless"}
    /\ lock' = IF lock = a THEN None ELSE lock
    /\ Goes(a, "aborted")
    /\ UNCHANGED <<log, at, previous, verifiers, clock>>

-------------------------------------------------------------------------------
(* RetentionPolicyController.cleanup and ActivityIntegrityPruner.           *)

LockForCleanup(c) ==
    /\ pc[c] = "begun"
    /\ head.exists
    /\ lock = None
    /\ lock' = c
    /\ Goes(c, "locked")
    /\ UNCHANGED <<log, at, previous, verifiers, clock>>

\* authorizeOwnerPrefix returns early when the chain has no row yet.
FindNoHead(c) ==
    /\ pc[c] = "begun"
    /\ ~head.exists
    /\ Goes(c, "headless")
    /\ UNCHANGED <<log, lock, at, previous, verifiers, clock>>

ExpiredAtOnce(e, now) == e.at < now

Expired(e, now) == e.at + Window < now

Old(c) == {i \in DOMAIN chain : Expired(chain[i], at[c])}

Kept(c) == DOMAIN chain \ Old(c)

\* Only a prefix of the chain may go.
IsPrefix(c) == \A i \in Old(c), j \in Kept(c) : i < j

\* previous_hash of the first event that stays, or the head's when none does.
Anchor(c) ==
    IF Old(c) = {} THEN head.anchor
    ELSE IF Kept(c) = {} THEN head.lastHash
    ELSE chain[Min(Kept(c))].prev

\* Authorise the prefix, delete it, and record "retention.cleanup.executed", all
\* in the transaction that holds the lock.
CommitCleanup(c) ==
    /\ pc[c] = "locked"
    /\ IsPrefix(c)
    /\ LET e == Sealed(c, clock, head.lastHash) IN
       /\ Insert(Kept(c), e)
       /\ head' = [exists |-> TRUE, lastHash |-> Hash(e), anchor |-> Anchor(c)]
    /\ lock' = None
    /\ Goes(c, "done")
    /\ Disturb
    /\ UNCHANGED <<at, previous, vpc, seen, alarm, clock>>

\* ActivityIntegrityPruningException: everything is rolled back.
RefuseCleanup(c) ==
    /\ pc[c] = "locked"
    /\ ~IsPrefix(c)
    /\ lock' = None
    /\ Goes(c, "refused")
    /\ UNCHANGED <<log, at, previous, verifiers, clock>>

\* There was no chain to prune: the DELETE runs all the same, and the append of
\* the cleanup's own event takes the lock.
CommitHeadless(c) ==
    /\ pc[c] = "headless"
    /\ lock = None
    /\ LET e == Sealed(c, clock, head.lastHash) IN
       /\ Insert(Kept(c), e)
       /\ head' = [exists |-> TRUE, lastHash |-> Hash(e), anchor |-> head.anchor]
    /\ Goes(c, "done")
    /\ Disturb
    /\ UNCHANGED <<lock, at, previous, vpc, seen, alarm, clock>>

-------------------------------------------------------------------------------
(* ActivityIntegrityVerifier.verify.                                        *)

ReadHead(v) ==
    /\ vpc[v] = "idle"
    /\ seen' = [seen EXCEPT ![v] = head]
    /\ vpc' = [vpc EXCEPT ![v] = "read"]
    /\ UNCHANGED <<log, lock, pc, at, previous, alarm, disturbed, clock>>

\* expectedPrevious when the verifier has gone through the events numbered below n.
Expected(h, c, n) ==
    LET passed == {i \in DOMAIN c : i < n}
    IN  IF passed = {} THEN h.anchor ELSE Hash(c[Max(passed)])

VerifiesFromTheStart(h, c) ==
    \A i \in DOMAIN c : c[i].prev = Expected([h EXCEPT !.anchor = NoHash], c, i)

\* No LINK_INVALID, HEAD_INVALID or HEAD_MISSING.
Verifies(h, c) ==
    /\ ~h.exists => DOMAIN c = {}
    /\ h.exists =>
          /\ \A i \in DOMAIN c : c[i].prev = Expected(h, c, i)
          /\ h.lastHash = Expected(h, c, sequence + 1)

ReadEvents(v) ==
    /\ vpc[v] = "read"
    /\ alarm' = [alarm EXCEPT ![v] = ~Verifies(seen[v], chain)]
    /\ vpc' = [vpc EXCEPT ![v] = "done"]
    /\ UNCHANGED <<log, lock, pc, at, previous, seen, disturbed, clock>>

-------------------------------------------------------------------------------
\* A write takes less than the retention policy, whose shortest is 30 days.
Tick ==
    /\ clock < MaxClock
    /\ \A a \in Actors : pc[a] \in {"begun", "locked", "headless"} => clock < at[a] + Window
    /\ clock' = clock + 1
    /\ UNCHANGED <<log, lock, pc, at, previous, verifiers>>

Write(w) == LockHead(w) \/ CommitAppend(w)

Clean(c) ==
    LockForCleanup(c) \/ FindNoHead(c) \/ CommitCleanup(c) \/ RefuseCleanup(c)
    \/ CommitHeadless(c)

Next ==
    \/ \E a \in Actors : Begin(a) \/ Abort(a)
    \/ \E w \in Writers : Write(w)
    \/ \E c \in Cleaners : Clean(c)
    \/ \E v \in Verifiers : ReadHead(v) \/ ReadEvents(v)
    \/ Tick

Spec == Init /\ [][Next]_vars

-------------------------------------------------------------------------------
(* Safety.                                                                  *)

\* Concurrent writers never fork the chain and no authorised cleanup breaks it:
\* whatever is committed verifies.
ChainVerifies == Verifies(head, chain)

\* A recorded event is in the log for as long as its retention window lasts.
RecordedEventsStay ==
    \A w \in Writers : pc[w] = "done" /\ at[w] + Window >= clock =>
        \E i \in DOMAIN chain : chain[i].id = w /\ chain[i].at = at[w]

\* The verifier raises an alarm only if something was committed between its two
\* reads.
QuietVerificationIsRight ==
    \A v \in Verifiers : alarm[v] => disturbed[v]

\* The verifier "compares the result with the locked chain head": nobody tampers
\* with the log in this model, so it never raises an alarm.
NoFalseAlarm == \A v \in Verifiers : ~alarm[v]

===============================================================================
