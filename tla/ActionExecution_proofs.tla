------------------------ MODULE ActionExecution_proofs ------------------------
(***************************************************************************)
(* Theorems about ActionExecution for any number of requests, keys, devices *)
(* and faults: the invariants of the rows and replies, then the refinement  *)
(* of ActionPromise.                                                        *)
(***************************************************************************)
EXTENDS ActionExecution, FiniteSetTheorems, TLAPS

\* A request is or was at work under its key: it claimed it. Only such a request
\* ever calls an adapter.
Claimed(r) == stage[r] \in Running \union {"failed", "lost"}
Acted(r) == \E t \in Targets : answer[<<r, t>>] # "none"
Owns(r) == Claimed(r) \/ Acted(r)

\* One request owns a key, and what is performed was asked for.
OwnInv ==
    /\ \A r \in Requests : stage[r] = "new" => ~Acted(r)
    /\ \A r \in Requests : Owns(r) => key[r] \in Keys /\ rowStatus[key[r]] # "absent"
    /\ \A r, s \in Requests : Owns(r) /\ Owns(s) /\ key[r] = key[s] => r = s
    /\ \A r \in Requests, t \in Targets :
          performed[<<r, t>>] = 1 => answer[<<r, t>>] # "none"

\* The row of a key carries what its owner was asked, and a reply is the row.
RowInv ==
    /\ \A k \in Keys : rowStatus[k] # "absent" => rowProposal[k] \in Proposals
    /\ \A r \in Requests :
          /\ stage[r] \in Running \union {"replied"} =>
                /\ key[r] \in Keys /\ proposal[r] \in Proposals
                /\ proposal[r] = rowProposal[key[r]]
          /\ stage[r] = "replied" =>
                rowStatus[key[r]] = "completed" /\ outcome[r] = rowOutcome[key[r]]

\* What an outcome claims of a device.
Claims(o, t) == o.results[t] = "succeeded" \/ o.status = "succeeded"

\* What is noted, about to be stored, or stored as done was done.
TruthInv ==
    /\ \A r \in Requests :
          stage[r] = "calling" => current[r] \in Targets
    /\ \A r \in Requests, t \in Targets :
          results[r][t] = "succeeded" => performed[<<r, t>>] = 1
    /\ \A r \in Requests : stage[r] = "recording" =>
          \A t \in TargetsOf[proposal[r]] :
              Claims(outcome[r], t) => performed[<<r, t>>] = 1
    /\ \A k \in Keys : rowStatus[k] = "completed" =>
          \A t \in TargetsOf[rowProposal[k]] :
              Claims(rowOutcome[k], t) =>
                  \E s \in Requests : key[s] = k /\ performed[<<s, t>>] = 1

IInv == TypeOK /\ OwnInv /\ RowInv /\ TruthInv

-------------------------------------------------------------------------------
USE ProposalsAssumption

\* Outcomes have their type.
LEMMA OutcomeType ==
  ASSUME TypeOK, NEW r \in Requests
  PROVE  OutcomeOf(r) \in OutcomeTypes /\ Rejected \in OutcomeTypes
  BY DEF TypeOK, OutcomeOf, Rejected, OutcomeTypes, NoResults, Results

\* Commands are pairs: what changing the entry of one of them does to the others.
LEMMA PairUpdate ==
  ASSUME NEW A, NEW f \in [Requests \X Targets -> A], NEW r \in Requests,
         NEW t \in Targets, NEW v \in A
  PROVE  /\ [f EXCEPT ![<<r, t>>] = v] \in [Requests \X Targets -> A]
         /\ \A s \in Requests, u \in Targets :
               [f EXCEPT ![<<r, t>>] = v][<<s, u>>] =
                   IF s = r /\ u = t THEN v ELSE f[<<s, u>>]
  <1>1. \A s \in Requests, u \in Targets : <<s, u>> \in Requests \X Targets
    OBVIOUS
  <1>2. \A s \in Requests, u \in Targets : <<s, u>> = <<r, t>> <=> s = r /\ u = t
    OBVIOUS
  <1>3. QED
    BY <1>1, <1>2

\* The answer to a command changes to v and nothing else does.
Answered(r, t, v) ==
    /\ Adapter!PromiseTypeOK'
    /\ performed' = performed
    /\ \A s \in Requests, u \in Targets :
          answer'[<<s, u>>] = IF s = r /\ u = t THEN v ELSE answer[<<s, u>>]

\* What the operations of the adapter do, command by command.
LEMMA AnswerEffects ==
  ASSUME TypeOK, NEW r \in Requests, NEW t \in Targets
  PROVE  /\ Adapter!Accept(<<r, t>>) =>
               answer[<<r, t>>] = "none" /\ Answered(r, t, "open")
         /\ Adapter!Refuse(<<r, t>>) =>
               answer[<<r, t>>] = "none" /\ Answered(r, t, "refused")
         /\ Adapter!Confirm(<<r, t>>) =>
               performed[<<r, t>>] = 1 /\ Answered(r, t, "confirmed")
         /\ Adapter!GiveUp({<<r, t>>}) => Answered(r, t, "unconfirmed")
  <1>1. answer \in [Requests \X Targets -> Adapter!Answers]
    BY DEF TypeOK, Adapter!PromiseTypeOK
  <1>2. ASSUME NEW v \in Adapter!Answers,
               answer' = [answer EXCEPT ![<<r, t>>] = v], performed' = performed
        PROVE  Answered(r, t, v)
    BY <1>1, <1>2, PairUpdate DEF Answered, TypeOK, Adapter!PromiseTypeOK
  <1>3. {"open", "refused", "confirmed", "unconfirmed"} \subseteq Adapter!Answers
    BY DEF Adapter!Answers
  <1>4. Adapter!GiveUp({<<r, t>>}) =>
            answer' = [answer EXCEPT ![<<r, t>>] = "unconfirmed"] /\ performed' = performed
    BY <1>1 DEF Adapter!GiveUp
  <1>5. QED
    BY <1>2, <1>3, <1>4 DEF Adapter!Accept, Adapter!Refuse, Adapter!Confirm

LEMMA PerformEffect ==
  ASSUME TypeOK, NEW r \in Requests, NEW t \in Targets, Adapter!Perform(<<r, t>>)
  PROVE  /\ Adapter!PromiseTypeOK'
         /\ answer' = answer /\ answer[<<r, t>>] # "none"
         /\ \A s \in Requests, u \in Targets :
               performed'[<<s, u>>] = IF s = r /\ u = t THEN 1 ELSE performed[<<s, u>>]
  <1>1. performed \in [Requests \X Targets -> {0, 1}]
    BY DEF TypeOK, Adapter!PromiseTypeOK
  <1>2. performed' = [performed EXCEPT ![<<r, t>>] = 1]
    BY DEF Adapter!Perform
  <1>3. /\ performed' \in [Requests \X Targets -> {0, 1}]
        /\ \A s \in Requests, u \in Targets :
              performed'[<<s, u>>] = IF s = r /\ u = t THEN 1 ELSE performed[<<s, u>>]
    BY <1>1, <1>2, PairUpdate
  <1>4. QED
    BY <1>3 DEF Adapter!Perform, Adapter!PromiseTypeOK, TypeOK

LEMMA GiveUpEffect ==
  ASSUME TypeOK, NEW S \in SUBSET (Requests \X Targets), Adapter!GiveUp(S)
  PROVE  /\ Adapter!PromiseTypeOK'
         /\ performed' = performed
         /\ \A s \in Requests, u \in Targets :
               answer'[<<s, u>>] = "none" <=> answer[<<s, u>>] = "none"
  <1>1. answer' = [c \in Requests \X Targets |->
                      IF c \in S THEN "unconfirmed" ELSE answer[c]]
    BY DEF Adapter!GiveUp
  <1>2. answer' \in [Requests \X Targets -> Adapter!Answers]
    BY <1>1 DEF TypeOK, Adapter!PromiseTypeOK, Adapter!Answers
  <1>3. \A c \in Requests \X Targets : answer'[c] = "none" <=> answer[c] = "none"
    BY <1>1 DEF Adapter!GiveUp
  <1>4. \A s \in Requests, u \in Targets : <<s, u>> \in Requests \X Targets
    OBVIOUS
  <1>5. QED
    BY <1>2, <1>3, <1>4 DEF Adapter!GiveUp, Adapter!PromiseTypeOK, TypeOK

\* The initial state satisfies the invariant.
LEMMA InvInit == Init => IInv
  <1> SUFFICES ASSUME Init PROVE IInv
    OBVIOUS
  <1>1. TypeOK
    BY DEF Init, TypeOK, Stages, Running, Ended, NoResults, Results, NoOutcome,
           Adapter!PromiseInit, Adapter!PromiseTypeOK, Adapter!Answers
  <1>2. \A r \in Requests, t \in Targets :
            answer[<<r, t>>] = "none" /\ performed[<<r, t>>] = 0
    <2>1. \A r \in Requests, t \in Targets : <<r, t>> \in Requests \X Targets
      OBVIOUS
    <2>2. QED
      BY <2>1 DEF Init, Adapter!PromiseInit
  <1>3. \A r \in Requests : stage[r] = "new"
    BY DEF Init
  <1>4. OwnInv
    <2>1. \A r \in Requests : ~Acted(r)
      BY <1>2 DEF Acted
    <2>2. \A r \in Requests : ~Claimed(r)
      BY <1>3 DEF Claimed, Running
    <2>3. QED
      BY <1>2, <2>1, <2>2 DEF OwnInv, Owns
  <1>5. RowInv
    BY <1>3 DEF Init, RowInv, Running
  <1>6. TruthInv
    BY <1>3 DEF Init, TruthInv, NoResults
  <1>7. QED
    BY <1>1, <1>4, <1>5, <1>6 DEF IInv

-------------------------------------------------------------------------------
(* Steps of a request that has claimed its key and has not replied.          *)

\* r takes a step that leaves the rows and the other requests alone, and what it has
\* noted or is about to store was performed.
Works(r) ==
    /\ stage[r] \in Running /\ stage'[r] \in Running \union {"failed"}
    /\ UNCHANGED <<rows, request, performed>>
    /\ \A s \in Requests \ {r} :
          /\ stage'[s] = stage[s] /\ outcome'[s] = outcome[s] /\ current'[s] = current[s]
          /\ \A u \in Targets :
                /\ answer'[<<s, u>>] = answer[<<s, u>>]
                /\ results'[s][u] = results[s][u]
    /\ \A u \in Targets :
          /\ answer[<<r, u>>] # "none" => answer'[<<r, u>>] # "none"
          /\ results'[r][u] = "succeeded" => performed[<<r, u>>] = 1
    /\ stage'[r] = "calling" => current'[r] \in Targets
    /\ stage'[r] = "recording" =>
          \A u \in TargetsOf[proposal[r]] :
              Claims(outcome'[r], u) => performed[<<r, u>>] = 1

\* Such a step keeps the invariant.
LEMMA WorksKeeps ==
  ASSUME IInv, NEW r \in Requests, Works(r), TypeOK'
  PROVE  IInv'
  <1> USE DEF IInv
  <1>1. Owns(r)
    BY DEF Works, Owns, Claimed
  <1>2. \A s \in Requests : Owns(s)' => Owns(s)
    <2> SUFFICES ASSUME NEW s \in Requests, Owns(s)' PROVE Owns(s)
      OBVIOUS
    <2>1. CASE s = r
      BY <2>1, <1>1
    <2>2. CASE s # r
      <3>1. stage'[s] = stage[s] /\ \A u \in Targets : answer'[<<s, u>>] = answer[<<s, u>>]
        BY <2>2 DEF Works
      <3>2. QED
        BY <3>1 DEF Owns, Claimed, Acted
    <2>3. QED
      BY <2>1, <2>2
  <1>3. OwnInv'
    <2>1. \A s \in Requests : stage'[s] = "new" => ~Acted(s)'
      <3> SUFFICES ASSUME NEW s \in Requests, stage'[s] = "new" PROVE ~Acted(s)'
        OBVIOUS
      <3>1. s # r
        BY DEF Works, Running
      <3>2. stage[s] = "new" /\ \A u \in Targets : answer'[<<s, u>>] = answer[<<s, u>>]
        BY <3>1 DEF Works
      <3>3. QED
        BY <3>2 DEF OwnInv, Acted
    <2>2. rowStatus' = rowStatus /\ key' = key
      BY DEF Works, rows, request
    <2>3. \A s \in Requests, u \in Targets :
              performed'[<<s, u>>] = 1 => answer'[<<s, u>>] # "none"
      BY DEF Works, OwnInv
    <2>4. \A s \in Requests : Owns(s)' => key'[s] \in Keys /\ rowStatus'[key'[s]] # "absent"
      BY <1>2, <2>2 DEF OwnInv
    <2>5. \A s, q \in Requests : Owns(s)' /\ Owns(q)' /\ key'[s] = key'[q] => s = q
      BY <1>2, <2>2 DEF OwnInv
    <2>6. QED
      BY <2>1, <2>3, <2>4, <2>5 DEF OwnInv
  <1>4. RowInv'
    BY DEF RowInv, Works, rows, request, Running
  <1>5. TruthInv'
    <2>1. \A s \in Requests : stage'[s] = "calling" => current'[s] \in Targets
      BY DEF Works, TruthInv
    <2>2. \A s \in Requests, u \in Targets :
              results'[s][u] = "succeeded" => performed'[<<s, u>>] = 1
      BY DEF Works, TruthInv
    <2>3. \A s \in Requests : stage'[s] = "recording" =>
              \A u \in TargetsOf[proposal'[s]] :
                  Claims(outcome'[s], u) => performed'[<<s, u>>] = 1
      BY DEF Works, TruthInv, request
    <2>4. UNCHANGED <<rowStatus, rowProposal, rowOutcome, key, performed>>
      BY DEF Works, rows, request
    <2>5. QED
      BY <2>1, <2>2, <2>3, <2>4 DEF TruthInv, Claims
  <1>6. QED
    BY <1>3, <1>4, <1>5

\* A request that settles on o stores what was performed.
LEMMA SettleWorks ==
  ASSUME IInv, NEW r \in Requests, NEW o \in OutcomeTypes, Settle(r, o),
         stage[r] \in Running \ {"calling"},
         \A u \in TargetsOf[proposal[r]] : Claims(o, u) => performed[<<r, u>>] = 1,
         UNCHANGED <<rows, request, current, results, catalog, active, adapters, faults>>
  PROVE  TypeOK' /\ Works(r)
  <1> USE DEF IInv
  <1>1. stage' = [stage EXCEPT ![r] = "recording"] /\ outcome' = [outcome EXCEPT ![r] = o]
    BY DEF Settle, Goes
  <1>2. UNCHANGED <<rowStatus, rowProposal, rowOutcome, key, proposal, current, results,
                    catalog, active, answer, performed, auditFailures, crashes>>
    BY DEF rows, request, adapters, faults
  <1>3. TypeOK'
    BY <1>1, <1>2 DEF TypeOK, Stages, Running, Adapter!PromiseTypeOK
  <1>4. Works(r)
    BY <1>1, <1>2 DEF TypeOK, TruthInv, Works, Running, rows, request
  <1>5. QED
    BY <1>3, <1>4

\* A request that goes on or fails without touching anything else works.
LEMMA GoesWorks ==
  ASSUME IInv, NEW r \in Requests, NEW to \in {"resolving", "running", "failed"},
         Goes(r, to), stage[r] \in Running,
         auditFailures' \in 0..MaxAuditFailures,
         UNCHANGED <<rows, request, current, results, outcome, catalog, active, adapters, crashes>>
  PROVE  TypeOK' /\ Works(r)
  <1> USE DEF IInv
  <1>1. stage' = [stage EXCEPT ![r] = to]
    BY DEF Goes
  <1>2. UNCHANGED <<rowStatus, rowProposal, rowOutcome, key, proposal, current, results,
                    outcome, catalog, active, answer, performed, crashes>>
    BY DEF rows, request, adapters
  <1>3. TypeOK'
    BY <1>1, <1>2 DEF TypeOK, Stages, Running, Ended, Adapter!PromiseTypeOK
  <1>4. Works(r)
    BY <1>1, <1>2 DEF TypeOK, TruthInv, Works, Running, rows, request
  <1>5. QED
    BY <1>3, <1>4

\* A rejected outcome claims nothing.
LEMMA RejectedClaimsNothing == \A t \in Targets : ~Claims(Rejected, t)
  BY DEF Claims, Rejected, NoResults

\* What the orchestrator does before and between the calls.
LEMMA OrchestratorWorks ==
  ASSUME IInv, NEW r \in Requests,
         \/ BoundaryRefuses(r) \/ Decide(r) \/ Resolve(r) \/ Finish(r) \/ Note(r) \/ AuditFails(r)
         \/ \E t \in Targets : FindsTargetGone(r, t) \/ FindsArgumentsInvalid(r, t)
  PROVE  TypeOK' /\ Works(r)
  <1> USE DEF IInv
  <1>1. Rejected \in OutcomeTypes /\ OutcomeOf(r) \in OutcomeTypes
    BY OutcomeType
  <1>2. stage[r] \in Running => TargetsOf[proposal[r]] \subseteq Targets
    BY DEF RowInv
  <1>3. stage[r] \in Running =>
            \A u \in TargetsOf[proposal[r]] : Claims(Rejected, u) => performed[<<r, u>>] = 1
    BY <1>2, RejectedClaimsNothing
  <1>4. UNCHANGED faults => auditFailures' \in 0..MaxAuditFailures /\ UNCHANGED crashes
    BY DEF faults, TypeOK
  <1>0. CASE BoundaryRefuses(r)
    BY <1>4, <1>0, GoesWorks DEF BoundaryRefuses, Running
  <1>5. CASE Decide(r)
    BY <1>1, <1>3, <1>4, <1>5, SettleWorks, GoesWorks DEF Decide, Running
  <1>6. CASE Resolve(r)
    BY <1>1, <1>3, <1>4, <1>6, SettleWorks, GoesWorks DEF Resolve, Running
  <1>7. CASE Finish(r)
    <2>1. stage[r] = "running"
      BY <1>7 DEF Finish
    <2>2. ASSUME NEW u \in TargetsOf[proposal[r]], Claims(OutcomeOf(r), u)
          PROVE  results[r][u] = "succeeded"
      <3>1. OutcomeOf(r).results[u] = "succeeded" => results[r][u] = "succeeded"
        BY DEF OutcomeOf
      <3>2. OutcomeOf(r).status = "succeeded" => results[r][u] = "succeeded"
        BY DEF OutcomeOf
      <3>3. QED
        BY <2>2, <3>1, <3>2 DEF Claims
    <2>3. \A u \in TargetsOf[proposal[r]] :
              Claims(OutcomeOf(r), u) => performed[<<r, u>>] = 1
      BY <1>2, <2>1, <2>2 DEF TruthInv, Running
    <2>4. QED
      BY <1>1, <1>7, <2>1, <2>3, SettleWorks DEF Finish, Running
  <1>8. CASE Note(r)
    BY <1>4, <1>8, GoesWorks DEF Note, Running
  <1>9. CASE AuditFails(r)
    <2>1. auditFailures' \in 0..MaxAuditFailures /\ UNCHANGED crashes
      BY <1>9 DEF AuditFails, AuditFailure, TypeOK
    <2>2. QED
      BY <1>9, <2>1, GoesWorks DEF AuditFails, Running
  <1>10. ASSUME NEW t \in Targets, FindsTargetGone(r, t)
         PROVE  TypeOK' /\ Works(r)
    BY <1>1, <1>3, <1>10, SettleWorks DEF FindsTargetGone, Running
  <1>11. ASSUME NEW t \in Targets, FindsArgumentsInvalid(r, t)
         PROVE  TypeOK' /\ Works(r)
    BY <1>4, <1>11, GoesWorks DEF FindsArgumentsInvalid, Running
  <1>12. QED
    BY <1>0, <1>5, <1>6, <1>7, <1>8, <1>9, <1>10, <1>11

\* A call is asked for, or comes back with v, and is noted as what it is.
LEMMA CallWorks ==
  ASSUME IInv, NEW r \in Requests, NEW t \in Targets, NEW v \in Adapter!Answers,
         v # "none", Answered(r, t, v), stage[r] \in {"running", "calling"},
         NEW to \in {"running", "calling", "noting"}, Goes(r, to),
         NEW device \in {t, None}, to = "calling" => device = t,
         \/ current' = [current EXCEPT ![r] = device]
         \/ to # "calling" /\ current' = current,
         NEW result \in Results, result = "succeeded" => performed[<<r, t>>] = 1,
         results' = [results EXCEPT ![r][t] = result] \/ results' = results,
         auditFailures' \in 0..MaxAuditFailures,
         UNCHANGED <<rows, request, outcome, catalog, active, crashes>>
  PROVE  TypeOK' /\ Works(r)
  <1> USE DEF IInv
  <1>1. stage' = [stage EXCEPT ![r] = to] /\ stage' \in [Requests -> Stages]
    BY DEF Goes, TypeOK, Stages, Running
  <1>2. UNCHANGED <<rowStatus, rowProposal, rowOutcome, key, proposal, outcome, catalog, active,
                    performed, crashes>>
    BY DEF rows, request, Answered
  <1>3. /\ results' \in [Requests -> [Targets -> Results]]
        /\ \A s \in Requests, u \in Targets :
              \/ results'[s][u] = results[s][u]
              \/ s = r /\ u = t /\ results'[s][u] = result
    <2>1. CASE results' = [results EXCEPT ![r][t] = result]
      BY <2>1 DEF TypeOK
    <2>2. CASE results' = results
      BY <2>2 DEF TypeOK
    <2>3. QED
      BY <2>1, <2>2
  <1>4. /\ current' \in [Requests -> Targets \union {None}]
        /\ \A s \in Requests \ {r} : current'[s] = current[s]
        /\ to = "calling" => current'[r] = t
    BY DEF TypeOK
  <1>5. TypeOK'
    BY <1>1, <1>2, <1>3, <1>4 DEF TypeOK, Answered
  <1>6. \A s \in Requests \ {r} :
            /\ stage'[s] = stage[s] /\ outcome'[s] = outcome[s] /\ current'[s] = current[s]
            /\ \A u \in Targets :
                  /\ answer'[<<s, u>>] = answer[<<s, u>>]
                  /\ results'[s][u] = results[s][u]
    BY <1>1, <1>2, <1>3, <1>4 DEF Answered, TypeOK
  <1>7. \A u \in Targets :
            /\ answer[<<r, u>>] # "none" => answer'[<<r, u>>] # "none"
            /\ results'[r][u] = "succeeded" => performed[<<r, u>>] = 1
    BY <1>3 DEF Answered, TruthInv
  <1>8. stage[r] \in Running /\ stage'[r] = to
    BY <1>1 DEF Running, TypeOK
  <1>9. UNCHANGED <<rows, request, performed>>
    BY <1>2
  <1>10. stage'[r] \in Running \union {"failed"} /\ stage'[r] # "recording"
    BY <1>8 DEF Running
  <1>11. Works(r)
    BY <1>4, <1>6, <1>7, <1>8, <1>9, <1>10 DEF Works
  <1>12. QED
    BY <1>5, <1>11

\* What DeviceCommandService does with one target.
LEMMA CommandWorks ==
  ASSUME IInv, NEW r \in Requests,
         \/ Confirmed(r) \/ ConfirmedUnrecorded(r)
         \/ \E t \in Targets : Invoke(r, t)
         \/ \E result \in Results : Unconfirmed(r, result)
  PROVE  TypeOK' /\ Works(r)
  <1> USE DEF IInv
  <1>1. UNCHANGED faults => auditFailures' \in 0..MaxAuditFailures /\ UNCHANGED crashes
    BY DEF faults, TypeOK
  <1>2. AuditFailure => auditFailures' \in 0..MaxAuditFailures /\ UNCHANGED crashes
    BY DEF AuditFailure, TypeOK
  <1>3. {"open", "refused", "confirmed", "unconfirmed"} \subseteq Adapter!Answers
    BY DEF Adapter!Answers
  <1>4. {"succeeded", "failed", "unavailable", "none"} \subseteq Results
    BY DEF Results
  <1>5. stage[r] = "calling" => current[r] \in Targets
    BY DEF TruthInv
  <1>6. ASSUME NEW t \in Targets, Invoke(r, t)
        PROVE  TypeOK' /\ Works(r)
    <2>1. /\ stage[r] = "running"
          /\ UNCHANGED <<rows, request, outcome, catalog, active, faults>>
      BY <1>6 DEF Invoke
    <2>2. CASE /\ Adapter!Accept(<<r, t>>) /\ current' = [current EXCEPT ![r] = t]
               /\ Goes(r, "calling") /\ UNCHANGED results
      <3>1. Answered(r, t, "open")
        BY <2>2, AnswerEffects
      <3>2. QED
        BY <1>1, <1>3, <1>4, <2>1, <2>2, <3>1, CallWorks
    <2>3. CASE /\ Adapter!Refuse(<<r, t>>) /\ Goes(r, "noting") /\ UNCHANGED current
               /\ results' = [results EXCEPT ![r][t] = "unavailable"]
      <3>1. Answered(r, t, "refused")
        BY <2>3, AnswerEffects
      <3>2. QED
        BY <1>1, <1>3, <1>4, <2>1, <2>3, <3>1, CallWorks
    <2>4. QED
      BY <1>6, <2>2, <2>3 DEF Invoke
  <1>7. CASE Confirmed(r)
    <2> DEFINE t == current[r]
    <2>1. t \in Targets
      BY <1>5, <1>7 DEF Confirmed
    <2>2. performed[<<r, t>>] = 1 /\ Answered(r, t, "confirmed")
      BY <1>7, <2>1, AnswerEffects DEF Confirmed
    <2>3. QED
      BY <1>1, <1>3, <1>4, <1>7, <2>1, <2>2, CallWorks DEF Confirmed
  <1>8. CASE ConfirmedUnrecorded(r)
    <2> DEFINE t == current[r]
    <2>1. t \in Targets
      BY <1>5, <1>8 DEF ConfirmedUnrecorded
    <2>2. Answered(r, t, "confirmed")
      BY <1>8, <2>1, AnswerEffects DEF ConfirmedUnrecorded
    <2>3. QED
      BY <1>2, <1>3, <1>4, <1>8, <2>1, <2>2, CallWorks DEF ConfirmedUnrecorded
  <1>9. ASSUME NEW result \in Results, Unconfirmed(r, result)
        PROVE  TypeOK' /\ Works(r)
    <2> DEFINE t == current[r]
    <2>1. t \in Targets /\ result # "succeeded"
      BY <1>5, <1>9 DEF Unconfirmed
    <2>2. Answered(r, t, "unconfirmed")
      BY <1>9, <2>1, AnswerEffects DEF Unconfirmed
    <2>3. QED
      BY <1>1, <1>3, <1>4, <1>9, <2>1, <2>2, CallWorks DEF Unconfirmed
  <1>10. QED
    BY <1>6, <1>7, <1>8, <1>9

-------------------------------------------------------------------------------
(* The steps that claim, replay and complete a row, and the environment's.    *)

\* A request that has not claimed or replayed a key has asked nothing of a device.
LEMMA NewRequestsAreIdle ==
  ASSUME IInv, NEW r \in Requests, stage[r] = "new"
  PROVE  /\ ~Owns(r)
         /\ \A t \in Targets : performed[<<r, t>>] = 0
  <1>1. ~Acted(r)
    BY DEF IInv, OwnInv
  <1>2. ~Claimed(r)
    BY DEF Claimed, Running
  <1>3. \A t \in Targets : performed[<<r, t>>] # 1
    BY <1>1 DEF IInv, OwnInv, Acted
  <1>4. \A t \in Targets : <<r, t>> \in Requests \X Targets
    OBVIOUS
  <1>5. performed \in [Requests \X Targets -> {0, 1}]
    BY DEF IInv, TypeOK, Adapter!PromiseTypeOK
  <1>6. \A t \in Targets : performed[<<r, t>>] \in {0, 1}
    BY <1>4, <1>5
  <1>7. QED
    BY <1>1, <1>2, <1>3, <1>6 DEF Owns

\* What was noted, settled or stored before a step is still true after it, if the step
\* takes back no deed, moves none to another key, and notes, settles or stores nothing new.
LEMMA TruthFrame ==
  ASSUME IInv, results' = results,
         \A s \in Requests : stage'[s] = "calling" =>
             stage[s] = "calling" /\ current'[s] = current[s],
         \A s \in Requests : stage'[s] = "recording" =>
             stage[s] = "recording" /\ proposal'[s] = proposal[s] /\ outcome'[s] = outcome[s],
         \A k \in Keys : rowStatus'[k] = "completed" =>
             /\ rowStatus[k] = "completed"
             /\ rowProposal'[k] = rowProposal[k] /\ rowOutcome'[k] = rowOutcome[k],
         \A s \in Requests, u \in Targets : performed[<<s, u>>] = 1 =>
             performed'[<<s, u>>] = 1 /\ key'[s] = key[s]
  PROVE  TruthInv'
  <1>1. \A s \in Requests : stage'[s] = "calling" => current'[s] \in Targets
    BY DEF IInv, TruthInv
  <1>2. \A s \in Requests, u \in Targets :
            results'[s][u] = "succeeded" => performed'[<<s, u>>] = 1
    BY DEF IInv, TruthInv
  <1>3. ASSUME NEW s \in Requests, stage'[s] = "recording",
               NEW u \in TargetsOf[proposal'[s]], Claims(outcome'[s], u)
        PROVE  performed'[<<s, u>>] = 1
    <2>1. stage[s] = "recording" /\ proposal'[s] = proposal[s] /\ outcome'[s] = outcome[s]
      BY <1>3
    <2>2. u \in Targets
      BY <1>3, <2>1 DEF IInv, RowInv, Running
    <2>3. performed[<<s, u>>] = 1
      BY <1>3, <2>1 DEF IInv, TruthInv
    <2>4. QED
      BY <2>2, <2>3
  <1>4. ASSUME NEW k \in Keys, rowStatus'[k] = "completed",
               NEW u \in TargetsOf[rowProposal'[k]], Claims(rowOutcome'[k], u)
        PROVE  \E s \in Requests : key'[s] = k /\ performed'[<<s, u>>] = 1
    <2>1. /\ rowStatus[k] = "completed"
          /\ rowProposal'[k] = rowProposal[k] /\ rowOutcome'[k] = rowOutcome[k]
      BY <1>4
    <2>2. u \in Targets
      BY <1>4, <2>1 DEF IInv, RowInv
    <2>3. PICK s \in Requests : key[s] = k /\ performed[<<s, u>>] = 1
      BY <1>4, <2>1 DEF IInv, TruthInv
    <2>4. QED
      BY <2>2, <2>3
  <1>5. QED
    BY <1>1, <1>2, <1>3, <1>4 DEF TruthInv

\* The request that inserts the row is the only one at work under its key.
LEMMA ClaimKeeps ==
  ASSUME IInv, NEW r \in Requests, NEW k \in Keys, NEW p \in Proposals, Claim(r, k, p)
  PROVE  IInv'
  <1> USE DEF IInv
  <1>1. /\ stage[r] = "new" /\ rowStatus[k] = "absent"
        /\ stage' = [stage EXCEPT ![r] = "claimed"]
        /\ rowStatus' = [rowStatus EXCEPT ![k] = "pending"]
        /\ rowProposal' = [rowProposal EXCEPT ![k] = p]
        /\ key' = [key EXCEPT ![r] = k]
        /\ proposal' = [proposal EXCEPT ![r] = p]
    BY DEF Claim, Goes
  <1>2. UNCHANGED <<rowOutcome, current, results, outcome, catalog, active, answer, performed,
                    auditFailures, crashes>>
    BY DEF Claim, adapters, faults
  <1>3. TypeOK'
    BY <1>1, <1>2 DEF TypeOK, Stages, Running, Adapter!PromiseTypeOK
  <1>4. ~Acted(r) /\ \A s \in Requests : Acted(s)' <=> Acted(s)
    BY <1>1, <1>2, NewRequestsAreIdle DEF Acted, Owns
  <1>5. \A s \in Requests \ {r} :
            stage'[s] = stage[s] /\ key'[s] = key[s] /\ proposal'[s] = proposal[s]
    BY <1>1 DEF TypeOK
  <1>6. stage'[r] = "claimed" /\ key'[r] = k /\ proposal'[r] = p
    BY <1>1 DEF TypeOK
  <1>7. \A s \in Requests \ {r} : Owns(s)' <=> Owns(s)
    BY <1>4, <1>5 DEF Owns, Claimed
  <1>8. /\ rowStatus'[k] = "pending" /\ rowProposal'[k] = p
        /\ \A l \in Keys \ {k} :
              rowStatus'[l] = rowStatus[l] /\ rowProposal'[l] = rowProposal[l]
    BY <1>1 DEF TypeOK
  <1>9. \A s \in Requests \ {r} : Owns(s) => key[s] \in Keys \ {k}
    BY <1>1 DEF OwnInv
  <1>10. OwnInv'
    <2>1. \A s \in Requests : stage'[s] = "new" => ~Acted(s)'
      BY <1>4, <1>5 DEF OwnInv
    <2>2. \A s \in Requests : Owns(s)' => key'[s] \in Keys /\ rowStatus'[key'[s]] # "absent"
      BY <1>5, <1>6, <1>7, <1>8, <1>9 DEF OwnInv
    <2>3. \A s, q \in Requests : Owns(s)' /\ Owns(q)' /\ key'[s] = key'[q] => s = q
      BY <1>5, <1>6, <1>7, <1>9 DEF OwnInv
    <2>4. \A s \in Requests, t \in Targets :
              performed'[<<s, t>>] = 1 => answer'[<<s, t>>] # "none"
      BY <1>2 DEF OwnInv
    <2>5. QED
      BY <2>1, <2>2, <2>3, <2>4 DEF OwnInv
  <1>11. RowInv'
    <2>1. \A s \in Requests \ {r} : stage[s] \in Running \union {"replied"} =>
              key[s] \in Keys \ {k}
      BY <1>1, <1>9 DEF RowInv, Owns, Claimed
    <2>2. "claimed" # "replied"
      OBVIOUS
    <2>3. QED
      BY <1>2, <1>5, <1>6, <1>8, <2>1, <2>2 DEF RowInv
  <1>12. TruthInv'
    <2>1. \A s \in Requests, u \in Targets : performed[<<s, u>>] = 1 => s # r
      BY <1>1, NewRequestsAreIdle
    <2>2. stage'[r] # "calling" /\ stage'[r] # "recording"
      BY <1>6
    <2>3. QED
      BY <1>2, <1>5, <1>8, <2>1, <2>2, TruthFrame
  <1>13. QED
    BY <1>3, <1>10, <1>11, <1>12

\* A request that finds the row there is answered from it or refused.
LEMMA ReplayKeeps ==
  ASSUME IInv, NEW r \in Requests, NEW k \in Keys, NEW p \in Proposals, Replay(r, k, p)
  PROVE  IInv'
  <1> USE DEF IInv
  <1>1. /\ stage[r] = "new" /\ rowStatus[k] # "absent"
        /\ stage' = [stage EXCEPT ![r] =
                        IF Replayable(k, p) THEN "replied" ELSE "conflict"]
        /\ outcome' = [outcome EXCEPT ![r] = IF Replayable(k, p) THEN rowOutcome[k] ELSE @]
        /\ key' = [key EXCEPT ![r] = k]
        /\ proposal' = [proposal EXCEPT ![r] = p]
    BY DEF Replay, Goes
  <1>2. UNCHANGED <<rowStatus, rowProposal, rowOutcome, current, results, catalog, active, answer,
                    performed, auditFailures, crashes>>
    BY DEF Replay, rows, adapters, faults
  <1>3. TypeOK'
    BY <1>1, <1>2 DEF TypeOK, Stages, Ended, Adapter!PromiseTypeOK
  <1>4. ~Acted(r) /\ \A s \in Requests : Acted(s)' <=> Acted(s)
    BY <1>1, <1>2, NewRequestsAreIdle DEF Acted, Owns
  <1>5. \A s \in Requests \ {r} :
            /\ stage'[s] = stage[s] /\ key'[s] = key[s] /\ proposal'[s] = proposal[s]
            /\ outcome'[s] = outcome[s]
    BY <1>1 DEF TypeOK
  <1>6. /\ stage'[r] \in {"replied", "conflict"} /\ key'[r] = k /\ proposal'[r] = p
        /\ stage'[r] = "replied" => Replayable(k, p) /\ outcome'[r] = rowOutcome[k]
    BY <1>1 DEF TypeOK
  <1>7. \A s \in Requests : Owns(s)' => s # r /\ Owns(s)
    BY <1>4, <1>5, <1>6 DEF Owns, Claimed, Running
  <1>8. OwnInv'
    <2>1. \A s \in Requests : stage'[s] = "new" => ~Acted(s)'
      BY <1>4, <1>5 DEF OwnInv
    <2>2. \A s \in Requests : Owns(s)' => key'[s] \in Keys /\ rowStatus'[key'[s]] # "absent"
      BY <1>2, <1>5, <1>7 DEF OwnInv
    <2>3. \A s, q \in Requests : Owns(s)' /\ Owns(q)' /\ key'[s] = key'[q] => s = q
      BY <1>5, <1>7 DEF OwnInv
    <2>4. \A s \in Requests, t \in Targets :
              performed'[<<s, t>>] = 1 => answer'[<<s, t>>] # "none"
      BY <1>2 DEF OwnInv
    <2>5. QED
      BY <2>1, <2>2, <2>3, <2>4 DEF OwnInv
  <1>9. RowInv'
    BY <1>2, <1>5, <1>6 DEF RowInv, Replayable, Running
  <1>10. TruthInv'
    <2>1. \A s \in Requests, u \in Targets : performed[<<s, u>>] = 1 => s # r
      BY <1>1, NewRequestsAreIdle
    <2>2. stage'[r] # "calling" /\ stage'[r] # "recording"
      BY <1>6
    <2>3. QED
      BY <1>2, <1>5, <2>1, <2>2, TruthFrame
  <1>11. QED
    BY <1>3, <1>8, <1>9, <1>10

\* A request that completes its row stores the outcome it replies.
LEMMA CompleteKeeps ==
  ASSUME IInv, NEW r \in Requests, Complete(r)
  PROVE  IInv'
  <1> USE DEF IInv
  <1> DEFINE k == key[r]
  <1>1. /\ stage[r] = "recording"
        /\ rowProposal' = rowProposal /\ key' = key /\ proposal' = proposal
        /\ current' = current /\ results' = results /\ outcome' = outcome
        /\ catalog' = catalog /\ active' = active
        /\ answer' = answer /\ performed' = performed
        /\ auditFailures' = auditFailures /\ crashes' = crashes
    BY DEF Complete, request, adapters, faults
  <1>2. k \in Keys /\ proposal[r] \in Proposals /\ proposal[r] = rowProposal[k]
    BY <1>1 DEF RowInv, Running
  <1>3. \/ /\ rowStatus[k] = "pending"
           /\ rowStatus' = [rowStatus EXCEPT ![k] = "completed"]
           /\ rowOutcome' = [rowOutcome EXCEPT ![k] = outcome[r]]
           /\ stage' = [stage EXCEPT ![r] = "replied"]
        \/ /\ rowStatus' = rowStatus /\ rowOutcome' = rowOutcome
           /\ stage' = [stage EXCEPT ![r] = "failed"]
    BY DEF Complete, Goes
  <1>4. TypeOK'
    <2>1. /\ rowStatus' \in [Keys -> {"absent", "pending", "completed"}]
          /\ rowOutcome' \in [Keys -> OutcomeTypes \union {NoOutcome}]
      BY <1>2, <1>3 DEF TypeOK
    <2>2. stage' \in [Requests -> Stages]
      BY <1>3 DEF TypeOK, Stages, Ended
    <2>3. QED
      BY <1>1, <2>1, <2>2 DEF TypeOK, Adapter!PromiseTypeOK
  <1>5. \A s \in Requests : /\ stage'[s] = "new" => stage[s] = "new"
                            /\ s # r => stage'[s] = stage[s]
                            /\ Acted(s)' <=> Acted(s)
    BY <1>1, <1>3 DEF TypeOK, Acted
  <1>6. Owns(r) /\ \A s \in Requests : Owns(s)' => Owns(s)
    BY <1>1, <1>5 DEF Owns, Claimed, Running
  <1>7. \A l \in Keys : rowStatus'[l] = "absent" <=> rowStatus[l] = "absent"
    BY <1>2, <1>3 DEF TypeOK
  <1>8. OwnInv'
    <2>1. \A s \in Requests : stage'[s] = "new" => ~Acted(s)'
      BY <1>5 DEF OwnInv
    <2>2. \A s \in Requests : Owns(s)' => key'[s] \in Keys /\ rowStatus'[key'[s]] # "absent"
      BY <1>1, <1>6, <1>7 DEF OwnInv
    <2>3. \A s, q \in Requests : Owns(s)' /\ Owns(q)' /\ key'[s] = key'[q] => s = q
      BY <1>1, <1>6 DEF OwnInv
    <2>4. \A s \in Requests, t \in Targets :
              performed'[<<s, t>>] = 1 => answer'[<<s, t>>] # "none"
      BY <1>1 DEF OwnInv
    <2>5. QED
      BY <2>1, <2>2, <2>3, <2>4 DEF OwnInv
  <1>9. CASE /\ rowStatus' = rowStatus /\ rowOutcome' = rowOutcome
             /\ stage' = [stage EXCEPT ![r] = "failed"]
    <2>1. stage'[r] = "failed" /\ \A s \in Requests \ {r} : stage'[s] = stage[s]
      BY <1>9 DEF TypeOK
    <2>2. RowInv'
      BY <1>1, <1>9, <2>1 DEF RowInv, Running
    <2>3. TruthInv'
      BY <1>1, <1>9, <2>1, TruthFrame
    <2>4. QED
      BY <1>4, <1>8, <2>2, <2>3
  <1>10. CASE /\ rowStatus[k] = "pending"
              /\ rowStatus' = [rowStatus EXCEPT ![k] = "completed"]
              /\ rowOutcome' = [rowOutcome EXCEPT ![k] = outcome[r]]
              /\ stage' = [stage EXCEPT ![r] = "replied"]
    <2>1. stage'[r] = "replied" /\ \A s \in Requests \ {r} : stage'[s] = stage[s]
      BY <1>10 DEF TypeOK
    <2>2. /\ rowStatus'[k] = "completed" /\ rowOutcome'[k] = outcome[r]
          /\ \A l \in Keys \ {k} :
                rowStatus'[l] = rowStatus[l] /\ rowOutcome'[l] = rowOutcome[l]
      BY <1>2, <1>10 DEF TypeOK
    <2>3. \A s \in Requests \ {r} : stage[s] = "replied" => key[s] # k
      BY <1>10 DEF RowInv
    <2>4. RowInv'
      <3>1. \A l \in Keys : rowStatus'[l] # "absent" => rowProposal'[l] \in Proposals
        <4>1. \A l \in Keys : rowStatus[l] # "absent" => rowProposal[l] \in Proposals
          BY DEF RowInv
        <4>2. rowProposal' = rowProposal
          BY <1>1
        <4>3. QED
          BY <1>7, <4>1, <4>2
      <3>2. \A s \in Requests : stage'[s] \in Running \union {"replied"} =>
                /\ key'[s] \in Keys /\ proposal'[s] \in Proposals
                /\ proposal'[s] = rowProposal'[key'[s]]
        BY <1>1, <1>2, <2>1 DEF RowInv
      <3>3. \A s \in Requests : stage'[s] = "replied" =>
                rowStatus'[key'[s]] = "completed" /\ outcome'[s] = rowOutcome'[key'[s]]
        BY <1>1, <2>1, <2>2, <2>3 DEF RowInv
      <3>4. QED
        BY <3>1, <3>2, <3>3 DEF RowInv
    <2>5. TruthInv'
      <3>1. \A l \in Keys : rowStatus'[l] = "completed" =>
                \A u \in TargetsOf[rowProposal'[l]] : Claims(rowOutcome'[l], u) =>
                    \E s \in Requests : key'[s] = l /\ performed'[<<s, u>>] = 1
        <4> SUFFICES ASSUME NEW l \in Keys, rowStatus'[l] = "completed",
                            NEW u \in TargetsOf[rowProposal'[l]], Claims(rowOutcome'[l], u)
                     PROVE  \E s \in Requests : key'[s] = l /\ performed'[<<s, u>>] = 1
          OBVIOUS
        <4>0. rowProposal' = rowProposal /\ key' = key /\ performed' = performed
          BY <1>1
        <4>1. CASE l = k
          BY <1>1, <1>2, <2>2, <4>0, <4>1 DEF TruthInv
        <4>2. CASE l # k
          <5>1. /\ rowStatus[l] = "completed" /\ u \in TargetsOf[rowProposal[l]]
                /\ Claims(rowOutcome[l], u)
            BY <2>2, <4>0, <4>2
          <5>2. \E s \in Requests : key[s] = l /\ performed[<<s, u>>] = 1
            BY <5>1 DEF TruthInv
          <5>3. QED
            BY <4>0, <5>2
        <4>3. QED
          BY <4>1, <4>2
      <3>2. QED
        BY <1>1, <2>1, <3>1 DEF TruthInv, Claims
    <2>6. QED
      BY <1>4, <1>8, <2>4, <2>5
  <1>11. QED
    BY <1>3, <1>9, <1>10

\* A device that obeys was asked to.
LEMMA PerformKeeps ==
  ASSUME IInv, NEW r \in Requests, NEW t \in Targets, Perform(r, t)
  PROVE  IInv'
  <1> USE DEF IInv
  <1>1. /\ rowStatus' = rowStatus /\ rowProposal' = rowProposal
        /\ rowOutcome' = rowOutcome /\ stage' = stage
        /\ key' = key /\ proposal' = proposal /\ current' = current /\ results' = results
        /\ outcome' = outcome /\ catalog' = catalog /\ active' = active
        /\ auditFailures' = auditFailures /\ crashes' = crashes
    BY DEF Perform, rows, request, faults
  <1>2. /\ Adapter!PromiseTypeOK'
        /\ answer' = answer /\ answer[<<r, t>>] # "none"
        /\ \A s \in Requests, u \in Targets :
              performed'[<<s, u>>] = IF s = r /\ u = t THEN 1 ELSE performed[<<s, u>>]
    <2>1. Adapter!Perform(<<r, t>>) /\ TypeOK
      BY DEF Perform
    <2>2. Adapter!PromiseTypeOK' /\ answer' = answer /\ answer[<<r, t>>] # "none"
      BY <2>1, PerformEffect
    <2>3. \A s \in Requests, u \in Targets :
              performed'[<<s, u>>] = IF s = r /\ u = t THEN 1 ELSE performed[<<s, u>>]
      BY <2>1, PerformEffect
    <2>4. QED
      BY <2>2, <2>3
  <1>3. \A s \in Requests, u \in Targets :
            performed[<<s, u>>] = 1 => performed'[<<s, u>>] = 1
    BY <1>2
  <1>4. TypeOK'
    BY <1>1, <1>2 DEF TypeOK
  <1>5. OwnInv'
    <2>1. \A s \in Requests : (Acted(s)' <=> Acted(s)) /\ (Owns(s)' <=> Owns(s))
      BY <1>1, <1>2 DEF Owns, Claimed, Acted
    <2>2. \A s \in Requests, u \in Targets :
              performed'[<<s, u>>] = 1 => answer'[<<s, u>>] # "none"
      BY <1>2 DEF OwnInv
    <2>3. \A s \in Requests : Owns(s) => key[s] \in Keys /\ rowStatus[key[s]] # "absent"
      BY DEF OwnInv
    <2>4. \A s, q \in Requests : Owns(s) /\ Owns(q) /\ key[s] = key[q] => s = q
      BY DEF OwnInv
    <2>5. \A s \in Requests : stage[s] = "new" => ~Acted(s)
      BY DEF OwnInv
    <2>6. QED
      BY <1>1, <2>1, <2>2, <2>3, <2>4, <2>5 DEF OwnInv
  <1>6. RowInv'
    BY <1>1 DEF RowInv
  <1>7. TruthInv'
    BY <1>1, <1>3, TruthFrame
  <1>8. QED
    BY <1>4, <1>5, <1>6, <1>7

\* A crash ends what was under way and takes nothing back.
LEMMA CrashKeeps ==
  ASSUME IInv, Crash
  PROVE  IInv'
  <1> USE DEF IInv
  <1>1. /\ rowStatus' = rowStatus /\ rowProposal' = rowProposal
        /\ rowOutcome' = rowOutcome
        /\ key' = key /\ proposal' = proposal /\ current' = current /\ results' = results
        /\ outcome' = outcome /\ catalog' = catalog /\ active' = active
        /\ auditFailures' = auditFailures
    BY DEF Crash, rows, request
  <1>2. stage' = [r \in Requests |-> IF stage[r] \in Running THEN "lost" ELSE stage[r]]
    BY DEF Crash
  <1>3. crashes' \in 0..MaxCrashes
    BY DEF Crash, TypeOK
  <1>4. /\ Adapter!PromiseTypeOK'
        /\ performed' = performed
        /\ \A s \in Requests, u \in Targets :
              answer'[<<s, u>>] = "none" <=> answer[<<s, u>>] = "none"
    <2>1. {c \in Requests \X Targets : answer[c] = "open"} \in SUBSET (Requests \X Targets)
      OBVIOUS
    <2>2. Adapter!GiveUp({c \in Requests \X Targets : answer[c] = "open"})
      BY DEF Crash
    <2>3. QED
      BY <2>1, <2>2, GiveUpEffect
  <1>5. stage' \in [Requests -> Stages]
    BY <1>2 DEF TypeOK, Stages, Ended
  <1>6. TypeOK'
    BY <1>1, <1>3, <1>4, <1>5 DEF TypeOK
  <1>7. \A s \in Requests : stage'[s] = IF stage[s] \in Running THEN "lost" ELSE stage[s]
    BY <1>2
  <1>8. \A s \in Requests :
            /\ stage'[s] \notin Running
            /\ stage'[s] # "lost" => stage'[s] = stage[s]
            /\ stage'[s] = "lost" => Claimed(s)
    BY <1>7 DEF Running, Claimed
  <1>9. \A s \in Requests : Acted(s)' <=> Acted(s)
    BY <1>4 DEF Acted
  <1>10. \A s \in Requests : Owns(s)' => Owns(s)
    BY <1>8, <1>9 DEF Owns, Claimed
  <1>11. OwnInv'
    <2>1. \A s \in Requests : stage'[s] = "new" => ~Acted(s)'
      BY <1>8, <1>9 DEF OwnInv
    <2>2. \A s \in Requests, u \in Targets :
              performed'[<<s, u>>] = 1 => answer'[<<s, u>>] # "none"
      BY <1>4 DEF OwnInv
    <2>3. QED
      BY <1>1, <1>10, <2>1, <2>2 DEF OwnInv
  <1>12. RowInv'
    BY <1>1, <1>8 DEF RowInv
  <1>13. TruthInv'
    BY <1>1, <1>4, <1>8, TruthFrame DEF Running
  <1>14. QED
    BY <1>6, <1>11, <1>12, <1>13

-------------------------------------------------------------------------------
\* Every step keeps the invariant.
LEMMA InvStep == IInv /\ [Next]_vars => IInv'
  <1> SUFFICES ASSUME IInv, [Next]_vars PROVE IInv'
    OBVIOUS
  <1>1. ASSUME NEW r \in Requests, NEW k \in Keys, NEW p \in Proposals,
               Claim(r, k, p) \/ Replay(r, k, p)
        PROVE  IInv'
    BY <1>1, ClaimKeeps, ReplayKeeps
  <1>2. ASSUME NEW r \in Requests, Progress(r) PROVE IInv'
    <2>1. CASE Complete(r)
      BY <2>1, CompleteKeeps
    <2>2. CASE \/ BoundaryRefuses(r) \/ Decide(r) \/ Resolve(r) \/ Finish(r) \/ Note(r)
               \/ \E t \in Targets : FindsTargetGone(r, t) \/ FindsArgumentsInvalid(r, t)
      BY <2>2, OrchestratorWorks, WorksKeeps
    <2>3. CASE \/ Confirmed(r)
               \/ \E t \in Targets : Invoke(r, t)
               \/ \E result \in Results : Unconfirmed(r, result)
      BY <2>3, CommandWorks, WorksKeeps
    <2>4. QED
      BY <1>2, <2>1, <2>2, <2>3 DEF Progress
  <1>3. ASSUME NEW r \in Requests, ConfirmedUnrecorded(r) PROVE IInv'
    BY <1>3, CommandWorks, WorksKeeps
  <1>4. ASSUME NEW r \in Requests, AuditFails(r) PROVE IInv'
    BY <1>4, OrchestratorWorks, WorksKeeps
  <1>5. ASSUME NEW r \in Requests, NEW t \in Targets, Perform(r, t) PROVE IInv'
    BY <1>5, PerformKeeps
  <1>6. CASE Crash
    BY <1>6, CrashKeeps
  <1>7. CASE \/ Surroundings
             \/ UNCHANGED vars
    <2>1. /\ rowStatus' = rowStatus /\ rowProposal' = rowProposal
          /\ rowOutcome' = rowOutcome /\ stage' = stage
          /\ key' = key /\ proposal' = proposal /\ current' = current
          /\ results' = results /\ outcome' = outcome
          /\ answer' = answer /\ performed' = performed
          /\ auditFailures' = auditFailures /\ crashes' = crashes
      BY <1>7
        DEF Surroundings, AccountChanges, CatalogChanges, vars, rows, request, adapters, faults
    <2>2. catalog' \subseteq Targets /\ active' \in BOOLEAN
      BY <1>7 DEF IInv, TypeOK, Surroundings, AccountChanges, CatalogChanges, vars
    <2>3. TypeOK'
      BY <2>1, <2>2 DEF IInv, TypeOK, Adapter!PromiseTypeOK
    <2>4. OwnInv'
      BY <2>1 DEF IInv, OwnInv, Owns, Claimed, Acted
    <2>5. RowInv'
      BY <2>1 DEF IInv, RowInv
    <2>6. TruthInv'
      BY <2>1, TruthFrame
    <2>7. QED
      BY <2>3, <2>4, <2>5, <2>6 DEF IInv
  <1>8. QED
    BY <1>1, <1>2, <1>3, <1>4, <1>5, <1>6, <1>7 DEF Next

\* The invariant holds of every reachable state.
THEOREM Invariance == Spec => []IInv
  <1>1. Init => IInv
    BY InvInit
  <1>2. IInv /\ [Next]_vars => IInv'
    BY InvStep
  <1>3. QED
    BY <1>1, <1>2, PTL DEF Spec

\* The variables of the action execution have their types: no key, proposal or outcome
\* is looked up where there is none.
THEOREM TypeCorrect == Spec => []TypeOK
  <1>1. IInv => TypeOK
    BY DEF IInv
  <1>2. QED
    BY <1>1, Invariance, PTL

\* ActionExecutionService's promise to a client that retries: whatever the number of
\* requests, keys, devices and crashes, a device performs one key's action at most once.
THEOREM OncePerKey == Spec => []PerformedOncePerKey
  <1>1. ASSUME IInv PROVE PerformedOncePerKey
    <2> SUFFICES ASSUME NEW k \in Keys, NEW t \in Targets
                 PROVE  Cardinality({r \in Requests :
                            key[r] = k /\ performed[<<r, t>>] = 1}) <= 1
      BY DEF PerformedOncePerKey
    <2> DEFINE Doers == {r \in Requests : key[r] = k /\ performed[<<r, t>>] = 1}
    <2>1. \A r, s \in Doers : r = s
      <3>1. \A r \in Doers : r \in Requests /\ key[r] = k /\ Owns(r)
        BY <1>1 DEF IInv, OwnInv, Owns, Acted
      <3>2. QED
        BY <1>1, <3>1 DEF IInv, OwnInv
    <2> HIDE DEF Doers
    <2>2. ASSUME Doers = {} PROVE Cardinality(Doers) <= 1
      <3>1. Cardinality({}) = 0
        BY FS_EmptySet
      <3>2. QED
        BY <2>2, <3>1
    <2>3. ASSUME Doers # {} PROVE Cardinality(Doers) <= 1
      <3>1. PICK r \in Doers : TRUE
        BY <2>3
      <3>2. Doers = {r}
        BY <2>1, <3>1
      <3>3. Cardinality({r}) = 1
        BY FS_Singleton
      <3>4. QED
        BY <3>2, <3>3
    <2>4. Cardinality(Doers) <= 1
      BY <2>2, <2>3
    <2>5. QED
      BY <2>4 DEF Doers
  <1>2. QED
    BY <1>1, Invariance, PTL

\* Replays: all requests answered under one key asked the same and read the same
\* outcome, the one in the row.
THEOREM RepliesAreTheRow == Spec => []RepliesAgree
  <1>1. IInv => RepliesAgree
    BY DEF IInv, RowInv, RepliesAgree
  <1>2. QED
    BY <1>1, Invariance, PTL

\* A reply, replayed or not, says "succeeded" only of what a device has done for its key.
THEOREM Truthfulness == Spec => []RepliesAreTrue
  <1>1. ASSUME IInv PROVE RepliesAreTrue
    <2> SUFFICES ASSUME NEW r \in Requests, stage[r] = "replied",
                        NEW t \in TargetsOf[proposal[r]], Claims(outcome[r], t)
                 PROVE  \E s \in Requests : key[s] = key[r] /\ performed[<<s, t>>] = 1
      BY DEF RepliesAreTrue, Claims
    <2>1. /\ key[r] \in Keys /\ proposal[r] = rowProposal[key[r]]
          /\ rowStatus[key[r]] = "completed" /\ outcome[r] = rowOutcome[key[r]]
      BY <1>1 DEF IInv, RowInv
    <2>2. t \in TargetsOf[rowProposal[key[r]]] /\ Claims(rowOutcome[key[r]], t)
      BY <2>1
    <2>3. QED
      BY <1>1, <2>1, <2>2 DEF IInv, TruthInv
  <1>2. QED
    BY <1>1, Invariance, PTL

-------------------------------------------------------------------------------
(* ActionPromise: what the replies and the devices' deeds amount to.         *)

\* A row has an outcome when it is completed and not before.
OutcomesInv ==
    /\ \A k \in Keys :
          /\ rowStatus[k] = "absent" => rowProposal[k] = None
          /\ rowStatus[k] = "completed" <=> rowOutcome[k] # NoOutcome
    /\ \A r \in Requests : stage[r] = "recording" => outcome[r] \in OutcomeTypes

\* The policy was asked before a device was, and the device is one that the row names.
Permitted(r, t) ==
    /\ proposal[r] = rowProposal[key[r]]
    /\ proposal[r] \in Proposals \ (Forbidden \union Malformed)
    /\ t \in TargetsOf[proposal[r]]

PermitInv ==
    /\ \A r \in Requests : stage[r] \in {"resolving", "running", "calling", "noting"} =>
          proposal[r] \notin Forbidden
    /\ \A r \in Requests, t \in Targets : answer[<<r, t>>] # "none" => Permitted(r, t)

PInv == IInv /\ OutcomesInv /\ PermitInv

\* A step of a request at work that asks a device only what is permitted and settles on
\* a real outcome.
Permits(r) ==
    /\ stage'[r] = "recording" => outcome'[r] \in OutcomeTypes
    /\ stage'[r] \in {"resolving", "running", "calling", "noting"} =>
          proposal[r] \notin Forbidden
    /\ \A u \in Targets : answer'[<<r, u>>] # "none" =>
          answer[<<r, u>>] # "none" \/ Permitted(r, u)

\* The initial state: free keys, idle devices.
LEMMA PromiseInvInit == Init => PInv
  <1> SUFFICES ASSUME Init PROVE PInv
    OBVIOUS
  <1>1. IInv
    BY InvInit
  <1>2. \A r \in Requests : stage[r] = "new"
    BY DEF Init
  <1>3. OutcomesInv
    BY <1>2 DEF Init, OutcomesInv
  <1>4. \A r \in Requests, t \in Targets : <<r, t>> \in Requests \X Targets
    OBVIOUS
  <1>5. \A r \in Requests, t \in Targets : answer[<<r, t>>] = "none"
    BY <1>4 DEF Init, Adapter!PromiseInit
  <1>6. PermitInv
    BY <1>2, <1>5 DEF PermitInv
  <1>7. QED
    BY <1>1, <1>3, <1>6 DEF PInv

\* Such a step keeps both.
LEMMA PermitsKeeps ==
  ASSUME PInv, NEW r \in Requests, Works(r), Permits(r)
  PROVE  OutcomesInv' /\ PermitInv'
  <1>1. UNCHANGED <<rowStatus, rowProposal, rowOutcome, key, proposal>>
    BY DEF Works, rows, request
  <1>2. \A s \in Requests \ {r} :
            /\ stage'[s] = stage[s] /\ outcome'[s] = outcome[s]
            /\ \A u \in Targets : answer'[<<s, u>>] = answer[<<s, u>>]
    BY DEF Works
  <1>3. OutcomesInv'
    <2>1. \A s \in Requests : stage'[s] = "recording" => outcome'[s] \in OutcomeTypes
      BY <1>2 DEF Permits, PInv, OutcomesInv
    <2>2. QED
      BY <1>1, <2>1 DEF PInv, OutcomesInv
  <1>4. \A s \in Requests, u \in Targets : Permitted(s, u)' <=> Permitted(s, u)
    BY <1>1 DEF Permitted
  <1>5. PermitInv'
    <2>1. \A s \in Requests : stage'[s] \in {"resolving", "running", "calling", "noting"} =>
              proposal'[s] \notin Forbidden
      BY <1>1, <1>2 DEF Permits, PInv, PermitInv
    <2>2. \A s \in Requests, u \in Targets : answer'[<<s, u>>] # "none" => Permitted(s, u)
      BY <1>2 DEF Permits, PInv, PermitInv
    <2>3. QED
      BY <1>4, <2>1, <2>2 DEF PermitInv
  <1>6. QED
    BY <1>3, <1>5

\* The orchestrator settles on outcomes and passes on what the policy allows.
LEMMA OrchestratorPermits ==
  ASSUME PInv, NEW r \in Requests,
         \/ BoundaryRefuses(r) \/ Decide(r) \/ Resolve(r) \/ Finish(r) \/ Note(r) \/ AuditFails(r)
         \/ \E t \in Targets : FindsTargetGone(r, t) \/ FindsArgumentsInvalid(r, t)
  PROVE  Permits(r)
  <1>1. /\ Rejected \in OutcomeTypes /\ OutcomeOf(r) \in OutcomeTypes
        /\ stage \in [Requests -> Stages]
        /\ outcome \in [Requests -> OutcomeTypes \union {NoOutcome}]
    BY OutcomeType DEF PInv, IInv, TypeOK
  <1>2. stage[r] \in {"resolving", "running", "calling", "noting"} =>
            proposal[r] \notin Forbidden
    BY DEF PInv, PermitInv
  <1>3. answer' = answer
    BY DEF BoundaryRefuses, Decide, Resolve, Finish, Note, AuditFails, FindsTargetGone,
           FindsArgumentsInvalid, adapters
  <1>0. CASE BoundaryRefuses(r)
    BY <1>1, <1>3, <1>0 DEF BoundaryRefuses, Goes, Permits
  <1>4. CASE Decide(r)
    BY <1>1, <1>3, <1>4 DEF Decide, Settle, Goes, Permits
  <1>5. CASE Resolve(r)
    BY <1>1, <1>2, <1>3, <1>5 DEF Resolve, Settle, Goes, Permits
  <1>6. CASE Finish(r)
    BY <1>1, <1>3, <1>6 DEF Finish, Settle, Goes, Permits
  <1>7. CASE Note(r)
    BY <1>1, <1>2, <1>3, <1>7 DEF Note, Goes, Permits
  <1>8. CASE AuditFails(r)
    BY <1>1, <1>3, <1>8 DEF AuditFails, Goes, Permits
  <1>9. CASE \E t \in Targets : FindsTargetGone(r, t)
    BY <1>1, <1>3, <1>9 DEF FindsTargetGone, Settle, Goes, Permits
  <1>10. CASE \E t \in Targets : FindsArgumentsInvalid(r, t)
    BY <1>1, <1>3, <1>10 DEF FindsArgumentsInvalid, Goes, Permits
  <1>11. QED
    BY <1>0, <1>4, <1>5, <1>6, <1>7, <1>8, <1>9, <1>10

\* DeviceCommandService asks devices of the proposal, with arguments that fit.
LEMMA CommandPermits ==
  ASSUME PInv, NEW r \in Requests,
         \/ Confirmed(r) \/ ConfirmedUnrecorded(r)
         \/ \E t \in Targets : Invoke(r, t)
         \/ \E result \in Results : Unconfirmed(r, result)
  PROVE  Permits(r)
  <1>1. TypeOK /\ stage \in [Requests -> Stages]
    BY DEF PInv, IInv, TypeOK
  <1>2. stage[r] \in {"running", "calling"} => proposal[r] \notin Forbidden
    BY DEF PInv, PermitInv
  <1>3. stage[r] = "calling" => current[r] \in Targets
    BY DEF PInv, IInv, TruthInv
  <1>4. ASSUME NEW t \in Targets, Invoke(r, t) PROVE Permits(r)
    <2>1. /\ stage[r] = "running" /\ t \in Left(r) /\ proposal[r] \notin Malformed
          /\ Adapter!Accept(<<r, t>>) \/ Adapter!Refuse(<<r, t>>)
          /\ stage'[r] \in {"calling", "noting"}
      BY <1>1, <1>4 DEF Invoke, Goes
    <2>2. proposal[r] \in Proposals /\ proposal[r] = rowProposal[key[r]]
      BY <2>1 DEF PInv, IInv, RowInv, Running
    <2>3. Permitted(r, t)
      BY <1>2, <2>1, <2>2 DEF Permitted, Left
    <2>4. Answered(r, t, "open") \/ Answered(r, t, "refused")
      BY <1>1, <2>1, AnswerEffects
    <2>5. \A u \in Targets : u # t => answer'[<<r, u>>] = answer[<<r, u>>]
      BY <2>4 DEF Answered
    <2>6. QED
      BY <1>2, <2>1, <2>3, <2>5 DEF Permits
  <1>5. ASSUME Confirmed(r) \/ ConfirmedUnrecorded(r)
               \/ \E result \in Results : Unconfirmed(r, result)
        PROVE  Permits(r)
    <2> DEFINE t == current[r]
    <2>1. /\ stage[r] = "calling" /\ stage'[r] \in {"running", "noting"}
          /\ Adapter!Confirm(<<r, t>>) \/ Adapter!GiveUp({<<r, t>>})
      BY <1>1, <1>5 DEF Confirmed, ConfirmedUnrecorded, Unconfirmed, Goes
    <2>2. t \in Targets
      BY <1>3, <2>1
    <2>3. answer[<<r, t>>] = "open"
      BY <2>1 DEF Adapter!Confirm, Adapter!GiveUp
    <2>4. Answered(r, t, "confirmed") \/ Answered(r, t, "unconfirmed")
      BY <1>1, <2>1, <2>2, AnswerEffects
    <2>5. \A u \in Targets : answer'[<<r, u>>] # "none" => answer[<<r, u>>] # "none"
      BY <2>2, <2>3, <2>4 DEF Answered
    <2>6. QED
      BY <1>2, <2>1, <2>5 DEF Permits
  <1>6. QED
    BY <1>4, <1>5

\* A row is inserted without an outcome, by a request that asked nothing yet.
LEMMA ClaimPermits ==
  ASSUME PInv, NEW r \in Requests, NEW k \in Keys, NEW p \in Proposals, Claim(r, k, p)
  PROVE  OutcomesInv' /\ PermitInv'
  <1>1. TypeOK /\ IInv
    BY DEF PInv, IInv
  <1>2. /\ stage[r] = "new" /\ rowStatus[k] = "absent"
        /\ stage'[r] = "claimed" /\ key'[r] = k /\ proposal'[r] = p
        /\ rowStatus'[k] = "pending"
        /\ rowOutcome' = rowOutcome /\ outcome' = outcome /\ answer' = answer
    BY <1>1 DEF Claim, Goes, TypeOK, adapters
  <1>3. /\ \A s \in Requests \ {r} :
              stage'[s] = stage[s] /\ key'[s] = key[s] /\ proposal'[s] = proposal[s]
        /\ \A l \in Keys \ {k} :
              rowStatus'[l] = rowStatus[l] /\ rowProposal'[l] = rowProposal[l]
    BY <1>1 DEF Claim, Goes, TypeOK
  <1>4. OutcomesInv'
    <2>1. \A l \in Keys : /\ rowStatus'[l] = "absent" => rowProposal'[l] = None
                          /\ rowStatus'[l] = "completed" <=> rowOutcome'[l] # NoOutcome
      BY <1>2, <1>3 DEF PInv, OutcomesInv
    <2>2. \A s \in Requests : stage'[s] = "recording" => outcome'[s] \in OutcomeTypes
      BY <1>2, <1>3 DEF PInv, OutcomesInv
    <2>3. QED
      BY <2>1, <2>2 DEF OutcomesInv
  <1>5. \A t \in Targets : answer[<<r, t>>] = "none"
    BY <1>1, <1>2, NewRequestsAreIdle DEF Owns, Acted
  <1>6. \A s \in Requests \ {r}, t \in Targets :
            answer[<<s, t>>] # "none" => key[s] \in Keys \ {k}
    BY <1>1, <1>2 DEF IInv, OwnInv, Owns, Acted
  <1>7. \A s \in Requests, t \in Targets : answer[<<s, t>>] # "none" => Permitted(s, t)'
    BY <1>3, <1>5, <1>6 DEF PInv, PermitInv, Permitted
  <1>8. PermitInv'
    BY <1>2, <1>3, <1>7 DEF PInv, PermitInv
  <1>9. QED
    BY <1>4, <1>8

\* A request that is answered from the row or refused asks nothing either.
LEMMA ReplayPermits ==
  ASSUME PInv, NEW r \in Requests, NEW k \in Keys, NEW p \in Proposals, Replay(r, k, p)
  PROVE  OutcomesInv' /\ PermitInv'
  <1>1. TypeOK /\ IInv
    BY DEF PInv, IInv
  <1>2. /\ stage[r] = "new" /\ stage'[r] \in {"replied", "conflict"}
        /\ UNCHANGED <<rowStatus, rowProposal, rowOutcome, answer>>
    BY <1>1 DEF Replay, Goes, TypeOK, rows, adapters
  <1>3. \A s \in Requests \ {r} :
            /\ stage'[s] = stage[s] /\ key'[s] = key[s] /\ proposal'[s] = proposal[s]
            /\ outcome'[s] = outcome[s]
    BY <1>1 DEF Replay, Goes, TypeOK
  <1>4. OutcomesInv'
    BY <1>2, <1>3 DEF PInv, OutcomesInv
  <1>5. \A t \in Targets : answer[<<r, t>>] = "none"
    BY <1>1, <1>2, NewRequestsAreIdle DEF Owns, Acted
  <1>6. \A s \in Requests, t \in Targets : answer[<<s, t>>] # "none" => Permitted(s, t)'
    BY <1>2, <1>3, <1>5 DEF PInv, PermitInv, Permitted
  <1>7. PermitInv'
    BY <1>2, <1>3, <1>6 DEF PInv, PermitInv
  <1>8. QED
    BY <1>4, <1>7

\* What completing does, apart from the rows: the row of the key is pending, or the
\* request fails.
LEMMA CompletePermits ==
  ASSUME PInv, NEW r \in Requests, Complete(r)
  PROVE  OutcomesInv' /\ PermitInv'
  <1> DEFINE k == key[r]
  <1>1. TypeOK /\ IInv
    BY DEF PInv, IInv
  <1>2. /\ stage[r] = "recording" /\ outcome[r] \in OutcomeTypes /\ k \in Keys
        /\ UNCHANGED <<rowProposal, key, proposal, outcome, answer>>
    BY <1>1 DEF Complete, request, adapters, PInv, OutcomesInv, IInv, RowInv, Running
  <1>3. /\ stage'[r] \in {"replied", "failed"}
        /\ \A s \in Requests \ {r} : stage'[s] = stage[s]
    BY <1>1 DEF Complete, Goes, TypeOK
  <1>4. \A l \in Keys : /\ rowStatus'[l] = "absent" => rowStatus[l] = "absent"
                        /\ rowStatus'[l] = "completed" <=> rowOutcome'[l] # NoOutcome
    <2>1. NoOutcome \notin OutcomeTypes
      BY DEF NoOutcome, OutcomeTypes
    <2>2. CASE rowStatus' = rowStatus /\ rowOutcome' = rowOutcome
      BY <2>2 DEF PInv, OutcomesInv
    <2>3. CASE /\ rowStatus' = [rowStatus EXCEPT ![k] = "completed"]
               /\ rowOutcome' = [rowOutcome EXCEPT ![k] = outcome[r]]
      BY <1>1, <1>2, <2>1, <2>3 DEF PInv, OutcomesInv, TypeOK
    <2>4. QED
      BY <2>2, <2>3 DEF Complete
  <1>5. OutcomesInv'
    BY <1>2, <1>3, <1>4 DEF PInv, OutcomesInv
  <1>6. PermitInv'
    BY <1>2, <1>3 DEF PInv, PermitInv, Permitted
  <1>7. QED
    BY <1>5, <1>6

\* Devices that obey, a catalogue or an account that changes, and crashes change no
\* request's standing.
LEMMA EnvironmentPermits ==
  ASSUME PInv,
         \/ \E r \in Requests, t \in Targets : Perform(r, t)
         \/ Crash \/ Surroundings
         \/ UNCHANGED vars
  PROVE  OutcomesInv' /\ PermitInv'
  <1>1. UNCHANGED <<rowStatus, rowProposal, rowOutcome, key, proposal, outcome>>
    BY DEF Perform, Crash, Surroundings, AccountChanges, CatalogChanges, vars, rows, request
  <1>2. \A s \in Requests : stage'[s] = stage[s] \/ stage'[s] = "lost"
    <2>1. CASE Crash
      BY <2>1 DEF Crash
    <2>2. CASE ~Crash
      BY <2>2 DEF Perform, Surroundings, AccountChanges, CatalogChanges, vars
    <2>3. QED
      BY <2>1, <2>2
  <1>3. \A s \in Requests, t \in Targets :
            answer'[<<s, t>>] # "none" => answer[<<s, t>>] # "none"
    <2>1. CASE Crash
      <3>1. {c \in Requests \X Targets : answer[c] = "open"} \in SUBSET (Requests \X Targets)
        OBVIOUS
      <3>2. Adapter!GiveUp({c \in Requests \X Targets : answer[c] = "open"})
        BY <2>1 DEF Crash
      <3>3. TypeOK
        BY DEF PInv, IInv
      <3>4. QED
        BY <3>1, <3>2, <3>3, GiveUpEffect
    <2>2. CASE ~Crash
      BY <2>2 DEF Perform, Adapter!Perform, Surroundings, AccountChanges, CatalogChanges, vars,
          adapters
    <2>3. QED
      BY <2>1, <2>2
  <1>4. OutcomesInv'
    BY <1>1, <1>2 DEF PInv, OutcomesInv
  <1>5. PermitInv'
    <2>1. \A s \in Requests, t \in Targets : Permitted(s, t)' <=> Permitted(s, t)
      BY <1>1 DEF Permitted
    <2>2. QED
      BY <1>1, <1>2, <1>3, <2>1 DEF PInv, PermitInv
  <1>6. QED
    BY <1>4, <1>5

\* The actions of a request at work.
AtWork(r) ==
    \/ BoundaryRefuses(r) \/ Decide(r) \/ Resolve(r) \/ Finish(r) \/ Note(r) \/ AuditFails(r)
    \/ \E t \in Targets : FindsTargetGone(r, t) \/ FindsArgumentsInvalid(r, t)
    \/ Confirmed(r) \/ ConfirmedUnrecorded(r)
    \/ \E t \in Targets : Invoke(r, t)
    \/ \E result \in Results : Unconfirmed(r, result)

\* What a step of Next is: a claim, a replay, a completion, a step of a request at work,
\* or the environment's.
LEMMA NextCases ==
  ASSUME PInv, [Next]_vars,
         NEW ACTION P,
         \A r \in Requests, k \in Keys, p \in Proposals : Claim(r, k, p) => P,
         \A r \in Requests, k \in Keys, p \in Proposals : Replay(r, k, p) => P,
         \A r \in Requests : Complete(r) => P,
         \A r \in Requests : AtWork(r) /\ Works(r) /\ Permits(r) => P,
         \A r \in Requests, t \in Targets : Perform(r, t) => P,
         Crash \/ Surroundings \/ UNCHANGED vars => P
  PROVE  P
  <1>1. \A r \in Requests : AtWork(r) => Works(r) /\ Permits(r)
    BY OrchestratorWorks, OrchestratorPermits, CommandWorks, CommandPermits
    DEF AtWork, PInv
  <1>2. \A r \in Requests :
            Progress(r) \/ ConfirmedUnrecorded(r) \/ AuditFails(r) =>
                AtWork(r) \/ Complete(r)
    BY DEF Progress, AtWork
  <1>3. QED
    BY <1>1, <1>2 DEF Next

\* Every step keeps the invariant.
LEMMA PromiseInvStep == PInv /\ [Next]_vars => PInv'
  <1> SUFFICES ASSUME PInv, [Next]_vars PROVE PInv'
    OBVIOUS
  <1>1. IInv'
    BY InvStep DEF PInv
  <1> DEFINE P == OutcomesInv' /\ PermitInv'
  <1>2. \A r \in Requests, k \in Keys, p \in Proposals : Claim(r, k, p) => P
    BY ClaimPermits
  <1>3. \A r \in Requests, k \in Keys, p \in Proposals : Replay(r, k, p) => P
    BY ReplayPermits
  <1>4. \A r \in Requests : Complete(r) => P
    BY CompletePermits
  <1>5. \A r \in Requests : AtWork(r) /\ Works(r) /\ Permits(r) => P
    BY PermitsKeeps
  <1>6. \A r \in Requests, t \in Targets : Perform(r, t) => P
    BY EnvironmentPermits
  <1>7. Crash \/ Surroundings \/ UNCHANGED vars => P
    BY EnvironmentPermits
  <1>8. P
    <2> HIDE DEF P
    <2>1. QED
      BY <1>2, <1>3, <1>4, <1>5, <1>6, <1>7, NextCases
  <1>9. QED
    BY <1>1, <1>8 DEF PInv

\* A step that answers no request, moves no deed and leaves the rows' contents alone is
\* not seen by ActionPromise.
LEMMA PromiseStutters ==
  ASSUME UNCHANGED <<rowProposal, rowOutcome, key, performed>>,
         \A s \in Requests :
            /\ stage'[s] = "replied" <=> stage[s] = "replied"
            /\ stage[s] = "replied" =>
                  proposal'[s] = proposal[s] /\ outcome'[s] = outcome[s]
  PROVE  UNCHANGED Promise!promiseVars
  <1>1. Deeds' = Deeds
    BY DEF Deeds
  <1>2. Replies' = Replies
    BY DEF Replies
  <1>3. QED
    BY <1>1, <1>2 DEF Promise!promiseVars

\* What one request is told, when its reply is all that changes about replies.
LEMMA ReplyTold ==
  ASSUME TypeOK, NEW r \in Requests, NEW k \in Keys, NEW p, NEW o,
         stage[r] # "replied", stage'[r] = "replied",
         key'[r] = k, proposal'[r] = p, outcome'[r] = o, rowProposal[k] = p,
         \A s \in Requests \ {r} :
            /\ stage'[s] = stage[s] /\ key'[s] = key[s] /\ proposal'[s] = proposal[s]
            /\ outcome'[s] = outcome[s]
  PROVE  Promise!Tell(r, k, o)
  <1>1. Replies[r] = None
    BY DEF Replies
  <1>2. Replies' = [Replies EXCEPT ![r] =
                       [key |-> k, proposal |-> rowProposal[k], outcome |-> o]]
    BY DEF Replies
  <1>3. QED
    BY <1>1, <1>2 DEF Promise!Tell

\* Two requests without deeds are not told apart by their keys.
LEMMA DeedsStay ==
  ASSUME performed' = performed,
         \A s \in Requests, t \in Targets : performed[<<s, t>>] = 1 => key'[s] = key[s]
  PROVE  Deeds' = Deeds
  BY DEF Deeds

\* The initial states are those of ActionPromise.
LEMMA PromiseStarts == Init => Promise!PromiseInit
  <1> SUFFICES ASSUME Init PROVE Promise!PromiseInit
    OBVIOUS
  <1>1. \A r \in Requests, t \in Targets : <<r, t>> \in Requests \X Targets
    OBVIOUS
  <1>2. \A r \in Requests, t \in Targets : performed[<<r, t>>] = 0
    BY <1>1 DEF Init, Adapter!PromiseInit
  <1>3. Deeds = {}
    BY <1>2 DEF Deeds
  <1>4. Replies = [r \in Requests |-> None]
    BY DEF Init, Replies
  <1>5. QED
    BY <1>3, <1>4 DEF Init, Promise!PromiseInit

\* Claiming a key is asking for it.
LEMMA ClaimAsks ==
  ASSUME PInv, NEW r \in Requests, NEW k \in Keys, NEW p \in Proposals, Claim(r, k, p)
  PROVE  Promise!Ask(k, p)
  <1>1. TypeOK /\ IInv
    BY DEF PInv, IInv
  <1>2. /\ stage[r] = "new" /\ rowStatus[k] = "absent"
        /\ stage'[r] = "claimed"
        /\ rowProposal' = [rowProposal EXCEPT ![k] = p]
        /\ UNCHANGED <<rowOutcome, outcome, performed>>
        /\ \A s \in Requests \ {r} :
              stage'[s] = stage[s] /\ key'[s] = key[s] /\ proposal'[s] = proposal[s]
    BY <1>1 DEF Claim, Goes, TypeOK, adapters
  <1>3. rowProposal[k] = None
    BY <1>2 DEF PInv, OutcomesInv
  <1>4. \A t \in Targets : performed[<<r, t>>] = 0
    BY <1>1, <1>2, NewRequestsAreIdle
  <1>5. Deeds' = Deeds
    BY <1>2, <1>4, DeedsStay
  <1>6. Replies' = Replies
    BY <1>2 DEF Replies
  <1>7. QED
    BY <1>2, <1>3, <1>5, <1>6 DEF Promise!Ask

\* A replay repeats the stored reply, a conflict is not seen.
LEMMA ReplayRepeats ==
  ASSUME PInv, NEW r \in Requests, NEW k \in Keys, NEW p \in Proposals, Replay(r, k, p)
  PROVE  Promise!Repeat(r, k) \/ UNCHANGED Promise!promiseVars
  <1>1. TypeOK /\ IInv
    BY DEF PInv, IInv
  <1>2. /\ stage[r] = "new" /\ key'[r] = k /\ proposal'[r] = p
        /\ UNCHANGED <<rowStatus, rowProposal, rowOutcome, performed>>
    BY <1>1 DEF Replay, TypeOK, rows, adapters
  <1>3. \A s \in Requests \ {r} :
            /\ stage'[s] = stage[s] /\ key'[s] = key[s] /\ proposal'[s] = proposal[s]
            /\ outcome'[s] = outcome[s]
    BY <1>1 DEF Replay, Goes, TypeOK
  <1>4. \A t \in Targets : performed[<<r, t>>] = 0
    BY <1>1, <1>2, NewRequestsAreIdle
  <1>5. Deeds' = Deeds
    BY <1>2, <1>3, <1>4, DeedsStay
  <1>6. CASE Replayable(k, p)
    <2>1. stage'[r] = "replied" /\ outcome'[r] = rowOutcome[k]
      BY <1>1, <1>6 DEF Replay, Goes, TypeOK
    <2>2. rowProposal[k] = p /\ rowOutcome[k] # NoOutcome
      BY <1>6 DEF Replayable, PInv, OutcomesInv
    <2>3. Promise!Tell(r, k, rowOutcome[k])
      BY <1>1, <1>2, <1>3, <2>1, <2>2, ReplyTold
    <2>4. QED
      BY <1>2, <1>5, <2>2, <2>3 DEF Promise!Repeat
  <1>7. CASE ~Replayable(k, p)
    <2>1. stage'[r] = "conflict"
      BY <1>1, <1>7 DEF Replay, Goes, TypeOK
    <2>2. Replies' = Replies
      BY <1>2, <1>3, <2>1 DEF Replies
    <2>3. QED
      BY <1>2, <1>5, <2>2 DEF Promise!promiseVars
  <1>8. QED
    BY <1>6, <1>7

\* Completing the pending row settles the key on what was done; without that row the
\* request ends in an error.
LEMMA CompleteSettles ==
  ASSUME PInv, NEW r \in Requests, Complete(r)
  PROVE  Promise!Settle(r, key[r]) \/ UNCHANGED Promise!promiseVars
  <1> DEFINE k == key[r]
             o == outcome[r]
  <1>1. TypeOK /\ IInv
    BY DEF PInv, IInv
  <1>2. /\ stage[r] = "recording" /\ o \in OutcomeTypes /\ k \in Keys
        /\ UNCHANGED <<rowProposal, key, proposal, outcome, performed>>
    BY <1>1 DEF Complete, request, adapters, PInv, OutcomesInv, IInv, RowInv, Running
  <1>3. proposal[r] \in Proposals /\ proposal[r] = rowProposal[k]
    BY <1>1, <1>2 DEF IInv, RowInv, Running
  <1>4. \A s \in Requests \ {r} : stage'[s] = stage[s]
    BY <1>1 DEF Complete, Goes, TypeOK
  <1>5. CASE rowStatus[k] = "pending"
    <2>1. /\ stage'[r] = "replied" /\ rowOutcome[k] = NoOutcome
          /\ rowOutcome' = [rowOutcome EXCEPT ![k] = o]
      BY <1>1, <1>2, <1>5 DEF Complete, Goes, TypeOK, PInv, OutcomesInv
    <2>2. ASSUME NEW t \in TargetsOf[rowProposal[k]], Claims(o, t)
          PROVE  \E d \in Deeds : d.key = k /\ d.device = t
      <3>1. t \in Targets /\ performed[<<r, t>>] = 1
        BY <1>1, <1>2, <1>3, <2>2 DEF IInv, TruthInv
      <3>2. [request |-> r, key |-> k, device |-> t] \in Deeds
        BY <1>2, <3>1 DEF Deeds
      <3>3. QED
        BY <3>2
    <2>3. Promise!Tell(r, k, o)
      BY <1>1, <1>2, <1>3, <1>4, <2>1, ReplyTold
    <2>4. Deeds' = Deeds
      BY <1>2, DeedsStay
    <2>5. \A t \in TargetsOf[rowProposal[k]] :
              o.results[t] = "succeeded" \/ o.status = "succeeded" =>
                  \E d \in Deeds : d.key = k /\ d.device = t
      BY <2>2 DEF Claims
    <2>6. Promise!Settle(r, k)
      BY <1>2, <1>3, <2>1, <2>3, <2>4, <2>5 DEF Promise!Settle
    <2>7. QED
      BY <2>6
  <1>6. CASE rowStatus[k] # "pending"
    <2>1. stage'[r] = "failed" /\ rowOutcome' = rowOutcome
      BY <1>1, <1>6 DEF Complete, Goes, TypeOK
    <2>2. QED
      BY <1>2, <1>4, <2>1, PromiseStutters
  <1>7. QED
    BY <1>5, <1>6

\* A device that obeys does its part of what the row asks, for the first time.
LEMMA PerformDoes ==
  ASSUME PInv, NEW r \in Requests, NEW t \in Targets, Perform(r, t)
  PROVE  Promise!Do(r, key[r], t) /\ key[r] \in Keys
  <1> DEFINE k == key[r]
  <1>1. TypeOK /\ IInv
    BY DEF PInv, IInv
  <1>2. /\ answer[<<r, t>>] # "none" /\ performed[<<r, t>>] = 0
        /\ \A s \in Requests, u \in Targets :
              performed'[<<s, u>>] = IF s = r /\ u = t THEN 1 ELSE performed[<<s, u>>]
        /\ UNCHANGED <<rowProposal, rowOutcome, stage, key, proposal, outcome>>
    BY <1>1, PerformEffect DEF Perform, Adapter!Perform, rows, request
  <1>3. Owns(r) /\ k \in Keys
    BY <1>1, <1>2 DEF IInv, OwnInv, Owns, Acted
  <1>4. Permitted(r, t)
    BY <1>2 DEF PInv, PermitInv
  <1>5. \A d \in Deeds : d.key # k \/ d.device # t
    <2> SUFFICES ASSUME NEW d \in Deeds, d.key = k, d.device = t PROVE FALSE
      OBVIOUS
    <2>1. /\ d.request \in Requests /\ key[d.request] = k
          /\ performed[<<d.request, t>>] = 1
      BY DEF Deeds
    <2>2. Owns(d.request)
      BY <1>1, <2>1 DEF IInv, OwnInv, Owns, Acted
    <2>3. d.request = r
      BY <1>1, <1>3, <2>1, <2>2 DEF IInv, OwnInv
    <2>4. QED
      BY <1>2, <2>1, <2>3
  <1>6. Deeds' = Deeds \union {[request |-> r, key |-> k, device |-> t]}
    <2> DEFINE Shape == [request : Requests, key : Keys, device : Targets]
               new == [request |-> r, key |-> k, device |-> t]
    <2>1. new \in Shape /\ \A d \in Shape :
              d = new <=> d.request = r /\ d.key = k /\ d.device = t
      BY <1>3
    <2>2. \A d \in Shape : d \in Deeds' <=> d \in Deeds \/ d = new
      BY <1>2, <2>1 DEF Deeds
    <2>3. Deeds \subseteq Shape /\ Deeds' \subseteq Shape
      BY DEF Deeds
    <2>4. QED
      BY <2>1, <2>2, <2>3
  <1>7. Replies' = Replies
    BY <1>2 DEF Replies
  <1>8. rowProposal[k] \in Proposals \ (Forbidden \union Malformed)
        /\ t \in TargetsOf[rowProposal[k]]
    BY <1>4 DEF Permitted
  <1>9. QED
    BY <1>2, <1>3, <1>5, <1>6, <1>7, <1>8 DEF Promise!Do

\* Each step is one of ActionPromise, or is not seen by it.
LEMMA PromiseStep ==
  PInv /\ [Next]_vars => [Promise!PromiseNext]_Promise!promiseVars
  <1> SUFFICES ASSUME PInv, [Next]_vars
               PROVE  Promise!PromiseNext \/ UNCHANGED Promise!promiseVars
    OBVIOUS
  <1> DEFINE P == Promise!PromiseNext \/ UNCHANGED Promise!promiseVars
  <1>1. \A r \in Requests, k \in Keys, p \in Proposals : Claim(r, k, p) => P
    BY ClaimAsks DEF Promise!PromiseNext
  <1>2. \A r \in Requests, k \in Keys, p \in Proposals : Replay(r, k, p) => P
    BY ReplayRepeats DEF Promise!PromiseNext
  <1>3. \A r \in Requests : Complete(r) => P
    <2> SUFFICES ASSUME NEW r \in Requests, Complete(r) PROVE P
      OBVIOUS
    <2>1. key[r] \in Keys
      BY DEF Complete, PInv, IInv, RowInv, Running
    <2>2. QED
      BY <2>1, CompleteSettles DEF Promise!PromiseNext
  <1>4. \A r \in Requests : AtWork(r) /\ Works(r) /\ Permits(r) => P
    <2> SUFFICES ASSUME NEW r \in Requests, Works(r) PROVE UNCHANGED Promise!promiseVars
      OBVIOUS
    <2>1. UNCHANGED <<rowProposal, rowOutcome, key, proposal, performed>>
      BY DEF Works, rows, request
    <2>2. stage[r] # "replied" /\ stage'[r] # "replied"
      BY DEF Works, Running
    <2>3. \A s \in Requests \ {r} : stage'[s] = stage[s] /\ outcome'[s] = outcome[s]
      BY DEF Works
    <2>4. QED
      BY <2>1, <2>2, <2>3, PromiseStutters
  <1>5. \A r \in Requests, t \in Targets : Perform(r, t) => P
    BY PerformDoes DEF Promise!PromiseNext
  <1>6. Crash \/ Surroundings \/ UNCHANGED vars => P
    <2> SUFFICES ASSUME Crash \/ Surroundings \/ UNCHANGED vars
                 PROVE  UNCHANGED Promise!promiseVars
      OBVIOUS
    <2>1. UNCHANGED <<rowProposal, rowOutcome, key, proposal, outcome, performed>>
      BY DEF Crash, Adapter!GiveUp, Surroundings, AccountChanges, CatalogChanges, vars, rows,
         request, adapters
    <2>2. \A s \in Requests : stage'[s] = "replied" <=> stage[s] = "replied"
      <3>1. CASE Crash
        BY <3>1 DEF Crash, Running
      <3>2. CASE ~Crash
        BY <3>2 DEF Surroundings, AccountChanges, CatalogChanges, vars
      <3>3. QED
        BY <3>1, <3>2
    <2>3. QED
      BY <2>1, <2>2, PromiseStutters
  <1>7. P
    <2> HIDE DEF P
    <2>1. QED
      BY <1>1, <1>2, <1>3, <1>4, <1>5, <1>6, NextCases
  <1>8. QED
    BY <1>7

\* The invariant behind the promise holds of every reachable state.
LEMMA PromiseInvariance == Spec => []PInv
  BY PromiseInvInit, PromiseInvStep, PTL DEF Spec

\* Whatever is retried, lost, unpaired or crashes, ActionExecutionService keeps the promise
\* to its clients: one proposal and one outcome per key, only permitted deeds of the devices
\* named, each once, and replies that tell that outcome to those who asked for the same.
THEOREM ActionRefinement == Spec => KeepsActionPromise
  <1>1. Init => Promise!PromiseInit
    BY PromiseStarts
  <1>2. PInv /\ [Next]_vars => [Promise!PromiseNext]_Promise!promiseVars
    BY PromiseStep
  <1>3. QED
    BY <1>1, <1>2, PromiseInvariance, PTL DEF Spec, Promise!PromiseSpec, KeepsActionPromise

\* Nothing is performed but what some row asked for, with arguments that fit, on a device
\* it names, and that the policy allows: ActionOrchestrator decides before it executes.
OnlyPermitted ==
    \A r \in Requests, t \in Targets : performed[<<r, t>>] = 1 => Permitted(r, t)

\* This holds of every reachable state, whichever requests share keys, fail or are lost.
THEOREM PermittedOnly == Spec => []OnlyPermitted
  <1>1. PInv => OnlyPermitted
    BY DEF PInv, IInv, OwnInv, PermitInv, OnlyPermitted
  <1>2. QED
    BY <1>1, PromiseInvariance, PTL

\* A completed row is never touched again, nor is the row of a pending key handed to
\* another proposal: what complete() stored is what every retry will read.
RowsStand ==
    \A k \in Keys :
        /\ rowStatus[k] # "absent" =>
              rowStatus'[k] # "absent" /\ rowProposal'[k] = rowProposal[k]
        /\ rowStatus[k] = "completed" =>
              rowStatus'[k] = "completed" /\ rowOutcome'[k] = rowOutcome[k]

\* No step of any request, device or fault takes a stored row back.
THEOREM StoredRowsStand == Spec => [][RowsStand]_vars
  <1>1. ASSUME PInv, [Next]_vars PROVE RowsStand
    <2> DEFINE P == RowsStand
    <2>0. TypeOK
      BY <1>1 DEF PInv, IInv
    <2>1. \A r \in Requests, k \in Keys, p \in Proposals : Claim(r, k, p) => P
      BY <2>0 DEF Claim, TypeOK, RowsStand
    <2>2. \A r \in Requests, k \in Keys, p \in Proposals : Replay(r, k, p) => P
      BY DEF Replay, rows, RowsStand
    <2>3. \A r \in Requests : Complete(r) => P
      BY <2>0 DEF Complete, TypeOK, RowsStand
    <2>4. \A r \in Requests : AtWork(r) /\ Works(r) /\ Permits(r) => P
      BY DEF Works, rows, RowsStand
    <2>5. \A r \in Requests, t \in Targets : Perform(r, t) => P
      BY DEF Perform, rows, RowsStand
    <2>6. Crash \/ Surroundings \/ UNCHANGED vars => P
      BY DEF Crash, Surroundings, AccountChanges, CatalogChanges, vars, rows, RowsStand
    <2>7. P
      <3> HIDE DEF P
      <3>1. QED
        BY <1>1, <2>1, <2>2, <2>3, <2>4, <2>5, <2>6, NextCases
    <2>8. QED
      BY <2>7
  <1>2. QED
    BY <1>1, PromiseInvariance, PTL DEF Spec

-------------------------------------------------------------------------------
(* What two of the disagreements with the documentation come down to.        *)

\* Until a request completes, its row is pending, and before it is resolved no device has
\* been asked for it.
PendingInv ==
    \A r \in Requests :
        /\ stage[r] \in Running => rowStatus[key[r]] = "pending"
        /\ stage[r] \in {"claimed", "resolving"} => ~Acted(r)

\* The catalogue shows every device p names, with the capability p asks for.
Found(p) == TargetsOf[p] \subseteq catalog

\* An action of p that has begun is not rejected.
RejectionInv(p) ==
    /\ \A r \in Requests :
          stage[r] = "recording" /\ outcome[r].status = "rejected" /\ Acted(r) =>
              proposal[r] # p
    /\ \A k \in Keys, r \in Requests :
          rowOutcome[k].status = "rejected" /\ key[r] = k /\ Acted(r) =>
              rowProposal[k] # p

\* What r's step has to do with them.
Rejects(r) ==
    /\ stage'[r] \in {"claimed", "resolving"} => ~Acted(r)'
    /\ stage'[r] = "recording" /\ outcome'[r].status = "rejected" /\ Acted(r)' =>
          ~Found(proposal[r])

\* The steps at work: a rejection comes from the policy, before anything was asked, or
\* from a device that is not found.
LEMMA WorkRejects ==
  ASSUME PInv, PendingInv, NEW r \in Requests, AtWork(r)
  PROVE  Rejects(r)
  <1>1. TypeOK /\ stage \in [Requests -> Stages]
        /\ outcome \in [Requests -> OutcomeTypes \union {NoOutcome}]
    BY DEF PInv, IInv, TypeOK
  <1>2. stage[r] \in {"claimed", "resolving"} => ~Acted(r)
    BY DEF PendingInv
  <1>3. ASSUME BoundaryRefuses(r) \/ Decide(r) \/ Resolve(r) PROVE Rejects(r)
    <2>1. stage[r] \in {"claimed", "resolving"} /\ answer' = answer
      BY <1>3 DEF BoundaryRefuses, Decide, Resolve, adapters
    <2>2. ~Acted(r)'
      BY <1>2, <2>1 DEF Acted
    <2>3. QED
      BY <2>1, <2>2 DEF Rejects
  <1>4. CASE Finish(r)
    <2>1. /\ stage'[r] = "recording" /\ outcome'[r] = OutcomeOf(r)
      BY <1>1, <1>4 DEF Finish, Settle, Goes
    <2>2. OutcomeOf(r).status # "rejected"
      BY DEF OutcomeOf
    <2>3. QED
      BY <2>1, <2>2 DEF Rejects
  <1>5. ASSUME NEW t \in Targets, FindsTargetGone(r, t)
        PROVE  Rejects(r)
    <2>1. stage'[r] = "recording"
      BY <1>1, <1>5 DEF FindsTargetGone, Settle, Goes
    <2>2. ~Found(proposal[r])
      BY <1>5 DEF FindsTargetGone, Left, Found
    <2>3. QED
      BY <2>1, <2>2 DEF Rejects
  <1>6. ASSUME \/ Note(r) \/ AuditFails(r)
               \/ \E t \in Targets : FindsArgumentsInvalid(r, t)
        PROVE  Rejects(r)
    <2>1. stage'[r] \in {"running", "failed"}
      BY <1>1, <1>6 DEF Note, AuditFails, FindsArgumentsInvalid, Goes
    <2>2. QED
      BY <2>1 DEF Rejects
  <1>7. ASSUME \/ Confirmed(r) \/ ConfirmedUnrecorded(r)
               \/ \E t \in Targets : Invoke(r, t)
               \/ \E result \in Results : Unconfirmed(r, result)
        PROVE  Rejects(r)
    <2>1. stage'[r] \in {"running", "calling", "noting"}
      BY <1>1, <1>7 DEF Confirmed, ConfirmedUnrecorded, Invoke, Unconfirmed, Goes
    <2>2. QED
      BY <2>1 DEF Rejects
  <1>8. QED
    BY <1>3, <1>4, <1>5, <1>6, <1>7 DEF AtWork

\* The environment asks no device for anything and changes no row.
LEMMA EnvironmentActsNot ==
  ASSUME TypeOK,
         \/ \E r \in Requests, t \in Targets : Perform(r, t)
         \/ Crash \/ Surroundings
         \/ UNCHANGED vars
  PROVE  /\ UNCHANGED <<rowStatus, rowProposal, rowOutcome, key, proposal, outcome>>
         /\ \A s \in Requests : stage'[s] = stage[s] \/ stage'[s] = "lost"
         /\ \A s \in Requests : Acted(s)' => Acted(s)
  <1>1. UNCHANGED <<rowStatus, rowProposal, rowOutcome, key, proposal, outcome>>
    BY DEF Perform, Crash, Surroundings, AccountChanges, CatalogChanges, vars, rows, request
  <1>2. \A s \in Requests : stage'[s] = stage[s] \/ stage'[s] = "lost"
    <2>1. CASE Crash
      BY <2>1 DEF Crash
    <2>2. CASE ~Crash
      BY <2>2 DEF Perform, Surroundings, AccountChanges, CatalogChanges, vars
    <2>3. QED
      BY <2>1, <2>2
  <1>3. \A s \in Requests : Acted(s)' => Acted(s)
    <2>1. CASE Crash
      <3>1. {c \in Requests \X Targets : answer[c] = "open"} \in SUBSET (Requests \X Targets)
        OBVIOUS
      <3>2. Adapter!GiveUp({c \in Requests \X Targets : answer[c] = "open"})
        BY <2>1 DEF Crash
      <3>4. \A s \in Requests, t \in Targets :
                answer'[<<s, t>>] = "none" <=> answer[<<s, t>>] = "none"
        BY <3>1, <3>2, GiveUpEffect
      <3>5. QED
        BY <3>4 DEF Acted
    <2>2. CASE ~Crash
      <3>1. answer' = answer
        BY <2>2 DEF Perform, Adapter!Perform, Surroundings, AccountChanges, CatalogChanges, vars,
          adapters
      <3>2. QED
        BY <3>1 DEF Acted
    <2>3. QED
      BY <2>1, <2>2
  <1>4. QED
    BY <1>1, <1>2, <1>3

\* Each step keeps PendingInv.
LEMMA PendingStep == PInv /\ PendingInv /\ [Next]_vars => PendingInv'
  <1> SUFFICES ASSUME PInv, PendingInv, [Next]_vars PROVE PendingInv'
    OBVIOUS
  <1> DEFINE P == PendingInv'
  <1>0. TypeOK /\ IInv
    BY DEF PInv, IInv
  <1>1. \A r \in Requests, k \in Keys, p \in Proposals : Claim(r, k, p) => P
    <2> SUFFICES ASSUME NEW r \in Requests, NEW k \in Keys, NEW p \in Proposals,
                        Claim(r, k, p)
                 PROVE  PendingInv'
      OBVIOUS
    <2>1. /\ stage[r] = "new" /\ rowStatus[k] = "absent"
          /\ key'[r] = k /\ rowStatus'[k] = "pending" /\ answer' = answer
          /\ \A s \in Requests \ {r} : stage'[s] = stage[s] /\ key'[s] = key[s]
          /\ \A l \in Keys \ {k} : rowStatus'[l] = rowStatus[l]
      BY <1>0 DEF Claim, Goes, TypeOK, adapters
    <2>2. ~Acted(r)
      BY <1>0, <2>1, NewRequestsAreIdle DEF Owns
    <2>3. \A s \in Requests : Acted(s)' <=> Acted(s)
      BY <2>1 DEF Acted
    <2>4. \A s \in Requests \ {r} : Owns(s) => key[s] \in Keys \ {k}
      BY <1>0, <2>1 DEF IInv, OwnInv
    <2>5. QED
      BY <2>1, <2>2, <2>3, <2>4 DEF PendingInv, Owns, Claimed
  <1>2. \A r \in Requests, k \in Keys, p \in Proposals : Replay(r, k, p) => P
    <2> SUFFICES ASSUME NEW r \in Requests, NEW k \in Keys, NEW p \in Proposals,
                        Replay(r, k, p)
                 PROVE  PendingInv'
      OBVIOUS
    <2>1. /\ stage'[r] \in {"replied", "conflict"}
          /\ rowStatus' = rowStatus /\ answer' = answer
          /\ \A s \in Requests \ {r} : stage'[s] = stage[s] /\ key'[s] = key[s]
      BY <1>0 DEF Replay, Goes, TypeOK, rows, adapters
    <2>2. \A s \in Requests : Acted(s)' <=> Acted(s)
      BY <2>1 DEF Acted
    <2>3. QED
      BY <2>1, <2>2 DEF PendingInv, Running
  <1>3. \A r \in Requests : Complete(r) => P
    <2> SUFFICES ASSUME NEW r \in Requests, Complete(r) PROVE PendingInv'
      OBVIOUS
    <2>1. stage[r] = "recording" /\ rowStatus[key[r]] = "pending" /\ key[r] \in Keys
      BY <1>0 DEF Complete, IInv, RowInv, Running, PendingInv
    <2>2. /\ stage'[r] = "replied" /\ key' = key /\ answer' = answer
          /\ \A s \in Requests \ {r} : stage'[s] = stage[s]
          /\ \A l \in Keys \ {key[r]} : rowStatus'[l] = rowStatus[l]
      BY <1>0, <2>1 DEF Complete, Goes, TypeOK, request, adapters
    <2>3. \A s \in Requests \ {r} : Owns(s) => key[s] \in Keys \ {key[r]}
      BY <1>0, <2>1 DEF IInv, OwnInv, Owns, Claimed, Running
    <2>4. \A s \in Requests : Acted(s)' <=> Acted(s)
      BY <2>2 DEF Acted
    <2>5. QED
      BY <2>2, <2>3, <2>4 DEF PendingInv, Owns, Claimed, Running
  <1>4. \A r \in Requests : AtWork(r) /\ Works(r) /\ Permits(r) => P
    <2> SUFFICES ASSUME NEW r \in Requests, AtWork(r), Works(r) PROVE PendingInv'
      OBVIOUS
    <2>1. Rejects(r)
      BY WorkRejects
    <2>2. /\ rowStatus' = rowStatus /\ key' = key /\ stage[r] \in Running
          /\ \A s \in Requests \ {r} : stage'[s] = stage[s] /\ (Acted(s)' <=> Acted(s))
      BY DEF Works, Acted, rows, request
    <2>3. QED
      BY <2>1, <2>2 DEF PendingInv, Rejects
  <1>5. \A r \in Requests, t \in Targets : Perform(r, t) => P
    BY EnvironmentActsNot, <1>0 DEF PendingInv, Running
  <1>6. Crash \/ Surroundings \/ UNCHANGED vars => P
    BY EnvironmentActsNot, <1>0 DEF PendingInv, Running
  <1>7. P
    <2> HIDE DEF P
    <2>1. QED
      BY <1>1, <1>2, <1>3, <1>4, <1>5, <1>6, NextCases
  <1>8. QED
    BY <1>7

\* The steps of a request at work keep RejectionInv while the catalogue shows q's devices.
LEMMA WorkKeepsRejection ==
  ASSUME PInv, PendingInv, NEW q \in Proposals, RejectionInv(q), Found(q),
         NEW r \in Requests, AtWork(r), Works(r)
  PROVE  RejectionInv(q)'
  <1>1. Rejects(r)
    BY WorkRejects
  <1>2. UNCHANGED <<rowProposal, rowOutcome, key, proposal>>
    BY DEF Works, rows, request
  <1>3. \A s \in Requests \ {r} :
            /\ stage'[s] = stage[s] /\ outcome'[s] = outcome[s]
            /\ Acted(s)' <=> Acted(s)
    BY DEF Works, Acted
  <1>4. stage[r] \in Running /\ key[r] \in Keys /\ rowStatus[key[r]] = "pending"
    BY DEF Works, PendingInv, PInv, IInv, RowInv
  <1>5. \A s \in Requests :
            stage'[s] = "recording" /\ outcome'[s].status = "rejected" /\ Acted(s)' =>
                proposal'[s] # q
    BY <1>1, <1>2, <1>3 DEF RejectionInv, Rejects
  <1>6. \A k \in Keys, s \in Requests :
            rowOutcome'[k].status = "rejected" /\ key'[s] = k /\ Acted(s)' =>
                rowProposal'[k] # q
    <2> SUFFICES ASSUME NEW k \in Keys, NEW s \in Requests,
                        rowOutcome[k].status = "rejected", key[s] = k, Acted(s)'
                 PROVE  rowProposal[k] # q
      BY <1>2
    <2>1. CASE s = r
      <3>1. rowOutcome[k] = NoOutcome
        BY <1>4, <2>1 DEF PInv, OutcomesInv
      <3>2. QED
        BY <3>1 DEF NoOutcome
    <2>2. CASE s # r
      BY <1>3, <2>2 DEF RejectionInv
    <2>3. QED
      BY <2>1, <2>2
  <1>7. QED
    BY <1>5, <1>6 DEF RejectionInv

\* A completion stores the outcome its request has recorded.
LEMMA CompleteKeepsRejection ==
  ASSUME PInv, PendingInv, NEW q \in Proposals, RejectionInv(q),
         NEW r \in Requests, Complete(r)
  PROVE  RejectionInv(q)'
  <1> DEFINE k == key[r]
  <1>1. TypeOK /\ IInv
    BY DEF PInv, IInv
  <1>2. /\ stage[r] = "recording" /\ k \in Keys /\ rowStatus[k] = "pending"
        /\ UNCHANGED <<rowProposal, key, proposal, outcome, answer>>
    BY <1>1 DEF Complete, request, adapters, IInv, RowInv, Running, PendingInv
  <1>3. /\ rowOutcome' = [rowOutcome EXCEPT ![k] = outcome[r]]
        /\ stage'[r] = "replied"
        /\ \A s \in Requests \ {r} : stage'[s] = stage[s]
    BY <1>1, <1>2 DEF Complete, Goes, TypeOK
  <1>4. proposal[r] = rowProposal[k]
    BY <1>1, <1>2 DEF IInv, RowInv, Running
  <1>5. \A s \in Requests : Acted(s)' <=> Acted(s)
    BY <1>2 DEF Acted
  <1>6. \A s \in Requests \ {r} : Owns(s) => key[s] \in Keys \ {k}
    BY <1>1, <1>2 DEF IInv, OwnInv, Owns, Claimed, Running
  <1>7. \A s \in Requests :
            stage'[s] = "recording" /\ outcome'[s].status = "rejected" /\ Acted(s)' =>
                proposal'[s] # q
    BY <1>2, <1>3, <1>5 DEF RejectionInv
  <1>8. \A l \in Keys, s \in Requests :
            rowOutcome'[l].status = "rejected" /\ key'[s] = l /\ Acted(s)' =>
                rowProposal'[l] # q
    <2> SUFFICES ASSUME NEW l \in Keys, NEW s \in Requests,
                        rowOutcome'[l].status = "rejected", key[s] = l, Acted(s)
                 PROVE  rowProposal[l] # q
      BY <1>2, <1>5
    <2>1. CASE l = k
      <3>1. s = r /\ rowOutcome'[l] = outcome[r]
        BY <1>1, <1>2, <1>3, <1>6, <2>1 DEF Owns, TypeOK
      <3>2. QED
        BY <1>2, <1>4, <2>1, <3>1 DEF RejectionInv
    <2>2. CASE l # k
      <3>1. rowOutcome'[l] = rowOutcome[l]
        BY <1>1, <1>3, <2>2 DEF TypeOK
      <3>2. QED
        BY <3>1 DEF RejectionInv
    <2>3. QED
      BY <2>1, <2>2
  <1>9. QED
    BY <1>7, <1>8 DEF RejectionInv

\* A request that claims a key, or finds it taken, has asked no device for anything.
LEMMA SubmissionKeepsRejection ==
  ASSUME PInv, NEW q \in Proposals, RejectionInv(q),
         NEW r \in Requests, NEW k \in Keys, NEW p \in Proposals,
         Claim(r, k, p) \/ Replay(r, k, p)
  PROVE  RejectionInv(q)'
  <1>1. TypeOK /\ IInv
    BY DEF PInv, IInv
  <1>2. /\ stage[r] = "new" /\ stage'[r] # "recording"
        /\ UNCHANGED <<rowOutcome, answer>>
    BY <1>1 DEF Claim, Replay, Goes, TypeOK, rows, adapters
  <1>3. \A s \in Requests \ {r} :
            /\ stage'[s] = stage[s] /\ key'[s] = key[s] /\ proposal'[s] = proposal[s]
            /\ outcome'[s] = outcome[s]
    BY <1>1 DEF Claim, Replay, Goes, TypeOK
  <1>4. \A l \in Keys :
            rowProposal'[l] = rowProposal[l] \/ (l = k /\ rowStatus[k] = "absent")
    BY <1>1 DEF Claim, Replay, rows, TypeOK
  <1>5. ~Acted(r)
    BY <1>1, <1>2, NewRequestsAreIdle DEF Owns
  <1>6. \A s \in Requests : Acted(s)' <=> Acted(s)
    BY <1>2 DEF Acted
  <1>7. \A s \in Requests :
            stage'[s] = "recording" /\ outcome'[s].status = "rejected" /\ Acted(s)' =>
                proposal'[s] # q
    BY <1>2, <1>3, <1>6 DEF RejectionInv
  <1>8. \A l \in Keys, s \in Requests :
            rowOutcome'[l].status = "rejected" /\ key'[s] = l /\ Acted(s)' =>
                rowProposal'[l] # q
    <2> SUFFICES ASSUME NEW l \in Keys, NEW s \in Requests,
                        rowOutcome[l].status = "rejected", key'[s] = l, Acted(s)
                 PROVE  rowProposal'[l] # q
      BY <1>2, <1>6
    <2>1. s # r /\ key[s] = l
      BY <1>3, <1>5
    <2>2. rowStatus[l] # "absent"
      BY <1>1, <2>1 DEF IInv, OwnInv, Owns
    <2>3. QED
      BY <1>4, <2>1, <2>2 DEF RejectionInv
  <1>9. QED
    BY <1>7, <1>8 DEF RejectionInv

\* Each step keeps it while the catalogue shows q's devices.
LEMMA RejectionStep ==
  ASSUME PInv, PendingInv, NEW q \in Proposals, RejectionInv(q), Found(q), [Next]_vars
  PROVE  RejectionInv(q)'
  <1> DEFINE P == RejectionInv(q)'
  <1>1. \A r \in Requests, k \in Keys, p \in Proposals : Claim(r, k, p) => P
    BY SubmissionKeepsRejection
  <1>2. \A r \in Requests, k \in Keys, p \in Proposals : Replay(r, k, p) => P
    BY SubmissionKeepsRejection
  <1>3. \A r \in Requests : Complete(r) => P
    BY CompleteKeepsRejection
  <1>4. \A r \in Requests : AtWork(r) /\ Works(r) /\ Permits(r) => P
    BY WorkKeepsRejection
  <1>5. TypeOK
    BY DEF PInv, IInv
  <1>6. \A r \in Requests, t \in Targets : Perform(r, t) => P
    BY <1>5, EnvironmentActsNot DEF RejectionInv
  <1>7. Crash \/ Surroundings \/ UNCHANGED vars => P
    BY <1>5, EnvironmentActsNot DEF RejectionInv
  <1>8. P
    <2> HIDE DEF P
    <2>1. QED
      BY <1>1, <1>2, <1>3, <1>4, <1>6, <1>7, NextCases
  <1>9. QED
    BY <1>8

\* The initial state.
LEMMA RejectionStart ==
  ASSUME Init
  PROVE  PendingInv /\ \A q \in Proposals : RejectionInv(q)
  <1>1. /\ \A r \in Requests : stage[r] = "new"
        /\ \A k \in Keys : rowOutcome[k].status = "none"
    BY DEF Init, NoOutcome
  <1>2. QED
    BY <1>1 DEF PendingInv, RejectionInv, Running

\* RejectedDidNothing, for one proposal.
DidNothingIfRejected(q) ==
    \A r, s \in Requests, t \in Targets :
        /\ stage[r] = "replied" /\ outcome[r].status = "rejected" /\ proposal[r] = q
        /\ key[s] = key[r]
        => performed[<<s, t>>] = 0

\* ADR 0011 has rejected outcomes returned without calling a domain service, and the code
\* does not keep that (RejectedDidNothing). What it keeps: as long as every device a
\* proposal names stays paired and keeps offering what is asked of it, nothing of a
\* rejected action of that proposal is carried out, under its key, by any request, whatever
\* is repeated, fails or crashes.
THEOREM RejectionsAreClean ==
  ASSUME NEW q \in Proposals
  PROVE  Spec /\ []Found(q) => []DidNothingIfRejected(q)
  <1>1. PInv /\ RejectionInv(q) => DidNothingIfRejected(q)
    <2> SUFFICES ASSUME PInv, RejectionInv(q), NEW r \in Requests, NEW s \in Requests,
                        NEW t \in Targets, stage[r] = "replied",
                        outcome[r].status = "rejected", proposal[r] = q, key[s] = key[r]
                 PROVE  performed[<<s, t>>] = 0
      BY DEF DidNothingIfRejected
    <2>1. /\ key[r] \in Keys /\ proposal[r] = rowProposal[key[r]]
          /\ outcome[r] = rowOutcome[key[r]]
      BY DEF PInv, IInv, RowInv
    <2>2. ~Acted(s)
      BY <2>1 DEF RejectionInv
    <2>3. performed[<<s, t>>] # 1 /\ performed[<<s, t>>] \in {0, 1}
      BY <2>2 DEF PInv, IInv, OwnInv, Acted, TypeOK, Adapter!PromiseTypeOK
    <2>4. QED
      BY <2>3
  <1>2. Init => PendingInv /\ RejectionInv(q)
    BY RejectionStart
  <1>3. PInv /\ PendingInv /\ [Next]_vars => PendingInv'
    BY PendingStep
  <1>4. PInv /\ PendingInv /\ RejectionInv(q) /\ Found(q) /\ [Next]_vars => RejectionInv(q)'
    BY RejectionStep
  <1>5. QED
    BY <1>1, <1>2, <1>3, <1>4, PromiseInvariance, PTL DEF Spec

\* AuditFailureKeepsConfirmation, as long as no record has failed.
ConfirmedInv == auditFailures = 0 => AuditFailureKeepsConfirmation

\* What a step does to a confirmed command of a request.
KeepsConfirmed(r) ==
    \A t \in Targets : answer'[<<r, t>>] = "confirmed" =>
        \/ stage'[r] # "failed" /\ results'[r][t] = "succeeded"
        \/ /\ answer[<<r, t>>] = "confirmed" /\ results'[r][t] = results[r][t]
           /\ stage'[r] = "failed" => stage[r] = "failed"

\* A request's own step keeps its confirmations unless a record fails.
LEMMA WorkKeepsConfirmed ==
  ASSUME PInv, PendingInv, NEW r \in Requests, AtWork(r), auditFailures' = 0
  PROVE  KeepsConfirmed(r) /\ auditFailures = 0
  <1>1. /\ TypeOK /\ stage \in [Requests -> Stages] /\ auditFailures \in Nat
        /\ results \in [Requests -> [Targets -> Results]]
    BY DEF PInv, IInv, TypeOK
  <1>2. ~AuditFailure
    BY <1>1 DEF AuditFailure
  <1>3. ~AuditFails(r) /\ ~ConfirmedUnrecorded(r)
    BY <1>2 DEF AuditFails, ConfirmedUnrecorded
  <1>4. auditFailures = 0
    BY <1>3 DEF AtWork, BoundaryRefuses, Decide, Resolve, Finish, Note, FindsTargetGone,
                FindsArgumentsInvalid, Confirmed, Invoke, Unconfirmed, faults
  <1>0. CASE BoundaryRefuses(r)
    <2>1. stage[r] = "claimed" /\ answer' = answer
      BY <1>0 DEF BoundaryRefuses, adapters
    <2>2. \A u \in Targets : answer[<<r, u>>] = "none"
      BY <2>1 DEF PendingInv, Acted
    <2>3. QED
      BY <2>1, <2>2, <1>4 DEF KeepsConfirmed
  <1>5. ASSUME \/ Decide(r) \/ Resolve(r) \/ Finish(r) \/ Note(r)
               \/ \E t \in Targets : FindsTargetGone(r, t)
        PROVE  KeepsConfirmed(r)
    <2>1. answer' = answer /\ results' = results
      BY <1>5 DEF Decide, Resolve, Finish, Note, FindsTargetGone, adapters
    <2>2. stage'[r] # "failed"
      BY <1>1, <1>5 DEF Decide, Resolve, Finish, Note, FindsTargetGone, Settle, Goes
    <2>3. QED
      BY <2>1, <2>2 DEF KeepsConfirmed
  <1>6. ASSUME NEW t \in Targets, FindsArgumentsInvalid(r, t) PROVE KeepsConfirmed(r)
    <2>1. proposal[r] \in Malformed /\ answer' = answer
      BY <1>6 DEF FindsArgumentsInvalid, adapters
    <2>2. \A u \in Targets : answer[<<r, u>>] = "none"
      BY <2>1 DEF PInv, PermitInv, Permitted
    <2>3. QED
      BY <2>1, <2>2 DEF KeepsConfirmed
  <1>7. ASSUME NEW t \in Targets, Invoke(r, t) PROVE KeepsConfirmed(r)
    <2>1. /\ stage'[r] # "failed"
          /\ Adapter!Accept(<<r, t>>) \/ Adapter!Refuse(<<r, t>>)
          /\ \A u \in Targets : u # t => results'[r][u] = results[r][u]
      BY <1>1, <1>7 DEF Invoke, Goes
    <2>2. Answered(r, t, "open") \/ Answered(r, t, "refused")
      BY <1>1, <2>1, AnswerEffects
    <2>3. QED
      BY <2>1, <2>2 DEF KeepsConfirmed, Answered
  <1>8. CASE Confirmed(r) \/ \E result \in Results : Unconfirmed(r, result)
    <2> DEFINE t == current[r]
    <2>1. /\ t \in Targets /\ stage'[r] # "failed"
          /\ \A u \in Targets : u # t => results'[r][u] = results[r][u]
      BY <1>1, <1>8 DEF Confirmed, Unconfirmed, Goes, PInv, IInv, TruthInv
    <2>2. CASE Confirmed(r)
      <3>1. Answered(r, t, "confirmed") /\ results'[r][t] = "succeeded"
        BY <1>1, <2>1, <2>2, AnswerEffects DEF Confirmed
      <3>2. QED
        BY <1>4, <2>1, <3>1 DEF KeepsConfirmed, Answered
    <2>3. CASE \E result \in Results : Unconfirmed(r, result)
      <3>1. Answered(r, t, "unconfirmed")
        BY <1>1, <2>1, <2>3, AnswerEffects DEF Unconfirmed
      <3>2. QED
        BY <1>4, <2>1, <3>1 DEF KeepsConfirmed, Answered
    <2>4. QED
      BY <1>8, <2>2, <2>3
  <1>9. QED
    BY <1>0, <1>3, <1>4, <1>5, <1>6, <1>7, <1>8 DEF AtWork

\* Each step keeps ConfirmedInv.
LEMMA ConfirmedStep == PInv /\ PendingInv /\ ConfirmedInv /\ [Next]_vars => ConfirmedInv'
  <1> SUFFICES ASSUME PInv, PendingInv, ConfirmedInv, [Next]_vars, auditFailures' = 0
               PROVE  AuditFailureKeepsConfirmation'
    BY DEF ConfirmedInv
  <1> DEFINE P == AuditFailureKeepsConfirmation'
  <1>0. /\ TypeOK /\ IInv /\ stage \in [Requests -> Stages]
    BY DEF PInv, IInv, TypeOK
  <1>1. ASSUME auditFailures' = auditFailures, results' = results, answer' = answer,
               \A s \in Requests : stage'[s] = "failed" => stage[s] = "failed"
        PROVE  P
    BY <1>1 DEF ConfirmedInv, AuditFailureKeepsConfirmation
  <1>2. \A r \in Requests, k \in Keys, p \in Proposals : Claim(r, k, p) => P
    BY <1>0, <1>1 DEF Claim, Goes, adapters, faults
  <1>3. \A r \in Requests, k \in Keys, p \in Proposals : Replay(r, k, p) => P
    BY <1>0, <1>1 DEF Replay, Goes, adapters, faults
  <1>4. \A r \in Requests : Complete(r) => P
    <2> SUFFICES ASSUME NEW r \in Requests, Complete(r) PROVE P
      OBVIOUS
    <2>1. rowStatus[key[r]] = "pending"
      BY DEF Complete, PendingInv, Running
    <2>2. QED
      BY <1>0, <1>1, <2>1 DEF Complete, Goes, adapters, faults
  <1>5. \A r \in Requests : AtWork(r) /\ Works(r) /\ Permits(r) => P
    <2> SUFFICES ASSUME NEW r \in Requests, AtWork(r), Works(r) PROVE P
      OBVIOUS
    <2>1. KeepsConfirmed(r) /\ AuditFailureKeepsConfirmation
      BY WorkKeepsConfirmed DEF ConfirmedInv
    <2>2. \A s \in Requests \ {r} :
              /\ stage'[s] = stage[s]
              /\ \A u \in Targets : /\ answer'[<<s, u>>] = answer[<<s, u>>]
                                    /\ results'[s][u] = results[s][u]
      BY DEF Works
    <2>3. QED
      BY <2>1, <2>2 DEF KeepsConfirmed, AuditFailureKeepsConfirmation
  <1>6. \A r \in Requests, t \in Targets : Perform(r, t) => P
    BY <1>1 DEF Perform, Adapter!Perform, faults
  <1>7. Crash \/ Surroundings \/ UNCHANGED vars => P
    <2>1. CASE Crash
      <3>1. /\ auditFailures' = auditFailures /\ results' = results
            /\ \A s \in Requests : stage'[s] = "failed" => stage[s] = "failed"
        BY <2>1 DEF Crash
      <3>2. \A c \in Requests \X Targets : answer'[c] = "confirmed" => answer[c] = "confirmed"
        BY <2>1 DEF Crash, Adapter!GiveUp
      <3>3. \A s \in Requests, u \in Targets : <<s, u>> \in Requests \X Targets
        OBVIOUS
      <3>4. QED
        BY <3>1, <3>2, <3>3 DEF ConfirmedInv, AuditFailureKeepsConfirmation
    <2>2. CASE Surroundings \/ UNCHANGED vars
      BY <1>1, <2>2 DEF Surroundings, AccountChanges, CatalogChanges, vars, adapters, faults
    <2>3. QED
      BY <2>1, <2>2
  <1>8. P
    <2> HIDE DEF P
    <2>1. QED
      BY <1>2, <1>3, <1>4, <1>5, <1>6, <1>7, NextCases
  <1>9. QED
    BY <1>8

\* DeviceCommand.kt says that a failing audit store must not change a confirmed result. What
\* the code keeps: only a failing audit store does. No crash, timeout, replay, unpaired
\* device or disabled account turns a confirmed command into a failure.
THEOREM OnlyAuditFailuresUndo == Spec => []ConfirmedInv
  <1>1. Init => ConfirmedInv
    <2> SUFFICES ASSUME Init PROVE \A r \in Requests, t \in Targets :
                                       answer[<<r, t>>] = "none"
      BY DEF ConfirmedInv, AuditFailureKeepsConfirmation
    <2>1. \A r \in Requests, t \in Targets : <<r, t>> \in Requests \X Targets
      OBVIOUS
    <2>2. QED
      BY <2>1 DEF Init, Adapter!PromiseInit
  <1>2. QED
    BY <1>1, ConfirmedStep, RejectionStart, PendingStep, PromiseInvariance, PTL DEF Spec

===============================================================================
