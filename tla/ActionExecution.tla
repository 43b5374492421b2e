---------------------------- MODULE ActionExecution ----------------------------
(***************************************************************************)
(* One confirmed device action, from the HTTP request or voice turn that    *)
(* asks for it to the reply: ActionExecutionService claims the idempotency  *)
(* key, ActionOrchestrator applies the policy, DeviceActionHandler resolves *)
(* the targets, DeviceCommandService runs them one after the other, and the *)
(* outcome is stored for replays.                                           *)
(*                                                                         *)
(* A target is driven through an adapter of which only CommandPromise is    *)
(* assumed (GatewayCommands implements it).  Audit records are written to   *)
(* the database along the way and can fail; Core can crash; a device can be *)
(* unpaired or lose its capability, and an account or its Space be disabled, *)
(* while an action runs.  The calls of one request are ordered, those of     *)
(* different requests interleave.  What a client is promised of all this is  *)
(* ActionPromise.                                                           *)
(***************************************************************************)
EXTENDS Naturals, FiniteSets

CONSTANTS
    Requests,    \* submissions; a client's retry is another request with the same key
    Keys,        \* (owner, idempotency key) pairs
    Targets,     \* devices
    Proposals,   \* what a request hash stands for
    TargetsOf,   \* the devices each proposal names
    Forbidden,   \* proposals whose capability the policy forbids
    Malformed,   \* proposals whose arguments do not fit the capability
    Changing,    \* devices that may leave the catalogue, or lose their capability
    MaxAuditFailures, MaxCrashes,  \* bounds on faults in one behaviour
    None

ASSUME ProposalsAssumption ==
    /\ TargetsOf \in [Proposals -> (SUBSET Targets) \ {{}}]
    /\ Forbidden \subseteq Proposals /\ Malformed \subseteq Proposals
    /\ Changing \subseteq Targets
    /\ None \notin Proposals \union Keys \union Targets
    /\ MaxAuditFailures \in Nat /\ MaxCrashes \in Nat

VARIABLES
    rowStatus,    \* action_execution.status per key, "absent" before its INSERT
    rowProposal,  \* action_execution.request_hash
    rowOutcome,   \* action_execution.outcome
    stage,        \* where each request stands
    key, proposal, \* what each request carries
    current,      \* the device whose command is under way
    results,      \* DeviceCommandOutcome.status per device so far
    outcome,      \* the ActionOutcome computed, or replayed, for the request
    catalog,      \* devices that are paired and offer what they can be asked for
    active,       \* the Space is active and the accounts of owner and actor enabled
    answer, performed, \* the adapter calls: CommandPromise
    auditFailures, crashes

rows     == <<rowStatus, rowProposal, rowOutcome>>
request  == <<key, proposal>>
adapters == <<answer, performed>>
faults   == <<auditFailures, crashes>>
vars == <<rows, stage, request, current, results, outcome, catalog, active, adapters, faults>>

Adapter == INSTANCE CommandPromise WITH Commands <- Requests \X Targets

Ended == {"replied", "conflict", "failed", "lost"}
Running == {"claimed", "resolving", "running", "calling", "noting", "recording"}
Stages == {"new"} \union Running \union Ended
Results == {"none", "succeeded", "unavailable", "failed"}
NoResults == [t \in Targets |-> "none"]
OutcomeTypes ==
    [status : {"succeeded", "partially_succeeded", "failed", "rejected"},
     results : [Targets -> Results]]
NoOutcome == [status |-> "none", results |-> NoResults]
Rejected == [status |-> "rejected", results |-> NoResults]

TypeOK ==
    /\ rowStatus \in [Keys -> {"absent", "pending", "completed"}]
    /\ rowProposal \in [Keys -> Proposals \union {None}]
    /\ rowOutcome \in [Keys -> OutcomeTypes \union {NoOutcome}]
    /\ stage \in [Requests -> Stages]
    /\ key \in [Requests -> Keys \union {None}]
    /\ proposal \in [Requests -> Proposals \union {None}]
    /\ current \in [Requests -> Targets \union {None}]
    /\ results \in [Requests -> [Targets -> Results]]
    /\ outcome \in [Requests -> OutcomeTypes \union {NoOutcome}]
    /\ catalog \subseteq Targets
    /\ active \in BOOLEAN
    /\ Adapter!PromiseTypeOK
    /\ auditFailures \in 0..MaxAuditFailures
    /\ crashes \in 0..MaxCrashes

Init ==
    /\ rowStatus = [k \in Keys |-> "absent"]
    /\ rowProposal = [k \in Keys |-> None]
    /\ rowOutcome = [k \in Keys |-> NoOutcome]
    /\ stage = [r \in Requests |-> "new"]
    /\ key = [r \in Requests |-> None]
    /\ proposal = [r \in Requests |-> None]
    /\ current = [r \in Requests |-> None]
    /\ results = [r \in Requests |-> NoResults]
    /\ outcome = [r \in Requests |-> NoOutcome]
    /\ catalog = Targets
    /\ active = TRUE
    /\ Adapter!PromiseInit
    /\ auditFailures = 0
    /\ crashes = 0

Goes(r, to) == stage' = [stage EXCEPT ![r] = to]

-------------------------------------------------------------------------------
(* ActionExecutionService: claim, replay, complete.                         *)

\* As in GatewayCommands, altered variants stand before the definition they alter
\* and no specification uses them.
ClaimUnlessCompleted(r, k, p) ==
    /\ stage[r] = "new"
    /\ rowStatus[k] # "completed"
    /\ rowStatus' = [rowStatus EXCEPT ![k] = "pending"]
    /\ rowProposal' = [rowProposal EXCEPT ![k] = p]
    /\ key' = [key EXCEPT ![r] = k]
    /\ proposal' = [proposal EXCEPT ![r] = p]
    /\ Goes(r, "claimed")
    /\ UNCHANGED <<rowOutcome, current, results, outcome, catalog, active, adapters, faults>>

\* INSERT ... ON CONFLICT DO NOTHING inserted the row.
Claim(r, k, p) ==
    /\ stage[r] = "new"
    /\ rowStatus[k] = "absent"
    /\ rowStatus' = [rowStatus EXCEPT ![k] = "pending"]
    /\ rowProposal' = [rowProposal EXCEPT ![k] = p]
    /\ key' = [key EXCEPT ![r] = k]
    /\ proposal' = [proposal EXCEPT ![r] = p]
    /\ Goes(r, "claimed")
    /\ UNCHANGED <<rowOutcome, current, results, outcome, catalog, active, adapters, faults>>

\* The stored outcome answers the same request only, once it is completed.
Replayable(k, p) == rowProposal[k] = p /\ rowStatus[k] = "completed"

\* The key was taken: replay the stored outcome, or answer 409.
Replay(r, k, p) ==
    /\ stage[r] = "new"
    /\ rowStatus[k] # "absent"
    /\ key' = [key EXCEPT ![r] = k]
    /\ proposal' = [proposal EXCEPT ![r] = p]
    /\ outcome' = [outcome EXCEPT ![r] = IF Replayable(k, p) THEN rowOutcome[k] ELSE @]
    /\ Goes(r, IF Replayable(k, p) THEN "replied" ELSE "conflict")
    /\ UNCHANGED <<rows, current, results, catalog, active, adapters, faults>>

\* "action.completed" (or "action.rejected") is recorded, the row completed and
\* the request answered.
Complete(r) ==
    /\ stage[r] = "recording"
    /\ LET k == key[r] IN
       IF rowStatus[k] = "pending"
       THEN /\ rowStatus' = [rowStatus EXCEPT ![k] = "completed"]
            /\ rowOutcome' = [rowOutcome EXCEPT ![k] = outcome[r]]
            /\ Goes(r, "replied")
       ELSE Goes(r, "failed") /\ UNCHANGED <<rowStatus, rowOutcome>>
    /\ UNCHANGED <<rowProposal, request, current, results, outcome, catalog, active, adapters,
                   faults>>

-------------------------------------------------------------------------------
(* ActionOrchestrator and DeviceActionHandler.                              *)

\* The orchestrator settles the request's outcome; it is recorded next.
Settle(r, o) ==
    /\ outcome' = [outcome EXCEPT ![r] = o]
    /\ Goes(r, "recording")

\* TenantBoundary finds the Space or an account disabled since the session was accepted.
\* Nothing catches its ForbiddenException: the key is claimed by then and stays pending.
BoundaryRefuses(r) ==
    /\ stage[r] = "claimed"
    /\ ~active
    /\ Goes(r, "failed")
    /\ UNCHANGED <<rows, request, current, results, outcome, catalog, active, adapters, faults>>

DecideWithoutPolicy(r) ==
    /\ stage[r] = "claimed"
    /\ active
    /\ Goes(r, "resolving")
    /\ UNCHANGED <<rows, request, current, results, outcome, catalog, active, adapters, faults>>

\* The policy comes before anything is looked up or executed.
Decide(r) ==
    /\ stage[r] = "claimed"
    /\ active
    /\ IF proposal[r] \in Forbidden
       THEN Settle(r, Rejected)
       ELSE Goes(r, "resolving") /\ UNCHANGED outcome
    /\ UNCHANGED <<rows, request, current, results, catalog, active, adapters, faults>>

ResolveUncaught(r) ==
    /\ stage[r] = "resolving"
    /\ Goes(r, IF TargetsOf[proposal[r]] \subseteq catalog THEN "running" ELSE "failed")
    /\ UNCHANGED <<rows, request, current, results, outcome, catalog, active, adapters, faults>>

\* DeviceTargetNotFoundException and DeviceCapabilityUnsupportedException become
\* a rejected outcome.
Resolve(r) ==
    /\ stage[r] = "resolving"
    /\ IF TargetsOf[proposal[r]] \subseteq catalog
       THEN Goes(r, "running") /\ UNCHANGED outcome
       ELSE Settle(r, Rejected)
    /\ UNCHANGED <<rows, request, current, results, catalog, active, adapters, faults>>

Left(r) == {t \in TargetsOf[proposal[r]] : results[r][t] = "none"}

CountUnavailableToo(r) ==
    LET good == {t \in TargetsOf[proposal[r]] : results[r][t] # "failed"} IN
    [status |-> CASE good = TargetsOf[proposal[r]] -> "succeeded"
                  [] good = {}                     -> "failed"
                  [] OTHER                         -> "partially_succeeded",
     results |-> results[r]]

OutcomeOnlyOnSuccess(r) ==
    [status |-> IF \A t \in TargetsOf[proposal[r]] : results[r][t] = "succeeded"
                THEN "succeeded" ELSE "none",
     results |-> results[r]]

OutcomeOf(r) ==
    LET good == {t \in TargetsOf[proposal[r]] : results[r][t] = "succeeded"} IN
    [status |-> CASE good = TargetsOf[proposal[r]] -> "succeeded"
                  [] good = {}                     -> "failed"
                  [] OTHER                         -> "partially_succeeded",
     results |-> results[r]]

Finish(r) ==
    /\ stage[r] = "running"
    /\ Left(r) = {}
    /\ Settle(r, OutcomeOf(r))
    /\ UNCHANGED <<rows, request, current, results, catalog, active, adapters, faults>>

-------------------------------------------------------------------------------
(* DeviceCommandService.execute for the next target.                        *)

\* Since it was resolved the device was unpaired, or lost the capability: what a Zigbee
\* device offers is read from its gateway's last health report.  The exception ends the
\* whole action as rejected, and the results of the targets before it are dropped.
FindsTargetGone(r, t) ==
    /\ stage[r] = "running"
    /\ t \in Left(r) \ catalog
    /\ Settle(r, Rejected)
    /\ UNCHANGED <<rows, request, current, results, catalog, active, adapters, faults>>

\* DeviceCommandInvalidException is not one the orchestrator catches.
FindsArgumentsInvalid(r, t) ==
    /\ stage[r] = "running"
    /\ t \in Left(r) \intersect catalog
    /\ proposal[r] \in Malformed
    /\ Goes(r, "failed")
    /\ UNCHANGED <<rows, request, current, results, outcome, catalog, active, adapters, faults>>

\* "action.adapter.invoked" is recorded and the adapter called.  An offline
\* gateway refuses the command at once.
Invoke(r, t) ==
    /\ stage[r] = "running"
    /\ t \in Left(r) \intersect catalog
    /\ proposal[r] \notin Malformed
    /\ \/ /\ Adapter!Accept(<<r, t>>)
          /\ current' = [current EXCEPT ![r] = t]
          /\ Goes(r, "calling")
          /\ UNCHANGED results
       \/ /\ Adapter!Refuse(<<r, t>>)
          /\ results' = [results EXCEPT ![r][t] = "unavailable"]
          /\ Goes(r, "noting")
          /\ UNCHANGED current
    /\ UNCHANGED <<rows, request, outcome, catalog, active, faults>>

\* The adapter confirmed; failing to record that is caught.
Confirmed(r) ==
    /\ stage[r] = "calling"
    /\ Adapter!Confirm(<<r, current[r]>>)
    /\ results' = [results EXCEPT ![r][current[r]] = "succeeded"]
    /\ current' = [current EXCEPT ![r] = None]
    /\ Goes(r, "running")
    /\ UNCHANGED <<rows, request, outcome, catalog, active, faults>>

AuditFailure ==
    /\ auditFailures < MaxAuditFailures
    /\ auditFailures' = auditFailures + 1
    /\ UNCHANGED crashes

\* NanoleafIntegrationService records its own success inside the adapter call; when
\* that fails the call counts as failed although the device obeyed.
ConfirmedUnrecorded(r) ==
    /\ stage[r] = "calling"
    /\ AuditFailure
    /\ Adapter!Confirm(<<r, current[r]>>)
    /\ results' = [results EXCEPT ![r][current[r]] = "failed"]
    /\ current' = [current EXCEPT ![r] = None]
    /\ Goes(r, "noting")
    /\ UNCHANGED <<rows, request, outcome, catalog, active>>

\* A failed report, a timeout or no answer.
Unconfirmed(r, result) ==
    /\ stage[r] = "calling"
    /\ result \in {"failed", "unavailable"}
    /\ Adapter!GiveUp({<<r, current[r]>>})
    /\ results' = [results EXCEPT ![r][current[r]] = result]
    /\ current' = [current EXCEPT ![r] = None]
    /\ Goes(r, "noting")
    /\ UNCHANGED <<rows, request, outcome, catalog, active, faults>>

\* "action.adapter.failed" is recorded and the next target follows.
Note(r) ==
    /\ stage[r] = "noting"
    /\ Goes(r, "running")
    /\ UNCHANGED <<rows, request, current, results, outcome, catalog, active, adapters, faults>>

-------------------------------------------------------------------------------
(* The environment.                                                         *)

\* The device obeys, be it after the caller has given up.
Perform(r, t) ==
    /\ Adapter!Perform(<<r, t>>)
    /\ UNCHANGED <<rows, stage, request, current, results, outcome, catalog, active, faults>>

\* A record that no runCatching guards throws: the request ends in an error and
\* the row stays pending.
AuditFails(r) ==
    /\ \/ stage[r] = "claimed" /\ active
       \/ stage[r] \in {"resolving", "noting", "recording"}
       \/ /\ stage[r] = "running"
          /\ Left(r) \intersect catalog # {}
          /\ proposal[r] \notin Malformed
    /\ AuditFailure
    /\ Goes(r, "failed")
    /\ UNCHANGED <<rows, request, current, results, outcome, catalog, active, adapters>>

\* Core dies: every request in flight is lost, the rows and devices are not.
Crash ==
    /\ crashes < MaxCrashes
    /\ crashes' = crashes + 1
    /\ \E r \in Requests : stage[r] \in Running
    /\ stage' = [r \in Requests |-> IF stage[r] \in Running THEN "lost" ELSE stage[r]]
    /\ Adapter!GiveUp({c \in Requests \X Targets : answer[c] = "open"})
    /\ UNCHANGED <<rows, request, current, results, outcome, catalog, active, auditFailures>>

\* A device is paired or unpaired, or a health report gives it a capability or takes it.
CatalogChanges(t) ==
    /\ t \in Changing
    /\ catalog' = IF t \in catalog THEN catalog \ {t} ELSE catalog \union {t}
    /\ UNCHANGED <<rows, stage, request, current, results, outcome, active, adapters, faults>>

\* The account or its Space is disabled, or enabled again.
AccountChanges ==
    /\ active' = ~active
    /\ UNCHANGED <<rows, stage, request, current, results, outcome, catalog, adapters, faults>>

Surroundings == AccountChanges \/ \E t \in Targets : CatalogChanges(t)

-------------------------------------------------------------------------------
Progress(r) ==
    \/ BoundaryRefuses(r) \/ Decide(r) \/ Resolve(r)
    \/ Finish(r) \/ Complete(r) \/ Note(r)
    \/ \E t \in Targets :
          FindsTargetGone(r, t) \/ FindsArgumentsInvalid(r, t) \/ Invoke(r, t)
    \/ Confirmed(r)
    \/ \E result \in Results : Unconfirmed(r, result)

Next ==
    \/ \E r \in Requests :
          \/ \E k \in Keys, p \in Proposals : Claim(r, k, p) \/ Replay(r, k, p)
          \/ Progress(r)
          \/ ConfirmedUnrecorded(r)
          \/ AuditFails(r)
          \/ \E t \in Targets : Perform(r, t)
    \/ Crash
    \/ Surroundings

Spec == Init /\ [][Next]_vars

-------------------------------------------------------------------------------
(* Safety.                                                                  *)

\* However often a client repeats a request, and whatever crashed in between, a
\* device performs the action of one idempotency key at most once.
PerformedOncePerKey ==
    \A k \in Keys, t \in Targets :
        Cardinality({r \in Requests : key[r] = k /\ performed[<<r, t>>] = 1}) <= 1

\* Every request answered under one key asked the same thing and got the same
\* outcome, the stored one.
RepliesAgree ==
    \A r \in Requests :
        stage[r] = "replied" =>
            /\ rowStatus[key[r]] = "completed"
            /\ outcome[r] = rowOutcome[key[r]]
            /\ proposal[r] = rowProposal[key[r]]

\* What a reply claims of a device, a device did: "succeeded" per target, and for
\* the whole action only if every target did it ("a positive action outcome can
\* only be derived from the real domain result").
RepliesAreTrue ==
    \A r \in Requests : stage[r] = "replied" =>
        \A t \in TargetsOf[proposal[r]] :
            outcome[r].results[t] = "succeeded" \/ outcome[r].status = "succeeded" =>
                \E s \in Requests : key[s] = key[r] /\ performed[<<s, t>>] = 1

\* A rejected action has not been carried out on any of its devices.
RejectedDidNothing ==
    \A r \in Requests : stage[r] = "replied" /\ outcome[r].status = "rejected" =>
        \A s \in Requests, t \in Targets : key[s] = key[r] => performed[<<s, t>>] = 0

\* What devices did, and what requests were answered.
Deeds == {d \in [request : Requests, key : Keys, device : Targets] :
             d.key = key[d.request] /\ performed[<<d.request, d.device>>] = 1}

Replies == [r \in Requests |->
    IF stage[r] = "replied"
    THEN [key |-> key[r], proposal |-> proposal[r], outcome |-> outcome[r]]
    ELSE None]

Promise == INSTANCE ActionPromise WITH
    Refused <- Forbidden \union Malformed,
    asked <- rowProposal, done <- Deeds, settled <- rowOutcome, told <- Replies

\* Taken together the claims, retries, policy, calls and replies keep ActionPromise: one
\* proposal and one outcome per key, carried out only by the devices it names and only
\* when the policy and its arguments permit, repeated only to who asks for the same.
KeepsActionPromise == Promise!PromiseSpec

\* A confirmed command is reported as confirmed although the audit log failed.
AuditFailureKeepsConfirmation ==
    \A r \in Requests, t \in Targets : answer[<<r, t>>] = "confirmed" =>
        /\ stage[r] # "failed"
        /\ results[r][t] = "succeeded"

-------------------------------------------------------------------------------
(* Liveness: a request's thread keeps running unless Core crashes, and an   *)
(* adapter call always returns (CallersReturn in GatewayCommands; HTTP      *)
(* timeouts in NanoleafClient).                                             *)

FairSpec == Spec /\ \A r \in Requests : WF_vars(Progress(r))

\* As long as Core does not crash, no audit record fails and the owner's account and Space
\* stay enabled, every well-formed request that claimed its key leaves a stored outcome
\* behind, also when its devices come and go or stay mute.  Each of the four conditions is
\* needed: AuditFails, Crash, BoundaryRefuses and FindsArgumentsInvalid leave the key
\* pending for ever, and every repetition is then answered 409.
ClaimsAreSettled ==
    [](auditFailures = 0 /\ crashes = 0 /\ active) =>
        \A k \in Keys :
            rowStatus[k] = "pending" /\ rowProposal[k] \notin Malformed
                ~> rowStatus[k] = "completed"

===============================================================================
