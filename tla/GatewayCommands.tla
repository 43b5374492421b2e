---------------------------- MODULE GatewayCommands ----------------------------
(***************************************************************************)
(* The queue of device commands between Core and the gateway agents.        *)
(*                                                                         *)
(* Core (GatewayCommand.kt) inserts a row per command and, for a confirmed  *)
(* command, polls that row until it is terminal or the polls run out.  Each *)
(* gateway runs one agent (gateway-agent cli.py): it asks Core for the next *)
(* command, sends it to the device, and reports how that went.  Requests    *)
(* and replies can be lost or overtaken by the agent's HTTP timeout, in     *)
(* which case Core may still serve a request nobody is waiting for (a       *)
(* "stray" request).  Agents and Core can crash and restart; only the       *)
(* database survives.                                                       *)
(***************************************************************************)
EXTENDS Naturals, FiniteSets

CONSTANTS
    Commands,    \* ids of gateway commands (UUIDs, each used once)
    Gateways,    \* gateway nodes
    None,        \* "no command" / "no gateway yet"
    MaxPolls,    \* polls of executeConfirmed: 48 in the code
    MaxFaults    \* bound: losses, crashes and audit failures in one behaviour

ASSUME NoneAssumption == None \notin Commands /\ None \notin Gateways
ASSUME BoundsAssumption == MaxPolls \in Nat \ {0} /\ MaxFaults \in Nat

VARIABLES
    status,       \* gateway_command.status of each command, "absent" before its INSERT
    node,         \* gateway_command.node_id
    createdAt,    \* gateway_command.created_at
    offline,      \* gateway_node.last_seen_at is more than 45 s ago
    caller,       \* where the call that issued each command stands
    polls,        \* polls the call has left
    pc,           \* where each agent's loop stands
    cmd,          \* the command each agent holds
    ok,           \* the result each agent reports or reported for it
    strayNext,    \* abandoned "next command" requests Core may still serve
    strayReports, \* abandoned reports Core may still serve
    clock,        \* Core's clock: created_at of the next command
    faults,       \* faults so far
    dispatches,   \* history: how often each command was sent to its device
    earlier       \* history: the rows that existed when each command was stamped

database == <<status, node, createdAt, offline>>
agents   == <<pc, cmd, ok>>
network  == <<strayNext, strayReports>>
history  == <<dispatches, earlier>>
vars == <<database, caller, polls, agents, network, clock, faults, history>>

Terminal == {"succeeded", "failed"}
Statuses == {"absent", "pending", "running"} \union Terminal
CallerStates ==
    {"new", "stamped", "polling", "detached", "confirmed", "failed",
     "timeout", "unavailable", "broken"}
AgentStates ==
    {"idle", "asking", "answered", "executing", "reporting", "acknowledged", "refused"}

ReportTypes == [gateway : Gateways, cmd : Commands, ok : BOOLEAN]

TypeOK ==
    /\ status \in [Commands -> Statuses]
    /\ node \in [Commands -> Gateways \union {None}]
    /\ createdAt \in [Commands -> Nat]
    /\ offline \in [Gateways -> BOOLEAN]
    /\ caller \in [Commands -> CallerStates]
    /\ polls \in [Commands -> 0..MaxPolls]
    /\ pc \in [Gateways -> AgentStates]
    /\ cmd \in [Gateways -> Commands \union {None}]
    /\ ok \in [Gateways -> BOOLEAN]
    /\ strayNext \in [Gateways -> Nat]
    /\ strayReports \subseteq ReportTypes
    /\ clock \in Nat
    /\ faults \in 0..MaxFaults
    /\ dispatches \in [Commands -> Nat]
    /\ earlier \in [Commands -> SUBSET Commands]

Init ==
    /\ status = [c \in Commands |-> "absent"]
    /\ node = [c \in Commands |-> None]
    /\ createdAt = [c \in Commands |-> 0]
    /\ offline = [g \in Gateways |-> FALSE]
    /\ caller = [c \in Commands |-> "new"]
    /\ polls = [c \in Commands |-> 0]
    /\ pc = [g \in Gateways |-> "idle"]
    /\ cmd = [g \in Gateways |-> None]
    /\ ok = [g \in Gateways |-> FALSE]
    /\ strayNext = [g \in Gateways |-> 0]
    /\ strayReports = {}
    /\ clock = 0
    /\ faults = 0
    /\ dispatches = [c \in Commands |-> 0]
    /\ earlier = [c \in Commands |-> {}]

Fault ==
    /\ faults < MaxFaults
    /\ faults' = faults + 1

-------------------------------------------------------------------------------
(* Callers in Core: GatewayCommandService.enqueue and executeConfirmed.     *)

\* enqueue turns away only an "offline" gateway.  "online", "degraded" and, before
\* the first heartbeat, "unknown" all pass.
Available(g) == ~offline[g]

\* enqueue refuses: the gateway is offline.
Refuse(c, g) ==
    /\ caller[c] = "new"
    /\ ~Available(g)
    /\ caller' = [caller EXCEPT ![c] = "unavailable"]
    /\ UNCHANGED <<database, polls, agents, network, clock, faults, history>>

\* enqueue found the gateway available and took the clock for created_at.
Stamp(c, g) ==
    /\ caller[c] = "new"
    /\ Available(g)
    /\ caller' = [caller EXCEPT ![c] = "stamped"]
    /\ node' = [node EXCEPT ![c] = g]
    /\ createdAt' = [createdAt EXCEPT ![c] = clock]
    /\ clock' = clock + 1
    /\ earlier' = [earlier EXCEPT ![c] = {d \in Commands : status[d] # "absent"}]
    /\ UNCHANGED <<status, offline, polls, agents, network, faults, dispatches>>

\* The INSERT committed and the activity record too; a confirmed command is
\* polled for, a fire-and-forget one is left to itself.
Insert(c, next) ==
    /\ caller[c] = "stamped"
    /\ next \in {"polling", "detached"}
    /\ status' = [status EXCEPT ![c] = "pending"]
    /\ caller' = [caller EXCEPT ![c] = next]
    /\ polls' = [polls EXCEPT ![c] = IF next = "polling" THEN MaxPolls ELSE 0]
    /\ UNCHANGED <<node, createdAt, offline, agents, network, clock, faults, history>>

\* The INSERT committed but activity.record threw: enqueue fails and leaves
\* the row behind (there is no transaction around the two).
InsertUnrecorded(c) ==
    /\ caller[c] = "stamped"
    /\ Fault
    /\ status' = [status EXCEPT ![c] = "pending"]
    /\ caller' = [caller EXCEPT ![c] = "broken"]
    /\ UNCHANGED <<node, createdAt, offline, polls, agents, network, clock, history>>

\* Altered variants of the code, named for the mistake they make, stand before the
\* definition they alter.  No specification uses them; each shows that some property
\* below can fail.
PollPastTheEnd(c) ==
    /\ caller[c] = "polling"
    /\ polls' = [polls EXCEPT ![c] = @ - 1]
    /\ UNCHANGED <<database, caller, agents, network, clock, faults, history>>

PollTakesRunningForDone(c) ==
    /\ caller[c] = "polling"
    /\ polls[c] > 0
    /\ polls' = [polls EXCEPT ![c] = @ - 1]
    /\ caller' = [caller EXCEPT ![c] =
                    CASE status[c] \in {"running", "succeeded"} -> "confirmed"
                      [] status[c] = "failed"                   -> "failed"
                      [] OTHER                                  -> "polling"]
    /\ UNCHANGED <<database, agents, network, clock, faults, history>>

PollWithoutLimit(c) ==
    /\ caller[c] = "polling"
    /\ caller' = [caller EXCEPT ![c] =
                    CASE status[c] = "succeeded" -> "confirmed"
                      [] status[c] = "failed"    -> "failed"
                      [] OTHER                   -> "polling"]
    /\ UNCHANGED <<database, polls, agents, network, clock, faults, history>>

Poll(c) ==
    /\ caller[c] = "polling"
    /\ polls[c] > 0
    /\ polls' = [polls EXCEPT ![c] = @ - 1]
    /\ caller' = [caller EXCEPT ![c] =
                    CASE status[c] = "succeeded" -> "confirmed"
                      [] status[c] = "failed"    -> "failed"
                      [] OTHER                   -> "polling"]
    /\ UNCHANGED <<database, agents, network, clock, faults, history>>

\* "adapter.timeout": the row is left as it is, so it may still be claimed.
TimeOut(c) ==
    /\ caller[c] = "polling"
    /\ polls[c] = 0
    /\ caller' = [caller EXCEPT ![c] = "timeout"]
    /\ UNCHANGED <<database, polls, agents, network, clock, faults, history>>

\* Core stops: the calls it was serving are gone, the rows are not.
CoreRestart ==
    /\ Fault
    /\ \E c \in Commands : caller[c] \in {"stamped", "polling"}
    /\ caller' = [c \in Commands |->
                    IF caller[c] \in {"stamped", "polling"} THEN "broken" ELSE caller[c]]
    /\ UNCHANGED <<database, polls, agents, network, clock, history>>

-------------------------------------------------------------------------------
(* Core serving an agent: GatewayCommandRepository.claim and complete.      *)

PendingOrRunning(g) ==
    {c \in Commands : status[c] \in {"pending", "running"} /\ node[c] = g}

PendingWhenNothingRuns(g) ==
    {c \in Commands : /\ status[c] = "pending" /\ node[c] = g
                      /\ \A d \in Commands : node[d] = g => status[d] # "running"}

Pending(g) == {c \in Commands : status[c] = "pending" /\ node[c] = g}

AnyPending(g) == Pending(g)

Oldest(g) == {c \in Pending(g) : \A d \in Pending(g) : createdAt[c] <= createdAt[d]}

\* The claim for gateway g that hands out c, None when nothing is pending.
Claim(g, c) ==
    IF Pending(g) = {}
    THEN c = None /\ UNCHANGED status
    ELSE c \in Oldest(g) /\ status' = [status EXCEPT ![c] = "running"]

Outcome(well) == IF well THEN "succeeded" ELSE "failed"

AcceptsAlways(g, c) == status[c] # "absent" /\ node[c] = g

\* complete() changes only a running row of the reporting gateway.
Accepts(g, c) == status[c] = "running" /\ node[c] = g

Complete(g, c, well) ==
    status' = IF Accepts(g, c) THEN [status EXCEPT ![c] = Outcome(well)] ELSE status

ServeNext(g) ==
    /\ pc[g] = "asking"
    /\ \E c \in Commands \union {None} :
          /\ Claim(g, c)
          /\ cmd' = [cmd EXCEPT ![g] = c]
    /\ pc' = [pc EXCEPT ![g] = "answered"]
    /\ UNCHANGED <<node, createdAt, offline, caller, polls, ok, network, clock, faults, history>>

\* The claim commits although the agent stopped waiting: nobody gets the command.
ServeStrayNext(g) ==
    /\ strayNext[g] > 0
    /\ strayNext' = [strayNext EXCEPT ![g] = @ - 1]
    /\ \E c \in Commands \union {None} : Claim(g, c)
    /\ UNCHANGED <<node, createdAt, offline, caller, polls, agents, strayReports, clock,
                   faults, history>>

ServeReport(g) ==
    /\ pc[g] = "reporting"
    /\ Complete(g, cmd[g], ok[g])
    /\ pc' = [pc EXCEPT ![g] = IF Accepts(g, cmd[g]) THEN "acknowledged" ELSE "refused"]
    /\ UNCHANGED <<node, createdAt, offline, caller, polls, cmd, ok, network, clock, faults,
                   history>>

\* The row was updated, then activity.record threw: the agent gets an error.
ServeReportUnrecorded(g) ==
    /\ pc[g] = "reporting"
    /\ Accepts(g, cmd[g])
    /\ Fault
    /\ Complete(g, cmd[g], ok[g])
    /\ pc' = [pc EXCEPT ![g] = "refused"]
    /\ UNCHANGED <<node, createdAt, offline, caller, polls, cmd, ok, network, clock, history>>

ServeStrayReport(r) ==
    /\ strayReports' = strayReports \ {r}
    /\ Complete(r.gateway, r.cmd, r.ok)
    /\ UNCHANGED <<node, createdAt, offline, caller, polls, agents, strayNext, clock,
                   faults, history>>

-------------------------------------------------------------------------------
(* The agent's loop: cli.py main and _execute_command.                      *)

Heartbeat(g) ==
    /\ pc[g] = "idle"
    /\ offline[g]
    /\ offline' = [offline EXCEPT ![g] = FALSE]
    /\ UNCHANGED <<status, node, createdAt, caller, polls, agents, network, clock, faults,
                   history>>

\* 45 s passed without a heartbeat.
HeartbeatAges(g) ==
    /\ ~offline[g]
    /\ offline' = [offline EXCEPT ![g] = TRUE]
    /\ UNCHANGED <<status, node, createdAt, caller, polls, agents, network, clock, faults,
                   history>>

\* The agent goes back to its loop with empty hands.
GoIdle(g) ==
    /\ pc' = [pc EXCEPT ![g] = "idle"]
    /\ cmd' = [cmd EXCEPT ![g] = None]
    /\ ok' = [ok EXCEPT ![g] = FALSE]

AskNext(g) ==
    /\ pc[g] = "idle"
    /\ pc' = [pc EXCEPT ![g] = "asking"]
    /\ UNCHANGED <<database, caller, polls, cmd, ok, network, clock, faults, history>>

ReceiveNext(g) ==
    /\ pc[g] = "answered"
    /\ pc' = [pc EXCEPT ![g] = IF cmd[g] = None THEN "idle" ELSE "executing"]
    /\ UNCHANGED <<database, caller, polls, cmd, ok, network, clock, faults, history>>

ExecuteSwallowsFailure(g, dispatched, well) ==
    /\ pc[g] = "executing"
    /\ well => dispatched
    /\ dispatches' = [dispatches EXCEPT ![cmd[g]] = IF dispatched THEN @ + 1 ELSE @]
    /\ pc' = [pc EXCEPT ![g] = IF well THEN "reporting" ELSE "idle"]
    /\ cmd' = [cmd EXCEPT ![g] = IF well THEN @ ELSE None]
    /\ ok' = [ok EXCEPT ![g] = well]
    /\ UNCHANGED <<database, caller, polls, network, clock, faults, earlier>>

\* The adapter call.  It can fail before the order leaves the gateway, or after
\* it did (a confirmation that never came); success means that it left.
Execute(g, dispatched, well) ==
    /\ pc[g] = "executing"
    /\ well => dispatched
    /\ dispatches' = [dispatches EXCEPT ![cmd[g]] = IF dispatched THEN @ + 1 ELSE @]
    /\ pc' = [pc EXCEPT ![g] = "reporting"]
    /\ ok' = [ok EXCEPT ![g] = well]
    /\ UNCHANGED <<database, caller, polls, cmd, network, clock, faults, earlier>>

\* A failed success report raises inside the try of _execute_command, whose
\* except clause then reports EXECUTION_FAILED; a failed failure report ends
\* the round.
AfterReportError(g) ==
    /\ pc' = [pc EXCEPT ![g] = IF ok[g] THEN "reporting" ELSE "idle"]
    /\ cmd' = [cmd EXCEPT ![g] = IF ok[g] THEN @ ELSE None]
    /\ ok' = [ok EXCEPT ![g] = FALSE]

ReceiveAcknowledgement(g) ==
    /\ pc[g] = "acknowledged"
    /\ GoIdle(g)
    /\ UNCHANGED <<database, caller, polls, network, clock, faults, history>>

ReceiveRefusal(g) ==
    /\ pc[g] = "refused"
    /\ AfterReportError(g)
    /\ UNCHANGED <<database, caller, polls, network, clock, faults, history>>

-------------------------------------------------------------------------------
(* Faults between an agent and Core.                                        *)

\* What becomes of the request the agent stops waiting for: it is dropped, or
\* Core serves it later.
Abandon(g, dropped) ==
    /\ strayNext' = IF pc[g] = "asking" /\ ~dropped
                    THEN [strayNext EXCEPT ![g] = @ + 1] ELSE strayNext
    /\ strayReports' = IF pc[g] = "reporting" /\ ~dropped
                       THEN strayReports \union
                              {[gateway |-> g, cmd |-> cmd[g], ok |-> ok[g]]}
                       ELSE strayReports

LoseNext(g, dropped) ==
    /\ pc[g] \in {"asking", "answered"}
    /\ Fault
    /\ Abandon(g, dropped)
    /\ GoIdle(g)
    /\ UNCHANGED <<database, caller, polls, clock, history>>

LoseReport(g, dropped) ==
    /\ pc[g] \in {"reporting", "acknowledged"}
    /\ Fault
    /\ Abandon(g, dropped)
    /\ AfterReportError(g)
    /\ UNCHANGED <<database, caller, polls, clock, history>>

\* The agent process dies and systemd starts it again with nothing in memory.
\* A command it was executing may or may not have left the gateway.
AgentRestart(g, dropped, dispatched) ==
    /\ pc[g] # "idle"
    /\ dispatched => pc[g] = "executing"
    /\ Fault
    /\ Abandon(g, dropped)
    /\ dispatches' = IF dispatched THEN [dispatches EXCEPT ![cmd[g]] = @ + 1]
                     ELSE dispatches
    /\ GoIdle(g)
    /\ UNCHANGED <<database, caller, polls, clock, earlier>>

-------------------------------------------------------------------------------
CallerStep(c) ==
    \/ \E g \in Gateways : Refuse(c, g) \/ Stamp(c, g)
    \/ \E next \in {"polling", "detached"} : Insert(c, next)
    \/ InsertUnrecorded(c)
    \/ Poll(c)
    \/ TimeOut(c)

ServeStep(g) ==
    ServeNext(g) \/ ServeStrayNext(g) \/ ServeReport(g) \/ ServeReportUnrecorded(g)

AgentStep(g) ==
    \/ Heartbeat(g) \/ HeartbeatAges(g)
    \/ AskNext(g) \/ ReceiveNext(g) \/ ReceiveAcknowledgement(g) \/ ReceiveRefusal(g)
    \/ \E dispatched, well \in BOOLEAN : Execute(g, dispatched, well)

FaultStep(g) ==
    \E dropped \in BOOLEAN :
        \/ LoseNext(g, dropped)
        \/ LoseReport(g, dropped)
        \/ \E dispatched \in BOOLEAN : AgentRestart(g, dropped, dispatched)

Next ==
    \/ \E c \in Commands : CallerStep(c)
    \/ CoreRestart
    \/ \E g \in Gateways : ServeStep(g) \/ AgentStep(g) \/ FaultStep(g)
    \/ \E r \in strayReports : ServeStrayReport(r)

Spec == Init /\ [][Next]_vars

-------------------------------------------------------------------------------
(* Safety.                                                                  *)

\* No loss, timeout, stray request or restart makes a gateway send a command to
\* its device twice (claim hands a pending row out once and never takes it back).
SentAtMostOnce == \A c \in Commands : dispatches[c] <= 1

\* A command counts as succeeded, and its caller is told so, only when the order
\* did go out to the device: "success after timeout" or after a failed adapter
\* call must not happen.
SuccessWasSent ==
    \A c \in Commands :
        status[c] = "succeeded" \/ caller[c] = "confirmed" => dispatches[c] = 1

\* What a caller was told still agrees with the row: later reports, strays and
\* contradictory reports of one command never turn a told result around.
ToldResultStands ==
    \A c \in Commands :
        /\ caller[c] = "confirmed" => status[c] = "succeeded"
        /\ caller[c] = "failed" => status[c] = "failed"

\* The command an agent works on is addressed to it, is no longer pending, and no
\* other agent works on it.
HasTaken(g, c) ==
    cmd[g] = c /\ pc[g] \in {"answered", "executing", "reporting"}

TakenByItsGateway ==
    \A g \in Gateways, c \in Commands :
        HasTaken(g, c) => /\ node[c] = g
                          /\ status[c] # "pending"
                          /\ \A h \in Gateways \ {g} : ~HasTaken(h, c)

\* Commands reach a gateway's devices in the order they were issued: when c goes
\* out, nothing issued after c's row existed has gone out on that gateway before
\* (an "off" never overtakes the "on" that followed it).
SentInOrder ==
    [][\A c, d \in Commands :
          /\ dispatches'[c] > dispatches[c]
          /\ c \in earlier[d]
          /\ node[c] = node[d]
          => dispatches[d] = 0]_vars

\* A terminal status is never rewritten: the first report Core accepts decides.
OutcomeIsFinal ==
    [][\A c \in Commands : status[c] \in Terminal => status'[c] = status[c]]_vars

\* The queue implements what CommandPromise promises its callers.
Told(c) ==
    CASE caller[c] = "new"                     -> "none"
      [] caller[c] = "unavailable"             -> "refused"
      [] caller[c] \in {"stamped", "polling"}  -> "open"
      [] caller[c] = "confirmed"               -> "confirmed"
      [] OTHER                                 -> "unconfirmed"

Promise == INSTANCE CommandPromise WITH
              answer <- [c \in Commands |-> Told(c)], performed <- dispatches

KeepsPromise == Promise!PromiseSpec

-------------------------------------------------------------------------------
(* Liveness.  Core serves requests, callers poll and the agent loop runs;   *)
(* faults, heartbeats and new calls need not happen.                        *)

Fairness ==
    /\ \A c \in Commands :
          WF_vars(\/ \E next \in {"polling", "detached"} : Insert(c, next)
                  \/ Poll(c) \/ TimeOut(c))
    /\ \A g \in Gateways :
          /\ WF_vars(ServeNext(g) \/ ServeReport(g))
          /\ WF_vars(\/ AskNext(g) \/ ReceiveNext(g)
                     \/ ReceiveAcknowledgement(g) \/ ReceiveRefusal(g)
                     \/ \E dispatched, well \in BOOLEAN : Execute(g, dispatched, well))

FairSpec == Spec /\ Fairness

\* A caller always gets its answer: the polls run out whatever the gateway does.
CallersReturn ==
    \A c \in Commands : caller[c] = "stamped" ~> caller[c] \notin {"stamped", "polling"}

\* A queued command is eventually taken, also when an earlier command of the same
\* gateway was lost with its claim and stays "running" for ever.
QueueKeepsMoving ==
    \A c \in Commands : status[c] = "pending" ~> status[c] # "pending"

\* While nothing is lost and nothing crashes, every queued command is settled.
SettlesWithoutFaults ==
    [](faults = 0) =>
        \A c \in Commands : status[c] = "pending" ~> status[c] \in Terminal

===============================================================================
