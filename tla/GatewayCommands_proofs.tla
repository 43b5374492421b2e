------------------------ MODULE GatewayCommands_proofs ------------------------
(***************************************************************************)
(* Theorems about GatewayCommands for any number of commands, gateways,     *)
(* polls and faults.                                                        *)
(***************************************************************************)
EXTENDS GatewayCommands, TLAPS

\* The rows, seen from their callers: nothing is inserted before the call was
\* stamped, and a stamped call has addressed a gateway at a time in the past.
Unissued(c) == caller[c] \in {"new", "unavailable"}

RowInv ==
    \A c \in Commands :
        /\ caller[c] \in {"new", "unavailable", "stamped"} => status[c] = "absent"
        /\ ~Unissued(c) => createdAt[c] < clock /\ node[c] \in Gateways
        /\ Unissued(c) => earlier[c] = {}

\* The command an agent holds is its own and was claimed.
HoldInv ==
    \A g \in Gateways :
        /\ pc[g] \in {"idle", "asking"} => cmd[g] = None
        /\ pc[g] \in {"executing", "reporting", "acknowledged", "refused"}
              => cmd[g] \in Commands
        /\ cmd[g] \in Commands =>
              /\ node[cmd[g]] = g
              /\ status[cmd[g]] \notin {"absent", "pending"}

\* A claimed command waits in an agent's hands, not yet sent.
InHand(g) == cmd[g] \in Commands /\ pc[g] \in {"answered", "executing"}

SentInv ==
    /\ \A c \in Commands :
          /\ dispatches[c] \in {0, 1}
          /\ status[c] \in {"absent", "pending"} => dispatches[c] = 0
          /\ status[c] = "succeeded" => dispatches[c] = 1
          /\ caller[c] = "confirmed" => status[c] = "succeeded"
          /\ caller[c] = "failed" => status[c] = "failed"
    /\ \A g \in Gateways :
          /\ InHand(g) => /\ status[cmd[g]] = "running"
                          /\ dispatches[cmd[g]] = 0
                          /\ \A r \in strayReports : r.cmd # cmd[g]
          /\ pc[g] = "reporting" /\ ok[g] => dispatches[cmd[g]] = 1
    /\ \A r \in strayReports :
          /\ status[r.cmd] \notin {"absent", "pending"}
          /\ r.ok => dispatches[r.cmd] = 1

\* Nothing issued after c overtakes c while c is pending or in its agent's hands.
OrderInv ==
    \A d \in Commands : \A c \in earlier[d] :
        /\ status[c] # "absent"
        /\ createdAt[c] < createdAt[d]
        /\ node[c] = node[d] =>
              /\ status[c] = "pending" => status[d] \in {"absent", "pending"}
              /\ \A g \in Gateways :
                    cmd[g] = c /\ InHand(g) => dispatches[d] = 0

IInv == TypeOK /\ RowInv /\ HoldInv /\ SentInv /\ OrderInv

-------------------------------------------------------------------------------
USE NoneAssumption, BoundsAssumption

\* The initial state has the right types.
LEMMA TypeInit == Init => TypeOK
  BY DEF Init, TypeOK, AgentStates, Statuses, CallerStates

\* What a claim does to the rows: the command handed out goes from pending to
\* running, nothing else changes.
LEMMA ClaimEffect ==
  ASSUME TypeOK, NEW g \in Gateways, NEW c \in Commands \union {None}, Claim(g, c),
         NEW d \in Commands
  PROVE  \/ d # c /\ status'[d] = status[d]
         \/ d = c /\ node[d] = g /\ status[d] = "pending" /\ status'[d] = "running"
  BY DEF TypeOK, Claim, Oldest, Pending

\* A claim leaves statuses behind.
LEMMA ClaimType ==
  ASSUME TypeOK, NEW g \in Gateways, NEW c \in Commands \union {None}, Claim(g, c)
  PROVE  status' \in [Commands -> Statuses]
  BY DEF TypeOK, Claim, Oldest, Pending, Statuses, Terminal

\* So does a report, accepted or not.
LEMMA CompleteType ==
  ASSUME TypeOK, NEW g \in Gateways, NEW c, NEW well, Complete(g, c, well)
  PROVE  status' \in [Commands -> Statuses]
  BY DEF TypeOK, Complete, Accepts, Outcome, Statuses, Terminal

\* Type correctness of every step (the shape of rows, calls and agents).
LEMMA TypeStep == TypeOK /\ HoldInv /\ [Next]_vars => TypeOK'
<1> SUFFICES ASSUME TypeOK, HoldInv, [Next]_vars PROVE TypeOK'
  OBVIOUS
<1> USE DEF TypeOK, AgentStates, CallerStates, database, agents, network, history
<1>1. ASSUME NEW c \in Commands, NEW g \in Gateways, Refuse(c, g) PROVE TypeOK'
  BY <1>1 DEF Refuse
<1>2. ASSUME NEW c \in Commands, NEW g \in Gateways, Stamp(c, g) PROVE TypeOK'
  BY <1>2 DEF Stamp
<1>3. ASSUME NEW c \in Commands, NEW next \in {"polling", "detached"}, Insert(c, next)
      PROVE TypeOK'
  BY <1>3 DEF Insert, Statuses
<1>4. ASSUME NEW c \in Commands, InsertUnrecorded(c) PROVE TypeOK'
  BY <1>4 DEF InsertUnrecorded, Fault, Statuses
<1>5. ASSUME NEW c \in Commands, Poll(c) PROVE TypeOK'
  BY <1>5 DEF Poll
<1>6. ASSUME NEW c \in Commands, TimeOut(c) PROVE TypeOK'
  BY <1>6 DEF TimeOut
<1>7. CASE CoreRestart
  BY <1>7 DEF CoreRestart, Fault
<1>8. ASSUME NEW g \in Gateways, ServeNext(g) PROVE TypeOK'
  BY <1>8, ClaimType DEF ServeNext
<1>9. ASSUME NEW g \in Gateways, ServeStrayNext(g) PROVE TypeOK'
  BY <1>9, ClaimType DEF ServeStrayNext
<1>10. ASSUME NEW g \in Gateways, ServeReport(g) PROVE TypeOK'
  BY <1>10, CompleteType DEF ServeReport
<1>11. ASSUME NEW g \in Gateways, ServeReportUnrecorded(g) PROVE TypeOK'
  BY <1>11, CompleteType DEF ServeReportUnrecorded, Fault
<1>12. ASSUME NEW r \in strayReports, ServeStrayReport(r) PROVE TypeOK'
  BY <1>12, CompleteType DEF ServeStrayReport, ReportTypes
<1>13. ASSUME NEW g \in Gateways, Heartbeat(g) \/ HeartbeatAges(g) PROVE TypeOK'
  BY <1>13 DEF Heartbeat, HeartbeatAges
<1>14. ASSUME NEW g \in Gateways, AskNext(g) PROVE TypeOK'
  BY <1>14 DEF AskNext
<1>15. ASSUME NEW g \in Gateways, ReceiveNext(g) PROVE TypeOK'
  BY <1>15 DEF ReceiveNext, GoIdle
<1>16. ASSUME NEW g \in Gateways, ReceiveAcknowledgement(g) PROVE TypeOK'
  BY <1>16 DEF ReceiveAcknowledgement, GoIdle
<1>17. ASSUME NEW g \in Gateways, ReceiveRefusal(g) PROVE TypeOK'
  BY <1>17 DEF ReceiveRefusal, AfterReportError, GoIdle
<1>18. ASSUME NEW g \in Gateways, NEW dispatched \in BOOLEAN, NEW well \in BOOLEAN,
              Execute(g, dispatched, well)
       PROVE TypeOK'
  BY <1>18 DEF Execute, HoldInv
<1>19. ASSUME NEW g \in Gateways, NEW dropped \in BOOLEAN, LoseNext(g, dropped)
       PROVE TypeOK'
  BY <1>19 DEF LoseNext, Abandon, Fault, GoIdle
<1>20. ASSUME NEW g \in Gateways, NEW dropped \in BOOLEAN, LoseReport(g, dropped)
       PROVE TypeOK'
  BY <1>20 DEF LoseReport, Abandon, AfterReportError, Fault, GoIdle, ReportTypes, HoldInv
<1>21. ASSUME NEW g \in Gateways, NEW dropped \in BOOLEAN, NEW dispatched \in BOOLEAN,
              AgentRestart(g, dropped, dispatched)
       PROVE TypeOK'
  BY <1>21 DEF AgentRestart, Abandon, Fault, GoIdle, ReportTypes, HoldInv
<1>22. CASE UNCHANGED vars
  BY <1>22 DEF vars
<1> QED
  BY <1>1, <1>2, <1>3, <1>4, <1>5, <1>6, <1>7, <1>8, <1>9, <1>10, <1>11, <1>12, <1>13,
     <1>14, <1>15, <1>16, <1>17, <1>18, <1>19, <1>20, <1>21, <1>22
  DEF Next, CallerStep, ServeStep, AgentStep, FaultStep

-------------------------------------------------------------------------------
(* The inductive invariant.                                                 *)

Inductive == RowInv /\ HoldInv /\ SentInv /\ OrderInv

\* The initial state satisfies the four parts.
LEMMA InvInit == Init => Inductive
  BY DEF Init, Inductive, RowInv, HoldInv, SentInv, OrderInv, Unissued, InHand

\* Every step keeps the four parts of the invariant.
LEMMA InvStep == IInv /\ [Next]_vars => Inductive'
<1> SUFFICES ASSUME IInv, [Next]_vars PROVE Inductive'
  OBVIOUS
<1> USE DEF IInv, Inductive, TypeOK, database, agents, network, history
<1>1. ASSUME NEW c \in Commands, NEW g \in Gateways, Refuse(c, g)
       PROVE  Inductive'
  BY <1>1
  DEF Refuse, RowInv, Unissued, HoldInv, SentInv, InHand, OrderInv
<1>2. ASSUME NEW c \in Commands, NEW g \in Gateways, Stamp(c, g)
       PROVE  Inductive'
  <2>1. RowInv'
    BY <1>2 DEF Stamp, RowInv, Unissued
  <2>2. HoldInv'
    BY <1>2 DEF Stamp, HoldInv, RowInv, Unissued
  <2>3. SentInv'
    BY <1>2 DEF Stamp, SentInv, InHand, RowInv, Unissued, HoldInv
  <2>4. OrderInv'
    BY <1>2 DEF Stamp, OrderInv, InHand, RowInv, Unissued, HoldInv, SentInv
  <2> QED  BY <2>1, <2>2, <2>3, <2>4
<1>3. ASSUME NEW c \in Commands, NEW next \in {"polling", "detached"}, Insert(c, next)
       PROVE  Inductive'
  <2>1. RowInv'
    BY <1>3 DEF Insert, RowInv, Unissued
  <2>2. HoldInv'
    BY <1>3 DEF Insert, HoldInv, RowInv, Unissued
  <2>3. SentInv'
    BY <1>3 DEF Insert, SentInv, InHand, RowInv, Unissued, HoldInv
  <2>4. OrderInv'
    BY <1>3 DEF Insert, OrderInv, InHand, RowInv, Unissued, HoldInv, SentInv
  <2> QED  BY <2>1, <2>2, <2>3, <2>4
<1>4. ASSUME NEW c \in Commands, InsertUnrecorded(c)
       PROVE  Inductive'
  <2>1. RowInv'
    BY <1>4 DEF InsertUnrecorded, RowInv, Unissued
  <2>2. HoldInv'
    BY <1>4 DEF InsertUnrecorded, HoldInv, RowInv, Unissued
  <2>3. SentInv'
    BY <1>4 DEF InsertUnrecorded, SentInv, InHand, RowInv, Unissued, HoldInv
  <2>4. OrderInv'
    BY <1>4 DEF InsertUnrecorded, OrderInv, InHand, RowInv, Unissued, HoldInv, SentInv
  <2> QED  BY <2>1, <2>2, <2>3, <2>4
<1>5. ASSUME NEW c \in Commands, Poll(c)
       PROVE  Inductive'
  BY <1>5
  DEF Poll, RowInv, Unissued, HoldInv, SentInv, InHand, OrderInv
<1>6. ASSUME NEW c \in Commands, TimeOut(c)
       PROVE  Inductive'
  BY <1>6
  DEF TimeOut, RowInv, Unissued, HoldInv, SentInv, InHand, OrderInv
<1>7. CASE CoreRestart
  BY <1>7
  DEF CoreRestart, RowInv, Unissued, HoldInv, SentInv, InHand, OrderInv
<1>8. ASSUME NEW g \in Gateways, ServeNext(g)
       PROVE  Inductive'
  <2>1. PICK c \in Commands \union {None} : Claim(g, c) /\ cmd' = [cmd EXCEPT ![g] = c]
    BY <1>8 DEF ServeNext
  <2>2. \A d \in Commands :
          \/ d # c /\ status'[d] = status[d]
          \/ d = c /\ node[d] = g /\ status[d] = "pending" /\ status'[d] = "running"
    BY <2>1, ClaimEffect
  <2>3. RowInv'
    BY <1>8, <2>2 DEF ServeNext, RowInv, Unissued
  <2>4. HoldInv'
    BY <1>8, <2>1, <2>2 DEF ServeNext, HoldInv
  <2>5. SentInv'
    BY <1>8, <2>1, <2>2 DEF ServeNext, SentInv, InHand, HoldInv, ReportTypes
  <2>6. OrderInv'
    BY <1>8, <2>1, <2>2 DEF ServeNext, OrderInv, InHand, SentInv, HoldInv, Claim, Oldest, Pending
  <2> QED  BY <2>3, <2>4, <2>5, <2>6
<1>9. ASSUME NEW g \in Gateways, ServeStrayNext(g)
       PROVE  Inductive'
  <2>1. PICK c \in Commands \union {None} : Claim(g, c)
    BY <1>9 DEF ServeStrayNext
  <2>2. \A d \in Commands :
          \/ d # c /\ status'[d] = status[d]
          \/ d = c /\ node[d] = g /\ status[d] = "pending" /\ status'[d] = "running"
    BY <2>1, ClaimEffect
  <2>3. RowInv'
    BY <1>9, <2>2 DEF ServeStrayNext, RowInv, Unissued
  <2>4. HoldInv'
    BY <1>9, <2>1, <2>2 DEF ServeStrayNext, HoldInv
  <2>5. SentInv'
    BY <1>9, <2>1, <2>2 DEF ServeStrayNext, SentInv, InHand, HoldInv, ReportTypes
  <2>6. OrderInv'
    BY <1>9, <2>1, <2>2 DEF ServeStrayNext, OrderInv, InHand, SentInv, HoldInv, Claim, Oldest, Pending
  <2> QED  BY <2>3, <2>4, <2>5, <2>6
<1>10. ASSUME NEW g \in Gateways, ServeReport(g)
       PROVE  Inductive'
  <2>1. RowInv'
    BY <1>10 DEF ServeReport, Complete, Accepts, Outcome, RowInv, Unissued
  <2>2. HoldInv'
    BY <1>10 DEF ServeReport, Complete, Accepts, Outcome, HoldInv, RowInv, Unissued
  <2>3. SentInv'
    BY <1>10 DEF ServeReport, Complete, Accepts, Outcome, SentInv, InHand, RowInv, Unissued, HoldInv
  <2>4. OrderInv'
    BY <1>10 DEF ServeReport, Complete, Accepts, Outcome, OrderInv, InHand, RowInv, Unissued, HoldInv, SentInv
  <2> QED  BY <2>1, <2>2, <2>3, <2>4
<1>11. ASSUME NEW g \in Gateways, ServeReportUnrecorded(g)
       PROVE  Inductive'
  <2>1. RowInv'
    BY <1>11 DEF ServeReportUnrecorded, Complete, Accepts, Outcome, RowInv, Unissued
  <2>2. HoldInv'
    BY <1>11 DEF ServeReportUnrecorded, Complete, Accepts, Outcome, HoldInv, RowInv, Unissued
  <2>3. SentInv'
    BY <1>11 DEF ServeReportUnrecorded, Complete, Accepts, Outcome, SentInv, InHand, RowInv, Unissued, HoldInv
  <2>4. OrderInv'
    BY <1>11 DEF ServeReportUnrecorded, Complete, Accepts, Outcome, OrderInv, InHand, RowInv, Unissued, HoldInv, SentInv
  <2> QED  BY <2>1, <2>2, <2>3, <2>4
<1>12. ASSUME NEW r \in strayReports, ServeStrayReport(r)
       PROVE  Inductive'
  <2>1. RowInv'
    BY <1>12 DEF ServeStrayReport, Complete, Accepts, Outcome, ReportTypes, RowInv, Unissued
  <2>2. HoldInv'
    BY <1>12 DEF ServeStrayReport, Complete, Accepts, Outcome, ReportTypes, HoldInv, RowInv, Unissued
  <2>3. SentInv'
    BY <1>12 DEF ServeStrayReport, Complete, Accepts, Outcome, ReportTypes, SentInv, InHand, RowInv, Unissued, HoldInv
  <2>4. OrderInv'
    BY <1>12 DEF ServeStrayReport, Complete, Accepts, Outcome, ReportTypes, OrderInv, InHand, RowInv, Unissued, HoldInv, SentInv
  <2> QED  BY <2>1, <2>2, <2>3, <2>4
<1>13. ASSUME NEW g \in Gateways, Heartbeat(g) \/ HeartbeatAges(g)
       PROVE  Inductive'
  BY <1>13
  DEF Heartbeat, HeartbeatAges, RowInv, Unissued, HoldInv, SentInv, InHand, OrderInv
<1>14. ASSUME NEW g \in Gateways, AskNext(g)
       PROVE  Inductive'
  BY <1>14
  DEF AskNext, RowInv, Unissued, HoldInv, SentInv, InHand, OrderInv
<1>15. ASSUME NEW g \in Gateways, ReceiveNext(g)
       PROVE  Inductive'
  <2>1. RowInv'
    BY <1>15 DEF ReceiveNext, RowInv, Unissued
  <2>2. HoldInv'
    BY <1>15 DEF ReceiveNext, HoldInv, RowInv, Unissued
  <2>3. SentInv'
    BY <1>15 DEF ReceiveNext, SentInv, InHand, RowInv, Unissued, HoldInv
  <2>4. OrderInv'
    BY <1>15 DEF ReceiveNext, OrderInv, InHand, RowInv, Unissued, HoldInv, SentInv
  <2> QED  BY <2>1, <2>2, <2>3, <2>4
<1>16. ASSUME NEW g \in Gateways, ReceiveAcknowledgement(g)
       PROVE  Inductive'
  BY <1>16
  DEF ReceiveAcknowledgement, GoIdle, RowInv, Unissued, HoldInv, SentInv, InHand, OrderInv
<1>17. ASSUME NEW g \in Gateways, ReceiveRefusal(g)
       PROVE  Inductive'
  <2>1. RowInv'
    BY <1>17 DEF ReceiveRefusal, AfterReportError, RowInv, Unissued
  <2>2. HoldInv'
    BY <1>17 DEF ReceiveRefusal, AfterReportError, HoldInv, RowInv, Unissued
  <2>3. SentInv'
    BY <1>17 DEF ReceiveRefusal, AfterReportError, SentInv, InHand, RowInv, Unissued, HoldInv
  <2>4. OrderInv'
    BY <1>17 DEF ReceiveRefusal, AfterReportError, OrderInv, InHand, RowInv, Unissued, HoldInv, SentInv
  <2> QED  BY <2>1, <2>2, <2>3, <2>4
<1>18. ASSUME NEW g \in Gateways, NEW dispatched \in BOOLEAN, NEW well \in BOOLEAN,
              Execute(g, dispatched, well)
       PROVE  Inductive'
  <2>1. RowInv'
    BY <1>18 DEF Execute, RowInv, Unissued
  <2>2. HoldInv'
    BY <1>18 DEF Execute, HoldInv, RowInv, Unissued
  <2>3. SentInv'
    BY <1>18 DEF Execute, SentInv, InHand, RowInv, Unissued, HoldInv
  <2>4. OrderInv'
    BY <1>18 DEF Execute, OrderInv, InHand, RowInv, Unissued, HoldInv, SentInv
  <2> QED  BY <2>1, <2>2, <2>3, <2>4
<1>19. ASSUME NEW g \in Gateways, NEW dropped \in BOOLEAN, LoseNext(g, dropped)
       PROVE  Inductive'
  <2>1. RowInv'
    BY <1>19 DEF LoseNext, Abandon, GoIdle, RowInv, Unissued
  <2>2. HoldInv'
    BY <1>19 DEF LoseNext, Abandon, GoIdle, HoldInv, RowInv, Unissued
  <2>3. SentInv'
    BY <1>19 DEF LoseNext, Abandon, GoIdle, SentInv, InHand, RowInv, Unissued, HoldInv
  <2>4. OrderInv'
    BY <1>19 DEF LoseNext, Abandon, GoIdle, OrderInv, InHand, RowInv, Unissued, HoldInv, SentInv
  <2> QED  BY <2>1, <2>2, <2>3, <2>4
<1>20. ASSUME NEW g \in Gateways, NEW dropped \in BOOLEAN, LoseReport(g, dropped)
       PROVE  Inductive'
  <2>1. RowInv'
    BY <1>20 DEF LoseReport, Abandon, AfterReportError, RowInv, Unissued
  <2>2. HoldInv'
    BY <1>20 DEF LoseReport, Abandon, AfterReportError, HoldInv, RowInv, Unissued
  <2>3. SentInv'
    BY <1>20 DEF LoseReport, Abandon, AfterReportError, SentInv, InHand, RowInv, Unissued, HoldInv
  <2>4. OrderInv'
    BY <1>20 DEF LoseReport, Abandon, AfterReportError, OrderInv, InHand, RowInv, Unissued, HoldInv, SentInv
  <2> QED  BY <2>1, <2>2, <2>3, <2>4
<1>21. ASSUME NEW g \in Gateways, NEW dropped \in BOOLEAN, NEW dispatched \in BOOLEAN,
              AgentRestart(g, dropped, dispatched)
       PROVE  Inductive'
  <2>1. RowInv'
    BY <1>21 DEF AgentRestart, Abandon, GoIdle, RowInv, Unissued
  <2>2. HoldInv'
    BY <1>21 DEF AgentRestart, Abandon, GoIdle, HoldInv, RowInv, Unissued
  <2>3. SentInv'
    BY <1>21 DEF AgentRestart, Abandon, GoIdle, SentInv, InHand, RowInv, Unissued, HoldInv
  <2>4. OrderInv'
    BY <1>21 DEF AgentRestart, Abandon, GoIdle, OrderInv, InHand, RowInv, Unissued, HoldInv, SentInv
  <2> QED  BY <2>1, <2>2, <2>3, <2>4
<1>22. CASE UNCHANGED vars
  BY <1>22
  DEF vars, RowInv, Unissued, HoldInv, SentInv, InHand, OrderInv
<1> QED
  BY <1>1, <1>2, <1>3, <1>4, <1>5, <1>6, <1>7, <1>8, <1>9, <1>10, <1>11, <1>12, <1>13, <1>14, <1>15, <1>16, <1>17, <1>18, <1>19, <1>20, <1>21, <1>22
  DEF Next, CallerStep, ServeStep, AgentStep, FaultStep

\* The invariant holds in every reachable state.
THEOREM Invariance == Spec => []IInv
<1>1. Init => IInv
  BY TypeInit, InvInit DEF IInv, Inductive
<1>2. IInv /\ [Next]_vars => IInv'
  BY TypeStep, InvStep DEF IInv, Inductive
<1> QED  BY <1>1, <1>2, PTL DEF Spec

-------------------------------------------------------------------------------
(* The safety properties.                                                   *)

\* Rows, calls and agents keep their types.
THEOREM TypeCorrect == Spec => []TypeOK
<1>1. IInv => TypeOK
  BY DEF IInv
<1> QED  BY <1>1, Invariance, PTL

\* No gateway sends a command to its device twice, whatever is lost or restarted.
THEOREM NeverSentTwice == Spec => []SentAtMostOnce
<1>1. IInv => SentAtMostOnce
  BY DEF IInv, SentInv, SentAtMostOnce
<1> QED  BY <1>1, Invariance, PTL

\* "succeeded" and "confirmed" are only said of commands that went out.
THEOREM SuccessIsHonest == Spec => []SuccessWasSent
<1>1. IInv => SuccessWasSent
  BY DEF IInv, SentInv, SuccessWasSent
<1> QED  BY <1>1, Invariance, PTL

\* A caller's answer and the row it was read from never drift apart.
THEOREM AnswersStand == Spec => []ToldResultStands
<1>1. IInv => ToldResultStands
  BY DEF IInv, SentInv, ToldResultStands
<1> QED  BY <1>1, Invariance, PTL

\* Two agents never work on one command, and each works only on its own.
THEOREM TakenOnce == Spec => []TakenByItsGateway
<1>1. IInv => TakenByItsGateway
  BY DEF IInv, HoldInv, TypeOK, TakenByItsGateway, HasTaken
<1> QED  BY <1>1, Invariance, PTL

\* Only an executing agent (or its crash while executing) sends a command out.
LEMMA DispatchStep ==
  ASSUME IInv, [Next]_vars, dispatches' # dispatches
  PROVE  \E g \in Gateways :
            /\ pc[g] = "executing" /\ cmd[g] \in Commands
            /\ dispatches' = [dispatches EXCEPT ![cmd[g]] = @ + 1]
            /\ UNCHANGED caller
<1> USE DEF IInv, HoldInv, database, agents, network, history
<1>1. ASSUME NEW c \in Commands, CallerStep(c) PROVE FALSE
  BY <1>1 DEF CallerStep, Refuse, Stamp, Insert, InsertUnrecorded, Poll, TimeOut
<1>2. ~CoreRestart /\ ~UNCHANGED vars
  BY DEF CoreRestart, vars
<1>3. ASSUME NEW g \in Gateways, ServeStep(g) PROVE FALSE
  BY <1>3 DEF ServeStep, ServeNext, ServeStrayNext, ServeReport, ServeReportUnrecorded
<1>4. ASSUME NEW r \in strayReports, ServeStrayReport(r) PROVE FALSE
  BY <1>4 DEF ServeStrayReport
<1>5. ASSUME NEW g \in Gateways, AgentStep(g)
      PROVE  \E dispatched, well \in BOOLEAN : Execute(g, dispatched, well)
  BY <1>5 DEF AgentStep, Heartbeat, HeartbeatAges, AskNext, ReceiveNext,
              ReceiveAcknowledgement, ReceiveRefusal
<1>6. ASSUME NEW g \in Gateways, FaultStep(g)
      PROVE  \E dropped, dispatched \in BOOLEAN : AgentRestart(g, dropped, dispatched)
  BY <1>6 DEF FaultStep, LoseNext, LoseReport
<1>7. PICK g \in Gateways :
         \/ \E dispatched, well \in BOOLEAN : Execute(g, dispatched, well)
         \/ \E dropped, dispatched \in BOOLEAN : AgentRestart(g, dropped, dispatched)
  BY <1>1, <1>2, <1>3, <1>4, <1>5, <1>6 DEF Next
<1>8. CASE \E dispatched, well \in BOOLEAN : Execute(g, dispatched, well)
  <2>1. PICK dispatched, well \in BOOLEAN : Execute(g, dispatched, well)
    BY <1>8
  <2>2. cmd[g] \in Commands /\ dispatches \in [Commands -> Nat]
    BY <2>1 DEF Execute, TypeOK
  <2>3. dispatched
    BY <2>1, <2>2 DEF Execute
  <2> QED  BY <2>1, <2>2, <2>3 DEF Execute
<1>9. CASE \E dropped, dispatched \in BOOLEAN : AgentRestart(g, dropped, dispatched)
  BY <1>9 DEF AgentRestart
<1> QED  BY <1>7, <1>8, <1>9

\* Commands of one gateway go out in the order in which they were issued.
THEOREM InOrder == Spec => SentInOrder
<1>1. ASSUME IInv, [Next]_vars, NEW c \in Commands, NEW d \in Commands,
             dispatches'[c] > dispatches[c], c \in earlier[d], node[c] = node[d]
      PROVE  dispatches[d] = 0
  <2>1. PICK g \in Gateways :
           /\ pc[g] = "executing" /\ cmd[g] \in Commands
           /\ dispatches' = [dispatches EXCEPT ![cmd[g]] = @ + 1]
    BY <1>1, DispatchStep DEF IInv, TypeOK
  <2>2. cmd[g] = c
    BY <1>1, <2>1 DEF IInv, TypeOK
  <2> QED  BY <1>1, <2>1, <2>2 DEF IInv, OrderInv, InHand
<1>2. IInv /\ [Next]_vars =>
        [\A c, d \in Commands :
          /\ dispatches'[c] > dispatches[c]
          /\ c \in earlier[d]
          /\ node[c] = node[d]
          => dispatches[d] = 0]_vars
  BY <1>1
<1> QED  BY <1>2, Invariance, PTL DEF Spec, SentInOrder

\* The first report Core accepts decides: no step rewrites a terminal status.
THEOREM Final == Spec => OutcomeIsFinal
<1>1. ASSUME IInv, [Next]_vars, NEW c \in Commands, status[c] \in Terminal
      PROVE  status'[c] = status[c]
  <2> USE DEF IInv, TypeOK, RowInv, Terminal, database, agents, network, history
  <2>1. ASSUME NEW d \in Commands, CallerStep(d) PROVE status'[c] = status[c]
    BY <1>1, <2>1 DEF CallerStep, Refuse, Stamp, Insert, InsertUnrecorded, Poll, TimeOut
  <2>2. CASE CoreRestart \/ UNCHANGED vars
    BY <2>2 DEF CoreRestart, vars
  <2>3. ASSUME NEW g \in Gateways, ServeNext(g) \/ ServeStrayNext(g)
        PROVE  status'[c] = status[c]
    <3>1. PICK d \in Commands \union {None} : Claim(g, d)
      BY <2>3 DEF ServeNext, ServeStrayNext
    <3> QED  BY <1>1, <3>1, ClaimEffect
  <2>4. ASSUME NEW g \in Gateways, NEW d, NEW well, Complete(g, d, well)
        PROVE  status'[c] = status[c]
    BY <1>1, <2>4 DEF Complete, Accepts
  <2>5. ASSUME NEW g \in Gateways, ServeReport(g) \/ ServeReportUnrecorded(g)
        PROVE  status'[c] = status[c]
    BY <2>4, <2>5 DEF ServeReport, ServeReportUnrecorded
  <2>6. ASSUME NEW r \in strayReports, ServeStrayReport(r)
        PROVE  status'[c] = status[c]
    BY <1>1, <2>6 DEF ServeStrayReport, Complete, Accepts
  <2>7. ASSUME NEW g \in Gateways, AgentStep(g) \/ FaultStep(g)
        PROVE  status'[c] = status[c]
    BY <2>7 DEF AgentStep, FaultStep, Heartbeat, HeartbeatAges, AskNext, ReceiveNext,
                ReceiveAcknowledgement, ReceiveRefusal, Execute, LoseNext, LoseReport,
                AgentRestart
  <2> QED
    BY <1>1, <2>1, <2>2, <2>3, <2>5, <2>6, <2>7 DEF Next, ServeStep
<1>2. IInv /\ [Next]_vars =>
        [\A c \in Commands : status[c] \in Terminal => status'[c] = status[c]]_vars
  BY <1>1
<1> QED  BY <1>2, Invariance, PTL DEF Spec, OutcomeIsFinal

-------------------------------------------------------------------------------
(* The queue implements CommandPromise.                                     *)

toldBar == [c \in Commands |-> Told(c)]

\* The initial state answers nobody and has sent nothing.
LEMMA PromiseStart == Init => Promise!PromiseInit
  BY DEF Init, Promise!PromiseInit, Told

\* A command goes out only after its call was stamped.
LEMMA PerformStep ==
  ASSUME IInv, [Next]_vars, dispatches' # dispatches
  PROVE  \E c \in Commands : Promise!Perform(c)
<1>1. PICK g \in Gateways :
         /\ pc[g] = "executing" /\ cmd[g] \in Commands
         /\ dispatches' = [dispatches EXCEPT ![cmd[g]] = @ + 1]
         /\ UNCHANGED caller
  BY DispatchStep
<1>2. dispatches[cmd[g]] = 0 /\ caller[cmd[g]] \notin {"new", "unavailable"}
  BY <1>1 DEF IInv, SentInv, RowInv, HoldInv, InHand
<1>3. Told(cmd[g]) \notin {"none", "refused"}
  BY <1>2 DEF Told
<1>4. \A c \in Commands : Told(c)' = Told(c)
  BY <1>1 DEF Told
<1>5. dispatches' = [dispatches EXCEPT ![cmd[g]] = 1]
  BY <1>1, <1>2
<1>6. Promise!Perform(cmd[g])
  BY <1>1, <1>2, <1>3, <1>4, <1>5 DEF Promise!Perform
<1> QED  BY <1>1, <1>6

\* What a caller step may do to the answers.
LEMMA AnswerStep ==
  ASSUME IInv, NEW c \in Commands, CallerStep(c)
  PROVE  \/ Promise!Accept(c) \/ Promise!Refuse(c) \/ Promise!Confirm(c)
         \/ Promise!GiveUp({c}) \/ UNCHANGED <<toldBar, dispatches>>
<1> USE DEF history, database, agents, network, IInv, TypeOK, toldBar
<1>1. ASSUME NEW g \in Gateways, Refuse(c, g) PROVE Promise!Refuse(c)
  BY <1>1 DEF Refuse, Told, Promise!Refuse
<1>2. ASSUME NEW g \in Gateways, Stamp(c, g) PROVE Promise!Accept(c)
  BY <1>2 DEF Stamp, Told, Promise!Accept
<1>3. ASSUME Insert(c, "polling") PROVE UNCHANGED <<toldBar, dispatches>>
  BY <1>3 DEF Insert, Told
<1>4. ASSUME Insert(c, "detached") \/ InsertUnrecorded(c) \/ TimeOut(c)
      PROVE  Promise!GiveUp({c})
  BY <1>4 DEF Insert, InsertUnrecorded, TimeOut, Told, Promise!GiveUp
<1>5. ASSUME Poll(c)
      PROVE  \/ Promise!Confirm(c) \/ Promise!GiveUp({c})
             \/ UNCHANGED <<toldBar, dispatches>>
  <2>1. CASE status[c] = "succeeded"
    BY <1>5, <2>1 DEF Poll, Told, Promise!Confirm, SentInv
  <2>2. CASE status[c] = "failed"
    BY <1>5, <2>2 DEF Poll, Told, Promise!GiveUp
  <2>3. CASE status[c] \notin {"succeeded", "failed"}
    BY <1>5, <2>3 DEF Poll, Told
  <2> QED  BY <2>1, <2>2, <2>3
<1> QED  BY <1>1, <1>2, <1>3, <1>4, <1>5 DEF CallerStep

\* Every step of the queue is a step of the promise, or changes nothing it speaks of.
LEMMA PromiseStep ==
  ASSUME IInv, [Next]_vars
  PROVE  [Promise!PromiseNext]_<<toldBar, dispatches>>
<1> USE DEF toldBar, database, agents, network, history
<1>1. CASE dispatches' # dispatches
  BY <1>1, PerformStep DEF Promise!PromiseNext
<1>2. ASSUME NEW c \in Commands, CallerStep(c)
      PROVE  [Promise!PromiseNext]_<<toldBar, dispatches>>
  <2>1. {c} \in SUBSET Commands
    OBVIOUS
  <2> QED  BY <1>2, <2>1, AnswerStep DEF Promise!PromiseNext
<1>3. CASE CoreRestart
  <2> DEFINE S == {c \in Commands : caller[c] \in {"stamped", "polling"}}
  <2>1. Promise!GiveUp(S)
    BY <1>3 DEF CoreRestart, Told, Promise!GiveUp
  <2> QED  BY <2>1 DEF Promise!PromiseNext
<1>4. ASSUME dispatches' = dispatches, UNCHANGED caller
      PROVE  UNCHANGED <<toldBar, dispatches>>
  BY <1>4 DEF Told
<1>5. ASSUME NEW g \in Gateways, ServeStep(g) \/ AgentStep(g) \/ FaultStep(g)
      PROVE  UNCHANGED caller
  BY <1>5 DEF ServeStep, AgentStep, FaultStep, ServeNext, ServeStrayNext, ServeReport,
              ServeReportUnrecorded, Heartbeat, HeartbeatAges, AskNext, ReceiveNext,
              ReceiveAcknowledgement, ReceiveRefusal, Execute, LoseNext, LoseReport,
              AgentRestart
<1>6. ASSUME NEW r \in strayReports, ServeStrayReport(r) PROVE UNCHANGED caller
  BY <1>6 DEF ServeStrayReport
<1>7. CASE UNCHANGED vars
  BY <1>7, <1>4 DEF vars
<1> QED  BY <1>1, <1>2, <1>3, <1>4, <1>5, <1>6, <1>7 DEF Next

\* Whatever is lost, late or restarted, callers of the queue get what CommandPromise
\* says: at most one performance, none after a refusal, and no false confirmation.
THEOREM Refinement == Spec => KeepsPromise
<1>1. IInv /\ [Next]_vars => [Promise!PromiseNext]_<<toldBar, dispatches>>
  BY PromiseStep
<1>2. <<toldBar, dispatches>> = Promise!promiseVars
  BY DEF toldBar, Promise!promiseVars
<1> QED
  BY <1>1, <1>2, PromiseStart, Invariance, PTL
  DEF Spec, KeepsPromise, Promise!PromiseSpec, Promise!promiseVars, toldBar

===============================================================================
