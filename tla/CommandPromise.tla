---------------------------- MODULE CommandPromise ----------------------------
(***************************************************************************)
(* What GatewayCommandService promises the code that asks it for a device   *)
(* command, whatever happens to the gateway, the network or Core: the       *)
(* command is performed at most once; it is never performed when the caller *)
(* was refused; and "confirmed" is said only of a command that was          *)
(* performed.  Nothing is promised about a command whose caller got no      *)
(* confirmation: it may have been performed, may be performed later, or may *)
(* never be.                                                                *)
(***************************************************************************)
EXTENDS Naturals

CONSTANT Commands

VARIABLES
    answer,     \* what the caller of each command has been told
    performed   \* how often each command went out to the device

promiseVars == <<answer, performed>>

Answers == {"none", "open", "refused", "confirmed", "unconfirmed"}

PromiseTypeOK ==
    /\ answer \in [Commands -> Answers]
    /\ performed \in [Commands -> {0, 1}]

PromiseInit ==
    /\ answer = [c \in Commands |-> "none"]
    /\ performed = [c \in Commands |-> 0]

Accept(c) ==
    /\ answer[c] = "none"
    /\ answer' = [answer EXCEPT ![c] = "open"]
    /\ UNCHANGED performed

Refuse(c) ==
    /\ answer[c] = "none"
    /\ answer' = [answer EXCEPT ![c] = "refused"]
    /\ UNCHANGED performed

Perform(c) ==
    /\ answer[c] \notin {"none", "refused"}
    /\ performed[c] = 0
    /\ performed' = [performed EXCEPT ![c] = 1]
    /\ UNCHANGED answer

Confirm(c) ==
    /\ answer[c] = "open"
    /\ performed[c] = 1
    /\ answer' = [answer EXCEPT ![c] = "confirmed"]
    /\ UNCHANGED performed

\* A Core restart ends every open call at once, so several may give up together.
GiveUp(S) ==
    /\ \A c \in S : answer[c] = "open"
    /\ answer' = [c \in Commands |-> IF c \in S THEN "unconfirmed" ELSE answer[c]]
    /\ UNCHANGED performed

PromiseNext ==
    \/ \E c \in Commands : Accept(c) \/ Refuse(c) \/ Perform(c) \/ Confirm(c)
    \/ \E S \in SUBSET Commands : GiveUp(S)

PromiseSpec == PromiseInit /\ [][PromiseNext]_promiseVars

===============================================================================
