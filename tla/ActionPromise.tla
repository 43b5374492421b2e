----------------------------- MODULE ActionPromise -----------------------------
(***************************************************************************)
(* What ActionExecutionService promises the clients that ask for device     *)
(* actions, whatever is retried, lost, unpaired or crashes on the way.  One  *)
(* idempotency key stands for one proposal, the first one asked under it.   *)
(* Only devices that proposal names do anything for the key, each at most   *)
(* once, and none if the policy forbids the proposal or its arguments do    *)
(* not fit.  The key is settled at most once, on an outcome that says       *)
(* "succeeded" only of devices that have done it; who is answered under the *)
(* key asked for its proposal and is told that outcome.                     *)
(*                                                                         *)
(* Nothing is promised to a request that gets a conflict or an error, and   *)
(* nothing about a device the outcome does not report as succeeded: it may  *)
(* have done its part, and may do it later.                                 *)
(***************************************************************************)
CONSTANTS
    Requests, Keys, Targets, Proposals,
    TargetsOf,    \* the devices each proposal names
    Refused,      \* the proposals no device may be asked to carry out
    OutcomeTypes, \* records of a status and of a result per device
    NoOutcome,
    None

VARIABLES
    asked,   \* the proposal each key stands for, None while it is free
    done,    \* what devices did: which one, for which key, asked by which request
    settled, \* the outcome of each key, NoOutcome until there is one
    told     \* the reply each request got, None before it

promiseVars == <<asked, done, settled, told>>

PromiseInit ==
    /\ asked = [k \in Keys |-> None]
    /\ done = {}
    /\ settled = [k \in Keys |-> NoOutcome]
    /\ told = [r \in Requests |-> None]

Tell(r, k, o) ==
    /\ told[r] = None
    /\ told' = [told EXCEPT ![r] = [key |-> k, proposal |-> asked[k], outcome |-> o]]

Ask(k, p) ==
    /\ asked[k] = None
    /\ asked' = [asked EXCEPT ![k] = p]
    /\ UNCHANGED <<done, settled, told>>

\* A device does its part, be it after the key is settled.
Do(r, k, t) ==
    /\ asked[k] \in Proposals \ Refused
    /\ t \in TargetsOf[asked[k]]
    /\ \A d \in done : d.key # k \/ d.device # t
    /\ done' = done \union {[request |-> r, key |-> k, device |-> t]}
    /\ UNCHANGED <<asked, settled, told>>

Settle(r, k) ==
    /\ asked[k] \in Proposals
    /\ settled[k] = NoOutcome
    /\ UNCHANGED <<asked, done>>
    /\ \E o \in OutcomeTypes :
          /\ settled' = [settled EXCEPT ![k] = o]
          /\ \A t \in TargetsOf[asked[k]] :
                o.results[t] = "succeeded" \/ o.status = "succeeded" =>
                    \E d \in done : d.key = k /\ d.device = t
          /\ Tell(r, k, o)

\* A later request under the key is answered as the first one was.
Repeat(r, k) ==
    /\ settled[k] # NoOutcome
    /\ Tell(r, k, settled[k])
    /\ UNCHANGED <<asked, done, settled>>

PromiseNext ==
    \/ \E k \in Keys, p \in Proposals : Ask(k, p)
    \/ \E r \in Requests, k \in Keys :
          \/ \E t \in Targets : Do(r, k, t)
          \/ Settle(r, k)
          \/ Repeat(r, k)

PromiseSpec == PromiseInit /\ [][PromiseNext]_promiseVars

===============================================================================
