----------------------------- MODULE AgentSpend -----------------------------
(***************************************************************************)
(* What an agent's Circle wallet may spend: X402AgentSpendExecutor over    *)
(* PostgresX402AgentWalletPolicyStore (and its in-memory twin, the ledger  *)
(* of x402-agent-policy.ts).  Policies and spends are keyed by agent and   *)
(* no statement joins two agents, so one agent is modelled.  A request is  *)
(* one execute() call: each of its awaits is a step, and its process may   *)
(* die between any two.                                                    *)
(***************************************************************************)
EXTENDS Sums

CONSTANTS Requests,       \* concurrent execute() calls
          MaxKeys,        \* idempotency keys are 1..MaxKeys
          Recipients,
          SpendAmounts,   \* what callers ask for
          Policies,       \* the policies an operator may set
          Days            \* bound: the days are 1..Days

Keys == 1..MaxKeys

(* What setPolicy accepts; a wallet that is not provisioned yet is stored. *)
Policy == [enabled: BOOLEAN, wallet: BOOLEAN, perCall: Nat \ {0}, daily: Nat \ {0},
           allowed: SUBSET Recipients]   \* {} allows everybody

NoSpend == [state |-> "none"]
Reserved(day, amount, to) ==
    [day |-> day, amount |-> amount, recipient |-> to, state |-> "reserved"]
SpendState == {"reserved", "submitted", "unknown", "confirmed", "failed"}
Spend == [day: 1..Days, amount: SpendAmounts, recipient: Recipients, state: SpendState]

Idle == [at |-> "idle"]
Steps == {"reserved", "settling", "recording"}
Request == [at: Steps, key: Keys, outcome: {"none", "submitted", "unknown", "failed"}]

ASSUME SpendAssumption ==
    /\ MaxKeys \in Nat
    /\ Days \in Nat \ {0}
    /\ SpendAmounts \subseteq Nat \ {0}
    /\ Policies \subseteq {p \in Policy : p.perCall <= p.daily}

VARIABLES policy,      \* the policy row
          spends,      \* spends[key]: the spend row of an idempotency key
          today,       \* utcDay(now)
          requests,    \* requests[r]: where the call r is
          calls,       \* calls[key]: times adapter.settle was called for key
          charged,     \* charged[key]: transfers the provider made, or will make, for key
          capOf        \* capOf[day]: the daily cap the day's last reservation was checked against

spendVars == <<policy, spends, today, requests, calls, charged, capOf>>

(* Mutant: an unknown outcome gives its amount back to the day. *)
ActiveUnlessUnknown(day) ==
    [k \in Keys |-> IF spends[k].state \notin {"none", "failed", "unknown"} /\ spends[k].day = day
                    THEN spends[k].amount ELSE 0]

activeSpend(day) ==
    [k \in Keys |-> IF spends[k].state \notin {"none", "failed"} /\ spends[k].day = day
                    THEN spends[k].amount ELSE 0]

used(day) == SumTo(activeSpend(day), MaxKeys)

unused(k) == spends[k] = NoSpend

allowedTransitions == [reserved  |-> {"submitted", "unknown", "failed"},
                       submitted |-> {"confirmed", "unknown", "failed"},
                       unknown   |-> {"confirmed", "failed"},
                       confirmed |-> {"confirmed"},
                       failed    |-> {"failed"}]

(* transition() under the spend's row lock; a move the table does not      *)
(* allow is answered with an error and changes nothing.                    *)
transition(k, state) ==
    spends' = IF spends[k] # NoSpend /\ state \in allowedTransitions[spends[k].state]
              THEN [spends EXCEPT ![k].state = state] ELSE spends
-----------------------------------------------------------------------------
setPolicy(p) ==
    /\ policy' = p
    /\ UNCHANGED <<spends, today, requests, calls, charged, capOf>>

(* reserve() with the policy row locked, when its decision is "reserved".  *)
(* Every other answer - a refusal, or the row of a key already used -      *)
(* ends the call with nothing changed.                                     *)
reserve(r, k, amount, to) ==
    /\ requests[r] = Idle
    /\ policy.enabled /\ policy.wallet
    /\ unused(k)
    /\ amount <= policy.perCall
    /\ policy.allowed # {} => to \in policy.allowed
    /\ used(today) + amount <= policy.daily
    /\ spends' = [spends EXCEPT ![k] = Reserved(today, amount, to)]
    /\ requests' = [requests EXCEPT ![r] = [at |-> "reserved", key |-> k, outcome |-> "none"]]
    /\ capOf' = [capOf EXCEPT ![today] = policy.daily]
    /\ UNCHANGED <<policy, today, calls, charged>>

(* The policy is read again, and only for the wallet: an unprovisioned     *)
(* wallet, or an adapter that is switched off, fails the spend.            *)
getPolicy(r) ==
    /\ requests[r].at = "reserved"
    /\ \/ /\ policy.wallet
          /\ requests' = [requests EXCEPT ![r].at = "settling"]
       \/ requests' = [requests EXCEPT ![r].at = "recording", ![r].outcome = "failed"]
    /\ UNCHANGED <<policy, spends, today, calls, charged, capOf>>

(* Mutant: a call that threw is made again. *)
SettleUntilAnswered(r) ==
    LET k == requests[r].key IN
    /\ requests[r].at = "settling"
    /\ calls' = [calls EXCEPT ![k] = @ + 1]
    /\ \E outcome \in {"submitted", "unknown", "failed"}, made \in {0, 1} :
          /\ outcome = "submitted" => made = 1
          /\ outcome = "failed" => made = 0
          /\ charged' = [charged EXCEPT ![k] = @ + made]
          /\ requests' = IF outcome = "unknown" THEN requests
                         ELSE [requests EXCEPT ![r].at = "recording", ![r].outcome = outcome]
    /\ UNCHANGED <<policy, spends, today, capOf>>

(* adapter.settle: the provider makes the transfer, or not, and the call   *)
(* returns an error, throws or succeeds.  Success names a transfer that    *)
(* was made, and "wallet_disabled" is answered before anything is sent.    *)
settle(r) ==
    LET k == requests[r].key IN
    /\ requests[r].at = "settling"
    /\ calls' = [calls EXCEPT ![k] = @ + 1]
    /\ \E outcome \in {"submitted", "unknown", "failed"}, made \in {0, 1} :
          /\ outcome = "submitted" => made = 1
          /\ outcome = "failed" => made = 0
          /\ charged' = [charged EXCEPT ![k] = @ + made]
          /\ requests' = [requests EXCEPT ![r].at = "recording", ![r].outcome = outcome]
    /\ UNCHANGED <<policy, spends, today, capOf>>

(* Mutant: a call that threw is recorded as failed. *)
RecordThrowAsFailed(r) ==
    /\ requests[r].at = "recording"
    /\ transition(requests[r].key,
                  IF requests[r].outcome = "unknown" THEN "failed" ELSE requests[r].outcome)
    /\ requests' = [requests EXCEPT ![r] = Idle]
    /\ UNCHANGED <<policy, today, calls, charged, capOf>>

record(r) ==
    /\ requests[r].at = "recording"
    /\ transition(requests[r].key, requests[r].outcome)
    /\ requests' = [requests EXCEPT ![r] = Idle]
    /\ UNCHANGED <<policy, today, calls, charged, capOf>>

(* Confirmation follows an independent verification of the transfer. *)
confirm(k) ==
    /\ charged[k] > 0
    /\ transition(k, "confirmed")
    /\ UNCHANGED <<policy, today, requests, calls, charged, capOf>>

(* The process serving r dies; what it had not recorded is lost. *)
Crash(r) ==
    /\ requests[r] # Idle
    /\ requests' = [requests EXCEPT ![r] = Idle]
    /\ UNCHANGED <<policy, spends, today, calls, charged, capOf>>

Midnight ==
    /\ today < Days
    /\ today' = today + 1
    /\ UNCHANGED <<policy, spends, requests, calls, charged, capOf>>
-----------------------------------------------------------------------------
SpendInit ==
    /\ policy \in Policies
    /\ spends = [k \in Keys |-> NoSpend]
    /\ today = 1
    /\ requests = [r \in Requests |-> Idle]
    /\ calls = [k \in Keys |-> 0]
    /\ charged = [k \in Keys |-> 0]
    /\ capOf = [d \in 1..Days |-> 0]

execute(r) ==
    \/ \E k \in Keys, amount \in SpendAmounts, to \in Recipients : reserve(r, k, amount, to)
    \/ getPolicy(r)
    \/ settle(r)
    \/ record(r)
    \/ Crash(r)

SpendNext ==
    \/ \E r \in Requests : execute(r)
    \/ \E k \in Keys : confirm(k)
    \/ \E p \in Policies : setPolicy(p)
    \/ Midnight

SpendSpec == SpendInit /\ [][SpendNext]_spendVars
-----------------------------------------------------------------------------
SpendTypeOK ==
    /\ policy \in Policies
    /\ spends \in [Keys -> Spend \cup {NoSpend}]
    /\ today \in 1..Days
    /\ requests \in [Requests -> Request \cup {Idle}]
    /\ calls \in [Keys -> Nat]
    /\ charged \in [Keys -> Nat]
    /\ capOf \in [1..Days -> Nat]

(* What the provider may have taken from the wallet for one day's spends.  *)
chargedOn(day) ==
    [k \in Keys |-> IF spends[k] # NoSpend /\ spends[k].day = day
                    THEN charged[k] * spends[k].amount ELSE 0]

(* However many calls race, are retried, time out or die, and however the  *)
(* operator lowers the cap meanwhile, the wallet is never charged more on  *)
(* one day than the cap that day's last reservation was checked against.   *)
ChargesWithinCap == \A d \in 1..Days : SumTo(chargedOn(d), MaxKeys) <= capOf[d]

(* An idempotency key reaches the provider at most once, for ever: neither *)
(* a retry, nor a second process, nor the next day sends it again.         *)
CalledAtMostOnce == \A k \in Keys : charged[k] <= calls[k] /\ calls[k] <= 1

(* An amount is given back to the day only when no transfer was made and   *)
(* none can be made any more.                                              *)
FailedIsUncharged ==
    \A k \in Keys : spends[k].state = "failed" =>
        /\ charged[k] = 0
        /\ \A r \in Requests : requests[r] = Idle \/ requests[r].key # k
=============================================================================
