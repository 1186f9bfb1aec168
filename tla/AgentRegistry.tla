--------------------------- MODULE AgentRegistry ---------------------------
(***************************************************************************)
(* AgentRegistry.sol: the agents operators own, the tiers they buy for     *)
(* them and the reputation the contest contracts write.  An agent is never *)
(* transferred.  The ERC-8004 token minted with it is held by the contract *)
(* and read by no decision; a failed mint reverts and is no step.          *)
(***************************************************************************)
EXTENDS BlockTime, USDC, Sequences, FiniteSets

CONSTANTS Accounts,          \* operators
          Treasuries,        \* addresses the admin may send fees to
          MAX_TIER,
          SeedPrices,        \* [ContestType -> [0..MAX_TIER-1 -> price]]
          Prices,            \* prices the admin sets later, 0 to close a step
          OwnerLimits,       \* values of maxAgentsPerOwner
          DAY,               \* ticks in a day
          DECAY_NUMERATOR,
          DECAY_DENOMINATOR,
          MAX_DECAY_DAYS,
          MAX_REPUTATION,    \* type(uint128).max
          Batches,           \* reputation batches: functions from agents to deltas
          InitialBalance,    \* what each account holds at the start
          MaxAgents          \* bound: agents ever created

ContestType == {"SCOUT", "ANALYST", "SOLVER"}
Tiers == 0..MAX_TIER
FromTiers == 0..(MAX_TIER - 1)

ASSUME AgentAssumption ==
    /\ Accounts \cup Treasuries \subseteq Holders
    /\ MAX_TIER \in Nat
    /\ SeedPrices \in [ContestType -> [FromTiers -> Nat]]
    /\ Prices \subseteq Nat
    /\ OwnerLimits \subseteq Nat
    /\ DAY \in Nat \ {0}
    /\ DECAY_NUMERATOR \in Nat
    /\ DECAY_DENOMINATOR \in Nat \ {0}
    /\ DECAY_NUMERATOR <= DECAY_DENOMINATOR
    /\ MAX_DECAY_DAYS \in Nat
    /\ MAX_REPUTATION \in Nat
    /\ \A batch \in Batches : \A id \in DOMAIN batch : batch[id] \in Int
    /\ InitialBalance \in Nat
    /\ MaxAgents \in Nat

VARIABLES agents,            \* agents[id]: the Agent of id
          maxAgentsPerOwner,
          upgradePrice,
          agentTreasury      \* this contract's treasury, not the escrow's

agentVars == <<agents, maxAgentsPerOwner, upgradePrice, agentTreasury>>

Agent == [owner: Accounts, tier: [ContestType -> Tiers], reputation: 0..MAX_REPUTATION,
          lastActivityAt: Nat]

AgentInit == /\ agents = << >>
             /\ maxAgentsPerOwner \in OwnerLimits
             /\ upgradePrice = SeedPrices
             /\ agentTreasury \in Treasuries

(* getTier: 0 for an agent that does not exist. *)
getTier(id, family) == IF id \in DOMAIN agents THEN agents[id].tier[family] ELSE 0

OwnsAgent(sender, id) == id \in DOMAIN agents /\ agents[id].owner = sender
-----------------------------------------------------------------------------
createAgent(sender) ==
    /\ Len(agents) < MaxAgents
    /\ Cardinality({id \in DOMAIN agents : agents[id].owner = sender}) < maxAgentsPerOwner
    /\ agents' = Append(agents, [owner |-> sender, tier |-> [f \in ContestType |-> 0],
                                 reputation |-> 0, lastActivityAt |-> now])
    /\ UNCHANGED <<maxAgentsPerOwner, upgradePrice, agentTreasury, usdc>>

upgradeAgent(sender, id, family) ==
    /\ OwnsAgent(sender, id)
    /\ agents[id].tier[family] < MAX_TIER
    /\ LET price == upgradePrice[family][agents[id].tier[family]]
       IN  /\ price # 0
           /\ CanPay(sender, price)
           /\ usdc' = Moved(usdc, sender, agentTreasury, price)
    /\ agents' = [agents EXCEPT ![id].tier[family] = @ + 1]
    /\ UNCHANGED <<maxAgentsPerOwner, upgradePrice, agentTreasury>>

setAgentTreasury(t) == /\ agentTreasury' = t
                       /\ UNCHANGED <<agents, maxAgentsPerOwner, upgradePrice, usdc>>

setMaxAgentsPerOwner(n) == /\ maxAgentsPerOwner' = n
                           /\ UNCHANGED <<agents, upgradePrice, agentTreasury, usdc>>

setUpgradePrice(family, from, price) ==
    /\ from < MAX_TIER
    /\ upgradePrice' = [upgradePrice EXCEPT ![family][from] = price]
    /\ UNCHANGED <<agents, maxAgentsPerOwner, agentTreasury, usdc>>
-----------------------------------------------------------------------------
(* Reputation.  Decay is lazy: a stored value counts as what is left of it *)
(* after the whole days since it was written.                              *)
DaysSince(t) == LET days == (now - t) \div DAY
                IN  IF days > MAX_DECAY_DAYS THEN MAX_DECAY_DAYS ELSE days

_decayedReputation(raw, lastActivityAt) ==
    LET after[n \in 0..DaysSince(lastActivityAt)] ==
            IF n = 0 THEN raw ELSE (after[n - 1] * DECAY_NUMERATOR) \div DECAY_DENOMINATOR
    IN  after[DaysSince(lastActivityAt)]

getEffectiveReputation(id) ==
    IF id \in DOMAIN agents
    THEN _decayedReputation(agents[id].reputation, agents[id].lastActivityAt)
    ELSE 0

Clamp(r) == IF r \in 0..MAX_REPUTATION THEN r ELSE IF r < 0 THEN 0 ELSE MAX_REPUTATION

(* Mutant: the delta is applied to the stored value, not the decayed one. *)
ChangeUndecayed(id, delta) ==
    [agents[id] EXCEPT !.reputation = Clamp(@ + delta), !.lastActivityAt = now]

applyReputationChange(id, delta) ==
    [agents[id] EXCEPT !.reputation = Clamp(getEffectiveReputation(id) + delta),
                       !.lastActivityAt = now]

(* The loop of both contracts' applyReputationDeltas: a batch maps agents  *)
(* to their deltas, each at most once, and an unknown agent reverts it.    *)
ApplyBatch(batch) ==
    /\ DOMAIN batch \subseteq DOMAIN agents
    /\ agents' = [id \in DOMAIN agents |-> IF id \in DOMAIN batch
                                           THEN applyReputationChange(id, batch[id])
                                           ELSE agents[id]]
    /\ UNCHANGED <<maxAgentsPerOwner, upgradePrice, agentTreasury, usdc>>
-----------------------------------------------------------------------------
AgentNext == \/ \E s \in Accounts : createAgent(s)
             \/ \E s \in Accounts, id \in DOMAIN agents, f \in ContestType : upgradeAgent(s, id, f)
             \/ \E t \in Treasuries : setAgentTreasury(t)
             \/ \E n \in OwnerLimits : setMaxAgentsPerOwner(n)
             \/ \E f \in ContestType, from \in FromTiers, p \in Prices : setUpgradePrice(f, from, p)

(* The registry on its own: results reach it from whoever may send them.   *)
AgentSpecInit == /\ TimeInit
                 /\ AgentInit
                 /\ usdc = [h \in Holders |-> IF h \in Accounts THEN InitialBalance ELSE 0]

AgentSpecNext == \/ AgentNext /\ UNCHANGED now
                 \/ \E b \in Batches : ApplyBatch(b) /\ UNCHANGED now
                 \/ Tick /\ UNCHANGED <<agentVars, usdc>>

AgentSpec == AgentSpecInit /\ [][AgentSpecNext]_<<now, usdc, agentVars>>

AgentTypeOK == /\ agents \in Seq(Agent)
               /\ Len(agents) <= MaxAgents
               /\ maxAgentsPerOwner \in OwnerLimits
               /\ upgradePrice \in [ContestType -> [FromTiers -> Nat]]
               /\ agentTreasury \in Treasuries

(* An agent's standing rises only in a step that applies a batch of        *)
(* results with one of its own, and by no more than that result: neither   *)
(* time nor the rebasing of a neutral or losing result brings decayed      *)
(* reputation back.                                                        *)
StandingIsEarned ==
    [][\A id \in DOMAIN agents :
          getEffectiveReputation(id)' > getEffectiveReputation(id) =>
              \E b \in Batches :
                  /\ ApplyBatch(b) /\ id \in DOMAIN b
                  /\ getEffectiveReputation(id)' <= getEffectiveReputation(id) + b[id]
      ]_<<now, agents>>
=============================================================================
