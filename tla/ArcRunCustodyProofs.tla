------------------------ MODULE ArcRunCustodyProofs -------------------------
(***************************************************************************)
(* The legacy contracts for any number of contests and challenges, every   *)
(* set of accounts, terms, roots and rates: the escrow implements the      *)
(* abstract custody contract, prize pools and stakes are covered, a root   *)
(* that promises no more than its pool is paid in full, standing rises     *)
(* only by results, and no operator enters a contest twice.  The invariant *)
(* is ArcRunInv, one part per contract; a transaction of one contract      *)
(* moves only its own pools, so the other's part is framed.                *)
(***************************************************************************)
EXTENDS ArcRunCustody, SumsProofs, FiniteSetTheorems, SequenceTheorems, TLAPS

CustodyStep == [Pots!Next]_(Pots!vars)

EscrowSolvent == usdc[Escrow] = SumTo(poolBalance, MaxContests + MaxChallenges)

(* The escrow's part.                                                      *)
Money == /\ usdc \in [Holders -> Nat]
         /\ poolBalance \in [Pools -> Nat]
         /\ treasury \in Treasuries
         /\ EscrowSolvent

(* ContestEngine's: the pools of contests yet to be listed are empty.      *)
ContestPart ==
    /\ ContestTypeOK
    /\ PrizePoolIntact
    /\ \A id \in 1..MaxContests : id > Len(contests) => poolBalance[ContestPool(id)] = 0

(* Every contest's entries, listed or not.                                 *)
EntryPart ==
    \A id \in 1..MaxContests :
        /\ agentEntered[id] \subseteq DOMAIN agents
        /\ \A a, b \in agentEntered[id] : agents[a].owner = agents[b].owner => a = b
        /\ operatorEntered[id] = {agents[a].owner : a \in agentEntered[id]}

(* ChallengeArena's: nobody joins before the creation, only entrants pull  *)
(* stakes back, and only from a cancelled challenge.                       *)
ChallengePart ==
    /\ ChallengeTypeOK
    /\ StakesAlwaysCovered
    /\ \A id \in 1..MaxChallenges :
         /\ IsFiniteSet(joined[id])
         /\ refunded[id] \subseteq joined[id]
         /\ id > Len(challenges) => joined[id] = {} /\ poolBalance[ChallengePool(id)] = 0
    /\ \A id \in DOMAIN challenges : challenges[id].status # "CANCELLED" => refunded[id] = {}

ArcRunInv == /\ TimeTypeOK
             /\ AgentTypeOK
             /\ Money
             /\ ContestPart
             /\ EntryPart
             /\ ChallengePart

LEMMA ConstantFacts ==
    /\ Escrow \in Holders
    /\ \A a \in Accounts \cup Treasuries : a \in Holders /\ a # Escrow
    /\ MaxContests \in Nat /\ MaxChallenges \in Nat
    /\ Pools = 1..(MaxContests + MaxChallenges)
  BY ContestAssumption, AgentAssumption DEF Pools

(* The two contracts' pools are apart.                                     *)
LEMMA PoolsApart ==
    /\ \A id \in 1..MaxContests : ContestPool(id) = id /\ ContestPool(id) \in Pools
    /\ \A id \in 1..MaxChallenges : ChallengePool(id) = MaxContests + id /\ ChallengePool(id) \in Pools
    /\ \A i \in 1..MaxContests, j \in 1..MaxChallenges : ContestPool(i) # ChallengePool(j)
  BY ConstantFacts DEF ContestPool, ChallengePool, _key
-----------------------------------------------------------------------------
(* Money.  What a transaction does to pool k, and to no other.             *)
PoolMoved(k, d) ==
    /\ Money'
    /\ CustodyStep
    /\ poolBalance'[k] = poolBalance[k] + d
    /\ \A j \in Pools \ {k} : poolBalance'[j] = poolBalance[j]

LEMMA Transfer ==
    ASSUME NEW bal \in [Holders -> Nat], NEW from \in Holders, NEW to \in Holders,
           NEW amount \in Nat, bal[from] >= amount
    PROVE  /\ Moved(bal, from, to, amount) \in [Holders -> Nat]
           /\ from # to => /\ Moved(bal, from, to, amount)[from] = bal[from] - amount
                           /\ Moved(bal, from, to, amount)[to] = bal[to] + amount
           /\ \A h \in Holders \ {from, to} : Moved(bal, from, to, amount)[h] = bal[h]
  BY DEF Moved

(* A pool and the pot that move by the same amount.                        *)
LEMMA PoolStep ==
    ASSUME Money, NEW k \in Pools, NEW d \in Int, poolBalance[k] + d \in Nat,
           poolBalance' = [poolBalance EXCEPT ![k] = poolBalance[k] + d],
           usdc' \in [Holders -> Nat], usdc'[Escrow] = usdc[Escrow] + d,
           treasury' = treasury
    PROVE  PoolMoved(k, d)
<1>1. /\ poolBalance \in [Pools -> Nat]
      /\ poolBalance' \in [Pools -> Nat]
      /\ poolBalance'[k] = poolBalance[k] + d
      /\ \A j \in Pools \ {k} : poolBalance'[j] = poolBalance[j]
  BY DEF Money
<1>2. poolBalance[k] \in Nat /\ usdc[Escrow] \in Nat
  BY <1>1, ConstantFacts DEF Money
<1>3. EscrowSolvent'
  <2> DEFINE n == MaxContests + MaxChallenges
  <2>1. n \in Nat /\ Pools = 1..n
    BY ConstantFacts
  <2>2. poolBalance \in [1..n -> Int] /\ poolBalance' \in [1..n -> Int]
    BY <1>1, <2>1
  <2> HIDE DEF n
  <2>3. SumTo(poolBalance', n) = SumTo(poolBalance, n) + (poolBalance'[k] - poolBalance[k])
    <3>1. k \in 1..n /\ \A j \in 1..n : j # k => poolBalance'[j] = poolBalance[j]
      BY <1>1, <2>1
    <3> QED BY <2>1, <2>2, <3>1, SumToUpdate
  <2>4. SumTo(poolBalance, n) = usdc[Escrow]
    BY DEF Money, EscrowSolvent, n
  <2>5. SumTo(poolBalance', n) = usdc'[Escrow]
    <3>1. poolBalance'[k] - poolBalance[k] = d
      BY <1>1, <1>2
    <3>2. usdc'[Escrow] = usdc[Escrow] + d
      OBVIOUS
    <3> QED BY <2>3, <2>4, <3>1, <3>2, Zenon
  <2> QED BY <2>5 DEF EscrowSolvent, n
<1>4. Money'
  BY <1>1, <1>3 DEF Money
<1>5. Pots!OnlyAccount(k) /\ k \in 1..(MaxContests + MaxChallenges)
  BY <1>1, ConstantFacts DEF Pots!OnlyAccount
<1>6. CASE d > 0
  <2>1. Pots!Deposit(k)
    BY <1>1, <1>2, <1>5, <1>6 DEF Pots!Deposit
  <2> QED BY <1>1, <1>4, <1>5, <2>1 DEF PoolMoved, CustodyStep, Pots!Next
<1>7. CASE d < 0
  <2>1. Pots!PayOut(k)
    BY <1>1, <1>2, <1>5, <1>7 DEF Pots!PayOut
  <2> QED BY <1>1, <1>4, <1>5, <2>1 DEF PoolMoved, CustodyStep, Pots!Next
<1>8. CASE d = 0
  <2>1. poolBalance' = poolBalance /\ usdc'[Escrow] = usdc[Escrow]
    BY <1>1, <1>2, <1>8
  <2> QED BY <1>1, <1>4, <2>1 DEF PoolMoved, CustodyStep, Pots!vars
<1> QED BY <1>6, <1>7, <1>8

LEMMA DepositMoney ==
    ASSUME Money, NEW k \in Pools, NEW from \in Accounts, NEW amount \in Nat,
           NEW ledger \in [Holders -> Nat], ledger[Escrow] = usdc[Escrow],
           deposit(k, from, amount, ledger), treasury' = treasury
    PROVE  PoolMoved(k, amount)
<1>1. /\ ledger[from] >= amount
      /\ poolBalance' = [poolBalance EXCEPT ![k] = poolBalance[k] + amount]
      /\ usdc' = Moved(ledger, from, Escrow, amount)
  BY DEF deposit
<1>2. from \in Holders /\ from # Escrow /\ Escrow \in Holders
  BY ConstantFacts
<1>3. usdc' \in [Holders -> Nat] /\ usdc'[Escrow] = usdc[Escrow] + amount
  BY <1>1, <1>2, Transfer
<1>4. poolBalance[k] + amount \in Nat /\ amount \in Int
  BY DEF Money
<1> QED BY <1>1, <1>3, <1>4, PoolStep, Zenon

LEMMA DebitMoney ==
    ASSUME Money, NEW k \in Pools, NEW to \in Accounts \cup Treasuries, NEW amount \in Nat,
           debit(k, to, amount), treasury' = treasury
    PROVE  PoolMoved(k, 0 - amount)
<1>1. /\ poolBalance[k] >= amount
      /\ poolBalance' = [poolBalance EXCEPT ![k] = poolBalance[k] - amount]
      /\ usdc' = Moved(usdc, Escrow, to, amount)
  BY DEF debit
<1>2. to \in Holders /\ to # Escrow /\ Escrow \in Holders
  BY ConstantFacts
<1>3. /\ usdc \in [Holders -> Nat] /\ poolBalance \in [Pools -> Nat]
      /\ poolBalance[k] \in Nat
  BY DEF Money
<1>4. usdc[Escrow] >= poolBalance[k]
  <2> DEFINE n == MaxContests + MaxChallenges
  <2>1. n \in Nat /\ Pools = 1..n
    BY ConstantFacts
  <2>2. usdc[Escrow] = SumTo(poolBalance, n)
    BY DEF Money, EscrowSolvent
  <2> HIDE DEF n
  <2>3. poolBalance \in [1..n -> Nat] /\ k \in 1..n
    BY <1>3, <2>1
  <2>4. poolBalance[k] <= SumTo(poolBalance, n)
    BY <2>1, <2>3, SumToAtLeast
  <2>5. usdc[Escrow] \in Nat
    BY <1>2, <1>3
  <2> QED BY <1>3, <2>2, <2>4, <2>5
<1>5. usdc[Escrow] \in Nat /\ usdc[Escrow] >= amount
  BY <1>1, <1>2, <1>3, <1>4
<1>6. usdc' \in [Holders -> Nat] /\ usdc'[Escrow] = usdc[Escrow] + (0 - amount)
  BY <1>1, <1>2, <1>3, <1>5, Transfer
<1>7. /\ poolBalance[k] + (0 - amount) \in Nat /\ 0 - amount \in Int
      /\ poolBalance[k] - amount = poolBalance[k] + (0 - amount)
  BY <1>1, <1>3
<1>8. poolBalance' = [poolBalance EXCEPT ![k] = poolBalance[k] + (0 - amount)]
  BY <1>1, <1>7
<1> QED BY <1>6, <1>7, <1>8, PoolStep, Zenon

(* A transaction that leaves the escrow alone.                             *)
LEMMA MoneyStays ==
    ASSUME Money, poolBalance' = poolBalance, treasury' \in Treasuries,
           usdc' \in [Holders -> Nat], usdc'[Escrow] = usdc[Escrow]
    PROVE  Money' /\ CustodyStep
  BY DEF Money, EscrowSolvent, CustodyStep, Pots!vars

LEMMA DebitIfAnyMoney ==
    ASSUME Money, NEW k \in Pools, NEW to \in Accounts \cup Treasuries, NEW amount \in Nat,
           debitIfAny(k, to, amount), treasury' = treasury
    PROVE  PoolMoved(k, 0 - amount)
<1>1. CASE amount = 0
  <2>1. poolBalance' = poolBalance /\ usdc' = usdc
    BY <1>1 DEF debitIfAny
  <2>2. Money' /\ CustodyStep
    BY <2>1, MoneyStays DEF Money
  <2>3. poolBalance[k] \in Nat
    BY DEF Money
  <2> QED BY <1>1, <2>1, <2>2, <2>3 DEF PoolMoved
<1>2. CASE amount # 0
  BY <1>2, DebitMoney DEF debitIfAny
<1> QED BY <1>1, <1>2
-----------------------------------------------------------------------------
(* Agents.  Operators keep the agents they have, and no transaction of the *)
(* registry touches the escrow's balance.                                  *)
AgentsGrow == /\ DOMAIN agents \subseteq DOMAIN agents'
              /\ \A a \in DOMAIN agents : agents'[a].owner = agents[a].owner

AgentsStep == /\ AgentTypeOK'
              /\ AgentsGrow
              /\ usdc' \in [Holders -> Nat]
              /\ usdc'[Escrow] = usdc[Escrow]

LEMMA AgentFacts ==
    ASSUME AgentTypeOK
    PROVE  /\ agents \in Seq(Agent) /\ Len(agents) \in Nat
           /\ DOMAIN agents = 1..Len(agents)
           /\ \A a \in DOMAIN agents : agents[a] \in Agent
  BY LenProperties, ElementOfSeq DEF AgentTypeOK

(* Agents rewritten in place keep their number.                            *)
LEMMA AgentsRewritten ==
    ASSUME AgentTypeOK,
           DOMAIN agents' = DOMAIN agents,
           agents' = [a \in DOMAIN agents |-> agents'[a]],
           \A a \in DOMAIN agents : agents'[a] \in Agent /\ agents'[a].owner = agents[a].owner,
           maxAgentsPerOwner' \in OwnerLimits, agentTreasury' \in Treasuries,
           upgradePrice' \in [ContestType -> [FromTiers -> Nat]]
    PROVE  AgentTypeOK' /\ AgentsGrow
<1>1. DOMAIN agents = 1..Len(agents) /\ Len(agents) \in Nat
  BY AgentFacts
<1>2. agents' \in [1..Len(agents) -> Agent]
  BY <1>1
<1>3. agents' \in Seq(Agent) /\ Len(agents') = Len(agents)
  BY <1>1, <1>2
<1> QED BY <1>3 DEF AgentTypeOK, AgentsGrow

LEMMA CreateAgentStep ==
    ASSUME AgentTypeOK, TimeTypeOK, NEW s \in Accounts, createAgent(s)
    PROVE  AgentTypeOK' /\ AgentsGrow
<1> DEFINE agent == [owner |-> s, tier |-> [f \in ContestType |-> 0],
                     reputation |-> 0, lastActivityAt |-> now]
<1>1. agent \in Agent
  BY AgentAssumption, HorizonAssumption DEF Agent, Tiers, TimeTypeOK
<1>2. /\ Len(agents) < MaxAgents /\ agents' = Append(agents, agent)
      /\ UNCHANGED <<maxAgentsPerOwner, upgradePrice, agentTreasury>>
  BY DEF createAgent
<1> HIDE DEF agent
<1>3. /\ agents' \in Seq(Agent) /\ Len(agents') = Len(agents) + 1
      /\ \A a \in 1..Len(agents) : agents'[a] = agents[a]
  BY <1>1, <1>2, AgentFacts, AppendProperties
<1>4. DOMAIN agents' = 1..Len(agents')
  BY <1>3, LenProperties
<1>5. Len(agents) \in Nat /\ DOMAIN agents = 1..Len(agents)
  BY AgentFacts
<1>6. Len(agents') <= MaxAgents
  BY <1>2, <1>3, <1>5, AgentAssumption
<1>7. AgentsGrow
  BY <1>3, <1>4, <1>5 DEF AgentsGrow
<1> QED BY <1>2, <1>3, <1>6, <1>7 DEF AgentTypeOK

LEMMA UpgradeStep ==
    ASSUME AgentTypeOK, Money, NEW s \in Accounts, NEW id \in DOMAIN agents,
           NEW family \in ContestType, upgradeAgent(s, id, family)
    PROVE  AgentsStep
<1> DEFINE t == agents[id].tier[family]
           price == upgradePrice[family][t]
<1>1. /\ agents[id] \in Agent /\ t < MAX_TIER
      /\ usdc[s] >= price /\ usdc' = Moved(usdc, s, agentTreasury, price)
      /\ agents' = [agents EXCEPT ![id].tier[family] = @ + 1]
      /\ UNCHANGED <<maxAgentsPerOwner, upgradePrice, agentTreasury>>
  BY AgentFacts DEF upgradeAgent, CanPay
<1>2. t \in FromTiers /\ t + 1 \in Tiers
  BY <1>1, AgentAssumption DEF Agent, Tiers, FromTiers
<1>3. price \in Nat
  BY <1>2 DEF AgentTypeOK
<1>4. usdc' \in [Holders -> Nat] /\ usdc'[Escrow] = usdc[Escrow]
  <2>1. s \in Holders /\ agentTreasury \in Holders /\ Escrow \in Holders \ {s, agentTreasury}
    BY ConstantFacts DEF AgentTypeOK
  <2> QED BY <1>1, <1>3, <2>1, Transfer DEF Money
<1>5. /\ DOMAIN agents' = DOMAIN agents
      /\ agents' = [a \in DOMAIN agents |-> agents'[a]]
      /\ \A a \in DOMAIN agents : agents'[a] \in Agent /\ agents'[a].owner = agents[a].owner
  <2> DEFINE new == [agents[id] EXCEPT !.tier = [agents[id].tier EXCEPT ![family] = t + 1]]
  <2>1. agents' = [agents EXCEPT ![id] = new]
    BY <1>1, Zenon
  <2>2. new \in Agent /\ new.owner = agents[id].owner
    BY <1>1, <1>2 DEF Agent
  <2> HIDE DEF new
  <2> QED BY <2>1, <2>2, AgentFacts
<1> HIDE DEF t, price
<1> QED BY <1>1, <1>4, <1>5, AgentsRewritten DEF AgentTypeOK, AgentsStep

LEMMA BatchStep ==
    ASSUME AgentTypeOK, TimeTypeOK, Money, NEW batch, ApplyBatch(batch)
    PROVE  AgentsStep
<1>1. /\ agents' = [id \in DOMAIN agents |-> IF id \in DOMAIN batch
                                             THEN applyReputationChange(id, batch[id])
                                             ELSE agents[id]]
      /\ UNCHANGED <<maxAgentsPerOwner, upgradePrice, agentTreasury, usdc>>
  BY DEF ApplyBatch
<1>2. \A r : Clamp(r) \in 0..MAX_REPUTATION
  BY AgentAssumption DEF Clamp
<1>3. ASSUME NEW id \in DOMAIN agents, NEW d
      PROVE  /\ applyReputationChange(id, d) \in Agent
             /\ applyReputationChange(id, d).owner = agents[id].owner
  <2> DEFINE r == Clamp(getEffectiveReputation(id) + d)
  <2>1. r \in 0..MAX_REPUTATION /\ now \in Nat
    BY <1>2, HorizonAssumption DEF TimeTypeOK
  <2>2. applyReputationChange(id, d) = [agents[id] EXCEPT !.reputation = r, !.lastActivityAt = now]
    BY DEF applyReputationChange
  <2>3. agents[id] \in Agent
    BY AgentFacts
  <2> HIDE DEF r
  <2> QED BY <2>1, <2>2, <2>3 DEF Agent
<1>4. /\ DOMAIN agents' = DOMAIN agents
      /\ agents' = [a \in DOMAIN agents |-> agents'[a]]
      /\ \A a \in DOMAIN agents : agents'[a] \in Agent /\ agents'[a].owner = agents[a].owner
  BY <1>1, <1>3, AgentFacts
<1>5. /\ maxAgentsPerOwner' \in OwnerLimits /\ agentTreasury' \in Treasuries
      /\ upgradePrice' \in [ContestType -> [FromTiers -> Nat]]
  BY <1>1 DEF AgentTypeOK
<1> QED BY <1>1, <1>4, <1>5, AgentsRewritten DEF Money, AgentsStep

LEMMA AgentNextStep ==
    ASSUME AgentTypeOK, TimeTypeOK, Money, AgentNext
    PROVE  AgentsStep
<1>1. ASSUME NEW s \in Accounts, createAgent(s) PROVE AgentsStep
  BY <1>1, CreateAgentStep DEF createAgent, AgentsStep, Money
<1>2. ASSUME NEW s \in Accounts, NEW id \in DOMAIN agents, NEW f \in ContestType, upgradeAgent(s, id, f)
      PROVE  AgentsStep
  BY <1>2, UpgradeStep
<1>3. ASSUME NEW t \in Treasuries, setAgentTreasury(t) PROVE AgentsStep
  BY <1>3 DEF setAgentTreasury, AgentsStep, AgentsGrow, AgentTypeOK, Money
<1>4. ASSUME NEW n \in OwnerLimits, setMaxAgentsPerOwner(n) PROVE AgentsStep
  BY <1>4 DEF setMaxAgentsPerOwner, AgentsStep, AgentsGrow, AgentTypeOK, Money
<1>5. ASSUME NEW f \in ContestType, NEW from \in FromTiers, NEW p \in Prices, setUpgradePrice(f, from, p)
      PROVE  AgentsStep
  <2>1. upgradePrice' \in [ContestType -> [FromTiers -> Nat]]
    BY <1>5, AgentAssumption DEF setUpgradePrice, AgentTypeOK
  <2> QED BY <1>5, <2>1 DEF setUpgradePrice, AgentsStep, AgentsGrow, AgentTypeOK, Money
<1> QED BY <1>1, <1>2, <1>3, <1>4, <1>5 DEF AgentNext
-----------------------------------------------------------------------------
(* Contests.                                                               *)
LEMMA ContestFacts ==
    ASSUME ContestTypeOK
    PROVE  /\ contests \in Seq(Contest) /\ Len(contests) \in Nat
           /\ DOMAIN contests = 1..Len(contests) /\ Len(contests) <= MaxContests
           /\ \A id \in DOMAIN contests : contests[id] \in Contest /\ id \in 1..MaxContests
<1>1. /\ Len(contests) \in Nat /\ DOMAIN contests = 1..Len(contests)
      /\ \A id \in DOMAIN contests : contests[id] \in Contest
  BY LenProperties, ElementOfSeq DEF ContestTypeOK
<1> QED BY <1>1, ConstantFacts DEF ContestTypeOK

(* A transaction that leaves the contests and their pools alone.           *)
LEMMA ContestFrame ==
    ASSUME ContestPart, UNCHANGED contestVars,
           \A id \in 1..MaxContests : poolBalance'[ContestPool(id)] = poolBalance[ContestPool(id)]
    PROVE  ContestPart'
<1>1. ContestTypeOK' /\ contests' = contests
  BY DEF ContestPart, ContestTypeOK, contestVars, contestBooks, contestAdmin
<1>2. \A id \in DOMAIN contests : id \in 1..MaxContests
  BY ContestFacts DEF ContestPart
<1> QED BY <1>1, <1>2 DEF ContestPart, PrizePoolIntact, ContestPool

(* A transaction on contest id, which it leaves as c.                      *)
LEMMA ContestStepInv ==
    ASSUME ContestPart, NEW id \in DOMAIN contests, NEW c \in Contest,
           contests' = [contests EXCEPT ![id] = c],
           agentEntered' \in [1..MaxContests -> SUBSET (1..MaxAgents)],
           operatorEntered' \in [1..MaxContests -> SUBSET Accounts],
           prizeClaimed' \in [1..MaxContests -> SUBSET Accounts],
           UNCHANGED contestAdmin,
           \A k \in Pools \ {ContestPool(id)} : poolBalance'[k] = poolBalance[k],
           c.status \in {"OPEN", "SCORING"} => poolBalance'[ContestPool(id)] = c.prizePool,
           c.status = "CANCELLED" => poolBalance'[ContestPool(id)] = 0
    PROVE  ContestPart'
<1>1. /\ contests \in Seq(Contest) /\ DOMAIN contests = 1..Len(contests)
      /\ Len(contests) \in Nat /\ Len(contests) <= MaxContests
      /\ \A i \in DOMAIN contests : i \in 1..MaxContests
  BY ContestFacts DEF ContestPart
<1>2. /\ contests' \in Seq(Contest) /\ Len(contests') = Len(contests)
      /\ DOMAIN contests' = DOMAIN contests
      /\ contests'[id] = c
      /\ \A i \in DOMAIN contests \ {id} : contests'[i] = contests[i]
  BY <1>1
<1>3. ContestTypeOK'
  BY <1>1, <1>2 DEF ContestPart, ContestTypeOK, contestAdmin
<1>4. \A i \in 1..MaxContests \ {id} : poolBalance'[ContestPool(i)] = poolBalance[ContestPool(i)]
  <2> SUFFICES ASSUME NEW i \in 1..MaxContests \ {id}
               PROVE  poolBalance'[ContestPool(i)] = poolBalance[ContestPool(i)]
    OBVIOUS
  <2>1. ContestPool(i) \in Pools \ {ContestPool(id)}
    BY <1>1, PoolsApart
  <2> QED BY <2>1
<1>5. PrizePoolIntact'
  <2> SUFFICES ASSUME NEW i \in DOMAIN contests
               PROVE  /\ contests'[i].status \in {"OPEN", "SCORING"} =>
                             poolBalance'[ContestPool(i)] = contests'[i].prizePool
                      /\ contests'[i].status = "CANCELLED" => poolBalance'[ContestPool(i)] = 0
    BY <1>2 DEF PrizePoolIntact, ContestPool
  <2>1. CASE i = id
    BY <1>2, <2>1
  <2>2. CASE i # id
    BY <1>1, <1>2, <1>4, <2>2 DEF ContestPart, PrizePoolIntact
  <2> QED BY <2>1, <2>2
<1>6. \A i \in 1..MaxContests : i > Len(contests') => poolBalance'[ContestPool(i)] = 0
  BY <1>1, <1>2, <1>4 DEF ContestPart
<1> QED BY <1>3, <1>5, <1>6 DEF ContestPart, ContestPool

(* The entries, when they and the agents' owners stay.                     *)
LEMMA EntryFrame ==
    ASSUME EntryPart, AgentsGrow, UNCHANGED <<agentEntered, operatorEntered>>
    PROVE  EntryPart'
<1> SUFFICES ASSUME NEW id \in 1..MaxContests
             PROVE  /\ agentEntered[id] \subseteq DOMAIN agents'
                    /\ \A a, b \in agentEntered[id] : agents'[a].owner = agents'[b].owner => a = b
                    /\ operatorEntered[id] = {agents'[a].owner : a \in agentEntered[id]}
  BY DEF EntryPart
<1>1. \A a \in agentEntered[id] : a \in DOMAIN agents /\ agents'[a].owner = agents[a].owner
  BY DEF EntryPart, AgentsGrow
<1>2. {agents'[a].owner : a \in agentEntered[id]} = {agents[a].owner : a \in agentEntered[id]}
  BY <1>1
<1> QED BY <1>1, <1>2 DEF EntryPart, AgentsGrow

(* What a transaction of ContestEngine leaves true.                        *)
ContestStepOK == /\ AgentTypeOK' /\ Money' /\ ContestPart' /\ EntryPart'
                 /\ CustodyStep
                 /\ \A id \in 1..MaxChallenges :
                       poolBalance'[ChallengePool(id)] = poolBalance[ChallengePool(id)]

LEMMA SameAgents ==
    ASSUME AgentTypeOK, agentVars' = agentVars
    PROVE  AgentTypeOK' /\ AgentsGrow
  BY DEF AgentTypeOK, AgentsGrow, agentVars

LEMMA MoneyFacts ==
    ASSUME Money
    PROVE  /\ usdc \in [Holders -> Nat] /\ usdc[Escrow] \in Nat
           /\ poolBalance \in [Pools -> Nat] /\ treasury \in Treasuries
  BY ConstantFacts DEF Money

(* A contest's pool moves and no challenge's does.                         *)
LEMMA ContestPoolMoved ==
    ASSUME NEW id \in 1..MaxContests, NEW d \in Int, PoolMoved(ContestPool(id), d)
    PROVE  /\ Money' /\ CustodyStep
           /\ poolBalance'[ContestPool(id)] = poolBalance[ContestPool(id)] + d
           /\ \A k \in Pools \ {ContestPool(id)} : poolBalance'[k] = poolBalance[k]
           /\ \A j \in 1..MaxChallenges :
                 poolBalance'[ChallengePool(j)] = poolBalance[ChallengePool(j)]
<1>1. \A j \in 1..MaxChallenges : ChallengePool(j) \in Pools \ {ContestPool(id)}
  BY PoolsApart
<1> QED BY <1>1 DEF PoolMoved

LEMMA ListStep ==
    ASSUME ArcRunInv, NEW s \in Accounts, NEW terms \in ContestTerms, listContest(s, terms)
    PROVE  ContestStepOK
<1> USE DEF ArcRunInv
<1> DEFINE fee == (terms.prizePool * listingFeeBps) \div BPS_DENOMINATOR
           id == Len(contests) + 1
           c == [status |-> "OPEN", platformFeeBps |-> contestPlatformFeeBps, sponsor |-> s,
                 family |-> terms.family, endTime |-> now + terms.duration,
                 prizePool |-> terms.prizePool, finalRoot |-> {},
                 minTier |-> terms.minTier, maxTier |-> terms.maxTier]
           ledger == collectListingFee(s, fee)
<1>1. /\ terms.prizePool \in Nat \ {0} /\ terms.duration \in Nat /\ terms.family \in ContestType
      /\ terms.minTier \in Tiers /\ terms.maxTier \in Tiers
  BY ContestAssumption, AgentAssumption DEF listContest, ValidGate, Tiers
<1>2. /\ Len(contests) < MaxContests
      /\ contests' = Append(contests, c)
      /\ usdc[s] >= fee
      /\ deposit(ContestPool(id), s, terms.prizePool, ledger)
      /\ UNCHANGED <<agentEntered, operatorEntered, prizeClaimed, contestAdmin, treasury, agentVars>>
  BY DEF listContest, CanPay
<1>3. c \in Contest
  BY <1>1, HorizonAssumption DEF Contest, ContestStatus, ContestPart, ContestTypeOK, TimeTypeOK
<1>4. fee \in Nat
  <2>1. listingFeeBps \in Nat /\ BPS_DENOMINATOR \in Nat \ {0}
    BY ContestAssumption DEF ContestPart, ContestTypeOK
  <2> QED BY <1>1, <2>1
<1>5. ledger \in [Holders -> Nat] /\ ledger[Escrow] = usdc[Escrow]
  <2>1. s \in Holders /\ treasury \in Holders /\ Escrow \in Holders \ {s, treasury}
    BY MoneyFacts, ConstantFacts
  <2> HIDE DEF fee
  <2>2. /\ Moved(usdc, s, treasury, fee) \in [Holders -> Nat]
        /\ \A h \in Holders \ {s, treasury} : Moved(usdc, s, treasury, fee)[h] = usdc[h]
    <3>1. usdc \in [Holders -> Nat] /\ s \in Holders /\ treasury \in Holders
      BY <2>1, MoneyFacts
    <3>2. fee \in Nat /\ usdc[s] >= fee
      BY <1>2, <1>4
    <3> QED BY <3>1, <3>2, Transfer
  <2> QED BY <2>1, <2>2 DEF collectListingFee
<1> HIDE DEF c, ledger, fee
<1>6. /\ contests \in Seq(Contest) /\ Len(contests) \in Nat /\ id \in 1..MaxContests
      /\ DOMAIN contests = 1..Len(contests)
  BY <1>2, ContestFacts, ConstantFacts DEF ContestPart
<1>7. /\ contests' \in Seq(Contest) /\ Len(contests') = id
      /\ \A i \in 1..Len(contests) : contests'[i] = contests[i]
      /\ contests'[id] = c
  BY <1>2, <1>3, <1>6, AppendProperties
<1>8. DOMAIN contests' = 1..id
  BY <1>7, LenProperties
<1>9. PoolMoved(ContestPool(id), terms.prizePool)
  BY <1>1, <1>2, <1>5, <1>6, PoolsApart, DepositMoney
<1>10. poolBalance[ContestPool(id)] = 0
  BY <1>6 DEF ContestPart
<1>11. ContestPart'
  <2>1. ContestTypeOK'
    BY <1>2, <1>6, <1>7 DEF ContestPart, ContestTypeOK, contestAdmin
  <2>2. \A i \in 1..MaxContests \ {id} : poolBalance'[ContestPool(i)] = poolBalance[ContestPool(i)]
    <3> SUFFICES ASSUME NEW i \in 1..MaxContests \ {id}
                 PROVE  poolBalance'[ContestPool(i)] = poolBalance[ContestPool(i)]
      OBVIOUS
    <3>1. ContestPool(i) \in Pools \ {ContestPool(id)}
      BY <1>6, PoolsApart
    <3> QED BY <1>9, <3>1 DEF PoolMoved
  <2>3. poolBalance'[ContestPool(id)] = terms.prizePool
    BY <1>1, <1>9, <1>10 DEF PoolMoved
  <2>4. c.status = "OPEN" /\ c.prizePool = terms.prizePool
    BY DEF c
  <2>5. PrizePoolIntact'
    <3> SUFFICES ASSUME NEW i \in 1..id
                 PROVE  /\ contests'[i].status \in {"OPEN", "SCORING"} =>
                               poolBalance'[ContestPool(i)] = contests'[i].prizePool
                        /\ contests'[i].status = "CANCELLED" => poolBalance'[ContestPool(i)] = 0
      BY <1>8 DEF PrizePoolIntact, ContestPool
    <3>1. CASE i = id
      BY <1>7, <2>3, <2>4, <3>1
    <3>2. CASE i # id
      <4>1. i \in DOMAIN contests /\ contests'[i] = contests[i] /\ i \in 1..MaxContests \ {id}
        BY <1>6, <1>7, <3>2, ConstantFacts
      <4> QED BY <2>2, <4>1 DEF ContestPart, PrizePoolIntact
    <3> QED BY <3>1, <3>2
  <2>6. \A i \in 1..MaxContests : i > Len(contests') => poolBalance'[ContestPool(i)] = 0
    BY <1>6, <1>7, <2>2 DEF ContestPart
  <2> QED BY <2>1, <2>5, <2>6 DEF ContestPart, ContestPool
<1>12. AgentTypeOK' /\ EntryPart'
  BY <1>2, SameAgents, EntryFrame
<1>13. terms.prizePool \in Int
  BY <1>1
<1> HIDE DEF id
<1> QED BY <1>6, <1>9, <1>11, <1>12, <1>13, ContestPoolMoved DEF ContestStepOK

(* What every handler of contest id starts from.                           *)
LEMMA ContestAt ==
    ASSUME ArcRunInv, NEW id \in DOMAIN contests
    PROVE  /\ id \in 1..MaxContests /\ contests[id] \in Contest
           /\ ContestPool(id) \in Pools /\ poolBalance[ContestPool(id)] \in Nat
           /\ contests = [contests EXCEPT ![id] = contests[id]]
           /\ agentEntered \in [1..MaxContests -> SUBSET (1..MaxAgents)]
           /\ operatorEntered \in [1..MaxContests -> SUBSET Accounts]
           /\ prizeClaimed \in [1..MaxContests -> SUBSET Accounts]
           /\ contests[id].status \in {"OPEN", "SCORING"} =>
                  poolBalance[ContestPool(id)] = contests[id].prizePool
<1>1. id \in 1..MaxContests /\ contests[id] \in Contest /\ contests \in Seq(Contest)
  BY ContestFacts DEF ArcRunInv, ContestPart
<1>2. ContestPool(id) \in Pools /\ poolBalance[ContestPool(id)] \in Nat
  BY <1>1, PoolsApart, MoneyFacts DEF ArcRunInv
<1> QED BY <1>1, <1>2 DEF ArcRunInv, ContestPart, ContestTypeOK, PrizePoolIntact

LEMMA RegisterStep ==
    ASSUME ArcRunInv, NEW s \in Accounts, NEW id \in DOMAIN contests, NEW a \in DOMAIN agents,
           registerEntry(s, id, a)
    PROVE  ContestStepOK
<1> USE DEF ArcRunInv
<1>1. /\ agents[a].owner = s
      /\ s \notin operatorEntered[id]
      /\ agentEntered' = [agentEntered EXCEPT ![id] = @ \cup {a}]
      /\ operatorEntered' = [operatorEntered EXCEPT ![id] = @ \cup {s}]
      /\ UNCHANGED <<contests, prizeClaimed, contestAdmin, poolBalance, treasury, usdc, agentVars>>
  BY DEF registerEntry, OwnsAgent, escrowVars
<1>2. a \in 1..MaxAgents
  BY AgentFacts, AgentAssumption DEF AgentTypeOK
<1>3. /\ agentEntered' \in [1..MaxContests -> SUBSET (1..MaxAgents)]
      /\ operatorEntered' \in [1..MaxContests -> SUBSET Accounts]
  BY <1>1, <1>2, ContestAt
<1>4. ContestPart'
  <2>1. /\ \A k \in Pools \ {ContestPool(id)} : poolBalance'[k] = poolBalance[k]
        /\ poolBalance'[ContestPool(id)] = poolBalance[ContestPool(id)]
        /\ contests' = [contests EXCEPT ![id] = contests[id]]
        /\ prizeClaimed' \in [1..MaxContests -> SUBSET Accounts]
    BY <1>1, ContestAt
  <2>2. contests[id].status = "CANCELLED" => poolBalance[ContestPool(id)] = 0
    BY DEF ContestPart, PrizePoolIntact
  <2> QED BY <1>1, <1>3, <2>1, <2>2, ContestAt, ContestStepInv
<1>5. EntryPart'
  <2> SUFFICES ASSUME NEW i \in 1..MaxContests
               PROVE  /\ agentEntered'[i] \subseteq DOMAIN agents
                      /\ \A x, y \in agentEntered'[i] : agents[x].owner = agents[y].owner => x = y
                      /\ operatorEntered'[i] = {agents[x].owner : x \in agentEntered'[i]}
    BY <1>1 DEF EntryPart, agentVars
  <2>1. /\ agentEntered[i] \subseteq DOMAIN agents
        /\ \A x, y \in agentEntered[i] : agents[x].owner = agents[y].owner => x = y
        /\ operatorEntered[i] = {agents[x].owner : x \in agentEntered[i]}
    BY DEF EntryPart
  <2>2. CASE i = id
    <3>1. /\ agentEntered'[i] = agentEntered[i] \cup {a}
          /\ operatorEntered'[i] = operatorEntered[i] \cup {agents[a].owner}
      BY <1>1, <2>2, ContestAt
    <3>2. \A x \in agentEntered[i] : agents[x].owner # agents[a].owner
      BY <1>1, <2>1, <2>2
    <3> QED BY <2>1, <3>1, <3>2
  <2>3. CASE i # id
    BY <1>1, <2>1, <2>3, ContestAt
  <2> QED BY <2>2, <2>3
<1>6. Money' /\ CustodyStep
  BY <1>1, MoneyStays, MoneyFacts
<1>7. AgentTypeOK'
  BY <1>1, SameAgents
<1> QED BY <1>1, <1>4, <1>5, <1>6, <1>7 DEF ContestStepOK, ChallengePool

(* A transaction that pays d into contest id's pool, or -d out of it, and  *)
(* leaves the contest as c and the entries alone.                          *)
LEMMA ContestPoolStep ==
    ASSUME ArcRunInv, NEW id \in DOMAIN contests, NEW c \in Contest, NEW d \in Int,
           contests' = [contests EXCEPT ![id] = c],
           prizeClaimed' \in [1..MaxContests -> SUBSET Accounts],
           UNCHANGED <<agentEntered, operatorEntered, contestAdmin, agentVars>>,
           PoolMoved(ContestPool(id), d),
           c.status \in {"OPEN", "SCORING"} => poolBalance[ContestPool(id)] + d = c.prizePool,
           c.status = "CANCELLED" => poolBalance[ContestPool(id)] + d = 0
    PROVE  ContestStepOK
<1> USE DEF ArcRunInv
<1>1. id \in 1..MaxContests
  BY ContestAt
<1>2. /\ Money' /\ CustodyStep
      /\ poolBalance'[ContestPool(id)] = poolBalance[ContestPool(id)] + d
      /\ \A k \in Pools \ {ContestPool(id)} : poolBalance'[k] = poolBalance[k]
      /\ \A j \in 1..MaxChallenges : poolBalance'[ChallengePool(j)] = poolBalance[ChallengePool(j)]
  BY <1>1, ContestPoolMoved
<1>3. /\ agentEntered' \in [1..MaxContests -> SUBSET (1..MaxAgents)]
      /\ operatorEntered' \in [1..MaxContests -> SUBSET Accounts]
  BY ContestAt
<1>4. ContestPart'
  BY <1>2, <1>3, ContestStepInv
<1>5. AgentTypeOK' /\ EntryPart'
  BY SameAgents, EntryFrame
<1> QED BY <1>2, <1>4, <1>5 DEF ContestStepOK

(* A transaction that moves no money and leaves the contest as c.          *)
LEMMA ContestStatusStep ==
    ASSUME ArcRunInv, NEW id \in DOMAIN contests, NEW c \in Contest,
           contests' = [contests EXCEPT ![id] = c],
           UNCHANGED <<agentEntered, operatorEntered, prizeClaimed, contestAdmin, agentVars,
                       poolBalance, treasury, usdc>>,
           c.prizePool = contests[id].prizePool, c.status = "SCORING", contests[id].status = "OPEN"
    PROVE  ContestStepOK
<1>1. Money' /\ CustodyStep
  BY MoneyStays, MoneyFacts DEF ArcRunInv
<1>2. PoolMoved(ContestPool(id), 0)
  BY <1>1, ContestAt DEF PoolMoved
<1>3. poolBalance[ContestPool(id)] + 0 = c.prizePool
  BY ContestAt
<1>4. prizeClaimed' \in [1..MaxContests -> SUBSET Accounts]
  BY ContestAt
<1>5. c.status # "CANCELLED" /\ 0 \in Int
  OBVIOUS
<1> QED BY <1>2, <1>3, <1>4, <1>5, ContestPoolStep

LEMMA ClaimPrizeStep ==
    ASSUME ArcRunInv, NEW s \in Accounts, NEW id \in DOMAIN contests,
           NEW leaf \in contests[id].finalRoot, claimPrize(s, id, leaf)
    PROVE  ContestStepOK
<1>1. /\ contests[id].status = "SETTLED"
      /\ prizeClaimed' = [prizeClaimed EXCEPT ![id] = @ \cup {s}]
      /\ debit(ContestPool(id), s, leaf.amount)
      /\ UNCHANGED <<contests, agentEntered, operatorEntered, contestAdmin, treasury, agentVars>>
  BY DEF claimPrize, payout
<1>2. leaf.amount \in Nat /\ 0 - leaf.amount \in Int
  BY ContestAt DEF Contest, PayoutLeaf
<1>3. prizeClaimed' \in [1..MaxContests -> SUBSET Accounts]
  BY <1>1, ContestAt
<1>4. PoolMoved(ContestPool(id), 0 - leaf.amount)
  BY <1>1, <1>2, ContestAt, DebitMoney DEF ArcRunInv
<1>5. contests' = [contests EXCEPT ![id] = contests[id]]
  BY <1>1, ContestAt
<1>6. contests[id].status \notin {"OPEN", "SCORING", "CANCELLED"}
  BY <1>1
<1> QED BY <1>1, <1>2, <1>3, <1>4, <1>5, <1>6, ContestAt, ContestPoolStep

LEMMA PostRootStep ==
    ASSUME ArcRunInv, NEW id \in DOMAIN contests, NEW root \in ContestRoots, postScoreRoot(id, root)
    PROVE  ContestStepOK
<1> DEFINE c == [contests[id] EXCEPT !.finalRoot = root, !.status = "SCORING"]
<1>1. /\ contests[id].status = "OPEN"
      /\ contests' = [contests EXCEPT ![id] = c]
      /\ UNCHANGED <<agentEntered, operatorEntered, prizeClaimed, contestAdmin, agentVars,
                     poolBalance, treasury, usdc>>
  BY Zenon DEF postScoreRoot, escrowVars
<1>2. root \in SUBSET PayoutLeaf
  BY ContestAssumption
<1>3. c \in Contest /\ c.prizePool = contests[id].prizePool /\ c.status = "SCORING"
  BY <1>2, ContestAt DEF Contest, ContestStatus
<1> HIDE DEF c
<1> QED BY <1>1, <1>3, ContestStatusStep

LEMMA ContestFeeType ==
    ASSUME ArcRunInv, NEW id \in DOMAIN contests
    PROVE  contestFee(id) \in Nat
<1>1. contests[id].prizePool \in Nat /\ contests[id].platformFeeBps \in Nat
  BY ContestAt, ContestAssumption DEF Contest
<1>2. contests[id].prizePool * contests[id].platformFeeBps \in Nat /\ BPS_DENOMINATOR \in Nat \ {0}
  BY <1>1, ContestAssumption
<1> QED BY <1>2 DEF contestFee

LEMMA SettleStep ==
    ASSUME ArcRunInv, NEW id \in DOMAIN contests, settle(id)
    PROVE  ContestStepOK
<1> DEFINE c == [contests[id] EXCEPT !.status = "SETTLED"]
<1>1. /\ contests' = [contests EXCEPT ![id] = c]
      /\ debitIfAny(ContestPool(id), treasury, contestFee(id))
      /\ UNCHANGED <<agentEntered, operatorEntered, prizeClaimed, contestAdmin, treasury, agentVars>>
  BY Zenon DEF settle, skimPlatformFee
<1>2. c \in Contest /\ c.status = "SETTLED"
  BY ContestAt DEF Contest, ContestStatus
<1> HIDE DEF c
<1>3. contestFee(id) \in Nat
  BY ContestFeeType
<1>4. treasury \in Accounts \cup Treasuries
  BY MoneyFacts DEF ArcRunInv
<1>5. PoolMoved(ContestPool(id), 0 - contestFee(id)) /\ 0 - contestFee(id) \in Int
  BY <1>1, <1>3, <1>4, ContestAt, DebitIfAnyMoney DEF ArcRunInv
<1>6. c.status \notin {"OPEN", "SCORING", "CANCELLED"} /\ prizeClaimed' \in [1..MaxContests -> SUBSET Accounts]
  BY <1>1, <1>2, ContestAt
<1> QED BY <1>1, <1>2, <1>5, <1>6, ContestPoolStep

LEMMA CancelContestStep ==
    ASSUME ArcRunInv, NEW id \in DOMAIN contests, cancelContest(id)
    PROVE  ContestStepOK
<1> DEFINE c == [contests[id] EXCEPT !.status = "CANCELLED"]
           k == ContestPool(id)
<1>1. /\ contests' = [contests EXCEPT ![id] = c]
      /\ debitIfAny(k, contests[id].sponsor, poolBalance[k])
      /\ UNCHANGED <<agentEntered, operatorEntered, prizeClaimed, contestAdmin, treasury, agentVars>>
  BY Zenon DEF cancelContest
<1>2. c \in Contest /\ c.status = "CANCELLED"
  BY ContestAt DEF Contest, ContestStatus
<1>3. contests[id].sponsor \in Accounts \cup Treasuries
  BY ContestAt DEF Contest
<1> HIDE DEF c
<1>4. PoolMoved(k, 0 - poolBalance[k]) /\ 0 - poolBalance[k] \in Int
  BY <1>1, <1>3, ContestAt, DebitIfAnyMoney DEF ArcRunInv
<1>5. poolBalance[k] + (0 - poolBalance[k]) = 0
  BY ContestAt
<1>6. c.status \notin {"OPEN", "SCORING"} /\ prizeClaimed' \in [1..MaxContests -> SUBSET Accounts]
  BY <1>1, <1>2, ContestAt
<1> QED BY <1>1, <1>2, <1>4, <1>5, <1>6, ContestPoolStep

LEMMA SweepStep ==
    ASSUME ArcRunInv, NEW id \in DOMAIN contests, sweepUnclaimed(id)
    PROVE  ContestStepOK
<1> DEFINE k == ContestPool(id)
<1>1. /\ contests[id].status = "SETTLED"
      /\ debit(k, treasury, poolBalance[k])
      /\ UNCHANGED <<contestVars, treasury, agentVars>>
  BY DEF sweepUnclaimed, sweepPool
<1>2. treasury \in Accounts \cup Treasuries
  BY MoneyFacts DEF ArcRunInv
<1>3. PoolMoved(k, 0 - poolBalance[k]) /\ 0 - poolBalance[k] \in Int
  BY <1>1, <1>2, ContestAt, DebitMoney DEF ArcRunInv
<1>4. /\ contests' = [contests EXCEPT ![id] = contests[id]]
      /\ prizeClaimed' \in [1..MaxContests -> SUBSET Accounts]
      /\ UNCHANGED <<agentEntered, operatorEntered, contestAdmin, agentVars>>
  BY <1>1, ContestAt DEF contestVars, contestBooks
<1>5. contests[id].status \notin {"OPEN", "SCORING", "CANCELLED"}
  BY <1>1
<1> QED BY <1>3, <1>4, <1>5, ContestAt, ContestPoolStep

(* Transactions that leave the contests' books and the escrow alone.       *)
LEMMA ContestAdminStep ==
    ASSUME ArcRunInv, UNCHANGED <<contestBooks, escrowVars, agentVars>>,
           listingFeeBps' \in 0..MAX_LISTING_FEE_BPS,
           contestPlatformFeeBps' \in 0..MAX_PLATFORM_FEE_BPS, contestsPaused' \in BOOLEAN
    PROVE  ContestStepOK
<1> USE DEF ArcRunInv, escrowVars
<1>1. Money' /\ CustodyStep
  BY MoneyStays, MoneyFacts
<1>2. ContestPart'
  BY DEF ContestPart, ContestTypeOK, PrizePoolIntact, ContestPool, contestBooks
<1>3. AgentTypeOK' /\ EntryPart'
  BY SameAgents, EntryFrame DEF contestBooks
<1> QED BY <1>1, <1>2, <1>3 DEF ContestStepOK, ChallengePool

LEMMA ContestDeltasStep ==
    ASSUME ArcRunInv, NEW id \in DOMAIN contests, NEW batch, applyContestDeltas(id, batch)
    PROVE  ContestStepOK
<1> USE DEF ArcRunInv
<1>1. AgentsStep /\ UNCHANGED <<contestVars, poolBalance, treasury>>
  BY BatchStep DEF applyContestDeltas
<1>2. Money' /\ CustodyStep
  BY <1>1, MoneyStays, MoneyFacts DEF AgentsStep
<1>3. ContestPart' /\ EntryPart'
  BY <1>1, ContestFrame, EntryFrame DEF AgentsStep, contestVars, contestBooks
<1> QED BY <1>1, <1>2, <1>3 DEF ContestStepOK, ChallengePool, AgentsStep

LEMMA ContestNextStep ==
    ASSUME ArcRunInv, ContestNext
    PROVE  ContestStepOK
<1>1. ASSUME NEW s \in Accounts, NEW t \in ContestTerms, listContest(s, t) PROVE ContestStepOK
  BY <1>1, ListStep
<1>2. ASSUME NEW id \in DOMAIN contests, ContestStep(id) PROVE ContestStepOK
  <2>1. ASSUME NEW s \in Accounts, NEW a \in DOMAIN agents, registerEntry(s, id, a) PROVE ContestStepOK
    BY <2>1, RegisterStep
  <2>2. ASSUME NEW s \in Accounts, NEW leaf \in contests[id].finalRoot, claimPrize(s, id, leaf)
        PROVE  ContestStepOK
    BY <2>2, ClaimPrizeStep
  <2>3. ASSUME NEW root \in ContestRoots, postScoreRoot(id, root) PROVE ContestStepOK
    BY <2>3, PostRootStep
  <2>4. CASE settle(id)
    BY <2>4, SettleStep
  <2>5. ASSUME NEW b \in Batches, applyContestDeltas(id, b) PROVE ContestStepOK
    BY <2>5, ContestDeltasStep
  <2>6. CASE cancelContest(id)
    BY <2>6, CancelContestStep
  <2>7. CASE sweepUnclaimed(id)
    BY <2>7, SweepStep
  <2> QED BY <1>2, <2>1, <2>2, <2>3, <2>4, <2>5, <2>6, <2>7 DEF ContestStep
<1>3. /\ listingFeeBps \in 0..MAX_LISTING_FEE_BPS
      /\ contestPlatformFeeBps \in 0..MAX_PLATFORM_FEE_BPS /\ contestsPaused \in BOOLEAN
  BY DEF ArcRunInv, ContestPart, ContestTypeOK
<1>4. ASSUME NEW f \in ContestFees, setListingFeeBps(f) PROVE ContestStepOK
  <2>1. f \in 0..MAX_LISTING_FEE_BPS
    BY <1>4, ContestAssumption DEF setListingFeeBps
  <2> QED BY <1>3, <1>4, <2>1, ContestAdminStep DEF setListingFeeBps
<1>5. ASSUME NEW f \in ContestFees, setContestPlatformFeeBps(f) PROVE ContestStepOK
  <2>1. f \in 0..MAX_PLATFORM_FEE_BPS
    BY <1>5, ContestAssumption DEF setContestPlatformFeeBps
  <2> QED BY <1>3, <1>5, <2>1, ContestAdminStep DEF setContestPlatformFeeBps
<1>6. ASSUME NEW p \in BOOLEAN, SetContestsPaused(p) PROVE ContestStepOK
  BY <1>3, <1>6, ContestAdminStep DEF SetContestsPaused
<1> QED BY <1>1, <1>2, <1>4, <1>5, <1>6 DEF ContestNext
-----------------------------------------------------------------------------
(* Challenges.  What one challenge owes: a stake for each entrant that has *)
(* not pulled it back.                                                     *)
StakesOf(ch, in, out) == ch.stake * (Cardinality(in) - Cardinality(out))

LEMMA ChallengeAt ==
    ASSUME ArcRunInv
    PROVE  /\ challenges \in Seq(Challenge) /\ Len(challenges) \in Nat
           /\ DOMAIN challenges = 1..Len(challenges) /\ Len(challenges) <= MaxChallenges
           /\ \A id \in DOMAIN challenges :
                 /\ challenges[id] \in Challenge /\ id \in 1..MaxChallenges
                 /\ ChallengePool(id) \in Pools /\ poolBalance[ChallengePool(id)] \in Nat
                 /\ challenges = [challenges EXCEPT ![id] = challenges[id]]
                 /\ IsFiniteSet(joined[id]) /\ IsFiniteSet(refunded[id])
                 /\ refunded[id] \subseteq joined[id]
                 /\ challenges[id].status # "CANCELLED" => refunded[id] = {}
                 /\ challenges[id].status # "SETTLED" =>
                       poolBalance[ChallengePool(id)] =
                           StakesOf(challenges[id], joined[id], refunded[id])
           /\ joined \in [1..MaxChallenges -> SUBSET Accounts]
           /\ invited \in [1..MaxChallenges -> SUBSET Accounts]
           /\ payoutClaimed \in [1..MaxChallenges -> SUBSET Accounts]
           /\ refunded \in [1..MaxChallenges -> SUBSET Accounts]
<1> USE DEF ArcRunInv
<1>1. /\ challenges \in Seq(Challenge) /\ Len(challenges) \in Nat
      /\ DOMAIN challenges = 1..Len(challenges) /\ Len(challenges) <= MaxChallenges
      /\ \A id \in DOMAIN challenges : challenges[id] \in Challenge
  BY LenProperties, ElementOfSeq DEF ChallengePart, ChallengeTypeOK
<1>2. ASSUME NEW id \in DOMAIN challenges
      PROVE  /\ id \in 1..MaxChallenges
             /\ ChallengePool(id) \in Pools /\ poolBalance[ChallengePool(id)] \in Nat
             /\ IsFiniteSet(joined[id]) /\ IsFiniteSet(refunded[id])
             /\ refunded[id] \subseteq joined[id]
  <2>1. id \in 1..MaxChallenges
    BY <1>1, ConstantFacts
  <2>2. ChallengePool(id) \in Pools /\ poolBalance[ChallengePool(id)] \in Nat
    BY <2>1, PoolsApart, MoneyFacts
  <2>3. IsFiniteSet(joined[id]) /\ refunded[id] \subseteq joined[id]
    BY <2>1 DEF ChallengePart
  <2>4. IsFiniteSet(refunded[id])
    BY <2>3, FS_Subset
  <2> QED BY <2>1, <2>2, <2>3, <2>4
<1>3. \A id \in DOMAIN challenges :
         /\ challenges[id].status # "CANCELLED" => refunded[id] = {}
         /\ challenges[id].status # "SETTLED" =>
               poolBalance[ChallengePool(id)] = StakesOf(challenges[id], joined[id], refunded[id])
         /\ challenges = [challenges EXCEPT ![id] = challenges[id]]
  BY <1>1 DEF ChallengePart, StakesAlwaysCovered, StakesOf, entrantCount
<1> QED BY <1>1, <1>2, <1>3 DEF ChallengePart, ChallengeTypeOK

(* A transaction that leaves the challenges and their pools alone.         *)
LEMMA ChallengeFrame ==
    ASSUME ArcRunInv, UNCHANGED challengeVars,
           \A id \in 1..MaxChallenges : poolBalance'[ChallengePool(id)] = poolBalance[ChallengePool(id)]
    PROVE  ChallengePart'
<1> USE DEF challengeVars, challengeBooks, challengeAdmin
<1>1. ChallengeTypeOK'
  BY DEF ArcRunInv, ChallengePart, ChallengeTypeOK
<1>2. \A id \in DOMAIN challenges : id \in 1..MaxChallenges
  BY ChallengeAt
<1>3. StakesAlwaysCovered'
  <2> SUFFICES ASSUME NEW id \in DOMAIN challenges, challenges[id].status # "SETTLED"
               PROVE  poolBalance'[ChallengePool(id)] =
                          challenges[id].stake * (Cardinality(joined[id]) - Cardinality(refunded[id]))
    BY DEF StakesAlwaysCovered, entrantCount, ChallengePool
  <2> QED BY <1>2, ChallengeAt DEF StakesOf
<1> QED BY <1>1, <1>3 DEF ArcRunInv, ChallengePart, ChallengePool

(* What a transaction of ChallengeArena leaves true.                       *)
ChallengeStepOK == /\ AgentTypeOK' /\ AgentsGrow /\ Money' /\ ChallengePart'
                   /\ CustodyStep
                   /\ \A id \in 1..MaxContests :
                         poolBalance'[ContestPool(id)] = poolBalance[ContestPool(id)]

(* A transaction that pays d into challenge id's pool, or -d out of it,    *)
(* and leaves the challenge as ch.                                         *)
LEMMA ChallengeStepInv ==
    ASSUME ArcRunInv, NEW id \in DOMAIN challenges, NEW ch \in Challenge, NEW d \in Int,
           challenges' = [challenges EXCEPT ![id] = ch],
           NEW in \in SUBSET Accounts, NEW out \in SUBSET in, IsFiniteSet(in),
           joined' = [joined EXCEPT ![id] = in],
           refunded' = [refunded EXCEPT ![id] = out],
           invited' \in [1..MaxChallenges -> SUBSET Accounts],
           payoutClaimed' \in [1..MaxChallenges -> SUBSET Accounts],
           UNCHANGED <<challengeAdmin, agentVars>>,
           PoolMoved(ChallengePool(id), d),
           ch.status # "CANCELLED" => out = {},
           ch.status # "SETTLED" => poolBalance[ChallengePool(id)] + d = StakesOf(ch, in, out)
    PROVE  ChallengeStepOK
<1>1. /\ challenges \in Seq(Challenge) /\ DOMAIN challenges = 1..Len(challenges)
      /\ Len(challenges) \in Nat /\ Len(challenges) <= MaxChallenges
      /\ id \in 1..MaxChallenges /\ \A i \in DOMAIN challenges : i \in 1..MaxChallenges
  BY ChallengeAt
<1>2. /\ challenges' \in Seq(Challenge) /\ Len(challenges') = Len(challenges)
      /\ DOMAIN challenges' = DOMAIN challenges
      /\ challenges'[id] = ch
      /\ \A i \in DOMAIN challenges \ {id} : challenges'[i] = challenges[i]
  BY <1>1
<1>3. /\ joined'[id] = in /\ refunded'[id] = out
      /\ \A i \in 1..MaxChallenges \ {id} : joined'[i] = joined[i] /\ refunded'[i] = refunded[i]
      /\ joined' \in [1..MaxChallenges -> SUBSET Accounts]
      /\ refunded' \in [1..MaxChallenges -> SUBSET Accounts]
  BY <1>1, ChallengeAt
<1>4. ChallengeTypeOK'
  BY <1>1, <1>2, <1>3 DEF ArcRunInv, ChallengePart, ChallengeTypeOK, challengeAdmin
<1>5. \A i \in 1..MaxChallenges \ {id} :
         poolBalance'[ChallengePool(i)] = poolBalance[ChallengePool(i)]
  <2> SUFFICES ASSUME NEW i \in 1..MaxChallenges \ {id}
               PROVE  poolBalance'[ChallengePool(i)] = poolBalance[ChallengePool(i)]
    OBVIOUS
  <2>1. ChallengePool(i) \in Pools \ {ChallengePool(id)}
    BY <1>1, PoolsApart, ConstantFacts
  <2> QED BY <2>1 DEF PoolMoved
<1>6. poolBalance'[ChallengePool(id)] = poolBalance[ChallengePool(id)] + d
  BY DEF PoolMoved
<1>7. StakesAlwaysCovered'
  <2> SUFFICES ASSUME NEW i \in DOMAIN challenges, challenges'[i].status # "SETTLED"
               PROVE  poolBalance'[ChallengePool(i)] =
                          StakesOf(challenges'[i], joined'[i], refunded'[i])
    BY <1>2 DEF StakesAlwaysCovered, entrantCount, ChallengePool, StakesOf
  <2>1. CASE i = id
    BY <1>2, <1>3, <1>6, <2>1
  <2>2. CASE i # id
    <3>1. /\ challenges'[i] = challenges[i] /\ joined'[i] = joined[i] /\ refunded'[i] = refunded[i]
          /\ poolBalance'[ChallengePool(i)] = poolBalance[ChallengePool(i)]
      BY <1>1, <1>2, <1>3, <1>5, <2>2
    <3> QED BY <3>1, ChallengeAt
  <2> QED BY <2>1, <2>2
<1>8. \A i \in 1..MaxChallenges :
         /\ IsFiniteSet(joined'[i])
         /\ refunded'[i] \subseteq joined'[i]
         /\ i > Len(challenges') => joined'[i] = {} /\ poolBalance'[ChallengePool(i)] = 0
  <2> SUFFICES ASSUME NEW i \in 1..MaxChallenges
               PROVE  /\ IsFiniteSet(joined'[i])
                      /\ refunded'[i] \subseteq joined'[i]
                      /\ i > Len(challenges) => joined'[i] = {} /\ poolBalance'[ChallengePool(i)] = 0
    BY <1>2
  <2>1. CASE i = id
    BY <1>1, <1>3, <2>1
  <2>2. CASE i # id
    BY <1>3, <1>5, <2>2 DEF ArcRunInv, ChallengePart
  <2> QED BY <2>1, <2>2
<1>9. \A i \in DOMAIN challenges' : challenges'[i].status # "CANCELLED" => refunded'[i] = {}
  <2> SUFFICES ASSUME NEW i \in DOMAIN challenges, challenges'[i].status # "CANCELLED"
               PROVE  refunded'[i] = {}
    BY <1>2
  <2>1. CASE i = id
    BY <1>2, <1>3, <2>1
  <2>2. CASE i # id
    BY <1>1, <1>2, <1>3, <2>2, ChallengeAt
  <2> QED BY <2>1, <2>2
<1>10. ChallengePart'
  BY <1>4, <1>7, <1>8, <1>9 DEF ChallengePart, ChallengePool
<1>11. \A i \in 1..MaxContests : poolBalance'[ContestPool(i)] = poolBalance[ContestPool(i)]
  <2>1. \A i \in 1..MaxContests : ContestPool(i) \in Pools \ {ChallengePool(id)}
    BY <1>1, PoolsApart
  <2> QED BY <2>1 DEF PoolMoved
<1>12. AgentTypeOK' /\ AgentsGrow
  BY SameAgents DEF ArcRunInv
<1> QED BY <1>10, <1>11, <1>12 DEF ChallengeStepOK, PoolMoved

(* Cardinalities of a set that grows by one element, and of none.          *)
LEMMA OneMore ==
    ASSUME NEW S, NEW x, IsFiniteSet(S), x \notin S
    PROVE  /\ IsFiniteSet(S \cup {x})
           /\ Cardinality(S) \in Nat
           /\ Cardinality(S \cup {x}) = Cardinality(S) + 1
  BY FS_AddElement, FS_CardinalityType

LEMMA StakesArithmetic ==
    ASSUME NEW s \in Nat, NEW n \in Nat, NEW m \in Nat
    PROVE  /\ s * (n + 1 - m) = s * (n - m) + s
           /\ s * (n - (m + 1)) = s * (n - m) + (0 - s)
           /\ s * n \in Nat
<1>1. n + 1 - m = (n - m) + 1 /\ n - (m + 1) = (n - m) - 1 /\ n - m \in Int
  OBVIOUS
<1>2. \A k \in Int : s * (k + 1) = s * k + s /\ s * (k - 1) = s * k + (0 - s)
  OBVIOUS
<1>3. s * n \in Nat
  OBVIOUS
<1> QED BY <1>1, <1>2, <1>3

LEMMA CreateStep ==
    ASSUME ArcRunInv, NEW s \in Accounts, NEW terms \in ChallengeTerms, createChallenge(s, terms)
    PROVE  ChallengeStepOK
<1> USE DEF ArcRunInv
<1> DEFINE id == Len(challenges) + 1
           ch == [creator |-> s, kind |-> terms.kind, status |-> "OPEN",
                  isPrivate |-> terms.isPrivate, platformFeeBps |-> defaultPlatformFeeBps,
                  stake |-> terms.stake, maxEntrants |-> terms.maxEntrants,
                  joinDeadline |-> terms.joinDeadline, resolveDeadline |-> terms.resolveDeadline,
                  winnerRoot |-> {}, minTier |-> terms.minTier, maxTier |-> terms.maxTier]
<1>1. /\ terms.kind \in ChallengeKind /\ terms.stake \in Nat \ {0} /\ terms.maxEntrants \in Nat
      /\ terms.joinDeadline \in Nat /\ terms.resolveDeadline \in Nat /\ terms.isPrivate \in BOOLEAN
      /\ terms.minTier \in Tiers /\ terms.maxTier \in Tiers
  BY ChallengeAssumption, AgentAssumption DEF createChallenge, ValidGate, Tiers
<1>2. /\ Len(challenges) < MaxChallenges
      /\ challenges' = Append(challenges, ch)
      /\ invited' = [invited EXCEPT ![id] = IF terms.isPrivate THEN {s} ELSE {}]
      /\ UNCHANGED <<joined, payoutClaimed, refunded, challengeAdmin, poolBalance, treasury, usdc,
                     agentVars>>
  BY DEF createChallenge, escrowVars
<1>3. ch \in Challenge /\ ch.status = "OPEN"
  BY <1>1 DEF Challenge, ChallengeStatus, ChallengePart, ChallengeTypeOK
<1> HIDE DEF ch
<1>4. /\ challenges \in Seq(Challenge) /\ Len(challenges) \in Nat /\ id \in 1..MaxChallenges
      /\ DOMAIN challenges = 1..Len(challenges)
      /\ \A i \in DOMAIN challenges : i \in 1..MaxChallenges
  BY <1>2, ChallengeAt, ConstantFacts
<1>5. /\ challenges' \in Seq(Challenge) /\ Len(challenges') = id
      /\ \A i \in 1..Len(challenges) : challenges'[i] = challenges[i]
      /\ challenges'[id] = ch
  BY <1>2, <1>3, <1>4, AppendProperties
<1>6. DOMAIN challenges' = 1..id
  BY <1>5, LenProperties
<1>7. joined[id] = {} /\ refunded[id] = {} /\ poolBalance[ChallengePool(id)] = 0
  BY <1>4 DEF ChallengePart
<1>8. invited' \in [1..MaxChallenges -> SUBSET Accounts]
  BY <1>2, ChallengeAt
<1>9. ChallengeTypeOK'
  BY <1>2, <1>4, <1>5, <1>8 DEF ChallengePart, ChallengeTypeOK, challengeAdmin
<1>10. StakesAlwaysCovered'
  <2> SUFFICES ASSUME NEW i \in 1..id, challenges'[i].status # "SETTLED"
               PROVE  poolBalance[ChallengePool(i)] =
                          StakesOf(challenges'[i], joined[i], refunded[i])
    BY <1>2, <1>6 DEF StakesAlwaysCovered, entrantCount, ChallengePool, StakesOf
  <2>1. CASE i = id
    <3>1. Cardinality(joined[i]) = 0 /\ Cardinality(refunded[i]) = 0
      BY <1>7, <2>1, FS_EmptySet
    <3>2. challenges'[i].stake \in Nat
      BY <1>3, <1>5, <2>1 DEF Challenge
    <3> QED BY <1>7, <2>1, <3>1, <3>2 DEF StakesOf
  <2>2. CASE i # id
    <3>1. i \in DOMAIN challenges /\ challenges'[i] = challenges[i]
      BY <1>4, <1>5, <2>2
    <3> QED BY <3>1, ChallengeAt
  <2> QED BY <2>1, <2>2
<1>11. ChallengePart'
  <2>1. \A i \in DOMAIN challenges' : challenges'[i].status # "CANCELLED" => refunded[i] = {}
    <3> SUFFICES ASSUME NEW i \in 1..id, challenges'[i].status # "CANCELLED" PROVE refunded[i] = {}
      BY <1>6
    <3>1. CASE i = id
      BY <1>7, <3>1
    <3>2. CASE i # id
      BY <1>4, <1>5, <3>2, ChallengeAt
    <3> QED BY <3>1, <3>2
  <2>2. \A i \in 1..MaxChallenges :
           /\ IsFiniteSet(joined[i])
           /\ refunded[i] \subseteq joined[i]
           /\ i > Len(challenges') => joined[i] = {} /\ poolBalance[ChallengePool(i)] = 0
    BY <1>4, <1>5 DEF ChallengePart
  <2> QED BY <1>2, <1>9, <1>10, <2>1, <2>2 DEF ChallengePart, ChallengePool
<1>12. Money' /\ CustodyStep
  BY <1>2, MoneyStays, MoneyFacts
<1>13. AgentTypeOK' /\ AgentsGrow
  BY <1>2, SameAgents
<1> QED BY <1>2, <1>11, <1>12, <1>13 DEF ChallengeStepOK, ContestPool

LEMMA JoinStep ==
    ASSUME ArcRunInv, NEW s \in Accounts, NEW id \in DOMAIN challenges, NEW a \in DOMAIN agents,
           joinChallenge(s, id, a)
    PROVE  ChallengeStepOK
<1> DEFINE stake == challenges[id].stake
           in == joined[id] \cup {s}
<1>1. /\ challenges[id].status = "OPEN"
      /\ s \notin joined[id]
      /\ joined' = [joined EXCEPT ![id] = in]
      /\ deposit(ChallengePool(id), s, stake, usdc)
      /\ UNCHANGED <<challenges, invited, payoutClaimed, refunded, challengeAdmin, treasury, agentVars>>
  BY DEF joinChallenge, MayJoin
<1>2. /\ stake \in Nat /\ stake \in Int
      /\ joined[id] \in SUBSET Accounts
      /\ refunded[id] = {}
      /\ poolBalance[ChallengePool(id)] = stake * (Cardinality(joined[id]) - Cardinality(refunded[id]))
  <2>1. /\ challenges[id] \in Challenge /\ id \in 1..MaxChallenges
        /\ joined \in [1..MaxChallenges -> SUBSET Accounts]
        /\ refunded[id] = {}
        /\ poolBalance[ChallengePool(id)] = StakesOf(challenges[id], joined[id], refunded[id])
    BY <1>1, ChallengeAt
  <2>2. stake \in Nat /\ stake \in Int
    BY <2>1 DEF Challenge
  <2>3. poolBalance[ChallengePool(id)] = stake * (Cardinality(joined[id]) - Cardinality(refunded[id]))
    BY <2>1, Zenon DEF StakesOf
  <2>4. joined[id] \in SUBSET Accounts
    BY <2>1
  <2> QED BY <2>1, <2>2, <2>3, <2>4, Zenon
<1>3. in \in SUBSET Accounts /\ {} \in SUBSET in
  BY <1>2
<1>4. /\ IsFiniteSet(in) /\ Cardinality(joined[id]) \in Nat
      /\ Cardinality(in) = Cardinality(joined[id]) + 1
  BY <1>1, ChallengeAt, OneMore
<1>5. PoolMoved(ChallengePool(id), stake)
  BY <1>1, <1>2, MoneyFacts, ChallengeAt, DepositMoney DEF ArcRunInv
<1>6. poolBalance[ChallengePool(id)] + stake = StakesOf(challenges[id], in, {})
  <2>1. Cardinality({}) = 0
    BY FS_EmptySet
  <2>2. stake * (Cardinality(joined[id]) + 1 - 0) = stake * (Cardinality(joined[id]) - 0) + stake
    BY <1>2, <1>4, StakesArithmetic
  <2> QED BY <1>2, <1>4, <2>1, <2>2 DEF StakesOf
<1>7. /\ challenges' = [challenges EXCEPT ![id] = challenges[id]]
      /\ refunded' = [refunded EXCEPT ![id] = {}]
      /\ invited' \in [1..MaxChallenges -> SUBSET Accounts]
      /\ payoutClaimed' \in [1..MaxChallenges -> SUBSET Accounts]
      /\ challenges[id] \in Challenge
  BY <1>1, <1>2, ChallengeAt
<1>8. UNCHANGED <<challengeAdmin, agentVars>>
  BY <1>1
<1> HIDE DEF stake, in
<1> QED BY <1>1, <1>2, <1>3, <1>4, <1>5, <1>6, <1>7, <1>8, ChallengeStepInv

LEMMA RefundStep ==
    ASSUME ArcRunInv, NEW s \in Accounts, NEW id \in DOMAIN challenges, refund(s, id)
    PROVE  ChallengeStepOK
<1> DEFINE stake == challenges[id].stake
           in == joined[id]
           out == refunded[id] \cup {s}
<1>1. /\ challenges[id].status = "CANCELLED"
      /\ s \in in /\ s \notin refunded[id]
      /\ refunded' = [refunded EXCEPT ![id] = out]
      /\ debit(ChallengePool(id), s, stake)
      /\ UNCHANGED <<challenges, joined, invited, payoutClaimed, challengeAdmin, treasury, agentVars>>
  BY DEF refund, payout
<1>2. /\ stake \in Nat /\ 0 - stake \in Int
      /\ in \in SUBSET Accounts /\ IsFiniteSet(in) /\ out \in SUBSET in
      /\ poolBalance[ChallengePool(id)] = stake * (Cardinality(in) - Cardinality(refunded[id]))
  BY <1>1, ChallengeAt DEF StakesOf, Challenge
<1>3. /\ Cardinality(in) \in Nat /\ Cardinality(refunded[id]) \in Nat
      /\ Cardinality(out) = Cardinality(refunded[id]) + 1
  BY <1>1, ChallengeAt, OneMore, FS_CardinalityType
<1>4. PoolMoved(ChallengePool(id), 0 - stake)
  BY <1>1, <1>2, ChallengeAt, DebitMoney DEF ArcRunInv
<1>5. poolBalance[ChallengePool(id)] + (0 - stake) = StakesOf(challenges[id], in, out)
  <2>1. stake * (Cardinality(in) - (Cardinality(refunded[id]) + 1)) =
            stake * (Cardinality(in) - Cardinality(refunded[id])) + (0 - stake)
    BY <1>2, <1>3, StakesArithmetic
  <2> QED BY <1>2, <1>3, <2>1 DEF StakesOf
<1>6. /\ challenges' = [challenges EXCEPT ![id] = challenges[id]]
      /\ joined' = [joined EXCEPT ![id] = in]
      /\ invited' \in [1..MaxChallenges -> SUBSET Accounts]
      /\ payoutClaimed' \in [1..MaxChallenges -> SUBSET Accounts]
      /\ challenges[id] \in Challenge
      /\ UNCHANGED <<challengeAdmin, agentVars>>
  BY <1>1, ChallengeAt
<1> HIDE DEF stake, in, out
<1> QED BY <1>1, <1>2, <1>4, <1>5, <1>6, ChallengeStepInv

(* A transaction that moves no money and leaves the entrants alone; the    *)
(* challenge ch it leaves has the stake it had.                            *)
LEMMA ChallengeStatusStep ==
    ASSUME ArcRunInv, NEW id \in DOMAIN challenges, NEW ch \in Challenge,
           challenges' = [challenges EXCEPT ![id] = ch],
           invited' \in [1..MaxChallenges -> SUBSET Accounts],
           UNCHANGED <<joined, payoutClaimed, refunded, challengeAdmin, agentVars,
                       poolBalance, treasury, usdc>>,
           ch.stake = challenges[id].stake,
           challenges[id].status \in {"OPEN", "LOCKED"}, ch.status # "SETTLED"
    PROVE  ChallengeStepOK
<1> DEFINE in == joined[id]
<1>1. Money' /\ CustodyStep
  BY MoneyStays, MoneyFacts DEF ArcRunInv
<1>2. PoolMoved(ChallengePool(id), 0)
  BY <1>1, ChallengeAt DEF PoolMoved
<1>3. /\ poolBalance[ChallengePool(id)] + 0 = StakesOf(ch, in, {})
      /\ refunded[id] = {}
  <2>1. /\ refunded[id] = {} /\ poolBalance[ChallengePool(id)] \in Nat
        /\ poolBalance[ChallengePool(id)] = StakesOf(challenges[id], in, refunded[id])
    BY ChallengeAt
  <2>2. StakesOf(challenges[id], in, refunded[id]) = StakesOf(ch, in, {})
    BY <2>1 DEF StakesOf
  <2> QED BY <2>1, <2>2
<1>4. /\ in \in SUBSET Accounts /\ IsFiniteSet(in) /\ {} \in SUBSET in
      /\ joined' = [joined EXCEPT ![id] = in]
      /\ refunded' = [refunded EXCEPT ![id] = {}]
      /\ payoutClaimed' \in [1..MaxChallenges -> SUBSET Accounts]
  BY <1>3, ChallengeAt
<1>5. 0 \in Int
  OBVIOUS
<1> HIDE DEF in
<1> QED BY <1>2, <1>3, <1>4, <1>5, ChallengeStepInv

LEMMA InviteStep ==
    ASSUME ArcRunInv, NEW s \in Accounts, NEW id \in DOMAIN challenges, NEW i \in SUBSET Accounts,
           invite(s, id, i)
    PROVE  ChallengeStepOK
<1>1. /\ challenges[id].status = "OPEN"
      /\ invited' = [invited EXCEPT ![id] = @ \cup i]
      /\ UNCHANGED <<challenges, joined, payoutClaimed, refunded, challengeAdmin, agentVars,
                     poolBalance, treasury, usdc>>
  BY DEF invite, escrowVars
<1>2. /\ challenges' = [challenges EXCEPT ![id] = challenges[id]]
      /\ invited' \in [1..MaxChallenges -> SUBSET Accounts]
      /\ challenges[id] \in Challenge
  BY <1>1, ChallengeAt
<1> QED BY <1>1, <1>2, ChallengeStatusStep

LEMMA LockCancelStep ==
    ASSUME ArcRunInv, NEW id \in DOMAIN challenges, NEW status \in {"LOCKED", "CANCELLED"},
           challenges[id].status \in {"OPEN", "LOCKED"}, SetStatus(id, status),
           UNCHANGED <<joined, invited, payoutClaimed, refunded, challengeAdmin, escrowVars, agentVars>>
    PROVE  ChallengeStepOK
<1> DEFINE ch == [challenges[id] EXCEPT !.status = status]
<1>1. challenges' = [challenges EXCEPT ![id] = ch]
  BY Zenon DEF SetStatus
<1>2. ch \in Challenge /\ ch.stake = challenges[id].stake /\ ch.status # "SETTLED"
  BY ChallengeAt DEF Challenge, ChallengeStatus
<1>3. /\ invited' \in [1..MaxChallenges -> SUBSET Accounts]
      /\ UNCHANGED <<joined, payoutClaimed, refunded, challengeAdmin, agentVars,
                     poolBalance, treasury, usdc>>
  BY ChallengeAt DEF escrowVars
<1> HIDE DEF ch
<1> QED BY <1>1, <1>2, <1>3, ChallengeStatusStep

LEMMA ClaimPayoutStep ==
    ASSUME ArcRunInv, NEW s \in Accounts, NEW id \in DOMAIN challenges,
           NEW leaf \in challenges[id].winnerRoot, claimChallengePayout(s, id, leaf)
    PROVE  ChallengeStepOK
<1> DEFINE in == joined[id]
<1>1. /\ challenges[id].status = "SETTLED"
      /\ payoutClaimed' = [payoutClaimed EXCEPT ![id] = @ \cup {s}]
      /\ debit(ChallengePool(id), s, leaf.amount)
      /\ UNCHANGED <<challenges, joined, invited, refunded, challengeAdmin, treasury, agentVars>>
  BY DEF claimChallengePayout, payout
<1>2. leaf.amount \in Nat /\ 0 - leaf.amount \in Int
  BY ChallengeAt DEF Challenge, PayoutLeaf
<1>3. PoolMoved(ChallengePool(id), 0 - leaf.amount)
  BY <1>1, <1>2, ChallengeAt, DebitMoney DEF ArcRunInv
<1>4. refunded[id] = {} /\ challenges[id] \in Challenge
  BY <1>1, ChallengeAt
<1>5. /\ challenges' = [challenges EXCEPT ![id] = challenges[id]]
      /\ in \in SUBSET Accounts /\ IsFiniteSet(in) /\ {} \in SUBSET in
      /\ joined' = [joined EXCEPT ![id] = in]
      /\ refunded' = [refunded EXCEPT ![id] = {}]
      /\ invited' \in [1..MaxChallenges -> SUBSET Accounts]
      /\ payoutClaimed' \in [1..MaxChallenges -> SUBSET Accounts]
      /\ UNCHANGED <<challengeAdmin, agentVars>>
  BY <1>1, <1>4, ChallengeAt
<1> HIDE DEF in
<1> QED BY <1>1, <1>2, <1>3, <1>4, <1>5, ChallengeStepInv

LEMMA ResolveStep ==
    ASSUME ArcRunInv, NEW id \in DOMAIN challenges, NEW root \in ChallengeRoots, postWinnerRoot(id, root)
    PROVE  ChallengeStepOK
<1> DEFINE in == joined[id]
           fee == challengeFee(id)
           ch == [challenges[id] EXCEPT !.winnerRoot = root, !.status = "SETTLED"]
<1>1. /\ challenges[id].status = "LOCKED"
      /\ challenges' = [challenges EXCEPT ![id] = ch]
      /\ debitIfAny(ChallengePool(id), treasury, fee)
      /\ UNCHANGED <<joined, invited, payoutClaimed, refunded, challengeAdmin, treasury, agentVars>>
  BY Zenon DEF postWinnerRoot, skimPlatformFee
<1>2. root \in SUBSET PayoutLeaf
  BY ChallengeAssumption
<1>3. ch \in Challenge /\ ch.status = "SETTLED"
  <2>1. challenges[id] \in Challenge
    BY ChallengeAt
  <2>2. "SETTLED" \in ChallengeStatus
    BY DEF ChallengeStatus
  <2> QED BY <1>2, <2>1, <2>2 DEF Challenge
<1>4. fee \in Nat /\ 0 - fee \in Int
  <2>1. /\ challenges[id].stake \in Nat /\ challenges[id].platformFeeBps \in Nat
        /\ BPS_DENOMINATOR \in Nat \ {0}
    <3>1. challenges[id] \in Challenge
      BY ChallengeAt
    <3>2. 0..MAX_PLATFORM_FEE_BPS \subseteq Nat /\ BPS_DENOMINATOR \in Nat \ {0}
      BY ContestAssumption
    <3> QED BY <3>1, <3>2 DEF Challenge
  <2>2. entrantCount(id) \in Nat
    BY ChallengeAt, FS_CardinalityType DEF entrantCount
  <2>3. challenges[id].stake * entrantCount(id) * challenges[id].platformFeeBps \in Nat
    BY <2>1, <2>2
  <2> QED BY <2>1, <2>3 DEF challengeFee
<1> HIDE DEF ch, fee
<1>5. PoolMoved(ChallengePool(id), 0 - fee)
  <2>1. treasury \in Accounts \cup Treasuries
    BY MoneyFacts DEF ArcRunInv
  <2> QED BY <1>1, <1>4, <2>1, ChallengeAt, DebitIfAnyMoney DEF ArcRunInv
<1>6. refunded[id] = {}
  BY <1>1, ChallengeAt
<1>7. /\ in \in SUBSET Accounts /\ IsFiniteSet(in) /\ {} \in SUBSET in
      /\ joined' = [joined EXCEPT ![id] = in]
      /\ refunded' = [refunded EXCEPT ![id] = {}]
      /\ invited' \in [1..MaxChallenges -> SUBSET Accounts]
      /\ payoutClaimed' \in [1..MaxChallenges -> SUBSET Accounts]
      /\ UNCHANGED <<challengeAdmin, agentVars>>
  BY <1>1, <1>6, ChallengeAt
<1> HIDE DEF in
<1> QED BY <1>1, <1>3, <1>4, <1>5, <1>7, ChallengeStepInv

LEMMA ChallengeDeltasStep ==
    ASSUME ArcRunInv, NEW id \in DOMAIN challenges, NEW batch, applyChallengeDeltas(id, batch)
    PROVE  ChallengeStepOK
<1>1. AgentsStep /\ UNCHANGED <<challengeVars, poolBalance, treasury>>
  BY BatchStep DEF applyChallengeDeltas, ArcRunInv
<1>2. Money' /\ CustodyStep
  BY <1>1, MoneyStays, MoneyFacts DEF AgentsStep, ArcRunInv
<1>3. ChallengePart'
  <2>1. \A j \in 1..MaxChallenges : poolBalance'[ChallengePool(j)] = poolBalance[ChallengePool(j)]
    BY <1>1 DEF ChallengePool
  <2> QED BY <1>1, <2>1, ChallengeFrame
<1> QED BY <1>1, <1>2, <1>3 DEF ChallengeStepOK, AgentsStep, ContestPool

(* Transactions that leave the challenges' books and the escrow alone.     *)
LEMMA ChallengeAdminStep ==
    ASSUME ArcRunInv, UNCHANGED <<challengeBooks, escrowVars, agentVars>>,
           defaultPlatformFeeBps' \in 0..MAX_PLATFORM_FEE_BPS, challengesPaused' \in BOOLEAN
    PROVE  ChallengeStepOK
<1> USE DEF ArcRunInv, escrowVars
<1>1. Money' /\ CustodyStep
  BY MoneyStays, MoneyFacts
<1>2. ChallengePart'
  BY DEF ChallengePart, ChallengeTypeOK, StakesAlwaysCovered, ChallengePool, entrantCount, challengeBooks
<1>3. AgentTypeOK' /\ AgentsGrow
  BY SameAgents
<1> QED BY <1>1, <1>2, <1>3 DEF ChallengeStepOK, ContestPool

LEMMA ChallengeNextStep ==
    ASSUME ArcRunInv, ChallengeNext
    PROVE  ChallengeStepOK
<1>1. ASSUME NEW s \in Accounts, NEW t \in ChallengeTerms, createChallenge(s, t) PROVE ChallengeStepOK
  BY <1>1, CreateStep
<1>2. ASSUME NEW id \in DOMAIN challenges, ChallengeStep(id) PROVE ChallengeStepOK
  <2>1. ASSUME NEW s \in Accounts, NEW i \in SUBSET Accounts, invite(s, id, i) PROVE ChallengeStepOK
    BY <2>1, InviteStep
  <2>2. ASSUME NEW s \in Accounts, NEW a \in DOMAIN agents, joinChallenge(s, id, a) PROVE ChallengeStepOK
    BY <2>2, JoinStep
  <2>3. CASE lockChallenge(id)
    BY <2>3, LockCancelStep DEF lockChallenge
  <2>4. ASSUME NEW s \in Accounts, NEW leaf \in challenges[id].winnerRoot, claimChallengePayout(s, id, leaf)
        PROVE  ChallengeStepOK
    BY <2>4, ClaimPayoutStep
  <2>5. ASSUME NEW s \in Accounts, refund(s, id) PROVE ChallengeStepOK
    BY <2>5, RefundStep
  <2>6. ASSUME NEW root \in ChallengeRoots, postWinnerRoot(id, root) PROVE ChallengeStepOK
    BY <2>6, ResolveStep
  <2>7. ASSUME NEW b \in Batches, applyChallengeDeltas(id, b) PROVE ChallengeStepOK
    BY <2>7, ChallengeDeltasStep
  <2>8. ASSUME NEW s \in Accounts, cancelChallenge(s, id) PROVE ChallengeStepOK
    BY <2>8, LockCancelStep DEF cancelChallenge, MayCancel
  <2> QED BY <1>2, <2>1, <2>2, <2>3, <2>4, <2>5, <2>6, <2>7, <2>8 DEF ChallengeStep
<1>3. defaultPlatformFeeBps \in 0..MAX_PLATFORM_FEE_BPS /\ challengesPaused \in BOOLEAN
  BY DEF ArcRunInv, ChallengePart, ChallengeTypeOK
<1>4. ASSUME NEW f \in ChallengeFees, setDefaultPlatformFeeBps(f) PROVE ChallengeStepOK
  <2>1. f \in 0..MAX_PLATFORM_FEE_BPS
    BY <1>4, ChallengeAssumption, ContestAssumption DEF setDefaultPlatformFeeBps
  <2> QED BY <1>3, <1>4, <2>1, ChallengeAdminStep DEF setDefaultPlatformFeeBps
<1>5. ASSUME NEW p \in BOOLEAN, SetChallengesPaused(p) PROVE ChallengeStepOK
  BY <1>3, <1>5, ChallengeAdminStep DEF SetChallengesPaused
<1> QED BY <1>1, <1>2, <1>4, <1>5 DEF ChallengeNext
-----------------------------------------------------------------------------
LEMMA ArcRunInitInv == Init => ArcRunInv /\ Pots!Init
<1> SUFFICES ASSUME Init PROVE ArcRunInv /\ Pots!Init
  OBVIOUS
<1> USE DEF Init
<1>1. contests = << >> /\ challenges = << >> /\ agents = << >>
  BY DEF ContestInit, ChallengeInit, AgentInit
<1>2. /\ Len(contests) = 0 /\ DOMAIN contests = {} /\ contests \in Seq(Contest)
      /\ Len(challenges) = 0 /\ DOMAIN challenges = {} /\ challenges \in Seq(Challenge)
      /\ Len(agents) = 0 /\ DOMAIN agents = {} /\ agents \in Seq(Agent)
  BY <1>1
<1>3. TimeTypeOK
  BY HorizonAssumption DEF TimeInit, TimeTypeOK
<1>4. AgentTypeOK
  BY <1>2, AgentAssumption DEF AgentInit, AgentTypeOK
<1>5. poolBalance \in [Pools -> Nat] /\ \A k \in Pools : poolBalance[k] = 0
  BY DEF EscrowInit
<1>6. Money /\ Pots!Init
  <2>1. usdc \in [Holders -> Nat]
    BY AgentAssumption
  <2>2. usdc[Escrow] = 0
    BY ConstantFacts
  <2> DEFINE n == MaxContests + MaxChallenges
  <2>3. n \in Nat /\ Pools = 1..n
    BY ConstantFacts
  <2> HIDE DEF n
  <2>4. SumTo(poolBalance, n) = 0
    <3>1. poolBalance \in [1..n -> Int] /\ \A i \in 1..n : poolBalance[i] = 0
      BY <1>5, <2>3
    <3> QED BY <2>3, <3>1, SumToZero
  <2>5. poolBalance = [k \in 1..(MaxContests + MaxChallenges) |-> 0]
    BY ConstantFacts DEF EscrowInit
  <2> QED BY <1>5, <2>1, <2>2, <2>4, <2>5 DEF Money, EscrowSolvent, Pots!Init, n
<1>7. ContestPart
  <2>1. ContestTypeOK
    <3>1. Len(contests) <= MaxContests
      BY <1>2, ConstantFacts
    <3>2. listingFeeBps \in 0..MAX_LISTING_FEE_BPS /\ contestPlatformFeeBps \in 0..MAX_PLATFORM_FEE_BPS
      BY ContestAssumption DEF ContestInit
    <3> QED BY <1>2, <3>1, <3>2 DEF ContestInit, ContestTypeOK
  <2>2. \A id \in 1..MaxContests : poolBalance[ContestPool(id)] = 0
    BY <1>5, PoolsApart
  <2> QED BY <1>2, <2>1, <2>2 DEF ContestPart, PrizePoolIntact
<1>8. EntryPart
  BY DEF EntryPart, ContestInit
<1>9. ChallengePart
  <2>1. /\ joined = NobodyYet /\ refunded = NobodyYet
        /\ invited = NobodyYet /\ payoutClaimed = NobodyYet
        /\ NobodyYet \in [1..MaxChallenges -> SUBSET Accounts]
        /\ \A id \in 1..MaxChallenges : NobodyYet[id] = {}
    BY DEF ChallengeInit, NobodyYet
  <2>2. ChallengeTypeOK
    <3>1. Len(challenges) <= MaxChallenges
      BY <1>2, ConstantFacts
    <3>2. defaultPlatformFeeBps \in 0..MAX_PLATFORM_FEE_BPS
      BY ChallengeAssumption, ContestAssumption DEF ChallengeInit
    <3> QED BY <1>2, <2>1, <3>1, <3>2 DEF ChallengeInit, ChallengeTypeOK
  <2>3. \A id \in 1..MaxChallenges : poolBalance[ChallengePool(id)] = 0
    BY <1>5, PoolsApart
  <2>4. IsFiniteSet({})
    BY FS_EmptySet
  <2> QED BY <1>2, <2>1, <2>2, <2>3, <2>4 DEF ChallengePart, StakesAlwaysCovered
<1> QED BY <1>3, <1>4, <1>6, <1>7, <1>8, <1>9 DEF ArcRunInv

LEMMA ArcRunStep == ArcRunInv /\ [Next]_vars => ArcRunInv' /\ CustodyStep
<1> SUFFICES ASSUME ArcRunInv, [Next]_vars PROVE ArcRunInv' /\ CustodyStep
  OBVIOUS
<1>1. CASE ContestNext /\ UNCHANGED <<now, challengeVars>>
  <2>1. ContestStepOK
    BY <1>1, ContestNextStep
  <2>2. ChallengePart'
    BY <1>1, <2>1, ChallengeFrame DEF ContestStepOK
  <2> QED BY <1>1, <2>1, <2>2 DEF ContestStepOK, ArcRunInv, TimeTypeOK
<1>2. CASE ChallengeNext /\ UNCHANGED <<now, contestVars>>
  <2>1. ChallengeStepOK
    BY <1>2, ChallengeNextStep
  <2>2. ContestPart' /\ EntryPart'
    BY <1>2, <2>1, ContestFrame, EntryFrame
       DEF ArcRunInv, ChallengeStepOK, contestVars, contestBooks
  <2> QED BY <1>2, <2>1, <2>2 DEF ChallengeStepOK, ArcRunInv, TimeTypeOK
<1>3. ASSUME AgentTypeOK', AgentsGrow, Money', CustodyStep, TimeTypeOK', poolBalance' = poolBalance,
             UNCHANGED <<contestVars, challengeVars>>
      PROVE  ArcRunInv' /\ CustodyStep
  <2>1. ContestPart' /\ EntryPart'
    BY <1>3, ContestFrame, EntryFrame DEF ArcRunInv, contestVars, contestBooks, ContestPool
  <2>2. ChallengePart'
    BY <1>3, ChallengeFrame DEF ChallengePool
  <2> QED BY <1>3, <2>1, <2>2 DEF ArcRunInv
<1>4. CASE AgentNext /\ UNCHANGED <<now, poolBalance, treasury, contestVars, challengeVars>>
  <2>1. AgentsStep /\ TimeTypeOK'
    BY <1>4, AgentNextStep DEF ArcRunInv, TimeTypeOK
  <2>2. Money' /\ CustodyStep
    BY <1>4, <2>1, MoneyStays, MoneyFacts DEF ArcRunInv, AgentsStep
  <2> QED BY <1>3, <1>4, <2>1, <2>2 DEF AgentsStep
<1>5. CASE /\ \E t \in Treasuries : setTreasury(t)
           /\ UNCHANGED <<now, agentVars, contestVars, challengeVars>>
  <2>1. AgentTypeOK' /\ AgentsGrow /\ TimeTypeOK'
    BY <1>5, SameAgents DEF ArcRunInv, TimeTypeOK
  <2>2. Money' /\ CustodyStep /\ poolBalance' = poolBalance
    BY <1>5, MoneyStays, MoneyFacts DEF ArcRunInv, setTreasury
  <2> QED BY <1>3, <1>5, <2>1, <2>2
<1>6. CASE Pass
  <2>1. TimeTypeOK'
    BY <1>6, HorizonAssumption DEF ArcRunInv, TimeTypeOK, Pass, Tick
  <2>2. AgentTypeOK' /\ AgentsGrow
    BY <1>6, SameAgents DEF ArcRunInv, Pass
  <2>3. Money' /\ CustodyStep /\ poolBalance' = poolBalance
    BY <1>6, MoneyStays, MoneyFacts DEF ArcRunInv, Pass, escrowVars
  <2> QED BY <1>3, <1>6, <2>1, <2>2, <2>3 DEF Pass
<1>7. CASE UNCHANGED vars
  <2>1. TimeTypeOK' /\ AgentTypeOK' /\ AgentsGrow
    BY <1>7, SameAgents DEF ArcRunInv, TimeTypeOK, vars
  <2>2. Money' /\ CustodyStep
    BY <1>7, MoneyStays, MoneyFacts DEF ArcRunInv, vars
  <2> QED BY <1>3, <1>7, <2>1, <2>2 DEF vars
<1> QED BY <1>1, <1>2, <1>4, <1>5, <1>6, <1>7 DEF Next

LEMMA ArcRunInvariant == Spec => []ArcRunInv
<1>1. Init => ArcRunInv
  BY ArcRunInitInv
<1>2. ArcRunInv /\ [Next]_vars => ArcRunInv'
  BY ArcRunStep
<1> QED BY <1>1, <1>2, PTL DEF Spec

(* The types of the four contracts and their token: balances and pools     *)
(* never go below zero, and roots, terms and statuses stay in range.       *)
THEOREM ArcRunTypeCorrect == Spec => []ArcRunTypeOK
<1>1. ArcRunInv => ArcRunTypeOK
  BY DEF ArcRunInv, ArcRunTypeOK, Money, USDCTypeOK, ContestPart, ChallengePart
<1> QED BY <1>1, ArcRunInvariant, PTL

(* ContestEngine: the sponsor's pool is whole until settlement, and gone   *)
(* after a cancellation, whatever challenges and other contests do.        *)
THEOREM PrizePoolsIntact == Spec => []PrizePoolIntact
<1>1. ArcRunInv => PrizePoolIntact
  BY DEF ArcRunInv, ContestPart
<1> QED BY <1>1, ArcRunInvariant, PTL

(* ChallengeArena: until it settles, a challenge's pool holds one stake    *)
(* for each entrant that has not pulled it back.                           *)
THEOREM StakesCovered == Spec => []StakesAlwaysCovered
<1>1. ArcRunInv => StakesAlwaysCovered
  BY DEF ArcRunInv, ChallengePart
<1> QED BY <1>1, ArcRunInvariant, PTL

(* ContestEngine over AgentRegistry: no operator is in a contest with two  *)
(* agents, however many it owns and whatever it creates meanwhile.         *)
THEOREM OneEntryEach == Spec => []OneEntryPerOperator
<1>1. ArcRunInv => OneEntryPerOperator
  <2> SUFFICES ASSUME ArcRunInv PROVE OneEntryPerOperator
    OBVIOUS
  <2>1. \A id \in DOMAIN contests : id \in 1..MaxContests
    BY ContestFacts DEF ArcRunInv, ContestPart
  <2> QED BY <2>1 DEF ArcRunInv, EntryPart, OneEntryPerOperator
<1> QED BY <1>1, ArcRunInvariant, PTL

(* PrizeEscrow under both engines implements the abstract custody          *)
(* contract: every transaction touches at most one pool, and the pot by    *)
(* the same amount.                                                        *)
THEOREM EscrowIsCustody == Spec => EscrowImplementsCustody
<1>1. Init => Pots!Init
  BY ArcRunInitInv
<1>2. ArcRunInv /\ [Next]_vars => CustodyStep
  BY ArcRunStep
<1> QED BY <1>1, <1>2, ArcRunInvariant, PTL DEF Spec, EscrowImplementsCustody, Pots!Spec, CustodyStep
-----------------------------------------------------------------------------
(* Winners.  What a root hands out to some of its operators, and what its  *)
(* leaves weigh.                                                           *)
LeavesOf(root, operators) == {l \in root : l.operator \in operators}

Amounts == [l \in PayoutLeaf |-> l.amount]

(* Until a settled contest's claim window closes, its pool and what it has *)
(* paid out make up the pot less the fee; nobody claims before.            *)
ContestOwes(id) ==
    IF id \in DOMAIN contests
    THEN /\ IsFiniteSet(contests[id].finalRoot)
         /\ contests[id].status # "SETTLED" => prizeClaimed[id] = {}
         /\ (contests[id].status = "SETTLED" /\ now < contests[id].endTime + CLAIM_WINDOW) =>
                contests[id].prizePool - contestFee(id) <=
                    poolBalance[ContestPool(id)]
                        + Total(LeavesOf(contests[id].finalRoot, prizeClaimed[id]))
    ELSE prizeClaimed[id] = {}

(* A settled challenge's, for ever.                                        *)
ChallengeOwes(id) ==
    IF id \in DOMAIN challenges
    THEN /\ IsFiniteSet(challenges[id].winnerRoot)
         /\ challenges[id].status # "SETTLED" => payoutClaimed[id] = {}
         /\ challenges[id].status = "SETTLED" =>
                challenges[id].stake * entrantCount(id) - challengeFee(id) <=
                    poolBalance[ChallengePool(id)]
                        + Total(LeavesOf(challenges[id].winnerRoot, payoutClaimed[id]))
    ELSE payoutClaimed[id] = {}

ContestsOwe == \A id \in 1..MaxContests : ContestOwes(id)
ChallengesOwe == \A id \in 1..MaxChallenges : ChallengeOwes(id)

(* Total folds + over the leaves, as SetSum does.                          *)
LEMMA TotalIsSetSum ==
    ASSUME NEW root \in SUBSET PayoutLeaf, IsFiniteSet(root)
    PROVE  Total(root) = SetSum(Amounts, root)
<1> DEFINE Rhs(f) == [s \in SUBSET root |-> IF s = {} THEN 0
                                            ELSE Chosen(s).amount + f[s \ {Chosen(s)}]]
           f == CHOOSE iter : iter = Rhs(iter)
<1>1. Total(root) = f[root]
  BY DEF Total, MapThenSumSet, MapThenFoldSet, Chosen
<1>2. \A l \in root : Amounts[l] \in Int /\ Amounts[l] = l.amount
  BY DEF Amounts, PayoutLeaf
<1>3. PICK c : IsSetSums(c, Amounts, root)
  BY <1>2, SetSumsExist
<1>4. ASSUME NEW s \in SUBSET root, s # {} PROVE Amounts[Chosen(s)] = Chosen(s).amount
  BY <1>2, <1>4, ChosenIn
<1>5. c = Rhs(c)
  BY <1>3, <1>4 DEF IsSetSums
<1>6. f = Rhs(f)
  <2> HIDE DEF Rhs
  <2> QED BY <1>5
<1> HIDE DEF f
<1>7. IsSetSums(f, Amounts, root)
  <2>1. /\ \A s \in SUBSET root : f[s] = IF s = {} THEN 0 ELSE Chosen(s).amount + f[s \ {Chosen(s)}]
        /\ \A s \in SUBSET root : c[s] = IF s = {} THEN 0 ELSE Chosen(s).amount + c[s \ {Chosen(s)}]
        /\ f = [s \in SUBSET root |-> f[s]] /\ c = [s \in SUBSET root |-> c[s]]
    BY <1>5, <1>6
  <2> HIDE DEF Rhs
  <2> DEFINE Bad == {s \in SUBSET root : f[s] # c[s]}
  <2>2. Bad = {}
    <3> SUFFICES ASSUME Bad # {} PROVE FALSE
      OBVIOUS
    <3>1. PICK m \in Bad : \A s \in Bad : s \subseteq m => s = m
      <4>1. Bad \in SUBSET (SUBSET root)
        OBVIOUS
      <4> HIDE DEF Bad
      <4> QED BY <4>1, MinimalSubset
    <3>2. m # {} /\ Chosen(m) \in m
      BY <2>1, ChosenIn
    <3>3. m \ {Chosen(m)} \in SUBSET root /\ m \ {Chosen(m)} \notin Bad
      BY <3>1, <3>2
    <3>4. f[m \ {Chosen(m)}] = c[m \ {Chosen(m)}]
      BY <3>3
    <3> QED BY <2>1, <3>2, <3>4
  <2>3. f = c
    BY <2>1, <2>2
  <2> QED BY <1>3, <2>3
<1>8. SetSum(Amounts, root) = f[root]
  BY <1>2, <1>7, SetSumIs
<1> QED BY <1>1, <1>8

(* What a claim pays is new, and what is still to be claimed is too.       *)
LEMMA ClaimsAddUp ==
    ASSUME NEW root \in SUBSET PayoutLeaf, IsFiniteSet(root), NEW leaf \in root,
           NEW done, leaf.operator \notin done
    PROVE  /\ leaf.amount \in Nat /\ Total(LeavesOf(root, done)) \in Nat
           /\ Total(LeavesOf(root, done \cup {leaf.operator})) \in Nat
           /\ Total(root) \in Nat
           /\ Total(LeavesOf(root, done)) + leaf.amount
                 <= Total(LeavesOf(root, done \cup {leaf.operator}))
           /\ Total(LeavesOf(root, done)) + leaf.amount <= Total(root)
<1> DEFINE paid == LeavesOf(root, done)
           more == LeavesOf(root, done \cup {leaf.operator})
           next == paid \cup {leaf}
<1>1. /\ \A l \in root : Amounts[l] \in Nat /\ Amounts[l] = l.amount
      /\ \A l \in root : Amounts[l] \in Int
  BY DEF Amounts, PayoutLeaf
<1>2. paid \in SUBSET root /\ more \in SUBSET root /\ next \in SUBSET more /\ leaf \notin paid
  BY DEF LeavesOf
<1> HIDE DEF paid, more
<1>3. IsFiniteSet(paid) /\ IsFiniteSet(more)
  BY <1>2, FS_Subset
<1>4. /\ Total(paid) = SetSum(Amounts, paid) /\ Total(more) = SetSum(Amounts, more)
      /\ Total(root) = SetSum(Amounts, root)
  <2>1. paid \in SUBSET PayoutLeaf /\ more \in SUBSET PayoutLeaf
    BY <1>2
  <2> QED BY <1>3, <2>1, TotalIsSetSum
<1>5. SetSum(Amounts, next) = leaf.amount + SetSum(Amounts, paid)
  <2>1. \A l \in next : Amounts[l] \in Int
    BY <1>1, <1>2
  <2> QED BY <1>1, <1>2, <1>3, <2>1, SetSumAdd
<1>6. SetSum(Amounts, next) <= SetSum(Amounts, more)
  <2>1. \A l \in more : Amounts[l] \in Nat
    BY <1>1, <1>2
  <2> HIDE DEF next
  <2> QED BY <1>2, <1>3, <2>1, SetSumSubset
<1>7. SetSum(Amounts, more) <= SetSum(Amounts, root)
  BY <1>1, <1>2, SetSumSubset
<1>8. /\ SetSum(Amounts, {}) = 0 /\ {} \in SUBSET paid /\ {} \in SUBSET more /\ {} \in SUBSET root
      /\ \A l \in paid : Amounts[l] \in Nat /\ Amounts[l] \in Int
      /\ \A l \in more : Amounts[l] \in Nat /\ Amounts[l] \in Int
  BY <1>1, <1>2, SetSumEmpty
<1>9. /\ SetSum(Amounts, paid) \in Int /\ 0 <= SetSum(Amounts, paid)
      /\ SetSum(Amounts, more) \in Int /\ 0 <= SetSum(Amounts, more)
      /\ SetSum(Amounts, root) \in Int /\ 0 <= SetSum(Amounts, root)
  <2>1. SetSum(Amounts, paid) \in Int /\ 0 <= SetSum(Amounts, paid)
    BY <1>3, <1>8, SetSumType, SetSumSubset
  <2>2. SetSum(Amounts, more) \in Int /\ 0 <= SetSum(Amounts, more)
    BY <1>3, <1>8, SetSumType, SetSumSubset
  <2>3. SetSum(Amounts, root) \in Int /\ 0 <= SetSum(Amounts, root)
    BY <1>1, <1>8, SetSumType, SetSumSubset
  <2> QED BY <2>1, <2>2, <2>3
<1>10. leaf.amount \in Nat
  BY <1>1
<1> HIDE DEF next
<1>11. /\ Total(paid) \in Nat /\ Total(more) \in Nat /\ Total(root) \in Nat
       /\ Total(paid) + leaf.amount <= Total(more)
       /\ Total(paid) + leaf.amount <= Total(root)
  BY <1>4, <1>5, <1>6, <1>7, <1>9, <1>10
<1> QED BY <1>10, <1>11 DEF paid, more

LEMMA NothingClaimed == \A root : Total(LeavesOf(root, {})) = 0
<1> SUFFICES ASSUME NEW root PROVE Total(LeavesOf(root, {})) = 0
  OBVIOUS
<1>1. LeavesOf(root, {}) = {}
  BY DEF LeavesOf
<1>2. Total({}) = SetSum(Amounts, {})
  BY TotalIsSetSum, FS_EmptySet
<1> QED BY <1>1, <1>2, SetSumEmpty
-----------------------------------------------------------------------------
(* A contest, its claims and its pool as they were, at the same time or    *)
(* later.                                                                  *)
LEMMA ContestOwesFrame ==
    ASSUME ArcRunInv, NEW id \in 1..MaxContests, ContestOwes(id),
           id \in DOMAIN contests' <=> id \in DOMAIN contests,
           id \in DOMAIN contests => contests'[id] = contests[id],
           prizeClaimed'[id] = prizeClaimed[id],
           poolBalance'[ContestPool(id)] = poolBalance[ContestPool(id)],
           now' \in Nat, now <= now'
    PROVE  ContestOwes(id)'
<1>1. CASE id \in DOMAIN contests
  <2>1. contests[id].endTime \in Nat /\ CLAIM_WINDOW \in Nat /\ now \in Nat
    BY <1>1, ContestAt, ContestAssumption, HorizonAssumption DEF Contest, ArcRunInv, TimeTypeOK
  <2>2. now' < contests[id].endTime + CLAIM_WINDOW => now < contests[id].endTime + CLAIM_WINDOW
    BY <2>1
  <2>3. contests'[id] = contests[id] /\ id \in DOMAIN contests'
    BY <1>1
  <2> QED BY <1>1, <2>2, <2>3 DEF ContestOwes, contestFee, ContestPool
<1>2. CASE id \notin DOMAIN contests
  BY <1>2 DEF ContestOwes
<1> QED BY <1>1, <1>2

(* A transaction that leaves contest id as c, its claims as done and its   *)
(* pool at b.                                                              *)
LEMMA ContestOwesStep ==
    ASSUME ArcRunInv, ContestsOwe, NEW id \in DOMAIN contests, NEW c \in Contest, NEW done, NEW b,
           contests' = [contests EXCEPT ![id] = c],
           prizeClaimed' = [prizeClaimed EXCEPT ![id] = done],
           poolBalance' = [poolBalance EXCEPT ![ContestPool(id)] = b],
           now' = now,
           IsFiniteSet(c.finalRoot),
           c.status # "SETTLED" => done = {},
           (c.status = "SETTLED" /\ now < c.endTime + CLAIM_WINDOW) =>
               c.prizePool - (c.prizePool * c.platformFeeBps) \div BPS_DENOMINATOR
                   <= b + Total(LeavesOf(c.finalRoot, done))
    PROVE  ContestsOwe'
<1>1. /\ id \in 1..MaxContests /\ ContestPool(id) \in Pools
      /\ poolBalance \in [Pools -> Nat] /\ prizeClaimed \in [1..MaxContests -> SUBSET Accounts]
      /\ now \in Nat
  BY ContestAt, HorizonAssumption DEF ArcRunInv, Money, TimeTypeOK
<1>2. /\ DOMAIN contests' = DOMAIN contests /\ contests'[id] = c
      /\ \A i \in DOMAIN contests \ {id} : contests'[i] = contests[i]
      /\ prizeClaimed'[id] = done /\ poolBalance'[ContestPool(id)] = b
      /\ \A i \in 1..MaxContests \ {id} : prizeClaimed'[i] = prizeClaimed[i]
      /\ \A k \in Pools \ {ContestPool(id)} : poolBalance'[k] = poolBalance[k]
  BY <1>1
<1> SUFFICES ASSUME NEW i \in 1..MaxContests PROVE ContestOwes(i)'
  BY DEF ContestsOwe
<1>3. CASE i = id
  BY <1>2, <1>3 DEF ContestOwes, contestFee, ContestPool
<1>4. CASE i # id
  <2>1. poolBalance'[ContestPool(i)] = poolBalance[ContestPool(i)]
    <3>1. ContestPool(i) \in Pools /\ ContestPool(i) # ContestPool(id)
      BY <1>1, <1>4, PoolsApart
    <3> QED BY <1>2, <3>1
  <2>2. /\ i \in DOMAIN contests' <=> i \in DOMAIN contests
        /\ i \in DOMAIN contests => contests'[i] = contests[i]
        /\ prizeClaimed'[i] = prizeClaimed[i]
    BY <1>2, <1>4
  <2>3. now' \in Nat /\ now <= now'
    BY <1>1
  <2> QED BY <2>1, <2>2, <2>3, ContestOwesFrame DEF ContestsOwe
<1> QED BY <1>3, <1>4

LEMMA ListOwes ==
    ASSUME ArcRunInv, ContestsOwe, NEW s \in Accounts, NEW terms \in ContestTerms,
           listContest(s, terms), now' = now
    PROVE  ContestsOwe'
<1> DEFINE id == Len(contests) + 1
           c == [status |-> "OPEN", platformFeeBps |-> contestPlatformFeeBps, sponsor |-> s,
                 family |-> terms.family, endTime |-> now + terms.duration,
                 prizePool |-> terms.prizePool, finalRoot |-> {},
                 minTier |-> terms.minTier, maxTier |-> terms.maxTier]
<1>1. /\ contests' = Append(contests, c) /\ prizeClaimed' = prizeClaimed
      /\ poolBalance' = [poolBalance EXCEPT ![ContestPool(id)] = @ + terms.prizePool]
      /\ Len(contests) < MaxContests
  BY DEF listContest, deposit
<1>2. c.status = "OPEN" /\ c.finalRoot = {}
  OBVIOUS
<1> HIDE DEF c
<1>3. /\ contests \in Seq(Contest) /\ Len(contests) \in Nat /\ DOMAIN contests = 1..Len(contests)
      /\ poolBalance \in [Pools -> Nat] /\ now \in Nat
  BY ContestFacts, HorizonAssumption DEF ArcRunInv, ContestPart, Money, TimeTypeOK
<1>4. /\ DOMAIN contests' = 1..id /\ contests'[id] = c
      /\ \A i \in 1..Len(contests) : contests'[i] = contests[i]
  BY <1>1, <1>3
<1>5. id \in 1..MaxContests /\ id \notin DOMAIN contests
  BY <1>1, <1>3, ConstantFacts
<1> SUFFICES ASSUME NEW i \in 1..MaxContests PROVE ContestOwes(i)'
  BY DEF ContestsOwe
<1>6. CASE i = id
  <2>1. prizeClaimed'[i] = {}
    BY <1>1, <1>5, <1>6 DEF ContestsOwe, ContestOwes
  <2>2. contests'[i].status = "OPEN" /\ IsFiniteSet(contests'[i].finalRoot)
    BY <1>2, <1>4, <1>6, FS_EmptySet
  <2> QED BY <2>1, <2>2 DEF ContestOwes
<1>7. CASE i # id
  <2>1. poolBalance'[ContestPool(i)] = poolBalance[ContestPool(i)]
    <3>1. ContestPool(i) \in Pools /\ ContestPool(i) # ContestPool(id)
      BY <1>5, <1>7, PoolsApart
    <3> QED BY <1>1, <1>3, <3>1
  <2>2. /\ i \in DOMAIN contests' <=> i \in DOMAIN contests
        /\ i \in DOMAIN contests => contests'[i] = contests[i]
    BY <1>3, <1>4, <1>7
  <2> QED BY <1>1, <1>3, <2>1, <2>2, ContestOwesFrame DEF ContestsOwe
<1> QED BY <1>6, <1>7

LEMMA ClaimPrizeOwes ==
    ASSUME ArcRunInv, ContestsOwe, NEW s \in Accounts, NEW id \in DOMAIN contests,
           NEW leaf \in contests[id].finalRoot, claimPrize(s, id, leaf), now' = now
    PROVE  ContestsOwe'
<1> DEFINE c == contests[id]
           done == prizeClaimed[id]
           b == poolBalance[ContestPool(id)]
<1>1. /\ c.status = "SETTLED" /\ s \notin done /\ leaf.operator = s
      /\ contests' = contests
      /\ prizeClaimed' = [prizeClaimed EXCEPT ![id] = done \cup {s}]
      /\ poolBalance' = [poolBalance EXCEPT ![ContestPool(id)] = b - leaf.amount]
  BY DEF claimPrize, payout, debit
<1>2. /\ c \in Contest /\ contests' = [contests EXCEPT ![id] = c] /\ b \in Nat
      /\ id \in 1..MaxContests
  BY <1>1, ContestAt
<1>3. /\ IsFiniteSet(c.finalRoot)
      /\ now < c.endTime + CLAIM_WINDOW =>
            c.prizePool - contestFee(id) <= b + Total(LeavesOf(c.finalRoot, done))
  BY <1>1, <1>2 DEF ContestsOwe, ContestOwes
<1>4. /\ leaf.amount \in Nat
      /\ Total(LeavesOf(c.finalRoot, done)) \in Nat
      /\ Total(LeavesOf(c.finalRoot, done \cup {s})) \in Nat
      /\ Total(LeavesOf(c.finalRoot, done)) + leaf.amount
            <= Total(LeavesOf(c.finalRoot, done \cup {s}))
  <2>1. c.finalRoot \in SUBSET PayoutLeaf
    BY <1>2 DEF Contest
  <2> QED BY <1>1, <1>3, <2>1, ClaimsAddUp
<1>5. c.prizePool \in Nat /\ contestFee(id) \in Nat
  BY <1>2, ContestFeeType DEF Contest
<1>6. now < c.endTime + CLAIM_WINDOW =>
         c.prizePool - contestFee(id)
             <= (b - leaf.amount) + Total(LeavesOf(c.finalRoot, done \cup {s}))
  BY <1>2, <1>3, <1>4, <1>5
<1>7. contestFee(id) = (c.prizePool * c.platformFeeBps) \div BPS_DENOMINATOR
  BY DEF contestFee
<1> HIDE DEF c, done, b
<1> QED BY <1>1, <1>2, <1>3, <1>6, <1>7, ContestOwesStep

(* A transaction before which nothing was claimed, or after which the      *)
(* contest is not in its claim window.                                     *)
LEMMA StatusOwes ==
    ASSUME ArcRunInv, ContestsOwe, NEW id \in DOMAIN contests, NEW c \in Contest, NEW b,
           contests' = [contests EXCEPT ![id] = c], prizeClaimed' = prizeClaimed,
           poolBalance' = [poolBalance EXCEPT ![ContestPool(id)] = b],
           now' = now,
           contests[id].status # "SETTLED", IsFiniteSet(c.finalRoot),
           c.status = "SETTLED" =>
               c.prizePool - (c.prizePool * c.platformFeeBps) \div BPS_DENOMINATOR = b,
           b \in Int
    PROVE  ContestsOwe'
<1>1. id \in 1..MaxContests /\ prizeClaimed[id] = {}
  BY ContestAt DEF ContestsOwe, ContestOwes
<1>2. prizeClaimed' = [prizeClaimed EXCEPT ![id] = {}]
  BY <1>1, ContestAt
<1>3. Total(LeavesOf(c.finalRoot, {})) = 0
  BY NothingClaimed
<1>4. c.status = "SETTLED" =>
         c.prizePool - (c.prizePool * c.platformFeeBps) \div BPS_DENOMINATOR
             <= b + Total(LeavesOf(c.finalRoot, {}))
  BY <1>3
<1> QED BY <1>2, <1>4, ContestOwesStep

LEMMA PostRootOwes ==
    ASSUME ArcRunInv, ContestsOwe, NEW id \in DOMAIN contests, NEW root \in ContestRoots,
           postScoreRoot(id, root), now' = now
    PROVE  ContestsOwe'
<1> DEFINE c == [contests[id] EXCEPT !.finalRoot = root, !.status = "SCORING"]
           b == poolBalance[ContestPool(id)]
<1>1. /\ contests[id].status = "OPEN"
      /\ contests' = [contests EXCEPT ![id] = c]
      /\ prizeClaimed' = prizeClaimed /\ poolBalance' = poolBalance
  BY Zenon DEF postScoreRoot, escrowVars
<1>2. root \in SUBSET PayoutLeaf /\ IsFiniteSet(root)
  BY ContestAssumption
<1>3. c \in Contest /\ c.status = "SCORING" /\ c.finalRoot = root
  BY <1>2, ContestAt DEF Contest, ContestStatus
<1>4. b \in Int /\ poolBalance' = [poolBalance EXCEPT ![ContestPool(id)] = b]
  BY <1>1, ContestAt DEF ArcRunInv, Money
<1> HIDE DEF c, b
<1> QED BY <1>1, <1>2, <1>3, <1>4, StatusOwes

(* What a transfer out of pool k leaves in it.                             *)
LEMMA DebitedIfAny ==
    ASSUME Money, NEW k \in Pools, NEW to, NEW amount \in Nat, debitIfAny(k, to, amount)
    PROVE  /\ poolBalance' = [poolBalance EXCEPT ![k] = poolBalance[k] - amount]
           /\ poolBalance[k] - amount \in Int
<1>1. poolBalance \in [Pools -> Nat] /\ poolBalance[k] \in Nat
  BY DEF Money
<1>2. CASE amount = 0
  BY <1>1, <1>2 DEF debitIfAny
<1>3. CASE amount # 0
  BY <1>1, <1>3 DEF debitIfAny, debit
<1> QED BY <1>2, <1>3

LEMMA SettleOwes ==
    ASSUME ArcRunInv, ContestsOwe, NEW id \in DOMAIN contests, settle(id), now' = now
    PROVE  ContestsOwe'
<1> DEFINE c == [contests[id] EXCEPT !.status = "SETTLED"]
           b == poolBalance[ContestPool(id)] - contestFee(id)
<1>1. /\ contests[id].status = "SCORING"
      /\ contests' = [contests EXCEPT ![id] = c]
      /\ debitIfAny(ContestPool(id), treasury, contestFee(id))
      /\ prizeClaimed' = prizeClaimed
  BY Zenon DEF settle, skimPlatformFee
<1>2. /\ c \in Contest /\ c.status = "SETTLED" /\ c.finalRoot = contests[id].finalRoot
      /\ c.prizePool = contests[id].prizePool /\ c.platformFeeBps = contests[id].platformFeeBps
  BY ContestAt DEF Contest, ContestStatus
<1> HIDE DEF c
<1>3. contestFee(id) \in Nat /\ ContestPool(id) \in Pools /\ id \in 1..MaxContests
  BY ContestFeeType, ContestAt
<1>4. poolBalance' = [poolBalance EXCEPT ![ContestPool(id)] = b] /\ b \in Int
  BY <1>1, <1>3, DebitedIfAny DEF ArcRunInv
<1>5. c.prizePool - (c.prizePool * c.platformFeeBps) \div BPS_DENOMINATOR = b
  BY <1>1, <1>2, ContestAt DEF contestFee
<1>6. IsFiniteSet(c.finalRoot)
  BY <1>2, <1>3 DEF ContestsOwe, ContestOwes
<1> HIDE DEF b
<1> QED BY <1>1, <1>2, <1>4, <1>5, <1>6, StatusOwes

LEMMA CancelContestOwes ==
    ASSUME ArcRunInv, ContestsOwe, NEW id \in DOMAIN contests, cancelContest(id), now' = now
    PROVE  ContestsOwe'
<1> DEFINE c == [contests[id] EXCEPT !.status = "CANCELLED"]
           k == ContestPool(id)
           b == poolBalance[k] - poolBalance[k]
<1>1. /\ contests[id].status # "SETTLED"
      /\ contests' = [contests EXCEPT ![id] = c]
      /\ debitIfAny(k, contests[id].sponsor, poolBalance[k])
      /\ prizeClaimed' = prizeClaimed
  BY Zenon DEF cancelContest
<1>2. c \in Contest /\ c.status = "CANCELLED" /\ c.finalRoot = contests[id].finalRoot
  BY ContestAt DEF Contest, ContestStatus
<1> HIDE DEF c
<1>3. poolBalance' = [poolBalance EXCEPT ![ContestPool(id)] = b] /\ b \in Int
  BY <1>1, ContestAt, DebitedIfAny DEF ArcRunInv
<1>4. IsFiniteSet(c.finalRoot)
  BY <1>2, ContestAt DEF ContestsOwe, ContestOwes
<1> HIDE DEF b
<1> QED BY <1>1, <1>2, <1>3, <1>4, StatusOwes

LEMMA SweepOwes ==
    ASSUME ArcRunInv, ContestsOwe, NEW id \in DOMAIN contests, sweepUnclaimed(id), now' = now
    PROVE  ContestsOwe'
<1> DEFINE c == contests[id]
           k == ContestPool(id)
           b == poolBalance[k] - poolBalance[k]
<1>1. /\ c.status = "SETTLED" /\ now >= c.endTime + CLAIM_WINDOW
      /\ poolBalance' = [poolBalance EXCEPT ![k] = b]
      /\ contests' = contests /\ prizeClaimed' = prizeClaimed
  BY DEF sweepUnclaimed, sweepPool, debit, contestVars, contestBooks
<1>2. /\ contests' = [contests EXCEPT ![id] = c] /\ c \in Contest
      /\ prizeClaimed' = [prizeClaimed EXCEPT ![id] = prizeClaimed[id]]
      /\ IsFiniteSet(c.finalRoot)
  BY <1>1, ContestAt DEF ContestsOwe, ContestOwes
<1>3. ~ (now < c.endTime + CLAIM_WINDOW)
  BY <1>1, <1>2, ContestAssumption, HorizonAssumption DEF Contest, ArcRunInv, TimeTypeOK
<1> HIDE DEF c, b
<1> QED BY <1>1, <1>2, <1>3, ContestOwesStep

(* What leaves the contests' books and the pools of all of them alone.     *)
LEMMA ContestsUntouched ==
    ASSUME ArcRunInv, ContestsOwe, UNCHANGED <<contests, prizeClaimed>>,
           \A id \in 1..MaxContests : poolBalance'[ContestPool(id)] = poolBalance[ContestPool(id)],
           now' \in Nat, now <= now'
    PROVE  ContestsOwe'
<1> SUFFICES ASSUME NEW id \in 1..MaxContests PROVE ContestOwes(id)'
  BY DEF ContestsOwe
<1> QED BY ContestOwesFrame DEF ContestsOwe

LEMMA ContestNextOwes ==
    ASSUME ArcRunInv, ContestsOwe, ContestNext, now' = now
    PROVE  ContestsOwe'
<1>1. ASSUME NEW s \in Accounts, NEW t \in ContestTerms, listContest(s, t) PROVE ContestsOwe'
  BY <1>1, ListOwes
<1>2. ASSUME UNCHANGED <<contests, prizeClaimed, poolBalance>> PROVE ContestsOwe'
  <2>1. now' \in Nat /\ now <= now'
    BY HorizonAssumption DEF ArcRunInv, TimeTypeOK
  <2> QED BY <1>2, <2>1, ContestsUntouched DEF ContestPool
<1>3. ASSUME NEW id \in DOMAIN contests, ContestStep(id) PROVE ContestsOwe'
  <2>1. ASSUME NEW s \in Accounts, NEW a \in DOMAIN agents, registerEntry(s, id, a) PROVE ContestsOwe'
    BY <1>2, <2>1 DEF registerEntry, escrowVars
  <2>2. ASSUME NEW s \in Accounts, NEW leaf \in contests[id].finalRoot, claimPrize(s, id, leaf)
        PROVE  ContestsOwe'
    BY <2>2, ClaimPrizeOwes
  <2>3. ASSUME NEW root \in ContestRoots, postScoreRoot(id, root) PROVE ContestsOwe'
    BY <2>3, PostRootOwes
  <2>4. CASE settle(id)
    BY <2>4, SettleOwes
  <2>5. ASSUME NEW b \in Batches, applyContestDeltas(id, b) PROVE ContestsOwe'
    BY <1>2, <2>5 DEF applyContestDeltas, contestVars, contestBooks
  <2>6. CASE cancelContest(id)
    BY <2>6, CancelContestOwes
  <2>7. CASE sweepUnclaimed(id)
    BY <2>7, SweepOwes
  <2> QED BY <1>3, <2>1, <2>2, <2>3, <2>4, <2>5, <2>6, <2>7 DEF ContestStep
<1>4. ASSUME NEW f \in ContestFees, setListingFeeBps(f) PROVE ContestsOwe'
  BY <1>2, <1>4 DEF setListingFeeBps, contestBooks, escrowVars
<1>5. ASSUME NEW f \in ContestFees, setContestPlatformFeeBps(f) PROVE ContestsOwe'
  BY <1>2, <1>5 DEF setContestPlatformFeeBps, contestBooks, escrowVars
<1>6. ASSUME NEW p \in BOOLEAN, SetContestsPaused(p) PROVE ContestsOwe'
  BY <1>2, <1>6 DEF SetContestsPaused, contestBooks, escrowVars
<1> QED BY <1>1, <1>3, <1>4, <1>5, <1>6 DEF ContestNext
-----------------------------------------------------------------------------
(* The same for challenges, whose winners have no deadline.                *)
LEMMA ChallengeDue ==
    ASSUME NEW ch \in Challenge, NEW S, IsFiniteSet(S)
    PROVE  /\ ch.stake * Cardinality(S) \in Nat
           /\ (ch.stake * Cardinality(S) * ch.platformFeeBps) \div BPS_DENOMINATOR \in Nat
<1>1. /\ ch.stake \in Nat /\ ch.platformFeeBps \in Nat /\ BPS_DENOMINATOR \in Nat \ {0}
      /\ Cardinality(S) \in Nat
  BY ContestAssumption, FS_CardinalityType DEF Challenge
<1>2. ch.stake * Cardinality(S) \in Nat
  BY <1>1
<1>3. ch.stake * Cardinality(S) * ch.platformFeeBps \in Nat
  BY <1>1, <1>2
<1> QED BY <1>1, <1>2, <1>3

LEMMA ChallengeOwesFrame ==
    ASSUME NEW id \in 1..MaxChallenges, ChallengeOwes(id),
           id \in DOMAIN challenges' <=> id \in DOMAIN challenges,
           id \in DOMAIN challenges => challenges'[id] = challenges[id],
           payoutClaimed'[id] = payoutClaimed[id], joined'[id] = joined[id],
           poolBalance'[ChallengePool(id)] = poolBalance[ChallengePool(id)]
    PROVE  ChallengeOwes(id)'
  BY DEF ChallengeOwes, challengeFee, entrantCount, ChallengePool

(* A transaction that leaves challenge id as ch, its claims as done and    *)
(* its pool at b, and the entrants of every other one alone.               *)
LEMMA ChallengeOwesStep ==
    ASSUME ArcRunInv, ChallengesOwe, NEW id \in DOMAIN challenges, NEW ch, NEW done, NEW b,
           challenges' = [challenges EXCEPT ![id] = ch],
           payoutClaimed' = [payoutClaimed EXCEPT ![id] = done],
           poolBalance' = [poolBalance EXCEPT ![ChallengePool(id)] = b],
           \A i \in 1..MaxChallenges \ {id} : joined'[i] = joined[i],
           IsFiniteSet(ch.winnerRoot),
           ch.status # "SETTLED" => done = {},
           ch.status = "SETTLED" =>
               ch.stake * Cardinality(joined'[id])
                   - (ch.stake * Cardinality(joined'[id]) * ch.platformFeeBps) \div BPS_DENOMINATOR
                   <= b + Total(LeavesOf(ch.winnerRoot, done))
    PROVE  ChallengesOwe'
<1>1. /\ id \in 1..MaxChallenges /\ ChallengePool(id) \in Pools
      /\ poolBalance \in [Pools -> Nat]
      /\ payoutClaimed \in [1..MaxChallenges -> SUBSET Accounts]
  BY ChallengeAt DEF ArcRunInv, Money
<1>2. /\ DOMAIN challenges' = DOMAIN challenges /\ challenges'[id] = ch
      /\ \A i \in DOMAIN challenges \ {id} : challenges'[i] = challenges[i]
      /\ payoutClaimed'[id] = done /\ poolBalance'[ChallengePool(id)] = b
      /\ \A i \in 1..MaxChallenges \ {id} : payoutClaimed'[i] = payoutClaimed[i]
      /\ \A k \in Pools \ {ChallengePool(id)} : poolBalance'[k] = poolBalance[k]
  BY <1>1
<1> SUFFICES ASSUME NEW i \in 1..MaxChallenges PROVE ChallengeOwes(i)'
  BY DEF ChallengesOwe
<1>3. CASE i = id
  BY <1>2, <1>3 DEF ChallengeOwes, challengeFee, entrantCount, ChallengePool
<1>4. CASE i # id
  <2>1. poolBalance'[ChallengePool(i)] = poolBalance[ChallengePool(i)]
    <3>1. ChallengePool(i) \in Pools /\ ChallengePool(i) # ChallengePool(id)
      BY <1>1, <1>4, PoolsApart, ConstantFacts
    <3> QED BY <1>2, <3>1
  <2>2. /\ i \in DOMAIN challenges' <=> i \in DOMAIN challenges
        /\ i \in DOMAIN challenges => challenges'[i] = challenges[i]
        /\ payoutClaimed'[i] = payoutClaimed[i] /\ joined'[i] = joined[i]
    BY <1>2, <1>4
  <2> QED BY <2>1, <2>2, ChallengeOwesFrame DEF ChallengesOwe
<1> QED BY <1>3, <1>4

(* A challenge that is not settled by the transaction either.              *)
LEMMA UnsettledOwes ==
    ASSUME ArcRunInv, ChallengesOwe, NEW id \in DOMAIN challenges, NEW ch, NEW b,
           challenges' = [challenges EXCEPT ![id] = ch], payoutClaimed' = payoutClaimed,
           poolBalance' = [poolBalance EXCEPT ![ChallengePool(id)] = b],
           \A i \in 1..MaxChallenges \ {id} : joined'[i] = joined[i],
           ch.winnerRoot = challenges[id].winnerRoot,
           challenges[id].status # "SETTLED", ch.status # "SETTLED"
    PROVE  ChallengesOwe'
<1>1. id \in 1..MaxChallenges /\ payoutClaimed \in [1..MaxChallenges -> SUBSET Accounts]
  BY ChallengeAt
<1>2. payoutClaimed[id] = {} /\ IsFiniteSet(ch.winnerRoot)
  BY <1>1 DEF ChallengesOwe, ChallengeOwes
<1>3. payoutClaimed' = [payoutClaimed EXCEPT ![id] = {}]
  BY <1>1, <1>2
<1> QED BY <1>2, <1>3, ChallengeOwesStep

LEMMA ChallengesUntouched ==
    ASSUME ChallengesOwe, UNCHANGED <<challenges, payoutClaimed, joined>>,
           \A id \in 1..MaxChallenges : poolBalance'[ChallengePool(id)] = poolBalance[ChallengePool(id)]
    PROVE  ChallengesOwe'
<1> SUFFICES ASSUME NEW id \in 1..MaxChallenges PROVE ChallengeOwes(id)'
  BY DEF ChallengesOwe
<1> QED BY ChallengeOwesFrame DEF ChallengesOwe

LEMMA CreateOwes ==
    ASSUME ArcRunInv, ChallengesOwe, NEW s \in Accounts, NEW terms \in ChallengeTerms,
           createChallenge(s, terms)
    PROVE  ChallengesOwe'
<1> DEFINE id == Len(challenges) + 1
           ch == [creator |-> s, kind |-> terms.kind, status |-> "OPEN",
                  isPrivate |-> terms.isPrivate, platformFeeBps |-> defaultPlatformFeeBps,
                  stake |-> terms.stake, maxEntrants |-> terms.maxEntrants,
                  joinDeadline |-> terms.joinDeadline, resolveDeadline |-> terms.resolveDeadline,
                  winnerRoot |-> {}, minTier |-> terms.minTier, maxTier |-> terms.maxTier]
<1>1. /\ challenges' = Append(challenges, ch)
      /\ UNCHANGED <<joined, payoutClaimed, poolBalance>>
  BY DEF createChallenge, escrowVars
<1>2. ch.status = "OPEN" /\ ch.winnerRoot = {}
  OBVIOUS
<1> HIDE DEF ch
<1>3. /\ challenges \in Seq(Challenge) /\ Len(challenges) \in Nat
      /\ DOMAIN challenges = 1..Len(challenges)
  BY ChallengeAt
<1>4. /\ DOMAIN challenges' = 1..id /\ challenges'[id] = ch
      /\ \A i \in 1..Len(challenges) : challenges'[i] = challenges[i]
  BY <1>1, <1>3
<1> SUFFICES ASSUME NEW i \in 1..MaxChallenges PROVE ChallengeOwes(i)'
  BY DEF ChallengesOwe
<1>5. CASE i = id
  <2>1. payoutClaimed'[i] = {}
    BY <1>1, <1>3, <1>5 DEF ChallengesOwe, ChallengeOwes
  <2>2. challenges'[i].status = "OPEN" /\ IsFiniteSet(challenges'[i].winnerRoot)
    BY <1>2, <1>4, <1>5, FS_EmptySet
  <2> QED BY <2>1, <2>2 DEF ChallengeOwes
<1>6. CASE i # id
  <2>1. /\ i \in DOMAIN challenges' <=> i \in DOMAIN challenges
        /\ i \in DOMAIN challenges => challenges'[i] = challenges[i]
    BY <1>3, <1>4, <1>6
  <2>2. poolBalance'[ChallengePool(i)] = poolBalance[ChallengePool(i)]
    BY <1>1 DEF ChallengePool
  <2> QED BY <1>1, <2>1, <2>2, ChallengeOwesFrame DEF ChallengesOwe
<1> QED BY <1>5, <1>6

LEMMA ClaimPayoutOwes ==
    ASSUME ArcRunInv, ChallengesOwe, NEW s \in Accounts, NEW id \in DOMAIN challenges,
           NEW leaf \in challenges[id].winnerRoot, claimChallengePayout(s, id, leaf)
    PROVE  ChallengesOwe'
<1> DEFINE ch == challenges[id]
           done == payoutClaimed[id]
           b == poolBalance[ChallengePool(id)]
           n == Cardinality(joined[id])
           due == ch.stake * n - (ch.stake * n * ch.platformFeeBps) \div BPS_DENOMINATOR
<1>1. /\ ch.status = "SETTLED" /\ s \notin done /\ leaf.operator = s
      /\ challenges' = challenges /\ joined' = joined
      /\ payoutClaimed' = [payoutClaimed EXCEPT ![id] = done \cup {s}]
      /\ poolBalance' = [poolBalance EXCEPT ![ChallengePool(id)] = b - leaf.amount]
  BY DEF claimChallengePayout, payout, debit
<1>2. /\ ch \in Challenge /\ challenges' = [challenges EXCEPT ![id] = ch] /\ b \in Nat
      /\ id \in 1..MaxChallenges
  BY <1>1, ChallengeAt
<1>3. IsFiniteSet(ch.winnerRoot) /\ due <= b + Total(LeavesOf(ch.winnerRoot, done))
  BY <1>1, <1>2 DEF ChallengesOwe, ChallengeOwes, challengeFee, entrantCount
<1>4. /\ leaf.amount \in Nat
      /\ Total(LeavesOf(ch.winnerRoot, done)) \in Nat
      /\ Total(LeavesOf(ch.winnerRoot, done \cup {s})) \in Nat
      /\ Total(LeavesOf(ch.winnerRoot, done)) + leaf.amount
            <= Total(LeavesOf(ch.winnerRoot, done \cup {s}))
  <2>1. ch.winnerRoot \in SUBSET PayoutLeaf
    BY <1>2 DEF Challenge
  <2> QED BY <1>1, <1>3, <2>1, ClaimsAddUp
<1>5. due \in Int
  BY <1>2, ChallengeAt, ChallengeDue
<1>6. Cardinality(joined'[id]) = n
  BY <1>1
<1> DEFINE rest == Total(LeavesOf(ch.winnerRoot, done \cup {s}))
<1>7. due <= (b - leaf.amount) + rest
  <2> HIDE DEF due, ch, done, b
  <2> QED BY <1>2, <1>3, <1>4, <1>5
<1>8. ch.stake * Cardinality(joined'[id])
          - (ch.stake * Cardinality(joined'[id]) * ch.platformFeeBps) \div BPS_DENOMINATOR
          <= (b - leaf.amount) + rest
  BY <1>6, <1>7
<1> HIDE DEF ch, done, b, n, due
<1> QED BY <1>1, <1>2, <1>3, <1>8, ChallengeOwesStep

LEMMA JoinOwes ==
    ASSUME ArcRunInv, ChallengesOwe, NEW s \in Accounts, NEW id \in DOMAIN challenges,
           NEW a \in DOMAIN agents, joinChallenge(s, id, a)
    PROVE  ChallengesOwe'
<1> DEFINE ch == challenges[id]
           b == poolBalance[ChallengePool(id)] + ch.stake
<1>1. /\ ch.status = "OPEN" /\ challenges' = challenges /\ payoutClaimed' = payoutClaimed
      /\ joined' = [joined EXCEPT ![id] = @ \cup {s}]
      /\ poolBalance' = [poolBalance EXCEPT ![ChallengePool(id)] = b]
  BY DEF joinChallenge, MayJoin, deposit
<1>2. challenges' = [challenges EXCEPT ![id] = ch]
  BY <1>1, ChallengeAt
<1>3. \A i \in 1..MaxChallenges \ {id} : joined'[i] = joined[i]
  BY <1>1, ChallengeAt
<1> HIDE DEF b
<1> QED BY <1>1, <1>2, <1>3, UnsettledOwes

LEMMA RefundOwes ==
    ASSUME ArcRunInv, ChallengesOwe, NEW s \in Accounts, NEW id \in DOMAIN challenges, refund(s, id)
    PROVE  ChallengesOwe'
<1> DEFINE ch == challenges[id]
           b == poolBalance[ChallengePool(id)] - ch.stake
<1>1. /\ ch.status = "CANCELLED" /\ UNCHANGED <<challenges, payoutClaimed, joined>>
      /\ poolBalance' = [poolBalance EXCEPT ![ChallengePool(id)] = b]
  BY DEF refund, payout, debit
<1>2. challenges' = [challenges EXCEPT ![id] = ch]
  BY <1>1, ChallengeAt
<1> HIDE DEF b
<1> QED BY <1>1, <1>2, UnsettledOwes

LEMMA LockCancelOwes ==
    ASSUME ArcRunInv, ChallengesOwe, NEW id \in DOMAIN challenges,
           NEW status \in {"LOCKED", "CANCELLED"}, SetStatus(id, status),
           challenges[id].status # "SETTLED", UNCHANGED <<payoutClaimed, joined, poolBalance>>
    PROVE  ChallengesOwe'
<1> DEFINE ch == [challenges[id] EXCEPT !.status = status]
           b == poolBalance[ChallengePool(id)]
<1>1. challenges' = [challenges EXCEPT ![id] = ch]
  BY Zenon DEF SetStatus
<1>2. ch.status # "SETTLED" /\ ch.winnerRoot = challenges[id].winnerRoot
  BY ChallengeAt DEF Challenge
<1>3. poolBalance' = [poolBalance EXCEPT ![ChallengePool(id)] = b]
  BY DEF ArcRunInv, Money
<1> HIDE DEF ch, b
<1> QED BY <1>1, <1>2, <1>3, UnsettledOwes

LEMMA ResolveOwes ==
    ASSUME ArcRunInv, ChallengesOwe, NEW id \in DOMAIN challenges, NEW root \in ChallengeRoots,
           postWinnerRoot(id, root)
    PROVE  ChallengesOwe'
<1> DEFINE n == Cardinality(joined[id])
           old == challenges[id]
           ch == [old EXCEPT !.winnerRoot = root, !.status = "SETTLED"]
           fee == challengeFee(id)
           b == poolBalance[ChallengePool(id)] - fee
<1>1. /\ old.status = "LOCKED"
      /\ challenges' = [challenges EXCEPT ![id] = ch]
      /\ debitIfAny(ChallengePool(id), treasury, fee)
      /\ UNCHANGED <<joined, payoutClaimed>>
  BY Zenon DEF postWinnerRoot, skimPlatformFee
<1>2. old \in Challenge /\ id \in 1..MaxChallenges /\ ChallengePool(id) \in Pools
  BY ChallengeAt
<1>3. /\ ch.winnerRoot = root /\ ch.status = "SETTLED" /\ ch.stake = old.stake
      /\ ch.platformFeeBps = old.platformFeeBps
  BY <1>2 DEF Challenge
<1>4. fee = (old.stake * n * old.platformFeeBps) \div BPS_DENOMINATOR
  BY DEF challengeFee, entrantCount
<1>5. fee \in Nat /\ old.stake * n \in Nat
  BY <1>2, <1>4, ChallengeAt, ChallengeDue
<1>6. poolBalance[ChallengePool(id)] = old.stake * n
  <2>1. /\ refunded[id] = {} /\ IsFiniteSet(joined[id])
        /\ poolBalance[ChallengePool(id)] = old.stake * (n - Cardinality(refunded[id]))
    BY <1>1, ChallengeAt DEF StakesOf
  <2>2. Cardinality(refunded[id]) = 0 /\ n \in Nat
    BY <2>1, FS_EmptySet, FS_CardinalityType
  <2>3. n - 0 = n
    BY <2>2
  <2> QED BY <2>1, <2>2, <2>3
<1>7. payoutClaimed[id] = {} /\ payoutClaimed' = [payoutClaimed EXCEPT ![id] = {}]
  <2>1. payoutClaimed[id] = {}
    BY <1>1, <1>2 DEF ChallengesOwe, ChallengeOwes
  <2> QED BY <1>1, <1>2, <2>1, ChallengeAt
<1>8. Total(LeavesOf(root, {})) = 0
  BY NothingClaimed
<1>9. poolBalance' = [poolBalance EXCEPT ![ChallengePool(id)] = b] /\ b \in Int
  <2> HIDE DEF fee
  <2> QED BY <1>1, <1>2, <1>5, DebitedIfAny DEF ArcRunInv
<1>10. IsFiniteSet(root)
  BY ChallengeAssumption
<1>11. Cardinality(joined'[id]) = n
  BY <1>1
<1>12. ch.stake * n - (ch.stake * n * ch.platformFeeBps) \div BPS_DENOMINATOR
           <= b + Total(LeavesOf(ch.winnerRoot, {}))
  <2> HIDE DEF fee, ch, n
  <2>1. b = old.stake * n - fee
    BY <1>6
  <2> QED BY <1>3, <1>4, <1>5, <1>8, <1>9, <2>1
<1> HIDE DEF ch, b, n, fee
<1> QED BY <1>1, <1>3, <1>7, <1>9, <1>10, <1>11, <1>12, ChallengeOwesStep

LEMMA ChallengeNextOwes ==
    ASSUME ArcRunInv, ChallengesOwe, ChallengeNext
    PROVE  ChallengesOwe'
<1>1. ASSUME NEW s \in Accounts, NEW t \in ChallengeTerms, createChallenge(s, t) PROVE ChallengesOwe'
  BY <1>1, CreateOwes
<1>2. ASSUME UNCHANGED <<challenges, payoutClaimed, joined, poolBalance>> PROVE ChallengesOwe'
  BY <1>2, ChallengesUntouched DEF ChallengePool
<1>3. ASSUME NEW id \in DOMAIN challenges, ChallengeStep(id) PROVE ChallengesOwe'
  <2>1. ASSUME NEW s \in Accounts, NEW i \in SUBSET Accounts, invite(s, id, i) PROVE ChallengesOwe'
    BY <1>2, <2>1 DEF invite, escrowVars
  <2>2. ASSUME NEW s \in Accounts, NEW a \in DOMAIN agents, joinChallenge(s, id, a) PROVE ChallengesOwe'
    BY <2>2, JoinOwes
  <2>3. CASE lockChallenge(id)
    BY <2>3, LockCancelOwes DEF lockChallenge, escrowVars
  <2>4. ASSUME NEW s \in Accounts, NEW leaf \in challenges[id].winnerRoot,
               claimChallengePayout(s, id, leaf)
        PROVE  ChallengesOwe'
    BY <2>4, ClaimPayoutOwes
  <2>5. ASSUME NEW s \in Accounts, refund(s, id) PROVE ChallengesOwe'
    BY <2>5, RefundOwes
  <2>6. ASSUME NEW root \in ChallengeRoots, postWinnerRoot(id, root) PROVE ChallengesOwe'
    BY <2>6, ResolveOwes
  <2>7. ASSUME NEW b \in Batches, applyChallengeDeltas(id, b) PROVE ChallengesOwe'
    BY <1>2, <2>7 DEF applyChallengeDeltas, challengeVars, challengeBooks
  <2>8. ASSUME NEW s \in Accounts, cancelChallenge(s, id) PROVE ChallengesOwe'
    <3>1. challenges[id].status # "SETTLED"
      BY <2>8 DEF cancelChallenge, MayCancel
    <3> QED BY <2>8, <3>1, LockCancelOwes DEF cancelChallenge, escrowVars
  <2> QED BY <1>3, <2>1, <2>2, <2>3, <2>4, <2>5, <2>6, <2>7, <2>8 DEF ChallengeStep
<1>4. ASSUME NEW f \in ChallengeFees, setDefaultPlatformFeeBps(f) PROVE ChallengesOwe'
  BY <1>2, <1>4 DEF setDefaultPlatformFeeBps, challengeBooks, escrowVars
<1>5. ASSUME NEW p \in BOOLEAN, SetChallengesPaused(p) PROVE ChallengesOwe'
  BY <1>2, <1>5 DEF SetChallengesPaused, challengeBooks, escrowVars
<1> QED BY <1>1, <1>3, <1>4, <1>5 DEF ChallengeNext
-----------------------------------------------------------------------------
(* All transactions.                                                       *)
WinnersInv == ArcRunInv /\ ContestsOwe /\ ChallengesOwe

LEMMA WinnersInit == Init => WinnersInv
<1> SUFFICES ASSUME Init PROVE WinnersInv
  OBVIOUS
<1>1. ArcRunInv
  BY ArcRunInitInv
<1>2. DOMAIN contests = {} /\ DOMAIN challenges = {}
  BY DEF Init, ContestInit, ChallengeInit
<1>3. ContestsOwe
  BY <1>2 DEF ContestsOwe, ContestOwes, Init, ContestInit
<1>4. ChallengesOwe
  BY <1>2 DEF ChallengesOwe, ChallengeOwes, Init, ChallengeInit, NobodyYet
<1> QED BY <1>1, <1>3, <1>4 DEF WinnersInv

LEMMA WinnersStep == WinnersInv /\ [Next]_vars => WinnersInv'
<1> SUFFICES ASSUME WinnersInv, [Next]_vars PROVE WinnersInv'
  OBVIOUS
<1> USE DEF WinnersInv
<1>1. ArcRunInv'
  BY ArcRunStep
<1>2. now \in Nat
  BY HorizonAssumption DEF ArcRunInv, TimeTypeOK
<1>3. CASE ContestNext /\ UNCHANGED <<now, challengeVars>>
  <2>1. ContestsOwe'
    BY <1>3, ContestNextOwes
  <2>2. ChallengesOwe'
    BY <1>3, ContestNextStep, ChallengesUntouched DEF ContestStepOK, challengeVars, challengeBooks
  <2> QED BY <1>1, <2>1, <2>2
<1>4. CASE ChallengeNext /\ UNCHANGED <<now, contestVars>>
  <2>1. ChallengesOwe'
    BY <1>4, ChallengeNextOwes
  <2>2. ContestsOwe'
    BY <1>2, <1>4, ChallengeNextStep, ContestsUntouched DEF ChallengeStepOK, contestVars, contestBooks
  <2> QED BY <1>1, <2>1, <2>2
<1>5. ASSUME UNCHANGED <<poolBalance, contestVars, challengeVars>>, now' \in Nat, now <= now'
      PROVE  WinnersInv'
  <2>1. ContestsOwe'
    BY <1>5, ContestsUntouched DEF ContestPool, contestVars, contestBooks
  <2>2. ChallengesOwe'
    BY <1>5, ChallengesUntouched DEF ChallengePool, challengeVars, challengeBooks
  <2> QED BY <1>1, <2>1, <2>2
<1>6. CASE AgentNext /\ UNCHANGED <<now, poolBalance, treasury, contestVars, challengeVars>>
  BY <1>2, <1>5, <1>6
<1>7. CASE /\ \E t \in Treasuries : setTreasury(t)
           /\ UNCHANGED <<now, agentVars, contestVars, challengeVars>>
  BY <1>2, <1>5, <1>7 DEF setTreasury
<1>8. CASE Pass
  BY <1>2, <1>5, <1>8 DEF Pass, Tick, escrowVars
<1>9. CASE UNCHANGED vars
  BY <1>2, <1>5, <1>9 DEF vars
<1> QED BY <1>3, <1>4, <1>6, <1>7, <1>8, <1>9 DEF Next

(* ContestEngine and ChallengeArena: under a root that hands out no more   *)
(* than the pot less the fee, the claims of some winners, in any order,    *)
(* never leave another one short: in a contest until its window closes and *)
(* the rest may be swept, in a challenge for ever.                         *)
THEOREM HonestWinnersPaid == Spec => []HonestWinnersCovered
<1>1. WinnersInv => HonestWinnersCovered
  <2> SUFFICES ASSUME WinnersInv PROVE HonestWinnersCovered
    OBVIOUS
  <2> USE DEF WinnersInv
  <2>1. ASSUME NEW id \in DOMAIN contests, contests[id].status = "SETTLED",
               now < contests[id].endTime + CLAIM_WINDOW,
               Honest(contests[id].finalRoot, contests[id].prizePool - contestFee(id)),
               NEW leaf \in contests[id].finalRoot, leaf.operator \notin prizeClaimed[id]
        PROVE  leaf.amount <= poolBalance[ContestPool(id)]
    <3> DEFINE root == contests[id].finalRoot
               paid == Total(LeavesOf(root, prizeClaimed[id]))
               due == contests[id].prizePool - contestFee(id)
    <3>1. id \in 1..MaxContests /\ contests[id] \in Contest /\ poolBalance[ContestPool(id)] \in Nat
      BY ContestAt
    <3>2. IsFiniteSet(root) /\ due <= poolBalance[ContestPool(id)] + paid
      BY <2>1, <3>1 DEF ContestsOwe, ContestOwes
    <3>3. root \in SUBSET PayoutLeaf /\ contests[id].prizePool \in Nat
      BY <3>1 DEF Contest
    <3>4. /\ leaf.amount \in Nat /\ paid \in Nat /\ Total(root) \in Nat
          /\ paid + leaf.amount <= Total(root)
      BY <2>1, <3>2, <3>3, ClaimsAddUp
    <3>5. Total(root) <= due
      BY <2>1 DEF Honest
    <3>6. due \in Int
      BY <3>3, ContestFeeType
    <3> HIDE DEF due, paid, root
    <3> QED BY <3>1, <3>2, <3>4, <3>5, <3>6
  <2>2. ASSUME NEW id \in DOMAIN challenges, challenges[id].status = "SETTLED",
               Honest(challenges[id].winnerRoot,
                      challenges[id].stake * entrantCount(id) - challengeFee(id)),
               NEW leaf \in challenges[id].winnerRoot, leaf.operator \notin payoutClaimed[id]
        PROVE  leaf.amount <= poolBalance[ChallengePool(id)]
    <3> DEFINE root == challenges[id].winnerRoot
               paid == Total(LeavesOf(root, payoutClaimed[id]))
               due == challenges[id].stake * entrantCount(id) - challengeFee(id)
    <3>1. /\ id \in 1..MaxChallenges /\ challenges[id] \in Challenge
          /\ poolBalance[ChallengePool(id)] \in Nat /\ IsFiniteSet(joined[id])
      BY ChallengeAt
    <3>2. IsFiniteSet(root) /\ due <= poolBalance[ChallengePool(id)] + paid
      BY <2>2, <3>1 DEF ChallengesOwe, ChallengeOwes
    <3>3. root \in SUBSET PayoutLeaf
      BY <3>1 DEF Challenge
    <3>4. /\ leaf.amount \in Nat /\ paid \in Nat /\ Total(root) \in Nat
          /\ paid + leaf.amount <= Total(root)
      BY <2>2, <3>2, <3>3, ClaimsAddUp
    <3>5. Total(root) <= due
      BY <2>2 DEF Honest
    <3>6. due \in Int
      BY <3>1, ChallengeDue DEF challengeFee, entrantCount
    <3> HIDE DEF due, paid, root
    <3> QED BY <3>1, <3>2, <3>4, <3>5, <3>6
  <2> QED BY <2>1, <2>2 DEF HonestWinnersCovered
<1>2. Spec => []WinnersInv
  BY WinnersInit, WinnersStep, PTL DEF Spec
<1> QED BY <1>1, <1>2, PTL
-----------------------------------------------------------------------------
(* Standing.  What n days leave of a reputation, as a fact about the       *)
(* function that _decayedReputation recurses with.                         *)
Left(r) == (r * DECAY_NUMERATOR) \div DECAY_DENOMINATOR

IsDecay(g, raw, n) ==
    /\ g \in [0..n -> Nat]
    /\ \A i \in 0..n : g[i] = IF i = 0 THEN raw ELSE Left(g[i - 1])

Decayed(raw, n) ==
    LET after[i \in 0..n] ==
            IF i = 0 THEN raw ELSE (after[i - 1] * DECAY_NUMERATOR) \div DECAY_DENOMINATOR
    IN  after[n]

(* A day never adds to a reputation.                                       *)
LEMMA DayTakes == \A r \in Nat : Left(r) \in Nat /\ Left(r) <= r
<1> SUFFICES ASSUME NEW r \in Nat PROVE Left(r) \in Nat /\ Left(r) <= r
  OBVIOUS
<1>1. /\ DECAY_NUMERATOR \in Nat /\ DECAY_DENOMINATOR \in Nat \ {0}
      /\ DECAY_NUMERATOR <= DECAY_DENOMINATOR
  BY AgentAssumption
<1> DEFINE m == r * DECAY_NUMERATOR
           q == m \div DECAY_DENOMINATOR
<1>2. m \in Nat
  BY <1>1
<1>3. m <= r * DECAY_DENOMINATOR
  BY <1>1
<1> HIDE DEF m
<1>4. q \in Nat /\ DECAY_DENOMINATOR * q <= m
  BY <1>1, <1>2
<1>5. q <= r
  <2> HIDE DEF q
  <2>1. CASE q > r
    <3>1. DECAY_DENOMINATOR * q >= DECAY_DENOMINATOR * (r + 1)
      BY <1>1, <1>4, <2>1
    <3>2. DECAY_DENOMINATOR * (r + 1) = r * DECAY_DENOMINATOR + DECAY_DENOMINATOR
      BY <1>1
    <3>3. r * DECAY_DENOMINATOR \in Nat /\ DECAY_DENOMINATOR * q \in Nat
      BY <1>1, <1>4
    <3> QED BY <1>1, <1>2, <1>3, <1>4, <3>1, <3>2, <3>3
  <2> QED BY <1>4, <2>1
<1> QED BY <1>4, <1>5 DEF Left, m

LEMMA DecayExists ==
    ASSUME NEW raw \in Nat, NEW n \in Nat
    PROVE  \E g : IsDecay(g, raw, n)
<1> DEFINE T == {i \in 0..n : \E g : IsDecay(g, raw, i)}
<1>1. 0 \in T
  <2>1. IsDecay([i \in 0..0 |-> raw], raw, 0)
    BY DEF IsDecay
  <2> QED BY <2>1
<1>2. ASSUME NEW i \in 0..n, i # n, i \in T PROVE i + 1 \in T
  <2>1. PICK g : IsDecay(g, raw, i)
    BY <1>2
  <2> DEFINE h == [j \in 0..(i + 1) |-> IF j = i + 1 THEN Left(g[i]) ELSE g[j]]
  <2>2. g[i] \in Nat /\ Left(g[i]) \in Nat
    BY <2>1, DayTakes DEF IsDecay
  <2>3. h \in [0..(i + 1) -> Nat]
    BY <2>1, <2>2 DEF IsDecay
  <2>4. \A j \in 0..(i + 1) : h[j] = IF j = 0 THEN raw ELSE Left(h[j - 1])
    <3> SUFFICES ASSUME NEW j \in 0..(i + 1) PROVE h[j] = IF j = 0 THEN raw ELSE Left(h[j - 1])
      OBVIOUS
    <3>1. CASE j = i + 1
      BY <3>1
    <3>2. CASE j # i + 1
      <4>1. j \in 0..i /\ h[j] = g[j] /\ (j # 0 => j - 1 \in 0..i /\ h[j - 1] = g[j - 1])
        BY <3>2
      <4> QED BY <2>1, <4>1 DEF IsDecay
    <3> QED BY <3>1, <3>2
  <2>5. IsDecay(h, raw, i + 1)
    BY <2>3, <2>4 DEF IsDecay
  <2>6. i + 1 \in 0..n
    BY <1>2
  <2> HIDE DEF h
  <2> QED BY <2>5, <2>6
<1> HIDE DEF T
<1>3. n \in T
  <2>1. \A i \in 0..n : i \in T
    BY <1>1, <1>2, InductionUpTo
  <2> QED BY <2>1
<1> QED BY <1>3 DEF T

LEMMA DecayAgrees ==
    ASSUME NEW raw \in Nat, NEW n \in Nat, NEW m \in Nat, n <= m,
           NEW g, NEW h, IsDecay(h, raw, m),
           \A i \in 0..n : g[i] = IF i = 0 THEN raw ELSE Left(g[i - 1])
    PROVE  \A i \in 0..n : g[i] = h[i]
<1> DEFINE T == {i \in 0..n : g[i] = h[i]}
<1>1. 0 \in T
  BY DEF IsDecay
<1>2. ASSUME NEW i \in 0..n, i # n, i \in T PROVE i + 1 \in T
  <2>1. /\ i + 1 \in 0..n /\ i + 1 \in 0..m /\ i + 1 # 0 /\ (i + 1) - 1 = i /\ g[i] = h[i]
    BY <1>2
  <2>2. g[i + 1] = Left(g[i]) /\ h[i + 1] = Left(h[i])
    BY <2>1 DEF IsDecay
  <2> QED BY <2>1, <2>2
<1> HIDE DEF T
<1>3. \A i \in 0..n : i \in T
  BY <1>1, <1>2, InductionUpTo
<1> QED BY <1>3 DEF T

(* What is left after more days is no more than after fewer.               *)
LEMMA DecayFalls ==
    ASSUME NEW raw \in Nat, NEW m \in Nat, NEW h, IsDecay(h, raw, m), NEW n \in 0..m
    PROVE  h[m] <= h[n]
<1> DEFINE k == m - n
           T == {i \in 0..k : h[n + i] <= h[n]}
<1>0. k \in Nat /\ \A i \in 0..m : h[i] \in Nat
  BY DEF IsDecay
<1>1. 0 \in T
  BY <1>0
<1>2. ASSUME NEW i \in 0..k, i # k, i \in T PROVE i + 1 \in T
  <2>1. /\ n + i \in 0..m /\ n + (i + 1) \in 0..m /\ n + (i + 1) # 0
        /\ (n + (i + 1)) - 1 = n + i /\ i + 1 \in 0..k /\ h[n + i] <= h[n]
    BY <1>2
  <2>2. h[n + (i + 1)] = Left(h[n + i])
    BY <2>1 DEF IsDecay
  <2>3. h[n + (i + 1)] <= h[n + i]
    BY <1>0, <2>1, <2>2, DayTakes
  <2>4. h[n + (i + 1)] <= h[n]
    BY <1>0, <2>1, <2>3
  <2> QED BY <2>1, <2>4
<1>3. \A i \in 0..k : i \in T
  <2> HIDE DEF T, k
  <2> QED BY <1>0, <1>1, <1>2, InductionUpTo
<1>4. k \in 0..k /\ n + k = m
  BY <1>0
<1>5. h[n + k] <= h[n]
  BY <1>3, <1>4
<1> QED BY <1>4, <1>5

LEMMA DecayedIs ==
    ASSUME NEW raw \in Nat, NEW n \in Nat, NEW m \in Nat, n <= m, NEW h, IsDecay(h, raw, m)
    PROVE  Decayed(raw, n) = h[n]
<1> DEFINE Rhs(f) == [i \in 0..n |-> IF i = 0 THEN raw ELSE Left(f[i - 1])]
           f == CHOOSE after : after = Rhs(after)
<1>1. Decayed(raw, n) = f[n]
  BY DEF Decayed, Left
<1>2. PICK g : IsDecay(g, raw, n)
  BY DecayExists
<1>3. g = Rhs(g)
  BY <1>2 DEF IsDecay
<1>4. f = Rhs(f)
  <2> HIDE DEF Rhs
  <2> QED BY <1>3
<1> HIDE DEF f
<1>5. \A i \in 0..n : f[i] = IF i = 0 THEN raw ELSE Left(f[i - 1])
  BY <1>4
<1>6. \A i \in 0..n : f[i] = h[i]
  BY <1>5, DecayAgrees
<1>7. n \in 0..n
  OBVIOUS
<1> QED BY <1>1, <1>6, <1>7

(* The three facts the actions need: no day leaves a reputation as it is,  *)
(* more days leave no more of it, and it stays a reputation.               *)
LEMMA DecayedFacts ==
    ASSUME NEW raw \in Nat, NEW n \in Nat, NEW m \in Nat, n <= m
    PROVE  /\ Decayed(raw, 0) = raw
           /\ Decayed(raw, m) \in Nat /\ Decayed(raw, n) \in Nat
           /\ Decayed(raw, m) <= Decayed(raw, n)
           /\ Decayed(raw, n) <= raw
<1>1. PICK h : IsDecay(h, raw, m)
  BY DecayExists
<1>2. /\ Decayed(raw, m) = h[m] /\ Decayed(raw, n) = h[n] /\ Decayed(raw, 0) = h[0]
  <2>1. 0 <= m /\ m <= m /\ 0 \in Nat
    OBVIOUS
  <2> QED BY <1>1, <2>1, DecayedIs
<1>3. h[m] \in Nat /\ h[n] \in Nat /\ h[0] = raw
  BY <1>1 DEF IsDecay
<1>4. h[m] <= h[n]
  <2>1. n \in 0..m
    OBVIOUS
  <2> QED BY <1>1, <2>1, DecayFalls
<1>5. h[n] <= h[0]
  <2>1. PICK g : IsDecay(g, raw, n)
    BY DecayExists
  <2>2. g[n] <= g[0] /\ g[0] = raw
    <3>1. 0 \in 0..n
      OBVIOUS
    <3> QED BY <2>1, <3>1, DecayFalls DEF IsDecay
  <2>3. Decayed(raw, n) = g[n]
    <3>1. n <= n
      OBVIOUS
    <3> QED BY <2>1, <3>1, DecayedIs
  <2> QED BY <1>2, <1>3, <2>2, <2>3
<1> QED BY <1>2, <1>3, <1>4, <1>5

(* No agent's reputation was written in the future.                        *)
NotWrittenAhead == \A id \in DOMAIN agents : agents[id].lastActivityAt <= now

StandingInv == ArcRunInv /\ NotWrittenAhead

(* The action that StandingIsEarned is about.                              *)
EarnedStep ==
    \A id \in DOMAIN agents :
        getEffectiveReputation(id)' > getEffectiveReputation(id) =>
            \E b \in Batches :
                /\ ApplyBatch(b) /\ id \in DOMAIN b
                /\ getEffectiveReputation(id)' <= getEffectiveReputation(id) + b[id]

Days(d) == IF d \div DAY > MAX_DECAY_DAYS THEN MAX_DECAY_DAYS ELSE d \div DAY

LEMMA DaysGrow ==
    ASSUME NEW d \in Nat, NEW e \in Nat, d <= e
    PROVE  Days(d) \in Nat /\ Days(e) \in Nat /\ Days(d) <= Days(e) /\ Days(0) = 0
<1>1. DAY \in Nat \ {0} /\ MAX_DECAY_DAYS \in Nat
  BY AgentAssumption
<1> DEFINE q == d \div DAY
           r == e \div DAY
<1>2. /\ q \in Nat /\ DAY * q <= d /\ d < DAY * q + DAY
      /\ r \in Nat /\ DAY * r <= e /\ e < DAY * r + DAY
  BY <1>1
<1>3. 0 \div DAY = 0
  BY <1>1
<1>4. q <= r
  <2> HIDE DEF q, r
  <2>1. CASE q > r
    <3>1. DAY * q >= DAY * (r + 1)
      BY <1>1, <1>2, <2>1
    <3>2. DAY * (r + 1) = DAY * r + DAY /\ DAY * r \in Nat /\ DAY * q \in Nat
      BY <1>1, <1>2
    <3> QED BY <1>1, <1>2, <3>1, <3>2
  <2> QED BY <1>2, <2>1
<1>5. Days(d) = (IF q > MAX_DECAY_DAYS THEN MAX_DECAY_DAYS ELSE q)
      /\ Days(e) = (IF r > MAX_DECAY_DAYS THEN MAX_DECAY_DAYS ELSE r)
  BY DEF Days
<1>6. Days(0) = 0
  BY <1>1, <1>3 DEF Days
<1> HIDE DEF q, r
<1> QED BY <1>1, <1>2, <1>4, <1>5, <1>6

(* What every step starts from.                                            *)
LEMMA StandingAt ==
    ASSUME StandingInv, NEW id \in DOMAIN agents
    PROVE  /\ agents[id] \in Agent /\ agents[id].reputation \in Nat
           /\ agents[id].lastActivityAt \in Nat /\ now \in Nat
           /\ now - agents[id].lastActivityAt \in Nat
           /\ getEffectiveReputation(id) =
                  Decayed(agents[id].reputation, Days(now - agents[id].lastActivityAt))
           /\ getEffectiveReputation(id) \in Nat
<1>1. /\ agents[id] \in Agent /\ now \in Nat /\ agents[id].lastActivityAt <= now
  BY AgentFacts, HorizonAssumption DEF StandingInv, ArcRunInv, TimeTypeOK, NotWrittenAhead
<1>2. agents[id].reputation \in Nat /\ agents[id].lastActivityAt \in Nat
  BY <1>1, AgentAssumption DEF Agent
<1>3. now - agents[id].lastActivityAt \in Nat
  BY <1>1, <1>2
<1>4. getEffectiveReputation(id) =
          Decayed(agents[id].reputation, Days(now - agents[id].lastActivityAt))
  BY DEF getEffectiveReputation, _decayedReputation, Decayed, DaysSince, Days
<1>5. Decayed(agents[id].reputation, Days(now - agents[id].lastActivityAt)) \in Nat
  <2> DEFINE n == Days(now - agents[id].lastActivityAt)
  <2>1. n \in Nat /\ n <= n
    BY <1>3, DaysGrow
  <2> HIDE DEF n
  <2>2. Decayed(agents[id].reputation, n) \in Nat
    BY <1>2, <2>1, DecayedFacts
  <2> QED BY <2>2 DEF n
<1> QED BY <1>1, <1>2, <1>3, <1>4, <1>5

(* A step that writes no reputation, at the same time or later.            *)
LEMMA TimeOnlyTakes ==
    ASSUME StandingInv, NEW id \in DOMAIN agents, id \in DOMAIN agents',
           agents'[id].reputation = agents[id].reputation,
           agents'[id].lastActivityAt = agents[id].lastActivityAt,
           now' \in Nat, now <= now'
    PROVE  getEffectiveReputation(id)' <= getEffectiveReputation(id)
<1> DEFINE r == agents[id].reputation
           t == agents[id].lastActivityAt
<1>1. getEffectiveReputation(id)' = Decayed(r, Days(now' - t))
  BY DEF getEffectiveReputation, _decayedReputation, Decayed, DaysSince, Days
<1>2. /\ r \in Nat /\ t \in Nat /\ now \in Nat /\ now - t \in Nat
      /\ getEffectiveReputation(id) = Decayed(r, Days(now - t))
  BY StandingAt
<1> HIDE DEF r, t
<1>3. now' - t \in Nat /\ now - t <= now' - t
  BY <1>2
<1>4. /\ Days(now - t) \in Nat /\ Days(now' - t) \in Nat
      /\ Days(now - t) <= Days(now' - t)
  BY <1>2, <1>3, DaysGrow
<1>5. Decayed(r, Days(now' - t)) <= Decayed(r, Days(now - t))
  BY <1>2, <1>4, DecayedFacts
<1> QED BY <1>1, <1>2, <1>5

LEMMA ResultAdds ==
    ASSUME StandingInv, NEW batch \in Batches, ApplyBatch(batch), now' = now
    PROVE  EarnedStep
<1> SUFFICES ASSUME NEW id \in DOMAIN agents,
                    getEffectiveReputation(id)' > getEffectiveReputation(id)
             PROVE  /\ id \in DOMAIN batch
                    /\ getEffectiveReputation(id)' <= getEffectiveReputation(id) + batch[id]
  BY DEF EarnedStep
<1> DEFINE e == getEffectiveReputation(id)
           r == Clamp(e + batch[id])
<1>0. now \in Nat /\ now' \in Nat /\ now <= now' /\ e \in Nat
  BY StandingAt
<1>1. /\ DOMAIN agents' = DOMAIN agents
      /\ agents'[id] = IF id \in DOMAIN batch THEN applyReputationChange(id, batch[id]) ELSE agents[id]
  BY DEF ApplyBatch
<1>2. id \in DOMAIN batch
  <2> SUFFICES ASSUME id \notin DOMAIN batch PROVE FALSE
    OBVIOUS
  <2>1. agents'[id] = agents[id] /\ id \in DOMAIN agents'
    BY <1>1
  <2>2. getEffectiveReputation(id)' <= e
    BY <1>0, <2>1, TimeOnlyTakes
  <2>3. agents'[id].reputation \in Nat /\ getEffectiveReputation(id)' \in Nat
    <3>1. getEffectiveReputation(id)' = getEffectiveReputation(id)
      BY <1>1, <2>1 DEF getEffectiveReputation, _decayedReputation, DaysSince
    <3> QED BY <1>0, <2>1, <3>1, StandingAt
  <2> QED BY <1>0, <2>2, <2>3
<1>3. batch[id] \in Int /\ MAX_REPUTATION \in Nat
  BY <1>2, AgentAssumption
<1>4. agents'[id].reputation = r /\ agents'[id].lastActivityAt = now /\ id \in DOMAIN agents'
  BY <1>1, <1>2, StandingAt DEF applyReputationChange, Agent
<1>5. r \in Nat /\ (r <= e + batch[id] \/ r <= e)
  <2> HIDE DEF e
  <2> QED BY <1>0, <1>3 DEF Clamp
<1>6. getEffectiveReputation(id)' = Decayed(r, Days(now - now))
  <2> HIDE DEF r
  <2>1. getEffectiveReputation(id)' = Decayed(agents'[id].reputation, Days(now' - agents'[id].lastActivityAt))
    BY <1>4 DEF getEffectiveReputation, _decayedReputation, Decayed, DaysSince, Days
  <2> QED BY <1>4, <2>1
<1>7. Days(now - now) = 0
  <2>1. now - now = 0 /\ 0 <= 0 /\ 0 \in Nat
    BY <1>0
  <2> QED BY <2>1, DaysGrow
<1>8. Decayed(r, 0) = r
  <2> HIDE DEF r
  <2>1. 0 <= 0 /\ 0 \in Nat
    OBVIOUS
  <2> QED BY <1>5, <2>1, DecayedFacts
<1> HIDE DEF r, e
<1>9. getEffectiveReputation(id)' = r /\ r > e
  BY <1>6, <1>7, <1>8 DEF e
<1>10. r <= e + batch[id]
  BY <1>0, <1>5, <1>9
<1> QED BY <1>2, <1>9, <1>10 DEF e

(* The reputations that no result writes, and when they were written.      *)
StandingKept ==
    \A id \in DOMAIN agents :
        /\ id \in DOMAIN agents'
        /\ agents'[id].reputation = agents[id].reputation
        /\ agents'[id].lastActivityAt = agents[id].lastActivityAt

LEMMA KeptIsEarned ==
    ASSUME StandingInv, StandingKept, now' \in Nat, now <= now',
           \A id \in DOMAIN agents' \ DOMAIN agents : agents'[id].lastActivityAt <= now'
    PROVE  EarnedStep /\ NotWrittenAhead'
<1>1. ASSUME NEW id \in DOMAIN agents
      PROVE  ~ (getEffectiveReputation(id)' > getEffectiveReputation(id))
  <2> DEFINE r == agents[id].reputation
             t == agents[id].lastActivityAt
  <2>1. getEffectiveReputation(id)' <= getEffectiveReputation(id)
    BY <1>1, TimeOnlyTakes DEF StandingKept
  <2>2. getEffectiveReputation(id)' \in Nat
    <3>1. getEffectiveReputation(id)' = Decayed(r, Days(now' - t))
      BY DEF StandingKept, getEffectiveReputation, _decayedReputation, Decayed, DaysSince, Days
    <3>2. r \in Nat /\ t \in Nat /\ now \in Nat /\ now - t \in Nat
      BY StandingAt
    <3> HIDE DEF r, t
    <3> DEFINE n == Days(now' - t)
    <3>3. n \in Nat /\ n <= n
      <4>1. now' - t \in Nat
        BY <3>2
      <4> QED BY <4>1, DaysGrow
    <3> HIDE DEF n
    <3>4. Decayed(r, n) \in Nat
      BY <3>2, <3>3, DecayedFacts
    <3> QED BY <3>1, <3>4 DEF n
  <2>3. getEffectiveReputation(id) \in Nat
    BY StandingAt
  <2> QED BY <2>1, <2>2, <2>3
<1>2. ASSUME NEW id \in DOMAIN agents' PROVE agents'[id].lastActivityAt <= now'
  <2>1. CASE id \in DOMAIN agents
    <3>1. agents'[id].lastActivityAt = agents[id].lastActivityAt
      BY <2>1 DEF StandingKept
    <3>2. agents[id].lastActivityAt <= now /\ agents[id].lastActivityAt \in Nat /\ now \in Nat
      BY <2>1, StandingAt DEF StandingInv, NotWrittenAhead
    <3> QED BY <3>1, <3>2
  <2> QED BY <1>2, <2>1
<1> QED BY <1>1, <1>2 DEF EarnedStep, NotWrittenAhead

LEMMA SameAgentsEarned ==
    ASSUME StandingInv, agents' = agents, now' \in Nat, now <= now'
    PROVE  EarnedStep /\ NotWrittenAhead'
<1>1. StandingKept
  BY DEF StandingKept
<1> QED BY <1>1, KeptIsEarned

LEMMA BatchEarned ==
    ASSUME StandingInv, NEW batch \in Batches, ApplyBatch(batch), now' = now
    PROVE  EarnedStep /\ NotWrittenAhead'
<1>1. ASSUME NEW id \in DOMAIN agents' PROVE agents'[id].lastActivityAt <= now'
  <2>1. /\ id \in DOMAIN agents
        /\ agents'[id] = IF id \in DOMAIN batch THEN applyReputationChange(id, batch[id]) ELSE agents[id]
    BY <1>1 DEF ApplyBatch
  <2>2. /\ agents[id] \in Agent /\ now \in Nat /\ agents[id].lastActivityAt <= now
    BY <2>1, StandingAt DEF StandingInv, NotWrittenAhead
  <2>3. agents'[id].lastActivityAt = now \/ agents'[id].lastActivityAt = agents[id].lastActivityAt
    BY <2>1, <2>2 DEF applyReputationChange, Agent
  <2> QED BY <2>2, <2>3
<1> QED BY <1>1, ResultAdds DEF NotWrittenAhead

LEMMA AgentNextEarned ==
    ASSUME StandingInv, AgentNext, now' = now
    PROVE  EarnedStep /\ NotWrittenAhead'
<1>1. now' \in Nat /\ now <= now'
  BY HorizonAssumption DEF StandingInv, ArcRunInv, TimeTypeOK
<1>2. /\ agents \in Seq(Agent) /\ Len(agents) \in Nat /\ DOMAIN agents = 1..Len(agents)
  BY AgentFacts DEF StandingInv, ArcRunInv
<1>3. ASSUME NEW s \in Accounts, createAgent(s) PROVE EarnedStep /\ NotWrittenAhead'
  <2> DEFINE agent == [owner |-> s, tier |-> [f \in ContestType |-> 0],
                       reputation |-> 0, lastActivityAt |-> now]
  <2>1. agents' = Append(agents, agent) /\ agent.lastActivityAt = now
    BY <1>3 DEF createAgent
  <2> HIDE DEF agent
  <2>2. /\ DOMAIN agents' = 1..(Len(agents) + 1) /\ agents'[Len(agents) + 1] = agent
        /\ \A id \in 1..Len(agents) : agents'[id] = agents[id]
    BY <1>2, <2>1
  <2>3. StandingKept
    BY <1>2, <2>2 DEF StandingKept
  <2>4. \A id \in DOMAIN agents' \ DOMAIN agents : agents'[id].lastActivityAt <= now'
    BY <1>1, <1>2, <2>1, <2>2
  <2> QED BY <1>1, <2>3, <2>4, KeptIsEarned
<1>4. ASSUME NEW s \in Accounts, NEW id \in DOMAIN agents, NEW f \in ContestType,
             upgradeAgent(s, id, f)
      PROVE  EarnedStep /\ NotWrittenAhead'
  <2> DEFINE new == [agents[id] EXCEPT !.tier = [agents[id].tier EXCEPT ![f] = @ + 1]]
  <2>1. agents' = [agents EXCEPT ![id] = new]
    BY <1>4, Zenon DEF upgradeAgent
  <2>2. new.reputation = agents[id].reputation /\ new.lastActivityAt = agents[id].lastActivityAt
    BY StandingAt DEF Agent
  <2> HIDE DEF new
  <2>3. StandingKept /\ DOMAIN agents' = DOMAIN agents
    BY <2>1, <2>2 DEF StandingKept
  <2> QED BY <1>1, <2>3, KeptIsEarned
<1>5. ASSUME agents' = agents PROVE EarnedStep /\ NotWrittenAhead'
  BY <1>1, <1>5, SameAgentsEarned
<1> QED BY <1>3, <1>4, <1>5 DEF AgentNext, setAgentTreasury, setMaxAgentsPerOwner, setUpgradePrice

LEMMA StandingInit == Init => StandingInv
  BY ArcRunInitInv DEF StandingInv, NotWrittenAhead, Init, AgentInit

LEMMA StandingStep == StandingInv /\ [Next]_vars => StandingInv' /\ EarnedStep
<1> SUFFICES ASSUME StandingInv, [Next]_vars PROVE StandingInv' /\ EarnedStep
  OBVIOUS
<1>1. ArcRunInv'
  BY ArcRunStep DEF StandingInv
<1>2. now \in Nat /\ now <= now
  BY HorizonAssumption DEF StandingInv, ArcRunInv, TimeTypeOK
<1> SUFFICES EarnedStep /\ NotWrittenAhead'
  BY <1>1 DEF StandingInv
<1>3. CASE agents' = agents /\ now' = now
  BY <1>2, <1>3, SameAgentsEarned
<1>4. CASE ContestNext /\ UNCHANGED <<now, challengeVars>>
  <2>1. ASSUME NEW id \in DOMAIN contests, NEW b \in Batches, applyContestDeltas(id, b)
        PROVE  EarnedStep /\ NotWrittenAhead'
    BY <1>4, <2>1, BatchEarned DEF applyContestDeltas
  <2>2. \/ agents' = agents
        \/ \E id \in DOMAIN contests, b \in Batches : applyContestDeltas(id, b)
    BY <1>4 DEF ContestNext, ContestStep, listContest, registerEntry, claimPrize, postScoreRoot, settle,
                cancelContest, sweepUnclaimed, setListingFeeBps, setContestPlatformFeeBps,
                SetContestsPaused, agentVars
  <2> QED BY <1>3, <1>4, <2>1, <2>2
<1>5. CASE ChallengeNext /\ UNCHANGED <<now, contestVars>>
  <2>1. ASSUME NEW id \in DOMAIN challenges, NEW b \in Batches, applyChallengeDeltas(id, b)
        PROVE  EarnedStep /\ NotWrittenAhead'
    BY <1>5, <2>1, BatchEarned DEF applyChallengeDeltas
  <2>2. \/ agents' = agents
        \/ \E id \in DOMAIN challenges, b \in Batches : applyChallengeDeltas(id, b)
    BY <1>5 DEF ChallengeNext, ChallengeStep, createChallenge, invite, joinChallenge, lockChallenge,
                claimChallengePayout, refund, postWinnerRoot, cancelChallenge,
                setDefaultPlatformFeeBps, SetChallengesPaused, agentVars
  <2> QED BY <1>3, <1>5, <2>1, <2>2
<1>6. CASE AgentNext /\ UNCHANGED <<now, poolBalance, treasury, contestVars, challengeVars>>
  BY <1>6, AgentNextEarned
<1>7. CASE /\ \E t \in Treasuries : setTreasury(t)
           /\ UNCHANGED <<now, agentVars, contestVars, challengeVars>>
  BY <1>3, <1>7 DEF agentVars
<1>8. CASE Pass
  <2>1. agents' = agents /\ now' \in Nat /\ now <= now'
    BY <1>2, <1>8 DEF Pass, Tick, agentVars
  <2> QED BY <2>1, SameAgentsEarned
<1>9. CASE UNCHANGED vars
  BY <1>3, <1>9 DEF vars, agentVars
<1> QED BY <1>4, <1>5, <1>6, <1>7, <1>8, <1>9 DEF Next

(* AgentRegistry under both engines: an agent's effective reputation rises *)
(* only in a transaction that applies a result to it, and by no more than  *)
(* that result, for every rate and length of the decay.                    *)
THEOREM StandingEarned == Spec => StandingIsEarned
<1>1. StandingInv /\ [Next]_vars => [EarnedStep]_<<now, agents>>
  BY StandingStep
<1>2. Spec => []StandingInv
  BY StandingInit, StandingStep, PTL DEF Spec
<1>3. Spec => [][EarnedStep]_<<now, agents>>
  BY <1>1, <1>2, PTL DEF Spec
<1> QED BY <1>3 DEF StandingIsEarned, EarnedStep
=============================================================================
