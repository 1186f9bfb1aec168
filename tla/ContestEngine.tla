--------------------------- MODULE ContestEngine ----------------------------
(***************************************************************************)
(* ContestEngine.sol: sponsored contests, funded into the shared escrow    *)
(* when they are listed.  Operators enter their agents until the contest   *)
(* ends; the coordinator posts a payout root, settles, and winners claim;  *)
(* what they leave is swept once the claim window is over.  A Merkle root  *)
(* is the set of leaves it commits to.  The metric, the published terms    *)
(* and the syndicate of an entry are payload no decision reads.            *)
(***************************************************************************)
EXTENDS AgentRegistry, PrizeEscrow

CONSTANTS ContestTerms,    \* [family, prizePool, duration, minTier, maxTier] sponsors ask for
          ContestRoots,    \* roots the coordinator posts: sets of leaves
          ContestFees,     \* rates the admin asks for
          BPS_DENOMINATOR,
          MAX_PLATFORM_FEE_BPS,
          MAX_LISTING_FEE_BPS,
          CLAIM_WINDOW,
          ListUntil        \* bound: the last timestamp a contest is listed at

PayoutLeaf == [operator: Accounts, amount: Nat]

ASSUME ContestAssumption ==
    /\ Escrow \in Holders
    /\ Escrow \notin Accounts \cup Treasuries
    /\ MaxContests \in Nat
    /\ MaxChallenges \in Nat
    /\ ContestTerms \subseteq [family: ContestType, prizePool: Nat, duration: Nat,
                               minTier: Nat, maxTier: Nat]
    /\ ContestRoots \subseteq SUBSET PayoutLeaf
    /\ \A root \in ContestRoots : IsFiniteSet(root)
    /\ ContestFees \subseteq Nat
    /\ BPS_DENOMINATOR \in Nat \ {0}
    /\ MAX_PLATFORM_FEE_BPS \in 0..BPS_DENOMINATOR
    /\ MAX_LISTING_FEE_BPS \in 0..BPS_DENOMINATOR
    /\ CLAIM_WINDOW \in Nat
    /\ ListUntil \in Nat

VARIABLES contests,            \* contests[id]: the Contest of id
          agentEntered,        \* agentEntered[id]: the agents in contest id
          operatorEntered,     \* operatorEntered[id]: their operators
          prizeClaimed,        \* prizeClaimed[id]: the operators who claimed
          listingFeeBps,
          contestPlatformFeeBps,
          contestsPaused

contestBooks == <<contests, agentEntered, operatorEntered, prizeClaimed>>
contestAdmin == <<listingFeeBps, contestPlatformFeeBps, contestsPaused>>
contestVars  == <<contestBooks, contestAdmin>>

ContestStatus == {"OPEN", "SCORING", "SETTLED", "CANCELLED"}
Contest == [status: ContestStatus, platformFeeBps: 0..MAX_PLATFORM_FEE_BPS, sponsor: Accounts,
            family: ContestType, endTime: Nat, prizePool: Nat \ {0}, finalRoot: SUBSET PayoutLeaf,
            minTier: Tiers, maxTier: Tiers]

ContestInit == /\ contests = << >>
               /\ agentEntered = [id \in 1..MaxContests |-> {}]
               /\ operatorEntered = [id \in 1..MaxContests |-> {}]
               /\ prizeClaimed = [id \in 1..MaxContests |-> {}]
               /\ listingFeeBps \in {f \in ContestFees : f <= MAX_LISTING_FEE_BPS}
               /\ contestPlatformFeeBps \in {f \in ContestFees : f <= MAX_PLATFORM_FEE_BPS}
               /\ contestsPaused = FALSE

ContestPool(id) == _key("ContestEngine", id)

ValidGate(t) == t.maxTier <= MAX_TIER /\ t.minTier <= t.maxTier
-----------------------------------------------------------------------------
(* The guards on MaxContests and ListUntil are the model's.                *)
listContest(sponsor, terms) ==
    LET listingFee == (terms.prizePool * listingFeeBps) \div BPS_DENOMINATOR
        id == Len(contests) + 1
    IN  /\ Len(contests) < MaxContests
        /\ now <= ListUntil
        /\ ~contestsPaused
        /\ terms.prizePool # 0
        /\ terms.duration # 0
        /\ ValidGate(terms)
        /\ contests' = Append(contests,
               [status |-> "OPEN", platformFeeBps |-> contestPlatformFeeBps, sponsor |-> sponsor,
                family |-> terms.family, endTime |-> now + terms.duration,
                prizePool |-> terms.prizePool, finalRoot |-> {},
                minTier |-> terms.minTier, maxTier |-> terms.maxTier])
        /\ CanPay(sponsor, listingFee)
        /\ deposit(ContestPool(id), sponsor, terms.prizePool, collectListingFee(sponsor, listingFee))
        /\ UNCHANGED <<agentEntered, operatorEntered, prizeClaimed, contestAdmin, treasury, agentVars>>

registerEntry(sender, id, agent) ==
    LET c == contests[id]
    IN  /\ ~contestsPaused
        /\ c.status = "OPEN"
        /\ now < c.endTime
        /\ OwnsAgent(sender, agent)
        /\ agent \notin agentEntered[id]
        /\ sender \notin operatorEntered[id]
        /\ getTier(agent, c.family) \in c.minTier..c.maxTier
        /\ agentEntered' = [agentEntered EXCEPT ![id] = @ \cup {agent}]
        /\ operatorEntered' = [operatorEntered EXCEPT ![id] = @ \cup {sender}]
        /\ UNCHANGED <<contests, prizeClaimed, contestAdmin, escrowVars, agentVars>>

(* Mutant: prizeClaimed is set but not read. *)
ClaimPrizeAgain(sender, id, leaf) ==
    /\ ~contestsPaused
    /\ contests[id].status = "SETTLED"
    /\ leaf \in contests[id].finalRoot /\ leaf.operator = sender
    /\ prizeClaimed' = [prizeClaimed EXCEPT ![id] = @ \cup {sender}]
    /\ payout(ContestPool(id), sender, leaf.amount)
    /\ UNCHANGED <<contests, agentEntered, operatorEntered, contestAdmin, treasury, agentVars>>

claimPrize(sender, id, leaf) ==
    /\ ~contestsPaused
    /\ contests[id].status = "SETTLED"
    /\ sender \notin prizeClaimed[id]
    /\ leaf \in contests[id].finalRoot /\ leaf.operator = sender
    /\ prizeClaimed' = [prizeClaimed EXCEPT ![id] = @ \cup {sender}]
    /\ payout(ContestPool(id), sender, leaf.amount)
    /\ UNCHANGED <<contests, agentEntered, operatorEntered, contestAdmin, treasury, agentVars>>
-----------------------------------------------------------------------------
(* The coordinator. *)
postScoreRoot(id, root) ==
    /\ contests[id].status = "OPEN"
    /\ now >= contests[id].endTime
    /\ root # {}
    /\ contests' = [contests EXCEPT ![id].finalRoot = root, ![id].status = "SCORING"]
    /\ UNCHANGED <<agentEntered, operatorEntered, prizeClaimed, contestAdmin, escrowVars, agentVars>>

contestFee(id) == (contests[id].prizePool * contests[id].platformFeeBps) \div BPS_DENOMINATOR

settle(id) ==
    /\ contests[id].status = "SCORING"
    /\ contests' = [contests EXCEPT ![id].status = "SETTLED"]
    /\ skimPlatformFee(ContestPool(id), contestFee(id))
    /\ UNCHANGED <<agentEntered, operatorEntered, prizeClaimed, contestAdmin, treasury, agentVars>>

applyContestDeltas(id, batch) ==
    /\ contests[id].status \in {"SCORING", "SETTLED"}
    /\ ApplyBatch(batch)
    /\ UNCHANGED <<contestVars, poolBalance, treasury>>

(* Mutant: a cancelled contest refunds the pool less the platform fee. *)
CancelLessFee(id) ==
    /\ contests[id].status \in {"OPEN", "SCORING"}
    /\ contests' = [contests EXCEPT ![id].status = "CANCELLED"]
    /\ debitIfAny(ContestPool(id), contests[id].sponsor,
                  poolBalance[ContestPool(id)] - contestFee(id))
    /\ UNCHANGED <<agentEntered, operatorEntered, prizeClaimed, contestAdmin, treasury, agentVars>>

(* By an admin or the coordinator. *)
cancelContest(id) ==
    /\ contests[id].status \in {"OPEN", "SCORING"}
    /\ contests' = [contests EXCEPT ![id].status = "CANCELLED"]
    /\ debitIfAny(ContestPool(id), contests[id].sponsor, poolBalance[ContestPool(id)])
    /\ UNCHANGED <<agentEntered, operatorEntered, prizeClaimed, contestAdmin, treasury, agentVars>>

(* Mutant: nothing is swept while the contract is paused. *)
SweepUnlessPaused(id) ==
    /\ ~contestsPaused
    /\ contests[id].status = "SETTLED"
    /\ now >= contests[id].endTime + CLAIM_WINDOW
    /\ sweepPool(ContestPool(id))
    /\ UNCHANGED <<contestVars, treasury, agentVars>>

(* By anyone. *)
sweepUnclaimed(id) ==
    /\ contests[id].status = "SETTLED"
    /\ now >= contests[id].endTime + CLAIM_WINDOW
    /\ sweepPool(ContestPool(id))
    /\ UNCHANGED <<contestVars, treasury, agentVars>>

setListingFeeBps(f) == /\ f <= MAX_LISTING_FEE_BPS
                       /\ listingFeeBps' = f
                       /\ UNCHANGED <<contestBooks, contestPlatformFeeBps, contestsPaused,
                                      escrowVars, agentVars>>

setContestPlatformFeeBps(f) == /\ f <= MAX_PLATFORM_FEE_BPS
                               /\ contestPlatformFeeBps' = f
                               /\ UNCHANGED <<contestBooks, listingFeeBps, contestsPaused,
                                              escrowVars, agentVars>>

SetContestsPaused(p) == /\ contestsPaused = ~p
                        /\ contestsPaused' = p
                        /\ UNCHANGED <<contestBooks, listingFeeBps, contestPlatformFeeBps,
                                       escrowVars, agentVars>>
-----------------------------------------------------------------------------
ContestStep(id) ==
    \/ \E s \in Accounts, a \in DOMAIN agents : registerEntry(s, id, a)
    \/ \E s \in Accounts : \E leaf \in contests[id].finalRoot : claimPrize(s, id, leaf)
    \/ \E root \in ContestRoots : postScoreRoot(id, root)
    \/ settle(id)
    \/ \E b \in Batches : applyContestDeltas(id, b)
    \/ cancelContest(id)
    \/ sweepUnclaimed(id)

ContestNext == \/ \E s \in Accounts, t \in ContestTerms : listContest(s, t)
               \/ \E id \in DOMAIN contests : ContestStep(id)
               \/ \E f \in ContestFees : setListingFeeBps(f)
               \/ \E f \in ContestFees : setContestPlatformFeeBps(f)
               \/ \E p \in BOOLEAN : SetContestsPaused(p)

ContestTypeOK ==
    /\ contests \in Seq(Contest)
    /\ Len(contests) <= MaxContests
    /\ agentEntered \in [1..MaxContests -> SUBSET (1..MaxAgents)]
    /\ operatorEntered \in [1..MaxContests -> SUBSET Accounts]
    /\ prizeClaimed \in [1..MaxContests -> SUBSET Accounts]
    /\ listingFeeBps \in 0..MAX_LISTING_FEE_BPS
    /\ contestPlatformFeeBps \in 0..MAX_PLATFORM_FEE_BPS
    /\ contestsPaused \in BOOLEAN
=============================================================================
