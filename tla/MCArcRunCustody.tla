-------------------------- MODULE MCArcRunCustody ---------------------------
(***************************************************************************)
(* Instances for TLC of ArcRun's custody and of the coordinator's          *)
(* settlement of one contest, in parts that do not mix.  With agents from  *)
(* the start two operators hold a contest and a challenge that have the    *)
(* same id in their contracts.  Without, only the registry moves: agents   *)
(* are created and upgraded, results reach them, and reputation halves     *)
(* every day of two ticks, so that days, rounding and saturation all show. *)
(* Without and with the clock at its end, where the contracts have nothing *)
(* left to do, the coordinator settles, or divides a pool.                 *)
(***************************************************************************)
EXTENDS ArcRunCustody, ContestSettlement, Payouts, TLC

CONSTANTS alice, bob, dao

MCHolders == {alice, bob, dao, Escrow}

MCPrices == [f \in ContestType |-> [t \in FromTiers |-> IF f = "SCOUT" THEN 1 ELSE 0]]

MCContestTerms == {[family |-> "SCOUT", prizePool |-> 4, duration |-> 1,
                    minTier |-> 1, maxTier |-> 1]}

Terms(kind, entrants, private) ==
    [kind |-> kind, stake |-> 2, maxEntrants |-> entrants, joinDeadline |-> 2,
     resolveDeadline |-> 3, isPrivate |-> private, minTier |-> 0, maxTier |-> 0]

MCChallengeTerms == {Terms("CUSTOM", 3, TRUE), Terms("PUZZLE", 2, FALSE)}

W(o, a) == [operator |-> o, amount |-> a]
MCContestRoots == {{W(alice, 1), W(bob, 2)}, {W(alice, 3), W(bob, 2)}}
MCChallengeRoots == {{W(alice, 1), W(bob, 1)}, {W(alice, 4), W(bob, 1)}}

(* The empty batch is the one the coordinator sends in the first half. *)
MCBatches == {1 :> 4, (1 :> 0) @@ (2 :> 3), 1 :> -2, << >>}

(* alice has created two agents and made scouts of tier 1 of them; bob's   *)
(* one is not upgraded, so the contest's gate refuses it.                  *)
MCAgent(o, t) == [owner |-> o, tier |-> [f \in ContestType |-> IF f = "SCOUT" THEN t ELSE 0],
                  reputation |-> 0, lastActivityAt |-> 1]
CustodyInit ==
    /\ now \in {1, Horizon}
    /\ usdc = [h \in Holders |-> IF h \in Accounts THEN InitialBalance ELSE 0]
    /\ agents \in {<<MCAgent(alice, 1), MCAgent(alice, 1), MCAgent(bob, 0)>>, << >>}
    /\ now = Horizon => agents = << >>
    /\ maxAgentsPerOwner = 2
    /\ upgradePrice = SeedPrices
    /\ agentTreasury \in Treasuries
    /\ EscrowInit
    /\ treasury \in Treasuries
    /\ ContestInit
    /\ ChallengeInit

CustodyNext ==
    \/ Next /\ Len(agents) = 3 /\ UNCHANGED agentVars
    \/ /\ AgentSpecNext /\ Len(agents') < 3
       /\ UNCHANGED <<poolBalance, treasury, contestVars, challengeVars>>

CoordinatorsTurn == now = Horizon /\ CustodyInit /\ UNCHANGED vars

MCInit == CustodyInit /\ SettlementInit /\ PayoutInit
MCNext ==
    \/ /\ SettlementInit /\ PayoutInit /\ UNCHANGED <<settlementVars, distribution>>
       /\ CustodyNext
    \/ PayoutInit /\ UNCHANGED distribution /\ CoordinatorsTurn /\ SettlementNext
    \/ SettlementInit /\ UNCHANGED settlementVars /\ CoordinatorsTurn /\ PayoutInit /\ PayoutNext

MCSpec == MCInit /\ [][MCNext]_<<vars, settlementVars, distribution>>
MCFairSpec == MCSpec /\ Fairness /\ SettlementFairness
=============================================================================
