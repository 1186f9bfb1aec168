--------------------------- MODULE ArcRunCustody ----------------------------
(***************************************************************************)
(* The legacy ArcRun contracts together: ContestEngine and ChallengeArena  *)
(* over the one PrizeEscrow that holds their money, and the AgentRegistry  *)
(* they read and write.  A step is one transaction of one of them.         *)
(***************************************************************************)
EXTENDS ChallengeArena, FiniteSetsExt

vars == <<now, usdc, agentVars, poolBalance, treasury, contestVars, challengeVars>>

Init == /\ TimeInit
        /\ usdc = [h \in Holders |-> IF h \in Accounts THEN InitialBalance ELSE 0]
        /\ AgentInit
        /\ EscrowInit
        /\ treasury \in Treasuries
        /\ ContestInit
        /\ ChallengeInit

Pass == Tick /\ UNCHANGED <<escrowVars, agentVars, contestVars, challengeVars>>

Next == \/ ContestNext /\ UNCHANGED <<now, challengeVars>>
        \/ ChallengeNext /\ UNCHANGED <<now, contestVars>>
        \/ AgentNext /\ UNCHANGED <<now, poolBalance, treasury, contestVars, challengeVars>>
        \/ /\ \E t \in Treasuries : setTreasury(t)
           /\ UNCHANGED <<now, agentVars, contestVars, challengeVars>>
        \/ Pass

Spec == Init /\ [][Next]_vars

(* Fairness: time passes; somebody locks a challenge that can be locked,   *)
(* cancels one that was not filled or resolved in time and sweeps a        *)
(* contest whose window is over, all of which anyone may do; an entrant of *)
(* a cancelled challenge asks for the stake.  Nothing is asked of the      *)
(* coordinator, of an admin, of a winner or of a challenge's creator.      *)
Anyone(A) == A /\ UNCHANGED <<now, contestVars>>

Outsiders(id) == Accounts \ (Privileged \cup {challenges[id].creator})

Fairness ==
    /\ WF_vars(Pass)
    /\ \A id \in 1..MaxChallenges :
         /\ WF_vars(id \in DOMAIN challenges /\ Anyone(lockChallenge(id)))
         /\ WF_vars(id \in DOMAIN challenges /\ Anyone(\E s \in Outsiders(id) : cancelChallenge(s, id)))
         /\ \A s \in Accounts : WF_vars(id \in DOMAIN challenges /\ Anyone(refund(s, id)))
    /\ \A id \in 1..MaxContests :
         WF_vars(id \in DOMAIN contests /\ sweepUnclaimed(id) /\ UNCHANGED <<now, challengeVars>>)

FairSpec == Spec /\ Fairness
-----------------------------------------------------------------------------
ArcRunTypeOK == /\ TimeTypeOK
                /\ USDCTypeOK
                /\ AgentTypeOK
                /\ poolBalance \in [Pools -> Nat]
                /\ treasury \in Treasuries
                /\ ContestTypeOK
                /\ ChallengeTypeOK

(* The escrow is one pot split into the two controllers' pools: each       *)
(* transaction of either pays into one pool or out of one, and no contest  *)
(* is ever paid with a challenge's stakes or the other way round.          *)
Pots == INSTANCE Custody WITH Slots <- MaxContests + MaxChallenges,
                              owed <- poolBalance, pot <- usdc[Escrow]
EscrowImplementsCustody == Pots!Spec

(* Until a contest settles its whole prize pool is there, so the sponsor   *)
(* of a cancelled one gets all of it back and the fee can be skimmed;      *)
(* after a cancellation nothing is left.                                   *)
PrizePoolIntact ==
    \A id \in DOMAIN contests :
        /\ contests[id].status \in {"OPEN", "SCORING"} =>
               poolBalance[ContestPool(id)] = contests[id].prizePool
        /\ contests[id].status = "CANCELLED" => poolBalance[ContestPool(id)] = 0

(* Until a challenge settles its pool is one stake for every entrant that  *)
(* has not pulled it back: whatever was joined, locked, cancelled, paused  *)
(* or repriced on the way, everybody's refund is covered.                  *)
StakesAlwaysCovered ==
    \A id \in DOMAIN challenges :
        challenges[id].status # "SETTLED" =>
            poolBalance[ChallengePool(id)] =
                challenges[id].stake * (entrantCount(id) - Cardinality(refunded[id]))

(* A root is honest if it names each operator once and hands out no more   *)
(* than the pot less the platform fee.                                     *)
Total(root) == MapThenSumSet(LAMBDA leaf : leaf.amount, root)

Honest(root, total) ==
    /\ \A l, m \in root : l.operator = m.operator => l = m
    /\ Total(root) <= total

(* Under an honest root each winner who has not claimed is covered: in a   *)
(* contest until its claim window closes, in a challenge for ever.         *)
HonestWinnersCovered ==
    /\ \A id \in DOMAIN contests :
         (/\ contests[id].status = "SETTLED"
          /\ now < contests[id].endTime + CLAIM_WINDOW
          /\ Honest(contests[id].finalRoot, contests[id].prizePool - contestFee(id)))
             => \A leaf \in contests[id].finalRoot :
                    leaf.operator \notin prizeClaimed[id] =>
                        leaf.amount <= poolBalance[ContestPool(id)]
    /\ \A id \in DOMAIN challenges :
         (/\ challenges[id].status = "SETTLED"
          /\ Honest(challenges[id].winnerRoot,
                    challenges[id].stake * entrantCount(id) - challengeFee(id)))
             => \A leaf \in challenges[id].winnerRoot :
                    leaf.operator \notin payoutClaimed[id] =>
                        leaf.amount <= poolBalance[ChallengePool(id)]

(* One entry per operator: the agents entered in a contest belong to       *)
(* different operators, and each of those is marked as entered.            *)
OneEntryPerOperator ==
    \A id \in DOMAIN contests :
        /\ \A a, b \in agentEntered[id] : agents[a].owner = agents[b].owner => a = b
        /\ operatorEntered[id] = {agents[a].owner : a \in agentEntered[id]}

(* Every stake comes back unless the challenge was settled in time: no     *)
(* coordinator that stays away, no pause and no empty seat strands one.    *)
StakesComeBack ==
    \A id \in 1..MaxChallenges, s \in Accounts :
        (s \in joined[id])
            ~> (s \in refunded[id] \/ (id \in DOMAIN challenges /\ challenges[id].status = "SETTLED"))

(* What the winners of a contest leave does not stay in the escrow.        *)
UnclaimedPrizesSwept ==
    \A id \in 1..MaxContests :
        (id \in DOMAIN contests /\ contests[id].status = "SETTLED")
            ~> (poolBalance[ContestPool(id)] = 0)
=============================================================================
