--------------------------- MODULE ChallengeArena ---------------------------
(***************************************************************************)
(* ChallengeArena.sol: peer challenges.  Everybody stakes the same amount  *)
(* into the shared escrow; a challenge that fills or whose join window     *)
(* closes is locked, the coordinator posts the winners' root in time, or   *)
(* the challenge is cancelled and each entrant pulls the stake back.       *)
(* It shares the escrow, the agent registry and the leaf type with         *)
(* ContestEngine, whose module it extends.                                 *)
(***************************************************************************)
EXTENDS ContestEngine

CONSTANTS ChallengeTerms,  \* [kind, stake, maxEntrants, joinDeadline, resolveDeadline,
                           \*  isPrivate, minTier, maxTier] creators ask for
          ChallengeRoots,  \* roots the coordinator posts
          ChallengeFees,   \* rates the admin asks for
          Privileged       \* accounts that are admin or coordinator

ChallengeKind == {"PREDICTION", "PUZZLE", "VOLUME", "CUSTOM"}

ASSUME ChallengeAssumption ==
    /\ ChallengeTerms \subseteq [kind: ChallengeKind, stake: Nat, maxEntrants: Nat,
                                 joinDeadline: Nat, resolveDeadline: Nat, isPrivate: BOOLEAN,
                                 minTier: Nat, maxTier: Nat]
    /\ ChallengeRoots \subseteq SUBSET PayoutLeaf
    /\ \A root \in ChallengeRoots : IsFiniteSet(root)
    /\ ChallengeFees \subseteq Nat
    /\ Privileged \subseteq Accounts

VARIABLES challenges,            \* challenges[id]: the Challenge of id
          joined,                \* joined[id]: the operators who staked
          invited,               \* invited[id]: who may join a private one
          payoutClaimed,         \* payoutClaimed[id]: the operators who claimed
          refunded,              \* refunded[id]: the operators who pulled their stake
          defaultPlatformFeeBps,
          challengesPaused

challengeBooks == <<challenges, joined, invited, payoutClaimed, refunded>>
challengeAdmin == <<defaultPlatformFeeBps, challengesPaused>>
challengeVars  == <<challengeBooks, challengeAdmin>>

ChallengeStatus == {"OPEN", "LOCKED", "SETTLED", "CANCELLED"}
Challenge == [creator: Accounts, kind: ChallengeKind, status: ChallengeStatus,
              isPrivate: BOOLEAN, platformFeeBps: 0..MAX_PLATFORM_FEE_BPS, stake: Nat \ {0},
              maxEntrants: Nat, joinDeadline: Nat, resolveDeadline: Nat,
              winnerRoot: SUBSET PayoutLeaf, minTier: Tiers, maxTier: Tiers]

NobodyYet == [id \in 1..MaxChallenges |-> {}]

ChallengeInit == /\ challenges = << >>
                 /\ joined = NobodyYet
                 /\ invited = NobodyYet
                 /\ payoutClaimed = NobodyYet
                 /\ refunded = NobodyYet
                 /\ defaultPlatformFeeBps \in {f \in ChallengeFees : f <= MAX_PLATFORM_FEE_BPS}
                 /\ challengesPaused = FALSE

ChallengePool(id) == _key("ChallengeArena", id)

entrantCount(id) == Cardinality(joined[id])
-----------------------------------------------------------------------------
createChallenge(creator, terms) ==
    /\ Len(challenges) < MaxChallenges
    /\ ~challengesPaused
    /\ terms.stake # 0
    /\ terms.maxEntrants >= 2
    /\ now < terms.joinDeadline
    /\ terms.joinDeadline < terms.resolveDeadline
    /\ ValidGate(terms)
    /\ challenges' = Append(challenges,
           [creator |-> creator, kind |-> terms.kind, status |-> "OPEN",
            isPrivate |-> terms.isPrivate, platformFeeBps |-> defaultPlatformFeeBps,
            stake |-> terms.stake, maxEntrants |-> terms.maxEntrants,
            joinDeadline |-> terms.joinDeadline, resolveDeadline |-> terms.resolveDeadline,
            winnerRoot |-> {}, minTier |-> terms.minTier, maxTier |-> terms.maxTier])
    /\ invited' = [invited EXCEPT ![Len(challenges) + 1] = IF terms.isPrivate THEN {creator} ELSE {}]
    /\ UNCHANGED <<joined, payoutClaimed, refunded, challengeAdmin, escrowVars, agentVars>>

invite(sender, id, invitees) ==
    /\ sender = challenges[id].creator
    /\ challenges[id].status = "OPEN"
    /\ invited' = [invited EXCEPT ![id] = @ \cup invitees]
    /\ UNCHANGED <<challenges, joined, payoutClaimed, refunded, challengeAdmin, escrowVars, agentVars>>

(* The agent family whose tier gates entry; CUSTOM has none. *)
_familyOf(kind) == CASE kind = "PREDICTION" -> "ANALYST"
                     [] kind = "PUZZLE"     -> "SOLVER"
                     [] kind = "VOLUME"     -> "SCOUT"

TierAllowed(ch, agent) ==
    ch.kind # "CUSTOM" => getTier(agent, _familyOf(ch.kind)) \in ch.minTier..ch.maxTier

(* What joinChallenge asks of the challenge, the clock, the sender and the *)
(* agent.                                                                  *)
MayJoin(sender, id, agent) ==
    LET ch == challenges[id]
    IN  /\ ~challengesPaused
        /\ ch.status = "OPEN"
        /\ now < ch.joinDeadline
        /\ entrantCount(id) < ch.maxEntrants
        /\ ch.isPrivate => sender \in invited[id]
        /\ OwnsAgent(sender, agent)
        /\ TierAllowed(ch, agent)

(* Mutant: an operator can stake twice. *)
JoinAgain(sender, id, agent) ==
    /\ MayJoin(sender, id, agent)
    /\ joined' = [joined EXCEPT ![id] = @ \cup {sender}]
    /\ deposit(ChallengePool(id), sender, challenges[id].stake, usdc)
    /\ UNCHANGED <<challenges, invited, payoutClaimed, refunded, challengeAdmin, treasury, agentVars>>

joinChallenge(sender, id, agent) ==
    /\ MayJoin(sender, id, agent)
    /\ sender \notin joined[id]
    /\ joined' = [joined EXCEPT ![id] = @ \cup {sender}]
    /\ deposit(ChallengePool(id), sender, challenges[id].stake, usdc)
    /\ UNCHANGED <<challenges, invited, payoutClaimed, refunded, challengeAdmin, treasury, agentVars>>

SetStatus(id, status) == challenges' = [challenges EXCEPT ![id].status = status]

(* Mutant: a challenge nobody filled can be locked by its coordinator only. *)
LockWhenFull(id) ==
    /\ challenges[id].status = "OPEN"
    /\ entrantCount(id) >= challenges[id].maxEntrants
    /\ SetStatus(id, "LOCKED")
    /\ UNCHANGED <<joined, invited, payoutClaimed, refunded, challengeAdmin, escrowVars, agentVars>>

(* By anyone. *)
lockChallenge(id) ==
    /\ challenges[id].status = "OPEN"
    /\ entrantCount(id) >= challenges[id].maxEntrants \/ now >= challenges[id].joinDeadline
    /\ entrantCount(id) >= 2
    /\ SetStatus(id, "LOCKED")
    /\ UNCHANGED <<joined, invited, payoutClaimed, refunded, challengeAdmin, escrowVars, agentVars>>

claimChallengePayout(sender, id, leaf) ==
    /\ ~challengesPaused
    /\ challenges[id].status = "SETTLED"
    /\ sender \notin payoutClaimed[id]
    /\ leaf \in challenges[id].winnerRoot /\ leaf.operator = sender
    /\ payoutClaimed' = [payoutClaimed EXCEPT ![id] = @ \cup {sender}]
    /\ payout(ChallengePool(id), sender, leaf.amount)
    /\ UNCHANGED <<challenges, joined, invited, refunded, challengeAdmin, treasury, agentVars>>

refund(sender, id) ==
    /\ challenges[id].status = "CANCELLED"
    /\ sender \in joined[id]
    /\ sender \notin refunded[id]
    /\ refunded' = [refunded EXCEPT ![id] = @ \cup {sender}]
    /\ payout(ChallengePool(id), sender, challenges[id].stake)
    /\ UNCHANGED <<challenges, joined, invited, payoutClaimed, challengeAdmin, treasury, agentVars>>
-----------------------------------------------------------------------------
challengeFee(id) == (challenges[id].stake * entrantCount(id) * challenges[id].platformFeeBps)
                        \div BPS_DENOMINATOR

(* The coordinator. *)
postWinnerRoot(id, root) ==
    /\ challenges[id].status = "LOCKED"
    /\ now <= challenges[id].resolveDeadline
    /\ root # {}
    /\ challenges' = [challenges EXCEPT ![id].winnerRoot = root, ![id].status = "SETTLED"]
    /\ skimPlatformFee(ChallengePool(id), challengeFee(id))
    /\ UNCHANGED <<joined, invited, payoutClaimed, refunded, challengeAdmin, treasury, agentVars>>

applyChallengeDeltas(id, batch) ==
    /\ challenges[id].status = "SETTLED"
    /\ ApplyBatch(batch)
    /\ UNCHANGED <<challengeVars, poolBalance, treasury>>

(* While OPEN, anyone once it is stale and underfilled, or the creator, an *)
(* admin or the coordinator; while LOCKED, anyone once it was not resolved *)
(* in time.                                                                *)
MayCancel(sender, id) ==
    LET ch == challenges[id]
    IN  \/ /\ ch.status = "OPEN"
           /\ \/ sender \in Privileged \cup {ch.creator}
              \/ now > ch.joinDeadline /\ entrantCount(id) < 2
        \/ /\ ch.status = "LOCKED"
           /\ now > ch.resolveDeadline

cancelChallenge(sender, id) ==
    /\ MayCancel(sender, id)
    /\ SetStatus(id, "CANCELLED")
    /\ UNCHANGED <<joined, invited, payoutClaimed, refunded, challengeAdmin, escrowVars, agentVars>>

setDefaultPlatformFeeBps(f) == /\ f <= MAX_PLATFORM_FEE_BPS
                               /\ defaultPlatformFeeBps' = f
                               /\ UNCHANGED <<challengeBooks, challengesPaused, escrowVars, agentVars>>

SetChallengesPaused(p) == /\ challengesPaused = ~p
                          /\ challengesPaused' = p
                          /\ UNCHANGED <<challengeBooks, defaultPlatformFeeBps, escrowVars, agentVars>>
-----------------------------------------------------------------------------
ChallengeStep(id) ==
    \/ \E s \in Accounts, i \in SUBSET Accounts : invite(s, id, i)
    \/ \E s \in Accounts, a \in DOMAIN agents : joinChallenge(s, id, a)
    \/ lockChallenge(id)
    \/ \E s \in Accounts : \E leaf \in challenges[id].winnerRoot : claimChallengePayout(s, id, leaf)
    \/ \E s \in Accounts : refund(s, id)
    \/ \E root \in ChallengeRoots : postWinnerRoot(id, root)
    \/ \E b \in Batches : applyChallengeDeltas(id, b)
    \/ \E s \in Accounts : cancelChallenge(s, id)

ChallengeNext == \/ \E s \in Accounts, t \in ChallengeTerms : createChallenge(s, t)
                 \/ \E id \in DOMAIN challenges : ChallengeStep(id)
                 \/ \E f \in ChallengeFees : setDefaultPlatformFeeBps(f)
                 \/ \E p \in BOOLEAN : SetChallengesPaused(p)

ChallengeTypeOK ==
    /\ challenges \in Seq(Challenge)
    /\ Len(challenges) <= MaxChallenges
    /\ joined \in [1..MaxChallenges -> SUBSET Accounts]
    /\ invited \in [1..MaxChallenges -> SUBSET Accounts]
    /\ payoutClaimed \in [1..MaxChallenges -> SUBSET Accounts]
    /\ refunded \in [1..MaxChallenges -> SUBSET Accounts]
    /\ defaultPlatformFeeBps \in 0..MAX_PLATFORM_FEE_BPS
    /\ challengesPaused \in BOOLEAN
=============================================================================
