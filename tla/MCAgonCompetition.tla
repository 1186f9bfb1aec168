------------------------- MODULE MCAgonCompetition --------------------------
(***************************************************************************)
(* Instances for TLC of the prize vault and of the arena.  They share the  *)
(* clock and nothing else, so a run lets one of them move while the other  *)
(* is where it began; the arena begins at 2.  The vault: two pools, of     *)
(* which the first is funded first, and roots of every sort, honest ones,  *)
(* one that hands out more than any total, and one that uses an index      *)
(* twice; the treasury moves once.  The arena: the agent has an owner,     *)
(* whichever; it and the listing stand still once the row or a second      *)
(* evaluation is there; with two evaluations on chain one request          *)
(* reconciles at a time; and of two idle requests the first starts.  Pools *)
(* are alike, and so are requests: neither order is a loss.                *)
(***************************************************************************)
EXTENDS AgonPrizeVault, AgonArena, FiniteSets

CONSTANTS alice, bob, dao, dao2

MCHolders == {alice, bob, dao, dao2, Vault}

L(i, b, a) == [index |-> i, beneficiary |-> b, amount |-> a]

MCRoots == {{L(1, alice, 1), L(2, bob, 1)},
            {L(1, alice, 2), L(2, bob, 1)},
            {L(1, alice, 1), L(1, bob, 2)}}

VaultIdle == /\ \A k \in Keys : pools[k] = Missing
             /\ treasury = dao
             /\ ~paused

VaultBounds ==
    /\ \A k \in Keys \ {1} : pools[k].state = "None" /\ pools[1].state = "None"
                                => pools'[k].state = "None"
    /\ treasury # dao => treasury' = treasury

ArenaIdle == /\ identityOwner = [g \in AgentIds |-> alice]
             /\ RegistryInit
             /\ arenaPaused = FALSE
             /\ evaluations = << >>
             /\ rows = [h \in Recorded |-> NoRow]
             /\ reconciles = [r \in ArenaReaders |-> Idle]

first == CHOOSE r \in ArenaReaders : TRUE

ArenaBounds ==
    /\ (\E h \in Recorded : rows[h] # NoRow) \/ Len(evaluations) = 2
           => identityOwner' = identityOwner /\ listings' = listings
    /\ Len(evaluations') + Cardinality({r \in ArenaReaders : reconciles'[r] # Idle}) <= 3
    /\ \A r \in ArenaReaders \ {first} :
           reconciles[r] = Idle /\ reconciles[first] = Idle => reconciles'[r] = Idle

allVars == <<vars, identityOwner, registryVars, arenaVars>>

MCInit == Init /\ ArenaIdle
MCNext == \/ Next /\ VaultBounds /\ ArenaIdle /\ UNCHANGED <<identityOwner, registryVars, arenaVars>>
          \/ /\ ArenaNext /\ ArenaBounds /\ now > 1
             /\ VaultIdle /\ UNCHANGED <<usdc, pools, claimed, treasury, paused>>

MCSpec == MCInit /\ [][MCNext]_allVars
MCFairSpec == MCSpec /\ VaultFairness /\ ArenaFairness
=============================================================================
