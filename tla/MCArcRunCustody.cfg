\* A contest and a challenge with the same id, two operators with three agents; or
\* two agents, one tier of one family, a price that may be closed, days of two ticks.
SPECIFICATION MCFairSpec
CONSTANTS
    alice = alice
    bob = bob
    dao = dao
    Escrow = Escrow
    Holders <- MCHolders
    Accounts = {alice, bob}
    Treasuries = {dao}
    MAX_TIER = 1
    SeedPrices <- MCPrices
    Prices = {0}
    OwnerLimits = {1, 2}
    DAY = 2
    DECAY_NUMERATOR = 1
    DECAY_DENOMINATOR = 2
    MAX_DECAY_DAYS = 1
    MAX_REPUTATION = 5
    MaxAgents = 3
    MaxContests = 1
    MaxChallenges = 1
    ContestTerms <- MCContestTerms
    ContestRoots <- MCContestRoots
    Batches <- MCBatches
    ContestFees = {1}
    BPS_DENOMINATOR = 4
    MAX_PLATFORM_FEE_BPS = 2
    MAX_LISTING_FEE_BPS = 2
    CLAIM_WINDOW = 1
    ListUntil = 1
    ChallengeTerms <- MCChallengeTerms
    ChallengeRoots <- MCChallengeRoots
    ChallengeFees = {1}
    Privileged = {}
    InitialBalance = 8
    Horizon = 4
    Operators = {o1, o2}
    topN = 2
    Clicks = {q1}
    Scripts = {}
    MaxPending = 2
    MaxFaults = 1
    MaxField = 3
    Scores = {0, 100, 205}
    Traded = {TRUE, FALSE}
    Claimables = {7, 100}
    CustomBps = {0, 3333, 6667}
INVARIANTS
    PostedTreeIsStored
    PrizePoolIntact
    StakesAlwaysCovered
    HonestWinnersCovered
    PoolIsPaidOut
PROPERTIES
    DueContestsLeaveOpen
    StandingIsEarned
    StakesComeBack
    UnclaimedPrizesSwept
    EscrowImplementsCustody
CHECK_DEADLOCK FALSE
