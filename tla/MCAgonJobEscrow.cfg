\* Two jobs, two versions of one listing, a transferable identity, a fee that may
\* drop to 0 in a one-tick delay; jobs run to their end.
SPECIFICATION MCFairSpec
CONSTANTS
    buyer = buyer
    provider = provider
    escrow = escrow
    treasury1 = treasury1
    Accounts <- MCAccounts
    Treasuries <- MCTreasuries
    Holders <- MCHolders
    Escrow = escrow
    NoAddress = NoAddress
    AgentIds = {a1}
    ServiceKeys = {k1}
    Manifests = {m1}
    Statuses = {}
    Outcomes = {"Verified"}
    MaxListings = 1
    MaxVersions = 2
    BPS = 10000
    MAX_PROTOCOL_FEE_BPS = 1000
    PROTOCOL_FEE_CHANGE_DELAY = 1
    FeeChoices = {0, 500}
    Horizon = 4
    CreateUntil = 1
    References = {r1}
    Amounts = {0, 20}
    ReviewHours = {0}
    MIN_REVIEW_HOURS = 1
    MAX_REVIEW_HOURS = 2
    defaultReviewHours = 1
    MaxJobs = 2
    InitialBalance = 42
INVARIANTS
    Solvency
    AccountsReconcile
    JobPinnedToVersion
    ReferencesUnique
PROPERTIES
    SubmittedWorkIsPaidOrJudged
    ImplementsLifecycle
    EscrowedFundsReleased
