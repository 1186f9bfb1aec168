\* Two pools over three ticks; an agent that may change hands, two requests, one of them
\* with a row.
SPECIFICATION MCFairSpec
CONSTANTS
    alice = alice
    bob = bob
    dao = dao
    dao2 = dao2
    Vault = Vault
    Holders <- MCHolders
    Accounts = {alice, bob}
    Treasuries = {dao, dao2}
    Principals = {0, 3}
    FeeRates = {2, 3}
    BPS = 4
    MAX_FEE_BPS = 2
    Roots <- MCRoots
    PayoutTotals = {0, 2, 3, 4}
    Deadlines = {2, 3}
    MaxIndex = 2
    MaxPools = 2
    InitialBalance = 4
    Horizon = 3
    AgentIds = {g1}
    NoAddress = NoAddress
    ServiceKeys = {k1}
    Manifests = {m1}
    Statuses = {"Delisted"}
    Outcomes = {}
    MaxListings = 1
    MaxVersions = 1
    RequestHashes = {h1, h2}
    Recorded = {h1}
    MaxEvaluations = 2
    Expiries = {3}
    ArenaReaders = {r1, r2}
INVARIANTS
    VaultSolvency
    HonestRootPaysEveryone
    VerdictOnTimelyEvidence
    VerdictIsTheChains
PROPERTIES
    RemainderReturned
    OpenEvaluationsEnd
    RowsCatchUp
CHECK_DEADLOCK FALSE
