\* Two intents for the same terms, two versions of the listing, a fee that leaves 500; two
\* settle requests, one reconcile request and the provider's report, any process may die;
\* fee notices of three ticks over nine.
SPECIFICATION MCFairSpec
CONSTANTS
    JobIntents = {i1, i2}
    Tracked = {i1}
    JobTerms = {t1}
    Reconcilers = {r1, r2}
    MaxChainJobs = 2
    MaxListingVersion = 2
    EscrowFeeBps = 500
    FeeRates = {0, 500}
    Horizon = 9
    BPS = 10000
    MAX_PROTOCOL_FEE_BPS = 1000
    PROTOCOL_FEE_CHANGE_DELAY = 3
    FeeChoices = {0, 500, 1000, 1001}
    Calls = {c1, c2}
    Recons = {p1}
    DeliveryIds = {d1}
    RefKinds = {"tx", "uuid"}
    Crashable = {c1, c2, p1}
INVARIANTS
    QuoteHolds
    ReconciledIsProven
    FailedIsUnpaid
PROPERTIES
    StaleReadsDropped
    BoundToItsTerms
    UndisputedSettlementRecorded
    DeliveredIsReconciled
CHECK_DEADLOCK FALSE
