\* Execution: two calls of each kind, two idempotency keys, two days; one intent whose pool
\* the controller also uses for itself.  Index: one listing of two versions, three events, one
\* lost transaction.
SPECIFICATION BackendSpec
CONSTANTS
    a = a
    b = b
    i1 = i1
    Requests = {r1, r2}
    MaxKeys = 2
    Recipients = {a, b}
    SpendAmounts = {1, 2}
    Policies <- MCPolicies
    Days = 2
    EscrowIntents = {i1}
    EscrowRequests = {q1, q2}
    terms <- MCTerms
    PoolIds = {"pool"}
    poolBinding <- MCPoolBinding
    MaxPool = 2
    MaxWrites = 3
    alice = alice
    bob = bob
    m1 = m1
    m2 = m2
    AgentIds = {ag}
    Accounts = {alice, bob}
    NoAddress = NoAddress
    ServiceKeys = {k}
    Manifests = {m1, m2}
    Statuses = {"Suspended"}
    Outcomes = {"Verified"}
    MaxListings = 1
    MaxVersions = 2
    Writers = {w}
    Rails = {"X402"}
    MaxEvents = 3
    MaxFailures = 1
INVARIANTS
    CalledAtMostOnce
    ChargesWithinCap
    FailedIsUncharged
    OneCallHoldsTheMarker
    FundedOnceBeforePayout
    RecordMatchesChain
    EffectiveIsReviewed
    TablesMatchLog
PROPERTY IndexCatchesUp
CHECK_DEADLOCK FALSE
