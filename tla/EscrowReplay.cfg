\* Two calls that both read the intent before either marks it.
SPECIFICATION MCSpec
CONSTANTS
    a = a
    b = b
    i1 = i1
    Requests = {r1, r2}
    MaxKeys = 2
    Recipients = {a, b}
    SpendAmounts = {1, 2}
    Policies <- MCPolicies
    Days = 2
    EscrowIntents = {i1}
    EscrowRequests = {q1, q2}
    terms <- MCTerms
    PoolIds = {"pool"}
    poolBinding <- MCPoolBinding
    MaxPool = 2
    MaxWrites = 3
PROPERTIES
    UnknownIsNotReplayed
CHECK_DEADLOCK FALSE
