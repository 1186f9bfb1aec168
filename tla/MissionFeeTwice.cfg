\* Two withdraw requests at once and no failure.
SPECIFICATION SettlementSpec
CONSTANTS
    Operators = {o1, o2}
    topN = 2
    Clicks = {q1, q2}
    Scripts = {}
    MaxPending = 2
    MaxFaults = 0
INVARIANT FeeReturnedOnce
CHECK_DEADLOCK FALSE
