\* One failure at most, and no withdrawal.
SPECIFICATION SettlementSpec
CONSTANTS
    Operators = {o1, o2}
    topN = 2
    Clicks = {}
    Scripts = {}
    MaxPending = 2
    MaxFaults = 1
PROPERTY ScoredContestsLeaveScoring
CHECK_DEADLOCK FALSE
