\* Twelve analysts with profits of 10 or 1, the first raised to 10.5 by the
\* rank of their syndicate.
SPECIFICATION PayoutSpec
CONSTANTS
    MaxField = 12
    Scores = {100, 1050}
    Traded = {TRUE}
    Claimables = {10000}
    CustomBps = {}
INVARIANT ClaimsFitPool
CHECK_DEADLOCK FALSE
