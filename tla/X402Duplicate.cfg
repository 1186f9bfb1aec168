\* Two settle requests that read the receipt before either marked it.
SPECIFICATION FairSpec
CONSTANTS
    Calls = {c1, c2}
    Recons = {r1}
    DeliveryIds = {d1}
    RefKinds = {"uuid"}
    Crashable = {}
INVARIANTS
    SentAtMostOnce
CHECK_DEADLOCK FALSE
