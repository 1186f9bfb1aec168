\* The smallest instance: one listing, its second version, nothing lost.
SPECIFICATION MCIndexSpec
CONSTANTS
    alice = alice
    bob = bob
    m1 = m1
    m2 = m2
    AgentIds = {ag}
    Accounts = {alice, bob}
    NoAddress = NoAddress
    ServiceKeys = {k}
    Manifests = {m1, m2}
    Statuses = {}
    Outcomes = {}
    MaxListings = 1
    MaxVersions = 2
    Writers = {w}
    Rails = {"X402"}
    MaxEvents = 2
    MaxFailures = 0
PROPERTY MismatchesDoNotStop
CHECK_DEADLOCK FALSE
