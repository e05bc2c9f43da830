SPECIFICATION FairSpec
CONSTANTS
    Conns = {c1, c2}
    Nodes = {m1, m2}
    None = None
INVARIANT IdentityBound
INVARIANT RegisteredIsLive
INVARIANT OneOpenConnection
INVARIANT DbMatchesRegistry
PROPERTY CleanupSparesSuccessor
PROPERTY GoneIsCleanedUp
