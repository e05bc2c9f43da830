SPECIFICATION Spec
CONSTANTS
    a = a
    b = b
    c = c
    n1 = n1
    n2 = n2
    g1 = g1
    g2 = g2
    Workers = {w1, w2}
    Jobs = {a, b, c}
    Nodes = {n1, n2}
    Groups = {g1, g2}
    None = None
    QueueCap = 2
    SemCap = 1
    MinLeft = 1
    MinDelay = 1
    MaxNow = 2
    Flaky = {n2}
    MayStop = TRUE
    LateCalls = TRUE
    NodeOf <- MCNodeOf
    GroupOf <- MCGroupOf
    WinStart <- MCWinStart
    WinEnd <- MCWinEnd
SYMMETRY Symmetry
INVARIANT ExclusiveStable
INVARIANT BusyMeansWorking
INVARIANT SlotsAccounted
INVARIANT JobNotLost
PROPERTY ContractImplemented
INVARIANT Drained
