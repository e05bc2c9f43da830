SPECIFICATION FairSpec
CONSTANTS
    a = a
    b = b
    c = c
    n1 = n1
    n2 = n2
    g1 = g1
    g2 = g2
    Workers = {w1, w2}
    Jobs = {a, b}
    Nodes = {n1, n2}
    Groups = {g1}
    None = None
    QueueCap = 1
    SemCap = 1
    MinLeft = 1
    MinDelay = 1
    MaxNow = 2
    Flaky = {}
    MayStop = TRUE
    LateCalls = TRUE
    NodeOf <- MCNodeOfApart
    GroupOf <- MCGroupOf
    WinStart <- MCWinStart
    WinEnd <- MCWinEnd
PROPERTY WorkersExit
PROPERTY JobsFinish
CHECK_DEADLOCK FALSE
