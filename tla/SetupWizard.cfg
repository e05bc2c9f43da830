SPECIFICATION FairSpec
CONSTANTS
    MaxAttempts = 2
    MaxInFlight = 3
    MaxStarts = 3
INVARIANT NoOrphanTimer
INVARIANT PageTellsTruth
PROPERTY VerificationEnds
