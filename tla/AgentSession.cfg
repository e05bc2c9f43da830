SPECIFICATION FairSpec
CONSTANTS
    None = None
    PollRoute = TRUE
    MaxPairs = 5
    MaxCrashes = 3
INVARIANT TokensInStep
INVARIANT LockedOutOnlyByMishap
PROPERTY Reconnects
