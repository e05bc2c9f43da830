SPECIFICATION FairSpec
CONSTANTS
    None = None
    PollRoute = FALSE
    MaxPairs = 5
    MaxCrashes = 3
PROPERTY Reconnects
