SPECIFICATION Spec
CONSTANTS
    Cmds = {c1, c2}
    Torn = Torn
    None = None
    Lifetime = 1
    Releases <- MCReleases
    MaxNow = 2
    MaxCrashes = 1
SYMMETRY Symmetry
INVARIANT ReplaysRejected
INVARIANT StateShowsJob
INVARIANT NoPhantom
INVARIANT ExeKept
INVARIANT BinaryOnDisk
INVARIANT WipedBeforeRemoved
INVARIANT OnlyAddressed
PROPERTY NeverDowngraded
CHECK_DEADLOCK FALSE
