SPECIFICATION Spec
CONSTANTS
    Nodes = {m1}
    Nonces = {n1, n2}
    Tokens = {k1, k2, k3}
    Reqs = {r1, r2}
    None = None
    SignatureWindow = 2
    LoginWindow = 1
    NonceRetention = 2
    RefreshLife = 2
    MaxStall = 1
    MaxTx = 1
    DbSkew = 0
    MaxNow = 4
SYMMETRY Symmetry
INVARIANT NonceOnce
INVARIANT ClaimCoversTokens
INVARIANT RedeemedOnce
INVARIANT RevokedStaysRevoked
INVARIANT StoredUntilSpent
PROPERTY TokenStoreImplemented
PROPERTY OwnershipKept
