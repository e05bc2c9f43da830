SPECIFICATION FairSpec
CONSTANTS
    Nodes = {m1, m2}
    Nonces = {n1, n2}
    Tokens = {k1, k2}
    Reqs = {r1, r2}
    None = None
    SignatureWindow = 1
    LoginWindow = 1
    NonceRetention = 1
    RefreshLife = 2
    MaxStall = 0
    MaxTx = 0
    DbSkew = 1
    MaxNow = 1
INVARIANT NoCircularWait
PROPERTY RequestsComplete
