----------------------------- MODULE Enrollment -----------------------------
(***************************************************************************)
(* Enrollment, refresh-token rotation and revocation of the control plane: *)
(* the handlers of server/internal/api (HandleSetup, HandleAgentLogin,     *)
(* HandleAgentRefresh, HandleRevokeEnrollment) and the transactions they   *)
(* run in server/internal/db (withNodeLock, EnrollNode,                    *)
(* RotateRefreshToken, RevokeEnrollment, consumeNonce).                    *)
(*                                                                         *)
(* Requests run concurrently.  A request is validated by its handler, then *)
(* opens a transaction (fixing PostgreSQL's CURRENT_TIMESTAMP), waits for  *)
(* the node's advisory lock, executes its statements against the committed *)
(* rows, and commits.  Every wait can take time, any step can fail and     *)
(* roll back, and a committed answer can be lost on the way to the agent.  *)
(***************************************************************************)
EXTENDS Naturals

CONSTANTS
    Nodes,           \* node identities (mac_address)
    Nonces,          \* registration nonces the server hands out
    Tokens,          \* refresh tokens (a random jti makes every one distinct)
    Reqs,            \* request slots: how many requests may be in flight
    None,            \* "no such thing"
    SignatureWindow, \* ValidateRegistration accepts a grant this long (10 min)
    LoginWindow,     \* HandleAgentLogin accepts a grant this long (5 min)
    NonceRetention,  \* a redeemed nonce is remembered this long (10 min)
    RefreshLife,     \* RefreshTokenDuration (7 days)
    MaxStall,        \* longest life of a request, from validation to commit
    MaxTx,           \* longest life of a transaction, from BEGIN to COMMIT
    DbSkew,          \* how far the database clock is ahead of the server's
    MaxNow           \* bound: the clock stops here

ASSUME SetsAssumption ==
    None \notin Nodes \cup Nonces \cup Tokens \cup Reqs

ASSUME TimesAssumption ==
    /\ SignatureWindow \in Nat /\ LoginWindow \in Nat
    /\ NonceRetention \in Nat \ {0} /\ RefreshLife \in Nat \ {0}
    /\ MaxStall \in Nat /\ MaxTx \in Nat /\ DbSkew \in Nat /\ MaxNow \in Nat

\* No handler outlives a refresh token (minutes against seven days).
ASSUME LifeAssumption == MaxStall + DbSkew < RefreshLife

VARIABLES
    now,       \* the server's clock
    issued,    \* issued[n]: when nonce n was signed by HandleSetup, or None
    nonceRow,  \* registration_nonces: expires_at of n's row, 0 if no row
    nonceLock, \* the request whose open transaction wrote n's row, or None
    claim,     \* node_enrollments: expires_at of m's row, 0 if no row
    rows,      \* refresh_tokens: the stored tokens
    lock,      \* lock[m]: the request holding m's advisory lock, or None
    tok,       \* what is known of every token ever stored
    delivered, \* tokens that reached an agent
    revoked,   \* history: enrollments whose tokens were revoked
    req        \* the requests in flight

vars == <<now, issued, nonceRow, nonceLock, claim, rows, lock, tok,
          delivered, revoked, req>>

-----------------------------------------------------------------------------

\* A token belongs to a node and to the enrollment `root` that began its
\* chain; `nonce` is the grant it was enrolled with, `parent` the token that
\* was redeemed for it.
NoToken == [node |-> None, exp |-> 0, root |-> None,
            nonce |-> None, parent |-> None]

IdleReq == [pc |-> "idle", op |-> "none", node |-> None, nonce |-> None,
            old |-> None, new |-> None, at |-> 0, txnow |-> 0,
            del |-> {}, purge |-> {}]

InTx == {"begun", "locked", "written"}

DbNow == now + DbSkew

\* A token nobody has generated: neither stored before nor held by a request.
Unused(k) == tok[k] = NoToken /\ \A r \in Reqs : req[r].new # k

TokensOf(m) == {t \in rows : tok[t].node = m}

\* Enrollments of node m so far.
RootsOf(m) == {tok[t].root : t \in {u \in Tokens : tok[u].node = m}}

\* expires_at of the token a request generates: time.Now() plus seven days,
\* read by the handler before it opens the transaction.
ExpiresAt(r) == req[r].at + RefreshLife

Later(a, b) == IF a > b THEN a ELSE b

-----------------------------------------------------------------------------

Init ==
    /\ now = 0
    /\ issued = [n \in Nonces |-> None]
    /\ nonceRow = [n \in Nonces |-> 0]
    /\ nonceLock = [n \in Nonces |-> None]
    /\ claim = [m \in Nodes |-> 0]
    /\ rows = {}
    /\ lock = [m \in Nodes |-> None]
    /\ tok = [t \in Tokens |-> NoToken]
    /\ delivered = {}
    /\ revoked = {}
    /\ req = [r \in Reqs |-> IdleReq]

\* Time passes while requests wait, within the bounds on their life.
Tick ==
    /\ now < MaxNow
    /\ \A r \in Reqs : req[r].pc # "idle" => now < req[r].at + MaxStall
    /\ \A r \in Reqs : req[r].pc \in InTx => DbNow < req[r].txnow + MaxTx
    /\ now' = now + 1
    /\ UNCHANGED <<issued, nonceRow, nonceLock, claim, rows, lock, tok,
                   delivered, revoked, req>>

\* HandleSetup signs the current time with a fresh nonce.
HandleSetup(n) ==
    /\ issued[n] = None
    /\ issued' = [issued EXCEPT ![n] = now]
    /\ UNCHANGED <<now, nonceRow, nonceLock, claim, rows, lock, tok,
                   delivered, revoked, req>>

\* A handler accepted the request and generated the token pair it will store.
Accept(r, op, m, n, t, k) ==
    /\ req[r].pc = "idle"
    /\ req' = [req EXCEPT ![r] =
                 [IdleReq EXCEPT !.pc = "ready", !.op = op, !.node = m,
                                 !.nonce = n, !.old = t, !.new = k,
                                 !.at = now]]
    /\ UNCHANGED <<now, issued, nonceRow, nonceLock, claim, rows, lock, tok,
                   delivered, revoked>>

\* A grant with an authentic signature, at most ten minutes old.
ValidateRegistration(n) == issued[n] # None /\ now <= issued[n] + SignatureWindow

\* A grant is good for any node identity; the handler's own age check must
\* pass as well.
HandleAgentLogin(r, m, n, k) ==
    /\ ValidateRegistration(n)
    /\ now <= issued[n] + LoginWindow
    /\ Unused(k)
    /\ Accept(r, "login", m, n, None, k)

\* A refresh token is a signed JWT: every unexpired one that was delivered is
\* accepted here, whether or not it is still stored.
ValidateRefreshToken(t) == t \in delivered /\ now < tok[t].exp

HandleAgentRefresh(r, t, k) ==
    /\ ValidateRefreshToken(t)
    /\ Unused(k)
    /\ Accept(r, "refresh", tok[t].node, None, t, k)

HandleRevokeEnrollment(r, m) == Accept(r, "revoke", m, None, None, None)

\* DB.Begin: waits for a pooled connection, then fixes CURRENT_TIMESTAMP.
BeginTx(r) ==
    /\ req[r].pc = "ready"
    /\ req' = [req EXCEPT ![r] = [@ EXCEPT !.pc = "begun", !.txnow = DbNow]]
    /\ UNCHANGED <<now, issued, nonceRow, nonceLock, claim, rows, lock, tok,
                   delivered, revoked>>

\* Mutant: the advisory lock is taken without waiting for its holder.
LockNodeShared(r) ==
    /\ req[r].pc = "begun"
    /\ lock' = [lock EXCEPT ![req[r].node] = r]
    /\ req' = [req EXCEPT ![r] = [@ EXCEPT !.pc = "locked"]]
    /\ UNCHANGED <<now, issued, nonceRow, nonceLock, claim, rows, tok,
                   delivered, revoked>>

\* pg_advisory_xact_lock: granted once no other transaction holds the node.
LockNode(r) ==
    /\ req[r].pc = "begun"
    /\ lock[req[r].node] = None
    /\ lock' = [lock EXCEPT ![req[r].node] = r]
    /\ req' = [req EXCEPT ![r] = [@ EXCEPT !.pc = "locked"]]
    /\ UNCHANGED <<now, issued, nonceRow, nonceLock, claim, rows, tok,
                   delivered, revoked>>

-----------------------------------------------------------------------------
(* The statements of a transaction: they read committed rows and buffer    *)
(* their writes in the request until Commit.                               *)

\* Mutant: the rows of redeemed and purged nonces stay locked.
ReleaseKeepingRows(r) ==
    /\ lock' = [m \in Nodes |-> IF lock[m] = r THEN None ELSE lock[m]]
    /\ req' = [req EXCEPT ![r] = IdleReq]
    /\ UNCHANGED nonceLock

\* The request is finished and its locks are gone.
Release(r) ==
    /\ lock' = [m \in Nodes |-> IF lock[m] = r THEN None ELSE lock[m]]
    /\ nonceLock' = [n \in Nonces |->
                       IF nonceLock[n] = r THEN None ELSE nonceLock[n]]
    /\ req' = [req EXCEPT ![r] = IdleReq]

\* Mutant: EnrollNode does not look at the claim.
EnrolledIgnored(r) == FALSE

Enrolled(r) == claim[req[r].node] > req[r].txnow

\* Mutant: the purge also drops a nonce at the instant it expires.
ExpiredEarly(r) ==
    {n \in Nonces : nonceRow[n] # 0 /\ nonceRow[n] <= req[r].txnow}

\* DELETE FROM registration_nonces WHERE expires_at < CURRENT_TIMESTAMP
Expired(r) == {n \in Nonces : nonceRow[n] # 0 /\ nonceRow[n] < req[r].txnow}

\* consumeNonce must wait for transactions that wrote the rows it touches.
NonceReady(r) == \A n \in Expired(r) \cup {req[r].nonce} : nonceLock[n] = None

\* INSERT ... ON CONFLICT DO NOTHING affects a row.
Fresh(r) == nonceRow[req[r].nonce] = 0 \/ req[r].nonce \in Expired(r)

\* EnrollNode, on a node without a current claim and with a fresh nonce.
EnrollNode(r) ==
    /\ req[r].pc = "locked" /\ req[r].op = "login"
    /\ ~Enrolled(r)
    /\ NonceReady(r) /\ Fresh(r)
    /\ nonceLock' = [n \in Nonces |->
                       IF n \in Expired(r) \cup {req[r].nonce} THEN r
                       ELSE nonceLock[n]]
    /\ req' = [req EXCEPT ![r] =
                 [@ EXCEPT !.pc = "written", !.purge = Expired(r)]]
    /\ UNCHANGED <<now, issued, nonceRow, claim, rows, lock, tok, delivered,
                   revoked>>

\* ErrAlreadyEnrolled and ErrNonceUsed roll the transaction back.
EnrollRefused(r) ==
    /\ req[r].pc = "locked" /\ req[r].op = "login"
    /\ Enrolled(r) \/ (NonceReady(r) /\ ~Fresh(r))
    /\ Release(r)
    /\ UNCHANGED <<now, issued, nonceRow, claim, rows, tok, delivered,
                   revoked>>

\* RotateRefreshToken: redeem the old token if it is stored and unexpired,
\* otherwise treat the request as reuse and delete every token of the node.
Redeemable(r) ==
    /\ req[r].old \in rows
    /\ tok[req[r].old].exp > req[r].txnow

\* Mutant: the redeemed token is looked up but not deleted.
RotateKeepingOld(r) ==
    /\ req[r].pc = "locked" /\ req[r].op = "refresh"
    /\ req' = [req EXCEPT ![r] =
                 IF Redeemable(r)
                 THEN [@ EXCEPT !.pc = "written"]
                 ELSE [@ EXCEPT !.pc = "written", !.new = None,
                                !.del = TokensOf(req[r].node)]]
    /\ UNCHANGED <<now, issued, nonceRow, nonceLock, claim, rows, lock, tok,
                   delivered, revoked>>

\* Mutant: a rotation clears every token of the node, not just the old one.
RotateClearingNode(r) ==
    /\ req[r].pc = "locked" /\ req[r].op = "refresh"
    /\ req' = [req EXCEPT ![r] =
                 [@ EXCEPT !.pc = "written", !.del = TokensOf(req[r].node),
                           !.new = IF Redeemable(r) THEN @ ELSE None]]
    /\ UNCHANGED <<now, issued, nonceRow, nonceLock, claim, rows, lock, tok,
                   delivered, revoked>>

RotateRefreshToken(r) ==
    /\ req[r].pc = "locked" /\ req[r].op = "refresh"
    /\ req' = [req EXCEPT ![r] =
                 IF Redeemable(r)
                 THEN [@ EXCEPT !.pc = "written", !.del = {req[r].old}]
                 ELSE [@ EXCEPT !.pc = "written", !.new = None,
                                !.del = TokensOf(req[r].node)]]
    /\ UNCHANGED <<now, issued, nonceRow, nonceLock, claim, rows, lock, tok,
                   delivered, revoked>>

RevokeEnrollment(r) ==
    /\ req[r].pc = "locked" /\ req[r].op = "revoke"
    /\ req' = [req EXCEPT ![r] =
                 [@ EXCEPT !.pc = "written", !.del = TokensOf(req[r].node)]]
    /\ UNCHANGED <<now, issued, nonceRow, nonceLock, claim, rows, lock, tok,
                   delivered, revoked>>

-----------------------------------------------------------------------------
(* The end of a transaction.                                               *)

\* Mutant: a rotation leaves the claim as it is.
ClaimNotExtended(r) ==
    CASE req[r].op = "revoke" -> 0
      [] req[r].op = "login" -> ExpiresAt(r)
      [] OTHER -> claim[req[r].node]

\* The claim a transaction leaves: an enrollment replaces it, a rotation
\* extends it (GREATEST), a revocation deletes it.
ClaimAfter(r) ==
    CASE req[r].op = "revoke" -> 0
      [] req[r].op = "login" -> ExpiresAt(r)
      [] req[r].op = "refresh" /\ req[r].new # None ->
            Later(claim[req[r].node], ExpiresAt(r))
      [] OTHER -> claim[req[r].node]

\* The first token of an enrollment starts a chain, a rotated one extends
\* the chain of the token it replaces.
NewToken(r) ==
    [node |-> req[r].node, exp |-> ExpiresAt(r),
     root |-> IF req[r].op = "login" THEN req[r].new
              ELSE tok[req[r].old].root,
     nonce |-> req[r].nonce, parent |-> req[r].old]

\* COMMIT.  got: whether the answer with the new token reaches the agent; it
\* does not if the commit's own acknowledgement or the response is lost.
Commit(r, got) ==
    /\ req[r].pc = "written"
    /\ claim' = [claim EXCEPT ![req[r].node] = ClaimAfter(r)]
    /\ nonceRow' = [n \in Nonces |->
                      CASE n = req[r].nonce -> issued[n] + NonceRetention
                        [] n # req[r].nonce /\ n \in req[r].purge -> 0
                        [] OTHER -> nonceRow[n]]
    /\ IF req[r].new = None
       THEN /\ rows' = rows \ req[r].del
            /\ revoked' = revoked \cup RootsOf(req[r].node)
            /\ UNCHANGED <<tok, delivered>>
       ELSE /\ rows' = (rows \ req[r].del) \cup {req[r].new}
            /\ tok' = [tok EXCEPT ![req[r].new] = NewToken(r)]
            /\ delivered' = IF got THEN delivered \cup {req[r].new}
                            ELSE delivered
            /\ UNCHANGED revoked
    /\ Release(r)
    /\ UNCHANGED <<now, issued>>

\* Mutant: the transaction is abandoned without a rollback.
RollbackForgotten(r) ==
    /\ req[r].pc # "idle"
    /\ req' = [req EXCEPT ![r] = IdleReq]
    /\ UNCHANGED <<now, issued, nonceRow, nonceLock, claim, rows, lock, tok,
                   delivered, revoked>>

\* A failed statement, a deadlock abort, or the death of the server process:
\* the transaction is rolled back.
Rollback(r) ==
    /\ req[r].pc # "idle"
    /\ Release(r)
    /\ UNCHANGED <<now, issued, nonceRow, claim, rows, tok, delivered,
                   revoked>>

Step(r) ==
    \/ BeginTx(r)
    \/ LockNode(r)
    \/ EnrollNode(r)
    \/ EnrollRefused(r)
    \/ RotateRefreshToken(r)
    \/ RevokeEnrollment(r)
    \/ \E got \in BOOLEAN : Commit(r, got)

Next ==
    \/ Tick
    \/ \E n \in Nonces : HandleSetup(n)
    \/ \E r \in Reqs :
         \/ \E m \in Nodes, n \in Nonces, k \in Tokens :
               HandleAgentLogin(r, m, n, k)
         \/ \E t \in Tokens, k \in Tokens : HandleAgentRefresh(r, t, k)
         \/ \E m \in Nodes : HandleRevokeEnrollment(r, m)
         \/ Step(r)
         \/ Rollback(r)

Spec == Init /\ [][Next]_vars

\* Every statement and COMMIT ends, connections and locks are granted in turn
\* (PostgreSQL queues the waiters of a lock), so a request that is enabled
\* again and again is not passed over forever.
FairSpec == Spec /\ \A r \in Reqs : SF_vars(Step(r))

-----------------------------------------------------------------------------
(* Properties.                                                             *)

TokenInfo ==
    [node : Nodes \cup {None}, exp : Nat, root : Tokens \cup {None},
     nonce : Nonces \cup {None}, parent : Tokens \cup {None}]

ReqInfo ==
    [pc : {"idle", "ready"} \cup InTx,
     op : {"none", "login", "refresh", "revoke"},
     node : Nodes \cup {None}, nonce : Nonces \cup {None},
     old : Tokens \cup {None}, new : Tokens \cup {None},
     at : Nat, txnow : Nat, del : SUBSET Tokens, purge : SUBSET Nonces]

\* A request in flight is for a node, and has the fields of its operation.
WellFormed(q) ==
    /\ q.pc = "idle" => q.op = "none" /\ q.new = None
    /\ q.pc # "idle" => q.node \in Nodes /\ q.op # "none"
    /\ q.op = "login" => q.nonce \in Nonces /\ q.old = None /\ q.new \in Tokens
    /\ q.op = "refresh" =>
         /\ q.nonce = None /\ q.old \in Tokens
         /\ q.new = None => q.pc = "written"
    /\ q.op = "revoke" => q.nonce = None /\ q.old = None /\ q.new = None

\* The tables, locks and requests have the shape the handlers rely on: a
\* request that passed validation names a valid node (validNodeID) and
\* carries exactly the material of its operation.
TypeOK ==
    /\ now \in Nat
    /\ issued \in [Nonces -> Nat \cup {None}]
    /\ nonceRow \in [Nonces -> Nat]
    /\ nonceLock \in [Nonces -> Reqs \cup {None}]
    /\ claim \in [Nodes -> Nat]
    /\ rows \in SUBSET Tokens
    /\ lock \in [Nodes -> Reqs \cup {None}]
    /\ tok \in [Tokens -> TokenInfo]
    /\ delivered \in SUBSET Tokens
    /\ revoked \in SUBSET Tokens
    /\ req \in [Reqs -> ReqInfo]
    /\ \A r \in Reqs : WellFormed(req[r])

\* "Keep the enrollment claimed for as long as the node holds a token"
\* (RotateRefreshToken): a stored refresh token never outlives the claim that
\* keeps others from enrolling its node, whatever enrollments, rotations and
\* revocations race.
ClaimCoversTokens ==
    \A t \in rows : tok[t].exp <= claim[tok[t].node]

\* A registration nonce enrolls at most one node, once (consumeNonce), even
\* though redeemed nonces are purged: a handler that passed the freshness
\* check before the purge must not redeem the nonce again after it.
NonceOnce ==
    \A s, t \in Tokens :
        tok[s].nonce # None /\ tok[s].nonce = tok[t].nonce => s = t

\* A refresh token is redeemed at most once: no two tokens were ever issued
\* in exchange for the same one (RotateRefreshToken under the node lock).
RedeemedOnce ==
    \A s, t \in Tokens :
        tok[s].parent # None /\ tok[s].parent = tok[t].parent => s = t

\* An enrollment has at most one stored refresh token at any time, so two
\* holders of its chain cannot both keep refreshing.
OneTokenPerEnrollment ==
    \A s, t \in rows : tok[s].root = tok[t].root => s = t

\* "a replacement issued by a concurrent request cannot survive the
\* revocation" (RotateRefreshToken): once the tokens of an enrollment were
\* revoked, for reuse or by an operator, none of its tokens is stored again.
RevokedStaysRevoked ==
    \A t \in rows : tok[t].root \notin revoked

\* "Tokens are never issued again for a claimed node ID" (README): all the
\* tokens a node could still refresh with belong to one enrollment.
SingleOwner ==
    \A s, t \in rows :
        /\ tok[s].node = tok[t].node
        /\ tok[s].exp > DbNow /\ tok[t].exp > DbNow
        => tok[s].root = tok[t].root

\* A token that is not stored was spent or withdrawn: RotateRefreshToken, which
\* takes every signed token without a row for a stolen one, only ever sees a
\* token that was redeemed before or belongs to a revoked enrollment.  No
\* interleaving, rollback or second enrollment makes it disown a token that
\* its holder could not have used.
StoredUntilSpent ==
    \A t \in Tokens : tok[t].node # None =>
        \/ t \in rows
        \/ \E s \in Tokens : tok[s].parent = t
        \/ tok[t].root \in revoked

\* Who owns a node: the enrollments it has a stored, unexpired token of.
Owner ==
    [m \in Nodes |->
       {tok[t].root : t \in {u \in TokensOf(m) : tok[u].exp > DbNow}}]

\* Enrollments so far: the tokens that began a chain.
Enrollments == {t \in Tokens : tok[t].root = t}

Owned == INSTANCE Ownership
         WITH Enrollments <- Tokens, owner <- Owner, past <- Enrollments

\* The COMMIT of a rotation whose token had not expired at BEGIN but has by
\* now: the enrollment it belongs to, which was not revoked, owns its node
\* again, next to whoever enrolled the node meanwhile.
LateRedemption(r) ==
    LET t == req[r].old IN
    /\ req[r].pc = "written" /\ req[r].op = "refresh"
    /\ req[r].txnow < tok[t].exp /\ tok[t].exp <= DbNow
    /\ tok[t].root \notin revoked
    /\ Owner' = [Owner EXCEPT ![req[r].node] = @ \cup {tok[t].root}]
    /\ UNCHANGED Enrollments

\* The handlers, the transactions and the clock keep to Ownership: between them
\* they hand a node over only through nobody (revocation or expiry, then a new
\* enrollment), and no retry, rotation or late COMMIT gives a node back to an
\* enrollment that lost it.  The one exception is a rotation that waited for
\* the node lock while its token expired (CURRENT_TIMESTAMP is that of BEGIN).
OwnershipKept ==
    /\ Owned!Init
    /\ [][Owned!Next \/ \E r \in Reqs : LateRedemption(r)]_(Owned!vars)

Store == INSTANCE TokenStore
         WITH Life <- RefreshLife, clock <- DbNow, stored <- rows,
              holder <- [t \in Tokens |-> tok[t].node],
              expiry <- [t \in Tokens |-> tok[t].exp]

\* withNodeLock makes every transaction one indivisible step of its node: what
\* EnrollNode, RotateRefreshToken and RevokeEnrollment read is still true when
\* their writes commit.  A rotation consumes a token that is still stored, a
\* revocation leaves no token that another request stored meanwhile, and a
\* node is enrolled again only after all its tokens expired, however long a
\* transaction takes and whatever it races with.
TokenStoreImplemented == Store!Spec

\* A lock is held only by a transaction that is still open and, for a node, is
\* about that node: COMMIT and ROLLBACK, the death of the server included,
\* leave no lock behind (withNodeLock).
LocksOwned ==
    /\ \A m \in Nodes : lock[m] # None =>
          req[lock[m]].pc \in {"locked", "written"} /\ req[lock[m]].node = m
    /\ \A n \in Nonces : nonceLock[n] # None =>
          req[nonceLock[n]].pc = "written"

\* Request r waits for another one: for the node's lock, or for the nonce rows
\* that an open transaction has written.
Waits(r) ==
    \/ req[r].pc = "begun" /\ lock[req[r].node] # None
    \/ /\ req[r].pc = "locked" /\ req[r].op = "login"
       /\ ~Enrolled(r) /\ ~NonceReady(r)

\* Node locks and nonce rows are not waited for in a circle: whoever waits,
\* some other transaction is free to go on, because a node's lock is taken
\* before the nonce rows and a transaction that wrote those only has to commit.
NoCircularWait ==
    \A r \in Reqs : Waits(r) =>
        \E s \in Reqs \ {r} : req[s].pc \in InTx /\ ~Waits(s)

\* Every request ends: no cycle of node locks and nonce rows, and no lock
\* left behind by a rolled back transaction, keeps one waiting forever.
RequestsComplete ==
    \A r \in Reqs : req[r].pc # "idle" ~> req[r].pc = "idle"
=============================================================================
