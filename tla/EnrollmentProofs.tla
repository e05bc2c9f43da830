-------------------------- MODULE EnrollmentProofs --------------------------
(***************************************************************************)
(* Proofs about Enrollment, for every number of nodes, nonces, tokens and  *)
(* concurrent requests and every choice of the time limits.                *)
(*                                                                         *)
(* IInv is the inductive invariant.  Its parts say what the open           *)
(* transactions know (ReqInv, WriteInv), what the stored chains of tokens  *)
(* look like (TokInv), and the properties themselves.                      *)
(***************************************************************************)
EXTENDS Enrollment, TLAPS

\* What holds of a request from its validation on.
Validated(r) ==
    /\ req[r].at <= now /\ now <= req[r].at + MaxStall
    /\ req[r].pc \in InTx => req[r].txnow <= DbNow
    /\ req[r].pc \in {"locked", "written"} => lock[req[r].node] = r
    /\ req[r].op = "login" =>
         /\ issued[req[r].nonce] # None
         /\ req[r].at <= issued[req[r].nonce] + LoginWindow
    /\ req[r].op = "refresh" => tok[req[r].old].node = req[r].node
    /\ req[r].new # None => tok[req[r].new] = NoToken
    /\ req[r].pc # "written" => req[r].del = {} /\ req[r].purge = {}

ReqInv == \A r \in Reqs : req[r].pc # "idle" => Validated(r)

\* Two requests never hold the same generated token.
NewInv ==
    \A r, s \in Reqs : req[r].new # None /\ req[r].new = req[s].new => r = s

\* What a transaction that executed its statements may rely on at COMMIT.
Buffered(r) ==
    /\ \A n \in req[r].purge :
          /\ nonceLock[n] = r
          /\ nonceRow[n] # 0 /\ nonceRow[n] < req[r].txnow
    /\ req[r].op = "login" =>
         /\ nonceLock[req[r].nonce] = r
         /\ claim[req[r].node] <= req[r].txnow
         /\ req[r].del = {}
    /\ req[r].op = "refresh" /\ req[r].new # None =>
         /\ req[r].old \in rows /\ req[r].del = {req[r].old}
         /\ tok[req[r].old].exp > req[r].txnow
    /\ req[r].new = None => TokensOf(req[r].node) = req[r].del

WriteInv == \A r \in Reqs : req[r].pc = "written" => Buffered(r)

\* Stored and delivered tokens were issued; a chain belongs to one node.
TokInv ==
    /\ \A t \in rows \cup delivered \cup revoked : tok[t].node # None
    /\ \A t \in Tokens : tok[t].node = None => tok[t] = NoToken
    /\ \A t \in Tokens : tok[t].node # None =>
          /\ tok[t].root \in Tokens
          /\ tok[tok[t].root].node = tok[t].node
    /\ \A t \in Tokens : tok[t].parent # None =>
          tok[tok[t].parent].node # None

\* A stored token has not been redeemed.
RowsUnredeemed == \A t \in rows, s \in Tokens : tok[s].parent # t

IInv ==
    /\ TypeOK
    /\ ReqInv
    /\ NewInv
    /\ WriteInv
    /\ TokInv
    /\ RowsUnredeemed
    /\ ClaimCoversTokens
    /\ RedeemedOnce
    /\ OneTokenPerEnrollment
    /\ RevokedStaysRevoked

\* A redeemed nonce is still recorded, or too old to pass the login window
\* of any request in flight; and a transaction about to redeem a nonce is
\* the first to do so.
NonceInv ==
    /\ \A t \in Tokens : tok[t].nonce # None =>
          /\ issued[tok[t].nonce] # None
          /\ \/ nonceRow[tok[t].nonce] = issued[tok[t].nonce] + NonceRetention
             \/ issued[tok[t].nonce] + NonceRetention < DbNow
    /\ \A r \in Reqs : req[r].pc = "written" /\ req[r].op = "login" =>
          \A t \in Tokens : tok[t].nonce # req[r].nonce

-----------------------------------------------------------------------------

\* The record updates of the transaction steps keep a request well typed.
LEMMA ReqUpdates ==
  ASSUME NEW q \in ReqInfo, NEW p \in {"idle", "ready"} \cup InTx,
         NEW x \in Nat, NEW d \in SUBSET Tokens
  PROVE  /\ [q EXCEPT !.pc = p, !.txnow = x] \in ReqInfo
         /\ [q EXCEPT !.pc = p, !.new = None, !.del = d] \in ReqInfo
  <1>1. [q EXCEPT !.pc = p, !.txnow = x] \in ReqInfo
    BY DEF ReqInfo
  <1>2. [q EXCEPT !.pc = p, !.new = None, !.del = d] \in ReqInfo
    BY DEF ReqInfo
  <1> QED
    BY <1>1, <1>2

\* The initial state satisfies the invariant.
LEMMA InitInv == Init => IInv
  BY SetsAssumption, TimesAssumption
  DEF Init, IInv, TypeOK, WellFormed, TokenInfo, ReqInfo, InTx, IdleReq,
      NoToken, ReqInv, Validated, NewInv, WriteInv, TokInv, RowsUnredeemed,
      ClaimCoversTokens, RedeemedOnce, OneTokenPerEnrollment,
      RevokedStaysRevoked

\* Time passes only within the bounds on the requests in flight.
LEMMA TickInv == IInv /\ Tick => IInv'
  <1> SUFFICES ASSUME IInv, Tick PROVE IInv'
    OBVIOUS
  <1> USE DEF IInv, Tick
  <1>1. TypeOK'
    BY DEF TypeOK
  <1>2. ReqInv'
    BY TimesAssumption DEF ReqInv, Validated, TypeOK, ReqInfo, DbNow
  <1>3. NewInv' /\ WriteInv' /\ TokInv' /\ RowsUnredeemed'
    BY DEF NewInv, WriteInv, TokInv, RowsUnredeemed, Buffered, TokensOf
  <1>4. ClaimCoversTokens' /\ RedeemedOnce' /\ OneTokenPerEnrollment'
        /\ RevokedStaysRevoked'
    BY DEF ClaimCoversTokens, RedeemedOnce, OneTokenPerEnrollment,
           RevokedStaysRevoked
  <1> QED
    BY <1>1, <1>2, <1>3, <1>4

\* Issuing a grant touches no request that already holds one.
LEMMA SetupInv ==
  ASSUME IInv, NEW n \in Nonces, HandleSetup(n) PROVE IInv'
  <1> USE DEF IInv, HandleSetup
  <1>1. TypeOK'
    BY DEF TypeOK
  <1>2. ReqInv'
    BY DEF ReqInv, Validated, TypeOK, WellFormed, DbNow
  <1>3. NewInv' /\ WriteInv' /\ TokInv' /\ RowsUnredeemed'
    BY DEF NewInv, WriteInv, TokInv, RowsUnredeemed, Buffered, TokensOf
  <1>4. ClaimCoversTokens' /\ RedeemedOnce' /\ OneTokenPerEnrollment'
        /\ RevokedStaysRevoked'
    BY DEF ClaimCoversTokens, RedeemedOnce, OneTokenPerEnrollment,
           RevokedStaysRevoked
  <1> QED
    BY <1>1, <1>2, <1>3, <1>4

\* The properties of the tables survive a step that leaves the tables alone.
LEMMA TablesUnchanged ==
  ASSUME IInv, UNCHANGED <<claim, rows, tok, delivered, revoked>>
  PROVE  /\ TokInv' /\ RowsUnredeemed' /\ ClaimCoversTokens'
         /\ RedeemedOnce' /\ OneTokenPerEnrollment' /\ RevokedStaysRevoked'
  BY DEF IInv, TokInv, RowsUnredeemed, ClaimCoversTokens, RedeemedOnce,
         OneTokenPerEnrollment, RevokedStaysRevoked

\* A validated request starts with what its handler has checked.
LEMMA AcceptInv ==
  ASSUME IInv, NEW r \in Reqs, NEW op \in {"login", "refresh", "revoke"},
         NEW m \in Nodes, NEW n \in Nonces \cup {None},
         NEW t \in Tokens \cup {None}, NEW k \in Tokens \cup {None},
         op = "login" => /\ n \in Nonces /\ t = None /\ k \in Tokens
                         /\ issued[n] # None
                         /\ now <= issued[n] + LoginWindow,
         op = "refresh" => /\ n = None /\ t \in Tokens /\ k \in Tokens
                           /\ tok[t].node = m,
         op = "revoke" => n = None /\ t = None /\ k = None,
         k # None => Unused(k),
         Accept(r, op, m, n, t, k)
  PROVE  IInv'
  <1> USE DEF IInv, Accept
  <1>1. TypeOK'
    <2>1. req' \in [Reqs -> ReqInfo]
      BY SetsAssumption DEF TypeOK, ReqInfo, IdleReq, InTx
    <2>2. \A s \in Reqs : WellFormed(req[s])'
      BY SetsAssumption DEF TypeOK, WellFormed, ReqInfo, IdleReq, InTx
    <2> QED
      BY <2>1, <2>2, SetsAssumption DEF TypeOK, ReqInfo, IdleReq, InTx
  <1>2. ReqInv'
    BY TimesAssumption, SetsAssumption
    DEF ReqInv, Validated, TypeOK, WellFormed, ReqInfo, IdleReq, InTx, DbNow, Unused
  <1>3. NewInv'
    BY DEF NewInv, TypeOK, ReqInfo, IdleReq, Unused
  <1>4. WriteInv'
    BY DEF WriteInv, TypeOK, ReqInfo, IdleReq, Buffered, TokensOf
  <1> QED
    BY <1>1, <1>2, <1>3, <1>4, TablesUnchanged

LEMMA LoginInv ==
  ASSUME IInv, NEW r \in Reqs, NEW m \in Nodes, NEW n \in Nonces,
         NEW k \in Tokens, HandleAgentLogin(r, m, n, k)
  PROVE  IInv'
  BY AcceptInv DEF HandleAgentLogin, ValidateRegistration

LEMMA RefreshInv ==
  ASSUME IInv, NEW r \in Reqs, NEW t \in Tokens, NEW k \in Tokens,
         HandleAgentRefresh(r, t, k)
  PROVE  IInv'
  <1>1. tok[t].node \in Nodes
    BY DEF HandleAgentRefresh, ValidateRefreshToken, IInv, TokInv, TypeOK, TokenInfo
  <1> QED
    BY <1>1, AcceptInv DEF HandleAgentRefresh, ValidateRefreshToken

LEMMA RevokeInv ==
  ASSUME IInv, NEW r \in Reqs, NEW m \in Nodes, HandleRevokeEnrollment(r, m)
  PROVE  IInv'
  BY AcceptInv DEF HandleRevokeEnrollment

LEMMA BeginTxInv == ASSUME IInv, NEW r \in Reqs, BeginTx(r) PROVE IInv'
  <1> USE DEF IInv, BeginTx
  <1>1. TypeOK'
    <2>1. req' \in [Reqs -> ReqInfo]
      <3>1. [req[r] EXCEPT !.pc = "begun", !.txnow = DbNow] \in ReqInfo
        <4>1. DbNow \in Nat
          BY TimesAssumption DEF TypeOK, DbNow
        <4> QED
          BY <4>1, ReqUpdates DEF TypeOK, InTx
      <3> QED
        BY <3>1 DEF TypeOK
    <2>2. \A s \in Reqs : WellFormed(req[s])'
      BY TimesAssumption DEF TypeOK, WellFormed, ReqInfo, IdleReq, InTx, DbNow
    <2> QED
      BY <2>1, <2>2, TimesAssumption DEF TypeOK, ReqInfo, IdleReq, InTx, DbNow
  <1>2. ReqInv'
    BY TimesAssumption DEF ReqInv, Validated, TypeOK, WellFormed, ReqInfo, InTx, DbNow
  <1>3. NewInv'
    BY DEF NewInv, TypeOK, ReqInfo
  <1>4. WriteInv'
    BY DEF WriteInv, TypeOK, ReqInfo, Buffered, TokensOf
  <1> QED
    BY <1>1, <1>2, <1>3, <1>4, TablesUnchanged

\* The lock was free, so no other transaction loses it.
LEMMA LockNodeInv == ASSUME IInv, NEW r \in Reqs, LockNode(r) PROVE IInv'
  <1> USE DEF IInv, LockNode
  <1>1. TypeOK'
    <2>1. req' \in [Reqs -> ReqInfo]
      <3>1. [req[r] EXCEPT !.pc = "locked"] \in ReqInfo
        BY DEF TypeOK, ReqInfo, InTx
      <3> QED
        BY <3>1 DEF TypeOK
    <2>2. \A s \in Reqs : WellFormed(req[s])'
      BY DEF TypeOK, WellFormed, ReqInfo, IdleReq, InTx
    <2> QED
      BY <2>1, <2>2 DEF TypeOK, ReqInfo, IdleReq, InTx
  <1>2. ReqInv'
    BY SetsAssumption DEF ReqInv, Validated, TypeOK, WellFormed, ReqInfo, InTx, DbNow
  <1>3. NewInv'
    BY DEF NewInv, TypeOK, ReqInfo
  <1>4. WriteInv'
    BY DEF WriteInv, TypeOK, ReqInfo, Buffered, TokensOf
  <1> QED
    BY <1>1, <1>2, <1>3, <1>4, TablesUnchanged

\* The claim has expired and the rows of the nonces it writes are its own.
LEMMA EnrollNodeInv == ASSUME IInv, NEW r \in Reqs, EnrollNode(r) PROVE IInv'
  <1> USE DEF IInv, EnrollNode
  <1>1. TypeOK'
    <2>1. req' \in [Reqs -> ReqInfo]
      <3>1. [req[r] EXCEPT !.pc = "written", !.purge = Expired(r)] \in ReqInfo
        BY DEF TypeOK, ReqInfo, InTx, Expired
      <3> QED
        BY <3>1 DEF TypeOK
    <2>2. \A s \in Reqs : WellFormed(req[s])'
      BY DEF TypeOK, WellFormed, ReqInfo, IdleReq, InTx, Expired
    <2> QED
      BY <2>1, <2>2 DEF TypeOK, ReqInfo, IdleReq, InTx, Expired
  <1>2. ReqInv'
    BY DEF ReqInv, Validated, TypeOK, WellFormed, ReqInfo, InTx, DbNow
  <1>3. NewInv'
    BY DEF NewInv, TypeOK, ReqInfo
  <1>4. WriteInv'
    <2> SUFFICES ASSUME NEW s \in Reqs, (req[s].pc = "written")'
                 PROVE  Buffered(s)'
      BY DEF WriteInv
    <2>1. CASE s = r
      <3>1. /\ req'[r].purge = Expired(r) /\ req'[r].txnow = req[r].txnow
            /\ req'[r].op = "login" /\ req'[r].nonce = req[r].nonce
            /\ req'[r].node = req[r].node /\ req'[r].del = {}
            /\ req'[r].new # None
        BY SetsAssumption DEF TypeOK, WellFormed, ReqInfo, ReqInv, Validated
      <3>2. \A n \in Expired(r) :
               /\ nonceLock'[n] = r
               /\ nonceRow'[n] # 0 /\ nonceRow'[n] < req'[r].txnow
        BY <3>1 DEF Expired
      <3>3. nonceLock'[req[r].nonce] = r /\ claim'[req[r].node] <= req[r].txnow
        BY DEF TypeOK, WellFormed, Enrolled, ReqInfo
      <3> QED
        BY <2>1, <3>1, <3>2, <3>3 DEF Buffered
    <2>2. CASE s # r
      BY <2>2, SetsAssumption
      DEF WriteInv, TypeOK, WellFormed, ReqInfo, Buffered, TokensOf, Expired, NonceReady,
        Enrolled
    <2> QED
      BY <2>1, <2>2
  <1> QED
    BY <1>1, <1>2, <1>3, <1>4, TablesUnchanged

LEMMA RotateInv ==
  ASSUME IInv, NEW r \in Reqs, RotateRefreshToken(r) PROVE IInv'
  <1> USE DEF IInv, RotateRefreshToken
  <1>1. TypeOK'
    <2>1. req' \in [Reqs -> ReqInfo]
      <3>1. req[r].old \in Tokens /\ TokensOf(req[r].node) \in SUBSET Tokens
        BY DEF TypeOK, WellFormed, TokensOf
      <3>2. [req[r] EXCEPT !.pc = "written", !.del = {req[r].old}] \in ReqInfo
        BY <3>1 DEF TypeOK, ReqInfo, InTx
      <3>3. [req[r] EXCEPT !.pc = "written", !.new = None,
                           !.del = TokensOf(req[r].node)] \in ReqInfo
        BY <3>1, ReqUpdates DEF TypeOK, InTx
      <3> QED
        BY <3>2, <3>3 DEF TypeOK
    <2>2. \A s \in Reqs : WellFormed(req[s])'
      BY DEF TypeOK, WellFormed, ReqInfo, IdleReq, InTx, TokensOf
    <2> QED
      BY <2>1, <2>2 DEF TypeOK, ReqInfo, IdleReq, InTx, TokensOf
  <1>2. ReqInv'
    BY DEF ReqInv, Validated, TypeOK, WellFormed, ReqInfo, InTx, DbNow
  <1>3. NewInv'
    BY DEF NewInv, TypeOK, ReqInfo
  <1>4. WriteInv'
    <2> SUFFICES ASSUME NEW s \in Reqs, (req[s].pc = "written")'
                 PROVE  Buffered(s)'
      BY DEF WriteInv
    <2>1. CASE s = r
      <3>1. /\ req'[r].op = "refresh" /\ req'[r].node = req[r].node
            /\ req'[r].purge = {} /\ req'[r].old = req[r].old
            /\ req'[r].txnow = req[r].txnow
        BY DEF TypeOK, ReqInfo, ReqInv, Validated
      <3>2. CASE Redeemable(r)
        <4>1. /\ req'[r].new = req[r].new /\ req'[r].del = {req[r].old}
              /\ req[r].new # None
          BY <3>2, SetsAssumption DEF TypeOK, WellFormed, ReqInfo
        <4> QED
          BY <2>1, <3>1, <3>2, <4>1 DEF Buffered, Redeemable
      <3>3. CASE ~Redeemable(r)
        <4>1. req'[r].new = None /\ req'[r].del = TokensOf(req[r].node)
          BY <3>3 DEF TypeOK, ReqInfo
        <4> QED
          BY <2>1, <3>1, <4>1 DEF Buffered, TokensOf
      <3> QED
        BY <3>2, <3>3
    <2>2. CASE s # r
      BY <2>2, SetsAssumption
      DEF WriteInv, TypeOK, WellFormed, ReqInfo, Buffered, TokensOf, Redeemable
    <2> QED
      BY <2>1, <2>2
  <1> QED
    BY <1>1, <1>2, <1>3, <1>4, TablesUnchanged

LEMMA RevokeTxInv ==
  ASSUME IInv, NEW r \in Reqs, RevokeEnrollment(r) PROVE IInv'
  <1> USE DEF IInv, RevokeEnrollment
  <1>1. TypeOK'
    <2>1. req' \in [Reqs -> ReqInfo]
      <3>1. [req[r] EXCEPT !.pc = "written",
                          !.del = TokensOf(req[r].node)] \in ReqInfo
        BY DEF TypeOK, ReqInfo, InTx, TokensOf
      <3> QED
        BY <3>1 DEF TypeOK
    <2>2. \A s \in Reqs : WellFormed(req[s])'
      BY DEF TypeOK, WellFormed, ReqInfo, IdleReq, InTx, TokensOf
    <2> QED
      BY <2>1, <2>2 DEF TypeOK, ReqInfo, IdleReq, InTx, TokensOf
  <1>2. ReqInv'
    BY DEF ReqInv, Validated, TypeOK, WellFormed, ReqInfo, InTx, DbNow
  <1>3. NewInv'
    BY DEF NewInv, TypeOK, ReqInfo
  <1>4. WriteInv'
    <2> SUFFICES ASSUME NEW s \in Reqs, (req[s].pc = "written")'
                 PROVE  Buffered(s)'
      BY DEF WriteInv
    <2>1. CASE s = r
      <3>1. /\ req'[r].op = "revoke" /\ req'[r].node = req[r].node
            /\ req'[r].purge = {} /\ req'[r].del = TokensOf(req[r].node)
        BY DEF TypeOK, ReqInfo, ReqInv, Validated
      <3> QED
        BY <2>1, <3>1 DEF Buffered, TokensOf
    <2>2. CASE s # r
      BY <2>2, SetsAssumption
      DEF WriteInv, TypeOK, WellFormed, ReqInfo, Buffered, TokensOf
    <2> QED
      BY <2>1, <2>2
  <1> QED
    BY <1>1, <1>2, <1>3, <1>4, TablesUnchanged

\* Ending a request frees its own locks only.
LEMMA ReleaseInv ==
  ASSUME IInv, NEW r \in Reqs, Release(r),
         UNCHANGED <<now, issued, nonceRow, claim, rows, tok, delivered,
                     revoked>>
  PROVE  IInv'
  <1> USE DEF IInv, Release
  <1>1. TypeOK'
    <2>1. req' \in [Reqs -> ReqInfo]
      BY SetsAssumption DEF TypeOK, ReqInfo, IdleReq, InTx
    <2>2. \A s \in Reqs : WellFormed(req[s])'
      BY SetsAssumption DEF TypeOK, WellFormed, ReqInfo, IdleReq, InTx
    <2> QED
      BY <2>1, <2>2, SetsAssumption DEF TypeOK, ReqInfo, IdleReq, InTx
  <1>2. ReqInv'
    BY DEF ReqInv, Validated, TypeOK, WellFormed, ReqInfo, InTx, DbNow, IdleReq
  <1>3. NewInv'
    BY DEF NewInv, TypeOK, ReqInfo, IdleReq
  <1>4. WriteInv'
    BY SetsAssumption
    DEF WriteInv, TypeOK, WellFormed, ReqInfo, Buffered, TokensOf, IdleReq
  <1> QED
    BY <1>1, <1>2, <1>3, <1>4, TablesUnchanged

-----------------------------------------------------------------------------
(* COMMIT: the node lock means no other transaction of the node is between *)
(* its statements and its own COMMIT, so what was buffered is still true.  *)

\* What a committing transaction deletes are stored tokens of its own node.
LEMMA DeletesOwn ==
  ASSUME IInv, NEW r \in Reqs, req[r].pc = "written", NEW t \in req[r].del
  PROVE  t \in rows /\ tok[t].node = req[r].node
  BY DEF IInv, WriteInv, Buffered, ReqInv, Validated, TypeOK, WellFormed, ReqInfo,
         TokensOf

\* No other transaction holds the lock of the same node.
LEMMA OtherNode ==
  ASSUME IInv, NEW r \in Reqs, NEW s \in Reqs, s # r,
         req[r].pc = "written", req[s].pc \in {"locked", "written"}
  PROVE  req[s].node # req[r].node
  BY DEF IInv, ReqInv, Validated, TypeOK

\* The values a COMMIT writes are well typed.
LEMMA CommitValues ==
  ASSUME IInv, NEW r \in Reqs, req[r].pc = "written"
  PROVE  /\ req[r].node \in Nodes
         /\ ExpiresAt(r) \in Nat
         /\ ClaimAfter(r) \in Nat
         /\ req[r].nonce # None => issued[req[r].nonce] \in Nat
         /\ req[r].new # None =>
              /\ NewToken(r) \in TokenInfo
              /\ req[r].op = "login" \/
                   (req[r].op = "refresh" /\ req[r].old \in rows)
         /\ RootsOf(req[r].node) \in SUBSET Tokens
  <1> USE DEF IInv
  <1>1. req[r].node \in Nodes
    BY DEF TypeOK, WellFormed
  <1>2. ExpiresAt(r) \in Nat
    BY TimesAssumption DEF TypeOK, ReqInfo, ExpiresAt
  <1>3. ClaimAfter(r) \in Nat
    BY <1>1, <1>2 DEF ClaimAfter, Later, TypeOK
  <1>4. req[r].nonce # None => issued[req[r].nonce] \in Nat
    BY DEF TypeOK, WellFormed, ReqInfo, ReqInv, Validated
  <1>5. ASSUME req[r].new # None
        PROVE  /\ NewToken(r) \in TokenInfo
               /\ req[r].op = "login" \/
                    (req[r].op = "refresh" /\ req[r].old \in rows)
    <2>1. req[r].op = "login" \/
            (req[r].op = "refresh" /\ req[r].old \in rows)
      BY <1>5 DEF TypeOK, WellFormed, ReqInfo, WriteInv, Buffered
    <2>2. (IF req[r].op = "login" THEN req[r].new ELSE tok[req[r].old].root)
            \in Tokens
      BY <1>5, <2>1 DEF TypeOK, WellFormed, ReqInfo, TokInv
    <2>3. /\ req[r].nonce \in Nonces \cup {None}
          /\ req[r].old \in Tokens \cup {None}
      BY DEF TypeOK, ReqInfo
    <2> QED
      BY <1>1, <1>2, <2>1, <2>2, <2>3 DEF NewToken, TokenInfo
  <1>6. RootsOf(req[r].node) \in SUBSET Tokens
    BY <1>1, SetsAssumption DEF RootsOf, TokInv
  <1> QED
    BY <1>1, <1>2, <1>3, <1>4, <1>5, <1>6

\* What COMMIT means for the token table, the chain history and the claim.
LEMMA CommitEffect ==
  ASSUME IInv, NEW r \in Reqs, NEW got \in BOOLEAN, Commit(r, got)
  PROVE  /\ \A s \in Reqs : s # r => req'[s] = req[s]
         /\ req'[r] = IdleReq
         /\ req[r].new = None =>
              /\ rows' = rows \ TokensOf(req[r].node)
              /\ revoked' = revoked \cup RootsOf(req[r].node)
              /\ tok' = tok /\ delivered' = delivered
         /\ req[r].new # None =>
              /\ req[r].new \in Tokens /\ tok[req[r].new] = NoToken
              /\ rows' = (rows \ req[r].del) \cup {req[r].new}
              /\ tok'[req[r].new] = NewToken(r)
              /\ \A t \in Tokens : t # req[r].new => tok'[t] = tok[t]
              /\ delivered' \subseteq delivered \cup {req[r].new}
              /\ revoked' = revoked
         /\ \A m \in Nodes : claim'[m] =
              IF m = req[r].node THEN ClaimAfter(r) ELSE claim[m]
  <1> USE DEF IInv, Commit
  <1>1. \A s \in Reqs : req'[s] = IF s = r THEN IdleReq ELSE req[s]
    BY DEF Release, TypeOK
  <1>2. CASE req[r].new = None
    BY <1>1, <1>2 DEF TypeOK, WriteInv, Buffered
  <1>3. CASE req[r].new # None
    <2>1. req[r].new \in Tokens /\ tok[req[r].new] = NoToken
      BY <1>3 DEF TypeOK, ReqInfo, ReqInv, Validated
    <2> QED
      BY <1>1, <1>3, <2>1 DEF TypeOK
  <1> QED
    BY <1>2, <1>3

LEMMA CommitType ==
  ASSUME IInv, NEW r \in Reqs, NEW got \in BOOLEAN, Commit(r, got)
  PROVE  TypeOK'
  <1> USE DEF IInv, Commit
  <1>1. now' \in Nat /\ issued' \in [Nonces -> Nat \cup {None}]
    BY DEF TypeOK
  <1>2. nonceRow' \in [Nonces -> Nat]
    BY CommitValues, TimesAssumption, SetsAssumption DEF TypeOK
  <1>3. /\ nonceLock' \in [Nonces -> Reqs \cup {None}]
        /\ lock' \in [Nodes -> Reqs \cup {None}]
    BY DEF TypeOK, Release
  <1>4. claim' \in [Nodes -> Nat]
    BY CommitValues DEF TypeOK
  <1>5. /\ rows' \in SUBSET Tokens /\ delivered' \in SUBSET Tokens
        /\ revoked' \in SUBSET Tokens
    <2>1. /\ rows \in SUBSET Tokens /\ delivered \in SUBSET Tokens
          /\ revoked \in SUBSET Tokens
      BY DEF TypeOK
    <2>2. CASE req[r].new = None
      BY <2>1, <2>2, CommitValues
    <2>3. CASE req[r].new # None
      <3>1. /\ req[r].new \in Tokens
            /\ rows' = (rows \ req[r].del) \cup {req[r].new}
            /\ delivered' \subseteq delivered \cup {req[r].new}
            /\ revoked' = revoked
        BY <2>3, CommitEffect
      <3> HIDE DEF Commit
      <3> QED
        BY <2>1, <3>1
    <2> QED
      BY <2>2, <2>3
  <1>6. tok' \in [Tokens -> TokenInfo]
    BY CommitValues DEF TypeOK, ReqInfo
  <1>7. req' \in [Reqs -> ReqInfo]
    BY DEF Release, TypeOK, ReqInfo, IdleReq
  <1>8. \A s \in Reqs : WellFormed(req[s])'
    BY SetsAssumption DEF Release, TypeOK, WellFormed, IdleReq
  <1> QED
    BY <1>1, <1>2, <1>3, <1>4, <1>5, <1>6, <1>7, <1>8 DEF TypeOK

LEMMA CommitReqs ==
  ASSUME IInv, NEW r \in Reqs, NEW got \in BOOLEAN, Commit(r, got)
  PROVE  ReqInv' /\ NewInv'
  <1> USE DEF IInv
  <1>1. ReqInv'
    <2> SUFFICES ASSUME NEW s \in Reqs, req'[s].pc # "idle"
                 PROVE  Validated(s)'
      BY DEF ReqInv
    <2>1. s # r /\ req'[s] = req[s] /\ Validated(s)
      BY CommitEffect DEF IdleReq, ReqInv
    <2>2. req[s].pc \in {"locked", "written"} => lock'[req[s].node] = s
      BY <2>1 DEF Validated, Commit, Release, TypeOK, WellFormed
    <2>3. req[s].op = "refresh" => tok'[req[s].old] = tok[req[s].old]
      BY <2>1, CommitEffect, SetsAssumption
      DEF Validated, TypeOK, WellFormed, NoToken
    <2>4. req[s].new # None => tok'[req[s].new] = tok[req[s].new]
      BY <2>1, CommitEffect DEF TypeOK, ReqInfo, NewInv
    <2> QED
      BY <2>1, <2>2, <2>3, <2>4 DEF Validated, DbNow, Commit
  <1>2. NewInv'
    BY CommitEffect DEF NewInv, IdleReq
  <1> QED
    BY <1>1, <1>2
\* A transaction of another node finds its rows as its statements left them.
LEMMA CommitWrites ==
  ASSUME IInv, NEW r \in Reqs, NEW got \in BOOLEAN, Commit(r, got)
  PROVE  WriteInv'
  <1> USE DEF IInv
  <1> SUFFICES ASSUME NEW s \in Reqs, req'[s].pc = "written"
               PROVE  Buffered(s)'
    BY DEF WriteInv
  <1>1. req[r].pc = "written" /\ req[r].node \in Nodes
    BY CommitValues DEF Commit
  <1>2. s # r /\ req'[s] = req[s] /\ req[s].pc = "written"
    BY CommitEffect DEF IdleReq
  <1>3. Buffered(s) /\ Validated(s) /\ req[s].node \in Nodes
    BY <1>2 DEF WriteInv, ReqInv, TypeOK, WellFormed
  <1>4. req[s].node # req[r].node
    BY <1>1, <1>2, OtherNode
  <1>5. \A n \in Nonces : nonceLock[n] = s =>
           nonceLock'[n] = s /\ nonceRow'[n] = nonceRow[n]
    BY <1>1, <1>2, SetsAssumption
    DEF Commit, Release, WriteInv, Buffered, TypeOK, WellFormed, ReqInfo
  <1>6. claim'[req[s].node] = claim[req[s].node]
    BY <1>3, <1>4, CommitEffect
  <1>7. \A t \in Tokens : tok[t].node = req[s].node =>
           /\ tok'[t] = tok[t]
           /\ t \in rows' <=> t \in rows
    <2> SUFFICES ASSUME NEW t \in Tokens, tok[t].node = req[s].node
                 PROVE  tok'[t] = tok[t] /\ (t \in rows' <=> t \in rows)
      OBVIOUS
    <2>1. CASE req[r].new = None
      BY <1>4, <2>1, CommitEffect DEF TokensOf
    <2>2. CASE req[r].new # None
      <3>1. t # req[r].new
        BY <1>3, <2>2, CommitEffect, SetsAssumption DEF NoToken
      <3>2. t \notin req[r].del
        BY <1>1, <1>4, DeletesOwn
      <3> QED
        BY <2>2, <3>1, <3>2, CommitEffect
    <2> QED
      BY <2>1, <2>2
  <1>8. \A t \in rows' : tok'[t].node = req[s].node => t \in TokensOf(req[s].node)
    <2> SUFFICES ASSUME NEW t \in rows', tok'[t].node = req[s].node
                 PROVE  t \in TokensOf(req[s].node)
      OBVIOUS
    <2>1. t \in Tokens
      BY CommitType DEF TypeOK
    <2>2. CASE req[r].new = None
      BY <2>2, CommitEffect DEF TokensOf
    <2>3. CASE req[r].new # None
      <3>1. t # req[r].new
        <4>1. NewToken(r).node = req[r].node
          BY DEF NewToken
        <4> QED
          BY <1>4, <2>3, <4>1, CommitEffect
      <3> QED
        BY <2>1, <2>3, <3>1, CommitEffect DEF TokensOf
    <2> QED
      BY <2>2, <2>3
  <1>9. TokensOf(req[s].node)' = TokensOf(req[s].node)
    <2>1. TokensOf(req[s].node)' = {t \in rows' : tok'[t].node = req[s].node}
      BY <1>2 DEF TokensOf
    <2> QED
      BY <1>7, <1>8, <2>1 DEF TokensOf, TypeOK
  <1>10. \A n \in req[s].purge : n \in Nonces
    BY DEF TypeOK, ReqInfo
  <1>11. req[s].op = "login" => req[s].nonce \in Nonces
    BY DEF TypeOK, WellFormed
  <1>12. req[s].op = "refresh" => req[s].old \in Tokens
    BY DEF TypeOK, WellFormed
  <1> QED
    BY <1>2, <1>3, <1>5, <1>6, <1>7, <1>9, <1>10, <1>11, <1>12
    DEF Buffered, Validated

\* A revocation, by an operator or for reuse.
LEMMA CommitRevocation ==
  ASSUME IInv, NEW r \in Reqs, NEW got \in BOOLEAN, Commit(r, got),
         req[r].new = None
  PROVE  /\ TokInv' /\ RowsUnredeemed' /\ ClaimCoversTokens'
         /\ RedeemedOnce' /\ OneTokenPerEnrollment' /\ RevokedStaysRevoked'
  <1> USE DEF IInv
  <1>1. /\ rows' = rows \ TokensOf(req[r].node)
        /\ revoked' = revoked \cup RootsOf(req[r].node)
        /\ tok' = tok /\ delivered' = delivered
        /\ \A m \in Nodes : m # req[r].node => claim'[m] = claim[m]
    BY CommitEffect
  <1>2. req[r].node \in Nodes
    BY CommitValues DEF Commit
  <1>3. \A t \in rows : tok[t].node \in Nodes
    BY DEF TypeOK, TokenInfo, TokInv
  <1>4. TokInv'
    <2>1. \A t \in RootsOf(req[r].node) : tok[t].node # None
      BY <1>2, SetsAssumption DEF RootsOf, TokInv
    <2> QED
      BY <1>1, <2>1 DEF TokInv
  <1>5. RowsUnredeemed' /\ RedeemedOnce' /\ OneTokenPerEnrollment'
    BY <1>1 DEF RowsUnredeemed, RedeemedOnce, OneTokenPerEnrollment
  <1>6. ClaimCoversTokens'
    BY <1>1, <1>3 DEF ClaimCoversTokens, TokensOf
  <1>7. RevokedStaysRevoked'
    <2> SUFFICES ASSUME NEW t \in rows' PROVE tok[t].root \notin revoked'
      BY <1>1 DEF RevokedStaysRevoked
    <2>1. t \in rows /\ t \in Tokens /\ tok[t].node # req[r].node
      BY <1>1 DEF TokensOf, TypeOK
    <2>2. tok[t].root \notin RootsOf(req[r].node)
      BY <1>2, <2>1, SetsAssumption DEF RootsOf, TokInv
    <2> QED
      BY <1>1, <2>1, <2>2 DEF RevokedStaysRevoked
  <1> QED
    BY <1>4, <1>5, <1>6, <1>7

\* An enrollment or a rotation: the new token takes the place of what was
\* deleted, and the claim covers it.
LEMMA CommitIssue ==
  ASSUME IInv, NEW r \in Reqs, NEW got \in BOOLEAN, Commit(r, got),
         req[r].new # None
  PROVE  /\ TokInv' /\ RowsUnredeemed' /\ ClaimCoversTokens'
         /\ RedeemedOnce' /\ OneTokenPerEnrollment' /\ RevokedStaysRevoked'
  <1> USE DEF IInv
  <1> DEFINE k == req[r].new
             m == req[r].node
             u == req[r].old
  <1>1. /\ k \in Tokens /\ tok[k] = NoToken
        /\ rows' = (rows \ req[r].del) \cup {k}
        /\ tok'[k] = NewToken(r)
        /\ \A t \in Tokens : t # k => tok'[t] = tok[t]
        /\ delivered' \subseteq delivered \cup {k}
        /\ revoked' = revoked
    BY CommitEffect
  <1>2. /\ req[r].pc = "written" /\ m \in Nodes /\ ExpiresAt(r) \in Nat
        /\ Buffered(r) /\ Validated(r)
    BY CommitValues DEF Commit, WriteInv, ReqInv
  <1>3. /\ tok'[k].node = m /\ tok'[k].exp = ExpiresAt(r)
        /\ tok'[k].parent = u
        /\ tok'[k].root = IF req[r].op = "login" THEN k ELSE tok[u].root
    BY <1>1 DEF NewToken
  <1>4. \/ req[r].op = "login" /\ u = None /\ req[r].del = {}
           /\ claim[m] <= req[r].txnow
        \/ req[r].op = "refresh" /\ u \in rows /\ req[r].del = {u}
           /\ tok[u].node = m
    BY <1>2, CommitValues DEF Buffered, Validated, TypeOK, WellFormed
  <1>5. \A t \in Tokens : tok[t].node # None => t # k
    BY <1>1 DEF NoToken
  <1>6. rows \subseteq Tokens /\ k \notin rows /\ k \notin delivered
        /\ k \notin revoked
    BY <1>5 DEF TypeOK, TokInv
  <1>7. \A t \in rows : tok'[t] = tok[t]
    BY <1>1, <1>6
  <1>8. m # None
    BY <1>2, SetsAssumption
  <1> HIDE DEF k, m, u
  <1>9. TokInv'
    <2>1. \A t \in (rows \cup delivered \cup revoked)' : tok'[t].node # None
      BY <1>1, <1>3, <1>5, <1>6, <1>8 DEF TokInv, TypeOK
    <2>2. \A t \in Tokens : tok'[t].node = None => tok'[t] = NoToken
      BY <1>1, <1>3, <1>8 DEF TokInv
    <2>3. \A t \in Tokens : tok'[t].node # None =>
             /\ tok'[t].root \in Tokens
             /\ tok'[tok'[t].root].node = tok'[t].node
      <3> SUFFICES ASSUME NEW t \in Tokens, tok'[t].node # None
                   PROVE  /\ tok'[t].root \in Tokens
                          /\ tok'[tok'[t].root].node = tok'[t].node
        OBVIOUS
      <3>1. CASE t # k
        BY <1>1, <1>5, <3>1, SetsAssumption DEF TokInv
      <3>2. CASE t = k
        BY <1>1, <1>3, <1>4, <1>5, <1>6, <1>8, <3>2 DEF TokInv
      <3> QED
        BY <3>1, <3>2
    <2>4. \A t \in Tokens : tok'[t].parent # None =>
             tok'[tok'[t].parent].node # None
      <3> SUFFICES ASSUME NEW t \in Tokens, tok'[t].parent # None
                   PROVE  tok'[tok'[t].parent].node # None
        OBVIOUS
      <3>1. CASE t # k
        BY <1>1, <1>3, <1>8, <3>1 DEF TokInv, TypeOK, TokenInfo
      <3>2. CASE t = k
        BY <1>3, <1>4, <1>7, <1>8, <3>2
      <3> QED
        BY <3>1, <3>2
    <2> QED
      BY <2>1, <2>2, <2>3, <2>4 DEF TokInv
  <1>10. \A s \in Tokens : tok[s].parent # k
    BY <1>1, <1>5, SetsAssumption DEF TokInv
  <1>11. RowsUnredeemed'
    <2> SUFFICES ASSUME NEW t \in rows', NEW s \in Tokens,
                        tok'[s].parent = t
                 PROVE  FALSE
      BY DEF RowsUnredeemed
    <2>1. CASE s = k
      BY <1>1, <1>3, <1>4, <1>6, <2>1, SetsAssumption
    <2>2. CASE s # k
      BY <1>1, <1>10, <2>2 DEF RowsUnredeemed
    <2> QED
      BY <2>1, <2>2
  <1>12. RedeemedOnce'
    BY <1>1, <1>3, <1>4 DEF RedeemedOnce, RowsUnredeemed
  <1>13. OneTokenPerEnrollment'
    <2>1. \A t \in rows' : t # k => tok'[t].root # tok'[k].root
      <3> SUFFICES ASSUME NEW t \in rows', t # k
                   PROVE  tok'[t].root # tok'[k].root
        OBVIOUS
      <3>1. /\ t \in rows /\ t \in Tokens /\ t \notin req[r].del
            /\ tok'[t] = tok[t]
        BY <1>1, <1>6
      <3>2. tok[t].root # k
        BY <1>5, <3>1, <1>1 DEF TokInv, NoToken
      <3> QED
        BY <1>3, <1>4, <3>1, <3>2 DEF OneTokenPerEnrollment
    <2> QED
      BY <1>1, <1>6, <1>7, <2>1 DEF OneTokenPerEnrollment
  <1>14. RevokedStaysRevoked'
    BY <1>1, <1>3, <1>4, <1>6, <1>7 DEF RevokedStaysRevoked
  <1>15. /\ claim'[m] >= ExpiresAt(r) /\ claim'[m] >= claim[m]
         /\ \A n \in Nodes : n # m => claim'[n] = claim[n]
    <2>1. claim'[m] = ClaimAfter(r) /\ claim[m] \in Nat
      BY <1>2, CommitEffect DEF TypeOK, m
    <2>2. CASE req[r].op = "login"
      <3>1. ClaimAfter(r) = ExpiresAt(r)
        BY <2>2 DEF ClaimAfter
      <3>2. claim[m] <= req[r].at + MaxStall + DbSkew
        BY <1>2, <1>4, <2>1, <2>2, TimesAssumption
        DEF Validated, InTx, DbNow, TypeOK, ReqInfo
      <3>3. ExpiresAt(r) >= claim[m]
        BY <1>2, <2>1, <3>2, TimesAssumption, LifeAssumption
        DEF ExpiresAt, TypeOK, ReqInfo
      <3> QED
        BY <1>2, <2>1, <3>1, <3>3, CommitEffect DEF m
    <2>3. CASE req[r].op = "refresh"
      <3>1. ClaimAfter(r) = Later(claim[m], ExpiresAt(r))
        BY <2>3 DEF ClaimAfter, m
      <3> QED
        BY <1>2, <2>1, <3>1, CommitEffect DEF Later, m
    <2> QED
      BY <1>4, <2>2, <2>3, <2>1, CommitEffect DEF m
  <1>16. ClaimCoversTokens'
    <2> SUFFICES ASSUME NEW t \in rows'
                 PROVE  tok'[t].exp <= claim'[tok'[t].node]
      BY DEF ClaimCoversTokens
    <2>1. CASE t = k
      BY <1>2, <1>3, <1>15, <2>1, CommitType DEF TypeOK
    <2>2. CASE t # k
      <3>1. t \in rows /\ tok'[t] = tok[t] /\ tok[t].node \in Nodes
        BY <1>1, <1>7, <2>2 DEF TypeOK, TokenInfo, TokInv
      <3>2. /\ tok[t].exp <= claim[tok[t].node] /\ tok[t].exp \in Nat
            /\ claim[tok[t].node] \in Nat /\ claim'[tok[t].node] \in Nat
        BY <3>1, CommitType DEF ClaimCoversTokens, TypeOK, TokenInfo
      <3>3. claim'[tok[t].node] >= claim[tok[t].node]
        BY <1>15, <3>1, <3>2
      <3> QED
        BY <3>1, <3>2, <3>3
    <2> QED
      BY <2>1, <2>2
  <1> QED
    BY <1>9, <1>11, <1>12, <1>13, <1>14, <1>16

LEMMA CommitInv ==
  ASSUME IInv, NEW r \in Reqs, NEW got \in BOOLEAN, Commit(r, got)
  PROVE  IInv'
  <1>1. TypeOK' /\ ReqInv' /\ NewInv' /\ WriteInv'
    BY CommitType, CommitReqs, CommitWrites
  <1> QED
    BY <1>1, CommitRevocation, CommitIssue DEF IInv

-----------------------------------------------------------------------------

LEMMA NextInv == IInv /\ [Next]_vars => IInv'
  <1> SUFFICES ASSUME IInv, [Next]_vars PROVE IInv'
    OBVIOUS
  <1>1. CASE UNCHANGED vars
    BY <1>1
    DEF vars, IInv, TypeOK, ReqInv, Validated, NewInv, WriteInv, Buffered,
        TokInv, RowsUnredeemed, ClaimCoversTokens, RedeemedOnce, DbNow,
        OneTokenPerEnrollment, RevokedStaysRevoked, TokensOf
  <1>2. CASE Tick
    BY <1>2, TickInv
  <1>3. CASE \E n \in Nonces : HandleSetup(n)
    BY <1>3, SetupInv
  <1>4. ASSUME NEW r \in Reqs, Step(r) PROVE IInv'
    <2>1. CASE EnrollRefused(r)
      BY <2>1, ReleaseInv DEF EnrollRefused
    <2> QED
      BY <1>4, <2>1, BeginTxInv, LockNodeInv, EnrollNodeInv, RotateInv,
         RevokeTxInv, CommitInv
      DEF Step
  <1>5. ASSUME NEW r \in Reqs, Rollback(r) PROVE IInv'
    BY <1>5, ReleaseInv DEF Rollback
  <1> QED
    BY <1>1, <1>2, <1>3, <1>4, <1>5, LoginInv, RefreshInv, RevokeInv DEF Next

\* Every request that passed validation is well formed and every table has
\* its type, whatever requests race, fail or are retried.
THEOREM TypeCorrect == Spec => []TypeOK
  <1>1. Spec => []IInv
    BY InitInv, NextInv, PTL DEF Spec
  <1>2. IInv => TypeOK
    BY DEF IInv
  <1> QED
    BY <1>1, <1>2, PTL

\* A stored refresh token never outlives the claim on its node.
THEOREM ClaimsCorrect == Spec => []ClaimCoversTokens
  <1>1. Spec => []IInv
    BY InitInv, NextInv, PTL DEF Spec
  <1>2. IInv => ClaimCoversTokens
    BY DEF IInv
  <1> QED
    BY <1>1, <1>2, PTL

\* RotateRefreshToken exchanges a refresh token at most once, however many
\* requests present it.
THEOREM RedemptionCorrect == Spec => []RedeemedOnce
  <1>1. Spec => []IInv
    BY InitInv, NextInv, PTL DEF Spec
  <1>2. IInv => RedeemedOnce
    BY DEF IInv
  <1> QED
    BY <1>1, <1>2, PTL

\* An enrollment has at most one stored token, and a revoked enrollment never
\* gets one again.
THEOREM RotationCorrect ==
  Spec => []OneTokenPerEnrollment /\ []RevokedStaysRevoked
  <1>1. Spec => []IInv
    BY InitInv, NextInv, PTL DEF Spec
  <1>2. IInv => OneTokenPerEnrollment /\ RevokedStaysRevoked
    BY DEF IInv
  <1> QED
    BY <1>1, <1>2, PTL
-----------------------------------------------------------------------------
(* Registration nonces.  The hypothesis of NonceCorrect relates the limits *)
(* of two modules: auth_handlers.go checks that the grant is fresh, db.go  *)
(* forgets redeemed nonces, and the request may stall between the two.     *)

\* A transaction that finds its nonce unrecorded is the first to redeem it.
LEMMA FirstUse ==
  ASSUME LoginWindow + MaxStall + DbSkew <= NonceRetention,
         IInv, NonceInv, NEW r \in Reqs, EnrollNode(r), NEW t \in Tokens
  PROVE  tok[t].nonce # req[r].nonce
  <1> SUFFICES ASSUME tok[t].nonce = req[r].nonce PROVE FALSE
    OBVIOUS
  <1> DEFINE n == req[r].nonce
  <1>1. /\ n \in Nonces /\ n # None /\ issued[n] \in Nat /\ nonceRow[n] \in Nat
        /\ req[r].at \in Nat /\ req[r].txnow \in Nat /\ now \in Nat
    BY SetsAssumption
    DEF EnrollNode, IInv, TypeOK, WellFormed, ReqInfo, ReqInv, Validated
  <1>2. /\ now <= req[r].at + MaxStall /\ req[r].txnow <= now + DbSkew
        /\ req[r].at <= issued[n] + LoginWindow
    BY DEF EnrollNode, IInv, ReqInv, Validated, InTx, DbNow
  <1>3. now + DbSkew <= issued[n] + NonceRetention
    BY <1>1, <1>2, TimesAssumption
  <1>4. nonceRow[n] = issued[n] + NonceRetention
    BY <1>1, <1>3, TimesAssumption DEF NonceInv, DbNow
  <1>5. nonceRow[n] # 0 /\ ~(nonceRow[n] < req[r].txnow)
    BY <1>1, <1>2, <1>3, <1>4, TimesAssumption
  <1> QED
    BY <1>5 DEF EnrollNode, Fresh, Expired

\* Steps that neither touch the nonces nor finish the statements of a login.
LEMMA NonceUntouched ==
  ASSUME IInv, NonceInv, NonceOnce, NEW r \in Reqs,
         UNCHANGED <<now, issued, nonceRow, tok>>,
         \A s \in Reqs : s # r => req'[s] = req[s],
         req'[r].pc # "written" \/ req'[r].op # "login"
  PROVE  NonceInv' /\ NonceOnce'
  BY DEF NonceInv, NonceOnce, DbNow

LEMMA NonceCommit ==
  ASSUME IInv, NonceInv, NonceOnce, NEW r \in Reqs, NEW got \in BOOLEAN,
         Commit(r, got)
  PROVE  NonceInv' /\ NonceOnce'
  <1> USE DEF IInv
  <1>1. /\ req[r].pc = "written" /\ Buffered(r) /\ Validated(r)
        /\ \A s \in Reqs : s # r => req'[s] = req[s]
        /\ req'[r] = IdleReq
    BY CommitEffect DEF Commit, WriteInv, ReqInv
  <1>2. \A t \in Tokens : tok'[t].nonce # None =>
           \/ tok'[t] = tok[t]
           \/ t = req[r].new /\ req[r].op = "login" /\ tok'[t].nonce = req[r].nonce
    <2>1. CASE req[r].new = None
      BY <2>1, CommitEffect
    <2>2. CASE req[r].new # None
      <3>1. NewToken(r).nonce = req[r].nonce
        BY DEF NewToken
      <3>2. req[r].nonce # None => req[r].op = "login"
        BY <1>1 DEF TypeOK, WellFormed, ReqInfo
      <3> QED
        BY <2>2, <3>1, <3>2, CommitEffect
    <2> QED
      BY <2>1, <2>2
  <1>3. NonceOnce'
    BY <1>1, <1>2 DEF NonceOnce, NonceInv
  <1>4. \A n \in Nonces :
           nonceRow'[n] = IF n = req[r].nonce THEN issued[n] + NonceRetention
                          ELSE IF n \in req[r].purge THEN 0 ELSE nonceRow[n]
    BY DEF Commit
  <1>5. ASSUME NEW t \in Tokens, tok'[t].nonce # None
        PROVE  /\ issued'[tok'[t].nonce] # None
               /\ \/ nonceRow'[tok'[t].nonce]
                        = issued'[tok'[t].nonce] + NonceRetention
                  \/ issued'[tok'[t].nonce] + NonceRetention < DbNow'
    <2> DEFINE n == tok'[t].nonce
    <2>1. n \in Nonces /\ issued' = issued /\ now' = now
      BY <1>5, CommitType DEF TypeOK, TokenInfo, Commit
    <2>2. CASE n = req[r].nonce
      <3>1. req[r].op = "login"
        BY <1>5, <2>2, <1>1 DEF TypeOK, WellFormed, ReqInfo
      <3>2. issued[n] # None
        BY <1>1, <2>2, <3>1 DEF Validated
      <3> QED
        BY <1>4, <2>1, <2>2, <3>2
    <2>3. CASE n # req[r].nonce
      <3>1. tok[t].nonce = n
        BY <1>2, <1>5, <2>3
      <3>2. CASE n \in req[r].purge
        <4>1. nonceRow[n] < req[r].txnow /\ req[r].txnow <= DbNow
          BY <1>1, <3>2 DEF Buffered, Validated, InTx
        <4>2. /\ nonceRow[n] \in Nat /\ req[r].txnow \in Nat /\ now \in Nat
              /\ issued[n] \in Nat
          BY <1>5, <2>1, <3>1 DEF TypeOK, ReqInfo, NonceInv
        <4> QED
          BY <1>5, <2>1, <3>1, <4>1, <4>2, TimesAssumption DEF NonceInv, DbNow
      <3>3. CASE n \notin req[r].purge
        BY <1>4, <1>5, <2>1, <2>3, <3>1, <3>3 DEF NonceInv, DbNow
      <3> QED
        BY <3>2, <3>3
    <2> QED
      BY <2>2, <2>3
  <1>6. ASSUME NEW s \in Reqs, req'[s].pc = "written", req'[s].op = "login",
               NEW t \in Tokens
        PROVE  tok'[t].nonce # req'[s].nonce
    <2>1. s # r /\ req'[s] = req[s]
      BY <1>1, <1>6 DEF IdleReq
    <2>2. req[s].nonce \in Nonces /\ nonceLock[req[s].nonce] = s
      BY <1>6, <2>1 DEF TypeOK, WellFormed, WriteInv, Buffered
    <2>3. req[r].op = "login" => req[s].nonce # req[r].nonce
      BY <1>1, <2>1, <2>2 DEF Buffered
    <2> QED
      BY <1>2, <1>6, <2>1, <2>2, <2>3, SetsAssumption DEF NonceInv
  <1> QED
    BY <1>3, <1>5, <1>6 DEF NonceInv

LEMMA NonceNext ==
  ASSUME LoginWindow + MaxStall + DbSkew <= NonceRetention,
         IInv, NonceInv, NonceOnce, [Next]_vars
  PROVE  NonceInv' /\ NonceOnce'
  <1>1. CASE UNCHANGED vars
    BY <1>1 DEF vars, NonceInv, NonceOnce, DbNow
  <1>2. CASE Tick
    <2>1. UNCHANGED <<issued, nonceRow, tok, req>> /\ DbNow' >= DbNow
      BY <1>2, TimesAssumption DEF Tick, DbNow, IInv, TypeOK
    <2>2. /\ DbNow \in Nat /\ DbNow' \in Nat
          /\ \A n \in Nonces : issued[n] # None => issued[n] \in Nat
      BY <1>2, TimesAssumption DEF Tick, DbNow, IInv, TypeOK
    <2>3. \A t \in Tokens : tok[t].nonce # None => tok[t].nonce \in Nonces
      BY DEF IInv, TypeOK, TokenInfo
    <2> QED
      BY <2>1, <2>2, <2>3, TimesAssumption DEF NonceInv, NonceOnce
  <1>3. ASSUME NEW n \in Nonces, HandleSetup(n) PROVE NonceInv' /\ NonceOnce'
    BY <1>3 DEF HandleSetup, NonceInv, NonceOnce, DbNow, IInv, TypeOK,
                TokenInfo
  <1>4. ASSUME NEW r \in Reqs, NEW op, NEW m, NEW n, NEW t, NEW k,
               Accept(r, op, m, n, t, k)
        PROVE  NonceInv' /\ NonceOnce'
    BY <1>4, NonceUntouched DEF Accept, IInv, TypeOK, IdleReq
  <1>5. ASSUME NEW r \in Reqs, Release(r), UNCHANGED <<now, issued, nonceRow, tok>>
        PROVE  NonceInv' /\ NonceOnce'
    BY <1>5, NonceUntouched DEF Release, IInv, TypeOK, IdleReq
  <1>6. ASSUME NEW r \in Reqs, Step(r) PROVE NonceInv' /\ NonceOnce'
    <2>1. CASE BeginTx(r) \/ LockNode(r)
      BY <2>1, NonceUntouched DEF BeginTx, LockNode, IInv, TypeOK, ReqInfo
    <2>2. CASE EnrollNode(r)
      <3>1. /\ UNCHANGED <<now, issued, nonceRow, tok>>
            /\ \A s \in Reqs : s # r => req'[s] = req[s]
            /\ req'[r].nonce = req[r].nonce
        BY <2>2 DEF EnrollNode, IInv, TypeOK, ReqInfo
      <3> QED
        BY <2>2, <3>1, FirstUse DEF NonceInv, NonceOnce, DbNow
    <2>3. CASE EnrollRefused(r)
      BY <1>5, <2>3 DEF EnrollRefused
    <2>4. CASE RotateRefreshToken(r)
      <3>1. req'[r].op = "refresh"
        BY <2>4 DEF RotateRefreshToken, IInv, TypeOK, ReqInfo
      <3> QED
        BY <2>4, <3>1, NonceUntouched DEF RotateRefreshToken, IInv, TypeOK
    <2>5. CASE RevokeEnrollment(r)
      <3>1. req'[r].op = "revoke"
        BY <2>5 DEF RevokeEnrollment, IInv, TypeOK, ReqInfo
      <3> QED
        BY <2>5, <3>1, NonceUntouched DEF RevokeEnrollment, IInv, TypeOK
    <2> QED
      BY <1>6, <2>1, <2>2, <2>3, <2>4, <2>5, NonceCommit DEF Step
  <1> QED
    BY <1>1, <1>2, <1>3, <1>4, <1>5, <1>6
    DEF Next, HandleAgentLogin, HandleAgentRefresh, HandleRevokeEnrollment,
        Rollback

\* A registration nonce is redeemed at most once, provided the time a request
\* may take after its freshness check (and the lead of the database clock)
\* fits between the login window and the retention of redeemed nonces.
THEOREM NonceCorrect ==
  ASSUME LoginWindow + MaxStall + DbSkew <= NonceRetention
  PROVE  Spec => []NonceOnce
  <1>1. Init => IInv /\ NonceInv /\ NonceOnce
    BY InitInv DEF Init, NonceInv, NonceOnce, NoToken, IdleReq
  <1>2. IInv /\ NonceInv /\ NonceOnce /\ [Next]_vars
          => (IInv /\ NonceInv /\ NonceOnce)'
    BY NextInv, NonceNext
  <1> QED
    BY <1>1, <1>2, PTL DEF Spec
-----------------------------------------------------------------------------
(* Locks.  ReqInv says that an open transaction holds the lock of its      *)
(* node; LocksOwned is the converse, that nobody else holds one.           *)

\* Ending a request leaves no lock of its own behind.
LEMMA ReleaseLocks ==
  ASSUME IInv, LocksOwned, NEW r \in Reqs, Release(r)
  PROVE  LocksOwned'
  <1> USE DEF IInv
  <1>1. \A s \in Reqs : s # r => req'[s] = req[s]
    BY DEF Release, TypeOK
  <1>2. /\ \A m \in Nodes : lock'[m] # None =>
              lock'[m] = lock[m] /\ lock[m] # r /\ lock[m] \in Reqs
        /\ \A n \in Nonces : nonceLock'[n] # None =>
              nonceLock'[n] = nonceLock[n] /\ nonceLock[n] # r
              /\ nonceLock[n] \in Reqs
    BY DEF Release, TypeOK
  <1> QED
    BY <1>1, <1>2 DEF LocksOwned

\* A lock is granted to the transaction that waits for it, and a nonce row is
\* locked by the transaction that writes it.
LEMMA StepLocks ==
  ASSUME IInv, LocksOwned, NEW r \in Reqs,
         BeginTx(r) \/ LockNode(r) \/ EnrollNode(r) \/ RotateRefreshToken(r)
           \/ RevokeEnrollment(r)
  PROVE  LocksOwned'
  <1> USE DEF IInv
  <1>1. /\ \A m \in Nodes : lock[m] \in Reqs \cup {None}
        /\ \A n \in Nonces : nonceLock[n] \in Reqs \cup {None}
        /\ req[r] \in ReqInfo
    BY DEF TypeOK
  <1>2. CASE BeginTx(r)
    <2>1. req[r].pc = "ready" /\ UNCHANGED <<lock, nonceLock>>
      BY <1>2 DEF BeginTx
    <2>2. /\ \A m \in Nodes : lock[m] # r
          /\ \A n \in Nonces : nonceLock[n] # r
      BY <2>1, SetsAssumption DEF LocksOwned
    <2>3. \A s \in Reqs : s # r => req'[s] = req[s]
      BY <1>2 DEF BeginTx, TypeOK
    <2> QED
      BY <1>1, <2>1, <2>2, <2>3 DEF LocksOwned
  <1>3. CASE LockNode(r)
    <2>1. /\ req[r].pc = "begun" /\ req[r].node \in Nodes
          /\ lock' = [lock EXCEPT ![req[r].node] = r]
          /\ UNCHANGED nonceLock
      BY <1>3 DEF LockNode, TypeOK, WellFormed
    <2>2. /\ \A m \in Nodes : lock[m] # r
          /\ \A n \in Nonces : nonceLock[n] # r
      BY <2>1, SetsAssumption DEF LocksOwned
    <2>3. /\ req'[r].pc = "locked" /\ req'[r].node = req[r].node
          /\ \A s \in Reqs : s # r => req'[s] = req[s]
      <3>1. req' = [req EXCEPT ![r] = [req[r] EXCEPT !.pc = "locked"]]
        BY <1>3 DEF LockNode
      <3>2. /\ req'[r] = [req[r] EXCEPT !.pc = "locked"]
            /\ \A s \in Reqs : s # r => req'[s] = req[s]
        BY <3>1 DEF TypeOK
      <3> QED
        BY <1>1, <3>2 DEF ReqInfo
    <2>4. \A m \in Nodes : lock'[m] = IF m = req[r].node THEN r ELSE lock[m]
      BY <2>1 DEF TypeOK
    <2> QED
      BY <1>1, <2>1, <2>2, <2>3, <2>4 DEF LocksOwned
  <1>4. CASE EnrollNode(r) \/ RotateRefreshToken(r) \/ RevokeEnrollment(r)
    <2>1. req[r].pc = "locked" /\ UNCHANGED lock
      BY <1>4 DEF EnrollNode, RotateRefreshToken, RevokeEnrollment
    <2>2. /\ req'[r].pc = "written" /\ req'[r].node = req[r].node
          /\ \A s \in Reqs : s # r => req'[s] = req[s]
      <3>1. ASSUME NEW q, req' = [req EXCEPT ![r] = q],
                   q.pc = "written", q.node = req[r].node
            PROVE  /\ req'[r].pc = "written" /\ req'[r].node = req[r].node
                   /\ \A s \in Reqs : s # r => req'[s] = req[s]
        BY <3>1 DEF TypeOK
      <3>2. CASE EnrollNode(r)
        <4> DEFINE q == [req[r] EXCEPT !.pc = "written", !.purge = Expired(r)]
        <4>1. req' = [req EXCEPT ![r] = q]
          BY <3>2 DEF EnrollNode
        <4>2. q.pc = "written" /\ q.node = req[r].node
          BY <1>1 DEF ReqInfo
        <4> HIDE DEF q
        <4> QED
          BY <3>1, <4>1, <4>2
      <3>3. CASE RotateRefreshToken(r)
        <4> DEFINE q == IF Redeemable(r)
                        THEN [req[r] EXCEPT !.pc = "written",
                                            !.del = {req[r].old}]
                        ELSE [req[r] EXCEPT !.pc = "written", !.new = None,
                                            !.del = TokensOf(req[r].node)]
        <4>1. req' = [req EXCEPT ![r] = q]
          BY <3>3 DEF RotateRefreshToken
        <4>2. q.pc = "written" /\ q.node = req[r].node
          BY <1>1 DEF ReqInfo
        <4> HIDE DEF q
        <4> QED
          BY <3>1, <4>1, <4>2
      <3>4. CASE RevokeEnrollment(r)
        <4> DEFINE q == [req[r] EXCEPT !.pc = "written",
                                       !.del = TokensOf(req[r].node)]
        <4>1. req' = [req EXCEPT ![r] = q]
          BY <3>4 DEF RevokeEnrollment
        <4>2. q.pc = "written" /\ q.node = req[r].node
          BY <1>1 DEF ReqInfo
        <4> HIDE DEF q
        <4> QED
          BY <3>1, <4>1, <4>2
      <3> QED
        BY <1>4, <3>2, <3>3, <3>4
    <2>3. \A n \in Nonces : nonceLock'[n] \in {nonceLock[n], r}
      BY <1>4 DEF EnrollNode, RotateRefreshToken, RevokeEnrollment
    <2> QED
      BY <1>1, <2>1, <2>2, <2>3 DEF LocksOwned
  <1> QED
    BY <1>2, <1>3, <1>4

\* Every step keeps the locks with open transactions.
LEMMA LocksNext == IInv /\ LocksOwned /\ [Next]_vars => LocksOwned'
  <1> SUFFICES ASSUME IInv, LocksOwned, [Next]_vars PROVE LocksOwned'
    OBVIOUS
  <1>1. ASSUME NEW r \in Reqs, Release(r)
        PROVE  LocksOwned'
    BY <1>1, ReleaseLocks
  <1>2. ASSUME NEW r \in Reqs,
               BeginTx(r) \/ LockNode(r) \/ EnrollNode(r)
                 \/ RotateRefreshToken(r) \/ RevokeEnrollment(r)
        PROVE  LocksOwned'
    BY <1>2, StepLocks
  <1>3. ASSUME NEW r \in Reqs, NEW op, NEW m, NEW n, NEW t, NEW k,
               Accept(r, op, m, n, t, k)
        PROVE  LocksOwned'
    <2>1. req[r].pc = "idle" /\ UNCHANGED <<lock, nonceLock>>
          /\ \A s \in Reqs : s # r => req'[s] = req[s]
      BY <1>3 DEF Accept, IInv, TypeOK
    <2>2. /\ \A x \in Nodes : lock[x] # r
          /\ \A x \in Nonces : nonceLock[x] # r
      BY <2>1, SetsAssumption DEF LocksOwned
    <2> QED
      BY <2>1, <2>2 DEF LocksOwned, IInv, TypeOK
  <1>4. CASE UNCHANGED <<lock, nonceLock, req>>
    BY <1>4 DEF LocksOwned
  <1> QED
    BY <1>1, <1>2, <1>3, <1>4
    DEF Next, vars, Tick, HandleSetup, HandleAgentLogin, HandleAgentRefresh,
        HandleRevokeEnrollment, Step, EnrollRefused, Commit, Rollback

\* No lock outlives its transaction.
THEOREM LocksCorrect == Spec => []LocksOwned
  <1>1. Init => IInv /\ LocksOwned
    BY InitInv DEF Init, LocksOwned
  <1> QED
    BY <1>1, NextInv, LocksNext, PTL DEF Spec

\* Requests never wait for each other in a circle: a waiting request leads to
\* one that is not waiting in at most two steps, over a node's lock and then
\* over a nonce row.
THEOREM WaitsAcyclic == Spec => []NoCircularWait
  <1>1. IInv /\ LocksOwned => NoCircularWait
    <2> SUFFICES ASSUME IInv, LocksOwned, NEW r \in Reqs, Waits(r)
                 PROVE  \E s \in Reqs \ {r} : req[s].pc \in InTx /\ ~Waits(s)
      BY DEF NoCircularWait
    <2>1. ASSUME NEW s \in Reqs, req[s].pc = "written"
          PROVE  req[s].pc \in InTx /\ ~Waits(s)
      BY <2>1 DEF InTx, Waits
    <2>2. ASSUME NEW s \in Reqs, req[s].pc = "locked", Waits(s)
          PROVE  \E u \in Reqs : req[u].pc = "written"
      <3>1. /\ req[s].op = "login" /\ ~NonceReady(s)
            /\ req[s].nonce \in Nonces
        BY <2>2 DEF Waits, IInv, TypeOK, WellFormed
      <3>2. PICK n \in Nonces : nonceLock[n] # None
        BY <3>1 DEF NonceReady, Expired
      <3> QED
        BY <3>2 DEF LocksOwned, IInv, TypeOK
    <2>3. CASE req[r].pc = "begun"
      <3>1. req[r].node \in Nodes /\ lock[req[r].node] # None
        BY <2>3 DEF Waits, IInv, TypeOK, WellFormed
      <3>2. PICK s \in Reqs : req[s].pc \in {"locked", "written"}
        BY <3>1 DEF LocksOwned, IInv, TypeOK
      <3>3. CASE Waits(s)
        BY <2>1, <2>2, <2>3, <3>2, <3>3
      <3>4. CASE ~Waits(s)
        BY <2>3, <3>2, <3>4 DEF InTx
      <3> QED
        BY <3>3, <3>4
    <2>4. CASE req[r].pc = "locked"
      BY <2>1, <2>2, <2>4
    <2> QED
      BY <2>3, <2>4 DEF Waits
  <1>2. Init => IInv /\ LocksOwned
    BY InitInv DEF Init, LocksOwned
  <1> QED
    BY <1>1, <1>2, NextInv, LocksNext, PTL DEF Spec
=============================================================================
