--------------------------- MODULE OwnershipProofs --------------------------
(***************************************************************************)
(* Enrollment implements Ownership, for every number of nodes, nonces,     *)
(* tokens and concurrent requests, and a refresh token is disowned only    *)
(* after it was spent or withdrawn.  Both rest on the inductive invariant  *)
(* IInv of EnrollmentProofs.                                               *)
(***************************************************************************)
EXTENDS EnrollmentProofs

\* The transactions that do not commit leave the tokens as they are.
LEMMA TokensKept ==
  ASSUME [Next]_vars, ~(\E r \in Reqs, got \in BOOLEAN : Commit(r, got))
  PROVE  UNCHANGED <<rows, tok, revoked>>
  BY DEF Next, vars, Tick, HandleSetup, Accept, HandleAgentLogin,
         HandleAgentRefresh, HandleRevokeEnrollment, Step, BeginTx, LockNode,
         EnrollNode, EnrollRefused, RotateRefreshToken, RevokeEnrollment,
         Rollback

LEMMA SpentCommit ==
  ASSUME IInv, StoredUntilSpent, NEW r \in Reqs, NEW got \in BOOLEAN,
         Commit(r, got)
  PROVE  StoredUntilSpent'
  <1> USE DEF IInv
  <1>1. CASE req[r].new = None
    <2> SUFFICES ASSUME NEW t \in Tokens, tok[t].node # None
                 PROVE  \/ t \in rows'
                        \/ \E s \in Tokens : tok[s].parent = t
                        \/ tok[t].root \in revoked'
      BY <1>1, CommitEffect DEF StoredUntilSpent
    <2>1. CASE t \in rows /\ tok[t].node = req[r].node
      BY <1>1, <2>1, CommitEffect DEF RootsOf
    <2>2. CASE t \in rows /\ tok[t].node # req[r].node
      BY <1>1, <2>2, CommitEffect DEF TokensOf
    <2> QED
      BY <1>1, <2>1, <2>2, CommitEffect DEF StoredUntilSpent
  <1>2. CASE req[r].new # None
    <2> DEFINE k == req[r].new
    <2>1. /\ k \in Tokens /\ tok[k] = NoToken
          /\ rows' = (rows \ req[r].del) \cup {k}
          /\ tok'[k].parent = req[r].old
          /\ \A t \in Tokens : t # k => tok'[t] = tok[t]
          /\ revoked' = revoked
      <3>1. NewToken(r).parent = req[r].old
        BY DEF NewToken
      <3> QED
        BY <1>2, <3>1, CommitEffect
    <2>2. req[r].del \subseteq {req[r].old}
      BY <1>2, CommitValues DEF Commit, WriteInv, Buffered
    <2>3. \A s \in Tokens : tok[s].parent # None => s # k
      BY <2>1 DEF NoToken
    <2>4. \A t \in Tokens : t # None
      BY SetsAssumption
    <2> HIDE DEF k
    <2> SUFFICES ASSUME NEW t \in Tokens, tok'[t].node # None
                 PROVE  \/ t \in rows'
                        \/ \E s \in Tokens : tok'[s].parent = t
                        \/ tok'[t].root \in revoked'
      BY DEF StoredUntilSpent
    <2>5. CASE t = k
      BY <2>1, <2>5
    <2>6. CASE t # k /\ t \in rows
      BY <2>1, <2>2, <2>6
    <2>7. CASE t # k /\ t \notin rows
      <3>1. \/ \E s \in Tokens : tok[s].parent = t
            \/ tok[t].root \in revoked
        BY <2>1, <2>7 DEF StoredUntilSpent
      <3> QED
        BY <2>1, <2>3, <2>4, <2>7, <3>1
    <2> QED
      BY <2>5, <2>6, <2>7
  <1> QED
    BY <1>1, <1>2

\* Reuse detection is never triggered by a token that its holder could not
\* have used: what is not stored was redeemed, or its enrollment revoked.
THEOREM SpentCorrect == Spec => []StoredUntilSpent
  <1>1. Init => IInv /\ StoredUntilSpent
    BY InitInv DEF Init, StoredUntilSpent, NoToken
  <1>2. IInv /\ StoredUntilSpent /\ [Next]_vars => (IInv /\ StoredUntilSpent)'
    <2> SUFFICES ASSUME IInv, StoredUntilSpent, [Next]_vars
                 PROVE  StoredUntilSpent'
      BY NextInv
    <2>1. CASE \E r \in Reqs, got \in BOOLEAN : Commit(r, got)
      BY <2>1, SpentCommit
    <2>2. CASE ~(\E r \in Reqs, got \in BOOLEAN : Commit(r, got))
      BY <2>2, TokensKept DEF StoredUntilSpent
    <2> QED
      BY <2>1, <2>2
  <1> QED
    BY <1>1, <1>2, PTL DEF Spec

-----------------------------------------------------------------------------
(* The refinement.  A node changes hands in three kinds of steps: an       *)
(* enrollment commits (Claim), a revocation commits or time passes (Lose). *)
(* Of the other steps only the COMMIT of a rotation touches the owners,    *)
(* and only when its token expired after BEGIN (LateRedemption).  How long *)
(* a transaction takes is not bounded.                                     *)

\* The owners of a node, member by member.
LEMMA OwnerMember ==
  ASSUME NEW m \in Nodes, NEW e
  PROVE  e \in Owner[m] <=>
           \E t \in rows : /\ tok[t].node = m /\ tok[t].exp > DbNow
                           /\ tok[t].root = e
  BY DEF Owner, TokensOf

\* The same, after a step.
LEMMA OwnerMemberPrime ==
  ASSUME NEW m \in Nodes, NEW e
  PROVE  e \in Owner'[m] <=>
           \E t \in rows' : /\ tok'[t].node = m /\ tok'[t].exp > DbNow'
                            /\ tok'[t].root = e
  BY DEF Owner, TokensOf

LEMMA OwnerIsFunction == Owner = [m \in Nodes |-> Owner[m]]
  BY DEF Owner

\* Two functions on the nodes with the same members are equal.
LEMMA SameOwner ==
  ASSUME NEW f, f = [m \in Nodes |-> f[m]],
         \A m \in Nodes : \A e : e \in Owner'[m] <=> e \in f[m]
  PROVE  Owner' = f
  <1>1. Owner' = [m \in Nodes |-> Owner'[m]]
    BY DEF Owner
  <1>2. \A m \in Nodes : Owner'[m] = f[m]
    OBVIOUS
  <1> QED
    BY <1>1, <1>2

\* A step after which every node has at most its former owners is a loss.
LEMMA FewerOwners ==
  ASSUME IInv, IInv', UNCHANGED tok,
         \A m \in Nodes : \A e : e \in Owner'[m] => e \in Owner[m]
  PROVE  Owned!Next
  <1>1. Owner' = [m \in Nodes |-> Owner'[m]]
    BY DEF Owner
  <1>2. ASSUME NEW m \in Nodes PROVE Owner'[m] \in SUBSET Tokens
    <2>1. \A t \in rows' : tok'[t].root \in Tokens
      BY DEF IInv, TokInv, TypeOK
    <2> QED
      BY <2>1, OwnerMemberPrime
  <1>3. PICK left \in [Nodes -> SUBSET Tokens] : left = Owner'
    BY <1>1, <1>2
  <1>4. Enrollments' = Enrollments
    BY DEF Enrollments
  <1>5. Owned!Lose(left)
    BY <1>3, <1>4 DEF Owned!Lose
  <1> QED
    BY <1>5 DEF Owned!Next

\* Tokens expire: some enrollments lose their node, no node gains an owner.
LEMMA TickLoses ==
  ASSUME IInv, IInv', Tick
  PROVE  Owned!Next
  <1>1. UNCHANGED <<rows, tok>>
    BY DEF Tick
  <1>2. /\ DbNow \in Nat /\ DbNow' \in Nat /\ DbNow' >= DbNow
        /\ \A t \in rows : tok[t].exp \in Nat
    BY TimesAssumption DEF Tick, DbNow, IInv, TypeOK, TokenInfo
  <1>3. ASSUME NEW m \in Nodes, NEW e, e \in Owner'[m]
        PROVE  e \in Owner[m]
    BY <1>1, <1>2, <1>3, OwnerMember, OwnerMemberPrime
  <1> QED
    BY <1>1, <1>3, FewerOwners

\* A revocation takes its node from whoever owns it.
LEMMA RevocationLoses ==
  ASSUME IInv, IInv', NEW r \in Reqs, NEW got \in BOOLEAN, Commit(r, got),
         req[r].new = None
  PROVE  Owned!Next
  <1>1. rows' = rows \ TokensOf(req[r].node) /\ tok' = tok /\ DbNow' = DbNow
    BY CommitEffect, CommitValues DEF Commit, DbNow
  <1>2. ASSUME NEW m \in Nodes, NEW e, e \in Owner'[m]
        PROVE  e \in Owner[m]
    BY <1>1, <1>2, OwnerMember, OwnerMemberPrime
  <1> QED
    BY <1>1, <1>2, FewerOwners

\* An enrollment that commits claims a node that belonged to nobody: the
\* claim had run out, and no token outlives the claim.
LEMMA EnrollmentClaims ==
  ASSUME IInv, NEW r \in Reqs, NEW got \in BOOLEAN,
         Commit(r, got), req[r].new # None, req[r].op = "login"
  PROVE  Owned!Claim(req[r].node, req[r].new)
  <1> USE DEF IInv
  <1> DEFINE k == req[r].new
             n == req[r].node
  <1>1. /\ k \in Tokens /\ tok[k] = NoToken
        /\ tok'[k] = NewToken(r)
        /\ \A t \in Tokens : t # k => tok'[t] = tok[t]
    BY CommitEffect
  <1>2. /\ tok'[k].node = n /\ tok'[k].root = k
        /\ tok'[k].exp = ExpiresAt(r)
    <2>1. NewToken(r).node = n /\ NewToken(r).root = k
          /\ NewToken(r).exp = ExpiresAt(r)
      BY DEF NewToken
    <2> QED
      BY <1>1, <2>1
  <1>3. /\ req[r].pc = "written" /\ Buffered(r) /\ Validated(r)
        /\ req[r].txnow <= DbNow /\ n \in Nodes /\ now' = now
        /\ DbNow' = DbNow
    BY CommitValues DEF Commit, WriteInv, ReqInv, Validated, InTx, DbNow
  <1>4. rows' = rows \cup {k}
    BY <1>3, CommitEffect DEF Buffered
  <1>5. /\ now \in Nat /\ req[r].at \in Nat /\ DbNow \in Nat
        /\ req[r].txnow \in Nat
        /\ claim[n] \in Nat /\ \A t \in rows : tok[t].exp \in Nat
    BY <1>3, TimesAssumption DEF TypeOK, ReqInfo, TokenInfo, DbNow
  <1>6. tok'[k].exp > DbNow
    BY <1>2, <1>3, <1>5, TimesAssumption, LifeAssumption
    DEF Validated, ExpiresAt, DbNow
  <1>7. \A t \in rows : tok[t].node = n => ~(tok[t].exp > DbNow)
    BY <1>3, <1>5 DEF Buffered, ClaimCoversTokens
  <1>8. \A t \in rows : t \in Tokens /\ t # k
    BY <1>1, SetsAssumption DEF TypeOK, TokInv, NoToken
  <1> HIDE DEF k, n, IInv
  <1>9. Owner[n] = {}
    BY <1>3, <1>7, OwnerMember
  <1>10. Owner' = [Owner EXCEPT ![n] = {k}]
    <2> DEFINE f == [Owner EXCEPT ![n] = {k}]
    <2>1. \A m \in Nodes : f[m] = IF m = n THEN {k} ELSE Owner[m]
      BY <1>3, OwnerIsFunction
    <2>2. ASSUME NEW m \in Nodes, NEW e
          PROVE  e \in Owner'[m] <=> e \in f[m]
      <3>1. CASE m = n
        <4>1. e \in Owner'[m] => e = k
          BY <1>1, <1>2, <1>3, <1>4, <1>7, <1>8, <3>1, OwnerMemberPrime
        <4>2. k \in Owner'[m]
          BY <1>2, <1>3, <1>4, <1>6, <3>1, OwnerMemberPrime
        <4> QED
          BY <2>1, <3>1, <4>1, <4>2
      <3>2. CASE m # n
        <4>1. e \in Owner'[m] <=> e \in Owner[m]
          BY <1>1, <1>2, <1>3, <1>4, <1>8, <3>2, OwnerMember,
             OwnerMemberPrime
        <4> QED
          BY <2>1, <3>2, <4>1
      <3> QED
        BY <3>1, <3>2
    <2>3. f = [m \in Nodes |-> f[m]]
      BY OwnerIsFunction
    <2> HIDE DEF f
    <2>4. Owner' = f
      BY <2>2, <2>3, SameOwner
    <2> QED
      BY <2>4 DEF f
  <1>11. k \notin Enrollments
    BY <1>1, SetsAssumption DEF Enrollments, NoToken
  <1>12. Enrollments' = Enrollments \cup {k}
    BY <1>1, <1>2 DEF Enrollments
  <1> QED
    BY <1>9, <1>10, <1>11, <1>12 DEF Owned!Claim, k, n

\* A rotation adds at most the enrollment of the token it redeems.
LEMMA RotationOwner ==
  ASSUME IInv, NEW r \in Reqs, NEW got \in BOOLEAN,
         Commit(r, got), req[r].new # None, req[r].op = "refresh"
  PROVE  /\ Owner' = [Owner EXCEPT ![req[r].node] = @ \cup {tok[req[r].old].root}]
         /\ UNCHANGED Enrollments
         /\ tok[req[r].old].root \notin revoked
         /\ tok[req[r].old].exp > DbNow =>
               tok[req[r].old].root \in Owner[req[r].node]
  <1> USE DEF IInv
  <1> DEFINE k == req[r].new
             u == req[r].old
             n == req[r].node
             e0 == tok[u].root
  <1>1. /\ k \in Tokens /\ tok[k] = NoToken
        /\ tok'[k] = NewToken(r)
        /\ \A t \in Tokens : t # k => tok'[t] = tok[t]
    BY CommitEffect
  <1>2. /\ tok'[k].node = n /\ tok'[k].root = e0
        /\ tok'[k].exp = ExpiresAt(r)
    <2>1. NewToken(r).node = n /\ NewToken(r).root = e0
          /\ NewToken(r).exp = ExpiresAt(r)
      BY DEF NewToken
    <2> QED
      BY <1>1, <2>1
  <1>3. /\ req[r].pc = "written" /\ Buffered(r) /\ Validated(r)
        /\ n \in Nodes /\ DbNow' = DbNow
    BY CommitValues DEF Commit, WriteInv, ReqInv, InTx, DbNow
  <1>4. /\ rows' = (rows \ {u}) \cup {k} /\ u \in rows
        /\ tok[u].node = n /\ e0 \notin revoked
    BY <1>3, CommitEffect DEF Buffered, Validated, RevokedStaysRevoked
  <1>5. now \in Nat /\ req[r].at \in Nat
    BY DEF TypeOK, ReqInfo
  <1>6. tok'[k].exp > DbNow
    BY <1>2, <1>3, <1>5, TimesAssumption, LifeAssumption
    DEF Validated, ExpiresAt, DbNow
  <1>7. \A t \in rows : t \in Tokens /\ t # k
    BY <1>1, SetsAssumption DEF TypeOK, TokInv, NoToken
  <1>8. e0 # k /\ tok[k].root # k
    BY <1>1, <1>4, <1>7, SetsAssumption DEF TokInv, NoToken
  <1>9. tok[u].exp > DbNow => e0 \in Owner[n]
    BY <1>3, <1>4, OwnerMember
  <1> HIDE DEF k, n, u, e0, IInv
  <1> DEFINE f == [Owner EXCEPT ![n] = @ \cup {e0}]
  <1>10. \A m \in Nodes : f[m] = IF m = n THEN Owner[m] \cup {e0} ELSE Owner[m]
    BY <1>3, OwnerIsFunction
  <1>11. ASSUME NEW m \in Nodes, NEW e
         PROVE  e \in Owner'[m] <=> e \in Owner[m] \/ (m = n /\ e = e0)
    <2>1. ASSUME e \in Owner'[m] PROVE e \in Owner[m] \/ (m = n /\ e = e0)
      <3>1. PICK t \in rows' : /\ tok'[t].node = m /\ tok'[t].exp > DbNow'
                               /\ tok'[t].root = e
        BY <2>1, OwnerMemberPrime
      <3>2. CASE t = k
        BY <1>2, <3>1, <3>2
      <3>3. CASE t # k
        BY <1>1, <1>3, <1>4, <1>7, <3>1, <3>3, OwnerMember
      <3> QED
        BY <3>2, <3>3
    <2>2. ASSUME m = n /\ e = e0 PROVE e \in Owner'[m]
      BY <1>2, <1>3, <1>4, <1>6, <2>2, OwnerMemberPrime
    <2>3. ASSUME e \in Owner[m] PROVE e \in Owner'[m]
      <3>1. PICK t \in rows : /\ tok[t].node = m /\ tok[t].exp > DbNow
                              /\ tok[t].root = e
        BY <2>3, OwnerMember
      <3>2. CASE t = u
        BY <1>4, <2>2, <3>1, <3>2 DEF e0
      <3>3. CASE t # u
        BY <1>1, <1>3, <1>4, <1>7, <3>1, <3>3, OwnerMemberPrime
      <3> QED
        BY <3>2, <3>3
    <2> QED
      BY <2>1, <2>2, <2>3
  <1>12. Owner' = f
    <2>1. \A m \in Nodes : \A e : e \in Owner'[m] <=> e \in f[m]
      BY <1>10, <1>11
    <2>2. f = [m \in Nodes |-> f[m]]
      BY OwnerIsFunction
    <2> HIDE DEF f
    <2> QED
      BY <2>1, <2>2, SameOwner
  <1>13. Enrollments' = Enrollments
    BY <1>1, <1>2, <1>8 DEF Enrollments
  <1> QED
    BY <1>4, <1>9, <1>12, <1>13 DEF e0, u, n

\* The handlers, transactions and the clock keep to Ownership however long a
\* transaction takes, but for the rotations that outwait their token.
THEOREM OwnershipCorrect == Spec => OwnershipKept
  <1> DEFINE Kept == Owned!Next \/ \E r \in Reqs : LateRedemption(r)
  <1>1. Init => Owned!Init
    BY SetsAssumption DEF Init, Owned!Init, Owner, TokensOf, Enrollments, NoToken
  <1>2. IInv /\ [Next]_vars => [Kept]_(Owned!vars)
    <2> SUFFICES ASSUME IInv, [Next]_vars
                 PROVE  Kept \/ UNCHANGED <<Owner, Enrollments>>
      BY DEF Owned!vars
    <2>1. IInv'
      BY NextInv
    <2>2. CASE Tick
      BY <2>1, <2>2, TickLoses
    <2>3. ASSUME NEW r \in Reqs, NEW got \in BOOLEAN, Commit(r, got)
          PROVE  Kept \/ UNCHANGED <<Owner, Enrollments>>
      <3>1. CASE req[r].new = None
        BY <2>1, <2>3, <3>1, RevocationLoses
      <3>2. CASE req[r].new # None /\ req[r].op = "login"
        <4>1. req[r].node \in Nodes /\ req[r].new \in Tokens
          BY <2>3, <3>2, CommitEffect, CommitValues DEF Commit
        <4> QED
          BY <2>3, <3>2, <4>1, EnrollmentClaims DEF Owned!Next
      <3>3. CASE req[r].new # None /\ req[r].op = "refresh"
        <4> DEFINE u == req[r].old
        <4>1. /\ req[r].pc = "written" /\ req[r].node \in Nodes
              /\ u \in rows /\ tok[u].exp > req[r].txnow
              /\ tok[u].exp \in Nat /\ req[r].txnow \in Nat /\ DbNow \in Nat
          BY <2>3, <3>3, CommitValues, TimesAssumption
          DEF Commit, IInv, WriteInv, Buffered, TypeOK, ReqInfo, TokenInfo, DbNow
        <4>2. CASE tok[u].exp > DbNow
          <5>1. tok[u].root \in Owner[req[r].node]
            BY <2>3, <3>3, <4>2, RotationOwner
          <5>2. Owner[req[r].node] \cup {tok[u].root} = Owner[req[r].node]
            BY <5>1
          <5>3. /\ Owner' = [Owner EXCEPT ![req[r].node] = @ \cup {tok[u].root}]
                /\ UNCHANGED Enrollments
            BY <2>3, <3>3, RotationOwner
          <5>4. Owner' = Owner
            BY <5>2, <5>3, OwnerIsFunction
          <5> QED
            BY <5>3, <5>4
        <4>3. CASE ~(tok[u].exp > DbNow)
          <5>1. req[r].txnow < tok[u].exp /\ tok[u].exp <= DbNow
            BY <4>1, <4>3
          <5>2. LateRedemption(r)
            BY <2>3, <3>3, <4>1, <5>1, RotationOwner DEF LateRedemption
          <5> QED
            BY <5>2
        <4> QED
          BY <4>2, <4>3
      <3> QED
        BY <2>3, <3>1, <3>2, <3>3, CommitValues DEF Commit
    <2>4. CASE ~Tick /\ ~(\E r \in Reqs, got \in BOOLEAN : Commit(r, got))
      <3>1. UNCHANGED <<rows, tok, now>>
        BY <2>4, TokensKept
        DEF Next, vars, HandleSetup, Accept, HandleAgentLogin,
            HandleAgentRefresh, HandleRevokeEnrollment, Step, BeginTx,
            LockNode, EnrollNode, EnrollRefused, RotateRefreshToken,
            RevokeEnrollment, Rollback
      <3> QED
        BY <3>1 DEF Owner, TokensOf, Enrollments, DbNow
    <2> QED
      BY <2>2, <2>3, <2>4
  <1> QED
    BY <1>1, <1>2, InitInv, NextInv, PTL DEF Spec, OwnershipKept

-----------------------------------------------------------------------------
(* Atomicity.  Enrollment implements TokenStore with no bound on how long  *)
(* a transaction takes: its COMMIT is the one step in which the abstract   *)
(* operation happens, because the node lock (Buffered) keeps true what its *)
(* statements read.  Only the clock can have moved since, and a later      *)
(* clock finds more tokens expired, not fewer.                             *)

\* What a COMMIT that issues a token does to the table.
LEMMA CommitIssues ==
  ASSUME IInv, NEW r \in Reqs, NEW got \in BOOLEAN, Commit(r, got),
         req[r].new # None
  PROVE  /\ req[r].new \in Tokens
         /\ Store!Issue(req[r].node, req[r].new)
  <1> USE DEF IInv
  <1> DEFINE k == req[r].new
             H == [t \in Tokens |-> tok[t].node]
             X == [t \in Tokens |-> tok[t].exp]
  <1>1. /\ k \in Tokens /\ tok[k] = NoToken
        /\ tok'[k] = NewToken(r)
        /\ \A t \in Tokens : t # k => tok'[t] = tok[t]
    BY CommitEffect
  <1>2. tok'[k].node = req[r].node /\ tok'[k].exp = ExpiresAt(r)
    <2>1. NewToken(r).node = req[r].node /\ NewToken(r).exp = ExpiresAt(r)
      BY DEF NewToken
    <2> QED
      BY <1>1, <2>1
  <1>3. Validated(r) /\ DbNow' = DbNow
    BY DEF Commit, ReqInv, DbNow
  <1>4. now \in Nat /\ req[r].at \in Nat
    BY DEF TypeOK, ReqInfo
  <1>5. ExpiresAt(r) \in DbNow + 1 .. DbNow + RefreshLife
    BY <1>3, <1>4, TimesAssumption, LifeAssumption
    DEF Validated, ExpiresAt, DbNow
  <1>6. H[k] = None
    BY <1>1 DEF NoToken
  <1> HIDE DEF k, IInv
  <1>7. H' = [H EXCEPT ![k] = req[r].node]
    BY <1>1, <1>2
  <1>8. X' = [X EXCEPT ![k] = ExpiresAt(r)]
    BY <1>1, <1>2
  <1>9. Store!Issue(req[r].node, k)
    BY <1>3, <1>5, <1>6, <1>7, <1>8 DEF Store!Issue
  <1> QED
    BY <1>1, <1>9 DEF k

\* An enrollment's COMMIT is the abstract enrollment: it found the claim
\* expired, and no stored token outlives the claim.
LEMMA CommitEnrolls ==
  ASSUME IInv, NEW r \in Reqs, NEW got \in BOOLEAN, Commit(r, got),
         req[r].new # None, req[r].op = "login"
  PROVE  Store!Enroll(req[r].node, req[r].new)
  <1> USE DEF IInv
  <1>1. /\ Buffered(r) /\ Validated(r) /\ req[r].pc = "written"
        /\ req[r].node \in Nodes
    BY CommitValues DEF Commit, WriteInv, ReqInv
  <1>2. rows' = rows \cup {req[r].new}
    BY <1>1, CommitEffect DEF Buffered
  <1>3. /\ DbNow \in Nat /\ req[r].txnow \in Nat /\ claim[req[r].node] \in Nat
        /\ rows \subseteq Tokens /\ \A t \in rows : tok[t].exp \in Nat
    BY <1>1, TimesAssumption DEF TypeOK, ReqInfo, TokenInfo, DbNow
  <1>4. \A t \in rows : tok[t].node = req[r].node => tok[t].exp <= DbNow
    BY <1>1, <1>3 DEF Buffered, Validated, InTx, ClaimCoversTokens
  <1>5. Store!Issue(req[r].node, req[r].new)
    BY CommitIssues
  <1> HIDE DEF IInv
  <1>6. \A t \in rows : [u \in Tokens |-> tok[u].node][t] = req[r].node
                          => [u \in Tokens |-> tok[u].exp][t] <= DbNow
    BY <1>3, <1>4
  <1> QED
    BY <1>2, <1>5, <1>6 DEF Store!Enroll

\* A rotation's COMMIT consumes the token it was given for: it is still
\* stored, and of the same node.
LEMMA CommitRotates ==
  ASSUME IInv, NEW r \in Reqs, NEW got \in BOOLEAN, Commit(r, got),
         req[r].new # None, req[r].op = "refresh"
  PROVE  req[r].old \in Tokens /\ Store!Rotate(req[r].old, req[r].new)
  <1> USE DEF IInv
  <1>1. Buffered(r) /\ Validated(r)
    BY DEF Commit, WriteInv, ReqInv
  <1>2. /\ req[r].old \in rows /\ req[r].old \in Tokens
        /\ tok[req[r].old].node = req[r].node
        /\ rows' = (rows \ {req[r].old}) \cup {req[r].new}
    BY <1>1, CommitEffect DEF Buffered, Validated, TypeOK
  <1>3. Store!Issue(req[r].node, req[r].new)
    BY CommitIssues
  <1>4. [t \in Tokens |-> tok[t].node][req[r].old] = req[r].node
    BY <1>2
  <1> QED
    BY <1>2, <1>3, <1>4 DEF Store!Rotate

\* A revocation's COMMIT withdraws all the tokens of the node there are now.
LEMMA CommitClears ==
  ASSUME IInv, NEW r \in Reqs, NEW got \in BOOLEAN, Commit(r, got),
         req[r].new = None
  PROVE  req[r].node \in Nodes /\ Store!Clear(req[r].node)
  <1>1. /\ rows' = rows \ TokensOf(req[r].node) /\ tok' = tok
        /\ req[r].node \in Nodes /\ DbNow' = DbNow
    BY CommitEffect, CommitValues DEF Commit, DbNow
  <1>2. rows \subseteq Tokens
    BY DEF IInv, TypeOK
  <1>3. rows' = {t \in rows : [u \in Tokens |-> tok[u].node][t] # req[r].node}
    BY <1>1, <1>2 DEF TokensOf
  <1> QED
    BY <1>1, <1>3 DEF Store!Clear

\* The transactions are atomic: for any bound on their length, Enrollment
\* implements the table on which every operation is a single step.
THEOREM StoreCorrect == Spec => TokenStoreImplemented
  <1>1. Init => Store!Init
    BY TimesAssumption DEF Init, Store!Init, NoToken, DbNow
  <1>2. IInv /\ [Next]_vars => [Store!Next]_(Store!vars)
    <2> SUFFICES ASSUME IInv, [Next]_vars
                 PROVE  Store!Next \/ UNCHANGED <<DbNow, rows, tok>>
      BY DEF Store!vars
    <2>1. CASE Tick
      <3>1. DbNow' = DbNow + 1 /\ UNCHANGED <<rows, tok>>
        BY <2>1, TimesAssumption DEF Tick, DbNow, IInv, TypeOK
      <3> QED
        BY <3>1 DEF Store!Next, Store!Advance
    <2>2. ASSUME NEW r \in Reqs, NEW got \in BOOLEAN, Commit(r, got)
          PROVE  Store!Next
      <3>1. CASE req[r].new = None
        BY <2>2, <3>1, CommitClears DEF Store!Next
      <3>2. CASE req[r].new # None /\ req[r].op = "login"
        <4>1. req[r].node \in Nodes /\ req[r].new \in Tokens
          BY <2>2, <3>2, CommitIssues, CommitValues DEF Commit
        <4>2. Store!Enroll(req[r].node, req[r].new)
          BY <2>2, <3>2, CommitEnrolls
        <4>3. \E m \in Nodes, k \in Tokens : Store!Enroll(m, k)
          <5>1. PICK m \in Nodes, k \in Tokens : m = req[r].node /\ k = req[r].new
            BY <4>1
          <5>2. Store!Enroll(m, k)
            BY <4>2, <5>1 DEF Store!Enroll, Store!Issue
          <5> QED
            BY <5>2
        <4> QED
          BY <4>3 DEF Store!Next
      <3>3. CASE req[r].new # None /\ req[r].op = "refresh"
        <4>1. req[r].old \in Tokens /\ req[r].new \in Tokens
          BY <2>2, <3>3, CommitIssues, CommitRotates
        <4>2. Store!Rotate(req[r].old, req[r].new)
          BY <2>2, <3>3, CommitRotates
        <4>3. \E t, k \in Tokens : Store!Rotate(t, k)
          <5>1. PICK t \in Tokens, k \in Tokens : t = req[r].old /\ k = req[r].new
            BY <4>1
          <5>2. Store!Rotate(t, k)
            BY <4>2, <5>1 DEF Store!Rotate, Store!Issue
          <5> QED
            BY <5>2
        <4> QED
          BY <4>3 DEF Store!Next
      <3> QED
        BY <2>2, <3>1, <3>2, <3>3, CommitValues DEF Commit
    <2>3. CASE ~Tick /\ ~(\E r \in Reqs, got \in BOOLEAN : Commit(r, got))
      <3>1. UNCHANGED <<rows, tok, now>>
        BY <2>3, TokensKept
        DEF Next, vars, HandleSetup, Accept, HandleAgentLogin,
            HandleAgentRefresh, HandleRevokeEnrollment, Step, BeginTx,
            LockNode, EnrollNode, EnrollRefused, RotateRefreshToken,
            RevokeEnrollment, Rollback
      <3> QED
        BY <3>1 DEF DbNow
    <2> QED
      BY <2>1, <2>2, <2>3
  <1>3. Spec => []IInv
    BY InitInv, NextInv, PTL DEF Spec
  <1> QED
    BY <1>1, <1>2, <1>3, PTL DEF Spec, TokenStoreImplemented, Store!Spec
=============================================================================
