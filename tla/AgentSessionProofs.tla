------------------------- MODULE AgentSessionProofs -------------------------
(***************************************************************************)
(* Proofs about AgentSession, for any number of rotations and crashes: the *)
(* pair on the agent's disk keeps in step with the server's, and the agent *)
(* is never locked out without a mishap or the expiry of its last pair.    *)
(*                                                                         *)
(* Neither property is inductive.  The inductive invariant adds what the   *)
(* pair in memory is (it will be sent next), that a call and its reply     *)
(* exist only while the agent waits for them, and that no pair is newer    *)
(* than the last one issued.                                               *)
(***************************************************************************)
EXTENDS AgentSession, TLAPS

\* A request is the agent's current one, sent once, and is not the last pair
\* of the bound; a reply excludes a request.
CallInv ==
    /\ call # 0 => pc = "refresh" /\ call = mem /\ reply = None
    /\ reply # None => pc = "refresh" /\ call = 0
    /\ pc = "down" => mem = 0
    /\ call < MaxPairs /\ MaxPairs \notin late

\* Pairs are issued one after the other, and the stored one is the last.
IssueInv ==
    /\ mem <= last /\ file <= last
    /\ reply # None => reply <= last
    /\ srv \in {0, last}
    /\ last = MaxPairs => MaxPairs \in valid

\* The pair in memory and a reply, when nothing was lost and nothing expired.
MemInv ==
    ~mishap /\ Alive =>
        /\ srv # 0
        /\ mem # 0 => mem = srv \/ reply = srv
        /\ reply \notin {None, 0} => reply = srv

IInv == TypeOK /\ CallInv /\ IssueInv /\ MemInv /\ TokensInStep

LEMMA InitInv == Init => IInv
<1> SUFFICES ASSUME Init PROVE IInv
  OBVIOUS
<1> USE SessionAssumption DEF Init
<1>1. TypeOK
  <2>1. 1 \in Pairs /\ Pairs \subseteq 0 .. MaxPairs
    BY DEF Pairs
  <2>2. late \in SUBSET Pairs /\ valid \in SUBSET Pairs /\ refreshable \in SUBSET Pairs
    BY <2>1
  <2>3. up \in BOOLEAN /\ busy \in BOOLEAN /\ mishap \in BOOLEAN
    BY Zenon
  <2>4. mem \in 0 .. MaxPairs /\ file \in 0 .. MaxPairs
    BY <2>1
  <2>5. call \in 0 .. MaxPairs /\ srv \in 0 .. MaxPairs /\ last \in Pairs
    BY <2>1
  <2> QED
    BY <2>2, <2>3, <2>4, <2>5 DEF TypeOK
<1>2. CallInv
  BY DEF CallInv
<1>3. IssueInv
  BY DEF IssueInv
<1>4. MemInv /\ TokensInStep
  BY DEF MemInv, TokensInStep, Alive
<1> QED
  BY <1>1, <1>2, <1>3, <1>4 DEF IInv

\* Steps of the agent that change nothing but where it is.
LEMMA MoveInv ==
  ASSUME IInv,
         pc # "save", reply = None, call = 0,
         pc' \in {"connect", "ws", "wait", "poll"},
         mode' \in {"ws", "poll"},
         UNCHANGED <<mem, file, callVars, srvVars, envVars, mishap>>,
         pc # "down"
  PROVE  IInv'
  BY SessionAssumption
  DEF IInv, TypeOK, CallInv, IssueInv, MemInv, TokensInStep, Alive, Pairs, callVars,
      srvVars, envVars

LEMMA SendInv ==
  ASSUME IInv, pc \in {"connect", "poll"}, mem # 0, mem \notin valid,
         SendRefresh
  PROVE  IInv'
<1>1. mem < MaxPairs
  BY SessionAssumption DEF IInv, TypeOK, IssueInv, Pairs
<1>2. reply = None /\ call = 0
  BY DEF IInv, CallInv
<1> QED
  BY <1>1, <1>2, SessionAssumption
  DEF SendRefresh, IInv, TypeOK, CallInv, IssueInv, MemInv, TokensInStep,
      Alive, Pairs, srvVars, envVars

\* A call is given up, because it failed or because the agent died: a reply
\* on its way and a pair that was not yet saved are lost.
LEMMA GiveUpInv ==
  ASSUME IInv, Abandon,
         pc' \in {"poll", "down"}, mode' \in {"ws", "poll"},
         mem' \in {0, mem}, pc' = "down" => mem' = 0,
         pc' = "poll" => pc = "refresh",
         UNCHANGED <<file, srvVars>>,
         crashes' \in Nat, up' \in BOOLEAN, busy' \in BOOLEAN,
         mishap' = (mishap \/ pc = "save" \/ reply \in Pairs)
  PROVE  IInv'
<1> USE SessionAssumption
<1>1. mishap' \in BOOLEAN
  OBVIOUS
<1>2. late' \in SUBSET Pairs /\ MaxPairs \notin late'
  <2>1. call # 0 => call \in Pairs /\ call # MaxPairs
    BY DEF IInv, TypeOK, CallInv, Pairs
  <2>2. late \in SUBSET Pairs /\ MaxPairs \notin late
    BY DEF IInv, TypeOK, CallInv
  <2> QED
    BY <2>1, <2>2 DEF Abandon
<1>3. TypeOK'
  BY <1>1, <1>2 DEF Abandon, IInv, TypeOK, srvVars
<1>4. CallInv'
  BY <1>2 DEF Abandon, CallInv
<1>5. IssueInv'
  BY DEF Abandon, IInv, TypeOK, IssueInv, srvVars, Pairs
<1>6. ~mishap' => ~mishap /\ pc # "save" /\ reply \notin Pairs
  OBVIOUS
<1>7. ~mishap' /\ Alive' => srv # 0 /\ reply \in {None, 0} /\ reply # srv
  BY <1>6 DEF IInv, TypeOK, MemInv, Alive, srvVars, Pairs
<1>8. MemInv'
  BY <1>6, <1>7 DEF IInv, MemInv, Alive, Abandon, srvVars
<1>9. TokensInStep'
  BY <1>6, <1>7 DEF IInv, TypeOK, TokensInStep, Alive, Abandon, srvVars
<1> QED
  BY <1>3, <1>4, <1>5, <1>8, <1>9 DEF IInv

LEMMA AgentInv == ASSUME IInv, AgentStep \/ ReadError PROVE IInv'
<1> USE SessionAssumption
<1>1. CASE Boot
  BY <1>1
  DEF Boot, IInv, TypeOK, CallInv, IssueInv, MemInv, TokensInStep, Alive, Pairs,
      callVars, srvVars, envVars
<1>2. CASE NoTokens \/ DialOk \/ DialError \/ ReadError \/ Retry
  <2>1. reply = None /\ call = 0
    BY <1>2 DEF NoTokens, DialOk, DialError, ReadError, Retry, IInv, CallInv
  <2> QED
    BY <1>2, <2>1, MoveInv
    DEF NoTokens, DialOk, DialError, ReadError, Retry, EnterPolling, IInv,
        TypeOK
<1>3. CASE DialUnauthorized \/ PollUnauthorized
  BY <1>3, SendInv DEF DialUnauthorized, PollUnauthorized
<1>4. CASE RefreshOk
  BY <1>4
  DEF RefreshOk, IInv, TypeOK, CallInv, IssueInv, MemInv, TokensInStep, Alive, Pairs,
      srvVars, envVars
<1>5. CASE RefreshDenied
  <2>1. ~mishap /\ Alive => srv # 0 /\ reply # srv
    BY <1>5 DEF RefreshDenied, IInv, MemInv
  <2> QED
    BY <1>5, <2>1
    DEF RefreshDenied, EnterPolling, IInv, TypeOK, CallInv, IssueInv, MemInv,
        TokensInStep, Alive, Pairs, srvVars, envVars
<1>6. CASE RefreshFails
  BY <1>6, GiveUpInv DEF RefreshFails, EnterPolling, envVars, IInv, TypeOK
<1>7. CASE SaveTokens
  BY <1>7
  DEF SaveTokens, IInv, TypeOK, CallInv, IssueInv, MemInv, TokensInStep,
      Alive, Pairs, callVars, srvVars, envVars
<1> QED
  BY <1>1, <1>2, <1>3, <1>4, <1>5, <1>6, <1>7 DEF AgentStep

LEMMA CrashInv == ASSUME IInv, Crash PROVE IInv'
<1>1. crashes' \in Nat /\ up' \in BOOLEAN /\ busy' \in BOOLEAN
  BY DEF Crash, IInv, TypeOK
<1> QED
  BY <1>1, GiveUpInv DEF Crash

\* What a rotation does to the server's side: it stays within the bound and
\* only a token that is not stored or has expired revokes the enrollment.
LEMMA RotateInv ==
  ASSUME IInv, NEW t \in 1 .. (MaxPairs - 1), Rotate(t) \/ Expired(t)
  PROVE  /\ srv' \in 0 .. MaxPairs /\ last' \in Pairs
         /\ valid' \in SUBSET Pairs /\ refreshable' \in SUBSET Pairs
         /\ last <= last' /\ srv' \in {0, last'}
         /\ last' = MaxPairs => MaxPairs \in valid'
         /\ t = srv /\ t \in refreshable => srv' = last' /\ srv' # 0
         /\ t # srv \/ t \notin refreshable =>
               srv' \in {0, srv} /\ UNCHANGED <<last, refreshable>>
<1> USE SessionAssumption
<1>1. CASE t = srv /\ t \in refreshable
  <2>1. last = t /\ last + 1 \in Pairs
    BY <1>1 DEF IInv, IssueInv, Pairs
  <2>2. /\ last' = last + 1 /\ srv' = last + 1
        /\ valid' = valid \cup {last + 1}
        /\ refreshable' = refreshable \cup {last + 1}
    BY <1>1 DEF Rotate, Expired
  <2> QED
    BY <1>1, <2>1, <2>2 DEF IInv, TypeOK, Pairs
<1>2. CASE t # srv \/ t \notin refreshable
  <2>1. /\ srv' \in {0, srv} /\ valid' = valid /\ last' = last
        /\ refreshable' = refreshable
    BY <1>2 DEF Rotate, Expired, srvVars
  <2>2. last \in Nat /\ MaxPairs \in Nat
    BY DEF IInv, TypeOK, Pairs
  <2> QED
    BY <1>2, <2>1, <2>2 DEF IInv, TypeOK, IssueInv
<1> QED
  BY <1>1, <1>2

LEMMA RefreshInv == ASSUME IInv, HandleAgentRefresh PROVE IInv'
<1> USE SessionAssumption
<1>1. call \in 1 .. (MaxPairs - 1)
  BY DEF HandleAgentRefresh, IInv, TypeOK, CallInv
<1>2. /\ Rotate(call) \/ Expired(call)
      /\ reply' \in {0, srv'}
      /\ Rotate(call) => reply' = srv'
      /\ call \in refreshable => reply' = srv'
  BY DEF HandleAgentRefresh, Rotate, Expired
<1>3. ~mishap /\ Alive => call = srv /\ call = last /\ call \in refreshable
  BY <1>1 DEF IInv, CallInv, IssueInv, MemInv, Alive, HandleAgentRefresh, TypeOK
<1>4. ~mishap /\ Alive' => Alive
  BY <1>1, <1>2, RotateInv
  DEF Alive, IInv, IssueInv
<1>5. /\ ~mishap' /\ Alive' => reply' = srv' /\ srv' # 0
      /\ ~mishap' => ~mishap
  BY <1>1, <1>2, <1>3, <1>4, RotateInv DEF HandleAgentRefresh
<1>6. /\ pc' = pc /\ mode' = mode /\ mem' = mem /\ file' = file
      /\ late' = late /\ call' = 0 /\ UNCHANGED envVars /\ mishap' = mishap
      /\ pc = "refresh"
  BY <1>1 DEF HandleAgentRefresh, agentVars, IInv, CallInv
<1>7. TypeOK' /\ CallInv' /\ IssueInv'
  BY <1>1, <1>2, <1>6, RotateInv
  DEF IInv, TypeOK, CallInv, IssueInv, Pairs, envVars
<1>8. MemInv' /\ TokensInStep'
  BY <1>5, <1>6 DEF MemInv, TokensInStep
<1> QED
  BY <1>7, <1>8 DEF IInv

LEMMA RefuseInv == ASSUME IInv, RefuseRefresh PROVE IInv'
<1> USE SessionAssumption
<1>1. call \in 1 .. (MaxPairs - 1)
  BY DEF RefuseRefresh, IInv, TypeOK, CallInv
<1>2. ~mishap /\ Alive => call = srv
  BY <1>1 DEF IInv, CallInv, MemInv, RefuseRefresh, TypeOK
<1> QED
  BY <1>1, <1>2
  DEF RefuseRefresh, IInv, TypeOK, CallInv, IssueInv, MemInv, TokensInStep,
      Alive, Pairs, agentVars, srvVars, envVars

LEMMA LateInv == ASSUME IInv, NEW t \in late, HandleLate(t) PROVE IInv'
<1> USE SessionAssumption
<1>1. t \in 1 .. (MaxPairs - 1)
  BY DEF IInv, TypeOK, CallInv, Pairs
<1> QED
  BY <1>1, RotateInv
  DEF HandleLate, IInv, TypeOK, CallInv, IssueInv, MemInv, TokensInStep,
      Pairs, agentVars, envVars

LEMMA NextInv == IInv /\ [Next]_vars => IInv'
<1> SUFFICES ASSUME IInv, [Next]_vars PROVE IInv'
  OBVIOUS
<1>1. CASE AgentStep \/ ReadError
  BY <1>1, AgentInv
<1>2. CASE Crash
  BY <1>2, CrashInv
<1>3. CASE HandleAgentRefresh
  BY <1>3, RefreshInv
<1>8. CASE RefuseRefresh
  BY <1>8, RefuseInv
<1>4. CASE \E t \in late : HandleLate(t)
  BY <1>4, LateInv
<1>5. CASE \E p \in valid : AccessExpires(p)
  BY <1>5, SessionAssumption
  DEF AccessExpires, IInv, TypeOK, CallInv, IssueInv, MemInv, TokensInStep,
      Alive, Pairs, agentVars, callVars, envVars
<1>10. CASE \E p \in refreshable : RefreshExpires(p)
  BY <1>10, SessionAssumption
  DEF RefreshExpires, IInv, TypeOK, CallInv, IssueInv, MemInv, TokensInStep,
      Alive, Pairs, agentVars, callVars, envVars
<1>6. CASE Outage
  BY <1>6
  DEF Outage, IInv, TypeOK, CallInv, IssueInv, MemInv, TokensInStep, Alive, Pairs,
      agentVars, callVars, srvVars
<1>9. CASE Congestion
  BY <1>9
  DEF Congestion, IInv, TypeOK, CallInv, IssueInv, MemInv, TokensInStep, Alive, Pairs,
      agentVars, callVars, srvVars
<1>7. CASE UNCHANGED vars
  BY <1>7
  DEF vars, IInv, TypeOK, CallInv, IssueInv, MemInv, TokensInStep, Alive, Pairs,
      agentVars, callVars, srvVars, envVars
<1> QED
  BY <1>1, <1>2, <1>3, <1>4, <1>5, <1>6, <1>7, <1>8, <1>9,
     <1>10 DEF Next

\* Types, and the bound on pairs, which no guard enforces: the server only
\* rotates for an agent whose access token has expired.
THEOREM SessionTypeCorrect == Spec => []TypeOK
<1>1. IInv => TypeOK
  BY DEF IInv
<1> QED
  BY <1>1, InitInv, NextInv, PTL DEF Spec

\* Until its refresh token expires, the pair on disk is the server's, or its
\* successor is on its way there (refreshTokens, saveTokens and
\* RotateRefreshToken), unless a rotated pair was lost or a late request was
\* handled.
THEOREM TokensCorrect == Spec => []TokensInStep
<1>1. IInv => TokensInStep
  BY DEF IInv
<1> QED
  BY <1>1, InitInv, NextInv, PTL DEF Spec

\* The server revokes the agent's tokens only after such a mishap or when the
\* last refresh token has expired unused: no crash, refusal, lost request or
\* outage of less than seven days alone gets there.
THEOREM LockoutCorrect == Spec => []LockedOutOnlyByMishap
<1>1. IInv => LockedOutOnlyByMishap
  BY DEF IInv, MemInv, LockedOutOnlyByMishap, TypeOK
<1> QED
  BY <1>1, InitInv, NextInv, PTL DEF Spec

-----------------------------------------------------------------------------
(* The server of AgentSession is one row of the table that the enrollment  *)
(* transactions implement (TokenStore, StoreCorrect in OwnershipProofs):   *)
(* it keeps to the same operations, a rotation of the stored token or the  *)
(* withdrawal of all tokens, whatever the agent and the network do.  The   *)
(* table's rotation does not ask for the time, and a refused token leaves  *)
(* it alone or withdraws all: the abstract clock stands still.             *)

\* The node of a pair: the one agent, once the pair was issued.
PairHolder == [p \in Pairs |-> IF p <= last THEN 1 ELSE None]

PairExpiry == [p \in Pairs |-> IF p <= last THEN 1 ELSE 0]

Server == INSTANCE TokenStore
          WITH Nodes <- {1}, Tokens <- Pairs, Life <- 1, clock <- 0,
               stored <- {srv} \ {0}, holder <- PairHolder,
               expiry <- PairExpiry

\* Handling a refresh, in time or late, is one step of the token table.
LEMMA RotateIsStoreStep ==
  ASSUME IInv, NEW t \in 1 .. (MaxPairs - 1), Rotate(t) \/ Expired(t)
  PROVE  Server!Next \/ UNCHANGED Server!vars
<1> USE SessionAssumption
<1>1. /\ srv \in 0 .. MaxPairs /\ last \in 1 .. MaxPairs /\ srv \in {0, last}
      /\ t \in Pairs
  BY DEF IInv, TypeOK, IssueInv, Pairs
<1>2. CASE t = srv /\ t \in refreshable
  <2> DEFINE k == last + 1
  <2>1. /\ last = t /\ k \in Pairs /\ k # 0
        /\ last' = k /\ srv' = k
    BY <1>1, <1>2 DEF Rotate, Expired, Pairs
  <2>2. ({srv} \ {0})' = (({srv} \ {0}) \ {t}) \cup {k} /\ t \in {srv} \ {0}
    BY <1>2, <2>1
  <2>3. PairHolder[k] = None /\ PairHolder[t] = 1
    BY <1>1, <2>1 DEF PairHolder, Pairs
  <2>4. \A p \in Pairs : p <= last' <=> p <= last \/ p = k
    BY <1>1, <2>1 DEF Pairs
  <2> HIDE DEF k
  <2>5. PairHolder' = [PairHolder EXCEPT ![k] = 1]
    BY <2>4 DEF PairHolder
  <2>6. PairExpiry' = [PairExpiry EXCEPT ![k] = 1]
    BY <2>4 DEF PairExpiry
  <2>7. 1 \in 0 + 1 .. 0 + 1
    OBVIOUS
  <2>8. Server!Issue(1, k)
    BY <2>3, <2>5, <2>6, <2>7 DEF Server!Issue
  <2>9. Server!Rotate(t, k)
    BY <2>2, <2>3, <2>8 DEF Server!Rotate
  <2>10. \E u, v \in Pairs : Server!Rotate(u, v)
    <3>1. PICK v \in Pairs : v = k
      BY <2>1
    <3>2. Server!Rotate(t, v)
      BY <2>9, <3>1 DEF Server!Rotate, Server!Issue
    <3> QED
      BY <1>1, <3>2
  <2> QED
    BY <2>10 DEF Server!Next
<1>3. CASE (t # srv \/ t \notin refreshable) /\ Rotate(t)
  <2>1. srv' = 0 /\ last' = last
    BY <1>3 DEF Rotate
  <2>2. {p \in {srv} \ {0} : PairHolder[p] # 1} = {}
    <3>1. srv # 0 => srv \in Pairs /\ srv <= last
      BY <1>1 DEF Pairs
    <3>2. srv # 0 => PairHolder[srv] = 1
      BY <3>1 DEF PairHolder
    <3> QED
      BY <3>2
  <2>3. UNCHANGED <<PairHolder, PairExpiry>>
    BY <2>1 DEF PairHolder, PairExpiry
  <2>4. Server!Clear(1)
    BY <2>1, <2>2, <2>3 DEF Server!Clear
  <2>5. \E m \in {1} : Server!Clear(m)
    BY <2>4, Zenon
  <2> QED
    BY <2>5 DEF Server!Next
<1>4. CASE (t # srv \/ t \notin refreshable) /\ Expired(t)
  BY <1>4 DEF Expired, srvVars, Server!vars, PairHolder, PairExpiry
<1> QED
  BY <1>2, <1>3, <1>4

\* The refresh endpoint the agent talks to behaves as the token table does,
\* across crashes, lost replies and requests that are handled late.
THEOREM SessionServerCorrect == Spec => [][Server!Next]_(Server!vars)
<1>1. IInv /\ [Next]_vars => [Server!Next]_(Server!vars)
  <2> SUFFICES ASSUME IInv, [Next]_vars
               PROVE  Server!Next \/ UNCHANGED Server!vars
    OBVIOUS
  <2>1. CASE HandleAgentRefresh
    <3>1. call \in 1 .. (MaxPairs - 1)
      BY <2>1, SessionAssumption DEF HandleAgentRefresh, IInv, TypeOK, CallInv
    <3> QED
      BY <2>1, <3>1, RotateIsStoreStep DEF HandleAgentRefresh
  <2>2. CASE \E t \in late : HandleLate(t)
    <3>1. \A t \in late : t \in 1 .. (MaxPairs - 1)
      BY SessionAssumption DEF IInv, TypeOK, CallInv, Pairs
    <3> QED
      BY <2>2, <3>1, RotateIsStoreStep DEF HandleLate
  <2>3. CASE ~HandleAgentRefresh /\ ~(\E t \in late : HandleLate(t))
    <3>1. UNCHANGED <<srv, last>>
      BY <2>3
      DEF Next, vars, AgentStep, Boot, NoTokens, DialOk, DialUnauthorized,
          DialError, SendRefresh, RefreshOk, RefreshDenied, RefreshFails,
          SaveTokens, Retry, PollUnauthorized, ReadError, Crash,
          RefuseRefresh, AccessExpires, RefreshExpires, Outage, Congestion, srvVars
    <3> QED
      BY <3>1 DEF Server!vars, PairHolder, PairExpiry
  <2> QED
    BY <2>1, <2>2, <2>3
<1> QED
  BY <1>1, InitInv, NextInv, PTL DEF Spec
=============================================================================
