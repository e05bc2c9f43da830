---------------------------- MODULE AgentSession ----------------------------
(***************************************************************************)
(* How one agent keeps its session with the control plane: the connection  *)
(* loop of RunAgent, the polling fallback, the rotation of the token pair  *)
(* and tokens.json (agent/cmd/patchli-agent), against the refresh endpoint *)
(* of the server, whose rotation revokes a refresh token that is presented *)
(* twice.  The agent may die at any moment and is started again; requests  *)
(* and replies are lost while the controller is unreachable, and a request *)
(* the agent gave up on may still be handled.                              *)
(*                                                                         *)
(* A token pair is a number, 1 for the first one; 0 stands for no pair.    *)
(***************************************************************************)
EXTENDS Naturals

CONSTANTS
    None,       \* no reply yet
    PollRoute,  \* whether the controller serves /api/v1/poll
    MaxPairs,   \* bound: pairs the server issues
    MaxCrashes  \* bound: how often the agent dies

ASSUME SessionAssumption ==
    /\ None \notin Nat /\ PollRoute \in BOOLEAN
    /\ MaxPairs \in Nat \ {0} /\ MaxCrashes \in Nat

VARIABLES
    pc,      \* where the agent is
    mode,    \* the loop it is in: "ws" (connectAndRun) or "poll"
    mem,     \* tokens, in memory
    file,    \* tokens.json
    call,    \* refresh token of the request in progress, or 0
    reply,   \* its reply: None, 0 for a refusal, or the new pair
    late,    \* refresh tokens of requests the agent has given up on
    srv,     \* the refresh token the server has stored, 0 if none
    valid,   \* pairs whose access token has not expired
    refreshable, \* pairs whose refresh token has not expired
    last,    \* the last pair issued
    up,      \* whether the controller can be reached
    busy,    \* whether the rate limiter or the database refuses refreshes
    crashes, \* how often the agent has died
    mishap   \* history: a rotated pair was lost before it was stored, or a
             \* request was handled after the agent gave up on it

agentVars == <<pc, mode, mem, file>>
callVars == <<call, reply, late>>
srvVars == <<srv, valid, refreshable, last>>
envVars == <<up, busy, crashes>>
vars == <<agentVars, callVars, srvVars, envVars, mishap>>

Pairs == 1 .. MaxPairs

Init ==
    /\ pc = "down" /\ mode = "ws"
    /\ mem = 0
    /\ file \in {0, 1}
    /\ call = 0 /\ reply = None /\ late = {}
    /\ srv = 1 /\ valid = {1} /\ refreshable = {1} /\ last = 1
    /\ up \in BOOLEAN /\ busy = FALSE
    /\ crashes = 0
    /\ mishap = FALSE

-----------------------------------------------------------------------------
(* RunAgent.                                                               *)

\* The service manager or the watchdog starts the agent, which loads its
\* tokens.
Boot ==
    /\ pc = "down"
    /\ mem' = file
    /\ pc' = "connect" /\ mode' = "ws"
    /\ UNCHANGED <<file, callVars, srvVars, envVars, mishap>>

\* startHTTPPolling, which only returns when the agent is stopped.
EnterPolling == pc' = "poll" /\ mode' = "poll"

NoTokens ==
    /\ pc = "connect" /\ mem = 0
    /\ EnterPolling
    /\ UNCHANGED <<mem, file, callVars, srvVars, envVars, mishap>>

DialOk ==
    /\ pc = "connect" /\ mem # 0
    /\ up /\ mem \in valid
    /\ pc' = "ws"
    /\ UNCHANGED <<mode, mem, file, callVars, srvVars, envVars, mishap>>

\* refreshTokens sends the refresh token it has in memory.
SendRefresh ==
    /\ call' = mem
    /\ pc' = "refresh"
    /\ UNCHANGED <<mode, mem, file, reply, late, srvVars, envVars, mishap>>

DialUnauthorized ==
    /\ pc = "connect" /\ mem # 0
    /\ up /\ mem \notin valid
    /\ SendRefresh

DialError ==
    /\ pc = "connect" /\ mem # 0
    /\ ~up
    /\ EnterPolling
    /\ UNCHANGED <<mem, file, callVars, srvVars, envVars, mishap>>

\* Mutant: the new pair is written to disk but not used.
RefreshOkStale ==
    /\ pc = "refresh" /\ reply \in Pairs
    /\ reply' = None
    /\ pc' = "save"
    /\ UNCHANGED <<mode, mem, file, call, late, srvVars, envVars, mishap>>

\* The reply arrives: a new pair ...
RefreshOk ==
    /\ pc = "refresh" /\ reply \in Pairs
    /\ mem' = reply
    /\ reply' = None
    /\ pc' = "save"
    /\ UNCHANGED <<mode, file, call, late, srvVars, envVars, mishap>>

\* ... or a refusal.
RefreshDenied ==
    /\ pc = "refresh" /\ reply = 0
    /\ reply' = None
    /\ EnterPolling
    /\ UNCHANGED <<mem, file, call, late, srvVars, envVars, mishap>>

\* What becomes of a call nobody waits for: it was not sent or is handled
\* late, and a reply on its way is lost.
Abandon ==
    /\ call' = 0 /\ reply' = None
    /\ \/ late' = late
       \/ call # 0 /\ late' = late \cup {call}

RefreshFails ==
    /\ pc = "refresh" /\ ~up
    /\ Abandon
    /\ mishap' = (mishap \/ reply \in Pairs)
    /\ EnterPolling
    /\ UNCHANGED <<mem, file, srvVars, envVars>>

\* writeTokens replaces the file in one rename or fails, and the error is
\* ignored; then "retry" or the next poll.
SaveTokens ==
    /\ pc = "save"
    /\ pc' = IF mode = "ws" THEN "connect" ELSE "poll"
    /\ \/ file' = mem /\ UNCHANGED mishap
       \/ mishap' = TRUE /\ UNCHANGED file
    /\ UNCHANGED <<mode, mem, callVars, srvVars, envVars>>

\* The connection breaks; 30 seconds later the agent dials again.
ReadError ==
    /\ pc = "ws"
    /\ pc' = "wait"
    /\ UNCHANGED <<mode, mem, file, callVars, srvVars, envVars, mishap>>

\* Mutant: the agent keeps waiting.
RetryNever ==
    /\ pc = "wait" /\ mem = 0
    /\ pc' = "connect"
    /\ UNCHANGED <<mode, mem, file, callVars, srvVars, envVars, mishap>>

Retry ==
    /\ pc = "wait"
    /\ pc' = "connect"
    /\ UNCHANGED <<mode, mem, file, callVars, srvVars, envVars, mishap>>

\* A poll is answered 401 and the agent has tokens.  Every other answer
\* leaves the agent polling with the tokens it has.
PollUnauthorized ==
    /\ pc = "poll" /\ mem # 0
    /\ PollRoute /\ up /\ mem \notin valid
    /\ SendRefresh

AgentStep ==
    \/ Boot \/ NoTokens \/ DialOk \/ DialUnauthorized \/ DialError
    \/ RefreshOk \/ RefreshDenied \/ RefreshFails \/ SaveTokens
    \/ Retry \/ PollUnauthorized

\* The agent dies, wherever it is; what it had in memory is gone.
Crash ==
    /\ pc # "down" /\ crashes < MaxCrashes
    /\ pc' = "down" /\ mode' = "ws"
    /\ mem' = 0
    /\ Abandon
    /\ mishap' = (mishap \/ pc = "save" \/ reply \in Pairs)
    /\ crashes' = crashes + 1
    /\ UNCHANGED <<file, srvVars, up, busy>>

-----------------------------------------------------------------------------
(* The server.                                                             *)

\* RotateRefreshToken: a stored token that has not expired is exchanged for a
\* new pair, any other one counts as stolen and revokes the enrollment.
Rotate(t) ==
    \/ /\ t = srv /\ t \in refreshable
       /\ last' = last + 1
       /\ srv' = last + 1
       /\ valid' = valid \cup {last + 1}
       /\ refreshable' = refreshable \cup {last + 1}
    \/ /\ t # srv \/ t \notin refreshable
       /\ srv' = 0
       /\ UNCHANGED <<valid, refreshable, last>>

\* ValidateRefreshToken refuses an expired token before the database is asked.
\* One that expires after that check reaches RotateRefreshToken all the same.
Expired(t) == t \notin refreshable /\ UNCHANGED srvVars

HandleAgentRefresh ==
    /\ call # 0 /\ ~busy
    /\ \/ Rotate(call) /\ reply' = srv'
       \/ Expired(call) /\ reply' = 0
    /\ call' = 0
    /\ UNCHANGED <<agentVars, late, envVars, mishap>>

\* Mutant: a refusal of the limiter counts as one of the token.
RefuseRevoking ==
    /\ call # 0 /\ busy
    /\ reply' = 0 /\ srv' = 0
    /\ call' = 0
    /\ UNCHANGED <<agentVars, late, valid, refreshable, last, envVars, mishap>>

\* The limiter answers 429, or the rotation is rolled back and answered 500:
\* a refusal for the agent, while its token stays stored.
RefuseRefresh ==
    /\ call # 0 /\ busy
    /\ reply' = 0
    /\ call' = 0
    /\ UNCHANGED <<agentVars, late, srvVars, envVars, mishap>>

HandleLate(t) ==
    /\ t \in late /\ ~busy
    /\ Rotate(t) \/ Expired(t)
    /\ late' = late \ {t}
    /\ mishap' = TRUE
    /\ UNCHANGED <<agentVars, call, reply, envVars>>

\* AccessTokenDuration has passed (the last pair of the bound stays valid).
AccessExpires(p) ==
    /\ p \in valid /\ p < MaxPairs
    /\ valid' = valid \ {p}
    /\ UNCHANGED <<agentVars, callVars, srv, refreshable, last, envVars, mishap>>

\* RefreshTokenDuration has passed, long after AccessTokenDuration: the agent
\* was on one socket or cut off all the time, or the pair is an old one.
RefreshExpires(p) ==
    /\ p \in refreshable /\ p \notin valid
    /\ refreshable' = refreshable \ {p}
    /\ UNCHANGED <<agentVars, callVars, srv, valid, last, envVars, mishap>>

Outage ==
    /\ up' = ~up
    /\ UNCHANGED <<agentVars, callVars, srvVars, busy, crashes, mishap>>

\* Other clients of the agent's address use up its budget, or the database
\* fails; or that is over.
Congestion ==
    /\ busy' = ~busy
    /\ UNCHANGED <<agentVars, callVars, srvVars, up, crashes, mishap>>

Next ==
    \/ AgentStep
    \/ ReadError
    \/ Crash
    \/ HandleAgentRefresh \/ RefuseRefresh
    \/ \E t \in late : HandleLate(t)
    \/ \E p \in valid : AccessExpires(p)
    \/ \E p \in refreshable : RefreshExpires(p)
    \/ Outage \/ Congestion

Spec == Init /\ [][Next]_vars

\* The agent runs and is started again, and a request that arrived is
\* answered; outages, congestion, expiry and crashes may or may not happen.
FairSpec ==
    Spec /\ WF_vars(AgentStep) /\ WF_vars(HandleAgentRefresh \/ RefuseRefresh)

-----------------------------------------------------------------------------
(* Properties.                                                             *)

\* Types; a pair is never issued beyond the bound.
TypeOK ==
    /\ pc \in {"down", "connect", "refresh", "save", "ws", "wait", "poll"}
    /\ mode \in {"ws", "poll"}
    /\ mem \in 0 .. MaxPairs /\ file \in 0 .. MaxPairs
    /\ call \in 0 .. MaxPairs
    /\ reply \in {None} \cup 0 .. MaxPairs
    /\ late \in SUBSET Pairs
    /\ srv \in 0 .. MaxPairs
    /\ valid \in SUBSET Pairs /\ refreshable \in SUBSET Pairs
    /\ last \in Pairs
    /\ up \in BOOLEAN /\ busy \in BOOLEAN /\ crashes \in Nat /\ mishap \in BOOLEAN

\* The last pair issued can still be exchanged.
Alive == last \in refreshable

\* As long as its refresh token has not expired, the pair on disk is the one
\* the server has stored, unless its successor is on its way to the disk or
\* was lost (refreshTokens and saveTokens against RotateRefreshToken).
TokensInStep ==
    file # 0 /\ ~mishap /\ Alive =>
        file = srv \/ reply = srv \/ (pc = "save" /\ mem = srv)

\* The agent is locked out in three ways only: a rotated pair did not reach
\* its disk, a request was handled after it had given up on it, or it did not
\* refresh for the seven days of RefreshTokenDuration.  Crashes, refusals,
\* lost requests and shorter outages alone do not lock it out.
LockedOutOnlyByMishap == srv = 0 => mishap \/ ~Alive

Reachable ==
    \/ pc = "ws"
    \/ PollRoute /\ pc = "poll" /\ mem \in valid

\* "HTTP long-polling fallback" (README): once the controller stays reachable,
\* refuses no refresh for other reasons, there was no such mishap and the last
\* refresh token has not expired, an enrolled agent can be sent commands again
\* and again, over the socket or by polling, whatever outages and refusals
\* there were before.
Reconnects ==
    <>[](up /\ ~busy /\ ~mishap /\ Alive /\ file # 0) => []<>Reachable
=============================================================================
