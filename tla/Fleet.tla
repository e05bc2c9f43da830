-------------------------------- MODULE Fleet --------------------------------
(***************************************************************************)
(* The agent connections of the control plane: HandleWebSocket             *)
(* (server/internal/websocket), the registry it shares with every other    *)
(* handler (AgentManager in server/internal/fleet) and the node status it  *)
(* keeps in the database (UpdateNodeStatus and MarkNodeOffline in          *)
(* server/internal/db).                                                    *)
(*                                                                         *)
(* Each connection has a handler goroutine.  The registry is updated under *)
(* its mutex, the database afterwards and outside it, so handlers of two   *)
(* connections of the same node interleave between the two.  A worker that *)
(* sends a command keeps the mutex for the whole write to the socket, and  *)
(* the server can stop at any moment, losing all of this but the database. *)
(***************************************************************************)
CONSTANTS
    Conns,      \* connection slots: how many connections are open at a time
    Nodes,      \* node identities
    None

ASSUME FleetAssumption == None \notin Conns \cup Nodes

VARIABLES
    pc,         \* pc[c]: where the handler of c is, "free" without one
    node,       \* node[c]: subject of the token c was opened with, or None
    claimed,    \* claimed[c]: node ID in the heartbeat being handled
    open,       \* connections that are open on the server's side
    registered, \* handlers whose local variable registered is true
    agents,     \* the registry's agents
    status,     \* the registry's details[m].Status
    dbStatus,   \* nodes.status
    sending,    \* connection SendCommand holds the mutex for, or None
    written,    \* its write has returned
    disturbed   \* history: nodes that had two handlers at a time, lost a
                \* status update or were online when the server stopped, and
                \* whose status no single handler has written since

vars == <<pc, node, claimed, open, registered, agents, status, dbStatus,
          sending, written, disturbed>>

\* What the holder of the registry's mutex is doing, if it keeps it.
mutex == <<sending, written>>

-----------------------------------------------------------------------------

Init ==
    /\ pc = [c \in Conns |-> "free"]
    /\ node = [c \in Conns |-> None]
    /\ claimed = [c \in Conns |-> None]
    /\ open = {}
    /\ registered = {}
    /\ agents = [m \in Nodes |-> None]
    /\ status = [m \in Nodes |-> "none"]
    /\ dbStatus = [m \in Nodes |-> "enrolled"]
    /\ sending = None
    /\ written = FALSE
    /\ disturbed = {}

Goto(c, l) == pc' = [pc EXCEPT ![c] = l]

MutexFree == sending = None

\* An authenticated upgrade: the identity is the subject of the access token.
Connect(c, m) ==
    /\ pc[c] = "free"
    /\ Goto(c, "read")
    /\ node' = [node EXCEPT ![c] = m]
    /\ open' = open \cup {c}
    /\ disturbed' = IF \E d \in Conns : node[d] = m
                    THEN disturbed \cup {m} ELSE disturbed
    /\ UNCHANGED <<claimed, registered, agents, status, dbStatus, mutex>>

\* The peer goes away, or stays silent past the read deadline.
Drop(c) ==
    /\ c \in open
    /\ open' = open \ {c}
    /\ UNCHANGED <<pc, node, claimed, registered, agents, status, dbStatus,
                   mutex, disturbed>>

\* ReadMessage returns a heartbeat reporting node ID m, or no node ID: from an
\* open connection, or one that was buffered before the connection was closed.
ReadHeartbeat(c, m) ==
    /\ pc[c] = "read"
    /\ claimed' = [claimed EXCEPT ![c] = m]
    /\ Goto(c, "heartbeat")
    /\ UNCHANGED <<node, open, registered, agents, status, dbStatus,
                   mutex, disturbed>>

ReadError(c) ==
    /\ pc[c] = "read" /\ c \notin open
    /\ Goto(c, "cleanup")
    /\ UNCHANGED <<node, claimed, open, registered, agents, status, dbStatus,
                   mutex, disturbed>>

Matches(c) == claimed[c] \in {None, node[c]}

\* A heartbeat for another node is rejected and ends the connection.
Reject(c) ==
    /\ pc[c] = "heartbeat" /\ ~Matches(c)
    /\ Goto(c, "cleanup")
    /\ claimed' = [claimed EXCEPT ![c] = None]
    /\ UNCHANGED <<node, open, registered, agents, status, dbStatus,
                   mutex, disturbed>>

\* Mutant: the heartbeat's own node ID is registered, unchecked.
RegisterClaimed(c) ==
    LET m == IF claimed[c] = None THEN node[c] ELSE claimed[c] IN
    /\ pc[c] = "heartbeat" /\ MutexFree
    /\ open' = IF agents[m] = c THEN open ELSE open \ {agents[m]}
    /\ agents' = [agents EXCEPT ![m] = c]
    /\ status' = [status EXCEPT ![m] = "Online"]
    /\ registered' = registered \cup {c}
    /\ Goto(c, "update")
    /\ claimed' = [claimed EXCEPT ![c] = None]
    /\ UNCHANGED <<node, dbStatus, mutex, disturbed>>

\* Mutant: the connection that had the node is not closed.
RegisterKeepingOld(c) ==
    LET m == node[c] IN
    /\ pc[c] = "heartbeat" /\ Matches(c) /\ MutexFree
    /\ agents' = [agents EXCEPT ![m] = c]
    /\ status' = [status EXCEPT ![m] = "Online"]
    /\ registered' = registered \cup {c}
    /\ Goto(c, "update")
    /\ claimed' = [claimed EXCEPT ![c] = None]
    /\ UNCHANGED <<node, open, dbStatus, mutex, disturbed>>

\* Register, under the registry's mutex: take the node over, closing the
\* connection that had it.
Register(c) ==
    LET m == node[c] IN
    /\ pc[c] = "heartbeat" /\ Matches(c) /\ MutexFree
    /\ open' = IF agents[m] = c THEN open ELSE open \ {agents[m]}
    /\ agents' = [agents EXCEPT ![m] = c]
    /\ status' = [status EXCEPT ![m] = "Online"]
    /\ registered' = registered \cup {c}
    /\ Goto(c, "update")
    /\ claimed' = [claimed EXCEPT ![c] = None]
    /\ UNCHANGED <<node, dbStatus, mutex, disturbed>>

\* Node m has no other handler than c.
Alone(c) == \A d \in Conns \ {c} : node[d] # node[c]

\* A status update either reaches the database or fails and is logged.
\* `settles`: whether a written update leaves the node's status right.
WriteStatus(m, s, settles) ==
    \/ /\ dbStatus' = [dbStatus EXCEPT ![m] = s]
       /\ disturbed' = IF settles THEN disturbed \ {m} ELSE disturbed
    \/ disturbed' = disturbed \cup {m} /\ UNCHANGED dbStatus

UpdateNodeStatus(c) ==
    /\ pc[c] = "update"
    /\ WriteStatus(node[c], "online", Alone(c) /\ agents[node[c]] = c)
    /\ Goto(c, "read")
    /\ UNCHANGED <<node, claimed, open, registered, agents, status, mutex>>

\* Mutant: whoever registered once counts as the owner.
OwnsForever(c) == c \in registered

Owns(c) == c \in registered /\ agents[node[c]] = c

\* Mutant: the registry keeps the connection of an ended handler.
UnregisterForgotten(c) ==
    /\ pc[c] = "cleanup" /\ Owns(c) /\ MutexFree
    /\ Goto(c, "offline")
    /\ UNCHANGED <<node, claimed, open, registered, agents, status, dbStatus,
                   mutex, disturbed>>

\* The handler returns: its deferred Close, and its variables are gone.
End(c) ==
    /\ Goto(c, "free")
    /\ node' = [node EXCEPT ![c] = None]
    /\ open' = open \ {c}
    /\ registered' = registered \ {c}

\* markOffline: UnregisterConn, only for the connection that still owns the
\* node ...
UnregisterConn(c) ==
    /\ pc[c] = "cleanup" /\ Owns(c) /\ MutexFree
    /\ agents' = [agents EXCEPT ![node[c]] = None]
    /\ status' = [status EXCEPT ![node[c]] = "offline"]
    /\ Goto(c, "offline")
    /\ UNCHANGED <<node, claimed, open, registered, dbStatus, mutex,
                   disturbed>>

\* (a handler that never registered does not ask the registry).
NotOwner(c) ==
    /\ pc[c] = "cleanup" /\ ~Owns(c)
    /\ c \in registered => MutexFree
    /\ End(c)
    /\ UNCHANGED <<claimed, agents, status, dbStatus, mutex, disturbed>>

\* Mutant: the node's status is not written when its connection ends.
MarkNothing(c) ==
    /\ pc[c] = "offline"
    /\ End(c)
    /\ UNCHANGED <<claimed, agents, status, dbStatus, mutex, disturbed>>

\* ... then MarkNodeOffline, with the mutex released; the deferred Close follows.
MarkNodeOffline(c) ==
    /\ pc[c] = "offline"
    /\ WriteStatus(node[c], "offline", Alone(c))
    /\ End(c)
    /\ UNCHANGED <<claimed, agents, status, mutex>>

-----------------------------------------------------------------------------

\* SendCommand looks the node up under the mutex and starts to write; without
\* a connection it returns ErrAgentOffline at once.
SendCommand(m) ==
    /\ MutexFree /\ agents[m] # None
    /\ sending' = agents[m]
    /\ UNCHANGED <<pc, node, claimed, open, registered, agents, status,
                   dbStatus, written, disturbed>>

\* WriteJSON returns: the peer took the message, or the write failed.  There
\* is no write deadline, so when, if at all, is up to the peer.
WriteReturns ==
    /\ ~MutexFree /\ ~written
    /\ written' = TRUE
    /\ UNCHANGED <<pc, node, claimed, open, registered, agents, status,
                   dbStatus, sending, disturbed>>

\* Mutant: a failed write returns without unlocking.
UnlockForgotten ==
    /\ ~MutexFree /\ written /\ sending \in open
    /\ sending' = None
    /\ written' = FALSE
    /\ UNCHANGED <<pc, node, claimed, open, registered, agents, status,
                   dbStatus, disturbed>>

Unlock ==
    /\ ~MutexFree /\ written
    /\ sending' = None
    /\ written' = FALSE
    /\ UNCHANGED <<pc, node, claimed, open, registered, agents, status,
                   dbStatus, disturbed>>

\* The server stops, orderly or not, and starts again: srv.Shutdown does not
\* wait for hijacked connections, no handler runs its clean-up, and only the
\* database survives.
Restart ==
    /\ pc' = [c \in Conns |-> "free"]
    /\ node' = [c \in Conns |-> None]
    /\ claimed' = [c \in Conns |-> None]
    /\ open' = {} /\ registered' = {}
    /\ agents' = [m \in Nodes |-> None]
    /\ status' = [m \in Nodes |-> "none"]
    /\ sending' = None /\ written' = FALSE
    /\ disturbed' = {m \in Nodes : dbStatus[m] = "online"}
    /\ UNCHANGED dbStatus

Handle(c) ==
    \/ ReadError(c) \/ Reject(c) \/ Register(c) \/ UpdateNodeStatus(c)
    \/ UnregisterConn(c) \/ NotOwner(c) \/ MarkNodeOffline(c)

Next ==
    \/ \E c \in Conns :
         \/ \E m \in Nodes : Connect(c, m)
         \/ Drop(c)
         \/ \E m \in Nodes \cup {None} : ReadHeartbeat(c, m)
         \/ Handle(c)
    \/ \E m \in Nodes : SendCommand(m)
    \/ WriteReturns
    \/ Unlock
    \/ Restart

Spec == Init /\ [][Next]_vars

\* A goroutine runs, and sync.RWMutex hands the lock to its waiters in turn
\* (hence strong fairness).  Buffers are finite, so reading a connection that
\* is closed ends in an error some time.  Heartbeats, drops and the time a
\* write takes are up to the agent.
FairSpec ==
    /\ Spec
    /\ \A c \in Conns : SF_vars(Handle(c)) /\ SF_vars(ReadError(c))
    /\ WF_vars(Unlock)

-----------------------------------------------------------------------------
(* Properties.                                                             *)

InHandler == {"read", "heartbeat", "update", "cleanup", "offline"}

\* Types; a connection has its identity from the moment it is opened.
TypeOK ==
    /\ pc \in [Conns -> {"free"} \cup InHandler]
    /\ node \in [Conns -> Nodes \cup {None}]
    /\ \A c \in Conns : pc[c] # "free" => node[c] \in Nodes
    /\ claimed \in [Conns -> Nodes \cup {None}]
    /\ open \in SUBSET Conns
    /\ registered \in SUBSET Conns
    /\ agents \in [Nodes -> Conns \cup {None}]
    /\ status \in [Nodes -> {"none", "Online", "offline"}]
    /\ dbStatus \in [Nodes -> {"enrolled", "online", "offline"}]
    /\ sending \in Conns \cup {None}
    /\ written \in BOOLEAN
    /\ disturbed \in SUBSET Nodes

\* "the node identity is bound to the token subject for the lifetime of the
\* connection" (HandleWebSocket): commands for a node only ever go to a
\* connection that was opened with that node's token.
IdentityBound == \A m \in Nodes : agents[m] # None => node[agents[m]] = m

\* The registry never keeps a connection whose handler has finished, so
\* SendCommand cannot write into an abandoned connection for good.
RegisteredIsLive ==
    \A m \in Nodes : agents[m] # None => pc[agents[m]] \in InHandler \ {"offline"}

\* The status shown for a node agrees with whether it can be sent commands.
StatusMatchesAgents ==
    \A m \in Nodes : status[m] = "Online" <=> agents[m] # None

\* A node never has two live connections: one that is open and has registered
\* is the one commands go to, until its own handler has unregistered it.  A
\* replaced connection with one more heartbeat to read takes the node back
\* only by closing its successor (Register).
OneOpenConnection ==
    \A c \in registered \cap open :
        pc[c] # "offline" => agents[node[c]] = c

\* "a replaced connection cannot evict its successor" (UnregisterConn): the
\* connection that replaced another is not removed by the other's clean-up,
\* while its own handler goes on.
CleanupSparesSuccessor ==
    [][\A c \in Conns, m \in Nodes :
          /\ agents[m] # None /\ agents[m] # c
          /\ pc[c] = "cleanup" /\ pc'[c] # pc[c]
          /\ pc'[agents[m]] = pc[agents[m]]
          => agents'[m] = agents[m]]_vars

Settled(m) ==
    \A c \in Conns : node[c] = m => pc[c] = "read"

\* When no handler of the node is at work, the database shows it online
\* exactly if the registry has a connection for it.  Two handlers at a time, a
\* lost update or a restart can make it wrong, until the next handler that has
\* the node to itself writes its status.
DbMatchesRegistry ==
    \A m \in Nodes \ disturbed :
        Settled(m) => (dbStatus[m] = "online" <=> agents[m] # None)

\* A connection that is gone, because its peer dropped or because a newer one
\* replaced it, leaves the registry and its handler ends, although clean-up
\* competes with SendCommand for the mutex and heartbeats that were buffered
\* may still register it again; provided every write to a socket returns.
GoneIsCleanedUp ==
    []<>(MutexFree \/ written) =>
        \A c \in Conns :
            pc[c] \in InHandler /\ c \notin open ~>
                pc[c] = "free" /\ \A m \in Nodes : agents[m] # c
=============================================================================
