----------------------------- MODULE FleetProofs -----------------------------
(***************************************************************************)
(* Proofs about Fleet, for any number of nodes and of connections that are *)
(* open at a time.                                                         *)
(***************************************************************************)
EXTENDS Fleet, TLAPS

\* Whoever is in the registry has registered (so that its clean-up will see
\* that it owns the node), and a handler past Register has registered.
RegisteredInv == \A m \in Nodes : agents[m] # None => agents[m] \in registered

IInv ==
    /\ TypeOK
    /\ IdentityBound
    /\ RegisteredIsLive
    /\ RegisteredInv
    /\ StatusMatchesAgents

LEMMA InitInv == Init => IInv
  <1> SUFFICES ASSUME Init PROVE IInv
    OBVIOUS
  <1>1. written \in BOOLEAN
    BY Zenon DEF Init
  <1>2. TypeOK
    BY <1>1 DEF Init, TypeOK, InHandler
  <1>3. /\ IdentityBound /\ RegisteredIsLive /\ RegisteredInv
        /\ StatusMatchesAgents
    BY FleetAssumption
    DEF Init, IdentityBound, RegisteredIsLive, RegisteredInv,
        StatusMatchesAgents
  <1> QED
    BY <1>2, <1>3 DEF IInv

\* A step that leaves the registry alone, and at most moves one handler to a
\* point where it may still be registered.
LEMMA RegistryUntouched ==
  ASSUME IInv, TypeOK', NEW c \in Conns,
         UNCHANGED <<agents, status>>,
         \A d \in Conns \ {c} : pc'[d] = pc[d] /\ node'[d] = node[d],
         registered \ {c} \subseteq registered',
         \A m \in Nodes : agents[m] = c =>
            /\ node'[c] = node[c] /\ pc'[c] \in InHandler \ {"offline"}
            /\ registered \subseteq registered'
  PROVE  IInv'
  BY FleetAssumption
  DEF IInv, TypeOK, IdentityBound, RegisteredIsLive, RegisteredInv,
      StatusMatchesAgents

LEMMA ConnectInv ==
  ASSUME IInv, NEW c \in Conns, NEW m \in Nodes, Connect(c, m) PROVE IInv'
  <1> USE DEF Connect, Goto, mutex
  <1>1. TypeOK'
    BY DEF IInv, TypeOK, InHandler
  <1>2. \A n \in Nodes : agents[n] # c
    BY FleetAssumption DEF IInv, RegisteredIsLive, InHandler
  <1> QED
    BY <1>1, <1>2, RegistryUntouched DEF IInv, TypeOK

\* Drop, ReadHeartbeat, ReadError, Reject and UpdateNodeStatus.
LEMMA LoopInv ==
  ASSUME IInv, NEW c \in Conns,
         \/ Drop(c)
         \/ \E m \in Nodes \cup {None} : ReadHeartbeat(c, m)
         \/ ReadError(c) \/ Reject(c) \/ UpdateNodeStatus(c)
  PROVE  IInv'
  <1> USE DEF Drop, ReadHeartbeat, ReadError, Reject, UpdateNodeStatus,
              WriteStatus, Goto, InHandler, mutex
  <1>1. node[c] \in Nodes \/ pc[c] = "free"
    BY DEF IInv, TypeOK
  <1>2. TypeOK'
    BY <1>1 DEF IInv, TypeOK
  <1>3. \A m \in Nodes : agents[m] = c => pc'[c] \in InHandler \ {"offline"}
    BY FleetAssumption DEF IInv, TypeOK, RegisteredIsLive
  <1> QED
    BY <1>2, <1>3, RegistryUntouched DEF IInv, TypeOK

\* Register enters the connection under the node it was opened for.
LEMMA RegisterInv ==
  ASSUME IInv, NEW c \in Conns, Register(c) PROVE IInv'
  <1> USE DEF Register, Goto, InHandler, mutex, MutexFree
  <1>1. node[c] \in Nodes
    BY DEF IInv, TypeOK
  <1>2. TypeOK'
    BY <1>1 DEF IInv, TypeOK
  <1>3. \A m \in Nodes : agents'[m] = IF m = node[c] THEN c ELSE agents[m]
    BY <1>1 DEF IInv, TypeOK
  <1>4. IdentityBound' /\ RegisteredInv'
    BY <1>3 DEF IInv, IdentityBound, RegisteredInv
  <1>5. RegisteredIsLive'
    BY <1>3 DEF IInv, TypeOK, RegisteredIsLive
  <1>6. StatusMatchesAgents'
    BY <1>1, <1>3, FleetAssumption DEF IInv, TypeOK, StatusMatchesAgents
  <1> QED
    BY <1>2, <1>4, <1>5, <1>6 DEF IInv

\* UnregisterConn removes the connection from its only entry.
LEMMA UnregisterInv ==
  ASSUME IInv, NEW c \in Conns, UnregisterConn(c) PROVE IInv'
  <1> USE DEF UnregisterConn, Goto, InHandler, Owns, mutex, MutexFree
  <1>1. node[c] \in Nodes
    BY DEF IInv, TypeOK
  <1>2. TypeOK'
    BY <1>1 DEF IInv, TypeOK
  <1>3. \A m \in Nodes : agents'[m] = IF m = node[c] THEN None ELSE agents[m]
    BY <1>1 DEF IInv, TypeOK
  <1>4. \A m \in Nodes : agents'[m] # None => agents'[m] # c /\ agents'[m] = agents[m]
    BY <1>3 DEF IInv, IdentityBound
  <1>5. IdentityBound' /\ RegisteredInv'
    BY <1>4 DEF IInv, IdentityBound, RegisteredInv
  <1>6. RegisteredIsLive'
    BY <1>4 DEF IInv, TypeOK, RegisteredIsLive
  <1>7. StatusMatchesAgents'
    BY <1>1, <1>3 DEF IInv, TypeOK, StatusMatchesAgents
  <1> QED
    BY <1>2, <1>5, <1>6, <1>7 DEF IInv

\* A handler only ends when it has no entry in the registry.
LEMMA EndInv ==
  ASSUME IInv, NEW c \in Conns, NotOwner(c) \/ MarkNodeOffline(c) PROVE IInv'
  <1> USE DEF NotOwner, MarkNodeOffline, End, WriteStatus, Goto, InHandler, Owns,
              mutex
  <1>1. node[c] \in Nodes
    BY DEF IInv, TypeOK
  <1>2. TypeOK'
    BY <1>1 DEF IInv, TypeOK
  <1>3. \A m \in Nodes : agents[m] # c
    BY FleetAssumption
    DEF IInv, IdentityBound, RegisteredInv, RegisteredIsLive
  <1> QED
    BY <1>2, <1>3, RegistryUntouched DEF IInv, TypeOK

\* SendCommand keeps the mutex and leaves the registry as it is.
LEMMA SendInv ==
  ASSUME IInv, (\E m \in Nodes : SendCommand(m)) \/ WriteReturns \/ Unlock
  PROVE  IInv'
  <1> USE DEF SendCommand, WriteReturns, Unlock, MutexFree
  <1>1. TypeOK'
    BY DEF IInv, TypeOK
  <1> QED
    BY <1>1
    DEF IInv, IdentityBound, RegisteredIsLive, RegisteredInv,
        StatusMatchesAgents

\* A restart leaves nothing that could be wrong.
LEMMA RestartInv == ASSUME IInv, Restart PROVE IInv'
  BY FleetAssumption
  DEF Restart, IInv, TypeOK, IdentityBound, RegisteredIsLive, RegisteredInv,
      StatusMatchesAgents, InHandler

LEMMA NextInv == IInv /\ [Next]_vars => IInv'
  <1> SUFFICES ASSUME IInv, [Next]_vars PROVE IInv'
    OBVIOUS
  <1>1. CASE UNCHANGED vars
    BY <1>1
    DEF vars, IInv, TypeOK, IdentityBound, RegisteredIsLive, RegisteredInv,
        StatusMatchesAgents
  <1>2. CASE Next
    BY <1>2, ConnectInv, LoopInv, RegisterInv, UnregisterInv, EndInv,
       SendInv, RestartInv
    DEF Next, Handle
  <1> QED
    BY <1>1, <1>2

\* The invariant holds of every behaviour of the handlers and senders.
LEMMA IInvCorrect == Spec => []IInv
  BY InitInv, NextInv, PTL DEF Spec

\* HandleWebSocket binds the identity: commands for a node only go to a
\* connection that was opened with its token.
THEOREM RegistryCorrect == Spec => []IdentityBound
  <1>1. IInv => IdentityBound
    BY DEF IInv
  <1> QED
    BY <1>1, IInvCorrect, PTL

\* UnregisterConn comes before a handler ends: the registry never keeps the
\* connection of a finished one.
THEOREM LiveCorrect == Spec => []RegisteredIsLive
  <1>1. IInv => RegisteredIsLive
    BY DEF IInv
  <1> QED
    BY <1>1, IInvCorrect, PTL

\* The status the registry shows for a node agrees with whether it has a
\* connection to send commands to.
THEOREM StatusCorrect == Spec => []StatusMatchesAgents
  <1>1. IInv => StatusMatchesAgents
    BY DEF IInv
  <1> QED
    BY <1>1, IInvCorrect, PTL

\* The clean-up of a replaced connection leaves its successor registered.
THEOREM CleanupCorrect == Spec => CleanupSparesSuccessor
  <1> DEFINE Spares ==
        \A c \in Conns, m \in Nodes :
          /\ agents[m] # None /\ agents[m] # c
          /\ pc[c] = "cleanup" /\ pc'[c] # pc[c]
          /\ pc'[agents[m]] = pc[agents[m]]
          => agents'[m] = agents[m]
  <1>1. Spec => []IInv
    BY InitInv, NextInv, PTL DEF Spec
  <1>2. IInv /\ [Next]_vars => [Spares]_vars
    <2> SUFFICES ASSUME IInv, Next, NEW c \in Conns, NEW m \in Nodes,
                        agents[m] # None, agents[m] # c, pc[c] = "cleanup",
                        pc'[c] # pc[c], pc'[agents[m]] = pc[agents[m]]
                 PROVE  agents'[m] = agents[m]
      BY DEF vars
    <2>1. agents[m] \in Conns /\ pc[agents[m]] # "free"
      BY DEF IInv, TypeOK, RegisteredIsLive, InHandler
    <2>2. ~Restart
      BY <2>1 DEF Restart
    <2>3. PICK d \in Conns :
             \/ \E n \in Nodes : Connect(d, n)
             \/ Drop(d)
             \/ \E n \in Nodes \cup {None} : ReadHeartbeat(d, n)
             \/ Handle(d)
      BY <2>2 DEF Next, SendCommand, WriteReturns, Unlock
    <2>4. d = c
      BY <2>3
      DEF Connect, Drop, ReadHeartbeat, Handle, ReadError, Reject, Register,
          UpdateNodeStatus, UnregisterConn, NotOwner, MarkNodeOffline, End, Goto,
          IInv, TypeOK
    <2> QED
      BY <2>3, <2>4
      DEF Connect, Drop, ReadHeartbeat, Handle, ReadError, Reject, Register,
          UpdateNodeStatus, UnregisterConn, NotOwner, MarkNodeOffline, End, Owns,
          Goto, IInv, TypeOK
  <1> QED
    BY <1>1, <1>2, PTL DEF Spec, CleanupSparesSuccessor

-----------------------------------------------------------------------------
(* The status in the database.                                             *)

\* An undisturbed node has one handler at most.
OneHandler ==
    \A m \in Nodes \ disturbed, c, d \in Conns :
        node[c] = m /\ node[d] = m => c = d

\* Where that handler is tells what the registry and the database hold.
DbFollows ==
    \A m \in Nodes \ disturbed, c \in Conns : node[c] = m =>
        /\ pc[c] \in {"read", "heartbeat", "cleanup"} =>
              (dbStatus[m] = "online" <=> agents[m] # None)
        /\ pc[c] = "update" => agents[m] # None
        /\ pc[c] = "offline" => agents[m] = None

\* Without one the node is in neither, and a free slot has no node.
DbIdle ==
    \A m \in Nodes \ disturbed :
        (\A c \in Conns : node[c] # m)
        => dbStatus[m] # "online" /\ agents[m] = None

FreeHasNone == \A c \in Conns : pc[c] = "free" => node[c] = None

DInv == IInv /\ OneHandler /\ DbFollows /\ DbIdle /\ FreeHasNone

LEMMA InitDInv == Init => DInv
  BY InitInv, FleetAssumption
  DEF Init, DInv, OneHandler, DbFollows, DbIdle, FreeHasNone

\* Nobody but the node's one handler has its registry entry.
LEMMA AgentIsHandler ==
  ASSUME DInv, NEW m \in Nodes \ disturbed, NEW c \in Conns, node[c] = m,
         agents[m] # None
  PROVE  agents[m] = c
  BY DEF DInv, IInv, TypeOK, IdentityBound, OneHandler

LEMMA ConnectDInv ==
  ASSUME DInv, NEW c \in Conns, NEW m \in Nodes, Connect(c, m) PROVE DInv'
  <1> USE DEF Connect, Goto, DInv
  <1>1. IInv'
    BY ConnectInv
  <1>2. TypeOK
    BY DEF IInv
  <1>3. /\ \A d \in Conns : node'[d] = (IF d = c THEN m ELSE node[d])
        /\ \A d \in Conns : pc'[d] = (IF d = c THEN "read" ELSE pc[d])
    BY <1>2 DEF TypeOK
  <1>4. FreeHasNone'
    BY <1>3 DEF FreeHasNone
  <1>5. \A n \in Nodes \ disturbed' :
           /\ n \in Nodes \ disturbed
           /\ n = m => \A d \in Conns : node[d] # m
    OBVIOUS
  <1>6. OneHandler'
    BY <1>3, <1>5 DEF OneHandler
  <1>7. DbFollows'
    BY <1>3, <1>5 DEF DbFollows, DbIdle
  <1>8. DbIdle'
    BY <1>3, <1>5, FleetAssumption DEF DbIdle, FreeHasNone
  <1> QED
    BY <1>1, <1>4, <1>6, <1>7, <1>8

\* Drop, ReadHeartbeat, ReadError and Reject move a handler among points
\* where the registry and the database agree.
LEMMA LoopDInv ==
  ASSUME DInv, NEW c \in Conns,
         \/ Drop(c)
         \/ \E m \in Nodes \cup {None} : ReadHeartbeat(c, m)
         \/ ReadError(c) \/ Reject(c)
  PROVE  DInv'
  <1> USE DEF Drop, ReadHeartbeat, ReadError, Reject, Goto, DInv
  <1>1. IInv'
    BY LoopInv
  <1>2. TypeOK
    BY DEF IInv
  <1>3. /\ UNCHANGED <<node, agents, dbStatus, disturbed>>
        /\ \A d \in Conns : pc'[d] # pc[d] =>
             /\ pc[d] \in {"read", "heartbeat"}
             /\ pc'[d] \in {"heartbeat", "cleanup"}
    BY <1>2 DEF TypeOK
  <1>4. OneHandler' /\ DbIdle'
    BY <1>3 DEF OneHandler, DbIdle
  <1>5. DbFollows'
    BY <1>3 DEF DbFollows
  <1>6. FreeHasNone'
    BY <1>3 DEF FreeHasNone
  <1> QED
    BY <1>1, <1>4, <1>5, <1>6

LEMMA RegisterDInv ==
  ASSUME DInv, NEW c \in Conns, Register(c) PROVE DInv'
  <1> USE DEF Register, Goto, DInv
  <1>1. IInv'
    BY RegisterInv
  <1>2. TypeOK
    BY DEF IInv
  <1>3. /\ \A d \in Conns : pc'[d] = (IF d = c THEN "update" ELSE pc[d])
        /\ \A n \in Nodes : n # node[c] => agents'[n] = agents[n]
        /\ node[c] \in Nodes
    BY <1>2 DEF TypeOK
  <1>4. OneHandler'
    BY DEF OneHandler
  <1>5. DbFollows'
    BY <1>3, FleetAssumption DEF DbFollows, OneHandler, TypeOK, IInv
  <1>6. DbIdle'
    BY <1>3 DEF DbIdle
  <1>7. FreeHasNone'
    BY <1>3 DEF FreeHasNone
  <1> QED
    BY <1>1, <1>4, <1>5, <1>6, <1>7

\* UpdateNodeStatus and UnregisterConn: the node's one handler brings the
\* database or the registry in line; a node that was disturbed is settled by
\* a handler that has it to itself and is registered.
LEMMA UpdateDInv ==
  ASSUME DInv, NEW c \in Conns, UpdateNodeStatus(c) PROVE DInv'
  <1> USE DEF UpdateNodeStatus, WriteStatus, Goto, DInv
  <1>1. IInv'
    BY LoopInv
  <1>2. TypeOK
    BY DEF IInv
  <1>3. /\ \A d \in Conns : pc'[d] = (IF d = c THEN "read" ELSE pc[d])
        /\ \A n \in Nodes \ disturbed' :
             /\ \/ n \in Nodes \ disturbed
                \/ n = node[c] /\ Alone(c) /\ agents[n] = c
             /\ dbStatus'[n] = (IF n = node[c] THEN "online" ELSE dbStatus[n])
        /\ node[c] \in Nodes /\ UNCHANGED <<node, agents>>
    BY <1>2 DEF TypeOK
  <1>4. OneHandler' /\ DbIdle'
    BY <1>3 DEF OneHandler, DbIdle, Alone
  <1>5. DbFollows'
    BY <1>3, FleetAssumption DEF DbFollows, OneHandler, Alone
  <1>6. FreeHasNone'
    BY <1>3 DEF FreeHasNone
  <1> QED
    BY <1>1, <1>4, <1>5, <1>6

LEMMA UnregisterDInv ==
  ASSUME DInv, NEW c \in Conns, UnregisterConn(c) PROVE DInv'
  <1> USE DEF UnregisterConn, Goto, DInv
  <1>1. IInv'
    BY UnregisterInv
  <1>2. TypeOK
    BY DEF IInv
  <1>3. /\ \A d \in Conns : pc'[d] = (IF d = c THEN "offline" ELSE pc[d])
        /\ \A n \in Nodes :
             agents'[n] = (IF n = node[c] THEN None ELSE agents[n])
        /\ node[c] \in Nodes
    BY <1>2 DEF TypeOK
  <1>4. OneHandler' /\ DbIdle'
    BY <1>3 DEF OneHandler, DbIdle
  <1>5. DbFollows'
    BY <1>3 DEF DbFollows, OneHandler
  <1>6. FreeHasNone'
    BY <1>3 DEF FreeHasNone
  <1> QED
    BY <1>1, <1>4, <1>5, <1>6

\* A handler that ends leaves its node in neither the registry nor, for an
\* undisturbed node, the database.
LEMMA EndDInv ==
  ASSUME DInv, NEW c \in Conns, NotOwner(c) \/ MarkNodeOffline(c) PROVE DInv'
  <1> USE DEF NotOwner, MarkNodeOffline, End, WriteStatus, Goto, DInv
  <1>1. IInv'
    BY EndInv
  <1>2. TypeOK
    BY DEF IInv
  <1>3. /\ \A d \in Conns : pc'[d] = (IF d = c THEN "free" ELSE pc[d])
        /\ \A d \in Conns : node'[d] = (IF d = c THEN None ELSE node[d])
        /\ node[c] \in Nodes
        /\ UNCHANGED agents
    BY <1>2 DEF TypeOK
  <1>4. \A n \in Nodes \ disturbed' :
           /\ n \in Nodes \ disturbed \/ (n = node[c] /\ Alone(c))
           /\ n # node[c] => dbStatus'[n] = dbStatus[n]
    BY <1>2 DEF TypeOK
  <1>5. node[c] \notin disturbed' =>
           agents[node[c]] = None /\ dbStatus'[node[c]] # "online"
    <2> SUFFICES ASSUME node[c] \notin disturbed'
                 PROVE  agents[node[c]] = None /\ dbStatus'[node[c]] # "online"
      OBVIOUS
    <2>1. CASE NotOwner(c)
      <3>1. node[c] \in Nodes \ disturbed
        BY <1>3, <2>1
      <3>2. agents[node[c]] = None
        BY <2>1, <3>1, AgentIsHandler DEF IInv, RegisteredInv, Owns
      <3> QED
        BY <2>1, <3>1, <3>2 DEF DbFollows
    <2>2. CASE MarkNodeOffline(c)
      <3>1. dbStatus'[node[c]] = "offline"
        BY <1>2, <1>3, <2>2 DEF TypeOK
      <3>2. CASE node[c] \in Nodes \ disturbed
        BY <2>2, <3>1, <3>2 DEF DbFollows
      <3>3. CASE Alone(c)
        BY <1>3, <2>2, <3>1, <3>3
        DEF Alone, IInv, TypeOK, IdentityBound, RegisteredIsLive
      <3> QED
        BY <1>3, <1>4, <3>2, <3>3
    <2> QED
      BY <2>1, <2>2
  <1>6. OneHandler'
    BY <1>3, <1>4, FleetAssumption DEF OneHandler, Alone
  <1>7. DbFollows'
    BY <1>3, <1>4, FleetAssumption DEF DbFollows, OneHandler, Alone
  <1>8. DbIdle'
    BY <1>3, <1>4, <1>5 DEF DbIdle
  <1>9. FreeHasNone'
    BY <1>3 DEF FreeHasNone
  <1> QED
    BY <1>1, <1>6, <1>7, <1>8, <1>9

LEMMA SendDInv ==
  ASSUME DInv, (\E m \in Nodes : SendCommand(m)) \/ WriteReturns \/ Unlock
  PROVE  DInv'
  <1>1. IInv'
    BY SendInv DEF DInv
  <1>2. UNCHANGED <<pc, node, agents, dbStatus, disturbed>>
    BY DEF SendCommand, WriteReturns, Unlock
  <1> QED
    BY <1>1, <1>2 DEF DInv, OneHandler, DbFollows, DbIdle, FreeHasNone

\* After a restart only the nodes the database shows online are wrong.
LEMMA RestartDInv == ASSUME DInv, Restart PROVE DInv'
  BY RestartInv, FleetAssumption
  DEF Restart, DInv, OneHandler, DbFollows, DbIdle, FreeHasNone

LEMMA NextDInv == DInv /\ [Next]_vars => DInv'
  <1> SUFFICES ASSUME DInv, [Next]_vars PROVE DInv'
    OBVIOUS
  <1>1. CASE UNCHANGED vars
    BY <1>1, NextInv
    DEF vars, DInv, OneHandler, DbFollows, DbIdle, FreeHasNone
  <1>2. CASE Next
    BY <1>2, ConnectDInv, LoopDInv, RegisterDInv, UpdateDInv, UnregisterDInv,
       EndDInv, SendDInv, RestartDInv
    DEF Next, Handle
  <1> QED
    BY <1>1, <1>2

\* At rest, the database shows an undisturbed node online exactly if the
\* registry has its connection.
THEOREM DbCorrect == Spec => []DbMatchesRegistry
  <1>1. Spec => []DInv
    BY InitDInv, NextDInv, PTL DEF Spec
  <1>2. DInv => DbMatchesRegistry
    BY DEF DInv, DbFollows, DbIdle, DbMatchesRegistry, Settled
  <1> QED
    BY <1>1, <1>2, PTL

-----------------------------------------------------------------------------
(* One live connection per node.                                           *)

\* A connection slot that is free has not registered.
FreeUnregistered == \A c \in Conns : pc[c] = "free" => c \notin registered

LInv == IInv /\ OneOpenConnection /\ FreeUnregistered

\* Register closes the one connection that could still be live.
LEMMA RegisterLInv ==
  ASSUME LInv, NEW c \in Conns, Register(c)
  PROVE  OneOpenConnection' /\ FreeUnregistered'
  <1> USE DEF LInv, IInv
  <1>1. /\ node[c] \in Nodes /\ node' = node
        /\ pc' = [pc EXCEPT ![c] = "update"]
        /\ registered' = registered \cup {c}
        /\ agents' = [agents EXCEPT ![node[c]] = c]
        /\ open' = IF agents[node[c]] = c THEN open ELSE open \ {agents[node[c]]}
    BY DEF Register, Goto, TypeOK
  <1>2. agents'[node[c]] = c /\ \A m \in Nodes : m # node[c] => agents'[m] = agents[m]
    BY <1>1 DEF TypeOK
  <1>3. pc'[c] = "update" /\ \A d \in Conns : d # c => pc'[d] = pc[d]
    BY <1>1 DEF TypeOK
  <1>4. OneOpenConnection'
    <2> SUFFICES ASSUME NEW d \in registered' \cap open', pc'[d] # "offline"
                 PROVE  agents'[node[d]] = d
      BY <1>1 DEF OneOpenConnection
    <2>1. CASE d = c
      BY <1>2, <2>1
    <2>2. CASE d # c
      <3>1. d \in registered \cap open /\ d \in Conns /\ pc[d] # "offline"
        BY <1>1, <1>3, <2>2 DEF TypeOK
      <3>2. agents[node[d]] = d /\ node[d] \in Nodes
        BY <3>1 DEF OneOpenConnection, FreeUnregistered, TypeOK
      <3>3. node[d] # node[c]
        BY <1>1, <2>2, <3>2
      <3> QED
        BY <1>2, <3>2, <3>3
    <2> QED
      BY <2>1, <2>2
  <1>5. FreeUnregistered'
    BY <1>1, <1>3 DEF FreeUnregistered
  <1> QED
    BY <1>4, <1>5

\* Whoever unregisters was the only live connection of its node.
LEMMA UnregisterLInv ==
  ASSUME LInv, NEW c \in Conns, UnregisterConn(c)
  PROVE  OneOpenConnection' /\ FreeUnregistered'
  <1> USE DEF LInv, IInv
  <1>1. /\ node[c] \in Nodes /\ agents[node[c]] = c
        /\ pc' = [pc EXCEPT ![c] = "offline"]
        /\ agents' = [agents EXCEPT ![node[c]] = None]
        /\ UNCHANGED <<node, open, registered>>
    BY DEF UnregisterConn, Goto, Owns, TypeOK
  <1>2. pc'[c] = "offline" /\ \A d \in Conns : d # c => pc'[d] = pc[d]
    BY <1>1 DEF TypeOK
  <1>3. \A m \in Nodes : m # node[c] => agents'[m] = agents[m]
    BY <1>1 DEF TypeOK
  <1>4. OneOpenConnection'
    <2> SUFFICES ASSUME NEW d \in registered \cap open, pc'[d] # "offline"
                 PROVE  agents'[node[d]] = d
      BY <1>1 DEF OneOpenConnection
    <2>1. d # c /\ d \in Conns /\ pc[d] # "offline"
      BY <1>2 DEF TypeOK
    <2>2. agents[node[d]] = d /\ node[d] \in Nodes
      BY <2>1 DEF OneOpenConnection, FreeUnregistered, TypeOK
    <2>3. node[d] # node[c]
      BY <1>1, <2>1, <2>2
    <2> QED
      BY <1>3, <2>2, <2>3
  <1>5. FreeUnregistered'
    BY <1>1, <1>2 DEF FreeUnregistered
  <1> QED
    BY <1>4, <1>5

\* The steps that leave the registry alone.
LEMMA OtherLInv ==
  ASSUME LInv, [Next]_vars, UNCHANGED agents
  PROVE  OneOpenConnection' /\ FreeUnregistered'
  <1> USE DEF LInv, IInv
  <1>1. ASSUME NEW c \in Conns, NEW m \in Nodes, Connect(c, m)
        PROVE  OneOpenConnection' /\ FreeUnregistered'
    <2>1. /\ c \notin registered /\ UNCHANGED registered
          /\ open' = open \cup {c}
          /\ \A d \in Conns : d # c => pc'[d] = pc[d] /\ node'[d] = node[d]
          /\ pc'[c] = "read"
      BY <1>1 DEF Connect, Goto, FreeUnregistered, TypeOK
    <2> QED
      BY <2>1 DEF OneOpenConnection, FreeUnregistered, TypeOK
  <1>2. ASSUME NEW c \in Conns,
               \/ Drop(c)
               \/ \E m \in Nodes \cup {None} : ReadHeartbeat(c, m)
               \/ ReadError(c) \/ Reject(c) \/ UpdateNodeStatus(c)
        PROVE  OneOpenConnection' /\ FreeUnregistered'
    <2>1. /\ UNCHANGED <<node, registered>> /\ open' \subseteq open
          /\ \A d \in Conns : pc'[d] # pc[d] =>
                pc[d] \in {"read", "heartbeat", "update"} /\ pc'[d] # "free"
      BY <1>2 DEF Drop, ReadHeartbeat, ReadError, Reject, UpdateNodeStatus, Goto,
         TypeOK
    <2> QED
      BY <2>1 DEF OneOpenConnection, FreeUnregistered, TypeOK
  <1>3. ASSUME NEW c \in Conns, NotOwner(c) \/ MarkNodeOffline(c)
        PROVE  OneOpenConnection' /\ FreeUnregistered'
    <2>1. /\ registered' = registered \ {c} /\ open' = open \ {c}
          /\ \A d \in Conns : d # c => pc'[d] = pc[d] /\ node'[d] = node[d]
      BY <1>3 DEF NotOwner, MarkNodeOffline, End, Goto, TypeOK
    <2> QED
      BY <2>1 DEF OneOpenConnection, FreeUnregistered, TypeOK
  <1>4. CASE Restart
    BY <1>4 DEF Restart, OneOpenConnection, FreeUnregistered
  <1>5. CASE UNCHANGED <<pc, node, open, registered>>
    BY <1>5 DEF OneOpenConnection, FreeUnregistered
  <1>6. ASSUME NEW c \in Conns, Register(c) \/ UnregisterConn(c)
        PROVE  OneOpenConnection' /\ FreeUnregistered'
    BY <1>6, RegisterLInv, UnregisterLInv
  <1> QED
    BY <1>1, <1>2, <1>3, <1>4, <1>5, <1>6
    DEF Next, vars, Handle, SendCommand, WriteReturns, Unlock

\* A node never has two live connections, however connections are replaced,
\* report late or are cleaned up while a command is being written.
THEOREM OneConnectionCorrect == Spec => []OneOpenConnection
  <1>1. Init => LInv
    BY InitInv DEF Init, LInv, OneOpenConnection, FreeUnregistered
  <1>2. LInv /\ [Next]_vars => LInv'
    <2> SUFFICES ASSUME LInv, [Next]_vars
                 PROVE  OneOpenConnection' /\ FreeUnregistered'
      BY NextInv DEF LInv
    <2>1. CASE \E c \in Conns : Register(c)
      BY <2>1, RegisterLInv
    <2>2. CASE \E c \in Conns : UnregisterConn(c)
      BY <2>2, UnregisterLInv
    <2>3. CASE UNCHANGED agents
      BY <2>3, OtherLInv
    <2>4. CASE Restart
      BY <2>4 DEF Restart, OneOpenConnection, FreeUnregistered
    <2> QED
      BY <2>1, <2>2, <2>3, <2>4
      DEF Next, vars, Connect, Drop, ReadHeartbeat, Handle, ReadError, Reject,
          UpdateNodeStatus, NotOwner, MarkNodeOffline, SendCommand, WriteReturns,
          Unlock
  <1>3. LInv => OneOpenConnection
    BY DEF LInv
  <1> QED
    BY <1>1, <1>2, <1>3, PTL DEF Spec

\* Types: every handler has some node, and the registry holds connections.
THEOREM FleetTypeCorrect == Spec => []TypeOK
  <1>1. IInv => TypeOK
    BY DEF IInv
  <1> QED
    BY <1>1, IInvCorrect, PTL
=============================================================================
