---------------------------- MODULE RateLimiter ----------------------------
(***************************************************************************)
(* The limiter in front of the login and refresh endpoints                 *)
(* (server/internal/api/middleware.go).  A client, known by its address,   *)
(* may make Limit requests per Window, counted from the first request of   *)
(* each window.  allow holds the limiter's mutex and reads the clock under *)
(* it, so a request is one step.                                           *)
(***************************************************************************)
EXTENDS Naturals, FiniteSets

CONSTANTS
    Clients,   \* client addresses
    Limit,     \* requests per window (30)
    Window,    \* the length of a window (1 min)
    Capacity,  \* windows kept before expired ones are dropped (10000)
    MaxNow     \* bound: the clock stops here

ASSUME LimiterAssumption ==
    /\ IsFiniteSet(Clients)
    /\ Limit \in Nat \ {0} /\ Window \in Nat \ {0}
    /\ Capacity \in Nat /\ MaxNow \in Nat

VARIABLES
    now,     \* the clock
    table,   \* the clients in the limiter's map
    start,   \* start[c]: when the last window of c began
    count,   \* count[c]: the requests counted in it, 0 before the first one
    served,  \* history: served[c][t]: requests of c let through until time t
    refused  \* history: the clients that were refused at the current time

vars == <<now, table, start, count, served, refused>>

Times == 0 .. MaxNow

Init ==
    /\ now = 0
    /\ table = {}
    /\ start = [c \in Clients |-> 0]
    /\ count = [c \in Clients |-> 0]
    /\ served = [c \in Clients |-> [t \in Times |-> 0]]
    /\ refused = {}

Tick ==
    /\ now < MaxNow
    /\ now' = now + 1
    /\ refused' = {}
    /\ UNCHANGED <<table, start, count, served>>

\* The window of c is over.
Expired(c) == now - start[c] >= Window

\* Mutant: the map is never cleaned up.
PrunedNever == table

\* Mutant: a full map is emptied.
PrunedAll == IF Cardinality(table) > Capacity THEN {} ELSE table

\* Only a map that has grown past the capacity is cleaned up.
Pruned ==
    IF Cardinality(table) > Capacity THEN {c \in table : ~Expired(c)} ELSE table

\* The request of c is let through.
Serve(c) ==
    served' = [served EXCEPT ![c] =
                  [t \in Times |-> IF t < now THEN @[t] ELSE @[t] + 1]]

\* allow opens a new window, ...
OpenWindow(c) ==
    /\ c \notin Pruned \/ Expired(c)
    /\ table' = Pruned \cup {c}
    /\ start' = [start EXCEPT ![c] = now]
    /\ count' = [count EXCEPT ![c] = 1]
    /\ Serve(c)
    /\ UNCHANGED <<now, refused>>

\* ... counts the request in the current one, ...
CountRequest(c) ==
    /\ c \in Pruned /\ ~Expired(c) /\ count[c] < Limit
    /\ table' = Pruned
    /\ count' = [count EXCEPT ![c] = @ + 1]
    /\ Serve(c)
    /\ UNCHANGED <<now, start, refused>>

\* Mutant: one request less is let through.
RefuseEarly(c) ==
    /\ c \in Pruned /\ ~Expired(c) /\ count[c] + 1 >= Limit
    /\ table' = Pruned
    /\ refused' = refused \cup {c}
    /\ UNCHANGED <<now, start, count, served>>

\* ... or refuses it, and the client gets 429 and a Retry-After.
Refuse(c) ==
    /\ c \in Pruned /\ ~Expired(c) /\ count[c] >= Limit
    /\ table' = Pruned
    /\ refused' = refused \cup {c}
    /\ UNCHANGED <<now, start, count, served>>

Next ==
    \/ Tick
    \/ \E c \in Clients : OpenWindow(c) \/ CountRequest(c) \/ Refuse(c)

Spec == Init /\ [][Next]_vars

-----------------------------------------------------------------------------
(* Properties.                                                             *)

\* The requests let through before time t in a history h.
Before(h, t) == IF t = 0 THEN 0 ELSE h[t - 1]

\* Types, and no window begins in the future.
TypeOK ==
    /\ now \in Times
    /\ table \subseteq Clients
    /\ start \in [Clients -> Times] /\ count \in [Clients -> Nat]
    /\ \A c \in Clients : start[c] <= now
    /\ served \in [Clients -> [Times -> Nat]]
    /\ refused \subseteq Clients

\* Whatever the map forgets and whenever windows begin, no stretch of time as
\* long as a window sees twice the limit from one client: at a window boundary
\* up to 2 * Limit - 1 requests of one client get through.
SlidingBound ==
    \A c \in Clients : \A a, b \in Times :
        a <= b /\ b - a < Window =>
            served[c][b] < Before(served[c], a) + 2 * Limit

\* Where a window's length before the current time begins.
Horizon == IF now < Window THEN 0 ELSE now + 1 - Window

\* A client is only refused when Limit of its requests got through within the
\* last window's length: whoever waits out the Retry-After is served, and the
\* requests of other clients cost it nothing.
RefusalJustified ==
    \A c \in refused : served[c][now] >= Before(served[c], Horizon) + Limit

\* "Drop expired windows so the map cannot grow without bound": the map only
\* exceeds its capacity by more than one with clients that all opened their
\* windows within one window's length.
TableBounded ==
    Cardinality(table) > Capacity + 1 =>
        \A c, d \in table : start[c] < start[d] + Window
=============================================================================
