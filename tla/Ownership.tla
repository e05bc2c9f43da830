----------------------------- MODULE Ownership ------------------------------
(***************************************************************************)
(* What enrollment promises an agent, without tokens, claims, locks or     *)
(* clocks: a node belongs to at most one enrollment at a time, only a node *)
(* that belongs to nobody can be claimed, and an enrollment that lost its  *)
(* node never gets a node again.                                           *)
(***************************************************************************)
CONSTANTS
    Nodes,       \* node identities
    Enrollments  \* enrollments that may ever happen

VARIABLES
    owner,       \* owner[m]: {e} if node m belongs to e, {} if to nobody
    past         \* the enrollments that own or have owned a node

vars == <<owner, past>>

Init ==
    /\ owner = [m \in Nodes |-> {}]
    /\ past = {}

\* A new enrollment takes a node that belongs to nobody.
Claim(m, e) ==
    /\ owner[m] = {} /\ e \notin past
    /\ owner' = [owner EXCEPT ![m] = {e}]
    /\ past' = past \cup {e}

\* Enrollments lose their nodes, so that left[m] of them keep node m: one by
\* revocation, any number by expiry.
Lose(left) ==
    /\ \A m \in Nodes : left[m] \subseteq owner[m]
    /\ owner' = left
    /\ UNCHANGED past

Next ==
    \/ \E m \in Nodes, e \in Enrollments : Claim(m, e)
    \/ \E left \in [Nodes -> SUBSET Enrollments] : Lose(left)

Spec == Init /\ [][Next]_vars
=============================================================================
