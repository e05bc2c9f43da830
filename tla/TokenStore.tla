----------------------------- MODULE TokenStore -----------------------------
(***************************************************************************)
(* What the transactions of server/internal/db promise about the refresh   *)
(* tokens, without transactions: a table on which enrolling, rotating and  *)
(* clearing a node are single steps.  Each step sees every stored token of *)
(* its node, and nothing happens to the node between what a step reads and *)
(* what it writes.                                                         *)
(***************************************************************************)
EXTENDS Naturals

CONSTANTS
    Nodes,   \* node identities
    Tokens,  \* refresh tokens
    None,    \* no node
    Life     \* the longest life of a token

VARIABLES
    clock,   \* the time at which tokens expire
    stored,  \* the tokens that can be redeemed
    holder,  \* holder[t]: the node t was issued to, None if it never was
    expiry   \* expiry[t]: when t expires

vars == <<clock, stored, holder, expiry>>

Init ==
    /\ clock \in Nat
    /\ stored = {}
    /\ holder = [t \in Tokens |-> None]
    /\ expiry = [t \in Tokens |-> 0]

\* A token that was never issued before, good for a while from now.
Issue(m, k) ==
    /\ holder[k] = None
    /\ holder' = [holder EXCEPT ![k] = m]
    /\ \E x \in clock + 1 .. clock + Life : expiry' = [expiry EXCEPT ![k] = x]
    /\ UNCHANGED clock

\* A node is enrolled only when everything it could refresh with has expired.
Enroll(m, k) ==
    /\ \A t \in stored : holder[t] = m => expiry[t] <= clock
    /\ stored' = stored \cup {k}
    /\ Issue(m, k)

\* A stored token is exchanged for one of the same node.
Rotate(t, k) ==
    /\ t \in stored
    /\ stored' = (stored \ {t}) \cup {k}
    /\ Issue(holder[t], k)

\* Every token of the node is withdrawn.
Clear(m) ==
    /\ stored' = {t \in stored : holder[t] # m}
    /\ UNCHANGED <<clock, holder, expiry>>

Advance ==
    /\ clock' = clock + 1
    /\ UNCHANGED <<stored, holder, expiry>>

Next ==
    \/ Advance
    \/ \E m \in Nodes, k \in Tokens : Enroll(m, k)
    \/ \E t, k \in Tokens : Rotate(t, k)
    \/ \E m \in Nodes : Clear(m)

Spec == Init /\ [][Next]_vars
=============================================================================
