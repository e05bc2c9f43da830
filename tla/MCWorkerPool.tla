---------------------------- MODULE MCWorkerPool ----------------------------
(***************************************************************************)
(* Small instances of WorkerPool: jobs a and b share a node, jobs a and c a *)
(* group; b has a maintenance window that has not begun at time 0.         *)
(***************************************************************************)
EXTENDS WorkerPool, TLC

CONSTANTS a, b, c, n1, n2, g1, g2

MCNodeOf == [j \in Jobs |-> IF j = c THEN n2 ELSE n1]
\* The instance for liveness: a and b on different nodes, in one group.
MCNodeOfApart == [j \in Jobs |-> IF j = a THEN n1 ELSE n2]
MCGroupOf == [j \in Jobs |-> IF j = b /\ g2 \in Groups THEN g2 ELSE g1]
MCWinStart == [j \in Jobs |-> IF j = b THEN 1 ELSE None]
MCWinEnd == [j \in Jobs |-> IF j = b THEN 2 ELSE None]

Symmetry == Permutations(Workers)
=============================================================================
