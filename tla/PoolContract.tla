---------------------------- MODULE PoolContract ----------------------------
(***************************************************************************)
(* What the worker pool promises whoever submits a job, without workers,   *)
(* queues, timers or semaphores: an accepted job ends at most once and for *)
(* good, its command is sent once at the most and only if that is how it   *)
(* ends, and a job is given up only for the reasons the pool states.       *)
(***************************************************************************)
EXTENDS Naturals

CONSTANTS
    Jobs,      \* jobs that may be submitted
    None,      \* no maintenance window
    WinStart,  \* WinStart[j], WinEnd[j]: the maintenance window of j, or
    WinEnd,    \* None for a job without one
    MinLeft    \* time a window must have left for a job to be started

VARIABLES
    clock,     \* the time
    closed,    \* whether the pool was stopped
    outcome,   \* "new", "live" once accepted, then how the job ended
    sent       \* sent[j]: commands sent for j

vars == <<clock, closed, outcome, sent>>

Init ==
    /\ clock = 0 /\ closed = FALSE
    /\ outcome = [j \in Jobs |-> "new"]
    /\ sent = [j \in Jobs |-> 0]

Windowed(j) == WinStart[j] # None

\* The job's state changes from p to q, and no other job's.
Becomes(j, p, q) ==
    /\ outcome[j] = p
    /\ outcome' = [outcome EXCEPT ![j] = q]
    /\ UNCHANGED <<clock, closed>>

Accept(j) == Becomes(j, "new", "live") /\ UNCHANGED sent

\* The command is sent, once the window has begun.
Send(j) ==
    /\ Windowed(j) => WinStart[j] <= clock
    /\ Becomes(j, "live", "dispatched")
    /\ sent' = [sent EXCEPT ![j] = @ + 1]

\* The queue stays full, the node has another job, or it cannot be reached.
Refuse(j) ==
    /\ \E q \in {"rejected", "conflict", "failed"} : Becomes(j, "live", q)
    /\ UNCHANGED sent

\* Too little of the window is left.
Expire(j) ==
    /\ Windowed(j) /\ WinEnd[j] < clock + MinLeft
    /\ Becomes(j, "live", "late")
    /\ UNCHANGED sent

\* The pool was stopped while the job waited for its window.
Cancel(j) ==
    /\ closed /\ Windowed(j)
    /\ Becomes(j, "live", "cancelled")
    /\ UNCHANGED sent

Advance ==
    /\ clock' = clock + 1
    /\ UNCHANGED <<closed, outcome, sent>>

Close ==
    /\ closed' = TRUE
    /\ UNCHANGED <<clock, outcome, sent>>

Next ==
    \/ Advance
    \/ Close
    \/ \E j \in Jobs :
         Accept(j) \/ Send(j) \/ Refuse(j) \/ Expire(j) \/ Cancel(j)

Spec == Init /\ [][Next]_vars
=============================================================================
