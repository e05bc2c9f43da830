----------------------------- MODULE WorkerPool -----------------------------
(***************************************************************************)
(* The worker pool of server/internal/orchestration: Submit, PauseGroup,   *)
(* ResumeGroup, Stop, the worker goroutines with processJob, and the timer *)
(* goroutines of jobs that wait for their maintenance window.  The part of *)
(* the agent registry (server/internal/fleet) the workers share is the     *)
(* map of active jobs and whether a node is connected; an agent may drop   *)
(* its connection at any moment.                                           *)
(*                                                                         *)
(* A worker gives up the processor at every lock and channel operation, so *)
(* each of those is one action.                                            *)
(***************************************************************************)
EXTENDS Naturals, Sequences, FiniteSets

CONSTANTS
    Workers, Jobs, Nodes, Groups,
    None,
    NodeOf,       \* NodeOf[j]: the node of job j
    GroupOf,      \* GroupOf[j]: the group of job j
    WinStart,     \* WinStart[j], WinEnd[j]: the maintenance window of j, or
    WinEnd,       \* None for a job without one
    QueueCap,     \* capacity of jobQueue (100)
    SemCap,       \* capacity of a group semaphore (2)
    MinLeft,      \* time a window must have left (15 min)
    MinDelay,     \* shortest delay of a job that came too early (10 s)
    MaxNow,       \* bound: the clock stops here
    Flaky,        \* nodes whose agent may disconnect
    MayStop,      \* whether the pool is stopped
    LateCalls     \* whether Submit and PauseGroup are called after Stop began

ASSUME JobsAssumption ==
    /\ None \notin Jobs \cup Nodes \cup Workers \cup Nat
    /\ NodeOf \in [Jobs -> Nodes] /\ GroupOf \in [Jobs -> Groups]
    /\ WinStart \in [Jobs -> Nat \cup {None}]
    /\ WinEnd \in [Jobs -> Nat \cup {None}]
    /\ \A j \in Jobs : WinStart[j] = None <=> WinEnd[j] = None
    /\ Flaky \subseteq Nodes

ASSUME LimitsAssumption ==
    /\ QueueCap \in Nat \ {0} /\ SemCap \in Nat \ {0}
    /\ MinLeft \in Nat /\ MinDelay \in Nat /\ MaxNow \in Nat
    /\ MayStop \in BOOLEAN /\ LateCalls \in BOOLEAN

VARIABLES
    now,        \* the clock
    queue,      \* jobQueue
    submitting, \* jobs whose Submit call is in progress
    timer,      \* timer[j]: when j's delay goroutine fires, or None
    outcome,    \* what became of a job; "live" while the pool is handling it
    sent,       \* sent[j]: how often j's command was written to its agent
    sentAt,     \* sentAt[j]: when that was last, or None
    worker,     \* worker[w]: program counter, job, and whether it drains
    paused,     \* pausedGroups
    slots,      \* slots[g]: the workers holding a slot of g's semaphore
    stop,       \* "no", "resumed" (groups resumed), "closed" (stopChan)
    owed,       \* history: jobs queued when stopChan was closed, not yet taken
    late,       \* history: groups paused since Stop resumed them all
    online,     \* nodes with a registered connection
    activeJobs  \* the registry's activeJobs

poolVars == <<queue, submitting, timer, outcome, sent, sentAt>>
ctlVars == <<paused, stop, owed, late>>
vars == <<now, poolVars, worker, slots, ctlVars, online, activeJobs>>

-----------------------------------------------------------------------------

Node(w) == NodeOf[worker[w].job]
Group(w) == GroupOf[worker[w].job]

\* Program points between AcquireJob and the deferred ReleaseJob.
Holding == {"pause", "window", "sem", "send", "relsem", "reljob"}

Goto(w, l) == worker' = [worker EXCEPT ![w].pc = l]

Finish(j, o) == outcome' = [outcome EXCEPT ![j] = o]

Later(a, b) == IF a > b THEN a ELSE b

Init ==
    /\ now = 0
    /\ queue = <<>>
    /\ submitting = {}
    /\ timer = [j \in Jobs |-> None]
    /\ outcome = [j \in Jobs |-> "new"]
    /\ sent = [j \in Jobs |-> 0]
    /\ sentAt = [j \in Jobs |-> None]
    /\ worker = [w \in Workers |->
                   [pc |-> "select", job |-> None, drain |-> FALSE]]
    /\ paused = [g \in Groups |-> FALSE]
    /\ slots = [g \in Groups |-> {}]
    /\ stop = "no"
    /\ owed = {}
    /\ late = {}
    /\ online \in SUBSET Nodes
    /\ activeJobs = [m \in Nodes |-> None]

Tick ==
    /\ now < MaxNow
    /\ now' = now + 1
    /\ UNCHANGED <<poolVars, worker, slots, ctlVars, online, activeJobs>>

-----------------------------------------------------------------------------
(* Submit and the delay goroutines.                                        *)

\* A caller hands a job to the pool.
Submit(j) ==
    /\ stop = "no" \/ LateCalls
    /\ outcome[j] = "new"
    /\ Finish(j, "live")
    /\ submitting' = submitting \cup {j}
    /\ UNCHANGED <<now, queue, timer, sent, sentAt, worker, slots, ctlVars,
                   online, activeJobs>>

\* Submit's select: the send succeeds once the channel has room ...
Enqueue(j) ==
    /\ j \in submitting
    /\ Len(queue) < QueueCap
    /\ submitting' = submitting \ {j}
    /\ queue' = Append(queue, j)
    /\ UNCHANGED <<now, timer, outcome, sent, sentAt, worker, slots, ctlVars,
                   online, activeJobs>>

\* ... or times out after 30 seconds of a full channel.
SubmitTimeout(j) ==
    /\ j \in submitting
    /\ Len(queue) = QueueCap
    /\ submitting' = submitting \ {j}
    /\ Finish(j, "rejected")
    /\ UNCHANGED <<now, queue, timer, sent, sentAt, worker, slots, ctlVars,
                   online, activeJobs>>

\* Mutant: the delay goroutine forgets to submit the job again.
TimerFiresForgets(j) ==
    /\ timer[j] # None /\ now >= timer[j]
    /\ timer' = [timer EXCEPT ![j] = None]
    /\ UNCHANGED <<now, submitting, queue, outcome, sent, sentAt, worker,
                   slots, ctlVars, online, activeJobs>>

\* The delay goroutine's select: the timer, or the closed stop channel.
TimerFires(j) ==
    /\ timer[j] # None /\ now >= timer[j]
    /\ timer' = [timer EXCEPT ![j] = None]
    /\ submitting' = submitting \cup {j}
    /\ UNCHANGED <<now, queue, outcome, sent, sentAt, worker, slots, ctlVars,
                   online, activeJobs>>

TimerCancelled(j) ==
    /\ timer[j] # None /\ stop = "closed"
    /\ timer' = [timer EXCEPT ![j] = None]
    /\ Finish(j, "cancelled")
    /\ UNCHANGED <<now, submitting, queue, sent, sentAt, worker, slots,
                   ctlVars, online, activeJobs>>

-----------------------------------------------------------------------------
(* PauseGroup, ResumeGroup and Stop.                                       *)

PauseGroup(g) ==
    /\ stop = "no" \/ LateCalls
    /\ ~paused[g]
    /\ paused' = [paused EXCEPT ![g] = TRUE]
    /\ late' = IF stop = "no" THEN late ELSE late \cup {g}
    /\ UNCHANGED <<now, poolVars, worker, slots, stop, owed, online,
                   activeJobs>>

ResumeGroup(g) ==
    /\ paused[g]
    /\ paused' = [paused EXCEPT ![g] = FALSE]
    /\ late' = late \ {g}
    /\ UNCHANGED <<now, poolVars, worker, slots, stop, owed, online,
                   activeJobs>>

\* Mutant: Stop leaves the paused groups paused.
StopWithoutResume ==
    /\ MayStop /\ stop = "no"
    /\ stop' = "resumed"
    /\ UNCHANGED <<now, poolVars, worker, slots, paused, owed, late, online,
                   activeJobs>>

\* Stop resumes every group under the mutex ...
Stop ==
    /\ MayStop /\ stop = "no"
    /\ paused' = [g \in Groups |-> FALSE]
    /\ stop' = "resumed"
    /\ UNCHANGED <<now, poolVars, worker, slots, owed, late, online,
                   activeJobs>>

\* ... and closes stopChan after releasing it.
CloseStopChan ==
    /\ stop = "resumed"
    /\ stop' = "closed"
    /\ owed' = {queue[i] : i \in 1 .. Len(queue)}
    /\ UNCHANGED <<now, poolVars, worker, slots, paused, late, online,
                   activeJobs>>

-----------------------------------------------------------------------------
(* The agent registry.                                                     *)

\* UnregisterConn drops the connection and the node's active job.
Disconnect(m) ==
    /\ m \in Flaky \cap online
    /\ online' = online \ {m}
    /\ activeJobs' = [activeJobs EXCEPT ![m] = None]
    /\ UNCHANGED <<now, poolVars, worker, slots, ctlVars>>

Register(m) ==
    /\ m \in Flaky \ online
    /\ online' = online \cup {m}
    /\ UNCHANGED <<now, poolVars, worker, slots, ctlVars, activeJobs>>

-----------------------------------------------------------------------------
(* The worker goroutine.                                                   *)

\* Receive a job: in the outer select whether or not the pool is stopping
\* (a select with two ready cases picks either), and in the drain loop.
TakeJob(w) ==
    /\ worker[w].pc \in {"select", "drain"}
    /\ queue # <<>>
    /\ worker' = [worker EXCEPT ![w].pc = "acquire", ![w].job = Head(queue)]
    /\ queue' = Tail(queue)
    /\ owed' = owed \ {Head(queue)}
    /\ UNCHANGED <<now, submitting, timer, outcome, sent, sentAt, slots,
                   paused, stop, late, online, activeJobs>>

\* Mutant: a stopping worker returns without draining the queue.
SeeStopAndReturn(w) ==
    /\ worker[w].pc = "select" /\ stop = "closed"
    /\ worker' = [worker EXCEPT ![w].pc = "exited"]
    /\ UNCHANGED <<now, poolVars, slots, ctlVars, online, activeJobs>>

SeeStop(w) ==
    /\ worker[w].pc = "select" /\ stop = "closed"
    /\ worker' = [worker EXCEPT ![w].pc = "drain", ![w].drain = TRUE]
    /\ UNCHANGED <<now, poolVars, slots, ctlVars, online, activeJobs>>

Exit(w) ==
    /\ worker[w].pc = "drain" /\ queue = <<>>
    /\ Goto(w, "exited")
    /\ UNCHANGED <<now, poolVars, slots, ctlVars, online, activeJobs>>

\* processJob returned: back to the loop it was called from.
Return(w) ==
    worker' = [worker EXCEPT ![w].pc = IF worker[w].drain THEN "drain"
                                       ELSE "select",
                             ![w].job = None]

\* Mutant: the busy check is missing.
AcquireAlways(w) ==
    /\ worker[w].pc = "acquire"
    /\ activeJobs' = [activeJobs EXCEPT ![Node(w)] = worker[w].job]
    /\ Goto(w, "pause")
    /\ UNCHANGED <<now, poolVars, slots, ctlVars, online>>

AcquireJob(w) ==
    /\ worker[w].pc = "acquire"
    /\ activeJobs[Node(w)] = None
    /\ activeJobs' = [activeJobs EXCEPT ![Node(w)] = worker[w].job]
    /\ Goto(w, "pause")
    /\ UNCHANGED <<now, poolVars, slots, ctlVars, online>>

\* The node has an active job: this one is skipped.
Conflict(w) ==
    /\ worker[w].pc = "acquire"
    /\ activeJobs[Node(w)] # None
    /\ Finish(worker[w].job, "conflict")
    /\ Return(w)
    /\ UNCHANGED <<now, queue, submitting, timer, sent, sentAt, slots,
                   ctlVars, online, activeJobs>>

\* pauseCond.Wait until the job's group is not paused.
PassPause(w) ==
    /\ worker[w].pc = "pause"
    /\ ~paused[Group(w)]
    /\ Goto(w, "window")
    /\ UNCHANGED <<now, poolVars, slots, ctlVars, online, activeJobs>>

HasWindow(j) == WinStart[j] # None

TooLate(j) == HasWindow(j) /\ (now > WinEnd[j] \/ WinEnd[j] < now + MinLeft)

TooEarly(j) == HasWindow(j) /\ ~TooLate(j) /\ now < WinStart[j]

\* Outside the window: dropped if it is over or nearly over, handed to a
\* timer goroutine if it has not begun.
MissWindow(w) ==
    LET j == worker[w].job IN
    /\ worker[w].pc = "window"
    /\ \/ /\ TooLate(j)
          /\ Finish(j, "late")
          /\ UNCHANGED timer
       \/ /\ TooEarly(j)
          /\ timer' = [timer EXCEPT ![j] = Later(WinStart[j], now + MinDelay)]
          /\ UNCHANGED outcome
    /\ Goto(w, "reljob")
    /\ UNCHANGED <<now, queue, submitting, sent, sentAt, slots, ctlVars,
                   online, activeJobs>>

\* Mutant: a job that came too early is started all the same, besides being
\* handed to the timer.
PassWindowEarly(w) ==
    LET j == worker[w].job IN
    /\ worker[w].pc = "window"
    /\ ~TooLate(j)
    /\ timer' = IF TooEarly(j)
                THEN [timer EXCEPT ![j] = Later(WinStart[j], now + MinDelay)]
                ELSE timer
    /\ Goto(w, "sem")
    /\ UNCHANGED <<now, queue, submitting, outcome, sent, sentAt, slots,
                   ctlVars, online, activeJobs>>

PassWindow(w) ==
    /\ worker[w].pc = "window"
    /\ ~TooLate(worker[w].job) /\ ~TooEarly(worker[w].job)
    /\ Goto(w, "sem")
    /\ UNCHANGED <<now, poolVars, slots, ctlVars, online, activeJobs>>

\* sem <- struct{}{}
TakeSlot(w) ==
    /\ worker[w].pc = "sem"
    /\ Cardinality(slots[Group(w)]) < SemCap
    /\ slots' = [slots EXCEPT ![Group(w)] = @ \cup {w}]
    /\ Goto(w, "send")
    /\ UNCHANGED <<now, poolVars, ctlVars, online, activeJobs>>

\* SendCommand to a connected agent, then the job_started webhook and a
\* monitor goroutine that only logs.
Dispatch(w) ==
    LET j == worker[w].job IN
    /\ worker[w].pc = "send"
    /\ Node(w) \in online
    /\ sent' = [sent EXCEPT ![j] = @ + 1]
    /\ sentAt' = [sentAt EXCEPT ![j] = now]
    /\ Finish(j, "dispatched")
    /\ Goto(w, "relsem")
    /\ UNCHANGED <<now, queue, submitting, timer, slots, ctlVars, online,
                   activeJobs>>

\* ErrAgentOffline, a signing error, or a write that failed: job_failed.
DispatchFails(w) ==
    /\ worker[w].pc = "send"
    /\ Finish(worker[w].job, "failed")
    /\ Goto(w, "relsem")
    /\ UNCHANGED <<now, queue, submitting, timer, sent, sentAt, slots,
                   ctlVars, online, activeJobs>>

\* Mutant: the slot is not given back.
LeakSlot(w) ==
    /\ worker[w].pc = "relsem"
    /\ Goto(w, "reljob")
    /\ UNCHANGED <<now, poolVars, slots, ctlVars, online, activeJobs>>

\* The deferred functions run last to first: the slot ...
ReleaseSlot(w) ==
    /\ worker[w].pc = "relsem"
    /\ slots' = [slots EXCEPT ![Group(w)] = @ \ {w}]
    /\ Goto(w, "reljob")
    /\ UNCHANGED <<now, poolVars, ctlVars, online, activeJobs>>

\* Mutant: the worker returns without the deferred ReleaseJob.
ReturnBusy(w) ==
    /\ worker[w].pc = "reljob"
    /\ Return(w)
    /\ UNCHANGED <<now, poolVars, slots, ctlVars, online, activeJobs>>

\* ... then the node, whichever job it is registered for by now.
ReleaseJob(w) ==
    /\ worker[w].pc = "reljob"
    /\ activeJobs' = [activeJobs EXCEPT ![Node(w)] = None]
    /\ Return(w)
    /\ UNCHANGED <<now, poolVars, slots, ctlVars, online>>

Work(w) ==
    \/ TakeJob(w) \/ SeeStop(w) \/ Exit(w)
    \/ AcquireJob(w) \/ Conflict(w)
    \/ PassPause(w)
    \/ MissWindow(w) \/ PassWindow(w)
    \/ TakeSlot(w)
    \/ Dispatch(w) \/ DispatchFails(w)
    \/ ReleaseSlot(w) \/ ReleaseJob(w)

Next ==
    \/ Tick
    \/ Stop
    \/ CloseStopChan
    \/ \E j \in Jobs : \/ Submit(j) \/ Enqueue(j) \/ SubmitTimeout(j)
                       \/ TimerFires(j) \/ TimerCancelled(j)
    \/ \E g \in Groups : PauseGroup(g) \/ ResumeGroup(g)
    \/ \E m \in Nodes : Disconnect(m) \/ Register(m)
    \/ \E w \in Workers : Work(w)

Spec == Init /\ [][Next]_vars

\* What a worker does by itself.  SendCommand is not among it: it waits for
\* the registry's mutex and writes to a socket without a deadline.
Proceed(w) == worker[w].pc # "send" /\ Work(w)

\* Goroutines run when they can (Go queues the senders of a channel, so a
\* slot that keeps becoming free is not withheld from one worker forever);
\* a Submit call returns; time passes.  Nothing is assumed of SendCommand.
Fairness ==
    /\ \A w \in Workers : SF_vars(Proceed(w))
    /\ \A j \in Jobs :
          /\ WF_vars(Enqueue(j) \/ SubmitTimeout(j))
          /\ WF_vars(TimerFires(j))
    /\ WF_vars(CloseStopChan)
    /\ WF_vars(Tick)

FairSpec == Spec /\ Fairness

-----------------------------------------------------------------------------
(* Properties.                                                             *)

Outcomes == {"new", "live", "rejected", "conflict", "late", "cancelled",
             "dispatched", "failed"}

\* Types; a worker outside its loop has a job.
TypeOK ==
    /\ now \in Nat
    /\ queue \in Seq(Jobs) /\ Len(queue) <= QueueCap
    /\ submitting \in SUBSET Jobs
    /\ timer \in [Jobs -> Nat \cup {None}]
    /\ outcome \in [Jobs -> Outcomes]
    /\ sent \in [Jobs -> Nat]
    /\ sentAt \in [Jobs -> Nat \cup {None}]
    /\ worker \in [Workers ->
                     [pc : {"select", "drain", "exited", "acquire"} \cup Holding,
                      job : Jobs \cup {None}, drain : BOOLEAN]]
    /\ \A w \in Workers : worker[w].pc \in {"acquire"} \cup Holding
                             => worker[w].job \in Jobs
    /\ paused \in [Groups -> BOOLEAN]
    /\ slots \in [Groups -> SUBSET Workers]
    /\ stop \in {"no", "resumed", "closed"}
    /\ owed \in SUBSET Jobs
    /\ late \in SUBSET Groups
    /\ online \in SUBSET Nodes
    /\ activeJobs \in [Nodes -> Jobs \cup {None}]

Busy(w, m) == worker[w].pc \in Holding /\ Node(w) = m

\* No two workers process jobs of one node whose agent stays connected:
\* AcquireJob and the deferred ReleaseJob keep it exclusive through pauses,
\* delays, conflicts and failures.  A node that disconnects is freed, whoever
\* works for it ("unregister leaked active job", lifecycle_test.go).
ExclusiveStable ==
    \A v, w \in Workers, m \in Nodes \ Flaky :
        Busy(v, m) /\ Busy(w, m) => v = w

\* No node stays busy after its workers are done with it, so that a later
\* job would be skipped for nothing (the deferred ReleaseJob).
BusyMeansWorking ==
    \A m \in Nodes : activeJobs[m] # None => \E w \in Workers : Busy(w, m)

\* A semaphore slot is held by exactly the workers that are sending for the
\* group; the rest of its capacity is available.
SlotsAccounted ==
    \A w \in Workers, g \in Groups :
        w \in slots[g] <=>
            worker[w].pc \in {"send", "relsem"} /\ Group(w) = g

\* The workers that are sending for group g.
Sending(g) ==
    {w \in Workers : worker[w].pc \in {"send", "relsem"} /\ Group(w) = g}

\* The semaphore of a group (processJob) bounds how many of its nodes are
\* patched at once: no more workers than it has slots are sending for one
\* group, whatever fails in between.
GroupLimit == \A g \in Groups : Cardinality(Sending(g)) <= SemCap

\* A worker that waits for a slot waits for workers that are sending, and those
\* wait for nothing: slots, pauses and nodes are never waited for in a circle.
NoCircularWait ==
    \A w \in Workers : worker[w].pc = "sem" =>
        \/ Cardinality(slots[Group(w)]) < SemCap
        \/ \E v \in Workers \ {w} : v \in Sending(Group(w))

InWorker(j) ==
    \E w \in Workers :
        /\ worker[w].job = j
        /\ worker[w].pc \in {"acquire", "pause", "window", "sem", "send"}

\* A job the pool accepted is never lost before it has an outcome: it is
\* being submitted, queued, with a worker, or waiting for its window.
JobNotLost ==
    \A j \in Jobs : outcome[j] = "live" =>
        \/ j \in submitting
        \/ \E i \in 1 .. Len(queue) : queue[i] = j
        \/ timer[j] # None
        \/ InWorker(j)

\* A command is sent to its agent at most once, also when the job was
\* delayed and queued again.
DispatchOnce == \A j \in Jobs : sent[j] <= 1

Contract == INSTANCE PoolContract
            WITH clock <- now, closed <- (stop = "closed")

\* The goroutines, the queue and the timers implement PoolContract: of all the
\* steps that race for a job exactly one decides how it ends.  A delayed job
\* that is queued again, a worker that is done while the timer fires, and a
\* stop in between neither send a command twice, nor drop a job that was
\* sent, nor give a job up for another reason than the one recorded.
ContractImplemented == Contract!Spec

\* No command is sent before its maintenance window begins, however early
\* the job was submitted and however often it was delayed.
NeverEarly ==
    \A j \in Jobs : HasWindow(j) /\ sentAt[j] # None => sentAt[j] >= WinStart[j]

\* Draining: a stopped pool loses no worker while a job that was queued when
\* stopChan was closed has not been taken from the queue.
Drained == (\E w \in Workers : worker[w].pc = "exited") => owed = {}

AllExited == \A w \in Workers : worker[w].pc = "exited"

\* No call of SendCommand goes on for ever: the peer of every write reads on
\* or its connection fails.  While one does not return, its worker keeps the
\* registry's mutex, which every other worker needs.
WritesReturn == \A w \in Workers : []<>(worker[w].pc # "send")

\* "Resume all paused groups so workers can exit" (Stop): once stopped, the
\* pool's Wait returns, whatever is submitted meanwhile, provided that writes
\* return and that a group that is paused again after Stop resumed it is
\* resumed too.
WorkersExit ==
    WritesReturn /\ (\A g \in Groups : []<>(g \notin late)) =>
        (stop = "closed" ~> AllExited)

\* Every submitted job comes to an end while the pool runs, as long as writes
\* return and paused groups are resumed: no cycle of busy nodes, full queues
\* and group slots blocks the pool.
JobsFinish ==
    WritesReturn /\ (\A g \in Groups : []<>(~paused[g])) =>
        \A j \in Jobs :
            outcome[j] = "live" ~> (outcome[j] # "live" \/ stop # "no")
=============================================================================
