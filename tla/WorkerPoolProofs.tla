-------------------------- MODULE WorkerPoolProofs --------------------------
(***************************************************************************)
(* Proofs about WorkerPool, for any numbers of workers, jobs, nodes and    *)
(* groups, any windows, and any capacity of the queue and the semaphores.  *)
(***************************************************************************)
EXTENDS WorkerPool, FiniteSetTheorems, TLAPS

-----------------------------------------------------------------------------
(* Workers.                                                                *)

\* Where a worker is processing a job, and all the places it can be at.
Acting == {"acquire"} \cup Holding
Points == {"select", "drain", "exited"} \cup Acting

\* Types of the workers; one that is processing a job has it.
WorkerOK ==
    /\ worker \in [Workers -> [pc : Points, job : Jobs \cup {None}, drain : BOOLEAN]]
    /\ \A w \in Workers : worker[w].pc \in Acting => worker[w].job \in Jobs

\* The worker w goes on to l with its job, and no other worker moves.
Moved(w, l) ==
    \A v \in Workers :
        /\ worker'[v].pc = IF v = w THEN l ELSE worker[v].pc
        /\ worker'[v].job = worker[v].job
        /\ worker'[v].drain = worker[v].drain

\* What Goto does.
LEMMA GotoFacts ==
    ASSUME WorkerOK, NEW w \in Workers, NEW l \in Points, Goto(w, l),
           l \in Acting => worker[w].pc \in Acting
    PROVE  WorkerOK' /\ Moved(w, l)
  <1>1. worker' = [worker EXCEPT ![w] = [worker[w] EXCEPT !.pc = l]]
    BY DEF Goto
  <1>2. worker[w] \in [pc : Points, job : Jobs \cup {None}, drain : BOOLEAN]
    BY DEF WorkerOK
  <1>3. worker'[w] = [worker[w] EXCEPT !.pc = l]
    BY <1>1 DEF WorkerOK
  <1>4. /\ worker'[w].pc = l /\ worker'[w].job = worker[w].job
        /\ worker'[w].drain = worker[w].drain
        /\ worker'[w] \in [pc : Points, job : Jobs \cup {None}, drain : BOOLEAN]
    BY <1>2, <1>3
  <1>5. \A v \in Workers : v # w => worker'[v] = worker[v]
    BY <1>1 DEF WorkerOK
  <1>6. Moved(w, l)
    BY <1>4, <1>5 DEF Moved
  <1>7. worker' \in [Workers -> [pc : Points, job : Jobs \cup {None}, drain : BOOLEAN]]
    BY <1>1, <1>4, <1>5 DEF WorkerOK
  <1> QED BY <1>6, <1>7 DEF WorkerOK, Moved

\* The worker w is back in its loop, and no other worker moves.
Returned(w) ==
    /\ \A v \in Workers : v # w => worker'[v] = worker[v]
    /\ worker'[w].pc \in {"select", "drain"}
    /\ worker'[w].drain = worker[w].drain
    /\ worker'[w].pc = "drain" => worker[w].drain

\* What Return does.
LEMMA ReturnFacts ==
    ASSUME WorkerOK, NEW w \in Workers, Return(w)
    PROVE  WorkerOK' /\ Returned(w)
  <1> DEFINE l == IF worker[w].drain THEN "drain" ELSE "select"
  <1>1. worker' = [worker EXCEPT ![w] = [worker[w] EXCEPT !.pc = l, !.job = None]]
    BY DEF Return
  <1>2. worker[w] \in [pc : Points, job : Jobs \cup {None}, drain : BOOLEAN]
    BY DEF WorkerOK
  <1>3. worker'[w] = [worker[w] EXCEPT !.pc = l, !.job = None]
    BY <1>1 DEF WorkerOK
  <1>4. /\ worker'[w].pc = l /\ worker'[w].drain = worker[w].drain
        /\ worker'[w] \in [pc : Points, job : Jobs \cup {None}, drain : BOOLEAN]
    BY <1>2, <1>3 DEF Points
  <1>5. \A v \in Workers : v # w => worker'[v] = worker[v]
    BY <1>1 DEF WorkerOK
  <1>6. Returned(w)
    BY <1>4, <1>5 DEF Returned
  <1>7. worker' \in [Workers -> [pc : Points, job : Jobs \cup {None}, drain : BOOLEAN]]
    BY <1>1, <1>4, <1>5 DEF WorkerOK
  <1>8. l \notin Acting
    BY DEF Acting, Holding
  <1> QED BY <1>4, <1>5, <1>6, <1>7, <1>8 DEF WorkerOK

\* What TakeJob does to the workers and the queue.
LEMMA TakeFacts ==
    ASSUME WorkerOK, queue \in Seq(Jobs), NEW w \in Workers, TakeJob(w)
    PROVE  /\ WorkerOK'
           /\ worker[w].pc \in {"select", "drain"}
           /\ queue # <<>> /\ Head(queue) \in Jobs /\ queue' = Tail(queue)
           /\ \A v \in Workers : v # w => worker'[v] = worker[v]
           /\ worker'[w].pc = "acquire" /\ worker'[w].job = Head(queue)
           /\ worker'[w].drain = worker[w].drain
  <1>1. /\ worker' = [worker EXCEPT ![w] = [worker[w] EXCEPT !.pc = "acquire",
                                                          !.job = Head(queue)]]
        /\ worker[w].pc \in {"select", "drain"}
        /\ queue # <<>> /\ queue' = Tail(queue)
    BY DEF TakeJob
  <1>2. Head(queue) \in Jobs
    BY <1>1
  <1>3. worker[w] \in [pc : Points, job : Jobs \cup {None}, drain : BOOLEAN]
    BY DEF WorkerOK
  <1>4. worker'[w] = [worker[w] EXCEPT !.pc = "acquire", !.job = Head(queue)]
    BY <1>1 DEF WorkerOK
  <1>5. /\ worker'[w].pc = "acquire" /\ worker'[w].job = Head(queue)
        /\ worker'[w].drain = worker[w].drain
        /\ worker'[w] \in [pc : Points, job : Jobs \cup {None}, drain : BOOLEAN]
    BY <1>2, <1>3, <1>4 DEF Points, Acting
  <1>6. \A v \in Workers : v # w => worker'[v] = worker[v]
    BY <1>1 DEF WorkerOK
  <1>7. worker' \in [Workers -> [pc : Points, job : Jobs \cup {None}, drain : BOOLEAN]]
    BY <1>1, <1>5, <1>6 DEF WorkerOK
  <1> QED BY <1>1, <1>2, <1>5, <1>6, <1>7 DEF WorkerOK

\* What SeeStop does to the workers.
LEMMA SeeStopFacts ==
    ASSUME WorkerOK, NEW w \in Workers, SeeStop(w)
    PROVE  /\ WorkerOK'
           /\ worker[w].pc = "select" /\ worker'[w].pc = "drain"
           /\ \A v \in Workers : v # w => worker'[v] = worker[v]
  <1>1. /\ worker' = [worker EXCEPT ![w] = [worker[w] EXCEPT !.pc = "drain",
                                                          !.drain = TRUE]]
        /\ worker[w].pc = "select"
    BY DEF SeeStop
  <1>2. worker[w] \in [pc : Points, job : Jobs \cup {None}, drain : BOOLEAN]
    BY DEF WorkerOK
  <1>3. worker'[w] = [worker[w] EXCEPT !.pc = "drain", !.drain = TRUE]
    BY <1>1 DEF WorkerOK
  <1>4. /\ worker'[w].pc = "drain"
        /\ worker'[w] \in [pc : Points, job : Jobs \cup {None}, drain : BOOLEAN]
    BY <1>2, <1>3 DEF Points
  <1>5. \A v \in Workers : v # w => worker'[v] = worker[v]
    BY <1>1 DEF WorkerOK
  <1>6. worker' \in [Workers -> [pc : Points, job : Jobs \cup {None}, drain : BOOLEAN]]
    BY <1>1, <1>4, <1>5 DEF WorkerOK
  <1> QED BY <1>1, <1>4, <1>5, <1>6 DEF WorkerOK, Acting, Holding

\* Where the steps of a worker that keeps its job lead.
Follows(l, m) ==
    \/ l = "drain" /\ m = "exited"
    \/ l = "acquire" /\ m = "pause"
    \/ l = "pause" /\ m = "window"
    \/ l = "window" /\ m \in {"reljob", "sem"}
    \/ l = "sem" /\ m = "send"
    \/ l = "send" /\ m = "relsem"
    \/ l = "relsem" /\ m = "reljob"

\* A step of a worker that keeps its job leads to the next place.
LEMMA GotoStep ==
    ASSUME WorkerOK, NEW w \in Workers, NEW l, Goto(w, l), Follows(worker[w].pc, l)
    PROVE  WorkerOK' /\ Moved(w, l)
  <1>1. l \in Points /\ (l \in Acting => worker[w].pc \in Acting)
    BY DEF Follows, Points, Acting, Holding
  <1> QED BY <1>1, GotoFacts

\* A step of a worker takes a job, sees the stop, gives its job back or keeps
\* it and goes on.
LEMMA WorkSteps ==
    ASSUME NEW w \in Workers, Work(w)
    PROVE  \/ TakeJob(w) \/ SeeStop(w)
           \/ (Conflict(w) \/ ReleaseJob(w)) /\ Return(w)
           \/ \E l : Goto(w, l) /\ Follows(worker[w].pc, l)
  BY DEF Work, Exit, AcquireJob, Conflict, PassPause, MissWindow, PassWindow,
         TakeSlot, Dispatch, DispatchFails, ReleaseSlot, ReleaseJob, Follows

\* Only workers move workers.
LEMMA OtherSteps ==
    ASSUME [Next]_vars, \A w \in Workers : ~Work(w)
    PROVE  UNCHANGED <<worker, slots>>
  BY DEF Next, vars, Tick, Stop, CloseStopChan, Submit, Enqueue, SubmitTimeout,
         TimerFires, TimerCancelled, PauseGroup, ResumeGroup, Disconnect, Register

-----------------------------------------------------------------------------
(* The queue.                                                              *)

\* Every step keeps the types of workers and queue.
LEMMA WorkerNext ==
    ASSUME WorkerOK, queue \in Seq(Jobs), [Next]_vars
    PROVE  WorkerOK' /\ queue' \in Seq(Jobs)
  <1>1. WorkerOK'
    <2>1. CASE \A w \in Workers : ~Work(w)
      BY <2>1, OtherSteps DEF WorkerOK
    <2>2. ASSUME NEW w \in Workers, Work(w)
          PROVE  WorkerOK'
      BY <2>2, WorkSteps, TakeFacts, SeeStopFacts, ReturnFacts, GotoStep
    <2> QED BY <2>1, <2>2
  <1>2. CASE queue' = queue
    BY <1>1, <1>2
  <1>3. ASSUME NEW j \in Jobs, Enqueue(j)
        PROVE  queue' \in Seq(Jobs)
    BY <1>3 DEF Enqueue
  <1>4. ASSUME NEW w \in Workers, TakeJob(w)
        PROVE  queue' \in Seq(Jobs)
    <2>1. queue # <<>> /\ queue' = Tail(queue)
      BY <1>4 DEF TakeJob
    <2> QED BY <2>1
  <1>5. queue' = queue \/ (\E j \in Jobs : Enqueue(j)) \/ \E w \in Workers : TakeJob(w)
    BY DEF Next, vars, poolVars, Tick, Stop, CloseStopChan, Submit, SubmitTimeout,
         TimerFires, TimerCancelled, PauseGroup, ResumeGroup, Disconnect, Register,
         Work, SeeStop, Exit, AcquireJob, Conflict, PassPause, MissWindow,
         PassWindow, TakeSlot, Dispatch, DispatchFails, ReleaseSlot, ReleaseJob
  <1> QED BY <1>1, <1>2, <1>3, <1>4, <1>5

-----------------------------------------------------------------------------
(* Nodes and their active jobs.                                            *)

\* Where a step of a worker leaves what it holds as it was.
LEMMA HoldingSteps ==
    ASSUME WorkerOK, queue \in Seq(Jobs), NEW w \in Workers, Work(w),
           ~AcquireJob(w), ~ReleaseJob(w)
    PROVE  /\ UNCHANGED activeJobs
           /\ \A v \in Workers :
                 /\ worker'[v].pc \in Holding <=> worker[v].pc \in Holding
                 /\ worker[v].pc \in Holding => worker'[v].job = worker[v].job
  <1>1. UNCHANGED activeJobs
    BY DEF Work, TakeJob, SeeStop, Exit, Conflict, PassPause, MissWindow, PassWindow,
           TakeSlot, Dispatch, DispatchFails, ReleaseSlot
  <1>2. CASE TakeJob(w)
    BY <1>1, <1>2, TakeFacts DEF Holding
  <1>3. CASE SeeStop(w)
    BY <1>1, <1>3, SeeStopFacts DEF Holding
  <1>4. CASE Conflict(w) /\ Return(w)
    <2>1. worker[w].pc = "acquire" /\ Returned(w)
      BY <1>4, ReturnFacts DEF Conflict
    <2> QED BY <1>1, <2>1 DEF Holding, Returned
  <1>5. CASE \E l : Goto(w, l) /\ Follows(worker[w].pc, l)
    <2>1. PICK l : Goto(w, l) /\ Follows(worker[w].pc, l)
      BY <1>5
    <2>2. Moved(w, l)
      BY <2>1, GotoStep
    <2>3. CASE worker[w].pc = "acquire"
      <3>1. Conflict(w) /\ Return(w)
        BY <2>3 DEF Work, TakeJob, SeeStop, Exit, Conflict, PassPause, MissWindow,
           PassWindow, TakeSlot, Dispatch, DispatchFails, ReleaseSlot
      <3> QED BY <3>1, <1>4
    <2>4. CASE worker[w].pc # "acquire"
      BY <1>1, <2>1, <2>2, <2>4 DEF Follows, Moved, Holding
    <2> QED BY <2>3, <2>4
  <1> QED BY <1>2, <1>3, <1>4, <1>5, WorkSteps

\* A node has an active job only while a worker is busy with it, and always
\* then, if its agent stays connected.
ExclOK ==
    /\ activeJobs \in [Nodes -> Jobs \cup {None}]
    /\ BusyMeansWorking
    /\ \A w \in Workers, m \in Nodes \ Flaky : Busy(w, m) => activeJobs[m] # None
    /\ ExclusiveStable

\* ExclOK holds on when neither a node nor what a worker holds changes.
LEMMA ExclFrame ==
    ASSUME ExclOK, UNCHANGED activeJobs,
           \A v \in Workers :
              /\ worker'[v].pc \in Holding <=> worker[v].pc \in Holding
              /\ worker[v].pc \in Holding => worker'[v].job = worker[v].job
    PROVE  ExclOK'
  <1>1. \A v \in Workers, m \in Nodes : Busy(v, m)' <=> Busy(v, m)
    BY DEF Busy, Node
  <1> QED BY <1>1 DEF ExclOK, BusyMeansWorking, ExclusiveStable

\* Every step keeps ExclOK.
LEMMA ExclNext ==
    ASSUME WorkerOK, queue \in Seq(Jobs), ExclOK, [Next]_vars
    PROVE  ExclOK'
  <1>1. ASSUME NEW w \in Workers, AcquireJob(w)
        PROVE  ExclOK'
    <2> DEFINE n == Node(w)
    <2>1. worker[w].pc = "acquire" /\ Goto(w, "pause")
      BY <1>1 DEF AcquireJob
    <2>2. Moved(w, "pause") /\ worker[w].job \in Jobs
      BY <2>1, GotoStep DEF Follows, WorkerOK, Acting
    <2>3. n \in Nodes
      BY <2>2, JobsAssumption DEF Node
    <2>4. /\ activeJobs[n] = None
          /\ activeJobs' \in [Nodes -> Jobs \cup {None}]
          /\ activeJobs'[n] = worker[w].job
          /\ \A m \in Nodes : m # n => activeJobs'[m] = activeJobs[m]
      BY <1>1, <2>2, <2>3 DEF AcquireJob, ExclOK
    <2>5. \A m \in Nodes : m = n => Busy(w, m)'
      BY <2>2 DEF Moved, Busy, Holding, Node
    <2>6. \A v \in Workers, m \in Nodes :
             /\ Busy(v, m) => Busy(v, m)'
             /\ Busy(v, m)' => Busy(v, m) \/ (v = w /\ m = n)
      BY <2>1, <2>2 DEF Moved, Busy, Holding, Node
    <2>7. BusyMeansWorking'
      BY <2>4, <2>5, <2>6 DEF BusyMeansWorking, ExclOK
    <2>8. worker[w].job # None
      BY <2>2, JobsAssumption
    <2>9. \A v \in Workers, m \in Nodes \ Flaky : Busy(v, m)' => activeJobs'[m] # None
      BY <2>4, <2>6, <2>8 DEF ExclOK
    <2>10. ExclusiveStable'
      BY <2>4, <2>6 DEF ExclusiveStable, ExclOK
    <2> QED BY <2>4, <2>7, <2>9, <2>10 DEF ExclOK
  <1>2. ASSUME NEW w \in Workers, ReleaseJob(w)
        PROVE  ExclOK'
    <2> DEFINE n == Node(w)
    <2>1. worker[w].pc = "reljob" /\ Returned(w)
      BY <1>2, ReturnFacts DEF ReleaseJob
    <2>2. worker[w].job \in Jobs
      BY <2>1 DEF WorkerOK, Acting, Holding
    <2>3. n \in Nodes /\ Busy(w, n)
      BY <2>1, <2>2, JobsAssumption DEF Node, Busy, Holding
    <2>4. /\ activeJobs' \in [Nodes -> Jobs \cup {None}]
          /\ activeJobs'[n] = None
          /\ \A m \in Nodes : m # n => activeJobs'[m] = activeJobs[m]
      BY <1>2, <2>3 DEF ReleaseJob, ExclOK
    <2>5. \A v \in Workers, m \in Nodes : Busy(v, m)' <=> Busy(v, m) /\ v # w
      BY <2>1 DEF Returned, Busy, Holding, Node
    <2>6. \A m \in Nodes : Busy(w, m) => m = n
      BY DEF Busy
    <2>7. BusyMeansWorking'
      BY <2>4, <2>5, <2>6 DEF BusyMeansWorking, ExclOK
    <2>8. \A v \in Workers, m \in Nodes \ Flaky : Busy(v, m)' => activeJobs'[m] # None
      BY <2>3, <2>4, <2>5 DEF ExclusiveStable, ExclOK
    <2>9. ExclusiveStable'
      BY <2>5 DEF ExclusiveStable, ExclOK
    <2> QED BY <2>4, <2>7, <2>8, <2>9 DEF ExclOK
  <1>3. ASSUME NEW k \in Nodes, Disconnect(k)
        PROVE  ExclOK'
    <2>1. k \in Flaky /\ UNCHANGED worker
      BY <1>3 DEF Disconnect
    <2>2. /\ activeJobs' \in [Nodes -> Jobs \cup {None}]
          /\ activeJobs'[k] = None
          /\ \A m \in Nodes : m # k => activeJobs'[m] = activeJobs[m]
      BY <1>3 DEF Disconnect, ExclOK
    <2>3. \A v \in Workers, m \in Nodes : Busy(v, m)' <=> Busy(v, m)
      BY <2>1 DEF Busy, Node
    <2> QED BY <2>1, <2>2, <2>3 DEF ExclOK, BusyMeansWorking, ExclusiveStable
  <1>4. ASSUME NEW w \in Workers, Work(w)
        PROVE  ExclOK'
    BY <1>1, <1>2, <1>4, HoldingSteps, ExclFrame
  <1>5. CASE (\A w \in Workers : ~Work(w)) /\ \A k \in Nodes : ~Disconnect(k)
    <2>1. UNCHANGED <<worker, activeJobs>>
      BY <1>5 DEF Next, vars, Tick, Stop, CloseStopChan, Submit, Enqueue,
         SubmitTimeout, TimerFires, TimerCancelled, PauseGroup, ResumeGroup, Register
    <2> QED BY <2>1, ExclFrame
  <1> QED BY <1>3, <1>4, <1>5

-----------------------------------------------------------------------------
(* The semaphores of the groups.                                           *)

\* The slots that are taken are those of the workers that are sending.
SlotOK == slots \in [Groups -> SUBSET Workers] /\ SlotsAccounted

\* Every step keeps SlotOK.
LEMMA SlotNext ==
    ASSUME WorkerOK, queue \in Seq(Jobs), SlotOK, [Next]_vars
    PROVE  SlotOK'
  <1> DEFINE HasSlot == {"send", "relsem"}
  <1>1. ASSUME UNCHANGED slots,
               \A v \in Workers :
                  /\ worker'[v].pc \in HasSlot <=> worker[v].pc \in HasSlot
                  /\ worker[v].pc \in HasSlot => worker'[v].job = worker[v].job
        PROVE  SlotOK'
    BY <1>1 DEF SlotOK, SlotsAccounted, Group
  <1>2. ASSUME NEW w \in Workers, TakeSlot(w)
        PROVE  SlotOK'
    <2>1. worker[w].pc = "sem" /\ Moved(w, "send")
      BY <1>2, GotoStep DEF TakeSlot, Follows
    <2>2. worker[w].job \in Jobs
      BY <2>1 DEF WorkerOK, Acting, Holding
    <2>3. Group(w) \in Groups
      BY <2>2, JobsAssumption DEF Group
    <2>4. /\ slots' \in [Groups -> SUBSET Workers]
          /\ slots'[Group(w)] = slots[Group(w)] \cup {w}
          /\ \A g \in Groups : g # Group(w) => slots'[g] = slots[g]
      BY <1>2, <2>3 DEF TakeSlot, SlotOK
    <2>5. \A g \in Groups : w \notin slots[g]
      BY <2>1 DEF SlotOK, SlotsAccounted
    <2> QED BY <2>1, <2>3, <2>4, <2>5 DEF SlotOK, SlotsAccounted, Moved, Group
  <1>3. ASSUME NEW w \in Workers, ReleaseSlot(w)
        PROVE  SlotOK'
    <2>1. worker[w].pc = "relsem" /\ Moved(w, "reljob")
      BY <1>3, GotoStep DEF ReleaseSlot, Follows
    <2>2. worker[w].job \in Jobs
      BY <2>1 DEF WorkerOK, Acting, Holding
    <2>3. Group(w) \in Groups
      BY <2>2, JobsAssumption DEF Group
    <2>4. /\ slots' \in [Groups -> SUBSET Workers]
          /\ slots'[Group(w)] = slots[Group(w)] \ {w}
          /\ \A g \in Groups : g # Group(w) => slots'[g] = slots[g]
      BY <1>3, <2>3 DEF ReleaseSlot, SlotOK
    <2>5. \A g \in Groups : w \in slots[g] => g = Group(w)
      BY DEF SlotOK, SlotsAccounted
    <2>6. \A g \in Groups : w \notin slots'[g]
      BY <2>4, <2>5
    <2>7. ASSUME NEW v \in Workers, v # w, NEW g \in Groups
          PROVE  /\ v \in slots'[g] <=> v \in slots[g]
                 /\ worker'[v].pc = worker[v].pc /\ Group(v)' = Group(v)
      BY <2>1, <2>4, <2>7 DEF Moved, Group
    <2> QED BY <2>1, <2>4, <2>6, <2>7 DEF SlotOK, SlotsAccounted, Moved
  <1>4. ASSUME NEW w \in Workers, Work(w), ~TakeSlot(w), ~ReleaseSlot(w)
        PROVE  SlotOK'
    <2>1. UNCHANGED slots
      BY <1>4 DEF Work, TakeJob, SeeStop, Exit, AcquireJob, Conflict, PassPause,
         MissWindow, PassWindow, Dispatch, DispatchFails, ReleaseJob
    <2>2. CASE TakeJob(w)
      BY <2>1, <2>2, <1>1, TakeFacts
    <2>3. CASE SeeStop(w)
      BY <2>1, <2>3, <1>1, SeeStopFacts
    <2>4. CASE (Conflict(w) \/ ReleaseJob(w)) /\ Return(w)
      <3>1. worker[w].pc \in {"acquire", "reljob"} /\ Returned(w)
        BY <2>4, ReturnFacts DEF Conflict, ReleaseJob
      <3> QED BY <2>1, <3>1, <1>1 DEF Returned
    <2>5. CASE \E l : Goto(w, l) /\ Follows(worker[w].pc, l)
      <3>1. PICK l : Goto(w, l) /\ Follows(worker[w].pc, l)
        BY <2>5
      <3>2. Moved(w, l)
        BY <3>1, GotoStep
      <3>3. worker[w].pc \notin {"sem", "relsem"}
        BY <1>4 DEF Work, TakeJob, SeeStop, Exit, AcquireJob, Conflict, PassPause,
           MissWindow, PassWindow, Dispatch, DispatchFails, ReleaseJob
      <3>4. worker[w].pc \in HasSlot <=> l \in HasSlot
        BY <3>1, <3>3 DEF Follows
      <3> QED BY <2>1, <3>2, <3>4, <1>1 DEF Moved
    <2> QED BY <1>4, <2>2, <2>3, <2>4, <2>5, WorkSteps
  <1>5. CASE \A w \in Workers : ~Work(w)
    BY <1>5, <1>1, OtherSteps
  <1> QED BY <1>2, <1>3, <1>4, <1>5

-----------------------------------------------------------------------------
(* Maintenance windows.                                                    *)

\* A job is sent, and waits to be sent, only once its window has begun.
TimeOK ==
    /\ now \in Nat
    /\ sentAt \in [Jobs -> Nat \cup {None}]
    /\ NeverEarly
    /\ \A w \in Workers :
          worker[w].pc \in {"sem", "send"} /\ HasWindow(worker[w].job)
             => WinStart[worker[w].job] <= now

\* A worker that comes to, or stays in, the section before it sends has just
\* checked the window or stays there with its job.
LEMMA WaitingSteps ==
    ASSUME WorkerOK, queue \in Seq(Jobs), [Next]_vars, NEW v \in Workers,
           worker'[v].pc \in {"sem", "send"}
    PROVE  /\ worker'[v].job = worker[v].job
           /\ worker[v].pc \in {"sem", "send"} \/ PassWindow(v)
  <1>1. CASE worker'[v] = worker[v]
    BY <1>1
  <1>2. ASSUME NEW w \in Workers, Work(w), worker'[v] # worker[v]
        PROVE  /\ worker'[v].job = worker[v].job
               /\ worker[v].pc \in {"sem", "send"} \/ PassWindow(v)
    <2>1. CASE TakeJob(w)
      BY <1>2, <2>1, TakeFacts
    <2>2. CASE SeeStop(w)
      BY <1>2, <2>2, SeeStopFacts
    <2>3. CASE Return(w)
      BY <1>2, <2>3, ReturnFacts DEF Returned
    <2>4. CASE \E l : Goto(w, l) /\ Follows(worker[w].pc, l)
      <3>1. PICK l : Goto(w, l) /\ Follows(worker[w].pc, l)
        BY <2>4
      <3>2. Moved(w, l)
        BY <3>1, GotoStep
      <3>3. CASE v # w
        BY <3>2, <3>3 DEF Moved
      <3>4. CASE v = w
        <4>1. l \in {"sem", "send"} /\ worker'[v].job = worker[v].job
          BY <3>2, <3>4 DEF Moved
        <4>2. worker[w].pc \in {"window", "sem"}
          BY <3>1, <4>1 DEF Follows
        <4>3. CASE worker[w].pc = "window"
          <5>1. MissWindow(w) \/ PassWindow(w)
            BY <1>2, <4>3 DEF Work, TakeJob, SeeStop, Exit, AcquireJob, Conflict,
               PassPause, TakeSlot, Dispatch, DispatchFails, ReleaseSlot, ReleaseJob
          <5>2. ASSUME MissWindow(w)
                PROVE  FALSE
            <6>1. Goto(w, "reljob")
              BY <5>2 DEF MissWindow
            <6>2. Moved(w, "reljob")
              BY <6>1, <4>3, GotoStep DEF Follows
            <6> QED BY <6>2, <3>4 DEF Moved
          <5> QED BY <3>4, <4>1, <5>1, <5>2
        <4> QED BY <3>4, <4>1, <4>2, <4>3
      <3> QED BY <3>3, <3>4
    <2> QED BY <1>2, <2>1, <2>2, <2>3, <2>4, WorkSteps
  <1>3. CASE \A w \in Workers : ~Work(w)
    BY <1>1, <1>3, OtherSteps
  <1> QED BY <1>1, <1>2, <1>3

\* Every step keeps TimeOK.
LEMMA TimeNext ==
    ASSUME WorkerOK, queue \in Seq(Jobs), TimeOK, [Next]_vars
    PROVE  TimeOK'
  <1>1. now' \in Nat /\ now <= now'
    <2>1. UNCHANGED now \/ Tick
      BY DEF Next, vars, Stop, CloseStopChan, Submit, Enqueue, SubmitTimeout,
         TimerFires, TimerCancelled, PauseGroup, ResumeGroup, Disconnect, Register,
         Work, TakeJob, SeeStop, Exit, AcquireJob, Conflict, PassPause, MissWindow,
         PassWindow, TakeSlot, Dispatch, DispatchFails, ReleaseSlot, ReleaseJob
    <2> QED BY <2>1 DEF TimeOK, Tick
  <1>2. ASSUME NEW v \in Workers, worker'[v].pc \in {"sem", "send"},
               HasWindow(worker'[v].job)
        PROVE  WinStart[worker'[v].job] <= now'
    <2>1. /\ worker'[v].job = worker[v].job
          /\ worker[v].pc \in {"sem", "send"} \/ PassWindow(v)
      BY <1>2, WaitingSteps
    <2>2. worker[v].job \in Jobs
      BY <2>1 DEF PassWindow, WorkerOK, Acting, Holding
    <2>3. WinStart[worker[v].job] \in Nat
      BY <1>2, <2>1, <2>2, JobsAssumption DEF HasWindow
    <2>4. CASE PassWindow(v)
      <3>1. ~TooLate(worker[v].job) /\ ~TooEarly(worker[v].job)
        BY <2>4 DEF PassWindow
      <3>2. WinStart[worker[v].job] <= now
        BY <1>2, <2>1, <2>3, <3>1 DEF TooEarly, TimeOK
      <3> QED BY <1>1, <2>1, <2>3, <3>2 DEF TimeOK
    <2>5. CASE worker[v].pc \in {"sem", "send"}
      BY <1>1, <1>2, <2>1, <2>3, <2>5 DEF TimeOK
    <2> QED BY <2>1, <2>4, <2>5
  <1>3. CASE UNCHANGED sentAt
    BY <1>1, <1>2, <1>3 DEF TimeOK, NeverEarly, HasWindow
  <1>4. ASSUME NEW w \in Workers, Dispatch(w)
        PROVE  TimeOK'
    <2> DEFINE j == worker[w].job
    <2>1. worker[w].pc = "send" /\ sentAt' = [sentAt EXCEPT ![j] = now]
      BY <1>4 DEF Dispatch
    <2>2. j \in Jobs
      BY <2>1 DEF WorkerOK, Acting, Holding
    <2>3. /\ sentAt' \in [Jobs -> Nat \cup {None}]
          /\ sentAt'[j] = now
          /\ \A i \in Jobs : i # j => sentAt'[i] = sentAt[i]
      BY <2>1, <2>2 DEF TimeOK
    <2>4. HasWindow(j) => WinStart[j] \in Nat /\ now >= WinStart[j]
      BY <2>1, <2>2, JobsAssumption DEF TimeOK, HasWindow
    <2>5. NeverEarly'
      BY <2>3, <2>4 DEF NeverEarly, TimeOK, HasWindow
    <2> QED BY <1>1, <1>2, <2>3, <2>5 DEF TimeOK, HasWindow
  <1>5. UNCHANGED sentAt \/ \E w \in Workers : Dispatch(w)
    BY DEF Next, vars, poolVars, Tick, Stop, CloseStopChan, Submit, Enqueue,
       SubmitTimeout, TimerFires, TimerCancelled, PauseGroup, ResumeGroup,
       Disconnect, Register, Work, TakeJob, SeeStop, Exit, AcquireJob, Conflict,
       PassPause, MissWindow, PassWindow, TakeSlot, DispatchFails, ReleaseSlot,
       ReleaseJob
  <1> QED BY <1>3, <1>4, <1>5

-----------------------------------------------------------------------------
(* Draining.                                                               *)

Queued(j) == \E i \in 1 .. Len(queue) : queue[i] = j

\* The jobs that were queued when the pool was stopped and are still to be
\* taken are in the queue; a worker drains it only after the stop, and leaves
\* only when nothing is owed.
DrainOK ==
    /\ \A j \in owed : Queued(j)
    /\ \A w \in Workers :
          worker[w].drain \/ worker[w].pc \in {"drain", "exited"} => stop = "closed"
    /\ Drained

\* What is in the queue after a job was added.
LEMMA AppendQueued ==
    ASSUME queue \in Seq(Jobs), NEW k \in Jobs, queue' = Append(queue, k)
    PROVE  \A j \in Jobs : Queued(j)' <=> Queued(j) \/ j = k
  <1>1. /\ Len(queue) \in Nat /\ Len(queue') = Len(queue) + 1
        /\ \A i \in 1 .. Len(queue) : queue'[i] = queue[i]
        /\ queue'[Len(queue) + 1] = k
    OBVIOUS
  <1>2. \A i \in 1 .. Len(queue') : i \in 1 .. Len(queue) \/ i = Len(queue) + 1
    BY <1>1
  <1>3. /\ 1 .. Len(queue) \subseteq 1 .. Len(queue')
        /\ Len(queue) + 1 \in 1 .. Len(queue')
    BY <1>1
  <1> QED BY <1>1, <1>2, <1>3 DEF Queued

\* What is in the queue after its first job was taken.
LEMMA TailQueued ==
    ASSUME queue \in Seq(Jobs), queue # <<>>, queue' = Tail(queue)
    PROVE  /\ Queued(Head(queue))
           /\ \A j : Queued(j) => Queued(j)' \/ j = Head(queue)
           /\ \A j : Queued(j)' => Queued(j)
           /\ \A i \in 1 .. Len(queue') : i + 1 \in 2 .. Len(queue)
                                        /\ queue'[i] = queue[i + 1]
  <1>1. /\ Len(queue) \in Nat \ {0} /\ Len(queue') = Len(queue) - 1
        /\ \A i \in 1 .. Len(queue') : queue'[i] = queue[i + 1]
        /\ queue[1] = Head(queue)
    OBVIOUS
  <1>2. \A i \in 1 .. Len(queue) : i = 1 \/ (i - 1 \in 1 .. Len(queue') /\ (i - 1) + 1 = i)
    BY <1>1
  <1>3. \A i \in 1 .. Len(queue') : i + 1 \in 2 .. Len(queue) /\ i + 1 \in 1 .. Len(queue)
    BY <1>1
  <1>4. 1 \in 1 .. Len(queue)
    BY <1>1
  <1>5. ASSUME NEW j, Queued(j), j # Head(queue)
        PROVE  Queued(j)'
    <2>1. PICK i \in 1 .. Len(queue) : queue[i] = j
      BY <1>5 DEF Queued
    <2>2. i - 1 \in 1 .. Len(queue') /\ (i - 1) + 1 = i
      BY <1>1, <1>2, <1>5, <2>1
    <2>3. queue'[i - 1] = j
      BY <1>1, <2>1, <2>2
    <2> QED BY <2>2, <2>3 DEF Queued
  <1>6. ASSUME NEW j, Queued(j)'
        PROVE  Queued(j)
    <2>1. PICK i \in 1 .. Len(queue') : queue'[i] = j
      BY <1>6 DEF Queued
    <2> QED BY <1>1, <1>3, <2>1 DEF Queued
  <1> QED BY <1>1, <1>3, <1>4, <1>5, <1>6 DEF Queued

\* Every step keeps DrainOK.
LEMMA DrainNext ==
    ASSUME WorkerOK, queue \in Seq(Jobs), owed \in SUBSET Jobs, DrainOK, [Next]_vars
    PROVE  DrainOK' /\ owed' \in SUBSET Jobs
  <1>1. (stop = "closed" => stop' = "closed")
        /\ (stop' # stop => UNCHANGED <<worker, queue>>)
    BY DEF Next, vars, poolVars, ctlVars, Tick, Stop, CloseStopChan, Submit, Enqueue,
       SubmitTimeout, TimerFires, TimerCancelled, PauseGroup, ResumeGroup,
       Disconnect, Register, Work, TakeJob, SeeStop, Exit, AcquireJob, Conflict,
       PassPause, MissWindow, PassWindow, TakeSlot, Dispatch, DispatchFails,
       ReleaseSlot, ReleaseJob
  <1>2. ASSUME NEW v \in Workers,
               worker'[v].drain \/ worker'[v].pc \in {"drain", "exited"}
        PROVE  stop' = "closed"
    <2>1. CASE worker'[v] = worker[v]
      BY <1>1, <1>2, <2>1 DEF DrainOK
    <2>2. ASSUME NEW w \in Workers, Work(w), worker'[v] # worker[v]
          PROVE  stop' = "closed"
      <3>1. CASE TakeJob(w)
        BY <1>1, <1>2, <2>2, <3>1, TakeFacts DEF DrainOK
      <3>2. CASE SeeStop(w)
        BY <1>1, <3>2 DEF SeeStop
      <3>3. CASE Return(w)
        <4>1. Returned(w)
          BY <3>3, ReturnFacts
        <4>2. v = w
          BY <4>1, <2>2 DEF Returned
        <4>3. worker[w].drain
          BY <1>2, <4>1, <4>2 DEF Returned
        <4> QED BY <1>1, <4>3 DEF DrainOK
      <3>4. CASE \E l : Goto(w, l) /\ Follows(worker[w].pc, l)
        <4>1. PICK l : Goto(w, l) /\ Follows(worker[w].pc, l)
          BY <3>4
        <4>2. Moved(w, l)
          BY <4>1, GotoStep
        <4>3. worker[v].drain \/ worker[v].pc \in {"drain", "exited"}
          BY <1>2, <4>1, <4>2 DEF Moved, Follows
        <4> QED BY <1>1, <4>3 DEF DrainOK
      <3> QED BY <2>2, <3>1, <3>2, <3>3, <3>4, WorkSteps
    <2>3. CASE \A w \in Workers : ~Work(w)
      BY <2>1, <2>3, OtherSteps
    <2> QED BY <2>1, <2>2, <2>3
  <1>3. /\ \A j \in owed' : Queued(j)'
        /\ owed' \in SUBSET Jobs
        /\ owed' \subseteq owed \/ CloseStopChan
    <2>1. CASE UNCHANGED <<queue, owed>>
      BY <2>1 DEF DrainOK, Queued
    <2>2. ASSUME NEW j \in Jobs, Enqueue(j)
          PROVE  <1>3!:
      BY <2>2, AppendQueued DEF Enqueue, ctlVars, DrainOK
    <2>3. ASSUME NEW w \in Workers, TakeJob(w)
          PROVE  <1>3!:
      <3>1. queue # <<>> /\ queue' = Tail(queue) /\ owed' = owed \ {Head(queue)}
        BY <2>3 DEF TakeJob
      <3> QED BY <3>1, TailQueued DEF DrainOK
    <2>4. CASE CloseStopChan
      <3>1. UNCHANGED queue /\ owed' = {queue[i] : i \in 1 .. Len(queue)}
        BY <2>4 DEF CloseStopChan, poolVars
      <3> QED BY <2>4, <3>1 DEF Queued
    <2>5. UNCHANGED <<queue, owed>> \/ CloseStopChan
          \/ (\E j \in Jobs : Enqueue(j)) \/ \E w \in Workers : TakeJob(w)
      BY DEF Next, vars, poolVars, ctlVars, Tick, Stop, Submit, SubmitTimeout,
         TimerFires, TimerCancelled, PauseGroup, ResumeGroup, Disconnect, Register,
         Work, SeeStop, Exit, AcquireJob, Conflict, PassPause, MissWindow,
         PassWindow, TakeSlot, Dispatch, DispatchFails, ReleaseSlot, ReleaseJob
    <2> QED BY <2>1, <2>2, <2>3, <2>4, <2>5
  <1>4. ASSUME NEW v \in Workers, worker'[v].pc = "exited"
        PROVE  owed' = {}
    <2>1. CASE worker[v].pc = "exited"
      <3>1. owed = {} /\ stop = "closed"
        BY <2>1 DEF DrainOK, Drained
      <3>2. ~CloseStopChan
        BY <3>1 DEF CloseStopChan
      <3> QED BY <1>3, <3>1, <3>2
    <2>2. ASSUME NEW w \in Workers, Work(w), worker[v].pc # "exited"
          PROVE  owed' = {}
      <3>1. CASE TakeJob(w)
        BY <1>4, <2>2, <3>1, TakeFacts
      <3>2. CASE SeeStop(w)
        BY <1>4, <2>2, <3>2, SeeStopFacts
      <3>3. CASE Return(w)
        BY <1>4, <2>2, <3>3, ReturnFacts DEF Returned
      <3>4. CASE \E l : Goto(w, l) /\ Follows(worker[w].pc, l)
        <4>1. PICK l : Goto(w, l) /\ Follows(worker[w].pc, l)
          BY <3>4
        <4>2. Moved(w, l)
          BY <4>1, GotoStep
        <4>3. worker[w].pc = "drain"
          BY <1>4, <2>2, <4>1, <4>2 DEF Moved, Follows
        <4>4. Exit(w) \/ TakeJob(w)
          BY <2>2, <4>3 DEF Work, SeeStop, AcquireJob, Conflict, PassPause,
             MissWindow, PassWindow, TakeSlot, Dispatch, DispatchFails,
             ReleaseSlot, ReleaseJob
        <4>5. CASE Exit(w)
          <5>1. queue = <<>> /\ UNCHANGED owed
            BY <4>5 DEF Exit, ctlVars
          <5>2. \A j : ~Queued(j)
            BY <5>1 DEF Queued
          <5> QED BY <5>1, <5>2 DEF DrainOK
        <4> QED BY <3>1, <4>4, <4>5
      <3> QED BY <2>2, <3>1, <3>2, <3>3, <3>4, WorkSteps
    <2>3. CASE \A w \in Workers : ~Work(w)
      BY <1>4, <2>1, <2>3, OtherSteps
    <2> QED BY <2>1, <2>2, <2>3
  <1> QED BY <1>2, <1>3, <1>4 DEF DrainOK, Drained

-----------------------------------------------------------------------------
(* Where a job is.                                                         *)

Carrying == {"acquire", "pause", "window", "sem", "send"}

HasJob(w, j) == worker[w].job = j /\ worker[w].pc \in Carrying

Somewhere(j) ==
    \/ j \in submitting \/ Queued(j) \/ timer[j] # None
    \/ \E w \in Workers : HasJob(w, j)

\* A job is in one place only.
Sole(j) ==
    /\ j \in submitting => ~Queued(j) /\ timer[j] = None
    /\ Queued(j) => timer[j] = None
    /\ \A w \in Workers : HasJob(w, j) =>
          j \notin submitting /\ ~Queued(j) /\ timer[j] = None
    /\ \A v, w \in Workers : HasJob(v, j) /\ HasJob(w, j) => v = w

\* The jobs that are somewhere are those without an outcome, and they have
\* not been sent.
JobOK(j) ==
    /\ Sole(j)
    /\ outcome[j] = "live" <=> Somewhere(j)
    /\ outcome[j] \in {"new", "live"} => sent[j] = 0
    /\ sent[j] \in {0, 1}

NoneTwice == \A i, k \in 1 .. Len(queue) : queue[i] = queue[k] => i = k

PlaceOK ==
    /\ submitting \in SUBSET Jobs
    /\ timer \in [Jobs -> Nat \cup {None}]
    /\ outcome \in [Jobs -> Outcomes]
    /\ sent \in [Jobs -> Nat]
    /\ NoneTwice
    /\ \A j \in Jobs : JobOK(j)

\* A step leaves j where it is.
Same(j) ==
    /\ j \in submitting' <=> j \in submitting
    /\ Queued(j)' <=> Queued(j)
    /\ timer'[j] = timer[j]
    /\ \A w \in Workers : HasJob(w, j)' <=> HasJob(w, j)
    /\ outcome'[j] = outcome[j]
    /\ sent'[j] = sent[j]

\* A job that stays where it is stays correct.
LEMMA SameJob ==
    ASSUME NEW j \in Jobs, JobOK(j), Same(j)
    PROVE  JobOK(j)'
  <1>1. Somewhere(j)' <=> Somewhere(j)
    BY DEF Same, Somewhere
  <1>2. Sole(j)'
    BY DEF Same, Sole, JobOK
  <1> QED BY <1>1, <1>2 DEF Same, JobOK

\* Which jobs the workers have after one of them went on with its job.
LEMMA GotoHas ==
    ASSUME WorkerOK, NEW w \in Workers, NEW l, Goto(w, l), Follows(worker[w].pc, l)
    PROVE  \A v \in Workers, j \in Jobs :
              HasJob(v, j)' <=> HasJob(v, j) /\ (v # w \/ l \in Carrying)
  <1>1. Moved(w, l)
    BY GotoStep
  <1>2. l \in Carrying => worker[w].pc \in Carrying
    BY DEF Follows, Carrying
  <1> QED BY <1>1, <1>2 DEF Moved, HasJob

\* Which jobs the workers have after one of them gave its job back.
LEMMA ReturnHas ==
    ASSUME WorkerOK, NEW w \in Workers, Return(w)
    PROVE  \A v \in Workers, j \in Jobs : HasJob(v, j)' <=> HasJob(v, j) /\ v # w
  BY ReturnFacts DEF Returned, HasJob, Carrying

\* Which jobs the workers have after one of them took one.
LEMMA TakeHas ==
    ASSUME WorkerOK, queue \in Seq(Jobs), NEW w \in Workers, TakeJob(w)
    PROVE  \A v \in Workers, j \in Jobs :
              HasJob(v, j)' <=> HasJob(v, j) \/ (v = w /\ j = Head(queue))
  <1>1. ~(worker[w].pc \in Carrying)
    BY TakeFacts DEF Carrying
  <1> QED BY <1>1, TakeFacts DEF HasJob, Carrying

\* A job whose place is gone and that has an outcome is correct.
LEMMA Ended ==
    ASSUME NEW j \in Jobs,
           j \notin submitting', ~Queued(j)', timer'[j] = None,
           \A w \in Workers : ~HasJob(w, j)',
           outcome'[j] \notin {"new", "live"}, sent'[j] \in {0, 1}
    PROVE  JobOK(j)'
  BY DEF JobOK, Sole, Somewhere

\* Every step of the callers and the timers keeps PlaceOK.
LEMMA CallerPlaces ==
    ASSUME queue \in Seq(Jobs), PlaceOK, NEW k \in Jobs,
           Submit(k) \/ Enqueue(k) \/ SubmitTimeout(k) \/ TimerFires(k)
              \/ TimerCancelled(k)
    PROVE  PlaceOK'
  <1>1. /\ UNCHANGED <<worker, sent>>
        /\ \A j \in Jobs, w \in Workers : HasJob(w, j)' <=> HasJob(w, j)
    BY DEF Submit, Enqueue, SubmitTimeout, TimerFires, TimerCancelled, HasJob
  <1>2. JobOK(k)
    BY DEF PlaceOK
  <1>3. CASE Submit(k)
    <2>1. /\ outcome[k] = "new" /\ outcome' = [outcome EXCEPT ![k] = "live"]
          /\ submitting' = submitting \cup {k} /\ UNCHANGED <<queue, timer>>
      BY <1>3 DEF Submit, Finish
    <2>2. /\ outcome' \in [Jobs -> Outcomes] /\ outcome'[k] = "live"
          /\ \A j \in Jobs : j # k => outcome'[j] = outcome[j]
      BY <2>1 DEF PlaceOK, Outcomes
    <2>3. \A j \in Jobs : Queued(j)' <=> Queued(j)
      BY <2>1 DEF Queued
    <2>4. \A j \in Jobs : j # k => Same(j)
      BY <1>1, <2>1, <2>2, <2>3 DEF Same
    <2>5. ~Somewhere(k) /\ sent[k] = 0
      BY <1>2, <2>1 DEF JobOK
    <2>6. JobOK(k)'
      BY <1>1, <2>1, <2>2, <2>3, <2>5 DEF JobOK, Sole, Somewhere
    <2> QED BY <1>1, <2>1, <2>2, <2>4, <2>6, SameJob DEF PlaceOK, NoneTwice
  <1>4. CASE Enqueue(k)
    <2>1. /\ k \in submitting /\ submitting' = submitting \ {k}
          /\ queue' = Append(queue, k) /\ UNCHANGED <<timer, outcome>>
      BY <1>4 DEF Enqueue
    <2>2. \A j \in Jobs : Queued(j)' <=> Queued(j) \/ j = k
      BY <2>1, AppendQueued
    <2>3. \A j \in Jobs : j # k => Same(j)
      BY <1>1, <2>1, <2>2 DEF Same
    <2>4. /\ ~Queued(k) /\ timer[k] = None /\ outcome[k] = "live"
          /\ \A w \in Workers : ~HasJob(w, k)
      BY <1>2, <2>1 DEF JobOK, Sole, Somewhere
    <2>5. JobOK(k)'
      BY <1>1, <1>2, <2>1, <2>2, <2>4 DEF JobOK, Sole, Somewhere
    <2>6. NoneTwice'
      <3>1. /\ Len(queue) \in Nat /\ Len(queue') = Len(queue) + 1
            /\ \A i \in 1 .. Len(queue) : queue'[i] = queue[i]
            /\ queue'[Len(queue) + 1] = k
        BY <2>1
      <3>2. \A i \in 1 .. Len(queue') : i \in 1 .. Len(queue) \/ i = Len(queue) + 1
        BY <3>1
      <3>3. \A i \in 1 .. Len(queue) : queue[i] # k
        BY <2>4 DEF Queued
      <3> QED BY <3>1, <3>2, <3>3 DEF NoneTwice, PlaceOK
    <2> QED BY <1>1, <2>1, <2>3, <2>5, <2>6, SameJob DEF PlaceOK
  <1>5. CASE SubmitTimeout(k)
    <2>1. /\ k \in submitting /\ submitting' = submitting \ {k}
          /\ outcome' = [outcome EXCEPT ![k] = "rejected"]
          /\ UNCHANGED <<queue, timer>>
      BY <1>5 DEF SubmitTimeout, Finish
    <2>2. /\ outcome' \in [Jobs -> Outcomes] /\ outcome'[k] = "rejected"
          /\ \A j \in Jobs : j # k => outcome'[j] = outcome[j]
      BY <2>1 DEF PlaceOK, Outcomes
    <2>3. \A j \in Jobs : Queued(j)' <=> Queued(j)
      BY <2>1 DEF Queued
    <2>4. \A j \in Jobs : j # k => Same(j)
      BY <1>1, <2>1, <2>2, <2>3 DEF Same
    <2>5. JobOK(k)'
      BY <1>1, <1>2, <2>1, <2>2, <2>3 DEF JobOK, Sole, Somewhere
    <2> QED BY <1>1, <2>1, <2>2, <2>4, <2>5, SameJob DEF PlaceOK, NoneTwice
  <1>6. CASE TimerFires(k)
    <2>1. /\ timer[k] # None /\ timer' = [timer EXCEPT ![k] = None]
          /\ submitting' = submitting \cup {k} /\ UNCHANGED <<queue, outcome>>
      BY <1>6 DEF TimerFires
    <2>2. /\ timer' \in [Jobs -> Nat \cup {None}] /\ timer'[k] = None
          /\ \A j \in Jobs : j # k => timer'[j] = timer[j]
      BY <2>1 DEF PlaceOK
    <2>3. \A j \in Jobs : Queued(j)' <=> Queued(j)
      BY <2>1 DEF Queued
    <2>4. \A j \in Jobs : j # k => Same(j)
      BY <1>1, <2>1, <2>2, <2>3 DEF Same
    <2>5. JobOK(k)'
      BY <1>1, <1>2, <2>1, <2>2, <2>3 DEF JobOK, Sole, Somewhere
    <2> QED BY <1>1, <2>1, <2>2, <2>4, <2>5, SameJob DEF PlaceOK, NoneTwice
  <1>7. CASE TimerCancelled(k)
    <2>1. /\ timer[k] # None /\ timer' = [timer EXCEPT ![k] = None]
          /\ outcome' = [outcome EXCEPT ![k] = "cancelled"]
          /\ UNCHANGED <<queue, submitting>>
      BY <1>7 DEF TimerCancelled, Finish
    <2>2. /\ timer' \in [Jobs -> Nat \cup {None}] /\ timer'[k] = None
          /\ outcome' \in [Jobs -> Outcomes] /\ outcome'[k] = "cancelled"
          /\ \A j \in Jobs : j # k => timer'[j] = timer[j] /\ outcome'[j] = outcome[j]
      BY <2>1 DEF PlaceOK, Outcomes
    <2>3. \A j \in Jobs : Queued(j)' <=> Queued(j)
      BY <2>1 DEF Queued
    <2>4. \A j \in Jobs : j # k => Same(j)
      BY <1>1, <2>1, <2>2, <2>3 DEF Same
    <2>5. JobOK(k)'
      BY <1>1, <1>2, <2>1, <2>2, <2>3 DEF JobOK, Sole, Somewhere
    <2> QED BY <1>1, <2>1, <2>2, <2>4, <2>5, SameJob DEF PlaceOK, NoneTwice
  <1> QED BY <1>3, <1>4, <1>5, <1>6, <1>7

\* A worker that ends a job, by an outcome other than sending it, keeps PlaceOK.
LEMMA EndPlaces ==
    ASSUME PlaceOK, NEW w \in Workers, NEW k \in Jobs, HasJob(w, k),
           NEW o \in Outcomes \ {"new", "live"}, outcome' = [outcome EXCEPT ![k] = o],
           \A v \in Workers, j \in Jobs : HasJob(v, j)' <=> HasJob(v, j) /\ v # w,
           UNCHANGED <<queue, submitting, timer>>,
           sent' \in [Jobs -> Nat], sent'[k] \in {0, 1},
           \A j \in Jobs : j # k => sent'[j] = sent[j]
    PROVE  PlaceOK'
  <1>1. /\ outcome' \in [Jobs -> Outcomes] /\ outcome'[k] = o
        /\ \A j \in Jobs : j # k => outcome'[j] = outcome[j]
    BY DEF PlaceOK
  <1>2. \A j \in Jobs : Queued(j)' <=> Queued(j)
    BY DEF Queued
  <1>3. \A j \in Jobs : HasJob(w, j) => j = k
    BY DEF HasJob
  <1>4. \A j \in Jobs : j # k => Same(j)
    BY <1>1, <1>2, <1>3 DEF Same
  <1>5. /\ k \notin submitting /\ ~Queued(k) /\ timer[k] = None
        /\ \A v \in Workers : HasJob(v, k) => v = w
    BY DEF PlaceOK, JobOK, Sole
  <1>6. JobOK(k)'
    BY <1>1, <1>2, <1>5, Ended
  <1> QED BY <1>1, <1>4, <1>6, SameJob DEF PlaceOK, NoneTwice

\* Every step of the workers keeps PlaceOK.
LEMMA WorkerPlaces ==
    ASSUME WorkerOK, queue \in Seq(Jobs), now \in Nat, PlaceOK,
           NEW w \in Workers, Work(w)
    PROVE  PlaceOK'
  <1> DEFINE k == worker[w].job
  <1>1. ASSUME UNCHANGED poolVars,
               \A v \in Workers, j \in Jobs : HasJob(v, j)' <=> HasJob(v, j)
        PROVE  PlaceOK'
    <2>1. UNCHANGED <<queue, submitting, timer, outcome, sent>>
      BY <1>1 DEF poolVars
    <2>2. \A j \in Jobs : Same(j)
      BY <1>1, <2>1 DEF Same, Queued
    <2> QED BY <2>1, <2>2, SameJob DEF PlaceOK, NoneTwice
  <1>2. CASE TakeJob(w)
    <2> DEFINE h == Head(queue)
    <2>1. /\ queue # <<>> /\ h \in Jobs /\ queue' = Tail(queue)
          /\ UNCHANGED <<submitting, timer, outcome, sent>>
      BY <1>2, TakeFacts DEF TakeJob
    <2>2. \A v \in Workers, j \in Jobs :
             HasJob(v, j)' <=> HasJob(v, j) \/ (v = w /\ j = h)
      BY <1>2, TakeHas
    <2>3. /\ Queued(h)
          /\ \A j \in Jobs : Queued(j) => Queued(j)' \/ j = h
          /\ \A j \in Jobs : Queued(j)' => Queued(j)
          /\ \A i \in 1 .. Len(queue') : i + 1 \in 2 .. Len(queue)
                                       /\ queue'[i] = queue[i + 1]
      BY <2>1, TailQueued
    <2>4. Len(queue) \in Nat /\ Len(queue') \in Nat /\ queue[1] = h
          /\ 1 \in 1 .. Len(queue)
      BY <2>1
    <2>5. ASSUME NEW j \in Jobs, j = h
          PROVE  ~Queued(j)'
      <3>1. SUFFICES ASSUME NEW i \in 1 .. Len(queue'), queue'[i] = j
                     PROVE  FALSE
        BY DEF Queued
      <3>2. queue[i + 1] = queue[1] /\ i + 1 \in 1 .. Len(queue) /\ i + 1 # 1
        BY <2>3, <2>4, <2>5, <3>1
      <3> QED BY <2>4, <3>2 DEF PlaceOK, NoneTwice
    <2>6. NoneTwice'
      <3>1. SUFFICES ASSUME NEW i \in 1 .. Len(queue'), NEW n \in 1 .. Len(queue'),
                            queue'[i] = queue'[n]
                     PROVE  i = n
        BY DEF NoneTwice
      <3>2. /\ queue[i + 1] = queue[n + 1]
            /\ i + 1 \in 1 .. Len(queue) /\ n + 1 \in 1 .. Len(queue)
        BY <2>3, <2>4, <3>1
      <3>3. i + 1 = n + 1
        BY <3>2 DEF PlaceOK, NoneTwice
      <3> QED BY <2>4, <3>3
    <2>7. \A j \in Jobs : j # h => Same(j)
      BY <2>1, <2>2, <2>3 DEF Same
    <2>8. ASSUME NEW j \in Jobs, j = h
          PROVE  JobOK(j)'
      <3>1. JobOK(j) /\ Queued(j)
        BY <2>3, <2>8 DEF PlaceOK
      <3>2. /\ j \notin submitting /\ timer[j] = None /\ outcome[j] = "live"
            /\ \A v \in Workers : ~HasJob(v, j)
        BY <3>1 DEF JobOK, Sole, Somewhere
      <3> QED BY <2>1, <2>2, <2>5, <2>8, <3>1, <3>2 DEF JobOK, Sole, Somewhere
    <2> QED BY <2>1, <2>6, <2>7, <2>8, SameJob DEF PlaceOK
  <1>3. CASE SeeStop(w)
    <2>1. /\ UNCHANGED poolVars /\ worker[w].pc = "select" /\ worker'[w].pc = "drain"
          /\ \A v \in Workers : v # w => worker'[v] = worker[v]
      BY <1>3, SeeStopFacts DEF SeeStop
    <2> QED BY <2>1, <1>1 DEF HasJob, Carrying
  <1>4. CASE Conflict(w)
    <2>1. /\ worker[w].pc = "acquire" /\ Return(w)
          /\ outcome' = [outcome EXCEPT ![k] = "conflict"]
          /\ UNCHANGED <<queue, submitting, timer, sent>>
      BY <1>4 DEF Conflict, Finish
    <2>2. k \in Jobs /\ HasJob(w, k)
      BY <2>1 DEF WorkerOK, Acting, HasJob, Carrying
    <2>3. sent'[k] \in {0, 1} /\ sent' \in [Jobs -> Nat]
      BY <2>1, <2>2 DEF PlaceOK, JobOK
    <2> QED BY <2>1, <2>2, <2>3, ReturnHas, EndPlaces DEF Outcomes
  <1>5. CASE ReleaseJob(w)
    <2>1. worker[w].pc = "reljob" /\ Return(w) /\ UNCHANGED poolVars
      BY <1>5 DEF ReleaseJob
    <2>2. \A j \in Jobs : ~HasJob(w, j)
      BY <2>1 DEF HasJob, Carrying
    <2> QED BY <2>1, <2>2, <1>1, ReturnHas
  <1>6. CASE Exit(w) \/ AcquireJob(w) \/ PassPause(w) \/ PassWindow(w)
               \/ TakeSlot(w) \/ ReleaseSlot(w)
    <2>1. UNCHANGED poolVars
      BY <1>6 DEF Exit, AcquireJob, PassPause, PassWindow, TakeSlot, ReleaseSlot
    <2>2. PICK l : /\ Goto(w, l) /\ Follows(worker[w].pc, l)
                   /\ l \in Carrying \/ worker[w].pc \in {"drain", "relsem"}
      BY <1>6 DEF Exit, AcquireJob, PassPause, PassWindow, TakeSlot, ReleaseSlot,
                 Follows, Carrying
    <2>3. \A v \in Workers, j \in Jobs :
             HasJob(v, j)' <=> HasJob(v, j) /\ (v # w \/ l \in Carrying)
      BY <2>2, GotoHas
    <2>4. \A v \in Workers, j \in Jobs : HasJob(v, j)' <=> HasJob(v, j)
      BY <2>2, <2>3 DEF HasJob, Carrying
    <2> QED BY <2>1, <2>4, <1>1
  <1>7. CASE MissWindow(w)
    <2>1. /\ worker[w].pc = "window" /\ Goto(w, "reljob")
          /\ UNCHANGED <<queue, submitting, sent>>
      BY <1>7 DEF MissWindow
    <2>2. k \in Jobs /\ HasJob(w, k)
      BY <2>1 DEF WorkerOK, Acting, Holding, HasJob, Carrying
    <2>3. \A v \in Workers, j \in Jobs : HasJob(v, j)' <=> HasJob(v, j) /\ v # w
      <3>1. Follows(worker[w].pc, "reljob")
        BY <2>1 DEF Follows
      <3> QED BY <2>1, <3>1, GotoHas DEF Carrying
    <2>4. CASE TooLate(k) /\ Finish(k, "late") /\ UNCHANGED timer
      <3>1. sent'[k] \in {0, 1} /\ sent' \in [Jobs -> Nat]
        BY <2>1, <2>2 DEF PlaceOK, JobOK
      <3> QED BY <2>1, <2>2, <2>3, <2>4, <3>1, EndPlaces DEF Outcomes, Finish
    <2>5. CASE /\ TooEarly(k) /\ UNCHANGED outcome
               /\ timer' = [timer EXCEPT ![k] = Later(WinStart[k], now + MinDelay)]
      <3>1. Later(WinStart[k], now + MinDelay) \in Nat
        BY <2>2, <2>5, JobsAssumption, LimitsAssumption DEF TooEarly, HasWindow, Later
      <3>2. /\ timer' \in [Jobs -> Nat \cup {None}] /\ timer'[k] # None
            /\ \A j \in Jobs : j # k => timer'[j] = timer[j]
        BY <2>2, <2>5, <3>1, JobsAssumption DEF PlaceOK
      <3>3. \A j \in Jobs : Queued(j)' <=> Queued(j)
        BY <2>1 DEF Queued
      <3>4. \A j \in Jobs : HasJob(w, j) => j = k
        BY DEF HasJob
      <3>5. \A j \in Jobs : j # k => Same(j)
        BY <2>1, <2>3, <2>5, <3>2, <3>3, <3>4 DEF Same
      <3>6. ASSUME NEW j \in Jobs, j = k
            PROVE  JobOK(j)'
        <4>1. JobOK(j) /\ HasJob(w, j)
          BY <2>2, <3>6 DEF PlaceOK
        <4>2. /\ j \notin submitting /\ ~Queued(j) /\ outcome[j] = "live"
              /\ \A v \in Workers : HasJob(v, j) => v = w
          BY <4>1 DEF JobOK, Sole, Somewhere
        <4> QED BY <2>1, <2>3, <2>5, <3>2, <3>3, <3>6, <4>1, <4>2
               DEF JobOK, Sole, Somewhere
      <3> QED BY <2>1, <2>5, <3>2, <3>5, <3>6, SameJob DEF PlaceOK, NoneTwice
    <2> QED BY <1>7, <2>4, <2>5 DEF MissWindow
  <1>8. CASE Dispatch(w) \/ DispatchFails(w)
    <2>1. /\ worker[w].pc = "send" /\ Goto(w, "relsem")
          /\ UNCHANGED <<queue, submitting, timer>>
      BY <1>8 DEF Dispatch, DispatchFails
    <2>2. k \in Jobs /\ HasJob(w, k)
      BY <2>1 DEF WorkerOK, Acting, Holding, HasJob, Carrying
    <2>3. \A v \in Workers, j \in Jobs : HasJob(v, j)' <=> HasJob(v, j) /\ v # w
      <3>1. Follows(worker[w].pc, "relsem")
        BY <2>1 DEF Follows
      <3> QED BY <2>1, <3>1, GotoHas DEF Carrying
    <2>4. sent[k] = 0 /\ sent \in [Jobs -> Nat]
      BY <2>2 DEF PlaceOK, JobOK, Somewhere
    <2>5. /\ sent' \in [Jobs -> Nat] /\ sent'[k] \in {0, 1}
          /\ \A j \in Jobs : j # k => sent'[j] = sent[j]
      BY <1>8, <2>2, <2>4 DEF Dispatch, DispatchFails
    <2>6. PICK o \in Outcomes \ {"new", "live"} : outcome' = [outcome EXCEPT ![k] = o]
      BY <1>8 DEF Dispatch, DispatchFails, Finish, Outcomes
    <2> QED BY <2>1, <2>2, <2>3, <2>5, <2>6, EndPlaces
  <1> QED BY <1>2, <1>3, <1>4, <1>5, <1>6, <1>7, <1>8 DEF Work

\* Every step keeps PlaceOK.
LEMMA PlaceNext ==
    ASSUME WorkerOK, queue \in Seq(Jobs), now \in Nat, PlaceOK, [Next]_vars
    PROVE  PlaceOK'
  <1>1. CASE UNCHANGED <<poolVars, worker>>
    <2>1. UNCHANGED <<queue, submitting, timer, outcome, sent, worker>>
      BY <1>1 DEF poolVars
    <2>2. \A j \in Jobs : Same(j)
      BY <2>1 DEF Same, Queued, HasJob
    <2> QED BY <2>1, <2>2, SameJob DEF PlaceOK, NoneTwice
  <1>2. \/ UNCHANGED <<poolVars, worker>>
        \/ \E k \in Jobs : \/ Submit(k) \/ Enqueue(k) \/ SubmitTimeout(k)
                           \/ TimerFires(k) \/ TimerCancelled(k)
        \/ \E w \in Workers : Work(w)
    BY DEF Next, vars, Tick, Stop, CloseStopChan, PauseGroup, ResumeGroup,
       Disconnect, Register
  <1> QED BY <1>1, <1>2, CallerPlaces, WorkerPlaces

-----------------------------------------------------------------------------
(* The theorems.                                                           *)

\* The inductive invariant.
IInv ==
    /\ WorkerOK
    /\ queue \in Seq(Jobs)
    /\ owed \in SUBSET Jobs
    /\ ExclOK
    /\ SlotOK
    /\ TimeOK
    /\ DrainOK
    /\ PlaceOK

\* The pool starts in the invariant: the queue empty, the workers idle.
LEMMA InitOK == Init => IInv
  <1> SUFFICES ASSUME Init
               PROVE  IInv
    OBVIOUS
  <1>1. /\ worker = [w \in Workers |-> [pc |-> "select", job |-> None, drain |-> FALSE]]
        /\ \A w \in Workers : worker[w].pc = "select" /\ ~worker[w].drain
    BY DEF Init
  <1>2. WorkerOK
    BY <1>1 DEF WorkerOK, Points, Acting, Holding
  <1>3. queue = <<>> /\ queue \in Seq(Jobs) /\ owed = {}
    BY DEF Init
  <1>4. ExclOK
    BY <1>1 DEF Init, ExclOK, BusyMeansWorking, ExclusiveStable, Busy, Holding
  <1>5. SlotOK
    BY <1>1 DEF Init, SlotOK, SlotsAccounted
  <1>6. TimeOK
    BY <1>1 DEF Init, TimeOK, NeverEarly
  <1>7. DrainOK
    BY <1>1, <1>3 DEF DrainOK, Drained
  <1>8. PlaceOK
    <2>1. /\ \A j \in Jobs : ~Queued(j)
          /\ \A j \in Jobs, w \in Workers : ~HasJob(w, j)
          /\ NoneTwice
      BY <1>1, <1>3 DEF Queued, HasJob, Carrying, NoneTwice
    <2>2. /\ submitting = {} /\ \A j \in Jobs : timer[j] = None
          /\ \A j \in Jobs : outcome[j] = "new" /\ sent[j] = 0
          /\ timer \in [Jobs -> Nat \cup {None}]
          /\ outcome \in [Jobs -> Outcomes] /\ sent \in [Jobs -> Nat]
      BY DEF Init, Outcomes
    <2>3. \A j \in Jobs : JobOK(j)
      BY <2>1, <2>2 DEF JobOK, Sole, Somewhere
    <2> QED BY <2>1, <2>2, <2>3 DEF PlaceOK
  <1> QED BY <1>2, <1>3, <1>4, <1>5, <1>6, <1>7, <1>8 DEF IInv

\* The invariant is inductive.
THEOREM Inductive == Spec => []IInv
  <1>1. IInv /\ [Next]_vars => IInv'
    <2> SUFFICES ASSUME IInv, [Next]_vars
                 PROVE  IInv'
      OBVIOUS
    <2>1. now \in Nat
      BY DEF IInv, TimeOK
    <2>2. WorkerOK' /\ queue' \in Seq(Jobs)
      BY WorkerNext DEF IInv
    <2>3. ExclOK' /\ SlotOK' /\ TimeOK'
      BY ExclNext, SlotNext, TimeNext DEF IInv
    <2>4. DrainOK' /\ owed' \in SUBSET Jobs
      BY DrainNext DEF IInv
    <2>5. PlaceOK'
      BY <2>1, PlaceNext DEF IInv
    <2> QED BY <2>2, <2>3, <2>4, <2>5 DEF IInv
  <1> QED BY <1>1, InitOK, PTL DEF Spec

\* Two workers never process jobs of the same node at once while its agent
\* stays connected: AcquireJob and the deferred ReleaseJob keep the node
\* exclusive (workers.go, fleet.go).
THEOREM NodesExclusive == Spec => []ExclusiveStable
  <1>1. IInv => ExclusiveStable
    BY DEF IInv, ExclOK
  <1> QED BY <1>1, Inductive, PTL

\* A node has an active job only while some worker is processing one of its
\* jobs, with any number of disconnections: no node stays busy for ever.
THEOREM NodesReleased == Spec => []BusyMeansWorking
  <1>1. IInv => BusyMeansWorking
    BY DEF IInv, ExclOK
  <1> QED BY <1>1, Inductive, PTL

\* The slots of a group's semaphore that are taken are exactly those of the
\* workers between acquiring and releasing one: none leaks.
THEOREM SlotsCorrect == Spec => []SlotsAccounted
  <1>1. IInv => SlotsAccounted
    BY DEF IInv, SlotOK
  <1> QED BY <1>1, Inductive, PTL

\* No job is sent before its maintenance window begins, however often its
\* timer hands it back to the queue.
THEOREM WindowsRespected == Spec => []NeverEarly
  <1>1. IInv => NeverEarly
    BY DEF IInv, TimeOK
  <1> QED BY <1>1, Inductive, PTL

\* No worker leaves while a job that was queued when stopChan was closed has
\* not been taken.
THEOREM StopDrains == Spec => []Drained
  <1>1. IInv => Drained
    BY DEF IInv, DrainOK
  <1> QED BY <1>1, Inductive, PTL

\* A job the pool accepted and has not settled is in a Submit call, in the
\* queue, with a worker or with a timer.
THEOREM JobsKept == Spec => []JobNotLost
  <1>1. IInv => JobNotLost
    <2>1. ASSUME NEW j \in Jobs, Somewhere(j)
          PROVE  \/ j \in submitting
                 \/ \E i \in 1 .. Len(queue) : queue[i] = j
                 \/ timer[j] # None
                 \/ InWorker(j)
      BY <2>1 DEF Somewhere, Queued, HasJob, Carrying, InWorker
    <2> QED BY <2>1 DEF IInv, PlaceOK, JobOK, JobNotLost
  <1> QED BY <1>1, Inductive, PTL

\* A job's command is sent at most once: a delayed job leaves the worker
\* before its timer may queue it again.
THEOREM SentOnce == Spec => []DispatchOnce
  <1>1. IInv => DispatchOnce
    BY DEF IInv, PlaceOK, JobOK, DispatchOnce
  <1> QED BY <1>1, Inductive, PTL

-----------------------------------------------------------------------------
(* The contract of the pool.                                               *)

\* Only a job that came before its window has a timer.
TimerOK == \A j \in Jobs : timer[j] # None => HasWindow(j)

\* Every step keeps TimerOK.
LEMMA TimerNext ==
    ASSUME WorkerOK, PlaceOK, TimerOK, [Next]_vars
    PROVE  TimerOK'
  <1>1. CASE UNCHANGED timer
    BY <1>1 DEF TimerOK, HasWindow
  <1>2. ASSUME NEW j \in Jobs, TimerFires(j) \/ TimerCancelled(j)
        PROVE  TimerOK'
    BY <1>2 DEF TimerFires, TimerCancelled, TimerOK, HasWindow, PlaceOK
  <1>3. ASSUME NEW w \in Workers, MissWindow(w)
        PROVE  TimerOK'
    <2>1. /\ worker[w].job \in Jobs
          /\ \/ UNCHANGED timer
             \/ /\ HasWindow(worker[w].job)
                /\ timer' = [timer EXCEPT ![worker[w].job] =
                                Later(WinStart[worker[w].job], now + MinDelay)]
      BY <1>3 DEF MissWindow, TooEarly, WorkerOK, Acting, Holding
    <2> QED BY <1>1, <2>1 DEF TimerOK, HasWindow, PlaceOK
  <1>4. \/ UNCHANGED timer
        \/ \E j \in Jobs : TimerFires(j) \/ TimerCancelled(j)
        \/ \E w \in Workers : MissWindow(w)
    BY DEF Next, vars, poolVars, Tick, Stop, CloseStopChan, Submit, Enqueue,
       SubmitTimeout, PauseGroup, ResumeGroup, Disconnect, Register, Work, TakeJob,
       SeeStop, Exit, AcquireJob, Conflict, PassPause, PassWindow, TakeSlot,
       Dispatch, DispatchFails, ReleaseSlot, ReleaseJob
  <1> QED BY <1>1, <1>2, <1>3, <1>4

\* A job somebody still has in hand has not ended.
LEMMA InHandIsLive ==
    ASSUME PlaceOK, NEW j \in Jobs,
           \/ j \in submitting
           \/ timer[j] # None
           \/ \E w \in Workers : HasJob(w, j)
    PROVE  outcome[j] = "live"
  BY DEF PlaceOK, JobOK, Somewhere

\* The steps of callers and timers keep to the contract.
LEMMA CallerContract ==
    ASSUME PlaceOK, TimerOK, NEW j \in Jobs,
           Submit(j) \/ Enqueue(j) \/ SubmitTimeout(j) \/ TimerFires(j)
              \/ TimerCancelled(j)
    PROVE  Contract!Next \/ UNCHANGED <<now, stop, outcome, sent>>
  <1>1. CASE Submit(j)
    <2>1. Contract!Accept(j)
      BY <1>1 DEF Submit, Finish, ctlVars, Contract!Accept, Contract!Becomes
    <2> QED BY <2>1 DEF Contract!Next
  <1>2. CASE SubmitTimeout(j)
    <2>1. outcome[j] = "live"
      BY <1>2, InHandIsLive DEF SubmitTimeout
    <2>2. Contract!Refuse(j)
      BY <1>2, <2>1 DEF SubmitTimeout, Finish, ctlVars, Contract!Refuse,
         Contract!Becomes
    <2> QED BY <2>2 DEF Contract!Next
  <1>3. CASE TimerCancelled(j)
    <2>1. outcome[j] = "live" /\ HasWindow(j)
      BY <1>3, InHandIsLive DEF TimerCancelled, TimerOK
    <2>2. Contract!Cancel(j)
      BY <1>3, <2>1 DEF TimerCancelled, Finish, ctlVars, HasWindow,
         Contract!Cancel, Contract!Becomes, Contract!Windowed
    <2> QED BY <2>2 DEF Contract!Next
  <1>4. CASE Enqueue(j) \/ TimerFires(j)
    BY <1>4 DEF Enqueue, TimerFires, ctlVars
  <1> QED BY <1>1, <1>2, <1>3, <1>4

\* The steps of the workers keep to the contract.
LEMMA WorkerContract ==
    ASSUME WorkerOK, TimeOK, PlaceOK, NEW w \in Workers, Work(w)
    PROVE  Contract!Next \/ UNCHANGED <<now, stop, outcome, sent>>
  <1> DEFINE j == worker[w].job
  <1>1. ASSUME worker[w].pc \in {"acquire", "window", "send"}
        PROVE  j \in Jobs /\ outcome[j] = "live"
    <2>1. j \in Jobs /\ HasJob(w, j)
      BY <1>1 DEF WorkerOK, Acting, Holding, HasJob, Carrying
    <2> QED BY <2>1, InHandIsLive
  <1>2. CASE Conflict(w)
    <2>1. j \in Jobs /\ outcome[j] = "live"
      BY <1>1, <1>2 DEF Conflict
    <2>2. Contract!Refuse(j)
      BY <1>2, <2>1 DEF Conflict, Finish, ctlVars, Contract!Refuse,
         Contract!Becomes
    <2> QED BY <2>1, <2>2 DEF Contract!Next
  <1>3. CASE MissWindow(w)
    <2>1. j \in Jobs /\ outcome[j] = "live"
      BY <1>1, <1>3 DEF MissWindow
    <2>2. CASE UNCHANGED outcome
      BY <1>3, <2>2 DEF MissWindow, ctlVars
    <2>3. CASE TooLate(j) /\ Finish(j, "late")
      <3>1. HasWindow(j) /\ WinEnd[j] < now + MinLeft
        <4>1. WinEnd[j] \in Nat /\ now \in Nat /\ HasWindow(j)
          BY <2>1, <2>3, JobsAssumption DEF TooLate, HasWindow, TimeOK
        <4> QED BY <2>3, <4>1, LimitsAssumption DEF TooLate
      <3>2. Contract!Expire(j)
        BY <1>3, <2>1, <2>3, <3>1 DEF MissWindow, Finish, ctlVars, HasWindow,
           Contract!Expire, Contract!Becomes, Contract!Windowed
      <3> QED BY <2>1, <3>2 DEF Contract!Next
    <2> QED BY <1>3, <2>2, <2>3 DEF MissWindow
  <1>4. CASE Dispatch(w)
    <2>1. j \in Jobs /\ outcome[j] = "live" /\ (HasWindow(j) => WinStart[j] <= now)
      BY <1>1, <1>4 DEF Dispatch, TimeOK
    <2>2. Contract!Send(j)
      BY <1>4, <2>1 DEF Dispatch, Finish, ctlVars, HasWindow, Contract!Send,
         Contract!Becomes, Contract!Windowed
    <2> QED BY <2>1, <2>2 DEF Contract!Next
  <1>5. CASE DispatchFails(w)
    <2>1. j \in Jobs /\ outcome[j] = "live"
      BY <1>1, <1>5 DEF DispatchFails
    <2>2. Contract!Refuse(j)
      BY <1>5, <2>1 DEF DispatchFails, Finish, ctlVars, Contract!Refuse,
         Contract!Becomes
    <2> QED BY <2>1, <2>2 DEF Contract!Next
  <1>6. CASE UNCHANGED <<now, stop, outcome, sent>>
    BY <1>6
  <1> QED
    BY <1>2, <1>3, <1>4, <1>5, <1>6
    DEF Work, TakeJob, SeeStop, Exit, AcquireJob, PassPause, PassWindow, TakeSlot,
        ReleaseSlot, ReleaseJob, poolVars, ctlVars

\* The pool keeps its contract with whoever submits a job: one outcome per
\* job, at most one command, and no job given up without the stated reason.
THEOREM PoolCorrect == Spec => ContractImplemented
  <1>1. Init => Contract!Init /\ TimerOK
    BY DEF Init, Contract!Init, TimerOK
  <1>2. IInv /\ TimerOK /\ [Next]_vars => TimerOK'
    BY TimerNext DEF IInv
  <1>3. IInv /\ TimerOK /\ [Next]_vars => [Contract!Next]_(Contract!vars)
    <2> SUFFICES ASSUME IInv, TimerOK, [Next]_vars
                 PROVE  Contract!Next \/ UNCHANGED <<now, stop, outcome, sent>>
                        \/ UNCHANGED Contract!vars
      BY DEF Contract!vars
    <2> USE DEF IInv
    <2>1. CASE Tick
      BY <2>1 DEF Tick, poolVars, ctlVars, Contract!Next, Contract!Advance
    <2>2. CASE CloseStopChan
      BY <2>2 DEF CloseStopChan, poolVars, Contract!Next, Contract!Close
    <2>3. CASE Stop
      BY <2>3 DEF Stop, poolVars, Contract!vars
    <2>4. CASE \E j \in Jobs : Submit(j) \/ Enqueue(j) \/ SubmitTimeout(j)
                               \/ TimerFires(j) \/ TimerCancelled(j)
      BY <2>4, CallerContract
    <2>5. CASE \E w \in Workers : Work(w)
      BY <2>5, WorkerContract
    <2>6. CASE \/ \E g \in Groups : PauseGroup(g) \/ ResumeGroup(g)
               \/ \E m \in Nodes : Disconnect(m) \/ Register(m)
               \/ UNCHANGED vars
      BY <2>6 DEF PauseGroup, ResumeGroup, Disconnect, Register, vars, poolVars,
         ctlVars
    <2> QED BY <2>1, <2>2, <2>3, <2>4, <2>5, <2>6 DEF Next
  <1> QED BY <1>1, <1>2, <1>3, Inductive, PTL
          DEF Spec, ContractImplemented, Contract!Spec

-----------------------------------------------------------------------------
(* Limits: the queue and the group semaphores.                             *)

\* The queue and the semaphores are never filled beyond their capacity.
LimitOK ==
    /\ Len(queue) <= QueueCap
    /\ \A g \in Groups : IsFiniteSet(slots[g]) /\ Cardinality(slots[g]) <= SemCap

\* Every step keeps the queue within its capacity.
LEMMA QueueNext ==
    ASSUME queue \in Seq(Jobs), Len(queue) <= QueueCap, [Next]_vars
    PROVE  Len(queue') <= QueueCap
  <1>1. Len(queue) \in Nat /\ QueueCap \in Nat
    BY LimitsAssumption
  <1>2. CASE UNCHANGED queue
    BY <1>2
  <1>3. ASSUME NEW j \in Jobs, Enqueue(j)
        PROVE  Len(queue') <= QueueCap
    <2>1. Len(queue) < QueueCap /\ Len(queue') = Len(queue) + 1
      BY <1>3 DEF Enqueue
    <2> QED BY <1>1, <2>1
  <1>4. ASSUME NEW w \in Workers, TakeJob(w)
        PROVE  Len(queue') <= QueueCap
    <2>1. Len(queue') = Len(queue) - 1
      BY <1>4 DEF TakeJob
    <2> QED BY <1>1, <2>1
  <1>5. \/ UNCHANGED queue
        \/ \E j \in Jobs : Enqueue(j)
        \/ \E w \in Workers : TakeJob(w)
    BY DEF Next, vars, poolVars, Tick, Stop, CloseStopChan, Submit, SubmitTimeout,
       TimerFires, TimerCancelled, PauseGroup, ResumeGroup, Disconnect, Register,
       Work, SeeStop, Exit, AcquireJob, Conflict, PassPause, MissWindow, PassWindow,
       TakeSlot, Dispatch, DispatchFails, ReleaseSlot, ReleaseJob
  <1> QED BY <1>2, <1>3, <1>4, <1>5

\* Every step keeps the semaphores within their capacity.
LEMMA SemaphoreNext ==
    ASSUME WorkerOK, SlotOK, [Next]_vars,
           \A g \in Groups : IsFiniteSet(slots[g]) /\ Cardinality(slots[g]) <= SemCap
    PROVE  \A g \in Groups : IsFiniteSet(slots'[g]) /\ Cardinality(slots'[g]) <= SemCap
  <1>1. SemCap \in Nat /\ \A g \in Groups : Cardinality(slots[g]) \in Nat
    BY LimitsAssumption, FS_CardinalityType
  <1>2. CASE UNCHANGED slots
    BY <1>2
  <1>3. ASSUME NEW w \in Workers, TakeSlot(w), NEW g \in Groups
        PROVE  IsFiniteSet(slots'[g]) /\ Cardinality(slots'[g]) <= SemCap
    <2>1. CASE g = Group(w)
      <3>1. slots'[g] = slots[g] \cup {w} /\ Cardinality(slots[g]) < SemCap
        BY <1>3, <2>1 DEF TakeSlot, SlotOK
      <3>2. /\ IsFiniteSet(slots[g] \cup {w})
            /\ Cardinality(slots[g] \cup {w}) \in
                  {Cardinality(slots[g]), Cardinality(slots[g]) + 1}
        BY FS_AddElement
      <3> QED BY <1>1, <3>1, <3>2
    <2>2. CASE g # Group(w)
      BY <1>3, <2>2 DEF TakeSlot, SlotOK
    <2> QED BY <2>1, <2>2
  <1>4. ASSUME NEW w \in Workers, ReleaseSlot(w), NEW g \in Groups
        PROVE  IsFiniteSet(slots'[g]) /\ Cardinality(slots'[g]) <= SemCap
    <2>1. CASE g = Group(w)
      <3>1. slots'[g] = slots[g] \ {w}
        BY <1>4, <2>1 DEF ReleaseSlot, SlotOK
      <3>2. /\ IsFiniteSet(slots[g] \ {w})
            /\ Cardinality(slots[g] \ {w}) \in
                  {Cardinality(slots[g]), Cardinality(slots[g]) - 1}
        BY FS_RemoveElement
      <3> QED BY <1>1, <3>1, <3>2
    <2>2. CASE g # Group(w)
      BY <1>4, <2>2 DEF ReleaseSlot, SlotOK
    <2> QED BY <2>1, <2>2
  <1>5. \/ UNCHANGED slots
        \/ \E w \in Workers : TakeSlot(w) \/ ReleaseSlot(w)
    BY DEF Next, vars, Tick, Stop, CloseStopChan, Submit, Enqueue, SubmitTimeout,
       TimerFires, TimerCancelled, PauseGroup, ResumeGroup, Disconnect, Register,
       Work, TakeJob, SeeStop, Exit, AcquireJob, Conflict, PassPause, MissWindow,
       PassWindow, Dispatch, DispatchFails, ReleaseJob
  <1> QED BY <1>2, <1>3, <1>4, <1>5

\* The limits hold in every reachable state.
LEMMA Limits == Spec => []LimitOK
  <1>1. Init => LimitOK
    BY FS_EmptySet, LimitsAssumption DEF Init, LimitOK
  <1>2. IInv /\ LimitOK /\ [Next]_vars => LimitOK'
    BY QueueNext, SemaphoreNext DEF IInv, LimitOK
  <1> QED BY <1>1, <1>2, Inductive, PTL DEF Spec

\* A slot is held by the workers that are sending, and by no others.
LEMMA SendersHoldSlots ==
    ASSUME SlotOK, NEW g \in Groups
    PROVE  Sending(g) = slots[g]
  BY DEF SlotOK, SlotsAccounted, Sending

\* No more jobs of a group are being sent at once than its semaphore has slots
\* (processJob), through failures, disconnects and a stop of the pool.
THEOREM GroupsLimited == Spec => []GroupLimit
  <1>1. IInv /\ LimitOK => GroupLimit
    BY SendersHoldSlots DEF IInv, LimitOK, GroupLimit
  <1> QED BY <1>1, Inductive, Limits, PTL

\* Workers never wait for each other in a circle: who holds a slot is sending.
THEOREM WaitsAcyclic == Spec => []NoCircularWait
  <1>1. IInv => NoCircularWait
    <2> SUFFICES ASSUME IInv, NEW w \in Workers, worker[w].pc = "sem",
                        ~(Cardinality(slots[Group(w)]) < SemCap)
                 PROVE  \E v \in Workers \ {w} : v \in Sending(Group(w))
      BY DEF NoCircularWait
    <2>1. Group(w) \in Groups
      BY JobsAssumption DEF IInv, WorkerOK, Acting, Holding, Group
    <2>2. slots[Group(w)] # {}
      BY FS_EmptySet, LimitsAssumption
    <2>3. w \notin Sending(Group(w))
      BY DEF Sending
    <2> QED BY <2>1, <2>2, <2>3, SendersHoldSlots DEF IInv, SlotOK
  <1> QED BY <1>1, Inductive, PTL

\* What the other parts of the invariant leave out of the types.
RestOK ==
    /\ paused \in [Groups -> BOOLEAN]
    /\ stop \in {"no", "resumed", "closed"}
    /\ late \in SUBSET Groups
    /\ online \in SUBSET Nodes

\* Every step keeps RestOK.
LEMMA RestNext == RestOK /\ [Next]_vars => RestOK'
  <1> SUFFICES ASSUME RestOK, [Next]_vars
               PROVE  RestOK'
    OBVIOUS
  <1>1. CASE UNCHANGED <<paused, stop, late, online>>
    BY <1>1 DEF RestOK
  <1>2. ASSUME NEW g \in Groups, PauseGroup(g) \/ ResumeGroup(g)
        PROVE  RestOK'
    BY <1>2 DEF PauseGroup, ResumeGroup, RestOK
  <1>3. CASE Stop \/ CloseStopChan
    BY <1>3 DEF Stop, CloseStopChan, RestOK
  <1>4. ASSUME NEW m \in Nodes, Disconnect(m) \/ Register(m)
        PROVE  RestOK'
    BY <1>4 DEF Disconnect, Register, ctlVars, RestOK
  <1> QED
    BY <1>1, <1>2, <1>3, <1>4
    DEF Next, vars, ctlVars, Tick, Submit, Enqueue, SubmitTimeout, TimerFires,
        TimerCancelled, Work, TakeJob, SeeStop, Exit, AcquireJob, Conflict,
        PassPause, MissWindow, PassWindow, TakeSlot, Dispatch, DispatchFails,
        ReleaseSlot, ReleaseJob

\* Types, and the capacity of the queue: Submit never overfills jobQueue, and a
\* worker outside its loop always has a job.
THEOREM PoolTypeCorrect == Spec => []TypeOK
  <1>1. Init => RestOK
    BY DEF Init, RestOK
  <1>2. IInv /\ LimitOK /\ RestOK => TypeOK
    <2>1. Points = {"select", "drain", "exited", "acquire"} \cup Holding
      BY DEF Points, Acting
    <2> QED BY <2>1 DEF IInv, LimitOK, RestOK, TypeOK, WorkerOK, ExclOK, SlotOK,
               TimeOK, PlaceOK, Acting
  <1> QED BY <1>1, <1>2, RestNext, Inductive, Limits, PTL DEF Spec
=============================================================================
