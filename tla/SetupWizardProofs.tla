------------------------- MODULE SetupWizardProofs -------------------------
(***************************************************************************)
(* Proofs about SetupWizard, for any number of attempts, of polls in       *)
(* flight and of verifications.                                            *)
(***************************************************************************)
EXTENDS SetupWizard, TLAPS

\* The inductive invariant: that a late callback clears the only timer there
\* is (NoOrphanTimer) is what keeps the page truthful.
IInv ==
    /\ started \in Nat /\ verificationInterval \in Nat
    /\ spinner \in BOOLEAN /\ success \in BOOLEAN
    /\ NoOrphanTimer /\ PageTellsTruth

\* Clearing the page's timer leaves none.
LEMMA Cleared ==
    ASSUME IInv, ClearInterval
    PROVE  verificationInterval' = 0 /\ timers' = {}
  BY DEF IInv, NoOrphanTimer, ClearInterval

\* The end of a callback that found no node keeps the invariant, whichever
\* verification it belongs to.
LEMMA FinishOK ==
    ASSUME IInv, NEW v \in Verifications, FinishAttempt(v),
           UNCHANGED <<currentStep, started>>
    PROVE  IInv'
  <1>1. CASE attempts[v] >= MaxAttempts
    <2>1. /\ ClearInterval /\ spinner' = FALSE /\ text' = "timed out"
          /\ UNCHANGED success
      BY <1>1 DEF FinishAttempt
    <2>2. verificationInterval' = 0 /\ timers' = {}
      BY <2>1, Cleared
    <2> QED BY <2>1, <2>2 DEF IInv, NoOrphanTimer, PageTellsTruth
  <1>2. CASE ~(attempts[v] >= MaxAttempts)
    <2>1. text' = "listening" /\ UNCHANGED <<verificationInterval, timers, spinner, success>>
      BY <1>2 DEF FinishAttempt, timerVars
    <2> QED BY <2>1 DEF IInv, NoOrphanTimer, PageTellsTruth
  <1> QED BY <1>1, <1>2

\* Every step keeps the invariant.
LEMMA WizardNext == IInv /\ [Next]_vars => IInv'
  <1> SUFFICES ASSUME IInv, [Next]_vars
               PROVE  IInv'
    OBVIOUS
  <1>1. CASE StartVerification
    <2>1. /\ currentStep' = 3 /\ started' = started + 1
          /\ verificationInterval' = started + 1
          /\ timers' = (timers \ {verificationInterval}) \cup {started + 1}
          /\ spinner' = TRUE /\ success' = FALSE /\ text' = "listening"
      BY <1>1 DEF StartVerification
    <2>2. timers' = {started + 1} /\ started + 1 # 0 /\ started + 1 \in Nat
      BY <2>1 DEF IInv, NoOrphanTimer
    <2> QED BY <2>1, <2>2 DEF IInv, NoOrphanTimer, PageTellsTruth
  <1>2. ASSUME NEW s \in {1, 2}, GoToStep(s)
        PROVE  IInv'
    <2>1. /\ currentStep' = s /\ ClearInterval
          /\ UNCHANGED <<started, spinner, success, text>>
      BY <1>2 DEF GoToStep, pageVars
    <2>2. verificationInterval' = 0 /\ timers' = {}
      BY <2>1, Cleared
    <2>3. currentStep' # 3
      BY <2>1
    <2> QED BY <2>1, <2>2, <2>3 DEF IInv, NoOrphanTimer, PageTellsTruth
  <1>3. ASSUME NEW v \in Verifications, Poll(v) \/ Respond(v)
        PROVE  IInv'
    <2>1. UNCHANGED <<currentStep, started, verificationInterval, timers, spinner,
                      success, text>>
      BY <1>3 DEF Poll, Respond, timerVars, pageVars
    <2> QED BY <2>1 DEF IInv, NoOrphanTimer, PageTellsTruth
  <1>4. ASSUME NEW v \in Verifications, PollFails(v) \/ NoNodes(v)
        PROVE  IInv'
    BY <1>4, FinishOK DEF PollFails, NoNodes
  <1>5. ASSUME NEW v \in Verifications, NodeFound(v)
        PROVE  IInv'
    <2>1. /\ ClearInterval /\ UNCHANGED <<currentStep, started>>
          /\ success' = TRUE /\ text' = "registered" /\ spinner' = FALSE
      BY <1>5 DEF NodeFound, ShowSuccess
    <2>2. verificationInterval' = 0 /\ timers' = {}
      BY <2>1, Cleared
    <2> QED BY <2>1, <2>2 DEF IInv, NoOrphanTimer, PageTellsTruth
  <1>6. CASE UNCHANGED vars
    <2>1. UNCHANGED <<currentStep, started, verificationInterval, timers, spinner,
                      success, text>>
      BY <1>6 DEF vars, timerVars, pageVars
    <2> QED BY <2>1 DEF IInv, NoOrphanTimer, PageTellsTruth
  <1> QED BY <1>1, <1>2, <1>3, <1>4, <1>5, <1>6 DEF Next, Settle

\* The invariant holds of every behaviour of the page.
LEMMA WizardInv == Spec => []IInv
  <1>1. ASSUME Init
        PROVE  IInv
    <2>1. /\ currentStep = 1 /\ started = 0 /\ verificationInterval = 0 /\ timers = {}
          /\ spinner = TRUE /\ success = FALSE /\ text = "listening"
      BY <1>1 DEF Init
    <2>2. NoOrphanTimer
      BY <2>1 DEF NoOrphanTimer
    <2>3. PageTellsTruth
      BY <2>1 DEF PageTellsTruth
    <2> QED BY <2>1, <2>2, <2>3 DEF IInv
  <1> QED BY <1>1, WizardNext, PTL DEF Spec

\* startVerification and goToStep never lose the timer they started: no timer
\* runs that the page cannot clear, and none off the third step.
THEOREM TimersCorrect == Spec => []NoOrphanTimer
  <1>1. IInv => NoOrphanTimer
    BY DEF IInv
  <1> QED BY <1>1, WizardInv, PTL

\* What the third step shows agrees with whether it polls, after the callbacks
\* of any number of earlier verifications.
THEOREM PageCorrect == Spec => []PageTellsTruth
  <1>1. IInv => PageTellsTruth
    BY DEF IInv
  <1> QED BY <1>1, WizardInv, PTL

-----------------------------------------------------------------------------
(* Types.                                                                  *)

\* The step, the verifications and their polls.
PollTypes ==
    /\ currentStep \in 1 .. 3 /\ started \in 0 .. MaxStarts
    /\ attempts \in [Verifications -> Nat]
    /\ fetching \in [Verifications -> Nat] /\ reading \in [Verifications -> Nat]

TimerTypes ==
    verificationInterval \in 0 .. MaxStarts /\ timers \subseteq Verifications

PageTypes ==
    /\ spinner \in BOOLEAN /\ success \in BOOLEAN
    /\ text \in {"listening", "registered", "timed out"}

\* No poll ends more often than it was begun.
LEMMA PollNext == PollTypes /\ [Next]_vars => PollTypes'
  <1> SUFFICES ASSUME PollTypes, [Next]_vars PROVE PollTypes'
    OBVIOUS
  <1> USE WizardAssumption DEF PollTypes
  <1>1. CASE StartVerification
    <2>1. currentStep' = 3 /\ started' = started + 1 /\ started < MaxStarts
          /\ UNCHANGED <<attempts, fetching, reading>>
      BY <1>1 DEF StartVerification, pollVars
    <2> QED BY <2>1
  <1>2. ASSUME NEW s \in {1, 2}, GoToStep(s)
        PROVE  PollTypes'
    BY <1>2 DEF GoToStep, pollVars
  <1>3. ASSUME NEW v \in Verifications, Poll(v)
        PROVE  PollTypes'
    <2>1. /\ attempts' = [attempts EXCEPT ![v] = @ + 1]
          /\ fetching' = [fetching EXCEPT ![v] = @ + 1]
          /\ UNCHANGED <<currentStep, started, reading>>
      BY <1>3 DEF Poll
    <2> QED BY <2>1
  <1>4. ASSUME NEW v \in Verifications, Respond(v)
        PROVE  PollTypes'
    <2>1. /\ fetching[v] > 0 /\ fetching' = [fetching EXCEPT ![v] = @ - 1]
          /\ reading' = [reading EXCEPT ![v] = @ + 1]
          /\ UNCHANGED <<currentStep, started, attempts>>
      BY <1>4 DEF Respond
    <2> QED BY <2>1
  <1>5. ASSUME NEW v \in Verifications, PollFails(v)
        PROVE  PollTypes'
    <2>1. /\ fetching[v] > 0 /\ fetching' = [fetching EXCEPT ![v] = @ - 1]
          /\ UNCHANGED <<currentStep, started, attempts, reading>>
      BY <1>5 DEF PollFails
    <2> QED BY <2>1
  <1>6. ASSUME NEW v \in Verifications, NoNodes(v) \/ NodeFound(v)
        PROVE  PollTypes'
    <2>1. /\ reading[v] > 0 /\ reading' = [reading EXCEPT ![v] = @ - 1]
          /\ UNCHANGED <<currentStep, started, attempts, fetching>>
      BY <1>6 DEF NoNodes, NodeFound
    <2> QED BY <2>1
  <1>7. CASE UNCHANGED vars
    BY <1>7 DEF vars, pollVars
  <1> QED BY <1>1, <1>2, <1>3, <1>4, <1>5, <1>6, <1>7 DEF Next, Settle

\* What a step can do to the timers and to the page.
LEMMA PageSteps ==
    ASSUME [Next]_vars
    PROVE  /\ \/ UNCHANGED timerVars \/ ClearInterval
              \/ /\ verificationInterval' = started + 1 /\ started < MaxStarts
                 /\ timers' = (timers \ {verificationInterval}) \cup {started + 1}
           /\ spinner' \in {TRUE, FALSE, spinner} /\ success' \in {TRUE, FALSE, success}
           /\ text' \in {"listening", "registered", "timed out", text}
  <1>1. CASE StartVerification
    BY <1>1 DEF StartVerification
  <1>2. ASSUME NEW s \in {1, 2}, GoToStep(s)
        PROVE  ClearInterval /\ UNCHANGED <<spinner, success, text>>
    BY <1>2 DEF GoToStep, pageVars
  <1>3. ASSUME NEW v \in Verifications, Poll(v) \/ Respond(v)
        PROVE  UNCHANGED timerVars /\ UNCHANGED <<spinner, success, text>>
    BY <1>3 DEF Poll, Respond, pageVars
  <1>4. ASSUME NEW v \in Verifications, FinishAttempt(v)
        PROVE  /\ UNCHANGED timerVars \/ ClearInterval
               /\ spinner' \in {FALSE, spinner} /\ success' = success
               /\ text' \in {"listening", "timed out"}
    BY <1>4 DEF FinishAttempt
  <1>5. ASSUME NEW v \in Verifications, NodeFound(v)
        PROVE  /\ ClearInterval /\ spinner' = FALSE /\ success' = TRUE
               /\ text' = "registered"
    BY <1>5 DEF NodeFound, ShowSuccess
  <1>6. CASE UNCHANGED vars
    BY <1>6 DEF vars, pageVars
  <1> QED
    BY <1>1, <1>2, <1>3, <1>4, <1>5, <1>6
    DEF Next, Settle, PollFails, NoNodes

\* Types: the page's step, timers and counts of polls stay in their ranges; no
\* callback ends more polls than were begun, and the timer the page keeps is
\* always one of its own verifications.
THEOREM WizardTypeCorrect == Spec => []TypeOK
  <1>1. Init => PollTypes /\ TimerTypes /\ PageTypes
    <2>1. Init => PollTypes
      BY WizardAssumption DEF Init, PollTypes
    <2>2. Init => TimerTypes
      <3>1. 0 \in 0 .. MaxStarts
        BY WizardAssumption
      <3> QED BY <3>1 DEF Init, TimerTypes
    <2>3. Init => PageTypes
      BY DEF Init, PageTypes
    <2> QED BY <2>1, <2>2, <2>3
  <1>2. PollTypes /\ TimerTypes /\ [Next]_vars => TimerTypes'
    <2> SUFFICES ASSUME PollTypes, TimerTypes, [Next]_vars PROVE TimerTypes'
      OBVIOUS
    <2>1. started < MaxStarts => started + 1 \in 1 .. MaxStarts
      BY WizardAssumption DEF PollTypes
    <2>2. \/ UNCHANGED timerVars \/ ClearInterval
          \/ /\ verificationInterval' = started + 1 /\ started < MaxStarts
             /\ timers' = (timers \ {verificationInterval}) \cup {started + 1}
      BY PageSteps
    <2>3. 0 \in 0 .. MaxStarts /\ 1 .. MaxStarts \subseteq 0 .. MaxStarts
      BY WizardAssumption
    <2>4. CASE UNCHANGED timerVars \/ ClearInterval
      BY <2>3, <2>4 DEF TimerTypes, timerVars, ClearInterval
    <2>5. CASE /\ verificationInterval' = started + 1 /\ started < MaxStarts
               /\ timers' = (timers \ {verificationInterval}) \cup {started + 1}
      BY <2>1, <2>3, <2>5 DEF TimerTypes, Verifications
    <2> QED BY <2>2, <2>4, <2>5
  <1>3. PageTypes /\ [Next]_vars => PageTypes'
    BY PageSteps DEF PageTypes
  <1>4. PollTypes /\ TimerTypes /\ PageTypes => TypeOK
    BY DEF PollTypes, TimerTypes, PageTypes, TypeOK
  <1> QED BY <1>1, <1>2, <1>3, <1>4, PollNext, PTL DEF Spec
=============================================================================
