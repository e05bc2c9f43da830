---------------------------- MODULE SetupWizard ----------------------------
(***************************************************************************)
(* The setup page's verification of a new node (server/static/setup.html): *)
(* its third step polls the server every two seconds until a node has      *)
(* registered or 15 attempts are spent.                                    *)
(*                                                                         *)
(* The callbacks of the timer are asynchronous: a poll that waits for its  *)
(* answer goes on after its timer was cleared, also when the user has left *)
(* the step and started another verification in the meantime, and then     *)
(* acts on the timer and the elements of the page that are current by      *)
(* then.  attempts belongs to the verification, the timer to the page.     *)
(***************************************************************************)
EXTENDS Naturals

CONSTANTS
    MaxAttempts,  \* maxAttempts (15)
    MaxInFlight,  \* bound: polls of one verification that wait for an answer
    MaxStarts     \* bound: how often the user comes to the third step

ASSUME WizardAssumption ==
    MaxAttempts \in Nat \ {0} /\ MaxInFlight \in Nat \ {0} /\ MaxStarts \in Nat

VARIABLES
    currentStep,
    started,   \* how many verifications have been started
    verificationInterval,  \* the verification whose timer is current, or 0
    timers,    \* the verifications whose timers run in the browser
    attempts,  \* attempts[v]: the polls verification v has begun
    fetching,  \* fetching[v]: those that wait for a response
    reading,   \* reading[v]: those that wait for the response's body
    spinner,   \* whether the spinner is shown
    success,   \* whether the mark of success is shown
    text       \* "listening", "registered" or "timed out"

timerVars == <<verificationInterval, timers>>
pollVars == <<attempts, fetching, reading>>
pageVars == <<spinner, success, text>>
vars == <<currentStep, started, timerVars, pollVars, pageVars>>

Verifications == 1 .. MaxStarts

Init ==
    /\ currentStep = 1
    /\ started = 0
    /\ verificationInterval = 0 /\ timers = {}
    /\ attempts = [v \in Verifications |-> 0]
    /\ fetching = [v \in Verifications |-> 0]
    /\ reading = [v \in Verifications |-> 0]
    /\ spinner = TRUE /\ success = FALSE /\ text = "listening"

\* Mutant: the timer is forgotten but runs on.
ForgetInterval ==
    /\ verificationInterval' = 0
    /\ UNCHANGED timers

\* clearInterval(verificationInterval), and verificationInterval = null.
ClearInterval ==
    /\ verificationInterval' = 0
    /\ timers' = timers \ {verificationInterval}

\* goToStep(1) and goToStep(2), from the neighbouring steps.
GoToStep(s) ==
    /\ s \in {1, 2} /\ currentStep \in {s - 1, s + 1}
    /\ currentStep' = s
    /\ ClearInterval
    /\ UNCHANGED <<started, pollVars, pageVars>>

\* goToStep(3) and startVerification.
StartVerification ==
    /\ currentStep = 2 /\ started < MaxStarts
    /\ currentStep' = 3
    /\ started' = started + 1
    /\ verificationInterval' = started + 1
    /\ timers' = (timers \ {verificationInterval}) \cup {started + 1}
    /\ spinner' = TRUE /\ success' = FALSE /\ text' = "listening"
    /\ UNCHANGED pollVars

\* Mutant: the attempts are not counted.
PollUncounted(v) ==
    /\ v \in timers
    /\ fetching[v] + reading[v] < MaxInFlight
    /\ fetching' = [fetching EXCEPT ![v] = @ + 1]
    /\ UNCHANGED <<currentStep, started, timerVars, attempts, reading, pageVars>>

\* The timer of v fires and its callback sends a request.
Poll(v) ==
    /\ v \in timers
    /\ fetching[v] + reading[v] < MaxInFlight
    /\ attempts' = [attempts EXCEPT ![v] = @ + 1]
    /\ fetching' = [fetching EXCEPT ![v] = @ + 1]
    /\ UNCHANGED <<currentStep, started, timerVars, reading, pageVars>>

\* A response that is ok; its body is awaited.
Respond(v) ==
    /\ fetching[v] > 0
    /\ fetching' = [fetching EXCEPT ![v] = @ - 1]
    /\ reading' = [reading EXCEPT ![v] = @ + 1]
    /\ UNCHANGED <<currentStep, started, timerVars, attempts, pageVars>>

\* The end of a callback that found no node.
FinishAttempt(v) ==
    /\ IF attempts[v] >= MaxAttempts
         THEN ClearInterval /\ spinner' = FALSE /\ text' = "timed out"
         ELSE text' = "listening" /\ UNCHANGED <<timerVars, spinner>>
    /\ UNCHANGED success

\* The request fails, is aborted after five seconds or gets an error status.
PollFails(v) ==
    /\ fetching[v] > 0
    /\ fetching' = [fetching EXCEPT ![v] = @ - 1]
    /\ FinishAttempt(v)
    /\ UNCHANGED <<currentStep, started, attempts, reading>>

\* The body arrives, or cannot be read, and names no node.
NoNodes(v) ==
    /\ reading[v] > 0
    /\ reading' = [reading EXCEPT ![v] = @ - 1]
    /\ FinishAttempt(v)
    /\ UNCHANGED <<currentStep, started, attempts, fetching>>

\* Mutant: the spinner is not hidden.
ShowSuccessOnly == success' = TRUE /\ text' = "registered" /\ UNCHANGED spinner

ShowSuccess == success' = TRUE /\ text' = "registered" /\ spinner' = FALSE

\* The body names a node.
NodeFound(v) ==
    /\ reading[v] > 0
    /\ reading' = [reading EXCEPT ![v] = @ - 1]
    /\ ClearInterval
    /\ ShowSuccess
    /\ UNCHANGED <<currentStep, started, attempts, fetching>>

Settle(v) == Respond(v) \/ PollFails(v) \/ NoNodes(v) \/ NodeFound(v)

Next ==
    \/ StartVerification \/ \E s \in {1, 2} : GoToStep(s)
    \/ \E v \in Verifications : Poll(v) \/ Settle(v)

Spec == Init /\ [][Next]_vars

\* Timers fire, requests are aborted after five seconds and the server closes
\* a connection after its WriteTimeout, so no callback waits for ever.
Fairness == \A v \in Verifications : WF_vars(Poll(v)) /\ WF_vars(Settle(v))

FairSpec == Spec /\ Fairness

-----------------------------------------------------------------------------
(* Properties.                                                             *)

TypeOK ==
    /\ currentStep \in 1 .. 3 /\ started \in 0 .. MaxStarts
    /\ verificationInterval \in 0 .. MaxStarts /\ timers \subseteq Verifications
    /\ attempts \in [Verifications -> Nat]
    /\ fetching \in [Verifications -> Nat] /\ reading \in [Verifications -> Nat]
    /\ spinner \in BOOLEAN /\ success \in BOOLEAN
    /\ text \in {"listening", "registered", "timed out"}

\* However late callbacks and the user's steps interleave, no timer runs that
\* the page cannot clear any more, and none runs off the third step.
NoOrphanTimer ==
    /\ timers = {verificationInterval} \ {0}
    /\ timers # {} => currentStep = 3

\* The page never claims a result while it polls, nor waits when it does not:
\* on the third step the spinner turns exactly while a timer runs, also when a
\* callback of an earlier verification has stopped it.
PageTellsTruth ==
    /\ currentStep = 3 => (spinner <=> timers # {})
    /\ success \/ text # "listening" => timers = {}

\* Every verification comes to an end, whatever the server answers.
VerificationEnds ==
    \A v \in Verifications : v \in timers ~> v \notin timers
=============================================================================
