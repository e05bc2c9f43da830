-------------------------- MODULE AgentJobsProofs --------------------------
(***************************************************************************)
(* Proofs about AgentJobs, for any number of commands, releases, crashes   *)
(* and seconds.                                                            *)
(***************************************************************************)
EXTENDS AgentJobs, TLAPS

-----------------------------------------------------------------------------
(* The order of versions.                                                  *)

\* A component of a version is a number.
LEMMA PartType ==
    ASSUME NEW v \in Seq(Nat), NEW i \in Nat
    PROVE  Part(v, i) \in Nat
  BY DEF Part

\* No version is newer than itself.
LEMMA NewerIrreflexive ==
    ASSUME NEW v \in Seq(Nat)
    PROVE  ~Newer(v, v)
  <1>1. \A i \in 1 .. Len(v) + Len(v) : Part(v, i) \in Nat
    BY PartType
  <1> QED BY <1>1 DEF Newer

\* Of two versions at most one is newer than the other.
LEMMA NewerAsymmetric ==
    ASSUME NEW v \in Seq(Nat), NEW w \in Seq(Nat), Newer(v, w)
    PROVE  ~Newer(w, v)
  <1>1. Len(v) \in Nat /\ Len(w) \in Nat
    OBVIOUS
  <1>2. PICK i \in 1 .. Len(v) + Len(w) :
            /\ Part(v, i) > Part(w, i)
            /\ \A j \in 1 .. i - 1 : Part(v, j) = Part(w, j)
    BY DEF Newer
  <1>3. SUFFICES ASSUME NEW k \in 1 .. Len(w) + Len(v),
                        Part(w, k) > Part(v, k),
                        \A j \in 1 .. k - 1 : Part(w, j) = Part(v, j)
                 PROVE  FALSE
    BY DEF Newer
  <1>4. /\ Part(v, i) \in Nat /\ Part(w, i) \in Nat
        /\ Part(v, k) \in Nat /\ Part(w, k) \in Nat
    BY <1>1, PartType
  <1>5. CASE i < k
    <2>1. Part(w, i) = Part(v, i)
      BY <1>1, <1>3, <1>5
    <2> QED BY <1>2, <1>4, <2>1
  <1>6. CASE k < i
    <2>1. Part(v, k) = Part(w, k)
      BY <1>1, <1>2, <1>6
    <2> QED BY <1>3, <1>4, <2>1
  <1>7. CASE i = k
    BY <1>2, <1>3, <1>4, <1>7
  <1> QED BY <1>1, <1>5, <1>6, <1>7

\* Releases are versions that can be read, and None is no version.
LEMMA VersionFacts ==
    /\ Versions \subseteq Seq(Nat) /\ None \notin Versions
    /\ Dev \notin Releases
  <1>1. <<>> \in Seq(Nat)
    OBVIOUS
  <1> QED BY <1>1, AgentAssumption DEF Versions, Dev

-----------------------------------------------------------------------------
(* Goroutines.                                                             *)

\* Goroutines are only in a running agent.
JobOK ==
    /\ job \in [Cmds -> JobPoints]
    /\ \A c \in Cmds : job[c] # "idle" => alive
    /\ action \in [Cmds -> Actions]

\* The goroutine of c goes on to some place, and no other moves.
Moves(c) ==
    /\ job[c] # "idle"
    /\ UNCHANGED <<now, cmdVars, alive, nodeID>>
    /\ \E l \in JobPoints : Goto(c, l)

\* A goroutine's step moves it, and nothing else.
LEMMA StepMoves ==
    ASSUME NEW c \in Cmds,
           \/ Query(c) \/ PreFlightCheck(c) \/ PrePatchScript(c)
           \/ TruncateState(c) \/ WriteState(c) \/ SaveFails(c)
           \/ ApplyUpdates(c) \/ PostPatch(c) \/ ClearState(c)
           \/ FetchUpdate(c) \/ BackupExe(c) \/ InstallExe(c) \/ Rollback(c)
           \/ SelfDestruct(c) \/ RemoveUnit(c) \/ WipeConfig(c)
           \/ WipeState(c) \/ ScheduleRemoval(c)
    PROVE  Moves(c)
  <1> USE DEF Moves, JobPoints, Recording, Replacing, Destroying, procVars, hostVars
  <1>1. CASE Query(c)
    BY <1>1 DEF Query
  <1>2. CASE PreFlightCheck(c)
    BY <1>2 DEF PreFlightCheck
  <1>3. CASE PrePatchScript(c)
    BY <1>3 DEF PrePatchScript
  <1>4. CASE TruncateState(c)
    BY <1>4 DEF TruncateState
  <1>5. CASE WriteState(c)
    BY <1>5 DEF WriteState
  <1>6. CASE SaveFails(c)
    BY <1>6 DEF SaveFails
  <1>7. CASE ApplyUpdates(c)
    BY <1>7 DEF ApplyUpdates
  <1>8. CASE PostPatch(c)
    BY <1>8 DEF PostPatch
  <1>9. CASE ClearState(c)
    BY <1>9 DEF ClearState
  <1>10. CASE FetchUpdate(c)
    BY <1>10 DEF FetchUpdate
  <1>11. CASE BackupExe(c)
    BY <1>11 DEF BackupExe
  <1>12. CASE InstallExe(c)
    BY <1>12 DEF InstallExe
  <1>13. CASE Rollback(c)
    BY <1>13 DEF Rollback
  <1>14. CASE SelfDestruct(c)
    BY <1>14 DEF SelfDestruct
  <1>15. CASE RemoveUnit(c)
    BY <1>15 DEF RemoveUnit
  <1>16. CASE WipeConfig(c)
    BY <1>16 DEF WipeConfig
  <1>17. CASE WipeState(c)
    BY <1>17 DEF WipeState
  <1>18. CASE ScheduleRemoval(c)
    BY <1>18 DEF ScheduleRemoval
  <1> QED BY <1>1, <1>2, <1>3, <1>4, <1>5, <1>6, <1>7, <1>8, <1>9, <1>10, <1>11,
         <1>12, <1>13, <1>14, <1>15, <1>16, <1>17, <1>18

\* A move keeps JobOK.
LEMMA MovesJob ==
    ASSUME JobOK, NEW c \in Cmds, Moves(c)
    PROVE  JobOK'
  BY DEF JobOK, Moves, Goto, cmdVars

\* A death leaves no goroutine.
LEMMA DieJob ==
    ASSUME JobOK, Die
    PROVE  JobOK' /\ \A c \in Cmds : job'[c] = "idle"
  BY DEF Die, JobOK, JobPoints

\* Every step keeps JobOK.
LEMMA JobNext == JobOK /\ [Next]_vars => JobOK'
  <1> SUFFICES ASSUME JobOK, [Next]_vars PROVE JobOK'
    OBVIOUS
  <1>1. CASE Tick \/ SaveTokens \/ UNCHANGED vars
    BY <1>1 DEF Tick, SaveTokens, vars, procVars, cmdVars, JobOK
  <1>2. CASE Crash \/ Terminate
    BY <1>2, DieJob DEF Crash, Terminate
  <1>3. CASE Boot
    BY <1>3 DEF Boot, JobOK, cmdVars
  <1>4. ASSUME NEW c \in Cmds, NEW a \in Actions, NEW n \in 1 .. nodeID,
               Sign(c, a, n)
        PROVE  JobOK'
    BY <1>4 DEF Sign, procVars, JobOK
  <1>5. ASSUME NEW c \in Cmds, Accept(c)
        PROVE  JobOK'
    <2>1. /\ alive /\ alive' = alive /\ action' = action
          /\ job' = [job EXCEPT ![c] = Entry(c)]
      BY <1>5 DEF Accept, procVars, Goto
    <2>2. action[c] \in Actions
      BY DEF JobOK
    <2>3. Entry(c) \in JobPoints
      BY <2>2 DEF Entry, Actions, JobPoints
    <2> QED BY <2>1, <2>3 DEF JobOK
  <1>6. ASSUME NEW c \in Cmds, Refuse(c) \/ RemoveExe(c)
        PROVE  JobOK'
    BY <1>6 DEF Refuse, RemoveExe, procVars, cmdVars, JobOK
  <1>7. ASSUME NEW c \in Cmds, RestartAgent(c) \/ Exit(c)
        PROVE  JobOK'
    <2>1. CASE Die
      BY <2>1, DieJob
    <2>2. CASE /\ job[c] = "restart" /\ Goto(c, "idle")
               /\ UNCHANGED <<cmdVars, procVars>>
      BY <2>2 DEF Goto, JobOK, JobPoints, cmdVars, procVars
    <2> QED BY <1>7, <2>1, <2>2 DEF RestartAgent, Exit
  <1>8. ASSUME NEW c \in Cmds, Moves(c)
        PROVE  JobOK'
    BY <1>8, MovesJob
  <1> QED BY <1>1, <1>2, <1>3, <1>4, <1>5, <1>6, <1>7, <1>8, StepMoves DEF Next

-----------------------------------------------------------------------------
(* Replays.                                                                *)

\* Every command that was started is remembered until it has expired.
Remembered ==
    /\ now \in Nat
    /\ expiresAt \in [Cmds -> Nat \cup {None}]
    /\ starts \in [Cmds -> Nat]
    /\ seen \subseteq {c \in Cmds : expiresAt[c] # None}
    /\ \A c \in Cmds :
          starts[c] # 0 => expiresAt[c] # None /\ (c \in seen \/ Expired(c))

\* Every step keeps what is remembered, and starts a command at most once.
LEMMA ReplayNext ==
    Remembered /\ ReplaysRejected /\ [Next]_vars => Remembered' /\ ReplaysRejected'
  <1> SUFFICES ASSUME Remembered, ReplaysRejected, [Next]_vars
               PROVE  Remembered' /\ ReplaysRejected'
    OBVIOUS
  <1> USE AgentAssumption
  <1>1. CASE Tick
    BY <1>1 DEF Tick, cmdVars, Remembered, ReplaysRejected, Expired
  <1>2. ASSUME Die PROVE Remembered' /\ ReplaysRejected'
    BY <1>2 DEF Die, Remembered, ReplaysRejected, Expired
  <1>3. ASSUME NEW c \in Cmds, NEW a \in Actions, NEW n \in 1 .. nodeID,
               Sign(c, a, n)
        PROVE  Remembered' /\ ReplaysRejected'
    <2>1. expiresAt' = [expiresAt EXCEPT ![c] = now + Lifetime]
          /\ expiresAt[c] = None /\ UNCHANGED <<now, seen, starts>>
      BY <1>3 DEF Sign
    <2>2. now + Lifetime \in Nat
      BY DEF Remembered
    <2> QED BY <2>1, <2>2 DEF Remembered, ReplaysRejected, Expired
  <1>4. ASSUME NEW c \in Cmds, Accept(c)
        PROVE  Remembered' /\ ReplaysRejected'
    <2>1. /\ expiresAt[c] # None /\ ~Expired(c) /\ c \notin Pruned(seen)
          /\ seen' = Pruned(seen) \cup {c}
          /\ starts' = [starts EXCEPT ![c] = starts[c] + 1]
          /\ UNCHANGED <<now, expiresAt>>
      BY <1>4 DEF Accept, Valid
    <2>2. starts[c] = 0
      BY <2>1 DEF Remembered, Pruned
    <2>3. starts' \in [Cmds -> Nat] /\ ReplaysRejected'
      BY <2>1, <2>2 DEF Remembered, ReplaysRejected
    <2>4. \A d \in seen : d \in Pruned(seen) \/ Expired(d)
      BY DEF Pruned
    <2> QED BY <2>1, <2>3, <2>4 DEF Remembered, Pruned, Expired
  <1>5. ASSUME NEW c \in Cmds, Refuse(c)
        PROVE  Remembered' /\ ReplaysRejected'
    BY <1>5 DEF Refuse, Remembered, ReplaysRejected, Pruned, Expired
  <1>6. CASE UNCHANGED <<now, cmdVars>>
    BY <1>6 DEF cmdVars, Remembered, ReplaysRejected, Expired
  <1>7. ASSUME NEW c \in Cmds, RestartAgent(c) \/ Exit(c)
        PROVE  Die \/ UNCHANGED <<now, cmdVars>>
    BY <1>7 DEF RestartAgent, Exit
  <1>8. ASSUME NEW c \in Cmds, Moves(c) \/ RemoveExe(c)
        PROVE  UNCHANGED <<now, cmdVars>>
    BY <1>8 DEF Moves, RemoveExe
  <1>9. CASE Boot \/ SaveTokens \/ UNCHANGED vars
    BY <1>6, <1>9 DEF Boot, SaveTokens, vars
  <1> QED
    BY <1>1, <1>2, <1>3, <1>4, <1>5, <1>6, <1>7, <1>8, <1>9, StepMoves
    DEF Next, Crash, Terminate

-----------------------------------------------------------------------------
(* Identities.                                                             *)

\* Only signed commands run, and under the identity they were signed for.
Addressed ==
    \A c \in Cmds : job[c] # "idle" => expiresAt[c] # None /\ addressee[c] = nodeID

\* Every step keeps that.
LEMMA AddressedNext == JobOK /\ Addressed /\ [Next]_vars => Addressed'
  <1> SUFFICES ASSUME JobOK, Addressed, [Next]_vars PROVE Addressed'
    OBVIOUS
  <1>1. CASE Tick \/ SaveTokens \/ UNCHANGED vars
    BY <1>1 DEF Tick, SaveTokens, vars, cmdVars, hostVars, Addressed
  <1>2. CASE Die
    BY <1>2, DieJob DEF Addressed
  <1>3. CASE Boot
    BY <1>3 DEF Boot, JobOK, Addressed
  <1>4. ASSUME NEW c \in Cmds, NEW a \in Actions, NEW n \in 1 .. nodeID,
               Sign(c, a, n)
        PROVE  Addressed'
    <2>1. job[c] = "idle"
      BY <1>4 DEF Sign, Addressed
    <2>2. \A d \in Cmds \ {c} : expiresAt'[d] = expiresAt[d]
                               /\ addressee'[d] = addressee[d]
      BY <1>4 DEF Sign
    <2> QED BY <1>4, <2>1, <2>2 DEF Sign, Addressed, hostVars
  <1>5. ASSUME NEW c \in Cmds, Accept(c)
        PROVE  Addressed'
    BY <1>5 DEF Accept, Valid, Goto, Addressed, JobOK, hostVars
  <1>6. ASSUME NEW c \in Cmds, Refuse(c) \/ RemoveExe(c)
        PROVE  Addressed'
    BY <1>6 DEF Refuse, RemoveExe, hostVars, cmdVars, Addressed
  <1>7. ASSUME NEW c \in Cmds, Moves(c)
        PROVE  Addressed'
    BY <1>7 DEF Moves, Goto, Addressed, JobOK, cmdVars
  <1>8. ASSUME NEW c \in Cmds, RestartAgent(c) \/ Exit(c)
        PROVE  Addressed'
    <2>1. CASE /\ job[c] = "restart" /\ Goto(c, "idle")
               /\ UNCHANGED <<cmdVars, hostVars>>
      BY <2>1 DEF Goto, JobOK, Addressed, cmdVars, hostVars
    <2> QED BY <1>2, <1>8, <2>1 DEF RestartAgent, Exit
  <1> QED
    BY <1>1, <1>2, <1>3, <1>4, <1>5, <1>6, <1>7, <1>8, StepMoves
    DEF Next, Crash, Terminate

-----------------------------------------------------------------------------
(* The state file.                                                         *)

\* A goroutine belongs to a command this process started.
Started == \A c \in Cmds : job[c] # "idle" => starts[c] # 0

\* Every step keeps that.
LEMMA StartedNext ==
    JobOK /\ Remembered /\ Started /\ [Next]_vars => Started'
  <1> SUFFICES ASSUME JobOK, Remembered, Started, [Next]_vars PROVE Started'
    OBVIOUS
  <1>1. CASE Tick \/ SaveTokens \/ Boot \/ UNCHANGED vars
    BY <1>1 DEF Tick, SaveTokens, Boot, vars, cmdVars, Started
  <1>2. CASE Die
    BY <1>2, DieJob DEF Started
  <1>3. ASSUME NEW c \in Cmds, NEW a \in Actions, NEW n \in 1 .. nodeID,
               Sign(c, a, n)
        PROVE  Started'
    BY <1>3 DEF Sign, Started
  <1>4. ASSUME NEW c \in Cmds, Accept(c)
        PROVE  Started'
    <2>1. starts' = [starts EXCEPT ![c] = starts[c] + 1]
          /\ job' = [job EXCEPT ![c] = Entry(c)]
      BY <1>4 DEF Accept, Goto
    <2>2. starts \in [Cmds -> Nat]
      BY DEF Remembered
    <2>3. starts'[c] # 0
      BY <2>1, <2>2
    <2> QED BY <2>1, <2>2, <2>3 DEF Started, JobOK
  <1>5. ASSUME NEW c \in Cmds, Refuse(c) \/ RemoveExe(c)
        PROVE  Started'
    BY <1>5 DEF Refuse, RemoveExe, cmdVars, Started
  <1>6. ASSUME NEW c \in Cmds, Moves(c)
        PROVE  Started'
    BY <1>6 DEF Moves, Goto, Started, JobOK, cmdVars
  <1>7. ASSUME NEW c \in Cmds, RestartAgent(c) \/ Exit(c)
        PROVE  Started'
    <2>1. CASE job[c] = "restart" /\ Goto(c, "idle") /\ UNCHANGED cmdVars
      BY <2>1 DEF Goto, JobOK, Started, cmdVars
    <2> QED BY <1>2, <1>7, <2>1 DEF RestartAgent, Exit
  <1> QED
    BY <1>1, <1>2, <1>3, <1>4, <1>5, <1>6, <1>7, StepMoves
    DEF Next, Crash, Terminate

\* A command that is accepted has no goroutine yet, and its first place is
\* neither in an update nor in SelfDestruct.
LEMMA AcceptFacts ==
    ASSUME JobOK, Remembered, Started, NEW c \in Cmds, Accept(c)
    PROVE  /\ job[c] = "idle" /\ job' = [job EXCEPT ![c] = Entry(c)]
           /\ Entry(c) \in {"preflight", "fetch", "destruct", "exit", "query"}
  <1>1. /\ ~Expired(c) /\ c \notin Pruned(seen)
        /\ job' = [job EXCEPT ![c] = Entry(c)]
    BY DEF Accept, Valid, Goto
  <1>2. starts[c] = 0
    BY <1>1 DEF Remembered, Pruned
  <1>3. action[c] \in Actions
    BY DEF JobOK
  <1>4. Entry(c) \in {"preflight", "fetch", "destruct", "exit", "query"}
    BY <1>3 DEF Entry, Actions
  <1> QED BY <1>1, <1>2, <1>4 DEF Started

\* Where the state file is written but not yet cleared.
Applying == {"apply", "check", "clear"}

\* Jobs that record themselves at the same time are excused.
Shared == \A c, d \in Owners : c # d => c \in excused

FileOK == Shared /\ StateShowsJob /\ NoPhantom

\* FileOK does not look at anything but the file and the jobs that use it.
LEMMA FileFrame ==
    ASSUME FileOK, UNCHANGED <<stateFile, excused, interrupted>>,
           \A c \in Cmds : /\ job[c] \in Recording <=> job'[c] \in Recording
                           /\ job[c] \in Applying <=> job'[c] \in Applying
    PROVE  FileOK'
  <1>1. Owners' = Owners
    BY DEF Owners
  <1>2. Shared'
    BY <1>1 DEF FileOK, Shared
  <1>3. StateShowsJob'
    BY DEF FileOK, StateShowsJob, Applying
  <1>4. NoPhantom'
    BY DEF FileOK, NoPhantom
  <1> QED BY <1>2, <1>3, <1>4 DEF FileOK

\* A goroutine that goes from l to m, neither of them in the part that records
\* the job or both in the part that applies the updates.
LEMMA FileMove ==
    ASSUME JobOK, FileOK, NEW c \in Cmds, NEW m, Goto(c, m),
           UNCHANGED <<fileVars, interrupted>>,
           job[c] \in Recording <=> m \in Recording,
           job[c] \in Applying <=> m \in Applying
    PROVE  FileOK'
  <1>1. \A d \in Cmds : job'[d] = IF d = c THEN m ELSE job[d]
    BY DEF Goto, JobOK
  <1> QED BY <1>1, FileFrame DEF fileVars

\* A death leaves what the file shows to the next start.
LEMMA FileDie ==
    ASSUME JobOK, FileOK, Die
    PROVE  FileOK'
  <1>1. /\ \A c \in Cmds : job'[c] = "idle"
        /\ stateFile' = stateFile /\ excused' = excused
        /\ interrupted' = interrupted \cup Owners
    BY DEF Die, fileVars
  <1>2. Owners' = {}
    BY <1>1 DEF Owners, Recording
  <1>3. Shared' /\ StateShowsJob'
    BY <1>1, <1>2 DEF Shared, StateShowsJob
  <1>4. NoPhantom'
    BY <1>1 DEF FileOK, NoPhantom, Owners
  <1> QED BY <1>3, <1>4 DEF FileOK

\* The steps of SaveState.
LEMMA FileSave ==
    ASSUME JobOK, FileOK, NEW c \in Cmds,
           TruncateState(c) \/ WriteState(c) \/ SaveFails(c)
    PROVE  FileOK'
  <1> USE AgentAssumption
  <1>1. CASE TruncateState(c)
    <2>1. /\ job[c] = "save" /\ stateFile' = Torn /\ interrupted' = interrupted
          /\ excused' = IF Owners = {} THEN excused ELSE excused \cup Owners \cup {c}
          /\ \A d \in Cmds : job'[d] = IF d = c THEN "write" ELSE job[d]
      BY <1>1 DEF TruncateState, Goto, JobOK, procVars
    <2>2. Owners' = Owners \cup {c}
      BY <2>1 DEF Owners, Recording
    <2>3. Shared'
      <3>1. CASE Owners = {}
        BY <2>2, <3>1 DEF Shared
      <3>2. CASE Owners # {}
        BY <2>1, <2>2, <3>2 DEF Shared
      <3> QED BY <3>1, <3>2
    <2>4. StateShowsJob'
      <3>1. \A d \in Cmds : job'[d] \in Applying => d \in Owners
        BY <2>1 DEF Owners, Recording, Applying
      <3> QED BY <2>1, <3>1 DEF StateShowsJob, Applying
    <2>5. NoPhantom'
      BY <2>1 DEF NoPhantom
    <2> QED BY <2>3, <2>4, <2>5 DEF FileOK
  <1>2. CASE WriteState(c)
    <2>1. /\ job[c] = "write" /\ stateFile' = c
          /\ excused' = excused /\ interrupted' = interrupted
          /\ \A d \in Cmds : job'[d] = IF d = c THEN "apply" ELSE job[d]
      BY <1>2 DEF WriteState, Goto, JobOK, procVars
    <2>2. Owners' = Owners /\ c \in Owners
      BY <2>1 DEF Owners, Recording
    <2>3. Shared'
      BY <2>1, <2>2 DEF FileOK, Shared
    <2>4. StateShowsJob'
      <3>1. \A d \in Cmds : job'[d] \in Applying => d \in Owners
        BY <2>1 DEF Owners, Recording, Applying
      <3>2. \A d \in Owners : d # c => d \in excused
        BY <2>2 DEF FileOK, Shared
      <3> QED BY <2>1, <3>1, <3>2 DEF StateShowsJob, Applying
    <2>5. NoPhantom'
      BY <2>1 DEF NoPhantom, Recording
    <2> QED BY <2>3, <2>4, <2>5 DEF FileOK
  <1>3. CASE SaveFails(c)
    <2>1. /\ stateFile' = stateFile /\ interrupted' = interrupted
          /\ excused' = excused \cup Owners \cup {c}
          /\ \A d \in Cmds : job'[d] = IF d = c THEN "apply" ELSE job[d]
      BY <1>3 DEF SaveFails, Goto, JobOK, procVars
    <2>2. Owners' = Owners \cup {c}
      BY <2>1 DEF Owners, Recording
    <2>3. Shared'
      BY <2>1, <2>2 DEF Shared
    <2>4. StateShowsJob'
      <3>1. \A d \in Cmds : job'[d] \in Applying => d \in Owners \cup {c}
        BY <2>1 DEF Owners, Recording, Applying
      <3> QED BY <2>1, <3>1 DEF StateShowsJob, Applying
    <2>5. NoPhantom'
      BY <2>1 DEF FileOK, NoPhantom
    <2> QED BY <2>3, <2>4, <2>5 DEF FileOK
  <1> QED BY <1>1, <1>2, <1>3

\* The steps that remove the file.
LEMMA FileClear ==
    ASSUME JobOK, FileOK, NEW c \in Cmds, ClearState(c) \/ WipeState(c)
    PROVE  FileOK'
  <1> USE AgentAssumption
  <1>1. CASE ClearState(c)
    <2>1. /\ job[c] = "clear" /\ interrupted' = interrupted
          /\ \A d \in Cmds : job'[d] = IF d = c THEN "idle" ELSE job[d]
          /\ excused \subseteq excused'
          /\ \/ stateFile' = None
             \/ stateFile' = stateFile /\ c \in excused'
      BY <1>1 DEF ClearState, Goto, JobOK, procVars
    <2>2. Owners' = Owners \ {c} /\ c \in Owners
      BY <2>1 DEF Owners, Recording
    <2>3. Shared'
      BY <2>1, <2>2 DEF FileOK, Shared
    <2>4. StateShowsJob'
      <3>1. \A d \in Cmds : job'[d] \in Applying => d \in Owners \ {c}
        BY <2>1, <2>2 DEF Owners, Recording, Applying
      <3>2. \A d \in Owners \ {c} : d \in excused
        BY <2>2 DEF FileOK, Shared
      <3> QED BY <2>1, <3>1, <3>2 DEF StateShowsJob, Applying
    <2>5. NoPhantom'
      BY <2>1 DEF FileOK, NoPhantom
    <2> QED BY <2>3, <2>4, <2>5 DEF FileOK
  <1>2. CASE WipeState(c) /\ ~UNCHANGED fileVars
    <2>1. /\ job[c] = "purge" /\ interrupted' = interrupted
          /\ \A d \in Cmds : job'[d] = IF d = c THEN "schedule" ELSE job[d]
          /\ excused' = excused \cup Owners /\ stateFile' = None
      BY <1>2 DEF WipeState, Goto, JobOK, procVars
    <2>2. Owners' = Owners
      BY <2>1 DEF Owners, Recording
    <2>3. Shared' /\ NoPhantom'
      BY <2>1, <2>2 DEF Shared, NoPhantom
    <2>4. StateShowsJob'
      BY <2>1 DEF StateShowsJob, Owners, Recording
    <2> QED BY <2>3, <2>4 DEF FileOK
  <1>3. CASE WipeState(c) /\ UNCHANGED fileVars
    BY <1>3, FileMove DEF WipeState, procVars, Recording, Applying
  <1> QED BY <1>1, <1>2, <1>3

\* Every step keeps FileOK.
LEMMA FileNext ==
    JobOK /\ Remembered /\ Started /\ FileOK /\ [Next]_vars => FileOK'
  <1> SUFFICES ASSUME JobOK, Remembered, Started, FileOK, [Next]_vars
               PROVE  FileOK'
    OBVIOUS
  <1>1. CASE UNCHANGED <<job, fileVars, procVars>>
    BY <1>1, FileFrame DEF fileVars, procVars
  <1>2. CASE Tick \/ SaveTokens \/ UNCHANGED vars
    BY <1>1, <1>2 DEF Tick, SaveTokens, vars
  <1>3. CASE Boot
    BY <1>3, FileFrame DEF Boot, fileVars
  <1>4. ASSUME NEW c \in Cmds, NEW a \in Actions, NEW n \in 1 .. nodeID,
               Sign(c, a, n)
        PROVE  FileOK'
    BY <1>1, <1>4 DEF Sign
  <1>5. ASSUME NEW c \in Cmds, Refuse(c) \/ RemoveExe(c)
        PROVE  FileOK'
    BY <1>1, <1>5 DEF Refuse, RemoveExe
  <1>6. ASSUME NEW c \in Cmds, Accept(c)
        PROVE  FileOK'
    BY <1>6, AcceptFacts, FileMove
    DEF Accept, procVars, Recording, Applying, Goto
  <1>7. ASSUME NEW c \in Cmds,
               Query(c) \/ PreFlightCheck(c) \/ PrePatchScript(c)
        PROVE  FileOK'
    BY <1>7, FileMove
    DEF Query, PreFlightCheck, PrePatchScript, procVars, Recording, Applying
  <1>8. ASSUME NEW c \in Cmds, ApplyUpdates(c) \/ PostPatch(c)
        PROVE  FileOK'
    BY <1>8, FileMove DEF ApplyUpdates, PostPatch, procVars, Recording, Applying
  <1>9. ASSUME NEW c \in Cmds,
               FetchUpdate(c) \/ BackupExe(c) \/ InstallExe(c) \/ Rollback(c)
        PROVE  FileOK'
    BY <1>9, FileMove
    DEF FetchUpdate, BackupExe, InstallExe, Rollback, procVars, Recording, Applying
  <1>10. ASSUME NEW c \in Cmds,
                \/ SelfDestruct(c) \/ RemoveUnit(c) \/ WipeConfig(c)
                \/ ScheduleRemoval(c)
         PROVE  FileOK'
    BY <1>10, FileMove
    DEF SelfDestruct, RemoveUnit, WipeConfig, ScheduleRemoval, procVars,
        Recording, Applying
  <1>11. ASSUME NEW c \in Cmds, RestartAgent(c) \/ Exit(c)
         PROVE  FileOK'
    BY <1>11, FileMove, FileDie
    DEF RestartAgent, Exit, procVars, Recording, Applying
  <1>12. CASE Crash \/ Terminate
    BY <1>12, FileDie DEF Crash, Terminate
  <1> QED
    BY <1>2, <1>3, <1>4, <1>5, <1>6, <1>7, <1>8, <1>9, <1>10, <1>11, <1>12,
       FileSave, FileClear
    DEF Next

-----------------------------------------------------------------------------
(* Uninstallation.                                                         *)

\* Past the wipe of the configuration, and afterwards, nothing of it is left
\* that could have been removed.
Wiped ==
    /\ kept \in BOOLEAN /\ removed \in BOOLEAN
    /\ \/ removed \/ pending # {}
       \/ \E c \in Cmds : job[c] \in {"purge", "schedule"}
       => config = {} \/ kept

\* A goroutine that moves elsewhere keeps Wiped.
LEMMA WipedMove ==
    ASSUME JobOK, Wiped, NEW c \in Cmds, NEW m, Goto(c, m),
           UNCHANGED <<config, pending, removed, kept>>,
           m \in {"purge", "schedule"} => job[c] \in {"purge", "schedule"}
    PROVE  Wiped'
  <1>1. \A d \in Cmds : job'[d] = IF d = c THEN m ELSE job[d]
    BY DEF Goto, JobOK
  <1>2. \A d \in Cmds : job'[d] \in {"purge", "schedule"}
                        => \E e \in Cmds : job[e] \in {"purge", "schedule"}
    BY <1>1
  <1> QED BY <1>2 DEF Wiped

\* Every step keeps Wiped.
LEMMA WipedNext ==
    JobOK /\ Remembered /\ Started /\ Wiped /\ [Next]_vars => Wiped'
  <1> SUFFICES ASSUME JobOK, Remembered, Started, Wiped, [Next]_vars
               PROVE  Wiped'
    OBVIOUS
  <1>1. CASE UNCHANGED <<job, hostVars>>
    BY <1>1 DEF hostVars, Wiped
  <1>2. CASE Tick \/ UNCHANGED vars
    BY <1>1, <1>2 DEF Tick, vars
  <1>3. CASE SaveTokens
    BY <1>3 DEF SaveTokens, Wiped
  <1>4. CASE Boot
    <2>1. /\ UNCHANGED <<job, pending, removed>>
          /\ UNCHANGED <<config, kept>> \/ kept' = TRUE
      BY <1>4 DEF Boot, GetOrGenerate
    <2> QED BY <2>1 DEF Wiped
  <1>5. ASSUME NEW c \in Cmds, NEW a \in Actions, NEW n \in 1 .. nodeID,
               Sign(c, a, n)
        PROVE  Wiped'
    BY <1>1, <1>5 DEF Sign
  <1>6. ASSUME NEW c \in Cmds, Refuse(c)
        PROVE  Wiped'
    BY <1>1, <1>6 DEF Refuse
  <1>7. ASSUME NEW c \in Cmds, RemoveExe(c)
        PROVE  Wiped'
    BY <1>7 DEF RemoveExe, Wiped
  <1>8. ASSUME NEW c \in Cmds, Accept(c)
        PROVE  Wiped'
    BY <1>8, AcceptFacts, WipedMove DEF Accept, hostVars, Goto
  <1>9. ASSUME NEW c \in Cmds,
               \/ Query(c) \/ PreFlightCheck(c) \/ PrePatchScript(c)
               \/ TruncateState(c) \/ WriteState(c) \/ SaveFails(c)
               \/ ApplyUpdates(c) \/ PostPatch(c) \/ ClearState(c)
        PROVE  Wiped'
    BY <1>9, WipedMove
    DEF Query, PreFlightCheck, PrePatchScript, TruncateState, WriteState,
        SaveFails, ApplyUpdates, PostPatch, ClearState, hostVars
  <1>10. ASSUME NEW c \in Cmds,
                \/ FetchUpdate(c) \/ BackupExe(c) \/ InstallExe(c) \/ Rollback(c)
                \/ SelfDestruct(c) \/ RemoveUnit(c) \/ WipeState(c)
         PROVE  Wiped'
    BY <1>10, WipedMove
    DEF FetchUpdate, BackupExe, InstallExe, Rollback, SelfDestruct, RemoveUnit,
        WipeState, hostVars
  <1>11. ASSUME NEW c \in Cmds, WipeConfig(c)
         PROVE  Wiped'
    BY <1>11 DEF WipeConfig, Wiped
  <1>12. ASSUME NEW c \in Cmds, ScheduleRemoval(c)
         PROVE  Wiped'
    <2>1. config = {} \/ kept
      BY <1>12 DEF ScheduleRemoval, Wiped
    <2> QED BY <1>12, <2>1 DEF ScheduleRemoval, Wiped
  <1>13. ASSUME Die, UNCHANGED <<config, pending, removed, kept>>
         PROVE  Wiped'
    BY <1>13, DieJob DEF Wiped
  <1>14. ASSUME NEW c \in Cmds, RestartAgent(c) \/ Exit(c)
         PROVE  Wiped'
    BY <1>13, <1>14, WipedMove DEF RestartAgent, Exit, hostVars
  <1>15. CASE Crash \/ Terminate
    BY <1>13, <1>15 DEF Crash, Terminate, hostVars
  <1> QED
    BY <1>2, <1>3, <1>4, <1>5, <1>6, <1>7, <1>8, <1>9, <1>10, <1>11, <1>12,
       <1>14, <1>15
    DEF Next

-----------------------------------------------------------------------------
(* The binary.                                                             *)

Times == 0 .. MaxNow

\* Types of the files of an update; an update that has not failed has its
\* download.
ExeTypes ==
    /\ now \in Times
    /\ exe \in Versions \cup {None}
    /\ tmp \in [Cmds -> Versions \cup {None}]
    /\ bak \in [Times -> Versions \cup {None}]
    /\ bakAt \in [Cmds -> Times]
    /\ halfUpdated \in BOOLEAN /\ removed \in BOOLEAN
    /\ \A c \in Cmds : job[c] \in {"backup", "install"} => tmp[c] \in Versions

\* A missing binary can be brought back by an update that is under way.
Restorable ==
    exe = None =>
        \/ halfUpdated \/ removed
        \/ \E c \in Cmds : job[c] \in Replacing /\ bak[bakAt[c]] # None

ExeOK == ExeTypes /\ Restorable

\* Nothing but the files of updates matters to ExeOK.
LEMMA ExeFrame ==
    ASSUME ExeOK, UNCHANGED <<now, exeVars, halfUpdated, removed>>,
           \A c \in Cmds :
              /\ job[c] \in Replacing => job'[c] \in Replacing
              /\ job'[c] \in {"backup", "install"} => job[c] \in {"backup", "install"}
    PROVE  ExeOK'
  <1>1. ExeTypes'
    BY DEF ExeOK, ExeTypes, exeVars
  <1>2. Restorable'
    BY DEF ExeOK, Restorable, exeVars
  <1> QED BY <1>1, <1>2 DEF ExeOK

\* A goroutine that is not in an update keeps ExeOK.
LEMMA ExeMove ==
    ASSUME JobOK, ExeOK, NEW c \in Cmds, NEW m, Goto(c, m),
           UNCHANGED <<now, exeVars, halfUpdated, removed>>,
           job[c] \notin Replacing, m \notin {"backup", "install"}
    PROVE  ExeOK'
  <1>1. \A d \in Cmds : job'[d] = IF d = c THEN m ELSE job[d]
    BY DEF Goto, JobOK
  <1> QED BY <1>1, ExeFrame

\* The steps of an update.
LEMMA ExeUpdate ==
    ASSUME JobOK, ExeOK, NEW c \in Cmds,
           FetchUpdate(c) \/ BackupExe(c) \/ InstallExe(c) \/ Rollback(c)
    PROVE  ExeOK'
  <1> USE VersionFacts DEF Replacing
  <1>1. CASE FetchUpdate(c)
    <2>1. PICK m \in {"backup", "idle"} :
             \A d \in Cmds : job'[d] = IF d = c THEN m ELSE job[d]
      BY <1>1 DEF FetchUpdate, Goto, JobOK
    <2>2. /\ job[c] = "fetch"
          /\ UNCHANGED <<now, exe, bak, bakAt, halfUpdated, removed>>
      BY <1>1 DEF FetchUpdate, procVars, hostVars
    <2>3. ExeTypes'
      <3>1. CASE tmp' = tmp /\ Goto(c, "idle")
        BY <2>2, <3>1 DEF ExeOK, ExeTypes, Goto, JobOK
      <3>2. ASSUME NEW v \in Versions, tmp' = [tmp EXCEPT ![c] = v]
            PROVE  ExeTypes'
        BY <2>1, <2>2, <3>2 DEF ExeOK, ExeTypes
      <3> QED BY <1>1, <3>1, <3>2 DEF FetchUpdate
    <2>4. Restorable'
      BY <2>1, <2>2 DEF ExeOK, Restorable
    <2> QED BY <2>3, <2>4 DEF ExeOK
  <1>2. CASE BackupExe(c)
    <2>1. CASE /\ bakAt' = [bakAt EXCEPT ![c] = now]
               /\ bak' = IF exe = None THEN bak ELSE [bak EXCEPT ![now] = exe]
               /\ exe' = None /\ Goto(c, "install") /\ UNCHANGED tmp
      <3>1. /\ job[c] = "backup" /\ UNCHANGED <<now, halfUpdated, removed>>
            /\ \A d \in Cmds : job'[d] = IF d = c THEN "install" ELSE job[d]
        BY <1>2, <2>1 DEF BackupExe, Goto, JobOK, procVars, hostVars
      <3>2. ExeTypes'
        <4>1. bak' \in [Times -> Versions \cup {None}]
          BY <2>1 DEF ExeOK, ExeTypes
        <4>2. bakAt' \in [Cmds -> Times]
          BY <2>1 DEF ExeOK, ExeTypes
        <4> QED BY <2>1, <3>1, <4>1, <4>2 DEF ExeOK, ExeTypes
      <3>3. Restorable'
        <4>1. CASE exe = None
          <5>1. \A d \in Cmds : d # c => bakAt'[d] = bakAt[d]
            BY <2>1 DEF ExeOK, ExeTypes
          <5> QED BY <2>1, <3>1, <4>1, <5>1 DEF ExeOK, Restorable
        <4>2. CASE exe # None
          <5>1. bakAt'[c] = now /\ bak'[now] = exe
            BY <2>1, <4>2 DEF ExeOK, ExeTypes
          <5> QED BY <3>1, <4>2, <5>1 DEF Restorable
        <4> QED BY <4>1, <4>2
      <3> QED BY <3>2, <3>3 DEF ExeOK
    <2>2. CASE UNCHANGED <<exe, bak, bakAt>> /\ RemoveTmp(c) /\ Goto(c, "idle")
      <3>1. /\ job[c] = "backup" /\ UNCHANGED <<now, halfUpdated, removed>>
            /\ \A d \in Cmds : job'[d] = IF d = c THEN "idle" ELSE job[d]
            /\ tmp' = [tmp EXCEPT ![c] = None]
        BY <1>2, <2>2 DEF BackupExe, RemoveTmp, Goto, JobOK, procVars, hostVars
      <3>2. ExeTypes'
        BY <2>2, <3>1 DEF ExeOK, ExeTypes
      <3>3. Restorable'
        BY <2>2, <3>1 DEF ExeOK, Restorable
      <3> QED BY <3>2, <3>3 DEF ExeOK
    <2> QED BY <1>2, <2>1, <2>2 DEF BackupExe
  <1>3. CASE InstallExe(c)
    <2>1. /\ job[c] = "install" /\ UNCHANGED <<now, bak, bakAt, halfUpdated, removed>>
          /\ tmp' = [tmp EXCEPT ![c] = None] /\ tmp[c] \in Versions
      BY <1>3 DEF InstallExe, RemoveTmp, procVars, hostVars, ExeOK, ExeTypes
    <2>2. CASE exe' = tmp[c] /\ Goto(c, "restart")
      <3>1. \A d \in Cmds : job'[d] = IF d = c THEN "restart" ELSE job[d]
        BY <2>2 DEF Goto, JobOK
      <3> QED BY <2>1, <2>2, <3>1 DEF ExeOK, ExeTypes, Restorable
    <2>3. CASE UNCHANGED exe /\ Goto(c, "rollback")
      <3>1. \A d \in Cmds : job'[d] = IF d = c THEN "rollback" ELSE job[d]
        BY <2>3 DEF Goto, JobOK
      <3>2. ExeTypes'
        BY <2>1, <2>3, <3>1 DEF ExeOK, ExeTypes
      <3>3. Restorable'
        BY <2>1, <2>3, <3>1 DEF ExeOK, Restorable
      <3> QED BY <3>2, <3>3 DEF ExeOK
    <2> QED BY <1>3, <2>2, <2>3 DEF InstallExe
  <1>4. CASE Rollback(c)
    <2> DEFINE t == bakAt[c]
    <2>1. /\ job[c] = "rollback" /\ UNCHANGED <<now, tmp, bakAt, removed>>
          /\ \A d \in Cmds : job'[d] = IF d = c THEN "idle" ELSE job[d]
          /\ t \in Times
      BY <1>4 DEF Rollback, Goto, JobOK, hostVars, ExeOK, ExeTypes
    <2>2. CASE UNCHANGED <<exe, bak>> /\ halfUpdated' = TRUE
      BY <2>1, <2>2 DEF ExeOK, ExeTypes, Restorable
    <2>3. CASE /\ exe' = IF bak[t] = None THEN exe ELSE bak[t]
               /\ bak' = [bak EXCEPT ![t] = None] /\ UNCHANGED halfUpdated
      <3>1. ExeTypes'
        BY <2>1, <2>3 DEF ExeOK, ExeTypes
      <3>2. Restorable'
        <4>1. CASE bak[t] # None
          BY <2>3, <4>1 DEF Restorable
        <4>2. CASE bak[t] = None
          <5>1. bak' = bak
            BY <2>1, <2>3, <4>2 DEF ExeOK, ExeTypes
          <5> QED BY <2>1, <2>3, <4>2, <5>1 DEF ExeOK, Restorable
        <4> QED BY <4>1, <4>2
      <3> QED BY <3>1, <3>2 DEF ExeOK
    <2> QED BY <1>4, <2>2, <2>3 DEF Rollback
  <1> QED BY <1>1, <1>2, <1>3, <1>4

\* A death between two renames is noted, and takes the downloads with it.
LEMMA ExeDie ==
    ASSUME JobOK, ExeOK, Die, UNCHANGED removed
    PROVE  ExeOK'
  <1>1. /\ \A c \in Cmds : job'[c] = "idle"
        /\ tmp' = [c \in Cmds |-> None]
        /\ halfUpdated' = (halfUpdated \/ \E c \in Cmds : job[c] \in Replacing)
        /\ UNCHANGED <<now, exe, bak, bakAt>>
    BY DEF Die
  <1>2. halfUpdated' \in BOOLEAN
    BY <1>1
  <1>3. ExeTypes'
    BY <1>1, <1>2 DEF ExeOK, ExeTypes
  <1>4. Restorable'
    BY <1>1 DEF ExeOK, ExeTypes, Restorable
  <1> QED BY <1>3, <1>4 DEF ExeOK

\* Every step keeps ExeOK.
LEMMA ExeNext ==
    JobOK /\ Remembered /\ Started /\ ExeOK /\ [Next]_vars => ExeOK'
  <1> SUFFICES ASSUME JobOK, Remembered, Started, ExeOK, [Next]_vars
               PROVE  ExeOK'
    OBVIOUS
  <1>1. CASE UNCHANGED <<now, job, exeVars, halfUpdated, removed>>
    BY <1>1, ExeFrame
  <1>2. CASE SaveTokens \/ Boot \/ UNCHANGED vars
    BY <1>1, <1>2 DEF SaveTokens, Boot, vars, procVars, hostVars
  <1>3. CASE Tick
    <2>1. now' \in Times
      BY <1>3, AgentAssumption DEF Tick, ExeOK, ExeTypes, Times
    <2> QED BY <1>3, <2>1
        DEF Tick, ExeOK, ExeTypes, Restorable, exeVars, procVars, hostVars
  <1>4. ASSUME NEW c \in Cmds, NEW a \in Actions, NEW n \in 1 .. nodeID,
               Sign(c, a, n)
        PROVE  ExeOK'
    BY <1>1, <1>4 DEF Sign, procVars, hostVars
  <1>5. ASSUME NEW c \in Cmds, Refuse(c)
        PROVE  ExeOK'
    BY <1>1, <1>5 DEF Refuse, procVars, hostVars
  <1>6. ASSUME NEW c \in Cmds, RemoveExe(c)
        PROVE  ExeOK'
    BY <1>6 DEF RemoveExe, ExeOK, ExeTypes, Restorable, procVars
  <1>7. ASSUME NEW c \in Cmds, Accept(c)
        PROVE  ExeOK'
    BY <1>7, AcceptFacts, ExeMove DEF Accept, procVars, hostVars, Goto, Replacing
  <1>8. ASSUME NEW c \in Cmds,
               \/ Query(c) \/ PreFlightCheck(c) \/ PrePatchScript(c)
               \/ TruncateState(c) \/ WriteState(c) \/ SaveFails(c)
               \/ ApplyUpdates(c) \/ PostPatch(c) \/ ClearState(c)
        PROVE  ExeOK'
    BY <1>8, ExeMove
    DEF Query, PreFlightCheck, PrePatchScript, TruncateState, WriteState,
        SaveFails, ApplyUpdates, PostPatch, ClearState, procVars, hostVars,
        Replacing
  <1>9. ASSUME NEW c \in Cmds,
               \/ SelfDestruct(c) \/ RemoveUnit(c) \/ WipeConfig(c)
               \/ WipeState(c) \/ ScheduleRemoval(c)
        PROVE  ExeOK'
    BY <1>9, ExeMove
    DEF SelfDestruct, RemoveUnit, WipeConfig, WipeState, ScheduleRemoval,
        procVars, hostVars, Replacing
  <1>10. ASSUME NEW c \in Cmds, RestartAgent(c) \/ Exit(c)
         PROVE  ExeOK'
    BY <1>10, ExeMove, ExeDie DEF RestartAgent, Exit, procVars, hostVars, Replacing
  <1>11. CASE Crash \/ Terminate
    BY <1>11, ExeDie DEF Crash, Terminate, hostVars
  <1> QED
    BY <1>2, <1>3, <1>4, <1>5, <1>6, <1>7, <1>8, <1>9, <1>10, <1>11, ExeUpdate
    DEF Next

-----------------------------------------------------------------------------
(* Downgrades.                                                             *)

\* Starting v would not downgrade the agent.
Fine(v) == ver = Dev \/ (v # Dev /\ ~Newer(ver, v))

\* Everything that may become the binary is fine: the binary itself, the
\* downloads, the backups of updates under way, and the backup that an update
\* would take for its own if it found no binary to back up.
Upward ==
    /\ exe # None => Fine(exe)
    /\ \A c \in Cmds : job[c] \in {"backup", "install"} => Fine(tmp[c])
    /\ \A c \in Cmds :
          job[c] \in Replacing /\ bak[bakAt[c]] # None => Fine(bak[bakAt[c]])
    /\ alive /\ exe = None /\ bak[now] # None => Fine(bak[now])

UpwardOK ==
    /\ ver \in Versions
    /\ \A t \in Times : t > now => bak[t] = None
    /\ removed \/ Upward

\* A version is fine for itself, and every newer one is fine.
LEMMA FineFacts ==
    ASSUME NEW v \in Versions, NEW w \in Versions
    PROVE  /\ ~Newer(v, v)
           /\ IsNewerVersion(w, v) => v = Dev \/ (w # Dev /\ ~Newer(v, w))
  <1>1. v \in Seq(Nat) /\ w \in Seq(Nat)
    BY VersionFacts
  <1> QED BY <1>1, NewerIrreflexive, NewerAsymmetric DEF IsNewerVersion

\* Only the files of updates, the clock and the version matter to UpwardOK.
LEMMA UpwardFrame ==
    ASSUME UpwardOK, UNCHANGED <<now, exeVars, ver, removed>>, alive' => alive,
           \A c \in Cmds :
              /\ job'[c] \in Replacing => job[c] \in Replacing
              /\ job'[c] \in {"backup", "install"} => job[c] \in {"backup", "install"}
    PROVE  UpwardOK'
  <1>1. Upward => Upward'
    BY DEF Upward, Fine, exeVars
  <1> QED BY <1>1 DEF UpwardOK, exeVars

\* A goroutine that does not enter an update keeps UpwardOK.
LEMMA UpwardMove ==
    ASSUME JobOK, UpwardOK, NEW c \in Cmds, NEW m, Goto(c, m),
           UNCHANGED <<now, exeVars, procVars, removed>>,
           m \notin Replacing \cup {"backup"}
    PROVE  UpwardOK'
  <1>1. \A d \in Cmds : job'[d] = IF d = c THEN m ELSE job[d]
    BY DEF Goto, JobOK
  <1> QED BY <1>1, UpwardFrame DEF procVars, Replacing

\* The steps of an update.
LEMMA UpwardUpdate ==
    ASSUME JobOK, ExeOK, UpwardOK, NEW c \in Cmds,
           FetchUpdate(c) \/ BackupExe(c) \/ InstallExe(c) \/ Rollback(c)
    PROVE  UpwardOK'
  <1> USE VersionFacts DEF Replacing
  <1>0. ExeTypes /\ ver \in Versions /\ removed \in BOOLEAN
    BY DEF ExeOK, ExeTypes, UpwardOK
  <1>a. ver' = ver /\ now' = now /\ removed' = removed /\ alive' = alive
    BY DEF FetchUpdate, BackupExe, InstallExe, Rollback, procVars, hostVars
  <1>b. \A t \in Times : t > now' => bak'[t] = None
    <2>1. \A t \in Times : t # now /\ bak[t] = None => bak'[t] = None
      <3>1. CASE bak' = bak
        BY <3>1
      <3>2. CASE bak' = [bak EXCEPT ![now] = exe]
        BY <3>2, <1>0 DEF ExeTypes
      <3>3. CASE bak' = [bak EXCEPT ![bakAt[c]] = None]
        BY <3>3, <1>0 DEF ExeTypes
      <3> QED BY <3>1, <3>2, <3>3
          DEF FetchUpdate, BackupExe, InstallExe, Rollback
    <2>2. \A t \in Times : t > now => t # now
      BY <1>0 DEF ExeTypes, Times
    <2> QED BY <1>a, <2>1, <2>2 DEF UpwardOK
  <1> SUFFICES ASSUME Upward PROVE Upward'
    BY <1>0, <1>a, <1>b DEF UpwardOK
  <1>1. CASE FetchUpdate(c)
    <2>1. UNCHANGED <<exe, bak, bakAt>>
      BY <1>1 DEF FetchUpdate
    <2>2. CASE tmp' = tmp /\ Goto(c, "idle")
      <3>1. \A d \in Cmds : job'[d] = IF d = c THEN "idle" ELSE job[d]
        BY <2>2 DEF Goto, JobOK
      <3> QED BY <1>a, <2>1, <2>2, <3>1 DEF Upward, Fine
    <2>3. ASSUME NEW v \in Versions, IsNewerVersion(v, ver),
                 tmp' = [tmp EXCEPT ![c] = v], Goto(c, "backup")
          PROVE  Upward'
      <3>1. \A d \in Cmds : job'[d] = IF d = c THEN "backup" ELSE job[d]
        BY <2>3 DEF Goto, JobOK
      <3>2. \A d \in Cmds : tmp'[d] = IF d = c THEN v ELSE tmp[d]
        BY <1>0, <2>3 DEF ExeTypes
      <3>3. Fine(v)
        BY <1>0, <2>3, FineFacts DEF Fine
      <3> QED BY <1>a, <2>1, <3>1, <3>2, <3>3 DEF Upward, Fine
    <2> QED BY <1>1, <2>2, <2>3 DEF FetchUpdate
  <1>2. CASE BackupExe(c)
    <2>1. CASE /\ bakAt' = [bakAt EXCEPT ![c] = now]
               /\ bak' = IF exe = None THEN bak ELSE [bak EXCEPT ![now] = exe]
               /\ exe' = None /\ Goto(c, "install") /\ UNCHANGED tmp
      <3>1. job[c] = "backup" /\ alive
        BY <1>2 DEF BackupExe, JobOK
      <3>2. \A d \in Cmds : /\ job'[d] = IF d = c THEN "install" ELSE job[d]
                            /\ bakAt'[d] = IF d = c THEN now ELSE bakAt[d]
        BY <1>0, <2>1 DEF Goto, JobOK, ExeTypes
      <3>3. \A t \in Times :
               bak'[t] = IF exe # None /\ t = now THEN exe ELSE bak[t]
        BY <1>0, <2>1 DEF ExeTypes
      <3>4. now \in Times /\ \A d \in Cmds : bakAt[d] \in Times
        BY <1>0 DEF ExeTypes
      <3>5. bak'[now] # None => Fine(bak'[now])
        BY <3>1, <3>3, <3>4 DEF Upward
      <3>6. \A d \in Cmds : job'[d] \in Replacing /\ bak'[bakAt'[d]] # None
                            => Fine(bak'[bakAt'[d]])
        BY <3>2, <3>3, <3>4, <3>5 DEF Upward
      <3>7. \A d \in Cmds : job'[d] \in {"backup", "install"} => Fine(tmp'[d])
        BY <2>1, <3>1, <3>2 DEF Upward
      <3> QED BY <1>a, <2>1, <3>5, <3>6, <3>7 DEF Upward, Fine
    <2>2. CASE UNCHANGED <<exe, bak, bakAt>> /\ RemoveTmp(c) /\ Goto(c, "idle")
      <3>1. \A d \in Cmds : job'[d] = IF d = c THEN "idle" ELSE job[d]
        BY <2>2 DEF Goto, JobOK
      <3>2. \A d \in Cmds : d # c => tmp'[d] = tmp[d]
        BY <1>0, <2>2 DEF RemoveTmp, ExeTypes
      <3> QED BY <1>a, <2>2, <3>1, <3>2 DEF Upward, Fine
    <2> QED BY <1>2, <2>1, <2>2 DEF BackupExe
  <1>3. CASE InstallExe(c)
    <2>1. /\ job[c] = "install" /\ UNCHANGED <<bak, bakAt>>
          /\ \A d \in Cmds : d # c => tmp'[d] = tmp[d]
          /\ tmp[c] \in Versions
      BY <1>0, <1>3 DEF InstallExe, RemoveTmp, ExeTypes
    <2>2. CASE exe' = tmp[c] /\ Goto(c, "restart")
      <3>1. \A d \in Cmds : job'[d] = IF d = c THEN "restart" ELSE job[d]
        BY <2>2 DEF Goto, JobOK
      <3> QED BY <1>a, <2>1, <2>2, <3>1 DEF Upward, Fine
    <2>3. CASE UNCHANGED exe /\ Goto(c, "rollback")
      <3>1. \A d \in Cmds : job'[d] = IF d = c THEN "rollback" ELSE job[d]
        BY <2>3 DEF Goto, JobOK
      <3> QED BY <1>a, <2>1, <2>3, <3>1 DEF Upward, Fine
    <2> QED BY <1>3, <2>2, <2>3 DEF InstallExe
  <1>4. CASE Rollback(c)
    <2> DEFINE t == bakAt[c]
    <2>1. /\ job[c] = "rollback" /\ UNCHANGED <<tmp, bakAt>>
          /\ \A d \in Cmds : job'[d] = IF d = c THEN "idle" ELSE job[d]
          /\ t \in Times /\ now \in Times /\ \A d \in Cmds : bakAt[d] \in Times
      BY <1>0, <1>4 DEF Rollback, Goto, JobOK, ExeTypes
    <2>2. CASE UNCHANGED <<exe, bak>>
      BY <1>a, <2>1, <2>2 DEF Upward, Fine
    <2>3. CASE /\ exe' = IF bak[t] = None THEN exe ELSE bak[t]
               /\ bak' = [bak EXCEPT ![t] = None]
      <3>1. \A u \in Times : bak'[u] = IF u = t THEN None ELSE bak[u]
        BY <1>0, <2>3 DEF ExeTypes
      <3>2. exe' # None => Fine(exe')
        BY <2>1, <2>3 DEF Upward
      <3>3. exe' = None => exe = None
        BY <2>3
      <3> QED BY <1>a, <2>1, <3>1, <3>2, <3>3 DEF Upward, Fine
    <2> QED BY <1>4, <2>2, <2>3 DEF Rollback
  <1> QED BY <1>1, <1>2, <1>3, <1>4

\* Every step keeps UpwardOK, and starts nothing that is not fine.
LEMMA UpwardNext ==
    ASSUME JobOK, Remembered, Started, ExeOK, UpwardOK, [Next]_vars
    PROVE  /\ UpwardOK'
           /\ removed \/ ver = Dev \/ (ver' # Dev /\ ~Newer(ver, ver'))
  <1> USE VersionFacts
  <1> DEFINE Up == removed \/ ver = Dev \/ (ver' # Dev /\ ~Newer(ver, ver'))
  <1>0. /\ ver \in Versions /\ ~Newer(ver, ver)
        /\ ver' = ver => Up
    <2>1. ver \in Versions
      BY DEF UpwardOK
    <2> QED BY <2>1, FineFacts
  <1>1. CASE UNCHANGED <<now, job, exeVars, ver, alive, removed>>
    BY <1>0, <1>1, UpwardFrame
  <1>2. CASE SaveTokens \/ UNCHANGED vars
    BY <1>1, <1>2 DEF SaveTokens, vars, procVars, hostVars
  <1>3. CASE Tick
    <2>1. /\ now' = now + 1 /\ now < MaxNow
          /\ UNCHANGED <<job, exe, tmp, bak, bakAt, alive, ver, removed>>
      BY <1>3 DEF Tick, exeVars, procVars, hostVars
    <2>2. now \in Times /\ now' \in Times /\ now' > now
      BY <2>1, AgentAssumption DEF ExeOK, ExeTypes, Times
    <2>3. \A t \in Times : t > now' => t > now
      BY <2>1, <2>2 DEF Times
    <2>4. bak[now'] = None
      BY <2>2 DEF UpwardOK
    <2>5. Upward => Upward'
      BY <2>1, <2>4 DEF Upward, Fine
    <2> QED BY <1>0, <2>1, <2>3, <2>5 DEF UpwardOK
  <1>4. CASE Boot
    <2>1. /\ ~alive /\ exe # None /\ ver' = exe
          /\ UNCHANGED <<now, job, exe, tmp, bak, bakAt, removed>>
      BY <1>4 DEF Boot, exeVars
    <2>2. \A c \in Cmds : job[c] = "idle"
      BY <2>1 DEF JobOK
    <2>3. exe \in Versions
      BY <2>1 DEF ExeOK, ExeTypes
    <2>4. ~Newer(exe, exe)
      BY <2>3, FineFacts
    <2>5. Upward'
      BY <2>1, <2>2, <2>4 DEF Upward, Fine, Replacing
    <2>6. Up
      BY <2>1 DEF UpwardOK, Upward, Fine
    <2> QED BY <2>1, <2>3, <2>5, <2>6 DEF UpwardOK
  <1>5. ASSUME NEW c \in Cmds, NEW a \in Actions, NEW n \in 1 .. nodeID,
               Sign(c, a, n)
        PROVE  UpwardOK' /\ Up
    BY <1>1, <1>5 DEF Sign, procVars, hostVars
  <1>6. ASSUME NEW c \in Cmds, Refuse(c)
        PROVE  UpwardOK' /\ Up
    BY <1>1, <1>6 DEF Refuse, procVars, hostVars
  <1>7. ASSUME NEW c \in Cmds, RemoveExe(c)
        PROVE  UpwardOK' /\ Up
    BY <1>0, <1>7 DEF RemoveExe, procVars, UpwardOK
  <1>8. ASSUME NEW c \in Cmds, Accept(c)
        PROVE  UpwardOK' /\ Up
    BY <1>0, <1>8, AcceptFacts, UpwardMove
    DEF Accept, procVars, hostVars, Goto, Replacing
  <1>9. ASSUME NEW c \in Cmds,
               \/ Query(c) \/ PreFlightCheck(c) \/ PrePatchScript(c)
               \/ TruncateState(c) \/ WriteState(c) \/ SaveFails(c)
               \/ ApplyUpdates(c) \/ PostPatch(c) \/ ClearState(c)
        PROVE  UpwardOK' /\ Up
    BY <1>0, <1>9, UpwardMove
    DEF Query, PreFlightCheck, PrePatchScript, TruncateState, WriteState,
        SaveFails, ApplyUpdates, PostPatch, ClearState, procVars, hostVars,
        Replacing
  <1>10. ASSUME NEW c \in Cmds,
                \/ SelfDestruct(c) \/ RemoveUnit(c) \/ WipeConfig(c)
                \/ WipeState(c) \/ ScheduleRemoval(c)
         PROVE  UpwardOK' /\ Up
    BY <1>0, <1>10, UpwardMove
    DEF SelfDestruct, RemoveUnit, WipeConfig, WipeState, ScheduleRemoval,
        procVars, hostVars, Replacing
  <1>11. ASSUME Die, UNCHANGED removed
         PROVE  UpwardOK' /\ Up
    <2>1. /\ \A c \in Cmds : job'[c] = "idle"
          /\ alive' = FALSE /\ UNCHANGED <<now, exe, bak, bakAt, ver>>
      BY <1>11 DEF Die
    <2>2. Upward => Upward'
      BY <2>1 DEF Upward, Fine, Replacing
    <2> QED BY <1>0, <1>11, <2>1, <2>2 DEF UpwardOK
  <1>12. ASSUME NEW c \in Cmds, RestartAgent(c) \/ Exit(c)
         PROVE  UpwardOK' /\ Up
    BY <1>0, <1>11, <1>12, UpwardMove
    DEF RestartAgent, Exit, procVars, hostVars, Replacing
  <1>13. CASE Crash \/ Terminate
    BY <1>11, <1>13 DEF Crash, Terminate, hostVars
  <1>14. ASSUME NEW c \in Cmds,
                FetchUpdate(c) \/ BackupExe(c) \/ InstallExe(c) \/ Rollback(c)
         PROVE  UpwardOK' /\ Up
    <2>1. ver' = ver
      BY <1>14 DEF FetchUpdate, BackupExe, InstallExe, Rollback, procVars
    <2> QED BY <1>0, <1>14, <2>1, UpwardUpdate
  <1> QED
    BY <1>2, <1>3, <1>4, <1>5, <1>6, <1>7, <1>8, <1>9, <1>10, <1>12, <1>13, <1>14
    DEF Next

-----------------------------------------------------------------------------
(* The binary and its backups.                                             *)

\* An update moves binaries around, and loses none but the one it replaces.
LEMMA DiskUpdate ==
    ASSUME ExeOK, BinaryOnDisk, NEW c \in Cmds,
           BackupExe(c) \/ InstallExe(c) \/ Rollback(c)
    PROVE  BinaryOnDisk'
  <1>0. /\ now \in Times /\ bak \in [Times -> Versions \cup {None}]
        /\ removed' = removed /\ bakAt[c] \in Times
    BY DEF ExeOK, ExeTypes, BackupExe, InstallExe, Rollback, hostVars
  <1>a. BinaryOnDisk <=> (exe = None /\ ~removed => \E t \in Times : bak[t] # None)
    BY DEF BinaryOnDisk, Times
  <1>b. BinaryOnDisk' <=>
            (exe' = None /\ ~removed' => \E t \in Times : bak'[t] # None)
    BY DEF BinaryOnDisk, Times
  <1>1. CASE UNCHANGED <<exe, bak>>
    BY <1>0, <1>1, <1>a, <1>b
  <1>2. CASE BackupExe(c)
    <2>1. CASE exe # None /\ bak' = [bak EXCEPT ![now] = exe]
      <3>1. bak'[now] # None
        BY <1>0, <2>1
      <3> QED BY <1>0, <1>b, <3>1
    <2>2. CASE exe = None /\ bak' = bak
      BY <1>0, <1>a, <1>b, <2>2
    <2> QED BY <1>1, <1>2, <2>1, <2>2 DEF BackupExe
  <1>3. CASE InstallExe(c)
    <2>1. tmp[c] # None
      BY <1>3, VersionFacts DEF InstallExe, ExeOK, ExeTypes
    <2>2. CASE exe' = tmp[c]
      BY <1>b, <2>1, <2>2
    <2> QED BY <1>1, <1>3, <2>2 DEF InstallExe
  <1>4. CASE Rollback(c)
    <2> DEFINE t == bakAt[c]
    <2>1. CASE /\ exe' = IF bak[t] = None THEN exe ELSE bak[t]
               /\ bak' = [bak EXCEPT ![t] = None]
      <3>1. CASE bak[t] # None
        BY <1>b, <2>1, <3>1
      <3>2. CASE bak[t] = None
        <4>1. bak' = bak
          BY <1>0, <2>1, <3>2
        <4> QED BY <1>0, <1>a, <1>b, <2>1, <3>2, <4>1
      <3> QED BY <3>1, <3>2
    <2> QED BY <1>1, <1>4, <2>1 DEF Rollback
  <1> QED BY <1>2, <1>3, <1>4

\* No step leaves the disk without a binary but the removal by SelfDestruct.
LEMMA DiskNext ==
    ASSUME ExeOK, BinaryOnDisk, [Next]_vars
    PROVE  BinaryOnDisk'
  <1>1. CASE UNCHANGED <<exe, bak, removed>>
    BY <1>1 DEF BinaryOnDisk
  <1>2. ASSUME NEW c \in Cmds, BackupExe(c) \/ InstallExe(c) \/ Rollback(c)
        PROVE  BinaryOnDisk'
    BY <1>2, DiskUpdate
  <1>3. ASSUME NEW c \in Cmds, RemoveExe(c)
        PROVE  BinaryOnDisk'
    BY <1>3 DEF RemoveExe, BinaryOnDisk
  <1>4. CASE Tick \/ Crash \/ Terminate \/ Boot \/ SaveTokens \/ UNCHANGED vars
    BY <1>1, <1>4
    DEF Tick, Crash, Terminate, Boot, SaveTokens, Die, vars, exeVars, hostVars
  <1>5. ASSUME NEW c \in Cmds, NEW a \in Actions, NEW n \in 1 .. nodeID,
               Sign(c, a, n)
        PROVE  BinaryOnDisk'
    BY <1>1, <1>5 DEF Sign, exeVars, hostVars
  <1>6. ASSUME NEW c \in Cmds,
               \/ Accept(c) \/ Refuse(c) \/ Query(c) \/ PreFlightCheck(c)
               \/ PrePatchScript(c) \/ TruncateState(c) \/ WriteState(c)
               \/ SaveFails(c) \/ ApplyUpdates(c) \/ PostPatch(c)
               \/ ClearState(c) \/ FetchUpdate(c)
        PROVE  BinaryOnDisk'
    BY <1>1, <1>6
    DEF Accept, Refuse, Query, PreFlightCheck, PrePatchScript, TruncateState,
        WriteState, SaveFails, ApplyUpdates, PostPatch, ClearState, FetchUpdate,
        exeVars, hostVars
  <1>7. ASSUME NEW c \in Cmds,
               \/ RestartAgent(c) \/ Exit(c) \/ SelfDestruct(c) \/ RemoveUnit(c)
               \/ WipeConfig(c) \/ WipeState(c) \/ ScheduleRemoval(c)
        PROVE  BinaryOnDisk'
    BY <1>1, <1>7
    DEF RestartAgent, Exit, SelfDestruct, RemoveUnit, WipeConfig, WipeState,
        ScheduleRemoval, Die, exeVars, hostVars
  <1> QED BY <1>2, <1>3, <1>4, <1>5, <1>6, <1>7 DEF Next

-----------------------------------------------------------------------------
(* Theorems.                                                               *)

\* The inductive invariant.
IInv ==
    /\ JobOK /\ Remembered /\ ReplaysRejected /\ Started /\ Addressed
    /\ FileOK /\ Wiped /\ ExeOK /\ UpwardOK

\* It holds when the agent is installed.
LEMMA IInvInit == Init => IInv
  <1> SUFFICES ASSUME Init PROVE IInv
    OBVIOUS
  <1> USE AgentAssumption DEF Init
  <1>1. JobOK /\ Started /\ Addressed
    BY DEF JobOK, JobPoints, Actions, Started, Addressed
  <1>2. Remembered /\ ReplaysRejected
    BY DEF Remembered, ReplaysRejected
  <1>3. FileOK
    BY DEF FileOK, Shared, StateShowsJob, NoPhantom, Owners, Recording
  <1>4. Wiped
    BY DEF Wiped
  <1>5. ver \in Versions /\ exe = ver /\ None \notin Versions
    BY VersionFacts
  <1>6. ExeOK
    <2>1. ExeTypes
      <3>1. now \in Times /\ bakAt \in [Cmds -> Times]
        BY DEF Times
      <3>2. bak = [t \in Times |-> None]
        BY DEF Times
      <3> QED BY <1>5, <3>1, <3>2 DEF ExeTypes
    <2>2. Restorable
      BY <1>5 DEF Restorable
    <2> QED BY <2>1, <2>2 DEF ExeOK
  <1>7. ~Newer(ver, ver)
    BY <1>5, FineFacts
  <1>8. UpwardOK
    BY <1>7 DEF UpwardOK, Upward, Fine, Replacing, Times
  <1> QED BY <1>1, <1>2, <1>3, <1>4, <1>6, <1>8 DEF IInv

\* Every step keeps it.
LEMMA IInvNext == IInv /\ [Next]_vars => IInv'
  BY JobNext, ReplayNext, StartedNext, AddressedNext, FileNext, WipedNext,
     ExeNext, UpwardNext
  DEF IInv

\* It is an invariant.
LEMMA IInvCorrect == Spec => []IInv
  BY IInvInit, IInvNext, PTL DEF Spec

\* verifyCommand: one process starts a signed command at most once, for any
\* number of commands and replays, and although expired entries are dropped.
THEOREM ReplayCorrect == Spec => []ReplaysRejected
  <1>1. IInv => ReplaysRejected
    BY DEF IInv
  <1> QED BY <1>1, IInvCorrect, PTL

\* verifyCommand and GetOrGenerate: every command runs under the identity it
\* was signed for, whatever identities the agent has had before.
THEOREM AddressCorrect == Spec => []OnlyAddressed
  <1>1. IInv => OnlyAddressed
    BY DEF IInv, Addressed, OnlyAddressed
  <1> QED BY <1>1, IInvCorrect, PTL

\* SaveState: the state file names every job that applies updates and shares
\* the file with no other.
THEOREM StateFileCorrect == Spec => []StateShowsJob
  <1>1. IInv => StateShowsJob
    BY DEF IInv, FileOK
  <1> QED BY <1>1, IInvCorrect, PTL

\* ClearState: a job the state file names is running or was interrupted.
THEOREM PhantomCorrect == Spec => []NoPhantom
  <1>1. IInv => NoPhantom
    BY DEF IInv, FileOK
  <1> QED BY <1>1, IInvCorrect, PTL

\* updateAgent: however many updates interleave, the binary is missing only
\* between the renames of one, or after a death or a failure there.
THEOREM ExeCorrect == Spec => []ExeKept
  <1>1. IInv => ExeKept
    BY DEF IInv, ExeOK, Restorable, ExeKept
  <1> QED BY <1>1, IInvCorrect, PTL

\* updateAgent: wherever the agent dies and whichever renames fail, a binary is
\* at the agent's path or under a backup's name until SelfDestruct removes it.
THEOREM DiskCorrect == Spec => []BinaryOnDisk
  <1>1. Init => BinaryOnDisk
    BY VersionFacts DEF Init, BinaryOnDisk
  <1>2. IInv /\ BinaryOnDisk /\ [Next]_vars => BinaryOnDisk'
    BY DiskNext DEF IInv
  <1> QED BY <1>1, <1>2, IInvCorrect, PTL DEF Spec

\* SelfDestruct: no removal of the binary leaves the configuration behind
\* that it could have removed.
THEOREM WipeCorrect == Spec => []WipedBeforeRemoved
  <1>1. IInv => WipedBeforeRemoved
    BY DEF IInv, Wiped, WipedBeforeRemoved
  <1> QED BY <1>1, IInvCorrect, PTL

\* updateAgent, isNewerVersion and the rollback: for releases with any version
\* numbers no start runs an older agent than the last one.
THEOREM UpwardCorrect == Spec => NeverDowngraded
  <1>1. IInv /\ [Next]_vars
        => [removed \/ ver = Dev \/ (ver' # Dev /\ ~Newer(ver, ver'))]_vars
    BY UpwardNext DEF IInv
  <1> QED BY <1>1, IInvCorrect, PTL DEF Spec, NeverDowngraded

-----------------------------------------------------------------------------
(* Types.                                                                  *)

\* What the other parts of the invariant leave open: the state file, the
\* history, the identity and what is installed.
HostTypes ==
    /\ alive \in BOOLEAN
    /\ stateFile \in Cmds \cup {None, Torn}
    /\ crashes \in Nat
    /\ interrupted \in SUBSET Cmds /\ excused \in SUBSET Cmds
    /\ nodeID \in Nat \ {0} /\ addressee \in [Cmds -> 0 .. nodeID]
    /\ config \subseteq {"node_id", "tokens"}
    /\ unit \in BOOLEAN /\ service \in BOOLEAN
    /\ pending \subseteq Cmds

\* Every step keeps that.
LEMMA HostNext == HostTypes /\ [Next]_vars => HostTypes'
  <1> SUFFICES ASSUME HostTypes, [Next]_vars PROVE HostTypes'
    OBVIOUS
  <1> USE AgentAssumption DEF HostTypes, cmdVars, fileVars, exeVars, procVars, hostVars
  <1>1. CASE Tick \/ SaveTokens \/ UNCHANGED vars
    BY <1>1 DEF Tick, SaveTokens, vars
  <1>2. CASE Boot
    <2>1. CASE UNCHANGED <<nodeID, config>>
      BY <1>2, <2>1 DEF Boot
    <2>2. CASE nodeID' = nodeID + 1 /\ config' = config \cup {"node_id"}
      BY <1>2, <2>2 DEF Boot
    <2> QED BY <1>2, <2>1, <2>2 DEF Boot, GetOrGenerate
  <1>3. ASSUME Die
        PROVE  /\ alive' \in BOOLEAN /\ interrupted' \in SUBSET Cmds
               /\ UNCHANGED <<stateFile, excused, addressee>>
    BY <1>3 DEF Die, Owners
  <1>4. CASE Crash \/ Terminate
    BY <1>3, <1>4 DEF Crash, Terminate
  <1>5. ASSUME NEW c \in Cmds, NEW a \in Actions, NEW n \in 1 .. nodeID,
               Sign(c, a, n)
        PROVE  HostTypes'
    BY <1>5 DEF Sign
  <1>6. ASSUME NEW c \in Cmds, RestartAgent(c) \/ Exit(c)
        PROVE  HostTypes'
    BY <1>3, <1>6 DEF RestartAgent, Exit
  <1>7. ASSUME NEW c \in Cmds,
               \/ Accept(c) \/ Refuse(c) \/ Query(c) \/ PreFlightCheck(c)
               \/ PrePatchScript(c) \/ ApplyUpdates(c) \/ PostPatch(c)
               \/ FetchUpdate(c) \/ BackupExe(c) \/ InstallExe(c) \/ Rollback(c)
        PROVE  HostTypes'
    <2>1. UNCHANGED <<alive, stateFile, crashes, interrupted, excused, addressee,
                      nodeID, config, unit, service, pending>>
      BY <1>7
      DEF Accept, Refuse, Query, PreFlightCheck, PrePatchScript, ApplyUpdates,
          PostPatch, FetchUpdate, BackupExe, InstallExe, Rollback
    <2> QED BY <2>1
  <1>8. ASSUME NEW c \in Cmds,
               TruncateState(c) \/ WriteState(c) \/ SaveFails(c) \/ ClearState(c)
                 \/ WipeState(c)
        PROVE  HostTypes'
    <2>1. UNCHANGED <<alive, crashes, interrupted, addressee, hostVars>>
      BY <1>8 DEF TruncateState, WriteState, SaveFails, ClearState, WipeState
    <2>2. stateFile' \in Cmds \cup {None, Torn} /\ excused' \subseteq Cmds
      BY <1>8 DEF TruncateState, WriteState, SaveFails, ClearState, WipeState, Owners
    <2> QED BY <2>1, <2>2
  <1>9. ASSUME NEW c \in Cmds,
               SelfDestruct(c) \/ RemoveUnit(c) \/ WipeConfig(c)
                 \/ ScheduleRemoval(c) \/ RemoveExe(c)
        PROVE  HostTypes'
    BY <1>9 DEF SelfDestruct, RemoveUnit, WipeConfig, ScheduleRemoval, RemoveExe
  <1> QED BY <1>1, <1>2, <1>4, <1>5, <1>6, <1>7, <1>8, <1>9 DEF Next

\* Types: only a running agent has goroutines, it remembers signed commands
\* only, and no command is addressed to an identity that was never made up.
THEOREM JobsTypeCorrect == Spec => []TypeOK
  <1>1. Init => HostTypes
    BY DEF Init, HostTypes
  <1>2. IInv /\ HostTypes => TypeOK
    BY DEF IInv, HostTypes, JobOK, Remembered, ExeOK, ExeTypes, UpwardOK, Wiped,
       Times, TypeOK
  <1> QED BY <1>1, <1>2, HostNext, IInvCorrect, PTL DEF Spec
=============================================================================
