----------------------------- MODULE AgentJobs -----------------------------
(***************************************************************************)
(* What an agent does with the commands it receives: verifyCommand, the    *)
(* goroutines of executeCommand, the state file that tells a restarted     *)
(* agent of an interrupted job (agent/internal/state), the self-update     *)
(* that replaces the agent's own binary, SelfDestruct, which uninstalls    *)
(* the agent, the identity the agent makes up when it finds none, and the  *)
(* watchdog that starts the binary again (agent/watchdog).                 *)
(*                                                                         *)
(* The agent has a COMMAND_PUB_KEY, as it must have for commands           *)
(* to be verified at all.  Every accepted command runs in a goroutine of   *)
(* its own, so commands run side by side; the agent may die between any    *)
(* two steps.                                                              *)
(***************************************************************************)
EXTENDS Naturals, Sequences

CONSTANTS
    Cmds,       \* signed commands for this node
    Torn,       \* a state file that was truncated and not yet written
    None,
    Lifetime,   \* CommandLifetime (15 min)
    Releases,   \* the versions of signed releases, sequences of numbers
    MaxNow,     \* bound: the clock stops here
    MaxCrashes  \* bound: how often the agent dies

ASSUME AgentAssumption ==
    /\ None \notin Cmds \cup Nat /\ Torn \notin Cmds \cup {None}
    /\ Lifetime \in Nat \ {0}
    /\ Releases \subseteq Seq(Nat) \ {<<>>} /\ None \notin Seq(Nat)
    /\ MaxNow \in Nat /\ MaxCrashes \in Nat

VARIABLES
    now,         \* the clock
    action,      \* action[c]: the action of a signed command
    expiresAt,   \* expiresAt[c]: ExpiresAt of the signed command, or None
    alive,       \* whether the agent process runs
    seen,        \* seenCommands
    starts,      \* starts[c]: how often this process started c
    job,         \* job[c]: where the goroutine of c is, "idle" without one
    stateFile,   \* the job in the state file, None without a file, or Torn
    ver,         \* version of the agent that runs or ran last
    exe,         \* version of the binary at the agent's path, None if missing
    tmp,         \* tmp[c]: the verified download of update c, None if none
    bak,         \* bak[t]: backup named after second t, None if none
    bakAt,       \* bakAt[c]: the second update c named its backup after
    crashes,     \* how often the agent has died
    interrupted, \* history: jobs that were running when the agent died
    excused,     \* history: jobs that shared the state file or could not use it
    halfUpdated, \* history: the agent died between an update's two renames
    nodeID,      \* the identity the agent made up last, and runs under
    addressee,   \* addressee[c]: NodeID of the signed command
    config,      \* what /etc/patchli holds: "node_id", "tokens"
    unit,        \* whether the service's unit file is installed
    service,     \* whether the service manager or watchdog starts the agent
    pending,     \* SelfDestructs whose detached rm of the binary is to come
    removed,     \* history: such an rm has removed the binary
    kept         \* history: configuration that survived SelfDestruct's wipe

cmdVars == <<action, expiresAt, addressee, seen, starts>>
fileVars == <<stateFile, excused>>
exeVars == <<exe, tmp, bak, bakAt>>
procVars == <<alive, ver, crashes, interrupted, halfUpdated>>
hostVars == <<nodeID, config, unit, service, pending, removed, kept>>
vars == <<now, cmdVars, job, fileVars, exeVars, procVars, hostVars>>

\* "query" stands for the actions that only run a tool and log its result.
Actions ==
    {"apply_updates", "update_agent", "self_destruct", "chaos_restart", "query"}

\* A development build has a version parseVersion cannot read.
Dev == <<>>

Versions == Releases \cup {Dev}

Goto(c, l) == job' = [job EXCEPT ![c] = l]

\* From SaveState to the deferred ClearState.
Recording == {"write", "apply", "check", "clear"}

Owners == {c \in Cmds : job[c] \in Recording}

\* Between the renames of a self-update.
Replacing == {"install", "rollback"}

Init ==
    /\ now = 0
    /\ action = [c \in Cmds |-> "query"]
    /\ expiresAt = [c \in Cmds |-> None]
    /\ alive = TRUE
    /\ seen = {}
    /\ starts = [c \in Cmds |-> 0]
    /\ job = [c \in Cmds |-> "idle"]
    /\ stateFile = None
    /\ ver \in Versions /\ exe = ver
    /\ tmp = [c \in Cmds |-> None]
    /\ bak = [t \in 0 .. MaxNow |-> None]
    /\ bakAt = [c \in Cmds |-> 0]
    /\ crashes = 0
    /\ interrupted = {} /\ excused = {} /\ halfUpdated = FALSE
    /\ nodeID = 1 /\ config = {"node_id", "tokens"}
    /\ addressee = [c \in Cmds |-> 0]
    /\ unit \in BOOLEAN
    /\ service = TRUE /\ pending = {} /\ removed = FALSE /\ kept = FALSE

Tick ==
    /\ now < MaxNow
    /\ now' = now + 1
    /\ UNCHANGED <<cmdVars, job, fileVars, exeVars, procVars, hostVars>>

-----------------------------------------------------------------------------
(* Commands.                                                               *)

\* The server signs and sends a command (cmdsign.Sign) to a node it knows.
Sign(c, a, n) ==
    /\ expiresAt[c] = None
    /\ action' = [action EXCEPT ![c] = a]
    /\ expiresAt' = [expiresAt EXCEPT ![c] = now + Lifetime]
    /\ addressee' = [addressee EXCEPT ![c] = n]
    /\ UNCHANGED <<now, seen, starts, job, fileVars, exeVars, procVars,
                   hostVars>>

Expired(c) == now >= expiresAt[c]

\* Mutant: a command is forgotten in its last second.
PrunedEarly(s) == {c \in s : now + 1 < expiresAt[c]}

\* verifyCommand drops the expired entries of seenCommands.
Pruned(s) == {c \in s : ~Expired(c)}

Entry(c) ==
    CASE action[c] = "apply_updates" -> "preflight"
      [] action[c] = "update_agent" -> "fetch"
      [] action[c] = "self_destruct" -> "destruct"
      [] action[c] = "chaos_restart" -> "exit"
      [] action[c] = "query" -> "query"

\* Mutant: a command for any node is accepted.
ValidAnywhere(c) == expiresAt[c] # None /\ ~Expired(c)

\* The checks of a command's node and time; only signed commands pass those
\* of its signature.
Valid(c) ==
    expiresAt[c] # None /\ addressee[c] = nodeID /\ ~Expired(c)

\* A command arrives, for the first time or again, and verifyCommand accepts
\* it: it is for this node, not expired and not among the seen ones.
Accept(c) ==
    /\ alive /\ Valid(c)
    /\ c \notin Pruned(seen)
    /\ seen' = Pruned(seen) \cup {c}
    /\ starts' = [starts EXCEPT ![c] = @ + 1]
    /\ Goto(c, Entry(c))
    /\ UNCHANGED <<now, action, expiresAt, addressee, fileVars, exeVars, procVars,
                   hostVars>>

\* A replay is refused, after the pruning; an expired command, or one for
\* another node, before it.
Refuse(c) ==
    /\ alive /\ Valid(c)
    /\ c \in Pruned(seen)
    /\ seen' = Pruned(seen)
    /\ UNCHANGED <<now, action, expiresAt, addressee, starts, job, fileVars,
                   exeVars, procVars, hostVars>>

Query(c) ==
    /\ job[c] = "query"
    /\ Goto(c, "idle")
    /\ UNCHANGED <<now, cmdVars, fileVars, exeVars, procVars, hostVars>>

-----------------------------------------------------------------------------
(* apply_updates.                                                          *)

\* PreFlightCheck refuses while a package manager runs, and for want of disk
\* space.
PreFlightCheck(c) ==
    /\ job[c] = "preflight"
    /\ \/ (\A d \in Cmds : job[d] # "apply") /\ Goto(c, "script")
       \/ Goto(c, "idle")
    /\ UNCHANGED <<now, cmdVars, fileVars, exeVars, procVars, hostVars>>

\* Mutant: the updates are applied without recording the job first.
PrePatchScriptUnsaved(c) ==
    /\ job[c] = "script"
    /\ Goto(c, "apply") \/ Goto(c, "idle")
    /\ UNCHANGED <<now, cmdVars, fileVars, exeVars, procVars, hostVars>>

\* The pre-patch script; if it fails the job ends.
PrePatchScript(c) ==
    /\ job[c] = "script"
    /\ Goto(c, "save") \/ Goto(c, "idle")
    /\ UNCHANGED <<now, cmdVars, fileVars, exeVars, procVars, hostVars>>

\* SaveState truncates the file ...
TruncateState(c) ==
    /\ job[c] = "save"
    /\ stateFile' = Torn
    /\ excused' = IF Owners = {} THEN excused ELSE excused \cup Owners \cup {c}
    /\ Goto(c, "write")
    /\ UNCHANGED <<now, cmdVars, exeVars, procVars, hostVars>>

\* ... and writes it.
WriteState(c) ==
    /\ job[c] = "write"
    /\ stateFile' = c
    /\ Goto(c, "apply")
    /\ UNCHANGED <<now, cmdVars, excused, exeVars, procVars, hostVars>>

\* SaveState fails, before or after truncating; the job goes on.
SaveFails(c) ==
    /\ job[c] \in {"save", "write"}
    /\ excused' = excused \cup Owners \cup {c}
    /\ Goto(c, "apply")
    /\ UNCHANGED <<now, cmdVars, stateFile, exeVars, procVars, hostVars>>

\* ApplyUpdates; its failure skips the post-patch script and health check.
ApplyUpdates(c) ==
    /\ job[c] = "apply"
    /\ Goto(c, "check") \/ Goto(c, "clear")
    /\ UNCHANGED <<now, cmdVars, fileVars, exeVars, procVars, hostVars>>

\* Post-patch script and health check; success or not, the job then ends.
PostPatch(c) ==
    /\ job[c] = "check"
    /\ Goto(c, "clear")
    /\ UNCHANGED <<now, cmdVars, fileVars, exeVars, procVars, hostVars>>

\* Mutant: the job ends without clearing its state.
ClearStateSkipped(c) ==
    /\ job[c] = "clear"
    /\ Goto(c, "idle")
    /\ UNCHANGED <<now, cmdVars, fileVars, exeVars, procVars, hostVars>>

\* The deferred ClearState removes the file, whoever wrote it, or fails.
ClearState(c) ==
    /\ job[c] = "clear"
    /\ \/ stateFile' = None /\ UNCHANGED excused
       \/ excused' = excused \cup {c} /\ UNCHANGED stateFile
    /\ Goto(c, "idle")
    /\ UNCHANGED <<now, cmdVars, exeVars, procVars, hostVars>>
-----------------------------------------------------------------------------
(* update_agent.                                                           *)

\* Component i of a version; a component that is not there is 0.
Part(v, i) == IF i \in 1 .. Len(v) THEN v[i] ELSE 0

\* Version v is newer than w in the first component in which they differ.
Newer(v, w) ==
    \E i \in 1 .. Len(v) + Len(w) :
        /\ Part(v, i) > Part(w, i)
        /\ \A j \in 1 .. i - 1 : Part(v, j) = Part(w, j)

\* Mutant: the versions are compared in one component at a time.
NewerSomewhere(v, w) ==
    v # Dev /\ \E i \in 1 .. Len(v) : Part(v, i) >= Part(w, i)

\* isNewerVersion: a version that cannot be read is never newer, and
\* everything else is newer than it.
IsNewerVersion(v, w) == v # Dev /\ (w = Dev \/ Newer(v, w))

\* Manifest, signature, download and hash; any failure ends the job.
FetchUpdate(c) ==
    /\ job[c] = "fetch"
    /\ \/ \E v \in Versions :
             /\ IsNewerVersion(v, ver)
             /\ tmp' = [tmp EXCEPT ![c] = v]
             /\ Goto(c, "backup")
       \/ UNCHANGED tmp /\ Goto(c, "idle")
    /\ UNCHANGED <<now, cmdVars, fileVars, exe, bak, bakAt, procVars,
                   hostVars>>

\* The download is moved into place, or removed when the job ends.
RemoveTmp(c) == tmp' = [tmp EXCEPT ![c] = None]

\* Rename the binary to a backup named after the second; a missing binary is
\* no error, any other failure ends the job.
BackupExe(c) ==
    /\ job[c] = "backup"
    /\ \/ /\ bakAt' = [bakAt EXCEPT ![c] = now]
          /\ bak' = IF exe = None THEN bak ELSE [bak EXCEPT ![now] = exe]
          /\ exe' = None
          /\ Goto(c, "install")
          /\ UNCHANGED tmp
       \/ UNCHANGED <<exe, bak, bakAt>> /\ RemoveTmp(c) /\ Goto(c, "idle")
    /\ UNCHANGED <<now, cmdVars, fileVars, procVars, hostVars>>

\* Mutant: no rollback when the second rename fails.
InstallExeOnly(c) ==
    /\ job[c] = "install"
    /\ \/ exe' = tmp[c] /\ Goto(c, "restart")
       \/ UNCHANGED exe /\ Goto(c, "idle")
    /\ RemoveTmp(c)
    /\ UNCHANGED <<now, cmdVars, fileVars, bak, bakAt, procVars, hostVars>>

\* Rename the download to the binary, or fail and roll back.
InstallExe(c) ==
    /\ job[c] = "install"
    /\ \/ exe' = tmp[c] /\ Goto(c, "restart")
       \/ UNCHANGED exe /\ Goto(c, "rollback")
    /\ RemoveTmp(c)
    /\ UNCHANGED <<now, cmdVars, fileVars, bak, bakAt, procVars, hostVars>>

\* Mutant: the backup is removed although its rename may have failed.
RollbackCleaningUp(c) ==
    LET t == bakAt[c] IN
    /\ job[c] = "rollback"
    /\ \/ exe' = (IF bak[t] = None THEN exe ELSE bak[t]) /\ UNCHANGED halfUpdated
       \/ UNCHANGED exe /\ halfUpdated' = TRUE
    /\ bak' = [bak EXCEPT ![t] = None]
    /\ Goto(c, "idle")
    /\ UNCHANGED <<now, cmdVars, fileVars, tmp, bakAt, alive, ver, crashes,
                   interrupted, hostVars>>

\* Rename the backup, if there is one by that name, to the binary; an error
\* of the rename itself is ignored.
Rollback(c) ==
    LET t == bakAt[c] IN
    /\ job[c] = "rollback"
    /\ \/ /\ exe' = IF bak[t] = None THEN exe ELSE bak[t]
          /\ bak' = [bak EXCEPT ![t] = None]
          /\ UNCHANGED halfUpdated
       \/ UNCHANGED <<exe, bak>> /\ halfUpdated' = TRUE
    /\ Goto(c, "idle")
    /\ UNCHANGED <<now, cmdVars, fileVars, tmp, bakAt, alive, ver, crashes,
                   interrupted, hostVars>>

-----------------------------------------------------------------------------
(* self_destruct.                                                          *)

Destroying == {"unit", "wipe", "purge", "schedule"}

\* Mutant: the binary is dealt with first.
SelfDestructBinaryFirst(c) ==
    /\ job[c] = "destruct"
    /\ Goto(c, "schedule")
    /\ UNCHANGED <<now, cmdVars, fileVars, exeVars, procVars, hostVars>>

\* SelfDestruct needs root.  Where there is a unit file it stops the service,
\* which is this very process unless something else started it.
SelfDestruct(c) ==
    /\ job[c] = "destruct"
    /\ \/ Goto(c, "idle") /\ UNCHANGED service
       \/ ~unit /\ Goto(c, "wipe") /\ UNCHANGED service
       \/ unit /\ Goto(c, "unit") /\ service' \in {FALSE, service}
    /\ UNCHANGED <<now, cmdVars, fileVars, exeVars, procVars, nodeID, config, unit,
                   pending, removed, kept>>

\* Disable the service and remove its unit file, or fail to.
RemoveUnit(c) ==
    /\ job[c] = "unit"
    /\ unit' \in {FALSE, unit}
    /\ Goto(c, "wipe")
    /\ UNCHANGED <<now, cmdVars, fileVars, exeVars, procVars, nodeID, config,
                   service, pending, removed, kept>>

\* Remove /etc/patchli, or fail to.
WipeConfig(c) ==
    /\ job[c] = "wipe"
    /\ \/ config' = {} /\ UNCHANGED kept
       \/ kept' = TRUE /\ UNCHANGED config
    /\ Goto(c, "purge")
    /\ UNCHANGED <<now, cmdVars, fileVars, exeVars, procVars, nodeID, unit,
                   service, pending, removed>>

\* Remove /var/lib/patchli and with it the state file, or fail to.
WipeState(c) ==
    /\ job[c] = "purge"
    /\ \/ stateFile' = None /\ excused' = excused \cup Owners
       \/ UNCHANGED fileVars
    /\ Goto(c, "schedule")
    /\ UNCHANGED <<now, cmdVars, exeVars, procVars, hostVars>>

\* Start the detached process that removes the binary two seconds later.
ScheduleRemoval(c) ==
    /\ job[c] = "schedule"
    /\ pending' \in {pending, pending \cup {c}}
    /\ Goto(c, "idle")
    /\ UNCHANGED <<now, cmdVars, fileVars, exeVars, procVars, nodeID, config, unit,
                   service, removed, kept>>

\* That process outlives the agent and removes whatever is at the path then.
RemoveExe(c) ==
    /\ c \in pending
    /\ pending' = pending \ {c}
    /\ removed' = TRUE
    /\ exe' = None
    /\ UNCHANGED <<now, cmdVars, job, fileVars, tmp, bak, bakAt, procVars, nodeID,
                   config, unit, service, kept>>

\* The agent runs on where no service was stopped; when it refreshes its
\* tokens, saveTokens makes the directory again.
SaveTokens ==
    /\ alive /\ "tokens" \notin config
    /\ config' = config \cup {"tokens"}
    /\ kept' = TRUE
    /\ UNCHANGED <<now, cmdVars, job, fileVars, exeVars, procVars, nodeID, unit,
                   service, pending, removed>>

-----------------------------------------------------------------------------
(* The process.                                                            *)

\* The process ends, and with it every goroutine and seenCommands.
Die ==
    /\ alive' = FALSE
    /\ seen' = {}
    /\ starts' = [c \in Cmds |-> 0]
    /\ job' = [c \in Cmds |-> "idle"]
    /\ tmp' = [c \in Cmds |-> None]
    /\ interrupted' = interrupted \cup Owners
    /\ halfUpdated' = (halfUpdated \/ \E c \in Cmds : job[c] \in Replacing)
    /\ UNCHANGED <<now, action, expiresAt, addressee, fileVars, ver, exe, bak, bakAt>>

\* The service manager restarts the agent, or the command fails.
RestartAgent(c) ==
    /\ job[c] = "restart"
    /\ \/ /\ Die
          /\ service' = TRUE
          /\ UNCHANGED <<crashes, nodeID, config, unit, pending, removed, kept>>
       \/ Goto(c, "idle")
          /\ UNCHANGED <<now, cmdVars, fileVars, exeVars, procVars, hostVars>>

\* chaos_restart: os.Exit(1).
Exit(c) ==
    /\ job[c] = "exit"
    /\ Die /\ UNCHANGED <<crashes, hostVars>>

\* A process whose service was stopped is terminated, wherever it is.
Terminate ==
    /\ alive /\ ~service
    /\ Die /\ UNCHANGED <<crashes, hostVars>>

Crash ==
    /\ alive /\ crashes < MaxCrashes
    /\ Die
    /\ crashes' = crashes + 1
    /\ UNCHANGED hostVars

\* GetOrGenerate: an agent that finds no identity makes up a new one (and ends
\* at once, to be started again, if it cannot write it down).
GetOrGenerate ==
    \/ "node_id" \in config /\ UNCHANGED <<nodeID, config, kept>>
    \/ /\ "node_id" \notin config
       /\ nodeID' = nodeID + 1
       /\ config' = config \cup {"node_id"} /\ kept' = TRUE

\* The service manager or watchdog starts the binary; without one it tries
\* again later.  The new process reads the state file and only logs what it
\* finds.
Boot ==
    /\ ~alive /\ service /\ exe # None
    /\ alive' = TRUE
    /\ ver' = exe
    /\ GetOrGenerate
    /\ UNCHANGED <<now, cmdVars, job, fileVars, exeVars, crashes, interrupted,
                   halfUpdated, unit, service, pending, removed>>

Next ==
    \/ Tick \/ Crash \/ Terminate \/ Boot \/ SaveTokens
    \/ \E c \in Cmds :
          \/ \E a \in Actions, n \in 1 .. nodeID : Sign(c, a, n)
          \/ Accept(c) \/ Refuse(c) \/ Query(c)
          \/ PreFlightCheck(c) \/ PrePatchScript(c)
          \/ TruncateState(c) \/ WriteState(c) \/ SaveFails(c)
          \/ ApplyUpdates(c) \/ PostPatch(c) \/ ClearState(c)
          \/ FetchUpdate(c) \/ BackupExe(c) \/ InstallExe(c) \/ Rollback(c)
          \/ RestartAgent(c) \/ Exit(c)
          \/ SelfDestruct(c) \/ RemoveUnit(c) \/ WipeConfig(c) \/ WipeState(c)
          \/ ScheduleRemoval(c) \/ RemoveExe(c)

Spec == Init /\ [][Next]_vars

-----------------------------------------------------------------------------
(* Properties.                                                             *)

JobPoints ==
    {"idle", "query", "preflight", "script", "save", "fetch", "backup",
     "restart", "exit", "destruct"} \cup Recording \cup Replacing \cup Destroying

\* Types; only a running agent has goroutines, and it only ever remembers
\* commands that were signed for it.
TypeOK ==
    /\ now \in Nat
    /\ action \in [Cmds -> Actions]
    /\ expiresAt \in [Cmds -> Nat \cup {None}]
    /\ alive \in BOOLEAN
    /\ seen \in SUBSET {c \in Cmds : expiresAt[c] # None}
    /\ starts \in [Cmds -> Nat]
    /\ job \in [Cmds -> JobPoints]
    /\ \A c \in Cmds : job[c] # "idle" => alive
    /\ stateFile \in Cmds \cup {None, Torn}
    /\ ver \in Versions /\ exe \in Versions \cup {None}
    /\ tmp \in [Cmds -> Versions \cup {None}]
    /\ bak \in [0 .. MaxNow -> Versions \cup {None}]
    /\ bakAt \in [Cmds -> 0 .. MaxNow]
    /\ crashes \in Nat
    /\ interrupted \in SUBSET Cmds /\ excused \in SUBSET Cmds
    /\ halfUpdated \in BOOLEAN
    /\ nodeID \in Nat \ {0} /\ addressee \in [Cmds -> 0 .. nodeID]
    /\ config \subseteq {"node_id", "tokens"}
    /\ unit \in BOOLEAN /\ service \in BOOLEAN /\ kept \in BOOLEAN
    /\ pending \subseteq Cmds /\ removed \in BOOLEAN

\* "Reject replays of the same signed command within its lifetime"
\* (verifyCommand): one process starts a signed command at most once, although
\* it forgets commands when they expire.
ReplaysRejected == \A c \in Cmds : starts[c] <= 1

\* While a job applies updates the state file names it, so that an agent that
\* dies then finds it at its next start, unless jobs shared the file or it
\* could not be written.
StateShowsJob ==
    \A c \in Cmds \ excused :
        job[c] \in {"apply", "check", "clear"} => stateFile = c

\* A job in the state file is running or was interrupted: no finished job is
\* taken for an interrupted one.
NoPhantom ==
    \A c \in Cmds \ excused :
        stateFile = c => job[c] \in Recording \/ c \in interrupted

\* However updates interleave and wherever they fail, the binary is only
\* missing between the two renames of an update, after a death or a failed
\* rollback there, or once SelfDestruct has removed it.
ExeKept ==
    exe = None =>
        \/ halfUpdated \/ removed
        \/ \E c \in Cmds : job[c] \in Replacing

\* Wherever the agent dies in an update, whichever of its renames fail and
\* however updates share a second, as long as SelfDestruct has not removed the
\* binary there is one on the disk: at the agent's path, or under a backup's
\* name, from where it can be put back by hand.
BinaryOnDisk ==
    exe = None /\ ~removed => \E t \in 0 .. MaxNow : bak[t] # None

\* Wherever an uninstallation is cut short, by a failing step or because the
\* stopped service is the agent itself, it never leaves identity and tokens on
\* a host whose binary it removed or is about to remove, unless they could not
\* be removed or the running agent wrote them again.
WipedBeforeRemoved == removed \/ pending # {} => config = {} \/ kept

\* No command is executed under an identity it was not signed for, not even by
\* an agent that was uninstalled, started again and got a new identity.
OnlyAddressed == \A c \in Cmds : job[c] # "idle" => addressee[c] = nodeID

\* "Self-updates refuse manifests that are not newer than this version": no
\* sequence of updates, rollbacks and restarts runs an older agent, as long as
\* SelfDestruct has not removed the binary: then an update has nothing to back
\* up, and may roll back to an older backup named after the same second.
NeverDowngraded ==
    [][removed \/ ver = Dev \/ (ver' # Dev /\ ~Newer(ver, ver'))]_vars
=============================================================================
