# A TLA+ verification of patchli

Patchli keeps a fleet of machines patched: a control plane (`server/`) hands out
enrollment grants, keeps a WebSocket to every agent and dispatches patch jobs; an
agent (`agent/`) on every machine enrolls, keeps its session, runs the commands it
is sent and updates itself. This directory holds TLA+ models of the parts of both
programs that carry their concurrency and their failure handling, TLC runs that check
them on small instances, and TLAPS proofs of the main results for every instance.

Run a model with `tlc -config <Run>.cfg <Module>` and check the proofs of a component
with `tlapm <Component>Proofs.tla`. `PROJECT.json` lists the runs, for each definition
the lines it models, the mutant of the code that each property catches, the hazards
and the findings.

## 1. Inventory

| Component | State | Operations | What is hard |
|---|---|---|---|
| Enrollment, tokens (`server/internal/api`, `auth`, `db`) | `registration_nonces`, `node_enrollments`, `refresh_tokens`, advisory locks | `HandleSetup`, `HandleAgentLogin`, `HandleAgentRefresh`, `HandleRevokeEnrollment` with `EnrollNode`, `RotateRefreshToken`, `RevokeEnrollment` | requests race on a node; `CURRENT_TIMESTAMP` is fixed at `BEGIN`; nonces are forgotten; answers get lost |
| Agent registry (`fleet`, `websocket`, node status in `db`) | `agents`, `details`, `activeJobs`, `nodes.status`, one handler goroutine per connection | `Register`, `UnregisterConn`, `SendCommand`, `AcquireJob`, `ReleaseJob`, heartbeats, `UpdateNodeStatus`, `MarkNodeOffline` | reconnects overlap the old connection's clean-up; the database is written outside the mutex |
| Worker pool (`orchestration`) | job queue, paused groups, group semaphores, stop channel, workers, delay timers | `Submit`, `PauseGroup`, `ResumeGroup`, `Stop`, `worker`, `processJob` | blocking at five places, deferred releases, draining, jobs that go back into the queue |
| Agent session (`agent/cmd/patchli-agent`) | tokens in memory, `tokens.json` | `RunAgent`, `startHTTPPolling`, `refreshTokens`, `saveTokens` | a rotation that is committed but not received or not saved; a request handled after its timeout |
| Agent jobs (`command_auth.go`, `main.go`, `internal/state`) | `seenCommands`, state file, the agent's binary and its backups | `verifyCommand`, `executeCommand`, `SaveState`, `ClearState`, `performSecureAgentUpdate` | commands run side by side and share one file and one binary; the agent dies anywhere |
| Watchdog (`agent/watchdog`) | the child process | `runWatchdog` | starts whatever binary is there |
| Self destruct, identity (`agent/internal/updater`, `identity`) | service, `/etc/patchli`, binary | `SelfDestruct`, `GetOrGenerate` | the first step stops the process that runs it; the binary is removed later, by another process |
| Rate limiter (`api/middleware.go`) | a window per client address | `allow` | window boundaries, a map that is only cleaned when it is full |
| Setup page (`static/setup.html`) | current step, poll timer, elements of the page | `goToStep`, `startVerification` | callbacks that outlive the timer that started them |
| Package managers, webhooks, transport, other pages, setup scripts | none | run a tool, send a request, render | nothing concurrent |

How they interact. The agent's token pair is issued by enrollment and rotated by the
refresh endpoint; the access token opens the WebSocket, whose handler registers the
connection; workers look the connection up, mark the node busy and write a signed
command to it; the agent verifies and runs the command. The registry is shared by all
handlers and workers under one mutex; the database is shared by all requests.

What makes each part correct:

* enrollment: a grant enrolls once; a refresh token is redeemed once; a node has one
  owner; a revocation is final; a claim lasts as long as a token it protects; every
  request ends;
* registry: commands for a node go to a live connection of that node; a connection's
  clean-up only removes itself; shown and stored status agree with the registry;
* pool: a node runs one job at a time; no job is lost, sent twice or sent early; every
  slot and node is given back; a stopped pool drains and ends;
* session: the pair on disk is the one the server has stored; only a lost rotation, or
  seven days without one, locks an agent out; an enrolled agent becomes reachable again;
* jobs: a signed command is started once, and only under the identity it was signed
  for; the state file tells of an interrupted job and of nothing else; the binary is
  neither lost nor replaced by an older one; an uninstallation that is cut short leaves
  no credentials behind without a binary;
* rate limiter: no client gets past the limit by choosing its moments, and none is
  refused for what others did;
* setup page: no timer escapes the page, and what it shows is true.

## 2. Modules

| Module | Models | Extended by |
|---|---|---|
| `Enrollment` | grants, login, refresh, revocation as transactions | `MCEnrollment`, `EnrollmentProofs`, `OwnershipProofs` |
| `Ownership` | abstract: who owns a node; `Enrollment` instantiates it (`Owned`) | |
| `TokenStore` | abstract: the refresh tokens as a table with atomic operations; `Enrollment` instantiates it (`Store`), and `AgentSessionProofs` (`Server`) | |
| `Fleet` | connections, registry, sending of commands, stored status, restarts | `MCFleet`, `FleetProofs` |
| `WorkerPool` | worker pool with the registry's active jobs | `MCWorkerPool`, `WorkerPoolProofs` |
| `PoolContract` | abstract: what becomes of a submitted job; `WorkerPool` instantiates it (`Contract`) | |
| `AgentSession` | agent connection loop and token pair, against the server's rotation | `MCAgentSession`, `AgentSessionProofs` |
| `AgentJobs` | command verification, execution, state file, self-update, self destruct, identity, watchdog | `MCAgentJobs`, `AgentJobsProofs` |
| `RateLimiter` | the limiter of the login and refresh endpoints | `MCRateLimiter`, `RateLimiterProofs` |
| `SetupWizard` | the setup page's verification of a new node | `MCSetupWizard`, `SetupWizardProofs` |

The `MC` modules only add symmetry sets and constant functions. Definitions whose
comment begins with "Mutant" are plausible bugs of the code; no specification uses
them, they show that a property can fail.

### Enrollment

A request slot `req[r]` walks through the handler: `HandleAgentLogin`,
`HandleAgentRefresh` or `HandleRevokeEnrollment` (validation, token generation),
`BeginTx`, `LockNode` (the advisory lock of `withNodeLock`), the statements
(`EnrollNode`, `EnrollRefused`, `RotateRefreshToken`, `RevokeEnrollment`), and `Commit`
or `Rollback`. Statements read committed rows and buffer their writes in the request;
`Commit` applies them at once. `txnow` is PostgreSQL's `CURRENT_TIMESTAMP`, the time of
`BEGIN`; expiry is compared with it, as the SQL does, while tokens get their expiry from
the handler's own clock (`at`), as `time.Now().Add` does. `NonceReady` models the row
locks of the primary key of `registration_nonces`: the purge and the insert wait for an
open transaction that touched the same rows. A `Commit` may succeed without the agent
receiving the answer. A token is an atom: its random `jti` makes every one distinct, and
signatures are unforgeable. `tok`, `delivered` and `revoked` are history.

Time: `MaxStall` bounds how long a request lives, `MaxTx` how long a transaction does.
The code sets neither a statement timeout nor a lock timeout, so they are parameters
and the theorems say what they must satisfy. Left out: the in-memory mode (no `DB_URL`),
tolerance for grants from the future (one server clock), request decoding.

`Ownership` is what all this should promise, without tokens, locks or clocks: a node belongs to at
most one enrollment, only a node that belongs to nobody is claimed, and an enrollment that
lost its node never has one again. The mapping reads the owners of a node off the stored,
unexpired tokens (`Owner`) and the enrollments so far off the tokens that began a chain. The
code does not implement it (`EnrollmentTwoOwners`, section 6), and `OwnershipKept` says how far it
goes: every step is one of `Ownership`, or the `COMMIT` of a rotation whose token expired
after its `BEGIN` (`LateRedemption`), and that step does no more than give the node back to
the enrollment the token belongs to, which was not revoked.

`TokenStore` is a second, finer promise: with time, but without transactions, locks and requests. Its
steps enroll a node all of whose tokens have expired, exchange a stored token for a
new one of the same node, or withdraw all tokens of a node. The mapping is the table of
committed tokens, so it says that transactions which read, wait, buffer and commit behave like
single steps, the isolation that `withNodeLock` is for. Unlike `Ownership` it is implemented
however long transactions live: its clock is the database's, and it does not ask that an
exchanged token is still unexpired, which is what the code does not guarantee either
(`EnrollmentTwoOwners`, section 6).

### Fleet

One slot per open connection; `pc[c]` is where its handler goroutine is. `Connect` is
the authenticated upgrade, `ReadHeartbeat`/`Register`/`UpdateNodeStatus` are a heartbeat,
split where the code leaves the registry's mutex and where it calls the database;
`UnregisterConn`, `NotOwner` and `MarkNodeOffline` are `markOffline`. `Drop` is the peer, the
network or the read deadline. A slot is free again when the handler returns, so runs are
not bounded in the number of reconnects. `SendCommand`, `WriteReturns` and `Unlock` are a
worker's `SendCommand`, which keeps the registry's mutex while it writes to the socket:
until then no handler can register or unregister (`MutexFree`). `Restart` is the end of the
server, orderly or not: hijacked connections are dropped without any clean-up and only
the database survives. Other messages (logs, malformed ones)
change nothing. A heartbeat may be read from a connection that is closed already, because it
was buffered before; `ReadError` ends that some time.

### WorkerPool

A worker's program counter stops at every lock and channel operation of `worker` and
`processJob`, so that other goroutines run in between: `TakeJob`, `AcquireJob`/`Conflict`,
`PassPause`, `MissWindow`/`PassWindow`, `TakeSlot`, `Dispatch`/`DispatchFails`, then the deferred
functions in their order, `ReleaseSlot` and `ReleaseJob`. `Stop` and `CloseStopChan` are the
two halves of `Stop`. `TimerFires` and `TimerCancelled` are the delay goroutine's select.
Of the registry it has `activeJobs` and whether a node is connected (`Register`,
`Disconnect`). A dispatch to a connected agent may fail as well, and a worker may stay in
`SendCommand` for ever: only its other steps are fair (`Proceed`).

`PoolContract` is what the pool owes whoever submits a job: an accepted job ends once and for
good, by its command being sent, and then exactly once and not before its window; or by
being refused (queue full, node busy or unreachable), expired (too little of its
window left) or cancelled (the pool stopped while the job waited for its window).

### AgentSession

`pc` is where `RunAgent` is: `connect`, `ws` (reading), `wait` (the 30 seconds), `poll`, `refresh`
(waiting for a reply) and `save`. A token pair is a number. `Rotate` is the server's
`RotateRefreshToken` for this agent: the stored token is exchanged if it has not expired, any
other revokes; an expired one is mostly refused before that (`Expired`), by the check of the JWT.
`valid` and `refreshable` are the pairs whose access token (an hour) and refresh token (seven
days) have not expired; either may expire at any time, the refresh token after the access
token, on a socket as well as in an outage, since nothing refreshes while a socket lives. `up`
says that the controller and its database can be reached; while it is down a call may be
given up (`Abandon`), and what was sent may still be handled later (`HandleLate`). The rate
limiter or an error of the server may refuse a refresh (`RefuseRefresh`). The
constant `PollRoute` says whether the controller answers `/api/v1/poll`, as the agent expects
(and as the stub servers of its tests do); the server of this repository does not. How the
first `tokens.json` gets onto the machine is not in the repository.

### AgentJobs

`job[c]` is the goroutine of command `c`. `Accept` and `Refuse` are `verifyCommand` with its
pruning and its check of the node ID. `apply_updates` goes through pre-flight, script, the
two effects of `SaveState` (`os.WriteFile` truncates and then writes), the package manager,
post-patch, and the deferred `ClearState`; each may fail as in the code. `update_agent` fetches
a release (newer than the running version, as `verifyManifest` demands), renames the binary to
a backup named after the second, renames the download into place or rolls back, and
restarts. Versions are sequences of numbers, compared as `isNewerVersion` does, missing
components being 0; `Dev` is a version it cannot parse. `self_destruct` stops the
service, removes the unit file, the configuration and the state directory, each of which may
fail, and starts the detached `rm` that removes the binary later (`RemoveExe`), whatever is
at its path by then. Stopping the service may terminate the agent between any two of these
steps (`Terminate`); where no unit was stopped the agent runs on, and may save tokens again.
`Die` ends every goroutine; `Boot` is the watchdog or the service manager, and `GetOrGenerate`
makes up a new identity when there is none. The agent has a `COMMAND_PUB_KEY`.

### RateLimiter

`OpenWindow`, `CountRequest` and `Refuse` are the three ways through `allow`, each with the
clean-up of the map (`Pruned`) that precedes them. `start` and `count` keep the values of a
client that the map has forgotten, for the proof; no action reads them then. `served` is a
running total per client and time, the history that the properties are about.

### SetupWizard

A verification is numbered; `timers` are the intervals that run in the browser,
`verificationInterval` the one the page knows. A poll waits for its response (`fetching`) and
then for the body (`reading`), and between the two the user may leave the step and start
another verification. What a callback does afterwards it does to the page's current timer
and elements, as the code does.

## 3. Runs

| Run | Instance | Shows |
|---|---|---|
| `EnrollmentTokens` | 1 node, 2 grants, 3 tokens, 2 requests, clock 0 to 4, requests and transactions may live 1 tick | `NonceOnce`, `ClaimCoversTokens`, `RedeemedOnce`, `RevokedStaysRevoked`, `StoredUntilSpent`, `TokenStoreImplemented`, `OwnershipKept` |
| `EnrollmentLive` | 2 nodes, 2 grants, 2 tokens, 2 requests, clock 0 to 1, the database a tick ahead, fair | `NoCircularWait`, `RequestsComplete` |
| `PoolSafety` | 2 workers, 3 jobs (two share a node, two a group, one has a window), queue of 2, one slot per group, one node may disconnect, calls after `Stop` | `ExclusiveStable`, `BusyMeansWorking`, `SlotsAccounted`, `JobNotLost`, `ContractImplemented`, `Drained` |
| `PoolLive` | 2 workers, 2 jobs on two nodes of one group, queue of 1, calls after `Stop`, fair | `WorkersExit`, `JobsFinish` |
| `FleetSafety` | 2 connections at a time, 2 nodes, unboundedly many reconnects and restarts, fair | `IdentityBound`, `RegisteredIsLive`, `OneOpenConnection`, `DbMatchesRegistry`, `CleanupSparesSuccessor`, `GoneIsCleanedUp` |
| `AgentSession` | 5 pairs, 3 crashes, a controller that answers polls, fair | `TokensInStep`, `LockedOutOnlyByMishap`, `Reconnects` |
| `AgentJobs` | 2 commands of any action, lifetime 1, clock 0 to 2, releases 1 and 1.1 and a development build, 1 crash besides restarts and terminations | `ReplaysRejected`, `OnlyAddressed`, `StateShowsJob`, `NoPhantom`, `ExeKept`, `BinaryOnDisk`, `WipedBeforeRemoved`, `NeverDowngraded` |
| `RateLimiter` | 3 clients, 2 requests per window of 3, capacity 1, clock 0 to 5 | `SlidingBound`, `RefusalJustified`, `TableBounded` |
| `SetupWizard` | 2 attempts, 3 polls in flight per verification, 3 verifications, fair | `NoOrphanTimer`, `PageTellsTruth`, `VerificationEnds` |
| `EnrollmentTwoOwners`, `AgentFallback` | one node with transactions that live a tick; the session without a poll route | a violation each, see section 6 |

Why the bounds are enough for what they are for. Two requests are what it takes to race on
a node lock, and three tokens are an enrollment, a rotation and a second enrollment, with
the rotation still waiting; in `EnrollmentTokens` both nonces can be redeemed for the one node after
a revocation. Requests of different nodes meet in the nonce table only: that takes the two
nodes of `EnrollmentLive`, where one login waits, with its own node's lock, for the nonce row
of the other, or for a row that the other one purges (the skew makes a nonce old enough
within the clock). With three jobs a node can
be contended while a third worker step holds the group's only slot; the clock goes one
tick into the window and to its end. With two connection slots any two handlers of a
node overlap in every way, again and again, with a write that blocks both. Two commands are
any two jobs, updates or uninstallations side by side, and a command's expiry, a backup of
the same second and one of the next fall within the clock. The limiter's clock sees two
windows and the boundary between them, and its map outgrows its capacity with clients
whose windows are over and others whose windows are not. Three verifications are two stale
ones besides the current one. Where a theorem exists (section 4) the bounds do not matter.

Types are stated in every module (`TypeOK`) and proved for each; they are not checked
by runs, because no fault of the code would show there first. Some invariants are proved and
not in a run: `DispatchOnce` and `NeverEarly`, which `ContractImplemented` implies; `GroupLimit`, which
`SlotsAccounted` and the semaphore's capacity imply; `LocksOwned` and the `NoCircularWait` of `WorkerPool`, the safety
side of the liveness runs; and `StatusMatchesAgents`.

Deadlock is checked in every passing run but two. `PoolLive` turns it off because without
disconnects a stopped pool with nothing to do really stops; `AgentJobs` because an agent
without a binary, or whose service is stopped, does not start again.

Fairness. `Enrollment`: strong fairness of a request's steps; PostgreSQL queues the waiters
of a lock, so a lock that is released again and again is granted in the end, and
statements and commits end. `WorkerPool`: strong fairness of each worker's steps outside
`SendCommand`, because Go serves the waiters of a channel in order, and weak fairness of timers, pending
submissions, the second half of `Stop`, and time. Nothing is assumed of `SendCommand`, whose
write has no deadline, and nothing of callers, who may pause a group or never submit: the
two properties have as their premises that writes return (`WritesReturn`) and that whatever is
paused is resumed, for `WorkersExit` also what is paused after `Stop`. Without the first a single
peer that stops reading keeps every worker, through the registry's mutex. `Fleet`: strong fairness of each handler goroutine, because
`sync.RWMutex` hands the lock over in turn although senders take it again and again, and of `ReadError`, because the
buffer of a closed connection is finite, and weak fairness of `Unlock`; none of the agents, and none of `WriteReturns`, because the write has no
deadline: `GoneIsCleanedUp` has as its premise that writes return. `AgentSession`: weak fairness of the agent's own steps, including its restart
by the service manager, and of the server's answer to a call, be it a refusal; outages, expiry and
crashes may happen or not, and `Reconnects` has as its premise that from some time on the controller stays
reachable and the last refresh token has not expired (`Alive`). `SetupWizard`: weak fairness of a running timer and of the end
of each poll, which the page aborts after five seconds and the server cuts off after its
`WriteTimeout` of a minute (`main.go:102`); none of the user.

## 4. Proofs

`EnrollmentProofs`, for any numbers of nodes, nonces, tokens and requests and any time
limits that satisfy the assumptions of `Enrollment`:

* `TypeCorrect`, `ClaimsCorrect`, `RedemptionCorrect`, `RotationCorrect`: from one inductive invariant `IInv`. The properties
  themselves say nothing about open transactions, so `IInv` adds what a transaction knows:
  from the lock on it is the lock's holder (`Validated`); once its statements have run,
  the rows they saw are still as they were (`Buffered`), because every writer of a node's
  rows holds the same lock; a generated token belongs to one request (`NewInv`); a chain
  of tokens stays with its node (`TokInv`) and a stored token was not yet redeemed
  (`RowsUnredeemed`). Each action has a lemma; `Commit` is split into its values, its effect
  on other requests, and the two cases of revoking and issuing.
* `NonceCorrect` assumes `LoginWindow + MaxStall + DbSkew <= NonceRetention`: with the code's 5 and
  10 minutes a nonce is safe as long as a login takes at most five minutes after
  its freshness check. `NonceInv` says that a redeemed nonce is still recorded or too old for
  any request in flight.
* `LocksCorrect` and `WaitsAcyclic`: `LocksOwned` says that a lock or nonce row belongs to an open
  transaction of the right node, and it is inductive with `IInv`; from it follows that whoever waits
  for a node's lock or for nonce rows leads, in at most two steps, to a transaction that
  has only to commit. This is the safety half of `RequestsComplete`, for any numbers. The model
  takes the nonce rows of one login in one step; two logins that lock rows in
  opposite orders would be told apart by PostgreSQL, which aborts one, and that is a `Rollback`.

`OwnershipProofs`, on top of these: `SpentCorrect` (`StoredUntilSpent`) and `OwnershipCorrect`
(`OwnershipKept`): initial states map to initial states of `Ownership`, and every step claims a free
node, loses owners, stutters, or is a `LateRedemption`. It assumes nothing about how long
transactions live. The argument that a claimed node was free goes through `IInv`: whoever claims
holds the lock and has seen no claim, and a claim lasts as long as the tokens under it; a
rotation whose token has not expired at its commit keeps the owners as they are. `StoreCorrect`
is the refinement of `TokenStore`. All work is in `Commit`, which is an enrollment, a rotation or a withdrawal (`CommitEnrolls`,
`CommitRotates`, `CommitClears`): that the rows a transaction saw are still those of the table
is `Buffered` of `IInv`, and that its new token was never issued is `NewInv`.

`FleetProofs`, for any numbers of connections and nodes: `RegistryCorrect`, `LiveCorrect` and
`StatusCorrect` (`IdentityBound`, `RegisteredIsLive`, `StatusMatchesAgents`, strengthened by "whoever is in the registry has
registered"), `FleetTypeCorrect` (types only), `OneConnectionCorrect` (`OneOpenConnection`,
with `LInv`: a free slot is not among the registered), `CleanupCorrect` (the action property
`CleanupSparesSuccessor`) and `DbCorrect`, whose invariant `DInv` says for a node with a single
handler what the database holds at every point of that handler.

`WorkerPoolProofs`, for any numbers of workers, jobs, nodes and groups, any windows and any
capacities: one theorem for each invariant of `PoolSafety`, `PoolTypeCorrect` (which includes the
capacity of the queue), and those below. The lemmas `WorkSteps`, `GotoStep`,
`ReturnFacts` and `TakeFacts` say what a step does to the workers; on them rest five independent
groups of the invariant: `ExclOK` (a connected node is marked busy exactly while a worker is at
it, which makes its worker unique), `SlotOK`, `TimeOK` (a worker past the window check has seen
the window begin), `DrainOK` (what is owed is still queued, and only a stopped pool has workers
that drain or have left) and `PlaceOK` (a job without an outcome is in exactly one place, and
has not been sent). `PoolCorrect` is the refinement of `PoolContract`: by `PlaceOK` whoever has a job in hand
finds it without an outcome, by `TimeOK` a command is sent inside its window, and only jobs with a
window have timers (`TimerOK`). `GroupsLimited` (`GroupLimit`) and `WaitsAcyclic` (`NoCircularWait`) follow from `SlotOK`
with the cardinality of the semaphores (`Limits`).

`AgentSessionProofs`, for any numbers of rotations and crashes: `SessionTypeCorrect`, `TokensCorrect`
and `LockoutCorrect`. The invariant adds what the pair in memory is, that a call and a reply
only exist while the agent waits, and that a pair is at most the last one issued. Neither
property is about an agent whose last refresh token has expired, for that one is locked out.
`SessionServerCorrect` ties the module to `Enrollment`: the server it assumes only takes steps of `TokenStore`,
the table `StoreCorrect` shows the transactions to implement. `TokenStore`'s exchange and withdrawal do not
ask for expiry, so the abstract clock stands still, and it begins with a pair already issued.

`AgentJobsProofs`, for any numbers of commands, crashes and identities, any clock and any
releases: `ReplayCorrect` (a command that was started is remembered or has expired), `AddressCorrect`
(the identity only changes when no goroutine runs), `StateFileCorrect` and `PhantomCorrect` (jobs that share the file
are known to), `ExeCorrect` (a missing binary still has its backup, unless the process died or
failed there), `DiskCorrect` (`BinaryOnDisk`: every rename of an update leaves a binary at the path or
under a backup's name), `WipeCorrect`, and `UpwardCorrect`, an action property: everything that may become
the binary (downloads, backups under way, even a backup another update left in the same
second) is at least the running version. The last one rests on a proof that `Newer` is
irreflexive and asymmetric for versions of any length. `JobsTypeCorrect` adds the types of the host (`HostTypes`).

`RateLimiterProofs`, for any limit, window, capacity and number of clients: `SlidingCorrect`,
`RefusalCorrect`, `TableCorrect` and `LimiterTypeCorrect`. The bound is not inductive by itself: the invariant says what
the last window has counted (`Counted`), that it began with a request (`Opened`), and that
within a window's length before it fewer than `Limit` requests got through (`Spaced`); what the
map has forgotten was over (`Forgotten`).

`SetupWizardProofs`, for any numbers of attempts, polls and verifications: `TimersCorrect`, `PageCorrect` and
`WizardTypeCorrect`. The second needs the first: a stale callback clears the page's current timer,
which is the only one there is.

Only model-checked: liveness (`RequestsComplete`, `WorkersExit`, `JobsFinish`, `GoneIsCleanedUp`,
`Reconnects`, `VerificationEnds`), because the proof system covers neither fairness nor `ENABLED`.

## 5. What is not modelled

* The in-memory enrollment mode (no `DB_URL`), a single mutex around maps; agents without a
  command key, which verify nothing; the Windows branches of `SelfDestruct` and of the paths.
* `monitorJobExpiration`, which only reads and logs; webhooks, single requests without state;
  the health light of the setup page (`checkControlPlane`), the dashboard and login pages, scripts.
* `Unregister`, `PruneStaleAgents`, `SetStatus`, `Reset` and the token helpers that only tests
  call; the job, group and audit tables, which no code writes; migrations, configuration,
  parsing of URLs and keys, the proxy trust policy.
* `static/assets/js/tailwind.js` is a vendored, minified third-party library of 89 lines. It is
  the repository's only `.js` file, but none of its logic: the program is written in Go, with the
  setup page's script inside its HTML, and those are what `map` refers to.
* The workers of `WorkerPool` see the registry as a map of busy nodes and a set of connected
  ones; the mutex they share with the handlers is in `Fleet`. The two are not composed.

## 6. Findings

* `EnrollmentTwoOwners`: a refresh that waits for the node lock judges its token by the time
  it began. If the token and the claim expire meanwhile and another agent enrolls, the
  refresh still redeems the token and the node has two owners.
* `AgentFallback`: after one failed dial the agent polls a route that the server does not
  have, for good.

Observations met while modelling, which contradict a comment at most in part and have no run:

* An agent refreshes only when a 401 tells it to, and a live socket is not closed when its token
  expires: after more than seven days on one socket, or of outage, its refresh token has expired
  (`db.go:282`, `auth.go:23`) and it is locked out without any mishap. `LockedOutOnlyByMishap` names the case.
* A disconnect clears the node's active job (`fleet.go:64`), as `lifecycle_test.go:103` demands, while a
  worker may still be at it; after a reconnect a second worker can start a job of the node,
  and the first one's `ReleaseJob` then frees it (`fleet.go:151`). `ExclusiveStable` is about nodes that
  stay connected.
* A death between the renames of an update, or a failed rollback, leaves the watchdog nothing to start;
  the binary is there under its backup's name (`BinaryOnDisk`), but nothing puts it back.
* A token deleted by an operator's revocation counts as rotated; presented after the node was
  enrolled anew, it deletes the new owner's tokens (`db.go:272`, `291`). `StoredUntilSpent` names
  the case.
* A handler that had read a heartbeat before its connection was replaced registers the closed
  connection once more (`fleet.go:30`); `CleanupSparesSuccessor` and `GoneIsCleanedUp` hold all the same.
* Under systemd `SelfDestruct` stops the process that runs it before it removes configuration and
  binary (`updater.go:84`); without a unit the agent runs on and recreates `/etc/patchli`.
* An update that runs while the delayed `rm` removes the binary finds nothing to back up, and
  can roll back to an older backup of the same second; `NeverDowngraded` excludes it.
* A stale poll of the setup page can stop a later verification or overwrite its text; the
  page polls `/api/v1/nodes/recent`, which the server does not serve.
* `SendCommand` has no write deadline: a peer that stops reading holds up every handler and worker.

## 7. Plan

Done: the components of section 2 with their runs, the refinements of `TokenStore` and `PoolContract`,
how far the code keeps to `Ownership`, and proofs of every safety property of a passing run and of every `TypeOK`. Left:

1. Composition of `Fleet` and `WorkerPool`: workers and handlers over one registry.
2. The in-memory mode of enrollment as a second implementation of `TokenStore`.
