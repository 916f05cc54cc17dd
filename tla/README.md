# TLA+ models of Remote Agent Devbox

Remote Agent Devbox runs coding agents in Docker workspaces and lets a human
approve, exactly, what reaches the Git remote. The control process
`rad-control` (`apps/control`) owns a PostgreSQL database, the Docker socket and
the GitHub App credentials. This directory models its state machines and the
races between its HTTP requests, its background loops, the security migration
command and the systems it calls, checks them with TLC on small instances, and
proves their safety with TLAPS for instances of any size.

`PROJECT.json` lists the components, the runs, for each property a mutation of
the code that breaks it, the source lines of every definition, the hazards with
the properties that cover them, and the theorems.

## 1. Inventory

| Component | State | Operations | Interacts with |
|---|---|---|---|
| Review pipeline (`packages/git-artifacts`, `artifacts/`, `validation/`, `apps/validator`) | staged files, a content-addressed store, artifact rows STAGED/VALIDATED (REJECTED is never written), immutable review snapshots | capture a bundle, validate it in a container, create a review | workspaces, approvals, migration |
| Approvals (`packages/approvals`, `approvals/`) | one row per request: PENDING, APPROVED, DENIED, STALE; expiry; security epoch | request, approve, deny | reviews, metadata row, migration |
| Git operations and leases (`packages/git-operations`, `git/git-operation-service.ts`) | an operation per approval, a credential lease per operation | start, resume, transition by compare-and-swap, reserve, issue, settle | approvals, validator, executor, migration |
| Git write executor (`git/git-write-executor.ts`, `git-writer.ts`, `github-pull-request.ts`) | its own copies of operation and lease | prepare, push, open a pull request, record the outcome | token issuer, remote |
| Security migration and maintenance (`security/`) | epoch, tier, posture hash, maintenance mode | enter maintenance, invalidate everything, commit a new epoch | every other component |
| Workspace lifecycle (`packages/workspace-state`, `workspace/docker-supervisor.ts`) | desired and observed state, state version; container and volume at the daemon | request a state, reconcile one, reconcile all | outbox, tasks, IDE access, migration |
| Outbox (`packages/outbox`, `workspace/outbox-coordinator.ts`) | commands PENDING/PROCESSING/SUCCEEDED/FAILED, attempts, available_at | enqueue, claim, succeed, fail with backoff, recover stale claims | lifecycle |
| Tasks (`packages/agents`, `tasks/`) | task rows PENDING/RUNNING/COMPLETED/FAILED | create, claim the Workspace, run, record, restore | lifecycle, Docker |
| App server client, agent worker (`packages/agents`, `apps/agent-worker`) | JSON-RPC requests and turns in flight, pieces of the message, completed turns | request, notify, connect the environment, wait for a turn, close | tasks, Docker |
| IDE access (`packages/ide-access`, `ide/`, `apps/ide-proxy`) | one-time codes, sessions, both bound to state version and epoch | issue, redeem, resolve | lifecycle, migration, audit |
| Audit events (`packages/audit-events`) | append-only rows | append | migration, IDE access |
| Web client (`apps/web`) | the review, the approval and the operation the page shows, calls in flight | validate, request, decide, start, poll | review pipeline, approvals, Git operations |
| HTTP server, admin command, Discord bot | none of their own | route requests to the services | all services |

How they interact. Requests, the timer of `main.ts` and the migration command
share nothing but PostgreSQL rows, the Docker daemon, the artifact volume and
the remote; there is no lock in memory. Writers fence each other in three ways:
compare-and-swap updates (`state`, `state_version`, `status`), unique indexes
(one operation per approval, one lease per operation, one review per artifact,
one unused code and one active session at a time by invalidation), and row
locks, of which that of the single metadata row is the one the migration and
all binding transactions contend for.

What makes this system hard: every HTTP request is a chain of awaits over rows
that other requests, the reconciler and the migration command change in
between; the remote may apply a push after the client gave up on it; Docker
commands are not fenced by the row they act for; a restart loses everything a
request remembers; and a migration has to fence all of it with a new epoch.

What makes each part correct:

- *Git writes*: an approval is pushed at most once, and only if a human approved
  it; a review is pushed at most once over all its approvals; recorded outcomes
  are true of the remote and final; nothing usable survives a migration; racing
  requests end and settle their operation.
- *Reviews*: a recorded artifact has bytes that nobody replaces; a review is what
  the pinned image made of exactly these bytes in its epoch; there is one per
  artifact; a failed validation can be retried.
- *Workspaces*: observations follow the stored intent; the agent's work survives
  everything but a destruction; one task claims a Workspace; the system
  converges once it is quiet.
- *Outbox*: one dispatcher per command, bounded attempts, true outcomes, nothing
  is left behind.
- *IDE access*: one usable code, one active session, one session per code,
  nothing of an old epoch, no stale resolution, no request stuck on a lock.
- *Agent runs*: a task is COMPLETED only if its own turn completed, in an
  environment that was ready, with all that the agent said as its result; a turn
  that completes early is not waited for in vain; a run ends whatever dies or
  falls silent.
- *Review format*: no output of git but a well-formed one is read as a list of
  changes; one set of changes has one manifest.
- *Web client*: what is approved is the review whose digest is shown (it is not:
  finding 4).

## 2. Modules

| Module | What it is |
|---|---|
| `GitWrite` | approvals, operations, leases, executor, token issuer, remote and migration |
| `WriteLedger` | abstract specification of an approved write; `GitWrite` implements it |
| `ReviewPipeline` | capture, store, validation, review |
| `ReviewLedger` | abstract specification of what the review pipeline promises; `GitWrite` starts from it |
| `ReviewFormat` | raw diff parser and canonical file list, as operators |
| `WorkspaceLifecycle` | the Workspace row, its container and volume, overlapping reconciliations, tasks |
| `WorkspaceLedger` | what its owner and its tasks are promised; `WorkspaceLifecycle` implements it |
| `Outbox` | commands, dispatchers, recovery |
| `CommandLedger` | what is promised to those who store a command; `Outbox` implements it |
| `IdeAccess` | codes, sessions and resolutions, with the migration |
| `AccessLedger` | what may enter a Workspace's IDE; `IdeAccess` implements it |
| `AgentRunner` | the docker run of a task, the agent worker, the App Server client, the App Server |
| `RunLedger` | what is told of a task, its turn and its message; `AgentRunner` implements it |
| `WebReview` | the review card of the web page, the API calls it makes and their answers |
| `MC...` | instances for TLC: small sets as model values and symmetry |
| `...Proofs` | inductive invariants, lemmas and theorems of each module |

The modules meet in this way. `ReviewPipeline` implements `ReviewLedger`, whose
`Review(a)` action stores a review under the current epoch *or an older one*;
`GitWrite`'s `CreateReview` is that action, so that what approvals assume of
reviews is what the pipeline was shown to provide. The migration appears in four
modules, each time with the statements that touch the module's rows; it is the
same command and the same transaction (`security-migration.ts:130-290`), whose
other statements cannot be seen through those rows. `Outbox` hands a command to a
handler; in `WorkspaceLifecycle` that is `Deliver`, enabled as long as a command
may be delivered again. `AgentRunner` is what a task of `WorkspaceLifecycle` waits
for when it runs: there a run completes or fails, here is how. `WebReview` sees of
`GitWrite` and `ReviewPipeline` what the API answers. `WriteLedger` is the whole
chain as the human who approves sees it: approved, started, written once, and told
truly.

Each detailed module but `WebReview`, whose one property is violated, implements a
ledger: a specification without calls, locks, copies, retries or processes, that
says what is promised to the one who relies on the component. A ledger's state is
read off the tables and history of the module (`Ledger == INSTANCE ...`), and the
refinement is both a property of a run and a theorem.

### 2.1 GitWrite

One Workspace with its agent branch. Approvals are identifiers, and because an
approval has at most one operation (unique `approval_id`) and an operation at
most one lease (unique `operation_id`) the three tables are functions of the
approval. The digests that bind an approval to its review are represented by the
review (`ReviewOf`); tier and posture change only together with the epoch, so
the epoch stands for the security context.

- *Runners* are the HTTP requests that start an operation (`POST
  /api/approvals/:id/git-operations`). A call record holds what the request
  remembers between awaits: its copy of the approval's status, of the operation's
  and the lease's state, the observed head and whether the push was refused. Each
  action is one statement, transaction or external call of
  `git-operation-service.ts` and `git-write-executor.ts`; where `catch` or
  `recordFailure` is entered the record goes to `recordFailure` and the lease is
  settled before the operation, as in the code.
- *Compare-and-swap* updates are `Transition` and `LeaseTransition`, with their
  conflict as the other disjunct. `findActive` and the insert of a request are
  one step, because the transaction compares under the metadata lock.
- *The push* has a life of its own (`push`): `SendPush` only sends it,
  `RemoteApplies` applies or refuses it at any later time by the
  `--force-with-lease` rule, and `PushReturns` may report a failure whatever the
  remote does. Others push to the agent branch or delete it at any time, as happens
  after a merge (`ForeignPush`). The pull request and the token exchange are their outcomes.
- *The migration* is modelled statement by statement with the rows it locks
  (`migration.approvals` and so on); its writes become visible when it commits.
  Deadlock victims are `AbortMigration`, the failure of `Reserve`, and requests
  that end. Its clock is sampled with the transaction, one command runs at a time,
  and always with one reason.
- *Crash* ends all requests in progress; rows and remote stay. A database statement that
  fails by itself is not modelled: `OperationsSettle` is about a database that answers,
  as an operation whose failure cannot be recorded stays as it is.

`WriteLedger` has no runner, lease, epoch or crash: a review's approval may be
granted until something is told of it, a granted one may be started if no other
approval of its review was, a started one sends its write once, the remote answers
at any time, and what is told is "written" only of an applied write, "refused" only
of a rejected one, "given up" only of one that was not sent or whose credential is
marked uncertain. The mapping (`Ledger` in `GitWrite`) reads `told` off the state of
the operation (`ToldOf`), `remote` off the push and `doubted` off the leases that are
UNCERTAIN. Cancelling in a migration is a `GiveUp` of several writes at once.

### 2.2 ReviewPipeline and ReviewLedger

A capture call draws a fresh UUID, so artifacts are named by their capture. A
bundle stands for its own digest: SHA-256 and the canonical digests tell any two
contents apart, and `Damaged` is content of no known digest. `stored` is the
artifact volume, one file per digest; `link` does not replace a file, and one
that exists must have the right digest (`LinkIntoStore`).

A validation is a chain of awaits: `findByArtifact`, `get`, the security
context, the image check, the pinned container, the context again, and the
transaction that inserts the review and moves the artifact out of STAGED. `run` in
a validation record is history: the bytes, the image and the epoch the container
really saw, which `ReviewIsGenuine` compares with what the stored review says.
The container's digest check and its Git commands read a volume that is mounted
read-only, and are one step. Anything may fail or time out with its effect done
or not (`CaptureFails`, `ValidationFails`), images are rebuilt under the same
name, stored bytes are damaged, migrations commit, and `rad-control` restarts,
possibly with another image pinned.

Whether the Workspace was READY at the capture is left open (what it exports is
untrusted bytes in any case). Not modelled: mode bits (a crash between `link` and
`chmod` leaves the staged mode), loss of a directory entry at a host crash (the
file is synced, its directory is not), and the integrity check on reads, which
holds as long as nobody writes to the table by hand.

`ReviewFormat` is how the changes of a bundle become the file list of a manifest:
`SplitNull`, `Parses` and `ParseRawDiff` are `parseRawDiff` with "does not throw" as
an operator of its own, and `Canonicalizes` and `CanonicalizeFiles` are
`canonicalizeFiles` in the same way. `FramingIsExact` and `ManifestIsCanonical` speak
of all inputs up to the bounds and are looked at from the first parse and the first
stored review on; `FramingExact` and `OneManifest` are proved for inputs of any length.
A raw diff is split at the positions of its null bytes (`NullAt`), and the sort is any
reordering in which no file comes before one it follows: neither needs recursion. Bytes are numbers, a header is one of a set of
fields, and a path may contain the bytes of a header. Of base64 the module keeps
what a text decodes to and whether it is the text that encoding gives back. Modes,
blobs and the status letter are the header; those whose blobs are object ids of full
length are `FullHeader`, and the others pass the parser and are refused by
`FitsSchema`. A header is read as ASCII, which drops the highest bit of each byte
(`Ascii`).

### 2.3 WorkspaceLifecycle

One Workspace row, its container and volume. A reconciliation (`Reconciler`)
has a label for where it stands; each step is one await: an `inspect`, a
compare-and-swap `observe`, or a Docker command, in the order of `lifecycle.ts`
and `docker-supervisor.ts`. Several run at once, because the timer does not wait
for the last round and outbox deliveries reconcile too. The timer's round lists the
Workspaces (`Tick`) and each reconciliation reads its row later (`ReadListed`).

Every write of the row counts `state_version` up and the compare-and-swap only
tests it for equality; the version is therefore represented by the set `fresh` of
the processes whose copy carries the stored version. Whether the outbox still
delivers is the Boolean `delivery`. Docker commands take effect, are refused, or
fail with or without effect (`DockerFails`); an effect that comes later than the
failure of its command is not modelled. The network is created with the
container. Database calls on the Workspace row that fail are not modelled.

`WorkspaceLedger` has no version, copy, container or reconciliation: a state is asked
for, what is told speaks of the last one asked for, the work is lost only if
destruction was asked for, and a task is told to run and to end once, after it claimed
a Workspace that was READY and meant to run. The mapping is the row (`intent`, `told`),
the intents so far (`asked`), the volume (`work`), the tasks between their claim and
their outcome (`AtWork`) and their rows (`status`).

### 2.4 Outbox

A dispatcher is a `dispatchAvailable` call: select with `SKIP LOCKED`, claim,
handle, record. `available_at` is represented by what a query can tell of it:
in the future, due, or older than the grace given to `recoverStale`. Commands are
numbered in the order of `created_at`, and may be inserted in any order, since
`created_at` is taken before the transaction. Any database call may fail with its
statement done or not.

`CommandLedger` has no dispatcher, clock or failing call: a command is accepted, handed
over while nobody works on it, at most `MaximumAttempts` times and once more for each
restart, and then told to be done, only if a reconciliation has returned for it, or to
have failed, only if the attempts are used up; neither is taken back. `Told` reads this
off the rows and `Underway` off the dispatchers.

### 2.5 IdeAccess

Requests issue, redeem and resolve; a step is one statement. What a transaction
writes is seen when it commits, in its last step, and the rows it has read `FOR
UPDATE` or written are locked until then (`MetadataFree`, `WorkspaceFree`,
`CodeFree`). A resolution reads three rows without a lock at three moments. Codes
and sessions are identities; a code is redeemed only by somebody it was sent to.
Of a Workspace the service tells RUNNING and READY from anything else, and of
`state_version` the equality with the version of issue. The statements of the
migration are one step: it holds the metadata row, which everybody else needs
first or re-reads. `CodesLeft` and `SessionsLeft` bound the identities; a request
begins only while one is left for it.

`AccessLedger` has one place for a code and one for a session of each Workspace: an
issue fills the first, an exchange empties it and fills the second, and a new epoch
empties all of them. `Offered`, `Opened`, `Known` and `Exchanges` read this off the
tables. `WaitsFor`, `WaitsForMigration` and `MigrationWaitsFor` say who waits for whose
row locks; `DeadlocksAreKnown` says that whoever is `Stuck` has one of the two deadlocks
among them that `FairSpec` has broken.

### 2.6 AgentRunner

One task. `rad-control` runs the docker client with a timeout (`task`,
`signalled`), the container has one process, the worker (`pc` is what it awaits,
`answer` what that promise was settled with), and the worker has spawned the App
Server (`server`), which it writes requests to and reads lines from. A line on the
pipe (`output`) is handled in one step and the worker continues in another, because
`readline` emits all lines of a chunk before a promise continues; in between come
other lines, timers and deaths. `known` is `completedTurns`, `pending` the map of
requests, `heard` the pieces of the message.

The App Server may answer a request with a result or an error, late or never, send
pieces and completions of its own or of other threads and turns, ask something
itself, write lines that are no JSON, die with a code or by a signal, or stay up after
its input was closed. Its `turn` and `said` are history, against which
`CompletedIsTrue` holds what `rad-control` records. Requests have a timer each, the
wait for a turn has one, and the environment has a deadline that passes while an
answer is on its way or the worker sleeps. A crash of `rad-control` leaves the task
"lost" and the container running. Identifiers are whether they are the task's own;
prompts, models and the validation of payloads are left out.

`RunLedger` knows neither container nor pipe: a task is started, its environment
becomes ready, one turn begins, speaks and ends, and the task is told to have completed,
with the whole message, only if its turn did; it may fail at any time, and is lost with
the process that waits for it. `Message` is what the record of a COMPLETED task says.

`Distance` is how far a run is from its end, `RunDescends` that nothing takes it
further away and each timer or continuation nearer (in the loop that waits for the
environment, only the deadline does), and `AlwaysATimer` that there always is one.

### 2.7 WebReview

The page keeps the review, the approval and the operation it was last given. Each of
the four mutations (`call`) is idle, sent with what was clicked, or answered; a
button is an action with the condition under which it is enabled, a handler stores
an answer. `CardPending` is `isPending` of the review card, word for word. The server
gives an active approval or a new one, decides or makes stale, and others decide and
migrate at any time. Whether the Workspace is READY is left open, as it only
disables a button. The digest of a review is the review.

## 3. Runs

All runs use the bounds of their `.cfg`; deadlock is checked in all of them but
`agent_run`, where the one task comes to its end. A bound on time, versions, faults or epochs only ends what the environment may do.

| Run | Bounds | What it shows |
|---|---|---|
| `write_race` | 2 approvals of one review, 2 runners, 2 epochs, any number of crashes, migration attempts, and pushes to and deletions of the branch by others; either two requests race for one approval of the first epoch, or one at a time serves two approvals, of which one may expire, and others at most delete the branch (`TwoRequestsOrTwoApprovals`, `BranchRests`) | one push for an approval and for a review; true and final outcomes; one credential holder; nothing usable of an old epoch; `WriteLedger` is implemented |
| `write_live` | 1 approved approval, 2 runners, the last epoch (migrations are attempted and abort), no crash; others leave the branch alone once the remote has answered the push (`BranchRests`) | requests return, operations settle |
| `write_pushing` (violated) | 1 approval, 1 runner, 2 epochs | finding 1 |
| `review` | 2 captures, 2 validations at a time, 2 bundles, 2 images, 2 epochs; any failures, damage, rebuilds and restarts; raw diffs of up to 8 bytes of three values, lists of up to 3 files with paths of up to 2 bytes | the store is immutable and complete, reviews are genuine, `ReviewLedger` is implemented, failed validations can be retried; framing is exact and manifests are canonical |
| `lifecycle_race` | 2 reconciliations, 2 tasks, RUNNING, STOPPED and DESTROYED, 1 fault; a second task only where nothing failed and destruction was not asked for (`TwoTasksOrTrouble`) | observations follow the intent, work survives, `WorkspaceLedger` is implemented: two tasks race for one claim |
| `lifecycle_converges` | 2 reconciliations, 1 task, intent RUNNING or the migration's STOPPED, 1 fault | convergence once quiet |
| `lifecycle_destroyed` (violated) | 1 reconciliation, no task, 1 fault | finding 2 |
| `outbox` | 2 dispatchers, 2 commands, 2 attempts, limit 2, 1 restart, 1 failing call | one deliverer, true outcomes, commands settle, `CommandLedger` is implemented |
| `ide_race` | 2 requests, 1 Workspace, 2 codes, 2 sessions, 2 versions, clock to 1, 2 epochs | uniqueness of codes and sessions, epoch fence, sound resolution, `AccessLedger` is implemented; no request waits for ever |
| `ide_sessions` (violated) | as `ide_race`, 3 versions | finding 3 |
| `agent_run` | 1 task, 2 pieces of a message, 3 lines on their way, 2 faults | no lost completion, true results, `RunLedger` is implemented (no turn without environment, one verdict), every run ends |
| `web_review` (violated) | 2 reviews, 2 approvals, one page | finding 4 |

Why these bounds are enough. Two processes per role make every pairwise race of
steps; the theorems of section 5 cover all numbers for the safety properties.
Two epochs are one completed migration, which every "old epoch" needs and a
second one only repeats. In `write_live` the one epoch leaves out completed
migrations, because `OperationsSettle` is claimed without one; everything a
migration can do up to its refusal is there. Once the remote has answered
the push of the one approval, no request uses what it observes of the branch. In `outbox` two attempts make a
retry that is not the last one and one that is; the limit of two makes a
dispatcher that hits it and one that does not. In `lifecycle_converges` only
RUNNING is requested, to keep the state graph within reach, and the migration
adds STOPPED; that a Workspace settles SUSPENDED or DESTROYED is not checked
there, while every intent takes part in `lifecycle_race`. One fault at any
place is a crash, a Docker failure with or without effect, an exit or a
container that turns unhealthy. In `ide_race` the clock reaches the expiry of codes
and of the Workspace, two versions are an update after a code was issued, and
liveness and safety share the instance; its safety properties are all theorems. In
`write_race` the constraints leave out that two requests race for an approval of the
second epoch, which repeats the first without a migration, and that, while there are
two approvals, requests race, both expire, or others push (deletions are in): the
theorems cover all of that.
In `agent_run` two pieces tell a part from the whole, three lines let an answer, a piece and a completion be on their way together,
and two faults are an odd line or a failure on top of another. In `ReviewFormat` 8
bytes are two records of a one-byte header and a one-byte path, and every
misalignment of them; one header is a prefix of the other and may occur in a path, and
only one of them has blobs of full length; byte 130 is read as byte 2 in a header and as
itself in a path; three files in a list make a duplicate of which one is in between.

For each property of a passing run `PROJECT.json` names a mutation of the code
(a dropped guard, an upsert instead of an insert, a wrong order, a missing
revocation) under which that run finds the property violated. The mutated forms
stand beside the definitions they mutate, marked "Mutant".

## 4. Fairness

- *GitWrite* (`LiveSpec`): strong fairness for each runner. Node keeps serving a
  request it accepted, and every external call has a timeout, which is one of the
  runner's own failure steps. It is strong because a migration that is tried again
  and again takes the metadata row in between, and PostgreSQL grants a row lock to
  its waiters in turn. Weak fairness for the migration command once started. The
  remote is not assumed to do anything, and nobody is assumed to start anything.
- *ReviewPipeline* (`FairSpec`): weak fairness for each validation, whose queries
  and Docker calls end or time out. `Retried` has the premise that from some time
  on nothing fails, that the artifact's bytes are intact and the image in place is
  the pinned one, and that validation is asked for again and again: the code
  promises no automatic retry.
- *WorkspaceLifecycle* (`FairSpec`): the timer ticks for ever, calls return, tasks
  end, and a container that starts and does not fail becomes healthy. `Converges`
  has the premise `Quiet`: the outbox has delivered, the container is not unhealthy
  for good, and from some time on one reconciliation ends before the next begins.
  Without the last one, a reconciliation that is always overtaken by the next
  conflicts for ever; the timer does not wait for the last round
  (`main.ts:159`), so this is about rounds that are shorter than the interval.
- *Outbox* (`FairSpec`): the timer dispatches for ever, calls return, time goes by.
  `CommandsSettle` excuses restarts and failing calls: a claim lost to one is only
  taken back by the next start, if it is stale by then. It therefore says nothing of
  the commands such a fault hits.
- *IdeAccess* (`FairSpec`): strong fairness for each request (row locks are given in
  turn), deadlocks are broken by PostgreSQL (`BreakDeadlock`), and the transaction
  of a migration ends.
- *AgentRunner* (`FairSpec`): Node runs timers that are due and continues promises,
  and a docker run whose container is gone returns. Nothing is assumed of the App
  Server, not even that it answers or that its output ends with it.
- *ReviewFormat* and *WebReview* have safety properties only.

## 5. Theorems

Proved for every value of the constants under the named assumptions of the
modules (`ConstantsAssumption`, `PipelineAssumption` and `NoneAssumption`,
`FormatAssumption`, `LifecycleAssumption`, `OutboxAssumption`, `IdeAccessAssumption`,
`BoundsAssumption`), which ask for little more than that sets of identities are disjoint and bounds are numbers.

| Module | Invariant | Theorems |
|---|---|---|
| `GitWriteProofs` | `IInv` | `Invariance`, `TypeCorrectness`, `PushOnce`, `ApprovedPushes`, `ReviewOnce`, `TrueOutcomes`, `AbandonedUnpushed`, `CredentialExclusion`, `EpochFence`, `FinalOutcomes`, `WriteImplementsLedger`; *`StoppedMigrationIsSafe`* |
| `ReviewPipelineProofs` | `PInv` | `PipelineInvariance`, `PipelineTypes`, `ArtifactStored`, `ReviewGenuine`, `StoreKept`, `PipelineImplementsLedger` |
| `ReviewFormatProofs` | none | `FramingExact`, `FramingIsExactAlways`, `OneManifest`, `ManifestIsCanonicalAlways` |
| `WorkspaceLifecycleProofs` | `LInv` | `LifecycleTypes`, `FollowsIntent`, `WorkKept`, `ClaimsReady`, `LifecycleImplementsLedger`, `DestroyedIsGoneBut` |
| `OutboxProofs` | `OInv` | `OutboxTypes`, `OneDelivery`, `BoundedAttempts`, `TrueDeliveries`, `OutboxImplementsLedger` |
| `IdeAccessProofs` | `AInv` | `IdeTypes`, `UnusedCodeUnique`, `ActiveSessionUnique`, `CodeExchangedOnce`, `EpochGone`, `ResolutionSound`, `AccessImplementsLedger`, `NoOtherDeadlock`, `SessionsEndEarlyByCount` |
| `AgentRunnerProofs` | `IInv`, `WaitInv` | `RunnerInvariance`, `RunnerTypes`, `CompletionKept`, `EnvironmentFirst`, `CompletionTrue`, `RunImplementsLedger`, `WaitInvariance`, `RunGoesDown`, `TimerAlways` |
| `WebReviewProofs` | `Inv` | `ApartByOvertaking` |

Every invariant and every action property that a passing run checks is a theorem. The
one in italics is conditional (below).

Each proof has the same shape: the initial states satisfy the invariant, every
action keeps it (one lemma per action or per group of actions with one kind of
effect), it implies the property, and temporal logic does the rest. What the
invariants add to the properties, and why it is needed:

- `IInv`: what a runner may rely on at each step (`CallShape`, `KnowsRows`): one
  whose copy says PUSHING is the only one to own the push, because the operation
  is PUSHING by its own compare-and-swap; pushes are counted and only sent under
  an operation that moved on (`PushesAreOwned`); an operation has an approval that
  stays active until its epoch is over, and one approval of a review ever gets an
  operation (`ApprovalsBackOperations`); and the migration's statements have locked
  *all* the rows they select until it commits (`MigrationLocks`), without which
  nothing keeps a row of the old epoch from slipping through (`EpochFence`).
- `PInv`: a capture links the file it has digested and inserts what it has linked;
  a validation's run was made of the artifact's bytes by the image of its profile,
  in an epoch between the sampled and the current one. Together with the second
  sample this makes the review genuine: the epoch only grows, so two equal samples
  enclose a run of that epoch. `PipelineImplementsLedger` maps each step to a step
  of `ReviewLedger` or a stutter.
- `LInv`: a reconciliation with a current copy works for the stored intent, at each
  of its labels; a task with a current copy sees what it checked. That stale
  reconciliations do no harm to the row, and never remove a volume unless
  destruction was asked for, follows from it.
- `OInv`: a claimed command is PROCESSING as long as its dispatcher works on it,
  and one that waits has an attempt left.
- `AInv`: who holds which row lock (no two transactions hold one row), what a
  transaction has read stays true while it holds it, and of a resolution that began
  with an invalid session something is still to be read that makes it fail.

- `WriteImplementsLedger`: every action of `GitWrite` maps to one of `WriteLedger` or
  a stutter, by `IInv`: a start finds an approved review with no other operation, a
  push is sent under an operation that is PUSHING, an outcome is recorded by the owner
  of the push, and a migration cancels only what is not PUSHING, or is marked
  uncertain. `OnlyApprovedIsPushed` and `AbandonedWasNeverPushed`, proved by
  `ApprovedPushes` and `AbandonedUnpushed`, are what it says of single states, and
  have no run of their own.
- `IInv` of `AgentRunner`: what the App Server was asked and has answered at each step
  of the worker, that pieces come in order (those on their way follow those heard),
  that the completion on its way is of the turn that ended, that a result that
  fulfilled a wait came from a line that was true, and that a reported verdict
  outlives the container.
- The other ledgers. `OutboxImplementsLedger`: as a command is in the hands of one
  dispatcher, a step changes `Underway` by the one command of its dispatcher, and a
  recovered claim is nobody's. `LifecycleImplementsLedger`: only a reconciliation or
  task with a current copy writes the row, and a current copy knows the last intent;
  what a stale one does, it does to containers, or to the volume after destruction was
  asked for. `AccessImplementsLedger`: a transaction writes in its last step, under
  locks that keep what it has read true, so that this step is an issue or an exchange
  and all before it are stutters; the migration's commit is the new epoch.
  `RunImplementsLedger`: a COMPLETED verdict is passed on only once the container is
  gone, so that its message cannot change any more.
- `ReviewFormatProofs` needs induction over data without the library's induction
  theorems, which take an operator. It is done by the least element of a set of numbers
  (`LeastNat`, from the well-founded order of finite sets): the first place at which
  something fails, if any does. What `FlattenSeq` makes of a list of blocks is given by
  running offsets (`StepsValues`, `OffsetsGrow`); the nulls of a text cut it in one way
  (`NullAtCuts`, `CutsUnique`), so that printing and parsing undo each other
  (`ParseOfPrint`, `PrintOfParse`). For the manifest, `Precedes` is shown to be a strict
  order of byte strings that compares any two; files in that order each stand at the
  place that counts those before them (`Enumeration`), so that the sorted list exists
  (`SortExists`); comparing neighbours, as the code does, is enough for all paths to
  differ (`NeighboursSuffice`), and then the sorted list is the only one (`SortedPrefix`).
- `NoOtherDeadlock`: one follows who waits. A request at its insert, or a redemption at
  its sessions, waits for nobody. An issue at its codes waits for a redemption that
  holds the code and not the Workspace (`IssueWaits`): the first known deadlock, unless
  that redemption is at the metadata row, which only the migration can hold against it:
  the second. Who waits for a Workspace waits for one of these (`WorkspaceWaits`), and
  so does a redemption at its code (`CodeWaits`).
- `WaitInv` of `AgentRunner`: the map of requests holds the request that is awaited, and
  nothing otherwise. `RunGoesDown` and `TimerAlways` are the part of `RunsEnd` that needs
  no fairness: the distance from the end is bounded, never grows, and somebody who makes
  it smaller is always at hand.

Four theorems say what the findings of section 6 come from:

- `DestroyedIsGoneBut` (`DestroyedLeavesNothing`, finding 2): a Workspace recorded
  DESTROYED has left neither container nor volume (`DestroyedSoundly` implies the
  property) until a step of one of two kinds, and every step of these kinds ends it: a
  converge that finds no container while there is a volume (`MissesVolume`), and a
  superseded start that reaches the daemon after the destruction (`CreatesLate`). Its
  proof needs that a reconciliation with a current copy in the middle of its work has
  written the row itself (`UnderwayRecorded`).
- `SessionsEndEarlyByCount` (`SessionsLast`, finding 3): of all steps of requests,
  migrations, clock and lifecycle, those that end a session that resolves without a
  documented reason (`EndsEarly`) are those that write the Workspace row and change
  neither intent nor observation (`CountsOnly`).
- `ApartByOvertaking` (`ApprovesReviewedDigest`, finding 4): while the page and its calls
  are of one review (`Together`), the button approves the review shown. They come apart
  exactly in the steps in which a new review overtakes a call for an approval
  (`Overtakes`).
- *`StoppedMigrationIsSafe`* (`PushingIsOfCurrentEpoch`, finding 1) is conditional: no Git
  request is in progress while the migration command runs (`ControlStopped`), as
  `docs/OPERATIONS.md:134-150` has the operator arrange by stopping `control`. Crashes
  and aborted migrations are allowed.

Only model-checked: liveness (`RequestsReturn`, `OperationsSettle`, `Retried`,
`Converges`, `CommandsSettle`, `RequestsEnd`, `RunsEnd`), which is outside what the
prover supports. That the code as it is violates the four properties of the findings is
TLC's result too.

## 6. Findings

1. `write_pushing`. `docs/security/SECURITY_GATE_D.md:13` says that a migration
   aborts if a Git operation is PUSHING. It looks for such operations in one
   statement and cancels the others in a later one; an executor that becomes
   PUSHING in between is neither seen nor cancelled
   (`security-migration.ts:154-185`). The migration commits, the push goes out in
   the new epoch, the lease is already EXPIRED, and the operation stays PUSHING
   and blocks every later migration. `docs/OPERATIONS.md:134-150` has the operator
   stop `control` first, which avoids it; nothing enforces that. All other
   properties of `write_race`, the epoch fence among them, hold in spite of it.
2. `lifecycle_destroyed`. "Destroying a Workspace removes both its container and
   its data volume" (`docs/OPERATIONS.md:235`). The lifecycle records DESTROYED as
   soon as there is no container (`lifecycle.ts:95`); after one failure between
   the two removals nobody removes the volume any more. Two overlapping reconciliations
   do the same without any failure: one has created the volume of a Workspace to be
   started, destruction is asked for, a second finds no container yet and records
   DESTROYED, and the first then creates the container.
3. `ide_sessions`. "The resulting session lifetime is 3,600 seconds, bounded by the
   Workspace expiry" (`docs/OPERATIONS.md:48-49`). Each reconciliation counts
   `state_version` up even if nothing changes, and codes and sessions are bound to
   it, so that the next tick of the timer ends them.
4. `web_review`. "Approve reviewed digest" (`app.tsx:392`) may approve another
   review than the one shown. The card's buttons wait for the card's calls and the
   validation's button for the validation, but not for each other (`app.tsx:269-273`,
   `288-293`). Capture a new review, and while it is validated request the approval of
   the one shown: the validation answers and replaces the review, then the approval of
   the old one arrives and is stored beside the new one's digest, paths and commits. The
   approval names its own `reviewDigest`, which the page does not compare or show. The
   pull request is opened for the old review.

Observed while modelling, without a run:

- A task whose verdict was written is FAILED all the same if the App Server then exits
  with a code, or died before it was closed (exit code 13: the worker awaits a promise
  that nothing settles), see `process.ts:29` and `docker-supervisor.ts`.
- A notification named "error" is emitted as an event that has no listener and throws
  (`app-server-client.ts:229`): the worker ends without a verdict, and the task fails.
- The docker client that is killed at its timeout leaves the container running; a task
  recorded as FAILED may still be at work (`docker-supervisor.ts:127`).
- Control's timeout of an agent run is no longer than the worker's own wait for a turn,
  so that the worker's verdict about a slow turn never arrives.
- An open WebSocket of the IDE is not ended with its session.
- A reconciliation that finds the container running records READY over BUSY in the
  middle of a task (`lifecycle.ts:69`; the test "marks the workspace BUSY and
  restores READY after success" at `task-service.test.ts:119` has no reconciler).
  With the timer at its default of five seconds, every longer task works in a READY
  Workspace: a second task is accepted, and the first one's later update conflicts.
- The maintenance guard is a check before the act (`maintenance-guard.ts:16`): what
  passed it still runs when maintenance begins. The transactions compare the epoch
  again, which is why the epoch fence holds. No property says more of it.
- A raw diff header is read with `toString("ascii")` (`raw-diff.ts:28`), which drops the
  highest bit of every byte: the parser takes headers that Git never prints, and reads
  them as those it does. Paths are not affected. Blob ids of any length pass it as well,
  and are refused by `objectIdSchema` (`crf.ts:7`).
- `decide`, `createBound` and `reserve` lock their own row before the metadata row, the
  migration the other way round (`repository.ts:180`). PostgreSQL aborts one of them; the
  models have the abort, but not the order of these locks.
- A container that stays unhealthy makes `inspect` throw before the intent is
  looked at (`lifecycle.ts:51`, `docker-supervisor.ts:45-50`), so that it is neither
  stopped nor destroyed; `Quiet` excludes it.
- Outbox claims that are not yet stale at a restart stay PROCESSING until the next
  one (`main.ts:62`).
- The timer starts promises whose rejection nobody handles (`main.ts:160`): one
  failing query ends the process. The models have the restart.
- Of two racing validations the loser gets a unique violation rather than the
  review. The other's review stands, and asking again returns it. Staged files that
  a crash leaves behind are never removed.
- A task whose claim conflicts stays PENDING, and one cut off by a crash stays
  RUNNING.
- `SECURITY_POSTURE_MIGRATION_FAILED` may be audited of a migration that has
  committed, if the reconciliation after it rejects (`security-migration.ts:109`).
- An IDE code is consumed although its client gets no session, if the audit event
  fails or the proxy gives up after the commit (`ide-access-service.ts:49`).
- A container killed in the middle of its first clone is taken for cloned when it
  starts again (`images/workspace-node/entrypoint.sh:9`).

## 7. What is not modelled

- *Canonical JSON and digests*: two values that differ are taken to have different
  canonical texts and digests. `canonicalJson` is a recursive printer with sorted keys;
  the schemas that refuse malformed commits, and blobs of the wrong one of the two
  object formats, are left out.
- *Web client* except its review card: provisioning, state changes, tasks, IDE and the
  audit list store what one call returns.
- *Audit events*: an append-only log that nothing reads to decide.
- *HTTP server, admin command, Discord bot, configuration*: they parse
  input and call the services; no state of their own.
- *Images, compose files, scripts*: build and deployment.
- *PostgreSQL, Docker, Git and GitHub* themselves: as far as the code sees them.
  Transactions run at READ COMMITTED with row locks; a Docker command has its
  effect, is refused, or fails either way; a push is applied or refused once.

## 8. Plan

Built, in this order: `GitWrite` (the approved write, the most important thing the
system does) with its proofs, `WorkspaceLifecycle`, `Outbox`, `IdeAccess`,
`ReviewPipeline` over `ReviewLedger`; then `WriteLedger` with the refinement proved,
`AgentRunner` with its proofs, `WebReview`, `ReviewFormat`; then the proofs about
`ReviewFormat`, the other four ledgers with their refinements, the theorems
about the findings, the deadlocks of `IdeAccess` and the descent of `AgentRunner`.

What could follow:

1. Proofs: the descent of a lone reconciliation (`Converges` without its fairness) and
   of a dispatcher (`CommandsSettle`), as it was done for a run.
2. That the migration's fences compose: from the ledgers, what holds of approvals,
   reviews, codes and sessions together when an epoch begins.
3. `ExactRevalidation` in detail: the second validation of `GitWrite` (`Revalidate`)
   as the run of `ReviewPipeline` it is, with the equality of manifests that
   `OneManifest` gives.
4. A task of `WorkspaceLifecycle` with the run of `AgentRunner` inside, a runner that
   outlives its task among the processes that use the volume.
