# A verification project for Harvy

Harvy is a chat assistant for students: a Telegram bot and a fleet of WhatsApp
accounts over one Node.js process, which stores everything in JSON files and
SQLite, plans with external models, and keeps long pieces of work ("runs")
alive across messages, restarts and lost connections.

This directory holds TLA+ models of the parts of Harvy where the order of events
decides whether it is right: the *active AgentRun* of a chat, *coding runs*
with the projects they work on, and the *sandbox leases* their commands run
under. The models are translated
from `src/src/`, checked with TLC on small instances, and partly proved with
TLAPS for every instance. `PROJECT.json` maps each definition to its lines.

## 1. The system

Paths are relative to `src/src/`. One process, one event loop: between two
`await`s nothing else runs, at every `await` everything else may.

### 1.1 Active AgentRun (modelled)

*Code*: `core/agent-run-service.ts`, `domain/agent-run.ts`,
`storage/file-agent-run-repository.ts`.

*State*: per scope (channel and owner) one durable record: a version 1
clarification checkpoint or a version 2 active run. A run has a status
(queued, running, waiting_input, paused; completed, partial, failed,
cancelled), a compare-and-swap revision, an instruction revision and the
revision its checkpoint has applied, a bounded mailbox of routed messages, the
planner's checkpoint, an open question, an answer not yet consumed, at most one
pending effect (a message about to leave) and the receipts of settled effects.
In memory: a FIFO of active operations per scope (`withActiveQueue`), the set
of blocked scopes, and the process-wide FIFO of the file (`FILE_QUEUES`).

*Operations*: startActive, attachActiveAnchor, routeActiveMessage
(correction, answer, cancel), beginActiveAttempt, commitActiveQuestion,
commitActiveFinal, requeueStaleActive, settleActiveStopped, failActive,
expireWaitingActive, recoverInterruptedActiveRuns, forget / discardContextData
/ allow, purgeExpired, and for version 1 loadWaitingInput, saveWaitingInput,
claimWaitingInput, clear.

*Hard*: a commit saves, sends, saves again, and may die or be refused in
between; the transport may lose a message or report an error for one that left;
erasure, expiry and the version 1 service do not take the active queue, so they
run between an operation's read and its write; corrections overtake the worker.

*Right when*: a message leaves at most once and is accounted for; nothing
leaves after the final result; no instruction the run accepted is missing from
what leaves; a closed run stays closed; an erased one stays erased; the two
record versions never share a scope.

### 1.2 Private work lane and ingress barrier (modelled for one owner)

*Code*: `bot/create-bot.ts` (launchActiveAgentWork, executeActiveAgentWork,
the active-run handlers of a chat turn, discardAgentRunForMemoryChange,
drainPending), `core/active-run-ingress-barrier.ts`,
`bot/message-batcher.ts` for the serial chain of an owner.
`whatsapp/private-conversation.ts` holds the same lane for WhatsApp.

*State*: a map from owner to worker (promise and abort controller), the
`stopping` flag, pending reservations per run, two serial chains per owner
(ingress, messages).

*Hard*: a worker that leaves while an answer queues new work; a second run
while the first worker is leaving; a reply that quotes the run's anchor racing
the result; memory changes and shutdown under a running worker; a commit that
holds the active queue while it waits for something else.

*Right when*: queued work always has somebody who will do it; the process
leaves nothing running; a result never overtakes a reserved reply; every run
settles.

### 1.3 Agent harness (partly)

*Code*: `harness/agent-harness.ts`, `core/run-budget.ts`,
`core/run-mailbox-policy.ts`. The planner loop with tools and budgets. Modelled:
what a resumed attempt consumes, when it notices that it is stale or aborted,
the outcomes it returns. Not modelled: planner turns, tools, tokens.

### 1.4 Coding runs (modelled)

*Code*: `core/coding-run-engine.ts`, `core/coding-run-coordinator.ts`,
`core/coding-run-scheduler.ts`, `core/group-coding-lifecycle-fence.ts`,
`domain/coding-run.ts`, and of `core/project-workspace-service.ts` revisions and
working copies.

*State*: a durable record per run (status, instruction revision and the applied
one, base revision of the project, map, plan, diff, receipts of validators and
reviews, pending commit, writer lease), the project's revisions, a working copy
per run, an evidence store; in memory the queues of authority, project and run,
the scheduler's slots, decisions in flight, abort controllers.

*Operations*: start, revise, cancel, pause, resume, markMapped, recordPlan,
applyPatch, exec, runValidator, runTaskReview, finalize, recoverPendingCommit,
reserve and admit a decision, interrupt, cancelByAdmissionFence.

*Hard*: a decision, a sandbox command and a review are awaited outside the
queues, so revisions, fences and other revisions of the project land meanwhile;
a commit is a save, an effect in the project and another save; a patch is an
effect in the tree and a save; the process may die between any two.

*Right when*: what is committed is the diff that was validated and reviewed at
the newest instruction; the status tells whether the effect is in the project; a
decision is applied only to what it was taken on; a closed run changes nothing;
a run never works twice at a time.

### 1.5 The coding application (modelled: control; not: uploads, handoffs)

*Code*: `core/private-coding-application.ts`, `core/group-coding-run-driver.ts`,
`core/group-workspace-coding-controller.ts`, `core/coding-runtime-composition.ts`,
`core/coding-runtime-supervisor.ts`.

*State*: the private session with its foreground run, group references, the
drives in memory, the recovery at startup.

*Right when*: every control is answered and every drive ends; a session lets go
only of closed runs; a group run works only under a durable reference; nobody is
admitted before what a dead process left is settled.

### 1.6 Project deletion (modelled)

*Code*: `core/project-deletion-coordinator.ts`,
`core/project-deletion-recovery-worker.ts`, `storage/file-project-deletion-repository.ts`.

A durable tombstone hides the project; five steps (fence the runs, remove
evidence, remove runs, detach GitHub, remove the project) follow, each recorded
after its effect and resumed by a worker. *Right when* an accepted deletion
ends, and nothing it removed comes back through an operation that was in flight.

### 1.7 Sandbox leases (modelled)

*Code*: `core/sandbox-runner-service.ts`, `sandbox/sandbox-lease-journal.ts`,
`sandbox/sandbox-transport.ts`, `sandbox/oci-sandbox-backend.ts`,
`storage/file-sandbox-lease-journal.ts` and `storage/sqlite-sandbox-lease-journal.ts`.

*State*: a durable record per lease (allocating, active, quarantined, disposing),
written ahead of every remote call; in memory the runner's copies, the handles it
gave out, a set of leases it will not use again, one queue per lease and one for
admissions, late cleanups, and whether it has recovered, stopped or drained. In
the backend, another process: containers and its own durable records.

*Operations*: allocate, execute, captureSnapshot, readArtifact, dispose,
fenceProjectRuns, stop, drain, the recovery before the first of them, the
quarantine of a lease whose command ended in doubt, the cleanup of an allocation
that failed or answered too late; in the backend allocate, execute,
cancelAndDispose, initialize.

*Hard*: every remote call may be lost, late, or done with its answer lost, and so
may every journal write; the runner and the backend restart on their own; the
sweeps wait at every lease while others go on.

*Right when*: no container runs without a record; a record goes only when its
container cannot come back; the limit holds for containers and not just for
handles; a fence or drain that reports success has proved it; doubt is final.

### 1.8 Everything else (not modelled in this stage)

- **Group AgentRun** (`core/group-agent-run-*.ts`): records per thread, work
  claims with attempts, anchors, assigned questions, final results, cleanup,
  activation retries. Same barrier, several actors, authority that may vanish
  between claim and commit. Right when a claim has one holder, a delivery is
  settled by the claim that made it, and cleanup fences out late commits.
- **Workspace membership** (`core/workspace-authority-service.ts`): roles and
  invitations. Of it the models carry the authority queue.
- **Economy and usage ledger** (`core/economy-service.ts`,
  `core/usage-ledger-service.ts`): reservations, attempts, entitlement
  settlement bound to delivery. Right when a turn is charged at most once and
  only if its reply was delivered.
- **GitHub broker** (`core/github-broker.ts`, `github-app/`): exact effects
  with phases and reconciliation of unknown outcomes.
- **Group turns, batching, retries** (`core/group-turn-service.ts`,
  `bot/message-batcher.ts`, `core/deferred-turn-retry.ts`,
  `core/reply-obligation-service.ts`): debounce, supersession, reply
  obligations redelivered after a restart.
- **Memory, history, learning; tasks, sessions, reminders; data control;
  telemetry and control plane**: mostly data transformation and storage. Of
  data control the models carry what it does to runs: block, erase, accept.
- **AI clients, WhatsApp sockets, HTTP, console, operations, logs**: adapters
  and text; no protocol of their own that TLA+ would clarify.

### 1.9 How the parts meet

A chat turn runs on its owner's chain. It may start a run (`startActive`), send
the anchor, attach it, and launch a worker. The worker begins an attempt,
calls the harness, waits for reserved ingress, and commits: inside the active
queue the service saves the effect, calls back into the lane to send, and saves
the receipt. Later turns route messages into the mailbox; a correction makes the
attempt stale, an answer wakes the worker. Data control blocks the scope and
erases the record. At boot, and on WhatsApp at every reconnect, recovery walks
over all records.

A coding request starts a run from a private session or a group, and a drive
advances it: the scheduler takes the run's slot, the coordinator loops over
decide and act, and every act goes through the engine, which holds authority and
run queues and enters the project's for the tree and its revisions. Revisions
and cancels arrive beside it; a group that loses its authority fences its runs;
a deletion hides the project from all of them and then removes what is left.
Commands of a run execute under a sandbox lease, whose runner answers to nobody
but its journal; a deletion fences the leases of its project before anything
else. At
startup the supervisor recovers sandboxes, deletions and runs before it admits
anybody.

## 2. Modules

| module | what it is |
| --- | --- |
| `ActiveRun` | The record and the pure transitions the service applies to it; no variables. Shared by the two models below. |
| `AgentRun` | The service over its file, for one scope: active queue, file queue, worker, chat handler, rights of the owner, time, crash. |
| `CommitBarrier` | The abstract promise of a commit: recorded, sent at most once, never after a final message, settled into a receipt. Whoever announced an intent may lose the scope before the delivery begins, or send and not learn of its receipt. |
| `WorkLane` | Who runs the worker of one owner, and how chat, quoted replies, memory changes and shutdown meet it. |
| `CodingRun` | The record of one coding run and the transitions the engine saves; no variables. |
| `CodingEngine` | Coding runs over their project: queues, invocation, tree, history, lease, fence, crash. |
| `CodingApp` | `CodingEngine` under its drivers: private session, group controller, recovery at startup. |
| `ProjectDeletion` | `CodingEngine` under the deletion saga and its worker. |
| `SandboxPromise` | The abstract contract of the sandbox: a container runs only under an id that is held, an id that was given up never runs again. |
| `SandboxLease` | The runner, its journal and the backend with the network between them; implements `SandboxPromise`. |
| `MCAgentRun`, `MCWorkLane`, `MCCodingEngine`, `MCCodingApp`, `MCSandboxLease` | Instances for TLC (symmetry of the owner's messages, of snapshots, of leases). |
| `ActiveRunProofs`, `AgentRunProofs`, `AgentRunLedger`, `WorkLaneProofs`, `CodingEngineProofs`, `CodingAppProofs`, `ProjectDeletionProofs`, `SandboxProofs` | Theorems, checked by TLAPS. `AgentRunLedger` extends `AgentRunProofs`, and `CodingAppProofs` and `ProjectDeletionProofs` cite `CodingEngineProofs`. |

### 2.1 ActiveRun

Each operator is one transition of the code: `Posted` is appendMailboxChange and
its callers' common part, `Routed` the three outcomes of routeActiveMessage,
`Begun` beginActiveAttempt with the checkpoint rebase, `PreparedFinal` and
`PreparedQuestion` the first save of a commit, `Receipted` and what is built on
it the second, `Settled`, `Requeued`, `FailedRun`, `Recovered` the ends without
a delivery. `Storable` is what the repository's validator refuses to save; it
is part of the control, because a refused save sends the worker down its error
path.

Abstracted: a mailbox message is its revision, kind and source; the three kinds
of instruction the code treats alike are one; a checkpoint is the set of source
messages it has shown to the planner and the prompt it waits on. Left out:
texts, timestamps (deadlines are the `late` flag of AgentRun), work units and
the event log, the phase shown on the anchor. Ids produced by `makeId` are
numbers, unique within a run.

### 2.2 AgentRun

| variable | code |
| --- | --- |
| `active`, `legacy` | the records in the file (version 2, version 1) |
| `late`, `legacyLate` | which deadline of them has passed |
| `blocked` | the scope is in `blockedScopes` |
| `op` | the operation that holds the scope's active queue, with its snapshot |
| `pend` | saves and removals issued to the file and not executed |
| `attempt` | the worker's attempt: stage, input revision, checkpoint, answer |
| `chain` | the owner's chat handler, for the version 1 checkpoint and rights |
| `mode`, `lastId` | process lifecycle, ids handed out |
| `sent`, `erased` | history: messages that left, runs the owner had erased |

An operation is three steps: it enters the queue and loads the record
(`Enter`), decides and issues a save in a later turn of the event loop (one
action per operation), and goes on when the save executes (`ExecuteSave` with
`Saved` or `Threw`). Whatever does not take the active queue runs in between.
A commit has four more steps: `CallDeliver` checks the scope, `Deliver` sends
(and may lose, or send and report an error), `FinishCommit` saves the receipt,
`PersistUnknown` books an ambiguous delivery. `Restart` drops all memory and
every issued write and keeps the file as the last rename left it.

`Env` switches parts of the environment: `crash`, `io` (a write fails), `stop`
(shutdown), `limits` (budget and approval outcomes), `surface` (the anchor or
the history fails after a commit), `erase`, `chat`, `time`, `reconnect`. A
bound on ids (`MaxId`), saves (`MaxRev`) and queued writes (`MaxPend`) keeps the
instance finite; nothing in the properties refers to them.

### 2.3 WorkLane

Here a save is one atomic step, and so is an operation of the active queue,
except a commit: it holds the queue (`QueueFree` is false) from its first save
until its delivery is settled, because its callback waits for the ingress
barrier. That wait, and what needs the queue meanwhile, is what the model is
about. `work` is the entry in activeAgentWork, `wakeups` the finally blocks that
have removed their entry and are reloading the run, `turn` the handler on the
owner's chain, `admission` the quoted reply on the ingress chain, `reserved` the
barrier. `MaxPasses` stands for the 8 revision passes of a worker.

A handler that has queued a run (`Route`) acknowledges the update before it launches
the worker. It may be superseded meanwhile, or the acknowledgement may fail, and then
it ends without a launch; hence `WakeWorker` launches or does not. A new run is
different: a handler that cannot launch it fails it (`FailUnlaunched`).

A run in the lane cannot be lost to time: of the deadlines only that of a
question is kept, since reading a run for ingress may close it. Failing file
writes and crashes are AgentRun's. A finally block that cannot read the file
(it logs the error) is left out too.

### 2.4 CodingRun and CodingEngine

| variable | code |
| --- | --- |
| `run` | the records of `FileCodingRunRepository` |
| `hist`, `live` | revisions of the project, and that it exists |
| `copy` | content of each run's working copy |
| `evid` | the evidence store |
| `tomb` | the deletion record (written by ProjectDeletion only) |
| `auth`, `proj`, `rlock` | the queues of workspace authority, project and run |
| `inv` | the invocation the scheduler admitted, at its next await |
| `inflight`, `aborted` | registered provider calls, the AbortController |
| `seen` | who still knows the current stateRevision |
| `mem` | runs with a runtime in memory |
| `fence` | a lifecycle fence in progress |

An operation under `authorizedExclusive` that only reads and saves is one action,
enabled while its queues are free: nothing else can see its middle. Where a
middle can be seen it has several: a patch writes the tree (`PatchWrite`) and
saves (`PatchSave`, or `PatchUndo`, `PatchQuarantine`), a commit saves the
barrier, changes the project and saves again, a decision is reserved, launched
under the locks, awaited without them and checked. A sandbox command and a
review hold no queue while they run, and come back through `StillFresh`. For a
validator that check and the write of its evidence are two actions (`CheckEvidence`,
then `PersistEvidence` or `EvidenceBreaks`): only the authority is held from one to
the other, and a fence, which takes the queue of the run alone, may close the run in
between. A
compare-and-swap is the set `seen`: a save by somebody else clears it. Receipts
are pairs of instruction and snapshot, because the digests the code compares are
functions of the two; the lease is "mine", another process's, or expired. The
budgets of decisions are one refusal that may come at any time.

### 2.5 CodingApp and ProjectDeletion

Both extend the engine and put actors around it. A private control is a chain
of steps in the principal's queue (`ctl`); a group control holds `auth` from its
first step to its last, which is what `withLinkedPermissions` does. A drive
(`drv`) is the loop that calls `advance`; its end waits for the principal's
queue. `boot` is the recovery at startup, which stops for good at its first
error. In ProjectDeletion `del` is a resumption: by the worker, which takes the
deletion's own queue, or by a member, which also holds the authority. Each step
is an effect and then a record of it, so that a crash falls in between; the first
lists the runs it has fenced in a save of its own before it is recorded.

### 2.6 SandboxLease

| variable | code |
| --- | --- |
| `journal` | the lease journal on disk |
| `mem`, `stale` | `records`, and the copies whose revision is no longer the journal's |
| `lease`, `banned` | `leases` (handles given out), `volatileQuarantine` |
| `op` | who holds `exclusive(leaseId)`, and at which await |
| `adm` | the allocation at the head of `exclusiveAdmission` |
| `sweep` | the recovery, fenceProjectRuns or drain that walks over the records |
| `late` | cleanups scheduled by allocations that timed out |
| `phase`, `recovered` | acceptingOperations, maintenanceSealed, drained; recovered |
| `box`, `bk`, `work` | containers, records and running allocations of the backend |
| `net` | requests on their way |

A compare-and-swap (`transitionRecord`, `journal.remove`) is `Outcomes`: what disk
and memory hold afterwards and what the caller saw. With failing I/O a write may be
refused, be durable with its answer lost, and be followed by a read that fails, so
that the copy goes stale. An operation of a lease is a chain of such writes
(`ToDisposing`, `Reject`, `Retry`, `Quarantine`, `Doubt`) that ends at the fence
request; `BkFence` sends a receipt or loses it, and only a receipt leads to `Remove`.
An allocation is a chain of its own: reap the expired, reap the unresolved, check
the limit, write the record, call, activate, or clean up. A request stays in `net`
until the backend takes it: a call that timed out for the runner can still be
executed, before or after the fence that was sent later.

Time is left out: any lease may be found expired and any call may time out. All
leases are of one owner and one project, so that the two admission limits are one
and a project fence covers everything. The listing of a drain and the replacement of
the copies are one step, since no tracked operation is left at that point. One
allocation at a time stands for the queue of admissions, which `exclusiveAdmission`
runs one by one. Left out: artifacts, snapshots, attestations, digests, quotas.

`SandboxPromise` sees the ids on record, the ids given up and the containers. The
refinement mapping is `held <- Journaled`, `gone <-` the ids generated and no longer
on record, `running <- box`.

## 3. What TLC checks

All runs use one prompt and interchangeable messages. Symmetry over messages is
used for invariants and action properties only, never with liveness.

| run | question | result |
| --- | --- | --- |
| `mailbox` | Three messages of any kind against one worker, with limits, deadlines and surface errors: are instructions kept, carried and never overtaken, does a closed run stay closed, does expiry take only the expired? | `TypeOK`, `AppliedIsSeen`, `MailboxKept`, `FreshDelivery`, `TerminalAbsorbing`, `ExpiryTakesExpired` hold |
| `crash` | Two runs, a crash at every point, failing writes, ambiguous transport, shutdown and reconnects: does the ledger tell the truth? | `FinalOnce`, `SentIsLedgered`, `ReceiptsTruthful`, `AnswerToDelivered`, `ImplementsBarrier` hold |
| `rights` | Erasure, consent, the chat's clarification checkpoint and failing writes: does anything erased come back? | `NoScopeCollision`, `NoResurrection` hold |
| `lane_safety` | Two runs, four messages, quoted replies, memory changes, limits, shutdown: who drops work that is queued? | `TypeOK`, `NotDropped`, `OrderlyExit`, `ErasedWhenSettled`, `QuoteNotOvertaken` hold |
| `lane_live` | Two runs, no quoted reply, fair event loop: does a run that somebody works on settle? | `RunSettles` holds |
| `coding_engine` | A group run with revisions, a patch, validators, reviews, a fence, failing storage, a crash and a project that moves: is what is committed what was proved? | `EffectHonest`, `NoOverlap`, `TreeMatchesRecord`, `CommitIsProved`, `TerminalIsFinal` hold |
| `coding_app` | A private principal and a group over one project that moves, crashes and failing writes: does everything end, and is a restart clean? | `ReferencedFirst`, `ReleasedWhenClosed`, `CleanAdmission`, `CancelEnds`, `DriveEnds` hold |
| `project_deletion` | A deletion with failing steps and a crash against a run in every stage: does it end, and does anything removed come back? | `StaysRemoved`, `NoBarrierBehind`, `Frozen`, `RecordsAccepted`, `DeletionCompletes` hold |
| `sandbox` | Two leases under a limit of one, crashes of the runner, restarts of the backend, failing journal, lost and late calls: does anything run that is not accounted for? | `CapHeld`, `ClosedEmpty`, `FenceProven`, `ImplementsPromise` hold |
| `sandbox_live` | One lease, the same faults, fair event loop: does every call end, and is a doubtful lease never used again? | `DoubtIsFinal`, `CallsEnd` hold |
| `lane_hang`, `group_cancel` | One documented promise each | violated; see section 5 |

### Bounds

- *Messages*: three let a correction, an answer and a cancel meet one attempt;
  with a mailbox of three the capacity and its reserved last slot are reached.
  `lane_safety` takes four, so that two arrive after a first pass was made stale.
- *Runs of an owner*: two in both lane runs, so that a second run is started while
  the worker of a cancelled first one is leaving, and its finally block looks at a
  record that is not its own. The hang needs one.
- *Saves* (`MaxRev`): a run needs start, anchor, begin, prepare and finish; the
  crash run allows six, the mailbox run nine, so that a second question round or
  a second pass fits. Where erasure and the chat multiply the states, four are
  enough for a worker to hold a prepared effect when the record goes.
- *Ids*: two where a successor run matters (a terminal record is replaced, an
  erased run is followed by another).
- *Queued writes*: two, so that a write of the active queue meets a foreign one
  in either order. The operation that holds the active queue has at most one.
- *Coding runs*: one instruction beside the first, one patch and two revisions of
  the project are what makes a receipt stale, a tree differ from its record and
  a commit meet a project that moved. `coding_engine` has one run, whose queues
  interleave with its own fence and with the members; `coding_app` has a private
  and a group run of one project but no patches (what a run does to the tree is
  the other run's question) and starts one run per behaviour, so that the two
  drivers are explored side by side without multiplying. A drive that ends while its
  principal already has *another* run is therefore not reached by TLC; the theorem
  `SessionKeepsRun` covers it, for any number of runs.
- *Liveness*: "every call ends" is stated as `[]<>` (the caller is idle), which says the same as
  "whoever is busy gets idle" and spares TLC a product with the property.
- *Leases*: two, with a limit of one, are a lease that is in doubt and the one that
  may take its place. The liveness run has one: a call waits for its own lease and
  the remote end only, and the second lease multiplies its graph beyond TLC's reach.
- *Passes*: two of eight: one that is overtaken, one that reaches the limit.

`CHECK_DEADLOCK FALSE` is set for WorkLane: its owner may fall silent with no
run at hand, and the process may end. It is set for the coding runs as well:
with every run closed and the bounds spent there is nothing left to do. AgentRun's
instances never stop, since the active queue can always be entered again.

### Fairness in WorkLane

`FairSpec` asks that handlers, ingress, workers, finally blocks and the drain go
on when they can: they are driven by the event loop, and the calls they wait for
(planner, transport, file) end, by their own timeouts. It asks nothing of the
owner (no message has to come) or of the operator (`Drain` need not happen).
Weak fairness of the groups is enough, because each group has one enabled
handler at a time.

### Fairness of the coding runs

`FairAppSpec` asks that an invocation, a control and a drive go on when they can.
Strong fairness where a queue is waited for: the queues are first come, first
served, so a waiter that finds its queue free again and again gets it. The
budget of an invocation is finite, hence the strong fairness of `LoopBudget`: a
worker may not be revised and decide for ever. Nothing is asked of members, of
crashes, or of the other run. `FairDelSpec` asks the same of an invocation, and
of the worker that it comes back (a timer), that a disposal eventually works and
that a GitHub effect does not stay unknown for ever; `QuiesceTimeout` is the
deadline of the wait.

### Fairness of the sandbox

`Fairness` asks that the admission, the sweep and the holder of a lease go on when
they can: every await of the runner is a journal call or a remote call with a
timeout, and `FenceUnconfirmed`, `AllocFails` and `ExecDoubt` are what a timeout does.
`AdmTake` and `SweepTake` are strongly fair, since `exclusive(leaseId)` is first come,
first served. Nothing is asked of the backend, the network, the disk or the callers.
`CallsEnd` therefore holds although every remote call may be lost.

## 4. What is proved

TLAPS checks these for every set of messages and prompts, every capacity, every
bound and every environment; the assumptions on constants are `CapAssumption`,
`NoneAssumption`, `NoRecordIsNone`, `NoMemoryIsNone`, `NoWorkerIsNone` (null is not one
of the records), `BoundAssumption`, `LaneAssumption` (at least one pass), for coding runs
`BoundsAssumption` and `EnvAssumption` (the bounds are numbers, group runs are runs, and
null, the fence and a member are told apart and are not runs), for deletions
`NoTombIsNone` and `MaxCrashAssumption` (null is not a deletion record, the bound of
crashes is a number), and for the sandbox `LeaseAssumption` (a positive limit, finitely
many leases, null is neither a state nor a lease).

- `AgentRunProofs!TypeCorrect`: `Spec => []TypeOK`.
- `AgentRunProofs!ScopeExclusion`: `Spec => []NoScopeCollision`.
- `AgentRunProofs!StaysErased`: `Spec => []NoResurrection`.
- `AgentRunLedger!BookedIsSeen`, `!OutcomeIsFinal`, `!MessagesAreKept`,
  `!ResultsAreFresh`, `!OneFinalMessage`, `!MessagesAreLedgered`,
  `!ReceiptsAreTrue`, `!AnswersHaveQuestions`, `!ExpiryIsExpired`: with the three
  above, every invariant and action property that a run checks of `AgentRun`.
- `AgentRunLedger!BarrierIsKept`: `AgentRun` implements `CommitBarrier`; and
  `!NothingAfterFinal`: `Spec => []Barrier!FinalLast`, nothing of a run leaves
  after its final message.
- `WorkLaneProofs!LaneTypes`, `!ShutdownIsOrderly`, `!MemoryChangeWaits`,
  `!QuotesComeFirst`: type correctness, `OrderlyExit`, `ErasedWhenSettled` and
  `QuoteNotOvertaken` of `WorkLane`, for any number of runs, passes and messages.
- `WorkLaneProofs!WorkNotDropped`: `Spec => NotDropped`, likewise.
- `CodingEngineProofs!EngineTypes`, `!OneCallPerRun`, `!TreesMatch`, `!EffectsAreHonest`,
  `!CommitsAreProved`, `!OverIsOver`: type correctness and the five properties that the
  run `coding_engine` checks of `CodingEngine`, for any number of runs and revisions.
- `CodingAppProofs!AppTypes`, `!WorkIsReferenced`, `!SessionKeepsRun`, `!AdmissionIsClean`:
  type correctness and every safety property that the run `coding_app` checks, for any
  number of private and group runs, of starts and of restarts; and
  `!EngineStatesHold`, `!CommitsStayProved`, `!OverStaysOver`: what the engine promises
  to its members holds under these drivers.
- `ProjectDeletionProofs!DeletionTypes`, `!RemovedStaysRemoved`, `!FenceNeverBlocked`,
  `!MarkedIsFrozen`, `!RecordsAreAccepted`: type correctness and every safety property that
  the run `project_deletion` checks, for any number of runs, crashes and resumptions.
- `SandboxProofs!Lifecycle`: `Spec => []IInv`, type correctness included.
- `SandboxProofs!CapIsHeld`, `!DrainEmpties`, `!FenceIsProof`: all that the run
  `sandbox` checks of the limit, the drain and the project fence.
- `SandboxProofs!DoubtStays`: `Spec => DoubtIsFinal`, for every number of leases; the
  run `sandbox_live` checks it with one.
- `SandboxProofs!PromiseKept`: `SandboxLease` implements `SandboxPromise`; and, through
  it, `!ContainersAreRecorded`: `Spec => [](box \subseteq Journaled)`, no container is
  ever of a lease the journal has no record of.

*AgentRun.* `TypeOK` is not inductive. `ExecuteSave` reads the attempt of the worker whose
save executes, `Deliver` reads the effect and the checkpoint of its snapshot,
`Prepare` reads the prompt of an attempt that is about to ask: those are there
because of how the operation came to its stage. `IInv` adds that knowledge:
`OpShape` (what the holder of the active queue has at each stage), `AskShape`
(an attempt about to ask has a prompt) and `PendShape` (at most one queued write
belongs to the active queue, its kind matches the stage of the holder, and a
prepared draft has an effect). TLC checked `IInv` as an invariant before the
proof. The proof has a lemma per group of actions; the queue lemmas
(`IssueAppends`, `IssueOwn`, `IssueOther`, `TakeOwn`, `TakeOther`) carry
`PendShape` through appends and removals, and `ActiveRunProofs` types the pure
transitions. `NoScopeCollision` is inductive together with `IInv`: a run is
saved only where no checkpoint is, and a first checkpoint takes the run's place.

*What was erased.* A write in the file queue was computed from a snapshot that may be
gone when it executes. `Revised` says that no snapshot and no queued save is newer
than the record in the file, and `FreshIds` that a save creates a record only under
an id that nobody knows: not the file, not another queued write, not what was erased.
A save of an erased run then finds no record to swap with. The lemma `Steps` sorts
the actions by what they do to queue and file (`Enters`, `Leaves`, `Advances`,
`Issues`, `SaveExecutes`, `OtherExecutes`), and all that follows splits on it instead
of on the actions.

*The ledger.* The file queue executes other writes between those of the holder of the
active queue, so the record may vanish under it, but nobody else changes it: while an
operation holds the queue, the file has the record it loaded, or none (`Coherent`, in
`QueueInv`). Hence every save that reaches the file takes the record in the file one
step further (`SaveReaches`), each step keeps what a record says of itself (`Sound`:
what is booked as applied was shown, and an announced result has seen all), and the
worker never knows less than the record (`AttemptSees`). `Core` is all of that;
freshness, the finality of an outcome, and the mailbox follow from it step by step.
What left for the user is compared with the record by `LedgerInv`: a message out is
the announced effect or has a receipt, its effect is not newer than the record's, a
delivery under way holds the intent that is in the file. `DropsExpired` says of a
queued purge what its reader saw. The refinement needs both: `BarrierSorts` maps
each kind of save to a step of the barrier.

*A finding of that proof.* `CommitBarrier` used to demand that whoever announces an
intent also starts its delivery. That is so only while nothing is erased: a save that
executes after the owner's erasure throws at its caller. TLC did not see it because the
run `crash` has no erasure. The barrier now says what the service promises in every
environment, and that is what is proved.

*WorkLane.* Handlers and worker meet only at the record and at two guards, so the
invariant says what each may still assume of the other while it waits. `IInv` joins
`TypeOK` with `WorkerShape` (what the worker's stage tells about its result and, at
the barrier, about the record), `RecordShape` (a record says that it runs only while
its worker is at it, and announces an effect only while a commit waits), `TurnShape`
(the run a handler has looked at is still the record; before its launch a new run has
no worker; what a memory change is about to remove is closed), `SourceShape` (until its
handler posts it a message is in no mailbox, so a cancel is never taken for a repeated
message), `IngressShape` (an admitted quote holds its reservation until its handler has
ended) and `ModeShape` (work is stopped when the chains are empty, and the end comes
when the worker is gone). TLC checked `IInv` first. Each action has a lemma;
`WorkStays`, `HandlerFrame`, `WorkerFrame` and `LaunchKeeps` carry what an action
leaves alone.

That queued work always has a hand on it (`Attended`) is false: section 5 has the two
ways to strand a run. What is proved is that there is no third. `HandsKept` looks at
each step after which a queued run has neither worker, finally block nor handler: it is
the end of a handler that did not wake the run (`Unwoken`), or the launch of a new run
while a worker of another is there (`KeptOut`). A worker that leaves hands its run to
its finally block. That one relaunches what is queued, unless a worker is there already;
and whoever is in the map before it has looked is a worker of the same run
(`FirstHand`, kept by `FirstHandKept`, since a new run has a new id: `SameRun`,
`WorkerOf`).

*Coding runs.* What is proved before a commit is proved of a record, a tree and a history
that are written one after the other, with crashes, a fence and other members between, so
the invariant says what holds between two writes. `IInv` joins `TypeOK` with, per run:
`LockShape` (an operation with a visible middle has its queues for as long as it is in
it) and `FenceShape` (a fence that saves has the queue of its run), which keep everybody
else out of that middle; `ProvingShape` (evidence that is being written is of the
record's instruction and diff, also of a record that a fence has just closed: whoever
changes either needs the authority, which the writer holds); `FlightShape` (a provider
call belongs to an invocation that waits for it or cannot end before it); `RecordShape` (a record is on its barrier exactly
when an effect is pending, and what is pending is what was validated, recorded and
reviewed); `MiddleShape` (what a patch or a commit may still rely on: in particular a
commit has no effect yet, and its tree is the pending one); `EffectShape` (at most one
effect, and while its record is there only of a run that is completed or on its barrier);
`TreeShape` (outside an operation the tree in memory is the recorded one); and
`KnownShape` (what bears the name of a run has its record). TLC checked `IInv` first, completely
with one run and far into the state space of two.

The proof goes in two halves. Queues, calls and places (`Orderly`) depend on nothing
else; a step `Walks`, `Takes` or `Gives` a queue, and the fence and the provider have
lemmas of their own. Then `Sorting` puts every step of the fifty actions among four kinds
by what it does to the durable state: `Notes` (at most evidence of the instruction and
diff its run has),
`Works` (a save of a run that goes on), `Ends` (a record that closes without an effect),
or one of the eleven steps with a visible middle, each of which has its lemma
(`PatchWriteKeeps` to `StartKeeps`). The two action properties split on the same kinds:
only `FinalizeCommit`, `CommitLost` and `RecoverCommit` append a revision of a run
(`Committing`), and each of
the kinds but `Notes` is a step of a run that is alive (`SpecialIsAlive`).

*The application.* Controls, drives and recovery use the engine; some of their steps are
operations of a member as they are, others hold the authority over several of them, write
under it, interrupt or admit. `Calls` in `CodingEngineProofs` says what such a step may do
(`Launches`, `Interrupts`, `StartsHolding`, `LetsGo`, `SavesHolding`) and `InvariantKept`
covers it, so the application has to show only that its steps are of these kinds
(`SilentSteps`, `UsingSteps`, `AdmittingSteps`, `HandlingSteps`, joined in `AppSorting` and
`EngineSteps`), and the engine's promises follow at once. To show it, it must know what it
has seen before: `AInv` joins `IInv` with `AppInv`. `CtlShape`: a control is of a run that
has a record, and there is none before members are admitted. `HoldShape`: a group control
has the authority from its first stage to its last, so no operation is in a visible middle
meanwhile; that is why it may save without taking a queue again. `SessionShape`: from
`saving` to `clear` the session is what the control believes, although drive and recovery
write it too; that is what `ReleasedWhenClosed` needs. `DriveShape`: a drive that is about
to clear the session is right that its run is over, although it read that some steps
before. `RefShape`: a group run is invoked, driven or scheduled only under its reference,
and without one nothing of it can be pending, so recovery may cancel an orphan without
looking for its effect. `BootShape`: of what recovery has gone past nothing is on a barrier
of the dead process; `MineStays` keeps that while the drives that recovery has started work
on. TLC checked `AInv` first, completely with one run and for five million states of two.
The proof that a step keeps it looks at session, controls, drives and recovery one by one:
`SessionSteps`, `CtlSteps`, `DriveSteps`, `RefSteps`, `BootSteps` say who changes each.

*Deletion.* The deletion works on the same records, trees and evidence as the engine, beside
it and through crashes. That it breaks nothing the engine relies on is a proof of its own:
`InvariantKept` is stated over `Moves`, the steps of the engine and a restart, and a
deletion step only takes away (`TakesAway`): what it leaves alive it leaves alone. With
`Quiet` (no operation is in a visible middle behind the tombstone: `FreeIsQuiet`, because
the request has the queues that such an operation holds) this keeps `IInv`
(`TakingAwayKeeps`). `KnownShape` is there for it: evidence goes before the records, so no
evidence is left behind a record. Conversely `Behind` says that an engine step, whichever
of the fifty, adds nothing to a marked project. `DInv` joins `IInv` with `Marked` and
`Progress`, what a resumption may rely on at each stage: the runs it has passed are fenced,
all that exists is still to be visited, what was listed is recorded. TLC checked `DInv`
first, completely with one run and far into the state space of two.

*Sandbox.* A lease is `Dead` when it has no container, no allocation in progress and
no request that the backend would still honour. That is stable: only the creation of
the lease can end it (`DeadStays`), and a fenced one not even that. `IInv` relates it
to what the runner knows: without a record a lease is dead (`Contained`), a receipt
proves it of a lease that still has one (`Receipt`), and a runner that has read the
journal holds a copy of all that is not dead (`Loaded`). The last is what lets the
admission count copies: the limit is proved for `Alive`, the leases that are not dead
(`CapInv`), of which the containers are a part. `Coherent` (a copy not known to be
stale is the journal's) gives the outcomes of a compare-and-swap, `Staged` and
`Closing` the order of recovery, admission and drain. `Writes` and `RunnerFrame` sort
the steps by what they do to the records and to the backend; every later lemma splits
on them instead of on the actions. TLC checked `IInv` first.

`DoubtIsFinal` promises something of every later state, so it needs a state predicate
that a doubt makes true and no step makes false again. `Spent` is that: the id is used,
no call to allocate it is on its way, no command runs, and a handle, where there still
is one, is banned. A listing of the journal forgets a ban only together with the handle,
a crash forgets both, and an id is generated once, so no handle comes back. `Served`
says why a command in doubt has such a lease: a handle is given out when its allocation
is over. TLC checked both with two leases before the proof.

For `NothingAfterFinal` the strengthening is `Newest`: the effect in delivery is newer
than all its run has sent, unless it is itself among them. It is kept by every step of
the barrier, and the steps of the service are such steps.

Only model-checked: liveness (`RunSettles`, `CancelEnds`, `DriveEnds`,
`DeletionCompletes`, `CallsEnd`), which is out of the prover's reach.

## 5. Where the code and its documents part

Each of the first two is a run that TLC refutes with a trace through the model.

1. `lane_hang`: a reply reserved after the commit took the active queue needs
   that queue before it can release the reservation the commit waits for. The
   shutdown, which drains the chains first, then runs into its forced exit.
2. `group_cancel`: the group controller interrupts a run while it holds the
   workspace authority, and waits for the invocation; the invocation needs the
   authority to end. The cancel, and every later use of the workspace, waits.

Found with the same models, told here without a run of their own:

- *A second question*: `commitActiveQuestion` keeps the answer of the previous
  question beside the new one (`agent-run-service.ts:798`); the repository's
  validator refuses the record, and a run whose planner asks twice is failed by its
  own commit (`WorkDoesNotFail` of AgentRun).
- *A lost revision*: a revision that finds the drive of its run in the map only
  flags it (`private-coding-application.ts:692`); a drive whose invocation returned
  without an error does not look at the flag (`:848`). The revised run stays
  `running` with nobody to drive it (`RunningIsDriven` of CodingApp).
- *A lost answer*: a correction that follows an accepted answer before the worker
  started clears `resumeAnswer` (`agent-run-service.ts:734`), and the rebase does
  not carry answers (`AnswersCarried`, defined in AgentRun).
- *A pause that cannot be stored*: a shutdown during an attempt that consumed an
  answer; the checkpoint has no prompt, the record still has the question, and
  the run fails (`ShutdownPauses`).
- *A late delivery*: past its last scope check a delivery waits for reserved
  ingress and sends, although the owner has erased the run (`NoDeliveryAfterErasure`).
- *A stranded run*: work that is queued with nobody who will do it, until the owner
  writes again or the process restarts (`Attended` of WorkLane fails). A run started
  while the worker of a cancelled predecessor is leaving is refused its worker, and
  that worker's finally relaunches only its own run (`create-bot.ts:5187`, `:5252`).
  Or an answer is stored and queues its run, and its handler is superseded or cannot
  send the acknowledgement (`:5113`, `:5125-5127`): it ends before the launch.
- *Late evidence*: a fence that cancels a group run between the check of a validator's
  result and the write of its evidence (`coding-run-engine.ts:1976`, `:2003`, `:2027`)
  leaves a closed run with a new evidence file. It is of the instruction and diff the
  run ended with, and nothing is committed on it (`TerminalIsFinal`).
- A WhatsApp reconnect requeues a run whose worker is alive, which then settles
  it as failed; a clarification that plain chat cannot store erases every record
  of the owner, a live run included.
- A restart within the writer's lease (15 minutes): recovery drives the run, its
  reservation is refused, the drive stops, and revise and cancel are refused too.
- A private run whose session could not be saved lives on with no session; for
  group runs the orphan is cancelled at the next start, for private ones not.
- Recovery at startup is all or nothing: one run that cannot be loaded or
  reconciled keeps the runtime closed. A commit whose answer was lost is only
  reconciled there.
- A rollback or import ignores a run on its commit barrier, which then ends as
  `partial`. A session may keep a foreground run that a revision found stale; and
  after its project was deleted, cancel and start of that principal throw.
- `resume` of a deletion holds the authority while it waits for operations that
  need it, so it always spends its deadline when one is in flight; the worker,
  which does not, finishes.

## 6. Not modelled, and the plan

Left out of the modelled components: texts, rendering, the anchor's edits and
pin, usage attribution, exports, JSON decoding of corrupt files, more than one
scope in one file (removals by owner touch each scope alone), planner turns;
of sandbox leases artifacts, attestations, quotas, several owners or projects, and the
operations that were queued for a lease and run after a stop (a drain waits for them);
of the drivers the error branches that touch nothing the properties speak of (the cancel
of a run not admitted, a listener that throws before its drive starts);
of coding runs the contents of trees, digests, questions, local git commits,
uploads, downloads and GitHub handoffs, and several projects.

In the order of their weight:

1. *Usage and economy ledgers*: reservation, attempt, settlement at delivery.
2. *Reply obligations and the message batcher*: the reply that is owed after a
   crash, debounce generations and supersession on an owner's chain.
3. *Group AgentRun*: `GroupRun` (record, claims, anchors, deliveries) as a second
   implementation of `CommitBarrier`, composed with a cleanup fence and
   authority that vanishes.
4. *GitHub effects*: phases and reconciliation of unknown outcomes.
5. *Several owners and accounts*: the recovery loop that ends at the first anchor
   it cannot send, and the one that requeues other accounts' runs.
