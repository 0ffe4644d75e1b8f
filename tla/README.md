# Verification of agentflare

TLA+ models of the parts of agentflare that hold state across threads,
processes and restarts, the TLC configurations that check them on small
instances, and TLAPS proofs of what matters most for every size of instance.

agentflare supervises coding agents: a daemon discovers work items, claims
them, dispatches each one as a persistent job, and drives it through a durable
workflow; a CLI and an MCP server (separate processes, often several at once)
read and write the same SQLite files at any time.  What is hard is what this
implies: several processes write one row, workers and executors outlive the
timeouts that gave up on them, and a crash may fall between any two writes.

## 1. Inventory

| component | state | operations | interacts with |
|---|---|---|---|
| Job queue and worker pool (`crates/agentflare-jobs`, `src/dashboard/{server,orphan_reconcile,dispatch_boot}.rs`) | `agent_jobs` rows; worker threads; executor threads; the process-wide cancellation registry | enqueue, cancel, request_cancel, cancel_for_item, dequeue, complete, fail, boot reconciliation, stale sweep, clean-up | called by the CLI, the MCP server, the dashboard and the supervisor; its executors run workflows; its terminal-failure hook releases work items |
| Durable workflow engine (`crates/flare-workflow`) | one `workflow_state` row per run (status, steps, executor lease), an append-only step journal, the in-memory `driving` set and renewers of each engine | start, recover, resume, cancel, pause, drive, renew, release, step execution, sleep and event waits | a job's executor drives a run; CLI and dashboard cancel and pause it from other processes |
| Workflow scheduler (`src/schedule`) | `schedules` and `schedule_runs` rows; the in-flight set and fire tasks of the daemon; start receipts | create, update, enable, remove, manual fire, tick (claim_due_slot, claim_queued, reconcile, prune), fire, eager outcome write | starts workflow runs and reads their status and lease; edited by the CLI and the MCP server |
| Claim ledger (`agentflare-db-kit/claim.rs`, backend `claim.rs`, `item/claim.rs`, `src/claims.rs`, `src/claim_liveness.rs`) | one claim row per item with owner and last touch; the item's state and assignee | acquire, heartbeat, steal, release, done; the liveness sweep | taken by executors and by agents over MCP; judged by the sweep from the queue's rows |
| Supervisor dispatch (`src/supervisor.rs`), dispatch failure ceiling | labels and comments of the item | the discovery tick (find, enqueue, swap labels), the review sweep, the count of failed cycles | reads the item and the queue, enqueues jobs, promotes merged items |
| Work-item pipeline (`src/work_item_pipeline`), `src/cli/work.rs` | a run per item, its waiter, the executor's claim | start, adopt, take over; finalize with `item_done`; give up, stop | workflow engine, claim ledger, git, GitHub |
| Item handlers of the MCP server, CLI and dashboard (`src/mcp_server/item*.rs`, `src/job_controls.rs`) | none of their own | claim, release, done, redispatch, reassign, cancel, pause, resume | other processes: each step lands between any two of the daemon's |
| Backend CRUD, messages, memory, store, quota, channels, approval, sandbox, vault, consensus, git shim | rows of their own, or none | request handlers, policies, text | mostly single-statement writes or pure functions |

Hard behaviours, and the property that makes each component correct:

* **Job queue.** A watchdog gives up on an attempt that keeps running; its
  retry and it then share a job id, a registry key and a row.  Correct: one
  live worker per job, a cancel is final, an outcome is not rewritten, a
  running row is always somebody's, a permanent failure is always handed on,
  and every job settles.
* **Workflow engine.** `update` is a load, a mutation and a whole-row write
  serialized by a mutex *of one store handle*, so the update of one process may
  write over that of another; leases are renewed by a task beside the driver;
  pause and cancel come from other processes.  Correct: a terminal status stays,
  one driver per run, a paused run stays paused, and recovery repeats no
  journaled step.  The first three the code keeps only while no update is lost;
  what is checked and proved is how much each lost update can cost.
* **Scheduler.** An occurrence is claimed, started and linked in three
  transactions, while its run may already be over, and its run may be evicted
  or orphaned before anybody looks.  Correct: a start happens at most once, an
  accepted occurrence settles, its outcome is that of its run and stays, and
  under overlap "skip" two slots do not run together.
* **Work item** (ledger, supervisor, pipeline, handlers). Whether an item is
  queued, worked on, submitted or over is spread over its state, its labels, a
  ledger row, queue rows, a run, comments and a pull request; nobody writes two
  of them at once.  Correct: one worker at a time, whose live claim is only
  taken by itself or an operator; no claim or label is left for nobody; a
  ready item is served and a dispatched one ends; a failing item is given up;
  an item is completed only by a merge, and what is over stays so until
  somebody takes it, or puts it back to what it was when he took it.

`PROJECT.json` lists every component with its status, and every hazard at its
line.

## 2. Plan

Order of work, the most important behaviour first:

1. `JobQueue` -- done. The table, the pool, the watchdog, boot and sweep.
2. `WorkflowLease` -- done. Who drives a run, across processes.
3. `WorkflowRun` -- done but for the extensions below. How one driver executes
   a run over its step graph, and how the journal carries it over a crash.
4. `Scheduler` -- done for one schedule and one daemon.
5. `WorkItem` -- done. The claim ledger, the supervisor's dispatch, the
   pipeline and the handlers compose in one module, because the hazards are
   between them; `ItemLife` is its abstract specification.

Left, in the order of their worth:

* `WorkflowRun`: a store error that makes the driver leave with step tasks in
  flight; `Sleep` and `WaitEvent` steps with `complete_event` (an event
  delivered before the wait begins, a wait that timed out replayed as a
  success).
* `WorkItem`: planning gates and dependencies, the stray and untracked pull
  requests of the review sweep, a forced takeover, two items that compete for
  one project's cap.
* `Scheduler`: a second daemon (the singleton lock only warns when it cannot be
  taken), and a schedule that is removed while it is dispatched.

Abstract specifications, one for each of the five modules, each stated, checked
and proved to be implemented (section 5): `JobLife`, what the queue promises of a
job (`JobQueue`, its workers, threads and clocks hidden); `ItemLife`, the life of a
work item (`WorkItem`); `RunRegistry`, a run as one atomically updated record, but
for the updates that were lost, which it counts (`WorkflowLease`, its loads, locks
and clocks hidden); `RunLife`, a run as a journal in which each step, and each
compensation, is entered once (`WorkflowRun`, its driver, tracker and channel
hidden); `OccurrenceLife`, what becomes of a slot or a manual
fire and of its run (`Scheduler`, its ticks, fires and leases hidden).

Theorems: done is the safety of the five modules and the five refinements
(section 5). To prove next: the extensions named above, each with its own
invariant.

The modules keep to what the provers can work with: constants with named
assumptions, one action per operation, no `RECURSIVE`, invariants as
conjunctions of named parts.

## 3. What is modelled

### 3.1 JobQueue

The columns of `agent_jobs` are functions over `Jobs`; every SQL statement or
transaction of `queue.rs` is one step. A worker (`pc`, `job`, `elapsed`,
`inbox`) is a thread of `worker.rs`; an executor thread is a pair of a job and
the retry it was started for (`threads`), so an attempt that outlives its
watchdog stays in the model beside its retry. `check` is the process-wide
registry of `cancel.rs`, keyed by job id, `abandoned` the flag a watchdog
raises. Clients (CLI, MCP server) enqueue and cancel in any mode of the daemon.

| code | actions |
|---|---|
| `Queue::enqueue`, `cancel`, `request_cancel`, `cancel_for_item` | `Enqueue`, `CancelQueued`, `CancelRunning`, `CancelForItem` |
| boot, `reconcile_orphaned_running`, release of the items | `Boot`, `ReconcileOrphan`, `ReconcileFails`, `StartPool`, `ReleaseItem` |
| `reconcile_stale_running`, `cleanup` | `SweepStale`, `Cleanup` |
| worker loop, `run_in_process` | `Dequeue`, `DequeueUnreadable`, `OpenFails`, `SpawnExecutor`, `ReceiveOk`, `ReceiveFailure`, `WatchdogFires`, `GraceExpires`, `CallHook`, `WorkerDies` |
| the subprocess executor | `SpawnFails`, `SubprocessExits`, `SubprocessKilled` |
| the executor returns, fails, panics or hangs | `ThreadEnds` |
| process death, a write that fails | `Crash`, `OutcomeLost` |

Time is the age of a timestamp, saturating at the largest age a guard tells
apart; one unit stands for about 30 seconds. Not modelled: graceful shutdown,
log files, the sandbox, the effective-agent sink, queries. The executor itself
is external: it may do nothing for ever.

`JobLife` is what all of this promises of a job: it is worked on by one at a time,
only who works on it has it tried again, a cancel is for good, a failure for good is
owed to the item until its side is told. Threads that are abandoned, inboxes, checks
and clocks are not in it; a sweep that presumes a live worker dead, a row that is
cleaned up under its worker and a debt that dies with a process are.

### 3.2 WorkflowLease

One row (`status`, `owner`, `age`) and the engines of several processes.
`StateStore::update` is two steps, a load that opens `txn[e]` and a commit
that runs the closure on what was loaded and writes the whole row back. The
`update_lock` is made when a store is opened and shared by its clones
(`sqlite_store.rs:48,57`), and the executor id is one per process
(`engine_lease.rs:23`): each engine of the model has its own lock (`LockFree`),
and two updates exclude each other only when they are of one engine. An update
is `Stale` when another engine has written the row since it was loaded; its
write then undoes that one, or decides without having seen it, and `lost` counts it.
`drv` is the driver task and `driving` in one, `superseded` the mark of the
renewer, `listed` a recovery or a resume between its read of the row and its
claim, `due` the time since a timely driver last wrote its lease.

| code | actions |
|---|---|
| `start_workflow`, `recover`, `resume_workflow`, `resume_run` | `Start`, `Find`, `FindPaused`, `Claim`, `ClaimRefused`, `Take` |
| `renew_lease_loop` and its abort | `RenewOpen`, `Renew`, `RenewAborted` |
| the driver at a step boundary and its end | `DriverStops`, `RunStep`, `Finish`, `DriverErrs`, `BudgetExpires`, `SettleOpen`, `Settle`, `ReleaseOpen`, `Release`, `ReleaseFails` |
| a step task, sleep and event waits | `StepOpen`, `StepWrites`, `StepStops`, `SleepOpen`, `Sleep`, `WakeOpen`, `Wake` |
| `pause_workflow`, `cancel_workflow` | `PauseOpen`, `Pause`, `CancelOpen`, `Cancel` |

What a lost update costs. The properties do not leave it out, they count it:
`SettledStays` says that nothing else changes the status of a settled run,
`AnnouncedOnce` that every announcement beyond the first took one, `DriverHoldsLease`
that each ousts at most one driver that renews in time, `OneDriver` (proved) that each
lets one more of them drive, and `RunRegistry` that every action is decided on the
record as it is, or on another one and is counted. With `lost = 0` they are the plain
properties.

Abstractions: one step task at a time (the graph is `WorkflowRun`'s); the
announcement of an outcome is part of the commit that decides it; a clock unit
is a renewal interval, and an engine outside `Slow` writes its lease before it has
not done so for `TTL`. A renewal that fails or finds its row gone is an engine that is
late, so `Slow` stands for it. The write of an update whose future is dropped (an
aborted renewer, a budget's deadline) runs on a blocking thread and lands with the
abort or not at all, where the code lets it land a little later. An engine that
drives a run finds it in vain (`claim_driving`), so `Find` leaves that out. Not
modelled: data patches, eviction and clean-up of old runs, the waiters'
limit of three take-overs, a clock that jumps.

`MayOverlap` is a bound of the search only: which operations may overlap those of
another engine (`Racing`), and how many updates may be lost (`MaxLost`); where the
bound does not let an update in, it waits. `Operators` bounds the engines at which
somebody pauses, resumes or cancels. The theorems hold for every choice of the three.

### 3.3 WorkflowRun

One run and one driver (that it is one is `WorkflowLease`'s subject). Variables
come in the groups of the code: the durable row and journal; the locals of
`execute_workflow`; what it shares with step tasks (`StepTracker`, the channel,
`collect_buffer`); the tasks. `driver` says where the loop is:

| code | actions |
|---|---|
| replay of the journal | `Load` |
| one round of the loop: look at the status, drain the channel, plan and launch, wait | `Look`, `Poll`, `Plan`, `Receive`; `StopForPause` |
| settling, `finish_workflow_failed`, `run_rollback_phase` | `Complete`, `BeginUndo`, `Undo`, `JournalUndo`, `PassOver`, `Fail` |
| `execute_step_with_retry` and the task around it | `Attempt`, `NoAttempt`, `Skip`, `Succeed`, `JournalSuccess`, `Accumulate`, `Stopped`, `Retry`, `FailStep`, `JournalFailure`, `CollectOutputs`, `Report` |
| other processes, the end of this one | `Pause`, `Resume`, `Cancel`, `Crash`, `Recover` |

Granularity: a section under the tracker's lock is one step, and so is each read or
write of the store; a step task may go on between any two of them. In particular the
status is read (`Look`) before the channel is (`Poll`), and a success is written to the
row (`Succeed`) before it is journaled (`JournalSuccess`); a rollback handler runs
(`Undo`) before its result is journaled (`JournalUndo`), so a crash between the two
makes it run again. `Plan` takes the tracker's reads of one round together: only the
driver launches, and a completion that falls between them is found in the channel in
either order.

Abstractions: the journal is the last `StepRun` result of each step; `startedBy` is the
order of `started_at` among the steps with a rollback handler; an output is the set of
steps it came from; what the handler of a rollback returns is not told apart, nor are
its retries; that a skipped step's status is written after its report is a choice of
`Skip`; status `Waiting` counts as running. Not modelled: `Loop`, `Sleep` and
`WaitEvent` steps, `delay` and `scheduled_at`, step data and variables, budgets, hooks
and events, store errors, cancel with rollback.

`RunLife` is what all of this promises of a run: a log in which each step is entered
once, as a success or a failure, and each compensation once, after those of the steps
built on it. Two of its actions say what the code does against its comments, and say
so: `Crash` throws away a handler that has run and is not entered, which then runs
again; `Stray` attempts a step below one that is blocked by a failure, because the
engine takes the blocked step, once it is marked skipped, for settled (see "Met while
modelling"). Every other attempt is of a step whose dependencies are `Settled`.

### 3.4 Scheduler

One schedule (`exists`, `enabled`, `every`, `next`), its occurrences (`status`,
`startedAt`), the runs they start (`run`, `fresh`) and the daemon's tasks: the
part of `tick_once` under way (`tick`, with its `tickAt` and what it still does
with each occurrence, `todo`), a fire per occurrence (`fire`; not "none" is the
in-flight set), a driver per run (`driver`). Each store call is one step, and
everything else may happen between two of them.

| code | actions |
|---|---|
| `create_schedule`, `update_schedule`, `set_enabled`, `remove_schedule`, `enqueue_manual` | `Init`, `Update`, `Enable`, `Disable`, `Remove`, `EnqueueManual` |
| another process pauses or cancels a run; eviction | `PauseRun`, `CancelRun`, `Evict` |
| `tick_once` | `TickBegins`, `ListDispatched`, `ClaimDueSlot`, `NothingDue`, `ClaimQueued`, `SpawnFire`; `ClaimErrs`, `TickFails` |
| `reconcile_dispatching` | `LeaveDispatching`, `LinkStarted`, `RetryLost` |
| `reconcile_linked_run`, for the tick and for a fire | `Converge`, `LeaveAlive`, `SeeOrphan`, `CancelOrphan`, `OrphanRevived`, `OrphanEnded`, `SettleInterrupted`; `ReconcileErrs` |
| `fire_one`, `start_workflow_once_with_params` | `FireMovedOn`, `FireLooks`, `FireBadDefinition`, `StartOnce`, `FireLinks`; `FireErrs`, `StartErrs` |
| the run's driver and its lease; `on_terminal` | `DriverSettles`, `DriverStops`, `DriverErrs`, `EagerWrite`, `EagerFails`, `LeaseAges`, `Renew`, `Suspend` |
| time; the daemon dies and is started again | `Advance`, `Crash`, `Restart` |

Abstractions: a scheduled occurrence is named by its slot, and a run by its
occurrence, because a start key has one receipt; that there is a receipt is
`run[o] # "none"`, and it outlives the run's row ("evicted"). The workflow
inside a run is `driver` alone: it settles, errs or stops. A lease is fresh or
not, and read only while its run is running. The attempt's time stamp is kept
while it is read. The clock is monotone and ends at `Horizon`, which stands for
every later time. Not modelled: pruning (it deletes settled rows, which no
guard reads), freezing on malformed parameters or overflow, the UNIQUE branch
of a claim (`NextSlotIsFree` says one daemon never takes it), other schedules,
a second daemon, changes of `overlap` and `grace_secs`, the definition a fire
compiles.

`OccurrenceLife` is what all of this promises of an occurrence. A slot is admitted
or skipped once, in the order of time, and under "skip" only while nothing is open;
an open occurrence is run at most once; it is given up or expires only while it was
never run; what settles it agrees with its run (`Tells`), as far as the engine still
knows it; and only the removal of the schedule takes an outcome away. The clock, the
status columns between "queued" and "dispatched" (all "open", `Phase`), the fires,
drivers and leases are hidden.

### 3.5 WorkItem

One item, from the label that makes it ready to the merge of its pull request.
Its state is that of the code: `group`, `assignee`, `labels`, `pr` (the item),
`holder`, `claim`, `age` (the ledger row), `past`, `cycle`, `stopped` (its
comments, as far as the failure ceiling reads them), `row`, `tries`, `payload`
(the queue), `run` and `driver` (the workflow run), `at`, `who`, `step`, `seen`
(executors, and agents in sessions), `before` (what a claim found, until its
worktree stands), `tick`, `pick`, `suspect`, `watch`, `hook`, `boot` (what the
daemon's threads carry from one step to the next), `call`, `heir` (the rest of an
operator's call). A step is one transaction under `with_backend_db`, or one call of
the queue, the run store or GitHub: the mutex of `with_backend_db` is each process's
own (`mcp_server.rs:174`), so a statement outside of a transaction is a step too
wherever others can meet its effect. Whatever the code reads in one step and uses in
the next is a variable.

| code | actions |
|---|---|
| `run_discovery_tick`, `decide_for_supervisor`, `dispatch_item`, `record_supervisor_action` | `TickLists`, `TickFinds`, `TickSkips`, `TickRefused`, `Enqueue`, `Swap` |
| `claim_liveness::sweep` | `SweepSuspects`, `SweepForgets`, `SweepReleases` |
| the review sweep, `promote_verified_merged_item` | `SweepFindsMerged`, `Promote` |
| `WorkItemExecutor::execute`, `execute_work_impl` | `Dequeue`, `Prepare`, `JobClaims`, `SetUpFails`, `RollBack`, `Drop`, `DropEnds`, `StopOnRequest`, `Report`, `FailureHook` |
| `adopt_existing_run`, `run_or_resume_with_sender` | `AttachRun`, `WaiterSeesEnd`, `WaiterSeesJobCancelled`, `WaiterLosesClaim`, `TakesOver`, `Heartbeat` |
| the agent's step, `finalize` and its retries; the driver errs | `DriverErrs`, `AgentEnds`, `Finalize`, `FinalizeReleases`, `FinalizeGives`, `FinalizeEnds`, `FinalizeRetries`, `FinalizeFails` |
| `item_done` | `DoneBegins`, `DoneSteals`, `SeesMerged`, `MarkCompleted`, `Push`, `PushFails`, `NothingDone`, `MarkInReview`, `DoneCloses` |
| an agent in a session of its own | `SessionClaims`, `SessionReleases`, `SessionGives`, `SessionCallsDone`, `SessionReturns`, `SessionExits` |
| `item_redispatch`, `item_update` | `Redispatch`, `HandJobs`, `HandClaim`, `RedispatchSame`, `Reassign` |
| `item_cancel`, `item_pause`, `item_resume`, `cancel_job`, `workflow cancel` | `BeginCancel`, `BeginPause`, `StopRun`, `StopJobs`, `CancelItem`, `StopItem`, `Resume`, `CancelJob`, `CancelRun` |
| the daemon dies; `orphan_reconcile` | `Crash`, `Restart`, `ReleaseOrphan`, `GiveOrphan`, `RestoreOrphan` |
| time, GitHub | `Age`, `PrSettles` |

Abstractions. The queue is reduced to what an item sees of it: `JobQueue` has
its watchdog, its abandoned attempts, its sweep and its registry. The run is
reduced to its status and the step under way: `WorkflowRun` and `WorkflowLease`
have the rest. A driver whose write fails leaves between two of the agent's
steps, not beside one. GitHub is reachable, and the item's branch has at most one open
pull request. An agent's turns are one step that ends well or fails. A waiter
that was superseded steps aside at once, and one that waits for a run that was
replaced reads the old run's status when the new one starts. The promotion of a
merged item stops its jobs in the same step, and a hook posts the cap's comment
in its own. A client does not die in the middle of `item_cancel`, and one operator's
call of several steps is under way at a time. `run_sweep` and the tick run one after
the other in one loop; the model lets them interleave, which only adds behaviours.

What is still one step where the code has several: the tick's look at an item after
its listing (paused, waiting for a decision, claimed); the failure comment with the
second transaction of the release it follows (`DropEnds`, `GiveOrphan`); the labels
with the claim at the end of a cancel or a pause (`StopItem`); `item_done`'s check of
the owner with its heartbeat (`DoneBegins`). The second release of the claim guard is
left out because it finds nothing, and a session's claim always gets its worktree.

Not modelled of these files: completion without a pull request
(`hold_unverified`, `no_pr`), review-only and hold finalizes, the repair of CI,
auto-merge; planning, decisions, dependencies, the resource gate, per-project
caps and cooldowns; quota failover; collisions of worktrees; the cap of three
identical failures; `item_update_state`; `item_force.rs` (forced takeovers);
pull requests found by search; the job that ends because its item already has a pull
request (`work.rs:858`); the limit of run take-overs.

`ItemLife` is what all of this promises of an item: one worker, replaced when its
lease has lapsed; submitted by a worker, completed by a merge only. How an item that
is over comes back is named as what the code does: somebody takes it (`Take` asks for
the lease alone, as the ledger does), or who took it finds no worktree and puts the
item back to what he found, whatever it has become since (`PutBack`).

## 4. Runs

| run | what it asks | bounds |
|---|---|---|
| `JobQueue.cfg` | safety of the table; the refinement of `JobLife` | 2 jobs (an in-process one, one with an unreadable payload), 2 workers that may die, 2 retries, timeout 1, grace 1, stale grace 2, writes that may fail, a wall clock that may jump |
| `JobQueueLive.cfg` | settling, and what the sweep may touch | 2 jobs (in-process, subprocess), 2 workers, one of them mortal, 1 retry, writes that may fail, clocks in step |
| `WorkflowLease.cfg` | one driver, one outcome, nobody stranded; the refinement of `RunRegistry`, lost updates counted | 2 processes, each on its own lock, one late, one whose pid is reused, `TTL` 2, sleeping steps; the take-over, the renewal and the cancel of one may overlap an update of the other until one update is lost; the operator is at the late process |
| `WorkflowLeaseStores.cfg`, `WorkflowLeasePause.cfg` | violated, see findings | 2 processes |
| `WorkflowRun.cfg` | replay, no missed completion, rollback order, settling; the refinement of `RunLife` | 5 steps: two parallel fan-out steps, their `Collect`, an all-of and an any-of dependency, a tolerated failure, a step that may be skipped, two rollback handlers; 2 attempts, 2 crashes, 1 pause |
| `WorkflowRunPause.cfg`, `WorkflowRunCollect.cfg` | violated, see findings | 3 steps, 1 attempt |
| `Scheduler.cfg` | outcomes, single start, no overlap, settling; the refinement of `OccurrenceLife` | 2 slots and 1 manual fire, one crash, failing store call, host suspension or client call, anywhere (`MaxEvents`); grace, recovery delay and interval 1; manual fires only while the schedule is disabled |
| `WorkItem.cfg` | one worker, whose claim is kept; the refinement of `ItemLife` | 2 jobs, a session of another agent, no retry, cap 2, 1 pull request, one operator's call, crash, exit of the session, expiry, failing write of the driver or pull request closed unmerged, anywhere (`MaxEvents`); 1.1 million states |
| `WorkItemLive.cfg` | dispatching ends, and is bounded | 4 jobs, 1 retry, cap 1, 1 pull request, 1 fault, nobody but the daemon |
| `WorkItemCancel.cfg` | violated, see findings | 1 job, 1 call |

Why the bounds are enough. In the job queue all interference goes through one job's row
and key: an abandoned attempt, its retry and the sweep are three actors and one retry
brings them together (the safety run has a second one, which may fall into what the
first leaves behind); the second job exists for `cancel_for_item` and for the kinds a
worker treats differently. A lease is disputed between two processes; a `TTL` of 2 lets
a renewal be early, late and too late. What a lost update can undo is the lease or the
status: a take-over, a renewal and a cancel are the writers that disagree about them,
and TLC sees one update of theirs lost. Overlaps of the other writers, and a second lost
update, are left to the proofs, which bound neither. In a run, the interesting graph is
two parallel steps with a common successor and one successor that either of them is
enough for; two crashes let the second fall into what the first one's recovery does, a
rollback included. In the scheduler two slots are what overlap and the clock need;
everything else goes through one occurrence, where a fault or a call may fall between
any two store calls of the tick, the fire and the driver. A work item is disputed
between a job, the job after it and a session; a call or a fault falls between any two
of their steps. In these two modules TLC sees one such event in a behaviour; what a call
and a fault, or two of a kind, do together is left to the proofs, which put no bound on
them. The ceiling needs a job more than its cap, and a crash.

Deadlock is checked, except in `WorkflowRun`: a run that settled, or that was
paused, does nothing more.

Fairness. `JobQueue`: time, the daemon's intervals, workers outside `Mortal`;
executors are *not* assumed to return, a killed subprocess is.
`WorkflowLease`: time, commits of an open update, a driver or step that was
told to stop, and a poll of the waiter (`WaiterFinds`: the pipeline polls every
run it waits for); strong fairness for who waits on the update lock, because
Tokio's mutex queues its waiters, and because an update that overlaps another
process's is over after two statements (`MayOverlap` lets no more in once `MaxLost`
are lost). `WorkflowRun`: the driver, each step task (a
step ends by its timeout), and recovery at boot. `Scheduler`: the ticker, time,
some fire and some driver if any can go on, leases that age when nobody renews
them, and a supervisor that starts a dead daemon again; store calls and hosts
fail finitely often. `WorkItem`: the tick, the two sweeps and the boot (loops of
`dashboard/server.rs`), a call that has begun, and for each job its executor,
its driver and its `item_done`; strong fairness for a finalize that is given up,
because its retries are counted; sessions, operators and GitHub owe nothing.
Liveness is stated with an
escape where the code gives none: a hung thread, a crashing daemon, a pause.

### Properties

* `JobQueue`: `OneWorkerPerJob`, `HeldRowIsThisAttempt`, `RunningRowIsHeld`,
  `FlagIsHonoured`, `WatchedAttemptIsCancellable`; steps: `CancelIsFinal`,
  `OutcomeIsFinal`, `SweepFindsDeadWorker`; refinement: `ImplementsLife`
  (`FailureIsHandedOn` is part of it, and is proved); liveness: `EveryJobSettles`.
* `WorkflowLease`: `AnnouncedOnce`, `DriverHoldsLease`; refinement:
  `ImplementsRegistry`; liveness: `DriverObeys`, `NotStranded`. `SettledStays` and
  `OneDriver` are proved as well. `TerminalIsFinal`, which a comment of the code
  states without a word of lost updates, is what `workflow_stores` violates.
* `WorkflowRun`: `QuietWhenUndriven`, `CompletedInFull`,
  `NoFalseDeadlock`; steps: `NeverReexecuted`, `UndoneInReverse`; refinement:
  `ImplementsLife` (`AllUndone` follows from it, and is proved); liveness:
  `Settles`.
* `Scheduler`: `OutcomeIsTheRuns`, `NoRunOverlap`, `NextSlotIsFree`; steps:
  `NeverRestarted`; refinement: `ImplementsLife` (`OutcomeIsFinal` is part of it,
  and is proved); liveness: `OccurrencesSettle`.
* `WorkItem`: `WorkersAreAlone`, `ClaimHasKeeper`, `DispatchesAreBounded`; steps:
  `LiveClaimIsKept`; refinement: `ImplementsLife`; liveness: `ReadyIsServed`,
  `DispatchEnds`.

Each property of a passing run has a mutant in `PROJECT.json`: an operator
beside the one it replaces, under a comment that begins with "Mutant:", with
the slip a maintainer might make there. TLC finds the property violated.

### Findings

Five runs are expected to be violated; each shows that the code does not do what
a comment, document or test of it says. `PROJECT.json` quotes the lines.

* `workflow_stores`: two processes that each opened the store do not share the
  update lock: a renewal writes a cancelled run back as running.
* `workflow_pause`: a recovery that read the run before it was paused takes it
  over and drives it. The run has `Sleeps = FALSE`: that the end of a sleep may do the
  same is not what it shows.
* `workflow_run_pause`: a pause that falls between the driver's look at the
  status and its look at the channel makes it fail the paused run as
  deadlocked.
* `workflow_run_collect`: a fan-out step buffers the run's output, which a
  sibling may have overwritten: `Collect` joins one output twice and loses the
  other.
* `item_cancel`: a cancel that runs between an executor's check of its item and
  its claim is undone by the claim, which takes the cancelled item for one to be
  reopened.

Met while modelling, and without a run of their own:

* the check registry is keyed by job id: when a retry registers, the attempt
  that was abandoned stops reading as cancelled (`worker.rs:240`; lines 233-235
  say that it reads so for good);
* the stale sweep fails a subprocess job whose worker is alive and waits for its
  pipes (`queue.rs:455`; lines 419-421 say the worker must have died);
* a failure that error mode Skip tolerates is a failure again after a crash
  (`types.rs:129`);
* a rollback handler runs, and only then is its result journaled: a crash between
  the two runs it again, where `rollback.rs:22-25` and
  `ROLLBACK_COMPENSATION_DESIGN.md:111-114` speak of exactly-once compensation.
  `RunLife` promises one entry, and lets the handler run again (`Crash`);
* a step blocked by a failure is marked skipped, and a skipped step counts as
  satisfied: the step below it is attempted, where the comment at
  `engine.rs:684-687` says that the blocking cascades. `RunLife` sets it apart
  (`Stray`), and its `Settled` does not count such a step;
* `roll_back_claim` writes back the state it found, also when the item was cancelled
  or completed since, as long as the claim is its own (`item_cancel` ends the claim
  in a statement after the item's);
* `record_supervisor_action` may commit after the job's end, or after a
  redispatch, has made the item ready again: it stays labelled dispatched with
  no job, and `DispatchEnds` excepts it;
* a pause does not stop a job that is past its checks: it claims the item and
  starts its run again;
* a workflow cancelled directly, and not through its item, fails its job, whose
  hook makes the item ready again;
* a crash between a failure and its report makes the failure ceiling count from
  nothing: `DispatchesAreBounded` allows for it;
* a merge cancels the item's jobs, but an executor past its checks claims the
  completed item all the same. Its claim lapses, the next job adopts its run and
  reports, and the sweep makes the item ready beside a finalize that still works:
  several cycles of one item are then under way, each of which may end the count
  of the others. `DispatchesAreBounded` is about items without a cancelled job.

## 5. Proofs

Eight modules prove, for every value of the constants that satisfies the assumptions of
the modules, the safety invariants and the action properties named here, and five
refinements: `JobQueue` implements `JobLife`, `WorkItem` implements `ItemLife`,
`WorkflowLease` implements `RunRegistry`, `WorkflowRun` implements `RunLife`,
`Scheduler` implements `OccurrenceLife`. Each component has a theorem `Inductive` for
its invariant `IInv`, with a lemma per group of actions. Every `IInv` was first checked
by TLC on the instances above.

* `JobQueueProofs`. `IInv` is the five invariants with `TypeOK` and
  `PoolShape` (what a worker does fits the kind of job it holds). They need each
  other: that a worker's row is its own attempt makes `fail` count the right
  retry, which keeps two workers off one job. The action properties follow from
  `RowStep`, what any step may do to a row. `SweepIsRight` adds `InPace`: when the
  wall clock does not jump, no row is older than the wait of the worker that is
  busy with it, so a row past every wait is nobody's (of an in-process job: the
  worker of a subprocess may wait for its pipes without a limit).
  `Implements` maps a job that some live worker holds to one that is worked on, and
  a reconciled job or one at the hook to a debt; whatever a worker records when it
  lets go is one action of `JobLife` (`LetsGoOf`), because nobody else holds the job.
  The debt is lost in a crash or with the thread at the hook, and `JobLife` says so
  (`Drop`, `DropAll`): see the hazard at `worker.rs:194`.
* `WorkflowLeaseProofs`. Each process has a lock of its own, so what an update decides
  need not hold when it is written; the theorems say how much that can cost. The
  invariant rests on one distinction: an update that is not `Stale` decides on the row
  as it is, and a stale one is counted. `Loose` collects the drivers that renew in time
  and that the lease no longer protects; a commit that is not stale adds nobody to it,
  a stale one at most the holder it wrote over, and time nobody (`CommitLoose`), so
  `Cardinality(Loose) <= lost`. From it follow `DriverHoldsLease` and `OneDriver`; from
  the same distinction `AnnouncedOnce` and `SettledStays`. They hold for every number
  of processes and of lost updates and every choice of `Racing`. `Implements` maps each
  commit to one action of `RunRegistry` decided on the record that was loaded: the
  present one, or another one and `lost` grows. Loads, looks and local steps are
  stutters; the drivers are the engines whose driver task runs, a lease has lapsed when
  its age is `TTL`, and who is dead is who is known to be. `RegistryKeepsLeases` shows
  that the record promises something by itself: until an update is lost, a driver that
  renews in time keeps its lease, and each outcome beyond the first took one.
* `WorkflowRunProofs`. The tracker, the tasks and the journal say the same:
  `TasksTracked` (a step has a task exactly while the tracker has it running),
  `Unjournaled` (what may still be launched is not in the journal), `Truthful`
  (a completed step is journaled; a skipped one is tolerated or something
  failed), `AtTheEnd` (the driver leaves the loop with nothing in flight),
  `Recorded` (a journaled success is on the rollback's list). From these follow
  `NeverReexecuted`, `QuietWhenUndriven`, `CompletedInFull` and `AllUndone`.
  For every graph in which each set of steps has one without a dependency in the
  set (no cycle) it also proves `NoFalseDeadlock` and `UndoneInReverse`.
  `NoFalseDeadlock`: by `Watched`, an idle step that the driver will not look at
  in this round has a dependency in the channel, at work or idle itself; so when
  nothing runs and the channel is empty, the idle step without an idle dependency
  would be ready, unless a step has failed (`StuckByFailure`), and by
  `FailuresKnown` such a failure is journaled. `UndoneInReverse`: a step is
  launched when what it depends on is `Past` (journaled, barred by a failure, or
  the run cancelled), and what is past never starts again, over crashes too
  (`PastStays`); so `startedBy` has the dependent after the step it is built on
  (`Ordered`), and the rollback, whose list is complete (`Listed`), takes it first.
  `Implements` maps an attempt, a journal entry, a rollback handler (`Hand`), its entry
  (`Enter`) and the end of the run to the action of `RunLife` of that name, what a
  retry, a skip, a stop or a crash throws away to `Drop` or `Crash`, and the rest to a
  stutter. That a compensation is entered once is not for the asking: the handler and
  the entry are two steps, a crash may fall between them, and `Fresh` says that the
  list a recovery rolls back by has nothing that is entered. What else is new in it is
  the order of attempts, `Gated`: what the driver launches depends only on steps that
  are settled in the journal, or that a failure blocks (`Reached`, `PlanGates`), which
  stays so (`ReachedStays`). In the first case the attempt is `Begin`, in the second it
  is `Stray`: how far a failure reaches is part of what is proved.
* `SchedulerProofs`. `Unstarted` (behind an occurrence that waits, was skipped
  or given up there is no run, and none starts without a fire in flight) and
  `Truthful` (what a driver or a reconciliation is about to write is so) give
  `OutcomeIsTheRuns`; `Clock` (claimed slots lie behind `next`) gives
  `NextSlotIsFree` and makes a claim harmless to settled rows
  (`OutcomeIsFinal`); `OneOpen` (under "skip" one slot is open at most) with
  `Unstarted` gives `NoRunOverlap`. `RowStepKeeps` says once what a guarded
  UPDATE keeps, and twelve actions use it.
  `Implements` maps a claim to `Admit` or `Skip`, an expiry to `Expire`, a commit of
  a start to `Start`, whichever of the three writers comes first to `Settle` (the
  other two to a stutter: their guard fails), and a tick, a claim of the queue, a
  link, a lease, a crash or a restart to a stutter. That a reconciliation may still
  settle from a run it read earlier rests on `Truthful`, that it is given up unrun
  on `Unstarted`, that a slot comes in its turn on `Clock`. `PromiseKeepsApart` shows
  that the promise is worth something by itself: from `OccurrenceLife` alone, the
  unfinished runs of two slots do not overlap and every outcome is its run's.
* `WorkItemProofs`. `IInv` is `TypeOK` with two facts it needs: who is dispatched,
  executes or submits has an agent (`AgentsKnown`; without it a claim might have
  no owner), and what a sweep or `item_done` saw merged is merged
  (`MergedSeen`; nothing on GitHub is unmerged).
* `WorkItemClaimProofs`. A second invariant, `Attended`, on top of it: one job is active
  at most (`OneActive`), rows and executors agree (`Attempts`), the boot only looks at
  failed rows (`Orphans`), a finalize step and an agent's step belong to an executor
  that waits, or has ended (`Finishers`, `Drivers`), and the job in the ledger has
  started and, while it executes, holds the claim for the agent it executes for
  (`Holding`; the boot may adopt a claim for a job that is over). They need each other:
  that a retry claims alone rests on `OneActive`, which rests on `Attempts` over a
  crash. From it follow `WorkersAreAlone` and `ClaimHasKeeper`, and with a lemma per
  group of actions `LiveClaimIsKept`.
* `WorkItemCeilingProofs`. `DispatchesAreBounded`, by a potential. What may still lead
  to a dispatch is a token: the ready label (or a boot that will restore it), a job on
  its way, a hook not yet called, a claim left behind that the sweep will turn into the
  label. The first token is worth what is left of the present count of failures, every
  other one a full cap; `Paid` says that the jobs made and the worth of the tokens stay
  below `Cap + (Cap + 1) * faults`. Each action of the daemon hands a token on or spends
  of it, and only a fault adds one. This needs `Quiet`, what holds while nobody disturbs
  the item: it is ready only below the cap (`ReadyBelow`), a failed job has given its
  claim back (`Hooks`), a finalize belongs to an executor that waits for it (`Finals`),
  a step left behind holds no claim of an unfinished item (`Leaves`), and the boot works
  alone, on the item of one job, whose claim it takes before it restores the item
  (`Boots`). Both were checked by TLC with caps and faults of 1 and 2 and up to 9 jobs
  first. The attempt showed that the property needs its second condition: without an
  operator too, a merge cancels the job of a completed item, and the executor may be
  between its check and its claim (see "Met while modelling").
* `WorkItemLifeProofs`. Each group of actions maps to an action of `ItemLife` or
  to a stutter, under the mapping of `Life` (the worker is the holder of a held
  claim; it has lapsed when its lease has run out or its owner exited; `taken` is
  `before` without the assignee). It rests on `IInv` alone. `CompletedIsDelivered` is
  proved of `ItemLife`, together with what makes it inductive: who took an item that was
  completed, and may put it back to that, took one that was merged. It is carried down.

Only model-checked: liveness (it needs fairness and `ENABLED`), and the violated
properties.

## 6. Not modelled

Of the components above, what the sections on their modules list as left out.
The other components of `PROJECT.json` are listed there with the reason: request
handlers with single-statement writes, pure functions over text or samples, and
wrappers of git, GitHub, model providers and the operating system. Most of the
repository's lines are of these kinds.
