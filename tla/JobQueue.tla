------------------------------ MODULE JobQueue ------------------------------
(***************************************************************************)
(* The persistent job queue of agentflare (crates/agentflare-jobs): the    *)
(* agent_jobs table, the pool of worker threads that drains it, the        *)
(* executor threads the workers watch over, and the daemon process that    *)
(* crashes and restarts.  The table is shared with other processes (the    *)
(* CLI, the MCP server), which enqueue and cancel at any time, also while  *)
(* the daemon is down; each SQL transaction is one atomic step.            *)
(*                                                                         *)
(* A column of the table is a function over Jobs.  Time is relative and    *)
(* saturating: a timestamp is represented by how long ago (or how far      *)
(* ahead) it lies, and stops counting at the largest value that a guard    *)
(* of the code can tell apart.  One unit is about 30 seconds.              *)
(***************************************************************************)
EXTENDS Integers

CONSTANTS
  Jobs,          \* ids of the jobs that may be enqueued
  NoJob,         \* what a worker without a job holds
  Workers,       \* threads of the pool
  Mortal,        \* bound: the workers whose thread may panic
  InProcess,     \* jobs run by the InProcessExecutor, the others are subprocesses
  Unreadable,    \* jobs whose stored payload does not deserialize
  Unwritable,    \* bound: jobs whose row a write of the daemon may fail to reach
  Items, Agents, \* what in-process jobs are about and who runs them
  Item, Agent,   \* args[0] and args[1] of a job's payload
  Created,       \* created_at of a job
  MaxRetries,    \* max_retries of every job
  Timeout,       \* timeout_secs of every job
  AbandonGrace,  \* what a timed-out attempt gets to wind down
  StaleGrace,    \* slack of the stale-job sweep past a job's timeout
  Backoff,       \* retry_after_secs of a failure that asks for a delay
  Retention,     \* age at which a finished job is cleaned up
  ClockMayJump   \* may the wall clock run ahead of the monotonic one (suspend)

ASSUME SetsAssumption ==
  /\ NoJob \notin Jobs
  /\ InProcess \subseteq Jobs
  /\ Unreadable \subseteq Jobs /\ Unwritable \subseteq Jobs
  /\ Mortal \subseteq Workers
  /\ Item \in [Jobs -> Items]
  /\ Agent \in [Jobs -> Agents]
  /\ Created \in [Jobs -> Nat]
  /\ ClockMayJump \in BOOLEAN

ASSUME NumbersAssumption ==
  /\ MaxRetries \in Nat
  /\ Timeout \in Nat \ {0}
  /\ AbandonGrace \in Nat \ {0}
  /\ StaleGrace \in Nat /\ StaleGrace > AbandonGrace
  /\ Backoff \in Nat
  /\ Retention \in Nat \ {0}

Null == -1
Tokens == 0 .. MaxRetries
\* Mutant: a sweep without slack.
StaleAfterNoGrace == Timeout
StaleAfter == Timeout + StaleGrace
Settled == {"exited", "killed", "failed"}

VARIABLES
  \* the agent_jobs table
  state,            \* "new" before the enqueue, "deleted" after the cleanup
  retries,
  cancelRequested,
  runFor,           \* now - started_at, of a running row
  notBefore,        \* not_before - now, of a queued row
  finishedFor,      \* now - finished_at, or Null
  \* the daemon process
  mode,             \* "down", "boot" (reconciling) or "up" (pool started)
  owed,             \* reconciled jobs whose item is still to be released
  reported,         \* jobs whose permanent failure reached the item's side
  lost,             \* jobs whose outcome a failing write kept from the table
  \* its worker threads
  pc, job, token, elapsed, inbox,
  \* its executor threads, and the cancellation registry they consult
  threads, abandoned, check

rows    == <<state, retries, cancelRequested, runFor, notBefore, finishedFor>>
daemon  == <<mode, owed, reported, lost>>
pool    == <<pc, job, token, elapsed, inbox>>
attempts == <<threads, abandoned, check>>
vars    == <<rows, daemon, pool, attempts>>

Busy   == {"open", "wait", "grace", "sub", "hook"}
Live(w) == pc[w] \in Busy
Watching(w) == pc[w] \in {"wait", "grace"}
Attempt(w) == <<job[w], token[w]>>

RowTypes ==
  /\ state \in [Jobs -> {"new", "queued", "running", "deleted"} \cup Settled]
  /\ retries \in [Jobs -> Tokens]
  /\ cancelRequested \in [Jobs -> BOOLEAN]
  /\ runFor \in [Jobs -> 0 .. StaleAfter]
  /\ notBefore \in [Jobs -> 0 .. Backoff]
  /\ finishedFor \in [Jobs -> Null .. Retention]

DaemonTypes ==
  /\ mode \in {"down", "boot", "up"}
  /\ owed \subseteq Jobs /\ reported \subseteq Jobs /\ lost \subseteq Jobs

PoolTypes ==
  /\ pc \in [Workers -> {"off", "idle", "dead"} \cup Busy]
  /\ job \in [Workers -> Jobs \cup {NoJob}]
  /\ token \in [Workers -> Tokens]
  /\ elapsed \in [Workers -> 0 .. (Timeout + AbandonGrace)]
  /\ inbox \in [Workers -> {"none", "ok", "retry", "later", "fatal"}]

AttemptTypes ==
  /\ threads \subseteq (Jobs \X Tokens)
  /\ abandoned \subseteq threads
  /\ check \in [Jobs -> Null .. MaxRetries]

\* Every column and every variable of the daemon has its type: in particular no
\* job is retried more than max_retries times, no worker outwaits its watchdog
\* and its grace, and an abandoned attempt is a thread that still runs.
TypeOK == RowTypes /\ DaemonTypes /\ PoolTypes /\ AttemptTypes

Init ==
  /\ state = [j \in Jobs |-> "new"]
  /\ retries = [j \in Jobs |-> 0]
  /\ cancelRequested = [j \in Jobs |-> FALSE]
  /\ runFor = [j \in Jobs |-> 0]
  /\ notBefore = [j \in Jobs |-> 0]
  /\ finishedFor = [j \in Jobs |-> Null]
  /\ mode = "down" /\ owed = {} /\ reported = {} /\ lost = {}
  /\ pc = [w \in Workers |-> "off"]
  /\ job = [w \in Workers |-> NoJob]
  /\ token = [w \in Workers |-> 0]
  /\ elapsed = [w \in Workers |-> 0]
  /\ inbox = [w \in Workers |-> "none"]
  /\ threads = {} /\ abandoned = {}
  /\ check = [j \in Jobs |-> Null]

-----------------------------------------------------------------------------
(* Writes to one row, as the UPDATE statements make them. *)

\* The row reaches its outcome: finished_at is set.
Settle(j, outcome) ==
  /\ state' = [state EXCEPT ![j] = outcome]
  /\ finishedFor' = [finishedFor EXCEPT ![j] = 0]
  /\ runFor' = [runFor EXCEPT ![j] = 0]
  /\ UNCHANGED <<retries, cancelRequested, notBefore>>

\* The row goes back to the queue for a retry; finished_at is left as it is.
Requeue(j, delay) ==
  /\ state' = [state EXCEPT ![j] = "queued"]
  /\ retries' = [retries EXCEPT ![j] = @ + 1]
  /\ runFor' = [runFor EXCEPT ![j] = 0]
  /\ notBefore' = [notBefore EXCEPT ![j] = delay]
  /\ UNCHANGED <<cancelRequested, finishedFor>>

\* Mutant: the outcome is written without looking at the cancel request.
CompleteIgnoresCancel(j, success) ==
  IF state[j] = "deleted" THEN UNCHANGED rows
  ELSE Settle(j, IF success THEN "exited" ELSE "failed")

\* Queue::complete.  It does not look at the row's state.
Complete(j, success) ==
  IF state[j] = "deleted" THEN UNCHANGED rows
  ELSE Settle(j, IF cancelRequested[j] THEN "killed"
                 ELSE IF success THEN "exited" ELSE "failed")

\* Mutant: one retry too many.
RetriedOnceMore(j, fatal) == ~fatal /\ retries[j] <= MaxRetries

\* Queue::fail, and whether it reports a permanent failure.  It does not look
\* at the row's state either; a row that is gone is an error that is logged.
Retried(j, fatal) == ~fatal /\ retries[j] < MaxRetries
FailIsPermanent(j, fatal) ==
  state[j] # "deleted" /\ ~cancelRequested[j] /\ ~Retried(j, fatal)

\* Mutant: a cancelled job is retried like any other.
FailIgnoresCancel(j, fatal, delay) ==
  IF state[j] = "deleted" THEN UNCHANGED rows
  ELSE IF Retried(j, fatal) THEN Requeue(j, delay)
  ELSE Settle(j, "failed")

Fail(j, fatal, delay) ==
  IF state[j] = "deleted" THEN UNCHANGED rows
  ELSE IF cancelRequested[j] THEN Settle(j, "killed")
  ELSE IF Retried(j, fatal) THEN Requeue(j, delay)
  ELSE Settle(j, "failed")

-----------------------------------------------------------------------------
(* Operations any process may call. *)

\* Jobs are enqueued in the order of their created_at.
Enqueue(j) ==
  /\ state[j] = "new"
  /\ \A k \in Jobs : Created[k] < Created[j] => state[k] # "new"
  /\ state' = [state EXCEPT ![j] = "queued"]
  /\ UNCHANGED <<retries, cancelRequested, runFor, notBefore, finishedFor,
                 daemon, pool, attempts>>

\* Mutant: the UPDATE is not guarded on state = 'queued'.
CancelUnguarded(j) ==
  /\ state[j] \notin {"new", "deleted"}
  /\ Settle(j, "killed")
  /\ UNCHANGED <<daemon, pool, attempts>>

\* Queue::cancel, and the first half of request_cancel.
CancelQueued(j) ==
  /\ state[j] = "queued"
  /\ Settle(j, "killed")
  /\ UNCHANGED <<daemon, pool, attempts>>

\* Queue::request_cancel of a running job; a subprocess job is refused.
CancelRunning(j) ==
  /\ state[j] = "running"
  /\ j \in InProcess \ Unreadable
  /\ cancelRequested' = [cancelRequested EXCEPT ![j] = TRUE]
  /\ UNCHANGED <<state, retries, runFor, notBefore, finishedFor,
                 daemon, pool, attempts>>

\* Queue::cancel_for_item: one transaction over all of the item's jobs that
\* the new agent does not keep (a pause keeps none).
CancelForItem(item, keep) ==
  LET hit == {j \in InProcess \ Unreadable :
                /\ state[j] \in {"queued", "running"} /\ ~cancelRequested[j]
                /\ Item[j] = item /\ Agent[j] \notin keep}
      killed == {j \in hit : state[j] = "queued"}
  IN  /\ hit # {}
      /\ state' = [j \in Jobs |-> IF j \in killed THEN "killed" ELSE state[j]]
      /\ finishedFor' = [j \in Jobs |-> IF j \in killed THEN 0 ELSE finishedFor[j]]
      /\ cancelRequested' =
           [j \in Jobs |-> j \in hit \ killed \/ cancelRequested[j]]
      /\ UNCHANGED <<retries, runFor, notBefore, daemon, pool, attempts>>

-----------------------------------------------------------------------------
(* The daemon: boot, the stale-job sweep, the clean-up, the crash. *)

Boot ==
  /\ mode = "down"
  /\ mode' = "boot"
  /\ UNCHANGED <<rows, owed, reported, lost, pool, attempts>>

\* Which reconciled jobs the caller goes on to release the item of.
Releasable(j) == j \in InProcess \ Unreadable

\* One row of Queue::reconcile_orphaned_running.
ReconcileOrphan(j) ==
  /\ mode = "boot"
  /\ state[j] = "running"
  /\ Settle(j, "failed")
  /\ owed' = IF Releasable(j) THEN owed \cup {j} ELSE owed
  /\ UNCHANGED <<mode, reported, lost, pool, attempts>>

\* Mutants: the sweep retries the job instead of failing it; the sweep compares
\* with the wrong side of the limit.
SweepRetries(j) ==
  /\ mode = "up"
  /\ state[j] = "running" /\ j \notin Unreadable
  /\ runFor[j] = StaleAfter
  /\ retries[j] < MaxRetries /\ Requeue(j, 0)
  /\ UNCHANGED <<daemon, pool, attempts>>
SweepTooLate(j) ==
  /\ mode = "up"
  /\ state[j] = "running" /\ j \notin Unreadable
  /\ runFor[j] > StaleAfter
  /\ Settle(j, "failed")
  /\ UNCHANGED <<daemon, pool, attempts>>

\* One row of Queue::reconcile_stale_running; the connection is locked from
\* the SELECT to the UPDATE, which re-checks the state.
SweepStale(j) ==
  /\ mode = "up"
  /\ state[j] = "running" /\ j \notin Unreadable
  /\ runFor[j] = StaleAfter
  /\ Settle(j, "failed")
  /\ owed' = IF Releasable(j) THEN owed \cup {j} ELSE owed
  /\ UNCHANGED <<mode, reported, lost, pool, attempts>>

\* release_claims_for_reconciled_jobs, one job of the returned list.
ReleaseItem(j) ==
  /\ mode # "down" /\ j \in owed
  /\ owed' = owed \ {j}
  /\ reported' = reported \cup {j}
  /\ UNCHANGED <<rows, mode, lost, pool, attempts>>

\* A failing UPDATE aborts the reconciliation at boot: the remaining rows stay
\* running, and the rows already failed are never reported.
ReconcileFails(j) ==
  /\ mode = "boot"
  /\ state[j] = "running" /\ j \in Unwritable \ lost
  /\ lost' = lost \cup {k \in Jobs : state[k] = "running"}
  /\ owed' = {}
  /\ UNCHANGED <<rows, mode, reported, pool, attempts>>

\* WorkerPool::start, after the boot-time reconciliation.
StartPool ==
  /\ mode = "boot" /\ owed = {}
  /\ \A j \in Jobs : state[j] = "running" => j \in lost
  /\ mode' = "up"
  /\ pc' = [w \in Workers |-> "idle"]
  /\ UNCHANGED <<rows, owed, reported, lost, job, token, elapsed, inbox, attempts>>

\* Queue::cleanup of one row: by finished_at alone.
Cleanup(j) ==
  /\ mode = "up"
  /\ finishedFor[j] = Retention
  /\ state' = [state EXCEPT ![j] = "deleted"]
  /\ finishedFor' = [finishedFor EXCEPT ![j] = Null]
  /\ notBefore' = [notBefore EXCEPT ![j] = 0]
  /\ runFor' = [runFor EXCEPT ![j] = 0]
  /\ UNCHANGED <<retries, cancelRequested, daemon, pool, attempts>>

\* The process dies: its threads and everything in memory are gone.
Crash ==
  /\ mode # "down"
  /\ mode' = "down" /\ owed' = {}
  /\ pc' = [w \in Workers |-> "off"]
  /\ job' = [w \in Workers |-> NoJob]
  /\ token' = [w \in Workers |-> 0]
  /\ elapsed' = [w \in Workers |-> 0]
  /\ inbox' = [w \in Workers |-> "none"]
  /\ threads' = {} /\ abandoned' = {}
  /\ check' = [j \in Jobs |-> Null]
  /\ UNCHANGED <<rows, reported, lost>>

-----------------------------------------------------------------------------
(* The workers. *)

Goto(w, where) == pc' = [pc EXCEPT ![w] = where]

\* The worker is done with its job and returns to worker_loop.
Idle(w) ==
  /\ Goto(w, "idle")
  /\ job' = [job EXCEPT ![w] = NoJob]
  /\ token' = [token EXCEPT ![w] = 0]
  /\ elapsed' = [elapsed EXCEPT ![w] = 0]
  /\ inbox' = [inbox EXCEPT ![w] = "none"]

\* Queue::dequeue takes the oldest queued job whose back-off is over.
Due(j) == state[j] = "queued" /\ notBefore[j] = 0
Next_in_line(j) == Due(j) /\ \A k \in Jobs : Due(k) => Created[j] <= Created[k]
MarkRunning(j) ==
  /\ state' = [state EXCEPT ![j] = "running"]
  /\ runFor' = [runFor EXCEPT ![j] = 0]
  /\ UNCHANGED <<retries, cancelRequested, notBefore, finishedFor>>

Dequeue(w, j) ==
  /\ pc[w] = "idle" /\ mode = "up" /\ Next_in_line(j)
  /\ j \notin Unreadable
  /\ MarkRunning(j)
  /\ Goto(w, IF j \in InProcess THEN "open" ELSE "sub")
  /\ job' = [job EXCEPT ![w] = j]
  /\ token' = [token EXCEPT ![w] = retries[j]]
  /\ UNCHANGED <<daemon, elapsed, inbox, attempts>>

\* The payload is parsed after the commit: the error leaves the row running.
DequeueUnreadable(w, j) ==
  /\ pc[w] = "idle" /\ mode = "up" /\ Next_in_line(j)
  /\ j \in Unreadable
  /\ MarkRunning(j)
  /\ UNCHANGED <<daemon, pool, attempts>>

\* record_fail of run_in_process: a permanent failure goes on to the hook.
RecordFail(w, fatal, delay) ==
  /\ Fail(job[w], fatal, delay)
  /\ IF FailIsPermanent(job[w], fatal)
     THEN Goto(w, "hook") /\ UNCHANGED <<job, token, elapsed, inbox>>
     ELSE Idle(w)

\* Mutant: the early exit calls Queue::fail but not the hook.
OpenFailsSilently(w) ==
  /\ pc[w] = "open"
  /\ Fail(job[w], FALSE, 0)
  /\ Idle(w)
  /\ UNCHANGED <<daemon, attempts>>

\* The log file cannot be created.
OpenFails(w) ==
  /\ pc[w] = "open"
  /\ RecordFail(w, FALSE, 0)
  /\ UNCHANGED <<daemon, attempts>>

\* The cancel check is registered before the executor thread is spawned.
SpawnExecutor(w) ==
  /\ pc[w] = "open"
  /\ check' = [check EXCEPT ![job[w]] = token[w]]
  /\ threads' = threads \cup {Attempt(w)}
  /\ Goto(w, "wait")
  /\ UNCHANGED <<rows, daemon, job, token, elapsed, inbox, abandoned>>

\* Mutant: the guard drops whatever check is registered under the job's id.
ThreadEndsDropsAny(j, n, result) ==
  /\ <<j, n>> \in threads
  /\ threads' = threads \ {<<j, n>>}
  /\ abandoned' = abandoned \ {<<j, n>>}
  /\ check' = [check EXCEPT ![j] = Null]
  /\ inbox' = [w \in Workers |->
                 IF Watching(w) /\ Attempt(w) = <<j, n>> THEN result ELSE inbox[w]]
  /\ UNCHANGED <<rows, daemon, pc, job, token, elapsed>>

\* The executor returns (its result is sent to the worker if one still waits
\* for it) or panics, and its registration guard drops: only its own check.
ThreadEnds(j, n, result) ==
  /\ <<j, n>> \in threads
  /\ threads' = threads \ {<<j, n>>}
  /\ abandoned' = abandoned \ {<<j, n>>}
  /\ check' = IF check[j] = n THEN [check EXCEPT ![j] = Null] ELSE check
  /\ inbox' = [w \in Workers |->
                 IF Watching(w) /\ Attempt(w) = <<j, n>> THEN result ELSE inbox[w]]
  /\ UNCHANGED <<rows, daemon, pc, job, token, elapsed>>

FailureDelay(result) == IF result = "later" THEN Backoff ELSE 0

\* recv_timeout returns the executor's result in time ...
ReceiveOk(w) ==
  /\ Watching(w) /\ inbox[w] = "ok"
  /\ Complete(job[w], TRUE)
  /\ Idle(w)
  /\ UNCHANGED <<daemon, attempts>>

ReceiveFailure(w) ==
  /\ pc[w] = "wait" /\ inbox[w] \in {"retry", "later", "fatal"}
  /\ RecordFail(w, inbox[w] = "fatal", FailureDelay(inbox[w]))
  /\ UNCHANGED <<daemon, attempts>>

\* ... or not (it also returns at once when the executor thread panicked).
Gone(w) == Attempt(w) \notin threads /\ inbox[w] = "none"
TimedOut(w) == pc[w] = "wait" /\ (Gone(w) \/ (elapsed[w] >= Timeout /\ inbox[w] = "none"))
WatchdogFires(w) ==
  /\ TimedOut(w)
  /\ abandoned' = abandoned \cup ({Attempt(w)} \cap threads)
  /\ Goto(w, "grace")
  /\ UNCHANGED <<rows, daemon, job, token, elapsed, inbox, threads, check>>

\* After the grace period only a success counts: any failure, whatever its
\* kind, is recorded as a retryable timeout, and a silent thread is left behind.
GraceOver(w) ==
  pc[w] = "grace" /\ inbox[w] # "ok" /\
  (Gone(w) \/ inbox[w] # "none" \/ elapsed[w] = Timeout + AbandonGrace)

\* Mutant: the worker walks away without recording the time-out.
GraceExpiresUnrecorded(w) ==
  /\ GraceOver(w)
  /\ Idle(w)
  /\ UNCHANGED <<rows, daemon, attempts>>

GraceExpires(w) ==
  /\ GraceOver(w)
  /\ RecordFail(w, FALSE, 0)
  /\ UNCHANGED <<daemon, attempts>>

\* complete or fail returns an error, which is logged: the row stays as it is.
HasOutcome(w) ==
  \/ pc[w] \in {"open", "sub"}
  \/ Watching(w) /\ inbox[w] = "ok"
  \/ pc[w] = "wait" /\ inbox[w] # "none"
  \/ GraceOver(w)
OutcomeLost(w) ==
  /\ HasOutcome(w) /\ job[w] \in Unwritable
  /\ lost' = lost \cup {job[w]}
  /\ Idle(w)
  /\ UNCHANGED <<rows, mode, owed, reported, attempts>>

\* The terminal-failure hook, on the worker's own thread.
CallHook(w) ==
  /\ pc[w] = "hook"
  /\ reported' = reported \cup {job[w]}
  /\ Idle(w)
  /\ UNCHANGED <<rows, mode, owed, lost, attempts>>

\* Supervisor::spawn returns: the child exited (with any code), or was killed
\* at its timeout; either way only once nobody holds its output pipes open.
SubprocessExits(w) ==
  /\ pc[w] = "sub"
  /\ Complete(job[w], TRUE)
  /\ Idle(w)
  /\ UNCHANGED <<daemon, attempts>>
SubprocessKilled(w) ==
  /\ pc[w] = "sub" /\ elapsed[w] >= Timeout
  /\ Complete(job[w], FALSE)
  /\ Idle(w)
  /\ UNCHANGED <<daemon, attempts>>
SpawnFails(w) ==
  /\ pc[w] = "sub" /\ elapsed[w] = 0
  /\ Fail(job[w], FALSE, 0)
  /\ Idle(w)
  /\ UNCHANGED <<daemon, attempts>>

\* The worker's own thread panics; nobody starts another one.
WorkerDies(w) ==
  /\ w \in Mortal /\ Live(w)
  /\ Goto(w, "dead")
  /\ inbox' = [inbox EXCEPT ![w] = "none"]
  /\ elapsed' = [elapsed EXCEPT ![w] = 0]
  /\ UNCHANGED <<rows, daemon, job, token, attempts>>

-----------------------------------------------------------------------------
(* Time. *)

\* The wall clock, which the columns of the table are read against.
WallClock ==
  /\ runFor' = [j \in Jobs |-> IF state[j] = "running" /\ runFor[j] < StaleAfter
                               THEN runFor[j] + 1 ELSE runFor[j]]
  /\ notBefore' = [j \in Jobs |-> IF notBefore[j] > 0
                                  THEN notBefore[j] - 1 ELSE notBefore[j]]
  /\ finishedFor' = [j \in Jobs |-> IF finishedFor[j] \in 0 .. (Retention - 1)
                                    THEN finishedFor[j] + 1 ELSE finishedFor[j]]
  /\ UNCHANGED <<state, retries, cancelRequested>>

\* A worker with something to do does it within one unit of time.
Prompt(w) ==
  \/ pc[w] \in {"open", "hook"}
  \/ Watching(w) /\ inbox[w] # "none"
  \/ TimedOut(w) \/ GraceOver(w)

Tick ==
  /\ \A w \in Workers : ~Prompt(w)
  /\ WallClock
  /\ elapsed' = [w \in Workers |-> IF Watching(w) \/ (pc[w] = "sub" /\ elapsed[w] < Timeout)
                                   THEN elapsed[w] + 1 ELSE elapsed[w]]
  /\ UNCHANGED <<daemon, pc, job, token, inbox, attempts>>

\* The machine is suspended: recv_timeout does not count that time.
Suspend ==
  /\ ClockMayJump
  /\ WallClock
  /\ UNCHANGED <<daemon, pool, attempts>>

Results == {"ok", "retry", "later", "fatal", "none"}

Client ==
  \/ \E j \in Jobs : Enqueue(j) \/ CancelQueued(j) \/ CancelRunning(j)
  \/ \E i \in Items, keep \in SUBSET Agents : CancelForItem(i, keep)

Daemon ==
  \/ Boot \/ StartPool \/ Crash
  \/ \E j \in Jobs : ReconcileOrphan(j) \/ ReconcileFails(j) \/ SweepStale(j)
                     \/ ReleaseItem(j) \/ Cleanup(j)

Worker(w) ==
  \/ \E j \in Jobs : Dequeue(w, j) \/ DequeueUnreadable(w, j)
  \/ OpenFails(w) \/ SpawnExecutor(w)
  \/ ReceiveOk(w) \/ ReceiveFailure(w) \/ WatchdogFires(w) \/ GraceExpires(w)
  \/ CallHook(w) \/ OutcomeLost(w)
  \/ SubprocessExits(w) \/ SubprocessKilled(w) \/ SpawnFails(w)

Executor == \E t \in Jobs \X Tokens, r \in Results : ThreadEnds(t[1], t[2], r)

Next ==
  \/ Client \/ Daemon \/ Executor \/ Tick \/ Suspend
  \/ \E w \in Workers : Worker(w) \/ WorkerDies(w)

Spec == Init /\ [][Next]_vars

-----------------------------------------------------------------------------
(* Correctness. *)

\* The row that a worker is working for is the attempt it dequeued: still
\* running, or already failed (and perhaps cleaned up) by the stale sweep.
\* No retry of a job is ever available while its previous worker still is.
HeldRowIsThisAttempt ==
  \A w \in Workers : Live(w) /\ pc[w] # "hook" =>
    /\ state[job[w]] \in {"running", "failed", "deleted"}
    /\ retries[job[w]] = token[w]

\* At most one live worker works for a job, whatever the sweep, late outcomes
\* and retries do to its row (run_in_process / dequeue / fail together).
OneWorkerPerJob ==
  \A v, w \in Workers :
    /\ v # w /\ Live(v) /\ Live(w)
    /\ pc[v] # "hook" /\ pc[w] # "hook"
    => job[v] # job[w]

\* On a daemon that is up, a running row is somebody's: a live worker's, a dead
\* worker's (the sweep finds it), or its payload was unreadable, or the write of
\* its outcome failed.  No other exit of a worker or of the boot leaves one behind.
RunningRowIsHeld ==
  mode = "up" =>
    \A j \in Jobs \ (Unreadable \cup lost) : state[j] = "running" =>
      \E w \in Workers : job[w] = j /\ pc[w] # "hook"

\* A cancel request is honoured: a flagged row is neither waiting for a (re)try
\* nor recorded as a success.  A cancel that finds the row queued kills it there
\* and then, fail does not re-queue a flagged row, complete does not exit it.
FlagIsHonoured ==
  \A j \in Jobs : cancelRequested[j] => state[j] \notin {"new", "queued", "exited"}

\* While a worker waits for an attempt that has not timed out, the check
\* registered under the job's id is that attempt's own, so a cancel reaches it.
\* An older attempt's guard that drops meanwhile must not take it away.
WatchedAttemptIsCancellable ==
  \A w \in Workers : Watching(w) /\ Attempt(w) \in threads =>
    check[job[w]] = token[w]

\* A cancelled job neither runs again nor ends as a success: request_cancel's
\* "never re-queued, so the cancel is terminal" and complete's "must not flip a
\* deliberate cancel into exited".
CancelIsFinal ==
  [][\A j \in Jobs :
       /\ cancelRequested[j] => state'[j] \notin {"queued", "exited"}
       /\ state[j] = "killed" => state'[j] \in {"killed", "deleted"}]_vars

\* An outcome is rewritten only in one case: a failure recorded by the stale
\* sweep, by the worker that was still alive and now reports the real outcome.
OutcomeIsFinal ==
  [][\A j \in Jobs : state[j] \in Settled /\ state'[j] # state[j] =>
       \/ state'[j] = "deleted"
       \/ /\ state[j] = "failed"
          /\ \E w \in Workers : Live(w) /\ job[w] = j /\ pc'[w] # pc[w]]_vars

\* Every step that fails a work item's job for good, a worker's or a
\* reconciliation's, leaves behind the obligation to tell the item's side (the
\* terminal-failure hook, or the list of reconciled jobs): no failure exit of
\* run_in_process forgets it.
FailureIsHandedOn ==
  [][\A j \in InProcess \ Unreadable :
       state'[j] = "failed" /\ state[j] # "failed" =>
         \/ j \in owed'
         \/ \E w \in Workers : pc'[w] = "hook" /\ job'[w] = j]_vars

\* What all of it is for: the workers, their threads, the sweep and the boot keep
\* what the queue promises of a job.
Working == {job[w] : w \in {v \in Workers : Live(v) /\ pc[v] # "hook"}}
Untold  == owed \cup {job[w] : w \in {v \in Workers : pc[v] = "hook"}}
Promise == INSTANCE JobLife WITH
  Readable <- Jobs \ Unreadable, Announced <- InProcess \ Unreadable,
  flagged <- cancelRequested, working <- Working, untold <- Untold, told <- reported
ImplementsLife == Promise!Spec

\* reconcile_stale_running: "any row still running past timeout_secs +
\* grace_secs did NOT go through that path -- its worker thread must have died".
\* So it is of an in-process job, whose worker counts along with its row.
SweepFindsDeadWorker ==
  [][\A j \in InProcess : SweepStale(j) =>
       ~ \E w \in Workers : Live(w) /\ pc[w] # "hook" /\ job[w] = j]_vars

-----------------------------------------------------------------------------
(* Liveness. *)

\* What the operating system and the daemon's own intervals keep going.  The
\* executors are not assumed to finish; a subprocess that was killed is.
Fairness ==
  /\ WF_vars(Tick) /\ WF_vars(Boot) /\ WF_vars(StartPool)
  /\ \A j \in Jobs : /\ WF_vars(ReconcileOrphan(j)) /\ WF_vars(SweepStale(j))
                     /\ WF_vars(ReleaseItem(j))
  /\ \A w \in Workers \ Mortal :
       /\ WF_vars(\E j \in Jobs : Dequeue(w, j) \/ DequeueUnreadable(w, j))
  /\ \A w \in Workers :
       /\ WF_vars(OpenFails(w) \/ SpawnExecutor(w))
       /\ WF_vars(ReceiveOk(w) \/ ReceiveFailure(w) \/ WatchdogFires(w) \/ GraceExpires(w))
       /\ WF_vars(CallHook(w)) /\ WF_vars(SubprocessKilled(w))

FairSpec == Spec /\ Fairness

\* If the daemon stops crashing, every readable job in the queue gets an
\* outcome, although executors may hang, all threads but one may die at any
\* point and failures are retried.
EveryJobSettles ==
  <>[](mode = "up") =>
    \A j \in Jobs \ Unreadable :
      state[j] \in {"queued", "running"} ~> state[j] \notin {"queued", "running"}
=============================================================================
