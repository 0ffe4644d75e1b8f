------------------------------ MODULE WorkItem ------------------------------
(***************************************************************************)
(* One work item on its way through agentflare: the labels that queue it,  *)
(* the claim that says who works on it, the jobs the supervisor dispatches *)
(* for it, the workflow run a job drives, and the pull request it ends in. *)
(* The daemon's discovery tick, its liveness sweep, its review sweep and   *)
(* its executors run in parallel, agents in sessions of their own and      *)
(* operators call the MCP server from other processes, and the daemon may  *)
(* die anywhere.                                                           *)
(*                                                                         *)
(* One transaction of the backend is one step; so is a statement outside   *)
(* of one whose effect others can meet, and one queue, GitHub or run-store *)
(* call: the mutex of with_backend_db is each process's own.  An assignee  *)
(* is its agent: no comparison of the code reads the rest.  The claim's    *)
(* owner is an agent and the job or session it acts for.                   *)
(***************************************************************************)
EXTENDS Integers, FiniteSets

CONSTANTS
  Agents,       \* agent names
  Assignees,    \* those the item may be assigned to at first
  Nobody,       \* no agent, no owner
  MaxJobs,      \* bound: jobs are 1 .. MaxJobs, in the order of dispatch
  Sessions,     \* agents at work outside the job queue
  SessionAgent, \* the agent of a session
  MaxRetries,   \* max_retries of a work job
  Cap,          \* DISPATCH_FAILURE_CAP_ANY_REASON
  MaxPr,        \* bound: pull requests ever opened
  MaxCalls,     \* bound: calls by operators and sessions
  MaxFaults,    \* bound: crashes, failing writes, exits of sessions, expiries,
                \* pull requests closed unmerged
  MaxEvents     \* bound: both together

Jobs   == 1 .. MaxJobs
Procs  == Jobs \cup Sessions
Owners == Agents \X Procs

ASSUME AgentAssumption ==
  /\ Nobody \notin Agents /\ Nobody \notin Owners
  /\ Assignees \subseteq Agents
  /\ SessionAgent \in [Sessions -> Agents] /\ Sessions \cap Int = {}
ASSUME BoundAssumption ==
  /\ MaxJobs \in Nat /\ MaxRetries \in Nat /\ Cap \in Nat \ {0}
  /\ MaxPr \in Nat /\ MaxCalls \in Nat /\ MaxFaults \in Nat /\ MaxEvents \in Nat

Terminal == {"completed", "cancelled"}
Settled  == {"done", "failed", "killed"}
Active   == {"queued", "running"}

VARIABLES
  \* the item's row and labels
  group, assignee, labels,
  pr,          \* metadata.pr.number, 0 without one
  \* its row in the claim ledger; age passes the in_review TTL at 1, every TTL at 2
  holder, claim, age,
  \* its comments, as far as the failure ceiling reads them
  past,        \* failed cycles before the present one
  cycle,       \* how the present dispatch cycle stands
  stopped,     \* is the latest outcome a stop on request?
  prs,         \* the pull requests on GitHub
  \* the queue's rows
  row, tries,
  payload,     \* the agent a job was enqueued for
  \* the executors: the waiter, the agent it acts for, and the step under way
  at, who, step,
  seen,        \* the pull request item_done looks at
  before,      \* the item's group and assignee before a claim that has no worktree yet
  run,         \* the item's workflow run
  driver,      \* the job whose step drives that run, 0 before the first
  \* the daemon
  up,
  boot,        \* what the boot still does for the item of an orphaned job
  hook,        \* jobs whose terminal-failure hook is still to be called
  tick, pick,  \* the discovery tick, and the assignee it read
  suspect,     \* the owner the last liveness sweep found exited
  watch,       \* the merged pull request the review sweep is about to promote
  call,        \* the rest of item_cancel, item_pause or item_redispatch
  heir,        \* the agent item_redispatch gives the item to
  gone,        \* sessions that have exited
  calls, faults

item   == <<group, assignee, labels, pr>>
ledger == <<holder, claim, age>>
log    == <<past, cycle, stopped>>
queue  == <<row, tries, payload>>
execs  == <<at, who, step, seen, before, run, driver>>
ticker == <<tick, pick>>
daemon == <<up, boot, hook, ticker, suspect, watch>>
outside == <<call, heir, gone>>
bounds == <<calls, faults>>
vars   == <<item, ledger, log, prs, queue, execs, daemon, outside, bounds>>

\* Where an executor is: its claim, its waiter, what it does at the end.
Places == {"idle", "taken", "ready", "claimed", "wait", "drop", "dropfatal", "give",
           "givefatal", "quit", "halt", "ok", "bad", "fatal"}
\* Where a driver, or a session, is: the agent's steps, finalize, item_done.
Steps == {"idle", "agent", "final", "done", "steal", "push", "merged", "review",
          "closing", "release", "give", "leave", "erred"}

Groups == {"backlog", "started", "in_review"} \cup Terminal

ItemType ==
  /\ group \in Groups
  /\ assignee \in Agents \cup {Nobody}
  /\ labels \subseteq {"ready", "dispatched", "manual", "paused"}
  /\ pr \in 0 .. MaxPr
  /\ prs \in [1 .. MaxPr -> {"none", "open", "merged", "closed"}]
LedgerType ==
  /\ holder \in Owners \cup {Nobody} /\ claim \in {"none", "held", "done"}
  /\ claim = "none" <=> holder = Nobody
  /\ age \in 0 .. 2
LogType ==
  /\ past \in Nat /\ cycle \in {"none", "open", "neutral", "ok", "capped"}
  /\ stopped \in BOOLEAN
QueueType ==
  /\ row \in [Jobs -> {"none"} \cup Active \cup Settled]
  /\ tries \in [Jobs -> 0 .. MaxRetries]
  /\ payload \in [Jobs -> Agents \cup {Nobody}]
ExecsType ==
  /\ at \in [Jobs -> Places]
  /\ who \in [Procs -> Agents \cup {Nobody}]
  /\ step \in [Procs -> Steps]
  /\ seen \in [Procs -> 0 .. MaxPr]
  /\ before \subseteq [by : Owners, group : Groups, assignee : Agents \cup {Nobody}]
  /\ run \in {"none", "running", "paused", "cancelled", "completed", "failed"}
  /\ driver \in 0 .. MaxJobs
DaemonType ==
  /\ up \in BOOLEAN
  /\ boot \in [Jobs -> {"none", "release", "give", "restore"}]
  /\ hook \subseteq Jobs
  /\ tick \in {"idle", "listed", "found", "swap"} /\ pick \in Agents \cup {Nobody}
  /\ suspect \in Owners \cup {Nobody} /\ watch \in 0 .. MaxPr
OutsideType ==
  /\ call \in {"none", "cancel", "cancelJobs", "cancelItem", "cancelClaim",
               "pause", "pauseJobs", "pauseItem", "handJobs", "handClaim"}
  /\ heir \in Agents \cup {Nobody}
  /\ gone \subseteq Sessions
  /\ calls \in 0 .. MaxCalls /\ faults \in 0 .. MaxFaults
\* Every variable has its type, and the ledger names an owner exactly while
\* it has a row.
TypeOK ==
  /\ ItemType /\ LedgerType /\ LogType /\ QueueType /\ ExecsType /\ DaemonType
  /\ OutsideType

\* An item that was just marked ready for an agent.
Init ==
  /\ group = "backlog" /\ assignee \in Assignees /\ labels = {"ready"} /\ pr = 0
  /\ holder = Nobody /\ claim = "none" /\ age = 0
  /\ past = 0 /\ cycle = "none" /\ stopped = FALSE
  /\ prs = [n \in 1 .. MaxPr |-> "none"]
  /\ row = [j \in Jobs |-> "none"] /\ tries = [j \in Jobs |-> 0]
  /\ payload = [j \in Jobs |-> Nobody]
  /\ at = [j \in Jobs |-> "idle"]
  /\ who = [p \in Procs |-> IF p \in Sessions THEN SessionAgent[p] ELSE Nobody]
  /\ step = [p \in Procs |-> "idle"] /\ seen = [p \in Procs |-> 0]
  /\ before = {} /\ run = "none" /\ driver = 0
  /\ up = TRUE /\ boot = [j \in Jobs |-> "none"] /\ hook = {}
  /\ tick = "idle" /\ pick = Nobody
  /\ suspect = Nobody /\ watch = 0
  /\ call = "none" /\ heir = Nobody /\ gone = {} /\ calls = 0 /\ faults = 0

Set(f, x, value) == [f EXCEPT ![x] = value]
MoreEvents == calls + faults < MaxEvents
Fault == MoreEvents /\ faults < MaxFaults /\ faults' = faults + 1 /\ UNCHANGED calls
Call  == MoreEvents /\ calls < MaxCalls /\ calls' = calls + 1 /\ UNCHANGED faults

-----------------------------------------------------------------------------
(* The claim ledger, and the claim operations of the backend. *)

Me(p) == <<who[p], p>>
Owns(p) == claim = "held" /\ holder = Me(p)
\* effective_ttl_secs is shorter while the item is in review.
Stale == age = 2 \/ (age = 1 /\ group = "in_review")
Live == claim = "held" /\ ~Stale

\* Mutant: only a job that failed or was cancelled has left its claim behind.
ExitedFailed(o, here) ==
  IF o[2] \in Sessions THEN o[2] \in gone
  ELSE row[o[2]] \in {"failed", "killed"} /\ (here => at[o[2]] = "idle")
\* judge_owner: the queue has its job settled, or the session is gone; an
\* owner this process executes is alive whatever the queue says.
Exited(o, here) ==
  LET p == o[2] IN
  IF p \in Sessions THEN p \in gone
  ELSE row[p] \in Settled /\ (here => at[p] = "idle")

Acquire(o) == holder' = o /\ claim' = "held" /\ age' = 0
\* Mutant: the claim's row is marked and keeps its owner.
NoClaimMarks == UNCHANGED holder /\ claim' = "none" /\ age' = 0
NoClaim == holder' = Nobody /\ claim' = "none" /\ age' = 0

\* claim::release deletes the owner's row only.
LedgerRelease(o) == IF holder = o THEN NoClaim ELSE UNCHANGED ledger

\* item::release also clears the assignee, unless the item was given to another agent.
GiveUp(o) ==
  IF holder # o THEN UNCHANGED <<ledger, assignee>>
  ELSE NoClaim /\ assignee' = IF assignee = o[1] THEN Nobody ELSE assignee

\* Mutant: a release takes over whatever claim there is, without a look at its age.
ConfirmAny(o, here) == IF claim = "none" THEN UNCHANGED ledger ELSE Acquire(o)
\* item_release's first closure: a claim of another is cleared away if its owner has
\* exited, taken over if it is stale or done, and left alone if it is live: the release
\* is refused, and GiveUp would find nothing.  The worktree's cleanup lies between them.
Confirm(o, here) ==
  IF claim = "none" \/ (claim = "held" /\ holder = o) THEN UNCHANGED ledger
  ELSE IF claim = "done" \/ (~Exited(holder, here) /\ Stale) THEN Acquire(o)
  ELSE IF Exited(holder, here) THEN NoClaim
  ELSE UNCHANGED ledger

\* item::claim is refused by a live claim of another, and by an assignee of
\* another agent while nobody holds the item.
Claimable(p) ==
  /\ claim = "held" /\ holder # Me(p) => Stale
  /\ assignee \in {Nobody, who[p]} \/ claim = "held" \/ group \in Terminal
Claim(p) ==
  /\ Acquire(Me(p)) /\ group' = "started" /\ assignee' = who[p]

\* The lease of whoever does nothing runs out; one that is being renewed
\* expires when its owner is suspended.
Renewed(p) == step[p] # "idle" \/ (p \in Jobs /\ at[p] # "idle")
Age ==
  /\ claim = "held" /\ age < 2 /\ age' = age + 1
  /\ IF Renewed(holder[2]) THEN Fault ELSE UNCHANGED bounds
  /\ UNCHANGED <<item, holder, claim, log, prs, queue, execs, daemon, outside>>

-----------------------------------------------------------------------------
(* The failure ceiling, read off the item's comments. *)

\* Mutant: the cycle under way is not counted.
FailuresBefore == IF cycle \in {"open", "neutral"} THEN past ELSE 0
\* consecutive_failure_count_any_reason: a cycle counts from its dispatch on,
\* until it succeeds, ends neutral or has the cap reported.
Failures == IF cycle = "open" THEN past + 1 ELSE IF cycle = "neutral" THEN past ELSE 0

DispatchComment == past' = Failures /\ cycle' = "open" /\ stopped' = FALSE
FailureComment ==
  /\ cycle' = IF cycle = "neutral" THEN "open" ELSE cycle
  /\ stopped' = FALSE /\ UNCHANGED past
StoppedComment ==
  /\ cycle' = IF cycle = "open" THEN "neutral" ELSE cycle
  /\ stopped' = TRUE /\ UNCHANGED past
SuccessComment ==
  /\ cycle' = IF cycle = "none" THEN "none" ELSE "ok"
  /\ past' = 0 /\ stopped' = FALSE
CapComment == cycle' = "capped" /\ past' = 0 /\ UNCHANGED stopped

-----------------------------------------------------------------------------
(* Pull requests. *)

Numbers == 1 .. MaxPr
Merged(n) == n \in Numbers /\ prs[n] = "merged"
Opened == {n \in Numbers : prs[n] # "none"}

Decide(n, verdict) ==
  /\ prs[n] = "open" /\ prs' = Set(prs, n, verdict)
  /\ UNCHANGED <<item, ledger, log, queue, execs, daemon, outside>>
\* On GitHub a reviewer merges a pull request, or closes it, which counts as a fault.
PrSettles ==
  \E n \in Numbers :
    \/ Decide(n, "merged") /\ UNCHANGED bounds
    \/ Decide(n, "closed") /\ Fault

\* Redispatch keeps the pull request it tracks unless it is over.
KeptPr == IF pr \in Numbers /\ prs[pr] \in {"merged", "closed"} THEN 0 ELSE pr

\* item::redispatch: back to the backlog for an agent; the ledger stays.
Requeue(a) ==
  /\ group' = "backlog" /\ assignee' = a /\ pr' = KeptPr
  /\ labels' = (labels \ {"dispatched", "manual"}) \cup {"ready"}

Park == labels' = (labels \ {"ready", "dispatched"}) \cup {"manual"}

\* Mutant: a failed job leaves its labels once the ceiling is reached.
ReArmBelowCap ==
  IF Failures >= Cap THEN UNCHANGED labels
  ELSE labels' = (labels \ {"dispatched"}) \cup {"ready"}
\* A job's end makes the item ready again, or manual at the ceiling.
ReArm ==
  labels' = (labels \ {"dispatched"})
              \cup {IF Failures >= Cap THEN "manual" ELSE "ready"}

\* cancel_for_item marks queued and running jobs at once; a running executor
\* notices when it looks.
Kill(doomed) ==
  row' = [j \in Jobs |-> IF j \in doomed /\ row[j] \in Active THEN "killed" ELSE row[j]]

-----------------------------------------------------------------------------
(* The supervisor: discovery, liveness sweep, review sweep. *)

Serving == up /\ \A j \in Jobs : boot[j] = "none"
\* Mutant: only what waits in the queue is in flight.
InFlightQueued == \E j \in Jobs : row[j] = "queued"
\* Mutant: every job the item ever had is.
InFlightEver == \E j \in Jobs : row[j] # "none"
InFlight == \E j \in Jobs : row[j] \in Active
Unused == {j \in Jobs : row[j] = "none"}

\* run_discovery_tick lists the ready items, and keeps what it read of the assignee; ...
Looks(from, to) ==
  /\ tick = from /\ tick' = to
  /\ UNCHANGED <<item, ledger, log, prs, queue, execs, up, boot, hook, suspect, watch,
                 outside, bounds>>
TickLists ==
  /\ Serving /\ "ready" \in labels /\ (assignee # Nobody => Unused # {})
  /\ Looks("idle", "listed") /\ pick' = assignee
\* ... it reads labels and claim anew, and passes over an item that is paused or claimed
\* by now (decide_for_supervisor), ...
Waits == "paused" \in labels \/ Live
TickFinds ==
  \/ ~Waits /\ pick # Nobody /\ Looks("listed", "found") /\ UNCHANGED pick
  \/ Waits /\ Looks("listed", "idle") /\ pick' = Nobody
\* ... and parks one that has nobody to be dispatched to (skip_item).
TickSkips ==
  /\ tick = "listed" /\ ~Waits /\ pick = Nobody /\ tick' = "idle"
  /\ labels' = (labels \ {"ready"}) \cup {"manual"}
  /\ UNCHANGED <<group, assignee, pr, ledger, log, prs, queue, execs, up, boot, hook,
                 pick, suspect, watch, outside, bounds>>
\* dispatch_item: no second job while one is queued or running.
TickRefused == InFlight /\ Looks("found", "idle") /\ pick' = Nobody
Enqueue(j) ==
  /\ tick = "found" /\ ~InFlight
  /\ row[j] = "none" /\ \A i \in 1 .. (j - 1) : row[i] # "none"
  /\ row' = Set(row, j, "queued") /\ payload' = Set(payload, j, pick)
  /\ tick' = "swap" /\ pick' = Nobody
  /\ UNCHANGED <<item, ledger, log, prs, tries, execs, up, boot, hook, suspect, watch,
                 outside, bounds>>
\* record_supervisor_action, in a transaction of its own.
Swap ==
  /\ tick = "swap" /\ tick' = "idle"
  /\ labels' = (labels \ {"ready"}) \cup {"dispatched"}
  /\ DispatchComment
  /\ UNCHANGED <<group, assignee, pr, ledger, prs, queue, execs, up, boot, hook, pick,
                 suspect, watch, outside, bounds>>

\* sweep_with: an owner is only suspect the first time it looks exited.
SweepSuspects ==
  /\ Serving /\ claim = "held" /\ Exited(holder, TRUE) /\ suspect # holder
  /\ suspect' = holder
  /\ UNCHANGED <<item, ledger, log, prs, queue, execs, up, boot, hook, ticker, watch,
                 outside, bounds>>
SweepForgets ==
  /\ Serving /\ suspect # Nobody
  /\ ~(claim = "held" /\ holder = suspect /\ Exited(holder, TRUE))
  /\ suspect' = Nobody
  /\ UNCHANGED <<item, ledger, log, prs, queue, execs, up, boot, hook, ticker, watch,
                 outside, bounds>>
\* restore_item, after the release: what is finished or parked stays.
LeftAlone ==
  \/ group \in Terminal \cup {"in_review"} \/ labels \cap {"paused", "manual"} # {}
  \/ assignee = Nobody \/ Merged(pr)
RestoreItem ==
  IF LeftAlone THEN UNCHANGED item
  ELSE IF Failures >= Cap THEN Park /\ UNCHANGED <<group, assignee, pr>>
  ELSE Requeue(assignee)
SweepReleases ==
  /\ Serving /\ claim = "held" /\ Exited(holder, TRUE) /\ suspect = holder
  /\ NoClaim /\ suspect' = Nobody /\ RestoreItem
  /\ UNCHANGED <<log, prs, queue, execs, up, boot, hook, ticker, watch, outside,
                 bounds>>

\* The review sweep sees that the tracked pull request is merged, ...
SweepFindsMerged ==
  /\ Serving /\ watch = 0 /\ group \in {"started", "in_review"} /\ Merged(pr)
  /\ watch' = pr
  /\ UNCHANGED <<item, ledger, log, prs, queue, execs, up, boot, hook, ticker, suspect,
                 outside, bounds>>
\* ... and promote_verified_merged_item completes the item if it still tracks
\* that one, whoever holds the claim.
Promotable(n) == group \in {"started", "in_review"} /\ pr = n
Promote ==
  /\ watch # 0 /\ watch' = 0
  /\ IF Promotable(watch)
     THEN /\ group' = "completed"
          /\ claim' = IF claim = "held" THEN "done" ELSE claim
          /\ age' = 0
          /\ Kill(Jobs)
     ELSE UNCHANGED <<group, claim, age, row>>
  /\ UNCHANGED <<assignee, labels, pr, holder, log, prs, tries, payload, execs, up,
                 boot, hook, ticker, suspect, outside, bounds>>

-----------------------------------------------------------------------------
(* An executor: execute, execute_work_impl and the waiter of run_pipeline. *)

Dequeue(j) ==
  /\ Serving /\ row[j] = "queued" /\ at[j] = "idle" /\ j \notin hook
  /\ row' = Set(row, j, "running") /\ at' = Set(at, j, "taken")
  /\ UNCHANGED <<item, ledger, log, prs, tries, payload, who, step, seen, before, run,
                 driver, daemon, outside, bounds>>
\* The job must not be cancelled nor the item over; the item's assignee goes
\* before the agent the job was enqueued for.
Prepare(j) ==
  /\ at[j] = "taken"
  /\ IF row[j] = "killed" \/ group \in Terminal
     THEN at' = Set(at, j, "fatal") /\ UNCHANGED who
     ELSE /\ at' = Set(at, j, "ready")
          /\ who' = Set(who, j, IF assignee = Nobody THEN payload[j] ELSE assignee)
  /\ UNCHANGED <<item, ledger, log, prs, queue, step, seen, before, run, driver, daemon,
                 outside, bounds>>
\* A claim remembers what it changes, until its worktree stands.
Found(p) == [by |-> Me(p), group |-> group, assignee |-> assignee]
Others(p) == {b \in before : b.by[2] # p}
JobClaims(j) ==
  /\ at[j] = "ready"
  /\ IF Claimable(j)
     THEN Claim(j) /\ at' = Set(at, j, "claimed") /\ before' = Others(j) \cup {Found(j)}
     ELSE UNCHANGED <<group, assignee, ledger, before>> /\ at' = Set(at, j, "bad")
  /\ UNCHANGED <<labels, pr, log, prs, queue, who, step, seen, run, driver, daemon,
                 outside, bounds>>
\* The worktree is not there yet, or the agent is not usable: worth a retry.
SetUpFails(j) ==
  /\ at[j] = "claimed" /\ at' = Set(at, j, "drop") /\ before' = Others(j)
  /\ UNCHANGED <<item, ledger, log, prs, queue, who, step, seen, run, driver, daemon,
                 outside, bounds>>
\* There will be no worktree: roll_back_claim gives the claim back and the item what it
\* had before, and the job fails for good.
RollBack(j) ==
  /\ at[j] = "claimed" /\ at' = Set(at, j, "dropfatal") /\ before' = Others(j)
  /\ IF holder # Me(j) THEN UNCHANGED <<group, assignee, ledger>>
     ELSE /\ NoClaim
          /\ \E b \in before :
               b.by = Me(j) /\ group' = b.group /\ assignee' = b.assignee
  /\ UNCHANGED <<labels, pr, log, prs, queue, who, step, seen, run, driver, daemon,
                 outside, bounds>>

Waiting(j) == at[j] = "wait"
Driven == driver # 0 /\ step[driver] # "idle"
\* What a waiter makes of a run that goes on no more; what failed while the job
\* was cancelled counts as cancelled.
Verdict(j) ==
  IF run = "completed" THEN "ok"
  ELSE IF run = "paused" THEN "halt"
  ELSE IF run = "failed" /\ row[j] # "killed" THEN "drop"
  ELSE "quit"
\* A run that is not over is adopted, from whoever waited for it: the driver's
\* agent steps pass to the new owner, its finalize stays with the old one, and
\* a run without a driver is resumed.  Else a new run starts, and who waited for
\* the one before has its end.
AttachRun(j) ==
  /\ at[j] = "claimed" /\ before' = Others(j)
  /\ at' = [i \in Jobs |-> IF i = j THEN "wait"
                           ELSE IF ~Waiting(i) THEN at[i]
                           ELSE IF run \in {"running", "paused"} THEN "ok"
                           ELSE Verdict(i)]
  /\ IF run \in {"running", "paused"} /\ Driven
     THEN /\ UNCHANGED run
          /\ IF step[driver] = "agent"
             THEN /\ step' = [step EXCEPT ![driver] = "idle", ![j] = "agent"]
                  /\ driver' = j
             ELSE UNCHANGED <<driver, step>>
     ELSE run' = "running" /\ driver' = j /\ step' = Set(step, j, "agent")
  /\ UNCHANGED <<item, ledger, log, prs, queue, who, seen, daemon, outside, bounds>>

Goes(j, where) ==
  /\ at' = Set(at, j, where)
  /\ UNCHANGED <<item, ledger, log, prs, queue, who, step, seen, before, driver, daemon,
                 outside, bounds>>
\* The waiter reads the run's status.
WaiterSeesEnd(j) ==
  /\ Waiting(j) /\ run # "running" /\ UNCHANGED run
  /\ Goes(j, Verdict(j))
WaiterSeesJobCancelled(j) ==
  /\ Waiting(j) /\ run = "running" /\ row[j] = "killed"
  /\ run' = "cancelled" /\ Goes(j, "quit")
\* Its heartbeat finds the claim lost: stop_run_after_lost_claim, unless the
\* run is in finalize.
WaiterLosesClaim(j) ==
  /\ Waiting(j) /\ run = "running" /\ ~Owns(j)
  /\ driver # 0 => step[driver] \in {"idle", "agent"}
  /\ run' = "cancelled" /\ Goes(j, "drop")
Heartbeat(p) ==
  /\ Owns(p) /\ age # 0 /\ age' = 0
  /\ p \in Jobs => Waiting(p)
  /\ p \notin gone
  /\ UNCHANGED <<item, holder, claim, log, prs, queue, execs, daemon, outside, bounds>>
\* Nobody drives the run any more: the waiter takes it over.
TakesOver(j) ==
  /\ Waiting(j) /\ run = "running" /\ ~Driven
  /\ step' = Set(step, j, "agent") /\ driver' = j
  /\ UNCHANGED <<item, ledger, log, prs, queue, at, who, seen, before, run, daemon,
                 outside, bounds>>

\* release_and_comment: the two closures of item_release, then the comment.  The claim
\* guard's second release finds nothing.
Drop(j) ==
  /\ at[j] \in {"drop", "dropfatal"} /\ Confirm(Me(j), TRUE)
  /\ at' = Set(at, j, IF at[j] = "drop" THEN "give" ELSE "givefatal")
  /\ UNCHANGED <<item, log, prs, queue, who, step, seen, before, run, driver, daemon,
                 outside, bounds>>
DropEnds(j) ==
  /\ at[j] \in {"give", "givefatal"} /\ GiveUp(Me(j)) /\ FailureComment
  /\ at' = Set(at, j, IF at[j] = "give" THEN "bad" ELSE "fatal")
  /\ UNCHANGED <<group, labels, pr, prs, queue, who, step, seen, before, run, driver,
                 daemon, outside, bounds>>
\* A cancelled run leaves no comment, a paused one does (end_stopped_run).
StopOnRequest(j) ==
  /\ at[j] \in {"quit", "halt"} /\ LedgerRelease(Me(j))
  /\ IF at[j] = "halt" THEN StoppedComment ELSE UNCHANGED log
  /\ at' = Set(at, j, "fatal")
  /\ UNCHANGED <<item, prs, queue, who, step, seen, before, run, driver, daemon,
                 outside, bounds>>

\* The worker writes the outcome; a cancelled row stays as it is.
Report(j) ==
  /\ at[j] \in {"ok", "bad", "fatal"} /\ at' = Set(at, j, "idle")
  /\ LET again == at[j] = "bad" /\ tries[j] < MaxRetries IN
     IF row[j] # "running" THEN UNCHANGED <<queue, hook>>
     ELSE /\ row' = Set(row, j, IF at[j] = "ok" THEN "done"
                                ELSE IF again THEN "queued" ELSE "failed")
          /\ tries' = IF again THEN Set(tries, j, tries[j] + 1) ELSE tries
          /\ hook' = IF row'[j] = "failed" THEN hook \cup {j} ELSE hook
          /\ UNCHANGED payload
  /\ UNCHANGED <<item, ledger, log, prs, who, step, seen, before, run, driver, up, boot,
                 ticker, suspect, watch, outside, bounds>>

\* handle_terminal_job_failure and restore_after_terminal_failure.
Restored(j) == IF assignee = Nobody THEN payload[j] ELSE assignee
FailureHook(j) ==
  /\ j \in hook /\ hook' = hook \ {j}
  /\ IF group \in Terminal THEN UNCHANGED <<item, log>>
     ELSE IF stopped
     THEN labels' = labels \ {"dispatched"} /\ UNCHANGED <<group, assignee, pr, log>>
     ELSE /\ group' = IF pr # 0 THEN "in_review" ELSE group
          /\ assignee' = Restored(j) /\ UNCHANGED pr
          /\ ReArm
          /\ IF Failures >= Cap THEN CapComment ELSE UNCHANGED log
  /\ UNCHANGED <<ledger, prs, queue, execs, up, boot, ticker, suspect, watch, outside,
                 bounds>>

-----------------------------------------------------------------------------
(* The run's driver, and item_done, which sessions call too. *)

StepGoes(p, where) ==
  /\ step' = Set(step, p, where)
  /\ UNCHANGED <<labels, prs, queue, at, who, before, driver, daemon, outside, bounds>>

\* The agent's steps end well, or fail the run; a run that was stopped ends at
\* the step boundary.
Drives(j) == run = "running" /\ driver = j
RunEnds(j, verdict) == run' = IF Drives(j) THEN verdict ELSE run
AgentEnds(j) ==
  /\ step[j] = "agent"
  /\ \/ Drives(j) /\ StepGoes(j, "final") /\ UNCHANGED run
     \/ StepGoes(j, "idle") /\ RunEnds(j, "failed")
  /\ UNCHANGED <<group, assignee, pr, ledger, log, seen>>
\* A write of the run fails between two of the agent's steps: the driver leaves
\* without settling the run.
DriverErrs ==
  /\ Fault /\ driver # 0 /\ Drives(driver) /\ step[driver] = "agent"
  /\ step' = Set(step, driver, "idle")
  /\ UNCHANGED <<item, ledger, log, prs, queue, at, who, seen, before, run, driver,
                 daemon, outside>>
\* finalize looks at the cancel flag once, at its start.
Finalize(j) ==
  /\ step[j] = "final"
  /\ StepGoes(j, IF row[j] = "killed" THEN "erred" ELSE "done")
  /\ UNCHANGED <<group, assignee, pr, ledger, log, seen, run>>

\* item_done's first closure: the caller owns the claim and renews it, or takes over
\* one that is over, stale or gone (release_dead_holders_claim, steal_abandoned_claim).
DeadHolder(p) == claim = "held" /\ holder # Me(p) /\ Exited(holder, p \in Jobs)
\* The pull request it looks at is the item's, or the latest of the branch.
Publishes(p) ==
  /\ Acquire(Me(p)) /\ StepGoes(p, "push")
  /\ \E n \in 0 .. MaxPr :
       /\ IF pr # 0 THEN n = pr ELSE Opened = 1 .. n
       /\ seen' = Set(seen, p, n)
DoneBegins(p) ==
  /\ step[p] = "done"
  /\ IF group \in Terminal THEN StepGoes(p, "erred") /\ UNCHANGED <<ledger, seen>>
     ELSE IF Owns(p) THEN Publishes(p)
     ELSE /\ StepGoes(p, "steal") /\ UNCHANGED seen
          /\ IF DeadHolder(p) THEN NoClaim ELSE UNCHANGED ledger
  /\ UNCHANGED <<group, assignee, pr, log, run>>
Stealable(p) ==
  IF claim = "none" THEN assignee \in {Nobody, who[p]}
  ELSE claim = "done" \/ holder = Me(p) \/ Stale
DoneSteals(p) ==
  /\ step[p] = "steal"
  /\ IF Stealable(p) THEN Publishes(p)
     ELSE StepGoes(p, "erred") /\ UNCHANGED <<ledger, seen>>
  /\ UNCHANGED <<group, assignee, pr, log, run>>

\* complete_if_pr_already_merged: the merged pull request covers the branch.
SeesMerged(p) ==
  /\ step[p] = "push" /\ Merged(seen[p]) /\ StepGoes(p, "merged")
  /\ seen' = Set(seen, p, 0)
  /\ UNCHANGED <<group, assignee, pr, ledger, log, run>>
\* Mutant: whoever has the claim may finalize.
InFinalizableAnyway == TRUE
InFinalizable == group \in {"started", "in_review"}
MarkCompleted(p) ==
  /\ step[p] = "merged"
  /\ IF Owns(p) /\ InFinalizable
     THEN group' = "completed" /\ StepGoes(p, "closing")
     ELSE UNCHANGED group /\ StepGoes(p, "erred")
  /\ UNCHANGED <<assignee, pr, ledger, log, seen, run>>
\* push_and_open_pr reuses the branch's open pull request, or opens one, and
\* records it in the item whatever has become of that.
Push(p) ==
  /\ step[p] = "push" /\ step' = Set(step, p, "review") /\ seen' = Set(seen, p, 0)
  /\ \E n \in Numbers :
       /\ IF \E k \in Numbers : prs[k] = "open" THEN prs[n] = "open" /\ UNCHANGED prs
          ELSE Opened = 1 .. (n - 1) /\ prs' = Set(prs, n, "open")
       /\ pr' = n
  /\ UNCHANGED <<group, assignee, labels, ledger, log, queue, at, who, before, run,
                 driver, daemon, outside, bounds>>
PushFails(p) ==
  /\ step[p] = "push" /\ StepGoes(p, "erred") /\ seen' = Set(seen, p, 0)
  /\ UNCHANGED <<group, assignee, pr, ledger, log, run>>
\* Nothing was ever committed: the claim is over (claim::done), the item stays.
NothingDone(p) ==
  /\ step[p] = "push" /\ Opened = {} /\ StepGoes(p, "erred")
  /\ seen' = Set(seen, p, 0)
  /\ IF Owns(p) THEN claim' = "done" /\ age' = 0 /\ UNCHANGED holder
     ELSE UNCHANGED ledger
  /\ UNCHANGED <<group, assignee, pr, log, run>>
MarkInReview(p) ==
  /\ step[p] = "review"
  /\ IF Owns(p) /\ InFinalizable
     THEN group' = "in_review" /\ StepGoes(p, "leave")
     ELSE UNCHANGED group /\ StepGoes(p, "erred")
  /\ UNCHANGED <<assignee, pr, ledger, log, seen, run>>

\* After a completion item_done ends the claim (release_claim_and_cleanup), ...
DoneCloses(p) ==
  /\ step[p] = "closing" /\ StepGoes(p, IF p \in Jobs THEN "release" ELSE "idle")
  /\ IF holder = Me(p) THEN claim' = "done" /\ age' = 0 /\ UNCHANGED holder
     ELSE UNCHANGED ledger
  /\ UNCHANGED <<group, assignee, pr, log, seen, run>>
\* ... and finalize releases it; under review it stays.
FinalizeReleases(j) ==
  /\ step[j] = "release" /\ Confirm(Me(j), TRUE) /\ StepGoes(j, "give")
  /\ UNCHANGED <<group, assignee, pr, log, seen, run>>
FinalizeGives(j) ==
  /\ step[j] = "give" /\ GiveUp(Me(j)) /\ StepGoes(j, "leave")
  /\ UNCHANGED <<group, pr, log, seen, run>>
\* Then it comments, and the driver settles the run if it is still running.
FinalizeEnds(j) ==
  /\ step[j] = "leave" /\ StepGoes(j, "idle")
  /\ SuccessComment /\ RunEnds(j, "completed")
  /\ UNCHANGED <<group, assignee, pr, ledger, seen>>
\* finalize is tried again, and then the run has failed.
FinalizeRetries(j) ==
  /\ step[j] = "erred" /\ Drives(j) /\ StepGoes(j, "final")
  /\ UNCHANGED <<group, assignee, pr, ledger, log, seen, run>>
FinalizeFails(j) ==
  /\ step[j] = "erred" /\ StepGoes(j, "idle")
  /\ RunEnds(j, "failed")
  /\ UNCHANGED <<group, assignee, pr, ledger, log, seen>>

-----------------------------------------------------------------------------
(* Sessions and operators, over the MCP server. *)

Idle(s) == s \notin gone /\ step[s] = "idle"
\* What a claim leads to is not counted among the calls.
Follows(s) == IF Owns(s) THEN UNCHANGED bounds ELSE Call
SessionClaims(s) ==
  /\ Call /\ Idle(s) /\ Claimable(s) /\ Claim(s)
  /\ UNCHANGED <<labels, pr, log, prs, queue, execs, daemon, outside>>
SessionReleases(s) ==
  /\ Follows(s) /\ Idle(s) /\ Confirm(Me(s), FALSE)
  /\ step' = Set(step, s, "give")
  /\ UNCHANGED <<item, log, prs, queue, at, who, seen, before, run, driver, daemon,
                 outside>>
SessionGives(s) ==
  /\ s \in Sessions /\ step[s] = "give" /\ GiveUp(Me(s)) /\ StepGoes(s, "idle")
  /\ UNCHANGED <<group, pr, log, seen, run>>
SessionCallsDone(s) ==
  /\ Follows(s) /\ Idle(s) /\ step' = Set(step, s, "done")
  /\ UNCHANGED <<item, ledger, log, prs, queue, at, who, seen, before, run, driver,
                 daemon, outside>>
\* item_done returns.
SessionReturns(s) ==
  /\ step[s] \in {"leave", "erred"} /\ StepGoes(s, "idle")
  /\ UNCHANGED <<group, assignee, pr, ledger, log, seen, run>>
SessionExits(s) ==
  /\ Fault /\ s \notin gone /\ gone' = gone \cup {s}
  /\ step' = Set(step, s, "idle") /\ seen' = Set(seen, s, 0)
  /\ UNCHANGED <<item, ledger, log, prs, queue, at, who, before, run, driver, daemon,
                 call, heir>>

\* reassignment_releases_claim.
TakeFromOthers(a) ==
  IF claim = "held" /\ holder[1] # a THEN NoClaim ELSE UNCHANGED ledger
\* One call that takes several steps at a time: a bound.
Stop(from, to) == call = from /\ call' = to
\* item_redispatch; with an agent, jobs and claims of others are ended afterwards.
Redispatch(a) ==
  /\ Call /\ group \notin Terminal
  /\ Requeue(a) /\ Stop("none", "handJobs") /\ heir' = a
  /\ UNCHANGED <<ledger, log, prs, queue, execs, daemon, gone>>
HandJobs ==
  /\ Stop("handJobs", "handClaim") /\ Kill({j \in Jobs : payload[j] # heir})
  /\ UNCHANGED <<item, ledger, log, prs, tries, payload, execs, daemon, heir, gone,
                 bounds>>
HandClaim ==
  /\ Stop("handClaim", "none") /\ TakeFromOthers(heir) /\ heir' = Nobody
  /\ UNCHANGED <<item, log, prs, queue, execs, daemon, gone, bounds>>
RedispatchSame ==
  /\ Call /\ group \notin Terminal /\ assignee # Nobody /\ Requeue(assignee)
  /\ UNCHANGED <<ledger, log, prs, queue, execs, daemon, outside>>
\* item_update with another assignee.
Reassign(a) ==
  /\ Call /\ assignee # a /\ assignee' = a /\ TakeFromOthers(a)
  /\ UNCHANGED <<group, labels, pr, log, prs, queue, execs, daemon, outside>>

RunOpen == run \in {"running", "paused"}
\* The workflow tool's cancel: the run only.
CancelRun ==
  /\ Call /\ RunOpen /\ run' = "cancelled"
  /\ UNCHANGED <<item, ledger, log, prs, queue, at, who, step, seen, before, driver,
                 daemon, outside>>
\* job_controls::cancel_job.
CancelJob(j) ==
  /\ Call /\ row[j] \in Active /\ Kill({j}) /\ Park
  /\ UNCHANGED <<group, assignee, pr, ledger, log, prs, tries, payload, execs, daemon,
                 outside>>

\* item_cancel and item_pause: the run, then the jobs, then the item.
BeginCancel ==
  /\ Call /\ Stop("none", "cancel")
  /\ UNCHANGED <<item, ledger, log, prs, queue, execs, daemon, heir, gone>>
BeginPause ==
  /\ Call /\ group \notin Terminal /\ Stop("none", "pause")
  /\ UNCHANGED <<item, ledger, log, prs, queue, execs, daemon, heir, gone>>
StopRun ==
  /\ \/ Stop("cancel", "cancelJobs") /\ run' = IF RunOpen THEN "cancelled" ELSE run
     \/ Stop("pause", "pauseJobs") /\ run' = IF run = "running" THEN "paused" ELSE run
  /\ UNCHANGED <<item, ledger, log, prs, queue, at, who, step, seen, before, driver,
                 daemon, heir, gone, bounds>>
StopJobs ==
  /\ Stop("cancelJobs", "cancelItem") \/ Stop("pauseJobs", "pauseItem")
  /\ Kill(Jobs)
  /\ UNCHANGED <<item, ledger, log, prs, tries, payload, execs, daemon, heir, gone,
                 bounds>>
CancelItem ==
  /\ Stop("cancelItem", "cancelClaim") /\ group' = "cancelled"
  /\ UNCHANGED <<assignee, labels, pr, ledger, log, prs, queue, execs, daemon, heir,
                 gone, bounds>>
StopItem ==
  /\ \/ Stop("cancelClaim", "none") /\ labels' = {}
     \/ /\ Stop("pauseItem", "none")
        /\ labels' = (labels \ {"ready", "dispatched"}) \cup {"paused"}
  /\ IF claim = "held" THEN NoClaim ELSE UNCHANGED ledger
  /\ UNCHANGED <<group, assignee, pr, log, prs, queue, execs, daemon, heir, gone,
                 bounds>>
\* item_resume, which is not counted among the calls: not before the paused run has
\* stopped, and not without an assignee.
Resume ==
  /\ "paused" \in labels \/ run = "paused"
  /\ run = "paused" => ~Driven
  /\ assignee # Nobody
  /\ IF group \in Terminal
     THEN labels' = labels \ {"paused"} /\ UNCHANGED <<group, assignee, pr>>
     ELSE /\ group' = "backlog" /\ pr' = KeptPr /\ UNCHANGED assignee
          /\ labels' = (labels \ {"dispatched", "manual", "paused"}) \cup {"ready"}
  /\ UNCHANGED <<ledger, log, prs, queue, execs, daemon, outside, bounds>>

-----------------------------------------------------------------------------
(* The daemon dies; the next one reconciles before it serves. *)

Crash ==
  /\ Fault /\ up /\ up' = FALSE
  /\ boot' = [j \in Jobs |-> "none"] /\ hook' = {} /\ tick' = "idle" /\ pick' = Nobody
  /\ suspect' = Nobody /\ watch' = 0
  /\ at' = [j \in Jobs |-> "idle"]
  /\ step' = [p \in Procs |-> IF p \in Jobs THEN "idle" ELSE step[p]]
  /\ seen' = [p \in Procs |-> IF p \in Jobs THEN 0 ELSE seen[p]] /\ before' = {}
  /\ UNCHANGED <<item, ledger, log, prs, queue, who, run, driver, outside>>
\* reconcile_orphaned_running.
Restart ==
  /\ ~up /\ up' = TRUE
  /\ boot' = [j \in Jobs |-> IF row[j] = "running" THEN "release" ELSE "none"]
  /\ row' = [j \in Jobs |-> IF row[j] = "running" THEN "failed" ELSE row[j]]
  /\ UNCHANGED <<item, ledger, log, prs, tries, payload, execs, hook, ticker, suspect,
                 watch, outside, bounds>>
\* release_claims_for_reconciled_jobs, in the name of the agent the job was
\* enqueued for: item_release and a failure comment, ...
Orphan(j) == <<payload[j], j>>
ReleaseOrphan(j) ==
  /\ boot[j] = "release" /\ boot' = Set(boot, j, "give") /\ Confirm(Orphan(j), TRUE)
  /\ UNCHANGED <<item, log, prs, queue, execs, up, hook, ticker, suspect, watch,
                 outside, bounds>>
GiveOrphan(j) ==
  /\ boot[j] = "give" /\ boot' = Set(boot, j, "restore")
  /\ GiveUp(Orphan(j)) /\ FailureComment
  /\ UNCHANGED <<group, labels, pr, prs, queue, execs, up, hook, ticker, suspect, watch,
                 outside, bounds>>
\* ... and restore_ready_for_work.
RestoreOrphan(j) ==
  /\ boot[j] = "restore" /\ boot' = Set(boot, j, "none")
  /\ IF Failures >= Cap THEN CapComment ELSE UNCHANGED log
  /\ IF group \in Terminal THEN UNCHANGED <<item, ledger>>
     ELSE /\ LedgerRelease(Orphan(j))
          /\ assignee' = Restored(j) /\ UNCHANGED <<group, pr>>
          /\ ReArm
  /\ UNCHANGED <<prs, queue, execs, up, hook, ticker, suspect, watch, outside, bounds>>

-----------------------------------------------------------------------------

Tick ==
  \/ TickLists \/ TickFinds \/ TickSkips \/ TickRefused \/ Swap
  \/ \E j \in Jobs : Enqueue(j)
Sweep == SweepSuspects \/ SweepForgets \/ SweepReleases
ReviewSweep == SweepFindsMerged \/ Promote
Executor(j) ==
  \/ Dequeue(j) \/ Prepare(j) \/ JobClaims(j) \/ SetUpFails(j) \/ RollBack(j)
  \/ AttachRun(j) \/ WaiterSeesEnd(j) \/ WaiterSeesJobCancelled(j)
  \/ WaiterLosesClaim(j) \/ TakesOver(j) \/ Drop(j) \/ DropEnds(j)
  \/ StopOnRequest(j) \/ Report(j) \/ FailureHook(j)
Finalizer(j) ==
  \/ AgentEnds(j) \/ Finalize(j) \/ FinalizeReleases(j) \/ FinalizeGives(j)
  \/ FinalizeEnds(j) \/ FinalizeRetries(j) \/ FinalizeFails(j)
Done(p) ==
  \/ DoneBegins(p) \/ DoneSteals(p) \/ SeesMerged(p) \/ MarkCompleted(p) \/ Push(p)
  \/ PushFails(p) \/ NothingDone(p) \/ MarkInReview(p) \/ DoneCloses(p)
Session(s) ==
  \/ SessionClaims(s) \/ SessionReleases(s) \/ SessionGives(s) \/ SessionCallsDone(s)
  \/ SessionReturns(s) \/ SessionExits(s)
Stopping ==
  StopRun \/ StopJobs \/ CancelItem \/ StopItem \/ HandJobs \/ HandClaim
Operator ==
  \/ \E a \in Agents : Redispatch(a) \/ Reassign(a)
  \/ \E j \in Jobs : CancelJob(j)
  \/ RedispatchSame \/ CancelRun \/ BeginCancel \/ BeginPause
  \/ Stopping \/ Resume
OrphanSteps(j) == ReleaseOrphan(j) \/ GiveOrphan(j) \/ RestoreOrphan(j)
Boot == Restart \/ \E j \in Jobs : OrphanSteps(j)

Next ==
  \/ Tick \/ Sweep \/ ReviewSweep \/ Operator
  \/ Crash \/ Boot \/ DriverErrs \/ Age \/ PrSettles
  \/ \E j \in Jobs : Executor(j) \/ Finalizer(j)
  \/ \E s \in Sessions : Session(s)
  \/ \E p \in Procs : Done(p) \/ Heartbeat(p)

Spec == Init /\ [][Next]_vars
-----------------------------------------------------------------------------
(***************************************************************************)
(* What the threads of the daemon owe: the ticker, the sweeps, the workers *)
(* and their steps go on, a daemon that died is started again, and a step  *)
(* that keeps failing is given up (its retries are counted).               *)
(***************************************************************************)
Fairness ==
  /\ WF_vars(Tick) /\ WF_vars(Sweep) /\ WF_vars(ReviewSweep) /\ WF_vars(Boot)
  /\ WF_vars(Stopping)
  /\ \A j \in Jobs :
       /\ WF_vars(Executor(j)) /\ WF_vars(Finalizer(j)) /\ WF_vars(Done(j))
       /\ SF_vars(FinalizeFails(j))
FairSpec == Spec /\ Fairness
-----------------------------------------------------------------------------

\* A lease that has not run out is its owner's while the owner's job runs:
\* only the owner's own steps end it, an operator, or the merge of the item's
\* pull request; no sweep, late result, boot or other worker does.
AtWork(o) == o[2] \in Jobs /\ at[o[2]] # "idle" /\ row[o[2]] = "running"
Moves(j) == at'[j] # at[j] \/ step'[j] # step[j]
LiveClaimIsKept ==
  [][Live /\ AtWork(holder) /\ ~(claim' = "held" /\ holder' = holder)
       => Moves(holder[2]) \/ Operator \/ Promote]_vars

\* Two executors are at one item, from taking the job to reporting on it, only
\* while one of them is being cancelled: redispatch, orphans, retries, the daemon's
\* death and adoption never double the work.
WorkersAreAlone ==
  \A i, j \in Jobs : i # j /\ at[i] # "idle" /\ at[j] # "idle"
                      => "killed" \in {row[i], row[j]}

\* A job's claim has somebody who will end it: its executor, the step it left
\* behind, the sweep (its job is settled) or the boot.
ClaimHasKeeper ==
  claim = "held" /\ holder[2] \in Jobs
    => \/ at[holder[2]] # "idle" \/ step[holder[2]] # "idle"
       \/ Exited(holder, TRUE) \/ ~Serving

\* Until an operator calls, or a job is cancelled (without an operator: by the merge
\* of the item's pull request), the daemon stops dispatching an item that keeps failing
\* after DISPATCH_FAILURE_CAP_ANY_REASON jobs.  A daemon that dies between the enqueue
\* and the comment of the dispatch leaves the item ready and a job the ceiling does not
\* count; the next tick may begin a cycle before that job's hook is called, which
\* then reports the cap for a job that has just begun, and the count starts over.
\* So a crash may cost a job and a budget, and no more than that.
Undisturbed == calls = 0 /\ \A j \in Jobs : row[j] # "killed"
Tried == Cardinality({j \in Jobs : row[j] # "none"})
DispatchesAreBounded == Undisturbed => Tried <= Cap + (Cap + 1) * faults

\* An item that is ready is dispatched, or parked, some time (or the bound on
\* jobs is reached): no claim, job or label left behind keeps it waiting.
ReadyIsServed == "ready" \in labels ~> "ready" \notin labels \/ Unused = {}

\* A dispatched item does not stay dispatched: it comes to review or is
\* completed, is made ready again, or parked.  Except that a job may be over
\* before the tick that enqueued it swaps the labels, and that a daemon that
\* dies between a job's failure and its hook never calls the hook.
Lingers == labels = {"dispatched"} /\ group \notin {"in_review"} \cup Terminal
HookLost == ~InFlight /\ (tick = "swap" \/ (~up /\ Lingers))
DispatchEnds == []~HookLost => (Lingers ~> ~Lingers)

\* item_cancel has stopped the run and the jobs before it cancels the item: a cancel
\* "must be terminal", nothing that was under way brings the item back.
CancelIsTerminal == [][group = "cancelled" => group' = "cancelled"]_vars

\* The life of an item that the ledger, the daemon and the sessions implement.
Life == INSTANCE ItemLife WITH
  stage <- group,
  worker <- IF claim = "held" THEN holder ELSE Nobody,
  lapsed <- claim = "held" /\ (Stale \/ Exited(holder, FALSE)),
  taken <- {<<b.by, b.group>> : b \in before},
  delivered <- \E n \in Numbers : Merged(n)
ImplementsLife == Life!Spec
=============================================================================
