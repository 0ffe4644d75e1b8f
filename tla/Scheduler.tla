------------------------------ MODULE Scheduler ------------------------------
(***************************************************************************)
(* The interval scheduler of src/schedule: one schedule, its occurrences   *)
(* and the workflow runs they start.  The daemon's tick reconciles open    *)
(* occurrences, admits the slot that is due, claims the queue and spawns a *)
(* fire task per claimed occurrence; the fire starts a run under the       *)
(* occurrence's key and links it; the run's driver writes its outcome back.*)
(* Ticks, fires and drivers run in parallel, clients change the schedule   *)
(* and queue manual fires at any time, and the daemon may die anywhere.    *)
(*                                                                         *)
(* A scheduled occurrence is named by its slot.  The start key gives an    *)
(* occurrence one run at most, so the run is named by the occurrence too.  *)
(* The clock stops at Horizon, which stands for every later time.          *)
(***************************************************************************)
EXTENDS Integers

CONSTANTS
  Manual,        \* ids of the manual fires
  Intervals,     \* values of every_secs
  Grace,         \* effective_grace_secs
  Delay,         \* START_RECOVERY_DELAY_SECS
  Overlap,       \* "skip" or "allow"
  Horizon,       \* bound: the last instant
  MaxFaults,     \* bound: crashes of the daemon and failing store calls
  MaxCalls,      \* bound: calls by clients
  MaxEvents,     \* bound: both together
  FireEnabled    \* bound: are there manual fires while the schedule is enabled?

Never == -1

ASSUME TimeAssumption ==
  /\ Horizon \in Nat \ {0} /\ Grace \in Nat /\ Delay \in Nat \ {0}
  /\ Intervals # {} /\ Intervals \subseteq 1 .. Horizon
ASSUME ScheduleAssumption ==
  /\ \A m \in Manual : m \notin Int
  /\ Overlap \in {"skip", "allow"}
  /\ FireEnabled \in BOOLEAN /\ MaxFaults \in Nat /\ MaxCalls \in Nat
  /\ MaxEvents \in Nat

Slots == 1 .. (Horizon - 1)
Occs  == Slots \cup Manual
Open  == {"queued", "dispatching", "dispatched"}
Outcomes == {"completed", "failed", "cancelled", "interrupted", "evicted",
             "dispatch_failed", "skipped_missed", "skipped_overlap"}

VARIABLES
  now,
  \* the schedule's row; next_fire_at is Horizon when no slot is left
  exists, enabled, every, next,
  \* the occurrences' rows: "none" before and "gone" after
  status,
  startedAt,   \* dispatch_started_at, while it is read: as long as dispatching
  \* the runs' rows, "none" without a start "evicted" when only that is left
  run,
  fresh,       \* running runs whose executor lease is fresh
  \* the daemon's tasks
  driver,      \* of a run: at work, or with the outcome it still has to report
  fire,        \* fire_one of an occurrence; not "none": in_flight
  tick,        \* the part of tick_once under way; "down" if there is no daemon
  tickAt,      \* the tick's `now`, while there is one
  todo,        \* what this part still does with an occurrence
  faults, calls

schedule == <<exists, enabled, every, next>>
rows     == <<status, startedAt>>
runs     == <<run, fresh>>
daemon   == <<driver, fire, tick, tickAt, todo>>
bounds   == <<faults, calls>>
vars     == <<now, schedule, rows, runs, daemon, bounds>>

\* Every variable has its type; an occurrence has an attempt on record exactly
\* while one is under way.
TypeOK ==
  /\ now \in 0 .. Horizon /\ tickAt \in Never .. Horizon
  /\ exists \in BOOLEAN /\ enabled \in BOOLEAN
  /\ every \in Intervals /\ next \in 1 .. Horizon
  /\ status \in [Occs -> {"none", "gone"} \cup Open \cup Outcomes]
  /\ startedAt \in [Occs -> Never .. Horizon]
  /\ fresh \subseteq Occs
  /\ run \in [Occs -> {"none", "running", "paused", "completed", "failed",
                       "cancelled", "evicted"}]
  /\ driver \in [Occs -> {"none", "run", "completed", "failed"}]
  /\ fire \in [Occs -> {"none", "spawned", "ready", "started",
                        "linked", "cancel", "interrupted"}]
  /\ tick \in {"down", "idle", "dispatching", "dispatched", "queue"}
  /\ todo \in [Occs -> {"none", "listed", "linked", "cancel", "interrupted", "spawn"}]
  /\ faults \in 0 .. MaxFaults /\ calls \in 0 .. MaxCalls
  /\ \A o \in Occs : status[o] = "dispatching" <=> startedAt[o] # Never

Upto(t) == IF t > Horizon THEN Horizon ELSE t
Set(f, o, value) == [f EXCEPT ![o] = value]
AllOccs(value) == [o \in Occs |-> value]

\* create_schedule, and perhaps a disable since.
Init ==
  /\ now = 0 /\ exists = TRUE /\ enabled \in BOOLEAN
  /\ every \in Intervals /\ next = every
  /\ status = AllOccs("none") /\ startedAt = AllOccs(Never)
  /\ run = AllOccs("none") /\ fresh = {}
  /\ driver = AllOccs("none") /\ fire = AllOccs("none")
  /\ tick = "down" /\ tickAt = Never /\ todo = AllOccs("none")
  /\ faults = 0 /\ calls = 0

MoreEvents == calls + faults < MaxEvents
Fault == MoreEvents /\ faults < MaxFaults /\ faults' = faults + 1 /\ UNCHANGED calls
Call  == MoreEvents /\ calls < MaxCalls /\ calls' = calls + 1 /\ UNCHANGED faults

-----------------------------------------------------------------------------
(* Clients: the CLI and the MCP server. *)

Update ==
  /\ Call /\ exists
  /\ \E e \in Intervals : every' = e /\ next' = Upto(now + e)
  /\ UNCHANGED <<now, exists, enabled, rows, runs, daemon>>
\* Enabling resets the slot without catch-up.
Enable ==
  /\ Call /\ exists /\ ~enabled
  /\ enabled' = TRUE /\ next' = Upto(now + every)
  /\ UNCHANGED <<now, exists, every, rows, runs, daemon>>
Disable ==
  /\ Call /\ exists /\ enabled /\ enabled' = FALSE
  /\ UNCHANGED <<now, exists, every, next, rows, runs, daemon>>
\* The occurrences go with the schedule; receipts and runs stay.
Remove ==
  /\ Call /\ exists /\ exists' = FALSE
  /\ status' = AllOccs("gone") /\ startedAt' = AllOccs(Never)
  /\ UNCHANGED <<now, enabled, every, next, runs, daemon>>
EnqueueManual(m) ==
  /\ Call /\ exists /\ (enabled => FireEnabled) /\ status[m] = "none"
  /\ status' = Set(status, m, "queued")
  /\ UNCHANGED <<now, schedule, startedAt, runs, daemon>>

Ended == {"completed", "failed", "cancelled"}
Live  == {"running", "paused"}
\* A run stops running; nobody reads its lease any more.
Becomes(o, st) == run' = Set(run, o, st) /\ fresh' = fresh \ {o}

\* Another process pauses or cancels a run.
PauseRun(o) ==
  /\ Call /\ run[o] = "running" /\ Becomes(o, "paused")
  /\ UNCHANGED <<now, schedule, rows, daemon>>
CancelRun(o) ==
  /\ Call /\ run[o] \in Live /\ Becomes(o, "cancelled")
  /\ UNCHANGED <<now, schedule, rows, daemon>>
\* The start of any workflow may evict an old finished run.
Evict(o) ==
  /\ run[o] \in {"completed", "failed"} /\ Becomes(o, "evicted")
  /\ UNCHANGED <<now, schedule, rows, daemon, bounds>>

-----------------------------------------------------------------------------
(* Writes to an occurrence, each a guarded UPDATE. *)

InDispatch(o) == status[o] \in {"dispatching", "dispatched"}
MoveTo(o, st) == status' = Set(status, o, st) /\ startedAt' = Set(startedAt, o, Never)

LinkRun(o) == IF InDispatch(o) THEN MoveTo(o, "dispatched") ELSE UNCHANGED rows
\* Mutant: a terminal row is settled again.
SettleAnyway(o, outcome) ==
  IF status[o] # "gone" THEN MoveTo(o, outcome) ELSE UNCHANGED rows
SettleOpen(o, outcome) == IF InDispatch(o) THEN MoveTo(o, outcome) ELSE UNCHANGED rows
CompleteLinkedRun(o, outcome) ==
  IF status[o] = "dispatched" THEN MoveTo(o, outcome) ELSE UNCHANGED rows
\* Mutant: the attempt stays on record.
RequeueAttempt(o) ==
  IF status[o] = "dispatching"
  THEN status' = Set(status, o, "queued") /\ UNCHANGED startedAt ELSE UNCHANGED rows
MarkQueued(o) ==
  IF status[o] = "dispatching" THEN MoveTo(o, "queued") ELSE UNCHANGED rows
MarkDispatchFailed(o) ==
  IF status[o] = "dispatching" THEN MoveTo(o, "dispatch_failed") ELSE UNCHANGED rows

-----------------------------------------------------------------------------
(* reconcile_linked_run, of the tick and of a fire that linked its run.  At  *)
(* is how far the caller is with o; Goto takes it further.                   *)

At(caller, o) == IF caller = "fire" THEN fire[o] ELSE todo[o]
Goto(caller, o, at) ==
  /\ fire' = IF caller = "fire" THEN Set(fire, o, at) ELSE fire
  /\ todo' = IF caller = "tick" THEN Set(todo, o, at) ELSE todo
\* The tick finishes one occurrence before it takes the next.
Midway == {"cancel", "interrupted"} \cup IF tick = "dispatching" THEN {"linked"} ELSE {}
Takes(caller, o, at) ==
  /\ At(caller, o) = at
  /\ caller = "tick" => \A p \in Occs \ {o} : todo[p] \notin Midway

\* Mutant: a run that is not over counts as driven, whatever its lease.
AliveByStatus(o) == run[o] \in Live
\* A paused run, or one with a fresh lease, is left alone.
Alive(o) == run[o] = "paused" \/ (run[o] = "running" /\ o \in fresh)

\* A finished or an evicted run settles its occurrence.
Converge(caller, o) ==
  /\ Takes(caller, o, "linked") /\ run[o] \in Ended \cup {"evicted"}
  /\ SettleOpen(o, run[o]) /\ Goto(caller, o, "none")
  /\ UNCHANGED <<now, schedule, runs, driver, tick, tickAt, bounds>>
LeaveAlive(caller, o) ==
  /\ Takes(caller, o, "linked") /\ Alive(o)
  /\ Goto(caller, o, "none")
  /\ UNCHANGED <<now, schedule, rows, runs, driver, tick, tickAt, bounds>>
SeeOrphan(caller, o) ==
  /\ Takes(caller, o, "linked") /\ run[o] \in Live /\ ~Alive(o)
  /\ Goto(caller, o, "cancel")
  /\ UNCHANGED <<now, schedule, rows, runs, driver, tick, tickAt, bounds>>
\* cancel_if_orphaned looks again, in the transaction that cancels.
CancelOrphan(caller, o) ==
  /\ Takes(caller, o, "cancel") /\ run[o] \in Live /\ ~Alive(o)
  /\ Becomes(o, "cancelled") /\ Goto(caller, o, "interrupted")
  /\ UNCHANGED <<now, schedule, rows, driver, tick, tickAt, bounds>>
OrphanRevived(caller, o) ==
  /\ Takes(caller, o, "cancel") /\ Alive(o)
  /\ Goto(caller, o, "none")
  /\ UNCHANGED <<now, schedule, rows, runs, driver, tick, tickAt, bounds>>
OrphanEnded(caller, o) ==
  /\ Takes(caller, o, "cancel") /\ run[o] \in Ended \cup {"evicted"}
  /\ SettleOpen(o, run[o]) /\ Goto(caller, o, "none")
  /\ UNCHANGED <<now, schedule, runs, driver, tick, tickAt, bounds>>
SettleInterrupted(caller, o) ==
  /\ Takes(caller, o, "interrupted")
  /\ SettleOpen(o, "interrupted") /\ Goto(caller, o, "none")
  /\ UNCHANGED <<now, schedule, runs, driver, tick, tickAt, bounds>>
\* A store call fails, here or where the tick looks at an occurrence: the tick, or
\* the fire, goes on without it.
ReconcileErrs(caller, o) ==
  /\ Fault
  /\ \E at \in {"listed", "linked", "cancel", "interrupted", "spawn"} : Takes(caller, o, at)
  /\ Goto(caller, o, "none")
  /\ UNCHANGED <<now, schedule, rows, runs, driver, tick, tickAt>>

Reconcile(caller, o) ==
  \/ Converge(caller, o) \/ LeaveAlive(caller, o) \/ SeeOrphan(caller, o)
  \/ CancelOrphan(caller, o) \/ OrphanRevived(caller, o) \/ OrphanEnded(caller, o)
  \/ SettleInterrupted(caller, o)

-----------------------------------------------------------------------------
(* fire_one. *)

\* Mutant: a receipt goes with the run it names.
LookupRun(o) == run[o] \notin {"none", "evicted"}
LookupStart(o) == run[o] # "none"

FireMovedOn(o) ==
  /\ fire[o] = "spawned" /\ status[o] # "dispatching"
  /\ fire' = Set(fire, o, "none")
  /\ UNCHANGED <<now, schedule, rows, runs, driver, tick, tickAt, todo, bounds>>
FireLooks(o) ==
  /\ fire[o] = "spawned" /\ status[o] = "dispatching"
  /\ IF LookupStart(o) THEN LinkRun(o) /\ fire' = Set(fire, o, "linked")
                       ELSE UNCHANGED rows /\ fire' = Set(fire, o, "ready")
  /\ UNCHANGED <<now, schedule, runs, driver, tick, tickAt, todo, bounds>>
\* The workflow's file does not compile now.
FireBadDefinition(o) ==
  /\ fire[o] = "ready" /\ MarkDispatchFailed(o)
  /\ fire' = Set(fire, o, "none")
  /\ UNCHANGED <<now, schedule, runs, driver, tick, tickAt, todo, bounds>>
\* create_start_once: receipt and run in one transaction, unless there is one.
Commit(o) ==
  IF LookupStart(o) THEN UNCHANGED runs
  ELSE run' = Set(run, o, "running") /\ fresh' = fresh \cup {o}
\* start_workflow_once_with_params: who created the receipt launches a driver.
StartOnce(o) ==
  /\ fire[o] = "ready" /\ Commit(o)
  /\ driver' = IF LookupStart(o) THEN driver ELSE Set(driver, o, "run")
  /\ fire' = Set(fire, o, "started")
  /\ UNCHANGED <<now, schedule, rows, tick, tickAt, todo, bounds>>
FireLinks(o) ==
  /\ fire[o] = "started" /\ LinkRun(o)
  /\ fire' = Set(fire, o, "linked")
  /\ UNCHANGED <<now, schedule, runs, driver, tick, tickAt, todo, bounds>>

\* A store call fails, the start's perhaps after its commit: the run is linked if
\* a receipt is found (this may fail too), and the rest is left to the next tick.
Uncertain(o) == (run'[o] # "none" /\ LinkRun(o)) \/ UNCHANGED rows
FireErrs(o) ==
  /\ Fault /\ fire[o] \in {"spawned", "ready", "started"}
  /\ UNCHANGED runs /\ Uncertain(o)
  /\ fire' = Set(fire, o, "none")
  /\ UNCHANGED <<now, schedule, driver, tick, tickAt, todo>>
StartErrs(o) ==
  /\ Fault /\ fire[o] = "ready"
  /\ Commit(o) /\ Uncertain(o)
  /\ fire' = Set(fire, o, "none")
  /\ UNCHANGED <<now, schedule, driver, tick, tickAt, todo>>

Fire(o) ==
  \/ FireMovedOn(o) \/ FireLooks(o) \/ FireBadDefinition(o) \/ StartOnce(o)
  \/ FireLinks(o) \/ Reconcile("fire", o)

-----------------------------------------------------------------------------
(* tick_once. *)

ListOpen(st, at) == todo' = [o \in Occs |-> IF status[o] = st THEN at ELSE "none"]
PartDone == todo = AllOccs("none")

TickBegins ==
  /\ tick = "idle" /\ PartDone /\ tick' = "dispatching" /\ tickAt' = now
  /\ ListOpen("dispatching", "listed")
  /\ UNCHANGED <<now, schedule, rows, runs, driver, fire, bounds>>

\* Horizon is late enough for every delay.
Elapsed(o) == tickAt - startedAt[o] >= Delay \/ tickAt = Horizon
Late(slot) == tickAt - slot > Grace \/ tickAt = Horizon
\* A manual fire never expires.
Expired(o) == o \in Slots /\ Late(o)
\* Mutant: nothing is in flight.
InFlightNothing(o) == FALSE
InFlight(o) == fire[o] # "none"

\* reconcile_dispatching.
LeaveDispatching(o) ==
  /\ Takes("tick", o, "listed")
  /\ InFlight(o) \/ (~LookupStart(o) /\ ~Elapsed(o))
  /\ Goto("tick", o, "none")
  /\ UNCHANGED <<now, schedule, rows, runs, driver, tick, tickAt, bounds>>
LinkStarted(o) ==
  /\ Takes("tick", o, "listed") /\ ~InFlight(o) /\ LookupStart(o)
  /\ LinkRun(o) /\ Goto("tick", o, "linked")
  /\ UNCHANGED <<now, schedule, runs, driver, tick, tickAt, bounds>>
RetryLost(o) ==
  /\ Takes("tick", o, "listed") /\ ~InFlight(o) /\ ~LookupStart(o) /\ Elapsed(o)
  /\ IF Expired(o) THEN MarkDispatchFailed(o) ELSE MarkQueued(o)
  /\ Goto("tick", o, "none")
  /\ UNCHANGED <<now, schedule, runs, driver, tick, tickAt, bounds>>

ListDispatched ==
  /\ tick = "dispatching" /\ PartDone /\ tick' = "dispatched"
  /\ ListOpen("dispatched", "linked")
  /\ UNCHANGED <<now, schedule, rows, runs, driver, fire, tickAt, bounds>>

Due == exists /\ enabled /\ next <= tickAt /\ next < Horizon
\* Mutant: an occurrence that is being dispatched is not open.
HasOpenRun == \E o \in Occs : status[o] \in {"queued", "dispatched"}
HasOpen == \E o \in Occs : status[o] \in Open
\* Mutant: an exact hit does not move.
AdvanceShort(slot) ==
  LET late == tickAt - slot IN Upto(slot + ((late + every - 1) \div every) * every)
\* The first slot of the grid after the tick.
AdvanceSlot(slot) == Upto(slot + ((tickAt - slot) \div every + 1) * every)
Admission == IF Late(next) THEN "skipped_missed"
             ELSE IF Overlap = "skip" /\ HasOpen THEN "skipped_overlap" ELSE "queued"
ClaimDueSlot ==
  /\ tick = "dispatched" /\ PartDone /\ tick' = "queue" /\ Due
  /\ status' = Set(status, next, Admission)
  /\ next' = AdvanceSlot(next)
  /\ UNCHANGED <<now, exists, enabled, every, startedAt, runs, driver, fire, tickAt, todo,
                 bounds>>
NothingDue ==
  /\ tick = "dispatched" /\ PartDone /\ tick' = "queue" /\ ~Due
  /\ UNCHANGED <<now, schedule, rows, runs, driver, fire, tickAt, todo, bounds>>

ClaimQueued ==
  /\ tick = "queue" /\ tick' = "idle" /\ tickAt' = Never
  /\ LET claimed == {o \in Occs : status[o] = "queued" /\ ~Expired(o)} IN
     /\ status' = [o \in Occs |-> IF o \in claimed THEN "dispatching"
                                  ELSE IF status[o] = "queued" THEN "skipped_missed"
                                  ELSE status[o]]
     /\ startedAt' = [o \in Occs |-> IF o \in claimed THEN tickAt ELSE startedAt[o]]
     /\ todo' = [o \in Occs |-> IF o \in claimed THEN "spawn" ELSE "none"]
  /\ UNCHANGED <<now, schedule, runs, driver, fire, bounds>>
\* The tick is over when all are spawned.
SpawnFire(o) ==
  /\ todo[o] = "spawn" /\ todo' = Set(todo, o, "none")
  /\ fire' = IF status[o] = "dispatching" /\ ~InFlight(o)
             THEN Set(fire, o, "spawned") ELSE fire
  /\ UNCHANGED <<now, schedule, rows, runs, driver, tick, tickAt, bounds>>

\* The claim of the slot fails: the schedule waits for the next tick.
ClaimErrs ==
  /\ Fault /\ tick = "dispatched" /\ PartDone /\ Due /\ tick' = "queue"
  /\ UNCHANGED <<now, schedule, rows, runs, driver, fire, tickAt, todo>>
\* A list or the claim of the queue fails: the rest waits for the next tick.
TickFails ==
  /\ Fault /\ tick \in {"dispatching", "dispatched", "queue"} /\ PartDone
  /\ tick' = "idle" /\ tickAt' = Never
  /\ UNCHANGED <<now, schedule, rows, runs, driver, fire, todo>>

Tick ==
  \/ TickBegins \/ ListDispatched \/ ClaimDueSlot \/ NothingDue
  \/ ClaimQueued
  \/ \E o \in Occs : LeaveDispatching(o) \/ LinkStarted(o) \/ RetryLost(o)
                     \/ Reconcile("tick", o) \/ SpawnFire(o)

-----------------------------------------------------------------------------
(* The driver of a run, its lease, the clock and the daemon's life. *)

\* The outcome is committed, and is still to be reported.
DriverSettles(o) ==
  /\ driver[o] = "run" /\ run[o] \in Live
  /\ \E outcome \in {"completed", "failed"} :
       Becomes(o, outcome) /\ driver' = Set(driver, o, outcome)
  /\ UNCHANGED <<now, schedule, rows, fire, tick, tickAt, todo, bounds>>
\* It finds its run over or paused.
DriverStops(o) ==
  /\ driver[o] = "run" /\ run[o] # "running"
  /\ driver' = Set(driver, o, "none")
  /\ UNCHANGED <<now, schedule, rows, runs, fire, tick, tickAt, todo, bounds>>
\* A store call fails in the scheduling loop: the lease is released.
DriverErrs(o) ==
  /\ Fault /\ driver[o] = "run"
  /\ driver' = Set(driver, o, "none") /\ fresh' = fresh \ {o}
  /\ UNCHANGED <<now, schedule, rows, run, fire, tick, tickAt, todo>>
\* on_terminal: complete_linked_run.
EagerWrite(o) ==
  /\ driver[o] \in {"completed", "failed"}
  /\ CompleteLinkedRun(o, driver[o])
  /\ driver' = Set(driver, o, "none")
  /\ UNCHANGED <<now, schedule, runs, fire, tick, tickAt, todo, bounds>>
EagerFails(o) ==
  /\ Fault /\ driver[o] \in {"completed", "failed"}
  /\ driver' = Set(driver, o, "none")
  /\ UNCHANGED <<now, schedule, rows, runs, fire, tick, tickAt, todo>>

\* A lease ages when nobody renews it; only a running run's is ever looked at.
LeaseAges(o) ==
  /\ driver[o] = "none" /\ run[o] = "running" /\ o \in fresh
  /\ fresh' = fresh \ {o}
  /\ UNCHANGED <<now, schedule, rows, run, daemon, bounds>>
\* The host was suspended: every lease has aged, and is renewed later.
Suspend ==
  /\ Fault /\ fresh' = {}
  /\ UNCHANGED <<now, schedule, rows, run, daemon>>
Renew(o) ==
  /\ driver[o] = "run" /\ o \notin fresh /\ run[o] = "running"
  /\ fresh' = fresh \cup {o}
  /\ UNCHANGED <<now, schedule, rows, run, daemon, bounds>>

Advance ==
  /\ now < Horizon /\ now' = now + 1
  /\ UNCHANGED <<schedule, rows, runs, daemon, bounds>>
Crash ==
  /\ Fault /\ tick # "down" /\ tick' = "down" /\ tickAt' = Never
  /\ driver' = AllOccs("none") /\ fire' = AllOccs("none") /\ todo' = AllOccs("none")
  /\ UNCHANGED <<now, schedule, rows, runs>>
Restart ==
  /\ tick = "down" /\ tick' = "idle"
  /\ UNCHANGED <<now, schedule, rows, runs, driver, fire, tickAt, todo, bounds>>

Client == \/ Update \/ Enable \/ Disable \/ Remove
          \/ \E m \in Manual : EnqueueManual(m)
          \/ \E o \in Occs : PauseRun(o) \/ CancelRun(o) \/ Evict(o)
Driver(o) == DriverSettles(o) \/ DriverStops(o) \/ EagerWrite(o)
Failure(o) == \/ FireErrs(o) \/ StartErrs(o) \/ DriverErrs(o) \/ EagerFails(o)
              \/ \E caller \in {"fire", "tick"} : ReconcileErrs(caller, o)

Next ==
  \/ Client \/ Tick \/ ClaimErrs \/ TickFails \/ Advance \/ Suspend \/ Crash \/ Restart
  \/ \E o \in Occs : Fire(o) \/ Driver(o) \/ Failure(o) \/ LeaseAges(o) \/ Renew(o)

Spec == Init /\ [][Next]_vars
\* The ticker runs on, the fires and the drivers go on, leases that nobody renews
\* age, and a dead daemon is started again.
Fairness ==
  /\ WF_vars(Tick) /\ WF_vars(Advance) /\ WF_vars(Restart)
  /\ WF_vars(\E o \in Occs : Fire(o)) /\ WF_vars(\E o \in Occs : Driver(o))
  /\ WF_vars(\E o \in Occs : LeaseAges(o))
FairSpec == Spec /\ Fairness

-----------------------------------------------------------------------------
(* Properties. *)

\* A settled occurrence tells what became of its run: completed or failed as the
\* run was (unless that was evicted since), cancelled and interrupted only if the
\* run was cancelled, evicted only if it is, and no run at all behind a skip or
\* a failed dispatch (reconcile_linked_run, fire_one, complete_linked_run).
OutcomeIsTheRuns ==
  \A o \in Occs :
    /\ status[o] \in {"completed", "failed"} => run[o] \in {status[o], "evicted"}
    /\ status[o] \in {"cancelled", "interrupted"} => run[o] = "cancelled"
    /\ status[o] = "evicted" => run[o] = "evicted"
    /\ status[o] \in {"dispatch_failed", "skipped_missed", "skipped_overlap"} =>
         run[o] = "none"

\* Under overlap "skip" two slots never have a run that is not over at the same
\* time, across crashes, retries and edits of the schedule, for as long as the
\* schedule is there (has_open).
NoRunOverlap ==
  Overlap = "skip" /\ exists =>
    \A s, t \in Slots : run[s] \in Live /\ run[t] \in Live => s = t

\* The slot the clock stands at was never claimed before, whatever updates and
\* re-enabling did to the clock: what the unique index is the last guard of.
NextSlotIsFree == exists /\ next \in Slots => status[next] = "none"

\* A driver is launched only for a run that was not started before, not even one
\* whose row was evicted since ("Never restart.", start_workflow_once).
NeverRestarted ==
  [][\A o \in Occs : driver[o] # "run" /\ driver'[o] = "run" => run[o] = "none"]_vars

\* What all of it is for: ticks, fires, drivers and recovery keep what the scheduler
\* promises of an occurrence, whatever crashes, fails or comes late.
Phase == [o \in Occs |-> IF status[o] \in Open THEN "open" ELSE status[o]]
Promise == INSTANCE OccurrenceLife WITH phase <- Phase
ImplementsLife == Promise!Spec

\* A settled occurrence keeps its outcome until its schedule is removed, however
\* late the eager write, the fire or the tick comes to it.
OutcomeIsFinal ==
  [][\A o \in Occs : status[o] \in Outcomes => status'[o] \in {status[o], "gone"}]_vars

\* Every accepted occurrence settles, unless its run is paused: a lost fire is
\* retried or given up, a missed completion is copied, an orphan is interrupted.
\* (Slots end at Horizon, so a time comes when none is open; a formula for each
\* occurrence would say the same, and take TLC three times as long.)
OccurrencesSettle ==
  (\E o \in Occs : status[o] \in Open) ~>
    (\A o \in Occs : status[o] \in Open => run[o] = "paused")
=============================================================================
