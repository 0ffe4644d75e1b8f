--------------------------- MODULE WorkflowLease ---------------------------
(***************************************************************************)
(* One workflow run of crates/flare-workflow and the processes that may    *)
(* drive it: the executor lease and its renewal, recovery and take-over,   *)
(* pause, cancel and the fenced settling of the run.  Each process has one *)
(* engine; a restarted daemon is another process.                          *)
(*                                                                         *)
(* StateStore::update is a load, a closure and a write of the whole row    *)
(* under the mutex of one opened store.  It is two steps here: the load    *)
(* opens txn[e], the closure and the write are its commit.  A process opens*)
(* the file for itself, so only its own updates exclude each other; the    *)
(* update of another process may be written over.  How often that happened *)
(* is counted, and the properties say what each such lost update can cost. *)
(***************************************************************************)
EXTENDS Integers, Sequences, FiniteSets

CONSTANTS
  Engines,      \* executor identities, one per process
  None,         \* no lease
  Slow,         \* engines whose renewer may be late (stalled, suspended)
  PidReused,    \* engines whose pid is taken by another process after them
  TTL,          \* the lease's time to live, in renewal intervals
  Sleeps,       \* may the run's steps be Sleep or WaitEvent steps
  Operators,    \* bound: engines at which the run is paused, resumed, cancelled
  Racing,       \* bound: the updates that may overlap those of other engines
  MaxLost       \* bound: how many updates may be lost, then no more overlap

ASSUME LeaseAssumption ==
  /\ IsFiniteSet(Engines) /\ None \notin Engines
  /\ Slow \subseteq Engines /\ PidReused \subseteq Engines /\ Operators \subseteq Engines
  /\ TTL \in Nat /\ TTL > 1
  /\ Sleeps \in BOOLEAN /\ MaxLost \in Nat

Terminal == {"completed", "failed", "cancelled"}
Active   == {"running", "waiting"}
Statuses == {"unborn", "paused"} \cup Active \cup Terminal
Driving  == {"running", "settling", "expired", "stopping"}
Ops == {"none", "take", "renew", "release", "settle", "cancel",
        "pause", "wait", "wake", "step"}

VARIABLES
  \* the row of the run: status and lease (holder, time since renewed_at)
  status, owner, age,
  lost,         \* updates of the row that another one's write undid or missed
  announced,    \* terminal events published, in their order
  \* per process
  proc,         \* "up" or "dead"; one that has not started is up and idle
  txn,          \* the open update and the row it loaded
  listed,       \* the run was found by a recovery or a resume: "no" or which
  drv,          \* the driver task, "none" when the run is not in `driving`
  stp,          \* the step task in flight: "no", "exec" or "asleep"
  superseded,   \* the renewer found the lease taken over
  due           \* of a timely driver: time since it last wrote its lease

row   == <<status, owner, age, lost>>
local == <<proc, listed, drv, stp, superseded, due>>
vars  == <<row, announced, txn, local>>

NoTxn == [op |-> "none", status |-> "unborn", owner |-> None, age |-> 0]
Loaded(op) == [op |-> op, status |-> status, owner |-> owner, age |-> age]

\* Every variable has its type, and a take-over mark belongs to a driver: none
\* is left over to stop a later driver of the same engine.
TypeOK ==
  /\ status \in Statuses /\ owner \in Engines \cup {None} /\ age \in 0 .. TTL
  /\ lost \in Nat
  /\ announced \in Seq(Terminal)
  /\ proc \in [Engines -> {"up", "dead"}]
  /\ txn \in [Engines -> [op : Ops, status : Statuses,
                          owner : Engines \cup {None}, age : 0 .. TTL]]
  /\ listed \in [Engines -> {"no", "recover", "resume"}]
  /\ drv \in [Engines -> {"none", "claimed"} \cup Driving]
  /\ stp \in [Engines -> {"no", "exec", "asleep"}]
  /\ superseded \in [Engines -> BOOLEAN] /\ due \in [Engines -> 0 .. TTL]
  /\ \A e \in Engines : superseded[e] => drv[e] \in Driving

Init ==
  /\ status = "unborn" /\ owner = None /\ age = 0 /\ lost = 0 /\ announced = <<>>
  /\ proc = [e \in Engines |-> "up"]
  /\ txn = [e \in Engines |-> NoTxn]
  /\ listed = [e \in Engines |-> "no"]
  /\ drv = [e \in Engines |-> "none"]
  /\ stp = [e \in Engines |-> "no"]
  /\ superseded = [e \in Engines |-> FALSE]
  /\ due = [e \in Engines |-> 0]

-----------------------------------------------------------------------------
(* Leases. *)

\* Mutant: a lease holds for ever.
LeasedForever(e, lease) == lease.owner \notin {None, e}
\* is_leased_elsewhere: a fresh lease of somebody else.
LeasedElsewhere(e, lease) == lease.owner \notin {None, e} /\ lease.age < TTL

\* held_by_live_executor: minus holders whose pid no longer exists.
ProvablyDead(e) == proc[e] = "dead" /\ e \notin PidReused
HeldByLive(e, lease) == LeasedElsewhere(e, lease) /\ ~ProvablyDead(lease.owner)

-----------------------------------------------------------------------------
(* StateStore::update. *)

Set(f, e, value) == [f EXCEPT ![e] = value]

\* The row was written by another process since this update loaded it.
Stale(e) == txn[e] # Loaded(txn[e].op)
\* The update_lock of a process is free; it says nothing of the other processes.
LockFree(e) == txn[e] = NoTxn
MayOverlap(op) ==
  LET open == {d \in Engines : txn[d] # NoTxn}
  IN  \/ open = {}
      \/ /\ lost + Cardinality({d \in open : Stale(d)}) < MaxLost
         /\ {op} \cup {txn[d].op : d \in open} \subseteq Racing
Open(e, op) ==
  /\ proc[e] = "up" /\ status # "unborn" /\ LockFree(e) /\ MayOverlap(op)
  /\ txn' = Set(txn, e, Loaded(op))

\* The whole row is written back, whatever the closure changed of it.
Write(e, newStatus, newOwner, newAge) ==
  /\ txn' = Set(txn, e, NoTxn)
  /\ status' = newStatus /\ owner' = newOwner /\ age' = newAge
  /\ lost' = IF Stale(e) THEN lost + 1 ELSE lost
Unchanged(e) == Write(e, txn[e].status, txn[e].owner, txn[e].age)
SetStatus(e, s) == Write(e, s, txn[e].owner, txn[e].age)
Announce(s) == announced' = Append(announced, s)

-----------------------------------------------------------------------------
(* Processes. *)

\* The process dies; an update whose write did not reach the file never does.
Crash(e) ==
  /\ proc[e] = "up"
  /\ proc' = Set(proc, e, "dead")
  /\ txn' = Set(txn, e, NoTxn)
  /\ listed' = Set(listed, e, "no")
  /\ drv' = Set(drv, e, "none")
  /\ stp' = Set(stp, e, "no")
  /\ superseded' = Set(superseded, e, FALSE) /\ due' = Set(due, e, 0)
  /\ UNCHANGED <<row, announced>>

-----------------------------------------------------------------------------
(* Who drives the run. *)

\* start_workflow_with_params: the run is saved with this engine's lease.
Start(e) ==
  /\ proc[e] = "up" /\ status = "unborn"
  /\ status' = "running" /\ owner' = e /\ age' = 0
  /\ drv' = Set(drv, e, "running") /\ due' = Set(due, e, 0)
  /\ UNCHANGED <<lost, announced, txn, proc, listed, stp, superseded>>

\* recover lists the active runs, a waiter reads its run: not paused, and no live
\* executor holds it.  An engine that drives the run finds it in vain (claim_driving).
Find(e) ==
  /\ proc[e] = "up" /\ listed[e] = "no" /\ drv[e] = "none"
  /\ status \in Active /\ ~HeldByLive(e, Loaded("none"))
  /\ listed' = Set(listed, e, "recover")
  /\ UNCHANGED <<row, announced, txn, proc, drv, stp, superseded, due>>

\* resume_workflow: it saw the pause, and the paused driver has stopped.
FindPaused(e) ==
  /\ e \in Operators /\ proc[e] = "up" /\ listed[e] = "no"
  /\ status = "paused" /\ drv[e] = "none"
  /\ ~LeasedElsewhere(e, Loaded("none"))
  /\ listed' = Set(listed, e, "resume")
  /\ UNCHANGED <<row, announced, txn, proc, drv, stp, superseded, due>>

\* try_resume claims `driving` (and drops a stale mark), then updates the row.
Claim(e) ==
  /\ listed[e] # "no" /\ drv[e] = "none"
  /\ Open(e, "take")
  /\ drv' = Set(drv, e, "claimed")
  /\ superseded' = Set(superseded, e, FALSE)
  /\ UNCHANGED <<row, announced, proc, listed, stp, due>>

\* Mutant: the closure does not look at the lease again.
MayTakeUnchecked(e) == txn[e].status \notin Terminal
\* The closure re-checks the holder and the outcome, the listing may be stale.
MayTake(e) == ~HeldByLive(e, txn[e]) /\ txn[e].status \notin Terminal
Take(e) ==
  /\ txn[e].op = "take"
  /\ IF MayTake(e)
     THEN Write(e, "running", e, 0) /\ drv' = Set(drv, e, "running")
     ELSE Unchanged(e) /\ drv' = Set(drv, e, "none")
  /\ listed' = Set(listed, e, "no") /\ due' = Set(due, e, 0)
  /\ UNCHANGED <<announced, proc, stp, superseded>>

\* renew_lease_loop, one round; once superseded it has returned.  The renewer
\* lives until the driver's task has its result.
RenewOpen(e) ==
  /\ drv[e] \in Driving \ {"stopping"} /\ ~superseded[e]
  /\ Open(e, "renew")
  /\ UNCHANGED <<row, announced, local>>
Renew(e) ==
  /\ txn[e].op = "renew"
  /\ IF LeasedElsewhere(e, txn[e])
     THEN Unchanged(e) /\ superseded' = Set(superseded, e, drv[e] # "stopping")
          /\ UNCHANGED due
     ELSE Write(e, txn[e].status, e, 0) /\ UNCHANGED superseded
          /\ due' = Set(due, e, 0)
  /\ UNCHANGED <<announced, proc, listed, drv, stp>>

\* The driver's task drops the renewer, which may be at its load.
RenewAborted(e) ==
  /\ txn[e].op = "renew" /\ drv[e] = "stopping"
  /\ txn' = Set(txn, e, NoTxn)
  /\ UNCHANGED <<row, announced, local>>

-----------------------------------------------------------------------------
(* The driver: execute_workflow and the task around it. *)

\* Mutant: the driver only looks for a cancel.
MustStopCancelOnly(e) == status = "cancelled"
\* What the loop looks at between steps: is_cancelled, should_stop.
MustStop(e) == status \in {"cancelled", "paused"} \/ superseded[e]

AtBoundary(e) == drv[e] = "running" /\ stp[e] = "no"
DriverStops(e) ==
  /\ AtBoundary(e) /\ MustStop(e)
  /\ drv' = Set(drv, e, "stopping")
  /\ UNCHANGED <<row, announced, txn, proc, listed, stp, superseded, due>>

RunStep(e) ==
  /\ AtBoundary(e) /\ ~MustStop(e)
  /\ stp' = Set(stp, e, "exec")
  /\ UNCHANGED <<row, announced, txn, proc, listed, drv, superseded, due>>

\* All steps are done, the superseded mark was looked at once more.
Finish(e) ==
  /\ AtBoundary(e) /\ ~MustStop(e)
  /\ drv' = Set(drv, e, "settling")
  /\ UNCHANGED <<row, announced, txn, proc, listed, stp, superseded, due>>

\* A store error leaves execute_workflow early, the run is not settled.
DriverErrs(e) ==
  /\ AtBoundary(e) \/ (drv[e] = "settling" /\ txn[e].op # "settle")
  /\ drv' = Set(drv, e, "stopping")
  /\ UNCHANGED <<row, announced, txn, proc, listed, stp, superseded, due>>

\* The budget's deadline drops the execution, its step tasks stay.
BudgetExpires(e) ==
  /\ drv[e] \in {"running", "settling"} /\ txn[e] = NoTxn
  /\ drv' = Set(drv, e, "expired")
  /\ UNCHANGED <<row, announced, txn, proc, listed, stp, superseded, due>>

SettleOpen(e) ==
  /\ drv[e] = "settling"
  /\ Open(e, "settle")
  /\ UNCHANGED <<row, announced, local>>

\* Mutant: the fence only looks at the lease.
MaySettleAnytime(e) == ~LeasedElsewhere(e, txn[e])
\* The fence of execute_workflow and finish_workflow_failed.
MaySettle(e) == ~LeasedElsewhere(e, txn[e]) /\ txn[e].status \notin Terminal
Settle(e) ==
  /\ txn[e].op = "settle"
  /\ IF MaySettle(e)
     THEN \E outcome \in {"completed", "failed"} : SetStatus(e, outcome) /\ Announce(outcome)
     ELSE Unchanged(e) /\ UNCHANGED announced
  /\ drv' = Set(drv, e, "stopping")
  /\ UNCHANGED <<proc, listed, stp, superseded, due>>

\* release_lease, then the guard leaves `driving`; an error of the update is
\* ignored, the lease then stays until its time is over.
ReleaseOpen(e) ==
  /\ drv[e] = "stopping"
  /\ Open(e, "release")
  /\ UNCHANGED <<row, announced, local>>
\* Mutant: a stale mark is left in the engine's set.
UndriveKeepsMark(e) ==
  drv' = Set(drv, e, "none") /\ due' = Set(due, e, 0) /\ UNCHANGED superseded
\* DrivingGuard::drop.
Undrive(e) ==
  /\ drv' = Set(drv, e, "none")
  /\ superseded' = Set(superseded, e, FALSE) /\ due' = Set(due, e, 0)
Release(e) ==
  /\ txn[e].op = "release"
  /\ IF txn[e].owner = e THEN Write(e, txn[e].status, None, 0) ELSE Unchanged(e)
  /\ Undrive(e)
  /\ UNCHANGED <<announced, proc, listed, stp>>
ReleaseFails(e) ==
  /\ drv[e] = "stopping" /\ txn[e].op \in {"none", "release"}
  /\ txn' = Set(txn, e, NoTxn)
  /\ Undrive(e)
  /\ UNCHANGED <<row, announced, proc, listed, stp>>

-----------------------------------------------------------------------------
(* Step tasks. *)

\* The step is over: its context is written back, unless superseded.
StepOpen(e) ==
  /\ stp[e] = "exec" /\ ~superseded[e]
  /\ Open(e, "step")
  /\ UNCHANGED <<row, announced, local>>
StepWrites(e) ==
  /\ txn[e].op = "step"
  /\ Unchanged(e)
  /\ stp' = Set(stp, e, "no")
  /\ UNCHANGED <<announced, proc, listed, drv, superseded, due>>
StepStops(e) ==
  /\ stp[e] = "exec" /\ superseded[e] /\ txn[e].op # "step"
  /\ stp' = Set(stp, e, "no")
  /\ UNCHANGED <<row, announced, txn, proc, listed, drv, superseded, due>>

\* execute_sleep, execute_wait_event: the run waits unless it has settled.
SleepOpen(e) ==
  /\ Sleeps /\ stp[e] = "exec"
  /\ Open(e, "wait")
  /\ UNCHANGED <<row, announced, local>>
Sleep(e) ==
  /\ txn[e].op = "wait"
  /\ SetStatus(e, IF txn[e].status \in Terminal THEN txn[e].status ELSE "waiting")
  /\ stp' = Set(stp, e, "asleep")
  /\ UNCHANGED <<announced, proc, listed, drv, superseded, due>>
WakeOpen(e) ==
  /\ stp[e] = "asleep"
  /\ Open(e, "wake")
  /\ UNCHANGED <<row, announced, local>>
Wake(e) ==
  /\ txn[e].op = "wake"
  /\ SetStatus(e, IF txn[e].status = "waiting" THEN "running" ELSE txn[e].status)
  /\ stp' = Set(stp, e, "no")
  /\ UNCHANGED <<announced, proc, listed, drv, superseded, due>>

-----------------------------------------------------------------------------
(* Pause and cancel, from any process. *)

PauseOpen(e) ==
  /\ e \in Operators
  /\ Open(e, "pause")
  /\ UNCHANGED <<row, announced, local>>
Pause(e) ==
  /\ txn[e].op = "pause"
  /\ SetStatus(e, IF txn[e].status \in Active THEN "paused" ELSE txn[e].status)
  /\ UNCHANGED <<announced, local>>

\* cancel_workflow of an operator, or of the driver whose budget is over.
CancelOpen(e) ==
  /\ e \in Operators \/ drv[e] = "expired"
  /\ Open(e, "cancel")
  /\ UNCHANGED <<row, announced, local>>
AfterCancel(e) ==
  drv' = IF drv[e] = "expired" THEN Set(drv, e, "stopping") ELSE drv
\* Mutant: a settled run is cancelled all the same.
CancelSettled(e) ==
  /\ txn[e].op = "cancel"
  /\ SetStatus(e, "cancelled") /\ Announce("cancelled")
  /\ AfterCancel(e)
  /\ UNCHANGED <<proc, listed, stp, superseded, due>>
Cancel(e) ==
  /\ txn[e].op = "cancel"
  /\ IF txn[e].status \in Terminal
     THEN Unchanged(e) /\ UNCHANGED announced
     ELSE SetStatus(e, "cancelled") /\ Announce("cancelled")
  /\ AfterCancel(e)
  /\ UNCHANGED <<proc, listed, stp, superseded, due>>

-----------------------------------------------------------------------------
(* Time. *)

Older(a) == IF a < TTL THEN a + 1 ELSE a
\* A timely driver writes its lease before it runs out, until its renewer returns.
Timely(e) == e \notin Slow /\ drv[e] \in Driving
Renewed(e) == Timely(e) /\ ~superseded[e] => due[e] + 1 < TTL
Tick ==
  /\ \A e \in Engines : Renewed(e)
  /\ age' = IF owner = None THEN age ELSE Older(age)
  /\ txn' = [e \in Engines |->
               IF txn[e].owner = None THEN txn[e] ELSE [txn[e] EXCEPT !.age = Older(@)]]
  /\ due' = [e \in Engines |-> IF Timely(e) THEN Older(due[e]) ELSE due[e]]
  /\ UNCHANGED <<status, owner, lost, announced, proc, listed, drv, stp, superseded>>

Driver(e) ==
  \/ DriverStops(e) \/ RunStep(e) \/ Finish(e) \/ DriverErrs(e) \/ BudgetExpires(e)
  \/ SettleOpen(e)
  \/ Settle(e) \/ ReleaseOpen(e) \/ Release(e) \/ ReleaseFails(e)
Renewer(e) == RenewOpen(e) \/ Renew(e) \/ RenewAborted(e)
Step(e) ==
  \/ StepOpen(e) \/ StepWrites(e) \/ StepStops(e)
  \/ SleepOpen(e) \/ Sleep(e) \/ WakeOpen(e) \/ Wake(e)
Takeover(e) == Find(e) \/ FindPaused(e) \/ Claim(e) \/ Take(e)
Operator(e) == PauseOpen(e) \/ Pause(e) \/ CancelOpen(e) \/ Cancel(e)

Next ==
  \/ Tick
  \/ \E e \in Engines :
       Crash(e) \/ Start(e) \/ Takeover(e) \/ Driver(e)
       \/ Renewer(e) \/ Step(e) \/ Operator(e)

Spec == Init /\ [][Next]_vars

-----------------------------------------------------------------------------
(* Correctness. *)

\* WorkflowStatus::is_terminal: a settled run "must never change status again",
\* whoever renews, resumes, wakes or cancels it afterwards.
TerminalIsFinal == [][(status \in Terminal) => status' = status]_vars

\* What the code keeps of it: only an update that writes over another one changes
\* the status of a settled run.
SettledStays ==
  [][(status \in Terminal) /\ status' # status => lost' = lost + 1]_vars

\* The outcome of the row was announced, and it was announced once: each further
\* announcement, and each one a run that goes on has had, takes a lost update.
AnnouncedOnce ==
  /\ status \in Terminal => \E i \in DOMAIN announced : announced[i] = status
  /\ Len(announced) <= lost + (IF status \in Terminal THEN 1 ELSE 0)

\* An engine that renews in time keeps its lease, fresh, for as long as it drives,
\* whatever the others renew, release, recover or resume meanwhile: it takes a lost
\* update to oust it, and one lost update ousts no more than one.
Ousted == {e \in Engines : Timely(e) /\ ~(owner = e /\ age < TTL)}
DriverHoldsLease == Cardinality(Ousted) <= lost

\* ExecutorLease: a run that somebody else "is still actively executing" must
\* not be resumed a second time.  Of the engines that renew in time one drives, and
\* one more for each lost update.
OneDriver == Cardinality({e \in Engines : Timely(e)}) <= lost + 1

\* pause_workflow: "paused runs are not picked up by `recover`"; a paused
\* run goes on only by a resume that saw the pause (it may also end: cancelled, or
\* settled by a driver that had no step left).
PauseHolds ==
  [][status = "paused" /\ status' \in Active =>
       \E e \in Engines : txn[e].op = "take" /\ listed[e] = "resume"]_vars

\* What all of it is for: the processes, their updates and their leases implement a
\* run that is one record, which every action reads and writes at once; only a lost
\* update decides on, and puts back, another one.
Registry == INSTANCE RunRegistry WITH
  row     <- [status |-> status, owner |-> owner, lapsed |-> age >= TTL],
  drivers <- {e \in Engines : drv[e] \in Driving},
  dead    <- {e \in Engines : ProvablyDead(e)}
ImplementsRegistry == Registry!Spec

-----------------------------------------------------------------------------
(* Liveness. *)

\* A waiter that polls a run finds it once its lease is free or over.
WaiterFinds(e) == Find(e) /\ ~LeasedElsewhere(e, Loaded("none"))

\* A mutex is handed on in turn: who waits for the update_lock gets it in the end
\* (and, once updates no longer overlap, for the bound MayOverlap sets).
WaitsForLock(e) ==
  Claim(e) \/ ReleaseOpen(e) \/ StepOpen(e) \/ WakeOpen(e)
Commits(e) ==
  \/ Take(e) \/ Renew(e) \/ RenewAborted(e) \/ Settle(e) \/ Release(e)
  \/ StepWrites(e) \/ Sleep(e) \/ Wake(e) \/ Pause(e) \/ Cancel(e)

\* Time passes, Tokio runs what is ready, and a step ends by its timeout.
Fairness ==
  /\ WF_vars(Tick)
  /\ \A e \in Engines :
       /\ WF_vars(Commits(e)) /\ WF_vars(DriverStops(e) \/ StepStops(e) \/ WaiterFinds(e))
       /\ SF_vars(WaitsForLock(e))

FairSpec == Spec /\ Fairness

\* A driver told to stop (its run is cancelled or paused, or taken over) does,
\* unless the run goes on.
ToldToStop(e) == superseded[e] \/ status = "paused" \/ status = "cancelled"
DriverObeys ==
  \A e \in Engines :
    drv[e] = "running" /\ ToldToStop(e) ~> drv[e] # "running" \/ ~ToldToStop(e)

\* No run is stranded: while some process stays up to poll it, an active run
\* whose holder died or let go of it is driven again, or ends, or is paused.
NotStranded ==
  status \in Active ~>
    \/ status \notin Active
    \/ \E e \in Engines : drv[e] \in Driving
    \/ \A e \in Engines : proc[e] = "dead"
=============================================================================
