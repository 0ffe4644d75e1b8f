--------------------------- MODULE SchedulerProofs ---------------------------
(***************************************************************************)
(* Proofs about Scheduler, for any number of slots and manual fires, every *)
(* grace, delay and interval, and any number of crashes, failing calls and *)
(* edits: outcomes are true and final, slots are claimed once, no two slots*)
(* run at a time under overlap "skip", and no run is started twice.        *)
(***************************************************************************)
EXTENDS Scheduler, TLAPS

NoRunYet == {"none", "queued", "dispatch_failed", "skipped_missed", "skipped_overlap"}

\* Nothing runs yet behind an occurrence that waits, was skipped or given up, is
\* about to be fired, or whose fire has not started it.
Unstarted(o) ==
  /\ status[o] \in NoRunYet => run[o] = "none" /\ fire[o] = "none"
  /\ todo[o] = "spawn" => run[o] = "none" /\ fire[o] = "none"
  /\ fire[o] \in {"spawned", "ready"} => run[o] = "none"

\* What a driver is about to report, and a reconciliation about to record, is so.
Truthful(o) ==
  /\ driver[o] \in {"completed", "failed"} => run[o] \in {driver[o], "evicted"}
  /\ fire[o] = "interrupted" => run[o] = "cancelled"
  /\ todo[o] = "interrupted" => run[o] = "cancelled"
  /\ status[o] \in {"completed", "failed"} => run[o] \in {status[o], "evicted"}
  /\ status[o] \in {"cancelled", "interrupted"} => run[o] = "cancelled"
  /\ status[o] = "evicted" => run[o] = "evicted"

\* Claimed slots are behind the clock of the schedule, and the tick behind now.
Clock ==
  /\ tickAt <= now
  /\ tick \in {"dispatching", "dispatched", "queue"} => tickAt # Never
  /\ exists => \A o \in Occs : status[o] # "gone"
  /\ exists => \A s \in Slots : status[s] # "none" => s < next /\ s <= now

\* What has_open keeps.
OneOpen ==
  Overlap = "skip" =>
    \A s, t \in Slots : status[s] \in Open /\ status[t] \in Open => s = t

IInv == /\ TypeOK /\ Clock /\ OneOpen
        /\ \A o \in Occs : Unstarted(o) /\ Truthful(o)

-----------------------------------------------------------------------------
(* Slots, and the initial states. *)

LEMMA ManualIsNoSlot == Manual \cap Slots = {} /\ Slots \subseteq Int
  BY ScheduleAssumption, TimeAssumption DEF Slots

\* advance_slot goes past the slot it starts from.
LEMMA AdvanceIsLater ==
  ASSUME TypeOK, NEW slot \in Slots, slot <= tickAt
  PROVE  AdvanceSlot(slot) \in 1 .. Horizon /\ AdvanceSlot(slot) > slot
  <1> DEFINE k == (tickAt - slot) \div every
  <1>1. every \in Nat \ {0} /\ tickAt - slot \in Nat /\ slot \in Nat \ {0} /\ Horizon \in Nat
        /\ slot < Horizon
    BY TimeAssumption DEF TypeOK, Slots, Never
  <1>2. k \in Nat
    BY <1>1
  <1> HIDE DEF k
  <1>3. (k + 1) * every \in Nat /\ (k + 1) * every >= 1
    BY <1>1, <1>2
  <1>4. AdvanceSlot(slot) = Upto(slot + (k + 1) * every)
    BY DEF AdvanceSlot, k
  <1> QED
    BY <1>1, <1>3, <1>4 DEF Upto

LEMMA InitOK == Init => IInv
  BY TimeAssumption, ScheduleAssumption
     DEF Init, IInv, TypeOK, Clock, OneOpen, Unstarted, Truthful, AllOccs, Never, NoRunYet,
         Slots, Occs, Open, Upto

-----------------------------------------------------------------------------
(* What a guarded write to a row keeps. *)

RowType == /\ status \in [Occs -> {"none", "gone"} \cup Open \cup Outcomes]
           /\ startedAt \in [Occs -> Never .. Horizon]
           /\ \A o \in Occs : status[o] = "dispatching" <=> startedAt[o] # Never

\* What link_run, settle_open, complete_linked_run, mark_queued and
\* mark_dispatch_failed may do to a row.
RowStep(o) ==
  \/ UNCHANGED rows
  \/ InDispatch(o) /\ \E st \in Outcomes \cup {"dispatched", "queued"} : MoveTo(o, st)

LEMMA RowStepKeeps ==
  ASSUME IInv, NEW o \in Occs, RowStep(o), UNCHANGED <<now, tick, tickAt, exists, next>>
  PROVE  RowType' /\ Clock' /\ OneOpen'
  <1>1. CASE UNCHANGED rows
    BY <1>1 DEF IInv, TypeOK, RowType, Clock, OneOpen, rows
  <1>2. CASE InDispatch(o)
             /\ \E st \in Outcomes \cup {"dispatched", "queued"} : MoveTo(o, st)
    <2> PICK st \in Outcomes \cup {"dispatched", "queued"} : MoveTo(o, st)
      BY <1>2
    <2>1. /\ status \in [Occs -> {"none", "gone"} \cup Open \cup Outcomes]
          /\ startedAt \in [Occs -> Never .. Horizon]
          /\ \A p \in Occs : status[p] = "dispatching" <=> startedAt[p] # Never
          /\ Never \in Never .. Horizon
      BY TimeAssumption DEF IInv, TypeOK, Never
    <2>2. status[o] \in {"dispatching", "dispatched"} /\ status' = [status EXCEPT ![o] = st]
          /\ startedAt' = [startedAt EXCEPT ![o] = Never]
          /\ st # "dispatching" /\ st # "none" /\ st # "gone"
      BY <1>2 DEF InDispatch, MoveTo, Set, Outcomes
    <2>3. RowType'
      BY <2>1, <2>2 DEF RowType, Open
    <2>4. \A p \in Occs : status'[p] # "none" => status[p] # "none"
      BY <2>1, <2>2
    <2>5. Clock'
      BY <2>1, <2>2, <2>4 DEF IInv, Clock, Occs
    <2>6. \A p \in Occs : status'[p] \in Open => status[p] \in Open
      BY <2>1, <2>2 DEF Open
    <2>7. OneOpen'
      BY <2>6 DEF IInv, OneOpen, Occs
    <2> QED
      BY <2>3, <2>5, <2>7
  <1> QED
    BY <1>1, <1>2 DEF RowStep

-----------------------------------------------------------------------------
(* The invariant is kept by each action. *)

LEMMA ClientKeeps ==
  ASSUME IInv, Client
  PROVE  IInv'
  <1> USE TimeAssumption, ScheduleAssumption, ManualIsNoSlot
      DEF Occs, Open, Outcomes, Never, Set, AllOccs, Becomes, Ended, Live, Fault, Call,
          schedule, rows, runs, daemon, bounds
  <1>1. CASE Update
    BY <1>1 DEF Update, Upto, Slots, IInv, TypeOK, Clock, OneOpen, Unstarted, Truthful,
       NoRunYet
  <1>2. CASE Enable
    BY <1>2 DEF Enable, Upto, Slots, IInv, TypeOK, Clock, OneOpen, Unstarted, Truthful,
       NoRunYet
  <1>3. CASE Disable
    <2>1. TypeOK'
      <3>1. enabled' \in BOOLEAN
        BY <1>3 DEF Disable
      <3>2. calls' \in 0 .. MaxCalls /\ UNCHANGED <<now, exists, every, next, faults>>
            /\ UNCHANGED <<rows, runs, daemon>>
        BY <1>3 DEF IInv, TypeOK, Disable
      <3> QED
        BY <3>1, <3>2 DEF IInv, TypeOK
    <2>2. Clock' /\ OneOpen'
      BY <1>3 DEF IInv, Clock, OneOpen, Disable
    <2>3. \A p \in Occs : Unstarted(p)' /\ Truthful(p)'
      BY <1>3 DEF IInv, Unstarted, Truthful, Disable
    <2> QED
      BY <2>1, <2>2, <2>3 DEF IInv
  <1>4. CASE Remove
    <2>1. TypeOK'
      <3>1. exists' \in BOOLEAN
        BY <1>4 DEF Remove
      <3>2. calls' \in 0 .. MaxCalls /\ UNCHANGED <<now, enabled, every, next, faults>>
            /\ UNCHANGED <<runs, daemon>>
        BY <1>4 DEF IInv, TypeOK, Remove
      <3>3. RowType'
        BY <1>4 DEF RowType, Remove
      <3> QED
        BY <3>1, <3>2, <3>3 DEF IInv, TypeOK, RowType
    <2>2. Clock' /\ OneOpen'
      BY <1>4 DEF IInv, TypeOK, Clock, OneOpen, Remove
    <2>3. \A p \in Occs : Unstarted(p)' /\ Truthful(p)'
      BY <1>4 DEF IInv, Unstarted, Truthful, NoRunYet, Remove
    <2> QED
      BY <2>1, <2>2, <2>3 DEF IInv
  <1>5. ASSUME NEW m \in Manual, EnqueueManual(m) PROVE IInv'
    BY <1>5 DEF EnqueueManual, IInv, TypeOK, Clock, OneOpen, Unstarted, Truthful,
       NoRunYet
  <1>6. ASSUME NEW o \in Occs, PauseRun(o) PROVE IInv'
    BY <1>6 DEF PauseRun, IInv, TypeOK, Clock, OneOpen, Unstarted, Truthful, NoRunYet
  <1>7. ASSUME NEW o \in Occs, CancelRun(o) PROVE IInv'
    BY <1>7 DEF CancelRun, IInv, TypeOK, Clock, OneOpen, Unstarted, Truthful, NoRunYet
  <1>8. ASSUME NEW o \in Occs, Evict(o) PROVE IInv'
    BY <1>8 DEF Evict, IInv, TypeOK, Clock, OneOpen, Unstarted, Truthful, NoRunYet
  <1> QED
    BY <1>1, <1>2, <1>3, <1>4, <1>5, <1>6, <1>7, <1>8 DEF Client

LEMMA ReconcileKeeps ==
  ASSUME IInv, NEW caller \in {"fire", "tick"}, NEW o \in Occs,
         Reconcile(caller, o) \/ ReconcileErrs(caller, o)
  PROVE  IInv'
  <1> USE TimeAssumption, ScheduleAssumption, ManualIsNoSlot
      DEF Occs, Open, Outcomes, Never, Set, AllOccs, Becomes, Ended, Live, Fault, Call,
          schedule, rows, runs, daemon, bounds
  <1>1. CASE Converge(caller, o)
    <2>1. RowStep(o)
      BY <1>1 DEF RowStep, Converge, At, Goto, Takes, SettleOpen, InDispatch
    <2>2. TypeOK' /\ Clock' /\ OneOpen'
      BY <1>1, <2>1, RowStepKeeps DEF IInv, TypeOK, RowType, Converge, At, Goto, Takes
    <2>3. \A p \in Occs : Unstarted(p)' /\ Truthful(p)'
      BY <1>1 DEF IInv, TypeOK, Unstarted, Truthful, NoRunYet, MoveTo, InDispatch,
         Converge, At, Goto, Takes, SettleOpen
    <2> QED
      BY <2>2, <2>3 DEF IInv
  <1>2. CASE LeaveAlive(caller, o)
    BY <1>2 DEF LeaveAlive, At, Goto, Takes, Alive, IInv, TypeOK, Clock, OneOpen,
       Unstarted, Truthful, NoRunYet
  <1>3. CASE SeeOrphan(caller, o)
    BY <1>3 DEF SeeOrphan, At, Goto, Takes, Alive, IInv, TypeOK, Clock, OneOpen,
       Unstarted, Truthful, NoRunYet
  <1>4. CASE CancelOrphan(caller, o)
    BY <1>4 DEF CancelOrphan, At, Goto, Takes, Alive, IInv, TypeOK, Clock, OneOpen,
       Unstarted, Truthful, NoRunYet
  <1>5. CASE OrphanRevived(caller, o)
    BY <1>5 DEF OrphanRevived, At, Goto, Takes, Alive, IInv, TypeOK, Clock, OneOpen,
       Unstarted, Truthful, NoRunYet
  <1>6. CASE OrphanEnded(caller, o)
    <2>1. RowStep(o)
      BY <1>6 DEF RowStep, OrphanEnded, At, Goto, Takes, SettleOpen, InDispatch
    <2>2. TypeOK' /\ Clock' /\ OneOpen'
      BY <1>6, <2>1, RowStepKeeps DEF IInv, TypeOK, RowType, OrphanEnded, At, Goto,
         Takes
    <2>3. \A p \in Occs : Unstarted(p)' /\ Truthful(p)'
      BY <1>6 DEF IInv, TypeOK, Unstarted, Truthful, NoRunYet, MoveTo, InDispatch,
         OrphanEnded, At, Goto, Takes, SettleOpen
    <2> QED
      BY <2>2, <2>3 DEF IInv
  <1>7. CASE SettleInterrupted(caller, o)
    <2>1. RowStep(o)
      BY <1>7 DEF RowStep, SettleInterrupted, At, Goto, Takes, SettleOpen, InDispatch
    <2>2. TypeOK' /\ Clock' /\ OneOpen'
      BY <1>7, <2>1, RowStepKeeps DEF IInv, TypeOK, RowType, SettleInterrupted, At,
         Goto, Takes
    <2>3. \A p \in Occs : Unstarted(p)' /\ Truthful(p)'
      BY <1>7 DEF IInv, TypeOK, Unstarted, Truthful, NoRunYet, MoveTo, InDispatch,
         SettleInterrupted, At, Goto, Takes, SettleOpen
    <2> QED
      BY <2>2, <2>3 DEF IInv
  <1>8. CASE ReconcileErrs(caller, o)
    BY <1>8 DEF ReconcileErrs, At, Goto, Takes, Alive, IInv, TypeOK, Clock, OneOpen,
       Unstarted, Truthful, NoRunYet
  <1> QED
    BY <1>1, <1>2, <1>3, <1>4, <1>5, <1>6, <1>7, <1>8 DEF Reconcile

\* A start leaves a run's row well typed, whether it creates it or finds it.
LEMMA CommitType ==
  ASSUME TypeOK, NEW o \in Occs, Commit(o)
  PROVE  /\ run' \in [Occs -> {"none", "running", "paused", "completed", "failed",
                               "cancelled", "evicted"}]
         /\ fresh' \subseteq Occs
  <1>1. /\ run \in [Occs -> {"none", "running", "paused", "completed", "failed",
                            "cancelled", "evicted"}]
        /\ fresh \subseteq Occs
    BY DEF TypeOK
  <1>2. CASE LookupStart(o)
    <2>1. run' = run /\ fresh' = fresh
      BY <1>2 DEF Commit, runs
    <2> QED
      BY <1>1, <2>1
  <1>3. CASE ~LookupStart(o)
    <2>1. run' = [run EXCEPT ![o] = "running"] /\ fresh' = fresh \cup {o}
      BY <1>3 DEF Commit, Set
    <2> QED
      BY <1>1, <2>1
  <1> QED
    BY <1>2, <1>3

LEMMA FireKeeps ==
  ASSUME IInv, NEW o \in Occs, Fire(o) \/ FireErrs(o) \/ StartErrs(o)
  PROVE  IInv'
  <1> USE TimeAssumption, ScheduleAssumption, ManualIsNoSlot
      DEF Occs, Open, Outcomes, Never, Set, AllOccs, Becomes, Ended, Live, Fault, Call,
          schedule, rows, runs, daemon, bounds
  <1>1. CASE FireMovedOn(o)
    BY <1>1 DEF FireMovedOn, IInv, TypeOK, Clock, OneOpen, Unstarted, Truthful, NoRunYet
  <1>2. CASE FireLooks(o)
    <2>1. RowStep(o)
      BY <1>2 DEF RowStep, FireLooks, LookupStart, LinkRun
    <2>2. RowType' /\ Clock' /\ OneOpen'
      BY <1>2, <2>1, RowStepKeeps DEF FireLooks
    <2>3. fire' \in [Occs -> {"none", "spawned", "ready", "started",
                             "linked", "cancel", "interrupted"}]
      BY <1>2 DEF IInv, TypeOK, FireLooks
    <2>4. TypeOK'
      BY <1>2, <2>2, <2>3 DEF IInv, TypeOK, RowType, FireLooks
    <2>5. \A p \in Occs : Unstarted(p)' /\ Truthful(p)'
      BY <1>2 DEF IInv, TypeOK, Unstarted, Truthful, NoRunYet, MoveTo, InDispatch,
         FireLooks, LookupStart, LinkRun
    <2> QED
      BY <2>2, <2>4, <2>5 DEF IInv
  <1>3. CASE FireBadDefinition(o)
    <2>1. RowStep(o)
      BY <1>3 DEF RowStep, FireBadDefinition, MarkDispatchFailed, InDispatch
    <2>2. TypeOK' /\ Clock' /\ OneOpen'
      BY <1>3, <2>1, RowStepKeeps DEF IInv, TypeOK, RowType, FireBadDefinition
    <2>3. \A p \in Occs : Unstarted(p)' /\ Truthful(p)'
      BY <1>3 DEF IInv, TypeOK, Unstarted, Truthful, NoRunYet, MoveTo, InDispatch,
         FireBadDefinition, MarkDispatchFailed
    <2> QED
      BY <2>2, <2>3 DEF IInv
  <1>4. CASE StartOnce(o)
    <2>1. RowStep(o)
      BY <1>4 DEF RowStep, StartOnce, Commit, LookupStart
    <2>2. RowType' /\ Clock' /\ OneOpen'
      BY <1>4, <2>1, RowStepKeeps DEF StartOnce
    <2>3. /\ run' \in [Occs -> {"none", "running", "paused", "completed", "failed",
                               "cancelled", "evicted"}]
          /\ fresh' \subseteq Occs
      <3>1. TypeOK /\ Commit(o)
        BY <1>4 DEF IInv, StartOnce
      <3> HIDE DEF Occs
      <3> QED
        BY <3>1, CommitType
    <2>4. /\ driver' \in [Occs -> {"none", "run", "completed", "failed"}]
          /\ fire' \in [Occs -> {"none", "spawned", "ready", "started",
                                "linked", "cancel", "interrupted"}]
      BY <1>4 DEF IInv, TypeOK, StartOnce
    <2>5. TypeOK'
      BY <1>4, <2>2, <2>3, <2>4 DEF IInv, TypeOK, RowType, StartOnce
    <2>6. \A p \in Occs : Unstarted(p)' /\ Truthful(p)'
      BY <1>4 DEF IInv, TypeOK, Unstarted, Truthful, NoRunYet, MoveTo, InDispatch,
         StartOnce, Commit, LookupStart
    <2> QED
      BY <2>2, <2>5, <2>6 DEF IInv
  <1>5. CASE FireLinks(o)
    <2>1. RowStep(o)
      BY <1>5 DEF RowStep, FireLinks, LinkRun
    <2>2. TypeOK' /\ Clock' /\ OneOpen'
      BY <1>5, <2>1, RowStepKeeps DEF IInv, TypeOK, RowType, FireLinks
    <2>3. \A p \in Occs : Unstarted(p)' /\ Truthful(p)'
      BY <1>5 DEF IInv, TypeOK, Unstarted, Truthful, NoRunYet, MoveTo, InDispatch,
         FireLinks, LinkRun
    <2> QED
      BY <2>2, <2>3 DEF IInv
  <1>6. CASE FireErrs(o)
    <2>1. RowStep(o)
      BY <1>6 DEF RowStep, FireErrs, Uncertain, LinkRun
    <2>2. TypeOK' /\ Clock' /\ OneOpen'
      BY <1>6, <2>1, RowStepKeeps DEF IInv, TypeOK, RowType, FireErrs
    <2>3. \A p \in Occs : Unstarted(p)' /\ Truthful(p)'
      BY <1>6 DEF IInv, TypeOK, Unstarted, Truthful, NoRunYet, MoveTo, InDispatch,
         FireErrs, Uncertain, LinkRun
    <2> QED
      BY <2>2, <2>3 DEF IInv
  <1>7. CASE StartErrs(o)
    <2>1. RowStep(o)
      BY <1>7 DEF RowStep, StartErrs, Uncertain, Commit, LookupStart, LinkRun
    <2>2. RowType' /\ Clock' /\ OneOpen'
      BY <1>7, <2>1, RowStepKeeps DEF StartErrs
    <2>3. /\ run' \in [Occs -> {"none", "running", "paused", "completed", "failed",
                               "cancelled", "evicted"}]
          /\ fresh' \subseteq Occs
      <3>1. TypeOK /\ Commit(o)
        BY <1>7 DEF IInv, StartErrs
      <3> HIDE DEF Occs
      <3> QED
        BY <3>1, CommitType
    <2>4. /\ driver' \in [Occs -> {"none", "run", "completed", "failed"}]
          /\ fire' \in [Occs -> {"none", "spawned", "ready", "started",
                                "linked", "cancel", "interrupted"}]
      BY <1>7 DEF IInv, TypeOK, StartErrs
    <2>5. TypeOK'
      BY <1>7, <2>2, <2>3, <2>4 DEF IInv, TypeOK, RowType, StartErrs
    <2>6. \A p \in Occs : Unstarted(p)' /\ Truthful(p)'
      BY <1>7 DEF IInv, TypeOK, Unstarted, Truthful, NoRunYet, MoveTo, InDispatch,
         StartErrs, Uncertain, Commit, LookupStart, LinkRun
    <2> QED
      BY <2>2, <2>5, <2>6 DEF IInv
  <1> QED
    BY <1>1, <1>2, <1>3, <1>4, <1>5, <1>6, <1>7, ReconcileKeeps DEF Fire

LEMMA TickKeeps ==
  ASSUME IInv, Tick \/ ClaimErrs \/ TickFails
  PROVE  IInv'
  <1> USE TimeAssumption, ScheduleAssumption, ManualIsNoSlot
      DEF Occs, Open, Outcomes, Never, Set, AllOccs, Becomes, Ended, Live, Fault, Call,
          schedule, rows, runs, daemon, bounds
  <1>1. CASE TickBegins
    BY <1>1 DEF TickBegins, ListOpen, IInv, TypeOK, Clock, OneOpen, Unstarted, Truthful,
       NoRunYet
  <1>2. CASE ListDispatched
    BY <1>2 DEF ListDispatched, ListOpen, IInv, TypeOK, Clock, OneOpen, Unstarted,
       Truthful, NoRunYet
  <1>3. CASE ClaimDueSlot
    <2>1. /\ next \in Slots /\ next <= tickAt /\ exists
          /\ AdvanceSlot(next) \in 1 .. Horizon /\ AdvanceSlot(next) > next
      BY <1>3, AdvanceIsLater DEF IInv, TypeOK, ClaimDueSlot, Due, Slots
    <2>2. status[next] = "none" /\ next \in Occs
      BY <2>1 DEF IInv, Clock, Slots
    <2>3. /\ status' = [status EXCEPT ![next] = Admission]
          /\ Admission \in {"queued", "skipped_missed", "skipped_overlap"}
          /\ Overlap = "skip" /\ Admission = "queued" => ~HasOpen
          /\ next' = AdvanceSlot(next)
          /\ UNCHANGED <<now, exists, enabled, every, startedAt, runs, driver, fire, tickAt,
                         todo, bounds>>
          /\ tick' = "queue"
      BY <1>3 DEF ClaimDueSlot, Admission
    <2>4. TypeOK'
      BY <2>1, <2>2, <2>3 DEF IInv, TypeOK
    <2>5. Clock'
      BY <2>1, <2>2, <2>3 DEF IInv, TypeOK, Clock, Slots
    <2>6. OneOpen'
      BY <2>1, <2>2, <2>3 DEF IInv, TypeOK, OneOpen, HasOpen
    <2>7. \A p \in Occs : Unstarted(p)' /\ Truthful(p)'
      BY <2>2, <2>3 DEF IInv, TypeOK, Unstarted, Truthful, NoRunYet
    <2> QED
      BY <2>4, <2>5, <2>6, <2>7 DEF IInv
  <1>4. CASE NothingDue
    BY <1>4 DEF NothingDue, IInv, TypeOK, Clock, OneOpen, Unstarted, Truthful, NoRunYet
  <1>5. CASE ClaimQueued
    <2> DEFINE claimed == {p \in Occs : status[p] = "queued" /\ ~Expired(p)}
    <2>1. /\ status' = [p \in Occs |-> IF p \in claimed THEN "dispatching"
                                       ELSE IF status[p] = "queued" THEN "skipped_missed"
                                       ELSE status[p]]
          /\ startedAt' = [p \in Occs |-> IF p \in claimed THEN tickAt ELSE startedAt[p]]
          /\ todo' = [p \in Occs |-> IF p \in claimed THEN "spawn" ELSE "none"]
          /\ tick = "queue" /\ tick' = "idle" /\ tickAt' = Never
          /\ UNCHANGED <<now, schedule, runs, driver, fire, bounds>>
          /\ \A p \in claimed : p \in Occs /\ status[p] = "queued"
      BY <1>5 DEF ClaimQueued
    <2> HIDE DEF claimed
    <2>2. tickAt \in 0 .. Horizon
      BY <2>1 DEF IInv, TypeOK, Clock
    <2>3. RowType'
      BY <2>1, <2>2 DEF IInv, TypeOK, RowType
    <2>4. todo' \in [Occs -> {"none", "listed", "linked", "cancel", "interrupted", "spawn"}]
      BY <2>1
    <2>5. tick' \in {"down", "idle", "dispatching", "dispatched", "queue"}
          /\ tickAt' \in Never .. Horizon
      BY <2>1
    <2>6. TypeOK'
      BY <2>1, <2>3, <2>4, <2>5 DEF IInv, TypeOK, RowType
    <2>7. Clock'
      BY <2>1 DEF IInv, TypeOK, Clock
    <2>8. OneOpen'
      BY <2>1 DEF IInv, OneOpen
    <2>9. \A p \in Occs : Unstarted(p)' /\ Truthful(p)'
      BY <2>1 DEF IInv, TypeOK, Unstarted, Truthful, NoRunYet
    <2> QED
      BY <2>6, <2>7, <2>8, <2>9 DEF IInv
  <1>6. ASSUME NEW o \in Occs, LeaveDispatching(o) PROVE IInv'
    BY <1>6 DEF LeaveDispatching, Goto, IInv, TypeOK, Clock, OneOpen, Unstarted,
       Truthful, NoRunYet
  <1>7. ASSUME NEW o \in Occs, LinkStarted(o) PROVE IInv'
    <2>1. RowStep(o)
      BY <1>7 DEF RowStep, LinkStarted, Goto, LookupStart, Takes, At, LinkRun
    <2>2. TypeOK' /\ Clock' /\ OneOpen'
      BY <1>7, <2>1, RowStepKeeps DEF IInv, TypeOK, RowType, LinkStarted, Goto
    <2>3. \A p \in Occs : Unstarted(p)' /\ Truthful(p)'
      BY <1>7 DEF IInv, TypeOK, Unstarted, Truthful, NoRunYet, MoveTo, InDispatch,
         LinkStarted, Goto, LookupStart, Takes, At, LinkRun
    <2> QED
      BY <2>2, <2>3 DEF IInv
  <1>8. ASSUME NEW o \in Occs, RetryLost(o) PROVE IInv'
    <2>1. RowStep(o)
      BY <1>8 DEF RowStep, RetryLost, Goto, LookupStart, InFlight, MarkDispatchFailed,
         MarkQueued, Takes, At, InDispatch
    <2>2. TypeOK' /\ Clock' /\ OneOpen'
      BY <1>8, <2>1, RowStepKeeps DEF IInv, TypeOK, RowType, RetryLost, Goto
    <2>3. \A p \in Occs : Unstarted(p)' /\ Truthful(p)'
      BY <1>8 DEF IInv, TypeOK, Unstarted, Truthful, NoRunYet, MoveTo, InDispatch,
         RetryLost, Goto, LookupStart, InFlight, MarkDispatchFailed, MarkQueued, Takes,
         At
    <2> QED
      BY <2>2, <2>3 DEF IInv
  <1>9. ASSUME NEW o \in Occs, SpawnFire(o) PROVE IInv'
    BY <1>9 DEF SpawnFire, InFlight, IInv, TypeOK, Clock, OneOpen, Unstarted, Truthful,
       NoRunYet
  <1>10. CASE ClaimErrs
    BY <1>10 DEF ClaimErrs, IInv, TypeOK, Clock, OneOpen, Unstarted, Truthful, NoRunYet
  <1>11. CASE TickFails
    BY <1>11 DEF TickFails, PartDone, IInv, TypeOK, Clock, OneOpen, Unstarted, Truthful,
       NoRunYet
  <1> QED
    BY <1>1, <1>2, <1>3, <1>4, <1>5, <1>6, <1>7, <1>8, <1>9, <1>10, <1>11, ReconcileKeeps DEF
       Tick

LEMMA DriverKeeps ==
  ASSUME IInv, NEW o \in Occs,
         Driver(o) \/ DriverErrs(o) \/ EagerFails(o) \/ LeaseAges(o) \/ Renew(o)
  PROVE  IInv'
  <1> USE TimeAssumption, ScheduleAssumption, ManualIsNoSlot
      DEF Occs, Open, Outcomes, Never, Set, AllOccs, Becomes, Ended, Live, Fault, Call,
          schedule, rows, runs, daemon, bounds
  <1>1. CASE DriverSettles(o)
    BY <1>1 DEF DriverSettles, IInv, TypeOK, Clock, OneOpen, Unstarted, Truthful,
       NoRunYet
  <1>2. CASE DriverStops(o)
    BY <1>2 DEF DriverStops, IInv, TypeOK, Clock, OneOpen, Unstarted, Truthful, NoRunYet
  <1>3. CASE EagerWrite(o)
    <2>1. RowStep(o)
      BY <1>3 DEF RowStep, EagerWrite, CompleteLinkedRun, InDispatch
    <2>2. TypeOK' /\ Clock' /\ OneOpen'
      BY <1>3, <2>1, RowStepKeeps DEF IInv, TypeOK, RowType, EagerWrite
    <2>3. \A p \in Occs : Unstarted(p)' /\ Truthful(p)'
      BY <1>3 DEF IInv, TypeOK, Unstarted, Truthful, NoRunYet, MoveTo, InDispatch,
         EagerWrite, CompleteLinkedRun
    <2> QED
      BY <2>2, <2>3 DEF IInv
  <1>4. CASE DriverErrs(o)
    BY <1>4 DEF DriverErrs, IInv, TypeOK, Clock, OneOpen, Unstarted, Truthful, NoRunYet
  <1>5. CASE EagerFails(o)
    BY <1>5 DEF EagerFails, IInv, TypeOK, Clock, OneOpen, Unstarted, Truthful, NoRunYet
  <1>6. CASE LeaseAges(o)
    BY <1>6 DEF LeaseAges, IInv, TypeOK, Clock, OneOpen, Unstarted, Truthful, NoRunYet
  <1>7. CASE Renew(o)
    BY <1>7 DEF Renew, IInv, TypeOK, Clock, OneOpen, Unstarted, Truthful, NoRunYet
  <1> QED
    BY <1>1, <1>2, <1>3, <1>4, <1>5, <1>6, <1>7 DEF Driver

LEMMA DaemonKeeps ==
  ASSUME IInv, Suspend \/ Advance \/ Crash \/ Restart
  PROVE  IInv'
  <1> USE TimeAssumption, ScheduleAssumption, ManualIsNoSlot
      DEF Occs, Open, Outcomes, Never, Set, AllOccs, Becomes, Ended, Live, Fault, Call,
          schedule, rows, runs, daemon, bounds
  <1>1. CASE Suspend
    BY <1>1 DEF Suspend, IInv, TypeOK, Clock, OneOpen, Unstarted, Truthful, NoRunYet
  <1>2. CASE Advance
    BY <1>2 DEF Advance, IInv, TypeOK, Clock, OneOpen, Unstarted, Truthful, NoRunYet
  <1>3. CASE Crash
    BY <1>3 DEF Crash, IInv, TypeOK, Clock, OneOpen, Unstarted, Truthful, NoRunYet
  <1>4. CASE Restart
    BY <1>4 DEF Restart, IInv, TypeOK, Clock, OneOpen, Unstarted, Truthful, NoRunYet
  <1> QED
    BY <1>1, <1>2, <1>3, <1>4

LEMMA NextKeeps ==
  ASSUME IInv, [Next]_vars
  PROVE  IInv'
  <1>1. CASE UNCHANGED vars
    BY <1>1 DEF vars, schedule, rows, runs, daemon, bounds, IInv, TypeOK, Clock,
       OneOpen, Unstarted, Truthful
  <1>2. ASSUME NEW o \in Occs, Failure(o) PROVE IInv'
    BY <1>2, FireKeeps, DriverKeeps, ReconcileKeeps DEF Failure
  <1>3. ASSUME NEW o \in Occs, Fire(o) \/ Driver(o) \/ LeaseAges(o) \/ Renew(o)
        PROVE  IInv'
    BY <1>3, FireKeeps, DriverKeeps
  <1> QED
    BY <1>1, <1>2, <1>3, ClientKeeps, TickKeeps, DaemonKeeps DEF Next

-----------------------------------------------------------------------------
(* Theorems. *)

\* The invariant holds in every behaviour, for every value of the constants.
THEOREM Inductive == Spec => []IInv
  BY InitOK, NextKeeps, PTL DEF Spec

\* Every variable of the scheduler has its type, and an attempt is on record exactly
\* while an occurrence is being dispatched.
THEOREM TypesHold == Spec => []TypeOK
  <1>1. IInv => TypeOK
    BY DEF IInv
  <1> QED
    BY <1>1, Inductive, PTL

\* What a settled occurrence says of its run is so, whoever settled it: the driver's
\* report, a fire, or a tick that found the run over, evicted or orphaned.
THEOREM OutcomesAreTrue == Spec => []OutcomeIsTheRuns
  <1>1. IInv => OutcomeIsTheRuns
    BY DEF IInv, Unstarted, Truthful, OutcomeIsTheRuns, NoRunYet
  <1> QED
    BY <1>1, Inductive, PTL

\* The slot the schedule's clock stands at has no occurrence yet, whatever edits
\* moved that clock (claim_due_slot, set_enabled, update_schedule).
THEOREM SlotsAreClaimedOnce == Spec => []NextSlotIsFree
  <1>1. IInv => NextSlotIsFree
    <2> SUFFICES ASSUME IInv, exists, next \in Slots, status[next] # "none"
                 PROVE  FALSE
      BY DEF NextSlotIsFree
    <2>1. next < next
      BY DEF IInv, Clock
    <2> QED
      BY <2>1, ManualIsNoSlot
  <1> QED
    BY <1>1, Inductive, PTL

\* Under overlap "skip" two slots of the schedule never have unfinished runs at the
\* same time: a run that is not over keeps its occurrence open (has_open).
THEOREM RunsDoNotOverlap == Spec => []NoRunOverlap
  <1>1. IInv => NoRunOverlap
    <2> SUFFICES ASSUME IInv, exists, Overlap = "skip", NEW s \in Slots, NEW t \in Slots,
                        run[s] \in Live, run[t] \in Live
                 PROVE  s = t
      BY DEF NoRunOverlap
    <2>1. ASSUME NEW o \in Slots, run[o] \in Live PROVE status[o] \in Open
      <3>1. o \in Occs /\ status[o] # "gone"
        BY DEF IInv, Clock, Occs
      <3>2. status[o] \in {"none", "gone"} \cup Open \cup Outcomes
        BY <3>1 DEF IInv, TypeOK
      <3> QED
        BY <2>1, <3>1, <3>2 DEF IInv, Unstarted, Truthful, NoRunYet, Outcomes, Live
    <2> QED
      BY <2>1 DEF IInv, OneOpen
  <1> QED
    BY <1>1, Inductive, PTL

\* No run is started twice: a driver is launched only for a run without a receipt
\* (start_workflow_once_with_params, create_start_once).
THEOREM RunsNeverRestart == Spec => NeverRestarted
  <1> DEFINE Launch(o) == driver[o] # "run" /\ driver'[o] = "run" => run[o] = "none"
  <1>1. ASSUME TypeOK, [Next]_vars, NEW o \in Occs PROVE Launch(o)
    <2> USE DEF schedule, rows, runs, daemon, bounds, Set, AllOccs, Becomes
    <2>1. CASE UNCHANGED vars
      BY <2>1 DEF vars
    <2>2. CASE Client
      BY <2>2 DEF Client, Update, Enable, Disable, Remove, EnqueueManual, PauseRun,
         CancelRun, Evict
    <2>3. ASSUME NEW caller \in {"fire", "tick"}, NEW p \in Occs,
                 Reconcile(caller, p) \/ ReconcileErrs(caller, p)
          PROVE  Launch(o)
      BY <2>3 DEF Reconcile, Converge, LeaveAlive, SeeOrphan, CancelOrphan,
         OrphanRevived, OrphanEnded, SettleInterrupted, ReconcileErrs
    <2>4. CASE Tick \/ ClaimErrs \/ TickFails
      BY <2>3, <2>4 DEF Tick, ClaimErrs, TickFails, TickBegins, ListDispatched, ClaimDueSlot,
         NothingDue, ClaimQueued, LeaveDispatching, LinkStarted, RetryLost, SpawnFire
    <2>5. ASSUME NEW p \in Occs, StartOnce(p) PROVE Launch(o)
      BY <1>1, <2>5 DEF TypeOK, StartOnce, LookupStart
    <2>6. ASSUME NEW p \in Occs, Fire(p) PROVE Launch(o)
      BY <2>3, <2>5, <2>6 DEF Fire, FireMovedOn, FireLooks, FireBadDefinition, FireLinks
    <2>7. ASSUME NEW p \in Occs, Driver(p) PROVE Launch(o)
      BY <1>1, <2>7 DEF TypeOK, Driver, DriverSettles, DriverStops, EagerWrite
    <2>8. ASSUME NEW p \in Occs, Failure(p) PROVE Launch(o)
      BY <1>1, <2>3, <2>8 DEF TypeOK, Failure, FireErrs, StartErrs, DriverErrs,
         EagerFails
    <2>9. ASSUME NEW p \in Occs, LeaseAges(p) \/ Renew(p) PROVE Launch(o)
      BY <2>9 DEF LeaseAges, Renew
    <2>10. CASE Advance \/ Suspend \/ Crash \/ Restart
      BY <2>10 DEF Advance, Suspend, Crash, Restart
    <2> QED
      BY <1>1, <2>1, <2>2, <2>4, <2>6, <2>7, <2>8, <2>9, <2>10 DEF Next
  <1>2. TypeOK /\ [Next]_vars => [\A o \in Occs : Launch(o)]_vars
    BY <1>1
  <1> QED
    BY <1>2, TypesHold, PTL DEF Spec, NeverRestarted

\* A settled occurrence keeps its outcome until its schedule is removed, whoever
\* comes late to it.
THEOREM OutcomesAreFinal == Spec => OutcomeIsFinal
  <1> DEFINE Keeps(o) == status[o] \in Outcomes => status'[o] \in {status[o], "gone"}
  <1>1. ASSUME IInv, [Next]_vars, NEW o \in Occs PROVE Keeps(o)
    <2> USE DEF schedule, rows, runs, daemon, bounds, Set, AllOccs, Outcomes
    <2>1. CASE UNCHANGED vars
      BY <2>1 DEF vars
    <2>2. CASE Client
      BY <1>1, <2>2 DEF IInv, TypeOK, Client, Update, Enable, Disable, Remove,
         EnqueueManual, PauseRun, CancelRun, Evict
    <2>3. ASSUME NEW p \in Occs, RowStep(p) PROVE Keeps(o)
      BY <1>1, <2>3 DEF IInv, TypeOK, RowStep, InDispatch, MoveTo
    <2>4. ASSUME NEW caller \in {"fire", "tick"}, NEW p \in Occs,
                 Reconcile(caller, p) \/ ReconcileErrs(caller, p)
          PROVE  RowStep(p)
      BY <2>4 DEF Reconcile, Converge, LeaveAlive, SeeOrphan, CancelOrphan,
         OrphanRevived, OrphanEnded, SettleInterrupted, ReconcileErrs, SettleOpen,
         RowStep, InDispatch, Ended
    <2>5. ASSUME NEW p \in Occs, Fire(p) PROVE RowStep(p)
      BY <2>4, <2>5 DEF Fire, FireMovedOn, FireLooks, FireBadDefinition, FireLinks,
         StartOnce, LinkRun, MarkDispatchFailed, RowStep, InDispatch
    <2>6. ASSUME NEW p \in Occs, Failure(p) PROVE RowStep(p)
      BY <2>4, <2>6 DEF Failure, FireErrs, StartErrs, DriverErrs, EagerFails, Uncertain,
         LinkRun, RowStep, InDispatch
    <2>7. ASSUME NEW p \in Occs, Driver(p) PROVE RowStep(p)
      BY <2>7 DEF Driver, DriverSettles, DriverStops, EagerWrite, CompleteLinkedRun,
         RowStep, InDispatch
    <2>8. ASSUME NEW p \in Occs, LeaseAges(p) \/ Renew(p) PROVE RowStep(p)
      BY <2>8 DEF LeaseAges, Renew, RowStep
    <2>9. CASE Advance \/ Suspend \/ Crash \/ Restart \/ ClaimErrs \/ TickFails
      BY <2>9 DEF Advance, Suspend, Crash, Restart, ClaimErrs, TickFails
    <2>10. CASE ClaimDueSlot
      <3>1. next \in Slots /\ exists /\ status' = [status EXCEPT ![next] = Admission]
        BY <1>1, <2>10, TimeAssumption DEF IInv, TypeOK, ClaimDueSlot, Due, Slots
      <3>2. status[next] = "none"
        BY <1>1, <3>1, ManualIsNoSlot DEF IInv, Clock
      <3> QED
        BY <1>1, <3>1, <3>2 DEF IInv, TypeOK
    <2>11. CASE ClaimQueued
      BY <2>11 DEF ClaimQueued
    <2>12. CASE TickBegins \/ ListDispatched \/ NothingDue
      BY <2>12 DEF TickBegins, ListDispatched, NothingDue
    <2>13. ASSUME NEW p \in Occs, LeaveDispatching(p) \/ LinkStarted(p) \/ RetryLost(p)
                                    \/ SpawnFire(p)
           PROVE  RowStep(p)
      BY <2>13 DEF LeaveDispatching, LinkStarted, RetryLost, SpawnFire, LinkRun,
         MarkDispatchFailed, MarkQueued, RowStep, InDispatch
    <2>14. CASE Tick
      BY <2>3, <2>4, <2>10, <2>11, <2>12, <2>13, <2>14 DEF Tick
    <2> QED
      BY <1>1, <2>1, <2>2, <2>3, <2>5, <2>6, <2>7, <2>8, <2>9, <2>14 DEF Next
  <1>2. IInv /\ [Next]_vars => [\A o \in Occs : Keeps(o)]_vars
    BY <1>1
  <1> QED
    BY <1>2, Inductive, PTL DEF Spec, OutcomeIsFinal

-----------------------------------------------------------------------------
(* The scheduler keeps its promise: every step is one of OccurrenceLife's. *)

Unseen == UNCHANGED Promise!vars

LEMMA SameOccs == Promise!Occs = Occs
  BY DEF Promise!Occs, Occs

\* A row whose place among the open ones does not change is not seen to move.
LEMMA PhaseMoves ==
  ASSUME TypeOK, NEW o \in Occs, NEW st, status' = [status EXCEPT ![o] = st]
  PROVE  Phase' = [Phase EXCEPT ![o] = IF st \in Open THEN "open" ELSE st]
  BY DEF TypeOK, Phase

LEMMA StaysOpen ==
  ASSUME TypeOK, NEW o \in Occs, InDispatch(o), NEW st \in Open, MoveTo(o, st)
  PROVE  Phase' = Phase
  <1>1. Phase' = [Phase EXCEPT ![o] = "open"]
    BY PhaseMoves DEF MoveTo, Set
  <1>2. Phase[o] = "open"
    BY DEF Phase, InDispatch, Open
  <1> QED
    BY <1>1, <1>2 DEF Phase

LEMMA LinkUnseen ==
  ASSUME TypeOK, NEW o \in Occs, LinkRun(o) \/ MarkQueued(o)
  PROVE  Phase' = Phase
  <1>1. CASE UNCHANGED rows
    BY <1>1 DEF rows, Phase
  <1>2. CASE InDispatch(o) /\ \E st \in {"dispatched", "queued"} : MoveTo(o, st)
    BY <1>2, StaysOpen DEF Open
  <1> QED
    BY <1>1, <1>2 DEF LinkRun, MarkQueued, InDispatch

\* An outcome that tells of the run is one the promise allows, and a write that
\* finds the row moved on is not seen.
Told == {"completed", "failed", "cancelled", "interrupted", "evicted"}
LEMMA SettleLives ==
  ASSUME TypeOK, NEW o \in Occs, NEW outcome \in Told, Promise!Tells(outcome, run[o]),
         SettleOpen(o, outcome) \/ CompleteLinkedRun(o, outcome), UNCHANGED run
  PROVE  Promise!Next \/ Unseen
  <1>1. CASE UNCHANGED rows
    BY <1>1 DEF rows, Unseen, Promise!vars, Phase
  <1>2. CASE InDispatch(o) /\ MoveTo(o, outcome)
    <2>1. Phase' = [Phase EXCEPT ![o] = outcome]
      BY <1>2, PhaseMoves DEF MoveTo, Set, Told, Open
    <2>2. Phase[o] = "open"
      BY <1>2 DEF Phase, InDispatch, Open
    <2>3. Promise!Settle(o)
      BY <2>1, <2>2 DEF Promise!Settle, Promise!Moves, Told
    <2> QED
      BY <2>3, SameOccs DEF Promise!Next
  <1> QED
    BY <1>1, <1>2 DEF SettleOpen, CompleteLinkedRun, InDispatch

LEMMA GiveUpLives ==
  ASSUME TypeOK, NEW o \in Occs, MarkDispatchFailed(o), run[o] = "none", UNCHANGED run
  PROVE  Promise!Next \/ Unseen
  <1>1. CASE UNCHANGED rows
    BY <1>1 DEF rows, Unseen, Promise!vars, Phase
  <1>2. CASE status[o] = "dispatching" /\ MoveTo(o, "dispatch_failed")
    <2>1. Phase' = [Phase EXCEPT ![o] = "dispatch_failed"]
      BY <1>2, PhaseMoves DEF MoveTo, Set, Open
    <2>2. Phase[o] = "open"
      BY <1>2 DEF Phase, Open
    <2>3. Promise!GiveUp(o)
      BY <2>1, <2>2 DEF Promise!GiveUp, Promise!Moves, Promise!Unstarted
    <2> QED
      BY <2>3, SameOccs DEF Promise!Next
  <1> QED
    BY <1>1, <1>2 DEF MarkDispatchFailed

\* What happens to a run while no row changes.
LEMMA TurnLives ==
  ASSUME TypeOK, NEW o \in Occs, UNCHANGED status, NEW to,
         run' = [run EXCEPT ![o] = to],
         \/ run[o] = "running" /\ to = "paused"
         \/ run[o] \in Live /\ to \in Ended
         \/ run[o] \in {"completed", "failed"} /\ to = "evicted"
  PROVE  Promise!Next
  <1>1. Phase' = Phase
    BY DEF Phase
  <1>2. Promise!Turns(o, to)
    BY <1>1 DEF Promise!Turns
  <1>3. Promise!Pause(o) \/ Promise!End(o) \/ Promise!Forget(o)
    BY <1>2 DEF Promise!Pause, Promise!End, Promise!Forget, Promise!Unfinished, Live, Ended
  <1> QED
    BY <1>3, SameOccs DEF Promise!Next

\* A commit that creates the run starts it, also when the row is gone.
LEMMA CommitLives ==
  ASSUME IInv, NEW o \in Occs, fire[o] = "ready", Commit(o), Phase' = Phase
  PROVE  Promise!Next \/ Unseen
  <1>1. run[o] = "none" /\ status[o] \in {"dispatching", "dispatched", "gone"}
    BY DEF IInv, TypeOK, Unstarted, Truthful, NoRunYet, Open, Outcomes
  <1>2. run' = [run EXCEPT ![o] = "running"]
    BY <1>1 DEF Commit, LookupStart, Set
  <1>3. Phase[o] \in {"open", "gone"}
    BY <1>1 DEF Phase, Open
  <1>4. Promise!Start(o)
    BY <1>1, <1>2, <1>3 DEF Promise!Start, Promise!Turns
  <1> QED
    BY <1>4, SameOccs DEF Promise!Next

LEMMA ClientLives ==
  ASSUME IInv, Client
  PROVE  Promise!Next \/ Unseen
  <1>1. TypeOK
    BY DEF IInv
  <1>2. CASE Update \/ Enable \/ Disable
    BY <1>2 DEF Update, Enable, Disable, rows, runs, Unseen, Promise!vars, Phase
  <1>3. CASE Remove
    <2>1. Phase' = [o \in Occs |-> "gone"] /\ UNCHANGED run
      BY <1>3 DEF Remove, Phase, AllOccs, Open, runs
    <2>2. Promise!Remove
      BY <2>1, SameOccs DEF Promise!Remove
    <2> QED
      BY <2>2 DEF Promise!Next
  <1>4. ASSUME NEW m \in Manual, EnqueueManual(m) PROVE Promise!Next
    <2>1. m \in Occs /\ status[m] = "none" /\ status' = [status EXCEPT ![m] = "queued"]
          /\ UNCHANGED run
      BY <1>4 DEF EnqueueManual, Occs, Set, runs
    <2>2. Phase' = [Phase EXCEPT ![m] = "open"]
      BY <1>1, <2>1, PhaseMoves DEF Open
    <2>3. Phase[m] = "none"
      BY <2>1 DEF Phase, Open
    <2>4. Promise!Ask(m)
      BY <2>1, <2>2, <2>3 DEF Promise!Ask, Promise!Moves
    <2> QED
      BY <2>4 DEF Promise!Next
  <1>5. ASSUME NEW o \in Occs, PauseRun(o) PROVE Promise!Next
    BY <1>1, <1>5, TurnLives DEF PauseRun, Becomes, Set, rows
  <1>6. ASSUME NEW o \in Occs, CancelRun(o) PROVE Promise!Next
    BY <1>1, <1>6, TurnLives DEF CancelRun, Becomes, Set, rows, Ended
  <1>7. ASSUME NEW o \in Occs, Evict(o) PROVE Promise!Next
    BY <1>1, <1>7, TurnLives DEF Evict, Becomes, Set, rows
  <1> QED
    BY <1>2, <1>3, <1>4, <1>5, <1>6, <1>7 DEF Client

\* Reconciliation settles with what it read of the run, cancels an orphan, or
\* changes nothing.
LEMMA ReconcileLives ==
  ASSUME IInv, NEW caller \in {"fire", "tick"}, NEW o \in Occs,
         Reconcile(caller, o) \/ ReconcileErrs(caller, o)
  PROVE  Promise!Next \/ Unseen
  <1>1. TypeOK
    BY DEF IInv
  <1>2. CASE Converge(caller, o) \/ OrphanEnded(caller, o)
    <2>1. run[o] \in Told /\ Promise!Tells(run[o], run[o])
      BY <1>2 DEF Converge, OrphanEnded, Told, Ended, Promise!Tells
    <2>2. SettleOpen(o, run[o]) /\ UNCHANGED run
      BY <1>2 DEF Converge, OrphanEnded, runs
    <2> QED
      BY <1>1, <2>1, <2>2, SettleLives
  <1>3. CASE SettleInterrupted(caller, o)
    <2>1. run[o] = "cancelled"
      BY <1>3 DEF SettleInterrupted, Takes, At, IInv, Truthful
    <2>2. "interrupted" \in Told /\ Promise!Tells("interrupted", run[o])
      BY <2>1 DEF Told, Promise!Tells
    <2>3. SettleOpen(o, "interrupted") /\ UNCHANGED run
      BY <1>3 DEF SettleInterrupted, runs
    <2> QED
      BY <1>1, <2>2, <2>3, SettleLives
  <1>4. CASE CancelOrphan(caller, o)
    BY <1>1, <1>4, TurnLives DEF CancelOrphan, Becomes, Set, rows, Ended
  <1>5. CASE LeaveAlive(caller, o) \/ SeeOrphan(caller, o) \/ OrphanRevived(caller, o)
             \/ ReconcileErrs(caller, o)
    BY <1>5 DEF LeaveAlive, SeeOrphan, OrphanRevived, ReconcileErrs, rows, runs, Unseen,
       Promise!vars, Phase
  <1> QED
    BY <1>2, <1>3, <1>4, <1>5 DEF Reconcile

LEMMA FireLives ==
  ASSUME IInv, NEW o \in Occs, Fire(o) \/ FireErrs(o) \/ StartErrs(o)
  PROVE  Promise!Next \/ Unseen
  <1>1. TypeOK
    BY DEF IInv
  <1>2. CASE FireMovedOn(o) \/ FireLooks(o) \/ FireLinks(o) \/ FireErrs(o)
    <2>1. LinkRun(o) \/ UNCHANGED rows
      BY <1>2 DEF FireMovedOn, FireLooks, FireLinks, FireErrs, Uncertain
    <2>2. Phase' = Phase
      BY <1>1, <2>1, LinkUnseen DEF rows, Phase
    <2> QED
      BY <1>2, <2>2 DEF FireMovedOn, FireLooks, FireLinks, FireErrs, runs, Unseen,
         Promise!vars
  <1>3. CASE FireBadDefinition(o)
    <2>1. run[o] = "none"
      BY <1>3 DEF FireBadDefinition, IInv, Unstarted
    <2> QED
      BY <1>1, <1>3, <2>1, GiveUpLives DEF FireBadDefinition, runs
  <1>4. CASE StartOnce(o) \/ StartErrs(o)
    <2>1. fire[o] = "ready" /\ Commit(o) /\ (LinkRun(o) \/ UNCHANGED rows)
      BY <1>4 DEF StartOnce, StartErrs, Uncertain
    <2>2. Phase' = Phase
      BY <1>1, <2>1, LinkUnseen DEF rows, Phase
    <2> QED
      BY <2>1, <2>2, CommitLives
  <1> QED
    BY <1>2, <1>3, <1>4, ReconcileLives DEF Fire

\* The slot is the first that is left, and has_open knows who is busy.
LEMMA ClaimLives ==
  ASSUME IInv, ClaimDueSlot
  PROVE  Promise!Next
  <1>1. /\ next \in Slots /\ exists /\ UNCHANGED run
        /\ status' = [status EXCEPT ![next] = Admission]
    BY TimeAssumption DEF IInv, TypeOK, ClaimDueSlot, Due, Slots, Set, runs
  <1>2. Promise!Comes(next)
    <2> SUFFICES ASSUME NEW t \in Slots, t >= next PROVE Phase[t] = "none"
      BY DEF Promise!Comes
    <2>1. status[t] = "none"
      <3> SUFFICES ASSUME status[t] # "none" PROVE FALSE
        OBVIOUS
      <3>1. t < next
        BY <1>1 DEF IInv, Clock
      <3> QED
        BY <1>1, <3>1, ManualIsNoSlot
    <2> QED
      BY <2>1 DEF Phase, Occs, Open
  <1>3. HasOpen <=> Promise!Busy
    BY SameOccs DEF HasOpen, Promise!Busy, Phase, IInv, TypeOK, Open, Outcomes
  <1>4. /\ Phase' = [Phase EXCEPT ![next] = IF Admission \in Open THEN "open" ELSE Admission]
        /\ next \in Occs
    BY <1>1, PhaseMoves DEF IInv, Occs
  <1>5. CASE Admission = "queued"
    <2>1. Promise!Moves(next, "open") /\ (Overlap = "skip" => ~Promise!Busy)
      BY <1>1, <1>3, <1>4, <1>5 DEF Promise!Moves, Open, Admission
    <2>2. Promise!Admit(next)
      BY <1>2, <2>1 DEF Promise!Admit
    <2> QED
      BY <1>1, <2>2 DEF Promise!Next
  <1>6. CASE Admission = "skipped_missed"
    <2>1. Promise!Moves(next, "skipped_missed")
      BY <1>1, <1>4, <1>6 DEF Promise!Moves, Open
    <2>2. Promise!Skip(next)
      BY <1>2, <2>1 DEF Promise!Skip
    <2> QED
      BY <1>1, <2>2 DEF Promise!Next
  <1>7. CASE Admission = "skipped_overlap"
    <2>1. Promise!Moves(next, "skipped_overlap") /\ Overlap = "skip" /\ Promise!Busy
      BY <1>1, <1>3, <1>4, <1>7 DEF Promise!Moves, Open, Admission
    <2>2. Promise!Skip(next)
      BY <1>2, <2>1 DEF Promise!Skip
    <2> QED
      BY <1>1, <2>2 DEF Promise!Next
  <1> QED
    BY <1>5, <1>6, <1>7 DEF Admission

\* What the queue's claim finds too late was never run.
LEMMA QueueLives ==
  ASSUME IInv, ClaimQueued
  PROVE  Promise!Next
  <1> DEFINE late == {o \in Occs : status[o] = "queued" /\ Expired(o)}
  <1>1. /\ status' = [o \in Occs |-> IF status[o] # "queued" THEN status[o]
                                     ELSE IF o \in late THEN "skipped_missed"
                                     ELSE "dispatching"]
        /\ UNCHANGED run
    <2>1. /\ status' = [o \in Occs |->
                          IF o \in {p \in Occs : status[p] = "queued" /\ ~Expired(p)}
                          THEN "dispatching"
                          ELSE IF status[o] = "queued" THEN "skipped_missed" ELSE status[o]]
          /\ UNCHANGED run
      BY DEF ClaimQueued, runs
    <2> QED
      BY <2>1
  <1>2. late \in SUBSET Slots
    BY DEF Expired
  <1>3. \A o \in late : Promise!Unstarted(o)
    BY DEF Promise!Unstarted, Phase, Open, IInv, Unstarted, NoRunYet
  <1>4. Phase' = [o \in Promise!Occs |-> IF o \in late THEN "skipped_missed" ELSE Phase[o]]
    <2>1. \A o \in late : o \in Occs /\ status[o] = "queued"
      OBVIOUS
    <2> HIDE DEF late
    <2> QED
      BY <1>1, <2>1, SameOccs DEF Phase, Open
  <1>5. Promise!Expire(late)
    BY <1>1, <1>3, <1>4, Zenon DEF Promise!Expire
  <1> QED
    BY <1>2, <1>5, Zenon DEF Promise!Next

LEMMA TickLives ==
  ASSUME IInv, Tick \/ ClaimErrs \/ TickFails
  PROVE  Promise!Next \/ Unseen
  <1>1. TypeOK
    BY DEF IInv
  <1>2. CASE TickBegins \/ ListDispatched \/ NothingDue \/ ClaimErrs \/ TickFails
    BY <1>2 DEF TickBegins, ListDispatched, NothingDue, ClaimErrs, TickFails, rows, runs,
       Unseen, Promise!vars, Phase
  <1>3. ASSUME NEW o \in Occs, LeaveDispatching(o) \/ SpawnFire(o) PROVE Unseen
    BY <1>3 DEF LeaveDispatching, SpawnFire, rows, runs, Unseen, Promise!vars, Phase
  <1>4. ASSUME NEW o \in Occs, LinkStarted(o) PROVE Unseen
    BY <1>1, <1>4, LinkUnseen DEF LinkStarted, runs, Unseen, Promise!vars
  <1>5. ASSUME NEW o \in Occs, RetryLost(o) PROVE Promise!Next \/ Unseen
    <2>1. run[o] = "none" /\ UNCHANGED run
      BY <1>5 DEF RetryLost, LookupStart, runs
    <2>2. CASE MarkDispatchFailed(o)
      BY <1>1, <2>1, <2>2, GiveUpLives
    <2>3. CASE MarkQueued(o)
      BY <1>1, <2>1, <2>3, LinkUnseen DEF Unseen, Promise!vars
    <2> QED
      BY <1>5, <2>2, <2>3 DEF RetryLost
  <1> QED
    BY <1>2, <1>3, <1>4, <1>5, ClaimLives, QueueLives, ReconcileLives DEF Tick

LEMMA DriverLives ==
  ASSUME IInv, NEW o \in Occs,
         Driver(o) \/ DriverErrs(o) \/ EagerFails(o) \/ LeaseAges(o) \/ Renew(o)
  PROVE  Promise!Next \/ Unseen
  <1>1. TypeOK
    BY DEF IInv
  <1>2. CASE DriverSettles(o)
    BY <1>1, <1>2, TurnLives DEF DriverSettles, Becomes, Set, rows, Ended
  <1>3. CASE EagerWrite(o)
    <2>1. driver[o] \in {"completed", "failed"} /\ run[o] \in {driver[o], "evicted"}
      BY <1>3 DEF EagerWrite, IInv, Truthful
    <2>2. driver[o] \in Told /\ Promise!Tells(driver[o], run[o])
      BY <2>1 DEF Told, Promise!Tells
    <2> QED
      BY <1>1, <1>3, <2>2, SettleLives DEF EagerWrite, runs
  <1>4. CASE DriverStops(o) \/ DriverErrs(o) \/ EagerFails(o) \/ LeaseAges(o) \/ Renew(o)
    BY <1>4 DEF DriverStops, DriverErrs, EagerFails, LeaseAges, Renew, rows, runs, Unseen,
       Promise!vars, Phase
  <1> QED
    BY <1>2, <1>3, <1>4 DEF Driver

\* The scheduler keeps its promise, for any slots, intervals and delays, both overlap
\* policies, and any number of crashes, failing calls and edits: slots are admitted in
\* order and one at a time, each occurrence is run at most once, given up only if it
\* never ran, and told of as its run ended, for good.
THEOREM Implements == Spec => ImplementsLife
  <1>1. Init => Promise!Init
    BY SameOccs DEF Init, AllOccs, Phase, Open, Promise!Init
  <1>2. IInv /\ [Next]_vars => [Promise!Next]_(Promise!vars)
    <2> SUFFICES ASSUME IInv, [Next]_vars PROVE Promise!Next \/ Unseen
      BY DEF Unseen
    <2>1. CASE Advance \/ Suspend \/ Crash \/ Restart \/ UNCHANGED vars
      BY <2>1 DEF Advance, Suspend, Crash, Restart, vars, rows, runs, Unseen,
         Promise!vars, Phase
    <2>2. ASSUME NEW o \in Occs, Failure(o) PROVE Promise!Next \/ Unseen
      BY <2>2, FireLives, DriverLives, ReconcileLives DEF Failure
    <2>3. ASSUME NEW o \in Occs, Fire(o) \/ Driver(o) \/ LeaseAges(o) \/ Renew(o)
          PROVE  Promise!Next \/ Unseen
      BY <2>3, FireLives, DriverLives
    <2> QED
      BY <2>1, <2>2, <2>3, ClientLives, TickLives DEF Next
  <1> QED
    BY <1>1, <1>2, Inductive, PTL DEF Spec, ImplementsLife, Promise!Spec

-----------------------------------------------------------------------------
(* What the promise is worth by itself, without ticks, fires and leases. *)

Seen(o) ==
  /\ Phase[o] \in {"none", "skipped_missed", "skipped_overlap", "dispatch_failed"} =>
       run[o] = "none"
  /\ Phase[o] \in Told => Promise!Tells(Phase[o], run[o])
OneSlotOpen ==
  Overlap = "skip" =>
    \A s, t \in Slots : Phase[s] = "open" /\ Phase[t] = "open" => s = t
PInv ==
  /\ Phase \in [Occs -> {"none", "open", "gone"} \cup Outcomes]
  /\ run \in [Occs -> {"none", "running", "paused", "completed", "failed",
                       "cancelled", "evicted"}]
  /\ \A o \in Occs : Seen(o)
  /\ OneSlotOpen

\* Slots whose schedule is there and whose runs are not over.
Ongoing(s) == Phase[s] # "gone" /\ run[s] \in Live
Apart ==
  Overlap = "skip" => \A s, t \in Slots : Ongoing(s) /\ Ongoing(t) => s = t

LEMMA PromiseStep ==
  ASSUME PInv, [Promise!Next]_(Promise!vars)
  PROVE  PInv'
  <1> USE SameOccs, ManualIsNoSlot DEF Outcomes, Told, Live
  <1>1. CASE UNCHANGED Promise!vars
    <2>1. Phase' = Phase /\ run' = run
      BY <1>1 DEF Promise!vars
    <2> QED
      BY <2>1, Zenon DEF PInv, Seen, OneSlotOpen, Promise!Tells
  <1>2. ASSUME NEW s \in Slots, Promise!Admit(s) PROVE PInv'
    <2>1. /\ s \in Occs /\ Phase[s] = "none" /\ UNCHANGED run
          /\ Phase' = [Phase EXCEPT ![s] = "open"]
          /\ Overlap = "skip" => \A o \in Occs : Phase[o] # "open"
      BY <1>2 DEF Promise!Admit, Promise!Comes, Promise!Moves, Promise!Busy, Occs
    <2>2. Slots \subseteq Occs
      BY DEF Occs
    <2> QED
      BY <2>1, <2>2 DEF PInv, Seen, OneSlotOpen, Promise!Tells
  <1>3. ASSUME NEW s \in Slots, Promise!Skip(s) PROVE PInv'
    <2>1. s \in Occs /\ Phase[s] = "none" /\ UNCHANGED run
          /\ \E to \in {"skipped_missed", "skipped_overlap"} :
               Phase' = [Phase EXCEPT ![s] = to]
      BY <1>3 DEF Promise!Skip, Promise!Comes, Promise!Moves, Occs
    <2> QED
      BY <2>1 DEF PInv, Seen, OneSlotOpen, Promise!Tells, Occs
  <1>4. ASSUME NEW m \in Manual, Promise!Ask(m) PROVE PInv'
    BY <1>4 DEF Promise!Ask, Promise!Moves, PInv, Seen, OneSlotOpen, Promise!Tells, Occs
  <1>5. ASSUME NEW o \in Occs, Promise!GiveUp(o) PROVE PInv'
    BY <1>5 DEF Promise!GiveUp, Promise!Unstarted, Promise!Moves, PInv, Seen,
       OneSlotOpen, Promise!Tells, Occs
  <1>6. ASSUME NEW o \in Occs,
               Promise!Start(o) \/ Promise!Pause(o) \/ Promise!End(o) \/ Promise!Forget(o)
        PROVE  PInv'
    <2>1. Phase' = Phase /\ \E to : /\ run' = [run EXCEPT ![o] = to]
            /\ \/ to = "running" /\ run[o] = "none" /\ Phase[o] \in {"open", "gone"}
               \/ to \in {"paused", "completed", "failed", "cancelled"}
                  /\ run[o] \in {"running", "paused"}
               \/ to = "evicted" /\ run[o] \in {"completed", "failed"}
      BY <1>6 DEF Promise!Start, Promise!Pause, Promise!End, Promise!Forget,
         Promise!Turns, Promise!Unfinished
    <2> QED
      BY <2>1 DEF PInv, Seen, OneSlotOpen, Promise!Tells
  <1>7. ASSUME NEW o \in Occs, Promise!Settle(o) PROVE PInv'
    <2>1. PICK to \in Told : Promise!Tells(to, run[o]) /\ Promise!Moves(o, to)
      BY <1>7 DEF Promise!Settle
    <2> QED
      BY <2>1 DEF Promise!Moves, PInv, Seen, OneSlotOpen, Promise!Tells, Occs
  <1>8. ASSUME NEW late \in SUBSET Slots, Promise!Expire(late) PROVE PInv'
    BY <1>8 DEF Promise!Expire, Promise!Unstarted, PInv, Seen, OneSlotOpen, Promise!Tells,
       Occs
  <1>9. CASE Promise!Remove
    BY <1>9 DEF Promise!Remove, PInv, Seen, OneSlotOpen, Promise!Tells, Occs
  <1> QED
    BY <1>1, <1>2, <1>3, <1>4, <1>5, <1>6, <1>7, <1>8, <1>9 DEF Promise!Next

\* Whoever keeps the promise keeps two slots of a schedule apart, and tells of every
\* settled occurrence what became of its run: neither needs to be asked of the
\* scheduler again.
THEOREM PromiseKeepsApart ==
  ImplementsLife => [](Apart /\ \A o \in Occs : Phase[o] \in Told => Promise!Tells(Phase[o], run[o]))
  <1>1. Promise!Init => PInv
    <2> SUFFICES ASSUME Promise!Init PROVE PInv
      OBVIOUS
    <2>1. Phase = [o \in Occs |-> "none"] /\ run = [o \in Occs |-> "none"]
      BY SameOccs DEF Promise!Init
    <2>2. \A o \in Occs : Phase[o] = "none" /\ run[o] = "none"
      BY <2>1
    <2>3. \A o \in Occs : Seen(o)
      BY <2>2 DEF Seen, Outcomes, Told
    <2>4. OneSlotOpen
      BY <2>2 DEF OneSlotOpen, Occs
    <2>5. /\ Phase \in [Occs -> {"none", "open", "gone"} \cup Outcomes]
          /\ run \in [Occs -> {"none", "running", "paused", "completed", "failed",
                               "cancelled", "evicted"}]
      BY <2>1
    <2> QED
      BY <2>3, <2>4, <2>5 DEF PInv
  <1>2. PInv => Apart
    <2> SUFFICES ASSUME PInv, Overlap = "skip", NEW s \in Slots, NEW t \in Slots,
                        Ongoing(s), Ongoing(t)
                 PROVE  s = t
      BY DEF Apart
    <2>1. ASSUME NEW o \in Slots, Ongoing(o) PROVE Phase[o] = "open"
      BY <2>1 DEF Ongoing, PInv, Seen, Promise!Tells, Live, Outcomes, Told, Occs
    <2> QED
      BY <2>1 DEF PInv, OneSlotOpen
  <1>3. PInv => \A o \in Occs : Phase[o] \in Told => Promise!Tells(Phase[o], run[o])
    BY DEF PInv, Seen
  <1> QED
    BY <1>1, <1>2, <1>3, PromiseStep, PTL DEF ImplementsLife, Promise!Spec

=============================================================================
