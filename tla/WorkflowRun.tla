----------------------------- MODULE WorkflowRun -----------------------------
(***************************************************************************)
(* How crates/flare-workflow executes one run: the driver's loop over the  *)
(* step graph, the step tasks it spawns, the journal that lets a restarted *)
(* engine go on from where the last one stopped, pause and resume, and the *)
(* rollback of a failed run.                                               *)
(*                                                                         *)
(* That at most one driver executes a run is the subject of WorkflowLease; *)
(* here there is one.  The driver and the step tasks run in parallel: they *)
(* share the StepTracker behind its lock and a channel of completions, so  *)
(* a step may report between any two steps of the driver.                  *)
(***************************************************************************)
EXTENDS Integers, FiniteSets

CONSTANTS
  Steps,          \* the steps of the definition
  DependsOn,      \* of a step: all of them come before it
  DependsOnAny,   \* of a step: one of them comes before it
  FanOut,         \* steps in mode FanOut
  Collect,        \* steps in mode Collect
  SkipOnError,    \* steps in error mode Skip, or ContinueNextStep
  MaySkip,        \* steps with a run_if, or whose executor may answer Skip
  Undoable,       \* steps with a rollback handler
  NoStep,         \* no step triggered the rollback
  MaxAttempts,    \* of the retry policy
  MaxCrashes, MaxPauses   \* bounds of the exploration

AllDependencies(s) == DependsOn[s] \cup DependsOnAny[s]

\* WorkflowDefinition::validate: dependencies exist, and there is no cycle.
ASSUME DefinitionAssumption ==
  /\ IsFiniteSet(Steps) /\ NoStep \notin Steps
  /\ DependsOn \in [Steps -> SUBSET Steps]
  /\ DependsOnAny \in [Steps -> SUBSET Steps]
  /\ \A set \in (SUBSET Steps) \ {{}} : \E s \in set : AllDependencies(s) \cap set = {}
  /\ FanOut \subseteq Steps /\ Collect \subseteq Steps \ FanOut
  /\ SkipOnError \subseteq Steps /\ MaySkip \subseteq Steps
  /\ Undoable \subseteq Steps \ Collect
ASSUME BoundAssumption ==
  /\ MaxAttempts \in Nat \ {0}
  /\ MaxCrashes \in Nat /\ MaxPauses \in Nat

VARIABLES
  \* the row and the journal of the run
  status,     \* WorkflowStatus; Waiting counts as running
  journal,    \* the last StepRun result of each step
  succeeded,  \* steps whose StepState is Succeeded
  startedBy,  \* of an undoable step: those that had started by its last start
  rolled,     \* steps with a Rollback entry
  output,     \* the run's output: the steps whose output it carries
  \* the driver
  driver,     \* where it is, "off" when the run is not driven
  pending,    \* pending_check
  trigger,    \* failed_step of the rollback
  undo,       \* steps the rollback still has to compensate
  undoing,    \* the one whose handler has run and is not journaled yet
  \* shared by the driver and the step tasks
  tracker,    \* StepTracker
  signals,    \* steps whose completion is in the channel
  buffer,     \* collect_buffer: the steps whose output it holds
  \* the step tasks
  task,       \* how far the task of a step is
  attempt,
  \* of the exploration
  crashes, pauses

row    == <<status, journal, succeeded, startedBy, rolled, output>>
drive  == <<driver, pending, trigger, undo, undoing>>
shared == <<tracker, signals, buffer>>
tasks  == <<task, attempt>>
bounds == <<crashes, pauses>>
vars   == <<row, drive, shared, tasks, bounds>>

Terminal == {"completed", "failed", "cancelled"}
Over     == {"completed", "failed", "skipped"}
Reports  == {"done", "fail", "skip", "stopped"}

\* Every variable has its type.
TypeOK ==
  /\ status \in Terminal \cup {"running", "paused"}
  /\ journal \in [Steps -> {"none", "success", "failure"}]
  /\ succeeded \subseteq Steps /\ rolled \subseteq Steps /\ output \subseteq Steps
  /\ startedBy \in [Undoable -> SUBSET Undoable]
  /\ driver \in {"off", "load", "top", "poll", "plan", "wait", "drain",
                 "finish", "stuck", "undo"}
  /\ pending \subseteq Steps /\ undo \subseteq Undoable
  /\ trigger \in Steps \cup {NoStep} /\ undoing \in Undoable \cup {NoStep}
  /\ tracker \in [Steps -> Over \cup {"idle", "running"}]
  /\ signals \subseteq Steps /\ buffer \subseteq Steps
  /\ task \in [Steps -> Reports \cup
                 {"none", "ready", "exec", "succeeded", "failed", "fanned"}]
  /\ attempt \in [Steps -> 1 .. MaxAttempts]
  /\ crashes \in 0 .. MaxCrashes /\ pauses \in 0 .. MaxPauses

\* start_workflow saved the run and spawned its driver.
Init ==
  /\ status = "running" /\ journal = [s \in Steps |-> "none"]
  /\ succeeded = {} /\ startedBy = [s \in Undoable |-> {}] /\ rolled = {} /\ output = {}
  /\ driver = "load" /\ pending = {}
  /\ trigger = NoStep /\ undo = {} /\ undoing = NoStep
  /\ tracker = [s \in Steps |-> "idle"] /\ signals = {} /\ buffer = {}
  /\ task = [s \in Steps |-> "none"] /\ attempt = [s \in Steps |-> 1]
  /\ crashes = 0 /\ pauses = 0

In(where) == {s \in Steps : tracker[s] = where}
\* get_dependent_indices of each of them.
Dependents(set) == {s \in Steps : AllDependencies(s) \cap set # {}}
Initial == {s \in Steps : AllDependencies(s) = {}}

-----------------------------------------------------------------------------
(* The driver: execute_workflow. *)

\* Mutant: only failed steps are taken from the journal.
RememberFailed == [s \in Steps |-> IF journal[s] = "failure" THEN "failed" ELSE "idle"]
\* What the journal knows of a step is not done again.
Remember ==
  [s \in Steps |-> IF journal[s] = "success" THEN "completed"
                   ELSE IF journal[s] = "failure" THEN "failed" ELSE "idle"]
Load ==
  /\ driver = "load"
  /\ tracker' = Remember
  /\ pending' = Initial \cup Dependents({s \in Steps : journal[s] # "none"})
  /\ signals' = {} /\ buffer' = {}
  /\ driver' = "top"
  /\ UNCHANGED <<row, trigger, undo, undoing, tasks, bounds>>

\* The top of the loop: is_cancelled, then should_stop.
Look ==
  /\ driver = "top"
  /\ driver' = IF status = "cancelled" THEN "off"
               ELSE IF status = "paused" THEN "drain" ELSE "poll"
  /\ UNCHANGED <<row, pending, trigger, undo, undoing, shared, tasks, bounds>>

\* Mutant: the driver does not wait for the steps in flight.
DrainedAtOnce == driver = "drain"
\* drain_running.
Drained == driver = "drain" /\ In("running") = {}
StopForPause ==
  /\ Drained
  /\ driver' = "off"
  /\ UNCHANGED <<row, pending, trigger, undo, undoing, shared, tasks, bounds>>

\* Phase 0: the completions in the channel.
Poll ==
  /\ driver = "poll"
  /\ pending' = pending \cup Dependents(signals)
  /\ signals' = {}
  /\ driver' = "plan"
  /\ UNCHANGED <<row, trigger, undo, undoing, tracker, buffer, tasks, bounds>>

Blocked(s) ==
  \/ \E d \in DependsOn[s] : tracker[d] = "failed"
  \/ DependsOnAny[s] # {} /\ \A d \in DependsOnAny[s] : tracker[d] = "failed"
Satisfied(d) == tracker[d] \in {"completed", "skipped"}
\* Mutant: one dependency is enough.
ReadyOnAny(s) ==
  AllDependencies(s) # {} => \E d \in AllDependencies(s) : Satisfied(d)
Ready(s) ==
  /\ \A d \in DependsOn[s] : Satisfied(d)
  /\ DependsOnAny[s] # {} => \E d \in DependsOnAny[s] : Satisfied(d)

Todo       == {s \in pending : tracker[s] = "idle"}
BlockedNow == {s \in Todo : Blocked(s)}
ReadyNow   == {s \in Todo : ~Blocked(s) /\ Ready(s)}

\* Phases 1 and 2: blocked steps are skipped, their dependents looked at in
\* the next round, and ready steps launched.
Mark ==
  /\ tracker' = [s \in Steps |-> IF s \in BlockedNow THEN "skipped"
                                 ELSE IF s \in ReadyNow THEN "running"
                                 ELSE tracker[s]]
  /\ task' = [s \in Steps |-> IF s \in ReadyNow THEN "ready" ELSE task[s]]
  /\ succeeded' = succeeded \ BlockedNow

\* Mutant: the channel is not looked at again before the run is given up.
GiveUpAtOnce ==
  driver' = "stuck" /\ pending' = {} /\ UNCHANGED signals
\* Nothing runs and nothing is ready: a completion may still be in the channel.
GiveUp ==
  IF signals # {}
  THEN driver' = "top" /\ pending' = Dependents(signals) /\ signals' = {}
  ELSE driver' = "stuck" /\ pending' = {} /\ UNCHANGED signals

Plan ==
  /\ driver = "plan"
  /\ Mark
  /\ IF \A s \in Steps : tracker[s] \in Over
     THEN driver' = "finish" /\ pending' = {} /\ UNCHANGED signals
     ELSE IF ReadyNow = {} /\ In("running") = {} /\ Dependents(BlockedNow) = {}
     THEN GiveUp
     ELSE /\ driver' = IF ReadyNow \cup In("running") # {} THEN "wait" ELSE "top"
          /\ pending' = Dependents(BlockedNow)
          /\ UNCHANGED signals
  /\ UNCHANGED <<status, journal, startedBy, rolled, output, trigger, undo,
                 undoing, buffer, attempt, bounds>>

\* rx.recv: one completion wakes the driver.
Receive ==
  /\ driver = "wait"
  /\ \E s \in signals :
       /\ signals' = signals \ {s}
       /\ pending' = pending \cup Dependents({s})
  /\ driver' = "top"
  /\ UNCHANGED <<row, trigger, undo, undoing, tracker, buffer, tasks, bounds>>

-----------------------------------------------------------------------------
(* The end of a run: completed, or finish_workflow_failed. *)

SettleAs(outcome) ==
  /\ status' = IF status \in Terminal THEN status ELSE outcome
  /\ driver' = "off"

Complete ==
  /\ driver = "finish" /\ In("failed") = {}
  /\ SettleAs("completed")
  /\ UNCHANGED <<journal, succeeded, startedBy, rolled, output, pending, trigger,
                 undo, undoing, shared, tasks, bounds>>

\* Succeeded steps and the trigger, but those an earlier phase has processed.
Eligible(t) == {s \in Undoable : s \in succeeded \/ s = t} \ rolled
BeginUndo ==
  /\ \/ driver = "finish" /\ In("failed") # {}
     \/ driver = "stuck"
  /\ \E t \in IF In("failed") # {} THEN In("failed") ELSE {NoStep} :
       trigger' = t /\ undo' = Eligible(t)
  /\ driver' = "undo"
  /\ UNCHANGED <<row, pending, undoing, shared, tasks, bounds>>

\* Mutant: the order of the definition, not of the starts.
NextToUndoAny(s) == s \in undo
\* The one that started last; a trigger that never started is the last one.
Started(s) == startedBy[s] # {}
NextToUndo(s) ==
  s \in undo /\ \A t \in undo : Started(t) => t \in startedBy[s]
\* The next step's handler runs, up to its last attempt: on the context the step left
\* in the journal, or, for the trigger, on the run's own.
Undo ==
  /\ driver = "undo" /\ undoing = NoStep
  /\ \E s \in Steps :
       /\ NextToUndo(s) /\ (journal[s] = "success" \/ s = trigger)
       /\ undoing' = s
  /\ UNCHANGED <<row, driver, pending, trigger, undo, shared, tasks, bounds>>
\* s is processed, in this rollback and in any later one.
Enter(s) ==
  /\ undo' = undo \ {s} /\ rolled' = rolled \cup {s} /\ undoing' = NoStep
  /\ UNCHANGED <<status, journal, succeeded, startedBy, output, driver, pending,
                 trigger, shared, tasks, bounds>>
\* Its result is journaled, whatever it is; ...
JournalUndo == undoing # NoStep /\ Enter(undoing)
\* ... a step that left no context is entered as failed, and its handler does not run.
PassOver ==
  /\ driver = "undo" /\ undoing = NoStep
  /\ \E s \in Steps :
       NextToUndo(s) /\ journal[s] # "success" /\ s # trigger /\ Enter(s)

Fail ==
  /\ driver = "undo" /\ undo = {}
  /\ SettleAs("failed")
  /\ UNCHANGED <<journal, succeeded, startedBy, rolled, output, pending, trigger,
                 undo, undoing, shared, tasks, bounds>>

-----------------------------------------------------------------------------
(* A step task: execute_step_with_retry and the task around it. *)

Becomes(s, phase) == task' = [task EXCEPT ![s] = phase]
\* s starts: it is now the last of those that have started.
StartsLast(s) ==
  [t \in Undoable |-> IF t # s THEN startedBy[t] \ {s}
                      ELSE {u \in Undoable : Started(u)} \cup {s}]

\* An attempt begins, unless the run is cancelled or paused.
Attempt(s) ==
  /\ task[s] = "ready" /\ s \notin Collect /\ status \notin {"cancelled", "paused"}
  /\ succeeded' = succeeded \ {s} /\ startedBy' = StartsLast(s)
  /\ Becomes(s, "exec")
  /\ UNCHANGED <<status, journal, rolled, output, drive, shared, attempt, bounds>>
NoAttempt(s) ==
  /\ task[s] = "ready" /\ s \notin Collect /\ status \in {"cancelled", "paused"}
  /\ Becomes(s, IF status = "cancelled" THEN "fail" ELSE "stopped")
  /\ UNCHANGED <<row, drive, shared, attempt, bounds>>

\* run_if is false, or the executor answers Skip; nothing is journaled.  The status
\* Skipped is written after the report, and whether it could be is not asked.
Skip(s) ==
  /\ s \in MaySkip
  /\ task[s] = "exec" \/ (task[s] = "ready" /\ attempt[s] = 1)
  /\ succeeded' \in {succeeded, succeeded \ {s}}
  /\ Becomes(s, "skip")
  /\ UNCHANGED <<status, journal, startedBy, rolled, output, drive, shared, attempt, bounds>>

\* The output of the step becomes the run's.
Succeed(s) ==
  /\ task[s] = "exec"
  /\ succeeded' = succeeded \cup {s} /\ output' = {s}
  /\ Becomes(s, "succeeded")
  /\ UNCHANGED <<status, journal, startedBy, rolled, drive, shared, attempt, bounds>>
JournalSuccess(s) ==
  /\ task[s] = "succeeded"
  /\ journal' = [journal EXCEPT ![s] = "success"]
  /\ Becomes(s, IF s \in FanOut THEN "fanned" ELSE "done")
  /\ UNCHANGED <<status, succeeded, startedBy, rolled, output, drive, shared, attempt, bounds>>
\* A fan-out step adds the run's output, loaded again, to the buffer.
Accumulate(s) ==
  /\ task[s] = "fanned"
  /\ buffer' = buffer \cup output
  /\ Becomes(s, "done")
  /\ UNCHANGED <<row, drive, tracker, signals, attempt, bounds>>

\* A failed attempt of a paused run was stopped by the pause; another is
\* retried, or final when it is not retryable or was the last one.
Stopped(s) ==
  /\ task[s] = "exec" /\ status = "paused"
  /\ Becomes(s, "stopped")
  /\ UNCHANGED <<row, drive, shared, attempt, bounds>>
\* Mutant: one attempt too many.
MayRetryOnceMore(s) == attempt[s] <= MaxAttempts
MayRetry(s) == attempt[s] < MaxAttempts
Retry(s) ==
  /\ task[s] = "exec" /\ status # "paused" /\ MayRetry(s)
  /\ Becomes(s, "ready")
  /\ attempt' = [attempt EXCEPT ![s] = @ + 1]
  /\ UNCHANGED <<row, drive, shared, bounds>>
FailStep(s) ==
  /\ task[s] = "exec" /\ status # "paused"
  /\ Becomes(s, "failed")
  /\ UNCHANGED <<row, drive, shared, attempt, bounds>>
JournalFailure(s) ==
  /\ task[s] = "failed"
  /\ journal' = [journal EXCEPT ![s] = "failure"]
  /\ Becomes(s, IF s \in SkipOnError THEN "skip" ELSE "fail")
  /\ UNCHANGED <<status, succeeded, startedBy, rolled, output, drive, shared, attempt, bounds>>

\* Collect joins the buffer and empties it; it is not journaled.
CollectOutputs(s) ==
  /\ task[s] = "ready" /\ s \in Collect
  /\ output' = buffer /\ buffer' = {}
  /\ succeeded' = succeeded \cup {s}
  /\ Becomes(s, "done")
  /\ UNCHANGED <<status, journal, startedBy, rolled, drive, tracker, signals, attempt, bounds>>

\* Mutant: every failure is tolerated.
OutcomeTolerant ==
  [done |-> "completed", skip |-> "skipped", fail |-> "skipped", stopped |-> "idle"]
\* A stopped step is neither done nor failed.
Outcome ==
  [done |-> "completed", skip |-> "skipped", fail |-> "failed", stopped |-> "idle"]
\* Mutant: a skipped step does not tell the driver.
SignalUnlessSkipped(s) ==
  signals' = IF task[s] = "skip" THEN signals ELSE signals \cup {s}
Signal(s) == signals' = signals \cup {s}
\* The end of the task, under the tracker's lock.
Report(s) ==
  /\ task[s] \in Reports
  /\ tracker' = [tracker EXCEPT ![s] = Outcome[task[s]]]
  /\ Signal(s)
  /\ Becomes(s, "none")
  /\ attempt' = [attempt EXCEPT ![s] = 1]
  /\ UNCHANGED <<row, drive, buffer, bounds>>

-----------------------------------------------------------------------------
(* Pause, resume, cancel; crash and recovery. *)

Pause ==
  /\ status = "running" /\ pauses < MaxPauses
  /\ status' = "paused" /\ pauses' = pauses + 1
  /\ UNCHANGED <<journal, succeeded, startedBy, rolled, output, drive, shared, tasks, crashes>>
\* resume_workflow is refused while the paused driver still runs.
Resume ==
  /\ status = "paused" /\ driver = "off"
  /\ status' = "running" /\ driver' = "load"
  /\ UNCHANGED <<journal, succeeded, startedBy, rolled, output, pending, trigger, undo,
                 undoing, shared, tasks, bounds>>
Cancel ==
  /\ status \notin Terminal
  /\ status' = "cancelled"
  /\ UNCHANGED <<journal, succeeded, startedBy, rolled, output, drive, shared, tasks, bounds>>

\* Only the row and the journal are left (of an ended run nothing more is told).
Crash ==
  /\ crashes < MaxCrashes /\ status \notin Terminal
  /\ crashes' = crashes + 1
  /\ driver' = "off" /\ pending' = {}
  /\ trigger' = NoStep /\ undo' = {} /\ undoing' = NoStep
  /\ tracker' = [s \in Steps |-> "idle"] /\ signals' = {} /\ buffer' = {}
  /\ task' = [s \in Steps |-> "none"] /\ attempt' = [s \in Steps |-> 1]
  /\ UNCHANGED <<row, pauses>>
Recover ==
  /\ driver = "off" /\ status = "running"
  /\ driver' = "load"
  /\ UNCHANGED <<row, pending, trigger, undo, undoing, shared, tasks, bounds>>

Driver ==
  \/ Load \/ Look \/ StopForPause \/ Poll \/ Plan \/ Receive
  \/ Complete \/ BeginUndo \/ Undo \/ JournalUndo \/ PassOver \/ Fail
StepTask(s) ==
  \/ Attempt(s) \/ NoAttempt(s) \/ Skip(s) \/ Succeed(s) \/ JournalSuccess(s)
  \/ Accumulate(s) \/ Stopped(s) \/ Retry(s) \/ FailStep(s) \/ JournalFailure(s)
  \/ CollectOutputs(s) \/ Report(s)
Next ==
  \/ Driver \/ \E s \in Steps : StepTask(s)
  \/ Pause \/ Resume \/ Cancel \/ Crash \/ Recover

Spec == Init /\ [][Next]_vars

-----------------------------------------------------------------------------
(* Correctness. *)

\* "A step with a completed entry is never re-executed" (README.md): no
\* crash, resume or recovery starts an attempt of a journaled step.
NeverReexecuted ==
  [][\A s \in Steps :
       task[s] # "exec" /\ task'[s] = "exec" => journal[s] = "none"]_vars

\* drain_running: a run that may be resumed or recovered has no step in flight,
\* so none is executed twice at a time.
QuietWhenUndriven ==
  driver = "off" /\ status \notin Terminal => \A s \in Steps : task[s] = "none"

\* A run completes only when every step that may not be skipped has succeeded,
\* in whichever of its lives.
CompletedInFull ==
  status = "completed" =>
    \A s \in Steps \ (MaySkip \cup SkipOnError \cup Collect) : journal[s] = "success"

\* run_rollback_phase resumes "from whatever Rollback entries already exist":
\* when a run has failed, every journaled success was handed to its handler.
AllUndone ==
  status = "failed" => \A s \in Undoable : journal[s] = "success" => s \in rolled

\* No handler runs before the steps that were built on its step are processed, crash or
\* not.  (A step that was skipped may run again after them, and is then undone first.)
Handed == rolled \cup ({undoing} \ {NoStep})
UndoneInReverse ==
  [][\A s \in (Handed' \ Handed) \ MaySkip : \A d \in Undoable :
       s \in DependsOn[d] /\ (d \in succeeded \/ (d = trigger /\ journal[d] = "failure"))
         => d \in rolled]_vars

\* A run fails because a step failed that the workflow does not tolerate: not
\* by a pause, nor by a step in error mode Skip.
FailsForCause ==
  status = "failed" => \E s \in Steps \ SkipOnError : journal[s] = "failure"

\* The driver takes no run for deadlocked while a completion is on its way: a
\* run that was never paused fails only after one of its steps has.
NoFalseDeadlock ==
  status = "failed" /\ pauses = 0 => \E s \in Steps : journal[s] = "failure"

\* Collect joins the outputs of the fan-out steps before it that succeeded.
CollectJoinsGroup ==
  [][\A c \in Collect :
       task[c] = "ready" /\ task'[c] = "done" =>
         output' = {s \in DependsOn[c] \cap FanOut : journal[s] = "success"}]_vars

\* What all of it is for: the driver, the tracker, the channel and the tasks, and
\* whatever of them a crash forgets, implement a run that is its row and its journal.
Life == INSTANCE RunLife WITH
  working <- {s \in Steps : task[s] \in {"exec", "succeeded", "failed"}},
  handing <- {undoing} \ {NoStep}
ImplementsLife == Life!Spec

\* Tokio runs the driver and the tasks, a step ends by its timeout, and boot
\* recovers the run after a crash.
Fairness ==
  /\ WF_vars(Driver) /\ WF_vars(Recover)
  /\ \A s \in Steps : WF_vars(StepTask(s))
FairSpec == Spec /\ Fairness

\* A run that is neither paused nor cancelled settles: no completion is lost
\* that the driver waits for.
Settles == status = "running" ~> status # "running"
=============================================================================
