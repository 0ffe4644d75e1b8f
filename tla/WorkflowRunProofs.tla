-------------------------- MODULE WorkflowRunProofs --------------------------
(***************************************************************************)
(* Proofs about WorkflowRun, for every step graph, retry policy, number of *)
(* crashes and of pauses: a journaled step is never executed again, an     *)
(* undriven run is quiet, a completed run is complete and a failed one was *)
(* undone; and, for graphs without a cycle, the driver never takes a run   *)
(* for deadlocked, and a rollback compensates a step after the steps that  *)
(* were built on it.                                                       *)
(***************************************************************************)
EXTENDS WorkflowRun, TLAPS

\* A driver that has read the journal and not yet left the loop.
AtWork == driver \notin {"off", "load"}

\* The task of a step is in flight exactly while the tracker says so.
TasksTracked ==
  /\ AtWork => \A s \in Steps : task[s] # "none" <=> tracker[s] = "running"
  /\ driver = "load" => \A s \in Steps : task[s] = "none"

\* Steps the tracker would launch, and steps at work, are not in the journal.
NotYet == {"ready", "exec", "succeeded", "failed", "stopped"}
Unjournaled ==
  /\ AtWork => \A s \in Steps : tracker[s] = "idle" => journal[s] = "none"
  /\ \A s \in Steps : task[s] \in NotYet => journal[s] = "none"

\* What the tracker says of a step, and what its task is about to say, is true.
Tolerated(s) == s \in MaySkip \cup SkipOnError
Truthful ==
  /\ AtWork => \A s \in Steps \ Collect : tracker[s] = "completed" => journal[s] = "success"
  /\ AtWork => \A s \in Steps : tracker[s] = "skipped" => Tolerated(s) \/ In("failed") # {}
  /\ \A s \in Steps \ Collect : task[s] \in {"fanned", "done"} => journal[s] = "success"
  /\ \A s \in Steps : task[s] = "skip" => Tolerated(s)
  /\ \A s \in Steps : task[s] = "fanned" => s \notin Collect

\* The end: nothing is in flight when the driver leaves the loop, nor after
\* the run has settled by itself.
AtTheEnd ==
  /\ driver = "finish" => \A s \in Steps : tracker[s] \in Over
  /\ driver \in {"finish", "stuck", "undo"} => \A s \in Steps : task[s] = "none"
  /\ status \in {"completed", "failed"} =>
       driver = "off" /\ \A s \in Steps : task[s] = "none"

\* Every journaled success is recorded where the rollback looks for it, and the
\* rollback has it on its list, as it has the step whose handler has run.
Recorded ==
  /\ undoing # NoStep => driver = "undo" /\ undoing \in undo
  /\ \A s \in Steps : task[s] = "succeeded" => s \in succeeded
  /\ \A s \in Steps : journal[s] = "success" => s \in succeeded
  /\ driver = "undo" =>
       \A s \in Undoable : journal[s] = "success" => s \in rolled \cup undo

IInv ==
  /\ TypeOK
  /\ TasksTracked /\ Unjournaled /\ Truthful /\ AtTheEnd /\ Recorded
  /\ QuietWhenUndriven /\ CompletedInFull /\ AllUndone

-----------------------------------------------------------------------------
(* The invariant is kept by each action. *)

\* The driver's actions but Plan, which launches and skips steps.
LEMMA DriverKeeps ==
  ASSUME IInv,
         Load \/ Look \/ StopForPause \/ Poll \/ Receive
           \/ Complete \/ BeginUndo \/ Undo \/ JournalUndo \/ PassOver \/ Fail
  PROVE  IInv'
  <1> USE BoundAssumption
      DEF IInv, TypeOK, TasksTracked, Unjournaled, Truthful, AtTheEnd, Recorded,
          QuietWhenUndriven, CompletedInFull, AllUndone, AtWork, NotYet, Tolerated,
          In, Terminal, Over, Reports, row, drive, shared, tasks, bounds
  <1>1. CASE Load
    BY <1>1 DEF Load, Remember, Initial, Dependents
  <1>2. CASE Look
    BY <1>2 DEF Look
  <1>3. CASE StopForPause
    BY <1>3 DEF StopForPause, Drained
  <1>4. CASE Poll
    BY <1>4 DEF Poll, Dependents
  <1>5. CASE Receive
    BY <1>5 DEF Receive, Dependents
  <1>6. CASE Complete
    BY <1>6 DEF Complete, SettleAs
  <1>7. CASE BeginUndo
    <2>1. PICK t \in Steps \cup {NoStep} : trigger' = t /\ undo' = Eligible(t)
      BY <1>7 DEF BeginUndo
    <2>2. undo' \subseteq Undoable
          /\ \A s \in Undoable : s \in succeeded => s \in rolled \cup undo'
      BY <2>1 DEF Eligible
    <2>3. Undoable \subseteq Steps
      BY DefinitionAssumption
    <2>4. TypeOK'
      BY <1>7, <2>1, <2>2, <2>3 DEF BeginUndo
    <2>5. Recorded'
      BY <1>7, <2>2, <2>3 DEF BeginUndo
    <2>6. AtTheEnd'
      BY <1>7 DEF BeginUndo
    <2> QED BY <1>7, <2>4, <2>5, <2>6 DEF BeginUndo
  <1>8. CASE Undo
    BY <1>8 DEF Undo, NextToUndo
  <1>9. CASE JournalUndo
    <2>1. Undoable \subseteq Steps
      BY DefinitionAssumption
    <2> QED BY <1>9, <2>1 DEF JournalUndo, Enter
  <1>10. CASE PassOver
    BY <1>10 DEF PassOver, Enter, NextToUndo
  <1>11. CASE Fail
    BY <1>11 DEF Fail, SettleAs
  <1> QED BY <1>1, <1>2, <1>3, <1>4, <1>5, <1>6, <1>7, <1>8, <1>9, <1>10, <1>11

\* What Plan does to the run's row: a step it skips was not in the journal.
LEMMA PlanKeeps == ASSUME IInv, Plan PROVE IInv'
  <1> USE BoundAssumption
      DEF IInv, TypeOK, AtWork, In, Terminal, Over, Reports, row, drive, shared,
          tasks, bounds
  <1>1. BlockedNow \subseteq In("idle") /\ ReadyNow \subseteq In("idle")
        /\ BlockedNow \cap ReadyNow = {}
    BY DEF BlockedNow, ReadyNow, Todo
  <1>2. driver = "plan" /\ driver' \in {"finish", "top", "wait", "stuck"}
    BY DEF Plan, GiveUp
  <1>3. TypeOK'
    BY <1>1, <1>2 DEF Plan, Mark, GiveUp, Dependents
  <1>4. TasksTracked'
    BY <1>1, <1>2 DEF Plan, Mark, TasksTracked
  <1>5. Unjournaled'
    BY <1>1, <1>2 DEF Plan, Mark, Unjournaled, NotYet
  <1>6. Truthful'
    <2>0. \A s \in Steps : DependsOn[s] \subseteq Steps /\ DependsOnAny[s] \subseteq Steps
      BY DefinitionAssumption
    <2>1. ASSUME NEW s \in BlockedNow PROVE In("failed") # {}
      BY <2>0, <2>1 DEF BlockedNow, Todo, Blocked
    <2>2. In("failed") \subseteq In("failed")'
      BY <1>1 DEF Plan, Mark
    <2> QED BY <1>1, <1>2, <2>1, <2>2 DEF Plan, Mark, Truthful, Tolerated
  <1>7. AtTheEnd'
    BY <1>1, <1>2 DEF Plan, Mark, GiveUp, AtTheEnd, TasksTracked
  <1>8. Recorded'
    BY <1>1, <1>2 DEF Plan, Mark, Recorded, Unjournaled, TasksTracked
  <1>9. QuietWhenUndriven' /\ CompletedInFull' /\ AllUndone'
    BY <1>1, <1>2 DEF Plan, AtTheEnd, QuietWhenUndriven, CompletedInFull, AllUndone
  <1> QED BY <1>3, <1>4, <1>5, <1>6, <1>7, <1>8, <1>9

\* The actions of a step's task.
LEMMA TaskKeeps ==
  ASSUME IInv, NEW s \in Steps, StepTask(s)
  PROVE  IInv'
  <1> USE BoundAssumption
      DEF IInv, TypeOK, TasksTracked, Unjournaled, Truthful, AtTheEnd, Recorded,
          QuietWhenUndriven, CompletedInFull, AllUndone, AtWork, NotYet, Tolerated,
          In, Terminal, Over, Reports, row, drive, shared, tasks, bounds, Becomes
  <1>1. CASE Attempt(s)
    BY <1>1 DEF Attempt, StartsLast, Started
  <1>2. CASE NoAttempt(s)
    BY <1>2 DEF NoAttempt
  <1>3. CASE Skip(s)
    BY <1>3 DEF Skip
  <1>4. CASE Succeed(s)
    BY <1>4 DEF Succeed
  <1>5. CASE JournalSuccess(s)
    <2>1. FanOut \cap Collect = {}
      BY DefinitionAssumption
    <2> QED BY <1>5, <2>1 DEF JournalSuccess
  <1>6. CASE Accumulate(s)
    BY <1>6 DEF Accumulate
  <1>7. CASE Stopped(s)
    BY <1>7 DEF Stopped
  <1>8. CASE Retry(s)
    BY <1>8 DEF Retry, MayRetry
  <1>9. CASE FailStep(s)
    BY <1>9 DEF FailStep
  <1>10. CASE JournalFailure(s)
    BY <1>10 DEF JournalFailure
  <1>11. CASE CollectOutputs(s)
    BY <1>11 DEF CollectOutputs
  <1>12. CASE Report(s)
    BY <1>12 DEF Report, Outcome, Signal
  <1> QED BY <1>1, <1>2, <1>3, <1>4, <1>5, <1>6, <1>7, <1>8, <1>9, <1>10, <1>11, <1>12 DEF StepTask

\* Pause, resume, cancel; crash and recovery.
LEMMA OutsideKeeps ==
  ASSUME IInv, Pause \/ Resume \/ Cancel \/ Crash \/ Recover
  PROVE  IInv'
  <1> USE BoundAssumption
      DEF IInv, TypeOK, TasksTracked, Unjournaled, Truthful, AtTheEnd, Recorded,
          QuietWhenUndriven, CompletedInFull, AllUndone, AtWork, NotYet, Tolerated,
          In, Terminal, Over, Reports, row, drive, shared, tasks, bounds
  <1>1. CASE Pause
    BY <1>1 DEF Pause
  <1>2. CASE Resume
    BY <1>2 DEF Resume
  <1>3. CASE Cancel
    BY <1>3 DEF Cancel
  <1>4. CASE Crash
    BY <1>4 DEF Crash
  <1>5. CASE Recover
    BY <1>5 DEF Recover
  <1> QED BY <1>1, <1>2, <1>3, <1>4, <1>5

-----------------------------------------------------------------------------
(* The theorems. *)

\* The invariant holds at first, and is kept by a stuttering step.
LEMMA InitIsGood == Init => IInv
  BY BoundAssumption
     DEF Init, IInv, TypeOK, TasksTracked, Unjournaled, Truthful, AtTheEnd, Recorded,
         QuietWhenUndriven, CompletedInFull, AllUndone, AtWork, NotYet, Terminal,
         Over, Reports

LEMMA StutterIsGood == IInv /\ UNCHANGED vars => IInv'
  BY DEF vars, row, drive, shared, tasks, bounds, IInv, TypeOK, TasksTracked,
         Unjournaled, Truthful, AtTheEnd, Recorded, QuietWhenUndriven, CompletedInFull,
         AllUndone, AtWork, In, Tolerated

\* In whatever state the engine is, the journal, the tracker and the tasks agree.
THEOREM Inductive == Spec => []IInv
  <1>1. IInv /\ [Next]_vars => IInv'
    <2> SUFFICES ASSUME IInv, [Next]_vars PROVE IInv'
      OBVIOUS
    <2>1. CASE Driver
      BY <2>1, DriverKeeps, PlanKeeps DEF Driver
    <2>2. CASE \E s \in Steps : StepTask(s)
      BY <2>2, TaskKeeps
    <2>3. CASE Pause \/ Resume \/ Cancel \/ Crash \/ Recover
      BY <2>3, OutsideKeeps
    <2>4. CASE UNCHANGED vars
      BY <2>4, StutterIsGood
    <2> QED BY <2>1, <2>2, <2>3, <2>4 DEF Next
  <1> QED BY InitIsGood, <1>1, PTL DEF Spec

\* Every variable has its type.
THEOREM TypesHold == Spec => []TypeOK
  BY Inductive, PTL DEF IInv

\* A run that may be resumed or recovered has no step in flight.
THEOREM UndrivenIsQuiet == Spec => []QuietWhenUndriven
  BY Inductive, PTL DEF IInv

\* A completed run has done every step it may not skip, whatever crashed.
THEOREM CompletedRunsAreComplete == Spec => []CompletedInFull
  BY Inductive, PTL DEF IInv

\* A failed run has handed every journaled success to its rollback handler.
THEOREM FailedRunsAreUndone == Spec => []AllUndone
  BY Inductive, PTL DEF IInv

\* A journaled step is never executed again: an attempt begins at a task that
\* is ready, and those are not in the journal.
THEOREM JournaledStepsStay == Spec => NeverReexecuted
  <1>1. ASSUME IInv, [Next]_vars, NEW s \in Steps, task[s] # "exec", task'[s] = "exec"
        PROVE  journal[s] = "none"
    <2> USE DEF IInv, TypeOK
    <2>1. CASE Driver
      BY <1>1, <2>1 DEF Driver, Load, Look, StopForPause, Poll, Plan, Mark, Receive,
           Complete, BeginUndo, Undo, JournalUndo, PassOver, Enter, Fail, tasks
    <2>2. ASSUME NEW t \in Steps, StepTask(t) PROVE journal[s] = "none"
      BY <1>1, <2>2 DEF StepTask, Attempt, NoAttempt, Skip, Succeed, JournalSuccess,
           Accumulate, Stopped, Retry, FailStep, JournalFailure, CollectOutputs, Report,
           Becomes, Unjournaled, NotYet
    <2>3. CASE Pause \/ Resume \/ Cancel \/ Crash \/ Recover
      BY <1>1, <2>3 DEF Pause, Resume, Cancel, Crash, Recover, tasks
    <2>4. CASE UNCHANGED vars
      BY <1>1, <2>4 DEF vars, tasks
    <2> QED BY <1>1, <2>1, <2>2, <2>3, <2>4 DEF Next
  <1>2. IInv /\ [Next]_vars =>
          [\A s \in Steps :
             task[s] # "exec" /\ task'[s] = "exec" => journal[s] = "none"]_vars
    BY <1>1
  <1> QED BY <1>2, Inductive, PTL DEF Spec, NeverReexecuted

-----------------------------------------------------------------------------
(* A run that was never paused is given up only after a step has failed.   *)

\* Before the first pause no step is stopped and no driver drains.
Unpaused ==
  pauses = 0 => /\ status # "paused" /\ driver # "drain"
                /\ \A s \in Steps : task[s] # "stopped"

\* What the tracker calls failed is in the journal, or the run was cancelled.
FailuresKnown ==
  \A s \in Steps :
    (AtWork /\ tracker[s] = "failed") \/ task[s] = "fail"
      => journal[s] = "failure" \/ status = "cancelled"

\* An idle step that the driver will not look at in this round has a
\* dependency that is on its way: in the channel, at work, or idle itself.
Open(d) == tracker[d] \in {"idle", "running"}
Watched ==
  pauses = 0 /\ driver \in {"top", "poll", "plan", "wait"} =>
    \A s \in In("idle") \ pending :
      \E d \in AllDependencies(s) : d \in signals \/ Open(d)

\* A driver that gives the run up, or compensates it, has a cause to.
Cause == status = "cancelled" \/ \E s \in Steps : journal[s] = "failure"
GivenUp == pauses = 0 /\ driver \in {"stuck", "undo"} => Cause

DInv == IInv /\ Unpaused /\ FailuresKnown /\ Watched /\ GivenUp /\ NoFalseDeadlock

\* The dependencies of a step are steps.
LEMMA DependenciesAreSteps ==
  \A s \in Steps : /\ DependsOn[s] \subseteq Steps /\ DependsOnAny[s] \subseteq Steps
                   /\ AllDependencies(s) \subseteq Steps
  BY DefinitionAssumption DEF AllDependencies

\* What Plan leaves idle of the steps it looks at waits for an open dependency.
LEMMA WaitsForOpen ==
  ASSUME TypeOK, NEW s \in Todo, s \notin BlockedNow, s \notin ReadyNow
  PROVE  \E d \in AllDependencies(s) : Open(d)
  <1>1. s \in Steps /\ ~Blocked(s) /\ ~Ready(s)
    BY DEF TypeOK, Todo, BlockedNow, ReadyNow
  <1>2. \A d \in Steps : Open(d) \/ tracker[d] = "failed" \/ Satisfied(d)
    BY DEF TypeOK, Over, Open, Satisfied
  <1>3. CASE \E d \in DependsOn[s] : ~Satisfied(d)
    BY <1>1, <1>2, <1>3, DependenciesAreSteps DEF Blocked, AllDependencies
  <1>4. CASE DependsOnAny[s] # {} /\ \A d \in DependsOnAny[s] : ~Satisfied(d)
    BY <1>1, <1>2, <1>4, DependenciesAreSteps DEF Blocked, AllDependencies
  <1> QED BY <1>1, <1>3, <1>4 DEF Ready

\* A round that launches nothing, waits for nothing and leaves the channel
\* empty has seen a failure: otherwise an idle step with no idle dependency,
\* which the graph has, would have been ready.
LEMMA StuckByFailure ==
  ASSUME DInv, Plan, pauses = 0, driver' = "stuck"
  PROVE  In("failed") # {}
  <1> SUFFICES ASSUME In("failed") = {} PROVE FALSE
    OBVIOUS
  <1>1. /\ driver = "plan" /\ signals = {} /\ ReadyNow = {} /\ In("running") = {}
        /\ ~ \A s \in Steps : tracker[s] \in Over
    BY DEF Plan, GiveUp
  <1>2. TypeOK /\ Watched
    BY DEF DInv, IInv
  <1>3. BlockedNow = {}
    BY <1>2, DependenciesAreSteps DEF TypeOK, BlockedNow, Todo, Blocked, In
  <1>4. In("idle") \in (SUBSET Steps) \ {{}}
    BY <1>1, <1>2 DEF TypeOK, In
  <1>5. PICK s \in In("idle") : AllDependencies(s) \cap In("idle") = {}
    BY <1>4, DefinitionAssumption
  <1>6. s \in Steps /\ tracker[s] = "idle"
    BY <1>5 DEF In
  <1>7. \A d \in AllDependencies(s) : ~Open(d)
    BY <1>1, <1>5, <1>6, DependenciesAreSteps DEF Open, In
  <1>8. CASE s \in pending
    BY <1>1, <1>2, <1>3, <1>6, <1>7, <1>8, WaitsForOpen DEF Todo
  <1>9. CASE s \notin pending
    BY <1>1, <1>2, <1>5, <1>7, <1>9 DEF Watched
  <1> QED BY <1>8, <1>9

\* Plan puts a step it leaves idle on the list of the next round, or leaves it
\* to an open dependency.
LEMMA PlanWatches == ASSUME DInv, Plan, pauses = 0 PROVE Watched'
  <1>1. TypeOK /\ Watched /\ driver = "plan" /\ Mark
    BY DEF DInv, IInv, Plan
  <1> SUFFICES ASSUME NEW s \in Steps, tracker'[s] = "idle", s \notin pending',
                      driver' \in {"top", "wait"}
               PROVE  \E d \in AllDependencies(s) : d \in signals' \/ Open(d)'
    BY <1>1 DEF Watched, In, Plan, GiveUp
  <1>2. tracker[s] = "idle" /\ s \notin BlockedNow /\ s \notin ReadyNow
    BY <1>1 DEF Mark, TypeOK
  <1>3. \/ pending' = Dependents(BlockedNow) /\ signals' = signals
        \/ pending' = Dependents(signals) /\ Dependents(BlockedNow) = {}
    BY <1>2 DEF Plan, GiveUp
  <1>4. \A d \in AllDependencies(s) : d \notin BlockedNow
    BY <1>3 DEF Dependents
  <1>5. \A d \in AllDependencies(s) : Open(d) => Open(d)'
    BY <1>1, <1>4, DependenciesAreSteps DEF Mark, Open, TypeOK
  <1>6. CASE s \in pending
    BY <1>1, <1>2, <1>5, <1>6, WaitsForOpen DEF Todo
  <1>7. CASE s \notin pending
    <2>1. PICK d \in AllDependencies(s) : d \in signals \/ Open(d)
      BY <1>1, <1>2, <1>7 DEF Watched, In
    <2> QED BY <1>3, <1>5, <2>1 DEF Dependents
  <1> QED BY <1>6, <1>7

LEMMA PlanKeepsDInv == ASSUME DInv, Plan PROVE DInv'
  <1>1. IInv' /\ driver = "plan"
    BY PlanKeeps DEF DInv, Plan
  <1>2. ReadyNow \subseteq In("idle") /\ BlockedNow \subseteq In("idle")
    BY DEF DInv, IInv, TypeOK, ReadyNow, BlockedNow, Todo, In
  <1>3. Unpaused'
    BY <1>1, <1>2 DEF DInv, IInv, TypeOK, Unpaused, Plan, Mark, GiveUp, bounds
  <1>4. FailuresKnown'
    BY <1>1, <1>2 DEF DInv, IInv, TypeOK, FailuresKnown, AtWork, Plan, Mark
  <1>5. Watched'
    BY PlanWatches DEF Watched, Plan, bounds
  <1>6. GivenUp'
    <2> SUFFICES ASSUME pauses = 0, driver' \in {"stuck", "undo"} PROVE Cause'
      BY DEF GivenUp, Plan, bounds
    <2>1. driver' = "stuck"
      BY DEF Plan, GiveUp
    <2>2. PICK s \in Steps : tracker[s] = "failed"
      BY <2>1, StuckByFailure DEF In
    <2> QED BY <1>1, <2>2 DEF DInv, FailuresKnown, AtWork, Cause, Plan
  <1>7. NoFalseDeadlock'
    BY DEF DInv, NoFalseDeadlock, Plan, bounds
  <1> QED BY <1>1, <1>3, <1>4, <1>5, <1>6, <1>7 DEF DInv
LEMMA DriverKeepsDInv ==
  ASSUME DInv,
         Load \/ Look \/ StopForPause \/ Poll \/ Receive
           \/ Complete \/ BeginUndo \/ Undo \/ JournalUndo \/ PassOver \/ Fail
  PROVE  DInv'
  <1>1. IInv'
    BY DriverKeeps DEF DInv
  <1> USE DEF DInv, IInv, TypeOK, Unpaused, FailuresKnown, GivenUp, Cause, NoFalseDeadlock,
              AtWork, Terminal, row, shared, tasks, bounds
  <1>2. CASE Load
    <2>1. Watched'
      <3> SUFFICES ASSUME NEW s \in Steps, tracker'[s] = "idle", s \notin pending'
                   PROVE  \E d \in AllDependencies(s) : Open(d)'
        BY DEF Watched, In
      <3>1. AllDependencies(s) # {}
        BY <1>2 DEF Load, Initial
      <3>2. \A d \in AllDependencies(s) : journal[d] = "none"
        BY <1>2, DependenciesAreSteps DEF Load, Dependents
      <3> QED BY <1>2, <3>1, <3>2, DependenciesAreSteps DEF Load, Remember, Open
    <2> QED BY <1>1, <1>2, <2>1 DEF Load, Remember
  <1>3. CASE Look
    BY <1>1, <1>3, DependenciesAreSteps DEF Look, Watched, Open, In
  <1>4. CASE StopForPause
    BY <1>1, <1>4 DEF StopForPause, Drained, Watched
  <1>5. CASE Poll
    <2>1. Watched'
      BY <1>5, DependenciesAreSteps DEF Poll, Watched, Open, In, Dependents
    <2> QED BY <1>1, <1>5, <2>1 DEF Poll
  <1>6. CASE Receive
    <2>1. Watched'
      BY <1>6, DependenciesAreSteps DEF Receive, Watched, Open, In, Dependents
    <2> QED BY <1>1, <1>6, <2>1 DEF Receive
  <1>7. CASE Complete
    BY <1>1, <1>7 DEF Complete, SettleAs, Watched
  <1>8. CASE BeginUndo
    BY <1>1, <1>8 DEF BeginUndo, Watched, In
  <1>9. CASE Undo \/ JournalUndo \/ PassOver
    BY <1>1, <1>9 DEF Undo, JournalUndo, PassOver, Enter, Recorded, Watched
  <1>10. CASE Fail
    BY <1>1, <1>10 DEF Fail, SettleAs, Watched
  <1> QED BY <1>2, <1>3, <1>4, <1>5, <1>6, <1>7, <1>8, <1>9, <1>10

\* A task leaves the tracker alone until it reports; then the driver hears of it.
LEMMA TaskKeepsDInv ==
  ASSUME DInv, NEW s \in Steps, StepTask(s)
  PROVE  DInv'
  <1>1. IInv'
    BY TaskKeeps DEF DInv
  <1> USE DEF DInv, IInv, TypeOK, Unpaused, FailuresKnown, GivenUp, Cause, NoFalseDeadlock,
              AtWork, Terminal, row, drive, shared, tasks, bounds, Becomes
  <1>2. CASE Report(s)
    <2>1. ASSUME pauses = 0 PROVE tracker'[s] # "idle" /\ s \in signals'
      BY <1>2, <2>1 DEF Report, Signal, Outcome, Reports
    <2>2. Watched'
      BY <1>2, <2>1, DependenciesAreSteps DEF Report, Signal, Watched, Open, In
    <2>3. FailuresKnown'
      BY <1>2 DEF Report, Outcome, Reports
    <2> QED BY <1>1, <1>2, <2>2, <2>3 DEF Report
  <1>3. CASE ~Report(s)
    <2>1. UNCHANGED <<tracker, signals, pending, driver, pauses, status>>
      BY <1>3 DEF StepTask, Attempt, NoAttempt, Skip, Succeed, JournalSuccess, Accumulate,
           Stopped, Retry, FailStep, JournalFailure, CollectOutputs
    <2>2. Watched'
      BY <2>1, DependenciesAreSteps DEF Watched, Open, In
    <2>3. \A t \in Steps : journal[t] = "failure" => journal'[t] = "failure"
      BY <1>3 DEF StepTask, Attempt, NoAttempt, Skip, Succeed, JournalSuccess, Accumulate,
           Stopped, Retry, FailStep, JournalFailure, CollectOutputs, Unjournaled, NotYet
    <2>4. Unpaused'
      BY <1>3, <2>1 DEF StepTask, Attempt, NoAttempt, Skip, Succeed, JournalSuccess,
           Accumulate, Stopped, Retry, FailStep, JournalFailure, CollectOutputs
    <2>5. \A t \in Steps : task'[t] = "fail" =>
            task[t] = "fail" \/ journal'[t] = "failure" \/ status = "cancelled"
      BY <1>3 DEF StepTask, Attempt, NoAttempt, Skip, Succeed, JournalSuccess, Accumulate,
           Stopped, Retry, FailStep, JournalFailure, CollectOutputs
    <2> QED BY <1>1, <2>1, <2>2, <2>3, <2>4, <2>5
  <1> QED BY <1>2, <1>3

LEMMA OutsideKeepsDInv ==
  ASSUME DInv, Pause \/ Resume \/ Cancel \/ Crash \/ Recover
  PROVE  DInv'
  <1>1. IInv'
    BY OutsideKeeps DEF DInv
  <1> USE BoundAssumption
      DEF DInv, IInv, TypeOK, Unpaused, FailuresKnown, GivenUp, Cause, NoFalseDeadlock,
          AtWork, Terminal, row, drive, shared, tasks, bounds
  <1>2. CASE Pause
    BY <1>1, <1>2 DEF Pause, Watched
  <1>3. CASE Resume
    BY <1>1, <1>3 DEF Resume, Watched
  <1>4. CASE Cancel
    BY <1>1, <1>4, DependenciesAreSteps DEF Cancel, Watched, Open, In
  <1>5. CASE Crash
    BY <1>1, <1>5 DEF Crash, Watched
  <1>6. CASE Recover
    BY <1>1, <1>6 DEF Recover, Watched
  <1> QED BY <1>2, <1>3, <1>4, <1>5, <1>6

LEMMA DInvSteps == DInv /\ [Next]_vars => DInv'
  <1> SUFFICES ASSUME DInv, [Next]_vars PROVE DInv'
    OBVIOUS
  <1>1. CASE Driver
    BY <1>1, DriverKeepsDInv, PlanKeepsDInv DEF Driver
  <1>2. CASE \E s \in Steps : StepTask(s)
    BY <1>2, TaskKeepsDInv
  <1>3. CASE Pause \/ Resume \/ Cancel \/ Crash \/ Recover
    BY <1>3, OutsideKeepsDInv
  <1>4. CASE UNCHANGED vars
    <2>1. IInv'
      BY <1>4, StutterIsGood DEF DInv
    <2> QED BY <1>4, <2>1, DependenciesAreSteps
           DEF vars, row, drive, shared, tasks, bounds, DInv, Unpaused, FailuresKnown,
               Watched, GivenUp, Cause, NoFalseDeadlock, AtWork, In, Open
  <1> QED BY <1>1, <1>2, <1>3, <1>4 DEF Next

LEMMA DInvHolds == Spec => []DInv
  <1>1. Init => DInv
    BY InitIsGood
       DEF Init, DInv, Unpaused, FailuresKnown, Watched, GivenUp, NoFalseDeadlock, AtWork
  <1> QED BY <1>1, DInvSteps, PTL DEF Spec

\* The driver takes no run for deadlocked while a completion is on its way: a
\* run that was never paused fails only after one of its steps has.
THEOREM NoDeadlockIsImagined == Spec => []NoFalseDeadlock
  <1>1. DInv => NoFalseDeadlock
    BY DEF DInv
  <1> QED BY <1>1, DInvHolds, PTL

-----------------------------------------------------------------------------
(* A rollback compensates a step after the steps that were built on it.    *)

\* A step that waits in vain for dependencies that have failed.
Barred(s) ==
  /\ \/ \E d \in DependsOn[s] : journal[d] = "failure"
     \/ DependsOnAny[s] # {} /\ \A d \in DependsOnAny[s] : journal[d] = "failure"
  /\ task[s] = "none"
  /\ AtWork => tracker[s] = "skipped" \/ (tracker[s] = "idle" /\ Blocked(s))

\* No attempt of the step begins any more, whatever crashes.
Past(s) == journal[s] # "none" \/ Barred(s) \/ status = "cancelled"

\* A step that may not be skipped is only skipped when it is past.
Skipped ==
  \A s \in Steps \ MaySkip :
    /\ AtWork /\ tracker[s] = "skipped" => Past(s)
    /\ task[s] = "skip" => journal[s] # "none"

\* Of the undoable steps, those that have come to something have started.
Starts ==
  \A s \in Undoable :
    /\ Started(s) => s \in startedBy[s]
    /\ s \in succeeded \/ journal[s] = "failure" \/ task[s] \in {"exec", "succeeded", "failed"}
         => Started(s)

\* A step at work was launched when what it depends on was past, ...
Base(d) == (DependsOn[d] \cap Undoable) \ MaySkip
Based == \A d \in Steps : task[d] # "none" => \A s \in Base(d) : Past(s)
\* ... and so what it depends on never starts after it.
Ordered ==
  \A d \in Undoable :
    Started(d) => \A s \in Base(d) : Past(s) /\ d \notin startedBy[s]

\* The rollback has on its list whatever is to be compensated.
Listed == driver = "undo" => undo \subseteq Undoable /\ Eligible(trigger) \subseteq undo

RInv == Skipped /\ Starts /\ Based /\ Ordered /\ Listed

\* What is past stays past.
LEMMA PastStaysForDriver ==
  ASSUME DInv, Driver, NEW s \in Steps, Past(s) PROVE Past(s)'
  <1> USE DEF DInv, IInv, TypeOK, AtWork, Past, Terminal, row, shared, tasks, bounds
  <1>1. CASE Load
    <2>1. CASE Barred(s) /\ journal[s] = "none"
      BY <1>1, <2>1, DependenciesAreSteps DEF Load, Remember, Barred, Blocked
    <2> QED BY <1>1, <2>1 DEF Load
  <1>2. CASE Plan
    <2>1. CASE Barred(s)
      <3>1. s \notin ReadyNow
        BY <1>2, <2>1 DEF Plan, ReadyNow, Todo, Barred
      <3>2. \A d \in Steps : tracker[d] = "failed" => tracker'[d] = "failed"
        BY <1>2 DEF Plan, Mark, BlockedNow, ReadyNow, Todo
      <3>3. Blocked(s) => Blocked(s)'
        BY <3>2, DependenciesAreSteps DEF Blocked
      <3>4. tracker[s] = "skipped" => tracker'[s] = "skipped"
        BY <1>2 DEF Plan, Mark, BlockedNow, ReadyNow, Todo
      <3>5. tracker[s] = "idle" => tracker'[s] \in {"idle", "skipped"}
        BY <1>2, <3>1 DEF Plan, Mark
      <3>6. task'[s] = "none"
        BY <1>2, <2>1, <3>1 DEF Plan, Mark, Barred
      <3> QED BY <1>2, <2>1, <3>3, <3>4, <3>5, <3>6 DEF Plan, Barred
    <2> QED BY <1>2, <2>1 DEF Plan
  <1>3. CASE Look \/ StopForPause \/ Poll \/ Receive \/ BeginUndo \/ Undo \/ JournalUndo
             \/ PassOver
    BY <1>3 DEF Look, StopForPause, Drained, Poll, Receive, BeginUndo, Undo, JournalUndo,
       PassOver, Enter, Barred, Blocked
  <1>4. CASE Complete \/ Fail
    BY <1>4 DEF Complete, Fail, SettleAs, Barred, Blocked
  <1> QED BY <1>1, <1>2, <1>3, <1>4 DEF Driver

LEMMA PastStaysForTask ==
  ASSUME DInv, NEW t \in Steps, StepTask(t), NEW s \in Steps, Past(s) PROVE Past(s)'
  <1> USE DEF DInv, IInv, TypeOK, AtWork, Past, Terminal, row, drive, shared, tasks, bounds
  <1>1. status' = status
    BY DEF StepTask, Attempt, NoAttempt, Skip, Succeed, JournalSuccess, Accumulate,
           Stopped, Retry, FailStep, JournalFailure, CollectOutputs, Report
  <1>2. \A u \in Steps : journal[u] # "none" => journal'[u] = journal[u]
    BY DEF StepTask, Attempt, NoAttempt, Skip, Succeed, JournalSuccess, Accumulate,
           Stopped, Retry, FailStep, JournalFailure, CollectOutputs, Report,
           Unjournaled, NotYet
  <1>3. CASE Barred(s)
    <2>1. task[t] # "none" /\ driver' = driver
      BY DEF StepTask, Attempt, NoAttempt, Skip, Succeed, JournalSuccess, Accumulate,
           Stopped, Retry, FailStep, JournalFailure, CollectOutputs, Report, Reports
    <2>2. s # t /\ task'[s] = "none"
      BY <1>3, <2>1 DEF Barred, StepTask, Attempt, NoAttempt, Skip, Succeed,
           JournalSuccess, Accumulate, Stopped, Retry, FailStep, JournalFailure,
           CollectOutputs, Report, Becomes
    <2>3. \A u \in Steps : u # t => tracker'[u] = tracker[u]
      BY DEF StepTask, Attempt, NoAttempt, Skip, Succeed, JournalSuccess, Accumulate,
           Stopped, Retry, FailStep, JournalFailure, CollectOutputs, Report
    <2>4. AtWork => tracker[t] = "running"
      BY <2>1 DEF TasksTracked
    <2>5. AtWork /\ Blocked(s) => Blocked(s)'
      BY <2>3, <2>4, DependenciesAreSteps DEF Blocked
    <2> QED BY <1>2, <1>3, <2>1, <2>2, <2>3, <2>5, DependenciesAreSteps DEF Barred
  <1> QED BY <1>1, <1>2, <1>3

LEMMA PastStaysOutside ==
  ASSUME DInv, Pause \/ Resume \/ Cancel \/ Crash \/ Recover, NEW s \in Steps, Past(s)
  PROVE  Past(s)'
  BY DEF DInv, IInv, TypeOK, AtWork, Past, Terminal, row, drive, shared, tasks, bounds,
         Pause, Resume, Cancel, Crash, Recover, Barred, Blocked

LEMMA PastStays ==
  ASSUME DInv, Next, NEW s \in Steps, Past(s) PROVE Past(s)'
  BY PastStaysForDriver, PastStaysForTask, PastStaysOutside DEF Next
\* Undoable steps are steps, and none collects.
LEMMA UndoableSteps == Undoable \subseteq Steps /\ Undoable \cap Collect = {}
  BY DefinitionAssumption

\* What Plan launches is built on what is past.
LEMMA PlanKeepsRInv == ASSUME DInv, RInv, Plan PROVE RInv'
  <1> USE DEF DInv, IInv, TypeOK, AtWork
  <1>1. driver = "plan" /\ Mark /\ driver' # "undo" /\ driver' \notin {"off", "load"}
    BY DEF Plan, GiveUp
  <1>2. \A s \in Steps : Past(s) => Past(s)'
    BY PastStaysForDriver DEF Driver
  <1>3. UNCHANGED <<journal, status, startedBy>> /\ succeeded' \subseteq succeeded
    BY <1>1 DEF Plan, Mark
  <1>4. Skipped'
    <2>1. ASSUME NEW s \in BlockedNow PROVE Past(s)'
      <3>1. s \in Steps /\ tracker[s] = "idle" /\ Blocked(s)
        BY DEF BlockedNow, Todo
      <3>2. task[s] = "none" /\ journal[s] = "none" /\ s \notin ReadyNow
        BY <1>1, <3>1 DEF TasksTracked, Unjournaled, ReadyNow
      <3>3. status = "cancelled" \/ \/ \E d \in DependsOn[s] : journal[d] = "failure"
                                    \/ /\ DependsOnAny[s] # {}
                                       /\ \A d \in DependsOnAny[s] : journal[d] = "failure"
        BY <1>1, <3>1, DependenciesAreSteps DEF Blocked, FailuresKnown
      <3>4. task'[s] = "none" /\ tracker'[s] = "skipped"
        BY <1>1, <2>1, <3>1, <3>2 DEF Mark
      <3> QED BY <1>1, <1>3, <3>1, <3>3, <3>4 DEF Past, Barred
    <2>2. ASSUME NEW s \in Steps, tracker'[s] = "skipped" PROVE tracker[s] = "skipped" \/ s \in BlockedNow
      BY <1>1, <2>2 DEF Mark
    <2>3. ASSUME NEW s \in Steps, task'[s] = "skip" PROVE task[s] = "skip"
      BY <1>1, <2>3 DEF Mark
    <2> QED BY <1>1, <1>2, <1>3, <2>1, <2>2, <2>3 DEF RInv, Skipped
  <1>5. Starts'
    BY <1>1, <1>3, UndoableSteps DEF RInv, Starts, Started, Mark
  <1>6. Based'
    <2> SUFFICES ASSUME NEW d \in Steps, task'[d] # "none", NEW s \in Base(d) PROVE Past(s)'
      BY DEF Based, Base
    <2>1. s \in Steps \ (MaySkip \cup Collect) /\ s \in DependsOn[d]
      BY UndoableSteps DEF Base
    <2>2. CASE d \in ReadyNow
      <3>1. tracker[s] \in {"completed", "skipped"}
        BY <2>1, <2>2 DEF ReadyNow, Ready, Satisfied
      <3>2. Past(s)
        BY <1>1, <2>1, <3>1 DEF Truthful, RInv, Skipped, Past
      <3> QED BY <1>2, <2>1, <3>2
    <2>3. CASE d \notin ReadyNow
      BY <1>1, <1>2, <2>1, <2>3 DEF Mark, RInv, Based
    <2> QED BY <2>2, <2>3
  <1>7. Ordered'
    BY <1>2, <1>3, UndoableSteps DEF RInv, Ordered, Base, Started
  <1>8. Listed'
    BY <1>1 DEF Listed
  <1> QED BY <1>4, <1>5, <1>6, <1>7, <1>8 DEF RInv

\* The driver's other actions leave the starts alone.
LEMMA DriverKeepsRInv ==
  ASSUME DInv, RInv,
         Load \/ Look \/ StopForPause \/ Poll \/ Receive
           \/ Complete \/ BeginUndo \/ Undo \/ JournalUndo \/ PassOver \/ Fail
  PROVE  RInv'
  <1> USE DEF DInv, IInv, TypeOK, AtWork
  <1>1. \A s \in Steps : Past(s) => Past(s)'
    BY PastStaysForDriver DEF Driver
  <1>2. UNCHANGED <<journal, startedBy, succeeded, task>>
    BY DEF Load, Look, StopForPause, Drained, Poll, Receive, Complete, BeginUndo, Undo, JournalUndo, PassOver, Enter, Fail,
           row, tasks
  <1>3. Skipped'
    <2>1. \A s \in Steps : driver' \notin {"off", "load"} /\ tracker'[s] = "skipped" =>
            AtWork /\ tracker[s] = "skipped"
      BY DEF Load, Remember, Look, StopForPause, Drained, Poll, Receive, Complete, SettleAs,
             BeginUndo, Undo, JournalUndo, PassOver, Enter, Fail, shared
    <2> QED BY <1>1, <1>2, <2>1 DEF RInv, Skipped
  <1>4. Starts'
    BY <1>2, UndoableSteps DEF RInv, Starts, Started
  <1>5. Based'
    BY <1>1, <1>2, UndoableSteps DEF RInv, Based, Base
  <1>6. Ordered'
    BY <1>1, <1>2, UndoableSteps DEF RInv, Ordered, Base, Started
  <1>7. Listed'
    <2>1. CASE BeginUndo
      BY <2>1 DEF BeginUndo, Listed, Eligible, row
    <2>2. CASE Undo \/ JournalUndo \/ PassOver
      <3>1. driver = "undo"
        BY <2>2 DEF Undo, JournalUndo, PassOver, Recorded
      <3>2. undo \subseteq Undoable /\ Eligible(trigger) \subseteq undo
        BY <3>1 DEF RInv, Listed
      <3>3. CASE Undo
        BY <3>2, <3>3 DEF Undo, Listed, Eligible, row
      <3>4. ASSUME NEW s \in Steps, Enter(s) PROVE Listed'
        BY <3>2, <3>4 DEF Enter, Listed, Eligible
      <3> QED BY <2>2, <3>3, <3>4, UndoableSteps DEF JournalUndo, PassOver, Recorded
    <2>3. CASE ~BeginUndo /\ ~(Undo \/ JournalUndo \/ PassOver)
      BY <2>3 DEF Load, Look, StopForPause, Poll, Receive, Complete, SettleAs, Fail, Listed
    <2> QED BY <2>1, <2>2, <2>3
  <1> QED BY <1>3, <1>4, <1>5, <1>6, <1>7 DEF RInv

\* When a step starts, what is built on it has not: it would be past.
LEMMA TaskKeepsRInv ==
  ASSUME DInv, RInv, NEW s \in Steps, StepTask(s) PROVE RInv'
  <1> USE DEF DInv, IInv, TypeOK, AtWork
  <1>1. \A t \in Steps : Past(t) => Past(t)'
    BY PastStaysForTask
  <1>2. driver # "undo" /\ UNCHANGED driver
    BY DEF AtTheEnd, drive, StepTask, Attempt, NoAttempt, Skip, Succeed, JournalSuccess,
           Accumulate, Stopped, Retry, FailStep, JournalFailure, CollectOutputs, Report, Reports
  <1>3. \A t \in Steps : t # s =>
          task'[t] = task[t] /\ tracker'[t] = tracker[t] /\ journal'[t] = journal[t]
    BY DEF shared, row, StepTask, Attempt, NoAttempt, Skip, Succeed, JournalSuccess,
           Accumulate, Stopped, Retry, FailStep, JournalFailure, CollectOutputs, Report, Becomes
  <1>4. Skipped'
    <2>1. CASE s \notin MaySkip
      <3>1. task'[s] = "skip" => task[s] = "skip" \/ journal'[s] # "none"
        BY <2>1 DEF StepTask, Attempt, NoAttempt, Skip, Succeed, JournalSuccess,
           Accumulate, Stopped, Retry, FailStep, JournalFailure, CollectOutputs, Report,
           Becomes
      <3>2. tracker'[s] = "skipped" => tracker[s] = "skipped" \/ task[s] = "skip"
        BY DEF StepTask, Attempt, NoAttempt, Skip, Succeed, JournalSuccess,
           Accumulate, Stopped, Retry, FailStep, JournalFailure, CollectOutputs, Report,
           Outcome, Reports, shared
      <3>3. journal[s] # "none" => journal'[s] # "none"
        BY DEF row, StepTask, Attempt, NoAttempt, Skip, Succeed, JournalSuccess,
           Accumulate, Stopped, Retry, FailStep, JournalFailure, CollectOutputs, Report
      <3>4. \A t \in Steps \ MaySkip : AtWork /\ tracker'[t] = "skipped" => Past(t)
        BY <1>3, <3>2 DEF RInv, Skipped, Past
      <3> QED BY <1>1, <1>2, <1>3, <3>1, <3>3, <3>4 DEF RInv, Skipped
    <2>2. CASE s \in MaySkip
      BY <1>1, <1>2, <1>3, <2>2 DEF RInv, Skipped
    <2> QED BY <2>1, <2>2
  <1>5. Based'
    <2>1. task[s] # "none"
      BY DEF StepTask, Attempt, NoAttempt, Skip, Succeed, JournalSuccess, Accumulate,
           Stopped, Retry, FailStep, JournalFailure, CollectOutputs, Report, Reports
    <2> QED BY <1>1, <1>3, <2>1, UndoableSteps DEF RInv, Based, Base
  <1>6. CASE Attempt(s)
    <2>1. /\ task[s] = "ready" /\ status # "cancelled" /\ startedBy' = StartsLast(s)
          /\ succeeded' = succeeded \ {s} /\ UNCHANGED journal /\ task'[s] = "exec"
      BY <1>6 DEF Attempt, Becomes
    <2>2. ~Past(s)
      BY <2>1 DEF Unjournaled, NotYet, Past, Barred
    <2>3. \A t \in Undoable : Started(t)' <=> Started(t) \/ t = s
      BY <2>1 DEF RInv, Starts, Started, StartsLast
    <2>4. Starts'
      BY <1>3, <2>1, <2>3, UndoableSteps DEF RInv, Starts, Started, StartsLast
    <2>5. Ordered'
      <3> SUFFICES ASSUME NEW d \in Undoable, Started(d)', NEW t \in Base(d)
                   PROVE  Past(t)' /\ d \notin startedBy'[t]
        BY DEF Ordered, Base
      <3>1. t \in Undoable /\ t \in Steps /\ d \in Steps
        BY UndoableSteps DEF Base
      <3>2. Past(t)
        BY <2>1, <2>3, <3>1 DEF RInv, Ordered, Based
      <3>3. t # s
        BY <2>2, <3>2
      <3>4. d # s => d \notin startedBy[t]
        BY <2>3 DEF RInv, Ordered
      <3> QED BY <1>1, <2>1, <3>1, <3>2, <3>3, <3>4 DEF StartsLast
    <2> QED BY <1>2, <1>4, <1>5, <2>4, <2>5 DEF RInv, Listed
  <1>7. CASE ~Attempt(s)
    <2>1. UNCHANGED startedBy
      BY <1>7 DEF row, StepTask, NoAttempt, Skip, Succeed, JournalSuccess, Accumulate,
           Stopped, Retry, FailStep, JournalFailure, CollectOutputs, Report
    <2>2. Starts'
      <3>1. ASSUME s \in Undoable,
                   s \in succeeded' \/ journal'[s] = "failure"
                     \/ task'[s] \in {"exec", "succeeded", "failed"}
            PROVE  s \in succeeded \/ journal[s] = "failure"
                     \/ task[s] \in {"exec", "succeeded", "failed"}
        BY <1>7, <3>1, UndoableSteps DEF row, StepTask, NoAttempt, Skip, Succeed,
           JournalSuccess, Accumulate, Stopped, Retry, FailStep, JournalFailure,
           CollectOutputs, Report, Becomes
      <3>2. \A t \in Steps : t # s /\ t \in succeeded' => t \in succeeded
        BY <1>7 DEF row, StepTask, NoAttempt, Skip, Succeed, JournalSuccess, Accumulate,
           Stopped, Retry, FailStep, JournalFailure, CollectOutputs, Report
      <3> QED BY <1>3, <2>1, <3>1, <3>2, UndoableSteps DEF RInv, Starts, Started
    <2>3. Ordered'
      BY <1>1, <2>1, UndoableSteps DEF RInv, Ordered, Base, Started
    <2> QED BY <1>2, <1>4, <1>5, <2>2, <2>3 DEF RInv, Listed
  <1> QED BY <1>6, <1>7

\* A crash forgets the tasks and keeps the starts.
LEMMA OutsideKeepsRInv ==
  ASSUME DInv, RInv, Pause \/ Resume \/ Cancel \/ Crash \/ Recover PROVE RInv'
  <1> USE DEF DInv, IInv, TypeOK, AtWork
  <1>1. \A s \in Steps : Past(s) => Past(s)'
    BY PastStaysOutside
  <1>2. UNCHANGED <<journal, startedBy, succeeded, rolled>>
    BY DEF Pause, Resume, Cancel, Crash, Recover, row
  <1>3. \A s \in Steps : task'[s] \in {task[s], "none"}
    BY DEF Pause, Resume, Cancel, Crash, Recover, tasks
  <1>4. /\ driver' \in {driver, "off", "load"}
        /\ driver' \notin {"off", "load"} => UNCHANGED <<driver, tracker, undo, trigger>>
    BY DEF Pause, Resume, Cancel, Crash, Recover, shared, drive
  <1>5. Skipped' /\ Based'
    BY <1>1, <1>2, <1>3, <1>4, UndoableSteps DEF RInv, Skipped, Based, Base
  <1>6. Starts' /\ Ordered'
    BY <1>1, <1>2, <1>3, UndoableSteps DEF RInv, Starts, Started, Ordered, Base
  <1>7. Listed'
    BY <1>2, <1>4 DEF RInv, Listed, Eligible
  <1> QED BY <1>5, <1>6, <1>7 DEF RInv

LEMMA RInvHolds == Spec => []RInv
  <1>1. Init => RInv
    BY UndoableSteps
       DEF Init, RInv, Skipped, Starts, Started, Based, Ordered, Listed, AtWork
  <1>2. DInv /\ RInv /\ [Next]_vars => RInv'
    <2> SUFFICES ASSUME DInv, RInv, [Next]_vars PROVE RInv'
      OBVIOUS
    <2>1. CASE Driver
      BY <2>1, DriverKeepsRInv, PlanKeepsRInv DEF Driver
    <2>2. CASE \E s \in Steps : StepTask(s)
      BY <2>2, TaskKeepsRInv
    <2>3. CASE Pause \/ Resume \/ Cancel \/ Crash \/ Recover
      BY <2>3, OutsideKeepsRInv
    <2>4. CASE UNCHANGED vars
      BY <2>4 DEF vars, row, drive, shared, tasks, bounds, RInv, Skipped, Starts, Started,
           Based, Base, Ordered, Listed, Eligible, Past, Barred, Blocked, AtWork
    <2> QED BY <2>1, <2>2, <2>3, <2>4 DEF Next
  <1> QED BY <1>1, <1>2, DInvHolds, PTL DEF Spec

\* A step is compensated after the steps that were built on it: those started
\* after its own last start, and the rollback goes back in the order of starts.
LEMMA UndoesInReverse ==
  ASSUME DInv, RInv, NEW s \in Steps \ MaySkip, driver = "undo", NextToUndo(s),
         NEW d \in Undoable, s \in DependsOn[d],
         d \in succeeded \/ (d = trigger /\ journal[d] = "failure")
  PROVE  d \in rolled
  <1>1. Started(d)
    BY DEF RInv, Starts
  <1>2. s \in Undoable
    BY DEF RInv, Listed, NextToUndo
  <1>3. d \notin startedBy[s]
    BY <1>1, <1>2 DEF RInv, Ordered, Base
  <1>4. d \notin undo
    BY <1>1, <1>3 DEF NextToUndo
  <1> QED BY <1>4 DEF RInv, Listed, Eligible

THEOREM RollbackIsInReverse == Spec => UndoneInReverse
  <1>1. ASSUME DInv, RInv, Next, NEW s \in (Handed' \ Handed) \ MaySkip, NEW d \in Undoable,
               s \in DependsOn[d],
               d \in succeeded \/ (d = trigger /\ journal[d] = "failure")
        PROVE  d \in rolled
    <2> USE DEF Handed
    <2>1. CASE Undo \/ PassOver
      <3>1. driver = "undo" /\ NextToUndo(s) /\ s \in Steps
        BY <1>1, <2>1 DEF Undo, PassOver, Enter, row
      <3> QED BY <1>1, <3>1, UndoesInReverse
    <2>2. CASE JournalUndo
      BY <1>1, <2>2 DEF JournalUndo, Enter
    <2>3. CASE ~(Undo \/ PassOver \/ JournalUndo)
      <3>1. rolled' = rolled /\ undoing' \in {undoing, NoStep}
        BY <1>1, <2>3 DEF Next, Driver, Load, Look, StopForPause, Poll, Plan, Receive, Complete,
           BeginUndo, Fail, StepTask, Attempt, NoAttempt, Skip, Succeed, JournalSuccess,
           Accumulate, Stopped, Retry, FailStep, JournalFailure, CollectOutputs, Report,
           Pause, Resume, Cancel, Crash, Recover, row, drive
      <3> QED BY <1>1, <3>1
    <2> QED BY <2>1, <2>2, <2>3
  <1>2. DInv /\ RInv /\ [Next]_vars =>
          [\A s \in (Handed' \ Handed) \ MaySkip : \A d \in Undoable :
             s \in DependsOn[d] /\ (d \in succeeded \/ (d = trigger /\ journal[d] = "failure"))
               => d \in rolled]_vars
    <2> SUFFICES ASSUME UNCHANGED vars PROVE Handed' = Handed
      BY <1>1
    <2> QED BY DEF Handed, vars, row, drive
  <1> QED BY <1>2, DInvHolds, RInvHolds, PTL DEF Spec, UndoneInReverse

-----------------------------------------------------------------------------
(* The refinement of RunLife. *)

Working == {s \in Steps : task[s] \in {"exec", "succeeded", "failed"}}

\* A journaled failure that is not tolerated is not taken for a step skipped.
FailuresCount ==
  \A s \in Steps \ SkipOnError :
    journal[s] = "failure" => task[s] # "skip" /\ (AtWork => tracker[s] # "skipped")
\* What a step that may begin depends on is settled in the journal, or was blocked.
Reached(s) == Life!Met(s, Life!Settled \cup Life!Below(Life!Failed))
Gated ==
  \A s \in Steps : task[s] \in {"ready", "exec"} => Reached(s) \/ status = "cancelled"
\* The rollback's list has nothing it has processed.
Fresh == driver = "undo" => undo \cap rolled = {}
LInv == FailuresCount /\ Gated /\ Fresh

\* What is settled stays so, because nothing leaves the journal.
Kept == \A s \in Steps : journal[s] # "none" => journal'[s] = journal[s]
LEMMA ReachedStays ==
  ASSUME Kept, NEW s \in Steps, Reached(s) PROVE Reached(s)'
  <1> DEFINE Over1 == Life!Settled \cup Life!Below(Life!Failed)
  <1>1. \A t \in Steps : journal[t] # "none" => journal'[t] = journal[t]
    BY DEF Kept
  <1>2. Life!Failed \subseteq Life!Failed'
    BY <1>1 DEF Life!Failed
  <1>3. Over1 = MaySkip \cup Collect \cup {t \in Steps : journal[t] = "success"}
                 \cup (Life!Failed \cap SkipOnError) \cup Life!Below(Life!Failed)
    BY DEF Life!Settled, Life!Below
  <1>4. Over1' = MaySkip \cup Collect \cup {t \in Steps : journal'[t] = "success"}
                 \cup (Life!Failed' \cap SkipOnError) \cup Life!Below(Life!Failed)'
    BY DEF Life!Settled, Life!Below
  <1>5. Life!Below(Life!Failed) \subseteq Life!Below(Life!Failed)'
    BY <1>2, DependenciesAreSteps DEF Life!Below
  <1>6. Over1 \subseteq Over1'
    BY <1>1, <1>2, <1>3, <1>4, <1>5
  <1> QED BY <1>6 DEF Reached, Life!Met

LEMMA JournalKept == ASSUME DInv, [Next]_vars PROVE Kept
  <1> USE DEF DInv, IInv, TypeOK, Kept
  <1>1. CASE \E s \in Steps : StepTask(s)
    BY <1>1 DEF StepTask, Attempt, NoAttempt, Skip, Succeed, JournalSuccess, Accumulate,
       Stopped, Retry, FailStep, JournalFailure, CollectOutputs, Report, Unjournaled,
       NotYet, row
  <1>2. CASE UNCHANGED journal
    BY <1>2
  <1> QED BY <1>1, <1>2 DEF Next, Driver, Load, Look, StopForPause, Poll, Plan, Receive,
         Complete, BeginUndo, Undo, JournalUndo, PassOver, Enter, Fail, Pause, Resume, Cancel, Crash, Recover, row, vars

\* What the driver launches depends on what is settled: a dependency that was
\* skipped may be, or is tolerated or hopeless.
LEMMA PlanGates ==
  ASSUME DInv, RInv, LInv, Plan, NEW s \in ReadyNow
  PROVE  Reached(s) \/ status = "cancelled"
  <1> USE DEF DInv, IInv, TypeOK, AtWork
  <1>1. driver = "plan" /\ s \in Steps /\ Ready(s)
    BY DEF Plan, ReadyNow, Todo
  <1> DEFINE Over1 == Life!Settled \cup Life!Below(Life!Failed)
  <1>2. ASSUME NEW d \in Steps, Satisfied(d), status # "cancelled" PROVE d \in Over1
    <2>0. Life!Failed = {t \in Steps : journal[t] = "failure"}
          /\ MaySkip \cup Collect \subseteq Over1
      BY DEF Life!Failed, Life!Settled, Life!Below
    <2>1. CASE tracker[d] = "completed"
      BY <1>1, <2>0, <2>1 DEF Truthful, Life!Settled
    <2>2. CASE tracker[d] = "skipped" /\ d \notin MaySkip
      <3>1. Past(d)
        BY <1>1, <2>2 DEF RInv, Skipped
      <3>2. CASE journal[d] # "none"
        BY <1>1, <2>0, <2>2, <3>2 DEF LInv, FailuresCount, Life!Settled
      <3>3. CASE Barred(d)
        BY <2>0, <3>3, DependenciesAreSteps DEF Barred, Life!Below
      <3> QED BY <1>2, <3>1, <3>2, <3>3 DEF Past
    <2>3. CASE d \in MaySkip
      BY <2>0, <2>3
    <2> QED BY <1>2, <2>1, <2>2, <2>3 DEF Satisfied
  <1> QED BY <1>1, <1>2, DependenciesAreSteps DEF Ready, Reached, Life!Met

LEMMA DriverKeepsLInv == ASSUME DInv, RInv, LInv, Driver PROVE LInv'
  <1> USE DEF DInv, IInv, TypeOK, AtWork
  <1>1. Kept /\ UNCHANGED journal
    BY JournalKept DEF Next, Driver, Load, Look, StopForPause, Poll, Plan, Receive,
       Complete, BeginUndo, Undo, JournalUndo, PassOver, Enter, Fail, row
  <1>2. \A s \in Steps : Reached(s) => Reached(s)'
    BY <1>1, ReachedStays
  <1>3. CASE Plan
    <2>1. Mark /\ driver = "plan" /\ driver' # "undo" /\ UNCHANGED status
      BY <1>3 DEF Plan, GiveUp
    <2>2. \A s \in BlockedNow : journal[s] = "none"
      BY <2>1 DEF BlockedNow, Todo, Unjournaled
    <2>3. FailuresCount'
      BY <1>1, <2>1, <2>2 DEF LInv, FailuresCount, Mark
    <2>4. Gated'
      BY <1>2, <1>3, <2>1, PlanGates DEF LInv, Gated, Mark
    <2> QED BY <2>1, <2>3, <2>4 DEF LInv, Fresh
  <1>4. CASE ~Plan
    <2>1. UNCHANGED task /\ (status = "cancelled" => status' = "cancelled")
      BY <1>4 DEF Driver, Load, Look, StopForPause, Poll, Receive, Complete, SettleAs,
         BeginUndo, Undo, JournalUndo, PassOver, Enter, Fail, row, tasks, Terminal
    <2>2. \A s \in Steps : driver' \notin {"off", "load"} /\ tracker'[s] = "skipped" =>
            AtWork /\ tracker[s] = "skipped"
      BY <1>4 DEF Driver, Load, Remember, Look, StopForPause, Drained, Poll, Receive,
         Complete, SettleAs, BeginUndo, Undo, JournalUndo, PassOver, Enter, Fail, shared
    <2>3. FailuresCount'
      BY <1>1, <2>1, <2>2 DEF LInv, FailuresCount
    <2>4. Gated'
      BY <1>2, <2>1 DEF LInv, Gated
    <2>5. Fresh'
      BY <1>4 DEF LInv, Fresh, Driver, Load, Look, StopForPause, Poll, Receive, Complete,
         SettleAs, BeginUndo, Eligible, Undo, JournalUndo, PassOver, Enter, Fail, row
    <2> QED BY <2>3, <2>4, <2>5 DEF LInv
  <1> QED BY <1>3, <1>4

LEMMA TaskKeepsLInv ==
  ASSUME DInv, LInv, NEW s \in Steps, StepTask(s) PROVE LInv'
  <1> USE DEF DInv, IInv, TypeOK, AtWork
  <1>1. Kept
    BY JournalKept DEF Next
  <1>2. \A t \in Steps : Reached(t) => Reached(t)'
    BY <1>1, ReachedStays
  <1>3. UNCHANGED <<status, driver>> /\ task[s] # "none" /\ driver # "undo"
    BY DEF AtTheEnd, drive, row, StepTask, Attempt, NoAttempt, Skip, Succeed,
       JournalSuccess, Accumulate, Stopped, Retry, FailStep, JournalFailure,
       CollectOutputs, Report, Reports
  <1>4. \A t \in Steps : t # s =>
          task'[t] = task[t] /\ tracker'[t] = tracker[t] /\ journal'[t] = journal[t]
    BY DEF shared, row, StepTask, Attempt, NoAttempt, Skip, Succeed, JournalSuccess,
       Accumulate, Stopped, Retry, FailStep, JournalFailure, CollectOutputs, Report, Becomes
  <1>5. task'[s] \in {"ready", "exec"} => task[s] \in {"ready", "exec"}
    BY DEF StepTask, Attempt, NoAttempt, Skip, Succeed, JournalSuccess, Accumulate,
       Stopped, Retry, FailStep, JournalFailure, CollectOutputs, Report, Becomes
  <1>6. Gated'
    BY <1>2, <1>3, <1>4, <1>5 DEF LInv, Gated
  <1>7. FailuresCount'
    <2>1. ASSUME s \notin SkipOnError, journal'[s] = "failure"
          PROVE  task'[s] # "skip" /\ (AtWork => tracker'[s] # "skipped")
      <3>1. AtWork => tracker[s] = "running"
        BY <1>3 DEF TasksTracked
      <3>2. CASE Report(s)
        BY <2>1, <3>2 DEF LInv, FailuresCount, Report, Outcome, Reports, Becomes, row
      <3>3. CASE ~Report(s)
        BY <2>1, <3>1, <3>3 DEF StepTask, Attempt, NoAttempt, Skip, Succeed,
           JournalSuccess, Accumulate, Stopped, Retry, FailStep, JournalFailure,
           CollectOutputs, Becomes, row, shared, Unjournaled, NotYet, LInv, FailuresCount
      <3> QED BY <3>2, <3>3
    <2> QED BY <1>3, <1>4, <2>1 DEF LInv, FailuresCount
  <1> QED BY <1>3, <1>6, <1>7 DEF LInv, Fresh

LEMMA OutsideKeepsLInv ==
  ASSUME DInv, LInv, Pause \/ Resume \/ Cancel \/ Crash \/ Recover PROVE LInv'
  <1> USE DEF DInv, IInv, TypeOK, AtWork
  <1>1. UNCHANGED <<journal, rolled>>
    BY DEF Pause, Resume, Cancel, Crash, Recover, row
  <1>2. \A s \in Steps : Reached(s) => Reached(s)'
    BY <1>1, ReachedStays DEF Kept
  <1>3. \A s \in Steps : task'[s] \in {task[s], "none"}
    BY DEF Pause, Resume, Cancel, Crash, Recover, tasks
  <1>4. /\ driver' \in {driver, "off", "load"}
        /\ driver' \notin {"off", "load"} => UNCHANGED <<driver, tracker, undo>>
        /\ status = "cancelled" => status' = "cancelled"
    BY DEF Pause, Resume, Cancel, Crash, Recover, shared, drive, row, Terminal
  <1> QED BY <1>1, <1>2, <1>3, <1>4 DEF LInv, FailuresCount, Gated, Fresh

LEMMA LInvHolds == Spec => []LInv
  <1>1. Init => LInv
    BY DEF Init, LInv, FailuresCount, Gated, Fresh, AtWork
  <1>2. DInv /\ RInv /\ LInv /\ [Next]_vars => LInv'
    <2> SUFFICES ASSUME DInv, RInv, LInv, [Next]_vars PROVE LInv'
      OBVIOUS
    <2>1. CASE UNCHANGED vars
      <3>1. \A s \in Steps : Reached(s) => Reached(s)'
        BY JournalKept, ReachedStays
      <3> QED BY <2>1, <3>1 DEF vars, row, drive, shared, tasks, LInv, FailuresCount,
             Gated, Fresh, AtWork
    <2> QED BY <2>1, DriverKeepsLInv, TaskKeepsLInv, OutsideKeepsLInv DEF Next
  <1> QED BY <1>1, <1>2, DInvHolds, RInvHolds, PTL DEF Spec

\* A step that neither the row nor the journal nor the attempts show.
Unseen == UNCHANGED <<status, journal, rolled, undoing, Working>>
LEMMA Stutters == ASSUME Unseen PROVE UNCHANGED Life!life
  BY DEF Unseen, Working, Life!life

LEMMA DriverLives ==
  ASSUME DInv, RInv, LInv, Driver PROVE Life!Next \/ Unseen
  <1> USE DEF DInv, IInv, TypeOK, AtWork
  <1>1. CASE Load \/ Look \/ StopForPause \/ Poll \/ Receive \/ BeginUndo
    BY <1>1 DEF Load, Look, StopForPause, Poll, Receive, BeginUndo, row, tasks, Unseen,
       Working
  <1>2. CASE Plan
    <2>1. \A s \in ReadyNow : task[s] = "none"
      BY <1>2 DEF Plan, ReadyNow, Todo, TasksTracked
    <2>2. \A s \in Steps : task'[s] = IF s \in ReadyNow THEN "ready" ELSE task[s]
      BY <1>2 DEF Plan, Mark
    <2> QED BY <1>2, <2>1, <2>2 DEF Plan, Unseen, Working
  <1>3. CASE Complete
    <2>1. \A s \in Steps : task[s] = "none"
      BY <1>3 DEF Complete, AtTheEnd
    <2>2. UNCHANGED <<journal, rolled, task, undoing>> /\ undoing = NoStep
      BY <1>3 DEF Complete, tasks, Recorded
    <2>3. CompletedInFull'
      BY <1>3, DriverKeeps
    <2>4. CASE status \in Terminal
      BY <1>3, <2>2, <2>4 DEF Complete, SettleAs, Unseen, Working
    <2>5. CASE status \notin Terminal
      <3>1. status' = "completed"
        BY <1>3, <2>5 DEF Complete, SettleAs
      <3>2. Life!Complete
        BY <2>1, <2>2, <2>3, <2>5, <3>1
           DEF CompletedInFull, Life!Complete, Life!Idle, Life!Becomes, Life!Terminal, Terminal
      <3> QED BY <3>2 DEF Life!Next
    <2> QED BY <2>4, <2>5
  <1>4. CASE Fail
    <2>1. \A s \in Steps : task[s] = "none"
      BY <1>4 DEF Fail, AtTheEnd
    <2>2. UNCHANGED <<journal, rolled, task, undoing>> /\ undoing = NoStep
      BY <1>4 DEF Fail, tasks, Recorded
    <2>3. AllUndone'
      BY <1>4, DriverKeeps
    <2>4. CASE status \in Terminal
      BY <1>4, <2>2, <2>4 DEF Fail, SettleAs, Unseen, Working
    <2>5. CASE status \notin Terminal
      <3>1. status' = "failed"
        BY <1>4, <2>5 DEF Fail, SettleAs
      <3>2. Life!Fail
        BY <2>1, <2>2, <2>3, <2>5, <3>1
           DEF AllUndone, Life!Fail, Life!Idle, Life!Becomes, Life!Terminal, Terminal
      <3> QED BY <3>2 DEF Life!Next
    <2> QED BY <2>4, <2>5
  <1>5. ASSUME NEW s \in Steps, driver = "undo", undoing = NoStep, NextToUndo(s)
        PROVE  Life!Unsettled /\ Life!Idle /\ s \in Undoable \ rolled /\ Life!InTurn(s)
    <2>1. status \notin {"completed", "failed"} /\ \A t \in Steps : task[t] = "none"
      BY <1>5 DEF AtTheEnd
    <2>2. s \in Undoable \ rolled
      BY <1>5 DEF LInv, Fresh, NextToUndo
    <2>3. s \in MaySkip \/ \A d \in Undoable :
            s \in DependsOn[d] /\ journal[d] = "success" => d \in rolled
      BY <1>5, UndoesInReverse, UndoableSteps DEF Recorded
    <2> QED BY <1>5, <2>1, <2>2, <2>3 DEF Life!Unsettled, Life!Idle, Life!InTurn
  <1>6. CASE Undo
    <2>1. PICK s \in Steps : NextToUndo(s) /\ undoing' = s
      BY <1>6 DEF Undo
    <2>2. {undoing'} \ {NoStep} = {s}
      BY <2>1, DefinitionAssumption
    <2>3. Life!Unsettled /\ Life!Idle /\ s \in Undoable \ rolled /\ Life!InTurn(s)
      BY <1>5, <1>6, <2>1 DEF Undo
    <2>4. Life!Hand(s)
      BY <1>6, <2>2, <2>3 DEF Undo, Life!Hand, row, tasks
    <2> QED BY <2>4 DEF Life!Next
  <1>7. CASE JournalUndo
    <2>1. driver = "undo" /\ undoing \in Undoable \ rolled /\ undoing \in Steps
      BY <1>7, UndoableSteps DEF JournalUndo, Recorded, LInv, Fresh
    <2>2. status \notin {"completed", "failed"} /\ \A t \in Steps : task[t] = "none"
      BY <2>1 DEF AtTheEnd
    <2>3. Life!Enter(undoing)
      BY <1>7, <2>1, <2>2 DEF JournalUndo, Enter, tasks, Life!Enter, Life!Unsettled
    <2> QED BY <2>1, <2>3 DEF Life!Next
  <1>8. CASE PassOver
    <2>1. PICK s \in Steps : NextToUndo(s) /\ journal[s] # "success" /\ Enter(s)
      BY <1>8 DEF PassOver
    <2>2. Life!Enter(s)
      BY <1>5, <1>8, <2>1 DEF PassOver, Enter, tasks, Life!Enter, Life!Idle
    <2> QED BY <2>2 DEF Life!Next
  <1> QED BY <1>1, <1>2, <1>3, <1>4, <1>6, <1>7, <1>8 DEF Driver

LEMMA TaskLives ==
  ASSUME DInv, LInv, NEW s \in Steps, StepTask(s) PROVE Life!Next \/ Unseen
  <1> USE DEF DInv, IInv, TypeOK, row, tasks
  <1>1. status \notin {"completed", "failed"}
    BY DEF AtTheEnd, StepTask, Attempt, NoAttempt, Skip, Succeed, JournalSuccess,
       Accumulate, Stopped, Retry, FailStep, JournalFailure, CollectOutputs, Report, Reports
  <1>2. \A p : Becomes(s, p) => \A t \in Steps : task'[t] = IF t = s THEN p ELSE task[t]
    BY DEF Becomes
  <1>0. undoing = NoStep /\ UNCHANGED undoing
    BY DEF Recorded, AtTheEnd, drive, StepTask, Attempt, NoAttempt, Skip, Succeed,
       JournalSuccess, Accumulate, Stopped, Retry, FailStep, JournalFailure,
       CollectOutputs, Report, Reports
  <1>3. CASE Attempt(s)
    <2>1. status = "running" /\ journal[s] = "none" /\ Reached(s)
      BY <1>1, <1>3 DEF Attempt, Terminal, Unjournaled, NotYet, LInv, Gated
    <2>2. s \notin Working /\ Working' = Working \cup {s}
      BY <1>2, <1>3 DEF Attempt, Working
    <2>3. Life!Attempt(s)
      BY <1>0, <1>3, <2>1, <2>2 DEF Attempt, Life!Attempt, Working
    <2>4. Life!Begin(s) \/ Life!Stray(s)
      BY <2>1, <2>3 DEF Life!Begin, Life!Stray, Reached
    <2> QED BY <2>4 DEF Life!Next
  <1>4. CASE JournalSuccess(s) \/ JournalFailure(s)
    <2>1. journal[s] = "none" /\ s \in Working
      BY <1>4 DEF JournalSuccess, JournalFailure, Unjournaled, NotYet, Working
    <2>2. Working' = Working \ {s}
      BY <1>2, <1>4 DEF JournalSuccess, JournalFailure, Working
    <2>3. /\ UNCHANGED <<status, rolled>>
          /\ \E entry \in {"success", "failure"} : journal' = [journal EXCEPT ![s] = entry]
      BY <1>4 DEF JournalSuccess, JournalFailure
    <2>4. Life!Record(s)
      BY <1>0, <1>1, <2>1, <2>2, <2>3 DEF Life!Record, Life!Unsettled, Working
    <2> QED BY <2>4 DEF Life!Next
  <1>5. CASE Skip(s) \/ Stopped(s) \/ Retry(s)
    <2>1. Working' = Working \ {s} /\ UNCHANGED <<status, journal, rolled>>
      BY <1>2, <1>5 DEF Skip, Stopped, Retry, Working
    <2>2. Life!Drop(s)
      BY <1>0, <2>1 DEF Life!Drop, Working
    <2> QED BY <2>2 DEF Life!Next
  <1>6. CASE NoAttempt(s) \/ Succeed(s) \/ Accumulate(s) \/ FailStep(s)
             \/ CollectOutputs(s) \/ Report(s)
    <2>1. UNCHANGED <<status, journal, rolled>>
      BY <1>6 DEF NoAttempt, Succeed, Accumulate, FailStep, CollectOutputs, Report
    <2>2. Working' = Working
      BY <1>2, <1>6 DEF NoAttempt, Succeed, Accumulate, FailStep, CollectOutputs, Report,
         Reports, Working
    <2> QED BY <1>0, <2>1, <2>2 DEF Unseen
  <1> QED BY <1>3, <1>4, <1>5, <1>6 DEF StepTask

LEMMA OutsideLives ==
  ASSUME DInv, Pause \/ Resume \/ Cancel \/ Crash \/ Recover PROVE Life!Next \/ Unseen
  <1> USE DEF DInv, IInv, TypeOK, row, tasks
  <1>1. CASE Pause
    BY <1>1 DEF Pause, Life!Pause, Life!Becomes, Life!Next, drive
  <1>2. CASE Resume
    <2>1. undoing = NoStep /\ \A s \in Steps : task[s] = "none"
      BY <1>2 DEF Resume, QuietWhenUndriven, Recorded, Terminal
    <2> QED BY <1>2, <2>1 DEF Resume, Life!Resume, Life!Idle, Life!Becomes, Life!Next
  <1>3. CASE Cancel
    BY <1>3 DEF Cancel, Terminal, Life!Cancel, Life!Terminal, Life!Becomes, Life!Next, drive
  <1>4. CASE Crash
    BY <1>4 DEF Crash, Life!Crash, Life!Next
  <1>5. CASE Recover
    BY <1>5 DEF Recover, Unseen, Working
  <1> QED BY <1>1, <1>2, <1>3, <1>4, <1>5

\* The driver, its tracker, its channel and the tasks implement the run RunLife
\* promises (ImplementsLife), for every step graph and over every crash: a step enters
\* the journal once; no attempt begins before what the step depends on is settled, or
\* skipped because it is blocked; a handler runs when nothing is at work and in its
\* turn, and not again once it is entered; and the run ends as the journal says.
THEOREM Implements == Spec => ImplementsLife
  <1>1. Init => Life!Init
    BY DEF Init, Life!Init
  <1>2. DInv /\ RInv /\ LInv /\ [Next]_vars => [Life!Next]_(Life!life)
    <2> SUFFICES ASSUME DInv, RInv, LInv, [Next]_vars
                 PROVE  Life!Next \/ UNCHANGED Life!life
      OBVIOUS
    <2>1. CASE UNCHANGED vars
      BY <2>1, Stutters DEF vars, row, drive, tasks, Unseen, Working
    <2>2. CASE Next
      BY <2>2, DriverLives, TaskLives, OutsideLives, Stutters DEF Next
    <2> QED BY <2>1, <2>2
  <1> QED BY <1>1, <1>2, DInvHolds, RInvHolds, LInvHolds, PTL
         DEF Spec, ImplementsLife, Life!Spec
===============================================================================
