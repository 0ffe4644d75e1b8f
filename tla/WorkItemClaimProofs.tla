------------------------ MODULE WorkItemClaimProofs ------------------------
(***************************************************************************)
(* Who works on the item and who holds its claim, for every value of the   *)
(* constants: the second inductive invariant, Attended, which rests on the *)
(* types of WorkItemProofs; from it that workers are alone, that a claim   *)
(* has a keeper, and that nobody takes the live claim of a job at work.    *)
(***************************************************************************)
EXTENDS WorkItemProofs

\* Job j is named in the ledger.
HeldBy(j) == claim = "held" /\ holder[2] = j
\* Where a finalize step can be.
Finishing == {"final", "done", "steal", "push", "merged", "review", "closing",
              "release", "give", "leave", "erred"}
\* At most one job of the item is queued or running.
OneActive == \A i, j \in Jobs : row[i] \in Active /\ row[j] \in Active => i = j
\* An executor is at work on a job that runs, or that was cancelled while it ran; the
\* process that is down has no executor and no run.
Attempts == \A j \in Jobs :
  /\ at[j] # "idle" => row[j] \in {"running", "killed"}
  /\ up /\ row[j] = "running" => at[j] # "idle"
  /\ ~up => at[j] = "idle" /\ step[j] = "idle"
\* The boot hook reads rows that failed at its start, and nothing changes them since.
Orphans == \A j \in Jobs : boot[j] # "none" => row[j] = "failed" /\ step[j] = "idle"
\* A finalize step belongs to a job whose executor waits for a run or has seen it end;
\* if it still waits, the run is its own and has not failed.
Finishers == \A j \in Jobs : step[j] \in Finishing =>
  /\ \/ at[j] \in {"wait", "ok", "quit", "halt", "fatal"}
     \/ at[j] = "idle" /\ row[j] \in Settled
  /\ Waiting(j) => driver = j /\ run # "failed"
\* The job in the ledger has started, and while it executes it holds the claim for the
\* agent it executes for.
Holding == \A j \in Jobs : HeldBy(j) =>
  /\ at[j] # "idle" => holder = Me(j)
  /\ at[j] \notin {"taken", "ready", "bad"}
  /\ row[j] \notin {"none", "queued"}
\* Only an executor that waits has its own agent step going on.
Drivers == \A j \in Jobs : Drives(j) /\ step[j] = "agent" => Waiting(j)
\* So a claim has somebody who will end it.
Attended == OneActive /\ Attempts /\ Orphans /\ Drivers /\ Finishers /\ Holding

\* Jobs, sessions and the operator are different numbers.
LEMMA Kinds ==
  /\ 0 \notin Jobs
  /\ Jobs \subseteq Procs /\ Jobs \subseteq Int
  /\ Jobs \cap Sessions = {} /\ Sessions \subseteq Procs
  /\ \A a, p : <<a, p>>[2] = p
  BY AgentAssumption, BoundAssumption DEF Jobs, Procs

\* A part of the invariant holds on while its variables stay.
LEMMA AttendedFrames ==
  ASSUME Attended
  PROVE  /\ UNCHANGED row => OneActive'
         /\ UNCHANGED <<at, row, up, step>> => Attempts'
         /\ UNCHANGED <<boot, row, step>> => Orphans'
         /\ UNCHANGED <<step, at, driver, run>> => Drivers'
         /\ UNCHANGED <<step, at, row, driver, run>> => Finishers'
         /\ UNCHANGED <<holder, claim, who, at, row>> => Holding'
         /\ UNCHANGED <<row, at, up, step, boot, driver, run, holder, claim, who>> => Attended'
  BY DEF Attended, OneActive, Attempts, Orphans, Drivers, Drives, Finishers,
     Holding, HeldBy, Me, Waiting

\* A claim that ends, or was there before, is nobody new's.
LEMMA NobodyNew ==
  ASSUME Attended, NoClaim \/ claim' # "held" \/ UNCHANGED <<holder, claim>>,
         UNCHANGED <<who, at, row>>
  PROVE  Holding'
  BY DEF Attended, Holding, HeldBy, Me, NoClaim

\* A job at work, or whose row has settled, may get the claim for its agent.
LEMMA MayHold ==
  ASSUME IInv, Attended, NEW j \in Jobs, NEW a,
         at[j] # "idle" => a = who[j],
         at[j] \notin {"taken", "ready", "bad"}, row[j] \notin {"none", "queued"},
         holder' = <<a, j>>, UNCHANGED <<who, at, row>>
  PROVE  Holding'
  BY Kinds DEF Attended, Holding, HeldBy, Me

\* So does a release, in either closure.
LEMMA ReleaseHolds ==
  ASSUME IInv, Attended, NEW j \in Jobs, NEW a,
         at[j] # "idle" => a = who[j],
         at[j] \notin {"taken", "ready", "bad"}, row[j] \notin {"none", "queued"},
         Confirm(<<a, j>>, TRUE) \/ GiveUp(<<a, j>>), UNCHANGED <<who, at, row>>
  PROVE  Holding'
<1>1. CASE Acquire(<<a, j>>)
  BY <1>1, MayHold DEF Acquire
<1>2. CASE NoClaim \/ UNCHANGED <<holder, claim>>
  BY <1>2, NobodyNew
<1> QED BY <1>1, <1>2 DEF Confirm, GiveUp, ledger

\* A finalize step moves within itself, or ends, and the claim with it.
LEMMA FinishesAnd ==
  ASSUME IInv, Attended, NEW p \in Procs, NEW x \in Finishing \cup {"idle"},
         step[p] \in Finishing, step' = Set(step, p, x),
         UNCHANGED <<row, at, up, boot, driver, run, who>>, Holding'
  PROVE  Attended'
<1>1. OneActive' /\ Orphans' /\ Attempts'
  BY Kinds DEF IInv, TypeOK, ExecsType, Set, Attended, OneActive, Orphans, Attempts,
     Finishing
<1>2. Drivers' /\ Finishers'
  BY Kinds DEF IInv, TypeOK, ExecsType, Set, Attended, Attempts, Drivers, Drives,
     Finishers, Finishing, Waiting
<1> QED BY <1>1, <1>2 DEF Attended

\* So it does if the claim stays.
LEMMA Finishes ==
  ASSUME IInv, Attended, NEW p \in Procs, NEW x \in Finishing \cup {"idle"},
         step[p] \in Finishing, step' = Set(step, p, x),
         UNCHANGED <<row, at, up, boot, driver, run, holder, claim, who>>
  PROVE  Attended'
  BY AttendedFrames, FinishesAnd

\* The discovery tick enqueues only while no job is active.
LEMMA TickAttends ==
  ASSUME IInv, Attended, Tick
  PROVE  Attended'
<1> USE DEF item, ledger, log, queue, execs, ticker, daemon, outside, bounds
<1>1. CASE TickLists \/ TickFinds \/ TickSkips \/ TickRefused \/ Swap
  BY <1>1, AttendedFrames DEF TickLists, TickFinds, TickSkips, TickRefused, Looks, Swap
<1> USE DEF Attended, OneActive, Attempts, Orphans, Drivers, Finishers, Holding,
           Active, Settled, Drives, Waiting, HeldBy, Me
<1>2. ASSUME NEW j \in Jobs, Enqueue(j) PROVE Attended'
  BY <1>2 DEF Enqueue, InFlight, Set
<1> QED BY <1>1, <1>2 DEF Tick

\* The sweeps release a claim or stop the job that has it.
LEMMA SweepAttends ==
  ASSUME IInv, Attended, Sweep \/ ReviewSweep
  PROVE  Attended'
<1> USE DEF item, ledger, log, queue, execs, ticker, daemon, outside, bounds
<1>1. CASE SweepSuspects \/ SweepForgets \/ SweepFindsMerged
  BY <1>1, AttendedFrames DEF SweepSuspects, SweepForgets, SweepFindsMerged
<1> USE DEF Attended, OneActive, Attempts, Orphans, Drivers, Finishers, Holding,
           Active, Settled, Drives, Waiting, HeldBy, Me
<1>2. CASE SweepReleases
  BY <1>2 DEF SweepReleases, Serving, Exited, NoClaim, RestoreItem, LeftAlone,
     Failures, Park, Requeue, Terminal, Merged, KeptPr, Numbers
<1>3. CASE Promote
  BY <1>3 DEF Promote, Promotable, Kill
<1> QED BY <1>1, <1>2, <1>3 DEF Sweep, ReviewSweep

\* An executor takes the claim after its job has started, and gives it back, or is
\* stopped, before its job ends.
LEMMA ExecutorAttends ==
  ASSUME IInv, Attended, NEW j \in Jobs, Executor(j)
  PROVE  Attended'
<1> USE DEF item, ledger, log, queue, execs, ticker, daemon, outside, bounds
<1>1. CASE FailureHook(j)
  BY <1>1, AttendedFrames DEF FailureHook, CapComment
<1> USE DEF Attended, OneActive, Attempts, Orphans, Drivers, Finishers, Holding,
           Active, Settled, Drives, Waiting, HeldBy, Me
<1>2. CASE Dequeue(j)
  BY <1>2 DEF IInv, TypeOK, QueueType, ExecsType, DaemonType, Dequeue, Serving, Set
<1>3. CASE Prepare(j)
  BY <1>3, Kinds DEF IInv, TypeOK, QueueType, ExecsType, DaemonType, Prepare,
     Terminal, Set
<1>4. CASE JobClaims(j)
  BY <1>4 DEF IInv, TypeOK, QueueType, ExecsType, DaemonType, JobClaims, Claimable,
     Claim, Set, Stale, Terminal, Acquire
<1>5. CASE SetUpFails(j) \/ RollBack(j)
  BY <1>5 DEF IInv, TypeOK, ExecsType, SetUpFails, RollBack, NoClaim, Set
<1>6. CASE AttachRun(j)
  BY <1>6, Kinds DEF IInv, TypeOK, QueueType, ExecsType, DaemonType, Finishing,
     AttachRun, Verdict, Driven, Set
<1>7. CASE WaiterSeesEnd(j)
  BY <1>7 DEF WaiterSeesEnd, Goes, Verdict, Set
<1>8. CASE WaiterSeesJobCancelled(j)
  BY <1>8 DEF WaiterSeesJobCancelled, Goes, Set
<1>9. CASE WaiterLosesClaim(j)
  BY <1>9, Kinds DEF Finishing, WaiterLosesClaim, Owns, Goes, Set
<1>10. CASE TakesOver(j)
  BY <1>10, Kinds DEF Finishing, TakesOver, Driven, Set
<1>11. CASE Drop(j)
  BY <1>11 DEF IInv, TypeOK, ExecsType, Drop, Confirm, Acquire, Set, Exited, NoClaim,
     Stale
<1>14. CASE DropEnds(j)
  BY <1>14 DEF IInv, TypeOK, ExecsType, DropEnds, FailureComment, Set, GiveUp, NoClaim
<1>12. CASE StopOnRequest(j)
  BY <1>12 DEF StopOnRequest, LedgerRelease, StoppedComment, Set, NoClaim
<1>13. CASE Report(j)
  BY <1>13 DEF IInv, TypeOK, QueueType, ExecsType, DaemonType, Report, Set
<1> QED BY <1>1, <1>2, <1>3, <1>4, <1>5, <1>6, <1>7, <1>8, <1>9, <1>10, <1>11,
    <1>12, <1>13, <1>14 DEF Executor

\* A run's driver finalizes for the executor that waits for it.
LEMMA FinalizerAttends ==
  ASSUME IInv, Attended, NEW j \in Jobs, Finalizer(j)
  PROVE  Attended'
<1> USE DEF item, ledger, log, queue, execs, ticker, daemon, outside, bounds
<1> USE DEF Attended, OneActive, Attempts, Orphans, Drivers, Finishers, Holding,
           Active, Settled, Drives, Waiting, HeldBy, Me
<1>1. CASE AgentEnds(j)
  BY <1>1, Kinds DEF IInv, TypeOK, QueueType, ExecsType, DaemonType, Finishing,
     AgentEnds, StepGoes, RunEnds, Set
<1>2. CASE Finalize(j)
  <2>1. step[j] \in Finishing
        /\ (step' = Set(step, j, "done") \/ step' = Set(step, j, "erred"))
    BY <1>2 DEF Finalize, Finishing, StepGoes
  <2>2. UNCHANGED <<row, at, up, boot, driver, run, holder, claim, who>>
    BY <1>2 DEF Finalize, StepGoes
  <2> QED BY <2>1, <2>2, Finishes, Kinds DEF Finishing
<1>3. CASE FinalizeReleases(j) \/ FinalizeGives(j)
  <2>1. step[j] \in Finishing
        /\ (step' = Set(step, j, "give") \/ step' = Set(step, j, "leave"))
    BY <1>3 DEF FinalizeReleases, FinalizeGives, Finishing, StepGoes
  <2>2. UNCHANGED <<row, at, up, boot, driver, run, who>>
    BY <1>3 DEF FinalizeReleases, FinalizeGives, StepGoes
  <2>3. Holding'
    <3>1. at[j] \notin {"taken", "ready", "bad"} /\ row[j] \notin {"none", "queued"}
      BY <2>1
    <3>2. Confirm(<<who[j], j>>, TRUE) \/ GiveUp(<<who[j], j>>)
      BY <1>3 DEF FinalizeReleases, FinalizeGives
    <3> QED BY <2>2, <3>1, <3>2, ReleaseHolds
  <2> QED BY <2>1, <2>2, <2>3, FinishesAnd, Kinds DEF Finishing
<1>6. CASE FinalizeEnds(j)
  BY <1>6, Kinds DEF IInv, TypeOK, ExecsType, Finishing, FinalizeEnds, StepGoes,
     SuccessComment, RunEnds, Set
<1>4. CASE FinalizeRetries(j)
  <2>1. step[j] \in Finishing /\ step' = Set(step, j, "final")
    BY <1>4 DEF FinalizeRetries, Finishing, StepGoes
  <2>2. UNCHANGED <<row, at, up, boot, driver, run, holder, claim, who>>
    BY <1>4 DEF FinalizeRetries, StepGoes
  <2> QED BY <2>1, <2>2, Finishes, Kinds DEF Finishing
<1>5. CASE FinalizeFails(j)
  BY <1>5, Kinds DEF IInv, TypeOK, QueueType, ExecsType, DaemonType, Finishing,
     FinalizeFails, StepGoes, RunEnds, Set
<1> QED BY <1>1, <1>2, <1>3, <1>4, <1>5, <1>6 DEF Finalizer

\* item_done takes a claim only for its caller, who is at work.
LEMMA DoneAttends ==
  ASSUME IInv, Attended, NEW p \in Procs, Done(p) \/ Heartbeat(p)
  PROVE  Attended'
<1> USE DEF item, ledger, log, queue, execs, ticker, daemon, outside, bounds
<1>1. CASE Heartbeat(p)
  BY <1>1, AttendedFrames DEF Heartbeat
<1> USE DEF Attended, OneActive, Attempts, Orphans, Drivers, Finishers, Holding,
           Active, Settled, Drives, Waiting, HeldBy, Me
<1>2. CASE DoneBegins(p) \/ DoneSteals(p)
  <2>1. step[p] \in Finishing /\ \E x \in Finishing : step' = Set(step, p, x)
    BY <1>2 DEF DoneBegins, DoneSteals, Publishes, Finishing, StepGoes
  <2>2. UNCHANGED <<row, at, up, boot, driver, run, who>>
    BY <1>2 DEF DoneBegins, DoneSteals, Publishes, StepGoes
  <2>3. Acquire(Me(p)) \/ NoClaim \/ UNCHANGED <<holder, claim>>
    BY <1>2 DEF DoneBegins, DoneSteals, Publishes, ledger
  <2>4. Holding'
    <3>1. CASE NoClaim \/ UNCHANGED <<holder, claim>>
      BY <3>1, <2>2, NobodyNew
    <3>2. CASE Acquire(Me(p)) /\ p \in Jobs
      <4>1. at[p] \notin {"taken", "ready", "bad"} /\ row[p] \notin {"none", "queued"}
        BY <2>1, <3>2
      <4>2. holder' = <<who[p], p>>
        BY <3>2 DEF Acquire
      <4> QED BY <2>2, <3>2, <4>1, <4>2, MayHold
    <3>3. CASE Acquire(Me(p)) /\ p \notin Jobs
      BY <3>3, Kinds DEF Acquire
    <3> QED BY <2>3, <3>1, <3>2, <3>3
  <2> QED BY <2>1, <2>2, <2>4, FinishesAnd
<1>3. CASE SeesMerged(p)
  <2>1. step[p] \in Finishing /\ step' = Set(step, p, "merged")
    BY <1>3 DEF SeesMerged, Finishing, StepGoes
  <2>2. UNCHANGED <<row, at, up, boot, driver, run, holder, claim, who>>
    BY <1>3 DEF SeesMerged, StepGoes
  <2> QED BY <2>1, <2>2, Finishes DEF Finishing
<1>4. CASE MarkCompleted(p)
  <2>1. step[p] \in Finishing
        /\ (step' = Set(step, p, "closing") \/ step' = Set(step, p, "erred"))
    BY <1>4 DEF MarkCompleted, Finishing, StepGoes
  <2>2. UNCHANGED <<row, at, up, boot, driver, run, holder, claim, who>>
    BY <1>4 DEF MarkCompleted, StepGoes
  <2> QED BY <2>1, <2>2, Finishes DEF Finishing
<1>5. CASE Push(p)
  <2>1. step[p] \in Finishing /\ step' = Set(step, p, "review")
    BY <1>5 DEF Push, Finishing
  <2>2. UNCHANGED <<row, at, up, boot, driver, run, holder, claim, who>>
    BY <1>5 DEF Push
  <2> QED BY <2>1, <2>2, Finishes DEF Finishing
<1>6. CASE PushFails(p)
  <2>1. step[p] \in Finishing /\ step' = Set(step, p, "erred")
    BY <1>6 DEF PushFails, Finishing, StepGoes
  <2>2. UNCHANGED <<row, at, up, boot, driver, run, holder, claim, who>>
    BY <1>6 DEF PushFails, StepGoes
  <2> QED BY <2>1, <2>2, Finishes DEF Finishing
<1>7. CASE NothingDone(p)
  BY <1>7 DEF Finishing, NothingDone, Opened, StepGoes, Set, Owns, Numbers
<1>8. CASE MarkInReview(p)
  <2>1. step[p] \in Finishing
        /\ (step' = Set(step, p, "leave") \/ step' = Set(step, p, "erred"))
    BY <1>8 DEF MarkInReview, Finishing, StepGoes
  <2>2. UNCHANGED <<row, at, up, boot, driver, run, holder, claim, who>>
    BY <1>8 DEF MarkInReview, StepGoes
  <2> QED BY <2>1, <2>2, Finishes DEF Finishing
<1>9. CASE DoneCloses(p)
  <2>1. step[p] \in Finishing
        /\ (step' = Set(step, p, "release") \/ step' = Set(step, p, "idle"))
    BY <1>9 DEF DoneCloses, Finishing, StepGoes
  <2>2. UNCHANGED <<row, at, up, boot, driver, run, who>>
    BY <1>9 DEF DoneCloses, StepGoes
  <2>3. claim' # "held" \/ UNCHANGED <<holder, claim>>
    BY <1>9 DEF DoneCloses, ledger
  <2> QED BY <2>1, <2>2, <2>3, NobodyNew, FinishesAnd DEF Finishing
<1> QED BY <1>1, <1>2, <1>3, <1>4, <1>5, <1>6, <1>7, <1>8, <1>9 DEF Done

\* A session's claims are no job's.
LEMMA SessionAttends ==
  ASSUME IInv, Attended, NEW s \in Sessions, Session(s)
  PROVE  Attended'
<1> USE DEF item, ledger, log, queue, execs, ticker, daemon, outside, bounds
<1> USE DEF Attended, OneActive, Attempts, Orphans, Drivers, Finishers, Holding,
           Active, Settled, Drives, Waiting, HeldBy, Me
<1>1. CASE SessionClaims(s)
  BY <1>1, Kinds DEF SessionClaims, Call, Idle, Claimable, Claim, Stale, Terminal,
     Acquire
<1>2. CASE SessionReleases(s) \/ SessionGives(s)
  <2>1. UNCHANGED <<row, at, up, boot, driver, run, who>>
    BY <1>2 DEF SessionReleases, SessionGives, StepGoes
  <2>2. \A j \in Jobs : step'[j] = step[j]
    <3>1. \A j \in Jobs : j \in Procs /\ j # s
      BY Kinds
    <3>2. step \in [Procs -> Steps]
      BY DEF IInv, TypeOK, ExecsType
    <3>3. step' = Set(step, s, "give") \/ step' = Set(step, s, "idle")
      BY <1>2 DEF SessionReleases, SessionGives, StepGoes
    <3> QED BY ONLY <3>1, <3>2, <3>3 DEF Set
  <2>3. Confirm(Me(s), FALSE) \/ GiveUp(Me(s))
    BY <1>2 DEF SessionReleases, SessionGives
  <2>4. Acquire(Me(s)) \/ NoClaim \/ UNCHANGED <<holder, claim>>
    BY <2>3 DEF Confirm, GiveUp
  <2>5. Holding'
    <3>1. CASE Acquire(Me(s))
      BY <3>1, Kinds DEF Acquire
    <3> QED BY <2>1, <2>4, <3>1, NobodyNew
  <2>6. OneActive' /\ Orphans' /\ Attempts' /\ Drivers' /\ Finishers'
    BY <2>1, <2>2
  <2> QED BY <2>5, <2>6
<1>3. CASE SessionCallsDone(s)
  BY <1>3, Kinds DEF SessionCallsDone, Follows, Idle, Set, Owns, Call
<1>4. CASE SessionReturns(s)
  BY <1>4, Kinds DEF SessionReturns, StepGoes, Owns, Set
<1>5. CASE SessionExits(s)
  BY <1>5, Kinds DEF SessionExits, Fault, Set
<1> QED BY <1>1, <1>2, <1>3, <1>4, <1>5 DEF Session

\* The operators' calls stop jobs and delete claims, and start nothing.
LEMMA CallAttends ==
  ASSUME IInv, Attended, Operator
  PROVE  Attended'
<1> USE DEF item, ledger, log, queue, execs, ticker, daemon, outside, bounds
<1>1. CASE RedispatchSame \/ BeginCancel \/ BeginPause \/ Resume
  BY <1>1, AttendedFrames DEF RedispatchSame, BeginCancel, BeginPause, Resume, Call
<1> USE DEF Attended, OneActive, Attempts, Orphans, Drivers, Finishers, Holding,
           Active, Settled, Drives, Waiting, HeldBy, Me
<1>2. ASSUME NEW a \in Agents, Redispatch(a) PROVE Attended'
  BY <1>2, AttendedFrames DEF Redispatch
<1>10. CASE HandJobs
  BY <1>10 DEF HandJobs, Stop, Kill
<1>11. CASE HandClaim
  BY <1>11 DEF HandClaim, Stop, TakeFromOthers, NoClaim
<1>3. ASSUME NEW a \in Agents, Reassign(a) PROVE Attended'
  BY <1>3 DEF Reassign, Call, TakeFromOthers, NoClaim
<1>4. ASSUME NEW j \in Jobs, CancelJob(j) PROVE Attended'
  BY <1>4 DEF CancelJob, Call, Kill, Park
<1>5. CASE CancelRun
  BY <1>5 DEF CancelRun, Call, RunOpen
<1>6. CASE StopRun
  BY <1>6 DEF StopRun, Stop, RunOpen
<1>7. CASE StopJobs
  BY <1>7 DEF StopJobs, Stop, Kill
<1>8. CASE CancelItem
  BY <1>8 DEF CancelItem, Stop
<1>9. CASE StopItem
  BY <1>9 DEF StopItem, Stop, NoClaim
<1> QED BY <1>1, <1>2, <1>3, <1>4, <1>5, <1>6, <1>7, <1>8, <1>9, <1>10, <1>11
    DEF Operator, Stopping

\* A crash ends every executor; the boot fails every job that ran.
LEMMA WorldAttends ==
  ASSUME IInv, Attended, Crash \/ Boot \/ DriverErrs \/ Age \/ PrSettles
  PROVE  Attended'
<1> USE DEF item, ledger, log, queue, execs, ticker, daemon, outside, bounds
<1>1. CASE Age \/ PrSettles
  BY <1>1, AttendedFrames DEF Age, PrSettles, Fault, Decide
<1> USE DEF Attended, OneActive, Attempts, Orphans, Drivers, Finishers, Holding,
           Active, Settled, Drives, Waiting, HeldBy, Me
<1>2. CASE Crash
  BY <1>2, Kinds DEF Finishing, Crash, Fault
<1>3. CASE Restart
  BY <1>3 DEF Restart
<1>4. ASSUME NEW j \in Jobs, ReleaseOrphan(j) \/ GiveOrphan(j) PROVE Attended'
  <2>1. UNCHANGED <<row, at, up, step, driver, run, who>> /\ boot[j] # "none"
    BY <1>4 DEF ReleaseOrphan, GiveOrphan
  <2>2. \A i \in Jobs : boot'[i] # "none" => boot[i] # "none"
    BY <1>4 DEF IInv, TypeOK, DaemonType, ReleaseOrphan, GiveOrphan, Set
  <2>3. row[j] = "failed" /\ at[j] = "idle"
    BY <2>1
  <2>4. Confirm(<<payload[j], j>>, TRUE) \/ GiveUp(<<payload[j], j>>)
    BY <1>4 DEF ReleaseOrphan, GiveOrphan, Orphan
  <2>5. Holding'
    BY <2>1, <2>3, <2>4, ReleaseHolds
  <2>6. OneActive' /\ Attempts' /\ Drivers' /\ Finishers'
    BY <2>1, AttendedFrames
  <2>7. Orphans'
    BY <2>1, <2>2
  <2> QED BY <2>5, <2>6, <2>7
<1>5. ASSUME NEW j \in Jobs, RestoreOrphan(j) PROVE Attended'
  BY <1>5 DEF RestoreOrphan, Set, Failures, CapComment, Terminal, LedgerRelease,
     Restored, ReArm, NoClaim
<1>6. CASE DriverErrs
  BY <1>6, Kinds DEF IInv, TypeOK, ExecsType, Finishing, DriverErrs, Fault, Set
<1> QED BY <1>1, <1>2, <1>3, <1>4, <1>5, <1>6 DEF Boot, OrphanSteps

\* Nobody works on the item that was just marked ready.
LEMMA AttendedAtFirst == Init => Attended
  BY Names, Kinds DEF Init, Attended, OneActive, Attempts, Orphans, Drivers, Finishers,
     Finishing, Holding, HeldBy, Active

\* Every reachable state has these relations: jobs, executors, the run's driver, the
\* boot hook and the claim never drift apart, across crashes and restarts.
THEOREM Attending == Spec => []Attended
<1>1. ASSUME IInv, Attended, [Next]_vars PROVE Attended'
  <2>1. CASE UNCHANGED vars
    BY <1>1, <2>1, AttendedFrames DEF vars, item, ledger, queue, execs, daemon,
       outside, ticker, bounds, log
  <2>2. CASE Next
    BY <1>1, <2>2, TickAttends, SweepAttends, ExecutorAttends, FinalizerAttends,
       DoneAttends, SessionAttends, CallAttends, WorldAttends DEF Next
  <2> QED BY <1>1, <2>1, <2>2
<1> QED BY <1>1, AttendedAtFirst, Inductive, PTL DEF Spec

\* Two jobs of one item are never both active, so two executors are at the item only
\* while one's job is cancelled (WorkersAreAlone), for every number of jobs, sessions
\* and crashes.
THEOREM WorkersAlone == Spec => []WorkersAreAlone
<1>1. Attended => WorkersAreAlone
  BY DEF Attended, OneActive, Attempts, WorkersAreAlone, Active
<1> QED BY <1>1, Attending, PTL

\* A claim of a job in the ledger has a keeper: an executor that will release it, or a
\* row the liveness sweep reads as dead (ClaimHasKeeper): no claim is left for nobody.
THEOREM ClaimIsKept == Spec => []ClaimHasKeeper
<1>1. IInv /\ Attended => ClaimHasKeeper
  BY Kinds DEF IInv, TypeOK, QueueType, Attended, Attempts, Holding, HeldBy,
     ClaimHasKeeper,
     Exited, Settled, Active, Serving
<1> QED BY <1>1, Attending, Inductive, PTL

\* The ledger row stays as it is.
Kept == claim' = "held" /\ holder' = holder

\* A job that is running has not exited, whoever asks.
LEMMA AtWorkIsThere ==
  ASSUME AtWork(holder), NEW here
  PROVE  holder[2] \in Jobs /\ ~Exited(holder, here)
  BY Kinds DEF AtWork, Exited, Settled

\* So nobody else's item_release touches its live claim.
LEMMA ReleaseSpares ==
  ASSUME Live, AtWork(holder), NEW o, NEW here, Confirm(o, here) \/ GiveUp(o), holder # o
  PROVE  Kept
  BY AtWorkIsThere DEF Live, Confirm, GiveUp, Kept, ledger

\* Nor does the liveness sweep.
LEMMA SweepSpares ==
  ASSUME Live, AtWork(holder), Sweep
  PROVE  Kept
<1>1. CASE SweepSuspects \/ SweepForgets
  BY <1>1 DEF Live, SweepSuspects, SweepForgets, Kept, ledger
<1>2. CASE SweepReleases
  BY <1>2, AtWorkIsThere DEF SweepReleases
<1> QED BY <1>1, <1>2 DEF Sweep

\* Nor another job's executor.
LEMMA ExecutorSpares ==
  ASSUME IInv, Attended, Live, AtWork(holder), NEW j \in Jobs, Executor(j)
  PROVE  Kept \/ Moves(holder[2])
<1> USE DEF Kept, Live, ledger
<1>1. CASE JobClaims(j)
  <2>1. CASE holder = Me(j)
    BY <1>1, <2>1, Kinds DEF IInv, TypeOK, ExecsType, JobClaims, Me, Moves, Set
  <2>2. CASE holder # Me(j)
    BY <1>1, <2>2 DEF JobClaims, Claimable
  <2> QED BY <2>1, <2>2
<1>2. CASE Drop(j) \/ DropEnds(j) \/ RollBack(j)
  <2>1. CASE holder = Me(j)
    BY <1>2, <2>1, Kinds DEF IInv, TypeOK, ExecsType, Drop, DropEnds, RollBack, Me,
       Moves, Set
  <2>2. CASE holder # Me(j)
    BY <1>2, <2>2, ReleaseSpares DEF Drop, DropEnds, RollBack
  <2> QED BY <2>1, <2>2
<1>3. CASE StopOnRequest(j)
  BY <1>3, Kinds DEF IInv, TypeOK, ExecsType, StopOnRequest, LedgerRelease, Me,
     Moves, Set
<1>4. CASE \/ Dequeue(j) \/ Prepare(j) \/ SetUpFails(j) \/ AttachRun(j) \/ TakesOver(j)
           \/ Report(j) \/ FailureHook(j)
  BY <1>4 DEF Dequeue, Prepare, SetUpFails, AttachRun, TakesOver, Report, FailureHook
<1>5. CASE WaiterSeesEnd(j) \/ WaiterSeesJobCancelled(j) \/ WaiterLosesClaim(j)
  BY <1>5 DEF WaiterSeesEnd, WaiterSeesJobCancelled, WaiterLosesClaim, Goes
<1> QED BY <1>1, <1>2, <1>3, <1>4, <1>5 DEF Executor

\* Nor another run's finalizer.
LEMMA FinalizerSpares ==
  ASSUME IInv, Attended, Live, AtWork(holder), NEW j \in Jobs, Finalizer(j)
  PROVE  Kept \/ Moves(holder[2])
<1> USE DEF Kept, Live, ledger
<1>1. CASE \/ AgentEnds(j) \/ Finalize(j) \/ FinalizeEnds(j) \/ FinalizeRetries(j)
           \/ FinalizeFails(j)
  BY <1>1 DEF AgentEnds, Finalize, FinalizeEnds, FinalizeRetries, FinalizeFails
<1>2. CASE FinalizeReleases(j) \/ FinalizeGives(j)
  <2>1. \/ step[j] = "release" /\ step' = Set(step, j, "give")
        \/ step[j] = "give" /\ step' = Set(step, j, "leave")
    BY <1>2 DEF FinalizeReleases, FinalizeGives, StepGoes
  <2>2. CASE holder = Me(j)
    BY <2>1, <2>2, Kinds DEF IInv, TypeOK, ExecsType, Me, Moves, Set
  <2>3. CASE holder # Me(j)
    BY <1>2, <2>3, ReleaseSpares DEF FinalizeReleases, FinalizeGives
  <2> QED BY <2>2, <2>3
<1> QED BY <1>1, <1>2 DEF Finalizer

\* Nor somebody else's item_done.
LEMMA DoneSpares ==
  ASSUME IInv, Attended, Live, AtWork(holder), NEW p \in Procs, Done(p) \/ Heartbeat(p)
  PROVE  Kept \/ Moves(holder[2])
<1> USE DEF Kept, Live, ledger
<1>1. CASE DoneBegins(p) \/ DoneSteals(p) \/ DoneCloses(p)
  <2>1. CASE holder = Me(p)
    <3>1. \E x \in Steps : x # step[p] /\ step' = Set(step, p, x)
      BY <1>1 DEF DoneBegins, DoneSteals, DoneCloses, Publishes, StepGoes, Steps
    <3> QED BY <2>1, <3>1 DEF IInv, TypeOK, ExecsType, Me, Moves, Set
  <2>2. CASE holder # Me(p)
    <3>1. ~DeadHolder(p) /\ ~Owns(p)
      BY <2>2, AtWorkIsThere DEF DeadHolder, Owns
    <3>2. ~Stealable(p)
      BY <2>2 DEF Stealable
    <3> QED BY <1>1, <2>2, <3>1, <3>2 DEF DoneBegins, DoneSteals, DoneCloses
  <2> QED BY <2>1, <2>2
<1>2. CASE NothingDone(p)
  <2>1. step[p] # "idle" /\ step' = Set(step, p, "erred") /\ step[p] # "erred"
    BY <1>2 DEF NothingDone, StepGoes
  <2>2. Owns(p) => Moves(holder[2])
    BY <2>1 DEF Owns, Me, Moves, IInv, TypeOK, ExecsType, Set
  <2> QED BY <1>2, <2>2 DEF NothingDone
<1>3. CASE \/ SeesMerged(p) \/ MarkCompleted(p) \/ Push(p) \/ PushFails(p)
           \/ MarkInReview(p) \/ Heartbeat(p)
  BY <1>3 DEF SeesMerged, MarkCompleted, Push, PushFails, MarkInReview, Heartbeat
<1> QED BY <1>1, <1>2, <1>3 DEF Done

\* Nor a session.
LEMMA SessionSpares ==
  ASSUME IInv, Attended, Live, AtWork(holder), NEW s \in Sessions, Session(s)
  PROVE  Kept
<1> USE DEF Kept, Live, ledger
<1>1. holder # Me(s)
  BY Kinds DEF AtWork, Me
<1>2. CASE SessionClaims(s)
  BY <1>1, <1>2 DEF SessionClaims, Claimable
<1>3. CASE SessionReleases(s) \/ SessionGives(s)
  BY <1>1, <1>3, ReleaseSpares DEF SessionReleases, SessionGives
<1>4. CASE SessionCallsDone(s) \/ SessionReturns(s) \/ SessionExits(s)
  BY <1>4 DEF SessionCallsDone, SessionReturns, SessionExits
<1> QED BY <1>2, <1>3, <1>4 DEF Session

\* Nor a crash, the boot hook or a merge.
LEMMA WorldSpares ==
  ASSUME IInv, Attended, Live, AtWork(holder),
         Crash \/ Boot \/ DriverErrs \/ Age \/ PrSettles
  PROVE  Kept
<1> USE DEF Kept, Live, ledger
<1>1. CASE Crash \/ Restart \/ DriverErrs \/ Age
  BY <1>1 DEF Crash, Restart, DriverErrs, Age
<1>2. CASE PrSettles
  BY <1>2 DEF PrSettles, Decide
<1>3. ASSUME NEW j \in Jobs, boot[j] # "none" PROVE holder # Orphan(j)
  BY <1>3, Kinds DEF Attended, Orphans, AtWork, Orphan
<1>4. ASSUME NEW j \in Jobs, ReleaseOrphan(j) \/ GiveOrphan(j) PROVE Kept
  BY <1>3, <1>4, ReleaseSpares DEF ReleaseOrphan, GiveOrphan
<1>5. ASSUME NEW j \in Jobs, RestoreOrphan(j) PROVE Kept
  BY <1>3, <1>5 DEF RestoreOrphan, LedgerRelease
<1> QED BY <1>1, <1>2, <1>4, <1>5 DEF Boot, OrphanSteps

\* Nothing takes the live claim of a job at work but that job itself, an operator's call
\* and a promoted pull request (LiveClaimIsKept), for every value of the constants.
THEOREM LiveClaimStays == Spec => LiveClaimIsKept
<1>1. ASSUME IInv, Attended, [Next]_vars, Live, AtWork(holder)
      PROVE  Kept \/ Moves(holder[2]) \/ Operator \/ Promote
  <2>1. CASE UNCHANGED vars
    BY <1>1, <2>1 DEF vars, ledger, Live, Kept
  <2>2. CASE Tick
    BY <1>1, <2>2 DEF Tick, TickLists, TickFinds, TickSkips, TickRefused, Looks, Swap,
       Enqueue, ledger, Live, Kept
  <2>3. CASE SweepFindsMerged
    BY <1>1, <2>3 DEF SweepFindsMerged, ledger, Live, Kept
  <2> QED BY <1>1, <2>1, <2>2, <2>3, SweepSpares, ExecutorSpares, FinalizerSpares,
             DoneSpares, SessionSpares, WorldSpares DEF Next, ReviewSweep
<1>2. ASSUME IInv, Attended, [Next]_vars
      PROVE  [Live /\ AtWork(holder) /\ ~(claim' = "held" /\ holder' = holder)
                => Moves(holder[2]) \/ Operator \/ Promote]_vars
  BY <1>1, <1>2 DEF Kept
<1> QED BY <1>2, Inductive, Attending, PTL DEF Spec, LiveClaimIsKept
=============================================================================
