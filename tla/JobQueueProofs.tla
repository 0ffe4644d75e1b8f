--------------------------- MODULE JobQueueProofs ---------------------------
(***************************************************************************)
(* Theorems about JobQueue for every set of jobs and workers and all       *)
(* values of the retry, time-out and retention parameters.                 *)
(*                                                                         *)
(* The safety invariants are not inductive one by one.  IInv is: the five  *)
(* of them together with the type invariant and PoolShape, which ties what *)
(* a worker is doing to the kind of job it holds.                          *)
(***************************************************************************)
EXTENDS JobQueue, TLAPS

PoolShape ==
  /\ mode # "up" => \A w \in Workers : pc[w] = "off"
  /\ \A w \in Workers :
       /\ pc[w] \in {"off", "idle"} => job[w] = NoJob
       /\ Live(w) => job[w] \in Jobs
       /\ pc[w] \in {"open", "wait", "grace", "hook"} =>
            job[w] \in InProcess \ Unreadable
       /\ pc[w] = "sub" => job[w] \notin InProcess

TInv == TypeOK /\ PoolShape

IInv ==
  /\ TInv
  /\ HeldRowIsThisAttempt
  /\ OneWorkerPerJob
  /\ RunningRowIsHeld
  /\ FlagIsHonoured
  /\ WatchedAttemptIsCancellable

-----------------------------------------------------------------------------
(* Writes to the table. *)

\* Whatever a worker records of its job is a write to that row alone, keeps the
\* types, and re-queues the row or calls it a success only if nobody cancelled it.
Records(j) ==
  /\ RowTypes'
  /\ cancelRequested' = cancelRequested
  /\ \A k \in Jobs \ {j} : state'[k] = state[k] /\ retries'[k] = retries[k]
  /\ state'[j] \in Settled \cup {"deleted", "queued"}
  /\ state'[j] \in {"queued", "exited"} => ~cancelRequested[j]
  /\ state[j] = "deleted" => state'[j] = "deleted"

\* Settling a row keeps the types and touches no other row.
LEMMA SettleTypes ==
  ASSUME RowTypes, NEW j \in Jobs, NEW o \in Settled, Settle(j, o)
  PROVE  /\ RowTypes' /\ state'[j] = o
         /\ cancelRequested' = cancelRequested /\ retries' = retries
         /\ \A k \in Jobs \ {j} : state'[k] = state[k]
BY NumbersAssumption DEF RowTypes, Settle, Settled, StaleAfter, Null, Tokens

\* So does a retry, which stays within max_retries.
LEMMA RequeueTypes ==
  ASSUME RowTypes, NEW j \in Jobs, NEW d \in 0 .. Backoff,
         retries[j] < MaxRetries, Requeue(j, d)
  PROVE  /\ RowTypes' /\ state'[j] = "queued"
         /\ cancelRequested' = cancelRequested
         /\ \A k \in Jobs \ {j} : state'[k] = state[k] /\ retries'[k] = retries[k]
<1>1. retries[j] + 1 \in Tokens
  BY NumbersAssumption DEF RowTypes, Tokens
<1>2. RowTypes'
  BY <1>1, NumbersAssumption DEF RowTypes, Requeue, Settled, StaleAfter, Null, Tokens
<1>3. QED
  BY <1>2 DEF RowTypes, Requeue

\* Queue::complete is such a write.
LEMMA CompleteRecords ==
  ASSUME RowTypes, NEW j \in Jobs, NEW s \in BOOLEAN, Complete(j, s)
  PROVE  Records(j)
<1>1. CASE state[j] = "deleted"
  BY <1>1 DEF Complete, Records, RowTypes, rows
<1>2. CASE state[j] # "deleted"
  <2>1. PICK o \in Settled : Settle(j, o) /\ (o = "exited" => ~cancelRequested[j])
    BY <1>2, Zenon DEF Complete, Settled
  <2>2. QED
    BY <2>1, <1>2, SettleTypes DEF Records, Settled
<1>3. QED
  BY <1>1, <1>2

\* Queue::fail is such a write.
LEMMA FailRecords ==
  ASSUME RowTypes, NEW j \in Jobs, NEW f \in BOOLEAN, NEW d \in 0 .. Backoff,
         Fail(j, f, d)
  PROVE  Records(j)
<1>1. CASE state[j] = "deleted"
  BY <1>1 DEF Fail, Records, RowTypes, rows
<1>2. CASE state[j] # "deleted" /\ ~cancelRequested[j] /\ Retried(j, f)
  <2>1. Requeue(j, d) /\ retries[j] < MaxRetries
    BY <1>2 DEF Fail, Retried
  <2>2. QED
    BY <2>1, <1>2, RequeueTypes DEF Records
<1>3. CASE state[j] # "deleted" /\ (cancelRequested[j] \/ ~Retried(j, f))
  <2>1. PICK o \in Settled : Settle(j, o) /\ o # "exited"
    BY <1>3, Zenon DEF Fail, Settled
  <2>2. QED
    BY <2>1, <1>3, SettleTypes DEF Records, Settled
<1>4. QED
  BY <1>1, <1>2, <1>3

\* The passing of time touches no state, and the types bound it.
LEMMA WallClockTypes == ASSUME RowTypes, WallClock PROVE RowTypes'
<1>1. runFor' \in [Jobs -> 0 .. StaleAfter]
  BY NumbersAssumption DEF RowTypes, WallClock, StaleAfter
<1>2. notBefore' \in [Jobs -> 0 .. Backoff]
  BY NumbersAssumption DEF RowTypes, WallClock
<1>3. finishedFor' \in [Jobs -> Null .. Retention]
  BY NumbersAssumption DEF RowTypes, WallClock, Null
<1>4. QED
  BY <1>1, <1>2, <1>3 DEF RowTypes, WallClock

-----------------------------------------------------------------------------
(* A worker that finishes its attempt. *)

\* It lets go of its job, or keeps it for the terminal-failure hook.
Leaves(w) == Idle(w) \/ (Goto(w, "hook") /\ UNCHANGED <<job, token, elapsed, inbox>>)

\* RecordFail is one write to the worker's row, after which it leaves.
LEMMA RecordFailLeaves ==
  ASSUME TypeOK, NEW w \in Workers, job[w] \in Jobs,
         NEW f \in BOOLEAN, NEW d \in 0 .. Backoff, RecordFail(w, f, d)
  PROVE  Records(job[w]) /\ Leaves(w)
BY FailRecords DEF RecordFail, Leaves, TypeOK

\* The state of the pool keeps its types and its shape when a worker leaves.
LEMMA LeavesPool ==
  ASSUME IInv, NEW w \in Workers, Live(w), Leaves(w), UNCHANGED mode,
         pc[w] = "sub" => Idle(w)
  PROVE  PoolTypes' /\ PoolShape'
<1>1. mode = "up" /\ mode' = "up"
  BY DEF IInv, TInv, PoolShape, Live, Busy
<1>2. CASE Idle(w)
  <2>1. PoolTypes'
    BY <1>2, NumbersAssumption DEF IInv, TInv, TypeOK, PoolTypes, Idle, Goto, Tokens
  <2>2. PoolShape'
    BY <1>1, <1>2 DEF IInv, TInv, TypeOK, PoolTypes, PoolShape, Idle, Goto, Live, Busy
  <2>3. QED
    BY <2>1, <2>2
<1>3. CASE /\ pc[w] # "sub" /\ Goto(w, "hook")
           /\ UNCHANGED <<job, token, elapsed, inbox>>
  <2>1. job[w] \in InProcess \ Unreadable
    BY <1>3 DEF IInv, TInv, PoolShape, Live, Busy
  <2>2. PoolTypes'
    BY <1>3 DEF IInv, TInv, TypeOK, PoolTypes, Goto, Busy
  <2>3. PoolShape'
    BY <1>1, <1>3, <2>1, SetsAssumption
    DEF IInv, TInv, TypeOK, PoolTypes, PoolShape, Goto, Live, Busy
  <2>4. QED
    BY <2>2, <2>3
<1>4. QED
  BY <1>2, <1>3 DEF Leaves

\* Every action in which a worker reports its attempt's outcome preserves IInv.
\* OneWorkerPerJob is what makes the write harmless to the other workers.
LEMMA ReportPreserves ==
  ASSUME IInv, NEW w \in Workers, Live(w), pc[w] # "hook",
         Records(job[w]), Leaves(w), pc[w] = "sub" => Idle(w),
         UNCHANGED <<daemon, attempts>>
  PROVE  IInv'
<1> DEFINE j == job[w]
<1>1. j \in Jobs
  BY DEF IInv, TInv, PoolShape
<1>2. \A v \in Workers \ {w} : pc'[v] = pc[v] /\ job'[v] = job[v] /\ token'[v] = token[v]
                              /\ inbox'[v] = inbox[v]
  BY DEF Leaves, Idle, Goto, IInv, TInv, TypeOK, PoolTypes
<1>3. pc'[w] \in {"idle", "hook"}
  BY DEF Leaves, Idle, Goto, IInv, TInv, TypeOK, PoolTypes
<1>4. \A v \in Workers \ {w} : Live(v) /\ pc[v] # "hook" => job[v] # j
  BY DEF IInv, OneWorkerPerJob
<1>5. TInv'
  BY LeavesPool DEF IInv, TInv, TypeOK, daemon, attempts, Records, DaemonTypes, AttemptTypes
<1>6. HeldRowIsThisAttempt'
  <2> SUFFICES ASSUME NEW v \in Workers, Live(v)', pc'[v] # "hook"
               PROVE  /\ state'[job'[v]] \in {"running", "failed", "deleted"}
                      /\ retries'[job'[v]] = token'[v]
    BY DEF HeldRowIsThisAttempt
  <2>1. v # w
    BY <1>3 DEF Live, Busy
  <2>2. Live(v) /\ pc[v] # "hook" /\ job'[v] = job[v] /\ job[v] \in Jobs \ {j}
    BY <2>1, <1>2, <1>4 DEF Live, Busy, IInv, TInv, PoolShape
  <2>3. QED
    BY <2>1, <2>2, <1>2 DEF IInv, HeldRowIsThisAttempt, Records
<1>7. OneWorkerPerJob'
  BY <1>2, <1>3 DEF IInv, OneWorkerPerJob, Live, Busy
<1>8. RunningRowIsHeld'
  <2> SUFFICES ASSUME mode = "up", NEW k \in Jobs \ (Unreadable \cup lost), state'[k] = "running"
               PROVE  \E v \in Workers : job'[v] = k /\ pc'[v] # "hook"
    BY DEF RunningRowIsHeld, daemon
  <2>1. k # j /\ state[k] = "running"
    BY DEF Records, Settled
  <2>2. PICK v \in Workers : job[v] = k /\ pc[v] # "hook"
    BY <2>1 DEF IInv, RunningRowIsHeld
  <2>3. QED
    BY <2>1, <2>2, <1>2
<1>9. FlagIsHonoured'
  BY <1>1 DEF IInv, FlagIsHonoured, Records, Settled
<1>10. WatchedAttemptIsCancellable'
  BY <1>2, <1>3
  DEF IInv, WatchedAttemptIsCancellable, Watching, Attempt, attempts
<1>11. QED
  BY <1>5, <1>6, <1>7, <1>8, <1>9, <1>10 DEF IInv

-----------------------------------------------------------------------------
(* A step that leaves every worker where it is. *)

\* What such a step may do to the table: start only unreadable rows, take no row
\* away from a worker that holds it, and leave no queued row flagged.
TableStep ==
  /\ RowTypes' /\ retries' = retries
  /\ \A k \in Jobs \ Unreadable : state'[k] = "running" => state[k] = "running"
  /\ \A k \in Jobs : state[k] \in {"running", "failed", "deleted"} =>
       state'[k] \in {"running", "failed", "deleted"}
  /\ \A k \in Jobs : state'[k] \in {"new", "queued", "exited"} => ~cancelRequested'[k]

LEMMA TablePreserves ==
  ASSUME IInv, TableStep, DaemonTypes', PoolTypes', mode' # mode => mode' # "up",
         mode = "up" => mode' = "up", lost \subseteq lost',
         UNCHANGED <<pc, job, token, attempts>>
  PROVE  IInv'
<1>1. TInv'
  BY DEF IInv, TInv, TypeOK, TableStep, attempts, AttemptTypes, PoolShape, Live
<1>2. HeldRowIsThisAttempt'
  BY DEF IInv, TInv, PoolShape, HeldRowIsThisAttempt, TableStep, Live
<1>3. OneWorkerPerJob'
  BY DEF IInv, OneWorkerPerJob, Live
<1>4. RunningRowIsHeld'
  BY DEF IInv, RunningRowIsHeld, TableStep
<1>5. FlagIsHonoured'
  BY DEF FlagIsHonoured, TableStep
<1>6. WatchedAttemptIsCancellable'
  BY DEF IInv, WatchedAttemptIsCancellable, Watching, Attempt, attempts
<1>7. QED
  BY <1>1, <1>2, <1>3, <1>4, <1>5, <1>6 DEF IInv

\* The operations of the other processes on the table.
LEMMA ClientPreserves == ASSUME IInv, Client PROVE IInv'
<1> USE DEF IInv, TInv, TypeOK
<1>1. ASSUME NEW j \in Jobs, Enqueue(j) PROVE IInv'
  <2>1. TableStep
    BY <1>1 DEF Enqueue, TableStep, RowTypes, FlagIsHonoured
  <2>2. QED
    BY <1>1, <2>1, TablePreserves DEF Enqueue, daemon, pool, DaemonTypes, PoolTypes
<1>2. ASSUME NEW j \in Jobs, CancelQueued(j) PROVE IInv'
  <2>1. state[j] = "queued" /\ Settle(j, "killed") /\ "killed" \in Settled
    BY <1>2 DEF CancelQueued, Settled
  <2>2. TableStep
    BY <2>1, SettleTypes DEF TableStep, RowTypes, FlagIsHonoured
  <2>3. QED
    BY <1>2, <2>2, TablePreserves DEF CancelQueued, daemon, pool, DaemonTypes, PoolTypes
<1>3. ASSUME NEW j \in Jobs, CancelRunning(j) PROVE IInv'
  <2>1. TableStep
    BY <1>3 DEF CancelRunning, TableStep, RowTypes, FlagIsHonoured
  <2>2. QED
    BY <1>3, <2>1, TablePreserves DEF CancelRunning, daemon, pool, DaemonTypes, PoolTypes
<1>4. ASSUME NEW i \in Items, NEW keep \in SUBSET Agents, CancelForItem(i, keep)
      PROVE  IInv'
  <2> DEFINE hit == {j \in InProcess \ Unreadable :
                       /\ state[j] \in {"queued", "running"} /\ ~cancelRequested[j]
                       /\ Item[j] = i /\ Agent[j] \notin keep}
             killed == {j \in hit : state[j] = "queued"}
  <2>1. /\ state' = [j \in Jobs |-> IF j \in killed THEN "killed" ELSE state[j]]
        /\ finishedFor' = [j \in Jobs |-> IF j \in killed THEN 0 ELSE finishedFor[j]]
        /\ cancelRequested' =
             [j \in Jobs |-> j \in hit \ killed \/ cancelRequested[j]]
        /\ UNCHANGED <<retries, runFor, notBefore, daemon, pool, attempts>>
    BY <1>4 DEF CancelForItem
  <2>2. RowTypes'
    <3>1. cancelRequested' \in [Jobs -> BOOLEAN]
      BY <2>1 DEF RowTypes
    <3>2. state' \in [Jobs -> {"new", "queued", "running", "deleted"} \cup Settled]
      BY <2>1 DEF RowTypes, Settled
    <3>3. finishedFor' \in [Jobs -> Null .. Retention]
      BY <2>1, NumbersAssumption DEF RowTypes, Null
    <3>4. QED
      BY <2>1, <3>1, <3>2, <3>3 DEF RowTypes
  <2>3. \A k \in Jobs : /\ k \in killed => state[k] = "queued"
                        /\ k \in hit \ killed => state[k] = "running"
    OBVIOUS
  <2>4. TableStep
    <3> HIDE DEF hit, killed
    <3>1. \A k \in Jobs : state'[k] \in {"new", "queued", "exited"} =>
            k \notin killed /\ state[k] = state'[k] /\ k \notin hit
      BY <2>1, <2>3
    <3>2. \A k \in Jobs : state'[k] \in {"new", "queued", "exited"} => ~cancelRequested'[k]
      BY <2>1, <3>1 DEF FlagIsHonoured
    <3>3. QED
      BY <2>1, <2>2, <2>3, <3>2 DEF TableStep
  <2>5. QED
    BY <2>1, <2>4, TablePreserves DEF daemon, pool, DaemonTypes, PoolTypes
<1>5. QED
  BY <1>1, <1>2, <1>3, <1>4 DEF Client

\* The daemon: reconciliation, sweep, release, start, clean-up and crash.
LEMMA DaemonPreserves == ASSUME IInv, Daemon PROVE IInv'
<1> USE DEF IInv, TInv, TypeOK
<1>1. ASSUME Boot PROVE IInv'
  <2>1. TableStep
    BY <1>1 DEF Boot, TableStep, RowTypes, rows, FlagIsHonoured
  <2>2. QED
    BY <1>1, <2>1, TablePreserves DEF Boot, pool, DaemonTypes, PoolTypes
<1>2. ASSUME NEW j \in Jobs, ReconcileOrphan(j) \/ SweepStale(j) PROVE IInv'
  <2>1. /\ state[j] = "running" /\ Settle(j, "failed") /\ "failed" \in Settled
        /\ owed' = IF Releasable(j) THEN owed \cup {j} ELSE owed
        /\ UNCHANGED <<mode, reported, lost, pool, attempts>>
    BY <1>2 DEF ReconcileOrphan, SweepStale, Settled
  <2>2. TableStep
    BY <2>1, SettleTypes DEF TableStep, RowTypes, FlagIsHonoured
  <2>3. QED
    BY <2>1, <2>2, TablePreserves DEF pool, DaemonTypes, PoolTypes
<1>3. ASSUME NEW j \in Jobs, ReleaseItem(j) PROVE IInv'
  <2>1. TableStep
    BY <1>3 DEF ReleaseItem, TableStep, RowTypes, rows, FlagIsHonoured
  <2>2. QED
    BY <1>3, <2>1, TablePreserves DEF ReleaseItem, pool, DaemonTypes, PoolTypes
<1>4. ASSUME NEW j \in Jobs, Cleanup(j) PROVE IInv'
  <2>1. RowTypes'
    BY <1>4, NumbersAssumption DEF Cleanup, RowTypes, Settled, Null, StaleAfter
  <2>2. TableStep
    BY <1>4, <2>1 DEF Cleanup, TableStep, RowTypes, FlagIsHonoured
  <2>3. QED
    BY <1>4, <2>2, TablePreserves DEF Cleanup, daemon, pool, DaemonTypes, PoolTypes
<1>5. ASSUME StartPool PROVE IInv'
  <2>1. \A w \in Workers : job[w] = NoJob /\ pc'[w] = "idle" /\ job'[w] = job[w]
    BY <1>5 DEF StartPool, PoolShape
  <2>2. TInv'
    BY <1>5, <2>1
    DEF StartPool, RowTypes, rows, DaemonTypes, PoolTypes, AttemptTypes, attempts,
        PoolShape, Live, Busy
  <2>3. HeldRowIsThisAttempt' /\ OneWorkerPerJob' /\ WatchedAttemptIsCancellable'
    BY <2>1
    DEF HeldRowIsThisAttempt, OneWorkerPerJob, WatchedAttemptIsCancellable, Live,
        Busy, Watching
  <2>4. RunningRowIsHeld' /\ FlagIsHonoured'
    BY <1>5 DEF StartPool, RunningRowIsHeld, FlagIsHonoured, rows
  <2>5. QED
    BY <2>2, <2>3, <2>4
<1>6. ASSUME Crash PROVE IInv'
  <2>1. \A w \in Workers : pc'[w] = "off" /\ job'[w] = NoJob
    BY <1>6 DEF Crash
  <2>2. PoolTypes' /\ AttemptTypes'
    BY <1>6, NumbersAssumption DEF Crash, PoolTypes, AttemptTypes, Tokens, Null
  <2>3. TInv'
    BY <1>6, <2>1, <2>2 DEF Crash, RowTypes, rows, DaemonTypes, PoolShape, Live, Busy
  <2>4. HeldRowIsThisAttempt' /\ OneWorkerPerJob' /\ WatchedAttemptIsCancellable'
    BY <2>1
    DEF HeldRowIsThisAttempt, OneWorkerPerJob, WatchedAttemptIsCancellable, Live,
        Busy, Watching
  <2>5. RunningRowIsHeld' /\ FlagIsHonoured'
    BY <1>6 DEF Crash, RunningRowIsHeld, FlagIsHonoured, rows
  <2>6. QED
    BY <2>3, <2>4, <2>5
<1>7. ASSUME NEW j \in Jobs, ReconcileFails(j) PROVE IInv'
  <2>1. TableStep
    BY <1>7 DEF ReconcileFails, TableStep, RowTypes, rows, FlagIsHonoured
  <2>2. QED
    BY <1>7, <2>1, TablePreserves DEF ReconcileFails, pool, DaemonTypes, PoolTypes
<1>8. QED
  BY <1>1, <1>2, <1>3, <1>4, <1>5, <1>6, <1>7 DEF Daemon

\* Time passes: a worker that still waits has not reached its limit yet.
LEMMA TimePreserves == ASSUME IInv, Tick \/ Suspend PROVE IInv'
<1> USE DEF IInv, TInv, TypeOK
<1>1. WallClock /\ UNCHANGED <<daemon, pc, job, token, attempts>>
  BY DEF Tick, Suspend, pool
<1>2. TableStep
  BY <1>1, WallClockTypes DEF WallClock, TableStep, RowTypes, FlagIsHonoured
<1>3. PoolTypes'
  <2>1. CASE Suspend
    BY <2>1 DEF Suspend, pool, PoolTypes
  <2>2. CASE Tick
    <3>1. \A w \in Workers : elapsed'[w] # elapsed[w] =>
             /\ elapsed'[w] = elapsed[w] + 1
             /\ elapsed[w] < Timeout + AbandonGrace
      BY <2>2, NumbersAssumption
      DEF Tick, Prompt, TimedOut, GraceOver, Watching, PoolTypes
    <3>2. elapsed' \in [Workers -> 0 .. (Timeout + AbandonGrace)]
      <4>1. DOMAIN elapsed' = Workers /\ elapsed' = [w \in Workers |-> elapsed'[w]]
        BY <2>2 DEF Tick
      <4>2. \A w \in Workers : elapsed'[w] \in 0 .. (Timeout + AbandonGrace)
        BY <3>1, NumbersAssumption DEF PoolTypes
      <4>3. QED
        BY <4>1, <4>2
    <3>3. QED
      BY <2>2, <3>2 DEF Tick, PoolTypes
  <2>3. QED
    BY <2>1, <2>2
<1>4. QED
  BY <1>1, <1>2, <1>3, TablePreserves DEF daemon, DaemonTypes

-----------------------------------------------------------------------------
(* The workers and the executors. *)

\* Taking a job.  Nobody holds a queued row (HeldRowIsThisAttempt), so the
\* worker that takes it is alone.
LEMMA DequeuePreserves ==
  ASSUME IInv, NEW w \in Workers, NEW j \in Jobs, Dequeue(w, j)
  PROVE  IInv'
<1> USE DEF IInv, TInv, TypeOK
<1> DEFINE there == IF j \in InProcess THEN "open" ELSE "sub"
<1>1. /\ mode = "up" /\ mode' = mode /\ state[j] = "queued" /\ j \notin Unreadable
      /\ pc[w] = "idle" /\ job[w] = NoJob
  BY DEF Dequeue, Next_in_line, Due, daemon, PoolShape
<1>2. /\ state' = [state EXCEPT ![j] = "running"] /\ retries' = retries
      /\ cancelRequested' = cancelRequested
      /\ pc' = [pc EXCEPT ![w] = there] /\ job' = [job EXCEPT ![w] = j]
      /\ token' = [token EXCEPT ![w] = retries[j]]
      /\ UNCHANGED <<daemon, elapsed, inbox, attempts>>
  BY DEF Dequeue, MarkRunning, Goto
<1>3. \A v \in Workers : Live(v) /\ pc[v] # "hook" => job[v] # j
  BY <1>1 DEF HeldRowIsThisAttempt
<1>4. RowTypes'
  BY NumbersAssumption DEF Dequeue, MarkRunning, RowTypes, StaleAfter
<1>5. PoolTypes'
  BY <1>2 DEF PoolTypes, RowTypes, Busy
<1>6. PoolShape'
  BY <1>1, <1>2, SetsAssumption DEF PoolShape, PoolTypes, Live, Busy
<1>7. TInv'
  BY <1>2, <1>4, <1>5, <1>6 DEF daemon, attempts, DaemonTypes, AttemptTypes
<1>8. HeldRowIsThisAttempt'
  BY <1>2 DEF HeldRowIsThisAttempt, RowTypes, PoolTypes, PoolShape, Live, Busy
<1>9. OneWorkerPerJob'
  BY <1>2, <1>3 DEF OneWorkerPerJob, PoolTypes, Live, Busy
<1>10. RunningRowIsHeld'
  <2> SUFFICES ASSUME NEW k \in Jobs \ (Unreadable \cup lost), state'[k] = "running"
               PROVE  \E v \in Workers : job'[v] = k /\ pc'[v] # "hook"
    BY <1>2 DEF RunningRowIsHeld, daemon
  <2>1. CASE k = j
    BY <1>2, <2>1 DEF PoolTypes
  <2>2. CASE k # j
    <3>1. PICK v \in Workers : job[v] = k /\ pc[v] # "hook"
      BY <1>1, <1>2, <2>2 DEF RunningRowIsHeld, RowTypes
    <3>2. v # w
      BY <1>1, <3>1, SetsAssumption
    <3>3. QED
      BY <1>2, <3>1, <3>2 DEF PoolTypes
  <2>3. QED
    BY <2>1, <2>2
<1>11. FlagIsHonoured'
  BY <1>2 DEF FlagIsHonoured, RowTypes
<1>12. WatchedAttemptIsCancellable'
  BY <1>2 DEF WatchedAttemptIsCancellable, Watching, Attempt, attempts, PoolTypes
<1>13. QED
  BY <1>7, <1>8, <1>9, <1>10, <1>11, <1>12

\* Registering the attempt's check replaces an older attempt's, which no worker
\* waits for any more (OneWorkerPerJob).
LEMMA SpawnPreserves ==
  ASSUME IInv, NEW w \in Workers, SpawnExecutor(w)
  PROVE  IInv'
<1> USE DEF IInv, TInv, TypeOK
<1>1. /\ pc[w] = "open" /\ job[w] \in InProcess \ Unreadable /\ job[w] \in Jobs
      /\ token[w] \in Tokens /\ mode = "up"
  BY SetsAssumption DEF SpawnExecutor, PoolShape, PoolTypes
<1>2. /\ pc' = [pc EXCEPT ![w] = "wait"]
      /\ check' = [check EXCEPT ![job[w]] = token[w]]
      /\ threads' = threads \cup {<<job[w], token[w]>>}
      /\ UNCHANGED <<rows, daemon, job, token, elapsed, inbox, abandoned>>
  BY DEF SpawnExecutor, Goto, Attempt
<1>3. AttemptTypes'
  BY <1>1, <1>2, NumbersAssumption DEF AttemptTypes, Tokens, Null
<1>4. TInv'
  BY <1>1, <1>2, <1>3
  DEF rows, daemon, RowTypes, DaemonTypes, PoolTypes, PoolShape, Live, Busy
<1>5. HeldRowIsThisAttempt' /\ OneWorkerPerJob'
  BY <1>1, <1>2 DEF rows, HeldRowIsThisAttempt, OneWorkerPerJob, PoolTypes, Live, Busy
<1>6. RunningRowIsHeld' /\ FlagIsHonoured'
  BY <1>1, <1>2 DEF rows, daemon, RunningRowIsHeld, FlagIsHonoured, PoolTypes
<1>7. WatchedAttemptIsCancellable'
  <2> SUFFICES ASSUME NEW v \in Workers, Watching(v)', Attempt(v)' \in threads'
               PROVE  check'[job[v]] = token[v]
    BY <1>2 DEF WatchedAttemptIsCancellable
  <2>1. CASE v = w
    BY <1>1, <1>2, <2>1 DEF AttemptTypes
  <2>2. CASE v # w
    <3>1. Watching(v) /\ Live(v) /\ pc[v] # "hook"
      BY <1>2, <2>2 DEF Watching, Live, Busy, PoolTypes
    <3>2. job[v] # job[w]
      BY <1>1, <2>2, <3>1 DEF OneWorkerPerJob, Live, Busy
    <3>3. Attempt(v) \in threads
      BY <1>2, <3>2 DEF Attempt
    <3>4. QED
      BY <1>1, <1>2, <3>1, <3>2, <3>3 DEF WatchedAttemptIsCancellable, AttemptTypes
  <2>3. QED
    BY <2>1, <2>2
<1>8. QED
  BY <1>4, <1>5, <1>6, <1>7

\* A guard that drops takes away only its own attempt's check.
LEMMA ThreadEndsPreserves ==
  ASSUME IInv, NEW j \in Jobs, NEW n \in Tokens, NEW r \in Results, ThreadEnds(j, n, r)
  PROVE  IInv'
<1> USE DEF IInv, TInv, TypeOK
<1>1. /\ threads' = threads \ {<<j, n>>} /\ abandoned' = abandoned \ {<<j, n>>}
      /\ check' = IF check[j] = n THEN [check EXCEPT ![j] = Null] ELSE check
      /\ UNCHANGED <<rows, daemon, pc, job, token, elapsed>>
  BY DEF ThreadEnds
<1>2. AttemptTypes'
  BY <1>1, NumbersAssumption DEF AttemptTypes, Null, Tokens
<1>3. PoolTypes'
  BY <1>1 DEF ThreadEnds, PoolTypes, Results
<1>4. TInv'
  BY <1>1, <1>2, <1>3 DEF rows, daemon, RowTypes, DaemonTypes, PoolShape, Live
<1>5. HeldRowIsThisAttempt' /\ OneWorkerPerJob' /\ RunningRowIsHeld' /\ FlagIsHonoured'
  BY <1>1
  DEF rows, daemon, HeldRowIsThisAttempt, OneWorkerPerJob, RunningRowIsHeld,
      FlagIsHonoured, Live
<1>6. WatchedAttemptIsCancellable'
  <2> SUFFICES ASSUME NEW v \in Workers, Watching(v)', Attempt(v)' \in threads'
               PROVE  check'[job[v]] = token[v]
    BY <1>1 DEF WatchedAttemptIsCancellable
  <2>1. /\ Watching(v) /\ <<job[v], token[v]>> \in threads
        /\ <<job[v], token[v]>> # <<j, n>>
    BY <1>1 DEF Watching, Attempt
  <2>2. check[job[v]] = token[v]
    BY <2>1 DEF WatchedAttemptIsCancellable, Attempt
  <2>3. QED
    BY <1>1, <2>1, <2>2 DEF AttemptTypes
<1>7. QED
  BY <1>4, <1>5, <1>6

\* The worker's steps that write nothing to the table.
LEMMA WatchPreserves ==
  ASSUME IInv, NEW w \in Workers,
         WatchdogFires(w) \/ CallHook(w) \/ OutcomeLost(w) \/ WorkerDies(w)
  PROVE  IInv'
<1> USE DEF IInv, TInv, TypeOK
<1>1. CASE WatchdogFires(w)
  <2>1. /\ pc[w] = "wait" /\ pc' = [pc EXCEPT ![w] = "grace"]
        /\ UNCHANGED <<rows, daemon, job, token, elapsed, inbox, threads, check>>
        /\ abandoned' \subseteq threads
    BY <1>1 DEF WatchdogFires, TimedOut, Goto, AttemptTypes
  <2>2. TInv'
    BY <2>1
    DEF rows, daemon, RowTypes, DaemonTypes, PoolTypes, AttemptTypes, PoolShape, Live, Busy
  <2>3. HeldRowIsThisAttempt' /\ OneWorkerPerJob'
    BY <2>1 DEF rows, HeldRowIsThisAttempt, OneWorkerPerJob, PoolTypes, Live, Busy
  <2>4. RunningRowIsHeld' /\ FlagIsHonoured' /\ WatchedAttemptIsCancellable'
    BY <2>1
    DEF rows, daemon, RunningRowIsHeld, FlagIsHonoured,
        WatchedAttemptIsCancellable, Watching, Attempt, PoolTypes
  <2>5. QED
    BY <2>2, <2>3, <2>4
<1>2. CASE CallHook(w)
  <2>1. /\ pc[w] = "hook" /\ Idle(w) /\ reported' = reported \cup {job[w]}
        /\ UNCHANGED <<rows, mode, owed, lost, attempts>>
        /\ Live(w) /\ job[w] \in Jobs
    BY <1>2 DEF CallHook, PoolShape, Live, Busy
  <2>2. PoolTypes' /\ PoolShape'
    BY <2>1, LeavesPool DEF Leaves
  <2>3. TInv'
    BY <2>1, <2>2 DEF rows, attempts, RowTypes, DaemonTypes, AttemptTypes
  <2>4. HeldRowIsThisAttempt' /\ OneWorkerPerJob'
    BY <2>1
    DEF rows, Idle, Goto, HeldRowIsThisAttempt, OneWorkerPerJob, PoolTypes, Live, Busy
  <2>5. RunningRowIsHeld' /\ FlagIsHonoured' /\ WatchedAttemptIsCancellable'
    BY <2>1
    DEF rows, attempts, Idle, Goto, RunningRowIsHeld, FlagIsHonoured,
        WatchedAttemptIsCancellable, Watching, Attempt, PoolTypes
  <2>6. QED
    BY <2>3, <2>4, <2>5
<1>3. CASE WorkerDies(w)
  <2>1. /\ Live(w) /\ pc' = [pc EXCEPT ![w] = "dead"]
        /\ inbox' = [inbox EXCEPT ![w] = "none"]
        /\ elapsed' = [elapsed EXCEPT ![w] = 0]
        /\ UNCHANGED <<rows, daemon, job, token, attempts>>
    BY <1>3 DEF WorkerDies, Goto
  <2>2. PoolTypes'
    BY <2>1, NumbersAssumption DEF PoolTypes
  <2>3. TInv'
    BY <2>1, <2>2
    DEF rows, daemon, attempts, RowTypes, DaemonTypes, AttemptTypes, PoolTypes,
        PoolShape, Live, Busy
  <2>4. HeldRowIsThisAttempt' /\ OneWorkerPerJob'
    BY <2>1 DEF rows, HeldRowIsThisAttempt, OneWorkerPerJob, PoolTypes, Live, Busy
  <2>5. RunningRowIsHeld' /\ FlagIsHonoured' /\ WatchedAttemptIsCancellable'
    BY <2>1
    DEF rows, daemon, attempts, RunningRowIsHeld, FlagIsHonoured,
        WatchedAttemptIsCancellable, Watching, Attempt, PoolTypes
  <2>6. QED
    BY <2>3, <2>4, <2>5
<1>4. CASE OutcomeLost(w)
  <2>1. /\ pc[w] \in {"open", "sub", "wait", "grace"} /\ Idle(w)
        /\ lost' = lost \cup {job[w]}
        /\ UNCHANGED <<rows, mode, owed, reported, attempts>>
        /\ Live(w) /\ job[w] \in Jobs
    BY <1>4 DEF OutcomeLost, HasOutcome, GraceOver, Watching, PoolShape, Live, Busy
  <2>2. PoolTypes' /\ PoolShape'
    BY <2>1, LeavesPool DEF Leaves
  <2>3. TInv'
    BY <2>1, <2>2 DEF rows, attempts, RowTypes, DaemonTypes, AttemptTypes
  <2>4. HeldRowIsThisAttempt' /\ OneWorkerPerJob'
    BY <2>1
    DEF rows, Idle, Goto, HeldRowIsThisAttempt, OneWorkerPerJob, PoolTypes, Live, Busy
  <2>5. RunningRowIsHeld'
    <3> SUFFICES ASSUME mode = "up", NEW k \in Jobs \ (Unreadable \cup lost'),
                        state[k] = "running"
                 PROVE  \E v \in Workers : job'[v] = k /\ pc'[v] # "hook"
      BY <2>1 DEF RunningRowIsHeld, rows
    <3>1. PICK v \in Workers : job[v] = k /\ pc[v] # "hook"
      BY <2>1 DEF RunningRowIsHeld
    <3>2. v # w
      BY <2>1, <3>1
    <3>3. QED
      BY <2>1, <3>1, <3>2 DEF Idle, Goto, PoolTypes
  <2>6. FlagIsHonoured' /\ WatchedAttemptIsCancellable'
    BY <2>1
    DEF rows, attempts, Idle, Goto, FlagIsHonoured, WatchedAttemptIsCancellable,
        Watching, Attempt, PoolTypes
  <2>7. QED
    BY <2>3, <2>4, <2>5, <2>6
<1>5. QED
  BY <1>1, <1>2, <1>3, <1>4

\* All actions of one worker.
LEMMA WorkerPreserves == ASSUME IInv, NEW w \in Workers, Worker(w) PROVE IInv'
<1>1. PoolShape /\ TypeOK
  BY DEF IInv, TInv
<1>2. ASSUME NEW j \in Jobs, DequeueUnreadable(w, j) PROVE IInv'
  <2>1. TableStep
    BY <1>2, NumbersAssumption
    DEF DequeueUnreadable, MarkRunning, TableStep, IInv, TInv, TypeOK, RowTypes,
        StaleAfter, FlagIsHonoured
  <2>2. QED
    BY <1>1, <1>2, <2>1, TablePreserves
    DEF DequeueUnreadable, daemon, pool, TypeOK, DaemonTypes, PoolTypes
<1>3. ASSUME OpenFails(w) \/ ReceiveFailure(w) \/ GraceExpires(w) PROVE IInv'
  <2>1. pc[w] \in {"open", "wait", "grace"} /\ Live(w) /\ job[w] \in Jobs
    BY <1>1, <1>3
    DEF OpenFails, ReceiveFailure, GraceExpires, GraceOver, PoolShape, Live, Busy
  <2>2. 0 \in 0 .. Backoff /\ FailureDelay(inbox[w]) \in 0 .. Backoff
    BY NumbersAssumption DEF FailureDelay
  <2>3. ASSUME OpenFails(w) \/ GraceExpires(w) PROVE Records(job[w]) /\ Leaves(w)
    <3>1. RecordFail(w, FALSE, 0)
      BY <2>3, Zenon DEF OpenFails, GraceExpires
    <3>2. QED
      BY <1>1, <2>1, <2>2, <3>1, RecordFailLeaves, Zenon
  <2>4. ASSUME ReceiveFailure(w) PROVE Records(job[w]) /\ Leaves(w)
    <3>1. RecordFail(w, inbox[w] = "fatal", FailureDelay(inbox[w]))
      BY <2>4, Zenon DEF ReceiveFailure
    <3>2. (inbox[w] = "fatal") \in BOOLEAN
      OBVIOUS
    <3>3. QED
      BY <1>1, <2>1, <2>2, <3>1, <3>2, RecordFailLeaves, Zenon
  <2>5. Records(job[w]) /\ Leaves(w)
    BY <1>3, <2>3, <2>4
  <2>6. QED
    BY <1>3, <2>1, <2>5, ReportPreserves DEF OpenFails, ReceiveFailure, GraceExpires
<1>4. ASSUME ReceiveOk(w) \/ SubprocessExits(w) \/ SubprocessKilled(w) \/ SpawnFails(w)
      PROVE  IInv'
  <2>1. /\ pc[w] # "hook" /\ Live(w) /\ job[w] \in Jobs
        /\ Idle(w) /\ UNCHANGED <<daemon, attempts>>
    BY <1>1, <1>4
    DEF ReceiveOk, SubprocessExits, SubprocessKilled, SpawnFails, Watching, PoolShape,
        Live, Busy
  <2>2. Complete(job[w], TRUE) \/ Complete(job[w], FALSE) \/ Fail(job[w], FALSE, 0)
    BY <1>4, Zenon DEF ReceiveOk, SubprocessExits, SubprocessKilled, SpawnFails
  <2>3. Records(job[w])
    <3>1. RowTypes /\ TRUE \in BOOLEAN /\ FALSE \in BOOLEAN /\ 0 \in 0 .. Backoff
      BY <1>1, NumbersAssumption DEF TypeOK
    <3>2. QED
      BY <2>1, <2>2, <3>1, CompleteRecords, FailRecords, Zenon
  <2>4. QED
    BY <2>1, <2>3, ReportPreserves DEF Leaves
<1>5. QED
  BY <1>2, <1>3, <1>4, DequeuePreserves, SpawnPreserves, WatchPreserves DEF Worker

-----------------------------------------------------------------------------
(* The inductive invariant. *)

LEMMA InitEstablishes == Init => IInv
<1> SUFFICES ASSUME Init PROVE IInv
  OBVIOUS
<1>1. RowTypes
  BY NumbersAssumption DEF Init, RowTypes, Tokens, StaleAfter, Null
<1>2. DaemonTypes /\ PoolTypes /\ AttemptTypes
  BY NumbersAssumption DEF Init, DaemonTypes, PoolTypes, AttemptTypes, Tokens, Null
<1>3. PoolShape /\ HeldRowIsThisAttempt /\ OneWorkerPerJob
  BY DEF Init, PoolShape, HeldRowIsThisAttempt, OneWorkerPerJob, Live, Busy
<1>4. RunningRowIsHeld /\ FlagIsHonoured /\ WatchedAttemptIsCancellable
  BY DEF Init, RunningRowIsHeld, FlagIsHonoured, WatchedAttemptIsCancellable, Watching
<1>5. QED
  BY <1>1, <1>2, <1>3, <1>4 DEF IInv, TInv, TypeOK

LEMMA StutterPreserves == ASSUME IInv, UNCHANGED vars PROVE IInv'
<1>1. UNCHANGED <<rows, daemon, pool, attempts>>
  BY DEF vars
<1>2. TInv'
  BY <1>1
  DEF IInv, TInv, TypeOK, rows, daemon, pool, attempts, RowTypes, DaemonTypes, PoolTypes,
      AttemptTypes, PoolShape, Live
<1>3. QED
  BY <1>1, <1>2
  DEF IInv, rows, daemon, pool, attempts, HeldRowIsThisAttempt, OneWorkerPerJob,
      RunningRowIsHeld, FlagIsHonoured, WatchedAttemptIsCancellable, Live, Watching,
      Attempt

LEMMA StepPreserves == IInv /\ [Next]_vars => IInv'
<1> SUFFICES ASSUME IInv, [Next]_vars PROVE IInv'
  OBVIOUS
<1>1. CASE Client
  BY <1>1, ClientPreserves
<1>2. CASE Daemon
  BY <1>2, DaemonPreserves
<1>3. CASE Executor
  <2>1. PICK t \in Jobs \X Tokens, r \in Results : ThreadEnds(t[1], t[2], r)
    BY <1>3 DEF Executor
  <2>2. t[1] \in Jobs /\ t[2] \in Tokens
    OBVIOUS
  <2>3. QED
    BY <2>1, <2>2, ThreadEndsPreserves
<1>4. CASE Tick \/ Suspend
  BY <1>4, TimePreserves
<1>5. ASSUME NEW w \in Workers, Worker(w) \/ WorkerDies(w) PROVE IInv'
  BY <1>5, WorkerPreserves, WatchPreserves
<1>6. CASE UNCHANGED vars
  BY <1>6, StutterPreserves
<1>7. QED
  BY <1>1, <1>2, <1>3, <1>4, <1>5, <1>6 DEF Next

THEOREM Inductive == Spec => []IInv
BY InitEstablishes, StepPreserves, PTL DEF Spec

\* Every variable keeps its type, so no job is run more than max_retries + 1
\* times, for any number of jobs, workers and retries.
THEOREM TypesHold == Spec => []TypeOK
<1>1. IInv => TypeOK
  BY DEF IInv, TInv
<1>2. QED
  BY <1>1, Inductive, PTL

\* No two live workers of the pool ever work for one job: time-outs, late
\* outcomes, stale sweeps and retries notwithstanding.
THEOREM MutualExclusion == Spec => []OneWorkerPerJob
<1>1. IInv => OneWorkerPerJob
  BY DEF IInv
<1>2. QED
  BY <1>1, Inductive, PTL

\* The row a worker holds is the one of its own attempt, not of an earlier or
\* a later one.
THEOREM RowsAreAttempts == Spec => []HeldRowIsThisAttempt
<1>1. IInv => HeldRowIsThisAttempt
  BY DEF IInv
<1>2. QED
  BY <1>1, Inductive, PTL

\* No readable running row is orphaned while the daemon is up.
THEOREM NoOrphanedRow == Spec => []RunningRowIsHeld
<1>1. IInv => RunningRowIsHeld
  BY DEF IInv
<1>2. QED
  BY <1>1, Inductive, PTL

\* A cancelled row is not requeued and not recorded as a success.
THEOREM CancelReaches == Spec => []FlagIsHonoured
<1>1. IInv => FlagIsHonoured
  BY DEF IInv
<1>2. QED
  BY <1>1, Inductive, PTL

\* A cancel request reaches the attempt that a worker waits for.
THEOREM ChecksReach == Spec => []WatchedAttemptIsCancellable
<1>1. IInv => WatchedAttemptIsCancellable
  BY DEF IInv
<1>2. QED
  BY <1>1, Inductive, PTL

-----------------------------------------------------------------------------
(* The life of a row: what any step may do to it. *)

\* A worker w reports on row j; a permanent failure of a readable in-process
\* job goes on to the hook.
ReportsOn(w, j) ==
  /\ Live(w) /\ job[w] = j /\ pc'[w] # pc[w]
  /\ state[j] \in {"running", "failed", "deleted"}
  /\ state'[j] \in {"queued", "exited"} => ~cancelRequested[j]
  /\ state'[j] = "failed" /\ j \in InProcess => pc'[w] = "hook" /\ job'[w] = j

RowStep(j) ==
  \/ state'[j] = state[j]
  \/ state[j] = "new" /\ state'[j] = "queued"
  \/ state[j] = "queued" /\ state'[j] \in {"running", "killed"}
  \/ state[j] = "running" /\ state'[j] = "failed" /\ (Releasable(j) => j \in owed')
  \/ state'[j] = "deleted"
  \/ \E w \in Workers : ReportsOn(w, j)

LEMMA WriteRowSteps ==
  ASSUME IInv, NEW w \in Workers, Live(w), pc[w] # "hook",
         Records(job[w]), pc'[w] # pc[w],
         state'[job[w]] = "failed" /\ job[w] \in InProcess =>
           pc'[w] = "hook" /\ job'[w] = job[w],
         NEW j \in Jobs
  PROVE  RowStep(j)
<1>1. CASE j = job[w]
  BY <1>1 DEF RowStep, ReportsOn, Records, IInv, HeldRowIsThisAttempt
<1>2. CASE j # job[w]
  BY <1>2 DEF RowStep, Records
<1>3. QED
  BY <1>1, <1>2

\* The failures of in-process jobs all go through record_fail.
LEMMA RecordFailRowSteps ==
  ASSUME IInv, NEW w \in Workers, Live(w), pc[w] # "hook", pc[w] # "idle",
         NEW f \in BOOLEAN, NEW d \in 0 .. Backoff, RecordFail(w, f, d), NEW j \in Jobs
  PROVE  RowStep(j)
<1> DEFINE k == job[w]
<1>1. k \in Jobs /\ TypeOK /\ RowTypes /\ PoolTypes
  BY DEF IInv, TInv, TypeOK, PoolShape
<1>2. Records(k) /\ Leaves(w)
  BY <1>1, RecordFailLeaves, Zenon
<1>3. pc'[w] # pc[w]
  BY <1>1, <1>2 DEF Leaves, Idle, Goto, PoolTypes
<1>4. ASSUME state'[k] = "failed" PROVE pc'[w] = "hook" /\ job'[w] = k
  <2>1. Fail(k, f, d)
    BY DEF RecordFail
  <2>2. state[k] # "deleted" /\ ~cancelRequested[k]
    BY <1>1, <1>4, <2>1 DEF Fail, Settle, rows, RowTypes
  <2>3. ~Retried(k, f)
    BY <1>1, <1>4, <2>1, <2>2 DEF Fail, Requeue, RowTypes
  <2>4. Goto(w, "hook") /\ job' = job
    BY <2>2, <2>3 DEF RecordFail, FailIsPermanent
  <2>5. QED
    BY <1>1, <2>4 DEF Goto, PoolTypes
<1>5. QED
  BY <1>2, <1>3, <1>4, WriteRowSteps

LEMMA StepRows == ASSUME IInv, [Next]_vars, NEW j \in Jobs PROVE RowStep(j)
<1>1. TypeOK /\ RowTypes /\ PoolTypes /\ PoolShape
  BY DEF IInv, TInv, TypeOK
<1>2. CASE Client
  <2>1. ASSUME NEW k \in Jobs, Enqueue(k) \/ CancelQueued(k) \/ CancelRunning(k)
        PROVE  RowStep(j)
    BY <2>1, <1>1 DEF Enqueue, CancelQueued, CancelRunning, Settle, RowTypes, RowStep
  <2>2. ASSUME NEW i \in Items, NEW keep \in SUBSET Agents, CancelForItem(i, keep)
        PROVE  RowStep(j)
    BY <2>2 DEF CancelForItem, RowStep
  <2>3. QED
    BY <1>2, <2>1, <2>2 DEF Client
<1>3. CASE Daemon
  <2>1. ASSUME Boot \/ StartPool \/ Crash \/
                \E k \in Jobs : ReleaseItem(k) \/ ReconcileFails(k) \/ Cleanup(k)
        PROVE  RowStep(j)
    BY <2>1, <1>1 DEF Boot, StartPool, Crash, ReleaseItem, ReconcileFails, Cleanup,
                       rows, RowTypes, RowStep
  <2>2. ASSUME NEW k \in Jobs, ReconcileOrphan(k) \/ SweepStale(k) PROVE RowStep(j)
    BY <2>2, <1>1 DEF ReconcileOrphan, SweepStale, Settle, RowTypes, RowStep
  <2>3. QED
    BY <1>3, <2>1, <2>2 DEF Daemon
<1>4. CASE Executor \/ Tick \/ Suspend \/ UNCHANGED vars
  BY <1>4 DEF Executor, ThreadEnds, Tick, Suspend, WallClock, rows, vars, RowStep
<1>5. ASSUME NEW w \in Workers, WorkerDies(w) \/ Worker(w) PROVE RowStep(j)
  <2>1. ASSUME NEW k \in Jobs, Dequeue(w, k) \/ DequeueUnreadable(w, k) PROVE RowStep(j)
    BY <2>1, <1>1 DEF Dequeue, DequeueUnreadable, Next_in_line, Due, MarkRunning, RowTypes, RowStep
  <2>2. CASE \/ SpawnExecutor(w) \/ WatchdogFires(w) \/ CallHook(w)
             \/ OutcomeLost(w) \/ WorkerDies(w)
    BY <2>2
    DEF SpawnExecutor, WatchdogFires, CallHook, OutcomeLost, WorkerDies, rows, RowStep
  <2>3. CASE OpenFails(w) \/ GraceExpires(w)
    <3>1. pc[w] # "hook" /\ pc[w] # "idle" /\ Live(w)
      BY <2>3 DEF OpenFails, GraceExpires, GraceOver, Live, Busy
    <3>2. FALSE \in BOOLEAN /\ 0 \in 0 .. Backoff
      BY NumbersAssumption
    <3>3. RecordFail(w, FALSE, 0)
      BY <2>3, Zenon DEF OpenFails, GraceExpires
    <3>4. QED
      BY <3>1, <3>2, <3>3, RecordFailRowSteps, Zenon
  <2>4. CASE ReceiveFailure(w)
    <3>1. pc[w] # "hook" /\ pc[w] # "idle" /\ Live(w)
      BY <2>4 DEF ReceiveFailure, Live, Busy
    <3>2. (inbox[w] = "fatal") \in BOOLEAN /\ FailureDelay(inbox[w]) \in 0 .. Backoff
      BY NumbersAssumption DEF FailureDelay
    <3>3. RecordFail(w, inbox[w] = "fatal", FailureDelay(inbox[w]))
      BY <2>4, Zenon DEF ReceiveFailure
    <3>4. QED
      BY <3>1, <3>2, <3>3, RecordFailRowSteps, Zenon
  <2>5. CASE ReceiveOk(w)
    <3>1. Live(w) /\ pc[w] # "hook" /\ pc[w] # "idle" /\ job[w] \in Jobs
      BY <2>5, <1>1 DEF ReceiveOk, Watching, Live, Busy, PoolShape
    <3>2. Complete(job[w], TRUE) /\ Idle(w) /\ TRUE \in BOOLEAN
      BY <2>5, Zenon DEF ReceiveOk
    <3>3. Records(job[w])
      BY <3>1, <3>2, <1>1, CompleteRecords, Zenon
    <3>4. state'[job[w]] # "failed" \/ state[job[w]] = "deleted"
      BY <3>1, <3>2, <1>1 DEF Complete, Settle, RowTypes
    <3>5. state'[job[w]] # "failed" /\ pc'[w] # pc[w]
      BY <3>1, <3>2, <3>3, <3>4, <1>1 DEF Records, Idle, Goto, PoolTypes
    <3>6. QED
      BY <3>1, <3>3, <3>5, WriteRowSteps
  <2>6. CASE SubprocessExits(w) \/ SubprocessKilled(w) \/ SpawnFails(w)
    <3>1. Live(w) /\ pc[w] = "sub" /\ job[w] \in Jobs \ InProcess /\ Idle(w)
      BY <2>6, <1>1 DEF SubprocessExits, SubprocessKilled, SpawnFails, Live, Busy, PoolShape
    <3>2. Complete(job[w], TRUE) \/ Complete(job[w], FALSE) \/ Fail(job[w], FALSE, 0)
      BY <2>6, Zenon DEF SubprocessExits, SubprocessKilled, SpawnFails
    <3>3. Records(job[w])
      <4>1. TRUE \in BOOLEAN /\ FALSE \in BOOLEAN /\ 0 \in 0 .. Backoff /\ job[w] \in Jobs
        BY <3>1, NumbersAssumption
      <4>2. QED
        BY <1>1, <3>2, <4>1, CompleteRecords, FailRecords, Zenon
    <3>4. pc'[w] # pc[w]
      BY <3>1, <1>1 DEF Idle, Goto, PoolTypes
    <3>5. QED
      BY <3>1, <3>3, <3>4, WriteRowSteps
  <2>7. QED
    BY <1>5, <2>1, <2>2, <2>3, <2>4, <2>5, <2>6 DEF Worker
<1>6. QED
  BY <1>2, <1>3, <1>4, <1>5 DEF Next

\* A killed job stays killed and a flagged one neither runs again nor succeeds.
THEOREM CancelIsTerminal == Spec => CancelIsFinal
<1> DEFINE A == \A j \in Jobs :
       /\ cancelRequested[j] => state'[j] \notin {"queued", "exited"}
       /\ state[j] = "killed" => state'[j] \in {"killed", "deleted"}
<1>1. ASSUME IInv, [Next]_vars PROVE A
  <2> SUFFICES ASSUME NEW j \in Jobs
               PROVE  /\ cancelRequested[j] => state'[j] \notin {"queued", "exited"}
                      /\ state[j] = "killed" => state'[j] \in {"killed", "deleted"}
    OBVIOUS
  <2>1. RowStep(j)
    BY <1>1, StepRows
  <2>2. cancelRequested[j] => state[j] \notin {"new", "queued", "exited"}
    BY <1>1 DEF IInv, FlagIsHonoured
  <2>3. QED
    BY <2>1, <2>2 DEF RowStep, ReportsOn
<1>2. QED
  BY <1>1, Inductive, PTL DEF Spec, CancelIsFinal

\* A recorded outcome changes only when the worker of a job that the stale sweep
\* failed turns out to be alive and reports, or when the row is cleaned up.
THEOREM OutcomesStand == Spec => OutcomeIsFinal
<1> DEFINE A == \A j \in Jobs : state[j] \in Settled /\ state'[j] # state[j] =>
       \/ state'[j] = "deleted"
       \/ /\ state[j] = "failed"
          /\ \E w \in Workers : Live(w) /\ job[w] = j /\ pc'[w] # pc[w]
<1>1. ASSUME IInv, [Next]_vars PROVE A
  <2> SUFFICES ASSUME NEW j \in Jobs, state[j] \in Settled, state'[j] # state[j],
                      state'[j] # "deleted"
               PROVE  /\ state[j] = "failed"
                      /\ \E w \in Workers : Live(w) /\ job[w] = j /\ pc'[w] # pc[w]
    OBVIOUS
  <2>1. RowStep(j)
    BY <1>1, StepRows
  <2>2. PICK w \in Workers : ReportsOn(w, j)
    BY <2>1 DEF RowStep, Settled
  <2>3. QED
    BY <2>2 DEF ReportsOn, Settled
<1>2. QED
  BY <1>1, Inductive, PTL DEF Spec, OutcomeIsFinal

\* No exit that fails a work item's job for good forgets the item.
THEOREM NoFailureForgotten == Spec => FailureIsHandedOn
<1> DEFINE A == \A j \in InProcess \ Unreadable :
       state'[j] = "failed" /\ state[j] # "failed" =>
         \/ j \in owed'
         \/ \E w \in Workers : pc'[w] = "hook" /\ job'[w] = j
<1>1. ASSUME IInv, [Next]_vars PROVE A
  <2> SUFFICES ASSUME NEW j \in InProcess \ Unreadable, state'[j] = "failed",
                      state[j] # "failed"
               PROVE  \/ j \in owed'
                      \/ \E w \in Workers : pc'[w] = "hook" /\ job'[w] = j
    OBVIOUS
  <2>1. RowStep(j)
    BY <1>1, StepRows, SetsAssumption
  <2>2. QED
    BY <2>1 DEF RowStep, ReportsOn, Releasable
<1>2. QED
  BY <1>1, Inductive, PTL DEF Spec, FailureIsHandedOn

-----------------------------------------------------------------------------
(* The two clocks: a worker counts its wait, the table dates its row. *)

\* With a wall clock that does not jump, no row is older than the wait of the
\* worker that is busy with it.
InPace ==
  \A w \in Workers : pc[w] \in {"open", "wait", "grace"} => runFor[job[w]] <= elapsed[w]

\* A write to the table starts the count of a row over, or leaves it.
LEMMA WritesRestart ==
  ASSUME RowTypes, NEW j \in Jobs, NEW s \in BOOLEAN, NEW f \in BOOLEAN,
         NEW d \in 0 .. Backoff, Complete(j, s) \/ Fail(j, f, d)
  PROVE  \A k \in Jobs : runFor'[k] \in {0, runFor[k]}
<1>1. runFor' = runFor \/ runFor' = [runFor EXCEPT ![j] = 0]
  BY Zenon DEF Complete, Fail, Settle, Requeue, rows
<1>2. QED
  BY <1>1 DEF RowTypes

\* A step in which no time passes and nobody takes a job keeps the pace.
LEMMA PauseKeepsPace ==
  ASSUME IInv, InPace, \A k \in Jobs : runFor'[k] \in {0, runFor[k]},
         \A w \in Workers : pc'[w] \in {"open", "wait", "grace"} =>
           /\ pc[w] \in {"open", "wait", "grace"}
           /\ job'[w] = job[w] /\ elapsed'[w] = elapsed[w]
  PROVE  InPace'
<1> SUFFICES ASSUME NEW w \in Workers, pc'[w] \in {"open", "wait", "grace"}
             PROVE  runFor'[job'[w]] <= elapsed'[w]
  BY DEF InPace
<1>1. job[w] \in Jobs /\ elapsed[w] \in Nat /\ runFor[job[w]] <= elapsed[w]
  BY NumbersAssumption
  DEF InPace, IInv, TInv, TypeOK, PoolShape, PoolTypes, Live, Busy
<1>2. QED
  BY <1>1

LEMMA DequeueKeepsPace ==
  ASSUME IInv, InPace, NEW w \in Workers, NEW j \in Jobs, Dequeue(w, j)
  PROVE  InPace'
<1> SUFFICES ASSUME NEW v \in Workers, pc'[v] \in {"open", "wait", "grace"}
             PROVE  runFor'[job'[v]] <= elapsed'[v]
  BY DEF InPace
<1>1. /\ runFor' = [runFor EXCEPT ![j] = 0] /\ elapsed' = elapsed
      /\ job' = [job EXCEPT ![w] = j] /\ \E c : pc' = [pc EXCEPT ![w] = c]
  BY DEF Dequeue, MarkRunning, Goto
<1>2. elapsed[v] \in Nat /\ RowTypes /\ PoolTypes
  BY NumbersAssumption DEF IInv, TInv, TypeOK, PoolTypes
<1>3. CASE v = w
  BY <1>1, <1>2, <1>3 DEF RowTypes, PoolTypes
<1>4. CASE v # w
  <2>1. pc[v] \in {"open", "wait", "grace"} /\ job'[v] = job[v]
    BY <1>1, <1>2, <1>4 DEF PoolTypes
  <2>2. job[v] \in Jobs /\ runFor[job[v]] <= elapsed[v]
    BY <2>1 DEF InPace, IInv, TInv, PoolShape, Live, Busy
  <2>3. QED
    BY <1>1, <1>2, <2>1, <2>2 DEF RowTypes
<1>5. QED
  BY <1>3, <1>4

\* The worker of a row that ages ages with it: a worker that has not begun to
\* wait is prompt, and time does not pass.
LEMMA TickKeepsPace == ASSUME IInv, InPace, Tick PROVE InPace'
<1> SUFFICES ASSUME NEW w \in Workers, pc'[w] \in {"open", "wait", "grace"}
             PROVE  runFor'[job'[w]] <= elapsed'[w]
  BY DEF InPace
<1>1. /\ pc' = pc /\ job' = job /\ WallClock /\ ~Prompt(w)
      /\ elapsed' = [v \in Workers |->
           IF Watching(v) \/ (pc[v] = "sub" /\ elapsed[v] < Timeout)
           THEN elapsed[v] + 1 ELSE elapsed[v]]
  BY DEF Tick
<1>2. Watching(w)
  BY <1>1 DEF Prompt, Watching
<1>3. job[w] \in Jobs /\ elapsed[w] \in Nat /\ runFor[job[w]] <= elapsed[w]
  BY <1>1, NumbersAssumption
  DEF InPace, IInv, TInv, TypeOK, PoolShape, PoolTypes, Live, Busy
<1>4. runFor[job[w]] \in Nat /\ runFor'[job[w]] \in {runFor[job[w]], runFor[job[w]] + 1}
  BY <1>1, <1>3, NumbersAssumption DEF WallClock, IInv, TInv, TypeOK, RowTypes, StaleAfter
<1>5. QED
  BY <1>1, <1>2, <1>3, <1>4

LEMMA PaceKept ==
  ASSUME ~ClockMayJump, IInv, InPace, [Next]_vars PROVE InPace'
<1>1. TypeOK /\ RowTypes /\ PoolTypes /\ PoolShape
  BY DEF IInv, TInv, TypeOK
<1>2. CASE Client
  <2>1. UNCHANGED <<pc, job, elapsed>>
    BY <1>2 DEF Client, Enqueue, CancelQueued, CancelRunning, CancelForItem, pool
  <2>2. \A k \in Jobs : runFor'[k] \in {0, runFor[k]}
    BY <1>1, <1>2
    DEF Client, Enqueue, CancelQueued, CancelRunning, CancelForItem, Settle, RowTypes
  <2>3. QED
    BY <2>1, <2>2, PauseKeepsPace
<1>3. CASE Daemon
  <2>1. \A w \in Workers : pc'[w] \in {"open", "wait", "grace"} =>
           pc'[w] = pc[w] /\ job'[w] = job[w] /\ elapsed'[w] = elapsed[w]
    BY <1>3
    DEF Daemon, Boot, StartPool, Crash, ReconcileOrphan, ReconcileFails, SweepStale,
        ReleaseItem, Cleanup, pool
  <2>2. \A k \in Jobs : runFor'[k] \in {0, runFor[k]}
    BY <1>1, <1>3
    DEF Daemon, Boot, StartPool, Crash, ReconcileOrphan, ReconcileFails, SweepStale,
        ReleaseItem, Cleanup, Settle, rows, RowTypes
  <2>3. QED
    BY <2>1, <2>2, PauseKeepsPace
<1>4. CASE Executor \/ UNCHANGED vars
  BY <1>4, PauseKeepsPace DEF Executor, ThreadEnds, vars, rows, pool
<1>5. CASE Tick \/ Suspend
  BY <1>5, TickKeepsPace DEF Suspend
<1>6. ASSUME NEW w \in Workers, WorkerDies(w) \/ Worker(w) PROVE InPace'
  <2>1. ASSUME NEW j \in Jobs, DequeueUnreadable(w, j) PROVE InPace'
    BY <2>1, <1>1, PauseKeepsPace DEF DequeueUnreadable, MarkRunning, pool, RowTypes
  <2>2. CASE SpawnExecutor(w) \/ WatchdogFires(w) \/ WorkerDies(w)
    <3>1. /\ UNCHANGED <<job, runFor>> /\ \E c : pc' = [pc EXCEPT ![w] = c]
          /\ pc[w] \in {"open", "wait", "grace"} \/ pc'[w] = "dead"
          /\ \A v \in Workers : elapsed'[v] = elapsed[v] \/ (v = w /\ pc'[w] = "dead")
      BY <2>2, <1>1
      DEF SpawnExecutor, WatchdogFires, TimedOut, WorkerDies, Goto, rows, PoolTypes
    <3>2. QED
      BY <1>1, <3>1, PauseKeepsPace DEF PoolTypes
  <2>3. ASSUME Leaves(w), \A k \in Jobs : runFor'[k] \in {0, runFor[k]} PROVE InPace'
    <3>1. /\ pc'[w] \in {"idle", "hook"}
          /\ \A v \in Workers \ {w} : pc'[v] = pc[v] /\ job'[v] = job[v] /\ elapsed'[v] = elapsed[v]
      BY <2>3, <1>1 DEF Leaves, Idle, Goto, PoolTypes
    <3>2. QED
      BY <2>3, <3>1, PauseKeepsPace
  <2>4. CASE CallHook(w) \/ OutcomeLost(w)
    BY <2>3, <2>4 DEF CallHook, OutcomeLost, Leaves, rows
  <2>5. CASE \/ OpenFails(w) \/ GraceExpires(w) \/ ReceiveFailure(w) \/ ReceiveOk(w)
             \/ SubprocessExits(w) \/ SubprocessKilled(w) \/ SpawnFails(w)
    <3>1. job[w] \in Jobs
      BY <1>1, <2>5
      DEF OpenFails, GraceExpires, GraceOver, ReceiveFailure, ReceiveOk, Watching,
          SubprocessExits, SubprocessKilled, SpawnFails, PoolShape, Live, Busy
    <3>2. /\ {TRUE, FALSE, inbox[w] = "fatal"} \subseteq BOOLEAN
          /\ {0, FailureDelay(inbox[w])} \subseteq 0 .. Backoff
      BY NumbersAssumption DEF FailureDelay
    <3>3. \/ Idle(w) /\ \E s \in BOOLEAN : Complete(job[w], s)
          \/ Idle(w) /\ Fail(job[w], FALSE, 0)
          \/ RecordFail(w, FALSE, 0)
          \/ RecordFail(w, inbox[w] = "fatal", FailureDelay(inbox[w]))
      BY <2>5, Zenon
      DEF OpenFails, GraceExpires, ReceiveFailure, ReceiveOk, SubprocessExits,
          SubprocessKilled, SpawnFails
    <3>4. /\ Leaves(w)
          /\ \E s, f \in BOOLEAN, d \in 0 .. Backoff :
               Complete(job[w], s) \/ Fail(job[w], f, d)
      BY <3>2, <3>3 DEF RecordFail, Leaves
    <3>5. QED
      BY <1>1, <2>3, <3>1, <3>4, WritesRestart, Zenon
  <2>6. QED
    BY <1>6, <2>1, <2>2, <2>4, <2>5, DequeueKeepsPace DEF Worker
<1>7. QED
  BY <1>2, <1>3, <1>4, <1>5, <1>6 DEF Next

\* With the clocks in step the sweep's judgement is right, for every time-out and
\* every grace of the watchdog that is smaller than the sweep's: the worker of an
\* in-process job that it fails is dead.
THEOREM SweepIsRight == ASSUME ~ClockMayJump PROVE Spec => SweepFindsDeadWorker
<1> DEFINE A == \A j \in InProcess : SweepStale(j) =>
                  ~ \E w \in Workers : Live(w) /\ pc[w] # "hook" /\ job[w] = j
<1>1. Init => InPace
  BY DEF Init, InPace
<1>2. ASSUME IInv, InPace PROVE A
  <2> SUFFICES ASSUME NEW j \in InProcess, SweepStale(j),
                      NEW w \in Workers, Live(w), pc[w] # "hook", job[w] = j
               PROVE  FALSE
    OBVIOUS
  <2>1. pc[w] \in {"open", "wait", "grace"}
    BY <1>2 DEF Live, Busy, IInv, TInv, PoolShape
  <2>2. elapsed[w] \in 0 .. (Timeout + AbandonGrace) /\ runFor[j] <= elapsed[w]
    BY <1>2, <2>1 DEF InPace, IInv, TInv, TypeOK, PoolTypes
  <2>3. runFor[j] = Timeout + StaleGrace
    BY DEF SweepStale, StaleAfter
  <2>4. QED
    BY <2>2, <2>3, NumbersAssumption
<1>3. IInv /\ InPace /\ [Next]_vars => InPace'
  BY PaceKept
<1>4. Spec => []InPace
  BY <1>1, <1>3, Inductive, PTL DEF Spec
<1>5. IInv /\ InPace /\ [Next]_vars => [A]_vars
  BY <1>2
<1>6. QED
  BY <1>4, <1>5, Inductive, PTL DEF Spec, SweepFindsDeadWorker

-----------------------------------------------------------------------------
(* The refinement of JobLife. *)

\* Only a row that was queued once has an outcome, an old one's included.
Pristine == \A j \in Jobs : state[j] = "new" => finishedFor[j] = Null
Hooks == {job[w] : w \in {v \in Workers : pc[v] = "hook"}}
LInv == IInv /\ Pristine

\* A row that some write reached is not new.
LEMMA WritesQueued ==
  ASSUME RowTypes, Pristine, NEW j \in Jobs, NEW s \in BOOLEAN, NEW f \in BOOLEAN,
         NEW d \in 0 .. Backoff, Complete(j, s) \/ Fail(j, f, d)
  PROVE  Pristine'
<1>1. CASE UNCHANGED rows
  BY <1>1 DEF Pristine, rows
<1>2. CASE \E o \in Settled : Settle(j, o)
  BY <1>2 DEF Pristine, Settle, Settled, RowTypes
<1>3. CASE Requeue(j, d)
  BY <1>3 DEF Pristine, Requeue, RowTypes
<1>4. QED
  BY <1>1, <1>2, <1>3, Zenon DEF Complete, Fail, Settled

LEMMA PristineKept == ASSUME IInv, Pristine, [Next]_vars PROVE Pristine'
<1>1. TypeOK /\ RowTypes /\ PoolTypes /\ PoolShape
  BY DEF IInv, TInv, TypeOK
<1>2. CASE Client
  <2>1. ASSUME NEW j \in Jobs, Enqueue(j) \/ CancelQueued(j) \/ CancelRunning(j)
        PROVE  Pristine'
    BY <1>1, <2>1 DEF Enqueue, CancelQueued, CancelRunning, Settle, RowTypes, Pristine
  <2>2. ASSUME NEW i \in Items, NEW keep \in SUBSET Agents, CancelForItem(i, keep)
        PROVE  Pristine'
    BY <1>1, <2>2 DEF CancelForItem, RowTypes, Pristine
  <2>3. QED
    BY <1>2, <2>1, <2>2 DEF Client
<1>3. CASE Daemon
  BY <1>1, <1>3
  DEF Daemon, Boot, StartPool, Crash, ReconcileOrphan, ReconcileFails, SweepStale,
      ReleaseItem, Cleanup, Settle, rows, RowTypes, Pristine
<1>4. CASE Executor \/ UNCHANGED vars
  BY <1>4 DEF Executor, ThreadEnds, vars, rows, Pristine
<1>5. CASE Tick \/ Suspend
  BY <1>5, NumbersAssumption DEF Tick, Suspend, WallClock, Pristine, Null
<1>6. ASSUME NEW w \in Workers, WorkerDies(w) \/ Worker(w) PROVE Pristine'
  <2>1. ASSUME NEW j \in Jobs, Dequeue(w, j) \/ DequeueUnreadable(w, j)
        PROVE  Pristine'
    BY <1>1, <2>1 DEF Dequeue, DequeueUnreadable, MarkRunning, RowTypes, Pristine
  <2>2. CASE \/ SpawnExecutor(w) \/ WatchdogFires(w) \/ CallHook(w)
             \/ OutcomeLost(w) \/ WorkerDies(w)
    BY <2>2
    DEF SpawnExecutor, WatchdogFires, CallHook, OutcomeLost, WorkerDies, rows, Pristine
  <2>3. CASE \/ OpenFails(w) \/ GraceExpires(w) \/ ReceiveFailure(w) \/ ReceiveOk(w)
             \/ SubprocessExits(w) \/ SubprocessKilled(w) \/ SpawnFails(w)
    <3>1. job[w] \in Jobs
      BY <1>1, <2>3
      DEF OpenFails, GraceExpires, GraceOver, ReceiveFailure, ReceiveOk, Watching,
          SubprocessExits, SubprocessKilled, SpawnFails, PoolShape, Live, Busy
    <3>2. /\ {TRUE, FALSE, inbox[w] = "fatal"} \subseteq BOOLEAN
          /\ {0, FailureDelay(inbox[w])} \subseteq 0 .. Backoff
      BY NumbersAssumption DEF FailureDelay
    <3>3. \/ \E s \in BOOLEAN : Complete(job[w], s)
          \/ Fail(job[w], FALSE, 0)
          \/ Fail(job[w], inbox[w] = "fatal", FailureDelay(inbox[w]))
      BY <2>3, Zenon
      DEF OpenFails, GraceExpires, ReceiveFailure, ReceiveOk, SubprocessExits,
          SubprocessKilled, SpawnFails, RecordFail
    <3>4. \E s, f \in BOOLEAN, d \in 0 .. Backoff :
            Complete(job[w], s) \/ Fail(job[w], f, d)
      BY <3>2, <3>3
    <3>5. QED
      BY <1>1, <3>1, <3>4, WritesQueued, Zenon
  <2>4. QED
    BY <1>6, <2>1, <2>2, <2>3 DEF Worker
<1>7. QED
  BY <1>2, <1>3, <1>4, <1>5, <1>6 DEF Next

\* What the mapping sees of the pool: who holds which job, and for what.
LEMMA SamePool ==
  ASSUME UNCHANGED <<pc, job>> PROVE Working' = Working /\ Hooks' = Hooks
BY DEF Working, Hooks, Live

LEMMA UntoldIs == Untold = owed \cup Hooks /\ Untold' = owed' \cup Hooks'
BY DEF Untold, Hooks

\* The worker that holds a job is the only one, so nobody does when it lets go.
LEMMA LetsGo ==
  ASSUME IInv, NEW w \in Workers, Live(w), pc[w] # "hook",
         pc'[w] \notin Busy \/ (pc'[w] = "hook" /\ job'[w] = job[w]),
         \A v \in Workers \ {w} : pc'[v] = pc[v] /\ job'[v] = job[v]
  PROVE  /\ job[w] \in Working /\ Working' = Working \ {job[w]}
         /\ Hooks' = IF pc'[w] = "hook" THEN Hooks \cup {job[w]} ELSE Hooks
<1>1. \A v \in Workers \ {w} : Live(v) /\ pc[v] # "hook" => job[v] # job[w]
  BY DEF IInv, OneWorkerPerJob
<1>2. job[w] \in Working
  BY DEF Working
<1>3. Working' \subseteq Working \ {job[w]}
  BY <1>1 DEF Working, Live
<1>4. Working \ {job[w]} \subseteq Working'
  BY DEF Working, Live
<1>5. Hooks' = IF pc'[w] = "hook" THEN Hooks \cup {job[w]} ELSE Hooks
  <2>1. CASE pc'[w] = "hook"
    BY <2>1 DEF Hooks, Busy
  <2>2. CASE pc'[w] # "hook"
    BY <2>2 DEF Hooks, Busy
  <2>3. QED
    BY <2>1, <2>2
<1>6. QED
  BY <1>2, <1>3, <1>4, <1>5

\* What a worker that lets go may have done to its row: all of it is what the
\* promise lets who works on a job do.
Row(j, s) == state' = [state EXCEPT ![j] = s] /\ retries' = retries
LetsGoOf(w, j) ==
  /\ cancelRequested' = cancelRequested
  /\ \/ state[j] = "deleted" /\ UNCHANGED <<state, retries>> /\ Idle(w)
     \/ state[j] # "deleted" /\ cancelRequested[j] /\ Row(j, "killed") /\ Idle(w)
     \/ state[j] # "deleted" /\ ~cancelRequested[j] /\ Row(j, "exited") /\ Idle(w)
     \/ /\ state[j] # "deleted" /\ ~cancelRequested[j] /\ Row(j, "failed")
        /\ IF j \in InProcess
           THEN Goto(w, "hook") /\ UNCHANGED <<job, token, elapsed, inbox>>
           ELSE Idle(w)
     \/ /\ state[j] # "deleted" /\ ~cancelRequested[j] /\ retries[j] < MaxRetries
        /\ state' = [state EXCEPT ![j] = "queued"]
        /\ retries' = [retries EXCEPT ![j] = @ + 1] /\ Idle(w)

\* The success of an attempt, the end of a subprocess, ...
LEMMA CompleteLetsGo ==
  ASSUME NEW w \in Workers, NEW j \in Jobs, NEW s \in BOOLEAN, Idle(w), Complete(j, s),
         s \/ j \notin InProcess
  PROVE  LetsGoOf(w, j)
BY Zenon DEF Complete, Settle, LetsGoOf, Row, rows
\* ... a subprocess that was never started, ...
LEMMA FailLetsGo ==
  ASSUME NEW w \in Workers, NEW j \in Jobs \ InProcess, Idle(w), Fail(j, FALSE, 0)
  PROVE  LetsGoOf(w, j)
BY Zenon DEF Fail, Retried, Settle, Requeue, LetsGoOf, Row, rows
\* ... and any failure of an attempt, which goes on to the hook when it is for good.
LEMMA RecordFailLetsGo ==
  ASSUME NEW w \in Workers, job[w] \in InProcess, NEW f \in BOOLEAN,
         NEW d \in 0 .. Backoff, RecordFail(w, f, d)
  PROVE  LetsGoOf(w, job[w])
<1> DEFINE j == job[w]
<1>1. CASE state[j] = "deleted" \/ cancelRequested[j]
  <2>1. Idle(w) /\ Fail(j, f, d)
    BY <1>1, Zenon DEF RecordFail, FailIsPermanent
  <2>2. QED
    BY <1>1, <2>1, Zenon DEF Fail, Settle, LetsGoOf, Row, rows
<1>2. CASE state[j] # "deleted" /\ ~cancelRequested[j] /\ Retried(j, f)
  <2>1. Idle(w) /\ Requeue(j, d) /\ retries[j] < MaxRetries
    BY <1>2, Zenon DEF RecordFail, FailIsPermanent, Fail, Retried
  <2>2. QED
    BY <1>2, <2>1, Zenon DEF Requeue, LetsGoOf
<1>3. CASE state[j] # "deleted" /\ ~cancelRequested[j] /\ ~Retried(j, f)
  <2>1. /\ Goto(w, "hook") /\ UNCHANGED <<job, token, elapsed, inbox>>
        /\ Settle(j, "failed")
    BY <1>3, Zenon DEF RecordFail, FailIsPermanent, Fail
  <2>2. QED
    BY <1>3, <2>1, Zenon DEF Settle, LetsGoOf, Row
<1>4. QED
  BY <1>1, <1>2, <1>3

LEMMA LetsGoLives ==
  ASSUME IInv, NEW w \in Workers, Live(w), pc[w] # "hook", LetsGoOf(w, job[w]),
         UNCHANGED <<owed, reported>>
  PROVE  Promise!Next
<1> DEFINE j == job[w]
<1>1. j \in Jobs /\ PoolTypes
  BY DEF IInv, TInv, TypeOK, PoolShape
<1>2. /\ \A v \in Workers \ {w} : pc'[v] = pc[v] /\ job'[v] = job[v]
      /\ pc'[w] = "idle" \/ (pc'[w] = "hook" /\ job'[w] = j)
      /\ Idle(w) => pc'[w] = "idle"
      /\ Goto(w, "hook") => pc'[w] = "hook"
  BY <1>1 DEF LetsGoOf, Idle, Goto, PoolTypes
<1>3. /\ j \in Working /\ Working' = Working \ {j}
      /\ Hooks' = IF pc'[w] = "hook" THEN Hooks \cup {j} ELSE Hooks
  <2>1. pc'[w] \notin Busy \/ (pc'[w] = "hook" /\ job'[w] = j)
    BY <1>2 DEF Busy
  <2>2. QED
    BY <1>2, <2>1, LetsGo, Zenon
<1>4. /\ Idle(w) => Untold' = Untold
      /\ Goto(w, "hook") => Untold' = Untold \cup {j}
  BY <1>2, <1>3, UntoldIs
<1>5. j \in InProcess => j \notin Unreadable
  BY DEF IInv, TInv, PoolShape, Live, Busy
<1>6. Promise!End(j) \/ Promise!Retry(j)
  <2>1. CASE state[j] = "deleted" /\ UNCHANGED <<state, retries>> /\ Idle(w)
    BY <1>3, <1>4, <2>1 DEF LetsGoOf, Promise!End
  <2>2. CASE state[j] # "deleted" /\ cancelRequested[j] /\ Row(j, "killed") /\ Idle(w)
    BY <1>3, <1>4, <2>2 DEF LetsGoOf, Row, Promise!End, Promise!Becomes
  <2>3. CASE state[j] # "deleted" /\ ~cancelRequested[j] /\ Row(j, "exited") /\ Idle(w)
    BY <1>3, <1>4, <2>3 DEF LetsGoOf, Row, Promise!End, Promise!Becomes
  <2>4. CASE /\ state[j] # "deleted" /\ ~cancelRequested[j] /\ Row(j, "failed")
             /\ IF j \in InProcess THEN Goto(w, "hook") ELSE Idle(w)
    <3>1. Promise!Owe(j)
      BY <1>4, <1>5, <2>4 DEF Promise!Owe
    <3>2. QED
      BY <1>3, <2>4, <3>1 DEF LetsGoOf, Row, Promise!End, Promise!Becomes
  <2>5. CASE /\ state[j] # "deleted" /\ ~cancelRequested[j] /\ retries[j] < MaxRetries
             /\ state' = [state EXCEPT ![j] = "queued"]
             /\ retries' = [retries EXCEPT ![j] = @ + 1] /\ Idle(w)
    BY <1>3, <1>4, <2>5 DEF LetsGoOf, Promise!Retry, Promise!Becomes
  <2>6. QED
    BY <2>1, <2>2, <2>3, <2>4, <2>5, Zenon DEF LetsGoOf
<1>7. QED
  BY <1>1, <1>6, Zenon DEF Promise!Next

\* A step that the promise does not see.
Unseen == UNCHANGED Promise!vars

LEMMA ClientLives == ASSUME IInv, Client PROVE Promise!Next
<1>1. /\ Working' = Working /\ Untold' = Untold /\ reported' = reported
      /\ retries' = retries /\ RowTypes
  <2>1. /\ UNCHANGED <<pc, job, owed>> /\ reported' = reported /\ retries' = retries
        /\ RowTypes
    BY DEF Client, Enqueue, CancelQueued, CancelRunning, CancelForItem, Settle, daemon,
           pool, IInv, TInv, TypeOK
  <2>2. QED
    BY <2>1, SamePool, UntoldIs
<1>2. ASSUME NEW j \in Jobs, Enqueue(j) PROVE Promise!Next
  <2>1. Promise!Submit(j)
    BY <1>1, <1>2 DEF Enqueue, Promise!Submit, Promise!Becomes
  <2>2. QED
    BY <2>1 DEF Promise!Next
<1>3. ASSUME NEW j \in Jobs, CancelQueued(j) \/ CancelRunning(j) PROVE Promise!Next
  <2>1. {j} \in SUBSET Promise!Cancellable
    BY <1>3 DEF CancelQueued, CancelRunning, Promise!Cancellable
  <2>2. Promise!Cancel({j})
    <3>1. state' = [k \in Jobs |-> IF k \in {j} /\ state[k] = "queued"
                                   THEN "killed" ELSE state[k]]
      BY <1>1, <1>3 DEF CancelQueued, CancelRunning, Settle, RowTypes
    <3>2. cancelRequested' =
            [k \in Jobs |-> cancelRequested[k] \/ (k \in {j} /\ state[k] = "running")]
      BY <1>1, <1>3 DEF CancelQueued, CancelRunning, Settle, RowTypes
    <3>3. QED
      BY <1>1, <3>1, <3>2, Zenon DEF Promise!Cancel
  <2>3. QED
    BY <2>1, <2>2, Zenon DEF Promise!Next
<1>4. ASSUME NEW i \in Items, NEW keep \in SUBSET Agents, CancelForItem(i, keep)
      PROVE  Promise!Next
  <2> DEFINE hit == {j \in InProcess \ Unreadable :
                       /\ state[j] \in {"queued", "running"} /\ ~cancelRequested[j]
                       /\ Item[j] = i /\ Agent[j] \notin keep}
             killed == {j \in hit : state[j] = "queued"}
  <2>1. /\ state' = [j \in Jobs |-> IF j \in killed THEN "killed" ELSE state[j]]
        /\ cancelRequested' =
             [j \in Jobs |-> j \in hit \ killed \/ cancelRequested[j]]
    BY <1>4 DEF CancelForItem
  <2>2. hit \in SUBSET Promise!Cancellable
    BY SetsAssumption DEF Promise!Cancellable
  <2>3. \A j \in Jobs : /\ j \in killed <=> j \in hit /\ state[j] = "queued"
                        /\ j \in hit \ killed <=> j \in hit /\ state[j] = "running"
    OBVIOUS
  <2>4. Promise!Cancel(hit)
    <3> HIDE DEF hit, killed
    <3>1. state' = [k \in Jobs |-> IF k \in hit /\ state[k] = "queued"
                                   THEN "killed" ELSE state[k]]
      BY <2>1, <2>3
    <3>2. cancelRequested' =
            [k \in Jobs |-> cancelRequested[k] \/ (k \in hit /\ state[k] = "running")]
      BY <2>1, <2>3
    <3>3. QED
      BY <1>1, <3>1, <3>2, Zenon DEF Promise!Cancel
  <2>5. QED
    BY <2>2, <2>4, Zenon DEF Promise!Next
<1>5. QED
  BY <1>2, <1>3, <1>4 DEF Client

\* When the pool is off, or goes off, nobody works on anything.
LEMMA PoolOff == ASSUME mode # "up", IInv PROVE Working = {} /\ Hooks = {}
BY DEF IInv, TInv, PoolShape, Working, Hooks, Live, Busy

LEMMA DaemonLives == ASSUME LInv, Daemon PROVE Promise!Next \/ Unseen
<1>1. IInv /\ Pristine /\ RowTypes
  BY DEF LInv, IInv, TInv, TypeOK
<1>2. CASE Boot
  <2>1. UNCHANGED <<rows, owed, reported, pc, job>>
    BY <1>2 DEF Boot, pool
  <2>2. QED
    BY <2>1, SamePool, UntoldIs DEF Unseen, Promise!vars, rows
<1>3. CASE StartPool
  <2>1. Working' = {} /\ Hooks' = {} /\ Working = {} /\ Hooks = {}
    BY <1>1, <1>3, PoolOff DEF StartPool, Working, Hooks, Live, Busy
  <2>2. QED
    BY <1>3, <2>1, UntoldIs DEF StartPool, Unseen, Promise!vars, rows
<1>4. CASE Crash
  <2>1. Working' = {} /\ Hooks' = {}
    BY <1>4 DEF Crash, Working, Hooks, Live, Busy
  <2>2. Promise!DropAll
    BY <1>4, <2>1, UntoldIs DEF Crash, Promise!DropAll, rows
  <2>3. QED
    BY <2>2 DEF Promise!Next
<1>5. ASSUME NEW j \in Jobs, ReconcileOrphan(j) \/ SweepStale(j) PROVE Promise!Next
  <2>1. /\ state[j] = "running" /\ Settle(j, "failed") /\ UNCHANGED <<reported, pc, job>>
        /\ owed' = IF j \in InProcess \ Unreadable THEN owed \cup {j} ELSE owed
    BY <1>5 DEF ReconcileOrphan, SweepStale, Releasable, pool
  <2>2. Promise!Owe(j) /\ Working' = Working
    BY <2>1, SamePool, UntoldIs DEF Promise!Owe
  <2>3. Promise!Presume(j)
    BY <2>1, <2>2 DEF Settle, Promise!Presume, Promise!Becomes
  <2>4. QED
    BY <2>3, Zenon DEF Promise!Next
<1>6. ASSUME NEW j \in Jobs, ReleaseItem(j) PROVE Promise!Next
  <2>1. /\ j \in owed /\ owed' = owed \ {j} /\ reported' = reported \cup {j}
        /\ UNCHANGED <<rows, pc, job>>
    BY <1>6 DEF ReleaseItem, pool
  <2>2. Working' = Working /\ j \in Untold /\ Untold' \in {Untold, Untold \ {j}}
    BY <2>1, SamePool, UntoldIs
  <2>3. Promise!Tell(j)
    BY <2>1, <2>2 DEF Promise!Tell, rows
  <2>4. QED
    BY <2>3, Zenon DEF Promise!Next
<1>7. ASSUME NEW j \in Jobs, Cleanup(j) PROVE Promise!Next
  <2>1. state[j] # "new" /\ state' = [state EXCEPT ![j] = "deleted"]
    BY <1>1, <1>7, NumbersAssumption DEF Cleanup, Pristine, Null
  <2>2. UNCHANGED <<retries, cancelRequested, reported, Working, Untold>>
    BY <1>7, SamePool, UntoldIs DEF Cleanup, daemon, pool
  <2>3. Promise!CleanUp(j)
    BY <2>1, <2>2 DEF Promise!CleanUp, Promise!Becomes
  <2>4. QED
    BY <2>3, Zenon DEF Promise!Next
<1>8. ASSUME NEW j \in Jobs, ReconcileFails(j) PROVE Promise!Next
  <2>1. mode # "up" /\ owed' = {} /\ UNCHANGED <<rows, reported, pc, job>>
    BY <1>8 DEF ReconcileFails, pool
  <2>2. Working' = {} /\ Untold' = {}
    BY <1>1, <2>1, PoolOff, SamePool, UntoldIs
  <2>3. Promise!DropAll
    BY <2>1, <2>2 DEF Promise!DropAll, rows
  <2>4. QED
    BY <2>3 DEF Promise!Next
<1>9. QED
  BY <1>2, <1>3, <1>4, <1>5, <1>6, <1>7, <1>8 DEF Daemon

LEMMA WorkerLives ==
  ASSUME IInv, NEW w \in Workers, Worker(w) \/ WorkerDies(w)
  PROVE  Promise!Next \/ Unseen
<1>1. TypeOK /\ RowTypes /\ PoolTypes /\ PoolShape
  BY DEF IInv, TInv, TypeOK
<1>2. ASSUME NEW j \in Jobs, Dequeue(w, j) PROVE Promise!Next
  <2>1. /\ state[j] = "queued" /\ state' = [state EXCEPT ![j] = "running"]
        /\ j \notin Unreadable /\ pc[w] = "idle"
        /\ UNCHANGED <<retries, cancelRequested, owed, reported>>
        /\ job' = [job EXCEPT ![w] = j]
        /\ pc'[w] \in {"open", "sub"} /\ \A v \in Workers \ {w} : pc'[v] = pc[v]
    BY <1>1, <1>2
    DEF Dequeue, Next_in_line, Due, MarkRunning, Goto, daemon, PoolTypes
  <2>2. j \notin Working
    BY <2>1 DEF IInv, HeldRowIsThisAttempt, Working
  <2>3. Working' = Working \cup {j}
    BY <1>1, <2>1 DEF Working, Live, Busy, PoolTypes
  <2>4. Hooks' = Hooks
    BY <1>1, <2>1 DEF Hooks, PoolTypes
  <2>5. Promise!Begin(j)
    BY <2>1, <2>2, <2>3, <2>4, UntoldIs DEF Promise!Begin, Promise!Becomes
  <2>6. QED
    BY <2>5, Zenon DEF Promise!Next
<1>3. ASSUME NEW j \in Jobs, DequeueUnreadable(w, j) PROVE Promise!Next
  <2>1. /\ state[j] = "queued" /\ state' = [state EXCEPT ![j] = "running"]
        /\ j \in Unreadable
        /\ UNCHANGED <<retries, cancelRequested, owed, reported, pc, job>>
    BY <1>3 DEF DequeueUnreadable, Next_in_line, Due, MarkRunning, daemon, pool
  <2>2. j \notin Working
    BY <2>1 DEF IInv, HeldRowIsThisAttempt, Working
  <2>3. Promise!Begin(j)
    BY <2>1, <2>2, SamePool, UntoldIs DEF Promise!Begin, Promise!Becomes
  <2>4. QED
    BY <2>3, Zenon DEF Promise!Next
<1>4. CASE SpawnExecutor(w) \/ WatchdogFires(w)
  <2>1. /\ UNCHANGED <<rows, owed, reported, job>>
        /\ pc[w] \in {"open", "wait"} /\ pc'[w] \in {"wait", "grace"}
        /\ \A v \in Workers \ {w} : pc'[v] = pc[v]
    BY <1>1, <1>4 DEF SpawnExecutor, WatchdogFires, TimedOut, Goto, daemon, PoolTypes
  <2>2. Working' = Working /\ Hooks' = Hooks
    BY <2>1 DEF Working, Hooks, Live, Busy
  <2>3. QED
    BY <2>1, <2>2, UntoldIs DEF Unseen, Promise!vars, rows
<1>5. CASE (WorkerDies(w) /\ pc[w] # "hook") \/ OutcomeLost(w)
  <2>1. /\ Live(w) /\ pc[w] # "hook" /\ job[w] \in Jobs
        /\ pc'[w] \in {"dead", "idle"}
        /\ \A v \in Workers \ {w} : pc'[v] = pc[v] /\ job'[v] = job[v]
        /\ UNCHANGED <<rows, owed, reported>>
    BY <1>1, <1>5
    DEF WorkerDies, OutcomeLost, HasOutcome, GraceOver, Watching, Idle, Goto, daemon,
        PoolTypes, PoolShape, Live, Busy
  <2>2. Working' = Working \ {job[w]} /\ Hooks' = Hooks
    BY <2>1, LetsGo DEF Busy
  <2>3. Promise!Drop(job[w])
    BY <2>1, <2>2, UntoldIs DEF Promise!Drop, rows
  <2>4. QED
    BY <2>1, <2>3, Zenon DEF Promise!Next
<1>6. ASSUME pc[w] = "hook", pc'[w] \in {"dead", "idle"},
             \A v \in Workers \ {w} : pc'[v] = pc[v] /\ job'[v] = job[v]
      PROVE  /\ Working' = Working /\ job[w] \in Jobs
             /\ Hooks' \in {Hooks, Hooks \ {job[w]}} /\ job[w] \in Hooks
  <2>1. Working' = Working
    BY <1>6 DEF Working, Live, Busy
  <2>2. Hooks' \subseteq Hooks /\ Hooks \ {job[w]} \subseteq Hooks' /\ job[w] \in Hooks
    BY <1>6 DEF Hooks
  <2>3. QED
    BY <1>1, <1>6, <2>1, <2>2 DEF PoolShape, Live, Busy
<1>7. CASE WorkerDies(w) /\ pc[w] = "hook"
  <2>1. /\ pc'[w] = "dead" /\ UNCHANGED <<rows, owed, reported>>
        /\ \A v \in Workers \ {w} : pc'[v] = pc[v] /\ job'[v] = job[v]
    BY <1>1, <1>7 DEF WorkerDies, Goto, daemon, PoolTypes
  <2>2. Working' = Working /\ Untold' \in {Untold, Untold \ {job[w]}} /\ job[w] \in Jobs
    BY <1>6, <1>7, <2>1, UntoldIs
  <2>3. Promise!Drop(job[w]) \/ Unseen
    BY <2>1, <2>2 DEF Promise!Drop, Unseen, Promise!vars, rows
  <2>4. QED
    BY <2>2, <2>3, Zenon DEF Promise!Next
<1>8. CASE CallHook(w)
  <2>1. /\ pc[w] = "hook" /\ pc'[w] = "idle" /\ reported' = reported \cup {job[w]}
        /\ UNCHANGED <<rows, owed>>
        /\ \A v \in Workers \ {w} : pc'[v] = pc[v] /\ job'[v] = job[v]
    BY <1>1, <1>8 DEF CallHook, Idle, Goto, PoolTypes
  <2>2. /\ Working' = Working /\ Untold' \in {Untold, Untold \ {job[w]}}
        /\ job[w] \in Jobs /\ job[w] \in Untold
    BY <1>6, <2>1, UntoldIs
  <2>3. Promise!Tell(job[w])
    BY <2>1, <2>2 DEF Promise!Tell, rows
  <2>4. QED
    BY <2>2, <2>3, Zenon DEF Promise!Next
<1>9. CASE \/ OpenFails(w) \/ GraceExpires(w) \/ ReceiveFailure(w) \/ ReceiveOk(w)
           \/ SubprocessExits(w) \/ SubprocessKilled(w) \/ SpawnFails(w)
  <2>1. /\ Live(w) /\ pc[w] # "hook" /\ job[w] \in Jobs
        /\ pc[w] = "sub" \/ job[w] \in InProcess
        /\ pc[w] = "sub" => job[w] \notin InProcess
        /\ UNCHANGED <<owed, reported>>
    BY <1>1, <1>9
    DEF OpenFails, GraceExpires, GraceOver, ReceiveFailure, ReceiveOk, Watching, daemon,
        SubprocessExits, SubprocessKilled, SpawnFails, PoolShape, Live, Busy
  <2>2. TRUE \in BOOLEAN /\ FALSE \in BOOLEAN /\ (inbox[w] = "fatal") \in BOOLEAN
        /\ 0 \in 0 .. Backoff /\ FailureDelay(inbox[w]) \in 0 .. Backoff
    BY NumbersAssumption DEF FailureDelay
  <2>3. CASE OpenFails(w) \/ GraceExpires(w) \/ ReceiveFailure(w)
    <3>1. job[w] \in InProcess
      BY <1>1, <2>3, SetsAssumption
      DEF OpenFails, GraceExpires, GraceOver, ReceiveFailure, PoolShape
    <3>2. \/ RecordFail(w, FALSE, 0)
          \/ RecordFail(w, inbox[w] = "fatal", FailureDelay(inbox[w]))
      BY <2>3, Zenon DEF OpenFails, GraceExpires, ReceiveFailure
    <3>3. LetsGoOf(w, job[w])
      BY <2>2, <3>1, <3>2, RecordFailLetsGo, Zenon
    <3>4. QED
      BY <2>1, <3>3, LetsGoLives, Zenon
  <2>4. CASE ReceiveOk(w) \/ SubprocessExits(w) \/ SubprocessKilled(w)
    <3>1. /\ Idle(w)
          /\ Complete(job[w], TRUE) \/ (Complete(job[w], FALSE) /\ pc[w] = "sub")
      BY <2>4, Zenon DEF ReceiveOk, SubprocessExits, SubprocessKilled
    <3>2. LetsGoOf(w, job[w])
      BY <2>1, <2>2, <3>1, CompleteLetsGo, Zenon
    <3>3. QED
      BY <2>1, <3>2, LetsGoLives, Zenon
  <2>5. CASE SpawnFails(w)
    <3>1. Idle(w) /\ Fail(job[w], FALSE, 0) /\ job[w] \in Jobs \ InProcess
      BY <2>1, <2>5 DEF SpawnFails
    <3>2. LetsGoOf(w, job[w])
      BY <3>1, FailLetsGo, Zenon
    <3>3. QED
      BY <2>1, <3>2, LetsGoLives, Zenon
  <2>6. QED
    BY <1>9, <2>3, <2>4, <2>5
<1>10. QED
  BY <1>2, <1>3, <1>4, <1>5, <1>7, <1>8, <1>9 DEF Worker

\* The queue keeps its promise, for any number of jobs and workers, however often
\* threads hang or die, clocks jump, writes fail and the daemon crashes: a job is
\* worked on by one worker at a time and tried again by that worker alone, nobody
\* runs a cancelled one again, and no failure for good is recorded without the debt
\* to tell the item's side.
THEOREM Implements == Spec => ImplementsLife
<1>1. Init => LInv /\ Promise!Init
  <2>1. ASSUME Init PROVE Pristine /\ Promise!Init
    BY <2>1
    DEF Init, Pristine, Null, Promise!Init, Working, Untold, Live, Busy
  <2>2. QED
    BY <2>1, InitEstablishes DEF LInv
<1>2. LInv /\ [Next]_vars => LInv'
  BY StepPreserves, PristineKept DEF LInv
<1>3. LInv /\ [Next]_vars => [Promise!Next]_(Promise!vars)
  <2> SUFFICES ASSUME LInv, [Next]_vars PROVE Promise!Next \/ Unseen
    BY DEF Unseen
  <2>1. IInv
    BY DEF LInv
  <2>2. CASE Executor \/ Tick \/ Suspend \/ UNCHANGED vars
    <3>1. /\ UNCHANGED <<state, retries, cancelRequested, owed, reported>>
          /\ UNCHANGED <<pc, job>>
      BY <2>2 DEF Executor, ThreadEnds, Tick, Suspend, WallClock, vars, rows, daemon, pool
    <3>2. QED
      BY <3>1, SamePool, UntoldIs DEF Unseen, Promise!vars
  <2>3. QED
    BY <2>1, <2>2, ClientLives, DaemonLives, WorkerLives DEF Next
<1>4. QED
  BY <1>1, <1>2, <1>3, PTL DEF Spec, ImplementsLife, Promise!Spec
=============================================================================
