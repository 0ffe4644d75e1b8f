----------------------- MODULE WorkItemCeilingProofs -----------------------
(***************************************************************************)
(* The failure ceiling, for every cap, number of jobs, retries and faults: *)
(* the jobs ever dispatched and those the item can still bring about, Left,*)
(* stay within the bound together.  Only a fault raises the sum.           *)
(*                                                                         *)
(* An item is worth a dispatch budget for everything that may still make   *)
(* it ready or begin its count anew: its ready label, a job on its way, a  *)
(* hook to be called, a claim left behind.  These are its Tokens.  Without *)
(* faults there is one, which changes hands; the first is worth what the   *)
(* ceiling leaves of the present budget, every other one a whole budget.   *)
(***************************************************************************)
EXTENDS WorkItemClaimProofs, FiniteSetTheorems

\* The review has begun, or the item is over: no sweep makes it ready again.
Delivered == {"in_review"} \cup Terminal
Holds(j) == HeldBy(j) /\ group \notin Delivered

\* While nobody disturbs the daemon nothing is paused and no session has the item.
Calm ==
  /\ run # "paused" /\ cycle # "neutral" /\ stopped = FALSE /\ call = "none"
  /\ "paused" \notin labels
  /\ claim = "held" => holder[2] \in Jobs
  /\ \A s \in Sessions : step[s] = "idle"
  /\ \A j \in Jobs : at[j] # "halt"
\* The item is ready below the ceiling only, and while a dispatch of it is under way.
ReadyBelow ==
  /\ "ready" \in labels => Failures < Cap
  /\ tick # "idle" => "ready" \in labels
\* A job that has failed has given its claim back.
Hooks ==
  \A j \in Jobs : /\ j \in hook => row[j] = "failed" /\ at[j] = "idle" /\ ~HeldBy(j)
                  /\ at[j] = "fatal" => ~HeldBy(j)
\* A job is finalized while its executor waits for the run.
Finals ==
  \A j \in Jobs : step[j] \in Finishing => Waiting(j) /\ driver = j /\ run = "running"
Leaves == \A j \in Jobs : step[j] = "leave" /\ HeldBy(j) => group \in Delivered
\* The boot restores the item of the one job that ran, and nothing else goes on.
Boots ==
  /\ \A j \in Jobs : boot[j] # "none" =>
       /\ hook = {} /\ tick = "idle" /\ up
       /\ \A i \in Jobs : /\ row[i] \notin Active /\ at[i] = "idle"
                          /\ boot[i] # "none" => i = j
       /\ boot[j] = "give" => claim # "held" \/ holder = Orphan(j)
       /\ boot[j] = "restore" => claim # "held"
  /\ ~up => hook = {} /\ tick = "idle" /\ \A j \in Jobs : boot[j] = "none"
Quiet == Calm /\ ReadyBelow /\ Hooks /\ Finals /\ Leaves /\ Boots

-----------------------------------------------------------------------------
(* What holds while nobody disturbs the daemon.                            *)

\* One executor is at work, on a job that runs.
LEMMA OneExecutor ==
  ASSUME IInv, Attended, Undisturbed
  PROVE  /\ \A j \in Jobs : at[j] # "idle" => row[j] = "running" /\ up
         /\ \A i, j \in Jobs : at[i] # "idle" /\ at[j] # "idle" => i = j
         /\ \A j \in Jobs : HeldBy(j) => /\ at[j] # "idle" => holder = Me(j)
                                      /\ row[j] \notin {"none", "queued"}
  BY DEF Attended, OneActive, Attempts, Active, Undisturbed, Holding

\* A part of it holds on while its variables stay.
LEMMA QuietFrames ==
  ASSUME Quiet
  PROVE  /\ UNCHANGED <<run, cycle, stopped, call, labels, claim, holder, step,
                        at>> => Calm'
         /\ UNCHANGED <<labels, past, cycle, tick>> => ReadyBelow'
         /\ UNCHANGED <<hook, row, at, claim, holder>> => Hooks'
         /\ UNCHANGED <<step, at, driver, run>> => Finals'
         /\ UNCHANGED <<step, claim, holder, group>> => Leaves'
         /\ UNCHANGED <<boot, hook, tick, up, row, at, claim, holder, payload>> => Boots'
<1> USE DEF Quiet, HeldBy
<1>1. UNCHANGED <<run, cycle, stopped, call, labels, claim, holder, step, at>> => Calm'
  BY DEF Calm
<1>2. UNCHANGED <<labels, past, cycle, tick>> => ReadyBelow'
  BY DEF ReadyBelow, Failures
<1>3. UNCHANGED <<hook, row, at, claim, holder>> => Hooks'
  BY DEF Hooks
<1>4. UNCHANGED <<step, at, driver, run>> => Finals'
  BY DEF Finals, Waiting
<1>5. UNCHANGED <<step, claim, holder, group>> => Leaves'
  BY DEF Leaves, Delivered, Terminal
<1>6. UNCHANGED <<boot, hook, tick, up, row, at, claim, holder, payload>> => Boots'
  BY DEF Boots, Active, Orphan
<1> QED BY <1>1, <1>2, <1>3, <1>4, <1>5, <1>6

\* The first closure of a release keeps the claim, ends it or takes it.
LEMMA ConfirmTakes ==
  ASSUME NEW o, NEW here, Confirm(o, here)
  PROVE  UNCHANGED <<holder, claim>> \/ claim' # "held" \/ holder' = o
  BY DEF Confirm, ledger, Acquire, NoClaim

\* The discovery tick takes the ready label away, or counts what it dispatches.
LEMMA TickIsQuiet ==
  ASSUME IInv, Attended, Quiet, Undisturbed, Tick
  PROVE  Quiet'
<1> USE QuietFrames, Kinds, OneExecutor
    DEF Quiet, item, ledger, log, queue, execs, ticker, daemon, outside, bounds
<1>6. CASE TickLists
  BY <1>6 DEF TickLists, Looks, Serving, ReadyBelow, Boots, Failures
<1>1. CASE TickFinds
  BY <1>1 DEF TickFinds, Looks, ReadyBelow, Boots, Failures
<1>2. CASE TickSkips
  BY <1>2 DEF TickSkips, ReadyBelow, Boots, Calm, Failures
<1>3. CASE TickRefused
  BY <1>3 DEF TickRefused, Looks, ReadyBelow, Boots, Failures
<1>4. CASE Swap
  BY <1>4 DEF Swap, DispatchComment, ReadyBelow, Boots, Calm
<1>5. ASSUME NEW j \in Jobs, Enqueue(j) PROVE Quiet'
  <2>1. Hooks' /\ Boots'
    BY <1>5 DEF Enqueue, Set, Hooks, HeldBy, Boots, Active, IInv, TypeOK, QueueType
  <2>2. Calm' /\ ReadyBelow' /\ Finals' /\ Leaves'
    BY <1>5 DEF Enqueue, ReadyBelow, Failures
  <2> QED BY <2>1, <2>2
<1> QED BY <1>1, <1>2, <1>3, <1>4, <1>5, <1>6 DEF Tick

\* The sweep that finds a worker dead makes the item ready below the ceiling only.
LEMMA SweepIsQuiet ==
  ASSUME IInv, Attended, Quiet, Undisturbed, Sweep \/ ReviewSweep, Undisturbed'
  PROVE  Quiet'
<1> USE QuietFrames, Kinds, OneExecutor
    DEF Quiet, item, ledger, log, queue, execs, ticker, daemon, outside, bounds
<1>1. CASE SweepSuspects \/ SweepForgets \/ SweepFindsMerged
  BY <1>1 DEF SweepSuspects, SweepForgets, SweepFindsMerged
<1>2. CASE SweepReleases
  <2>0. claim' # "held" /\ UNCHANGED <<log, queue, execs, up, boot, hook, tick, call>>
    BY <1>2 DEF SweepReleases, NoClaim
  <2>1. \/ UNCHANGED labels
        \/ Failures >= Cap /\ Park
        \/ Failures < Cap /\ labels' = (labels \ {"dispatched", "manual"}) \cup {"ready"}
    BY <1>2, FailuresAreCounted, BoundAssumption
    DEF SweepReleases, RestoreItem, Requeue, IInv, TypeOK
  <2>2. Calm' /\ ReadyBelow'
    BY <2>0, <2>1, FailuresAreCounted, BoundAssumption
    DEF Calm, ReadyBelow, Park, Failures, IInv, TypeOK
  <2>3. Hooks' /\ Finals' /\ Leaves' /\ Boots'
    BY <2>0 DEF Hooks, HeldBy, Leaves, Boots, Active
  <2> QED BY <2>2, <2>3
<1>3. CASE Promote
  <2>1. UNCHANGED <<row, labels, log, tries, payload, execs, up, boot, hook, tick,
                    call, holder>>
    <3>1. row' = row
      BY <1>3 DEF Promote, Kill, Undisturbed, IInv, TypeOK, QueueType
    <3> QED BY <3>1, <1>3 DEF Promote
  <2>2. (claim' = "held" => claim = "held") /\ (group' = group \/ group' = "completed")
    BY <1>3 DEF Promote
  <2>3. Calm' /\ Hooks'
    BY <2>1, <2>2 DEF Calm, Hooks, HeldBy
  <2>4. Leaves' /\ Boots'
    BY <2>1, <2>2 DEF HeldBy, Leaves, Boots, Delivered, Terminal, Active
  <2>5. ReadyBelow' /\ Finals'
    BY <2>1
  <2> QED BY <2>3, <2>4, <2>5
<1> QED BY <1>1, <1>2, <1>3 DEF Sweep, ReviewSweep

\* The executor of the only active job hands its claim back before its job fails.
LEMMA ExecutorIsQuiet ==
  ASSUME IInv, Attended, Quiet, Undisturbed, NEW j \in Jobs, Executor(j)
  PROVE  Quiet'
<1> USE QuietFrames, Kinds, OneExecutor
    DEF Quiet, item, ledger, log, queue, execs, ticker, daemon, outside, bounds
<1>0. /\ row \in [Jobs -> {"none"} \cup Active \cup Settled] /\ at \in [Jobs -> Places]
      /\ who \in [Procs -> Agents \cup {Nobody}] /\ step \in [Procs -> Steps]
      /\ hook \subseteq Jobs
  BY DEF IInv, TypeOK, QueueType, ExecsType, DaemonType
<1>1. CASE Dequeue(j)
  <2>1. Hooks' /\ Finals' /\ Boots'
    BY <1>0, <1>1 DEF Dequeue, Set, Serving, Hooks, HeldBy, Finals, Waiting, Boots, Active
  <2>2. Calm' /\ ReadyBelow' /\ Leaves'
    BY <1>0, <1>1 DEF Dequeue, Set, Calm
  <2> QED BY <2>1, <2>2
<1>2. CASE Prepare(j)
  <2>1. ~HeldBy(j) /\ at[j] = "taken"
    BY <1>2 DEF Prepare, Attended, Holding
  <2>2. \E x \in {"fatal", "ready"} : at' = Set(at, j, x)
    BY <1>2 DEF Prepare
  <2>3. UNCHANGED <<item, ledger, log, row, step, run, driver, daemon, outside>>
    BY <1>2 DEF Prepare
  <2>4. Calm' /\ ReadyBelow' /\ Leaves'
    <3>1. Calm'
      BY <1>0, <2>2, <2>3 DEF Set, Calm
    <3>2. ReadyBelow' /\ Leaves'
      BY <2>3
    <3> QED BY <3>1, <3>2
  <2>5. Hooks' /\ Finals'
    BY <1>0, <2>1, <2>2, <2>3 DEF Set, Hooks, HeldBy, Finals, Waiting
  <2>6. Boots'
    BY <1>0, <2>1, <2>2, <2>3 DEF Set, Boots
  <2> QED BY <2>4, <2>5, <2>6
<1>3. CASE JobClaims(j)
  <2>1. at[j] = "ready" /\ ~HeldBy(j)
    BY <1>3 DEF JobClaims, Attended, Holding
  <2>2. \E x \in {"claimed", "bad"} : at' = Set(at, j, x)
    BY <1>3 DEF JobClaims
  <2>3. UNCHANGED <<labels, log, row, step, run, driver, daemon, outside>>
    BY <1>3 DEF JobClaims
  <2>4. \/ UNCHANGED <<group, ledger>>
        \/ claim' = "held" /\ holder'[2] = j
    BY <1>3 DEF JobClaims, Claim, Acquire, Me
  <2>5. Calm' /\ ReadyBelow' /\ Leaves'
    <3>1. Calm'
      BY <1>0, <2>1, <2>2, <2>3, <2>4 DEF Set, Calm
    <3>2. ReadyBelow'
      BY <2>3
    <3>3. Leaves'
      BY <1>0, <2>1, <2>2, <2>3, <2>4 DEF Leaves, HeldBy, Finals, Waiting, Finishing
    <3> QED BY <3>1, <3>2, <3>3
  <2>6. Hooks' /\ Finals'
    BY <1>0, <2>1, <2>2, <2>3, <2>4 DEF Set, Hooks, HeldBy, Finals, Waiting
  <2>7. Boots'
    BY <1>0, <2>1, <2>2, <2>3, <2>4 DEF Set, Boots
  <2> QED BY <2>5, <2>6, <2>7
<1>4. CASE SetUpFails(j)
  <2>1. at[j] = "claimed" /\ at' = Set(at, j, "drop")
    BY <1>4 DEF SetUpFails
  <2>2. UNCHANGED <<item, ledger, log, row, step, run, driver, daemon, outside>>
    BY <1>4 DEF SetUpFails
  <2>3. Calm' /\ ReadyBelow' /\ Leaves'
    <3>1. Calm'
      BY <1>0, <2>1, <2>2 DEF Set, Calm
    <3>2. ReadyBelow' /\ Leaves'
      BY <1>0, <2>1, <2>2
    <3> QED BY <3>1, <3>2
  <2>4. Hooks' /\ Finals' /\ Boots'
    BY <1>0, <2>1, <2>2 DEF Set, Hooks, HeldBy, Finals, Waiting, Boots
  <2> QED BY <2>3, <2>4
<1>5. CASE AttachRun(j)
  <2>1. at[j] = "claimed" /\ at' = Set(at, j, "wait")
    BY <1>0, <1>5 DEF AttachRun, Set, Waiting
  <2>2. \A i \in Jobs : step[i] \notin Finishing
    BY <2>1 DEF Finals, Waiting
  <2>3. /\ \A p \in Procs : step'[p] \in {step[p], "idle", "agent"}
        /\ \A s \in Sessions : step'[s] \in {step[s], "idle"}
        /\ run' # "paused"
    BY <1>0, <1>5 DEF AttachRun, Set, Driven, Calm
  <2>4. UNCHANGED <<item, ledger, log, row, daemon, outside>>
    BY <1>5 DEF AttachRun
  <2>5. Calm' /\ ReadyBelow' /\ Leaves'
    <3>1. Calm'
      BY <1>0, <2>1, <2>2, <2>3, <2>4 DEF Set, Calm
    <3>2. ReadyBelow' /\ Leaves'
      BY <1>0, <2>1, <2>2, <2>3, <2>4 DEF Leaves, Finishing, HeldBy
    <3> QED BY <3>1, <3>2
  <2>6. Hooks' /\ Boots'
    BY <1>0, <2>1, <2>4 DEF Set, Hooks, HeldBy, Boots
  <2>7. Finals'
    BY <2>2, <2>3 DEF Finals, Finishing
  <2> QED BY <2>5, <2>6, <2>7
<1>6. CASE WaiterSeesEnd(j)
  <2>1. Waiting(j) /\ run # "running"
        /\ \E x \in {"ok", "drop", "quit"} : at' = Set(at, j, x)
    BY <1>6 DEF WaiterSeesEnd, Goes, Verdict, Calm
  <2>2. UNCHANGED <<item, ledger, log, row, step, run, driver, daemon, outside>>
    BY <1>6 DEF WaiterSeesEnd, Goes
  <2>3. Calm' /\ ReadyBelow' /\ Leaves'
    <3>1. Calm'
      BY <1>0, <2>1, <2>2 DEF Set, Calm
    <3>2. ReadyBelow' /\ Leaves'
      BY <2>2
    <3> QED BY <3>1, <3>2
  <2>4. Hooks' /\ Finals' /\ Boots'
    BY <1>0, <2>1, <2>2 DEF Set, Hooks, HeldBy, Finals, Waiting, Boots
  <2> QED BY <2>3, <2>4
<1>7. ~WaiterSeesJobCancelled(j)
  BY DEF WaiterSeesJobCancelled, Undisturbed
<1>8. CASE WaiterLosesClaim(j)
  <2>1. /\ Waiting(j) /\ at' = Set(at, j, "drop") /\ run' = "cancelled"
        /\ step[driver] \in {"idle", "agent"} \/ driver = 0
    BY <1>8 DEF WaiterLosesClaim, Goes
  <2>2. UNCHANGED <<item, ledger, log, row, step, driver, daemon, outside>>
    BY <1>8 DEF WaiterLosesClaim, Goes
  <2>3. Calm' /\ ReadyBelow' /\ Leaves'
    <3>1. Calm'
      BY <1>0, <2>1, <2>2 DEF Set, Calm
    <3>2. ReadyBelow' /\ Leaves'
      BY <2>2
    <3> QED BY <3>1, <3>2
  <2>4. Hooks' /\ Boots'
    BY <1>0, <2>1, <2>2 DEF Set, Hooks, HeldBy, Waiting, Boots
  <2>5. Finals'
    BY <1>0, <2>1, <2>2 DEF Finals, Finishing
  <2> QED BY <2>3, <2>4, <2>5
<1>9. CASE TakesOver(j)
  <2>1. /\ ~Driven /\ step' = Set(step, j, "agent")
        /\ UNCHANGED <<item, ledger, log, queue, at, run, daemon, outside>>
    BY <1>9 DEF TakesOver
  <2>2. \A i \in Jobs : step[i] \notin Finishing
    BY <2>1 DEF Finals, Driven, Finishing
  <2>3. Calm' /\ ReadyBelow' /\ Leaves'
    BY <1>0, <2>1, <2>2 DEF Set, Calm, Leaves, Finishing, HeldBy
  <2>4. Hooks' /\ Boots'
    BY <2>1
  <2>5. Finals'
    BY <1>0, <2>1, <2>2 DEF Set, Finals, Finishing
  <2> QED BY <2>3, <2>4, <2>5
<1>10. CASE Drop(j)
  <2>1. at[j] \in {"drop", "dropfatal"} /\ \E x \in {"give", "givefatal"} : at' = Set(at, j, x)
    BY <1>10 DEF Drop
  <2>2. UNCHANGED <<item, log, row, step, run, driver, daemon, outside>>
    BY <1>10 DEF Drop
  <2>3. \/ claim' = "held" => claim = "held" /\ holder' = holder
        \/ claim' = "held" /\ holder'[2] = j
    <3>1. UNCHANGED <<holder, claim>> \/ claim' # "held" \/ holder' = Me(j)
      BY <1>10, ConfirmTakes DEF Drop
    <3>2. Me(j)[2] = j
      BY DEF Me
    <3> QED BY <3>1, <3>2
  <2>4. Calm' /\ ReadyBelow' /\ Leaves'
    <3>1. Calm'
      BY <1>0, <2>1, <2>2, <2>3 DEF Set, Calm
    <3>2. ReadyBelow'
      BY <2>2
    <3>3. Leaves'
      BY <1>0, <2>1, <2>2, <2>3 DEF Leaves, HeldBy, Finals, Waiting, Finishing
    <3> QED BY <3>1, <3>2, <3>3
  <2>5. Hooks' /\ Finals'
    BY <1>0, <2>1, <2>2, <2>3 DEF Set, Hooks, HeldBy, Finals, Waiting
  <2>6. Boots'
    BY <1>0, <2>1, <2>2, <2>3 DEF Set, Boots
  <2> QED BY <2>4, <2>5, <2>6
<1>14. CASE DropEnds(j)
  <2>1. at[j] \in {"give", "givefatal"} /\ \E x \in {"bad", "fatal"} : at' = Set(at, j, x)
    BY <1>14 DEF DropEnds
  <2>2. /\ UNCHANGED <<group, labels, row, step, run, driver, daemon, outside, past>>
        /\ cycle' = cycle /\ stopped' = FALSE
    BY <1>14 DEF DropEnds, FailureComment, Calm
  <2>3. /\ claim' = "held" => claim = "held" /\ holder' = holder
        /\ ~HeldBy(j)'
    BY <1>14, <2>1 DEF DropEnds, NoClaim, GiveUp, HeldBy
  <2>4. Calm' /\ ReadyBelow' /\ Leaves'
    <3>1. Calm'
      BY <1>0, <2>1, <2>2, <2>3 DEF Set, Calm
    <3>2. ReadyBelow' /\ Leaves'
      BY <1>0, <2>1, <2>2, <2>3 DEF Leaves, HeldBy
    <3> QED BY <3>1, <3>2
  <2>5. Hooks' /\ Finals'
    BY <1>0, <2>1, <2>2, <2>3 DEF Set, Hooks, HeldBy, Finals, Waiting
  <2>6. Boots'
    BY <1>0, <2>1, <2>2, <2>3 DEF Set, Boots
  <2> QED BY <2>4, <2>5, <2>6
<1>15. CASE RollBack(j)
  <2>1. at[j] = "claimed" /\ at' = Set(at, j, "dropfatal")
    BY <1>15 DEF RollBack
  <2>2. UNCHANGED <<labels, log, row, step, run, driver, daemon, outside>>
    BY <1>15 DEF RollBack
  <2>3. UNCHANGED <<group, claim, holder>> \/ claim' # "held"
    BY <1>15 DEF RollBack, NoClaim
  <2>4. Calm' /\ ReadyBelow' /\ Leaves'
    <3>1. Calm'
      BY <1>0, <2>1, <2>2, <2>3 DEF Set, Calm
    <3>2. ReadyBelow' /\ Leaves'
      BY <2>2, <2>3 DEF Leaves, HeldBy
    <3> QED BY <3>1, <3>2
  <2>5. Hooks' /\ Finals'
    BY <1>0, <2>1, <2>2, <2>3 DEF Set, Hooks, HeldBy, Finals, Waiting
  <2>6. Boots'
    BY <1>0, <2>1, <2>2, <2>3 DEF Set, Boots
  <2> QED BY <2>4, <2>5, <2>6
<1>11. CASE StopOnRequest(j)
  <2>1. at[j] = "quit" /\ at' = Set(at, j, "fatal")
    BY <1>11 DEF StopOnRequest, Calm
  <2>2. UNCHANGED <<item, log, row, step, run, driver, daemon, outside>>
    BY <1>11, <2>1 DEF StopOnRequest
  <2>3. /\ claim' = "held" => claim = "held" /\ holder' = holder
        /\ ~HeldBy(j)'
    BY <1>11 DEF StopOnRequest, LedgerRelease, NoClaim, HeldBy
  <2>4. Calm' /\ ReadyBelow' /\ Leaves'
    BY <1>0, <2>1, <2>2, <2>3 DEF Set, Calm, Leaves, HeldBy
  <2>5. Hooks' /\ Finals'
    BY <1>0, <2>1, <2>2, <2>3 DEF Set, Hooks, HeldBy, Finals, Waiting
  <2>6. Boots'
    BY <1>0, <2>1, <2>2, <2>3 DEF Set, Boots
  <2> QED BY <2>4, <2>5, <2>6
<1>12. CASE Report(j)
  <2>1. /\ at[j] \in {"ok", "bad", "fatal"} /\ at' = Set(at, j, "idle")
        /\ \E x \in {"done", "queued", "failed"} :
             /\ row' = Set(row, j, x)
             /\ hook' = IF x = "failed" THEN hook \cup {j} ELSE hook
             /\ x = "failed" => at[j] \in {"bad", "fatal"}
    BY <1>0, <1>12 DEF Report, Set
  <2>2. UNCHANGED <<item, ledger, log, step, run, driver, up, boot, tick, outside>>
    BY <1>12 DEF Report
  <2>3. at[j] \in {"bad", "fatal"} => ~HeldBy(j)
    BY DEF Attended, Holding, Hooks
  <2>4. Calm' /\ ReadyBelow' /\ Leaves'
    BY <1>0, <2>1, <2>2 DEF Set, Calm
  <2>5. Hooks' /\ Finals'
    BY <1>0, <2>1, <2>2, <2>3 DEF Set, Hooks, HeldBy, Finals, Waiting
  <2>6. Boots'
    BY <1>0, <2>1, <2>2 DEF Set, Boots
  <2> QED BY <2>4, <2>5, <2>6
<1>13. CASE FailureHook(j)
  <2>1. /\ j \in hook /\ hook' = hook \ {j} /\ group' \in {group, "in_review"}
        /\ cycle' \in {cycle, "capped"} /\ UNCHANGED stopped
        /\ UNCHANGED <<ledger, row, execs, up, boot, tick, call>>
    BY <1>13 DEF FailureHook, CapComment
  <2>2. \/ UNCHANGED <<labels, log>>
        \/ labels' = labels \ {"dispatched"} /\ UNCHANGED log
        \/ Failures < Cap /\ ReArm /\ UNCHANGED log
        \/ Failures >= Cap /\ ReArm
    BY <1>13, FailuresAreCounted, BoundAssumption DEF FailureHook, IInv, TypeOK
  <2>3. tick = "idle" \/ ("ready" \in labels /\ Failures < Cap)
    BY DEF ReadyBelow, IInv, TypeOK, DaemonType
  <2>4. Calm' /\ ReadyBelow'
    BY <2>1, <2>2, <2>3, FailuresAreCounted, BoundAssumption
    DEF Calm, ReadyBelow, ReArm, Failures, IInv, TypeOK
  <2>5. Hooks' /\ Finals' /\ Leaves' /\ Boots'
    BY <1>0, <2>1 DEF Hooks, HeldBy, Leaves, Delivered, Boots, Active
  <2> QED BY <2>4, <2>5
<1> QED BY <1>1, <1>2, <1>3, <1>4, <1>5, <1>6, <1>7, <1>8, <1>9, <1>10, <1>11,
    <1>12, <1>13, <1>14, <1>15 DEF Executor

\* The run's driver finalizes while the executor waits, and leaves the item under
\* review, or released, when it says that the cycle was a success.
LEMMA FinalizerIsQuiet ==
  ASSUME IInv, Attended, Quiet, Undisturbed, NEW j \in Jobs, Finalizer(j)
  PROVE  Quiet'
<1> USE QuietFrames, Kinds, OneExecutor
    DEF Quiet, item, ledger, log, queue, execs, ticker, daemon, outside, bounds
<1>0. /\ row \in [Jobs -> {"none"} \cup Active \cup Settled] /\ at \in [Jobs -> Places]
      /\ who \in [Procs -> Agents \cup {Nobody}] /\ step \in [Procs -> Steps]
  BY DEF IInv, TypeOK, QueueType, ExecsType
<1>1. CASE AgentEnds(j)
  <2>1. /\ UNCHANGED <<item, ledger, log, queue, at, driver, daemon, outside>>
        /\ step[j] = "agent" /\ run' \in {run, "failed"}
        /\ \/ Drives(j) /\ step' = Set(step, j, "final") /\ UNCHANGED run
           \/ step' = Set(step, j, "idle") /\ (run' # run => Drives(j))
    BY <1>1 DEF AgentEnds, StepGoes, RunEnds
  <2>2. Drives(j) => Waiting(j)
    BY <2>1 DEF Attended, Drivers
  <2>3. Calm' /\ ReadyBelow' /\ Leaves'
    <3>1. Calm'
      BY <1>0, <2>1 DEF Set, Calm
    <3>2. ReadyBelow' /\ Leaves'
      BY <1>0, <2>1 DEF Set, Leaves, HeldBy
    <3> QED BY <3>1, <3>2
  <2>4. Hooks' /\ Boots'
    BY <2>1
  <2>5. Finals'
    BY <1>0, <2>1, <2>2 DEF Set, Finals, Finishing, Drives, Waiting
  <2> QED BY <2>3, <2>4, <2>5
<1>2. CASE Finalize(j) \/ FinalizeRetries(j)
  <2>1. /\ UNCHANGED <<item, ledger, log, queue, at, driver, daemon, outside, run>>
        /\ step[j] \in Finishing
        /\ \E x \in {"done", "erred", "final"} : step' = Set(step, j, x)
    BY <1>2 DEF Finalize, FinalizeRetries, StepGoes, Finishing
  <2>2. Calm' /\ ReadyBelow' /\ Leaves'
    <3>1. Calm'
      BY <1>0, <2>1 DEF Set, Calm
    <3>2. ReadyBelow' /\ Leaves'
      BY <1>0, <2>1 DEF Set, Leaves, HeldBy
    <3> QED BY <3>1, <3>2
  <2>3. Hooks' /\ Boots' /\ Finals'
    BY <1>0, <2>1 DEF Set, Finals, Finishing, Waiting
  <2> QED BY <2>2, <2>3
<1>3. CASE FinalizeEnds(j)
  <2>1. /\ UNCHANGED <<group, labels, queue, at, driver, daemon, outside>>
        /\ step[j] \in Finishing /\ step' = Set(step, j, "idle")
        /\ run' \in {run, "completed"} /\ stopped' = FALSE /\ cycle' # "neutral"
        /\ UNCHANGED ledger
    BY <1>3 DEF FinalizeEnds, StepGoes, Finishing, RunEnds, SuccessComment
  <2>2. Failures' = 0
    BY <1>3 DEF FinalizeEnds, SuccessComment, Failures
  <2>3. Calm' /\ ReadyBelow'
    BY <1>0, <2>1, <2>2, BoundAssumption DEF Set, Calm, ReadyBelow
  <2>4. Leaves' /\ Hooks' /\ Boots'
    BY <1>0, <2>1 DEF Set, Leaves, HeldBy, Hooks, Boots
  <2>5. Finals'
    BY <1>0, <2>1 DEF Set, Finals, Finishing, Waiting
  <2> QED BY <2>3, <2>4, <2>5
<1>4. CASE FinalizeFails(j)
  <2>1. /\ UNCHANGED <<item, ledger, log, queue, at, driver, daemon, outside>>
        /\ step[j] \in Finishing /\ step' = Set(step, j, "idle")
        /\ run' \in {run, "failed"}
    BY <1>4 DEF FinalizeFails, StepGoes, RunEnds, Finishing
  <2>2. Calm' /\ ReadyBelow' /\ Leaves'
    BY <1>0, <2>1 DEF Set, Calm, Leaves, HeldBy
  <2>3. Hooks' /\ Boots' /\ Finals'
    BY <1>0, <2>1 DEF Set, Finals, Finishing, Waiting
  <2> QED BY <2>2, <2>3
<1>5. CASE FinalizeReleases(j) \/ FinalizeGives(j)
  <2>1. /\ UNCHANGED <<group, labels, log, queue, at, who, driver, daemon, outside, run>>
        /\ step[j] \in Finishing
        /\ \/ Confirm(Me(j), TRUE) /\ step' = Set(step, j, "give")
           \/ GiveUp(Me(j)) /\ step' = Set(step, j, "leave")
    BY <1>5 DEF FinalizeReleases, FinalizeGives, StepGoes, Finishing
  <2>2. Waiting(j) /\ at[j] # "idle"
    BY <2>1 DEF Finals, Waiting
  <2>3. \/ claim' = "held" => claim = "held" /\ holder' = holder
        \/ claim' = "held" /\ holder' = Me(j) /\ step' = Set(step, j, "give")
    BY <2>1 DEF Confirm, GiveUp, Acquire, NoClaim
  <2>4. step' = Set(step, j, "leave") => ~HeldBy(j)'
    BY <1>0, <2>1, <2>2 DEF GiveUp, NoClaim, HeldBy, Set
  <2>5. Calm' /\ ReadyBelow'
    <3>1. claim' = "held" => holder'[2] \in Jobs
      BY <2>3 DEF Calm, Me
    <3>2. \A s \in Sessions : step'[s] = step[s]
      BY <1>0, <2>1 DEF Set
    <3>3. Calm'
      BY <2>1, <3>1, <3>2 DEF Calm
    <3>4. ReadyBelow'
      BY <2>1
    <3> QED BY <3>3, <3>4
  <2>6. Hooks' /\ Boots'
    BY <2>1, <2>2, <2>3 DEF Hooks, HeldBy, Boots, Waiting, Me
  <2>7. Finals'
    BY <1>0, <2>1 DEF Set, Finals, Finishing, Waiting
  <2>8. Leaves'
    <3>1. \A i \in Jobs : i # j => step[i] \notin Finishing
      BY <2>2 DEF Finals, Waiting
    <3>2. \A i \in Jobs : step'[i] = "leave" => i = j /\ step' = Set(step, j, "leave")
      BY <1>0, <2>1, <3>1 DEF Set, Finishing
    <3> QED BY <2>4, <3>2 DEF Leaves
  <2> QED BY <2>5, <2>6, <2>7, <2>8
<1> QED BY <1>1, <1>2, <1>3, <1>4, <1>5 DEF Finalizer

\* item_done is called by jobs alone.
LEMMA DoneIsQuiet ==
  ASSUME IInv, Attended, Quiet, Undisturbed, NEW p \in Procs, Done(p) \/ Heartbeat(p)
  PROVE  Quiet'
<1> USE QuietFrames, Kinds, OneExecutor
    DEF Quiet, item, ledger, log, queue, execs, ticker, daemon, outside, bounds
<1>0. step \in [Procs -> Steps]
  BY DEF IInv, TypeOK, ExecsType
<1>1. CASE Heartbeat(p)
  BY <1>1 DEF Heartbeat
<1>2. CASE Done(p)
  <2>1. step[p] \in {"done", "steal", "push", "merged", "review", "closing"}
    BY <1>2 DEF Done, DoneBegins, DoneSteals, DoneCloses, Publishes, SeesMerged, MarkCompleted,
       Push, PushFails, NothingDone, MarkInReview
  <2>2. p \in Jobs /\ Waiting(p) /\ driver = p /\ run = "running"
    BY <2>1 DEF Calm, Procs, Finals, Finishing
  <2>3. UNCHANGED <<labels, log, queue, at, who, run, driver, daemon, outside>>
    BY <1>2 DEF Done, DoneBegins, DoneSteals, DoneCloses, Publishes, SeesMerged, MarkCompleted,
       Push, PushFails, NothingDone, MarkInReview, StepGoes
  <2>4. /\ \E x \in Finishing : step' = Set(step, p, x) /\ (x = "leave" => group' = "in_review")
        /\ group' \in {group, "completed", "in_review"}
    BY <1>2, <2>2 DEF Done, DoneBegins, DoneSteals, DoneCloses, Publishes, SeesMerged, MarkCompleted,
       Push, PushFails, NothingDone, MarkInReview, StepGoes, Finishing
  <2>5. \/ claim' = "held" => claim = "held" /\ holder' = holder
        \/ claim' = "held" /\ holder' = Me(p)
    BY <1>2 DEF Done, DoneBegins, DoneSteals, DoneCloses, Publishes, SeesMerged, MarkCompleted,
       Push, PushFails, NothingDone, MarkInReview, NoClaim, Acquire
  <2>6. Calm' /\ ReadyBelow'
    <3>1. Calm'
      BY <1>0, <2>2, <2>3, <2>4, <2>5 DEF Set, Calm, Me
    <3>2. ReadyBelow'
      BY <2>3
    <3> QED BY <3>1, <3>2
  <2>7. Hooks' /\ Boots'
    BY <2>2, <2>3, <2>5 DEF Hooks, HeldBy, Boots, Waiting, Me
  <2>8. Finals'
    BY <1>0, <2>2, <2>3, <2>4 DEF Set, Finals, Waiting
  <2>9. Leaves'
    BY <1>0, <2>2, <2>4, <2>5, OneExecutor
    DEF Set, Leaves, HeldBy, Delivered, Terminal, Finals, Finishing, Waiting, Me
  <2> QED BY <2>6, <2>7, <2>8, <2>9
<1> QED BY <1>1, <1>2

\* A session can only exit; its claims, and an operator, would be a call.
LEMMA OutsideIsQuiet ==
  ASSUME IInv, Attended, Quiet, Undisturbed, Undisturbed',
         Operator \/ \E s \in Sessions : Session(s)
  PROVE  Quiet'
<1> USE QuietFrames, Kinds
    DEF Quiet, item, ledger, log, queue, execs, ticker, daemon, outside, bounds
<1>1. ~Call
  BY DEF Undisturbed, Call
<1>2. ~Operator
  BY <1>1 DEF Undisturbed, Calm, Operator, Redispatch, Reassign, CancelJob,
     RedispatchSame, CancelRun, BeginCancel, BeginPause, Stopping, StopRun, StopJobs,
     CancelItem, StopItem, HandJobs, HandClaim, Stop, Resume
<1>3. ASSUME NEW s \in Sessions, Session(s) PROVE Quiet'
  <2>1. ~Owns(s) /\ step[s] = "idle"
    BY DEF Owns, Calm, Me
  <2>2. SessionExits(s)
    BY <1>1, <1>3, <2>1 DEF Session, SessionClaims, SessionReleases, SessionGives,
       SessionCallsDone, SessionReturns, Follows
  <2>3. /\ step' = Set(step, s, "idle")
        /\ UNCHANGED <<item, ledger, log, queue, at, run, driver, daemon, call>>
    BY <2>2 DEF SessionExits
  <2>4. step' = step
    BY <2>1, <2>3 DEF Set, IInv, TypeOK, ExecsType
  <2> QED BY <2>3, <2>4
<1> QED BY <1>2, <1>3

\* A crash ends every executor; the boot gives the orphan's claim back before it makes
\* the item ready.
LEMMA WorldIsQuiet ==
  ASSUME IInv, Attended, Quiet, Undisturbed,
         Crash \/ Boot \/ DriverErrs \/ Age \/ PrSettles
  PROVE  Quiet'
<1> USE QuietFrames, Kinds
    DEF Quiet, item, ledger, log, queue, execs, ticker, daemon, outside, bounds
<1>0. /\ row \in [Jobs -> {"none"} \cup Active \cup Settled] /\ at \in [Jobs -> Places]
      /\ step \in [Procs -> Steps] /\ boot \in [Jobs -> {"none", "release", "give", "restore"}]
  BY DEF IInv, TypeOK, QueueType, ExecsType, DaemonType
<1>1. CASE Age \/ PrSettles
  BY <1>1 DEF Age, PrSettles, Decide
<1>2. CASE Crash
  <2>1. /\ ~up' /\ hook' = {} /\ tick' = "idle" /\ boot' = [j \in Jobs |-> "none"]
        /\ at' = [j \in Jobs |-> "idle"]
        /\ step' = [p \in Procs |-> IF p \in Jobs THEN "idle" ELSE step[p]]
        /\ UNCHANGED <<item, ledger, log, run, driver, row, call>>
    BY <1>2 DEF Crash
  <2>2. Calm' /\ ReadyBelow'
    BY <2>1 DEF Calm, ReadyBelow, Failures
  <2>3. Hooks' /\ Finals' /\ Leaves' /\ Boots'
    BY <2>1 DEF Hooks, Finals, Finishing, Leaves, Boots
  <2> QED BY <2>2, <2>3
<1>3. CASE Restart
  <2>1. /\ ~up /\ up' = TRUE
        /\ boot' = [j \in Jobs |-> IF row[j] = "running" THEN "release" ELSE "none"]
        /\ row' = [j \in Jobs |-> IF row[j] = "running" THEN "failed" ELSE row[j]]
        /\ UNCHANGED <<item, ledger, log, execs, hook, tick, call>>
    BY <1>3 DEF Restart
  <2>2. hook = {} /\ tick = "idle" /\ \A j \in Jobs : at[j] = "idle"
    BY <2>1 DEF Boots, Attended, Attempts
  <2>3. Boots'
    BY <2>1, <2>2 DEF Boots, Active, Attended, OneActive
  <2>4. Hooks'
    BY <2>1, <2>2 DEF Hooks
  <2>5. Calm' /\ ReadyBelow' /\ Finals' /\ Leaves'
    BY <2>1
  <2> QED BY <2>3, <2>4, <2>5
<1>4. ASSUME NEW j \in Jobs, ReleaseOrphan(j) PROVE Quiet'
  <2>1. /\ boot[j] = "release" /\ boot' = Set(boot, j, "give")
        /\ Confirm(Orphan(j), TRUE)
        /\ UNCHANGED <<item, log, queue, execs, up, hook, tick, call>>
    BY <1>4 DEF ReleaseOrphan
  <2>2. claim = "held" => Exited(holder, TRUE)
    <3>1. ASSUME claim = "held" PROVE Exited(holder, TRUE)
      <4>1. holder[2] \in Jobs /\ row[holder[2]] \notin {"none", "queued"}
        BY <3>1 DEF Calm, Attended, Holding, HeldBy
      <4>2. row[holder[2]] \notin Active /\ at[holder[2]] = "idle"
        BY <2>1, <4>1 DEF Boots
      <4>3. row[holder[2]] \in Settled
        <5>1. row[holder[2]] \in {"none"} \cup Active \cup Settled
          BY <1>0, <4>1
        <5> QED BY <4>1, <4>2, <5>1
      <4> QED BY <4>1, <4>2, <4>3 DEF Exited
    <3> QED BY <3>1
  <2>3. claim' # "held" \/ holder' = Orphan(j)
    BY <2>1, <2>2 DEF Confirm, Acquire, NoClaim, IInv, TypeOK, LedgerType
  <2>4. Boots'
    BY <1>0, <2>1, <2>3 DEF Boots, Orphan, Set
  <2>5. Calm' /\ ReadyBelow'
    <3>1. claim' = "held" => holder'[2] \in Jobs
      BY <2>3 DEF Orphan
    <3>2. Calm'
      BY <2>1, <3>1 DEF Calm
    <3>3. ReadyBelow'
      BY <2>1
    <3> QED BY <3>2, <3>3
  <2>6. hook = {} /\ \A i \in Jobs : at[i] = "idle" /\ step[i] \notin Finishing
    BY <2>1 DEF Boots, Finals, Waiting
  <2>7. Hooks' /\ Finals' /\ Leaves'
    BY <2>1, <2>6 DEF Hooks, Leaves, Finishing
  <2> QED BY <2>4, <2>5, <2>7
<1>7. ASSUME NEW j \in Jobs, GiveOrphan(j) PROVE Quiet'
  <2>1. /\ boot[j] = "give" /\ boot' = Set(boot, j, "restore")
        /\ GiveUp(Orphan(j)) /\ (claim # "held" \/ holder = Orphan(j))
        /\ UNCHANGED <<group, labels, queue, execs, up, hook, tick, call, past>>
        /\ cycle' = cycle /\ stopped' = FALSE
    BY <1>7 DEF GiveOrphan, FailureComment, Calm, Boots
  <2>2. claim' # "held"
    BY <2>1 DEF GiveUp, NoClaim
  <2>3. Boots'
    BY <1>0, <2>1, <2>2 DEF Boots, Set
  <2>4. Calm' /\ ReadyBelow'
    BY <2>1, <2>2 DEF Calm
  <2>5. Hooks' /\ Finals' /\ Leaves'
    BY <2>1, <2>2 DEF Hooks, Leaves, HeldBy
  <2> QED BY <2>3, <2>4, <2>5
<1>5. ASSUME NEW j \in Jobs, RestoreOrphan(j) PROVE Quiet'
  <2>1. /\ boot[j] = "restore" /\ boot' = Set(boot, j, "none")
        /\ tick = "idle" /\ hook = {} /\ claim # "held"
        /\ UNCHANGED <<group, queue, execs, up, hook, tick, call, stopped>>
        /\ cycle' \in {cycle, "capped"}
    BY <1>5 DEF RestoreOrphan, CapComment, Boots
  <2>2. claim' # "held"
    BY <1>5, <2>1 DEF RestoreOrphan, LedgerRelease, NoClaim
  <2>3. \/ Failures >= Cap /\ Failures' = 0
        \/ Failures < Cap /\ Failures' = Failures
    BY <1>5, FailuresAreCounted, BoundAssumption
    DEF RestoreOrphan, CapComment, Failures, IInv, TypeOK
  <2>4. labels' = labels \/ ReArm
    BY <1>5 DEF RestoreOrphan
  <2>5. Calm' /\ ReadyBelow'
    BY <2>1, <2>2, <2>3, <2>4, BoundAssumption, FailuresAreCounted
    DEF Calm, ReadyBelow, ReArm, IInv, TypeOK
  <2>6. Boots'
    BY <1>0, <2>1, <2>2 DEF Boots, Set
  <2>7. Hooks' /\ Finals' /\ Leaves'
    BY <2>1, <2>2 DEF Hooks, Leaves, HeldBy
  <2> QED BY <2>5, <2>6, <2>7
<1>6. CASE DriverErrs
  <2>1. /\ step[driver] = "agent" /\ driver \in Jobs /\ step' = Set(step, driver, "idle")
        /\ UNCHANGED <<item, ledger, log, queue, at, run, driver, daemon, outside>>
    BY <1>6 DEF DriverErrs, IInv, TypeOK, ExecsType, Jobs
  <2>2. Calm' /\ ReadyBelow' /\ Leaves'
    BY <1>0, <2>1 DEF Set, Calm, Leaves, HeldBy
  <2>3. Hooks' /\ Boots' /\ Finals'
    BY <1>0, <2>1 DEF Set, Finals, Finishing, Waiting
  <2> QED BY <2>2, <2>3
<1> QED BY <1>1, <1>2, <1>3, <1>4, <1>5, <1>6, <1>7
    DEF Boot, OrphanSteps

\* An operator's call is never taken back, nor is a cancelled job revived: what is
\* undisturbed has always been.
LEMMA WasUndisturbed ==
  ASSUME IInv, [Next]_vars, Undisturbed'
  PROVE  Undisturbed
<1> USE DEF item, ledger, log, queue, execs, ticker, daemon, outside, bounds
<1>0. /\ row \in [Jobs -> {"none"} \cup Active \cup Settled] /\ calls \in Nat
  BY BoundAssumption DEF IInv, TypeOK, QueueType, OutsideType
<1> DEFINE Stays == /\ calls' \in {calls, calls + 1}
                    /\ \A j \in Jobs : row[j] = "killed" => row'[j] = "killed"
<1> SUFFICES Stays
  BY <1>0 DEF Undisturbed
<1>1. CASE Tick
  BY <1>0, <1>1 DEF Tick, TickLists, TickFinds, TickSkips, TickRefused, Looks, Swap,
     Enqueue, Set
<1>2. CASE Sweep \/ ReviewSweep
  BY <1>0, <1>2 DEF Sweep, SweepSuspects, SweepForgets, SweepReleases, ReviewSweep,
     SweepFindsMerged, Promote, Kill
<1>3. CASE Operator
  <2>1. ~(\E j \in Jobs : row[j] = "killed" /\ row'[j] # "killed")
    BY <1>0, <1>3 DEF Operator, Redispatch, Reassign, CancelJob, RedispatchSame, CancelRun,
       BeginCancel, BeginPause, Stopping, StopRun, StopJobs, CancelItem, StopItem,
       HandJobs, HandClaim, Resume, Kill
  <2>2. calls' \in {calls, calls + 1}
    BY <1>3 DEF Operator, Redispatch, Reassign, CancelJob, RedispatchSame, CancelRun,
       BeginCancel, BeginPause, Stopping, StopRun, StopJobs, CancelItem, StopItem,
       HandJobs, HandClaim, Resume, Call
  <2> QED BY <2>1, <2>2
<1>4. CASE Crash \/ Boot \/ DriverErrs \/ Age \/ PrSettles
  BY <1>0, <1>4 DEF Crash, Boot, OrphanSteps, Restart, ReleaseOrphan, GiveOrphan, RestoreOrphan,
     DriverErrs, Age, PrSettles, Decide, Fault
<1>5. ASSUME NEW j \in Jobs, Executor(j) \/ Finalizer(j) PROVE Stays
  <2>1. CASE Report(j)
    BY <1>0, <2>1 DEF Report, Set
  <2>2. CASE Dequeue(j)
    BY <1>0, <2>2 DEF Dequeue, Set
  <2>3. CASE Executor(j) /\ ~Report(j) /\ ~Dequeue(j)
    BY <2>3 DEF Executor, Prepare, JobClaims, SetUpFails, AttachRun, WaiterSeesEnd,
       WaiterSeesJobCancelled, WaiterLosesClaim, Goes, TakesOver, Drop, DropEnds,
       RollBack, StopOnRequest, FailureHook
  <2>4. CASE Finalizer(j)
    BY <2>4 DEF Finalizer, AgentEnds, Finalize, FinalizeReleases, FinalizeGives,
       FinalizeEnds, FinalizeRetries, FinalizeFails, StepGoes
  <2> QED BY <1>5, <2>1, <2>2, <2>3, <2>4
<1>6. ASSUME NEW s \in Sessions, Session(s) PROVE Stays
  BY <1>6 DEF Session, SessionClaims, SessionReleases, SessionGives, SessionCallsDone,
     SessionReturns, SessionExits, StepGoes, Follows, Call, Fault
<1>7. ASSUME NEW p \in Procs, Done(p) \/ Heartbeat(p) PROVE Stays
  BY <1>7 DEF Done, DoneBegins, DoneSteals, DoneCloses, Publishes, SeesMerged,
     MarkCompleted, Push, PushFails, NothingDone, MarkInReview, StepGoes, Heartbeat
<1>8. CASE UNCHANGED vars
  BY <1>8 DEF vars
<1> QED BY <1>1, <1>2, <1>3, <1>4, <1>5, <1>6, <1>7, <1>8 DEF Next

\* Nothing goes on when the item is marked ready.
LEMMA QuietAtFirst == Init => Quiet
<1> SUFFICES ASSUME Init PROVE Quiet
  OBVIOUS
<1>1. Calm
  BY Kinds DEF Init, Calm
<1>2. ReadyBelow
  BY BoundAssumption DEF Init, ReadyBelow, Failures
<1>3. Hooks /\ Finals /\ Leaves /\ Boots
  BY Kinds DEF Init, Hooks, HeldBy, Finals, Finishing, Leaves, Boots
<1> QED BY <1>1, <1>2, <1>3 DEF Quiet

\* While nobody disturbs the daemon, one job at a time has the item, and it gives its
\* claim back before its failure is handled.
THEOREM Quieting == Spec => [](Undisturbed => Quiet)
<1>1. ASSUME IInv, Attended, Undisturbed => Quiet, [Next]_vars, Undisturbed'
      PROVE  Quiet'
  <2>1. Undisturbed /\ Quiet
    BY <1>1, WasUndisturbed
  <2>2. CASE UNCHANGED vars
    BY <2>1, <2>2, QuietFrames DEF vars, item, ledger, log, queue, execs, daemon, ticker,
       outside, bounds, Quiet
  <2>3. CASE Next
    BY <1>1, <2>1, <2>3, TickIsQuiet, SweepIsQuiet, ExecutorIsQuiet, FinalizerIsQuiet,
       DoneIsQuiet, OutsideIsQuiet, WorldIsQuiet DEF Next
  <2> QED BY <1>1, <2>2, <2>3
<1> QED BY <1>1, QuietAtFirst, Inductive, Attending, PTL DEF Spec

-----------------------------------------------------------------------------
(* What the item can still bring about.                                    *)

\* The boot will make the item ready for the job that ran, whatever else it has.
Orphaned == \E j \in Jobs : boot[j] # "none" \/ (~up /\ row[j] = "running")
\* A job that may still fail, or be finalized, has its executor before it or at work.
OnItsWay(j) ==
  \/ row[j] = "queued"
  \/ at[j] \notin {"idle", "ok"} /\ ~(Waiting(j) /\ run = "completed")
Pending(j) == OnItsWay(j) \/ j \in hook \/ Holds(j)
\* A job that is pending, and 0 for the ready label, until its dispatch is counted.
Marked == "ready" \in labels /\ tick # "swap"
Tokens ==
  IF Orphaned THEN {0} ELSE {x \in {0} : Marked} \cup {j \in Jobs : Pending(j)}

\* The failures of the present budget, and what it has left.
Spent  == IF tick = "swap" THEN Failures + 1 ELSE Failures
Rest(s) == IF s < Cap THEN Cap - s ELSE 0
Budget == Rest(Spent)
Worth(budget, n) == IF n = 0 THEN 0 ELSE budget + Cap * (n - 1)
Left == Worth(Budget, Cardinality(Tokens))
Paid == Tried + Left <= Cap + (Cap + 1) * faults

\* A product grows with its factor, and by a factor.
LEMMA Products ==
  ASSUME NEW c \in Nat, NEW m \in Nat, NEW n \in Nat
  PROVE  /\ c * m \in Nat /\ c * (n + 1) = c * n + c
         /\ m <= n => c * m <= c * n
<1>1. c * m \in Nat /\ c * (n + 1) = c * n + c
  OBVIOUS
<1>2. ASSUME m <= n PROVE c * m <= c * n
  <2>1. n - m \in Nat /\ n = m + (n - m)
    BY <1>2
  <2>2. c * n = c * m + c * (n - m)
    BY <2>1
  <2>3. c * (n - m) \in Nat
    BY <2>1
  <2> QED BY <2>2, <2>3
<1> QED BY <1>1, <1>2

\* Every failure takes one from the budget, down to nothing.
LEMMA Rests ==
  ASSUME NEW s \in Nat, NEW t \in Nat
  PROVE  /\ Rest(s) \in 0 .. Cap
         /\ s <= t => Rest(t) <= Rest(s)
         /\ s <= t + 1 => Rest(t) <= Rest(s) + 1
         /\ s < Cap => Rest(s + 1) + 1 <= Rest(s)
  BY BoundAssumption DEF Rest

\* What tokens are worth: less with fewer of them; one token is worth any budget; and
\* one token and one failure more are worth no more than a budget and one.
LEMMA Worths ==
  ASSUME NEW b \in 0 .. Cap, NEW c \in 0 .. Cap, NEW m \in Nat, NEW n \in Nat
  PROVE  /\ Worth(b, n) \in Nat
         /\ c <= b /\ m <= n => Worth(c, m) <= Worth(b, n)
         /\ m < n => Worth(c, m) <= Worth(b, n)
         /\ c <= b + 1 /\ m <= n + 1 => Worth(c, m) <= Worth(b, n) + Cap + 1
         /\ Worth(c, 1) <= Worth(b, n) + Cap
         /\ c + 1 <= b /\ m <= n /\ n # 0 => Worth(c, m) + 1 <= Worth(b, n)
<1> USE BoundAssumption DEF Worth
<1>1. n # 0 => n - 1 \in Nat /\ Cap * (n - 1) \in Nat /\ Cap * n = Cap * (n - 1) + Cap
  <2>1. ASSUME n # 0 PROVE n - 1 \in Nat /\ n = (n - 1) + 1
    BY <2>1
  <2> QED BY <2>1, Products
<1>2. m # 0 => m - 1 \in Nat /\ Cap * (m - 1) \in Nat /\ Cap * m = Cap * (m - 1) + Cap
  <2>1. ASSUME m # 0 PROVE m - 1 \in Nat /\ m = (m - 1) + 1
    BY <2>1
  <2> QED BY <2>1, Products
<1>3. m # 0 /\ m <= n => Cap * (m - 1) <= Cap * (n - 1)
  BY <1>1, <1>2, Products
<1>4. m # 0 /\ m < n => Cap * m <= Cap * (n - 1)
  BY <1>1, Products
<1>5. m # 0 /\ m <= n + 1 => Cap * (m - 1) <= Cap * n
  BY <1>2, Products
<1>6. Cap * 0 = 0
  OBVIOUS
<1> QED BY <1>1, <1>2, <1>3, <1>4, <1>5, <1>6

\* An element given for another one, or given up.
LEMMA Exchanges ==
  ASSUME NEW T, IsFiniteSet(T), NEW U, NEW x \in T, NEW y
  PROVE  /\ U \subseteq (T \ {x}) \cup {y} => Cardinality(U) <= Cardinality(T)
         /\ U \subseteq T \ {x} => Cardinality(U) < Cardinality(T)
<1>1. /\ IsFiniteSet(T \ {x}) /\ Cardinality(T \ {x}) = Cardinality(T) - 1
      /\ Cardinality(T) \in Nat
  BY FS_RemoveElement, FS_CardinalityType
<1>2. /\ IsFiniteSet((T \ {x}) \cup {y})
      /\ Cardinality((T \ {x}) \cup {y}) <= Cardinality(T)
  <2>1. Cardinality((T \ {x}) \cup {y})
          = IF y \in T \ {x} THEN Cardinality(T \ {x}) ELSE Cardinality(T \ {x}) + 1
    BY <1>1, FS_AddElement
  <2>2. IsFiniteSet((T \ {x}) \cup {y})
    BY <1>1, FS_AddElement
  <2> QED BY <1>1, <2>1, <2>2
<1>3. ASSUME U \subseteq (T \ {x}) \cup {y} PROVE Cardinality(U) <= Cardinality(T)
  BY <1>1, <1>2, <1>3, FS_Subset, FS_CardinalityType
<1>4. ASSUME U \subseteq T \ {x} PROVE Cardinality(U) < Cardinality(T)
  BY <1>1, <1>4, FS_Subset, FS_CardinalityType
<1> QED BY <1>3, <1>4

\* Jobs and tokens can be counted.
Counted ==
  /\ IsFiniteSet(Tokens) /\ Cardinality(Tokens) \in Nat
  /\ Tokens # {} => Cardinality(Tokens) # 0
  /\ Tried \in Nat /\ Spent \in Nat /\ Budget \in 0 .. Cap /\ faults \in Nat

LEMMA Countable == (IInv => Counted) /\ (IInv' => Counted')
<1>1. ASSUME IInv PROVE Counted
  <2>1. IsFiniteSet(0 .. MaxJobs) /\ Jobs \subseteq 0 .. MaxJobs
    BY FS_Interval, BoundAssumption DEF Jobs
  <2>2. Tokens \subseteq 0 .. MaxJobs
    <3>1. Tokens \subseteq {0} \cup Jobs
      BY DEF Tokens
    <3>2. 0 \in 0 .. MaxJobs
      BY BoundAssumption
    <3> QED BY <2>1, <3>1, <3>2
  <2>3. IsFiniteSet(Tokens) /\ Cardinality(Tokens) \in Nat
    BY <2>1, <2>2, FS_Subset, FS_CardinalityType
  <2>4. Tokens # {} => Cardinality(Tokens) # 0
    BY <2>3, FS_EmptySet
  <2>5. Tried \in Nat
    <3>1. IsFiniteSet({j \in Jobs : row[j] # "none"})
      BY <2>1, FS_Subset
    <3> QED BY <3>1, FS_CardinalityType DEF Tried
  <2>6. Spent \in Nat /\ Budget \in 0 .. Cap
    <3>1. Spent \in Nat
      BY <1>1, FailuresAreCounted DEF Spent, IInv, TypeOK
    <3> QED BY <3>1, Rests DEF Budget
  <2>7. faults \in Nat
    BY <1>1, BoundAssumption DEF IInv, TypeOK, OutsideType
  <2> QED BY <2>3, <2>4, <2>5, <2>6, <2>7 DEF Counted
<1> QED BY <1>1, PTL

\* A step is paid for if it has no more tokens and no fewer failures, if it gives up a
\* token, or, when something failed, if it has one token and a budget more.
LEMMA Pays ==
  ASSUME IInv, IInv', Paid, Tried' = Tried,
         \/ /\ faults <= faults' /\ Spent <= Spent'
            /\ Cardinality(Tokens') <= Cardinality(Tokens)
         \/ faults <= faults' /\ Cardinality(Tokens') < Cardinality(Tokens)
         \/ /\ faults' = faults + 1 /\ Spent <= Spent' + 1
            /\ Cardinality(Tokens') <= Cardinality(Tokens) + 1
         \/ faults' = faults + 1 /\ Cardinality(Tokens') = 1
  PROVE  Paid'
<1> DEFINE n == Cardinality(Tokens)
           m == Cardinality(Tokens')
<1>1. /\ n \in Nat /\ m \in Nat /\ Budget \in 0 .. Cap /\ Budget' \in 0 .. Cap
      /\ Spent \in Nat /\ Spent' \in Nat /\ faults \in Nat /\ faults' \in Nat /\ Tried \in Nat
  BY Countable DEF Counted
<1> HIDE DEF n, m
<1>2. /\ Spent <= Spent' => Budget' <= Budget
      /\ Spent <= Spent' + 1 => Budget' <= Budget + 1
  BY <1>1, Rests DEF Budget
<1>3. /\ Worth(Budget, n) \in Nat /\ Worth(Budget', m) \in Nat
      /\ Budget' <= Budget /\ m <= n => Worth(Budget', m) <= Worth(Budget, n)
      /\ m < n => Worth(Budget', m) <= Worth(Budget, n)
      /\ Budget' <= Budget + 1 /\ m <= n + 1
           => Worth(Budget', m) <= Worth(Budget, n) + Cap + 1
      /\ m = 1 => Worth(Budget', m) <= Worth(Budget, n) + Cap
  BY <1>1, Worths
<1>4. Left = Worth(Budget, n) /\ Left' = Worth(Budget', m)
  BY DEF Left, Worth, n, m
<1>5. /\ (Cap + 1) * (faults + 1) = (Cap + 1) * faults + (Cap + 1)
      /\ (Cap + 1) * faults \in Nat /\ (Cap + 1) * faults' \in Nat
      /\ faults <= faults' => (Cap + 1) * faults <= (Cap + 1) * faults'
  <2>1. Cap + 1 \in Nat
    BY BoundAssumption
  <2> QED BY <1>1, <2>1, Products
<1>6. \/ faults <= faults' /\ Spent <= Spent' /\ m <= n
      \/ faults <= faults' /\ m < n
      \/ faults' = faults + 1 /\ Spent <= Spent' + 1 /\ m <= n + 1
      \/ faults' = faults + 1 /\ m = 1
  BY DEF n, m
<1>7. \/ faults <= faults' /\ Left' <= Left
      \/ faults' = faults + 1 /\ Left' <= Left + Cap + 1
  <2>1. CASE faults <= faults' /\ Spent <= Spent' /\ m <= n
    BY <1>2, <1>3, <1>4, <2>1
  <2>2. CASE faults <= faults' /\ m < n
    BY <1>3, <1>4, <2>2
  <2>3. CASE faults' = faults + 1 /\ Spent <= Spent' + 1 /\ m <= n + 1
    BY <1>2, <1>3, <1>4, <2>3
  <2>4. CASE faults' = faults + 1 /\ m = 1
    <3>1. Left \in Nat /\ Left' \in Nat /\ Left' <= Left + Cap
      BY <1>3, <1>4, <2>4
    <3> QED BY <2>4, <3>1, BoundAssumption
  <2> QED BY <1>6, <2>1, <2>2, <2>3, <2>4
<1> QED BY <1>1, <1>3, <1>4, <1>5, <1>7, BoundAssumption DEF Paid

\* A dispatch is paid for by the budget, and hands a token on.
LEMMA PaysForJob ==
  ASSUME IInv, IInv', Paid, Tried' = Tried + 1, faults' = faults,
         Spent < Cap, Spent' = Spent + 1,
         Tokens # {}, Cardinality(Tokens') <= Cardinality(Tokens)
  PROVE  Paid'
<1> DEFINE n == Cardinality(Tokens)
           m == Cardinality(Tokens')
<1>1. /\ n \in Nat \ {0} /\ m \in Nat /\ m <= n /\ Budget \in 0 .. Cap /\ Budget' \in 0 .. Cap
      /\ Spent \in Nat /\ faults \in Nat /\ Tried \in Nat
  BY Countable DEF Counted
<1>2. Left = Worth(Budget, n) /\ Left' = Worth(Budget', m)
  BY DEF Left, Worth
<1> HIDE DEF n, m
<1>3. Budget' + 1 <= Budget
  BY <1>1, Rests DEF Budget
<1>4. Left \in Nat /\ Left' \in Nat /\ Left' + 1 <= Left
  <2>1. /\ Worth(Budget, n) \in Nat /\ Worth(Budget', m) \in Nat
        /\ Budget' + 1 <= Budget /\ m <= n /\ n # 0
             => Worth(Budget', m) + 1 <= Worth(Budget, n)
    BY <1>1, Worths
  <2>2. m <= n /\ n # 0
    BY <1>1
  <2> QED BY <1>2, <1>3, <2>1, <2>2
<1>5. (Cap + 1) * faults \in Nat
  <2>1. Cap + 1 \in Nat
    BY BoundAssumption
  <2> QED BY <1>1, <2>1, Products
<1> DEFINE bound == (Cap + 1) * faults
<1>6. Tried + Left <= Cap + bound /\ bound \in Nat
  BY <1>5 DEF Paid
<1> HIDE DEF bound
<1>7. \A t, u, l, k, c, x \in Nat :
        u = t + 1 /\ k + 1 <= l /\ t + l <= c + x => u + k <= c + x
  OBVIOUS
<1>8. Tried \in Nat /\ Tried' \in Nat /\ Cap \in Nat
  BY BoundAssumption, Countable DEF Counted
<1>9. Tried' + Left' <= Cap + bound
  BY <1>4, <1>6, <1>7, <1>8
<1> QED BY <1>9 DEF Paid, bound

\* What the parts of the account depend on.
LEMMA Accounts ==
  /\ UNCHANGED <<row, at, run>> => \A j \in Jobs : OnItsWay(j)' => OnItsWay(j)
  /\ (claim' = "held" => claim = "held" /\ holder' = holder)
       /\ group' \in {group} \cup Delivered
     => \A j \in Jobs : Holds(j)' => Holds(j)
  /\ UNCHANGED <<past, cycle>> => Failures' = Failures
  /\ UNCHANGED <<past, cycle, tick>> => Spent' = Spent
  /\ UNCHANGED <<boot, up, row>> => (Orphaned' <=> Orphaned)
  /\ UNCHANGED <<boot, up>> /\ up => (Orphaned' <=> Orphaned)
  /\ (\A j \in Jobs : row'[j] = "none" <=> row[j] = "none") => Tried' = Tried
<1>1. UNCHANGED <<row, at, run>> => \A j \in Jobs : OnItsWay(j)' => OnItsWay(j)
  BY DEF OnItsWay, Waiting
<1>2. (claim' = "held" => claim = "held" /\ holder' = holder)
       /\ group' \in {group} \cup Delivered
     => \A j \in Jobs : Holds(j)' => Holds(j)
  BY DEF Holds, HeldBy, Delivered, Terminal
<1>3. /\ UNCHANGED <<past, cycle>> => Failures' = Failures
      /\ UNCHANGED <<past, cycle, tick>> => Spent' = Spent
  BY DEF Failures, Spent
<1>4. /\ UNCHANGED <<boot, up, row>> => (Orphaned' <=> Orphaned)
      /\ UNCHANGED <<boot, up>> /\ up => (Orphaned' <=> Orphaned)
  BY DEF Orphaned
<1>5. ASSUME \A j \in Jobs : row'[j] = "none" <=> row[j] = "none" PROVE Tried' = Tried
  <2>1. {j \in Jobs : row'[j] # "none"} = {j \in Jobs : row[j] # "none"}
    BY <1>5
  <2> QED BY <2>1 DEF Tried
<1> QED BY <1>1, <1>2, <1>3, <1>4, <1>5

\* A step that marks the item, dispatches or leaves behind nothing new costs nothing.
LEMMA NothingNew ==
  ASSUME IInv, IInv', Paid, Tried' = Tried, faults <= faults', Spent <= Spent',
         Orphaned' <=> Orphaned, Marked' => Marked,
         \A j \in Jobs : Pending(j)' => Pending(j)
  PROVE  Paid'
<1>1. Tokens' \subseteq Tokens
  BY DEF Tokens
<1>2. Cardinality(Tokens') <= Cardinality(Tokens)
  BY <1>1, Countable, FS_Subset DEF Counted
<1> QED BY <1>2, Pays

\* One that gives job x's token for the ready label, or x for another job, neither;
LEMMA HandsOver ==
  ASSUME IInv, ~Orphaned, ~Orphaned', NEW x \in Tokens, NEW y,
         Tokens' \subseteq (Tokens \ {x}) \cup {y}
  PROVE  Cardinality(Tokens') <= Cardinality(Tokens)
  BY Countable, Exchanges DEF Counted

\* and one that gives it up may let the count of failures begin anew.
LEMMA GivesUp ==
  ASSUME IInv, IInv', Paid, Tried' = Tried, faults' = faults, ~Orphaned, ~Orphaned',
         Marked' => Marked, NEW x \in Jobs, Pending(x), ~Pending(x)',
         \A j \in Jobs : Pending(j)' => Pending(j)
  PROVE  Paid'
<1>1. x \in Tokens /\ x # 0
  BY Kinds DEF Tokens
<1>2. Tokens' \subseteq Tokens \ {x}
  BY <1>1 DEF Tokens
<1>3. Cardinality(Tokens') < Cardinality(Tokens)
  BY <1>1, <1>2, Countable, Exchanges DEF Counted
<1>4. faults <= faults'
  BY BoundAssumption DEF IInv, TypeOK, OutsideType
<1> QED BY <1>3, <1>4, Pays

\* The tick: the label becomes a job, which is counted with the swap.
LEMMA TickPays ==
  ASSUME IInv, IInv', Attended, Quiet, Undisturbed, Paid, Tick
  PROVE  Paid'
<1> USE Accounts, Kinds, Countable
    DEF Counted, item, ledger, log, queue, execs, ticker, daemon, outside, bounds
<1>1. CASE TickLists \/ TickFinds \/ TickSkips \/ TickRefused
  <2>1. UNCHANGED <<row, at, run, hook, claim, holder, group, boot, up, past, cycle,
                    faults>>
    BY <1>1 DEF TickLists, TickFinds, TickSkips, TickRefused, Looks
  <2>2. (tick' = "swap" <=> tick = "swap") /\ (Marked' => Marked)
    BY <1>1 DEF TickLists, TickFinds, TickSkips, TickRefused, Looks, Marked
  <2>3. Spent' = Spent
    BY <2>1, <2>2 DEF Spent
  <2>4. \A j \in Jobs : Pending(j)' => Pending(j)
    BY <2>1 DEF Pending
  <2> QED BY <2>1, <2>2, <2>3, <2>4, NothingNew
<1>2. CASE Swap
  <2>1. UNCHANGED <<row, at, run, hook, claim, holder, group, boot, up, faults>>
        /\ tick = "swap" /\ tick' = "idle" /\ ~Marked'
    BY <1>2 DEF Swap, Marked
  <2>2. Spent' = Spent
    BY <1>2, <2>1 DEF Swap, Spent, DispatchComment, Failures
  <2>3. \A j \in Jobs : Pending(j)' => Pending(j)
    BY <2>1 DEF Pending
  <2> QED BY <2>1, <2>2, <2>3, NothingNew
<1>3. ASSUME NEW j \in Jobs, Enqueue(j) PROVE Paid'
  <2>1. /\ tick = "found" /\ tick' = "swap" /\ row[j] = "none" /\ row' = Set(row, j, "queued")
        /\ UNCHANGED <<at, run, hook, claim, holder, group, boot, up, past, cycle,
                       labels, faults>>
    BY <1>3 DEF Enqueue
  <2>2. "ready" \in labels /\ Failures < Cap
    BY <2>1 DEF Quiet, ReadyBelow
  <2>3. Spent = Failures /\ Spent' = Spent + 1
    BY <2>1 DEF Spent
  <2>4. ~Orphaned /\ ~Orphaned'
    BY <2>1 DEF Quiet, Boots, Orphaned
  <2>5. \A i \in Jobs : i # j => (Pending(i)' => Pending(i))
    BY <2>1 DEF Set, Pending, OnItsWay, Holds, HeldBy, Waiting, IInv, TypeOK, QueueType
  <2>6. 0 \in Tokens /\ Tokens' \subseteq (Tokens \ {0}) \cup {j}
    BY <2>1, <2>2, <2>4, <2>5 DEF Tokens, Marked
  <2>7. Cardinality(Tokens') <= Cardinality(Tokens)
    BY <2>4, <2>6, HandsOver
  <2>8. Tried' = Tried + 1
    <3> DEFINE J == {i \in Jobs : row[i] # "none"}
    <3>1. {i \in Jobs : row'[i] # "none"} = J \cup {j} /\ j \notin J
      BY <2>1 DEF Set, IInv, TypeOK, QueueType
    <3>2. IsFiniteSet(J)
      <4>1. IsFiniteSet(Jobs)
        BY FS_Interval, BoundAssumption DEF Jobs
      <4> QED BY <4>1, FS_Subset
    <3>3. Cardinality(J \cup {j}) = Cardinality(J) + 1
      BY <3>1, <3>2, FS_AddElement
    <3> QED BY <3>1, <3>3 DEF Tried
  <2> QED BY <2>1, <2>2, <2>3, <2>6, <2>7, <2>8, PaysForJob
<1> QED BY <1>1, <1>2, <1>3 DEF Tick

\* The sweeps: a dead worker's claim becomes the ready label.
LEMMA SweepPays ==
  ASSUME IInv, IInv', Attended, Quiet, Undisturbed, Undisturbed', Paid, Sweep \/ ReviewSweep
  PROVE  Paid'
<1> USE Accounts, Kinds, Countable
    DEF Counted, item, ledger, log, queue, execs, ticker, daemon, outside, bounds
<1>1. CASE SweepSuspects \/ SweepForgets \/ SweepFindsMerged
  <2>1. UNCHANGED <<row, at, run, hook, claim, holder, group, boot, up, past, cycle,
                    tick,
                    labels, faults>>
    BY <1>1 DEF SweepSuspects, SweepForgets, SweepFindsMerged
  <2>2. (Marked' => Marked) /\ \A j \in Jobs : Pending(j)' => Pending(j)
    BY <2>1 DEF Pending, Marked
  <2> QED BY <2>1, <2>2, NothingNew
<1>2. CASE Promote
  <2>1. row' = row
    BY <1>2 DEF Promote, Kill, Undisturbed, IInv, TypeOK, QueueType
  <2>2. /\ UNCHANGED <<at, run, hook, holder, boot, up, past, cycle, tick, labels,
                       faults>>
        /\ claim' = "held" => claim = "held"
        /\ group' \in {group} \cup Delivered
    BY <1>2 DEF Promote, Delivered, Terminal
  <2>3. (Marked' => Marked) /\ \A j \in Jobs : Pending(j)' => Pending(j)
    BY <2>1, <2>2 DEF Pending, Marked
  <2> QED BY <2>1, <2>2, <2>3, NothingNew
<1>3. CASE SweepReleases
  <2>1. /\ UNCHANGED <<row, at, run, hook, boot, up, past, cycle, tick, faults>>
        /\ claim' # "held" /\ claim = "held" /\ Exited(holder, TRUE)
        /\ up /\ \A j \in Jobs : boot[j] = "none"
    BY <1>3 DEF SweepReleases, NoClaim, Serving
  <2>2. \A j \in Jobs : ~Holds(j)' /\ (Pending(j)' => Pending(j))
    BY <2>1 DEF Holds, HeldBy, Pending
  <2>3. CASE UNCHANGED labels \/ Park
    <3>1. Marked' => Marked
      BY <2>1, <2>3 DEF Marked, Park
    <3> QED BY <2>1, <2>2, <3>1, NothingNew
  <2>4. CASE ~LeftAlone
    <3>1. PICK h \in Jobs : h = holder[2] /\ HeldBy(h) /\ Holds(h)
      BY <2>1, <2>4 DEF Quiet, Calm, HeldBy, Holds, LeftAlone, Delivered
    <3>2. row[h] \in Settled /\ at[h] = "idle" /\ h \notin hook
      BY <2>1, <3>1 DEF Exited, Quiet, Hooks
    <3>3. Pending(h) /\ ~Pending(h)'
      BY <2>1, <2>2, <3>1, <3>2 DEF Pending, OnItsWay, Settled
    <3>4. ~Orphaned /\ ~Orphaned'
      BY <2>1 DEF Orphaned
    <3>5. h \in Tokens /\ Tokens' \subseteq (Tokens \ {h}) \cup {0}
      BY <2>2, <3>1, <3>3, <3>4 DEF Tokens
    <3>6. Cardinality(Tokens') <= Cardinality(Tokens)
      BY <3>4, <3>5, HandsOver
    <3> QED BY <2>1, <3>6, Pays
  <2>5. UNCHANGED labels \/ Park \/ ~LeftAlone
    BY <1>3 DEF SweepReleases, RestoreItem
  <2> QED BY <2>3, <2>4, <2>5
<1> QED BY <1>1, <1>2, <1>3 DEF Sweep, ReviewSweep

\* The executor at work is the only one: what it does to its own token decides.
LEMMA AttemptPays ==
  ASSUME IInv, IInv', Attended, Undisturbed, Paid, NEW j \in Jobs, at[j] # "idle",
         \A i \in Jobs \ {j} : at'[i] = at[i] /\ (Holds(i)' => Holds(i)),
         Pending(j)' => Pending(j), Failures' = Failures,
         UNCHANGED <<row, hook, boot, up, tick, labels, faults>>
  PROVE  Paid'
<1>1. \A i \in Jobs \ {j} : Pending(i)' => Pending(i)
  BY OneExecutor DEF Pending, OnItsWay
<1>2. Spent' = Spent /\ faults \in Nat /\ Spent \in Nat
  BY Countable DEF Spent, Counted
<1>3. up
  BY OneExecutor
<1> QED BY <1>1, <1>2, <1>3, Accounts, NothingNew DEF Marked

\* An executor passes its job's token on to the hook, which makes the item ready, or
\* at the ceiling gives it up and lets the count begin anew.
LEMMA ExecutorPays ==
  ASSUME IInv, IInv', Attended, Quiet, Undisturbed, Paid, NEW j \in Jobs, Executor(j)
  PROVE  Paid'
<1> USE Accounts, Kinds, Countable
    DEF Counted, item, ledger, log, queue, execs, ticker, daemon, outside, bounds
<1>0. /\ row \in [Jobs -> {"none"} \cup Active \cup Settled] /\ at \in [Jobs -> Places]
      /\ hook \subseteq Jobs /\ Failures \in Nat /\ Cap \in Nat \ {0}
  BY FailuresAreCounted, BoundAssumption DEF IInv, TypeOK, QueueType, ExecsType, DaemonType
<1>1. CASE Dequeue(j)
  <2>1. /\ up /\ row[j] = "queued" /\ row' = Set(row, j, "running") /\ at' = Set(at, j, "taken")
        /\ UNCHANGED <<run, hook, claim, holder, group, boot, up, past, cycle, tick,
                       labels, faults>>
    BY <1>1 DEF Dequeue, Serving
  <2>2. \A i \in Jobs : Pending(i)' => Pending(i)
    BY <1>0, <2>1 DEF Set, Pending, OnItsWay, Waiting
  <2>3. \A i \in Jobs : row'[i] = "none" <=> row[i] = "none"
    BY <1>0, <2>1 DEF Set
  <2> QED BY <2>1, <2>2, <2>3, NothingNew DEF Marked
<1>2. CASE Prepare(j) \/ SetUpFails(j)
  <2>1. /\ at[j] \in {"taken", "claimed"} /\ \A i \in Jobs \ {j} : at'[i] = at[i]
        /\ UNCHANGED <<row, hook, claim, holder, group, boot, up, past, cycle, tick,
                       labels, faults>>
    BY <1>0, <1>2 DEF Prepare, SetUpFails, Set
  <2>2. Pending(j)
    BY <2>1 DEF Pending, OnItsWay, Waiting
  <2> QED BY <2>1, <2>2, AttemptPays
<1>3. CASE JobClaims(j)
  <2>1. /\ at[j] = "ready" /\ \A i \in Jobs \ {j} : at'[i] = at[i]
        /\ UNCHANGED <<row, hook, boot, up, past, cycle, tick, labels, faults>>
    BY <1>0, <1>3 DEF JobClaims, Set
  <2>2. Pending(j)
    BY <2>1 DEF Pending, OnItsWay, Waiting
  <2>3. UNCHANGED <<claim, holder, group>> \/ holder'[2] = j
    BY <1>3 DEF JobClaims, Claim, Acquire, Me
  <2>4. \A i \in Jobs \ {j} : Holds(i)' => Holds(i)
    BY <2>3 DEF Holds, HeldBy
  <2> QED BY <2>1, <2>2, <2>4, AttemptPays
<1>4. CASE AttachRun(j)
  <2>1. /\ at[j] = "claimed"
        /\ UNCHANGED <<row, hook, claim, holder, group, boot, up, past, cycle, tick,
                       labels, faults>>
    BY <1>4 DEF AttachRun
  <2>2. Pending(j)
    BY <2>1 DEF Pending, OnItsWay, Waiting
  <2>3. \A i \in Jobs \ {j} : at'[i] = at[i]
    BY <1>4, <2>1, OneExecutor DEF AttachRun, Waiting
  <2> QED BY <2>1, <2>2, <2>3, AttemptPays
<1>5. CASE WaiterSeesEnd(j) \/ WaiterLosesClaim(j)
  <2>1. /\ Waiting(j) /\ \A i \in Jobs \ {j} : at'[i] = at[i]
        /\ UNCHANGED <<row, hook, claim, holder, group, boot, up, past, cycle, tick,
                       labels, faults>>
    BY <1>0, <1>5 DEF WaiterSeesEnd, WaiterLosesClaim, Goes, Set
  <2>2. run = "completed" => at'[j] = "ok"
    BY <1>0, <1>5 DEF WaiterSeesEnd, WaiterLosesClaim, Goes, Set, Verdict
  <2>3. Pending(j)' => Pending(j)
    BY <2>1, <2>2 DEF Pending, OnItsWay, Waiting
  <2> QED BY <2>1, <2>3, AttemptPays DEF Waiting
<1>6. CASE TakesOver(j)
  <2>1. UNCHANGED <<row, at, run, hook, claim, holder, group, boot, up, past, cycle,
                    tick, labels, faults>>
    BY <1>6 DEF TakesOver
  <2> QED BY <2>1, NothingNew DEF Marked, Pending
<1>7. CASE DropEnds(j) \/ StopOnRequest(j) \/ RollBack(j)
  <2>1. /\ at[j] \in {"give", "givefatal", "quit", "claimed"}
        /\ \A i \in Jobs \ {j} : at'[i] = at[i]
        /\ UNCHANGED <<row, hook, boot, up, tick, labels, faults>>
    BY <1>0, <1>7 DEF DropEnds, StopOnRequest, RollBack, Set, Quiet, Calm
  <2>2. Failures' = Failures
    BY <1>7, <2>1 DEF DropEnds, StopOnRequest, RollBack, FailureComment, Failures, Quiet,
       Calm
  <2>3. \/ claim' # "held"
        \/ claim' = "held" /\ claim = "held" /\ holder' = holder /\ UNCHANGED group
    BY <1>7 DEF DropEnds, StopOnRequest, RollBack, LedgerRelease, GiveUp, NoClaim
  <2>4. \A i \in Jobs : Holds(i)' => Holds(i)
    BY <2>3 DEF Holds, HeldBy
  <2>5. Pending(j)
    BY <2>1 DEF Pending, OnItsWay, Waiting
  <2> QED BY <2>1, <2>2, <2>4, <2>5, AttemptPays
<1>11. CASE Drop(j)
  <2>1. /\ at[j] \in {"drop", "dropfatal"} /\ \A i \in Jobs \ {j} : at'[i] = at[i]
        /\ UNCHANGED <<row, hook, group, boot, up, tick, labels, faults, past, cycle>>
    BY <1>0, <1>11 DEF Drop, Set
  <2>2. \/ claim' = "held" => claim = "held" /\ holder' = holder
        \/ claim' = "held" /\ holder'[2] = j
    BY <1>11 DEF Drop, Confirm, Acquire, NoClaim, Me
  <2>3. \A i \in Jobs \ {j} : Holds(i)' => Holds(i)
    BY <2>1, <2>2 DEF Holds, HeldBy
  <2>4. Pending(j)
    BY <2>1 DEF Pending, OnItsWay, Waiting
  <2> QED BY <2>1, <2>3, <2>4, AttemptPays
<1>8. ~WaiterSeesJobCancelled(j)
  BY DEF WaiterSeesJobCancelled, Undisturbed
<1>9. CASE Report(j)
  <2>1. /\ at[j] \in {"ok", "bad", "fatal"} /\ at' = Set(at, j, "idle")
        /\ UNCHANGED <<run, claim, holder, group, boot, up, past, cycle, tick,
                       labels, faults>>
    BY <1>9 DEF Report
  <2>2. row[j] = "running" /\ up
    BY <2>1, OneExecutor
  <2>3. \E x \in {"done", "queued", "failed"} :
          /\ row' = Set(row, j, x) /\ hook' = IF x = "failed" THEN hook \cup {j} ELSE hook
          /\ at[j] = "ok" => x = "done"
    BY <1>0, <1>9, <2>2 DEF Report, Set
  <2>4. \A i \in Jobs \ {j} : Pending(i)' => Pending(i)
    BY <1>0, <2>1, <2>3 DEF Set, Pending, OnItsWay, Waiting
  <2>5. Pending(j)' => Pending(j)
    BY <1>0, <2>1, <2>3 DEF Set, Pending, OnItsWay, Waiting
  <2>6. \A i \in Jobs : row'[i] = "none" <=> row[i] = "none"
    BY <1>0, <2>2, <2>3 DEF Set
  <2> QED BY <2>1, <2>2, <2>4, <2>5, <2>6, NothingNew DEF Marked
<1>10. CASE FailureHook(j)
  <2>1. /\ j \in hook /\ hook' = hook \ {j} /\ group' \in {group} \cup Delivered
        /\ UNCHANGED <<row, at, run, claim, holder, boot, up, tick, faults>>
    BY <1>10 DEF FailureHook, Delivered
  <2>2. ~Orphaned /\ ~Orphaned'
    BY <2>1 DEF Orphaned, Quiet, Boots
  <2>3. \A i \in Jobs : Pending(i)' => Pending(i)
    BY <2>1 DEF Pending
  <2>4. Pending(j) /\ ~Pending(j)'
    BY <2>1 DEF Pending, OnItsWay, Holds, HeldBy, Quiet, Hooks
  <2>5. CASE Failures >= Cap
    <3>1. "ready" \notin labels
      BY <1>0, <2>5 DEF Quiet, ReadyBelow
    <3>2. ~Marked'
      BY <1>10, <2>5, <3>1 DEF FailureHook, ReArm, Marked
    <3> QED BY <2>1, <2>2, <2>3, <2>4, <3>2, GivesUp
  <2>6. CASE Failures < Cap
    <3>1. UNCHANGED <<past, cycle>>
      BY <1>0, <1>10, <2>6 DEF FailureHook
    <3>2. j \in Tokens /\ Tokens' \subseteq (Tokens \ {j}) \cup {0}
      BY <2>2, <2>3, <2>4 DEF Tokens
    <3>3. Cardinality(Tokens') <= Cardinality(Tokens)
      BY <2>2, <3>2, HandsOver
    <3> QED BY <2>1, <3>1, <3>3, Pays
  <2> QED BY <1>0, <2>5, <2>6
<1> QED BY <1>1, <1>2, <1>3, <1>4, <1>5, <1>6, <1>7, <1>8, <1>9, <1>10,
    <1>11 DEF Executor

\* A success lets the count begin anew, and gives up its job's token.
LEMMA FinalizerPays ==
  ASSUME IInv, IInv', Attended, Quiet, Undisturbed, Paid, NEW j \in Jobs, Finalizer(j)
  PROVE  Paid'
<1> USE Accounts, Kinds, Countable
    DEF Counted, item, ledger, log, queue, execs, ticker, daemon, outside, bounds
<1>1. CASE AgentEnds(j) \/ Finalize(j) \/ FinalizeRetries(j) \/ FinalizeFails(j)
  <2>1. /\ UNCHANGED <<row, at, hook, claim, holder, group, boot, up, past, cycle,
                       tick, labels, faults>>
        /\ run' = run \/ (run = "running" /\ run' = "failed")
    BY <1>1 DEF AgentEnds, Finalize, FinalizeRetries, FinalizeFails, StepGoes, RunEnds, Drives
  <2>2. \A i \in Jobs : Pending(i)' => Pending(i)
    BY <2>1 DEF Pending, OnItsWay, Waiting
  <2> QED BY <2>1, <2>2, NothingNew DEF Marked
<1>2. CASE FinalizeEnds(j)
  <2>1. /\ step[j] = "leave"
        /\ UNCHANGED <<row, at, hook, claim, holder, group, boot, up, tick, labels, faults>>
    BY <1>2 DEF FinalizeEnds, StepGoes
  <2>2. Waiting(j) /\ driver = j /\ run = "running"
    BY <2>1 DEF Quiet, Finals, Finishing
  <2>3. run' = "completed"
    BY <1>2, <2>2 DEF FinalizeEnds, RunEnds, Drives
  <2>4. up /\ row[j] = "running" /\ j \notin hook
    BY <2>2, OneExecutor DEF Waiting, Quiet, Hooks
  <2>5. ~Orphaned /\ ~Orphaned'
    BY <2>1, <2>2, <2>4 DEF Orphaned, Quiet, Boots, Waiting
  <2>7. ~Holds(j)'
    BY <2>1 DEF Holds, HeldBy, Quiet, Leaves, Delivered, Terminal
  <2>8. Pending(j) /\ ~Pending(j)'
    BY <2>1, <2>2, <2>3, <2>4, <2>7 DEF Pending, OnItsWay, Waiting
  <2>9. \A i \in Jobs : Pending(i)' => Pending(i)
    BY <2>1, <2>2, <2>3 DEF Pending, OnItsWay, Waiting
  <2> QED BY <2>1, <2>5, <2>8, <2>9, GivesUp DEF Marked
<1>3. CASE FinalizeReleases(j) \/ FinalizeGives(j)
  <2>1. /\ UNCHANGED <<row, at, run, hook, group, boot, up, past, cycle, tick, labels,
                       faults>>
        /\ step[j] \in Finishing
    BY <1>3 DEF FinalizeReleases, FinalizeGives, StepGoes, Finishing
  <2>2. Pending(j) /\ at[j] # "idle"
    BY <2>1 DEF Quiet, Finals, Pending, OnItsWay, Waiting
  <2>3. \/ claim' = "held" => claim = "held" /\ holder' = holder
        \/ claim' = "held" /\ holder'[2] = j
    BY <1>3 DEF FinalizeReleases, FinalizeGives, Confirm, GiveUp, Acquire, NoClaim, Me
  <2>4. \A i \in Jobs \ {j} : Holds(i)' => Holds(i)
    BY <2>1, <2>3 DEF Holds, HeldBy
  <2> QED BY <2>1, <2>2, <2>4, AttemptPays
<1> QED BY <1>1, <1>2, <1>3 DEF Finalizer

\* item_done claims the item for the job that is finalized, whose executor waits.
LEMMA DonePays ==
  ASSUME IInv, IInv', Attended, Quiet, Undisturbed, Paid, NEW p \in Procs,
         Done(p) \/ Heartbeat(p)
  PROVE  Paid'
<1> USE Accounts, Kinds, Countable
    DEF Counted, item, ledger, log, queue, execs, ticker, daemon, outside, bounds
<1>1. CASE Heartbeat(p)
  <2>1. UNCHANGED <<row, at, run, hook, claim, holder, group, boot, up, past, cycle,
                    tick, labels, faults>>
    BY <1>1 DEF Heartbeat
  <2> QED BY <2>1, NothingNew DEF Marked, Pending
<1>2. CASE Done(p)
  <2>1. /\ step[p] \in {"done", "steal", "push", "merged", "review", "closing"}
        /\ UNCHANGED <<row, at, run, hook, boot, up, past, cycle, tick, labels, faults>>
    BY <1>2 DEF Done, DoneBegins, DoneSteals, DoneCloses, Publishes, SeesMerged, MarkCompleted,
       Push, PushFails, NothingDone, MarkInReview, StepGoes
  <2>2. p \in Jobs /\ Pending(p)
    BY <2>1 DEF Quiet, Calm, Procs, Finals, Finishing, Pending, OnItsWay, Waiting
  <2>3. group' \in {group} \cup Delivered
    BY <1>2 DEF Done, DoneBegins, DoneSteals, DoneCloses, Publishes, SeesMerged, MarkCompleted,
       Push, PushFails, NothingDone, MarkInReview, StepGoes, Delivered, Terminal
  <2>4. \/ claim' = "held" => claim = "held" /\ holder' = holder
        \/ claim' = "held" /\ holder' = Me(p)
    BY <1>2 DEF Done, DoneBegins, DoneSteals, DoneCloses, Publishes, SeesMerged, MarkCompleted,
       Push, PushFails, NothingDone, MarkInReview, NoClaim, Acquire
  <2>5. \A i \in Jobs : Pending(i)' => Pending(i)
    BY <2>1, <2>2, <2>3, <2>4 DEF Pending, Holds, HeldBy, Me
  <2> QED BY <2>1, <2>5, NothingNew DEF Marked
<1> QED BY <1>1, <1>2

\* Sessions change nothing that counts.
LEMMA OutsidePays ==
  ASSUME IInv, IInv', Attended, Quiet, Undisturbed, Undisturbed', Paid,
         Operator \/ \E s \in Sessions : Session(s)
  PROVE  Paid'
<1> USE Accounts, Kinds, Countable
    DEF Counted, item, ledger, log, queue, execs, ticker, daemon, outside, bounds
<1>1. ~Call
  BY DEF Undisturbed, Call
<1>2. ~Operator
  BY <1>1 DEF Undisturbed, Quiet, Calm, Operator, Redispatch, Reassign, CancelJob,
     RedispatchSame, CancelRun, BeginCancel, BeginPause, Stopping, StopRun, StopJobs,
     CancelItem, StopItem, HandJobs, HandClaim, Stop, Resume
<1>3. ASSUME NEW s \in Sessions, Session(s) PROVE Paid'
  <2>1. ~Owns(s) /\ step[s] = "idle"
    BY DEF Owns, Quiet, Calm, Me
  <2>2. SessionExits(s)
    BY <1>1, <1>3, <2>1 DEF Session, SessionClaims, SessionReleases, SessionGives,
       SessionCallsDone, SessionReturns, Follows
  <2>3. /\ UNCHANGED <<row, at, run, hook, claim, holder, group, boot, up, past,
                       cycle, tick, labels>>
        /\ faults <= faults'
    BY <2>2 DEF SessionExits, Fault
  <2> QED BY <2>3, NothingNew DEF Marked, Pending
<1> QED BY <1>2, <1>3

\* A crash lets a dispatch go uncounted and its label come back; with a job at work it
\* leaves nothing but the boot's token, which the boot makes the ready label.
LEMMA WorldPays ==
  ASSUME IInv, IInv', Attended, Quiet, Undisturbed, Paid,
         Crash \/ Boot \/ DriverErrs \/ Age \/ PrSettles
  PROVE  Paid'
<1> USE Accounts, Kinds, Countable
    DEF Counted, item, ledger, log, queue, execs, ticker, daemon, outside, bounds
<1>0. /\ row \in [Jobs -> {"none"} \cup Active \cup Settled] /\ at \in [Jobs -> Places]
      /\ boot \in [Jobs -> {"none", "release", "give", "restore"}]
      /\ Failures \in Nat /\ Cap \in Nat \ {0}
  BY FailuresAreCounted, BoundAssumption DEF IInv, TypeOK, QueueType, ExecsType, DaemonType
<1>1. CASE DriverErrs \/ Age \/ PrSettles
  <2>1. /\ UNCHANGED <<row, at, run, hook, claim, holder, group, boot, up, past,
                       cycle, tick, labels>>
        /\ faults <= faults'
    BY <1>1 DEF DriverErrs, Age, PrSettles, Decide, Fault
  <2> QED BY <2>1, NothingNew DEF Marked, Pending
<1>2. CASE Crash
  <2>1. /\ up /\ ~up' /\ hook' = {} /\ tick' = "idle" /\ faults' = faults + 1
        /\ boot' = [j \in Jobs |-> "none"] /\ at' = [j \in Jobs |-> "idle"]
        /\ UNCHANGED <<row, run, claim, holder, group, past, cycle, labels>>
    BY <1>2 DEF Crash, Fault
  <2>2. Spent' = Failures /\ Spent \in {Failures, Failures + 1}
    BY <2>1 DEF Spent
  <2>3. CASE \E j \in Jobs : row[j] = "running"
    <3>1. Orphaned'
      BY <2>1, <2>3 DEF Orphaned
    <3>2. Cardinality(Tokens') = 1
      BY <3>1, FS_Singleton DEF Tokens
    <3> QED BY <2>1, <3>2, Pays
  <2>4. CASE \A j \in Jobs : row[j] # "running"
    <3>1. ~Orphaned'
      BY <2>1, <2>4 DEF Orphaned
    <3>2. \A j \in Jobs : Pending(j)' => row[j] = "queued" \/ Holds(j)
      BY <2>1 DEF Pending, OnItsWay, Holds, HeldBy
    <3>3. PICK T : /\ IsFiniteSet(T) /\ Cardinality(T) <= Cardinality(Tokens)
                   /\ Tokens' \subseteq T \cup {0}
      <4>1. CASE Orphaned
        <5>1. \A j \in Jobs : row[j] # "queued"
          BY <2>1, <4>1 DEF Orphaned, Quiet, Boots, Active
        <5>2. Tokens' \subseteq {holder[2]} \cup {0}
          BY <3>1, <3>2, <5>1 DEF Tokens, Holds, HeldBy
        <5>3. Tokens = {0}
          BY <4>1 DEF Tokens
        <5>4. IsFiniteSet({holder[2]}) /\ Cardinality({holder[2]}) = 1 /\ Cardinality({0}) = 1
          BY FS_Singleton
        <5> QED BY <5>2, <5>3, <5>4
      <4>2. CASE ~Orphaned
        <5>1. Tokens' \subseteq Tokens \cup {0}
          BY <3>1, <3>2, <4>2 DEF Tokens, Pending, OnItsWay
        <5> QED BY <5>1
      <4> QED BY <4>1, <4>2
    <3>4. Cardinality(Tokens') <= Cardinality(Tokens) + 1
      <4>1. /\ IsFiniteSet(T \cup {0})
            /\ Cardinality(T \cup {0}) \in {Cardinality(T), Cardinality(T) + 1}
        BY <3>3, FS_AddElement
      <4>2. Cardinality(Tokens') <= Cardinality(T \cup {0}) /\ Cardinality(T) \in Nat
        BY <3>3, <4>1, FS_Subset, FS_CardinalityType
      <4> QED BY <3>3, <4>1, <4>2
    <3> QED BY <1>0, <2>1, <2>2, <3>4, Pays
  <2> QED BY <2>3, <2>4
<1>3. CASE Restart
  <2>1. /\ ~up /\ up' = TRUE
        /\ boot' = [j \in Jobs |-> IF row[j] = "running" THEN "release" ELSE "none"]
        /\ row' = [j \in Jobs |-> IF row[j] = "running" THEN "failed" ELSE row[j]]
        /\ UNCHANGED <<at, run, hook, claim, holder, group, past, cycle, tick,
                       labels, faults>>
    BY <1>3 DEF Restart
  <2>2. Orphaned' <=> Orphaned
    BY <2>1 DEF Orphaned, Quiet, Boots
  <2>3. \A j \in Jobs : Pending(j)' => Pending(j)
    BY <2>1 DEF Pending, OnItsWay, Waiting
  <2>4. \A j \in Jobs : row'[j] = "none" <=> row[j] = "none"
    BY <2>1
  <2> QED BY <2>1, <2>2, <2>3, <2>4, NothingNew DEF Marked
<1>4. ASSUME NEW j \in Jobs, ReleaseOrphan(j) \/ GiveOrphan(j) PROVE Paid'
  <2>1. /\ boot[j] # "none" /\ boot'[j] # "none"
        /\ UNCHANGED <<row, tick, faults>> /\ Failures' = Failures
    BY <1>0, <1>4 DEF ReleaseOrphan, GiveOrphan, Set, FailureComment, Failures, Quiet,
       Calm
  <2>2. Tokens = {0} /\ Tokens' = {0} /\ Spent' = Spent
    BY <2>1 DEF Tokens, Orphaned, Spent
  <2> QED BY <2>1, <2>2, Pays
<1>5. ASSUME NEW j \in Jobs, RestoreOrphan(j) PROVE Paid'
  <2>1. /\ boot[j] = "restore" /\ boot' = Set(boot, j, "none")
        /\ UNCHANGED <<row, at, run, hook, group, up, tick, faults>>
        /\ claim' = "held" => claim = "held"
    BY <1>5 DEF RestoreOrphan, LedgerRelease, NoClaim
  <2>2. /\ up /\ hook = {} /\ tick = "idle" /\ claim # "held"
        /\ \A i \in Jobs : row[i] \notin Active /\ at[i] = "idle" /\ (i # j => boot[i] = "none")
    BY <2>1 DEF Quiet, Boots
  <2>3. Orphaned /\ ~Orphaned'
    BY <1>0, <2>1, <2>2 DEF Orphaned, Set
  <2>4. \A i \in Jobs : ~Pending(i)'
    BY <2>1, <2>2 DEF Pending, OnItsWay, Holds, HeldBy, Active
  <2>5. Tokens = {0} /\ Tokens' = {x \in {0} : Marked'}
    BY <2>3, <2>4 DEF Tokens
  <2>6. CASE Failures >= Cap
    <3>1. "ready" \notin labels
      BY <1>0, <2>6 DEF Quiet, ReadyBelow
    <3>2. ~Marked'
      BY <1>5, <2>6, <3>1 DEF RestoreOrphan, ReArm, Marked
    <3>3. Cardinality(Tokens') = 0 /\ Cardinality(Tokens) = 1
      BY <2>5, <3>2, FS_EmptySet, FS_Singleton
    <3> QED BY <2>1, <3>3, Pays
  <2>7. CASE Failures < Cap
    <3>1. UNCHANGED <<past, cycle>>
      BY <1>0, <1>5, <2>7 DEF RestoreOrphan
    <3>2. Cardinality(Tokens') <= Cardinality(Tokens)
      BY <2>5, FS_Subset
    <3> QED BY <2>1, <3>1, <3>2, Pays
  <2> QED BY <1>0, <2>6, <2>7
<1> QED BY <1>1, <1>2, <1>3, <1>4, <1>5 DEF Boot, OrphanSteps

\* At first the item has its ready label and a budget.
LEMMA PaidAtFirst == Init => Paid
<1> SUFFICES ASSUME Init PROVE Paid
  OBVIOUS
<1>1. Tried = 0
  <2>1. {j \in Jobs : row[j] # "none"} = {}
    BY DEF Init
  <2> QED BY <2>1, FS_EmptySet DEF Tried
<1>2. Tokens = {0}
  BY Kinds DEF Init, Tokens, Orphaned, Marked, Pending, OnItsWay, Holds, HeldBy
<1>3. Spent = 0 /\ faults = 0
  BY DEF Init, Spent, Failures
<1>4. Left = Cap
  BY <1>2, <1>3, FS_Singleton, BoundAssumption DEF Left, Worth, Budget, Rest
<1> QED BY <1>1, <1>3, <1>4, BoundAssumption DEF Paid

\* While nobody disturbs the daemon, the jobs dispatched and those the item can still
\* bring about are within the bound together.
THEOREM Paying == Spec => [](Undisturbed => Paid)
<1>1. ASSUME IInv, IInv', Attended, Undisturbed => Quiet, Undisturbed => Paid,
             [Next]_vars, Undisturbed'
      PROVE  Paid'
  <2>1. Undisturbed /\ Quiet /\ Paid
    BY <1>1, WasUndisturbed
  <2>2. CASE UNCHANGED vars
    <3>1. UNCHANGED <<row, at, run, hook, claim, holder, group, boot, up, past,
                      cycle, tick,
                      labels, faults>>
      BY <2>2 DEF vars, item, ledger, log, queue, execs, daemon, ticker, bounds
    <3> QED BY <1>1, <2>1, <3>1, Accounts, Countable, NothingNew DEF Marked, Pending, Counted
  <2>3. CASE Next
    BY <1>1, <2>1, <2>3, TickPays, SweepPays, ExecutorPays, FinalizerPays, DonePays,
       OutsidePays, WorldPays DEF Next
  <2> QED BY <1>1, <2>2, <2>3
<1> QED BY <1>1, PaidAtFirst, Inductive, Attending, Quieting, PTL DEF Spec

\* DispatchesAreBounded, for every cap, number of jobs, retries and faults: a job that
\* fails for ever is dispatched Cap times, and at most Cap + 1 times more for every
\* crash, expiry and failing write, until an operator or a merge comes between.
THEOREM DispatchesBounded == Spec => []DispatchesAreBounded
<1>1. IInv /\ (Undisturbed => Paid) => DispatchesAreBounded
  <2> SUFFICES ASSUME IInv, Undisturbed, Paid PROVE Tried <= Cap + (Cap + 1) * faults
    BY DEF DispatchesAreBounded
  <2>1. Left \in Nat /\ Tried \in Nat
    BY Countable, Worths DEF Counted, Left
  <2>2. Cap + (Cap + 1) * faults \in Nat
    <3>1. Cap \in Nat /\ Cap + 1 \in Nat /\ faults \in Nat
      BY BoundAssumption, Countable DEF Counted
    <3>2. (Cap + 1) * faults \in Nat
      BY <3>1, Products
    <3> QED BY <3>1, <3>2
  <2> QED BY <2>1, <2>2 DEF Paid
<1> QED BY <1>1, Paying, Inductive, PTL
=============================================================================
