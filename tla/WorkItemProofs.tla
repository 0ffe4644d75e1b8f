--------------------------- MODULE WorkItemProofs ---------------------------
(***************************************************************************)
(* The inductive invariant of WorkItem, for every number of agents, jobs,  *)
(* sessions, retries, pull requests and faults: one lemma per group of     *)
(* actions, in it one step per action, under it one per conjunct of the    *)
(* invariant that the action can disturb; the frame lemma has the rest.    *)
(***************************************************************************)
EXTENDS WorkItem, TLAPS

\* Where an executor acts for an agent.
Working == {"ready", "claimed", "wait", "drop", "dropfatal", "give", "givefatal"}
\* Whatever is dispatched, executes, drives or submits has an agent: the tick read
\* one, a job was enqueued for one, an executor took the assignee or that one.
AgentsKnown ==
  /\ tick = "found" => pick \in Agents
  /\ \A j \in Jobs : row[j] # "none" => payload[j] \in Agents
  /\ \A j \in Jobs : at[j] # "idle" => row[j] # "none"
  /\ \A j \in Jobs : boot[j] # "none" => row[j] # "none"
  /\ \A j \in Jobs : at[j] \in Working => who[j] \in Agents
  /\ \A p \in Procs : step[p] # "idle" => who[p] \in Agents
  /\ \A s \in Sessions : who[s] \in Agents
\* What the review sweep or item_done saw merged is merged.
MergedSeen ==
  /\ watch # 0 => Merged(watch)
  /\ \A p \in Procs : step[p] = "merged" => \E n \in Numbers : Merged(n)
\* The types are not inductive alone: without AgentsKnown a claim of a job that was
\* enqueued for nobody would have no owner.
IInv == TypeOK /\ AgentsKnown /\ MergedSeen

\* The failure ceiling counts in the naturals.
LEMMA FailuresAreCounted == ASSUME LogType PROVE Failures \in Nat
  BY DEF LogType, Failures

\* Every comment keeps the log well typed.
LEMMA Comments ==
  ASSUME LogType,
         DispatchComment \/ FailureComment \/ StoppedComment \/ SuccessComment \/ CapComment
           \/ UNCHANGED log
  PROVE  LogType'
<1>1. stopped' \in BOOLEAN
  BY DEF LogType, DispatchComment, FailureComment, StoppedComment, SuccessComment,
     CapComment, log
<1>2. past' \in Nat
  BY FailuresAreCounted DEF LogType, DispatchComment, FailureComment,
     StoppedComment, SuccessComment, CapComment, log
<1>3. cycle' \in {"none", "open", "neutral", "ok", "capped"}
  BY DEF LogType, DispatchComment, FailureComment, StoppedComment, SuccessComment,
     CapComment, log
<1> QED BY <1>1, <1>2, <1>3 DEF LogType

\* Jobs and sessions are processes, and an agent with one is an owner.
LEMMA Names ==
  /\ \A j \in Jobs : j \in Procs /\ j \in 0 .. MaxJobs
  /\ \A s \in Sessions : s \in Procs
  /\ \A a \in Agents, p \in Procs : <<a, p>> \in Owners
  /\ Nobody \notin Agents /\ Nobody \notin Owners
  BY AgentAssumption, BoundAssumption DEF Jobs, Procs, Owners

\* Neither closure of a release leaves half a claim.
LEMMA Releases ==
  ASSUME LedgerType, NEW o \in Owners, NEW here,
         Confirm(o, here) \/ GiveUp(o) \/ LedgerRelease(o) \/ NoClaim \/ Acquire(o)
           \/ UNCHANGED ledger
  PROVE  LedgerType'
  BY Names DEF LedgerType, Confirm, GiveUp, LedgerRelease, NoClaim, Acquire, ledger

\* A part of the invariant holds on while its variables stay.
LEMMA Frames ==
  ASSUME IInv
  PROVE  /\ UNCHANGED <<group, assignee, labels, pr, prs>> => ItemType'
         /\ UNCHANGED <<holder, claim, age>> => LedgerType'
         /\ UNCHANGED <<past, cycle, stopped>> => LogType'
         /\ UNCHANGED <<row, tries, payload>> => QueueType'
         /\ UNCHANGED <<at, who, step, seen, before, run, driver>> => ExecsType'
         /\ UNCHANGED <<up, boot, hook, tick, pick, suspect, watch>> => DaemonType'
         /\ UNCHANGED <<call, heir, gone, calls, faults>> => OutsideType'
         /\ UNCHANGED <<tick, pick, boot, row, payload, at, who, step>> => AgentsKnown'
         /\ UNCHANGED <<watch, prs, step>> => MergedSeen'
<1>1. UNCHANGED <<group, assignee, labels, pr, prs>> => ItemType'
  BY DEF IInv, TypeOK, Groups, ItemType, Terminal
<1>2. UNCHANGED <<holder, claim, age>> => LedgerType'
  BY DEF IInv, TypeOK, LedgerType
<1>3. UNCHANGED <<past, cycle, stopped>> => LogType'
  BY DEF IInv, TypeOK, LogType
<1>4. UNCHANGED <<row, tries, payload>> => QueueType'
  BY DEF IInv, TypeOK, QueueType
<1>5. UNCHANGED <<at, who, step, seen, before, run, driver>> => ExecsType'
  BY DEF IInv, TypeOK, ExecsType
<1>6. UNCHANGED <<up, boot, hook, tick, pick, suspect, watch>> => DaemonType'
  BY DEF IInv, TypeOK, DaemonType
<1>7. UNCHANGED <<call, heir, gone, calls, faults>> => OutsideType'
  BY DEF IInv, TypeOK, OutsideType
<1>8. UNCHANGED <<tick, pick, boot, row, payload, at, who, step>> => AgentsKnown'
  BY DEF IInv, Working, AgentsKnown
<1>9. UNCHANGED <<watch, prs, step>> => MergedSeen'
  BY DEF IInv, MergedSeen, Merged
<1> QED BY <1>1, <1>2, <1>3, <1>4, <1>5, <1>6, <1>7, <1>8, <1>9

\* Nothing that was merged is unmerged, so what was seen merged remains so.
LEMMA SeenStays ==
  ASSUME MergedSeen, watch' = watch, \A n \in Numbers : Merged(n) => Merged(n)',
         \A q \in Procs : step'[q] = "merged" => step[q] = "merged"
  PROVE  MergedSeen'
  BY DEF MergedSeen, Merged, Numbers

\* A job's end leaves labels the item may have.
LEMMA ReArmLabels ==
  ASSUME ItemType, ReArm
  PROVE  labels' \subseteq {"ready", "dispatched", "manual", "paused"}
  BY DEF Groups, ItemType, ReArm

\* The discovery tick: every step keeps the invariant.
LEMMA TickKeeps ==
  ASSUME IInv, Tick
  PROVE  IInv'
<1> USE DEF IInv, TypeOK, item, ledger, log, queue, execs, ticker, daemon, outside, bounds
<1>1. CASE TickLists \/ TickFinds \/ TickRefused
  <2>1. DaemonType'
    BY <1>1 DEF DaemonType, Groups, ItemType, TickLists, TickFinds, TickRefused, Looks
  <2>2. AgentsKnown'
    BY <1>1 DEF Working, AgentsKnown, DaemonType, TickLists, TickFinds, TickRefused,
       Looks
  <2>3. ItemType' /\ LedgerType' /\ LogType' /\ QueueType' /\ ExecsType'
        /\ OutsideType' /\ MergedSeen'
    BY <1>1, Frames DEF TickLists, TickFinds, TickRefused, Looks
  <2> QED BY <2>1, <2>2, <2>3
<1>2. CASE TickSkips
  <2>1. ItemType'
    BY <1>2 DEF Groups, ItemType, TickSkips
  <2>2. DaemonType' /\ AgentsKnown'
    BY <1>2 DEF DaemonType, Working, AgentsKnown, TickSkips
  <2>3. LedgerType' /\ LogType' /\ QueueType' /\ ExecsType' /\ OutsideType' /\ MergedSeen'
    BY <1>2, Frames DEF TickSkips
  <2> QED BY <2>1, <2>2, <2>3
<1>4. CASE Swap
  <2>1. ItemType'
    BY <1>4 DEF Groups, ItemType, Swap, DispatchComment
  <2>2. LogType'
    BY <1>4, Comments DEF Swap
  <2>3. DaemonType'
    BY <1>4 DEF DaemonType, Swap, DispatchComment
  <2>4. AgentsKnown'
    BY <1>4 DEF Working, AgentsKnown, Swap, DispatchComment
  <2>5. LedgerType' /\ QueueType' /\ ExecsType' /\ OutsideType' /\ MergedSeen'
    BY <1>4, Frames DEF Swap
  <2> QED BY <2>1, <2>2, <2>3, <2>4, <2>5
<1>5. ASSUME NEW j \in Jobs, Enqueue(j) PROVE IInv'
  <2>1. QueueType'
    BY <1>5 DEF QueueType, DaemonType, Active, Enqueue, InFlight, Set
  <2>2. DaemonType'
    BY <1>5 DEF DaemonType, Enqueue, InFlight
  <2>3. AgentsKnown'
    BY <1>5 DEF Working, AgentsKnown, QueueType, Enqueue, InFlight, Set
  <2>4. ItemType' /\ LedgerType' /\ LogType' /\ ExecsType' /\ OutsideType'
        /\ MergedSeen'
    BY <1>5, Frames DEF Enqueue
  <2> QED BY <2>1, <2>2, <2>3, <2>4
<1> QED BY <1>1, <1>2, <1>4, <1>5 DEF Tick

\* The liveness sweep and the review sweep: every step keeps the invariant.
LEMMA SweepKeeps ==
  ASSUME IInv, Sweep \/ ReviewSweep
  PROVE  IInv'
<1> USE DEF IInv, TypeOK, item, ledger, log, queue, execs, ticker, daemon, outside, bounds
<1>1. CASE SweepSuspects
  <2>1. DaemonType'
    BY <1>1 DEF DaemonType, LedgerType, SweepSuspects
  <2>2. ItemType' /\ LedgerType' /\ LogType' /\ QueueType' /\ ExecsType'
        /\ OutsideType' /\ AgentsKnown' /\ MergedSeen'
    BY <1>1, Frames DEF SweepSuspects
  <2> QED BY <2>1, <2>2
<1>2. CASE SweepForgets
  <2>1. DaemonType'
    BY <1>2 DEF DaemonType, SweepForgets
  <2>2. ItemType' /\ LedgerType' /\ LogType' /\ QueueType' /\ ExecsType'
        /\ OutsideType' /\ AgentsKnown' /\ MergedSeen'
    BY <1>2, Frames DEF SweepForgets
  <2> QED BY <2>1, <2>2
<1>3. CASE SweepReleases
  <2>1. ItemType'
    <3>1. UNCHANGED prs
      BY <1>3 DEF SweepReleases
    <3>2. group' \in Groups
      BY <1>3 DEF Groups, ItemType, SweepReleases, RestoreItem, LeftAlone, Requeue
    <3>3. assignee' \in Agents \cup {Nobody}
      BY <1>3 DEF Groups, ItemType, SweepReleases, RestoreItem, LeftAlone, Requeue
    <3>4. labels' \subseteq {"ready", "dispatched", "manual", "paused"}
      <4>1. ReArm \/ Park \/ labels' = labels \/ \E a \in Agents : Requeue(a)
        BY <1>3 DEF SweepReleases, RestoreItem, Groups, ItemType, LeftAlone
      <4>2. CASE Park
        BY <1>3, <4>2 DEF Park, Groups, ItemType
      <4>3. ASSUME NEW a \in Agents, Requeue(a) PROVE labels' \subseteq {"ready", "dispatched", "manual", "paused"}
        BY <1>3, <4>3 DEF Requeue, Groups, ItemType
      <4> QED BY <4>1, <4>2, <4>3, ReArmLabels DEF Groups, ItemType
    <3>5. pr' \in 0 .. MaxPr
      BY <1>3, BoundAssumption DEF Groups, ItemType, KeptPr, SweepReleases, RestoreItem,
          LeftAlone, Requeue
    <3> QED BY <3>1, <3>2, <3>3, <3>4, <3>5 DEF Groups, ItemType
  <2>2. LedgerType'
    BY <1>3 DEF LedgerType, SweepReleases, NoClaim, LeftAlone
  <2>3. DaemonType'
    BY <1>3 DEF DaemonType, SweepReleases, LeftAlone
  <2>4. LogType' /\ QueueType' /\ ExecsType' /\ OutsideType' /\ AgentsKnown'
        /\ MergedSeen'
    BY <1>3, Frames DEF SweepReleases
  <2> QED BY <2>1, <2>2, <2>3, <2>4
<1>4. CASE SweepFindsMerged
  <2>1. DaemonType'
    BY <1>4 DEF DaemonType, SweepFindsMerged, Merged, Numbers
  <2>2. MergedSeen'
    BY <1>4 DEF MergedSeen, Merged, SweepFindsMerged
  <2>3. ItemType' /\ LedgerType' /\ LogType' /\ QueueType' /\ ExecsType'
        /\ OutsideType' /\ AgentsKnown'
    BY <1>4, Frames DEF SweepFindsMerged
  <2> QED BY <2>1, <2>2, <2>3
<1>5. CASE Promote
  <2>1. ItemType'
    BY <1>5 DEF Groups, ItemType, Terminal, Promote, Promotable
  <2>2. LedgerType'
    BY <1>5 DEF LedgerType, Promote, Promotable
  <2>3. QueueType'
    BY <1>5 DEF QueueType, Settled, Promote, Promotable, Kill
  <2>4. DaemonType'
    BY <1>5, BoundAssumption DEF DaemonType, Promote, Promotable
  <2>5. AgentsKnown'
    <3>1. UNCHANGED <<tick, pick, boot, payload, at, who, step>>
      BY <1>5 DEF Promote
    <3>2. \A j \in Jobs : row'[j] # "none" <=> row[j] # "none"
      BY <1>5 DEF Promote, Kill, Active
    <3> QED BY <3>1, <3>2 DEF Working, AgentsKnown
  <2>6. MergedSeen'
    BY <1>5 DEF MergedSeen, Merged, Promote, Promotable
  <2>7. LogType' /\ ExecsType' /\ OutsideType'
    BY <1>5, Frames DEF Promote
  <2> QED BY <2>1, <2>2, <2>3, <2>4, <2>5, <2>6, <2>7
<1> QED BY <1>1, <1>2, <1>3, <1>4, <1>5 DEF Sweep, ReviewSweep

\* An executor: every step keeps the invariant.
LEMMA ExecutorKeeps ==
  ASSUME IInv, NEW j \in Jobs, Executor(j)
  PROVE  IInv'
<1> USE DEF IInv, TypeOK, item, ledger, log, queue, execs, ticker, daemon, outside, bounds
<1>1. CASE Dequeue(j)
  <2>1. QueueType'
    BY <1>1 DEF QueueType, Active, Dequeue, Set
  <2>2. ExecsType'
    BY <1>1 DEF ExecsType, Places, Dequeue, Set
  <2>3. AgentsKnown'
    BY <1>1 DEF Working, AgentsKnown, Dequeue, Set
  <2>4. ItemType' /\ LedgerType' /\ LogType' /\ DaemonType' /\ OutsideType'
        /\ MergedSeen'
    BY <1>1, Frames DEF Dequeue
  <2> QED BY <2>1, <2>2, <2>3, <2>4
<1>2. CASE Prepare(j)
  <2>1. ExecsType'
    <3>1. UNCHANGED <<step, seen, before, run, driver>>
      BY <1>2 DEF Prepare
    <3>2. at' \in [Jobs -> Places]
      BY <1>2 DEF ExecsType, Places, Prepare, Set
    <3>3. who' \in [Procs -> Agents \cup {Nobody}]
        BY <1>2 DEF Prepare, ExecsType, Set, QueueType, Groups, ItemType
    <3> QED BY <3>1, <3>2, <3>3 DEF ExecsType
  <2>2. AgentsKnown'
    <3>1. UNCHANGED <<row, payload, tick, pick, boot, step>>
      BY <1>2 DEF Prepare
    <3>2. CASE row[j] = "killed" \/ group \in Terminal
      <4>1. who' = who /\ at' = Set(at, j, "fatal") /\ at[j] = "taken"
        BY <1>2, <3>2 DEF Prepare
      <4> QED BY <3>1, <4>1 DEF Working, AgentsKnown, ExecsType, Set
    <3>3. CASE ~(row[j] = "killed" \/ group \in Terminal)
      <4> DEFINE agent == IF assignee = Nobody THEN payload[j] ELSE assignee
      <4>1. at' = Set(at, j, "ready") /\ at[j] = "taken"
        BY <1>2, <3>3 DEF Prepare
      <4>2. who' = Set(who, j, agent)
        BY <1>2, <3>3 DEF Prepare
      <4>3. agent \in Agents
        BY <1>2, <4>1 DEF Groups, ItemType, Working, AgentsKnown
      <4>4. \A i \in Procs : i # j => who'[i] = who[i]
        BY <1>2, <4>2 DEF Set
      <4>5. who'[j] \in Agents
        BY <1>2, <4>2, <4>3, Names DEF ExecsType, Set
      <4>6. \A i \in Jobs : i # j => at'[i] = at[i]
        BY <1>2, <4>1 DEF Set
      <4> HIDE DEF agent
      <4> QED BY <3>1, <4>1, <4>4, <4>5, <4>6, Names DEF Working, AgentsKnown
    <3> QED BY <3>2, <3>3
  <2>3. ItemType' /\ LedgerType' /\ LogType' /\ QueueType' /\ DaemonType'
        /\ OutsideType' /\ MergedSeen'
    BY <1>2, Frames DEF Prepare
  <2> QED BY <2>1, <2>2, <2>3
<1>3. CASE JobClaims(j)
  <2>1. ItemType'
    <3>1. UNCHANGED <<labels, pr, prs>>
      BY <1>3 DEF JobClaims
    <3>2. group' \in Groups
      BY <1>3 DEF Groups, ItemType, JobClaims, Claim
    <3>3. assignee' \in Agents \cup {Nobody}
      BY <1>3, Names DEF Groups, ItemType, ExecsType, JobClaims, Claim
    <3> QED BY <3>1, <3>2, <3>3 DEF Groups, ItemType
  <2>2. LedgerType'
    BY <1>3, Names DEF LedgerType, Working, AgentsKnown, JobClaims, Claim, Me, Acquire
  <2>3. ExecsType'
    <3>1. UNCHANGED <<who, step, seen, run, driver>>
      BY <1>3 DEF JobClaims
    <3>2. at' \in [Jobs -> Places]
      BY <1>3 DEF ExecsType, Places, JobClaims, Set
    <3>3. Found(j) \in [by : Owners, group : Groups, assignee : Agents \cup {Nobody}]
      BY <1>3, Names DEF JobClaims, Found, Me, ItemType, AgentsKnown, Working
    <3>4. before' \subseteq before \cup {Found(j)}
      BY <1>3 DEF JobClaims, Others
    <3> HIDE DEF IInv
    <3>5. before' \subseteq [by : Owners, group : Groups, assignee : Agents \cup {Nobody}]
      BY <3>3, <3>4 DEF IInv, TypeOK, ExecsType
    <3> QED BY <3>1, <3>2, <3>5 DEF IInv, TypeOK, ExecsType
  <2>4. AgentsKnown'
    BY <1>3 DEF Working, AgentsKnown, ExecsType, JobClaims, Set
  <2>5. LogType' /\ QueueType' /\ DaemonType' /\ OutsideType' /\ MergedSeen'
    BY <1>3, Frames DEF JobClaims
  <2> QED BY <2>1, <2>2, <2>3, <2>4, <2>5
<1>4. CASE SetUpFails(j)
  <2>1. ExecsType'
    BY <1>4 DEF ExecsType, Places, SetUpFails, Others, Set
  <2>2. AgentsKnown'
    BY <1>4 DEF Working, AgentsKnown, SetUpFails, Set
  <2>3. ItemType' /\ LedgerType' /\ LogType' /\ QueueType' /\ DaemonType'
        /\ OutsideType' /\ MergedSeen'
    BY <1>4, Frames DEF SetUpFails
  <2> QED BY <2>1, <2>2, <2>3
<1>5. CASE AttachRun(j)
  <2>1. ExecsType'
    <3>1. UNCHANGED <<who, seen>>
      BY <1>5 DEF AttachRun
    <3>2. at' \in [Jobs -> Places]
      BY <1>5 DEF ExecsType, Places, AttachRun, Verdict
    <3>3. step' \in [Procs -> Steps]
      BY <1>5 DEF ExecsType, Steps, AttachRun, Set
    <3>4. run' \in {"none", "running", "paused", "cancelled", "completed", "failed"}
      BY <1>5 DEF AttachRun
    <3>5. driver' \in 0 .. MaxJobs
      BY <1>5, Names DEF ExecsType, AttachRun
    <3>6. before' \subseteq before
      BY <1>5 DEF AttachRun, Others
    <3> QED BY <3>1, <3>2, <3>3, <3>4, <3>5, <3>6 DEF ExecsType
  <2>2. AgentsKnown'
    <3>1. UNCHANGED <<row, payload, tick, pick, boot, who>> /\ at[j] = "claimed"
        BY <1>5 DEF AttachRun
    <3>2. \A i \in Jobs : at'[i] # "idle" => at[i] # "idle"
      BY <1>5, <3>1 DEF AttachRun, Waiting
    <3>3. \A i \in Jobs : at'[i] \in Working => at[i] \in Working
      BY <1>5, <3>1 DEF AttachRun, Waiting, Working
    <3>7. who[j] \in Agents
      BY <3>1 DEF AgentsKnown, Working
    <3>4. CASE run \in {"running", "paused"} /\ Driven /\ step[driver] = "agent"
      <4>1. step' = [step EXCEPT ![driver] = "idle", ![j] = "agent"]
        BY <1>5, <3>4 DEF AttachRun
      <4> QED BY <3>1, <3>2, <3>3, <4>1, Names, <3>7 DEF AgentsKnown, ExecsType
    <3>5. CASE run \in {"running", "paused"} /\ Driven /\ step[driver] # "agent"
      <4>1. step' = step
        BY <1>5, <3>5 DEF AttachRun
      <4> QED BY <3>1, <3>2, <3>3, <4>1, Names, <3>7 DEF AgentsKnown, ExecsType
    <3>6. CASE ~(run \in {"running", "paused"} /\ Driven)
      <4>1. step' = Set(step, j, "agent")
        BY <1>5, <3>6 DEF AttachRun
      <4> QED BY <3>1, <3>2, <3>3, <4>1, Names, <3>7 DEF AgentsKnown, ExecsType, Set
    <3> QED BY <3>4, <3>5, <3>6
  <2>3. MergedSeen'
    <3>1. \A q \in Procs : step'[q] = "merged" => step[q] = "merged"
      BY <1>5 DEF ExecsType, AttachRun, Set
    <3>2. UNCHANGED <<watch, prs>>
      BY <1>5 DEF AttachRun
    <3> QED BY <3>1, <3>2, SeenStays DEF Merged
  <2>4. ItemType' /\ LedgerType' /\ LogType' /\ QueueType' /\ DaemonType'
        /\ OutsideType'
    BY <1>5, Frames DEF AttachRun
  <2> QED BY <2>1, <2>2, <2>3, <2>4
<1>6. CASE WaiterSeesEnd(j)
  <2>1. ExecsType'
    <3>1. UNCHANGED <<who, step, seen, before, run, driver>>
      BY <1>6 DEF WaiterSeesEnd, Goes
    <3>2. at' \in [Jobs -> Places]
      BY <1>6 DEF ExecsType, Places, WaiterSeesEnd, Goes, Verdict, Set
    <3> QED BY <3>1, <3>2 DEF ExecsType
  <2>2. AgentsKnown'
    BY <1>6 DEF Working, AgentsKnown, ExecsType, WaiterSeesEnd, Waiting, Goes, Set
  <2>3. ItemType' /\ LedgerType' /\ LogType' /\ QueueType' /\ DaemonType'
        /\ OutsideType' /\ MergedSeen'
    BY <1>6, Frames DEF WaiterSeesEnd, Goes
  <2> QED BY <2>1, <2>2, <2>3
<1>7. CASE WaiterSeesJobCancelled(j)
  <2>1. ExecsType'
    BY <1>7 DEF ExecsType, Places, WaiterSeesJobCancelled, Goes, Set
  <2>2. AgentsKnown'
    BY <1>7 DEF Working, AgentsKnown, WaiterSeesJobCancelled, Goes, Set
  <2>3. ItemType' /\ LedgerType' /\ LogType' /\ QueueType' /\ DaemonType'
        /\ OutsideType' /\ MergedSeen'
    BY <1>7, Frames DEF WaiterSeesJobCancelled, Goes
  <2> QED BY <2>1, <2>2, <2>3
<1>8. CASE WaiterLosesClaim(j)
  <2>1. ExecsType'
    BY <1>8 DEF ExecsType, Places, WaiterLosesClaim, Goes, Set
  <2>2. AgentsKnown'
    BY <1>8 DEF Working, AgentsKnown, WaiterLosesClaim, Waiting, Goes, Set
  <2>3. ItemType' /\ LedgerType' /\ LogType' /\ QueueType' /\ DaemonType'
        /\ OutsideType' /\ MergedSeen'
    BY <1>8, Frames DEF WaiterLosesClaim, Goes
  <2> QED BY <2>1, <2>2, <2>3
<1>9. CASE TakesOver(j)
  <2>1. ExecsType'
    BY <1>9, Names DEF ExecsType, Steps, TakesOver, Set
  <2>2. AgentsKnown'
    BY <1>9 DEF Working, AgentsKnown, TakesOver, Waiting, Set
  <2>3. MergedSeen'
    BY <1>9 DEF MergedSeen, Merged, TakesOver, Set
  <2>4. ItemType' /\ LedgerType' /\ LogType' /\ QueueType' /\ DaemonType'
        /\ OutsideType'
    BY <1>9, Frames DEF TakesOver
  <2> QED BY <2>1, <2>2, <2>3, <2>4
<1>10. CASE Drop(j)
  <2>1. LedgerType'
    BY <1>10, Names, Releases DEF Drop, Me, AgentsKnown, Working
  <2>2. ExecsType'
    BY <1>10 DEF ExecsType, Places, Drop, Set
  <2>3. AgentsKnown'
    BY <1>10 DEF Working, AgentsKnown, Drop, Set
  <2>4. ItemType' /\ LogType' /\ QueueType' /\ DaemonType' /\ OutsideType' /\ MergedSeen'
    BY <1>10, Frames DEF Drop
  <2> QED BY <2>1, <2>2, <2>3, <2>4
<1>14. CASE DropEnds(j)
  <2>1. ItemType'
    BY <1>14 DEF Groups, ItemType, DropEnds, GiveUp
  <2>2. LedgerType'
    BY <1>14, Names, Releases DEF DropEnds, Me, AgentsKnown, Working
  <2>3. LogType'
    BY <1>14, Comments DEF DropEnds
  <2>4. ExecsType'
    BY <1>14 DEF ExecsType, Places, DropEnds, Set
  <2>5. AgentsKnown'
    BY <1>14 DEF Working, AgentsKnown, DropEnds, Set
  <2>6. QueueType' /\ DaemonType' /\ OutsideType' /\ MergedSeen'
    BY <1>14, Frames DEF DropEnds
  <2> QED BY <2>1, <2>2, <2>3, <2>4, <2>5, <2>6
<1>15. CASE RollBack(j)
  <2>1. ItemType'
    <3>1. UNCHANGED <<labels, pr, prs>>
      BY <1>15 DEF RollBack
    <3>2. group' \in Groups /\ assignee' \in Agents \cup {Nobody}
      BY <1>15 DEF Groups, ItemType, ExecsType, RollBack
    <3> QED BY <3>1, <3>2 DEF ItemType
  <2>2. LedgerType'
    BY <1>15, Names, Releases DEF RollBack, Me, AgentsKnown, Working
  <2>3. ExecsType'
    BY <1>15 DEF ExecsType, Places, RollBack, Others, Set
  <2>4. AgentsKnown'
    BY <1>15 DEF Working, AgentsKnown, RollBack, Set
  <2>5. LogType' /\ QueueType' /\ DaemonType' /\ OutsideType' /\ MergedSeen'
    BY <1>15, Frames DEF RollBack
  <2> QED BY <2>1, <2>2, <2>3, <2>4, <2>5
<1>11. CASE StopOnRequest(j)
  <2>1. LedgerType'
    BY <1>11 DEF LedgerType, StopOnRequest, LedgerRelease, StoppedComment, NoClaim
  <2>2. LogType'
    BY <1>11, Comments DEF StopOnRequest
  <2>3. ExecsType'
    BY <1>11 DEF ExecsType, Places, StopOnRequest, StoppedComment, Set
  <2>4. AgentsKnown'
    BY <1>11 DEF Working, AgentsKnown, StopOnRequest, StoppedComment, Set
  <2>5. ItemType' /\ QueueType' /\ DaemonType' /\ OutsideType' /\ MergedSeen'
    BY <1>11, Frames DEF StopOnRequest, StoppedComment
  <2> QED BY <2>1, <2>2, <2>3, <2>4, <2>5
<1>12. CASE Report(j)
  <2>1. QueueType'
    BY <1>12, BoundAssumption DEF QueueType, Active, Settled, Report, Set
  <2>2. ExecsType'
    BY <1>12 DEF ExecsType, Places, Report, Set
  <2>3. DaemonType'
    BY <1>12 DEF DaemonType, Report
  <2>4. AgentsKnown'
    BY <1>12 DEF Working, AgentsKnown, QueueType, Report, Set
  <2>5. ItemType' /\ LedgerType' /\ LogType' /\ OutsideType' /\ MergedSeen'
    BY <1>12, Frames DEF Report
  <2> QED BY <2>1, <2>2, <2>3, <2>4, <2>5
<1>13. CASE FailureHook(j)
  <2>1. ItemType'
    <3>1. UNCHANGED <<pr, prs>>
      BY <1>13 DEF FailureHook
    <3>2. group' \in Groups
      BY <1>13 DEF Groups, ItemType, FailureHook
    <3>3. assignee' \in Agents \cup {Nobody}
      BY <1>13 DEF Groups, ItemType, QueueType, FailureHook, Restored
    <3>4. labels' \subseteq {"ready", "dispatched", "manual", "paused"}
      <4>1. labels' = labels \/ ReArm \/ labels' = labels \ {"dispatched"}
        BY <1>13 DEF FailureHook
      <4> QED BY <4>1, ReArmLabels DEF Groups, ItemType
    <3> QED BY <3>1, <3>2, <3>3, <3>4 DEF Groups, ItemType
  <2>2. LogType'
    BY <1>13, Comments DEF FailureHook
  <2>3. DaemonType'
    BY <1>13 DEF DaemonType, FailureHook
  <2>4. LedgerType' /\ QueueType' /\ ExecsType' /\ OutsideType' /\ AgentsKnown'
        /\ MergedSeen'
    BY <1>13, Frames DEF FailureHook
  <2> QED BY <2>1, <2>2, <2>3, <2>4
<1> QED BY <1>1, <1>2, <1>3, <1>4, <1>5, <1>6, <1>7, <1>8, <1>9, <1>10, <1>11,
    <1>12, <1>13, <1>14, <1>15 DEF Executor

\* A run's driver: every step keeps the invariant.
LEMMA FinalizerKeeps ==
  ASSUME IInv, NEW j \in Jobs, Finalizer(j)
  PROVE  IInv'
<1> USE DEF IInv, TypeOK, item, ledger, log, queue, execs, ticker, daemon, outside, bounds
<1>1. CASE AgentEnds(j)
  <2>1. ExecsType'
    <3>1. UNCHANGED <<at, who, seen, before, driver>>
      BY <1>1 DEF AgentEnds, StepGoes
    <3>2. step' \in [Procs -> Steps]
      BY <1>1 DEF ExecsType, Steps, AgentEnds, StepGoes, Set
    <3>3. run' \in {"none", "running", "paused", "cancelled", "completed", "failed"}
      BY <1>1 DEF ExecsType, AgentEnds, RunEnds
    <3> QED BY <3>1, <3>2, <3>3 DEF ExecsType
  <2>2. AgentsKnown'
    BY <1>1 DEF Working, AgentsKnown, ExecsType, AgentEnds, StepGoes, Set
  <2>3. MergedSeen'
    BY <1>1 DEF MergedSeen, ExecsType, Merged, AgentEnds, StepGoes, Set
  <2>4. ItemType' /\ LedgerType' /\ LogType' /\ QueueType' /\ DaemonType'
        /\ OutsideType'
    BY <1>1, Frames DEF AgentEnds, StepGoes
  <2> QED BY <2>1, <2>2, <2>3, <2>4
<1>2. CASE Finalize(j)
  <2>1. ExecsType'
    BY <1>2 DEF ExecsType, Steps, Finalize, StepGoes, Set
  <2>2. AgentsKnown'
    BY <1>2 DEF Working, AgentsKnown, Finalize, StepGoes, Set
  <2>3. MergedSeen'
    BY <1>2 DEF MergedSeen, Merged, Finalize, StepGoes, Set
  <2>4. ItemType' /\ LedgerType' /\ LogType' /\ QueueType' /\ DaemonType'
        /\ OutsideType'
    BY <1>2, Frames DEF Finalize, StepGoes
  <2> QED BY <2>1, <2>2, <2>3, <2>4
<1>3. CASE FinalizeReleases(j)
  <2>1. LedgerType'
    BY <1>3, Names, Releases DEF FinalizeReleases, Me, AgentsKnown
  <2>2. ExecsType'
    BY <1>3 DEF ExecsType, Steps, FinalizeReleases, StepGoes, Set
  <2>3. AgentsKnown'
    BY <1>3 DEF Working, AgentsKnown, FinalizeReleases, StepGoes, Set
  <2>4. MergedSeen'
    BY <1>3 DEF MergedSeen, Merged, FinalizeReleases, StepGoes, Set
  <2>5. ItemType' /\ LogType' /\ QueueType' /\ DaemonType' /\ OutsideType'
    BY <1>3, Frames DEF FinalizeReleases, StepGoes
  <2> QED BY <2>1, <2>2, <2>3, <2>4, <2>5
<1>8. CASE FinalizeGives(j)
  <2>1. ItemType'
    BY <1>8 DEF Groups, ItemType, FinalizeGives, StepGoes, GiveUp
  <2>2. LedgerType'
    BY <1>8, Names, Releases DEF FinalizeGives, Me, AgentsKnown
  <2>3. ExecsType'
    BY <1>8 DEF ExecsType, Steps, FinalizeGives, StepGoes, Set
  <2>4. AgentsKnown'
    BY <1>8 DEF Working, AgentsKnown, FinalizeGives, StepGoes, Set
  <2>5. MergedSeen'
    BY <1>8 DEF MergedSeen, Merged, FinalizeGives, StepGoes, Set
  <2>6. LogType' /\ QueueType' /\ DaemonType' /\ OutsideType'
    BY <1>8, Frames DEF FinalizeGives, StepGoes
  <2> QED BY <2>1, <2>2, <2>3, <2>4, <2>5, <2>6
<1>6. CASE FinalizeEnds(j)
  <2>3. LogType'
    BY <1>6, Comments DEF FinalizeEnds
  <2>4. ExecsType'
    BY <1>6 DEF ExecsType, Steps, FinalizeEnds, StepGoes, SuccessComment, RunEnds, Set
  <2>5. AgentsKnown'
    BY <1>6 DEF Working, AgentsKnown, FinalizeEnds, StepGoes, SuccessComment, Set
  <2>6. MergedSeen'
    BY <1>6 DEF MergedSeen, Merged, FinalizeEnds, StepGoes, SuccessComment, Set
  <2>7. ItemType' /\ LedgerType' /\ QueueType' /\ DaemonType' /\ OutsideType'
    BY <1>6, Frames DEF FinalizeEnds, StepGoes
  <2> QED BY <2>3, <2>4, <2>5, <2>6, <2>7
<1>4. CASE FinalizeRetries(j)
  <2>1. ExecsType'
    BY <1>4 DEF ExecsType, Steps, FinalizeRetries, StepGoes, Set
  <2>2. AgentsKnown'
    BY <1>4 DEF Working, AgentsKnown, FinalizeRetries, StepGoes, Set
  <2>3. MergedSeen'
    BY <1>4 DEF MergedSeen, Merged, FinalizeRetries, StepGoes, Set
  <2>4. ItemType' /\ LedgerType' /\ LogType' /\ QueueType' /\ DaemonType'
        /\ OutsideType'
    BY <1>4, Frames DEF FinalizeRetries, StepGoes
  <2> QED BY <2>1, <2>2, <2>3, <2>4
<1>5. CASE FinalizeFails(j)
  <2>1. ExecsType'
    BY <1>5 DEF ExecsType, Steps, FinalizeFails, StepGoes, RunEnds, Set
  <2>2. AgentsKnown'
    BY <1>5 DEF Working, AgentsKnown, FinalizeFails, StepGoes, Set
  <2>3. MergedSeen'
    BY <1>5 DEF MergedSeen, Merged, FinalizeFails, StepGoes, Set
  <2>4. ItemType' /\ LedgerType' /\ LogType' /\ QueueType' /\ DaemonType'
        /\ OutsideType'
    BY <1>5, Frames DEF FinalizeFails, StepGoes
  <2> QED BY <2>1, <2>2, <2>3, <2>4
<1> QED BY <1>1, <1>2, <1>3, <1>4, <1>5, <1>6, <1>8 DEF Finalizer

\* item_done, and the claim's heartbeat: every step keeps the invariant.
LEMMA DoneKeeps ==
  ASSUME IInv, NEW p \in Procs, Done(p) \/ Heartbeat(p)
  PROVE  IInv'
<1> USE DEF IInv, TypeOK, item, ledger, log, queue, execs, ticker, daemon, outside, bounds
<1>1. CASE DoneBegins(p) \/ DoneSteals(p)
  <2>1. LedgerType'
    <3>1. Me(p) \in Owners
      BY <1>1, Names DEF AgentsKnown, Me, DoneBegins, DoneSteals
    <3> QED BY <1>1, <3>1, Releases DEF DoneBegins, DoneSteals, Publishes
  <2>2. ExecsType'
    <3>1. UNCHANGED <<at, who, before, run, driver>>
      BY <1>1 DEF DoneBegins, DoneSteals, Publishes, StepGoes
    <3>2. step' \in [Procs -> Steps]
      BY <1>1 DEF ExecsType, Steps, DoneBegins, DoneSteals, Publishes, StepGoes, Set
    <3>3. seen' \in [Procs -> 0 .. MaxPr]
      <4>1. UNCHANGED seen \/ \E n \in 0 .. MaxPr : seen' = Set(seen, p, n)
        BY <1>1 DEF DoneBegins, DoneSteals, Publishes
      <4> QED BY <4>1 DEF ExecsType, Set
    <3> QED BY <3>1, <3>2, <3>3 DEF ExecsType
  <2>3. AgentsKnown'
    BY <1>1 DEF Working, AgentsKnown, ExecsType, DoneBegins, DoneSteals, Publishes,
       StepGoes, Set
  <2>4. MergedSeen'
    <3>1. \A q \in Procs : step'[q] = "merged" => step[q] = "merged"
      BY <1>1 DEF ExecsType, DoneBegins, DoneSteals, Publishes, StepGoes, Set
    <3>2. UNCHANGED <<watch, prs>>
      BY <1>1 DEF DoneBegins, DoneSteals, Publishes, StepGoes
    <3> QED BY <3>1, <3>2, SeenStays DEF Merged
  <2>5. ItemType' /\ LogType' /\ QueueType' /\ DaemonType' /\ OutsideType'
    BY <1>1, Frames DEF DoneBegins, DoneSteals, Publishes, StepGoes
  <2> QED BY <2>1, <2>2, <2>3, <2>4, <2>5
<1>2. CASE SeesMerged(p)
  <2>1. ExecsType'
    BY <1>2, BoundAssumption DEF ExecsType, Steps, SeesMerged, StepGoes, Set
  <2>2. AgentsKnown'
    BY <1>2 DEF Working, AgentsKnown, SeesMerged, StepGoes, Set
  <2>3. MergedSeen'
    BY <1>2 DEF MergedSeen, Merged, SeesMerged, StepGoes
  <2>4. ItemType' /\ LedgerType' /\ LogType' /\ QueueType' /\ DaemonType'
        /\ OutsideType'
    BY <1>2, Frames DEF SeesMerged, StepGoes
  <2> QED BY <2>1, <2>2, <2>3, <2>4
<1>3. CASE MarkCompleted(p)
  <2>1. ItemType'
    <3>1. UNCHANGED <<assignee, labels, pr, prs>>
      BY <1>3 DEF MarkCompleted, StepGoes
    <3>2. group' \in Groups
      BY <1>3 DEF Groups, ItemType, Terminal, MarkCompleted
    <3> QED BY <3>1, <3>2 DEF Groups, ItemType
  <2>2. ExecsType'
    <3>1. UNCHANGED <<at, who, seen, before, run, driver>>
      BY <1>3 DEF MarkCompleted, StepGoes
    <3>2. step' \in [Procs -> Steps]
      BY <1>3 DEF ExecsType, Steps, MarkCompleted, StepGoes, Set
    <3> QED BY <3>1, <3>2 DEF ExecsType
  <2>3. AgentsKnown'
    BY <1>3 DEF Working, AgentsKnown, ExecsType, MarkCompleted, StepGoes, Set
  <2>4. MergedSeen'
    BY <1>3 DEF MergedSeen, Merged, MarkCompleted, StepGoes
  <2>5. LedgerType' /\ LogType' /\ QueueType' /\ DaemonType' /\ OutsideType'
    BY <1>3, Frames DEF MarkCompleted, StepGoes
  <2> QED BY <2>1, <2>2, <2>3, <2>4, <2>5
<1>4. CASE Push(p)
  <2>1. ItemType'
    BY <1>4 DEF Groups, ItemType, Push, Set, Numbers
  <2>2. ExecsType'
    BY <1>4, BoundAssumption DEF ExecsType, Steps, Push, Set
  <2>3. AgentsKnown'
    BY <1>4 DEF Working, AgentsKnown, Push, Set
  <2>4. MergedSeen'
    <3>1. \A q \in Procs : step'[q] = "merged" => step[q] = "merged"
      BY <1>4 DEF Push, Set
    <3>2. UNCHANGED watch
      BY <1>4 DEF Push
    <3>3. PICK n \in Numbers : IF \E k \in Numbers : prs[k] = "open" THEN prs[n] = "open" /\ UNCHANGED prs
                    ELSE Opened = 1 .. (n - 1) /\ prs' = Set(prs, n, "open")
      BY <1>4 DEF Push
    <3>4. n \notin Opened \/ prs' = prs
      BY <1>4, <3>3 DEF Numbers
    <3>5. \A k \in Numbers : Merged(k) => Merged(k)'
      BY <1>4, <3>3, <3>4 DEF Groups, ItemType, Merged, Numbers, Opened, Set
    <3> QED BY <3>1, <3>2, <3>5, SeenStays
  <2>5. LedgerType' /\ LogType' /\ QueueType' /\ DaemonType' /\ OutsideType'
    BY <1>4, Frames DEF Push
  <2> QED BY <2>1, <2>2, <2>3, <2>4, <2>5
<1>5. CASE PushFails(p)
  <2>1. ExecsType'
    BY <1>5, BoundAssumption DEF ExecsType, Steps, PushFails, StepGoes, Set
  <2>2. AgentsKnown'
    BY <1>5 DEF Working, AgentsKnown, PushFails, StepGoes, Set
  <2>3. MergedSeen'
    BY <1>5 DEF MergedSeen, Merged, PushFails, StepGoes, Set
  <2>4. ItemType' /\ LedgerType' /\ LogType' /\ QueueType' /\ DaemonType'
        /\ OutsideType'
    BY <1>5, Frames DEF PushFails, StepGoes
  <2> QED BY <2>1, <2>2, <2>3, <2>4
<1>6. CASE NothingDone(p)
  <2>1. LedgerType'
    BY <1>6 DEF LedgerType, NothingDone, Owns
  <2>2. ExecsType'
    BY <1>6, BoundAssumption DEF ExecsType, Steps, NothingDone, StepGoes, Set
  <2>3. AgentsKnown'
    BY <1>6 DEF Working, AgentsKnown, NothingDone, StepGoes, Set
  <2>4. MergedSeen'
    BY <1>6 DEF MergedSeen, Merged, NothingDone, StepGoes, Set
  <2>5. ItemType' /\ LogType' /\ QueueType' /\ DaemonType' /\ OutsideType'
    BY <1>6, Frames DEF NothingDone, StepGoes
  <2> QED BY <2>1, <2>2, <2>3, <2>4, <2>5
<1>7. CASE MarkInReview(p)
  <2>1. ItemType'
    <3>1. UNCHANGED <<assignee, labels, pr, prs>>
      BY <1>7 DEF MarkInReview, StepGoes
    <3>2. group' \in Groups
      BY <1>7 DEF Groups, ItemType, MarkInReview
    <3> QED BY <3>1, <3>2 DEF Groups, ItemType
  <2>2. ExecsType'
    <3>1. UNCHANGED <<at, who, seen, before, run, driver>>
      BY <1>7 DEF MarkInReview, StepGoes
    <3>2. step' \in [Procs -> Steps]
      BY <1>7 DEF ExecsType, Steps, MarkInReview, StepGoes, Set
    <3> QED BY <3>1, <3>2 DEF ExecsType
  <2>3. AgentsKnown'
    BY <1>7 DEF Working, AgentsKnown, ExecsType, MarkInReview, StepGoes, Set
  <2>4. MergedSeen'
    <3>1. \A q \in Procs : step'[q] = "merged" => step[q] = "merged"
      BY <1>7 DEF ExecsType, MarkInReview, StepGoes, Set
    <3>2. UNCHANGED <<watch, prs>>
      BY <1>7 DEF MarkInReview, StepGoes
    <3> QED BY <3>1, <3>2, SeenStays DEF Merged
  <2>5. LedgerType' /\ LogType' /\ QueueType' /\ DaemonType' /\ OutsideType'
    BY <1>7, Frames DEF MarkInReview, StepGoes
  <2> QED BY <2>1, <2>2, <2>3, <2>4, <2>5
<1>9. CASE DoneCloses(p)
  <2>1. LedgerType'
    BY <1>9, Names DEF LedgerType, DoneCloses, Me, AgentsKnown
  <2>2. ExecsType'
    BY <1>9 DEF ExecsType, Steps, DoneCloses, StepGoes, Set
  <2>3. AgentsKnown'
    BY <1>9 DEF Working, AgentsKnown, DoneCloses, StepGoes, Set
  <2>4. MergedSeen'
    BY <1>9 DEF MergedSeen, Merged, DoneCloses, StepGoes, Set
  <2>5. ItemType' /\ LogType' /\ QueueType' /\ DaemonType' /\ OutsideType'
    BY <1>9, Frames DEF DoneCloses, StepGoes
  <2> QED BY <2>1, <2>2, <2>3, <2>4, <2>5
<1>8. CASE Heartbeat(p)
  <2>1. LedgerType'
    BY <1>8 DEF LedgerType, Heartbeat
  <2>2. ItemType' /\ LogType' /\ QueueType' /\ ExecsType' /\ DaemonType'
        /\ OutsideType' /\ AgentsKnown' /\ MergedSeen'
    BY <1>8, Frames DEF Heartbeat
  <2> QED BY <2>1, <2>2
<1> QED BY <1>1, <1>2, <1>3, <1>4, <1>5, <1>6, <1>7, <1>8, <1>9 DEF Done

\* A session: every step keeps the invariant.
LEMMA SessionKeeps ==
  ASSUME IInv, NEW s \in Sessions, Session(s)
  PROVE  IInv'
<1> USE DEF IInv, TypeOK, item, ledger, log, queue, execs, ticker, daemon, outside, bounds
<1>1. CASE SessionClaims(s)
  <2>1. ItemType'
    BY <1>1, Names DEF Groups, ItemType, ExecsType, SessionClaims, Claim
  <2>2. LedgerType'
    BY <1>1, Names DEF LedgerType, Working, AgentsKnown, SessionClaims, Claim, Me, Acquire
  <2>3. OutsideType'
    BY <1>1, BoundAssumption DEF OutsideType, SessionClaims, Call
  <2>4. LogType' /\ QueueType' /\ ExecsType' /\ DaemonType' /\ AgentsKnown'
        /\ MergedSeen'
    BY <1>1, Frames DEF SessionClaims
  <2> QED BY <2>1, <2>2, <2>3, <2>4
<1>2. CASE SessionReleases(s)
  <2>1. LedgerType'
    BY <1>2, Names, Releases DEF SessionReleases, Me, AgentsKnown
  <2>2. ExecsType'
    BY <1>2, Names DEF ExecsType, Steps, SessionReleases, Set
  <2>3. OutsideType'
    BY <1>2, BoundAssumption DEF OutsideType, SessionReleases, Follows, Call
  <2>4. AgentsKnown' /\ MergedSeen'
    BY <1>2, Names DEF Working, AgentsKnown, MergedSeen, Merged, SessionReleases, Set
  <2>5. ItemType' /\ LogType' /\ QueueType' /\ DaemonType'
    BY <1>2, Frames DEF SessionReleases
  <2> QED BY <2>1, <2>2, <2>3, <2>4, <2>5
<1>6. CASE SessionGives(s)
  <2>1. ItemType'
    BY <1>6 DEF Groups, ItemType, SessionGives, StepGoes, GiveUp
  <2>2. LedgerType'
    BY <1>6, Names, Releases DEF SessionGives, Me, AgentsKnown
  <2>3. ExecsType'
    BY <1>6, Names DEF ExecsType, Steps, SessionGives, StepGoes, Set
  <2>4. AgentsKnown' /\ MergedSeen'
    BY <1>6, Names DEF Working, AgentsKnown, MergedSeen, Merged, SessionGives, StepGoes, Set
  <2>5. LogType' /\ QueueType' /\ DaemonType' /\ OutsideType'
    BY <1>6, Frames DEF SessionGives, StepGoes
  <2> QED BY <2>1, <2>2, <2>3, <2>4, <2>5
<1>3. CASE SessionCallsDone(s)
  <2>1. ExecsType'
    BY <1>3 DEF ExecsType, Steps, SessionCallsDone, Set
  <2>2. OutsideType'
    BY <1>3, BoundAssumption DEF OutsideType, SessionCallsDone, Follows, Call
  <2>3. AgentsKnown'
    BY <1>3 DEF Working, AgentsKnown, SessionCallsDone, Set
  <2>4. MergedSeen'
    BY <1>3 DEF MergedSeen, Merged, SessionCallsDone, Set
  <2>5. ItemType' /\ LedgerType' /\ LogType' /\ QueueType' /\ DaemonType'
    BY <1>3, Frames DEF SessionCallsDone
  <2> QED BY <2>1, <2>2, <2>3, <2>4, <2>5
<1>4. CASE SessionReturns(s)
  <2>2. ExecsType'
    BY <1>4 DEF ExecsType, Steps, SessionReturns, StepGoes, Set
  <2>3. AgentsKnown'
    BY <1>4 DEF Working, AgentsKnown, SessionReturns, StepGoes, Set
  <2>4. MergedSeen'
    BY <1>4 DEF MergedSeen, Merged, SessionReturns, StepGoes, Set
  <2>5. ItemType' /\ LedgerType' /\ LogType' /\ QueueType' /\ DaemonType' /\ OutsideType'
    BY <1>4, Frames DEF SessionReturns, StepGoes
  <2> QED BY <2>2, <2>3, <2>4, <2>5
<1>5. CASE SessionExits(s)
  <2>1. ExecsType'
    BY <1>5, Names, BoundAssumption DEF ExecsType, Steps, SessionExits, Set
  <2>2. OutsideType'
    BY <1>5, BoundAssumption DEF OutsideType, SessionExits, Fault
  <2>3. AgentsKnown'
    BY <1>5 DEF Working, AgentsKnown, SessionExits, Set
  <2>4. MergedSeen'
    BY <1>5 DEF MergedSeen, Merged, SessionExits, Set
  <2>5. ItemType' /\ LedgerType' /\ LogType' /\ QueueType' /\ DaemonType'
    BY <1>5, Frames DEF SessionExits
  <2> QED BY <2>1, <2>2, <2>3, <2>4, <2>5
<1> QED BY <1>1, <1>2, <1>3, <1>4, <1>5, <1>6 DEF Session

\* An operator: every step keeps the invariant.
LEMMA CallKeeps ==
  ASSUME IInv, Operator
  PROVE  IInv'
<1> USE DEF IInv, TypeOK, item, ledger, log, queue, execs, ticker, daemon, outside, bounds
<1>1. ASSUME NEW a \in Agents, Redispatch(a) PROVE IInv'
  <2>1. ItemType'
    BY <1>1, BoundAssumption DEF Groups, ItemType, Redispatch, Requeue, KeptPr
  <2>2. OutsideType'
    BY <1>1, BoundAssumption DEF OutsideType, Redispatch, Call, Stop
  <2>3. LedgerType' /\ LogType' /\ QueueType' /\ ExecsType' /\ DaemonType' /\ AgentsKnown'
        /\ MergedSeen'
    BY <1>1, Frames DEF Redispatch
  <2> QED BY <2>1, <2>2, <2>3
<1>13. CASE HandJobs
  <2>1. QueueType'
    BY <1>13 DEF QueueType, Settled, HandJobs, Kill
  <2>2. OutsideType'
    BY <1>13 DEF OutsideType, HandJobs, Stop
  <2>3. AgentsKnown'
    BY <1>13 DEF Working, AgentsKnown, Active, HandJobs, Kill
  <2>4. ItemType' /\ LedgerType' /\ LogType' /\ ExecsType' /\ DaemonType' /\ MergedSeen'
    BY <1>13, Frames DEF HandJobs
  <2> QED BY <2>1, <2>2, <2>3, <2>4
<1>14. CASE HandClaim
  <2>1. LedgerType'
    BY <1>14 DEF LedgerType, HandClaim, TakeFromOthers, NoClaim
  <2>2. OutsideType'
    BY <1>14 DEF OutsideType, HandClaim, Stop
  <2>3. ItemType' /\ LogType' /\ QueueType' /\ ExecsType' /\ DaemonType' /\ AgentsKnown'
        /\ MergedSeen'
    BY <1>14, Frames DEF HandClaim
  <2> QED BY <2>1, <2>2, <2>3
<1>2. ASSUME NEW a \in Agents, Reassign(a) PROVE IInv'
  <2>1. ItemType'
    BY <1>2 DEF Groups, ItemType, Reassign
  <2>2. LedgerType'
    BY <1>2 DEF LedgerType, Reassign, TakeFromOthers, NoClaim
  <2>3. OutsideType'
    BY <1>2, BoundAssumption DEF OutsideType, Reassign, Call
  <2>4. LogType' /\ QueueType' /\ ExecsType' /\ DaemonType' /\ AgentsKnown'
        /\ MergedSeen'
    BY <1>2, Frames DEF Reassign
  <2> QED BY <2>1, <2>2, <2>3, <2>4
<1>3. ASSUME NEW j \in Jobs, CancelJob(j) PROVE IInv'
  <2>1. ItemType'
    BY <1>3 DEF Groups, ItemType, CancelJob, Park
  <2>2. QueueType'
    BY <1>3 DEF QueueType, Settled, CancelJob, Kill
  <2>3. OutsideType'
    BY <1>3, BoundAssumption DEF OutsideType, CancelJob, Call
  <2>4. AgentsKnown'
    BY <1>3 DEF Working, AgentsKnown, Active, CancelJob, Kill
  <2>5. LedgerType' /\ LogType' /\ ExecsType' /\ DaemonType' /\ MergedSeen'
    BY <1>3, Frames DEF CancelJob
  <2> QED BY <2>1, <2>2, <2>3, <2>4, <2>5
<1>4. CASE RedispatchSame
  <2>1. ItemType'
    BY <1>4, BoundAssumption DEF Groups, ItemType, RedispatchSame, Requeue, KeptPr
  <2>2. OutsideType'
    BY <1>4, BoundAssumption DEF OutsideType, RedispatchSame, Call
  <2>3. LedgerType' /\ LogType' /\ QueueType' /\ ExecsType' /\ DaemonType'
        /\ AgentsKnown' /\ MergedSeen'
    BY <1>4, Frames DEF RedispatchSame
  <2> QED BY <2>1, <2>2, <2>3
<1>5. CASE CancelRun
  <2>1. ExecsType'
    BY <1>5 DEF ExecsType, CancelRun, RunOpen
  <2>2. OutsideType'
    BY <1>5, BoundAssumption DEF OutsideType, CancelRun, Call, RunOpen
  <2>3. ItemType' /\ LedgerType' /\ LogType' /\ QueueType' /\ DaemonType'
        /\ AgentsKnown' /\ MergedSeen'
    BY <1>5, Frames DEF CancelRun
  <2> QED BY <2>1, <2>2, <2>3
<1>6. CASE BeginCancel
  <2>1. OutsideType'
    BY <1>6, BoundAssumption DEF OutsideType, BeginCancel, Call, Stop
  <2>2. ItemType' /\ LedgerType' /\ LogType' /\ QueueType' /\ ExecsType'
        /\ DaemonType' /\ AgentsKnown' /\ MergedSeen'
    BY <1>6, Frames DEF BeginCancel
  <2> QED BY <2>1, <2>2
<1>7. CASE BeginPause
  <2>1. OutsideType'
    BY <1>7, BoundAssumption DEF OutsideType, BeginPause, Call, Stop
  <2>2. ItemType' /\ LedgerType' /\ LogType' /\ QueueType' /\ ExecsType'
        /\ DaemonType' /\ AgentsKnown' /\ MergedSeen'
    BY <1>7, Frames DEF BeginPause
  <2> QED BY <2>1, <2>2
<1>8. CASE StopRun
  <2>1. ExecsType'
    BY <1>8 DEF ExecsType, StopRun, RunOpen
  <2>2. OutsideType'
    BY <1>8 DEF OutsideType, StopRun, Stop, RunOpen
  <2>3. ItemType' /\ LedgerType' /\ LogType' /\ QueueType' /\ DaemonType'
        /\ AgentsKnown' /\ MergedSeen'
    BY <1>8, Frames DEF StopRun
  <2> QED BY <2>1, <2>2, <2>3
<1>9. CASE StopJobs
  <2>1. QueueType'
    BY <1>9 DEF QueueType, Settled, StopJobs, Kill
  <2>2. OutsideType'
    BY <1>9 DEF OutsideType, StopJobs, Stop
  <2>3. AgentsKnown'
    BY <1>9 DEF Working, AgentsKnown, Active, StopJobs, Kill
  <2>4. ItemType' /\ LedgerType' /\ LogType' /\ ExecsType' /\ DaemonType' /\ MergedSeen'
    BY <1>9, Frames DEF StopJobs
  <2> QED BY <2>1, <2>2, <2>3, <2>4
<1>10. CASE CancelItem
  <2>1. ItemType'
    BY <1>10 DEF Groups, ItemType, Terminal, CancelItem
  <2>2. OutsideType'
    BY <1>10 DEF OutsideType, CancelItem, Stop
  <2>3. LedgerType' /\ LogType' /\ QueueType' /\ ExecsType' /\ DaemonType' /\ AgentsKnown'
        /\ MergedSeen'
    BY <1>10, Frames DEF CancelItem
  <2> QED BY <2>1, <2>2, <2>3
<1>11. CASE StopItem
  <2>1. ItemType'
    BY <1>11 DEF Groups, ItemType, StopItem
  <2>2. LedgerType'
    BY <1>11 DEF LedgerType, StopItem, NoClaim
  <2>3. OutsideType'
    BY <1>11 DEF OutsideType, StopItem, Stop
  <2>4. LogType' /\ QueueType' /\ ExecsType' /\ DaemonType' /\ AgentsKnown'
        /\ MergedSeen'
    BY <1>11, Frames DEF StopItem
  <2> QED BY <2>1, <2>2, <2>3, <2>4
<1>12. CASE Resume
  <2>1. ItemType'
    <3>1. UNCHANGED <<assignee, prs>>
      BY <1>12 DEF Resume
    <3>2. group' \in Groups
      BY <1>12 DEF Resume, Groups, ItemType
    <3>3. labels' \subseteq {"ready", "dispatched", "manual", "paused"}
      <4>1. labels' = labels \ {"paused"} \/ labels' = (labels \ {"dispatched", "manual", "paused"}) \cup {"ready"}
        BY <1>12 DEF Resume
      <4> QED BY <4>1 DEF Groups, ItemType
    <3>4. pr' \in 0 .. MaxPr
      BY <1>12, BoundAssumption DEF Groups, ItemType, KeptPr, Resume
    <3> QED BY <3>1, <3>2, <3>3, <3>4 DEF Groups, ItemType
  <2>2. LedgerType' /\ LogType' /\ QueueType' /\ ExecsType' /\ DaemonType'
        /\ OutsideType' /\ AgentsKnown' /\ MergedSeen'
    BY <1>12, Frames DEF Resume
  <2> QED BY <2>1, <2>2
<1> QED BY <1>1, <1>2, <1>3, <1>4, <1>5, <1>6, <1>7, <1>8, <1>9, <1>10, <1>11,
   <1>12, <1>13, <1>14 DEF Operator, Stopping

\* Crash, boot, a driver that errs, the clock of the lease, and GitHub: every step keeps the invariant.
LEMMA WorldKeeps ==
  ASSUME IInv, Crash \/ Boot \/ DriverErrs \/ Age \/ PrSettles
  PROVE  IInv'
<1> USE DEF IInv, TypeOK, item, ledger, log, queue, execs, ticker, daemon, outside, bounds
<1>1. CASE Crash
  <2>1. ExecsType'
    BY <1>1, BoundAssumption DEF ExecsType, Places, Steps, Crash
  <2>2. DaemonType'
    <3>1. up' \in BOOLEAN
      BY <1>1 DEF Crash
    <3>2. /\ boot' \in [Jobs -> {"none", "release", "give", "restore"}]
          /\ hook' \subseteq Jobs /\ tick' \in {"idle", "listed", "found", "swap"}
          /\ pick' \in Agents \cup {Nobody}
         /\ suspect' \in Owners \cup {Nobody}
      BY <1>1 DEF Crash
    <3>3. watch' \in 0 .. MaxPr
      BY <1>1, BoundAssumption DEF Crash
    <3> QED BY <3>1, <3>2, <3>3 DEF DaemonType
  <2>3. OutsideType'
    BY <1>1, BoundAssumption DEF OutsideType, Crash, Fault
  <2>4. AgentsKnown'
    BY <1>1 DEF Working, AgentsKnown, Crash
  <2>5. MergedSeen'
    BY <1>1 DEF MergedSeen, Merged, Crash
  <2>6. ItemType' /\ LedgerType' /\ LogType' /\ QueueType'
    BY <1>1, Frames DEF Crash
  <2> QED BY <2>1, <2>2, <2>3, <2>4, <2>5, <2>6
<1>2. CASE Restart
  <2>1. QueueType'
    BY <1>2 DEF QueueType, Settled, Restart
  <2>2. DaemonType'
    BY <1>2 DEF DaemonType, Restart
  <2>3. AgentsKnown'
    BY <1>2 DEF Working, AgentsKnown, Restart
  <2>4. ItemType' /\ LedgerType' /\ LogType' /\ ExecsType' /\ OutsideType'
        /\ MergedSeen'
    BY <1>2, Frames DEF Restart
  <2> QED BY <2>1, <2>2, <2>3, <2>4
<1>3. ASSUME NEW j \in Jobs, ReleaseOrphan(j) \/ GiveOrphan(j) PROVE IInv'
  <2>1. ItemType'
    BY <1>3 DEF Groups, ItemType, ReleaseOrphan, GiveOrphan, GiveUp
  <2>2. LedgerType'
    <3>1. Orphan(j) \in Owners
      BY <1>3, Names DEF Orphan, ReleaseOrphan, GiveOrphan, AgentsKnown
    <3> QED BY <1>3, <3>1, Releases DEF ReleaseOrphan, GiveOrphan
  <2>3. LogType'
    BY <1>3, Comments DEF ReleaseOrphan, GiveOrphan
  <2>4. DaemonType'
    BY <1>3 DEF DaemonType, ReleaseOrphan, GiveOrphan, Set
  <2>5. AgentsKnown'
    BY <1>3 DEF Working, AgentsKnown, DaemonType, ReleaseOrphan, GiveOrphan, Set
  <2>6. QueueType' /\ ExecsType' /\ OutsideType' /\ MergedSeen'
    BY <1>3, Frames DEF ReleaseOrphan, GiveOrphan
  <2> QED BY <2>1, <2>2, <2>3, <2>4, <2>5, <2>6
<1>4. ASSUME NEW j \in Jobs, RestoreOrphan(j) PROVE IInv'
  <2>1. ItemType'
    <3>1. UNCHANGED <<group, pr, prs>>
      BY <1>4 DEF RestoreOrphan
    <3>2. assignee' \in Agents \cup {Nobody}
      BY <1>4 DEF Groups, ItemType, QueueType, RestoreOrphan, Restored
    <3>3. labels' \subseteq {"ready", "dispatched", "manual", "paused"}
      <4>1. labels' = labels \/ ReArm
        BY <1>4 DEF RestoreOrphan
      <4> QED BY <4>1, ReArmLabels DEF Groups, ItemType
    <3> QED BY <3>1, <3>2, <3>3 DEF Groups, ItemType
  <2>2. LedgerType'
    BY <1>4 DEF LedgerType, RestoreOrphan, LedgerRelease, NoClaim
  <2>3. LogType'
    BY <1>4, Comments DEF RestoreOrphan
  <2>4. DaemonType'
    BY <1>4 DEF DaemonType, RestoreOrphan, Set
  <2>5. AgentsKnown'
    BY <1>4 DEF Working, AgentsKnown, DaemonType, RestoreOrphan, Set
  <2>6. QueueType' /\ ExecsType' /\ OutsideType' /\ MergedSeen'
    BY <1>4, Frames DEF RestoreOrphan
  <2> QED BY <2>1, <2>2, <2>3, <2>4, <2>5, <2>6
<1>5. CASE Age
  <2>1. LedgerType'
    BY <1>5 DEF LedgerType, Age, Renewed
  <2>2. OutsideType'
    BY <1>5, BoundAssumption DEF OutsideType, Age, Renewed, Fault
  <2>3. ItemType' /\ LogType' /\ QueueType' /\ ExecsType' /\ DaemonType'
        /\ AgentsKnown' /\ MergedSeen'
    BY <1>5, Frames DEF Age
  <2> QED BY <2>1, <2>2, <2>3
<1>6. CASE PrSettles
  <2>1. ItemType'
    <3>1. UNCHANGED <<group, assignee, labels, pr>>
      BY <1>6 DEF PrSettles, Decide
    <3>2. prs' \in [1 .. MaxPr -> {"none", "open", "merged", "closed"}]
      BY <1>6 DEF Groups, ItemType, PrSettles, Decide, Set
    <3> QED BY <3>1, <3>2 DEF Groups, ItemType
  <2>2. MergedSeen'
    BY <1>6, BoundAssumption DEF MergedSeen, Groups, ItemType, Merged, Numbers, PrSettles,
        Decide, Set
  <2>3. OutsideType'
    BY <1>6, BoundAssumption DEF OutsideType, PrSettles, Decide, Fault
  <2>4. LedgerType' /\ LogType' /\ QueueType' /\ ExecsType' /\ DaemonType'
        /\ AgentsKnown'
    BY <1>6, Frames DEF PrSettles, Decide
  <2> QED BY <2>1, <2>2, <2>3, <2>4
<1>7. CASE DriverErrs
  <2>1. step' = Set(step, driver, "idle")
    BY <1>7 DEF DriverErrs
  <2>2. ExecsType'
    BY <1>7, <2>1 DEF ExecsType, Steps, DriverErrs, Set
  <2>3. OutsideType'
    BY <1>7, BoundAssumption DEF OutsideType, DriverErrs, Fault
  <2>4. AgentsKnown'
    BY <1>7, <2>1 DEF Working, AgentsKnown, ExecsType, DriverErrs, Set
  <2>5. MergedSeen'
    BY <1>7, <2>1 DEF MergedSeen, Merged, ExecsType, DriverErrs, Set
  <2>6. ItemType' /\ LedgerType' /\ LogType' /\ QueueType' /\ DaemonType'
    BY <1>7, Frames DEF DriverErrs
  <2> QED BY <2>2, <2>3, <2>4, <2>5, <2>6
<1> QED BY <1>1, <1>2, <1>3, <1>4, <1>5, <1>6, <1>7 DEF Boot, OrphanSteps

\* The item that was just marked ready satisfies the invariant.
LEMMA Initial == Init => IInv
<1> SUFFICES ASSUME Init PROVE IInv
  OBVIOUS
<1>1. ItemType
  BY AgentAssumption, BoundAssumption DEF Init, Groups, ItemType
<1>2. LedgerType
  BY Names DEF Init, LedgerType
<1>9. LogType
  <2>1. stopped \in BOOLEAN
    BY DEF Init
  <2>2. past \in Nat /\ cycle \in {"none", "open", "neutral", "ok", "capped"}
    BY DEF Init
  <2> QED BY <2>1, <2>2 DEF LogType
<1>3. QueueType
  BY Names, BoundAssumption DEF Init, QueueType
<1>4. ExecsType
  <2>1. who \in [Procs -> Agents \cup {Nobody}]
    BY AgentAssumption DEF Init
  <2> QED BY <2>1, BoundAssumption DEF Init, ExecsType, Places, Steps
<1>5. DaemonType
  BY Names, BoundAssumption DEF Init, DaemonType
<1>6. OutsideType
  BY BoundAssumption DEF Init, OutsideType
<1>7. AgentsKnown
  BY Names, AgentAssumption DEF Init, Working, AgentsKnown
<1>8. MergedSeen
  BY DEF Init, MergedSeen
<1> QED BY <1>1, <1>2, <1>3, <1>4, <1>5, <1>6, <1>7, <1>8, <1>9 DEF IInv, TypeOK

\* And so does a stuttering step.
LEMMA Unchanged == ASSUME IInv, UNCHANGED vars PROVE IInv'
<1> USE DEF vars, item, ledger, log, queue, execs, daemon, ticker, outside, bounds
<1>1. ItemType' /\ LedgerType' /\ LogType'
  BY Frames
<1>2. QueueType' /\ ExecsType' /\ DaemonType' /\ OutsideType'
  BY Frames
<1>3. AgentsKnown' /\ MergedSeen'
  BY Frames
<1> QED BY <1>1, <1>2, <1>3 DEF IInv, TypeOK

\* The invariant is inductive: whatever the daemon, sessions, operators and GitHub
\* do, in any order and with crashes anywhere, every step keeps it.
THEOREM Inductive == Spec => []IInv
<1>1. ASSUME IInv, [Next]_vars PROVE IInv'
  <2>1. CASE UNCHANGED vars
    BY <1>1, <2>1, Unchanged
  <2>2. CASE Next
    BY <1>1, <2>2, TickKeeps, SweepKeeps, ExecutorKeeps, FinalizerKeeps, DoneKeeps,
       SessionKeeps, CallKeeps, WorldKeeps DEF Next
  <2> QED BY <1>1, <2>1, <2>2
<1> QED BY <1>1, Initial, PTL DEF Spec

\* Every variable has its type in every reachable state, and the ledger names an owner
\* exactly while it has a row: no release or takeover leaves half a claim.
THEOREM TypesHold == Spec => []TypeOK
  BY Inductive, PTL DEF IInv
=============================================================================
