------------------------- MODULE WorkItemLifeProofs -------------------------
(***************************************************************************)
(* WorkItem implements ItemLife, for every value of the constants: Init    *)
(* maps to Init, and one lemma per group of actions shows that each of its *)
(* steps is a step of the life, or none at all.                            *)
(***************************************************************************)
EXTENDS WorkItemProofs

\* What the life's variables stand for: its worker, whether that worker is gone, who
\* took the item and has not begun, and whether its work was merged.
Worker == IF claim = "held" THEN holder ELSE Nobody
Lapsed == claim = "held" /\ (Stale \/ Exited(holder, FALSE))
Taken == {<<b.by, b.group>> : b \in before}
Delivered == \E n \in Numbers : Merged(n)

\* The kinds of steps a life has, by what they leave of the item, its worker and what
\* is delivered: each is one of ItemLife's actions.
LEMMA LifeGoesOn ==
  ASSUME before' \subseteq before
  PROVE
  /\ UNCHANGED <<group, Worker, Delivered>> => Life!Next
  /\ Worker' = Nobody /\ UNCHANGED <<group, Delivered>> => Life!Next
  /\ \A o \in Owners :
       /\ Worker \in {Nobody, o} \/ Lapsed
       /\ Worker' = o /\ UNCHANGED <<group, Delivered>>
       => Life!Next
  /\ \A o \in Owners :
       /\ Worker \in {Nobody, o} /\ Worker' = Nobody /\ UNCHANGED Delivered
       /\ <<o, group'>> \in Taken
       => Life!Next
  /\ Worker # Nobody /\ group \in {"started", "in_review"} /\ group' = "in_review"
       /\ UNCHANGED <<Worker, Delivered>> => Life!Next
  /\ Delivered /\ group \in {"started", "in_review"} /\ group' = "completed"
       /\ Worker' \in {Worker, Nobody} /\ UNCHANGED Delivered => Life!Next
  /\ group \notin Terminal /\ group' = "in_review" /\ UNCHANGED <<Worker, Delivered>>
       => Life!Next
  /\ group \notin Terminal /\ group' = "backlog"
       /\ Worker' \in {Worker, Nobody} /\ UNCHANGED Delivered => Life!Next
  /\ group' = "cancelled" /\ UNCHANGED <<Worker, Delivered>> => Life!Next
<1> USE DEF Life!Next, Life!Beside, Life!Lease, Worker, Lapsed, Delivered
<1>0. {<<b.by, b.group>> : b \in before'} \subseteq {<<b.by, b.group>> : b \in before}
  OBVIOUS
<1> USE <1>0
<1>1. UNCHANGED <<group, Worker, Delivered>> => Life!Next
  BY DEF Life!Lapse
<1>2. Worker' = Nobody /\ UNCHANGED <<group, Delivered>> => Life!Next
  BY DEF Life!Leave
<1>3. ASSUME NEW o \in Owners, Worker \in {Nobody, o} \/ Lapsed, Worker' = o,
             UNCHANGED <<group, Delivered>>
      PROVE  Life!Next
  BY <1>3 DEF Life!Adopt, Life!Free
<1>10. ASSUME NEW o \in Owners, Worker \in {Nobody, o}, Worker' = Nobody,
              UNCHANGED Delivered, <<o, group'>> \in Taken
       PROVE  Life!Next
  BY <1>10 DEF Life!PutBack, Taken
<1>4. Worker # Nobody /\ group \in {"started", "in_review"} /\ group' = "in_review"
       /\ UNCHANGED <<Worker, Delivered>> => Life!Next
  BY DEF Life!Submit, Life!Claimed
<1>6. Delivered /\ group \in {"started", "in_review"} /\ group' = "completed"
       /\ Worker' \in {Worker, Nobody} /\ UNCHANGED Delivered => Life!Next
  BY DEF Life!Complete, Life!Claimed
<1>7. group \notin Terminal /\ group' = "in_review" /\ UNCHANGED <<Worker, Delivered>>
       => Life!Next
  BY DEF Life!Recover, Life!Over, Terminal
<1>8. group \notin Terminal /\ group' = "backlog"
       /\ Worker' \in {Worker, Nobody} /\ UNCHANGED Delivered => Life!Next
  BY DEF Life!Requeue, Life!Over, Terminal
<1>9. group' = "cancelled" /\ UNCHANGED <<Worker, Delivered>> => Life!Next
  BY DEF Life!Cancel
<1> QED BY <1>1, <1>2, <1>3, <1>4, <1>6, <1>7, <1>8, <1>9, <1>10

\* A step that leaves the group, the claim and GitHub alone is the life's own stutter,
\* or the lapse of its worker.
LEMMA Quiet ==
  ASSUME UNCHANGED <<group, holder, claim, prs>>, before' \subseteq before
  PROVE  Life!Next
  BY LifeGoesOn DEF Worker, Delivered, Merged

\* A claim that ends, or stays, while the item stays what it is: the worker leaves.
LEMMA Leaves ==
  ASSUME UNCHANGED <<group, prs>>, before' \subseteq before,
         NoClaim \/ claim' # "held" \/ UNCHANGED <<holder, claim>>
  PROVE  Life!Next
  BY LifeGoesOn DEF Worker, Delivered, Merged, NoClaim

\* An owner takes over the claim of nobody, its own, or a stale one.
LEMMA Adopts ==
  ASSUME NEW o \in Owners, UNCHANGED <<group, prs>>, before' \subseteq before,
         claim = "held" => holder = o \/ Stale, Acquire(o)
  PROVE  Life!Next
<1>1. Worker' = o
  BY DEF Acquire, Worker
<1>2. Worker \in {Nobody, o} \/ Lapsed
  BY DEF Worker, Lapsed
<1> QED BY <1>1, <1>2, LifeGoesOn DEF Delivered, Merged

\* A release adopts such a claim or ends it, in either closure, and in the ledger.
LEMMA ReleaseLives ==
  ASSUME NEW o \in Owners, NEW here, UNCHANGED <<group, prs>>, before' \subseteq before,
         Confirm(o, here) \/ GiveUp(o) \/ LedgerRelease(o)
  PROVE  Life!Next
<1>1. CASE Confirm(o, here)
  <2>1. CASE Acquire(o)
    <3>1. claim = "held" => holder = o \/ Stale
      BY <1>1, <2>1 DEF Confirm, Acquire, NoClaim, ledger
    <3> QED BY <2>1, <3>1, Adopts
  <2>2. CASE ~Acquire(o)
    BY <1>1, <2>2, Leaves DEF Confirm, ledger
  <2> QED BY <2>1, <2>2
<1>2. CASE GiveUp(o) \/ LedgerRelease(o)
  BY <1>2, Leaves DEF GiveUp, LedgerRelease, ledger
<1> QED BY <1>1, <1>2

\* The discovery tick only reads the item and moves its labels.
LEMMA TickLives ==
  ASSUME Tick
  PROVE  Life!Next
  BY Quiet DEF Tick, TickLists, TickFinds, TickSkips, TickRefused, Looks, Enqueue, Swap,
     item, ledger, execs

\* The sweeps take a claim from somebody who is gone, or complete an item whose pull
\* request they saw merged.
LEMMA SweepLives ==
  ASSUME IInv, Sweep \/ ReviewSweep
  PROVE  Life!Next
<1>1. CASE SweepSuspects \/ SweepForgets \/ SweepFindsMerged
  BY <1>1, Quiet DEF SweepSuspects, SweepForgets, SweepFindsMerged, item, ledger, execs
<1>2. CASE SweepReleases
  <2>1. Worker' = Nobody /\ UNCHANGED <<prs, before>>
    BY <1>2 DEF SweepReleases, NoClaim, Worker, execs
  <2>2. UNCHANGED group \/ (group \notin Terminal /\ group' = "backlog")
    BY <1>2 DEF SweepReleases, RestoreItem, LeftAlone, Requeue, item
  <2> QED BY <2>1, <2>2, LifeGoesOn DEF Delivered, Merged
<1>3. CASE Promote
  <2>1. Delivered /\ UNCHANGED <<prs, holder, before>>
    BY <1>3 DEF IInv, MergedSeen, Merged, Delivered, Promote, execs
  <2>2. CASE Promotable(watch)
    <3>1. group' = "completed" /\ claim' = IF claim = "held" THEN "done" ELSE claim
      BY <1>3, <2>2 DEF Promote
    <3>2. Worker' = Nobody
      BY <3>1 DEF Worker
    <3> QED BY <2>1, <2>2, <3>1, <3>2, LifeGoesOn DEF Promotable, Delivered, Merged
  <2>3. CASE ~Promotable(watch)
    BY <1>3, <2>1, <2>3, Quiet DEF Promote
  <2> QED BY <2>2, <2>3
<1> QED BY <1>1, <1>2, <1>3 DEF Sweep, ReviewSweep

\* Somebody takes the item up.
LEMMA Takes ==
  ASSUME NEW o \in Owners, Worker \in {Nobody, o} \/ Lapsed, Worker' = o,
         group' = "started", UNCHANGED Delivered, Taken' \subseteq Taken \cup {<<o, group>>}
  PROVE  Life!Next
<1>1. Life!Take(o)
  BY DEF Life!Take, Life!Lease, Life!Free, Worker, Lapsed, Delivered, Taken
<1> QED BY <1>1 DEF Life!Next

\* Whoever may claim finds nobody, itself, or a lease that has run out.
LEMMA ClaimTakes ==
  ASSUME NEW p \in Procs, who[p] \in Agents, Claimable(p), Claim(p), UNCHANGED prs,
         before' \subseteq before \cup {Found(p)}
  PROVE  Life!Next
<1>1. Me(p) \in Owners
  BY Names DEF Me
<1>2. Worker \in {Nobody, Me(p)} \/ Lapsed
  BY DEF Claimable, Worker, Lapsed
<1>3. Worker' = Me(p) /\ group' = "started"
  BY DEF Claim, Acquire, Worker
<1>4. UNCHANGED Delivered
  BY DEF Delivered, Merged
<1>5. Taken' \subseteq Taken \cup {<<Me(p), group>>}
  BY DEF Found, Taken
<1> QED BY <1>1, <1>2, <1>3, <1>4, <1>5, Takes

\* An executor takes the item, gives it back, puts it back, or reports its failure.
LEMMA ExecutorLives ==
  ASSUME IInv, NEW j \in Jobs, Executor(j)
  PROVE  Life!Next
<1>0. at[j] \in Working => Me(j) \in Owners
  BY Names DEF IInv, AgentsKnown, Me
<1>1. CASE \/ Dequeue(j) \/ Prepare(j) \/ SetUpFails(j) \/ AttachRun(j) \/ TakesOver(j)
           \/ Report(j)
  <2>1. before' \subseteq before
    BY <1>1 DEF Dequeue, Prepare, SetUpFails, AttachRun, TakesOver, Report, Others
  <2> QED BY <1>1, <2>1, Quiet DEF Dequeue, Prepare, SetUpFails, AttachRun, TakesOver,
          Report, item, ledger
<1>2. CASE WaiterSeesEnd(j) \/ WaiterSeesJobCancelled(j) \/ WaiterLosesClaim(j)
  BY <1>2, Quiet DEF WaiterSeesEnd, WaiterSeesJobCancelled, WaiterLosesClaim, Goes,
     item, ledger
<1>3. CASE JobClaims(j)
  <2>1. who[j] \in Agents /\ j \in Procs
    BY <1>3, Names DEF IInv, AgentsKnown, Working, JobClaims
  <2>2. CASE Claimable(j)
    <3>1. before' \subseteq before \cup {Found(j)}
      BY <1>3, <2>2 DEF JobClaims, Others
    <3> QED BY <1>3, <2>1, <2>2, <3>1, ClaimTakes DEF JobClaims
  <2>3. CASE ~Claimable(j)
    BY <1>3, <2>3, Quiet DEF JobClaims, ledger
  <2> QED BY <2>2, <2>3
<1>4. CASE Drop(j) \/ DropEnds(j)
  <2>1. Me(j) \in Owners
    BY <1>0, <1>4 DEF Drop, DropEnds, Working
  <2> QED BY <1>4, <2>1, ReleaseLives DEF Drop, DropEnds, item
<1>5. CASE StopOnRequest(j)
  BY <1>5, Leaves DEF StopOnRequest, LedgerRelease, item, ledger
<1>6. CASE FailureHook(j)
  <2>1. UNCHANGED <<holder, claim, prs, before>>
    BY <1>6 DEF FailureHook, ledger, execs
  <2>2. UNCHANGED group \/ (group \notin Terminal /\ group' = "in_review")
    BY <1>6 DEF FailureHook, item
  <2> QED BY <2>1, <2>2, LifeGoesOn DEF Worker, Delivered, Merged
<1>7. CASE RollBack(j)
  <2>1. Me(j) \in Owners /\ before' \subseteq before /\ UNCHANGED prs
    BY <1>0, <1>7 DEF RollBack, Working, Others
  <2>2. CASE holder = Me(j)
    <3>1. PICK b \in before : b.by = Me(j) /\ group' = b.group
      BY <1>7, <2>2 DEF RollBack
    <3>2. Worker \in {Nobody, Me(j)} /\ Worker' = Nobody
      BY <1>7, <2>2 DEF RollBack, NoClaim, Worker
    <3>3. <<Me(j), group'>> \in Taken
      BY <3>1 DEF Taken
    <3> QED BY <2>1, <3>2, <3>3, LifeGoesOn DEF Delivered, Merged
  <2>3. CASE holder # Me(j)
    BY <1>7, <2>1, <2>3, Quiet DEF RollBack, ledger
  <2> QED BY <2>2, <2>3
<1> QED BY <1>1, <1>2, <1>3, <1>4, <1>5, <1>6, <1>7 DEF Executor

\* A run's driver gives the claim back at most.
LEMMA FinalizerLives ==
  ASSUME IInv, NEW j \in Jobs, Finalizer(j)
  PROVE  Life!Next
<1>1. CASE \/ AgentEnds(j) \/ Finalize(j) \/ FinalizeEnds(j) \/ FinalizeRetries(j)
           \/ FinalizeFails(j)
  BY <1>1, Quiet DEF AgentEnds, Finalize, FinalizeEnds, FinalizeRetries, FinalizeFails,
     StepGoes, ledger
<1>2. CASE FinalizeReleases(j) \/ FinalizeGives(j)
  <2>1. Me(j) \in Owners
    BY <1>2, Names DEF IInv, AgentsKnown, FinalizeReleases, FinalizeGives, Me
  <2> QED BY <1>2, <2>1, ReleaseLives DEF FinalizeReleases, FinalizeGives, StepGoes
<1> QED BY <1>1, <1>2 DEF Finalizer

\* item_done takes a lapsed claim, submits or completes, and completes nothing that is
\* not merged.
LEMMA DoneLives ==
  ASSUME IInv, NEW p \in Procs, Done(p) \/ Heartbeat(p)
  PROVE  Life!Next
<1>1. CASE SeesMerged(p) \/ PushFails(p) \/ Heartbeat(p)
  BY <1>1, Quiet DEF SeesMerged, PushFails, Heartbeat, StepGoes, item, ledger, execs
<1>2. CASE DoneBegins(p) \/ DoneSteals(p)
  <2>1. UNCHANGED <<group, prs, before>>
    BY <1>2 DEF DoneBegins, DoneSteals, Publishes, StepGoes
  <2>2. Me(p) \in Owners
    BY <1>2, Names DEF IInv, AgentsKnown, DoneBegins, DoneSteals, Me
  <2>3. \/ Acquire(Me(p)) /\ (claim = "held" => holder = Me(p) \/ Stale)
        \/ NoClaim \/ UNCHANGED <<holder, claim>>
    BY <1>2 DEF DoneBegins, DoneSteals, Publishes, Owns, Stealable, ledger
  <2> QED BY <2>1, <2>2, <2>3, Adopts, Leaves
<1>7. CASE DoneCloses(p)
  BY <1>7, Leaves DEF DoneCloses, StepGoes, ledger
<1>3. CASE MarkCompleted(p)
  <2>1. Delivered
    BY <1>3 DEF IInv, MergedSeen, MarkCompleted, Delivered
  <2>2. UNCHANGED <<holder, claim, prs, before>>
    BY <1>3 DEF MarkCompleted, StepGoes, ledger
  <2>3. UNCHANGED group \/ (group \in {"started", "in_review"} /\ group' = "completed")
    BY <1>3 DEF MarkCompleted, InFinalizable
  <2> QED BY <2>1, <2>2, <2>3, LifeGoesOn DEF Worker, Delivered, Merged
<1>4. CASE Push(p)
  <2>1. UNCHANGED <<group, holder, claim, before>>
    BY <1>4 DEF Push, ledger
  <2>2. PICK n \in Numbers :
          IF \E k \in Numbers : prs[k] = "open" THEN prs[n] = "open" /\ UNCHANGED prs
          ELSE Opened = 1 .. (n - 1) /\ prs' = Set(prs, n, "open")
    BY <1>4 DEF Push
  <2>3. prs[n] \in {"none", "open"} /\ (UNCHANGED prs \/ prs' = Set(prs, n, "open"))
    BY <2>2 DEF Numbers, Opened
  <2>4. UNCHANGED Delivered
    BY <2>3 DEF IInv, TypeOK, ItemType, Delivered, Merged, Numbers, Set
  <2> QED BY <2>1, <2>4, LifeGoesOn DEF Worker
<1>5. CASE NothingDone(p)
  BY <1>5, Leaves DEF NothingDone, StepGoes, ledger
<1>6. CASE MarkInReview(p)
  <2>1. UNCHANGED <<holder, claim, prs, before>>
    BY <1>6 DEF MarkInReview, StepGoes, ledger
  <2>2. CASE Owns(p) /\ InFinalizable
    <3>1. Worker # Nobody
      BY <2>2 DEF Owns, Worker, IInv, TypeOK, LedgerType
    <3> QED BY <1>6, <2>1, <2>2, <3>1, LifeGoesOn
            DEF MarkInReview, InFinalizable, Worker, Delivered, Merged
  <2>3. CASE ~(Owns(p) /\ InFinalizable)
    BY <1>6, <2>1, <2>3, Quiet DEF MarkInReview
  <2> QED BY <2>2, <2>3
<1> QED BY <1>1, <1>2, <1>3, <1>4, <1>5, <1>6, <1>7 DEF Done

\* A session takes the item and gives it back.
LEMMA SessionLives ==
  ASSUME IInv, NEW s \in Sessions, Session(s)
  PROVE  Life!Next
<1>1. CASE SessionCallsDone(s) \/ SessionReturns(s) \/ SessionExits(s)
  BY <1>1, Quiet DEF SessionCallsDone, SessionReturns, SessionExits, StepGoes, item,
     ledger
<1>2. CASE SessionClaims(s)
  BY <1>2, ClaimTakes, Names DEF IInv, AgentsKnown, SessionClaims, execs
<1>3. CASE SessionReleases(s) \/ SessionGives(s)
  <2>1. Me(s) \in Owners
    BY Names DEF IInv, AgentsKnown, Me
  <2> QED BY <1>3, <2>1, ReleaseLives DEF SessionReleases, SessionGives, StepGoes, item
<1> QED BY <1>1, <1>2, <1>3 DEF Session

\* The operators' calls requeue the item, take it from its worker, or cancel it.
LEMMA CallLives ==
  ASSUME IInv, Operator
  PROVE  Life!Next
<1>1. CASE \/ CancelRun \/ BeginCancel \/ BeginPause \/ StopRun \/ StopJobs \/ HandJobs
  BY <1>1, Quiet DEF CancelRun, BeginCancel, BeginPause, StopRun, StopJobs, HandJobs,
     item, ledger, execs
<1>2. ASSUME NEW j \in Jobs, CancelJob(j) PROVE Life!Next
  BY <1>2, Quiet DEF CancelJob, ledger, execs
<1>3. ASSUME NEW a \in Agents, Redispatch(a) \/ RedispatchSame PROVE Life!Next
  <2>1. group \notin Terminal /\ group' = "backlog"
    BY <1>3 DEF Redispatch, RedispatchSame, Requeue
  <2>2. UNCHANGED <<holder, claim, prs, before>>
    BY <1>3 DEF Redispatch, RedispatchSame, ledger, execs
  <2> QED BY <2>1, <2>2, LifeGoesOn DEF Worker, Delivered, Merged
<1>4. CASE RedispatchSame
  <2>1. assignee \in Agents
    BY <1>4 DEF IInv, TypeOK, ItemType, RedispatchSame
  <2> QED BY <1>3, <1>4, <2>1
<1>5. ASSUME NEW a \in Agents, Reassign(a) PROVE Life!Next
  BY <1>5, Leaves DEF Reassign, TakeFromOthers, ledger, execs
<1>9. CASE HandClaim
  BY <1>9, Leaves DEF HandClaim, TakeFromOthers, item, ledger, execs
<1>6. CASE CancelItem
  <2>1. UNCHANGED <<holder, claim, prs, before>>
    BY <1>6 DEF CancelItem, ledger, execs
  <2> QED BY <1>6, <2>1, LifeGoesOn DEF CancelItem, Worker, Delivered, Merged
<1>7. CASE StopItem
  BY <1>7, Leaves DEF StopItem, ledger, execs
<1>8. CASE Resume
  <2>1. UNCHANGED <<holder, claim, prs, before>>
    BY <1>8 DEF Resume, ledger, execs
  <2>2. UNCHANGED group \/ (group \notin Terminal /\ group' = "backlog")
    BY <1>8 DEF Resume
  <2> QED BY <2>1, <2>2, LifeGoesOn DEF Worker, Delivered, Merged
<1> QED BY <1>1, <1>2, <1>3, <1>4, <1>5, <1>6, <1>7, <1>8, <1>9 DEF Operator, Stopping

\* Crash, boot, the passing of time and the decisions on GitHub.
LEMMA WorldLives ==
  ASSUME IInv, Crash \/ Boot \/ DriverErrs \/ Age \/ PrSettles
  PROVE  Life!Next
<1>1. CASE Crash \/ Restart \/ DriverErrs \/ Age
  <2>1. UNCHANGED <<group, holder, claim, prs>>
    BY <1>1 DEF Crash, Restart, DriverErrs, Age, item, ledger
  <2>2. before' \subseteq before
    BY <1>1 DEF Crash, Restart, DriverErrs, Age, execs
  <2> QED BY <2>1, <2>2, Quiet
<1>2. ASSUME NEW j \in Jobs, ReleaseOrphan(j) \/ GiveOrphan(j) PROVE Life!Next
  <2>1. Orphan(j) \in Owners
    BY <1>2, Names DEF IInv, AgentsKnown, ReleaseOrphan, GiveOrphan, Orphan
  <2> QED BY <1>2, <2>1, ReleaseLives DEF ReleaseOrphan, GiveOrphan, item, execs
<1>3. ASSUME NEW j \in Jobs, RestoreOrphan(j) PROVE Life!Next
  <2>1. UNCHANGED <<group, prs, before>>
    BY <1>3 DEF RestoreOrphan, item, execs
  <2>2. NoClaim \/ UNCHANGED <<holder, claim>>
    BY <1>3 DEF RestoreOrphan, LedgerRelease, ledger
  <2> QED BY <2>1, <2>2, Leaves
<1>4. CASE PrSettles
  <2>1. PICK n \in Numbers : Decide(n, "merged") \/ Decide(n, "closed")
    BY <1>4 DEF PrSettles
  <2>2. UNCHANGED <<group, Worker, Lapsed, Taken, before>>
    BY <2>1 DEF Decide, item, ledger, queue, execs, outside, Worker, Lapsed, Taken,
       Stale, Exited
  <2>3. CASE Decide(n, "merged")
    <3>1. Delivered'
      BY <2>3 DEF IInv, TypeOK, ItemType, Decide, Set, Delivered, Merged, Numbers
    <3> QED BY <2>2, <3>1 DEF Life!Next, Life!Merge, Worker, Lapsed, Taken, Delivered
  <2>4. CASE Decide(n, "closed")
    <3>1. UNCHANGED Delivered
      BY <2>4 DEF IInv, TypeOK, ItemType, Decide, Set, Delivered, Merged, Numbers
    <3> QED BY <2>2, <3>1, LifeGoesOn
  <2> QED BY <2>1, <2>3, <2>4
<1> QED BY <1>1, <1>2, <1>3, <1>4 DEF Boot, OrphanSteps

\* The labels, the ledger row, the jobs, the run, the sweeps and the boot together
\* implement the life ItemLife promises (ImplementsLife): nobody takes the item from a
\* worker whose lease has not run out but by an operator's call, what is completed or
\* cancelled comes back only when somebody takes it or puts back what he took, and
\* nothing is completed without a merged pull request.
THEOREM Implements == Spec => ImplementsLife
<1>1. Init => Life!Init
  BY DEF Init, Life!Init, Merged, Numbers
<1>2. ASSUME IInv, [Next]_vars PROVE [Life!Next]_(Life!life)
  <2>1. CASE UNCHANGED vars
    BY <2>1, Quiet DEF vars, item, ledger, execs
  <2>2. CASE Next
    BY <1>2, <2>2, TickLives, SweepLives, ExecutorLives, FinalizerLives, DoneLives,
       SessionLives, CallLives, WorldLives DEF Next
  <2> QED BY <1>2, <2>1, <2>2
<1> QED BY <1>1, <1>2, Inductive, PTL DEF Spec, ImplementsLife, Life!Spec

\* A completed item has a merged pull request, however late its item_done, its sweep
\* or its operator was: a promise of the life, and so of the item.
THEOREM CompletedIsDelivered == Spec => [](group = "completed" => Delivered)
<1> DEFINE Begun == \A o \in Owners : <<o, "completed">> \in Taken => Delivered
           Promise == (group = "completed" => Delivered) /\ Begun
<1>1. Life!Init => Promise
  BY DEF Life!Init, Taken
<1>2. Promise /\ [Life!Next]_(Life!life) => Promise'
  <2>1. ASSUME Promise, Life!Next PROVE Promise'
    <3>1. Delivered => Delivered'
      BY <2>1 DEF Life!Next, Life!Take, Life!Adopt, Life!PutBack, Life!Leave, Life!Lapse,
         Life!Submit, Life!Merge, Life!Complete, Life!Recover, Life!Requeue, Life!Cancel,
         Life!Lease, Life!Beside, Delivered
    <3>2. \/ \A o \in Owners : <<o, "completed">> \in Taken' => <<o, "completed">> \in Taken
          \/ group = "completed"
      BY <2>1 DEF Life!Next, Life!Take, Life!Adopt, Life!PutBack, Life!Leave, Life!Lapse,
         Life!Submit, Life!Merge, Life!Complete, Life!Recover, Life!Requeue, Life!Cancel,
         Life!Lease, Life!Beside, Taken
    <3>3. group' = "completed" => Delivered
      BY <2>1 DEF Life!Next, Life!Take, Life!Adopt, Life!PutBack, Life!Leave, Life!Lapse,
         Life!Submit, Life!Merge, Life!Complete, Life!Recover, Life!Requeue, Life!Cancel,
         Life!Lease, Life!Beside, Taken, Delivered
    <3> QED BY <2>1, <3>1, <3>2, <3>3
  <2> QED BY <2>1 DEF Life!life, Taken, Delivered
<1> QED BY <1>1, <1>2, Implements, PTL DEF ImplementsLife, Life!Spec
=============================================================================
