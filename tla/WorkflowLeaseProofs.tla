------------------------ MODULE WorkflowLeaseProofs ------------------------
(***************************************************************************)
(* Theorems about WorkflowLease for every finite number of processes, each *)
(* on its own update_lock, every time to live, every choice of slow engines*)
(* and reused pids, and every bound on the updates that overlap and on how *)
(* many of them may be lost.                                               *)
(*                                                                         *)
(* What makes the invariants inductive: an update that is not Stale decides*)
(* on the row as it is, and a stale one is counted when it is written.     *)
(* Loose collects the timely drivers that the lease no longer protects; a  *)
(* commit that is not stale adds nobody to it, a stale one at most the     *)
(* holder whose lease it wrote over, and time adds nobody.                 *)
(***************************************************************************)
EXTENDS WorkflowLease, FiniteSetTheorems, TLAPS

\* A timely driver is safe while the row names it, and its lease is no older than what
\* its renewer goes by.
Safe(e) == ~superseded[e] /\ owner = e /\ age <= due[e]
Loose == {e \in Engines : Timely(e) /\ ~Safe(e)}

\* A process that is not up does nothing.
Idle(e) == drv[e] = "none" /\ txn[e] = NoTxn /\ listed[e] = "no" /\ stp[e] = "no"

\* What the open update says about its engine.
Shape(e) ==
  /\ proc[e] # "up" \/ status = "unborn" => Idle(e)
  /\ txn[e].op = "none" <=> txn[e] = NoTxn
  /\ txn[e].op # "none" => txn[e].status # "unborn"
  /\ txn[e].op = "take" => drv[e] = "claimed"
  /\ txn[e].op \in {"renew", "release"} => drv[e] \in Driving
  /\ txn[e].op = "renew" => ~superseded[e]
  /\ txn[e].op = "settle" => drv[e] = "settling"

Heard(s) == s \in Terminal => \E i \in DOMAIN announced : announced[i] = s

IInv ==
  /\ TypeOK
  /\ \A e \in Engines : Shape(e) /\ Heard(txn[e].status)
  /\ AnnouncedOnce
  /\ \A e \in Engines : Timely(e) /\ ~superseded[e] => due[e] < TTL
  /\ Cardinality(Loose) <= lost

-----------------------------------------------------------------------------
(* What the actions have in common. *)

\* A commit ends its update.  It writes the row it loaded, but for a status between
\* those of a run that goes on, an outcome of such a run, which it announces, or the
\* lease: to nobody (when its own engine stops driving) or to its own engine (when
\* nobody alive held it).
CommitKeeps(e) ==
  /\ txn[e].op # "none" /\ txn' = Set(txn, e, NoTxn)
  /\ UNCHANGED proc
  /\ lost' = IF Stale(e) THEN lost + 1 ELSE lost
  /\ status' \in Statuses \ {"unborn"}
  /\ \/ /\ UNCHANGED announced
        /\ status' = txn[e].status \/ {status', txn[e].status} \cap Terminal = {}
     \/ /\ announced' = Append(announced, status')
        /\ status' \in Terminal /\ txn[e].status \notin Terminal
  /\ \/ /\ owner' = txn[e].owner /\ age' = txn[e].age
        /\ due'[e] = due[e] \/ drv'[e] \notin Driving
     \/ owner' = None /\ age' = 0 /\ txn[e].owner = e /\ drv'[e] \notin Driving
     \/ owner' = e /\ age' = 0 /\ due'[e] = 0 /\ ~HeldByLive(e, txn[e])
  /\ drv' \in [Engines -> {"none", "claimed"} \cup Driving]
  /\ drv'[e] \in Driving =>
       drv[e] \in Driving \/ (owner' = e /\ age' = 0 /\ due'[e] = 0 /\ ~superseded'[e])
  /\ superseded' \in [Engines -> BOOLEAN]
  /\ superseded'[e] => drv'[e] \in Driving
  /\ superseded'[e] => superseded[e] \/ (LeasedElsewhere(e, txn[e]) /\ owner' = txn[e].owner)
  /\ superseded[e] /\ drv'[e] \in Driving => superseded'[e]
  /\ due' \in [Engines -> 0 .. TTL] /\ due'[e] \in {due[e], 0}
  /\ listed' \in [Engines -> {"no", "recover", "resume"}]
  /\ stp' \in [Engines -> {"no", "exec", "asleep"}]
  /\ \A d \in Engines \ {e} :
       /\ drv'[d] = drv[d] /\ superseded'[d] = superseded[d] /\ due'[d] = due[d]
       /\ listed'[d] = listed[d] /\ stp'[d] = stp[d]

\* A step inside one process: the table, its updates and who drives are kept.
LocalKeeps(e) ==
  /\ UNCHANGED <<row, announced, txn, proc, superseded, due>>
  /\ drv' \in [Engines -> {"none", "claimed"} \cup Driving]
  /\ \A d \in Engines :
       \/ drv'[d] = drv[d]
       \/ drv'[d] \in Driving /\ drv[d] \in Driving /\ txn[d].op # "settle"
  /\ listed' \in [Engines -> {"no", "recover", "resume"}]
  /\ stp' \in [Engines -> {"no", "exec", "asleep"}]
  /\ \A d \in Engines :
       listed'[d] # listed[d] \/ stp'[d] # stp[d] => proc[d] = "up" /\ status # "unborn"

Writes(e) ==
  \/ Take(e) \/ Renew(e) \/ Settle(e) \/ Release(e)
  \/ StepWrites(e) \/ Sleep(e) \/ Wake(e) \/ Pause(e) \/ Cancel(e)
Opens(e) ==
  \/ RenewOpen(e) \/ SettleOpen(e) \/ ReleaseOpen(e) \/ StepOpen(e) \/ SleepOpen(e)
  \/ WakeOpen(e) \/ PauseOpen(e) \/ CancelOpen(e) \/ Claim(e)
Locals(e) ==
  \/ Find(e) \/ FindPaused(e) \/ DriverStops(e) \/ RunStep(e) \/ Finish(e)
  \/ DriverErrs(e) \/ BudgetExpires(e) \/ StepStops(e)
Drops(e) == Crash(e) \/ ReleaseFails(e) \/ RenewAborted(e)

\* Every step of the system is of one of these kinds.
LEMMA Kinds ==
  ASSUME Next
  PROVE  \/ Tick
         \/ \E e \in Engines : Opens(e) \/ Writes(e) \/ Locals(e) \/ Start(e) \/ Drops(e)
<1>1. CASE Tick
  BY <1>1
<1>2. CASE \E e \in Engines :
             Crash(e) \/ Start(e) \/ Takeover(e) \/ Driver(e)
             \/ Renewer(e) \/ Step(e) \/ Operator(e)
  <2>1. PICK e \in Engines :
          Crash(e) \/ Start(e) \/ Takeover(e) \/ Driver(e)
          \/ Renewer(e) \/ Step(e) \/ Operator(e)
    BY <1>2, Zenon
  <2>2. Opens(e) \/ Writes(e) \/ Locals(e) \/ Start(e) \/ Drops(e)
    BY <2>1 DEF Opens, Writes, Locals, Drops, Takeover, Driver, Renewer, Step, Operator
  <2>3. QED
    BY <2>2, Zenon
<1>3. QED
  BY <1>1, <1>2 DEF Next

LEMMA NoTxnType ==
  NoTxn \in [op : Ops, status : Statuses, owner : Engines \cup {None}, age : 0 .. TTL]
BY LeaseAssumption DEF NoTxn, Ops, Statuses

\* An update that was loaded belongs to a process that is up, of a run that has begun.
LEMMA AtCommit ==
  ASSUME IInv, NEW e \in Engines, txn[e].op # "none"
  PROVE  /\ txn[e].status \in Statuses \ {"unborn"} /\ txn[e].owner \in Engines \cup {None}
         /\ txn[e].age \in 0 .. TTL
         /\ status # "unborn" /\ proc[e] = "up"
BY DEF IInv, TypeOK, Shape, Idle, NoTxn

LEMMA TakeKeeps ==
  ASSUME IInv, NEW e \in Engines, Take(e) PROVE CommitKeeps(e)
<1>1. /\ txn[e].op = "take" /\ drv[e] = "claimed" /\ ~superseded[e] /\ due[e] \in 0 .. TTL
      /\ txn[e].status \in Statuses \ {"unborn"}
  BY AtCommit DEF Take, IInv, Shape, TypeOK, Driving
<1>2. CASE MayTake(e)
  <2>1. Write(e, "running", e, 0) /\ drv' = Set(drv, e, "running") /\ due' = Set(due, e, 0)
    BY <1>2 DEF Take
  <2>2. txn[e].status \notin Terminal /\ ~HeldByLive(e, txn[e])
    BY <1>2 DEF MayTake
  <2>3. QED
    BY <1>1, <2>1, <2>2, LeaseAssumption DEF CommitKeeps, Take, Write, Set, IInv, TypeOK,
      Statuses, Active, Terminal, Driving
<1>3. CASE ~MayTake(e)
  <2>1. Unchanged(e) /\ drv' = Set(drv, e, "none") /\ due' = Set(due, e, 0)
    BY <1>3 DEF Take
  <2>2. UNCHANGED <<announced, proc, stp, superseded>> /\ listed' = Set(listed, e, "no")
    BY DEF Take
  <2>3. superseded \in [Engines -> BOOLEAN]
    BY DEF IInv, TypeOK
  <2>4. QED
    BY <1>1, <2>1, <2>2, <2>3, LeaseAssumption DEF CommitKeeps, Unchanged, Write, Set, IInv,
      TypeOK, Driving
<1>4. QED
  BY <1>2, <1>3

LEMMA RenewKeeps ==
  ASSUME IInv, NEW e \in Engines, Renew(e) PROVE CommitKeeps(e)
<1>1. txn[e].op = "renew" /\ drv[e] \in Driving /\ txn[e].status \in Statuses \ {"unborn"}
  BY AtCommit DEF Renew, IInv, Shape
<1>2. CASE LeasedElsewhere(e, txn[e])
  <2>1. Unchanged(e) /\ superseded' = Set(superseded, e, drv[e] # "stopping") /\ UNCHANGED due
    BY <1>2 DEF Renew
  <2>2. /\ superseded' \in [Engines -> BOOLEAN]
        /\ \A d \in Engines \ {e} : superseded'[d] = superseded[d]
    BY <2>1 DEF Set, IInv, TypeOK
  <2>3. ~superseded[e] /\ (superseded'[e] => drv[e] \in Driving)
    BY <1>1 DEF IInv, Shape
  <2>4. QED
    BY <1>1, <1>2, <2>1, <2>2, <2>3 DEF CommitKeeps, Renew, Unchanged, Write, Set, IInv,
      TypeOK
<1>3. CASE ~LeasedElsewhere(e, txn[e])
  <2>1. Write(e, txn[e].status, e, 0) /\ UNCHANGED superseded /\ due' = Set(due, e, 0)
    BY <1>3 DEF Renew
  <2>2. ~HeldByLive(e, txn[e])
    BY <1>3 DEF HeldByLive
  <2>3. superseded \in [Engines -> BOOLEAN]
    BY DEF IInv, TypeOK
  <2>4. QED
    BY <1>1, <2>1, <2>2, <2>3, LeaseAssumption DEF CommitKeeps, Renew, Write, Set, IInv,
      TypeOK
<1>4. QED
  BY <1>2, <1>3

LEMMA SettleKeeps ==
  ASSUME IInv, NEW e \in Engines, Settle(e) PROVE CommitKeeps(e)
<1>1. txn[e].op = "settle" /\ txn[e].status \in Statuses \ {"unborn"}
  BY AtCommit DEF Settle
<1>2. /\ drv' \in [Engines -> {"none", "claimed"} \cup Driving]
      /\ drv'[e] \in Driving /\ drv[e] \in Driving
      /\ \A d \in Engines \ {e} : drv'[d] = drv[d]
      /\ UNCHANGED <<proc, listed, stp, superseded, due>>
  BY <1>1 DEF Settle, Set, IInv, TypeOK, Shape, Driving
<1>3. superseded \in [Engines -> BOOLEAN] /\ due \in [Engines -> 0 .. TTL]
  BY DEF IInv, TypeOK
<1>4. CASE MaySettle(e)
  <2>1. PICK outcome \in {"completed", "failed"} :
          Write(e, outcome, txn[e].owner, txn[e].age) /\ announced' = Append(announced, outcome)
    BY <1>4 DEF Settle, SetStatus, Announce
  <2>2. txn[e].status \notin Terminal /\ outcome \in Terminal
    BY <1>4 DEF MaySettle, Terminal
  <2>3. QED
    BY <1>1, <1>2, <1>3, <2>1, <2>2 DEF CommitKeeps, Write, Set, IInv, TypeOK, Statuses,
      Terminal
<1>5. CASE ~MaySettle(e)
  <2>1. Unchanged(e) /\ announced' = announced
    BY <1>5 DEF Settle
  <2>2. QED
    BY <1>1, <1>2, <1>3, <2>1 DEF CommitKeeps, Unchanged, Write, Set, IInv, TypeOK
<1>6. QED
  BY <1>4, <1>5

LEMMA CancelKeeps ==
  ASSUME IInv, NEW e \in Engines, Cancel(e) PROVE CommitKeeps(e)
<1>1. txn[e].op = "cancel" /\ txn[e].status \in Statuses \ {"unborn"}
  BY AtCommit DEF Cancel
<1>2. /\ drv' \in [Engines -> {"none", "claimed"} \cup Driving]
      /\ \A d \in Engines : drv'[d] = drv[d] \/ (drv'[d] \in Driving /\ drv[d] \in Driving)
      /\ \A d \in Engines \ {e} : drv'[d] = drv[d]
  BY DEF Cancel, AfterCancel, Set, IInv, TypeOK, Driving
<1>3. /\ superseded \in [Engines -> BOOLEAN] /\ due \in [Engines -> 0 .. TTL]
      /\ superseded[e] => drv[e] \in Driving
  BY DEF IInv, TypeOK
<1>4. CASE txn[e].status \in Terminal
  BY <1>1, <1>2, <1>3, <1>4 DEF CommitKeeps, Cancel, Unchanged, Write, Set, IInv, TypeOK
<1>5. CASE txn[e].status \notin Terminal
  <2>1. /\ Write(e, "cancelled", txn[e].owner, txn[e].age)
        /\ announced' = Append(announced, "cancelled")
    BY <1>5 DEF Cancel, SetStatus, Announce
  <2>2. QED
    BY <1>1, <1>2, <1>3, <1>5, <2>1 DEF CommitKeeps, Cancel, Write, Set, IInv, TypeOK,
      Statuses, Terminal
<1>6. QED
  BY <1>4, <1>5

\* The other commits change a status only between running, waiting and paused.
LEMMA WritesKeep ==
  ASSUME IInv, NEW e \in Engines, Writes(e)
  PROVE  CommitKeeps(e)
<1>1. CASE Release(e)
  <2>1. txn[e].op = "release" /\ txn[e].status \in Statuses \ {"unborn"}
    BY <1>1, AtCommit DEF Release
  <2>2. superseded \in [Engines -> BOOLEAN] /\ due \in [Engines -> 0 .. TTL]
    BY DEF IInv, TypeOK
  <2>3. /\ superseded' \in [Engines -> BOOLEAN] /\ ~superseded'[e]
        /\ due' \in [Engines -> 0 .. TTL] /\ due'[e] = 0
        /\ \A d \in Engines \ {e} : superseded'[d] = superseded[d] /\ due'[d] = due[d]
    BY <1>1, <2>2, LeaseAssumption DEF Release, Undrive, Set
  <2>4. /\ drv' \in [Engines -> {"none", "claimed"} \cup Driving] /\ drv'[e] \notin Driving
        /\ \A d \in Engines \ {e} : drv'[d] = drv[d]
    BY <1>1 DEF Release, Undrive, Set, IInv, TypeOK, Driving
  <2>5. QED
    BY <1>1, <2>1, <2>3, <2>4 DEF CommitKeeps, Release, Write, Unchanged, IInv, TypeOK
<1>2. CASE StepWrites(e) \/ Sleep(e) \/ Wake(e) \/ Pause(e)
  <2>1. txn[e].op # "none" /\ txn[e].status \in Statuses \ {"unborn"}
    BY <1>2, AtCommit DEF StepWrites, Sleep, Wake, Pause
  <2>2. PICK s \in Statuses \ {"unborn"} :
          /\ Write(e, s, txn[e].owner, txn[e].age)
          /\ s = txn[e].status \/ {s, txn[e].status} \cap Terminal = {}
    BY <1>2, <2>1 DEF StepWrites, Sleep, Wake, Pause, Unchanged, SetStatus, Statuses,
      Active, Terminal
  <2>3. UNCHANGED <<announced, proc, listed, drv, superseded, due>>
    BY <1>2 DEF StepWrites, Sleep, Wake, Pause, local
  <2>4. /\ stp' \in [Engines -> {"no", "exec", "asleep"}]
        /\ \A d \in Engines \ {e} : stp'[d] = stp[d]
    BY <1>2 DEF StepWrites, Sleep, Wake, Pause, local, Set, IInv, TypeOK
  <2>5. superseded \in [Engines -> BOOLEAN] /\ (superseded[e] => drv[e] \in Driving)
    BY DEF IInv, TypeOK
  <2>6. QED
    BY <2>1, <2>2, <2>3, <2>4, <2>5 DEF CommitKeeps, Write, IInv, TypeOK
<1>3. QED
  BY <1>1, <1>2, TakeKeeps, RenewKeeps, SettleKeeps, CancelKeeps DEF Writes

LEMMA LocalsKeep ==
  ASSUME IInv, NEW e \in Engines, Locals(e) PROVE LocalKeeps(e)
<1>1. CASE Find(e) \/ FindPaused(e)
  BY <1>1 DEF LocalKeeps, Find, FindPaused, Set, row, IInv, TypeOK, Active
<1>2. CASE DriverStops(e) \/ Finish(e) \/ DriverErrs(e) \/ BudgetExpires(e)
  <2>1. drv[e] \in Driving /\ txn[e].op # "settle"
    BY <1>2 DEF DriverStops, Finish, DriverErrs, BudgetExpires, AtBoundary, NoTxn, IInv,
      Shape, Driving
  <2>2. PICK s \in Driving : drv' = Set(drv, e, s)
    BY <1>2, Zenon DEF DriverStops, Finish, DriverErrs, BudgetExpires, Driving
  <2>3. UNCHANGED <<row, announced, txn, proc, listed, stp, superseded, due>>
    BY <1>2 DEF DriverStops, Finish, DriverErrs, BudgetExpires
  <2>4. QED
    BY <2>1, <2>2, <2>3 DEF LocalKeeps, Set, row, IInv, TypeOK
<1>3. CASE RunStep(e) \/ StepStops(e)
  <2>1. ~Idle(e)
    BY <1>3 DEF RunStep, AtBoundary, StepStops, Idle
  <2>2. QED
    BY <1>3, <2>1 DEF LocalKeeps, RunStep, StepStops, Set, row, IInv, TypeOK, Shape
<1>4. QED
  BY <1>1, <1>2, <1>3 DEF Locals

-----------------------------------------------------------------------------
(* Each kind of step preserves the invariant. *)

LEMMA LooseIsFinite == IsFiniteSet(Loose) /\ Cardinality(Loose) \in Nat
BY LeaseAssumption, FS_Subset, FS_CardinalityType DEF Loose

\* Fewer are loose, or one more and one more update is lost.
LEMMA FewerLoose ==
  ASSUME NEW S \in SUBSET Loose, Cardinality(Loose) <= lost, lost \in Nat
  PROVE  Cardinality(S) <= lost
BY LooseIsFinite, FS_Subset, FS_CardinalityType
LEMMA OneMoreLoose ==
  ASSUME NEW x, NEW S \in SUBSET (Loose \cup {x}), Cardinality(Loose) <= lost, lost \in Nat
  PROVE  Cardinality(S) <= lost + 1
<1>1. /\ IsFiniteSet(Loose \cup {x}) /\ Cardinality(Loose \cup {x}) \in Nat
      /\ Cardinality(Loose \cup {x}) <= Cardinality(Loose) + 1
  <2>1. CASE x \in Loose
    BY <2>1, LooseIsFinite, Loose \cup {x} = Loose
  <2>2. CASE x \notin Loose
    BY <2>2, LooseIsFinite, FS_AddElement
  <2>3. QED
    BY <2>1, <2>2
<1>2. Cardinality(S) <= Cardinality(Loose \cup {x}) /\ Cardinality(S) \in Nat
  BY <1>1, FS_Subset, FS_CardinalityType
<1>3. QED
  BY <1>1, <1>2, LooseIsFinite

\* What the whole of a commit does to the drivers that the lease protects.
LEMMA CommitLoose ==
  ASSUME IInv, NEW e \in Engines, CommitKeeps(e)
  PROVE  /\ Loose' \subseteq Loose \cup {owner}
         /\ ~Stale(e) => Loose' \subseteq Loose
<1>1. ASSUME NEW d \in Engines, d \in Loose', d \notin Loose
      PROVE  d = owner /\ Stale(e)
  <2>1. Timely(d)' /\ ~Safe(d)'
    BY <1>1 DEF Loose
  <2>2. ASSUME ~Timely(d) PROVE FALSE
    <3>1. d = e
      BY <2>1, <2>2 DEF Timely, CommitKeeps
    <3>2. owner' = e /\ age' = 0 /\ due'[e] = 0 /\ ~superseded'[e]
      BY <2>1, <2>2, <3>1 DEF Timely, CommitKeeps
    <3>3. QED
      BY <2>1, <3>1, <3>2 DEF Safe
  <2>3. Timely(d) /\ Safe(d)
    BY <1>1, <2>2 DEF Loose
  <2>4. owner = d /\ age <= due[d] /\ ~superseded[d] /\ proc[d] = "up" /\ due[d] < TTL
    BY <2>3 DEF Safe, Timely, IInv, Shape, Idle, Driving
  <2>5. ASSUME ~Stale(e) PROVE FALSE
    <3>1. txn[e].owner = owner /\ txn[e].age = age
      BY <2>5 DEF Stale, Loaded
    <3>2. age < TTL
      BY <2>4, LeaseAssumption DEF IInv, TypeOK
    <3>3. CASE d = e
      <4>1. ~LeasedElsewhere(e, txn[e])
        BY <2>4, <3>1, <3>3 DEF LeasedElsewhere
      <4>2. ~superseded'[e]
        BY <2>4, <3>3, <4>1 DEF CommitKeeps
      <4>3. drv'[e] \in Driving
        BY <2>1, <3>3 DEF Timely
      <4>4. owner' = e /\ age' <= due'[e]
        BY <2>4, <3>1, <3>3, <4>3, LeaseAssumption DEF CommitKeeps
      <4>5. QED
        BY <2>1, <3>3, <4>2, <4>4 DEF Safe
    <3>4. CASE d # e
      <4>1. HeldByLive(e, txn[e])
        BY <2>4, <3>1, <3>2, <3>4, LeaseAssumption DEF HeldByLive, LeasedElsewhere,
          ProvablyDead
      <4>2. owner' = d /\ age' = age /\ due'[d] = due[d] /\ superseded'[d] = superseded[d]
        BY <2>4, <3>1, <3>4, <4>1 DEF CommitKeeps
      <4>3. QED
        BY <2>1, <2>4, <4>2 DEF Safe
    <3>5. QED
      BY <3>3, <3>4
  <2>6. QED
    BY <2>4, <2>5
<1>2. Loose' \subseteq Engines
  BY DEF Loose
<1>3. QED
  BY <1>1, <1>2

\* The announcements stay within their price.
LEMMA CommitAnnounces ==
  ASSUME IInv, NEW e \in Engines, CommitKeeps(e)
  PROVE  /\ AnnouncedOnce'
         /\ \A d \in Engines : Heard(txn[d].status)'
         /\ announced' \in Seq(Terminal)
<1>1. /\ announced \in Seq(Terminal) /\ Len(announced) \in Nat /\ lost \in Nat
      /\ \/ announced' = announced
         \/ announced' = Append(announced, status') /\ status' \in Terminal
  <2>1. announced \in Seq(Terminal) /\ lost \in Nat
    BY DEF IInv, TypeOK
  <2>2. \/ announced' = announced
        \/ announced' = Append(announced, status') /\ status' \in Terminal
    BY DEF CommitKeeps
  <2>3. QED
    BY <2>1, <2>2
<1>2. announced' \in Seq(Terminal)
  BY <1>1
<1>4. ASSUME NEW d \in Engines PROVE Heard(txn[d].status)'
  <2>1. CASE d = e
    <3>1. txn'[d].status = "unborn"
      BY <2>1 DEF CommitKeeps, Set, NoTxn, IInv, TypeOK
    <3>2. QED
      BY <3>1 DEF Heard, Terminal
  <2>2. CASE d # e
    <3>1. txn'[d] = txn[d]
      BY <2>2 DEF CommitKeeps, Set, IInv, TypeOK
    <3>2. DEFINE s == txn[d].status
    <3>3. Heard(s)
      BY DEF IInv
    <3>4. s \in Terminal => \E i \in DOMAIN announced' : announced'[i] = s
      BY <1>1, <3>3 DEF Heard
    <3>5. QED
      BY <3>1, <3>4 DEF Heard
  <2>3. QED
    BY <2>1, <2>2
<1>5. Heard(status)'
  <2>1. CASE announced' = announced /\ status' = txn[e].status
    BY <2>1 DEF Heard, IInv
  <2>2. CASE status' \notin Terminal
    BY <2>2 DEF Heard
  <2>3. CASE announced' = Append(announced, status')
    <3>1. Len(announced) + 1 \in DOMAIN announced' /\ announced'[Len(announced) + 1] = status'
      BY <1>1, <2>3
    <3>2. QED
      BY <3>1 DEF Heard
  <2>4. QED
    BY <2>1, <2>2, <2>3 DEF CommitKeeps
<1>6. Len(announced') <= lost' + (IF status' \in Terminal THEN 1 ELSE 0)
  <2>1. Len(announced) <= lost + (IF status \in Terminal THEN 1 ELSE 0)
    BY DEF IInv, AnnouncedOnce
  <2>2. \/ Len(announced') = Len(announced)
        \/ Len(announced') = Len(announced) + 1 /\ status' \in Terminal
    BY <1>1
  <2>3. CASE ~Stale(e)
    <3>1. txn[e].status = status /\ lost' = lost
      BY <2>3 DEF Stale, Loaded, CommitKeeps
    <3>2. \/ announced' = announced /\ (status' \in Terminal <=> status \in Terminal)
          \/ announced' # announced /\ status' \in Terminal /\ status \notin Terminal
      BY <1>1, <3>1 DEF CommitKeeps
    <3>3. QED
      BY <1>1, <2>1, <2>2, <3>1, <3>2
  <2>4. CASE Stale(e)
    <3>1. lost' = lost + 1
      BY <2>4 DEF CommitKeeps
    <3>2. QED
      BY <1>1, <2>1, <2>2, <3>1
  <2>5. QED
    BY <2>3, <2>4
<1>7. QED
  BY <1>2, <1>4, <1>5, <1>6 DEF AnnouncedOnce, Heard

LEMMA WriteStep ==
  ASSUME IInv, NEW e \in Engines, CommitKeeps(e) PROVE IInv'
<1>1. /\ txn[e].op # "none" /\ txn[e].owner \in Engines \cup {None} /\ txn[e].age \in 0 .. TTL
      /\ status # "unborn" /\ proc[e] = "up"
  BY AtCommit DEF CommitKeeps
<1>2. TypeOK'
  <2>1. txn' \in [Engines -> [op : Ops, status : Statuses, owner : Engines \cup {None},
                             age : 0 .. TTL]]
    BY NoTxnType DEF CommitKeeps, Set, IInv, TypeOK
  <2>2. owner' \in Engines \cup {None} /\ age' \in 0 .. TTL /\ lost' \in Nat
    BY <1>1, LeaseAssumption DEF CommitKeeps, IInv, TypeOK
  <2>3. \A d \in Engines : superseded'[d] => drv'[d] \in Driving
    BY DEF CommitKeeps, IInv, TypeOK
  <2>4. QED
    BY <2>1, <2>2, <2>3, CommitAnnounces DEF CommitKeeps, IInv, TypeOK
<1>3. ASSUME NEW d \in Engines PROVE Shape(d)'
  <2>1. CASE d = e
    <3>1. txn'[e] = NoTxn
      BY DEF CommitKeeps, Set, IInv, TypeOK
    <3>2. QED
      BY <1>1, <2>1, <3>1 DEF CommitKeeps, Shape, NoTxn
  <2>2. CASE d # e
    <3>1. txn'[d] = txn[d] /\ drv'[d] = drv[d] /\ listed'[d] = listed[d] /\ stp'[d] = stp[d]
      BY <2>2 DEF CommitKeeps, Set, IInv, TypeOK
    <3>2. Shape(d) /\ superseded'[d] = superseded[d] /\ proc' = proc /\ status' # "unborn"
      BY <2>2 DEF IInv, CommitKeeps
    <3>3. QED
      BY <1>1, <3>1, <3>2 DEF Shape, Idle
  <2>3. QED
    BY <2>1, <2>2
<1>4. ASSUME NEW d \in Engines, Timely(d)', ~superseded'[d] PROVE due'[d] < TTL
  <2>1. CASE d = e /\ due'[d] = 0
    BY <2>1, LeaseAssumption
  <2>2. CASE d # e \/ due'[d] # 0
    <3>1. Timely(d) /\ due'[d] = due[d]
      BY <1>4, <2>2 DEF Timely, CommitKeeps
    <3>2. CASE ~superseded[d]
      BY <3>1, <3>2 DEF IInv
    <3>3. CASE superseded[d]
      <4>1. d = e /\ ~superseded'[e] /\ drv'[e] \in Driving
        BY <1>4, <3>3 DEF CommitKeeps, Timely
      <4>2. QED
        BY <4>1, <3>3, <3>1, <2>2 DEF CommitKeeps
    <3>4. QED
      BY <3>2, <3>3
  <2>3. QED
    BY <2>1, <2>2
<1>5. Cardinality(Loose') <= lost'
  <2>1. lost \in Nat /\ Cardinality(Loose) <= lost
    BY DEF IInv, TypeOK
  <2>2. CASE Stale(e)
    BY <2>1, <2>2, CommitLoose, OneMoreLoose DEF CommitKeeps
  <2>3. CASE ~Stale(e)
    BY <2>1, <2>3, CommitLoose, FewerLoose DEF CommitKeeps
  <2>4. QED
    BY <2>2, <2>3
<1>6. QED
  BY <1>2, <1>3, <1>4, <1>5, CommitAnnounces DEF IInv

LEMMA LocalStep ==
  ASSUME IInv, NEW e \in Engines, LocalKeeps(e) PROVE IInv'
<1>1. TypeOK'
  <2>1. UNCHANGED <<status, owner, age, lost, announced, txn, proc, superseded, due>>
    BY DEF LocalKeeps, row
  <2>2. \A d \in Engines : superseded'[d] => drv'[d] \in Driving
    BY <2>1 DEF LocalKeeps, IInv, TypeOK
  <2>3. QED
    BY <2>1, <2>2 DEF LocalKeeps, IInv, TypeOK
<1>2. ASSUME NEW d \in Engines PROVE Shape(d)' /\ Heard(txn[d].status)'
  <2>1. Shape(d) /\ Heard(txn[d].status)
    BY DEF IInv
  <2>2. /\ UNCHANGED <<status, announced, txn, proc, superseded>>
        /\ \/ drv'[d] = drv[d]
           \/ drv'[d] \in Driving /\ drv[d] \in Driving /\ txn[d].op # "settle"
        /\ listed'[d] # listed[d] \/ stp'[d] # stp[d] => proc[d] = "up" /\ status # "unborn"
    BY DEF LocalKeeps, row
  <2>3. Shape(d)'
    BY <2>1, <2>2 DEF Shape, Idle, Driving
  <2>4. Heard(txn[d].status)'
    BY <2>1, <2>2 DEF Heard
  <2>5. QED
    BY <2>3, <2>4
<1>3. AnnouncedOnce'
  BY DEF LocalKeeps, row, IInv, AnnouncedOnce
<1>4. \A d \in Engines : Timely(d)' <=> Timely(d)
  BY DEF Timely, LocalKeeps
<1>5. \A d \in Engines : Timely(d)' /\ ~superseded'[d] => due'[d] < TTL
  BY <1>4 DEF LocalKeeps, IInv
<1>6. Loose' = Loose /\ lost' = lost
  BY <1>4 DEF Loose, Safe, LocalKeeps, row
<1>7. QED
  BY <1>1, <1>2, <1>3, <1>5, <1>6 DEF IInv

\* An update opens on a process that is up and has no other one open.
LEMMA OpenStep ==
  ASSUME IInv, NEW e \in Engines, Opens(e) PROVE IInv'
<1>1. PICK op \in Ops \ {"none"} :
        /\ Open(e, op)
        /\ op = "take" => drv'[e] = "claimed"
        /\ op \in {"renew", "release"} => drv'[e] \in Driving
        /\ op = "renew" => ~superseded'[e]
        /\ op = "settle" => drv'[e] = "settling"
  BY DEF Opens, RenewOpen, SettleOpen, ReleaseOpen, StepOpen, SleepOpen, WakeOpen, PauseOpen,
    CancelOpen, Claim, local, Set, IInv, TypeOK, Ops, Driving
<1>2. proc[e] = "up" /\ status # "unborn" /\ txn' = Set(txn, e, Loaded(op))
  BY <1>1 DEF Open
<1>3. /\ UNCHANGED <<status, owner, age, lost, announced, proc, listed, stp, due>>
      /\ \A d \in Engines :
           \/ drv'[d] = drv[d] /\ superseded'[d] = superseded[d]
           \/ d = e /\ drv[d] = "none" /\ drv'[d] = "claimed" /\ ~superseded'[d]
      /\ drv' \in [Engines -> {"none", "claimed"} \cup Driving]
      /\ superseded' \in [Engines -> BOOLEAN]
  <2>1. CASE Claim(e)
    <3>1. /\ drv \in [Engines -> {"none", "claimed"} \cup Driving]
          /\ superseded \in [Engines -> BOOLEAN]
      BY DEF IInv, TypeOK
    <3>2. /\ drv' = Set(drv, e, "claimed") /\ superseded' = Set(superseded, e, FALSE)
          /\ drv[e] = "none" /\ UNCHANGED <<row, announced, proc, listed, stp, due>>
      BY <2>1 DEF Claim
    <3>3. QED
      BY <3>1, <3>2 DEF Set, row
  <2>2. CASE UNCHANGED <<row, announced, local>>
    BY <2>2 DEF row, local, IInv, TypeOK
  <2>3. QED
    BY <2>1, <2>2 DEF Opens, RenewOpen, SettleOpen, ReleaseOpen, StepOpen, SleepOpen,
      WakeOpen, PauseOpen, CancelOpen
<1>4. TypeOK'
  <2>1. Loaded(op) \in [op : Ops, status : Statuses, owner : Engines \cup {None}, age : 0 .. TTL]
    BY DEF Loaded, IInv, TypeOK
  <2>2. txn' \in [Engines -> [op : Ops, status : Statuses, owner : Engines \cup {None},
                             age : 0 .. TTL]]
    BY <1>2, <2>1 DEF Set, IInv, TypeOK
  <2>3. \A d \in Engines : superseded'[d] => drv'[d] \in Driving
    BY <1>3 DEF IInv, TypeOK
  <2>4. QED
    BY <1>3, <2>2, <2>3 DEF IInv, TypeOK
<1>5. ASSUME NEW d \in Engines PROVE Shape(d)' /\ Heard(txn[d].status)'
  <2>1. CASE d = e
    <3>1. txn'[e] = Loaded(op)
      BY <1>2 DEF Set, IInv, TypeOK
    <3>2. /\ txn'[e].op = op /\ txn'[e].status = status /\ op # "none"
          /\ txn'[e] # NoTxn
      BY <3>1, <1>2 DEF Loaded, NoTxn
    <3>3. Shape(e)'
      BY <1>1, <1>2, <1>3, <3>2 DEF Shape
    <3>4. Heard(status)'
      BY <1>3 DEF Heard, IInv, AnnouncedOnce
    <3>5. QED
      BY <2>1, <3>2, <3>3, <3>4, <1>3
  <2>2. CASE d # e
    <3>1. txn'[d] = txn[d] /\ drv'[d] = drv[d] /\ superseded'[d] = superseded[d]
      BY <1>2, <1>3, <2>2 DEF Set, IInv, TypeOK
    <3>2. Shape(d)'
      BY <1>3, <3>1 DEF IInv, Shape, Idle
    <3>3. Heard(txn[d].status)'
      BY <1>3, <3>1 DEF IInv, Heard
    <3>4. QED
      BY <3>2, <3>3
  <2>3. QED
    BY <2>1, <2>2
<1>6. AnnouncedOnce'
  BY <1>3 DEF IInv, AnnouncedOnce
<1>7. \A d \in Engines : Timely(d)' => Timely(d) /\ superseded'[d] = superseded[d]
  BY <1>3 DEF Timely, Driving
<1>8. \A d \in Engines : Timely(d)' /\ ~superseded'[d] => due'[d] < TTL
  BY <1>3, <1>7 DEF IInv
<1>9. Loose' \subseteq Loose
  BY <1>3, <1>7 DEF Loose, Safe
<1>10. Cardinality(Loose') <= lost'
  BY <1>3, <1>9, FewerLoose DEF IInv, TypeOK
<1>11. QED
  BY <1>4, <1>5, <1>6, <1>8, <1>10 DEF IInv

\* An update that is dropped leaves no trace in the row.
LEMMA DropStep ==
  ASSUME IInv, NEW e \in Engines, Drops(e) PROVE IInv'
<1>1. /\ UNCHANGED <<status, owner, age, lost, announced>> /\ txn' = Set(txn, e, NoTxn)
      /\ \/ UNCHANGED local /\ txn[e].op = "renew"
         \/ Crash(e)
         \/ Undrive(e) /\ UNCHANGED <<proc, listed, stp>> /\ drv[e] = "stopping"
  BY DEF Drops, Crash, ReleaseFails, RenewAborted, row
<1>2. /\ proc' \in [Engines -> {"up", "dead"}]
      /\ listed' \in [Engines -> {"no", "recover", "resume"}]
      /\ drv' \in [Engines -> {"none", "claimed"} \cup Driving]
      /\ stp' \in [Engines -> {"no", "exec", "asleep"}]
      /\ superseded' \in [Engines -> BOOLEAN] /\ due' \in [Engines -> 0 .. TTL]
      /\ \A d \in Engines \ {e} :
           /\ proc'[d] = proc[d] /\ listed'[d] = listed[d] /\ drv'[d] = drv[d]
           /\ stp'[d] = stp[d] /\ superseded'[d] = superseded[d] /\ due'[d] = due[d]
      /\ \/ /\ proc'[e] = proc[e] /\ listed'[e] = listed[e] /\ drv'[e] = drv[e]
            /\ stp'[e] = stp[e] /\ superseded'[e] = superseded[e] /\ due'[e] = due[e]
         \/ /\ proc'[e] = "dead" /\ drv'[e] = "none" /\ listed'[e] = "no"
            /\ stp'[e] = "no" /\ ~superseded'[e]
         \/ /\ proc'[e] = proc[e] /\ listed'[e] = listed[e] /\ stp'[e] = stp[e]
            /\ drv'[e] = "none" /\ ~superseded'[e] /\ drv[e] = "stopping"
  <2>1. /\ proc \in [Engines -> {"up", "dead"}]
        /\ listed \in [Engines -> {"no", "recover", "resume"}]
        /\ drv \in [Engines -> {"none", "claimed"} \cup Driving]
        /\ stp \in [Engines -> {"no", "exec", "asleep"}]
        /\ superseded \in [Engines -> BOOLEAN] /\ due \in [Engines -> 0 .. TTL]
    BY DEF IInv, TypeOK
  <2>2. CASE UNCHANGED local
    BY <2>1, <2>2 DEF local
  <2>3. CASE Crash(e)
    BY <2>1, <2>3, LeaseAssumption DEF Crash, Set
  <2>4. CASE Undrive(e) /\ UNCHANGED <<proc, listed, stp>> /\ drv[e] = "stopping"
    BY <2>1, <2>4, LeaseAssumption DEF Undrive, Set
  <2>5. QED
    BY <1>1, <2>2, <2>3, <2>4
<1>3. ASSUME NEW d \in Engines
      PROVE  txn'[d] = NoTxn \/ (d # e /\ txn'[d] = txn[d])
  BY <1>1 DEF Set, IInv, TypeOK
<1>4. TypeOK'
  <2>1. txn' \in [Engines -> [op : Ops, status : Statuses, owner : Engines \cup {None},
                             age : 0 .. TTL]]
    BY <1>1, NoTxnType DEF Set, IInv, TypeOK
  <2>2. \A d \in Engines : superseded'[d] => drv'[d] \in Driving
    BY <1>2 DEF IInv, TypeOK
  <2>3. QED
    BY <1>1, <1>2, <2>1, <2>2 DEF IInv, TypeOK
<1>5. ASSUME NEW d \in Engines PROVE Shape(d)' /\ Heard(txn[d].status)'
  <2>1. Shape(d) /\ Heard(txn[d].status)
    BY DEF IInv
  <2>2. Shape(d)'
    <3>1. CASE d = e
      <4>1. txn'[e] = NoTxn
        BY <1>1 DEF Set, IInv, TypeOK
      <4>2. Shape(e)
        BY DEF IInv
      <4>3. QED
        BY <1>1, <1>2, <3>1, <4>1, <4>2 DEF Shape, Idle, NoTxn
    <3>2. CASE d # e
      <4>1. txn'[d] = txn[d]
        BY <1>1, <3>2 DEF Set, IInv, TypeOK
      <4>2. QED
        BY <1>1, <1>2, <2>1, <3>2, <4>1 DEF Shape, Idle
    <3>3. QED
      BY <3>1, <3>2
  <2>3. Heard(txn[d].status)'
    <3>1. CASE txn'[d] = NoTxn
      BY <3>1 DEF Heard, NoTxn, Terminal
    <3>2. CASE txn'[d] = txn[d]
      BY <1>1, <2>1, <3>2 DEF Heard
    <3>3. QED
      BY <1>3, <3>1, <3>2
  <2>4. QED
    BY <2>2, <2>3
<1>6. AnnouncedOnce'
  BY <1>1 DEF IInv, AnnouncedOnce
<1>7. \A d \in Engines :
        Timely(d)' => Timely(d) /\ superseded'[d] = superseded[d] /\ due'[d] = due[d]
  BY <1>2 DEF Timely, Driving
<1>8. \A d \in Engines : Timely(d)' /\ ~superseded'[d] => due'[d] < TTL
  BY <1>7 DEF IInv
<1>9. Loose' \subseteq Loose
  BY <1>1, <1>7 DEF Loose, Safe
<1>10. Cardinality(Loose') <= lost'
  BY <1>1, <1>9, FewerLoose DEF IInv, TypeOK
<1>11. QED
  BY <1>4, <1>5, <1>6, <1>8, <1>10 DEF IInv

\* Before the run begins nobody does anything; then one engine drives it, on its lease.
LEMMA StartStep ==
  ASSUME IInv, NEW e \in Engines, Start(e) PROVE IInv'
<1>1. /\ status = "unborn" /\ proc[e] = "up" /\ status' = "running" /\ owner' = e /\ age' = 0
      /\ drv' = Set(drv, e, "running") /\ due' = Set(due, e, 0)
      /\ UNCHANGED <<lost, announced, txn, proc, listed, stp, superseded>>
  BY DEF Start
<1>2. /\ drv \in [Engines -> {"none", "claimed"} \cup Driving]
      /\ superseded \in [Engines -> BOOLEAN] /\ due \in [Engines -> 0 .. TTL]
      /\ lost \in Nat /\ Len(announced) \in Nat
  BY DEF IInv, TypeOK
<1>3. \A d \in Engines : Idle(d) /\ ~superseded[d]
  BY <1>1 DEF IInv, Shape, TypeOK, Idle, Driving
<1>4. /\ drv' \in [Engines -> {"none", "claimed"} \cup Driving] /\ due' \in [Engines -> 0 .. TTL]
      /\ \A d \in Engines : drv'[d] = IF d = e THEN "running" ELSE "none"
      /\ due'[e] = 0
  BY <1>1, <1>2, <1>3, LeaseAssumption DEF Set, Idle, Driving
<1>5. TypeOK'
  BY <1>1, <1>3, <1>4, LeaseAssumption DEF IInv, TypeOK, Statuses, Active
<1>6. ASSUME NEW d \in Engines PROVE Shape(d)' /\ Heard(txn[d].status)'
  BY <1>1, <1>3, <1>4 DEF IInv, Shape, Idle, Heard, NoTxn, Terminal
<1>7. AnnouncedOnce'
  BY <1>1, <1>2 DEF IInv, AnnouncedOnce, Terminal
<1>8. \A d \in Engines : Timely(d)' => d = e
  BY <1>4 DEF Timely, Driving
<1>9. \A d \in Engines : Timely(d)' => due'[d] < TTL /\ Safe(d)'
  BY <1>1, <1>3, <1>4, <1>8, LeaseAssumption DEF Safe
<1>10. Loose' = {}
  BY <1>9 DEF Loose
<1>11. Cardinality(Loose') <= lost'
  BY <1>1, <1>2, <1>10, FS_EmptySet
<1>12. QED
  BY <1>5, <1>6, <1>7, <1>9, <1>11 DEF IInv

\* While time passes, a lease in force is written before it lapses.
LEMMA TickStep ==
  ASSUME IInv, Tick PROVE IInv'
<1>1. /\ UNCHANGED <<status, owner, lost, announced, proc, listed, drv, stp, superseded>>
      /\ \A d \in Engines : Renewed(d)
  BY DEF Tick
<1>2. ASSUME NEW a \in 0 .. TTL PROVE Older(a) \in 0 .. TTL
  BY LeaseAssumption DEF Older
<1>3. ASSUME NEW d \in Engines
      PROVE  /\ txn'[d].op = txn[d].op /\ txn'[d].status = txn[d].status
             /\ txn[d] = NoTxn => txn'[d] = NoTxn
             /\ txn'[d] \in [op : Ops, status : Statuses, owner : Engines \cup {None},
                             age : 0 .. TTL]
  <2>1. txn[d] \in [op : Ops, status : Statuses, owner : Engines \cup {None}, age : 0 .. TTL]
    BY DEF IInv, TypeOK
  <2>2. txn'[d] = IF txn[d].owner = None THEN txn[d]
                  ELSE [txn[d] EXCEPT !.age = Older(txn[d].age)]
    BY DEF Tick
  <2>3. Older(txn[d].age) \in 0 .. TTL
    BY <1>2, <2>1
  <2>4. QED
    BY <2>1, <2>2, <2>3 DEF NoTxn
<1>4. ASSUME NEW d \in Engines
      PROVE  due'[d] = (IF Timely(d) THEN Older(due[d]) ELSE due[d]) /\ due'[d] \in 0 .. TTL
  BY <1>2 DEF Tick, IInv, TypeOK
<1>5. TypeOK'
  <2>1. txn' \in [Engines -> [op : Ops, status : Statuses, owner : Engines \cup {None},
                             age : 0 .. TTL]]
    BY <1>3 DEF Tick
  <2>2. due' \in [Engines -> 0 .. TTL] /\ age' \in 0 .. TTL
    BY <1>2, <1>4 DEF Tick, IInv, TypeOK
  <2>3. QED
    BY <1>1, <2>1, <2>2 DEF IInv, TypeOK
<1>6. ASSUME NEW d \in Engines PROVE Shape(d)' /\ Heard(txn[d].status)'
  <2>1. Shape(d) /\ Heard(txn[d].status)
    BY DEF IInv
  <2>2. txn'[d].op = "none" <=> txn'[d] = NoTxn
    BY <1>3, <2>1 DEF Shape, NoTxn
  <2>3. Shape(d)'
    BY <1>1, <1>3, <2>1, <2>2 DEF Shape, Idle
  <2>4. Heard(txn[d].status)'
    BY <1>1, <1>3, <2>1 DEF Heard
  <2>5. QED
    BY <2>3, <2>4
<1>7. AnnouncedOnce'
  BY <1>1 DEF IInv, AnnouncedOnce
<1>8. \A d \in Engines : Timely(d)' <=> Timely(d)
  BY <1>1 DEF Timely
<1>9. \A d \in Engines : Timely(d)' /\ ~superseded'[d] => due'[d] < TTL
  BY <1>1, <1>4, <1>8, LeaseAssumption DEF Renewed, Older, IInv, TypeOK
<1>10. Loose' \subseteq Loose
  <2>1. ASSUME NEW d \in Engines, Timely(d), Safe(d) PROVE Safe(d)'
    <3>1. ~superseded[d] /\ owner = d /\ age <= due[d] /\ age \in 0 .. TTL /\ due[d] \in 0 .. TTL
      BY <2>1 DEF Safe, IInv, TypeOK
    <3>2. age' = Older(age) /\ due'[d] = Older(due[d])
      BY <1>4, <2>1, <3>1, LeaseAssumption DEF Tick
    <3>3. age' <= due'[d]
      BY <3>1, <3>2, LeaseAssumption DEF Older
    <3>4. QED
      BY <1>1, <3>1, <3>3 DEF Safe
  <2>2. QED
    BY <1>8, <2>1 DEF Loose
<1>11. Cardinality(Loose') <= lost'
  BY <1>1, <1>10, FewerLoose DEF IInv, TypeOK
<1>12. QED
  BY <1>5, <1>6, <1>7, <1>9, <1>11 DEF IInv

-----------------------------------------------------------------------------
(* The theorems. *)

\* What every reachable state satisfies, and every step keeps.
THEOREM Inductive == Spec => []IInv
<1>1. Init => IInv
  <2> SUFFICES ASSUME Init PROVE IInv
    OBVIOUS
  <2>1. TypeOK
    BY NoTxnType, LeaseAssumption DEF Init, TypeOK, Statuses
  <2>2. \A e \in Engines : Shape(e) /\ Heard(txn[e].status)
    BY DEF Init, Shape, Idle, Heard, NoTxn, Terminal
  <2>3. AnnouncedOnce
    BY DEF Init, AnnouncedOnce, Terminal
  <2>4. \A e \in Engines : ~Timely(e)
    BY DEF Init, Timely, Driving
  <2>5. Cardinality(Loose) <= lost
    <3>1. Loose = {}
      BY <2>4 DEF Loose
    <3>2. QED
      BY <3>1, FS_EmptySet DEF Init
  <2>6. QED
    BY <2>1, <2>2, <2>3, <2>4, <2>5 DEF IInv
<1>2. IInv /\ [Next]_vars => IInv'
  <2> SUFFICES ASSUME IInv, [Next]_vars PROVE IInv'
    OBVIOUS
  <2>1. CASE Next
    BY <2>1, Kinds, WritesKeep, WriteStep, LocalsKeep, LocalStep, OpenStep, DropStep,
      StartStep, TickStep
  <2>2. CASE UNCHANGED vars
    <3>1. /\ UNCHANGED <<status, owner, age, lost, announced, txn, proc, listed, drv, stp>>
          /\ UNCHANGED <<superseded, due>>
      BY <2>2 DEF vars, row, local
    <3>2. Loose' = Loose /\ TypeOK' /\ AnnouncedOnce'
      BY <3>1 DEF Loose, Timely, Safe, IInv, TypeOK, AnnouncedOnce
    <3>3. QED
      BY <3>1, <3>2 DEF IInv, Shape, Idle, Heard, Timely
  <2>3. QED
    BY <2>1, <2>2
<1>3. QED
  BY <1>1, <1>2, PTL DEF Spec

\* Types, and no take-over mark outlives the driver it was meant for.
THEOREM TypesHold == Spec => []TypeOK
<1>1. IInv => TypeOK
  BY DEF IInv
<1>2. QED
  BY <1>1, Inductive, PTL

\* The outcome the row has was announced; another one takes a lost update each.
THEOREM OutcomeAnnouncedOnce == Spec => []AnnouncedOnce
<1>1. IInv => AnnouncedOnce
  BY DEF IInv
<1>2. QED
  BY <1>1, Inductive, PTL

\* Of the engines that renew in time, no more than lost updates lose the run they drive.
THEOREM LeaseKept == Spec => []DriverHoldsLease
<1>1. IInv => DriverHoldsLease
  <2> SUFFICES ASSUME IInv PROVE DriverHoldsLease
    OBVIOUS
  <2>1. ASSUME NEW e \in Ousted PROVE e \in Loose
    <3>1. e \in Engines /\ Timely(e) /\ ~(owner = e /\ age < TTL)
      BY <2>1 DEF Ousted
    <3>2. ~Safe(e)
      BY <3>1, LeaseAssumption DEF Safe, IInv, TypeOK
    <3>3. QED
      BY <3>1, <3>2 DEF Loose
  <2>2. Ousted \in SUBSET Loose
    BY <2>1
  <2>3. QED
    BY <2>2, FewerLoose DEF IInv, TypeOK, DriverHoldsLease
<1>2. QED
  BY <1>1, Inductive, PTL

\* So one of them drives, and one more for each lost update.
THEOREM NoSecondDriver == Spec => []OneDriver
<1>1. IInv => OneDriver
  <2> SUFFICES ASSUME IInv PROVE OneDriver
    OBVIOUS
  <2>1. {e \in Engines : Timely(e)} \in SUBSET (Loose \cup {owner})
    BY DEF Loose, Safe
  <2>2. QED
    BY <2>1, OneMoreLoose DEF IInv, TypeOK, OneDriver
<1>2. QED
  BY <1>1, Inductive, PTL

\* No step of any process changes the status of a settled run, but for one that writes
\* over another's update.
THEOREM SettledRunStays == Spec => SettledStays
<1>1. IInv /\ [Next]_vars
        => [(status \in Terminal) /\ status' # status => lost' = lost + 1]_vars
  <2> SUFFICES ASSUME IInv, Next, status \in Terminal, status' # status
               PROVE  lost' = lost + 1
    BY DEF vars, row
  <2>1. CASE Tick
    BY <2>1 DEF Tick
  <2>2. ASSUME NEW e \in Engines, Opens(e) \/ Drops(e)
        PROVE  status' = status
    BY <2>2 DEF Opens, RenewOpen, SettleOpen, ReleaseOpen, StepOpen, SleepOpen, WakeOpen,
      PauseOpen, CancelOpen, Claim, Drops, Crash, ReleaseFails, RenewAborted, row
  <2>3. ASSUME NEW e \in Engines, CommitKeeps(e), ~Stale(e)
        PROVE  status' = status
    BY <2>3 DEF CommitKeeps, Stale, Loaded
  <2>4. ASSUME NEW e \in Engines, CommitKeeps(e), Stale(e)
        PROVE  lost' = lost + 1
    BY <2>4 DEF CommitKeeps
  <2>5. ASSUME NEW e \in Engines, Locals(e) PROVE status' = status
    BY <2>5, LocalsKeep DEF LocalKeeps, row
  <2>6. ASSUME NEW e \in Engines, Start(e) PROVE status' = status
    BY <2>6 DEF Start, Terminal
  <2>7. QED
    BY <2>1, <2>2, <2>3, <2>4, <2>5, <2>6, Kinds, WritesKeep
<1>2. QED
  BY <1>1, Inductive, PTL DEF Spec, SettledStays

-----------------------------------------------------------------------------
(* The refinement of RunRegistry. *)

Drivers == {e \in Engines : drv[e] \in Driving}
Dead    == {e \in Engines : ProvablyDead(e)}
Row     == [status |-> status, owner |-> owner, lapsed |-> age >= TTL]
\* The record an update of e is decided on: the one it loaded.
Basis(e) == [status |-> txn[e].status, owner |-> txn[e].owner, lapsed |-> txn[e].age >= TTL]
Stutter == UNCHANGED <<Row, lost, announced, Drivers, Dead>>

\* A lease that was just written has not lapsed.
LEMMA Fresh ==
  ASSUME age' = 0
  PROVE  Row' = Registry!Record(status', owner', FALSE)
<1>1. (age' >= TTL) = FALSE
  BY LeaseAssumption
<1>2. Row' = [status |-> status', owner |-> owner', lapsed |-> age' >= TTL]
  BY DEF Row
<1>3. QED
  BY <1>1, <1>2, Zenon DEF Registry!Record

LEMMA Stutters ==
  ASSUME Stutter PROVE UNCHANGED Registry!registry
BY DEF Stutter, Row, Drivers, Dead, Registry!registry

\* Who drives and who is dead, when one process goes on.
LEMMA DriversMove ==
  ASSUME IInv, NEW e \in Engines, NEW s \in {"none", "claimed"} \cup Driving,
         drv' = Set(drv, e, s)
  PROVE  Drivers' = IF s \in Driving THEN Drivers \cup {e} ELSE Drivers \ {e}
<1>1. \A d \in Engines : drv'[d] = IF d = e THEN s ELSE drv[d]
  BY DEF Set, IInv, TypeOK
<1>2. \A d \in Engines : d \in Drivers' <=> drv'[d] \in Driving
  BY DEF Drivers
<1>3. QED
  BY <1>1, <1>2 DEF Drivers

LEMMA DriversStay ==
  ASSUME IInv, NEW e \in Engines, NEW s \in {"none", "claimed"} \cup Driving,
         drv' = Set(drv, e, s), s \in Driving <=> drv[e] \in Driving
  PROVE  Drivers' = Drivers
BY DriversMove DEF Drivers

\* A lease that is not somebody else's is free, one that is not a live executor's may
\* be taken: in the record that was loaded.
LEMMA Leases ==
  ASSUME IInv, NEW e \in Engines, txn[e].op # "none"
  PROVE  /\ ~LeasedElsewhere(e, txn[e]) => Registry!Free(e, Basis(e))
         /\ ~HeldByLive(e, txn[e]) => Registry!Free(e, Basis(e)) \/ txn[e].owner \in Dead
<1>1. txn[e].age < TTL <=> ~(txn[e].age >= TTL)
  BY AtCommit, LeaseAssumption
<1>2. ~LeasedElsewhere(e, txn[e]) => Registry!Free(e, Basis(e))
  BY <1>1 DEF LeasedElsewhere, Basis, Registry!Free
<1>3. txn[e].owner # None => (txn[e].owner \in Dead <=> ProvablyDead(txn[e].owner))
  BY AtCommit DEF Dead
<1>4. QED
  BY <1>2, <1>3 DEF HeldByLive, LeasedElsewhere

\* An engine that commits is up, so it is not known to be dead, and the status it
\* loaded is one of a run that goes on or a settled one.
LEMMA Committing ==
  ASSUME IInv, NEW e \in Engines, txn[e].op # "none"
  PROVE  /\ e \notin Dead
         /\ Basis(e) \in Registry!Rows
         /\ txn[e].status \notin Terminal => txn[e].status \in Registry!Open
<1>1. e \notin Dead
  BY AtCommit DEF Dead, ProvablyDead
<1>2. txn[e].status \in Registry!Open \cup Registry!Terminal
  BY AtCommit DEF Statuses, Active, Terminal, Registry!Open, Registry!Active,
    Registry!Terminal
<1>3. Basis(e) \in Registry!Rows
  BY <1>2, AtCommit DEF Basis, Registry!Rows
<1>4. QED
  BY <1>1, <1>2, <1>3 DEF Terminal, Registry!Terminal

\* What an update writes when it has nothing to do.
LEMMA NothingMaps ==
  ASSUME NEW e \in Engines, NEW r, r = Basis(e), Unchanged(e),
         UNCHANGED <<announced, Drivers, Dead>>
  PROVE  Registry!Update(r)
<1>1. Row' = r
  BY DEF Row, Basis, Unchanged, Write
<1>2. Registry!Nothing(r) /\ Dead' = Dead
  BY <1>1 DEF Registry!Nothing, Row, Drivers, Dead
<1>3. QED
  BY <1>2, Zenon DEF Registry!Update, Dead

LEMMA TakeMaps ==
  ASSUME IInv, NEW e \in Engines, NEW r, r = Basis(e), Take(e)
  PROVE  Registry!Update(r)
<1>1. txn[e].op # "none" /\ drv[e] = "claimed" /\ e \notin Dead
  BY Committing DEF Take, IInv, Shape
<1>2. UNCHANGED <<announced, proc>> /\ Dead' = Dead
  BY DEF Take, Dead, ProvablyDead
<1>3. e \notin Drivers
  BY <1>1 DEF Drivers, Driving
<1>4. CASE MayTake(e)
  <2>1. status' = "running" /\ owner' = e /\ age' = 0 /\ drv' = Set(drv, e, "running")
    BY <1>4 DEF Take, Write
  <2>2. r.status \in Registry!Open /\ ~HeldByLive(e, txn[e])
    BY <1>1, <1>4, Committing DEF MayTake, Basis
  <2>3. Drivers' = Drivers \cup {e}
    BY <2>1, DriversMove DEF Driving
  <2>4. Registry!Free(e, r) \/ r.owner \in Dead
    BY <1>1, <2>2, Leases DEF Basis
  <2>5. Row' = Registry!Record("running", e, FALSE)
    BY <2>1, Fresh
  <2>6. Registry!Drive(e)
    BY <1>1, <1>3, <2>3 DEF Registry!Drive, Drivers, Dead
  <2>7. Registry!TakeOver(e, r)
    BY <1>2, <2>2, <2>4, <2>5, <2>6 DEF Registry!TakeOver, Dead, Row
  <2>8. QED
    BY <1>2, <2>7, Zenon DEF Registry!Update, Dead
<1>5. CASE ~MayTake(e)
  <2>1. Unchanged(e) /\ drv' = Set(drv, e, "none")
    BY <1>5 DEF Take
  <2>2. Drivers' = Drivers
    BY <1>1, <2>1, DriversStay DEF Driving
  <2>3. QED
    BY <1>2, <2>1, <2>2, NothingMaps
<1>6. QED
  BY <1>4, <1>5

LEMMA RenewMaps ==
  ASSUME IInv, NEW e \in Engines, NEW r, r = Basis(e), Renew(e)
  PROVE  Registry!Update(r)
<1>1. txn[e].op # "none" /\ e \in Drivers
  BY DEF Renew, IInv, Shape, Drivers
<1>2. UNCHANGED announced /\ Dead' = Dead /\ Drivers' = Drivers
  BY DEF Renew, Dead, ProvablyDead, Drivers
<1>3. CASE LeasedElsewhere(e, txn[e])
  BY <1>2, <1>3, NothingMaps DEF Renew
<1>4. CASE ~LeasedElsewhere(e, txn[e])
  <2>1. status' = txn[e].status /\ owner' = e /\ age' = 0
    BY <1>4 DEF Renew, Write
  <2>2. Row' = Registry!Record(r.status, e, FALSE)
    BY <2>1, Fresh DEF Basis
  <2>3. Registry!Free(e, r)
    BY <1>1, <1>4, Leases
  <2>4. Registry!Renew(e, r)
    BY <1>1, <1>2, <2>2, <2>3 DEF Registry!Renew, Row, Drivers
  <2>5. QED
    BY <1>2, <2>4, Zenon DEF Registry!Update, Dead
<1>5. QED
  BY <1>3, <1>4

LEMMA SettleMaps ==
  ASSUME IInv, NEW e \in Engines, NEW r, r = Basis(e), Settle(e)
  PROVE  Registry!Update(r)
<1>1. txn[e].op # "none" /\ drv[e] = "settling" /\ drv' = Set(drv, e, "stopping")
  BY DEF Settle, IInv, Shape
<1>2. Dead' = Dead /\ Drivers' = Drivers
  BY <1>1, DriversStay DEF Settle, Dead, ProvablyDead, Driving
<1>3. CASE MaySettle(e)
  <2>1. PICK s \in {"completed", "failed"} :
          /\ status' = s /\ owner' = txn[e].owner /\ age' = txn[e].age
          /\ announced' = Append(announced, s)
    BY <1>3 DEF Settle, SetStatus, Write, Announce
  <2>2. r.status \in Registry!Open /\ ~LeasedElsewhere(e, txn[e])
    BY <1>1, <1>3, Committing DEF MaySettle, Basis
  <2>3. Registry!Free(e, r)
    BY <1>1, <2>2, Leases
  <2>4. Row' = [r EXCEPT !.status = s]
    BY <2>1 DEF Row, Basis
  <2>5. Registry!Conclude(s, r)
    BY <1>2, <2>1, <2>2, <2>4 DEF Registry!Conclude, Registry!Becomes, Row, Drivers
  <2>6. e \in Drivers
    BY <1>1 DEF Drivers, Driving
  <2>7. Registry!Settle(e, r)
    BY <2>3, <2>5, <2>6 DEF Registry!Settle, Drivers
  <2>8. QED
    BY <1>2, <2>7, Zenon DEF Registry!Update, Dead
<1>4. CASE ~MaySettle(e)
  BY <1>2, <1>4, NothingMaps DEF Settle
<1>5. QED
  BY <1>3, <1>4

LEMMA CancelMaps ==
  ASSUME IInv, NEW e \in Engines, NEW r, r = Basis(e), Cancel(e)
  PROVE  Registry!Update(r)
<1>1. txn[e].op # "none"
  BY DEF Cancel
<1>2. UNCHANGED proc /\ Dead' = Dead /\ Drivers' = Drivers
  BY DriversStay DEF Cancel, AfterCancel, Dead, ProvablyDead, Driving, Drivers
<1>3. CASE txn[e].status \in Terminal
  BY <1>2, <1>3, NothingMaps DEF Cancel
<1>4. CASE txn[e].status \notin Terminal
  <2>1. /\ status' = "cancelled" /\ owner' = txn[e].owner /\ age' = txn[e].age
        /\ announced' = Append(announced, "cancelled")
    BY <1>4 DEF Cancel, SetStatus, Write, Announce
  <2>2. r.status \in Registry!Open
    BY <1>1, <1>4, Committing DEF Basis
  <2>3. Row' = [r EXCEPT !.status = "cancelled"]
    BY <2>1 DEF Row, Basis
  <2>4. Registry!Cancel(r)
    BY <1>2, <2>1, <2>2, <2>3 DEF Registry!Cancel, Registry!Conclude, Registry!Becomes, Row,
      Drivers
  <2>5. QED
    BY <1>2, <2>4, Zenon DEF Registry!Update, Dead
<1>5. QED
  BY <1>3, <1>4

LEMMA ReleaseMaps ==
  ASSUME IInv, NEW e \in Engines, NEW r, r = Basis(e), Release(e)
  PROVE  Registry!Update(r)
<1>1. UNCHANGED announced /\ Dead' = Dead /\ Drivers' = Drivers \ {e}
  BY DriversMove DEF Release, Undrive, Dead, ProvablyDead, Driving
<1>2. e \in Drivers
  BY DEF Release, IInv, Shape, Drivers
<1>3. Row' = IF r.owner = e THEN Registry!Record(r.status, None, FALSE)
             ELSE r
  <2>1. CASE txn[e].owner = e
    BY <2>1, Fresh DEF Release, Write, Basis
  <2>2. CASE txn[e].owner # e
    BY <2>2 DEF Release, Unchanged, Write, Row, Basis
  <2>3. QED
    BY <2>1, <2>2
<1>4. Registry!Leave(e, r)
  BY <1>1, <1>2, <1>3 DEF Registry!Leave, Row, Drivers
<1>5. QED
  BY <1>1, <1>4, Zenon DEF Registry!Update, Dead

\* A step that waits, wakes or writes its context; a pause.
LEMMA StatusMaps ==
  ASSUME IInv, NEW e \in Engines, NEW r, r = Basis(e),
         StepWrites(e) \/ Sleep(e) \/ Wake(e) \/ Pause(e)
  PROVE  Registry!Update(r)
<1>1. txn[e].op # "none"
  BY DEF StepWrites, Sleep, Wake, Pause
<1>2. UNCHANGED announced /\ Dead' = Dead /\ Drivers' = Drivers
  BY DEF StepWrites, Sleep, Wake, Pause, local, Dead, ProvablyDead, Drivers
<1>3. PICK s : /\ Write(e, s, txn[e].owner, txn[e].age)
               /\ \/ s = txn[e].status
                  \/ txn[e].status \in Active /\ s = "paused"
                  \/ txn[e].status \notin Terminal /\ s = "waiting"
                  \/ txn[e].status = "waiting" /\ s = "running"
  BY DEF StepWrites, Sleep, Wake, Pause, Unchanged, SetStatus
<1>4. Row' = [r EXCEPT !.status = s]
  BY <1>3 DEF Write, Row, Basis
<1>5. CASE s = txn[e].status
  <2>1. Unchanged(e)
    BY <1>3, <1>5 DEF Unchanged
  <2>2. QED
    BY <1>2, <2>1, NothingMaps
<1>6. CASE s # txn[e].status
  <2>1. \/ r.status \in Registry!Active /\ s = "paused"
        \/ r.status \in Registry!Open /\ s = "waiting"
        \/ r.status = "waiting" /\ s = "running"
    BY <1>1, <1>3, <1>6, Committing DEF Basis, Active, Registry!Active
  <2>2. Registry!Becomes(s, r)
    BY <1>2, <1>4 DEF Registry!Becomes, Row, Drivers
  <2>3. Registry!Pause(r) \/ Registry!Wait(r) \/ Registry!Wake(r)
    BY <1>2, <2>1, <2>2 DEF Registry!Pause, Registry!Wait, Registry!Wake
  <2>4. QED
    BY <1>2, <2>3, Zenon DEF Registry!Update, Dead
<1>7. QED
  BY <1>5, <1>6

\* An update that is not stale is decided on the record as it is; another is counted.
LEMMA WriteMaps ==
  ASSUME IInv, NEW e \in Engines, Writes(e)
  PROVE  Registry!Next
<1>1. PICK r : r = Basis(e)
  OBVIOUS
<1>2. Registry!Update(r)
  BY <1>1, TakeMaps, RenewMaps, SettleMaps, CancelMaps, ReleaseMaps, StatusMaps DEF Writes
<1>3. txn[e].op # "none" /\ lost' = IF Stale(e) THEN lost + 1 ELSE lost
  BY WritesKeep DEF CommitKeeps
<1>4. r \in Registry!Rows
  BY <1>1, <1>3, Committing
<1>5. ~Stale(e) => r = Row
  BY <1>1 DEF Stale, Loaded, Basis, Row
<1>6. lost' = lost + 1 \/ (lost' = lost /\ r = Row)
  BY <1>3, <1>5
<1>7. QED
  BY <1>2, <1>4, <1>6, Zenon DEF Registry!Next, Row

\* What a process does on its own does not show, but for its end.
LEMMA LocalMaps ==
  ASSUME IInv, NEW e \in Engines, Locals(e)
  PROVE  Stutter
<1>1. LocalKeeps(e)
  BY LocalsKeep
<1>2. \A d \in Engines : drv'[d] \in Driving <=> drv[d] \in Driving
  BY <1>1 DEF LocalKeeps
<1>3. Drivers' = Drivers /\ Dead' = Dead
  BY <1>1, <1>2 DEF Drivers, Dead, ProvablyDead, LocalKeeps
<1>4. QED
  BY <1>1, <1>3 DEF LocalKeeps, Stutter, Row, row

\* To open an update shows nowhere, nor does a renewal that is aborted.
LEMMA OpenMaps ==
  ASSUME IInv, NEW e \in Engines, Opens(e) \/ RenewAborted(e)
  PROVE  Stutter
<1>1. CASE Claim(e)
  <2>1. Drivers' = Drivers
    BY <1>1, DriversStay DEF Claim, Driving
  <2>2. QED
    BY <1>1, <2>1 DEF Claim, Stutter, Row, row, Dead, ProvablyDead
<1>2. CASE ~Claim(e)
  <2>1. UNCHANGED <<row, announced, local>>
    BY <1>2 DEF Opens, RenewOpen, SettleOpen, ReleaseOpen, StepOpen, SleepOpen, WakeOpen,
      PauseOpen, CancelOpen, RenewAborted
  <2>2. QED
    BY <2>1 DEF Stutter, Row, row, local, Drivers, Dead, ProvablyDead
<1>3. QED
  BY <1>1, <1>2

LEMMA StartMaps ==
  ASSUME IInv, NEW e \in Engines, Start(e)
  PROVE  Registry!Begin(e)
<1>1. Drivers' = Drivers \cup {e}
  BY DriversMove DEF Start, Driving
<1>2. e \notin Drivers \cup Dead
  BY DEF Start, IInv, Shape, Idle, Drivers, Dead, ProvablyDead, Driving
<1>3. Dead' = Dead
  BY DEF Start, Dead, ProvablyDead
<1>4. Row' = Registry!Record("running", e, FALSE) /\ Row.status = "unborn"
  BY Fresh DEF Start, Row
<1>5. UNCHANGED <<lost, announced>>
  BY DEF Start
<1>6. QED
  BY <1>1, <1>2, <1>3, <1>4, <1>5 DEF Registry!Begin, Registry!Drive, Row, Drivers, Dead

LEMMA EndMaps ==
  ASSUME IInv, NEW e \in Engines, Crash(e) \/ ReleaseFails(e)
  PROVE  Registry!Die(e)
<1>1. Drivers' = Drivers \ {e} /\ UNCHANGED <<row, announced>>
  BY DriversMove DEF Crash, ReleaseFails, Undrive, Driving
<1>2. Dead' \in {Dead, Dead \cup {e}}
  <2>1. CASE ReleaseFails(e)
    BY <2>1 DEF ReleaseFails, Dead, ProvablyDead
  <2>2. CASE Crash(e)
    <3>1. \A d \in Engines : proc'[d] = IF d = e THEN "dead" ELSE proc[d]
      <4>1. proc \in [Engines -> {"up", "dead"}]
        BY DEF IInv, TypeOK
      <4>2. proc' = Set(proc, e, "dead")
        BY <2>2 DEF Crash
      <4>3. QED
        BY <4>1, <4>2 DEF Set
    <3>2. Dead' = IF e \in PidReused THEN Dead ELSE Dead \cup {e}
      BY <2>2, <3>1 DEF Crash, Dead, ProvablyDead
    <3>3. QED
      BY <3>2
  <2>3. QED
    BY <2>1, <2>2
<1>3. UNCHANGED <<Row, lost>>
  BY <1>1 DEF Row, row
<1>4. QED
  BY <1>1, <1>2, <1>3 DEF Registry!Die, Row, Drivers, Dead

\* Time passes unseen until a lease lapses; that of a timely driver does not, until an
\* update is lost.
LEMMA TickMaps ==
  ASSUME IInv, Tick
  PROVE  Registry!Lapse \/ Stutter
<1>1. UNCHANGED <<status, owner, lost, announced>> /\ Drivers' = Drivers /\ Dead' = Dead
  BY DEF Tick, Drivers, Dead, ProvablyDead
<1>2. CASE age' >= TTL <=> age >= TTL
  BY <1>1, <1>2 DEF Stutter, Row
<1>3. CASE ~(age' >= TTL <=> age >= TTL)
  <2>1. owner # None /\ age' >= TTL /\ age + 1 >= TTL /\ age \in 0 .. TTL
    BY <1>3, LeaseAssumption DEF Tick, Older, IInv, TypeOK
  <2>2. Row' = Registry!Record(Row.status, Row.owner, TRUE)
    <3>1. (age' >= TTL) = TRUE
      BY <2>1
    <3>2. Row' = [status |-> status, owner |-> owner, lapsed |-> TRUE]
      BY <1>1, <3>1, Zenon DEF Row
    <3>3. QED
      BY <3>2 DEF Row, Registry!Record
  <2>3. ASSUME lost = 0, owner \in Drivers, owner \notin Slow PROVE FALSE
    <3>1. Loose = {}
      BY <2>3, LooseIsFinite, FS_EmptySet DEF IInv
    <3>2. owner \in Engines /\ Timely(owner)
      BY <2>3 DEF Drivers, Timely
    <3>3. ~superseded[owner] /\ age <= due[owner] /\ due[owner] \in 0 .. TTL
      BY <3>1, <3>2 DEF Loose, Safe, IInv, TypeOK
    <3>4. due[owner] + 1 < TTL
      BY <3>2, <3>3 DEF Tick, Renewed
    <3>5. QED
      BY <2>1, <3>3, <3>4, LeaseAssumption
  <2>4. QED
    BY <1>1, <2>2, <2>3 DEF Registry!Lapse, Row, Drivers, Dead
<1>4. QED
  BY <1>2, <1>3

\* The run is as good as one record, up to the updates that were lost.  Whatever the
\* processes load, hold and write, no one can tell from the row, its outcomes and its
\* drivers that an update is not one step, decided on the record as it is, unless it
\* wrote over another one; and each of those is counted.
THEOREM Implements == Spec => ImplementsRegistry
<1>1. Init => Registry!Init
  <2> SUFFICES ASSUME Init PROVE Registry!Init
    OBVIOUS
  <2>1. Row = Registry!Record("unborn", None, FALSE)
    <3>1. (age >= TTL) = FALSE
      BY LeaseAssumption DEF Init
    <3>2. QED
      BY <3>1, Zenon DEF Init, Row, Registry!Record
  <2>2. Drivers = {} /\ Dead = {}
    BY DEF Init, Drivers, Dead, Driving, ProvablyDead
  <2>3. QED
    BY <2>1, <2>2 DEF Init, Registry!Init, Row, Drivers, Dead
<1>2. IInv /\ [Next]_vars => [Registry!Next]_(Registry!registry)
  <2> SUFFICES ASSUME IInv, [Next]_vars
               PROVE  Registry!Next \/ UNCHANGED Registry!registry
    OBVIOUS
  <2>1. CASE UNCHANGED vars
    <3>1. Stutter
      BY <2>1 DEF vars, row, local, Stutter, Row, Drivers, Dead, ProvablyDead
    <3>2. QED
      BY <3>1, Stutters
  <2>2. ASSUME NEW e \in Engines, Drops(e) PROVE Registry!Next \/ Stutter
    BY <2>2, EndMaps, OpenMaps DEF Drops, Registry!Next
  <2>3. CASE Next
    BY <2>2, <2>3, Kinds, TickMaps, OpenMaps, WriteMaps, LocalMaps, StartMaps, Stutters
       DEF Registry!Next
  <2>4. QED
    BY <2>1, <2>3
<1>3. QED
  BY <1>1, <1>2, Inductive, PTL DEF Spec, ImplementsRegistry, Registry!Spec

\* What the record alone promises.
Promise ==
  /\ Registry!LeaseIsKept /\ Registry!DriversAreAlive /\ Registry!OutcomesCost
  /\ lost \in Nat /\ announced \in Seq(Registry!Terminal)
\* The same, said of the row and the drivers.
Kept ==
  /\ lost = 0 => \A e \in Drivers \ Slow : owner = e /\ ~(age >= TTL)
  /\ Drivers \cap Dead = {} /\ (status = "unborn" => Drivers = {})
  /\ Len(announced) <= lost + (IF status \in Registry!Terminal THEN 1 ELSE 0)
  /\ lost \in Nat /\ announced \in Seq(Registry!Terminal)

LEMMA Promised == Promise <=> Kept
BY DEF Promise, Kept, Registry!LeaseIsKept, Registry!DriversAreAlive, Registry!OutcomesCost,
  Drivers, Dead

\* An update, decided on the record r: who drives, who has the lease, what is announced.
LEMMA Updated ==
  ASSUME NEW r \in Registry!Rows, Registry!Update(r)
  PROVE  /\ Dead' = Dead /\ status' # "unborn"
         /\ \/ /\ UNCHANGED announced
               /\ status' \in Registry!Terminal => r.status \in Registry!Terminal
               /\ r.status \in Registry!Terminal => status' \in Registry!Terminal
            \/ /\ announced' = Append(announced, status')
               /\ status' \in Registry!Terminal /\ r.status \notin Registry!Terminal
         /\ \/ Drivers' = Drivers /\ owner' = r.owner /\ (age' >= TTL) = r.lapsed
            \/ \E e \in Engines :
                 /\ owner' = e /\ ~(age' >= TTL)
                 /\ \/ e \in Drivers /\ Drivers' = Drivers /\ Registry!Free(e, r)
                    \/ /\ e \notin Dead /\ Drivers' = Drivers \cup {e}
                       /\ Registry!Free(e, r) \/ r.owner \in Dead
            \/ \E e \in Engines :
                 /\ Drivers' = Drivers \ {e}
                 /\ r.owner = e \/ (owner' = r.owner /\ (age' >= TTL) = r.lapsed)
<1> DEFINE R == [status |-> status', owner |-> owner', lapsed |-> age' >= TTL]
<1>1. /\ Dead' = Dead /\ r.status \in Registry!Open \cup Registry!Terminal
      /\ r = [status |-> r.status, owner |-> r.owner, lapsed |-> r.lapsed]
  BY DEF Registry!Update, Registry!Rows, Dead
<1>2. /\ R.status = status' /\ R.owner = owner' /\ R.lapsed = (age' >= TTL)
  OBVIOUS
<1>3. \A x \in Registry!Open \cup Registry!Terminal :
        x # "unborn" /\ (x \in Registry!Open => x \notin Registry!Terminal)
  BY DEF Registry!Open, Registry!Active, Registry!Terminal
<1>4. ASSUME NEW e \in Engines, Registry!TakeOver(e, r)
      PROVE  /\ UNCHANGED announced /\ status' = "running" /\ r.status \in Registry!Open
             /\ owner' = e /\ ~(age' >= TTL)
             /\ e \notin Dead /\ Drivers' = Drivers \cup {e}
             /\ Registry!Free(e, r) \/ r.owner \in Dead
  BY <1>4 DEF Registry!TakeOver, Registry!Drive, Registry!Record, Drivers, Dead
<1>5. ASSUME NEW e \in Engines, Registry!Renew(e, r)
      PROVE  /\ UNCHANGED announced /\ status' = r.status
             /\ owner' = e /\ ~(age' >= TTL)
             /\ e \in Drivers /\ Drivers' = Drivers /\ Registry!Free(e, r)
  BY <1>5 DEF Registry!Renew, Registry!Record, Drivers, Dead
<1>6. ASSUME NEW e \in Engines, Registry!Leave(e, r)
      PROVE  /\ UNCHANGED announced /\ status' = r.status
             /\ Drivers' = Drivers \ {e}
             /\ r.owner = e \/ (owner' = r.owner /\ (age' >= TTL) = r.lapsed)
  BY <1>1, <1>2, <1>6 DEF Registry!Leave, Registry!Record, Drivers, Dead
<1>7. ASSUME NEW s, R = [r EXCEPT !.status = s]
      PROVE  status' = s /\ owner' = r.owner /\ (age' >= TTL) = r.lapsed
  BY <1>1, <1>2, <1>7
<1>8. ASSUME NEW s \in Registry!Terminal, Registry!Conclude(s, r)
      PROVE  /\ announced' = Append(announced, status') /\ status' = s
             /\ r.status \in Registry!Open
             /\ Drivers' = Drivers /\ owner' = r.owner /\ (age' >= TTL) = r.lapsed
  BY <1>7, <1>8 DEF Registry!Conclude, Registry!Becomes, Drivers
<1>9. ASSUME Registry!Pause(r) \/ Registry!Wait(r) \/ Registry!Wake(r)
      PROVE  /\ UNCHANGED announced /\ status' \in Registry!Open /\ r.status \in Registry!Open
             /\ Drivers' = Drivers /\ owner' = r.owner /\ (age' >= TTL) = r.lapsed
  BY <1>7, <1>9 DEF Registry!Pause, Registry!Wait, Registry!Wake, Registry!Becomes,
    Registry!Open, Registry!Active, Drivers
<1>10. ASSUME Registry!Nothing(r)
       PROVE  /\ UNCHANGED announced /\ status' = r.status
              /\ Drivers' = Drivers /\ owner' = r.owner /\ (age' >= TTL) = r.lapsed
  BY <1>2, <1>10 DEF Registry!Nothing, Drivers
<1>11. \/ \E e \in Engines : Registry!TakeOver(e, r)
       \/ \E e \in Engines : Registry!Renew(e, r)
       \/ \E e \in Engines : Registry!Leave(e, r)
       \/ \E s \in Registry!Terminal : Registry!Conclude(s, r)
       \/ Registry!Pause(r) \/ Registry!Wait(r) \/ Registry!Wake(r)
       \/ Registry!Nothing(r)
  <2>1. ASSUME NEW e \in Engines, Registry!Settle(e, r)
        PROVE  \E s \in Registry!Terminal : Registry!Conclude(s, r)
    BY <2>1, Zenon DEF Registry!Settle, Registry!Terminal
  <2>2. ASSUME Registry!Cancel(r)
        PROVE  \E s \in Registry!Terminal : Registry!Conclude(s, r)
    BY <2>2, Zenon DEF Registry!Cancel, Registry!Terminal
  <2>3. QED
    BY <2>1, <2>2, Zenon DEF Registry!Update
<1>12. "running" \in Registry!Open
  BY DEF Registry!Open, Registry!Active
<1>13. CASE \E e \in Engines : Registry!TakeOver(e, r)
  BY <1>1, <1>3, <1>4, <1>12, <1>13
<1>14. CASE \E e \in Engines : Registry!Renew(e, r)
  BY <1>1, <1>3, <1>5, <1>14
<1>15. CASE \E e \in Engines : Registry!Leave(e, r)
  BY <1>1, <1>3, <1>6, <1>15
<1>16. CASE \E s \in Registry!Terminal : Registry!Conclude(s, r)
  BY <1>1, <1>3, <1>8, <1>16
<1>17. CASE Registry!Pause(r) \/ Registry!Wait(r) \/ Registry!Wake(r) \/ Registry!Nothing(r)
  BY <1>1, <1>3, <1>9, <1>10, <1>17
<1>18. QED
  BY <1>11, <1>13, <1>14, <1>15, <1>16, <1>17

\* The record alone is enough, whatever the processes do between its actions: until an
\* update is lost a timely driver has its lease; no engine that is gone drives; and a
\* run has one outcome, but for those that lost updates cost.
THEOREM RegistryKeepsLeases ==
  Registry!Spec
    => [](Registry!LeaseIsKept /\ Registry!DriversAreAlive /\ Registry!OutcomesCost)
<1>1. (Promise <=> Kept) /\ (Promise <=> Kept)'
  BY Promised DEF Promise, Kept, Registry!LeaseIsKept, Registry!DriversAreAlive,
    Registry!OutcomesCost, Drivers, Dead
<1>2. Registry!Init => Kept
  <2> SUFFICES ASSUME Registry!Init PROVE Kept
    OBVIOUS
  <2>1. /\ lost = 0 /\ announced = <<>> /\ Drivers = {} /\ Dead = {}
    BY DEF Registry!Init, Drivers, Dead
  <2>2. QED
    BY <2>1 DEF Kept
<1>3. Kept /\ [Registry!Next]_(Registry!registry) => Kept'
  <2> SUFFICES ASSUME Kept, [Registry!Next]_(Registry!registry) PROVE Kept'
    OBVIOUS
  <2>1. CASE UNCHANGED Registry!registry
    <3>1. /\ UNCHANGED <<lost, announced, Drivers, Dead, Row>>
      BY <2>1 DEF Registry!registry, Drivers, Dead, Row
    <3>2. /\ status' = status /\ owner' = owner /\ (age' >= TTL <=> age >= TTL)
      BY <3>1 DEF Row
    <3>3. QED
      BY <3>1, <3>2 DEF Kept
  <2>2. ASSUME NEW r \in Registry!Rows, Registry!Update(r),
               lost' = lost + 1 \/ (lost' = lost /\ r = Row)
        PROVE  Kept'
    <3>1. /\ lost \in Nat /\ announced \in Seq(Registry!Terminal) /\ Len(announced) \in Nat
          /\ Len(announced) <= lost + (IF status \in Registry!Terminal THEN 1 ELSE 0)
          /\ Drivers \cap Dead = {}
      BY DEF Kept
    <3>2. /\ Dead' = Dead /\ status' # "unborn"
          /\ \/ announced' = announced
             \/ announced' = Append(announced, status') /\ status' \in Registry!Terminal
      BY <2>2, Updated
    <3>3. /\ lost' \in Nat /\ announced' \in Seq(Registry!Terminal)
      BY <2>2, <3>1, <3>2
    <3>4. Drivers' \cap Dead' = {}
      BY <2>2, <3>1, Updated
    <3>5. r = Row => r.status = status /\ r.owner = owner /\ r.lapsed = (age >= TTL)
      BY DEF Row
    <3>6. Len(announced') <= lost' + (IF status' \in Registry!Terminal THEN 1 ELSE 0)
      <4>1. CASE lost' = lost + 1
        BY <3>1, <3>2, <4>1
      <4>2. CASE lost' = lost /\ r = Row
        <5>1. \/ /\ announced' = announced
                 /\ status \in Registry!Terminal => status' \in Registry!Terminal
              \/ /\ announced' = Append(announced, status')
                 /\ status' \in Registry!Terminal /\ status \notin Registry!Terminal
          BY <2>2, <3>5, <4>2, Updated
        <5>2. QED
          BY <3>1, <4>2, <5>1
      <4>3. QED
        BY <2>2, <4>1, <4>2
    <3>7. ASSUME lost' = 0, NEW d \in Drivers' \ Slow
          PROVE  owner' = d /\ ~(age' >= TTL)
      <4>1. lost = 0 /\ r = Row
        BY <2>2, <3>1, <3>7
      <4>2. \A x \in Drivers \ Slow : owner = x /\ ~(age >= TTL)
        BY <4>1 DEF Kept
      <4>3. owner \in Dead => Drivers \ Slow = {}
        BY <3>1, <4>2
      <4>4. CASE Drivers' = Drivers /\ owner' = r.owner /\ (age' >= TTL) = r.lapsed
        BY <3>5, <3>7, <4>1, <4>2, <4>4
      <4>5. ASSUME NEW e \in Engines, owner' = e, ~(age' >= TTL),
                   \/ e \in Drivers /\ Drivers' = Drivers /\ Registry!Free(e, r)
                   \/ /\ e \notin Dead /\ Drivers' = Drivers \cup {e}
                      /\ Registry!Free(e, r) \/ r.owner \in Dead
            PROVE  owner' = d /\ ~(age' >= TTL)
        <5>1. CASE d = e
          BY <4>5, <5>1
        <5>2. CASE d # e
          <6>1. d \in Drivers \ Slow /\ owner = d /\ ~(age >= TTL)
            BY <3>7, <4>2, <4>5, <5>2
          <6>2. Registry!Free(e, r)
            BY <3>5, <4>1, <4>3, <4>5, <6>1
          <6>3. owner \in {None, e}
            BY <3>5, <4>1, <6>1, <6>2 DEF Registry!Free
          <6>4. QED
            BY <5>2, <6>1, <6>3, LeaseAssumption DEF Drivers
        <5>3. QED
          BY <5>1, <5>2
      <4>6. ASSUME NEW e \in Engines, Drivers' = Drivers \ {e},
                   r.owner = e \/ (owner' = r.owner /\ (age' >= TTL) = r.lapsed)
            PROVE  owner' = d /\ ~(age' >= TTL)
        BY <3>5, <3>7, <4>1, <4>2, <4>6
      <4>7. QED
        BY <2>2, <4>4, <4>5, <4>6, Updated
    <3>8. QED
      BY <3>2, <3>3, <3>4, <3>6, <3>7 DEF Kept
  <2>3. CASE Registry!Lapse
    <3>1. /\ UNCHANGED <<lost, announced, Drivers, Dead>>
          /\ status' = status /\ owner' = owner
          /\ lost = 0 => owner \notin Drivers \ Slow
      BY <2>3 DEF Registry!Lapse, Registry!Record, Drivers, Dead
    <3>2. QED
      BY <3>1 DEF Kept
  <2>4. ASSUME NEW e \in Engines, Registry!Begin(e) PROVE Kept'
    <3>1. /\ UNCHANGED <<lost, announced, Dead>> /\ status = "unborn" /\ status' = "running"
          /\ owner' = e /\ ~(age' >= TTL)
          /\ Drivers' = Drivers \cup {e} /\ e \notin Dead
      BY <2>4 DEF Registry!Begin, Registry!Drive, Registry!Record, Drivers, Dead
    <3>2. QED
      BY <3>1 DEF Kept, Registry!Terminal
  <2>5. ASSUME NEW e \in Engines, Registry!Die(e) PROVE Kept'
    <3>1. /\ UNCHANGED <<lost, announced, Row>> /\ Drivers' = Drivers \ {e}
          /\ Dead' \in {Dead, Dead \cup {e}}
      BY <2>5 DEF Registry!Die, Drivers, Dead, Row
    <3>2. /\ status' = status /\ owner' = owner /\ (age' >= TTL <=> age >= TTL)
      BY <3>1 DEF Row
    <3>3. QED
      BY <3>1, <3>2 DEF Kept
  <2>6. QED
    BY <2>1, <2>2, <2>3, <2>4, <2>5 DEF Registry!Next, Row
<1>4. Promise => Registry!LeaseIsKept /\ Registry!DriversAreAlive /\ Registry!OutcomesCost
  BY DEF Promise
<1>5. QED
  BY <1>1, <1>2, <1>3, <1>4, PTL DEF Registry!Spec
=============================================================================
