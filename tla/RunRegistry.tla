---------------------------- MODULE RunRegistry ----------------------------
(***************************************************************************)
(* What the workflow engine promises about one run, whatever goes on in    *)
(* the processes that share it: it is one record, and everything that is   *)
(* done to it is decided on the record as it is.  A run is taken over only *)
(* when nobody alive holds its lease, only a driver settles it, once, and  *)
(* only while nobody else holds it, and what is settled stays.  A driver   *)
(* that renews in time does not lose its lease.                            *)
(*                                                                         *)
(* The exception is an update that was lost: the next one then decides on  *)
(* some other record, and leaves that one, changed by its own action, in   *)
(* the place of what was there.  Every exception is counted in lost.       *)
(***************************************************************************)
EXTENDS Naturals, Sequences

CONSTANTS
  Engines,     \* who may drive the run
  None,        \* no lease
  Slow         \* engines whose lease may lapse while they drive

VARIABLES
  row,         \* the record: status, owner of the lease, and has it lapsed?
  lost,        \* updates that were decided on another record
  announced,   \* its outcomes, as they were published
  drivers,     \* the engines that drive it
  dead         \* the engines known to be gone

registry == <<row, lost, announced, drivers, dead>>

Active   == {"running", "waiting"}
Open     == Active \cup {"paused"}
Terminal == {"completed", "failed", "cancelled"}
Rows == [status : Open \cup Terminal, owner : Engines \cup {None}, lapsed : BOOLEAN]

Record(s, e, l) == [status |-> s, owner |-> e, lapsed |-> l]
Init ==
  /\ row = Record("unborn", None, FALSE) /\ lost = 0
  /\ announced = <<>> /\ drivers = {} /\ dead = {}

Drive(e) == e \notin drivers \cup dead /\ drivers' = drivers \cup {e}
\* Nobody else has a lease that has not lapsed.
Free(e, r) == r.owner \in {None, e} \/ r.lapsed

Begin(e) ==
  /\ row.status = "unborn"
  /\ row' = Record("running", e, FALSE) /\ Drive(e)
  /\ UNCHANGED <<lost, announced, dead>>

-----------------------------------------------------------------------------
(* The updates: each is decided on the record r. *)

TakeOver(e, r) ==
  /\ r.status \in Open
  /\ Free(e, r) \/ r.owner \in dead
  /\ row' = Record("running", e, FALSE) /\ Drive(e)
  /\ UNCHANGED announced
Renew(e, r) ==
  /\ e \in drivers /\ Free(e, r)
  /\ row' = Record(r.status, e, FALSE)
  /\ UNCHANGED <<announced, drivers>>
\* A driver stops, and lets go of its lease.
Leave(e, r) ==
  /\ e \in drivers /\ drivers' = drivers \ {e}
  /\ row' = IF r.owner = e THEN Record(r.status, None, FALSE) ELSE r
  /\ UNCHANGED announced

Becomes(s, r) == row' = [r EXCEPT !.status = s] /\ UNCHANGED drivers
Conclude(outcome, r) ==
  /\ r.status \in Open /\ Becomes(outcome, r)
  /\ announced' = Append(announced, outcome)
Settle(e, r) ==
  /\ e \in drivers /\ Free(e, r)
  /\ \E s \in {"completed", "failed"} : Conclude(s, r)
Cancel(r) == Conclude("cancelled", r)

\* A step that waits does so even when the run was paused meanwhile.
Pause(r) == r.status \in Active /\ Becomes("paused", r) /\ UNCHANGED announced
Wait(r)  == r.status \in Open /\ Becomes("waiting", r) /\ UNCHANGED announced
Wake(r)  == r.status = "waiting" /\ Becomes("running", r) /\ UNCHANGED announced
\* An update that finds nothing to do writes back what it found.
Nothing(r) == row' = r /\ UNCHANGED <<announced, drivers>>

Update(r) ==
  /\ \/ \E e \in Engines : TakeOver(e, r) \/ Renew(e, r) \/ Leave(e, r) \/ Settle(e, r)
     \/ Cancel(r) \/ Pause(r) \/ Wait(r) \/ Wake(r) \/ Nothing(r)
  /\ UNCHANGED dead

-----------------------------------------------------------------------------
\* A process ends, or stops driving and cannot say so; that it ended may never be known.
Die(e) ==
  /\ drivers' = drivers \ {e} /\ dead' \in {dead, dead \cup {e}}
  /\ UNCHANGED <<row, lost, announced>>
Lapse ==
  /\ lost = 0 => row.owner \notin drivers \ Slow
  /\ row' = Record(row.status, row.owner, TRUE)
  /\ UNCHANGED <<lost, announced, drivers, dead>>

Next ==
  \/ \E r \in Rows : (lost' = lost + 1 \/ (lost' = lost /\ r = row)) /\ Update(r)
  \/ Lapse \/ \E e \in Engines : Begin(e) \/ Die(e)

Spec == Init /\ [][Next]_registry

-----------------------------------------------------------------------------
\* What the record alone promises.  Until an update is lost, a driver whose lease
\* lapses only when it stops has it for as long as it drives, so of two drivers one is
\* slow.
LeaseIsKept ==
  lost = 0 => \A e \in drivers \ Slow : row.owner = e /\ ~row.lapsed
\* No engine that is gone drives, or drives a run that has not begun.
DriversAreAlive ==
  drivers \cap dead = {} /\ (row.status = "unborn" => drivers = {})
\* A run has one outcome, and another one only for an update that was lost.
OutcomesCost ==
  Len(announced) <= lost + (IF row.status \in Terminal THEN 1 ELSE 0)
=============================================================================
