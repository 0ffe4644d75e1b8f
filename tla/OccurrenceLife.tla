---------------------------- MODULE OccurrenceLife ----------------------------
(***************************************************************************)
(* What the scheduler promises of an occurrence, whoever carries it out:   *)
(* no ticks, no fires, no leases.  Slots are admitted in their order and   *)
(* one at a time, an occurrence is run at most once, it is given up only   *)
(* while it was never run, and its outcome is its run's and is for good.   *)
(***************************************************************************)
EXTENDS Integers

CONSTANTS
  Slots, Manual,
  Overlap        \* "skip" or "allow"

VARIABLES
  phase,         \* "none", "open", an outcome, or "gone" with the schedule
  run            \* as a client of the engine sees it; "evicted": was run once
vars == <<phase, run>>

Occs == Slots \cup Manual
Init == phase = [o \in Occs |-> "none"] /\ run = [o \in Occs |-> "none"]

Moves(o, to) == phase' = [phase EXCEPT ![o] = to] /\ UNCHANGED run
Turns(o, to) == run' = [run EXCEPT ![o] = to] /\ UNCHANGED phase
Busy == \E o \in Occs : phase[o] = "open"

\* A slot's turn comes once, and not after a later one's.
Comes(s) == \A t \in Slots : t >= s => phase[t] = "none"
Admit(s) == Comes(s) /\ (Overlap = "skip" => ~Busy) /\ Moves(s, "open")
Skip(s) ==
  /\ Comes(s)
  /\ Moves(s, "skipped_missed") \/ (Overlap = "skip" /\ Busy /\ Moves(s, "skipped_overlap"))
Ask(m) == phase[m] = "none" /\ Moves(m, "open")

\* Only what never ran is given up; a manual fire does not become too old.
Unstarted(o) == phase[o] = "open" /\ run[o] = "none"
GiveUp(o) == Unstarted(o) /\ Moves(o, "dispatch_failed")
Expire(late) ==
  /\ \A s \in late : Unstarted(s)
  /\ phase' = [o \in Occs |-> IF o \in late THEN "skipped_missed" ELSE phase[o]]
  /\ UNCHANGED run

\* A fire under way does not notice that the schedule was removed.
Start(o) ==
  /\ phase[o] \in {"open", "gone"} /\ run[o] = "none" /\ Turns(o, "running")
Unfinished == {"running", "paused"}
Pause(o)  == run[o] = "running" /\ Turns(o, "paused")
End(o)    == run[o] \in Unfinished /\ \E to \in {"completed", "failed", "cancelled"} : Turns(o, to)
Forget(o) == run[o] \in {"completed", "failed"} /\ Turns(o, "evicted")

\* How an occurrence ended is how its run did, as far as that is still known.
Tells(outcome, of) ==
  \/ outcome \in {"completed", "failed"} /\ of \in {outcome, "evicted"}
  \/ outcome \in {"cancelled", "interrupted"} /\ of = "cancelled"
  \/ outcome = "evicted" /\ of = "evicted"
Settle(o) ==
  /\ phase[o] = "open"
  /\ \E to \in {"completed", "failed", "cancelled", "interrupted", "evicted"} :
       Tells(to, run[o]) /\ Moves(o, to)

Remove == phase' = [o \in Occs |-> "gone"] /\ UNCHANGED run

Next ==
  \/ \E s \in Slots : Admit(s) \/ Skip(s)
  \/ \E m \in Manual : Ask(m)
  \/ \E o \in Occs : GiveUp(o) \/ Start(o) \/ Pause(o) \/ End(o) \/ Forget(o) \/ Settle(o)
  \/ \E late \in SUBSET Slots : Expire(late)
  \/ Remove

Spec == Init /\ [][Next]_vars
=============================================================================
