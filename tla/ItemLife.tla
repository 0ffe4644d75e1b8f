------------------------------ MODULE ItemLife ------------------------------
(***************************************************************************)
(* What agentflare promises about one work item, whatever goes on behind   *)
(* it: at most one worker has it, and is replaced only when its lease has  *)
(* lapsed; it is submitted by a worker only, completed only when a pull    *)
(* request of it was merged, and what is completed or cancelled comes back *)
(* to life only when somebody takes it, or puts it back to what it was     *)
(* when he took it.                                                        *)
(***************************************************************************)
CONSTANTS Owners, Nobody
VARIABLES
  stage,     \* the group of the item's state
  worker,    \* who holds the claim
  lapsed,    \* has its lease run out, or its owner exited?
  taken,     \* who took it and has not begun, and the stage it had
  delivered  \* was a pull request of it merged?

life == <<stage, worker, lapsed, taken, delivered>>

Over == {"completed", "cancelled"}
Claimed == {"started", "in_review"}

Init == stage = "backlog" /\ worker = Nobody /\ ~lapsed /\ taken = {}
        /\ ~delivered

\* What may happen beside: the lease lapses, and is renewed; who took the item begins.
Lease  == lapsed' \in BOOLEAN /\ UNCHANGED delivered
Beside == Lease /\ taken' \subseteq taken

Free(o) == worker \in {Nobody, o} \/ lapsed

\* Somebody takes the item up, ...
Take(o) ==
  /\ Free(o)
  /\ worker' = o /\ stage' = "started" /\ Lease
  /\ taken' \subseteq taken \cup {<<o, stage>>}
\* ... or only its lease, to finish or to release it; ...
Adopt(o) == Free(o) /\ worker' = o /\ UNCHANGED stage /\ Beside
\* ... cannot begin, and puts the item back, even if it was completed or cancelled since; ...
PutBack(o) ==
  /\ worker \in {o, Nobody} /\ <<o, stage'>> \in taken
  /\ worker' = Nobody /\ Beside
\* ... or leaves it.
Leave  == worker' = Nobody /\ UNCHANGED stage /\ Beside
Lapse  == UNCHANGED <<stage, worker>> /\ Beside
Submit ==
  /\ worker # Nobody /\ stage \in Claimed
  /\ stage' = "in_review" /\ UNCHANGED worker /\ Beside
\* A merged pull request ends it; the worker may be dismissed.
Merge ==
  /\ delivered' = TRUE /\ UNCHANGED <<stage, worker, lapsed, taken>>
Complete ==
  /\ delivered /\ stage \in Claimed
  /\ stage' = "completed" /\ worker' \in {worker, Nobody} /\ Beside
\* A failed worker's pull request goes back to review, ...
Recover ==
  /\ stage \notin Over /\ stage' = "in_review" /\ UNCHANGED worker /\ Beside
\* ... or the item goes back to be dispatched.
Requeue ==
  /\ stage \notin Over /\ stage' = "backlog" /\ worker' \in {worker, Nobody} /\ Beside
Cancel == stage' = "cancelled" /\ UNCHANGED worker /\ Beside

Next ==
  \/ Lapse \/ Leave \/ Submit \/ Merge \/ Complete \/ Recover \/ Requeue \/ Cancel
  \/ \E o \in Owners : Take(o) \/ Adopt(o) \/ PutBack(o)

Spec == Init /\ [][Next]_life
=============================================================================
