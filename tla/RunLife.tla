------------------------------ MODULE RunLife ------------------------------
(***************************************************************************)
(* What the workflow engine promises about the execution of one run,       *)
(* whatever crashes: a log in which each step is entered once.  A step is  *)
(* attempted by one task at a time and never again once it is in the log;  *)
(* the run completes when every step it needs is a success, and fails when *)
(* the rollback handler of every success has run, the later steps before   *)
(* those they are built on.                                                *)
(*                                                                         *)
(* Two actions say what the code does and its comments deny: Crash, which  *)
(* lets a handler run again whose entry it prevents, and Stray.            *)
(***************************************************************************)
CONSTANTS
  Steps,
  DependsOn, DependsOnAny,   \* all of them, or one of them, come before a step
  SkipOnError,               \* steps whose failure is tolerated
  MaySkip, Collect,          \* steps that end without an entry
  Undoable                   \* steps with a rollback handler

VARIABLES
  status,    \* of the run
  journal,   \* the entry of each step: none, success or failure
  rolled,    \* the steps whose compensation is entered
  working,   \* the steps that an attempt is at
  handing    \* the step whose handler has run and is not entered yet, if any

life == <<status, journal, rolled, working, handing>>

Terminal == {"completed", "failed", "cancelled"}
Unsettled == status \notin {"completed", "failed"}
Idle == working = {} /\ handing = {}

Init ==
  /\ status = "running" /\ journal = [s \in Steps |-> "none"]
  /\ rolled = {} /\ working = {} /\ handing = {}

\* The steps below a failed one, directly: they are never attempted.
Failed == {s \in Steps : journal[s] = "failure"}
Below(set) ==
  {s \in Steps : \/ DependsOn[s] \cap set # {}
                 \/ DependsOnAny[s] # {} /\ DependsOnAny[s] \subseteq set}
\* Nothing waits for a step any more that is a success, whose failure is tolerated, or
\* that may end without an entry and is not blocked.
Settled ==
  ((MaySkip \cup Collect) \ Below(Failed \ SkipOnError))
    \cup {s \in Steps : journal[s] = "success"} \cup (Failed \cap SkipOnError)
Met(s, over) ==
  /\ DependsOn[s] \subseteq over
  /\ DependsOnAny[s] # {} => DependsOnAny[s] \cap over # {}
Due(s) == Met(s, Settled)

Attempt(s) ==
  /\ status = "running" /\ handing = {} /\ s \notin working /\ journal[s] = "none"
  /\ working' = working \cup {s}
  /\ UNCHANGED <<status, journal, rolled, handing>>
Begin(s) == Due(s) /\ Attempt(s)
\* A step that depends on a blocked one is to be skipped as that is; the engine takes
\* the skipped step for settled and attempts it all the same.
Stray(s) == ~Due(s) /\ Met(s, Settled \cup Below(Failed)) /\ Attempt(s)

Record(s) ==
  /\ Unsettled /\ s \in working /\ journal[s] = "none"
  /\ \E entry \in {"success", "failure"} : journal' = [journal EXCEPT ![s] = entry]
  /\ working' = working \ {s}
  /\ UNCHANGED <<status, rolled, handing>>
\* An attempt that is skipped, stopped or to be retried leaves nothing, ...
Drop(s) ==
  /\ working' = working \ {s}
  /\ UNCHANGED <<status, journal, rolled, handing>>
\* ... nor does what dies with its process: an attempt, or a handler that has run and
\* is not entered.  That handler is then run again, so a compensation is exactly once
\* in the log and at least once in the world.
Crash ==
  /\ working' = {} /\ handing' = {}
  /\ UNCHANGED <<status, journal, rolled>>

\* The steps that were built on s are compensated (one that may be skipped may have run
\* after those).
InTurn(s) ==
  s \in MaySkip \/ \A d \in Undoable :
    s \in DependsOn[d] /\ journal[d] = "success" => d \in rolled
\* A handler runs when nothing is at work and no other one has run unentered, ...
Hand(s) ==
  /\ Unsettled /\ Idle
  /\ s \in Undoable \ rolled /\ InTurn(s)
  /\ handing' = {s}
  /\ UNCHANGED <<status, journal, rolled, working>>
\* ... and then its step is entered, once; only a step that is no success may be entered
\* without its handler.
Enter(s) ==
  /\ Unsettled /\ working = {}
  /\ s \in Undoable \ rolled
  /\ handing = {s} \/ (handing = {} /\ InTurn(s) /\ journal[s] # "success")
  /\ rolled' = rolled \cup {s} /\ handing' = {}
  /\ UNCHANGED <<status, journal, working>>

Becomes(s) == status' = s /\ UNCHANGED <<journal, rolled, working, handing>>
Complete ==
  /\ status \notin Terminal /\ Idle
  /\ \A s \in Steps \ (MaySkip \cup SkipOnError \cup Collect) : journal[s] = "success"
  /\ Becomes("completed")
Fail ==
  /\ status \notin Terminal /\ Idle
  /\ \A s \in Undoable : journal[s] = "success" => s \in rolled
  /\ Becomes("failed")
Cancel == status \notin Terminal /\ Becomes("cancelled")
Pause  == status = "running" /\ Becomes("paused")
Resume == status = "paused" /\ Idle /\ Becomes("running")

Next ==
  \/ \E s \in Steps : Begin(s) \/ Stray(s) \/ Record(s) \/ Drop(s) \/ Hand(s) \/ Enter(s)
  \/ Crash \/ Complete \/ Fail \/ Cancel \/ Pause \/ Resume

Spec == Init /\ [][Next]_life
=============================================================================
