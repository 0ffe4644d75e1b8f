------------------------------- MODULE JobLife -------------------------------
(***************************************************************************)
(* What the queue promises of a job, whoever carries it out: no workers,   *)
(* no threads, no clocks.  A job is worked on by one at a time, only who   *)
(* works on it has it tried again, a cancel is for good, and a failure for *)
(* good is owed to the item the job is about until its side is told.       *)
(***************************************************************************)
EXTENDS Integers

CONSTANTS
  Jobs,
  Readable,    \* whose payload somebody can work from
  Announced,   \* about an item: it may be cancelled while it runs
  MaxRetries

VARIABLES
  state, retries,
  flagged,     \* of a job: a cancel was requested while it ran
  working,     \* jobs that are worked on
  untold,      \* failed jobs that the item's side is to be told of
  told
vars == <<state, retries, flagged, working, untold, told>>

Init ==
  /\ state = [j \in Jobs |-> "new"] /\ retries = [j \in Jobs |-> 0]
  /\ flagged = [j \in Jobs |-> FALSE]
  /\ working = {} /\ untold = {} /\ told = {}

Becomes(j, s) == state' = [state EXCEPT ![j] = s]
Owe(j) == untold' = IF j \in Announced THEN untold \cup {j} ELSE untold

Submit(j) ==
  /\ state[j] = "new" /\ Becomes(j, "queued")
  /\ UNCHANGED <<retries, flagged, working, untold, told>>

\* Of some jobs at once: a waiting one is killed there and then.
Cancellable ==
  {j \in Jobs : state[j] = "queued" \/ (state[j] = "running" /\ j \in Announced)}
Cancel(set) ==
  /\ state' = [j \in Jobs |-> IF j \in set /\ state[j] = "queued" THEN "killed" ELSE state[j]]
  /\ flagged' = [j \in Jobs |-> flagged[j] \/ (j \in set /\ state[j] = "running")]
  /\ UNCHANGED <<retries, working, untold, told>>

Begin(j) ==
  /\ state[j] = "queued" /\ j \notin working /\ Becomes(j, "running")
  /\ working' = IF j \in Readable THEN working \cup {j} ELSE working
  /\ UNCHANGED <<retries, flagged, untold, told>>

\* Who works on a job tries it again, ...
Retry(j) ==
  /\ j \in working /\ working' = working \ {j}
  /\ state[j] # "deleted" /\ ~flagged[j] /\ retries[j] < MaxRetries
  /\ Becomes(j, "queued") /\ retries' = [retries EXCEPT ![j] = @ + 1]
  /\ UNCHANGED <<flagged, untold, told>>
\* ... or says how it ended: a cancelled one was killed.  (It may have been
\* presumed dead, or cleaned up, before.)
End(j) ==
  /\ j \in working /\ working' = working \ {j}
  /\ \/ state[j] = "deleted" /\ UNCHANGED <<state, untold>>
     \/ state[j] # "deleted" /\ flagged[j] /\ Becomes(j, "killed") /\ UNCHANGED untold
     \/ state[j] # "deleted" /\ ~flagged[j] /\ Becomes(j, "exited") /\ UNCHANGED untold
     \/ state[j] # "deleted" /\ ~flagged[j] /\ Becomes(j, "failed") /\ Owe(j)
  /\ UNCHANGED <<retries, flagged, told>>

\* Nobody seems to work on a running job any more.
Presume(j) ==
  /\ state[j] = "running" /\ Becomes(j, "failed") /\ Owe(j)
  /\ UNCHANGED <<retries, flagged, working, told>>

\* A job may be owed twice, when who works on it fails after it was presumed dead.
Tell(j) ==
  /\ j \in untold /\ told' = told \cup {j}
  /\ untold' \in {untold, untold \ {j}}
  /\ UNCHANGED <<state, retries, flagged, working>>

CleanUp(j) ==
  /\ state[j] # "new" /\ Becomes(j, "deleted")
  /\ UNCHANGED <<retries, flagged, working, untold, told>>

\* A thread dies or cannot write: its job stays as it is, or its debt is forgotten.
Drop(j) ==
  /\ UNCHANGED <<state, retries, flagged, told>>
  /\ \/ working' = working \ {j} /\ UNCHANGED untold
     \/ untold' = untold \ {j} /\ UNCHANGED working
\* The process dies, or cannot put its table in order: nobody works on anything.
DropAll ==
  /\ UNCHANGED <<state, retries, flagged, told>>
  /\ working' = {} /\ untold' = {}

Next ==
  \/ \E j \in Jobs : Drop(j) \/ Submit(j) \/ Begin(j) \/ Retry(j) \/ End(j)
                     \/ Presume(j) \/ Tell(j) \/ CleanUp(j)
  \/ DropAll
  \/ \E set \in SUBSET Cancellable : Cancel(set)

Spec == Init /\ [][Next]_vars
=============================================================================
