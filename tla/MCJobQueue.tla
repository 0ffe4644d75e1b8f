----------------------------- MODULE MCJobQueue -----------------------------
(* Small instances of JobQueue for TLC. *)
EXTENDS JobQueue, TLC

CONSTANTS j1, j2, w1, w2, i1, a1, a2

\* Both jobs are about the same item, for different agents; j1 is older.
ItemOf == [j \in Jobs |-> i1]
AgentOf == [j \in Jobs |-> IF j = j1 THEN a1 ELSE a2]
CreatedAt == [j \in Jobs |-> IF j = j1 THEN 0 ELSE 1]

\* Worker threads are interchangeable.
Threads == Permutations(Workers)
=============================================================================
