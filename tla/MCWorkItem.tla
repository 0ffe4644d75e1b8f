----------------------------- MODULE MCWorkItem -----------------------------
(* Two agents, one of them in a session of its own. *)
EXTENDS WorkItem

CONSTANTS a1, a2, s1

MCAgents == {a1, a2}
MCAssignees == {a1}
MCSessions == {s1}
NoSessions == {}
MCSessionAgent == [s \in MCSessions |-> a2]
NoSessionAgent == [s \in NoSessions |-> a2]
=============================================================================
