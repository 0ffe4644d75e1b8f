--------------------------- MODULE MCWorkflowRun ---------------------------
(***************************************************************************)
(* Step graphs for WorkflowRun.                                            *)
(***************************************************************************)
EXTENDS WorkflowRun, TLC

CONSTANTS a, b, c, d, g

\* Two parallel steps; g collects them, c is built on a or b, d on c and g.
Graph == (a :> {}) @@ (b :> {}) @@ (c :> {}) @@ (d :> {c, g}) @@ (g :> {a, b})
GraphAny == (a :> {}) @@ (b :> {}) @@ (c :> {a, b}) @@ (d :> {}) @@ (g :> {})

\* A fan-out group and its Collect.
Group == (a :> {}) @@ (b :> {}) @@ (g :> {a, b})
NoAny == [s \in Steps |-> {}]
============================================================================
