-------------------------- MODULE MCWorkflowLease --------------------------
(* Small instances of WorkflowLease for TLC. *)
EXTENDS WorkflowLease, TLC

CONSTANTS e1, e2, e3
=============================================================================
