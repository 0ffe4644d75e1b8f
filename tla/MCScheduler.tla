----------------------------- MODULE MCScheduler -----------------------------
(* Two slots and a manual fire, and one event: a crash, a failing call, a suspension or a client's call. *)
EXTENDS Scheduler

MCIntervals == {1}
=============================================================================
