----------------------------- MODULE MCScheduler -----------------------------
(***************************************************************************)
(* Instances of Scheduler for TLC: an enabled, a disabled and an invalid   *)
(* policy.                                                                 *)
(***************************************************************************)
EXTENDS Scheduler

CONSTANTS daily, off, bad, a1, a2, s1, s2
=============================================================================
