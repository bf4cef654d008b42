--------------------------- MODULE MCScheduler ---------------------------
(* Instances of Scheduler for TLC.                                           *)
EXTENDS Scheduler

CONSTANTS t1, t2, main, op1, op2
=============================================================================
