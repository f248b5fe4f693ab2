---------------------------- MODULE MCScheduler ----------------------------
(* Four slots and ten pages, of which any number is taken at boot:          *)
(* memory runs out at each of the three page requests of a creation, slots  *)
(* and pages are reused, and a process can wait behind several others.      *)
EXTENDS Scheduler
=============================================================================
