---------------------------- MODULE MCScheduler ----------------------------
(***************************************************************************)
(* Two events raced by the dispatcher and by one more thread, with both    *)
(* shutdown routes.                                                        *)
(***************************************************************************)
EXTENDS Scheduler
=============================================================================
