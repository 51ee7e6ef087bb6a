---------------------------- MODULE MCDispatcher ----------------------------
(***************************************************************************)
(* Instances of Dispatcher: a network thread and the thread that serves    *)
(* signals post next to the dispatcher itself.                             *)
(***************************************************************************)
EXTENDS Dispatcher
=============================================================================
