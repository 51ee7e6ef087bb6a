---------------------------- MODULE MCConnection ----------------------------
(***************************************************************************)
(* One connection and at most three messages: one being written, one       *)
(* queued behind it, one sent after the queue emptied.                     *)
(***************************************************************************)
EXTENDS Connection
=============================================================================
