----------------------------- MODULE MCSession -----------------------------
(* The instance of Session that TLC checks.  Nothing tells the clients     *)
(* apart but what they did, and the runs check invariants only, so the     *)
(* clients are symmetric.                                                  *)
EXTENDS Session, TLC

ClientSymmetry == Permutations(Client)
=============================================================================
