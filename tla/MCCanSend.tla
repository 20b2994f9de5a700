------------------------------- MODULE MCCanSend -----------------------------
(* The transmit path on an instance TLC can check. *)
EXTENDS CanSend
=============================================================================
