----------------------------- MODULE MCRefcount -----------------------------
(* Refcount for TLC. *)
EXTENDS Refcount, TLC
=============================================================================
