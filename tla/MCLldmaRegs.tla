---------------------------- MODULE MCLldmaRegs ----------------------------
(* LldmaRegs for TLC. *)
EXTENDS LldmaRegs, TLC

MCSymmetry == Permutations(Callers)

\* Bound: what has gone astray is followed to the end of the calls that work
\* on the channels concerned.
MCStrays == \A c \in astray : use[c].st = "moving"
=============================================================================
