----------------------------- MODULE MCLiblldma ------------------------------
(* Liblldma for TLC: channel r1 or r2 of direction RX, t1 of direction TX. *)
EXTENDS Liblldma, TLC

CONSTANTS r1, r2, t1

TwoFds == {3, 4}
TwoFdFiles == Procs \X TwoFds

HostEntries == {"host"} \X Channels
MixedEntries == {<<"host", r1>>, <<"nw", r1>>, <<"host", r2>>}

ProcSymmetry == Permutations(Procs)
=============================================================================
