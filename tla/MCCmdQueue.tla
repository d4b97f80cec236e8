----------------------------- MODULE MCCmdQueue ------------------------------
(***************************************************************************)
(* CmdQueue for TLC: the two callers of fpga_enqueue() use different       *)
(* functions, so that their commands differ, and one of them also passes a *)
(* request that each check of __fpga_enqueue() refuses.  A physical        *)
(* request reaches the ring as a checked one does and is left out.  With   *)
(* three descriptors, two calls can be claimed and unfinished at one end   *)
(* of the ring without either of them being lapped: they fill, or drain,   *)
(* side by side and finish in any order.                                   *)
(***************************************************************************)
EXTENDS CmdQueue

CONSTANTS p1, p2   \* the two producers

Checked == [flag |-> VIRT_ADDR_WITH_CHECK,
            task_id |-> 1, len |-> 1024, va |-> 1, pa |-> 1024, chklen |-> 1024]
Unmapped == [flag |-> VIRT_ADDR_WITHOUT_CHECK,
             task_id |-> 3, len |-> 1024, va |-> 1, pa |-> 0, chklen |-> 0]

Refused ==
    {[Checked EXCEPT !.len = 960, !.chklen = 960],
     [Checked EXCEPT !.len = 1025, !.chklen = 1025],
     [Checked EXCEPT !.va = 0],
     [Checked EXCEPT !.pa = 0],
     [Checked EXCEPT !.pa = 1025],
     [Checked EXCEPT !.chklen = 512]}

MCPasses == [p \in {p1, p2} |-> IF p = p1 THEN {Checked} ELSE {Unmapped} \cup Refused]
=============================================================================
