---------------------------- MODULE MCStatCalls -----------------------------
EXTENDS StatCalls

CONSTANTS caller, rival

\* Lanes and ids: the first, the last and the one after it.
Places == {<<0, 0>>, <<3, 511>>, <<4, 0>>, <<0, 512>>}

Calls(kinds, regs, exts, dirs) ==
    UNION {[kind : kinds, lane : {p[1]}, reg : regs, ext : exts, dir : dirs, ch : {p[2]},
            timeout : {NoTimeval}] : p \in Places}

\* The polling calls, with two ticks or without a time.
WaitCalls == {[k EXCEPT !.timeout = limit] : k \in Calls(Waits, {0}, {0}, {0}), limit \in {NoTimeval, 2}}

\* Every call of the libraries, each with one value out of range.
AllCalls ==
    UNION { Calls({"latency_self"}, {0}, 0 .. 2, 0 .. 2),
            Calls({"con_status"}, {0}, 0 .. 2, {0}),
            Calls({"latency_func", "buff", "bp", "bp_clear", "egr_busy", "conv_usage"},
                  {0}, {0}, {0}),
            Calls({"bytes"}, 0 .. 8, {0}, {0}),
            Calls({"frames"}, 1 .. 6, {0}, {0}),
            Calls({"discard"}, 7 .. 12, {0}, {0}),
            Calls({"direct_bytes", "direct_frames", "fr_bytes", "fr_frames"}, 0 .. 4, {0}, {0}),
            Calls({"conv_bytes", "conv_frames"}, 0 .. 6, {0}, {0}),
            WaitCalls }

\* The other thread works on lane 0 of the chain, through either select
\* register, on another channel; or on the adapter of lane 3.
Rival(kind, lane) == [kind |-> kind, lane |-> lane, reg |-> 0, ext |-> 0, dir |-> 0,
                      ch |-> 7, timeout |-> NoTimeval]

MCCallsOf(t) ==
    IF t = caller THEN AllCalls
    ELSE { Rival("latency_self", 0), Rival("bp", 0), Rival("conv_bytes", 3) }
=============================================================================
