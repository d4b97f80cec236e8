----------------------------- MODULE StatCalls ------------------------------
(***************************************************************************)
(* Threads that read counters through the windows of StatRegs, and the     *)
(* calls that poll one of them, or the driver's copy of the chain table,   *)
(* until a condition holds or a time has passed (__fpga_common_polling).   *)
(*                                                                         *)
(* No lock covers the write of a select register and the reads that follow *)
(* it, neither in the driver nor in the library: the threads of this model *)
(* keep calls that share a select register apart themselves (WindowFree),  *)
(* as the callers in the repository do by using one thread for all of      *)
(* them.  Everything else interleaves, the hardware's own steps too: a     *)
(* counter may move between the reads of its two halves.                   *)
(***************************************************************************)
EXTENDS StatRegs, FiniteSets, Functions

CONSTANTS Threads,
          CallsOf(_),   \* the calls a thread may make
          WORD,         \* values of a 32-bit register, reduced
          MaxMoves,     \* bound on the hardware's steps
          MaxSetback    \* bound on the ticks the clock is set back

NoTimeval == -1

TableWaits == {"connection_ingress", "connection_egress",
               "disconnection_ingress", "disconnection_egress"}
Waits      == TableWaits \cup {"egr_free"}
Counters   == {"bytes", "frames", "discard", "direct_bytes", "direct_frames", "conv_bytes",
               "conv_frames", "fr_bytes", "fr_frames"}
ByPread    == {"conv_bytes", "conv_frames", "conv_usage", "fr_bytes", "fr_frames"}
Kinds      == Waits \cup Counters \cup ByPread
                \cup {"latency_self", "latency_func", "buff", "bp", "bp_clear", "egr_busy", "con_status"}

\* The arguments are unsigned; a reduced 32-bit register is wide enough not
\* to come round within a behaviour.
Arguments == [kind : Kinds, lane : Nat, reg : Nat, ext : Nat, dir : Nat, ch : Nat,
              timeout : Nat \cup {NoTimeval}]

ASSUME StatAssumption ==
    /\ KERNEL_NUM \in 1 .. 4
    /\ MaxMoves \in Nat /\ WORD \in Nat /\ WORD > MaxMoves + 1
    /\ \A t \in Threads : CallsOf(t) \subseteq Arguments

VARIABLES call,      \* the call of each thread
          pc,        \* its next step
          nth,       \* words it has read
          got,       \* the value it has put together
          sel,       \* the select registers
          count,     \* the counters, by the cell that shows them
          linked,    \* for each direction, the ids of the connection the driver's table has
          elapsed,   \* ticks a polling thread has slept
          moves, setback,
          at, still, ready   \* history, see the properties

vars == <<call, pc, nth, got, sel, count, linked, elapsed, moves, setback, at, still, ready>>

(***************************************************************************)
(* Calls.                                                                  *)
(***************************************************************************)
Directions == {"ingress", "egress"}
IdFields   == {"extif_id", "cid"}

Windowed(k) == k.kind \notin TableWaits

Access(t) == AccessOf(call[t])

\* The counter behind a call, named by the cell its low word is read from.
CellOf(k) ==
    LET a == AccessOf(k)
        low == CHOOSE w \in Range(a.words) : w.half = 0
    IN  <<low.addr, a.ch>>

HasCell(k) == Windowed(k) /\ AccessOf(k) # NoAccess

(***************************************************************************)
(* The hardware: which select register a counter register listens to, and  *)
(* what it shows.                                                          *)
(***************************************************************************)
Within(x, low, high) == low <= x /\ x <= high

\* The registers of a chain that the session selects.
OfSession(offset) == \/ Within(offset, \h320, \h32F) \/ Within(offset, \h340, \h34F)
                     \/ Within(offset, \h370, \h37F) \/ Within(offset, \h410, \h417)

SelectOf(addr) ==
    LET chain  == (addr \div \h1000) * \h1000
        offset == addr % \h1000
    IN  IF addr >= \h25000 \/ Within(addr, \h5000, \h8FFF) THEN chain + \h40
        ELSE IF addr >= \h24000 THEN (addr \div \h400) * \h400 + \h50
        ELSE IF OfSession(offset) THEN chain + SEL_SESSION
        ELSE chain + SEL_CHANNEL

Shown(w) == <<w.addr - 4 * w.half, sel[SelectOf(w.addr)]>>

Half(w, v) == IF w.half = 0 THEN v % WORD ELSE v \div WORD

\* The counters that no thread asks for stay at zero.
RegValue(w) == IF Shown(w) \in DOMAIN count THEN Half(w, count[Shown(w)]) ELSE 0

(***************************************************************************)
(* Initial state.  A 64-bit counter starts before a carry into its high    *)
(* half, the others at one.                                                *)
(***************************************************************************)
Init ==
    /\ call \in [Threads -> UNION {CallsOf(t) : t \in Threads}]
    /\ \A t \in Threads : call[t] \in CallsOf(t)
    /\ pc = [t \in Threads |-> "call"]
    /\ nth = [t \in Threads |-> 0]
    /\ got = [t \in Threads |-> 0]
    /\ LET live == {t \in Threads : HasCell(call[t])} IN
       /\ sel = [s \in {Access(t).sel : t \in live} \cup
                       {SelectOf(CellOf(call[t])[1]) : t \in live} |-> 0]
       /\ count = [c \in {CellOf(call[t]) : t \in live} |->
                      IF \E t \in live : CellOf(call[t]) = c /\ Len(Access(t).words) = 2
                      THEN WORD - 1 ELSE 1]
    /\ linked = [dir \in Directions |-> {}]
    /\ elapsed = [t \in Threads |-> 0]
    /\ moves = 0
    /\ setback = 0
    /\ at = [t \in Threads |-> 0]
    /\ still = [t \in Threads |-> TRUE]
    /\ ready = [t \in Threads |-> FALSE]

(***************************************************************************)
(* What a polling call waits for.  The driver keeps an interface and a     *)
(* connection id for each direction and writes them one after the other;   *)
(* the look-up may meet one without the other.                             *)
(***************************************************************************)
xpcie_fpga_read_chain_soft_table(table) == [dir \in Directions |-> table[dir]]

fpga_chain_read_soft_table(table) == xpcie_fpga_read_chain_soft_table(table)

Established(table, dir) == fpga_chain_read_soft_table(table)[dir] = IdFields
Removed(table, dir) == fpga_chain_read_soft_table(table)[dir] = {}

fpga_chain_wait_connection_ingress(table) == Established(table, "ingress")
fpga_chain_wait_connection_egress(table) == Established(table, "egress")
fpga_chain_wait_disconnection_ingress(table) == Removed(table, "ingress")
fpga_chain_wait_disconnection_egress(table) == Removed(table, "egress")

TableShows(table, kind) ==
    CASE kind = "connection_ingress"    -> fpga_chain_wait_connection_ingress(table)
      [] kind = "connection_egress"     -> fpga_chain_wait_connection_egress(table)
      [] kind = "disconnection_ingress" -> fpga_chain_wait_disconnection_ingress(table)
      [] kind = "disconnection_egress"  -> fpga_chain_wait_disconnection_egress(table)

Holds(t) == IF Windowed(call[t]) THEN count[CellOf(call[t])] = 0 ELSE TableShows(linked, call[t].kind)

(***************************************************************************)
(* Steps of a thread.                                                      *)
(***************************************************************************)
Final == {"refused", "done", "failed", "success", "timeout"}

InWindow(t) == pc[t] \in {"read", "write"}

WindowFree(t) == \A u \in Threads \ {t} : InWindow(u) => Access(u).sel # Access(t).sel

\* The argument check of the library; a refused call touches no register.
\* The calls that poll check the lane and the function chain id themselves.
Call(t) ==
    /\ pc[t] = "call"
    /\ LET k == call[t]
           ok == IF Windowed(k) THEN Access(t) # NoAccess ELSE LaneOK(k) /\ FchidOK(k)
       IN  /\ pc' = [pc EXCEPT ![t] = IF ~ok THEN "refused"
                                      ELSE IF Windowed(k) THEN "select" ELSE "check"]
           /\ at' = [at EXCEPT ![t] = IF HasCell(k) THEN count[CellOf(k)] ELSE 0]
    /\ UNCHANGED <<call, nth, got, sel, count, linked, elapsed, moves, setback, still, ready>>

Select(t) ==
    /\ pc[t] = "select"
    /\ WindowFree(t)
    /\ sel' = [sel EXCEPT ![Access(t).sel] = Access(t).ch]
    /\ nth' = [nth EXCEPT ![t] = 0]
    /\ got' = [got EXCEPT ![t] = 0]
    /\ pc' = [pc EXCEPT ![t] = IF call[t].kind = "bp_clear" THEN "write" ELSE "read"]
    /\ UNCHANGED <<call, count, linked, elapsed, moves, setback, at, still, ready>>

ReadWord(t) ==
    /\ pc[t] = "read"
    /\ LET w == Access(t).words[nth[t] + 1] IN
       got' = [got EXCEPT ![t] = @ + (IF w.half = 1 THEN WORD ELSE 1) * RegValue(w)]
    /\ nth' = [nth EXCEPT ![t] = @ + 1]
    /\ pc' = [pc EXCEPT ![t] = IF nth'[t] < Len(Access(t).words) THEN "read"
                               ELSE IF call[t].kind \in Waits THEN "polled" ELSE "done"]
    /\ UNCHANGED <<call, sel, count, linked, elapsed, moves, setback, at, still, ready>>

\* The threads whose call is about the counter shown as c.
UsersOf(c) == {t \in Threads : HasCell(call[t]) /\ CellOf(call[t]) = c}

\* A value is not still when it moves during the call.
Moved(c) == [t \in Threads |-> still[t] /\ (t \in UsersOf(c) => pc[t] \in Final \cup {"call"})]

\* The flag is cleared in the channel the window shows now.
ClearFlag(t) ==
    /\ pc[t] = "write"
    /\ LET c == Shown(Access(t).words[1]) IN
       /\ count' = IF c \in DOMAIN count THEN [count EXCEPT ![c] = 0] ELSE count
       /\ still' = Moved(c)
    /\ pc' = [pc EXCEPT ![t] = "done"]
    /\ UNCHANGED <<call, nth, got, sel, linked, elapsed, moves, setback, at, ready>>

\* pread() and pwrite() fail while access to the registers is not enabled for
\* the file (fpga_enable_regrw), or when another thread of the process
\* disables it between two of them (fpga_disable_regrw).
IoFails(t) ==
    /\ call[t].kind \in ByPread
    /\ pc[t] \in {"select", "read"}
    /\ pc' = [pc EXCEPT ![t] = "failed"]
    /\ UNCHANGED <<call, nth, got, sel, count, linked, elapsed, moves, setback, at, still, ready>>

\* The system call of a callback fails: it answers less than zero, which
\* ends the poll, and the call returns that error.
CallbackFails(t) ==
    /\ call[t].kind \in Waits
    /\ pc[t] \in {"select", "check"}
    /\ pc' = [pc EXCEPT ![t] = "failed"]
    /\ UNCHANGED <<call, nth, got, sel, count, linked, elapsed, moves, setback, at, still, ready>>

\* The look-up of the driver's copy of the table, one ioctl.
__fpga_chain_wait_connection_clb(t) ==
    /\ pc[t] = "check"
    /\ got' = [got EXCEPT ![t] = IF TableShows(linked, call[t].kind) THEN 0 ELSE 1]
    /\ pc' = [pc EXCEPT ![t] = "polled"]
    /\ UNCHANGED <<call, nth, sel, count, linked, elapsed, moves, setback, at, still, ready>>

\* A timeout that is not given is zero: the condition is looked at once.
__convert_time_val2spec(val) == IF val = NoTimeval THEN 0 ELSE val

__get_remain_ns(spent, target) == target - spent

Limit(t) == __convert_time_val2spec(call[t].timeout)

\* After the callback: success, no more time, or another interval.
__fpga_common_polling(t) ==
    /\ pc[t] = "polled"
    /\ pc' = [pc EXCEPT ![t] = IF got[t] = 0 THEN "success"
                               ELSE IF __get_remain_ns(elapsed[t], Limit(t)) <= 0
                               THEN "timeout" ELSE "sleep"]
    /\ UNCHANGED <<call, nth, got, sel, count, linked, elapsed, moves, setback, at, still, ready>>

\* Mutant: the ticks of the last interval only.
MutSlept(t, ticks) ==
    /\ pc[t] = "sleep"
    /\ elapsed' = [elapsed EXCEPT ![t] = ticks]
    /\ setback' = setback + (IF ticks < 0 THEN -ticks ELSE 0)
    /\ setback' <= MaxSetback
    /\ ready' = [ready EXCEPT ![t] = Holds(t)]

\* An interval of one tick on a clock that may be set back meanwhile.
Slept(t, ticks) ==
    /\ pc[t] = "sleep"
    /\ elapsed' = [elapsed EXCEPT ![t] = @ + ticks]
    /\ setback' = setback + (IF ticks < 0 THEN -ticks ELSE 0)
    /\ setback' <= MaxSetback
    /\ ready' = [ready EXCEPT ![t] = Holds(t)]

\* Mutant: the time is tested before the condition is looked at again.
MutSleep(t, ticks) ==
    /\ Slept(t, ticks)
    /\ pc' = [pc EXCEPT ![t] = IF elapsed'[t] >= Limit(t) THEN "timeout"
                               ELSE IF Windowed(call[t]) THEN "select" ELSE "check"]
    /\ UNCHANGED <<call, nth, got, sel, count, linked, moves, at, still>>

Sleep(t, ticks) ==
    /\ Slept(t, ticks)
    /\ pc' = [pc EXCEPT ![t] = IF Windowed(call[t]) THEN "select" ELSE "check"]
    /\ UNCHANGED <<call, nth, got, sel, count, linked, moves, at, still>>

(***************************************************************************)
(* Steps of the hardware and of the processes that connect the chain.      *)
(***************************************************************************)
Move(c) ==
    LET users == UsersOf(c) IN
    /\ moves < MaxMoves
    /\ \E t \in users : pc[t] \notin Final
    /\ moves' = moves + 1
    /\ count' = [count EXCEPT ![c] = IF \E t \in users : call[t].kind \in Counters
                                     THEN @ + 1 ELSE 1 - @]
    /\ still' = Moved(c)
    /\ ready' = [t \in Threads |-> ready[t] /\ ~(t \in users /\ count'[c] # 0)]
    /\ UNCHANGED <<call, pc, nth, got, sel, linked, elapsed, setback, at>>

Relink(dir, field) ==
    /\ moves < MaxMoves
    /\ \E t \in Threads : call[t].kind \in TableWaits /\ pc[t] \notin Final
    /\ moves' = moves + 1
    /\ linked' = [linked EXCEPT ![dir] = IF field \in @ THEN @ \ {field} ELSE @ \cup {field}]
    /\ ready' = [t \in Threads |-> ready[t] /\ (call[t].kind \in TableWaits
                                                   => TableShows(linked', call[t].kind))]
    /\ UNCHANGED <<call, pc, nth, got, sel, count, elapsed, setback, at, still>>

Step(t) ==
    \/ Call(t) \/ Select(t) \/ ReadWord(t) \/ ClearFlag(t)
    \/ __fpga_chain_wait_connection_clb(t) \/ __fpga_common_polling(t)
    \/ \E ticks \in {-1, 1} : Sleep(t, ticks)

Returned == /\ \A t \in Threads : pc[t] \in Final
            /\ UNCHANGED vars

Next == \/ \E t \in Threads : Step(t) \/ IoFails(t) \/ CallbackFails(t)
        \/ \E c \in DOMAIN count : Move(c)
        \/ \E dir \in Directions, field \in IdFields : Relink(dir, field)
        \/ Returned

Spec == Init /\ [][Next]_vars /\ \A t \in Threads : WF_vars(Step(t))

(***************************************************************************)
(* Properties.                                                             *)
(***************************************************************************)
TypeOK ==
    /\ \A t \in Threads : call[t] \in CallsOf(t)
    /\ pc \in [Threads -> Final \cup {"call", "select", "read", "write", "check", "polled", "sleep"}]
    /\ nth \in [Threads -> 0 .. 2]
    /\ got \in [Threads -> Nat]
    /\ count \in [DOMAIN count -> Nat]
    /\ linked \in [Directions -> SUBSET IdFields]
    /\ elapsed \in [Threads -> Int]

\* A byte or frame counter that a call returns is never behind what the
\* hardware had counted when the call began, even when the counter carries
\* into its high half between the two reads (at is the count at the start of
\* the call; xpcie_fpga_get_chain_bytes and the calls like it).
NeverUnderReports ==
    \A t \in Threads : (pc[t] = "done" /\ call[t].kind \in Counters) => got[t] >= at[t]

\* A value that does not move during a call is returned as it is: the call
\* reads the counter of its own lane, kind and channel, whatever the other
\* thread selects meanwhile (still says that the counter has not moved nor
\* been cleared since the call began; the select registers and the windows
\* of libxpcie_chain.c, libxpcie_direct.c, libfunction_conv_stat.c and
\* libfunction_filter_resize_stat.c).
ReadsOwnCounter ==
    \A t \in Threads : (pc[t] = "done" /\ still[t]) => got[t] = at[t]

\* A polling call never reports a timeout when the condition has held since
\* its last interval ended: the condition is looked at once more after the
\* time is over (__fpga_common_polling; ready is that history).
WaitMissesNothing == \A t \in Threads : pc[t] = "timeout" => ~ready[t]

\* Every call returns, the polling ones because the time they sleep adds up
\* to the timeout even when the clock is set back.
EveryCallReturns == \A t \in Threads : <>(pc[t] \in Final)
=============================================================================
