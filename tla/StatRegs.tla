------------------------------ MODULE StatRegs ------------------------------
(***************************************************************************)
(* Counters, latencies and states that the card shows through windows.     *)
(*                                                                         *)
(* A lane has one register for each kind of counter and a select register: *)
(* a call writes the channel (or the session) to the select register and   *)
(* then reads the counter, a 64-bit one in two halves.  Every definition   *)
(* has the name of the C function it models and gives the access the       *)
(* function makes: the select register, the channel written to it, and the *)
(* words it reads, each with the half of the value it is used for.         *)
(*                                                                         *)
(* A call has the arguments a = [lane, reg, ext, dir, ch]: reg is the      *)
(* reg_id, ext the extif_id, ch the connection or function chain id.       *)
(***************************************************************************)
EXTENDS Integers, Sequences

CONSTANT KERNEL_NUM    \* lanes of every module of the card

FPGA_CID_KIND_INGRESS == 0
FPGA_CID_KIND_EGRESS == 1

CID_MAX == 511
FUNCTION_CHAIN_ID_MAX == 511

(***************************************************************************)
(* Accesses.                                                               *)
(***************************************************************************)
NoAccess == [sel |-> -1, ch |-> -1, words |-> <<>>]

Low(addr) == [addr |-> addr, half |-> 0]
High(addr) == [addr |-> addr, half |-> 1]

Read32(base, sel, ch, addr) ==
    [sel |-> base + sel, ch |-> ch, words |-> <<Low(base + addr)>>]

\* Mutant: the high half is read first.
MutRead64(base, sel, ch, addr) ==
    [sel |-> base + sel, ch |-> ch, words |-> <<High(base + addr + 4), Low(base + addr)>>]

\* The two halves of a 64-bit counter are neighbours; the low one is read first.
Read64(base, sel, ch, addr) ==
    [sel |-> base + sel, ch |-> ch, words |-> <<Low(base + addr), High(base + addr + 4)>>]

chain_base(lane) == \h1000 + \h1000 * lane
direct_base(lane) == \h5000 + \h1000 * lane
conv_base(lane) == \h24000 + \h400 * lane
frfunc_base(lane) == \h25000 + \h1000 * lane

SEL_SESSION == \h300
SEL_CHANNEL == \h308

(***************************************************************************)
(* Function chain, driver.  The tables follow the cases of the switch.     *)
(***************************************************************************)
ChainByteRegs == <<
    <<SEL_SESSION, \h340>>, <<SEL_SESSION, \h348>>,    \* INGR_RCV0, INGR_RCV1
    <<SEL_CHANNEL, \h350>>, <<SEL_CHANNEL, \h358>>,    \* INGR_SND0, INGR_SND1
    <<SEL_CHANNEL, \h360>>, <<SEL_CHANNEL, \h368>>,    \* EGR_RCV0,  EGR_RCV1
    <<SEL_SESSION, \h370>>, <<SEL_SESSION, \h378>>,    \* EGR_SND0,  EGR_SND1
    <<SEL_CHANNEL, \h3A0>>, <<SEL_CHANNEL, \h3A8>>,    \* INGR_DISCARD0, INGR_DISCARD1
    <<SEL_CHANNEL, \h3B0>>, <<SEL_CHANNEL, \h3B8>> >>  \* EGR_DISCARD0,  EGR_DISCARD1

CHAIN_STAT_INGR_RCV == {0, 1}
CHAIN_STAT_INGR_SND == {2, 3}
CHAIN_STAT_EGR_RCV == {4, 5}
CHAIN_STAT_EGR_SND == {6, 7}
CHAIN_STAT_DISCARD == 8 .. 11

xpcie_fpga_get_chain_bytes(a) ==
    IF a.reg + 1 \in DOMAIN ChainByteRegs
    THEN Read64(chain_base(a.lane), ChainByteRegs[a.reg + 1][1], a.ch, ChainByteRegs[a.reg + 1][2])
    ELSE NoAccess

\* Mutant: the session instead of the channel is selected.
MutFrames(a) ==
    IF a.reg \in CHAIN_STAT_INGR_SND \cup CHAIN_STAT_EGR_RCV
    THEN Read32(chain_base(a.lane), SEL_SESSION, a.ch, \h380 + 4 * (a.reg - 2))
    ELSE NoAccess

xpcie_fpga_get_chain_frames(a) ==
    IF a.reg \in CHAIN_STAT_INGR_SND \cup CHAIN_STAT_EGR_RCV
    THEN Read32(chain_base(a.lane), SEL_CHANNEL, a.ch, \h380 + 4 * (a.reg - 2))
    ELSE NoAccess

xpcie_fpga_get_latency_chain(a) ==
    Read32(chain_base(a.lane), SEL_SESSION, a.ch,
           IF a.dir = FPGA_CID_KIND_INGRESS
           THEN IF a.ext = 0 THEN \h320 ELSE \h324
           ELSE IF a.ext = 0 THEN \h328 ELSE \h32C)

xpcie_fpga_get_latency_func(a) == Read32(chain_base(a.lane), SEL_CHANNEL, a.ch, \h330)
xpcie_fpga_get_chain_buff(a) == Read32(chain_base(a.lane), SEL_CHANNEL, a.ch, \h400)
xpcie_fpga_get_chain_bp(a) == Read32(chain_base(a.lane), SEL_CHANNEL, a.ch, \h404)
xpcie_fpga_get_chain_busy(a) == Read32(chain_base(a.lane), SEL_CHANNEL, a.ch, \h40C)

\* The flag is cleared by writing it to the same window that shows it.
xpcie_fpga_clear_chain_bp(a) == Read32(chain_base(a.lane), SEL_CHANNEL, a.ch, \h404)

xpcie_fpga_get_chain_con_status(a) ==
    Read32(chain_base(a.lane), SEL_SESSION, a.ch % 512, IF a.ext = 0 THEN \h410 ELSE \h414)

\* The ioctls of the counters; each copies the arguments in and the value out.
xpcie_fpga_ioctl_chain(cmd, a) ==
    CASE cmd = "GET_LATENCY_CHAIN" -> xpcie_fpga_get_latency_chain(a)
      [] cmd = "GET_LATENCY_FUNC"  -> xpcie_fpga_get_latency_func(a)
      [] cmd = "GET_CHAIN_BYTES"   -> xpcie_fpga_get_chain_bytes(a)
      [] cmd = "GET_CHAIN_FRAMES"  -> xpcie_fpga_get_chain_frames(a)
      [] cmd = "GET_CHAIN_BUFF"    -> xpcie_fpga_get_chain_buff(a)
      [] cmd = "GET_CHAIN_BP"      -> xpcie_fpga_get_chain_bp(a)
      [] cmd = "SET_CHAIN_BP_CLR"  -> xpcie_fpga_clear_chain_bp(a)
      [] cmd = "GET_EGR_BUSY"      -> xpcie_fpga_get_chain_busy(a)
      [] cmd = "GET_CONNECTION"    -> xpcie_fpga_get_chain_con_status(a)

(***************************************************************************)
(* Function chain, library: the argument checks.                           *)
(***************************************************************************)
LaneOK(a) == a.lane < KERNEL_NUM
CidOK(a) == a.ch <= CID_MAX
FchidOK(a) == a.ch <= FUNCTION_CHAIN_ID_MAX
ExtifOK(a) == a.ext <= 1
DirOK(a) == a.dir <= FPGA_CID_KIND_EGRESS

Checked(ok, access) == IF ok THEN access ELSE NoAccess

fpga_chain_get_stat_latency_self(a) ==
    Checked(LaneOK(a) /\ ExtifOK(a) /\ DirOK(a) /\ CidOK(a), xpcie_fpga_ioctl_chain("GET_LATENCY_CHAIN", a))

fpga_chain_get_stat_latency_func(a) ==
    Checked(LaneOK(a) /\ FchidOK(a), xpcie_fpga_ioctl_chain("GET_LATENCY_FUNC", a))

fpga_chain_get_stat_bytes(a) ==
    Checked(/\ LaneOK(a)
            /\ \/ a.reg \in CHAIN_STAT_INGR_RCV \cup CHAIN_STAT_EGR_SND /\ CidOK(a)
               \/ a.reg \in CHAIN_STAT_INGR_SND \cup CHAIN_STAT_EGR_RCV /\ FchidOK(a),
            xpcie_fpga_ioctl_chain("GET_CHAIN_BYTES", a))

fpga_chain_get_stat_frames(a) ==
    Checked(LaneOK(a) /\ FchidOK(a) /\ a.reg \in CHAIN_STAT_INGR_SND \cup CHAIN_STAT_EGR_RCV,
            xpcie_fpga_ioctl_chain("GET_CHAIN_FRAMES", a))

fpga_chain_get_stat_discard_bytes(a) ==
    Checked(LaneOK(a) /\ FchidOK(a) /\ a.reg \in CHAIN_STAT_DISCARD,
            xpcie_fpga_ioctl_chain("GET_CHAIN_BYTES", a))

fpga_chain_get_stat_buff(a) == Checked(LaneOK(a) /\ FchidOK(a), xpcie_fpga_ioctl_chain("GET_CHAIN_BUFF", a))
fpga_chain_get_stat_bp(a) == Checked(LaneOK(a) /\ FchidOK(a), xpcie_fpga_ioctl_chain("GET_CHAIN_BP", a))
fpga_chain_set_stat_bp_clear(a) == Checked(LaneOK(a) /\ FchidOK(a), xpcie_fpga_ioctl_chain("SET_CHAIN_BP_CLR", a))
fpga_chain_get_stat_egr_busy(a) == Checked(LaneOK(a) /\ FchidOK(a), xpcie_fpga_ioctl_chain("GET_EGR_BUSY", a))

\* One look of the polling call: the channel is free when it is not busy.
__fpga_chain_wait_stat_egr_free_clb(a) == fpga_chain_get_stat_egr_busy(a)

fpga_chain_wait_stat_egr_free(a) ==
    Checked(LaneOK(a) /\ FchidOK(a), __fpga_chain_wait_stat_egr_free_clb(a))

fpga_chain_get_con_status(a) ==
    Checked(LaneOK(a) /\ ExtifOK(a) /\ CidOK(a), xpcie_fpga_ioctl_chain("GET_CONNECTION", a))

(***************************************************************************)
(* Direct transfer: reg_id 0 .. 3 is INGR_RCV, INGR_SND, EGR_RCV, EGR_SND. *)
(***************************************************************************)
xpcie_fpga_get_direct_bytes(a) ==
    IF a.reg \in 0 .. 3 THEN Read64(direct_base(a.lane), \h40, a.ch, \h50 + 8 * a.reg) ELSE NoAccess

xpcie_fpga_get_direct_frames(a) ==
    Read32(direct_base(a.lane), \h40, a.ch, \h70 + 4 * a.reg)

\* The ioctls of the counters.
xpcie_fpga_ioctl_direct(cmd, a) ==
    CASE cmd = "GET_BYTES"  -> xpcie_fpga_get_direct_bytes(a)
      [] cmd = "GET_FRAMES" -> xpcie_fpga_get_direct_frames(a)

fpga_direct_get_stat_bytes(a) ==
    Checked(LaneOK(a) /\ FchidOK(a) /\ a.reg <= 3, xpcie_fpga_ioctl_direct("GET_BYTES", a))

fpga_direct_get_stat_frames(a) ==
    Checked(LaneOK(a) /\ FchidOK(a) /\ a.reg <= 3, xpcie_fpga_ioctl_direct("GET_FRAMES", a))

(***************************************************************************)
(* Conversion adapter and filter/resize: the library reads the registers   *)
(* itself, with pwrite() and pread(), one system call for each.            *)
(***************************************************************************)
ConvByteRegs == <<\h60, \h70, \h78, \h80, \h88, \h90>>
ConvFrameRegs == <<\h98, \hA0, \hA4, \hA8, \hAC, \hB0>>

fpga_conv_get_stat_bytes(a) ==
    Checked(LaneOK(a) /\ FchidOK(a) /\ a.reg <= 5,
            Read64(conv_base(a.lane), \h50, a.ch, ConvByteRegs[a.reg + 1]))

fpga_conv_get_stat_frames(a) ==
    Checked(LaneOK(a) /\ FchidOK(a) /\ a.reg <= 5,
            Read32(conv_base(a.lane), \h50, a.ch, ConvFrameRegs[a.reg + 1]))

fpga_conv_get_stat_buff_usage(a) ==
    Checked(LaneOK(a) /\ FchidOK(a), Read32(conv_base(a.lane), \h50, a.ch, \hC4))

fpga_filter_resize_get_stat_bytes(a) ==
    Checked(LaneOK(a) /\ FchidOK(a) /\ a.reg <= 3,
            Read64(frfunc_base(a.lane), \h40, a.ch, \h50 + 8 * a.reg))

fpga_filter_resize_get_stat_frames(a) ==
    Checked(LaneOK(a) /\ FchidOK(a) /\ a.reg <= 3,
            Read32(frfunc_base(a.lane), \h40, a.ch, \h70 + 4 * a.reg))

(***************************************************************************)
(* The call of each kind.                                                  *)
(***************************************************************************)
AccessOf(k) ==
    CASE k.kind = "latency_self"  -> fpga_chain_get_stat_latency_self(k)
      [] k.kind = "latency_func"  -> fpga_chain_get_stat_latency_func(k)
      [] k.kind = "bytes"         -> fpga_chain_get_stat_bytes(k)
      [] k.kind = "frames"        -> fpga_chain_get_stat_frames(k)
      [] k.kind = "discard"       -> fpga_chain_get_stat_discard_bytes(k)
      [] k.kind = "buff"          -> fpga_chain_get_stat_buff(k)
      [] k.kind = "bp"            -> fpga_chain_get_stat_bp(k)
      [] k.kind = "bp_clear"      -> fpga_chain_set_stat_bp_clear(k)
      [] k.kind = "egr_busy"      -> fpga_chain_get_stat_egr_busy(k)
      [] k.kind = "egr_free"      -> fpga_chain_wait_stat_egr_free(k)
      [] k.kind = "con_status"    -> fpga_chain_get_con_status(k)
      [] k.kind = "direct_bytes"  -> fpga_direct_get_stat_bytes(k)
      [] k.kind = "direct_frames" -> fpga_direct_get_stat_frames(k)
      [] k.kind = "conv_bytes"    -> fpga_conv_get_stat_bytes(k)
      [] k.kind = "conv_frames"   -> fpga_conv_get_stat_frames(k)
      [] k.kind = "conv_usage"    -> fpga_conv_get_stat_buff_usage(k)
      [] k.kind = "fr_bytes"      -> fpga_filter_resize_get_stat_bytes(k)
      [] k.kind = "fr_frames"     -> fpga_filter_resize_get_stat_frames(k)
=============================================================================
