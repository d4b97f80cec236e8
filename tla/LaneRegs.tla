------------------------------ MODULE LaneRegs ------------------------------
(***************************************************************************)
(* The plain registers of a lane: start and stop of the chain and of the   *)
(* direct transfer, the buffers of the external interfaces in the DDR      *)
(* memory, the module ids and the overflow flag of the conversion adapter. *)
(* Definitions have the names of the C functions of libxpcie_chain.c,      *)
(* libxpcie_direct.c, libchain.c, libdirecttrans.c and                     *)
(* libfunction_conv_stat.c and give the cells they read or write.          *)
(***************************************************************************)
EXTENDS ChainErr, DirectErr, ConvErr

CONSTANT EXTIFINV     \* build option: the two external interfaces change places

\* XPCIE_FPGA_START_MODULE is one, XPCIE_FPGA_STOP_MODULE zero.
StartBit == Field("word", 0, 1)

(***************************************************************************)
(* Control and module id.  Starting sets the bit, stopping clears it.      *)
(***************************************************************************)
xpcie_fpga_start_chain_module(a) == At(chain_reg(\h0, a, NoSel), StartBit)
xpcie_fpga_stop_chain_module(a) == At(chain_reg(\h0, a, NoSel), StartBit)
xpcie_fpga_get_chain_ctrl(a) == At(chain_reg(\h0, a, NoSel), WordBits)
xpcie_fpga_get_chain_module_id(a) == At(chain_reg(\h10, a, NoSel), WordBits)

xpcie_fpga_start_direct_module(a) == At(direct_reg(\h0, a), StartBit)
xpcie_fpga_stop_direct_module(a) == At(direct_reg(\h0, a), StartBit)
xpcie_fpga_get_direct_ctrl(a) == At(direct_reg(\h0, a), WordBits)
xpcie_fpga_get_direct_module_id(a) == At(direct_reg(\h10, a), WordBits)

\* The ioctls.
ChainCtrlIoctl(cmd, a) ==
    CASE cmd = "START" -> xpcie_fpga_start_chain_module(a)
      [] cmd = "STOP"  -> xpcie_fpga_stop_chain_module(a)

ChainModuleIoctl(cmd, a) ==
    CASE cmd = "GET_MODULE"    -> xpcie_fpga_get_chain_ctrl(a)
      [] cmd = "GET_MODULE_ID" -> xpcie_fpga_get_chain_module_id(a)

DirectCtrlIoctl(cmd, a) ==
    CASE cmd = "START" -> xpcie_fpga_start_direct_module(a)
      [] cmd = "STOP"  -> xpcie_fpga_stop_direct_module(a)

DirectModuleIoctl(cmd, a) ==
    CASE cmd = "GET_MODULE"    -> xpcie_fpga_get_direct_ctrl(a)
      [] cmd = "GET_MODULE_ID" -> xpcie_fpga_get_direct_module_id(a)

fpga_chain_start(a) == Call(ChainLaneOK(a), {"word"}, ChainCtrlIoctl("START", a))
fpga_chain_stop(a) == Call(ChainLaneOK(a), {"word"}, ChainCtrlIoctl("STOP", a))
fpga_chain_get_control(a) == Call(ChainLaneOK(a), {"word"}, ChainModuleIoctl("GET_MODULE", a))
fpga_chain_get_module_id(a) == Call(ChainLaneOK(a), {"word"}, ChainModuleIoctl("GET_MODULE_ID", a))

fpga_direct_start(a) == Call(DirectLaneOK(a), {"word"}, DirectCtrlIoctl("START", a))
fpga_direct_stop(a) == Call(DirectLaneOK(a), {"word"}, DirectCtrlIoctl("STOP", a))
fpga_direct_get_control(a) == Call(DirectLaneOK(a), {"word"}, DirectModuleIoctl("GET_MODULE", a))
fpga_direct_get_module_id(a) == Call(DirectLaneOK(a), {"word"}, DirectModuleIoctl("GET_MODULE_ID", a))

(***************************************************************************)
(* The buffers of an external interface: ten registers with fixed values.  *)
(***************************************************************************)
BitsOf(name, lo, n) == {<<name, lo + i>> : i \in {j \in 0 .. 27 : (n \div 2^j) % 2 = 1}}

\* The network interface has a buffer of its own for each lane.
DDR_VALUES(a) ==
    IF (a.id = 1) # EXTIFINV
    THEN BitsOf("base", 32, \h8 + (IF a.lane > 3 THEN 3 ELSE a.lane))
         \cup BitsOf("rx_stride", 0, \h200000) \cup BitsOf("rx_size", 0, \hA)
         \cup BitsOf("tx_offset", 0, \h100000)
         \cup BitsOf("tx_stride", 0, \h200000) \cup BitsOf("tx_size", 0, \hA)
    ELSE BitsOf("rx_stride", 0, \h100000) \cup BitsOf("rx_size", 0, \hA)
         \cup BitsOf("tx_offset", 0, \h2000000)
         \cup BitsOf("tx_stride", 0, \h100000) \cup BitsOf("tx_size", 0, \hA)

\* A word of n bits at an offset from the buffer registers of the interface.
DdrWord(a, offset, name, lo, n) ==
    LET addr == chain_reg((IF a.id = 0 THEN \h100 ELSE \h140) + offset, a, NoSel)
    IN  [p \in {name} \X (lo .. lo + n - 1) |-> <<addr, p[2] - lo>>]

DdrRegs(a, size) ==
    DdrWord(a, 0, "base", 0, 32) @@ DdrWord(a, 4, "base", 32, 32)
    @@ DdrWord(a, \h10, "rx_offset", 0, 32) @@ DdrWord(a, \h14, "rx_offset", 32, 32)
    @@ DdrWord(a, \h18, "rx_stride", 0, 32) @@ DdrWord(a, \h1C, "rx_size", 0, size)
    @@ DdrWord(a, \h20, "tx_offset", 0, 32) @@ DdrWord(a, \h24, "tx_offset", 32, 32)
    @@ DdrWord(a, \h28, "tx_stride", 0, 32) @@ DdrWord(a, \h2C, "tx_size", 0, size)

xpcie_fpga_set_ddr_offset_frame(a) == IF a.id <= 1 THEN DdrRegs(a, 32) ELSE Refused

\* The sizes are cut to four bits.
xpcie_fpga_get_ddr_offset_frame(a) == IF a.id <= 1 THEN DdrRegs(a, 4) ELSE Refused

\* The ioctls of the buffers.
DdrIoctl(cmd, a) ==
    CASE cmd = "SET" -> xpcie_fpga_set_ddr_offset_frame(a)
      [] cmd = "GET" -> xpcie_fpga_get_ddr_offset_frame(a)

fpga_chain_set_ddr(a) ==
    Call(ChainLaneOK(a) /\ ExtifOK(a), FieldsOf(DdrRegs(a, 32)), DdrIoctl("SET", a))

fpga_chain_get_ddr(a) ==
    Call(ChainLaneOK(a) /\ ExtifOK(a), FieldsOf(DdrRegs(a, 4)), DdrIoctl("GET", a))

(***************************************************************************)
(* The overflow flag of the frame buffer.                                  *)
(***************************************************************************)
fpga_conv_get_stat_ovf(a) == Call(ConvLaneOK(a), {"word"}, At(conv_reg(\hC0, a), WordBits))
fpga_conv_set_stat_ovf_clear(a) == Call(ConvLaneOK(a), {"word"}, At(conv_reg(\hC0, a), WordBits))

(***************************************************************************)
(* The calls by kind and view.                                             *)
(***************************************************************************)
LaneGet(kind, a) ==
    CASE kind = "chain_ctrl"  -> fpga_chain_get_control(a)
      [] kind = "chain_id"    -> fpga_chain_get_module_id(a)
      [] kind = "direct_ctrl" -> fpga_direct_get_control(a)
      [] kind = "direct_id"   -> fpga_direct_get_module_id(a)
      [] kind = "chain_ddr"   -> fpga_chain_get_ddr(a)
      [] kind = "conv_ovf"    -> fpga_conv_get_stat_ovf(a)

LaneSet(kind, view, a) ==
    CASE kind = "chain_ctrl" /\ view = "start"  -> fpga_chain_start(a)
      [] kind = "chain_ctrl" /\ view = "stop"   -> fpga_chain_stop(a)
      [] kind = "direct_ctrl" /\ view = "start" -> fpga_direct_start(a)
      [] kind = "direct_ctrl" /\ view = "stop"  -> fpga_direct_stop(a)
      [] kind = "chain_ddr"                     -> fpga_chain_set_ddr(a)

\* What a set call writes: the caller has no choice.
LaneValue(kind, view, a) ==
    IF kind = "chain_ddr" THEN DDR_VALUES(a)
    ELSE IF view = "start" THEN {<<"word", 0>>} ELSE {}
=============================================================================
