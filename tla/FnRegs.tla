------------------------------- MODULE FnRegs -------------------------------
(***************************************************************************)
(* The registers of a function lane: the filter/resize function ("fr") and *)
(* the conversion adapter in front of it ("conv").                         *)
(*                                                                         *)
(* A call that programs a lane is a sequence of pwrite() calls; the        *)
(* definitions, named after the functions of libfunction_conv.c and        *)
(* libfunction_filter_resize.c, give what it returns before any write      *)
(* (ret) and the writes it then makes.                                     *)
(***************************************************************************)
EXTENDS Integers, Sequences

CONSTANTS KERNEL_NUM_FUNC, KERNEL_NUM_CONV    \* lanes the driver has found

\* A parameter that the JSON text does not have is all ones.
MISSING == -1

STOP_MODULE == 0
START_MODULE == 1

\* The DDR region of the lane's frame buffer.
FRAME_BUFFER_L == 0
FRAME_BUFFER_H(lane) == 4 + (IF lane > 3 THEN 3 ELSE lane)

Write(block, reg, val) == [block |-> block, reg |-> reg, val |-> val]

\* Parameters that are missing are left alone.
Given(block, reg, val) == IF val = MISSING THEN <<>> ELSE <<Write(block, reg, val)>>

Stop(block, vals) == IF MISSING \in vals THEN <<>> ELSE <<Write(block, "control", STOP_MODULE)>>

Module(block, module) ==
    Given(block, "control", IF module = 1 THEN START_MODULE ELSE IF module = MISSING THEN MISSING ELSE STOP_MODULE)

Refuse == [ret |-> "INVALID_ARGUMENT", writes |-> <<>>]
Accept(writes) == [ret |-> "OK", writes |-> writes]

(***************************************************************************)
(* Conversion adapter.                                                     *)
(***************************************************************************)
\* Mutant: the adapter is not stopped before its parameters change.
MutConvSet(i_width, i_height, frame_buffer_l, frame_buffer_h, module) ==
    Given("conv", "cols", i_width)
    \o Given("conv", "rows", i_height)
    \o Given("conv", "frame_buffer_l", frame_buffer_l)
    \o Given("conv", "frame_buffer_h", frame_buffer_h)
    \o Module("conv", module)

\* The adapter is stopped, programmed and then started or left stopped.
__fpga_conv_set(i_width, i_height, frame_buffer_l, frame_buffer_h, module) ==
    Stop("conv", {i_width, i_height})
    \o Given("conv", "cols", i_width)
    \o Given("conv", "rows", i_height)
    \o Given("conv", "frame_buffer_l", frame_buffer_l)
    \o Given("conv", "frame_buffer_h", frame_buffer_h)
    \o Module("conv", module)

\* A picture of no size stops the adapter.
fpga_conv_set(lane, p) ==
    IF lane >= KERNEL_NUM_CONV \/ p.i_width = MISSING \/ p.i_height = MISSING THEN Refuse
    ELSE Accept(__fpga_conv_set(p.i_width, p.i_height, FRAME_BUFFER_L, FRAME_BUFFER_H(lane),
                                IF p.i_width = 0 /\ p.i_height = 0 THEN 0 ELSE 1))

fpga_conv_finish(lane) ==
    IF lane >= KERNEL_NUM_CONV THEN Refuse ELSE Accept(__fpga_conv_set(0, 0, 0, 0, 0))

(***************************************************************************)
(* Filter and resize.                                                      *)
(***************************************************************************)
__fpga_filter_resize_set(p, module) ==
    Stop("fr", {p.i_width, p.i_height, p.o_width, p.o_height})
    \o Given("fr", "cols_input", p.i_width)
    \o Given("fr", "rows_input", p.i_height)
    \o Given("fr", "cols_output", p.o_width)
    \o Given("fr", "rows_output", p.o_height)
    \o Module("fr", module)

\* The adapter is programmed whatever became of the function; an error of
\* the function hides one of the adapter.
Both(fr, conv) == [ret |-> conv.ret, writes |-> fr \o conv.writes]

fpga_filter_resize_set(lane, p) ==
    LET sizes == {p.i_width, p.i_height, p.o_width, p.o_height} IN
    IF lane >= KERNEL_NUM_FUNC \/ MISSING \in sizes THEN Refuse
    ELSE Both(__fpga_filter_resize_set(p, IF sizes = {0} THEN 0 ELSE 1), fpga_conv_set(lane, p))

NoSize == [i_width |-> 0, i_height |-> 0, o_width |-> 0, o_height |-> 0]

fpga_filter_resize_finish(lane) ==
    IF lane >= KERNEL_NUM_FUNC THEN Refuse
    ELSE Both(__fpga_filter_resize_set(NoSize, 0), fpga_conv_finish(lane))

(***************************************************************************)
(* What the reading calls return, from the registers of the lane.          *)
(***************************************************************************)
fpga_conv_get_control(regs) == regs.conv.control
fpga_filter_resize_get_control(regs) == regs.fr.control

fpga_conv_get_setting(regs) ==
    [i_width |-> regs.conv.cols, i_height |-> regs.conv.rows,
     frame_buffer_l |-> regs.conv.frame_buffer_l, frame_buffer_h |-> regs.conv.frame_buffer_h]

fpga_filter_resize_get_setting(regs) ==
    [fr |-> [i_width |-> regs.fr.cols_input, i_height |-> regs.fr.rows_input,
             o_width |-> regs.fr.cols_output, o_height |-> regs.fr.rows_output],
     conv |-> fpga_conv_get_setting(regs)]
=============================================================================
