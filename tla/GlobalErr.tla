----------------------------- MODULE GlobalErr ------------------------------
(***************************************************************************)
(* Clock and memory errors of the card: the driver functions of            *)
(* driver/global/libxpcie_global.c, their ioctl cases, and the calls of    *)
(* libfpgactl_err.c.  An ECC call of the library is two ioctls, for the    *)
(* single-bit and for the multi-bit errors.                                *)
(***************************************************************************)
EXTENDS RegAccess

GLOBAL_OFFSET == 0

global_reg(offset) == <<GLOBAL_OFFSET + offset, NoSel>>

ClkRegs == [value |-> \h110, raw |-> \h114, mask |-> \h118, force |-> \h11C]

EccRegs(type) ==
    IF type = "SINGLE"
    THEN [value |-> \h120, raw |-> \h128, mask |-> \h130, force |-> \h138]
    ELSE [value |-> \h124, raw |-> \h12C, mask |-> \h134, force |-> \h13C]

ClkBits == Flags(<<"user_clk", "ddr4_clk0", "ddr4_clk1", "ddr4_clk2", "ddr4_clk3",
                   "qsfp_clk0", "qsfp_clk1">>, 0)

\* The library splits each word into one byte for each DDR4 bank.
EccBits(type) ==
    IF type = "SINGLE"
    THEN Field("ddr4_single0", 0, 8) @@ Field("ddr4_single1", 8, 8)
         @@ Field("ddr4_single2", 16, 8) @@ Field("ddr4_single3", 24, 8)
    ELSE Field("ddr4_multi0", 0, 8) @@ Field("ddr4_multi1", 8, 8)
         @@ Field("ddr4_multi2", 16, 8) @@ Field("ddr4_multi3", 24, 8)

xpcie_fpga_chk_err(a) == At(global_reg(\h100), WordBits)

xpcie_fpga_clk_dwn_det(a) == At(global_reg(ClkRegs.value), ClkBits)

xpcie_fpga_clk_dwn_clear(a) == At(global_reg(ClkRegs.value), ClkBits)

xpcie_fpga_clk_dwn_raw_det(a) == At(global_reg(ClkRegs.raw), ClkBits)

xpcie_fpga_clk_dwn_mask(a) == At(global_reg(ClkRegs.mask), ClkBits)

xpcie_fpga_clk_dwn_get_mask(a) == At(global_reg(ClkRegs.mask), ClkBits)

xpcie_fpga_clk_dwn_force(a) == At(global_reg(ClkRegs.force), ClkBits)

xpcie_fpga_clk_dwn_get_force(a) == At(global_reg(ClkRegs.force), ClkBits)

xpcie_fpga_ecc_err_det(type) == At(global_reg(EccRegs(type).value), EccBits(type))

xpcie_fpga_ecc_err_clear(type) == At(global_reg(EccRegs(type).value), EccBits(type))

xpcie_fpga_ecc_err_raw_det(type) == At(global_reg(EccRegs(type).raw), EccBits(type))

xpcie_fpga_ecc_err_mask(type) == At(global_reg(EccRegs(type).mask), EccBits(type))

xpcie_fpga_ecc_err_get_mask(type) == At(global_reg(EccRegs(type).mask), EccBits(type))

xpcie_fpga_ecc_err_force(type) == At(global_reg(EccRegs(type).force), EccBits(type))

xpcie_fpga_ecc_err_get_force(type) == At(global_reg(EccRegs(type).force), EccBits(type))

ClkIoctl(cmd, a) ==
    CASE cmd = "GET_CLKDOWN" -> xpcie_fpga_clk_dwn_det(a)
      [] cmd = "SET_CLKDOWN_CLR" -> xpcie_fpga_clk_dwn_clear(a)
      [] cmd = "GET_CLKDOWN_RAW" -> xpcie_fpga_clk_dwn_raw_det(a)
      [] cmd = "SET_CLKDOWN_MASK" -> xpcie_fpga_clk_dwn_mask(a)
      [] cmd = "GET_CLKDOWN_MASK" -> xpcie_fpga_clk_dwn_get_mask(a)
      [] cmd = "SET_CLKDOWN_FORCE" -> xpcie_fpga_clk_dwn_force(a)
      [] cmd = "GET_CLKDOWN_FORCE" -> xpcie_fpga_clk_dwn_get_force(a)

EccIoctl(cmd, type) ==
    CASE cmd = "GET_ECCERR" -> xpcie_fpga_ecc_err_det(type)
      [] cmd = "SET_ECCERR_CLR" -> xpcie_fpga_ecc_err_clear(type)
      [] cmd = "GET_ECCERR_RAW" -> xpcie_fpga_ecc_err_raw_det(type)
      [] cmd = "SET_ECCERR_MASK" -> xpcie_fpga_ecc_err_mask(type)
      [] cmd = "GET_ECCERR_MASK" -> xpcie_fpga_ecc_err_get_mask(type)
      [] cmd = "SET_ECCERR_FORCE" -> xpcie_fpga_ecc_err_force(type)
      [] cmd = "GET_ECCERR_FORCE" -> xpcie_fpga_ecc_err_get_force(type)

GlobalChkIoctl(cmd, a) == xpcie_fpga_chk_err(a)

\* The card is one: these calls have no lane.
ClkCall(cmd, a) == Call(TRUE, FieldsOf(ClkBits), ClkIoctl(cmd, a))

EccCall(cmd) == EccIoctl(cmd, "SINGLE") @@ EccIoctl(cmd, "MULTI")

fpga_dev_get_check_err(a) == Call(TRUE, FieldsOf(WordBits), GlobalChkIoctl("GET_CHK_ERR", a))

fpga_dev_get_clk_dwn(a) == ClkCall("GET_CLKDOWN", a)

fpga_dev_set_clk_dwn_clear(a) == ClkCall("SET_CLKDOWN_CLR", a)

fpga_dev_get_clk_dwn_raw(a) == ClkCall("GET_CLKDOWN_RAW", a)

fpga_dev_set_clk_dwn_mask(a) == ClkCall("SET_CLKDOWN_MASK", a)

fpga_dev_get_clk_dwn_mask(a) == ClkCall("GET_CLKDOWN_MASK", a)

fpga_dev_set_clk_dwn_force(a) == ClkCall("SET_CLKDOWN_FORCE", a)

fpga_dev_get_clk_dwn_force(a) == ClkCall("GET_CLKDOWN_FORCE", a)

fpga_dev_get_ecc_err(a) == EccCall("GET_ECCERR")

fpga_dev_set_ecc_err_clear(a) == EccCall("SET_ECCERR_CLR")

fpga_dev_get_ecc_err_raw(a) == EccCall("GET_ECCERR_RAW")

fpga_dev_set_ecc_err_mask(a) == EccCall("SET_ECCERR_MASK")

fpga_dev_get_ecc_err_mask(a) == EccCall("GET_ECCERR_MASK")

fpga_dev_set_ecc_err_force(a) == EccCall("SET_ECCERR_FORCE")

fpga_dev_get_ecc_err_force(a) == EccCall("GET_ECCERR_FORCE")

GlobalGet(kind, view, a) ==
    CASE kind = "global_check" /\ view = "value" -> fpga_dev_get_check_err(a)
      [] kind = "clk" /\ view = "value" -> fpga_dev_get_clk_dwn(a)
      [] kind = "clk" /\ view = "mask" -> fpga_dev_get_clk_dwn_mask(a)
      [] kind = "clk" /\ view = "force" -> fpga_dev_get_clk_dwn_force(a)
      [] kind = "clk" /\ view = "raw" -> fpga_dev_get_clk_dwn_raw(a)
      [] kind = "ecc" /\ view = "value" -> fpga_dev_get_ecc_err(a)
      [] kind = "ecc" /\ view = "mask" -> fpga_dev_get_ecc_err_mask(a)
      [] kind = "ecc" /\ view = "force" -> fpga_dev_get_ecc_err_force(a)
      [] kind = "ecc" /\ view = "raw" -> fpga_dev_get_ecc_err_raw(a)

GlobalSet(kind, view, a) ==
    CASE kind = "clk" /\ view = "mask" -> fpga_dev_set_clk_dwn_mask(a)
      [] kind = "clk" /\ view = "force" -> fpga_dev_set_clk_dwn_force(a)
      [] kind = "ecc" /\ view = "mask" -> fpga_dev_set_ecc_err_mask(a)
      [] kind = "ecc" /\ view = "force" -> fpga_dev_set_ecc_err_force(a)

GlobalClear(kind, a) ==
    CASE kind = "clk" -> fpga_dev_set_clk_dwn_clear(a)
      [] kind = "ecc" -> fpga_dev_set_ecc_err_clear(a)

=============================================================================
