-------------------------- MODULE FilterResizeErr ---------------------------
(***************************************************************************)
(* Error registers of the filter/resize function:                          *)
(* libfunction_filter_resize_err.c over libfunction_regmap.h.              *)
(***************************************************************************)
EXTENDS RegAccess

FRFUNC_OFFSET    == \h25000
FRFUNC_KRNL_SIZE == \h1000

frfunc_reg(offset, a) == <<FRFUNC_OFFSET + FRFUNC_KRNL_SIZE * a.lane + offset, NoSel>>

FrProtRegs(a) ==
    IF a.dir = INGRESS
    THEN IF a.id = 0 THEN FaultRegs(\h110, \h180) ELSE FaultRegs(\h120, \h184)
    ELSE IF a.id = 0 THEN FaultRegs(\h130, \h188) ELSE FaultRegs(\h140, \h18C)

FrStifRegs == FaultRegs(\h150, NoSel)

FrStifBits ==
    Flags(<<"ingress0_rcv_req", "ingress0_rcv_resp", "ingress0_rcv_data",
            "ingress1_rcv_req", "ingress1_rcv_resp", "ingress1_rcv_data",
            "egress0_snd_req", "egress0_snd_resp", "egress0_snd_data",
            "egress1_snd_req", "egress1_snd_resp", "egress1_snd_data">>, 0)

FrLaneOK(a) == a.lane < KERNEL_NUM
FrArgsOK(a) == a.dir \in {INGRESS, EGRESS} /\ a.id \in {0, 1}

FrAt(ok, offset, a, layout) ==
    IF FrLaneOK(a) /\ ok THEN At(frfunc_reg(offset, a), layout) ELSE Refused

fpga_filter_resize_get_check_err(a) == FrAt(TRUE, \h100, a, WordBits)

fpga_filter_resize_get_err_prot(a) == FrAt(FrArgsOK(a), FrProtRegs(a).value, a, ProtBits)

fpga_filter_resize_set_err_prot_clear(a) == FrAt(FrArgsOK(a), FrProtRegs(a).value, a, ProtBits)

fpga_filter_resize_set_err_prot_mask(a) == FrAt(FrArgsOK(a), FrProtRegs(a).mask, a, ProtBits)

fpga_filter_resize_get_err_prot_mask(a) == FrAt(FrArgsOK(a), FrProtRegs(a).mask, a, ProtBits)

fpga_filter_resize_set_err_prot_force(a) == FrAt(FrArgsOK(a), FrProtRegs(a).force, a, ProtBits)

fpga_filter_resize_get_err_prot_force(a) == FrAt(FrArgsOK(a), FrProtRegs(a).force, a, ProtBits)

fpga_filter_resize_err_prot_ins(a) == FrAt(FrArgsOK(a), FrProtRegs(a).ins, a, ProtBits)

fpga_filter_resize_err_prot_get_ins(a) == FrAt(FrArgsOK(a), FrProtRegs(a).ins, a, ProtBits)

fpga_filter_resize_get_err_stif(a) == FrAt(TRUE, FrStifRegs.value, a, FrStifBits)

fpga_filter_resize_set_err_stif_mask(a) == FrAt(TRUE, FrStifRegs.mask, a, FrStifBits)

fpga_filter_resize_get_err_stif_mask(a) == FrAt(TRUE, FrStifRegs.mask, a, FrStifBits)

fpga_filter_resize_set_err_stif_force(a) == FrAt(TRUE, FrStifRegs.force, a, FrStifBits)

fpga_filter_resize_get_err_stif_force(a) == FrAt(TRUE, FrStifRegs.force, a, FrStifBits)

FrGet(kind, view, a) ==
    CASE kind = "fr_check" /\ view = "value" -> fpga_filter_resize_get_check_err(a)
      [] kind = "fr_prot" /\ view = "value" -> fpga_filter_resize_get_err_prot(a)
      [] kind = "fr_prot" /\ view = "mask" -> fpga_filter_resize_get_err_prot_mask(a)
      [] kind = "fr_prot" /\ view = "force" -> fpga_filter_resize_get_err_prot_force(a)
      [] kind = "fr_prot" /\ view = "ins" -> fpga_filter_resize_err_prot_get_ins(a)
      [] kind = "fr_stif" /\ view = "value" -> fpga_filter_resize_get_err_stif(a)
      [] kind = "fr_stif" /\ view = "mask" -> fpga_filter_resize_get_err_stif_mask(a)
      [] kind = "fr_stif" /\ view = "force" -> fpga_filter_resize_get_err_stif_force(a)

FrSet(kind, view, a) ==
    CASE kind = "fr_prot" /\ view = "mask" -> fpga_filter_resize_set_err_prot_mask(a)
      [] kind = "fr_prot" /\ view = "force" -> fpga_filter_resize_set_err_prot_force(a)
      [] kind = "fr_prot" /\ view = "ins" -> fpga_filter_resize_err_prot_ins(a)
      [] kind = "fr_stif" /\ view = "mask" -> fpga_filter_resize_set_err_stif_mask(a)
      [] kind = "fr_stif" /\ view = "force" -> fpga_filter_resize_set_err_stif_force(a)

FrClear(kind, a) ==
    CASE kind = "fr_prot" -> fpga_filter_resize_set_err_prot_clear(a)

=============================================================================
