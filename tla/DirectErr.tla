----------------------------- MODULE DirectErr ------------------------------
(***************************************************************************)
(* Error registers of the direct transfer module: the driver functions of  *)
(* driver/direct/libxpcie_direct.c, their ioctl cases, and the calls of    *)
(* libdirecttrans_err.c.                                                   *)
(***************************************************************************)
EXTENDS RegAccess

DIRECT_OFFSET == \h5000
DIRECT_SIZE   == \h1000

DIR_EGR_SND == 3

direct_reg(offset, a) == <<DIRECT_OFFSET + DIRECT_SIZE * a.lane + offset, NoSel>>

\* One register set for each of ingress receive, ingress send, egress receive
\* and egress send.
DirectProtRegs(a) == <<FaultRegs(\h110, \h180), FaultRegs(\h120, \h184),
                       FaultRegs(\h130, \h188), FaultRegs(\h140, \h18C)>>[a.dir + 1]

DirectStifRegs == FaultRegs(\h150, NoSel)

DirectStifBits ==
    Flags(<<"ingress_rcv_req", "ingress_rcv_resp", "ingress_rcv_data",
            "ingress_snd_req", "ingress_snd_resp", "ingress_snd_data",
            "egress_rcv_req", "egress_rcv_resp", "egress_rcv_data",
            "egress_snd_req", "egress_snd_resp", "egress_snd_data">>, 0)

xpcie_fpga_check_direct_err(a) == At(direct_reg(\h100, a), WordBits)

xpcie_fpga_detect_direct_err_prot(a) ==
    At(direct_reg(DirectProtRegs(a).value, a), ProtBits)

xpcie_fpga_clear_direct_err_prot(a) ==
    At(direct_reg(DirectProtRegs(a).value, a), ProtBits)

xpcie_fpga_mask_direct_err_prot(a) ==
    At(direct_reg(DirectProtRegs(a).mask, a), ProtBits)

xpcie_fpga_get_mask_direct_err_prot(a) ==
    At(direct_reg(DirectProtRegs(a).mask, a), ProtBits)

xpcie_fpga_force_direct_err_prot(a) ==
    At(direct_reg(DirectProtRegs(a).force, a), ProtBits)

xpcie_fpga_get_force_direct_err_prot(a) ==
    At(direct_reg(DirectProtRegs(a).force, a), ProtBits)

xpcie_fpga_ins_direct_err_prot(a) ==
    At(direct_reg(DirectProtRegs(a).ins, a), ProtBits)

xpcie_fpga_get_ins_direct_err_prot(a) ==
    At(direct_reg(DirectProtRegs(a).ins, a), ProtBits)

xpcie_fpga_detect_direct_err_stif(a) ==
    At(direct_reg(DirectStifRegs.value, a), DirectStifBits)

xpcie_fpga_mask_direct_err_stif(a) ==
    At(direct_reg(DirectStifRegs.mask, a), DirectStifBits)

xpcie_fpga_get_mask_direct_err_stif(a) ==
    At(direct_reg(DirectStifRegs.mask, a), DirectStifBits)

xpcie_fpga_force_direct_err_stif(a) ==
    At(direct_reg(DirectStifRegs.force, a), DirectStifBits)

xpcie_fpga_get_force_direct_err_stif(a) ==
    At(direct_reg(DirectStifRegs.force, a), DirectStifBits)

DirectProtIoctl(cmd, a) ==
    CASE cmd = "GET_ERR_PROT" -> xpcie_fpga_detect_direct_err_prot(a)
      [] cmd = "SET_ERR_PROT_CLR" -> xpcie_fpga_clear_direct_err_prot(a)
      [] cmd = "SET_ERR_PROT_MASK" -> xpcie_fpga_mask_direct_err_prot(a)
      [] cmd = "GET_ERR_PROT_MASK" -> xpcie_fpga_get_mask_direct_err_prot(a)
      [] cmd = "SET_ERR_PROT_FORCE" -> xpcie_fpga_force_direct_err_prot(a)
      [] cmd = "GET_ERR_PROT_FORCE" -> xpcie_fpga_get_force_direct_err_prot(a)
      [] cmd = "ERR_PROT_INS" -> xpcie_fpga_ins_direct_err_prot(a)
      [] cmd = "ERR_PROT_GET_INS" -> xpcie_fpga_get_ins_direct_err_prot(a)

DirectStifIoctl(cmd, a) ==
    CASE cmd = "GET_ERR_STIF" -> xpcie_fpga_detect_direct_err_stif(a)
      [] cmd = "SET_ERR_STIF_MASK" -> xpcie_fpga_mask_direct_err_stif(a)
      [] cmd = "GET_ERR_STIF_MASK" -> xpcie_fpga_get_mask_direct_err_stif(a)
      [] cmd = "SET_ERR_STIF_FORCE" -> xpcie_fpga_force_direct_err_stif(a)
      [] cmd = "GET_ERR_STIF_FORCE" -> xpcie_fpga_get_force_direct_err_stif(a)

DirectChkIoctl(cmd, a) == xpcie_fpga_check_direct_err(a)

DirectLaneOK(a) == a.lane < KERNEL_NUM
DirectDirOK(a)  == a.dir <= DIR_EGR_SND

fpga_direct_get_check_err(a) ==
    Call(DirectLaneOK(a), FieldsOf(WordBits), DirectChkIoctl("GET_ERR_ALL", a))

fpga_direct_get_err_prot(a) ==
    Call(DirectLaneOK(a) /\ DirectDirOK(a), FieldsOf(ProtBits), DirectProtIoctl("GET_ERR_PROT", a))

fpga_direct_set_err_prot_clear(a) ==
    Call(DirectLaneOK(a) /\ DirectDirOK(a), FieldsOf(ProtBits), DirectProtIoctl("SET_ERR_PROT_CLR", a))

fpga_direct_set_err_prot_mask(a) ==
    Call(DirectLaneOK(a) /\ DirectDirOK(a), FieldsOf(ProtBits), DirectProtIoctl("SET_ERR_PROT_MASK", a))

fpga_direct_get_err_prot_mask(a) ==
    Call(DirectLaneOK(a) /\ DirectDirOK(a), FieldsOf(ProtBits), DirectProtIoctl("GET_ERR_PROT_MASK", a))

fpga_direct_set_err_prot_force(a) ==
    Call(DirectLaneOK(a) /\ DirectDirOK(a), FieldsOf(ProtBits), DirectProtIoctl("SET_ERR_PROT_FORCE", a))

fpga_direct_get_err_prot_force(a) ==
    Call(DirectLaneOK(a) /\ DirectDirOK(a), FieldsOf(ProtBits), DirectProtIoctl("GET_ERR_PROT_FORCE", a))

fpga_direct_err_prot_ins(a) ==
    Call(DirectLaneOK(a) /\ DirectDirOK(a), FieldsOf(ProtBits), DirectProtIoctl("ERR_PROT_INS", a))

fpga_direct_err_prot_get_ins(a) ==
    Call(DirectLaneOK(a) /\ DirectDirOK(a), FieldsOf(ProtBits), DirectProtIoctl("ERR_PROT_GET_INS", a))

fpga_direct_get_err_stif(a) ==
    Call(DirectLaneOK(a), FieldsOf(DirectStifBits), DirectStifIoctl("GET_ERR_STIF", a))

fpga_direct_set_err_stif_mask(a) ==
    Call(DirectLaneOK(a), FieldsOf(DirectStifBits), DirectStifIoctl("SET_ERR_STIF_MASK", a))

fpga_direct_get_err_stif_mask(a) ==
    Call(DirectLaneOK(a), FieldsOf(DirectStifBits), DirectStifIoctl("GET_ERR_STIF_MASK", a))

fpga_direct_set_err_stif_force(a) ==
    Call(DirectLaneOK(a), FieldsOf(DirectStifBits), DirectStifIoctl("SET_ERR_STIF_FORCE", a))

fpga_direct_get_err_stif_force(a) ==
    Call(DirectLaneOK(a), FieldsOf(DirectStifBits), DirectStifIoctl("GET_ERR_STIF_FORCE", a))

DirectGet(kind, view, a) ==
    CASE kind = "direct_check" /\ view = "value" -> fpga_direct_get_check_err(a)
      [] kind = "direct_prot" /\ view = "value" -> fpga_direct_get_err_prot(a)
      [] kind = "direct_prot" /\ view = "mask" -> fpga_direct_get_err_prot_mask(a)
      [] kind = "direct_prot" /\ view = "force" -> fpga_direct_get_err_prot_force(a)
      [] kind = "direct_prot" /\ view = "ins" -> fpga_direct_err_prot_get_ins(a)
      [] kind = "direct_stif" /\ view = "value" -> fpga_direct_get_err_stif(a)
      [] kind = "direct_stif" /\ view = "mask" -> fpga_direct_get_err_stif_mask(a)
      [] kind = "direct_stif" /\ view = "force" -> fpga_direct_get_err_stif_force(a)

DirectSet(kind, view, a) ==
    CASE kind = "direct_prot" /\ view = "mask" -> fpga_direct_set_err_prot_mask(a)
      [] kind = "direct_prot" /\ view = "force" -> fpga_direct_set_err_prot_force(a)
      [] kind = "direct_prot" /\ view = "ins" -> fpga_direct_err_prot_ins(a)
      [] kind = "direct_stif" /\ view = "mask" -> fpga_direct_set_err_stif_mask(a)
      [] kind = "direct_stif" /\ view = "force" -> fpga_direct_set_err_stif_force(a)

DirectClear(kind, a) ==
    CASE kind = "direct_prot" -> fpga_direct_set_err_prot_clear(a)

=============================================================================
