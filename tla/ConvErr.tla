------------------------------ MODULE ConvErr -------------------------------
(***************************************************************************)
(* Error registers of the conversion adapter: libfunction_conv_err.c,      *)
(* which packs the registers itself and reaches them with pread and        *)
(* pwrite, at the addresses of libfunction_regmap.h.                       *)
(***************************************************************************)
EXTENDS RegAccess

CONV_OFFSET    == \h24000
CONV_KRNL_SIZE == \h400

conv_reg(offset, a) == <<CONV_OFFSET + CONV_KRNL_SIZE * a.lane + offset, NoSel>>

\* The stream side of the adapter: ingress receive and egress send.
ConvProtRegs(a) == IF a.dir = INGRESS THEN FaultRegs(\h110, \h1C0)
                                      ELSE FaultRegs(\h160, \h1D4)

\* Its function side: ingress send and egress receive, for each function.
ConvFuncRegs(a) ==
    IF a.dir = INGRESS
    THEN IF a.id = 0 THEN FaultRegs(\h120, \h1C4) ELSE FaultRegs(\h130, \h1C8)
    ELSE IF a.id = 0 THEN FaultRegs(\h140, \h1CC) ELSE FaultRegs(\h150, \h1D0)

ConvMemRegs  == FaultRegs(\h170, \h1D8)
ConvLenRegs  == FaultRegs(\h180, NoSel)
ConvStifRegs == FaultRegs(\h190, NoSel)

ConvStifBits ==
    Flags(<<"ingress_rcv_req", "ingress_rcv_resp", "ingress_rcv_data",
            "ingress0_snd_req", "ingress0_snd_resp", "ingress0_snd_data",
            "ingress1_snd_req", "ingress1_snd_resp", "ingress1_snd_data",
            "egress0_rcv_req", "egress0_rcv_resp", "egress0_rcv_data",
            "egress1_rcv_req", "egress1_rcv_resp", "egress1_rcv_data",
            "egress_snd_req", "egress_snd_resp", "egress_snd_data">>, 0)

\* Mutant: the lane check off by one reaches the registers of the next module.
MutConvLaneOK(a) == a.lane <= KERNEL_NUM

ConvLaneOK(a) == a.lane < KERNEL_NUM
ConvDirOK(a)  == a.dir \in {INGRESS, EGRESS}
FrIdOK(a)     == a.id \in {0, 1}

ConvAt(ok, offset, a, layout) ==
    IF ConvLaneOK(a) /\ ok THEN At(conv_reg(offset, a), layout) ELSE Refused

fpga_conv_get_check_err(a) == ConvAt(TRUE, \h100, a, WordBits)

fpga_conv_get_err_prot(a) == ConvAt(ConvDirOK(a), ConvProtRegs(a).value, a, ProtBits)

fpga_conv_set_err_prot_clear(a) == ConvAt(ConvDirOK(a), ConvProtRegs(a).value, a, ProtBits)

fpga_conv_set_err_prot_mask(a) == ConvAt(ConvDirOK(a), ConvProtRegs(a).mask, a, ProtBits)

fpga_conv_get_err_prot_mask(a) == ConvAt(ConvDirOK(a), ConvProtRegs(a).mask, a, ProtBits)

fpga_conv_set_err_prot_force(a) == ConvAt(ConvDirOK(a), ConvProtRegs(a).force, a, ProtBits)

fpga_conv_get_err_prot_force(a) == ConvAt(ConvDirOK(a), ConvProtRegs(a).force, a, ProtBits)

fpga_conv_err_prot_ins(a) == ConvAt(ConvDirOK(a), ConvProtRegs(a).ins, a, ProtBits)

fpga_conv_err_prot_get_ins(a) == ConvAt(ConvDirOK(a), ConvProtRegs(a).ins, a, ProtBits)

fpga_conv_get_err_prot_func(a) == ConvAt(ConvDirOK(a) /\ FrIdOK(a), ConvFuncRegs(a).value, a, ProtBits)

fpga_conv_set_err_prot_func_clear(a) == ConvAt(ConvDirOK(a) /\ FrIdOK(a), ConvFuncRegs(a).value, a, ProtBits)

fpga_conv_set_err_prot_func_mask(a) == ConvAt(ConvDirOK(a) /\ FrIdOK(a), ConvFuncRegs(a).mask, a, ProtBits)

fpga_conv_get_err_prot_func_mask(a) == ConvAt(ConvDirOK(a) /\ FrIdOK(a), ConvFuncRegs(a).mask, a, ProtBits)

fpga_conv_set_err_prot_func_force(a) == ConvAt(ConvDirOK(a) /\ FrIdOK(a), ConvFuncRegs(a).force, a, ProtBits)

fpga_conv_get_err_prot_func_force(a) == ConvAt(ConvDirOK(a) /\ FrIdOK(a), ConvFuncRegs(a).force, a, ProtBits)

fpga_conv_err_prot_func_ins(a) == ConvAt(ConvDirOK(a) /\ FrIdOK(a), ConvFuncRegs(a).ins, a, ProtBits)

fpga_conv_err_prot_func_get_ins(a) == ConvAt(ConvDirOK(a) /\ FrIdOK(a), ConvFuncRegs(a).ins, a, ProtBits)

fpga_conv_get_err_stif(a) == ConvAt(TRUE, ConvStifRegs.value, a, ConvStifBits)

fpga_conv_set_err_stif_mask(a) == ConvAt(TRUE, ConvStifRegs.mask, a, ConvStifBits)

fpga_conv_get_err_stif_mask(a) == ConvAt(TRUE, ConvStifRegs.mask, a, ConvStifBits)

fpga_conv_set_err_stif_force(a) == ConvAt(TRUE, ConvStifRegs.force, a, ConvStifBits)

fpga_conv_get_err_stif_force(a) == ConvAt(TRUE, ConvStifRegs.force, a, ConvStifBits)

fpga_conv_get_err_mem_parity(a) == ConvAt(TRUE, ConvMemRegs.value, a, WordBits)

fpga_conv_set_err_mem_parity_clear(a) == ConvAt(TRUE, ConvMemRegs.value, a, WordBits)

fpga_conv_set_err_mem_parity_mask(a) == ConvAt(TRUE, ConvMemRegs.mask, a, WordBits)

fpga_conv_get_err_mem_parity_mask(a) == ConvAt(TRUE, ConvMemRegs.mask, a, WordBits)

fpga_conv_set_err_mem_parity_force(a) == ConvAt(TRUE, ConvMemRegs.force, a, WordBits)

fpga_conv_get_err_mem_parity_force(a) == ConvAt(TRUE, ConvMemRegs.force, a, WordBits)

fpga_conv_err_mem_parity_ins(a) == ConvAt(TRUE, ConvMemRegs.ins, a, WordBits)

fpga_conv_err_mem_parity_get_ins(a) == ConvAt(TRUE, ConvMemRegs.ins, a, WordBits)

fpga_conv_get_err_length_fault(a) == ConvAt(TRUE, ConvLenRegs.value, a, WordBits)

fpga_conv_set_err_length_fault_clear(a) == ConvAt(TRUE, ConvLenRegs.value, a, WordBits)

fpga_conv_set_err_length_fault_mask(a) == ConvAt(TRUE, ConvLenRegs.mask, a, WordBits)

fpga_conv_get_err_length_fault_mask(a) == ConvAt(TRUE, ConvLenRegs.mask, a, WordBits)

fpga_conv_set_err_length_fault_force(a) == ConvAt(TRUE, ConvLenRegs.force, a, WordBits)

fpga_conv_get_err_length_fault_force(a) == ConvAt(TRUE, ConvLenRegs.force, a, WordBits)

ConvGet(kind, view, a) ==
    CASE kind = "conv_check" /\ view = "value" -> fpga_conv_get_check_err(a)
      [] kind = "conv_prot" /\ view = "value" -> fpga_conv_get_err_prot(a)
      [] kind = "conv_prot" /\ view = "mask" -> fpga_conv_get_err_prot_mask(a)
      [] kind = "conv_prot" /\ view = "force" -> fpga_conv_get_err_prot_force(a)
      [] kind = "conv_prot" /\ view = "ins" -> fpga_conv_err_prot_get_ins(a)
      [] kind = "conv_func" /\ view = "value" -> fpga_conv_get_err_prot_func(a)
      [] kind = "conv_func" /\ view = "mask" -> fpga_conv_get_err_prot_func_mask(a)
      [] kind = "conv_func" /\ view = "force" -> fpga_conv_get_err_prot_func_force(a)
      [] kind = "conv_func" /\ view = "ins" -> fpga_conv_err_prot_func_get_ins(a)
      [] kind = "conv_stif" /\ view = "value" -> fpga_conv_get_err_stif(a)
      [] kind = "conv_stif" /\ view = "mask" -> fpga_conv_get_err_stif_mask(a)
      [] kind = "conv_stif" /\ view = "force" -> fpga_conv_get_err_stif_force(a)
      [] kind = "conv_mem" /\ view = "value" -> fpga_conv_get_err_mem_parity(a)
      [] kind = "conv_mem" /\ view = "mask" -> fpga_conv_get_err_mem_parity_mask(a)
      [] kind = "conv_mem" /\ view = "force" -> fpga_conv_get_err_mem_parity_force(a)
      [] kind = "conv_mem" /\ view = "ins" -> fpga_conv_err_mem_parity_get_ins(a)
      [] kind = "conv_len" /\ view = "value" -> fpga_conv_get_err_length_fault(a)
      [] kind = "conv_len" /\ view = "mask" -> fpga_conv_get_err_length_fault_mask(a)
      [] kind = "conv_len" /\ view = "force" -> fpga_conv_get_err_length_fault_force(a)

ConvSet(kind, view, a) ==
    CASE kind = "conv_prot" /\ view = "mask" -> fpga_conv_set_err_prot_mask(a)
      [] kind = "conv_prot" /\ view = "force" -> fpga_conv_set_err_prot_force(a)
      [] kind = "conv_prot" /\ view = "ins" -> fpga_conv_err_prot_ins(a)
      [] kind = "conv_func" /\ view = "mask" -> fpga_conv_set_err_prot_func_mask(a)
      [] kind = "conv_func" /\ view = "force" -> fpga_conv_set_err_prot_func_force(a)
      [] kind = "conv_func" /\ view = "ins" -> fpga_conv_err_prot_func_ins(a)
      [] kind = "conv_stif" /\ view = "mask" -> fpga_conv_set_err_stif_mask(a)
      [] kind = "conv_stif" /\ view = "force" -> fpga_conv_set_err_stif_force(a)
      [] kind = "conv_mem" /\ view = "mask" -> fpga_conv_set_err_mem_parity_mask(a)
      [] kind = "conv_mem" /\ view = "force" -> fpga_conv_set_err_mem_parity_force(a)
      [] kind = "conv_mem" /\ view = "ins" -> fpga_conv_err_mem_parity_ins(a)
      [] kind = "conv_len" /\ view = "mask" -> fpga_conv_set_err_length_fault_mask(a)
      [] kind = "conv_len" /\ view = "force" -> fpga_conv_set_err_length_fault_force(a)

ConvClear(kind, a) ==
    CASE kind = "conv_prot" -> fpga_conv_set_err_prot_clear(a)
      [] kind = "conv_func" -> fpga_conv_set_err_prot_func_clear(a)
      [] kind = "conv_mem" -> fpga_conv_set_err_mem_parity_clear(a)
      [] kind = "conv_len" -> fpga_conv_set_err_length_fault_clear(a)

=============================================================================
