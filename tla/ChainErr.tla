------------------------------ MODULE ChainErr ------------------------------
(***************************************************************************)
(* Error registers of the function chain: the driver functions of          *)
(* driver/chain/libxpcie_chain.c, the ioctl cases that dispatch to them,   *)
(* and the calls of libchain_err.c.  Every definition has the name of the  *)
(* C function it models and gives the cells the function reads or writes.  *)
(***************************************************************************)
EXTENDS RegAccess

CHAIN_OFFSET == \h1000
CHAIN_SIZE   == \h1000

chain_reg(offset, a, sel) == <<CHAIN_OFFSET + CHAIN_SIZE * a.lane + offset, sel>>

(***************************************************************************)
(* Registers and layouts.                                                  *)
(***************************************************************************)
ChainErrRegs(a) ==
    IF a.dir = INGRESS
    THEN IF a.id = 0 THEN FaultRegs(\h510, \h600) ELSE FaultRegs(\h520, \h604)
    ELSE IF a.id = 0 THEN FaultRegs(\h560, \h608) ELSE FaultRegs(\h570, \h60C)

\* The egress table has one register for both external interfaces.
ChainTableRegs(a) ==
    IF a.dir = INGRESS
    THEN IF a.id = 0 THEN FaultRegs(\h530, NoSel) ELSE FaultRegs(\h540, NoSel)
    ELSE FaultRegs(\h550, NoSel)

ChainProtRegs(a) ==
    IF a.dir = INGRESS THEN FaultRegs(\h580, \h610) ELSE FaultRegs(\h590, \h614)

ChainEvtRegs(a) == IF a.id = 0 THEN FaultRegs(\h5A0, NoSel) ELSE FaultRegs(\h5B0, NoSel)

ChainStifRegs == FaultRegs(\h5C0, NoSel)

ChainCmdfaultIns(a) == IF a.id = 0 THEN \h618 ELSE \h61C

ChainErrBits ==
    Flags(<<"header_marker", "payload_len", "header_len", "header_chksum">>, 0)
    @@ Field("header_stat", 4, 8)
    @@ Flags(<<"pointer_table_miss", "payload_table_miss">>, 12)
    @@ Flags(<<"pointer_table_invalid", "payload_table_invalid">>, 16)

ChainTableBits == Flags(<<"con_table_miss">>, 0) @@ Flags(<<"con_table_invalid">>, 16)

\* Injection has other fields, at other bits, for each direction.
ChainInsBits(dir) ==
    IF dir = INGRESS
    THEN Flags(<<"pointer_table_invalid", "payload_table_invalid", "con_table_invalid">>, 0)
    ELSE Flags(<<"header_marker", "payload_len", "header_len", "header_chksum">>, 0)
         @@ Field("header_stat", 4, 8)
         @@ Flags(<<"pointer_table_invalid", "payload_table_invalid", "con_table_invalid">>, 16)

ChainEvtBits ==
    Flags(<<"established", "close_wait", "erased", "syn_timeout", "syn_ack_timeout",
            "timeout", "recv_data", "send_data", "recv_urgent_data", "recv_rst">>, 0)

\* The two bits of extif_event and of extif_command are interleaved.
ChainStifBits ==
    Flags(<<"ingress_req", "ingress_resp", "ingress_data",
            "egress_req", "egress_resp", "egress_data">>, 0)
    @@ (<<"extif_event", 0>> :> 6) @@ (<<"extif_command", 0>> :> 7)
    @@ (<<"extif_event", 1>> :> 8) @@ (<<"extif_command", 1>> :> 9)

ChainCmdfaultBits == Flags(<<"enable">>, 0) @@ Field("cid", 16, 16)

(***************************************************************************)
(* Driver functions.  Detecting a chain or a table error first selects the *)
(* session (for the egress table the channel) whose register is read.      *)
(***************************************************************************)
xpcie_fpga_check_chain_err(a) == At(chain_reg(\h500, a, NoSel), WordBits)

xpcie_fpga_detect_chain_err(a) ==
    At(chain_reg(ChainErrRegs(a).value, a, a.cid), ChainErrBits)

xpcie_fpga_mask_chain_err(a) ==
    At(chain_reg(ChainErrRegs(a).mask, a, NoSel), ChainErrBits)

xpcie_fpga_get_mask_chain_err(a) ==
    At(chain_reg(ChainErrRegs(a).mask, a, NoSel), ChainErrBits)

xpcie_fpga_force_chain_err(a) ==
    At(chain_reg(ChainErrRegs(a).force, a, NoSel), ChainErrBits)

xpcie_fpga_get_force_chain_err(a) ==
    At(chain_reg(ChainErrRegs(a).force, a, NoSel), ChainErrBits)

xpcie_fpga_ins_chain_err(a) ==
    At(chain_reg(ChainErrRegs(a).ins, a, NoSel), ChainInsBits(a.dir))

xpcie_fpga_get_ins_chain_err(a) ==
    At(chain_reg(ChainErrRegs(a).ins, a, NoSel), ChainInsBits(a.dir))

xpcie_fpga_detect_chain_err_table(a) ==
    At(chain_reg(ChainTableRegs(a).value, a, a.cid), ChainTableBits)

xpcie_fpga_mask_chain_err_table(a) ==
    At(chain_reg(ChainTableRegs(a).mask, a, NoSel), ChainTableBits)

xpcie_fpga_get_mask_chain_err_table(a) ==
    At(chain_reg(ChainTableRegs(a).mask, a, NoSel), ChainTableBits)

xpcie_fpga_force_chain_err_table(a) ==
    At(chain_reg(ChainTableRegs(a).force, a, NoSel), ChainTableBits)

xpcie_fpga_get_force_chain_err_table(a) ==
    At(chain_reg(ChainTableRegs(a).force, a, NoSel), ChainTableBits)

xpcie_fpga_detect_chain_err_prot(a) ==
    At(chain_reg(ChainProtRegs(a).value, a, NoSel), ProtBits)

xpcie_fpga_clear_chain_err_prot(a) ==
    At(chain_reg(ChainProtRegs(a).value, a, NoSel), ProtBits)

xpcie_fpga_mask_chain_err_prot(a) ==
    At(chain_reg(ChainProtRegs(a).mask, a, NoSel), ProtBits)

xpcie_fpga_get_mask_chain_err_prot(a) ==
    At(chain_reg(ChainProtRegs(a).mask, a, NoSel), ProtBits)

xpcie_fpga_force_chain_err_prot(a) ==
    At(chain_reg(ChainProtRegs(a).force, a, NoSel), ProtBits)

xpcie_fpga_get_force_chain_err_prot(a) ==
    At(chain_reg(ChainProtRegs(a).force, a, NoSel), ProtBits)

xpcie_fpga_ins_chain_err_prot(a) ==
    At(chain_reg(ChainProtRegs(a).ins, a, NoSel), ProtBits)

xpcie_fpga_get_ins_chain_err_prot(a) ==
    At(chain_reg(ChainProtRegs(a).ins, a, NoSel), ProtBits)

\* Mutant: the flags of a clear shifted by one bit.
MutClearEvt(a) ==
    LET shifted == [p \in DOMAIN ChainEvtBits |-> ChainEvtBits[p] + 1]
    IN  At(chain_reg(ChainEvtRegs(a).value, a, NoSel), shifted)

xpcie_fpga_detect_chain_err_evt(a) ==
    At(chain_reg(ChainEvtRegs(a).value, a, NoSel), ChainEvtBits)

xpcie_fpga_clear_chain_err_evt(a) ==
    At(chain_reg(ChainEvtRegs(a).value, a, NoSel), ChainEvtBits)

xpcie_fpga_mask_chain_err_evt(a) ==
    At(chain_reg(ChainEvtRegs(a).mask, a, NoSel), ChainEvtBits)

xpcie_fpga_get_mask_chain_err_evt(a) ==
    At(chain_reg(ChainEvtRegs(a).mask, a, NoSel), ChainEvtBits)

xpcie_fpga_force_chain_err_evt(a) ==
    At(chain_reg(ChainEvtRegs(a).force, a, NoSel), ChainEvtBits)

xpcie_fpga_get_force_chain_err_evt(a) ==
    At(chain_reg(ChainEvtRegs(a).force, a, NoSel), ChainEvtBits)

xpcie_fpga_detect_chain_err_stif(a) ==
    At(chain_reg(ChainStifRegs.value, a, NoSel), ChainStifBits)

xpcie_fpga_mask_chain_err_stif(a) ==
    At(chain_reg(ChainStifRegs.mask, a, NoSel), ChainStifBits)

xpcie_fpga_get_mask_chain_err_stif(a) ==
    At(chain_reg(ChainStifRegs.mask, a, NoSel), ChainStifBits)

xpcie_fpga_force_chain_err_stif(a) ==
    At(chain_reg(ChainStifRegs.force, a, NoSel), ChainStifBits)

xpcie_fpga_get_force_chain_err_stif(a) ==
    At(chain_reg(ChainStifRegs.force, a, NoSel), ChainStifBits)

xpcie_fpga_ins_chain_err_cmdfault(a) ==
    At(chain_reg(ChainCmdfaultIns(a), a, NoSel), ChainCmdfaultBits)

xpcie_fpga_get_ins_chain_err_cmdfault(a) ==
    At(chain_reg(ChainCmdfaultIns(a), a, NoSel), ChainCmdfaultBits)

(***************************************************************************)
(* The ioctl cases.                                                        *)
(***************************************************************************)
ChainErrIoctl(cmd, a) ==
    CASE cmd = "GET_ERR" -> xpcie_fpga_detect_chain_err(a)
      [] cmd = "SET_ERR_MASK" -> xpcie_fpga_mask_chain_err(a)
      [] cmd = "GET_ERR_MASK" -> xpcie_fpga_get_mask_chain_err(a)
      [] cmd = "SET_ERR_FORCE" -> xpcie_fpga_force_chain_err(a)
      [] cmd = "GET_ERR_FORCE" -> xpcie_fpga_get_force_chain_err(a)
      [] cmd = "ERR_INS" -> xpcie_fpga_ins_chain_err(a)
      [] cmd = "ERR_GET_INS" -> xpcie_fpga_get_ins_chain_err(a)

ChainTableIoctl(cmd, a) ==
    CASE cmd = "GET_ERR_TBL" -> xpcie_fpga_detect_chain_err_table(a)
      [] cmd = "SET_ERR_TBL_MASK" -> xpcie_fpga_mask_chain_err_table(a)
      [] cmd = "GET_ERR_TBL_MASK" -> xpcie_fpga_get_mask_chain_err_table(a)
      [] cmd = "SET_ERR_TBL_FORCE" -> xpcie_fpga_force_chain_err_table(a)
      [] cmd = "GET_ERR_TBL_FORCE" -> xpcie_fpga_get_force_chain_err_table(a)

ChainProtIoctl(cmd, a) ==
    CASE cmd = "GET_ERR_PROT" -> xpcie_fpga_detect_chain_err_prot(a)
      [] cmd = "SET_ERR_PROT_CLR" -> xpcie_fpga_clear_chain_err_prot(a)
      [] cmd = "SET_ERR_PROT_MASK" -> xpcie_fpga_mask_chain_err_prot(a)
      [] cmd = "GET_ERR_PROT_MASK" -> xpcie_fpga_get_mask_chain_err_prot(a)
      [] cmd = "SET_ERR_PROT_FORCE" -> xpcie_fpga_force_chain_err_prot(a)
      [] cmd = "GET_ERR_PROT_FORCE" -> xpcie_fpga_get_force_chain_err_prot(a)
      [] cmd = "ERR_PROT_INS" -> xpcie_fpga_ins_chain_err_prot(a)
      [] cmd = "ERR_PROT_GET_INS" -> xpcie_fpga_get_ins_chain_err_prot(a)

ChainEvtIoctl(cmd, a) ==
    CASE cmd = "GET_ERR_EVT" -> xpcie_fpga_detect_chain_err_evt(a)
      [] cmd = "SET_ERR_EVT_CLR" -> xpcie_fpga_clear_chain_err_evt(a)
      [] cmd = "SET_ERR_EVT_MASK" -> xpcie_fpga_mask_chain_err_evt(a)
      [] cmd = "GET_ERR_EVT_MASK" -> xpcie_fpga_get_mask_chain_err_evt(a)
      [] cmd = "SET_ERR_EVT_FORCE" -> xpcie_fpga_force_chain_err_evt(a)
      [] cmd = "GET_ERR_EVT_FORCE" -> xpcie_fpga_get_force_chain_err_evt(a)

ChainStifIoctl(cmd, a) ==
    CASE cmd = "GET_ERR_STIF" -> xpcie_fpga_detect_chain_err_stif(a)
      [] cmd = "SET_ERR_STIF_MASK" -> xpcie_fpga_mask_chain_err_stif(a)
      [] cmd = "GET_ERR_STIF_MASK" -> xpcie_fpga_get_mask_chain_err_stif(a)
      [] cmd = "SET_ERR_STIF_FORCE" -> xpcie_fpga_force_chain_err_stif(a)
      [] cmd = "GET_ERR_STIF_FORCE" -> xpcie_fpga_get_force_chain_err_stif(a)

ChainCmdfaultIoctl(cmd, a) ==
    CASE cmd = "ERR_CMDFAULT_INS" -> xpcie_fpga_ins_chain_err_cmdfault(a)
      [] cmd = "ERR_CMDFAULT_GET_INS" -> xpcie_fpga_get_ins_chain_err_cmdfault(a)

ChainChkIoctl(cmd, a) == xpcie_fpga_check_chain_err(a)

(***************************************************************************)
(* The library: argument checks and the copied fields.                     *)
(***************************************************************************)
ChainLaneOK(a) == a.lane < KERNEL_NUM
ExtifOK(a)     == a.id <= 1
DirOK(a)       == a.dir <= EGRESS
CidOK(a)       == a.cid <= CID_MAX

\* The table calls check the external interface for ingress only.
TableArgsOK(a) == ChainLaneOK(a) /\ DirOK(a) /\ (a.dir = INGRESS => ExtifOK(a))

\* fpga_chain_get_err and its mask and force calls leave out the con_table
\* members of fpga_chain_err_t.
ErrFields  == FieldsOf(ChainErrBits)
InsFields(a) == FieldsOf(ChainInsBits(a.dir))

fpga_chain_get_check_err(a) ==
    Call(ChainLaneOK(a), FieldsOf(WordBits), ChainChkIoctl("GET_CHK_ERR", a))

fpga_chain_get_err(a) ==
    Call(ChainLaneOK(a) /\ ExtifOK(a) /\ DirOK(a) /\ CidOK(a), ErrFields, ChainErrIoctl("GET_ERR", a))

fpga_chain_set_err_mask(a) ==
    Call(ChainLaneOK(a) /\ ExtifOK(a) /\ DirOK(a), ErrFields, ChainErrIoctl("SET_ERR_MASK", a))

fpga_chain_get_err_mask(a) ==
    Call(ChainLaneOK(a) /\ ExtifOK(a) /\ DirOK(a), ErrFields, ChainErrIoctl("GET_ERR_MASK", a))

fpga_chain_set_err_force(a) ==
    Call(ChainLaneOK(a) /\ ExtifOK(a) /\ DirOK(a), ErrFields, ChainErrIoctl("SET_ERR_FORCE", a))

fpga_chain_get_err_force(a) ==
    Call(ChainLaneOK(a) /\ ExtifOK(a) /\ DirOK(a), ErrFields, ChainErrIoctl("GET_ERR_FORCE", a))

fpga_chain_err_ins(a) ==
    Call(ChainLaneOK(a) /\ ExtifOK(a) /\ DirOK(a), InsFields(a), ChainErrIoctl("ERR_INS", a))

fpga_chain_err_get_ins(a) ==
    Call(ChainLaneOK(a) /\ ExtifOK(a) /\ DirOK(a), InsFields(a), ChainErrIoctl("ERR_GET_INS", a))

fpga_chain_get_err_table(a) ==
    Call(TableArgsOK(a) /\ CidOK(a), FieldsOf(ChainTableBits), ChainTableIoctl("GET_ERR_TBL", a))

fpga_chain_set_err_table_mask(a) ==
    Call(TableArgsOK(a), FieldsOf(ChainTableBits), ChainTableIoctl("SET_ERR_TBL_MASK", a))

fpga_chain_get_err_table_mask(a) ==
    Call(TableArgsOK(a), FieldsOf(ChainTableBits), ChainTableIoctl("GET_ERR_TBL_MASK", a))

fpga_chain_set_err_table_force(a) ==
    Call(TableArgsOK(a), FieldsOf(ChainTableBits), ChainTableIoctl("SET_ERR_TBL_FORCE", a))

fpga_chain_get_err_table_force(a) ==
    Call(TableArgsOK(a), FieldsOf(ChainTableBits), ChainTableIoctl("GET_ERR_TBL_FORCE", a))

fpga_chain_get_err_prot(a) ==
    Call(ChainLaneOK(a) /\ DirOK(a), FieldsOf(ProtBits), ChainProtIoctl("GET_ERR_PROT", a))

fpga_chain_set_err_prot_clear(a) ==
    Call(ChainLaneOK(a) /\ DirOK(a), FieldsOf(ProtBits), ChainProtIoctl("SET_ERR_PROT_CLR", a))

fpga_chain_set_err_prot_mask(a) ==
    Call(ChainLaneOK(a) /\ DirOK(a), FieldsOf(ProtBits), ChainProtIoctl("SET_ERR_PROT_MASK", a))

fpga_chain_get_err_prot_mask(a) ==
    Call(ChainLaneOK(a) /\ DirOK(a), FieldsOf(ProtBits), ChainProtIoctl("GET_ERR_PROT_MASK", a))

fpga_chain_set_err_prot_force(a) ==
    Call(ChainLaneOK(a) /\ DirOK(a), FieldsOf(ProtBits), ChainProtIoctl("SET_ERR_PROT_FORCE", a))

fpga_chain_get_err_prot_force(a) ==
    Call(ChainLaneOK(a) /\ DirOK(a), FieldsOf(ProtBits), ChainProtIoctl("GET_ERR_PROT_FORCE", a))

fpga_chain_err_prot_ins(a) ==
    Call(ChainLaneOK(a) /\ DirOK(a), FieldsOf(ProtBits), ChainProtIoctl("ERR_PROT_INS", a))

fpga_chain_err_prot_get_ins(a) ==
    Call(ChainLaneOK(a) /\ DirOK(a), FieldsOf(ProtBits), ChainProtIoctl("ERR_PROT_GET_INS", a))

fpga_chain_get_err_evt(a) ==
    Call(ChainLaneOK(a) /\ ExtifOK(a), FieldsOf(ChainEvtBits), ChainEvtIoctl("GET_ERR_EVT", a))

fpga_chain_set_err_evt_clear(a) ==
    Call(ChainLaneOK(a) /\ ExtifOK(a), FieldsOf(ChainEvtBits), ChainEvtIoctl("SET_ERR_EVT_CLR", a))

fpga_chain_set_err_evt_mask(a) ==
    Call(ChainLaneOK(a) /\ ExtifOK(a), FieldsOf(ChainEvtBits), ChainEvtIoctl("SET_ERR_EVT_MASK", a))

fpga_chain_get_err_evt_mask(a) ==
    Call(ChainLaneOK(a) /\ ExtifOK(a), FieldsOf(ChainEvtBits), ChainEvtIoctl("GET_ERR_EVT_MASK", a))

fpga_chain_set_err_evt_force(a) ==
    Call(ChainLaneOK(a) /\ ExtifOK(a), FieldsOf(ChainEvtBits), ChainEvtIoctl("SET_ERR_EVT_FORCE", a))

fpga_chain_get_err_evt_force(a) ==
    Call(ChainLaneOK(a) /\ ExtifOK(a), FieldsOf(ChainEvtBits), ChainEvtIoctl("GET_ERR_EVT_FORCE", a))

fpga_chain_get_err_stif(a) ==
    Call(ChainLaneOK(a), FieldsOf(ChainStifBits), ChainStifIoctl("GET_ERR_STIF", a))

fpga_chain_set_err_stif_mask(a) ==
    Call(ChainLaneOK(a), FieldsOf(ChainStifBits), ChainStifIoctl("SET_ERR_STIF_MASK", a))

fpga_chain_get_err_stif_mask(a) ==
    Call(ChainLaneOK(a), FieldsOf(ChainStifBits), ChainStifIoctl("GET_ERR_STIF_MASK", a))

fpga_chain_set_err_stif_force(a) ==
    Call(ChainLaneOK(a), FieldsOf(ChainStifBits), ChainStifIoctl("SET_ERR_STIF_FORCE", a))

fpga_chain_get_err_stif_force(a) ==
    Call(ChainLaneOK(a), FieldsOf(ChainStifBits), ChainStifIoctl("GET_ERR_STIF_FORCE", a))

\* A connection id above CID_MAX is refused: no bit of it from 9 on is taken.
fpga_chain_err_cmdfault_ins(a) ==
    LET access == Call(ChainLaneOK(a) /\ ExtifOK(a), {"enable", "cid"},
                       ChainCmdfaultIoctl("ERR_CMDFAULT_INS", a))
    IN  Restrict(access, {p \in DOMAIN access : 2 ^ p[2] <= CID_MAX})

fpga_chain_err_cmdfault_get_ins(a) ==
    Call(ChainLaneOK(a) /\ ExtifOK(a), {"enable", "cid"},
         ChainCmdfaultIoctl("ERR_CMDFAULT_GET_INS", a))

(***************************************************************************)
(* The calls of each kind of error, by what they get, set or clear.        *)
(***************************************************************************)
ChainGet(kind, view, a) ==
    CASE kind = "chain_check" /\ view = "value" -> fpga_chain_get_check_err(a)
      [] kind = "chain_err" /\ view = "value" -> fpga_chain_get_err(a)
      [] kind = "chain_err" /\ view = "mask" -> fpga_chain_get_err_mask(a)
      [] kind = "chain_err" /\ view = "force" -> fpga_chain_get_err_force(a)
      [] kind = "chain_err" /\ view = "ins" -> fpga_chain_err_get_ins(a)
      [] kind = "chain_table" /\ view = "value" -> fpga_chain_get_err_table(a)
      [] kind = "chain_table" /\ view = "mask" -> fpga_chain_get_err_table_mask(a)
      [] kind = "chain_table" /\ view = "force" -> fpga_chain_get_err_table_force(a)
      [] kind = "chain_prot" /\ view = "value" -> fpga_chain_get_err_prot(a)
      [] kind = "chain_prot" /\ view = "mask" -> fpga_chain_get_err_prot_mask(a)
      [] kind = "chain_prot" /\ view = "force" -> fpga_chain_get_err_prot_force(a)
      [] kind = "chain_prot" /\ view = "ins" -> fpga_chain_err_prot_get_ins(a)
      [] kind = "chain_evt" /\ view = "value" -> fpga_chain_get_err_evt(a)
      [] kind = "chain_evt" /\ view = "mask" -> fpga_chain_get_err_evt_mask(a)
      [] kind = "chain_evt" /\ view = "force" -> fpga_chain_get_err_evt_force(a)
      [] kind = "chain_stif" /\ view = "value" -> fpga_chain_get_err_stif(a)
      [] kind = "chain_stif" /\ view = "mask" -> fpga_chain_get_err_stif_mask(a)
      [] kind = "chain_stif" /\ view = "force" -> fpga_chain_get_err_stif_force(a)
      [] kind = "chain_cmdfault" /\ view = "ins" -> fpga_chain_err_cmdfault_get_ins(a)

ChainSet(kind, view, a) ==
    CASE kind = "chain_err" /\ view = "mask" -> fpga_chain_set_err_mask(a)
      [] kind = "chain_err" /\ view = "force" -> fpga_chain_set_err_force(a)
      [] kind = "chain_err" /\ view = "ins" -> fpga_chain_err_ins(a)
      [] kind = "chain_table" /\ view = "mask" -> fpga_chain_set_err_table_mask(a)
      [] kind = "chain_table" /\ view = "force" -> fpga_chain_set_err_table_force(a)
      [] kind = "chain_prot" /\ view = "mask" -> fpga_chain_set_err_prot_mask(a)
      [] kind = "chain_prot" /\ view = "force" -> fpga_chain_set_err_prot_force(a)
      [] kind = "chain_prot" /\ view = "ins" -> fpga_chain_err_prot_ins(a)
      [] kind = "chain_evt" /\ view = "mask" -> fpga_chain_set_err_evt_mask(a)
      [] kind = "chain_evt" /\ view = "force" -> fpga_chain_set_err_evt_force(a)
      [] kind = "chain_stif" /\ view = "mask" -> fpga_chain_set_err_stif_mask(a)
      [] kind = "chain_stif" /\ view = "force" -> fpga_chain_set_err_stif_force(a)
      [] kind = "chain_cmdfault" /\ view = "ins" -> fpga_chain_err_cmdfault_ins(a)

ChainClear(kind, a) ==
    CASE kind = "chain_prot" -> fpga_chain_set_err_prot_clear(a)
      [] kind = "chain_evt" -> fpga_chain_set_err_evt_clear(a)

=============================================================================
