----------------------------- MODULE RegAccess -----------------------------
(***************************************************************************)
(* Vocabulary of the error registers of the FPGA.                          *)
(*                                                                         *)
(* A call of the library carries a structure of flags and small bit        *)
(* fields; the driver (or the library itself, with pread and pwrite) packs *)
(* it into 32-bit registers.  What matters of such a call is where each    *)
(* bit of the structure lives.  A LAYOUT maps the pair <<field, i>>, bit i *)
(* of a field, to a bit of a register; an ACCESS maps the pair to a cell   *)
(* <<register, bit>>.  A register is <<address, selected session>>: some   *)
(* registers are windows that show the session written to a select         *)
(* register, the others use NoSel.                                         *)
(*                                                                         *)
(* A call is described by its arguments a = [lane, dir, id, cid]: id is    *)
(* the extif_id or the fr_id, cid the connection or function chain id.     *)
(***************************************************************************)
EXTENDS Integers, Sequences, FiniteSets, Functions, TLC

CONSTANT KERNEL_NUM    \* lanes of every module of the card, at most LANE_MAX

ASSUME LaneAssumption == KERNEL_NUM \in 1 .. 4

INGRESS == 0
EGRESS  == 1

CID_MAX == 511

NoSel == -1

\* A row of one-bit flags in consecutive bits from lo.
Flags(names, lo) ==
    [p \in {<<names[k], 0>> : k \in DOMAIN names} |->
        lo + (CHOOSE k \in DOMAIN names : names[k] = p[1]) - 1]

\* A field of n bits from bit lo.
Field(name, lo, n) == [p \in {name} \X (0 .. n - 1) |-> lo + p[2]]

FieldsOf(layout) == {p[1] : p \in DOMAIN layout}

\* The access to one register with a layout.
At(addr, layout) == [p \in DOMAIN layout |-> <<addr, layout[p]>>]

\* The three registers of a fault and the register that injects it.
FaultRegs(value, ins) ==
    [value |-> value, mask |-> value + 8, force |-> value + 12, ins |-> ins]

\* A refused call reaches no cell.
Refused == <<>>

\* A library call: the argument check, then the copy of the fields that the
\* library moves between its structure and the one of the ioctl.
Call(valid, fields, access) ==
    IF valid THEN Restrict(access, {p \in DOMAIN access : p[1] \in fields})
             ELSE Refused

\* The eleven protocol faults, at the same bits in every module.
ProtBits ==
    Flags(<<"ch", "len", "sof", "eof", "reqresp", "datanum",
            "req_outstanding", "resp_outstanding", "max_datanum">>, 0)
    @@ Flags(<<"reqlen", "reqresplen">>, 12)

\* A word that the code passes on without looking inside.
WordBits == Field("word", 0, 32)
=============================================================================
