------------------------------ MODULE ErrRegs -------------------------------
(***************************************************************************)
(* The error registers of the card under the calls of the library.         *)
(*                                                                         *)
(* The state of the hardware is the set of register bits that are one.  A  *)
(* behaviour chooses one call family on one register of the library's      *)
(* interface (the key: a kind of error, a view of it and the arguments)    *)
(* and works on it; what every get of every key would answer is then       *)
(* compared with the abstract bank of flags FaultBank.  A wrong shift, a   *)
(* wrong register, two registers at one address, a driver function called  *)
(* for another ioctl: each shows as a flag that appears or vanishes where  *)
(* the caller has not asked for it.                                        *)
(***************************************************************************)
EXTENDS ChainErr, DirectErr, GlobalErr, ConvErr, FilterResizeErr, LaneRegs

CONSTANTS ProbeLanes,   \* lanes the calls are made for, one past the last too
          ProbeIds,     \* connection ids of the windowed registers
          ProbeBits,    \* bits of a field that are stimulated
          MaxSets,      \* bound on the set calls of a behaviour
          MaxRaise      \* bound on the faults the hardware raises

VARIABLES key,      \* the register under test
          one,      \* the register bits that are one
          asked,    \* the last structure given to a set call
          snap,     \* the faults of the last get, until they are cleared
          unseen,   \* bits raised by the hardware that no get has returned
          sets, raises

errVars == <<key, one, asked, snap, unseen, sets, raises>>

(***************************************************************************)
(* The keys: the views of each kind and the arguments each view takes, one *)
(* value out of range included.                                            *)
(***************************************************************************)
Args(lanes, dirs, ids, cids) == [lane : lanes, dir : dirs, id : ids, cid : cids]

KeysOf(kind, views, args) == [kind : {kind}, view : views, args : args]

Dirs == 0 .. 2
Ids  == 0 .. 2

Keys ==
    LET L == ProbeLanes  Z == {0}  C == ProbeIds IN
    UNION {
      KeysOf("chain_err", {"value"}, Args(L, Dirs, Ids, C)),
      KeysOf("chain_err", {"mask", "force", "ins"}, Args(L, Dirs, Ids, Z)),
      KeysOf("chain_table", {"value"}, Args(L, {INGRESS}, Ids, C) \cup Args(L, {EGRESS}, Z, C)),
      KeysOf("chain_table", {"mask", "force"}, Args(L, {INGRESS}, Ids, Z) \cup Args(L, {EGRESS}, Z, Z)),
      KeysOf("chain_prot", {"value", "mask", "force", "ins"}, Args(L, Dirs, Z, Z)),
      KeysOf("chain_evt", {"value", "mask", "force"}, Args(L, Z, Ids, Z)),
      KeysOf("chain_stif", {"value", "mask", "force"}, Args(L, Z, Z, Z)),
      KeysOf("chain_cmdfault", {"ins"}, Args(L, Z, Ids, Z)),
      KeysOf("direct_prot", {"value", "mask", "force", "ins"}, Args(L, 0 .. 4, Z, Z)),
      KeysOf("direct_stif", {"value", "mask", "force"}, Args(L, Z, Z, Z)),
      [kind : {"clk", "ecc"}, view : {"value", "raw", "mask", "force"}, args : Args(Z, Z, Z, Z)],
      KeysOf("conv_prot", {"value", "mask", "force", "ins"}, Args(L, Dirs, Z, Z)),
      KeysOf("conv_func", {"value", "mask", "force", "ins"}, Args(L, Dirs, Ids, Z)),
      KeysOf("conv_stif", {"value", "mask", "force"}, Args(L, Z, Z, Z)),
      KeysOf("conv_mem", {"value", "mask", "force", "ins"}, Args(L, Z, Z, Z)),
      KeysOf("conv_len", {"value", "mask", "force"}, Args(L, Z, Z, Z)),
      KeysOf("fr_prot", {"value", "mask", "force", "ins"}, Args(L, Dirs, Ids, Z)),
      KeysOf("fr_stif", {"value", "mask", "force"}, Args(L, Z, Z, Z)),
      [kind : {"chain_check", "direct_check", "conv_check", "fr_check"},
       view : {"value"}, args : Args(L, Z, Z, Z)],
      KeysOf("global_check", {"value"}, Args(Z, Z, Z, Z)),
      KeysOf("chain_ctrl", {"ctrl"}, Args(L, Z, Z, Z)),
      KeysOf("direct_ctrl", {"ctrl"}, Args(L, Z, Z, Z)),
      KeysOf("chain_ddr", {"ctrl"}, Args(L, Z, Ids, Z)),
      [kind : {"chain_id", "direct_id", "conv_ovf"}, view : {"value"}, args : Args(L, Z, Z, Z)] }

ChainKinds  == {"chain_err", "chain_table", "chain_prot", "chain_evt", "chain_stif",
                "chain_cmdfault", "chain_check"}
DirectKinds == {"direct_prot", "direct_stif", "direct_check"}
GlobalKinds == {"clk", "ecc", "global_check"}
ConvKinds   == {"conv_prot", "conv_func", "conv_stif", "conv_mem", "conv_len", "conv_check"}

CtrlKinds   == {"chain_ctrl", "direct_ctrl"}
LaneKinds   == CtrlKinds \cup {"chain_ddr", "chain_id", "direct_id", "conv_ovf"}

IsSet(k)   == k.view \in {"mask", "force", "ins", "ctrl"}
CanClear(k) == /\ k.view = "value"
               /\ k.kind \in {"chain_prot", "chain_evt", "direct_prot", "clk", "ecc",
                              "conv_prot", "conv_func", "conv_mem", "conv_len", "fr_prot",
                              "conv_ovf"}

\* The cells each get, set and clear call reaches.  (TLC evaluates a function
\* at each application, unless it has compared it: Table has it built once.)
Table(f) == CHOOSE g \in {f} : g = f

GetAccess ==
    Table([k \in Keys |->
        CASE k.kind \in ChainKinds  -> ChainGet(k.kind, k.view, k.args)
          [] k.kind \in DirectKinds -> DirectGet(k.kind, k.view, k.args)
          [] k.kind \in GlobalKinds -> GlobalGet(k.kind, k.view, k.args)
          [] k.kind \in ConvKinds   -> ConvGet(k.kind, k.view, k.args)
          [] k.kind \in LaneKinds   -> LaneGet(k.kind, k.args)
          [] OTHER                  -> FrGet(k.kind, k.view, k.args)])

SetAccess ==
    Table([k \in {x \in Keys : IsSet(x)} |->
        CASE k.kind \in ChainKinds  -> ChainSet(k.kind, k.view, k.args)
          [] k.kind \in DirectKinds -> DirectSet(k.kind, k.view, k.args)
          [] k.kind \in GlobalKinds -> GlobalSet(k.kind, k.view, k.args)
          [] k.kind \in ConvKinds   -> ConvSet(k.kind, k.view, k.args)
          [] k.kind \in LaneKinds   -> LaneSet(k.kind, "start", k.args)
          [] OTHER                  -> FrSet(k.kind, k.view, k.args)])

StopLaneAccess ==
    Table([k \in {x \in Keys : x.kind \in CtrlKinds} |-> LaneSet(k.kind, "stop", k.args)])

\* Stopping a lane is a call of its own.
Written(k, S) == IF k.kind \in CtrlKinds /\ S = {} THEN StopLaneAccess[k] ELSE SetAccess[k]

\* The calls on a lane write fixed values.
MayWrite(k, S) ==
    k.kind \in LaneKinds => S \in {LaneValue(k.kind, view, k.args) : view \in {"start", "stop"}}

ClearAccess ==
    Table([k \in {x \in Keys : CanClear(x)} |->
        CASE k.kind \in ChainKinds  -> ChainClear(k.kind, k.args)
          [] k.kind \in DirectKinds -> DirectClear(k.kind, k.args)
          [] k.kind \in GlobalKinds -> GlobalClear(k.kind, k.args)
          [] k.kind \in ConvKinds   -> ConvClear(k.kind, k.args)
          [] k.kind = "conv_ovf"    -> fpga_conv_set_stat_ovf_clear(k.args)
          [] OTHER                  -> FrClear(k.kind, k.args)])

Registers(access) == {access[p][1] : p \in DOMAIN access}

Probed(k) == {p \in DOMAIN GetAccess[k] : p[2] \in ProbeBits}

(***************************************************************************)
(* The calls and the hardware.                                             *)
(***************************************************************************)
ErrInit ==
    /\ key \in Keys
    /\ one = {}
    /\ asked = {}
    /\ snap = {}
    /\ unseen = {}
    /\ sets = 0
    /\ raises = 0

\* A set call writes whole registers: the bits it does not name become zero.
\* A refused call changes nothing.
Set(S) ==
    /\ IsSet(key)
    /\ sets < MaxSets
    /\ MayWrite(key, S)
    /\ S \subseteq DOMAIN Written(key, S)
    /\ one' = {c \in one : c[1] \notin Registers(Written(key, S))}
              \cup {Written(key, S)[p] : p \in S}
    /\ asked' = S
    /\ sets' = sets + 1
    /\ UNCHANGED <<key, snap, unseen, raises>>

\* The hardware raises a fault in a value or raw register.
Raise(p) ==
    /\ ~IsSet(key)
    /\ raises < MaxRaise
    /\ GetAccess[key][p] \notin one
    /\ one' = one \cup {GetAccess[key][p]}
    /\ unseen' = unseen \cup {GetAccess[key][p]}
    /\ raises' = raises + 1
    /\ UNCHANGED <<key, asked, snap, sets>>

Get == /\ snap' = {p \in DOMAIN GetAccess[key] : GetAccess[key][p] \in one}
       /\ unseen' = unseen \ {GetAccess[key][p] : p \in snap'}
       /\ UNCHANGED <<key, one, asked, sets, raises>>

\* The caller clears the faults of its last get; the value registers are
\* write-one-to-clear.
WriteOneToClear(cells) == one \ cells

Clear ==
    /\ CanClear(key)
    /\ snap # {}
    /\ one' = WriteOneToClear({ClearAccess[key][p] : p \in snap \cap DOMAIN ClearAccess[key]})
    /\ snap' = {}
    /\ UNCHANGED <<key, asked, unseen, sets, raises>>

ErrNext ==
    \/ \E p \in Probed(key) : Set({p}) \/ Raise(p)
    \/ Set({})
    \/ key.kind = "chain_ddr" /\ Set(DDR_VALUES(key.args))
    \/ Get
    \/ Clear

ErrSpec == ErrInit /\ [][ErrNext]_errVars

(***************************************************************************)
(* Properties.                                                             *)
(***************************************************************************)
\* Which key's get reads which register, and the keys of each register.
Reads == UNION {{<<r, k>> : r \in Registers(GetAccess[k])} : k \in Keys}

Readers == Table([r \in {x[1] : x \in Reads} |->
                      {x[2] : x \in {y \in Reads : y[1] = r}}])

\* The flags a cell is read as.
ReadAs(c) ==
    UNION {{<<k, p>> : p \in {q \in DOMAIN GetAccess[k] : GetAccess[k][q] = c}}
           : k \in Readers[c[1]]}

Bank == INSTANCE FaultBank WITH
            content <- UNION {ReadAs(c) : c \in {x \in one : x[1] \in DOMAIN Readers}},
            FlagsOf <- LAMBDA k : DOMAIN GetAccess[k]

\* Through the library, the driver and the registers, the error calls are
\* FaultBank: what is set in one register is what a get of that register
\* returns, and no call changes what any other get returns
\* (libchain_err.c, libdirecttrans_err.c, libfpgactl_err.c,
\* libfunction_conv_err.c, libfunction_filter_resize_err.c).
RefinesBank == Bank!Spec

\* A fault the hardware has raised and no get has returned is still there to
\* be read: clearing what the last get returned never takes a later fault
\* with it (the set_..._clear calls).
NoFaultLost == unseen \subseteq one
=============================================================================
