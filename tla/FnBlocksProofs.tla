--------------------------- MODULE FnBlocksProofs ---------------------------
(***************************************************************************)
(* The function table never points into an unmapped library, a JSON text   *)
(* has one owner, and a block never runs with the parameters of two calls, *)
(* for any number of lanes, slots, libraries, calls and parameters.        *)
(***************************************************************************)
EXTENDS FnBlocks, FiniteSetTheorems, SequenceTheorems, WellFoundedInduction, TLAPS

(***************************************************************************)
(* The list of functions.                                                  *)
(***************************************************************************)
\* The scan for the first slot that fits finds one, when there is one.
LEMMA FirstIsLeast ==
    ASSUME NEW S \in SUBSET Nat, S # {}
    PROVE  First(S) \in S /\ \A t \in S : First(S) <= t
  <1>1. \E x \in S : \A y \in S : ~(<<y, x>> \in OpToRel(<, Nat))
    BY NatLessThanWellFounded, WFMin, Zenon
  <1>2. \E x \in S : \A y \in S : ~(y < x)
    BY <1>1, Zenon DEF OpToRel
  <1>3. \E x \in S : \A y \in S : x <= y
    BY <1>2
  <1> QED
    BY <1>3, Zenon DEF First

\* The same for the slots of a list.
LEMMA FirstSlot ==
    ASSUME NEW S \in SUBSET Slots, S # {}
    PROVE  First(S) \in S
  <1>1. S \in SUBSET Nat
    BY FnAssumption DEF Slots
  <1> QED
    BY <1>1, FirstIsLeast

\* No two entries of the list have one name.
UniqueNames(l) == \A s, t \in Slots : l[s] # NoOps /\ l[t] # NoOps /\ l[s].name = l[t].name => s = t

\* What is in the code of a library has the library's name.
LEMMA OpsOfLibs ==
    ASSUME NEW ops \in AllOps, ops.home \in Libs
    PROVE  ops.name = ops.home /\ ops # NoOps
  <1>0. NoOps.home = "" /\ libfunc_filter_resize_ops.home = "libfpga"
    BY DEF NoOps, libfunc_filter_resize_ops
  <1>1. ops \notin AppOps /\ ops # NoOps /\ ops # libfunc_filter_resize_ops
    BY <1>0, OpsAssumption
  <1>2. PICK lib \in Libs : ops = LibOps(lib)
    BY <1>1 DEF AllOps
  <1> QED
    BY <1>1, <1>2 DEF LibOps

LEMMA NotNoOps ==
    ASSUME NEW ops \in AppOps \cup {libfunc_filter_resize_ops} \cup {LibOps(lib) : lib \in Libs}
    PROVE  ops # NoOps
  <1>1. ops \in AppOps => ops.home # ""
    BY OpsAssumption
  <1>2. ops = libfunc_filter_resize_ops => ops.home # ""
    BY DEF libfunc_filter_resize_ops
  <1>3. ASSUME NEW lib \in Libs, ops = LibOps(lib) PROVE ops.home # ""
    BY <1>3, OpsAssumption DEF LibOps
  <1>4. NoOps.home = ""
    BY DEF NoOps
  <1> QED
    BY <1>1, <1>2, <1>3, <1>4

\* Registration keeps the names unique, and adds at most the new function.
LEMMA RegisterProps ==
    ASSUME NEW l \in [Slots -> AllOps], UniqueNames(l),
           NEW ops \in AllOps, ops # NoOps,
           NEW r, r = fpga_function_register(l, ops)
    PROVE  /\ r.list \in [Slots -> AllOps]
           /\ UniqueNames(r.list)
           /\ \A s \in Slots : r.list[s] = l[s] \/ r.list[s] = ops
           /\ r.ret = "OK" \/ r.list = l
  <1>1. CASE Called(l, ops.name) # {}
    BY <1>1 DEF fpga_function_register
  <1>2. CASE Called(l, ops.name) = {} /\ Free(l) = {}
    BY <1>2 DEF fpga_function_register
  <1>3. CASE Called(l, ops.name) = {} /\ Free(l) # {}
    <2>1. First(Free(l)) \in Free(l)
      BY <1>3, FirstSlot DEF Free
    <2>2. r = [ret |-> "OK", list |-> [l EXCEPT ![First(Free(l))] = ops]]
      BY <1>3 DEF fpga_function_register
    <2> QED
      BY <1>3, <2>1, <2>2 DEF UniqueNames, Called, Free
  <1> QED
    BY <1>1, <1>2, <1>3

\* Afterwards nothing in the list has the name, and nothing has been added.
LEMMA UnregisterProps ==
    ASSUME NEW l \in [Slots -> AllOps], UniqueNames(l), NEW name,
           NEW m, m = fpga_function_unregister(l, name)
    PROVE  /\ m \in [Slots -> AllOps]
           /\ UniqueNames(m)
           /\ \A s \in Slots : m[s] = l[s] \/ m[s] = NoOps
           /\ \A s \in Slots : m[s] # NoOps => m[s].name # name
  <1>0. NoOps \in AllOps
    BY DEF AllOps
  <1>1. CASE Called(l, name) = {}
    BY <1>1 DEF fpga_function_unregister, Called
  <1>2. CASE Called(l, name) # {}
    <2>1. First(Called(l, name)) \in Called(l, name)
      BY <1>2, FirstSlot DEF Called
    <2> QED
      BY <1>0, <1>2, <2>1 DEF fpga_function_unregister, Called, UniqueNames
  <1> QED
    BY <1>1, <1>2

\* The list every call starts from.
LEMMA ListProps ==
    ASSUME list \in [Slots -> AllOps], UniqueNames(list)
    PROVE  /\ List \in [Slots -> AllOps]
           /\ UniqueNames(List)
           /\ \A s \in Slots : List[s] = list[s] \/ List[s] = libfunc_filter_resize_ops
  <1>1. libfunc_filter_resize_ops \in AllOps /\ libfunc_filter_resize_ops # NoOps
    BY DEF AllOps, NoOps, libfunc_filter_resize_ops
  <1> QED
    BY <1>1, RegisterProps
       DEF List, __libfunction_init, __libfunction_register_default_function,
           fpga_function_register_filter_resize

(***************************************************************************)
(* The inductive invariant of the list, the tables and the libraries.      *)
(***************************************************************************)
ListInv == list \in [Slots -> AllOps] /\ UniqueNames(list)

TableInv ==
    /\ table \in [Lanes -> AllOps]
    /\ call = [op |-> call.op, lane |-> call.lane, ret |-> call.ret]
    /\ status = "call" => call.lane \in Lanes

\* A library is open as often as it is in the table of libraries.
LibsInv ==
    /\ libs \in [Slots -> Libs \cup {""}]
    /\ open = [lib \in Libs |-> Cardinality(Loaded(lib))]

ListTablesInv == ListInv /\ TableInv /\ LibsInv /\ NoDangling

LEMMA LoadedIsFinite ==
    ASSUME NEW S \in SUBSET Slots
    PROVE  IsFiniteSet(S) /\ Cardinality(S) \in Nat
  <1>1. IsFiniteSet(Slots)
    BY FS_Interval, FnAssumption DEF Slots
  <1> QED
    BY <1>1, FS_Subset, FS_CardinalityType

LEMMA LoadedNat ==
    ASSUME LibsInv, NEW lib \in Libs
    PROVE  open[lib] \in Nat
  BY LoadedIsFinite DEF LibsInv, Loaded

LEMMA ListTablesInit == Init => ListTablesInv
  <1> SUFFICES ASSUME Init PROVE ListTablesInv
    OBVIOUS
  <1>1. ListInv /\ TableInv
    BY DEF Init, ListInv, TableInv, UniqueNames, AllOps, NoCall
  <1>2. \A lib \in Libs : Loaded(lib) = {}
    BY OpsAssumption DEF Init, Loaded
  <1>3. LibsInv
    BY <1>2, FS_EmptySet DEF Init, LibsInv
  <1>4. NoDangling
    <2>1. NoOps.home \notin Libs
      BY OpsAssumption DEF NoOps
    <2> QED
      BY <2>1 DEF Init, NoDangling
  <1> QED
    BY <1>1, <1>3, <1>4 DEF ListTablesInv

\* Steps that leave the libraries alone keep the table of them.
LEMMA LibsUnchanged ==
    ASSUME LibsInv, UNCHANGED <<libs, open>>
    PROVE  LibsInv'
  BY DEF LibsInv, Loaded

\* What a step may put into the list and the table while no library is closed.
LEMMA NoDanglingKept ==
    ASSUME ListTablesInv,
           \A lib \in Libs : open'[lib] = open[lib],
           \A s \in Slots : list'[s] \in {list[t] : t \in Slots} \/ list'[s].home \notin Libs,
           \A lane \in Lanes : \/ table'[lane] \in {table[other] : other \in Lanes}
                               \/ table'[lane] \in {list[t] : t \in Slots}
                               \/ table'[lane].home \notin Libs
    PROVE  NoDangling'
  BY DEF ListTablesInv, NoDangling
\* Functions that come with no library, and no function.
LEMMA NoLibrary ==
    ASSUME NEW ops \in AppOps \cup {libfunc_filter_resize_ops, NoOps}
    PROVE  ops.home \notin Libs
  <1>1. libfunc_filter_resize_ops.home = "libfpga" /\ NoOps.home = ""
    BY DEF libfunc_filter_resize_ops, NoOps
  <1> QED
    BY <1>1, OpsAssumption

\* fpga_function_register.
LEMMA RegisterStep ==
    ASSUME ListTablesInv, NEW ops \in AppOps \cup {libfunc_filter_resize_ops}, Register(ops)
    PROVE  ListTablesInv'
  <1> USE DEF Register
  <1>1. ops \in AllOps /\ ops # NoOps
    BY NotNoOps DEF AllOps
  <1>2. /\ ListInv'
        /\ \A s \in Slots : list'[s] \in {list[s], libfunc_filter_resize_ops, ops}
    BY <1>1, ListProps, RegisterProps DEF ListTablesInv, ListInv
  <1>3. TableInv' /\ LibsInv'
    BY LibsUnchanged DEF ListTablesInv, TableInv
  <1>4. NoDangling'
    BY <1>2, NoDanglingKept, NoLibrary
  <1> QED
    BY <1>2, <1>3, <1>4 DEF ListTablesInv

\* fpga_function_unregister.
LEMMA UnregisterStep ==
    ASSUME ListTablesInv, NEW name, Unregister(name)
    PROVE  ListTablesInv'
  <1> USE DEF Unregister
  <1>1. /\ ListInv'
        /\ \A s \in Slots : list'[s] \in {list[s], libfunc_filter_resize_ops, NoOps}
    BY ListProps, UnregisterProps DEF ListTablesInv, ListInv
  <1>2. TableInv' /\ LibsInv'
    BY LibsUnchanged DEF ListTablesInv, TableInv
  <1>3. NoDangling'
    BY <1>1, NoDanglingKept, NoLibrary
  <1> QED
    BY <1>1, <1>2, <1>3 DEF ListTablesInv

\* A lane is configured for an entry of the list, or for nothing.
LEMMA ConfigStep ==
    ASSUME ListTablesInv, NEW lane, NEW name, fpga_function_config(lane, name)
    PROVE  ListTablesInv'
  <1> USE DEF fpga_function_config
  <1>1. ListInv' /\ \A s \in Slots : list'[s] \in {list[s], libfunc_filter_resize_ops}
    BY ListProps DEF ListTablesInv, ListInv
  <1>2. /\ table' \in [Lanes -> AllOps]
        /\ \A other \in Lanes : table'[other] \in {table[other], NoOps} \cup {list'[s] : s \in Slots}
    <2>0. NoOps \in AllOps /\ table \in [Lanes -> AllOps]
      BY DEF AllOps, ListTablesInv, TableInv
    <2>1. CASE table' = table
      BY <2>0, <2>1
    <2>2. CASE lane \in Lanes /\ table' = [table EXCEPT ![lane] = NoOps]
      BY <2>0, <2>2
    <2>3. CASE /\ lane \in Lanes /\ Called(List, name) # {}
               /\ table' = [table EXCEPT ![lane] = List[First(Called(List, name))]]
      <3>1. First(Called(List, name)) \in Slots
        BY <2>3, FirstSlot DEF Called
      <3> QED
        BY <1>1, <2>0, <2>3, <3>1 DEF ListInv
    <2> QED
      BY <2>1, <2>2, <2>3
  <1>3. TableInv' /\ LibsInv'
    BY <1>2, LibsUnchanged DEF ListTablesInv, TableInv
  <1>4. NoDangling'
    <2>1. \A other \in Lanes : \/ table'[other] \in {table[o] : o \in Lanes}
                              \/ table'[other] \in {list[t] : t \in Slots}
                              \/ table'[other].home \notin Libs
      <3> TAKE other \in Lanes
      <3>1. CASE table'[other] \in {table[other], NoOps}
        BY <3>1, NoLibrary
      <3>2. CASE \E s \in Slots : table'[other] = list'[s]
        BY <1>1, <3>2, NoLibrary
      <3> QED
        BY <1>2, <3>1, <3>2
    <2> QED
      BY <1>1, <2>1, NoDanglingKept, NoLibrary
  <1> QED
    BY <1>1, <1>3, <1>4 DEF ListTablesInv

\* A load that fails has registered the default function at most.
LEMMA LoadFailsStep ==
    ASSUME ListTablesInv, NEW lib, NEW early, LoadFails(lib, early)
    PROVE  ListTablesInv'
  <1> USE DEF LoadFails
  <1>1. ListInv' /\ \A s \in Slots : list'[s] \in {list[s], libfunc_filter_resize_ops}
    BY ListProps DEF ListTablesInv, ListInv
  <1>2. TableInv'
    BY DEF ListTablesInv, TableInv
  <1>3. LibsInv'
    BY LibsUnchanged DEF ListTablesInv
  <1>4. NoDangling'
    BY <1>1, NoDanglingKept, NoLibrary
  <1> QED
    BY <1>1, <1>2, <1>3, <1>4 DEF ListTablesInv

\* The table of libraries gains or loses one slot of one library.
LEMMA LoadedSteps ==
    ASSUME LibsInv, NEW lib \in Libs, NEW s \in Slots
    PROVE  /\ libs[s] = "" /\ libs' = [libs EXCEPT ![s] = lib]
              /\ open' = [open EXCEPT ![lib] = @ + 1] => LibsInv'
           /\ libs[s] = lib /\ libs' = [libs EXCEPT ![s] = ""]
              /\ open' = [open EXCEPT ![lib] = @ - 1] => LibsInv'
  <1>0. lib # "" /\ IsFiniteSet(Loaded(lib)) /\ Cardinality(Loaded(lib)) \in Nat
    BY OpsAssumption, LoadedIsFinite DEF Loaded
  <1>1. ASSUME libs[s] = "", libs' = [libs EXCEPT ![s] = lib],
               open' = [open EXCEPT ![lib] = @ + 1]
        PROVE  LibsInv'
    <2>1. Loaded(lib)' = Loaded(lib) \cup {s} /\ s \notin Loaded(lib)
      BY <1>0, <1>1 DEF LibsInv, Loaded
    <2>2. Cardinality(Loaded(lib)') = open[lib] + 1
      BY <1>0, <2>1, FS_AddElement DEF LibsInv
    <2>3. \A l \in Libs \ {lib} : Loaded(l)' = Loaded(l)
      BY <1>1, OpsAssumption DEF LibsInv, Loaded
    <2> QED
      BY <1>1, <2>2, <2>3 DEF LibsInv
  <1>2. ASSUME libs[s] = lib, libs' = [libs EXCEPT ![s] = ""],
               open' = [open EXCEPT ![lib] = @ - 1]
        PROVE  LibsInv'
    <2>1. Loaded(lib)' = Loaded(lib) \ {s} /\ s \in Loaded(lib)
      BY <1>0, <1>2 DEF LibsInv, Loaded
    <2>2. Cardinality(Loaded(lib)') = open[lib] - 1
      BY <1>0, <2>1, FS_RemoveElement DEF LibsInv
    <2>3. \A l \in Libs \ {lib} : Loaded(l)' = Loaded(l)
      BY <1>2, OpsAssumption DEF LibsInv, Loaded
    <2> QED
      BY <1>2, <2>2, <2>3 DEF LibsInv
  <1> QED
    BY <1>1, <1>2

\* fpga_function_load opens the library whose function it registers.
LEMMA LoadStep ==
    ASSUME ListTablesInv, NEW lib \in Libs, fpga_function_load(lib)
    PROVE  ListTablesInv'
  <1> USE DEF fpga_function_load
  <1>1. LibOps(lib) \in AllOps /\ LibOps(lib) # NoOps /\ LibOps(lib).home = lib
    BY NotNoOps DEF AllOps, LibOps
  <1>2. /\ ListInv'
        /\ \A s \in Slots : list'[s] \in {list[s], libfunc_filter_resize_ops, LibOps(lib)}
    BY <1>1, ListProps, RegisterProps DEF ListTablesInv, ListInv
  <1>3. First(FreeLibs) \in FreeLibs
    BY FirstSlot DEF FreeLibs
  <1>4. LibsInv'
    BY <1>3, LoadedSteps DEF FreeLibs, ListTablesInv
  <1>5. /\ \A l \in Libs : open[l] \in Nat
        /\ \A l \in Libs : open[l] > 0 => open'[l] > 0
        /\ open'[lib] > 0
    <2>1. \A l \in Libs : open[l] \in Nat
      BY LoadedNat DEF ListTablesInv
    <2>2. open' = [open EXCEPT ![lib] = @ + 1] /\ DOMAIN open = Libs
      BY DEF ListTablesInv, LibsInv
    <2> QED
      BY <2>1, <2>2
  <1>6. TableInv'
    BY DEF ListTablesInv, TableInv
  <1>7. NoDangling'
    BY <1>1, <1>2, <1>5, NoLibrary DEF ListTablesInv, NoDangling
  <1> QED
    BY <1>2, <1>4, <1>6, <1>7 DEF ListTablesInv

\* fpga_function_unload leaves no function of the library behind: what is in
\* the list or in the table of lanes under another name is in another place.
LEMMA UnloadStep ==
    ASSUME ListTablesInv, NEW lib \in Libs, fpga_function_unload(lib)
    PROVE  ListTablesInv'
  <1> USE DEF fpga_function_unload
  <1>0. NoOps \in AllOps
    BY DEF AllOps
  <1>1. /\ ListInv'
        /\ \A s \in Slots : /\ list'[s] \in {list[s], libfunc_filter_resize_ops, NoOps}
                            /\ list'[s] # NoOps => list'[s].name # lib
    <2>1. list' = fpga_function_unregister(List, lib)
      OBVIOUS
    <2> HIDE DEF fpga_function_unload
    <2> QED
      BY <2>1, ListProps, UnregisterProps DEF ListTablesInv, ListInv
  <1>2. /\ table' \in [Lanes -> AllOps]
        /\ \A lane \in Lanes : /\ table'[lane] \in {table[lane], NoOps}
                               /\ table'[lane] # NoOps => table'[lane].name # lib
    BY <1>0 DEF ListTablesInv, TableInv
  <1>3. First(Loaded(lib)) \in Loaded(lib)
    BY FirstSlot DEF Loaded
  <1>4. LibsInv'
    BY <1>3, LoadedSteps DEF Loaded, ListTablesInv
  <1>5. TableInv'
    BY <1>2 DEF ListTablesInv, TableInv
  <1>6. ASSUME NEW ops \in AllOps, ops.home \in Libs, ops # NoOps => ops.name # lib
        PROVE  ops.home # lib
    BY <1>6, OpsOfLibs
  <1>7. \A l \in Libs \ {lib} : open'[l] = open[l]
    BY DEF ListTablesInv, LibsInv
  <1>8. ASSUME NEW s \in Slots, list'[s].home \in Libs PROVE open'[list'[s].home] > 0
    <2>1. list'[s].home # lib /\ list'[s] = list[s]
      BY <1>1, <1>6, <1>8, NoLibrary DEF ListInv
    <2> QED
      BY <1>7, <1>8, <2>1 DEF ListTablesInv, NoDangling
  <1>9. ASSUME NEW lane \in Lanes, table'[lane].home \in Libs PROVE open'[table'[lane].home] > 0
    <2>1. table'[lane].home # lib /\ table'[lane] = table[lane]
      BY <1>2, <1>6, <1>9, NoLibrary
    <2> QED
      BY <1>7, <1>9, <2>1 DEF ListTablesInv, NoDangling
  <1>10. NoDangling'
    BY <1>8, <1>9 DEF NoDangling
  <1> QED
    BY <1>1, <1>4, <1>5, <1>10 DEF ListTablesInv

\* The calls of a lane's function, and their writes.
LEMMA LaneStep ==
    ASSUME ListTablesInv,
           \/ \E lane \in Lanes : \/ \E ret, convret : fpga_function_get(lane, ret, convret)
                                 \/ \E p : fpga_function_set(lane, p)
                                 \/ fpga_function_finish(lane)
           \/ PwriteOK \/ PwriteFails \/ OtherFails \/ Return
    PROVE  ListTablesInv'
  <1>1. ListInv' /\ LibsInv'
    BY LibsUnchanged
       DEF ListTablesInv, ListInv, UniqueNames, fpga_function_get, fpga_function_set,
           fpga_function_finish, PwriteOK, PwriteFails, OtherFails, Return
  <1>2. UNCHANGED <<list, libs, open>>
    BY DEF fpga_function_get, fpga_function_set,
           fpga_function_finish, PwriteOK, PwriteFails, OtherFails, Return
  <1>3. CASE Return
    <2>1. NoOps \in AllOps
      BY DEF AllOps
    <2>2. /\ TableInv'
          /\ \A lane \in Lanes : table'[lane] \in {table[lane], NoOps}
      BY <1>3, <2>1 DEF Return, NoCall, ListTablesInv, TableInv
    <2>3. NoDangling'
      BY <1>2, <2>2, NoDanglingKept, NoLibrary
    <2> QED
      BY <1>1, <2>2, <2>3 DEF ListTablesInv
  <1>4. CASE \E lane \in Lanes : \/ \E p : fpga_function_set(lane, p)
                                \/ fpga_function_finish(lane)
    <2>1. /\ table' = table /\ call'.lane \in Lanes
          /\ call' = [op |-> call'.op, lane |-> call'.lane, ret |-> call'.ret]
      BY <1>4 DEF fpga_function_set, fpga_function_finish
    <2> QED
      BY <1>1, <1>2, <2>1, NoDanglingKept DEF ListTablesInv, TableInv
  <1>5. CASE \/ \E lane \in Lanes : \E ret, convret : fpga_function_get(lane, ret, convret)
             \/ PwriteOK \/ PwriteFails \/ OtherFails
    <2>1. /\ table' = table
          /\ call' = [op |-> call.op, lane |-> call.lane, ret |-> call'.ret]
          /\ status' = "call" => status = "call"
      <3>1. CASE \E lane \in Lanes : \E ret, convret : fpga_function_get(lane, ret, convret)
        BY <3>1 DEF fpga_function_get, ListTablesInv, TableInv
      <3>2. CASE PwriteOK \/ PwriteFails \/ OtherFails
        BY <3>2 DEF PwriteOK, PwriteFails, OtherFails, ListTablesInv, TableInv
      <3> QED
        BY <1>5, <3>1, <3>2
    <2> QED
      BY <1>1, <1>2, <2>1, NoDanglingKept DEF ListTablesInv, TableInv
  <1> QED
    BY <1>3, <1>4, <1>5

\* Every step keeps the list, the table of lanes and that of libraries.
LEMMA ListTablesNext == ListTablesInv /\ [Next]_vars => ListTablesInv'
  <1> SUFFICES ASSUME ListTablesInv, [Next]_vars PROVE ListTablesInv'
    OBVIOUS
  <1>1. CASE UNCHANGED vars
    BY <1>1 DEF vars, ListTablesInv, ListInv, UniqueNames, TableInv, LibsInv, Loaded, NoDangling
  <1>2. CASE \E ops \in AppOps \cup {libfunc_filter_resize_ops} : Register(ops)
    BY <1>2, RegisterStep
  <1>3. CASE \E name \in Names : Unregister(name)
    BY <1>3, UnregisterStep
  <1>4. CASE \E lane \in 0 .. KERNEL_NUM_FUNC, name \in Names \cup {""} : fpga_function_config(lane, name)
    BY <1>4, ConfigStep
  <1>5. ASSUME NEW lib \in Libs, \/ fpga_function_load(lib) \/ fpga_function_unload(lib)
                                 \/ \E early \in BOOLEAN : LoadFails(lib, early)
        PROVE  ListTablesInv'
    BY <1>5, LoadStep, UnloadStep, LoadFailsStep
  <1>6. ASSUME NEW lane \in Lanes,
               \/ \E ret, convret \in {"OK", "FAILURE_READ"} : fpga_function_get(lane, ret, convret)
               \/ \E p \in Params : fpga_function_set(lane, p)
               \/ fpga_function_finish(lane)
        PROVE  ListTablesInv'
    BY <1>6, LaneStep
  <1>7. CASE PwriteOK \/ PwriteFails \/ OtherFails \/ Return
    BY <1>7, LaneStep
  <1>8. CASE Ended
    BY <1>1, <1>8 DEF Ended
  <1> QED
    BY <1>1, <1>2, <1>3, <1>4, <1>5, <1>6, <1>7, <1>8 DEF Next

\* However loads, unloads, registrations under a library's name and
\* configurations follow each other, no entry of the list and no lane points
\* into a library that fpga_function_unload has closed for the last time.
THEOREM FunctionsAreMapped == Spec => []NoDangling
  <1>1. ListTablesInv => NoDangling
    BY DEF ListTablesInv
  <1> QED
    BY <1>1, ListTablesInit, ListTablesNext, PTL DEF Spec
(***************************************************************************)
(* The texts.                                                              *)
(***************************************************************************)
JsonInv == json \in [Lanes -> Buffers \cup {0}] /\ JsonOwned

\* A call returns a text of its own, or frees the one the lane has.
LEMMA GetJson ==
    ASSUME JsonInv, NEW lane \in Lanes, NEW ret, NEW convret, fpga_function_get(lane, ret, convret)
    PROVE  JsonInv'
  <1>0. 0 \notin Buffers
    BY FnAssumption DEF Buffers
  <1>1. \A other \in Lanes \ {lane} : json[other] # 0 => json[other] \in live \ {json[lane]}
    BY DEF JsonInv, JsonOwned
  <1>2. CASE \E b \in Buffers \ (live \ {json[lane]}) :
                 /\ live' = (live \ {json[lane]}) \cup {b}
                 /\ json' = [json EXCEPT ![lane] = b]
    BY <1>0, <1>1, <1>2 DEF JsonInv, JsonOwned
  <1>3. CASE live' = live \ {json[lane]} /\ json' = [json EXCEPT ![lane] = 0]
    BY <1>0, <1>1, <1>3 DEF JsonInv, JsonOwned
  <1> QED
    BY <1>2, <1>3 DEF fpga_function_get

\* The lanes that lose their function lose their texts.
LEMMA UnloadJson ==
    ASSUME JsonInv, NEW lib, fpga_function_unload(lib)
    PROVE  JsonInv'
  <1> DEFINE served == {lane \in Lanes : table[lane] # NoOps /\ table[lane].name = lib}
  <1>1. /\ live' = live \ {json[lane] : lane \in served}
        /\ json' = [lane \in Lanes |-> IF lane \in served THEN 0 ELSE json[lane]]
    BY DEF fpga_function_unload
  <1> HIDE DEF served
  <1>2. \A lane \in Lanes : json'[lane] # 0 => lane \notin served /\ json'[lane] = json[lane]
    BY <1>1
  <1>3. served \subseteq Lanes
    BY DEF served
  <1> QED
    BY <1>1, <1>2, <1>3 DEF JsonInv, JsonOwned

\* The lane that is finished loses its text.
LEMMA ReturnJson ==
    ASSUME ListTablesInv, JsonInv, Return
    PROVE  JsonInv'
  <1>1. call.lane \in Lanes
    BY DEF ListTablesInv, TableInv, Return
  <1> QED
    BY <1>1 DEF JsonInv, JsonOwned, Return

LEMMA JsonNext == ListTablesInv /\ JsonInv /\ [Next]_vars => JsonInv'
  <1> SUFFICES ASSUME ListTablesInv, JsonInv, [Next]_vars PROVE JsonInv'
    OBVIOUS
  <1>1. CASE UNCHANGED <<json, live>>
    BY <1>1 DEF JsonInv, JsonOwned
  <1>2. CASE \/ \E ops \in AppOps \cup {libfunc_filter_resize_ops} : Register(ops)
             \/ \E name \in Names : Unregister(name)
             \/ \E lane \in 0 .. KERNEL_NUM_FUNC, name \in Names \cup {""} : fpga_function_config(lane, name)
             \/ \E lib \in Libs : \/ fpga_function_load(lib)
                                  \/ \E early \in BOOLEAN : LoadFails(lib, early)
             \/ \E lane \in Lanes : \/ \E p \in Params : fpga_function_set(lane, p)
                                    \/ fpga_function_finish(lane)
             \/ PwriteOK \/ PwriteFails \/ OtherFails \/ Ended \/ UNCHANGED vars
    BY <1>1, <1>2 DEF Register, Unregister, fpga_function_config, fpga_function_load, LoadFails,
                      fpga_function_set, fpga_function_finish, PwriteOK, PwriteFails, OtherFails,
                      Ended, vars
  <1>3. CASE \E lane \in Lanes, ret, convret \in {"OK", "FAILURE_READ"} : fpga_function_get(lane, ret, convret)
    BY <1>3, GetJson
  <1>4. CASE \E lib \in Libs : fpga_function_unload(lib)
    BY <1>4, UnloadJson
  <1>5. CASE Return
    BY <1>5, ReturnJson
  <1> QED
    BY <1>2, <1>3, <1>4, <1>5 DEF Next

\* No sequence of fpga_function_get, _finish and _unload calls frees a text
\* that another lane's caller still has, or frees one twice.
THEOREM TextsAreOwned == Spec => []JsonOwned
  <1>1. Init => JsonInv
    BY DEF Init, JsonInv, JsonOwned
  <1>2. JsonInv => JsonOwned
    BY DEF JsonInv
  <1> QED
    BY <1>1, <1>2, ListTablesInit, ListTablesNext, JsonNext, PTL DEF Spec
(***************************************************************************)
(* The writes of a call.  Every call that programs a lane makes the same   *)
(* writes to a block: a stop, four parameters, and the new state.          *)
(***************************************************************************)
RegNames == {"control", "cols_input", "rows_input", "cols_output", "rows_output",
             "cols", "rows", "frame_buffer_l", "frame_buffer_h"}
Writes == [block : {"fr", "conv"}, reg : RegNames, val : Int]

FrRegs == [control : Int, cols_input : Int, rows_input : Int, cols_output : Int, rows_output : Int]
ConvRegs == [control : Int, cols : Int, rows : Int, frame_buffer_l : Int, frame_buffer_h : Int]
BlockRegs == [fr : FrRegs, conv : ConvRegs]

Sizes == [i_width : Nat, i_height : Nat, o_width : Nat, o_height : Nat]

\* t is s with one element more.
Longer(S, s, b, t) ==
    /\ t \in Seq(S) /\ Len(t) = Len(s) + 1
    /\ \A i \in 1 .. Len(s) : t[i] = s[i]
    /\ t[Len(s) + 1] = b

LEMMA OneElement ==
    ASSUME NEW S, NEW b \in S
    PROVE  <<b>> \in Seq(S) /\ Len(<<b>>) = 1 /\ <<b>>[1] = b
  OBVIOUS

LEMMA OneMore ==
    ASSUME NEW S, NEW s \in Seq(S), NEW b \in S
    PROVE  Longer(S, s, b, s \o <<b>>)
  <1>1. Len(s) \in Nat
    BY LenProperties
  <1> QED
    BY <1>1, OneElement, ConcatProperties DEF Longer

Six(S, s, a, b, c, d, e, f) ==
    /\ s \in Seq(S) /\ Len(s) = 6
    /\ s[1] = a /\ s[2] = b /\ s[3] = c /\ s[4] = d /\ s[5] = e /\ s[6] = f

LEMMA SixElements ==
    ASSUME NEW S, NEW a \in S, NEW b \in S, NEW c \in S, NEW d \in S, NEW e \in S, NEW f \in S
    PROVE  Six(S, <<a>> \o <<b>> \o <<c>> \o <<d>> \o <<e>> \o <<f>>, a, b, c, d, e, f)
  <1>1. PICK s1 : s1 = <<a>>
    OBVIOUS
  <1>2. PICK s2 : s2 = s1 \o <<b>>
    OBVIOUS
  <1>3. PICK s3 : s3 = s2 \o <<c>>
    OBVIOUS
  <1>4. PICK s4 : s4 = s3 \o <<d>>
    OBVIOUS
  <1>5. PICK s5 : s5 = s4 \o <<e>>
    OBVIOUS
  <1>6. PICK s6 : s6 = s5 \o <<f>>
    OBVIOUS
  <1>7. s1 \in Seq(S) /\ Len(s1) = 1 /\ s1[1] = a
    BY <1>1, OneElement
  <1>8. Longer(S, s1, b, s2) /\ s2 \in Seq(S)
    <2>1. Longer(S, s1, b, s2)
      BY <1>2, <1>7, OneMore, Zenon
    <2> QED
      BY <2>1, Zenon DEF Longer
  <1>9. Longer(S, s2, c, s3) /\ s3 \in Seq(S)
    <2>1. Longer(S, s2, c, s3)
      BY <1>3, <1>8, OneMore, Zenon
    <2> QED
      BY <2>1, Zenon DEF Longer
  <1>10. Longer(S, s3, d, s4) /\ s4 \in Seq(S)
    <2>1. Longer(S, s3, d, s4)
      BY <1>4, <1>9, OneMore, Zenon
    <2> QED
      BY <2>1, Zenon DEF Longer
  <1>11. Longer(S, s4, e, s5) /\ s5 \in Seq(S)
    <2>1. Longer(S, s4, e, s5)
      BY <1>5, <1>10, OneMore, Zenon
    <2> QED
      BY <2>1, Zenon DEF Longer
  <1>12. Longer(S, s5, f, s6)
    BY <1>6, <1>11, OneMore, Zenon
  <1>13. Len(s2) = 2 /\ s2[1] = a /\ s2[2] = b
    BY <1>7, <1>8 DEF Longer
  <1>14. Len(s3) = 3 /\ s3[1] = a /\ s3[2] = b /\ s3[3] = c
    BY <1>9, <1>13 DEF Longer
  <1>15. Len(s4) = 4 /\ s4[1] = a /\ s4[2] = b /\ s4[3] = c /\ s4[4] = d
    BY <1>10, <1>14 DEF Longer
  <1>16. Len(s5) = 5 /\ s5[1] = a /\ s5[2] = b /\ s5[3] = c /\ s5[4] = d /\ s5[5] = e
    BY <1>11, <1>15 DEF Longer
  <1>17. Six(S, s6, a, b, c, d, e, f)
    BY <1>12, <1>16, SMTT(30) DEF Longer, Six
  <1> QED
    BY <1>1, <1>2, <1>3, <1>4, <1>5, <1>6, <1>17, Zenon

LEMMA WriteType ==
    ASSUME NEW block \in {"fr", "conv"}, NEW reg \in RegNames, NEW val \in Int
    PROVE  Write(block, reg, val) \in Writes
  BY DEF Write, Writes

\* The six writes of the function's block and of the adapter's.
FrWrites(s, p, m) ==
    Six(Writes, s, Write("fr", "control", STOP_MODULE), Write("fr", "cols_input", p.i_width),
        Write("fr", "rows_input", p.i_height), Write("fr", "cols_output", p.o_width),
        Write("fr", "rows_output", p.o_height), Write("fr", "control", m))

ConvWrites(s, c) ==
    Six(Writes, s, Write("conv", "control", STOP_MODULE), Write("conv", "cols", c.cols),
        Write("conv", "rows", c.rows), Write("conv", "frame_buffer_l", c.frame_buffer_l),
        Write("conv", "frame_buffer_h", c.frame_buffer_h), Write("conv", "control", c.control))

LEMMA GivenIsWritten ==
    ASSUME NEW block, NEW reg, NEW val \in Nat
    PROVE  Given(block, reg, val) = <<Write(block, reg, val)>>
  BY DEF Given, MISSING

LEMMA ModuleIsWritten ==
    ASSUME NEW block, NEW m \in {0, 1}
    PROVE  Module(block, m) = <<Write(block, "control", m)>>
  <1>1. Module(block, m) = Given(block, "control", m) /\ m \in Nat
    BY DEF Module, MISSING, START_MODULE, STOP_MODULE
  <1>2. Given(block, "control", m) = <<Write(block, "control", m)>>
    BY <1>1, GivenIsWritten, Zenon
  <1> QED
    BY <1>1, <1>2, Zenon

LEMMA FrSet ==
    ASSUME NEW p \in Sizes, NEW m \in {0, 1}
    PROVE  FrWrites(__fpga_filter_resize_set(p, m), p, m)
  <1>1. Stop("fr", {p.i_width, p.i_height, p.o_width, p.o_height}) = <<Write("fr", "control", STOP_MODULE)>>
    BY DEF Sizes, Stop, MISSING
  <1>2. p.i_width \in Nat /\ p.i_height \in Nat /\ p.o_width \in Nat /\ p.o_height \in Nat
    BY DEF Sizes
  <1>3. STOP_MODULE \in Int /\ m \in Int /\ \A v \in Nat : v \in Int
    BY DEF STOP_MODULE
  <1>4. /\ Write("fr", "control", STOP_MODULE) \in Writes
        /\ Write("fr", "cols_input", p.i_width) \in Writes
        /\ Write("fr", "rows_input", p.i_height) \in Writes
        /\ Write("fr", "cols_output", p.o_width) \in Writes
        /\ Write("fr", "rows_output", p.o_height) \in Writes
        /\ Write("fr", "control", m) \in Writes
    BY <1>2, <1>3, WriteType, Zenon DEF RegNames
  <1>5. /\ Given("fr", "cols_input", p.i_width) = <<Write("fr", "cols_input", p.i_width)>>
        /\ Given("fr", "rows_input", p.i_height) = <<Write("fr", "rows_input", p.i_height)>>
        /\ Given("fr", "cols_output", p.o_width) = <<Write("fr", "cols_output", p.o_width)>>
        /\ Given("fr", "rows_output", p.o_height) = <<Write("fr", "rows_output", p.o_height)>>
        /\ Module("fr", m) = <<Write("fr", "control", m)>>
    BY <1>2, GivenIsWritten, ModuleIsWritten, Zenon
  <1> QED
    BY <1>1, <1>4, <1>5, SixElements, Zenon DEF FrWrites, __fpga_filter_resize_set

LEMMA ConvSet ==
    ASSUME NEW w \in Nat, NEW h \in Nat, NEW fl \in Nat, NEW fh \in Nat, NEW m \in {0, 1}
    PROVE  ConvWrites(__fpga_conv_set(w, h, fl, fh, m),
                      [control |-> m, cols |-> w, rows |-> h, frame_buffer_l |-> fl, frame_buffer_h |-> fh])
  <1>1. Stop("conv", {w, h}) = <<Write("conv", "control", STOP_MODULE)>>
    BY DEF Stop, MISSING
  <1>3. STOP_MODULE \in Int /\ m \in Int /\ \A v \in Nat : v \in Int
    BY DEF STOP_MODULE
  <1>4. /\ Write("conv", "control", STOP_MODULE) \in Writes
        /\ Write("conv", "cols", w) \in Writes
        /\ Write("conv", "rows", h) \in Writes
        /\ Write("conv", "frame_buffer_l", fl) \in Writes
        /\ Write("conv", "frame_buffer_h", fh) \in Writes
        /\ Write("conv", "control", m) \in Writes
    BY <1>3, WriteType, Zenon DEF RegNames
  <1>5. /\ Given("conv", "cols", w) = <<Write("conv", "cols", w)>>
        /\ Given("conv", "rows", h) = <<Write("conv", "rows", h)>>
        /\ Given("conv", "frame_buffer_l", fl) = <<Write("conv", "frame_buffer_l", fl)>>
        /\ Given("conv", "frame_buffer_h", fh) = <<Write("conv", "frame_buffer_h", fh)>>
        /\ Module("conv", m) = <<Write("conv", "control", m)>>
    BY GivenIsWritten, ModuleIsWritten, Zenon
  <1>6. Six(Writes, __fpga_conv_set(w, h, fl, fh, m),
            Write("conv", "control", STOP_MODULE), Write("conv", "cols", w),
            Write("conv", "rows", h), Write("conv", "frame_buffer_l", fl),
            Write("conv", "frame_buffer_h", fh), Write("conv", "control", m))
    BY <1>1, <1>4, <1>5, SixElements, Zenon DEF __fpga_conv_set
  <1> QED
    BY <1>6 DEF ConvWrites
\* The writes of a call to a lane: none, those of the function's block, or
\* those of both blocks.
FrPart(plan, p, m) ==
    /\ plan[1] = Write("fr", "control", STOP_MODULE)
    /\ plan[2] = Write("fr", "cols_input", p.i_width) /\ plan[3] = Write("fr", "rows_input", p.i_height)
    /\ plan[4] = Write("fr", "cols_output", p.o_width) /\ plan[5] = Write("fr", "rows_output", p.o_height)
    /\ plan[6] = Write("fr", "control", m)

ConvPart(plan, c) ==
    /\ plan[7] = Write("conv", "control", STOP_MODULE)
    /\ plan[8] = Write("conv", "cols", c.cols) /\ plan[9] = Write("conv", "rows", c.rows)
    /\ plan[10] = Write("conv", "frame_buffer_l", c.frame_buffer_l)
    /\ plan[11] = Write("conv", "frame_buffer_h", c.frame_buffer_h)
    /\ plan[12] = Write("conv", "control", c.control)

Shape(plan, p, m, c) ==
    /\ plan \in Seq(Writes)
    /\ p \in Sizes /\ m \in {0, 1} /\ c \in ConvRegs
    /\ \/ Len(plan) = 0
       \/ Len(plan) = 6 /\ FrPart(plan, p, m)
       \/ Len(plan) = 12 /\ FrPart(plan, p, m) /\ ConvPart(plan, c)

\* What the adapter of a lane may run with.
Fits(lane, c, S) ==
    \E p \in S : /\ c.cols = p.i_width /\ c.rows = p.i_height
                 /\ c.frame_buffer_l = FRAME_BUFFER_L /\ c.frame_buffer_h = FRAME_BUFFER_H(lane)

\* A plan starts a block only with parameters in S.
Starts(lane, p, m, c, S) ==
    /\ m = START_MODULE => p \in S
    /\ c.control = START_MODULE => Fits(lane, c, S)

LEMMA NoWrites == \A lane, S : \E p, m, c : Shape(<<>>, p, m, c) /\ Starts(lane, p, m, c, S)
  <1>1. Shape(<<>>, NoSize, 0, [control |-> 0, cols |-> 0, rows |-> 0, frame_buffer_l |-> 0, frame_buffer_h |-> 0])
    BY DEF Shape, NoSize, Sizes, ConvRegs
  <1>2. \A lane, S : Starts(lane, NoSize, 0, [control |-> 0, cols |-> 0, rows |-> 0,
                                             frame_buffer_l |-> 0, frame_buffer_h |-> 0], S)
    BY DEF Starts, START_MODULE
  <1> QED
    BY <1>1, <1>2, Zenon

LEMMA FrAlone ==
    ASSUME NEW p \in Sizes, NEW m \in {0, 1}, NEW c \in ConvRegs, NEW f, FrWrites(f, p, m)
    PROVE  Shape(f \o <<>>, p, m, c)
  <1>1. f \o <<>> = f
    BY ConcatEmptySeq DEF FrWrites, Six
  <1> QED
    BY <1>1 DEF FrWrites, Six, Shape, FrPart

LEMMA FrAndConv ==
    ASSUME NEW p \in Sizes, NEW m \in {0, 1}, NEW c \in ConvRegs,
           NEW f, FrWrites(f, p, m), NEW g, ConvWrites(g, c)
    PROVE  Shape(f \o g, p, m, c)
  <1>1. f \in Seq(Writes) /\ g \in Seq(Writes) /\ Len(f) = 6 /\ Len(g) = 6
    BY DEF FrWrites, ConvWrites, Six
  <1>2. PICK plan : plan = f \o g
    OBVIOUS
  <1>3. /\ plan \in Seq(Writes) /\ Len(plan) = 12
        /\ \A i \in 1 .. 12 : plan[i] = IF i <= 6 THEN f[i] ELSE g[i - 6]
    <2>1. /\ plan \in Seq(Writes) /\ Len(plan) = Len(f) + Len(g)
          /\ \A i \in 1 .. Len(f) + Len(g) : plan[i] = IF i <= Len(f) THEN f[i] ELSE g[i - Len(f)]
      BY <1>1, <1>2, ConcatProperties, Zenon
    <2> QED
      BY <1>1, <2>1
  <1>4. FrPart(plan, p, m)
    BY <1>3 DEF FrPart, FrWrites, Six
  <1>5. ConvPart(plan, c)
    BY <1>3 DEF ConvPart, ConvWrites, Six
  <1>6. Shape(plan, p, m, c)
    BY <1>3, <1>4, <1>5 DEF Shape
  <1> QED
    BY <1>2, <1>6, Zenon

LEMMA FrameBuffers ==
    ASSUME NEW lane \in Lanes
    PROVE  FRAME_BUFFER_L \in Nat /\ FRAME_BUFFER_H(lane) \in Nat
  BY FnAssumption DEF Lanes, FRAME_BUFFER_L, FRAME_BUFFER_H

\* fpga_filter_resize_set writes what it has been asked for, or nothing.
LEMMA SetShape ==
    ASSUME NEW lane \in Lanes, NEW p \in Params, NEW S,
           NEW r, r = fpga_filter_resize_set(lane, p), r.writes # <<>> => p \in S
    PROVE  \E q, m, c : Shape(r.writes, q, m, c) /\ Starts(lane, q, m, c, S)
  <1>1. CASE r = Refuse
    BY <1>1, NoWrites DEF Refuse
  <1>2. CASE r # Refuse
    <2> DEFINE sizes == {p.i_width, p.i_height, p.o_width, p.o_height}
               m == IF sizes = {0} THEN 0 ELSE 1
               f == __fpga_filter_resize_set(p, m)
               conv == fpga_conv_set(lane, p)
               cm == IF p.i_width = 0 /\ p.i_height = 0 THEN 0 ELSE 1
               c == [control |-> cm, cols |-> p.i_width, rows |-> p.i_height,
                     frame_buffer_l |-> FRAME_BUFFER_L, frame_buffer_h |-> FRAME_BUFFER_H(lane)]
    <2>1. r = Both(f, conv) /\ MISSING \notin sizes
      BY <1>2 DEF fpga_filter_resize_set
    <2>2. p \in Sizes
      <3>1. /\ p \in [i_width : Nat \cup {MISSING}, i_height : Nat \cup {MISSING},
                      o_width : Nat \cup {MISSING}, o_height : Nat \cup {MISSING}]
            /\ p.i_width # MISSING /\ p.i_height # MISSING /\ p.o_width # MISSING /\ p.o_height # MISSING
        BY <2>1, ParamsAssumption
      <3> HIDE DEF sizes
      <3> QED
        BY <3>1 DEF Sizes
    <2>3. m \in {0, 1} /\ cm \in {0, 1}
      OBVIOUS
    <2>4. FrWrites(f, p, m)
      BY <2>2, <2>3, FrSet, Zenon
    <2>5. c \in ConvRegs
      BY <2>2, FrameBuffers DEF ConvRegs, Sizes
    <2>6. r.writes = f \o conv.writes
      <3> HIDE DEF f, conv
      <3> QED
        BY <2>1 DEF Both
    <2>7. conv.writes = <<>> \/ ConvWrites(conv.writes, c)
      <3>1. CASE conv = Refuse
        BY <3>1 DEF Refuse
      <3>2. CASE conv # Refuse
        <4>1. conv = Accept(__fpga_conv_set(p.i_width, p.i_height, FRAME_BUFFER_L, FRAME_BUFFER_H(lane), cm))
          BY <3>2 DEF fpga_conv_set
        <4>2. conv.writes = __fpga_conv_set(p.i_width, p.i_height, FRAME_BUFFER_L, FRAME_BUFFER_H(lane), cm)
          BY <4>1 DEF Accept
        <4>3. p.i_width \in Nat /\ p.i_height \in Nat
          BY <2>2 DEF Sizes
        <4>4. PICK low, high : low = FRAME_BUFFER_L /\ high = FRAME_BUFFER_H(lane)
          OBVIOUS
        <4>5. low \in Nat /\ high \in Nat
          BY <4>4, FrameBuffers
        <4>6. ConvWrites(__fpga_conv_set(p.i_width, p.i_height, low, high, cm),
                         [control |-> cm, cols |-> p.i_width, rows |-> p.i_height,
                          frame_buffer_l |-> low, frame_buffer_h |-> high])
          <5> HIDE DEF cm
          <5> QED
            BY <2>3, <4>3, <4>5, ConvSet
        <4> QED
          BY <4>2, <4>4, <4>6
      <3> QED
        BY <3>1, <3>2
    <2>8. Shape(r.writes, p, m, c)
      <3> HIDE DEF m, f, conv, c
      <3> QED
        BY <2>2, <2>3, <2>4, <2>5, <2>6, <2>7, FrAlone, FrAndConv, Zenon
    <2>9. p \in S
      <3>1. r.writes # <<>>
        <4> HIDE DEF f, conv, m, c
        <4>1. f \in Seq(Writes) /\ Len(f) = 6
          BY <2>4 DEF FrWrites, Six
        <4>2. conv.writes \in Seq(Writes)
          <5>1. <<>> \in Seq(Writes)
            OBVIOUS
          <5>2. ConvWrites(conv.writes, c) => conv.writes \in Seq(Writes)
            BY Zenon DEF ConvWrites, Six
          <5> QED
            BY <2>7, <5>1, <5>2, Zenon
        <4>3. Len(f \o conv.writes) = Len(f) + Len(conv.writes) /\ Len(conv.writes) \in Nat
          BY <4>1, <4>2, ConcatProperties, LenProperties, Zenon
        <4>4. Len(r.writes) # 0
          BY <2>6, <4>1, <4>3
        <4> QED
          BY <4>4
      <3> QED
        BY <3>1
    <2>10. Starts(lane, p, m, c, S)
      <3>1. c.cols = p.i_width /\ c.rows = p.i_height
            /\ c.frame_buffer_l = FRAME_BUFFER_L /\ c.frame_buffer_h = FRAME_BUFFER_H(lane)
        OBVIOUS
      <3> HIDE DEF m, c
      <3> QED
        BY <2>9, <3>1 DEF Starts, Fits
    <2> QED
      BY <2>8, <2>10, Zenon
  <1> QED
    BY <1>1, <1>2

\* fpga_filter_resize_finish starts nothing.
LEMMA FinishShape ==
    ASSUME NEW lane \in Lanes, NEW S, NEW r, r = fpga_filter_resize_finish(lane)
    PROVE  \E q, m, c : Shape(r.writes, q, m, c) /\ Starts(lane, q, m, c, S)
  <1>1. CASE r = Refuse
    BY <1>1, NoWrites DEF Refuse
  <1>2. CASE r # Refuse
    <2> DEFINE f == __fpga_filter_resize_set(NoSize, 0)
               conv == fpga_conv_finish(lane)
               c == [control |-> 0, cols |-> 0, rows |-> 0, frame_buffer_l |-> 0, frame_buffer_h |-> 0]
    <2>1. r = Both(f, conv)
      BY <1>2 DEF fpga_filter_resize_finish
    <2>2. NoSize \in Sizes /\ c \in ConvRegs
      BY DEF NoSize, Sizes, ConvRegs
    <2>3. FrWrites(f, NoSize, 0)
      BY <2>2, FrSet
    <2>4. r.writes = f \o conv.writes
      <3> HIDE DEF f, conv
      <3> QED
        BY <2>1 DEF Both
    <2>5. conv.writes = <<>> \/ ConvWrites(conv.writes, c)
      <3>1. conv = Refuse \/ conv = Accept(__fpga_conv_set(0, 0, 0, 0, 0))
        BY DEF fpga_conv_finish
      <3>2. conv.writes = <<>> \/ conv.writes = __fpga_conv_set(0, 0, 0, 0, 0)
        BY <3>1 DEF Refuse, Accept
      <3> QED
        BY <3>2, ConvSet
    <2>6. Shape(r.writes, NoSize, 0, c)
      <3> HIDE DEF f, conv, c
      <3> QED
        BY <2>2, <2>3, <2>4, <2>5, FrAlone, FrAndConv
    <2>7. Starts(lane, NoSize, 0, c, S)
      BY DEF Starts, START_MODULE
    <2> QED
      BY <2>6, <2>7, Zenon
  <1> QED
    BY <1>1, <1>2
(***************************************************************************)
(* The registers while a plan is carried out: n of its writes are over,    *)
(* done or given up.  A block is stopped while its parameters change, and  *)
(* holds the ones that have been written.                                  *)
(***************************************************************************)
FrProgress(r, p, n) ==
    /\ n \in 1 .. 5 => r.control = STOP_MODULE
    /\ n \in 2 .. 5 => r.cols_input = p.i_width
    /\ n \in 3 .. 5 => r.rows_input = p.i_height
    /\ n \in 4 .. 5 => r.cols_output = p.o_width
    /\ n = 5 => r.rows_output = p.o_height

ConvProgress(r, c, n) ==
    /\ n \in 7 .. 11 => r.control = STOP_MODULE
    /\ n \in 8 .. 11 => r.cols = c.cols
    /\ n \in 9 .. 11 => r.rows = c.rows
    /\ n \in 10 .. 11 => r.frame_buffer_l = c.frame_buffer_l
    /\ n = 11 => r.frame_buffer_h = c.frame_buffer_h

\* NeverRunsMixed, for the registers of one block.
FrRuns(r, S) ==
    r.control = START_MODULE =>
        [i_width |-> r.cols_input, i_height |-> r.rows_input,
         o_width |-> r.cols_output, o_height |-> r.rows_output] \in S

ConvRuns(lane, r, S) == r.control = START_MODULE => Fits(lane, r, S)

LaneRuns(lane, r, S) == FrRuns(r.fr, S) /\ ConvRuns(lane, r.conv, S)

InPlan(lane, plan, p, m, c, n) ==
    /\ Shape(plan, p, m, c)
    /\ Starts(lane, p, m, c, asked[lane])
    /\ n \in 0 .. Len(plan)
    /\ todo = SubSeq(plan, n + 1, Len(plan))
    /\ FrProgress(regs[lane].fr, p, n)
    /\ ConvProgress(regs[lane].conv, c, n)

WritesInv ==
    /\ regs \in [Lanes -> BlockRegs]
    /\ asked \in [Lanes -> SUBSET Params]
    /\ \A lane \in Lanes : LaneRuns(lane, regs[lane], asked[lane])
    /\ status = "call" => \E plan, p, m, c, n : InPlan(call.lane, plan, p, m, c, n)

\* A write to the function's block, as the nth of the plan.
LEMMA FrWrite ==
    ASSUME NEW r \in FrRegs, NEW plan, NEW p \in Sizes, NEW m \in {0, 1}, NEW S,
           NEW n \in 0 .. 5, FrPart(plan, p, m), FrProgress(r, p, n), FrRuns(r, S),
           m = START_MODULE => p \in S,
           NEW q, q = [r EXCEPT ![plan[n + 1].reg] = plan[n + 1].val]
    PROVE  /\ plan[n + 1].block = "fr"
           /\ q \in FrRegs /\ FrProgress(q, p, n + 1) /\ FrRuns(q, S)
  <1> USE DEF FrPart, FrProgress, FrRuns, FrRegs, Sizes, STOP_MODULE, START_MODULE
  <1>1. CASE n = 0
    <2>1. plan[n + 1].block = "fr" /\ plan[n + 1].reg = "control" /\ plan[n + 1].val = 0
      BY <1>1 DEF Write
    <2>2. q = [r EXCEPT !.control = 0]
      BY <2>1
    <2> QED
      BY <1>1, <2>1, <2>2
  <1>2. CASE n = 1
    <2>1. plan[n + 1].block = "fr" /\ plan[n + 1].reg = "cols_input" /\ plan[n + 1].val = p.i_width
      BY <1>2 DEF Write
    <2>2. q = [r EXCEPT !.cols_input = p.i_width]
      BY <2>1
    <2> QED
      BY <1>2, <2>1, <2>2
  <1>3. CASE n = 2
    <2>1. plan[n + 1].block = "fr" /\ plan[n + 1].reg = "rows_input" /\ plan[n + 1].val = p.i_height
      BY <1>3 DEF Write
    <2>2. q = [r EXCEPT !.rows_input = p.i_height]
      BY <2>1
    <2> QED
      BY <1>3, <2>1, <2>2
  <1>4. CASE n = 3
    <2>1. plan[n + 1].block = "fr" /\ plan[n + 1].reg = "cols_output" /\ plan[n + 1].val = p.o_width
      BY <1>4 DEF Write
    <2>2. q = [r EXCEPT !.cols_output = p.o_width]
      BY <2>1
    <2> QED
      BY <1>4, <2>1, <2>2
  <1>5. CASE n = 4
    <2>1. plan[n + 1].block = "fr" /\ plan[n + 1].reg = "rows_output" /\ plan[n + 1].val = p.o_height
      BY <1>5 DEF Write
    <2>2. q = [r EXCEPT !.rows_output = p.o_height]
      BY <2>1
    <2> QED
      BY <1>5, <2>1, <2>2
  <1>6. CASE n = 5
    <2>1. plan[n + 1].block = "fr" /\ plan[n + 1].reg = "control" /\ plan[n + 1].val = m
      BY <1>6 DEF Write
    <2>2. q = [r EXCEPT !.control = m]
      BY <2>1
    <2>3. p = [i_width |-> r.cols_input, i_height |-> r.rows_input,
               o_width |-> r.cols_output, o_height |-> r.rows_output]
      BY <1>6
    <2> QED
      BY <1>6, <2>1, <2>2, <2>3
  <1> QED
    BY <1>1, <1>2, <1>3, <1>4, <1>5, <1>6

\* A write to the adapter's block.
LEMMA ConvWrite ==
    ASSUME NEW r \in ConvRegs, NEW plan, NEW c \in ConvRegs, NEW lane, NEW S,
           NEW n \in 6 .. 11, ConvPart(plan, c), ConvProgress(r, c, n), ConvRuns(lane, r, S),
           c.control = START_MODULE => Fits(lane, c, S),
           NEW q, q = [r EXCEPT ![plan[n + 1].reg] = plan[n + 1].val]
    PROVE  /\ plan[n + 1].block = "conv"
           /\ q \in ConvRegs /\ ConvProgress(q, c, n + 1) /\ ConvRuns(lane, q, S)
  <1> USE DEF ConvPart, ConvProgress, ConvRuns, ConvRegs, STOP_MODULE, START_MODULE
  <1>1. CASE n = 6
    <2>1. plan[n + 1].block = "conv" /\ plan[n + 1].reg = "control" /\ plan[n + 1].val = 0
      BY <1>1 DEF Write
    <2>2. q = [r EXCEPT !.control = 0]
      BY <2>1
    <2> QED
      BY <1>1, <2>1, <2>2
  <1>2. CASE n = 7
    <2>1. plan[n + 1].block = "conv" /\ plan[n + 1].reg = "cols" /\ plan[n + 1].val = c.cols
      BY <1>2 DEF Write
    <2>2. q = [r EXCEPT !.cols = c.cols]
      BY <2>1
    <2> QED
      BY <1>2, <2>1, <2>2
  <1>3. CASE n = 8
    <2>1. plan[n + 1].block = "conv" /\ plan[n + 1].reg = "rows" /\ plan[n + 1].val = c.rows
      BY <1>3 DEF Write
    <2>2. q = [r EXCEPT !.rows = c.rows]
      BY <2>1
    <2> QED
      BY <1>3, <2>1, <2>2
  <1>4. CASE n = 9
    <2>1. plan[n + 1].block = "conv" /\ plan[n + 1].reg = "frame_buffer_l" /\ plan[n + 1].val = c.frame_buffer_l
      BY <1>4 DEF Write
    <2>2. q = [r EXCEPT !.frame_buffer_l = c.frame_buffer_l]
      BY <2>1
    <2> QED
      BY <1>4, <2>1, <2>2
  <1>5. CASE n = 10
    <2>1. plan[n + 1].block = "conv" /\ plan[n + 1].reg = "frame_buffer_h" /\ plan[n + 1].val = c.frame_buffer_h
      BY <1>5 DEF Write
    <2>2. q = [r EXCEPT !.frame_buffer_h = c.frame_buffer_h]
      BY <2>1
    <2> QED
      BY <1>5, <2>1, <2>2
  <1>6. CASE n = 11
    <2>1. plan[n + 1].block = "conv" /\ plan[n + 1].reg = "control" /\ plan[n + 1].val = c.control
      BY <1>6 DEF Write
    <2>2. q = [r EXCEPT !.control = c.control]
      BY <2>1
    <2>3. Fits(lane, c, S) => Fits(lane, q, S)
      BY <1>6, <2>2 DEF Fits
    <2> QED
      BY <1>6, <2>1, <2>2, <2>3
  <1> QED
    BY <1>1, <1>2, <1>3, <1>4, <1>5, <1>6
\* A plan that has writes left, and the next of them.
LEMMA NextWrite ==
    ASSUME NEW plan \in Seq(Writes), NEW n \in 0 .. Len(plan), NEW rest,
           rest = SubSeq(plan, n + 1, Len(plan)), rest # <<>>
    PROVE  /\ n < Len(plan) /\ Len(plan) \in Nat
           /\ Head(rest) = plan[n + 1]
           /\ Tail(rest) = SubSeq(plan, n + 2, Len(plan))
           /\ Len(rest) = Len(plan) - n
           /\ \A i \in 1 .. Len(plan) - n : rest[i] = plan[n + i]
  <1>0. Len(plan) \in Nat
    BY LenProperties
  <1>1. n < Len(plan)
    <2>1. n = Len(plan) => rest = <<>>
      BY <1>0, SubSeqEmpty
    <2> QED
      BY <1>0, <2>1
  <1>2. n + 1 \in 1 .. Len(plan) /\ Len(plan) \in (n + 1) .. Len(plan) /\ (n + 1) + 1 = n + 2
    BY <1>0, <1>1
  <1>3. Head(rest) = plan[n + 1] /\ Tail(rest) = SubSeq(plan, (n + 1) + 1, Len(plan))
    BY <1>2, HeadTailOfSubSeq, Zenon
  <1>4. \A i \in n + 1 .. Len(plan) : plan[i] \in Writes
    BY <1>0, ElementOfSeq
  <1>5. n + 1 \in Int /\ Len(plan) \in Int
    BY <1>0
  <1>6. /\ Len(rest) = IF n + 1 <= Len(plan) THEN Len(plan) - (n + 1) + 1 ELSE 0
        /\ \A i \in 1 .. Len(plan) - (n + 1) + 1 : rest[i] = plan[(n + 1) + i - 1]
    <2>1. /\ Len(SubSeq(plan, n + 1, Len(plan))) = IF n + 1 <= Len(plan) THEN Len(plan) - (n + 1) + 1 ELSE 0
          /\ \A i \in 1 .. Len(plan) - (n + 1) + 1 : SubSeq(plan, n + 1, Len(plan))[i] = plan[(n + 1) + i - 1]
      BY <1>4, <1>5, SubSeqProperties
    <2> QED
      BY <2>1, Zenon
  <1>7. Len(rest) = Len(plan) - n /\ \A i \in 1 .. Len(plan) - n : rest[i] = plan[n + i]
    BY <1>0, <1>1, <1>6
  <1> QED
    BY <1>0, <1>1, <1>2, <1>3, <1>7

\* The write w leaves the block it goes to with the registers q.
Wrote(lane, w, q) ==
    /\ regs' = [regs EXCEPT ![lane][w.block][w.reg] = w.val]
    /\ q = [regs[lane][w.block] EXCEPT ![w.reg] = w.val]

\* The registers of the other lanes and of the other block are left alone.
LEMMA RegsWrite ==
    ASSUME regs \in [Lanes -> BlockRegs], NEW lane \in Lanes, NEW w, NEW q, Wrote(lane, w, q)
    PROVE  /\ \A other \in Lanes \ {lane} : regs'[other] = regs[other]
           /\ w.block = "fr" /\ q \in FrRegs
                 =>  /\ regs' \in [Lanes -> BlockRegs]
                     /\ regs'[lane].fr = q /\ regs'[lane].conv = regs[lane].conv
           /\ w.block = "conv" /\ q \in ConvRegs
                 =>  /\ regs' \in [Lanes -> BlockRegs]
                     /\ regs'[lane].conv = q /\ regs'[lane].fr = regs[lane].fr
  <1>1. regs' = [regs EXCEPT ![lane] = [regs[lane] EXCEPT ![w.block] = [regs[lane][w.block] EXCEPT ![w.reg] = w.val]]]
         /\ q = [regs[lane][w.block] EXCEPT ![w.reg] = w.val]
    BY DEF Wrote
  <1>2. regs[lane] \in BlockRegs
    OBVIOUS
  <1>3. ASSUME w.block = "fr", q \in FrRegs
        PROVE  /\ regs' \in [Lanes -> BlockRegs]
               /\ regs'[lane].fr = q /\ regs'[lane].conv = regs[lane].conv
    <2>2. regs' = [regs EXCEPT ![lane] = [regs[lane] EXCEPT !.fr = q]]
      BY <1>1, <1>3
    <2>3. [regs[lane] EXCEPT !.fr = q] = [fr |-> q, conv |-> regs[lane].conv]
      BY <1>2 DEF BlockRegs
    <2>4. [fr |-> q, conv |-> regs[lane].conv] \in BlockRegs
      BY <1>2, <1>3 DEF BlockRegs
    <2>5. PICK b : b = [fr |-> q, conv |-> regs[lane].conv]
      OBVIOUS
    <2>6. b \in BlockRegs /\ b.fr = q /\ b.conv = regs[lane].conv
      BY <2>4, <2>5
    <2>7. regs' = [regs EXCEPT ![lane] = b]
      BY <2>2, <2>3, <2>5
    <2>8. regs' \in [Lanes -> BlockRegs] /\ regs'[lane] = b
      BY <2>6, <2>7
    <2> QED
      BY <2>6, <2>8
  <1>4. ASSUME w.block = "conv", q \in ConvRegs
        PROVE  /\ regs' \in [Lanes -> BlockRegs]
               /\ regs'[lane].conv = q /\ regs'[lane].fr = regs[lane].fr
    <2>2. regs' = [regs EXCEPT ![lane] = [regs[lane] EXCEPT !.conv = q]]
      BY <1>1, <1>4
    <2>3. [regs[lane] EXCEPT !.conv = q] = [fr |-> regs[lane].fr, conv |-> q]
      BY <1>2 DEF BlockRegs
    <2>4. [fr |-> regs[lane].fr, conv |-> q] \in BlockRegs
      BY <1>2, <1>4 DEF BlockRegs
    <2>5. PICK b : b = [fr |-> regs[lane].fr, conv |-> q]
      OBVIOUS
    <2>6. b \in BlockRegs /\ b.conv = q /\ b.fr = regs[lane].fr
      BY <2>4, <2>5
    <2>7. regs' = [regs EXCEPT ![lane] = b]
      BY <2>2, <2>3, <2>5
    <2>8. regs' \in [Lanes -> BlockRegs] /\ regs'[lane] = b
      BY <2>6, <2>7
    <2> QED
      BY <2>6, <2>8
  <1> QED
    BY <1>1, <1>3, <1>4

\* A write of a plan goes to the filter or to the adapter.
LEMMA Halves ==
    ASSUME NEW n \in Nat, NEW size, n < size, size = 0 \/ size = 6 \/ size = 12
    PROVE  n \in 0 .. 5 \/ n \in 6 .. 11
  OBVIOUS

\* A pwrite() that succeeds.
LEMMA PwriteOKStep ==
    ASSUME TableInv, WritesInv, PwriteOK
    PROVE  WritesInv'
  <1>0. PICK lane \in Lanes : /\ lane = call.lane /\ lane = call'.lane
                             /\ UNCHANGED <<asked, call, status>> /\ status = "call" /\ todo # <<>>
    BY DEF TableInv, PwriteOK
  <1>1. PICK plan, p, m, c, n : InPlan(lane, plan, p, m, c, n)
    BY <1>0, Zenon DEF WritesInv
  <1>2. Shape(plan, p, m, c) /\ plan \in Seq(Writes) /\ n \in 0 .. Len(plan)
    BY <1>1, Zenon DEF InPlan, Shape
  <1>3. /\ n < Len(plan) /\ Len(plan) \in Nat
        /\ Head(todo) = plan[n + 1]
        /\ Tail(todo) = SubSeq(plan, n + 2, Len(plan))
    <2>1. todo = SubSeq(plan, n + 1, Len(plan))
      BY <1>1 DEF InPlan
    <2> QED
      BY <1>0, <1>2, <2>1, NextWrite
  <1>4. PICK w : w = plan[n + 1] /\ regs' = [regs EXCEPT ![lane][w.block][w.reg] = w.val]
    BY <1>0, <1>3 DEF PwriteOK
  <1>5. /\ regs \in [Lanes -> BlockRegs] /\ regs[lane].fr \in FrRegs /\ regs[lane].conv \in ConvRegs
        /\ LaneRuns(lane, regs[lane], asked[lane])
    BY <1>0 DEF WritesInv, BlockRegs
  <1>10. /\ FrProgress(regs[lane].fr, p, n) /\ FrRuns(regs[lane].fr, asked[lane])
         /\ ConvProgress(regs[lane].conv, c, n) /\ ConvRuns(lane, regs[lane].conv, asked[lane])
         /\ m = START_MODULE => p \in asked[lane]
         /\ c.control = START_MODULE => Fits(lane, c, asked[lane])
    BY <1>1, <1>5 DEF InPlan, Starts, LaneRuns
  <1>6. /\ regs' \in [Lanes -> BlockRegs]
        /\ LaneRuns(lane, regs'[lane], asked[lane])
        /\ FrProgress(regs'[lane].fr, p, n + 1)
        /\ ConvProgress(regs'[lane].conv, c, n + 1)
    <2>1. CASE n \in 0 .. 5
      <3>1. FrPart(plan, p, m) /\ p \in Sizes /\ m \in {0, 1}
        BY <1>2, <1>3 DEF Shape
      <3>2. PICK q : q = [regs[lane].fr EXCEPT ![plan[n + 1].reg] = plan[n + 1].val]
        OBVIOUS
      <3>3. w.block = "fr" /\ q \in FrRegs /\ FrProgress(q, p, n + 1) /\ FrRuns(q, asked[lane])
        BY <1>4, <1>5, <1>10, <2>1, <3>1, <3>2, FrWrite
      <3>4. /\ regs' \in [Lanes -> BlockRegs]
            /\ regs'[lane].fr = q /\ regs'[lane].conv = regs[lane].conv
        <4>1. Wrote(lane, w, q)
          BY <1>4, <3>2, <3>3 DEF Wrote
        <4> QED
          BY <1>5, <3>3, <4>1, RegsWrite
      <3>5. ConvProgress(regs[lane].conv, c, n + 1)
        BY <2>1 DEF ConvProgress
      <3> QED
        BY <1>5, <3>3, <3>4, <3>5 DEF LaneRuns
    <2>2. CASE n \in 6 .. 11
      <3>1. ConvPart(plan, c) /\ c \in ConvRegs
        BY <1>2, <1>3, <2>2 DEF Shape
      <3>2. PICK q : q = [regs[lane].conv EXCEPT ![plan[n + 1].reg] = plan[n + 1].val]
        OBVIOUS
      <3>3. w.block = "conv" /\ q \in ConvRegs /\ ConvProgress(q, c, n + 1) /\ ConvRuns(lane, q, asked[lane])
        BY <1>4, <1>5, <1>10, <2>2, <3>1, <3>2, ConvWrite
      <3>4. /\ regs' \in [Lanes -> BlockRegs]
            /\ regs'[lane].conv = q /\ regs'[lane].fr = regs[lane].fr
        <4>1. Wrote(lane, w, q)
          BY <1>4, <3>2, <3>3 DEF Wrote
        <4> QED
          BY <1>5, <3>3, <4>1, RegsWrite
      <3>5. FrProgress(regs[lane].fr, p, n + 1)
        BY <2>2 DEF FrProgress
      <3> QED
        BY <1>5, <3>3, <3>4, <3>5 DEF LaneRuns
    <2>3. n \in 0 .. 5 \/ n \in 6 .. 11
      <3>1. PICK size : size = Len(plan)
        OBVIOUS
      <3>2. size = 0 \/ size = 6 \/ size = 12
        BY <1>2, <3>1 DEF Shape
      <3>3. n \in Nat /\ n < size
        BY <1>2, <1>3, <3>1
      <3> QED
        BY <3>2, <3>3, Halves
    <2> QED
      BY <2>1, <2>2, <2>3
  <1>7. \A other \in Lanes : LaneRuns(other, regs'[other], asked[other])
    <2>1. PICK q : q = [regs[lane][w.block] EXCEPT ![w.reg] = w.val]
      OBVIOUS
    <2>2. \A other \in Lanes \ {lane} : regs'[other] = regs[other]
      BY <1>4, <1>5, <2>1, RegsWrite DEF Wrote
    <2> QED
      BY <1>0, <1>6, <2>2 DEF WritesInv
  <1>8. n + 1 \in 0 .. Len(plan) /\ todo' = SubSeq(plan, (n + 1) + 1, Len(plan))
    <2>1. todo' = Tail(todo) /\ (n + 1) + 1 = n + 2
      BY <1>2, <1>3 DEF PwriteOK
    <2> QED
      BY <1>2, <1>3, <2>1
  <1>9. InPlan(lane, plan, p, m, c, n + 1)'
    BY <1>0, <1>1, <1>6, <1>8 DEF InPlan
  <1> QED
    BY <1>0, <1>6, <1>7, <1>9 DEF WritesInv
\* A pwrite() that is refused: the rest of its block is given up.
LEMMA PwriteFailsStep ==
    ASSUME TableInv, WritesInv, PwriteFails
    PROVE  WritesInv'
  <1>0. PICK lane \in Lanes : /\ lane = call.lane /\ lane = call'.lane
                             /\ UNCHANGED <<asked, regs, status>> /\ status = "call" /\ todo # <<>>
    BY DEF TableInv, PwriteFails
  <1>1. PICK plan, p, m, c, n : InPlan(lane, plan, p, m, c, n)
    BY <1>0, Zenon DEF WritesInv
  <1>2. Shape(plan, p, m, c) /\ plan \in Seq(Writes) /\ n \in 0 .. Len(plan)
    BY <1>1, Zenon DEF InPlan, Shape
  <1>3. todo = SubSeq(plan, n + 1, Len(plan))
    BY <1>1 DEF InPlan
  <1>4. /\ n < Len(plan) /\ Len(plan) \in Nat
        /\ Head(todo) = plan[n + 1]
        /\ Len(todo) = Len(plan) - n
        /\ \A i \in 1 .. Len(plan) - n : todo[i] = plan[n + i]
    BY <1>0, <1>2, <1>3, NextWrite
  <1>5. /\ Len(plan) \in {6, 12}
        /\ \A i \in 1 .. Len(plan) : plan[i].block = IF i <= 6 THEN "fr" ELSE "conv"
    <2>1. \A i \in 1 .. 6 : plan[i].block = "fr"
      BY <1>2, <1>4, SMTT(30) DEF Shape, FrPart, Write
    <2>2. Len(plan) = 12 => \A i \in 7 .. 12 : plan[i].block = "conv"
      BY <1>2 DEF Shape, ConvPart, Write
    <2>3. Len(plan) \in {6, 12}
      BY <1>2, <1>4 DEF Shape
    <2>4. \A i \in 1 .. Len(plan) : plan[i].block = IF i <= 6 THEN "fr" ELSE "conv"
      <3>1. CASE Len(plan) = 6
        BY <2>1, <3>1
      <3>2. CASE Len(plan) = 12
        BY <2>1, <2>2, <3>2
      <3> QED
        BY <2>3, <3>1, <3>2
    <2> QED
      BY <2>3, <2>4
  <1> DEFINE other == {i \in 1 .. Len(todo) : todo[i].block # Head(todo).block}
  <1>6. todo' = IF other = {} THEN <<>> ELSE SubSeq(todo, First(other), Len(todo))
    BY DEF PwriteFails
  <1>7. other = {i \in 1 .. Len(plan) - n : IF n < 6 THEN n + i > 6 ELSE n + i <= 6}
    <2>1. Head(todo).block = IF n < 6 THEN "fr" ELSE "conv"
      BY <1>2, <1>4, <1>5
    <2>2. \A i \in 1 .. Len(plan) - n : todo[i].block = IF n + i <= 6 THEN "fr" ELSE "conv"
      BY <1>2, <1>4, <1>5
    <2>3. other = {i \in 1 .. Len(plan) - n : todo[i].block # Head(todo).block}
      BY <1>4
    <2> HIDE DEF other
    <2> QED
      BY <1>2, <2>1, <2>2, <2>3
  <1> HIDE DEF other
  <1>8. \E k \in {6, 12} : k <= Len(plan) /\ todo' = SubSeq(plan, k + 1, Len(plan))
    <2>1. CASE n < 6 /\ Len(plan) = 12
      <3>1. other = (7 - n) .. (12 - n) /\ n \in 0 .. 5
        BY <1>2, <1>7, <2>1
      <3>2. 7 - n \in other /\ \A i \in other : 7 - n <= i
        BY <3>1
      <3>3. First(other) = 7 - n
        <4>1. other \in SUBSET Nat /\ other # {}
          BY <3>1
        <4>2. First(other) \in other /\ \A i \in other : First(other) <= i
          BY <4>1, FirstIsLeast
        <4> QED
          BY <3>1, <3>2, <4>1, <4>2
      <3>4. todo' = SubSeq(todo, 7 - n, 12 - n)
        BY <1>4, <1>6, <2>1, <3>2, <3>3
      <3>5. /\ n + 1 \in 1 .. Len(plan) /\ Len(plan) \in 1 .. Len(plan)
            /\ 7 - n \in 1 .. Len(plan) - (n + 1) + 1 /\ 12 - n \in 1 .. Len(plan) - (n + 1) + 1
            /\ (n + 1) + (7 - n) - 1 = 7 /\ (n + 1) + (12 - n) - 1 = 12
        BY <2>1, <3>1
      <3>6. SubSeq(SubSeq(plan, n + 1, Len(plan)), 7 - n, 12 - n)
              = SubSeq(plan, (n + 1) + (7 - n) - 1, (n + 1) + (12 - n) - 1)
        BY <1>2, <3>5, SubSeqOfSubSeq
      <3>7. todo' = SubSeq(plan, 7, 12)
        BY <1>3, <3>4, <3>5, <3>6, Zenon
      <3> QED
        BY <2>1, <3>7
    <2>2. CASE n >= 6 \/ Len(plan) = 6
      <3>1. other = {}
        <4>1. Len(plan) - n \in Int /\ n \in Int
          BY <1>2, <1>4
        <4>2. \A i \in 1 .. Len(plan) - n : ~(IF n < 6 THEN n + i > 6 ELSE n + i <= 6)
          <5>1. CASE Len(plan) = 6
            BY <1>2, <4>1, <5>1
          <5>2. CASE n >= 6
            BY <4>1, <5>2
          <5> QED
            BY <2>2, <5>1, <5>2
        <4> QED
          BY <1>7, <4>2
      <3>2. todo' = <<>>
        BY <1>6, <3>1
      <3>3. SubSeq(plan, Len(plan) + 1, Len(plan)) = <<>>
        BY <1>4, SubSeqEmpty
      <3> QED
        <4>1. Len(plan) \in {6, 12} /\ Len(plan) <= Len(plan)
          BY <1>4, <1>5
        <4>2. todo' = SubSeq(plan, Len(plan) + 1, Len(plan))
          BY <3>2, <3>3, Zenon
        <4> QED
          BY <4>1, <4>2, Zenon
    <2> QED
      BY <1>2, <1>5, <2>1, <2>2
  <1>9. PICK k \in {6, 12} : k <= Len(plan) /\ todo' = SubSeq(plan, k + 1, Len(plan))
    BY <1>8
  <1>10. FrProgress(regs[lane].fr, p, k) /\ ConvProgress(regs[lane].conv, c, k) /\ k \in 0 .. Len(plan)
    BY <1>4, <1>9 DEF FrProgress, ConvProgress
  <1>11. InPlan(lane, plan, p, m, c, k)'
    BY <1>0, <1>1, <1>9, <1>10 DEF InPlan
  <1> QED
    BY <1>0, <1>11 DEF WritesInv

\* A call begins with its plan, before the first write.
LEMMA BeginPlan ==
    ASSUME WritesInv, NEW lane \in Lanes, NEW plan, NEW S,
           regs' = regs, call'.lane = lane, todo' = plan,
           asked' \in [Lanes -> SUBSET Params], asked'[lane] = S,
           \A other \in Lanes : asked[other] \subseteq asked'[other],
           \E p, m, c : Shape(plan, p, m, c) /\ Starts(lane, p, m, c, S)
    PROVE  WritesInv'
  <1>1. PICK p, m, c : Shape(plan, p, m, c) /\ Starts(lane, p, m, c, S)
    OBVIOUS
  <1>2. plan \in Seq(Writes) /\ Len(plan) \in Nat
    BY <1>1, LenProperties DEF Shape
  <1>3. plan = SubSeq(plan, 0 + 1, Len(plan)) /\ 0 \in 0 .. Len(plan)
    BY <1>2, SubSeqFull
  <1>4. FrProgress(regs[lane].fr, p, 0) /\ ConvProgress(regs[lane].conv, c, 0)
    BY DEF FrProgress, ConvProgress
  <1>5. InPlan(lane, plan, p, m, c, 0)'
    BY <1>1, <1>3, <1>4 DEF InPlan
  <1>6. \A other \in Lanes : LaneRuns(other, regs[other], asked'[other])
    BY DEF WritesInv, LaneRuns, FrRuns, ConvRuns, Fits
  <1> QED
    BY <1>5, <1>6 DEF WritesInv

\* fpga_function_set.
LEMMA SetStep ==
    ASSUME WritesInv, NEW lane \in Lanes, NEW p \in Params, fpga_function_set(lane, p)
    PROVE  WritesInv'
  <1> DEFINE r == IF IsFilterResize(lane) THEN fpga_filter_resize_set(lane, p) ELSE Accept(<<>>)
             S == IF r.writes = <<>> THEN asked[lane] ELSE asked[lane] \cup {p}
  <1>1. /\ call' = [op |-> "set", lane |-> lane, ret |-> r.ret]
        /\ todo' = r.writes
        /\ asked' = [asked EXCEPT ![lane] = S]
        /\ regs' = regs
    BY DEF fpga_function_set
  <1>2. r.writes # <<>> => p \in S
    OBVIOUS
  <1>3. S \subseteq Params /\ asked[lane] \subseteq S
    BY DEF WritesInv
  <1>4. \E q, m, c : Shape(r.writes, q, m, c) /\ Starts(lane, q, m, c, S)
    <2> HIDE DEF S
    <2>1. CASE IsFilterResize(lane)
      <3>1. r = fpga_filter_resize_set(lane, p)
        BY <2>1
      <3> HIDE DEF r
      <3> QED
        BY <1>2, <3>1, SetShape
    <2>2. CASE ~IsFilterResize(lane)
      <3>1. r.writes = <<>>
        BY <2>2 DEF Accept
      <3> HIDE DEF r
      <3> QED
        BY <3>1, NoWrites
    <2> QED
      BY <2>1, <2>2
  <1>5. /\ asked' \in [Lanes -> SUBSET Params] /\ asked'[lane] = S
        /\ \A other \in Lanes : asked[other] \subseteq asked'[other]
    <2> HIDE DEF S, r
    <2> QED
      BY <1>1, <1>3 DEF WritesInv
  <1>6. call'.lane = lane
    BY <1>1
  <1> HIDE DEF r, S
  <1> QED
    BY <1>1, <1>4, <1>5, <1>6, BeginPlan

\* fpga_function_finish.
LEMMA FinishStep ==
    ASSUME WritesInv, NEW lane \in Lanes, fpga_function_finish(lane)
    PROVE  WritesInv'
  <1> DEFINE r == IF IsFilterResize(lane) THEN fpga_filter_resize_finish(lane) ELSE Accept(<<>>)
  <1>1. /\ call' = [op |-> "finish", lane |-> lane, ret |-> r.ret]
        /\ todo' = r.writes
        /\ UNCHANGED <<asked, regs>>
    BY DEF fpga_function_finish
  <1>2. \E q, m, c : Shape(r.writes, q, m, c) /\ Starts(lane, q, m, c, asked[lane])
    <2>1. CASE IsFilterResize(lane)
      <3>1. r = fpga_filter_resize_finish(lane)
        BY <2>1
      <3> HIDE DEF r
      <3> QED
        BY <3>1, FinishShape
    <2>2. CASE ~IsFilterResize(lane)
      <3>1. r.writes = <<>>
        BY <2>2 DEF Accept
      <3> HIDE DEF r
      <3> QED
        BY <3>1, NoWrites
    <2> QED
      BY <2>1, <2>2
  <1>3. call'.lane = lane
    BY <1>1
  <1> HIDE DEF r
  <1> QED
    BY <1>1, <1>2, <1>3, BeginPlan DEF WritesInv

\* The other steps make no write.
LEMMA NoWriteStep ==
    ASSUME WritesInv, UNCHANGED <<regs, asked, todo>>,
           status' = "call" => status = "call" /\ call'.lane = call.lane
    PROVE  WritesInv'
  <1>1. \A lane \in Lanes : LaneRuns(lane, regs'[lane], asked'[lane])
    BY DEF WritesInv
  <1>2. ASSUME status' = "call" PROVE (\E plan, p, m, c, n : InPlan(call.lane, plan, p, m, c, n))'
    <2>0. PICK lane : lane = call.lane /\ lane = call'.lane
      BY <1>2
    <2>1. PICK plan, p, m, c, n : InPlan(lane, plan, p, m, c, n)
      BY <1>2, <2>0, Zenon DEF WritesInv
    <2>2. InPlan(lane, plan, p, m, c, n)'
      BY <2>1 DEF InPlan
    <2> QED
      BY <2>0, <2>2
  <1> QED
    BY <1>1, <1>2 DEF WritesInv

LEMMA WritesInit == Init => WritesInv
  <1> SUFFICES ASSUME Init PROVE WritesInv
    OBVIOUS
  <1>1. Stopped \in BlockRegs /\ Stopped.fr.control = 0 /\ Stopped.conv.control = 0
    BY DEF Stopped, BlockRegs, FrRegs, ConvRegs
  <1>2. regs \in [Lanes -> BlockRegs] /\ asked \in [Lanes -> SUBSET Params]
    BY <1>1 DEF Init
  <1>3. \A lane \in Lanes : LaneRuns(lane, regs[lane], asked[lane])
    <2> SUFFICES ASSUME NEW lane \in Lanes PROVE LaneRuns(lane, regs[lane], asked[lane])
      OBVIOUS
    <2>1. regs[lane].fr.control = 0 /\ regs[lane].conv.control = 0
      BY <1>1 DEF Init
    <2> QED
      BY <2>1 DEF LaneRuns, FrRuns, ConvRuns, START_MODULE
  <1> QED
    BY <1>2, <1>3 DEF Init, WritesInv

LEMMA WritesNext == TableInv /\ WritesInv /\ [Next]_vars => WritesInv'
  <1> SUFFICES ASSUME TableInv, WritesInv, [Next]_vars PROVE WritesInv'
    OBVIOUS
  <1>1. CASE \/ \E ops \in AppOps \cup {libfunc_filter_resize_ops} : Register(ops)
             \/ \E name \in Names : Unregister(name)
             \/ \E lane \in 0 .. KERNEL_NUM_FUNC, name \in Names \cup {""} : fpga_function_config(lane, name)
             \/ \E lib \in Libs : \/ fpga_function_load(lib) \/ fpga_function_unload(lib)
                                  \/ \E early \in BOOLEAN : LoadFails(lib, early)
             \/ \E lane \in Lanes, ret, convret \in {"OK", "FAILURE_READ"} : fpga_function_get(lane, ret, convret)
             \/ Return \/ Ended \/ UNCHANGED vars
    <2>1. UNCHANGED <<regs, asked, todo>>
      BY <1>1 DEF Register, Unregister, fpga_function_config, fpga_function_load, LoadFails,
                  fpga_function_unload, fpga_function_get, Return, Ended, vars
    <2>2. status' = "call" => status = "call" /\ call' = call
      BY <1>1 DEF Register, Unregister, fpga_function_config, fpga_function_load, LoadFails,
                  fpga_function_unload, fpga_function_get, Return, Ended, vars, Idle
    <2> QED
      BY <2>1, <2>2, NoWriteStep
  <1>2. CASE OtherFails
    BY <1>2, NoWriteStep DEF OtherFails, TableInv
  <1>3. CASE \E lane \in Lanes : \/ \E p \in Params : fpga_function_set(lane, p)
                                \/ fpga_function_finish(lane)
    BY <1>3, SetStep, FinishStep
  <1>4. CASE PwriteOK \/ PwriteFails
    BY <1>4, PwriteOKStep, PwriteFailsStep
  <1> QED
    BY <1>1, <1>2, <1>3, <1>4 DEF Next

\* For any lanes and parameters, and wherever pwrite() is refused: a block
\* that runs has the parameters of one call of fpga_function_set, because
\* __fpga_filter_resize_set and __fpga_conv_set stop it before they change the
\* first of them and start it after the last.
THEOREM BlocksRunAsAsked == Spec => []NeverRunsMixed
  <1>1. WritesInv => NeverRunsMixed
    <2> SUFFICES ASSUME WritesInv, NEW lane \in Lanes
                 PROVE  LET s == fpga_filter_resize_get_setting(regs[lane]) IN
                        /\ fpga_filter_resize_get_control(regs[lane]) = START_MODULE => s.fr \in asked[lane]
                        /\ fpga_conv_get_control(regs[lane]) = START_MODULE =>
                              \E p \in asked[lane] :
                                 s.conv = [i_width |-> p.i_width, i_height |-> p.i_height,
                                           frame_buffer_l |-> FRAME_BUFFER_L, frame_buffer_h |-> FRAME_BUFFER_H(lane)]
      BY DEF NeverRunsMixed
    <2>1. LaneRuns(lane, regs[lane], asked[lane])
      BY DEF WritesInv
    <2> QED
      BY <2>1 DEF LaneRuns, FrRuns, ConvRuns, Fits, fpga_filter_resize_get_setting, fpga_conv_get_setting,
                  fpga_filter_resize_get_control, fpga_conv_get_control
  <1>2. ListTablesInv => TableInv
    BY DEF ListTablesInv
  <1> QED
    BY <1>1, <1>2, ListTablesInit, ListTablesNext, WritesInit, WritesNext, PTL DEF Spec
=============================================================================
