------------------------------ MODULE FnBlocks ------------------------------
(***************************************************************************)
(* Function blocks: the list of registered functions, the function each    *)
(* lane is configured for, the shared libraries that bring functions with  *)
(* them, and the JSON texts the library keeps for its callers              *)
(* (libfunction.c), over the registers of FnRegs.                          *)
(*                                                                         *)
(* The library has no lock: one thread makes the calls.  A call that       *)
(* programs a lane makes its pwrite() calls one step at a time, and each   *)
(* may be refused, because a reconfiguration has taken the device.         *)
(* Functions that come from elsewhere are external: their operations       *)
(* succeed or fail and touch nothing here.                                 *)
(***************************************************************************)
EXTENDS FnRegs, FiniteSets

CONSTANTS LIBFUNCTION_FUNCTION_MAX,   \* slots of the list and of the library table
          Libs,       \* names of shared libraries; a library registers under its own name
          AppOps,     \* operations the application registers itself
          Params,     \* parameters of set calls
          MaxMoves,   \* bound on the calls, the get calls apart
          MaxSets     \* bound on those that program a lane

ASSUME FnAssumption ==
    /\ LIBFUNCTION_FUNCTION_MAX \in Nat \ {0}
    /\ KERNEL_NUM_FUNC \in Nat /\ KERNEL_NUM_CONV \in Nat

\* A library has a name, and code of the application is in no library.
ASSUME OpsAssumption ==
    /\ "" \notin Libs /\ "libfpga" \notin Libs
    /\ \A ops \in AppOps : ops = [name |-> ops.name, home |-> ops.home] /\ ops.home \notin Libs \cup {""}

ASSUME ParamsAssumption ==
    Params \subseteq [i_width : Nat \cup {MISSING}, i_height : Nat \cup {MISSING},
                      o_width : Nat \cup {MISSING}, o_height : Nat \cup {MISSING}]

VARIABLES ready,    \* __libfunction_init has run
          list,     \* function_operations_list
          table,    \* function_operations_table, by lane
          json,     \* function_json_params_table, by lane: a buffer, or 0
          live,     \* the buffers that are allocated
          libs,     \* function_shared_libs_table: the names in the slots
          open,     \* dlopen() count of each library
          regs,     \* the registers of each lane
          call,     \* the call being made
          todo,     \* the writes it still has to make
          status,   \* of the process, see Statuses
          moves, sets,  \* calls made so far, and those that program a lane
          asked     \* parameters a lane has been asked to run with

vars == <<ready, list, table, json, live, libs, open, regs, call, todo, status, moves, sets, asked>>

Slots == 1 .. LIBFUNCTION_FUNCTION_MAX
Lanes == 0 .. KERNEL_NUM_FUNC - 1
Buffers == 1 .. KERNEL_NUM_FUNC

\* home is the code the operations live in: this library, the application,
\* or a shared library.
NoOps == [name |-> "", home |-> ""]
libfunc_filter_resize_ops == [name |-> "filter_resize", home |-> "libfpga"]
LibOps(lib) == [name |-> lib, home |-> lib]

Names == Libs \cup {"filter_resize"}
AllOps == {NoOps, libfunc_filter_resize_ops} \cup AppOps \cup {LibOps(lib) : lib \in Libs}

Stopped == [fr   |-> [control |-> 0, cols_input |-> 0, rows_input |-> 0,
                      cols_output |-> 0, rows_output |-> 0],
            conv |-> [control |-> 0, cols |-> 0, rows |-> 0,
                      frame_buffer_l |-> 0, frame_buffer_h |-> 0]]

NoCall == [op |-> "", lane |-> 0, ret |-> "OK"]

Init ==
    /\ ready = FALSE
    /\ list = [s \in Slots |-> NoOps]
    /\ table = [lane \in Lanes |-> NoOps]
    /\ json = [lane \in Lanes |-> 0]
    /\ live = {}
    /\ libs = [s \in Slots |-> ""]
    /\ open = [lib \in Libs |-> 0]
    /\ regs = [lane \in Lanes |-> Stopped]
    /\ call = NoCall
    /\ todo = <<>>
    /\ status = "idle"
    /\ moves = 0
    /\ sets = 0
    /\ asked = [lane \in Lanes |-> {}]

(***************************************************************************)
(* The list of functions.                                                  *)
(***************************************************************************)
First(slots) == CHOOSE s \in slots : \A t \in slots : s <= t

Free(l) == {s \in Slots : l[s] = NoOps}
Called(l, name) == {s \in Slots : l[s] # NoOps /\ l[s].name = name}

\* The whole list is searched for the name before the first free slot is taken.
fpga_function_register(l, ops) ==
    IF Called(l, ops.name) # {} THEN [ret |-> "ALREADY_ASSIGNED", list |-> l]
    ELSE IF Free(l) = {} THEN [ret |-> "FULL_ELEMENT", list |-> l]
    ELSE [ret |-> "OK", list |-> [l EXCEPT ![First(Free(l))] = ops]]

fpga_function_unregister(l, name) ==
    IF Called(l, name) = {} THEN l ELSE [l EXCEPT ![First(Called(l, name))] = NoOps]

fpga_function_register_filter_resize(l) == fpga_function_register(l, libfunc_filter_resize_ops)

__libfunction_register_default_function(l) == fpga_function_register_filter_resize(l)

\* Every call begins with this; only the first one has an effect.
__libfunction_init(l) == IF ready THEN l ELSE __libfunction_register_default_function(l).list

List == __libfunction_init(list)

\* The process runs a call, or has been ended by memory it should not touch.
Aborted == {"double free", "wild pointer"}
Statuses == {"idle", "call"} \cup Aborted

Idle == status = "idle"

MayMove == moves < MaxMoves /\ moves' = moves + 1

(***************************************************************************)
(* Calls that change the list and the tables.                              *)
(***************************************************************************)
Register(ops) ==
    /\ Idle
    /\ MayMove
    /\ ready' = TRUE
    /\ list' = fpga_function_register(List, ops).list
    /\ UNCHANGED <<table, json, live, libs, open, regs, call, todo, status, sets, asked>>

Unregister(name) ==
    /\ Idle
    /\ MayMove
    /\ ready' = TRUE
    /\ list' = fpga_function_unregister(List, name)
    /\ UNCHANGED <<table, json, live, libs, open, regs, call, todo, status, sets, asked>>

\* The empty name takes the lane's function away; so does no other value.
fpga_function_config(lane, name) ==
    /\ Idle
    /\ MayMove
    /\ ready' = TRUE
    /\ list' = List
    /\ table' = IF lane \notin Lanes THEN table
                ELSE IF name = "" THEN [table EXCEPT ![lane] = NoOps]
                ELSE IF Called(List, name) = {} THEN table
                ELSE [table EXCEPT ![lane] = List[First(Called(List, name))]]
    /\ UNCHANGED <<json, live, libs, open, regs, call, todo, status, sets, asked>>

(***************************************************************************)
(* Shared libraries.  library_name_under_score is freed once its value has *)
(* been copied, and again when a later step fails: the process aborts, or  *)
(* goes on with a damaged heap.                                            *)
(***************************************************************************)
FreeLibs == {s \in Slots : libs[s] = ""}

\* The library cannot be opened, or is opened and then fails before or after
\* the name is freed; dlclose() takes back what dlopen() has done.
LoadFails(lib, early) ==
    /\ Idle
    /\ FreeLibs # {}
    /\ MayMove
    /\ ready' = TRUE
    /\ list' = List
    /\ status' \in (IF early THEN {"idle"} ELSE {"idle", "double free"})
    /\ UNCHANGED <<table, json, live, libs, open, regs, call, todo, sets, asked>>

\* A name that is taken, or a full list, makes the load fail late.
fpga_function_load(lib) ==
    LET r == fpga_function_register(List, LibOps(lib)) IN
    /\ Idle
    /\ FreeLibs # {}
    /\ r.ret = "OK"
    /\ MayMove
    /\ ready' = TRUE
    /\ list' = r.list
    /\ libs' = [libs EXCEPT ![First(FreeLibs)] = lib]
    /\ open' = [open EXCEPT ![lib] = @ + 1]
    /\ UNCHANGED <<table, json, live, regs, call, todo, status, sets, asked>>

Loaded(lib) == {s \in Slots : libs[s] = lib}

\* Mutant: the lanes keep the function that is unloaded.
MutUnload(lib) ==
    /\ Idle
    /\ Loaded(lib) # {}
    /\ MayMove
    /\ ready' = TRUE
    /\ list' = fpga_function_unregister(List, lib)
    /\ libs' = [libs EXCEPT ![First(Loaded(lib))] = ""]
    /\ open' = [open EXCEPT ![lib] = @ - 1]
    /\ UNCHANGED <<table, json, live, regs, call, todo, status, sets, asked>>

\* Every lane whose function has the library's name loses it, with its text.
fpga_function_unload(lib) ==
    LET served == {lane \in Lanes : table[lane] # NoOps /\ table[lane].name = lib} IN
    /\ Idle
    /\ Loaded(lib) # {}
    /\ MayMove
    /\ ready' = TRUE
    /\ table' = [lane \in Lanes |-> IF lane \in served THEN NoOps ELSE table[lane]]
    /\ live' = live \ {json[lane] : lane \in served}
    /\ json' = [lane \in Lanes |-> IF lane \in served THEN 0 ELSE json[lane]]
    /\ list' = fpga_function_unregister(List, lib)
    /\ libs' = [libs EXCEPT ![First(Loaded(lib))] = ""]
    /\ open' = [open EXCEPT ![lib] = @ - 1]
    /\ UNCHANGED <<regs, call, todo, status, sets, asked>>

(***************************************************************************)
(* Calls of the function of a lane.  A lane without one refuses.  The init *)
(* call is left out: it reads the module id, logs it and changes nothing.  *)
(***************************************************************************)
Bound(lane) == lane \in Lanes /\ table[lane] # NoOps

IsFilterResize(lane) == table[lane] = libfunc_filter_resize_ops

fpga_function_set(lane, p) ==
    /\ Idle
    /\ Bound(lane)
    /\ sets < MaxSets
    /\ sets' = sets + 1
    /\ MayMove
    /\ LET r == IF IsFilterResize(lane) THEN fpga_filter_resize_set(lane, p) ELSE Accept(<<>>) IN
       /\ call' = [op |-> "set", lane |-> lane, ret |-> r.ret]
       /\ todo' = r.writes
       /\ asked' = [asked EXCEPT ![lane] = IF r.writes = <<>> THEN @ ELSE @ \cup {p}]
    /\ status' = "call"
    /\ UNCHANGED <<ready, list, table, json, live, libs, open, regs>>

\* The text of the last call is freed first, whatever the call then does.
\* The settings are read in two parts: when the adapter's part fails, its
\* text is printed and freed although it was never set.
fpga_function_get(lane, ret, convret) ==
    /\ Idle
    /\ Bound(lane)
    /\ LET kept == live \ {json[lane]} IN
       \/ /\ ret = "OK"
          /\ \E b \in Buffers \ kept :
                /\ live' = kept \cup {b}
                /\ json' = [json EXCEPT ![lane] = b]
       \/ /\ ret # "OK"
          /\ live' = kept
          /\ json' = [json EXCEPT ![lane] = 0]
    /\ status' \in (IF ret = "OK" /\ convret # "OK" /\ IsFilterResize(lane)
                    THEN {"idle", "wild pointer"} ELSE {"idle"})
    /\ UNCHANGED <<ready, list, table, libs, open, regs, call, todo, moves, sets, asked>>

fpga_function_finish(lane) ==
    /\ Idle
    /\ Bound(lane)
    /\ sets < MaxSets
    /\ sets' = sets + 1
    /\ MayMove
    /\ LET r == IF IsFilterResize(lane) THEN fpga_filter_resize_finish(lane) ELSE Accept(<<>>) IN
       /\ call' = [op |-> "finish", lane |-> lane, ret |-> r.ret]
       /\ todo' = r.writes
    /\ status' = "call"
    /\ UNCHANGED <<ready, list, table, json, live, libs, open, regs, asked>>

(***************************************************************************)
(* The steps of a call that programs a lane.                               *)
(***************************************************************************)
PwriteOK ==
    /\ status = "call" /\ todo # <<>>
    /\ LET w == Head(todo) IN regs' = [regs EXCEPT ![call.lane][w.block][w.reg] = w.val]
    /\ todo' = Tail(todo)
    /\ UNCHANGED <<ready, list, table, json, live, libs, open, call, status, moves, sets, asked>>

\* A write that is refused ends the programming of its block; the writes of
\* the other block, if there are any left, follow.
PwriteFails ==
    /\ status = "call" /\ todo # <<>>
    /\ LET other == {i \in 1 .. Len(todo) : todo[i].block # Head(todo).block} IN
       todo' = IF other = {} THEN <<>> ELSE SubSeq(todo, First(other), Len(todo))
    /\ call' = [call EXCEPT !.ret = "FAILURE_WRITE"]
    /\ UNCHANGED <<ready, list, table, json, live, libs, open, regs, status, moves, sets, asked>>

\* The operations of a function from elsewhere fail.
OtherFails ==
    /\ status = "call" /\ ~IsFilterResize(call.lane) /\ call.ret = "OK"
    /\ call' = [call EXCEPT !.ret = "FAILURE_WRITE"]
    /\ UNCHANGED <<ready, list, table, json, live, libs, open, regs, todo, status, moves, sets, asked>>

\* Mutant: the text is freed and its place kept.
MutReturn ==
    LET lane == call.lane IN
    /\ status = "call" /\ todo = <<>>
    /\ status' = "idle"
    /\ call' = NoCall
    /\ IF call.op = "finish"
       THEN /\ table' = [table EXCEPT ![lane] = NoOps]
            /\ live' = live \ {json[lane]}
            /\ UNCHANGED json
       ELSE UNCHANGED <<table, live, json>>
    /\ UNCHANGED <<ready, list, libs, open, regs, todo, moves, sets, asked>>

\* A finish gives up the lane even when it has failed.
Return ==
    LET lane == call.lane IN
    /\ status = "call" /\ todo = <<>>
    /\ status' = "idle"
    /\ call' = NoCall
    /\ IF call.op = "finish"
       THEN /\ table' = [table EXCEPT ![lane] = NoOps]
            /\ live' = live \ {json[lane]}
            /\ json' = [json EXCEPT ![lane] = 0]
       ELSE UNCHANGED <<table, live, json>>
    /\ UNCHANGED <<ready, list, libs, open, regs, todo, moves, sets, asked>>

\* The process has ended, or makes no more calls.
Ended == status # "call" /\ UNCHANGED vars

Next ==
    \/ \E ops \in AppOps \cup {libfunc_filter_resize_ops} : Register(ops)
    \/ \E name \in Names : Unregister(name)
    \/ \E lane \in 0 .. KERNEL_NUM_FUNC, name \in Names \cup {""} : fpga_function_config(lane, name)
    \/ \E lib \in Libs : \/ fpga_function_load(lib) \/ fpga_function_unload(lib)
                         \/ \E early \in BOOLEAN : LoadFails(lib, early)
    \/ \E lane \in Lanes :
          \/ \E ret, convret \in {"OK", "FAILURE_READ"} : fpga_function_get(lane, ret, convret)
          \/ \E p \in Params : fpga_function_set(lane, p)
          \/ fpga_function_finish(lane)
    \/ PwriteOK \/ PwriteFails \/ OtherFails \/ Return
    \/ Ended

Spec == Init /\ [][Next]_vars

(***************************************************************************)
(* Properties.                                                             *)
(***************************************************************************)
\* The type of every variable; buffers are taken one for each lane.
TypeOK ==
    /\ list \in [Slots -> AllOps] /\ table \in [Lanes -> AllOps]
    /\ json \in [Lanes -> Buffers \cup {0}] /\ live \subseteq Buffers
    /\ open \in [Libs -> Nat]
    /\ status \in Statuses

\* No entry of the list and no lane points into a shared library that has
\* been unmapped, however loads, unloads, registrations under the same name
\* and configurations follow each other (fpga_function_unload clears by name).
NoDangling ==
    \A ops \in {list[s] : s \in Slots} \cup {table[lane] : lane \in Lanes} :
        ops.home \in Libs => open[ops.home] > 0

\* The texts kept for the lanes are allocated, each for one lane: no call
\* frees a text twice or another lane's (fpga_function_get, _finish, _unload).
JsonOwned ==
    \A lane \in Lanes : json[lane] # 0 =>
        /\ json[lane] \in live
        /\ \A other \in Lanes \ {lane} : json[other] # json[lane]

\* A block that runs has the parameters of one set call, with the lane's own
\* frame buffer: no write of a later call reaches it while it runs, and no
\* call that failed half way leaves it running
\* (__fpga_conv_set, __fpga_filter_resize_set).
NeverRunsMixed ==
    \A lane \in Lanes : LET s == fpga_filter_resize_get_setting(regs[lane]) IN
        /\ fpga_filter_resize_get_control(regs[lane]) = START_MODULE => s.fr \in asked[lane]
        /\ fpga_conv_get_control(regs[lane]) = START_MODULE =>
              \E p \in asked[lane] :
                 s.conv = [i_width |-> p.i_width, i_height |-> p.i_height,
                           frame_buffer_l |-> FRAME_BUFFER_L, frame_buffer_h |-> FRAME_BUFFER_H(lane)]

=============================================================================
