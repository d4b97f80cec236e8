------------------------------ MODULE Devices -------------------------------
(***************************************************************************)
(* The cards of a host as the driver lists them (xpcie_device.c, the       *)
(* discovery of the modules in libxpcie.c and in each module's file, open, *)
(* release and the driver's own ioctls in xpcie_device_fops.c) and as each *)
(* process keeps them in the table of libfpgactl.c.                        *)
(*                                                                         *)
(* A card is named by its serial number, which is also the name of its     *)
(* device file.  Opening, scanning or closing one card is one step, with a *)
(* choice of which of its system calls fail; a call for several cards is a *)
(* step for each.  The ioctl that discovers the modules anew is one step   *)
(* for each look at a lane and one for each count, because it counts in    *)
(* the structure that other processes read, under no lock.                 *)
(***************************************************************************)
EXTENDS Integers, FiniteSets, SequencesExt

CONSTANTS
    Procs, Cards, None,
    FPGA_MAX_DEVICES,       \* Entries of the library's table.
    XPCIE_KERNEL_LANE_MAX,  \* Lanes the driver looks for.
    Modules,                \* Modules with a block per lane that the driver is
                            \* built with, in the order of their discovery.
    Layouts,                \* What can be loaded into a card.
    NameLists,              \* Arguments of fpga_init().
    MaxProbes,              \* Bound: devices the driver has listed.
    MaxCalls                \* Bound: calls of the library and bitstreams loaded.

Slots == 0 .. FPGA_MAX_DEVICES - 1
Lanes == 0 .. XPCIE_KERNEL_LANE_MAX - 1

ModuleNames == Range(Modules)

(* The blocks whose module id is read: PTU has none and takes its number   *)
(* from the chain.                                                         *)
Counted == ModuleNames \ {"ptu"}

ASSUME DevicesAssumption ==
    /\ Modules \in Seq({"chain", "direct", "ptu", "conv", "func"})
    /\ Modules /= <<>> /\ Head(Modules) = "chain" /\ Last(Modules) /= "ptu"
    /\ None \notin Cards
    /\ FPGA_MAX_DEVICES \in Nat \ {0}
    /\ XPCIE_KERNEL_LANE_MAX \in Nat \ {0}
    /\ Layouts \subseteq [Counted -> SUBSET Lanes]
    /\ NameLists \subseteq Seq(Cards) \ {<<>>}
    /\ MaxProbes \in Nat
    /\ MaxCalls \in Nat

VARIABLES
    hw,             \* hw[c][m]: lanes whose block has an id of module m.
    dev_list,       \* fpga_dev_list, the last device probed first.
    minor,          \* minor[c]: dev_id of a listed card.
    fpga_num_devs,
    mods,           \* mods[c]: dev->mods, [num, ctrl_type].
    ioctl,          \* ioctl[p]: the discovery p is in.
    devices,        \* devices[p]: the table of the library in p.
    devices_num,
    files,          \* files[p][c]: files p has open on c.
    work,           \* work[p]: the call p is in and the cards it has yet to do.
    sound,          \* Ghost: cards whose discovery ended undisturbed.
    calls           \* Calls and loads so far.

drvVars == <<hw, dev_list, minor, fpga_num_devs>>
infoVars == <<mods, ioctl, sound>>
libVars == <<devices, devices_num, files, work>>
vars == <<drvVars, infoVars, libVars, calls>>

Zero == [m \in ModuleNames |-> 0]
Unused == [name |-> None, file |-> None, map |-> Zero, rw |-> FALSE]
Idle == [card |-> None, at |-> 0, counting |-> FALSE, alone |-> FALSE]
NoFile == [c \in Cards |-> 0]
NoWork == [call |-> "none", names |-> <<>>]
Listed == Range(dev_list)

(* A process calls the library from one thread.                            *)
Free(p) == ioctl[p] = Idle /\ work[p] = NoWork

TypeOK ==
    /\ hw \in [Cards -> Layouts]
    /\ dev_list \in Seq(Cards) /\ IsInjective(dev_list)
    /\ minor \in [Cards -> -1 .. MaxProbes - 1]
    /\ fpga_num_devs \in 0 .. MaxProbes
    /\ mods \in [Cards -> [num : [ModuleNames -> Nat], ctrl_type : {"UNKNOWN", "MODULE"}]]
    /\ ioctl \in [Procs -> [card : Cards \union {None}, at : 0 .. Len(Modules),
                            counting : BOOLEAN, alone : BOOLEAN]]
    /\ devices \in [Procs -> [Slots -> [name : Cards \union {None}, file : Cards \union {None},
                                        map : [ModuleNames -> Nat], rw : BOOLEAN]]]
    /\ devices_num \in [Procs -> Nat]
    /\ files \in [Procs -> [Cards -> Nat]]
    /\ work \in [Procs -> [call : {"none", "init", "scan", "finish"}, names : Seq(Cards)]]
    /\ sound \subseteq Cards
    /\ calls \in 0 .. MaxCalls

(***************************************************************************)
(* The driver: probe, remove, the search by minor number.                  *)
(***************************************************************************)

(* The number of lanes of a module: the lanes before the first whose id is *)
(* not one of the module's.                                                *)
Prefix(lanes) ==
    CHOOSE n \in 0 .. XPCIE_KERNEL_LANE_MAX :
        /\ \A l \in 0 .. n - 1 : l \in lanes
        /\ n < XPCIE_KERNEL_LANE_MAX => n \notin lanes

(* What discovery finds when nothing disturbs it.                          *)
Found(layout) ==
    [m \in ModuleNames |-> Prefix(layout[IF m = "ptu" THEN "chain" ELSE m])]

(* Every module must have a lane, or the card's map is unknown.            *)
Known(layout) == \A m \in Counted : Prefix(layout[m]) > 0

xpcie_fpga_get_device_by_minor(n) ==
    LET found == {i \in DOMAIN dev_list : minor[dev_list[i]] = n}
    IN  IF found = {} THEN None
        ELSE dev_list[CHOOSE i \in found : \A j \in found : i <= j]

(* open() of the device file of a card finds the device by the minor       *)
(* number of the file; None is -ENODEV.                                    *)
xpcie_cdev_open(name) == xpcie_fpga_get_device_by_minor(minor[name])

(* A probe discovers the modules before the device is listed and gives it  *)
(* the next minor number.  A card with an unknown map, or one that fails   *)
(* in a later step of the probe, is not listed.                            *)
xpcie_pci_probe(c) ==
    /\ c \notin Listed
    /\ fpga_num_devs < MaxProbes
    /\ Known(hw[c])
    /\ dev_list' = <<c>> \o dev_list
    /\ minor' = [minor EXCEPT ![c] = fpga_num_devs]
    /\ fpga_num_devs' = fpga_num_devs + 1
    /\ mods' = [mods EXCEPT ![c] = [num |-> Found(hw[c]), ctrl_type |-> "MODULE"]]
    /\ sound' = sound \union {c}
    /\ UNCHANGED <<hw, ioctl, libVars>>

NoFiles(c) == \A p \in Procs : files[p][c] = 0

RemoveWith(c, num) ==
    /\ NoFiles(c)
    /\ \E i \in DOMAIN dev_list :
        /\ dev_list[i] = c
        /\ dev_list' = RemoveAt(dev_list, i)
    /\ minor' = [minor EXCEPT ![c] = -1]
    /\ fpga_num_devs' = num
    /\ sound' = sound \ {c}
    /\ UNCHANGED <<hw, mods, ioctl, libVars>>

(* A mutant: remove gives the number back.                                 *)
MutRemove(c) == RemoveWith(c, fpga_num_devs - 1)

(* A removed device leaves the list; the count of devices, from which the  *)
(* minor numbers come, does not go back.  Only cards without open files    *)
(* are removed here: what the kernel does to the others is not modelled.   *)
xpcie_pci_remove(c) == RemoveWith(c, fpga_num_devs)

(* rmmod, which the kernel refuses while a file is open; the counter       *)
(* starts again with the next insmod, whose probes are xpcie_pci_probe.    *)
XPCIe_exit_module ==
    /\ fpga_num_devs > 0
    /\ \A c \in Cards : NoFiles(c)
    /\ dev_list' = <<>>
    /\ minor' = [c \in Cards |-> -1]
    /\ fpga_num_devs' = 0
    /\ sound' = {}
    /\ UNCHANGED <<hw, mods, ioctl, libVars>>

(* Another bitstream is loaded into the card, at any time.                 *)
Load(c, layout) ==
    /\ hw[c] /= layout
    /\ hw' = [hw EXCEPT ![c] = layout]
    /\ sound' = sound \ {c}
    /\ ioctl' = [p \in Procs |-> IF ioctl[p].card = c
                                 THEN [ioctl[p] EXCEPT !.alone = FALSE] ELSE ioctl[p]]
    /\ UNCHANGED <<dev_list, minor, fpga_num_devs, mods, libVars>>

(***************************************************************************)
(* XPCIE_DEV_DRIVER_SET_FPGA_UPDATE, by fpga_update_bitstream_info():      *)
(* discovery in place.                                                     *)
(***************************************************************************)
Running(c) == {p \in Procs : ioctl[p].card = c}

(* The map is unknown, and the first module's count zero, from here on.    *)
xpcie_fpga_get_control_type(p, i) ==
    LET c == devices[p][i].file
    IN  /\ Free(p)
        /\ c /= None
        /\ ioctl' = [q \in Procs |->
                       IF q = p THEN [card |-> c, at |-> 1, counting |-> FALSE,
                                      alone |-> Running(c) = {}]
                       ELSE IF ioctl[q].card = c THEN [ioctl[q] EXCEPT !.alone = FALSE]
                       ELSE ioctl[q]]
        /\ mods' = [mods EXCEPT ![c] = [num |-> [@.num EXCEPT ![Modules[1]] = 0],
                                        ctrl_type |-> "UNKNOWN"]]
        /\ sound' = sound \ {c}
        /\ UNCHANGED <<drvVars, libVars>>

(* A mutant: a lane without a block is passed over.                        *)
MutAnswers(c, m) ==
    \/ mods[c].num[m] \in hw[c][m]
    \/ mods[c].num[m] + 1 \in hw[c][m]

(* The lane that the counter names has the module's id.  Chain, direct,    *)
(* conv and func are discovered by the same loop, each in its own file.    *)
Answers(c, m) == mods[c].num[m] \in hw[c][m]

(* One turn of the loop: the lane is there and will be counted.            *)
SeeLane(p) ==
    LET c == ioctl[p].card
        m == Modules[ioctl[p].at]
    IN  /\ ioctl[p] /= Idle /\ ~ioctl[p].counting
        /\ m /= "ptu"
        /\ mods[c].num[m] < XPCIE_KERNEL_LANE_MAX
        /\ Answers(c, m)
        /\ ioctl' = [ioctl EXCEPT ![p].counting = TRUE]
        /\ UNCHANGED <<drvVars, mods, sound, libVars>>

(* info->num++ on the counter that all see.                                *)
CountLane(p) ==
    /\ ioctl[p].counting
    /\ ioctl' = [ioctl EXCEPT ![p].counting = FALSE]
    /\ mods' = [mods EXCEPT ![ioctl[p].card].num[Modules[ioctl[p].at]] = @ + 1]
    /\ UNCHANGED <<drvVars, sound, libVars>>

LoopEnded(c, m) ==
    m /= "ptu" => mods[c].num[m] >= XPCIE_KERNEL_LANE_MAX \/ ~Answers(c, m)

(* The loop has ended with some lanes, or PTU takes the chain's number:    *)
(* the next module begins, its count at zero.                              *)
NextModule(p) ==
    LET c == ioctl[p].card
        m == Modules[ioctl[p].at]
        next == Modules[ioctl[p].at + 1]
        num == [mods[c].num EXCEPT ![m] = IF m = "ptu" THEN mods[c].num["chain"] ELSE @]
    IN  /\ ioctl[p] /= Idle /\ ~ioctl[p].counting
        /\ ioctl[p].at < Len(Modules)
        /\ LoopEnded(c, m)
        /\ m /= "ptu" => mods[c].num[m] > 0
        /\ mods' = [mods EXCEPT ![c].num = IF next = "ptu" THEN num
                                           ELSE [num EXCEPT ![next] = 0]]
        /\ ioctl' = [ioctl EXCEPT ![p].at = @ + 1]
        /\ UNCHANGED <<drvVars, sound, libVars>>

(* The last module ends: the map is known again.                           *)
EndDiscovery(p) ==
    LET c == ioctl[p].card
        m == Modules[ioctl[p].at]
    IN  /\ ioctl[p] /= Idle /\ ~ioctl[p].counting
        /\ ioctl[p].at = Len(Modules)
        /\ LoopEnded(c, m)
        /\ mods[c].num[m] > 0
        /\ mods' = [mods EXCEPT ![c].ctrl_type = "MODULE"]
        /\ sound' = IF ioctl[p].alone THEN sound \union {c} ELSE sound
        /\ ioctl' = [ioctl EXCEPT ![p] = Idle]
        /\ UNCHANGED <<drvVars, libVars>>

(* A module without a lane: the ioctl fails, the map stays unknown.        *)
FailDiscovery(p) ==
    LET c == ioctl[p].card
        m == Modules[ioctl[p].at]
    IN  /\ ioctl[p] /= Idle /\ ~ioctl[p].counting
        /\ m /= "ptu"
        /\ LoopEnded(c, m)
        /\ mods[c].num[m] = 0
        /\ ioctl' = [ioctl EXCEPT ![p] = Idle]
        /\ UNCHANGED <<drvVars, mods, sound, libVars>>

(***************************************************************************)
(* The table of the library.  A call works on t = [dev, num, files], what  *)
(* the process has.                                                        *)
(***************************************************************************)
Table(p) == [dev |-> devices[p], num |-> devices_num[p], files |-> files[p]]

Keep(p, t) ==
    /\ devices' = [devices EXCEPT ![p] = t.dev]
    /\ devices_num' = [devices_num EXCEPT ![p] = t.num]
    /\ files' = [files EXCEPT ![p] = t.files]

Named(dev) == {i \in Slots : dev[i].name /= None}
__fpga_get_dev_id(t, name) == {i \in Slots : t.dev[i].name = name}

(* The first free entry.                                                   *)
__fpga_get_smallest_devices_index(t) ==
    {i \in Slots \ Named(t.dev) : \A j \in Slots \ Named(t.dev) : i <= j}

(* XPCIE_DEV_DRIVER_GET_FPGA_ADDR_MAP: the numbers of lanes, as they are.  *)
xpcie_fpga_copy_base_address_for_user(c) == mods[c].num

(* Four ioctls, of which the last one gives the map.                       *)
fpga_update_info(t, i, fails) ==
    IF fails THEN t ELSE [t EXCEPT !.dev[i].map =
                         xpcie_fpga_copy_base_address_for_user(t.dev[i].file)]

Open(t, c) == [t EXCEPT !.files[c] = @ + 1]
Close(t, c) == [t EXCEPT !.files[c] = @ - 1]

(* A mutant of the error path: the file stays open.                        *)
MutErrOut(t, c) == t

err_out(t, c) == Close(t, c)

(* A card that is open already is left alone, a card that is not listed    *)
(* has no device file.  When the table is full or an ioctl fails the entry *)
(* is cleared again and the file closed.                                   *)
__fpga_dev_init(t, name, fails) ==
    LET c == xpcie_cdev_open(name)
    IN  IF __fpga_get_dev_id(t, name) /= {} \/ c = None \/ fails = "open" THEN t
        ELSE IF __fpga_get_smallest_devices_index(t) = {} \/ fails = "ioctl"
             THEN err_out(Open(t, c), c)
        ELSE LET i == CHOOSE j \in __fpga_get_smallest_devices_index(t) : TRUE
                 entry == [name |-> name, file |-> c, rw |-> FALSE,
                           map |-> xpcie_fpga_copy_base_address_for_user(c)]
             IN  [dev |-> [t.dev EXCEPT ![i] = entry], num |-> t.num + 1,
                  files |-> Open(t, c).files]

__fpga_dev_finish(t, i) ==
    [dev |-> [t.dev EXCEPT ![i] = Unused], num |-> t.num - 1,
     files |-> Close(t, t.dev[i].file).files]

Faults == {"none", "open", "ioctl"}

Begin(p, call, names) ==
    /\ Free(p)
    /\ work' = [work EXCEPT ![p] = [call |-> call, names |-> names]]
    /\ UNCHANGED <<drvVars, infoVars, devices, devices_num, files>>

(* The table becomes t, and the first name is done.                        *)
NameDone(p, t) ==
    LET names == Tail(work[p].names)
    IN  /\ Keep(p, t)
        /\ work' = [work EXCEPT ![p] = IF names = <<>> THEN NoWork ELSE [@ EXCEPT !.names = names]]
        /\ UNCHANGED <<drvVars, infoVars>>

fpga_dev_init(p, name, fails) ==
    /\ Free(p)
    /\ Keep(p, __fpga_dev_init(Table(p), name, fails))
    /\ UNCHANGED <<drvVars, infoVars, work>>

(* A mutant: the entry is cleared and the count forgotten.                 *)
MutDevFinish(p, i) ==
    /\ Free(p)
    /\ devices[p][i].name /= None
    /\ Keep(p, [__fpga_dev_finish(Table(p), i) EXCEPT !.num = @ + 1])
    /\ UNCHANGED <<drvVars, infoVars, work>>

fpga_dev_finish(p, i) ==
    /\ Free(p)
    /\ devices[p][i].name /= None
    /\ Keep(p, __fpga_dev_finish(Table(p), i))
    /\ UNCHANGED <<drvVars, infoVars, work>>

(* Every open device is closed, by index.                                  *)
fpga_finish(p) == devices_num[p] /= 0 /\ Named(devices[p]) /= {} /\ Begin(p, "finish", <<>>)

FinishNext(p) ==
    /\ work[p].call = "finish"
    /\ \E i \in Named(devices[p]) :
        /\ \A j \in Named(devices[p]) : i <= j
        /\ Keep(p, __fpga_dev_finish(Table(p), i))
        /\ work' = IF Named(devices[p]) = {i} THEN [work EXCEPT ![p] = NoWork] ELSE work
    /\ UNCHANGED <<drvVars, infoVars>>

(* fpga_init() counts the names it parses in devices_num.  It goes on to   *)
(* open them, with a count of zero again, only when the rest of the        *)
(* arguments could be parsed; when not the count stays.  The names go into *)
(* an array of FPGA_MAX_DEVICES without a look at its size: of the         *)
(* undefined outcomes of a longer list the model has two, that all is well *)
(* and that the process ends (Exit).                                       *)
__parse_args(p, n) ==
    /\ Free(p)
    /\ devices_num[p] = 0
    /\ devices_num' = [devices_num EXCEPT ![p] = n]
    /\ UNCHANGED <<drvVars, infoVars, devices, files, work>>

fpga_init(p, names) == devices_num[p] = 0 /\ Begin(p, "init", names)

InitNext(p, fails) ==
    /\ work[p].call = "init"
    /\ NameDone(p, __fpga_dev_init(Table(p), Head(work[p].names), fails))

(* The files of /dev in the order readdir() gives them.  The comparison of *)
(* the devices found with devices_num at the end only decides the result.  *)
fpga_scan_devices(p, names) ==
    /\ names /= <<>>
    /\ Range(names) = Listed
    /\ Begin(p, "scan", names)

(* One device file of a scan: the information is read again, or the device *)
(* opened.                                                                 *)
ScanOne(t, name, fails) ==
    IF __fpga_get_dev_id(t, name) = {} THEN __fpga_dev_init(t, name, fails)
    ELSE LET i == CHOOSE j \in __fpga_get_dev_id(t, name) : TRUE
         IN  fpga_update_info(t, i, fails = "ioctl")

ScanNext(p, fails) ==
    /\ work[p].call = "scan"
    /\ NameDone(p, ScanOne(Table(p), Head(work[p].names), fails))

fpga_update(p, i) ==
    /\ Free(p)
    /\ devices[p][i].name /= None
    /\ Keep(p, fpga_update_info(Table(p), i, FALSE))
    /\ UNCHANGED <<drvVars, infoVars, work>>

(* XPCIE_DEV_DRIVER_SET_REG_LOCK on the files of some open devices: one of *)
(* them, or all (fpga_enable_regrw_all(), fpga_disable_regrw_all()).       *)
fpga_set_regrw(p, on, which) ==
    /\ Free(p)
    /\ which /= {} /\ which \subseteq Named(devices[p])
    /\ devices' = [devices EXCEPT ![p] = [i \in Slots |->
                     IF i \in which THEN [@[i] EXCEPT !.rw = on] ELSE @[i]]]
    /\ UNCHANGED <<drvVars, infoVars, devices_num, files, work>>

fpga_enable_regrw(p) == \E which \in SUBSET Slots :
    /\ which = Named(devices[p]) \/ Cardinality(which) = 1
    /\ fpga_set_regrw(p, TRUE, which)

fpga_disable_regrw(p) == \E which \in SUBSET Slots :
    /\ which = Named(devices[p]) \/ Cardinality(which) = 1
    /\ fpga_set_regrw(p, FALSE, which)

(* The process ends, outside an ioctl but maybe between two cards of a     *)
(* call, and another starts in its place: the kernel closes the files.     *)
Exit(p) ==
    /\ ioctl[p] = Idle
    /\ devices_num[p] > 0 \/ work[p] /= NoWork
    /\ devices' = [devices EXCEPT ![p] = [i \in Slots |-> Unused]]
    /\ devices_num' = [devices_num EXCEPT ![p] = 0]
    /\ files' = [files EXCEPT ![p] = NoFile]
    /\ work' = [work EXCEPT ![p] = NoWork]
    /\ UNCHANGED <<drvVars, infoVars>>

ListedOrders == {dev_list, Reverse(dev_list)}

Init ==
    /\ \E layout \in Layouts : Known(layout) /\ hw = [c \in Cards |-> layout]
    /\ dev_list = <<>>
    /\ minor = [c \in Cards |-> -1]
    /\ fpga_num_devs = 0
    /\ mods = [c \in Cards |-> [num |-> Zero, ctrl_type |-> "UNKNOWN"]]
    /\ ioctl = [p \in Procs |-> Idle]
    /\ devices = [p \in Procs |-> [i \in Slots |-> Unused]]
    /\ devices_num = [p \in Procs |-> 0]
    /\ files = [p \in Procs |-> NoFile]
    /\ work = [p \in Procs |-> NoWork]
    /\ sound = {}
    /\ calls = 0

Driver ==
    \/ XPCIe_exit_module
    \/ \E c \in Cards : xpcie_pci_probe(c) \/ xpcie_pci_remove(c)

Discovery(p) ==
    SeeLane(p) \/ CountLane(p) \/ NextModule(p) \/ EndDiscovery(p) \/ FailDiscovery(p)

Library(p) ==
    \/ \E c \in Cards, f \in Faults : fpga_dev_init(p, c, f)
    \/ \E names \in NameLists : fpga_init(p, names)
    \/ \E n \in {Len(names) : names \in NameLists} : __parse_args(p, n)
    \/ \E names \in ListedOrders : fpga_scan_devices(p, names)
    \/ \E i \in Slots :
        \/ fpga_dev_finish(p, i)
        \/ fpga_update(p, i)
        \/ xpcie_fpga_get_control_type(p, i)
    \/ fpga_finish(p)
    \/ fpga_enable_regrw(p)
    \/ fpga_disable_regrw(p)

(* A call for several cards goes on.                                       *)
Continue(p) ==
    \/ \E f \in Faults : InitNext(p, f) \/ ScanNext(p, f)
    \/ FinishNext(p)

Call ==
    /\ calls < MaxCalls
    /\ calls' = calls + 1
    /\ \/ \E p \in Procs : Library(p)
       \/ \E c \in Cards, layout \in Layouts : Load(c, layout)

Next ==
    \/ Call
    \/ (Driver \/ \E p \in Procs : Discovery(p) \/ Continue(p) \/ Exit(p)) /\ UNCHANGED calls

Spec == Init /\ [][Next]_vars

(***************************************************************************)
(* Properties.                                                             *)
(***************************************************************************)

(* A process has one file open for each entry of its table and no other:   *)
(* whatever step of an open, a scan or a finish fails, no file descriptor  *)
(* is lost (it would keep the driver from being unloaded) and no card is   *)
(* opened twice.                                                           *)
FilesAreEntries ==
    \A p \in Procs, c \in Cards :
        /\ files[p][c] = Cardinality({i \in Slots : devices[p][i].file = c})
        /\ files[p][c] <= 1

(* What devices_num counts beyond the open devices.                        *)
Excess(p) == devices_num[p] - Cardinality(Named(devices[p]))

(* The excess goes away with the process, and only an fpga_init() that     *)
(* finds a count of zero and opens nothing can make one.                   *)
CountKeeps ==
    \A p \in Procs : Excess(p)' /= Excess(p) =>
        \/ devices_num'[p] = 0 /\ Named(devices'[p]) = {}
        \/ devices_num[p] = 0 /\ devices'[p] = devices[p]

(* "num of opening devices" (libfpgactl.c:64) is not what devices_num is:  *)
(* an fpga_init() refused for a later argument (libfpgactl.c:386-391)      *)
(* leaves the number of its names there, for good.  In every other call,   *)
(* with whatever system call of it failing, the number moves with the open *)
(* devices, and it never is below them, so that fpga_finish() does not     *)
(* pass over open devices.                                                 *)
NumCountsOpen ==
    /\ [](\A p \in Procs : Excess(p) >= 0)
    /\ [][CountKeeps]_vars

(* The file behind an entry is the card of that name: minor numbers are    *)
(* never shared, in whatever order cards come and go.                      *)
FileIsOfName ==
    \A p \in Procs, i \in Slots : devices[p][i].file = devices[p][i].name

(* After a discovery that neither another discovery nor a new bitstream    *)
(* disturbed, the driver's map of a listed card has exactly the lanes of   *)
(* each module up to the first gap, and PTU as many as the chain.          *)
MapIsHardware ==
    \A c \in sound : mods[c] = [num |-> Found(hw[c]), ctrl_type |-> "MODULE"]
=============================================================================
