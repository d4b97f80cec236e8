---------------------------- MODULE DevicesProofs ---------------------------
(***************************************************************************)
(* The driver's list of cards, the tables of the processes and the         *)
(* discovery of modules, for any number of processes, cards, lanes,        *)
(* modules and entries, and any order of probes and removals; and the      *)
(* reference count of a card, which excludes reconfiguration from use, for *)
(* any set of processes and any finite number of acquires.                 *)
(***************************************************************************)
EXTENDS Devices, Refcount, FiniteSetTheorems, SequenceTheorems, WellFoundedInduction, TLAPS

EntryRec == [name : Cards \union {None}, file : Cards \union {None},
             map : [ModuleNames -> Nat], rw : BOOLEAN]

\* A listed card has a minor number of its own, below the next one to be
\* given; the others have none.
MinorsOK ==
    /\ \A c \in Listed : minor[c] \in 0 .. fpga_num_devs - 1
    /\ \A c \in Cards \ Listed : minor[c] = -1
    /\ \A c, d \in Listed : minor[c] = minor[d] => c = d

DriverInv ==
    /\ hw \in [Cards -> Layouts]
    /\ dev_list \in Seq(Cards) /\ IsInjective(dev_list)
    /\ minor \in [Cards -> -1 .. MaxProbes - 1]
    /\ fpga_num_devs \in 0 .. MaxProbes
    /\ MinorsOK

TableRec == [dev : [Slots -> EntryRec], num : Nat, files : [Cards -> Nat]]

\* A table whose entries are different listed cards, each with one open
\* file, and a count that is l above the number of entries.
Fine(t, l) ==
    /\ t \in TableRec
    /\ \A i \in Slots : t.dev[i].file = t.dev[i].name
    /\ \A i, j \in Named(t.dev) : t.dev[i].name = t.dev[j].name => i = j
    /\ \A i \in Named(t.dev) : t.dev[i].name \in Listed
    /\ \A c \in Cards : t.files[c] = IF \E i \in Slots : t.dev[i].name = c THEN 1 ELSE 0
    /\ t.num = Cardinality(Named(t.dev)) + l

TablesInv ==
    /\ devices \in [Procs -> [Slots -> EntryRec]]
    /\ devices_num \in [Procs -> Nat]
    /\ files \in [Procs -> [Cards -> Nat]]
    /\ \A p \in Procs : Excess(p) \in Nat /\ Fine(Table(p), Excess(p))

WorkRec == [call : {"none", "init", "scan", "finish"}, names : Seq(Cards)]
IoctlRec == [card : Cards \union {None}, at : 0 .. Len(Modules),
             counting : BOOLEAN, alone : BOOLEAN]

\* A process is in one call at a time, and in an ioctl on a card it has open.
Turn(p) ==
    /\ work[p].call \in {"init", "scan"} => work[p].names /= <<>>
    /\ ioctl[p] /= Idle =>
        /\ work[p] = NoWork
        /\ ioctl[p].card \in Cards
        /\ files[p][ioctl[p].card] > 0
        /\ ioctl[p].at \in 1 .. Len(Modules)
        /\ ioctl[p].counting => Modules[ioctl[p].at] /= "ptu"

TurnsInv ==
    /\ work \in [Procs -> WorkRec]
    /\ ioctl \in [Procs -> IoctlRec]
    /\ \A p \in Procs : Turn(p)

\* The counter of m is on its way to the first gap.
CountsUp(c, m, counting) ==
    LET n == mods[c].num[m]
    IN  /\ n <= XPCIE_KERNEL_LANE_MAX
        /\ \A l \in 0 .. n - 1 : l \in hw[c][m]
        /\ counting => n < XPCIE_KERNEL_LANE_MAX /\ n \in hw[c][m]

\* An undisturbed discovery is right about the modules it has left behind.
Lone(p) ==
    LET c == ioctl[p].card
        m == Modules[ioctl[p].at]
    IN  /\ \A q \in Procs : ioctl[q].card = c => q = p
        /\ \A j \in 1 .. ioctl[p].at :
               Modules[j] /= m => mods[c].num[Modules[j]] = Found(hw[c])[Modules[j]]
        /\ m /= "ptu" => CountsUp(c, m, ioctl[p].counting)

MapsInv ==
    /\ mods \in [Cards -> [num : [ModuleNames -> Nat], ctrl_type : {"UNKNOWN", "MODULE"}]]
    /\ sound \subseteq Listed
    /\ \A c \in sound : Running(c) = {}
    /\ MapIsHardware
    /\ \A p \in Procs : ioctl[p] /= Idle /\ ioctl[p].alone => Lone(p)

DevicesInv ==
    /\ DriverInv
    /\ TablesInv
    /\ TurnsInv
    /\ MapsInv
    /\ calls \in 0 .. MaxCalls

-----------------------------------------------------------------------------
(***************************************************************************)
(* The operators.                                                          *)
(***************************************************************************)

\* A set of natural numbers that is not empty has a least element.
LEMMA LeastNat ==
    ASSUME NEW S \in SUBSET Nat, S /= {}
    PROVE  \E n \in S : \A k \in S : n <= k
<1>1. PICK n \in S : \A k \in S : ~ (<<k, n>> \in OpToRel(<, Nat))
    BY NatLessThanWellFounded, WFMin, Zenon
<1>2. \A k \in S : ~ (k < n)
    BY <1>1 DEF OpToRel
<1>3. \A k \in S : n <= k
    BY <1>2
<1> QED
    BY <1>3

\* There is a first gap, or all lanes are there.
LEMMA PrefixDef ==
    ASSUME NEW lanes, NEW n \in 0 .. XPCIE_KERNEL_LANE_MAX
    PROVE  /\ Prefix(lanes) \in 0 .. XPCIE_KERNEL_LANE_MAX
           /\ (/\ \A l \in 0 .. n - 1 : l \in lanes
               /\ n < XPCIE_KERNEL_LANE_MAX => n \notin lanes) => Prefix(lanes) = n
<1> DEFINE all == XPCIE_KERNEL_LANE_MAX
           Gap(k) == /\ \A l \in 0 .. k - 1 : l \in lanes
                     /\ k < all => k \notin lanes
           S == {k \in 0 .. all : k = all \/ k \notin lanes}
<1>1. all \in Nat
    BY DevicesAssumption
<1>2. PICK k \in S : \A l \in S : k <= l
    <2>1. S \in SUBSET Nat /\ all \in S
        BY <1>1
    <2> QED
        BY <2>1, LeastNat
<1>3. \A l \in 0 .. k - 1 : l \in lanes
    <2> TAKE l \in 0 .. k - 1
    <2>1. l \in 0 .. all /\ ~(k <= l) /\ l /= all
        BY <1>1, <1>2
    <2> QED
        BY <1>2, <2>1
<1>4. k \in 0 .. all /\ Gap(k)
    BY <1>2, <1>3
<1>5. Prefix(lanes) \in 0 .. all /\ Gap(Prefix(lanes))
    <2> DEFINE P == CHOOSE h \in 0 .. all : Gap(h)
    <2>1. P \in 0 .. all /\ Gap(P)
        BY <1>4
    <2> QED
        BY <2>1 DEF Prefix
<1>6. ASSUME Gap(n)
      PROVE  Prefix(lanes) = n
    <2> DEFINE q == Prefix(lanes)
    <2>1. q \in 0 .. all /\ Gap(q)
        BY <1>5
    <2> HIDE DEF q
    <2>2. ~(q < n)
        BY <1>1, <1>6, <2>1
    <2>3. ~(n < q)
        BY <1>1, <1>6, <2>1
    <2> QED
        BY <1>1, <2>1, <2>2, <2>3 DEF q
<1> QED
    BY <1>5, <1>6

LEMMA SlotsFinite ==
    ASSUME NEW S \in SUBSET Slots
    PROVE  IsFiniteSet(S) /\ Cardinality(S) \in Nat
<1>1. IsFiniteSet(Slots)
    BY FS_Interval, DevicesAssumption DEF Slots
<1> QED
    BY <1>1, FS_Subset, FS_CardinalityType

\* The device file of a name leads to the card of that name, or nowhere.
LEMMA OpenName ==
    ASSUME DriverInv, NEW name \in Cards
    PROVE  \/ xpcie_cdev_open(name) = name /\ name \in Listed
           \/ xpcie_cdev_open(name) = None
<1> DEFINE found == {i \in DOMAIN dev_list : minor[dev_list[i]] = minor[name]}
           first == CHOOSE i \in found : \A j \in found : i <= j
<1>1. CASE found = {}
    BY <1>1 DEF xpcie_cdev_open, xpcie_fpga_get_device_by_minor
<1>2. CASE found /= {}
    <2>1. found \in SUBSET Nat
        BY DEF DriverInv
    <2>2. first \in found
        BY <1>2, <2>1, LeastNat
    <2>3. dev_list[first] \in Listed /\ minor[dev_list[first]] = minor[name]
        BY <2>2 DEF Listed, Range
    <2>4. minor[name] \in Nat
        BY <2>3 DEF DriverInv, MinorsOK
    <2>5. name \in Listed
        BY <2>4 DEF DriverInv, MinorsOK
    <2>6. dev_list[first] = name
        BY <2>3, <2>5 DEF DriverInv, MinorsOK
    <2> QED
        BY <1>2, <2>5, <2>6 DEF xpcie_cdev_open, xpcie_fpga_get_device_by_minor
<1> QED
    BY <1>1, <1>2

-----------------------------------------------------------------------------
(***************************************************************************)
(* The table of one process.                                               *)
(***************************************************************************)

\* An entry is cleared and its file closed.
LEMMA FinishFine ==
    ASSUME NEW t, NEW l \in Nat, Fine(t, l), NEW i \in Named(t.dev)
    PROVE  Fine(__fpga_dev_finish(t, i), l)
<1> DEFINE c == t.dev[i].name
           u == __fpga_dev_finish(t, i)
<1>1. i \in Slots /\ c \in Cards /\ t.dev[i].file = c /\ t.files[c] = 1
    BY DevicesAssumption DEF Fine, TableRec, Named, EntryRec
<1>2. u = [dev |-> [t.dev EXCEPT ![i] = Unused], num |-> t.num - 1,
           files |-> [t.files EXCEPT ![c] = t.files[c] - 1]]
    <2>1. PICK dev \in [Slots -> EntryRec], num \in Nat, fs \in [Cards -> Nat] :
            t = [dev |-> dev, num |-> num, files |-> fs]
        BY DEF Fine, TableRec
    <2>2. Close(t, c).files = [t.files EXCEPT ![c] = t.files[c] - 1]
        BY <1>1, <2>1 DEF Close
    <2> QED
        BY <1>1, <2>2 DEF __fpga_dev_finish
<1> HIDE DEF u
<1>3. Unused \in EntryRec /\ Unused.name = None /\ Unused.file = None
    BY DEF Unused, EntryRec, Zero
<1>4. Named(u.dev) = Named(t.dev) \ {i}
    BY <1>1, <1>2, <1>3 DEF Named, Fine, TableRec
<1>5. Cardinality(Named(u.dev)) = Cardinality(Named(t.dev)) - 1
      /\ Cardinality(Named(u.dev)) \in Nat
    <2>1. Named(t.dev) \in SUBSET Slots /\ Named(u.dev) \in SUBSET Slots
        BY DEF Named
    <2> QED
        BY <1>4, <2>1, SlotsFinite, FS_RemoveElement
<1>6. u \in TableRec
    <2>1. Cardinality(Named(t.dev)) \in Nat
        BY SlotsFinite DEF Named
    <2>2. t.num - 1 \in Nat
        BY <1>5, <2>1 DEF Fine
    <2>3. [t.dev EXCEPT ![i] = Unused] \in [Slots -> EntryRec]
        BY <1>1, <1>3 DEF Fine, TableRec
    <2>4. [t.files EXCEPT ![c] = t.files[c] - 1] \in [Cards -> Nat]
        BY <1>1 DEF Fine, TableRec
    <2> QED
        BY <1>2, <2>2, <2>3, <2>4 DEF TableRec
<1>7. \A d \in Cards : u.files[d] = IF \E j \in Slots : u.dev[j].name = d THEN 1 ELSE 0
    <2> TAKE d \in Cards
    <2>1. CASE d = c
        <3>1. u.files[d] = 0
            BY <1>1, <1>2, <2>1 DEF Fine, TableRec
        <3>2. \A j \in Slots : u.dev[j].name /= d
            BY <1>1, <1>2, <1>3, <2>1, DevicesAssumption DEF Fine, TableRec, Named
        <3> QED
            BY <3>1, <3>2
    <2>2. CASE d /= c
        <3>1. u.files[d] = t.files[d]
            BY <1>1, <1>2, <2>2 DEF Fine, TableRec
        <3>2. \A j \in Slots : u.dev[j].name = d <=> t.dev[j].name = d
            BY <1>1, <1>2, <1>3, <2>2, DevicesAssumption DEF Fine, TableRec
        <3> QED
            BY <3>1, <3>2 DEF Fine
    <2> QED
        BY <2>1, <2>2
<1>8. u.num = Cardinality(Named(u.dev)) + l
    <2>1. Cardinality(Named(t.dev)) \in Nat
        BY SlotsFinite DEF Named
    <2> QED
        BY <1>2, <1>5, <2>1 DEF Fine
<1>9. /\ \A k \in Slots : u.dev[k].file = u.dev[k].name
      /\ \A k, j \in Named(u.dev) : u.dev[k].name = u.dev[j].name => k = j
      /\ \A k \in Named(u.dev) : u.dev[k].name \in Listed
    <2>1. \A k \in Slots : u.dev[k] = IF k = i THEN Unused ELSE t.dev[k]
        BY <1>1, <1>2 DEF Fine, TableRec
    <2>2. \A k \in Named(u.dev) : k \in Named(t.dev) /\ u.dev[k] = t.dev[k]
        BY <1>4, <2>1 DEF Named
    <2> QED
        BY <1>3, <2>1, <2>2 DEF Fine
<1> QED
    BY <1>6, <1>7, <1>8, <1>9 DEF Fine, u

\* What the driver tells of a card is read into its entry.
LEMMA UpdateFine ==
    ASSUME NEW t, NEW l \in Nat, Fine(t, l), NEW i \in Named(t.dev), NEW fails \in BOOLEAN,
           mods \in [Cards -> [num : [ModuleNames -> Nat], ctrl_type : {"UNKNOWN", "MODULE"}]]
    PROVE  Fine(fpga_update_info(t, i, fails), l)
<1> DEFINE c == t.dev[i].name
           u == [t EXCEPT !.dev[i].map = mods[c].num]
<1>1. i \in Slots /\ c \in Cards /\ t.dev[i].file = c
    BY DEF Fine, TableRec, Named, EntryRec
<1>2. mods[c].num \in [ModuleNames -> Nat]
    BY <1>1
<1>3. CASE fails
    BY <1>3 DEF fpga_update_info
<1>4. CASE ~fails
    <2>1. fpga_update_info(t, i, fails) = u
        BY <1>1, <1>4 DEF fpga_update_info, xpcie_fpga_copy_base_address_for_user
    <2>2. u.num = t.num /\ u.files = t.files
        BY DEF Fine, TableRec
    <2>3. u.dev \in [Slots -> EntryRec]
          /\ \A k \in Slots : u.dev[k].name = t.dev[k].name /\ u.dev[k].file = t.dev[k].file
        BY <1>1, <1>2 DEF Fine, TableRec, EntryRec
    <2> HIDE DEF u
    <2>4. Named(u.dev) = Named(t.dev)
        BY <2>3 DEF Named
    <2>5. u \in TableRec
        <3>1. PICK dev \in [Slots -> EntryRec], num \in Nat, fs \in [Cards -> Nat] :
                t = [dev |-> dev, num |-> num, files |-> fs]
            BY DEF Fine, TableRec
        <3>2. u = [dev |-> u.dev, num |-> num, files |-> fs]
            BY <3>1 DEF u
        <3> QED
            BY <2>3, <3>1, <3>2 DEF TableRec
    <2>6. \A k \in Named(t.dev) : k \in Slots
        BY DEF Named
    <2> QED
        BY <2>1, <2>2, <2>3, <2>4, <2>5, <2>6 DEF Fine
<1> QED
    BY <1>3, <1>4

\* A listed card that the table does not have is given a free entry.
LEMMA AddFine ==
    ASSUME NEW t, NEW l \in Nat, Fine(t, l), NEW name \in Cards, name \in Listed,
           \A k \in Slots : t.dev[k].name /= name,
           NEW i \in Slots \ Named(t.dev), NEW e \in EntryRec, e.name = name, e.file = name
    PROVE  Fine([dev |-> [t.dev EXCEPT ![i] = e], num |-> t.num + 1,
                 files |-> [t.files EXCEPT ![name] = t.files[name] + 1]], l)
<1> DEFINE u == [dev |-> [t.dev EXCEPT ![i] = e], num |-> t.num + 1,
                 files |-> [t.files EXCEPT ![name] = t.files[name] + 1]]
<1>1. t.files[name] = 0 /\ name /= None
    BY DevicesAssumption DEF Fine
<1>2. u \in TableRec
    BY <1>1 DEF Fine, TableRec
<1>3. \A k \in Slots : u.dev[k] = IF k = i THEN e ELSE t.dev[k]
    BY DEF Fine, TableRec
<1>4. \A d \in Cards : u.files[d] = IF d = name THEN 1 ELSE t.files[d]
    BY <1>1 DEF Fine, TableRec
<1>5. u.num = t.num + 1
    OBVIOUS
<1> HIDE DEF u
<1>6. Named(u.dev) = Named(t.dev) \cup {i}
    BY <1>1, <1>3 DEF Named
<1>7. Cardinality(Named(u.dev)) = Cardinality(Named(t.dev)) + 1
    <2>1. Named(t.dev) \in SUBSET Slots
        BY DEF Named
    <2> QED
        BY <1>6, <2>1, SlotsFinite, FS_AddElement
<1>8. u.num = Cardinality(Named(u.dev)) + l
    <2>1. Cardinality(Named(t.dev)) \in Nat
        BY SlotsFinite DEF Named
    <2> QED
        BY <1>5, <1>7, <2>1 DEF Fine
<1>9. \A d \in Cards : u.files[d] = IF \E k \in Slots : u.dev[k].name = d THEN 1 ELSE 0
    <2> TAKE d \in Cards
    <2>1. CASE d = name
        BY <1>3, <1>4, <2>1
    <2>2. CASE d /= name
        <3>1. t.dev[i].name = None
            BY DEF Named
        <3>2. \A k \in Slots : u.dev[k].name = d <=> t.dev[k].name = d
            BY <1>3, <2>2, <3>1, DevicesAssumption
        <3> QED
            BY <1>4, <2>2, <3>2 DEF Fine
    <2> QED
        BY <2>1, <2>2
<1>10. /\ \A k \in Slots : u.dev[k].file = u.dev[k].name
       /\ \A k, j \in Named(u.dev) : u.dev[k].name = u.dev[j].name => k = j
       /\ \A k \in Named(u.dev) : u.dev[k].name \in Listed
    <2>1. \A k \in Named(u.dev) : k \in Slots /\ (k \in Named(t.dev) \/ k = i)
        BY <1>6 DEF Named
    <2> QED
        BY <1>3, <2>1 DEF Fine
<1>11. Fine(u, l)
    BY <1>2, <1>8, <1>9, <1>10 DEF Fine
<1> QED
    BY <1>11 DEF u

\* A file more, a file less.
LEMMA Opened ==
    ASSUME NEW t \in TableRec, NEW c \in Cards
    PROVE  /\ Open(t, c).files = [t.files EXCEPT ![c] = t.files[c] + 1]
           /\ Close(Open(t, c), c) = t
<1>1. PICK dev \in [Slots -> EntryRec], num \in Nat, fs \in [Cards -> Nat] :
        t = [dev |-> dev, num |-> num, files |-> fs]
    BY DEF TableRec
<1> DEFINE gs == [fs EXCEPT ![c] = fs[c] + 1]
           hs == [gs EXCEPT ![c] = gs[c] - 1]
           u == [dev |-> dev, num |-> num, files |-> gs]
<1>2. gs \in [Cards -> Nat] /\ gs[c] - 1 = fs[c] /\ \A k \in Cards \ {c} : gs[k] = fs[k]
    OBVIOUS
<1>3. hs = fs
    <2>1. hs \in [Cards -> Nat] /\ \A k \in Cards : hs[k] = fs[k]
        <3> HIDE DEF gs
        <3> QED
            BY <1>2
    <2> HIDE DEF hs
    <2> QED
        BY <2>1
<1>4. Open(t, c) = u
    BY <1>1 DEF Open
<1>5. Close(u, c) = [dev |-> dev, num |-> num, files |-> hs]
    <2> HIDE DEF gs
    <2> QED
        BY <1>2 DEF Close
<1>6. u.files = gs /\ t.files = fs
    BY <1>1
<1> HIDE DEF hs, u
<1> QED
    BY <1>1, <1>3, <1>4, <1>5, <1>6

\* A card is opened, or not, and nothing is left of an attempt that failed.
LEMMA InitFine ==
    ASSUME NEW t, NEW l \in Nat, Fine(t, l), NEW name \in Cards, NEW fails \in Faults, DriverInv,
           mods \in [Cards -> [num : [ModuleNames -> Nat], ctrl_type : {"UNKNOWN", "MODULE"}]]
    PROVE  Fine(__fpga_dev_init(t, name, fails), l)
<1> DEFINE c == xpcie_cdev_open(name)
           free == __fpga_get_smallest_devices_index(t)
           i == CHOOSE j \in free : TRUE
           Left == __fpga_get_dev_id(t, name) /= {} \/ c = None \/ fails = "open"
           Failed == free = {} \/ fails = "ioctl"
<1>1. CASE Left
    BY <1>1 DEF __fpga_dev_init
<1>2. CASE ~Left /\ Failed
    <2>1. err_out(Open(t, c), c) = t
        BY <1>2, OpenName, Opened DEF err_out, Fine
    <2> QED
        BY <1>2, <2>1 DEF __fpga_dev_init
<1>3. CASE ~Left /\ ~Failed
    <2> DEFINE e == [name |-> name, file |-> c, rw |-> FALSE,
                     map |-> xpcie_fpga_copy_base_address_for_user(c)]
               u == [dev |-> [t.dev EXCEPT ![i] = e], num |-> t.num + 1,
                     files |-> Open(t, c).files]
    <2>1. c = name /\ name \in Listed
        BY <1>3, OpenName
    <2>2. i \in free
        BY <1>3
    <2>3. i \in Slots \ Named(t.dev)
        BY <2>2 DEF __fpga_get_smallest_devices_index
    <2>4. e \in EntryRec /\ e.name = name /\ e.file = name
        BY <2>1 DEF EntryRec, xpcie_fpga_copy_base_address_for_user
    <2>5. \A k \in Slots : t.dev[k].name /= name
        BY <1>3 DEF __fpga_get_dev_id
    <2>6. Open(t, c).files = [t.files EXCEPT ![name] = t.files[name] + 1]
        <3>1. t \in TableRec
            BY DEF Fine
        <3>2. Open(t, name).files = [t.files EXCEPT ![name] = t.files[name] + 1]
            BY <3>1, Opened
        <3> QED
            BY <2>1, <3>2
    <2>7. __fpga_dev_init(t, name, fails) = u
        BY <1>3, Zenon DEF __fpga_dev_init
    <2> HIDE DEF e, i
    <2>8. Fine(u, l)
        <3>1. u = [dev |-> [t.dev EXCEPT ![i] = e], num |-> t.num + 1,
                   files |-> [t.files EXCEPT ![name] = t.files[name] + 1]]
            BY <2>6
        <3> HIDE DEF u
        <3> QED
            BY <3>1, <2>1, <2>3, <2>4, <2>5, <2>6, AddFine
    <2> QED
        BY <2>7, <2>8
<1> QED
    BY <1>1, <1>2, <1>3

LEMMA ScanFine ==
    ASSUME NEW t, NEW l \in Nat, Fine(t, l), NEW name \in Cards, NEW fails \in Faults, DriverInv,
           mods \in [Cards -> [num : [ModuleNames -> Nat], ctrl_type : {"UNKNOWN", "MODULE"}]]
    PROVE  Fine(ScanOne(t, name, fails), l)
<1> DEFINE found == __fpga_get_dev_id(t, name)
           i == CHOOSE j \in found : TRUE
<1>1. CASE found = {}
    BY <1>1, InitFine DEF ScanOne
<1>2. CASE found /= {}
    <2>1. i \in found
        BY <1>2
    <2>2. i \in Named(t.dev)
        BY <2>1, DevicesAssumption DEF __fpga_get_dev_id, Named
    <2>3. Fine(fpga_update_info(t, i, fails = "ioctl"), l)
        <3> HIDE DEF i
        <3> QED
            BY <2>2, UpdateFine
    <2> QED
        BY <1>2, <2>3 DEF ScanOne
<1> QED
    BY <1>1, <1>2

-----------------------------------------------------------------------------
(***************************************************************************)
(* The steps of the library.                                               *)
(***************************************************************************)

\* Fine() looks at the driver's list only.
LEMMA FineSame ==
    ASSUME UNCHANGED dev_list, NEW t, NEW l, Fine(t, l)
    PROVE  Fine(t, l)'
BY DEF Fine, Listed

\* A process changes its own table.
LEMMA KeepTables ==
    ASSUME TablesInv, NEW p \in Procs, NEW t, Fine(t, Excess(p)), Keep(p, t),
           UNCHANGED dev_list
    PROVE  /\ TablesInv'
           /\ \A q \in Procs \ {p} : Table(q)' = Table(q)
           /\ CountKeeps
<1>1. t \in TableRec
    BY DEF Fine
<1>2. t.dev \in [Slots -> EntryRec] /\ t.num \in Nat /\ t.files \in [Cards -> Nat]
    BY <1>1 DEF TableRec
<1>3. /\ devices' \in [Procs -> [Slots -> EntryRec]]
      /\ devices_num' \in [Procs -> Nat]
      /\ files' \in [Procs -> [Cards -> Nat]]
    BY <1>2 DEF TablesInv, Keep
<1>4. \A q \in Procs \ {p} : Table(q)' = Table(q)
    BY DEF TablesInv, Keep, Table
<1>5. Table(p)' = t
    <2>1. Table(p)' = [dev |-> t.dev, num |-> t.num, files |-> t.files]
        BY DEF TablesInv, Keep, Table
    <2> QED
        BY <1>1, <2>1 DEF TableRec
<1>6. ASSUME NEW q \in Procs
      PROVE  Excess(q)' = Excess(q) /\ Excess(q)' \in Nat /\ Fine(Table(q), Excess(q))'
    <2>1. PICK l : l = Excess(q) /\ l \in Nat
        BY DEF TablesInv
    <2>2. PICK u : u = Table(q)' /\ Fine(u, l)
        BY <1>4, <1>5, <2>1 DEF TablesInv
    <2>3. Fine(u, l)'
        BY <2>2, FineSame
    <2>4. u.dev = devices'[q] /\ u.num = devices_num'[q]
        BY <2>2 DEF Table
    <2>5. Cardinality(Named(devices'[q])) \in Nat
        BY SlotsFinite DEF Named
    <2>6. Excess(q)' = l
        BY <2>1, <2>2, <2>4, <2>5 DEF Fine, Excess, Named
    <2> QED
        BY <2>1, <2>2, <2>3, <2>6 DEF Fine, Listed
<1>7. CountKeeps
    BY <1>6 DEF CountKeeps
<1> QED
    BY <1>3, <1>4, <1>6, <1>7 DEF TablesInv

\* Nobody changes a table.
LEMMA TablesKept ==
    ASSUME TablesInv, UNCHANGED <<dev_list, devices, devices_num, files>>
    PROVE  TablesInv' /\ CountKeeps
<1>1. ASSUME NEW q \in Procs
      PROVE  Excess(q)' = Excess(q) /\ Excess(q)' \in Nat /\ Fine(Table(q), Excess(q))'
    <2>1. Excess(q)' = Excess(q) /\ Table(q)' = Table(q)
        BY DEF Excess, Table, Named
    <2>2. PICK l : l = Excess(q) /\ l \in Nat
        BY DEF TablesInv
    <2>3. PICK u : u = Table(q) /\ Fine(u, l)
        BY <2>2 DEF TablesInv
    <2>4. Fine(u, l)'
        BY <2>3, FineSame
    <2> QED
        BY <2>1, <2>2, <2>3, <2>4 DEF Fine, Listed
<1> QED
    BY <1>1 DEF TablesInv, CountKeeps

\* What the library does changes nothing of the driver's.
LEMMA SameDriver ==
    ASSUME DriverInv, UNCHANGED drvVars
    PROVE  DriverInv'
BY DEF DriverInv, MinorsOK, Listed, drvVars

\* A discovery stays undisturbed while its card and its map stay the same.
LEMMA LoneSame ==
    ASSUME NEW q \in Procs, Lone(q), NEW c, c = ioctl[q].card,
           ioctl'[q] = ioctl[q], hw'[c] = hw[c], mods'[c] = mods[c],
           \A r \in Procs : ioctl'[r].card = c => r = q
    PROVE  Lone(q)'
<1>1. PICK at, m, counting :
        at = ioctl[q].at /\ m = Modules[at] /\ counting = ioctl[q].counting
    OBVIOUS
<1>2. ioctl'[q].card = c /\ ioctl'[q].at = at /\ ioctl'[q].counting = counting
    BY <1>1
<1>3. /\ \A j \in 1 .. at : Modules[j] /= m => mods[c].num[Modules[j]] = Found(hw[c])[Modules[j]]
      /\ m /= "ptu" => CountsUp(c, m, counting)
    BY <1>1 DEF Lone
<1>4. CountsUp(c, m, counting) => CountsUp(c, m, counting)'
    BY DEF CountsUp
<1>5. \A j \in 1 .. at : Modules[j] /= m => mods'[c].num[Modules[j]] = Found(hw'[c])[Modules[j]]
    BY <1>3
<1>6. m /= "ptu" => CountsUp(c, m, counting)'
    BY <1>3, <1>4
<1> QED
    BY <1>1, <1>2, <1>5, <1>6 DEF Lone

LEMMA SameMaps ==
    ASSUME MapsInv, UNCHANGED <<drvVars, infoVars>>
    PROVE  MapsInv'
<1>1. UNCHANGED <<hw, dev_list, mods, ioctl, sound>>
    BY DEF drvVars, infoVars
<1>2. ASSUME NEW q \in Procs, ioctl'[q] /= Idle, ioctl'[q].alone
      PROVE  Lone(q)'
    <2>1. Lone(q)
        BY <1>1, <1>2 DEF MapsInv
    <2>2. \A r \in Procs : ioctl'[r].card = ioctl[q].card => r = q
        BY <1>1, <2>1 DEF Lone
    <2> QED
        BY <1>1, <2>1, <2>2, LoneSame
<1> QED
    BY <1>1, <1>2 DEF MapsInv, MapIsHardware, Running, Listed

\* A process that is in no ioctl goes from call to call.
LEMMA OtherTurns ==
    ASSUME TurnsInv, NEW p \in Procs, ioctl[p] = Idle, UNCHANGED ioctl,
           work' \in [Procs -> WorkRec],
           \A q \in Procs \ {p} : work'[q] = work[q] /\ files'[q] = files[q],
           work'[p].call \in {"init", "scan"} => work'[p].names /= <<>>
    PROVE  TurnsInv'
<1>1. \A q \in Procs \ {p} : Turn(q)'
    BY DEF TurnsInv, Turn
<1>2. Turn(p)'
    BY DEF TurnsInv, Turn
<1> QED
    BY <1>1, <1>2 DEF TurnsInv

\* A call on one card, which does not end in a turn of another.
LEMMA KeepInv ==
    ASSUME DevicesInv, NEW p \in Procs, NEW t, Fine(t, Excess(p)), Keep(p, t),
           ioctl[p] = Idle, UNCHANGED <<drvVars, infoVars>>,
           work' \in [Procs -> WorkRec],
           \A q \in Procs \ {p} : work'[q] = work[q],
           work'[p].call \in {"init", "scan"} => work'[p].names /= <<>>
    PROVE  DriverInv' /\ TablesInv' /\ TurnsInv' /\ MapsInv' /\ CountKeeps
<1>1. DriverInv' /\ MapsInv'
    BY SameDriver, SameMaps DEF DevicesInv
<1>2. TablesInv' /\ CountKeeps /\ \A q \in Procs \ {p} : Table(q)' = Table(q)
    BY KeepTables DEF DevicesInv, drvVars
<1>3. \A q \in Procs \ {p} : files'[q] = files[q]
    BY <1>2 DEF Table
<1>4. TurnsInv'
    BY <1>3, OtherTurns DEF DevicesInv, infoVars
<1> QED
    BY <1>1, <1>2, <1>4

\* The same, of a call that leaves the turn alone.
LEMMA KeepFree ==
    ASSUME DevicesInv, NEW p \in Procs, NEW t, Fine(t, Excess(p)), Keep(p, t),
           Free(p), UNCHANGED <<drvVars, infoVars, work>>
    PROVE  DriverInv' /\ TablesInv' /\ TurnsInv' /\ MapsInv' /\ CountKeeps
BY KeepInv DEF Free, DevicesInv, TurnsInv, Turn

LEMMA FineTable ==
    ASSUME DevicesInv, NEW p \in Procs
    PROVE  Fine(Table(p), Excess(p)) /\ Excess(p) \in Nat
           /\ Table(p).dev = devices[p]
BY DEF DevicesInv, TablesInv, Table

LEMMA DevInitKeeps ==
    ASSUME DevicesInv, NEW p \in Procs, NEW name \in Cards, NEW fails \in Faults,
           fpga_dev_init(p, name, fails)
    PROVE  DriverInv' /\ TablesInv' /\ TurnsInv' /\ MapsInv' /\ CountKeeps
<1>1. Fine(__fpga_dev_init(Table(p), name, fails), Excess(p))
    BY FineTable, InitFine DEF DevicesInv, MapsInv
<1> QED
    BY <1>1, KeepFree DEF fpga_dev_init

LEMMA DevFinishKeeps ==
    ASSUME DevicesInv, NEW p \in Procs, NEW i \in Slots, fpga_dev_finish(p, i)
    PROVE  DriverInv' /\ TablesInv' /\ TurnsInv' /\ MapsInv' /\ CountKeeps
<1>1. Fine(__fpga_dev_finish(Table(p), i), Excess(p))
    BY FineTable, FinishFine DEF fpga_dev_finish, Named
<1> QED
    BY <1>1, KeepFree DEF fpga_dev_finish

LEMMA UpdateKeeps ==
    ASSUME DevicesInv, NEW p \in Procs, NEW i \in Slots, fpga_update(p, i)
    PROVE  DriverInv' /\ TablesInv' /\ TurnsInv' /\ MapsInv' /\ CountKeeps
<1>1. Fine(fpga_update_info(Table(p), i, FALSE), Excess(p))
    BY FineTable, UpdateFine DEF fpga_update, Named, DevicesInv, MapsInv
<1> QED
    BY <1>1, KeepFree DEF fpga_update

LEMMA BeginKeeps ==
    ASSUME DevicesInv, NEW p \in Procs, NEW call \in {"init", "scan", "finish"},
           NEW names \in Seq(Cards), names /= <<>> \/ call = "finish", Begin(p, call, names)
    PROVE  DriverInv' /\ TablesInv' /\ TurnsInv' /\ MapsInv' /\ CountKeeps
<1>1. DriverInv' /\ MapsInv'
    BY SameDriver, SameMaps DEF DevicesInv, Begin
<1>2. TablesInv' /\ CountKeeps
    BY TablesKept DEF DevicesInv, Begin, drvVars
<1>3. TurnsInv'
    BY OtherTurns DEF DevicesInv, TurnsInv, Begin, Free, infoVars, WorkRec
<1> QED
    BY <1>1, <1>2, <1>3

LEMMA NameKeeps ==
    ASSUME DevicesInv, NEW p \in Procs, NEW t, Fine(t, Excess(p)), NameDone(p, t),
           ioctl[p] = Idle, work[p].call \in {"init", "scan"}
    PROVE  DriverInv' /\ TablesInv' /\ TurnsInv' /\ MapsInv' /\ CountKeeps
<1> DEFINE names == Tail(work[p].names)
           next == IF names = <<>> THEN NoWork ELSE [work[p] EXCEPT !.names = names]
<1>1. work[p] \in WorkRec /\ work[p].names /= <<>>
    BY DEF DevicesInv, TurnsInv, Turn
<1>2. names \in Seq(Cards)
    BY <1>1 DEF WorkRec
<1>3. next \in WorkRec /\ (next.call \in {"init", "scan"} => next.names /= <<>>)
    <2> HIDE DEF names
    <2> QED
        BY <1>1, <1>2 DEF WorkRec, NoWork
<1>4. work' = [work EXCEPT ![p] = next]
    BY DEF NameDone
<1> HIDE DEF next
<1>5. work' \in [Procs -> WorkRec] /\ work'[p] = next /\ \A q \in Procs \ {p} : work'[q] = work[q]
    BY <1>3, <1>4 DEF DevicesInv, TurnsInv
<1> QED
    BY <1>3, <1>5, KeepInv DEF NameDone

LEMMA NextNameKeeps ==
    ASSUME DevicesInv, NEW p \in Procs, NEW fails \in Faults,
           InitNext(p, fails) \/ ScanNext(p, fails)
    PROVE  DriverInv' /\ TablesInv' /\ TurnsInv' /\ MapsInv' /\ CountKeeps
<1>1. work[p].call \in {"init", "scan"} /\ ioctl[p] = Idle
    BY DEF InitNext, ScanNext, DevicesInv, TurnsInv, Turn, NoWork
<1>2. work[p] \in WorkRec /\ work[p].names /= <<>>
    BY <1>1 DEF DevicesInv, TurnsInv, Turn
<1>3. Head(work[p].names) \in Cards
    BY <1>2 DEF WorkRec
<1>4. /\ Fine(__fpga_dev_init(Table(p), Head(work[p].names), fails), Excess(p))
      /\ Fine(ScanOne(Table(p), Head(work[p].names), fails), Excess(p))
    BY <1>3, FineTable, InitFine, ScanFine DEF DevicesInv, MapsInv
<1> QED
    BY <1>1, <1>4, NameKeeps DEF InitNext, ScanNext

LEMMA FinishNextKeeps ==
    ASSUME DevicesInv, NEW p \in Procs, FinishNext(p)
    PROVE  DriverInv' /\ TablesInv' /\ TurnsInv' /\ MapsInv' /\ CountKeeps
<1>1. PICK i \in Named(devices[p]) :
        /\ Keep(p, __fpga_dev_finish(Table(p), i))
        /\ work' = IF Named(devices[p]) = {i} THEN [work EXCEPT ![p] = NoWork] ELSE work
    BY DEF FinishNext
<1>2. Fine(__fpga_dev_finish(Table(p), i), Excess(p))
    BY FineTable, FinishFine
<1>3. ioctl[p] = Idle /\ work[p].call = "finish"
    BY DEF FinishNext, DevicesInv, TurnsInv, Turn, NoWork
<1>4. /\ work' \in [Procs -> WorkRec]
      /\ \A q \in Procs \ {p} : work'[q] = work[q]
      /\ work'[p].call \notin {"init", "scan"}
    BY <1>1, <1>3 DEF DevicesInv, TurnsInv, WorkRec, NoWork
<1> QED
    BY <1>1, <1>2, <1>3, <1>4, KeepInv DEF FinishNext

\* A call for several cards begins.
LEMMA SeveralKeep ==
    ASSUME DevicesInv, NEW p \in Procs,
           \/ \E names \in NameLists : fpga_init(p, names)
           \/ \E names \in ListedOrders : fpga_scan_devices(p, names)
           \/ fpga_finish(p)
    PROVE  DriverInv' /\ TablesInv' /\ TurnsInv' /\ MapsInv' /\ CountKeeps
<1>1. ASSUME NEW names \in NameLists, fpga_init(p, names)
      PROVE  DriverInv' /\ TablesInv' /\ TurnsInv' /\ MapsInv' /\ CountKeeps
    <2>1. names \in Seq(Cards) /\ names /= <<>>
        BY DevicesAssumption
    <2> QED
        BY <1>1, <2>1, BeginKeeps DEF fpga_init
<1>2. ASSUME NEW names \in ListedOrders, fpga_scan_devices(p, names)
      PROVE  DriverInv' /\ TablesInv' /\ TurnsInv' /\ MapsInv' /\ CountKeeps
    <2>1. dev_list \in Seq(Cards)
        BY DEF DevicesInv, DriverInv
    <2>2. Reverse(dev_list) \in Seq(Cards)
        <3>1. \A i \in 1 .. Len(dev_list) : dev_list[Len(dev_list) - i + 1] \in Cards
            BY <2>1
        <3> QED
            BY <2>1, <3>1 DEF Reverse
    <2>3. names \in Seq(Cards) /\ names /= <<>>
        BY <1>2, <2>1, <2>2 DEF ListedOrders, fpga_scan_devices
    <2> QED
        BY <1>2, <2>3, BeginKeeps DEF fpga_scan_devices
<1>3. CASE fpga_finish(p)
    <2>1. <<>> \in Seq(Cards)
        OBVIOUS
    <2> QED
        BY <1>3, <2>1, BeginKeeps DEF fpga_finish
<1> QED
    BY <1>1, <1>2, <1>3

LEMMA LockKeeps ==
    ASSUME DevicesInv, NEW p \in Procs, fpga_enable_regrw(p) \/ fpga_disable_regrw(p)
    PROVE  DriverInv' /\ TablesInv' /\ TurnsInv' /\ MapsInv' /\ CountKeeps
<1>1. PICK on \in BOOLEAN, which \in SUBSET Slots : fpga_set_regrw(p, on, which)
    BY DEF fpga_enable_regrw, fpga_disable_regrw
<1> DEFINE dev == [i \in Slots |-> IF i \in which THEN [devices[p][i] EXCEPT !.rw = on]
                                   ELSE devices[p][i]]
           t == [dev |-> dev, num |-> devices_num[p], files |-> files[p]]
<1>2. /\ devices[p] \in [Slots -> EntryRec] /\ devices_num[p] \in Nat
      /\ files[p] \in [Cards -> Nat] /\ Fine(Table(p), Excess(p))
    BY DEF DevicesInv, TablesInv
<1>3. dev \in [Slots -> EntryRec]
      /\ \A i \in Slots : dev[i].name = devices[p][i].name /\ dev[i].file = devices[p][i].file
    BY <1>1, <1>2 DEF EntryRec
<1>4. devices' = [devices EXCEPT ![p] = dev]
    BY <1>1 DEF fpga_set_regrw
<1>5. devices_num' = [devices_num EXCEPT ![p] = devices_num[p]] /\ files' = [files EXCEPT ![p] = files[p]]
    <2>1. devices_num \in [Procs -> Nat] /\ files \in [Procs -> [Cards -> Nat]]
        BY DEF DevicesInv, TablesInv
    <2>2. UNCHANGED <<devices_num, files>>
        BY <1>1 DEF fpga_set_regrw
    <2> QED
        BY <2>1, <2>2
<1>6. Keep(p, t)
    BY <1>4, <1>5 DEF Keep
<1> HIDE DEF dev
<1>7. Named(dev) = Named(devices[p])
    BY <1>3 DEF Named
<1>8. Fine(t, Excess(p))
    <2>1. t \in TableRec
        BY <1>2, <1>3 DEF TableRec
    <2>2. \A i \in Named(devices[p]) : i \in Slots
        BY DEF Named
    <2> QED
        BY <1>2, <1>3, <1>7, <2>1, <2>2 DEF Fine, Table
<1> QED
    BY <1>1, <1>6, <1>8, KeepFree DEF fpga_set_regrw

\* The tables of all but one process stay as they are.
LEMMA OthersKept ==
    ASSUME TablesInv, NEW p \in Procs, UNCHANGED dev_list,
           \A q \in Procs \ {p} : /\ devices'[q] = devices[q] /\ files'[q] = files[q]
                                  /\ devices_num'[q] = devices_num[q]
    PROVE  \A q \in Procs \ {p} :
               Excess(q)' = Excess(q) /\ Excess(q)' \in Nat /\ Fine(Table(q), Excess(q))'
<1> TAKE q \in Procs \ {p}
<1>1. Excess(q)' = Excess(q) /\ Table(q)' = Table(q)
    BY DEF Excess, Table
<1>2. PICK l : l = Excess(q) /\ l \in Nat
    BY DEF TablesInv
<1>3. PICK u : u = Table(q) /\ Fine(u, l)
    BY <1>2 DEF TablesInv
<1>4. Fine(u, l)'
    BY <1>3, FineSame
<1> QED
    BY <1>1, <1>2, <1>3, <1>4 DEF Fine, Listed

\* The count of a process without open cards becomes that of the names.
LEMMA ParseKeeps ==
    ASSUME DevicesInv, NEW p \in Procs, NEW n \in Nat, __parse_args(p, n)
    PROVE  DriverInv' /\ TablesInv' /\ TurnsInv' /\ MapsInv' /\ CountKeeps
<1>1. DriverInv' /\ MapsInv' /\ TurnsInv'
    BY SameDriver, SameMaps, OtherTurns DEF DevicesInv, __parse_args, TurnsInv, Turn, Free, infoVars
<1>2. /\ devices_num' \in [Procs -> Nat]
      /\ devices_num'[p] = n /\ devices_num[p] = 0
      /\ \A q \in Procs \ {p} : devices_num'[q] = devices_num[q]
      /\ UNCHANGED <<dev_list, devices, files>>
    BY DEF DevicesInv, TablesInv, __parse_args, drvVars
<1>3. \A q \in Procs \ {p} :
          Excess(q)' = Excess(q) /\ Excess(q)' \in Nat /\ Fine(Table(q), Excess(q))'
    BY <1>2, OthersKept DEF DevicesInv
<1>4. Cardinality(Named(devices[p])) \in Nat
    BY SlotsFinite DEF Named
<1>5. Excess(p) \in Nat /\ Fine(Table(p), Excess(p))
    BY DEF DevicesInv, TablesInv
<1>6. Cardinality(Named(devices[p])) = 0
    BY <1>2, <1>4, <1>5 DEF Excess
<1>7. Excess(p)' = n
    BY <1>2, <1>6 DEF Excess, Named
<1>8. Fine(Table(p), Excess(p))'
    <2>1. PICK t : t = Table(p)'
        OBVIOUS
    <2>2. /\ t.dev = Table(p).dev /\ t.files = Table(p).files /\ t.num = n
          /\ Table(p).dev = devices[p]
          /\ t = [dev |-> devices[p], num |-> n, files |-> files[p]]
        BY <1>2, <2>1 DEF Table
    <2>3. t \in TableRec
        BY <2>2 DEF TableRec, DevicesInv, TablesInv
    <2>4. t.num = Cardinality(Named(t.dev)) + n
        BY <1>6, <2>2
    <2>5. Fine(t, n)
        BY <1>5, <2>2, <2>3, <2>4 DEF Fine
    <2>6. Fine(t, n)'
        BY <1>2, <2>5, FineSame
    <2> QED
        BY <1>7, <2>1, <2>6 DEF Fine, Listed
<1>9. TablesInv'
    BY <1>2, <1>3, <1>7, <1>8 DEF DevicesInv, TablesInv
<1>10. CountKeeps
    BY <1>2, <1>3 DEF CountKeeps
<1> QED
    BY <1>1, <1>9, <1>10

\* The kernel closes what a process leaves.
LEMMA ExitKeeps ==
    ASSUME DevicesInv, NEW p \in Procs, Exit(p)
    PROVE  DriverInv' /\ TablesInv' /\ TurnsInv' /\ MapsInv' /\ CountKeeps
<1>1. DriverInv' /\ MapsInv'
    BY SameDriver, SameMaps DEF DevicesInv, Exit
<1> DEFINE none == [i \in Slots |-> Unused]
<1>2. Unused \in EntryRec /\ Unused.name = None /\ Unused.file = None
    BY DEF Unused, EntryRec, Zero
<1>3. /\ devices' = [devices EXCEPT ![p] = none]
      /\ devices_num' = [devices_num EXCEPT ![p] = 0]
      /\ files' = [files EXCEPT ![p] = NoFile]
      /\ work' = [work EXCEPT ![p] = NoWork]
      /\ UNCHANGED <<dev_list, ioctl>> /\ ioctl[p] = Idle
    BY DEF Exit, drvVars, infoVars
<1>4. NoFile \in [Cards -> Nat] /\ none \in [Slots -> EntryRec] /\ NoWork \in WorkRec
    BY <1>2 DEF NoFile, NoWork, WorkRec
<1>5. TurnsInv'
    BY <1>3, <1>4, OtherTurns DEF DevicesInv, TablesInv, TurnsInv, NoWork
<1>6. /\ devices' \in [Procs -> [Slots -> EntryRec]]
      /\ devices_num' \in [Procs -> Nat]
      /\ files' \in [Procs -> [Cards -> Nat]]
    BY <1>3, <1>4, DevicesAssumption DEF DevicesInv, TablesInv
<1>7. \A q \in Procs \ {p} :
          Excess(q)' = Excess(q) /\ Excess(q)' \in Nat /\ Fine(Table(q), Excess(q))'
    BY <1>3, OthersKept DEF DevicesInv, TablesInv
<1>8. Fine(Table(p), 0)' /\ Excess(p)' = 0 /\ devices_num'[p] = 0 /\ Named(devices'[p]) = {}
    <2>1. devices'[p] = none /\ devices_num'[p] = 0 /\ files'[p] = NoFile
        BY <1>3 DEF DevicesInv, TablesInv
    <2>2. Named(none) = {}
        BY <1>2 DEF Named
    <2>3. Cardinality(Named(none)) = 0
        BY <2>2, FS_EmptySet
    <2>4. Table(p)' = [dev |-> none, num |-> 0, files |-> NoFile]
        BY <2>1 DEF Table
    <2>5. Table(p)' \in TableRec
        BY <1>4, <2>4 DEF TableRec
    <2>6. \A i \in Slots : none[i].name = None /\ none[i].file = None
        BY <1>2
    <2>7. \A c \in Cards : NoFile[c] = 0 /\ ~ \E i \in Slots : none[i].name = c
        BY <2>6, DevicesAssumption DEF NoFile
    <2> HIDE DEF none
    <2> QED
        <3>1. PICK t : t = Table(p)' /\ t.dev = none /\ t.num = 0 /\ t.files = NoFile
            BY <2>4
        <3>2. Fine(t, 0)'
            <4>1. t \in TableRec
                BY <2>5, <3>1 DEF TableRec, EntryRec
            <4>2. \A i \in Slots : t.dev[i].file = t.dev[i].name
                BY <2>6, <3>1
            <4>3. Named(t.dev) = {} /\ Cardinality(Named(t.dev)) = 0
                BY <2>2, <2>3, <3>1
            <4>4. \A c \in Cards : t.files[c] = IF \E i \in Slots : t.dev[i].name = c THEN 1 ELSE 0
                BY <2>7, <3>1
            <4> QED
                BY <3>1, <4>1, <4>2, <4>3, <4>4 DEF Fine
        <3>3. Excess(p)' = 0
            BY <2>1, <2>3 DEF Excess, Named
        <3> QED
            BY <2>1, <2>2, <3>1, <3>2, <3>3 DEF Fine
<1>9. TablesInv'
    <2>1. Excess(p)' \in Nat /\ Fine(Table(p), Excess(p))'
        BY <1>8 DEF Fine
    <2> QED
        BY <1>6, <1>7, <2>1 DEF TablesInv
<1>10. CountKeeps
    BY <1>7, <1>8 DEF CountKeeps
<1> QED
    BY <1>1, <1>5, <1>9, <1>10

-----------------------------------------------------------------------------
(***************************************************************************)
(* The steps of a discovery.                                               *)
(***************************************************************************)

\* Whoever has a card open has a listed card, and a discovery has it open.
LEMMA OpenIsListed ==
    ASSUME DevicesInv, NEW p \in Procs, NEW c \in Cards
    PROVE  /\ files[p][c] > 0 => c \in Listed
           /\ files[p][c] > 0 <=> \E i \in Slots : devices[p][i].file = c
           /\ ioctl[p].card = c => ioctl[p] /= Idle /\ files[p][c] > 0
<1>1. Fine(Table(p), Excess(p)) /\ Table(p).dev = devices[p] /\ Table(p).files = files[p]
    BY FineTable DEF Table
<1>2. \A i \in Slots : devices[p][i].name = c => i \in Named(devices[p])
    BY DevicesAssumption DEF Named
<1>3. ioctl[p].card = c => ioctl[p] /= Idle /\ files[p][c] > 0
    BY DevicesAssumption DEF DevicesInv, TurnsInv, Turn, Idle
<1> QED
    BY <1>1, <1>2, <1>3 DEF Fine

\* The module a discovery is at.
LEMMA AtModule ==
    ASSUME DevicesInv, NEW p \in Procs, ioctl[p] /= Idle
    PROVE  /\ Modules[ioctl[p].at] \in ModuleNames
           /\ ioctl[p].card \in Cards
           /\ ioctl[p].at \in 1 .. Len(Modules)
           /\ \A j \in 1 .. Len(Modules) : Modules[j] \in ModuleNames
           /\ Modules[1] = "chain" /\ "chain" \in ModuleNames
BY DevicesAssumption DEF DevicesInv, TurnsInv, Turn, ModuleNames, Range

\* A discovery of p changes nothing of a table or of the list.
LEMMA DiscoveryKeepsRest ==
    ASSUME DevicesInv, UNCHANGED <<drvVars, libVars>>
    PROVE  DriverInv' /\ TablesInv' /\ CountKeeps
<1>1. DriverInv'
    BY SameDriver DEF DevicesInv
<1> QED
    BY <1>1, TablesKept DEF DevicesInv, drvVars, libVars

\* The turns when only p's ioctl changes.
LEMMA IoctlTurns ==
    ASSUME DevicesInv, NEW p \in Procs, UNCHANGED libVars,
           ioctl' \in [Procs -> IoctlRec],
           \A q \in Procs \ {p} :
               /\ ioctl'[q].card = ioctl[q].card /\ ioctl'[q].at = ioctl[q].at
               /\ ioctl'[q].counting = ioctl[q].counting
               /\ ioctl[q] = Idle => ioctl'[q] = Idle,
           Turn(p)'
    PROVE  TurnsInv'
<1>1. ASSUME NEW q \in Procs \ {p}
      PROVE  Turn(q)'
    <2>1. UNCHANGED <<work, files>>
        BY DEF libVars
    <2>2. Turn(q)
        BY DEF DevicesInv, TurnsInv
    <2> QED
        BY <2>1, <2>2 DEF Turn
<1>2. work' \in [Procs -> WorkRec]
    BY DEF libVars, DevicesInv, TurnsInv
<1> QED
    BY <1>1, <1>2 DEF TurnsInv

\* The same, when the others are left alone altogether.
LEMMA OneTurn ==
    ASSUME DevicesInv, NEW p \in Procs, UNCHANGED libVars,
           ioctl' \in [Procs -> IoctlRec],
           \A q \in Procs \ {p} : ioctl'[q] = ioctl[q],
           Turn(p)'
    PROVE  TurnsInv'
<1>1. \A q \in Procs \ {p} :
          /\ ioctl'[q].card = ioctl[q].card /\ ioctl'[q].at = ioctl[q].at
          /\ ioctl'[q].counting = ioctl[q].counting
          /\ ioctl[q] = Idle => ioctl'[q] = Idle
    OBVIOUS
<1> QED
    BY <1>1, IoctlTurns

\* The maps when p's discovery of c goes on: nobody else is alone with c.
LEMMA IoctlMaps ==
    ASSUME DevicesInv, NEW p \in Procs, ioctl[p] /= Idle, NEW c, c = ioctl[p].card,
           UNCHANGED drvVars,
           NEW info \in [num : [ModuleNames -> Nat], ctrl_type : {"UNKNOWN", "MODULE"}],
           mods' = [mods EXCEPT ![c] = info],
           \A q \in Procs \ {p} : ioctl'[q] = ioctl[q],
           ioctl'[p].card \in {c, None},
           sound' \subseteq sound \cup {c},
           c \in sound' =>
               /\ Running(c)' = {}
               /\ info = [num |-> Found(hw[c]), ctrl_type |-> "MODULE"],
           ioctl'[p] /= Idle /\ ioctl'[p].alone => Lone(p)'
    PROVE  MapsInv'
<1>1. c \in Cards /\ c /= None
    BY AtModule, DevicesAssumption
<1>2. UNCHANGED <<hw, dev_list>>
    BY DEF drvVars
<1>3. mods \in [Cards -> [num : [ModuleNames -> Nat], ctrl_type : {"UNKNOWN", "MODULE"}]]
    BY DEF DevicesInv, MapsInv
<1>4. /\ mods' \in [Cards -> [num : [ModuleNames -> Nat], ctrl_type : {"UNKNOWN", "MODULE"}]]
      /\ \A d \in Cards \ {c} : mods'[d] = mods[d]
      /\ mods'[c] = info
    BY <1>1, <1>3
<1>5. c \notin sound
    BY DEF DevicesInv, MapsInv, Running
<1>6. sound \subseteq Cards
    BY DEF DevicesInv, MapsInv, DriverInv, Listed, Range
<1>7. \A d \in sound' \ {c} : Running(d)' = {} /\ mods'[d] = [num |-> Found(hw[d]), ctrl_type |-> "MODULE"]
    <2> TAKE d \in sound' \ {c}
    <2> d \in sound
        OBVIOUS
    <2>1. d /= c /\ d \in Cards /\ d /= None
        BY <1>5, <1>6, DevicesAssumption
    <2>2. Running(d) = {} /\ mods[d] = [num |-> Found(hw[d]), ctrl_type |-> "MODULE"]
        BY DEF DevicesInv, MapsInv, MapIsHardware
    <2>3. Running(d)' = {}
        BY <2>1, <2>2 DEF Running
    <2> QED
        BY <1>4, <2>1, <2>2, <2>3
<1>8. ASSUME NEW q \in Procs \ {p}, ioctl'[q] /= Idle, ioctl'[q].alone
      PROVE  Lone(q)'
    <2>1. Lone(q) /\ ioctl'[q] = ioctl[q] /\ ioctl[q] /= Idle
        BY <1>8 DEF DevicesInv, MapsInv
    <2>2. ioctl[q].card \in Cards \ {c} /\ ioctl[q].card /= None
        BY <2>1, AtModule, DevicesAssumption DEF Lone
    <2>3. \A r \in Procs : ioctl'[r].card = ioctl[q].card => r = q
        BY <2>1, <2>2 DEF Lone
    <2>4. hw'[ioctl[q].card] = hw[ioctl[q].card] /\ mods'[ioctl[q].card] = mods[ioctl[q].card]
        BY <1>2, <1>4, <2>2
    <2> QED
        BY <2>1, <2>3, <2>4, LoneSame
<1>9. sound' \subseteq Listed
    BY <1>1, OpenIsListed DEF DevicesInv, MapsInv
<1>10. MapIsHardware'
    BY <1>2, <1>4, <1>7 DEF MapIsHardware
<1>11. \A d \in sound' : Running(d)' = {}
    <2> TAKE d \in sound'
    <2>1. CASE d = c
        BY <2>1
    <2>2. CASE d /= c
        BY <1>7, <2>2
    <2> QED
        BY <2>1, <2>2
<1> QED
    BY <1>2, <1>4, <1>8, <1>9, <1>10, <1>11 DEF MapsInv, Listed

\* One look, or one lane more.
LEMMA LaneKeeps ==
    ASSUME DevicesInv, NEW p \in Procs, SeeLane(p) \/ CountLane(p)
    PROVE  DriverInv' /\ TablesInv' /\ TurnsInv' /\ MapsInv' /\ CountKeeps
<1>0. PICK c, at, m, n :
        c = ioctl[p].card /\ at = ioctl[p].at /\ m = Modules[at] /\ n = mods[c].num[m]
    OBVIOUS
<1>1. ioctl[p] /= Idle /\ ioctl[p] \in IoctlRec
    BY DEF SeeLane, CountLane, Idle, DevicesInv, TurnsInv
<1>2. c \in Cards /\ m \in ModuleNames /\ at \in 1 .. Len(Modules)
    BY <1>0, <1>1, AtModule
<1>3. mods \in [Cards -> [num : [ModuleNames -> Nat], ctrl_type : {"UNKNOWN", "MODULE"}]]
    BY DEF DevicesInv, MapsInv
<1>4. DriverInv' /\ TablesInv' /\ CountKeeps /\ UNCHANGED <<libVars, drvVars, sound>>
    BY DiscoveryKeepsRest DEF SeeLane, CountLane
<1>5. Turn(p) /\ (ioctl[p].alone => Lone(p))
    BY <1>1 DEF DevicesInv, TurnsInv, MapsInv
<1>6. c \notin sound
    BY <1>0 DEF DevicesInv, MapsInv, Running
<1>7. UNCHANGED <<work, files, hw, sound>>
    BY <1>4 DEF libVars, drvVars
<1>10. UNCHANGED libVars
    BY <1>4
<1>8. CASE SeeLane(p)
    <2>1. ioctl' = [ioctl EXCEPT ![p] = [ioctl[p] EXCEPT !.counting = TRUE]]
          /\ m /= "ptu" /\ n < XPCIE_KERNEL_LANE_MAX /\ n \in hw[c][m] /\ UNCHANGED mods
        BY <1>0, <1>8 DEF SeeLane, Answers
    <2>2. /\ ioctl'[p] = [ioctl[p] EXCEPT !.counting = TRUE]
          /\ ioctl' \in [Procs -> IoctlRec]
          /\ \A q \in Procs \ {p} : ioctl'[q] = ioctl[q]
        BY <1>1, <2>1 DEF DevicesInv, TurnsInv, IoctlRec
    <2>3. ioctl'[p].card = c /\ ioctl'[p].at = at /\ ioctl'[p].counting /\ ioctl'[p].alone = ioctl[p].alone
        BY <1>0, <1>1, <2>2 DEF IoctlRec
    <2>4. Turn(p)'
        BY <1>0, <1>1, <1>2, <1>5, <1>7, <2>1, <2>3 DEF Turn
    <2>5. TurnsInv'
        BY <1>10, <2>2, <2>4, OneTurn
    <2>6. ioctl'[p].alone => Lone(p)'
        <3> SUFFICES ASSUME ioctl[p].alone PROVE Lone(p)'
            BY <2>3
        <3>1. Lone(p)
            BY <1>5
        <3>2. CountsUp(c, m, TRUE)
            BY <1>0, <2>1, <3>1 DEF Lone, CountsUp
        <3>3. CountsUp(c, m, TRUE)'
            BY <1>0, <1>7, <2>1, <3>2 DEF CountsUp
        <3>4. \A q \in Procs : ioctl'[q].card = c => q = p
            BY <1>0, <2>2, <2>3, <3>1 DEF Lone
        <3> QED
            <4>1. /\ hw' = hw /\ mods' = mods
                  /\ ioctl'[p].card = c /\ ioctl'[p].at = at /\ ioctl'[p].counting
                BY <1>7, <2>1, <2>3
            <4>2. \A j \in 1 .. at :
                      Modules[j] /= m => mods[c].num[Modules[j]] = Found(hw[c])[Modules[j]]
                BY <1>0, <3>1 DEF Lone
            <4>3. Modules[at] = m
                BY <1>0
            <4> QED
                BY <3>3, <3>4, <4>1, <4>2, <4>3 DEF Lone, CountsUp
    <2>7. mods[c] \in [num : [ModuleNames -> Nat], ctrl_type : {"UNKNOWN", "MODULE"}]
          /\ mods' = [mods EXCEPT ![c] = mods[c]]
        BY <1>2, <1>3, <2>1
    <2>8. MapsInv'
        BY <1>0, <1>1, <1>4, <1>6, <1>7, <2>2, <2>3, <2>6, <2>7, IoctlMaps
    <2> QED
        BY <1>4, <2>5, <2>8
<1>9. CASE CountLane(p)
    <2> DEFINE num == [mods[c].num EXCEPT ![m] = n + 1]
               info == [mods[c] EXCEPT !.num = num]
    <2>1. ioctl' = [ioctl EXCEPT ![p] = [ioctl[p] EXCEPT !.counting = FALSE]] /\ ioctl[p].counting
          /\ mods' = [mods EXCEPT ![c] = info]
        BY <1>0, <1>9 DEF CountLane
    <2>2. /\ ioctl'[p] = [ioctl[p] EXCEPT !.counting = FALSE]
          /\ ioctl' \in [Procs -> IoctlRec]
          /\ \A q \in Procs \ {p} : ioctl'[q] = ioctl[q]
        BY <1>1, <2>1 DEF DevicesInv, TurnsInv, IoctlRec
    <2>3. ioctl'[p].card = c /\ ioctl'[p].at = at /\ ~ioctl'[p].counting /\ ioctl'[p].alone = ioctl[p].alone
        BY <1>0, <1>1, <2>2 DEF IoctlRec
    <2>4. Turn(p)'
        BY <1>0, <1>1, <1>2, <1>5, <1>7, <2>3 DEF Turn
    <2>5. TurnsInv'
        BY <1>10, <2>2, <2>4, OneTurn
    <2>6. n \in Nat /\ num \in [ModuleNames -> Nat] /\ num[m] = n + 1
          /\ \A k \in ModuleNames \ {m} : num[k] = mods[c].num[k]
        <3>1. mods[c].num \in [ModuleNames -> Nat]
            BY <1>2, <1>3
        <3>2. PICK old, x, y : old = mods[c].num /\ x = num /\ y = n + 1
            OBVIOUS
        <3>3. old \in [ModuleNames -> Nat]
            BY <3>1, <3>2, Zenon
        <3>4. n \in Nat /\ y \in Nat
            <4>1. n = old[m]
                BY <1>0, <3>2
            <4>2. n \in Nat
                BY <1>2, <3>3, <4>1
            <4> QED
                BY <3>2, <4>2
        <3>5. x = [old EXCEPT ![m] = y]
            BY <3>2
        <3>6. /\ x \in [ModuleNames -> Nat] /\ x[m] = y
              /\ \A k \in ModuleNames \ {m} : x[k] = old[k]
            BY <1>2, <3>3, <3>4, <3>5
        <3> QED
            BY <3>2, <3>4, <3>6
    <2> HIDE DEF num
    <2>7. info \in [num : [ModuleNames -> Nat], ctrl_type : {"UNKNOWN", "MODULE"}] /\ info.num = num
        BY <1>2, <1>3, <2>6
    <2> HIDE DEF info
    <2>8. mods'[c].num = num
        BY <1>2, <1>3, <2>1, <2>7
    <2>9. ioctl'[p].alone => Lone(p)'
        <3> SUFFICES ASSUME ioctl[p].alone PROVE Lone(p)'
            BY <2>3
        <3>1. Lone(p)
            BY <1>5
        <3>2. m /= "ptu"
            BY <1>0, <1>1, <1>5, <2>1 DEF Turn
        <3>3. CountsUp(c, m, TRUE)
            BY <1>0, <2>1, <3>1, <3>2 DEF Lone, CountsUp
        <3>4. n + 1 <= XPCIE_KERNEL_LANE_MAX /\ \A l \in 0 .. n : l \in hw[c][m]
            <4>1. n < XPCIE_KERNEL_LANE_MAX /\ n \in hw[c][m] /\ \A l \in 0 .. n - 1 : l \in hw[c][m]
                BY <1>0, <3>3 DEF CountsUp
            <4>2. \A l \in 0 .. n : l = n \/ l \in 0 .. n - 1
                BY <2>6
            <4> QED
                BY <2>6, <4>1, <4>2, DevicesAssumption
        <3>5. CountsUp(c, m, FALSE)'
            <4>1. mods'[c].num[m] = n + 1 /\ 0 .. (n + 1) - 1 = 0 .. n
                BY <2>6, <2>8
            <4> QED
                BY <1>7, <3>4, <4>1 DEF CountsUp
        <3>6. \A q \in Procs : ioctl'[q].card = c => q = p
            BY <1>0, <2>2, <2>3, <3>1 DEF Lone
        <3>7. \A j \in 1 .. at : Modules[j] \in ModuleNames
            BY <1>0, <1>1, <1>2, AtModule
        <3>8. \A j \in 1 .. at : Modules[j] /= m => mods'[c].num[Modules[j]] = Found(hw[c])[Modules[j]]
            BY <1>0, <2>6, <2>8, <3>1, <3>7 DEF Lone
        <3> QED
            <4>1. hw' = hw /\ ioctl'[p].card = c /\ ioctl'[p].at = at /\ ~ioctl'[p].counting
                  /\ Modules[at] = m
                BY <1>0, <1>7, <2>3
            <4>2. Found(hw[c])' = Found(hw'[c])
                OBVIOUS
            <4> QED
                BY <3>5, <3>6, <3>8, <4>1 DEF Lone, CountsUp
    <2>10. MapsInv'
        BY <1>0, <1>1, <1>4, <1>6, <1>7, <2>1, <2>2, <2>3, <2>7, <2>9, IoctlMaps
    <2> QED
        BY <1>4, <2>5, <2>10
<1> QED
    BY <1>8, <1>9

\* A count that stops counts the lanes before the first gap.
LEMMA CountFinds ==
    ASSUME NEW c, NEW m, m /= "ptu", CountsUp(c, m, FALSE), LoopEnded(c, m),
           NEW n \in Nat, n = mods[c].num[m]
    PROVE  Prefix(hw[c][m]) = n
<1>1. n <= XPCIE_KERNEL_LANE_MAX /\ XPCIE_KERNEL_LANE_MAX \in Nat
    BY DevicesAssumption DEF CountsUp
<1>2. \A l \in 0 .. n - 1 : l \in hw[c][m]
    BY DEF CountsUp
<1>3. n \in 0 .. XPCIE_KERNEL_LANE_MAX
    BY <1>1
<1>4. n < XPCIE_KERNEL_LANE_MAX => n \notin hw[c][m]
    BY <1>1 DEF LoopEnded, Answers
<1> QED
    BY <1>2, <1>3, <1>4, PrefixDef

\* The loop of a lone discovery ends with what is there.
LEMMA LoopFinds ==
    ASSUME DevicesInv, NEW p \in Procs, ioctl[p] /= Idle, ioctl[p].alone,
           ~ioctl[p].counting,
           NEW c, c = ioctl[p].card, NEW m, m = Modules[ioctl[p].at],
           LoopEnded(c, m),
           NEW here, here = IF m = "ptu" THEN mods[c].num["chain"] ELSE mods[c].num[m]
    PROVE  here = Found(hw[c])[m]
<1>1. c \in Cards /\ m \in ModuleNames /\ ioctl[p].at \in 1 .. Len(Modules)
      /\ Modules[1] = "chain" /\ "chain" \in ModuleNames
    BY AtModule
<1>2. Lone(p)
    BY DEF DevicesInv, MapsInv
<1>3. mods[c].num \in [ModuleNames -> Nat]
    BY <1>1 DEF DevicesInv, MapsInv
<1>4. CASE m = "ptu"
    <2>1. Found(hw[c])[m] = Found(hw[c])["chain"]
        BY <1>1, <1>4 DEF Found
    <2>2. 1 \in 1 .. ioctl[p].at
        BY <1>1
    <2>3. mods[c].num[Modules[1]] = Found(hw[c])[Modules[1]]
        BY <1>1, <1>2, <1>4, <2>2 DEF Lone
    <2> QED
        BY <1>1, <1>4, <2>1, <2>3
<1>5. CASE m /= "ptu"
    <2>1. CountsUp(c, m, FALSE)
        <3>1. CountsUp(ioctl[p].card, m, ioctl[p].counting)
            BY <1>2, <1>5 DEF Lone
        <3> QED
            BY <3>1 DEF CountsUp
    <2>2. here = mods[c].num[m] /\ here \in Nat
        BY <1>1, <1>3, <1>5
    <2>4. Prefix(hw[c][m]) = here
        BY <1>5, <2>1, <2>2, CountFinds
    <2> QED
        BY <1>1, <1>5, <2>4 DEF Found
<1> QED
    BY <1>4, <1>5

\* The next module begins.
LEMMA NextModuleKeeps ==
    ASSUME DevicesInv, NEW p \in Procs, NextModule(p)
    PROVE  DriverInv' /\ TablesInv' /\ TurnsInv' /\ MapsInv' /\ CountKeeps
<1>0. PICK c, at, m, next, here :
        /\ c = ioctl[p].card /\ at = ioctl[p].at /\ m = Modules[at] /\ next = Modules[at + 1]
        /\ here = IF m = "ptu" THEN mods[c].num["chain"] ELSE mods[c].num[m]
    OBVIOUS
<1>1. ioctl[p] /= Idle /\ ioctl[p] \in IoctlRec /\ ~ioctl[p].counting
    BY DEF NextModule, DevicesInv, TurnsInv
<1>2. /\ c \in Cards /\ m \in ModuleNames /\ at \in 1 .. Len(Modules)
      /\ at < Len(Modules) /\ next \in ModuleNames
      /\ "chain" \in ModuleNames
    <2>1. at < Len(Modules)
        BY <1>0 DEF NextModule
    <2>2. at \in 1 .. Len(Modules) /\ Len(Modules) \in Nat
        BY <1>0, <1>1, AtModule, DevicesAssumption
    <2>3. at + 1 \in 1 .. Len(Modules)
        BY <2>1, <2>2
    <2> QED
        BY <1>0, <1>1, <2>1, <2>3, AtModule
<1>3. mods[c] \in [num : [ModuleNames -> Nat], ctrl_type : {"UNKNOWN", "MODULE"}]
    BY <1>2 DEF DevicesInv, MapsInv
<1>4. DriverInv' /\ TablesInv' /\ CountKeeps /\ UNCHANGED drvVars /\ UNCHANGED libVars /\ UNCHANGED sound
    BY DiscoveryKeepsRest DEF NextModule
<1>5. Turn(p)
    BY DEF DevicesInv, TurnsInv
<1>6. c \notin sound
    BY <1>0 DEF DevicesInv, MapsInv, Running
<1>7. UNCHANGED <<work, files, hw>>
    BY <1>4 DEF libVars, drvVars
<1> DEFINE ended == [mods[c].num EXCEPT ![m] = here]
           num == IF next = "ptu" THEN ended ELSE [ended EXCEPT ![next] = 0]
           info == [mods[c] EXCEPT !.num = num]
<1>8. /\ ioctl' = [ioctl EXCEPT ![p] = [ioctl[p] EXCEPT !.at = at + 1]]
      /\ mods' = [mods EXCEPT ![c] = info]
      /\ LoopEnded(c, m)
    BY <1>0 DEF NextModule
<1>9. /\ ioctl'[p] = [ioctl[p] EXCEPT !.at = at + 1]
      /\ ioctl' \in [Procs -> IoctlRec]
      /\ \A q \in Procs \ {p} : ioctl'[q] = ioctl[q]
    <2>1. at + 1 \in 0 .. Len(Modules) /\ Len(Modules) \in Nat
        BY <1>2, DevicesAssumption
    <2> QED
        BY <1>1, <1>8, <2>1 DEF DevicesInv, TurnsInv, IoctlRec
<1>10. ioctl'[p].card = c /\ ioctl'[p].at = at + 1 /\ ~ioctl'[p].counting
       /\ ioctl'[p].alone = ioctl[p].alone
    BY <1>0, <1>1, <1>9 DEF IoctlRec
<1>11. Turn(p)'
    BY <1>0, <1>1, <1>2, <1>5, <1>7, <1>10 DEF Turn
<1>12. TurnsInv'
    BY <1>4, <1>9, <1>11, OneTurn
<1>13. here \in Nat /\ mods[c].num \in [ModuleNames -> Nat]
    BY <1>0, <1>2, <1>3
<1>14. /\ num \in [ModuleNames -> Nat]
       /\ m /= next => num[m] = here
       /\ next /= "ptu" => num[next] = 0
       /\ \A k \in ModuleNames \ {m, next} : num[k] = mods[c].num[k]
    BY <1>2, <1>13
<1> HIDE DEF num
<1>15. info \in [num : [ModuleNames -> Nat], ctrl_type : {"UNKNOWN", "MODULE"}] /\ info.num = num
    BY <1>3, <1>14
<1> HIDE DEF info
<1>16. mods'[c].num = num
    BY <1>2, <1>8, <1>15 DEF DevicesInv, MapsInv
<1>17. ioctl'[p].alone => Lone(p)'
    <2> SUFFICES ASSUME ioctl[p].alone PROVE Lone(p)'
        BY <1>10
    <2>1. Lone(p)
        BY <1>1 DEF DevicesInv, MapsInv
    <2>2. here = Found(hw[c])[m]
        BY <1>0, <1>1, <1>8, LoopFinds
    <2>3. \A q \in Procs : ioctl'[q].card = c => q = p
        BY <1>0, <1>9, <2>1 DEF Lone
    <2>4. ASSUME NEW j \in 1 .. at + 1, Modules[j] /= next
          PROVE  mods'[c].num[Modules[j]] = Found(hw[c])[Modules[j]]
        <3>1. j \in 1 .. at /\ Modules[j] \in ModuleNames
            <4>1. j /= at + 1
                BY <1>0, <2>4
            <4>2. j \in 1 .. at /\ j \in 1 .. Len(Modules)
                BY <1>2, <4>1
            <4> QED
                BY <1>1, <4>2, AtModule
        <3>2. CASE Modules[j] = m
            BY <1>14, <1>16, <2>2, <2>4, <3>2
        <3>3. CASE Modules[j] /= m
            <4>1. mods[c].num[Modules[j]] = Found(hw[c])[Modules[j]]
                BY <1>0, <2>1, <3>1, <3>3 DEF Lone
            <4>2. num[Modules[j]] = mods[c].num[Modules[j]]
                BY <1>14, <2>4, <3>1, <3>3
            <4> QED
                BY <1>16, <4>1, <4>2
        <3> QED
            BY <3>2, <3>3
    <2>5. next /= "ptu" => CountsUp(c, next, FALSE)'
        BY <1>14, <1>16, DevicesAssumption DEF CountsUp
    <2>6. hw' = hw /\ ioctl'[p].card = c /\ ioctl'[p].at = at + 1 /\ ~ioctl'[p].counting
          /\ Modules[at + 1] = next
        BY <1>0, <1>7, <1>10
    <2> QED
        BY <2>3, <2>4, <2>5, <2>6 DEF Lone, CountsUp
<1>18. MapsInv'
    BY <1>0, <1>1, <1>4, <1>6, <1>8, <1>9, <1>10, <1>15, <1>17, IoctlMaps
<1> QED
    BY <1>4, <1>12, <1>18

\* A discovery ends, for better or worse.
LEMMA EndKeeps ==
    ASSUME DevicesInv, NEW p \in Procs, EndDiscovery(p) \/ FailDiscovery(p)
    PROVE  DriverInv' /\ TablesInv' /\ TurnsInv' /\ MapsInv' /\ CountKeeps
<1>0. PICK c, m : c = ioctl[p].card /\ m = Modules[ioctl[p].at]
    OBVIOUS
<1>1. ioctl[p] /= Idle /\ ~ioctl[p].counting /\ ioctl' = [ioctl EXCEPT ![p] = Idle]
      /\ LoopEnded(c, m)
    BY <1>0 DEF EndDiscovery, FailDiscovery
<1>2. c \in Cards /\ m \in ModuleNames
    BY <1>0, <1>1, AtModule
<1>3. mods[c] \in [num : [ModuleNames -> Nat], ctrl_type : {"UNKNOWN", "MODULE"}]
    BY <1>2 DEF DevicesInv, MapsInv
<1>4. DriverInv' /\ TablesInv' /\ CountKeeps /\ UNCHANGED drvVars /\ UNCHANGED libVars
    BY DiscoveryKeepsRest DEF EndDiscovery, FailDiscovery
<1>5. c \notin sound
    BY <1>0 DEF DevicesInv, MapsInv, Running
<1>6. Idle \in IoctlRec /\ Idle.card = None
    BY DevicesAssumption DEF Idle, IoctlRec
<1>7. /\ ioctl'[p] = Idle
      /\ ioctl' \in [Procs -> IoctlRec]
      /\ \A q \in Procs \ {p} : ioctl'[q] = ioctl[q]
    BY <1>1, <1>6 DEF DevicesInv, TurnsInv
<1>8. Turn(p)'
    BY <1>4, <1>7 DEF libVars, DevicesInv, TurnsInv, Turn
<1>9. TurnsInv'
    BY <1>4, <1>7, <1>8, OneTurn
<1>10. UNCHANGED hw
    BY <1>4 DEF drvVars
<1>11. CASE EndDiscovery(p)
    <2> DEFINE info == [mods[c] EXCEPT !.ctrl_type = "MODULE"]
    <2>1. /\ ioctl[p].at = Len(Modules) /\ mods' = [mods EXCEPT ![c] = info]
          /\ sound' = IF ioctl[p].alone THEN sound \union {c} ELSE sound
        BY <1>0, <1>11 DEF EndDiscovery
    <2>2. info \in [num : [ModuleNames -> Nat], ctrl_type : {"UNKNOWN", "MODULE"}]
          /\ info = [num |-> mods[c].num, ctrl_type |-> "MODULE"]
        BY <1>3
    <2> HIDE DEF info
    <2>3. ASSUME ioctl[p].alone
          PROVE  Running(c)' = {} /\ info = [num |-> Found(hw[c]), ctrl_type |-> "MODULE"]
        <3>1. Lone(p)
            BY <1>1, <2>3 DEF DevicesInv, MapsInv
        <3>2. Running(c)' = {}
            BY <1>0, <1>2, <1>6, <1>7, <3>1, DevicesAssumption DEF Running, Lone
        <3>3. mods[c].num = Found(hw[c])
            <4>1. mods[c].num \in [ModuleNames -> Nat] /\ DOMAIN Found(hw[c]) = ModuleNames
                BY <1>3 DEF Found
            <4>2. ASSUME NEW k \in ModuleNames
                  PROVE  mods[c].num[k] = Found(hw[c])[k]
                <5>1. PICK j \in 1 .. Len(Modules) : Modules[j] = k
                    BY DevicesAssumption DEF ModuleNames, Range
                <5>2. CASE k /= m
                    BY <1>0, <2>1, <3>1, <5>1, <5>2 DEF Lone
                <5>3. CASE k = m
                    <6>1. m /= "ptu"
                        <7>1. Last(Modules) = m
                            BY <1>0, <2>1 DEF Last
                        <7> QED
                            BY <7>1, DevicesAssumption
                    <6>2. mods[c].num[m] = Found(hw[c])[m]
                        BY <1>0, <1>1, <2>3, <6>1, LoopFinds
                    <6> QED
                        BY <5>3, <6>2
                <5> QED
                    BY <5>2, <5>3
            <4>3. Found(hw[c]) = [k \in ModuleNames |-> Found(hw[c])[k]]
                BY DEF Found
            <4>4. mods[c].num = [k \in ModuleNames |-> mods[c].num[k]]
                BY <4>1
            <4> QED
                BY <4>2, <4>3, <4>4
        <3> QED
            BY <2>2, <3>2, <3>3
    <2>4. MapsInv'
        BY <1>0, <1>1, <1>4, <1>5, <1>6, <1>7, <2>1, <2>2, <2>3, IoctlMaps
    <2> QED
        BY <1>4, <1>9, <2>4
<1>12. CASE FailDiscovery(p)
    <2>1. mods' = [mods EXCEPT ![c] = mods[c]] /\ sound' = sound
        BY <1>2, <1>12 DEF FailDiscovery, DevicesInv, MapsInv
    <2>2. MapsInv'
        BY <1>0, <1>1, <1>3, <1>4, <1>5, <1>6, <1>7, <2>1, IoctlMaps
    <2> QED
        BY <1>4, <1>9, <2>2
<1> QED
    BY <1>11, <1>12

\* A discovery starts on a card that the process has open.
LEMMA StartKeeps ==
    ASSUME DevicesInv, NEW p \in Procs, NEW i \in Slots, xpcie_fpga_get_control_type(p, i)
    PROVE  DriverInv' /\ TablesInv' /\ TurnsInv' /\ MapsInv' /\ CountKeeps
<1>0. PICK c, run : c = devices[p][i].file /\ run = [card |-> c, at |-> 1, counting |-> FALSE,
                                                  alone |-> Running(c) = {}]
    OBVIOUS
<1>1. Free(p) /\ c /= None /\ UNCHANGED drvVars /\ UNCHANGED libVars /\ sound' = sound \ {c}
    BY <1>0 DEF xpcie_fpga_get_control_type
<1>2. c \in Cards /\ files[p][c] > 0
    <2>1. devices[p][i] \in EntryRec
        BY DEF DevicesInv, TablesInv
    <2>2. c \in Cards
        BY <1>0, <1>1, <2>1 DEF EntryRec
    <2> QED
        BY <1>0, <2>2, OpenIsListed
<1>3. mods[c] \in [num : [ModuleNames -> Nat], ctrl_type : {"UNKNOWN", "MODULE"}]
    BY <1>2 DEF DevicesInv, MapsInv
<1>4. DriverInv' /\ TablesInv' /\ CountKeeps
    BY <1>1, DiscoveryKeepsRest
<1>5. UNCHANGED <<work, files, hw, dev_list>>
    BY <1>1 DEF libVars, drvVars
<1>6. run \in IoctlRec /\ run.card = c /\ run.at = 1 /\ run.counting = FALSE
      /\ run.alone = (Running(c) = {}) /\ 1 \in 1 .. Len(Modules) /\ Modules[1] = "chain"
      /\ "chain" \in ModuleNames
    BY <1>0, <1>2, DevicesAssumption DEF IoctlRec, ModuleNames, Range
<1>7. /\ ioctl' \in [Procs -> IoctlRec]
      /\ ioctl'[p] = run
      /\ \A q \in Procs \ {p} :
             ioctl'[q] = IF ioctl[q].card = c THEN [ioctl[q] EXCEPT !.alone = FALSE] ELSE ioctl[q]
    <2>1. ioctl' = [q \in Procs |->
                      IF q = p THEN run
                      ELSE IF ioctl[q].card = c THEN [ioctl[q] EXCEPT !.alone = FALSE]
                      ELSE ioctl[q]]
        BY <1>0 DEF xpcie_fpga_get_control_type
    <2>2. \A q \in Procs : ioctl[q] \in IoctlRec
        BY DEF DevicesInv, TurnsInv
    <2>3. \A q \in Procs : [ioctl[q] EXCEPT !.alone = FALSE] \in IoctlRec
        BY <2>2 DEF IoctlRec
    <2> QED
        BY <1>6, <2>1, <2>2, <2>3
<1>8. \A q \in Procs \ {p} :
          /\ ioctl'[q].card = ioctl[q].card /\ ioctl'[q].at = ioctl[q].at
          /\ ioctl'[q].counting = ioctl[q].counting
          /\ ioctl[q] = Idle => ioctl'[q] = Idle
          /\ ioctl[q].card = c => ~ioctl'[q].alone
          /\ ioctl[q].card /= c => ioctl'[q] = ioctl[q]
    <2> TAKE q \in Procs \ {p}
    <2>1. ioctl[q] \in IoctlRec
        BY DEF DevicesInv, TurnsInv
    <2>2. ioctl[q].card = c => ioctl[q] /= Idle
        BY <1>2, OpenIsListed
    <2> QED
        BY <1>7, <2>1, <2>2 DEF IoctlRec
<1>9. Turn(p)'
    BY <1>1, <1>2, <1>5, <1>6, <1>7 DEF Turn, Free, NoWork, DevicesInv, TurnsInv
<1>10. TurnsInv'
    BY <1>1, <1>7, <1>8, <1>9, IoctlTurns
<1> DEFINE num == [mods[c].num EXCEPT !["chain"] = 0]
           info == [num |-> num, ctrl_type |-> "UNKNOWN"]
<1>11. num \in [ModuleNames -> Nat] /\ num["chain"] = 0
    BY <1>3, <1>6
<1> HIDE DEF num
<1>12. info \in [num : [ModuleNames -> Nat], ctrl_type : {"UNKNOWN", "MODULE"}] /\ info.num = num
    BY <1>11
<1>13. mods' = [mods EXCEPT ![c] = info]
    BY <1>0, <1>6 DEF xpcie_fpga_get_control_type, num
<1> HIDE DEF info
<1>14. mods \in [Cards -> [num : [ModuleNames -> Nat], ctrl_type : {"UNKNOWN", "MODULE"}]]
    BY DEF DevicesInv, MapsInv
<1>15. /\ mods' \in [Cards -> [num : [ModuleNames -> Nat], ctrl_type : {"UNKNOWN", "MODULE"}]]
       /\ \A d \in Cards \ {c} : mods'[d] = mods[d]
       /\ mods'[c].num = num
    BY <1>2, <1>12, <1>13, <1>14
<1>16. sound' \subseteq Listed' /\ \A d \in sound' : d \in sound /\ d \in Cards /\ d /= c
    BY <1>1, <1>5 DEF DevicesInv, MapsInv, DriverInv, Listed, Range
<1>17. \A d \in sound' : Running(d)' = {} /\ mods'[d] = [num |-> Found(hw'[d]), ctrl_type |-> "MODULE"]
    <2> TAKE d \in sound'
    <2>1. Running(d) = {} /\ mods[d] = [num |-> Found(hw[d]), ctrl_type |-> "MODULE"]
        BY <1>16 DEF DevicesInv, MapsInv, MapIsHardware
    <2>2. Running(d)' = {}
        BY <1>6, <1>7, <1>8, <1>16, <2>1 DEF Running
    <2> QED
        BY <1>5, <1>15, <1>16, <2>1, <2>2
<1>18. ASSUME NEW q \in Procs \ {p}, ioctl'[q] /= Idle, ioctl'[q].alone
       PROVE  Lone(q)'
    <2>1. ioctl[q].card /= c /\ ioctl'[q] = ioctl[q]
        BY <1>8, <1>18
    <2>2. Lone(q) /\ ioctl[q].card \in Cards
        BY <1>18, <2>1, AtModule DEF DevicesInv, MapsInv
    <2>3. \A r \in Procs : ioctl'[r].card = ioctl[q].card => r = q
        BY <1>6, <1>7, <1>8, <2>1, <2>2 DEF Lone
    <2>4. hw'[ioctl[q].card] = hw[ioctl[q].card] /\ mods'[ioctl[q].card] = mods[ioctl[q].card]
        BY <1>5, <1>15, <2>1, <2>2
    <2> QED
        BY <2>1, <2>2, <2>3, <2>4, LoneSame
<1>19. ioctl'[p].alone => Lone(p)'
    <2> SUFFICES ASSUME Running(c) = {} PROVE Lone(p)'
        BY <1>6, <1>7
    <2>1. \A q \in Procs : ioctl'[q].card = c => q = p
        BY <1>8 DEF Running
    <2>2. \A j \in 1 .. 1 : Modules[j] = "chain"
        BY <1>6
    <2>3. CountsUp(c, "chain", FALSE)'
        BY <1>11, <1>15, DevicesAssumption DEF CountsUp
    <2> QED
        BY <1>6, <1>7, <2>1, <2>2, <2>3 DEF Lone
<1>20. MapIsHardware' /\ \A d \in sound' : Running(d)' = {}
    BY <1>17 DEF MapIsHardware
<1>21. MapsInv'
    BY <1>15, <1>16, <1>18, <1>19, <1>20 DEF MapsInv
<1> QED
    BY <1>4, <1>10, <1>21

-----------------------------------------------------------------------------
(***************************************************************************)
(* The driver and its list.                                                *)
(***************************************************************************)

\* What a list holds when one of its different elements is taken out.
LEMMA RemoveListed ==
    ASSUME NEW S, NEW s \in Seq(S), IsInjective(s), NEW i \in DOMAIN s
    PROVE  /\ RemoveAt(s, i) \in Seq(S) /\ IsInjective(RemoveAt(s, i))
           /\ Range(RemoveAt(s, i)) = Range(s) \ {s[i]}
<1> DEFINE a == SubSeq(s, 1, i - 1)
           b == SubSeq(s, i + 1, Len(s))
           r == RemoveAt(s, i)
<1>1. Len(s) \in Nat /\ i \in 1 .. Len(s) /\ DOMAIN s = 1 .. Len(s)
      /\ \A k \in 1 .. Len(s) : s[k] \in S
    OBVIOUS
<1>2. a \in Seq(S) /\ Len(a) = i - 1 /\ \A k \in 1 .. i - 1 : a[k] = s[k]
    <2>1. 1 \in 1 .. Len(s) + 1 /\ i - 1 \in 1 - 1 .. Len(s)
        BY <1>1
    <2>2. /\ a \in Seq(S)
          /\ Len(a) = IF 1 <= i - 1 THEN i - 1 - 1 + 1 ELSE 0
          /\ \A k \in 1 .. i - 1 - 1 + 1 : a[k] = s[1 + k - 1]
        BY <2>1, SubSeqProperties
    <2> HIDE DEF a
    <2> QED
        BY <1>1, <2>2
<1>3. b \in Seq(S) /\ Len(b) = Len(s) - i /\ \A k \in 1 .. Len(s) - i : b[k] = s[i + k]
    <2>1. i + 1 \in 1 .. Len(s) + 1 /\ Len(s) \in i + 1 - 1 .. Len(s)
        BY <1>1
    <2>2. /\ b \in Seq(S)
          /\ Len(b) = IF i + 1 <= Len(s) THEN Len(s) - (i + 1) + 1 ELSE 0
          /\ \A k \in 1 .. Len(s) - (i + 1) + 1 : b[k] = s[i + 1 + k - 1]
        BY <2>1, SubSeqProperties
    <2> HIDE DEF b
    <2>3. \A k \in 1 .. Len(s) - i : b[k] = s[i + k]
        <3> TAKE k \in 1 .. Len(s) - i
        <3>1. k \in 1 .. Len(s) - (i + 1) + 1 /\ i + 1 + k - 1 = i + k
            BY <1>1
        <3> QED
            BY <2>2, <3>1
    <2> QED
        BY <1>1, <2>2, <2>3
<1>4. r = a \o b
    BY DEF RemoveAt
<1> HIDE DEF a, b, r
<1>5. r \in Seq(S) /\ Len(r) = Len(s) - 1 /\ DOMAIN r = 1 .. Len(s) - 1
    <2>1. r \in Seq(S) /\ Len(r) = Len(a) + Len(b)
        BY <1>2, <1>3, <1>4, ConcatProperties
    <2> QED
        BY <1>1, <1>2, <1>3, <2>1
<1>6. ASSUME NEW k \in 1 .. Len(s) - 1
      PROVE  r[k] = IF k < i THEN s[k] ELSE s[k + 1]
    <2>0. r[k] = IF k <= Len(a) THEN a[k] ELSE b[k - Len(a)]
        <3>1. k \in 1 .. Len(a) + Len(b)
            BY <1>1, <1>2, <1>3
        <3> QED
            BY <1>2, <1>3, <1>4, <3>1, ConcatProperties
    <2>1. CASE k < i
        BY <1>1, <1>2, <2>0, <2>1
    <2>2. CASE ~(k < i)
        <3>1. r[k] = b[k - (i - 1)]
            BY <1>1, <1>2, <2>0, <2>2
        <3>2. k - (i - 1) \in 1 .. Len(s) - i /\ i + (k - (i - 1)) = k + 1
            BY <1>1, <2>2
        <3> QED
            BY <1>3, <2>2, <3>1, <3>2
    <2> QED
        BY <2>1, <2>2
<1>7. IsInjective(r)
    <2>1. \A k, j \in 1 .. Len(s) : s[k] = s[j] => k = j
        BY <1>1 DEF IsInjective
    <2>2. ASSUME NEW k \in 1 .. Len(s) - 1, NEW j \in 1 .. Len(s) - 1, r[k] = r[j]
          PROVE  k = j
        <3>1. k \in 1 .. Len(s) /\ k + 1 \in 1 .. Len(s) /\ j \in 1 .. Len(s) /\ j + 1 \in 1 .. Len(s)
            BY <1>1
        <3> QED
            BY <1>1, <1>6, <2>1, <2>2, <3>1
    <2> QED
        BY <1>5, <2>2 DEF IsInjective
<1>8. ASSUME NEW x \in Range(r)
      PROVE  x \in Range(s) \ {s[i]}
    <2>1. PICK k \in 1 .. Len(s) - 1 : r[k] = x
        BY <1>5 DEF Range
    <2>2. PICK j \in 1 .. Len(s) : s[j] = x /\ j /= i
        <3>1. CASE k < i
            BY <1>1, <1>6, <2>1, <3>1
        <3>2. CASE ~(k < i)
            BY <1>1, <1>6, <2>1, <3>2
        <3> QED
            BY <3>1, <3>2
    <2> QED
        BY <1>1, <2>2 DEF Range, IsInjective
<1>9. ASSUME NEW x \in Range(s) \ {s[i]}
      PROVE  x \in Range(r)
    <2>1. PICK j \in 1 .. Len(s) : s[j] = x /\ j /= i
        BY <1>1 DEF Range
    <2>2. CASE j < i
        <3>1. j \in 1 .. Len(s) - 1 /\ r[j] = x
            BY <1>1, <1>6, <2>1, <2>2
        <3> QED
            BY <1>5, <3>1 DEF Range
    <2>3. CASE ~(j < i)
        <3>1. j - 1 \in 1 .. Len(s) - 1 /\ ~(j - 1 < i) /\ (j - 1) + 1 = j
            BY <1>1, <2>1, <2>3
        <3>2. r[j - 1] = x
            BY <1>6, <2>1, <3>1
        <3> QED
            BY <1>5, <3>1, <3>2 DEF Range
    <2> QED
        BY <2>2, <2>3
<1> QED
    BY <1>5, <1>7, <1>8, <1>9 DEF r

\* The tables stay as they are, and what they have open stays in the list.
LEMMA ListKeepsTables ==
    ASSUME DevicesInv, UNCHANGED libVars,
           \A p \in Procs, c \in Listed : files[p][c] > 0 => c \in Listed'
    PROVE  TablesInv' /\ CountKeeps
<1>1. UNCHANGED <<devices, devices_num, files>>
    BY DEF libVars
<1>2. ASSUME NEW p \in Procs
      PROVE  Excess(p)' = Excess(p) /\ Excess(p)' \in Nat /\ Fine(Table(p), Excess(p))'
    <2>1. Fine(Table(p), Excess(p)) /\ Excess(p) \in Nat /\ Table(p).dev = devices[p] /\ Table(p).files = files[p]
        BY FineTable DEF Table
    <2>2. \A i \in Named(devices[p]) : devices[p][i].name \in Listed'
        <3> TAKE i \in Named(devices[p])
        <3>1. devices[p][i].name \in Listed /\ i \in Slots /\ devices[p][i].name \in Cards
            BY <2>1 DEF Fine, Named, TableRec, EntryRec
        <3>2. files[p][devices[p][i].name] > 0
            BY <2>1, <3>1, OpenIsListed DEF Fine
        <3> QED
            BY <3>1, <3>2
    <2>3. Table(p)' = Table(p) /\ Excess(p)' = Excess(p)
        BY <1>1 DEF Table, Excess, Named
    <2> QED
        BY <2>1, <2>2, <2>3 DEF Fine, TableRec
<1> QED
    BY <1>1, <1>2 DEF DevicesInv, TablesInv, CountKeeps

\* No discovery runs on a card whose map the driver writes.
LEMMA DriverMaps ==
    ASSUME DevicesInv, UNCHANGED <<hw, ioctl>>,
           mods' \in [Cards -> [num : [ModuleNames -> Nat], ctrl_type : {"UNKNOWN", "MODULE"}]],
           \A p \in Procs : ioctl[p] /= Idle => mods'[ioctl[p].card] = mods[ioctl[p].card],
           sound' \subseteq Listed',
           \A c \in sound' : /\ Running(c) = {}
                             /\ mods'[c] = [num |-> Found(hw[c]), ctrl_type |-> "MODULE"]
    PROVE  MapsInv'
<1>1. ASSUME NEW p \in Procs, ioctl[p] /= Idle, ioctl[p].alone
      PROVE  Lone(p)'
    <2>1. Lone(p)
        BY <1>1 DEF DevicesInv, MapsInv
    <2>2. \A r \in Procs : ioctl'[r].card = ioctl[p].card => r = p
        BY <2>1 DEF Lone
    <2> QED
        BY <1>1, <2>1, <2>2, LoneSame
<1>2. MapIsHardware' /\ \A c \in sound' : Running(c)' = {}
    BY DEF MapIsHardware, Running
<1> QED
    BY <1>1, <1>2 DEF MapsInv

\* A card without open files is in no discovery.
LEMMA NoFilesNoRun ==
    ASSUME DevicesInv, NEW c \in Cards, NoFiles(c)
    PROVE  Running(c) = {} /\ \A p \in Procs : ioctl[p] /= Idle => ioctl[p].card /= c
<1>1. ASSUME NEW p \in Procs
      PROVE  ioctl[p].card /= c
    BY OpenIsListed DEF NoFiles
<1> QED
    BY <1>1 DEF Running

LEMMA TurnsKept ==
    ASSUME DevicesInv, UNCHANGED libVars, UNCHANGED ioctl
    PROVE  TurnsInv'
BY DEF libVars, DevicesInv, TurnsInv, Turn

\* A card in front of a list.
LEMMA InFront ==
    ASSUME NEW s \in Seq(Cards), NEW c \in Cards
    PROVE  /\ <<c>> \o s \in Seq(Cards) /\ DOMAIN (<<c>> \o s) = 1 .. Len(s) + 1
           /\ (<<c>> \o s)[1] = c
           /\ \A i \in 1 .. Len(s) : (<<c>> \o s)[i + 1] = s[i]
           /\ \A i \in 2 .. Len(s) + 1 : (<<c>> \o s)[i] = s[i - 1] /\ i - 1 \in DOMAIN s
<1>1. Len(s) \in Nat /\ DOMAIN s = 1 .. Len(s)
    OBVIOUS
<1>2. PICK t : t = <<c>> \o s
    OBVIOUS
<1>3. t \in Seq(Cards) /\ Len(t) = Len(s) + 1 /\ t[1] = c
    BY <1>2
<1>4. DOMAIN t = 1 .. Len(s) + 1
    BY <1>3
<1>5. \A i \in 1 .. Len(s) + 1 : t[i] = IF i <= 1 THEN <<c>>[i] ELSE s[i - 1]
    BY <1>2
<1>6. \A i \in 1 .. Len(s) : t[i + 1] = s[i]
    BY <1>1, <1>5
<1>7. \A i \in 2 .. Len(s) + 1 : t[i] = s[i - 1] /\ i - 1 \in DOMAIN s
    BY <1>1, <1>5
<1> QED
    BY <1>2, <1>3, <1>4, <1>6, <1>7

\* A card that is not listed has no open files; it gets a number of its own.
LEMMA ProbeKeeps ==
    ASSUME DevicesInv, NEW c \in Cards, xpcie_pci_probe(c)
    PROVE  DriverInv' /\ TablesInv' /\ TurnsInv' /\ MapsInv' /\ CountKeeps
<1>1. /\ c \notin Listed /\ fpga_num_devs < MaxProbes
      /\ dev_list' = <<c>> \o dev_list
      /\ minor' = [minor EXCEPT ![c] = fpga_num_devs]
      /\ fpga_num_devs' = fpga_num_devs + 1
      /\ mods' = [mods EXCEPT ![c] = [num |-> Found(hw[c]), ctrl_type |-> "MODULE"]]
      /\ sound' = sound \union {c}
      /\ UNCHANGED <<hw, ioctl>> /\ UNCHANGED libVars
    BY DEF xpcie_pci_probe
<1>2. /\ dev_list \in Seq(Cards) /\ Len(dev_list) \in Nat /\ IsInjective(dev_list)
      /\ DOMAIN dev_list = 1 .. Len(dev_list)
      /\ minor \in [Cards -> -1 .. MaxProbes - 1] /\ fpga_num_devs \in 0 .. MaxProbes
      /\ MinorsOK /\ MaxProbes \in Nat
    BY DevicesAssumption DEF DevicesInv, DriverInv
<1>3. /\ dev_list' \in Seq(Cards) /\ DOMAIN dev_list' = 1 .. Len(dev_list) + 1
      /\ dev_list'[1] = c
      /\ \A i \in 1 .. Len(dev_list) : dev_list'[i + 1] = dev_list[i]
      /\ \A i \in 2 .. Len(dev_list) + 1 : dev_list'[i] = dev_list[i - 1] /\ i - 1 \in DOMAIN dev_list
    BY <1>1, <1>2, InFront
<1>4. \A i \in DOMAIN dev_list : dev_list[i] /= c
    BY <1>1 DEF Listed, Range
<1>5. IsInjective(dev_list')
    <2> SUFFICES ASSUME NEW i \in 1 .. Len(dev_list) + 1, NEW j \in 1 .. Len(dev_list) + 1,
                        dev_list'[i] = dev_list'[j]
                 PROVE  i = j
        BY <1>3 DEF IsInjective
    <2>1. i = 1 \/ i \in 2 .. Len(dev_list) + 1
        BY <1>2
    <2>2. j = 1 \/ j \in 2 .. Len(dev_list) + 1
        BY <1>2
    <2>3. CASE i = 1
        BY <1>3, <1>4, <2>2, <2>3
    <2>4. CASE j = 1
        BY <1>3, <1>4, <2>1, <2>4
    <2>5. CASE i \in 2 .. Len(dev_list) + 1 /\ j \in 2 .. Len(dev_list) + 1
        <3>1. /\ dev_list[i - 1] = dev_list[j - 1]
              /\ i - 1 \in DOMAIN dev_list /\ j - 1 \in DOMAIN dev_list
            BY <1>3, <2>5
        <3>2. i - 1 = j - 1
            BY <1>2, <3>1 DEF IsInjective
        <3> QED
            BY <2>5, <3>2
    <2> QED
        BY <2>1, <2>2, <2>3, <2>4, <2>5
<1>6. Listed' = Listed \union {c}
    <2>1. ASSUME NEW d \in Listed'
          PROVE  d \in Listed \union {c}
        <3>1. PICK i \in 1 .. Len(dev_list) + 1 : dev_list'[i] = d
            BY <1>3 DEF Listed, Range
        <3>2. i = 1 \/ i \in 2 .. Len(dev_list) + 1
            BY <1>2
        <3> QED
            BY <1>3, <3>1, <3>2 DEF Listed, Range
    <2>2. ASSUME NEW d \in Listed
          PROVE  d \in Listed'
        <3>1. PICK i \in 1 .. Len(dev_list) : dev_list[i] = d
            BY <1>2 DEF Listed, Range
        <3>2. i + 1 \in DOMAIN dev_list' /\ dev_list'[i + 1] = d
            BY <1>2, <1>3, <3>1
        <3> QED
            BY <3>2 DEF Listed, Range
    <2>3. c \in Listed'
        <3>1. 1 \in DOMAIN dev_list'
            BY <1>2, <1>3
        <3> QED
            BY <1>3, <3>1 DEF Listed, Range
    <2> QED
        BY <2>1, <2>2, <2>3
<1>7. Listed \subseteq Cards
    BY <1>2 DEF Listed, Range
<1>8. DriverInv'
    <2>1. hw' \in [Cards -> Layouts]
        BY <1>1 DEF DevicesInv, DriverInv
    <2>2. minor' \in [Cards -> -1 .. MaxProbes - 1] /\ fpga_num_devs' \in 0 .. MaxProbes
        BY <1>1, <1>2
    <2>3. \A d \in Cards : minor'[d] = IF d = c THEN fpga_num_devs ELSE minor[d]
        BY <1>1, <1>2
    <2>4. MinorsOK'
        BY <1>1, <1>2, <1>6, <1>7, <2>3 DEF MinorsOK
    <2> QED
        BY <1>3, <1>5, <2>1, <2>2, <2>4 DEF DriverInv
<1>9. NoFiles(c)
    BY <1>1, OpenIsListed DEF NoFiles, DevicesInv, TablesInv
<1>10. TablesInv' /\ CountKeeps
    BY <1>1, <1>6, ListKeepsTables
<1>11. TurnsInv'
    BY <1>1, TurnsKept
<1>12. mods \in [Cards -> [num : [ModuleNames -> Nat], ctrl_type : {"UNKNOWN", "MODULE"}]]
    BY DEF DevicesInv, MapsInv
<1>13. mods' \in [Cards -> [num : [ModuleNames -> Nat], ctrl_type : {"UNKNOWN", "MODULE"}]]
    <2>1. Found(hw[c]) \in [ModuleNames -> Nat]
        <3>1. 0 \in 0 .. XPCIE_KERNEL_LANE_MAX /\ 0 .. XPCIE_KERNEL_LANE_MAX \subseteq Nat
            BY DevicesAssumption
        <3>2. ASSUME NEW lanes PROVE Prefix(lanes) \in Nat
            BY <3>1, PrefixDef
        <3> QED
            BY <3>2 DEF Found
    <2> QED
        BY <1>1, <1>12, <2>1
<1>14. \A p \in Procs : ioctl[p] /= Idle => mods'[ioctl[p].card] = mods[ioctl[p].card]
    BY <1>1, <1>9, <1>12, AtModule, NoFilesNoRun
<1>15. \A d \in sound' : /\ Running(d) = {}
                         /\ mods'[d] = [num |-> Found(hw[d]), ctrl_type |-> "MODULE"]
    <2> TAKE d \in sound'
    <2>1. CASE d = c
        BY <1>1, <1>9, <1>12, <2>1, NoFilesNoRun
    <2>2. CASE d /= c
        <3>1. d \in sound /\ d \in Cards
            BY <1>1, <1>7, <2>2 DEF DevicesInv, MapsInv
        <3> QED
            BY <1>1, <1>12, <2>2, <3>1 DEF DevicesInv, MapsInv, MapIsHardware
    <2> QED
        BY <2>1, <2>2
<1>16. sound' \subseteq Listed'
    BY <1>1, <1>6 DEF DevicesInv, MapsInv
<1>17. MapsInv'
    BY <1>1, <1>13, <1>14, <1>15, <1>16, DriverMaps
<1> QED
    BY <1>8, <1>10, <1>11, <1>17

\* A removed card has no open files and leaves the list.
LEMMA RemoveKeeps ==
    ASSUME DevicesInv, NEW c \in Cards, xpcie_pci_remove(c)
    PROVE  DriverInv' /\ TablesInv' /\ TurnsInv' /\ MapsInv' /\ CountKeeps
<1>1. /\ NoFiles(c)
      /\ minor' = [minor EXCEPT ![c] = -1]
      /\ fpga_num_devs' = fpga_num_devs
      /\ sound' = sound \ {c}
      /\ UNCHANGED <<hw, ioctl, mods>> /\ UNCHANGED libVars
    BY DEF xpcie_pci_remove, RemoveWith
<1>2. PICK i \in DOMAIN dev_list : dev_list[i] = c /\ dev_list' = RemoveAt(dev_list, i)
    BY DEF xpcie_pci_remove, RemoveWith
<1>3. DriverInv
    BY DEF DevicesInv
<1>4. /\ dev_list' \in Seq(Cards) /\ IsInjective(dev_list')
      /\ Listed' = Listed \ {c}
    BY <1>2, <1>3, RemoveListed DEF DriverInv, Listed
<1>5. c \in Listed /\ Listed \subseteq Cards
    BY <1>2, <1>3 DEF DriverInv, Listed, Range
<1>6. DriverInv'
    <2>1. \A d \in Cards : minor'[d] = IF d = c THEN -1 ELSE minor[d]
        BY <1>1, <1>3 DEF DriverInv
    <2>2. MinorsOK'
        BY <1>1, <1>3, <1>4, <1>5, <2>1 DEF MinorsOK, DriverInv
    <2>3. minor' \in [Cards -> -1 .. MaxProbes - 1]
        BY <1>1, <1>3, DevicesAssumption DEF DriverInv
    <2> QED
        BY <1>1, <1>3, <1>4, <2>2, <2>3 DEF DriverInv
<1>7. TablesInv' /\ CountKeeps
    <2>1. \A p \in Procs : files[p][c] = 0
        BY <1>1 DEF NoFiles
    <2> QED
        BY <1>1, <1>4, <2>1, ListKeepsTables
<1>8. TurnsInv'
    BY <1>1, TurnsKept
<1>9. \A d \in sound' : /\ d \in Listed'
                        /\ Running(d) = {}
                        /\ mods'[d] = [num |-> Found(hw[d]), ctrl_type |-> "MODULE"]
    BY <1>1, <1>4 DEF DevicesInv, MapsInv, MapIsHardware
<1>10. MapsInv'
    BY <1>1, <1>9, DriverMaps DEF DevicesInv, MapsInv
<1> QED
    BY <1>6, <1>7, <1>8, <1>10

\* Nothing is open when the driver is unloaded.
LEMMA UnloadKeeps ==
    ASSUME DevicesInv, XPCIe_exit_module
    PROVE  DriverInv' /\ TablesInv' /\ TurnsInv' /\ MapsInv' /\ CountKeeps
<1>1. /\ \A c \in Cards : NoFiles(c)
      /\ dev_list' = <<>>
      /\ minor' = [c \in Cards |-> -1]
      /\ fpga_num_devs' = 0
      /\ sound' = {}
      /\ UNCHANGED <<hw, ioctl, mods>> /\ UNCHANGED libVars
    BY DEF XPCIe_exit_module
<1>2. Listed' = {} /\ dev_list' \in Seq(Cards) /\ IsInjective(dev_list')
    BY <1>1 DEF Listed, Range, IsInjective
<1>3. DriverInv'
    BY <1>1, <1>2, DevicesAssumption DEF DevicesInv, DriverInv, MinorsOK
<1>4. TablesInv' /\ CountKeeps
    <2>1. Listed \subseteq Cards
        BY DEF DevicesInv, DriverInv, Listed, Range
    <2>2. \A p \in Procs, c \in Listed : files[p][c] = 0
        BY <1>1, <2>1 DEF NoFiles
    <2> QED
        BY <1>1, <2>2, ListKeepsTables
<1>5. TurnsInv'
    BY <1>1, TurnsKept
<1>6. MapsInv'
    BY <1>1, <1>2, DriverMaps DEF DevicesInv, MapsInv
<1> QED
    BY <1>3, <1>4, <1>5, <1>6

\* A new bitstream disturbs what runs on the card.
LEMMA LoadKeeps ==
    ASSUME DevicesInv, NEW c \in Cards, NEW layout \in Layouts, Load(c, layout)
    PROVE  DriverInv' /\ TablesInv' /\ TurnsInv' /\ MapsInv' /\ CountKeeps
<1>1. /\ hw' = [hw EXCEPT ![c] = layout]
      /\ sound' = sound \ {c}
      /\ ioctl' = [p \in Procs |-> IF ioctl[p].card = c
                                   THEN [ioctl[p] EXCEPT !.alone = FALSE] ELSE ioctl[p]]
      /\ UNCHANGED <<dev_list, minor, fpga_num_devs, mods>> /\ UNCHANGED libVars
    BY DEF Load
<1>2. hw \in [Cards -> Layouts] /\ \A d \in Cards \ {c} : hw'[d] = hw[d]
    BY <1>1 DEF DevicesInv, DriverInv
<1>3. DriverInv'
    BY <1>1, <1>2 DEF DevicesInv, DriverInv, MinorsOK, Listed
<1>4. TablesInv' /\ CountKeeps
    BY <1>1, ListKeepsTables DEF Listed
<1>5. /\ ioctl' \in [Procs -> IoctlRec]
      /\ \A q \in Procs :
             ioctl'[q] = IF ioctl[q].card = c THEN [ioctl[q] EXCEPT !.alone = FALSE] ELSE ioctl[q]
    <2>1. \A q \in Procs : ioctl[q] \in IoctlRec
        BY DEF DevicesInv, TurnsInv
    <2>2. \A q \in Procs : [ioctl[q] EXCEPT !.alone = FALSE] \in IoctlRec
        BY <2>1 DEF IoctlRec
    <2> QED
        BY <1>1, <2>1, <2>2
<1>6. \A q \in Procs :
          /\ ioctl'[q].card = ioctl[q].card /\ ioctl'[q].at = ioctl[q].at
          /\ ioctl'[q].counting = ioctl[q].counting
          /\ ioctl[q] = Idle => ioctl'[q] = Idle
          /\ ioctl[q].card = c => ~ioctl'[q].alone
          /\ ioctl[q].card /= c => ioctl'[q] = ioctl[q]
    <2> TAKE q \in Procs
    <2>1. ioctl[q] \in IoctlRec
        BY DEF DevicesInv, TurnsInv
    <2>2. ioctl[q].card = c => ioctl[q] /= Idle
        BY OpenIsListed
    <2> QED
        BY <1>5, <2>1, <2>2 DEF IoctlRec
<1>7. TurnsInv'
    <2>1. UNCHANGED <<work, files>>
        BY <1>1 DEF libVars
    <2>2. ASSUME NEW q \in Procs
          PROVE  Turn(q)'
        <3>1. Turn(q)
            BY DEF DevicesInv, TurnsInv
        <3> QED
            BY <1>6, <2>1, <3>1 DEF Turn
    <2> QED
        BY <1>5, <2>1, <2>2 DEF DevicesInv, TurnsInv
<1>8. sound \subseteq Cards
    BY DEF DevicesInv, MapsInv, DriverInv, Listed, Range
<1>9. \A d \in sound' : Running(d)' = {} /\ mods'[d] = [num |-> Found(hw'[d]), ctrl_type |-> "MODULE"]
    <2> TAKE d \in sound'
    <2>1. d \in sound /\ d \in Cards \ {c}
        BY <1>1, <1>8
    <2>2. Running(d) = {} /\ mods[d] = [num |-> Found(hw[d]), ctrl_type |-> "MODULE"]
        BY <2>1 DEF DevicesInv, MapsInv, MapIsHardware
    <2>3. Running(d)' = {}
        BY <1>6, <2>2 DEF Running
    <2> QED
        BY <1>1, <1>2, <2>1, <2>2, <2>3
<1>10. ASSUME NEW q \in Procs, ioctl'[q] /= Idle, ioctl'[q].alone
       PROVE  Lone(q)'
    <2>1. ioctl[q].card /= c /\ ioctl'[q] = ioctl[q]
        BY <1>6, <1>10
    <2>2. Lone(q) /\ ioctl[q].card \in Cards \ {c}
        BY <1>10, <2>1, AtModule DEF DevicesInv, MapsInv
    <2>3. hw'[ioctl[q].card] = hw[ioctl[q].card]
        BY <1>2, <2>2
    <2>4. \A r \in Procs : ioctl'[r].card = ioctl[q].card => r = q
        BY <1>6, <2>2 DEF Lone
    <2> QED
        BY <1>1, <2>1, <2>2, <2>3, <2>4, LoneSame
<1>11. MapIsHardware' /\ \A d \in sound' : Running(d)' = {}
    BY <1>9 DEF MapIsHardware
<1>12. sound' \subseteq Listed'
    BY <1>1 DEF DevicesInv, MapsInv, Listed
<1>13. MapsInv'
    BY <1>1, <1>10, <1>11, <1>12 DEF DevicesInv, MapsInv
<1> QED
    BY <1>3, <1>4, <1>7, <1>13

-----------------------------------------------------------------------------
(***************************************************************************)
(* The inductive invariant.                                                *)
(***************************************************************************)

LEMMA InitInv == Init => DevicesInv
<1> SUFFICES ASSUME Init PROVE DevicesInv
    OBVIOUS
<1>1. /\ dev_list = <<>>
      /\ minor = [c \in Cards |-> -1]
      /\ fpga_num_devs = 0
      /\ mods = [c \in Cards |-> [num |-> Zero, ctrl_type |-> "UNKNOWN"]]
      /\ ioctl = [p \in Procs |-> Idle]
      /\ devices = [p \in Procs |-> [i \in Slots |-> Unused]]
      /\ devices_num = [p \in Procs |-> 0]
      /\ files = [p \in Procs |-> NoFile]
      /\ work = [p \in Procs |-> NoWork]
      /\ sound = {} /\ calls = 0
    BY DEF Init
<1>2. hw \in [Cards -> Layouts]
    BY DEF Init
<1>3. Listed = {}
    BY <1>1 DEF Listed, Range
<1>4. DriverInv
    BY <1>1, <1>2, <1>3, DevicesAssumption DEF DriverInv, MinorsOK, IsInjective
<1> DEFINE none == [i \in Slots |-> Unused]
<1>5. Unused \in EntryRec /\ Unused.name = None /\ Unused.file = None
    BY DEF Unused, EntryRec, Zero
<1>6. NoFile \in [Cards -> Nat] /\ none \in [Slots -> EntryRec] /\ NoWork \in WorkRec
    BY <1>5 DEF NoFile, NoWork, WorkRec
<1>7. ASSUME NEW p \in Procs
      PROVE  Excess(p) = 0 /\ Fine(Table(p), Excess(p))
    <2>1. PICK t : t = Table(p) /\ t = [dev |-> none, num |-> 0, files |-> NoFile]
        BY <1>1 DEF Table
    <2>2. t.dev = none /\ t.num = 0 /\ t.files = NoFile /\ t \in TableRec
        BY <1>6, <2>1 DEF TableRec
    <2>3. Named(t.dev) = {} /\ Cardinality(Named(t.dev)) = 0
        <3>1. Named(t.dev) = {}
            BY <1>5, <2>2 DEF Named
        <3> QED
            BY <3>1, FS_EmptySet
    <2>4. \A i \in Slots : t.dev[i].name = None /\ t.dev[i].file = None
        BY <1>5, <2>2
    <2>5. \A c \in Cards : t.files[c] = 0
        BY <2>2 DEF NoFile
    <2>6. Excess(p) = 0
        BY <1>1, <2>2, <2>3 DEF Excess
    <2>7. Fine(t, 0)
        BY <2>2, <2>3, <2>4, <2>5, DevicesAssumption DEF Fine
    <2> QED
        BY <2>1, <2>6, <2>7
<1>8. TablesInv
    BY <1>1, <1>6, <1>7, DevicesAssumption DEF TablesInv
<1>9. Idle \in IoctlRec
    BY DevicesAssumption DEF Idle, IoctlRec
<1>10. TurnsInv
    BY <1>1, <1>6, <1>9 DEF TurnsInv, Turn, NoWork
<1>11. MapsInv
    <2>1. Zero \in [ModuleNames -> Nat]
        BY DEF Zero
    <2> QED
        BY <1>1, <2>1 DEF MapsInv, MapIsHardware
<1> QED
    BY <1>1, <1>4, <1>8, <1>10, <1>11, DevicesAssumption DEF DevicesInv

\* A call of the library.
LEMMA LibraryKeeps ==
    ASSUME DevicesInv, NEW p \in Procs, Library(p)
    PROVE  DriverInv' /\ TablesInv' /\ TurnsInv' /\ MapsInv' /\ CountKeeps
<1>1. CASE \E c \in Cards, f \in Faults : fpga_dev_init(p, c, f)
    BY <1>1, DevInitKeeps
<1>2. CASE (\E names \in NameLists : fpga_init(p, names)) \/ fpga_finish(p)
           \/ \E names \in ListedOrders : fpga_scan_devices(p, names)
    BY <1>2, SeveralKeep
<1>3. CASE \E n \in {Len(names) : names \in NameLists} : __parse_args(p, n)
    <2>1. PICK names \in NameLists : __parse_args(p, Len(names))
        BY <1>3
    <2>2. Len(names) \in Nat
        BY DevicesAssumption
    <2> QED
        BY <2>1, <2>2, ParseKeeps
<1>4. CASE \E i \in Slots : fpga_dev_finish(p, i) \/ fpga_update(p, i)
    BY <1>4, DevFinishKeeps, UpdateKeeps
<1>5. CASE \E i \in Slots : xpcie_fpga_get_control_type(p, i)
    BY <1>5, StartKeeps
<1>6. CASE fpga_enable_regrw(p) \/ fpga_disable_regrw(p)
    BY <1>6, LockKeeps
<1> QED
    BY <1>1, <1>2, <1>3, <1>4, <1>5, <1>6 DEF Library

LEMMA StepInv == DevicesInv /\ [Next]_vars => DevicesInv' /\ CountKeeps
<1> SUFFICES ASSUME DevicesInv, [Next]_vars PROVE DevicesInv' /\ CountKeeps
    OBVIOUS
<1>1. calls \in 0 .. MaxCalls /\ MaxCalls \in Nat
    BY DevicesAssumption DEF DevicesInv
<1>2. CASE Call
    <2>1. calls' \in 0 .. MaxCalls
        BY <1>1, <1>2 DEF Call
    <2>2. CASE \E p \in Procs : Library(p)
        BY <2>1, <2>2, LibraryKeeps DEF DevicesInv
    <2>3. CASE \E c \in Cards, layout \in Layouts : Load(c, layout)
        BY <2>1, <2>3, LoadKeeps DEF DevicesInv
    <2> QED
        BY <1>2, <2>2, <2>3 DEF Call
<1>3. CASE (Driver \/ \E p \in Procs : Discovery(p) \/ Continue(p) \/ Exit(p)) /\ UNCHANGED calls
    <2>1. calls' \in 0 .. MaxCalls
        BY <1>1, <1>3
    <2>2. CASE Driver
        BY <2>1, <2>2, ProbeKeeps, RemoveKeeps, UnloadKeeps DEF Driver, DevicesInv
    <2>3. ASSUME NEW p \in Procs, Discovery(p)
          PROVE  DevicesInv' /\ CountKeeps
        BY <2>1, <2>3, LaneKeeps, NextModuleKeeps, EndKeeps DEF Discovery, DevicesInv
    <2>4. ASSUME NEW p \in Procs, Continue(p)
          PROVE  DevicesInv' /\ CountKeeps
        BY <2>1, <2>4, NextNameKeeps, FinishNextKeeps DEF Continue, DevicesInv
    <2>5. ASSUME NEW p \in Procs, Exit(p)
          PROVE  DevicesInv' /\ CountKeeps
        BY <2>1, <2>5, ExitKeeps DEF DevicesInv
    <2> QED
        BY <1>3, <2>2, <2>3, <2>4, <2>5
<1>4. CASE UNCHANGED vars
    <2>1. UNCHANGED drvVars /\ UNCHANGED infoVars /\ UNCHANGED libVars /\ UNCHANGED calls
        BY <1>4 DEF vars
    <2>2. DriverInv' /\ TablesInv' /\ CountKeeps
        BY <2>1, DiscoveryKeepsRest
    <2>3. UNCHANGED <<hw, dev_list, mods, ioctl, sound>>
        BY <2>1 DEF drvVars, infoVars
    <2>4. TurnsInv'
        BY <2>1, <2>3, TurnsKept
    <2>5. MapsInv'
        BY <2>3, DriverMaps DEF DevicesInv, MapsInv, MapIsHardware, Listed
    <2> QED
        BY <1>1, <2>1, <2>2, <2>4, <2>5 DEF DevicesInv
<1> QED
    BY <1>2, <1>3, <1>4 DEF Next

\* Every variable keeps its type.
LEMMA InvTypes == DevicesInv => TypeOK
<1> SUFFICES ASSUME DevicesInv PROVE TypeOK
    OBVIOUS
<1>1. sound \subseteq Cards
    BY DEF DevicesInv, MapsInv, DriverInv, Listed, Range
<1> QED
    BY <1>1 DEF TypeOK, DevicesInv, DriverInv, TablesInv, TurnsInv, MapsInv,
               EntryRec, WorkRec, IoctlRec

LEMMA InvFiles == DevicesInv => FilesAreEntries
<1> SUFFICES ASSUME DevicesInv, NEW p \in Procs, NEW c \in Cards
             PROVE  /\ files[p][c] = Cardinality({i \in Slots : devices[p][i].file = c})
                    /\ files[p][c] <= 1
    BY DEF FilesAreEntries
<1> DEFINE S == {i \in Slots : devices[p][i].file = c}
<1>1. /\ \A i \in Slots : devices[p][i].file = devices[p][i].name
      /\ \A i, j \in Named(devices[p]) : devices[p][i].name = devices[p][j].name => i = j
      /\ files[p][c] = IF \E i \in Slots : devices[p][i].name = c THEN 1 ELSE 0
    <2>1. Table(p).files = files[p]
        BY DEF Table
    <2> QED
        BY <2>1, FineTable DEF Fine
<1>2. CASE S = {}
    <2>1. Cardinality(S) = 0
        BY <1>2, FS_EmptySet
    <2>2. files[p][c] = 0
        BY <1>1, <1>2
    <2> QED
        BY <2>1, <2>2
<1>3. CASE S /= {}
    <2>1. PICK i \in Slots : devices[p][i].file = c
        BY <1>3
    <2>2. \A j \in S : j = i
        BY <1>1, <2>1, DevicesAssumption DEF Named
    <2>3. S = {i}
        BY <2>1, <2>2
    <2>4. Cardinality(S) = 1
        BY <2>3, FS_Singleton
    <2>5. files[p][c] = 1
        BY <1>1, <2>1
    <2> QED
        BY <2>4, <2>5
<1> QED
    BY <1>2, <1>3

LEMMA InvCount == DevicesInv => \A p \in Procs : Excess(p) >= 0
BY FineTable

LEMMA InvNames == DevicesInv => FileIsOfName
<1> SUFFICES ASSUME DevicesInv, NEW p \in Procs, NEW i \in Slots
             PROVE  devices[p][i].file = devices[p][i].name
    BY DEF FileIsOfName
<1> QED
    BY FineTable DEF Fine

-----------------------------------------------------------------------------
(***************************************************************************)
(* The theorems.                                                           *)
(***************************************************************************)

\* The invariant holds for any number of processes, cards, lanes and
\* entries, with or without a PTU among the modules, in whatever order the
\* cards are probed and removed while calls that take several cards and
\* discoveries are under way.
THEOREM DevicesTyping == Spec => [](TypeOK /\ DevicesInv)
BY InitInv, StepInv, InvTypes, PTL DEF Spec

\* Whatever open, ioctl or scan fails, and wherever between two cards a call
\* is, a process has one file open for each entry and no other: err_out of
\* __fpga_dev_init() and __fpga_dev_finish() close what was opened.
THEOREM FilesMatchEntries == Spec => []FilesAreEntries
BY InitInv, StepInv, InvFiles, PTL DEF Spec

\* devices_num moves with the entries in every step but a refused fpga_init()
\* of a process that has none open and the end of a process, and it is never
\* below their number.
THEOREM CountIsOpen == Spec => NumCountsOpen
<1>1. DevicesInv /\ [Next]_vars => DevicesInv' /\ [CountKeeps]_vars
    BY StepInv
<1> QED
    BY <1>1, InitInv, InvCount, PTL DEF Spec, NumCountsOpen

\* The minor number of a device file always leads to the card of that name:
\* fpga_num_devs only grows while cards are listed, so that no number is
\* given twice.
THEOREM FileHasName == Spec => []FileIsOfName
BY InitInv, StepInv, InvNames, PTL DEF Spec

\* A discovery that nothing disturbed leaves the map of the hardware behind,
\* though it counts in the map itself: for every order of the modules that
\* the driver can be built with.
THEOREM MapMatchesHardware == Spec => []MapIsHardware
<1>1. DevicesInv => MapIsHardware
    BY DEF DevicesInv, MapsInv
<1> QED
    BY <1>1, InitInv, StepInv, PTL DEF Spec

(***************************************************************************)
(* The reference count.                                                    *)
(***************************************************************************)
\* The acquires in effect are a finite set, counted by a natural number, and
\* one more or one less of them makes a difference of one.
LEMMA CountedIsFinite ==
    /\ IsFiniteSet(InEffect) /\ Cardinality(InEffect) \in Nat
    /\ Cardinality(InEffect) = 0 <=> InEffect = {}
    /\ \A u : Cardinality(InEffect \cup {u}) =
                 IF u \in InEffect THEN Cardinality(InEffect) ELSE Cardinality(InEffect) + 1
    /\ \A u : Cardinality(InEffect \ {u}) =
                 IF u \in InEffect THEN Cardinality(InEffect) - 1 ELSE Cardinality(InEffect)
  <1>1. IsFiniteSet(Uses)
    BY RefcountAssumption
  <1>2. InEffect \in SUBSET Uses
    BY DEF InEffect
  <1>3. IsFiniteSet(InEffect)
    BY <1>1, <1>2, FS_Subset
  <1> QED
    BY <1>3, FS_CardinalityType, FS_EmptySet, FS_AddElement, FS_RemoveElement

\* A count that is not negative is granted to nobody for writing.
LEMMA NotWriting ==
    ASSUME RefcountInv, refcount >= 0
    PROVE  Writers = {} /\ deadWriter = FALSE /\ refcount = Cardinality(InEffect)
  BY DEF RefcountInv, CountIsUses, CountTypeOK

\* A process that is not writing is no writer, and the writers of the next
\* state differ from those of this one in the process that steps.
LEMMA WritersStep ==
    ASSUME CountTypeOK, NEW p \in Users, NEW here \in {"idle"} \cup Writing,
           pc' = [pc EXCEPT ![p] = here]
    PROVE  Writers' = IF here \in Writing THEN Writers \cup {p} ELSE Writers \ {p}
  BY DEF CountTypeOK, Writers, Writing

\* The initial states satisfy the invariant: nobody uses or writes the device.
LEMMA RefcountInit == CountInit => RefcountInv
  <1> SUFFICES ASSUME CountInit PROVE RefcountInv
    OBVIOUS
  <1>0. Writers = {}
    BY DEF CountInit, Writers, Writing
  <1>1. CountTypeOK
    <2>1. pc \in [Users -> {"idle"} \cup Writing]
      BY DEF CountInit
    <2>2. user \in [Uses -> Users \cup {Nobody, Dead}]
      BY DEF CountInit
    <2>3. deadWriter \in BOOLEAN
      BY Zenon DEF CountInit
    <2> QED
      BY <2>1, <2>2, <2>3 DEF CountInit, CountTypeOK
  <1>2. InEffect = {}
    BY DEF CountInit, InEffect
  <1>3. refcount = Cardinality(InEffect)
    BY <1>2, FS_EmptySet DEF CountInit
  <1> QED
    BY <1>0, <1>1, <1>2, <1>3 DEF CountInit, RefcountInv, Exclusion, CountIsUses

\* INC adds a use to the count of uses.
LEMMA AcquireStep ==
    ASSUME RefcountInv, NEW p \in Users, NEW u \in Uses, Acquire(p, u)
    PROVE  RefcountInv'
  <1> USE DEF Acquire, Inc
  <1>1. Writers = {} /\ deadWriter = FALSE /\ refcount = Cardinality(InEffect)
    BY NotWriting
  <1>2. CountTypeOK' /\ Writers' = {} /\ deadWriter' = FALSE
    BY <1>1 DEF RefcountInv, CountTypeOK, Writers
  <1>3. InEffect' = InEffect \cup {u} /\ u \notin InEffect
    BY RefcountAssumption DEF RefcountInv, CountTypeOK, InEffect
  <1>4. refcount' = Cardinality(InEffect')
    BY <1>1, <1>3, CountedIsFinite
  <1> QED
    BY <1>2, <1>4 DEF RefcountInv, Exclusion, CountIsUses

\* DEC takes one away.
LEMMA ReleaseStep ==
    ASSUME RefcountInv, NEW p \in Users, NEW u \in Uses, Release(p, u)
    PROVE  RefcountInv'
  <1> USE DEF Release, Dec
  <1>0. refcount >= 0
    BY DEF RefcountInv, CountTypeOK
  <1>1. Writers = {} /\ deadWriter = FALSE /\ refcount = Cardinality(InEffect)
    BY <1>0, NotWriting
  <1>2. CountTypeOK' /\ Writers' = {} /\ deadWriter' = FALSE
    BY <1>1 DEF RefcountInv, CountTypeOK, Writers
  <1>3. InEffect' = InEffect \ {u} /\ u \in InEffect
    BY RefcountAssumption DEF RefcountInv, CountTypeOK, InEffect
  <1>4. refcount' = Cardinality(InEffect')
    BY <1>1, <1>3, CountedIsFinite
  <1> QED
    BY <1>2, <1>4 DEF RefcountInv, Exclusion, CountIsUses

\* RST, when nobody alive uses or writes the device, forgets the dead.
LEMMA CleanupStep ==
    ASSUME RefcountInv, NEW p \in Users, Cleanup(p)
    PROVE  RefcountInv'
  <1> USE DEF Cleanup, Rst
  <1>0. Writers' = {} /\ deadWriter' = FALSE
    BY DEF Writers
  <1>1. CountTypeOK'
    <2>1. user' \in [Uses -> Users \cup {Nobody, Dead}]
      OBVIOUS
    <2>2. deadWriter' \in BOOLEAN
      BY <1>0, Zenon
    <2> QED
      BY <2>1, <2>2 DEF RefcountInv, CountTypeOK
  <1>2. InEffect' = {}
    BY DEF InEffect
  <1>3. refcount' = Cardinality(InEffect')
    BY <1>2, FS_EmptySet
  <1> QED
    BY <1>0, <1>1, <1>3 DEF RefcountInv, Exclusion, CountIsUses

\* WRITE is granted at 0, when there is no writer and no use.
LEMMA ConfigBeginStep ==
    ASSUME RefcountInv, NEW p \in Users, ConfigBegin(p)
    PROVE  RefcountInv'
  <1> USE DEF ConfigBegin, Write
  <1>1. Writers = {} /\ deadWriter = FALSE /\ Cardinality(InEffect) = 0
    BY NotWriting
  <1>2. InEffect = {}
    BY <1>1, CountedIsFinite
  <1>3. CountTypeOK'
    BY DEF RefcountInv, CountTypeOK, Writing
  <1>4. Writers' = {p} /\ deadWriter' = FALSE
    BY <1>1, WritersStep DEF RefcountInv, Writing
  <1>5. InEffect' = {}
    BY <1>2 DEF InEffect
  <1>6. \A u \in Uses : user'[u] \notin Users
    BY <1>5, RefcountAssumption DEF InEffect
  <1> QED
    BY <1>3, <1>4, <1>5, <1>6 DEF RefcountInv, Exclusion, CountIsUses

\* The steps in between keep the writer.
LEMMA ConfigStepStep ==
    ASSUME RefcountInv, NEW p \in Users, NEW here \in Writing, NEW next \in Writing,
           ConfigStep(p, here, next)
    PROVE  RefcountInv'
  <1>1. PICK there \in Writing : pc' = [pc EXCEPT ![p] = there]
    BY DEF ConfigStep, Writing
  <1>2. p \in Writers
    BY DEF ConfigStep, Writers
  <1>3. Writers' = Writers
    BY <1>1, <1>2, WritersStep DEF RefcountInv
  <1>4. CountTypeOK' /\ InEffect' = InEffect
    BY <1>1 DEF RefcountInv, CountTypeOK, InEffect, ConfigStep
  <1> QED
    BY <1>3, <1>4 DEF RefcountInv, Exclusion, CountIsUses, ConfigStep

\* CLEAR finds -1 and leaves 0: no writer, no use.
LEMMA ConfigEndStep ==
    ASSUME RefcountInv, NEW p \in Users, ConfigEnd(p)
    PROVE  RefcountInv'
  <1> USE DEF ConfigEnd, Clear
  <1>1. p \in Writers
    BY DEF Writers, Writing
  <1>2. refcount = -1 /\ InEffect = {} /\ deadWriter = FALSE /\ Writers = {p}
    BY <1>1 DEF RefcountInv, CountIsUses, Exclusion, CountTypeOK
  <1>3. CountTypeOK'
    BY DEF RefcountInv, CountTypeOK
  <1>4. Writers' = {} /\ deadWriter' = FALSE
    BY <1>2, WritersStep DEF RefcountInv, Writing
  <1>5. InEffect' = {}
    BY <1>2 DEF InEffect
  <1>6. refcount' = Cardinality(InEffect')
    BY <1>2, <1>5, FS_EmptySet
  <1> QED
    BY <1>3, <1>4, <1>6 DEF RefcountInv, Exclusion, CountIsUses

\* A death changes neither the count nor what is counted.
LEMMA DieStep ==
    ASSUME RefcountInv, NEW p \in Users, Die(p)
    PROVE  RefcountInv'
  <1> USE DEF Die
  <1>1. CountTypeOK'
    BY DEF RefcountInv, CountTypeOK
  <1>2. InEffect' = InEffect
    BY RefcountAssumption DEF RefcountInv, CountTypeOK, InEffect
  <1>3. Writers' = Writers \ {p}
    BY WritersStep DEF RefcountInv, Writing
  <1>4. \A u \in Uses : user'[u] \in Users => user[u] \in Users
    BY RefcountAssumption DEF RefcountInv, CountTypeOK
  <1>5. CASE p \in Writers
    <2>1. Writers = {p} /\ refcount = -1 /\ InEffect = {}
      BY <1>5 DEF RefcountInv, Exclusion, CountIsUses
    <2>2. deadWriter'
      BY <1>5 DEF Writers
    <2> QED
      BY <1>1, <1>2, <1>3, <2>1, <2>2 DEF RefcountInv, Exclusion, CountIsUses
  <1>6. CASE p \notin Writers
    <2>1. Writers' = Writers /\ deadWriter' = deadWriter
      BY <1>3, <1>6 DEF Writers, RefcountInv, CountTypeOK
    <2> QED
      BY <1>1, <1>2, <1>4, <2>1 DEF RefcountInv, Exclusion, CountIsUses
  <1> QED
    BY <1>5, <1>6

\* Every step keeps the invariant.
LEMMA RefcountNext == RefcountInv /\ [CountNext]_countVars => RefcountInv'
  <1> SUFFICES ASSUME RefcountInv, [CountNext]_countVars PROVE RefcountInv'
    OBVIOUS
  <1>1. CASE UNCHANGED countVars
    BY <1>1 DEF countVars, RefcountInv, CountTypeOK, Exclusion, CountIsUses, InEffect, Writers
  <1>2. ASSUME NEW p \in Users, Config(p) PROVE RefcountInv'
    <2>1. CASE ConfigBegin(p)
      BY <2>1, ConfigBeginStep
    <2>2. CASE RunMcap(p) \/ UpdateInfo(p) \/ SetupBuffer(p) \/ UnresetCms(p)
      BY <2>2, ConfigStepStep DEF RunMcap, UpdateInfo, SetupBuffer, UnresetCms, Writing
    <2>3. CASE ConfigEnd(p)
      BY <2>3, ConfigEndStep
    <2> QED
      BY <1>2, <2>1, <2>2, <2>3 DEF Config
  <1>3. ASSUME NEW p \in Users, NEW u \in Uses, Acquire(p, u) \/ Release(p, u)
        PROVE  RefcountInv'
    BY <1>3, AcquireStep, ReleaseStep
  <1>4. ASSUME NEW p \in Users, Cleanup(p) \/ Die(p) PROVE RefcountInv'
    BY <1>4, CleanupStep, DieStep
  <1> QED
    BY <1>1, <1>2, <1>3, <1>4 DEF CountNext

\* For any set of processes and any finite number of acquires, the count is
\* what CountIsUses says in every state xpcie_fpga_control_refcount() reaches.
THEOREM RefcountSafe == CountSpec => []RefcountInv
  BY RefcountInit, RefcountNext, PTL DEF CountSpec

\* __fpga_config_region() writes a bitstream alone, and never under a process
\* that has acquired the device, however many processes die in between.
THEOREM ConfigExcludes == CountSpec => []Exclusion
  <1>1. RefcountInv => Exclusion
    BY DEF RefcountInv
  <1> QED
    BY <1>1, RefcountSafe, PTL
=============================================================================
