# A TLA+ verification of the OpenKasugai hardware drivers

The repository is the host software of an FPGA card: a Linux kernel driver (`driver/`), a user
library (`lib/libfpga`, `lib/libptu`) and tools. Programs use the library to allocate DMA
channels, to queue DMA commands in memory shared with the card, to connect network sessions to
function channels ("chains"), and to reconfigure the card. This directory holds TLA+ models of
the parts where processes, the kernel and the card meet, the TLC configurations that check
them, and proofs of their main properties that TLAPS checks.

`PROJECT.json` lists the components, the runs, the source lines behind each definition, the
hazards of the code with the properties that cover them, and the theorems.

    tlc -config CmdQueue_fifo.cfg MCCmdQueue        # a run
    tlapm CmdQueueProofs.tla                        # the proofs of a module

## 1. Inventory

| Component | State | Operations | What makes it correct |
|---|---|---|---|
| Command queue, `libdma.c` | a ring of descriptors in memory shared by all processes, kernel and card; `writehead`, `readhead` | `fpga_enqueue*()`, `fpga_dequeue()`, without locks | a FIFO: no command lost, duplicated, mixed up or out of order |
| DMA channels in the driver, `driver/lldma`, `xpcie_device_fops.c` | a status, a connector_id and an enable bit for each channel; a binding for each open file | ioctls ALLOC/BIND/FREE_QUEUE, ALLOC/FREE_CONNECTION, `open()`, `release()` | one owner for a channel; none lost when a call is overtaken, times out or its process dies |
| DMA channel registers, `libxpcie_lldma.c` | registers behind a selection register CH_SEL; the card's ring position | the accesses of start, stop, connect, disconnect | a started channel is set up with its own values; a free one is off |
| DMA channel library, `liblldma.c`, set-up part of `libdma.c` | descriptor tables `fd_get_queue`, `fd_ref_queue` | `fpga_lldma_init/finish`, `*_connect/*_disconnect`, `queue_setup/finish` | the table leads to the owner of each channel the user has; nothing leaks when a step fails |
| Chain table, `driver/chain`, `libchain.c` | ingress and egress tables in the card, request registers, the driver's copy | connect, disconnect, read, reset of the copy; polls with a timeout | copy and card agree; connect sets both sides or none |
| Reference count, `libxpcie.c`, `libfpgabs.c` | a counter, -1 while a bitstream is written | acquire, release, cleanup, reconfiguration | writing excludes users; the mode is given back on every path |
| Global module, `driver/global`, `libfpgactl_err.c` | versions, clock and memory error registers | soft reset, get/clear/mask/force errors | a flag is found under the name it was raised with; a clear takes nothing else |
| Chain and direct errors, `libchain_err.c`, `libdirecttrans_err.c`, `driver/chain`, `driver/direct` | error registers of each lane, some behind a select register | get, clear, mask, force, insert | as above, and no lane reaches another's registers |
| Counters and states, `libchain_stat.c`, `libdirecttrans_stat.c`, `libfunction_*_stat.c`, `libfpgacommon.c` | 64-bit counters read as two words through select registers; a poll with a time limit | get, clear, wait | the value is that of the channel asked for and never an old one; a wait ends and misses nothing |
| Function blocks, `libfunction.c`, `libfunction_conv.c`, `libfunction_filter_resize.c` | a list of functions, some from shared libraries, a function and a JSON text for each lane, registers | register, load, unload, config, init, set, finish, get | no pointer into an unmapped library; a block runs with the parameters of one call |
| Devices, `xpcie_device*.c`, `libxpcie.c`, `libfpgactl.c` | the driver's list of cards with the lanes of each module; each process' table of open devices | probe, remove, open, release, discovery, init, scan, finish, update, register lock | no descriptor lost; a name leads to its card; the numbers of lanes are the hardware's |
| Shared memory manager, `libshmem_manager.c` | a table of forked DPDK primaries, pages per socket | start, stop, health check, finish; a hand-shake through a file with a time limit | one entry for a prefix, pages given away once, entries go with their managers |
| Shared memory client and controller, `libshmem*.c` | a request socket, a list of prefixes in error, a lock file, hugepage mappings | enable, disable, with checks; attach, detach; translate addresses | every request is answered; the end of the last user is noticed, and a good one is not reported as bad |
| Card management, `driver/cms`, `libpower`, `libtemp` | none | read sensors, poll the mailbox | not modelled |
| TCP offload, `lib/libptu` | sessions in the card | listen, accept, connect, disconnect with timeouts | an event is reported once and to the right caller |
| Parameters and logging, tools, build of external packages | - | - | not modelled |

How they interact. The library calls the driver through ioctls on descriptors of the device
file; the driver keeps state for each open file and for each device and accesses the card's
registers. The command queue bypasses the driver: it is mapped into every process that has
bound to the channel and is polled by the card. A reconfiguration replaces the card's contents
under all of them, and the reference count keeps them away from it.

What is hard. The ring has no locks and any number of processes use it. The driver's ioctls are
unlocked except for the status of a channel and for single register accesses, so their halves
interleave. A process can die between any two system calls, and only what belongs to its files
is given back. The card answers by setting bits that the driver polls, with time limits after
which a late answer may still come. The library's descriptor tables outlive the descriptors in
them. Counters and error registers are reached through select registers and packed by hand in
three layers. The shared memory is a protocol of four kinds of processes over signals,
`waitpid()`, lock files and sockets, each of which may end at any point.

## 2. Modules

| Module | Role | Code |
|---|---|---|
| `DmaFifo` | abstract: bounded FIFO of commands | `libdma.h` |
| `CmdQueue` | the ring, one action for each access | `libdma.c` |
| `CmdQueueProofs` | proofs: type, exclusive descriptors, whole commands; refinement | |
| `ChannelLock` | abstract: a lock for each channel | |
| `Lldma` | the driver's ownership of channels, ioctls in two halves | `driver/lldma`, `xpcie_device_fops.c` |
| `Liblldma` | processes with descriptor tables, on top of `Lldma` (composition) | `liblldma.c`, `libdma.c` |
| `LiblldmaProofs` | proofs about `Lldma`: no channel lost, none active without an owner, refinement; about `Liblldma`: its tables and the files agree | |
| `LldmaRegs`, `LldmaRegsProofs` | register accesses of start and stop through CH_SEL, with proofs; proofs about `ErrRegs` | `libxpcie_lldma.c` |
| `ChainTable`, `ChainTableProofs` | chain table, its copy and the libchain calls, with proofs | `driver/chain`, `libchain.c` |
| `Refcount` | the count and the reconfiguration; proofs in `DevicesProofs` | `libxpcie.c`, `libfpgabs.c` |
| `FaultBank` | abstract: named flags, each register on its own | headers of the error calls |
| `RegAccess` | layouts and accesses: where each bit of a structure lives | |
| `ChainErr`, `DirectErr`, `GlobalErr`, `ConvErr`, `FilterResizeErr` | the error calls of a module, from library to register | `lib*_err.c`, `driver/chain`, `driver/direct`, `driver/global` |
| `ErrRegs` | composition: caller and hardware on all error registers; proofs in `LldmaRegsProofs` | the same |
| `StatRegs` | the access of each counter, latency and state call | `lib*_stat.c`, `driver/chain`, `driver/direct` |
| `LaneRegs` | the plain registers: start, stop, DDR buffers, module ids | `libchain.c`, `libdirecttrans.c` and their driver parts |
| `StatCalls`, `StatCallsProofs` | threads that make these calls, and the polls, with proofs | the same, `libfpgacommon.c` |
| `FnRegs`, `FnBlocks`, `FnBlocksProofs` | the writes that program a lane; the function table above them, with proofs | `libfunction.c`, `libfunction_conv.c`, `libfunction_filter_resize.c` |
| `Devices`, `DevicesProofs` | the driver's cards and the processes' tables, with proofs | `xpcie_device.c`, `xpcie_device_fops.c`, `libxpcie.c`, `libfpgactl.c` |
| `Shmem`, `ShmemProofs` | controller, managers, application and users of shared memory, with proofs | `libshmem_manager.c`, `libshmem_controller.c`, `libshmem.c` |
| `MC*` | instances for TLC: values of constants, symmetry | |

### CmdQueue

`ring` is the array of descriptors, `writehead`, `readhead` and `hwhead` (external: where the
card polls) the three heads. A call of `fpga_enqueue()` is the actions `EnqueueCall` (the
argument checks, as `Admissible`), `EnqueueReadHead`, `EnqueueFull` or `EnqueueCheck` (task_id
is tested), `EnqueueClaim` or `EnqueueRetry` (the compare-and-set), `EnqueueFill`,
`EnqueueTask`, `EnqueueReady` (the stores, op after `rte_wmb()`). `fpga_dequeue()` likewise. An
action is one access to the shared memory; the exceptions are named in the module's header. The
model assumes that the compiler and the processor keep the order of the accesses that
`rte_wmb()` and the compare-and-set separate, which they do on x86.

`ppass` and `cpass` are history variables: how often the head a call has read was claimed
since. They are used by `Prompt`, which says that nobody was overtaken by a whole lap. They are
cut off at N, the only value that matters to `Prompt`.

### Lldma and Liblldma

In `Lldma` an ioctl that marks the channel under `queue_mutex` and goes on without it is two
actions; `half` holds what the second has to do. `StopTimeout` is a pipe that does not drain. A
`copy_to_user()` that fails after the allocation (`AllocRefused`, `Refuse`, `UndoStop`,
`UndoPut`) leaves the file unbound and gives the channel back by steps of its own. The driver
accepts calls that break its bookkeeping (a second allocation on a file, a free of another's
channel): `Next` has them, `DisciplinedNext` is what callers must keep to. `Liblldma` EXTENDS
`Lldma` and adds processes. A library call is a sequence of system calls in `todo`, each with
what the function does if it fails (`undo`); descriptors are numbers that the kernel hands out
again, lowest first. `Die` may happen between any two system calls and is followed by
`CloseAtExit` for each file. `KeepsDiscipline` says that the library keeps to
`DisciplinedSpec`, and so joins the two: what is proved of `DisciplinedSpec` holds below a
library so used.

### LldmaRegs

One direction of the module. A call is a list of accesses in `todo`, computed from the driver's
functions; data is abstracted to the channel it is meant for, so that a value in the wrong
channel's registers is seen. `sel` is CH_SEL. The pipe, the ring position and the transfer are
external. The status of a channel, which `Lldma` models, admits one call to a channel at a
time; calls for different channels mix their accesses. `lost` and `astray` are history
variables: callers whose selection another call has replaced, and channels whose call has
missed one of their registers for that, or that were hit in the place of another. A connection
without an id (`d2dh_nocid`, `d2dd_nocid`) skips the registers that the driver skips.

### ChainTable

`soft` is `dev->fch_dev_table`, `ingr` and `egr` the card's tables (external, served by
`Serve`), `regs` the request registers of each lane and side. A thread's `job` has a plan of
ioctls, and each is a list of register writes, a poll and an update of the copy. `PollTimeout`
leaves the request in the registers. `env` is fixed in a behaviour and selects what the callers
do and whether the card may be late, so that one run covers several kinds of users. `lost` is a
history variable: entries whose last update or delete timed out, of which the code cannot say
what the card has done.

### Refcount

Every command on the count is one step, since the driver holds a lock; `__fpga_config_region()`
is one step for each of its parts, and each may fail. `user` and `deadWriter` are history
variables: whose acquires are in effect, and whether a writer has died.

### Error registers

What matters of an error call is where each bit of its structure lives. An access in `ChainErr`
and its siblings has the name of the C function it stands for, and maps a field and a bit of it
to a cell, a bit of a register; the library's function is built from the ioctl's, that from the
driver's, as in the code. In `ErrRegs` the state of the hardware is the set of cells that are
one. A behaviour picks a register as a caller names it, sets, raises, reads and clears there;
`RefinesBank` compares what every get of every other name would return with `FaultBank`. A
wrong shift, a wrong address or a wrong dispatch shows as a flag that appears or vanishes
elsewhere.

### Counters, states and waits

`StatRegs` gives for each call the select register, the value written to it and the words read.
In `StatCalls` threads carry out the accesses one at a time while the hardware counts; words
are reduced to 0..3, so that carries happen. Calls that share a select register are kept apart
(`WindowFree`), because no lock is there: see the hazards. `__fpga_common_polling()` is
modelled with the settable clock it uses.

### Function blocks

`FnBlocks` has the list, the lanes, the `dlopen()` counts and the texts; a set or finish makes
its `pwrite()` calls one at a time and each can be refused. Two paths with undefined behaviour
(a second `free()`, an unset pointer) lead to states of `Aborted`, after which nothing is said
of the process.

### Devices

A card is known by its serial number, which also names its file. Opening, reading anew or
closing one card is one step, with a choice of the system calls that fail. `fpga_init()`,
`fpga_scan_devices()` and `fpga_finish()` take a step for each card: `work` is the call a
process is in and the names it has yet to do, and between two of them cards may come and go,
other processes call, and the process may end. The discovery of modules is one step for each
lane looked at and one for each count, because it counts in the structure that other processes
read. A list of names may be longer than the table: the code writes past its array of names
then (`libfpgactl.c:302`), and the model has two of the outcomes, that all is well and that the
process ends.

### Shmem

`infos` is `manager_infos`. A manager is `child[k]`, k its process id, from fork over the
hand-shake (`tsf`: the file is absent, empty, or says that DPDK came up or did not) to the loop
with its callback and the end. A parent that finds the file empty reads "not initialised", as
`fscanf()` does at the end of a file. `waitpid()` on a killed manager is modelled as it is: the
first call leaves the entry, later calls fail and leave `status` unset, and `Garbage` ranges
over what it may hold. `cmd` and `res` are the request and the answer on the socket, `app` is
the application's call and its next step, `lockf` and `client` the lock file and the processes
that hold it; `linked` says whether the file they have open is still the one others find. A
manager that tells the application of a dead user waits for the answer without a limit: when
`fpga_shmem_controller_finish()` has ended the thread that answers, its sockets stay open, and
only the end of the application (`AppEnds`) ends the manager. `died` and `blamed` are history
variables: prefixes with a user that died, and these with those of a user that was reported
between its `open()` and its `flock()`.

## 3. Runs

| Run | Instance | Shows |
|---|---|---|
| `fifo` | 2 enqueuers, 2 dequeuers, 3 descriptors, an ordinary request, one whose address is not mapped and one for each check that refuses | `ExclusiveDescriptor`, `PublishedIsComplete`, the refinement `IsFifo` and its fair form `IsFairFifo` |
| `channels` | 2 processes with 2 descriptors, 1 RX and 1 TX channel | of the library `HeldIsOwned`, `OwnedIsHeld`, `KeepsDiscipline`, `DeadReleases`; of the driver below it `UsedIsOwned`, `ActiveIsOwned`, refinement `IsLock` |
| `bindings` | 2 processes with 2 descriptors, 2 RX channels one of which the card lacks, host and network use, one binding for each process | `HeldIsActive` |
| `regs` | 2 callers, 2 channels, host, device to device through a buffer, and without a connection id, rings of 2 | `StartedIsReady`, `FreeIsQuiet` |
| `chain_sound` | 2 threads, 1 lane, 2 function channels, 2 sessions, 4 scenarios | `EgressSound`, `IngressSound`, `Mirror`, `AllOrNothing` |
| `refcount` | 3 processes, 4 acquires | `Exclusion`, `RefcountInv`, `WritingEnds` |
| `errors` | every register, lanes 0, 3 and 4 of four, connections 0, 511, 512, 5 bits of each field, 2 sets, 2 faults | refinement `RefinesBank`, `NoFaultLost` |
| `stats` | every call once beside a second thread, first, last and next lane and channel, 2 steps of the hardware, a clock set back once | `NeverUnderReports`, `ReadsOwnCounter`, `WaitMissesNothing`, `EveryCallReturns` |
| `functions` | 2 lanes, a list of 2, a shared library and an application function of the same name, 5 kinds of parameters, 5 calls, 2 of which program a lane | `NoDangling`, `JsonOwned`, `NeverRunsMixed` |
| `devices` | 2 processes, 3 cards, tables of 2, 3 lanes, 2 contents of a card, lists of 3 names, 3 probes, 4 calls | `FilesAreEntries`, `NumCountsOpen`, `FileIsOfName`, `MapIsHardware` |
| `shmem` | 2 prefixes, 2 managers, 1 user, 1 page on each of 2 sockets, 3 calls, 1 fault | `OneEntryPerPrefix`, `PagesWithinLimit`, `NoticeSparesFinished`, `EntryEndsWithManager`, `RequestAnswered`, `SignalledEnds` |
| `shmem_notice` | the same | that `NoticeHasCause`, which a comment of the code states, is violated |

Most modules with variables also have a type invariant, `TypeOK` (`LibTypeOK` in `Liblldma`);
it holds in these instances and is where to start reading the state. Those of `CmdQueue`,
`LldmaRegs` and `Devices` are proved (`Typing`, `RegsTyping`, `DevicesTyping`).

Why the bounds are enough. Three descriptors let both callers of an end hold one at the same
time, claimed and not yet filled or drained, while neither is lapped: fills end in either order
before the card that waits for the first, and the compare-and-sets of the two race. (With two
descriptors `Prompt` would rule this out.) The ring is full, empty and wrapped within a few
commands, and the proofs hold for every size and any number of callers. Two descriptors for a
process give exhaustion, reuse and the two files of a connection; two processes an owner and a
contender for a channel, and `bindings` adds a binder; the proofs hold for any number. In
`regs` two callers and two channels are what it takes to hit the wrong one; the constraint
`MCStrays` follows what has gone astray to the end of the calls concerned and no further, and
the kinds it leaves out (network, direct peers, a buffer without an id) are those of the
theorems. In `chain_sound` two function channels and two sessions allow every exchange of one
for the other; the lanes are independent but for the look-up of a read, which searches all of
them. Its scenarios are the egress side with a card that may be late, the ingress side likewise
with careful callers, all calls with a prompt card, and `fpga_chain_connect()` against the
disconnect of its second side with a card that may be late. In `errors` and `stats` the values
are the first, the last and the next of each range, at which a check or a shift can be off by
one; a behaviour works on one register, and all others are compared. In `functions` five calls
are what it takes to register, load, unload, register again and configure. In `devices` three
cards overfill a table of two and can come back in another order; one layout has a gap between
lanes, the other lacks the first lane of a module; a list of three names, one of them twice, is
longer than the table and cut between any two cards. A scan lists the cards as they were when
it began, in either direction: those that come or go meanwhile are found missing or not at all,
as with `readdir()`. In `shmem` three calls reach a restart of a prefix that is in error, a
stop of one prefix while another is in the list, and a start when no process is left; the fault
is a killed manager, a directory that vanished or an attached user, one of them in a behaviour.
Bounds named in the modules: `MaxRefs` (bindings of a process), `Uses` (acquires in effect),
`MaxSets`, `MaxRaise`, `MaxMoves`, `MaxSetback`, `MaxProbes`, `MaxCalls`, `MaxForks`,
`MaxFaults`, and the sets of the cfg files.

Conditions. What the runs show is under conditions that the code leaves to its callers; each is
a named part of a specification: `Prompt` (no call is lapped), `DisciplinedNext` and the
careful user of `LibNext(FALSE)` (no call for a channel the process already has, and no pipe
that fails to drain after a failed `copy_to_user()`), accesses that have not gone astray in
`regs`, `serial` and `careful` in `chain_sound` (one ioctl at a time on a lane's side; an
ingress side gets a session only if it has none), a `Cleanup` of the count only when all users
are dead, `WindowFree` in `stats`, one caller for each register in `errors`, one thread in
`functions`.

Disagreements between the code and what it says of itself, met while modelling. The last is a
run of its own; of the others each is excluded by one of these conditions, is named as an
exception in the property, or is undefined behaviour in the model:

- `task_id` marks a descriptor as taken but is stored after the compare-and-set. A caller
  preempted in between is lapped and two calls fill one descriptor (`libdma.c:361`; "Get free
  descriptor", line 342): `ExclusiveDescriptor` fails under `Spec`, without `Prompt`.
- `fpga_lldma_init()` of a channel the process already has fails, and overwrites the descriptor
  in the table; `fpga_lldma_finish()` can no longer stop the channel (`liblldma.c:74`;
  `liblldma.h:109`): `OwnedIsHeld` fails under `ReinitSpec`.
- Two allocations of different channels interleave between CH_SEL and the enable; the call
  succeeds and its channel is off (`libxpcie_lldma.c:439`): the exception `astray` of
  `StartedIsReady` and `FreeIsQuiet`.
- When `copy_to_user()` fails after an allocation and the pipe then does not drain, the ioctl
  fails, the channel stays `USED` and no file can give it back (`xpcie_device_fops_lldma.c:44`,
  `libxpcie_lldma.c:166`): `UsedIsOwned` fails under `Next`, with `UndoTimeout`.
- A device-to-device channel whose owner died keeps its mode and is started for the network in
  it (`libxpcie_lldma.c:436`; "Set dma type as transfer with host", line 435).
- `fpga_chain_connect()` times out, and the request still in the registers is served
  afterwards: the call failed and the chain is set (`libxpcie_chain.c:148`; `libchain.h:237`:
  "If either cannot be set correctly, do not set both settings"). `AllOrNothing` holds with a
  late card for each side whose request was answered; for the one that timed out (`lost`) the
  header's sentence is wrong.
- An `fpga_init()` that is refused for a later argument leaves the number of names it has
  parsed in `devices_num` (`libfpgactl.c:386-391`), which is the "num of opening devices"
  (`libfpgactl.c:64`) and what `fpga_get_num()` returns as the number of opened devices
  (`libfpgactl.h:376-379`): `NumCountsOpen` lets this call alone add to the count.
- `fpga_function_load()` frees the copy of the library's name twice when `dlsym()` fails
  (`libfunction.c:557` and 595).
- `fpga_shmem_delete_error_prefix()` of a prefix that is not in a list with other entries frees
  what stands before the list (`libshmem_controller.c:987`), where its header documents
  `-MISMATCH_FILE_PREFIX`; `fpga_shmem_disable_with_check()` makes that call.
- After `fpga_shmem_controller_finish()` a manager that has a dead user to report connects to
  the socket that the ended thread has left open (`libshmem_controller.c:841`,
  `libshmem_socket.c:31`), and waits in a `recv()` without a time limit
  (`libshmem_controller.c:1176`) that SIGUSR1 restarts (`libshmem_manager.c:88`): it does not
  end while the application lives, although it has been told to. It is the exception `Stuck` of
  `SignalledEnds`.
- A user of shared memory that has opened the lock file and not yet locked it is reported as
  ended (`libshmem.c:391`), where the manager's comment says "user call fpga_shmem_finish() or
  killed" (`libshmem_controller.c:1146`): the run `shmem_notice` finds it.
  `NoticeSparesFinished` shows that this race is the only one.

Also met, and allowed by the models, without a text that they contradict: `fpga_enqueue()` can
report a full queue that has room, when the descriptor it tests was claimed since it read the
head; a second `fpga_lldma_queue_finish()` closes whatever file now has the number
(`libdma.c:187`); the TX descriptor of a connect stays open when the RX channel is not
available (`liblldma.c:301`); concurrent chain ioctls on one side of a lane mix their register
writes (`libxpcie_chain.c:117`); a second ingress connect leaves the first session in the card
for good (`libxpcie_chain.c:140`); a forced cleanup while a process writes lets others in
(`driver/libxpcie.c:783`); two processes that clear one error register with their own snapshots
can take back a fault that was raised again (`libchain_err.c:1090`); two that set one lane of a
function mix their writes (`libfunction_conv.c:58`); a manager whose start was answered NG
after a minute, or while its file was empty, may come up and keep its pages without an entry,
and the answer about it is "not in use" (`libshmem_manager.c`, `ParentTimeout` and
`ParentGivesUp`); a manager started with the default size has no pages recorded, so the limit
does not see them; the numbers of lanes in the library's table are those of the time when the
card was opened or scanned (`libfpgabs.c:446`); a process stays bound to a ring after the
channel has a new owner (`libdma.c:160`). After a reconfiguration the driver's copy of the
chain table is that of the old bitstream (`libfpgabs.c:267`), which no module shows yet: see
the plan.

Fairness.
- `fifo`: weak fairness of the steps of each `fpga_enqueue()` call (a running thread is
  scheduled), of the card's polling, and of the callers of `fpga_dequeue()`, which call again;
  nobody is obliged to enqueue.
- `channels`: weak fairness of the kernel on the calls it has begun and on the files of a dead
  process, and of the steps of a library call.
- `refcount`: weak fairness of a reconfiguration that has the writing mode; its steps wait for
  no other process, and `mcap` is assumed to end.
- `stats`: weak fairness of the steps of each call, which wait for nobody.
- `shmem`: weak fairness of the controller while it has a request (its waits have time limits)
  and of each manager's own steps (its loop sleeps and polls). Nobody has to call, attach or
  detach, and no fault has to happen.

Deadlock is checked in every run but `devices`, `shmem` and `shmem_notice`, where everything
may rest: no process has to make another call, and the budgets of calls and faults end.

## 4. Proofs

Each theorem is for all values of the constants that satisfy the named assumptions
(`CmdQueueAssumption`, `LldmaAssumption`, `LiblldmaAssumption`, `LldmaRegsAssumption`,
`ChainAssumption`, `RefcountAssumption`, `FnAssumption`, `OpsAssumption`, `ParamsAssumption`,
`DevicesAssumption`, `ShmemAssumption`, `StatAssumption`): any sets of processes, channels,
lanes, sessions or prefixes, any sizes, and any budgets of calls and failures. The module after
a component's name has its proofs.

**The ring** (`CmdQueueProofs`). `Typing` holds for `Spec`, lapped or not. `Exclusive` and
`Complete` hold for behaviours with `[]Prompt`. Neither is inductive: from "the compare-and-set
succeeds" one has to conclude that the descriptor is still the free one that was tested. The
invariant `IInv` adds `HeadsOK`, the heads as distances (`npend` and `ndone`; each call's head
is `ppass` claims behind), `CallsOK`, what each call knows of its descriptor, and `ArcsOK`, the
ring as three arcs: completed, being written or ready, and free or being drained. With
`Prompt`, a call whose head equals `writehead` has `ppass = 0`, and what it tested still holds;
without `Prompt` this step fails, which is the first disagreement of section 3. `RingIsFifo`
shows that each step is a step of `DmaFifo` or a stutter: the claim by the compare-and-set is
the moment a command enters or leaves the FIFO, and a descriptor that is still being written
stands for its owner's command (`CommandAt`).

**Channels** (first part of `LiblldmaProofs`). `NoLostChannel`, `NoOrphanActive` and
`ChannelsAreLocks` hold for `DisciplinedSpec`. The invariant `ChannelInv` adds to them that a
channel has one owner and what a file in the middle of an ioctl has (`HalvesOK`): a half-done
start counts as ownership already, and so does an allocation that is being taken back; a
half-done stop still does.

**The library** (the rest of `LiblldmaProofs`). `TableLeadsToOwner`, `HeldStaysActive`,
`NothingLeftBehind` and `LibraryIsDisciplined` hold for `CarefulSpec`, for any number of
processes, channels and descriptors and either way of use. None is inductive: in the middle of
a call the table disagrees with the files, and which entries disagree, and how, depends on the
system calls the library call has still to make. The invariant `LibInv` therefore sorts a
process's table entries by what its call has left to do (`Left`): about to be opened, leading
to a new file, leading to one that has its channel, or being given back, by a stop or by an
allocation that takes itself back (`IsUndoing`). `Fits` then says that the sorts do not meet,
that each entry leads to a file of its sort, that no two lead to one file (nor to the file a
process is bound by), and, by `Covered`, that the table finds every file that owns a channel;
without this last part a refused call could leave a channel behind. A step of one process
changes one of its own files (`Touches`), so what holds of the other processes is kept;
`ChannelInv` is kept by the lemmas of the first part. With `LibraryIsDisciplined` the library's
behaviours are behaviours of `DisciplinedSpec`, and the theorems on channels hold of them. A
user who does ask for a channel he has is outside these theorems (section 3).

**DMA channel registers** (`LldmaRegsProofs`). `RegsTyping` is for any number of callers:
registers hold values of their kind, and `CallsInv`, a channel that a call works on is moving
and is worked on by that call alone, which is what the status of `Lldma` is for. `StartIsReady`
and `FreedIsQuiet` also are for any number of callers, although their accesses through CH_SEL
mix (section 3): an access either goes to the call's own channel, or its selection was replaced
(`lost`) and both channels concerned are `astray`, where nothing is claimed. The theorems say
that this is the only way to fail. They are about channels at rest, and say nothing of the
half-written registers of a call under way, so they are not inductive. The invariant `RegsInv`
describes a call by the set of accesses it has left, whatever their order: every register a
start has to set is set already or its write is left (`Starting`), a stop has closed the
channel or will (`Stopping`), unless the channel is astray. CH_SEL names the call's channel, is
written next, or was written by another call. When nothing is left, this is `StartedIsReady`.

**Error registers** (`LldmaRegsProofs`, last part). `FaultsAreNotLost`, for any lanes,
connection ids, bits and numbers of calls: no clear takes back a fault that no get has
returned. The lemma it rests on, `ClearsWhatItGets`, goes down for each of the eleven kinds
that can be cleared from the call of the library through the ioctl to the driver's function:
the clear names the cells of the get, each flag the same one, whatever the layout. `ErrInv`
then says that the faults of the last get are still in the register and not among the unseen,
because a fault is raised only in a cell that is zero.

**Chain table** (`ChainTableProofs`). One theorem for each kind of user, in the order of what
it keeps to. With one ioctl at a time on a side of a lane (`env.serial`), `EgressIsSound`: the
invariant `SerialInv` has what a thread has written to the request registers at each of its
steps (`Stage`), what the card has done when its response is seen (`Effect`), and that a
request still to be served is polled for or is recorded as timed out (`LateEgress`); the copy
may differ from the card only while the answer is waiting to be seen. With careful callers
also, `IngressIsSound`: the ingress table is indexed by session and the copy by function
channel, so `CarefulInv` adds that no two channels or calls have one session, and that a delete
that timed out does not hit the session of a later connect. `ConnectIsAllOrNothing` is for the
same users and any card, late or not: `PairInv` says that an egress entry that did not time out
is the copy's while no ioctl works on it, that a request served late belongs to an entry of
`lost`, and that a connect that has failed on its egress side has taken its ingress side back,
is doing so, or has lost it. With a card that answers in time also, `TablesMirrorCopy`, from
`MirrorInv`: both tables are the copy and nothing more. `ChainInvariant` is the conjunction.

**Reference count** (second part of `DevicesProofs`). `RefcountSafe` and `ConfigExcludes` from
`RefcountInv`: the count is the number of acquires in effect, or -1 with none. The cardinality
facts are those of `FiniteSetTheorems`.

**Counters and waits** (`StatCallsProofs`). `CountersNeverUnderReport`,
`CallsReadTheirOwnCounter` and `NoWaitMissed`, for any threads and calls and up to four
kernels. First the addresses: `OwnWindow` says of every call there is that the select register
it writes is the one its words listen to, and that a value of two words is that of a counter
which only grows. A wrong offset in one branch of a driver function is a lane, a register or a
channel for which this does not hold. The invariant `StatInv` has what a thread knows at each
of its steps: its window is its own while it reads (`Exclusive`), and a low half that it has
read is the low half of some value v the counter has had since the call began (`Reading`). A
value read in two halves is then v's low half with a later high half, which is no less than v,
and is v if the counter is still; of one that moves only `CountersNeverUnderReport` says
something, and with a carry between the reads the value may be one that the counter never had.
The low half can be behind its carry, never ahead of it, because the low half is read first.
`StatAssumption` asks that a word holds more than a counter moves by (`WORD > MaxMoves + 1`):
the bytes carry, but a counter of one word, which starts at one, does not wrap; for one that
does, "never behind" has no meaning.

**Function blocks** (`FnBlocksProofs`). `FunctionsAreMapped`: that a lane's function is mapped
follows only from the `dlopen()` count being the number of entries of the table of libraries
(`LibsInv`), and from names being unique in the list, so that the entry an unload removes is
the library's (`ListTablesInv`). `TextsAreOwned` rests on it and `JsonInv`. `BlocksRunAsAsked`:
`WritesInv` says that the writes left to do are the rest of one call's plan after some number n
of them, and what the registers hold after n writes (`FrProgress`, `ConvProgress`): the block
is stopped from the first write to the last but one, so a refused write leaves it stopped or as
it was.

**Devices** (`DevicesProofs`). `FilesMatchEntries`, `CountIsOpen`, `FileHasName` and
`MapMatchesHardware`, for any number of processes, cards, lanes and table entries, lists of
names of any length, and every order of modules that starts with the chain and does not end
with PTU. None is inductive. That the file of a name is its card needs the driver's side,
`MinorsOK`: the minor numbers of listed cards differ and are below the next one to be given.
That a table has one file for each entry needs that a card in use stays listed, that two
entries never name one card, and, of a call for several cards, only that each of its steps
leaves the table as a whole right: `Fine` holds between any two cards, which is why a process
may end there. `CountIsOpen` is a statement about steps, because the count an `fpga_init()`
leaves behind stays: no other call moves the count away from the number of entries, and it
never falls below it. `MapMatchesHardware` follows a discovery while it counts in the map
itself. `Lone` says of one that nothing has disturbed that nobody else runs on its card, that
the modules it has left behind have their right numbers, and that the lanes counted of the
present one are all there; the number left behind by `PTU` is the chain's. A card whose map is
vouched for (`sound`) is listed and has no discovery running.

**Shared memory** (`ShmemProofs`). `PrefixHasOneEntry` and `EntriesEndWithManagers` from
`EntriesInv`: the check for the prefix is made before the fork and used after the wait, which
is sound because one request is under way at a time (`TurnInv`) and the entry found stays free
until it is filled (`WaitInv`). `NoticesSpareFinished` from `NoticeInv`: a lock file that is
there and not written to has a user, or one of its users has died or was reported too early;
the manager decides by that file alone. `PagesStayWithinLimit` from `PagesInv`: while the
controller waits there is room for the pages of its request beside those of the table, because
every check of health in between only gives pages back. A sum is the number of its units
(`SumOf`), so that what a sum loses or gains with one entry is a fact on the cardinality of
sets and needs no induction over the table.

Only model-checked:
- liveness (`IsFairFifo`, `DeadReleases`, `WritingEnds`, `EveryCallReturns`, `RequestAnswered`,
  `SignalledEnds`), because fairness and ENABLED are out of the prover's reach;
- `RefinesBank` of `ErrRegs`: that no call disturbs the register of another rests on their
  layouts, built with `@@`, which the provers cannot expand; TLC compares them one by one.

## 5. Not modelled

- `mmap()` of BARs and queues, PCI configuration space, retraining of links: kernel interfaces
  and address arithmetic.
- Card management (`driver/cms`, `libpower`, `libtemp`): reads of sensors without state; a
  mailbox that does not answer is a failed probe in `Devices`.
- `lib/libptu`: the sessions of the TCP stack live in the card and the repository holds no
  description of its side; the calls are register accesses and waits on it.
- The mapping of hugepages and the translation of addresses (`libshmem_mmap.cpp`, the
  allocation calls of `libshmem.c`), which are DPDK's; the socket calls below a request.
- `fpga_shmem_set_available_limit()`, which nothing in the repository calls.
- Parameter parsing, logging, tools, external packages.
- In the modelled parts: how long a poll sleeps, the contents of addresses (`local_phy2virt()`,
  `dma_pa_from_va()`), the DDR buffer registers of the LLDMA module, and what steps of a
  reconfiguration do to the card.

## 6. Plan

Done, in this order: the ring with its proofs and its refinement; the channels from the driver
up to the library; the registers; the chain table; the reference count; error registers;
counters and waits; function blocks; devices; shared memory; then the proofs of the registers,
the chain table, the function blocks, the shared memory, the channel library and the devices.

Next, most important first:

1. The composition of a reconfiguration with `ChainTable` and `LldmaRegs`: what the driver
   still believes after the card has been replaced.
2. Sessions of `libptu` against an assumed card; `dma_pa_from_va()` and the merging of
   hugepages against a reference definition.
