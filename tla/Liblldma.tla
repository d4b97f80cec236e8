------------------------------- MODULE Liblldma ------------------------------
(***************************************************************************)
(* User processes that manage DMA channels with liblldma.c, and bind to    *)
(* their command queues with libdma.c, on top of the driver (Lldma).       *)
(*                                                                         *)
(* The library keeps a table of file descriptors, fd_get_queue, indexed by *)
(* channel: "DMA channel will be freed when fd closed, so library should   *)
(* keep opening and close only when finish to use."  A descriptor is a     *)
(* small number that the kernel gives out again as soon as it is closed,   *)
(* always the lowest that is free.                                         *)
(*                                                                         *)
(* A library call is a sequence of system calls, one action each; the      *)
(* calls of other processes come between them, and a process may be killed *)
(* there.  Each process makes these calls from one thread.                 *)
(***************************************************************************)
EXTENDS Lldma, Integers, Sequences, FiniteSetsExt

CONSTANTS Procs,      \* the processes
          Fds,        \* the descriptors a process can have open
          Available,  \* the channels the FPGA implements
          Entries,    \* the entries of fd_get_queue that are used
          MaxRefs     \* bound: bindings of one process to one channel

ASSUME LiblldmaAssumption ==
    /\ Fds \subseteq Nat
    /\ Files = Procs \X Fds
    /\ Available \subseteq Channels
    /\ Entries \subseteq QueueKinds \X Channels
    /\ MaxRefs \in Nat

\* fd_get_queue is indexed by dir, whose DMA_HOST and DMA_NW values differ,
\* and by chid.  A D2D channel uses the entry of its DMA_HOST direction.
Host(ch) == <<"host", ch>>

VARIABLES fd_get_queue,  \* liblldma.c's table of each process
          fd_ref_queue,  \* libdma.c's
          todo,          \* the system calls the current library call has left
          tmpfd,         \* fpga_lldma_queue_setup()'s local variable
          held,          \* the dma_info the user has from fpga_lldma_init()
          linked,        \* <<tx, rx>> the user has from a *_connect()
          refs,          \* how many dma_info the user has from queue_setup()
          dying          \* processes whose files the kernel is closing

libvars == <<fd_get_queue, fd_ref_queue, todo, tmpfd, held, linked, refs, dying>>
allvars == <<vars, libvars>>

\* A system call of a library function: what to do, for which entry of the
\* table, as which kind, for which connector_id, and what the function goes
\* on with when the call fails.
Do(what, e, k, c, undo) ==
    [do |-> what, entry |-> e, kind |-> k, conn |-> c, undo |-> undo]
Simple(what, e) == Do(what, e, "none", NoConnector, << >>)

LibInit ==
    /\ Init
    /\ fd_get_queue = [p \in Procs |-> [e \in Entries |-> -1]]
    /\ fd_ref_queue = [p \in Procs |-> [ch \in Channels |-> 0]]
    /\ todo = [p \in Procs |-> << >>]
    /\ tmpfd = [p \in Procs |-> -1]
    /\ held = [p \in Procs |-> {}]
    /\ linked = [p \in Procs |-> {}]
    /\ refs = [p \in Procs |-> [ch \in Channels |-> 0]]
    /\ dying = {}

-----------------------------------------------------------------------------
(***************************************************************************)
(* Processes and their descriptors.                                        *)
(***************************************************************************)
IsOpen(p, fd) == fd \in Fds /\ private[<<p, fd>>].open
FreeFds(p) == {fd \in Fds : ~IsOpen(p, fd)}
File(p, e) == <<p, fd_get_queue[p][e]>>

\* The process runs in user mode: no call of it is inside the driver.
InUser(p) == p \notin dying /\ \A fd \in Fds : half[<<p, fd>>] = Idle
CanCall(p) == InUser(p) /\ todo[p] = << >>
AtCall(p, what) == InUser(p) /\ todo[p] # << >> /\ Head(todo[p]).do = what

Return(p) == todo' = [todo EXCEPT ![p] = << >>]
GoOn(p) == todo' = [todo EXCEPT ![p] = Tail(@)]
Fail(p) == todo' = [todo EXCEPT ![p] = Head(@).undo]

\* open(): the lowest free descriptor.
DoOpen(p) == Open(<<p, Min(FreeFds(p))>>)

\* close(fd): nothing happens to a descriptor that is not open.
DoClose(p, fd) == IF IsOpen(p, fd) THEN Close(<<p, fd>>) ELSE UNCHANGED vars

-----------------------------------------------------------------------------
(***************************************************************************)
(* The system calls, one action each.                                      *)
(***************************************************************************)

\* __fpga_lldma_check_queue(): the descriptor goes into the table at once.
OpenStep(p) ==
    /\ AtCall(p, "open")
    /\ LET e == Head(todo[p]).entry IN
         \/ /\ FreeFds(p) # {}
            /\ DoOpen(p)
            /\ fd_get_queue' = [fd_get_queue EXCEPT ![p][e] = Min(FreeFds(p))]
            /\ GoOn(p)
         \/ /\ FreeFds(p) = {}
            /\ fd_get_queue' = [fd_get_queue EXCEPT ![p][e] = -1]
            /\ Fail(p)
            /\ UNCHANGED vars
    /\ UNCHANGED <<fd_ref_queue, tmpfd, held, linked, refs, dying>>

\* XPCIE_DEV_LLDMA_GET_CH_STAT
StatStep(p) ==
    /\ AtCall(p, "stat")
    /\ LET ch == Head(todo[p]).entry[2] IN
         IF ch \in Available /\ ~active[ch] THEN GoOn(p) ELSE Fail(p)
    /\ UNCHANGED <<vars, fd_get_queue, fd_ref_queue, tmpfd, held, linked, refs, dying>>

\* Mutant of AllocStep: the channel is allocated with the first descriptor
\* the process has open.
AllocStepFirst(p) ==
    /\ AtCall(p, "alloc")
    /\ LET s == Head(todo[p])
           f == <<p, Min(Fds \ FreeFds(p))>>
           ch == s.entry[2]
       IN  \/ /\ \/ AllocQueue(f, ch, s.kind, s.conn)
                 \/ s.kind = "d2d" /\ AllocConnection(f, ch, s.conn)
              /\ GoOn(p)
           \/ status[ch] # "free" /\ Fail(p) /\ UNCHANGED vars
    /\ UNCHANGED <<fd_get_queue, fd_ref_queue, tmpfd, held, linked, refs, dying>>

\* XPCIE_DEV_LLDMA_ALLOC_QUEUE and XPCIE_DEV_LLDMA_ALLOC_CONNECTION.  A call
\* that fails after it has taken the channel returns when it has undone that.
AllocStep(p) ==
    /\ AtCall(p, "alloc")
    /\ LET s == Head(todo[p])
           f == File(p, s.entry)
           ch == s.entry[2]
       IN  \/ /\ \/ AllocQueue(f, ch, s.kind, s.conn)
                 \/ s.kind = "d2d" /\ AllocConnection(f, ch, s.conn)
              /\ GoOn(p)
           \/ AllocRefused(f, ch, s.kind, s.conn) /\ Fail(p)
           \/ status[ch] # "free" /\ Fail(p) /\ UNCHANGED vars
    /\ UNCHANGED <<fd_get_queue, fd_ref_queue, tmpfd, held, linked, refs, dying>>

\* Mutant of DupStep: the result of strdup() is not tested.
DupStepUntested(p) ==
    /\ AtCall(p, "dup")
    /\ held' = [held EXCEPT ![p] = @ \cup {Head(todo[p]).entry}]
    /\ GoOn(p) \/ Fail(p)
    /\ UNCHANGED <<vars, fd_get_queue, fd_ref_queue, tmpfd, linked, refs, dying>>

\* Mutant of DupStep: fpga_lldma_init() returns the error without close().
DupStepLeaks(p) ==
    /\ AtCall(p, "dup")
    /\ GoOn(p)
    /\ \/ held' = [held EXCEPT ![p] = @ \cup {Head(todo[p]).entry}]
       \/ UNCHANGED held
    /\ UNCHANGED <<vars, fd_get_queue, fd_ref_queue, tmpfd, linked, refs, dying>>

\* strdup(connector_id), which may fail, and the end of fpga_lldma_init().
DupStep(p) ==
    /\ AtCall(p, "dup")
    /\ \/ GoOn(p) /\ held' = [held EXCEPT ![p] = @ \cup {Head(todo[p]).entry}]
       \/ Fail(p) /\ UNCHANGED held
    /\ UNCHANGED <<vars, fd_get_queue, fd_ref_queue, tmpfd, linked, refs, dying>>

\* XPCIE_DEV_LLDMA_FREE_QUEUE.  It fails on a bad descriptor, on one of
\* another kind, and when the pipe does not drain.
FreeQueueStep(p) ==
    /\ AtCall(p, "free")
    /\ LET s == Head(todo[p])
           f == File(p, s.entry)
           ch == s.entry[2]
       IN  IF IsOpen(p, f[2]) /\ MayFreeQueue(f, ch, s.entry[1])
           THEN \/ Stop(f, ch) /\ GoOn(p)
                \/ StopTimeout(f, ch) /\ Fail(p)
           ELSE Fail(p) /\ UNCHANGED vars
    /\ UNCHANGED <<fd_get_queue, fd_ref_queue, tmpfd, held, linked, refs, dying>>

\* XPCIE_DEV_LLDMA_FREE_CONNECTION; the library goes on when it fails.
FreeConnectionStep(p) ==
    /\ AtCall(p, "disconnect")
    /\ LET f == File(p, Head(todo[p]).entry)
       IN  IF IsOpen(p, f[2]) /\ MayFreeConnection(f)
           THEN FreeConnection(f)
           ELSE UNCHANGED vars
    /\ GoOn(p)
    /\ UNCHANGED <<fd_get_queue, fd_ref_queue, tmpfd, held, linked, refs, dying>>

\* fpgautil_close() of the descriptor in the table; "close" leaves the
\* number there, "drop" sets it to -1.
CloseStep(p) ==
    /\ AtCall(p, "close") \/ AtCall(p, "drop")
    /\ LET s == Head(todo[p]) IN
         /\ DoClose(p, fd_get_queue[p][s.entry])
         /\ fd_get_queue' = IF s.do = "drop"
                            THEN [fd_get_queue EXCEPT ![p][s.entry] = -1]
                            ELSE fd_get_queue
    /\ GoOn(p)
    /\ UNCHANGED <<fd_ref_queue, tmpfd, held, linked, refs, dying>>

\* The end of a *_connect() that succeeded.
LinkStep(p) ==
    /\ AtCall(p, "link")
    /\ linked' = [linked EXCEPT ![p] = @ \cup {Head(todo[p]).entry}]
    /\ GoOn(p)
    /\ UNCHANGED <<vars, fd_get_queue, fd_ref_queue, tmpfd, held, refs, dying>>

\* XPCIE_DEV_LLDMA_BIND_QUEUE on tmpfd, and mmap().
BindStep(p) ==
    /\ AtCall(p, "bind")
    /\ LET c == Head(todo[p]).conn IN
         \/ \E ch \in Channels :
              /\ BindQueue(<<p, tmpfd[p]>>, c, ch)
              /\ fd_ref_queue' = [fd_ref_queue EXCEPT ![p][ch] = tmpfd[p]]
              /\ refs' = [refs EXCEPT ![p][ch] = @ + 1]
         \/ /\ Found(c) = {}
            /\ Close(<<p, tmpfd[p]>>)
            /\ UNCHANGED <<fd_ref_queue, refs>>
    /\ tmpfd' = [tmpfd EXCEPT ![p] = -1]
    /\ GoOn(p)
    /\ UNCHANGED <<fd_get_queue, held, linked, dying>>

SystemCall(p) ==
    \/ OpenStep(p)
    \/ StatStep(p)
    \/ AllocStep(p)
    \/ DupStep(p)
    \/ FreeQueueStep(p)
    \/ FreeConnectionStep(p)
    \/ CloseStep(p)
    \/ LinkStep(p)
    \/ BindStep(p)

-----------------------------------------------------------------------------
(***************************************************************************)
(* The library functions.                                                  *)
(***************************************************************************)
Begin(p, steps) == CanCall(p) /\ todo' = [todo EXCEPT ![p] = steps]

CheckQueue(e) ==
    <<Simple("open", e), Do("stat", e, "none", NoConnector, <<Simple("close", e)>>)>>

\* fpga_lldma_init()
LldmaInit(p, e, c) ==
    /\ Begin(p, CheckQueue(e) \o
                <<Do("alloc", e, e[1], c, <<Simple("close", e)>>),
                  Do("dup", e, e[1], c, <<Simple("close", e)>>)>>)
    /\ UNCHANGED <<vars, fd_get_queue, fd_ref_queue, tmpfd, held, linked, refs, dying>>

\* fpga_lldma_finish(): refused when the table holds no descriptor.
LldmaFinish(p, e) ==
    /\ e \in held[p]
    /\ Begin(p, IF fd_get_queue[p][e] = -1 THEN << >>
                ELSE <<Do("free", e, e[1], NoConnector, <<Simple("close", e)>>),
                       Simple("drop", e)>>)
    /\ held' = [held EXCEPT ![p] = @ \ {e}]
    /\ UNCHANGED <<vars, fd_get_queue, fd_ref_queue, tmpfd, linked, refs, dying>>

\* fpga_lldma_buf_connect() and fpga_lldma_direct_connect()
Connect(p, tx, rx, c) ==
    /\ tx \notin Rx /\ rx \in Rx
    /\ Begin(p, CheckQueue(Host(tx)) \o CheckQueue(Host(rx)) \o
                <<Do("alloc", Host(tx), "d2d", c, <<Simple("drop", Host(tx))>>),
                  Do("alloc", Host(rx), "d2d", c,
                     <<Simple("drop", Host(rx)), Simple("disconnect", Host(tx)),
                       Simple("drop", Host(tx))>>),
                  Simple("link", <<tx, rx>>)>>)
    /\ UNCHANGED <<vars, fd_get_queue, fd_ref_queue, tmpfd, held, linked, refs, dying>>

\* fpga_lldma_buf_disconnect() and fpga_lldma_direct_disconnect()
DisconnectOne(p, e) ==
    IF fd_get_queue[p][e] >= 0
    THEN <<Simple("disconnect", e), Simple("drop", e)>> ELSE << >>

Disconnect(p, tx, rx) ==
    /\ <<tx, rx>> \in linked[p]
    /\ Begin(p, DisconnectOne(p, Host(rx)) \o DisconnectOne(p, Host(tx)))
    /\ linked' = [linked EXCEPT ![p] = @ \ {<<tx, rx>>}]
    /\ UNCHANGED <<vars, fd_get_queue, fd_ref_queue, tmpfd, held, refs, dying>>

\* fpga_lldma_queue_setup(): one poll of the device.  A poll that finds no
\* match closes the descriptor; the next one is another call here.
QueueSetup(p, c) ==
    /\ \A ch \in Channels : refs[p][ch] < MaxRefs
    /\ FreeFds(p) # {}
    /\ Begin(p, <<Do("bind", NoChannel, "none", c, << >>)>>)
    /\ DoOpen(p)
    /\ tmpfd' = [tmpfd EXCEPT ![p] = Min(FreeFds(p))]
    /\ UNCHANGED <<fd_get_queue, fd_ref_queue, held, linked, refs, dying>>

\* fpga_lldma_queue_finish()
QueueFinish(p, ch) ==
    /\ CanCall(p)
    /\ refs[p][ch] > 0
    /\ DoClose(p, fd_ref_queue[p][ch])
    /\ refs' = [refs EXCEPT ![p][ch] = @ - 1]
    /\ UNCHANGED <<fd_get_queue, fd_ref_queue, todo, tmpfd, held, linked, dying>>

-----------------------------------------------------------------------------
(***************************************************************************)
(* The process dies, between any two system calls: the kernel closes its   *)
(* files one after the other.  Another process may start in its place.     *)
(***************************************************************************)
Die(p) ==
    /\ InUser(p)
    /\ dying' = dying \cup {p}
    /\ fd_get_queue' = [fd_get_queue EXCEPT ![p] = [e \in Entries |-> -1]]
    /\ fd_ref_queue' = [fd_ref_queue EXCEPT ![p] = [ch \in Channels |-> 0]]
    /\ todo' = [todo EXCEPT ![p] = << >>]
    /\ tmpfd' = [tmpfd EXCEPT ![p] = -1]
    /\ held' = [held EXCEPT ![p] = {}]
    /\ linked' = [linked EXCEPT ![p] = {}]
    /\ refs' = [refs EXCEPT ![p] = [ch \in Channels |-> 0]]
    /\ UNCHANGED vars

CloseAtExit(p) ==
    /\ p \in dying
    /\ \E fd \in Fds : Close(<<p, fd>>)
    /\ UNCHANGED libvars

Respawn(p) ==
    /\ p \in dying
    /\ FreeFds(p) = Fds
    /\ dying' = dying \ {p}
    /\ UNCHANGED <<vars, fd_get_queue, fd_ref_queue, todo, tmpfd, held, linked, refs>>

\* The kernel goes on with a call the process has begun.
InKernel(p) == (\E fd \in Fds : Continue(<<p, fd>>)) /\ UNCHANGED libvars

-----------------------------------------------------------------------------
\* The entries of the channels that the user of p has and has not given back.
Mine(p) == held[p] \cup UNION {{Host(l[1]), Host(l[2])} : l \in linked[p]}

\* What the user may call.  A user need not know that he already has the
\* channel he asks for (reinit); he binds to a queue only once at a time.
UserCall(p, reinit) ==
    \/ \E e \in Entries, c \in Connectors :
          /\ ~reinit => e \notin Mine(p)
          /\ LldmaInit(p, e, c)
    \/ \E e \in Entries : LldmaFinish(p, e)
    \/ \E tx, rx \in {ch \in Channels : Host(ch) \in Entries}, c \in Connectors :
          /\ ~reinit => {Host(tx), Host(rx)} \cap Mine(p) = {}
          /\ Connect(p, tx, rx, c)
    \/ \E tx, rx \in Channels : Disconnect(p, tx, rx)
    \/ \E c \in Connectors :
          /\ \A ch \in Channels : refs[p][ch] = 0
          /\ QueueSetup(p, c)
    \/ \E ch \in Channels : QueueFinish(p, ch)

Environment(p) == SystemCall(p) \/ InKernel(p) \/ CloseAtExit(p) \/ Respawn(p) \/ Die(p)

LibNext(reinit) ==
    \E p \in Procs : UserCall(p, reinit) \/ Environment(p)

\* A careful user neither asks for a channel he has nor binds to it twice.
CarefulSpec == LibInit /\ [][LibNext(FALSE)]_allvars

\* Of any user: a refused fpga_lldma_init() overwrites the descriptor in the
\* table, and OwnedIsHeld is lost.
ReinitSpec == LibInit /\ [][LibNext(TRUE)]_allvars

\* The kernel finishes the calls it has begun and closes the files of a dead
\* process, and a library call that has begun is carried on.
FairCarefulSpec ==
    /\ CarefulSpec
    /\ \A p \in Procs : WF_allvars(InKernel(p) \/ CloseAtExit(p)) /\ WF_allvars(SystemCall(p))

-----------------------------------------------------------------------------
(***************************************************************************)
(* Properties.                                                             *)
(***************************************************************************)
LibTypeOK ==
    /\ TypeOK
    /\ fd_get_queue \in [Procs -> [Entries -> Fds \cup {-1}]]
    /\ fd_ref_queue \in [Procs -> [Channels -> Fds \cup {0}]]
    /\ tmpfd \in [Procs -> Fds \cup {-1}]
    /\ held \in [Procs -> SUBSET Entries]
    /\ linked \in [Procs -> SUBSET (Channels \X Channels)]
    /\ refs \in [Procs -> [Channels -> 0 .. MaxRefs]]
    /\ dying \subseteq Procs

\* A channel that fpga_lldma_init() or a *_connect() gave to the user stays
\* his, and stays started, until he finishes it or his process dies
\* (liblldma.h: "The activated channel will be stopped when
\* fpga_lldma_finish() is called with `dma_info`, or the process becomes
\* dead").
HeldIsActive ==
    \A p \in Procs, e \in Entries : e \in Mine(p) => active[e[2]]

\* The table leads to the file that owns the channel, so that finishing the
\* channel frees that one and no other (fd_get_queue in liblldma.c).
HeldIsOwned ==
    \A p \in Procs, e \in Entries : e \in Mine(p) =>
        /\ IsOpen(p, fd_get_queue[p][e])
        /\ Owns(File(p, e), e[2])

\* Between two library calls a living process owns no channel but those its
\* user has: a call that failed half-way, or gave a channel back, leaves
\* none behind.
OwnedIsHeld ==
    \A p \in Procs, ch \in Channels :
        CanCall(p) /\ (\E fd \in Fds : Owns(<<p, fd>>, ch)) => \E e \in Mine(p) : e[2] = ch

\* The library keeps the driver's rules, whatever the order of the calls of
\* careful users, so that all that is shown of DisciplinedSpec holds of it.
KeepsDiscipline == DisciplinedSpec

\* A channel does not outlive its owner: all files of a dead process are
\* closed, and its channels free again.
DeadReleases ==
    \A f \in Files : f[1] \in dying ~> ~\E ch \in Channels : Owns(f, ch)
=============================================================================
