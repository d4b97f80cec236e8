------------------------------ MODULE CmdQueue -------------------------------
(***************************************************************************)
(* The DMA command queue of one LLDMA channel (lib/libfpga/src/libdma.c):  *)
(* a ring of descriptors in memory that the kernel, the FPGA and every     *)
(* process that bound the channel share.  fpga_enqueue() and               *)
(* fpga_dequeue() take no lock: they advance writehead and readhead by     *)
(* compare-and-set and use two fields of a descriptor, task_id and op, to  *)
(* tell whose it is.                                                       *)
(*                                                                         *)
(* One action is one access to the shared memory, with three exceptions:   *)
(* the stores of addr and len, which no one reads before op is set; the    *)
(* reads of a finished descriptor; and its memset(), task_id, op, len and  *)
(* addr being the first 16 of its 64 aligned bytes.                        *)
(*                                                                         *)
(* Nothing in the code stops a call that is preempted between two of its   *)
(* accesses from being lapped, i.e. from sleeping while the others advance *)
(* the same head all the way around.  Spec allows it.  Prompt says that it *)
(* does not happen; what is promised under Prompt, and fails without it,   *)
(* is stated below.                                                        *)
(***************************************************************************)
EXTENDS Integers, Sequences

CONSTANTS Producers,   \* the callers of fpga_enqueue(), in any process
          Consumers,   \* the callers of fpga_dequeue(), in any process
          Passes,      \* the requests that each of them passes
          NoCommand,
          N            \* enq->size, XPCIE_QUEUE_SIZE in the driver

\* addr_check_flag, one for each of the three fpga_enqueue*() functions.
VIRT_ADDR_WITH_CHECK == "virt with check"
VIRT_ADDR_WITHOUT_CHECK == "virt without check"
PHYS_ADDR == "phys"

\* A request: what set_dma_cmd() put into cmd_info, with the physical
\* address pa and the contiguous length chklen that dma_pa_from_va() (or
\* rte_mem_virt2phy()) finds for its data_addr va.
Request == [flag : {VIRT_ADDR_WITH_CHECK, VIRT_ADDR_WITHOUT_CHECK, PHYS_ADDR},
            task_id : Nat, len : Nat, va : Nat, pa : Nat, chklen : Nat]

Requests == UNION {Passes[p] : p \in Producers}

BOUNDARY == 1024       \* SHMEM_BOUNDARY_SIZE
CACHE_LINE == 64       \* RTE_CACHE_LINE_SIZE

\* dst_pa64
Dst(r) == IF r.flag = PHYS_ADDR THEN r.va ELSE r.pa

\* The part of a request that goes into a descriptor.
Command(r) == [task_id |-> r.task_id,
               len |-> IF Dst(r) = 0 THEN 0 ELSE r.len,
               addr |-> Dst(r)]
Commands == {Command(r) : r \in Requests}

\* libdma.h: a user sets task_id "freely other than 0".
ASSUME CmdQueueAssumption ==
    /\ N \in Nat \ {0}
    /\ Requests \subseteq Request
    /\ \A r \in Requests : r.task_id # 0
    /\ NoCommand \notin Commands

Slots == 0 .. N - 1

\* The values of desc->op: memset() leaves 0, the FPGA turns READY into DONE.
CMD_NONE == 0
CMD_READY == 1
CMD_DONE == 2

\* fpga_desc_t
Desc == [task_id : Nat, len : Nat, addr : Nat, op : {CMD_NONE, CMD_READY, CMD_DONE}]

Cleared == [task_id |-> 0, len |-> 0, addr |-> 0, op |-> CMD_NONE]

VARIABLES ring,       \* the descriptors
          writehead,  \* where the next fpga_enqueue() claims
          readhead,   \* where the next fpga_dequeue() claims
          hwhead,     \* where the FPGA polls
          ppc,        \* the next access of each fpga_enqueue() call
          phead,      \* its current_head
          pcmd,       \* its cmd_info
          cpc,        \* the next access of each fpga_dequeue() call
          chead,      \* its current_head
          cres,       \* the result it has copied
          ppass,      \* history: claims by anyone since the call read its head
          cpass,      \* history: likewise for fpga_dequeue()
          npend,      \* history: descriptors between readhead and writehead
          ndone       \* history: descriptors between readhead and hwhead

shared == <<ring, writehead, readhead, hwhead>>
enq == <<ppc, phead, pcmd, ppass>>
deq == <<cpc, chead, cres, cpass>>
vars == <<shared, enq, deq, npend, ndone>>

\* next_head = current_head + 1, wrapped at enq->size.
NextHead(h) == IF h + 1 = N THEN 0 ELSE h + 1

\* A call has read its head and has not finished.
Reading == {"check", "cas"}
Filling == {"fill", "task", "ready"}
Draining == {"copy", "clear"}
InEnqueue(p) == ppc[p] \in Reading \cup Filling
InDequeue(c) == cpc[c] \in Reading \cup Draining

\* No call has been lapped: fewer than N claims (its own included) since it
\* read its head.
Prompt ==
    /\ \A p \in Producers : InEnqueue(p) => ppass[p] < N
    /\ \A c \in Consumers : InDequeue(c) => cpass[c] < N

TypeOK ==
    /\ ring \in [Slots -> Desc]
    /\ writehead \in Slots
    /\ readhead \in Slots
    /\ hwhead \in Slots
    /\ ppc \in [Producers -> {"idle", "head"} \cup Reading \cup Filling]
    /\ phead \in [Producers -> Slots]
    /\ pcmd \in [Producers -> Commands \cup {NoCommand}]
    /\ \A p \in Producers : ppc[p] # "idle" => pcmd[p] \in Commands
    /\ cpc \in [Consumers -> {"idle", "head"} \cup Reading \cup Draining]
    /\ chead \in [Consumers -> Slots]
    /\ cres \in [Consumers -> [task_id : Nat, len : Nat, addr : Nat]
                              \cup {NoCommand}]
    /\ ppass \in [Producers -> Nat]
    /\ cpass \in [Consumers -> Nat]
    /\ npend \in Int
    /\ ndone \in Int

\* xpcie_fpga_get_queue() clears the ring and start_queue() sets both heads
\* to the position the FPGA polls.
Init ==
    /\ ring = [s \in Slots |-> Cleared]
    /\ hwhead \in Slots
    /\ writehead = hwhead
    /\ readhead = hwhead
    /\ ppc = [p \in Producers |-> "idle"]
    /\ phead = [p \in Producers |-> 0]
    /\ pcmd = [p \in Producers |-> NoCommand]
    /\ cpc = [c \in Consumers |-> "idle"]
    /\ chead = [c \in Consumers |-> 0]
    /\ cres = [c \in Consumers |-> NoCommand]
    /\ ppass = [p \in Producers |-> 0]
    /\ cpass = [c \in Consumers |-> 0]
    /\ npend = 0
    /\ ndone = 0

-----------------------------------------------------------------------------
(***************************************************************************)
(* fpga_enqueue()                                                          *)
(***************************************************************************)

\* The checks before the ring is touched.  A request that fails one returns
\* an error and leaves everything as it was.
Admissible(r) ==
    /\ r.len >= BOUNDARY
    /\ r.len % CACHE_LINE = 0
    /\ r.va # 0
    /\ r.flag = VIRT_ADDR_WITH_CHECK =>
          /\ Dst(r) # 0
          /\ Dst(r) % BOUNDARY = 0
          /\ r.chklen = r.len

EnqueueCall(p, r) ==
    /\ ppc[p] = "idle"
    /\ Admissible(r)
    /\ ppc' = [ppc EXCEPT ![p] = "head"]
    /\ pcmd' = [pcmd EXCEPT ![p] = Command(r)]
    /\ UNCHANGED <<shared, phead, ppass, deq, npend, ndone>>

EnqueueReadHead(p) ==
    /\ ppc[p] = "head"
    /\ phead' = [phead EXCEPT ![p] = writehead]
    /\ ppass' = [ppass EXCEPT ![p] = 0]
    /\ ppc' = [ppc EXCEPT ![p] = "check"]
    /\ UNCHANGED <<shared, pcmd, deq, npend, ndone>>

\* The call returns: its local variables are gone.
EnqueueReturn(p) ==
    /\ ppc' = [ppc EXCEPT ![p] = "idle"]
    /\ phead' = [phead EXCEPT ![p] = 0]
    /\ pcmd' = [pcmd EXCEPT ![p] = NoCommand]
    /\ ppass' = [ppass EXCEPT ![p] = 0]

\* return -ENQUEUE_QUEFULL
EnqueueFull(p) ==
    /\ ppc[p] = "check"
    /\ ring[phead[p]].task_id # 0
    /\ EnqueueReturn(p)
    /\ UNCHANGED <<shared, deq, npend, ndone>>

\* Mutant of EnqueueCheck: the descriptor is not tested.
EnqueueCheckAny(p) ==
    /\ ppc[p] = "check"
    /\ ppc' = [ppc EXCEPT ![p] = "cas"]
    /\ UNCHANGED <<shared, phead, pcmd, ppass, deq, npend, ndone>>

EnqueueCheck(p) ==
    /\ ppc[p] = "check"
    /\ ring[phead[p]].task_id = 0
    /\ ppc' = [ppc EXCEPT ![p] = "cas"]
    /\ UNCHANGED <<shared, phead, pcmd, ppass, deq, npend, ndone>>

\* rte_atomic16_cmpset() succeeds: current_head is claimed.
EnqueueClaim(p) ==
    /\ ppc[p] = "cas"
    /\ writehead = phead[p]
    /\ writehead' = NextHead(phead[p])
    /\ ppc' = [ppc EXCEPT ![p] = "fill"]
    /\ ppass' = [q \in Producers |->
                    IF InEnqueue(q) /\ ppass[q] < N THEN ppass[q] + 1 ELSE ppass[q]]
    /\ npend' = npend + 1
    /\ UNCHANGED <<ring, readhead, hwhead, phead, pcmd, deq, ndone>>

EnqueueRetry(p) ==
    /\ ppc[p] = "cas"
    /\ writehead # phead[p]
    /\ ppc' = [ppc EXCEPT ![p] = "head"]
    /\ phead' = [phead EXCEPT ![p] = 0]
    /\ ppass' = [ppass EXCEPT ![p] = 0]
    /\ UNCHANGED <<shared, pcmd, deq, npend, ndone>>

\* Mutant of EnqueueFill: without rte_wmb(), op may be stored first.
EnqueueFillUnordered(p) ==
    /\ ppc[p] = "fill"
    /\ ring' = [ring EXCEPT ![phead[p]] = [@ EXCEPT !.addr = pcmd[p].addr,
                                                    !.len = pcmd[p].len,
                                                    !.op = CMD_READY]]
    /\ ppc' = [ppc EXCEPT ![p] = "task"]
    /\ UNCHANGED <<writehead, readhead, hwhead, phead, pcmd, ppass, deq, npend, ndone>>

EnqueueFill(p) ==
    /\ ppc[p] = "fill"
    /\ ring' = [ring EXCEPT ![phead[p]] = [@ EXCEPT !.addr = pcmd[p].addr,
                                                    !.len = pcmd[p].len]]
    /\ ppc' = [ppc EXCEPT ![p] = "task"]
    /\ UNCHANGED <<writehead, readhead, hwhead, phead, pcmd, ppass, deq, npend, ndone>>

EnqueueTask(p) ==
    /\ ppc[p] = "task"
    /\ ring' = [ring EXCEPT ![phead[p]] = [@ EXCEPT !.task_id = pcmd[p].task_id]]
    /\ ppc' = [ppc EXCEPT ![p] = "ready"]
    /\ UNCHANGED <<writehead, readhead, hwhead, phead, pcmd, ppass, deq, npend, ndone>>

\* Mutant of EnqueueReady: the call returns before it sets op.
EnqueueReadyLost(p) ==
    /\ ppc[p] = "ready"
    /\ EnqueueReturn(p)
    /\ UNCHANGED <<shared, deq, npend, ndone>>

\* After rte_wmb(): the descriptor is handed to the FPGA, and the call
\* returns 0.
EnqueueReady(p) ==
    /\ ppc[p] = "ready"
    /\ ring' = [ring EXCEPT ![phead[p]] = [@ EXCEPT !.op = CMD_READY]]
    /\ EnqueueReturn(p)
    /\ UNCHANGED <<writehead, readhead, hwhead, deq, npend, ndone>>

EnqueueStep(p) ==
    \/ EnqueueReadHead(p)
    \/ EnqueueFull(p)
    \/ EnqueueCheck(p)
    \/ EnqueueClaim(p)
    \/ EnqueueRetry(p)
    \/ EnqueueFill(p)
    \/ EnqueueTask(p)
    \/ EnqueueReady(p)

-----------------------------------------------------------------------------
(***************************************************************************)
(* The FPGA (external): it polls the descriptor at its own head, performs  *)
(* the transfer of a READY one, marks it DONE and goes to the next.        *)
(***************************************************************************)
FpgaComplete ==
    /\ ring[hwhead].op = CMD_READY
    /\ ring' = [ring EXCEPT ![hwhead] = [@ EXCEPT !.op = CMD_DONE]]
    /\ hwhead' = NextHead(hwhead)
    /\ ndone' = ndone + 1
    /\ UNCHANGED <<writehead, readhead, enq, deq, npend>>

-----------------------------------------------------------------------------
(***************************************************************************)
(* fpga_dequeue()                                                          *)
(***************************************************************************)
DequeueCall(c) ==
    /\ cpc[c] = "idle"
    /\ cpc' = [cpc EXCEPT ![c] = "head"]
    /\ UNCHANGED <<shared, enq, chead, cres, cpass, npend, ndone>>

DequeueReadHead(c) ==
    /\ cpc[c] = "head"
    /\ chead' = [chead EXCEPT ![c] = readhead]
    /\ cpass' = [cpass EXCEPT ![c] = 0]
    /\ cpc' = [cpc EXCEPT ![c] = "check"]
    /\ UNCHANGED <<shared, enq, cres, npend, ndone>>

\* The call reads readhead again ("head") or returns ("idle"), and drops
\* its local variables.
DequeueLeave(c, next) ==
    /\ cpc' = [cpc EXCEPT ![c] = next]
    /\ chead' = [chead EXCEPT ![c] = 0]
    /\ cres' = [cres EXCEPT ![c] = NoCommand]
    /\ cpass' = [cpass EXCEPT ![c] = 0]

\* deq_loop: sleep and poll again, or return -DEQUEUE_TIMEOUT when the time
\* since the first poll has run out.
DequeueWait(c) ==
    /\ cpc[c] = "check"
    /\ ring[chead[c]].op # CMD_DONE
    /\ \E next \in {"head", "idle"} : DequeueLeave(c, next)
    /\ UNCHANGED <<shared, enq, npend, ndone>>

\* Mutant of DequeueCheck: any used descriptor is taken for a finished one.
DequeueCheckUsed(c) ==
    /\ cpc[c] = "check"
    /\ ring[chead[c]].op # CMD_NONE
    /\ cpc' = [cpc EXCEPT ![c] = "cas"]
    /\ UNCHANGED <<shared, enq, chead, cres, cpass, npend, ndone>>

DequeueCheck(c) ==
    /\ cpc[c] = "check"
    /\ ring[chead[c]].op = CMD_DONE
    /\ cpc' = [cpc EXCEPT ![c] = "cas"]
    /\ UNCHANGED <<shared, enq, chead, cres, cpass, npend, ndone>>

DequeueClaim(c) ==
    /\ cpc[c] = "cas"
    /\ readhead = chead[c]
    /\ readhead' = NextHead(chead[c])
    /\ cpc' = [cpc EXCEPT ![c] = "copy"]
    /\ cpass' = [d \in Consumers |->
                    IF InDequeue(d) /\ cpass[d] < N THEN cpass[d] + 1 ELSE cpass[d]]
    /\ npend' = npend - 1
    /\ ndone' = ndone - 1
    /\ UNCHANGED <<ring, writehead, hwhead, enq, chead, cres>>

DequeueRetry(c) ==
    /\ cpc[c] = "cas"
    /\ readhead # chead[c]
    /\ DequeueLeave(c, "head")
    /\ UNCHANGED <<shared, enq, npend, ndone>>

\* result_task_id, result_data_len and result_data_addr.  The address is the
\* physical one; local_phy2virt() translates it for the caller.
Content(s) == [task_id |-> ring[s].task_id, len |-> ring[s].len, addr |-> ring[s].addr]

DequeueCopy(c) ==
    /\ cpc[c] = "copy"
    /\ cres' = [cres EXCEPT ![c] = Content(chead[c])]
    /\ cpc' = [cpc EXCEPT ![c] = "clear"]
    /\ UNCHANGED <<shared, enq, chead, cpass, npend, ndone>>

\* memset() of the descriptor, and the call returns 0.
DequeueClear(c) ==
    /\ cpc[c] = "clear"
    /\ ring' = [ring EXCEPT ![chead[c]] = Cleared]
    /\ DequeueLeave(c, "idle")
    /\ UNCHANGED <<writehead, readhead, hwhead, enq, npend, ndone>>

DequeueStep(c) ==
    \/ DequeueReadHead(c)
    \/ DequeueWait(c)
    \/ DequeueCheck(c)
    \/ DequeueClaim(c)
    \/ DequeueRetry(c)
    \/ DequeueCopy(c)
    \/ DequeueClear(c)

-----------------------------------------------------------------------------
Next ==
    \/ \E p \in Producers : EnqueueStep(p) \/ \E r \in Passes[p] : EnqueueCall(p, r)
    \/ FpgaComplete
    \/ \E c \in Consumers : DequeueStep(c) \/ DequeueCall(c)

Spec == Init /\ [][Next]_vars

\* The behaviours in which no call is lapped.
PromptSpec == Init /\ [][Next /\ Prompt']_vars

(***************************************************************************)
(* A caller of fpga_enqueue() is scheduled until the call returns, the     *)
(* FPGA polls, and the callers of fpga_dequeue() call it again and again.  *)
(* Nobody has to call fpga_enqueue().                                      *)
(***************************************************************************)
FairPromptSpec ==
    /\ PromptSpec
    /\ \A p \in Producers : WF_vars(EnqueueStep(p))
    /\ WF_vars(FpgaComplete)
    /\ \A c \in Consumers : WF_vars(DequeueStep(c) \/ DequeueCall(c))

-----------------------------------------------------------------------------
(***************************************************************************)
(* Properties.                                                             *)
(***************************************************************************)
Fills(p, s) == ppc[p] \in Filling /\ phead[p] = s
Drains(c, s) == cpc[c] \in Draining /\ chead[c] = s

\* A claimed descriptor has one owner: two calls whose compare-and-set
\* succeeded never work on the same descriptor, be it two fpga_enqueue(),
\* two fpga_dequeue() or one of each, and the FPGA does not work on it
\* either (__fpga_enqueue, "Get free descriptor"; fpga_dequeue).
ExclusiveDescriptor ==
    \A s \in Slots :
        /\ \A p, q \in Producers : Fills(p, s) /\ Fills(q, s) => p = q
        /\ \A c, d \in Consumers : Drains(c, s) /\ Drains(d, s) => c = d
        /\ \A p \in Producers, c \in Consumers : ~(Fills(p, s) /\ Drains(c, s))
        /\ \A p \in Producers : Fills(p, s) => ring[s].op = CMD_NONE

\* A descriptor that the FPGA may work on, or has worked on, carries one
\* whole admissible command: no mixture of two commands, no half-written one
\* (the order of the stores and rte_wmb() in __fpga_enqueue).
PublishedIsComplete ==
    \A s \in Slots : ring[s].op # CMD_NONE =>
        \E r \in Requests : Admissible(r) /\ Content(s) = Command(r)

\* The distance of a descriptor from readhead, in the direction of the heads.
Dist(s) == IF s >= readhead THEN s - readhead ELSE s - readhead + N
Wrap(x) == IF x >= N THEN x - N ELSE x

\* The three heads, and the head each call in progress has read.
HeadsOK ==
    /\ 0 <= ndone /\ ndone <= npend /\ npend <= N
    /\ writehead = Wrap(readhead + npend)
    /\ hwhead = Wrap(readhead + ndone)
    /\ \A p \in Producers : InEnqueue(p) =>
          /\ writehead = Wrap(phead[p] + ppass[p])
          /\ ppc[p] \in Filling => ppass[p] >= 1
    /\ \A c \in Consumers : InDequeue(c) =>
          /\ readhead = Wrap(chead[c] + cpass[c])
          /\ cpc[c] \in Draining => cpass[c] >= 1

\* What a call knows of the descriptor at its head.
CallsOK ==
    /\ \A p \in Producers :
          /\ ppc[p] # "idle" =>
                \E r \in Requests : Admissible(r) /\ pcmd[p] = Command(r)
          /\ ppc[p] = "cas" /\ ppass[p] = 0 => ring[phead[p]].task_id = 0
          /\ ppc[p] \in {"task", "ready"} =>
                /\ ring[phead[p]].addr = pcmd[p].addr
                /\ ring[phead[p]].len = pcmd[p].len
          /\ ppc[p] = "ready" => ring[phead[p]].task_id = pcmd[p].task_id
    /\ \A c \in Consumers :
          /\ cpc[c] = "cas" /\ cpass[c] = 0 => ring[chead[c]].op = CMD_DONE
          /\ cpc[c] = "clear" => cres[c] = Content(chead[c])

\* The ring is three arcs: completed commands from readhead to hwhead,
\* commands being written or READY from hwhead to writehead, and from
\* writehead on descriptors that are free or being drained.
ArcsOK ==
    \A s \in Slots :
        /\ Dist(s) < ndone =>
              /\ ring[s].op = CMD_DONE
              /\ \A p \in Producers : ~Fills(p, s)
              /\ \A c \in Consumers : ~Drains(c, s)
        /\ ndone <= Dist(s) /\ Dist(s) < npend =>
              /\ \/ ring[s].op = CMD_READY /\ \A p \in Producers : ~Fills(p, s)
                 \/ ring[s].op = CMD_NONE /\ \E p \in Producers : Fills(p, s)
              /\ \A c \in Consumers : ~Drains(c, s)
        /\ npend <= Dist(s) =>
              /\ \/ ring[s].op = CMD_NONE /\ ring[s].task_id = 0
                    /\ \A c \in Consumers : ~Drains(c, s)
                 \/ ring[s].op = CMD_DONE /\ \E c \in Consumers : Drains(c, s)
              /\ \A p \in Producers : ~Fills(p, s)

\* The inductive invariant of PromptSpec.
IInv ==
    /\ TypeOK
    /\ HeadsOK
    /\ CallsOK
    /\ ArcsOK
    /\ ExclusiveDescriptor
    /\ PublishedIsComplete
    /\ Prompt

\* The commands between readhead and writehead, oldest first.  A descriptor
\* that is claimed and not yet READY stands for its owner's command.
CommandAt(s) == IF \E p \in Producers : Fills(p, s)
                THEN pcmd[CHOOSE p \in Producers : Fills(p, s)]
                ELSE Content(s)
Pending == [k \in 1 .. npend |-> CommandAt(Wrap(readhead + (k - 1)))]
Out == [c \in Consumers |-> CASE cpc[c] = "copy" -> Content(chead[c])
                              [] cpc[c] = "clear" -> cres[c]
                              [] OTHER -> NoCommand]

Fifo == INSTANCE DmaFifo WITH Capacity <- N, pending <- Pending,
                              completed <- ndone, out <- Out

\* The ring is a FIFO of commands: nothing is lost, overwritten, duplicated
\* or delivered out of order (libdma.h, fpga_dequeue: "the results of
\* commands are obtained in order from the top").
IsFifo == Fifo!Spec

\* Moreover every accepted command is completed and its result reaches a
\* caller of fpga_dequeue(): with IsFifo, the ring implements Fifo!FairSpec.
IsFairFifo == Fifo!Fairness
=============================================================================
