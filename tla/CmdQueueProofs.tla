--------------------------- MODULE CmdQueueProofs ----------------------------
(***************************************************************************)
(* What is proved of CmdQueue, for every ring size, every set of callers   *)
(* and every set of requests.                                              *)
(***************************************************************************)
EXTENDS CmdQueue, TLAPS

\* The actions, without the structure of Next.
LEMMA NextCases ==
    ASSUME Next
    PROVE  \/ \E p \in Producers, r \in Requests : EnqueueCall(p, r)
           \/ \E p \in Producers : EnqueueStep(p)
           \/ FpgaComplete
           \/ \E c \in Consumers : DequeueCall(c)
           \/ \E c \in Consumers : DequeueStep(c)
BY DEF Next, Requests

\* A request's command has the fields of a descriptor.
LEMMA CommandType ==
    \A r \in Requests :
        /\ Command(r) \in Commands
        /\ Command(r) \in [task_id : Nat, len : Nat, addr : Nat]
        /\ Command(r).task_id = r.task_id
        /\ Command(r).task_id # 0
        /\ Command(r).len = (IF Dst(r) = 0 THEN 0 ELSE r.len)
        /\ Command(r).addr = Dst(r)
        /\ Command(r) # NoCommand
BY CmdQueueAssumption DEF Command, Commands, Request, Dst

LEMMA CommandsType ==
    \A m \in Commands : /\ m \in [task_id : Nat, len : Nat, addr : Nat]
                        /\ m.task_id # 0
                        /\ m # NoCommand
BY CommandType DEF Commands

LEMMA SlotFacts ==
    /\ N \in Nat
    /\ N >= 1
    /\ 0 \in Slots
    /\ \A h \in Slots : NextHead(h) \in Slots
BY CmdQueueAssumption DEF Slots, NextHead

\* The stores into a descriptor, and what is read from one.
LEMMA DescType ==
    /\ Cleared \in Desc
    /\ \A d \in Desc, a, l \in Nat : [d EXCEPT !.addr = a, !.len = l] \in Desc
    /\ \A d \in Desc, t \in Nat : [d EXCEPT !.task_id = t] \in Desc
    /\ \A d \in Desc : [d EXCEPT !.op = CMD_READY] \in Desc
    /\ \A d \in Desc : [d EXCEPT !.op = CMD_DONE] \in Desc
    /\ \A d \in Desc : [task_id |-> d.task_id, len |-> d.len, addr |-> d.addr]
                           \in [task_id : Nat, len : Nat, addr : Nat]
BY DEF Desc, Cleared, CMD_NONE, CMD_READY, CMD_DONE

\* TypeOK does not depend on Prompt: whatever the calls do to one another,
\* the heads stay inside the ring.
LEMMA TypeStep == TypeOK /\ [Next]_vars => TypeOK'
<1> SUFFICES ASSUME TypeOK, [Next]_vars PROVE TypeOK'
    OBVIOUS
<1> USE DEF TypeOK, Reading, Filling, Draining
<1>1. ASSUME NEW p \in Producers, NEW r \in Requests, EnqueueCall(p, r) PROVE TypeOK'
    BY <1>1, CommandType DEF EnqueueCall, shared, deq
<1>2. ASSUME NEW p \in Producers, EnqueueStep(p) PROVE TypeOK'
  <2>1. CASE EnqueueReadHead(p)
    BY <2>1 DEF EnqueueReadHead, shared, deq
  <2>2. CASE EnqueueFull(p)
    BY <2>2, SlotFacts DEF EnqueueFull, EnqueueReturn, shared, deq
  <2>3. CASE EnqueueCheck(p)
    BY <2>3 DEF EnqueueCheck, shared, deq
  <2>4. CASE EnqueueClaim(p)
    BY <2>4, SlotFacts DEF EnqueueClaim, shared, deq
  <2>5. CASE EnqueueRetry(p)
    BY <2>5, SlotFacts DEF EnqueueRetry, shared, deq
  <2>6. CASE EnqueueFill(p)
    <3>1. pcmd[p].addr \in Nat /\ pcmd[p].len \in Nat
        BY <2>6, CommandsType DEF EnqueueFill
    <3>2. ring' \in [Slots -> Desc]
        BY <2>6, <3>1, DescType DEF EnqueueFill
    <3> QED BY <2>6, <3>2 DEF EnqueueFill, deq
  <2>7. CASE EnqueueTask(p)
    <3>1. pcmd[p].task_id \in Nat
        BY <2>7, CommandsType DEF EnqueueTask
    <3>2. ring' \in [Slots -> Desc]
        BY <2>7, <3>1, DescType DEF EnqueueTask
    <3> QED BY <2>7, <3>2 DEF EnqueueTask, deq
  <2>8. CASE EnqueueReady(p)
    <3>1. ring' \in [Slots -> Desc]
        BY <2>8, DescType DEF EnqueueReady
    <3> QED BY <2>8, <3>1, SlotFacts DEF EnqueueReady, EnqueueReturn, deq
  <2> QED BY <1>2, <2>1, <2>2, <2>3, <2>4, <2>5, <2>6, <2>7, <2>8 DEF EnqueueStep
<1>3. CASE FpgaComplete
  <2>1. ring' \in [Slots -> Desc]
    BY <1>3, DescType DEF FpgaComplete
  <2> QED BY <1>3, <2>1, SlotFacts DEF FpgaComplete, enq, deq
<1>4. ASSUME NEW c \in Consumers, DequeueCall(c) PROVE TypeOK'
    BY <1>4 DEF DequeueCall, shared, enq
<1>5. ASSUME NEW c \in Consumers, DequeueStep(c) PROVE TypeOK'
  <2>1. CASE DequeueReadHead(c)
    BY <2>1 DEF DequeueReadHead, shared, enq
  <2>2. CASE DequeueWait(c)
    BY <2>2, SlotFacts DEF DequeueWait, DequeueLeave, shared, enq
  <2>3. CASE DequeueCheck(c)
    BY <2>3 DEF DequeueCheck, shared, enq
  <2>4. CASE DequeueClaim(c)
    BY <2>4, SlotFacts DEF DequeueClaim, shared, enq
  <2>5. CASE DequeueRetry(c)
    BY <2>5, SlotFacts DEF DequeueRetry, DequeueLeave, shared, enq
  <2>6. CASE DequeueCopy(c)
    <3>1. Content(chead[c]) \in [task_id : Nat, len : Nat, addr : Nat]
        BY DescType DEF Content
    <3> QED BY <2>6, <3>1 DEF DequeueCopy, shared, enq
  <2>7. CASE DequeueClear(c)
    <3>1. ring' \in [Slots -> Desc]
        BY <2>7, DescType DEF DequeueClear
    <3> QED BY <2>7, <3>1, SlotFacts DEF DequeueClear, DequeueLeave, enq
  <2> QED BY <1>5, <2>1, <2>2, <2>3, <2>4, <2>5, <2>6, <2>7 DEF DequeueStep
<1>6. CASE UNCHANGED vars
    BY <1>6 DEF vars, shared, enq, deq
<1> QED BY <1>1, <1>2, <1>3, <1>4, <1>5, <1>6, NextCases

LEMMA TypeInit == Init => TypeOK
<1> SUFFICES ASSUME Init PROVE TypeOK
    OBVIOUS
<1>1. Cleared \in Desc
    BY DescType
<1>2. ring \in [Slots -> Desc]
    BY <1>1 DEF Init
<1> QED BY <1>2, SlotFacts DEF Init, TypeOK

\* Whatever the calls do to one another, lapping included, every head stays
\* inside the ring and every field keeps its type (libdma.c).
THEOREM Typing == Spec => []TypeOK
BY TypeInit, TypeStep, PTL DEF Spec

-----------------------------------------------------------------------------
(***************************************************************************)
(* The inductive invariant.                                                *)
(***************************************************************************)

\* Arithmetic of the ring.
LEMMA WrapFacts ==
    \A h \in Slots, k \in Int : 0 <= k /\ k <= N =>
        /\ Wrap(h + k) \in Slots
        /\ Wrap(h + k) = h => k = 0 \/ k = N
        /\ k < N => Wrap(h + (k + 1)) = NextHead(Wrap(h + k))
        /\ k >= 1 => Wrap(NextHead(h) + (k - 1)) = Wrap(h + k)
BY SlotFacts DEF Wrap, Slots, NextHead

\* Dist numbers the descriptors from readhead.
LEMMA DistFacts ==
    ASSUME readhead \in Slots
    PROVE  /\ \A s \in Slots : Dist(s) \in Int /\ 0 <= Dist(s) /\ Dist(s) < N
           /\ \A s \in Slots : s = Wrap(readhead + Dist(s))
           /\ \A k \in Int : 0 <= k /\ k < N => Dist(Wrap(readhead + k)) = k
           /\ Dist(Wrap(readhead + N)) = 0
           /\ \A s, t \in Slots : Dist(s) = Dist(t) => s = t
           /\ Dist(readhead) = 0
BY SlotFacts DEF Dist, Wrap, Slots

\* The numbers of the state.
LEMMA Numbers ==
    ASSUME IInv
    PROVE  /\ N \in Nat /\ N >= 1
           /\ readhead \in Slots /\ writehead \in Slots /\ hwhead \in Slots
           /\ ndone \in Int /\ npend \in Int
           /\ 0 <= ndone /\ ndone <= npend /\ npend <= N
           /\ \A p \in Producers : phead[p] \in Slots /\ ppass[p] \in Int /\ ppass[p] >= 0
           /\ \A c \in Consumers : chead[c] \in Slots /\ cpass[c] \in Int /\ cpass[c] >= 0
BY SlotFacts DEF IInv, TypeOK, HeadsOK

\* A call that holds a descriptor never holds the one its head points to.
LEMMA HeldNotAtHead ==
    ASSUME IInv
    PROVE  /\ \A p \in Producers : ppc[p] \in Filling => phead[p] # writehead
           /\ \A c \in Consumers : cpc[c] \in Draining => chead[c] # readhead
<1>1. ASSUME NEW p \in Producers, ppc[p] \in Filling PROVE phead[p] # writehead
  <2>1. InEnqueue(p)
    BY <1>1 DEF InEnqueue
  <2>2. writehead = Wrap(phead[p] + ppass[p]) /\ ppass[p] >= 1 /\ ppass[p] < N
    BY <1>1, <2>1 DEF IInv, HeadsOK, Prompt
  <2>3. phead[p] \in Slots /\ ppass[p] \in Int
    BY Numbers
  <2> QED BY <2>2, <2>3, SlotFacts DEF Wrap, Slots
<1>2. ASSUME NEW c \in Consumers, cpc[c] \in Draining PROVE chead[c] # readhead
  <2>1. InDequeue(c)
    BY <1>2 DEF InDequeue
  <2>2. readhead = Wrap(chead[c] + cpass[c]) /\ cpass[c] >= 1 /\ cpass[c] < N
    BY <1>2, <2>1 DEF IInv, HeadsOK, Prompt
  <2>3. chead[c] \in Slots /\ cpass[c] \in Int
    BY Numbers
  <2> QED BY <2>2, <2>3, SlotFacts DEF Wrap, Slots
<1> QED BY <1>1, <1>2

\* When the compare-and-set of fpga_enqueue() succeeds, what the call has
\* read of the descriptor is still true, and the descriptor is free.
LEMMA EnqueueClaimFacts ==
    ASSUME IInv, NEW p \in Producers, EnqueueClaim(p)
    PROVE  /\ ppass[p] = 0
           /\ ring[writehead].task_id = 0
           /\ ring[writehead].op = CMD_NONE
           /\ npend < N
           /\ Dist(writehead) = npend
<1>1. ppass[p] = 0
  <2>1. InEnqueue(p)
    BY DEF InEnqueue, EnqueueClaim, Reading
  <2>2. writehead = Wrap(phead[p] + ppass[p]) /\ ppass[p] < N /\ writehead = phead[p]
    BY <2>1 DEF IInv, HeadsOK, Prompt, EnqueueClaim
  <2>3. phead[p] \in Slots /\ ppass[p] \in Int /\ ppass[p] >= 0
    BY Numbers
  <2> QED BY <2>2, <2>3, SlotFacts DEF Wrap, Slots
<1>2. ring[writehead].task_id = 0
    BY <1>1 DEF IInv, CallsOK, EnqueueClaim
<1>3. ring[writehead].op = CMD_NONE
    BY <1>2, Numbers, CommandType DEF IInv, PublishedIsComplete, Content
<1>4. npend < N
  <2> SUFFICES ASSUME npend = N PROVE FALSE
    BY Numbers
  <2>1. Dist(writehead) = 0
    BY Numbers, DistFacts DEF IInv, HeadsOK
  <2>2. PICK q \in Producers : Fills(q, writehead)
    BY <2>1, <1>3, Numbers DEF IInv, ArcsOK, CMD_NONE, CMD_READY, CMD_DONE
  <2> QED BY <2>2, HeldNotAtHead DEF Fills
<1>5. Dist(writehead) = npend
    BY <1>4, Numbers, DistFacts DEF IInv, HeadsOK
<1> QED BY <1>1, <1>2, <1>3, <1>4, <1>5

\* When the compare-and-set of fpga_dequeue() succeeds, the descriptor is
\* the oldest one and its command is completed.
LEMMA DequeueClaimFacts ==
    ASSUME IInv, NEW c \in Consumers, DequeueClaim(c)
    PROVE  /\ cpass[c] = 0
           /\ ring[readhead].op = CMD_DONE
           /\ ndone > 0
           /\ Dist(readhead) = 0
<1>1. cpass[c] = 0
  <2>1. InDequeue(c)
    BY DEF InDequeue, DequeueClaim, Reading
  <2>2. readhead = Wrap(chead[c] + cpass[c]) /\ cpass[c] < N /\ readhead = chead[c]
    BY <2>1 DEF IInv, HeadsOK, Prompt, DequeueClaim
  <2>3. chead[c] \in Slots /\ cpass[c] \in Int /\ cpass[c] >= 0
    BY Numbers
  <2> QED BY <2>2, <2>3, SlotFacts DEF Wrap, Slots
<1>2. ring[readhead].op = CMD_DONE
    BY <1>1 DEF IInv, CallsOK, DequeueClaim
<1>3. Dist(readhead) = 0
    BY Numbers, DistFacts
<1>4. ndone > 0
  <2> SUFFICES ASSUME ndone = 0 PROVE FALSE
    BY Numbers
  <2>1. PICK d \in Consumers : Drains(d, readhead)
    BY <1>2, <1>3, Numbers DEF IInv, ArcsOK, CMD_NONE, CMD_READY, CMD_DONE
  <2> QED BY <2>1, HeldNotAtHead DEF Drains
<1> QED BY <1>1, <1>2, <1>3, <1>4

\* The FPGA works on the oldest command that is not completed.
LEMMA FpgaFacts ==
    ASSUME IInv, FpgaComplete
    PROVE  /\ ndone < npend
           /\ Dist(hwhead) = ndone
<1>1. hwhead \in Slots /\ ring[hwhead].op = CMD_READY
    BY Numbers DEF FpgaComplete
<1>2. ndone <= Dist(hwhead) /\ Dist(hwhead) < npend
    BY <1>1, Numbers, DistFacts DEF IInv, ArcsOK, CMD_NONE, CMD_READY, CMD_DONE
<1>3. ndone < N
    BY <1>2, Numbers, DistFacts
<1>4. Dist(hwhead) = ndone
    BY <1>3, Numbers, DistFacts DEF IInv, HeadsOK
<1> QED BY <1>2, <1>4, Numbers

\* A step that moves no head, claims and releases nothing, and changes task_id
\* only in a descriptor being filled keeps the arcs.
LEMMA SameArcs ==
    ASSUME ArcsOK, ExclusiveDescriptor,
           readhead' = readhead, npend' = npend, ndone' = ndone,
           \A s \in Slots : ring'[s].op = ring[s].op,
           \A s \in Slots : (\A p \in Producers : ~Fills(p, s)) =>
                                ring'[s].task_id = ring[s].task_id,
           \A p \in Producers, s \in Slots : Fills(p, s)' <=> Fills(p, s),
           \A c \in Consumers, s \in Slots : Drains(c, s)' <=> Drains(c, s)
    PROVE  ArcsOK' /\ ExclusiveDescriptor'
<1>1. \A s \in Slots : Dist(s)' = Dist(s)
    BY DEF Dist
<1>2. ArcsOK'
  <2> SUFFICES ASSUME NEW s \in Slots
               PROVE  /\ Dist(s)' < ndone' =>
                           /\ ring'[s].op = CMD_DONE
                           /\ \A p \in Producers : ~Fills(p, s)'
                           /\ \A c \in Consumers : ~Drains(c, s)'
                      /\ ndone' <= Dist(s)' /\ Dist(s)' < npend' =>
                           /\ \/ ring'[s].op = CMD_READY /\ \A p \in Producers : ~Fills(p, s)'
                              \/ ring'[s].op = CMD_NONE /\ \E p \in Producers : Fills(p, s)'
                           /\ \A c \in Consumers : ~Drains(c, s)'
                      /\ npend' <= Dist(s)' =>
                           /\ \/ ring'[s].op = CMD_NONE /\ ring'[s].task_id = 0
                                 /\ \A c \in Consumers : ~Drains(c, s)'
                              \/ ring'[s].op = CMD_DONE /\ \E c \in Consumers : Drains(c, s)'
                           /\ \A p \in Producers : ~Fills(p, s)'
    BY DEF ArcsOK
  <2> QED BY <1>1 DEF ArcsOK
<1>3. ExclusiveDescriptor'
  <2> SUFFICES ASSUME NEW s \in Slots
               PROVE  /\ \A p, q \in Producers : Fills(p, s)' /\ Fills(q, s)' => p = q
                      /\ \A c, d \in Consumers : Drains(c, s)' /\ Drains(d, s)' => c = d
                      /\ \A p \in Producers, c \in Consumers : ~(Fills(p, s)' /\ Drains(c, s)')
                      /\ \A p \in Producers : Fills(p, s)' => ring'[s].op = CMD_NONE
    BY DEF ExclusiveDescriptor
  <2> QED BY DEF ExclusiveDescriptor
<1> QED BY <1>2, <1>3

\* Steps that leave the ring alone and claim nothing.
LEMMA QuietStep ==
    ASSUME IInv, UNCHANGED <<shared, npend, ndone>>,
           \A p \in Producers, s \in Slots : Fills(p, s)' <=> Fills(p, s),
           \A c \in Consumers, s \in Slots : Drains(c, s)' <=> Drains(c, s)
    PROVE  ArcsOK' /\ ExclusiveDescriptor' /\ PublishedIsComplete'
<1>1. ring' = ring /\ readhead' = readhead
    BY DEF shared
<1>2. ArcsOK' /\ ExclusiveDescriptor'
    BY <1>1, SameArcs DEF IInv
<1>3. PublishedIsComplete'
    BY <1>1 DEF IInv, PublishedIsComplete, Content
<1> QED BY <1>2, <1>3

-----------------------------------------------------------------------------
(***************************************************************************)
(* One lemma per kind of step.  Goal is what remains of IInv' once TypeOK' *)
(* and Prompt' are known.                                                  *)
(***************************************************************************)
Goal == HeadsOK /\ CallsOK /\ ArcsOK /\ ExclusiveDescriptor /\ PublishedIsComplete

\* The steps of fpga_enqueue() before and after it holds a descriptor.
LEMMA EnqueueQuiet ==
    ASSUME IInv, NEW p \in Producers,
           \/ \E r \in Requests : EnqueueCall(p, r)
           \/ EnqueueReadHead(p)
           \/ EnqueueFull(p)
           \/ EnqueueCheck(p)
           \/ EnqueueRetry(p)
    PROVE  Goal'
<1>1. /\ UNCHANGED <<ring, writehead, readhead, hwhead, npend, ndone, cpc, chead, cres, cpass>>
      /\ \A q \in Producers : q # p => /\ ppc'[q] = ppc[q]
                                       /\ phead'[q] = phead[q]
                                       /\ pcmd'[q] = pcmd[q]
                                       /\ ppass'[q] = ppass[q]
      /\ ppc[p] \notin Filling
      /\ ppc'[p] \notin Filling
    BY DEF EnqueueCall, EnqueueReadHead, EnqueueFull, EnqueueReturn, EnqueueCheck,
           EnqueueRetry, shared, deq, Filling, IInv, TypeOK
<1>2. ArcsOK' /\ ExclusiveDescriptor' /\ PublishedIsComplete'
  <2>1. \A q \in Producers, s \in Slots : Fills(q, s)' <=> Fills(q, s)
    BY <1>1 DEF Fills
  <2>2. \A c \in Consumers, s \in Slots : Drains(c, s)' <=> Drains(c, s)
    BY <1>1 DEF Drains
  <2> QED BY <1>1, <2>1, <2>2, QuietStep DEF shared
<1>3. InEnqueue(p)' => writehead' = Wrap(phead'[p] + ppass'[p])
  <2>1. CASE \E r \in Requests : EnqueueCall(p, r)
    BY <2>1 DEF EnqueueCall, InEnqueue, Reading, Filling, IInv, TypeOK
  <2>2. CASE EnqueueReadHead(p)
    <3>1. phead'[p] = writehead /\ ppass'[p] = 0
        BY <2>2 DEF EnqueueReadHead, IInv, TypeOK
    <3>2. writehead = Wrap(writehead + 0)
        BY Numbers DEF Wrap, Slots
    <3> QED BY <3>1, <3>2, <1>1
  <2>3. CASE EnqueueFull(p)
    BY <2>3 DEF EnqueueFull, EnqueueReturn, InEnqueue, Reading, Filling, IInv, TypeOK
  <2>4. CASE EnqueueCheck(p)
    BY <2>4, <1>1 DEF EnqueueCheck, InEnqueue, Reading, IInv, HeadsOK
  <2>5. CASE EnqueueRetry(p)
    BY <2>5 DEF EnqueueRetry, InEnqueue, Reading, Filling, IInv, TypeOK
  <2> QED BY <2>1, <2>2, <2>3, <2>4, <2>5
<1>4. HeadsOK'
    BY <1>1, <1>3 DEF IInv, HeadsOK, InEnqueue, InDequeue, Wrap
<1>5. /\ ppc'[p] # "idle" => \E r \in Requests : Admissible(r) /\ pcmd'[p] = Command(r)
      /\ ppc'[p] = "cas" /\ ppass'[p] = 0 => ring'[phead'[p]].task_id = 0
  <2>1. CASE \E r \in Requests : EnqueueCall(p, r)
    BY <2>1 DEF EnqueueCall, IInv, TypeOK
  <2>2. CASE EnqueueReadHead(p)
    BY <2>2 DEF EnqueueReadHead, IInv, TypeOK, CallsOK
  <2>3. CASE EnqueueFull(p)
    BY <2>3 DEF EnqueueFull, EnqueueReturn, IInv, TypeOK
  <2>4. CASE EnqueueCheck(p)
    BY <2>4 DEF EnqueueCheck, IInv, TypeOK, CallsOK, shared
  <2>5. CASE EnqueueRetry(p)
    BY <2>5 DEF EnqueueRetry, IInv, TypeOK, CallsOK
  <2> QED BY <2>1, <2>2, <2>3, <2>4, <2>5
<1>6. CallsOK'
    BY <1>1, <1>5 DEF IInv, CallsOK, Content, Filling
<1> QED BY <1>2, <1>4, <1>6 DEF Goal

\* The compare-and-set of fpga_enqueue() succeeds.
LEMMA EnqueueClaims ==
    ASSUME IInv, Prompt', NEW p \in Producers, EnqueueClaim(p)
    PROVE  Goal'
<1>1. /\ UNCHANGED <<ring, readhead, hwhead, ndone, phead, pcmd, cpc, chead, cres, cpass>>
      /\ writehead = phead[p]
      /\ writehead' = NextHead(writehead)
      /\ npend' = npend + 1
      /\ ppc[p] = "cas" /\ ppc'[p] = "fill"
      /\ \A q \in Producers : q # p => ppc'[q] = ppc[q]
      /\ \A q \in Producers : InEnqueue(q) => ppass'[q] = ppass[q] + 1
      /\ \A q \in Producers : InEnqueue(q)' <=> InEnqueue(q)
    BY DEF EnqueueClaim, deq, IInv, TypeOK, Prompt, InEnqueue, Reading, Filling
<1>2. \A q \in Producers, s \in Slots : Fills(q, s)' <=> Fills(q, s) \/ (q = p /\ s = writehead)
    BY <1>1 DEF Fills, Filling
<1>3. \A c \in Consumers, s \in Slots : Drains(c, s)' <=> Drains(c, s)
    BY <1>1 DEF Drains
<1>4. HeadsOK'
  <2>1. 0 <= ndone' /\ ndone' <= npend' /\ npend' <= N
    BY <1>1, Numbers, EnqueueClaimFacts
  <2>2. writehead' = Wrap(readhead' + npend')
    BY <1>1, Numbers, EnqueueClaimFacts DEF IInv, HeadsOK, Wrap, Slots, NextHead
  <2>3. hwhead' = Wrap(readhead' + ndone')
    BY <1>1 DEF IInv, HeadsOK, Wrap
  <2>4. ASSUME NEW q \in Producers, InEnqueue(q)'
        PROVE  writehead' = Wrap(phead'[q] + ppass'[q]) /\ ppass'[q] >= 1
    <3>1. /\ writehead = Wrap(phead[q] + ppass[q])
          /\ ppass[q] < N /\ ppass'[q] = ppass[q] + 1
          /\ phead[q] \in Slots /\ ppass[q] \in Int /\ ppass[q] >= 0
        BY <1>1, <2>4, Numbers DEF IInv, HeadsOK, Prompt
    <3> QED BY <1>1, <3>1, Numbers DEF Wrap, Slots, NextHead
  <2>5. ASSUME NEW c \in Consumers, InDequeue(c)'
        PROVE  /\ readhead' = Wrap(chead'[c] + cpass'[c])
               /\ cpc'[c] \in Draining => cpass'[c] >= 1
    BY <1>1, <2>5 DEF IInv, HeadsOK, InDequeue, Wrap
  <2> QED BY <2>1, <2>2, <2>3, <2>4, <2>5 DEF HeadsOK
<1>5. CallsOK'
  <2>1. \A q \in Producers : ppc'[q] = "cas" => ppass'[q] # 0
    BY <1>1, Numbers DEF InEnqueue, Reading
  <2> QED BY <1>1, <2>1 DEF IInv, CallsOK, Content
<1>6. ArcsOK'
  <2> SUFFICES ASSUME NEW s \in Slots
               PROVE  /\ Dist(s)' < ndone' =>
                           /\ ring'[s].op = CMD_DONE
                           /\ \A q \in Producers : ~Fills(q, s)'
                           /\ \A c \in Consumers : ~Drains(c, s)'
                      /\ ndone' <= Dist(s)' /\ Dist(s)' < npend' =>
                           /\ \/ ring'[s].op = CMD_READY /\ \A q \in Producers : ~Fills(q, s)'
                              \/ ring'[s].op = CMD_NONE /\ \E q \in Producers : Fills(q, s)'
                           /\ \A c \in Consumers : ~Drains(c, s)'
                      /\ npend' <= Dist(s)' =>
                           /\ \/ ring'[s].op = CMD_NONE /\ ring'[s].task_id = 0
                                 /\ \A c \in Consumers : ~Drains(c, s)'
                              \/ ring'[s].op = CMD_DONE /\ \E c \in Consumers : Drains(c, s)'
                           /\ \A q \in Producers : ~Fills(q, s)'
    BY DEF ArcsOK
  <2>1. Dist(s)' = Dist(s) /\ Dist(s) \in Int
    BY <1>1, Numbers, DistFacts DEF Dist
  <2>2. Dist(s) = npend <=> s = writehead
    BY EnqueueClaimFacts, Numbers, DistFacts
  <2>3. CASE s = writehead
    BY <1>1, <1>2, <1>3, <2>1, <2>2, <2>3, Numbers, EnqueueClaimFacts
       DEF IInv, ArcsOK, CMD_NONE, CMD_READY, CMD_DONE
  <2>4. CASE s # writehead
    <3>1. \A q \in Producers : Fills(q, s)' <=> Fills(q, s)
        BY <1>2, <2>4
    <3> QED BY <1>1, <1>3, <2>1, <2>2, <2>4, <3>1, Numbers DEF IInv, ArcsOK
  <2> QED BY <2>3, <2>4
<1>7. ExclusiveDescriptor'
  <2>1. \A q \in Producers : ~Fills(q, writehead)
    BY HeldNotAtHead DEF Fills
  <2>2. \A c \in Consumers : ~Drains(c, writehead)
    BY EnqueueClaimFacts, Numbers DEF IInv, ArcsOK, CMD_NONE, CMD_DONE
  <2> SUFFICES ASSUME NEW s \in Slots
               PROVE  /\ \A q, r \in Producers : Fills(q, s)' /\ Fills(r, s)' => q = r
                      /\ \A c, d \in Consumers : Drains(c, s)' /\ Drains(d, s)' => c = d
                      /\ \A q \in Producers, c \in Consumers : ~(Fills(q, s)' /\ Drains(c, s)')
                      /\ \A q \in Producers : Fills(q, s)' => ring'[s].op = CMD_NONE
    BY DEF ExclusiveDescriptor
  <2> QED BY <1>1, <1>2, <1>3, <2>1, <2>2, EnqueueClaimFacts DEF IInv, ExclusiveDescriptor
<1>8. PublishedIsComplete'
    BY <1>1 DEF IInv, PublishedIsComplete, Content
<1> QED BY <1>4, <1>5, <1>6, <1>7, <1>8 DEF Goal

\* fpga_enqueue() writes addr, len and task_id of the descriptor it holds.
LEMMA EnqueueWrites ==
    ASSUME IInv, NEW p \in Producers, EnqueueFill(p) \/ EnqueueTask(p)
    PROVE  Goal'
<1>1. /\ UNCHANGED <<writehead, readhead, hwhead, npend, ndone, phead, pcmd, ppass,
                     cpc, chead, cres, cpass>>
      /\ ppc[p] \in {"fill", "task"} /\ ppc'[p] \in {"task", "ready"}
      /\ \A q \in Producers : q # p => ppc'[q] = ppc[q]
      /\ \A s \in Slots : ring'[s].op = ring[s].op
      /\ \A s \in Slots : s # phead[p] => ring'[s] = ring[s]
      /\ phead[p] \in Slots
  <2>1. CASE EnqueueFill(p)
    BY <2>1 DEF EnqueueFill, deq, IInv, TypeOK
  <2>2. CASE EnqueueTask(p)
    BY <2>2 DEF EnqueueTask, deq, IInv, TypeOK
  <2> QED BY <2>1, <2>2
<1>2. Fills(p, phead[p])
    BY <1>1 DEF Fills, Filling
<1>3. \A q \in Producers, s \in Slots : Fills(q, s)' <=> Fills(q, s)
    BY <1>1 DEF Fills, Filling
<1>4. \A c \in Consumers, s \in Slots : Drains(c, s)' <=> Drains(c, s)
    BY <1>1 DEF Drains
<1>5. ArcsOK' /\ ExclusiveDescriptor'
  <2>1. \A s \in Slots : (\A q \in Producers : ~Fills(q, s)) =>
            ring'[s].task_id = ring[s].task_id
    BY <1>1, <1>2
  <2> QED BY <1>1, <1>3, <1>4, <2>1, SameArcs DEF IInv
<1>6. HeadsOK'
    BY <1>1 DEF IInv, HeadsOK, InEnqueue, InDequeue, Wrap, Filling, Reading
<1>7. PublishedIsComplete'
  <2>1. ring[phead[p]].op = CMD_NONE
    BY <1>1, <1>2 DEF IInv, ExclusiveDescriptor
  <2> QED BY <1>1, <2>1 DEF IInv, PublishedIsComplete, Content
<1>8. CallsOK'
  <2>1. \A q \in Producers : q # p /\ ppc[q] \in Filling => phead[q] # phead[p]
    BY <1>1, <1>2 DEF IInv, ExclusiveDescriptor, Fills
  <2>2. \A c \in Consumers : cpc[c] \in Draining => chead[c] # phead[p]
    BY <1>1, <1>2 DEF IInv, ExclusiveDescriptor, Drains
  <2>3. \A q \in Producers : ppc[q] = "cas" /\ ppass[q] = 0 => phead[q] # phead[p]
    <3> SUFFICES ASSUME NEW q \in Producers, ppc[q] = "cas", ppass[q] = 0
                 PROVE  phead[q] = writehead
        BY <1>1, HeldNotAtHead DEF Filling
    <3>1. writehead = Wrap(phead[q] + 0)
        BY DEF IInv, HeadsOK, InEnqueue, Reading
    <3> QED BY <3>1, Numbers DEF Wrap, Slots
  <2>4. ASSUME NEW q \in Producers, ppc'[q] \in {"task", "ready"}
        PROVE  ring'[phead'[q]].addr = pcmd'[q].addr /\ ring'[phead'[q]].len = pcmd'[q].len
    <3>1. CASE q # p
        BY <1>1, <2>1, <2>4, <3>1, Numbers DEF IInv, CallsOK, Filling
    <3>2. CASE q = p /\ EnqueueFill(p)
        BY <3>2, <1>1 DEF EnqueueFill, IInv, TypeOK
    <3>3. CASE q = p /\ EnqueueTask(p)
        BY <3>3, <1>1 DEF EnqueueTask, IInv, TypeOK, CallsOK
    <3> QED BY <3>1, <3>2, <3>3
  <2>5. ASSUME NEW q \in Producers, ppc'[q] = "ready"
        PROVE  ring'[phead'[q]].task_id = pcmd'[q].task_id
    <3>1. CASE q # p
        BY <1>1, <2>1, <2>5, <3>1, Numbers DEF IInv, CallsOK, Filling
    <3>2. CASE q = p /\ EnqueueFill(p)
        BY <3>2, <2>5 DEF EnqueueFill, IInv, TypeOK
    <3>3. CASE q = p /\ EnqueueTask(p)
        BY <3>3, <1>1 DEF EnqueueTask, IInv, TypeOK
    <3> QED BY <3>1, <3>2, <3>3
  <2>6. ASSUME NEW q \in Producers
        PROVE  /\ ppc'[q] # "idle" => \E r \in Requests : Admissible(r) /\ pcmd'[q] = Command(r)
               /\ ppc'[q] = "cas" /\ ppass'[q] = 0 => ring'[phead'[q]].task_id = 0
    BY <1>1, <2>3, Numbers DEF IInv, CallsOK
  <2>7. ASSUME NEW c \in Consumers
        PROVE  /\ cpc'[c] = "cas" /\ cpass'[c] = 0 => ring'[chead'[c]].op = CMD_DONE
               /\ cpc'[c] = "clear" => cres'[c] = Content(chead[c])'
    BY <1>1, <2>2, Numbers DEF IInv, CallsOK, Content, Draining
  <2> QED BY <1>1, <2>4, <2>5, <2>6, <2>7 DEF CallsOK, Content
<1> QED BY <1>5, <1>6, <1>7, <1>8 DEF Goal

\* fpga_enqueue() hands the descriptor to the FPGA.
LEMMA EnqueuePublishes ==
    ASSUME IInv, NEW p \in Producers, EnqueueReady(p)
    PROVE  Goal'
<1>1. /\ UNCHANGED <<writehead, readhead, hwhead, npend, ndone, cpc, chead, cres, cpass>>
      /\ ppc[p] = "ready" /\ ppc'[p] = "idle"
      /\ \A q \in Producers : q # p => /\ ppc'[q] = ppc[q]
                                       /\ phead'[q] = phead[q]
                                       /\ pcmd'[q] = pcmd[q]
                                       /\ ppass'[q] = ppass[q]
      /\ \A s \in Slots : Content(s)' = Content(s)
      /\ \A s \in Slots : ring'[s].task_id = ring[s].task_id
      /\ \A s \in Slots : ring'[s].addr = ring[s].addr /\ ring'[s].len = ring[s].len
      /\ \A s \in Slots : s # phead[p] => ring'[s].op = ring[s].op
      /\ ring'[phead[p]].op = CMD_READY
      /\ phead[p] \in Slots
    BY DEF EnqueueReady, EnqueueReturn, deq, IInv, TypeOK, Content
<1>2. Fills(p, phead[p])
    BY <1>1 DEF Fills, Filling
<1>3. \A q \in Producers, s \in Slots :
          Fills(q, s)' <=> Fills(q, s) /\ s # phead[p]
    BY <1>1, <1>2 DEF Fills, Filling, IInv, ExclusiveDescriptor
<1>4. \A c \in Consumers, s \in Slots : Drains(c, s)' <=> Drains(c, s)
    BY <1>1 DEF Drains
<1>5. /\ ring[phead[p]].op = CMD_NONE
      /\ \A c \in Consumers : ~Drains(c, phead[p])
    BY <1>1, <1>2 DEF IInv, ExclusiveDescriptor
<1>6. HeadsOK'
    BY <1>1 DEF IInv, HeadsOK, InEnqueue, InDequeue, Wrap, Filling, Reading
<1>7. CallsOK'
    BY <1>1, <1>5, Numbers DEF IInv, CallsOK, CMD_NONE, CMD_DONE
<1>8. ArcsOK'
  <2> SUFFICES ASSUME NEW s \in Slots
               PROVE  /\ Dist(s)' < ndone' =>
                           /\ ring'[s].op = CMD_DONE
                           /\ \A q \in Producers : ~Fills(q, s)'
                           /\ \A c \in Consumers : ~Drains(c, s)'
                      /\ ndone' <= Dist(s)' /\ Dist(s)' < npend' =>
                           /\ \/ ring'[s].op = CMD_READY /\ \A q \in Producers : ~Fills(q, s)'
                              \/ ring'[s].op = CMD_NONE /\ \E q \in Producers : Fills(q, s)'
                           /\ \A c \in Consumers : ~Drains(c, s)'
                      /\ npend' <= Dist(s)' =>
                           /\ \/ ring'[s].op = CMD_NONE /\ ring'[s].task_id = 0
                                 /\ \A c \in Consumers : ~Drains(c, s)'
                              \/ ring'[s].op = CMD_DONE /\ \E c \in Consumers : Drains(c, s)'
                           /\ \A q \in Producers : ~Fills(q, s)'
    BY DEF ArcsOK
  <2>1. Dist(s)' = Dist(s)
    BY <1>1 DEF Dist
  <2>2. CASE s = phead[p]
    <3>1. ndone <= Dist(s) /\ Dist(s) < npend
        BY <1>2, <2>2, Numbers, DistFacts DEF IInv, ArcsOK
    <3> QED BY <1>1, <1>3, <1>4, <1>5, <2>1, <2>2, <3>1, Numbers, DistFacts
  <2>3. CASE s # phead[p]
    BY <1>1, <1>3, <1>4, <2>1, <2>3 DEF IInv, ArcsOK
  <2> QED BY <2>2, <2>3
<1>9. ExclusiveDescriptor'
  <2> SUFFICES ASSUME NEW s \in Slots
               PROVE  /\ \A q, r \in Producers : Fills(q, s)' /\ Fills(r, s)' => q = r
                      /\ \A c, d \in Consumers : Drains(c, s)' /\ Drains(d, s)' => c = d
                      /\ \A q \in Producers, c \in Consumers : ~(Fills(q, s)' /\ Drains(c, s)')
                      /\ \A q \in Producers : Fills(q, s)' => ring'[s].op = CMD_NONE
    BY DEF ExclusiveDescriptor
  <2> QED BY <1>1, <1>3, <1>4 DEF IInv, ExclusiveDescriptor
<1>10. PublishedIsComplete'
  <2>1. Content(phead[p]) = pcmd[p]
    BY <1>1, CommandType DEF Content, IInv, CallsOK, Command
  <2> QED BY <1>1, <2>1 DEF IInv, PublishedIsComplete, CallsOK
<1> QED BY <1>6, <1>7, <1>8, <1>9, <1>10 DEF Goal

\* The FPGA completes a command.
LEMMA FpgaCompletes ==
    ASSUME IInv, FpgaComplete
    PROVE  Goal'
<1>1. /\ UNCHANGED <<writehead, readhead, npend, ppc, phead, pcmd, ppass,
                     cpc, chead, cres, cpass>>
      /\ hwhead' = NextHead(hwhead)
      /\ ndone' = ndone + 1
      /\ \A s \in Slots : Content(s)' = Content(s)
      /\ \A s \in Slots : ring'[s].task_id = ring[s].task_id
      /\ \A s \in Slots : ring'[s].addr = ring[s].addr /\ ring'[s].len = ring[s].len
      /\ \A s \in Slots : s # hwhead => ring'[s].op = ring[s].op
      /\ ring[hwhead].op = CMD_READY
      /\ ring'[hwhead].op = CMD_DONE
    BY DEF FpgaComplete, enq, deq, IInv, TypeOK, Content
<1>2. \A q \in Producers, s \in Slots : Fills(q, s)' <=> Fills(q, s)
    BY <1>1 DEF Fills
<1>3. \A c \in Consumers, s \in Slots : Drains(c, s)' <=> Drains(c, s)
    BY <1>1 DEF Drains
<1>4. \A q \in Producers : ~Fills(q, hwhead)
    BY <1>1, Numbers DEF IInv, ExclusiveDescriptor, CMD_NONE, CMD_READY
<1>5. HeadsOK'
  <2>1. hwhead' = Wrap(readhead' + ndone')
    <3>1. hwhead = Wrap(readhead + ndone) /\ ndone < N
        BY FpgaFacts, Numbers DEF IInv, HeadsOK
    <3>2. readhead \in Slots /\ ndone \in Int /\ 0 <= ndone /\ ndone <= N
        BY Numbers
    <3>3. Wrap(readhead + (ndone + 1)) = NextHead(hwhead)
        BY <3>1, <3>2, WrapFacts
    <3> QED BY <1>1, <3>3 DEF Wrap
  <2>2. 0 <= ndone' /\ ndone' <= npend' /\ npend' <= N
    BY <1>1, FpgaFacts, Numbers
  <2> QED BY <1>1, <2>1, <2>2 DEF IInv, HeadsOK, InEnqueue, InDequeue, Wrap
<1>6. CallsOK'
    BY <1>1, Numbers DEF IInv, CallsOK
<1>7. ArcsOK'
  <2> SUFFICES ASSUME NEW s \in Slots
               PROVE  /\ Dist(s)' < ndone' =>
                           /\ ring'[s].op = CMD_DONE
                           /\ \A q \in Producers : ~Fills(q, s)'
                           /\ \A c \in Consumers : ~Drains(c, s)'
                      /\ ndone' <= Dist(s)' /\ Dist(s)' < npend' =>
                           /\ \/ ring'[s].op = CMD_READY /\ \A q \in Producers : ~Fills(q, s)'
                              \/ ring'[s].op = CMD_NONE /\ \E q \in Producers : Fills(q, s)'
                           /\ \A c \in Consumers : ~Drains(c, s)'
                      /\ npend' <= Dist(s)' =>
                           /\ \/ ring'[s].op = CMD_NONE /\ ring'[s].task_id = 0
                                 /\ \A c \in Consumers : ~Drains(c, s)'
                              \/ ring'[s].op = CMD_DONE /\ \E c \in Consumers : Drains(c, s)'
                           /\ \A q \in Producers : ~Fills(q, s)'
    BY DEF ArcsOK
  <2>1. Dist(s)' = Dist(s) /\ Dist(s) \in Int
    BY <1>1, Numbers, DistFacts DEF Dist
  <2>2. Dist(s) = ndone <=> s = hwhead
    BY FpgaFacts, Numbers, DistFacts
  <2>3. CASE s = hwhead
    <3>1. \A c \in Consumers : ~Drains(c, s)
        BY <2>2, <2>3, FpgaFacts, Numbers DEF IInv, ArcsOK
    <3> QED BY <1>1, <1>2, <1>3, <1>4, <2>1, <2>2, <2>3, <3>1, FpgaFacts, Numbers
  <2>4. CASE s # hwhead
    BY <1>1, <1>2, <1>3, <2>1, <2>2, <2>4, Numbers DEF IInv, ArcsOK
  <2> QED BY <2>3, <2>4
<1>8. ExclusiveDescriptor'
  <2> SUFFICES ASSUME NEW s \in Slots
               PROVE  /\ \A q, r \in Producers : Fills(q, s)' /\ Fills(r, s)' => q = r
                      /\ \A c, d \in Consumers : Drains(c, s)' /\ Drains(d, s)' => c = d
                      /\ \A q \in Producers, c \in Consumers : ~(Fills(q, s)' /\ Drains(c, s)')
                      /\ \A q \in Producers : Fills(q, s)' => ring'[s].op = CMD_NONE
    BY DEF ExclusiveDescriptor
  <2> QED BY <1>1, <1>2, <1>3, <1>4 DEF IInv, ExclusiveDescriptor
<1>9. PublishedIsComplete'
    BY <1>1, Numbers DEF IInv, PublishedIsComplete, CMD_NONE, CMD_READY
<1> QED BY <1>5, <1>6, <1>7, <1>8, <1>9 DEF Goal

\* The steps of fpga_dequeue() that neither claim nor release a descriptor.
LEMMA DequeueQuiet ==
    ASSUME IInv, NEW c \in Consumers,
           \/ DequeueCall(c)
           \/ DequeueReadHead(c)
           \/ DequeueWait(c)
           \/ DequeueCheck(c)
           \/ DequeueRetry(c)
           \/ DequeueCopy(c)
    PROVE  Goal'
<1>1. /\ UNCHANGED <<ring, writehead, readhead, hwhead, npend, ndone, ppc, phead, pcmd, ppass>>
      /\ \A d \in Consumers : d # c => /\ cpc'[d] = cpc[d]
                                       /\ chead'[d] = chead[d]
                                       /\ cres'[d] = cres[d]
                                       /\ cpass'[d] = cpass[d]
      /\ \/ cpc[c] \notin Draining /\ cpc'[c] \notin Draining
         \/ cpc[c] \in Draining /\ cpc'[c] \in Draining
            /\ chead'[c] = chead[c] /\ cpass'[c] = cpass[c]
    BY DEF DequeueCall, DequeueReadHead, DequeueWait, DequeueLeave, DequeueCheck,
           DequeueRetry, DequeueCopy, shared, enq, Draining, IInv, TypeOK
<1>2. ArcsOK' /\ ExclusiveDescriptor' /\ PublishedIsComplete'
  <2>1. \A q \in Producers, s \in Slots : Fills(q, s)' <=> Fills(q, s)
    BY <1>1 DEF Fills
  <2>2. \A d \in Consumers, s \in Slots : Drains(d, s)' <=> Drains(d, s)
    BY <1>1 DEF Drains
  <2> QED BY <1>1, <2>1, <2>2, QuietStep DEF shared
<1>3. InDequeue(c)' => /\ readhead' = Wrap(chead'[c] + cpass'[c])
                       /\ cpc'[c] \in Draining => cpass'[c] >= 1
  <2>1. CASE DequeueCall(c)
    BY <2>1 DEF DequeueCall, InDequeue, Reading, Draining, IInv, TypeOK
  <2>2. CASE DequeueReadHead(c)
    <3>1. chead'[c] = readhead /\ cpass'[c] = 0 /\ cpc'[c] \notin Draining
        BY <2>2 DEF DequeueReadHead, IInv, TypeOK, Draining
    <3>2. readhead = Wrap(readhead + 0)
        BY Numbers DEF Wrap, Slots
    <3> QED BY <3>1, <3>2, <1>1
  <2>3. CASE DequeueWait(c)
    BY <2>3 DEF DequeueWait, DequeueLeave, InDequeue, Reading, Draining, IInv, TypeOK
  <2>4. CASE DequeueCheck(c)
    BY <2>4, <1>1 DEF DequeueCheck, InDequeue, Reading, Draining, IInv, HeadsOK
  <2>5. CASE DequeueRetry(c)
    BY <2>5 DEF DequeueRetry, DequeueLeave, InDequeue, Reading, Draining, IInv, TypeOK
  <2>6. CASE DequeueCopy(c)
    BY <2>6, <1>1 DEF DequeueCopy, InDequeue, Reading, Draining, IInv, HeadsOK
  <2> QED BY <2>1, <2>2, <2>3, <2>4, <2>5, <2>6
<1>4. HeadsOK'
    BY <1>1, <1>3 DEF IInv, HeadsOK, InEnqueue, InDequeue, Wrap
<1>5. /\ cpc'[c] = "cas" /\ cpass'[c] = 0 => ring'[chead'[c]].op = CMD_DONE
      /\ cpc'[c] = "clear" => cres'[c] = Content(chead'[c])
  <2>1. CASE DequeueCall(c)
    BY <2>1 DEF DequeueCall, IInv, TypeOK
  <2>2. CASE DequeueReadHead(c)
    BY <2>2 DEF DequeueReadHead, IInv, TypeOK
  <2>3. CASE DequeueWait(c)
    BY <2>3 DEF DequeueWait, DequeueLeave, IInv, TypeOK
  <2>4. CASE DequeueCheck(c)
    BY <2>4 DEF DequeueCheck, IInv, TypeOK, shared
  <2>5. CASE DequeueRetry(c)
    BY <2>5 DEF DequeueRetry, DequeueLeave, IInv, TypeOK
  <2>6. CASE DequeueCopy(c)
    BY <2>6 DEF DequeueCopy, IInv, TypeOK
  <2> QED BY <2>1, <2>2, <2>3, <2>4, <2>5, <2>6
<1>6. CallsOK'
    BY <1>1, <1>5 DEF IInv, CallsOK, Content
<1> QED BY <1>2, <1>4, <1>6 DEF Goal

\* The compare-and-set of fpga_dequeue() succeeds.
LEMMA DequeueClaims ==
    ASSUME IInv, Prompt', NEW c \in Consumers, DequeueClaim(c)
    PROVE  Goal'
<1>1. /\ UNCHANGED <<ring, writehead, hwhead, ppc, phead, pcmd, ppass, chead, cres>>
      /\ readhead = chead[c]
      /\ readhead' = NextHead(readhead)
      /\ npend' = npend - 1
      /\ ndone' = ndone - 1
      /\ cpc[c] = "cas" /\ cpc'[c] = "copy"
      /\ \A d \in Consumers : d # c => cpc'[d] = cpc[d]
      /\ \A d \in Consumers : InDequeue(d) => cpass'[d] = cpass[d] + 1
      /\ \A d \in Consumers : InDequeue(d)' <=> InDequeue(d)
    BY DEF DequeueClaim, enq, IInv, TypeOK, Prompt, InDequeue, Reading, Draining
<1>2. \A d \in Consumers, s \in Slots : Drains(d, s)' <=> Drains(d, s) \/ (d = c /\ s = readhead)
    BY <1>1 DEF Drains, Draining
<1>3. \A q \in Producers, s \in Slots : Fills(q, s)' <=> Fills(q, s)
    BY <1>1 DEF Fills
<1>4. ndone > 0 /\ npend > 0 /\ ring[readhead].op = CMD_DONE
    BY DequeueClaimFacts, Numbers
<1>5. HeadsOK'
  <2>1. 0 <= ndone' /\ ndone' <= npend' /\ npend' <= N
    BY <1>1, <1>4, Numbers
  <2>2. writehead' = Wrap(readhead' + npend')
    <3>1. writehead = Wrap(readhead + npend)
        BY DEF IInv, HeadsOK
    <3> QED BY <1>1, <1>4, <3>1, Numbers DEF Wrap, Slots, NextHead
  <2>3. hwhead' = Wrap(readhead' + ndone')
    <3>1. hwhead = Wrap(readhead + ndone)
        BY DEF IInv, HeadsOK
    <3> QED BY <1>1, <1>4, <3>1, Numbers DEF Wrap, Slots, NextHead
  <2>4. ASSUME NEW d \in Consumers, InDequeue(d)'
        PROVE  readhead' = Wrap(chead'[d] + cpass'[d]) /\ cpass'[d] >= 1
    <3>1. /\ readhead = Wrap(chead[d] + cpass[d])
          /\ cpass[d] < N /\ cpass'[d] = cpass[d] + 1
          /\ chead[d] \in Slots /\ cpass[d] \in Int /\ cpass[d] >= 0
        BY <1>1, <2>4, Numbers DEF IInv, HeadsOK, Prompt
    <3> QED BY <1>1, <3>1, Numbers DEF Wrap, Slots, NextHead
  <2>5. ASSUME NEW q \in Producers, InEnqueue(q)'
        PROVE  /\ writehead' = Wrap(phead'[q] + ppass'[q])
               /\ ppc'[q] \in Filling => ppass'[q] >= 1
    BY <1>1, <2>5 DEF IInv, HeadsOK, InEnqueue, Wrap
  <2> QED BY <2>1, <2>2, <2>3, <2>4, <2>5 DEF HeadsOK
<1>6. CallsOK'
  <2>1. \A d \in Consumers : cpc'[d] = "cas" => cpass'[d] # 0
    BY <1>1, Numbers DEF InDequeue, Reading
  <2> QED BY <1>1, <2>1 DEF IInv, CallsOK, Content
<1>7. ArcsOK'
  <2> SUFFICES ASSUME NEW s \in Slots
               PROVE  /\ Dist(s)' < ndone' =>
                           /\ ring'[s].op = CMD_DONE
                           /\ \A q \in Producers : ~Fills(q, s)'
                           /\ \A d \in Consumers : ~Drains(d, s)'
                      /\ ndone' <= Dist(s)' /\ Dist(s)' < npend' =>
                           /\ \/ ring'[s].op = CMD_READY /\ \A q \in Producers : ~Fills(q, s)'
                              \/ ring'[s].op = CMD_NONE /\ \E q \in Producers : Fills(q, s)'
                           /\ \A d \in Consumers : ~Drains(d, s)'
                      /\ npend' <= Dist(s)' =>
                           /\ \/ ring'[s].op = CMD_NONE /\ ring'[s].task_id = 0
                                 /\ \A d \in Consumers : ~Drains(d, s)'
                              \/ ring'[s].op = CMD_DONE /\ \E d \in Consumers : Drains(d, s)'
                           /\ \A q \in Producers : ~Fills(q, s)'
    BY DEF ArcsOK
  <2>1. Dist(s) \in Int /\ 0 <= Dist(s) /\ Dist(s) < N
    BY Numbers, DistFacts
  <2>2. CASE s = readhead
    <3>1. Dist(s)' = N - 1
        BY <1>1, <2>2, Numbers DEF Dist, Slots, NextHead
    <3>2. \A q \in Producers : ~Fills(q, s)'
        BY <1>3, <1>4, <2>2, Numbers, DequeueClaimFacts DEF IInv, ArcsOK
    <3>3. Drains(c, s)'
        BY <1>2, <2>2
    <3>4. npend' <= Dist(s)' /\ ~(Dist(s)' < npend') /\ ~(Dist(s)' < ndone')
        BY <1>1, <3>1, Numbers
    <3> QED BY <1>1, <1>4, <2>2, <3>2, <3>3, <3>4
  <2>3. CASE s # readhead
    <3>1. Dist(s)' = Dist(s) - 1
        BY <1>1, <2>3, Numbers DEF Dist, Slots, NextHead
    <3>2. \A d \in Consumers : Drains(d, s)' <=> Drains(d, s)
        BY <1>2, <2>3
    <3>3. /\ Dist(s)' < ndone' <=> Dist(s) < ndone
          /\ Dist(s)' < npend' <=> Dist(s) < npend
          /\ ndone' <= Dist(s)' <=> ndone <= Dist(s)
          /\ npend' <= Dist(s)' <=> npend <= Dist(s)
        BY <1>1, <2>1, <3>1, Numbers
    <3> QED BY <1>1, <1>3, <3>2, <3>3 DEF IInv, ArcsOK
  <2> QED BY <2>2, <2>3
<1>8. ExclusiveDescriptor'
  <2>1. \A d \in Consumers : ~Drains(d, readhead)
    BY HeldNotAtHead DEF Drains
  <2>2. \A q \in Producers : ~Fills(q, readhead)
    BY <1>4, Numbers DEF IInv, ExclusiveDescriptor, CMD_NONE, CMD_DONE
  <2> SUFFICES ASSUME NEW s \in Slots
               PROVE  /\ \A q, r \in Producers : Fills(q, s)' /\ Fills(r, s)' => q = r
                      /\ \A d, e \in Consumers : Drains(d, s)' /\ Drains(e, s)' => d = e
                      /\ \A q \in Producers, d \in Consumers : ~(Fills(q, s)' /\ Drains(d, s)')
                      /\ \A q \in Producers : Fills(q, s)' => ring'[s].op = CMD_NONE
    BY DEF ExclusiveDescriptor
  <2> QED BY <1>1, <1>2, <1>3, <2>1, <2>2 DEF IInv, ExclusiveDescriptor
<1>9. PublishedIsComplete'
    BY <1>1 DEF IInv, PublishedIsComplete, Content
<1> QED BY <1>5, <1>6, <1>7, <1>8, <1>9 DEF Goal

\* fpga_dequeue() clears the descriptor it holds and returns.
LEMMA DequeueReleases ==
    ASSUME IInv, NEW c \in Consumers, DequeueClear(c)
    PROVE  Goal'
<1>1. /\ UNCHANGED <<writehead, readhead, hwhead, npend, ndone, ppc, phead, pcmd, ppass>>
      /\ cpc[c] = "clear" /\ cpc'[c] = "idle"
      /\ \A d \in Consumers : d # c => /\ cpc'[d] = cpc[d]
                                       /\ chead'[d] = chead[d]
                                       /\ cres'[d] = cres[d]
                                       /\ cpass'[d] = cpass[d]
      /\ \A s \in Slots : s # chead[c] => ring'[s] = ring[s]
      /\ ring'[chead[c]].op = CMD_NONE
      /\ ring'[chead[c]].task_id = 0
      /\ chead[c] \in Slots
    BY DEF DequeueClear, DequeueLeave, Cleared, enq, IInv, TypeOK
<1>2. Drains(c, chead[c])
    BY <1>1 DEF Drains, Draining
<1>3. \A d \in Consumers, s \in Slots : Drains(d, s)' <=> Drains(d, s) /\ s # chead[c]
    BY <1>1, <1>2 DEF Drains, Draining, IInv, ExclusiveDescriptor
<1>4. \A q \in Producers, s \in Slots : Fills(q, s)' <=> Fills(q, s)
    BY <1>1 DEF Fills
<1>5. \A q \in Producers : ~Fills(q, chead[c])
    BY <1>1, <1>2 DEF IInv, ExclusiveDescriptor
<1>6. HeadsOK'
    BY <1>1 DEF IInv, HeadsOK, InEnqueue, InDequeue, Wrap, Draining, Reading
<1>7. CallsOK'
  <2>1. \A q \in Producers : ppc[q] \in Filling => phead[q] # chead[c]
    BY <1>5 DEF Fills
  <2>2. \A d \in Consumers : cpc[d] = "cas" /\ cpass[d] = 0 => chead[d] # chead[c]
    <3> SUFFICES ASSUME NEW d \in Consumers, cpc[d] = "cas", cpass[d] = 0
                 PROVE  chead[d] = readhead
        BY <1>1, HeldNotAtHead DEF Draining
    <3>1. readhead = Wrap(chead[d] + 0)
        BY DEF IInv, HeadsOK, InDequeue, Reading
    <3> QED BY <3>1, Numbers DEF Wrap, Slots
  <2>3. \A d \in Consumers : d # c /\ cpc[d] \in Draining => chead[d] # chead[c]
    BY <1>1, <1>2 DEF IInv, ExclusiveDescriptor, Drains
  <2>4. ASSUME NEW q \in Producers
        PROVE  /\ ppc'[q] # "idle" => \E r \in Requests : Admissible(r) /\ pcmd'[q] = Command(r)
               /\ ppc'[q] = "cas" /\ ppass'[q] = 0 => ring'[phead'[q]].task_id = 0
               /\ ppc'[q] \in {"task", "ready"} =>
                     /\ ring'[phead'[q]].addr = pcmd'[q].addr
                     /\ ring'[phead'[q]].len = pcmd'[q].len
               /\ ppc'[q] = "ready" => ring'[phead'[q]].task_id = pcmd'[q].task_id
    BY <1>1, <2>1, Numbers DEF IInv, CallsOK, Filling
  <2>5. ASSUME NEW d \in Consumers
        PROVE  /\ cpc'[d] = "cas" /\ cpass'[d] = 0 => ring'[chead'[d]].op = CMD_DONE
               /\ cpc'[d] = "clear" => cres'[d] = Content(chead[d])' /\ chead'[d] = chead[d]
    BY <1>1, <2>2, <2>3, Numbers DEF IInv, CallsOK, Content, Draining
  <2> QED BY <2>4, <2>5 DEF CallsOK, Content
<1>8. ArcsOK'
  <2> SUFFICES ASSUME NEW s \in Slots
               PROVE  /\ Dist(s)' < ndone' =>
                           /\ ring'[s].op = CMD_DONE
                           /\ \A q \in Producers : ~Fills(q, s)'
                           /\ \A d \in Consumers : ~Drains(d, s)'
                      /\ ndone' <= Dist(s)' /\ Dist(s)' < npend' =>
                           /\ \/ ring'[s].op = CMD_READY /\ \A q \in Producers : ~Fills(q, s)'
                              \/ ring'[s].op = CMD_NONE /\ \E q \in Producers : Fills(q, s)'
                           /\ \A d \in Consumers : ~Drains(d, s)'
                      /\ npend' <= Dist(s)' =>
                           /\ \/ ring'[s].op = CMD_NONE /\ ring'[s].task_id = 0
                                 /\ \A d \in Consumers : ~Drains(d, s)'
                              \/ ring'[s].op = CMD_DONE /\ \E d \in Consumers : Drains(d, s)'
                           /\ \A q \in Producers : ~Fills(q, s)'
    BY DEF ArcsOK
  <2>1. Dist(s)' = Dist(s)
    BY <1>1 DEF Dist
  <2>2. CASE s = chead[c]
    <3>1. npend <= Dist(s)
        BY <1>2, <2>2, Numbers, DistFacts DEF IInv, ArcsOK
    <3> QED BY <1>1, <1>3, <1>4, <1>5, <2>1, <2>2, <3>1, Numbers, DistFacts
  <2>3. CASE s # chead[c]
    BY <1>1, <1>3, <1>4, <2>1, <2>3 DEF IInv, ArcsOK
  <2> QED BY <2>2, <2>3
<1>9. ExclusiveDescriptor'
  <2> SUFFICES ASSUME NEW s \in Slots
               PROVE  /\ \A q, r \in Producers : Fills(q, s)' /\ Fills(r, s)' => q = r
                      /\ \A d, e \in Consumers : Drains(d, s)' /\ Drains(e, s)' => d = e
                      /\ \A q \in Producers, d \in Consumers : ~(Fills(q, s)' /\ Drains(d, s)')
                      /\ \A q \in Producers : Fills(q, s)' => ring'[s].op = CMD_NONE
    BY DEF ExclusiveDescriptor
  <2> QED BY <1>1, <1>3, <1>4, <1>5 DEF IInv, ExclusiveDescriptor
<1>10. PublishedIsComplete'
    BY <1>1 DEF IInv, PublishedIsComplete, Content
<1> QED BY <1>6, <1>7, <1>8, <1>9, <1>10 DEF Goal

-----------------------------------------------------------------------------
LEMMA InvInit == Init => IInv
<1> SUFFICES ASSUME Init PROVE IInv
    OBVIOUS
<1>1. TypeOK
    BY TypeInit
<1>2. /\ \A p \in Producers : ~InEnqueue(p) /\ \A s \in Slots : ~Fills(p, s)
      /\ \A c \in Consumers : ~InDequeue(c) /\ \A s \in Slots : ~Drains(c, s)
    BY DEF Init, InEnqueue, InDequeue, Fills, Drains, Reading, Filling, Draining
<1>3. HeadsOK
    BY <1>2, SlotFacts DEF Init, HeadsOK, Wrap, Slots
<1>4. CallsOK
    BY DEF Init, CallsOK
<1>5. ArcsOK
  <2>1. \A s \in Slots : ring[s].op = CMD_NONE /\ ring[s].task_id = 0
    BY DEF Init, Cleared
  <2>2. \A s \in Slots : Dist(s) \in Int /\ 0 <= Dist(s)
    BY <1>1, DistFacts DEF TypeOK
  <2>3. npend = 0 /\ ndone = 0
    BY DEF Init
  <2> QED BY <1>2, <2>1, <2>2, <2>3 DEF ArcsOK
<1>6. ExclusiveDescriptor
    BY <1>2 DEF ExclusiveDescriptor
<1>7. PublishedIsComplete
    BY DEF Init, PublishedIsComplete, Cleared
<1>8. Prompt
    BY <1>2 DEF Prompt
<1> QED BY <1>1, <1>3, <1>4, <1>5, <1>6, <1>7, <1>8 DEF IInv

LEMMA InvStep == IInv /\ [Next]_vars /\ Prompt' => IInv'
<1> SUFFICES ASSUME IInv, [Next]_vars, Prompt' PROVE IInv'
    OBVIOUS
<1>1. TypeOK'
    BY TypeStep DEF IInv
<1>2. Goal'
  <2>1. ASSUME NEW p \in Producers, NEW r \in Requests, EnqueueCall(p, r) PROVE Goal'
    BY <2>1, EnqueueQuiet
  <2>2. ASSUME NEW p \in Producers, EnqueueStep(p) PROVE Goal'
    BY <2>2, EnqueueQuiet, EnqueueClaims, EnqueueWrites, EnqueuePublishes DEF EnqueueStep
  <2>3. CASE FpgaComplete
    BY <2>3, FpgaCompletes
  <2>4. ASSUME NEW c \in Consumers, DequeueCall(c) PROVE Goal'
    BY <2>4, DequeueQuiet
  <2>5. ASSUME NEW c \in Consumers, DequeueStep(c) PROVE Goal'
    BY <2>5, DequeueQuiet, DequeueClaims, DequeueReleases DEF DequeueStep
  <2>6. CASE UNCHANGED vars
    <3>1. \A p \in Producers, s \in Slots : Fills(p, s)' <=> Fills(p, s)
        BY <2>6 DEF vars, enq, Fills
    <3>2. \A c \in Consumers, s \in Slots : Drains(c, s)' <=> Drains(c, s)
        BY <2>6 DEF vars, deq, Drains
    <3>3. ArcsOK' /\ ExclusiveDescriptor' /\ PublishedIsComplete'
        BY <2>6, <3>1, <3>2, QuietStep DEF vars
    <3>4. HeadsOK' /\ CallsOK'
        BY <2>6 DEF vars, shared, enq, deq, IInv, HeadsOK, CallsOK, InEnqueue, InDequeue,
                    Wrap, Content
    <3> QED BY <3>3, <3>4 DEF Goal
  <2> QED BY <2>1, <2>2, <2>3, <2>4, <2>5, <2>6, NextCases
<1> QED BY <1>1, <1>2 DEF IInv, Goal

\* Unless a call is lapped, no two calls, and no call and the FPGA, work on
\* one descriptor (__fpga_enqueue, fpga_dequeue).
THEOREM Exclusive == Spec /\ []Prompt => []ExclusiveDescriptor
<1>1. IInv => ExclusiveDescriptor
    BY DEF IInv
<1> QED BY <1>1, InvInit, InvStep, PTL DEF Spec

\* Unless a call is lapped, the FPGA never sees a half-written or mixed
\* descriptor (the stores and rte_wmb() of __fpga_enqueue).
THEOREM Complete == Spec /\ []Prompt => []PublishedIsComplete
<1>1. IInv => PublishedIsComplete
    BY DEF IInv
<1> QED BY <1>1, InvInit, InvStep, PTL DEF Spec

-----------------------------------------------------------------------------
(***************************************************************************)
(* The command ring implements the FIFO that libdma.h promises, for every  *)
(* ring size and every set of callers, unless a call is lapped.            *)
(***************************************************************************)

\* What a descriptor stands for.
CommandAtOK ==
    \A s \in Slots :
        /\ \A p \in Producers : Fills(p, s) => CommandAt(s) = pcmd[p]
        /\ (\A p \in Producers : ~Fills(p, s)) => CommandAt(s) = Content(s)

LEMMA CommandAtFacts == IInv => CommandAtOK
<1> SUFFICES ASSUME IInv, NEW s \in Slots
             PROVE  /\ \A p \in Producers : Fills(p, s) => CommandAt(s) = pcmd[p]
                    /\ (\A p \in Producers : ~Fills(p, s)) => CommandAt(s) = Content(s)
    BY DEF CommandAtOK
<1>1. ASSUME NEW p \in Producers, Fills(p, s) PROVE CommandAt(s) = pcmd[p]
  <2> DEFINE q == CHOOSE q \in Producers : Fills(q, s)
  <2>1. q \in Producers /\ Fills(q, s)
    BY <1>1
  <2>2. q = p
    BY <1>1, <2>1 DEF IInv, ExclusiveDescriptor
  <2> QED BY <1>1, <2>2 DEF CommandAt
<1>2. (\A p \in Producers : ~Fills(p, s)) => CommandAt(s) = Content(s)
    BY DEF CommandAt
<1> QED BY <1>1, <1>2

\* The commands between readhead and writehead.
PendingOK ==
    /\ \A k \in 1 .. npend : Wrap(readhead + (k - 1)) \in Slots
                             /\ Dist(Wrap(readhead + (k - 1))) = k - 1
    /\ \A k \in 1 .. npend : CommandAt(Wrap(readhead + (k - 1))) \in Commands
    /\ Pending \in Seq(Commands)
    /\ Len(Pending) = npend
    /\ npend \in Nat

LEMMA PendingFacts == IInv => PendingOK
<1> SUFFICES ASSUME IInv PROVE PendingOK
    OBVIOUS
<1>1. npend \in Nat
    BY Numbers
<1>2. ASSUME NEW k \in 1 .. npend
      PROVE  /\ Wrap(readhead + (k - 1)) \in Slots
             /\ Dist(Wrap(readhead + (k - 1))) = k - 1
             /\ CommandAt(Wrap(readhead + (k - 1))) \in Commands
  <2>1. Wrap(readhead + (k - 1)) \in Slots /\ Dist(Wrap(readhead + (k - 1))) = k - 1
    <3>1. k - 1 \in Int /\ 0 <= k - 1 /\ k - 1 < N
        BY Numbers
    <3> QED BY <3>1, Numbers, WrapFacts, DistFacts
  <2> DEFINE s == Wrap(readhead + (k - 1))
  <2>2. CASE \E p \in Producers : Fills(p, s)
    BY <2>1, <2>2, CommandAtFacts, CommandType DEF CommandAtOK, IInv, CallsOK, Fills, Filling
  <2>3. CASE \A p \in Producers : ~Fills(p, s)
    <3>1. ring[s].op # CMD_NONE
        BY <2>1, <2>3, Numbers DEF IInv, ArcsOK, CMD_NONE, CMD_READY, CMD_DONE
    <3> QED BY <2>1, <2>3, <3>1, CommandAtFacts, CommandType DEF CommandAtOK, IInv, PublishedIsComplete
  <2> QED BY <2>1, <2>2, <2>3
<1>3. Pending \in Seq(Commands) /\ Len(Pending) = npend
    BY <1>1, <1>2 DEF Pending
<1> QED BY <1>1, <1>2, <1>3 DEF PendingOK

\* The result a call holds is a command.
OutOK ==
    \A c \in Consumers :
        /\ cpc[c] \in Draining => /\ Out[c] = Content(chead[c])
                                  /\ Out[c] \in Commands
                                  /\ chead[c] \in Slots
                                  /\ ring[chead[c]].op = CMD_DONE
        /\ cpc[c] \notin Draining => Out[c] = NoCommand

LEMMA OutFacts == IInv => OutOK
<1> SUFFICES ASSUME IInv, NEW c \in Consumers
             PROVE  /\ cpc[c] \in Draining => /\ Out[c] = Content(chead[c])
                                              /\ Out[c] \in Commands
                                              /\ chead[c] \in Slots
                                              /\ ring[chead[c]].op = CMD_DONE
                    /\ cpc[c] \notin Draining => Out[c] = NoCommand
    BY DEF OutOK
<1>1. ASSUME cpc[c] \in Draining
      PROVE  /\ Out[c] = Content(chead[c])
             /\ chead[c] \in Slots
             /\ ring[chead[c]].op = CMD_DONE
             /\ Content(chead[c]) \in Commands
  <2>1. Drains(c, chead[c]) /\ chead[c] \in Slots
    BY <1>1, Numbers DEF Drains
  <2>2. ring[chead[c]].op = CMD_DONE
    BY <2>1, Numbers, DistFacts DEF IInv, ArcsOK
  <2>3. Content(chead[c]) \in Commands
    BY <2>1, <2>2, CommandType DEF IInv, PublishedIsComplete, CMD_NONE, CMD_DONE
  <2>4. Out[c] = Content(chead[c])
    BY <1>1 DEF Out, Draining, IInv, CallsOK
  <2> QED BY <2>1, <2>2, <2>3, <2>4
<1>2. cpc[c] \notin Draining => Out[c] = NoCommand
    BY DEF Out, Draining
<1> QED BY <1>1, <1>2

\* The same facts of the state after a step.
LEMMA OutPrime == IInv' => OutOK'
BY OutFacts, PTL

LEMMA PendingPrime == IInv' => PendingOK'
BY PendingFacts, PTL

LEMMA CommandAtPrime == IInv' => CommandAtOK'
BY CommandAtFacts, PTL

\* Two states with the same readhead, the same number of pending commands and
\* the same command in each descriptor have the same pending commands.
LEMMA SamePending ==
    ASSUME IInv, IInv', readhead' = readhead, npend' = npend,
           \A s \in Slots : Dist(s) < npend => CommandAt(s)' = CommandAt(s)
    PROVE  Pending' = Pending
<1>1. \A k \in 1 .. npend : CommandAt(Wrap(readhead + (k - 1)))' = CommandAt(Wrap(readhead + (k - 1)))
  <2> SUFFICES ASSUME NEW k \in 1 .. npend
               PROVE  CommandAt(Wrap(readhead + (k - 1)))' = CommandAt(Wrap(readhead + (k - 1)))
    OBVIOUS
  <2> DEFINE s == Wrap(readhead + (k - 1))
  <2>1. s \in Slots /\ Dist(s) < npend
    BY PendingFacts, Numbers DEF PendingOK
  <2>2. s' = s
    BY DEF Wrap
  <2> QED BY <2>1, <2>2
<1> QED BY <1>1 DEF Pending

\* Likewise for the results that the calls hold.
LEMMA SameOut ==
    ASSUME IInv, IInv',
           \A c \in Consumers : (cpc'[c] \in Draining) <=> (cpc[c] \in Draining),
           \A c \in Consumers : cpc[c] \in Draining =>
               /\ chead'[c] = chead[c]
               /\ Content(chead[c])' = Content(chead[c])
    PROVE  Out' = Out
<1>1. ASSUME NEW c \in Consumers PROVE Out'[c] = Out[c]
  <2>1. CASE cpc[c] \in Draining
    <3>1. Out[c] = Content(chead[c])
        BY <2>1, OutFacts DEF OutOK
    <3>2. Out'[c] = Content(chead[c])'
        BY <2>1, OutPrime DEF OutOK
    <3> QED BY <2>1, <3>1, <3>2 DEF Content
  <2>2. CASE cpc[c] \notin Draining
    BY <2>2, OutFacts, OutPrime DEF OutOK
  <2> QED BY <2>1, <2>2
<1> QED BY <1>1 DEF Out

-----------------------------------------------------------------------------
(***************************************************************************)
(* One lemma per kind of step: which step of the FIFO it is.               *)
(***************************************************************************)

\* The steps that are none: no head moves and nothing is released.
LEMMA StutterSim ==
    ASSUME IInv, IInv', UNCHANGED <<readhead, npend, ndone>>,
           \A s \in Slots, p \in Producers : Fills(p, s) =>
               \/ Fills(p, s)' /\ pcmd'[p] = pcmd[p]
               \/ (\A q \in Producers : ~Fills(q, s)') /\ Content(s)' = pcmd[p],
           \A s \in Slots : (\A p \in Producers : ~Fills(p, s)) =>
               (\A p \in Producers : ~Fills(p, s)') /\ Content(s)' = Content(s),
           \A c \in Consumers : (cpc'[c] \in Draining) <=> (cpc[c] \in Draining),
           \A c \in Consumers : cpc[c] \in Draining => chead'[c] = chead[c]
    PROVE  UNCHANGED Fifo!vars
<1>1. \A s \in Slots : CommandAt(s)' = CommandAt(s)
    BY CommandAtFacts, CommandAtPrime DEF CommandAtOK
<1>2. Pending' = Pending
    BY <1>1, SamePending
<1>3. \A c \in Consumers : cpc[c] \in Draining => Content(chead[c])' = Content(chead[c])
  <2> SUFFICES ASSUME NEW c \in Consumers, cpc[c] \in Draining
               PROVE  Content(chead[c])' = Content(chead[c])
    OBVIOUS
  <2>1. PICK s \in Slots : s = chead[c]
    BY Numbers
  <2>2. \A p \in Producers : ~Fills(p, s)
    BY <2>1 DEF IInv, ExclusiveDescriptor, Drains
  <2>3. Content(s)' = Content(s)
    BY <2>2
  <2> QED BY <2>1, <2>3 DEF Content
<1>4. Out' = Out
    BY <1>3, SameOut
<1> QED BY <1>2, <1>4 DEF Fifo!vars

LEMMA EnqueueQuietSim ==
    ASSUME IInv, IInv', NEW p \in Producers,
           \/ \E r \in Requests : EnqueueCall(p, r)
           \/ EnqueueReadHead(p)
           \/ EnqueueFull(p)
           \/ EnqueueCheck(p)
           \/ EnqueueRetry(p)
    PROVE  UNCHANGED Fifo!vars
<1>1. /\ UNCHANGED <<ring, readhead, npend, ndone, cpc, chead, cres>>
      /\ \A q \in Producers : q # p => /\ ppc'[q] = ppc[q]
                                       /\ phead'[q] = phead[q]
                                       /\ pcmd'[q] = pcmd[q]
      /\ ppc[p] \notin Filling
      /\ ppc'[p] \notin Filling
    BY DEF EnqueueCall, EnqueueReadHead, EnqueueFull, EnqueueReturn, EnqueueCheck,
           EnqueueRetry, shared, deq, Filling, IInv, TypeOK
<1>2. \A s \in Slots, q \in Producers : Fills(q, s) => Fills(q, s)' /\ pcmd'[q] = pcmd[q]
    BY <1>1 DEF Fills
<1>3. \A s \in Slots : (\A q \in Producers : ~Fills(q, s)) =>
          (\A q \in Producers : ~Fills(q, s)') /\ Content(s)' = Content(s)
    BY <1>1 DEF Fills, Content
<1> QED BY <1>1, <1>2, <1>3, StutterSim

LEMMA EnqueueWritesSim ==
    ASSUME IInv, IInv', NEW p \in Producers, EnqueueFill(p) \/ EnqueueTask(p)
    PROVE  UNCHANGED Fifo!vars
<1>1. /\ UNCHANGED <<readhead, npend, ndone, phead, pcmd, cpc, chead, cres>>
      /\ ppc[p] \in Filling /\ ppc'[p] \in Filling
      /\ \A q \in Producers : q # p => ppc'[q] = ppc[q]
      /\ \A s \in Slots : s # phead[p] => ring'[s] = ring[s]
  <2>1. CASE EnqueueFill(p)
    BY <2>1 DEF EnqueueFill, deq, IInv, TypeOK, Filling
  <2>2. CASE EnqueueTask(p)
    BY <2>2 DEF EnqueueTask, deq, IInv, TypeOK, Filling
  <2> QED BY <2>1, <2>2
<1>2. \A s \in Slots, q \in Producers : Fills(q, s) => Fills(q, s)' /\ pcmd'[q] = pcmd[q]
    BY <1>1 DEF Fills
<1>3. \A s \in Slots : (\A q \in Producers : ~Fills(q, s)) =>
          (\A q \in Producers : ~Fills(q, s)') /\ Content(s)' = Content(s)
    BY <1>1 DEF Fills, Content
<1> QED BY <1>1, <1>2, <1>3, StutterSim

LEMMA EnqueuePublishesSim ==
    ASSUME IInv, IInv', NEW p \in Producers, EnqueueReady(p)
    PROVE  UNCHANGED Fifo!vars
<1>1. /\ UNCHANGED <<readhead, npend, ndone, cpc, chead, cres>>
      /\ ppc[p] = "ready" /\ ppc'[p] = "idle"
      /\ \A q \in Producers : q # p => /\ ppc'[q] = ppc[q]
                                       /\ phead'[q] = phead[q]
                                       /\ pcmd'[q] = pcmd[q]
      /\ \A s \in Slots : Content(s)' = Content(s)
      /\ phead[p] \in Slots
    BY DEF EnqueueReady, EnqueueReturn, deq, IInv, TypeOK, Content
<1>2. Fills(p, phead[p])
    BY <1>1 DEF Fills, Filling
<1>3. \A q \in Producers, s \in Slots : Fills(q, s)' <=> Fills(q, s) /\ s # phead[p]
    BY <1>1, <1>2 DEF Fills, Filling, IInv, ExclusiveDescriptor
<1>4. Content(phead[p]) = pcmd[p]
    BY <1>1, CommandType DEF Content, IInv, CallsOK, Command
<1>5. \A s \in Slots, q \in Producers : Fills(q, s) =>
          \/ Fills(q, s)' /\ pcmd'[q] = pcmd[q]
          \/ (\A r \in Producers : ~Fills(r, s)') /\ Content(s)' = pcmd[q]
  <2> SUFFICES ASSUME NEW s \in Slots, NEW q \in Producers, Fills(q, s)
               PROVE  \/ Fills(q, s)' /\ pcmd'[q] = pcmd[q]
                      \/ (\A r \in Producers : ~Fills(r, s)') /\ Content(s)' = pcmd[q]
    OBVIOUS
  <2>1. CASE s = phead[p]
    <3>1. q = p
        BY <1>2, <2>1 DEF IInv, ExclusiveDescriptor
    <3> QED BY <1>1, <1>3, <1>4, <2>1, <3>1
  <2>2. CASE s # phead[p]
    BY <1>1, <1>2, <1>3, <2>2 DEF Fills
  <2> QED BY <2>1, <2>2
<1>6. \A s \in Slots : (\A q \in Producers : ~Fills(q, s)) =>
          (\A q \in Producers : ~Fills(q, s)') /\ Content(s)' = Content(s)
    BY <1>1, <1>3
<1> QED BY <1>1, <1>5, <1>6, StutterSim

LEMMA DequeueQuietSim ==
    ASSUME IInv, IInv', NEW c \in Consumers,
           \/ DequeueCall(c)
           \/ DequeueReadHead(c)
           \/ DequeueWait(c)
           \/ DequeueCheck(c)
           \/ DequeueRetry(c)
           \/ DequeueCopy(c)
    PROVE  UNCHANGED Fifo!vars
<1>1. /\ UNCHANGED <<ring, readhead, npend, ndone, ppc, phead, pcmd>>
      /\ \A d \in Consumers : d # c => cpc'[d] = cpc[d] /\ chead'[d] = chead[d]
      /\ \/ cpc[c] \notin Draining /\ cpc'[c] \notin Draining
         \/ cpc[c] \in Draining /\ cpc'[c] \in Draining /\ chead'[c] = chead[c]
    BY DEF DequeueCall, DequeueReadHead, DequeueWait, DequeueLeave, DequeueCheck,
           DequeueRetry, DequeueCopy, shared, enq, Draining, IInv, TypeOK
<1>2. \A s \in Slots, q \in Producers : Fills(q, s) => Fills(q, s)' /\ pcmd'[q] = pcmd[q]
    BY <1>1 DEF Fills
<1>3. \A s \in Slots : (\A q \in Producers : ~Fills(q, s)) =>
          (\A q \in Producers : ~Fills(q, s)') /\ Content(s)' = Content(s)
    BY <1>1 DEF Fills, Content
<1> QED BY <1>1, <1>2, <1>3, StutterSim

\* A successful compare-and-set of fpga_enqueue() accepts its command.
LEMMA EnqueueClaimsSim ==
    ASSUME IInv, IInv', NEW p \in Producers, EnqueueClaim(p)
    PROVE  Fifo!Accept(pcmd[p])
<1>1. /\ UNCHANGED <<ring, readhead, ndone, phead, pcmd, cpc, chead, cres>>
      /\ writehead = phead[p]
      /\ npend' = npend + 1
      /\ ppc[p] = "cas" /\ ppc'[p] = "fill"
      /\ \A q \in Producers : q # p => ppc'[q] = ppc[q]
    BY DEF EnqueueClaim, deq, IInv, TypeOK
<1>2. \A q \in Producers, s \in Slots : Fills(q, s)' <=> Fills(q, s) \/ (q = p /\ s = writehead)
    BY <1>1 DEF Fills, Filling
<1>3. npend < N /\ npend \in Nat /\ Dist(writehead) = npend
    BY EnqueueClaimFacts, Numbers
<1>4. Out' = Out
  <2>1. \A s \in Slots : Content(s)' = Content(s)
    BY <1>1 DEF Content
  <2> QED BY <1>1, <2>1, SameOut DEF Content
<1>5. \A s \in Slots : s # writehead => CommandAt(s)' = CommandAt(s)
  <2> SUFFICES ASSUME NEW s \in Slots, s # writehead PROVE CommandAt(s)' = CommandAt(s)
    OBVIOUS
  <2>1. CASE \E q \in Producers : Fills(q, s)
    <3>1. PICK q \in Producers : Fills(q, s)
        BY <2>1
    <3> QED BY <3>1, <1>1, <1>2, CommandAtFacts, CommandAtPrime DEF CommandAtOK
  <2>2. CASE \A q \in Producers : ~Fills(q, s)
    BY <2>2, <1>1, <1>2, CommandAtFacts, CommandAtPrime DEF CommandAtOK, Content
  <2> QED BY <2>1, <2>2
<1>6. \A s \in Slots : s = writehead => CommandAt(s)' = pcmd[p]
  <2> SUFFICES ASSUME NEW s \in Slots, s = writehead PROVE CommandAt(s)' = pcmd[p]
    OBVIOUS
  <2>1. Fills(p, s)'
    BY <1>2
  <2> QED BY <1>1, <2>1, CommandAtPrime DEF CommandAtOK
<1>7. Pending' = Append(Pending, pcmd[p])
  <2>1. Pending \in Seq(Commands) /\ Len(Pending) = npend
    BY PendingFacts DEF PendingOK
  <2>2. Pending' \in Seq(Commands) /\ Len(Pending') = npend + 1
    BY <1>1, PendingPrime DEF PendingOK
  <2>3. pcmd[p] \in Commands
    BY <1>1, CommandType DEF IInv, CallsOK
  <2>4. ASSUME NEW k \in 1 .. npend PROVE Pending'[k] = Pending[k]
    <3> DEFINE t == Wrap(readhead + (k - 1))
    <3>1. t \in Slots /\ Dist(t) = k - 1
        BY PendingFacts DEF PendingOK
    <3>2. t # writehead
        BY <1>3, <3>1
    <3>3. Pending[k] = CommandAt(t)
        BY DEF Pending
    <3>4. PICK s \in Slots : s = t
        BY <3>1
    <3>5. Pending'[k] = CommandAt(s)'
        BY <1>1, <1>3, <3>4 DEF Pending, Wrap
    <3> QED BY <1>5, <3>2, <3>3, <3>4, <3>5
  <2>5. Pending'[npend + 1] = pcmd[p]
    <3>1. writehead = Wrap(readhead + npend) /\ writehead \in Slots
        BY Numbers DEF IInv, HeadsOK
    <3>2. PICK s \in Slots : s = writehead
        BY <3>1
    <3>3. Pending'[npend + 1] = CommandAt(s)'
      <4>1. (npend + 1) - 1 = npend /\ npend + 1 \in 1 .. npend'
        BY <1>1, <1>3
      <4> QED BY <4>1, <1>1, <3>1, <3>2 DEF Pending, Wrap
    <3> QED BY <1>6, <3>2, <3>3
  <2> QED BY <1>3, <2>1, <2>2, <2>3, <2>4, <2>5
<1>8. Len(Pending) < N
    BY <1>3, PendingFacts DEF PendingOK
<1> QED BY <1>1, <1>4, <1>7, <1>8 DEF Fifo!Accept

\* A completion by the FPGA.
LEMMA FpgaCompletesSim ==
    ASSUME IInv, IInv', FpgaComplete
    PROVE  Fifo!Complete
<1>1. /\ UNCHANGED <<readhead, npend, ppc, phead, pcmd, cpc, chead, cres>>
      /\ ndone' = ndone + 1
      /\ \A s \in Slots : Content(s)' = Content(s)
    BY DEF FpgaComplete, enq, deq, IInv, TypeOK, Content
<1>2. \A q \in Producers, s \in Slots : Fills(q, s)' <=> Fills(q, s)
    BY <1>1 DEF Fills
<1>3. \A s \in Slots : CommandAt(s)' = CommandAt(s)
    BY <1>1, <1>2, CommandAtFacts, CommandAtPrime DEF CommandAtOK
<1>4. Pending' = Pending
    BY <1>1, <1>3, SamePending
<1>5. \A c \in Consumers : Content(chead[c])' = Content(chead[c])
  <2> SUFFICES ASSUME NEW c \in Consumers PROVE Content(chead[c])' = Content(chead[c])
    OBVIOUS
  <2>1. PICK s \in Slots : s = chead[c]
    BY Numbers
  <2> QED BY <1>1, <2>1 DEF Content
<1>6. Out' = Out
    BY <1>1, <1>5, SameOut
<1>7. ndone < Len(Pending)
    BY FpgaFacts, PendingFacts DEF PendingOK
<1> QED BY <1>1, <1>4, <1>6, <1>7 DEF Fifo!Complete

\* A successful compare-and-set of fpga_dequeue() takes the oldest command.
LEMMA DequeueClaimsSim ==
    ASSUME IInv, IInv', NEW c \in Consumers, DequeueClaim(c)
    PROVE  Fifo!Take(c)
<1>1. /\ UNCHANGED <<ring, ppc, phead, pcmd, chead, cres>>
      /\ readhead = chead[c]
      /\ readhead' = NextHead(readhead)
      /\ npend' = npend - 1
      /\ ndone' = ndone - 1
      /\ cpc[c] = "cas" /\ cpc'[c] = "copy"
      /\ \A d \in Consumers : d # c => cpc'[d] = cpc[d]
    BY DEF DequeueClaim, enq, IInv, TypeOK
<1>2. ndone > 0 /\ ndone \in Int /\ npend > 0 /\ npend \in Nat /\ npend <= N
    BY DequeueClaimFacts, Numbers
<1>3. \A s \in Slots : Content(s)' = Content(s) /\ CommandAt(s)' = CommandAt(s)
  <2>1. \A s \in Slots : Content(s)' = Content(s)
    BY <1>1 DEF Content
  <2>2. \A q \in Producers, s \in Slots : Fills(q, s)' <=> Fills(q, s)
    BY <1>1 DEF Fills
  <2> QED BY <1>1, <2>1, <2>2, CommandAtFacts, CommandAtPrime DEF CommandAtOK
<1>4. Pending \in Seq(Commands) /\ Len(Pending) = npend
    BY PendingFacts DEF PendingOK
<1>5. Pending' \in Seq(Commands) /\ Len(Pending') = npend - 1
    BY <1>1, PendingPrime DEF PendingOK
<1>6. Pending' = Tail(Pending)
  <2>1. ASSUME NEW k \in 1 .. npend - 1 PROVE Pending'[k] = Pending[k + 1]
    <3>1. k + 1 \in 1 .. npend /\ k \in Int
        BY <1>2
    <3>2. Wrap(readhead + ((k + 1) - 1)) \in Slots
        BY <3>1, PendingFacts DEF PendingOK
    <3>3. PICK s \in Slots : s = Wrap(readhead + ((k + 1) - 1))
        BY <3>2
    <3>4. Pending[k + 1] = CommandAt(s)
        BY <3>1, <3>3 DEF Pending
    <3>5. s = Wrap(readhead' + (k - 1))
        BY <1>1, <1>2, <3>3, Numbers DEF Wrap, NextHead, Slots
    <3>6. Pending'[k] = CommandAt(s)'
        BY <1>1, <3>5 DEF Pending, Wrap
    <3> QED BY <1>3, <3>4, <3>6
  <2> QED BY <1>2, <1>4, <1>5, <2>1
<1>7. Head(Pending) = Content(readhead)
  <2>1. Head(Pending) = Pending[1]
    BY <1>2, <1>4
  <2>2. Pending[1] = CommandAt(readhead)
    <3>1. Wrap(readhead + (1 - 1)) = readhead /\ 1 \in 1 .. npend
        BY <1>2, Numbers DEF Wrap, Slots
    <3> QED BY <3>1 DEF Pending
  <2>3. \A q \in Producers : ~Fills(q, readhead)
    BY <1>2, Numbers, DequeueClaimFacts DEF IInv, ArcsOK
  <2> QED BY <2>1, <2>2, <2>3, CommandAtFacts, Numbers DEF CommandAtOK
<1>8. Out[c] = NoCommand
    BY <1>1, OutFacts DEF OutOK, Draining
<1>9. Out' = [Out EXCEPT ![c] = Head(Pending)]
  <2>1. ASSUME NEW d \in Consumers, d # c PROVE Out'[d] = Out[d]
    <3>1. CASE cpc[d] \in Draining
        BY <1>1, <2>1, <3>1, OutFacts, OutPrime DEF OutOK, Content
    <3>2. CASE cpc[d] \notin Draining
        BY <1>1, <2>1, <3>2, OutFacts, OutPrime DEF OutOK
    <3> QED BY <3>1, <3>2
  <2>2. Out'[c] = Head(Pending)
    BY <1>1, <1>7, OutPrime DEF OutOK, Content, Draining
  <2>3. \A d \in Consumers : Out'[d] = [Out EXCEPT ![c] = Head(Pending)][d]
    BY <2>1, <2>2 DEF Out
  <2> QED BY <2>3 DEF Out
<1> QED BY <1>1, <1>2, <1>6, <1>8, <1>9 DEF Fifo!Take

\* fpga_dequeue() returns the result it holds.
LEMMA DequeueReleasesSim ==
    ASSUME IInv, IInv', NEW c \in Consumers, DequeueClear(c)
    PROVE  Fifo!Return(c)
<1>1. /\ UNCHANGED <<readhead, npend, ndone, ppc, phead, pcmd>>
      /\ cpc[c] = "clear" /\ cpc'[c] = "idle"
      /\ \A d \in Consumers : d # c => cpc'[d] = cpc[d] /\ chead'[d] = chead[d]
      /\ \A s \in Slots : s # chead[c] => ring'[s] = ring[s]
      /\ chead[c] \in Slots
    BY DEF DequeueClear, DequeueLeave, enq, IInv, TypeOK
<1>2. Drains(c, chead[c])
    BY <1>1 DEF Drains, Draining
<1>3. \A s \in Slots : Dist(s) < npend => s # chead[c]
  <2> SUFFICES ASSUME NEW s \in Slots, Dist(s) < npend, s = chead[c] PROVE FALSE
    OBVIOUS
  <2>1. Drains(c, s)
    BY <1>2
  <2> QED BY <2>1, Numbers, DistFacts DEF IInv, ArcsOK
<1>4. Pending' = Pending
  <2>1. \A q \in Producers, s \in Slots : Fills(q, s)' <=> Fills(q, s)
    BY <1>1 DEF Fills
  <2>2. \A s \in Slots : Dist(s) < npend => CommandAt(s)' = CommandAt(s)
    BY <1>1, <1>3, <2>1, CommandAtFacts, CommandAtPrime DEF CommandAtOK, Content
  <2> QED BY <1>1, <2>2, SamePending
<1>5. Out[c] # NoCommand
    BY <1>1, OutFacts, CommandsType DEF OutOK, Draining
<1>6. Out' = [Out EXCEPT ![c] = NoCommand]
  <2>1. ASSUME NEW d \in Consumers, d # c PROVE Out'[d] = Out[d]
    <3>1. CASE cpc[d] \in Draining
      <4>1. chead[d] # chead[c] /\ chead[d] \in Slots
        BY <1>2, <2>1, <3>1, Numbers DEF IInv, ExclusiveDescriptor, Drains
      <4>2. ring'[chead'[d]] = ring[chead[d]] /\ cpc'[d] \in Draining
        BY <1>1, <2>1, <3>1, <4>1
      <4>3. Content(chead[d])' = Content(chead[d])
        BY <4>2 DEF Content
      <4>4. Out[d] = Content(chead[d])
        BY <3>1, OutFacts DEF OutOK
      <4>5. Out'[d] = Content(chead[d])'
        BY <4>2, OutPrime DEF OutOK
      <4> QED BY <4>3, <4>4, <4>5
    <3>2. CASE cpc[d] \notin Draining
        BY <1>1, <2>1, <3>2, OutFacts, OutPrime DEF OutOK
    <3> QED BY <3>1, <3>2
  <2>2. Out'[c] = NoCommand
    BY <1>1, OutPrime DEF OutOK, Draining
  <2>3. \A d \in Consumers : Out'[d] = [Out EXCEPT ![c] = NoCommand][d]
    BY <2>1, <2>2 DEF Out
  <2> QED BY <2>3 DEF Out
<1> QED BY <1>1, <1>4, <1>5, <1>6 DEF Fifo!Return

-----------------------------------------------------------------------------
LEMMA InitSim == Init => Fifo!Init
<1> SUFFICES ASSUME Init PROVE Fifo!Init
    OBVIOUS
<1>1. Pending = << >>
    BY DEF Init, Pending
<1>2. Out = [c \in Consumers |-> NoCommand]
    BY DEF Init, Out
<1> QED BY <1>1, <1>2 DEF Init, Fifo!Init

LEMMA StepSim == IInv /\ IInv' /\ [Next]_vars => [Fifo!Next]_(Fifo!vars)
<1> SUFFICES ASSUME IInv, IInv', [Next]_vars PROVE Fifo!Next \/ UNCHANGED Fifo!vars
    OBVIOUS
<1>1. ASSUME NEW p \in Producers, NEW r \in Requests, EnqueueCall(p, r)
      PROVE  UNCHANGED Fifo!vars
    BY <1>1, EnqueueQuietSim
<1>2. ASSUME NEW p \in Producers, EnqueueStep(p)
      PROVE  Fifo!Next \/ UNCHANGED Fifo!vars
  <2>1. CASE EnqueueClaim(p)
    <3>1. pcmd[p] \in Commands
        BY <2>1, CommandType DEF EnqueueClaim, IInv, CallsOK
    <3>2. Fifo!Accept(pcmd[p])
        BY <2>1, EnqueueClaimsSim
    <3> QED BY <3>1, <3>2 DEF Fifo!Next
  <2>2. CASE ~EnqueueClaim(p)
    BY <1>2, <2>2, EnqueueQuietSim, EnqueueWritesSim, EnqueuePublishesSim DEF EnqueueStep
  <2> QED BY <2>1, <2>2
<1>3. CASE FpgaComplete
    BY <1>3, FpgaCompletesSim DEF Fifo!Next
<1>4. ASSUME NEW c \in Consumers, DequeueCall(c)
      PROVE  UNCHANGED Fifo!vars
    BY <1>4, DequeueQuietSim
<1>5. ASSUME NEW c \in Consumers, DequeueStep(c)
      PROVE  Fifo!Next \/ UNCHANGED Fifo!vars
  <2>1. CASE DequeueClaim(c)
    BY <2>1, DequeueClaimsSim DEF Fifo!Next
  <2>2. CASE DequeueClear(c)
    BY <2>2, DequeueReleasesSim DEF Fifo!Next
  <2>3. CASE ~DequeueClaim(c) /\ ~DequeueClear(c)
    BY <1>5, <2>3, DequeueQuietSim DEF DequeueStep
  <2> QED BY <2>1, <2>2, <2>3
<1>6. CASE UNCHANGED vars
    BY <1>6 DEF vars, shared, enq, deq, Fifo!vars, Pending, Out, CommandAt, Fills, Content, Wrap
<1> QED BY <1>1, <1>2, <1>3, <1>4, <1>5, <1>6, NextCases

\* Unless a call is lapped, the ring is the FIFO of libdma.h: nothing is lost,
\* overwritten, duplicated or delivered out of order.
THEOREM RingIsFifo == PromptSpec => IsFifo
<1>1. [Next /\ Prompt']_vars /\ IInv => IInv'
  <2>1. CASE Next /\ Prompt'
    BY <2>1, InvStep
  <2>2. IInv /\ UNCHANGED vars => Prompt'
    BY DEF IInv, Prompt, InEnqueue, InDequeue, vars, enq, deq
  <2> QED BY <2>1, <2>2, InvStep
<1>2. IInv /\ IInv' /\ [Next /\ Prompt']_vars => [Fifo!Next]_(Fifo!vars)
    BY StepSim
<1> QED BY <1>1, <1>2, InvInit, InitSim, PTL DEF PromptSpec, IsFifo, Fifo!Spec
=============================================================================
