--------------------------- MODULE LiblldmaProofs ----------------------------
(***************************************************************************)
(* Proofs about the ownership of DMA channels in the driver, for any       *)
(* number of files, channels and connector ids, and about the library's    *)
(* descriptor tables on top of it, for any number of processes and         *)
(* descriptors as well, and careful users.                                 *)
(*                                                                         *)
(* The driver comes first.  For the library, where a call stands is what   *)
(* it has left to do (Stage), and that tells which entries of the table    *)
(* are about to be opened (P), lead to a file that has no channel yet (N), *)
(* to one that has its channel (O), or to one that is being given back and *)
(* may still have it (M).                                                  *)
(***************************************************************************)
EXTENDS Liblldma, TLAPS, NaturalsInduction, SequenceTheorems, WellFoundedInduction

-----------------------------------------------------------------------------
(***************************************************************************)
(* The driver: who owns a channel, and the channels as locks.              *)
(***************************************************************************)

\* A step of DisciplinedSpec is a step of one file, of one of thirteen kinds.
Allocate(f) ==
    /\ ~private[f].is_get_queue
    /\ \E ch \in Channels, k \in Kinds, c \in Connectors, h \in {"start", "refuse"} :
          Take(f, ch, k, c, h)
Bind(f) ==
    /\ ~private[f].is_get_queue
    /\ \E ch \in Channels, c \in Connectors : BindQueue(f, c, ch)
StopOwn(f) == private[f].is_get_queue /\ Ready(f) /\ Stop(f, private[f].chid)
StopOwnTimeout(f) ==
    private[f].is_get_queue /\ Ready(f) /\ StopTimeout(f, private[f].chid)

LEMMA StepCases ==
    ASSUME DisciplinedNext
    PROVE  \E g \in Files :
              \/ Open(g) \/ Allocate(g) \/ Bind(g) \/ StopOwn(g) \/ StopOwnTimeout(g)
              \/ CloseUnowned(g) \/ CloseOwner(g) \/ Start(g) \/ Put(g) \/ ReleasePut(g)
              \/ Refuse(g) \/ UndoStop(g) \/ UndoPut(g)
BY DEF DisciplinedNext, Allocate, Bind, StopOwn, StopOwnTimeout, AllocQueue,
       AllocRefused, Reserve, AllocConnection, FreeQueue, FreeConnection, MayFreeQueue,
       MayFreeConnection, Close, Continue, Kinds, QueueKinds

LEMMA Shapes ==
    /\ Unbound \in Private /\ Closed \in Private /\ Idle \in Halves
    /\ Unbound.open /\ ~Unbound.is_get_queue
    /\ ~Closed.open /\ ~Closed.is_get_queue
    /\ Idle.half = "idle"
    /\ \A ch \in Channels, k \in Kinds, b \in BOOLEAN :
          /\ Bound(ch, k, b) \in Private
          /\ Bound(ch, k, b).open
          /\ Bound(ch, k, b).chid = ch
          /\ Bound(ch, k, b).is_get_queue = b
BY DEF Unbound, Closed, Idle, Private, Halves, Bound, Kinds, QueueKinds

LEMMA InvInit == Init => ChannelInv
BY Shapes DEF Init, ChannelInv, TypeOK, HalvesOK, OneOwner, UsedIsOwned, ActiveIsOwned, Owns, Taking

LEMMA OpenInv ==
    ASSUME ChannelInv, NEW f \in Files, Open(f)
    PROVE  ChannelInv'
BY Shapes DEF ChannelInv, TypeOK, HalvesOK, OneOwner, UsedIsOwned, ActiveIsOwned, Owns, Taking, Open

LEMMA AllocateInv ==
    ASSUME ChannelInv, NEW f \in Files, Allocate(f)
    PROVE  ChannelInv'
<1>1. PICK ch \in Channels, k \in Kinds, c \in Connectors, h \in {"start", "refuse"} :
         Take(f, ch, k, c, h)
  BY DEF Allocate
<1>2. ~private[f].is_get_queue
  BY DEF Allocate
<1>. DEFINE n == [half |-> h, chid |-> ch, que_kind |-> k, connector |-> c]
<1>3. n \in Halves /\ n.half = h /\ n.chid = ch /\ n.que_kind = k
  BY DEF Halves, Taking, Kinds
<1>4. /\ half[f] = Idle /\ private[f].open /\ status[ch] = "free"
      /\ status' = [status EXCEPT ![ch] = "used"]
      /\ half' = [half EXCEPT ![f] = n]
      /\ UNCHANGED <<connector, active, private>>
  BY <1>1 DEF Take, Ready
<1>. HIDE DEF n
<1>5. TypeOK'
  BY <1>3, <1>4 DEF ChannelInv, TypeOK
<1>6. HalvesOK'
  BY <1>2, <1>3, <1>4, Shapes DEF ChannelInv, TypeOK, HalvesOK, Taking
<1>7. /\ \A g \in Files, d \in Channels : g # f => (Owns(g, d)' <=> Owns(g, d))
      /\ \A d \in Channels : Owns(f, d)' <=> d = ch
      /\ \A d \in Channels : ~Owns(f, d)
      /\ \A g \in Files : ~Owns(g, ch)
  BY <1>2, <1>3, <1>4, Shapes DEF ChannelInv, TypeOK, Owns, Taking, UsedIsOwned
<1>8. (OneOwner /\ UsedIsOwned)'
  BY <1>4, <1>7 DEF ChannelInv, TypeOK, OneOwner, UsedIsOwned
<1>9. ActiveIsOwned'
  BY <1>2, <1>3, <1>4, Shapes DEF ChannelInv, TypeOK, ActiveIsOwned
<1>. QED
  BY <1>5, <1>6, <1>8, <1>9 DEF ChannelInv

LEMMA BindInv ==
    ASSUME ChannelInv, NEW f \in Files, Bind(f)
    PROVE  ChannelInv'
<1>1. PICK ch \in Channels, c \in Connectors : BindQueue(f, c, ch)
  BY DEF Bind
<1>2. ~private[f].is_get_queue /\ private[f].is_get_queue \in BOOLEAN
  BY DEF Bind, ChannelInv, TypeOK, Private
<1>3. private' = [private EXCEPT ![f] = Bound(ch, "host", FALSE)]
  BY <1>1, <1>2 DEF BindQueue
<1>4. /\ half[f] = Idle
      /\ UNCHANGED <<status, connector, active, half>>
  BY <1>1 DEF BindQueue, Ready
<1>5. /\ Bound(ch, "host", FALSE) \in Private
      /\ Bound(ch, "host", FALSE).open
      /\ ~Bound(ch, "host", FALSE).is_get_queue
  BY Shapes DEF Kinds, QueueKinds
<1>. DEFINE b == Bound(ch, "host", FALSE)
<1>. HIDE DEF b
<1>6. TypeOK'
  BY <1>3, <1>4, <1>5 DEF b, ChannelInv, TypeOK
<1>7. HalvesOK'
  BY <1>3, <1>4, <1>5, Shapes DEF b, ChannelInv, TypeOK, HalvesOK
<1>8. \A g \in Files, d \in Channels : Owns(g, d)' <=> Owns(g, d)
  BY <1>2, <1>3, <1>4, <1>5 DEF b, ChannelInv, TypeOK, Owns, Taking
<1>9. (OneOwner /\ UsedIsOwned)'
  BY <1>4, <1>8 DEF ChannelInv, OneOwner, UsedIsOwned
<1>10. ActiveIsOwned'
  BY <1>2, <1>3, <1>4, <1>5 DEF b, ChannelInv, TypeOK, ActiveIsOwned
<1>. QED
  BY <1>6, <1>7, <1>9, <1>10 DEF ChannelInv

LEMMA StopInv ==
    ASSUME ChannelInv, NEW f \in Files, StopOwn(f)
    PROVE  ChannelInv'
<1>. DEFINE ch == private[f].chid
            h == [Idle EXCEPT !.half = "put", !.chid = ch]
<1>1. /\ private[f].is_get_queue /\ half[f] = Idle /\ private[f].open
      /\ active' = [active EXCEPT ![ch] = FALSE]
      /\ half' = [half EXCEPT ![f] = h]
      /\ UNCHANGED <<status, connector, private>>
  BY DEF StopOwn, Stop, Ready
<1>2. ch \in Channels
  BY <1>1 DEF ChannelInv, HalvesOK
<1>3. h \in Halves /\ h.half = "put" /\ h.chid = ch
  BY <1>2 DEF Halves, Idle
<1>. HIDE DEF h
<1>4. TypeOK'
  BY <1>1, <1>2, <1>3 DEF ChannelInv, TypeOK
<1>5. HalvesOK'
  BY <1>1, <1>2, <1>3, Shapes DEF ChannelInv, TypeOK, HalvesOK, Taking
<1>6. \A g \in Files, d \in Channels : Owns(g, d)' <=> Owns(g, d)
  BY <1>1, <1>2, <1>3, Shapes DEF ChannelInv, TypeOK, Owns, Taking
<1>7. (OneOwner /\ UsedIsOwned)'
  BY <1>1, <1>6 DEF ChannelInv, OneOwner, UsedIsOwned
<1>8. ActiveIsOwned'
  BY <1>1, <1>2, <1>3, Shapes DEF ChannelInv, TypeOK, ActiveIsOwned
<1>. QED
  BY <1>4, <1>5, <1>7, <1>8 DEF ChannelInv

LEMMA StopTimeoutInv ==
    ASSUME ChannelInv, NEW f \in Files, StopOwnTimeout(f)
    PROVE  ChannelInv'
BY Shapes DEF ChannelInv, TypeOK, HalvesOK, OneOwner, UsedIsOwned, ActiveIsOwned, Owns, Taking,
   StopOwnTimeout, StopTimeout, Ready

LEMMA CloseUnownedInv ==
    ASSUME ChannelInv, NEW f \in Files, CloseUnowned(f)
    PROVE  ChannelInv'
BY Shapes DEF ChannelInv, TypeOK, HalvesOK, OneOwner, UsedIsOwned, ActiveIsOwned, Owns, Taking,
   CloseUnowned, Ready

LEMMA CloseOwnerInv ==
    ASSUME ChannelInv, NEW f \in Files, CloseOwner(f)
    PROVE  ChannelInv'
<1>. DEFINE ch == private[f].chid
            h == [Idle EXCEPT !.half = "release", !.chid = ch]
<1>1. /\ private[f].is_get_queue /\ half[f] = Idle /\ private[f].open
      /\ active' = [active EXCEPT ![ch] = FALSE]
      /\ half' = [half EXCEPT ![f] = h]
      /\ UNCHANGED <<status, connector, private>>
  BY DEF CloseOwner, Stop, Ready
<1>2. ch \in Channels
  BY <1>1 DEF ChannelInv, HalvesOK
<1>3. h \in Halves /\ h.half = "release" /\ h.chid = ch
  BY <1>2 DEF Halves, Idle
<1>. HIDE DEF h
<1>4. TypeOK'
  BY <1>1, <1>2, <1>3 DEF ChannelInv, TypeOK
<1>5. HalvesOK'
  BY <1>1, <1>2, <1>3, Shapes DEF ChannelInv, TypeOK, HalvesOK, Taking
<1>6. \A g \in Files, d \in Channels : Owns(g, d)' <=> Owns(g, d)
  BY <1>1, <1>2, <1>3, Shapes DEF ChannelInv, TypeOK, Owns, Taking
<1>7. (OneOwner /\ UsedIsOwned)'
  BY <1>1, <1>6 DEF ChannelInv, OneOwner, UsedIsOwned
<1>8. ActiveIsOwned'
  BY <1>1, <1>2, <1>3, Shapes DEF ChannelInv, TypeOK, ActiveIsOwned
<1>. QED
  BY <1>4, <1>5, <1>7, <1>8 DEF ChannelInv

LEMMA StartInv ==
    ASSUME ChannelInv, NEW f \in Files, Start(f)
    PROVE  ChannelInv'
<1>. DEFINE ch == half[f].chid
            b == Bound(ch, half[f].que_kind, TRUE)
<1>1. /\ half[f].half = "start"
      /\ active' = [active EXCEPT ![ch] = TRUE]
      /\ connector' = [connector EXCEPT ![ch] = half[f].connector]
      /\ private' = [private EXCEPT ![f] = b]
      /\ half' = [half EXCEPT ![f] = Idle]
      /\ UNCHANGED status
  BY DEF Start
<1>2. /\ ch \in Channels /\ half[f].que_kind \in Kinds
      /\ ~private[f].is_get_queue
      /\ half[f].connector \in Connectors \cup {NoConnector}
  BY <1>1, Shapes DEF ChannelInv, TypeOK, HalvesOK, Halves
<1>3. b \in Private /\ b.open /\ b.chid = ch /\ b.is_get_queue
  BY <1>2, Shapes
<1>. HIDE DEF b
<1>4. TypeOK'
  BY <1>1, <1>2, <1>3, Shapes DEF ChannelInv, TypeOK
<1>5. \A g \in Files, d \in Channels : Owns(g, d)' <=> Owns(g, d)
  BY <1>1, <1>2, <1>3, Shapes DEF ChannelInv, TypeOK, Owns, Taking
<1>6. \A g \in Files : half[g].half \in {"put", "release", "unget"} => half[g].chid # ch
  BY <1>1, <1>2 DEF ChannelInv, HalvesOK, OneOwner, Owns, Taking
<1>7. HalvesOK'
  BY <1>1, <1>2, <1>3, <1>6, Shapes DEF ChannelInv, TypeOK, HalvesOK, Taking
<1>8. (OneOwner /\ UsedIsOwned)'
  BY <1>1, <1>5 DEF ChannelInv, OneOwner, UsedIsOwned
<1>9. ActiveIsOwned'
  BY <1>1, <1>2, <1>3 DEF ChannelInv, TypeOK, ActiveIsOwned
<1>. QED
  BY <1>4, <1>7, <1>8, <1>9 DEF ChannelInv

LEMMA RefuseInv ==
    ASSUME ChannelInv, NEW f \in Files, Refuse(f)
    PROVE  ChannelInv'
<1>. DEFINE ch == half[f].chid
            h == [half[f] EXCEPT !.half = "undo"]
<1>1. /\ half[f].half = "refuse"
      /\ active' = [active EXCEPT ![ch] = TRUE]
      /\ connector' = [connector EXCEPT ![ch] = half[f].connector]
      /\ half' = [half EXCEPT ![f] = h]
      /\ UNCHANGED <<status, private>>
  BY DEF Refuse
<1>2. /\ ch \in Channels /\ half[f].que_kind \in Kinds
      /\ ~private[f].is_get_queue /\ private[f].open
      /\ half[f].connector \in Connectors \cup {NoConnector}
  BY <1>1, Shapes DEF ChannelInv, TypeOK, HalvesOK, Halves, Taking
<1>3. h \in Halves /\ h.half = "undo" /\ h.chid = ch /\ h.que_kind \in Kinds /\ h # Idle
  BY <1>1, <1>2, Shapes DEF ChannelInv, TypeOK, Halves, Taking, Idle
<1>. HIDE DEF h
<1>4. TypeOK'
  BY <1>1, <1>2, <1>3 DEF ChannelInv, TypeOK
<1>5. \A g \in Files, d \in Channels : Owns(g, d)' <=> Owns(g, d)
  BY <1>1, <1>2, <1>3 DEF ChannelInv, TypeOK, Owns, Taking
<1>6. \A g \in Files : half[g].half \in {"put", "release", "unget"} => half[g].chid # ch
  BY <1>1, <1>2 DEF ChannelInv, HalvesOK, OneOwner, Owns, Taking
<1>7. HalvesOK'
  BY <1>1, <1>2, <1>3, <1>6 DEF ChannelInv, TypeOK, HalvesOK, Taking
<1>8. (OneOwner /\ UsedIsOwned)'
  BY <1>1, <1>5 DEF ChannelInv, OneOwner, UsedIsOwned
<1>9. ActiveIsOwned'
  BY <1>1, <1>2, <1>3 DEF ChannelInv, TypeOK, ActiveIsOwned
<1>. QED
  BY <1>4, <1>7, <1>8, <1>9 DEF ChannelInv

LEMMA UndoStopInv ==
    ASSUME ChannelInv, NEW f \in Files, UndoStop(f)
    PROVE  ChannelInv'
<1>. DEFINE ch == half[f].chid
            h == [half[f] EXCEPT !.half = "unget"]
<1>1. /\ half[f].half = "undo"
      /\ active' = [active EXCEPT ![ch] = FALSE]
      /\ half' = [half EXCEPT ![f] = h]
      /\ UNCHANGED <<status, connector, private>>
  BY DEF UndoStop
<1>2. /\ ch \in Channels /\ half[f].que_kind \in Kinds
      /\ ~private[f].is_get_queue /\ private[f].open
  BY <1>1, Shapes DEF ChannelInv, TypeOK, HalvesOK, Halves, Taking
<1>3. h \in Halves /\ h.half = "unget" /\ h.chid = ch /\ h.que_kind \in Kinds /\ h # Idle
  BY <1>1, <1>2, Shapes DEF ChannelInv, TypeOK, Halves, Taking, Idle
<1>. HIDE DEF h
<1>4. TypeOK'
  BY <1>1, <1>2, <1>3 DEF ChannelInv, TypeOK
<1>5. \A g \in Files, d \in Channels : Owns(g, d)' <=> Owns(g, d)
  BY <1>1, <1>2, <1>3 DEF ChannelInv, TypeOK, Owns, Taking
<1>7. HalvesOK'
  BY <1>1, <1>2, <1>3 DEF ChannelInv, TypeOK, HalvesOK, Taking
<1>8. (OneOwner /\ UsedIsOwned)'
  BY <1>1, <1>5 DEF ChannelInv, OneOwner, UsedIsOwned
<1>9. ActiveIsOwned'
  BY <1>1, <1>2, <1>3 DEF ChannelInv, TypeOK, ActiveIsOwned
<1>. QED
  BY <1>4, <1>7, <1>8, <1>9 DEF ChannelInv

LEMMA UndoPutInv ==
    ASSUME ChannelInv, NEW f \in Files, UndoPut(f)
    PROVE  ChannelInv'
BY Shapes DEF ChannelInv, TypeOK, HalvesOK, OneOwner, UsedIsOwned, ActiveIsOwned, Owns, UndoPut,
   Taking

LEMMA PutInv ==
    ASSUME ChannelInv, NEW f \in Files, Put(f)
    PROVE  ChannelInv'
BY Shapes DEF ChannelInv, TypeOK, HalvesOK, OneOwner, UsedIsOwned, ActiveIsOwned, Owns, Taking, Put

LEMMA ReleaseInv ==
    ASSUME ChannelInv, NEW f \in Files, ReleasePut(f)
    PROVE  ChannelInv'
BY Shapes DEF ChannelInv, TypeOK, HalvesOK, OneOwner, UsedIsOwned, ActiveIsOwned, Owns, Taking,
   ReleasePut

LEMMA StutterInv == ChannelInv /\ UNCHANGED vars => ChannelInv'
BY DEF ChannelInv, TypeOK, HalvesOK, OneOwner, UsedIsOwned, ActiveIsOwned, Owns, Taking, vars

LEMMA InvStep == ChannelInv /\ [DisciplinedNext]_vars => ChannelInv'
<1>. SUFFICES ASSUME ChannelInv, DisciplinedNext PROVE ChannelInv'
  BY StutterInv
<1>. QED
  BY StepCases, OpenInv, AllocateInv, BindInv, StopInv, StopTimeoutInv, CloseUnownedInv,
     CloseOwnerInv, StartInv, PutInv, ReleaseInv, RefuseInv, UndoStopInv, UndoPutInv

\* The inductive invariant holds in every state of a driver whose callers
\* keep to their own channels.
THEOREM ChannelsSafe == DisciplinedSpec => []ChannelInv
BY InvInit, InvStep, PTL DEF DisciplinedSpec

\* A channel is USED exactly while a file owns it, through every
\* interleaving, drain timeout and close (get_queue, put_queue, release).
THEOREM NoLostChannel == DisciplinedSpec => []UsedIsOwned
<1>1. ChannelInv => UsedIsOwned
  BY DEF ChannelInv
<1>. QED
  BY <1>1, ChannelsSafe, PTL

\* The FPGA polls no ring, and a bind finds no channel, that nobody owns
\* (start_queue, stop_queue, put_queue_info).
THEOREM NoOrphanActive == DisciplinedSpec => []ActiveIsOwned
<1>1. ChannelInv => ActiveIsOwned
  BY DEF ChannelInv
<1>. QED
  BY <1>1, ChannelsSafe, PTL

-----------------------------------------------------------------------------
(***************************************************************************)
(* The refinement of ChannelLock.                                          *)
(***************************************************************************)
LEMMA OwnerIs ==
    ASSUME OneOwner, NEW f \in Files, NEW ch \in Channels
    PROVE  Owner[ch] = f <=> Owns(f, ch)
<1>. DEFINE o == CHOOSE g \in Files : Owns(g, ch)
<1>1. CASE \E g \in Files : Owns(g, ch)
  <2>1. o \in Files /\ Owns(o, ch)
    BY <1>1
  <2>2. Owner[ch] = o
    BY <1>1 DEF Owner
  <2>. QED
    BY <2>1, <2>2 DEF OneOwner
<1>2. CASE ~\E g \in Files : Owns(g, ch)
  BY <1>2, LldmaAssumption DEF Owner
<1>. QED
  BY <1>1, <1>2

LEMMA OwnerNone ==
    ASSUME NEW ch \in Channels
    PROVE  Owner[ch] = NoFile <=> ~\E g \in Files : Owns(g, ch)
<1>. DEFINE o == CHOOSE g \in Files : Owns(g, ch)
<1>1. CASE \E g \in Files : Owns(g, ch)
  <2>1. o \in Files
    BY <1>1
  <2>2. Owner[ch] = o
    BY <1>1 DEF Owner
  <2>. QED
    BY <1>1, <2>1, <2>2, LldmaAssumption
<1>2. CASE ~\E g \in Files : Owns(g, ch)
  BY <1>2 DEF Owner
<1>. QED
  BY <1>1, <1>2

\* The owner after a step, channel by channel.
LEMMA OwnerSame ==
    ASSUME NEW d \in Channels, \A g \in Files : Owns(g, d)' <=> Owns(g, d)
    PROVE  Owner'[d] = Owner[d]
<1>1. (CHOOSE g \in Files : Owns(g, d)') = CHOOSE g \in Files : Owns(g, d)
  OBVIOUS
<1>. QED
  BY <1>1 DEF Owner

LEMMA OwnerNext ==
    ASSUME OneOwner', NEW f \in Files, NEW ch \in Channels, Owns(f, ch)'
    PROVE  Owner'[ch] = f
<1>1. \A g \in Files : Owns(g, ch)' => g = f
  BY DEF OneOwner
<1>2. (CHOOSE g \in Files : Owns(g, ch)') = f
  BY <1>1
<1>. QED
  BY <1>2 DEF Owner

LEMMA OwnerFreed ==
    ASSUME NEW ch \in Channels, ~\E g \in Files : Owns(g, ch)'
    PROVE  Owner'[ch] = NoFile
BY DEF Owner

LEMMA OwnerFunction ==
    /\ DOMAIN Owner = Channels /\ Owner = [d \in Channels |-> Owner[d]]
    /\ DOMAIN Owner' = Channels /\ Owner' = [d \in Channels |-> Owner'[d]]
BY DEF Owner

\* A step that changes no ownership changes no owner.
LEMMA SameOwner ==
    ASSUME \A g \in Files, d \in Channels : Owns(g, d)' <=> Owns(g, d)
    PROVE  Owner' = Owner
<1>1. \A d \in Channels : Owner'[d] = Owner[d]
  BY OwnerSame
<1>. QED
  BY <1>1, OwnerFunction

\* An allocation acquires the channel.
LEMMA AllocateLocks ==
    ASSUME ChannelInv, ChannelInv', NEW f \in Files, Allocate(f)
    PROVE  \E ch \in Channels : Lock!Acquire(f, ch)
<1>1. PICK ch \in Channels, k \in Kinds, c \in Connectors, h \in {"start", "refuse"} :
         Take(f, ch, k, c, h)
  BY DEF Allocate
<1>2. /\ ~private[f].is_get_queue /\ half[f] = Idle /\ status[ch] = "free"
      /\ half' = [half EXCEPT ![f] = [half |-> h, chid |-> ch, que_kind |-> k,
                                      connector |-> c]]
      /\ UNCHANGED private
  BY <1>1 DEF Allocate, Take, Ready
<1>3. ~\E g \in Files : Owns(g, ch)
  BY <1>2 DEF ChannelInv, UsedIsOwned
<1>4. \A d \in Channels : ~Owns(f, d)
  BY <1>2, Shapes DEF Owns, Taking
<1>5. Owns(f, ch)' /\ \A g \in Files, d \in Channels :
         d # ch => (Owns(g, d)' <=> Owns(g, d))
  BY <1>2, <1>4, Shapes DEF ChannelInv, TypeOK, Owns, Taking
<1>6. Owner[ch] = NoFile /\ \A d \in Channels : Owner[d] # f
  BY <1>3, <1>4, OwnerIs, OwnerNone DEF ChannelInv
<1>7. Owner'[ch] = f /\ \A d \in Channels : d # ch => Owner'[d] = Owner[d]
  BY <1>5, OwnerNext, OwnerSame DEF ChannelInv
<1>8. Owner' = [Owner EXCEPT ![ch] = f]
  BY <1>7, OwnerFunction
<1>. QED
  BY <1>6, <1>8 DEF Lock!Acquire

\* A put, by ioctl or at close, releases the owner's channel.
LEMMA PutUnlocks ==
    ASSUME ChannelInv, ChannelInv', NEW f \in Files, Put(f) \/ ReleasePut(f) \/ UndoPut(f)
    PROVE  \E ch \in Channels : Lock!Release(f, ch)
<1>1. half' = [half EXCEPT ![f] = Idle]
  BY DEF Put, ReleasePut, UndoPut
<1>2. \E ch \in Channels :
         /\ Owns(f, ch)
         /\ \A d \in Channels : d # ch => ~Owns(f, d)
  <2>1. CASE half[f].half \in {"put", "release"}
    BY <2>1, Shapes DEF ChannelInv, HalvesOK, Owns, Taking
  <2>2. CASE half[f].half = "unget"
    BY <2>2, Shapes DEF ChannelInv, HalvesOK, Owns, Taking
  <2>. QED
    BY <2>1, <2>2 DEF Put, ReleasePut, UndoPut
<1>3. PICK ch \in Channels : Owns(f, ch) /\ \A d \in Channels : d # ch => ~Owns(f, d)
  BY <1>2
<1>4. \A d \in Channels : ~Owns(f, d)'
  <2>1. CASE UndoPut(f)
    BY <1>1, <2>1, Shapes DEF UndoPut, ChannelInv, TypeOK, HalvesOK, Owns, Taking
  <2>2. CASE Put(f) \/ ReleasePut(f)
    BY <1>1, <2>2, Shapes DEF Put, ReleasePut, ChannelInv, TypeOK, Owns, Taking
  <2>. QED
    BY <2>1, <2>2
<1>5. \A g \in Files, d \in Channels : g # f => (Owns(g, d)' <=> Owns(g, d))
  BY DEF Put, ReleasePut, UndoPut, ChannelInv, TypeOK, Owns, Taking
<1>6. \A d \in Channels : d # ch => ~Owns(f, d)
  BY <1>3
<1>7. Owner[ch] = f
  BY <1>3, OwnerIs DEF ChannelInv
<1>8. ~\E g \in Files : Owns(g, ch)'
  BY <1>3, <1>4, <1>5 DEF ChannelInv, OneOwner
<1>9. Owner'[ch] = NoFile /\ \A d \in Channels : d # ch => Owner'[d] = Owner[d]
  BY <1>4, <1>5, <1>6, <1>8, OwnerFreed, OwnerSame
<1>10. Owner' = [Owner EXCEPT ![ch] = NoFile]
  BY <1>9, OwnerFunction
<1>. QED
  BY <1>7, <1>10 DEF Lock!Release

\* All other steps leave the owners alone.
LEMMA OthersKeep ==
    ASSUME ChannelInv, NEW f \in Files,
           \/ Open(f) \/ Bind(f) \/ StopOwn(f) \/ StopOwnTimeout(f)
           \/ CloseUnowned(f) \/ CloseOwner(f) \/ Start(f) \/ Refuse(f) \/ UndoStop(f)
    PROVE  Owner' = Owner
<1>. SUFFICES \A g \in Files, d \in Channels : Owns(g, d)' <=> Owns(g, d)
  BY SameOwner
<1>0. ASSUME ~private[f].is_get_queue, UNCHANGED half,
             NEW b, ~b.is_get_queue, private' = [private EXCEPT ![f] = b]
      PROVE  \A g \in Files, d \in Channels : Owns(g, d)' <=> Owns(g, d)
  BY <1>0 DEF ChannelInv, TypeOK, Owns, Taking
<1>1. CASE Open(f)
  <2>1. ~private[f].is_get_queue
    BY <1>1 DEF Open, ChannelInv, HalvesOK
  <2>. QED
    BY <1>0, <1>1, <2>1, Shapes DEF Open
<1>2. CASE Bind(f)
  <2>1. ~private[f].is_get_queue /\ private[f].is_get_queue \in BOOLEAN
    BY <1>2 DEF Bind, ChannelInv, TypeOK, Private
  <2>2. PICK ch \in Channels, c \in Connectors : BindQueue(f, c, ch)
    BY <1>2 DEF Bind
  <2>3. /\ private' = [private EXCEPT ![f] = Bound(ch, "host", FALSE)]
        /\ UNCHANGED half
    BY <2>1, <2>2 DEF BindQueue
  <2>4. ~Bound(ch, "host", FALSE).is_get_queue
    BY DEF Bound
  <2>. QED
    BY <1>0, <2>1, <2>3, <2>4
<1>3. CASE StopOwn(f)
  BY <1>3, Shapes DEF StopOwn, Stop, Ready, ChannelInv, TypeOK, Owns, Taking, Idle
<1>4. CASE StopOwnTimeout(f)
  BY <1>4 DEF StopOwnTimeout, StopTimeout, Owns, Taking
<1>5. CASE CloseUnowned(f)
  BY <1>5, Shapes DEF CloseUnowned, Ready, ChannelInv, TypeOK, Owns, Taking
<1>6. CASE CloseOwner(f)
  BY <1>6, Shapes DEF CloseOwner, Ready, ChannelInv, TypeOK, Owns, Taking, Idle
<1>7. CASE Start(f)
  BY <1>7, Shapes DEF Start, Bound, ChannelInv, TypeOK, HalvesOK, Owns, Taking
<1>8. CASE Refuse(f) \/ UndoStop(f)
  BY <1>8 DEF Refuse, UndoStop, ChannelInv, TypeOK, Owns, Taking, Halves
<1>. QED
  BY <1>1, <1>2, <1>3, <1>4, <1>5, <1>6, <1>7, <1>8

LEMMA LockInit == Init => Lock!Init
BY Shapes DEF Init, Lock!Init, Owner, Owns, Taking

LEMMA LockStep ==
    ChannelInv /\ ChannelInv' /\ [DisciplinedNext]_vars => [Lock!Next]_Owner
<1>1. ASSUME UNCHANGED vars PROVE Owner' = Owner
  BY <1>1, SameOwner DEF vars, Owns, Taking
<1>2. ASSUME ChannelInv, ChannelInv', DisciplinedNext
      PROVE  Lock!Next \/ Owner' = Owner
  <2>1. PICK f \in Files :
            \/ Open(f) \/ Allocate(f) \/ Bind(f) \/ StopOwn(f) \/ StopOwnTimeout(f)
            \/ CloseUnowned(f) \/ CloseOwner(f) \/ Start(f) \/ Put(f) \/ ReleasePut(f)
            \/ Refuse(f) \/ UndoStop(f) \/ UndoPut(f)
    BY <1>2, StepCases
  <2>2. CASE Allocate(f)
    BY <1>2, <2>2, AllocateLocks DEF Lock!Next
  <2>3. CASE Put(f) \/ ReleasePut(f) \/ UndoPut(f)
    BY <1>2, <2>3, PutUnlocks DEF Lock!Next
  <2>. QED
    BY <1>2, <2>1, <2>2, <2>3, OthersKeep
<1>. QED
  BY <1>1, <1>2

\* The driver's channels are locks held by files: the two-phase allocations
\* and releases of the driver implement ChannelLock.
THEOREM ChannelsAreLocks == DisciplinedSpec => IsLock
BY InvInit, InvStep, LockInit, LockStep, PTL DEF DisciplinedSpec, IsLock, Lock!Spec

-----------------------------------------------------------------------------
(***************************************************************************)
(* The library.                                                            *)
(***************************************************************************)

\* A file that has just been opened.
IsNew(f) == private[f] = Unbound /\ half[f] = Idle

\* A file that has ch, or is about to, and has not begun to give it back.
IsOwn(f, ch) ==
    \/ half[f].half = "start" /\ half[f].chid = ch
    \/ half[f] = Idle /\ private[f].is_get_queue /\ private[f].chid = ch /\ active[ch]

\* A file whose call took ch and is refused it.
IsUndoing(f, ch) ==
    /\ private[f] = Unbound
    /\ half[f].half \in {"refuse", "undo", "unget"} /\ half[f].chid = ch

\* A file that is new again or about to be, or has ch.
IsMay(f, ch) ==
    \/ IsNew(f)
    \/ IsUndoing(f, ch)
    \/ /\ private[f].is_get_queue /\ private[f].chid = ch
       /\ half[f].half \in {"idle", "put"}

\* A file that is bound to a queue and owns none.
IsRef(f) == private[f].open /\ ~private[f].is_get_queue /\ half[f] = Idle

InUse(p, N, O, M) == N \cup O \cup M \cup Mine(p)

Apart(P, N, O, M, H) ==
    /\ P \cup N \cup O \cup M \cup H \subseteq Entries
    /\ P \cap (N \cup O \cup M \cup H) = {}
    /\ N \cap (O \cup M \cup H) = {}
    /\ O \cap (M \cup H) = {}
    /\ M \cap H = {}

Kept(p, N, O, M) ==
    /\ \A e \in N : IsNew(File(p, e))
    /\ \A e \in O \cup Mine(p) : IsOwn(File(p, e), e[2])
    /\ \A e \in M : IsMay(File(p, e), e[2])
    /\ \A e \in Mine(p) : half[File(p, e)].half # "start"

Distinct(p, U) ==
    /\ \A e \in U : fd_get_queue[p][e] \in Fds
    /\ \A e, g \in U : fd_get_queue[p][e] = fd_get_queue[p][g] => e = g

\* Whatever p owns it will find in its table, unless it is being closed.
Covered(p, S) ==
    \A fd \in Fds :
        /\ \E ch \in Channels : Owns(<<p, fd>>, ch)
        /\ half[<<p, fd>>].half # "release"
        => \E e \in S : fd_get_queue[p][e] = fd

RefsFit(p, U) ==
    \A ch \in Channels : refs[p][ch] # 0 =>
        /\ fd_ref_queue[p][ch] \in Fds
        /\ IsRef(<<p, fd_ref_queue[p][ch]>>)
        /\ \A e \in U : fd_get_queue[p][e] # fd_ref_queue[p][ch]

Fits(p, P, N, O, M) ==
    /\ Apart(P, N, O, M, Mine(p))
    /\ Kept(p, N, O, M)
    /\ Distinct(p, InUse(p, N, O, M))
    /\ Covered(p, O \cup M \cup Mine(p))
    /\ RefsFit(p, InUse(p, N, O, M))

-----------------------------------------------------------------------------
(* What a library call has left.                                           *)
StatDo(e) == Do("stat", e, "none", NoConnector, <<Simple("close", e)>>)
AllocDo(e, c) == Do("alloc", e, e[1], c, <<Simple("close", e)>>)
DupDo(e, c) == Do("dup", e, e[1], c, <<Simple("close", e)>>)
FreeDo(e) == Do("free", e, e[1], NoConnector, <<Simple("close", e)>>)
TxDo(a, c) == Do("alloc", a, "d2d", c, <<Simple("drop", a)>>)
RxDo(a, b, c) ==
    Do("alloc", b, "d2d", c,
       <<Simple("drop", b), Simple("disconnect", a), Simple("drop", a)>>)
LinkDo(a, b) == Simple("link", <<a[2], b[2]>>)
BindDo(c) == Do("bind", NoChannel, "none", c, << >>)

\* What fpga_lldma_init() has left.
InitLeft(e, c, t, P, N, O, M) ==
    \/ /\ t = <<Simple("open", e), StatDo(e), AllocDo(e, c), DupDo(e, c)>>
       /\ P = {e} /\ N = {} /\ O = {} /\ M = {}
    \/ /\ t = <<StatDo(e), AllocDo(e, c), DupDo(e, c)>>
       /\ P = {} /\ N = {e} /\ O = {} /\ M = {}
    \/ t = <<AllocDo(e, c), DupDo(e, c)>> /\ P = {} /\ N = {e} /\ O = {} /\ M = {}
    \/ t = <<DupDo(e, c)>> /\ P = {} /\ N = {} /\ O = {e} /\ M = {}

\* What is left when a channel, or the last one of two, is given back.
EndLeft(e, t, P, N, O, M) ==
    /\ P = {} /\ N = {} /\ O = {} /\ M = {e}
    /\ t \in {<<Simple("close", e)>>, <<FreeDo(e), Simple("drop", e)>>, <<Simple("drop", e)>>,
              <<Simple("disconnect", e), Simple("drop", e)>>}

\* a is the entry of the TX channel, b that of the RX channel.
PairOK(a, b) ==
    /\ a \in Entries /\ b \in Entries /\ a # b
    /\ a = Host(a[2]) /\ b = Host(b[2]) /\ a[2] \in Channels /\ b[2] \in Channels

\* What a *_connect() has left.
ConnectLeft(a, b, c, t, P, N, O, M) ==
    /\ M = {}
    /\ \/ /\ t = <<Simple("open", a), StatDo(a), Simple("open", b), StatDo(b),
                   TxDo(a, c), RxDo(a, b, c), LinkDo(a, b)>>
          /\ P = {a, b} /\ N = {} /\ O = {}
       \/ /\ t = <<StatDo(a), Simple("open", b), StatDo(b),
                   TxDo(a, c), RxDo(a, b, c), LinkDo(a, b)>>
          /\ P = {b} /\ N = {a} /\ O = {}
       \/ /\ t = <<Simple("open", b), StatDo(b), TxDo(a, c), RxDo(a, b, c), LinkDo(a, b)>>
          /\ P = {b} /\ N = {a} /\ O = {}
       \/ /\ t = <<StatDo(b), TxDo(a, c), RxDo(a, b, c), LinkDo(a, b)>>
          /\ P = {} /\ N = {a, b} /\ O = {}
       \/ /\ t = <<TxDo(a, c), RxDo(a, b, c), LinkDo(a, b)>>
          /\ P = {} /\ N = {a, b} /\ O = {}
       \/ t = <<RxDo(a, b, c), LinkDo(a, b)>> /\ P = {} /\ N = {b} /\ O = {a}
       \/ t = <<LinkDo(a, b)>> /\ P = {} /\ N = {} /\ O = {a, b}

\* What a *_disconnect(), or a *_connect() that failed, has left.
DisconnectLeft(a, b, t, P, N, O, M) ==
    /\ P = {} /\ N = {} /\ O = {} /\ M = {a, b}
    /\ t \in {<<Simple("disconnect", b), Simple("drop", b),
                Simple("disconnect", a), Simple("drop", a)>>,
              <<Simple("drop", b), Simple("disconnect", a), Simple("drop", a)>>}

Left(t, P, N, O, M) ==
    \/ t = << >> /\ P = {} /\ N = {} /\ O = {} /\ M = {}
    \/ \E e \in Entries, c \in Connectors : InitLeft(e, c, t, P, N, O, M)
    \/ \E e \in Entries : EndLeft(e, t, P, N, O, M)
    \/ \E a, b \in Entries, c \in Connectors :
          PairOK(a, b) /\ ConnectLeft(a, b, c, t, P, N, O, M)
    \/ \E a, b \in Entries : a # b /\ DisconnectLeft(a, b, t, P, N, O, M)

BindStage(p) ==
    \E c \in Connectors :
        /\ todo[p] = <<BindDo(c)>>
        /\ Fits(p, {}, {}, {}, {})
        /\ tmpfd[p] \in Fds /\ IsNew(<<p, tmpfd[p]>>)
        /\ \A e \in Mine(p) : fd_get_queue[p][e] # tmpfd[p]
        /\ \A ch \in Channels : refs[p][ch] = 0

Stage(p) ==
    \/ \E P, N, O, M \in SUBSET Entries : Left(todo[p], P, N, O, M) /\ Fits(p, P, N, O, M)
    \/ BindStage(p)

\* What the user has been given: entries of the table, none of them twice.
UserOK(p) ==
    /\ held[p] \subseteq Entries
    /\ \A l \in linked[p] :
          /\ l = <<l[1], l[2]>> /\ PairOK(Host(l[1]), Host(l[2]))
          /\ Host(l[1]) \notin held[p] /\ Host(l[2]) \notin held[p]
    /\ \A l, m \in linked[p] :
          {Host(l[1]), Host(l[2])} \cap {Host(m[1]), Host(m[2])} # {} => l = m
    /\ \A ch \in Channels : refs[p][ch] \in {0, 1}
    /\ \A ch, d \in Channels : refs[p][ch] = 1 /\ refs[p][d] = 1 => ch = d

ProcInv(p) ==
    /\ UserOK(p)
    /\ p \in dying => todo[p] = << >> /\ held[p] = {} /\ linked[p] = {}
                      /\ \A ch \in Channels : refs[p][ch] = 0
    /\ p \notin dying => Stage(p)

LibType ==
    /\ fd_get_queue \in [Procs -> [Entries -> Int]]
    /\ fd_ref_queue \in [Procs -> [Channels -> Int]]
    /\ tmpfd \in [Procs -> Int]
    /\ DOMAIN todo = Procs /\ DOMAIN held = Procs /\ DOMAIN linked = Procs
    /\ refs \in [Procs -> [Channels -> Nat]]
    /\ dying \subseteq Procs

LibInv == ChannelInv /\ LibType /\ \A p \in Procs : ProcInv(p)

-----------------------------------------------------------------------------
(* Steps of the driver on one file.                                        *)

LEMMA FileIn == \A p \in Procs, fd \in Fds : <<p, fd>> \in Files
BY LiblldmaAssumption

LEMMA EntryIn == \A e \in Entries : e[2] \in Channels /\ e[1] \in QueueKinds /\ e = <<e[1], e[2]>>
BY LiblldmaAssumption

\* A step that leaves the other files alone and stops only a channel of f.
Touches(f) ==
    /\ \A g \in Files : g # f => private'[g] = private[g] /\ half'[g] = half[g]
    /\ \A ch \in Channels : active[ch] /\ ~active'[ch] => Owns(f, ch)

\* The conditions on a file, and that they stay.
SameFile(g) ==
    /\ IsNew(g) => IsNew(g)'
    /\ IsRef(g) => IsRef(g)'
    /\ \A ch \in Channels : IsOwn(g, ch) => IsOwn(g, ch)'
    /\ \A ch \in Channels : IsMay(g, ch) => IsMay(g, ch)'
    /\ \A ch \in Channels : Owns(g, ch)' => Owns(g, ch)
    /\ half'[g] = half[g]

LEMMA OwnOwns ==
    ASSUME NEW f, NEW ch, IsOwn(f, ch)
    PROVE  Owns(f, ch)
BY DEF IsOwn, Owns, Taking

LEMMA TouchRest ==
    ASSUME ChannelInv, NEW f \in Files, NEW g \in Files, g # f, Touches(f)
    PROVE  SameFile(g)
<1>1. private'[g] = private[g] /\ half'[g] = half[g]
    BY DEF Touches
<1>2. ASSUME NEW ch \in Channels, IsOwn(g, ch)
      PROVE  IsOwn(g, ch)'
    <2>1. CASE half[g].half = "start" /\ half[g].chid = ch
        BY <2>1, <1>1 DEF IsOwn
    <2>2. CASE /\ half[g] = Idle /\ private[g].is_get_queue /\ private[g].chid = ch
               /\ active[ch]
        <3>1. Owns(g, ch)
            BY <1>2, OwnOwns
        <3>2. ~Owns(f, ch)
            BY <3>1 DEF ChannelInv, OneOwner
        <3>3. active'[ch]
            BY <3>2, <2>2 DEF Touches
        <3> QED
            BY <3>3, <2>2, <1>1 DEF IsOwn
    <2> QED
        BY <2>1, <2>2, <1>2 DEF IsOwn
<1>3. IsNew(g) => IsNew(g)'
    BY <1>1 DEF IsNew
<1>4. IsRef(g) => IsRef(g)'
    BY <1>1 DEF IsRef
<1>5. \A ch \in Channels : IsMay(g, ch) => IsMay(g, ch)'
    BY <1>1 DEF IsMay, IsNew, IsUndoing
<1>6. \A ch \in Channels : Owns(g, ch)' => Owns(g, ch)
    BY <1>1 DEF Owns, Taking
<1> QED
    BY <1>1, <1>2, <1>3, <1>4, <1>5, <1>6 DEF SameFile

LEMMA SameVars ==
    ASSUME NEW f, UNCHANGED vars
    PROVE  SameFile(f)
BY DEF vars, SameFile, IsNew, IsRef, IsOwn, IsMay, IsUndoing, Owns, Taking

\* Which actions touch one file.
LEMMA OpenTouches ==
    ASSUME ChannelInv, NEW f \in Files, Open(f)
    PROVE  /\ Touches(f) /\ IsNew(f)' /\ DisciplinedNext
           /\ \A ch \in Channels : ~Owns(f, ch)'
<1>1. private' = [private EXCEPT ![f] = Unbound] /\ UNCHANGED <<status, connector, active, half>>
    BY DEF Open
<1>2. half[f] = Idle
    BY DEF Open, ChannelInv, HalvesOK
<1>3. private \in [Files -> Private]
    BY DEF ChannelInv, TypeOK
<1>4. private'[f] = Unbound /\ \A g \in Files : g # f => private'[g] = private[g]
    BY <1>1, <1>3
<1>5. IsNew(f)'
    BY <1>1, <1>2, <1>4 DEF IsNew
<1>6. \A ch \in Channels : ~Owns(f, ch)'
    BY <1>1, <1>2, <1>4 DEF Owns, Taking, Unbound, Idle
<1>7. Touches(f)
    BY <1>1, <1>4 DEF Touches
<1> QED
    BY <1>5, <1>6, <1>7 DEF DisciplinedNext

LEMMA ReserveTouches ==
    ASSUME ChannelInv, NEW f \in Files, NEW ch \in Channels, NEW k \in Kinds,
           NEW c \in Connectors, Reserve(f, ch, k, c), IsNew(f)
    PROVE  Touches(f) /\ IsOwn(f, ch)' /\ half'[f].half = "start" /\ DisciplinedNext
<1>1. /\ half' = [half EXCEPT ![f] = [half |-> "start", chid |-> ch, que_kind |-> k,
                                       connector |-> c]]
      /\ UNCHANGED <<connector, active, private>>
    BY DEF Reserve, Take
<1>2. half \in [Files -> Halves]
    BY DEF ChannelInv, TypeOK
<1>3. /\ half'[f].half = "start" /\ half'[f].chid = ch
      /\ \A g \in Files : g # f => half'[g] = half[g]
    BY <1>1, <1>2
<1>4. Touches(f) /\ IsOwn(f, ch)'
    BY <1>1, <1>3 DEF Touches, IsOwn
<1>5. ~private[f].is_get_queue
    BY DEF IsNew, Unbound
<1>6. k \in QueueKinds \/ k = "d2d"
    BY DEF Kinds
<1>7. DisciplinedNext
    <2>1. CASE k \in QueueKinds
        <3>1. AllocQueue(f, ch, k, c)
            BY <2>1 DEF AllocQueue
        <3> QED
            BY <3>1, <2>1, <1>5 DEF DisciplinedNext
    <2>2. CASE k = "d2d"
        <3>1. AllocConnection(f, ch, c)
            BY <2>2 DEF AllocConnection
        <3> QED
            BY <3>1, <1>5 DEF DisciplinedNext
    <2> QED
        BY <2>1, <2>2, <1>6
<1> QED
    BY <1>3, <1>4, <1>7

LEMMA RefusedTouches ==
    ASSUME ChannelInv, NEW f \in Files, NEW ch \in Channels, NEW k, NEW c \in Connectors,
           AllocRefused(f, ch, k, c), IsNew(f)
    PROVE  Touches(f) /\ IsMay(f, ch)' /\ DisciplinedNext
<1>1. /\ half' = [half EXCEPT ![f] = [half |-> "refuse", chid |-> ch, que_kind |-> k,
                                       connector |-> c]]
      /\ k \in QueueKinds /\ UNCHANGED <<connector, active, private>>
    BY DEF AllocRefused, Take
<1>2. half \in [Files -> Halves]
    BY DEF ChannelInv, TypeOK
<1>3. /\ half'[f].half = "refuse" /\ half'[f].chid = ch
      /\ \A g \in Files : g # f => half'[g] = half[g]
    BY <1>1, <1>2
<1>4. Touches(f)
    BY <1>1, <1>3 DEF Touches
<1>5. private[f] = Unbound /\ ~private[f].is_get_queue
    BY DEF IsNew, Unbound
<1>6. IsMay(f, ch)'
    BY <1>1, <1>3, <1>5 DEF IsMay, IsUndoing
<1>7. DisciplinedNext
    BY <1>1, <1>5 DEF DisciplinedNext
<1> QED
    BY <1>4, <1>6, <1>7

LEMMA StopTouches ==
    ASSUME ChannelInv, NEW f \in Files, NEW ch \in Channels, Stop(f, ch) \/ StopTimeout(f, ch),
           private[f].is_get_queue, private[f].chid = ch, half[f] = Idle
    PROVE  Touches(f) /\ IsMay(f, ch)'
<1>1. active' = [active EXCEPT ![ch] = FALSE] /\ UNCHANGED <<status, connector, private>>
    BY DEF Stop, StopTimeout
<1>2. active \in [Channels -> BOOLEAN] /\ half \in [Files -> Halves]
    BY DEF ChannelInv, TypeOK
<1>3. /\ \A g \in Files : g # f => half'[g] = half[g]
      /\ half'[f].half \in {"idle", "put"}
    <2>1. CASE Stop(f, ch)
        <3>1. PICK h : h = [Idle EXCEPT !.half = "put", !.chid = ch]
            OBVIOUS
        <3>2. h.half = "put"
            BY <3>1 DEF Idle
        <3> QED
            BY <1>2, <2>1, <3>1, <3>2 DEF Stop
    <2>2. CASE StopTimeout(f, ch)
        BY <2>2, Shapes DEF StopTimeout
    <2> QED
        BY <2>1, <2>2
<1>4. \A d \in Channels : d # ch => active'[d] = active[d]
    BY <1>1, <1>2
<1>5. Owns(f, ch)
    BY DEF Owns, Taking
<1>6. Touches(f)
    BY <1>1, <1>3, <1>4, <1>5 DEF Touches
<1> QED
    BY <1>1, <1>3, <1>6 DEF IsMay

LEMMA CloseTouches ==
    ASSUME ChannelInv, NEW f \in Files, Close(f)
    PROVE  /\ Touches(f) /\ DisciplinedNext
           /\ (\E ch \in Channels : Owns(f, ch)') => half'[f].half = "release"
<1>1. /\ half \in [Files -> Halves] /\ private \in [Files -> Private]
      /\ active \in [Channels -> BOOLEAN]
    BY DEF ChannelInv, TypeOK
<1>2. CASE CloseUnowned(f)
    <2>1. /\ private' = [private EXCEPT ![f] = Closed] /\ half[f] = Idle
          /\ UNCHANGED <<status, connector, active, half>>
        BY <1>2 DEF CloseUnowned, Ready
    <2>2. private'[f] = Closed /\ \A g \in Files : g # f => private'[g] = private[g]
        BY <2>1, <1>1
    <2>3. \A ch \in Channels : ~Owns(f, ch)'
        BY <2>1, <2>2, Shapes DEF Owns, Taking
    <2>4. Touches(f)
        BY <2>1, <2>2 DEF Touches
    <2> QED
        BY <2>3, <2>4 DEF DisciplinedNext
<1>3. CASE CloseOwner(f)
    <2>1. /\ private[f].is_get_queue /\ active' = [active EXCEPT ![private[f].chid] = FALSE]
          /\ half' = [half EXCEPT ![f] = [Idle EXCEPT !.half = "release",
                                                      !.chid = private[f].chid]]
          /\ UNCHANGED <<status, connector, private>>
        BY <1>3 DEF CloseOwner
    <2>2. half'[f].half = "release" /\ \A g \in Files : g # f => half'[g] = half[g]
        BY <2>1, <1>1 DEF Idle
    <2>3. \A ch \in Channels : ch # private[f].chid => active'[ch] = active[ch]
        BY <2>1, <1>1
    <2>4. Touches(f)
        BY <2>1, <2>2, <2>3 DEF Touches, Owns, Taking
    <2> QED
        BY <2>2, <2>4 DEF DisciplinedNext
<1> QED
    BY <1>2, <1>3 DEF Close

LEMMA ContinueTouches ==
    ASSUME ChannelInv, NEW f \in Files, Continue(f)
    PROVE  /\ Touches(f) /\ DisciplinedNext
           /\ half[f].half # "release" =>
                 \A ch \in Channels :
                    (IsOwn(f, ch) => IsOwn(f, ch)') /\ (IsMay(f, ch) => IsMay(f, ch)')
           /\ half'[f].half # "release" /\ half'[f].half # "start"
           /\ \A ch \in Channels : Owns(f, ch)' => Owns(f, ch) /\ half[f].half # "release"
           /\ half[f] # Idle
<1>1. /\ half \in [Files -> Halves] /\ private \in [Files -> Private]
      /\ active \in [Channels -> BOOLEAN]
    BY DEF ChannelInv, TypeOK
<1>2. DisciplinedNext
    BY DEF DisciplinedNext
<1>3. half[f] # Idle
    BY Shapes DEF Continue, Start, Refuse, UndoStop, UndoPut, Put, ReleasePut
<1>4. ASSUME half' = [half EXCEPT ![f] = Idle]
      PROVE  /\ half'[f] = Idle /\ \A g \in Files : g # f => half'[g] = half[g]
             /\ half'[f].half = "idle" /\ half[f] # Idle
    BY <1>1, <1>3, <1>4, Shapes
<1>5. ASSUME NEW n, n \in {"undo", "unget"}, half' = [half EXCEPT ![f].half = n],
             private' = private, half[f].half \in {"refuse", "undo"}, NEW b \in BOOLEAN,
             active' = [active EXCEPT ![half[f].chid] = b]
      PROVE  /\ Touches(f)
             /\ \A ch \in Channels :
                   (IsOwn(f, ch) => IsOwn(f, ch)') /\ (IsMay(f, ch) => IsMay(f, ch)')
             /\ half'[f].half # "release" /\ half'[f].half # "start"
             /\ \A ch \in Channels : Owns(f, ch)' => Owns(f, ch)
    <2>1. PICK ch : ch = half[f].chid
        OBVIOUS
    <2>2. half'[f].half = n /\ half'[f].chid = ch /\ \A g \in Files : g # f => half'[g] = half[g]
        BY <1>1, <1>5, <2>1 DEF Halves
    <2>3. Owns(f, ch)
        BY <1>5, <2>1 DEF Owns, Taking
    <2>4. \A d \in Channels : d # ch => active'[d] = active[d]
        BY <1>1, <1>5, <2>1
    <2>5. Touches(f)
        BY <1>5, <2>2, <2>3, <2>4 DEF Touches
    <2>6. \A d \in Channels : ~IsOwn(f, d)
        BY <1>3, <1>5 DEF IsOwn
    <2>7. ASSUME NEW d \in Channels, IsMay(f, d) PROVE IsMay(f, d)'
        <3>1. IsUndoing(f, d)
            BY <1>3, <1>5, <2>7 DEF IsMay, IsNew
        <3> QED
            BY <1>5, <2>1, <2>2, <3>1 DEF IsUndoing, IsMay
    <2>8. \A d \in Channels : Owns(f, d)' => Owns(f, d)
        BY <1>5, <2>1, <2>2 DEF Owns, Taking
    <2> QED
        BY <1>5, <2>2, <2>5, <2>6, <2>7, <2>8
<1>6. CASE Start(f)
    <2>0. /\ half'[f] = Idle /\ \A g \in Files : g # f => half'[g] = half[g]
          /\ half'[f].half = "idle" /\ half[f] # Idle
        BY <1>4, <1>6 DEF Start
    <2>1. PICK ch : ch = half[f].chid
        OBVIOUS
    <2>2. /\ half[f].half = "start" /\ active' = [active EXCEPT ![ch] = TRUE]
          /\ private' = [private EXCEPT ![f] = Bound(ch, half[f].que_kind, TRUE)]
        BY <1>6, <2>1 DEF Start
    <2>3. ch \in Channels /\ ~private[f].is_get_queue
        BY <2>0, <2>1, <2>2 DEF ChannelInv, HalvesOK, Taking
    <2>4. /\ active'[ch] /\ \A d \in Channels : d # ch => active'[d] = active[d]
        BY <2>2, <2>3, <1>1
    <2>5. /\ private'[f].is_get_queue /\ private'[f].chid = ch
          /\ \A g \in Files : g # f => private'[g] = private[g]
        BY <2>2, <1>1 DEF Bound
    <2>6. Touches(f)
        BY <2>4, <2>5, <2>0 DEF Touches
    <2>7. \A d \in Channels : IsOwn(f, d) => IsOwn(f, d)'
        BY <2>1, <2>2, <2>3, <2>4, <2>5, <2>0 DEF IsOwn
    <2>8. \A d \in Channels : ~IsMay(f, d)
        BY <2>2, <2>3, <2>0 DEF IsMay, IsNew, IsUndoing
    <2>9. \A d \in Channels : Owns(f, d)' => Owns(f, d)
        BY <2>1, <2>2, <2>5, <2>0 DEF Owns, Taking
    <2> QED
        BY <2>2, <2>6, <2>7, <2>8, <2>9, <1>2, <2>0
<1>7. CASE Put(f)
    <2>0. /\ half'[f] = Idle /\ \A g \in Files : g # f => half'[g] = half[g]
          /\ half'[f].half = "idle" /\ half[f] # Idle
        BY <1>4, <1>7 DEF Put
    <2>1. half[f].half = "put" /\ private' = [private EXCEPT ![f] = Unbound] /\ active' = active
        BY <1>7 DEF Put
    <2>2. private'[f] = Unbound /\ \A g \in Files : g # f => private'[g] = private[g]
        BY <2>1, <1>1
    <2>3. Touches(f) /\ IsNew(f)'
        BY <2>1, <2>2, <2>0 DEF Touches, IsNew
    <2>4. \A d \in Channels : ~IsOwn(f, d)
        BY <2>1, <2>0 DEF IsOwn
    <2>5. \A d \in Channels : IsMay(f, d)'
        BY <2>3 DEF IsMay
    <2>6. \A d \in Channels : ~Owns(f, d)'
        BY <2>2, <2>0, Shapes DEF Owns, Taking
    <2> QED
        BY <2>1, <2>3, <2>4, <2>5, <2>6, <1>2, <2>0
<1>8. CASE ReleasePut(f)
    <2>0. /\ half'[f] = Idle /\ \A g \in Files : g # f => half'[g] = half[g]
          /\ half'[f].half = "idle" /\ half[f] # Idle
        BY <1>4, <1>8 DEF ReleasePut
    <2>1. half[f].half = "release" /\ private' = [private EXCEPT ![f] = Closed] /\ active' = active
        BY <1>8 DEF ReleasePut
    <2>2. private'[f] = Closed /\ \A g \in Files : g # f => private'[g] = private[g]
        BY <2>1, <1>1
    <2>3. Touches(f)
        BY <2>1, <2>2, <2>0 DEF Touches
    <2>4. \A d \in Channels : ~Owns(f, d)'
        BY <2>2, <2>0, Shapes DEF Owns, Taking
    <2> QED
        BY <2>1, <2>3, <2>4, <1>2, <2>0
<1>9. CASE Refuse(f)
    <2>1. /\ half[f].half = "refuse" /\ half' = [half EXCEPT ![f].half = "undo"]
          /\ private' = private /\ active' = [active EXCEPT ![half[f].chid] = TRUE]
        BY <1>9 DEF Refuse
    <2> QED
        BY <1>2, <1>3, <1>5, <2>1
<1>10. CASE UndoStop(f)
    <2>1. /\ half[f].half = "undo" /\ half' = [half EXCEPT ![f].half = "unget"]
          /\ private' = private /\ active' = [active EXCEPT ![half[f].chid] = FALSE]
        BY <1>10 DEF UndoStop
    <2> QED
        BY <1>2, <1>3, <1>5, <2>1
<1>11. CASE UndoPut(f)
    <2>0. /\ half'[f] = Idle /\ \A g \in Files : g # f => half'[g] = half[g]
          /\ half'[f].half = "idle" /\ half[f] # Idle
        BY <1>4, <1>11 DEF UndoPut
    <2>1. half[f].half = "unget" /\ private' = private /\ active' = active
        BY <1>11 DEF UndoPut
    <2>2. Touches(f)
        BY <2>0, <2>1 DEF Touches
    <2>3. \A d \in Channels : ~IsOwn(f, d)
        BY <2>0, <2>1 DEF IsOwn
    <2>4. \A d \in Channels : IsMay(f, d) => IsMay(f, d)'
        BY <2>0, <2>1 DEF IsMay, IsNew, IsUndoing
    <2>5. \A d \in Channels : Owns(f, d)' => Owns(f, d)
        BY <2>0, <2>1 DEF Owns, Taking
    <2> QED
        BY <1>2, <2>0, <2>1, <2>2, <2>3, <2>4, <2>5
<1> QED
    BY <1>6, <1>7, <1>8, <1>9, <1>10, <1>11 DEF Continue

LEMMA BindTouches ==
    ASSUME ChannelInv, NEW f \in Files, NEW c \in Connectors, NEW ch \in Channels,
           BindQueue(f, c, ch), IsNew(f)
    PROVE  /\ Touches(f) /\ DisciplinedNext /\ IsRef(f)'
           /\ \A d \in Channels : ~Owns(f, d)'
<1>1. ~private[f].is_get_queue /\ private[f].is_get_queue = FALSE /\ half[f] = Idle
    BY DEF IsNew, Unbound
<1>2. private' = [private EXCEPT ![f] = Bound(ch, "host", FALSE)]
      /\ UNCHANGED <<status, connector, active, half>>
    BY <1>1 DEF BindQueue
<1>3. private \in [Files -> Private]
    BY DEF ChannelInv, TypeOK
<1>4. /\ private'[f] = Bound(ch, "host", FALSE)
      /\ \A g \in Files : g # f => private'[g] = private[g]
    BY <1>2, <1>3
<1>5. private'[f].open /\ ~private'[f].is_get_queue
    BY <1>4 DEF Bound
<1>6. \A d \in Channels : ~Owns(f, d)'
    BY <1>1, <1>2, <1>5, Shapes DEF Owns, Taking
<1>7. Touches(f) /\ IsRef(f)'
    BY <1>1, <1>2, <1>4, <1>5 DEF Touches, IsRef
<1>8. DisciplinedNext
    BY <1>1 DEF DisciplinedNext
<1> QED
    BY <1>6, <1>7, <1>8

-----------------------------------------------------------------------------
(* What a call goes on with after a system call.                           *)

LEMMA Lists ==
    /\ \A a : Head(<<a>>) = a /\ Tail(<<a>>) = << >>
    /\ \A a, b : Head(<<a, b>>) = a /\ Tail(<<a, b>>) = <<b>>
    /\ \A a, b, c : Head(<<a, b, c>>) = a /\ Tail(<<a, b, c>>) = <<b, c>>
    /\ \A a, b, c, d : Head(<<a, b, c, d>>) = a /\ Tail(<<a, b, c, d>>) = <<b, c, d>>
    /\ \A a, b, c, d, e : Head(<<a, b, c, d, e>>) = a /\ Tail(<<a, b, c, d, e>>) = <<b, c, d, e>>
    /\ \A a, b, c, d, e, f :
          Head(<<a, b, c, d, e, f>>) = a /\ Tail(<<a, b, c, d, e, f>>) = <<b, c, d, e, f>>
    /\ \A a, b, c, d, e, f, g :
          Head(<<a, b, c, d, e, f, g>>) = a /\ Tail(<<a, b, c, d, e, f, g>>) = <<b, c, d, e, f, g>>
OBVIOUS

LEMMA NotEmpty ==
    /\ \A a : <<a>> # << >>
    /\ \A a, b : <<a, b>> # << >>
    /\ \A a, b, c : <<a, b, c>> # << >>
    /\ \A a, b, c, d : <<a, b, c, d>> # << >>
    /\ \A a, b, c, d, e : <<a, b, c, d, e>> # << >>
    /\ \A a, b, c, d, e, f : <<a, b, c, d, e, f>> # << >>
    /\ \A a, b, c, d, e, f, g : <<a, b, c, d, e, f, g>> # << >>
OBVIOUS

LEMMA Dos ==
    /\ \A w, e : Simple(w, e).do = w /\ Simple(w, e).entry = e /\ Simple(w, e).undo = << >>
    /\ \A e : /\ StatDo(e).do = "stat" /\ StatDo(e).entry = e
              /\ StatDo(e).undo = <<Simple("close", e)>>
    /\ \A e, c : /\ AllocDo(e, c).do = "alloc" /\ AllocDo(e, c).entry = e
                 /\ AllocDo(e, c).kind = e[1] /\ AllocDo(e, c).conn = c
                 /\ AllocDo(e, c).undo = <<Simple("close", e)>>
    /\ \A e, c : /\ DupDo(e, c).do = "dup" /\ DupDo(e, c).entry = e
                 /\ DupDo(e, c).undo = <<Simple("close", e)>>
    /\ \A e : /\ FreeDo(e).do = "free" /\ FreeDo(e).entry = e
              /\ FreeDo(e).undo = <<Simple("close", e)>>
    /\ \A a, c : /\ TxDo(a, c).do = "alloc" /\ TxDo(a, c).entry = a
                 /\ TxDo(a, c).kind = "d2d" /\ TxDo(a, c).conn = c
                 /\ TxDo(a, c).undo = <<Simple("drop", a)>>
    /\ \A a, b, c :
          /\ RxDo(a, b, c).do = "alloc" /\ RxDo(a, b, c).entry = b
          /\ RxDo(a, b, c).kind = "d2d" /\ RxDo(a, b, c).conn = c
          /\ RxDo(a, b, c).undo =
                <<Simple("drop", b), Simple("disconnect", a), Simple("drop", a)>>
    /\ \A a, b : LinkDo(a, b).do = "link" /\ LinkDo(a, b).entry = <<a[2], b[2]>>
    /\ \A c : BindDo(c).do = "bind" /\ BindDo(c).conn = c
BY DEF Do, Simple, StatDo, AllocDo, DupDo, FreeDo, TxDo, RxDo, LinkDo, BindDo

\* How the lists and the sets change with the call s at the head of t, when it
\* succeeds and when it fails.
OpenLeft(s, t, P, N, O, M) ==
    /\ s.entry \in P /\ O = {} /\ M = {} /\ s.undo = << >>
    /\ Left(Tail(t), P \ {s.entry}, N \cup {s.entry}, O, M)
StatLeft(s, t, P, N, O, M) ==
    /\ s.entry \in N /\ O = {} /\ M = {} /\ s.undo = <<Simple("close", s.entry)>>
    /\ Left(Tail(t), P, N, O, M)
\* A failed allocation gives back what the call already has.
AllocLeft(s, t, P, N, O, M) ==
    /\ s.entry \in N /\ P = {} /\ M = {} /\ s.kind \in Kinds /\ s.conn \in Connectors
    /\ Left(Tail(t), P, N \ {s.entry}, O \cup {s.entry}, M)
    /\ Left(s.undo, {}, {}, {}, {s.entry} \cup O)
DupLeft(s, t, P, N, O, M) ==
    /\ P = {} /\ N = {} /\ O = {s.entry} /\ M = {} /\ s.entry \in Entries
    /\ Tail(t) = << >> /\ s.undo = <<Simple("close", s.entry)>>
FreeLeft(s, t, P, N, O, M) ==
    /\ P = {} /\ N = {} /\ O = {} /\ s.entry \in M /\ Left(Tail(t), P, N, O, M)
    /\ s.do = "free" => M = {s.entry} /\ s.undo = <<Simple("close", s.entry)>>
CloseLeft(s, t, P, N, O, M) ==
    /\ P = {} /\ N = {} /\ O = {} /\ s.entry \in M
    /\ Left(Tail(t), P, N, O, M \ {s.entry})
LinkLeft(s, t, P, N, O, M) ==
    /\ P = {} /\ N = {} /\ M = {} /\ Tail(t) = << >>
    /\ \E a, b \in Entries : PairOK(a, b) /\ s.entry = <<a[2], b[2]>> /\ O = {a, b}

NextLeft(s, t, P, N, O, M) ==
    \/ s.do = "open" /\ OpenLeft(s, t, P, N, O, M)
    \/ s.do = "stat" /\ StatLeft(s, t, P, N, O, M)
    \/ s.do = "alloc" /\ AllocLeft(s, t, P, N, O, M)
    \/ s.do = "dup" /\ DupLeft(s, t, P, N, O, M)
    \/ s.do \in {"free", "disconnect"} /\ FreeLeft(s, t, P, N, O, M)
    \/ s.do \in {"close", "drop"} /\ CloseLeft(s, t, P, N, O, M)
    \/ s.do = "link" /\ LinkLeft(s, t, P, N, O, M)

LEMMA LeftOfInit ==
    ASSUME NEW t, NEW P, NEW N, NEW O, NEW M, NEW e \in Entries, NEW c \in Connectors,
           InitLeft(e, c, t, P, N, O, M)
    PROVE  Left(t, P, N, O, M)
BY DEF Left

LEMMA LeftOfEnd ==
    ASSUME NEW t, NEW e \in Entries, NEW M, M = {e},
           t \in {<<Simple("close", e)>>, <<FreeDo(e), Simple("drop", e)>>, <<Simple("drop", e)>>,
                  <<Simple("disconnect", e), Simple("drop", e)>>}
    PROVE  Left(t, {}, {}, {}, M)
<1>1. EndLeft(e, t, {}, {}, {}, M)
    BY DEF EndLeft
<1> QED
    BY <1>1, Zenon DEF Left

LEMMA LeftOfConnect ==
    ASSUME NEW t, NEW P, NEW N, NEW O, NEW M, NEW a \in Entries, NEW b \in Entries, PairOK(a, b),
           NEW c \in Connectors, ConnectLeft(a, b, c, t, P, N, O, M)
    PROVE  Left(t, P, N, O, M)
BY Zenon DEF Left

LEMMA LeftOfDisconnect ==
    ASSUME NEW t, NEW a \in Entries, NEW b \in Entries, a # b, NEW M, M = {a, b},
           t \in {<<Simple("disconnect", b), Simple("drop", b),
                    Simple("disconnect", a), Simple("drop", a)>>,
                  <<Simple("drop", b), Simple("disconnect", a), Simple("drop", a)>>}
    PROVE  Left(t, {}, {}, {}, M)
<1>1. DisconnectLeft(a, b, t, {}, {}, {}, M)
    BY DEF DisconnectLeft
<1> QED
    BY <1>1, Zenon DEF Left

LEMMA LeftNothing == Left(<< >>, {}, {}, {}, {})
BY DEF Left

LEMMA InitNext ==
    ASSUME NEW t, NEW P, NEW N, NEW O, NEW M, NEW e \in Entries, NEW c \in Connectors,
           InitLeft(e, c, t, P, N, O, M)
    PROVE  NextLeft(Head(t), t, P, N, O, M)
<1>1. CASE /\ t = <<Simple("open", e), StatDo(e), AllocDo(e, c), DupDo(e, c)>>
           /\ P = {e} /\ N = {} /\ O = {} /\ M = {}
    <2>1. Head(t) = Simple("open", e) /\ Tail(t) = <<StatDo(e), AllocDo(e, c), DupDo(e, c)>>
        BY <1>1, Lists
    <2>2. InitLeft(e, c, Tail(t), P \ {e}, N \cup {e}, O, M)
        BY <1>1, <2>1 DEF InitLeft
    <2>3. Left(Tail(t), P \ {e}, N \cup {e}, O, M)
        BY <2>2, LeftOfInit
    <2>4. Head(t).do = "open" /\ Head(t).entry = e /\ Head(t).undo = << >>
        BY <2>1, Dos
    <2>5. OpenLeft(Head(t), t, P, N, O, M)
        BY <1>1, <2>3, <2>4, Zenon DEF OpenLeft
    <2> QED
        BY <2>4, <2>5, Zenon DEF NextLeft
<1>2. CASE /\ t = <<StatDo(e), AllocDo(e, c), DupDo(e, c)>>
           /\ P = {} /\ N = {e} /\ O = {} /\ M = {}
    <2>1. Head(t) = StatDo(e) /\ Tail(t) = <<AllocDo(e, c), DupDo(e, c)>>
        BY <1>2, Lists
    <2>2. InitLeft(e, c, Tail(t), {}, {e}, {}, {})
        BY <2>1 DEF InitLeft
    <2>3. Left(Tail(t), {}, {e}, {}, {})
        BY <2>2, LeftOfInit
    <2> QED
        BY <1>2, <2>1, <2>3, Dos DEF NextLeft, StatLeft
<1>3. CASE t = <<AllocDo(e, c), DupDo(e, c)>> /\ P = {} /\ N = {e} /\ O = {} /\ M = {}
    <2>1. Head(t) = AllocDo(e, c) /\ Tail(t) = <<DupDo(e, c)>>
        BY <1>3, Lists
    <2>2. InitLeft(e, c, Tail(t), P, N \ {e}, O \cup {e}, M)
        BY <1>3, <2>1 DEF InitLeft
    <2>3. Left(Tail(t), P, N \ {e}, O \cup {e}, M)
        BY <2>2, LeftOfInit
    <2>4. {e} \cup O = {e}
        BY <1>3
    <2>5. Left(<<Simple("close", e)>>, {}, {}, {}, {e} \cup O)
        BY <2>4, LeftOfEnd
    <2>6. /\ Head(t).do = "alloc" /\ Head(t).entry = e /\ Head(t).kind \in Kinds
          /\ Head(t).conn \in Connectors /\ Head(t).undo = <<Simple("close", e)>>
        BY <2>1, Dos, EntryIn DEF Kinds
    <2>7. e \in N
        BY <1>3
    <2>8. AllocLeft(Head(t), t, P, N, O, M)
        BY <1>3, <2>3, <2>5, <2>6, <2>7, Zenon DEF AllocLeft
    <2> QED
        BY <2>6, <2>8, Zenon DEF NextLeft
<1>4. CASE t = <<DupDo(e, c)>> /\ P = {} /\ N = {} /\ O = {e} /\ M = {}
    <2>1. Head(t) = DupDo(e, c) /\ Tail(t) = << >>
        BY <1>4, Lists
    <2> QED
        BY <1>4, <2>1, Dos DEF NextLeft, DupLeft
<1> QED
    BY <1>1, <1>2, <1>3, <1>4 DEF InitLeft

LEMMA EndNext ==
    ASSUME NEW t, NEW P, NEW N, NEW O, NEW M, NEW e \in Entries, EndLeft(e, t, P, N, O, M)
    PROVE  NextLeft(Head(t), t, P, N, O, M)
<1>1. P = {} /\ N = {} /\ O = {} /\ M = {e} /\ M \ {e} = {}
    BY DEF EndLeft
<1>2. CASE t \in {<<Simple("close", e)>>, <<Simple("drop", e)>>}
    <2>1. Head(t) \in {Simple("close", e), Simple("drop", e)} /\ Tail(t) = << >>
        BY <1>2, Lists
    <2>2. Head(t).do \in {"close", "drop"} /\ Head(t).entry = e
        BY <2>1, Dos
    <2> QED
        BY <1>1, <2>1, <2>2, LeftNothing DEF NextLeft, CloseLeft
<1>3. CASE t \in {<<FreeDo(e), Simple("drop", e)>>, <<Simple("disconnect", e), Simple("drop", e)>>}
    <2>1. Head(t) \in {FreeDo(e), Simple("disconnect", e)} /\ Tail(t) = <<Simple("drop", e)>>
        <3>1. CASE t = <<FreeDo(e), Simple("drop", e)>>
            BY <3>1, Lists
        <3>2. CASE t = <<Simple("disconnect", e), Simple("drop", e)>>
            BY <3>2, Lists
        <3> QED
            BY <1>3, <3>1, <3>2
    <2>2. Left(Tail(t), {}, {}, {}, {e})
        BY <2>1, LeftOfEnd
    <2>3. /\ Head(t).do \in {"free", "disconnect"} /\ Head(t).entry = e
          /\ Head(t).do = "free" => Head(t).undo = <<Simple("close", e)>>
        BY <2>1, Dos
    <2> QED
        BY <1>1, <2>2, <2>3 DEF NextLeft, FreeLeft
<1> QED
    BY <1>2, <1>3 DEF EndLeft

LEMMA DisconnectNext ==
    ASSUME NEW t, NEW P, NEW N, NEW O, NEW M, NEW a \in Entries, NEW b \in Entries, a # b,
           DisconnectLeft(a, b, t, P, N, O, M)
    PROVE  NextLeft(Head(t), t, P, N, O, M)
<1>1. P = {} /\ N = {} /\ O = {} /\ M = {a, b} /\ M \ {b} = {a}
    BY DEF DisconnectLeft
<1>2. CASE t = <<Simple("disconnect", b), Simple("drop", b),
                 Simple("disconnect", a), Simple("drop", a)>>
    <2>1. /\ Head(t) = Simple("disconnect", b)
          /\ Tail(t) = <<Simple("drop", b), Simple("disconnect", a), Simple("drop", a)>>
        BY <1>2, Lists
    <2>2. Left(Tail(t), {}, {}, {}, {a, b})
        BY <2>1, LeftOfDisconnect
    <2> QED
        BY <1>1, <2>1, <2>2, Dos DEF NextLeft, FreeLeft
<1>3. CASE t = <<Simple("drop", b), Simple("disconnect", a), Simple("drop", a)>>
    <2>1. /\ Head(t) = Simple("drop", b)
          /\ Tail(t) = <<Simple("disconnect", a), Simple("drop", a)>>
        BY <1>3, Lists
    <2>2. Left(Tail(t), P, N, O, M \ {b})
        BY <1>1, <2>1, LeftOfEnd
    <2>3. Head(t).do = "drop" /\ Head(t).entry = b /\ b \in M
        BY <1>1, <2>1, Dos
    <2>4. CloseLeft(Head(t), t, P, N, O, M)
        BY <1>1, <2>2, <2>3, Zenon DEF CloseLeft
    <2> QED
        BY <2>3, <2>4 DEF NextLeft
<1> QED
    BY <1>2, <1>3 DEF DisconnectLeft

LEMMA ConnectNext ==
    ASSUME NEW t, NEW P, NEW N, NEW O, NEW M, NEW a \in Entries, NEW b \in Entries, PairOK(a, b),
           NEW c \in Connectors, ConnectLeft(a, b, c, t, P, N, O, M)
    PROVE  NextLeft(Head(t), t, P, N, O, M)
<1>0. M = {} /\ a # b
    BY DEF ConnectLeft, PairOK
<1>1. CASE /\ t = <<Simple("open", a), StatDo(a), Simple("open", b), StatDo(b),
                    TxDo(a, c), RxDo(a, b, c), LinkDo(a, b)>>
           /\ P = {a, b} /\ N = {} /\ O = {}
    <2>1. /\ Head(t) = Simple("open", a)
          /\ Tail(t) = <<StatDo(a), Simple("open", b), StatDo(b),
                         TxDo(a, c), RxDo(a, b, c), LinkDo(a, b)>>
        BY <1>1, Lists
    <2>2. ConnectLeft(a, b, c, Tail(t), P \ {a}, N \cup {a}, O, M)
        BY <1>0, <1>1, <2>1 DEF ConnectLeft
    <2>3. Left(Tail(t), P \ {a}, N \cup {a}, O, M)
        BY <2>2, LeftOfConnect
    <2>4. Head(t).do = "open" /\ Head(t).entry = a /\ Head(t).undo = << >> /\ a \in P
        BY <1>1, <2>1, Dos
    <2>5. OpenLeft(Head(t), t, P, N, O, M)
        BY <1>0, <1>1, <2>3, <2>4, Zenon DEF OpenLeft
    <2> QED
        BY <2>4, <2>5, Zenon DEF NextLeft
<1>2. CASE /\ t = <<StatDo(a), Simple("open", b), StatDo(b),
                    TxDo(a, c), RxDo(a, b, c), LinkDo(a, b)>>
           /\ P = {b} /\ N = {a} /\ O = {}
    <2>1. /\ Head(t) = StatDo(a)
          /\ Tail(t) = <<Simple("open", b), StatDo(b), TxDo(a, c), RxDo(a, b, c), LinkDo(a, b)>>
        BY <1>2, Lists
    <2>2. ConnectLeft(a, b, c, Tail(t), {b}, {a}, {}, {})
        BY <2>1 DEF ConnectLeft
    <2>3. Left(Tail(t), {b}, {a}, {}, {})
        BY <2>2, LeftOfConnect
    <2> QED
        BY <1>0, <1>2, <2>1, <2>3, Dos DEF NextLeft, StatLeft
<1>3. CASE /\ t = <<Simple("open", b), StatDo(b), TxDo(a, c), RxDo(a, b, c), LinkDo(a, b)>>
           /\ P = {b} /\ N = {a} /\ O = {}
    <2>1. /\ Head(t) = Simple("open", b)
          /\ Tail(t) = <<StatDo(b), TxDo(a, c), RxDo(a, b, c), LinkDo(a, b)>>
        BY <1>3, Lists
    <2>2. ConnectLeft(a, b, c, Tail(t), P \ {b}, N \cup {b}, O, M)
        BY <1>0, <1>3, <2>1 DEF ConnectLeft
    <2>3. Left(Tail(t), P \ {b}, N \cup {b}, O, M)
        BY <2>2, LeftOfConnect
    <2>4. Head(t).do = "open" /\ Head(t).entry = b /\ Head(t).undo = << >> /\ b \in P
        BY <1>3, <2>1, Dos
    <2>5. OpenLeft(Head(t), t, P, N, O, M)
        BY <1>0, <1>3, <2>3, <2>4, Zenon DEF OpenLeft
    <2> QED
        BY <2>4, <2>5, Zenon DEF NextLeft
<1>4. CASE /\ t = <<StatDo(b), TxDo(a, c), RxDo(a, b, c), LinkDo(a, b)>>
           /\ P = {} /\ N = {a, b} /\ O = {}
    <2>1. Head(t) = StatDo(b) /\ Tail(t) = <<TxDo(a, c), RxDo(a, b, c), LinkDo(a, b)>>
        BY <1>4, Lists
    <2>2. ConnectLeft(a, b, c, Tail(t), {}, {a, b}, {}, {})
        BY <2>1 DEF ConnectLeft
    <2>3. Left(Tail(t), {}, {a, b}, {}, {})
        BY <2>2, LeftOfConnect
    <2> QED
        BY <1>0, <1>4, <2>1, <2>3, Dos DEF NextLeft, StatLeft
<1>5. CASE /\ t = <<TxDo(a, c), RxDo(a, b, c), LinkDo(a, b)>>
           /\ P = {} /\ N = {a, b} /\ O = {}
    <2>1. Head(t) = TxDo(a, c) /\ Tail(t) = <<RxDo(a, b, c), LinkDo(a, b)>>
        BY <1>5, Lists
    <2>2. ConnectLeft(a, b, c, Tail(t), P, N \ {a}, O \cup {a}, M)
        BY <1>0, <1>5, <2>1 DEF ConnectLeft
    <2>3. Left(Tail(t), P, N \ {a}, O \cup {a}, M)
        BY <2>2, LeftOfConnect
    <2>4. {a} \cup O = {a} /\ a \in N
        BY <1>5
    <2>5. Left(<<Simple("drop", a)>>,
               {}, {}, {}, {a} \cup O)
        BY <1>0, <2>4, LeftOfEnd
    <2>6. /\ Head(t).do = "alloc" /\ Head(t).entry = a /\ Head(t).kind \in Kinds
          /\ Head(t).conn \in Connectors /\ Head(t).undo = <<Simple("drop", a)>>
        BY <2>1, Dos DEF Kinds
    <2>7. AllocLeft(Head(t), t, P, N, O, M)
        BY <1>0, <1>5, <2>3, <2>4, <2>5, <2>6, Zenon DEF AllocLeft
    <2> QED
        BY <2>6, <2>7, Zenon DEF NextLeft
<1>6. CASE t = <<RxDo(a, b, c), LinkDo(a, b)>> /\ P = {} /\ N = {b} /\ O = {a}
    <2>1. Head(t) = RxDo(a, b, c) /\ Tail(t) = <<LinkDo(a, b)>>
        BY <1>6, Lists
    <2>2. ConnectLeft(a, b, c, Tail(t), P, N \ {b}, O \cup {b}, M)
        BY <1>0, <1>6, <2>1 DEF ConnectLeft
    <2>3. Left(Tail(t), P, N \ {b}, O \cup {b}, M)
        BY <2>2, LeftOfConnect
    <2>4. {b} \cup O = {a, b} /\ b \in N
        BY <1>6
    <2>5. Left(<<Simple("drop", b), Simple("disconnect", a), Simple("drop", a)>>,
               {}, {}, {}, {b} \cup O)
        BY <1>0, <2>4, LeftOfDisconnect
    <2>6. /\ Head(t).do = "alloc" /\ Head(t).entry = b /\ Head(t).kind \in Kinds
          /\ Head(t).conn \in Connectors
          /\ Head(t).undo = <<Simple("drop", b), Simple("disconnect", a), Simple("drop", a)>>
        BY <2>1, Dos DEF Kinds
    <2>7. AllocLeft(Head(t), t, P, N, O, M)
        BY <1>0, <1>6, <2>3, <2>4, <2>5, <2>6, Zenon DEF AllocLeft
    <2> QED
        BY <2>6, <2>7, Zenon DEF NextLeft
<1>7. CASE t = <<LinkDo(a, b)>> /\ P = {} /\ N = {} /\ O = {a, b}
    <2>1. Head(t) = LinkDo(a, b) /\ Tail(t) = << >>
        BY <1>7, Lists
    <2> QED
        BY <1>0, <1>7, <2>1, Dos DEF NextLeft, LinkLeft
<1> QED
    BY <1>1, <1>2, <1>3, <1>4, <1>5, <1>6, <1>7, Zenon DEF ConnectLeft

LEMMA LeftNext ==
    ASSUME NEW t, NEW P, NEW N, NEW O, NEW M, Left(t, P, N, O, M), t # << >>
    PROVE  NextLeft(Head(t), t, P, N, O, M)
BY InitNext, EndNext, ConnectNext, DisconnectNext, Zenon DEF Left

-----------------------------------------------------------------------------
(* How the table and the files of a process stay in step.                  *)

\* The table is as before where it is in use, and so is libdma.c's.
SameTable(p, U) ==
    /\ \A e \in U : fd_get_queue'[p][e] = fd_get_queue[p][e]
    /\ \A ch \in Channels : refs'[p][ch] = refs[p][ch]
    /\ \A ch \in Channels : fd_ref_queue'[p][ch] = fd_ref_queue[p][ch]

LEMMA FitsFile ==
    ASSUME NEW p, NEW P, NEW N, NEW O, NEW M, Fits(p, P, N, O, M),
           NEW e \in InUse(p, N, O, M)
    PROVE  fd_get_queue[p][e] \in Fds
BY DEF Fits, Distinct

LEMMA OwnIsMay ==
    ASSUME NEW f, NEW ch, half[f] = Idle, IsOwn(f, ch)
    PROVE  IsMay(f, ch)
BY Shapes DEF IsOwn, IsMay

\* No file has changed: the library's own steps, which may move an entry from
\* one set to another.
LEMMA LogicFits ==
    ASSUME NEW p \in Procs, NEW P, NEW N, NEW O, NEW M, Fits(p, P, N, O, M),
           InUser(p), UNCHANGED vars, SameTable(p, InUse(p, N, O, M)),
           NEW P2, NEW N2, NEW O2, NEW M2, NEW H2, H2 = Mine(p)', Apart(P2, N2, O2, M2, H2),
           N2 \subseteq N, O2 \cup H2 \subseteq O \cup Mine(p),
           M2 \subseteq N \cup O \cup M \cup Mine(p),
           O \cup M \cup Mine(p) \subseteq O2 \cup M2 \cup H2
    PROVE  Fits(p, P2, N2, O2, M2)'
<1>1. PICK U : U = InUse(p, N, O, M)
    OBVIOUS
<1>2. \A e \in U : /\ fd_get_queue[p][e] \in Fds /\ fd_get_queue'[p][e] = fd_get_queue[p][e]
                   /\ half[File(p, e)] = Idle /\ File(p, e)' = File(p, e)
    <2> SUFFICES ASSUME NEW e \in U
                 PROVE  /\ fd_get_queue[p][e] \in Fds /\ fd_get_queue'[p][e] = fd_get_queue[p][e]
                        /\ half[File(p, e)] = Idle /\ File(p, e)' = File(p, e)
        OBVIOUS
    <2>1. fd_get_queue[p][e] \in Fds /\ fd_get_queue'[p][e] = fd_get_queue[p][e]
        BY <1>1, FitsFile DEF SameTable
    <2>2. half[<<p, fd_get_queue[p][e]>>] = Idle
        BY <2>1 DEF InUser
    <2> QED
        BY <2>1, <2>2 DEF File
<1>3. N \cup O \cup M \cup Mine(p) = U /\ N2 \cup O2 \cup M2 \cup H2 \subseteq U
    BY <1>1 DEF InUse
<1>4. UNCHANGED <<private, half, active>>
    BY DEF vars
<1>5. \A f, ch : Owns(f, ch)' => Owns(f, ch)
    BY <1>4 DEF Owns, Taking
<1>6. Kept(p, N2, O2, M2)'
    <2>1. ASSUME NEW e \in N2 PROVE IsNew(File(p, e))'
        <3>1. IsNew(File(p, e))
            BY <2>1 DEF Fits, Kept
        <3> QED
            BY <1>2, <1>3, <1>4, <3>1 DEF IsNew
    <2>2. ASSUME NEW e \in O2 \cup H2 PROVE IsOwn(File(p, e), e[2])'
        <3>1. IsOwn(File(p, e), e[2])
            BY <2>2 DEF Fits, Kept
        <3> QED
            BY <1>2, <1>3, <1>4, <3>1 DEF IsOwn
    <2>3. ASSUME NEW e \in M2 PROVE IsMay(File(p, e), e[2])'
        <3>1. IsMay(File(p, e), e[2])
            <4>1. CASE e \in N
                BY <4>1 DEF Fits, Kept, IsMay
            <4>2. CASE e \in M
                BY <4>2 DEF Fits, Kept
            <4>3. CASE e \in O \cup Mine(p)
                BY <4>3, <1>2, <1>3, OwnIsMay DEF Fits, Kept
            <4> QED
                BY <2>3, <4>1, <4>2, <4>3
        <3> QED
            BY <1>2, <1>3, <1>4, <2>3, <3>1 DEF IsMay, IsNew, IsUndoing
    <2>4. ASSUME NEW e \in H2 PROVE (half[File(p, e)].half # "start")'
        BY <1>2, <1>3, <1>4, Shapes
    <2> QED
        BY <2>1, <2>2, <2>3, <2>4 DEF Kept
<1>7. Distinct(p, InUse(p, N2, O2, M2))'
    <2>1. \A e, g \in U : fd_get_queue[p][e] = fd_get_queue[p][g] => e = g
        BY <1>1 DEF Fits, Distinct
    <2> QED
        BY <1>2, <1>3, <2>1 DEF Distinct, InUse
<1>8. Covered(p, O2 \cup M2 \cup Mine(p))'
    <2> SUFFICES ASSUME NEW fd \in Fds, NEW ch \in Channels, Owns(<<p, fd>>, ch)',
                        half'[<<p, fd>>].half # "release"
                 PROVE  \E e \in O2 \cup M2 \cup H2 : fd_get_queue'[p][e] = fd
        BY DEF Covered
    <2>1. Owns(<<p, fd>>, ch) /\ half[<<p, fd>>].half # "release"
        BY <1>4, <1>5
    <2>2. PICK e \in O \cup M \cup Mine(p) : fd_get_queue[p][e] = fd
        BY <2>1 DEF Fits, Covered
    <2> QED
        BY <1>2, <1>3, <2>2
<1>9. RefsFit(p, InUse(p, N2, O2, M2))'
    <2> SUFFICES ASSUME NEW ch \in Channels, refs'[p][ch] # 0
                 PROVE  /\ fd_ref_queue'[p][ch] \in Fds
                        /\ IsRef(<<p, fd_ref_queue[p][ch]>>)'
                        /\ \A e \in N2 \cup O2 \cup M2 \cup H2 :
                              fd_get_queue'[p][e] # fd_ref_queue'[p][ch]
        BY DEF RefsFit, InUse
    <2>1. refs[p][ch] # 0 /\ fd_ref_queue'[p][ch] = fd_ref_queue[p][ch]
        BY DEF SameTable
    <2>2. /\ fd_ref_queue[p][ch] \in Fds /\ IsRef(<<p, fd_ref_queue[p][ch]>>)
          /\ \A e \in U : fd_get_queue[p][e] # fd_ref_queue[p][ch]
        BY <1>1, <2>1 DEF Fits, RefsFit
    <2>3. IsRef(<<p, fd_ref_queue[p][ch]>>)'
        BY <1>4, <2>1, <2>2 DEF IsRef
    <2> QED
        BY <1>2, <1>3, <2>1, <2>2, <2>3
<1>10. Apart(P2, N2, O2, M2, Mine(p))'
    BY DEF Apart
<1> QED
    BY <1>6, <1>7, <1>8, <1>9, <1>10 DEF Fits

\* One file of the process has changed, that of the entry in X if there is
\* one, which may have moved to another set.
LEMMA TouchFits ==
    ASSUME ChannelInv, NEW p \in Procs, NEW fd \in Fds, NEW f, f = <<p, fd>>, Touches(f),
           NEW P, NEW N, NEW O, NEW M, Fits(p, P, N, O, M), Mine(p)' = Mine(p),
           NEW X \in SUBSET Entries, \A e, g \in X : e = g, X \cap Mine(p) = {},
           NEW P2, NEW N2, NEW O2, NEW M2, Apart(P2, N2, O2, M2, Mine(p)),
           N2 \ X \subseteq N, O2 \ X \subseteq O, M2 \ X \subseteq M,
           (O \cup M) \ X \subseteq O2 \cup M2,
           \A e \in (N2 \cup O2 \cup M2 \cup Mine(p)) \ X :
              fd_get_queue'[p][e] = fd_get_queue[p][e] /\ fd_get_queue[p][e] # fd,
           \A e \in X : e \in N2 \cup O2 \cup M2 => fd_get_queue'[p][e] = fd,
           \A e \in X : e \in O \cup M => fd_get_queue[p][e] = fd,
           \A e \in X : e \in N2 => IsNew(f)',
           \A e \in X : e \in O2 => IsOwn(f, e[2])',
           \A e \in X : e \in M2 => IsMay(f, e[2])',
           \A ch \in Channels : Owns(f, ch)' /\ half'[f].half # "release" =>
              \E e \in X : e \in O2 \cup M2,
           \A ch \in Channels : refs'[p][ch] # 0 =>
              \/ /\ refs[p][ch] # 0 /\ fd_ref_queue'[p][ch] = fd_ref_queue[p][ch]
                 /\ fd_ref_queue[p][ch] # fd
              \/ fd_ref_queue'[p][ch] = fd /\ IsRef(f)' /\ X = {}
    PROVE  Fits(p, P2, N2, O2, M2)'
<1>1. PICK U : U = N2 \cup O2 \cup M2 \cup Mine(p)
    OBVIOUS
<1>2. \A fe \in Fds : <<p, fe>> \in Files
    BY FileIn
<1>3. ASSUME NEW fe \in Fds, fe # fd PROVE SameFile(<<p, fe>>)
    <2>1. <<p, fe>> # f /\ f \in Files /\ <<p, fe>> \in Files
        BY <1>2, <1>3
    <2> QED
        BY <2>1, TouchRest
<1>4. ASSUME NEW e \in U, e \notin X
      PROVE  /\ e \in InUse(p, N, O, M) /\ fd_get_queue[p][e] \in Fds
             /\ fd_get_queue'[p][e] = fd_get_queue[p][e] /\ fd_get_queue[p][e] # fd
             /\ SameFile(File(p, e)) /\ File(p, e)' = File(p, e) /\ e[2] \in Channels
    <2>1. /\ e \in InUse(p, N, O, M) /\ fd_get_queue'[p][e] = fd_get_queue[p][e]
          /\ fd_get_queue[p][e] # fd
        BY <1>1, <1>4 DEF InUse
    <2>2. fd_get_queue[p][e] \in Fds
        BY <2>1, FitsFile
    <2>3. SameFile(<<p, fd_get_queue[p][e]>>)
        BY <1>3, <2>1, <2>2
    <2>4. e \in Entries
        BY <1>1, <1>4 DEF Apart
    <2> QED
        BY <2>1, <2>2, <2>3, <2>4, EntryIn DEF File
<1>5. ASSUME NEW e \in X, e \in U
      PROVE  fd_get_queue'[p][e] = fd /\ File(p, e)' = f /\ e \in N2 \cup O2 \cup M2
    BY <1>1, <1>5 DEF File
<1>6. Kept(p, N2, O2, M2)'
    <2>1. ASSUME NEW e \in N2 PROVE IsNew(File(p, e))'
        <3>1. CASE e \in X
            BY <1>1, <1>5, <3>1, <2>1 DEF IsNew
        <3>2. CASE e \notin X
            <4>1. IsNew(File(p, e))
                BY <2>1, <3>2 DEF Fits, Kept
            <4> QED
                BY <1>1, <1>4, <3>2, <4>1 DEF SameFile, IsNew
        <3> QED
            BY <3>1, <3>2
    <2>2. ASSUME NEW e \in O2 \cup Mine(p) PROVE IsOwn(File(p, e), e[2])'
        <3>1. CASE e \in X
            BY <1>1, <1>5, <3>1, <2>2 DEF IsOwn
        <3>2. CASE e \notin X
            <4>1. IsOwn(File(p, e), e[2])
                BY <2>2, <3>2 DEF Fits, Kept
            <4> QED
                BY <1>1, <1>4, <3>2, <4>1 DEF SameFile, IsOwn
        <3> QED
            BY <3>1, <3>2
    <2>3. ASSUME NEW e \in M2 PROVE IsMay(File(p, e), e[2])'
        <3>1. CASE e \in X
            BY <1>1, <1>5, <3>1, <2>3 DEF IsMay, IsNew, IsUndoing
        <3>2. CASE e \notin X
            <4>1. IsMay(File(p, e), e[2])
                BY <2>3, <3>2 DEF Fits, Kept
            <4> QED
                BY <1>1, <1>4, <3>2, <4>1 DEF SameFile, IsMay, IsNew, IsUndoing
        <3> QED
            BY <3>1, <3>2
    <2>4. ASSUME NEW e \in Mine(p) PROVE (half[File(p, e)].half # "start")'
        <3>1. half[File(p, e)].half # "start"
            BY DEF Fits, Kept
        <3>2. e \in U /\ e \notin X
            BY <1>1
        <3> QED
            BY <1>4, <3>1, <3>2 DEF SameFile
    <2> QED
        BY <2>1, <2>2, <2>3, <2>4 DEF Kept
<1>7. Distinct(p, InUse(p, N2, O2, M2))'
    <2>1. \A e, g \in InUse(p, N, O, M) : fd_get_queue[p][e] = fd_get_queue[p][g] => e = g
        BY DEF Fits, Distinct
    <2>2. \A e \in U : fd_get_queue'[p][e] \in Fds
        BY <1>4, <1>5
    <2>3. ASSUME NEW e \in U, NEW g \in U, fd_get_queue'[p][e] = fd_get_queue'[p][g] PROVE e = g
        BY <1>4, <1>5, <2>1, <2>3
    <2> QED
        BY <1>1, <2>2, <2>3 DEF Distinct, InUse
<1>8. Covered(p, O2 \cup M2 \cup Mine(p))'
    <2> SUFFICES ASSUME NEW fe \in Fds, NEW ch \in Channels, Owns(<<p, fe>>, ch)',
                        half'[<<p, fe>>].half # "release"
                 PROVE  \E e \in O2 \cup M2 \cup Mine(p) : fd_get_queue'[p][e] = fe
        BY DEF Covered
    <2>1. CASE fe = fd
        <3>1. PICK e \in X : e \in O2 \cup M2
            BY <2>1
        <3> QED
            BY <1>1, <1>5, <2>1, <3>1
    <2>2. CASE fe # fd
        <3>1. Owns(<<p, fe>>, ch) /\ half[<<p, fe>>].half # "release"
            BY <1>3, <2>2 DEF SameFile
        <3>2. PICK e \in O \cup M \cup Mine(p) : fd_get_queue[p][e] = fe
            BY <3>1 DEF Fits, Covered
        <3>3. e \notin X
            BY <2>2, <3>2
        <3>4. e \in O2 \cup M2 \cup Mine(p)
            BY <3>2, <3>3
        <3> QED
            BY <1>1, <1>4, <3>2, <3>3, <3>4
    <2> QED
        BY <2>1, <2>2
<1>9. RefsFit(p, InUse(p, N2, O2, M2))'
    <2> SUFFICES ASSUME NEW ch \in Channels, refs'[p][ch] # 0
                 PROVE  /\ fd_ref_queue'[p][ch] \in Fds
                        /\ IsRef(<<p, fd_ref_queue[p][ch]>>)'
                        /\ \A e \in U : fd_get_queue'[p][e] # fd_ref_queue'[p][ch]
        BY <1>1 DEF RefsFit, InUse
    <2>1. CASE /\ refs[p][ch] # 0 /\ fd_ref_queue'[p][ch] = fd_ref_queue[p][ch]
               /\ fd_ref_queue[p][ch] # fd
        <3>1. /\ fd_ref_queue[p][ch] \in Fds /\ IsRef(<<p, fd_ref_queue[p][ch]>>)
              /\ \A e \in InUse(p, N, O, M) : fd_get_queue[p][e] # fd_ref_queue[p][ch]
            BY <2>1 DEF Fits, RefsFit
        <3>2. SameFile(<<p, fd_ref_queue[p][ch]>>)
            BY <1>3, <2>1, <3>1
        <3>3. IsRef(<<p, fd_ref_queue[p][ch]>>)'
            BY <2>1, <3>1, <3>2 DEF SameFile, IsRef
        <3> QED
            BY <1>4, <1>5, <2>1, <3>1, <3>3
    <2>2. CASE fd_ref_queue'[p][ch] = fd /\ IsRef(f)' /\ X = {}
        <3>1. IsRef(<<p, fd_ref_queue[p][ch]>>)'
            BY <2>2 DEF IsRef
        <3> QED
            BY <1>4, <2>2, <3>1
    <2> QED
        BY <2>1, <2>2
<1>10. Apart(P2, N2, O2, M2, Mine(p))'
    BY DEF Apart
<1> QED
    BY <1>6, <1>7, <1>8, <1>9, <1>10 DEF Fits

\* The same for one entry, with no binding concerned.
LEMMA EntryFits ==
    ASSUME ChannelInv, NEW p \in Procs, NEW fd \in Fds, NEW f, f = <<p, fd>>, Touches(f),
           NEW P, NEW N, NEW O, NEW M, Fits(p, P, N, O, M), Mine(p)' = Mine(p),
           NEW e \in Entries, e \notin Mine(p),
           NEW P2, NEW N2, NEW O2, NEW M2, Apart(P2, N2, O2, M2, Mine(p)),
           N2 \ {e} \subseteq N, O2 \ {e} \subseteq O, M2 \ {e} \subseteq M,
           (O \cup M) \ {e} \subseteq O2 \cup M2,
           \A g \in N2 \cup O2 \cup M2 \cup Mine(p) : g # e =>
              fd_get_queue'[p][g] = fd_get_queue[p][g] /\ fd_get_queue[p][g] # fd,
           e \in N2 \cup O2 \cup M2 => fd_get_queue'[p][e] = fd,
           e \in O \cup M => fd_get_queue[p][e] = fd,
           e \in N2 => IsNew(f)', e \in O2 => IsOwn(f, e[2])', e \in M2 => IsMay(f, e[2])',
           \A ch \in Channels : Owns(f, ch)' /\ half'[f].half # "release" => e \in O2 \cup M2,
           refs'[p] = refs[p], fd_ref_queue'[p] = fd_ref_queue[p],
           \A ch \in Channels : refs[p][ch] # 0 => fd_ref_queue[p][ch] # fd
    PROVE  Fits(p, P2, N2, O2, M2)'
<1>1. PICK X \in SUBSET Entries : X = {e}
    OBVIOUS
<1>2. (\A g, h \in X : g = h) /\ X \cap Mine(p) = {} /\ \A g \in X : g = e
    BY <1>1
<1>3. /\ N2 \ X \subseteq N /\ O2 \ X \subseteq O /\ M2 \ X \subseteq M
      /\ (O \cup M) \ X \subseteq O2 \cup M2
    BY <1>1
<1>4. \A g \in (N2 \cup O2 \cup M2 \cup Mine(p)) \ X :
         fd_get_queue'[p][g] = fd_get_queue[p][g] /\ fd_get_queue[p][g] # fd
    BY <1>1
<1>5. /\ \A g \in X : g \in N2 \cup O2 \cup M2 => fd_get_queue'[p][g] = fd
      /\ \A g \in X : g \in O \cup M => fd_get_queue[p][g] = fd
    BY <1>1
<1>6. /\ \A g \in X : g \in N2 => IsNew(f)'
      /\ \A g \in X : g \in O2 => IsOwn(f, g[2])'
      /\ \A g \in X : g \in M2 => IsMay(f, g[2])'
    BY <1>2
<1>7. \A ch \in Channels : Owns(f, ch)' /\ half'[f].half # "release" =>
         \E g \in X : g \in O2 \cup M2
    BY <1>1
<1>8. \A ch \in Channels : refs'[p][ch] # 0 =>
         \/ /\ refs[p][ch] # 0 /\ fd_ref_queue'[p][ch] = fd_ref_queue[p][ch]
            /\ fd_ref_queue[p][ch] # fd
         \/ fd_ref_queue'[p][ch] = fd /\ IsRef(f)' /\ X = {}
    OBVIOUS
<1> QED
    BY <1>2, <1>3, <1>4, <1>5, <1>6, <1>7, <1>8, TouchFits, SMTT(30)

\* The file of no entry: one that is bound to a queue, or about to be.
LEMMA NoEntryFits ==
    ASSUME ChannelInv, NEW p \in Procs, NEW fd \in Fds, NEW f, f = <<p, fd>>, Touches(f),
           Fits(p, {}, {}, {}, {}), Mine(p)' = Mine(p),
           \A g \in Mine(p) : fd_get_queue'[p][g] = fd_get_queue[p][g] /\ fd_get_queue[p][g] # fd,
           \A ch \in Channels : Owns(f, ch)' => half'[f].half = "release",
           \A ch \in Channels : refs'[p][ch] # 0 => fd_ref_queue'[p][ch] = fd /\ IsRef(f)'
    PROVE  Fits(p, {}, {}, {}, {})'
<1>1. Apart({}, {}, {}, {}, Mine(p))
    BY DEF Fits
<1>2. PICK Z \in SUBSET Entries : Z = {}
    OBVIOUS
<1>3. Fits(p, Z, Z, Z, Z) /\ Apart(Z, Z, Z, Z, Mine(p))
    BY <1>1, <1>2
<1>4. \A e \in Z : FALSE
    BY <1>2
<1>5. \A g \in (Z \cup Z \cup Z \cup Mine(p)) \ Z :
         fd_get_queue'[p][g] = fd_get_queue[p][g] /\ fd_get_queue[p][g] # fd
    BY <1>2
<1>6. Z \cap Mine(p) = {} /\ Z \ Z \subseteq Z /\ (Z \cup Z) \ Z \subseteq Z \cup Z
    BY <1>2
<1>7. Fits(p, Z, Z, Z, Z)'
    BY <1>2, <1>3, <1>4, <1>5, <1>6, TouchFits
<1> QED
    BY <1>2, <1>7 DEF Fits, Apart, Kept, Distinct, Covered, RefsFit, InUse

\* The kernel goes on with a call of the process: no entry moves.
LEMMA ContinueFits ==
    ASSUME ChannelInv, NEW p \in Procs, NEW fd \in Fds, Continue(<<p, fd>>),
           NEW P, NEW N, NEW O, NEW M, Fits(p, P, N, O, M), Mine(p)' = Mine(p),
           SameTable(p, InUse(p, N, O, M))
    PROVE  Fits(p, P, N, O, M)'
<1>1. PICK f : f = <<p, fd>>
    OBVIOUS
<1>2. f \in Files /\ Continue(f)
    BY <1>1, FileIn
<1>3. /\ Touches(f) /\ half[f] # Idle
      /\ half'[f].half # "release" /\ half'[f].half # "start"
      /\ \A ch \in Channels : Owns(f, ch)' => Owns(f, ch) /\ half[f].half # "release"
      /\ half[f].half # "release" =>
            \A ch \in Channels : (IsOwn(f, ch) => IsOwn(f, ch)') /\ (IsMay(f, ch) => IsMay(f, ch)')
    BY <1>2, ContinueTouches
<1>4. ASSUME NEW fe \in Fds, fe # fd PROVE SameFile(<<p, fe>>)
    <2>1. <<p, fe>> # f /\ <<p, fe>> \in Files
        BY <1>1, <1>4, FileIn
    <2> QED
        BY <1>2, <1>3, <2>1, TouchRest
<1>5. PICK U : U = N \cup O \cup M \cup Mine(p)
    OBVIOUS
<1>6. \A e \in U : /\ fd_get_queue[p][e] \in Fds /\ fd_get_queue'[p][e] = fd_get_queue[p][e]
                   /\ e[2] \in Channels
    BY <1>5, FitsFile, EntryIn DEF InUse, SameTable, Fits, Apart
<1>7. Kept(p, N, O, M)'
    <2>1. ASSUME NEW e \in N PROVE IsNew(File(p, e))'
        <3>1. IsNew(<<p, fd_get_queue[p][e]>>)
            BY <2>1 DEF Fits, Kept, File
        <3>2. fd_get_queue[p][e] # fd
            BY <1>1, <1>3, <3>1 DEF IsNew
        <3>3. SameFile(<<p, fd_get_queue[p][e]>>)
            BY <1>4, <1>5, <1>6, <2>1, <3>2
        <3> QED
            BY <1>5, <1>6, <2>1, <3>1, <3>3 DEF SameFile, IsNew, File
    <2>2. ASSUME NEW e \in O \cup Mine(p) PROVE IsOwn(File(p, e), e[2])'
        <3>1. IsOwn(<<p, fd_get_queue[p][e]>>, e[2])
            BY <2>2 DEF Fits, Kept, File
        <3>2. CASE fd_get_queue[p][e] = fd
            <4>1. half[f].half # "release"
                BY <1>1, <1>3, <3>1, <3>2 DEF IsOwn
            <4>2. IsOwn(f, e[2])'
                BY <1>1, <1>3, <1>5, <1>6, <2>2, <3>1, <3>2, <4>1
            <4> QED
                BY <1>1, <1>5, <1>6, <2>2, <3>2, <4>2 DEF IsOwn, File
        <3>3. CASE fd_get_queue[p][e] # fd
            <4>1. SameFile(<<p, fd_get_queue[p][e]>>)
                BY <1>4, <1>5, <1>6, <2>2, <3>3
            <4> QED
                BY <1>5, <1>6, <2>2, <3>1, <4>1 DEF SameFile, IsOwn, File
        <3> QED
            BY <3>2, <3>3
    <2>3. ASSUME NEW e \in M PROVE IsMay(File(p, e), e[2])'
        <3>1. IsMay(<<p, fd_get_queue[p][e]>>, e[2])
            BY <2>3 DEF Fits, Kept, File
        <3>2. CASE fd_get_queue[p][e] = fd
            <4>1. half[f].half # "release"
                BY <1>1, <1>3, <3>1, <3>2 DEF IsMay, IsNew, IsUndoing
            <4>2. IsMay(f, e[2])'
                BY <1>1, <1>3, <1>5, <1>6, <2>3, <3>1, <3>2, <4>1
            <4> QED
                BY <1>1, <1>5, <1>6, <2>3, <3>2, <4>2 DEF IsMay, IsNew, IsUndoing, File
        <3>3. CASE fd_get_queue[p][e] # fd
            <4>1. SameFile(<<p, fd_get_queue[p][e]>>)
                BY <1>4, <1>5, <1>6, <2>3, <3>3
            <4> QED
                BY <1>5, <1>6, <2>3, <3>1, <4>1 DEF SameFile, IsMay, IsNew, IsUndoing, File
        <3> QED
            BY <3>2, <3>3
    <2>4. ASSUME NEW e \in Mine(p) PROVE half'[<<p, fd_get_queue'[p][e]>>].half # "start"
        <3>1. half[<<p, fd_get_queue[p][e]>>].half # "start"
            BY DEF Fits, Kept, File
        <3>2. e \in U
            BY <1>5
        <3>3. CASE fd_get_queue[p][e] = fd
            BY <1>1, <1>3, <1>6, <3>2, <3>3
        <3>4. CASE fd_get_queue[p][e] # fd
            BY <1>4, <1>6, <3>1, <3>2, <3>4 DEF SameFile
        <3> QED
            BY <3>3, <3>4
    <2> QED
        BY <2>1, <2>2, <2>3, <2>4 DEF Kept, File
<1>8. Distinct(p, InUse(p, N, O, M))'
    <2>1. \A e, g \in U : fd_get_queue[p][e] = fd_get_queue[p][g] => e = g
        BY <1>5 DEF Fits, Distinct, InUse
    <2> QED
        BY <1>5, <1>6, <2>1 DEF Distinct, InUse
<1>9. Covered(p, O \cup M \cup Mine(p))'
    <2> SUFFICES ASSUME NEW fe \in Fds, NEW ch \in Channels, Owns(<<p, fe>>, ch)',
                        half'[<<p, fe>>].half # "release"
                 PROVE  \E e \in O \cup M \cup Mine(p) : fd_get_queue'[p][e] = fe
        BY DEF Covered
    <2>1. Owns(<<p, fe>>, ch) /\ half[<<p, fe>>].half # "release"
        BY <1>1, <1>3, <1>4 DEF SameFile
    <2>2. PICK e \in O \cup M \cup Mine(p) : fd_get_queue[p][e] = fe
        BY <2>1 DEF Fits, Covered
    <2> QED
        BY <1>5, <1>6, <2>2
<1>10. RefsFit(p, InUse(p, N, O, M))'
    <2> SUFFICES ASSUME NEW ch \in Channels, refs'[p][ch] # 0
                 PROVE  /\ fd_ref_queue'[p][ch] \in Fds
                        /\ IsRef(<<p, fd_ref_queue[p][ch]>>)'
                        /\ \A e \in U : fd_get_queue'[p][e] # fd_ref_queue'[p][ch]
        BY <1>5 DEF RefsFit, InUse
    <2>1. refs[p][ch] # 0 /\ fd_ref_queue'[p][ch] = fd_ref_queue[p][ch]
        BY DEF SameTable
    <2>2. /\ fd_ref_queue[p][ch] \in Fds /\ IsRef(<<p, fd_ref_queue[p][ch]>>)
          /\ \A e \in U : fd_get_queue[p][e] # fd_ref_queue[p][ch]
        BY <1>5, <2>1 DEF Fits, RefsFit, InUse
    <2>3. fd_ref_queue[p][ch] # fd
        BY <1>1, <1>3, <2>2 DEF IsRef
    <2>4. SameFile(<<p, fd_ref_queue[p][ch]>>)
        BY <1>4, <2>2, <2>3
    <2>5. IsRef(<<p, fd_ref_queue[p][ch]>>)'
        BY <2>1, <2>2, <2>4 DEF SameFile, IsRef
    <2> QED
        BY <1>6, <2>1, <2>2, <2>5
<1>11. Apart(P, N, O, M, Mine(p))'
    BY DEF Apart, Fits
<1> QED
    BY <1>7, <1>8, <1>9, <1>10, <1>11 DEF Fits

-----------------------------------------------------------------------------
(* What a step of one process leaves of the others.                        *)

SameProc(q) ==
    /\ fd_get_queue'[q] = fd_get_queue[q] /\ fd_ref_queue'[q] = fd_ref_queue[q]
    /\ todo'[q] = todo[q] /\ tmpfd'[q] = tmpfd[q]
    /\ held'[q] = held[q] /\ linked'[q] = linked[q] /\ refs'[q] = refs[q]
    /\ q \in dying' <=> q \in dying

LEMMA SameUser ==
    ASSUME NEW q, UserOK(q), held'[q] = held[q], linked'[q] = linked[q], refs'[q] = refs[q]
    PROVE  UserOK(q)' /\ Mine(q)' = Mine(q)
BY DEF UserOK, Mine

LEMMA FrameFits ==
    ASSUME NEW q \in Procs, NEW P, NEW N, NEW O, NEW M, Fits(q, P, N, O, M),
           SameProc(q), UserOK(q), \A fd \in Fds : SameFile(<<q, fd>>)
    PROVE  Fits(q, P, N, O, M)'
<1>1. PICK U : U = N \cup O \cup M \cup Mine(q)
    OBVIOUS
<1>2. \A e \in U : /\ fd_get_queue[q][e] \in Fds /\ fd_get_queue'[q][e] = fd_get_queue[q][e]
                   /\ SameFile(<<q, fd_get_queue[q][e]>>) /\ e[2] \in Channels
    <2>1. \A e \in U : fd_get_queue[q][e] \in Fds /\ e[2] \in Channels
        BY <1>1, FitsFile, EntryIn DEF InUse, Fits, Apart
    <2> QED
        BY <2>1 DEF SameProc
<1>3. Mine(q)' = Mine(q)
    BY SameUser DEF SameProc
<1>4. Kept(q, N, O, M)'
    <2>1. ASSUME NEW e \in N PROVE IsNew(File(q, e))'
        <3>1. IsNew(<<q, fd_get_queue[q][e]>>)
            BY <2>1 DEF Fits, Kept, File
        <3> QED
            BY <1>1, <1>2, <2>1, <3>1 DEF SameFile, IsNew, File
    <2>2. ASSUME NEW e \in O \cup Mine(q) PROVE IsOwn(File(q, e), e[2])'
        <3>1. IsOwn(<<q, fd_get_queue[q][e]>>, e[2])
            BY <2>2 DEF Fits, Kept, File
        <3> QED
            BY <1>1, <1>2, <2>2, <3>1 DEF SameFile, IsOwn, File
    <2>3. ASSUME NEW e \in M PROVE IsMay(File(q, e), e[2])'
        <3>1. IsMay(<<q, fd_get_queue[q][e]>>, e[2])
            BY <2>3 DEF Fits, Kept, File
        <3> QED
            BY <1>1, <1>2, <2>3, <3>1 DEF SameFile, IsMay, IsNew, IsUndoing, File
    <2>4. ASSUME NEW e \in Mine(q) PROVE half'[<<q, fd_get_queue'[q][e]>>].half # "start"
        <3>1. half[<<q, fd_get_queue[q][e]>>].half # "start"
            BY DEF Fits, Kept, File
        <3> QED
            BY <1>1, <1>2, <3>1 DEF SameFile
    <2> QED
        BY <1>3, <2>1, <2>2, <2>3, <2>4 DEF Kept, File
<1>5. Distinct(q, InUse(q, N, O, M))'
    <2>1. \A e, g \in U : fd_get_queue[q][e] = fd_get_queue[q][g] => e = g
        BY <1>1 DEF Fits, Distinct, InUse
    <2> QED
        BY <1>1, <1>2, <1>3, <2>1 DEF Distinct, InUse
<1>6. Covered(q, O \cup M \cup Mine(q))'
    <2> SUFFICES ASSUME NEW fe \in Fds, NEW ch \in Channels, Owns(<<q, fe>>, ch)',
                        half'[<<q, fe>>].half # "release"
                 PROVE  \E e \in O \cup M \cup Mine(q) : fd_get_queue'[q][e] = fe
        BY <1>3 DEF Covered
    <2>1. Owns(<<q, fe>>, ch) /\ half[<<q, fe>>].half # "release"
        BY DEF SameFile
    <2>2. PICK e \in O \cup M \cup Mine(q) : fd_get_queue[q][e] = fe
        BY <2>1 DEF Fits, Covered
    <2> QED
        BY <1>1, <1>2, <2>2
<1>7. RefsFit(q, InUse(q, N, O, M))'
    <2> SUFFICES ASSUME NEW ch \in Channels, refs'[q][ch] # 0
                 PROVE  /\ fd_ref_queue'[q][ch] \in Fds
                        /\ IsRef(<<q, fd_ref_queue[q][ch]>>)'
                        /\ \A e \in U : fd_get_queue'[q][e] # fd_ref_queue'[q][ch]
        BY <1>1, <1>3 DEF RefsFit, InUse
    <2>1. refs[q][ch] # 0 /\ fd_ref_queue'[q][ch] = fd_ref_queue[q][ch]
        BY DEF SameProc
    <2>2. /\ fd_ref_queue[q][ch] \in Fds /\ IsRef(<<q, fd_ref_queue[q][ch]>>)
          /\ \A e \in U : fd_get_queue[q][e] # fd_ref_queue[q][ch]
        BY <1>1, <2>1 DEF Fits, RefsFit, InUse
    <2>3. IsRef(<<q, fd_ref_queue[q][ch]>>)'
        BY <2>1, <2>2 DEF SameFile, IsRef
    <2> QED
        BY <1>2, <2>1, <2>2, <2>3
<1>8. Apart(P, N, O, M, Mine(q))'
    BY <1>3 DEF Apart, Fits
<1> QED
    BY <1>4, <1>5, <1>6, <1>7, <1>8 DEF Fits

LEMMA FrameProc ==
    ASSUME NEW q \in Procs, ProcInv(q), SameProc(q), \A fd \in Fds : SameFile(<<q, fd>>)
    PROVE  ProcInv(q)'
<1>1. UserOK(q) /\ UserOK(q)' /\ Mine(q)' = Mine(q)
    BY SameUser DEF ProcInv, SameProc
<1>2. CASE q \in dying
    BY <1>1, <1>2 DEF ProcInv, SameProc
<1>3. CASE /\ q \notin dying
           /\ \E P, N, O, M \in SUBSET Entries : Left(todo[q], P, N, O, M) /\ Fits(q, P, N, O, M)
    <2>1. PICK P, N, O, M \in SUBSET Entries : Left(todo[q], P, N, O, M) /\ Fits(q, P, N, O, M)
        BY <1>3
    <2>2. Fits(q, P, N, O, M)'
        BY <1>1, <2>1, FrameFits
    <2>3. Left(todo'[q], P, N, O, M)
        BY <2>1 DEF SameProc
    <2>4. Stage(q)'
        BY <2>2, <2>3 DEF Stage
    <2> QED
        BY <1>1, <1>3, <2>4 DEF ProcInv, SameProc
<1>4. CASE q \notin dying /\ BindStage(q)
    <2>1. PICK c \in Connectors :
            /\ todo[q] = <<BindDo(c)>>
            /\ Fits(q, {}, {}, {}, {})
            /\ tmpfd[q] \in Fds /\ IsNew(<<q, tmpfd[q]>>)
            /\ \A e \in Mine(q) : fd_get_queue[q][e] # tmpfd[q]
            /\ \A ch \in Channels : refs[q][ch] = 0
        BY <1>4 DEF BindStage
    <2>2. Fits(q, {}, {}, {}, {})'
        BY <1>1, <2>1, FrameFits
    <2>3. IsNew(<<q, tmpfd[q]>>)'
        BY <2>1 DEF SameFile, IsNew, SameProc
    <2>4. BindStage(q)'
        BY <1>1, <2>1, <2>2, <2>3 DEF BindStage, SameProc
    <2> QED
        BY <1>1, <1>4, <2>4 DEF ProcInv, SameProc, Stage
<1> QED
    BY <1>2, <1>3, <1>4 DEF ProcInv, Stage

\* A step of p is one of the driver on at most one file of p.
LEMMA StepOfOne ==
    ASSUME LibInv, NEW p \in Procs, LibType', ProcInv(p)',
           \A q \in Procs : q # p => SameProc(q),
           UNCHANGED vars \/ (DisciplinedNext /\ \E fd \in Fds : Touches(<<p, fd>>))
    PROVE  LibInv' /\ [DisciplinedNext]_vars
<1>1. ChannelInv'
    BY InvStep DEF LibInv
<1>2. ASSUME NEW q \in Procs, q # p PROVE ProcInv(q)'
    <2>1. ASSUME NEW fe \in Fds PROVE SameFile(<<q, fe>>)
        <3>1. CASE UNCHANGED vars
            BY <3>1, SameVars
        <3>2. ASSUME NEW fd \in Fds, Touches(<<p, fd>>) PROVE SameFile(<<q, fe>>)
            <4>1. <<p, fd>> \in Files /\ <<q, fe>> \in Files /\ <<q, fe>> # <<p, fd>>
                BY <1>2, FileIn
            <4> QED
                BY <3>2, <4>1, TouchRest DEF LibInv
        <3> QED
            BY <3>1, <3>2
    <2>2. ProcInv(q) /\ SameProc(q)
        BY <1>2 DEF LibInv
    <2> QED
        BY <2>1, <2>2, FrameProc
<1>3. \A q \in Procs : ProcInv(q)'
    BY <1>2
<1> QED
    BY <1>1, <1>3 DEF LibInv

\* What p may be doing after the step, when it is alive.
LEMMA ProcAhead ==
    ASSUME NEW p, p \notin dying, dying' = dying, UserOK(p)',
           NEW P, NEW N, NEW O, NEW M, Left(todo'[p], P, N, O, M), Fits(p, P, N, O, M)'
    PROVE  ProcInv(p)'
<1>1. {P, N, O, M} \subseteq SUBSET Entries
    BY DEF Fits, Apart
<1>2. Stage(p)'
    BY <1>1 DEF Stage
<1> QED
    BY <1>2 DEF ProcInv

\* At a system call other than that of a binding.
LEMMA AtLeft ==
    ASSUME LibInv, NEW p \in Procs, NEW what, what # "bind", AtCall(p, what)
    PROVE  /\ UserOK(p) /\ p \notin dying /\ Head(todo[p]).do = what
           /\ \E P, N, O, M \in SUBSET Entries :
                /\ Left(todo[p], P, N, O, M) /\ Fits(p, P, N, O, M)
                /\ NextLeft(Head(todo[p]), todo[p], P, N, O, M)
<1>1. ProcInv(p) /\ InUser(p) /\ p \notin dying /\ todo[p] # << >> /\ Head(todo[p]).do = what
    BY DEF LibInv, AtCall, InUser
<1>2. UserOK(p) /\ Stage(p)
    BY <1>1 DEF ProcInv
<1>3. ~BindStage(p)
    <2>1. ASSUME NEW c \in Connectors, todo[p] = <<BindDo(c)>> PROVE FALSE
        <3>1. Head(todo[p]) = BindDo(c)
            BY <2>1, Lists
        <3> QED
            BY <1>1, <3>1, Dos
    <2> QED
        BY <2>1 DEF BindStage
<1> QED
    BY <1>1, <1>2, <1>3, LeftNext DEF Stage

\* Between two calls.
LEMMA AtRest ==
    ASSUME LibInv, NEW p \in Procs, CanCall(p)
    PROVE  UserOK(p) /\ p \notin dying /\ InUser(p) /\ Fits(p, {}, {}, {}, {})
<1>1. ProcInv(p) /\ InUser(p) /\ p \notin dying /\ todo[p] = << >>
    BY DEF LibInv, CanCall, InUser
<1>2. UserOK(p) /\ Stage(p)
    BY <1>1 DEF ProcInv
<1>3. ~BindStage(p)
    BY <1>1 DEF BindStage
<1>4. ASSUME NEW P, NEW N, NEW O, NEW M, Left(todo[p], P, N, O, M)
      PROVE  P = {} /\ N = {} /\ O = {} /\ M = {}
    <2>1. \A e \in Entries, c \in Connectors : ~InitLeft(e, c, todo[p], P, N, O, M)
        BY <1>1, NotEmpty DEF InitLeft
    <2>2. \A e \in Entries : ~EndLeft(e, todo[p], P, N, O, M)
        BY <1>1, NotEmpty DEF EndLeft
    <2>3. \A a, b \in Entries, c \in Connectors : ~ConnectLeft(a, b, c, todo[p], P, N, O, M)
        BY <1>1, NotEmpty DEF ConnectLeft
    <2>4. \A a, b \in Entries : ~DisconnectLeft(a, b, todo[p], P, N, O, M)
        BY <1>1, NotEmpty DEF DisconnectLeft
    <2> QED
        BY <1>4, <2>1, <2>2, <2>3, <2>4 DEF Left
<1> QED
    BY <1>1, <1>2, <1>3, <1>4 DEF Stage

-----------------------------------------------------------------------------
(* The system calls.                                                       *)

\* The list of the calls left after a step of p.
LEMMA TodoStep ==
    ASSUME LibInv, NEW p \in Procs, NEW t, todo' = [todo EXCEPT ![p] = t]
    PROVE  /\ DOMAIN todo' = Procs /\ todo'[p] = t
           /\ \A q \in Procs : q # p => todo'[q] = todo[q]
BY DEF LibInv, LibType

LEMMA TodoGoes ==
    ASSUME LibInv, NEW p \in Procs, GoOn(p) \/ Fail(p)
    PROVE  /\ DOMAIN todo' = Procs
           /\ GoOn(p) => todo'[p] = Tail(todo[p])
           /\ Fail(p) => todo'[p] = Head(todo[p]).undo
           /\ \A q \in Procs : q # p => todo'[q] = todo[q]
<1>1. CASE GoOn(p)
    BY <1>1, TodoStep DEF GoOn, Fail
<1>2. CASE Fail(p)
    BY <1>2, TodoStep DEF GoOn, Fail
<1> QED
    BY <1>1, <1>2 DEF LibInv, LibType, GoOn, Fail

\* A step of p that changes none of the library's variables but todo.
LEMMA OnlyTodo ==
    ASSUME LibInv, NEW p \in Procs, DOMAIN todo' = Procs,
           \A q \in Procs : q # p => todo'[q] = todo[q],
           UNCHANGED <<fd_get_queue, fd_ref_queue, tmpfd, held, linked, refs, dying>>
    PROVE  /\ LibType' /\ \A q \in Procs : q # p => SameProc(q)
           /\ Mine(p)' = Mine(p) /\ UserOK(p)' /\ \A U : SameTable(p, U)
<1>1. UserOK(p)
    BY DEF LibInv, ProcInv
<1>2. Mine(p)' = Mine(p) /\ UserOK(p)'
    BY <1>1, SameUser
<1> QED
    BY <1>2 DEF LibInv, LibType, SameProc, SameTable

LEMMA StatInv ==
    ASSUME LibInv, NEW p \in Procs, StatStep(p)
    PROVE  LibInv' /\ [DisciplinedNext]_vars
<1>1. PICK s, e : s = Head(todo[p]) /\ e = s.entry
    OBVIOUS
<1>2. /\ AtCall(p, "stat") /\ InUser(p) /\ (GoOn(p) \/ Fail(p)) /\ UNCHANGED vars
      /\ UNCHANGED <<fd_get_queue, fd_ref_queue, tmpfd, held, linked, refs, dying>>
    BY DEF StatStep, AtCall
<1>3. PICK P, N, O, M \in SUBSET Entries :
        Left(todo[p], P, N, O, M) /\ Fits(p, P, N, O, M) /\ NextLeft(s, todo[p], P, N, O, M)
    BY <1>1, <1>2, AtLeft
<1>4. s.do = "stat" /\ p \notin dying
    BY <1>1, <1>2, AtLeft
<1>5. /\ e \in N /\ O = {} /\ M = {} /\ s.undo = <<Simple("close", e)>>
      /\ Left(Tail(todo[p]), P, N, O, M)
    BY <1>1, <1>3, <1>4 DEF NextLeft, StatLeft
<1>6. /\ DOMAIN todo' = Procs /\ \A q \in Procs : q # p => todo'[q] = todo[q]
      /\ GoOn(p) => todo'[p] = Tail(todo[p])
      /\ Fail(p) => todo'[p] = s.undo
    BY <1>1, <1>2, TodoGoes
<1>7. /\ LibType' /\ \A q \in Procs : q # p => SameProc(q)
      /\ Mine(p)' = Mine(p) /\ UserOK(p)' /\ \A U : SameTable(p, U)
    BY <1>2, <1>6, OnlyTodo
<1>8. Apart(P, N, O, M, Mine(p))
    BY <1>3 DEF Fits
<1>9. CASE GoOn(p)
    <2>1. Fits(p, P, N, O, M)'
        BY <1>2, <1>3, <1>7, <1>8, LogicFits
    <2>2. ProcInv(p)'
        BY <1>2, <1>4, <1>5, <1>6, <1>7, <1>9, <2>1, ProcAhead
    <2> QED
        BY <1>2, <1>7, <2>2, StepOfOne
<1>10. CASE Fail(p)
    <2>1. Left(todo'[p], {}, {}, {}, {e})
        BY <1>3, <1>5, <1>6, <1>10, LeftOfEnd
    <2>2. Apart({}, {}, {}, {e}, Mine(p))
        BY <1>5, <1>8 DEF Apart
    <2>3. Fits(p, {}, {}, {}, {e})'
        BY <1>2, <1>3, <1>5, <1>7, <2>2, LogicFits
    <2>4. ProcInv(p)'
        BY <1>2, <1>4, <1>7, <2>1, <2>3, ProcAhead
    <2> QED
        BY <1>2, <1>7, <2>4, StepOfOne
<1> QED
    BY <1>2, <1>9, <1>10

\* open() takes the lowest free descriptor, which is one.
LEMMA LowestFd ==
    ASSUME NEW p \in Procs, FreeFds(p) # {}
    PROVE  Min(FreeFds(p)) \in Fds /\ ~private[<<p, Min(FreeFds(p))>>].open
<1>1. PICK S : S = FreeFds(p)
    OBVIOUS
<1>2. S \subseteq Nat /\ S # {}
    BY <1>1, LiblldmaAssumption DEF FreeFds
<1>3. \E x \in S : \A y \in S : ~(<<y, x>> \in OpToRel(<, Nat))
    BY <1>2, NatLessThanWellFounded, WFMin, Zenon
<1>4. \E x \in S : \A y \in S : ~(y < x)
    BY <1>2, <1>3, Zenon DEF OpToRel
<1>5. \E x \in S : \A y \in S : x =< y
    BY <1>2, <1>4
<1>6. Min(S) \in S
    BY <1>5, Zenon DEF Min
<1> QED
    BY <1>1, <1>6 DEF FreeFds, IsOpen

\* Every file the table or libdma.c's leads to is open.
LEMMA InUseOpen ==
    ASSUME ChannelInv, NEW p \in Procs, NEW P, NEW N, NEW O, NEW M, Fits(p, P, N, O, M)
    PROVE  /\ \A e \in InUse(p, N, O, M) : private[File(p, e)].open
           /\ \A ch \in Channels : refs[p][ch] # 0 => private[<<p, fd_ref_queue[p][ch]>>].open
<1>1. ASSUME NEW e \in InUse(p, N, O, M) PROVE private[File(p, e)].open
    <2>1. fd_get_queue[p][e] \in Fds
        BY FitsFile
    <2>2. PICK f \in Files : f = File(p, e)
        BY <2>1, FileIn DEF File
    <2>3. CASE IsNew(f)
        BY <2>2, <2>3, Shapes DEF IsNew
    <2>4. ASSUME NEW ch, IsOwn(f, ch) \/ IsMay(f, ch) PROVE private[f].open
        <3>1. IsNew(f) \/ private[f].is_get_queue \/ half[f].half \in Taking
            BY <2>4 DEF IsOwn, IsMay, IsUndoing, Taking
        <3>2. half[f].half \in Taking => half[f] # Idle
            BY Shapes DEF Taking
        <3> QED
            BY <2>2, <2>3, <3>1, <3>2 DEF ChannelInv, HalvesOK
    <2>5. IsNew(f) \/ IsOwn(f, e[2]) \/ IsMay(f, e[2])
        BY <2>2 DEF Fits, Kept, InUse
    <2> QED
        BY <2>2, <2>3, <2>4, <2>5
<1>2. ASSUME NEW ch \in Channels, refs[p][ch] # 0 PROVE private[<<p, fd_ref_queue[p][ch]>>].open
    BY <1>2 DEF Fits, RefsFit, IsRef
<1> QED
    BY <1>1, <1>2

LEMMA OpenStepInv ==
    ASSUME LibInv, NEW p \in Procs, OpenStep(p)
    PROVE  LibInv' /\ [DisciplinedNext]_vars
<1>1. PICK s, e : s = Head(todo[p]) /\ e = s.entry
    OBVIOUS
<1>2. /\ AtCall(p, "open") /\ InUser(p)
      /\ UNCHANGED <<fd_ref_queue, tmpfd, held, linked, refs, dying>>
    BY DEF OpenStep, AtCall
<1>3. PICK P, N, O, M \in SUBSET Entries :
        Left(todo[p], P, N, O, M) /\ Fits(p, P, N, O, M) /\ NextLeft(s, todo[p], P, N, O, M)
    BY <1>1, <1>2, AtLeft
<1>4. s.do = "open" /\ p \notin dying
    BY <1>1, <1>2, AtLeft
<1>5. /\ e \in P /\ O = {} /\ M = {} /\ s.undo = << >>
      /\ Left(Tail(todo[p]), P \ {e}, N \cup {e}, O, M)
    BY <1>1, <1>3, <1>4 DEF NextLeft, OpenLeft
<1>6. UserOK(p) /\ UserOK(p)' /\ Mine(p)' = Mine(p)
    <2>1. UserOK(p)
        BY <1>4 DEF LibInv, ProcInv
    <2> QED
        BY <1>2, <2>1, SameUser
<1>7. Apart(P, N, O, M, Mine(p)) /\ e \notin InUse(p, N, O, M) /\ e \in Entries
    BY <1>3, <1>5 DEF Fits, Apart, InUse
<1>8. fd_get_queue \in [Procs -> [Entries -> Int]] /\ -1 \in Int
    BY DEF LibInv, LibType
<1>9. CASE /\ FreeFds(p) # {} /\ DoOpen(p) /\ GoOn(p)
           /\ fd_get_queue' = [fd_get_queue EXCEPT ![p][e] = Min(FreeFds(p))]
    <2>1. PICK fd \in Fds : fd = Min(FreeFds(p)) /\ ~private[<<p, fd>>].open
        BY <1>9, LowestFd
    <2>2. PICK f \in Files : f = <<p, fd>>
        BY FileIn
    <2>3. Open(f) /\ ChannelInv
        BY <1>9, <2>1, <2>2 DEF DoOpen, LibInv
    <2>4. Touches(f) /\ IsNew(f)' /\ DisciplinedNext /\ \A ch \in Channels : ~Owns(f, ch)'
        BY <2>3, OpenTouches
    <2>5. fd \in Int
        BY LiblldmaAssumption
    <2>6. /\ fd_get_queue' \in [Procs -> [Entries -> Int]] /\ fd_get_queue'[p][e] = fd
          /\ \A g \in Entries : g # e => fd_get_queue'[p][g] = fd_get_queue[p][g]
          /\ \A q \in Procs : q # p => fd_get_queue'[q] = fd_get_queue[q]
        BY <1>7, <1>8, <1>9, <2>1, <2>5
    <2>7. /\ DOMAIN todo' = Procs /\ \A q \in Procs : q # p => todo'[q] = todo[q]
          /\ todo'[p] = Tail(todo[p])
        BY <1>9, TodoGoes
    <2>8. LibType' /\ \A q \in Procs : q # p => SameProc(q)
        BY <1>2, <2>6, <2>7 DEF LibInv, LibType, SameProc
    <2>9. /\ \A g \in InUse(p, N, O, M) : fd_get_queue[p][g] # fd
          /\ \A ch \in Channels : refs[p][ch] # 0 => fd_ref_queue[p][ch] # fd
        BY <1>3, <2>1, <2>3, InUseOpen DEF File
    <2>10. PICK P2, N2 : P2 = P \ {e} /\ N2 = N \cup {e}
        OBVIOUS
    <2>11. Apart(P2, N2, O, M, Mine(p))
        BY <1>5, <1>7, <2>10 DEF Apart
    <2>12. \A g \in (N2 \cup O \cup M \cup Mine(p)) \ {e} :
              fd_get_queue'[p][g] = fd_get_queue[p][g] /\ fd_get_queue[p][g] # fd
        BY <2>6, <2>9, <2>10, <2>11 DEF InUse, Apart
    <2>13. Fits(p, P2, N2, O, M)'
        <3>1. /\ e \notin Mine(p) /\ e \notin O /\ e \notin M /\ N2 \ {e} \subseteq N
              /\ O \ {e} \subseteq O /\ M \ {e} \subseteq M /\ (O \cup M) \ {e} \subseteq O \cup M
            BY <1>7, <2>10 DEF InUse
        <3>2. \A g \in N2 \cup O \cup M \cup Mine(p) : g # e =>
                 fd_get_queue'[p][g] = fd_get_queue[p][g] /\ fd_get_queue[p][g] # fd
            BY <2>12
        <3>3. /\ e \in N2 \cup O \cup M => fd_get_queue'[p][e] = fd
              /\ e \in O \cup M => fd_get_queue[p][e] = fd
            BY <2>6, <3>1
        <3>4. refs'[p] = refs[p] /\ fd_ref_queue'[p] = fd_ref_queue[p]
            BY <1>2
        <3> QED
            BY <1>3, <1>6, <1>7, <2>2, <2>3, <2>4, <2>9, <2>11, <3>1, <3>2, <3>3, <3>4, EntryFits
    <2>14. Left(todo'[p], P2, N2, O, M)
        BY <1>5, <2>7, <2>10
    <2>15. ProcInv(p)'
        BY <1>2, <1>4, <1>6, <2>13, <2>14, ProcAhead
    <2> QED
        BY <2>2, <2>4, <2>8, <2>15, StepOfOne
<1>10. CASE /\ fd_get_queue' = [fd_get_queue EXCEPT ![p][e] = -1]
            /\ Fail(p) /\ UNCHANGED vars
    <2>1. /\ fd_get_queue' \in [Procs -> [Entries -> Int]]
          /\ \A g \in Entries : g # e => fd_get_queue'[p][g] = fd_get_queue[p][g]
          /\ \A q \in Procs : q # p => fd_get_queue'[q] = fd_get_queue[q]
        BY <1>7, <1>8, <1>10
    <2>2. /\ DOMAIN todo' = Procs /\ \A q \in Procs : q # p => todo'[q] = todo[q]
          /\ todo'[p] = << >>
        BY <1>1, <1>5, <1>10, TodoGoes
    <2>3. LibType' /\ \A q \in Procs : q # p => SameProc(q)
        BY <1>2, <2>1, <2>2 DEF LibInv, LibType, SameProc
    <2>4. SameTable(p, InUse(p, N, O, M))
        BY <1>2, <1>7, <2>1 DEF SameTable, InUse, Apart
    <2>5. Apart({}, {}, {}, {}, Mine(p))
        BY <1>7 DEF Apart
    <2>6. Fits(p, {}, {}, {}, {})'
        BY <1>2, <1>3, <1>5, <1>6, <1>10, <2>4, <2>5, LogicFits
    <2>7. ProcInv(p)'
        BY <1>2, <1>4, <1>6, <2>2, <2>6, LeftNothing, ProcAhead
    <2> QED
        BY <1>10, <2>3, <2>7, StepOfOne
<1> QED
    BY <1>1, <1>9, <1>10 DEF OpenStep

\* The file of an entry is that of no other entry and of no binding.
LEMMA FileApart ==
    ASSUME ChannelInv, NEW p \in Procs, NEW P, NEW N, NEW O, NEW M, Fits(p, P, N, O, M),
           NEW e \in InUse(p, N, O, M)
    PROVE  /\ fd_get_queue[p][e] \in Fds /\ e \in Entries /\ e[2] \in Channels
           /\ File(p, e) = <<p, fd_get_queue[p][e]>> /\ File(p, e) \in Files
           /\ IsOpen(p, fd_get_queue[p][e])
           /\ \A g \in InUse(p, N, O, M) : g # e => fd_get_queue[p][g] # fd_get_queue[p][e]
           /\ \A ch \in Channels : refs[p][ch] # 0 => fd_ref_queue[p][ch] # fd_get_queue[p][e]
<1>1. fd_get_queue[p][e] \in Fds
    BY FitsFile
<1>2. e \in Entries /\ e[2] \in Channels
    BY EntryIn DEF Fits, Apart, InUse
<1>3. File(p, e) = <<p, fd_get_queue[p][e]>> /\ File(p, e) \in Files
    BY <1>1, FileIn DEF File
<1>4. private[File(p, e)].open
    BY InUseOpen
<1>5. \A g \in InUse(p, N, O, M) : g # e => fd_get_queue[p][g] # fd_get_queue[p][e]
    BY DEF Fits, Distinct
<1>6. \A ch \in Channels : refs[p][ch] # 0 => fd_ref_queue[p][ch] # fd_get_queue[p][e]
    BY DEF Fits, RefsFit
<1> QED
    BY <1>1, <1>2, <1>3, <1>4, <1>5, <1>6 DEF IsOpen

\* A step of the file of entry e, which may move the entry to another set.
LEMMA FileStepFits ==
    ASSUME ChannelInv, NEW p \in Procs, NEW P, NEW N, NEW O, NEW M, Fits(p, P, N, O, M),
           Mine(p)' = Mine(p), NEW e \in N \cup O \cup M, NEW f, f = File(p, e), Touches(f),
           NEW N2, NEW O2, NEW M2, Apart(P, N2, O2, M2, Mine(p)),
           N2 \subseteq N \ {e}, O2 \ {e} \subseteq O, M2 \ {e} \subseteq M,
           (O \cup M) \ {e} \subseteq O2 \cup M2,
           e \in O2 \cup M2 => fd_get_queue'[p][e] = fd_get_queue[p][e],
           \A g \in Entries : g # e => fd_get_queue'[p][g] = fd_get_queue[p][g],
           e \in O2 => IsOwn(f, e[2])', e \in M2 => IsMay(f, e[2])',
           \A ch \in Channels : Owns(f, ch)' /\ half'[f].half # "release" => e \in O2 \cup M2,
           refs'[p] = refs[p], fd_ref_queue'[p] = fd_ref_queue[p]
    PROVE  Fits(p, P, N2, O2, M2)'
<1>1. e \in InUse(p, N, O, M) /\ e \notin Mine(p)
    BY DEF InUse, Fits, Apart
<1>2. PICK fd \in Fds : fd = fd_get_queue[p][e]
    BY <1>1, FileApart
<1>3. /\ e \in Entries /\ f = <<p, fd>>
      /\ \A g \in InUse(p, N, O, M) : g # e => fd_get_queue[p][g] # fd
      /\ \A ch \in Channels : refs[p][ch] # 0 => fd_ref_queue[p][ch] # fd
    BY <1>1, <1>2, FileApart
<1>4. \A g \in N2 \cup O2 \cup M2 \cup Mine(p) : g # e =>
         g \in Entries /\ g \in InUse(p, N, O, M)
    BY DEF InUse, Apart
<1>5. \A g \in N2 \cup O2 \cup M2 \cup Mine(p) : g # e =>
         fd_get_queue'[p][g] = fd_get_queue[p][g] /\ fd_get_queue[p][g] # fd
    BY <1>3, <1>4
<1>6. e \notin N2 /\ N2 \ {e} \subseteq N
    OBVIOUS
<1>7. e \in N2 \cup O2 \cup M2 => fd_get_queue'[p][e] = fd
    BY <1>2, <1>6
<1>8. e \in O \cup M => fd_get_queue[p][e] = fd
    BY <1>2
<1> QED
    BY <1>1, <1>3, <1>5, <1>6, <1>7, <1>8, EntryFits

\* What a process that is between no two system calls has of O may be given
\* back as well.
LEMMA GiveBackFits ==
    ASSUME NEW p, NEW O, NEW M, NEW Z, Z = O \cup M, Fits(p, {}, {}, O, M)',
           \A g \in O : half'[File(p, g)'] = Idle
    PROVE  Fits(p, {}, {}, {}, Z)'
<1>1. Apart({}, {}, {}, Z, Mine(p))'
    BY DEF Fits, Apart
<1>2. \A g \in Z : IsMay(File(p, g), g[2])'
    BY Shapes DEF Fits, Kept, IsOwn, IsMay
<1>3. Kept(p, {}, {}, Z)'
    BY <1>2 DEF Fits, Kept
<1>4. PICK U, V : U = InUse(p, {}, O, M)' /\ V = O \cup M \cup Mine(p)'
    OBVIOUS
<1>5. InUse(p, {}, {}, Z)' = U /\ {} \cup Z \cup Mine(p)' = V
    BY <1>4 DEF InUse
<1> QED
    BY <1>1, <1>3, <1>4, <1>5 DEF Fits, Distinct, Covered, RefsFit

LEMMA AllocStepInv ==
    ASSUME LibInv, NEW p \in Procs, AllocStep(p)
    PROVE  LibInv' /\ [DisciplinedNext]_vars
<1>1. PICK s, e : s = Head(todo[p]) /\ e = s.entry
    OBVIOUS
<1>2. /\ AtCall(p, "alloc") /\ InUser(p) /\ (GoOn(p) \/ Fail(p)) /\ ChannelInv
      /\ UNCHANGED <<fd_get_queue, fd_ref_queue, tmpfd, held, linked, refs, dying>>
    BY DEF AllocStep, AtCall, LibInv
<1>3. PICK P, N, O, M \in SUBSET Entries :
        Left(todo[p], P, N, O, M) /\ Fits(p, P, N, O, M) /\ NextLeft(s, todo[p], P, N, O, M)
    BY <1>1, <1>2, AtLeft
<1>4. s.do = "alloc" /\ p \notin dying
    BY <1>1, <1>2, AtLeft
<1>5. /\ e \in N /\ P = {} /\ M = {} /\ s.kind \in Kinds /\ s.conn \in Connectors
      /\ Left(Tail(todo[p]), P, N \ {e}, O \cup {e}, M)
      /\ Left(s.undo, {}, {}, {}, {e} \cup O)
    BY <1>1, <1>3, <1>4 DEF NextLeft, AllocLeft
<1>6. /\ DOMAIN todo' = Procs /\ \A q \in Procs : q # p => todo'[q] = todo[q]
      /\ GoOn(p) => todo'[p] = Tail(todo[p])
      /\ Fail(p) => todo'[p] = s.undo
    BY <1>1, <1>2, TodoGoes
<1>7. /\ LibType' /\ \A q \in Procs : q # p => SameProc(q)
      /\ Mine(p)' = Mine(p) /\ UserOK(p)' /\ \A U : SameTable(p, U)
    BY <1>2, <1>6, OnlyTodo
<1>8. Apart(P, N, O, M, Mine(p)) /\ e \in InUse(p, N, O, M)
    BY <1>3, <1>5 DEF Fits, InUse
<1>9. CASE /\ GoOn(p)
           /\ \/ AllocQueue(File(p, e), e[2], s.kind, s.conn)
              \/ s.kind = "d2d" /\ AllocConnection(File(p, e), e[2], s.conn)
    <2>1. PICK f \in Files : f = File(p, e)
        BY <1>2, <1>3, <1>8, FileApart
    <2>2. Reserve(f, e[2], s.kind, s.conn)
        BY <1>9, <2>1 DEF AllocQueue, AllocConnection
    <2>3. IsNew(f) /\ e[2] \in Channels
        BY <1>2, <1>3, <1>5, <1>8, <2>1, FileApart DEF Fits, Kept
    <2>4. Touches(f) /\ IsOwn(f, e[2])' /\ DisciplinedNext
        BY <1>2, <1>5, <2>2, <2>3, ReserveTouches
    <2>5. PICK N2, O2 : N2 = N \ {e} /\ O2 = O \cup {e}
        OBVIOUS
    <2>6. Apart(P, N2, O2, M, Mine(p)) /\ e \in O2 /\ e \notin M /\ e \in N \cup O \cup M
        BY <1>5, <1>8, <2>5 DEF Apart
    <2>7. /\ N2 \subseteq N \ {e} /\ O2 \ {e} \subseteq O /\ M \ {e} \subseteq M
          /\ (O \cup M) \ {e} \subseteq O2 \cup M
        BY <2>5
    <2>8. Fits(p, P, N2, O2, M)'
        BY <1>2, <1>3, <1>7, <2>1, <2>4, <2>6, <2>7, FileStepFits
    <2>9. Left(todo'[p], P, N2, O2, M)
        BY <1>5, <1>6, <1>9, <2>5
    <2>10. ProcInv(p)'
        BY <1>2, <1>4, <1>7, <2>8, <2>9, ProcAhead
    <2>11. \E fd \in Fds : Touches(<<p, fd>>)
        BY <1>2, <1>3, <1>8, <2>1, <2>4, FileApart
    <2> QED
        BY <1>7, <2>4, <2>10, <2>11, StepOfOne
<1>10. CASE Fail(p) /\ UNCHANGED vars
    <2>1. PICK M2 : M2 = {e} \cup O
        OBVIOUS
    <2>2. Left(todo'[p], {}, {}, {}, M2)
        BY <1>5, <1>6, <1>10, <2>1
    <2>3. Apart({}, {}, {}, M2, Mine(p))
        BY <1>5, <1>8, <2>1 DEF Apart
    <2>4. /\ M2 \subseteq N \cup O \cup M \cup Mine(p)
          /\ O \cup M \cup Mine(p) \subseteq M2 \cup Mine(p)
        BY <1>5, <2>1
    <2>5. Fits(p, {}, {}, {}, M2)'
        BY <1>2, <1>3, <1>7, <1>10, <2>3, <2>4, LogicFits
    <2>6. ProcInv(p)'
        BY <1>2, <1>4, <1>7, <2>2, <2>5, ProcAhead
    <2> QED
        BY <1>7, <1>10, <2>6, StepOfOne
<1>11. CASE Fail(p) /\ AllocRefused(File(p, e), e[2], s.kind, s.conn)
    <2>1. PICK f \in Files : f = File(p, e)
        BY <1>2, <1>3, <1>8, FileApart
    <2>2. IsNew(f) /\ e[2] \in Channels
        BY <1>2, <1>3, <1>5, <1>8, <2>1, FileApart DEF Fits, Kept
    <2>3. Touches(f) /\ IsMay(f, e[2])' /\ DisciplinedNext
        BY <1>2, <1>5, <1>11, <2>1, <2>2, RefusedTouches
    <2>4. PICK N2, M2, Z : N2 = {} /\ M2 = {e} /\ Z = O \cup M2
        OBVIOUS
    <2>5. Apart(P, N2, O, M2, Mine(p)) /\ e \notin O /\ e \in N \cup O \cup M
        BY <1>5, <1>8, <2>4 DEF Apart
    <2>6. /\ N2 \subseteq N \ {e} /\ O \ {e} \subseteq O /\ M2 \ {e} \subseteq M
          /\ (O \cup M) \ {e} \subseteq O \cup M2 /\ e \in M2
        BY <1>5, <2>4
    <2>7. Fits(p, P, N2, O, M2)'
        BY <1>2, <1>3, <1>7, <2>1, <2>3, <2>5, <2>6, FileStepFits
    <2>8. ASSUME NEW g \in O PROVE half'[File(p, g)'] = Idle
        <3>1. g \in InUse(p, N, O, M) /\ g # e
            BY <2>5 DEF InUse
        <3>2. /\ File(p, g) = <<p, fd_get_queue[p][g]>> /\ File(p, g) \in Files
              /\ fd_get_queue[p][g] \in Fds /\ fd_get_queue[p][g] # fd_get_queue[p][e]
              /\ f = <<p, fd_get_queue[p][e]>>
            BY <1>2, <1>3, <1>8, <2>1, <3>1, FileApart
        <3>3. half[File(p, g)] = Idle
            BY <1>2, <3>2 DEF InUser
        <3>4. half'[File(p, g)] = half[File(p, g)]
            BY <2>3, <3>2 DEF Touches
        <3>5. File(p, g)' = File(p, g)
            BY <1>2 DEF File
        <3> QED
            BY <3>3, <3>4, <3>5
    <2>9. Fits(p, {}, {}, {}, Z)'
        BY <1>5, <2>4, <2>7, <2>8, GiveBackFits
    <2>10. Left(todo'[p], {}, {}, {}, Z)
        <3>1. Z = {e} \cup O
            BY <2>4
        <3> QED
            BY <1>5, <1>6, <1>11, <3>1
    <2>11. ProcInv(p)'
        BY <1>2, <1>4, <1>7, <2>9, <2>10, ProcAhead
    <2>12. \E fd \in Fds : Touches(<<p, fd>>)
        BY <1>2, <1>3, <1>8, <2>1, <2>3, FileApart
    <2> QED
        BY <1>7, <2>3, <2>11, <2>12, StepOfOne
<1> QED
    BY <1>1, <1>9, <1>10, <1>11 DEF AllocStep

LEMMA DupStepInv ==
    ASSUME LibInv, NEW p \in Procs, DupStep(p)
    PROVE  LibInv' /\ [DisciplinedNext]_vars
<1>1. PICK s, e : s = Head(todo[p]) /\ e = s.entry
    OBVIOUS
<1>2. /\ AtCall(p, "dup") /\ InUser(p) /\ (GoOn(p) \/ Fail(p)) /\ UNCHANGED vars
      /\ UNCHANGED <<fd_get_queue, fd_ref_queue, tmpfd, linked, refs, dying>>
    BY DEF DupStep, AtCall
<1>3. PICK P, N, O, M \in SUBSET Entries :
        Left(todo[p], P, N, O, M) /\ Fits(p, P, N, O, M) /\ NextLeft(s, todo[p], P, N, O, M)
    BY <1>1, <1>2, AtLeft
<1>4. s.do = "dup" /\ p \notin dying /\ UserOK(p)
    BY <1>1, <1>2, AtLeft
<1>5. /\ P = {} /\ N = {} /\ O = {e} /\ M = {} /\ e \in Entries
      /\ Tail(todo[p]) = << >> /\ s.undo = <<Simple("close", e)>>
    BY <1>1, <1>3, <1>4 DEF NextLeft, DupLeft
<1>6. /\ DOMAIN todo' = Procs /\ \A q \in Procs : q # p => todo'[q] = todo[q]
      /\ GoOn(p) => todo'[p] = Tail(todo[p])
      /\ Fail(p) => todo'[p] = s.undo
    BY <1>1, <1>2, TodoGoes
<1>7. Apart(P, N, O, M, Mine(p)) /\ e \notin Mine(p)
    BY <1>3, <1>5 DEF Fits, Apart
<1>8. \A U : SameTable(p, U)
    BY <1>2 DEF SameTable
<1>9. CASE GoOn(p) /\ held' = [held EXCEPT ![p] = held[p] \cup {e}]
    <2>1. /\ DOMAIN held' = Procs /\ held'[p] = held[p] \cup {e}
          /\ \A q \in Procs : q # p => held'[q] = held[q]
        BY <1>9 DEF LibInv, LibType
    <2>2. LibType' /\ \A q \in Procs : q # p => SameProc(q)
        BY <1>2, <1>6, <2>1 DEF LibInv, LibType, SameProc
    <2>3. Mine(p)' = Mine(p) \cup {e}
        BY <1>2, <2>1 DEF Mine
    <2>4. \A l \in linked[p] : e # Host(l[1]) /\ e # Host(l[2])
        BY <1>7 DEF Mine
    <2>5. UserOK(p)'
        BY <1>2, <1>4, <1>5, <2>1, <2>4 DEF UserOK
    <2>6. PICK H2 : H2 = Mine(p)'
        OBVIOUS
    <2>7. Apart({}, {}, {}, {}, H2)
        BY <1>5, <1>7, <2>3, <2>6 DEF Apart
    <2>8. H2 \subseteq O \cup Mine(p) /\ O \cup M \cup Mine(p) \subseteq H2
        BY <1>5, <2>3, <2>6
    <2>9. Fits(p, {}, {}, {}, {})'
        BY <1>2, <1>3, <1>8, <2>6, <2>7, <2>8, LogicFits
    <2>10. ProcInv(p)'
        BY <1>2, <1>4, <1>5, <1>6, <1>9, <2>5, <2>9, LeftNothing, ProcAhead
    <2> QED
        BY <1>2, <2>2, <2>10, StepOfOne
<1>10. CASE Fail(p) /\ held' = held
    <2>1. /\ LibType' /\ \A q \in Procs : q # p => SameProc(q)
          /\ Mine(p)' = Mine(p) /\ UserOK(p)'
        BY <1>2, <1>6, <1>10, OnlyTodo
    <2>2. Apart({}, {}, {}, {e}, Mine(p))
        BY <1>5, <1>7 DEF Apart
    <2>3. Fits(p, {}, {}, {}, {e})'
        BY <1>2, <1>3, <1>5, <1>8, <2>1, <2>2, LogicFits
    <2>4. Left(todo'[p], {}, {}, {}, {e})
        BY <1>5, <1>6, <1>10, LeftOfEnd
    <2>5. ProcInv(p)'
        BY <1>2, <1>4, <2>1, <2>3, <2>4, ProcAhead
    <2> QED
        BY <1>2, <2>1, <2>5, StepOfOne
<1> QED
    BY <1>1, <1>9, <1>10 DEF DupStep

\* Stopping the channel of a file that may still have it.
LEMMA StopMay ==
    ASSUME ChannelInv, NEW f \in Files, NEW ch \in Channels, IsMay(f, ch), half[f] = Idle,
           private[f].chid # NoChannel, Stop(f, ch) \/ StopTimeout(f, ch)
    PROVE  /\ private[f].is_get_queue /\ private[f].chid = ch
           /\ Touches(f) /\ IsMay(f, ch)'
<1>1. ~IsNew(f)
    BY DEF IsNew, Unbound
<1>2. private[f].is_get_queue /\ private[f].chid = ch
    BY <1>1, Shapes DEF IsMay, IsUndoing
<1> QED
    BY <1>2, StopTouches

LEMMA FreeQueueStepInv ==
    ASSUME LibInv, NEW p \in Procs, FreeQueueStep(p)
    PROVE  LibInv' /\ [DisciplinedNext]_vars
<1>1. PICK s, e : s = Head(todo[p]) /\ e = s.entry
    OBVIOUS
<1>2. /\ AtCall(p, "free") /\ InUser(p) /\ (GoOn(p) \/ Fail(p)) /\ ChannelInv
      /\ UNCHANGED <<fd_get_queue, fd_ref_queue, tmpfd, held, linked, refs, dying>>
    BY DEF FreeQueueStep, AtCall, LibInv
<1>3. PICK P, N, O, M \in SUBSET Entries :
        Left(todo[p], P, N, O, M) /\ Fits(p, P, N, O, M) /\ NextLeft(s, todo[p], P, N, O, M)
    BY <1>1, <1>2, AtLeft
<1>4. s.do = "free" /\ p \notin dying
    BY <1>1, <1>2, AtLeft
<1>5. /\ P = {} /\ N = {} /\ O = {} /\ e \in M /\ M = {e}
      /\ s.undo = <<Simple("close", e)>> /\ Left(Tail(todo[p]), P, N, O, M)
    BY <1>1, <1>3, <1>4 DEF NextLeft, FreeLeft
<1>6. /\ DOMAIN todo' = Procs /\ \A q \in Procs : q # p => todo'[q] = todo[q]
      /\ GoOn(p) => todo'[p] = Tail(todo[p])
      /\ Fail(p) => todo'[p] = s.undo
    BY <1>1, <1>2, TodoGoes
<1>7. /\ LibType' /\ \A q \in Procs : q # p => SameProc(q)
      /\ Mine(p)' = Mine(p) /\ UserOK(p)' /\ \A U : SameTable(p, U)
    BY <1>2, <1>6, OnlyTodo
<1>8. Apart(P, N, O, M, Mine(p)) /\ e \in InUse(p, N, O, M)
    BY <1>3, <1>5 DEF Fits, InUse
<1>9. PICK f \in Files : f = File(p, e)
    BY <1>2, <1>3, <1>8, FileApart
<1>10. e \in Entries /\ e[2] \in Channels /\ e[1] \in QueueKinds
    BY <1>3, <1>5, EntryIn
<1>11. Left(todo'[p], P, N, O, M)
    <2>1. Left(<<Simple("close", e)>>, {}, {}, {}, M)
        BY <1>5, <1>10, LeftOfEnd
    <2> QED
        BY <1>2, <1>5, <1>6, <2>1
<1>12. ASSUME MayFreeQueue(f, e[2], e[1]), Stop(f, e[2]) \/ StopTimeout(f, e[2])
       PROVE  /\ DisciplinedNext /\ Fits(p, P, N, O, M)'
              /\ \E fd \in Fds : Touches(<<p, fd>>)
    <2>1. IsMay(f, e[2]) /\ half[f] = Idle /\ private[f].chid # NoChannel
        BY <1>3, <1>5, <1>9, <1>12 DEF Fits, Kept, MayFreeQueue, Ready
    <2>2. /\ private[f].is_get_queue /\ private[f].chid = e[2]
          /\ Touches(f) /\ IsMay(f, e[2])'
        BY <1>2, <1>10, <1>12, <2>1, StopMay
    <2>3. DisciplinedNext
        BY <1>10, <1>12, <2>2 DEF DisciplinedNext, FreeQueue
    <2>4. /\ N \subseteq N \ {e} /\ O \ {e} \subseteq O /\ M \ {e} \subseteq M
          /\ (O \cup M) \ {e} \subseteq O \cup M /\ e \in N \cup O \cup M /\ e \notin O
        BY <1>5
    <2>5. Fits(p, P, N, O, M)'
        BY <1>2, <1>3, <1>5, <1>7, <1>8, <1>9, <2>2, <2>4, FileStepFits
    <2>6. \E fd \in Fds : Touches(<<p, fd>>)
        BY <1>2, <1>3, <1>8, <1>9, <2>2, FileApart
    <2> QED
        BY <2>3, <2>5, <2>6
<1>13. CASE MayFreeQueue(f, e[2], e[1]) /\ (Stop(f, e[2]) \/ StopTimeout(f, e[2]))
    <2>1. ProcInv(p)'
        BY <1>2, <1>4, <1>7, <1>11, <1>12, <1>13, ProcAhead
    <2> QED
        BY <1>7, <1>12, <1>13, <2>1, StepOfOne
<1>14. CASE UNCHANGED vars
    <2>1. Fits(p, P, N, O, M)'
        BY <1>2, <1>3, <1>7, <1>8, <1>14, LogicFits
    <2>2. ProcInv(p)'
        BY <1>2, <1>4, <1>7, <1>11, <2>1, ProcAhead
    <2> QED
        BY <1>7, <1>14, <2>2, StepOfOne
<1> QED
    BY <1>1, <1>9, <1>13, <1>14 DEF FreeQueueStep

LEMMA FreeConnectionStepInv ==
    ASSUME LibInv, NEW p \in Procs, FreeConnectionStep(p)
    PROVE  LibInv' /\ [DisciplinedNext]_vars
<1>1. PICK s, e : s = Head(todo[p]) /\ e = s.entry
    OBVIOUS
<1>2. /\ AtCall(p, "disconnect") /\ InUser(p) /\ GoOn(p) /\ ChannelInv
      /\ UNCHANGED <<fd_get_queue, fd_ref_queue, tmpfd, held, linked, refs, dying>>
    BY DEF FreeConnectionStep, AtCall, LibInv
<1>3. PICK P, N, O, M \in SUBSET Entries :
        Left(todo[p], P, N, O, M) /\ Fits(p, P, N, O, M) /\ NextLeft(s, todo[p], P, N, O, M)
    BY <1>1, <1>2, AtLeft
<1>4. s.do = "disconnect" /\ p \notin dying
    BY <1>1, <1>2, AtLeft
<1>5. P = {} /\ N = {} /\ O = {} /\ e \in M /\ Left(Tail(todo[p]), P, N, O, M)
    BY <1>1, <1>3, <1>4 DEF NextLeft, FreeLeft
<1>6. /\ DOMAIN todo' = Procs /\ \A q \in Procs : q # p => todo'[q] = todo[q]
      /\ todo'[p] = Tail(todo[p])
    BY <1>1, <1>2, TodoGoes
<1>7. /\ LibType' /\ \A q \in Procs : q # p => SameProc(q)
      /\ Mine(p)' = Mine(p) /\ UserOK(p)' /\ \A U : SameTable(p, U)
    BY <1>2, <1>6, OnlyTodo
<1>8. Apart(P, N, O, M, Mine(p)) /\ e \in InUse(p, N, O, M)
    BY <1>3, <1>5 DEF Fits, InUse
<1>9. PICK f \in Files : f = File(p, e)
    BY <1>2, <1>3, <1>8, FileApart
<1>10. e \in Entries /\ e[2] \in Channels
    BY <1>3, <1>5, EntryIn
<1>11. Left(todo'[p], P, N, O, M)
    BY <1>5, <1>6
<1>12. CASE MayFreeConnection(f) /\ FreeConnection(f)
    <2>1. /\ IsMay(f, e[2]) /\ half[f] = Idle /\ private[f].is_get_queue
          /\ Stop(f, private[f].chid) \/ StopTimeout(f, private[f].chid)
        BY <1>3, <1>5, <1>9, <1>12 DEF Fits, Kept, MayFreeConnection, FreeConnection, Ready
    <2>2. private[f].chid \in Channels
        BY <1>2, <2>1 DEF ChannelInv, HalvesOK
    <2>3. private[f].chid # NoChannel /\ ~IsNew(f)
        BY <2>1, <2>2, LldmaAssumption DEF IsNew, Unbound
    <2>4. private[f].chid = e[2]
        BY <2>1, <2>3, Shapes DEF IsMay, IsUndoing
    <2>5. Touches(f) /\ IsMay(f, e[2])'
        BY <1>2, <1>10, <2>1, <2>3, <2>4, StopMay
    <2>6. DisciplinedNext
        BY <1>12, <2>1 DEF DisciplinedNext
    <2>7. /\ N \subseteq N \ {e} /\ O \ {e} \subseteq O /\ M \ {e} \subseteq M
          /\ (O \cup M) \ {e} \subseteq O \cup M /\ e \in N \cup O \cup M /\ e \notin O
        BY <1>5
    <2>8. Fits(p, P, N, O, M)'
        BY <1>2, <1>3, <1>5, <1>7, <1>8, <1>9, <2>5, <2>7, FileStepFits
    <2>9. \E fd \in Fds : Touches(<<p, fd>>)
        BY <1>2, <1>3, <1>8, <1>9, <2>5, FileApart
    <2>10. ProcInv(p)'
        BY <1>2, <1>4, <1>7, <1>11, <2>8, ProcAhead
    <2> QED
        BY <1>7, <2>6, <2>9, <2>10, StepOfOne
<1>13. CASE UNCHANGED vars
    <2>1. Fits(p, P, N, O, M)'
        BY <1>2, <1>3, <1>7, <1>8, <1>13, LogicFits
    <2>2. ProcInv(p)'
        BY <1>2, <1>4, <1>7, <1>11, <2>1, ProcAhead
    <2> QED
        BY <1>7, <1>13, <2>2, StepOfOne
<1> QED
    BY <1>1, <1>9, <1>12, <1>13 DEF FreeConnectionStep

LEMMA CloseStepInv ==
    ASSUME LibInv, NEW p \in Procs, CloseStep(p)
    PROVE  LibInv' /\ [DisciplinedNext]_vars
<1>1. PICK s, e : s = Head(todo[p]) /\ e = s.entry
    OBVIOUS
<1>2. /\ (AtCall(p, "close") \/ AtCall(p, "drop")) /\ InUser(p) /\ GoOn(p) /\ ChannelInv
      /\ UNCHANGED <<fd_ref_queue, tmpfd, held, linked, refs, dying>>
    BY DEF CloseStep, AtCall, LibInv
<1>3. PICK P, N, O, M \in SUBSET Entries :
        Left(todo[p], P, N, O, M) /\ Fits(p, P, N, O, M) /\ NextLeft(s, todo[p], P, N, O, M)
    BY <1>1, <1>2, AtLeft
<1>4. s.do \in {"close", "drop"} /\ p \notin dying /\ UserOK(p)
    BY <1>1, <1>2, AtLeft
<1>5. P = {} /\ N = {} /\ O = {} /\ e \in M /\ Left(Tail(todo[p]), P, N, O, M \ {e})
    BY <1>1, <1>3, <1>4 DEF NextLeft, CloseLeft
<1>6. /\ DOMAIN todo' = Procs /\ \A q \in Procs : q # p => todo'[q] = todo[q]
      /\ todo'[p] = Tail(todo[p])
    BY <1>1, <1>2, TodoGoes
<1>7. Mine(p)' = Mine(p) /\ UserOK(p)'
    BY <1>2, <1>4, SameUser
<1>8. Apart(P, N, O, M, Mine(p)) /\ e \in InUse(p, N, O, M) /\ e \in Entries
    BY <1>3, <1>5 DEF Fits, InUse
<1>9. PICK f \in Files : f = File(p, e)
    BY <1>2, <1>3, <1>8, FileApart
<1>10. /\ fd_get_queue' \in [Procs -> [Entries -> Int]]
       /\ \A g \in Entries : g # e => fd_get_queue'[p][g] = fd_get_queue[p][g]
       /\ \A q \in Procs : q # p => fd_get_queue'[q] = fd_get_queue[q]
    <2>1. fd_get_queue \in [Procs -> [Entries -> Int]] /\ -1 \in Int
        BY DEF LibInv, LibType
    <2>2. fd_get_queue' = [fd_get_queue EXCEPT ![p][e] = -1] \/ fd_get_queue' = fd_get_queue
        BY <1>1 DEF CloseStep
    <2> QED
        BY <1>8, <2>1, <2>2
<1>11. LibType' /\ \A q \in Procs : q # p => SameProc(q)
    BY <1>2, <1>6, <1>10 DEF LibInv, LibType, SameProc
<1>12. Close(f)
    <2>1. DoClose(p, fd_get_queue[p][e])
        BY <1>1 DEF CloseStep
    <2>2. IsOpen(p, fd_get_queue[p][e]) /\ f = <<p, fd_get_queue[p][e]>>
        BY <1>2, <1>3, <1>8, <1>9, FileApart
    <2> QED
        BY <2>1, <2>2 DEF DoClose
<1>13. /\ Touches(f) /\ DisciplinedNext
       /\ (\E ch \in Channels : Owns(f, ch)') => half'[f].half = "release"
    BY <1>2, <1>12, CloseTouches
<1>14. PICK M2 : M2 = M \ {e}
    OBVIOUS
<1>15. /\ Apart(P, N, O, M2, Mine(p)) /\ N \subseteq N \ {e} /\ O \ {e} \subseteq O
       /\ M2 \ {e} \subseteq M /\ (O \cup M) \ {e} \subseteq O \cup M2
       /\ e \in N \cup O \cup M /\ e \notin O \cup M2
    BY <1>5, <1>8, <1>14 DEF Apart
<1>16. Fits(p, P, N, O, M2)'
    BY <1>2, <1>3, <1>7, <1>9, <1>10, <1>13, <1>15, FileStepFits
<1>17. Left(todo'[p], P, N, O, M2)
    BY <1>5, <1>6, <1>14
<1>18. ProcInv(p)'
    BY <1>2, <1>4, <1>7, <1>16, <1>17, ProcAhead
<1>19. \E fd \in Fds : Touches(<<p, fd>>)
    BY <1>2, <1>3, <1>8, <1>9, <1>13, FileApart
<1> QED
    BY <1>11, <1>13, <1>18, <1>19, StepOfOne

LEMMA LinkStepInv ==
    ASSUME LibInv, NEW p \in Procs, LinkStep(p)
    PROVE  LibInv' /\ [DisciplinedNext]_vars
<1>1. PICK s : s = Head(todo[p])
    OBVIOUS
<1>2. /\ AtCall(p, "link") /\ InUser(p) /\ GoOn(p) /\ UNCHANGED vars
      /\ linked' = [linked EXCEPT ![p] = linked[p] \cup {s.entry}]
      /\ UNCHANGED <<fd_get_queue, fd_ref_queue, tmpfd, held, refs, dying>>
    BY <1>1 DEF LinkStep, AtCall
<1>3. PICK P, N, O, M \in SUBSET Entries :
        Left(todo[p], P, N, O, M) /\ Fits(p, P, N, O, M) /\ NextLeft(s, todo[p], P, N, O, M)
    BY <1>1, <1>2, AtLeft
<1>4. s.do = "link" /\ p \notin dying /\ UserOK(p)
    BY <1>1, <1>2, AtLeft
<1>5. LinkLeft(s, todo[p], P, N, O, M)
    BY <1>3, <1>4 DEF NextLeft
<1>6. PICK a, b \in Entries : PairOK(a, b) /\ s.entry = <<a[2], b[2]>> /\ O = {a, b}
    BY <1>5 DEF LinkLeft
<1>7. P = {} /\ N = {} /\ M = {} /\ Tail(todo[p]) = << >>
    BY <1>5 DEF LinkLeft
<1>8. /\ DOMAIN todo' = Procs /\ \A q \in Procs : q # p => todo'[q] = todo[q]
      /\ todo'[p] = << >>
    BY <1>2, <1>7, TodoGoes
<1>9. PICK l : l = <<a[2], b[2]>>
    OBVIOUS
<1>10. l[1] = a[2] /\ l[2] = b[2] /\ a = Host(l[1]) /\ b = Host(l[2])
    BY <1>6, <1>9 DEF PairOK
<1>11. /\ DOMAIN linked' = Procs /\ linked'[p] = linked[p] \cup {l}
       /\ \A q \in Procs : q # p => linked'[q] = linked[q]
    BY <1>2, <1>6, <1>9 DEF LibInv, LibType
<1>12. LibType' /\ \A q \in Procs : q # p => SameProc(q)
    BY <1>2, <1>8, <1>11 DEF LibInv, LibType, SameProc
<1>13. Mine(p)' = Mine(p) \cup {a, b}
    BY <1>2, <1>10, <1>11 DEF Mine
<1>14. Apart(P, N, O, M, Mine(p)) /\ a \notin Mine(p) /\ b \notin Mine(p)
    BY <1>3, <1>6 DEF Fits, Apart
<1>15. /\ a \notin held[p] /\ b \notin held[p]
       /\ \A m \in linked[p] : {a, b} \cap {Host(m[1]), Host(m[2])} = {}
    BY <1>14 DEF Mine
<1>16. UserOK(p)'
    <2>1. held'[p] = held[p] /\ refs'[p] = refs[p]
        BY <1>2
    <2>2. \A m \in linked'[p] :
             /\ m = <<m[1], m[2]>> /\ PairOK(Host(m[1]), Host(m[2]))
             /\ Host(m[1]) \notin held[p] /\ Host(m[2]) \notin held[p]
        BY <1>4, <1>6, <1>9, <1>10, <1>11, <1>15 DEF UserOK
    <2>3. \A m, n \in linked'[p] :
             {Host(m[1]), Host(m[2])} \cap {Host(n[1]), Host(n[2])} # {} => m = n
        BY <1>4, <1>10, <1>11, <1>15 DEF UserOK
    <2> QED
        BY <1>4, <2>1, <2>2, <2>3 DEF UserOK, PairOK
<1>17. PICK H2 : H2 = Mine(p)'
    OBVIOUS
<1>18. Apart({}, {}, {}, {}, H2) /\ \A U : SameTable(p, U)
    BY <1>2, <1>13, <1>14, <1>17 DEF Apart, SameTable
<1>19. H2 \subseteq O \cup Mine(p) /\ O \cup M \cup Mine(p) \subseteq H2
    BY <1>6, <1>7, <1>13, <1>17
<1>20. Fits(p, {}, {}, {}, {})'
    BY <1>2, <1>3, <1>17, <1>18, <1>19, LogicFits
<1>21. ProcInv(p)'
    BY <1>2, <1>4, <1>8, <1>16, <1>20, LeftNothing, ProcAhead
<1> QED
    BY <1>2, <1>12, <1>21, StepOfOne

\* A process at the system call of a binding.
LEMMA AtBind ==
    ASSUME LibInv, NEW p \in Procs, AtCall(p, "bind")
    PROVE  UserOK(p) /\ p \notin dying /\ BindStage(p)
<1>1. ProcInv(p) /\ p \notin dying /\ todo[p] # << >> /\ Head(todo[p]).do = "bind"
    BY DEF LibInv, AtCall, InUser
<1>2. UserOK(p) /\ Stage(p)
    BY <1>1 DEF ProcInv
<1>3. ASSUME NEW P, NEW N, NEW O, NEW M, Left(todo[p], P, N, O, M)
      PROVE  FALSE
    <2>1. NextLeft(Head(todo[p]), todo[p], P, N, O, M)
        BY <1>1, <1>3, LeftNext
    <2> QED
        BY <1>1, <2>1 DEF NextLeft
<1> QED
    BY <1>1, <1>2, <1>3 DEF Stage

LEMMA BindStepInv ==
    ASSUME LibInv, NEW p \in Procs, BindStep(p)
    PROVE  LibInv' /\ [DisciplinedNext]_vars
<1>1. /\ AtCall(p, "bind") /\ GoOn(p) /\ ChannelInv /\ tmpfd' = [tmpfd EXCEPT ![p] = -1]
      /\ UNCHANGED <<fd_get_queue, held, linked, dying>>
    BY DEF BindStep, LibInv
<1>2. UserOK(p) /\ p \notin dying /\ BindStage(p)
    BY <1>1, AtBind
<1>3. PICK c \in Connectors :
        /\ todo[p] = <<BindDo(c)>> /\ Fits(p, {}, {}, {}, {})
        /\ tmpfd[p] \in Fds /\ IsNew(<<p, tmpfd[p]>>)
        /\ \A e \in Mine(p) : fd_get_queue[p][e] # tmpfd[p]
        /\ \A ch \in Channels : refs[p][ch] = 0
    BY <1>2 DEF BindStage
<1>4. PICK fd \in Fds : fd = tmpfd[p]
    BY <1>3
<1>5. PICK f \in Files : f = <<p, fd>>
    BY FileIn
<1>6. Head(todo[p]).conn = c /\ Tail(todo[p]) = << >>
    BY <1>3, Lists, Dos
<1>7. /\ DOMAIN todo' = Procs /\ \A q \in Procs : q # p => todo'[q] = todo[q]
      /\ todo'[p] = << >>
    BY <1>1, <1>6, TodoGoes
<1>8. /\ tmpfd' \in [Procs -> Int] /\ \A q \in Procs : q # p => tmpfd'[q] = tmpfd[q]
    BY <1>1 DEF LibInv, LibType
<1>9. Mine(p)' = Mine(p)
    BY <1>1 DEF Mine
<1>10. ASSUME Touches(f), DisciplinedNext,
              \A ch \in Channels : Owns(f, ch)' => half'[f].half = "release",
              \A ch \in Channels : refs'[p][ch] # 0 => fd_ref_queue'[p][ch] = fd /\ IsRef(f)',
              refs' \in [Procs -> [Channels -> Nat]],
              fd_ref_queue' \in [Procs -> [Channels -> Int]],
              \A q \in Procs : q # p => refs'[q] = refs[q] /\ fd_ref_queue'[q] = fd_ref_queue[q],
              UserOK(p)'
       PROVE  LibInv' /\ [DisciplinedNext]_vars
    <2>1. LibType' /\ \A q \in Procs : q # p => SameProc(q)
        BY <1>1, <1>7, <1>8, <1>10 DEF LibInv, LibType, SameProc
    <2>2. \A g \in Mine(p) : fd_get_queue'[p][g] = fd_get_queue[p][g] /\ fd_get_queue[p][g] # fd
        BY <1>1, <1>3, <1>4
    <2>3. Fits(p, {}, {}, {}, {})'
        BY <1>1, <1>3, <1>5, <1>9, <1>10, <2>2, NoEntryFits
    <2>4. ProcInv(p)'
        BY <1>1, <1>2, <1>7, <1>10, <2>3, LeftNothing, ProcAhead
    <2> QED
        BY <1>5, <1>10, <2>1, <2>4, StepOfOne
<1>11. ASSUME NEW ch \in Channels, BindQueue(f, c, ch),
              fd_ref_queue' = [fd_ref_queue EXCEPT ![p][ch] = fd],
              refs' = [refs EXCEPT ![p][ch] = refs[p][ch] + 1]
       PROVE  LibInv' /\ [DisciplinedNext]_vars
    <2>1. /\ Touches(f) /\ DisciplinedNext /\ IsRef(f)'
          /\ \A d \in Channels : ~Owns(f, d)'
        BY <1>1, <1>3, <1>4, <1>5, <1>11, BindTouches
    <2>2. /\ refs \in [Procs -> [Channels -> Nat]] /\ fd_ref_queue \in [Procs -> [Channels -> Int]]
          /\ fd \in Int
        BY LiblldmaAssumption DEF LibInv, LibType
    <2>3. /\ refs' \in [Procs -> [Channels -> Nat]] /\ refs'[p][ch] = 1
          /\ \A d \in Channels : d # ch => refs'[p][d] = 0
          /\ \A q \in Procs : q # p => refs'[q] = refs[q]
        BY <1>3, <1>11, <2>2
    <2>4. /\ fd_ref_queue' \in [Procs -> [Channels -> Int]] /\ fd_ref_queue'[p][ch] = fd
          /\ \A q \in Procs : q # p => fd_ref_queue'[q] = fd_ref_queue[q]
        BY <1>11, <2>2
    <2>5. UserOK(p)'
        BY <1>1, <1>2, <2>3 DEF UserOK
    <2> QED
        BY <1>10, <2>1, <2>3, <2>4, <2>5
<1>12. ASSUME Close(f), UNCHANGED <<fd_ref_queue, refs>>
       PROVE  LibInv' /\ [DisciplinedNext]_vars
    <2>1. /\ Touches(f) /\ DisciplinedNext
          /\ (\E ch \in Channels : Owns(f, ch)') => half'[f].half = "release"
        BY <1>1, <1>12, CloseTouches
    <2>2. UserOK(p)'
        BY <1>1, <1>2, <1>12, SameUser
    <2> QED
        BY <1>3, <1>10, <1>12, <2>1, <2>2 DEF LibInv, LibType
<1> QED
    BY <1>4, <1>5, <1>6, <1>11, <1>12 DEF BindStep

-----------------------------------------------------------------------------
(* The kernel, and the life of processes.                                  *)

\* A step of the driver alone.
LEMMA SameLib ==
    ASSUME LibInv, NEW p \in Procs, UNCHANGED libvars
    PROVE  /\ LibType' /\ \A q \in Procs : SameProc(q)
           /\ UserOK(p) /\ UserOK(p)' /\ Mine(p)' = Mine(p) /\ \A U : SameTable(p, U)
<1>1. /\ UNCHANGED <<fd_get_queue, fd_ref_queue, todo, tmpfd, held, linked, refs, dying>>
      /\ UserOK(p)
    BY DEF libvars, LibInv, ProcInv
<1>2. UserOK(p)' /\ Mine(p)' = Mine(p)
    BY <1>1, SameUser
<1> QED
    BY <1>1, <1>2 DEF LibInv, LibType, SameProc, SameTable

LEMMA InKernelInv ==
    ASSUME LibInv, NEW p \in Procs, InKernel(p)
    PROVE  LibInv' /\ [DisciplinedNext]_vars
<1>1. PICK fd \in Fds : Continue(<<p, fd>>)
    BY DEF InKernel
<1>2. UNCHANGED libvars /\ ChannelInv /\ ProcInv(p)
    BY DEF InKernel, LibInv
<1>3. PICK f \in Files : f = <<p, fd>>
    BY FileIn
<1>4. Continue(f) /\ Touches(f) /\ DisciplinedNext /\ half[f] # Idle
    BY <1>1, <1>2, <1>3, ContinueTouches
<1>5. /\ LibType' /\ \A q \in Procs : SameProc(q)
      /\ UserOK(p) /\ UserOK(p)' /\ Mine(p)' = Mine(p) /\ \A U : SameTable(p, U)
    BY <1>2, SameLib
<1>6. todo'[p] = todo[p] /\ dying' = dying
    BY <1>2 DEF libvars
<1>7. ProcInv(p)'
    <2>1. CASE p \in dying
        BY <1>2, <1>5, <2>1 DEF ProcInv, libvars
    <2>2. ASSUME p \notin dying,
                 NEW P, NEW N, NEW O, NEW M, Left(todo[p], P, N, O, M), Fits(p, P, N, O, M)
          PROVE  ProcInv(p)'
        <3>1. Fits(p, P, N, O, M)'
            BY <1>1, <1>2, <1>5, <2>2, ContinueFits
        <3> QED
            BY <1>5, <1>6, <2>2, <3>1, ProcAhead
    <2>3. CASE p \notin dying /\ BindStage(p)
        <3>1. PICK c \in Connectors :
                /\ todo[p] = <<BindDo(c)>> /\ Fits(p, {}, {}, {}, {})
                /\ tmpfd[p] \in Fds /\ IsNew(<<p, tmpfd[p]>>)
                /\ \A e \in Mine(p) : fd_get_queue[p][e] # tmpfd[p]
                /\ \A ch \in Channels : refs[p][ch] = 0
            BY <2>3 DEF BindStage
        <3>2. Fits(p, {}, {}, {}, {})'
            BY <1>1, <1>2, <1>5, <3>1, ContinueFits
        <3>3. PICK g \in Files : g = <<p, tmpfd[p]>>
            BY <3>1, FileIn
        <3>4. g # f /\ IsNew(g)
            BY <1>4, <3>1, <3>3 DEF IsNew
        <3>5. IsNew(g)'
            BY <1>2, <1>4, <3>4, TouchRest DEF SameFile
        <3>6. tmpfd' = tmpfd /\ fd_get_queue' = fd_get_queue /\ refs' = refs
            BY <1>2 DEF libvars
        <3>7. IsNew(<<p, tmpfd[p]>>)'
            BY <3>3, <3>5, <3>6 DEF IsNew
        <3>8. BindStage(p)'
            BY <1>5, <1>6, <3>1, <3>2, <3>6, <3>7 DEF BindStage
        <3> QED
            BY <1>5, <1>6, <2>3, <3>8 DEF ProcInv, Stage
    <2> QED
        BY <1>2, <2>1, <2>2, <2>3 DEF ProcInv, Stage
<1> QED
    BY <1>3, <1>4, <1>5, <1>7, StepOfOne

LEMMA CloseAtExitInv ==
    ASSUME LibInv, NEW p \in Procs, CloseAtExit(p)
    PROVE  LibInv' /\ [DisciplinedNext]_vars
<1>1. PICK fd \in Fds : Close(<<p, fd>>)
    BY DEF CloseAtExit
<1>2. UNCHANGED libvars /\ ChannelInv /\ ProcInv(p) /\ p \in dying
    BY DEF CloseAtExit, LibInv
<1>3. Touches(<<p, fd>>) /\ DisciplinedNext
    BY <1>1, <1>2, FileIn, CloseTouches
<1>4. LibType' /\ (\A q \in Procs : SameProc(q)) /\ UserOK(p)'
    BY <1>2, SameLib
<1>5. ProcInv(p)'
    BY <1>2, <1>4 DEF ProcInv, libvars
<1> QED
    BY <1>3, <1>4, <1>5, StepOfOne

\* No entry, no binding, and no file that owns a channel.
LEMMA NothingFits ==
    ASSUME NEW p, Mine(p)' = {}, \A ch \in Channels : refs'[p][ch] = 0,
           \A fd \in Fds, ch \in Channels : ~Owns(<<p, fd>>, ch)'
    PROVE  Fits(p, {}, {}, {}, {})'
<1>1. Apart({}, {}, {}, {}, Mine(p))'
    BY DEF Apart
<1>2. Kept(p, {}, {}, {})'
    BY DEF Kept
<1>3. Distinct(p, InUse(p, {}, {}, {}))'
    BY DEF Distinct, InUse
<1>4. Covered(p, {} \cup {} \cup Mine(p))'
    BY DEF Covered
<1>5. RefsFit(p, InUse(p, {}, {}, {}))'
    BY DEF RefsFit
<1> QED
    BY <1>1, <1>2, <1>3, <1>4, <1>5 DEF Fits

LEMMA RespawnInv ==
    ASSUME LibInv, NEW p \in Procs, Respawn(p)
    PROVE  LibInv' /\ [DisciplinedNext]_vars
<1>1. /\ p \in dying /\ FreeFds(p) = Fds /\ dying' = dying \ {p} /\ UNCHANGED vars
      /\ UNCHANGED <<fd_get_queue, fd_ref_queue, todo, tmpfd, held, linked, refs>>
    BY DEF Respawn
<1>2. LibType' /\ \A q \in Procs : q # p => SameProc(q)
    BY <1>1 DEF LibInv, LibType, SameProc
<1>3. /\ UserOK(p) /\ todo[p] = << >> /\ held[p] = {} /\ linked[p] = {}
      /\ \A ch \in Channels : refs[p][ch] = 0
    BY <1>1 DEF LibInv, ProcInv
<1>4. UserOK(p)' /\ Mine(p)' = Mine(p)
    BY <1>1, <1>3, SameUser
<1>5. Mine(p) = {}
    BY <1>3 DEF Mine
<1>6. \A fd \in Fds, ch \in Channels : ~Owns(<<p, fd>>, ch)'
    <2> SUFFICES ASSUME NEW fd \in Fds PROVE \A ch \in Channels : ~Owns(<<p, fd>>, ch)'
        OBVIOUS
    <2>1. PICK f \in Files : f = <<p, fd>>
        BY FileIn
    <2>2. ~private[f].open
        BY <1>1, <2>1 DEF FreeFds, IsOpen
    <2>3. ~private[f].is_get_queue /\ half[f] = Idle
        BY <2>2 DEF LibInv, ChannelInv, HalvesOK
    <2>4. half[f].half \notin Taking
        BY <2>3, Shapes DEF Taking
    <2> QED
        BY <1>1, <2>1, <2>3, <2>4 DEF Owns, Taking, vars
<1>7. Fits(p, {}, {}, {}, {})'
    BY <1>1, <1>3, <1>4, <1>5, <1>6, NothingFits
<1>8. Left(todo'[p], {}, {}, {}, {}) /\ p \notin dying'
    BY <1>1, <1>3, LeftNothing
<1>9. Stage(p)'
    BY <1>7, <1>8 DEF Stage
<1>10. ProcInv(p)'
    BY <1>4, <1>8, <1>9 DEF ProcInv
<1> QED
    BY <1>1, <1>2, <1>10, StepOfOne

LEMMA DieInv ==
    ASSUME LibInv, NEW p \in Procs, Die(p)
    PROVE  LibInv' /\ [DisciplinedNext]_vars
<1>1. /\ UNCHANGED vars /\ dying' = dying \cup {p}
      /\ fd_get_queue' = [fd_get_queue EXCEPT ![p] = [e \in Entries |-> -1]]
      /\ fd_ref_queue' = [fd_ref_queue EXCEPT ![p] = [ch \in Channels |-> 0]]
      /\ todo' = [todo EXCEPT ![p] = << >>]
      /\ tmpfd' = [tmpfd EXCEPT ![p] = -1]
      /\ held' = [held EXCEPT ![p] = {}]
      /\ linked' = [linked EXCEPT ![p] = {}]
      /\ refs' = [refs EXCEPT ![p] = [ch \in Channels |-> 0]]
    BY DEF Die
<1>2. LibType
    BY DEF LibInv
<1>3. LibType'
    BY <1>1, <1>2 DEF LibType
<1>4. \A q \in Procs : q # p => SameProc(q)
    BY <1>1, <1>2 DEF LibType, SameProc
<1>5. /\ todo'[p] = << >> /\ held'[p] = {} /\ linked'[p] = {} /\ p \in dying'
      /\ \A ch \in Channels : refs'[p][ch] = 0
    BY <1>1, <1>2 DEF LibType
<1>6. UserOK(p)'
    BY <1>5 DEF UserOK
<1>7. ProcInv(p)'
    BY <1>5, <1>6 DEF ProcInv
<1> QED
    BY <1>1, <1>3, <1>4, <1>7, StepOfOne

-----------------------------------------------------------------------------
(* The library functions.                                                  *)

\* Concatenation, element by element.
LEMMA JoinAll ==
    ASSUME NEW S, NEW q \in Seq(S), NEW r \in Seq(S), NEW t \in Seq(S),
           Len(t) = Len(q) + Len(r), \A i \in 1 .. Len(q) : t[i] = q[i],
           \A i \in 1 .. Len(r) : t[Len(q) + i] = r[i]
    PROVE  q \o r = t
<1>1. Len(q) \in Nat /\ Len(r) \in Nat
    OBVIOUS
<1>2. PICK s : s = q \o r
    OBVIOUS
<1>3. /\ s \in Seq(S) /\ Len(s) = Len(q) + Len(r)
      /\ \A i \in 1 .. Len(q) + Len(r) : s[i] =
                     IF i <= Len(q) THEN q[i] ELSE r[i - Len(q)]
    BY <1>2, ConcatProperties, Zenon
<1>4. \A i \in 1 .. Len(s) : s[i] = t[i]
    <2> SUFFICES ASSUME NEW i \in 1 .. Len(s) PROVE s[i] = t[i]
        OBVIOUS
    <2>1. CASE i <= Len(q)
        BY <2>1, <1>1, <1>3
    <2>2. CASE i > Len(q)
        <3>1. PICK j \in 1 .. Len(r) : i = Len(q) + j
            <4>1. i - Len(q) \in 1 .. Len(r) /\ i = Len(q) + (i - Len(q))
                BY <1>1, <1>3, <2>2
            <4> QED
                BY <4>1
        <3>2. i - Len(q) = j /\ ~(i <= Len(q))
            BY <1>1, <2>2, <3>1
        <3>3. s[i] = r[j]
            BY <1>3, <3>2
        <3> QED
            BY <3>1, <3>3
    <2> QED
        BY <1>1, <1>3, <2>1, <2>2
<1>5. s = t
    BY <1>3, <1>4, SeqEqual, Zenon
<1> QED
    BY <1>2, <1>5

LEMMA JoinFour == ASSUME NEW a, NEW b, NEW c, NEW d PROVE <<a, b>> \o <<c, d>> = <<a, b, c, d>>
<1>1. PICK S : S = {a, b, c, d}
    OBVIOUS
<1>2. PICK q, r, t : q = <<a, b>> /\ r = <<c, d>> /\ t = <<a, b, c, d>>
    OBVIOUS
<1>3. q \in Seq(S) /\ r \in Seq(S) /\ t \in Seq(S) /\ Len(t) = Len(q) + Len(r)
    BY <1>1, <1>2
<1>4. \A i \in 1 .. Len(q) : t[i] = q[i]
    BY <1>2
<1>5. \A i \in 1 .. Len(r) : t[Len(q) + i] = r[i]
    BY <1>2
<1>6. q \o r = t
    BY <1>3, <1>4, <1>5, JoinAll, Zenon
<1> QED
    BY <1>2, <1>6, Zenon

LEMMA JoinSeven ==
    ASSUME NEW a, NEW b, NEW c, NEW d, NEW e, NEW f, NEW g
    PROVE  <<a, b, c, d>> \o <<e, f, g>> = <<a, b, c, d, e, f, g>>
<1>1. PICK S : S = {a, b, c, d, e, f, g}
    OBVIOUS
<1>2. PICK q, r, t : q = <<a, b, c, d>> /\ r = <<e, f, g>> /\ t = <<a, b, c, d, e, f, g>>
    OBVIOUS
<1>3. q \in Seq(S) /\ r \in Seq(S) /\ t \in Seq(S) /\ Len(t) = Len(q) + Len(r)
    BY <1>1, <1>2
<1>4. \A i \in 1 .. Len(q) : t[i] = q[i]
    BY <1>2
<1>5. \A i \in 1 .. Len(r) : t[Len(q) + i] = r[i]
    BY <1>2
<1>6. q \o r = t
    BY <1>3, <1>4, <1>5, JoinAll, Zenon
<1> QED
    BY <1>2, <1>6, Zenon

\* A library call begins: entries become those it will open (P), or are given
\* back (M).
LEMMA BeginInv ==
    ASSUME LibInv, NEW p \in Procs, NEW t, Begin(p, t),
           UNCHANGED <<vars, fd_get_queue, fd_ref_queue, tmpfd, refs, dying>>,
           DOMAIN held' = Procs, DOMAIN linked' = Procs,
           \A q \in Procs : q # p => held'[q] = held[q] /\ linked'[q] = linked[q],
           UserOK(p)', NEW H2, H2 = Mine(p)', NEW P, NEW M, Left(t, P, {}, {}, M),
           P \cup M \subseteq Entries, P \cap (M \cup Mine(p)) = {}, M \cap H2 = {},
           M \subseteq Mine(p), H2 \subseteq Mine(p), Mine(p) \subseteq M \cup H2
    PROVE  LibInv' /\ [DisciplinedNext]_vars
<1>1. CanCall(p) /\ todo' = [todo EXCEPT ![p] = t]
    BY DEF Begin
<1>2. UserOK(p) /\ p \notin dying /\ InUser(p) /\ Fits(p, {}, {}, {}, {})
    BY <1>1, AtRest
<1>3. DOMAIN todo' = Procs /\ todo'[p] = t /\ \A q \in Procs : q # p => todo'[q] = todo[q]
    BY <1>1, TodoStep
<1>4. LibType' /\ \A q \in Procs : q # p => SameProc(q)
    BY <1>3 DEF LibInv, LibType, SameProc
<1>5. \A U : SameTable(p, U)
    BY DEF SameTable
<1>6. Mine(p) \subseteq Entries
    BY <1>2 DEF Fits, Apart
<1>7. Apart(P, {}, {}, M, H2)
    BY <1>6 DEF Apart
<1>8. Fits(p, P, {}, {}, M)'
    BY <1>2, <1>5, <1>7, LogicFits
<1>9. Left(todo'[p], P, {}, {}, M)
    BY <1>3
<1>10. ProcInv(p)'
    BY <1>2, <1>8, <1>9, ProcAhead
<1> QED
    BY <1>4, <1>10, StepOfOne

LEMMA LldmaInitInv ==
    ASSUME LibInv, NEW p \in Procs, NEW e \in Entries, NEW c \in Connectors, e \notin Mine(p),
           LldmaInit(p, e, c)
    PROVE  LibInv' /\ [DisciplinedNext]_vars
<1>1. /\ UNCHANGED <<vars, fd_get_queue, fd_ref_queue, tmpfd, held, linked, refs, dying>>
      /\ Begin(p, CheckQueue(e) \o <<AllocDo(e, c), DupDo(e, c)>>)
    BY DEF LldmaInit, AllocDo, DupDo
<1>2. PICK t : t = <<Simple("open", e), StatDo(e), AllocDo(e, c), DupDo(e, c)>>
    OBVIOUS
<1>3. CheckQueue(e) \o <<AllocDo(e, c), DupDo(e, c)>> = t
    BY <1>2, JoinFour, Zenon DEF CheckQueue, StatDo
<1>4. Begin(p, t)
    BY <1>1, <1>3
<1>5. PICK E : E = {e}
    OBVIOUS
<1>6. InitLeft(e, c, t, E, {}, {}, {})
    BY <1>2, <1>5 DEF InitLeft
<1>7. Left(t, E, {}, {}, {})
    BY <1>6, LeftOfInit
<1>8. UserOK(p)' /\ Mine(p)' = Mine(p)
    BY <1>1, SameUser DEF LibInv, ProcInv
<1>9. /\ E \cup {} \subseteq Entries /\ E \cap ({} \cup Mine(p)) = {} /\ {} \cap Mine(p) = {}
      /\ Mine(p) \subseteq {} \cup Mine(p)
    BY <1>5
<1>10. DOMAIN held' = Procs /\ DOMAIN linked' = Procs
    BY <1>1 DEF LibInv, LibType
<1> QED
    BY <1>1, <1>4, <1>7, <1>8, <1>9, <1>10, BeginInv

LEMMA LldmaFinishInv ==
    ASSUME LibInv, NEW p \in Procs, NEW e \in Entries, LldmaFinish(p, e)
    PROVE  LibInv' /\ [DisciplinedNext]_vars
<1>1. /\ e \in held[p] /\ held' = [held EXCEPT ![p] = held[p] \ {e}] /\ CanCall(p)
      /\ UNCHANGED <<vars, fd_get_queue, fd_ref_queue, tmpfd, linked, refs, dying>>
    BY DEF LldmaFinish, Begin
<1>2. UserOK(p) /\ Fits(p, {}, {}, {}, {})
    BY <1>1, AtRest
<1>3. e \in Mine(p) /\ fd_get_queue[p][e] \in Fds
    BY <1>1, <1>2, FitsFile DEF Mine, InUse
<1>4. fd_get_queue[p][e] # -1
    BY <1>3, LiblldmaAssumption
<1>5. PICK t : t = <<FreeDo(e), Simple("drop", e)>>
    OBVIOUS
<1>6. Begin(p, t)
    BY <1>4, <1>5 DEF LldmaFinish, FreeDo
<1>7. PICK E : E = {e}
    OBVIOUS
<1>8. Left(t, {}, {}, {}, E)
    BY <1>5, <1>7, LeftOfEnd
<1>9. /\ DOMAIN held' = Procs /\ held'[p] = held[p] \ {e}
      /\ \A q \in Procs : q # p => held'[q] = held[q]
      /\ DOMAIN linked' = Procs /\ linked' = linked
    BY <1>1 DEF LibInv, LibType
<1>10. PICK H2 : H2 = Mine(p)'
    OBVIOUS
<1>11. \A l \in linked[p] : e # Host(l[1]) /\ e # Host(l[2])
    BY <1>1, <1>2 DEF UserOK
<1>12. H2 = Mine(p) \ {e}
    BY <1>9, <1>10, <1>11 DEF Mine
<1>13. UserOK(p)'
    BY <1>1, <1>2, <1>9 DEF UserOK
<1>14. /\ {} \cup E \subseteq Entries /\ {} \cap (E \cup Mine(p)) = {} /\ E \cap H2 = {}
       /\ E \subseteq Mine(p) /\ H2 \subseteq Mine(p) /\ Mine(p) \subseteq E \cup H2
    BY <1>3, <1>7, <1>12
<1> QED
    BY <1>1, <1>6, <1>8, <1>9, <1>10, <1>13, <1>14, BeginInv

LEMMA ConnectInv ==
    ASSUME LibInv, NEW p \in Procs, NEW tx \in Channels, NEW rx \in Channels, NEW c \in Connectors,
           Host(tx) \in Entries, Host(rx) \in Entries, {Host(tx), Host(rx)} \cap Mine(p) = {},
           Connect(p, tx, rx, c)
    PROVE  LibInv' /\ [DisciplinedNext]_vars
<1>1. PICK a \in Entries : a = Host(tx)
    OBVIOUS
<1>2. PICK b \in Entries : b = Host(rx)
    OBVIOUS
<1>3. a[2] = tx /\ b[2] = rx
    BY <1>1, <1>2 DEF Host
<1>4. PairOK(a, b)
    BY <1>1, <1>2, <1>3 DEF PairOK, Connect
<1>5. /\ UNCHANGED <<vars, fd_get_queue, fd_ref_queue, tmpfd, held, linked, refs, dying>>
      /\ Begin(p, CheckQueue(a) \o CheckQueue(b) \o
                  <<TxDo(a, c), RxDo(a, b, c), LinkDo(a, b)>>)
    BY <1>1, <1>2, <1>3, Zenon DEF Connect, TxDo, RxDo, LinkDo
<1>6. PICK q : q = <<Simple("open", a), StatDo(a), Simple("open", b), StatDo(b)>>
    OBVIOUS
<1>7. CheckQueue(a) \o CheckQueue(b) = q
    BY <1>6, JoinFour, Zenon DEF CheckQueue, StatDo
<1>8. PICK t : t = <<Simple("open", a), StatDo(a), Simple("open", b), StatDo(b),
                     TxDo(a, c), RxDo(a, b, c), LinkDo(a, b)>>
    OBVIOUS
<1>9. <<Simple("open", a), StatDo(a), Simple("open", b), StatDo(b)>> \o
        <<TxDo(a, c), RxDo(a, b, c), LinkDo(a, b)>> = t
    BY <1>8, JoinSeven
<1>10. Begin(p, t)
    BY <1>5, <1>6, <1>7, <1>9
<1>11. PICK E : E = {a, b}
    OBVIOUS
<1>12. ConnectLeft(a, b, c, t, E, {}, {}, {})
    BY <1>8, <1>11 DEF ConnectLeft
<1>13. Left(t, E, {}, {}, {})
    BY <1>4, <1>12, LeftOfConnect
<1>14. UserOK(p)' /\ Mine(p)' = Mine(p)
    BY <1>5, SameUser DEF LibInv, ProcInv
<1>15. /\ E \cup {} \subseteq Entries /\ E \cap ({} \cup Mine(p)) = {} /\ {} \cap Mine(p) = {}
       /\ Mine(p) \subseteq {} \cup Mine(p)
    BY <1>1, <1>2, <1>11
<1>16. DOMAIN held' = Procs /\ DOMAIN linked' = Procs
    BY <1>5 DEF LibInv, LibType
<1> QED
    BY <1>5, <1>10, <1>13, <1>14, <1>15, <1>16, BeginInv

LEMMA DisconnectInv ==
    ASSUME LibInv, NEW p \in Procs, NEW tx \in Channels, NEW rx \in Channels,
           Disconnect(p, tx, rx)
    PROVE  LibInv' /\ [DisciplinedNext]_vars
<1>1. PICK l : l = <<tx, rx>>
    OBVIOUS
<1>2. /\ l \in linked[p] /\ linked' = [linked EXCEPT ![p] = linked[p] \ {l}] /\ CanCall(p)
      /\ UNCHANGED <<vars, fd_get_queue, fd_ref_queue, tmpfd, held, refs, dying>>
    BY <1>1 DEF Disconnect, Begin
<1>3. UserOK(p) /\ Fits(p, {}, {}, {}, {})
    BY <1>2, AtRest
<1>4. l[1] = tx /\ l[2] = rx
    BY <1>1
<1>5. PICK a \in Entries : a = Host(tx)
    BY <1>2, <1>3, <1>4 DEF UserOK, PairOK
<1>6. PICK b \in Entries : b = Host(rx)
    BY <1>2, <1>3, <1>4 DEF UserOK, PairOK
<1>7. /\ PairOK(a, b) /\ a # b /\ a \notin held[p] /\ b \notin held[p]
      /\ \A m \in linked[p] : m # l => {a, b} \cap {Host(m[1]), Host(m[2])} = {}
    BY <1>2, <1>3, <1>4, <1>5, <1>6 DEF UserOK, PairOK
<1>8. a \in Mine(p) /\ b \in Mine(p)
    BY <1>2, <1>4, <1>5, <1>6 DEF Mine
<1>9. fd_get_queue[p][a] >= 0 /\ fd_get_queue[p][b] >= 0
    <2>1. a \in InUse(p, {}, {}, {}) /\ b \in InUse(p, {}, {}, {})
        BY <1>8 DEF InUse
    <2>2. fd_get_queue[p][a] \in Fds
        BY <1>3, <2>1, FitsFile
    <2>3. fd_get_queue[p][b] \in Fds
        BY <1>3, <2>1, FitsFile
    <2>4. \A fd \in Fds : fd \in Nat
        BY LiblldmaAssumption
    <2>5. fd_get_queue[p][a] \in Nat /\ fd_get_queue[p][b] \in Nat
        BY <2>2, <2>3, <2>4
    <2> QED
        BY <2>5
<1>10. PICK t : t = <<Simple("disconnect", b), Simple("drop", b),
                      Simple("disconnect", a), Simple("drop", a)>>
    OBVIOUS
<1>11. /\ DisconnectOne(p, a) = <<Simple("disconnect", a), Simple("drop", a)>>
       /\ DisconnectOne(p, b) = <<Simple("disconnect", b), Simple("drop", b)>>
    BY <1>9 DEF DisconnectOne
<1>12. <<Simple("disconnect", b), Simple("drop", b)>> \o
         <<Simple("disconnect", a), Simple("drop", a)>> = t
    BY <1>10, JoinFour
<1>13. Begin(p, DisconnectOne(p, b) \o DisconnectOne(p, a))
    BY <1>5, <1>6 DEF Disconnect
<1>14. Begin(p, t)
    BY <1>11, <1>12, <1>13
<1>15. PICK E : E = {a, b}
    OBVIOUS
<1>16. Left(t, {}, {}, {}, E)
    BY <1>7, <1>10, <1>15, LeftOfDisconnect
<1>17. /\ DOMAIN linked' = Procs /\ linked'[p] = linked[p] \ {l}
       /\ \A q \in Procs : q # p => linked'[q] = linked[q]
       /\ DOMAIN held' = Procs /\ held' = held
    BY <1>2 DEF LibInv, LibType
<1>18. PICK H2 : H2 = Mine(p)'
    OBVIOUS
<1>19. H2 = Mine(p) \ E
    <2>1. Mine(p) = held[p] \cup UNION {{Host(m[1]), Host(m[2])} : m \in linked[p]}
        BY DEF Mine
    <2>2. H2 = held[p] \cup UNION {{Host(m[1]), Host(m[2])} : m \in linked[p] \ {l}}
        BY <1>17, <1>18 DEF Mine
    <2>3. ASSUME NEW e PROVE e \in H2 <=> e \in Mine(p) /\ e \notin E
        <3>1. ASSUME e \in H2 PROVE e \in Mine(p) /\ e \notin E
            BY <1>7, <1>15, <2>1, <2>2, <3>1
        <3>2. ASSUME e \in Mine(p), e \notin E PROVE e \in H2
            <4>1. {Host(l[1]), Host(l[2])} = E
                BY <1>4, <1>5, <1>6, <1>15
            <4> QED
                BY <2>1, <2>2, <3>2, <4>1
        <3> QED
            BY <3>1, <3>2
    <2> QED
        BY <2>3
<1>20. UserOK(p)'
    BY <1>2, <1>3, <1>17 DEF UserOK
<1>21. /\ {} \cup E \subseteq Entries /\ {} \cap (E \cup Mine(p)) = {} /\ E \cap H2 = {}
       /\ E \subseteq Mine(p) /\ H2 \subseteq Mine(p) /\ Mine(p) \subseteq E \cup H2
    BY <1>8, <1>15, <1>19
<1> QED
    BY <1>2, <1>14, <1>16, <1>17, <1>18, <1>20, <1>21, BeginInv

LEMMA QueueSetupInv ==
    ASSUME LibInv, NEW p \in Procs, NEW c \in Connectors, \A ch \in Channels : refs[p][ch] = 0,
           QueueSetup(p, c)
    PROVE  LibInv' /\ [DisciplinedNext]_vars
<1>1. /\ FreeFds(p) # {} /\ CanCall(p) /\ todo' = [todo EXCEPT ![p] = <<BindDo(c)>>]
      /\ DoOpen(p) /\ tmpfd' = [tmpfd EXCEPT ![p] = Min(FreeFds(p))] /\ ChannelInv
      /\ UNCHANGED <<fd_get_queue, fd_ref_queue, held, linked, refs, dying>>
    BY DEF QueueSetup, Begin, BindDo, LibInv
<1>2. UserOK(p) /\ p \notin dying /\ Fits(p, {}, {}, {}, {})
    BY <1>1, AtRest
<1>3. PICK fd \in Fds : fd = Min(FreeFds(p)) /\ ~private[<<p, fd>>].open
    BY <1>1, LowestFd
<1>4. PICK f \in Files : f = <<p, fd>>
    BY FileIn
<1>5. Open(f)
    BY <1>1, <1>3, <1>4 DEF DoOpen
<1>6. Touches(f) /\ IsNew(f)' /\ DisciplinedNext /\ \A ch \in Channels : ~Owns(f, ch)'
    BY <1>1, <1>5, OpenTouches
<1>7. /\ tmpfd' \in [Procs -> Int] /\ tmpfd'[p] = fd
      /\ \A q \in Procs : q # p => tmpfd'[q] = tmpfd[q]
    <2>1. tmpfd \in [Procs -> Int] /\ fd \in Int
        BY LiblldmaAssumption DEF LibInv, LibType
    <2> QED
        BY <1>1, <1>3, <2>1
<1>8. /\ DOMAIN todo' = Procs /\ todo'[p] = <<BindDo(c)>>
      /\ \A q \in Procs : q # p => todo'[q] = todo[q]
    BY <1>1, TodoStep
<1>9. LibType' /\ \A q \in Procs : q # p => SameProc(q)
    BY <1>1, <1>7, <1>8 DEF LibInv, LibType, SameProc
<1>10. UserOK(p)' /\ Mine(p)' = Mine(p)
    BY <1>1, <1>2, SameUser
<1>11. \A g \in Mine(p) : fd_get_queue'[p][g] = fd_get_queue[p][g] /\ fd_get_queue[p][g] # fd
    BY <1>1, <1>2, <1>3, InUseOpen DEF File, InUse
<1>12. Fits(p, {}, {}, {}, {})'
    BY <1>1, <1>2, <1>4, <1>6, <1>10, <1>11, NoEntryFits
<1>13. IsNew(<<p, tmpfd[p]>>)'
    BY <1>4, <1>6, <1>7 DEF IsNew
<1>14. \A e \in Mine(p)' : fd_get_queue'[p][e] # tmpfd'[p]
    BY <1>7, <1>10, <1>11
<1>15. BindStage(p)'
    BY <1>1, <1>7, <1>8, <1>12, <1>13, <1>14 DEF BindStage
<1>16. ProcInv(p)'
    BY <1>1, <1>2, <1>10, <1>15 DEF ProcInv, Stage
<1> QED
    BY <1>4, <1>6, <1>9, <1>16, StepOfOne

LEMMA QueueFinishInv ==
    ASSUME LibInv, NEW p \in Procs, NEW ch \in Channels, QueueFinish(p, ch)
    PROVE  LibInv' /\ [DisciplinedNext]_vars
<1>1. /\ CanCall(p) /\ refs[p][ch] > 0 /\ DoClose(p, fd_ref_queue[p][ch]) /\ ChannelInv
      /\ refs' = [refs EXCEPT ![p][ch] = refs[p][ch] - 1]
      /\ UNCHANGED <<fd_get_queue, fd_ref_queue, todo, tmpfd, held, linked, dying>>
    BY DEF QueueFinish, LibInv
<1>2. UserOK(p) /\ p \notin dying /\ Fits(p, {}, {}, {}, {}) /\ todo[p] = << >>
    BY <1>1, AtRest DEF CanCall
<1>3. refs[p][ch] = 1 /\ \A d \in Channels : d # ch => refs[p][d] = 0
    BY <1>1, <1>2 DEF UserOK
<1>4. /\ fd_ref_queue[p][ch] \in Fds /\ IsRef(<<p, fd_ref_queue[p][ch]>>)
      /\ \A e \in Mine(p) : fd_get_queue[p][e] # fd_ref_queue[p][ch]
    BY <1>2, <1>3 DEF Fits, RefsFit, InUse
<1>5. PICK fd \in Fds : fd = fd_ref_queue[p][ch]
    BY <1>4
<1>6. PICK f \in Files : f = <<p, fd>>
    BY FileIn
<1>7. Close(f)
    BY <1>1, <1>4, <1>5, <1>6 DEF DoClose, IsOpen, IsRef
<1>8. /\ Touches(f) /\ DisciplinedNext
      /\ \A d \in Channels : Owns(f, d)' => half'[f].half = "release"
    BY <1>1, <1>7, CloseTouches
<1>9. /\ refs' \in [Procs -> [Channels -> Nat]] /\ \A d \in Channels : refs'[p][d] = 0
      /\ \A q \in Procs : q # p => refs'[q] = refs[q]
    <2>1. refs \in [Procs -> [Channels -> Nat]]
        BY DEF LibInv, LibType
    <2> QED
        BY <1>1, <1>3, <2>1
<1>10. LibType' /\ \A q \in Procs : q # p => SameProc(q)
    BY <1>1, <1>9 DEF LibInv, LibType, SameProc
<1>11. UserOK(p)' /\ Mine(p)' = Mine(p)
    BY <1>1, <1>2, <1>9 DEF UserOK, Mine
<1>12. \A g \in Mine(p) : fd_get_queue'[p][g] = fd_get_queue[p][g] /\ fd_get_queue[p][g] # fd
    BY <1>1, <1>4, <1>5
<1>13. Fits(p, {}, {}, {}, {})'
    BY <1>1, <1>2, <1>6, <1>8, <1>9, <1>11, <1>12, NoEntryFits
<1>14. Left(todo'[p], {}, {}, {}, {})
    BY <1>1, <1>2, LeftNothing
<1>15. ProcInv(p)'
    BY <1>1, <1>2, <1>11, <1>13, <1>14, ProcAhead
<1> QED
    BY <1>6, <1>8, <1>10, <1>15, StepOfOne

-----------------------------------------------------------------------------
(* The inductive invariant, and what follows from it.                      *)

LEMMA LibInvInit == LibInit => LibInv
<1> SUFFICES ASSUME LibInit PROVE LibInv
    OBVIOUS
<1>1. ChannelInv
    BY InvInit DEF LibInit
<1>2. LibType
    BY DEF LibInit, LibType
<1>3. ASSUME NEW p \in Procs PROVE ProcInv(p)
    <2>1. /\ todo[p] = << >> /\ held[p] = {} /\ linked[p] = {} /\ p \notin dying
          /\ \A ch \in Channels : refs[p][ch] = 0
        BY DEF LibInit
    <2>2. Mine(p) = {}
        BY <2>1 DEF Mine
    <2>3. \A fd \in Fds, ch \in Channels : ~Owns(<<p, fd>>, ch)
        BY FileIn, Shapes DEF LibInit, Init, Owns, Taking
    <2>4. Fits(p, {}, {}, {}, {})
        BY <2>1, <2>2, <2>3 DEF Fits, Apart, Kept, Distinct, Covered, RefsFit, InUse
    <2>5. Stage(p)
        BY <2>1, <2>4, LeftNothing DEF Stage
    <2> QED
        BY <2>1, <2>5 DEF ProcInv, UserOK
<1> QED
    BY <1>1, <1>2, <1>3 DEF LibInv

LEMMA SystemCallInv ==
    ASSUME LibInv, NEW p \in Procs, SystemCall(p)
    PROVE  LibInv' /\ [DisciplinedNext]_vars
BY OpenStepInv, StatInv, AllocStepInv, DupStepInv, FreeQueueStepInv, FreeConnectionStepInv,
   CloseStepInv, LinkStepInv, BindStepInv DEF SystemCall

LEMMA UserCallInv ==
    ASSUME LibInv, NEW p \in Procs, UserCall(p, FALSE)
    PROVE  LibInv' /\ [DisciplinedNext]_vars
<1>1. CASE \E e \in Entries, c \in Connectors : e \notin Mine(p) /\ LldmaInit(p, e, c)
    BY <1>1, LldmaInitInv
<1>2. CASE \E e \in Entries : LldmaFinish(p, e)
    BY <1>2, LldmaFinishInv
<1>3. CASE \E tx, rx \in {ch \in Channels : Host(ch) \in Entries}, c \in Connectors :
              {Host(tx), Host(rx)} \cap Mine(p) = {} /\ Connect(p, tx, rx, c)
    BY <1>3, ConnectInv
<1>4. CASE \E tx, rx \in Channels : Disconnect(p, tx, rx)
    BY <1>4, DisconnectInv
<1>5. CASE \E c \in Connectors : (\A ch \in Channels : refs[p][ch] = 0) /\ QueueSetup(p, c)
    BY <1>5, QueueSetupInv
<1>6. CASE \E ch \in Channels : QueueFinish(p, ch)
    BY <1>6, QueueFinishInv
<1> QED
    BY <1>1, <1>2, <1>3, <1>4, <1>5, <1>6 DEF UserCall

LEMMA LibStutterInv ==
    ASSUME LibInv, UNCHANGED allvars
    PROVE  LibInv' /\ [DisciplinedNext]_vars
<1>1. UNCHANGED vars /\ UNCHANGED libvars
    BY DEF allvars
<1>2. ChannelInv'
    BY <1>1, StutterInv DEF LibInv
<1>3. LibType'
    BY <1>1 DEF LibInv, LibType, libvars
<1>4. ASSUME NEW p \in Procs PROVE ProcInv(p)'
    <2>1. SameProc(p) /\ ProcInv(p)
        BY <1>1 DEF libvars, SameProc, LibInv
    <2>2. \A fd \in Fds : SameFile(<<p, fd>>)
        BY <1>1, SameVars
    <2> QED
        BY <2>1, <2>2, FrameProc
<1> QED
    BY <1>1, <1>2, <1>3, <1>4 DEF LibInv

LEMMA LibInvStep ==
    LibInv /\ [LibNext(FALSE)]_allvars => LibInv' /\ [DisciplinedNext]_vars
<1> SUFFICES ASSUME LibInv, LibNext(FALSE) PROVE LibInv' /\ [DisciplinedNext]_vars
    BY LibStutterInv
<1>1. PICK p \in Procs : UserCall(p, FALSE) \/ Environment(p)
    BY DEF LibNext
<1>2. CASE Environment(p)
    BY <1>2, SystemCallInv, InKernelInv, CloseAtExitInv, RespawnInv, DieInv DEF Environment
<1> QED
    BY <1>1, <1>2, UserCallInv

\* What LibInv says of an entry the user has.
LEMMA HeldFile ==
    ASSUME LibInv, NEW p \in Procs, NEW e \in Entries, e \in Mine(p)
    PROVE  /\ IsOpen(p, fd_get_queue[p][e]) /\ Owns(File(p, e), e[2]) /\ active[e[2]]
<1>1. ProcInv(p) /\ ChannelInv
    BY DEF LibInv
<1>2. p \notin dying
    BY <1>1 DEF ProcInv, Mine
<1>3. PICK P, N, O, M \in SUBSET Entries : Fits(p, P, N, O, M)
    <2>1. CASE BindStage(p)
        <3>1. Fits(p, {}, {}, {}, {})
            BY <2>1 DEF BindStage
        <3>2. {} \in SUBSET Entries
            OBVIOUS
        <3> QED
            BY <3>1, <3>2
    <2> QED
        BY <1>1, <1>2, <2>1 DEF ProcInv, Stage
<1>4. e \in InUse(p, N, O, M)
    BY DEF InUse
<1>5. IsOpen(p, fd_get_queue[p][e])
    BY <1>1, <1>3, <1>4, FileApart
<1>6. IsOwn(File(p, e), e[2]) /\ half[File(p, e)].half # "start"
    BY <1>3 DEF Fits, Kept
<1> QED
    BY <1>5, <1>6, OwnOwns DEF IsOwn

\* What an idle process owns is an entry the user has.
LEMMA OwnedEntry ==
    ASSUME LibInv, NEW p \in Procs, NEW ch \in Channels, CanCall(p), NEW fd \in Fds,
           Owns(<<p, fd>>, ch)
    PROVE  \E e \in Mine(p) : e[2] = ch
<1>1. Fits(p, {}, {}, {}, {}) /\ half[<<p, fd>>] = Idle
    BY AtRest DEF CanCall, InUser
<1>2. PICK e \in Mine(p) : fd_get_queue[p][e] = fd
    <2>1. half[<<p, fd>>].half # "release"
        BY <1>1, Shapes
    <2> QED
        BY <1>1, <2>1 DEF Fits, Covered
<1>3. Owns(<<p, fd>>, e[2])
    BY <1>1, <1>2, OwnOwns DEF Fits, Kept, File
<1>4. half[<<p, fd>>].half \notin Taking
    BY <1>1, Shapes DEF Taking
<1> QED
    BY <1>3, <1>4 DEF Owns

\* The inductive invariant holds in every state of processes whose users
\* are careful.
THEOREM LibrarySafe == CarefulSpec => []LibInv
BY LibInvInit, LibInvStep, PTL DEF CarefulSpec

\* The table leads to the file that owns the channel, through failed and
\* half-done calls, reused descriptors and the death of any process
\* (fd_get_queue in liblldma.c).
THEOREM TableLeadsToOwner == CarefulSpec => []HeldIsOwned
<1>1. LibInv => HeldIsOwned
    BY HeldFile DEF HeldIsOwned
<1> QED
    BY <1>1, LibrarySafe, PTL

\* A channel given to the user stays started until he gives it back or his
\* process dies (fpga_lldma_init, fpga_lldma_finish in liblldma.c).
THEOREM HeldStaysActive == CarefulSpec => []HeldIsActive
<1>1. LibInv => HeldIsActive
    BY HeldFile DEF HeldIsActive
<1> QED
    BY <1>1, LibrarySafe, PTL

\* A library call that failed half-way leaves no channel behind (the error
\* paths of fpga_lldma_init and of the *_connect() functions).
THEOREM NothingLeftBehind == CarefulSpec => []OwnedIsHeld
<1>1. LibInv => OwnedIsHeld
    BY OwnedEntry DEF OwnedIsHeld
<1> QED
    BY <1>1, LibrarySafe, PTL

\* The library keeps the rules the driver relies on: a file allocates or
\* binds only while it owns no channel, and frees only its own.  So the
\* library implements DisciplinedSpec, and the theorems about that hold of it.
THEOREM LibraryIsDisciplined == CarefulSpec => KeepsDiscipline
<1>1. LibInit => Init
    BY DEF LibInit
<1> QED
    BY <1>1, LibInvInit, LibInvStep, PTL DEF CarefulSpec, KeepsDiscipline, DisciplinedSpec
=============================================================================
