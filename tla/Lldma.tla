-------------------------------- MODULE Lldma --------------------------------
(***************************************************************************)
(* Ownership of DMA channels in the kernel driver: the ioctls of           *)
(* driver/lldma/xpcie_device_fops_lldma.c on the state kept by             *)
(* driver/lldma/libxpcie_lldma.c, and open() and release() of              *)
(* driver/xpcie_device_fops.c.                                             *)
(*                                                                         *)
(* The driver marks a channel USED under queue_mutex, and starts, stops    *)
(* and frees it outside: an ioctl that does so is two actions, and other   *)
(* files' ioctls come between them.  The registers written by one start or *)
(* stop are not told apart here.                                           *)
(*                                                                         *)
(* The driver relies on its callers: it lets a file allocate a second      *)
(* channel, bind while it owns one, or free a channel that is not its own. *)
(* Next allows all of that; DisciplinedNext is what the driver needs.      *)
(***************************************************************************)
EXTENDS Naturals

CONSTANTS Files,        \* the files of the device that can be open
          Channels,     \* the DMA channels, of both directions
          Rx,           \* those whose direction is RX: dev->enqueues
          Connectors,   \* the connector_id strings users pass
          NoConnector,  \* the empty connector_id
          NoChannel,    \* private->chid = -1
          NoFile

ASSUME LldmaAssumption ==
    /\ Rx \subseteq Channels
    /\ NoChannel \notin Channels
    /\ NoConnector \notin Connectors
    /\ NoFile \notin Files

\* private->que_kind, without the direction, which is that of the channel:
\* DMA_HOST_TO_DEV and DMA_DEV_TO_HOST, DMA_NW_TO_DEV and DMA_DEV_TO_NW, and
\* the DMA_D2D ones.
QueueKinds == {"host", "nw"}
Kinds == QueueKinds \cup {"d2d"}

\* struct xpcie_file_private, and whether the file is open.
Private == [open : BOOLEAN, chid : Channels \cup {NoChannel},
            que_kind : Kinds \cup {"none"}, is_get_queue : BOOLEAN]
Unbound == [open |-> TRUE, chid |-> NoChannel, que_kind |-> "none",
            is_get_queue |-> FALSE]
Closed == [Unbound EXCEPT !.open = FALSE]
Bound(ch, k, get) == [open |-> TRUE, chid |-> ch, que_kind |-> k, is_get_queue |-> get]

\* The second half of an ioctl, or of release(), that has done the first.
Idle == [half |-> "idle", chid |-> NoChannel, que_kind |-> "none",
         connector |-> NoConnector]
Taking == {"start", "refuse", "undo", "unget"}
Halves == [half : Taking \cup {"idle", "put", "release"},
           chid : Channels \cup {NoChannel}, que_kind : Kinds \cup {"none"},
           connector : Connectors \cup {NoConnector}]

VARIABLES status,     \* queue_info->status of each channel
          connector,  \* queue_info->connector_id
          active,     \* ie or oe is set in the channel's CH_CTRL0
          private,    \* filp->private_data of each file
          half        \* what each file's call in the driver has left to do

vars == <<status, connector, active, private, half>>

TypeOK ==
    /\ status \in [Channels -> {"free", "used"}]
    /\ connector \in [Channels -> Connectors \cup {NoConnector}]
    /\ active \in [Channels -> BOOLEAN]
    /\ private \in [Files -> Private]
    /\ half \in [Files -> Halves]

Init ==
    /\ status = [ch \in Channels |-> "free"]
    /\ connector = [ch \in Channels |-> NoConnector]
    /\ active = [ch \in Channels |-> FALSE]
    /\ private = [f \in Files |-> Closed]
    /\ half = [f \in Files |-> Idle]

\* A call of the driver on f may begin.
Ready(f) == private[f].open /\ half[f] = Idle

SameDir(ch, d) == ch \in Rx <=> d \in Rx

-----------------------------------------------------------------------------
\* xpcie_cdev_open()
Open(f) ==
    /\ ~private[f].open
    /\ private' = [private EXCEPT ![f] = Unbound]
    /\ UNCHANGED <<status, connector, active, half>>

\* Mutant of Reserve: the status is not tested.
ReserveAny(f, ch, k, c) ==
    /\ Ready(f)
    /\ status' = [status EXCEPT ![ch] = "used"]
    /\ half' = [half EXCEPT ![f] = [half |-> "start", chid |-> ch, que_kind |-> k,
                                    connector |-> c]]
    /\ UNCHANGED <<connector, active, private>>

\* Under queue_mutex: the channel is taken if it is free.  Otherwise the
\* ioctl returns -EBUSY and changes nothing.
Take(f, ch, k, c, h) ==
    /\ Ready(f)
    /\ status[ch] = "free"
    /\ status' = [status EXCEPT ![ch] = "used"]
    /\ half' = [half EXCEPT ![f] = [half |-> h, chid |-> ch, que_kind |-> k,
                                    connector |-> c]]
    /\ UNCHANGED <<connector, active, private>>
Reserve(f, ch, k, c) == Take(f, ch, k, c, "start")

\* XPCIE_DEV_LLDMA_ALLOC_QUEUE: xpcie_fpga_get_queue().
AllocQueue(f, ch, k, c) == k \in QueueKinds /\ Reserve(f, ch, k, c)

\* The same when the copy_to_user() after xpcie_fpga_get_queue() will fail.
\* Nothing tells the two apart before it does, so it is decided here.
AllocRefused(f, ch, k, c) == k \in QueueKinds /\ Take(f, ch, k, c, "refuse")

\* XPCIE_DEV_LLDMA_ALLOC_CONNECTION, to a peer other than the device itself:
\* xpcie_fpga_dev_connect().
AllocConnection(f, ch, c) == Reserve(f, ch, "d2d", c)

\* The channel is started, gets its connector_id, and is bound to the file.
Start(f) ==
    /\ half[f].half = "start"
    /\ LET ch == half[f].chid IN
         /\ active' = [active EXCEPT ![ch] = TRUE]
         /\ connector' = [connector EXCEPT ![ch] = half[f].connector]
         /\ private' = [private EXCEPT ![f] = Bound(ch, half[f].que_kind, TRUE)]
    /\ half' = [half EXCEPT ![f] = Idle]
    /\ UNCHANGED status

\* The copy fails: the channel has been started and has its connector_id, the
\* file is not bound, and xpcie_fpga_put_queue() gives the channel back.
Refuse(f) ==
    /\ half[f].half = "refuse"
    /\ active' = [active EXCEPT ![half[f].chid] = TRUE]
    /\ connector' = [connector EXCEPT ![half[f].chid] = half[f].connector]
    /\ half' = [half EXCEPT ![f].half = "undo"]
    /\ UNCHANGED <<status, private>>

UndoStop(f) ==
    /\ half[f].half = "undo"
    /\ active' = [active EXCEPT ![half[f].chid] = FALSE]
    /\ half' = [half EXCEPT ![f].half = "unget"]
    /\ UNCHANGED <<status, connector, private>>

UndoPut(f) ==
    /\ half[f].half = "unget"
    /\ status' = [status EXCEPT ![half[f].chid] = "free"]
    /\ connector' = [connector EXCEPT ![half[f].chid] = NoConnector]
    /\ half' = [half EXCEPT ![f] = Idle]
    /\ UNCHANGED <<active, private>>

\* If the pipe does not drain either, the channel stays USED with nobody to
\* give it back.
UndoTimeout(f) ==
    /\ half[f].half = "undo"
    /\ active' = [active EXCEPT ![half[f].chid] = FALSE]
    /\ half' = [half EXCEPT ![f] = Idle]
    /\ UNCHANGED <<status, connector, private>>

\* The channels xpcie_fpga_ref_queue() can find: those of direction RX first.
Matching(c) == {ch \in Channels : connector[ch] = c}
Found(c) == IF Matching(c) \cap Rx # {} THEN Matching(c) \cap Rx ELSE Matching(c)

\* XPCIE_DEV_LLDMA_BIND_QUEUE; without a match it returns -EBUSY.
BindQueue(f, c, ch) ==
    /\ Ready(f)
    /\ ch \in Found(c)
    /\ private' = [private EXCEPT ![f] = Bound(ch, "host", @.is_get_queue)]
    /\ UNCHANGED <<status, connector, active, half>>

\* xpcie_fpga_stop_queue(ch), called on f.  When the pipe does not drain in
\* time the ioctl returns an error; the channel is stopped all the same.
Stop(f, ch) ==
    /\ active' = [active EXCEPT ![ch] = FALSE]
    /\ half' = [half EXCEPT ![f] = [Idle EXCEPT !.half = "put", !.chid = ch]]
    /\ UNCHANGED <<status, connector, private>>

StopTimeout(f, ch) ==
    /\ active' = [active EXCEPT ![ch] = FALSE]
    /\ UNCHANGED <<status, connector, private, half>>

\* XPCIE_DEV_LLDMA_FREE_QUEUE of channel ch as kind k: only the kind and
\* direction are compared with the file's.
MayFreeQueue(f, ch, k) ==
    /\ Ready(f)
    /\ private[f].que_kind = k
    /\ private[f].chid # NoChannel
    /\ SameDir(private[f].chid, ch)

FreeQueue(f, ch, k) ==
    /\ MayFreeQueue(f, ch, k)
    /\ Stop(f, ch) \/ StopTimeout(f, ch)

\* XPCIE_DEV_LLDMA_FREE_CONNECTION, of the channel the file is bound to.
MayFreeConnection(f) == Ready(f) /\ private[f].is_get_queue

FreeConnection(f) ==
    /\ MayFreeConnection(f)
    /\ Stop(f, private[f].chid) \/ StopTimeout(f, private[f].chid)

\* Mutant of Put: the file's private data are not reset.
PutStillBound(f) ==
    /\ half[f].half = "put"
    /\ status' = [status EXCEPT ![half[f].chid] = "free"]
    /\ connector' = [connector EXCEPT ![half[f].chid] = NoConnector]
    /\ half' = [half EXCEPT ![f] = Idle]
    /\ UNCHANGED <<active, private>>

\* xpcie_fpga_put_queue_info(), and the file is unbound.
Put(f) ==
    /\ half[f].half = "put"
    /\ status' = [status EXCEPT ![half[f].chid] = "free"]
    /\ connector' = [connector EXCEPT ![half[f].chid] = NoConnector]
    /\ private' = [private EXCEPT ![f] = Unbound]
    /\ half' = [half EXCEPT ![f] = Idle]
    /\ UNCHANGED active

\* xpcie_cdev_release(): nothing more than vfree() for a file that owns no
\* channel; otherwise the channel is stopped and then put, whether the pipe
\* drains or not.
CloseUnowned(f) ==
    /\ Ready(f)
    /\ ~private[f].is_get_queue
    /\ private' = [private EXCEPT ![f] = Closed]
    /\ UNCHANGED <<status, connector, active, half>>

\* Mutant of CloseOwner: release() does not stop the channel.
CloseOwnerRunning(f) ==
    /\ Ready(f)
    /\ private[f].is_get_queue
    /\ half' = [half EXCEPT ![f] = [Idle EXCEPT !.half = "release",
                                                !.chid = private[f].chid]]
    /\ UNCHANGED <<status, connector, active, private>>

CloseOwner(f) ==
    /\ Ready(f)
    /\ private[f].is_get_queue
    /\ active' = [active EXCEPT ![private[f].chid] = FALSE]
    /\ half' = [half EXCEPT ![f] = [Idle EXCEPT !.half = "release",
                                                !.chid = private[f].chid]]
    /\ UNCHANGED <<status, connector, private>>

Close(f) == CloseUnowned(f) \/ CloseOwner(f)

\* Mutant of ReleasePut: release() stops the channel and does not put it.
ReleaseNoPut(f) ==
    /\ half[f].half = "release"
    /\ private' = [private EXCEPT ![f] = Closed]
    /\ half' = [half EXCEPT ![f] = Idle]
    /\ UNCHANGED <<status, connector, active>>

\* Mutant of ReleasePut: release() fails when the channel does not stop, and
\* the file stays.
ReleaseStays(f) ==
    /\ half[f].half = "release"
    /\ half' = [half EXCEPT ![f] = Idle]
    /\ UNCHANGED <<status, connector, active, private>>

ReleasePut(f) ==
    /\ half[f].half = "release"
    /\ status' = [status EXCEPT ![half[f].chid] = "free"]
    /\ connector' = [connector EXCEPT ![half[f].chid] = NoConnector]
    /\ private' = [private EXCEPT ![f] = Closed]
    /\ half' = [half EXCEPT ![f] = Idle]
    /\ UNCHANGED active

\* The kernel goes on with a call it has begun.
Continue(f) ==
    \/ Start(f)
    \/ Refuse(f)
    \/ UndoStop(f)
    \/ UndoPut(f)
    \/ Put(f)
    \/ ReleasePut(f)

-----------------------------------------------------------------------------
Next ==
    \E f \in Files :
        \/ Open(f)
        \/ \E ch \in Channels, k \in QueueKinds, c \in Connectors :
              AllocQueue(f, ch, k, c) \/ AllocRefused(f, ch, k, c)
        \/ \E ch \in Channels, c \in Connectors : AllocConnection(f, ch, c)
        \/ \E ch \in Channels, c \in Connectors : BindQueue(f, c, ch)
        \/ \E ch \in Channels, k \in QueueKinds : FreeQueue(f, ch, k)
        \/ FreeConnection(f)
        \/ Close(f)
        \/ Continue(f)
        \/ UndoTimeout(f)

Spec == Init /\ [][Next]_vars

\* A file asks for a channel, or binds, only while it owns none, and frees
\* only the channel it owns.  A pipe that does not drain after a failed copy
\* (UndoTimeout) is not among these steps: it costs the channel.
DisciplinedNext ==
    \E f \in Files :
        \/ Open(f)
        \/ /\ ~private[f].is_get_queue
           /\ \E ch \in Channels, c \in Connectors :
                 \/ \E k \in QueueKinds : AllocQueue(f, ch, k, c) \/ AllocRefused(f, ch, k, c)
                 \/ AllocConnection(f, ch, c)
                 \/ BindQueue(f, c, ch)
        \/ /\ private[f].is_get_queue
           /\ \/ \E k \in QueueKinds : FreeQueue(f, private[f].chid, k)
              \/ FreeConnection(f)
        \/ Close(f)
        \/ Continue(f)

DisciplinedSpec == Init /\ [][DisciplinedNext]_vars

-----------------------------------------------------------------------------
(***************************************************************************)
(* Properties of DisciplinedSpec.                                          *)
(***************************************************************************)

\* f owns ch: it is bound to it by an allocation, or its call has taken it.
Owns(f, ch) ==
    \/ private[f].is_get_queue /\ private[f].chid = ch
    \/ half[f].half \in Taking /\ half[f].chid = ch

\* A channel is USED exactly while some file owns it: no channel is lost
\* when the call that took or gave it is overtaken by others, times out, or
\* belongs to a process that dies (xpcie_fpga_get_queue, put_queue, release).
UsedIsOwned ==
    \A ch \in Channels : status[ch] = "used" <=> \E f \in Files : Owns(f, ch)

\* A channel that polls its ring, or can be found by its connector_id, has
\* an owner (xpcie_fpga_start_queue, xpcie_fpga_put_queue_info).
ActiveIsOwned ==
    \A ch \in Channels :
        active[ch] \/ connector[ch] # NoConnector =>
            \E f \in Files :
                \/ private[f].is_get_queue /\ private[f].chid = ch
                \/ half[f].half \in {"undo", "unget"} /\ half[f].chid = ch

Owner == [ch \in Channels |-> IF \E f \in Files : Owns(f, ch)
                              THEN CHOOSE f \in Files : Owns(f, ch)
                              ELSE NoFile]

Lock == INSTANCE ChannelLock WITH owner <- Owner

\* The channels are locks owned by files: no two files ever own a channel
\* together, and nobody but the owner gives it back.
IsLock == Lock!Spec

\* The inductive invariant of DisciplinedSpec.
OneOwner ==
    \A f, g \in Files, ch \in Channels : Owns(f, ch) /\ Owns(g, ch) => f = g
OneChannel ==
    \A f \in Files, ch, d \in Channels : Owns(f, ch) /\ Owns(f, d) => ch = d
HalvesOK ==
    \A f \in Files :
        /\ half[f] # Idle => private[f].open /\ half[f].chid \in Channels
        /\ half[f].half = "idle" => half[f] = Idle
        /\ half[f].half \in Taking =>
              ~private[f].is_get_queue /\ half[f].que_kind \in Kinds
        /\ half[f].half = "unget" => ~active[half[f].chid]
        /\ half[f].half \in {"put", "release"} =>
              /\ private[f].is_get_queue /\ private[f].chid = half[f].chid
              /\ ~active[half[f].chid]
        /\ private[f].is_get_queue => private[f].open /\ private[f].chid \in Channels
ChannelInv ==
    TypeOK /\ HalvesOK /\ OneOwner /\ UsedIsOwned /\ ActiveIsOwned
=============================================================================
