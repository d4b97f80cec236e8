------------------------------ MODULE LldmaRegs ------------------------------
(***************************************************************************)
(* The registers behind the DMA channels of one direction:                 *)
(* driver/lldma/libxpcie_lldma.c, access by access.                        *)
(*                                                                         *)
(* The registers of a channel are reached through a window: a write to     *)
(* CH_SEL selects the channel that the accesses after it go to.  The       *)
(* driver locks each access, not the sequence.  The queue status, modelled *)
(* in Lldma, admits one call at a time to a channel.                       *)
(*                                                                         *)
(* Values are told apart by what they are meant for: the address, ring     *)
(* size or peer of channel c is c; the initial value is None.              *)
(***************************************************************************)
EXTENDS Naturals, Sequences

CONSTANTS Callers,  \* threads that can be in an ioctl or in release() together
          Num,      \* dev->available_dma_channel_num
          Size,     \* descriptors of a ring
          Kinds,    \* the uses of a channel that occur
          None

ASSUME LldmaRegsAssumption ==
    /\ Num \in Nat /\ Size \in Nat \ {0} /\ None \notin 0 .. Num
    /\ Kinds \subseteq {"host", "nw", "d2dh", "d2dd", "d2dh_nocid", "d2dd_nocid"}

Channels == 0 .. Num - 1
D2d == {"d2dh", "d2dd", "d2dh_nocid", "d2dd_nocid"}

\* Device to device through a buffer; with a peer channel of which the eight
\* bits that are kept mean "no connection id".
Buffered == {"d2dh", "d2dh_nocid"}
NoCid == {"d2dh_nocid", "d2dd_nocid"}

\* CH_CTRL1 has the value 0 for both the initial and the host mode.
Mode(k) == IF k \in D2d \ NoCid THEN k ELSE "host"

\* ie and oe, or one of them for the network.
Enable(k) == IF k = "nw" THEN "one" ELSE "both"
Open == {"one", "both"}

BufRegs == {"buf_dn", "buf_up", "buf_size"}
DataRegs == {"addr_up", "addr_dn", "q_ctrl"} \cup BufRegs

VARIABLES sel,    \* CH_SEL
          regs,   \* the registers of each channel
          head,   \* its position in the ring, which Q_CTRL shows
          que,    \* que->writehead = que->readhead when no command is queued
          use,    \* what each channel is used for, and how far
          call,   \* the accesses each caller has left to make
          lost,   \* Ghost: callers whose selection another call has replaced
          astray  \* Ghost: channels whose call has missed one of their registers
                  \* for that, or that were hit in the place of another

vars == <<sel, regs, head, que, use, call, lost, astray>>

Idle == [op |-> "idle", chid |-> None, todo |-> <<>>, ok |-> TRUE]
AllRegs == DataRegs \cup {"ctrl0", "ctrl1"}

TypeOK ==
    /\ sel \in Channels
    /\ \A c \in Channels :
          /\ \A r \in DataRegs : regs[c][r] \in Channels \cup {None}
          /\ regs[c]["ctrl0"] \in {"off", "clear"} \cup Open
          /\ regs[c]["ctrl1"] \in {"host"} \cup D2d
    /\ head \in [Channels -> 0 .. Size - 1] /\ que \in [Channels -> 0 .. Size - 1]
    /\ use \in [Channels -> [st : {"free", "moving", "started", "stuck"}, kind : Kinds \cup {None}]]
    /\ \A p \in Callers :
          /\ call[p].op \in {"idle", "start", "stop", "release", "scan"}
          /\ call[p].op \in {"start", "stop", "release"} =>
                call[p].chid \in Channels /\ use[call[p].chid].st = "moving"
    /\ lost \subseteq Callers /\ astray \subseteq Channels \cup {None}

Init ==
    /\ sel \in Channels
    /\ regs = [c \in Channels |-> [r \in AllRegs |->
                 CASE r = "ctrl0" -> "off" [] r = "ctrl1" -> "host" [] OTHER -> None]]
    /\ head = [c \in Channels |-> 0] /\ que = [c \in Channels |-> 0]
    /\ use = [c \in Channels |-> [st |-> "free", kind |-> None]]
    /\ call = [p \in Callers |-> Idle]
    /\ lost = {} /\ astray = {}
-----------------------------------------------------------------------------
(* The sequences of accesses.                                              *)

Write(r, v) == <<r, v>>
Select(c) == Write("sel", c)
GetHeads == <<"heads", None>>
WaitDrain == <<"poll", None>>

\* queue_set_addr().  Its return on an address of 0 is not reached: a
\* connection to a device without one is refused before.
SetAddr(c) == <<Select(c), Write("addr_up", c), Write("addr_dn", c)>>

\* queue_set_ctrl() returns without an access when there is no connection id.
SetCtrl(c, k) ==
    IF k \in NoCid THEN <<>>
    ELSE <<Select(c), Write("q_ctrl", c), Write("ctrl1", Mode(k))>>
SetBuf(v) == <<Write("buf_dn", v), Write("buf_up", v), Write("buf_size", v)>>

\* xpcie_fpga_start_queue(): for the network neither address nor mode is set.
StartQueue(c, k) ==
    (IF k = "host" THEN SetAddr(c) \o SetCtrl(c, k) ELSE <<>>)
      \o <<Select(c), GetHeads, Write("ctrl0", Enable(k))>>

\* xpcie_fpga_stop_queue(): CH_SEL is written once, before the wait.
StopQueue(c) ==
    <<Select(c), Write("ctrl0", "off"), WaitDrain, Write("ctrl0", "clear")>>

\* xpcie_fpga_dev_connect()
DevConnect(c, k) ==
    SetCtrl(c, k) \o SetAddr(c) \o (IF k \in Buffered THEN SetBuf(c) ELSE <<>>)
      \o <<Select(c), Write("ctrl0", Enable(k))>>

\* xpcie_fpga_dev_disconnect()
DevDisconnect(c, k) ==
    <<Select(c)>> \o StopQueue(c)
      \o <<Write("q_ctrl", None), Write("ctrl1", "host"), Write("addr_up", None),
           Write("addr_dn", None)>>
      \o (IF k \in Buffered THEN SetBuf(None) ELSE <<>>)

\* xpcie_fpga_get_rxch_ctrl0() selects every channel in turn, and reads CH_CTRL0.
ScanAll == [i \in 1 .. Num |-> Select(i - 1)]
-----------------------------------------------------------------------------
(* The calls.                                                              *)

Begin(p, op, c, todo) ==
    /\ call[p] = Idle
    /\ call' = [call EXCEPT ![p] = [op |-> op, chid |-> c, todo |-> todo, ok |-> TRUE]]
    /\ astray' = astray \ {c}
    /\ UNCHANGED <<sel, regs, head, que, lost>>

\* ALLOC_QUEUE and ALLOC_CONNECTION of a channel that is free.
Start(p, c, k) ==
    /\ use[c].st = "free"
    /\ use' = [use EXCEPT ![c] = [st |-> "moving", kind |-> k]]
    /\ Begin(p, "start", c, IF k \in D2d THEN DevConnect(c, k) ELSE StartQueue(c, k))

\* FREE_QUEUE and FREE_CONNECTION, also after one that has failed.
Stop(p, c) ==
    LET k == use[c].kind
    IN  /\ use[c].st \in {"started", "stuck"}
        /\ use' = [use EXCEPT ![c].st = "moving"]
        /\ Begin(p, "stop", c, IF k \in D2d THEN DevDisconnect(c, k) ELSE StopQueue(c))

\* Mutant of Release: the status is given back and the channel left alone.
ReleaseRunning(p, c) ==
    /\ use[c].st \in {"started", "stuck"}
    /\ use' = [use EXCEPT ![c].st = "moving"]
    /\ Begin(p, "release", c, <<>>)

\* release() of the file that has the channel: stops, and does not disconnect.
Release(p, c) ==
    /\ use[c].st \in {"started", "stuck"}
    /\ use' = [use EXCEPT ![c].st = "moving"]
    /\ Begin(p, "release", c, StopQueue(c))

\* GET_RXCH_CTRL0
Scan(p) == Begin(p, "scan", None, ScanAll) /\ UNCHANGED use
-----------------------------------------------------------------------------
(* The accesses.                                                           *)

Doing(p, a) == call[p].todo /= <<>> /\ Head(call[p].todo)[1] = a
Next1(p) == call' = [call EXCEPT ![p].todo = Tail(@)]

\* An access of p goes to the channel that another call has selected.
Misses(p) == p \in lost /\ sel /= call[p].chid
Spoils(p, cs) == astray' = IF Misses(p) THEN astray \cup cs ELSE astray

\* lldma_reg_write(CH_SEL)
SelectChannel(p) ==
    /\ Doing(p, "sel")
    /\ sel' = Head(call[p].todo)[2]
    /\ lost' = {q \in Callers \ {p} : call[q] /= Idle}
    /\ Next1(p)
    /\ UNCHANGED <<regs, head, que, use, astray>>

\* lldma_reg_write() of another register goes to the selected channel.
WriteReg(p) ==
    /\ \E r \in AllRegs :
          Doing(p, r) /\ regs' = [regs EXCEPT ![sel][r] = Head(call[p].todo)[2]]
    /\ Spoils(p, {call[p].chid, sel})
    /\ Next1(p)
    /\ UNCHANGED <<sel, head, que, use, lost>>

\* Mutant of ReadHeads: the ring was zeroed, so it starts at 0.
ReadHeadsZero(p) ==
    /\ Doing(p, "heads")
    /\ que' = [que EXCEPT ![call[p].chid] = 0]
    /\ Next1(p)
    /\ UNCHANGED <<sel, regs, head, use, lost, astray>>

\* The driver starts the ring where the engine is, as Q_CTRL shows.
ReadHeads(p) ==
    /\ Doing(p, "heads")
    /\ que' = [que EXCEPT ![call[p].chid] = head[sel]]
    /\ Spoils(p, {call[p].chid})
    /\ Next1(p)
    /\ UNCHANGED <<sel, regs, head, use, lost>>

\* CH_CTRL0 reads 0: the pipe of the selected channel is drained.
PollHit(p) ==
    /\ Doing(p, "poll") /\ regs[sel]["ctrl0"] = "off"
    /\ Next1(p)
    /\ UNCHANGED <<sel, regs, head, que, use, lost, astray>>

\* It does not in time, while there is data of the host, the network or a peer
\* in the pipe: clear is written all the same, and the call fails.
PollTimeout(p) ==
    /\ Doing(p, "poll")
    /\ call' = [call EXCEPT ![p].todo = <<Write("ctrl0", "clear")>>, ![p].ok = FALSE]
    /\ UNCHANGED <<sel, regs, head, que, use, lost, astray>>

\* The call ends.  A stop that has failed leaves the channel to its file,
\* release() does not.
Return(p) ==
    LET c == call[p].chid
    IN  /\ call[p].op /= "idle" /\ call[p].todo = <<>>
        /\ call' = [call EXCEPT ![p] = Idle]
        /\ use' = CASE call[p].op = "scan" -> use
                    [] call[p].op = "start" -> [use EXCEPT ![c].st = "started"]
                    [] call[p].op = "stop" /\ ~ call[p].ok -> [use EXCEPT ![c].st = "stuck"]
                    [] OTHER -> [use EXCEPT ![c] = [st |-> "free", kind |-> None]]
        /\ UNCHANGED <<sel, regs, head, que, lost, astray>>
-----------------------------------------------------------------------------
(* The engine, external.                                                   *)

\* It takes the command that the user has queued where it looks for it.
Transfer(c) ==
    /\ regs[c]["ctrl0"] = "both" /\ regs[c]["ctrl1"] = "host"
    /\ use[c] = [st |-> "started", kind |-> "host"] /\ que[c] = head[c]
    /\ head' = [head EXCEPT ![c] = (@ + 1) % Size]
    /\ que' = [que EXCEPT ![c] = (@ + 1) % Size]
    /\ UNCHANGED <<sel, regs, use, call, lost, astray>>

Enter(p) ==
    \/ \E c \in Channels : Stop(p, c) \/ Release(p, c) \/ \E k \in Kinds : Start(p, c, k)
    \/ Scan(p)

Go(p) ==
    SelectChannel(p) \/ WriteReg(p) \/ ReadHeads(p) \/ PollHit(p) \/ PollTimeout(p)
        \/ Return(p)

Engine == \E c \in Channels : Transfer(c)

Next == (\E p \in Callers : Enter(p) \/ Go(p)) \/ Engine

Spec == Init /\ [][Next]_vars
-----------------------------------------------------------------------------
(* Properties.                                                             *)

\* A channel whose start has returned is set up with its own values and
\* enabled, whatever has been done with it and with the other channels, and
\* for a ring the driver and the engine are at the same position.  The code
\* promises it only when no access of the call, or of another, has gone astray:
\* CH_SEL and the registers behind it are not locked together.  The mode of a
\* network channel, and that of a connection without id, are as they were.
StartedIsReady ==
    \A c \in Channels \ astray :
        LET k == use[c].kind
            set == IF k = "nw" THEN {}
                   ELSE {"addr_up", "addr_dn"}
                          \cup (IF k \in NoCid THEN {} ELSE {"q_ctrl"})
                          \cup (IF k \in Buffered THEN BufRegs ELSE {})
        IN  use[c].st = "started" =>
              /\ regs[c]["ctrl0"] = Enable(k)
              /\ \A r \in set : regs[c][r] = c
              /\ k \notin NoCid \cup {"nw"} => regs[c]["ctrl1"] = Mode(k)
              /\ k = "host" => que[c] = head[c]

\* A channel that is free, or that could not be stopped in time, is disabled:
\* the engine does not go on with a ring that its user has given up.  Again
\* the exception are accesses that another call's CH_SEL has led astray.
FreeIsQuiet ==
    \A c \in Channels \ astray :
        use[c].st \in {"free", "stuck"} => regs[c]["ctrl0"] \notin Open

=============================================================================
