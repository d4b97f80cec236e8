--------------------------- MODULE StatCallsProofs --------------------------
(***************************************************************************)
(* The counters read through the windows and the calls that poll, for any  *)
(* number of threads, any calls of theirs and any bound on the steps of    *)
(* the hardware.                                                           *)
(*                                                                         *)
(* First where each call reads: its select register is the one its counter *)
(* listens to (OwnWindow), by arithmetic on the addresses.  Then the       *)
(* invariant StatInv, with one lemma for each step, and the theorems.      *)
(***************************************************************************)
EXTENDS StatCalls, TLAPS

\* Whether the register at x is the low half of a 64-bit counter.
OfBytes(offset) == Within(offset, \h340, \h37F) \/ Within(offset, \h3A0, \h3BF)

Wide(x) == IF x >= \h25000 \/ Within(x, \h5000, \h8FFF) THEN x % \h1000 < \h70
           ELSE IF x >= \h24000 THEN x % \h400 < \h98
           ELSE OfBytes(x % \h1000)

Flag(x) == x < \h5000 /\ x % \h1000 = \h404

\* Offset o of lane l of the chain block: the select register it listens to
\* and what kind of register it is.
LEMMA ChainAddr ==
    ASSUME NEW l \in 0 .. 3, NEW o \in Nat, o < \h1000
    PROVE  LET x == chain_base(l) + o IN
           /\ x \in Nat /\ Within(x, \h1000, \h4FFF)
           /\ SelectOf(x) = chain_base(l) + IF OfSession(o) THEN SEL_SESSION ELSE SEL_CHANNEL
           /\ Wide(x) <=> OfBytes(o)
           /\ Flag(x) <=> o = \h404
<1>1. PICK x : x = chain_base(l) + o
    OBVIOUS
<1>2. /\ x \in Nat /\ Within(x, \h1000, \h4FFF) /\ x % \h1000 = o /\ (x \div \h1000) * \h1000 = chain_base(l)
    <2>1. l = 0 \/ l = 1 \/ l = 2 \/ l = 3
        OBVIOUS
    <2> QED
        BY <1>1, <2>1 DEF chain_base, Within
<1>3. ~(x >= \h25000 \/ Within(x, \h5000, \h8FFF)) /\ ~(x >= \h24000)
    BY <1>2 DEF Within
<1>4. SelectOf(x) = IF OfSession(o) THEN chain_base(l) + SEL_SESSION ELSE chain_base(l) + SEL_CHANNEL
    BY <1>2, <1>3, SMT DEF SelectOf
<1>5. Wide(x) <=> OfBytes(o)
    BY <1>2, <1>3, SMT DEF Wide
<1>6. Flag(x) <=> o = \h404
    BY <1>2 DEF Flag, Within
<1> QED
    BY <1>1, <1>2, <1>4, <1>5, <1>6

\* The same for the direct transfer block.
LEMMA DirectAddr ==
    ASSUME NEW l \in 0 .. 3, NEW o \in Nat, o < \h1000
    PROVE  LET x == direct_base(l) + o IN
           /\ x \in Nat /\ Within(x, \h5000, \h8FFF)
           /\ SelectOf(x) = direct_base(l) + \h40
           /\ Wide(x) <=> o < \h70
           /\ ~Flag(x)
<1>1. PICK x : x = direct_base(l) + o
    OBVIOUS
<1>2. /\ x \in Nat /\ Within(x, \h5000, \h8FFF) /\ x % \h1000 = o /\ (x \div \h1000) * \h1000 = direct_base(l)
    <2>1. l = 0 \/ l = 1 \/ l = 2 \/ l = 3
        OBVIOUS
    <2> QED
        BY <1>1, <2>1 DEF direct_base, Within
<1>3. x >= \h25000 \/ Within(x, \h5000, \h8FFF)
    BY <1>2 DEF Within
<1>4. SelectOf(x) = direct_base(l) + \h40
    BY <1>2, <1>3, SMT DEF SelectOf
<1>5. Wide(x) <=> o < \h70
    BY <1>2, <1>3, SMT DEF Wide
<1>6. ~Flag(x)
    BY <1>2 DEF Flag, Within
<1> QED
    BY <1>1, <1>2, <1>4, <1>5, <1>6

\* The same for the filter/resize function.
LEMMA FrAddr ==
    ASSUME NEW l \in 0 .. 3, NEW o \in Nat, o < \h1000
    PROVE  LET x == frfunc_base(l) + o IN
           /\ x \in Nat /\ Within(x, \h25000, \h28FFF)
           /\ SelectOf(x) = frfunc_base(l) + \h40
           /\ Wide(x) <=> o < \h70
           /\ ~Flag(x)
<1>1. PICK x : x = frfunc_base(l) + o
    OBVIOUS
<1>2. /\ x \in Nat /\ Within(x, \h25000, \h28FFF) /\ x % \h1000 = o /\ (x \div \h1000) * \h1000 = frfunc_base(l)
    <2>1. l = 0 \/ l = 1 \/ l = 2 \/ l = 3
        OBVIOUS
    <2> QED
        BY <1>1, <2>1 DEF frfunc_base, Within
<1>3. x >= \h25000 \/ Within(x, \h5000, \h8FFF)
    BY <1>2 DEF Within
<1>4. SelectOf(x) = frfunc_base(l) + \h40
    BY <1>2, <1>3, SMT DEF SelectOf
<1>5. Wide(x) <=> o < \h70
    BY <1>2, <1>3, SMT DEF Wide
<1>6. ~Flag(x)
    BY <1>2 DEF Flag, Within
<1> QED
    BY <1>1, <1>2, <1>4, <1>5, <1>6

\* The same for the conversion adapter.
LEMMA ConvAddr ==
    ASSUME NEW l \in 0 .. 3, NEW o \in Nat, o < \h400
    PROVE  LET x == conv_base(l) + o IN
           /\ x \in Nat /\ Within(x, \h24000, \h24FFF)
           /\ SelectOf(x) = conv_base(l) + \h50
           /\ Wide(x) <=> o < \h98
           /\ ~Flag(x)
<1>1. PICK x : x = conv_base(l) + o
    OBVIOUS
<1>2. /\ x \in Nat /\ Within(x, \h24000, \h24FFF) /\ x % \h400 = o /\ (x \div \h400) * \h400 = conv_base(l)
    <2>1. l = 0 \/ l = 1 \/ l = 2 \/ l = 3
        OBVIOUS
    <2> QED
        BY <1>1, <2>1 DEF conv_base, Within
<1>3. ~(x >= \h25000 \/ Within(x, \h5000, \h8FFF)) /\ x >= \h24000
    BY <1>2 DEF Within
<1>4. SelectOf(x) = conv_base(l) + \h50
    BY <1>2, <1>3, SMT DEF SelectOf
<1>5. Wide(x) <=> o < \h98
    BY <1>2, <1>3, SMT DEF Wide
<1>6. ~Flag(x)
    BY <1>2 DEF Flag, Within
<1> QED
    BY <1>1, <1>2, <1>4, <1>5, <1>6

\* The access a of a call k reads the counter whose low half is at x.
Window(k, a, x) ==
    /\ x \in Nat
    /\ a.words = IF Wide(x) THEN <<Low(x), High(x + 4)>> ELSE <<Low(x)>>
    /\ a.sel = SelectOf(x) /\ a.ch = k.ch
    /\ Wide(x) => a.sel = SelectOf(x + 4) /\ k.kind \in Counters
    /\ k.kind = "bp_clear" => Flag(x)
    /\ k.kind \in Counters => ~Flag(x)

\* An access of the chain block to offset o is a window on its counter if it
\* selects by session just when the register there does.
LEMMA ChainWindow ==
    ASSUME NEW k \in Arguments, k.lane \in 0 .. 3, NEW o \in Nat, o < \hFFC, NEW s \in {SEL_SESSION, SEL_CHANNEL},
           NEW a, a = IF OfBytes(o) THEN Read64(chain_base(k.lane), s, k.ch, o)
                      ELSE Read32(chain_base(k.lane), s, k.ch, o),
           OfSession(o) <=> s = SEL_SESSION,
           OfBytes(o) => (OfSession(o + 4) <=> s = SEL_SESSION) /\ k.kind \in Counters,
           o = \h404 <=> k.kind \in {"bp", "bp_clear"}
    PROVE  \E x : Window(k, a, x)
<1>1. PICK x, y : x = chain_base(k.lane) + o /\ y = chain_base(k.lane) + (o + 4)
    OBVIOUS
<1>2. SEL_SESSION # SEL_CHANNEL
    BY DEF SEL_SESSION, SEL_CHANNEL
<1>3. /\ x \in Nat /\ SelectOf(x) = chain_base(k.lane) + s
      /\ Wide(x) <=> OfBytes(o)
      /\ Flag(x) <=> o = \h404
    BY <1>1, <1>2, ChainAddr
<1>4. OfBytes(o) => SelectOf(y) = chain_base(k.lane) + s
    BY <1>1, <1>2, ChainAddr
<1>5. y = x + 4
    BY <1>1 DEF chain_base, Arguments
<1>6. /\ a.sel = chain_base(k.lane) + s /\ a.ch = k.ch
      /\ a.words = IF OfBytes(o) THEN <<Low(x), High(x + 4)>> ELSE <<Low(x)>>
    BY <1>1 DEF Read64, Read32, chain_base, Arguments
<1>7. "bp_clear" \notin Counters /\ "bp" \notin Counters
    BY DEF Counters
<1>8. Window(k, a, x)
    BY <1>3, <1>4, <1>5, <1>6, <1>7 DEF Window
<1> QED
    BY <1>8

\* An access of the direct transfer block always is one.
LEMMA DirectWindow ==
    ASSUME NEW k \in Arguments, k.lane \in 0 .. 3, NEW o \in Nat, o < \hFFC,
           NEW a, a = IF o < \h70 THEN Read64(direct_base(k.lane), \h40, k.ch, o)
                      ELSE Read32(direct_base(k.lane), \h40, k.ch, o),
           o < \h70 => k.kind \in Counters, k.kind # "bp_clear"
    PROVE  \E x : Window(k, a, x)
<1>1. PICK x, y : x = direct_base(k.lane) + o /\ y = direct_base(k.lane) + (o + 4)
    OBVIOUS
<1>2. /\ x \in Nat /\ SelectOf(x) = direct_base(k.lane) + \h40
      /\ Wide(x) <=> o < \h70
      /\ ~Flag(x)
    BY <1>1, DirectAddr
<1>3. SelectOf(y) = direct_base(k.lane) + \h40
    BY <1>1, DirectAddr
<1>4. y = x + 4
    BY <1>1 DEF direct_base, Arguments
<1>5. /\ a.sel = direct_base(k.lane) + \h40 /\ a.ch = k.ch
      /\ a.words = IF o < \h70 THEN <<Low(x), High(x + 4)>> ELSE <<Low(x)>>
    BY <1>1 DEF Read64, Read32, direct_base, Arguments
<1>6. Window(k, a, x)
    BY <1>2, <1>3, <1>4, <1>5 DEF Window
<1> QED
    BY <1>6

\* The same for the filter/resize function.
LEMMA FrWindow ==
    ASSUME NEW k \in Arguments, k.lane \in 0 .. 3, NEW o \in Nat, o < \hFFC,
           NEW a, a = IF o < \h70 THEN Read64(frfunc_base(k.lane), \h40, k.ch, o)
                      ELSE Read32(frfunc_base(k.lane), \h40, k.ch, o),
           o < \h70 => k.kind \in Counters, k.kind # "bp_clear"
    PROVE  \E x : Window(k, a, x)
<1>1. PICK x, y : x = frfunc_base(k.lane) + o /\ y = frfunc_base(k.lane) + (o + 4)
    OBVIOUS
<1>2. /\ x \in Nat /\ SelectOf(x) = frfunc_base(k.lane) + \h40
      /\ Wide(x) <=> o < \h70
      /\ ~Flag(x)
    BY <1>1, FrAddr
<1>3. SelectOf(y) = frfunc_base(k.lane) + \h40
    BY <1>1, FrAddr
<1>4. y = x + 4
    BY <1>1 DEF frfunc_base, Arguments
<1>5. /\ a.sel = frfunc_base(k.lane) + \h40 /\ a.ch = k.ch
      /\ a.words = IF o < \h70 THEN <<Low(x), High(x + 4)>> ELSE <<Low(x)>>
    BY <1>1 DEF Read64, Read32, frfunc_base, Arguments
<1>6. Window(k, a, x)
    BY <1>2, <1>3, <1>4, <1>5 DEF Window
<1> QED
    BY <1>6

\* The same for the conversion adapter.
LEMMA ConvWindow ==
    ASSUME NEW k \in Arguments, k.lane \in 0 .. 3, NEW o \in Nat, o < \h3FC,
           NEW a, a = IF o < \h98 THEN Read64(conv_base(k.lane), \h50, k.ch, o)
                      ELSE Read32(conv_base(k.lane), \h50, k.ch, o),
           o < \h98 => k.kind \in Counters, k.kind # "bp_clear"
    PROVE  \E x : Window(k, a, x)
<1>1. PICK x, y : x = conv_base(k.lane) + o /\ y = conv_base(k.lane) + (o + 4)
    OBVIOUS
<1>2. /\ x \in Nat /\ SelectOf(x) = conv_base(k.lane) + \h50
      /\ Wide(x) <=> o < \h98
      /\ ~Flag(x)
    BY <1>1, ConvAddr
<1>3. SelectOf(y) = conv_base(k.lane) + \h50
    BY <1>1, ConvAddr
<1>4. y = x + 4
    BY <1>1 DEF conv_base, Arguments
<1>5. /\ a.sel = conv_base(k.lane) + \h50 /\ a.ch = k.ch
      /\ a.words = IF o < \h98 THEN <<Low(x), High(x + 4)>> ELSE <<Low(x)>>
    BY <1>1 DEF Read64, Read32, conv_base, Arguments
<1>6. Window(k, a, x)
    BY <1>2, <1>3, <1>4, <1>5 DEF Window
<1> QED
    BY <1>6

\* Lanes that pass the check of the library.
LEMMA LaneBound ==
    ASSUME NEW k \in Arguments, LaneOK(k)
    PROVE  k.lane \in 0 .. 3
BY StatAssumption DEF LaneOK, Arguments

\* A call the library does not refuse reads a counter of its lane, a 64-bit
\* one for the bytes.
LEMMA ChainKinds ==
    ASSUME NEW k \in Arguments, AccessOf(k) # NoAccess,
           k.kind \in {"latency_self", "latency_func", "frames", "buff", "bp", "bp_clear", "egr_busy",
                       "egr_free", "con_status"}
    PROVE  \E x : Window(k, AccessOf(k), x)
<1>1. PICK a : a = AccessOf(k)
    OBVIOUS
<1>2. k.reg \in Nat /\ k.ch \in Nat /\ k.lane \in Nat
    BY DEF Arguments
<1>3. ASSUME LaneOK(k), NEW o \in Nat, o < \h420, NEW s \in {SEL_SESSION, SEL_CHANNEL},
             OfSession(o) <=> s = SEL_SESSION, ~OfBytes(o), o = \h404 <=> k.kind \in {"bp", "bp_clear"},
             a = Read32(chain_base(k.lane), s, k.ch, o)
      PROVE  \E x : Window(k, AccessOf(k), x)
    <2>1. k.lane \in 0 .. 3 /\ o < \hFFC
        BY <1>3, LaneBound
    <2>2. a = IF OfBytes(o) THEN Read64(chain_base(k.lane), s, k.ch, o) ELSE Read32(chain_base(k.lane), s, k.ch, o)
        BY <1>3
    <2>3. \E x : Window(k, a, x)
        BY <1>3, <2>1, <2>2, ChainWindow
    <2> QED
        BY <1>1, <2>3
<1>4. SEL_SESSION # SEL_CHANNEL
    BY DEF SEL_SESSION, SEL_CHANNEL
<1>5. CASE k.kind = "latency_self"
    <2>1. PICK o : o = IF k.dir = FPGA_CID_KIND_INGRESS
           THEN IF k.ext = 0 THEN \h320 ELSE \h324
           ELSE IF k.ext = 0 THEN \h328 ELSE \h32C
        OBVIOUS
    <2>2. a = Checked(LaneOK(k) /\ ExtifOK(k) /\ DirOK(k) /\ CidOK(k), xpcie_fpga_get_latency_chain(k))
        BY <1>1, <1>5 DEF AccessOf, fpga_chain_get_stat_latency_self, xpcie_fpga_ioctl_chain
    <2>3. LaneOK(k) /\ a = Read32(chain_base(k.lane), SEL_SESSION, k.ch, o)
        BY <1>1, <2>1, <2>2 DEF Checked, xpcie_fpga_get_latency_chain
    <2>4. o \in Nat /\ o < \h420 /\ OfSession(o) /\ ~OfBytes(o) /\ o # \h404
        BY <2>1, SMT DEF OfSession, OfBytes, Within
    <2> QED
        BY <1>3, <1>5, <2>3, <2>4
<1>6. CASE k.kind = "latency_func"
    <2>1. a = Checked(LaneOK(k) /\ FchidOK(k), xpcie_fpga_get_latency_func(k))
        BY <1>1, <1>6 DEF AccessOf, fpga_chain_get_stat_latency_func, xpcie_fpga_ioctl_chain
    <2>2. LaneOK(k) /\ a = Read32(chain_base(k.lane), SEL_CHANNEL, k.ch, \h330)
        BY <1>1, <2>1 DEF Checked, xpcie_fpga_get_latency_func
    <2>3. \h330 \in Nat /\ \h330 < \h420 /\ ~OfSession(\h330) /\ ~OfBytes(\h330)
        BY SMT DEF OfSession, OfBytes, Within
    <2> QED
        BY <1>3, <1>4, <1>6, <2>2, <2>3
<1>7. CASE k.kind = "buff"
    <2>1. a = Checked(LaneOK(k) /\ FchidOK(k), xpcie_fpga_get_chain_buff(k))
        BY <1>1, <1>7 DEF AccessOf, fpga_chain_get_stat_buff, xpcie_fpga_ioctl_chain
    <2>2. LaneOK(k) /\ a = Read32(chain_base(k.lane), SEL_CHANNEL, k.ch, \h400)
        BY <1>1, <2>1 DEF Checked, xpcie_fpga_get_chain_buff
    <2>3. \h400 \in Nat /\ \h400 < \h420 /\ ~OfSession(\h400) /\ ~OfBytes(\h400)
        BY SMT DEF OfSession, OfBytes, Within
    <2> QED
        BY <1>3, <1>4, <1>7, <2>2, <2>3
<1>8. CASE k.kind = "bp"
    <2>1. a = Checked(LaneOK(k) /\ FchidOK(k), xpcie_fpga_get_chain_bp(k))
        BY <1>1, <1>8 DEF AccessOf, fpga_chain_get_stat_bp, xpcie_fpga_ioctl_chain
    <2>2. LaneOK(k) /\ a = Read32(chain_base(k.lane), SEL_CHANNEL, k.ch, \h404)
        BY <1>1, <2>1 DEF Checked, xpcie_fpga_get_chain_bp
    <2>3. \h404 \in Nat /\ \h404 < \h420 /\ ~OfSession(\h404) /\ ~OfBytes(\h404)
        BY SMT DEF OfSession, OfBytes, Within
    <2> QED
        BY <1>3, <1>4, <1>8, <2>2, <2>3
<1>9. CASE k.kind = "bp_clear"
    <2>1. a = Checked(LaneOK(k) /\ FchidOK(k), xpcie_fpga_clear_chain_bp(k))
        BY <1>1, <1>9 DEF AccessOf, fpga_chain_set_stat_bp_clear, xpcie_fpga_ioctl_chain
    <2>2. LaneOK(k) /\ a = Read32(chain_base(k.lane), SEL_CHANNEL, k.ch, \h404)
        BY <1>1, <2>1 DEF Checked, xpcie_fpga_clear_chain_bp
    <2>3. \h404 \in Nat /\ \h404 < \h420 /\ ~OfSession(\h404) /\ ~OfBytes(\h404)
        BY SMT DEF OfSession, OfBytes, Within
    <2> QED
        BY <1>3, <1>4, <1>9, <2>2, <2>3
<1>10. CASE k.kind = "egr_busy"
    <2>1. a = Checked(LaneOK(k) /\ FchidOK(k), xpcie_fpga_get_chain_busy(k))
        BY <1>1, <1>10 DEF AccessOf, fpga_chain_get_stat_egr_busy, xpcie_fpga_ioctl_chain
    <2>2. LaneOK(k) /\ a = Read32(chain_base(k.lane), SEL_CHANNEL, k.ch, \h40C)
        BY <1>1, <2>1 DEF Checked, xpcie_fpga_get_chain_busy
    <2>3. \h40C \in Nat /\ \h40C < \h420 /\ ~OfSession(\h40C) /\ ~OfBytes(\h40C)
        BY SMT DEF OfSession, OfBytes, Within
    <2> QED
        BY <1>3, <1>4, <1>10, <2>2, <2>3
<1>11. CASE k.kind = "egr_free"
    <2>1. LaneOK(k) /\ FchidOK(k) /\ a = xpcie_fpga_get_chain_busy(k)
        BY <1>1, <1>11 DEF AccessOf, fpga_chain_wait_stat_egr_free, __fpga_chain_wait_stat_egr_free_clb,
           fpga_chain_get_stat_egr_busy, xpcie_fpga_ioctl_chain, Checked
    <2>2. a = Read32(chain_base(k.lane), SEL_CHANNEL, k.ch, \h40C)
        BY <2>1 DEF xpcie_fpga_get_chain_busy
    <2>3. \h40C \in Nat /\ \h40C < \h420 /\ ~OfSession(\h40C) /\ ~OfBytes(\h40C)
        BY SMT DEF OfSession, OfBytes, Within
    <2> QED
        BY <1>3, <1>4, <1>11, <2>1, <2>2, <2>3
<1>12. CASE k.kind = "frames"
    <2>1. a = Checked(LaneOK(k) /\ FchidOK(k) /\ k.reg \in CHAIN_STAT_INGR_SND \cup CHAIN_STAT_EGR_RCV,
                      xpcie_fpga_get_chain_frames(k))
        BY <1>1, <1>12 DEF AccessOf, fpga_chain_get_stat_frames, xpcie_fpga_ioctl_chain
    <2>2. LaneOK(k) /\ k.reg \in 2 .. 5 /\ a = Read32(chain_base(k.lane), SEL_CHANNEL, k.ch, \h380 + 4 * (k.reg - 2))
        BY <1>1, <2>1 DEF Checked, xpcie_fpga_get_chain_frames, CHAIN_STAT_INGR_SND, CHAIN_STAT_EGR_RCV
    <2>3. PICK o : o = \h380 + 4 * (k.reg - 2)
        OBVIOUS
    <2>4. o \in Nat /\ o < \h420 /\ ~OfSession(o) /\ ~OfBytes(o) /\ o # \h404
        BY <2>2, <2>3, SMT DEF OfSession, OfBytes, Within
    <2> QED
        BY <1>3, <1>4, <1>12, <2>2, <2>3, <2>4
<1>13. CASE k.kind = "con_status"
    <2>1. a = Checked(LaneOK(k) /\ ExtifOK(k) /\ CidOK(k), xpcie_fpga_get_chain_con_status(k))
        BY <1>1, <1>13 DEF AccessOf, fpga_chain_get_con_status, xpcie_fpga_ioctl_chain
    <2>2. PICK o : o = IF k.ext = 0 THEN \h410 ELSE \h414
        OBVIOUS
    <2>3. LaneOK(k) /\ CidOK(k) /\ a = Read32(chain_base(k.lane), SEL_SESSION, k.ch % 512, o)
        BY <1>1, <2>1, <2>2 DEF Checked, xpcie_fpga_get_chain_con_status
    <2>4. k.ch % 512 = k.ch
        BY <1>2, <2>3 DEF CidOK, CID_MAX
    <2>5. o \in Nat /\ o < \h420 /\ OfSession(o) /\ ~OfBytes(o) /\ o # \h404
        BY <2>2, SMT DEF OfSession, OfBytes, Within
    <2> QED
        BY <1>3, <1>13, <2>3, <2>4, <2>5
<1> QED
    BY <1>5, <1>6, <1>7, <1>8, <1>9, <1>10, <1>11, <1>12, <1>13

\* The byte counters of the chain, by the entry of the driver's table.
LEMMA ByteWindow ==
    ASSUME NEW k \in Arguments, LaneOK(k), k.reg \in 0 .. 11, k.kind \in {"bytes", "discard"}
    PROVE  \E x : Window(k, xpcie_fpga_get_chain_bytes(k), x)
<1>1. PICK a : a = xpcie_fpga_get_chain_bytes(k)
    OBVIOUS
<1>2. PICK s, o : s = ChainByteRegs[k.reg + 1][1] /\ o = ChainByteRegs[k.reg + 1][2]
    OBVIOUS
<1>3. a = Read64(chain_base(k.lane), s, k.ch, o)
    <2>1. k.reg + 1 \in DOMAIN ChainByteRegs
        BY DEF ChainByteRegs
    <2> QED
        BY <1>1, <1>2, <2>1 DEF xpcie_fpga_get_chain_bytes
<1>4. \/ s = SEL_SESSION /\ o \in {\h340, \h348, \h370, \h378}
      \/ s = SEL_CHANNEL /\ o \in {\h350, \h358, \h360, \h368, \h3A0, \h3A8, \h3B0, \h3B8}
    BY <1>2, SMT DEF ChainByteRegs
<1>5. /\ o \in Nat /\ o < \hFFC /\ OfBytes(o) /\ o # \h404
      /\ s = SEL_SESSION => OfSession(o) /\ OfSession(o + 4)
      /\ s = SEL_CHANNEL => ~OfSession(o) /\ ~OfSession(o + 4)
    BY <1>4, SMT DEF OfBytes, OfSession, Within, SEL_SESSION, SEL_CHANNEL
<1>6. s \in {SEL_SESSION, SEL_CHANNEL} /\ SEL_SESSION # SEL_CHANNEL
    BY <1>4, SMT DEF SEL_SESSION, SEL_CHANNEL
<1>7. k.kind \in Counters
    BY DEF Counters
<1>8. a = IF OfBytes(o) THEN Read64(chain_base(k.lane), s, k.ch, o) ELSE Read32(chain_base(k.lane), s, k.ch, o)
    BY <1>3, <1>5
<1>9. k.lane \in 0 .. 3
    BY LaneBound
<1>10. \E x : Window(k, a, x)
    BY <1>5, <1>6, <1>7, <1>8, <1>9, ChainWindow
<1> QED
    BY <1>1, <1>10

\* The byte counters of the chain read through windows.
LEMMA ByteKinds ==
    ASSUME NEW k \in Arguments, AccessOf(k) # NoAccess, k.kind \in {"bytes", "discard"}
    PROVE  \E x : Window(k, AccessOf(k), x)
<1>1. LaneOK(k) /\ k.reg \in 0 .. 11 /\ AccessOf(k) = xpcie_fpga_get_chain_bytes(k)
    <2>1. CASE k.kind = "bytes"
        BY <2>1 DEF AccessOf, fpga_chain_get_stat_bytes, xpcie_fpga_ioctl_chain, Checked, CHAIN_STAT_INGR_RCV,
           CHAIN_STAT_INGR_SND, CHAIN_STAT_EGR_RCV, CHAIN_STAT_EGR_SND
    <2>2. CASE k.kind = "discard"
        BY <2>2 DEF AccessOf, fpga_chain_get_stat_discard_bytes, xpcie_fpga_ioctl_chain, Checked, CHAIN_STAT_DISCARD
    <2> QED
        BY <2>1, <2>2
<1> QED
    BY <1>1, ByteWindow

\* So do the counters of the direct transfer,
LEMMA DirectKinds ==
    ASSUME NEW k \in Arguments, AccessOf(k) # NoAccess, k.kind \in {"direct_bytes", "direct_frames"}
    PROVE  \E x : Window(k, AccessOf(k), x)
<1>1. PICK a : a = AccessOf(k)
    OBVIOUS
<1>2. LaneOK(k) /\ k.reg <= 3 /\ k.reg \in Nat
    BY DEF AccessOf, fpga_direct_get_stat_bytes, fpga_direct_get_stat_frames, Checked, Arguments
<1>3. PICK o : o = IF k.kind = "direct_bytes" THEN \h50 + 8 * k.reg ELSE \h70 + 4 * k.reg
    OBVIOUS
<1>4. o \in Nat /\ o < \hFFC /\ (o < \h70 <=> k.kind = "direct_bytes")
    BY <1>2, <1>3
<1>5. a = IF o < \h70 THEN Read64(direct_base(k.lane), \h40, k.ch, o) ELSE Read32(direct_base(k.lane), \h40, k.ch, o)
    <2>1. CASE k.kind = "direct_bytes"
        BY <1>1, <1>2, <1>3, <1>4, <2>1 DEF AccessOf, fpga_direct_get_stat_bytes, Checked, xpcie_fpga_ioctl_direct,
           xpcie_fpga_get_direct_bytes
    <2>2. CASE k.kind = "direct_frames"
        BY <1>1, <1>2, <1>3, <1>4, <2>2 DEF AccessOf, fpga_direct_get_stat_frames, Checked, xpcie_fpga_ioctl_direct,
           xpcie_fpga_get_direct_frames
    <2> QED
        BY <2>1, <2>2
<1>6. k.kind \in Counters /\ k.kind # "bp_clear" /\ k.lane \in 0 .. 3
    BY <1>2, LaneBound DEF Counters
<1>7. \E x : Window(k, a, x)
    BY <1>4, <1>5, <1>6, DirectWindow
<1> QED
    BY <1>1, <1>7

\* those of the filter/resize function,
LEMMA FrKinds ==
    ASSUME NEW k \in Arguments, AccessOf(k) # NoAccess, k.kind \in {"fr_bytes", "fr_frames"}
    PROVE  \E x : Window(k, AccessOf(k), x)
<1>1. PICK a : a = AccessOf(k)
    OBVIOUS
<1>2. LaneOK(k) /\ k.reg <= 3 /\ k.reg \in Nat
    BY DEF AccessOf, fpga_filter_resize_get_stat_bytes, fpga_filter_resize_get_stat_frames, Checked, Arguments
<1>3. PICK o : o = IF k.kind = "fr_bytes" THEN \h50 + 8 * k.reg ELSE \h70 + 4 * k.reg
    OBVIOUS
<1>4. o \in Nat /\ o < \hFFC /\ (o < \h70 <=> k.kind = "fr_bytes")
    BY <1>2, <1>3
<1>5. a = IF o < \h70 THEN Read64(frfunc_base(k.lane), \h40, k.ch, o) ELSE Read32(frfunc_base(k.lane), \h40, k.ch, o)
    <2>1. CASE k.kind = "fr_bytes"
        BY <1>1, <1>2, <1>3, <1>4, <2>1 DEF AccessOf, fpga_filter_resize_get_stat_bytes, Checked
    <2>2. CASE k.kind = "fr_frames"
        BY <1>1, <1>2, <1>3, <1>4, <2>2 DEF AccessOf, fpga_filter_resize_get_stat_frames, Checked
    <2> QED
        BY <2>1, <2>2
<1>6. k.kind \in Counters /\ k.kind # "bp_clear" /\ k.lane \in 0 .. 3
    BY <1>2, LaneBound DEF Counters
<1>7. \E x : Window(k, a, x)
    BY <1>4, <1>5, <1>6, FrWindow
<1> QED
    BY <1>1, <1>7

\* and those of the conversion adapter.
LEMMA ConvKinds ==
    ASSUME NEW k \in Arguments, AccessOf(k) # NoAccess, k.kind \in {"conv_bytes", "conv_frames", "conv_usage"}
    PROVE  \E x : Window(k, AccessOf(k), x)
<1>1. PICK a : a = AccessOf(k)
    OBVIOUS
<1>2. LaneOK(k) /\ (k.kind # "conv_usage" => k.reg \in 0 .. 5)
    BY DEF AccessOf, fpga_conv_get_stat_bytes, fpga_conv_get_stat_frames, fpga_conv_get_stat_buff_usage,
       Checked, Arguments
<1>3. PICK o : o = IF k.kind = "conv_bytes" THEN ConvByteRegs[k.reg + 1]
                   ELSE IF k.kind = "conv_frames" THEN ConvFrameRegs[k.reg + 1] ELSE \hC4
    OBVIOUS
<1>4. o \in Nat /\ o < \h3FC /\ (o < \h98 <=> k.kind = "conv_bytes")
    <2>1. CASE k.kind = "conv_bytes"
        <3>1. o \in {\h60, \h70, \h78, \h80, \h88, \h90}
            BY <1>2, <1>3, <2>1, SMT DEF ConvByteRegs
        <3> QED
            BY <2>1, <3>1, SMT
    <2>2. CASE k.kind = "conv_frames"
        <3>1. o \in {\h98, \hA0, \hA4, \hA8, \hAC, \hB0}
            BY <1>2, <1>3, <2>2, SMT DEF ConvFrameRegs
        <3> QED
            BY <2>2, <3>1, SMT
    <2>3. CASE k.kind = "conv_usage"
        BY <1>3, <2>3, SMT
    <2> QED
        BY <2>1, <2>2, <2>3
<1>5. a = IF o < \h98 THEN Read64(conv_base(k.lane), \h50, k.ch, o) ELSE Read32(conv_base(k.lane), \h50, k.ch, o)
    <2>1. CASE k.kind = "conv_bytes"
        BY <1>1, <1>2, <1>3, <1>4, <2>1 DEF AccessOf, fpga_conv_get_stat_bytes, Checked
    <2>2. CASE k.kind = "conv_frames"
        BY <1>1, <1>2, <1>3, <1>4, <2>2 DEF AccessOf, fpga_conv_get_stat_frames, Checked
    <2>3. CASE k.kind = "conv_usage"
        BY <1>1, <1>2, <1>3, <1>4, <2>3 DEF AccessOf, fpga_conv_get_stat_buff_usage, Checked
    <2> QED
        BY <2>1, <2>2, <2>3
<1>6. (k.kind = "conv_bytes" => k.kind \in Counters) /\ k.kind # "bp_clear" /\ k.lane \in 0 .. 3
    BY <1>2, LaneBound DEF Counters
<1>7. \E x : Window(k, a, x)
    BY <1>4, <1>5, <1>6, ConvWindow
<1> QED
    BY <1>1, <1>7

\* Every call that the library does not refuse reads one counter through the
\* select register that the counter listens to.
LEMMA OwnWindow ==
    ASSUME NEW k \in Arguments, Windowed(k), AccessOf(k) # NoAccess
    PROVE  \E x : Window(k, AccessOf(k), x)
<1>1. k.kind \in Kinds /\ k.kind \notin TableWaits
    BY DEF Windowed, Arguments
<1>2. \/ k.kind \in {"latency_self", "latency_func", "frames", "buff", "bp", "bp_clear", "egr_busy",
                    "egr_free", "con_status"}
      \/ k.kind \in {"bytes", "discard"}
      \/ k.kind \in {"direct_bytes", "direct_frames"}
      \/ k.kind \in {"fr_bytes", "fr_frames"}
      \/ k.kind \in {"conv_bytes", "conv_frames", "conv_usage"}
    BY <1>1 DEF Kinds, Waits, Counters, ByPread
<1> QED
    BY <1>2, ChainKinds, ByteKinds, DirectKinds, FrKinds, ConvKinds

\* The cell of a call and the words it reads.
LEMMA CellAt ==
    ASSUME NEW k, NEW a, a = AccessOf(k), NEW x, Window(k, a, x)
    PROVE  /\ CellOf(k) = <<x, k.ch>>
           /\ Len(a.words) = IF Wide(x) THEN 2 ELSE 1
           /\ a.words[1] = Low(x)
           /\ Wide(x) => a.words[2] = High(x + 4)
<1>1. PICK words : words = a.words
    OBVIOUS
<1>2. words = IF Wide(x) THEN <<Low(x), High(x + 4)>> ELSE <<Low(x)>>
    BY <1>1 DEF Window
<1>3. Low(x).half = 0 /\ High(x + 4).half = 1 /\ Low(x).addr = x
    BY DEF Low, High
<1>4. /\ Len(words) = IF Wide(x) THEN 2 ELSE 1
      /\ words[1] = Low(x)
      /\ Wide(x) => words[2] = High(x + 4)
    <2>1. CASE Wide(x)
        <3>1. words = <<Low(x), High(x + 4)>>
            BY <1>2, <2>1
        <3> QED
            BY <2>1, <3>1
    <2>2. CASE ~Wide(x)
        <3>1. words = <<Low(x)>>
            BY <1>2, <2>2
        <3> QED
            BY <2>2, <3>1
    <2> QED
        BY <2>1, <2>2
<1>5. \A w \in Range(words) : w = Low(x) \/ w = High(x + 4)
    BY <1>2 DEF Range
<1>6. Low(x) \in Range(words)
    BY <1>2 DEF Range
<1>7. (CHOOSE w \in Range(a.words) : w.half = 0) = Low(x)
    BY <1>1, <1>3, <1>5, <1>6
<1>8. CellOf(k) = <<x, a.ch>>
    BY <1>3, <1>7 DEF CellOf
<1> QED
    BY <1>1, <1>4, <1>8 DEF Window

\* The counter that shows c is one that only grows.
Growing(c) == \E t \in UsersOf(c) : call[t].kind \in Counters

\* Where a call can be, by what it is about.
Stage(t) ==
    /\ pc[t] \in {"select", "read", "write", "done"} => HasCell(call[t])
    /\ pc[t] = "write" => call[t].kind = "bp_clear"
    /\ pc[t] = "check" => ~Windowed(call[t])
    /\ pc[t] \in {"check", "polled", "sleep", "success", "timeout"} =>
           call[t].kind \in Waits /\ (Windowed(call[t]) => HasCell(call[t]))

\* The registers of the call; the select register holds its channel as long
\* as it reads.
Selected(t) ==
    /\ HasCell(call[t]) => Access(t).sel \in DOMAIN sel /\ CellOf(call[t]) \in DOMAIN count
    /\ InWindow(t) => sel[Access(t).sel] = Access(t).ch

\* The counter and its value when the call began.
Followed(t) ==
    HasCell(call[t]) /\ pc[t] # "call" =>
        /\ call[t].kind \in Counters => at[t] <= count[CellOf(call[t])]
        /\ still[t] /\ pc[t] \notin Final => count[CellOf(call[t])] = at[t]

\* The low half read is that of a value v the counter had during the call.
Partial(t, v) ==
    /\ at[t] <= v /\ v <= count[CellOf(call[t])]
    /\ still[t] => v = at[t]
    /\ got[t] = v % WORD

Reading(t) ==
    pc[t] = "read" => \/ nth[t] = 0 /\ got[t] = 0
                      \/ nth[t] = 1 /\ Wide(CellOf(call[t])[1]) /\ \E v \in Nat : Partial(t, v)

Result(t) == pc[t] = "done" => /\ call[t].kind \in Counters => got[t] >= at[t]
                               /\ still[t] => got[t] = at[t]

\* The condition a call waits for.
Waiting(t) ==
    /\ ready[t] => call[t].kind \in Waits /\ (Windowed(call[t]) => HasCell(call[t])) /\ Holds(t)
    /\ pc[t] = "polled" /\ ready[t] => got[t] = 0
    /\ pc[t] = "timeout" => ~ready[t]

ThreadInv(t) == Stage(t) /\ Selected(t) /\ Followed(t) /\ Reading(t) /\ Result(t) /\ Waiting(t)

CallType ==
    /\ \A t \in Threads : call[t] \in Arguments
    /\ pc \in [Threads -> Final \cup {"call", "select", "read", "write", "check", "polled", "sleep"}]
    /\ nth \in [Threads -> Nat] /\ got \in [Threads -> Nat] /\ at \in [Threads -> Nat]
    /\ still \in [Threads -> BOOLEAN] /\ ready \in [Threads -> BOOLEAN]

\* A 32-bit counter has moved once for each step of the hardware at most; a
\* state is zero or one.
CountInv ==
    /\ moves \in 0 .. MaxMoves
    /\ count \in [DOMAIN count -> Nat]
    /\ \A c \in DOMAIN count : /\ ~Wide(c[1]) => count[c] <= 1 + moves
                               /\ ~Growing(c) => count[c] \in {0, 1}

\* Two calls do not use a select register at the same time.
Exclusive == \A t, u \in Threads : t # u /\ InWindow(t) /\ InWindow(u) => Access(t).sel # Access(u).sel

StatInv == CallType /\ CountInv /\ Exclusive /\ \A t \in Threads : ThreadInv(t)

\* The calls do not change, nor what they are about.
LEMMA SameCall ==
    ASSUME UNCHANGED call, NEW t \in Threads
    PROVE  /\ call'[t] = call[t] /\ Access(t)' = Access(t)
           /\ CellOf(call[t])' = CellOf(call[t])
           /\ HasCell(call[t])' <=> HasCell(call[t])
           /\ Windowed(call[t])' <=> Windowed(call[t])
BY DEF Access, CellOf, HasCell, Windowed

\* Who uses a counter depends on the calls alone.
LEMMA SameUsers ==
    ASSUME UNCHANGED call, NEW c
    PROVE  UsersOf(c)' = UsersOf(c) /\ (Growing(c)' <=> Growing(c))
<1>1. UsersOf(c)' = UsersOf(c)
    BY DEF UsersOf, HasCell, CellOf, Windowed
<1> QED
    BY <1>1 DEF Growing

\* A step that changes nothing a thread looks at.
LEMMA Undisturbed ==
    ASSUME NEW u \in Threads, ThreadInv(u), UNCHANGED <<call, count, linked>>,
           pc'[u] = pc[u], nth'[u] = nth[u], got'[u] = got[u], at'[u] = at[u],
           still'[u] = still[u], ready'[u] = ready[u], DOMAIN sel' = DOMAIN sel,
           InWindow(u) => sel'[Access(u).sel] = sel[Access(u).sel]
    PROVE  ThreadInv(u)'
<1>1. PICK k, c, a : k = call[u] /\ c = CellOf(call[u]) /\ a = Access(u)
    OBVIOUS
<1>2. /\ call'[u] = k /\ CellOf(call[u])' = c /\ Access(u)' = a
      /\ HasCell(call[u])' <=> HasCell(call[u])
      /\ Windowed(call[u])' <=> Windowed(call[u])
    BY <1>1, SameCall
<1>3. Stage(u)'
    BY <1>1, <1>2 DEF ThreadInv, Stage
<1>4. Selected(u)'
    BY <1>1, <1>2 DEF ThreadInv, Selected, InWindow
<1>5. Followed(u)'
    BY <1>1, <1>2 DEF ThreadInv, Followed
<1>6. Reading(u)'
    BY <1>1, <1>2 DEF ThreadInv, Reading, Partial
<1>7. Result(u)'
    BY <1>1, <1>2 DEF ThreadInv, Result
<1>8. Holds(u)' <=> Holds(u)
    BY <1>1, <1>2 DEF Holds
<1>9. Waiting(u)'
    BY <1>1, <1>2, <1>8 DEF ThreadInv, Waiting
<1> QED
    BY <1>3, <1>4, <1>5, <1>6, <1>7, <1>9 DEF ThreadInv

\* Another thread is as it was after a step of thread t.
OthersSame(t) ==
    \A u \in Threads \ {t} :
        /\ pc'[u] = pc[u] /\ nth'[u] = nth[u] /\ got'[u] = got[u] /\ at'[u] = at[u]
        /\ still'[u] = still[u] /\ ready'[u] = ready[u]
        /\ InWindow(u) => sel'[Access(u).sel] = sel[Access(u).sel]

\* A step that leaves the counters alone keeps CountInv.
LEMMA SameCounters ==
    ASSUME CountInv, UNCHANGED <<call, count, moves>>
    PROVE  CountInv'
<1>1. \A c : Growing(c)' <=> Growing(c)
    BY SameUsers
<1> QED
    BY <1>1 DEF CountInv

\* Windows stay apart if the only thread that moves enters its own when it is free.
LEMMA OneWindow ==
    ASSUME StatInv, NEW t \in Threads, UNCHANGED call, \A u \in Threads \ {t} : pc'[u] = pc[u],
           InWindow(t)' => InWindow(t) \/ WindowFree(t)
    PROVE  Exclusive'
<1>1. SUFFICES ASSUME NEW v \in Threads, NEW u \in Threads, v # u, InWindow(v)', InWindow(u)'
               PROVE  Access(v)'.sel # Access(u)'.sel
    BY DEF Exclusive
<1>2. Access(v)' = Access(v) /\ Access(u)' = Access(u)
    BY SameCall
<1>3. CASE v # t /\ u # t
    <2>1. InWindow(v) /\ InWindow(u)
        BY <1>1, <1>3 DEF InWindow
    <2> QED
        BY <1>1, <1>2, <2>1 DEF StatInv, Exclusive
<1>4. CASE v = t
    <2>1. InWindow(u)
        BY <1>1, <1>4 DEF InWindow
    <2> QED
        BY <1>1, <1>2, <1>4, <2>1 DEF StatInv, Exclusive, WindowFree
<1>5. CASE u = t
    <2>1. InWindow(v)
        BY <1>1, <1>5 DEF InWindow
    <2> QED
        BY <1>1, <1>2, <1>5, <2>1 DEF StatInv, Exclusive, WindowFree
<1> QED
    BY <1>3, <1>4, <1>5

\* What a step of a thread has to establish.
LEMMA ThreadStep ==
    ASSUME StatInv, NEW t \in Threads, UNCHANGED <<call, count, linked, moves>>, DOMAIN sel' = DOMAIN sel,
           OthersSame(t), InWindow(t)' => InWindow(t) \/ WindowFree(t), CallType', ThreadInv(t)'
    PROVE  StatInv'
<1>1. CountInv'
    BY SameCounters DEF StatInv
<1>2. Exclusive'
    BY OneWindow DEF OthersSame
<1>3. ASSUME NEW u \in Threads
      PROVE  ThreadInv(u)'
    <2>1. CASE u = t
        BY <2>1
    <2>2. CASE u # t
        BY <1>3, <2>2, Undisturbed DEF StatInv, OthersSame
    <2> QED
        BY <2>1, <2>2
<1> QED
    BY <1>1, <1>2, <1>3 DEF StatInv

(***************************************************************************)
(* The steps of a thread.                                                  *)
(***************************************************************************)
\* The counter of a call, whose low half is at x.
LEMMA Counter ==
    ASSUME NEW t \in Threads, call[t] \in Arguments, HasCell(call[t])
    PROVE  \E x : /\ Window(call[t], Access(t), x)
                  /\ CellOf(call[t]) = <<x, Access(t).ch>>
                  /\ Len(Access(t).words) = IF Wide(x) THEN 2 ELSE 1
                  /\ Access(t).words[1] = Low(x)
                  /\ Wide(x) => Access(t).words[2] = High(x + 4)
<1>1. PICK k : k = call[t] /\ k \in Arguments
    OBVIOUS
<1>2. Windowed(k) /\ AccessOf(k) # NoAccess
    BY <1>1 DEF HasCell
<1>3. PICK x : Window(k, AccessOf(k), x)
    BY <1>1, <1>2, OwnWindow
<1>4. PICK a : a = AccessOf(k)
    OBVIOUS
<1>5. a.ch = k.ch
    BY <1>3, <1>4 DEF Window
<1>6. /\ CellOf(k) = <<x, k.ch>>
      /\ Len(a.words) = IF Wide(x) THEN 2 ELSE 1
      /\ a.words[1] = Low(x)
      /\ Wide(x) => a.words[2] = High(x + 4)
    BY <1>3, <1>4, CellAt
<1>7. Access(t) = a
    BY <1>1, <1>4 DEF Access
<1> QED
    BY <1>1, <1>3, <1>4, <1>5, <1>6, <1>7

\* The steps of a thread keep the invariant: the argument check;
LEMMA CallStep ==
    ASSUME StatInv, NEW t \in Threads, Call(t)
    PROVE  StatInv'
<1>1. PICK k : k = call[t] /\ k \in Arguments
    BY DEF StatInv, CallType
<1>2. PICK p : p \in {"refused", "select", "check"} /\ pc' = [pc EXCEPT ![t] = p]
               /\ (p = "select" => HasCell(k)) /\ (p = "check" => ~Windowed(k))
    <2>1. PICK p : p = IF ~(IF Windowed(k) THEN Access(t) # NoAccess ELSE LaneOK(k) /\ FchidOK(k)) THEN "refused"
                       ELSE IF Windowed(k) THEN "select" ELSE "check"
        OBVIOUS
    <2>2. pc' = [pc EXCEPT ![t] = p]
        BY <1>1, <2>1 DEF Call
    <2>3. p \in {"refused", "select", "check"} /\ (p = "select" => HasCell(k)) /\ (p = "check" => ~Windowed(k))
        BY <1>1, <2>1 DEF HasCell, Access
    <2> QED
        BY <2>2, <2>3
<1>3. PICK n : at' = [at EXCEPT ![t] = n] /\ n = IF HasCell(k) THEN count[CellOf(k)] ELSE 0
    BY <1>1 DEF Call
<1>4. UNCHANGED <<call, nth, got, sel, count, linked, elapsed, moves, setback, still, ready>> /\ pc[t] = "call"
    BY DEF Call
<1>5. n \in Nat
    BY <1>1, <1>3 DEF StatInv, CountInv, ThreadInv, Selected
<1>6. pc'[t] = p /\ at'[t] = n
    BY <1>2, <1>3 DEF StatInv, CallType
<1>7. OthersSame(t)
    BY <1>2, <1>3, <1>4 DEF StatInv, CallType, OthersSame
<1>8. CallType'
    BY <1>2, <1>3, <1>4, <1>5 DEF StatInv, CallType, Final
<1>9. ~InWindow(t)'
    BY <1>2, <1>6 DEF InWindow
<1>10. ThreadInv(t)'
    <2>1. PICK c, a : c = CellOf(k) /\ a = Access(t)
        OBVIOUS
    <2>2. /\ call'[t] = k /\ CellOf(call[t])' = c /\ Access(t)' = a /\ Access(t) = a
          /\ HasCell(call[t])' <=> HasCell(k)
          /\ Windowed(call[t])' <=> Windowed(k)
        BY <1>1, <1>4, <2>1, SameCall
    <2>3. ThreadInv(t)
        BY DEF StatInv
    <2>4. Stage(t)'
        <3>1. p = "check" => k.kind \in Waits
            BY <1>2 DEF Windowed, Waits
        <3> QED
            BY <1>2, <1>6, <2>2, <3>1 DEF Stage
    <2>5. Selected(t)'
        BY <1>1, <1>4, <1>9, <2>1, <2>2, <2>3 DEF ThreadInv, Selected
    <2>6. Followed(t)'
        BY <1>3, <1>4, <1>5, <1>6, <2>1, <2>2 DEF Followed
    <2>7. Reading(t)' /\ Result(t)'
        BY <1>2, <1>6 DEF Reading, Result
    <2>8. Holds(t)' <=> Holds(t)
        BY <1>1, <1>4, <2>1, <2>2 DEF Holds
    <2>9. Waiting(t)'
        BY <1>1, <1>2, <1>4, <1>6, <2>2, <2>3, <2>8 DEF ThreadInv, Waiting
    <2> QED
        BY <2>4, <2>5, <2>6, <2>7, <2>9 DEF ThreadInv
<1> QED
    BY <1>4, <1>7, <1>8, <1>9, <1>10, ThreadStep

\* the write of the select register;
LEMMA SelectStep ==
    ASSUME StatInv, NEW t \in Threads, Select(t)
    PROVE  StatInv'
<1>1. PICK k, c, a : k = call[t] /\ c = CellOf(k) /\ a = Access(t)
    OBVIOUS
<1>2. UNCHANGED <<call, count, linked, elapsed, moves, setback, at, still, ready>>
      /\ pc[t] = "select" /\ WindowFree(t)
    BY DEF Select
<1>3. PICK p : pc' = [pc EXCEPT ![t] = p] /\ p = IF k.kind = "bp_clear" THEN "write" ELSE "read"
    BY <1>1 DEF Select
<1>4. nth' = [nth EXCEPT ![t] = 0] /\ got' = [got EXCEPT ![t] = 0]
    BY DEF Select
<1>5. sel' = [sel EXCEPT ![a.sel] = a.ch]
    BY <1>1 DEF Select
<1>6. pc'[t] = p /\ nth'[t] = 0 /\ got'[t] = 0
    BY <1>3, <1>4 DEF StatInv, CallType
<1>7. ThreadInv(t) /\ HasCell(k) /\ a.sel \in DOMAIN sel
    BY <1>1, <1>2 DEF StatInv, ThreadInv, Stage, Selected
<1>8. sel'[a.sel] = a.ch /\ DOMAIN sel' = DOMAIN sel
    BY <1>5, <1>7
<1>9. OthersSame(t)
    <2>1. \A u \in Threads \ {t} : InWindow(u) => sel'[Access(u).sel] = sel[Access(u).sel]
        <3>1. \A u \in Threads \ {t} : InWindow(u) => Access(u).sel # a.sel
            BY <1>1, <1>2 DEF WindowFree
        <3> QED
            BY <1>5, <3>1 DEF StatInv, ThreadInv, Selected, Stage, InWindow
    <2> QED
        BY <1>2, <1>3, <1>4, <2>1 DEF StatInv, CallType, OthersSame
<1>10. CallType'
    BY <1>2, <1>3, <1>4 DEF StatInv, CallType, Final
<1>11. ThreadInv(t)'
    <2>1. /\ call'[t] = k /\ CellOf(call[t])' = c /\ Access(t)' = a
          /\ HasCell(call[t])' <=> HasCell(k)
          /\ Windowed(call[t])' <=> Windowed(k)
        BY <1>1, <1>2, SameCall
    <2>2. Stage(t)'
        BY <1>3, <1>6, <1>7, <2>1 DEF Stage
    <2>3. Selected(t)'
        BY <1>1, <1>2, <1>7, <1>8, <2>1 DEF ThreadInv, Selected
    <2>4. Followed(t)'
        <3>1. Followed(t) /\ pc[t] \notin Final /\ pc[t] # "call"
            BY <1>2, <1>7 DEF ThreadInv, Final
        <3> QED
            BY <1>1, <1>2, <2>1, <3>1 DEF Followed
    <2>5. Reading(t)' /\ Result(t)'
        BY <1>3, <1>6 DEF Reading, Result
    <2>6. Holds(t)' <=> Holds(t)
        BY <1>1, <1>2, <2>1 DEF Holds
    <2>7. Waiting(t)'
        BY <1>1, <1>2, <1>3, <1>6, <1>7, <2>1, <2>6 DEF ThreadInv, Waiting
    <2> QED
        BY <2>2, <2>3, <2>4, <2>5, <2>7 DEF ThreadInv
<1> QED
    BY <1>2, <1>8, <1>9, <1>10, <1>11, ThreadStep

\* a system call that fails;
LEMMA IoFailsStep ==
    ASSUME StatInv, NEW t \in Threads, IoFails(t) \/ CallbackFails(t)
    PROVE  StatInv'
<1>1. /\ UNCHANGED <<call, nth, got, sel, count, linked, elapsed, moves, setback, at, still, ready>>
      /\ pc[t] \in {"select", "read", "check"} /\ pc' = [pc EXCEPT ![t] = "failed"]
    BY DEF IoFails, CallbackFails
<1>2. pc'[t] = "failed"
    BY <1>1 DEF StatInv, CallType
<1>3. OthersSame(t)
    BY <1>1 DEF StatInv, CallType, OthersSame
<1>4. CallType'
    BY <1>1 DEF StatInv, CallType, Final
<1>5. PICK k, c, a : k = call[t] /\ c = CellOf(k) /\ a = Access(t)
    OBVIOUS
<1>6. /\ call'[t] = k /\ CellOf(call[t])' = c /\ Access(t)' = a
      /\ HasCell(call[t])' <=> HasCell(k)
      /\ Windowed(call[t])' <=> Windowed(k)
    BY <1>1, <1>5, SameCall
<1>7. ThreadInv(t)
    BY DEF StatInv
<1>8. Stage(t)'
    BY <1>1, <1>2, <1>5, <1>6, <1>7 DEF ThreadInv, Stage
<1>9. Selected(t)'
    BY <1>1, <1>2, <1>5, <1>6, <1>7 DEF ThreadInv, Selected, InWindow
<1>10. Followed(t)'
    BY <1>1, <1>2, <1>5, <1>6, <1>7 DEF ThreadInv, Followed, Final
<1>11. Reading(t)' /\ Result(t)'
    BY <1>2 DEF Reading, Result
<1>12. Holds(t)' <=> Holds(t)
    BY <1>1, <1>5, <1>6 DEF Holds
<1>13. Waiting(t)'
    BY <1>1, <1>2, <1>5, <1>6, <1>7, <1>12 DEF ThreadInv, Waiting
<1>14. ThreadInv(t)'
    BY <1>8, <1>9, <1>10, <1>11, <1>13 DEF ThreadInv
<1> QED
    BY <1>1, <1>2, <1>3, <1>4, <1>14, ThreadStep DEF InWindow

\* the look-up of the table;
LEMMA LookUpStep ==
    ASSUME StatInv, NEW t \in Threads, __fpga_chain_wait_connection_clb(t)
    PROVE  StatInv'
<1>1. PICK k, c, a : k = call[t] /\ c = CellOf(k) /\ a = Access(t)
    OBVIOUS
<1>2. /\ UNCHANGED <<call, nth, sel, count, linked, elapsed, moves, setback, at, still, ready>>
      /\ pc[t] = "check" /\ pc' = [pc EXCEPT ![t] = "polled"]
    BY DEF __fpga_chain_wait_connection_clb
<1>3. PICK n : n = (IF TableShows(linked, k.kind) THEN 0 ELSE 1) /\ got' = [got EXCEPT ![t] = n]
    BY <1>1 DEF __fpga_chain_wait_connection_clb
<1>4. n \in Nat
    BY <1>3
<1>5. pc'[t] = "polled" /\ got'[t] = n
    BY <1>2, <1>3 DEF StatInv, CallType
<1>6. OthersSame(t)
    BY <1>2, <1>3 DEF StatInv, CallType, OthersSame
<1>7. CallType'
    BY <1>2, <1>3, <1>4 DEF StatInv, CallType, Final
<1>8. /\ call'[t] = k /\ CellOf(call[t])' = c /\ Access(t)' = a
      /\ HasCell(call[t])' <=> HasCell(k)
      /\ Windowed(call[t])' <=> Windowed(k)
    BY <1>1, <1>2, SameCall
<1>9. ThreadInv(t) /\ ~Windowed(k)
    BY <1>1, <1>2 DEF StatInv, ThreadInv, Stage
<1>10. Stage(t)'
    BY <1>1, <1>2, <1>5, <1>8, <1>9 DEF ThreadInv, Stage
<1>11. Selected(t)'
    BY <1>1, <1>2, <1>5, <1>8, <1>9 DEF ThreadInv, Selected, InWindow
<1>12. Followed(t)'
    BY <1>8, <1>9 DEF Followed, HasCell
<1>13. Reading(t)' /\ Result(t)'
    BY <1>5 DEF Reading, Result
<1>14. (Holds(t)' <=> Holds(t)) /\ (Holds(t) => n = 0)
    BY <1>1, <1>2, <1>3, <1>8, <1>9 DEF Holds
<1>15. Waiting(t)'
    BY <1>1, <1>2, <1>5, <1>8, <1>9, <1>14 DEF ThreadInv, Waiting
<1>16. ThreadInv(t)'
    BY <1>10, <1>11, <1>12, <1>13, <1>15 DEF ThreadInv
<1> QED
    BY <1>2, <1>5, <1>6, <1>7, <1>16, ThreadStep DEF InWindow

\* the decision after the callback;
LEMMA PollingStep ==
    ASSUME StatInv, NEW t \in Threads, __fpga_common_polling(t)
    PROVE  StatInv'
<1>1. PICK k, c, a : k = call[t] /\ c = CellOf(k) /\ a = Access(t)
    OBVIOUS
<1>2. /\ UNCHANGED <<call, nth, got, sel, count, linked, elapsed, moves, setback, at, still, ready>>
      /\ pc[t] = "polled"
    BY DEF __fpga_common_polling
<1>3. PICK p : p \in {"success", "timeout", "sleep"} /\ (got[t] = 0 => p = "success") /\ pc' = [pc EXCEPT ![t] = p]
    <2>1. PICK p : p = IF got[t] = 0 THEN "success"
                       ELSE IF __get_remain_ns(elapsed[t], Limit(t)) <= 0 THEN "timeout" ELSE "sleep"
        OBVIOUS
    <2>2. pc' = [pc EXCEPT ![t] = p]
        BY <2>1 DEF __fpga_common_polling
    <2> QED
        BY <2>1, <2>2
<1>4. pc'[t] = p
    BY <1>3 DEF StatInv, CallType
<1>5. OthersSame(t)
    BY <1>2, <1>3 DEF StatInv, CallType, OthersSame
<1>6. CallType'
    BY <1>2, <1>3 DEF StatInv, CallType, Final
<1>7. /\ call'[t] = k /\ CellOf(call[t])' = c /\ Access(t)' = a
      /\ HasCell(call[t])' <=> HasCell(k)
      /\ Windowed(call[t])' <=> Windowed(k)
    BY <1>1, <1>2, SameCall
<1>8. ThreadInv(t)
    BY DEF StatInv
<1>9. Stage(t)'
    BY <1>1, <1>2, <1>3, <1>4, <1>7, <1>8 DEF ThreadInv, Stage
<1>10. Selected(t)'
    BY <1>1, <1>2, <1>3, <1>4, <1>7, <1>8 DEF ThreadInv, Selected, InWindow
<1>11. Followed(t)'
    BY <1>1, <1>2, <1>3, <1>4, <1>7, <1>8 DEF ThreadInv, Followed, Final
<1>12. Reading(t)' /\ Result(t)'
    BY <1>3, <1>4 DEF Reading, Result
<1>13. Holds(t)' <=> Holds(t)
    BY <1>1, <1>2, <1>7 DEF Holds
<1>14. Waiting(t)'
    BY <1>1, <1>2, <1>3, <1>4, <1>7, <1>8, <1>13 DEF ThreadInv, Waiting
<1>15. ThreadInv(t)'
    BY <1>9, <1>10, <1>11, <1>12, <1>14 DEF ThreadInv
<1>16. ~InWindow(t)'
    BY <1>3, <1>4 DEF InWindow
<1> QED
    BY <1>2, <1>5, <1>6, <1>15, <1>16, ThreadStep

\* an interval of sleep.
LEMMA SleepStep ==
    ASSUME StatInv, NEW t \in Threads, NEW ticks, Sleep(t, ticks)
    PROVE  StatInv'
<1>1. PICK k, c, a : k = call[t] /\ c = CellOf(k) /\ a = Access(t)
    OBVIOUS
<1>2. /\ UNCHANGED <<call, nth, got, sel, count, linked, moves, at, still>>
      /\ pc[t] = "sleep" /\ ready' = [ready EXCEPT ![t] = Holds(t)]
    BY DEF Sleep, Slept
<1>3. PICK p : pc' = [pc EXCEPT ![t] = p] /\ p = IF Windowed(k) THEN "select" ELSE "check"
    BY <1>1 DEF Sleep
<1>4. Holds(t) \in BOOLEAN
    <2>1. CASE Windowed(k)
        BY <1>1, <2>1 DEF Holds
    <2>2. CASE ~Windowed(k)
        <3>1. k.kind \in {"connection_ingress", "connection_egress", "disconnection_ingress", "disconnection_egress"}
            BY <2>2 DEF Windowed, TableWaits
        <3>2. TableShows(linked, k.kind) \in BOOLEAN
            BY <3>1 DEF TableShows, fpga_chain_wait_connection_ingress, fpga_chain_wait_connection_egress,
               fpga_chain_wait_disconnection_ingress, fpga_chain_wait_disconnection_egress, Established, Removed
        <3> QED
            BY <1>1, <2>2, <3>2 DEF Holds
    <2> QED
        BY <2>1, <2>2
<1>5. pc'[t] = p /\ (ready'[t] <=> Holds(t))
    BY <1>2, <1>3, <1>4 DEF StatInv, CallType
<1>6. OthersSame(t)
    BY <1>2, <1>3 DEF StatInv, CallType, OthersSame
<1>7. CallType'
    BY <1>2, <1>3, <1>4 DEF StatInv, CallType, Final
<1>8. /\ call'[t] = k /\ CellOf(call[t])' = c /\ Access(t)' = a
      /\ HasCell(call[t])' <=> HasCell(k)
      /\ Windowed(call[t])' <=> Windowed(k)
    BY <1>1, <1>2, SameCall
<1>9. ThreadInv(t) /\ k.kind \in Waits /\ (Windowed(k) => HasCell(k))
    BY <1>1, <1>2 DEF StatInv, ThreadInv, Stage
<1>10. Stage(t)'
    BY <1>1, <1>3, <1>5, <1>8, <1>9 DEF Stage
<1>11. Selected(t)'
    BY <1>1, <1>2, <1>3, <1>5, <1>8, <1>9 DEF ThreadInv, Selected, InWindow
<1>12. Followed(t)'
    <2>1. Followed(t) /\ pc[t] \notin Final /\ pc[t] # "call"
        BY <1>2, <1>9 DEF ThreadInv, Final
    <2> QED
        BY <1>1, <1>2, <1>8, <2>1 DEF Followed
<1>13. Reading(t)' /\ Result(t)'
    BY <1>3, <1>5 DEF Reading, Result
<1>14. Holds(t)' <=> Holds(t)
    BY <1>1, <1>2, <1>8 DEF Holds
<1>15. Waiting(t)'
    BY <1>1, <1>3, <1>5, <1>8, <1>9, <1>14 DEF Waiting
<1>16. ThreadInv(t)'
    BY <1>10, <1>11, <1>12, <1>13, <1>15 DEF ThreadInv
<1>17. ~InWindow(t)'
    BY <1>3, <1>5 DEF InWindow
<1> QED
    BY <1>2, <1>6, <1>7, <1>16, <1>17, ThreadStep

\* What a thread finds in the window it has selected.
LEMMA OwnValue ==
    ASSUME StatInv, NEW t \in Threads, InWindow(t), NEW x, Window(call[t], Access(t), x),
           CellOf(call[t]) = <<x, Access(t).ch>>, HasCell(call[t])
    PROVE  /\ Shown(Low(x)) = CellOf(call[t])
           /\ RegValue(Low(x)) = count[CellOf(call[t])] % WORD
           /\ Wide(x) => RegValue(High(x + 4)) = count[CellOf(call[t])] \div WORD
<1>1. PICK c, a : c = CellOf(call[t]) /\ a = Access(t)
    OBVIOUS
<1>2. x \in Nat /\ a.sel = SelectOf(x) /\ (Wide(x) => a.sel = SelectOf(x + 4))
    BY <1>1 DEF Window
<1>3. c \in DOMAIN count /\ sel[a.sel] = a.ch
    BY <1>1 DEF StatInv, ThreadInv, Selected
<1>4. /\ Low(x).addr = x /\ Low(x).half = 0
      /\ High(x + 4).addr = x + 4 /\ High(x + 4).half = 1
    BY DEF Low, High
<1>5. x - 4 * 0 = x /\ (x + 4) - 4 * 1 = x
    BY <1>2
<1>6. Shown(Low(x)) = c
    BY <1>1, <1>2, <1>3, <1>4, <1>5 DEF Shown
<1>7. Wide(x) => Shown(High(x + 4)) = c
    BY <1>1, <1>2, <1>3, <1>4, <1>5 DEF Shown
<1>8. RegValue(Low(x)) = count[c] % WORD
    BY <1>3, <1>4, <1>6 DEF RegValue, Half
<1>9. Wide(x) => RegValue(High(x + 4)) = count[c] \div WORD
    BY <1>3, <1>4, <1>7 DEF RegValue, Half
<1> QED
    BY <1>1, <1>6, <1>8, <1>9

\* The two halves, the low one of an earlier value.
LEMMA Carry ==
    ASSUME NEW v \in Nat, NEW m \in Nat, v <= m
    PROVE  /\ (v % WORD) + WORD * (m \div WORD) \in Nat
           /\ (v % WORD) + WORD * (m \div WORD) >= v
           /\ v = m => (v % WORD) + WORD * (m \div WORD) = v
<1>1. WORD \in Nat /\ WORD > 0
    BY StatAssumption
<1>2. v \div WORD <= m \div WORD /\ v \div WORD \in Nat /\ m \div WORD \in Nat
    BY <1>1, SMT
<1>3. v = (v % WORD) + WORD * (v \div WORD) /\ v % WORD \in Nat
    BY <1>1, SMT
<1>4. PICK p, q : p = v \div WORD /\ q = m \div WORD /\ p \in Nat /\ q \in Nat /\ p <= q
    BY <1>2
<1>5. WORD * p <= WORD * q /\ WORD * q \in Nat /\ WORD * p \in Nat
    BY <1>1, <1>4, SMT
<1> QED
    BY <1>3, <1>4, <1>5

\* The invariant after a word is read, by what the thread does next.
LEMMA ReadStep ==
    ASSUME StatInv, NEW t \in Threads, ReadWord(t)
    PROVE  StatInv'
<1>1. PICK k, c, a : k = call[t] /\ c = CellOf(k) /\ a = Access(t)
    OBVIOUS
<1>2. UNCHANGED <<call, sel, count, linked, elapsed, moves, setback, at, still, ready>> /\ pc[t] = "read"
    BY DEF ReadWord
<1>3. ThreadInv(t) /\ HasCell(k) /\ InWindow(t) /\ pc[t] \notin Final /\ pc[t] # "call"
    BY <1>1, <1>2 DEF StatInv, ThreadInv, Stage, InWindow, Final
<1>4. PICK x : /\ Window(k, a, x) /\ c = <<x, a.ch>>
               /\ Len(a.words) = IF Wide(x) THEN 2 ELSE 1
               /\ a.words[1] = Low(x)
               /\ Wide(x) => a.words[2] = High(x + 4)
    BY <1>1, <1>3, Counter DEF StatInv, CallType
<1>5. PICK m : m = count[c] /\ m \in Nat /\ (~Wide(x) => m <= 1 + moves)
    <2>1. c \in DOMAIN count /\ c[1] = x
        BY <1>1, <1>3, <1>4 DEF ThreadInv, Selected
    <2> QED
        BY <2>1 DEF StatInv, CountInv
<1>6. /\ RegValue(Low(x)) = m % WORD
      /\ Wide(x) => RegValue(High(x + 4)) = m \div WORD
    BY <1>1, <1>3, <1>4, <1>5, OwnValue
<1>7. (k.kind \in Counters => at[t] <= m) /\ (still[t] => m = at[t]) /\ at[t] \in Nat
    BY <1>1, <1>3, <1>5 DEF ThreadInv, Followed, StatInv, CallType
<1>8. Wide(x) => k.kind \in Counters
    BY <1>4 DEF Window
<1>9. k.kind \in Counters => k.kind \notin Waits
    BY DEF Counters, Waits, TableWaits
<1>10. WORD \in Nat /\ WORD > 0 /\ WORD > MaxMoves + 1 /\ MaxMoves \in Nat
    BY StatAssumption
<1>11. \/ nth[t] = 0 /\ got[t] = 0
       \/ nth[t] = 1 /\ Wide(x) /\ \E v \in Nat : Partial(t, v)
    BY <1>1, <1>2, <1>3, <1>4 DEF ThreadInv, Reading
<1>12. PICK w, n, g, p : /\ w = a.words[nth[t] + 1] /\ n = nth[t] + 1
                         /\ g = got[t] + (IF w.half = 1 THEN WORD ELSE 1) * RegValue(w)
                         /\ p = IF n < Len(a.words) THEN "read" ELSE IF k.kind \in Waits THEN "polled" ELSE "done"
    OBVIOUS
<1>13. got' = [got EXCEPT ![t] = g] /\ nth' = [nth EXCEPT ![t] = n] /\ pc' = [pc EXCEPT ![t] = p]
    <2>1. got' = [got EXCEPT ![t] = g] /\ nth' = [nth EXCEPT ![t] = n]
        BY <1>1, <1>12 DEF ReadWord, StatInv, CallType
    <2>2. nth'[t] = n
        BY <2>1 DEF StatInv, CallType
    <2> QED
        BY <1>1, <1>12, <2>1, <2>2 DEF ReadWord
<1>14. /\ n \in Nat /\ g \in Nat /\ p \in {"read", "polled", "done"}
       /\ p = "read" => n = 1 /\ Wide(x) /\ g = m % WORD
       /\ p = "polled" => k.kind \in Waits /\ (m = 0 => g = 0)
       /\ p = "done" => (k.kind \in Counters => g >= at[t]) /\ (still[t] => g = at[t])
    <2>1. CASE nth[t] = 0 /\ got[t] = 0
        <3>1. w = Low(x) /\ w.half = 0 /\ n = 1
            BY <1>4, <1>12, <2>1 DEF Low
        <3>2. g = m % WORD /\ g \in Nat /\ (m < WORD => g = m)
            <4>1. PICK r : r = m % WORD /\ r \in Nat /\ (m < WORD => r = m)
                BY <1>5, <1>10, SMT
            <4>2. g = 0 + 1 * r
                BY <1>6, <1>12, <2>1, <3>1, <4>1
            <4> QED
                BY <4>1, <4>2
        <3>3. CASE Wide(x)
            BY <1>4, <1>12, <3>1, <3>2, <3>3
        <3>4. CASE ~Wide(x)
            <4>1. p = IF k.kind \in Waits THEN "polled" ELSE "done"
                BY <1>4, <1>12, <3>1, <3>4
            <4>2. m < WORD
                BY <1>5, <1>10, <3>4 DEF StatInv, CountInv
            <4> QED
                BY <1>7, <3>1, <3>2, <4>1, <4>2
        <3> QED
            BY <3>3, <3>4
    <2>2. CASE nth[t] = 1 /\ Wide(x) /\ \E v \in Nat : Partial(t, v)
        <3>1. w = High(x + 4) /\ w.half = 1 /\ n = 2
            BY <1>4, <1>12, <2>2 DEF High
        <3>2. PICK v \in Nat : at[t] <= v /\ v <= m /\ (still[t] => v = at[t]) /\ got[t] = v % WORD
            BY <1>1, <1>5, <2>2 DEF Partial
        <3>3. g = (v % WORD) + WORD * (m \div WORD)
            BY <1>6, <1>12, <2>2, <3>1, <3>2
        <3>4. g \in Nat /\ g >= v /\ (v = m => g = v)
            BY <1>5, <3>2, <3>3, Carry
        <3>5. p = "done"
            BY <1>4, <1>8, <1>9, <1>12, <2>2, <3>1
        <3> QED
            BY <1>7, <3>1, <3>2, <3>4, <3>5
    <2> QED
        BY <1>11, <2>1, <2>2
<1>15. pc'[t] = p /\ nth'[t] = n /\ got'[t] = g
    BY <1>13 DEF StatInv, CallType
<1>16. OthersSame(t)
    BY <1>2, <1>13 DEF StatInv, CallType, OthersSame
<1>17. CallType'
    BY <1>2, <1>13, <1>14 DEF StatInv, CallType, Final
<1>18. ThreadInv(t)'
    <2>1. /\ call'[t] = k /\ CellOf(call[t])' = c /\ Access(t)' = a
          /\ HasCell(call[t])' <=> HasCell(k)
          /\ Windowed(call[t])' <=> Windowed(k)
        BY <1>1, <1>2, SameCall
    <2>2. Stage(t)'
        BY <1>3, <1>14, <1>15, <2>1 DEF Stage
    <2>3. Selected(t)'
        BY <1>1, <1>2, <1>3, <2>1 DEF ThreadInv, Selected, InWindow
    <2>4. Followed(t)'
        BY <1>2, <1>5, <1>7, <2>1 DEF Followed
    <2>5. Reading(t)'
        <3>1. p = "read" => Partial(t, m)'
            BY <1>2, <1>5, <1>7, <1>8, <1>14, <1>15, <2>1 DEF Partial
        <3>2. c[1] = x
            BY <1>4
        <3> QED
            BY <1>5, <1>14, <1>15, <2>1, <3>1, <3>2 DEF Reading
    <2>6. Result(t)'
        BY <1>2, <1>14, <1>15, <2>1 DEF Result
    <2>7. (Holds(t)' <=> Holds(t)) /\ (Holds(t) => m = 0)
        BY <1>1, <1>2, <1>3, <1>5, <2>1 DEF Holds, HasCell
    <2>8. Waiting(t)'
        BY <1>1, <1>2, <1>3, <1>14, <1>15, <2>1, <2>7 DEF ThreadInv, Waiting
    <2> QED
        BY <2>2, <2>3, <2>4, <2>5, <2>6, <2>8 DEF ThreadInv
<1> QED
    BY <1>2, <1>3, <1>16, <1>17, <1>18, ThreadStep

(***************************************************************************)
(* The steps that move a counter.                                          *)
(***************************************************************************)
\* The users of a counter agree on what it is.
LEMMA Users ==
    ASSUME StatInv, NEW u \in Threads, HasCell(call[u])
    PROVE  /\ Wide(CellOf(call[u])[1]) => call[u].kind \in Counters
           /\ call[u].kind = "bp_clear" => Flag(CellOf(call[u])[1])
           /\ call[u].kind \in Counters => ~Flag(CellOf(call[u])[1])
<1>1. PICK k, c, a : k = call[u] /\ c = CellOf(k) /\ a = Access(u)
    OBVIOUS
<1>2. PICK x : Window(k, a, x) /\ c = <<x, a.ch>>
    BY <1>1, Counter DEF StatInv, CallType
<1>3. c[1] = x
    BY <1>2
<1> QED
    BY <1>1, <1>2, <1>3 DEF Window

\* What a change of one counter leaves true of a thread that does not move.
LEMMA Disturbed ==
    ASSUME StatInv, NEW u \in Threads, NEW c \in DOMAIN count, NEW m \in Nat,
           UNCHANGED <<call, sel, linked, at, got, nth>>, pc'[u] = pc[u],
           count' = [count EXCEPT ![c] = m], still'[u] = Moved(c)[u],
           u \in UsersOf(c) /\ call[u].kind \in Counters => m >= count[c],
           ready'[u] => ready[u] /\ (u \in UsersOf(c) => m = 0 \/ count[c] # 0)
    PROVE  ThreadInv(u)'
<1>1. PICK k, d, a : k = call[u] /\ d = CellOf(k) /\ a = Access(u)
    OBVIOUS
<1>2. /\ call'[u] = k /\ CellOf(call[u])' = d /\ Access(u)' = a
      /\ HasCell(call[u])' <=> HasCell(k)
      /\ Windowed(call[u])' <=> Windowed(k)
    BY <1>1, SameCall
<1>3. ThreadInv(u) /\ u \in Threads
    BY DEF StatInv
<1>4. u \in UsersOf(c) <=> HasCell(k) /\ d = c
    BY <1>1 DEF UsersOf
<1>5. /\ still'[u] => still[u]
      /\ still'[u] /\ u \in UsersOf(c) => pc[u] \in Final \cup {"call"}
    BY DEF Moved
<1>6. DOMAIN count' = DOMAIN count /\ count'[c] = m /\ \A e \in DOMAIN count \ {c} : count'[e] = count[e]
    OBVIOUS
<1>7. HasCell(k) => d \in DOMAIN count
    BY <1>1, <1>3 DEF ThreadInv, Selected
<1>8. HasCell(k) /\ k.kind \in Counters => count'[d] >= count[d] /\ count'[d] \in Nat /\ count[d] \in Nat
    BY <1>1, <1>4, <1>6, <1>7 DEF StatInv, CountInv
<1>9. HasCell(k) /\ still'[u] /\ pc[u] \notin Final /\ pc[u] # "call" => count'[d] = count[d]
    BY <1>4, <1>5, <1>6, <1>7
<1>10. Stage(u)'
    BY <1>1, <1>2, <1>3 DEF ThreadInv, Stage
<1>11. Selected(u)'
    BY <1>1, <1>2, <1>3, <1>6 DEF ThreadInv, Selected, InWindow
<1>12. at[u] \in Nat
    BY DEF StatInv, CallType
<1>13. Followed(u)'
    BY <1>1, <1>2, <1>3, <1>5, <1>8, <1>9, <1>12 DEF ThreadInv, Followed
<1>14. Reading(u)'
    <2>1. SUFFICES ASSUME pc[u] = "read", nth[u] = 1, Wide(d[1]), NEW v \in Nat, Partial(u, v)
                   PROVE  Partial(u, v)'
        BY <1>1, <1>2, <1>3 DEF ThreadInv, Reading
    <2>2. HasCell(k) /\ k.kind \in Counters
        BY <1>1, <1>3, <2>1, Users DEF ThreadInv, Stage
    <2>3. at[u] <= v /\ v <= count[d] /\ (still[u] => v = at[u]) /\ got[u] = v % WORD
        BY <1>1, <2>1 DEF Partial
    <2>4. v <= count'[d]
        BY <1>8, <2>2, <2>3
    <2> QED
        BY <1>2, <1>5, <2>3, <2>4 DEF Partial
<1>15. Result(u)'
    BY <1>1, <1>2, <1>3, <1>5 DEF ThreadInv, Result
<1>16. ready'[u] => ready[u] /\ Holds(u)'
    <2>1. SUFFICES ASSUME ready'[u]
                   PROVE  ready[u] /\ Holds(u)'
        OBVIOUS
    <2>2. ready[u] /\ (u \in UsersOf(c) => m = 0 \/ count[c] # 0)
        BY <2>1
    <2>3. Holds(u) /\ (Windowed(k) => HasCell(k))
        BY <1>1, <1>3, <2>2 DEF ThreadInv, Waiting
    <2>4. Windowed(k) => count'[d] = 0
        BY <1>1, <1>4, <1>6, <1>7, <2>2, <2>3 DEF Holds
    <2> QED
        BY <1>1, <1>2, <2>2, <2>3, <2>4 DEF Holds
<1>17. Waiting(u)'
    BY <1>1, <1>2, <1>3, <1>16 DEF ThreadInv, Waiting
<1> QED
    BY <1>10, <1>11, <1>13, <1>14, <1>15, <1>17 DEF ThreadInv

\* Clearing the flag keeps the invariant,
LEMMA ClearStep ==
    ASSUME StatInv, NEW t \in Threads, ClearFlag(t)
    PROVE  StatInv'
<1>1. PICK k, c, a : k = call[t] /\ c = CellOf(k) /\ a = Access(t)
    OBVIOUS
<1>2. /\ UNCHANGED <<call, nth, got, sel, linked, elapsed, moves, setback, at, ready>>
      /\ pc[t] = "write" /\ pc' = [pc EXCEPT ![t] = "done"]
    BY DEF ClearFlag
<1>3. ThreadInv(t) /\ HasCell(k) /\ InWindow(t) /\ k.kind = "bp_clear" /\ c \in DOMAIN count
    BY <1>1, <1>2 DEF StatInv, ThreadInv, Stage, Selected, InWindow
<1>4. Shown(a.words[1]) = c
    <2>1. PICK x : Window(k, a, x) /\ c = <<x, a.ch>> /\ a.words[1] = Low(x)
        BY <1>1, <1>3, Counter DEF StatInv, CallType
    <2>2. Shown(Low(x)) = c
        BY <1>1, <1>3, <2>1, OwnValue
    <2> QED
        BY <2>1, <2>2
<1>5. count' = [count EXCEPT ![c] = 0] /\ still' = Moved(c)
    <2>1. PICK e : e = Shown(a.words[1])
        OBVIOUS
    <2>2. count' = (IF e \in DOMAIN count THEN [count EXCEPT ![e] = 0] ELSE count) /\ still' = Moved(e)
        BY <1>1, <2>1 DEF ClearFlag
    <2> QED
        BY <1>3, <1>4, <2>1, <2>2
<1>6. pc'[t] = "done" /\ \A u \in Threads \ {t} : pc'[u] = pc[u]
    BY <1>2 DEF StatInv, CallType
<1>7. CallType'
    BY <1>2, <1>5 DEF StatInv, CallType, Final, Moved
<1>8. CountInv'
    <2>1. \A d : Growing(d)' <=> Growing(d)
        BY <1>2, SameUsers
    <2> QED
        BY <1>2, <1>3, <1>5, <2>1 DEF StatInv, CountInv
<1>9. Exclusive'
    BY <1>2, <1>3, <1>6, OneWindow
<1>10. Flag(c[1])
    BY <1>1, <1>3, Users
<1>11. ASSUME NEW u \in Threads, u # t
       PROVE  ThreadInv(u)'
    <2>1. u \in UsersOf(c) => call[u].kind \notin Counters
        BY <1>10, Users DEF UsersOf
    <2>2. still'[u] = Moved(c)[u] /\ ready'[u] = ready[u] /\ pc'[u] = pc[u]
        BY <1>2, <1>5, <1>6, <1>11
    <2>3. 0 \in Nat
        OBVIOUS
    <2> QED
        BY <1>2, <1>3, <1>5, <2>1, <2>2, <2>3, Disturbed
<1>12. ThreadInv(t)'
    <2>1. /\ call'[t] = k /\ CellOf(call[t])' = c /\ Access(t)' = a
          /\ HasCell(call[t])' <=> HasCell(k)
          /\ Windowed(call[t])' <=> Windowed(k)
        BY <1>1, <1>2, SameCall
    <2>2. k.kind \notin Counters /\ k.kind \notin Waits
        BY <1>3 DEF Counters, Waits, TableWaits
    <2>3. ~still'[t]
        BY <1>1, <1>2, <1>3, <1>5 DEF Moved, UsersOf, Final
    <2>4. ~ready'[t]
        BY <1>1, <1>2, <1>3, <2>2 DEF ThreadInv, Waiting
    <2>5. Stage(t)'
        BY <1>3, <1>6, <2>1 DEF Stage
    <2>6. Selected(t)'
        BY <1>1, <1>2, <1>3, <1>5, <1>6, <2>1 DEF ThreadInv, Selected, InWindow
    <2>7. Followed(t)'
        BY <2>1, <2>2, <2>3 DEF Followed
    <2>8. Reading(t)' /\ Result(t)'
        BY <1>6, <2>1, <2>2, <2>3 DEF Reading, Result
    <2>9. Waiting(t)'
        BY <1>6, <2>4 DEF Waiting
    <2> QED
        BY <2>5, <2>6, <2>7, <2>8, <2>9 DEF ThreadInv
<1>13. \A u \in Threads : ThreadInv(u)'
    BY <1>11, <1>12
<1> QED
    BY <1>7, <1>8, <1>9, <1>13 DEF StatInv

\* so does a count of the hardware,
LEMMA MoveStep ==
    ASSUME StatInv, NEW c \in DOMAIN count, Move(c)
    PROVE  StatInv'
<1>1. /\ UNCHANGED <<call, pc, nth, got, sel, linked, elapsed, setback, at>>
      /\ moves < MaxMoves /\ moves' = moves + 1 /\ still' = Moved(c)
    BY DEF Move
<1>2. PICK m : m = IF Growing(c) THEN count[c] + 1 ELSE 1 - count[c]
    OBVIOUS
<1>3. count' = [count EXCEPT ![c] = m]
    BY <1>2 DEF Move, Growing
<1>4. count'[c] = m /\ DOMAIN count' = DOMAIN count
    BY <1>3
<1>5. \A u \in Threads : ready'[u] <=> ready[u] /\ ~(u \in UsersOf(c) /\ m # 0)
    BY <1>4 DEF Move
<1>6. count[c] \in Nat /\ (~Growing(c) => count[c] \in {0, 1}) /\ (~Wide(c[1]) => count[c] <= 1 + moves)
    BY DEF StatInv, CountInv
<1>7. m \in Nat /\ (Growing(c) => m >= count[c]) /\ (~Growing(c) => m \in {0, 1})
    BY <1>2, <1>6
<1>8. moves \in Nat /\ moves' \in 0 .. MaxMoves /\ MaxMoves \in Nat
    BY <1>1, StatAssumption DEF StatInv, CountInv
<1>9. ~Wide(c[1]) => m <= 1 + moves'
    BY <1>1, <1>2, <1>6, <1>8
<1>10. CallType'
    <2>1. still' \in [Threads -> BOOLEAN]
        BY <1>1 DEF Moved, StatInv, CallType
    <2>2. ready' \in [Threads -> BOOLEAN]
        BY DEF Move
    <2> QED
        BY <1>1, <2>1, <2>2 DEF StatInv, CallType
<1>11. CountInv'
    <2>1. \A d : Growing(d)' <=> Growing(d)
        BY <1>1, SameUsers
    <2>2. count' \in [DOMAIN count' -> Nat]
        BY <1>3, <1>4, <1>7 DEF StatInv, CountInv
    <2>3. ASSUME NEW d \in DOMAIN count
          PROVE  (~Wide(d[1]) => count'[d] <= 1 + moves') /\ (~Growing(d) => count'[d] \in {0, 1})
        <3>1. CASE d = c
            BY <1>4, <1>7, <1>9, <3>1
        <3>2. CASE d # c
            <4>1. count'[d] = count[d] /\ count[d] \in Nat
                BY <1>3, <3>2 DEF StatInv, CountInv
            <4> QED
                BY <1>1, <1>8, <4>1 DEF StatInv, CountInv
        <3> QED
            BY <3>1, <3>2
    <2> QED
        BY <1>4, <1>8, <2>1, <2>2, <2>3 DEF CountInv
<1>12. Exclusive'
    <2>1. \A v \in Threads : Access(v)' = Access(v)
        BY <1>1, SameCall
    <2> QED
        BY <1>1, <2>1 DEF StatInv, Exclusive, InWindow
<1>13. ASSUME NEW u \in Threads
       PROVE  ThreadInv(u)'
    <2>1. u \in UsersOf(c) /\ call[u].kind \in Counters => m >= count[c]
        BY <1>7 DEF Growing
    <2>2. ready'[u] => ready[u] /\ (u \in UsersOf(c) => m = 0)
        BY <1>5
    <2>3. still'[u] = Moved(c)[u] /\ pc'[u] = pc[u]
        BY <1>1
    <2> QED
        BY <1>1, <1>3, <1>7, <2>1, <2>2, <2>3, Disturbed
<1> QED
    BY <1>10, <1>11, <1>12, <1>13 DEF StatInv

\* and a change of the table.
LEMMA RelinkStep ==
    ASSUME StatInv, NEW dir \in Directions, NEW field \in IdFields, Relink(dir, field)
    PROVE  StatInv'
<1>1. /\ UNCHANGED <<call, pc, nth, got, sel, count, elapsed, setback, at, still>>
      /\ moves < MaxMoves /\ moves' = moves + 1
    BY DEF Relink
<1>2. \A u \in Threads : ready'[u] <=> ready[u] /\ (call[u].kind \in TableWaits => TableShows(linked', call[u].kind))
    BY DEF Relink
<1>3. moves \in Nat /\ moves' \in 0 .. MaxMoves /\ MaxMoves \in Nat
    BY <1>1, StatAssumption DEF StatInv, CountInv
<1>4. CallType'
    <2>1. ready' \in [Threads -> BOOLEAN]
        <3>1. \A u \in Threads :
                  (ready[u] /\ (call[u].kind \in TableWaits => TableShows(linked', call[u].kind))) \in BOOLEAN
            OBVIOUS
        <3> QED
            BY <3>1 DEF Relink
    <2> QED
        BY <1>1, <2>1 DEF StatInv, CallType
<1>5. CountInv'
    <2>1. \A d : Growing(d)' <=> Growing(d)
        BY <1>1, SameUsers
    <2>2. \A d \in DOMAIN count : count[d] \in Nat /\ (count[d] <= 1 + moves => count[d] <= 1 + moves')
        BY <1>1, <1>3 DEF StatInv, CountInv
    <2> QED
        BY <1>1, <1>3, <2>1, <2>2 DEF StatInv, CountInv
<1>6. Exclusive'
    <2>1. \A v \in Threads : Access(v)' = Access(v)
        BY <1>1, SameCall
    <2> QED
        BY <1>1, <2>1 DEF StatInv, Exclusive, InWindow
<1>7. ASSUME NEW u \in Threads
      PROVE  ThreadInv(u)'
    <2>1. PICK k, c, a : k = call[u] /\ c = CellOf(k) /\ a = Access(u)
        OBVIOUS
    <2>2. /\ call'[u] = k /\ CellOf(call[u])' = c /\ Access(u)' = a
          /\ HasCell(call[u])' <=> HasCell(k)
          /\ Windowed(call[u])' <=> Windowed(k)
        BY <1>1, <2>1, SameCall
    <2>3. ThreadInv(u)
        BY DEF StatInv
    <2>4. Stage(u)' /\ Selected(u)'
        BY <1>1, <2>1, <2>2, <2>3 DEF ThreadInv, Stage, Selected, InWindow
    <2>5. Followed(u)' /\ Result(u)'
        BY <1>1, <2>1, <2>2, <2>3 DEF ThreadInv, Followed, Result
    <2>6. Reading(u)'
        BY <1>1, <2>1, <2>2, <2>3 DEF ThreadInv, Reading, Partial
    <2>7. ready'[u] => ready[u] /\ Holds(u)'
        BY <1>1, <1>2, <2>1, <2>2, <2>3 DEF ThreadInv, Waiting, Holds, Windowed
    <2>8. Waiting(u)'
        BY <1>1, <2>1, <2>2, <2>3, <2>7 DEF ThreadInv, Waiting
    <2> QED
        BY <2>4, <2>5, <2>6, <2>8 DEF ThreadInv
<1> QED
    BY <1>4, <1>5, <1>6, <1>7 DEF StatInv

(***************************************************************************)
(* The theorems.                                                           *)
(***************************************************************************)
LEMMA StatInit ==
    ASSUME Init
    PROVE  StatInv
<1>1. \A t \in Threads : call[t] \in Arguments
    BY StatAssumption DEF Init
<1>2. /\ pc = [t \in Threads |-> "call"] /\ nth = [t \in Threads |-> 0] /\ got = [t \in Threads |-> 0]
      /\ at = [t \in Threads |-> 0] /\ still = [t \in Threads |-> TRUE] /\ ready = [t \in Threads |-> FALSE]
      /\ moves = 0
    BY DEF Init
<1>3. PICK live : live = {t \in Threads : HasCell(call[t])}
    OBVIOUS
<1>4. sel = [s \in {Access(t).sel : t \in live} \cup {SelectOf(CellOf(call[t])[1]) : t \in live} |-> 0]
    BY <1>3 DEF Init
<1>5. count = [c \in {CellOf(call[t]) : t \in live} |->
                  IF \E t \in live : CellOf(call[t]) = c /\ Len(Access(t).words) = 2 THEN WORD - 1 ELSE 1]
    BY <1>3 DEF Init
<1>6. WORD \in Nat /\ WORD > 0 /\ MaxMoves \in Nat
    BY StatAssumption
<1>7. CallType
    BY <1>1, <1>2 DEF CallType
<1>8. CountInv
    <2>1. \A c \in DOMAIN count : count[c] \in {WORD - 1, 1}
        BY <1>5
    <2>2. WORD - 1 \in Nat
        BY <1>6
    <2>3. count \in [DOMAIN count -> Nat]
        BY <1>5, <2>1, <2>2
    <2>4. ASSUME NEW c \in DOMAIN count, NEW t \in live, CellOf(call[t]) = c, Len(Access(t).words) = 2
          PROVE  Wide(c[1]) /\ Growing(c)
        <3>1. t \in Threads /\ HasCell(call[t]) /\ call[t] \in Arguments
            BY <1>1, <1>3
        <3>2. PICK k, a : k = call[t] /\ a = Access(t)
            OBVIOUS
        <3>3. PICK x : /\ Window(k, a, x) /\ c = <<x, a.ch>>
                       /\ Len(a.words) = IF Wide(x) THEN 2 ELSE 1
            BY <2>4, <3>1, <3>2, Counter
        <3>4. Wide(x) /\ c[1] = x
            <4>1. Len(a.words) = 2
                BY <2>4, <3>2
            <4>2. Wide(x)
                BY <3>3, <4>1
            <4> QED
                BY <3>3, <4>2
        <3>5. k.kind \in Counters
            BY <3>3, <3>4 DEF Window
        <3> QED
            BY <2>4, <3>1, <3>2, <3>4, <3>5 DEF Growing, UsersOf
    <2>5. \A c \in DOMAIN count : ~Wide(c[1]) \/ ~Growing(c) => count[c] = 1
        BY <1>5, <2>4
    <2> QED
        BY <1>2, <1>6, <2>3, <2>5 DEF CountInv
<1>9. Exclusive
    BY <1>2 DEF Exclusive, InWindow
<1>10. ASSUME NEW t \in Threads
       PROVE  ThreadInv(t)
    <2>1. pc[t] = "call" /\ ~ready[t]
        BY <1>2
    <2>2. Stage(t) /\ Followed(t) /\ Reading(t) /\ Result(t) /\ Waiting(t)
        BY <2>1 DEF Stage, Followed, Reading, Result, Waiting
    <2>3. HasCell(call[t]) => Access(t).sel \in DOMAIN sel /\ CellOf(call[t]) \in DOMAIN count
        BY <1>3, <1>4, <1>5
    <2>4. Selected(t)
        BY <2>1, <2>3 DEF Selected, InWindow
    <2> QED
        BY <2>2, <2>4 DEF ThreadInv
<1> QED
    BY <1>7, <1>8, <1>9, <1>10 DEF StatInv

\* A step that changes no variable.
LEMMA StatStutter ==
    ASSUME StatInv, UNCHANGED vars
    PROVE  StatInv'
<1>1. UNCHANGED <<call, pc, nth, got, sel, count, linked, moves, at, still, ready>>
    BY DEF vars
<1>2. CallType'
    BY <1>1 DEF StatInv, CallType
<1>3. CountInv'
    BY <1>1, SameCounters DEF StatInv
<1>4. Exclusive'
    <2>1. \A v \in Threads : Access(v)' = Access(v)
        BY <1>1, SameCall
    <2> QED
        BY <1>1, <2>1 DEF StatInv, Exclusive, InWindow
<1>5. \A u \in Threads : ThreadInv(u)'
    BY <1>1, Undisturbed DEF StatInv
<1> QED
    BY <1>2, <1>3, <1>4, <1>5 DEF StatInv

\* Every step keeps the invariant.
LEMMA StatNext ==
    ASSUME StatInv, [Next]_vars
    PROVE  StatInv'
<1>1. CASE UNCHANGED vars
    BY <1>1, StatStutter
<1>2. CASE Returned
    BY <1>2, StatStutter DEF Returned
<1>3. ASSUME NEW t \in Threads, Step(t)
      PROVE  StatInv'
    BY <1>3, CallStep, SelectStep, ReadStep, ClearStep, LookUpStep, PollingStep, SleepStep DEF Step
<1>4. ASSUME NEW t \in Threads, IoFails(t) \/ CallbackFails(t)
      PROVE  StatInv'
    BY <1>4, IoFailsStep
<1>5. ASSUME NEW c \in DOMAIN count, Move(c)
      PROVE  StatInv'
    BY <1>5, MoveStep
<1>6. ASSUME NEW dir \in Directions, NEW field \in IdFields, Relink(dir, field)
      PROVE  StatInv'
    BY <1>6, RelinkStep
<1> QED
    BY <1>1, <1>2, <1>3, <1>4, <1>5, <1>6 DEF Next

\* What every state of the program satisfies: the windows are kept apart, a
\* value put together so far is one the counter had during the call, and a
\* condition that has held since the last look still holds.
THEOREM StatReachable == Spec => []StatInv
<1>1. Init => StatInv
    BY StatInit
<1>2. StatInv /\ [Next]_vars => StatInv'
    BY StatNext
<1> QED
    BY <1>1, <1>2, PTL DEF Spec

\* A byte or frame counter that a call returns is never behind the hardware's
\* count at the start of the call (xpcie_fpga_get_chain_bytes and its like).
THEOREM CountersNeverUnderReport == Spec => []NeverUnderReports
<1>1. StatInv => NeverUnderReports
    BY DEF StatInv, ThreadInv, Result, NeverUnderReports
<1> QED
    BY <1>1, StatReachable, PTL

\* A value that does not move during a call is returned as it is: the call
\* reads the counter of its own lane, kind and channel (the select registers
\* and windows of libxpcie_chain.c and the libraries beside it).
THEOREM CallsReadTheirOwnCounter == Spec => []ReadsOwnCounter
<1>1. StatInv => ReadsOwnCounter
    BY DEF StatInv, ThreadInv, Result, ReadsOwnCounter
<1> QED
    BY <1>1, StatReachable, PTL

\* A polling call reports no timeout when its condition has held since its
\* last interval ended (__fpga_common_polling).
THEOREM NoWaitMissed == Spec => []WaitMissesNothing
<1>1. StatInv => WaitMissesNothing
    BY DEF StatInv, ThreadInv, Waiting, WaitMissesNothing
<1> QED
    BY <1>1, StatReachable, PTL
=============================================================================
