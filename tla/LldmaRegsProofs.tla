--------------------------- MODULE LldmaRegsProofs ---------------------------
(***************************************************************************)
(* Proofs about LldmaRegs, for any number of callers, channels and         *)
(* descriptors, and (in the last part) about the error registers, ErrRegs. *)
(*                                                                         *)
(* The accesses a call has left are looked at as a set: what a start must  *)
(* write is either written or left to do, and nothing left to do would     *)
(* write anything else.  The order matters in one place only, CH_SEL: it   *)
(* names the channel of the call, or is the next register to be written,   *)
(* or another call has written it since.                                   *)
(***************************************************************************)
EXTENDS LldmaRegs, ErrRegs, TLAPS

Ops == {"start", "stop", "release"}
Words == {"off", "clear", "host"} \cup Open \cup D2d
Values == Channels \cup {None} \cup Words
Names == AllRegs \cup {"sel", "heads", "poll"}

\* The values a register can be given.
ValuesOf(r) ==
    IF r = "ctrl0" THEN {"off", "clear"} \cup Open
    ELSE IF r = "ctrl1" THEN {"host"} \cup D2d
    ELSE Channels \cup {None}

Accesses ==
    {a \in Names \X Values :
        /\ a[1] = "sel" => a[2] \in Channels
        /\ a[1] \in AllRegs => a[2] \in ValuesOf(a[1])}

\* The accesses of a sequence.
InSeq(s) == {s[i] : i \in 1 .. Len(s)}

-----------------------------------------------------------------------------
(* Sequences and the sets of their elements.                               *)

LEMMA InConcat ==
    ASSUME NEW S, NEW s \in Seq(S), NEW t \in Seq(S)
    PROVE  s \o t \in Seq(S) /\ InSeq(s \o t) = InSeq(s) \cup InSeq(t)
<1>1. s \o t \in Seq(S) /\ Len(s \o t) = Len(s) + Len(t)
    OBVIOUS
<1>2. \A i \in 1 .. Len(s) : (s \o t)[i] = s[i]
    OBVIOUS
<1>3. \A i \in 1 .. Len(t) : (s \o t)[Len(s) + i] = t[i]
    OBVIOUS
<1>4. Len(s) \in Nat /\ Len(t) \in Nat
    OBVIOUS
<1>5. ASSUME NEW i \in 1 .. Len(s \o t)
      PROVE  (s \o t)[i] \in InSeq(s) \cup InSeq(t)
    <2>1. CASE i <= Len(s)
        <3>1. i \in 1 .. Len(s)
            BY <2>1, <1>4, <1>1
        <3> QED
            BY <3>1, <1>2 DEF InSeq
    <2>2. CASE ~ (i <= Len(s))
        <3>1. i - Len(s) \in 1 .. Len(t) /\ i = Len(s) + (i - Len(s))
            BY <2>2, <1>4, <1>1
        <3> QED
            BY <3>1, <1>3 DEF InSeq
    <2> QED
        BY <2>1, <2>2
<1>6. ASSUME NEW i \in 1 .. Len(s)
      PROVE  s[i] \in InSeq(s \o t)
    <2>1. i \in 1 .. Len(s \o t)
        BY <1>1, <1>4
    <2> QED
        BY <2>1, <1>2 DEF InSeq
<1>7. ASSUME NEW i \in 1 .. Len(t)
      PROVE  t[i] \in InSeq(s \o t)
    <2>1. Len(s) + i \in 1 .. Len(s \o t)
        BY <1>1, <1>4
    <2> QED
        BY <2>1, <1>3 DEF InSeq
<1>8. InSeq(s \o t) \subseteq InSeq(s) \cup InSeq(t)
    BY <1>5 DEF InSeq
<1>9. InSeq(s) \subseteq InSeq(s \o t) /\ InSeq(t) \subseteq InSeq(s \o t)
    BY <1>6, <1>7 DEF InSeq
<1> QED
    BY <1>1, <1>8, <1>9

LEMMA InTail ==
    ASSUME NEW S, NEW s \in Seq(S), s /= <<>>
    PROVE  /\ Tail(s) \in Seq(S)
           /\ Head(s) \in S
           /\ Head(s) \in InSeq(s)
           /\ InSeq(s) = {Head(s)} \cup InSeq(Tail(s))
<1>1. Len(s) \in Nat /\ Len(s) >= 1 /\ Len(Tail(s)) = Len(s) - 1 /\ Tail(s) \in Seq(S)
    OBVIOUS
<1>2. Head(s) = s[1] /\ s[1] \in S
    BY <1>1
<1>3. \A i \in 1 .. Len(Tail(s)) : Tail(s)[i] = s[i + 1]
    OBVIOUS
<1>4. Head(s) \in InSeq(s)
    <2>1. 1 \in 1 .. Len(s)
        BY <1>1
    <2> QED
        BY <2>1, <1>2 DEF InSeq
<1>5. ASSUME NEW i \in 1 .. Len(s)
      PROVE  s[i] \in {Head(s)} \cup InSeq(Tail(s))
    <2>1. CASE i = 1
        BY <2>1, <1>2
    <2>2. CASE i /= 1
        <3>1. i - 1 \in 1 .. Len(Tail(s)) /\ (i - 1) + 1 = i
            BY <2>2, <1>1
        <3> QED
            BY <3>1, <1>3 DEF InSeq
    <2> QED
        BY <2>1, <2>2
<1>6. ASSUME NEW i \in 1 .. Len(Tail(s))
      PROVE  Tail(s)[i] \in InSeq(s)
    <2>1. i + 1 \in 1 .. Len(s)
        BY <1>1
    <2> QED
        BY <2>1, <1>3 DEF InSeq
<1>7. InSeq(s) \subseteq {Head(s)} \cup InSeq(Tail(s))
    BY <1>5 DEF InSeq
<1>8. InSeq(Tail(s)) \subseteq InSeq(s)
    BY <1>6 DEF InSeq
<1> QED
    BY <1>1, <1>2, <1>4, <1>7, <1>8

LEMMA InEmpty == ASSUME NEW S PROVE <<>> \in Seq(S) /\ InSeq(<<>>) = {}
<1>1. Len(<<>>) = 0 /\ 1 .. 0 = {}
    OBVIOUS
<1> QED
    BY <1>1 DEF InSeq

LEMMA InOne ==
    ASSUME NEW S, NEW a \in S
    PROVE  <<a>> \in Seq(S) /\ InSeq(<<a>>) = {a}
<1>1. Len(<<a>>) = 1 /\ 1 .. 1 = {1}
    OBVIOUS
<1>2. InSeq(<<a>>) = {a}
    BY <1>1 DEF InSeq
<1> QED
    BY <1>2

LEMMA InTwo ==
    ASSUME NEW S, NEW a \in S, NEW b \in S
    PROVE  <<a, b>> \in Seq(S) /\ InSeq(<<a, b>>) = {a, b}
<1>1. Len(<<a, b>>) = 2 /\ 1 .. 2 = {1, 2}
    OBVIOUS
<1>2. InSeq(<<a, b>>) = {a, b}
    BY <1>1 DEF InSeq
<1> QED
    BY <1>2

LEMMA InThree ==
    ASSUME NEW S, NEW a \in S, NEW b \in S, NEW c \in S
    PROVE  <<a, b, c>> \in Seq(S) /\ InSeq(<<a, b, c>>) = {a, b, c}
<1>1. Len(<<a, b, c>>) = 3 /\ 1 .. 3 = {1, 2, 3}
    OBVIOUS
<1>2. InSeq(<<a, b, c>>) = {a, b, c}
    BY <1>1 DEF InSeq
<1> QED
    BY <1>2

LEMMA InFour ==
    ASSUME NEW S, NEW a \in S, NEW b \in S, NEW c \in S, NEW d \in S
    PROVE  <<a, b, c, d>> \in Seq(S) /\ InSeq(<<a, b, c, d>>) = {a, b, c, d}
<1>1. Len(<<a, b, c, d>>) = 4 /\ 1 .. 4 = {1, 2, 3, 4}
    OBVIOUS
<1>2. InSeq(<<a, b, c, d>>) = {a, b, c, d}
    BY <1>1 DEF InSeq
<1> QED
    BY <1>2

LEMMA HeadConcat ==
    ASSUME NEW S, NEW s \in Seq(S), NEW t \in Seq(S)
    PROVE  /\ s /= <<>> => s \o t /= <<>> /\ Head(s \o t) = Head(s)
           /\ <<>> \o t = t
<1>1. ASSUME s /= <<>>
      PROVE  s \o t /= <<>> /\ Head(s \o t) = Head(s)
    <2>1. Len(s) >= 1 /\ Len(s) \in Nat /\ Len(t) \in Nat /\ Len(s \o t) = Len(s) + Len(t)
        BY <1>1
    <2>2. s \o t /= <<>>
        BY <2>1
    <2>3. (s \o t)[1] = s[1]
        BY <2>1
    <2> QED
        BY <2>1, <2>2, <2>3, <1>1
<1>2. <<>> \o t = t
    OBVIOUS
<1> QED
    BY <1>1, <1>2

\* w is s followed by t.
IsJoin(w, s, t) == w = s \o t

LEMMA Joined ==
    ASSUME NEW w, NEW s, NEW t, IsJoin(w, s, t), s /= <<>>,
           s \in Seq(Accesses), t \in Seq(Accesses)
    PROVE  /\ w \in Seq(Accesses) /\ InSeq(w) = InSeq(s) \cup InSeq(t)
           /\ w /= <<>> /\ Head(w) = Head(s)
BY InConcat, HeadConcat DEF IsJoin
-----------------------------------------------------------------------------
(* What the calls have to do.                                              *)

\* The registers that a start for kind k sets, and the values it gives them.
SetOf(k) ==
    {"ctrl0"} \cup (IF k = "nw" THEN {}
                    ELSE {"addr_up", "addr_dn"}
                           \cup (IF k \in NoCid THEN {} ELSE {"q_ctrl", "ctrl1"})
                           \cup (IF k \in Buffered THEN BufRegs ELSE {}))

ValueOf(c, k, r) ==
    IF r = "ctrl0" THEN Enable(k) ELSE IF r = "ctrl1" THEN Mode(k) ELSE c

\* An access that the start of c for k may make, and one a stop may make.
StartAccess(c, k, a) ==
    /\ a[1] = "sel" => a[2] = c
    /\ a[1] \in SetOf(k) => a[2] = ValueOf(c, k, a[1])
    /\ a[1] /= "poll"

StopAccess(c, a) ==
    /\ a[1] = "sel" => a[2] = c
    /\ a[1] = "ctrl0" => a[2] \notin Open
    /\ a[1] /= "heads"

StartTodo(c, k) == IF k \in D2d THEN DevConnect(c, k) ELSE StartQueue(c, k)
StopTodo(c, k) == IF k \in D2d THEN DevDisconnect(c, k) ELSE StopQueue(c)

KindSet == {"host", "nw"} \cup D2d

LEMMA AccessTypes ==
    ASSUME NEW c \in Channels, NEW v \in Channels \cup {None}, NEW k
    PROVE  /\ Select(c) \in Accesses
           /\ \A r \in DataRegs : Write(r, v) \in Accesses
           /\ Write("ctrl1", Mode(k)) \in Accesses
           /\ Write("ctrl1", "host") \in Accesses
           /\ Write("ctrl0", Enable(k)) \in Accesses
           /\ Write("ctrl0", "off") \in Accesses
           /\ Write("ctrl0", "clear") \in Accesses
           /\ GetHeads \in Accesses
           /\ WaitDrain \in Accesses
<1> USE DEF Accesses, Names, Values, Words, Write, Select, AllRegs, ValuesOf
<1>1. Select(c) \in Accesses
    BY DEF DataRegs, BufRegs
<1>2. \A r \in DataRegs : Write(r, v) \in Accesses
    BY DEF DataRegs, BufRegs
<1>3. Mode(k) \in {"host"} \cup D2d /\ Enable(k) \in Open
    BY DEF Mode, Enable, Open
<1>4. Write("ctrl1", Mode(k)) \in Accesses /\ Write("ctrl1", "host") \in Accesses
    BY <1>3
<1>5. /\ Write("ctrl0", Enable(k)) \in Accesses /\ Write("ctrl0", "off") \in Accesses
      /\ Write("ctrl0", "clear") \in Accesses
    BY <1>3
<1>6. GetHeads \in Accesses /\ WaitDrain \in Accesses
    BY DEF GetHeads, WaitDrain, DataRegs, BufRegs
<1> QED
    BY <1>1, <1>2, <1>4, <1>5, <1>6

\* The parts that the calls are put together from.
LEMMA SetAddrIs ==
    ASSUME NEW c \in Channels
    PROVE  /\ SetAddr(c) \in Seq(Accesses)
           /\ InSeq(SetAddr(c)) = {Select(c), Write("addr_up", c), Write("addr_dn", c)}
           /\ SetAddr(c) /= <<>> /\ Head(SetAddr(c)) = Select(c)
<1>1. "addr_up" \in DataRegs /\ "addr_dn" \in DataRegs
    BY DEF DataRegs
<1>2. /\ Select(c) \in Accesses /\ Write("addr_up", c) \in Accesses
      /\ Write("addr_dn", c) \in Accesses
    BY <1>1, AccessTypes
<1>3. SetAddr(c) = <<Select(c), Write("addr_up", c), Write("addr_dn", c)>>
    BY DEF SetAddr
<1>4. SetAddr(c) \in Seq(Accesses)
    BY <1>2, <1>3
<1>5. InSeq(SetAddr(c)) = {Select(c), Write("addr_up", c), Write("addr_dn", c)}
    <2>1. InSeq(<<Select(c), Write("addr_up", c), Write("addr_dn", c)>>) = {Select(c), Write("addr_up", c), Write("addr_dn", c)}
        BY <1>2, InThree
    <2> QED
        BY <2>1, <1>3
<1>6. SetAddr(c) /= <<>> /\ Head(SetAddr(c)) = Select(c)
    BY <1>3
<1> QED
    BY <1>4, <1>5, <1>6

LEMMA SetCtrlIs ==
    ASSUME NEW c \in Channels, NEW k, k \notin NoCid
    PROVE  /\ SetCtrl(c, k) \in Seq(Accesses)
           /\ InSeq(SetCtrl(c, k)) = {Select(c), Write("q_ctrl", c), Write("ctrl1", Mode(k))}
           /\ SetCtrl(c, k) /= <<>> /\ Head(SetCtrl(c, k)) = Select(c)
<1>1. "q_ctrl" \in DataRegs
    BY DEF DataRegs
<1>2. /\ Select(c) \in Accesses /\ Write("q_ctrl", c) \in Accesses
      /\ Write("ctrl1", Mode(k)) \in Accesses
    BY <1>1, AccessTypes
<1>3. SetCtrl(c, k) = <<Select(c), Write("q_ctrl", c), Write("ctrl1", Mode(k))>>
    BY DEF SetCtrl
<1>4. SetCtrl(c, k) \in Seq(Accesses)
    BY <1>2, <1>3
<1>5. InSeq(SetCtrl(c, k)) = {Select(c), Write("q_ctrl", c), Write("ctrl1", Mode(k))}
    <2>1. InSeq(<<Select(c), Write("q_ctrl", c), Write("ctrl1", Mode(k))>>) = {Select(c), Write("q_ctrl", c), Write("ctrl1", Mode(k))}
        BY <1>2, InThree
    <2> QED
        BY <2>1, <1>3
<1>6. SetCtrl(c, k) /= <<>> /\ Head(SetCtrl(c, k)) = Select(c)
    BY <1>3
<1> QED
    BY <1>4, <1>5, <1>6

LEMMA SetBufIs ==
    ASSUME NEW v \in Channels \cup {None}, Channels /= {}
    PROVE  /\ SetBuf(v) \in Seq(Accesses)
           /\ InSeq(SetBuf(v)) = {Write("buf_dn", v), Write("buf_up", v), Write("buf_size", v)}
<1>1. "buf_dn" \in DataRegs /\ "buf_up" \in DataRegs /\ "buf_size" \in DataRegs
    BY DEF DataRegs, BufRegs
<1>2. /\ Write("buf_dn", v) \in Accesses /\ Write("buf_up", v) \in Accesses
      /\ Write("buf_size", v) \in Accesses
    BY <1>1, AccessTypes
<1>3. SetBuf(v) = <<Write("buf_dn", v), Write("buf_up", v), Write("buf_size", v)>>
    BY DEF SetBuf
<1>4. SetBuf(v) \in Seq(Accesses)
    BY <1>2, <1>3
<1>5. InSeq(SetBuf(v)) = {Write("buf_dn", v), Write("buf_up", v), Write("buf_size", v)}
    <2>1. InSeq(<<Write("buf_dn", v), Write("buf_up", v), Write("buf_size", v)>>) = {Write("buf_dn", v), Write("buf_up", v), Write("buf_size", v)}
        BY <1>2, InThree
    <2> QED
        BY <2>1, <1>3
<1> QED
    BY <1>4, <1>5

LEMMA StopQueueIs ==
    ASSUME NEW c \in Channels
    PROVE  /\ StopQueue(c) \in Seq(Accesses)
           /\ InSeq(StopQueue(c)) =
                {Select(c), Write("ctrl0", "off"), WaitDrain, Write("ctrl0", "clear")}
           /\ StopQueue(c) /= <<>> /\ Head(StopQueue(c)) = Select(c)
<1>1. /\ Select(c) \in Accesses /\ Write("ctrl0", "off") \in Accesses
      /\ WaitDrain \in Accesses /\ Write("ctrl0", "clear") \in Accesses
    BY AccessTypes
<1>2. StopQueue(c) = <<Select(c), Write("ctrl0", "off"), WaitDrain, Write("ctrl0", "clear")>>
    BY DEF StopQueue
<1>3. StopQueue(c) \in Seq(Accesses)
    BY <1>1, <1>2
<1>4. InSeq(StopQueue(c)) =
        {Select(c), Write("ctrl0", "off"), WaitDrain, Write("ctrl0", "clear")}
    <2>1. InSeq(<<Select(c), Write("ctrl0", "off"), WaitDrain, Write("ctrl0", "clear")>>) =
            {Select(c), Write("ctrl0", "off"), WaitDrain, Write("ctrl0", "clear")}
        BY <1>1, InFour
    <2> QED
        BY <2>1, <1>2
<1>5. StopQueue(c) /= <<>> /\ Head(StopQueue(c)) = Select(c)
    BY <1>2
<1> QED
    BY <1>3, <1>4, <1>5

\* A set of accesses that is enough to start c for k, and holds nothing else.
StartSet(c, k, R) ==
    /\ \A r \in SetOf(k) : Write(r, ValueOf(c, k, r)) \in R
    /\ \A a \in R : StartAccess(c, k, a)
    /\ k = "host" => GetHeads \in R

LEMMA EnableIs ==
    ASSUME NEW c \in Channels, NEW k
    PROVE  /\ <<Select(c), Write("ctrl0", Enable(k))>> \in Seq(Accesses)
           /\ InSeq(<<Select(c), Write("ctrl0", Enable(k))>>)
                = {Select(c), Write("ctrl0", Enable(k))}
           /\ <<Select(c), GetHeads, Write("ctrl0", Enable(k))>> \in Seq(Accesses)
           /\ InSeq(<<Select(c), GetHeads, Write("ctrl0", Enable(k))>>)
                = {Select(c), GetHeads, Write("ctrl0", Enable(k))}
<1>1. /\ Select(c) \in Accesses /\ Write("ctrl0", Enable(k)) \in Accesses
      /\ GetHeads \in Accesses
    BY AccessTypes
<1>2. InSeq(<<Select(c), Write("ctrl0", Enable(k))>>) = {Select(c), Write("ctrl0", Enable(k))}
    BY <1>1, InTwo
<1>3. InSeq(<<Select(c), GetHeads, Write("ctrl0", Enable(k))>>)
        = {Select(c), GetHeads, Write("ctrl0", Enable(k))}
    BY <1>1, InThree
<1> QED
    BY <1>1, <1>2, <1>3

LEMMA StartHost ==
    ASSUME NEW c \in Channels
    PROVE  /\ StartTodo(c, "host") \in Seq(Accesses)
           /\ StartTodo(c, "host") /= <<>> /\ Head(StartTodo(c, "host")) = Select(c)
           /\ StartSet(c, "host", InSeq(StartTodo(c, "host")))
<1> DEFINE A == SetAddr(c)
           B == SetCtrl(c, "host")
           E == <<Select(c), GetHeads, Write("ctrl0", Enable("host"))>>
<1>1. StartTodo(c, "host") = (A \o B) \o E
    BY DEF StartTodo, StartQueue, D2d
<1>n. "host" \notin NoCid
    BY DEF NoCid
<1>2. A \in Seq(Accesses) /\ B \in Seq(Accesses) /\ E \in Seq(Accesses)
    BY <1>n, SetAddrIs, SetCtrlIs, EnableIs
<1>3. /\ InSeq(A) = {Select(c), Write("addr_up", c), Write("addr_dn", c)}
      /\ InSeq(B) = {Select(c), Write("q_ctrl", c), Write("ctrl1", Mode("host"))}
      /\ InSeq(E) = {Select(c), GetHeads, Write("ctrl0", Enable("host"))}
      /\ A /= <<>> /\ Head(A) = Select(c)
    BY <1>n, SetAddrIs, SetCtrlIs, EnableIs
<1> HIDE DEF A, B, E
<1>pAB. PICK AB : IsJoin(AB, A, B)
    BY DEF IsJoin
<1>4. /\ AB \in Seq(Accesses) /\ InSeq(AB) = InSeq(A) \cup InSeq(B)
      /\ AB /= <<>> /\ Head(AB) = Select(c)
    <2>1. A \in Seq(Accesses) /\ B \in Seq(Accesses) /\ A /= <<>> /\ Head(A) = Select(c)
        BY <1>2, <1>3
    <2>2. /\ AB \in Seq(Accesses) /\ InSeq(AB) = InSeq(A) \cup InSeq(B)
          /\ AB /= <<>> /\ Head(AB) = Head(A)
        BY <2>1, <1>pAB, Joined
    <2> QED
        BY <2>1, <2>2
<1>pABE. PICK ABE : IsJoin(ABE, AB, E)
    BY DEF IsJoin
<1>5. /\ ABE \in Seq(Accesses) /\ InSeq(ABE) = InSeq(AB) \cup InSeq(E)
      /\ ABE /= <<>> /\ Head(ABE) = Select(c)
    <2>1. AB \in Seq(Accesses) /\ E \in Seq(Accesses) /\ AB /= <<>> /\ Head(AB) = Select(c)
        BY <1>2, <1>4
    <2>2. /\ ABE \in Seq(Accesses) /\ InSeq(ABE) = InSeq(AB) \cup InSeq(E)
          /\ ABE /= <<>> /\ Head(ABE) = Head(AB)
        BY <2>1, <1>pABE, Joined
    <2> QED
        BY <2>1, <2>2
<1>6. StartSet(c, "host", InSeq(A) \cup InSeq(B) \cup InSeq(E))
    BY <1>3 DEF StartSet, StartAccess, SetOf, ValueOf, Buffered, NoCid, BufRegs, Write, Select,
                GetHeads
<1>7. StartTodo(c, "host") = ABE
    BY <1>1, <1>pAB, <1>pABE DEF IsJoin
<1> QED
    BY <1>7, <1>4, <1>5, <1>6

LEMMA StartNw ==
    ASSUME NEW c \in Channels
    PROVE  /\ StartTodo(c, "nw") \in Seq(Accesses)
           /\ StartTodo(c, "nw") /= <<>> /\ Head(StartTodo(c, "nw")) = Select(c)
           /\ StartSet(c, "nw", InSeq(StartTodo(c, "nw")))
<1> DEFINE E == <<Select(c), GetHeads, Write("ctrl0", Enable("nw"))>>
<1>1. StartTodo(c, "nw") = <<>> \o E
    BY DEF StartTodo, StartQueue, D2d
<1>2. E \in Seq(Accesses) /\ InSeq(E) = {Select(c), GetHeads, Write("ctrl0", Enable("nw"))}
    BY EnableIs
<1>3. E /= <<>> /\ Head(E) = Select(c)
    OBVIOUS
<1> HIDE DEF E
<1>4. <<>> \o E = E
    BY <1>2
<1>5. StartSet(c, "nw", InSeq(E))
    BY <1>2 DEF StartSet, StartAccess, SetOf, ValueOf, Write, Select, GetHeads
<1> QED
    BY <1>1, <1>2, <1>3, <1>4, <1>5

LEMMA StartD2d ==
    ASSUME NEW c \in Channels, NEW k \in D2d
    PROVE  /\ StartTodo(c, k) \in Seq(Accesses)
           /\ StartTodo(c, k) /= <<>> /\ Head(StartTodo(c, k)) = Select(c)
           /\ StartSet(c, k, InSeq(StartTodo(c, k)))
<1> DEFINE A == SetCtrl(c, k)
           B == SetAddr(c)
           C == IF k \in Buffered THEN SetBuf(c) ELSE <<>>
           E == <<Select(c), Write("ctrl0", Enable(k))>>
           ofA == IF k \in NoCid THEN {}
                  ELSE {Select(c), Write("q_ctrl", c), Write("ctrl1", Mode(k))}
           ofC == IF k \in Buffered
                  THEN {Write("buf_dn", c), Write("buf_up", c), Write("buf_size", c)} ELSE {}
<1>1. StartTodo(c, k) = ((A \o B) \o C) \o E
    BY DEF StartTodo, DevConnect
<1>2. /\ B \in Seq(Accesses) /\ InSeq(B) = {Select(c), Write("addr_up", c), Write("addr_dn", c)}
      /\ B /= <<>> /\ Head(B) = Select(c)
      /\ E \in Seq(Accesses) /\ InSeq(E) = {Select(c), Write("ctrl0", Enable(k))}
    BY SetAddrIs, EnableIs
<1>3. /\ A \in Seq(Accesses) /\ InSeq(A) = ofA
      /\ k \in NoCid => A = <<>>
      /\ k \notin NoCid => A /= <<>> /\ Head(A) = Select(c)
    <2>1. CASE k \in NoCid
        <3>1. A = <<>>
            BY <2>1 DEF SetCtrl
        <3> QED
            BY <2>1, <3>1, InEmpty
    <2>2. CASE k \notin NoCid
        BY <2>2, SetCtrlIs
    <2> QED
        BY <2>1, <2>2
<1>4. C \in Seq(Accesses) /\ InSeq(C) = ofC
    <2>1. CASE k \in Buffered
        BY <2>1, SetBufIs
    <2>2. CASE k \notin Buffered
        BY <2>2, InEmpty
    <2> QED
        BY <2>1, <2>2
<1>5. StartSet(c, k, ofA \cup InSeq(B) \cup ofC \cup InSeq(E))
    <2>1. PICK R : R = ofA \cup InSeq(B) \cup ofC \cup InSeq(E)
        OBVIOUS
    <2>2. k /= "nw" /\ k /= "host"
        BY DEF D2d
    <2>3. Write("addr_up", c) \in R /\ Write("addr_dn", c) \in R /\ Write("ctrl0", Enable(k)) \in R
        BY <1>2, <2>1
    <2>4. k \notin NoCid => Write("q_ctrl", c) \in R /\ Write("ctrl1", Mode(k)) \in R
        BY <2>1
    <2>5. k \in Buffered => \A r \in BufRegs : Write(r, c) \in R
        BY <2>1 DEF BufRegs
    <2>6. \A r \in SetOf(k) : Write(r, ValueOf(c, k, r)) \in R
        BY <2>2, <2>3, <2>4, <2>5 DEF SetOf, ValueOf, BufRegs
    <2>7. \A a \in ofA : StartAccess(c, k, a)
        BY DEF StartAccess, SetOf, ValueOf, BufRegs, Write, Select
    <2>8. \A a \in InSeq(B) \cup InSeq(E) : StartAccess(c, k, a)
        BY <1>2 DEF StartAccess, SetOf, ValueOf, BufRegs, Write, Select
    <2>9. \A a \in ofC : StartAccess(c, k, a)
        BY DEF StartAccess, SetOf, ValueOf, BufRegs, Write, Select
    <2>10. \A a \in R : StartAccess(c, k, a)
        BY <2>1, <2>7, <2>8, <2>9
    <2>11. StartSet(c, k, R)
        BY <2>2, <2>6, <2>10 DEF StartSet
    <2> QED
        BY <2>1, <2>11
<1>6. PICK sA, sC : sA = ofA /\ sC = ofC
    OBVIOUS
<1>7. InSeq(A) = sA /\ InSeq(C) = sC /\ StartSet(c, k, sA \cup InSeq(B) \cup sC \cup InSeq(E))
    BY <1>3, <1>4, <1>5, <1>6
<1> HIDE DEF A, B, C, E, ofA, ofC
<1>8. PICK AB : IsJoin(AB, A, B)
    BY DEF IsJoin
<1>9. /\ AB \in Seq(Accesses) /\ InSeq(AB) = sA \cup InSeq(B)
      /\ AB /= <<>> /\ Head(AB) = Select(c)
    <2>1. CASE k \in NoCid
        <3>1. AB = B
            BY <2>1, <1>2, <1>3, <1>8, HeadConcat DEF IsJoin
        <3>2. sA = {}
            BY <2>1, <1>3, <1>7, InEmpty
        <3> QED
            BY <3>1, <3>2, <1>2
    <2>2. CASE k \notin NoCid
        <3>1. A \in Seq(Accesses) /\ B \in Seq(Accesses) /\ A /= <<>> /\ Head(A) = Select(c)
            BY <2>2, <1>2, <1>3
        <3>2. /\ AB \in Seq(Accesses) /\ InSeq(AB) = InSeq(A) \cup InSeq(B)
              /\ AB /= <<>> /\ Head(AB) = Head(A)
            BY <3>1, <1>8, Joined
        <3> QED
            BY <3>1, <3>2, <1>7
    <2> QED
        BY <2>1, <2>2
<1>10. PICK ABC : IsJoin(ABC, AB, C)
    BY DEF IsJoin
<1>11. /\ ABC \in Seq(Accesses) /\ InSeq(ABC) = InSeq(AB) \cup sC
       /\ ABC /= <<>> /\ Head(ABC) = Select(c)
    <2>1. AB \in Seq(Accesses) /\ C \in Seq(Accesses) /\ AB /= <<>> /\ Head(AB) = Select(c)
        BY <1>4, <1>9
    <2>2. /\ ABC \in Seq(Accesses) /\ InSeq(ABC) = InSeq(AB) \cup InSeq(C)
          /\ ABC /= <<>> /\ Head(ABC) = Head(AB)
        BY <2>1, <1>10, Joined
    <2> QED
        BY <2>1, <2>2, <1>7
<1>12. PICK ABCE : IsJoin(ABCE, ABC, E)
    BY DEF IsJoin
<1>13. /\ ABCE \in Seq(Accesses) /\ InSeq(ABCE) = InSeq(ABC) \cup InSeq(E)
       /\ ABCE /= <<>> /\ Head(ABCE) = Select(c)
    <2>1. ABC \in Seq(Accesses) /\ E \in Seq(Accesses) /\ ABC /= <<>> /\ Head(ABC) = Select(c)
        BY <1>2, <1>11
    <2>2. /\ ABCE \in Seq(Accesses) /\ InSeq(ABCE) = InSeq(ABC) \cup InSeq(E)
          /\ ABCE /= <<>> /\ Head(ABCE) = Head(ABC)
        BY <2>1, <1>12, Joined
    <2> QED
        BY <2>1, <2>2
<1>14. StartTodo(c, k) = ABCE
    BY <1>1, <1>8, <1>10, <1>12 DEF IsJoin
<1>15. StartSet(c, k, InSeq(ABCE))
    BY <1>7, <1>9, <1>11, <1>13
<1> QED
    BY <1>13, <1>14, <1>15

LEMMA StartTodoIs ==
    ASSUME NEW c \in Channels, NEW k \in KindSet
    PROVE  /\ StartTodo(c, k) \in Seq(Accesses)
           /\ StartTodo(c, k) /= <<>> /\ Head(StartTodo(c, k)) = Select(c)
           /\ StartSet(c, k, InSeq(StartTodo(c, k)))
BY StartHost, StartNw, StartD2d DEF KindSet

\* A set of accesses that is enough to stop c, and holds nothing else.
StopSet(c, R) ==
    /\ Write("ctrl0", "clear") \in R
    /\ \A a \in R : StopAccess(c, a)

LEMMA StopTodoIs ==
    ASSUME NEW c \in Channels, NEW k
    PROVE  /\ StopTodo(c, k) \in Seq(Accesses)
           /\ StopTodo(c, k) /= <<>> /\ Head(StopTodo(c, k)) = Select(c)
           /\ StopSet(c, InSeq(StopTodo(c, k)))
           /\ StopSet(c, InSeq(StopQueue(c)))
<1> DEFINE A == <<Select(c)>>
           B == StopQueue(c)
           C == <<Write("q_ctrl", None), Write("ctrl1", "host"), Write("addr_up", None),
                  Write("addr_dn", None)>>
           E == IF k \in Buffered THEN SetBuf(None) ELSE <<>>
<1>1. k \in D2d => StopTodo(c, k) = ((A \o B) \o C) \o E
    BY DEF StopTodo, DevDisconnect
<1>2. A \in Seq(Accesses) /\ InSeq(A) = {Select(c)} /\ A /= <<>> /\ Head(A) = Select(c)
    <2>1. Select(c) \in Accesses
        BY AccessTypes
    <2>2. InSeq(<<Select(c)>>) = {Select(c)} /\ <<Select(c)>> \in Seq(Accesses)
        BY <2>1, InOne
    <2> QED
        BY <2>2
<1>3. /\ B \in Seq(Accesses) /\ B /= <<>> /\ Head(B) = Select(c)
      /\ InSeq(B) = {Select(c), Write("ctrl0", "off"), WaitDrain, Write("ctrl0", "clear")}
    BY StopQueueIs
<1>4. /\ C \in Seq(Accesses)
      /\ InSeq(C) = {Write("q_ctrl", None), Write("ctrl1", "host"), Write("addr_up", None),
                     Write("addr_dn", None)}
    <2>1. "q_ctrl" \in DataRegs /\ "addr_up" \in DataRegs /\ "addr_dn" \in DataRegs
        BY DEF DataRegs
    <2>2. /\ Write("q_ctrl", None) \in Accesses /\ Write("ctrl1", "host") \in Accesses
          /\ Write("addr_up", None) \in Accesses /\ Write("addr_dn", None) \in Accesses
        BY <2>1, AccessTypes
    <2>3. /\ <<Write("q_ctrl", None), Write("ctrl1", "host"), Write("addr_up", None),
               Write("addr_dn", None)>> \in Seq(Accesses)
          /\ InSeq(<<Write("q_ctrl", None), Write("ctrl1", "host"), Write("addr_up", None),
                     Write("addr_dn", None)>>)
               = {Write("q_ctrl", None), Write("ctrl1", "host"), Write("addr_up", None),
                  Write("addr_dn", None)}
        BY <2>2, InFour
    <2> QED
        BY <2>3
<1>5. /\ E \in Seq(Accesses)
      /\ InSeq(E) \subseteq {Write("buf_dn", None), Write("buf_up", None),
                             Write("buf_size", None)}
    <2>1. Channels /= {}
        OBVIOUS
    <2>2. CASE k \in Buffered
        BY <2>1, <2>2, SetBufIs
    <2>3. CASE k \notin Buffered
        BY <2>3, InEmpty
    <2> QED
        BY <2>2, <2>3
<1>6. StopSet(c, InSeq(B))
    BY <1>3 DEF StopSet, StopAccess, Write, Select, WaitDrain, Open
<1>7. StopSet(c, InSeq(A) \cup InSeq(B) \cup InSeq(C) \cup InSeq(E))
    <2>1. \A a \in InSeq(A) : StopAccess(c, a)
        BY <1>2 DEF StopAccess, Select, Write
    <2>2. \A a \in InSeq(C) : StopAccess(c, a)
        BY <1>4 DEF StopAccess, Select, Write
    <2>3. \A a \in InSeq(E) : StopAccess(c, a)
        BY <1>5 DEF StopAccess, Select, Write
    <2> QED
        BY <1>6, <2>1, <2>2, <2>3 DEF StopSet
<1>8. k \notin D2d => StopTodo(c, k) = B
    BY DEF StopTodo
<1> HIDE DEF A, B, C, E
<1>9. CASE k \in D2d
    <2>1. PICK AB : IsJoin(AB, A, B)
        BY DEF IsJoin
    <2>2. /\ AB \in Seq(Accesses) /\ InSeq(AB) = InSeq(A) \cup InSeq(B)
          /\ AB /= <<>> /\ Head(AB) = Head(A)
        BY <1>2, <1>3, <2>1, Joined
    <2>3. PICK ABC : IsJoin(ABC, AB, C)
        BY DEF IsJoin
    <2>4. /\ ABC \in Seq(Accesses) /\ InSeq(ABC) = InSeq(AB) \cup InSeq(C)
          /\ ABC /= <<>> /\ Head(ABC) = Head(AB)
        BY <1>4, <2>2, <2>3, Joined
    <2>5. PICK ABCE : IsJoin(ABCE, ABC, E)
        BY DEF IsJoin
    <2>6. /\ ABCE \in Seq(Accesses) /\ InSeq(ABCE) = InSeq(ABC) \cup InSeq(E)
          /\ ABCE /= <<>> /\ Head(ABCE) = Head(ABC)
        BY <1>5, <2>4, <2>5, Joined
    <2>7. StopTodo(c, k) = ABCE
        BY <1>1, <1>9, <2>1, <2>3, <2>5 DEF IsJoin
    <2>8. Head(ABCE) = Select(c)
        BY <1>2, <2>2, <2>4, <2>6
    <2>9. StopSet(c, InSeq(ABCE))
        BY <1>7, <2>2, <2>4, <2>6
    <2>10. StopSet(c, InSeq(StopQueue(c)))
        BY <1>6 DEF B
    <2> QED
        BY <2>6, <2>7, <2>8, <2>9, <2>10
<1>10. CASE k \notin D2d
    BY <1>10, <1>3, <1>6, <1>8 DEF B
<1> QED
    BY <1>9, <1>10

LEMMA ScanAllIs ==
    /\ ScanAll \in Seq(Accesses)
    /\ \A a \in InSeq(ScanAll) : a[1] = "sel"
<1>1. Num \in Nat
    BY LldmaRegsAssumption
<1>2. \A i \in 1 .. Num : i - 1 \in Channels
    BY <1>1 DEF Channels
<1>3. \A i \in 1 .. Num : Select(i - 1) \in Accesses /\ Select(i - 1)[1] = "sel"
    <2>1. ASSUME NEW i \in 1 .. Num
          PROVE  Select(i - 1) \in Accesses
        <3>1. PICK c \in Channels : c = i - 1
            BY <1>2
        <3> QED
            BY <3>1, AccessTypes
    <2>2. \A i \in 1 .. Num : Select(i - 1)[1] = "sel"
        BY DEF Select, Write
    <2> QED
        BY <2>1, <2>2
<1>4. ScanAll \in Seq(Accesses) /\ Len(ScanAll) = Num
    BY <1>1, <1>3 DEF ScanAll
<1>5. \A i \in 1 .. Num : ScanAll[i][1] = "sel"
    BY <1>3 DEF ScanAll
<1> QED
    BY <1>4, <1>5 DEF InSeq

-----------------------------------------------------------------------------
(* Types, and whose a channel is while a call works on it.                 *)

CallRec == [op : {"idle", "scan"} \cup Ops, chid : Channels \cup {None},
            todo : Seq(Accesses), ok : BOOLEAN]
UseRec == [st : {"free", "moving", "started", "stuck"}, kind : Kinds \cup {None}]

Typed ==
    /\ sel \in Channels
    /\ regs \in [Channels -> [AllRegs -> Values]]
    /\ \A c \in Channels, r \in AllRegs : regs[c][r] \in ValuesOf(r)
    /\ head \in [Channels -> 0 .. Size - 1]
    /\ que \in [Channels -> 0 .. Size - 1]
    /\ use \in [Channels -> UseRec]
    /\ call \in [Callers -> CallRec]
    /\ lost \subseteq Callers /\ astray \subseteq Channels \cup {None}

\* A channel that a call works on is moving, and no other call works on it.
CallsInv ==
    /\ \A p \in Callers : call[p].op = "idle" => call[p].todo = <<>>
    /\ \A p \in Callers : call[p].op \in Ops =>
          call[p].chid \in Channels /\ use[call[p].chid].st = "moving"
    /\ \A p, q \in Callers :
          /\ p /= q
          /\ call[p].op \in Ops
          /\ call[q].op \in Ops
          => call[p].chid /= call[q].chid

LEMMA ModRange == \A n \in Nat : (n % Size) \in 0 .. Size - 1
BY LldmaRegsAssumption

LEMMA TypedIsTypeOK == Typed /\ CallsInv => TypeOK
<1> SUFFICES ASSUME Typed, CallsInv PROVE TypeOK
    OBVIOUS
<1>1. ASSUME NEW c \in Channels
      PROVE  /\ \A r \in DataRegs : regs[c][r] \in Channels \cup {None}
             /\ regs[c]["ctrl0"] \in {"off", "clear"} \cup Open
             /\ regs[c]["ctrl1"] \in {"host"} \cup D2d
    <2>1. \A r \in AllRegs : regs[c][r] \in ValuesOf(r)
        BY DEF Typed
    <2>2. \A r \in DataRegs : r \in AllRegs /\ r /= "ctrl0" /\ r /= "ctrl1"
        BY DEF AllRegs, DataRegs, BufRegs
    <2>3. "ctrl0" \in AllRegs /\ "ctrl1" \in AllRegs
        BY DEF AllRegs
    <2> QED
        BY <2>1, <2>2, <2>3 DEF ValuesOf
<1>2. ASSUME NEW p \in Callers
      PROVE  /\ call[p].op \in {"idle", "start", "stop", "release", "scan"}
             /\ call[p].op \in {"start", "stop", "release"} =>
                   call[p].chid \in Channels /\ use[call[p].chid].st = "moving"
    BY DEF Typed, CallsInv, CallRec, Ops
<1> QED
    BY <1>1, <1>2 DEF TypeOK, Typed, UseRec

LEMMA InitTyped == Init => Typed /\ CallsInv
<1> SUFFICES ASSUME Init PROVE Typed /\ CallsInv
    OBVIOUS
<1>1. /\ sel \in Channels /\ Size \in Nat \ {0}
      /\ regs = [c \in Channels |-> [r \in AllRegs |->
           CASE r = "ctrl0" -> "off" [] r = "ctrl1" -> "host" [] OTHER -> None]]
    BY LldmaRegsAssumption DEF Init
<1>2. ASSUME NEW c \in Channels, NEW r \in AllRegs
      PROVE  regs[c][r] \in ValuesOf(r) /\ regs[c][r] \in Values
    <2>1. CASE r = "ctrl0"
        BY <2>1, <1>1 DEF ValuesOf, Values, Words
    <2>2. CASE r = "ctrl1"
        BY <2>2, <1>1 DEF ValuesOf, Values, Words
    <2>3. CASE r /= "ctrl0" /\ r /= "ctrl1"
        BY <2>3, <1>1 DEF ValuesOf, Values, Words
    <2> QED
        BY <2>1, <2>2, <2>3
<1>3. regs \in [Channels -> [AllRegs -> Values]]
    BY <1>1, <1>2
<1>4. head \in [Channels -> 0 .. Size - 1] /\ que \in [Channels -> 0 .. Size - 1]
    BY <1>1 DEF Init
<1>5. use \in [Channels -> UseRec] /\ lost = {} /\ astray = {}
    BY DEF Init, UseRec
<1>6. call \in [Callers -> CallRec] /\ \A p \in Callers : call[p] = Idle
    BY InEmpty DEF Init, Idle, CallRec
<1> QED
    BY <1>1, <1>2, <1>3, <1>4, <1>5, <1>6 DEF Typed, CallsInv, Idle, Ops

\* What Next1 does: the first access is gone, the other calls go on.
LEMMA Advance ==
    ASSUME Typed, NEW p \in Callers, call[p].todo /= <<>>, Next1(p)
    PROVE  /\ call' \in [Callers -> CallRec]
           /\ call'[p].todo = Tail(call[p].todo)
           /\ call'[p].op = call[p].op /\ call'[p].chid = call[p].chid
           /\ \A q \in Callers : q /= p => call'[q] = call[q]
           /\ Head(call[p].todo) \in Accesses
           /\ Head(call[p].todo) \in InSeq(call[p].todo)
           /\ InSeq(call[p].todo) = {Head(call[p].todo)} \cup InSeq(Tail(call[p].todo))
<1>1. call[p].todo \in Seq(Accesses) /\ call[p] \in CallRec
    BY DEF Typed, CallRec
<1>2. /\ Tail(call[p].todo) \in Seq(Accesses) /\ Head(call[p].todo) \in Accesses
      /\ Head(call[p].todo) \in InSeq(call[p].todo)
      /\ InSeq(call[p].todo) = {Head(call[p].todo)} \cup InSeq(Tail(call[p].todo))
    BY <1>1, InTail
<1>3. call' = [call EXCEPT ![p].todo = Tail(call[p].todo)]
    BY DEF Next1
<1>4. call \in [Callers -> CallRec]
    BY DEF Typed
<1>5. PICK x : x = [call[p] EXCEPT !.todo = Tail(call[p].todo)]
    OBVIOUS
<1>6. /\ x \in CallRec /\ x.todo = Tail(call[p].todo) /\ x.op = call[p].op
      /\ x.chid = call[p].chid
    BY <1>1, <1>2, <1>5 DEF CallRec
<1>7. call' = [call EXCEPT ![p] = x]
    BY <1>3, <1>4, <1>5
<1>8. call' \in [Callers -> CallRec] /\ call'[p] = x
    BY <1>4, <1>6, <1>7
<1>9. \A q \in Callers : q /= p => call'[q] = call[q]
    BY <1>4, <1>7
<1> QED
    BY <1>2, <1>6, <1>8, <1>9

\* A step that leaves the uses and only shortens what a call has left.
LEMMA AdvanceKeepsCalls ==
    ASSUME Typed, CallsInv, NEW p \in Callers, call[p].todo /= <<>>, Next1(p), use' = use
    PROVE  CallsInv'
<1>1. /\ \A q \in Callers : call'[q].op = call[q].op /\ call'[q].chid = call[q].chid
      /\ \A q \in Callers : q /= p => call'[q] = call[q]
    BY Advance
<1>2. call[p].op /= "idle"
    BY DEF CallsInv
<1>3. \A q \in Callers : call'[q].op = "idle" => call'[q].todo = <<>>
    BY <1>1, <1>2 DEF CallsInv
<1>4. \A q \in Callers : call'[q].op \in Ops =>
          call'[q].chid \in Channels /\ use'[call'[q].chid].st = "moving"
    BY <1>1 DEF CallsInv
<1>5. ASSUME NEW q \in Callers, NEW s \in Callers, q /= s,
             call'[q].op \in Ops, call'[s].op \in Ops
      PROVE  call'[q].chid /= call'[s].chid
    BY <1>1, <1>5 DEF CallsInv
<1> QED
    BY <1>3, <1>4, <1>5 DEF CallsInv

\* How a call on channel c begins.
Begins(p, op, c, todo) ==
    /\ call'[p] = [op |-> op, chid |-> c, todo |-> todo, ok |-> TRUE]
    /\ \A q \in Callers : q /= p => call'[q] = call[q]
    /\ call[p].op = "idle"
    /\ use[c].st /= "moving" /\ use'[c].st = "moving"
    /\ \A d \in Channels : d /= c => use'[d] = use[d]
    /\ astray' = astray \ {c}
    /\ UNCHANGED <<sel, regs, head, que, lost>>

LEMMA BeginTyped ==
    ASSUME Typed, CallsInv, NEW p \in Callers, NEW c \in Channels, NEW op \in Ops,
           NEW todo \in Seq(Accesses), NEW u \in UseRec, Begin(p, op, c, todo),
           use[c].st /= "moving", u.st = "moving", use' = [use EXCEPT ![c] = u]
    PROVE  Typed' /\ CallsInv' /\ Begins(p, op, c, todo)
<1>1. PICK x : x = [op |-> op, chid |-> c, todo |-> todo, ok |-> TRUE]
    OBVIOUS
<1>2. x \in CallRec /\ x.op = op /\ x.chid = c
    BY <1>1 DEF CallRec
<1>3. call \in [Callers -> CallRec] /\ use \in [Channels -> UseRec]
    BY DEF Typed
<1>4. /\ call[p] = Idle /\ call' = [call EXCEPT ![p] = x]
      /\ astray' = astray \ {c} /\ UNCHANGED <<sel, regs, head, que, lost>>
    BY <1>1 DEF Begin
<1>5. call' \in [Callers -> CallRec] /\ call'[p] = x
    BY <1>2, <1>3, <1>4
<1>6. \A q \in Callers : q /= p => call'[q] = call[q]
    BY <1>3, <1>4
<1>7. use' \in [Channels -> UseRec] /\ use'[c] = u /\ \A d \in Channels : d /= c => use'[d] = use[d]
    BY <1>3
<1>8. Typed'
    BY <1>4, <1>5, <1>7 DEF Typed
<1>9. op /= "idle"
    BY DEF Ops
<1>10. \A q \in Callers : call'[q].op = "idle" => call'[q].todo = <<>>
    BY <1>2, <1>5, <1>6, <1>9 DEF CallsInv
<1>11. \A q \in Callers : q /= p /\ call[q].op \in Ops => call[q].chid /= c
    BY DEF CallsInv
<1>12. \A q \in Callers : call'[q].op \in Ops =>
           call'[q].chid \in Channels /\ use'[call'[q].chid].st = "moving"
    BY <1>2, <1>5, <1>6, <1>7, <1>11 DEF CallsInv
<1>13. ASSUME NEW q \in Callers, NEW s \in Callers, q /= s,
              call'[q].op \in Ops, call'[s].op \in Ops
       PROVE  call'[q].chid /= call'[s].chid
    BY <1>2, <1>5, <1>6, <1>11, <1>13 DEF CallsInv
<1>14. Begins(p, op, c, todo)
    BY <1>1, <1>4, <1>5, <1>6, <1>7 DEF Begins, Idle
<1> QED
    BY <1>8, <1>10, <1>12, <1>13, <1>14 DEF CallsInv

LEMMA StartTyped ==
    ASSUME Typed, CallsInv, NEW p \in Callers, NEW c \in Channels, NEW k \in Kinds,
           Start(p, c, k)
    PROVE  /\ Typed' /\ CallsInv' /\ Begins(p, "start", c, StartTodo(c, k))
           /\ use'[c].kind = k /\ k \in KindSet
<1>1. k \in KindSet
    BY LldmaRegsAssumption DEF KindSet, D2d
<1>2. StartTodo(c, k) \in Seq(Accesses)
    BY <1>1, StartTodoIs
<1>3. PICK u : u = [st |-> "moving", kind |-> k]
    OBVIOUS
<1>4. u \in UseRec /\ u.st = "moving" /\ u.kind = k
    BY <1>3 DEF UseRec
<1>5. /\ use[c].st /= "moving" /\ use' = [use EXCEPT ![c] = u]
      /\ Begin(p, "start", c, StartTodo(c, k))
    BY <1>3 DEF Start, StartTodo
<1>6. "start" \in Ops
    BY DEF Ops
<1>7. Typed' /\ CallsInv' /\ Begins(p, "start", c, StartTodo(c, k))
    BY <1>2, <1>4, <1>5, <1>6, BeginTyped
<1>8. use'[c] = u
    BY <1>5 DEF Typed
<1> QED
    BY <1>1, <1>4, <1>7, <1>8

LEMMA StopTyped ==
    ASSUME Typed, CallsInv, NEW p \in Callers, NEW c \in Channels,
           Stop(p, c) \/ Release(p, c)
    PROVE  /\ Typed' /\ CallsInv'
           /\ \/ Begins(p, "stop", c, StopTodo(c, use[c].kind))
              \/ Begins(p, "release", c, StopQueue(c))
<1>1. StopTodo(c, use[c].kind) \in Seq(Accesses) /\ StopQueue(c) \in Seq(Accesses)
    BY StopTodoIs, StopQueueIs
<1>2. PICK u : u = [use[c] EXCEPT !.st = "moving"]
    OBVIOUS
<1>3. use \in [Channels -> UseRec]
    BY DEF Typed
<1>4. u \in UseRec /\ u.st = "moving"
    BY <1>2, <1>3 DEF UseRec
<1>5. use[c].st /= "moving" /\ use' = [use EXCEPT ![c] = u]
    BY <1>2, <1>3 DEF Stop, Release
<1>6. "stop" \in Ops /\ "release" \in Ops
    BY DEF Ops
<1>7. CASE Stop(p, c)
    <2>1. Begin(p, "stop", c, StopTodo(c, use[c].kind))
        BY <1>7 DEF Stop, StopTodo
    <2> QED
        BY <2>1, <1>1, <1>4, <1>5, <1>6, BeginTyped
<1>8. CASE Release(p, c)
    <2>1. Begin(p, "release", c, StopQueue(c))
        BY <1>8 DEF Release
    <2> QED
        BY <2>1, <1>1, <1>4, <1>5, <1>6, BeginTyped
<1> QED
    BY <1>7, <1>8

LEMMA ScanTyped ==
    ASSUME Typed, CallsInv, NEW p \in Callers, Scan(p)
    PROVE  /\ Typed' /\ CallsInv'
           /\ call'[p].op = "scan" /\ call'[p].todo = ScanAll /\ call[p].op = "idle"
           /\ astray' = astray \ {None} /\ UNCHANGED <<sel, regs, head, que, use, lost>>
           /\ \A q \in Callers : q /= p => call'[q] = call[q]
<1>1. PICK x : x = [op |-> "scan", chid |-> None, todo |-> ScanAll, ok |-> TRUE]
    OBVIOUS
<1>2. x \in CallRec /\ x.op = "scan" /\ x.todo = ScanAll
    BY <1>1, ScanAllIs DEF CallRec
<1>3. /\ call' = [call EXCEPT ![p] = x] /\ call[p].op = "idle"
      /\ astray' = astray \ {None} /\ UNCHANGED <<sel, regs, head, que, use, lost>>
    BY <1>1 DEF Scan, Begin, Idle
<1>4. call \in [Callers -> CallRec]
    BY DEF Typed
<1>5. call' \in [Callers -> CallRec] /\ call'[p] = x
    BY <1>2, <1>3, <1>4
<1>6. \A q \in Callers : q /= p => call'[q] = call[q]
    BY <1>3, <1>4
<1>7. Typed'
    BY <1>3, <1>5 DEF Typed
<1>8. x.op /= "idle" /\ x.op \notin Ops
    BY <1>2 DEF Ops
<1>9. CallsInv'
    <2>1. \A q \in Callers : call'[q].op = "idle" => call'[q].todo = <<>>
        BY <1>5, <1>6, <1>8 DEF CallsInv
    <2>2. \A q \in Callers : call'[q].op \in Ops =>
              call'[q].chid \in Channels /\ use'[call'[q].chid].st = "moving"
        BY <1>3, <1>5, <1>6, <1>8 DEF CallsInv
    <2>3. ASSUME NEW q \in Callers, NEW s \in Callers, q /= s,
                 call'[q].op \in Ops, call'[s].op \in Ops
          PROVE  call'[q].chid /= call'[s].chid
        BY <1>5, <1>6, <1>8, <2>3 DEF CallsInv
    <2> QED
        BY <2>1, <2>2, <2>3 DEF CallsInv
<1> QED
    BY <1>2, <1>3, <1>5, <1>6, <1>7, <1>9

LEMMA SelectTyped ==
    ASSUME Typed, CallsInv, NEW p \in Callers, SelectChannel(p)
    PROVE  /\ Typed' /\ CallsInv' /\ call[p].todo /= <<>> /\ Next1(p)
           /\ Head(call[p].todo)[1] = "sel" /\ sel' = Head(call[p].todo)[2]
           /\ lost' = {q \in Callers \ {p} : call[q] /= Idle}
           /\ UNCHANGED <<regs, head, que, use, astray>>
<1>1. /\ call[p].todo /= <<>> /\ Head(call[p].todo)[1] = "sel" /\ Next1(p)
      /\ lost' = {q \in Callers \ {p} : call[q] /= Idle}
      /\ sel' = Head(call[p].todo)[2] /\ UNCHANGED <<regs, head, que, use, astray>>
    BY DEF SelectChannel, Doing
<1>2. Head(call[p].todo) \in Accesses /\ call' \in [Callers -> CallRec]
    BY <1>1, Advance
<1>3. sel' \in Channels
    BY <1>1, <1>2 DEF Accesses
<1>4. Typed'
    BY <1>1, <1>2, <1>3 DEF Typed
<1> QED
    BY <1>1, <1>4, AdvanceKeepsCalls

LEMMA SpoilsTyped ==
    ASSUME Typed, NEW p \in Callers,
           Spoils(p, {call[p].chid, sel}) \/ Spoils(p, {call[p].chid})
    PROVE  astray' \subseteq Channels \cup {None}
<1>1. call[p].chid \in Channels \cup {None} /\ sel \in Channels
    BY DEF Typed, CallRec
<1> QED
    BY <1>1 DEF Spoils, Typed

LEMMA WriteTyped ==
    ASSUME Typed, CallsInv, NEW p \in Callers, WriteReg(p)
    PROVE  /\ Typed' /\ CallsInv' /\ call[p].todo /= <<>> /\ Next1(p)
           /\ Head(call[p].todo)[1] \in AllRegs
           /\ regs'[sel][Head(call[p].todo)[1]] = Head(call[p].todo)[2]
           /\ \A r \in AllRegs : r /= Head(call[p].todo)[1] => regs'[sel][r] = regs[sel][r]
           /\ \A d \in Channels : d /= sel => regs'[d] = regs[d]
           /\ Spoils(p, {call[p].chid, sel}) /\ UNCHANGED <<sel, head, que, use, lost>>
<1>1. PICK r \in AllRegs : Doing(p, r) /\ regs' = [regs EXCEPT ![sel][r] = Head(call[p].todo)[2]]
    BY DEF WriteReg
<1>2. /\ call[p].todo /= <<>> /\ Head(call[p].todo)[1] = r /\ Next1(p)
      /\ Spoils(p, {call[p].chid, sel}) /\ UNCHANGED <<sel, head, que, use, lost>>
    BY <1>1 DEF WriteReg, Doing
<1>3. Head(call[p].todo) \in Accesses /\ call' \in [Callers -> CallRec]
    BY <1>2, Advance
<1>4. PICK v : v = Head(call[p].todo)[2]
    OBVIOUS
<1>5. v \in Values /\ v \in ValuesOf(r)
    BY <1>2, <1>3, <1>4 DEF Accesses
<1>6. /\ regs \in [Channels -> [AllRegs -> Values]] /\ sel \in Channels
      /\ \A c \in Channels, s \in AllRegs : regs[c][s] \in ValuesOf(s)
    BY DEF Typed
<1>7. PICK f : f = [regs[sel] EXCEPT ![r] = v]
    OBVIOUS
<1>8. f \in [AllRegs -> Values] /\ f[r] = v /\ \A s \in AllRegs : s /= r => f[s] = regs[sel][s]
    BY <1>5, <1>6, <1>7
<1>9. regs' = [regs EXCEPT ![sel] = f]
    BY <1>1, <1>4, <1>6, <1>7
<1>10. /\ regs' \in [Channels -> [AllRegs -> Values]] /\ regs'[sel] = f
       /\ \A d \in Channels : d /= sel => regs'[d] = regs[d]
    BY <1>6, <1>8, <1>9
<1>11. \A c \in Channels, s \in AllRegs : regs'[c][s] \in ValuesOf(s)
    BY <1>5, <1>6, <1>8, <1>10
<1>a. astray' \subseteq Channels \cup {None}
    BY <1>2, SpoilsTyped DEF Typed
<1>12. Typed'
    BY <1>2, <1>3, <1>10, <1>11, <1>a DEF Typed
<1>13. CallsInv'
    BY <1>2, AdvanceKeepsCalls
<1> QED
    BY <1>2, <1>4, <1>8, <1>10, <1>12, <1>13

LEMMA HeadsTyped ==
    ASSUME Typed, CallsInv, NEW p \in Callers, ReadHeads(p)
    PROVE  /\ Typed' /\ CallsInv' /\ call[p].todo /= <<>> /\ Next1(p)
           /\ Head(call[p].todo)[1] = "heads"
           /\ que' = [que EXCEPT ![call[p].chid] = head[sel]]
           /\ Spoils(p, {call[p].chid}) /\ UNCHANGED <<sel, regs, head, use, lost>>
<1>1. /\ call[p].todo /= <<>> /\ Next1(p) /\ Head(call[p].todo)[1] = "heads"
      /\ que' = [que EXCEPT ![call[p].chid] = head[sel]]
      /\ Spoils(p, {call[p].chid}) /\ UNCHANGED <<sel, regs, head, use, lost>>
    BY DEF ReadHeads, Doing
<1>2. call' \in [Callers -> CallRec]
    BY <1>1, Advance
<1>3. que' \in [Channels -> 0 .. Size - 1]
    <2>1. head[sel] \in 0 .. Size - 1 /\ que \in [Channels -> 0 .. Size - 1]
        BY DEF Typed
    <2> QED
        BY <2>1, <1>1
<1>4. astray' \subseteq Channels \cup {None}
    BY <1>1, SpoilsTyped
<1>5. Typed'
    BY <1>1, <1>2, <1>3, <1>4 DEF Typed
<1> QED
    BY <1>1, <1>5, AdvanceKeepsCalls

LEMMA PollTyped ==
    ASSUME Typed, CallsInv, NEW p \in Callers, PollHit(p)
    PROVE  /\ Typed' /\ CallsInv' /\ call[p].todo /= <<>> /\ Next1(p)
           /\ Head(call[p].todo)[1] = "poll"
           /\ UNCHANGED <<sel, regs, head, que, use, lost, astray>>
<1>1. /\ call[p].todo /= <<>> /\ Next1(p) /\ Head(call[p].todo)[1] = "poll"
      /\ UNCHANGED <<sel, regs, head, que, use, lost, astray>>
    BY DEF PollHit, Doing
<1>2. call' \in [Callers -> CallRec]
    BY <1>1, Advance
<1>3. Typed'
    BY <1>1, <1>2 DEF Typed
<1> QED
    BY <1>1, <1>3, AdvanceKeepsCalls

LEMMA TimeoutTyped ==
    ASSUME Typed, CallsInv, NEW p \in Callers, PollTimeout(p)
    PROVE  /\ Typed' /\ CallsInv' /\ call[p].todo /= <<>>
           /\ Head(call[p].todo)[1] = "poll"
           /\ call'[p].todo = <<Write("ctrl0", "clear")>>
           /\ call'[p].op = call[p].op /\ call'[p].chid = call[p].chid
           /\ \A q \in Callers : q /= p => call'[q] = call[q]
           /\ UNCHANGED <<sel, regs, head, que, use, lost, astray>>
<1>1. /\ call[p].todo /= <<>> /\ Head(call[p].todo)[1] = "poll"
      /\ UNCHANGED <<sel, regs, head, que, use, lost, astray>>
      /\ call' = [call EXCEPT ![p].todo = <<Write("ctrl0", "clear")>>, ![p].ok = FALSE]
    BY DEF PollTimeout, Doing
<1>2. <<Write("ctrl0", "clear")>> \in Seq(Accesses)
    <2>1. Write("ctrl0", "clear") \in Accesses
        BY AccessTypes DEF Typed
    <2> QED
        BY <2>1, InOne
<1>3. call \in [Callers -> CallRec] /\ call[p] \in CallRec
    BY DEF Typed
<1>4. PICK x : x = [call[p] EXCEPT !.todo = <<Write("ctrl0", "clear")>>, !.ok = FALSE]
    OBVIOUS
<1>5. /\ x \in CallRec /\ x.todo = <<Write("ctrl0", "clear")>>
      /\ x.op = call[p].op /\ x.chid = call[p].chid
    BY <1>2, <1>3, <1>4 DEF CallRec
<1>6. call' = [call EXCEPT ![p] = x]
    BY <1>1, <1>3, <1>4
<1>7. call' \in [Callers -> CallRec] /\ call'[p] = x
    BY <1>3, <1>5, <1>6
<1>8. \A q \in Callers : q /= p => call'[q] = call[q]
    BY <1>3, <1>6
<1>9. Typed'
    BY <1>1, <1>7 DEF Typed
<1>10. call[p].op /= "idle"
    BY <1>1 DEF CallsInv
<1>11. \A q \in Callers : call'[q].op = call[q].op /\ call'[q].chid = call[q].chid
    BY <1>5, <1>7, <1>8
<1>12. CallsInv'
    <2>1. \A q \in Callers : call'[q].op = "idle" => call'[q].todo = <<>>
        BY <1>8, <1>10, <1>11 DEF CallsInv
    <2>2. \A q \in Callers : call'[q].op \in Ops =>
              call'[q].chid \in Channels /\ use'[call'[q].chid].st = "moving"
        BY <1>1, <1>11 DEF CallsInv
    <2>3. ASSUME NEW q \in Callers, NEW s \in Callers, q /= s,
                 call'[q].op \in Ops, call'[s].op \in Ops
          PROVE  call'[q].chid /= call'[s].chid
        BY <1>11, <2>3 DEF CallsInv
    <2> QED
        BY <2>1, <2>2, <2>3 DEF CallsInv
<1> QED
    BY <1>1, <1>5, <1>7, <1>8, <1>9, <1>12

LEMMA ReturnTyped ==
    ASSUME Typed, CallsInv, NEW p \in Callers, Return(p)
    PROVE  /\ Typed' /\ CallsInv' /\ call'[p] = Idle /\ call[p].todo = <<>>
           /\ \A q \in Callers : q /= p => call'[q] = call[q]
           /\ UNCHANGED <<sel, regs, head, que, lost, astray>>
           /\ \/ call[p].op = "scan" /\ use' = use
              \/ /\ call[p].op = "start"
                 /\ use'[call[p].chid].st = "started"
                 /\ use'[call[p].chid].kind = use[call[p].chid].kind
                 /\ \A d \in Channels : d /= call[p].chid => use'[d] = use[d]
              \/ /\ call[p].op \in {"stop", "release"}
                 /\ use'[call[p].chid].st \in {"free", "stuck"}
                 /\ \A d \in Channels : d /= call[p].chid => use'[d] = use[d]
<1> DEFINE c == call[p].chid
<1>1. /\ call[p].op /= "idle" /\ call[p].todo = <<>>
      /\ call' = [call EXCEPT ![p] = Idle] /\ UNCHANGED <<sel, regs, head, que, lost, astray>>
    BY DEF Return
<1>2. call \in [Callers -> CallRec] /\ use \in [Channels -> UseRec] /\ Idle \in CallRec
    BY InEmpty DEF Typed, CallRec, Idle
<1>3. call' \in [Callers -> CallRec] /\ call'[p] = Idle
    BY <1>1, <1>2
<1>4. \A q \in Callers : q /= p => call'[q] = call[q]
    BY <1>1, <1>2
<1>5. Idle.op = "idle" /\ Idle.todo = <<>> /\ "idle" \notin Ops /\ "scan" \notin Ops
    BY DEF Idle, Ops
<1>6. \A q \in Callers : call'[q].op = "idle" => call'[q].todo = <<>>
    BY <1>3, <1>4, <1>5 DEF CallsInv
<1>7. ASSUME NEW q \in Callers, NEW s \in Callers, q /= s,
             call'[q].op \in Ops, call'[s].op \in Ops
      PROVE  call'[q].chid /= call'[s].chid
    BY <1>3, <1>4, <1>5, <1>7 DEF CallsInv
<1>8. CASE call[p].op = "scan"
    <2>1. use' = use
        BY <1>8 DEF Return
    <2>2. Typed'
        BY <2>1, <1>1, <1>3 DEF Typed
    <2>3. \A q \in Callers : call'[q].op \in Ops =>
              call'[q].chid \in Channels /\ use'[call'[q].chid].st = "moving"
        BY <2>1, <1>3, <1>4, <1>5 DEF CallsInv
    <2> QED
        BY <1>1, <1>3, <1>4, <1>6, <1>7, <1>8, <2>1, <2>2, <2>3 DEF CallsInv
<1>9. CASE call[p].op \in Ops
    <2>1. c \in Channels /\ call[p].op /= "scan"
        BY <1>9, <1>5 DEF CallsInv
    <2>2. PICK u : u = IF call[p].op = "start" THEN [use[c] EXCEPT !.st = "started"]
                       ELSE IF call[p].op = "stop" /\ ~ call[p].ok
                       THEN [use[c] EXCEPT !.st = "stuck"]
                       ELSE [st |-> "free", kind |-> None]
        OBVIOUS
    <2>3. use[c] \in UseRec
        BY <2>1, <1>2
    <2>4. u \in UseRec
        BY <2>2, <2>3 DEF UseRec
    <2>5. /\ call[p].op = "start" => u.st = "started" /\ u.kind = use[c].kind
          /\ call[p].op /= "start" => u.st \in {"free", "stuck"}
        BY <2>2, <2>3 DEF UseRec
    <2>6. use' = [use EXCEPT ![c] = u]
        <3>1. CASE call[p].op = "start"
            BY <3>1, <2>1, <2>2, <1>2 DEF Return
        <3>2. CASE call[p].op = "stop" /\ ~ call[p].ok
            BY <3>2, <2>1, <2>2, <1>2 DEF Return
        <3>3. CASE call[p].op /= "start" /\ ~ (call[p].op = "stop" /\ ~ call[p].ok)
            BY <3>3, <2>1, <2>2, <1>2 DEF Return
        <3> QED
            BY <3>1, <3>2, <3>3
    <2>7. /\ use' \in [Channels -> UseRec] /\ use'[c] = u
          /\ \A d \in Channels : d /= c => use'[d] = use[d]
        BY <2>1, <2>4, <2>6, <1>2
    <2>8. Typed'
        BY <2>7, <1>1, <1>3 DEF Typed
    <2>9. \A q \in Callers : q /= p /\ call[q].op \in Ops => call[q].chid /= c
        BY <1>9 DEF CallsInv
    <2>10. \A q \in Callers : call'[q].op \in Ops =>
              call'[q].chid \in Channels /\ use'[call'[q].chid].st = "moving"
        BY <2>7, <2>9, <1>3, <1>4, <1>5 DEF CallsInv
    <2>11. CallsInv'
        BY <1>6, <1>7, <2>10 DEF CallsInv
    <2>12. call[p].op = "start" \/ call[p].op \in {"stop", "release"}
        BY <1>9 DEF Ops
    <2> QED
        BY <1>1, <1>3, <1>4, <2>5, <2>7, <2>8, <2>11, <2>12
<1>10. call[p].op = "scan" \/ call[p].op \in Ops
    BY <1>1, <1>2 DEF CallRec
<1> QED
    BY <1>8, <1>9, <1>10

LEMMA EngineTyped ==
    ASSUME Typed, CallsInv, NEW c \in Channels, Transfer(c)
    PROVE  /\ Typed' /\ CallsInv'
           /\ UNCHANGED <<sel, regs, use, call, lost, astray>>
           /\ \A d \in Channels : use[d].st /= "started" => que'[d] = que[d] /\ head'[d] = head[d]
           /\ \A d \in Channels : que[d] = head[d] => que'[d] = head'[d]
<1>1. UNCHANGED <<sel, regs, use, call, lost, astray>>
    BY DEF Transfer
<1>2. /\ head' = [head EXCEPT ![c] = (head[c] + 1) % Size]
      /\ que' = [que EXCEPT ![c] = (que[c] + 1) % Size]
      /\ use[c].st = "started" /\ que[c] = head[c]
    BY DEF Transfer
<1>3. head \in [Channels -> 0 .. Size - 1] /\ que \in [Channels -> 0 .. Size - 1]
    BY DEF Typed
<1>4. PICK n : n = (head[c] + 1) % Size
    OBVIOUS
<1>5. n \in 0 .. Size - 1
    <2>1. head[c] + 1 \in Nat
        BY <1>3
    <2> QED
        BY <2>1, <1>4, ModRange
<1>6. head' = [head EXCEPT ![c] = n] /\ que' = [que EXCEPT ![c] = n]
    BY <1>2, <1>4
<1>7. head' \in [Channels -> 0 .. Size - 1] /\ que' \in [Channels -> 0 .. Size - 1]
    BY <1>3, <1>5, <1>6
<1>8. /\ head'[c] = n /\ que'[c] = n
      /\ \A d \in Channels : d /= c => head'[d] = head[d] /\ que'[d] = que[d]
    BY <1>3, <1>6
<1> QED
    BY <1>1, <1>2, <1>7, <1>8 DEF Typed, CallsInv

LEMMA TypedStep == Typed /\ CallsInv /\ [Next]_vars => Typed' /\ CallsInv'
<1> SUFFICES ASSUME Typed, CallsInv, [Next]_vars PROVE Typed' /\ CallsInv'
    OBVIOUS
<1>1. ASSUME NEW p \in Callers, Enter(p) PROVE Typed' /\ CallsInv'
    BY <1>1, StartTyped, StopTyped, ScanTyped DEF Enter
<1>2. ASSUME NEW p \in Callers, Go(p) PROVE Typed' /\ CallsInv'
    BY <1>2, SelectTyped, WriteTyped, HeadsTyped, PollTyped, TimeoutTyped, ReturnTyped DEF Go
<1>3. ASSUME Engine PROVE Typed' /\ CallsInv'
    BY <1>3, EngineTyped DEF Engine
<1>4. CASE UNCHANGED vars
    BY <1>4 DEF vars, Typed, CallsInv
<1> QED
    BY <1>1, <1>2, <1>3, <1>4 DEF Next

\* Whatever calls interleave, the registers hold values of their kind, and a
\* channel that a call works on is worked on by that call alone: the status of
\* the channel is taken before its registers are touched and given back after
\* (xpcie_fpga_get_queue, xpcie_fpga_put_queue).
THEOREM RegsTyping == Spec => [](TypeOK /\ CallsInv)
<1>1. Init => Typed /\ CallsInv
    BY InitTyped
<1>2. (Typed /\ CallsInv) /\ [Next]_vars => (Typed /\ CallsInv)'
    BY TypedStep
<1>3. Typed /\ CallsInv => TypeOK /\ CallsInv
    BY TypedIsTypeOK
<1> QED
    BY <1>1, <1>2, <1>3, PTL DEF Spec

-----------------------------------------------------------------------------
(* How far the calls are.                                                  *)

\* CH_SEL names the channel of the call, or is about to, or another call has
\* written it since.
SelInv(p) ==
    \/ sel = call[p].chid
    \/ call[p].todo /= <<>> /\ Head(call[p].todo)[1] = "sel"
    \/ p \in lost

\* What the start of c for k has written, when R is left to do.
Programmed(c, k, R) ==
    /\ \A r \in SetOf(k) :
          regs[c][r] = ValueOf(c, k, r) \/ Write(r, ValueOf(c, k, r)) \in R
    /\ k = "host" => que[c] = head[c] \/ GetHeads \in R

Starting(c, k, R) ==
    /\ \A a \in R : StartAccess(c, k, a)
    /\ c \notin astray => Programmed(c, k, R)

Stopping(c, R) ==
    /\ \A a \in R : StopAccess(c, a)
    /\ c \notin astray => regs[c]["ctrl0"] \notin Open \/ Write("ctrl0", "clear") \in R

Stage(p) ==
    /\ call[p].op \in Ops => SelInv(p)
    /\ call[p].op = "start" =>
          Starting(call[p].chid, use[call[p].chid].kind, InSeq(call[p].todo))
    /\ call[p].op \in {"stop", "release"} => Stopping(call[p].chid, InSeq(call[p].todo))
    /\ call[p].op = "scan" => \A a \in InSeq(call[p].todo) : a[1] = "sel"

StageInv == \A p \in Callers : Stage(p)

Ready(c) ==
    LET k == use[c].kind
    IN  /\ \A r \in SetOf(k) : regs[c][r] = ValueOf(c, k, r)
        /\ k = "host" => que[c] = head[c]

Quiet(c) == regs[c]["ctrl0"] \notin Open

\* A channel that no call works on.
Rest(c) ==
    c \notin astray =>
        /\ use[c].st = "started" => Ready(c)
        /\ use[c].st \in {"free", "stuck"} => Quiet(c)

RestInv == \A c \in Channels : Rest(c)

RegsInv == Typed /\ CallsInv /\ StageInv /\ RestInv

LEMMA RestIsReady == RestInv => StartedIsReady /\ FreeIsQuiet
<1> SUFFICES ASSUME RestInv PROVE StartedIsReady /\ FreeIsQuiet
    OBVIOUS
<1>1. FreeIsQuiet
    BY DEF RestInv, Rest, FreeIsQuiet, Quiet
<1>2. ASSUME NEW c \in Channels \ astray, use[c].st = "started", NEW k, k = use[c].kind
      PROVE  /\ regs[c]["ctrl0"] = Enable(k)
             /\ k /= "nw" => /\ regs[c]["addr_up"] = c
                             /\ regs[c]["addr_dn"] = c
             /\ k \notin NoCid \cup {"nw"} => /\ regs[c]["q_ctrl"] = c
                                              /\ regs[c]["ctrl1"] = Mode(k)
             /\ k \in Buffered /\ k /= "nw" => \A r \in BufRegs : regs[c][r] = c
             /\ k = "host" => que[c] = head[c]
    <2>1. /\ \A r \in SetOf(k) : regs[c][r] = ValueOf(c, k, r)
          /\ k = "host" => que[c] = head[c]
        BY <1>2 DEF RestInv, Rest, Ready
    <2>2. "ctrl0" \in SetOf(k)
        BY DEF SetOf
    <2>3. k /= "nw" => "addr_up" \in SetOf(k) /\ "addr_dn" \in SetOf(k)
        BY DEF SetOf
    <2>4. k \notin NoCid \cup {"nw"} => "q_ctrl" \in SetOf(k) /\ "ctrl1" \in SetOf(k)
        BY DEF SetOf
    <2>5. k \in Buffered /\ k /= "nw" => \A r \in BufRegs : r \in SetOf(k)
        BY DEF SetOf
    <2>6. \A r \in BufRegs : r /= "ctrl0" /\ r /= "ctrl1"
        BY DEF BufRegs
    <2> QED
        BY <2>1, <2>2, <2>3, <2>4, <2>5, <2>6 DEF ValueOf
<1>3. StartedIsReady
    <2> SUFFICES ASSUME NEW c \in Channels \ astray, use[c].st = "started"
                 PROVE  /\ regs[c]["ctrl0"] = Enable(use[c].kind)
                        /\ \A r \in (IF use[c].kind = "nw" THEN {}
                                     ELSE {"addr_up", "addr_dn"}
                                       \cup (IF use[c].kind \in NoCid THEN {} ELSE {"q_ctrl"})
                                       \cup (IF use[c].kind \in Buffered THEN BufRegs ELSE {})) :
                              regs[c][r] = c
                        /\ use[c].kind \notin NoCid \cup {"nw"} =>
                              regs[c]["ctrl1"] = Mode(use[c].kind)
                        /\ use[c].kind = "host" => que[c] = head[c]
        BY DEF StartedIsReady
    <2>1. PICK k : k = use[c].kind
        OBVIOUS
    <2> QED
        BY <2>1, <1>2
<1> QED
    BY <1>1, <1>3

LEMMA InitRegs == Init => RegsInv
<1> SUFFICES ASSUME Init PROVE RegsInv
    OBVIOUS
<1>1. Typed /\ CallsInv
    BY InitTyped
<1>2. \A p \in Callers : call[p].op = "idle"
    BY DEF Init, Idle
<1>3. StageInv
    BY <1>2 DEF StageInv, Stage, Ops
<1>4. \A c \in Channels : use[c].st = "free" /\ regs[c]["ctrl0"] = "off"
    BY DEF Init, AllRegs
<1>5. RestInv
    BY <1>4 DEF RestInv, Rest, Quiet, Open
<1> QED
    BY <1>1, <1>3, <1>5 DEF RegsInv

-----------------------------------------------------------------------------
(* What a step leaves alone.                                               *)

\* A step of the call of p on c: to the other channels it either does nothing
\* or marks them, and it either leaves CH_SEL or marks the other calls.
Local(p, c) ==
    /\ \A q \in Callers : q /= p => call'[q] = call[q]
    /\ \A q \in Callers : q /= p /\ call[q].op \in Ops => call[q].chid /= c
    /\ \A d \in Channels : d /= c =>
          /\ use'[d] = use[d]
          /\ d \notin astray' => d \notin astray /\ regs'[d] = regs[d] /\ que'[d] = que[d]
    /\ head' = head
    /\ \/ sel' = sel /\ lost' = lost
       \/ \A q \in Callers : q /= p /\ call[q].op \in Ops => q \in lost'

LEMMA Elsewhere ==
    ASSUME RegsInv, NEW p \in Callers, NEW c, Local(p, c)
    PROVE  /\ \A q \in Callers : q /= p => Stage(q)'
           /\ \A d \in Channels : d /= c => Rest(d)'
<1>1. ASSUME NEW d \in Channels, d /= c PROVE Rest(d)'
    <2>1. use'[d] = use[d] /\ head' = head
        BY <1>1 DEF Local
    <2>2. d \notin astray' => d \notin astray /\ regs'[d] = regs[d] /\ que'[d] = que[d]
        BY <1>1 DEF Local
    <2>3. Rest(d)
        BY DEF RegsInv, RestInv
    <2> QED
        BY <2>1, <2>2, <2>3 DEF Rest, Ready, Quiet
<1>2. ASSUME NEW q \in Callers, q /= p PROVE Stage(q)'
    <2>1. Stage(q) /\ call'[q] = call[q]
        BY <1>2 DEF RegsInv, StageInv, Local
    <2>2. ASSUME call[q].op \in Ops PROVE SelInv(q)'
        BY <1>2, <2>1, <2>2 DEF Local, Stage, SelInv
    <2>3. ASSUME call[q].op \in Ops, NEW d, d = call[q].chid
          PROVE  /\ use'[d] = use[d] /\ head' = head
                 /\ d \notin astray' =>
                       d \notin astray /\ regs'[d] = regs[d] /\ que'[d] = que[d]
        <3>1. d \in Channels
            BY <2>3 DEF RegsInv, CallsInv
        <3> QED
            BY <1>2, <2>3, <3>1 DEF Local
    <2>4. ASSUME call[q].op = "start"
          PROVE  Starting(call[q].chid, use[call[q].chid].kind, InSeq(call[q].todo))'
        <3>1. PICK d, k, R : d = call[q].chid /\ k = use[d].kind /\ R = InSeq(call[q].todo)
            OBVIOUS
        <3>2. Starting(d, k, R)
            BY <2>1, <2>4, <3>1 DEF Stage
        <3>3. call[q].op \in Ops
            BY <2>4 DEF Ops
        <3>4. /\ use'[d] = use[d] /\ head' = head
              /\ d \notin astray' => d \notin astray /\ regs'[d] = regs[d] /\ que'[d] = que[d]
            BY <2>3, <3>1, <3>3
        <3>5. Starting(d, k, R)'
            BY <3>2, <3>4 DEF Starting, Programmed
        <3> QED
            BY <2>1, <3>1, <3>4, <3>5
    <2>5. ASSUME call[q].op \in {"stop", "release"}
          PROVE  Stopping(call[q].chid, InSeq(call[q].todo))'
        <3>1. PICK d, R : d = call[q].chid /\ R = InSeq(call[q].todo)
            OBVIOUS
        <3>2. Stopping(d, R)
            BY <2>1, <2>5, <3>1 DEF Stage
        <3>3. call[q].op \in Ops
            BY <2>5 DEF Ops
        <3>4. d \notin astray' => d \notin astray /\ regs'[d] = regs[d]
            BY <2>3, <3>1, <3>3
        <3>5. Stopping(d, R)'
            BY <3>2, <3>4 DEF Stopping
        <3> QED
            BY <2>1, <3>1, <3>5
    <2>6. call[q].op = "scan" => \A a \in InSeq(call[q].todo) : a[1] = "sel"
        BY <2>1 DEF Stage
    <2> QED
        BY <2>1, <2>2, <2>4, <2>5, <2>6 DEF Stage
<1> QED
    BY <1>1, <1>2

\* The start of a call.
LEMMA BeginStage ==
    ASSUME RegsInv, NEW p \in Callers, NEW c \in Channels, NEW op \in Ops,
           NEW todo, Begins(p, op, c, todo),
           todo /= <<>>, Head(todo) = Select(c),
           op = "start" => StartSet(c, use'[c].kind, InSeq(todo)),
           op /= "start" => StopSet(c, InSeq(todo))
    PROVE  StageInv' /\ RestInv'
<1>1. /\ call'[p].op = op /\ call'[p].chid = c /\ call'[p].todo = todo
      /\ UNCHANGED <<sel, regs, head, que, lost>> /\ astray' = astray \ {c}
      /\ use[c].st /= "moving" /\ use'[c].st = "moving"
      /\ \A q \in Callers : q /= p => call'[q] = call[q]
      /\ \A d \in Channels : d /= c => use'[d] = use[d]
    BY DEF Begins
<1>2. \A q \in Callers : q /= p /\ call[q].op \in Ops => call[q].chid /= c
    BY <1>1 DEF RegsInv, CallsInv
<1>3. Local(p, c)
    BY <1>1, <1>2 DEF Local
<1>4. Head(todo)[1] = "sel"
    BY DEF Select, Write
<1>5. SelInv(p)'
    BY <1>1, <1>4 DEF SelInv
<1>6. op = "start" => Starting(c, use[c].kind, InSeq(todo))'
    BY <1>1 DEF Starting, Programmed, StartSet
<1>7. op /= "start" => Stopping(c, InSeq(todo))'
    BY <1>1 DEF Stopping, StopSet
<1>8. Stage(p)'
    BY <1>1, <1>5, <1>6, <1>7 DEF Stage, Ops
<1>9. Rest(c)'
    BY <1>1 DEF Rest
<1> QED
    BY <1>3, <1>8, <1>9, Elsewhere DEF StageInv, RestInv

LEMMA EnterStage ==
    ASSUME RegsInv, NEW p \in Callers, Enter(p)
    PROVE  RegsInv'
<1>1. Typed /\ CallsInv
    BY DEF RegsInv
<1>2. ASSUME NEW c \in Channels, NEW k \in Kinds, Start(p, c, k)
      PROVE  RegsInv'
    <2>1. /\ Typed' /\ CallsInv' /\ Begins(p, "start", c, StartTodo(c, k))
          /\ use'[c].kind = k /\ k \in KindSet
        BY <1>1, <1>2, StartTyped
    <2>2. /\ StartTodo(c, k) /= <<>> /\ Head(StartTodo(c, k)) = Select(c)
          /\ StartSet(c, use'[c].kind, InSeq(StartTodo(c, k)))
        BY <2>1, StartTodoIs
    <2>3. "start" \in Ops
        BY DEF Ops
    <2>4. StageInv' /\ RestInv'
        BY <2>1, <2>2, <2>3, BeginStage
    <2> QED
        BY <2>1, <2>4 DEF RegsInv
<1>3. ASSUME NEW c \in Channels, Stop(p, c) \/ Release(p, c)
      PROVE  RegsInv'
    <2>1. /\ Typed' /\ CallsInv'
          /\ \/ Begins(p, "stop", c, StopTodo(c, use[c].kind))
             \/ Begins(p, "release", c, StopQueue(c))
        BY <1>1, <1>3, StopTyped
    <2>2. "stop" \in Ops /\ "release" \in Ops
        BY DEF Ops
    <2>3. /\ StopTodo(c, use[c].kind) /= <<>> /\ Head(StopTodo(c, use[c].kind)) = Select(c)
          /\ StopSet(c, InSeq(StopTodo(c, use[c].kind)))
          /\ StopQueue(c) /= <<>> /\ Head(StopQueue(c)) = Select(c)
          /\ StopSet(c, InSeq(StopQueue(c)))
        BY StopTodoIs, StopQueueIs
    <2>4. CASE Begins(p, "stop", c, StopTodo(c, use[c].kind))
        <3>1. StageInv' /\ RestInv'
            BY <2>2, <2>3, <2>4, BeginStage
        <3> QED
            BY <3>1, <2>1 DEF RegsInv
    <2>5. CASE Begins(p, "release", c, StopQueue(c))
        <3>1. StageInv' /\ RestInv'
            BY <2>2, <2>3, <2>5, BeginStage
        <3> QED
            BY <3>1, <2>1 DEF RegsInv
    <2> QED
        BY <2>1, <2>4, <2>5
<1>4. ASSUME Scan(p) PROVE RegsInv'
    <2>1. /\ Typed' /\ CallsInv' /\ call'[p].op = "scan" /\ call'[p].todo = ScanAll
          /\ astray' = astray \ {None} /\ UNCHANGED <<sel, regs, head, que, use, lost>>
          /\ \A q \in Callers : q /= p => call'[q] = call[q]
        BY <1>1, <1>4, ScanTyped
    <2>2. None \notin Channels
        BY LldmaRegsAssumption DEF Channels
    <2>3. \A q \in Callers : call[q].op \in Ops => call[q].chid /= None
        BY <2>2 DEF RegsInv, CallsInv
    <2>4. Local(p, None)
        BY <2>1, <2>2, <2>3 DEF Local
    <2>5. Stage(p)'
        BY <2>1, ScanAllIs DEF Stage, Ops
    <2>6. (\A q \in Callers : q /= p => Stage(q)') /\ \A d \in Channels : d /= None => Rest(d)'
        BY <2>4, Elsewhere
    <2>7. StageInv' /\ RestInv'
        BY <2>2, <2>5, <2>6 DEF StageInv, RestInv
    <2> QED
        BY <2>1, <2>7 DEF RegsInv
<1> QED
    BY <1>2, <1>3, <1>4 DEF Enter

\* An access that is not to CH_SEL is made by a start or a stop, and with
\* another channel selected only after another call has written CH_SEL.
LEMMA OwnWindow ==
    ASSUME RegsInv, NEW p \in Callers, call[p].todo /= <<>>, Head(call[p].todo)[1] /= "sel"
    PROVE  /\ sel = call[p].chid \/ Misses(p)
           /\ call[p].op \in Ops /\ call[p].chid \in Channels
           /\ sel \in Channels /\ use[call[p].chid].st = "moving"
<1>1. call[p].todo \in Seq(Accesses) /\ call[p].op \in {"idle", "scan"} \cup Ops
    BY DEF RegsInv, Typed, CallRec
<1>2. Head(call[p].todo) \in InSeq(call[p].todo)
    BY <1>1, InTail
<1>3. call[p].op /= "idle"
    BY DEF RegsInv, CallsInv
<1>4. call[p].op /= "scan"
    BY <1>2 DEF RegsInv, StageInv, Stage
<1>5. call[p].op \in Ops
    BY <1>1, <1>3, <1>4
<1>6. sel = call[p].chid \/ p \in lost
    BY <1>5 DEF RegsInv, StageInv, Stage, SelInv
<1> QED
    BY <1>5, <1>6 DEF RegsInv, CallsInv, Typed, Misses

\* What access a does to channel c of its call, unless it goes astray.
Effect(c, a) ==
    /\ c \notin astray' =>
          /\ c \notin astray
          /\ a[1] \in AllRegs =>
                /\ regs'[c][a[1]] = a[2]
                /\ \A r \in AllRegs : r /= a[1] => regs'[c][r] = regs[c][r]
          /\ a[1] \notin AllRegs => regs'[c] = regs[c]
          /\ a[1] = "heads" => que'[c] = head[c]
          /\ a[1] /= "heads" => que'[c] = que[c]
    /\ head' = head
    /\ a[1] = "sel" => sel' = a[2]
    /\ a[1] /= "sel" => sel' = sel /\ lost' = lost

LEMMA StartingStep ==
    ASSUME NEW c, NEW k, NEW a, NEW R, NEW T, Starting(c, k, R), R = {a} \cup T, Effect(c, a)
    PROVE  Starting(c, k, T)'
<1>1. \A b \in T : StartAccess(c, k, b)
    BY DEF Starting
<1>2. StartAccess(c, k, a)
    BY DEF Starting
<1>3. ASSUME NEW r \in SetOf(k), c \notin astray'
      PROVE  regs'[c][r] = ValueOf(c, k, r) \/ Write(r, ValueOf(c, k, r)) \in T
    <2>1. regs[c][r] = ValueOf(c, k, r) \/ Write(r, ValueOf(c, k, r)) \in R
        BY <1>3 DEF Starting, Programmed, Effect
    <2>2. r \in AllRegs
        BY DEF SetOf, AllRegs, DataRegs, BufRegs
    <2>3. CASE a[1] = r
        BY <2>2, <2>3, <1>2, <1>3 DEF Effect, StartAccess
    <2>4. CASE a[1] /= r
        <3>1. Write(r, ValueOf(c, k, r)) /= a
            BY <2>4 DEF Write
        <3>2. regs'[c][r] = regs[c][r]
            BY <2>2, <2>4, <1>3 DEF Effect
        <3> QED
            BY <2>1, <3>1, <3>2
    <2> QED
        BY <2>3, <2>4
<1>4. ASSUME k = "host", c \notin astray'
      PROVE  que'[c] = head'[c] \/ GetHeads \in T
    <2>1. CASE a[1] = "heads"
        BY <2>1, <1>4 DEF Effect
    <2>2. CASE a[1] /= "heads"
        <3>1. GetHeads /= a
            BY <2>2 DEF GetHeads
        <3>2. que'[c] = que[c] /\ head' = head /\ c \notin astray
            BY <2>2, <1>4 DEF Effect
        <3> QED
            BY <3>1, <3>2, <1>4 DEF Starting, Programmed
    <2> QED
        BY <2>1, <2>2
<1>5. c \notin astray' => Programmed(c, k, T)'
    BY <1>3, <1>4 DEF Programmed
<1> QED
    BY <1>1, <1>5 DEF Starting

LEMMA StoppingStep ==
    ASSUME NEW c, NEW a, NEW R, NEW T, Stopping(c, R), R = {a} \cup T, Effect(c, a)
    PROVE  Stopping(c, T)'
<1>1. (\A b \in T : StopAccess(c, b)) /\ StopAccess(c, a)
    BY DEF Stopping
<1>2. "ctrl0" \in AllRegs
    BY DEF AllRegs
<1>3. ASSUME c \notin astray'
      PROVE  regs'[c]["ctrl0"] \notin Open \/ Write("ctrl0", "clear") \in T
    <2>1. CASE a[1] = "ctrl0"
        BY <1>1, <1>2, <1>3, <2>1 DEF Effect, StopAccess
    <2>2. CASE a[1] /= "ctrl0"
        <3>1. Write("ctrl0", "clear") /= a
            BY <2>2 DEF Write
        <3>2. regs'[c]["ctrl0"] = regs[c]["ctrl0"] /\ c \notin astray
            BY <1>2, <1>3, <2>2 DEF Effect
        <3> QED
            BY <3>1, <3>2 DEF Stopping
    <2> QED
        BY <2>1, <2>2
<1> QED
    BY <1>1, <1>3 DEF Stopping

\* The stage of a call follows from what its first access does.
LEMMA AccessStage ==
    ASSUME RegsInv, NEW p \in Callers, call[p].todo /= <<>>, Next1(p), use' = use,
           call[p].op \in Ops => Effect(call[p].chid, Head(call[p].todo))
    PROVE  Stage(p)'
<1>1. PICK c, a, R, T, k :
        /\ c = call[p].chid /\ a = Head(call[p].todo) /\ R = InSeq(call[p].todo)
        /\ T = InSeq(Tail(call[p].todo)) /\ k = use[call[p].chid].kind
    OBVIOUS
<1>2. /\ call'[p].todo = Tail(call[p].todo)
      /\ call'[p].op = call[p].op /\ call'[p].chid = call[p].chid
      /\ Head(call[p].todo) \in InSeq(call[p].todo)
      /\ InSeq(call[p].todo) = {Head(call[p].todo)} \cup InSeq(Tail(call[p].todo))
    BY Advance DEF RegsInv
<1>3. a \in R /\ R = {a} \cup T /\ InSeq(call'[p].todo) = T /\ call'[p].chid = c
      /\ use'[c].kind = k
    BY <1>1, <1>2
<1>4. call[p].op \in Ops => Effect(c, a)
    BY <1>1
<1>s. Stage(p)
    BY DEF RegsInv, StageInv
<1>5. call'[p].op = "start" => Starting(c, k, T)'
    <2>1. call[p].op = "start" => Starting(c, k, R)
        BY <1>1, <1>s DEF Stage
    <2>2. call[p].op = "start" => call[p].op \in Ops
        BY DEF Ops
    <2> QED
        BY <2>1, <2>2, <1>2, <1>3, <1>4, StartingStep
<1>6. call'[p].op \in {"stop", "release"} => Stopping(c, T)'
    <2>1. call[p].op \in {"stop", "release"} => Stopping(c, R)
        BY <1>1, <1>s DEF Stage
    <2>2. call[p].op \in {"stop", "release"} => call[p].op \in Ops
        BY DEF Ops
    <2> QED
        BY <2>1, <2>2, <1>2, <1>3, <1>4, StoppingStep
<1>7. call'[p].op = "scan" => \A b \in T : b[1] = "sel"
    BY <1>1, <1>2, <1>3, <1>s DEF Stage
<1>8. ASSUME call[p].op \in Ops PROVE sel' = c \/ p \in lost'
    <2>1. CASE a[1] = "sel"
        <3>1. sel' = a[2]
            BY <2>1, <1>4, <1>8 DEF Effect
        <3>2. CASE call[p].op = "start"
            <4>1. Starting(c, k, R)
                BY <3>2, <1>1, <1>s DEF Stage
            <4> QED
                BY <4>1, <3>1, <2>1, <1>3 DEF Starting, StartAccess
        <3>3. CASE call[p].op /= "start"
            <4>1. Stopping(c, R)
                BY <3>3, <1>8, <1>1, <1>s DEF Stage, Ops
            <4> QED
                BY <4>1, <3>1, <2>1, <1>3 DEF Stopping, StopAccess
        <3> QED
            BY <3>2, <3>3
    <2>2. CASE a[1] /= "sel"
        <3>1. sel' = sel /\ lost' = lost
            BY <2>2, <1>4, <1>8 DEF Effect
        <3>2. sel = c \/ p \in lost
            BY <2>2, <1>1, OwnWindow DEF Misses
        <3> QED
            BY <3>1, <3>2
    <2> QED
        BY <2>1, <2>2
<1>9. call'[p].op \in Ops => SelInv(p)'
    BY <1>2, <1>3, <1>8 DEF SelInv
<1> QED
    BY <1>3, <1>5, <1>6, <1>7, <1>9 DEF Stage

\* An access of a start or a stop that leaves the other channels alone.
LEMMA WindowStep ==
    ASSUME RegsInv, NEW p \in Callers, call[p].todo /= <<>>, Next1(p), use' = use,
           call[p].op \in Ops, Effect(call[p].chid, Head(call[p].todo)),
           Local(p, call[p].chid)
    PROVE  StageInv' /\ RestInv'
<1>1. Stage(p)'
    BY AccessStage
<1>2. PICK c : c = call[p].chid
    OBVIOUS
<1>3. (\A q \in Callers : q /= p => Stage(q)') /\ \A d \in Channels : d /= c => Rest(d)'
    BY <1>2, Elsewhere
<1>4. c \in Channels /\ use[c].st = "moving"
    BY <1>2 DEF RegsInv, CallsInv
<1>5. Rest(c)'
    BY <1>4 DEF Rest
<1> QED
    BY <1>1, <1>3, <1>5 DEF StageInv, RestInv

LEMMA SelectStage ==
    ASSUME RegsInv, NEW p \in Callers, SelectChannel(p)
    PROVE  RegsInv'
<1>1. /\ Typed' /\ CallsInv' /\ call[p].todo /= <<>> /\ Next1(p)
      /\ Head(call[p].todo)[1] = "sel" /\ sel' = Head(call[p].todo)[2]
      /\ lost' = {q \in Callers \ {p} : call[q] /= Idle}
      /\ UNCHANGED <<regs, head, que, use, astray>>
    BY SelectTyped DEF RegsInv
<1>2. "sel" \notin AllRegs /\ "sel" /= "heads"
    BY DEF AllRegs, DataRegs, BufRegs
<1>3. Effect(call[p].chid, Head(call[p].todo))
    BY <1>1, <1>2 DEF Effect
<1>4. Stage(p)'
    BY <1>1, <1>3, AccessStage
<1>5. \A q \in Callers : q /= p => call'[q] = call[q]
    BY <1>1, Advance DEF RegsInv
<1>6. \A q \in Callers : q /= p /\ call[q].op \in Ops => q \in lost'
    BY <1>1 DEF Idle, Ops
<1>7. \A q \in Callers : q /= p /\ call[q].op \in Ops => call[q].chid /= None
    BY LldmaRegsAssumption DEF RegsInv, CallsInv, Channels
<1>8. Local(p, None)
    BY <1>1, <1>5, <1>6, <1>7 DEF Local
<1>9. (\A q \in Callers : q /= p => Stage(q)') /\ \A d \in Channels : d /= None => Rest(d)'
    BY <1>8, Elsewhere
<1>10. None \notin Channels
    BY LldmaRegsAssumption DEF Channels
<1>11. StageInv' /\ RestInv'
    BY <1>4, <1>9, <1>10 DEF StageInv, RestInv
<1> QED
    BY <1>1, <1>11 DEF RegsInv

\* No other call works on the channel of p.
LEMMA OthersApart ==
    ASSUME RegsInv, NEW p \in Callers, call[p].todo /= <<>>, Next1(p), call[p].op \in Ops
    PROVE  /\ \A q \in Callers : q /= p => call'[q] = call[q]
           /\ \A q \in Callers : q /= p /\ call[q].op \in Ops => call[q].chid /= call[p].chid
<1>1. \A q \in Callers : q /= p => call'[q] = call[q]
    BY Advance DEF RegsInv
<1> QED
    BY <1>1 DEF RegsInv, CallsInv

LEMMA WriteStage ==
    ASSUME RegsInv, NEW p \in Callers, WriteReg(p)
    PROVE  RegsInv'
<1>1. /\ Typed' /\ CallsInv' /\ call[p].todo /= <<>> /\ Next1(p)
      /\ Head(call[p].todo)[1] \in AllRegs
      /\ regs'[sel][Head(call[p].todo)[1]] = Head(call[p].todo)[2]
      /\ \A r \in AllRegs : r /= Head(call[p].todo)[1] => regs'[sel][r] = regs[sel][r]
      /\ \A d \in Channels : d /= sel => regs'[d] = regs[d]
      /\ Spoils(p, {call[p].chid, sel}) /\ UNCHANGED <<sel, head, que, use, lost>>
    BY WriteTyped DEF RegsInv
<1>2. Head(call[p].todo)[1] /= "sel" /\ Head(call[p].todo)[1] /= "heads"
    BY <1>1 DEF AllRegs, DataRegs, BufRegs
<1>3. /\ sel = call[p].chid \/ Misses(p)
      /\ call[p].op \in Ops /\ call[p].chid \in Channels /\ sel \in Channels
    BY <1>1, <1>2, OwnWindow
<1>4. /\ Misses(p) => astray' = astray \cup {call[p].chid, sel}
      /\ ~ Misses(p) => astray' = astray /\ sel = call[p].chid
    BY <1>1, <1>3 DEF Spoils
<1>5. Effect(call[p].chid, Head(call[p].todo))
    BY <1>1, <1>2, <1>4 DEF Effect
<1>6. \A d \in Channels \ {call[p].chid} :
          d \notin astray' => d \notin astray /\ regs'[d] = regs[d]
    BY <1>1, <1>4
<1>7. Local(p, call[p].chid)
    BY <1>1, <1>3, <1>6, OthersApart DEF Local
<1>8. StageInv' /\ RestInv'
    BY <1>1, <1>3, <1>5, <1>7, WindowStep
<1> QED
    BY <1>1, <1>8 DEF RegsInv

LEMMA HeadsStage ==
    ASSUME RegsInv, NEW p \in Callers, ReadHeads(p)
    PROVE  RegsInv'
<1>1. /\ Typed' /\ CallsInv' /\ call[p].todo /= <<>> /\ Next1(p)
      /\ Head(call[p].todo)[1] = "heads"
      /\ que' = [que EXCEPT ![call[p].chid] = head[sel]]
      /\ Spoils(p, {call[p].chid}) /\ UNCHANGED <<sel, regs, head, use, lost>>
    BY HeadsTyped DEF RegsInv
<1>2. Head(call[p].todo)[1] /= "sel" /\ Head(call[p].todo)[1] \notin AllRegs
    BY <1>1 DEF AllRegs, DataRegs, BufRegs
<1>3. /\ sel = call[p].chid \/ Misses(p)
      /\ call[p].op \in Ops /\ call[p].chid \in Channels /\ sel \in Channels
    BY <1>1, <1>2, OwnWindow
<1>4. /\ Misses(p) => astray' = astray \cup {call[p].chid}
      /\ ~ Misses(p) => astray' = astray /\ sel = call[p].chid
    BY <1>1, <1>3 DEF Spoils
<1>5. /\ que'[call[p].chid] = head[sel]
      /\ \A d \in Channels : d /= call[p].chid => que'[d] = que[d]
    BY <1>1, <1>3 DEF RegsInv, Typed
<1>6. Effect(call[p].chid, Head(call[p].todo))
    BY <1>1, <1>2, <1>4, <1>5 DEF Effect
<1>7. Local(p, call[p].chid)
    BY <1>1, <1>3, <1>4, <1>5, OthersApart DEF Local
<1>8. StageInv' /\ RestInv'
    BY <1>1, <1>3, <1>6, <1>7, WindowStep
<1> QED
    BY <1>1, <1>8 DEF RegsInv

LEMMA PollStage ==
    ASSUME RegsInv, NEW p \in Callers, PollHit(p)
    PROVE  RegsInv'
<1>1. /\ Typed' /\ CallsInv' /\ call[p].todo /= <<>> /\ Next1(p)
      /\ Head(call[p].todo)[1] = "poll"
      /\ UNCHANGED <<sel, regs, head, que, use, lost, astray>>
    BY PollTyped DEF RegsInv
<1>2. /\ Head(call[p].todo)[1] /= "sel" /\ Head(call[p].todo)[1] \notin AllRegs
      /\ Head(call[p].todo)[1] /= "heads"
    BY <1>1 DEF AllRegs, DataRegs, BufRegs
<1>3. call[p].op \in Ops
    BY <1>1, <1>2, OwnWindow
<1>4. Effect(call[p].chid, Head(call[p].todo))
    BY <1>1, <1>2 DEF Effect
<1>5. Local(p, call[p].chid)
    BY <1>1, <1>3, OthersApart DEF Local
<1>6. StageInv' /\ RestInv'
    BY <1>1, <1>3, <1>4, <1>5, WindowStep
<1> QED
    BY <1>1, <1>6 DEF RegsInv

LEMMA TimeoutStage ==
    ASSUME RegsInv, NEW p \in Callers, PollTimeout(p)
    PROVE  RegsInv'
<1>1. /\ Typed' /\ CallsInv' /\ call[p].todo /= <<>>
      /\ Head(call[p].todo)[1] = "poll"
      /\ call'[p].todo = <<Write("ctrl0", "clear")>>
      /\ call'[p].op = call[p].op /\ call'[p].chid = call[p].chid
      /\ \A q \in Callers : q /= p => call'[q] = call[q]
      /\ UNCHANGED <<sel, regs, head, que, use, lost, astray>>
    BY TimeoutTyped DEF RegsInv
<1>2. PICK c : c = call[p].chid
    OBVIOUS
<1>3. /\ sel = c \/ p \in lost
      /\ call[p].op \in Ops /\ c \in Channels /\ use[c].st = "moving"
    BY <1>1, <1>2, OwnWindow DEF Misses
<1>4. call[p].op /= "start"
    <2> SUFFICES ASSUME call[p].op = "start" PROVE FALSE
        OBVIOUS
    <2>1. Starting(call[p].chid, use[call[p].chid].kind, InSeq(call[p].todo))
        BY DEF RegsInv, StageInv, Stage
    <2>2. Head(call[p].todo) \in InSeq(call[p].todo)
        BY <1>1, InTail DEF RegsInv, Typed, CallRec
    <2> QED
        BY <1>1, <2>1, <2>2 DEF Starting, StartAccess
<1>5. InSeq(call'[p].todo) = {Write("ctrl0", "clear")}
    <2>1. Write("ctrl0", "clear") \in Accesses
        BY <1>3, AccessTypes
    <2> QED
        BY <1>1, <2>1, InOne
<1>6. Stopping(c, {Write("ctrl0", "clear")})'
    BY DEF Stopping, StopAccess, Write, Open
<1>7. SelInv(p)'
    BY <1>1, <1>2, <1>3 DEF SelInv
<1>8. call'[p].op /= "start" /\ call'[p].op /= "scan" /\ call'[p].chid = c
    BY <1>1, <1>2, <1>3, <1>4 DEF Ops
<1>9. Stage(p)'
    BY <1>5, <1>6, <1>7, <1>8 DEF Stage
<1>10. \A q \in Callers : q /= p /\ call[q].op \in Ops => call[q].chid /= c
    BY <1>2, <1>3 DEF RegsInv, CallsInv
<1>11. Local(p, c)
    BY <1>1, <1>10 DEF Local
<1>12. (\A q \in Callers : q /= p => Stage(q)') /\ \A d \in Channels : d /= c => Rest(d)'
    BY <1>11, Elsewhere
<1>13. Rest(c)'
    BY <1>1, <1>3 DEF Rest
<1>14. StageInv' /\ RestInv'
    BY <1>9, <1>12, <1>13 DEF StageInv, RestInv
<1> QED
    BY <1>1, <1>14 DEF RegsInv

LEMMA ReturnStage ==
    ASSUME RegsInv, NEW p \in Callers, Return(p)
    PROVE  RegsInv'
<1>1. /\ Typed' /\ CallsInv' /\ call'[p] = Idle /\ call[p].todo = <<>>
      /\ \A q \in Callers : q /= p => call'[q] = call[q]
      /\ UNCHANGED <<sel, regs, head, que, lost, astray>>
      /\ \/ call[p].op = "scan" /\ use' = use
         \/ /\ call[p].op = "start"
            /\ use'[call[p].chid].st = "started"
            /\ use'[call[p].chid].kind = use[call[p].chid].kind
            /\ \A d \in Channels : d /= call[p].chid => use'[d] = use[d]
         \/ /\ call[p].op \in {"stop", "release"}
            /\ use'[call[p].chid].st \in {"free", "stuck"}
            /\ \A d \in Channels : d /= call[p].chid => use'[d] = use[d]
    BY ReturnTyped DEF RegsInv
<1>2. call'[p].op = "idle"
    BY <1>1 DEF Idle
<1>3. Stage(p)'
    BY <1>2 DEF Stage, Ops
<1>4. InSeq(call[p].todo) = {}
    BY <1>1, InEmpty
<1>5. Stage(p)
    BY DEF RegsInv, StageInv
<1>6. PICK c : c = IF call[p].op = "scan" THEN None ELSE call[p].chid
    OBVIOUS
<1>7. call[p].op = "start" /\ c \notin astray => Ready(c)
    BY <1>4, <1>5, <1>6 DEF Stage, Starting, Programmed, Ready
<1>8. call[p].op \in {"stop", "release"} /\ c \notin astray => Quiet(c)
    BY <1>4, <1>5, <1>6 DEF Stage, Stopping, Quiet
<1>9. \A q \in Callers : q /= p /\ call[q].op \in Ops => call[q].chid /= c
    <2>1. CASE call[p].op = "scan"
        BY <1>6, <2>1, LldmaRegsAssumption DEF RegsInv, CallsInv, Channels
    <2>2. CASE call[p].op /= "scan"
        BY <1>1, <1>6, <2>2 DEF RegsInv, CallsInv, Ops
    <2> QED
        BY <2>1, <2>2
<1>10. \A d \in Channels : d /= c => use'[d] = use[d]
    BY <1>1, <1>6
<1>11. Local(p, c)
    BY <1>1, <1>9, <1>10 DEF Local
<1>12. (\A q \in Callers : q /= p => Stage(q)') /\ \A d \in Channels : d /= c => Rest(d)'
    BY <1>11, Elsewhere
<1>13. ASSUME c \in Channels PROVE Rest(c)'
    <2>1. call[p].op /= "scan" /\ c = call[p].chid
        BY <1>6, <1>13, LldmaRegsAssumption DEF Channels
    <2>2. CASE call[p].op = "start"
        BY <2>1, <2>2, <1>1, <1>7 DEF Rest, Ready
    <2>3. CASE call[p].op \in {"stop", "release"}
        BY <2>1, <2>3, <1>1, <1>8 DEF Rest, Quiet
    <2> QED
        BY <2>1, <2>2, <2>3, <1>1
<1>14. StageInv' /\ RestInv'
    BY <1>3, <1>12, <1>13 DEF StageInv, RestInv
<1> QED
    BY <1>1, <1>14 DEF RegsInv

LEMMA EngineStage ==
    ASSUME RegsInv, NEW c \in Channels, Transfer(c)
    PROVE  RegsInv'
<1>1. /\ Typed' /\ CallsInv'
      /\ UNCHANGED <<sel, regs, use, call, lost, astray>>
      /\ \A d \in Channels : use[d].st /= "started" => que'[d] = que[d] /\ head'[d] = head[d]
      /\ \A d \in Channels : que[d] = head[d] => que'[d] = head'[d]
    BY EngineTyped DEF RegsInv
<1>2. ASSUME NEW p \in Callers PROVE Stage(p)'
    <2>1. Stage(p) /\ call'[p] = call[p]
        BY <1>1 DEF RegsInv, StageInv
    <2>2. call[p].op \in Ops => SelInv(p)'
        BY <1>1, <2>1 DEF Stage, SelInv
    <2>3. ASSUME call[p].op = "start"
          PROVE  Starting(call[p].chid, use[call[p].chid].kind, InSeq(call[p].todo))'
        <3>1. Starting(call[p].chid, use[call[p].chid].kind, InSeq(call[p].todo))
            BY <2>1, <2>3 DEF Stage
        <3>2. call[p].chid \in Channels /\ use[call[p].chid].st = "moving"
            BY <2>3 DEF RegsInv, CallsInv, Ops
        <3> QED
            BY <3>1, <3>2, <1>1 DEF Starting, Programmed
    <2>4. call[p].op \in {"stop", "release"} => Stopping(call[p].chid, InSeq(call[p].todo))'
        BY <1>1, <2>1 DEF Stage, Stopping
    <2>5. call[p].op = "scan" => \A a \in InSeq(call[p].todo) : a[1] = "sel"
        BY <2>1 DEF Stage
    <2> QED
        BY <2>1, <2>2, <2>3, <2>4, <2>5 DEF Stage
<1>3. ASSUME NEW d \in Channels PROVE Rest(d)'
    <2>1. Rest(d)
        BY DEF RegsInv, RestInv
    <2> QED
        BY <1>1, <2>1 DEF Rest, Ready, Quiet
<1> QED
    BY <1>1, <1>2, <1>3 DEF RegsInv, StageInv, RestInv

LEMMA RegsStep == RegsInv /\ [Next]_vars => RegsInv'
<1> SUFFICES ASSUME RegsInv, [Next]_vars PROVE RegsInv'
    OBVIOUS
<1>1. ASSUME NEW p \in Callers, Enter(p) PROVE RegsInv'
    BY <1>1, EnterStage
<1>2. ASSUME NEW p \in Callers, Go(p) PROVE RegsInv'
    BY <1>2, SelectStage, WriteStage, HeadsStage, PollStage, TimeoutStage, ReturnStage DEF Go
<1>3. ASSUME Engine PROVE RegsInv'
    BY <1>3, EngineStage DEF Engine
<1>4. CASE UNCHANGED vars
    <2>1. UNCHANGED <<sel, regs, head, que, use, call, lost, astray>>
        BY <1>4 DEF vars
    <2>2. Typed' /\ CallsInv'
        BY <2>1 DEF RegsInv, Typed, CallsInv
    <2>3. StageInv'
        BY <2>1 DEF RegsInv, StageInv, Stage, SelInv, Starting, Programmed, Stopping
    <2>4. RestInv'
        BY <2>1 DEF RegsInv, RestInv, Rest, Ready, Quiet
    <2> QED
        BY <2>2, <2>3, <2>4 DEF RegsInv
<1> QED
    BY <1>1, <1>2, <1>3, <1>4 DEF Next

LEMMA RegsInvariant == Spec => []RegsInv
<1>1. Init => RegsInv
    BY InitRegs
<1>2. RegsInv /\ [Next]_vars => RegsInv'
    BY RegsStep
<1> QED
    BY <1>1, <1>2, PTL DEF Spec

\* Whatever calls interleave, a channel whose start has returned has its own
\* ring, peer and buffer in its registers, is enabled, and the driver's ring is
\* where the engine is, whatever was done before with this channel and with the
\* others: time-outs, releases and other kinds of use included
\* (xpcie_fpga_start_queue, xpcie_fpga_dev_connect).  The exception are the
\* channels with an access that came after another call's write to CH_SEL.
THEOREM StartIsReady == Spec => []StartedIsReady
<1>1. Spec => []RegsInv
    BY RegsInvariant
<1>2. RegsInv => StartedIsReady
    BY RestIsReady DEF RegsInv
<1> QED
    BY <1>1, <1>2, PTL

\* Whatever calls interleave, a channel that is free, or whose stop has timed
\* out, is disabled (xpcie_fpga_stop_queue writes clear also after the time-out;
\* release() stops every channel of the file), with the same exception.
THEOREM FreedIsQuiet == Spec => []FreeIsQuiet
<1>1. Spec => []RegsInv
    BY RegsInvariant
<1>2. RegsInv => FreeIsQuiet
    BY RestIsReady DEF RegsInv
<1> QED
    BY <1>1, <1>2, PTL
-----------------------------------------------------------------------------
(***************************************************************************)
(* The error registers (ErrRegs).  A clear call and the get call of the    *)
(* same register name the same cells, whatever the modules of the card and *)
(* the layers that pack them; so a clear takes back what the caller has    *)
(* read and nothing else.                                                  *)
(***************************************************************************)

LEMMA TableIsItsFunction ==
    ASSUME NEW f
    PROVE  Table(f) = f
    BY DEF Table

LEMMA KindsAreApart ==
    ASSUME NEW kind
    PROVE  /\ kind \in ChainKinds => kind \notin DirectKinds \cup GlobalKinds \cup ConvKinds \cup LaneKinds
           /\ kind \in DirectKinds => kind \notin GlobalKinds \cup ConvKinds \cup LaneKinds
           /\ kind \in GlobalKinds => kind \notin ConvKinds \cup LaneKinds
           /\ kind \in ConvKinds => kind \notin LaneKinds
           /\ "conv_ovf" \in LaneKinds
           /\ "fr_prot" \notin ChainKinds \cup DirectKinds \cup GlobalKinds \cup ConvKinds \cup LaneKinds
    BY DEF ChainKinds, DirectKinds, GlobalKinds, ConvKinds, LaneKinds, CtrlKinds

LEMMA GetAccessOf ==
    ASSUME NEW k \in Keys
    PROVE  /\ k.kind \in ChainKinds => GetAccess[k] = ChainGet(k.kind, k.view, k.args)
           /\ k.kind \in DirectKinds => GetAccess[k] = DirectGet(k.kind, k.view, k.args)
           /\ k.kind \in GlobalKinds => GetAccess[k] = GlobalGet(k.kind, k.view, k.args)
           /\ k.kind \in ConvKinds => GetAccess[k] = ConvGet(k.kind, k.view, k.args)
           /\ k.kind = "conv_ovf" => GetAccess[k] = LaneGet(k.kind, k.args)
           /\ k.kind = "fr_prot" => GetAccess[k] = FrGet(k.kind, k.view, k.args)
<1>1. GetAccess = [x \in Keys |->
        CASE x.kind \in ChainKinds  -> ChainGet(x.kind, x.view, x.args)
          [] x.kind \in DirectKinds -> DirectGet(x.kind, x.view, x.args)
          [] x.kind \in GlobalKinds -> GlobalGet(x.kind, x.view, x.args)
          [] x.kind \in ConvKinds   -> ConvGet(x.kind, x.view, x.args)
          [] x.kind \in LaneKinds   -> LaneGet(x.kind, x.args)
          [] OTHER                  -> FrGet(x.kind, x.view, x.args)]
    BY TableIsItsFunction DEF GetAccess
<1>2. PICK kind : kind = k.kind
    OBVIOUS
<1>3. GetAccess[k] =
        CASE kind \in ChainKinds  -> ChainGet(kind, k.view, k.args)
          [] kind \in DirectKinds -> DirectGet(kind, k.view, k.args)
          [] kind \in GlobalKinds -> GlobalGet(kind, k.view, k.args)
          [] kind \in ConvKinds   -> ConvGet(kind, k.view, k.args)
          [] kind \in LaneKinds   -> LaneGet(kind, k.args)
          [] OTHER                -> FrGet(kind, k.view, k.args)
    BY <1>1, <1>2
<1> QED
    BY <1>2, <1>3, KindsAreApart

LEMMA ClearAccessOf ==
    ASSUME NEW k \in Keys, CanClear(k)
    PROVE  /\ k.kind \in ChainKinds => ClearAccess[k] = ChainClear(k.kind, k.args)
           /\ k.kind \in DirectKinds => ClearAccess[k] = DirectClear(k.kind, k.args)
           /\ k.kind \in GlobalKinds => ClearAccess[k] = GlobalClear(k.kind, k.args)
           /\ k.kind \in ConvKinds => ClearAccess[k] = ConvClear(k.kind, k.args)
           /\ k.kind = "conv_ovf" => ClearAccess[k] = fpga_conv_set_stat_ovf_clear(k.args)
           /\ k.kind = "fr_prot" => ClearAccess[k] = FrClear(k.kind, k.args)
<1>1. ClearAccess = [x \in {y \in Keys : CanClear(y)} |->
        CASE x.kind \in ChainKinds  -> ChainClear(x.kind, x.args)
          [] x.kind \in DirectKinds -> DirectClear(x.kind, x.args)
          [] x.kind \in GlobalKinds -> GlobalClear(x.kind, x.args)
          [] x.kind \in ConvKinds   -> ConvClear(x.kind, x.args)
          [] x.kind = "conv_ovf"    -> fpga_conv_set_stat_ovf_clear(x.args)
          [] OTHER                  -> FrClear(x.kind, x.args)]
    BY TableIsItsFunction DEF ClearAccess
<1>2. PICK kind : kind = k.kind
    OBVIOUS
<1>3. ClearAccess[k] =
        CASE kind \in ChainKinds  -> ChainClear(kind, k.args)
          [] kind \in DirectKinds -> DirectClear(kind, k.args)
          [] kind \in GlobalKinds -> GlobalClear(kind, k.args)
          [] kind \in ConvKinds   -> ConvClear(kind, k.args)
          [] kind = "conv_ovf"    -> fpga_conv_set_stat_ovf_clear(k.args)
          [] OTHER                -> FrClear(kind, k.args)
    BY <1>1, <1>2
<1> QED
    BY <1>2, <1>3, KindsAreApart

\* The calls of a driver or library function that get and clear the same
\* value register name the same cells.
LEMMA ClearsWhatItGets ==
    ASSUME NEW k \in Keys, CanClear(k)
    PROVE  ClearAccess[k] = GetAccess[k]
<1>1. PICK kind, a : kind = k.kind /\ a = k.args
    OBVIOUS
<1>2. k.view = "value"
    BY DEF CanClear
<1>3. kind \in {"chain_prot", "chain_evt", "direct_prot", "clk", "ecc", "conv_prot",
                "conv_func", "conv_mem", "conv_len", "fr_prot", "conv_ovf"}
    BY <1>1 DEF CanClear
<1>4. CASE kind \in {"chain_prot", "chain_evt"}
    <2>1. kind \in ChainKinds
        BY <1>4 DEF ChainKinds
    <2>2. GetAccess[k] = ChainGet(kind, "value", a) /\ ClearAccess[k] = ChainClear(kind, a)
        BY <2>1, <1>1, <1>2, GetAccessOf, ClearAccessOf
    <2>3. kind = "chain_prot" =>
            /\ ChainGet(kind, "value", a) = fpga_chain_get_err_prot(a)
            /\ ChainClear(kind, a) = fpga_chain_set_err_prot_clear(a)
        BY DEF ChainGet, ChainClear
    <2>4. kind = "chain_evt" =>
            /\ ChainGet(kind, "value", a) = fpga_chain_get_err_evt(a)
            /\ ChainClear(kind, a) = fpga_chain_set_err_evt_clear(a)
        BY DEF ChainGet, ChainClear
    <2>5. fpga_chain_get_err_prot(a) = fpga_chain_set_err_prot_clear(a)
        BY DEF fpga_chain_get_err_prot, fpga_chain_set_err_prot_clear, ChainProtIoctl,
               xpcie_fpga_detect_chain_err_prot, xpcie_fpga_clear_chain_err_prot
    <2>6. fpga_chain_get_err_evt(a) = fpga_chain_set_err_evt_clear(a)
        BY DEF fpga_chain_get_err_evt, fpga_chain_set_err_evt_clear, ChainEvtIoctl,
               xpcie_fpga_detect_chain_err_evt, xpcie_fpga_clear_chain_err_evt
    <2> QED
        BY <1>4, <2>2, <2>3, <2>4, <2>5, <2>6
<1>5. CASE kind = "direct_prot"
    <2>1. kind \in DirectKinds
        BY <1>5 DEF DirectKinds
    <2>2. GetAccess[k] = DirectGet(kind, "value", a) /\ ClearAccess[k] = DirectClear(kind, a)
        BY <2>1, <1>1, <1>2, GetAccessOf, ClearAccessOf
    <2>3. /\ DirectGet(kind, "value", a) = fpga_direct_get_err_prot(a)
          /\ DirectClear(kind, a) = fpga_direct_set_err_prot_clear(a)
        BY <1>5 DEF DirectGet, DirectClear
    <2>4. fpga_direct_get_err_prot(a) = fpga_direct_set_err_prot_clear(a)
        BY DEF fpga_direct_get_err_prot, fpga_direct_set_err_prot_clear, DirectProtIoctl,
               xpcie_fpga_detect_direct_err_prot, xpcie_fpga_clear_direct_err_prot
    <2> QED
        BY <2>2, <2>3, <2>4
<1>6. CASE kind \in {"clk", "ecc"}
    <2>1. kind \in GlobalKinds
        BY <1>6 DEF GlobalKinds
    <2>2. GetAccess[k] = GlobalGet(kind, "value", a) /\ ClearAccess[k] = GlobalClear(kind, a)
        BY <2>1, <1>1, <1>2, GetAccessOf, ClearAccessOf
    <2>3. kind = "clk" =>
            /\ GlobalGet(kind, "value", a) = fpga_dev_get_clk_dwn(a)
            /\ GlobalClear(kind, a) = fpga_dev_set_clk_dwn_clear(a)
        BY DEF GlobalGet, GlobalClear
    <2>4. kind = "ecc" =>
            /\ GlobalGet(kind, "value", a) = fpga_dev_get_ecc_err(a)
            /\ GlobalClear(kind, a) = fpga_dev_set_ecc_err_clear(a)
        BY DEF GlobalGet, GlobalClear
    <2>5. fpga_dev_get_clk_dwn(a) = fpga_dev_set_clk_dwn_clear(a)
        BY DEF fpga_dev_get_clk_dwn, fpga_dev_set_clk_dwn_clear, ClkCall, ClkIoctl,
               xpcie_fpga_clk_dwn_det, xpcie_fpga_clk_dwn_clear
    <2>6. ASSUME NEW type
          PROVE  EccIoctl("GET_ECCERR", type) = EccIoctl("SET_ECCERR_CLR", type)
        BY DEF EccIoctl, xpcie_fpga_ecc_err_det, xpcie_fpga_ecc_err_clear
    <2>7. fpga_dev_get_ecc_err(a) = fpga_dev_set_ecc_err_clear(a)
        BY <2>6 DEF fpga_dev_get_ecc_err, fpga_dev_set_ecc_err_clear, EccCall
    <2> QED
        BY <1>6, <2>2, <2>3, <2>4, <2>5, <2>7
<1>7. CASE kind \in {"conv_prot", "conv_func", "conv_mem", "conv_len"}
    <2>1. kind \in ConvKinds
        BY <1>7 DEF ConvKinds
    <2>2. GetAccess[k] = ConvGet(kind, "value", a) /\ ClearAccess[k] = ConvClear(kind, a)
        BY <2>1, <1>1, <1>2, GetAccessOf, ClearAccessOf
    <2>3. kind = "conv_prot" =>
            /\ ConvGet(kind, "value", a) = fpga_conv_get_err_prot(a)
            /\ ConvClear(kind, a) = fpga_conv_set_err_prot_clear(a)
        BY DEF ConvGet, ConvClear
    <2>4. kind = "conv_func" =>
            /\ ConvGet(kind, "value", a) = fpga_conv_get_err_prot_func(a)
            /\ ConvClear(kind, a) = fpga_conv_set_err_prot_func_clear(a)
        BY DEF ConvGet, ConvClear
    <2>5. kind = "conv_mem" =>
            /\ ConvGet(kind, "value", a) = fpga_conv_get_err_mem_parity(a)
            /\ ConvClear(kind, a) = fpga_conv_set_err_mem_parity_clear(a)
        BY DEF ConvGet, ConvClear
    <2>6. kind = "conv_len" =>
            /\ ConvGet(kind, "value", a) = fpga_conv_get_err_length_fault(a)
            /\ ConvClear(kind, a) = fpga_conv_set_err_length_fault_clear(a)
        BY DEF ConvGet, ConvClear
    <2>7. /\ fpga_conv_get_err_prot(a) = fpga_conv_set_err_prot_clear(a)
          /\ fpga_conv_get_err_prot_func(a) = fpga_conv_set_err_prot_func_clear(a)
          /\ fpga_conv_get_err_mem_parity(a) = fpga_conv_set_err_mem_parity_clear(a)
          /\ fpga_conv_get_err_length_fault(a) = fpga_conv_set_err_length_fault_clear(a)
        BY DEF fpga_conv_get_err_prot, fpga_conv_set_err_prot_clear,
               fpga_conv_get_err_prot_func, fpga_conv_set_err_prot_func_clear,
               fpga_conv_get_err_mem_parity, fpga_conv_set_err_mem_parity_clear,
               fpga_conv_get_err_length_fault, fpga_conv_set_err_length_fault_clear
    <2> QED
        BY <1>7, <2>2, <2>3, <2>4, <2>5, <2>6, <2>7
<1>8. CASE kind = "conv_ovf"
    <2>1. GetAccess[k] = LaneGet(kind, a) /\ ClearAccess[k] = fpga_conv_set_stat_ovf_clear(a)
        BY <1>8, <1>1, GetAccessOf, ClearAccessOf
    <2>2. LaneGet(kind, a) = fpga_conv_get_stat_ovf(a)
        BY <1>8 DEF LaneGet
    <2>3. fpga_conv_get_stat_ovf(a) = fpga_conv_set_stat_ovf_clear(a)
        BY DEF fpga_conv_get_stat_ovf, fpga_conv_set_stat_ovf_clear
    <2> QED
        BY <2>1, <2>2, <2>3
<1>9. CASE kind = "fr_prot"
    <2>1. GetAccess[k] = FrGet(kind, "value", a) /\ ClearAccess[k] = FrClear(kind, a)
        BY <1>9, <1>1, <1>2, GetAccessOf, ClearAccessOf
    <2>2. /\ FrGet(kind, "value", a) = fpga_filter_resize_get_err_prot(a)
          /\ FrClear(kind, a) = fpga_filter_resize_set_err_prot_clear(a)
        BY <1>9 DEF FrGet, FrClear
    <2>3. fpga_filter_resize_get_err_prot(a) = fpga_filter_resize_set_err_prot_clear(a)
        BY DEF fpga_filter_resize_get_err_prot, fpga_filter_resize_set_err_prot_clear
    <2> QED
        BY <2>1, <2>2, <2>3
<1> QED
    BY <1>3, <1>4, <1>5, <1>6, <1>7, <1>8, <1>9

\* What the last get returned is still there, and counted as seen; nothing is
\* unseen in a register that the library writes.
ErrInv ==
    /\ key \in Keys
    /\ NoFaultLost
    /\ IsSet(key) => unseen = {}
    /\ ~IsSet(key) => \A p \in snap : /\ p \in DOMAIN GetAccess[key]
                                      /\ GetAccess[key][p] \in one \ unseen

LEMMA ErrInvInit == ErrInit => ErrInv
    BY DEF ErrInit, ErrInv, NoFaultLost

LEMMA ErrInvSet ==
    ASSUME ErrInv, NEW S, Set(S)
    PROVE  ErrInv'
<1>1. IsSet(key) /\ key' = key /\ unseen' = unseen
    BY DEF Set
<1> QED
    BY <1>1 DEF ErrInv, NoFaultLost, IsSet

LEMMA ErrInvRaise ==
    ASSUME ErrInv, NEW p, Raise(p)
    PROVE  ErrInv'
<1> DEFINE c == GetAccess[key][p]
<1>1. /\ ~IsSet(key)
      /\ c \notin one
      /\ key' = key /\ snap' = snap
      /\ one' = one \cup {c} /\ unseen' = unseen \cup {c}
    BY DEF Raise
<1>2. ASSUME NEW q \in snap
      PROVE  q \in DOMAIN GetAccess[key] /\ GetAccess[key][q] \in one' \ unseen'
    BY <1>1 DEF ErrInv
<1> QED
    BY <1>1, <1>2 DEF ErrInv, NoFaultLost, IsSet

LEMMA ErrInvGet ==
    ASSUME ErrInv, Get
    PROVE  ErrInv'
<1>1. /\ key' = key /\ one' = one
      /\ snap' = {p \in DOMAIN GetAccess[key] : GetAccess[key][p] \in one}
      /\ unseen' = unseen \ {GetAccess[key][p] : p \in snap'}
    BY DEF Get
<1>2. ASSUME NEW p \in snap'
      PROVE  p \in DOMAIN GetAccess[key] /\ GetAccess[key][p] \in one' \ unseen'
    BY <1>1
<1> QED
    BY <1>1, <1>2 DEF ErrInv, NoFaultLost, IsSet

\* A clear writes the bits of the flags it was given and no others: they are
\* the bits the last get read, and none of them is unseen.
LEMMA ErrInvClear ==
    ASSUME ErrInv, Clear
    PROVE  ErrInv'
<1>1. /\ CanClear(key)
      /\ key' = key /\ unseen' = unseen /\ snap' = {}
      /\ one' = one \ {ClearAccess[key][p] : p \in snap \cap DOMAIN ClearAccess[key]}
    BY DEF Clear, WriteOneToClear
<1>2. key \in Keys /\ ClearAccess[key] = GetAccess[key]
    BY <1>1, ClearsWhatItGets DEF ErrInv
<1>3. ~IsSet(key)
    BY <1>1 DEF CanClear, IsSet
<1>4. ASSUME NEW p \in snap
      PROVE  GetAccess[key][p] \notin unseen
    BY <1>3 DEF ErrInv
<1>5. unseen' \subseteq one'
    BY <1>1, <1>2, <1>4 DEF ErrInv, NoFaultLost
<1> QED
    BY <1>1, <1>2, <1>3, <1>5 DEF ErrInv, NoFaultLost, IsSet

LEMMA ErrInvHolds == ErrSpec => []ErrInv
<1>1. ASSUME ErrInv, [ErrNext]_errVars
      PROVE  ErrInv'
    <2>1. CASE \E p \in Probed(key) : Set({p}) \/ Raise(p)
        BY <1>1, <2>1, ErrInvSet, ErrInvRaise
    <2>2. CASE Set({})
        BY <1>1, <2>2, ErrInvSet
    <2>3. CASE key.kind = "chain_ddr" /\ Set(DDR_VALUES(key.args))
        BY <1>1, <2>3, ErrInvSet
    <2>4. CASE Get
        BY <1>1, <2>4, ErrInvGet
    <2>5. CASE Clear
        BY <1>1, <2>5, ErrInvClear
    <2>6. CASE UNCHANGED errVars
        BY <1>1, <2>6 DEF errVars, ErrInv, NoFaultLost, IsSet
    <2> QED
        BY <1>1, <2>1, <2>2, <2>3, <2>4, <2>5, <2>6 DEF ErrNext
<1> QED
    BY <1>1, ErrInvInit, PTL DEF ErrSpec

\* A fault the hardware has raised and no get has returned is never cleared,
\* for any number of lanes, connection ids, bits and calls: the set_..._clear
\* calls of the libraries and the driver functions behind them.
THEOREM FaultsAreNotLost == ErrSpec => []NoFaultLost
<1>1. ErrInv => NoFaultLost
    BY DEF ErrInv
<1> QED
    BY <1>1, ErrInvHolds, PTL
=============================================================================
