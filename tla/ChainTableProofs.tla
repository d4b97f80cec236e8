-------------------------- MODULE ChainTableProofs --------------------------
(***************************************************************************)
(* The driver's copy of the function chain table is right about the FPGA's *)
(* tables when a lane's side sees one ioctl at a time, for any threads,    *)
(* lanes, function channels, sessions and scenarios.                       *)
(***************************************************************************)
EXTENDS ChainTable, Integers, SequenceTheorems, TLAPS

(***************************************************************************)
(* What a thread may be doing.                                             *)
(***************************************************************************)
Ioctls ==
    {i \in [op : {"update", "delete", "read"}, side : Sides, sess : Sessions \cup {None}] :
        /\ i.op = "delete" => i.sess = None
        /\ i.side = "ingr" /\ i.op # "delete" => i.sess \in Sessions}

\* A plan is one ioctl, or one of the ingress and one of the egress side.
PlanOK(plan) ==
    \E i \in Ioctls : \/ plan = <<i>>
                      \/ \E k \in Ioctls : i.side = "ingr" /\ k.side = "egr" /\ plan = <<i, k>>

InIoctl == {"write", "poll", "fetch"}
Busy == {"next"} \cup InIoctl

JobOK(j) ==
    /\ j = [st |-> j.st, call |-> j.call, lane |-> j.lane, fch |-> j.fch, sess |-> j.sess,
            plan |-> j.plan, todo |-> j.todo, got |-> j.got, ok |-> j.ok]
    /\ j.st \in {"idle", "done"} \cup Busy
    /\ j.st # "idle" => j.lane \in Lanes /\ j.fch \in Fchs
    /\ j.st \in Busy => PlanOK(j.plan)

\* The registers an ioctl writes: the key the FPGA looks up, for an update the
\* value, and the request.  s is the session the ioctl is about.
KeyReg(i, f, s) == IF i.side = "ingr" THEN <<"session", s>> ELSE <<"channel", f>>
ValueReg(i, f, s) == IF i.side = "ingr" THEN <<"channel", f>> ELSE <<"session", s>>
ReqReg(i) == <<"req", i.op>>

\* The requests that change the table.
Changes == {"update", "delete"}

Quiet(r) == r.req = "none" /\ ~ r.resp
HasKey(i, f, s, r) == IF i.side = "ingr" THEN r.session = s ELSE r.channel = f
HasValue(i, f, s, r) == i.op = "update" => IF i.side = "ingr" THEN r.channel = f ELSE r.session = s

\* How far an ioctl has come, and what is in the registers r by then.
Stage(j, i, s, r) ==
    \/ /\ j.st = "write"
       /\ j.todo = IF i.op = "update"
                   THEN <<Clear, KeyReg(i, j.fch, s), ValueReg(i, j.fch, s), ReqReg(i)>>
                   ELSE <<Clear, KeyReg(i, j.fch, s), ReqReg(i)>>
    \/ /\ j.st = "write" /\ Quiet(r)
       /\ j.todo = IF i.op = "update"
                   THEN <<KeyReg(i, j.fch, s), ValueReg(i, j.fch, s), ReqReg(i)>>
                   ELSE <<KeyReg(i, j.fch, s), ReqReg(i)>>
    \/ /\ j.st = "write" /\ Quiet(r) /\ HasKey(i, j.fch, s, r)
       /\ i.op = "update" /\ j.todo = <<ValueReg(i, j.fch, s), ReqReg(i)>>
    \/ /\ j.st = "write" /\ Quiet(r) /\ HasKey(i, j.fch, s, r) /\ HasValue(i, j.fch, s, r)
       /\ j.todo = <<ReqReg(i)>>
    \/ /\ j.st \in {"poll", "fetch"} /\ j.todo = <<>>
       /\ r.req = i.op /\ HasKey(i, j.fch, s, r) /\ HasValue(i, j.fch, s, r)
       /\ j.st = "fetch" => i.op = "read"

\* What the FPGA has done by the time its response is seen.
Effect(j, i, s, r, in, eg) ==
    j.st = "poll" /\ r.resp =>
        /\ i.side = "egr" /\ i.op = "update" => eg[j.fch] = s
        /\ i.side = "egr" /\ i.op = "delete" => eg[j.fch] = None
        /\ i.side = "ingr" /\ i.op = "update" => in[s] = j.fch
        /\ i.side = "ingr" /\ i.op = "delete" => in[s] = None

\* The session of an update or a read is the caller's, that of a delete in D.
IoctlOK(j, r, in, eg, D) ==
    LET i == Head(j.plan) IN
    \E s \in Sessions \cup {None} :
        /\ i.side = "ingr" => s \in Sessions
        /\ IF i.op = "delete" THEN i.side = "ingr" => s \in D ELSE s = i.sess
        /\ Stage(j, i, s, r)
        /\ Effect(j, i, s, r, in, eg)

(***************************************************************************)
(* The invariant of a driver that serves one ioctl at a time on a side.    *)
(***************************************************************************)
Regs == [req : {"none", "update", "delete", "read"}, session : Sessions \cup {None},
         channel : Fchs \cup {None}, resp : BOOLEAN]

TablesInv ==
    /\ soft \in [Lanes -> [Fchs -> [Sides -> Sessions \cup {None}]]]
    /\ ingr \in [Lanes -> [Sessions -> Fchs \cup {None}]]
    /\ egr \in [Lanes -> [Fchs -> Sessions \cup {None}]]

\* A request names an entry of the table.
RegsInv ==
    /\ regs \in [Lanes -> [Sides -> Regs]]
    /\ \A l \in Lanes : /\ regs[l]["ingr"].req # "none" => regs[l]["ingr"].session \in Sessions
                        /\ regs[l]["egr"].req # "none" => regs[l]["egr"].channel \in Fchs

JobsInv ==
    /\ job = [p \in Procs |-> job[p]]
    /\ \A p \in Procs : JobOK(job[p])

\* The session of a careful caller's delete stays in the driver's copy until
\* the delete is over.
Deleted(l, f) == IF env.careful THEN {soft[l][f]["ingr"]} ELSE Sessions

IoctlsInv ==
    \A p \in Procs, l \in Lanes, k \in Sides :
        Working(p, l, k) => IoctlOK(job[p], regs[l][k], ingr[l], egr[l], Deleted(l, job[p].fch))

\* A request that is still to be served is that of the thread that polls, or
\* has timed out.
Pending(r) == r.req \in Changes /\ ~ r.resp

Polled(l, k) == \E p \in Procs : Working(p, l, k) /\ job[p].st = "poll"

LateEgress ==
    \A l \in Lanes : LET r == regs[l]["egr"] IN
        Pending(r) => Polled(l, "egr") \/ <<l, r.channel, "egr">> \in lost

\* Thread p is about to see that its update or delete has been done.
Answered(p, l, k) ==
    /\ Working(p, l, k) /\ job[p].st = "poll"
    /\ regs[l][k].resp /\ Head(job[p].plan).op \in Changes

\* A chain of the copy that did not time out is in the FPGA's table, unless
\* its change is about to be seen.
EgressTrue ==
    \A l \in Lanes, f \in Fchs :
        soft[l][f]["egr"] # None /\ <<l, f, "egr">> \notin lost =>
            \/ egr[l][f] = soft[l][f]["egr"]
            \/ \E p \in Procs : Answered(p, l, "egr") /\ job[p].fch = f

SerialInv ==
    /\ TablesInv /\ RegsInv /\ JobsInv
    /\ Exclusive /\ IoctlsInv
    /\ LateEgress /\ EgressTrue

(***************************************************************************)
(* The invariant of careful callers.                                       *)
(***************************************************************************)
\* No two function channels of a lane have one session in the copy.
DistinctInv ==
    \A l \in Lanes, f, g \in Fchs :
        f # g /\ soft[l][f]["ingr"] # None => soft[l][f]["ingr"] # soft[l][g]["ingr"]

OnIngress(j) == j.st \in Busy /\ Head(j.plan).side = "ingr"

\* Two calls on a lane are about different channels and sessions.
ApartInv ==
    \A p, q \in Procs :
        p # q /\ job[p].st # "idle" /\ job[q].st # "idle" /\ job[p].lane = job[q].lane =>
            /\ job[p].fch # job[q].fch
            /\ OnIngress(job[p]) /\ OnIngress(job[q]) /\ Head(job[p].plan).sess = Head(job[q].plan).sess
                  => Head(job[p].plan).sess = None

\* The session that an ingress update is about is nobody's.
FreeInv ==
    \A p \in Procs :
        OnIngress(job[p]) /\ Head(job[p].plan).op = "update" =>
            /\ soft[job[p].lane][job[p].fch]["ingr"] = None
            /\ \A g \in Fchs : soft[job[p].lane][g]["ingr"] # Head(job[p].plan).sess

LateIngress ==
    \A l \in Lanes : LET r == regs[l]["ingr"] IN
        Pending(r) => \/ Polled(l, "ingr")
                      \/ \A f \in Fchs : soft[l][f]["ingr"] = r.session => <<l, f, "ingr">> \in lost

IngressTrue ==
    \A l \in Lanes, f \in Fchs :
        soft[l][f]["ingr"] # None /\ <<l, f, "ingr">> \notin lost =>
            \/ ingr[l][soft[l][f]["ingr"]] = f
            \/ \E p \in Procs : Answered(p, l, "ingr") /\ job[p].fch = f

CarefulInv == DistinctInv /\ ApartInv /\ FreeInv /\ LateIngress /\ IngressTrue

(***************************************************************************)
(* What fpga_chain_connect() leaves, with careful callers.                 *)
(***************************************************************************)
\* The egress side of an entry that did not time out is what the copy says,
\* unless its change is about to be seen.
EgressMirror ==
    \A l \in Lanes, f \in Fchs :
        \/ <<l, f, "egr">> \in lost
        \/ egr[l][f] = soft[l][f]["egr"]
        \/ \E p \in Procs : Answered(p, l, "egr") /\ job[p].fch = f

\* An update of the ingress side that is still to be served is that of the
\* thread that polls, or has timed out.
LateUpdate ==
    \A l \in Lanes : LET r == regs[l]["ingr"] IN
        r.req = "update" /\ ~ r.resp => Polled(l, "ingr") \/ <<l, r.channel, "ingr">> \in lost

\* One call, v being the copy's session for its function channel and in the
\* function channel its session is forwarded to: the ingress side is set from
\* the update's answer to the end of the rollback, and not after it.
ConnectOK(j, v, in, L) ==
    j.call = "connect" =>
        /\ j.sess \in Sessions
        /\ OnIngress(j) /\ j.ok => Head(j.plan).op = "update" /\ Head(j.plan).sess = j.sess
        /\ j.st \in Busy /\ ~ (OnIngress(j) /\ j.ok) => v = j.sess
        /\ j.st \in Busy /\ ~ j.ok => j.plan = <<Delete("ingr")>>
        /\ j.st = "done" /\ ~ j.ok => <<j.lane, j.fch, "ingr">> \in L \/ in # j.fch

ConnectInv ==
    \A p \in Procs : LET j == job[p] IN
        ConnectOK(j, soft[j.lane][j.fch]["ingr"], ingr[j.lane][j.sess], lost)

PairInv == EgressMirror /\ LateUpdate /\ ConnectInv

(***************************************************************************)
(* The invariant of careful callers and a prompt FPGA.                     *)
(***************************************************************************)
IngressMirror ==
    \A l \in Lanes, s \in Sessions :
        \/ \A f \in Fchs : ingr[l][s] = f <=> soft[l][f]["ingr"] = s
        \/ (\E p \in Procs : Answered(p, l, "ingr")) /\ regs[l]["ingr"].session = s

\* Whoever makes a request waits until it is served.
PromptInv == \A l \in Lanes, k \in Sides : Pending(regs[l][k]) => Polled(l, k)

MirrorInv == lost = {} /\ PromptInv /\ IngressMirror

ChainInv ==
    env.serial =>
        /\ SerialInv
        /\ env.careful => CarefulInv /\ PairInv
        /\ env.careful /\ ~ env.timeout => MirrorInv
-----------------------------------------------------------------------------
(***************************************************************************)
(* Lemmas about plans and register writes.                                 *)
(***************************************************************************)
LEMMA PlanShape ==
    ASSUME NEW plan, PlanOK(plan)
    PROVE  /\ plan # <<>> /\ Head(plan) \in Ioctls
           /\ \/ Tail(plan) = <<>>
              \/ /\ PlanOK(Tail(plan)) /\ Head(plan).side = "ingr"
                 /\ Head(Tail(plan)).side = "egr"
<1>1. PICK i \in Ioctls : \/ plan = <<i>>
                          \/ \E k \in Ioctls : i.side = "ingr" /\ k.side = "egr" /\ plan = <<i, k>>
    BY DEF PlanOK
<1>2. CASE plan = <<i>>
    BY <1>2
<1>3. CASE \E k \in Ioctls : i.side = "ingr" /\ k.side = "egr" /\ plan = <<i, k>>
    <2>1. PICK k \in Ioctls : i.side = "ingr" /\ k.side = "egr" /\ plan = <<i, k>>
        BY <1>3
    <2>2. Head(plan) = i /\ Tail(plan) = <<k>> /\ plan # <<>> /\ Head(<<k>>) = k
        BY <2>1
    <2>3. PlanOK(<<k>>)
        BY DEF PlanOK
    <2> QED
        BY <2>1, <2>2, <2>3
<1> QED
    BY <1>1, <1>2, <1>3

LEMMA DeletePlan == Delete("ingr") \in Ioctls /\ PlanOK(<<Delete("ingr")>>)
<1>1. Delete("ingr") \in Ioctls
    BY DEF Delete, Ioctl, Ioctls, Sides
<1> QED
    BY <1>1 DEF PlanOK

\* The next state of a call whose ioctl has succeeded.
LEMMA AdvanceJob ==
    ASSUME NEW j, JobOK(j), j.st \in Busy
    PROVE  /\ JobOK(Advance(j)) /\ Advance(j).st \in {"next", "done"}
           /\ Advance(j).lane = j.lane /\ Advance(j).fch = j.fch
           /\ Advance(j).call = j.call /\ Advance(j).sess = j.sess /\ Advance(j).ok = j.ok
           /\ Advance(j).st = "next" => /\ Advance(j).plan = Tail(j.plan)
                                        /\ Head(Advance(j).plan).side = "egr"
<1> DEFINE n == Advance(j)
<1>1. /\ j.st # "idle" /\ PlanOK(j.plan) /\ j.lane \in Lanes /\ j.fch \in Fchs
      /\ j = [st |-> j.st, call |-> j.call, lane |-> j.lane, fch |-> j.fch, sess |-> j.sess,
              plan |-> j.plan, todo |-> j.todo, got |-> j.got, ok |-> j.ok]
    BY DEF JobOK, Busy, InIoctl
<1>2. CASE Tail(j.plan) = <<>>
    <2>1. n = [st |-> "done", call |-> j.call, lane |-> j.lane, fch |-> j.fch, sess |-> j.sess,
               plan |-> <<>>, todo |-> j.todo, got |-> j.got, ok |-> j.ok]
        BY <1>1, <1>2 DEF Advance
    <2> HIDE DEF n
    <2>2. JobOK(n)
        BY <2>1, <1>1 DEF JobOK, Busy, InIoctl
    <2> QED
        BY <2>1, <2>2 DEF n
<1>3. CASE Tail(j.plan) # <<>>
    <2>1. n = [st |-> "next", call |-> j.call, lane |-> j.lane, fch |-> j.fch, sess |-> j.sess,
               plan |-> Tail(j.plan), todo |-> j.todo, got |-> j.got, ok |-> j.ok]
        BY <1>1, <1>3 DEF Advance
    <2>2. PlanOK(Tail(j.plan)) /\ Head(Tail(j.plan)).side = "egr"
        BY <1>1, <1>3, PlanShape
    <2> HIDE DEF n
    <2>3. JobOK(n)
        BY <2>1, <2>2, <1>1 DEF JobOK, Busy, InIoctl
    <2>4. /\ n.st = "next" /\ n.lane = j.lane /\ n.fch = j.fch /\ n.call = j.call /\ n.sess = j.sess
          /\ n.ok = j.ok /\ n.plan = Tail(j.plan)
        BY <2>1
    <2> QED
        BY <2>2, <2>3, <2>4, Zenon DEF n
<1> QED
    BY <1>2, <1>3

\* The next state of a call whose ioctl has failed.
LEMMA AbortJob ==
    ASSUME NEW j, JobOK(j), j.st \in Busy
    PROVE  /\ JobOK(Abort(j)) /\ Abort(j).st \in {"next", "done"}
           /\ Abort(j).lane = j.lane /\ Abort(j).fch = j.fch
           /\ Abort(j).call = j.call /\ Abort(j).sess = j.sess /\ Abort(j).ok = FALSE
           /\ Abort(j).st = "next" => /\ Abort(j).plan = <<Delete("ingr")>>
                                      /\ Head(Abort(j).plan) = Delete("ingr")
           /\ Abort(j).st = "next" => Head(j.plan).side = "egr"
           /\ Abort(j).st = "done" /\ j.call = "connect" => Head(j.plan).side # "egr"
<1> DEFINE n == Abort(j)
<1>1. /\ j.st # "idle" /\ PlanOK(j.plan) /\ j.lane \in Lanes /\ j.fch \in Fchs
      /\ j = [st |-> j.st, call |-> j.call, lane |-> j.lane, fch |-> j.fch, sess |-> j.sess,
              plan |-> j.plan, todo |-> j.todo, got |-> j.got, ok |-> j.ok]
    BY DEF JobOK, Busy, InIoctl
<1>2. CASE j.call = "connect" /\ Head(j.plan).side = "egr"
    <2>1. n = [st |-> "next", call |-> j.call, lane |-> j.lane, fch |-> j.fch, sess |-> j.sess,
               plan |-> <<Delete("ingr")>>, todo |-> j.todo, got |-> j.got, ok |-> FALSE]
        BY <1>1, <1>2 DEF Abort
    <2> HIDE DEF n
    <2>2. JobOK(n)
        BY <2>1, <1>1, DeletePlan DEF JobOK, Busy, InIoctl
    <2>3. Head(n.plan) = Delete("ingr")
        BY <2>1
    <2> QED
        BY <1>2, <2>1, <2>2, <2>3 DEF n
<1>3. CASE ~ (j.call = "connect" /\ Head(j.plan).side = "egr")
    <2>1. n = [st |-> "done", call |-> j.call, lane |-> j.lane, fch |-> j.fch, sess |-> j.sess,
               plan |-> <<>>, todo |-> j.todo, got |-> j.got, ok |-> FALSE]
        BY <1>1, <1>3 DEF Abort
    <2> HIDE DEF n
    <2>2. JobOK(n)
        BY <2>1, <1>1 DEF JobOK, Busy, InIoctl
    <2> QED
        BY <1>3, <2>1, <2>2 DEF n
<1> QED
    BY <1>2, <1>3

LEMMA JoinLast ==
    ASSUME NEW S, NEW q \in Seq(S), NEW t \in Seq(S), NEW x \in S,
           Len(t) = Len(q) + 1, t[Len(q) + 1] = x, \A i \in 1 .. Len(q) : t[i] = q[i]
    PROVE  q \o <<x>> = t
<1>1. <<x>> \in Seq(S) /\ Len(<<x>>) = 1 /\ <<x>>[1] = x /\ Len(q) \in Nat
    OBVIOUS
<1>2. PICK s : s = q \o <<x>>
    OBVIOUS
<1>3. /\ s \in Seq(S) /\ Len(s) = Len(q) + Len(<<x>>)
      /\ \A i \in 1 .. Len(q) + Len(<<x>>) : s[i] =
                     IF i <= Len(q) THEN q[i] ELSE <<x>>[i - Len(q)]
    BY <1>1, <1>2, ConcatProperties, Zenon
<1>4. Len(s) = Len(t)
    BY <1>1, <1>3
<1>5. \A i \in 1 .. Len(s) : s[i] = t[i]
    <2> SUFFICES ASSUME NEW i \in 1 .. Len(s) PROVE s[i] = t[i]
        OBVIOUS
    <2>1. CASE i <= Len(q)
        BY <2>1, <1>1, <1>3
    <2>2. CASE i = Len(q) + 1
        BY <2>2, <1>1, <1>3
    <2>3. i <= Len(q) \/ i = Len(q) + 1
        BY <1>1, <1>3
    <2> QED
        BY <2>1, <2>2, <2>3
<1>6. s = t
    BY <1>3, <1>4, <1>5, SeqEqual, Zenon
<1> QED
    BY <1>2, <1>6

LEMMA Join2 == ASSUME NEW a, NEW b PROVE <<a>> \o <<b>> = <<a, b>>
<1>1. /\ b \in {a, b} /\ <<a>> \in Seq({a, b}) /\ <<a, b>> \in Seq({a, b}) /\ Len(<<a, b>>) = Len(<<a>>) + 1
      /\ <<a, b>>[Len(<<a>>) + 1] = b /\ \A i \in 1 .. Len(<<a>>) : <<a, b>>[i] = <<a>>[i]
    OBVIOUS
<1> QED
    BY <1>1, JoinLast, ZenonT(40)

LEMMA Join3 == ASSUME NEW a, NEW b, NEW c PROVE <<a, b>> \o <<c>> = <<a, b, c>>
<1>1. /\ c \in {a, b, c} /\ <<a, b>> \in Seq({a, b, c}) /\ <<a, b, c>> \in Seq({a, b, c})
      /\ Len(<<a, b, c>>) = Len(<<a, b>>) + 1 /\ <<a, b, c>>[Len(<<a, b>>) + 1] = c
      /\ \A i \in 1 .. Len(<<a, b>>) : <<a, b, c>>[i] = <<a, b>>[i]
    OBVIOUS
<1> QED
    BY <1>1, JoinLast, ZenonT(40)

LEMMA Join4 == ASSUME NEW a, NEW b, NEW c, NEW d PROVE <<a, b, c>> \o <<d>> = <<a, b, c, d>>
<1>1. /\ d \in {a, b, c, d} /\ <<a, b, c>> \in Seq({a, b, c, d}) /\ <<a, b, c, d>> \in Seq({a, b, c, d})
      /\ Len(<<a, b, c, d>>) = Len(<<a, b, c>>) + 1 /\ <<a, b, c, d>>[Len(<<a, b, c>>) + 1] = d
      /\ \A i \in 1 .. Len(<<a, b, c>>) : <<a, b, c, d>>[i] = <<a, b, c>>[i]
    OBVIOUS
<1> QED
    BY <1>1, JoinLast, ZenonT(40)

\* What an ioctl that is not refused writes.
LEMMA WritesShape ==
    ASSUME NEW l, NEW f, NEW i, NEW s,
           s = IF i.op = "delete" THEN soft[l][f][i.side] ELSE i.sess
    PROVE  Writes(l, f, i) = IF i.op = "update"
                             THEN <<Clear, KeyReg(i, f, s), ValueReg(i, f, s), ReqReg(i)>>
                             ELSE <<Clear, KeyReg(i, f, s), ReqReg(i)>>
<1> DEFINE key == IF i.side = "ingr" THEN << <<"session", s>> >> ELSE << <<"channel", f>> >>
           value == IF i.op /= "update" THEN <<>>
                    ELSE IF i.side = "ingr" THEN << <<"channel", f>> >>
                    ELSE << <<"session", s>> >>
<1>1. Writes(l, f, i) = <<Clear>> \o key \o value \o <<ReqReg(i)>>
    BY DEF Writes, ReqReg
<1>2. key = <<KeyReg(i, f, s)>>
    BY DEF KeyReg
<1> HIDE DEF key
<1>3. <<Clear>> \o key = <<Clear, KeyReg(i, f, s)>>
    BY <1>2, Join2
<1>4. CASE i.op = "update"
    <2>1. value = <<ValueReg(i, f, s)>>
        BY <1>4 DEF ValueReg
    <2> HIDE DEF value
    <2>2. <<Clear, KeyReg(i, f, s)>> \o value = <<Clear, KeyReg(i, f, s), ValueReg(i, f, s)>>
        BY <2>1, Join3
    <2>3. PICK a, b, c, d : a = Clear /\ b = KeyReg(i, f, s) /\ c = ValueReg(i, f, s) /\ d = ReqReg(i)
        OBVIOUS
    <2>4. <<a, b, c>> \o <<d>> = <<a, b, c, d>>
        BY Join4
    <2>5. <<Clear>> \o key \o value = <<a, b, c>>
        BY <1>3, <2>2, <2>3
    <2> QED
        BY <1>1, <1>4, <2>3, <2>4, <2>5
<1>5. CASE i.op # "update"
    <2>1. value = <<>>
        BY <1>5
    <2> HIDE DEF value
    <2>2. <<Clear, KeyReg(i, f, s)>> \in Seq({Clear, KeyReg(i, f, s)})
        OBVIOUS
    <2>3. <<Clear, KeyReg(i, f, s)>> \o value = <<Clear, KeyReg(i, f, s)>>
        BY <2>1, <2>2, ConcatEmptySeq
    <2> QED
        BY <1>1, <1>3, <1>5, <2>3, Join3
<1> QED
    BY <1>4, <1>5

(***************************************************************************)
(* What the steps do, thread by thread and register by register.           *)
(***************************************************************************)
\* Thread p goes on to job n, every other thread stays where it is.
Moves(p, n) == job'[p] = n /\ \A q \in Procs : q # p => job'[q] = job[q]

LEMMA MovesStep ==
    ASSUME JobsInv, NEW p \in Procs, NEW n, JobOK(n), job' = [job EXCEPT ![p] = n]
    PROVE  JobsInv' /\ Moves(p, n)
<1>1. job' = [q \in Procs |-> IF q = p THEN n ELSE job[q]]
    BY DEF JobsInv
<1> HIDE DEF JobsInv
<1>2. Moves(p, n) /\ job' = [q \in Procs |-> job'[q]]
    BY <1>1 DEF Moves
<1>3. \A q \in Procs : JobOK(job'[q])
    BY <1>2 DEF Moves, JobsInv
<1> QED
    BY <1>2, <1>3 DEF JobsInv, JobOK, PlanOK

LEMMA JobRecord ==
    ASSUME JobsInv, NEW p \in Procs, NEW j, j = job[p], j.st # "idle"
    PROVE  /\ JobOK(j) /\ j.lane \in Lanes /\ j.fch \in Fchs
           /\ j = [st |-> j.st, call |-> j.call, lane |-> j.lane, fch |-> j.fch, sess |-> j.sess,
                   plan |-> j.plan, todo |-> j.todo, got |-> j.got, ok |-> j.ok]
           /\ j.st \in Busy => PlanOK(j.plan) /\ Head(j.plan) \in Ioctls
<1>1. JobOK(j)
    BY DEF JobsInv
<1>2. j.st \in Busy => PlanOK(j.plan) /\ Head(j.plan) \in Ioctls
    BY <1>1, PlanShape DEF JobOK
<1> QED
    BY <1>1, <1>2 DEF JobOK

LEMMA IoctlType ==
    ASSUME NEW i \in Ioctls
    PROVE  /\ i.op \in {"update", "delete", "read"} /\ i.side \in Sides
           /\ i.sess \in Sessions \cup {None}
           /\ i.op = "delete" => i.sess = None
           /\ i.side = "ingr" /\ i.op # "delete" => i.sess \in Sessions
BY DEF Ioctls

\* Register by register, what chain_reg_write() leaves.
Put(r, w) == [r EXCEPT ![w[1]] = w[2], !.resp = (w /= Clear) /\ r.resp]

LEMMA PutClear ==
    ASSUME NEW r \in Regs
    PROVE  Put(r, Clear) = [req |-> "none", session |-> r.session, channel |-> r.channel,
                            resp |-> FALSE]
<1>1. Clear[1] = "req" /\ Clear[2] = "none"
    BY DEF Clear
<1>2. Put(r, Clear) = [r EXCEPT !.req = "none", !.resp = FALSE]
    BY <1>1 DEF Put
<1> QED
    BY <1>2 DEF Regs

LEMMA PutSession ==
    ASSUME NEW r \in Regs, ~ r.resp, NEW v, NEW w, w = <<"session", v>>
    PROVE  Put(r, w) = [req |-> r.req, session |-> v, channel |-> r.channel, resp |-> FALSE]
<1>1. w[1] = "session" /\ w[2] = v /\ w # Clear
    BY DEF Clear
<1>2. Put(r, w) = [r EXCEPT !.session = v, !.resp = TRUE /\ @]
    BY <1>1 DEF Put
<1>3. r.resp = FALSE
    BY DEF Regs
<1>4. Put(r, w) = [r EXCEPT !.session = v, !.resp = FALSE]
    BY <1>2, <1>3
<1> QED
    BY <1>4 DEF Regs

LEMMA PutChannel ==
    ASSUME NEW r \in Regs, ~ r.resp, NEW v, NEW w, w = <<"channel", v>>
    PROVE  Put(r, w) = [req |-> r.req, session |-> r.session, channel |-> v, resp |-> FALSE]
<1>1. w[1] = "channel" /\ w[2] = v /\ w # Clear
    BY DEF Clear
<1>2. Put(r, w) = [r EXCEPT !.channel = v, !.resp = TRUE /\ @]
    BY <1>1 DEF Put
<1>3. r.resp = FALSE
    BY DEF Regs
<1>4. Put(r, w) = [r EXCEPT !.channel = v, !.resp = FALSE]
    BY <1>2, <1>3
<1> QED
    BY <1>4 DEF Regs

LEMMA PutReq ==
    ASSUME NEW r \in Regs, ~ r.resp, NEW v, NEW w, w = <<"req", v>>, v # "none"
    PROVE  Put(r, w) = [req |-> v, session |-> r.session, channel |-> r.channel, resp |-> FALSE]
<1>1. w[1] = "req" /\ w[2] = v /\ w # Clear
    BY DEF Clear
<1>2. Put(r, w) = [r EXCEPT !.req = v, !.resp = TRUE /\ @]
    BY <1>1 DEF Put
<1>3. r.resp = FALSE
    BY DEF Regs
<1>4. Put(r, w) = [r EXCEPT !.req = v, !.resp = FALSE]
    BY <1>2, <1>3
<1> QED
    BY <1>4 DEF Regs

Written(j) == [j EXCEPT !.todo = Tail(@), !.st = IF Len(j.todo) = 1 THEN "poll" ELSE @]

\* One register write of an ioctl: the job that is left, and the registers.
WroteOne(j, i, s, r) ==
    \E n, u :
        /\ n = Written(j) /\ u = Put(r, Head(j.todo))
        /\ u \in Regs /\ ~ u.resp /\ n.st \in {"write", "poll"}
        /\ n = [st |-> n.st, call |-> j.call, lane |-> j.lane, fch |-> j.fch, sess |-> j.sess,
                plan |-> j.plan, todo |-> n.todo, got |-> j.got, ok |-> j.ok]
        /\ n.st = "poll" \/ Quiet(u)
        /\ u.req # "none" /\ i.side = "ingr" => u.session \in Sessions
        /\ u.req # "none" /\ i.side = "egr" => u.channel \in Fchs
        /\ Stage(n, i, s, u)

LEMMA WriteOne ==
    ASSUME NEW j, JobOK(j), j.st = "write", NEW i \in Ioctls, NEW s \in Sessions \cup {None},
           i.side = "ingr" => s \in Sessions,
           NEW r \in Regs, Stage(j, i, s, r), j.fch \in Fchs
    PROVE  WroteOne(j, i, s, r)
<1>a. PICK n : n = Written(j)
    OBVIOUS
<1>b. PICK u : u = Put(r, Head(j.todo))
    OBVIOUS
<1>g. SUFFICES
           /\ u \in Regs /\ ~ u.resp /\ n.st \in {"write", "poll"}
           /\ n = [st |-> n.st, call |-> j.call, lane |-> j.lane, fch |-> j.fch, sess |-> j.sess,
                   plan |-> j.plan, todo |-> n.todo, got |-> j.got, ok |-> j.ok]
           /\ n.st = "poll" \/ Quiet(u)
           /\ u.req # "none" /\ i.side = "ingr" => u.session \in Sessions
           /\ u.req # "none" /\ i.side = "egr" => u.channel \in Fchs
           /\ Stage(n, i, s, u)
    BY <1>a, <1>b, Zenon DEF WroteOne
<1>0. /\ j = [st |-> j.st, call |-> j.call, lane |-> j.lane, fch |-> j.fch, sess |-> j.sess,
              plan |-> j.plan, todo |-> j.todo, got |-> j.got, ok |-> j.ok]
      /\ r = [req |-> r.req, session |-> r.session, channel |-> r.channel, resp |-> r.resp]
      /\ r.req \in {"none", "update", "delete", "read"} /\ r.session \in Sessions \cup {None}
      /\ r.channel \in Fchs \cup {None} /\ r.resp \in BOOLEAN
    BY DEF JobOK, Regs
<1>r. /\ r.session \in Sessions \cup {None} /\ r.channel \in Fchs \cup {None}
      /\ "none" \in {"none", "update", "delete", "read"} /\ j.fch \in Fchs \cup {None}
    BY <1>0
<1>1. n = [st |-> IF Len(j.todo) = 1 THEN "poll" ELSE "write", call |-> j.call, lane |-> j.lane,
           fch |-> j.fch, sess |-> j.sess, plan |-> j.plan, todo |-> Tail(j.todo), got |-> j.got, ok |-> j.ok]
    BY <1>0, <1>a DEF Written
<1>w. Len(j.todo) # 1 =>
        n = [st |-> "write", call |-> j.call, lane |-> j.lane, fch |-> j.fch, sess |-> j.sess,
             plan |-> j.plan, todo |-> Tail(j.todo), got |-> j.got, ok |-> j.ok]
    BY <1>1
<1>p. Len(j.todo) = 1 =>
        n = [st |-> "poll", call |-> j.call, lane |-> j.lane, fch |-> j.fch, sess |-> j.sess,
             plan |-> j.plan, todo |-> Tail(j.todo), got |-> j.got, ok |-> j.ok]
    BY <1>1
<1>2. i.op \in {"update", "delete", "read"} /\ i.side \in {"ingr", "egr"}
    BY IoctlType DEF Sides
<1>x. i.op \in {"none", "update", "delete", "read"}
    BY <1>2
<1>3. CASE j.todo = IF i.op = "update"
                    THEN <<Clear, KeyReg(i, j.fch, s), ValueReg(i, j.fch, s), ReqReg(i)>>
                    ELSE <<Clear, KeyReg(i, j.fch, s), ReqReg(i)>>
    <2>1. /\ Head(j.todo) = Clear /\ Len(j.todo) # 1
          /\ Tail(j.todo) = IF i.op = "update"
                            THEN <<KeyReg(i, j.fch, s), ValueReg(i, j.fch, s), ReqReg(i)>>
                            ELSE <<KeyReg(i, j.fch, s), ReqReg(i)>>
        BY <1>3
    <2>2. u = [req |-> "none", session |-> r.session, channel |-> r.channel, resp |-> FALSE]
        BY <2>1, PutClear, <1>b
    <2>w. n = [st |-> "write", call |-> j.call, lane |-> j.lane, fch |-> j.fch, sess |-> j.sess,
               plan |-> j.plan, todo |-> Tail(j.todo), got |-> j.got, ok |-> j.ok]
        BY <1>w, <2>1
    <2>n. n.st = "write" /\ n.todo = Tail(j.todo) /\ n.fch = j.fch
        BY <2>w
    <2>u. Quiet(u) /\ u \in Regs
        <3>1. u \in Regs /\ u.req = "none" /\ u.resp = FALSE
            BY <1>r, <2>2 DEF Regs
        <3> QED
            BY <3>1 DEF Quiet
    <2>3. n.st = "write" /\ n.todo = Tail(j.todo) /\ n.fch = j.fch /\ Quiet(u) /\ u \in Regs
        BY <2>n, <2>u
    <2>4. Stage(n, i, s, u)
        BY <2>1, <2>3 DEF Stage
    <2>5. n = [st |-> n.st, call |-> j.call, lane |-> j.lane, fch |-> j.fch, sess |-> j.sess,
               plan |-> j.plan, todo |-> n.todo, got |-> j.got, ok |-> j.ok]
        BY <2>w
    <2>6. u.req = "none" /\ ~ u.resp
        BY <2>3 DEF Quiet
    <2> QED
        BY <2>3, <2>4, <2>5, <2>6
<1>4. CASE /\ Quiet(r)
           /\ j.todo = IF i.op = "update"
                       THEN <<KeyReg(i, j.fch, s), ValueReg(i, j.fch, s), ReqReg(i)>>
                       ELSE <<KeyReg(i, j.fch, s), ReqReg(i)>>
    <2>1. /\ Head(j.todo) = KeyReg(i, j.fch, s) /\ Len(j.todo) # 1
          /\ Tail(j.todo) = IF i.op = "update" THEN <<ValueReg(i, j.fch, s), ReqReg(i)>>
                            ELSE <<ReqReg(i)>>
        BY <1>4
    <2>2. u = IF i.side = "ingr"
              THEN [req |-> "none", session |-> s, channel |-> r.channel, resp |-> FALSE]
              ELSE [req |-> "none", session |-> r.session, channel |-> j.fch, resp |-> FALSE]
        <3>1. CASE i.side = "ingr"
            BY <3>1, <2>1, <1>4, PutSession, <1>b DEF KeyReg, Quiet
        <3>2. CASE i.side # "ingr"
            BY <3>2, <2>1, <1>4, PutChannel, <1>b DEF KeyReg, Quiet
        <3> QED
            BY <3>1, <3>2
    <2>w. n = [st |-> "write", call |-> j.call, lane |-> j.lane, fch |-> j.fch, sess |-> j.sess,
               plan |-> j.plan, todo |-> Tail(j.todo), got |-> j.got, ok |-> j.ok]
        BY <1>w, <2>1
    <2>n. n.st = "write" /\ n.todo = Tail(j.todo) /\ n.fch = j.fch
        BY <2>w
    <2>u. Quiet(u)
          /\ HasKey(i, n.fch, s, u) /\ u \in Regs
        <3>1. CASE i.side = "ingr"
            <4>1. u \in Regs /\ u.req = "none" /\ u.resp = FALSE /\ u.session = s
                BY <1>r, <2>2, <3>1 DEF Regs
            <4> QED
                BY <3>1, <4>1, <2>n DEF Quiet, HasKey
        <3>2. CASE i.side # "ingr"
            <4>1. u \in Regs /\ u.req = "none" /\ u.resp = FALSE /\ u.channel = j.fch
                BY <1>r, <2>2, <3>2 DEF Regs
            <4> QED
                BY <3>2, <4>1, <2>n DEF Quiet, HasKey
        <3> QED
            BY <3>1, <3>2
    <2>3. n.st = "write" /\ n.todo = Tail(j.todo) /\ n.fch = j.fch /\ Quiet(u)
          /\ HasKey(i, n.fch, s, u) /\ u \in Regs
        BY <2>n, <2>u
    <2>4. Stage(n, i, s, u)
        <3>1. CASE i.op = "update"
            BY <2>1, <2>3, <3>1 DEF Stage
        <3>2. CASE i.op # "update"
            BY <2>1, <2>3, <3>2 DEF Stage, HasValue
        <3> QED
            BY <3>1, <3>2
    <2>5. n = [st |-> n.st, call |-> j.call, lane |-> j.lane, fch |-> j.fch, sess |-> j.sess,
               plan |-> j.plan, todo |-> n.todo, got |-> j.got, ok |-> j.ok]
        BY <2>w
    <2>6. u.req = "none" /\ ~ u.resp
        BY <2>3 DEF Quiet
    <2> QED
        BY <2>3, <2>4, <2>5, <2>6
<1>5. CASE /\ Quiet(r) /\ HasKey(i, j.fch, s, r) /\ i.op = "update"
           /\ j.todo = <<ValueReg(i, j.fch, s), ReqReg(i)>>
    <2>1. /\ Head(j.todo) = ValueReg(i, j.fch, s) /\ Len(j.todo) # 1
          /\ Tail(j.todo) = <<ReqReg(i)>>
        BY <1>5
    <2>2. u = IF i.side = "ingr"
              THEN [req |-> "none", session |-> r.session, channel |-> j.fch, resp |-> FALSE]
              ELSE [req |-> "none", session |-> s, channel |-> r.channel, resp |-> FALSE]
        <3>1. CASE i.side = "ingr"
            BY <3>1, <2>1, <1>5, PutChannel, <1>b DEF ValueReg, Quiet
        <3>2. CASE i.side # "ingr"
            BY <3>2, <2>1, <1>5, PutSession, <1>b DEF ValueReg, Quiet
        <3> QED
            BY <3>1, <3>2
    <2>w. n = [st |-> "write", call |-> j.call, lane |-> j.lane, fch |-> j.fch, sess |-> j.sess,
               plan |-> j.plan, todo |-> Tail(j.todo), got |-> j.got, ok |-> j.ok]
        BY <1>w, <2>1
    <2>n. n.st = "write" /\ n.todo = Tail(j.todo) /\ n.fch = j.fch
        BY <2>w
    <2>u. Quiet(u)
          /\ HasKey(i, n.fch, s, u) /\ HasValue(i, n.fch, s, u) /\ u \in Regs
        <3>1. CASE i.side = "ingr"
            <4>1. u \in Regs /\ u.req = "none" /\ u.resp = FALSE /\ u.session = r.session /\ u.channel = j.fch
                BY <1>r, <2>2, <3>1 DEF Regs
            <4> QED
                BY <3>1, <4>1, <2>n, <1>5 DEF Quiet, HasKey, HasValue
        <3>2. CASE i.side # "ingr"
            <4>1. u \in Regs /\ u.req = "none" /\ u.resp = FALSE /\ u.channel = r.channel /\ u.session = s
                BY <1>r, <2>2, <3>2 DEF Regs
            <4> QED
                BY <3>2, <4>1, <2>n, <1>5 DEF Quiet, HasKey, HasValue
        <3> QED
            BY <3>1, <3>2
    <2>3. n.st = "write" /\ n.todo = Tail(j.todo) /\ n.fch = j.fch /\ Quiet(u)
          /\ HasKey(i, n.fch, s, u) /\ HasValue(i, n.fch, s, u) /\ u \in Regs
        BY <2>n, <2>u
    <2>4. Stage(n, i, s, u)
        BY <2>1, <2>3 DEF Stage
    <2>5. n = [st |-> n.st, call |-> j.call, lane |-> j.lane, fch |-> j.fch, sess |-> j.sess,
               plan |-> j.plan, todo |-> n.todo, got |-> j.got, ok |-> j.ok]
        BY <2>w
    <2>6. u.req = "none" /\ ~ u.resp
        BY <2>3 DEF Quiet
    <2> QED
        BY <2>3, <2>4, <2>5, <2>6
<1>6. CASE /\ Quiet(r) /\ HasKey(i, j.fch, s, r) /\ HasValue(i, j.fch, s, r)
           /\ j.todo = <<ReqReg(i)>>
    <2>1. Head(j.todo) = ReqReg(i) /\ Len(j.todo) = 1 /\ Tail(j.todo) = <<>>
        BY <1>6
    <2>2. u = [req |-> i.op, session |-> r.session, channel |-> r.channel, resp |-> FALSE]
        BY <1>2, <1>6, <2>1, PutReq, <1>b DEF ReqReg, Quiet
    <2>w. n = [st |-> "poll", call |-> j.call, lane |-> j.lane, fch |-> j.fch, sess |-> j.sess,
               plan |-> j.plan, todo |-> Tail(j.todo), got |-> j.got, ok |-> j.ok]
        BY <1>p, <2>1
    <2>n. n.st = "poll" /\ n.todo = <<>> /\ n.fch = j.fch
        BY <2>w, <2>1
    <2>u. HasKey(i, n.fch, s, u) /\ HasValue(i, n.fch, s, u) /\ u \in Regs
        <3>1. u \in Regs /\ u.session = r.session /\ u.channel = r.channel
            BY <1>r, <1>x, <2>2 DEF Regs
        <3> QED
            BY <3>1, <2>n, <1>6 DEF HasKey, HasValue
    <2>3. n.st = "poll" /\ n.todo = <<>> /\ n.fch = j.fch /\ HasKey(i, n.fch, s, u) /\ HasValue(i, n.fch, s, u) /\ u \in Regs
        BY <2>n, <2>u
    <2>4. Stage(n, i, s, u)
        <3>1. u.req = i.op
            BY <2>2
        <3> QED
            BY <2>3, <3>1 DEF Stage
    <2>5. n = [st |-> n.st, call |-> j.call, lane |-> j.lane, fch |-> j.fch, sess |-> j.sess,
               plan |-> j.plan, todo |-> n.todo, got |-> j.got, ok |-> j.ok]
        BY <2>w
    <2>6. /\ ~ u.resp
          /\ i.side = "ingr" => u.session = s
          /\ i.side = "egr" => u.channel = j.fch
        BY <2>2, <2>3 DEF HasKey
    <2> QED
        BY <2>3, <2>4, <2>5, <2>6
<1> QED
    BY <1>3, <1>4, <1>5, <1>6 DEF Stage

(***************************************************************************)
(* Every step keeps the invariant of a serial driver.                      *)
(***************************************************************************)
\* The thread that is working on a side, and nobody else.
LEMMA OneWorks ==
    ASSUME Exclusive, NEW p \in Procs, NEW q \in Procs, NEW l \in Lanes, NEW k \in Sides,
           Working(p, l, k), Working(q, l, k)
    PROVE  q = p
BY DEF Exclusive

\* Registers l, k become u, the others stay.
Sets(l, k, u) ==
    /\ regs'[l][k] = u
    /\ \A m \in Lanes, h \in Sides : m # l \/ h # k => regs'[m][h] = regs[m][h]

LEMMA SetsStep ==
    ASSUME RegsInv, NEW l \in Lanes, NEW k \in Sides, NEW u \in Regs,
           u.req # "none" /\ k = "ingr" => u.session \in Sessions,
           u.req # "none" /\ k = "egr" => u.channel \in Fchs,
           regs' = [regs EXCEPT ![l][k] = u]
    PROVE  RegsInv' /\ Sets(l, k, u)
<1>1. regs \in [Lanes -> [Sides -> Regs]]
    BY DEF RegsInv
<1>2. regs' \in [Lanes -> [Sides -> Regs]]
    BY <1>1
<1>3. Sets(l, k, u)
    BY <1>1 DEF Sets
<1>4. \A m \in Lanes : /\ regs'[m]["ingr"].req # "none" => regs'[m]["ingr"].session \in Sessions
                       /\ regs'[m]["egr"].req # "none" => regs'[m]["egr"].channel \in Fchs
    <2> SUFFICES ASSUME NEW m \in Lanes
                 PROVE /\ regs'[m]["ingr"].req # "none" => regs'[m]["ingr"].session \in Sessions
                       /\ regs'[m]["egr"].req # "none" => regs'[m]["egr"].channel \in Fchs
        OBVIOUS
    <2>1. \A h \in Sides : (regs'[m][h] = u /\ h = k) \/ regs'[m][h] = regs[m][h]
        BY <1>3 DEF Sets
    <2>2. "ingr" \in Sides /\ "egr" \in Sides
        BY DEF Sides
    <2>3. /\ regs[m]["ingr"].req # "none" => regs[m]["ingr"].session \in Sessions
          /\ regs[m]["egr"].req # "none" => regs[m]["egr"].channel \in Fchs
        BY DEF RegsInv
    <2> QED
        BY <2>1, <2>2, <2>3
<1> QED
    BY <1>2, <1>3, <1>4 DEF RegsInv, Regs

\* Thread p has written a register of its ioctl: its job is n, the registers u.
Wrote(p, j, i, l, k, n, u) ==
    /\ j = job[p] /\ i = Head(j.plan) /\ l = j.lane /\ k = i.side
    /\ JobOK(j) /\ l \in Lanes /\ j.fch \in Fchs /\ i \in Ioctls /\ k \in Sides
    /\ j.st = "write" /\ Working(p, l, k)
    /\ n.st \in {"write", "poll"} /\ n.lane = j.lane /\ n.fch = j.fch /\ n.plan = j.plan
    /\ n.call = j.call /\ n.sess = j.sess /\ n.ok = j.ok
    /\ ~ u.resp /\ (n.st = "poll" \/ Quiet(u))
    /\ Moves(p, n) /\ Sets(l, k, u)
    /\ UNCHANGED <<soft, ingr, egr, lost, env>>
    /\ IoctlOK(n, u, ingr[l], egr[l], Deleted(l, j.fch))
    /\ \A q \in Procs, m \in Lanes, h \in Sides : Working(q, m, h)' <=> Working(q, m, h)

LEMMA WroteFacts ==
    ASSUME SerialInv, NEW p \in Procs, WriteReg(p), UNCHANGED env
    PROVE  JobsInv' /\ RegsInv' /\ \E j, i, l, k, n, u : Wrote(p, j, i, l, k, n, u)
<1>1. PICK j : j = job[p]
    OBVIOUS
<1>2. PICK i : i = Head(j.plan)
    OBVIOUS
<1>3. PICK l : l = j.lane
    OBVIOUS
<1>4. PICK k : k = i.side
    OBVIOUS
<1>5. JobsInv /\ TablesInv /\ RegsInv /\ Exclusive /\ IoctlsInv /\ LateEgress /\ EgressTrue
    BY DEF SerialInv
<1>6. j.st = "write"
    BY <1>1 DEF WriteReg
<1>7. JobOK(j) /\ l \in Lanes /\ j.fch \in Fchs /\ i \in Ioctls /\ k \in Sides
    BY <1>1, <1>2, <1>3, <1>4, <1>5, <1>6, JobRecord, IoctlType DEF Busy, InIoctl
<1>8. Working(p, l, k)
    BY <1>1, <1>2, <1>3, <1>4, <1>6 DEF Working
<1>9. PICK r : r = regs[l][k]
    OBVIOUS
<1>10. r \in Regs
    BY <1>5, <1>7, <1>9 DEF RegsInv
<1>11. IoctlOK(j, r, ingr[l], egr[l], Deleted(l, j.fch))
    BY <1>1, <1>5, <1>7, <1>8, <1>9 DEF IoctlsInv
<1>12. PICK s \in Sessions \cup {None} :
          /\ i.side = "ingr" => s \in Sessions
          /\ IF i.op = "delete" THEN i.side = "ingr" => s \in Deleted(l, j.fch) ELSE s = i.sess
          /\ Stage(j, i, s, r)
    BY <1>11, <1>2 DEF IoctlOK
<1>13. PICK n, u :
           /\ n = Written(j) /\ u = Put(r, Head(j.todo))
           /\ u \in Regs /\ ~ u.resp /\ n.st \in {"write", "poll"}
           /\ n = [st |-> n.st, call |-> j.call, lane |-> j.lane, fch |-> j.fch, sess |-> j.sess,
                   plan |-> j.plan, todo |-> n.todo, got |-> j.got, ok |-> j.ok]
           /\ n.st = "poll" \/ Quiet(u)
           /\ u.req # "none" /\ i.side = "ingr" => u.session \in Sessions
           /\ u.req # "none" /\ i.side = "egr" => u.channel \in Fchs
           /\ Stage(n, i, s, u)
    <2>1. WroteOne(j, i, s, r)
        BY <1>6, <1>7, <1>10, <1>12, WriteOne
    <2> QED
        BY <2>1 DEF WroteOne
<1>14. n.lane = j.lane /\ n.fch = j.fch /\ n.plan = j.plan /\ n.call = j.call /\ n.sess = j.sess /\ n.ok = j.ok
    BY <1>13
<1>15. JobOK(n)
    BY <1>7, <1>6, <1>13, <1>14 DEF JobOK, Busy, InIoctl
<1>16. job' = [job EXCEPT ![p] = n] /\ regs' = [regs EXCEPT ![l][k] = u]
    <2>1. job' = [job EXCEPT ![p] = Written(j)]
        BY <1>1 DEF WriteReg, Written
    <2>2. regs' = [regs EXCEPT ![l][k] = Put(regs[l][k], Head(j.todo))]
        <3>1. regs' = [regs EXCEPT ![job[p].lane][Head(job[p].plan).side] =
                           Put(regs[job[p].lane][Head(job[p].plan).side], Head(job[p].todo))]
            BY Zenon DEF WriteReg, Put
        <3> QED
            BY <1>1, <1>2, <1>3, <1>4, <3>1
    <2> QED
        BY <1>9, <1>13, <2>1, <2>2
<1>17. JobsInv' /\ Moves(p, n)
    BY <1>5, <1>15, <1>16, MovesStep
<1>18. RegsInv' /\ Sets(l, k, u)
    BY <1>4, <1>5, <1>7, <1>13, <1>16, SetsStep
<1>19. soft' = soft /\ ingr' = ingr /\ egr' = egr /\ lost' = lost /\ env' = env
    BY DEF WriteReg
<1>20. \A q \in Procs, m \in Lanes, h \in Sides : Working(q, m, h)' <=> Working(q, m, h)
    BY <1>1, <1>6, <1>13, <1>14, <1>17 DEF Working, Moves
<1>21. Effect(n, i, s, u, ingr[l], egr[l])
    BY <1>13 DEF Effect
<1>22. IoctlOK(n, u, ingr[l], egr[l], Deleted(l, j.fch))
    BY <1>2, <1>12, <1>13, <1>14, <1>21 DEF IoctlOK
<1>23. Wrote(p, j, i, l, k, n, u)
    BY <1>1, <1>2, <1>3, <1>4, <1>6, <1>7, <1>8, <1>13, <1>14, <1>17, <1>18, <1>19, <1>20, <1>22
       DEF Wrote
<1> QED
    BY <1>17, <1>18, <1>23

LEMMA SerialWriteReg ==
    ASSUME SerialInv, NEW p \in Procs, WriteReg(p), UNCHANGED env
    PROVE  SerialInv'
<1>1. JobsInv' /\ RegsInv'
    BY WroteFacts
<1>2. PICK j, i, l, k, n, u : Wrote(p, j, i, l, k, n, u)
    BY WroteFacts
<1>3. /\ j = job[p] /\ i = Head(j.plan) /\ l = j.lane /\ k = i.side
      /\ l \in Lanes /\ k \in Sides /\ j.st = "write" /\ Working(p, l, k)
      /\ n.lane = j.lane /\ n.fch = j.fch
      /\ ~ u.resp /\ (n.st = "poll" \/ Quiet(u)) /\ Moves(p, n) /\ Sets(l, k, u)
      /\ UNCHANGED <<soft, ingr, egr, lost, env>>
    BY <1>2 DEF Wrote
<1>5. JobsInv /\ TablesInv /\ RegsInv /\ Exclusive /\ IoctlsInv /\ LateEgress /\ EgressTrue
    BY DEF SerialInv
<1>20. TablesInv'
    BY <1>3, <1>5 DEF TablesInv
<1>21. \A q \in Procs, m \in Lanes, h \in Sides : Working(q, m, h)' <=> Working(q, m, h)
    BY <1>2 DEF Wrote
<1>22. Exclusive'
    BY <1>5, <1>21 DEF Exclusive
<1>23. IoctlsInv'
    <2> SUFFICES ASSUME NEW q \in Procs, NEW m \in Lanes, NEW h \in Sides, Working(q, m, h)'
                 PROVE  IoctlOK(job[q], regs[m][h], ingr[m], egr[m], Deleted(m, job[q].fch))'
        BY DEF IoctlsInv
    <2>1. Working(q, m, h)
        BY <1>21
    <2>2. CASE q = p
        <3>1. m = l /\ h = k
            BY <1>3, <2>1, <2>2 DEF Working
        <3>3. IoctlOK(n, u, ingr[l], egr[l], Deleted(l, j.fch))
            BY <1>2 DEF Wrote
        <3> QED
            BY <1>3, <2>2, <3>1, <3>3 DEF Moves, Sets, Deleted
    <2>3. CASE q # p
        <3>1. m # l \/ h # k
            BY <1>5, <1>3, <2>1, <2>3, OneWorks
        <3>2. regs'[m][h] = regs[m][h] /\ job'[q] = job[q]
            BY <1>3, <2>3, <3>1 DEF Moves, Sets
        <3> QED
            BY <1>5, <1>3, <2>1, <3>2 DEF IoctlsInv, Deleted
    <2> QED
        BY <2>2, <2>3
<1>24. LateEgress'
    <2> SUFFICES ASSUME NEW m \in Lanes, Pending(regs'[m]["egr"])
                 PROVE  Polled(m, "egr")' \/ <<m, regs'[m]["egr"].channel, "egr">> \in lost'
        BY DEF LateEgress, Pending, Changes
    <2>1. CASE m = l /\ k = "egr"
        <3>1. regs'[m]["egr"] = u
            BY <1>3, <2>1 DEF Sets
        <3>2. n.st = "poll"
            BY <1>3, <3>1 DEF Pending, Quiet, Changes
        <3>3. Working(p, m, "egr")'
            BY <1>3, <1>21, <2>1
        <3> QED
            BY <1>3, <3>2, <3>3 DEF Polled, Moves
    <2>2. CASE ~ (m = l /\ k = "egr")
        <3>1. regs'[m]["egr"] = regs[m]["egr"]
            BY <1>3, <2>2 DEF Sets, Sides
        <3>2. Polled(m, "egr") \/ <<m, regs[m]["egr"].channel, "egr">> \in lost
            BY <1>5, <3>1 DEF LateEgress
        <3>3. ASSUME Polled(m, "egr") PROVE Polled(m, "egr")'
            <4>1. PICK q \in Procs : Working(q, m, "egr") /\ job[q].st = "poll"
                BY <3>3 DEF Polled
            <4>2. q # p
                BY <1>3, <4>1
            <4> QED
                BY <1>3, <1>21, <4>1, <4>2 DEF Polled, Moves, Sides
        <3> QED
            BY <1>3, <3>1, <3>2, <3>3
    <2> QED
        BY <2>1, <2>2
<1>25. EgressTrue'
    <2>1. \A q \in Procs, m \in Lanes : Answered(q, m, "egr") =>
              Answered(q, m, "egr")' /\ job'[q] = job[q]
        <3> SUFFICES ASSUME NEW q \in Procs, NEW m \in Lanes, Answered(q, m, "egr")
                     PROVE  Answered(q, m, "egr")' /\ job'[q] = job[q]
            OBVIOUS
        <3>1. Working(q, m, "egr") /\ job[q].st = "poll" /\ q # p
            BY <1>3 DEF Answered
        <3>2. m # l \/ "egr" # k
            BY <1>5, <1>3, <3>1, OneWorks
        <3>3. regs'[m]["egr"] = regs[m]["egr"] /\ job'[q] = job[q]
            BY <1>3, <3>1, <3>2 DEF Moves, Sets, Sides
        <3> QED
            BY <1>21, <3>1, <3>3 DEF Answered, Sides
    <2> QED
        BY <1>5, <1>3, <2>1 DEF EgressTrue
<1> QED
    BY <1>1, <1>20, <1>22, <1>23, <1>24, <1>25 DEF SerialInv

\* A step of a thread that touches neither tables nor registers, from outside
\* the poll.
LEMMA SerialJobStep ==
    ASSUME SerialInv, NEW p \in Procs, NEW n, JobOK(n), job' = [job EXCEPT ![p] = n],
           UNCHANGED <<env, soft, ingr, egr, regs, lost>>,
           job[p].st # "poll", Exclusive',
           \A l \in Lanes, k \in Sides : Working(p, l, k)' =>
               IoctlOK(n, regs[l][k], ingr[l], egr[l], Deleted(l, n.fch))
    PROVE  SerialInv'
<1>1. JobsInv /\ TablesInv /\ RegsInv /\ Exclusive /\ IoctlsInv /\ LateEgress /\ EgressTrue
    BY DEF SerialInv
<1>2. JobsInv' /\ Moves(p, n)
    BY <1>1, MovesStep
<1>3. \A q \in Procs : q # p => \A l \in Lanes, k \in Sides : Working(q, l, k)' <=> Working(q, l, k)
    BY <1>2 DEF Working, Moves
<1>4. TablesInv' /\ RegsInv'
    BY <1>1 DEF TablesInv, RegsInv, Regs
<1>5. IoctlsInv'
    <2> SUFFICES ASSUME NEW q \in Procs, NEW l \in Lanes, NEW k \in Sides, Working(q, l, k)'
                 PROVE  IoctlOK(job[q], regs[l][k], ingr[l], egr[l], Deleted(l, job[q].fch))'
        BY DEF IoctlsInv
    <2>1. CASE q = p
        BY <1>2, <2>1 DEF Moves, Deleted
    <2>2. CASE q # p
        BY <1>1, <1>2, <1>3, <2>2 DEF Moves, Deleted, IoctlsInv
    <2> QED
        BY <2>1, <2>2
<1>6. \A q \in Procs, l \in Lanes, k \in Sides :
          Working(q, l, k) /\ job[q].st = "poll" => Working(q, l, k)' /\ job'[q] = job[q]
    BY <1>2, <1>3 DEF Moves
<1>7. LateEgress'
    <2>1. \A l \in Lanes : Polled(l, "egr") => Polled(l, "egr")'
        BY <1>6 DEF Polled, Sides
    <2> QED
        BY <1>1, <2>1 DEF LateEgress, Pending
<1>8. EgressTrue'
    <2>1. \A q \in Procs, l \in Lanes :
              Answered(q, l, "egr") => Answered(q, l, "egr")' /\ job'[q] = job[q]
        BY <1>6 DEF Answered, Sides
    <2> QED
        BY <1>1, <2>1 DEF EgressTrue
<1> QED
    BY <1>2, <1>4, <1>5, <1>7, <1>8 DEF SerialInv

\* The same step, when it ends outside every ioctl.
LEMMA SerialLeaves ==
    ASSUME SerialInv, NEW p \in Procs, NEW n, JobOK(n), n.st \notin InIoctl,
           job' = [job EXCEPT ![p] = n],
           UNCHANGED <<env, soft, ingr, egr, regs, lost>>, job[p].st # "poll"
    PROVE  SerialInv'
<1>1. JobsInv /\ Exclusive
    BY DEF SerialInv
<1>2. Moves(p, n)
    BY <1>1, MovesStep
<1>3. \A l, k : ~ Working(p, l, k)'
    BY <1>2 DEF Moves, Working, InIoctl
<1>4. \A q \in Procs : q # p => \A l \in Lanes, k \in Sides : Working(q, l, k)' <=> Working(q, l, k)
    BY <1>2 DEF Working, Moves
<1>5. Exclusive'
    BY <1>1, <1>3, <1>4 DEF Exclusive
<1> QED
    BY <1>3, <1>5, SerialJobStep

LEMMA RequestPlans ==
    ASSUME NEW r \in Connects \cup Disconnects \cup Reads
    PROVE  PlanOK(r.plan)
<1> USE DEF PlanOK, Ioctls, Sides, Update, Delete, Read, Ioctl
<1>1. CASE r \in Connects
    <2>1. CASE r \in {[call |-> "connect_ingress", plan |-> <<Update("ingr", s)>>] : s \in Sessions}
        BY <2>1
    <2>2. CASE r \in {[call |-> "connect_egress", plan |-> <<Update("egr", s)>>] : s \in Sessions}
        BY <2>2
    <2>3. CASE r \in {[call |-> "connect", plan |-> <<Update("ingr", s), Update("egr", t)>>] :
              s \in Sessions, t \in Sessions \cup {None}}
        BY <2>3
    <2> QED
        BY <1>1, <2>1, <2>2, <2>3 DEF Connects
<1>2. CASE r \in Disconnects
    BY <1>2 DEF Disconnects
<1>3. CASE r \in Reads
    BY <1>3 DEF Reads
<1> QED
    BY <1>1, <1>2, <1>3

LEMMA SerialCall ==
    ASSUME SerialInv, NEW p \in Procs, NEW l \in Lanes, NEW f \in Fchs, NEW r \in Requests,
           Call(p, l, f, r), UNCHANGED env
    PROVE  SerialInv'
<1>1. PICK n : n = [st |-> "next", call |-> r.call, lane |-> l, fch |-> f, sess |-> Head(r.plan).sess, plan |-> r.plan,
                    todo |-> <<>>, got |-> None, ok |-> TRUE]
    OBVIOUS
<1>2. PlanOK(r.plan)
    BY RequestPlans DEF Requests
<1>3. JobOK(n) /\ n.st \notin InIoctl
    BY <1>1, <1>2 DEF JobOK, Busy, InIoctl
<1>4. job' = [job EXCEPT ![p] = n]
    <2>1. PICK x : x = [Idle EXCEPT !.st = "next", !.call = r.call, !.lane = l, !.fch = f,
                                    !.sess = Head(r.plan).sess, !.plan = r.plan]
        OBVIOUS
    <2>2. x = [st |-> "next", call |-> r.call, lane |-> l, fch |-> f, sess |-> Head(r.plan).sess, plan |-> r.plan,
              todo |-> <<>>, got |-> None, ok |-> TRUE]
        BY <2>1 DEF Idle
    <2>3. x = n
        BY <1>1, <2>2, Zenon
    <2> QED
        BY <2>1, <2>3, Zenon DEF Call
<1>5. job[p].st # "poll" /\ UNCHANGED <<env, soft, ingr, egr, regs, lost>>
    BY DEF Call
<1> QED
    BY <1>3, <1>4, <1>5, SerialLeaves

LEMMA IdleJob == JobOK(Idle) /\ Idle.st \notin InIoctl /\ Idle.st = "idle"
BY DEF Idle, JobOK, Busy, InIoctl

LEMMA SerialReturn ==
    ASSUME SerialInv, NEW p \in Procs, Return(p), UNCHANGED env
    PROVE  SerialInv'
<1>1. job[p].st # "poll" /\ UNCHANGED <<env, soft, ingr, egr, regs, lost>>
    BY DEF Return
<1> QED
    BY <1>1, IdleJob, SerialLeaves DEF Return

\* Fetch() leaves the answer in got, which no property is about.
Fetched(j, v) == [Advance(j) EXCEPT !.got = v]

LEMMA FetchJob ==
    ASSUME NEW j, JobOK(j), j.st \in Busy, NEW v, NEW n, n = Fetched(j, v)
    PROVE  /\ JobOK(n) /\ n.st \in {"next", "done"}
           /\ n.lane = j.lane /\ n.fch = j.fch /\ n.call = j.call /\ n.sess = j.sess /\ n.ok = j.ok
           /\ n.st = "next" => n.plan = Tail(j.plan) /\ Head(n.plan).side = "egr"
<1>1. PICK a : a = Advance(j)
    OBVIOUS
<1>2. /\ JobOK(a) /\ a.st \in {"next", "done"}
      /\ a.lane = j.lane /\ a.fch = j.fch /\ a.call = j.call /\ a.sess = j.sess /\ a.ok = j.ok
      /\ a.st = "next" => a.plan = Tail(j.plan) /\ Head(a.plan).side = "egr"
    BY <1>1, AdvanceJob
<1>3. a = [st |-> a.st, call |-> a.call, lane |-> a.lane, fch |-> a.fch, sess |-> a.sess,
           plan |-> a.plan, todo |-> a.todo, got |-> a.got, ok |-> a.ok]
    BY <1>2 DEF JobOK
<1>4. n = [st |-> a.st, call |-> a.call, lane |-> a.lane, fch |-> a.fch, sess |-> a.sess,
           plan |-> a.plan, todo |-> a.todo, got |-> v, ok |-> a.ok]
    BY <1>1, <1>3 DEF Fetched
<1>5. /\ n.st = a.st /\ n.call = a.call /\ n.sess = a.sess /\ n.lane = a.lane /\ n.fch = a.fch
      /\ n.plan = a.plan /\ n.ok = a.ok /\ n.todo = a.todo /\ n.got = v
    BY <1>4
<1>6. JobOK(n)
    BY <1>2, <1>4, <1>5 DEF JobOK
<1> QED
    BY <1>2, <1>5, <1>6

LEMMA SerialFetch ==
    ASSUME SerialInv, NEW p \in Procs, Fetch(p), UNCHANGED env
    PROVE  SerialInv'
<1>1. PICK j : j = job[p]
    OBVIOUS
<1>2. JobOK(j) /\ j.st \in Busy /\ j.st # "poll"
    BY <1>1 DEF SerialInv, JobsInv, Fetch, Busy, InIoctl
<1>3. PICK n, v : n = Fetched(j, v) /\ job' = [job EXCEPT ![p] = n]
    BY <1>1 DEF Fetch, Fetched
<1>4. JobOK(n) /\ n.st \in {"next", "done"}
    BY <1>2, <1>3, FetchJob
<1>5. n.st \notin InIoctl
    BY <1>4 DEF InIoctl
<1>6. UNCHANGED <<env, soft, ingr, egr, regs, lost>>
    BY DEF Fetch
<1> QED
    BY <1>1, <1>2, <1>3, <1>4, <1>5, <1>6, SerialLeaves

LEMMA SerialBegin ==
    ASSUME SerialInv, NEW p \in Procs, Begin(p), Exclusive', UNCHANGED env
    PROVE  SerialInv'
<1>1. PICK j : j = job[p]
    OBVIOUS
<1>2. PICK i : i = Head(j.plan)
    OBVIOUS
<1>3. JobsInv /\ j.st = "next" /\ j.st \in Busy /\ TablesInv
    BY <1>1 DEF SerialInv, Begin, Busy
<1>4. /\ JobOK(j) /\ j.lane \in Lanes /\ j.fch \in Fchs /\ i \in Ioctls
      /\ j = [st |-> j.st, call |-> j.call, lane |-> j.lane, fch |-> j.fch, sess |-> j.sess,
              plan |-> j.plan, todo |-> j.todo, got |-> j.got, ok |-> j.ok]
    BY <1>1, <1>2, <1>3, JobRecord
<1>5. job[p].st # "poll" /\ UNCHANGED <<env, soft, ingr, egr, regs, lost>>
    BY <1>1, <1>3 DEF Begin
<1>6. CASE Refused(j.lane, j.fch, i)
    <2>1. JobOK(Abort(j)) /\ Abort(j).st \in {"next", "done"}
        BY <1>3, <1>4, AbortJob
    <2>2. Abort(j).st \notin InIoctl
        BY <2>1 DEF InIoctl
    <2>3. job' = [job EXCEPT ![p] = Abort(j)]
        BY <1>1, <1>2, <1>6 DEF Begin
    <2> QED
        BY <1>5, <2>1, <2>2, <2>3, SerialLeaves
<1>7. CASE ~ Refused(j.lane, j.fch, i)
    <2>1. PICK w : w = Writes(j.lane, j.fch, i)
        OBVIOUS
    <2>2. PICK n : n = [st |-> "write", call |-> j.call, lane |-> j.lane, fch |-> j.fch, sess |-> j.sess,
                        plan |-> j.plan, todo |-> w, got |-> j.got, ok |-> j.ok]
        OBVIOUS
    <2>3. job' = [job EXCEPT ![p] = n]
        <3>1. n = [j EXCEPT !.st = "write", !.todo = w]
            <4>1. j = [st |-> j.st, call |-> j.call, lane |-> j.lane, fch |-> j.fch, sess |-> j.sess,
                       plan |-> j.plan, todo |-> j.todo, got |-> j.got, ok |-> j.ok]
                BY <1>4
            <4>2. PICK x : x = [j EXCEPT !.st = "write", !.todo = w]
                OBVIOUS
            <4>3. x = [st |-> "write", call |-> j.call, lane |-> j.lane, fch |-> j.fch, sess |-> j.sess,
                       plan |-> j.plan, todo |-> w, got |-> j.got, ok |-> j.ok]
                BY <4>1, <4>2
            <4> QED
                BY <2>2, <4>2, <4>3, Zenon
        <3> QED
            BY <1>1, <1>2, <1>7, <2>1, <3>1 DEF Begin
    <2>4. /\ n.st = "write" /\ n.lane = j.lane /\ n.fch = j.fch /\ n.plan = j.plan
          /\ n.todo = w
        BY <2>2
    <2>5. JobOK(n)
        BY <1>3, <1>4, <2>2, <2>4 DEF JobOK, Busy, InIoctl
    <2>6. PICK s : s = IF i.op = "delete" THEN soft[j.lane][j.fch][i.side] ELSE i.sess
        OBVIOUS
    <2>7. w = IF i.op = "update"
              THEN <<Clear, KeyReg(i, j.fch, s), ValueReg(i, j.fch, s), ReqReg(i)>>
              ELSE <<Clear, KeyReg(i, j.fch, s), ReqReg(i)>>
        BY <2>1, <2>6, WritesShape
    <2>8. \A r : Stage(n, i, s, r)
        BY <2>4, <2>7 DEF Stage
    <2>9. /\ i.op \in {"update", "delete", "read"} /\ i.side \in Sides
          /\ i.sess \in Sessions \cup {None}
          /\ i.op = "delete" => i.sess = None
          /\ i.side = "ingr" /\ i.op # "delete" => i.sess \in Sessions
        BY <1>4, IoctlType
    <2>10. /\ s \in Sessions \cup {None}
           /\ i.side = "ingr" => s \in Sessions
           /\ IF i.op = "delete" THEN i.side = "ingr" => s \in Deleted(j.lane, j.fch) ELSE s = i.sess
        <3>1. CASE i.op = "delete"
            <4>1. s = soft[j.lane][j.fch][i.side] /\ s # None
                BY <1>7, <2>6, <3>1 DEF Refused
            <4>2. s \in Sessions
                BY <1>3, <1>4, <2>9, <4>1 DEF TablesInv
            <4> QED
                BY <3>1, <4>1, <4>2 DEF Deleted
        <3>2. CASE i.op # "delete"
            <4>1. s = i.sess
                BY <2>6, <3>2
            <4>2. s \in Sessions \cup {None} /\ (i.side = "ingr" => s \in Sessions)
                BY <2>9, <3>2, <4>1
            <4> QED
                BY <3>2, <4>1, <4>2, Zenon
        <3> QED
            BY <3>1, <3>2
    <2>11. \A r, in, eg : Effect(n, i, s, r, in, eg)
        BY <2>4 DEF Effect
    <2>12. \A r, in, eg : IoctlOK(n, r, in, eg, Deleted(j.lane, j.fch))
        BY <1>2, <2>4, <2>8, <2>10, <2>11 DEF IoctlOK
    <2>13. Moves(p, n)
        BY <1>3, <2>3, <2>5, MovesStep
    <2>14. \A l \in Lanes, k \in Sides : Working(p, l, k)' => l = j.lane
        BY <2>4, <2>13 DEF Moves, Working
    <2> QED
        BY <1>5, <2>3, <2>4, <2>5, <2>12, <2>14, SerialJobStep
<1> QED
    BY <1>6, <1>7

\* Thread p polls: its ioctl, the session it is about and the registers.
Polling(p, j, i, l, k, r, s) ==
    /\ j = job[p] /\ i = Head(j.plan) /\ l = j.lane /\ k = i.side /\ r = regs[l][k]
    /\ JobOK(j) /\ j.st \in Busy /\ l \in Lanes /\ j.fch \in Fchs /\ i \in Ioctls
    /\ k \in Sides /\ r \in Regs /\ Working(p, l, k)
    /\ i.side = "ingr" => s \in Sessions
    /\ IF i.op = "delete" THEN i.side = "ingr" => s \in Deleted(l, j.fch) ELSE s = i.sess
    /\ j.todo = <<>> /\ r.req = i.op
    /\ HasKey(i, j.fch, s, r) /\ HasValue(i, j.fch, s, r)
    /\ Effect(j, i, s, r, ingr[l], egr[l])

LEMMA PollFacts ==
    ASSUME SerialInv, NEW p \in Procs, job[p].st = "poll"
    PROVE  \E j, i, l, k, r : \E s \in Sessions \cup {None} : Polling(p, j, i, l, k, r, s)
<1>1. PICK j : j = job[p]
    OBVIOUS
<1>2. PICK i : i = Head(j.plan)
    OBVIOUS
<1>3. PICK l : l = j.lane
    OBVIOUS
<1>4. PICK k : k = i.side
    OBVIOUS
<1>5. JobsInv /\ RegsInv /\ IoctlsInv /\ j.st = "poll" /\ j.st \in Busy
    BY <1>1 DEF SerialInv, Busy, InIoctl
<1>6. JobOK(j) /\ l \in Lanes /\ j.fch \in Fchs /\ i \in Ioctls /\ k \in Sides
    BY <1>1, <1>2, <1>3, <1>4, <1>5, JobRecord, IoctlType
<1>7. Working(p, l, k)
    BY <1>1, <1>2, <1>3, <1>4, <1>5 DEF Working
<1>8. PICK r : r = regs[l][k]
    OBVIOUS
<1>9. r \in Regs
    BY <1>5, <1>6, <1>8 DEF RegsInv
<1>10. IoctlOK(j, r, ingr[l], egr[l], Deleted(l, j.fch))
    BY <1>1, <1>5, <1>6, <1>7, <1>8 DEF IoctlsInv
<1>11. PICK s \in Sessions \cup {None} :
          /\ i.side = "ingr" => s \in Sessions
          /\ IF i.op = "delete" THEN i.side = "ingr" => s \in Deleted(l, j.fch) ELSE s = i.sess
          /\ Stage(j, i, s, r) /\ Effect(j, i, s, r, ingr[l], egr[l])
    BY <1>2, <1>10 DEF IoctlOK
<1>12. j.todo = <<>> /\ r.req = i.op /\ HasKey(i, j.fch, s, r) /\ HasValue(i, j.fch, s, r)
    BY <1>5, <1>11 DEF Stage
<1> QED
    BY <1>1, <1>2, <1>3, <1>4, <1>5, <1>6, <1>7, <1>8, <1>9, <1>11, <1>12, Zenon DEF Polling

\* The poll of thread p has seen the answer to a read, which is still there.
Answers(p, j, i, l, k, r, n) ==
    /\ j.st = "poll" /\ r.resp /\ i.op = "read"
    /\ UNCHANGED <<soft, ingr, egr, regs, lost, env>> /\ Moves(p, n)
    /\ n.st = "fetch" /\ n.lane = j.lane /\ n.fch = j.fch /\ n.plan = j.plan
    /\ n.todo = j.todo /\ n.call = j.call /\ n.sess = j.sess /\ n.ok = j.ok
    /\ \A q \in Procs, m \in Lanes, h \in Sides : Working(q, m, h)' <=> Working(q, m, h)

LEMMA ReadFacts ==
    ASSUME SerialInv, NEW p \in Procs, PollHit(p), Head(job[p].plan).op = "read", UNCHANGED env
    PROVE  /\ JobsInv'
           /\ \E j, i, l, k, r, n : \E s \in Sessions \cup {None} :
                 Polling(p, j, i, l, k, r, s) /\ Answers(p, j, i, l, k, r, n)
<1>1. PICK j, i, l, k, r : \E s \in Sessions \cup {None} : Polling(p, j, i, l, k, r, s)
    BY PollFacts DEF PollHit
<1>2. PICK s \in Sessions \cup {None} : Polling(p, j, i, l, k, r, s)
    BY <1>1
<1>0. /\ j = job[p] /\ i = Head(j.plan) /\ l = j.lane /\ k = i.side /\ r = regs[l][k]
      /\ JobOK(j) /\ j.st \in Busy /\ l \in Lanes /\ j.fch \in Fchs /\ i \in Ioctls
      /\ k \in Sides /\ r \in Regs /\ Working(p, l, k)
    BY <1>2 DEF Polling
<1>3. JobsInv /\ TablesInv /\ RegsInv /\ Exclusive /\ IoctlsInv /\ LateEgress /\ EgressTrue
    BY DEF SerialInv
<1>4. j.st = "poll" /\ r.resp /\ i.op = "read"
    BY <1>0 DEF PollHit
<1>5. UNCHANGED <<soft, ingr, egr, regs, lost, env>> /\ job' = [job EXCEPT ![p].st = "fetch"]
    BY <1>0, <1>4 DEF PollHit
<1>6. PICK n : n = [j EXCEPT !.st = "fetch"]
    OBVIOUS
<1>7. n = [st |-> "fetch", call |-> j.call, lane |-> j.lane, fch |-> j.fch, sess |-> j.sess,
           plan |-> j.plan, todo |-> j.todo, got |-> j.got, ok |-> j.ok]
    BY <1>0, <1>6 DEF JobOK
<1>8. /\ n.st = "fetch" /\ n.lane = j.lane /\ n.fch = j.fch /\ n.plan = j.plan
      /\ n.todo = j.todo /\ n.call = j.call /\ n.sess = j.sess /\ n.ok = j.ok
    BY <1>7
<1>9. JobOK(n)
    BY <1>0, <1>7, <1>8 DEF JobOK, Busy, InIoctl
<1>10. job' = [job EXCEPT ![p] = n]
    BY <1>0, <1>5, <1>6
<1>11. JobsInv' /\ Moves(p, n)
    BY <1>3, <1>9, <1>10, MovesStep
<1>12. \A q \in Procs, m \in Lanes, h \in Sides : Working(q, m, h)' <=> Working(q, m, h)
    BY <1>0, <1>4, <1>8, <1>11 DEF Working, Moves
<1>13. Answers(p, j, i, l, k, r, n)
    BY <1>4, <1>5, <1>8, <1>11, <1>12 DEF Answers
<1> QED
    BY <1>2, <1>11, <1>13

LEMMA SerialPollRead ==
    ASSUME SerialInv, NEW p \in Procs, PollHit(p), Head(job[p].plan).op = "read", UNCHANGED env
    PROVE  SerialInv'
<1>1. PICK j, i, l, k, r, n : \E s \in Sessions \cup {None} :
          Polling(p, j, i, l, k, r, s) /\ Answers(p, j, i, l, k, r, n)
    BY ReadFacts
<1>2. PICK s \in Sessions \cup {None} : Polling(p, j, i, l, k, r, s)
    BY <1>1
<1>0. /\ j = job[p] /\ i = Head(j.plan) /\ l = j.lane /\ k = i.side /\ r = regs[l][k]
      /\ Working(p, l, k)
    BY <1>2 DEF Polling
<1>3. JobsInv /\ TablesInv /\ RegsInv /\ Exclusive /\ IoctlsInv /\ LateEgress /\ EgressTrue
    BY DEF SerialInv
<1>4. j.st = "poll" /\ r.resp /\ i.op = "read"
    BY <1>1 DEF Answers
<1>5. UNCHANGED <<soft, ingr, egr, regs, lost, env>>
    BY <1>1 DEF Answers
<1>8. /\ n.st = "fetch" /\ n.lane = j.lane /\ n.fch = j.fch /\ n.plan = j.plan
      /\ n.todo = j.todo
    BY <1>1 DEF Answers
<1>11. JobsInv' /\ Moves(p, n)
    BY <1>1, ReadFacts DEF Answers
<1>12. \A q \in Procs, m \in Lanes, h \in Sides : Working(q, m, h)' <=> Working(q, m, h)
    BY <1>1 DEF Answers
<1>13. Exclusive'
    BY <1>3, <1>12 DEF Exclusive
<1>14. TablesInv' /\ RegsInv'
    BY <1>3, <1>5 DEF TablesInv, RegsInv, Regs
<1>15. IoctlsInv'
    <2> SUFFICES ASSUME NEW q \in Procs, NEW m \in Lanes, NEW h \in Sides, Working(q, m, h)'
                 PROVE  IoctlOK(job[q], regs[m][h], ingr[m], egr[m], Deleted(m, job[q].fch))'
        BY DEF IoctlsInv
    <2>1. Working(q, m, h)
        BY <1>12
    <2>2. CASE q = p
        <3>1. m = l /\ h = k
            BY <1>0, <2>1, <2>2 DEF Working
        <3>2. Stage(n, i, s, r) /\ Effect(n, i, s, r, ingr[l], egr[l])
            BY <1>2, <1>4, <1>8 DEF Stage, Effect, Polling
        <3>3. IoctlOK(n, r, ingr[l], egr[l], Deleted(l, j.fch))
            BY <1>0, <1>2, <1>8, <3>2 DEF IoctlOK, Polling
        <3> QED
            BY <1>0, <1>5, <1>8, <1>11, <2>2, <3>1, <3>3 DEF Moves, Deleted
    <2>3. CASE q # p
        BY <1>3, <1>5, <1>11, <2>1, <2>3 DEF Moves, Deleted, IoctlsInv
    <2> QED
        BY <2>2, <2>3
<1>16. LateEgress'
    <2> SUFFICES ASSUME NEW m \in Lanes, Pending(regs[m]["egr"]), Polled(m, "egr")
                 PROVE  Polled(m, "egr")'
        BY <1>3, <1>5 DEF LateEgress, Pending
    <2>1. PICK q \in Procs : Working(q, m, "egr") /\ job[q].st = "poll"
        BY DEF Polled
    <2>2. q # p
        BY <1>0, <1>4, <2>1 DEF Working, Pending
    <2> QED
        BY <1>11, <1>12, <2>1, <2>2 DEF Polled, Moves, Sides
<1>17. EgressTrue'
    <2>1. \A q \in Procs, m \in Lanes : Answered(q, m, "egr") =>
              Answered(q, m, "egr")' /\ job'[q] = job[q]
        BY <1>0, <1>4, <1>5, <1>11, <1>12 DEF Answered, Moves, Sides, Changes
    <2> QED
        BY <1>3, <1>5, <2>1 DEF EgressTrue
<1> QED
    BY <1>11, <1>13, <1>14, <1>15, <1>16, <1>17 DEF SerialInv

\* The copy at l, f, k becomes v, the rest of it stays.
Copies(l, f, k, v) ==
    /\ soft'[l][f][k] = v
    /\ \A m \in Lanes, g \in Fchs, h \in Sides :
          m # l \/ g # f \/ h # k => soft'[m][g][h] = soft[m][g][h]

\* The poll of thread p has seen the answer to an update or a delete, and the
\* call goes on to job n.
Applied(p, j, i, l, k, r, n) ==
    /\ j.st = "poll" /\ r.resp /\ i.op \in Changes
    /\ Copies(l, j.fch, k, i.sess) /\ lost' = lost \ {<<l, j.fch, k>>}
    /\ UNCHANGED <<ingr, egr, regs, env>>
    /\ n = Advance(j) /\ Moves(p, n) /\ n.st \in {"next", "done"}
    /\ n.lane = j.lane /\ n.fch = j.fch /\ n.call = j.call /\ n.sess = j.sess /\ n.ok = j.ok
    /\ n.st = "next" => n.plan = Tail(j.plan) /\ Head(n.plan).side = "egr"
    /\ \A q \in Procs, m \in Lanes, h \in Sides : Working(q, m, h)' <=> q # p /\ Working(q, m, h)

LEMMA AppliedFacts ==
    ASSUME SerialInv, NEW p \in Procs, PollHit(p), Head(job[p].plan).op # "read", UNCHANGED env
    PROVE  /\ TablesInv' /\ JobsInv'
           /\ \E j, i, l, k, r, n : \E s \in Sessions \cup {None} :
                 Polling(p, j, i, l, k, r, s) /\ Applied(p, j, i, l, k, r, n)
<1>1. PICK j, i, l, k, r : \E s \in Sessions \cup {None} : Polling(p, j, i, l, k, r, s)
    BY PollFacts DEF PollHit
<1>2. PICK s \in Sessions \cup {None} : Polling(p, j, i, l, k, r, s)
    BY <1>1
<1>3. /\ j = job[p] /\ i = Head(j.plan) /\ l = j.lane /\ k = i.side /\ r = regs[l][k]
      /\ JobOK(j) /\ j.st \in Busy /\ l \in Lanes /\ j.fch \in Fchs /\ i \in Ioctls
      /\ k \in Sides
    BY <1>2 DEF Polling
<1>4. j.st = "poll" /\ r.resp /\ i.op # "read"
    BY <1>3 DEF PollHit
<1>5. i.op \in Changes /\ i.sess \in Sessions \cup {None}
    BY <1>3, <1>4, IoctlType DEF Changes
<1>6. PICK n : n = Advance(j)
    OBVIOUS
<1>7. /\ JobOK(n) /\ n.st \in {"next", "done"}
      /\ n.lane = j.lane /\ n.fch = j.fch /\ n.call = j.call /\ n.sess = j.sess /\ n.ok = j.ok
      /\ n.st = "next" => n.plan = Tail(j.plan) /\ Head(n.plan).side = "egr"
    BY <1>3, <1>6, AdvanceJob
<1>8. /\ job' = [job EXCEPT ![p] = n] /\ UNCHANGED <<ingr, egr, regs, env>>
      /\ soft' = [soft EXCEPT ![l][j.fch][k] = i.sess] /\ lost' = lost \ {<<l, j.fch, k>>}
    BY <1>3, <1>4, <1>6 DEF PollHit
<1>9. JobsInv /\ TablesInv
    BY DEF SerialInv
<1>10. JobsInv' /\ Moves(p, n)
    BY <1>7, <1>8, <1>9, MovesStep
<1>11. TablesInv' /\ Copies(l, j.fch, k, i.sess)
    <2>1. soft \in [Lanes -> [Fchs -> [Sides -> Sessions \cup {None}]]]
        BY <1>9 DEF TablesInv
    <2>3. PICK f, x : f = j.fch /\ x = i.sess
        OBVIOUS
    <2>4. /\ soft' = [soft EXCEPT ![l][f][k] = x] /\ l \in Lanes /\ f \in Fchs /\ k \in Sides
          /\ x \in Sessions \cup {None}
        BY <1>3, <1>5, <1>8, <2>3
    <2>2. soft' \in [Lanes -> [Fchs -> [Sides -> Sessions \cup {None}]]]
        BY <2>1, <2>4
    <2>5. Copies(l, f, k, x)
        BY <2>1, <2>4 DEF Copies
    <2>6. TablesInv'
        BY <1>8, <1>9, <2>2 DEF TablesInv
    <2> QED
        BY <2>3, <2>5, <2>6
<1>12. \A q \in Procs, m \in Lanes, h \in Sides : Working(q, m, h)' <=> q # p /\ Working(q, m, h)
    BY <1>3, <1>7, <1>10 DEF Working, Moves
<1>13. Applied(p, j, i, l, k, r, n)
    BY <1>4, <1>5, <1>6, <1>7, <1>8, <1>10, <1>11, <1>12 DEF Applied
<1> QED
    BY <1>2, <1>10, <1>11, <1>13

\* An egress ioctl does not depend on the sessions that may be deleted.
LEMMA IoctlFrame ==
    ASSUME NEW j, NEW r, NEW in, NEW eg, NEW D, NEW E, IoctlOK(j, r, in, eg, D),
           Head(j.plan).side = "ingr" => D = E
    PROVE  IoctlOK(j, r, in, eg, E)
BY DEF IoctlOK

LEMMA SerialPollChange ==
    ASSUME SerialInv, NEW p \in Procs, PollHit(p), Head(job[p].plan).op # "read", UNCHANGED env
    PROVE  SerialInv'
<1>1. PICK j, i, l, k, r, n : \E s \in Sessions \cup {None} :
          Polling(p, j, i, l, k, r, s) /\ Applied(p, j, i, l, k, r, n)
    BY AppliedFacts
<1>2. PICK s \in Sessions \cup {None} : Polling(p, j, i, l, k, r, s)
    BY <1>1
<1>3. /\ j = job[p] /\ i = Head(j.plan) /\ l = j.lane /\ k = i.side /\ r = regs[l][k]
      /\ l \in Lanes /\ j.fch \in Fchs /\ i \in Ioctls /\ k \in Sides /\ Working(p, l, k)
    BY <1>2 DEF Polling
<1>4. /\ j.st = "poll" /\ r.resp /\ i.op \in Changes
      /\ Copies(l, j.fch, k, i.sess) /\ lost' = lost \ {<<l, j.fch, k>>}
      /\ UNCHANGED <<ingr, egr, regs, env>> /\ Moves(p, n)
    BY <1>1 DEF Applied
<1>5. \A q \in Procs, m \in Lanes, h \in Sides : Working(q, m, h)' <=> q # p /\ Working(q, m, h)
    BY <1>1 DEF Applied
<1>6. JobsInv /\ TablesInv /\ RegsInv /\ Exclusive /\ IoctlsInv /\ LateEgress /\ EgressTrue
    BY DEF SerialInv
<1>7. TablesInv' /\ JobsInv'
    BY AppliedFacts
<1>8. RegsInv'
    BY <1>4, <1>6 DEF RegsInv, Regs
<1>9. Exclusive'
    BY <1>5, <1>6 DEF Exclusive
<1>10. IoctlsInv'
    <2> SUFFICES ASSUME NEW q \in Procs, NEW m \in Lanes, NEW h \in Sides, Working(q, m, h)'
                 PROVE  IoctlOK(job[q], regs[m][h], ingr[m], egr[m], Deleted(m, job[q].fch))'
        BY DEF IoctlsInv
    <2>1. Working(q, m, h) /\ q # p
        BY <1>5
    <2>2. m # l \/ h # k
        BY <1>3, <1>6, <2>1, OneWorks
    <2>3. job'[q] = job[q] /\ Head(job[q].plan).side = h /\ job[q].lane = m
        BY <1>4, <2>1 DEF Moves, Working
    <2>4. IoctlOK(job[q], regs[m][h], ingr[m], egr[m], Deleted(m, job[q].fch))
        BY <1>6, <2>1 DEF IoctlsInv
    <2>5. job[q].fch \in Fchs
        BY <1>6, <2>1, JobRecord DEF Working
    <2>6. h = "ingr" => soft'[m][job[q].fch]["ingr"] = soft[m][job[q].fch]["ingr"]
        BY <1>4, <2>2, <2>5 DEF Copies, Sides
    <2>7. h = "ingr" => Deleted(m, job[q].fch)' = Deleted(m, job[q].fch)
        BY <1>4, <2>3, <2>6 DEF Deleted
    <2>8. PICK D : D = Deleted(m, job[q].fch)'
        OBVIOUS
    <2>9. IoctlOK(job[q], regs[m][h], ingr[m], egr[m], D)
        BY <2>3, <2>4, <2>7, <2>8, IoctlFrame
    <2> QED
        BY <1>4, <2>3, <2>8, <2>9
<1>11. LateEgress'
    <2> SUFFICES ASSUME NEW m \in Lanes, Pending(regs[m]["egr"])
                 PROVE  Polled(m, "egr")' \/ <<m, regs[m]["egr"].channel, "egr">> \in lost'
        BY <1>4 DEF LateEgress, Pending
    <2>1. m # l \/ k # "egr"
        BY <1>3, <1>4 DEF Pending
    <2>2. CASE Polled(m, "egr")
        <3>1. PICK q \in Procs : Working(q, m, "egr") /\ job[q].st = "poll"
            BY <2>2 DEF Polled
        <3>2. q # p
            BY <1>3, <2>1, <3>1 DEF Working
        <3> QED
            BY <1>4, <1>5, <3>1, <3>2 DEF Polled, Moves, Sides
    <2>3. CASE <<m, regs[m]["egr"].channel, "egr">> \in lost
        BY <1>4, <2>1, <2>3
    <2> QED
        BY <1>6, <2>2, <2>3 DEF LateEgress
<1>12. EgressTrue'
    <2> SUFFICES ASSUME NEW m \in Lanes, NEW g \in Fchs, soft'[m][g]["egr"] # None,
                        <<m, g, "egr">> \notin lost'
                 PROVE  \/ egr'[m][g] = soft'[m][g]["egr"]
                        \/ \E q \in Procs : Answered(q, m, "egr")' /\ job'[q].fch = g
        BY DEF EgressTrue
    <2>1. CASE m = l /\ g = j.fch /\ k = "egr"
        <3>1. soft'[m][g]["egr"] = i.sess
            BY <1>4, <2>1 DEF Copies
        <3>2. i.op = "update"
            BY <1>3, <1>4, <3>1, IoctlType DEF Changes
        <3>3. s = i.sess /\ Effect(j, i, s, r, ingr[l], egr[l])
            BY <1>2, <3>2 DEF Polling
        <3>4. egr[l][j.fch] = s
            BY <1>3, <1>4, <2>1, <3>2, <3>3 DEF Effect
        <3> QED
            BY <1>4, <2>1, <3>1, <3>3, <3>4
    <2>2. CASE ~ (m = l /\ g = j.fch /\ k = "egr")
        <3>1. soft'[m][g]["egr"] = soft[m][g]["egr"]
            BY <1>4, <2>2 DEF Copies, Sides
        <3>2. <<m, g, "egr">> \notin lost
            BY <1>4, <2>2
        <3>3. CASE egr[m][g] = soft[m][g]["egr"]
            BY <1>4, <3>1, <3>3
        <3>4. CASE \E q \in Procs : Answered(q, m, "egr") /\ job[q].fch = g
            <4>1. PICK q \in Procs : Answered(q, m, "egr") /\ job[q].fch = g
                BY <3>4
            <4>2. q # p
                BY <1>3, <2>2, <4>1 DEF Answered, Working
            <4>3. Working(q, m, "egr")' /\ job'[q] = job[q]
                BY <1>4, <1>5, <4>1, <4>2 DEF Answered, Moves, Sides
            <4>4. Answered(q, m, "egr")'
                BY <1>4, <4>1, <4>3 DEF Answered
            <4> QED
                BY <4>1, <4>3, <4>4
        <3> QED
            BY <1>6, <3>1, <3>2, <3>3, <3>4 DEF EgressTrue
    <2> QED
        BY <2>1, <2>2
<1> QED
    BY <1>7, <1>8, <1>9, <1>10, <1>11, <1>12 DEF SerialInv

\* The poll of thread p has given up, and the call goes on to job n.
GaveUp(p, j, i, l, k, r, n) ==
    /\ env.timeout /\ j.st = "poll" /\ ~ r.resp
    /\ lost' = IF i.op = "read" THEN lost ELSE lost \cup {<<l, j.fch, k>>}
    /\ UNCHANGED <<soft, ingr, egr, regs, env>>
    /\ n = Abort(j) /\ Moves(p, n) /\ n.st \in {"next", "done"}
    /\ n.lane = j.lane /\ n.fch = j.fch /\ n.call = j.call /\ n.sess = j.sess /\ n.ok = FALSE
    /\ n.st = "next" => Head(n.plan) = Delete("ingr")
    /\ n.st = "next" => n.plan = <<Delete("ingr")>> /\ k = "egr"
    /\ n.st = "done" /\ j.call = "connect" => k # "egr"
    /\ \A q \in Procs, m \in Lanes, h \in Sides : Working(q, m, h)' <=> q # p /\ Working(q, m, h)

LEMMA GaveUpFacts ==
    ASSUME SerialInv, NEW p \in Procs, PollTimeout(p), UNCHANGED env
    PROVE  /\ JobsInv'
           /\ \E j, i, l, k, r, n : \E s \in Sessions \cup {None} :
                 Polling(p, j, i, l, k, r, s) /\ GaveUp(p, j, i, l, k, r, n)
<1>1. PICK j, i, l, k, r : \E s \in Sessions \cup {None} : Polling(p, j, i, l, k, r, s)
    BY PollFacts DEF PollTimeout
<1>2. PICK s \in Sessions \cup {None} : Polling(p, j, i, l, k, r, s)
    BY <1>1
<1>3. /\ j = job[p] /\ i = Head(j.plan) /\ l = j.lane /\ k = i.side /\ r = regs[l][k]
      /\ JobOK(j) /\ j.st \in Busy
    BY <1>2 DEF Polling
<1>4. PICK n : n = Abort(j)
    OBVIOUS
<1>5. /\ JobOK(n) /\ n.st \in {"next", "done"} /\ n.lane = j.lane /\ n.fch = j.fch
      /\ n.call = j.call /\ n.sess = j.sess /\ n.ok = FALSE
      /\ n.st = "next" => Head(n.plan) = Delete("ingr")
      /\ n.st = "next" => n.plan = <<Delete("ingr")>> /\ k = "egr"
      /\ n.st = "done" /\ j.call = "connect" => k # "egr"
    BY <1>3, <1>4, AbortJob
<1>6. /\ env.timeout /\ j.st = "poll" /\ ~ r.resp
      /\ lost' = IF i.op = "read" THEN lost ELSE lost \cup {<<l, j.fch, k>>}
      /\ UNCHANGED <<soft, ingr, egr, regs, env>> /\ job' = [job EXCEPT ![p] = n]
    BY <1>3, <1>4 DEF PollTimeout
<1>7. JobsInv' /\ Moves(p, n)
    BY <1>5, <1>6, MovesStep DEF SerialInv
<1>8. \A q \in Procs, m \in Lanes, h \in Sides : Working(q, m, h)' <=> q # p /\ Working(q, m, h)
    BY <1>3, <1>5, <1>7 DEF Working, Moves
<1>9. GaveUp(p, j, i, l, k, r, n)
    BY <1>4, <1>5, <1>6, <1>7, <1>8 DEF GaveUp
<1> QED
    BY <1>2, <1>7, <1>9

LEMMA SerialPollTimeout ==
    ASSUME SerialInv, NEW p \in Procs, PollTimeout(p), UNCHANGED env
    PROVE  SerialInv'
<1>1. PICK j, i, l, k, r, n : \E s \in Sessions \cup {None} :
          Polling(p, j, i, l, k, r, s) /\ GaveUp(p, j, i, l, k, r, n)
    BY GaveUpFacts
<1>2. PICK s \in Sessions \cup {None} : Polling(p, j, i, l, k, r, s)
    BY <1>1
<1>3. /\ j = job[p] /\ i = Head(j.plan) /\ l = j.lane /\ k = i.side /\ r = regs[l][k]
      /\ l \in Lanes /\ j.fch \in Fchs /\ i \in Ioctls /\ k \in Sides /\ Working(p, l, k)
      /\ r.req = i.op /\ HasKey(i, j.fch, s, r)
    BY <1>2 DEF Polling
<1>4. /\ j.st = "poll" /\ ~ r.resp
      /\ lost' = IF i.op = "read" THEN lost ELSE lost \cup {<<l, j.fch, k>>}
      /\ UNCHANGED <<soft, ingr, egr, regs, env>> /\ Moves(p, n)
    BY <1>1 DEF GaveUp
<1>5. \A q \in Procs, m \in Lanes, h \in Sides : Working(q, m, h)' <=> q # p /\ Working(q, m, h)
    BY <1>1 DEF GaveUp
<1>6. JobsInv /\ TablesInv /\ RegsInv /\ Exclusive /\ IoctlsInv /\ LateEgress /\ EgressTrue
    BY DEF SerialInv
<1>7. JobsInv' /\ TablesInv' /\ RegsInv'
    BY <1>4, <1>6, GaveUpFacts DEF TablesInv, RegsInv, Regs
<1>8. Exclusive'
    BY <1>5, <1>6 DEF Exclusive
<1>9. IoctlsInv'
    <2> SUFFICES ASSUME NEW q \in Procs, NEW m \in Lanes, NEW h \in Sides, Working(q, m, h)'
                 PROVE  IoctlOK(job[q], regs[m][h], ingr[m], egr[m], Deleted(m, job[q].fch))'
        BY DEF IoctlsInv
    <2>1. Working(q, m, h) /\ job'[q] = job[q]
        BY <1>4, <1>5 DEF Moves
    <2> QED
        BY <1>4, <1>6, <2>1 DEF IoctlsInv, Deleted
<1>10. lost \subseteq lost'
    BY <1>4
<1>11. LateEgress'
    <2> SUFFICES ASSUME NEW m \in Lanes, Pending(regs[m]["egr"])
                 PROVE  Polled(m, "egr")' \/ <<m, regs[m]["egr"].channel, "egr">> \in lost'
        BY <1>4 DEF LateEgress, Pending
    <2>1. CASE <<m, regs[m]["egr"].channel, "egr">> \in lost
        BY <1>10, <2>1
    <2>2. CASE Polled(m, "egr")
        <3>1. PICK q \in Procs : Working(q, m, "egr") /\ job[q].st = "poll"
            BY <2>2 DEF Polled
        <3>2. CASE q # p
            BY <1>4, <1>5, <3>1, <3>2 DEF Polled, Moves, Sides
        <3>3. CASE q = p
            <4>1. m = l /\ k = "egr"
                BY <1>3, <3>1, <3>3 DEF Working
            <4>2. i.op # "read" /\ r.channel = j.fch
                BY <1>3, <4>1 DEF Pending, HasKey, Changes
            <4> QED
                BY <1>3, <1>4, <4>1, <4>2
        <3> QED
            BY <3>2, <3>3
    <2> QED
        BY <1>6, <2>1, <2>2 DEF LateEgress
<1>12. EgressTrue'
    <2>1. \A q \in Procs, m \in Lanes :
              Answered(q, m, "egr") => Answered(q, m, "egr")' /\ job'[q] = job[q]
        <3> SUFFICES ASSUME NEW q \in Procs, NEW m \in Lanes, Answered(q, m, "egr")
                     PROVE  Answered(q, m, "egr")' /\ job'[q] = job[q]
            OBVIOUS
        <3>1. q # p
            BY <1>3, <1>4 DEF Answered, Working
        <3>2. Working(q, m, "egr")' /\ job'[q] = job[q]
            BY <1>4, <1>5, <3>1 DEF Answered, Moves, Sides
        <3> QED
            BY <1>4, <3>2 DEF Answered
    <2> QED
        BY <1>4, <1>6, <1>10, <2>1 DEF EgressTrue
<1> QED
    BY <1>7, <1>8, <1>9, <1>11, <1>12 DEF SerialInv

LEMMA SerialReset ==
    ASSUME SerialInv, ResetSoft, ~ env.careful, UNCHANGED env
    PROVE  SerialInv'
<1>1. JobsInv /\ TablesInv /\ RegsInv /\ Exclusive /\ IoctlsInv /\ LateEgress /\ EgressTrue
    BY DEF SerialInv
<1>2. UNCHANGED <<ingr, egr, regs, job, lost, env>>
    BY DEF ResetSoft
<1>3. /\ soft' \in [Lanes -> [Fchs -> [Sides -> Sessions \cup {None}]]]
      /\ \A l \in Lanes, f \in Fchs, k \in Sides : soft'[l][f][k] = None
    BY DEF ResetSoft
<1>4. TablesInv' /\ RegsInv' /\ JobsInv' /\ Exclusive'
    <2>1. TablesInv'
        BY <1>1, <1>2, <1>3 DEF TablesInv
    <2>2. RegsInv'
        BY <1>1, <1>2 DEF RegsInv, Regs
    <2>3. JobsInv'
        BY <1>1, <1>2 DEF JobsInv
    <2>4. Exclusive'
        BY <1>1, <1>2 DEF Exclusive, Working
    <2> QED
        BY <2>1, <2>2, <2>3, <2>4
<1>5. IoctlsInv'
    BY <1>1, <1>2 DEF IoctlsInv, Working, Deleted
<1>6. LateEgress'
    BY <1>1, <1>2 DEF LateEgress, Polled, Working, Pending
<1>7. EgressTrue'
    BY <1>3 DEF EgressTrue, Sides
<1> QED
    BY <1>4, <1>5, <1>6, <1>7 DEF SerialInv

(***************************************************************************)
(* The FPGA serves a request.                                              *)
(***************************************************************************)
\* Entry e of a lane's table becomes v if the request changes it.
Served(l, k, r, u) ==
    /\ r = regs[l][k] /\ r \in Regs /\ r.req # "none" /\ ~ r.resp
    /\ u \in Regs /\ u.resp = TRUE /\ u.req = r.req /\ Sets(l, k, u)
    /\ k = "ingr" => u.session = r.session /\ r.session \in Sessions
    /\ k = "egr" => u.channel = r.channel /\ r.channel \in Fchs
    /\ r.req # "read" => u.session = r.session /\ u.channel = r.channel
    /\ UNCHANGED <<soft, job, lost, env>>

ServedIngress(l, r) ==
    /\ r.req = "update" => ingr'[l][r.session] = r.channel
    /\ r.req = "delete" => ingr'[l][r.session] = None
    /\ \A m \in Lanes, s \in Sessions :
          r.req = "read" \/ m # l \/ s # r.session => ingr'[m][s] = ingr[m][s]

ServedEgress(l, r) ==
    /\ r.req = "update" => egr'[l][r.channel] = r.session
    /\ r.req = "delete" => egr'[l][r.channel] = None
    /\ \A m \in Lanes, f \in Fchs :
          r.req = "read" \/ m # l \/ f # r.channel => egr'[m][f] = egr[m][f]

LEMMA ServedFacts ==
    ASSUME SerialInv, NEW l \in Lanes, NEW k \in Sides, Serve(l, k), UNCHANGED env
    PROVE  /\ TablesInv' /\ RegsInv'
           /\ \E r, u : /\ Served(l, k, r, u)
                        /\ k = "ingr" => ServedIngress(l, r) /\ egr' = egr
                        /\ k = "egr" => ServedEgress(l, r) /\ ingr' = ingr
<1>1. TablesInv /\ RegsInv /\ (k = "ingr" \/ k = "egr")
    BY DEF SerialInv, Sides
<1>2. PICK r : r = regs[l][k]
    OBVIOUS
<1>3. r \in Regs /\ r.req # "none" /\ ~ r.resp
    BY <1>1, <1>2 DEF RegsInv, Serve
<1>4. (k = "ingr" => r.session \in Sessions) /\ (k = "egr" => r.channel \in Fchs)
    BY <1>1, <1>2, <1>3 DEF RegsInv
<1>5. r = [req |-> r.req, session |-> r.session, channel |-> r.channel, resp |-> r.resp]
    BY <1>3 DEF Regs
<1>6. UNCHANGED <<soft, job, lost, env>>
    BY DEF Serve
<1>7. /\ ingr \in [Lanes -> [Sessions -> Fchs \cup {None}]]
      /\ egr \in [Lanes -> [Fchs -> Sessions \cup {None}]]
      /\ r.req \in {"update", "delete", "read"} /\ r.session \in Sessions \cup {None}
      /\ r.channel \in Fchs \cup {None}
    BY <1>1, <1>3 DEF TablesInv, Regs
<1>8. PICK u : /\ regs' = [regs EXCEPT ![l][k] = u]
               /\ u \in Regs /\ u.resp = TRUE /\ u.req = r.req
               /\ k = "ingr" => u.session = r.session
               /\ k = "egr" => u.channel = r.channel
               /\ r.req # "read" => u.session = r.session /\ u.channel = r.channel
    <2>1. CASE r.req # "read"
        <3>1. regs' = [regs EXCEPT ![l][k] = [r EXCEPT !.resp = TRUE]]
            BY <1>2, <2>1 DEF Serve
        <3>2. PICK x : x = [r EXCEPT !.resp = TRUE]
            OBVIOUS
        <3>3. /\ x \in Regs /\ x.resp = TRUE /\ x.req = r.req
              /\ x.session = r.session /\ x.channel = r.channel
            BY <1>3, <3>2 DEF Regs
        <3> QED
            BY <3>1, <3>2, <3>3
    <2>2. CASE r.req = "read" /\ k = "ingr"
        <3>1. regs' = [regs EXCEPT ![l][k] =
                          [r EXCEPT !.resp = TRUE, !.channel = ingr[l][r.session]]]
            BY <1>2, <2>2 DEF Serve
        <3>2. PICK x : x = [r EXCEPT !.resp = TRUE, !.channel = ingr[l][r.session]]
            OBVIOUS
        <3>3. ingr[l][r.session] \in Fchs \cup {None}
            BY <1>4, <1>7, <2>2
        <3>4. x \in Regs /\ x.resp = TRUE /\ x.req = r.req /\ x.session = r.session
            BY <1>3, <3>2, <3>3 DEF Regs
        <3> QED
            BY <2>2, <3>1, <3>2, <3>4
    <2>3. CASE r.req = "read" /\ k = "egr"
        <3>1. regs' = [regs EXCEPT ![l][k] =
                          [r EXCEPT !.resp = TRUE, !.session = egr[l][r.channel]]]
            BY <1>2, <2>3 DEF Serve
        <3>2. PICK x : x = [r EXCEPT !.resp = TRUE, !.session = egr[l][r.channel]]
            OBVIOUS
        <3>3. egr[l][r.channel] \in Sessions \cup {None}
            BY <1>4, <1>7, <2>3
        <3>4. x \in Regs /\ x.resp = TRUE /\ x.req = r.req /\ x.channel = r.channel
            BY <1>3, <3>2, <3>3 DEF Regs
        <3> QED
            BY <2>3, <3>1, <3>2, <3>4
    <2> QED
        BY <1>1, <2>1, <2>2, <2>3
<1>9. RegsInv' /\ Sets(l, k, u)
    BY <1>1, <1>4, <1>8, SetsStep
<1>10. Served(l, k, r, u)
    BY <1>2, <1>3, <1>4, <1>6, <1>8, <1>9 DEF Served
<1>11. CASE k = "ingr"
    <2>1. egr' = egr
        BY <1>11 DEF Serve
    <2>2. ingr' = IF r.req # "read"
                  THEN [ingr EXCEPT ![l][r.session] = IF r.req = "update" THEN r.channel ELSE None]
                  ELSE ingr
        BY <1>2, <1>11 DEF Serve
    <2>3. PICK v : v = IF r.req = "update" THEN r.channel ELSE None
        OBVIOUS
    <2>4. v \in Fchs \cup {None}
        BY <1>7, <2>3
    <2>5. ingr' = ingr \/ ingr' = [ingr EXCEPT ![l][r.session] = v]
        BY <2>2, <2>3
    <2>6. ingr' \in [Lanes -> [Sessions -> Fchs \cup {None}]]
        BY <1>7, <2>4, <2>5
    <2>7. ServedIngress(l, r)
        <3>1. CASE r.req = "read"
            BY <2>2, <3>1 DEF ServedIngress
        <3>2. CASE r.req # "read"
            <4>1. ingr' = [ingr EXCEPT ![l][r.session] = v]
                BY <2>2, <2>3, <3>2
            <4>2. ingr'[l][r.session] = v
                BY <1>4, <1>7, <1>11, <4>1
            <4>3. \A m \in Lanes, s \in Sessions : m # l \/ s # r.session => ingr'[m][s] = ingr[m][s]
                BY <1>4, <1>7, <1>11, <4>1
            <4> QED
                BY <2>3, <3>2, <4>2, <4>3 DEF ServedIngress
        <3> QED
            BY <3>1, <3>2
    <2>8. TablesInv'
        BY <1>1, <1>6, <2>1, <2>6 DEF TablesInv
    <2> QED
        BY <1>9, <1>10, <1>11, <2>1, <2>7, <2>8
<1>12. CASE k = "egr"
    <2>1. ingr' = ingr
        BY <1>12 DEF Serve
    <2>2. egr' = IF r.req # "read"
                 THEN [egr EXCEPT ![l][r.channel] = IF r.req = "update" THEN r.session ELSE None]
                 ELSE egr
        BY <1>2, <1>12 DEF Serve
    <2>3. PICK v : v = IF r.req = "update" THEN r.session ELSE None
        OBVIOUS
    <2>4. v \in Sessions \cup {None}
        BY <1>7, <2>3
    <2>5. egr' = egr \/ egr' = [egr EXCEPT ![l][r.channel] = v]
        BY <2>2, <2>3
    <2>6. egr' \in [Lanes -> [Fchs -> Sessions \cup {None}]]
        <3>1. CASE egr' = egr
            BY <1>7, <3>1
        <3>2. CASE egr' = [egr EXCEPT ![l][r.channel] = v]
            BY <1>4, <1>7, <1>12, <2>4, <3>2
        <3> QED
            BY <2>5, <3>1, <3>2
    <2>7. ServedEgress(l, r)
        <3>1. CASE r.req = "read"
            BY <2>2, <3>1 DEF ServedEgress
        <3>2. CASE r.req # "read"
            <4>1. egr' = [egr EXCEPT ![l][r.channel] = v]
                BY <2>2, <2>3, <3>2
            <4>2. egr'[l][r.channel] = v
                BY <1>4, <1>7, <1>12, <4>1
            <4>3. \A m \in Lanes, f \in Fchs : m # l \/ f # r.channel => egr'[m][f] = egr[m][f]
                BY <1>4, <1>7, <1>12, <4>1
            <4> QED
                BY <2>3, <3>2, <4>2, <4>3 DEF ServedEgress
        <3> QED
            BY <3>1, <3>2
    <2>8. TablesInv'
        BY <1>1, <1>6, <2>1, <2>6 DEF TablesInv
    <2> QED
        BY <1>9, <1>10, <1>12, <2>1, <2>7, <2>8
<1> QED
    BY <1>1, <1>11, <1>12

\* The ioctl of a side depends on its own table only.
LEMMA TableFrame ==
    ASSUME NEW j, NEW r, NEW in, NEW eg, NEW in2, NEW eg2, NEW D, IoctlOK(j, r, in, eg, D),
           Head(j.plan).side = "ingr" => \A s \in Sessions : in2[s] = in[s],
           Head(j.plan).side = "egr" => eg2[j.fch] = eg[j.fch]
    PROVE  IoctlOK(j, r, in2, eg2, D)
<1>1. PICK i : i = Head(j.plan)
    OBVIOUS
<1>2. PICK s \in Sessions \cup {None} :
        /\ i.side = "ingr" => s \in Sessions
        /\ IF i.op = "delete" THEN i.side = "ingr" => s \in D ELSE s = i.sess
        /\ Stage(j, i, s, r)
        /\ Effect(j, i, s, r, in, eg)
    BY <1>1 DEF IoctlOK
<1>3. Effect(j, i, s, r, in2, eg2)
    BY <1>1, <1>2 DEF Effect
<1> QED
    BY <1>1, <1>2, <1>3 DEF IoctlOK

\* The ioctl whose request is served.
LEMMA ServedIoctl ==
    ASSUME NEW j, NEW i, i = Head(j.plan), i \in Ioctls, NEW r, NEW u, NEW in, NEW eg,
           NEW in2, NEW eg2, NEW D, IoctlOK(j, r, in, eg, D),
           r.req # "none", u.req = r.req,
           i.side = "ingr" => u.session = r.session,
           i.side = "egr" => u.channel = r.channel,
           r.req # "read" => u.session = r.session /\ u.channel = r.channel,
           i.side = "ingr" => /\ r.req = "update" => in2[r.session] = r.channel
                              /\ r.req = "delete" => in2[r.session] = None,
           i.side = "egr" => /\ r.req = "update" => eg2[r.channel] = r.session
                             /\ r.req = "delete" => eg2[r.channel] = None
    PROVE  IoctlOK(j, u, in2, eg2, D)
<1>2. PICK s \in Sessions \cup {None} :
        /\ i.side = "ingr" => s \in Sessions
        /\ IF i.op = "delete" THEN i.side = "ingr" => s \in D ELSE s = i.sess
        /\ Stage(j, i, s, r)
    BY DEF IoctlOK
<1>3. i.op \in {"update", "delete", "read"} /\ i.side \in {"ingr", "egr"}
    BY IoctlType DEF Sides
<1>4. ~ Quiet(r)
    BY DEF Quiet
<1>5. CASE /\ j.st = "write"
           /\ j.todo = IF i.op = "update"
                       THEN <<Clear, KeyReg(i, j.fch, s), ValueReg(i, j.fch, s), ReqReg(i)>>
                       ELSE <<Clear, KeyReg(i, j.fch, s), ReqReg(i)>>
    <2>1. Stage(j, i, s, u)
        BY <1>5 DEF Stage
    <2>2. Effect(j, i, s, u, in2, eg2)
        BY <1>5 DEF Effect
    <2> QED
        BY <1>2, <2>1, <2>2 DEF IoctlOK
<1>6. CASE /\ j.st \in {"poll", "fetch"} /\ j.todo = <<>>
           /\ r.req = i.op /\ HasKey(i, j.fch, s, r) /\ HasValue(i, j.fch, s, r)
           /\ j.st = "fetch" => i.op = "read"
    <2>1. HasKey(i, j.fch, s, u)
        BY <1>3, <1>6 DEF HasKey
    <2>2. HasValue(i, j.fch, s, u)
        BY <1>3, <1>6 DEF HasValue
    <2>3. Stage(j, i, s, u)
        BY <1>6, <2>1, <2>2 DEF Stage
    <2>4. Effect(j, i, s, u, in2, eg2)
        BY <1>3, <1>6 DEF Effect, HasKey, HasValue
    <2> QED
        BY <1>2, <2>3, <2>4 DEF IoctlOK
<1> QED
    BY <1>2, <1>4, <1>5, <1>6 DEF Stage

LEMMA SerialServe ==
    ASSUME SerialInv, NEW l \in Lanes, NEW k \in Sides, Serve(l, k), UNCHANGED env
    PROVE  SerialInv'
<1>1. TablesInv' /\ RegsInv'
    BY ServedFacts
<1>2. PICK r, u : /\ Served(l, k, r, u)
                  /\ k = "ingr" => ServedIngress(l, r) /\ egr' = egr
                  /\ k = "egr" => ServedEgress(l, r) /\ ingr' = ingr
    BY ServedFacts
<1>3. JobsInv /\ TablesInv /\ RegsInv /\ Exclusive /\ IoctlsInv /\ LateEgress /\ EgressTrue
    BY DEF SerialInv
<1>4. /\ r = regs[l][k] /\ r \in Regs /\ r.req # "none" /\ ~ r.resp
      /\ u \in Regs /\ u.resp = TRUE /\ u.req = r.req /\ Sets(l, k, u)
      /\ UNCHANGED <<soft, job, lost, env>>
    BY <1>2 DEF Served
<1>5. /\ k = "ingr" => u.session = r.session /\ r.session \in Sessions
      /\ k = "egr" => u.channel = r.channel /\ r.channel \in Fchs
      /\ r.req # "read" => u.session = r.session /\ u.channel = r.channel
    BY <1>2 DEF Served
<1>6. k = "ingr" \/ k = "egr"
    BY DEF Sides
<1>7. \A q \in Procs, m \in Lanes, h \in Sides : Working(q, m, h)' <=> Working(q, m, h)
    BY <1>4 DEF Working
<1>8. Exclusive' /\ JobsInv'
    BY <1>3, <1>4, <1>7 DEF Exclusive, JobsInv
<1>9. IoctlsInv'
    <2> SUFFICES ASSUME NEW q \in Procs, NEW m \in Lanes, NEW h \in Sides, Working(q, m, h)'
                 PROVE  IoctlOK(job[q], regs[m][h], ingr[m], egr[m], Deleted(m, job[q].fch))'
        BY DEF IoctlsInv
    <2>1. PICK j : j = job[q]
        OBVIOUS
    <2>2. Working(q, m, h) /\ Head(j.plan).side = h /\ j.st # "idle" /\ j.st \in Busy
        BY <1>7, <2>1 DEF Working, Busy, InIoctl
    <2>3. PICK D : D = Deleted(m, j.fch)
        OBVIOUS
    <2>4. D = Deleted(m, j.fch)'
        BY <1>4, <2>3 DEF Deleted
    <2>5. IoctlOK(j, regs[m][h], ingr[m], egr[m], D)
        BY <1>3, <2>1, <2>2, <2>3 DEF IoctlsInv
    <2>6. j.fch \in Fchs /\ Head(j.plan) \in Ioctls
        BY <1>3, <2>1, <2>2, JobRecord
    <2>7. CASE m = l /\ h = k
        <3>1. /\ h = "ingr" => /\ r.req = "update" => ingr'[m][r.session] = r.channel
                               /\ r.req = "delete" => ingr'[m][r.session] = None
              /\ h = "egr" => /\ r.req = "update" => egr'[m][r.channel] = r.session
                              /\ r.req = "delete" => egr'[m][r.channel] = None
            BY <1>2, <2>7 DEF ServedIngress, ServedEgress
        <3>2. IoctlOK(j, r, ingr[m], egr[m], D)
            BY <1>4, <2>5, <2>7
        <3>3. PICK i : i = Head(j.plan)
            OBVIOUS
        <3>4. PICK in2, eg2 : in2 = ingr'[m] /\ eg2 = egr'[m]
            OBVIOUS
        <3>5. IoctlOK(j, u, in2, eg2, D)
            BY <1>4, <1>5, <2>2, <2>6, <2>7, <3>1, <3>2, <3>3, <3>4, ServedIoctl
        <3>6. regs'[m][h] = u
            BY <1>4, <2>7 DEF Sets
        <3> QED
            BY <1>4, <2>1, <2>4, <3>4, <3>5, <3>6
    <2>8. CASE m # l \/ h # k
        <3>1. regs'[m][h] = regs[m][h]
            BY <1>4, <2>8 DEF Sets
        <3>2. h = "ingr" => \A s \in Sessions : ingr'[m][s] = ingr[m][s]
            BY <1>2, <1>6, <2>8 DEF ServedIngress
        <3>3. h = "egr" => egr'[m][j.fch] = egr[m][j.fch]
            BY <1>2, <1>6, <2>6, <2>8 DEF ServedEgress
        <3>4. PICK in2, eg2 : in2 = ingr'[m] /\ eg2 = egr'[m]
            OBVIOUS
        <3>5. IoctlOK(j, regs[m][h], in2, eg2, D)
            BY <2>2, <2>5, <3>2, <3>3, <3>4, TableFrame
        <3> QED
            BY <1>4, <2>1, <2>4, <3>1, <3>4, <3>5
    <2> QED
        BY <2>7, <2>8
<1>10. LateEgress'
    <2> SUFFICES ASSUME NEW m \in Lanes, Pending(regs'[m]["egr"])
                 PROVE  Polled(m, "egr")' \/ <<m, regs'[m]["egr"].channel, "egr">> \in lost'
        BY DEF LateEgress, Pending, Changes
    <2>1. m # l \/ k # "egr"
        BY <1>4 DEF Pending, Sets
    <2>2. regs'[m]["egr"] = regs[m]["egr"]
        BY <1>4, <2>1 DEF Sets, Sides
    <2>3. Polled(m, "egr") => Polled(m, "egr")'
        BY <1>4, <1>7 DEF Polled, Sides
    <2> QED
        BY <1>3, <1>4, <2>2, <2>3 DEF LateEgress
<1>11. EgressTrue'
    <2> SUFFICES ASSUME NEW m \in Lanes, NEW g \in Fchs, soft[m][g]["egr"] # None,
                        <<m, g, "egr">> \notin lost
                 PROVE  \/ egr'[m][g] = soft[m][g]["egr"]
                        \/ \E q \in Procs : Answered(q, m, "egr")' /\ job[q].fch = g
        BY <1>4 DEF EgressTrue
    <2>1. \/ egr[m][g] = soft[m][g]["egr"]
          \/ \E q \in Procs : Answered(q, m, "egr") /\ job[q].fch = g
        BY <1>3 DEF EgressTrue
    <2>2. CASE m # l \/ k # "egr"
        <3>1. regs'[m]["egr"] = regs[m]["egr"]
            BY <1>4, <2>2 DEF Sets, Sides
        <3>2. egr'[m][g] = egr[m][g]
            BY <1>2, <1>6, <2>2 DEF ServedEgress
        <3>3. \A q \in Procs : Answered(q, m, "egr") => Answered(q, m, "egr")'
            BY <1>4, <1>7, <3>1 DEF Answered, Sides
        <3> QED
            BY <2>1, <3>2, <3>3
    <2>3. CASE m = l /\ k = "egr"
        <3>1. egr[m][g] = soft[m][g]["egr"]
            BY <1>4, <2>1, <2>3 DEF Answered
        <3>2. CASE r.req = "read" \/ g # r.channel
            BY <1>2, <2>3, <3>1, <3>2 DEF ServedEgress
        <3>3. CASE r.req # "read" /\ g = r.channel
            <4>1. Pending(r)
                BY <1>4, <3>3 DEF Pending, Changes, Regs
            <4>2. PICK q \in Procs : Working(q, l, "egr") /\ job[q].st = "poll"
                BY <1>3, <1>4, <2>3, <3>3, <4>1 DEF LateEgress, Polled
            <4>3. PICK j, i, n, h, x : \E s \in Sessions \cup {None} : Polling(q, j, i, n, h, x, s)
                BY <4>2, PollFacts
            <4>4. /\ j = job[q] /\ i = Head(j.plan) /\ n = j.lane /\ h = i.side /\ x = regs[n][h]
                  /\ x.req = i.op /\ \E s : HasKey(i, j.fch, s, x)
                BY <4>3 DEF Polling
            <4>5. n = l /\ h = "egr" /\ x = r
                BY <1>4, <2>3, <4>2, <4>4 DEF Working
            <4>6. i.op \in Changes /\ job[q].fch = g
                BY <3>3, <4>1, <4>4, <4>5 DEF Pending, HasKey
            <4>7. Working(q, l, "egr")'
                BY <1>7, <2>3, <4>2
            <4>8. regs'[l]["egr"].resp
                BY <1>4, <2>3 DEF Sets
            <4>9. Answered(q, m, "egr")'
                BY <1>4, <2>3, <4>2, <4>4, <4>6, <4>7, <4>8 DEF Answered
            <4> QED
                BY <4>6, <4>9
        <3> QED
            BY <3>2, <3>3
    <2> QED
        BY <2>2, <2>3
<1> QED
    BY <1>1, <1>8, <1>9, <1>10, <1>11 DEF SerialInv

LEMMA SerialInit == ASSUME Init PROVE SerialInv
<1>1. TablesInv
    BY DEF Init, TablesInv
<1>2. \A l \in Lanes, k \in Sides :
          regs[l][k] = [req |-> "none", session |-> None, channel |-> None, resp |-> FALSE]
    BY DEF Init
<1>3. \A l \in Lanes, k \in Sides : regs[l][k].req = "none"
    BY <1>2
<1>4. RegsInv
    <2>1. regs \in [Lanes -> [Sides -> Regs]]
        BY DEF Init, Regs
    <2> QED
        BY <1>3, <2>1 DEF RegsInv, Sides
<1>5. \A p \in Procs : job[p] = Idle
    BY DEF Init
<1>6. JobsInv
    BY <1>5, IdleJob DEF JobsInv, Init
<1>7. \A p \in Procs : \A l, k : ~ Working(p, l, k)
    BY <1>5, IdleJob DEF Working, InIoctl
<1>8. Exclusive /\ IoctlsInv
    BY <1>7 DEF Exclusive, IoctlsInv
<1>9. LateEgress
    BY <1>3 DEF LateEgress, Pending, Changes, Sides
<1>10. EgressTrue
    BY DEF Init, EgressTrue, Sides
<1> QED
    BY <1>1, <1>4, <1>6, <1>8, <1>9, <1>10 DEF SerialInv

LEMMA SerialStutter ==
    ASSUME SerialInv, UNCHANGED vars
    PROVE  SerialInv'
<1>1. UNCHANGED <<env, soft, ingr, egr, regs, job, lost>>
    BY DEF vars
<1>2. JobsInv /\ TablesInv /\ RegsInv /\ Exclusive /\ IoctlsInv /\ LateEgress /\ EgressTrue
    BY DEF SerialInv
<1>3. \A q \in Procs, m \in Lanes, h \in Sides : Working(q, m, h)' <=> Working(q, m, h)
    BY <1>1 DEF Working
<1>4. TablesInv'
    BY <1>1, <1>2 DEF TablesInv
<1>5. RegsInv'
    BY <1>1, <1>2 DEF RegsInv, Regs
<1>6. JobsInv' /\ Exclusive'
    BY <1>1, <1>2, <1>3 DEF JobsInv, Exclusive
<1>7. IoctlsInv'
    BY <1>1, <1>2, <1>3 DEF IoctlsInv, Deleted
<1>8. LateEgress'
    BY <1>1, <1>2, <1>3 DEF LateEgress, Polled, Pending, Sides
<1>9. EgressTrue'
    BY <1>1, <1>2, <1>3 DEF EgressTrue, Answered, Sides
<1> QED
    BY <1>4, <1>5, <1>6, <1>7, <1>8, <1>9 DEF SerialInv

LEMMA SerialNext ==
    ASSUME SerialInv, env.serial, [Next]_vars
    PROVE  SerialInv'
<1>1. CASE UNCHANGED vars
    BY <1>1, SerialStutter
<1>2. CASE Next
    <2> USE <1>2
    <2>0. UNCHANGED env /\ Step
        BY DEF Next
    <2>1. ASSUME NEW p \in Procs, Begin(p), env.serial => Exclusive' PROVE SerialInv'
        BY <2>0, <2>1, SerialBegin
    <2>2. ASSUME NEW p \in Procs, Inside(p) PROVE SerialInv'
        <3>1. CASE WriteReg(p)
            BY <2>0, <3>1, SerialWriteReg
        <3>2. CASE PollHit(p)
            <4>1. CASE Head(job[p].plan).op = "read"
                BY <2>0, <3>2, <4>1, SerialPollRead
            <4>2. CASE Head(job[p].plan).op # "read"
                BY <2>0, <3>2, <4>2, SerialPollChange
            <4> QED
                BY <4>1, <4>2
        <3>3. CASE PollTimeout(p)
            BY <2>0, <3>3, SerialPollTimeout
        <3>4. CASE Fetch(p)
            BY <2>0, <3>4, SerialFetch
        <3>5. CASE Return(p)
            BY <2>0, <3>5, SerialReturn
        <3> QED
            BY <2>2, <3>1, <3>2, <3>3, <3>4, <3>5 DEF Inside
    <2>3. ASSUME NEW p \in Procs, NEW l \in Lanes, NEW f \in Fchs, NEW r \in Requests,
                 Call(p, l, f, r)
          PROVE  SerialInv'
        BY <2>0, <2>3, SerialCall
    <2>4. ASSUME NEW l \in Lanes, NEW k \in Sides, Serve(l, k) PROVE SerialInv'
        BY <2>0, <2>4, SerialServe
    <2>5. ASSUME ResetSoft, ~ env.careful PROVE SerialInv'
        BY <2>0, <2>5, SerialReset
    <2> QED
        BY <2>0, <2>1, <2>2, <2>3, <2>4, <2>5 DEF Step
<1> QED
    BY <1>1, <1>2

SerialSafe == env.serial => SerialInv

\* When a lane's side sees one ioctl at a time, the egress entry of the copy is
\* what the FPGA forwards, for every entry whose last update or delete was
\* answered in time (xpcie_fpga_update_chain_connect and the calls like it).
THEOREM EgressIsSound == Spec => [](env.serial => EgressSound)
<1>1. Init => SerialSafe
    BY SerialInit DEF SerialSafe
<1>2. SerialSafe /\ [Next]_vars => SerialSafe'
    <2> SUFFICES ASSUME SerialSafe, [Next]_vars, env'.serial PROVE SerialInv'
        BY DEF SerialSafe
    <2>1. env' = env
        BY DEF Next, vars
    <2> QED
        BY <2>1, SerialNext DEF SerialSafe
<1>3. SerialSafe => (env.serial => EgressSound)
    <2> SUFFICES ASSUME SerialInv PROVE EgressSound
        BY DEF SerialSafe
    <2>1. EgressTrue
        BY DEF SerialInv
    <2> QED
        BY <2>1 DEF EgressTrue, EgressSound, Settled, Answered
<1> QED
    BY <1>1, <1>2, <1>3, PTL DEF Spec

-----------------------------------------------------------------------------
(***************************************************************************)
(* Careful callers.                                                        *)
(***************************************************************************)
\* A call in progress goes on with its ioctls, takes back an ingress side, or
\* returns.
Narrows(n, j) ==
    \/ n.st = "idle"
    \/ /\ j.st # "idle" /\ n.st # "idle" /\ n.lane = j.lane /\ n.fch = j.fch
       /\ OnIngress(n) => \/ Head(n.plan) = Delete("ingr")
                          \/ OnIngress(j) /\ Head(n.plan) = Head(j.plan)

LEMMA NarrowsApart ==
    ASSUME JobsInv, ApartInv, NEW p \in Procs, NEW n, Moves(p, n), Narrows(n, job[p])
    PROVE  ApartInv'
<1>0. Delete("ingr").sess = None
    BY DEF Delete, Ioctl
<1>1. \A q \in Procs : q # p /\ n.st # "idle" /\ job[q].st # "idle" /\ n.lane = job[q].lane =>
          /\ n.fch # job[q].fch
          /\ OnIngress(n) /\ OnIngress(job[q]) /\ Head(n.plan).sess = Head(job[q].plan).sess
                => Head(n.plan).sess = None
    <2> SUFFICES ASSUME NEW q \in Procs, q # p, n.st # "idle", job[q].st # "idle",
                        n.lane = job[q].lane
                 PROVE  /\ n.fch # job[q].fch
                        /\ OnIngress(n) /\ OnIngress(job[q])
                           /\ Head(n.plan).sess = Head(job[q].plan).sess
                              => Head(n.plan).sess = None
        OBVIOUS
    <2>1. /\ job[p].st # "idle" /\ n.lane = job[p].lane /\ n.fch = job[p].fch
          /\ OnIngress(n) => \/ Head(n.plan) = Delete("ingr")
                             \/ OnIngress(job[p]) /\ Head(n.plan) = Head(job[p].plan)
        BY DEF Narrows
    <2>2. /\ job[p].fch # job[q].fch
          /\ OnIngress(job[p]) /\ OnIngress(job[q]) /\ Head(job[p].plan).sess = Head(job[q].plan).sess
                => Head(job[p].plan).sess = None
        BY <2>1 DEF ApartInv
    <2> QED
        BY <1>0, <2>1, <2>2
<1>2. job'[p] = n /\ \A q \in Procs : q # p => job'[q] = job[q]
    BY DEF Moves
<1>3. \A a, b \in Procs :
        a # b /\ job'[a].st # "idle" /\ job'[b].st # "idle" /\ job'[a].lane = job'[b].lane =>
            /\ job'[a].fch # job'[b].fch
            /\ OnIngress(job'[a]) /\ OnIngress(job'[b])
               /\ Head(job'[a].plan).sess = Head(job'[b].plan).sess
                  => Head(job'[a].plan).sess = None
    <2> SUFFICES ASSUME NEW a \in Procs, NEW b \in Procs, a # b, job'[a].st # "idle",
                        job'[b].st # "idle", job'[a].lane = job'[b].lane
                 PROVE  /\ job'[a].fch # job'[b].fch
                        /\ OnIngress(job'[a]) /\ OnIngress(job'[b])
                           /\ Head(job'[a].plan).sess = Head(job'[b].plan).sess
                              => Head(job'[a].plan).sess = None
        OBVIOUS
    <2>1. CASE a = p
        BY <1>1, <1>2, <2>1
    <2>2. CASE b = p
        BY <1>1, <1>2, <2>2
    <2>3. CASE a # p /\ b # p
        BY <1>2, <2>3 DEF ApartInv
    <2> QED
        BY <2>1, <2>2, <2>3
<1> QED
    BY <1>3 DEF ApartInv, OnIngress

LEMMA NarrowsFree ==
    ASSUME FreeInv, NEW p \in Procs, NEW n, Moves(p, n), Narrows(n, job[p]), soft' = soft
    PROVE  FreeInv'
<1>1. Delete("ingr").op # "update"
    BY DEF Delete, Ioctl
<1>2. job'[p] = n /\ \A q \in Procs : q # p => job'[q] = job[q]
    BY DEF Moves
<1>3. ASSUME NEW q \in Procs, OnIngress(job'[q]), Head(job'[q].plan).op = "update"
      PROVE  /\ soft'[job'[q].lane][job'[q].fch]["ingr"] = None
             /\ \A g \in Fchs : soft'[job'[q].lane][g]["ingr"] # Head(job'[q].plan).sess
    <2>1. CASE q # p
        BY <1>2, <1>3, <2>1 DEF FreeInv
    <2>2. CASE q = p
        <3>1. n.st # "idle"
            BY <1>2, <1>3, <2>2 DEF OnIngress, Busy, InIoctl
        <3>2. /\ n.lane = job[p].lane /\ n.fch = job[p].fch
              /\ OnIngress(job[p]) /\ Head(n.plan) = Head(job[p].plan)
            BY <1>1, <1>2, <1>3, <2>2, <3>1 DEF Narrows
        <3> QED
            BY <1>2, <1>3, <2>2, <3>2 DEF FreeInv
    <2> QED
        BY <2>1, <2>2
<1> QED
    BY <1>3 DEF FreeInv, OnIngress

\* A step of a thread outside the poll that touches neither tables nor registers.
LEMMA CarefulStill ==
    ASSUME DistinctInv, LateIngress, IngressTrue, NEW p \in Procs, NEW n, Moves(p, n),
           job[p].st # "poll", UNCHANGED <<env, soft, ingr, egr, regs, lost>>
    PROVE  DistinctInv' /\ LateIngress' /\ IngressTrue'
<1>1. \A q \in Procs, l \in Lanes :
          Working(q, l, "ingr") /\ job[q].st = "poll" => Working(q, l, "ingr")' /\ job'[q] = job[q]
    BY DEF Moves, Working
<1>2. DistinctInv'
    BY DEF DistinctInv
<1>3. LateIngress'
    <2>1. \A l \in Lanes : Polled(l, "ingr") => Polled(l, "ingr")'
        BY <1>1 DEF Polled
    <2> QED
        BY <2>1 DEF LateIngress, Pending
<1>4. IngressTrue'
    <2>1. \A q \in Procs, l \in Lanes :
              Answered(q, l, "ingr") => Answered(q, l, "ingr")' /\ job'[q] = job[q]
        BY <1>1 DEF Answered
    <2> QED
        BY <2>1 DEF IngressTrue
<1> QED
    BY <1>2, <1>3, <1>4

\* Begin, Fetch and Return are such steps.
LEMMA JobStepFacts ==
    ASSUME SerialInv, NEW p \in Procs, Begin(p) \/ Fetch(p) \/ Return(p), UNCHANGED env
    PROVE  /\ job[p].st # "poll" /\ UNCHANGED <<env, soft, ingr, egr, regs, lost>>
           /\ \E n : Moves(p, n) /\ Narrows(n, job[p])
<1>1. PICK j : j = job[p]
    OBVIOUS
<1>2. JobsInv /\ JobOK(j)
    BY <1>1 DEF SerialInv, JobsInv
<1>3. CASE Begin(p)
    <2>1. j.st = "next" /\ j.st \in Busy /\ UNCHANGED <<env, soft, ingr, egr, regs, lost>>
        BY <1>1, <1>3 DEF Begin, Busy
    <2>2. CASE Refused(j.lane, j.fch, Head(j.plan))
        <3>1. job' = [job EXCEPT ![p] = Abort(j)]
            BY <1>1, <1>3, <2>2 DEF Begin
        <3>2. PICK n : n = Abort(j)
            OBVIOUS
        <3>3. /\ JobOK(n) /\ n.st \in {"next", "done"} /\ n.lane = j.lane /\ n.fch = j.fch
              /\ n.st = "next" => Head(n.plan) = Delete("ingr")
            BY <1>2, <2>1, <3>2, AbortJob
        <3>4. Moves(p, n)
            BY <1>2, <3>1, <3>2, <3>3, MovesStep
        <3>5. Narrows(n, j)
            BY <2>1, <3>3 DEF Narrows, OnIngress, Busy, InIoctl
        <3> QED
            BY <1>1, <2>1, <3>4, <3>5
    <2>3. CASE ~ Refused(j.lane, j.fch, Head(j.plan))
        <3>1. PICK w : w = Writes(j.lane, j.fch, Head(j.plan))
            OBVIOUS
        <3>2. PICK n : n = [j EXCEPT !.st = "write", !.todo = w]
            OBVIOUS
        <3>3. job' = [job EXCEPT ![p] = n]
            BY <1>1, <1>3, <2>3, <3>1, <3>2 DEF Begin
        <3>4. n = [st |-> "write", call |-> j.call, lane |-> j.lane, fch |-> j.fch, sess |-> j.sess,
                   plan |-> j.plan, todo |-> w, got |-> j.got, ok |-> j.ok]
            BY <1>2, <3>2 DEF JobOK
        <3>5. n.st = "write" /\ n.lane = j.lane /\ n.fch = j.fch /\ n.plan = j.plan
            BY <3>4
        <3>6. JobOK(n)
            BY <1>2, <2>1, <3>4, <3>5 DEF JobOK, Busy, InIoctl
        <3>7. Moves(p, n)
            BY <1>2, <3>3, <3>6, MovesStep
        <3>8. Narrows(n, j)
            BY <2>1, <3>5 DEF Narrows, OnIngress
        <3> QED
            BY <1>1, <2>1, <3>7, <3>8
    <2> QED
        BY <2>2, <2>3
<1>4. CASE Fetch(p)
    <2>1. j.st = "fetch" /\ j.st \in Busy /\ UNCHANGED <<env, soft, ingr, egr, regs, lost>>
        BY <1>1, <1>4 DEF Fetch, Busy, InIoctl
    <2>2. PICK n, v : n = Fetched(j, v) /\ job' = [job EXCEPT ![p] = n]
        BY <1>1, <1>4 DEF Fetch, Fetched
    <2>3. /\ JobOK(n) /\ n.st \in {"next", "done"} /\ n.lane = j.lane /\ n.fch = j.fch
          /\ n.st = "next" => Head(n.plan).side = "egr"
        BY <1>2, <2>1, <2>2, FetchJob
    <2>4. Moves(p, n)
        BY <1>2, <2>2, <2>3, MovesStep
    <2>5. Narrows(n, j)
        BY <2>1, <2>3 DEF Narrows, OnIngress, Busy, InIoctl
    <2> QED
        BY <1>1, <2>1, <2>4, <2>5
<1>5. CASE Return(p)
    <2>1. job[p].st # "poll" /\ UNCHANGED <<env, soft, ingr, egr, regs, lost>>
        BY <1>5 DEF Return
    <2>2. Moves(p, Idle)
        BY <1>2, <1>5, IdleJob, MovesStep DEF Return
    <2> QED
        BY <2>1, <2>2, IdleJob DEF Narrows
<1> QED
    BY <1>3, <1>4, <1>5

LEMMA CarefulJobStep ==
    ASSUME SerialInv, CarefulInv, NEW p \in Procs, Begin(p) \/ Fetch(p) \/ Return(p), UNCHANGED env
    PROVE  CarefulInv'
<1>1. job[p].st # "poll" /\ UNCHANGED <<env, soft, ingr, egr, regs, lost>>
    BY JobStepFacts
<1>2. PICK n : Moves(p, n) /\ Narrows(n, job[p])
    BY JobStepFacts
<1>3. JobsInv /\ DistinctInv /\ ApartInv /\ FreeInv /\ LateIngress /\ IngressTrue
    BY DEF SerialInv, CarefulInv
<1>4. DistinctInv' /\ LateIngress' /\ IngressTrue'
    BY <1>1, <1>2, <1>3, CarefulStill
<1>5. ApartInv'
    BY <1>2, <1>3, NarrowsApart
<1>6. FreeInv'
    BY <1>1, <1>2, <1>3, NarrowsFree
<1> QED
    BY <1>4, <1>5, <1>6 DEF CarefulInv

LEMMA PlanHead ==
    ASSUME NEW plan, PlanOK(plan), Head(plan).side = "ingr"
    PROVE  Head(plan).sess \in IngressSessions(plan)
<1>1. PICK i \in Ioctls : \/ plan = <<i>>
                          \/ \E k \in Ioctls : i.side = "ingr" /\ k.side = "egr" /\ plan = <<i, k>>
    BY DEF PlanOK
<1>2. plan[1] = i /\ Head(plan) = i /\ 1 \in DOMAIN plan
    <2>1. CASE plan = <<i>>
        BY <2>1
    <2>2. CASE \E k \in Ioctls : plan = <<i, k>>
        BY <2>2
    <2> QED
        BY <1>1, <2>1, <2>2
<1> QED
    BY <1>2 DEF IngressSessions

\* Only two calls update an ingress side.
LEMMA RequestUpdates ==
    ASSUME NEW r \in Connects \cup Disconnects \cup Reads,
           Head(r.plan).side = "ingr", Head(r.plan).op = "update"
    PROVE  r.call \in {"connect", "connect_ingress"}
<1> USE DEF Update, Delete, Read, Ioctl
<1>1. CASE r \in Connects
    <2>1. CASE r \in {[call |-> "connect_ingress", plan |-> <<Update("ingr", s)>>] : s \in Sessions}
        BY <2>1
    <2>2. CASE r \in {[call |-> "connect_egress", plan |-> <<Update("egr", s)>>] : s \in Sessions}
        BY <2>2
    <2>3. CASE r \in {[call |-> "connect", plan |-> <<Update("ingr", s), Update("egr", t)>>] :
              s \in Sessions, t \in Sessions \cup {None}}
        BY <2>3
    <2> QED
        BY <1>1, <2>1, <2>2, <2>3 DEF Connects
<1>2. CASE r \in Disconnects
    BY <1>2 DEF Disconnects
<1>3. CASE r \in Reads
    BY <1>3 DEF Reads
<1> QED
    BY <1>1, <1>2, <1>3

\* Thread p has made call r on function channel f of lane l: its job is n.
Called(p, l, f, r, n) ==
    /\ Moves(p, n) /\ n.st = "next" /\ n.lane = l /\ n.fch = f /\ n.plan = r.plan
    /\ n.call = r.call /\ n.sess = Head(r.plan).sess /\ n.ok = TRUE
    /\ PlanOK(r.plan) /\ job[p].st = "idle"
    /\ UNCHANGED <<env, soft, ingr, egr, regs, lost>>

LEMMA CallFacts ==
    ASSUME SerialInv, NEW p \in Procs, NEW l \in Lanes, NEW f \in Fchs, NEW r \in Requests,
           Call(p, l, f, r), UNCHANGED env
    PROVE  \E n : Called(p, l, f, r, n)
<1>1. PICK n : n = [Idle EXCEPT !.st = "next", !.call = r.call, !.lane = l, !.fch = f,
                                !.sess = Head(r.plan).sess, !.plan = r.plan]
    OBVIOUS
<1>2. n = [st |-> "next", call |-> r.call, lane |-> l, fch |-> f, sess |-> Head(r.plan).sess,
           plan |-> r.plan, todo |-> <<>>, got |-> None, ok |-> TRUE]
    BY <1>1 DEF Idle
<1>3. PlanOK(r.plan)
    BY RequestPlans DEF Requests
<1>4. JobOK(n)
    BY <1>2, <1>3 DEF JobOK, Busy, InIoctl
<1>5. job' = [job EXCEPT ![p] = n]
    BY <1>1, Zenon DEF Call
<1>6. Moves(p, n)
    BY <1>4, <1>5, MovesStep DEF SerialInv
<1>7. /\ n.st = "next" /\ n.lane = l /\ n.fch = f /\ n.plan = r.plan
      /\ n.call = r.call /\ n.sess = Head(r.plan).sess /\ n.ok = TRUE
    BY <1>2
<1>8. job[p].st = "idle" /\ UNCHANGED <<env, soft, ingr, egr, regs, lost>>
    BY DEF Call
<1> QED
    BY <1>3, <1>6, <1>7, <1>8 DEF Called

LEMMA CarefulCall ==
    ASSUME SerialInv, CarefulInv, NEW p \in Procs, NEW l \in Lanes, NEW f \in Fchs,
           NEW r \in Requests, Call(p, l, f, r), Careful(p, l, f, r), UNCHANGED env
    PROVE  CarefulInv'
<1>1. PICK n : /\ Moves(p, n) /\ n.st = "next" /\ n.lane = l /\ n.fch = f /\ n.plan = r.plan
               /\ PlanOK(r.plan) /\ job[p].st = "idle"
               /\ UNCHANGED <<env, soft, ingr, egr, regs, lost>>
    <2>1. PICK n : Called(p, l, f, r, n)
        BY CallFacts
    <2> QED
        BY <2>1 DEF Called
<1>2. JobsInv /\ DistinctInv /\ ApartInv /\ FreeInv /\ LateIngress /\ IngressTrue
    BY DEF SerialInv, CarefulInv
<1>3. DistinctInv' /\ LateIngress' /\ IngressTrue'
    BY <1>1, <1>2, CarefulStill
<1>4. job'[p] = n /\ \A q \in Procs : q # p => job'[q] = job[q]
    BY <1>1 DEF Moves
<1>5. \A q \in Procs : q # p /\ job[q].st # "idle" /\ job[q].lane = l =>
          /\ job[q].fch # f
          /\ OnIngress(n) /\ OnIngress(job[q]) /\ Head(n.plan).sess = Head(job[q].plan).sess
                => Head(n.plan).sess = None
    <2> SUFFICES ASSUME NEW q \in Procs, q # p, job[q].st # "idle", job[q].lane = l
                 PROVE  /\ job[q].fch # f
                        /\ OnIngress(n) /\ OnIngress(job[q])
                           /\ Head(n.plan).sess = Head(job[q].plan).sess
                              => Head(n.plan).sess = None
        OBVIOUS
    <2>1. /\ job[q].fch # f
          /\ IngressSessions(job[q].plan) \cap IngressSessions(r.plan) \subseteq {None}
        BY DEF Careful
    <2>2. OnIngress(n) => Head(n.plan).sess \in IngressSessions(r.plan)
        BY <1>1, PlanHead DEF OnIngress
    <2>3. OnIngress(job[q]) => Head(job[q].plan).sess \in IngressSessions(job[q].plan)
        BY <1>2, PlanHead DEF OnIngress, JobsInv, JobOK
    <2> QED
        BY <2>1, <2>2, <2>3
<1>6. ApartInv'
    <2>1. \A a, b \in Procs :
        a # b /\ job'[a].st # "idle" /\ job'[b].st # "idle" /\ job'[a].lane = job'[b].lane =>
            /\ job'[a].fch # job'[b].fch
            /\ OnIngress(job'[a]) /\ OnIngress(job'[b])
               /\ Head(job'[a].plan).sess = Head(job'[b].plan).sess
                  => Head(job'[a].plan).sess = None
        <3> SUFFICES ASSUME NEW a \in Procs, NEW b \in Procs, a # b, job'[a].st # "idle",
                        job'[b].st # "idle", job'[a].lane = job'[b].lane
                     PROVE  /\ job'[a].fch # job'[b].fch
                            /\ OnIngress(job'[a]) /\ OnIngress(job'[b])
                               /\ Head(job'[a].plan).sess = Head(job'[b].plan).sess
                                  => Head(job'[a].plan).sess = None
            OBVIOUS
        <3>1. CASE a = p
            BY <1>1, <1>4, <1>5, <3>1
        <3>2. CASE b = p
            BY <1>1, <1>4, <1>5, <3>2
        <3>3. CASE a # p /\ b # p
            BY <1>2, <1>4, <3>3 DEF ApartInv
        <3> QED
            BY <3>1, <3>2, <3>3
    <2> QED
        BY <2>1 DEF ApartInv, OnIngress
<1>7. FreeInv'
    <2>1. ASSUME NEW q \in Procs, OnIngress(job'[q]), Head(job'[q].plan).op = "update"
          PROVE  /\ soft'[job'[q].lane][job'[q].fch]["ingr"] = None
                 /\ \A g \in Fchs : soft'[job'[q].lane][g]["ingr"] # Head(job'[q].plan).sess
        <3>1. CASE q # p
            BY <1>1, <1>2, <1>4, <2>1, <3>1 DEF FreeInv
        <3>2. CASE q = p
            <4>1. Head(r.plan).side = "ingr" /\ Head(r.plan).op = "update"
                BY <1>1, <1>4, <2>1, <3>2 DEF OnIngress
            <4>2. r.call \in {"connect", "connect_ingress"}
                BY <4>1, RequestUpdates DEF Requests
            <4>3. /\ soft[l][f]["ingr"] = None
                  /\ \A g \in Fchs : soft[l][g]["ingr"] \notin IngressSessions(r.plan)
                BY <4>2 DEF Careful
            <4>4. Head(r.plan).sess \in IngressSessions(r.plan)
                BY <1>1, <4>1, PlanHead
            <4> QED
                BY <1>1, <1>4, <3>2, <4>3, <4>4
        <3> QED
            BY <3>1, <3>2
    <2> QED
        BY <2>1 DEF FreeInv, OnIngress
<1> QED
    BY <1>3, <1>6, <1>7 DEF CarefulInv

LEMMA CarefulWriteReg ==
    ASSUME SerialInv, CarefulInv, NEW p \in Procs, WriteReg(p), UNCHANGED env
    PROVE  CarefulInv'
<1>1. PICK j, i, l, k, n, u : Wrote(p, j, i, l, k, n, u)
    BY WroteFacts
<1>2. /\ j = job[p] /\ i = Head(j.plan) /\ l = j.lane /\ k = i.side
      /\ l \in Lanes /\ k \in Sides /\ j.st = "write" /\ Working(p, l, k)
      /\ n.st \in {"write", "poll"} /\ n.lane = j.lane /\ n.fch = j.fch /\ n.plan = j.plan
      /\ ~ u.resp /\ (n.st = "poll" \/ Quiet(u)) /\ Moves(p, n) /\ Sets(l, k, u)
      /\ UNCHANGED <<soft, ingr, egr, lost, env>>
    BY <1>1 DEF Wrote
<1>3. \A q \in Procs, m \in Lanes, h \in Sides : Working(q, m, h)' <=> Working(q, m, h)
    BY <1>1 DEF Wrote
<1>4. JobsInv /\ DistinctInv /\ ApartInv /\ FreeInv /\ LateIngress /\ IngressTrue /\ Exclusive
    BY DEF SerialInv, CarefulInv
<1>5. Narrows(n, job[p])
    BY <1>2 DEF Narrows, OnIngress, Busy, InIoctl
<1>6. ApartInv' /\ FreeInv'
    BY <1>2, <1>4, <1>5, NarrowsApart, NarrowsFree
<1>7. DistinctInv'
    BY <1>2, <1>4 DEF DistinctInv
<1>8. LateIngress'
    <2> SUFFICES ASSUME NEW m \in Lanes, Pending(regs'[m]["ingr"])
                 PROVE  \/ Polled(m, "ingr")'
                        \/ \A f \in Fchs : soft'[m][f]["ingr"] = regs'[m]["ingr"].session
                                              => <<m, f, "ingr">> \in lost'
        BY DEF LateIngress, Pending, Changes
    <2>1. CASE m = l /\ k = "ingr"
        <3>1. regs'[m]["ingr"] = u
            BY <1>2, <2>1 DEF Sets
        <3>2. n.st = "poll"
            BY <1>2, <3>1 DEF Pending, Quiet, Changes
        <3>3. Working(p, m, "ingr")'
            BY <1>2, <1>3, <2>1
        <3> QED
            BY <1>2, <3>2, <3>3 DEF Polled, Moves
    <2>2. CASE ~ (m = l /\ k = "ingr")
        <3>1. regs'[m]["ingr"] = regs[m]["ingr"]
            BY <1>2, <2>2 DEF Sets, Sides
        <3>2. \/ Polled(m, "ingr")
              \/ \A f \in Fchs : soft[m][f]["ingr"] = regs[m]["ingr"].session
                                    => <<m, f, "ingr">> \in lost
            BY <1>4, <3>1 DEF LateIngress
        <3>3. ASSUME Polled(m, "ingr") PROVE Polled(m, "ingr")'
            <4>1. PICK q \in Procs : Working(q, m, "ingr") /\ job[q].st = "poll"
                BY <3>3 DEF Polled
            <4>2. q # p
                BY <1>2, <4>1
            <4> QED
                BY <1>2, <1>3, <4>1, <4>2 DEF Polled, Moves, Sides
        <3> QED
            BY <1>2, <3>1, <3>2, <3>3
    <2> QED
        BY <2>1, <2>2
<1>9. IngressTrue'
    <2>1. \A q \in Procs, m \in Lanes : Answered(q, m, "ingr") =>
              Answered(q, m, "ingr")' /\ job'[q] = job[q]
        <3> SUFFICES ASSUME NEW q \in Procs, NEW m \in Lanes, Answered(q, m, "ingr")
                     PROVE  Answered(q, m, "ingr")' /\ job'[q] = job[q]
            OBVIOUS
        <3>1. Working(q, m, "ingr") /\ job[q].st = "poll" /\ q # p
            BY <1>2 DEF Answered
        <3>2. m # l \/ "ingr" # k
            BY <1>2, <1>4, <3>1, OneWorks
        <3>3. regs'[m]["ingr"] = regs[m]["ingr"] /\ job'[q] = job[q]
            BY <1>2, <3>1, <3>2 DEF Moves, Sets, Sides
        <3> QED
            BY <1>3, <3>1, <3>3 DEF Answered, Sides
    <2> QED
        BY <1>2, <1>4, <2>1 DEF IngressTrue
<1> QED
    BY <1>6, <1>7, <1>8, <1>9 DEF CarefulInv

LEMMA CarefulPollRead ==
    ASSUME SerialInv, CarefulInv, NEW p \in Procs, PollHit(p), Head(job[p].plan).op = "read",
           UNCHANGED env
    PROVE  CarefulInv'
<1>1. PICK j, i, l, k, r, n : \E s \in Sessions \cup {None} :
          Polling(p, j, i, l, k, r, s) /\ Answers(p, j, i, l, k, r, n)
    BY ReadFacts
<1>2. /\ j = job[p] /\ i = Head(j.plan) /\ l = j.lane /\ k = i.side /\ r = regs[l][k]
    BY <1>1 DEF Polling
<1>3. /\ j.st = "poll" /\ r.resp /\ i.op = "read"
      /\ UNCHANGED <<soft, ingr, egr, regs, lost, env>> /\ Moves(p, n)
      /\ n.st = "fetch" /\ n.lane = j.lane /\ n.fch = j.fch /\ n.plan = j.plan
    BY <1>1 DEF Answers
<1>4. \A q \in Procs, m \in Lanes, h \in Sides : Working(q, m, h)' <=> Working(q, m, h)
    BY <1>1 DEF Answers
<1>5. JobsInv /\ DistinctInv /\ ApartInv /\ FreeInv /\ LateIngress /\ IngressTrue
    BY DEF SerialInv, CarefulInv
<1>6. Narrows(n, job[p])
    BY <1>2, <1>3 DEF Narrows, OnIngress, Busy, InIoctl
<1>7. ApartInv' /\ FreeInv'
    BY <1>3, <1>5, <1>6, NarrowsApart, NarrowsFree
<1>8. DistinctInv'
    BY <1>3, <1>5 DEF DistinctInv
<1>9. LateIngress'
    <2>1. \A m \in Lanes : Pending(regs[m]["ingr"]) /\ Polled(m, "ingr") => Polled(m, "ingr")'
        <3> SUFFICES ASSUME NEW m \in Lanes, Pending(regs[m]["ingr"]), Polled(m, "ingr")
                     PROVE  Polled(m, "ingr")'
            OBVIOUS
        <3>1. PICK q \in Procs : Working(q, m, "ingr") /\ job[q].st = "poll"
            BY DEF Polled
        <3>2. q # p
            BY <1>2, <1>3, <3>1 DEF Working, Pending
        <3> QED
            BY <1>3, <1>4, <3>1, <3>2 DEF Polled, Moves, Sides
    <2> QED
        BY <1>3, <1>5, <2>1 DEF LateIngress, Pending
<1>10. IngressTrue'
    <2>1. \A q \in Procs, m \in Lanes : Answered(q, m, "ingr") =>
              Answered(q, m, "ingr")' /\ job'[q] = job[q]
        BY <1>2, <1>3, <1>4 DEF Answered, Moves, Sides, Changes
    <2> QED
        BY <1>3, <1>5, <2>1 DEF IngressTrue
<1> QED
    BY <1>7, <1>8, <1>9, <1>10 DEF CarefulInv

LEMMA CarefulPollChange ==
    ASSUME SerialInv, CarefulInv, NEW p \in Procs, PollHit(p), Head(job[p].plan).op # "read",
           UNCHANGED env
    PROVE  CarefulInv'
<1>1. PICK j, i, l, k, r, n : \E s \in Sessions \cup {None} :
          Polling(p, j, i, l, k, r, s) /\ Applied(p, j, i, l, k, r, n)
    BY AppliedFacts
<1>2. PICK s \in Sessions \cup {None} : Polling(p, j, i, l, k, r, s)
    BY <1>1
<1>3. /\ j = job[p] /\ i = Head(j.plan) /\ l = j.lane /\ k = i.side /\ r = regs[l][k]
      /\ l \in Lanes /\ j.fch \in Fchs /\ i \in Ioctls /\ k \in Sides /\ Working(p, l, k)
      /\ j.st \in Busy
    BY <1>2 DEF Polling
<1>4. /\ j.st = "poll" /\ r.resp /\ i.op \in Changes
      /\ Copies(l, j.fch, k, i.sess) /\ lost' = lost \ {<<l, j.fch, k>>}
      /\ UNCHANGED <<ingr, egr, regs, env>> /\ Moves(p, n)
      /\ n.st \in {"next", "done"} /\ n.lane = j.lane /\ n.fch = j.fch
    BY <1>1 DEF Applied
<1>5. n.st = "next" => Head(n.plan).side = "egr"
    BY <1>1 DEF Applied
<1>6. \A q \in Procs, m \in Lanes, h \in Sides : Working(q, m, h)' <=> q # p /\ Working(q, m, h)
    BY <1>1 DEF Applied
<1>7. JobsInv /\ DistinctInv /\ ApartInv /\ FreeInv /\ LateIngress /\ IngressTrue
    BY DEF SerialInv, CarefulInv
<1>8. ~ OnIngress(n) /\ Narrows(n, job[p])
    BY <1>3, <1>4, <1>5 DEF Narrows, OnIngress, Busy, InIoctl
<1>9. ApartInv'
    BY <1>4, <1>7, <1>8, NarrowsApart
<1>10. /\ i.sess \in Sessions \cup {None} /\ None \notin Sessions
       /\ i.op = "delete" => i.sess = None
       /\ i.op = "update" /\ k = "ingr" => i.sess \in Sessions
    BY <1>3, IoctlType, ChainAssumption
<1>11. k = "ingr" /\ i.op = "update" => \A g \in Fchs : soft[l][g]["ingr"] # i.sess
    BY <1>3, <1>7 DEF FreeInv, OnIngress
<1>12. \A m \in Lanes, g \in Fchs :
          soft'[m][g]["ingr"] = IF m = l /\ g = j.fch /\ k = "ingr" THEN i.sess
                                ELSE soft[m][g]["ingr"]
    BY <1>4 DEF Copies, Sides
<1>13. DistinctInv'
    <2> SUFFICES ASSUME NEW m \in Lanes, NEW f \in Fchs, NEW g \in Fchs, f # g,
                        soft'[m][f]["ingr"] # None
                 PROVE  soft'[m][f]["ingr"] # soft'[m][g]["ingr"]
        BY DEF DistinctInv
    <2>1. CASE ~ (m = l /\ k = "ingr")
        BY <1>7, <1>12, <2>1 DEF DistinctInv
    <2>2. CASE m = l /\ k = "ingr"
        <3>1. CASE f = j.fch
            BY <1>4, <1>10, <1>11, <1>12, <2>2, <3>1 DEF Changes
        <3>2. CASE g = j.fch
            BY <1>4, <1>10, <1>11, <1>12, <2>2, <3>2 DEF Changes
        <3>3. CASE f # j.fch /\ g # j.fch
            BY <1>7, <1>12, <3>3 DEF DistinctInv
        <3> QED
            BY <3>1, <3>2, <3>3
    <2> QED
        BY <2>1, <2>2
<1>14. FreeInv'
    <2>1. ASSUME NEW q \in Procs, OnIngress(job'[q]), Head(job'[q].plan).op = "update"
          PROVE  /\ soft'[job'[q].lane][job'[q].fch]["ingr"] = None
                 /\ \A g \in Fchs : soft'[job'[q].lane][g]["ingr"] # Head(job'[q].plan).sess
        <3>1. q # p /\ job'[q] = job[q]
            BY <1>4, <1>8, <2>1 DEF Moves
        <3>2. PICK a : a = job[q]
            OBVIOUS
        <3>3. OnIngress(a) /\ Head(a.plan).op = "update" /\ a.st # "idle" /\ a.st \in Busy
            BY <2>1, <3>1, <3>2 DEF OnIngress, Busy, InIoctl
        <3>4. a.lane \in Lanes /\ a.fch \in Fchs /\ Head(a.plan) \in Ioctls
            BY <1>7, <3>2, <3>3, JobRecord
        <3>5. Head(a.plan).sess \in Sessions
            BY <3>3, <3>4, IoctlType DEF OnIngress
        <3>6. /\ soft[a.lane][a.fch]["ingr"] = None
              /\ \A g \in Fchs : soft[a.lane][g]["ingr"] # Head(a.plan).sess
            BY <1>7, <3>2, <3>3 DEF FreeInv
        <3>7. a.lane = l => /\ a.fch # j.fch
                            /\ k = "ingr" => i.sess # Head(a.plan).sess
            <4>1. a.lane = l => /\ j.fch # a.fch
                                /\ OnIngress(j) /\ OnIngress(a) /\ Head(j.plan).sess = Head(a.plan).sess
                                      => Head(j.plan).sess = None
                BY <1>3, <1>4, <1>7, <3>1, <3>2, <3>3 DEF ApartInv
            <4>2. k = "ingr" => OnIngress(j)
                BY <1>3 DEF OnIngress
            <4> QED
                BY <1>3, <1>10, <3>3, <3>5, <4>1, <4>2
        <3>8. soft'[a.lane][a.fch]["ingr"] = None
            BY <1>12, <3>4, <3>6, <3>7
        <3>9. \A g \in Fchs : soft'[a.lane][g]["ingr"] # Head(a.plan).sess
            BY <1>12, <3>4, <3>6, <3>7
        <3> QED
            BY <3>1, <3>2, <3>8, <3>9
    <2> QED
        BY <2>1 DEF FreeInv, OnIngress
<1>15. LateIngress'
    <2> SUFFICES ASSUME NEW m \in Lanes, Pending(regs[m]["ingr"])
                 PROVE  \/ Polled(m, "ingr")'
                        \/ \A f \in Fchs : soft'[m][f]["ingr"] = regs[m]["ingr"].session
                                              => <<m, f, "ingr">> \in lost'
        BY <1>4 DEF LateIngress, Pending
    <2>1. m # l \/ k # "ingr"
        BY <1>3, <1>4 DEF Pending
    <2>2. CASE Polled(m, "ingr")
        <3>1. PICK q \in Procs : Working(q, m, "ingr") /\ job[q].st = "poll"
            BY <2>2 DEF Polled
        <3>2. q # p
            BY <1>3, <2>1, <3>1 DEF Working
        <3> QED
            BY <1>4, <1>6, <3>1, <3>2 DEF Polled, Moves, Sides
    <2>3. CASE \A f \in Fchs : soft[m][f]["ingr"] = regs[m]["ingr"].session
                                  => <<m, f, "ingr">> \in lost
        BY <1>4, <1>12, <2>1, <2>3
    <2> QED
        BY <1>7, <2>2, <2>3 DEF LateIngress
<1>16. IngressTrue'
    <2> SUFFICES ASSUME NEW m \in Lanes, NEW g \in Fchs, soft'[m][g]["ingr"] # None,
                        <<m, g, "ingr">> \notin lost'
                 PROVE  \/ ingr'[m][soft'[m][g]["ingr"]] = g
                        \/ \E q \in Procs : Answered(q, m, "ingr")' /\ job'[q].fch = g
        BY DEF IngressTrue
    <2>1. CASE m = l /\ g = j.fch /\ k = "ingr"
        <3>1. soft'[m][g]["ingr"] = i.sess
            BY <1>12, <2>1
        <3>2. i.op = "update"
            BY <1>3, <1>4, <3>1, IoctlType DEF Changes
        <3>3. s = i.sess /\ Effect(j, i, s, r, ingr[l], egr[l])
            BY <1>2, <3>2 DEF Polling
        <3>4. ingr[l][s] = j.fch
            BY <1>3, <1>4, <2>1, <3>2, <3>3 DEF Effect
        <3> QED
            BY <1>4, <2>1, <3>1, <3>3, <3>4
    <2>2. CASE ~ (m = l /\ g = j.fch /\ k = "ingr")
        <3>1. soft'[m][g]["ingr"] = soft[m][g]["ingr"]
            BY <1>12, <2>2
        <3>2. <<m, g, "ingr">> \notin lost
            BY <1>4, <2>2
        <3>3. CASE ingr[m][soft[m][g]["ingr"]] = g
            BY <1>4, <3>1, <3>3
        <3>4. CASE \E q \in Procs : Answered(q, m, "ingr") /\ job[q].fch = g
            <4>1. PICK q \in Procs : Answered(q, m, "ingr") /\ job[q].fch = g
                BY <3>4
            <4>2. q # p
                BY <1>3, <2>2, <4>1 DEF Answered, Working
            <4>3. Working(q, m, "ingr")' /\ job'[q] = job[q]
                BY <1>4, <1>6, <4>1, <4>2 DEF Answered, Moves, Sides
            <4>4. Answered(q, m, "ingr")'
                BY <1>4, <4>1, <4>3 DEF Answered
            <4> QED
                BY <4>1, <4>3, <4>4
        <3> QED
            BY <1>7, <3>1, <3>2, <3>3, <3>4 DEF IngressTrue
    <2> QED
        BY <2>1, <2>2
<1> QED
    BY <1>9, <1>13, <1>14, <1>15, <1>16 DEF CarefulInv

\* Whose entry a careful caller's request changes: nobody's or its own.
LEMMA OwnEntry ==
    ASSUME SerialInv, CarefulInv, env.careful, NEW p \in Procs, NEW j, NEW i, NEW l, NEW k, NEW r,
           NEW s, Polling(p, j, i, l, k, r, s), k = "ingr", i.op \in Changes,
           NEW f \in Fchs, soft[l][f]["ingr"] = r.session
    PROVE  f = j.fch /\ i.op = "delete"
<1>1. /\ j = job[p] /\ i = Head(j.plan) /\ l = j.lane /\ k = i.side /\ r = regs[l][k]
      /\ l \in Lanes /\ j.fch \in Fchs /\ i \in Ioctls /\ j.st \in Busy
      /\ HasKey(i, j.fch, s, r)
    BY DEF Polling
<1>2. /\ k = "ingr" => s \in Sessions
      /\ i.op = "delete" /\ k = "ingr" => s \in Deleted(l, j.fch)
      /\ i.op # "delete" => s = i.sess
    BY DEF Polling
<1>3. r.session = s /\ s \in Sessions /\ s # None
    BY <1>1, <1>2, ChainAssumption DEF HasKey
<1>4. CASE i.op = "update"
    BY <1>1, <1>2, <1>3, <1>4 DEF CarefulInv, FreeInv, OnIngress
<1>5. CASE i.op = "delete"
    <2>1. s = soft[l][j.fch]["ingr"]
        BY <1>2, <1>5 DEF Deleted
    <2> QED
        BY <1>1, <1>3, <1>5, <2>1, ZenonT(40) DEF CarefulInv, DistinctInv
<1> QED
    BY <1>4, <1>5 DEF Changes

LEMMA CarefulPollTimeout ==
    ASSUME SerialInv, CarefulInv, env.careful, NEW p \in Procs, PollTimeout(p), UNCHANGED env
    PROVE  CarefulInv'
<1>1. PICK j, i, l, k, r, n : \E s \in Sessions \cup {None} :
          Polling(p, j, i, l, k, r, s) /\ GaveUp(p, j, i, l, k, r, n)
    BY GaveUpFacts
<1>2. PICK s \in Sessions \cup {None} : Polling(p, j, i, l, k, r, s)
    BY <1>1
<1>3. /\ j = job[p] /\ i = Head(j.plan) /\ l = j.lane /\ k = i.side /\ r = regs[l][k]
      /\ l \in Lanes /\ j.fch \in Fchs /\ r.req = i.op
    BY <1>2 DEF Polling
<1>4. /\ j.st = "poll" /\ ~ r.resp
      /\ lost' = IF i.op = "read" THEN lost ELSE lost \cup {<<l, j.fch, k>>}
      /\ UNCHANGED <<soft, ingr, egr, regs, env>> /\ Moves(p, n)
      /\ n.st \in {"next", "done"} /\ n.lane = j.lane /\ n.fch = j.fch
    BY <1>1 DEF GaveUp
<1>5. n.st = "next" => Head(n.plan) = Delete("ingr")
    BY <1>1 DEF GaveUp
<1>6. \A q \in Procs, m \in Lanes, h \in Sides : Working(q, m, h)' <=> q # p /\ Working(q, m, h)
    BY <1>1 DEF GaveUp
<1>7. JobsInv /\ DistinctInv /\ ApartInv /\ FreeInv /\ LateIngress /\ IngressTrue
    BY DEF SerialInv, CarefulInv
<1>8. Narrows(n, job[p])
    BY <1>3, <1>4, <1>5 DEF Narrows, OnIngress, Busy, InIoctl
<1>9. ApartInv' /\ FreeInv'
    BY <1>4, <1>7, <1>8, NarrowsApart, NarrowsFree
<1>10. DistinctInv' /\ lost \subseteq lost'
    BY <1>4, <1>7 DEF DistinctInv
<1>11. LateIngress'
    <2> SUFFICES ASSUME NEW m \in Lanes, Pending(regs[m]["ingr"])
                 PROVE  \/ Polled(m, "ingr")'
                        \/ \A f \in Fchs : soft[m][f]["ingr"] = regs[m]["ingr"].session
                                              => <<m, f, "ingr">> \in lost'
        BY <1>4 DEF LateIngress, Pending
    <2>1. CASE \A f \in Fchs : soft[m][f]["ingr"] = regs[m]["ingr"].session
                                  => <<m, f, "ingr">> \in lost
        BY <1>10, <2>1
    <2>2. CASE Polled(m, "ingr")
        <3>1. PICK q \in Procs : Working(q, m, "ingr") /\ job[q].st = "poll"
            BY <2>2 DEF Polled
        <3>2. CASE q # p
            BY <1>4, <1>6, <3>1, <3>2 DEF Polled, Moves, Sides
        <3>3. CASE q = p
            <4>1. m = l /\ k = "ingr"
                BY <1>3, <3>1, <3>3 DEF Working
            <4>2. i.op \in Changes /\ i.op # "read"
                BY <1>3, <4>1 DEF Pending, Changes
            <4>3. \A f \in Fchs : soft[l][f]["ingr"] = r.session => f = j.fch
                BY <1>2, <4>1, <4>2, OwnEntry
            <4> QED
                BY <1>3, <1>4, <4>1, <4>2, <4>3
        <3> QED
            BY <3>2, <3>3
    <2> QED
        BY <1>7, <2>1, <2>2 DEF LateIngress
<1>12. IngressTrue'
    <2>1. \A q \in Procs, m \in Lanes :
              Answered(q, m, "ingr") => Answered(q, m, "ingr")' /\ job'[q] = job[q]
        <3> SUFFICES ASSUME NEW q \in Procs, NEW m \in Lanes, Answered(q, m, "ingr")
                     PROVE  Answered(q, m, "ingr")' /\ job'[q] = job[q]
            OBVIOUS
        <3>1. q # p
            BY <1>3, <1>4 DEF Answered, Working
        <3>2. Working(q, m, "ingr")' /\ job'[q] = job[q]
            BY <1>4, <1>6, <3>1 DEF Answered, Moves, Sides
        <3> QED
            BY <1>4, <3>2 DEF Answered
    <2> QED
        BY <1>4, <1>7, <1>10, <2>1 DEF IngressTrue
<1> QED
    BY <1>9, <1>10, <1>11, <1>12 DEF CarefulInv

LEMMA CarefulServe ==
    ASSUME SerialInv, CarefulInv, env.careful, NEW l \in Lanes, NEW k \in Sides, Serve(l, k),
           UNCHANGED env
    PROVE  CarefulInv'
<1>1. PICK r, u : /\ Served(l, k, r, u)
                  /\ k = "ingr" => ServedIngress(l, r) /\ egr' = egr
                  /\ k = "egr" => ServedEgress(l, r) /\ ingr' = ingr
    BY ServedFacts
<1>2. /\ r = regs[l][k] /\ r \in Regs /\ r.req # "none" /\ ~ r.resp
      /\ u.resp = TRUE /\ Sets(l, k, u)
      /\ UNCHANGED <<soft, job, lost, env>>
    BY <1>1 DEF Served
<1>3. k = "ingr" \/ k = "egr"
    BY DEF Sides
<1>4. \A q \in Procs, m \in Lanes, h \in Sides : Working(q, m, h)' <=> Working(q, m, h)
    BY <1>2 DEF Working
<1>5. TablesInv /\ JobsInv /\ DistinctInv /\ ApartInv /\ FreeInv /\ LateIngress /\ IngressTrue
    BY DEF SerialInv, CarefulInv
<1>6. DistinctInv' /\ FreeInv' /\ ApartInv'
    BY <1>2, <1>5 DEF DistinctInv, FreeInv, ApartInv, OnIngress
<1>7. LateIngress'
    <2> SUFFICES ASSUME NEW m \in Lanes, Pending(regs'[m]["ingr"])
                 PROVE  \/ Polled(m, "ingr")'
                        \/ \A f \in Fchs : soft[m][f]["ingr"] = regs'[m]["ingr"].session
                                              => <<m, f, "ingr">> \in lost
        BY <1>2 DEF LateIngress, Pending, Changes
    <2>1. m # l \/ k # "ingr"
        BY <1>2 DEF Pending, Sets
    <2>2. regs'[m]["ingr"] = regs[m]["ingr"]
        BY <1>2, <2>1 DEF Sets, Sides
    <2>3. Polled(m, "ingr") => Polled(m, "ingr")'
        BY <1>2, <1>4 DEF Polled, Sides
    <2> QED
        BY <1>5, <2>2, <2>3 DEF LateIngress
<1>8. IngressTrue'
    <2> SUFFICES ASSUME NEW m \in Lanes, NEW g \in Fchs, soft[m][g]["ingr"] # None,
                        <<m, g, "ingr">> \notin lost
                 PROVE  \/ ingr'[m][soft[m][g]["ingr"]] = g
                        \/ \E q \in Procs : Answered(q, m, "ingr")' /\ job[q].fch = g
        BY <1>2 DEF IngressTrue
    <2>0. PICK t : t = soft[m][g]["ingr"]
        OBVIOUS
    <2>1. \/ ingr[m][t] = g
          \/ \E q \in Procs : Answered(q, m, "ingr") /\ job[q].fch = g
        BY <1>5, <2>0 DEF IngressTrue
    <2>2. t \in Sessions
        BY <1>5, <2>0 DEF TablesInv, Sides
    <2>3. CASE m # l \/ k # "ingr"
        <3>1. regs'[m]["ingr"] = regs[m]["ingr"]
            BY <1>2, <2>3 DEF Sets, Sides
        <3>2. ingr'[m][t] = ingr[m][t]
            BY <1>1, <1>3, <2>2, <2>3 DEF ServedIngress
        <3>3. \A q \in Procs : Answered(q, m, "ingr") => Answered(q, m, "ingr")'
            BY <1>2, <1>4, <3>1 DEF Answered, Sides
        <3> QED
            BY <2>0, <2>1, <3>2, <3>3
    <2>4. CASE m = l /\ k = "ingr"
        <3>1. ingr[m][t] = g
            BY <1>2, <2>1, <2>4 DEF Answered
        <3>2. CASE r.req = "read" \/ t # r.session
            BY <1>1, <2>0, <2>2, <2>4, <3>1, <3>2 DEF ServedIngress
        <3>3. CASE r.req # "read" /\ t = r.session
            <4>1. Pending(r)
                BY <1>2, <3>3 DEF Pending, Changes, Regs
            <4>2. PICK q \in Procs : Working(q, l, "ingr") /\ job[q].st = "poll"
                BY <1>2, <1>5, <2>0, <2>4, <3>3, <4>1 DEF LateIngress, Polled
            <4>3. PICK j, i, n, h, x : \E s \in Sessions \cup {None} : Polling(q, j, i, n, h, x, s)
                BY <4>2, PollFacts
            <4>4. /\ j = job[q] /\ i = Head(j.plan) /\ n = j.lane /\ h = i.side /\ x = regs[n][h]
                  /\ x.req = i.op
                BY <4>3 DEF Polling
            <4>5. n = l /\ h = "ingr" /\ x = r
                BY <1>2, <2>4, <4>2, <4>4 DEF Working
            <4>6. i.op \in Changes
                BY <4>1, <4>4, <4>5 DEF Pending
            <4>7. g = j.fch
                BY <2>0, <2>4, <3>3, <4>3, <4>5, <4>6, OwnEntry
            <4>8. Working(q, l, "ingr")'
                BY <1>4, <2>4, <4>2
            <4>9. regs'[l]["ingr"].resp
                BY <1>2, <2>4 DEF Sets
            <4>10. Answered(q, m, "ingr")'
                BY <1>2, <2>4, <4>2, <4>4, <4>6, <4>8, <4>9 DEF Answered
            <4> QED
                BY <4>4, <4>7, <4>10
        <3> QED
            BY <3>2, <3>3
    <2> QED
        BY <2>3, <2>4
<1> QED
    BY <1>6, <1>7, <1>8 DEF CarefulInv

LEMMA CarefulInit == ASSUME Init PROVE CarefulInv
<1>1. \A p \in Procs : job[p].st = "idle"
    BY IdleJob DEF Init
<1>2. \A l \in Lanes, f \in Fchs : soft[l][f]["ingr"] = None
    BY DEF Init, Sides
<1>3. \A l \in Lanes, k \in Sides : regs[l][k].req = "none"
    <2>1. \A l \in Lanes, k \in Sides :
              regs[l][k] = [req |-> "none", session |-> None, channel |-> None, resp |-> FALSE]
        BY DEF Init
    <2> QED
        BY <2>1
<1>4. DistinctInv /\ IngressTrue
    BY <1>2 DEF DistinctInv, IngressTrue
<1>5. ApartInv /\ FreeInv
    BY <1>1 DEF ApartInv, FreeInv, OnIngress, Busy, InIoctl
<1>6. LateIngress
    BY <1>3 DEF LateIngress, Pending, Changes, Sides
<1> QED
    BY <1>4, <1>5, <1>6 DEF CarefulInv

LEMMA CarefulStutter ==
    ASSUME CarefulInv, UNCHANGED vars
    PROVE  CarefulInv'
<1>1. UNCHANGED <<env, soft, ingr, egr, regs, job, lost>>
    BY DEF vars
<1>2. DistinctInv /\ ApartInv /\ FreeInv /\ LateIngress /\ IngressTrue
    BY DEF CarefulInv
<1>3. \A q \in Procs, m \in Lanes : Working(q, m, "ingr")' <=> Working(q, m, "ingr")
    BY <1>1 DEF Working
<1>4. DistinctInv' /\ ApartInv' /\ FreeInv'
    BY <1>1, <1>2 DEF DistinctInv, ApartInv, FreeInv, OnIngress
<1>5. LateIngress'
    BY <1>1, <1>2, <1>3 DEF LateIngress, Polled, Pending
<1>6. IngressTrue'
    BY <1>1, <1>2, <1>3 DEF IngressTrue, Answered
<1> QED
    BY <1>4, <1>5, <1>6 DEF CarefulInv

LEMMA CarefulNext ==
    ASSUME SerialInv, CarefulInv, env.careful, [Next]_vars
    PROVE  CarefulInv'
<1>1. CASE UNCHANGED vars
    BY <1>1, CarefulStutter
<1>2. CASE Next
    <2>0. UNCHANGED env /\ Step
        BY <1>2 DEF Next
    <2>1. ASSUME NEW p \in Procs, Begin(p) PROVE CarefulInv'
        BY <2>0, <2>1, CarefulJobStep
    <2>2. ASSUME NEW p \in Procs, Inside(p) PROVE CarefulInv'
        <3>1. CASE WriteReg(p)
            BY <2>0, <3>1, CarefulWriteReg
        <3>2. CASE PollHit(p)
            <4>1. CASE Head(job[p].plan).op = "read"
                BY <2>0, <3>2, <4>1, CarefulPollRead
            <4>2. CASE Head(job[p].plan).op # "read"
                BY <2>0, <3>2, <4>2, CarefulPollChange
            <4> QED
                BY <4>1, <4>2
        <3>3. CASE PollTimeout(p)
            BY <2>0, <3>3, CarefulPollTimeout
        <3>4. CASE Fetch(p) \/ Return(p)
            BY <2>0, <3>4, CarefulJobStep
        <3> QED
            BY <2>2, <3>1, <3>2, <3>3, <3>4 DEF Inside
    <2>3. ASSUME NEW p \in Procs, NEW l \in Lanes, NEW f \in Fchs, NEW r \in Requests,
                 Call(p, l, f, r), Careful(p, l, f, r)
          PROVE  CarefulInv'
        BY <2>0, <2>3, CarefulCall
    <2>4. ASSUME NEW l \in Lanes, NEW k \in Sides, Serve(l, k) PROVE CarefulInv'
        BY <2>0, <2>4, CarefulServe
    <2> QED
        BY <2>0, <2>1, <2>2, <2>3, <2>4 DEF Step
<1> QED
    BY <1>1, <1>2

CarefulSafe == env.serial => SerialInv /\ (env.careful => CarefulInv)

\* With careful callers as well, the session in an ingress entry of the copy is
\* forwarded to its function channel and to no other, a request that timed out
\* and is served late included.
THEOREM IngressIsSound == Spec => [](env.serial /\ env.careful => IngressSound)
<1>1. Init => CarefulSafe
    BY SerialInit, CarefulInit DEF CarefulSafe
<1>2. CarefulSafe /\ [Next]_vars => CarefulSafe'
    <2> SUFFICES ASSUME CarefulSafe, [Next]_vars, env'.serial
                 PROVE  SerialInv' /\ (env'.careful => CarefulInv')
        BY DEF CarefulSafe
    <2>1. env' = env
        BY DEF Next, vars
    <2>2. SerialInv'
        BY <2>1, SerialNext DEF CarefulSafe
    <2>3. env'.careful => CarefulInv'
        BY <2>1, CarefulNext DEF CarefulSafe
    <2> QED
        BY <2>2, <2>3
<1>3. CarefulSafe => (env.serial /\ env.careful => IngressSound)
    <2> SUFFICES ASSUME CarefulInv PROVE IngressSound
        BY DEF CarefulSafe
    <2>1. IngressTrue
        BY DEF CarefulInv
    <2> QED
        BY <2>1 DEF IngressTrue, IngressSound, Settled, Answered
<1> QED
    BY <1>1, <1>2, <1>3, PTL DEF Spec

-----------------------------------------------------------------------------
(***************************************************************************)
(* fpga_chain_connect() of careful callers, timeouts included.             *)
(***************************************************************************)
\* A step of a thread outside the poll that touches neither tables nor registers.
LEMMA PairStill ==
    ASSUME EgressMirror, LateUpdate, NEW p \in Procs, NEW n, Moves(p, n), job[p].st # "poll",
           UNCHANGED <<soft, ingr, egr, regs, lost>>
    PROVE  EgressMirror' /\ LateUpdate'
<1>1. \A q \in Procs, l \in Lanes, k \in Sides :
          Working(q, l, k) /\ job[q].st = "poll" => Working(q, l, k)' /\ job'[q] = job[q]
    BY DEF Moves, Working
<1>2. "ingr" \in Sides /\ "egr" \in Sides
    BY DEF Sides
<1>3. EgressMirror'
    <2>1. \A q \in Procs, l \in Lanes :
              Answered(q, l, "egr") => Answered(q, l, "egr")' /\ job'[q] = job[q]
        BY <1>1, <1>2 DEF Answered
    <2> QED
        BY <2>1 DEF EgressMirror
<1>4. LateUpdate'
    <2>1. \A l \in Lanes : Polled(l, "ingr") => Polled(l, "ingr")'
        BY <1>1, <1>2 DEF Polled
    <2> QED
        BY <2>1 DEF LateUpdate
<1> QED
    BY <1>3, <1>4

\* What ConnectInv says of one job.
Connected(j) == ConnectOK(j, soft[j.lane][j.fch]["ingr"], ingr[j.lane][j.sess], lost)

LEMMA ConnectParts == ConnectInv <=> \A p \in Procs : Connected(job[p])
BY DEF ConnectInv, Connected

LEMMA ConnectStep ==
    ASSUME ConnectInv, NEW p \in Procs, NEW n, Moves(p, n), UNCHANGED <<soft, ingr, lost>>,
           Connected(n)
    PROVE  ConnectInv'
<1>1. job'[p] = n /\ \A q \in Procs : q # p => job'[q] = job[q]
    BY DEF Moves
<1>2. \A q \in Procs : LET j == job'[q] IN
          ConnectOK(j, soft'[j.lane][j.fch]["ingr"], ingr'[j.lane][j.sess], lost')
    BY <1>1, ConnectParts DEF Connected
<1> QED
    BY <1>2 DEF ConnectInv, ConnectOK, OnIngress

LEMMA ConnectBegin ==
    ASSUME SerialInv, ConnectInv, NEW p \in Procs, Begin(p), UNCHANGED env
    PROVE  ConnectInv'
<1>1. PICK j : j = job[p]
    OBVIOUS
<1>2. JobsInv /\ JobOK(j) /\ j.st = "next" /\ j.st \in Busy /\ UNCHANGED <<soft, ingr, lost>>
    BY <1>1 DEF SerialInv, JobsInv, Begin, Busy
<1>3. PICK i : i = Head(j.plan)
    OBVIOUS
<1>4. i \in Ioctls /\ PlanOK(j.plan)
    BY <1>2, <1>3, PlanShape DEF JobOK
<1>5. PICK v, in : v = soft[j.lane][j.fch]["ingr"] /\ in = ingr[j.lane][j.sess]
    OBVIOUS
<1>6. ConnectOK(j, v, in, lost)
    BY <1>1, <1>5, ConnectParts DEF Connected
<1>7. CASE Refused(j.lane, j.fch, i)
    <2>1. job' = [job EXCEPT ![p] = Abort(j)]
        BY <1>1, <1>3, <1>7 DEF Begin
    <2>2. PICK n : n = Abort(j)
        OBVIOUS
    <2>3. /\ JobOK(n) /\ n.st \in {"next", "done"} /\ n.lane = j.lane /\ n.fch = j.fch
          /\ n.call = j.call /\ n.sess = j.sess /\ n.ok = FALSE
        BY <1>2, <2>2, AbortJob
    <2>4. /\ n.st = "next" => n.plan = <<Delete("ingr")>> /\ i.side = "egr"
          /\ n.st = "done" /\ j.call = "connect" => i.side # "egr"
        BY <1>2, <1>3, <2>2, AbortJob
    <2>5. Moves(p, n)
        BY <1>2, <2>1, <2>2, <2>3, MovesStep
    <2>6. ASSUME n.st = "done", j.call = "connect" PROVE FALSE
        <3>1. i.side = "ingr"
            BY <1>4, <2>4, <2>6, IoctlType DEF Sides
        <3>2. j.sess \in Sessions /\ None \notin Sessions
            BY <1>6, <2>6, ChainAssumption DEF ConnectOK
        <3>3. CASE j.ok
            <4>1. i.op = "update" /\ i.sess = j.sess
                BY <1>2, <1>3, <1>6, <2>6, <3>1, <3>3 DEF ConnectOK, OnIngress
            <4> QED
                BY <1>7, <3>2, <4>1 DEF Refused
        <3>4. CASE ~ j.ok
            <4>1. j.plan = <<Delete("ingr")>> /\ v = j.sess
                BY <1>2, <1>6, <2>6, <3>4 DEF ConnectOK
            <4>2. i = Delete("ingr")
                BY <1>3, <4>1
            <4>3. i.op = "delete"
                BY <4>2 DEF Delete, Ioctl
            <4> QED
                BY <1>5, <1>7, <3>1, <3>2, <4>1, <4>3 DEF Refused
        <3> QED
            BY <3>3, <3>4
    <2>7. ConnectOK(n, v, in, lost)
        <3> SUFFICES ASSUME j.call = "connect"
                     PROVE  ConnectOK(n, v, in, lost)
            BY <2>3 DEF ConnectOK
        <3>1. n.st = "next" /\ n.plan = <<Delete("ingr")>> /\ i.side = "egr"
            BY <2>3, <2>4, <2>6
        <3>2. ~ OnIngress(j)
            BY <1>3, <3>1 DEF OnIngress
        <3>3. j.sess \in Sessions /\ v = j.sess
            BY <1>2, <1>6, <3>2 DEF ConnectOK
        <3> QED
            BY <2>3, <3>1, <3>3 DEF ConnectOK
    <2>8. Connected(n)
        BY <1>5, <2>3, <2>7 DEF Connected
    <2> QED
        BY <1>2, <2>5, <2>8, ConnectStep
<1>8. CASE ~ Refused(j.lane, j.fch, i)
    <2>1. PICK w : w = Writes(j.lane, j.fch, i)
        OBVIOUS
    <2>2. PICK n : n = [j EXCEPT !.st = "write", !.todo = w]
        OBVIOUS
    <2>3. job' = [job EXCEPT ![p] = n]
        BY <1>1, <1>3, <1>8, <2>1, <2>2 DEF Begin
    <2>4. n = [st |-> "write", call |-> j.call, lane |-> j.lane, fch |-> j.fch, sess |-> j.sess,
               plan |-> j.plan, todo |-> w, got |-> j.got, ok |-> j.ok]
        BY <1>2, <2>2 DEF JobOK
    <2>5. /\ n.st = "write" /\ n.lane = j.lane /\ n.fch = j.fch /\ n.plan = j.plan
          /\ n.call = j.call /\ n.sess = j.sess /\ n.ok = j.ok
        BY <2>4
    <2>6. JobOK(n)
        BY <1>2, <2>4, <2>5 DEF JobOK, Busy, InIoctl
    <2>7. Moves(p, n)
        BY <1>2, <2>3, <2>6, MovesStep
    <2>8. n.st \in Busy /\ n.st # "done"
        BY <2>5 DEF Busy, InIoctl
    <2>9. ConnectOK(n, v, in, lost)
        BY <1>2, <1>6, <2>5, <2>8 DEF ConnectOK, OnIngress
    <2>10. Connected(n)
        BY <1>5, <2>5, <2>9 DEF Connected
    <2> QED
        BY <1>2, <2>7, <2>10, ConnectStep
<1> QED
    BY <1>7, <1>8

LEMMA ConnectFetch ==
    ASSUME SerialInv, ConnectInv, NEW p \in Procs, Fetch(p), UNCHANGED env
    PROVE  ConnectInv'
<1>1. PICK j : j = job[p]
    OBVIOUS
<1>2. JobsInv /\ JobOK(j) /\ j.st = "fetch" /\ j.st \in Busy /\ UNCHANGED <<soft, ingr, lost>>
    BY <1>1 DEF SerialInv, JobsInv, Fetch, Busy, InIoctl
<1>3. PICK i : i = Head(j.plan)
    OBVIOUS
<1>4. i \in Ioctls /\ i.side \in Sides /\ j.lane \in Lanes
    BY <1>1, <1>2, <1>3, JobRecord, IoctlType
<1>5. i.op = "read"
    <2>1. Working(p, j.lane, i.side)
        BY <1>1, <1>2, <1>3 DEF Working
    <2>2. \E r, in, eg, D : IoctlOK(j, r, in, eg, D)
        BY <1>1, <1>4, <2>1 DEF SerialInv, IoctlsInv
    <2>3. \E r, s : Stage(j, i, s, r)
        BY <1>3, <2>2 DEF IoctlOK
    <2> QED
        BY <1>2, <2>3 DEF Stage
<1>6. PICK v, in : v = soft[j.lane][j.fch]["ingr"] /\ in = ingr[j.lane][j.sess]
    OBVIOUS
<1>7. ConnectOK(j, v, in, lost)
    BY <1>1, <1>6, ConnectParts DEF Connected
<1>8. PICK n, x : n = Fetched(j, x) /\ job' = [job EXCEPT ![p] = n]
    BY <1>1 DEF Fetch, Fetched
<1>9. /\ JobOK(n) /\ n.st \in {"next", "done"} /\ n.lane = j.lane /\ n.fch = j.fch
      /\ n.call = j.call /\ n.sess = j.sess /\ n.ok = j.ok
    BY <1>2, <1>8, FetchJob
<1>10. n.st = "next" => Head(n.plan).side = "egr"
    BY <1>2, <1>8, FetchJob
<1>11. Moves(p, n)
    BY <1>2, <1>8, <1>9, MovesStep
<1>12. j.call = "connect" => j.ok /\ ~ OnIngress(j)
    <2> SUFFICES ASSUME j.call = "connect" PROVE j.ok /\ ~ OnIngress(j)
        OBVIOUS
    <2>1. j.ok
        <3> SUFFICES ASSUME ~ j.ok PROVE FALSE
            OBVIOUS
        <3>1. j.plan = <<Delete("ingr")>>
            BY <1>2, <1>7 DEF ConnectOK
        <3>2. i = Delete("ingr")
            BY <1>3, <3>1
        <3> QED
            BY <1>5, <3>2 DEF Delete, Ioctl
    <2>2. ~ OnIngress(j)
        BY <1>3, <1>5, <1>7, <2>1 DEF ConnectOK
    <2> QED
        BY <2>1, <2>2
<1>13. ConnectOK(n, v, in, lost)
    <2> SUFFICES ASSUME j.call = "connect" PROVE ConnectOK(n, v, in, lost)
        BY <1>9 DEF ConnectOK
    <2>1. n.ok /\ ~ OnIngress(n)
        BY <1>9, <1>10, <1>12 DEF OnIngress, Busy, InIoctl
    <2>2. j.sess \in Sessions /\ v = j.sess
        BY <1>2, <1>7, <1>12 DEF ConnectOK
    <2> QED
        BY <1>9, <2>1, <2>2 DEF ConnectOK
<1>14. Connected(n)
    BY <1>6, <1>9, <1>13 DEF Connected
<1> QED
    BY <1>2, <1>11, <1>14, ConnectStep

\* fpga_chain_connect() starts with an update of the ingress side.
LEMMA RequestConnects ==
    ASSUME NEW r \in Connects \cup Disconnects \cup Reads, r.call = "connect"
    PROVE  /\ Head(r.plan).op = "update" /\ Head(r.plan).side = "ingr"
           /\ Head(r.plan).sess \in Sessions
<1> USE DEF Update, Delete, Read, Ioctl
<1>1. CASE r \in Connects
    <2>1. CASE r \in {[call |-> "connect_ingress", plan |-> <<Update("ingr", s)>>] : s \in Sessions}
        BY <2>1
    <2>2. CASE r \in {[call |-> "connect_egress", plan |-> <<Update("egr", s)>>] : s \in Sessions}
        BY <2>2
    <2>3. CASE r \in {[call |-> "connect", plan |-> <<Update("ingr", s), Update("egr", t)>>] :
              s \in Sessions, t \in Sessions \cup {None}}
        BY <2>3
    <2> QED
        BY <1>1, <2>1, <2>2, <2>3 DEF Connects
<1>2. CASE r \in Disconnects
    BY <1>2 DEF Disconnects
<1>3. CASE r \in Reads
    BY <1>3 DEF Reads
<1> QED
    BY <1>1, <1>2, <1>3

\* Begin, Fetch and Return.
LEMMA PairJobStep ==
    ASSUME SerialInv, PairInv, NEW p \in Procs, Begin(p) \/ Fetch(p) \/ Return(p), UNCHANGED env
    PROVE  PairInv'
<1>1. job[p].st # "poll" /\ UNCHANGED <<env, soft, ingr, egr, regs, lost>>
    BY JobStepFacts
<1>2. PICK n : Moves(p, n)
    BY JobStepFacts
<1>3. JobsInv /\ EgressMirror /\ LateUpdate /\ ConnectInv
    BY DEF SerialInv, PairInv
<1>4. EgressMirror' /\ LateUpdate'
    BY <1>1, <1>2, <1>3, PairStill
<1>5. CASE Begin(p)
    BY <1>3, <1>4, <1>5, ConnectBegin DEF PairInv
<1>6. CASE Fetch(p)
    BY <1>3, <1>4, <1>6, ConnectFetch DEF PairInv
<1>7. CASE Return(p)
    <2>1. Moves(p, Idle)
        BY <1>3, <1>7, IdleJob, MovesStep DEF Return
    <2>2. Idle.call = "none"
        BY DEF Idle
    <2>3. Connected(Idle)
        BY <2>2 DEF Connected, ConnectOK
    <2>4. ConnectInv'
        BY <1>1, <1>3, <2>1, <2>3, ConnectStep
    <2> QED
        BY <1>4, <2>4 DEF PairInv
<1> QED
    BY <1>5, <1>6, <1>7

LEMMA PairCall ==
    ASSUME SerialInv, PairInv, NEW p \in Procs, NEW l \in Lanes, NEW f \in Fchs,
           NEW r \in Requests, Call(p, l, f, r), UNCHANGED env
    PROVE  PairInv'
<1>1. PICK n : Called(p, l, f, r, n)
    BY CallFacts
<1>2. /\ Moves(p, n) /\ n.st = "next" /\ n.plan = r.plan /\ n.call = r.call
      /\ n.sess = Head(r.plan).sess /\ n.ok = TRUE
      /\ job[p].st = "idle" /\ UNCHANGED <<env, soft, ingr, egr, regs, lost>>
    BY <1>1 DEF Called
<1>3. EgressMirror /\ LateUpdate /\ ConnectInv
    BY DEF PairInv
<1>4. EgressMirror' /\ LateUpdate'
    BY <1>2, <1>3, PairStill
<1>5. r.call = "connect" => /\ Head(r.plan).op = "update" /\ Head(r.plan).side = "ingr"
                            /\ Head(r.plan).sess \in Sessions
    BY RequestConnects DEF Requests
<1>6. Connected(n)
    BY <1>2, <1>5 DEF Connected, ConnectOK, OnIngress, Busy
<1>7. ConnectInv'
    BY <1>2, <1>3, <1>6, ConnectStep
<1> QED
    BY <1>4, <1>7 DEF PairInv

LEMMA PairWriteReg ==
    ASSUME SerialInv, PairInv, NEW p \in Procs, WriteReg(p), UNCHANGED env
    PROVE  PairInv'
<1>1. PICK j, i, l, k, n, u : Wrote(p, j, i, l, k, n, u)
    BY WroteFacts
<1>2. /\ j = job[p] /\ i = Head(j.plan) /\ l = j.lane /\ k = i.side
      /\ l \in Lanes /\ k \in Sides /\ j.st = "write" /\ Working(p, l, k)
      /\ n.st \in {"write", "poll"} /\ n.lane = j.lane /\ n.fch = j.fch /\ n.plan = j.plan
      /\ n.call = j.call /\ n.sess = j.sess /\ n.ok = j.ok /\ Moves(p, n) /\ Sets(l, k, u)
      /\ UNCHANGED <<soft, ingr, egr, lost, env>> /\ (n.st = "poll" \/ Quiet(u))
    BY <1>1 DEF Wrote
<1>3. \A q \in Procs, m \in Lanes, h \in Sides : Working(q, m, h)' <=> Working(q, m, h)
    BY <1>1 DEF Wrote
<1>4. Exclusive /\ EgressMirror /\ LateUpdate /\ ConnectInv /\ "ingr" \in Sides /\ "egr" \in Sides
    BY DEF SerialInv, PairInv, Sides
<1>5. EgressMirror'
    <2>1. ASSUME NEW q \in Procs, NEW m \in Lanes, Answered(q, m, "egr")
          PROVE  Answered(q, m, "egr")' /\ job'[q] = job[q]
        <3>1. Working(q, m, "egr") /\ job[q].st = "poll" /\ q # p
            BY <1>2, <2>1 DEF Answered
        <3>2. m # l \/ k # "egr"
            BY <1>2, <1>4, <3>1, OneWorks
        <3>3. regs'[m]["egr"] = regs[m]["egr"] /\ job'[q] = job[q]
            BY <1>2, <1>4, <3>1, <3>2 DEF Moves, Sets
        <3> QED
            BY <1>3, <1>4, <2>1, <3>1, <3>3 DEF Answered
    <2>2. UNCHANGED <<soft, egr, lost>>
        BY <1>2
    <2> QED
        BY <1>4, <2>1, <2>2 DEF EgressMirror
<1>6. LateUpdate'
    <2> SUFFICES ASSUME NEW m \in Lanes, regs'[m]["ingr"].req = "update", ~ regs'[m]["ingr"].resp
                 PROVE  Polled(m, "ingr")' \/ <<m, regs'[m]["ingr"].channel, "ingr">> \in lost
        BY <1>2 DEF LateUpdate
    <2>1. CASE m = l /\ k = "ingr"
        <3>1. n.st = "poll" /\ Working(p, m, "ingr")'
            BY <1>2, <1>3, <1>4, <2>1 DEF Sets, Quiet
        <3> QED
            BY <1>2, <3>1 DEF Polled, Moves
    <2>2. CASE ~ (m = l /\ k = "ingr")
        <3>1. regs'[m]["ingr"] = regs[m]["ingr"]
            BY <1>2, <1>4, <2>2 DEF Sets
        <3>2. Polled(m, "ingr") => Polled(m, "ingr")'
            <4> SUFFICES ASSUME Polled(m, "ingr") PROVE Polled(m, "ingr")'
                OBVIOUS
            <4>1. PICK q \in Procs : Working(q, m, "ingr") /\ job[q].st = "poll"
                BY DEF Polled
            <4>2. q # p
                BY <1>2, <4>1
            <4> QED
                BY <1>2, <1>3, <1>4, <4>1, <4>2 DEF Polled, Moves
        <3> QED
            BY <1>4, <3>1, <3>2 DEF LateUpdate
    <2> QED
        BY <2>1, <2>2
<1>7. ConnectInv'
    <2>1. Connected(j)
        BY <1>2, <1>4, ConnectParts
    <2>2. Connected(n)
        BY <1>2, <2>1 DEF Connected, ConnectOK, OnIngress, Busy, InIoctl
    <2> QED
        BY <1>2, <1>4, <2>2, ConnectStep
<1> QED
    BY <1>5, <1>6, <1>7 DEF PairInv

LEMMA PairPollRead ==
    ASSUME SerialInv, PairInv, NEW p \in Procs, PollHit(p), Head(job[p].plan).op = "read",
           UNCHANGED env
    PROVE  PairInv'
<1>1. PICK j, i, l, k, r, n : \E s \in Sessions \cup {None} :
          Polling(p, j, i, l, k, r, s) /\ Answers(p, j, i, l, k, r, n)
    BY ReadFacts
<1>2. j = job[p] /\ i = Head(j.plan) /\ l = j.lane /\ k = i.side /\ r = regs[l][k]
    BY <1>1 DEF Polling
<1>3. /\ j.st = "poll" /\ r.resp /\ i.op = "read"
      /\ UNCHANGED <<soft, ingr, egr, regs, lost, env>> /\ Moves(p, n)
      /\ n.st = "fetch" /\ n.lane = j.lane /\ n.fch = j.fch /\ n.plan = j.plan
      /\ n.call = j.call /\ n.sess = j.sess /\ n.ok = j.ok
    BY <1>1 DEF Answers
<1>4. \A q \in Procs, m \in Lanes, h \in Sides : Working(q, m, h)' <=> Working(q, m, h)
    BY <1>1 DEF Answers
<1>5. EgressMirror /\ LateUpdate /\ ConnectInv /\ "ingr" \in Sides /\ "egr" \in Sides
    BY DEF PairInv, Sides
<1>6. EgressMirror'
    <2>1. \A q \in Procs, m \in Lanes :
              Answered(q, m, "egr") => Answered(q, m, "egr")' /\ job'[q] = job[q]
        BY <1>2, <1>3, <1>4, <1>5 DEF Answered, Moves, Changes
    <2> QED
        BY <1>3, <1>5, <2>1 DEF EgressMirror
<1>7. LateUpdate'
    <2> SUFFICES ASSUME NEW m \in Lanes, regs[m]["ingr"].req = "update", ~ regs[m]["ingr"].resp,
                        Polled(m, "ingr")
                 PROVE  Polled(m, "ingr")'
        BY <1>3, <1>5 DEF LateUpdate
    <2>1. PICK q \in Procs : Working(q, m, "ingr") /\ job[q].st = "poll"
        BY DEF Polled
    <2>2. q # p
        BY <1>2, <1>3, <2>1 DEF Working
    <2> QED
        BY <1>3, <1>4, <1>5, <2>1, <2>2 DEF Polled, Moves
<1>8. ConnectInv'
    <2>1. Connected(j)
        BY <1>2, <1>5, ConnectParts
    <2>2. Connected(n)
        BY <1>3, <2>1 DEF Connected, ConnectOK, OnIngress, Busy, InIoctl
    <2> QED
        BY <1>3, <1>5, <2>2, ConnectStep
<1> QED
    BY <1>6, <1>7, <1>8 DEF PairInv

\* The call of thread p after its update or delete was answered: the ingress
\* side of a connect is set, its egress side is, or the rollback is over.
LEMMA ConnectApplied ==
    ASSUME ConnectInv, env.careful, NEW p \in Procs, NEW j, NEW i, NEW l, NEW k, NEW r, NEW n,
           NEW s \in Sessions \cup {None}, Polling(p, j, i, l, k, r, s),
           Applied(p, j, i, l, k, r, n)
    PROVE  ConnectOK(n, soft'[l][j.fch]["ingr"], ingr[l][j.sess], lost')
<1>1. /\ j = job[p] /\ i = Head(j.plan) /\ l = j.lane /\ k = i.side /\ r = regs[l][k]
      /\ JobOK(j) /\ j.st \in Busy /\ l \in Lanes /\ j.fch \in Fchs /\ k \in Sides
      /\ i.op = "delete" /\ k = "ingr" => s \in Deleted(l, j.fch)
      /\ Effect(j, i, s, r, ingr[l], egr[l])
    BY DEF Polling
<1>2. /\ j.st = "poll" /\ r.resp /\ Copies(l, j.fch, k, i.sess)
      /\ n = Advance(j) /\ n.st \in {"next", "done"}
      /\ n.lane = j.lane /\ n.fch = j.fch /\ n.call = j.call /\ n.sess = j.sess /\ n.ok = j.ok
      /\ n.st = "next" => Head(n.plan).side = "egr"
    BY DEF Applied
<1>3. PICK v : v = soft[l][j.fch]["ingr"]
    OBVIOUS
<1>4. ConnectOK(j, v, ingr[l][j.sess], lost)
    BY <1>1, <1>3, ConnectParts DEF Connected
<1> SUFFICES ASSUME j.call = "connect"
             PROVE  ConnectOK(n, soft'[l][j.fch]["ingr"], ingr[l][j.sess], lost')
    BY <1>2 DEF ConnectOK
<1>5. j.sess \in Sessions /\ None \notin Fchs /\ "ingr" \in Sides
    BY <1>4, ChainAssumption DEF ConnectOK, Sides
<1>6. ~ OnIngress(n)
    BY <1>2 DEF OnIngress, Busy, InIoctl
<1>7. CASE j.ok
    <2>1. soft'[l][j.fch]["ingr"] = j.sess
        <3>1. CASE OnIngress(j)
            <4>1. i.sess = j.sess /\ k = "ingr"
                BY <1>1, <1>4, <1>7, <3>1 DEF ConnectOK, OnIngress
            <4> QED
                BY <1>2, <4>1 DEF Copies
        <3>2. CASE ~ OnIngress(j)
            <4>1. v = j.sess /\ k # "ingr"
                BY <1>1, <1>4, <3>2 DEF ConnectOK, OnIngress
            <4> QED
                BY <1>1, <1>2, <1>3, <1>5, <4>1 DEF Copies
        <3> QED
            BY <3>1, <3>2
    <2> QED
        BY <1>2, <1>5, <1>6, <1>7, <2>1 DEF ConnectOK
<1>8. CASE ~ j.ok
    <2>1. j.plan = <<Delete("ingr")>> /\ v = j.sess
        BY <1>1, <1>4, <1>8 DEF ConnectOK, OnIngress
    <2>2. i = Delete("ingr") /\ Tail(j.plan) = <<>>
        BY <1>1, <2>1
    <2>3. i.side = "ingr" /\ i.op = "delete"
        BY <2>2 DEF Delete, Ioctl
    <2>4. n.st = "done"
        <3>1. j = [st |-> j.st, call |-> j.call, lane |-> j.lane, fch |-> j.fch, sess |-> j.sess,
                   plan |-> j.plan, todo |-> j.todo, got |-> j.got, ok |-> j.ok]
            BY <1>1 DEF JobOK
        <3>2. n = [j EXCEPT !.st = "done", !.plan = <<>>]
            BY <1>2, <2>2 DEF Advance
        <3> QED
            BY <3>1, <3>2
    <2>5. s = j.sess
        BY <1>1, <1>3, <2>1, <2>3 DEF Deleted
    <2>6. ingr[l][j.sess] = None
        BY <1>1, <1>2, <2>3, <2>5 DEF Effect
    <2>7. n.st \notin Busy
        BY <2>4 DEF Busy, InIoctl
    <2> QED
        BY <1>1, <1>2, <1>5, <1>6, <2>4, <2>6, <2>7 DEF ConnectOK
<1> QED
    BY <1>7, <1>8

LEMMA PairPollChange ==
    ASSUME SerialInv, CarefulInv, PairInv, env.careful, NEW p \in Procs, PollHit(p),
           Head(job[p].plan).op # "read", UNCHANGED env
    PROVE  PairInv'
<1>1. PICK j, i, l, k, r, n : \E s \in Sessions \cup {None} :
          Polling(p, j, i, l, k, r, s) /\ Applied(p, j, i, l, k, r, n)
    BY AppliedFacts
<1>2. PICK s \in Sessions \cup {None} : Polling(p, j, i, l, k, r, s)
    BY <1>1
<1>3. /\ j = job[p] /\ i = Head(j.plan) /\ l = j.lane /\ k = i.side /\ r = regs[l][k]
      /\ l \in Lanes /\ j.fch \in Fchs /\ i \in Ioctls /\ k \in Sides /\ Working(p, l, k)
      /\ i.op = "update" => s = i.sess
      /\ Effect(j, i, s, r, ingr[l], egr[l])
    BY <1>2 DEF Polling
<1>4. /\ j.st = "poll" /\ r.resp /\ i.op \in Changes
      /\ Copies(l, j.fch, k, i.sess) /\ lost' = lost \ {<<l, j.fch, k>>}
      /\ UNCHANGED <<ingr, egr, regs, env>> /\ Moves(p, n)
      /\ n.lane = j.lane /\ n.fch = j.fch /\ n.sess = j.sess
    BY <1>1 DEF Applied
<1>5. \A q \in Procs, m \in Lanes, h \in Sides : Working(q, m, h)' <=> q # p /\ Working(q, m, h)
    BY <1>1 DEF Applied
<1>6. ApartInv /\ EgressMirror /\ LateUpdate /\ ConnectInv /\ "ingr" \in Sides /\ "egr" \in Sides
    BY DEF CarefulInv, PairInv, Sides
<1>7. \A m \in Lanes, g \in Fchs, h \in Sides :
          soft'[m][g][h] = IF m = l /\ g = j.fch /\ h = k THEN i.sess ELSE soft[m][g][h]
    BY <1>4 DEF Copies
<1>8. EgressMirror'
    <2> SUFFICES ASSUME NEW m \in Lanes, NEW g \in Fchs
                 PROVE  \/ <<m, g, "egr">> \in lost'
                        \/ egr'[m][g] = soft'[m][g]["egr"]
                        \/ \E q \in Procs : Answered(q, m, "egr")' /\ job'[q].fch = g
        BY DEF EgressMirror
    <2>1. CASE m = l /\ g = j.fch /\ k = "egr"
        <3>1. soft'[m][g]["egr"] = i.sess
            BY <1>6, <1>7, <2>1
        <3>2. i.op = "delete" => i.sess = None
            BY <1>3, IoctlType
        <3>3. egr[l][j.fch] = i.sess
            BY <1>3, <1>4, <2>1, <3>2 DEF Effect, Changes
        <3> QED
            BY <1>4, <2>1, <3>1, <3>3
    <2>2. CASE ~ (m = l /\ g = j.fch /\ k = "egr")
        <3>1. soft'[m][g]["egr"] = soft[m][g]["egr"]
            BY <1>6, <1>7, <2>2
        <3>2. CASE egr[m][g] = soft[m][g]["egr"]
            BY <1>4, <3>1, <3>2
        <3>3. CASE <<m, g, "egr">> \in lost
            BY <1>4, <2>2, <3>3
        <3>4. CASE \E q \in Procs : Answered(q, m, "egr") /\ job[q].fch = g
            <4>1. PICK q \in Procs : Answered(q, m, "egr") /\ job[q].fch = g
                BY <3>4
            <4>2. q # p
                BY <1>3, <2>2, <4>1 DEF Answered, Working
            <4>3. Working(q, m, "egr")' /\ job'[q] = job[q]
                BY <1>4, <1>5, <1>6, <4>1, <4>2 DEF Answered, Moves
            <4>4. Answered(q, m, "egr")'
                BY <1>4, <4>1, <4>3 DEF Answered
            <4> QED
                BY <4>1, <4>3, <4>4
        <3> QED
            BY <1>6, <3>2, <3>3, <3>4 DEF EgressMirror
    <2> QED
        BY <2>1, <2>2
<1>9. LateUpdate'
    <2> SUFFICES ASSUME NEW m \in Lanes, regs[m]["ingr"].req = "update", ~ regs[m]["ingr"].resp
                 PROVE  Polled(m, "ingr")' \/ <<m, regs[m]["ingr"].channel, "ingr">> \in lost'
        BY <1>4 DEF LateUpdate
    <2>1. m # l \/ k # "ingr"
        BY <1>3, <1>4
    <2>2. CASE Polled(m, "ingr")
        <3>1. PICK q \in Procs : Working(q, m, "ingr") /\ job[q].st = "poll"
            BY <2>2 DEF Polled
        <3>2. q # p
            BY <1>3, <2>1, <3>1 DEF Working
        <3> QED
            BY <1>4, <1>5, <1>6, <3>1, <3>2 DEF Polled, Moves
    <2>3. CASE <<m, regs[m]["ingr"].channel, "ingr">> \in lost
        BY <1>4, <2>1, <2>3
    <2> QED
        BY <1>6, <2>2, <2>3 DEF LateUpdate
<1>10. ConnectInv'
    <2>1. ASSUME NEW q \in Procs, NEW a, a = job'[q]
          PROVE  ConnectOK(a, soft'[a.lane][a.fch]["ingr"], ingr'[a.lane][a.sess], lost')
        <3>1. CASE q = p
            <4>1. a = n
                BY <1>4, <2>1, <3>1 DEF Moves
            <4>2. ConnectOK(n, soft'[l][j.fch]["ingr"], ingr[l][j.sess], lost')
                BY <1>1, <1>6, ConnectApplied
            <4> QED
                BY <1>3, <1>4, <4>1, <4>2
        <3>2. CASE q # p
            <4>1. a = job[q]
                BY <1>4, <2>1, <3>2 DEF Moves
            <4>2. ConnectOK(a, soft[a.lane][a.fch]["ingr"], ingr[a.lane][a.sess], lost)
                BY <1>6, <4>1, ConnectParts DEF Connected
            <4>3. CASE a.st # "idle"
                <5>1. a.lane \in Lanes /\ a.fch \in Fchs
                    BY <4>1, <4>3, JobRecord DEF SerialInv
                <5>2. a.lane = l => a.fch # j.fch
                    BY <1>3, <1>4, <1>6, <3>2, <4>1, <4>3 DEF ApartInv
                <5>3. soft'[a.lane][a.fch]["ingr"] = soft[a.lane][a.fch]["ingr"]
                    BY <1>6, <1>7, <5>1, <5>2
                <5>4. <<a.lane, a.fch, "ingr">> \in lost => <<a.lane, a.fch, "ingr">> \in lost'
                    BY <1>4, <5>2
                <5> QED
                    BY <1>4, <4>2, <5>3, <5>4 DEF ConnectOK
            <4>4. CASE a.st = "idle"
                BY <4>2, <4>4 DEF ConnectOK, OnIngress, Busy, InIoctl
            <4> QED
                BY <4>3, <4>4
        <3> QED
            BY <3>1, <3>2
    <2> QED
        BY <2>1 DEF ConnectInv, ConnectOK, OnIngress
<1> QED
    BY <1>8, <1>9, <1>10 DEF PairInv

LEMMA PairPollTimeout ==
    ASSUME SerialInv, CarefulInv, PairInv, NEW p \in Procs, PollTimeout(p), UNCHANGED env
    PROVE  PairInv'
<1>1. PICK j, i, l, k, r, n : \E s \in Sessions \cup {None} :
          Polling(p, j, i, l, k, r, s) /\ GaveUp(p, j, i, l, k, r, n)
    BY GaveUpFacts
<1>2. PICK s \in Sessions \cup {None} : Polling(p, j, i, l, k, r, s)
    BY <1>1
<1>3. /\ j = job[p] /\ i = Head(j.plan) /\ l = j.lane /\ k = i.side /\ r = regs[l][k]
      /\ l \in Lanes /\ j.fch \in Fchs /\ i \in Ioctls /\ k \in Sides /\ j.st \in Busy
      /\ r.req = i.op /\ HasValue(i, j.fch, s, r)
    BY <1>2 DEF Polling
<1>4. /\ j.st = "poll" /\ ~ r.resp
      /\ lost' = IF i.op = "read" THEN lost ELSE lost \cup {<<l, j.fch, k>>}
      /\ UNCHANGED <<soft, ingr, egr, regs, env>> /\ Moves(p, n)
      /\ n.st \in {"next", "done"} /\ n.lane = j.lane /\ n.fch = j.fch
      /\ n.call = j.call /\ n.sess = j.sess /\ n.ok = FALSE
      /\ n.st = "next" => n.plan = <<Delete("ingr")>> /\ k = "egr"
      /\ n.st = "done" /\ j.call = "connect" => k # "egr"
    BY <1>1 DEF GaveUp
<1>5. \A q \in Procs, m \in Lanes, h \in Sides : Working(q, m, h)' <=> q # p /\ Working(q, m, h)
    BY <1>1 DEF GaveUp
<1>6. /\ EgressMirror /\ LateUpdate /\ ConnectInv /\ lost \subseteq lost'
      /\ "ingr" \in Sides /\ "egr" \in Sides
    BY <1>4 DEF PairInv, Sides
<1>7. EgressMirror'
    <2>1. ASSUME NEW q \in Procs, NEW m \in Lanes, Answered(q, m, "egr")
          PROVE  Answered(q, m, "egr")' /\ job'[q] = job[q]
        <3>1. q # p
            BY <1>3, <1>4, <2>1 DEF Answered, Working
        <3>2. Working(q, m, "egr")' /\ job'[q] = job[q]
            BY <1>4, <1>5, <1>6, <2>1, <3>1 DEF Answered, Moves
        <3> QED
            BY <1>4, <2>1, <3>2 DEF Answered
    <2>2. UNCHANGED <<soft, egr>> /\ lost \subseteq lost'
        BY <1>4, <1>6
    <2> QED
        BY <1>6, <2>1, <2>2 DEF EgressMirror
<1>8. LateUpdate'
    <2> SUFFICES ASSUME NEW m \in Lanes, regs[m]["ingr"].req = "update", ~ regs[m]["ingr"].resp
                 PROVE  Polled(m, "ingr")' \/ <<m, regs[m]["ingr"].channel, "ingr">> \in lost'
        BY <1>4 DEF LateUpdate
    <2>1. CASE <<m, regs[m]["ingr"].channel, "ingr">> \in lost
        BY <1>6, <2>1
    <2>2. CASE Polled(m, "ingr")
        <3>1. PICK q \in Procs : Working(q, m, "ingr") /\ job[q].st = "poll"
            BY <2>2 DEF Polled
        <3>2. CASE q # p
            BY <1>4, <1>5, <1>6, <3>1, <3>2 DEF Polled, Moves
        <3>3. CASE q = p
            <4>1. m = l /\ k = "ingr"
                BY <1>3, <3>1, <3>3 DEF Working
            <4>2. i.op = "update" /\ r.channel = j.fch
                BY <1>3, <4>1 DEF HasValue
            <4> QED
                BY <1>3, <1>4, <4>1, <4>2
        <3> QED
            BY <3>2, <3>3
    <2> QED
        BY <1>6, <2>1, <2>2 DEF LateUpdate
<1>9. ConnectInv'
    <2>1. ASSUME NEW q \in Procs, NEW a, a = job'[q]
          PROVE  ConnectOK(a, soft[a.lane][a.fch]["ingr"], ingr[a.lane][a.sess], lost')
        <3>1. CASE q = p
            <4>1. a = n
                BY <1>4, <2>1, <3>1 DEF Moves
            <4>2. PICK v, in : v = soft[l][j.fch]["ingr"] /\ in = ingr[l][j.sess]
                OBVIOUS
            <4>3. ConnectOK(j, v, in, lost)
                BY <1>3, <1>6, <4>2, ConnectParts DEF Connected
            <4>4. ConnectOK(n, v, in, lost')
                <5> SUFFICES ASSUME j.call = "connect" PROVE ConnectOK(n, v, in, lost')
                    BY <1>4 DEF ConnectOK
                <5>1. CASE n.st = "next"
                    <6>1. j.sess \in Sessions /\ v = j.sess
                        BY <1>3, <1>4, <4>3, <5>1 DEF ConnectOK, OnIngress
                    <6> QED
                        BY <1>4, <5>1, <6>1 DEF ConnectOK
                <5>2. CASE n.st = "done"
                    <6>1. k = "ingr" /\ n.st \notin Busy
                        BY <1>3, <1>4, <5>2 DEF Sides, Busy, InIoctl
                    <6>2. i.op # "read"
                        <7>1. CASE j.ok
                            BY <1>3, <4>3, <6>1, <7>1 DEF ConnectOK, OnIngress
                        <7>2. CASE ~ j.ok
                            <8>1. i = Delete("ingr")
                                BY <1>3, <4>3, <7>2 DEF ConnectOK
                            <8> QED
                                BY <8>1 DEF Delete, Ioctl
                        <7> QED
                            BY <7>1, <7>2
                    <6>3. <<n.lane, n.fch, "ingr">> \in lost'
                        BY <1>3, <1>4, <6>1, <6>2
                    <6> QED
                        BY <1>4, <4>3, <5>2, <6>1, <6>3 DEF ConnectOK, OnIngress
                <5> QED
                    BY <1>4, <5>1, <5>2
            <4> QED
                BY <1>3, <1>4, <4>1, <4>2, <4>4
        <3>2. CASE q # p
            <4>1. a = job[q]
                BY <1>4, <2>1, <3>2 DEF Moves
            <4>2. ConnectOK(a, soft[a.lane][a.fch]["ingr"], ingr[a.lane][a.sess], lost)
                BY <1>6, <4>1, ConnectParts DEF Connected
            <4> QED
                BY <1>6, <4>2 DEF ConnectOK
        <3> QED
            BY <3>1, <3>2
    <2> QED
        BY <1>4, <2>1 DEF ConnectInv, ConnectOK, OnIngress
<1> QED
    BY <1>7, <1>8, <1>9 DEF PairInv

LEMMA PairServe ==
    ASSUME SerialInv, CarefulInv, PairInv, NEW l \in Lanes, NEW k \in Sides, Serve(l, k),
           UNCHANGED env
    PROVE  PairInv'
<1>1. PICK r, u : /\ Served(l, k, r, u)
                  /\ k = "ingr" => ServedIngress(l, r) /\ egr' = egr
                  /\ k = "egr" => ServedEgress(l, r) /\ ingr' = ingr
    BY ServedFacts
<1>2. /\ r = regs[l][k] /\ r \in Regs /\ r.req # "none" /\ ~ r.resp
      /\ u.resp = TRUE /\ Sets(l, k, u)
      /\ UNCHANGED <<soft, job, lost, env>>
    BY <1>1 DEF Served
<1>3. (k = "ingr" \/ k = "egr") /\ "ingr" \in Sides /\ "egr" \in Sides
    BY DEF Sides
<1>4. \A q \in Procs, m \in Lanes, h \in Sides : Working(q, m, h)' <=> Working(q, m, h)
    BY <1>2 DEF Working
<1>5. JobsInv /\ ApartInv /\ LateEgress /\ EgressMirror /\ LateUpdate /\ ConnectInv
    BY DEF SerialInv, CarefulInv, PairInv
\* Whoever polls for the request is the one that made it.
<1>6. ASSUME NEW q \in Procs, Working(q, l, k), job[q].st = "poll"
      PROVE  /\ job[q].st # "idle" /\ job[q].lane = l /\ r.req = Head(job[q].plan).op
             /\ k = "egr" => r.channel = job[q].fch
             /\ k = "ingr" /\ r.req = "update" => r.channel = job[q].fch
    <2>1. PICK j, i, n, h, x : \E s \in Sessions \cup {None} : Polling(q, j, i, n, h, x, s)
        BY <1>6, PollFacts
    <2>2. PICK s \in Sessions \cup {None} : Polling(q, j, i, n, h, x, s)
        BY <2>1
    <2>3. /\ j = job[q] /\ i = Head(j.plan) /\ n = j.lane /\ h = i.side /\ x = regs[n][h]
          /\ x.req = i.op /\ HasKey(i, j.fch, s, x) /\ HasValue(i, j.fch, s, x)
        BY <2>2 DEF Polling
    <2>4. n = l /\ h = k /\ x = r
        BY <1>2, <1>6, <2>3 DEF Working
    <2> QED
        BY <1>6, <2>3, <2>4 DEF HasKey, HasValue
<1>7. EgressMirror'
    <2> SUFFICES ASSUME NEW m \in Lanes, NEW g \in Fchs
                 PROVE  \/ <<m, g, "egr">> \in lost
                        \/ egr'[m][g] = soft[m][g]["egr"]
                        \/ \E q \in Procs : Answered(q, m, "egr")' /\ job[q].fch = g
        BY <1>2 DEF EgressMirror
    <2>1. CASE m # l \/ k # "egr" \/ r.req = "read" \/ g # r.channel
        <3>1. egr'[m][g] = egr[m][g]
            BY <1>1, <1>3, <2>1 DEF ServedEgress
        <3>2. ASSUME NEW q \in Procs, Answered(q, m, "egr") PROVE Answered(q, m, "egr")'
            <4>1. m # l \/ k # "egr"
                BY <1>2, <3>2 DEF Answered
            <4>2. regs'[m]["egr"] = regs[m]["egr"]
                BY <1>2, <1>3, <4>1 DEF Sets
            <4> QED
                BY <1>2, <1>3, <1>4, <3>2, <4>2 DEF Answered
        <3> QED
            BY <1>5, <3>1, <3>2 DEF EgressMirror
    <2>2. CASE m = l /\ k = "egr" /\ r.req # "read" /\ g = r.channel
        <3>1. r.req \in Changes /\ Pending(r)
            BY <1>2, <2>2 DEF Pending, Changes, Regs
        <3>2. CASE <<m, g, "egr">> \in lost
            BY <3>2
        <3>3. CASE Polled(l, "egr")
            <4>1. PICK q \in Procs : Working(q, l, "egr") /\ job[q].st = "poll"
                BY <3>3 DEF Polled
            <4>2. Head(job[q].plan).op \in Changes /\ job[q].fch = g
                BY <1>6, <2>2, <3>1, <4>1
            <4>3. Working(q, l, "egr")' /\ regs'[l]["egr"].resp
                BY <1>2, <1>3, <1>4, <2>2, <4>1 DEF Sets
            <4> QED
                BY <1>2, <2>2, <4>1, <4>2, <4>3 DEF Answered
        <3> QED
            BY <1>2, <1>5, <2>2, <3>1, <3>2, <3>3 DEF LateEgress
    <2> QED
        BY <2>1, <2>2
<1>8. LateUpdate'
    <2> SUFFICES ASSUME NEW m \in Lanes, regs'[m]["ingr"].req = "update", ~ regs'[m]["ingr"].resp
                 PROVE  Polled(m, "ingr")' \/ <<m, regs'[m]["ingr"].channel, "ingr">> \in lost
        BY <1>2 DEF LateUpdate
    <2>1. regs'[m]["ingr"] = regs[m]["ingr"]
        BY <1>2, <1>3 DEF Sets
    <2>2. Polled(m, "ingr") => Polled(m, "ingr")'
        BY <1>2, <1>3, <1>4 DEF Polled
    <2> QED
        BY <1>5, <2>1, <2>2 DEF LateUpdate
<1>9. ConnectInv'
    <2>1. ASSUME NEW q \in Procs, NEW a, a = job[q]
          PROVE  ConnectOK(a, soft[a.lane][a.fch]["ingr"], ingr'[a.lane][a.sess], lost)
        <3>1. ConnectOK(a, soft[a.lane][a.fch]["ingr"], ingr[a.lane][a.sess], lost)
            BY <1>5, <2>1, ConnectParts DEF Connected
        <3>2. ASSUME a.call = "connect", a.st = "done", <<a.lane, a.fch, "ingr">> \notin lost,
                     ingr[a.lane][a.sess] # a.fch
              PROVE  ingr'[a.lane][a.sess] # a.fch
            <4>1. a.sess \in Sessions /\ a.lane \in Lanes /\ a.fch \in Fchs /\ a.fch # None
                BY <1>5, <2>1, <3>1, <3>2, JobRecord, ChainAssumption DEF ConnectOK
            <4>2. CASE k = "egr" \/ r.req = "read" \/ a.lane # l \/ a.sess # r.session
                BY <1>1, <1>3, <3>2, <4>1, <4>2 DEF ServedIngress
            <4>3. CASE k = "ingr" /\ r.req = "delete" /\ a.lane = l /\ a.sess = r.session
                BY <1>1, <4>1, <4>3 DEF ServedIngress
            <4>4. CASE k = "ingr" /\ r.req = "update" /\ a.lane = l /\ a.sess = r.session
                <5>1. ingr'[a.lane][a.sess] = r.channel
                    BY <1>1, <4>4 DEF ServedIngress
                <5>2. CASE Polled(l, "ingr")
                    <6>1. PICK b \in Procs : Working(b, l, "ingr") /\ job[b].st = "poll"
                        BY <5>2 DEF Polled
                    <6>2. job[b].st # "idle" /\ job[b].lane = l /\ r.channel = job[b].fch
                        BY <1>6, <4>4, <6>1
                    <6>3. b # q
                        BY <2>1, <3>2, <6>1
                    <6>4. job[b].fch # a.fch
                        BY <1>5, <2>1, <3>2, <4>4, <6>2, <6>3 DEF ApartInv
                    <6> QED
                        BY <5>1, <6>2, <6>4
                <5>3. CASE <<l, r.channel, "ingr">> \in lost
                    BY <3>2, <4>4, <5>1, <5>3
                <5> QED
                    BY <1>2, <1>5, <4>4, <5>2, <5>3 DEF LateUpdate
            <4> QED
                BY <1>2, <1>3, <4>2, <4>3, <4>4 DEF Regs
        <3> QED
            BY <3>1, <3>2 DEF ConnectOK
    <2> QED
        BY <1>2, <2>1 DEF ConnectInv, ConnectOK, OnIngress
<1> QED
    BY <1>7, <1>8, <1>9 DEF PairInv

LEMMA PairInit == ASSUME Init PROVE PairInv
<1>1. \A p \in Procs : job[p] = Idle
    BY DEF Init
<1>2. /\ \A l \in Lanes, f \in Fchs, k \in Sides : soft[l][f][k] = None
      /\ \A l \in Lanes, f \in Fchs : egr[l][f] = None
    BY DEF Init
<1>3. EgressMirror
    BY <1>2 DEF EgressMirror, Sides
<1>4. LateUpdate
    <2>1. \A l \in Lanes, k \in Sides :
              regs[l][k] = [req |-> "none", session |-> None, channel |-> None, resp |-> FALSE]
        BY DEF Init
    <2>2. \A l \in Lanes : regs[l]["ingr"].req = "none"
        BY <2>1 DEF Sides
    <2> QED
        BY <2>2 DEF LateUpdate
<1>5. ConnectInv
    BY <1>1 DEF ConnectInv, ConnectOK, Idle
<1> QED
    BY <1>3, <1>4, <1>5 DEF PairInv

LEMMA PairStutter ==
    ASSUME PairInv, UNCHANGED vars
    PROVE  PairInv'
<1>1. UNCHANGED <<env, soft, ingr, egr, regs, job, lost>>
    BY DEF vars
<1>2. EgressMirror /\ LateUpdate /\ ConnectInv /\ "ingr" \in Sides /\ "egr" \in Sides
    BY DEF PairInv, Sides
<1>3. \A q \in Procs, m \in Lanes, h \in Sides : Working(q, m, h)' <=> Working(q, m, h)
    BY <1>1 DEF Working
<1>4. EgressMirror'
    <2>1. \A q \in Procs, m \in Lanes : Answered(q, m, "egr") => Answered(q, m, "egr")'
        BY <1>1, <1>2, <1>3 DEF Answered
    <2> QED
        BY <1>1, <1>2, <2>1 DEF EgressMirror
<1>5. LateUpdate'
    BY <1>1, <1>2, <1>3 DEF LateUpdate, Polled
<1>6. ConnectInv'
    BY <1>1, <1>2 DEF ConnectInv, ConnectOK, OnIngress
<1> QED
    BY <1>4, <1>5, <1>6 DEF PairInv

LEMMA PairNext ==
    ASSUME SerialInv, CarefulInv, PairInv, env.careful, [Next]_vars
    PROVE  PairInv'
<1>1. CASE UNCHANGED vars
    BY <1>1, PairStutter
<1>2. CASE Next
    <2>0. UNCHANGED env /\ Step
        BY <1>2 DEF Next
    <2>1. ASSUME NEW p \in Procs, Begin(p) PROVE PairInv'
        BY <2>0, <2>1, PairJobStep
    <2>2. ASSUME NEW p \in Procs, Inside(p) PROVE PairInv'
        <3>1. CASE WriteReg(p)
            BY <2>0, <3>1, PairWriteReg
        <3>2. CASE PollHit(p)
            <4>1. CASE Head(job[p].plan).op = "read"
                BY <2>0, <3>2, <4>1, PairPollRead
            <4>2. CASE Head(job[p].plan).op # "read"
                BY <2>0, <3>2, <4>2, PairPollChange
            <4> QED
                BY <4>1, <4>2
        <3>3. CASE PollTimeout(p)
            BY <2>0, <3>3, PairPollTimeout
        <3>4. CASE Fetch(p) \/ Return(p)
            BY <2>0, <3>4, PairJobStep
        <3> QED
            BY <2>2, <3>1, <3>2, <3>3, <3>4 DEF Inside
    <2>3. ASSUME NEW p \in Procs, NEW l \in Lanes, NEW f \in Fchs, NEW r \in Requests,
                 Call(p, l, f, r)
          PROVE  PairInv'
        BY <2>0, <2>3, PairCall
    <2>4. ASSUME NEW l \in Lanes, NEW k \in Sides, Serve(l, k) PROVE PairInv'
        BY <2>0, <2>4, PairServe
    <2> QED
        BY <2>0, <2>1, <2>2, <2>3, <2>4 DEF Step
<1> QED
    BY <1>1, <1>2
-----------------------------------------------------------------------------
(***************************************************************************)
(* Careful callers and a prompt FPGA.                                      *)
(***************************************************************************)
\* A step that leaves the tables alone and loses no answer.
LEMMA MirrorStill ==
    ASSUME IngressMirror, UNCHANGED <<soft, ingr>>,
           \A q \in Procs, m \in Lanes, h \in Sides : Answered(q, m, h) =>
               Answered(q, m, h)' /\ job'[q] = job[q] /\ regs'[m][h] = regs[m][h]
    PROVE  IngressMirror'
<1>1. "ingr" \in Sides
    BY DEF Sides
<1> QED
    BY <1>1 DEF IngressMirror

\* A step that leaves the registers alone, of a thread that does not poll.
LEMMA PromptStill ==
    ASSUME PromptInv, NEW p \in Procs, NEW n, Moves(p, n), job[p].st # "poll", regs' = regs
    PROVE  PromptInv'
<1>1. \A q \in Procs, l \in Lanes, k \in Sides :
          Working(q, l, k) /\ job[q].st = "poll" => Working(q, l, k)' /\ job'[q] = job[q]
    BY DEF Moves, Working
<1>2. \A l \in Lanes, k \in Sides : Polled(l, k) => Polled(l, k)'
    BY <1>1 DEF Polled
<1> QED
    BY <1>2 DEF PromptInv, Pending

\* Begin, Fetch and Return.
LEMMA MirrorJobStep ==
    ASSUME SerialInv, MirrorInv, NEW p \in Procs, Begin(p) \/ Fetch(p) \/ Return(p), UNCHANGED env
    PROVE  MirrorInv'
<1>1. job[p].st # "poll" /\ UNCHANGED <<env, soft, ingr, egr, regs, lost>>
    BY JobStepFacts
<1>2. PICK n : Moves(p, n)
    BY JobStepFacts
<1>3. lost = {} /\ PromptInv /\ IngressMirror
    BY DEF MirrorInv
<1>4. \A q \in Procs, m \in Lanes, h \in Sides : Answered(q, m, h) =>
          Answered(q, m, h)' /\ job'[q] = job[q] /\ regs'[m][h] = regs[m][h]
    BY <1>1, <1>2 DEF Answered, Working, Moves
<1>5. IngressMirror'
    BY <1>1, <1>3, <1>4, MirrorStill
<1>6. PromptInv'
    BY <1>1, <1>2, <1>3, PromptStill
<1> QED
    BY <1>1, <1>3, <1>5, <1>6 DEF MirrorInv

LEMMA MirrorCall ==
    ASSUME SerialInv, MirrorInv, NEW p \in Procs, NEW l \in Lanes, NEW f \in Fchs,
           NEW r \in Requests, Call(p, l, f, r), UNCHANGED env
    PROVE  MirrorInv'
<1>1. PICK n : Called(p, l, f, r, n)
    BY CallFacts
<1>2. /\ Moves(p, n) /\ job[p].st = "idle"
      /\ UNCHANGED <<env, soft, ingr, egr, regs, lost>>
    BY <1>1 DEF Called
<1>3. lost = {} /\ PromptInv /\ IngressMirror
    BY DEF MirrorInv
<1>4. \A q \in Procs, m \in Lanes, h \in Sides : Answered(q, m, h) =>
          Answered(q, m, h)' /\ job'[q] = job[q] /\ regs'[m][h] = regs[m][h]
    BY <1>2 DEF Answered, Working, Moves
<1>5. IngressMirror'
    BY <1>2, <1>3, <1>4, MirrorStill
<1>6. PromptInv'
    BY <1>2, <1>3, PromptStill
<1> QED
    BY <1>2, <1>3, <1>5, <1>6 DEF MirrorInv

LEMMA MirrorWriteReg ==
    ASSUME SerialInv, MirrorInv, NEW p \in Procs, WriteReg(p), UNCHANGED env
    PROVE  MirrorInv'
<1>1. PICK j, i, l, k, n, u : Wrote(p, j, i, l, k, n, u)
    BY WroteFacts
<1>2. /\ j = job[p] /\ i = Head(j.plan) /\ l = j.lane /\ k = i.side
      /\ l \in Lanes /\ k \in Sides /\ j.st = "write" /\ Working(p, l, k)
      /\ n.st \in {"write", "poll"} /\ n.lane = j.lane /\ n.fch = j.fch /\ n.plan = j.plan
      /\ n.call = j.call /\ n.sess = j.sess /\ n.ok = j.ok /\ Moves(p, n) /\ Sets(l, k, u)
      /\ UNCHANGED <<soft, ingr, egr, lost, env>> /\ (n.st = "poll" \/ Quiet(u))
    BY <1>1 DEF Wrote
<1>3. \A q \in Procs, m \in Lanes, h \in Sides : Working(q, m, h)' <=> Working(q, m, h)
    BY <1>1 DEF Wrote
<1>4. Exclusive /\ lost = {} /\ PromptInv /\ IngressMirror
    BY DEF SerialInv, MirrorInv
<1>5. ASSUME NEW q \in Procs, NEW m \in Lanes, NEW h \in Sides, Answered(q, m, h)
      PROVE  Answered(q, m, h)' /\ job'[q] = job[q] /\ regs'[m][h] = regs[m][h]
    <2>1. Working(q, m, h) /\ job[q].st = "poll" /\ q # p
        BY <1>2, <1>5 DEF Answered
    <2>2. m # l \/ h # k
        BY <1>2, <1>4, <2>1, OneWorks
    <2>3. regs'[m][h] = regs[m][h] /\ job'[q] = job[q]
        BY <1>2, <2>1, <2>2 DEF Moves, Sets
    <2> QED
        BY <1>3, <1>5, <2>1, <2>3 DEF Answered
<1>6. IngressMirror'
    BY <1>2, <1>4, <1>5, MirrorStill
<1>7. PromptInv'
    <2> SUFFICES ASSUME NEW m \in Lanes, NEW h \in Sides, Pending(regs'[m][h])
                 PROVE  Polled(m, h)'
        BY DEF PromptInv, Pending
    <2>1. CASE m = l /\ h = k
        <3>1. n.st = "poll" /\ Working(p, m, h)'
            BY <1>2, <1>3, <2>1 DEF Sets, Pending, Quiet, Changes
        <3> QED
            BY <1>2, <3>1 DEF Polled, Moves
    <2>2. CASE ~ (m = l /\ h = k)
        <3>1. Pending(regs[m][h])
            BY <1>2, <2>2 DEF Sets
        <3>2. PICK q \in Procs : Working(q, m, h) /\ job[q].st = "poll"
            BY <1>4, <3>1 DEF PromptInv, Polled
        <3>3. q # p
            BY <1>2, <3>2
        <3> QED
            BY <1>2, <1>3, <3>2, <3>3 DEF Polled, Moves
    <2> QED
        BY <2>1, <2>2
<1> QED
    BY <1>2, <1>4, <1>6, <1>7 DEF MirrorInv

LEMMA MirrorPollRead ==
    ASSUME SerialInv, MirrorInv, NEW p \in Procs, PollHit(p), Head(job[p].plan).op = "read",
           UNCHANGED env
    PROVE  MirrorInv'
<1>1. PICK j, i, l, k, r, n : \E s \in Sessions \cup {None} :
          Polling(p, j, i, l, k, r, s) /\ Answers(p, j, i, l, k, r, n)
    BY ReadFacts
<1>2. j = job[p] /\ i = Head(j.plan) /\ l = j.lane /\ k = i.side /\ r = regs[l][k]
    BY <1>1 DEF Polling
<1>3. /\ j.st = "poll" /\ r.resp /\ i.op = "read"
      /\ UNCHANGED <<soft, ingr, egr, regs, lost, env>> /\ Moves(p, n)
      /\ n.st = "fetch" /\ n.lane = j.lane /\ n.fch = j.fch /\ n.plan = j.plan
      /\ n.call = j.call /\ n.sess = j.sess /\ n.ok = j.ok
    BY <1>1 DEF Answers
<1>4. \A q \in Procs, m \in Lanes, h \in Sides : Working(q, m, h)' <=> Working(q, m, h)
    BY <1>1 DEF Answers
<1>5. lost = {} /\ PromptInv /\ IngressMirror
    BY DEF MirrorInv
<1>6. \A q \in Procs, m \in Lanes, h \in Sides : Answered(q, m, h) =>
          Answered(q, m, h)' /\ job'[q] = job[q] /\ regs'[m][h] = regs[m][h]
    BY <1>2, <1>3, <1>4 DEF Answered, Moves, Changes
<1>7. IngressMirror'
    BY <1>3, <1>5, <1>6, MirrorStill
<1>8. PromptInv'
    <2> SUFFICES ASSUME NEW m \in Lanes, NEW h \in Sides, Pending(regs[m][h])
                 PROVE  Polled(m, h)'
        BY <1>3 DEF PromptInv, Pending
    <2>1. PICK q \in Procs : Working(q, m, h) /\ job[q].st = "poll"
        BY <1>5 DEF PromptInv, Polled
    <2>2. q # p
        BY <1>2, <1>3, <2>1 DEF Working, Pending
    <2> QED
        BY <1>3, <1>4, <2>1, <2>2 DEF Polled, Moves
<1> QED
    BY <1>3, <1>5, <1>7, <1>8 DEF MirrorInv

LEMMA MirrorPollChange ==
    ASSUME SerialInv, CarefulInv, MirrorInv, env.careful, NEW p \in Procs, PollHit(p),
           Head(job[p].plan).op # "read", UNCHANGED env
    PROVE  MirrorInv'
<1>1. PICK j, i, l, k, r, n : \E s \in Sessions \cup {None} :
          Polling(p, j, i, l, k, r, s) /\ Applied(p, j, i, l, k, r, n)
    BY AppliedFacts
<1>2. PICK s \in Sessions \cup {None} : Polling(p, j, i, l, k, r, s)
    BY <1>1
<1>3. /\ j = job[p] /\ i = Head(j.plan) /\ l = j.lane /\ k = i.side /\ r = regs[l][k]
      /\ l \in Lanes /\ j.fch \in Fchs /\ i \in Ioctls /\ k \in Sides /\ Working(p, l, k)
      /\ j.st \in Busy
    BY <1>2 DEF Polling
<1>4. /\ k = "ingr" => s \in Sessions
      /\ k = "ingr" /\ i.op = "delete" => s \in Deleted(l, j.fch)
      /\ i.op = "update" => s = i.sess
      /\ HasKey(i, j.fch, s, r) /\ Effect(j, i, s, r, ingr[l], egr[l])
    BY <1>2, <1>3 DEF Polling
<1>5. /\ j.st = "poll" /\ r.resp /\ i.op \in Changes
      /\ Copies(l, j.fch, k, i.sess) /\ lost' = lost \ {<<l, j.fch, k>>}
      /\ UNCHANGED <<ingr, egr, regs, env>> /\ n = Advance(j) /\ Moves(p, n)
      /\ n.st \in {"next", "done"} /\ n.lane = j.lane /\ n.fch = j.fch
      /\ n.call = j.call /\ n.sess = j.sess /\ n.ok = j.ok
    BY <1>1 DEF Applied
<1>6. n.st = "next" => n.plan = Tail(j.plan) /\ Head(n.plan).side = "egr"
    BY <1>1 DEF Applied
<1>7. \A q \in Procs, m \in Lanes, h \in Sides : Working(q, m, h)' <=> q # p /\ Working(q, m, h)
    BY <1>1 DEF Applied
<1>8. /\ DistinctInv /\ ApartInv /\ FreeInv /\ Exclusive
      /\ lost = {} /\ PromptInv /\ IngressMirror
    BY DEF SerialInv, CarefulInv, MirrorInv
<1>9. /\ i.sess \in Sessions \cup {None} /\ None \notin Sessions /\ None \notin Fchs
      /\ i.op = "delete" => i.sess = None
      /\ i.op = "update" /\ k = "ingr" => i.sess \in Sessions
    BY <1>3, IoctlType, ChainAssumption
<1>10. k = "ingr" => \A g \in Fchs : soft[l][g]["ingr"] = s => g = j.fch /\ i.op = "delete"
    <2>1. k = "ingr" => r.session = s
        BY <1>3, <1>4 DEF HasKey
    <2> QED
        BY <1>2, <1>5, <2>1, OwnEntry
<1>11. k = "ingr" => soft[l][j.fch]["ingr"] = IF i.op = "update" THEN None ELSE s
    <2>1. ASSUME k = "ingr", i.op = "update" PROVE soft[l][j.fch]["ingr"] = None
        BY <1>3, <1>8, <2>1 DEF FreeInv, OnIngress
    <2>2. ASSUME k = "ingr", i.op = "delete" PROVE soft[l][j.fch]["ingr"] = s
        BY <1>4, <2>2 DEF Deleted
    <2> QED
        BY <1>5, <2>1, <2>2 DEF Changes
<1>12. \A m \in Lanes, g \in Fchs, h \in Sides :
          soft'[m][g][h] = IF m = l /\ g = j.fch /\ h = k THEN i.sess ELSE soft[m][g][h]
    BY <1>5 DEF Copies
<1>13. ASSUME NEW q \in Procs, NEW m \in Lanes, NEW h \in Sides, Answered(q, m, h), q # p
       PROVE  Answered(q, m, h)' /\ job'[q] = job[q]
    <2>1. Working(q, m, h)' /\ job'[q] = job[q]
        BY <1>5, <1>7, <1>13 DEF Answered, Moves
    <2> QED
        BY <1>5, <1>13, <2>1 DEF Answered
<1>14. \A m \in Lanes, h \in Sides : Answered(p, m, h) => m = l /\ h = k
    BY <1>3 DEF Answered, Working
<1>15. "ingr" \in Sides /\ "egr" \in Sides
    BY DEF Sides
<1>16. IngressMirror'
    <2> SUFFICES ASSUME NEW m \in Lanes, NEW t \in Sessions
                 PROVE  \/ \A f \in Fchs : ingr'[m][t] = f <=> soft'[m][f]["ingr"] = t
                        \/ /\ \E q \in Procs : Answered(q, m, "ingr")'
                           /\ regs'[m]["ingr"].session = t
        BY DEF IngressMirror
    <2>1. \/ \A f \in Fchs : ingr[m][t] = f <=> soft[m][f]["ingr"] = t
          \/ (\E q \in Procs : Answered(q, m, "ingr")) /\ regs[m]["ingr"].session = t
        BY <1>8 DEF IngressMirror
    <2>2. CASE ~ (m = l /\ k = "ingr")
        <3>1. \A f \in Fchs : soft'[m][f]["ingr"] = soft[m][f]["ingr"]
            BY <1>12, <1>15, <2>2
        <3>2. \A q \in Procs : Answered(q, m, "ingr") => Answered(q, m, "ingr")'
            BY <1>13, <1>14, <1>15, <2>2
        <3> QED
            BY <1>5, <2>1, <3>1, <3>2
    <2>3. CASE m = l /\ k = "ingr" /\ t # s
        <3>1. regs[m]["ingr"].session = s
            BY <1>3, <1>4, <2>3 DEF HasKey
        <3>2. \A f \in Fchs : ingr[m][t] = f <=> soft[m][f]["ingr"] = t
            BY <2>1, <2>3, <3>1
        <3>3. soft[m][j.fch]["ingr"] # t
            BY <1>9, <1>11, <2>3
        <3>4. i.sess # t
            BY <1>4, <1>5, <1>9, <2>3 DEF Changes
        <3>5. \A f \in Fchs : soft'[m][f]["ingr"] = IF f = j.fch THEN i.sess ELSE soft[m][f]["ingr"]
            BY <1>12, <1>15, <2>3
        <3> QED
            BY <1>5, <3>2, <3>3, <3>4, <3>5
    <2>4. CASE m = l /\ k = "ingr" /\ t = s
        <3>1. ingr[m][s] = IF i.op = "update" THEN j.fch ELSE None
            BY <1>3, <1>4, <1>5, <2>4 DEF Effect, Changes
        <3>2. \A f \in Fchs : soft'[m][f]["ingr"] = IF f = j.fch THEN i.sess ELSE soft[m][f]["ingr"]
            BY <1>12, <1>15, <2>4
        <3>3. CASE i.op = "update"
            <4>1. ingr'[m][t] = j.fch /\ i.sess = t
                BY <1>4, <1>5, <2>4, <3>1, <3>3
            <4>2. \A f \in Fchs : soft[m][f]["ingr"] # t
                BY <1>10, <2>4, <3>3
            <4> QED
                BY <1>3, <3>2, <4>1, <4>2
        <3>4. CASE i.op = "delete"
            <4>1. ingr'[m][t] = None /\ i.sess = None
                BY <1>4, <1>5, <1>9, <2>4, <3>1, <3>4
            <4>2. \A f \in Fchs : f # j.fch => soft[m][f]["ingr"] # t
                BY <1>10, <2>4
            <4>3. \A f \in Fchs : f # None
                BY ChainAssumption
            <4>4. t # None
                BY ChainAssumption
            <4>5. \A f \in Fchs : soft'[m][f]["ingr"] # t
                BY <3>2, <4>1, <4>2, <4>4
            <4> QED
                BY <4>1, <4>3, <4>5
        <3> QED
            BY <1>5, <3>3, <3>4 DEF Changes
    <2> QED
        BY <2>2, <2>3, <2>4
<1>17. PromptInv'
    <2> SUFFICES ASSUME NEW m \in Lanes, NEW h \in Sides, Pending(regs[m][h])
                 PROVE  Polled(m, h)'
        BY <1>5 DEF PromptInv, Pending
    <2>1. PICK q \in Procs : Working(q, m, h) /\ job[q].st = "poll"
        BY <1>8 DEF PromptInv, Polled
    <2>2. q # p
        BY <1>3, <1>5, <2>1 DEF Working, Pending
    <2> QED
        BY <1>5, <1>7, <2>1, <2>2 DEF Polled, Moves
<1> QED
    BY <1>5, <1>8, <1>16, <1>17 DEF MirrorInv

LEMMA MirrorServe ==
    ASSUME SerialInv, MirrorInv, NEW l \in Lanes, NEW k \in Sides, Serve(l, k), UNCHANGED env
    PROVE  MirrorInv'
<1>1. PICK r, u : /\ Served(l, k, r, u)
                  /\ k = "ingr" => ServedIngress(l, r) /\ egr' = egr
                  /\ k = "egr" => ServedEgress(l, r) /\ ingr' = ingr
    BY ServedFacts
<1>2. /\ r = regs[l][k] /\ r \in Regs /\ r.req # "none" /\ ~ r.resp
      /\ u.resp = TRUE /\ Sets(l, k, u) /\ (k = "ingr" => u.session = r.session)
      /\ UNCHANGED <<soft, job, lost, env>>
    BY <1>1 DEF Served
<1>3. k = "ingr" \/ k = "egr"
    BY DEF Sides
<1>4. "ingr" \in Sides /\ "egr" \in Sides
    BY DEF Sides
<1>5. \A q \in Procs, m \in Lanes, h \in Sides : Working(q, m, h)' <=> Working(q, m, h)
    BY <1>2 DEF Working
<1>6. lost = {} /\ PromptInv /\ IngressMirror
    BY DEF MirrorInv
<1>7. \A q \in Procs, m \in Lanes, h \in Sides :
          Answered(q, m, h) => Answered(q, m, h)' /\ (m # l \/ h # k)
    <2> SUFFICES ASSUME NEW q \in Procs, NEW m \in Lanes, NEW h \in Sides, Answered(q, m, h)
                 PROVE  Answered(q, m, h)' /\ (m # l \/ h # k)
        OBVIOUS
    <2>1. m # l \/ h # k
        BY <1>2 DEF Answered
    <2>2. regs'[m][h] = regs[m][h]
        BY <1>2, <2>1 DEF Sets
    <2> QED
        BY <1>2, <1>5, <2>1, <2>2 DEF Answered
<1>8. ASSUME r.req # "read"
      PROVE  \E q \in Procs : /\ Answered(q, l, k)'
                              /\ k = "egr" => job[q].fch = r.channel
    <2>1. Pending(r)
        BY <1>2, <1>8 DEF Pending, Changes, Regs
    <2>2. PICK q \in Procs : Working(q, l, k) /\ job[q].st = "poll"
        BY <1>2, <1>6, <2>1 DEF PromptInv, Polled
    <2>3. PICK j, i, n, h, x : \E s \in Sessions \cup {None} : Polling(q, j, i, n, h, x, s)
        BY <2>2, PollFacts
    <2>4. /\ j = job[q] /\ i = Head(j.plan) /\ n = j.lane /\ h = i.side /\ x = regs[n][h]
          /\ x.req = i.op /\ \E s : HasKey(i, j.fch, s, x)
        BY <2>3 DEF Polling
    <2>5. n = l /\ h = k /\ x = r
        BY <1>2, <2>2, <2>4 DEF Working
    <2>6. i.op \in Changes /\ (k = "egr" => r.channel = j.fch)
        BY <2>1, <2>4, <2>5 DEF Pending, HasKey
    <2>7. Working(q, l, k)' /\ regs'[l][k].resp
        BY <1>2, <1>5, <2>2 DEF Sets
    <2> QED
        BY <1>2, <2>2, <2>4, <2>6, <2>7 DEF Answered
<1>9. IngressMirror'
    <2> SUFFICES ASSUME NEW m \in Lanes, NEW t \in Sessions
                 PROVE  \/ \A f \in Fchs : ingr'[m][t] = f <=> soft[m][f]["ingr"] = t
                        \/ /\ \E q \in Procs : Answered(q, m, "ingr")'
                           /\ regs'[m]["ingr"].session = t
        BY <1>2 DEF IngressMirror
    <2>1. \/ \A f \in Fchs : ingr[m][t] = f <=> soft[m][f]["ingr"] = t
          \/ (\E q \in Procs : Answered(q, m, "ingr")) /\ regs[m]["ingr"].session = t
        BY <1>6 DEF IngressMirror
    <2>2. CASE m # l \/ k # "ingr" \/ r.req = "read" \/ t # r.session
        <3>1. ingr'[m][t] = ingr[m][t]
            BY <1>1, <1>3, <2>2 DEF ServedIngress
        <3>2. \A q \in Procs : Answered(q, m, "ingr") =>
                  Answered(q, m, "ingr")' /\ regs'[m]["ingr"] = regs[m]["ingr"]
            BY <1>2, <1>4, <1>7 DEF Sets
        <3> QED
            BY <2>1, <3>1, <3>2
    <2>3. CASE m = l /\ k = "ingr" /\ r.req # "read" /\ t = r.session
        <3>1. regs'[m]["ingr"].session = t
            BY <1>2, <2>3 DEF Sets
        <3> QED
            BY <1>8, <2>3, <3>1
    <2> QED
        BY <2>2, <2>3
<1>10. PromptInv'
    <2> SUFFICES ASSUME NEW m \in Lanes, NEW h \in Sides, Pending(regs'[m][h])
                 PROVE  Polled(m, h)'
        BY DEF PromptInv, Pending
    <2>1. m # l \/ h # k
        BY <1>2 DEF Pending, Sets
    <2>2. Pending(regs[m][h])
        BY <1>2, <2>1 DEF Sets
    <2> QED
        BY <1>2, <1>5, <1>6, <2>2 DEF PromptInv, Polled
<1> QED
    BY <1>2, <1>6, <1>9, <1>10 DEF MirrorInv

LEMMA MirrorInit == ASSUME Init PROVE MirrorInv
<1>1. lost = {}
    BY DEF Init
<1>2. /\ \A l \in Lanes, f \in Fchs, k \in Sides : soft[l][f][k] = None
      /\ \A l \in Lanes, s \in Sessions : ingr[l][s] = None
    BY DEF Init
<1>3. "ingr" \in Sides /\ "egr" \in Sides /\ None \notin Fchs /\ None \notin Sessions
    BY ChainAssumption DEF Sides
<1>4. IngressMirror
    BY <1>2, <1>3 DEF IngressMirror
<1>5. \A l \in Lanes, k \in Sides : regs[l][k].req = "none"
    <2>1. \A l \in Lanes, k \in Sides :
              regs[l][k] = [req |-> "none", session |-> None, channel |-> None, resp |-> FALSE]
        BY DEF Init
    <2> QED
        BY <2>1
<1>6. PromptInv
    BY <1>5 DEF PromptInv, Pending, Changes
<1> QED
    BY <1>1, <1>4, <1>6 DEF MirrorInv

LEMMA MirrorStutter ==
    ASSUME MirrorInv, UNCHANGED vars
    PROVE  MirrorInv'
<1>1. UNCHANGED <<env, soft, ingr, egr, regs, job, lost>>
    BY DEF vars
<1>2. lost = {} /\ PromptInv /\ IngressMirror
    BY DEF MirrorInv
<1>3. \A q \in Procs, m \in Lanes, h \in Sides : Working(q, m, h)' <=> Working(q, m, h)
    BY <1>1 DEF Working
<1>4. \A q \in Procs, m \in Lanes, h \in Sides : Answered(q, m, h) =>
          Answered(q, m, h)' /\ job'[q] = job[q] /\ regs'[m][h] = regs[m][h]
    BY <1>1, <1>3 DEF Answered
<1>5. IngressMirror'
    BY <1>1, <1>2, <1>4, MirrorStill
<1>6. PromptInv'
    BY <1>1, <1>2, <1>3 DEF PromptInv, Pending, Polled
<1> QED
    BY <1>1, <1>2, <1>5, <1>6 DEF MirrorInv

LEMMA MirrorNext ==
    ASSUME SerialInv, CarefulInv, MirrorInv, env.careful, ~ env.timeout, [Next]_vars
    PROVE  MirrorInv'
<1>1. CASE UNCHANGED vars
    BY <1>1, MirrorStutter
<1>2. CASE Next
    <2>0. UNCHANGED env /\ Step
        BY <1>2 DEF Next
    <2>1. ASSUME NEW p \in Procs, Begin(p) PROVE MirrorInv'
        BY <2>0, <2>1, MirrorJobStep
    <2>2. ASSUME NEW p \in Procs, Inside(p) PROVE MirrorInv'
        <3>1. CASE WriteReg(p)
            BY <2>0, <3>1, MirrorWriteReg
        <3>2. CASE PollHit(p)
            <4>1. CASE Head(job[p].plan).op = "read"
                BY <2>0, <3>2, <4>1, MirrorPollRead
            <4>2. CASE Head(job[p].plan).op # "read"
                BY <2>0, <3>2, <4>2, MirrorPollChange
            <4> QED
                BY <4>1, <4>2
        <3>3. ~ PollTimeout(p)
            BY DEF PollTimeout
        <3>4. CASE Fetch(p) \/ Return(p)
            BY <2>0, <3>4, MirrorJobStep
        <3> QED
            BY <2>2, <3>1, <3>2, <3>3, <3>4 DEF Inside
    <2>3. ASSUME NEW p \in Procs, NEW l \in Lanes, NEW f \in Fchs, NEW r \in Requests,
                 Call(p, l, f, r)
          PROVE  MirrorInv'
        BY <2>0, <2>3, MirrorCall
    <2>4. ASSUME NEW l \in Lanes, NEW k \in Sides, Serve(l, k) PROVE MirrorInv'
        BY <2>0, <2>4, MirrorServe
    <2> QED
        BY <2>0, <2>1, <2>2, <2>3, <2>4 DEF Step
<1> QED
    BY <1>1, <1>2

\* The whole invariant, by what the callers and the FPGA keep to.
THEOREM ChainInvariant == Spec => []ChainInv
<1>1. Init => ChainInv
    BY SerialInit, CarefulInit, PairInit, MirrorInit DEF ChainInv
<1>2. ChainInv /\ [Next]_vars => ChainInv'
    <2> SUFFICES ASSUME ChainInv, [Next]_vars, env'.serial
                 PROVE  /\ SerialInv' /\ (env'.careful => CarefulInv' /\ PairInv')
                        /\ env'.careful /\ ~ env'.timeout => MirrorInv'
        BY DEF ChainInv
    <2>1. env' = env
        BY DEF Next, vars
    <2>2. SerialInv'
        BY <2>1, SerialNext DEF ChainInv
    <2>3. env'.careful => CarefulInv'
        BY <2>1, CarefulNext DEF ChainInv
    <2>4. env'.careful => PairInv'
        BY <2>1, PairNext DEF ChainInv
    <2>5. env'.careful /\ ~ env'.timeout => MirrorInv'
        BY <2>1, MirrorNext DEF ChainInv
    <2> QED
        BY <2>2, <2>3, <2>4, <2>5
<1> QED
    BY <1>1, <1>2, PTL DEF Spec

\* When the FPGA answers in time and the callers are careful, its tables hold
\* between ioctls the chains of the driver's copy and nothing else, so that
\* fpga_chain_disconnect() can remove every session that is forwarded.
THEOREM TablesMirrorCopy == Spec => [](env.serial => Mirror)
<1>1. ChainInv => (env.serial => Mirror)
    <2> SUFFICES ASSUME PairInv, MirrorInv PROVE Mirror
        BY DEF ChainInv, Mirror
    <2>1. lost = {} /\ EgressMirror /\ IngressMirror
        BY DEF PairInv, MirrorInv
    <2> SUFFICES ASSUME NEW l \in Lanes
                 PROVE  /\ (\A p \in Procs : ~ Working(p, l, "egr")) =>
                              \A f \in Fchs : egr[l][f] = soft[l][f]["egr"]
                        /\ (\A p \in Procs : ~ Working(p, l, "ingr")) =>
                              \A f \in Fchs, s \in Sessions :
                                  ingr[l][s] = f <=> soft[l][f]["ingr"] = s
        BY DEF Mirror
    <2>2. (\A p \in Procs : ~ Working(p, l, "egr")) =>
              \A f \in Fchs : egr[l][f] = soft[l][f]["egr"]
        BY <2>1 DEF EgressMirror, Answered
    <2>3. (\A p \in Procs : ~ Working(p, l, "ingr")) =>
              \A f \in Fchs, s \in Sessions : ingr[l][s] = f <=> soft[l][f]["ingr"] = s
        BY <2>1 DEF IngressMirror, Answered
    <2> QED
        BY <2>2, <2>3
<1> QED
    BY <1>1, ChainInvariant, PTL

\* A fpga_chain_connect() that fails, whenever the FPGA answers, leaves neither
\* side set but for a side whose own request timed out: the rollback reaches the
\* session the call was given, and no request of another call sets it again.
THEOREM ConnectIsAllOrNothing == Spec => [](env.serial => AllOrNothing)
<1>1. ASSUME ChainInv, env.serial, env.careful,
             NEW p \in Procs, job[p].st = "done", job[p].call = "connect", ~ job[p].ok,
             NEW l, NEW f, l = job[p].lane, f = job[p].fch
      PROVE  /\ <<l, f, "egr">> \notin lost => egr[l][f] = soft[l][f]["egr"]
             /\ <<l, f, "ingr">> \notin lost => ingr[l][job[p].sess] # f
    <2>1. JobsInv /\ ApartInv /\ EgressMirror /\ ConnectInv
        BY <1>1 DEF ChainInv, SerialInv, CarefulInv, PairInv
    <2>2. l \in Lanes /\ f \in Fchs
        BY <1>1, <2>1, JobRecord
    <2>3. ASSUME NEW q \in Procs, Answered(q, l, "egr") PROVE job[q].fch # f
        <3>1. q # p /\ job[q].st # "idle" /\ job[q].lane = l
            BY <1>1, <2>3 DEF Answered, Working
        <3> QED
            BY <1>1, <2>1, <3>1 DEF ApartInv
    <2>4. <<l, f, "egr">> \notin lost => egr[l][f] = soft[l][f]["egr"]
        BY <2>1, <2>2, <2>3 DEF EgressMirror
    <2>5. <<l, f, "ingr">> \notin lost => ingr[l][job[p].sess] # f
        BY <1>1, <2>1 DEF ConnectInv, ConnectOK
    <2> QED
        BY <2>4, <2>5
<1>2. ChainInv => (env.serial => AllOrNothing)
    BY <1>1 DEF AllOrNothing
<1> QED
    BY <1>2, ChainInvariant, PTL
=============================================================================
