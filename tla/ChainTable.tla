------------------------------ MODULE ChainTable ------------------------------
(***************************************************************************)
(* The function chain table: driver/chain/libxpcie_chain.c programs a      *)
(* table in the FPGA through request registers and keeps a copy of it,     *)
(* dev->fch_dev_table; lib/libfpga/src/libchain.c strings such ioctls      *)
(* together.                                                               *)
(*                                                                         *)
(* The FPGA looks up the ingress side by session, (extif_id, cid), and the *)
(* egress side by function channel, fchid; the driver's copy is by fchid   *)
(* on both sides.  An ioctl writes the registers of its lane and side one  *)
(* by one, polls the response, and updates the copy only if the FPGA       *)
(* answers in time.  There is no lock, and a request that has timed out    *)
(* stays in the registers: the FPGA may serve it later.                    *)
(***************************************************************************)
EXTENDS Sequences

CONSTANTS Procs,       \* the threads that call libchain
          Lanes, Fchs,
          Sessions,    \* the valid (extif_id, cid) pairs
          None,        \* -1 in fch_dev_table, a disabled entry in the FPGA
          Scenarios    \* what the users and the FPGA may do in a behaviour

\* calls: the calls of libchain that are made; timeout: the FPGA may fail to
\* answer in time; serial: a lane's side sees one ioctl at a time, which the
\* driver leaves to its callers; careful: see Careful below.
ASSUME ChainAssumption ==
    /\ None \notin Lanes \cup Fchs \cup Sessions
    /\ \A e \in Scenarios : {e.timeout, e.serial, e.careful} \subseteq BOOLEAN

Sides == {"ingr", "egr"}

\* One ioctl of a call.  sess is what the caller passes: None stands for an
\* extif_id that __fpga_chain_connect() refuses.
Ioctl(op, side, s) == [op |-> op, side |-> side, sess |-> s]
Update(side, s) == Ioctl("update", side, s)
Delete(side) == Ioctl("delete", side, None)
Read(side, s) == Ioctl("read", side, s)

\* The calls of libchain, with the ioctls each makes when all goes well.
Connects ==
    {[call |-> "connect_ingress", plan |-> <<Update("ingr", s)>>] : s \in Sessions}
      \cup {[call |-> "connect_egress", plan |-> <<Update("egr", s)>>] : s \in Sessions}
      \cup {[call |-> "connect", plan |-> <<Update("ingr", s), Update("egr", t)>>] :
              s \in Sessions, t \in Sessions \cup {None}}
Disconnects ==
    {[call |-> "disconnect_ingress", plan |-> <<Delete("ingr")>>],
     [call |-> "disconnect_egress", plan |-> <<Delete("egr")>>],
     [call |-> "disconnect", plan |-> <<Delete("ingr"), Delete("egr")>>]}
Reads ==
    {[call |-> "read_table_ingress", plan |-> <<Read("ingr", s)>>] : s \in Sessions}
      \cup {[call |-> "read_table_egress", plan |-> <<Read("egr", None)>>]}

VARIABLES env,    \* the scenario of this behaviour
          soft,   \* dev->fch_dev_table: the session of a lane, fchid and side
          ingr,   \* the FPGA's ingress table: the fchid of a lane and session
          egr,    \* the FPGA's egress table: the session of a lane and fchid
          regs,   \* the request registers of a lane and side
          job,    \* what each thread is doing
          lost    \* history: entries whose last update or delete timed out

vars == <<env, soft, ingr, egr, regs, job, lost>>

Requests == {r \in Connects \cup Disconnects \cup Reads : r.call \in env.calls}

\* sess is the session that the first ioctl of the call is given.
Idle == [st |-> "idle", call |-> "none", lane |-> None, fch |-> None, sess |-> None,
         plan |-> <<>>, todo |-> <<>>, got |-> None, ok |-> TRUE]

TypeOK ==
    /\ soft \in [Lanes -> [Fchs -> [Sides -> Sessions \cup {None}]]]
    /\ ingr \in [Lanes -> [Sessions -> Fchs \cup {None}]]
    /\ egr \in [Lanes -> [Fchs -> Sessions \cup {None}]]
    /\ regs \in [Lanes -> [Sides -> [req : {"none", "update", "delete", "read"},
                                     session : Sessions \cup {None},
                                     channel : Fchs \cup {None}, resp : BOOLEAN]]]
    /\ lost \subseteq Lanes \X Fchs \X Sides
    /\ \A p \in Procs :
          /\ job[p].st \in {"idle", "next", "write", "poll", "fetch", "done"}
          /\ job[p].st /= "idle" => job[p].lane \in Lanes /\ job[p].fch \in Fchs
          /\ job[p].st \in {"next", "write", "poll", "fetch"} <=> job[p].plan /= <<>>
          /\ job[p].st = "write" <=> job[p].todo /= <<>>

Init ==
    /\ env \in Scenarios
    /\ soft = [l \in Lanes |-> [f \in Fchs |-> [k \in Sides |-> None]]]
    /\ ingr = [l \in Lanes |-> [s \in Sessions |-> None]]
    /\ egr = [l \in Lanes |-> [f \in Fchs |-> None]]
    /\ regs = [l \in Lanes |-> [k \in Sides |->
                 [req |-> "none", session |-> None, channel |-> None, resp |-> FALSE]]]
    /\ job = [p \in Procs |-> Idle]
    /\ lost = {}
-----------------------------------------------------------------------------
(* The steps of a call.                                                    *)

\* A thread calls libchain on function channel f of lane l.
Call(p, l, f, r) ==
    /\ job[p].st = "idle"
    /\ job' = [job EXCEPT ![p] = [Idle EXCEPT !.st = "next", !.call = r.call,
                                  !.lane = l, !.fch = f, !.sess = Head(r.plan).sess,
                                  !.plan = r.plan]]
    /\ UNCHANGED <<soft, ingr, egr, regs, lost>>

\* The ioctl at the head of the plan has succeeded: on to the next.
Advance(j) ==
    IF Tail(j.plan) = <<>> THEN [j EXCEPT !.st = "done", !.plan = <<>>]
                           ELSE [j EXCEPT !.st = "next", !.plan = Tail(@)]

\* Mutant of Abort: no rollback.
AbortOnly(j) == [j EXCEPT !.st = "done", !.ok = FALSE, !.plan = <<>>]

\* It has failed, which ends the call, except that fpga_chain_connect() takes
\* the ingress side back when the egress side cannot be set.
Abort(j) ==
    IF j.call = "connect" /\ Head(j.plan).side = "egr"
    THEN [j EXCEPT !.st = "next", !.ok = FALSE, !.plan = <<Delete("ingr")>>]
    ELSE [j EXCEPT !.st = "done", !.ok = FALSE, !.plan = <<>>]

\* An ioctl is refused before it touches a register: no such session, or no
\* such chain in the driver's copy.  A read by session looks for it on every
\* lane and on both sides.
Refused(l, f, i) ==
    \/ i.op = "update" /\ i.sess = None
    \/ i.op = "delete" /\ soft[l][f][i.side] = None
    \/ /\ i.op = "read" /\ i.side = "ingr"
       /\ \A m \in Lanes, g \in Fchs, k \in Sides : soft[m][g][k] /= i.sess
    \/ i.op = "read" /\ i.side = "egr" /\ soft[l][f]["egr"] = None

Clear == <<"req", "none">>

\* Mutant of Writes: the request is made before its last argument is written.
WritesEarly(l, f, i) ==
    LET sess == IF i.op = "delete" THEN soft[l][f][i.side] ELSE i.sess
        key == IF i.side = "ingr" THEN << <<"session", sess>> >> ELSE << <<"channel", f>> >>
        value == IF i.op /= "update" THEN <<>>
                 ELSE IF i.side = "ingr" THEN << <<"channel", f>> >>
                 ELSE << <<"session", sess>> >>
    IN  <<Clear>> \o key \o << <<"req", i.op>> >> \o value

\* The register writes of an ioctl, in the driver's order.  An ingress delete
\* takes the session from the driver's copy.
Writes(l, f, i) ==
    LET sess == IF i.op = "delete" THEN soft[l][f][i.side] ELSE i.sess
        key == IF i.side = "ingr" THEN << <<"session", sess>> >> ELSE << <<"channel", f>> >>
        value == IF i.op /= "update" THEN <<>>
                 ELSE IF i.side = "ingr" THEN << <<"channel", f>> >>
                 ELSE << <<"session", sess>> >>
    IN  <<Clear>> \o key \o value \o << <<"req", i.op>> >>

Begin(p) ==
    LET j == job[p]
    IN  /\ j.st = "next"
        /\ job' = [job EXCEPT ![p] =
                     IF Refused(j.lane, j.fch, Head(j.plan)) THEN Abort(j)
                     ELSE [j EXCEPT !.st = "write",
                                    !.todo = Writes(j.lane, j.fch, Head(j.plan))]]
        /\ UNCHANGED <<soft, ingr, egr, regs, lost>>

\* chain_reg_write(): the next register.  Writing 0 to the request register
\* takes the request back, and the FPGA's response with it.
WriteReg(p) ==
    LET j == job[p]
        w == Head(j.todo)
        side == Head(j.plan).side
        r == regs[j.lane][side]
    IN  /\ j.st = "write"
        /\ regs' = [regs EXCEPT ![j.lane][side] =
                      [r EXCEPT ![w[1]] = w[2], !.resp = (w /= Clear) /\ r.resp]]
        /\ job' = [job EXCEPT ![p] = [j EXCEPT !.todo = Tail(@),
                                        !.st = IF Len(j.todo) = 1 THEN "poll" ELSE @]]
        /\ UNCHANGED <<soft, ingr, egr, lost>>

\* Mutant of PollHit: a delete leaves the driver's copy alone.
PollHitKeeps(p) ==
    LET j == job[p]
        i == Head(j.plan)
    IN  /\ j.st = "poll" /\ regs[j.lane][i.side].resp
        /\ soft' = IF i.op = "update"
                   THEN [soft EXCEPT ![j.lane][j.fch][i.side] = i.sess] ELSE soft
        /\ lost' = lost \ {<<j.lane, j.fch, i.side>>}
        /\ job' = [job EXCEPT ![p] = IF i.op = "read" THEN [@ EXCEPT !.st = "fetch"]
                                     ELSE Advance(j)]
        /\ UNCHANGED <<ingr, egr, regs>>

\* Mutant of PollHit: the response is not tested.
PollHitEager(p) ==
    LET j == job[p]
        i == Head(j.plan)
    IN  /\ j.st = "poll"
        /\ soft' = IF i.op /= "read"
                   THEN [soft EXCEPT ![j.lane][j.fch][i.side] = i.sess] ELSE soft
        /\ job' = [job EXCEPT ![p] = IF i.op = "read" THEN [@ EXCEPT !.st = "fetch"]
                                     ELSE Advance(j)]
        /\ UNCHANGED <<ingr, egr, regs, lost>>

\* The poll sees the response: the driver's copy follows.
PollHit(p) ==
    LET j == job[p]
        i == Head(j.plan)
    IN  /\ j.st = "poll" /\ regs[j.lane][i.side].resp
        /\ \/ /\ i.op = "read"
              /\ job' = [job EXCEPT ![p].st = "fetch"]
              /\ UNCHANGED <<soft, lost>>
           \/ /\ i.op /= "read"
              /\ soft' = [soft EXCEPT ![j.lane][j.fch][i.side] = i.sess]
              /\ lost' = lost \ {<<j.lane, j.fch, i.side>>}
              /\ job' = [job EXCEPT ![p] = Advance(j)]
        /\ UNCHANGED <<ingr, egr, regs>>

\* The last poll did not see it: -XPCIE_DEV_UPDATE_TIMEOUT.
PollTimeout(p) ==
    LET j == job[p]
        i == Head(j.plan)
    IN  /\ env.timeout
        /\ j.st = "poll" /\ ~ regs[j.lane][i.side].resp
        /\ lost' = IF i.op = "read" THEN lost ELSE lost \cup {<<j.lane, j.fch, i.side>>}
        /\ job' = [job EXCEPT ![p] = Abort(j)]
        /\ UNCHANGED <<soft, ingr, egr, regs>>

\* The read of the register that holds the answer.
Fetch(p) ==
    LET j == job[p]
        i == Head(j.plan)
        r == regs[j.lane][i.side]
    IN  /\ j.st = "fetch"
        /\ job' = [job EXCEPT ![p] = [Advance(j) EXCEPT !.got =
                     IF i.side = "ingr" THEN r.channel ELSE r.session]]
        /\ UNCHANGED <<soft, ingr, egr, regs, lost>>

Return(p) ==
    /\ job[p].st = "done"
    /\ job' = [job EXCEPT ![p] = Idle]
    /\ UNCHANGED <<soft, ingr, egr, regs, lost>>

\* XPCIE_DEV_CHAIN_RESET_SOFT_TABLE: the driver forgets every chain.
ResetSoft ==
    /\ soft' = [l \in Lanes |-> [f \in Fchs |-> [k \in Sides |-> None]]]
    /\ UNCHANGED <<ingr, egr, regs, job, lost>>
-----------------------------------------------------------------------------
(* The FPGA serves the request it finds in the registers of a side.        *)

Serve(l, k) ==
    LET r == regs[l][k]
    IN  /\ r.req /= "none" /\ ~ r.resp
        /\ ingr' = IF k = "ingr" /\ r.req /= "read"
                   THEN [ingr EXCEPT ![l][r.session] =
                           IF r.req = "update" THEN r.channel ELSE None]
                   ELSE ingr
        /\ egr' = IF k = "egr" /\ r.req /= "read"
                  THEN [egr EXCEPT ![l][r.channel] =
                          IF r.req = "update" THEN r.session ELSE None]
                  ELSE egr
        /\ regs' = [regs EXCEPT ![l][k] =
                      CASE r.req /= "read" -> [r EXCEPT !.resp = TRUE]
                        [] r.req = "read" /\ k = "ingr" ->
                             [r EXCEPT !.resp = TRUE, !.channel = ingr[l][r.session]]
                        [] r.req = "read" /\ k = "egr" ->
                             [r EXCEPT !.resp = TRUE, !.session = egr[l][r.channel]]]
        /\ UNCHANGED <<soft, job, lost>>
-----------------------------------------------------------------------------
(* Specifications.                                                         *)

Inside(p) == WriteReg(p) \/ PollHit(p) \/ PollTimeout(p) \/ Fetch(p) \/ Return(p)

\* Thread p is in an ioctl on side k of lane l.
Working(p, l, k) ==
    /\ job[p].st \in {"write", "poll", "fetch"}
    /\ job[p].lane = l /\ Head(job[p].plan).side = k

\* One ioctl at a time on a lane's side.
Exclusive ==
    \A p, q \in Procs : p /= q =>
        \A l \in Lanes, k \in Sides : ~ (Working(p, l, k) /\ Working(q, l, k))

\* Careful callers do not call on a function channel another thread
\* is calling on, and give an ingress side a session only if it has none and
\* nobody has that session.
IngressSessions(plan) == {plan[i].sess : i \in {n \in DOMAIN plan : plan[n].side = "ingr"}}

Careful(p, l, f, r) ==
    /\ \A q \in Procs \ {p} : job[q].st /= "idle" /\ job[q].lane = l =>
          /\ job[q].fch /= f
          /\ IngressSessions(job[q].plan) \cap IngressSessions(r.plan) \subseteq {None}
    /\ r.call \in {"connect", "connect_ingress"} =>
          /\ soft[l][f]["ingr"] = None
          /\ \A g \in Fchs : soft[l][g]["ingr"] \notin IngressSessions(r.plan)

Step ==
    \/ \E p \in Procs : Begin(p) /\ (env.serial => Exclusive')
    \/ \E p \in Procs : Inside(p)
    \/ \E p \in Procs, l \in Lanes, f \in Fchs, r \in Requests :
          Call(p, l, f, r) /\ (env.careful => Careful(p, l, f, r))
    \/ \E l \in Lanes, k \in Sides : Serve(l, k)
    \/ ResetSoft /\ ~ env.careful

Next == Step /\ UNCHANGED env

Spec == Init /\ [][Next]_vars
-----------------------------------------------------------------------------
(* Properties.                                                             *)

Settled(l, f, k) ==
    /\ <<l, f, k>> \notin lost
    /\ \A p \in Procs : ~ (Working(p, l, k) /\ job[p].fch = f)

\* fch_dev_table is what fpga_chain_read_soft_table() and the wait calls show
\* and what a delete works from.  Where the last update or delete was answered
\* in time, the FPGA forwards the egress side as the copy says, whatever calls
\* came in between, timeouts and late answers of other entries included.
EgressSound ==
    \A l \in Lanes, f \in Fchs :
        soft[l][f]["egr"] /= None /\ Settled(l, f, "egr") => egr[l][f] = soft[l][f]["egr"]

\* The same of the ingress side, which the FPGA keeps by session: the session
\* in the copy is forwarded to this function channel and to no other.
IngressSound ==
    \A l \in Lanes, f \in Fchs :
        soft[l][f]["ingr"] /= None /\ Settled(l, f, "ingr")
            => ingr[l][soft[l][f]["ingr"]] = f

\* While the FPGA answers in time, its tables hold between ioctls the chains of
\* the copy and nothing else: no session is forwarded that
\* fpga_chain_disconnect() cannot remove.
Mirror ==
    env.careful /\ ~ env.timeout => \A l \in Lanes :
        /\ (\A p \in Procs : ~ Working(p, l, "egr")) =>
              \A f \in Fchs : egr[l][f] = soft[l][f]["egr"]
        /\ (\A p \in Procs : ~ Working(p, l, "ingr")) =>
              \A f \in Fchs, s \in Sessions :
                  ingr[l][s] = f <=> soft[l][f]["ingr"] = s

\* A fpga_chain_connect() that fails sets no side for which the FPGA answered in
\* time: the egress side is what the driver's copy tells, and the session the
\* caller asked for is not forwarded to the function channel, be the failure that
\* of the egress side after the ingress side was set.  A side whose request
\* timed out (lost) may still be set, whatever libchain.h says of
\* fpga_chain_connect(): "do not set both settings".
AllOrNothing ==
    env.careful => \A p \in Procs :
        LET l == job[p].lane
            f == job[p].fch
        IN  job[p].st = "done" /\ job[p].call = "connect" /\ ~ job[p].ok =>
              /\ <<l, f, "egr">> \notin lost => egr[l][f] = soft[l][f]["egr"]
              /\ <<l, f, "ingr">> \notin lost => ingr[l][job[p].sess] /= f
=============================================================================
