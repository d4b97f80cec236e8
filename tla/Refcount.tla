------------------------------- MODULE Refcount -------------------------------
(***************************************************************************)
(* The reference count that keeps users of a device and its                *)
(* reconfiguration apart: xpcie_fpga_control_refcount() of                 *)
(* driver/libxpcie.c, and its callers in lib/libfpga/src/libfpgabs.c, the  *)
(* acquire, release and cleanup calls and __fpga_config_region().          *)
(*                                                                         *)
(* Each command runs under lock_refcount and is one step; a command that   *)
(* is refused changes nothing.  The driver's default build counts in the   *)
(* one register block GLOBAL.  The count belongs to no file: nothing is    *)
(* given back when a process dies, and the driver cannot tell whose use a  *)
(* release ends.                                                           *)
(***************************************************************************)
EXTENDS Integers, FiniteSets

CONSTANTS Users,   \* the processes
          Uses,    \* one for each acquire that can be in effect
          Nobody, Dead

ASSUME RefcountAssumption ==
    /\ IsFiniteSet(Uses)
    /\ Nobody \notin Users /\ Dead \notin Users /\ Nobody /= Dead

VARIABLES refcount,   \* dev->mods.global.refcount[0]
          pc,         \* where a process is in __fpga_config_region()
          user,       \* history: who has made this acquire and not released it
          deadWriter  \* history: a process has died in __fpga_config_region()

countVars == <<refcount, pc, user, deadWriter>>

\* The steps of __fpga_config_region() after it has got the writing mode.
Writing == {"mcap", "update", "setup", "cms", "clear"}

\* Acquires in effect: those of dead processes still count.
InEffect == {u \in Uses : user[u] /= Nobody}
Writers == {p \in Users : pc[p] \in Writing}

CountTypeOK ==
    /\ refcount \in Int
    /\ pc \in [Users -> {"idle"} \cup Writing]
    /\ user \in [Uses -> Users \cup {Nobody, Dead}]
    /\ deadWriter \in BOOLEAN

CountInit ==
    /\ refcount = 0
    /\ pc = [p \in Users |-> "idle"]
    /\ user = [u \in Uses |-> Nobody]
    /\ deadWriter = FALSE
-----------------------------------------------------------------------------
(* The commands on the count.                                              *)

\* XPCIE_DEV_REFCOUNT_INC: refused while the count is -1, or below.
Inc == refcount >= 0 /\ refcount' = refcount + 1

\* XPCIE_DEV_REFCOUNT_DEC: refused, besides, at 0.
Dec == refcount > 0 /\ refcount' = refcount - 1

\* Mutant of Write: a count above 0 is not refused.
WriteAny == refcount >= 0 /\ refcount' = -1

\* XPCIE_DEV_REFCOUNT_WRITE: only from 0.
Write == refcount = 0 /\ refcount' = -1

\* XPCIE_DEV_REFCOUNT_CLEAR: from -1 to 0, and otherwise refused, which the
\* caller ignores.
Clear == refcount' = IF refcount = -1 THEN 0 ELSE refcount

\* XPCIE_DEV_REFCOUNT_RST
Rst == refcount' = 0
-----------------------------------------------------------------------------
(* The calls of libfpgabs.                                                 *)

Acquire(p, u) ==
    /\ pc[p] = "idle" /\ user[u] = Nobody
    /\ Inc
    /\ user' = [user EXCEPT ![u] = p]
    /\ UNCHANGED <<pc, deadWriter>>

\* The driver would take a release of anybody's use: that p releases what p
\* has acquired is left to the callers.
Release(p, u) ==
    /\ pc[p] = "idle" /\ user[u] = p
    /\ Dec
    /\ user' = [user EXCEPT ![u] = Nobody]
    /\ UNCHANGED <<pc, deadWriter>>

\* The driver would also take a cleanup at any time: that it is made only to
\* forget the dead is left to the callers.
Cleanup(p) ==
    /\ pc[p] = "idle"
    /\ Writers = {} /\ \A u \in Uses : user[u] \notin Users
    /\ Rst
    /\ user' = [u \in Uses |-> Nobody]
    /\ deadWriter' = FALSE
    /\ UNCHANGED pc

\* __fpga_config_region(): get the writing mode, or return.
ConfigBegin(p) ==
    /\ pc[p] = "idle"
    /\ Write
    /\ pc' = [pc EXCEPT ![p] = "mcap"]
    /\ UNCHANGED <<user, deadWriter>>

\* Mutant of ConfigStep: a failure returns at once.
ConfigStepReturns(p, here, next) ==
    /\ pc[p] = here
    /\ pc' = [pc EXCEPT ![p] = next] \/ pc' = [pc EXCEPT ![p] = "idle"]
    /\ UNCHANGED <<refcount, user, deadWriter>>

\* Mutant of ConfigStep: a failure starts over.
ConfigStepRetries(p, here, next) ==
    /\ pc[p] = here
    /\ pc' = [pc EXCEPT ![p] = next] \/ pc' = [pc EXCEPT ![p] = "mcap"]
    /\ UNCHANGED <<refcount, user, deadWriter>>

\* One of the steps that follow.  Each may fail, which leads to "finish".
ConfigStep(p, here, next) ==
    /\ pc[p] = here
    /\ pc' = [pc EXCEPT ![p] = next] \/ pc' = [pc EXCEPT ![p] = "clear"]
    /\ UNCHANGED <<refcount, user, deadWriter>>

\* mcap writes the bitstream; the driver looks at the modules again; the LLDMA
\* buffers are set; the CMS is taken out of reset.
RunMcap(p) == ConfigStep(p, "mcap", "update")
UpdateInfo(p) == ConfigStep(p, "update", "setup")
SetupBuffer(p) == ConfigStep(p, "setup", "cms")
UnresetCms(p) == ConfigStep(p, "cms", "clear")

\* finish: give the writing mode back.
ConfigEnd(p) ==
    /\ pc[p] = "clear"
    /\ Clear
    /\ pc' = [pc EXCEPT ![p] = "idle"]
    /\ UNCHANGED <<user, deadWriter>>

\* A process dies: the count stays, also if the process was writing.
Die(p) ==
    /\ user' = [u \in Uses |-> IF user[u] = p THEN Dead ELSE user[u]]
    /\ deadWriter' = (deadWriter \/ pc[p] \in Writing)
    /\ pc' = [pc EXCEPT ![p] = "idle"]
    /\ UNCHANGED refcount

Config(p) ==
    ConfigBegin(p) \/ RunMcap(p) \/ UpdateInfo(p) \/ SetupBuffer(p) \/ UnresetCms(p)
        \/ ConfigEnd(p)

CountNext ==
    \E p \in Users :
        \/ Config(p) \/ Cleanup(p) \/ Die(p)
        \/ \E u \in Uses : Acquire(p, u) \/ Release(p, u)

CountSpec == CountInit /\ [][CountNext]_countVars

\* __fpga_config_region() does not wait for anybody once it is writing, and
\* mcap is assumed to end.
FairCountSpec ==
    CountSpec /\ \A p \in Users : WF_countVars(Config(p) /\ pc[p] \in Writing)
-----------------------------------------------------------------------------
(* Properties.                                                             *)

\* A bitstream is written by one process at a time, and not while a process
\* that lives has acquired the device, whoever has died before.
Exclusion ==
    \A p \in Writers :
        /\ \A q \in Writers : q = p
        /\ \A u \in Uses : user[u] \notin Users

\* The count is -1 from the moment the writing mode is granted until it is
\* given back, after a writer's death until the cleanup, and otherwise the
\* number of acquires not released: no sequence of calls and deaths makes the
\* driver refuse a release, or forget a use.
CountIsUses ==
    IF Writers = {} /\ ~ deadWriter THEN refcount = Cardinality(InEffect)
                                    ELSE refcount = -1 /\ InEffect = {}

\* What makes Exclusion inductive.
RefcountInv ==
    /\ CountTypeOK /\ Exclusion /\ CountIsUses
    /\ deadWriter => Writers = {}

\* Whatever fails in a reconfiguration, the writing mode ends, unless the
\* process that has it dies.
WritingEnds == refcount = -1 ~> refcount /= -1 \/ deadWriter
=============================================================================
